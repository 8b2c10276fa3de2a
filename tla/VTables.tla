------------------------------- MODULE VTables -------------------------------
(***************************************************************************)
(* The vtables #[dyntable] generates and how calls and upcasts find their  *)
(* way through them (src/dyntable-macro/src/codegen, DynPtr and SubTable   *)
(* in src/src/lib.rs).                                                     *)
(*                                                                         *)
(* The library that makes the value and the program that uses it may be    *)
(* compiled against different versions of the traits.  A vtable is a       *)
(* sequence of words in the memory of the library; the program reads it by *)
(* the layouts of its own version.  One concrete type is enough: no vtable *)
(* refers to another type's.                                               *)
(***************************************************************************)
EXTENDS Naturals, FiniteSets, Sequences, SequencesExt

CONSTANTS
  Traits,
  Methods,      \* the names of methods
  Programs,     \* the trait definitions that compile, each [Traits -> Def]
  MaxMethods,   \* bound on the methods of a trait
  None

(***************************************************************************)
(* What #[dyntable] knows of a trait: its options, its toplevel subtables, *)
(* each with the traits below it under their parents (the tree that        *)
(* solve_subtables makes), and its methods.                                *)
(***************************************************************************)
Child == [parent : Traits, path : Traits]

Subtable == [path : Traits, ref : BOOLEAN, children : Seq(Child)]

Def ==
  [drop : BOOLEAN, layout : BOOLEAN, subtables : Seq(Subtable), methods : Seq(Methods)]

TopLevel(def) == {def.subtables[k].path : k \in DOMAIN def.subtables}

Below(def) ==
  UNION {{def.subtables[k].children[c] : c \in DOMAIN def.subtables[k].children} :
           k \in DOMAIN def.subtables}

\* The traits for which the vtable of t implements SubTable.
SubTables(defs, t) ==
  {t} \cup TopLevel(defs[t]) \cup {child.path : child \in Below(defs[t])}

\* The program has the impls that the generated ones call, and every one of them once.
ImplsExist(defs) ==
  \A t \in Traits :
    /\ \A child \in Below(defs[t]) :
         child.parent \in SubTables(defs, t) /\ child.path \in SubTables(defs, child.parent)
    /\ TopLevel(defs[t]) \cap {child.path : child \in Below(defs[t])} = {}
    /\ \A c, d \in Below(defs[t]) : c.path = d.path => c = d
    /\ t \notin TopLevel(defs[t]) \cup {child.path : child \in Below(defs[t])}

\* No trait is its own supertrait, however far up: every one has a height above those below.
NotCircular(defs) ==
  \E height \in [Traits -> 1 .. Cardinality(Traits)] :
    \A t \in Traits : \A s \in TopLevel(defs[t]) : height[s] < height[t]

Compiles(defs) == ImplsExist(defs) /\ NotCircular(defs)

ASSUME ProgramsAssumption ==
  /\ None \notin Traits /\ IsFiniteSet(Traits)
  /\ \A p \in Programs : p \in [Traits -> Def] /\ Compiles(p)

VARIABLES
  library,   \* the definitions the library is compiled against
  program,   \* those the program is compiled against
  held,      \* the vtable pointer of the DynPtr: trait, static vtable, offset
  goals,     \* the nested calls of SubTable::subtable, innermost first
  cur,       \* the vtable reference these calls have come to
  op,        \* what they are for: an upcast, or a call of a method of a trait
  called     \* the last method call: what was asked for and what ran

vars == <<library, program, held, goals, cur, op, called>>

-----------------------------------------------------------------------------
(* Layout                                                                  *)

Method(t, m) == [is |-> "method", trait |-> t, name |-> m]
Pointer(t) == [is |-> "pointer", trait |-> t, name |-> None]
Word(what) == [is |-> what, trait |-> None, name |-> None]

Words == {Word(what) : what \in {"drop", "size", "align"}}
           \cup {Pointer(t) : t \in Traits} \cup {Method(t, m) : t \in Traits, m \in Methods}

\* The words before the entries: the drop thunk and the layout of the type.
Header(def) ==
  (IF def.drop THEN <<Word("drop")>> ELSE <<>>)
    \o (IF def.layout THEN <<Word("size"), Word("align")>> ELSE <<>>)

MethodWords(defs, t) == [m \in DOMAIN defs[t].methods |-> Method(t, defs[t].methods[m])]

\* What a vtable holds for a subtable: behind & a pointer to the static vtable of its
\* trait, else the whole vtable of its trait.
EntryWords(sub, tables) == IF sub.ref THEN <<Pointer(sub.path)>> ELSE tables[sub.path]

\* The words of the first n subtables.
SubtableWords(def, n, tables) ==
  FlattenSeq([k \in 1 .. n |-> EntryWords(def.subtables[k], tables)])

AllSubtableWords(def, tables) == SubtableWords(def, Len(def.subtables), tables)

Table(defs, tables, t) ==
  Header(defs[t]) \o AllSubtableWords(defs[t], tables) \o MethodWords(defs, t)

\* Mutant: the methods come before the subtables.
VTableMethodsFirst(defs) ==
  LET words[t \in Traits] ==
        Header(defs[t]) \o MethodWords(defs, t) \o AllSubtableWords(defs[t], words)
  IN words

\* The vtable of every trait.
VTable(defs) == LET words[t \in Traits] == Table(defs, words, t) IN words

\* The offset of the subtable at k in the vtable of t.
SubtableOffset(defs, t, k) ==
  Len(Header(defs[t])) + Len(SubtableWords(defs[t], k - 1, VTable(defs)))

MethodOffset(defs, t, m) == Len(VTable(defs)[t]) - Len(defs[t].methods) + m - 1

\* The word at an address of the library's memory.  Beyond a static vtable there is
\* anything; None stands for it.
Read(base, offset) ==
  LET words == VTable(library)[base] IN
  IF offset < Len(words) THEN words[offset + 1] ELSE None

-----------------------------------------------------------------------------
(* Versions                                                                *)

\* The traits whose vtable is inside the vtable of another.
Inlined(defs) ==
  {t \in Traits : \E s \in Traits : \E k \in DOMAIN defs[s].subtables :
                    defs[s].subtables[k].path = t /\ ~defs[s].subtables[k].ref}

Idle == [for |-> "nothing", trait |-> None, method |-> None]

Init ==
  /\ program \in Programs /\ library = program
  /\ held = None /\ goals = <<>> /\ cur = None /\ op = Idle /\ called = None

\* What a newer version of the library may do to a trait: add a method at the end,
\* unless the vtable of the trait is inside another.
AddMethod ==
  /\ held = None
  /\ \E t \in Traits \ Inlined(library), m \in Methods :
       /\ Len(library[t].methods) < MaxMethods
       /\ m \notin {library[t].methods[j] : j \in DOMAIN library[t].methods}
       /\ library' = [library EXCEPT ![t].methods = Append(@, m)]
  /\ UNCHANGED <<program, held, goals, cur, op, called>>

-----------------------------------------------------------------------------
(* The program                                                             *)

\* Mutant: the vtable pointer is not stored.
NewNoVTable ==
  /\ held = None
  /\ held' \in [trait : Traits, base : {None}, offset : {0}]
  /\ UNCHANGED <<library, program, goals, cur, op, called>>

\* The library makes a DynPtr of its value: DynPtr::new stores STATIC_VTABLE.
New ==
  /\ held = None
  /\ held' \in [trait : Traits, base : Traits, offset : {0}]
  /\ held'.base = held'.trait
  /\ UNCHANGED <<library, program, goals, cur, op, called>>

\* DynPtr::upcast, and the one that every upcast of a DynBox or a reference makes.
BeginUpcast ==
  /\ held # None /\ op = Idle
  /\ \E u \in SubTables(program, held.trait) :
       goals' = <<u>> /\ op' = [for |-> "upcast", trait |-> u, method |-> None]
  /\ cur' = held
  /\ UNCHANGED <<library, program, held, called>>

\* A call finds the vtable of the trait of the method, and leaves the pointer alone.
BeginCall ==
  /\ held # None /\ op = Idle
  /\ \E u \in SubTables(program, held.trait) :
       \E m \in DOMAIN program[u].methods :
         /\ goals' = <<u>>
         /\ op' = [for |-> "call", trait |-> u, method |-> program[u].methods[m]]
  /\ cur' = held
  /\ UNCHANGED <<library, program, held, called>>

\* SubTable<V> for V.
Itself ==
  /\ goals # <<>> /\ Head(goals) = cur.trait
  /\ goals' = Tail(goals)
  /\ UNCHANGED <<library, program, held, cur, op, called>>

\* Mutant: the & of an entry is ignored.
GetterInline ==
  /\ goals # <<>> /\ Head(goals) # cur.trait
  /\ \E k \in DOMAIN program[cur.trait].subtables :
       LET sub == program[cur.trait].subtables[k]
           at == cur.offset + SubtableOffset(program, cur.trait, k) IN
       /\ sub.path = Head(goals)
       /\ cur' = [trait |-> sub.path, base |-> cur.base, offset |-> at]
  /\ goals' = Tail(goals)
  /\ UNCHANGED <<library, program, held, op, called>>

\* SubTable for a toplevel subtable: the field, or what it points to.
Getter ==
  /\ goals # <<>> /\ Head(goals) # cur.trait
  /\ \E k \in DOMAIN program[cur.trait].subtables :
       LET sub == program[cur.trait].subtables[k]
           at == cur.offset + SubtableOffset(program, cur.trait, k) IN
       /\ sub.path = Head(goals)
       /\ IF sub.ref
          THEN /\ Read(cur.base, at) \in {Pointer(t) : t \in Traits}
               /\ cur' = [trait |-> sub.path, base |-> Read(cur.base, at).trait, offset |-> 0]
          ELSE cur' = [trait |-> sub.path, base |-> cur.base, offset |-> at]
  /\ goals' = Tail(goals)
  /\ UNCHANGED <<library, program, held, op, called>>

\* Mutant: the impl for a child calls itself.
DelegateSelf ==
  /\ goals # <<>> /\ Head(goals) # cur.trait
  /\ \E child \in Below(program[cur.trait]) :
       child.path = Head(goals) /\ goals' = <<child.path>> \o Tail(goals)
  /\ UNCHANGED <<library, program, held, cur, op, called>>

\* Mutant: the impl for a child is that of its parent.
DelegateToParent ==
  /\ goals # <<>> /\ Head(goals) # cur.trait
  /\ \E child \in Below(program[cur.trait]) :
       child.path = Head(goals) /\ goals' = <<child.parent>> \o Tail(goals)
  /\ UNCHANGED <<library, program, held, cur, op, called>>

\* SubTable for a child: the subtable of its parent's subtable.
Delegate ==
  /\ goals # <<>> /\ Head(goals) # cur.trait
  /\ \E child \in Below(program[cur.trait]) :
       child.path = Head(goals) /\ goals' = <<child.parent>> \o goals
  /\ UNCHANGED <<library, program, held, cur, op, called>>

EndUpcast ==
  /\ op.for = "upcast" /\ goals = <<>>
  /\ held' = cur /\ cur' = None /\ op' = Idle
  /\ UNCHANGED <<library, program, goals, called>>

EndCall ==
  /\ op.for = "call" /\ goals = <<>>
  /\ \E m \in DOMAIN program[cur.trait].methods :
       /\ program[cur.trait].methods[m] = op.method
       /\ called' = [trait |-> op.trait, method |-> op.method,
            ran |-> Read(cur.base, cur.offset + MethodOffset(program, cur.trait, m))]
  /\ cur' = None /\ op' = Idle
  /\ UNCHANGED <<library, program, held, goals>>

-----------------------------------------------------------------------------

Next ==
  \/ AddMethod \/ New \/ BeginUpcast \/ BeginCall
  \/ Itself \/ Getter \/ Delegate \/ EndUpcast \/ EndCall

Spec == Init /\ [][Next]_vars

\* A call or an upcast that has begun goes on to its end.
FairSpec == Spec /\ WF_vars(Itself \/ Getter \/ Delegate \/ EndUpcast \/ EndCall)

-----------------------------------------------------------------------------
(* Properties                                                              *)

VTableRefs == [trait : Traits, base : Traits, offset : Nat]

TableRef == VTableRefs \cup {None}

ASSUME NoneAssumption == None \notin VTableRefs

\* Every variable has its type.
TypeOK ==
  /\ library \in [Traits -> Def] /\ program \in Programs
  /\ held \in TableRef /\ cur \in TableRef
  /\ goals \in Seq(Traits)
  /\ op \in [for : {"nothing", "upcast", "call"}, trait : Traits \cup {None},
             method : Methods \cup {None}]
  /\ called = None \/ called \in [trait : Traits, method : Methods, ran : Words \cup {None}]

Matches(table) ==
  table # None =>
    \A i \in DOMAIN VTable(program)[table.trait] :
      Read(table.base, table.offset + i - 1) = VTable(program)[table.trait][i]

\* Wherever calls and upcasts come to in the library's vtables, every word that the
\* program's version of the trait has is where the program expects it.
WordsInPlace == Matches(held) /\ Matches(cur)

\* The library may differ from the program in methods that were added at the end, to traits
\* that are in no other's vtable.
LibraryNewer ==
  \A t \in Traits :
    /\ library[t].drop = program[t].drop /\ library[t].layout = program[t].layout
    /\ library[t].subtables = program[t].subtables
    /\ Len(program[t].methods) <= Len(library[t].methods)
    /\ \A m \in DOMAIN program[t].methods : library[t].methods[m] = program[t].methods[m]
    /\ t \in Inlined(program) => library[t] = program[t]

\* A call or an upcast is for a trait that the pointer's trait has a subtable of, and the
\* nested calls lead there from where they have come to, one impl at a time.
Underway ==
  /\ op = Idle => goals = <<>> /\ cur = None
  /\ op # Idle =>
       /\ held # None /\ cur # None
       /\ op.for \in {"upcast", "call"} /\ op.trait \in SubTables(program, held.trait)
       /\ op.for = "call" =>
            \E m \in DOMAIN program[op.trait].methods : program[op.trait].methods[m] = op.method
       /\ goals = <<>> => cur.trait = op.trait
       /\ goals # <<>> =>
            Head(goals) \in SubTables(program, cur.trait) /\ goals[Len(goals)] = op.trait
       /\ \A g \in 1 .. (Len(goals) - 1) : goals[g + 1] \in SubTables(program, goals[g])

\* The inductive invariant, with WordsInPlace.
DispatchInv == LibraryNewer /\ Underway

\* Every call runs the method it names on the value's type, and an upcast changes
\* nothing but the trait, whatever the path to the vtable is.
Upcasts == {e \in Traits \X Traits : e[2] \in SubTables(program, e[1])}

TO == INSTANCE TraitObject WITH
        upcasts <- Upcasts,
        trait <- IF held = None THEN None ELSE held.trait,
        called <- called

ImplementsTraitObject == TO!Spec

\* Nested calls of subtable come to an end.
SubtablesFound == goals # <<>> ~> goals = <<>>
=============================================================================
