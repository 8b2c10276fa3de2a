----------------------------- MODULE Subtables -----------------------------
(***************************************************************************)
(* How #[dyntable] turns the supertraits and the dyn entries of a trait    *)
(* into the subtables of its vtable: solve_subtables, graph_subtables and  *)
(* the naming of the fields (src/dyntable-macro/src/parse/dyntrait.rs).    *)
(*                                                                         *)
(* The macro runs its loops one iteration per step on an input that the    *)
(* initial state picks from Inputs.                                        *)
(***************************************************************************)
EXTENDS Naturals, Sequences, FiniteSets

CONSTANTS
  Paths,    \* the paths of traits
  Ident,    \* Ident[p]: the last segment of p, a stem followed by digits
  Inputs,   \* the supertrait lists and dyn entries considered
  Root,     \* the trait that is defined
  Stack     \* how many nested calls of graph_subtables the stack holds

(***************************************************************************)
(* A dyn entry `&dyn path: bounds` or `dyn path: bounds`.                  *)
(***************************************************************************)
Entries == [path : Paths, ref : BOOLEAN, bounds : Seq(Paths)]

Idents == [stem : STRING, digits : Seq(0 .. 9)]

ASSUME PathsAssumption == Root \notin Paths /\ Ident \in [Paths -> Idents]

\* More than a chain of all paths needs.
ASSUME StackAssumption == Stack \in Nat /\ IsFiniteSet(Paths) /\ Stack > Cardinality(Paths)

ASSUME InputsAssumption ==
  \A input \in Inputs :
    /\ input.supertraits \in Seq(Paths) /\ Len(input.supertraits) < 10
    /\ input.predicates \in Seq(Entries)

VARIABLES
  input,            \* what the macro was given
  pc,               \* the loop the macro is in, "ok", "error" or "aborted"
  i,                \* the iteration of that loop
  error,            \* which error was returned
  supertrait_map,   \* path -> bounds, for the dyn entries read so far
  specified_paths,  \* the bounds read so far
  ref_tokens,       \* the paths whose & is not consumed yet
  used,             \* used_supertrait_entries
  subtables,        \* the toplevel subtables, each with its graph
  todo,             \* the calls of graph_subtables still to make, and their depth
  used_names,       \* identifier -> how often it was used
  fields            \* the names of the fields

vars == <<input, pc, i, error, supertrait_map, specified_paths, ref_tokens, used,
          subtables, todo, used_names, fields>>

Start ==
  /\ pc = "predicates" /\ i = 1 /\ error = "none"
  /\ supertrait_map = <<>> /\ specified_paths = {} /\ ref_tokens = {}
  /\ used = {} /\ subtables = <<>> /\ todo = <<>>
  /\ used_names = <<>> /\ fields = <<>>

Init == input \in Inputs /\ Start

-----------------------------------------------------------------------------
(* solve_subtables: the loop over the dyn entries                          *)

With(f, key, value) ==
  [k \in DOMAIN f \cup {key} |-> IF k = key THEN value ELSE f[k]]

Fail(what) == pc' = "error" /\ error' = what

\* Mutant: only duplicates within one entry are noticed.
DuplicateWithin(bounds) == \E j, k \in DOMAIN bounds : k < j /\ bounds[k] = bounds[j]

\* Mutant: only duplicates of other entries are noticed.
DuplicateAcross(bounds) == \E j \in DOMAIN bounds : bounds[j] \in specified_paths

\* A bound is a duplicate if it was specified before, in this entry or another.
Duplicate(bounds) ==
  \E j \in DOMAIN bounds :
    bounds[j] \in specified_paths \/ \E k \in 1 .. (j - 1) : bounds[k] = bounds[j]

Predicate ==
  /\ pc = "predicates" /\ i <= Len(input.predicates)
  /\ LET entry == input.predicates[i] IN
     /\ entry.path \notin DOMAIN supertrait_map
     /\ ~Duplicate(entry.bounds)
     /\ specified_paths' = specified_paths \cup {entry.bounds[j] : j \in DOMAIN entry.bounds}
     /\ ref_tokens' = IF entry.ref THEN ref_tokens \cup {entry.path} ELSE ref_tokens
     /\ supertrait_map' = With(supertrait_map, entry.path, entry.bounds)
  /\ i' = i + 1
  /\ UNCHANGED <<input, pc, error, used, subtables, todo, used_names, fields>>

PredicateListed ==
  /\ pc = "predicates" /\ i <= Len(input.predicates)
  /\ input.predicates[i].path \in DOMAIN supertrait_map
  /\ Fail("supertrait already listed")
  /\ UNCHANGED <<input, i, supertrait_map, specified_paths, ref_tokens, used, subtables,
                 todo, used_names, fields>>

PredicateDuplicates ==
  /\ pc = "predicates" /\ i <= Len(input.predicates)
  /\ input.predicates[i].path \notin DOMAIN supertrait_map
  /\ Duplicate(input.predicates[i].bounds)
  /\ Fail("this path is a duplicate")
  /\ UNCHANGED <<input, i, supertrait_map, specified_paths, ref_tokens, used, subtables,
                 todo, used_names, fields>>

PredicatesDone ==
  /\ pc = "predicates" /\ i > Len(input.predicates)
  /\ pc' = "bounds" /\ i' = 1
  /\ UNCHANGED <<input, error, supertrait_map, specified_paths, ref_tokens, used,
                 subtables, todo, used_names, fields>>

-----------------------------------------------------------------------------
(* solve_subtables: the loop over the supertraits, and graph_subtables     *)

\* Mutant: only the first bound is graphed.
CallsFirst(call) ==
  IF call.path \in DOMAIN supertrait_map /\ supertrait_map[call.path] # <<>>
  THEN <<[parent |-> call.path, path |-> supertrait_map[call.path][1], depth |-> call.depth + 1]>>
  ELSE <<>>

\* The calls that a call of graph_subtables makes for the bounds of its path, in order.
Calls(call) ==
  IF call.path \in DOMAIN supertrait_map
  THEN [j \in DOMAIN supertrait_map[call.path] |->
          [parent |-> call.path, path |-> supertrait_map[call.path][j],
           depth |-> call.depth + 1]]
  ELSE <<>>

\* Mutant: the loop does not get past a supertrait without dyn entry.
BoundStuck ==
  /\ pc = "bounds" /\ i <= Len(input.supertraits)
  /\ LET path == input.supertraits[i] IN
     /\ path \in DOMAIN supertrait_map
     /\ subtables' = Append(subtables, [path |-> path, ref |-> path \in ref_tokens,
                                        graph |-> <<>>])
     /\ ref_tokens' = ref_tokens \ {path}
     /\ todo' = <<[parent |-> Root, path |-> path, depth |-> 1]>>
     /\ pc' = "graph"
  /\ UNCHANGED <<input, i, error, supertrait_map, specified_paths, used, used_names, fields>>

\* A supertrait without dyn entry has no subtable.
Bound ==
  /\ pc = "bounds" /\ i <= Len(input.supertraits)
  /\ LET path == input.supertraits[i] IN
     IF path \in DOMAIN supertrait_map
     THEN /\ subtables' = Append(subtables, [path |-> path, ref |-> path \in ref_tokens,
                                             graph |-> <<>>])
          /\ ref_tokens' = ref_tokens \ {path}
          /\ todo' = <<[parent |-> Root, path |-> path, depth |-> 1]>>
          /\ pc' = "graph" /\ UNCHANGED i
     ELSE i' = i + 1 /\ UNCHANGED <<pc, ref_tokens, subtables, todo>>
  /\ UNCHANGED <<input, error, supertrait_map, specified_paths, used, used_names, fields>>

\* Mutant: a subtable is recorded without the trait it was reached from.
GraphNoParent ==
  /\ pc = "graph" /\ todo # <<>> /\ Head(todo).depth <= Stack
  /\ subtables' = [subtables EXCEPT ![Len(subtables)].graph = Append(@, Head(todo).path)]
  /\ todo' = Calls(Head(todo)) \o Tail(todo)
  /\ used' = used \cup {Head(todo).path}
  /\ UNCHANGED <<input, pc, i, error, supertrait_map, specified_paths, ref_tokens,
                 used_names, fields>>

\* One call of graph_subtables: its subtable joins the graph of the toplevel one,
\* which lists every subtable after its parent and its elder siblings.
Graph ==
  /\ pc = "graph" /\ todo # <<>> /\ Head(todo).depth <= Stack
  /\ LET call == Head(todo) IN
     /\ subtables' = [subtables EXCEPT ![Len(subtables)].graph =
                        Append(@, [parent |-> call.parent, path |-> call.path])]
     /\ todo' = Calls(call) \o Tail(todo)
     /\ used' = used \cup {call.path}
  /\ UNCHANGED <<input, pc, i, error, supertrait_map, specified_paths, ref_tokens,
                 used_names, fields>>

\* Nothing stops the recursion but the end of the stack, which ends the compiler.
GraphOverflows ==
  /\ pc = "graph" /\ todo # <<>> /\ Head(todo).depth > Stack
  /\ pc' = "aborted" /\ error' = "stack overflow"
  /\ UNCHANGED <<input, i, supertrait_map, specified_paths, ref_tokens, used, subtables,
                 todo, used_names, fields>>

GraphDone ==
  /\ pc = "graph" /\ todo = <<>>
  /\ pc' = "bounds" /\ i' = i + 1
  /\ UNCHANGED <<input, error, supertrait_map, specified_paths, ref_tokens, used,
                 subtables, todo, used_names, fields>>

\* The two checks after the loop: unused dyn entries, then unused & qualifiers.
BoundsDone ==
  /\ pc = "bounds" /\ i > Len(input.supertraits)
  /\ IF DOMAIN supertrait_map \subseteq used
     THEN IF ref_tokens = {}
          THEN pc' = "naming" /\ UNCHANGED error
          ELSE Fail("& may only be applied to toplevel trait bounds")
     ELSE Fail("dyn trait bound has no relation to the defined trait")
  /\ i' = 1
  /\ UNCHANGED <<input, supertrait_map, specified_paths, ref_tokens, used, subtables,
                 todo, used_names, fields>>

-----------------------------------------------------------------------------
(* The names of the fields                                                 *)

\* The decimal digits of a count; there are fewer than ten subtables.
Digits(count) == <<count>>

\* format!("__vtable_{}{}", name, count), without the prefix all of them have.
Numbered(name, count) == [name EXCEPT !.digits = @ \o Digits(count)]

\* Mutant: the count is read but not stored.
NameCountLost ==
  /\ pc = "naming" /\ i <= Len(subtables)
  /\ LET name == Ident[subtables[i].path] IN
     IF name \in DOMAIN used_names
     THEN fields' = Append(fields, Numbered(name, used_names[name] + 1)) /\ UNCHANGED used_names
     ELSE fields' = Append(fields, name) /\ used_names' = With(used_names, name, 1)
  /\ i' = i + 1
  /\ UNCHANGED <<input, pc, error, supertrait_map, specified_paths, ref_tokens, used,
                 subtables, todo>>

Name ==
  /\ pc = "naming" /\ i <= Len(subtables)
  /\ LET name == Ident[subtables[i].path] IN
     IF name \in DOMAIN used_names
     THEN /\ fields' = Append(fields, Numbered(name, used_names[name] + 1))
          /\ used_names' = With(used_names, name, used_names[name] + 1)
     ELSE /\ fields' = Append(fields, name)
          /\ used_names' = With(used_names, name, 1)
  /\ i' = i + 1
  /\ UNCHANGED <<input, pc, error, supertrait_map, specified_paths, ref_tokens, used,
                 subtables, todo>>

NamesDone ==
  /\ pc = "naming" /\ i > Len(subtables)
  /\ pc' = "ok"
  /\ UNCHANGED <<input, i, error, supertrait_map, specified_paths, ref_tokens, used,
                 subtables, todo, used_names, fields>>

-----------------------------------------------------------------------------

Next ==
  \/ Predicate \/ PredicateListed \/ PredicateDuplicates \/ PredicatesDone
  \/ Bound \/ Graph \/ GraphOverflows \/ GraphDone \/ BoundsDone
  \/ Name \/ NamesDone

Spec == Init /\ [][Next]_vars

-----------------------------------------------------------------------------
(* What the input means                                                    *)

\* The bounds of the dyn entries as a graph on paths.
Children(p) ==
  UNION {{e.bounds[j] : j \in DOMAIN e.bounds} :
           e \in {input.predicates[k] : k \in {k \in DOMAIN input.predicates :
                                                 input.predicates[k].path = p}}}

Closed(S) == \A p \in S : Children(p) \subseteq S

\* The paths that are reached from S along dyn entries.
Reached(S) == {p \in Paths : \A T \in SUBSET Paths : S \subseteq T /\ Closed(T) => p \in T}

EntryPaths == {input.predicates[k].path : k \in DOMAIN input.predicates}

Supertraits == {input.supertraits[k] : k \in DOMAIN input.supertraits}

\* Where the supertraits with a dyn entry are among the first n, and at all.
TopsAmong(n) == {k \in 1 .. n : input.supertraits[k] \in EntryPaths}

TopPositions == TopsAmong(Len(input.supertraits))

\* The place of k in S, in ascending order.
Rank(S, k) == Cardinality({j \in S : j <= k})

\* The positions where a bound is mentioned.
Mentions ==
  UNION {{<<k, j>> : j \in DOMAIN input.predicates[k].bounds} : k \in DOMAIN input.predicates}

\* The rules the messages of the macro state.
ListedOnce ==
  \A k, l \in DOMAIN input.predicates :
    input.predicates[k].path = input.predicates[l].path => k = l

BoundedOnce ==
  \A m, n \in Mentions :
    input.predicates[m[1]].bounds[m[2]] = input.predicates[n[1]].bounds[n[2]] => m = n

Related == EntryPaths \subseteq Reached(Supertraits \cap EntryPaths)

RefsOnTop ==
  \A k \in DOMAIN input.predicates :
    input.predicates[k].ref => input.predicates[k].path \in Supertraits

\* Some supertrait's entries lead back to where they have been.
Circular == \E p \in Reached(Supertraits \cap EntryPaths) : p \in Reached(Children(p))

\* No supertrait is listed twice or is also a bound, so that no trait has two paths to it.
OnePathEach ==
  /\ \A p \in EntryPaths : Children(p) \cap Supertraits = {}
  /\ \A k, l \in TopPositions : input.supertraits[k] = input.supertraits[l] => k = l

-----------------------------------------------------------------------------
(* Properties                                                              *)

\* Every variable has its type.
TypeOK ==
  /\ input.supertraits \in Seq(Paths) /\ input.predicates \in Seq(Entries)
  /\ pc \in {"predicates", "bounds", "graph", "naming", "ok", "error", "aborted"}
  /\ i \in Nat \ {0}
  /\ DOMAIN supertrait_map \subseteq Paths
  /\ \A p \in DOMAIN supertrait_map : supertrait_map[p] \in Seq(Paths)
  /\ specified_paths \subseteq Paths /\ ref_tokens \subseteq Paths /\ used \subseteq Paths
  /\ subtables \in Seq([path : Paths, ref : BOOLEAN,
                        graph : Seq([parent : Paths \cup {Root}, path : Paths])])
  /\ todo \in Seq([parent : Paths \cup {Root}, path : Paths, depth : 1 .. (Stack + 1)])
  /\ fields \in Seq([stem : STRING, digits : Seq(Nat)])

\* The macro accepts exactly the inputs that follow the rules, and the error it returns
\* names a rule the input breaks.  Whatever the inputs are, the stack holds its recursion
\* unless the entries of a supertrait lead in a circle, and then it never does.
VerdictCorrect ==
  /\ pc = "ok" => ListedOnce /\ BoundedOnce /\ Related /\ RefsOnTop /\ ~Circular
  /\ pc = "aborted" => Circular
  /\ pc = "error" =>
       CASE error = "supertrait already listed" -> ~ListedOnce
         [] error = "this path is a duplicate" -> ~BoundedOnce
         [] error = "dyn trait bound has no relation to the defined trait" -> ~Related
         [] OTHER -> ~RefsOnTop

\* The dyn entries read so far never give a trait two parents.
OneParent ==
  \A p, q \in DOMAIN supertrait_map :
    \A j \in DOMAIN supertrait_map[p], k \in DOMAIN supertrait_map[q] :
      supertrait_map[p][j] = supertrait_map[q][k] => p = q /\ j = k

\* A graph below a toplevel trait holds every trait that is reached from it, once, under
\* the trait whose entry lists it and after it.
GraphOf(graph, top) ==
  /\ {graph[g].path : g \in DOMAIN graph} = Reached({top})
  /\ \A g, h \in DOMAIN graph : graph[g].path = graph[h].path => g = h
  /\ graph[1] = [parent |-> Root, path |-> top]
  /\ \A g \in DOMAIN graph \ {1} :
       /\ graph[g].path \in Children(graph[g].parent)
       /\ \E h \in 1 .. (g - 1) : graph[h].path = graph[g].parent

\* A toplevel trait is behind a pointer where its entry says so.
PlacedFor(sub, top) ==
  /\ sub.path = top
  /\ sub.ref <=> \E k \in DOMAIN input.predicates :
                   input.predicates[k].path = top /\ input.predicates[k].ref

\* The first n supertraits have their subtables, in their order ...
ExactUpTo(n) ==
  \A k \in TopsAmong(n) :
    LET sub == subtables[Rank(TopsAmong(n), k)] IN
    PlacedFor(sub, input.supertraits[k]) /\ GraphOf(sub.graph, input.supertraits[k])

\* ... and no others have one.
BuiltFor(n) == Len(subtables) = Cardinality(TopsAmong(n)) /\ ExactUpTo(n)

\* The subtables of an accepted trait are the supertraits with a dyn entry, in the order of
\* the supertrait list, behind a pointer where the entry says so and each with its graph.
SubtablesExact == pc = "ok" /\ OnePathEach => BuiltFor(Len(input.supertraits))

\* No two fields of the vtable have the same name.
FieldNamesDistinct ==
  \A j, k \in DOMAIN fields : fields[j] = fields[k] => j = k

\* The subtables come in the order in which the dyn entries appear.
LayoutFollowsEntries ==
  pc = "ok" => \A s, r \in DOMAIN subtables : s < r =>
    \E k, l \in DOMAIN input.predicates :
      k < l /\ input.predicates[k].path = subtables[s].path
            /\ input.predicates[l].path = subtables[r].path

-----------------------------------------------------------------------------
(* The inductive invariant                                                 *)

\* What is known once the first n dyn entries are read.
Entered(n) ==
  /\ n \in 0 .. Len(input.predicates)
  /\ DOMAIN supertrait_map = {input.predicates[k].path : k \in 1 .. n}
  /\ \A k \in 1 .. n : supertrait_map[input.predicates[k].path] = input.predicates[k].bounds
  /\ \A k \in 1 .. n : \A j \in DOMAIN input.predicates[k].bounds :
       input.predicates[k].bounds[j] \in specified_paths
  /\ \A p \in specified_paths : \E k \in 1 .. n : \E j \in DOMAIN input.predicates[k].bounds :
       input.predicates[k].bounds[j] = p
  /\ \A k, l \in 1 .. n : input.predicates[k].path = input.predicates[l].path => k = l
  /\ \A k, l \in 1 .. n :
       \A j \in DOMAIN input.predicates[k].bounds, m \in DOMAIN input.predicates[l].bounds :
         input.predicates[k].bounds[j] = input.predicates[l].bounds[m] => k = l /\ j = m

RefPaths(n) == {input.predicates[k].path : k \in {k \in 1 .. n : input.predicates[k].ref}}

ReadInv ==
  /\ pc = "predicates" => Entered(i - 1) /\ ref_tokens = RefPaths(i - 1)
                            /\ used = {} /\ todo = <<>>
  /\ pc \notin {"predicates", "error"} => Entered(Len(input.predicates))

Tops == Supertraits \cap EntryPaths

Passed(n) == {input.supertraits[k] : k \in 1 .. n}

PendingCalls == {todo[k] : k \in DOMAIN todo}

Pending == {call.path : call \in PendingCalls}

\* The entries lead from p into a circle.
LeadsToCircle(p) == \E q \in Reached({p}) : q \in Reached(Children(q))

\* The traits between the supertraits and p, if there is no circle.
Ancestors(p) == {q \in Reached(Tops) : p \in Reached({q})}

\* What is known once n supertraits are passed: what they reach is used or still to do, a
\* circle that was entered is not left, and calls are no deeper than their paths unless
\* there is a circle.
Walked(n) ==
  /\ n \in 0 .. Len(input.supertraits)
  /\ ref_tokens = RefPaths(Len(input.predicates)) \ Passed(n)
  /\ Passed(n) \cap EntryPaths \subseteq used \cup Pending
  /\ used \cup Pending \subseteq Reached(Tops)
  /\ \A p \in used : Children(p) \subseteq used \cup Pending
  /\ (\E p \in used : LeadsToCircle(p)) => \E p \in Pending : LeadsToCircle(p)
  /\ ~Circular => \A call \in PendingCalls : call.depth <= Cardinality(Ancestors(call.path))

WalkInv ==
  /\ pc = "bounds" => Walked(i - 1) /\ todo = <<>>
  /\ pc = "graph" => Walked(i)

\* The inductive invariant: the verdict is right where there is one.
VerdictInv ==
  /\ ReadInv /\ WalkInv /\ VerdictCorrect
  /\ pc = "naming" => ListedOnce /\ BoundedOnce /\ Related /\ RefsOnTop /\ ~Circular

PathsOf(s) == {s[k].path : k \in DOMAIN s}

Distinct(s) == \A j, k \in DOMAIN s : s[j].path = s[k].path => j = k

\* A graph and the calls still to make: together they have every trait once that follows
\* those in the graph, and a call is for a bound of a trait in the graph.
Growing(graph, calls, top) ==
  LET traits == PathsOf(graph) \cup PathsOf(calls) IN
  /\ Distinct(graph) /\ Distinct(calls) /\ PathsOf(graph) \cap PathsOf(calls) = {}
  /\ top \in traits /\ traits \subseteq Reached({top})
  /\ \A p \in PathsOf(graph) : Children(p) \subseteq traits
  /\ IF graph = <<>>
     THEN calls = <<[parent |-> Root, path |-> top, depth |-> 1]>>
     ELSE /\ graph[1] = [parent |-> Root, path |-> top]
          /\ \A k \in DOMAIN calls :
               calls[k].parent \in PathsOf(graph) /\ calls[k].path \in Children(calls[k].parent)
          /\ \A g \in DOMAIN graph \ {1} :
               /\ graph[g].path \in Children(graph[g].parent)
               /\ \E h \in 1 .. (g - 1) : graph[h].path = graph[g].parent

\* The inductive invariant: the subtables so far are exact, and the last may be growing.
BuildInv ==
  OnePathEach =>
    /\ pc = "predicates" => subtables = <<>>
    /\ pc = "bounds" => BuiltFor(i - 1)
    /\ pc = "graph" =>
         /\ i \in TopsAmong(i)
         /\ Len(subtables) = Cardinality(TopsAmong(i - 1)) + 1
         /\ ExactUpTo(i - 1)
         /\ PlacedFor(subtables[Len(subtables)], input.supertraits[i])
         /\ Growing(subtables[Len(subtables)].graph, todo, input.supertraits[i])
    /\ pc \in {"naming", "ok"} => BuiltFor(Len(input.supertraits))
=============================================================================
