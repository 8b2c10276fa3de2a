------------------------------- MODULE Borrows -------------------------------
(***************************************************************************)
(* The references to one value and the threads that hold them: DynRef and  *)
(* DynRefMut (src/src/lib.rs), the borrows of a DynBox and its markers     *)
(* (src/src/boxed.rs), and the vtables that promise more markers than      *)
(* their trait (src/src/private.rs).                                       *)
(*                                                                         *)
(* The rules of the borrow checker and of Send are the language's; which   *)
(* loan a function of the crate takes, what it returns and which types are *)
(* Send is the crate's.  References to different values never meet, so     *)
(* that one value of any type is enough.                                   *)
(***************************************************************************)
EXTENDS Naturals

CONSTANTS
  Markers,   \* {"Send", "Sync"}, for what the value's type may implement
  Traits,    \* the dyntable traits the value's type implements
  Objects,   \* the types `dyn of + plus` that the program uses
  Bounds,    \* Bounds[t]: the markers that VTable::Bounds of t implies
  Supers,    \* Supers[t]: the traits t can be upcast to
  Refs,      \* the references that exist at the same time
  Owner,     \* the handle that owns the value
  Threads,
  Home,      \* the thread that makes the value
  None       \* no object, handle or loan

ASSUME BorrowsAssumption ==
  /\ Markers = {"Send", "Sync"}
  /\ Objects \subseteq [of : Traits, plus : SUBSET Markers]
  /\ Owner \notin Refs \cup {None} /\ None \notin Refs \cup Objects
  /\ Home \in Threads
  /\ Bounds \in [Traits -> SUBSET Markers]
  /\ Supers \in [Traits -> SUBSET Traits]
  /\ \A t \in Traits : \A s \in Supers[t] : Bounds[s] \subseteq Bounds[t]

VARIABLES
  impls,     \* the markers the value's type implements
  handles,   \* the owner and the references
  past       \* "aliased": a DynRefMut was made of a &T;
             \* "sent": a DynRefMut was moved to another thread

vars == <<impls, handles, past>>

-----------------------------------------------------------------------------
(* Handles                                                                 *)

Handles == Refs \cup {Owner}

\* The kinds of handles: "value" is a T, "box" a DynBox, "ref" a &T or &DynBox, "mut"
\* a &mut T or &mut DynBox, "dynref" a DynRef and "dynrefmut" a DynRefMut.
Unused == [kind |-> "unused", object |-> None, loan |-> None, parent |-> None, thread |-> Home]

\* A handle has an object if it holds a vtable or refers to a DynBox.  A reference holds
\* a loan, shared or mutable, on its parent.
Handle ==
  LET Of(kinds, objects, loans) ==
        [kind : kinds, object : objects, loan : loans, parent : Handles, thread : Threads] IN
  {Unused}
    \cup Of({"ref"}, Objects \cup {None}, {"shared"}) \cup Of({"mut"}, Objects \cup {None}, {"mut"})
    \cup Of({"dynref"}, Objects, {"shared"}) \cup Of({"dynrefmut"}, Objects, {"shared", "mut"})
    \cup [kind : {"value"}, object : {None}, loan : {None}, parent : {None}, thread : Threads]
    \cup [kind : {"box"}, object : Objects, loan : {None}, parent : {None}, thread : Threads]

Init ==
  /\ impls \in SUBSET Markers
  /\ handles = [h \in Handles |->
                  IF h = Owner THEN [Unused EXCEPT !.kind = "value"] ELSE Unused]
  /\ past = {}

Live(h) == handles[h].kind # "unused"

Loans(h) == {r \in Refs : handles[r].parent = h}

Readable(h) == Live(h) /\ \A r \in Loans(h) : handles[r].loan = "shared"

\* What can be moved out of, or end.
Movable(h) == Live(h) /\ Loans(h) = {}

Writable(h) == Movable(h) /\ handles[h].kind \in {"value", "box", "mut", "dynrefmut"}

\* The handle itself becomes another; its loan stays, as the lifetime does.
Become(h, kind, object) ==
  /\ handles' = [handles EXCEPT ![h].kind = kind, ![h].object = object]
  /\ UNCHANGED impls

\* A new reference, with a loan on h, on the thread of h.
Lend(h, kind, object, loan) ==
  /\ \E r \in Refs :
       /\ ~Live(r)
       /\ handles' = [handles EXCEPT ![r] =
            [kind |-> kind, object |-> object, loan |-> loan, parent |-> h,
             thread |-> handles[h].thread]]
  /\ UNCHANGED <<impls, past>>

(***************************************************************************)
(* The vtable of `dyn of + plus` is that of `of` in a wrapper.             *)
(***************************************************************************)

\* What its Bounds imply: SendWrapper is Send whatever is in it, and Sync if that is.
Implied(object) == Bounds[object.of] \cup object.plus

\* Mutant: a wrapped vtable needs no more than its trait does.
ImplementedBare == {o \in Objects : Bounds[o.of] \subseteq impls}

\* The objects there is a vtable for: DynTrait for the wrappers asks for T: Send, T: Sync
\* or both, and the trait for what it is bounded by.
Implemented == {o \in Objects : Bounds[o.of] \subseteq impls /\ o.plus \subseteq impls}

\* A wrapper implements SubTable for itself only, so that nothing can be called on it ...
Callable(object) == object.plus = {}

\* ... nor can it be upcast.
Upcasts(object) ==
  IF Callable(object) THEN {[of |-> t, plus |-> {}] : t \in Supers[object.of]} \cap Objects ELSE {}

-----------------------------------------------------------------------------
(* The language: `&`, `&mut`, moves between threads and the end of a scope  *)

Borrow(h) ==
  /\ Readable(h) /\ handles[h].kind \in {"value", "box", "mut"}
  /\ Lend(h, "ref", handles[h].object, "shared")

BorrowMut(h) ==
  /\ Writable(h) /\ handles[h].kind # "dynrefmut"
  /\ Lend(h, "mut", handles[h].object, "mut")

\* Which types of the crate are Send or Sync, by what VTable::Bounds implies.
\* DynRef and DynRefMut are never Sync.

BoxSend(object) == "Send" \in Implied(object)

BoxSync(object) == "Sync" \in Implied(object)

\* Mutant: a DynRef is Send if its bounds are Send.
RefSendIfSend(object) == "Send" \in Implied(object)

RefSend(object) == "Sync" \in Implied(object)

RefMutSend(object) == "Sync" \in Implied(object)

\* A reference &T is Send if T is Sync, and &mut T if T is Send.
IsSend(h) ==
  LET kind == handles[h].kind
      object == handles[h].object IN
  \/ kind \in {"value", "mut"} /\ object = None /\ "Send" \in impls
  \/ kind = "ref" /\ object = None /\ "Sync" \in impls
  \/ kind \in {"box", "mut"} /\ object # None /\ BoxSend(object)
  \/ kind = "ref" /\ object # None /\ BoxSync(object)
  \/ kind = "dynref" /\ RefSend(object)
  \/ kind = "dynrefmut" /\ RefMutSend(object)

MoveTo(h, t) ==
  /\ Movable(h) /\ IsSend(h) /\ t # handles[h].thread
  /\ handles' = [handles EXCEPT ![h].thread = t]
  /\ past' = IF handles[h].kind = "dynrefmut" THEN past \cup {"sent"} ELSE past
  /\ UNCHANGED impls

End(h) ==
  /\ Movable(h)
  /\ handles' = [handles EXCEPT ![h] = Unused]
  /\ UNCHANGED <<impls, past>>

-----------------------------------------------------------------------------
(* DynBox                                                                  *)

\* DynBox::new and From<Box<T>>.
BoxNew(h, o) ==
  /\ Movable(h) /\ handles[h].kind = "value" /\ o \in Implemented
  /\ Become(h, "box", o) /\ UNCHANGED past

\* DynBox::borrow takes the &DynBox and keeps its lifetime.
BoxBorrow(h) ==
  /\ Movable(h) /\ handles[h].kind = "ref" /\ handles[h].object # None
  /\ Become(h, "dynref", handles[h].object) /\ UNCHANGED past

BoxBorrowMut(h) ==
  /\ Movable(h) /\ handles[h].kind = "mut" /\ handles[h].object # None
  /\ Become(h, "dynrefmut", handles[h].object) /\ UNCHANGED past

-----------------------------------------------------------------------------
(* DynRef and DynRefMut                                                    *)

\* Mutant: the vtable is not stored.
RefFromNoVTable(h, o) ==
  /\ Movable(h) /\ handles[h].kind = "ref" /\ handles[h].object = None /\ o \in Implemented
  /\ Become(h, "dynref", None) /\ UNCHANGED past

\* DynRef::from(&T).
RefFrom(h, o) ==
  /\ Movable(h) /\ handles[h].kind = "ref" /\ handles[h].object = None /\ o \in Implemented
  /\ Become(h, "dynref", o) /\ UNCHANGED past

\* DynRefMut::from(&T): the argument is a shared reference.
RefMutFrom(h, o) ==
  /\ Movable(h) /\ handles[h].kind = "ref" /\ handles[h].object = None /\ o \in Implemented
  /\ Become(h, "dynrefmut", o) /\ past' = past \cup {"aliased"}

\* &T and DynRef are Copy; DynRef::borrow returns its argument.
Copy(h) ==
  /\ Readable(h) /\ handles[h].kind \in {"ref", "dynref"}
  /\ \E r \in Refs : ~Live(r) /\ handles' = [handles EXCEPT ![r] = handles[h]]
  /\ UNCHANGED <<impls, past>>

\* DynBox, DynRef and DynRefMut::upcast take self.
Upcast(h, o) ==
  /\ Movable(h) /\ handles[h].kind \in {"box", "dynref", "dynrefmut"}
  /\ o \in Upcasts(handles[h].object)
  /\ Become(h, handles[h].kind, o) /\ UNCHANGED past

\* Mutant: the lifetime of DynRefMut::borrow is that of the DynRefMut, and not of &self.
RefMutBorrowEscapes(h) ==
  /\ Readable(h) /\ handles[h].kind = "dynrefmut"
  /\ \E r \in Refs : ~Live(r) /\ handles' = [handles EXCEPT
       ![r] = [handles[h] EXCEPT !.kind = "dynref", !.loan = "shared"]]
  /\ UNCHANGED <<impls, past>>

\* DynRefMut::borrow takes &self.
RefMutBorrow(h) ==
  /\ Readable(h) /\ handles[h].kind = "dynrefmut"
  /\ Lend(h, "dynref", handles[h].object, "shared")

\* Mutant: DynRefMut::borrow_mut takes &self.
RefMutBorrowMutShared(h) ==
  /\ Readable(h) /\ handles[h].kind = "dynrefmut"
  /\ Lend(h, "dynrefmut", handles[h].object, "shared")

\* DynRefMut::borrow_mut takes &mut self.
RefMutBorrowMut(h) ==
  /\ Writable(h) /\ handles[h].kind = "dynrefmut"
  /\ Lend(h, "dynrefmut", handles[h].object, "mut")

\* A method with &self, through Deref of DynRef or DynRefMut or the DynBox itself:
\* the callee has a &T for as long as the call takes.
Call(h) ==
  /\ Readable(h) /\ handles[h].kind \in {"box", "dynref", "dynrefmut"}
  /\ Callable(handles[h].object)
  /\ Lend(h, "ref", None, "shared")

\* A method with &mut self, through DerefMut, which DynRef does not have.
CallMut(h) ==
  /\ Writable(h) /\ handles[h].kind \in {"box", "dynrefmut"}
  /\ Callable(handles[h].object)
  /\ Lend(h, "mut", None, "mut")

-----------------------------------------------------------------------------

Next ==
  \E h \in Handles :
    \/ Borrow(h) \/ BorrowMut(h) \/ End(h)
    \/ \E t \in Threads : MoveTo(h, t)
    \/ BoxBorrow(h) \/ BoxBorrowMut(h)
    \/ \E o \in Objects : BoxNew(h, o) \/ RefFrom(h, o) \/ RefMutFrom(h, o) \/ Upcast(h, o)
    \/ Copy(h) \/ RefMutBorrow(h) \/ RefMutBorrowMut(h) \/ Call(h) \/ CallMut(h)

Spec == Init /\ [][Next]_vars

-----------------------------------------------------------------------------
(* Properties                                                              *)

\* Every variable has its type.
TypeOK ==
  /\ impls \subseteq Markers
  /\ handles \in [Handles -> Handle]
  /\ past \subseteq {"aliased", "sent"}

\* XOR mutability: while a handle can write the value, no other can read it.
Exclusive ==
  \A g, h \in Handles : g # h /\ Writable(g) => ~Readable(h)

\* XOR mutability holds for every borrow of a DynBox or a DynRefMut, in spite of
\* copies, reborrows, upcasts, calls and threads, unless a DynRefMut was made of a
\* shared reference.
BorrowsExclusive == "aliased" \notin past => Exclusive

\* A value whose type is not Sync is never readable on two threads at once, with the
\* same exception.
SharedOnlyIfSync ==
  "Sync" \notin impls /\ "aliased" \notin past =>
    \A g, h \in Handles : Readable(g) /\ Readable(h) => handles[g].thread = handles[h].thread

\* A value whose type is not Send is owned and written on its own thread only.
StaysHome ==
  "Send" \notin impls =>
    \A h \in Handles : Writable(h) => handles[h].thread = Home

\* A DynRefMut that was made of a mutable borrow is as good as the &mut dyn Trait that its
\* documentation compares it to: it does not take a value that is not Send to another
\* thread.
StaysHomeUnaliased == "aliased" \notin past => StaysHome

\* The value stays on its thread unless a DynRefMut was sent or made of a shared
\* reference.
OwnersStayHome == past = {} => StaysHome

-----------------------------------------------------------------------------
(* The inductive invariant                                                 *)

\* The owner, and the references that have a mutable loan: whoever may write the
\* value, or will once what it has lent has ended.
Writers == {h \in Handles : Live(h) /\ (h = Owner \/ handles[h].loan = "mut")}

LendsMut(h) == \E r \in Loans(h) : handles[r].loan = "mut"

\* Who holds a loan has a parent that is there.
ParentsLive == \A r \in Refs : Live(r) => handles[r].parent \in Handles /\ Live(handles[r].parent)

\* A mutable loan is the only one its parent has given, and its parent is a writer.
MutLoansSole ==
  \A r \in Refs : Live(r) /\ handles[r].loan = "mut" =>
    /\ handles[r].parent \in Writers
    /\ \A s \in Loans(handles[r].parent) : s = r

\* The writers are a chain: there is one at most that has not lent mutably.
OneTip == \A g, h \in Writers : ~LendsMut(g) /\ ~LendsMut(h) => g = h

\* Every handle descends from the owner: a set of handles that has the owner, and with
\* a handle what that has lent, has all of them.
Descended(S) ==
  /\ Live(Owner) => Owner \in S
  /\ \A h \in S : Loans(h) \subseteq S

Rooted == \A S \in SUBSET Handles : Descended(S) => \A h \in Handles : Live(h) => h \in S

LoanTree == ParentsLive /\ MutLoansSole /\ OneTip /\ Rooted

\* What kinds of handles there are; only a conversion from a shared reference makes one
\* that writes of a shared loan.
KindsRight ==
  /\ handles[Owner].kind \in {"unused", "value", "box"}
  /\ \A r \in Refs : handles[r].kind \notin {"value", "box"}
  /\ "aliased" \notin past =>
       \A r \in Refs : Live(r) /\ handles[r].loan = "shared" => handles[r].kind \in {"ref", "dynref"}

\* What a vtable promises of the value's type is true.
VTablesTrue == \A h \in Handles : handles[h].object \in Implemented \cup {None}

\* A shared reference to a value that is not Sync is on the thread of its parent.
SharedStay ==
  "Sync" \notin impls =>
    \A r \in Refs : Live(r) /\ handles[r].loan = "shared" =>
      handles[r].thread = handles[handles[r].parent].thread

\* Whoever may write a value that is not Send is on the thread that made it.
WritersStay == "Send" \notin impls => \A h \in Writers : handles[h].thread = Home

\* The inductive invariant: the loans form a tree as long as no DynRefMut was made of
\* a shared reference, and handles stay on their threads as long as none was sent.
LoanInv ==
  /\ KindsRight /\ VTablesTrue
  /\ "aliased" \notin past => LoanTree /\ SharedStay
  /\ past = {} => WritersStay
=============================================================================
