---------------------------- MODULE BorrowsProofs ----------------------------
(***************************************************************************)
(* Theorems about Borrows, for any traits, bounds, objects and threads and *)
(* any number of references.                                               *)
(***************************************************************************)
EXTENDS Borrows, TLAPS

-----------------------------------------------------------------------------
(* Types                                                                   *)

Fields ==
  [kind : {"unused", "value", "box", "ref", "mut", "dynref", "dynrefmut"},
   object : Objects \cup {None}, loan : {"shared", "mut", None},
   parent : Handles \cup {None}, thread : Threads]

\* What the kind of a handle says of its fields.
Fitting(x) ==
  /\ x.kind = "unused" => x = Unused
  /\ x.kind \in {"value", "box"} => x.loan = None /\ x.parent = None
  /\ x.kind \in {"ref", "mut", "dynref", "dynrefmut"} => x.parent \in Handles
  /\ x.kind \in {"ref", "dynref"} => x.loan = "shared"
  /\ x.kind = "mut" => x.loan = "mut"
  /\ x.kind = "dynrefmut" => x.loan \in {"shared", "mut"}
  /\ x.kind = "value" => x.object = None
  /\ x.kind \in {"box", "dynref", "dynrefmut"} => x.object \in Objects

LEMMA HandleFields == \A x \in Handle : x \in Fields /\ Fitting(x)
  BY BorrowsAssumption DEF Handle, Fields, Fitting, Unused

LEMMA FieldsHandle == \A x \in Fields : Fitting(x) => x \in Handle
<1> SUFFICES ASSUME NEW x \in Fields, Fitting(x) PROVE x \in Handle
  OBVIOUS
<1>1. CASE x.kind = "unused"
  BY <1>1 DEF Fitting, Handle
<1>2. CASE x.kind \in {"value", "box"}
  BY <1>2 DEF Fitting, Handle, Fields
<1>3. CASE x.kind \in {"ref", "mut"}
  BY <1>3 DEF Fitting, Handle, Fields
<1>4. CASE x.kind \in {"dynref", "dynrefmut"}
  BY <1>4 DEF Fitting, Handle, Fields
<1> QED BY <1>1, <1>2, <1>3, <1>4 DEF Fields

LEMMA HandleTyped == ASSUME TypeOK, NEW h \in Handles PROVE handles[h] \in Handle
  BY DEF TypeOK

\* A live handle that becomes another of the same family keeps its type.
LEMMA BecomeType ==
  ASSUME TypeOK, NEW h \in Handles, NEW kind, NEW o, Become(h, kind, o),
         [handles[h] EXCEPT !.kind = kind, !.object = o] \in Handle
  PROVE  handles' \in [Handles -> Handle] /\ impls' \subseteq Markers
  BY DEF TypeOK, Become

LEMMA LendType ==
  ASSUME TypeOK, NEW h \in Handles, Live(h), NEW kind, NEW o, NEW loan, Lend(h, kind, o, loan),
         \/ kind = "ref" /\ o \in Objects \cup {None} /\ loan = "shared"
         \/ kind = "mut" /\ o \in Objects \cup {None} /\ loan = "mut"
         \/ kind = "dynref" /\ o \in Objects /\ loan = "shared"
         \/ kind = "dynrefmut" /\ o \in Objects /\ loan = "mut"
  PROVE  TypeOK'
<1>1. handles[h].thread \in Threads
  BY HandleTyped, HandleFields DEF Fields
<1>2. [kind |-> kind, object |-> o, loan |-> loan, parent |-> h, thread |-> handles[h].thread]
        \in Handle
  BY <1>1 DEF Handle
<1> QED BY <1>2 DEF TypeOK, Lend

LEMMA TypeInit == Init => TypeOK
  BY BorrowsAssumption DEF Init, TypeOK, Handle, Unused, Handles

LEMMA TypeStep == TypeOK /\ [Next]_vars => TypeOK'
<1> SUFFICES ASSUME TypeOK, [Next]_vars PROVE TypeOK'
  OBVIOUS
<1>1. CASE UNCHANGED vars
  BY <1>1 DEF vars, TypeOK
<1>2. ASSUME NEW h \in Handles PROVE handles[h] \in Fields /\ Fitting(handles[h])
  BY HandleTyped, HandleFields
<1>3. ASSUME NEW h \in Handles, Borrow(h)
      PROVE  TypeOK'
  BY <1>2, <1>3, LendType DEF Borrow, Readable, Fields
<1>4. ASSUME NEW h \in Handles, BorrowMut(h)
      PROVE  TypeOK'
  BY <1>2, <1>4, LendType DEF BorrowMut, Writable, Movable, Fields
<1>5. ASSUME NEW h \in Handles, End(h)
      PROVE  TypeOK'
  BY <1>5 DEF End, TypeOK, Handle
<1>6. ASSUME NEW h \in Handles, NEW t \in Threads, MoveTo(h, t)
      PROVE  TypeOK'
  <2>1. handles[h].kind # "unused"
    BY <1>6 DEF MoveTo, Movable, Live
  <2>2. [handles[h] EXCEPT !.thread = t] \in Fields
    BY <1>2 DEF Fields
  <2>3. Fitting([handles[h] EXCEPT !.thread = t])
    BY <1>2, <2>1 DEF Fitting, Fields
  <2> QED BY <1>6, <2>2, <2>3, FieldsHandle DEF MoveTo, TypeOK
<1>7. ASSUME NEW h \in Handles, NEW kind, NEW o \in Objects, Become(h, kind, o),
             \/ handles[h].kind = "ref" /\ kind = "dynref"
             \/ handles[h].kind \in {"ref", "mut"} /\ kind = "dynrefmut"
             \/ handles[h].kind = "value" /\ kind = "box"
             \/ handles[h].kind \in {"box", "dynref", "dynrefmut"} /\ kind = handles[h].kind
      PROVE  handles' \in [Handles -> Handle] /\ impls' \subseteq Markers
  <2>1. [handles[h] EXCEPT !.kind = kind, !.object = o] \in Fields
    BY <1>2, <1>7 DEF Fields
  <2>2. Fitting([handles[h] EXCEPT !.kind = kind, !.object = o])
    BY <1>2, <1>7 DEF Fitting, Fields
  <2> QED BY <1>7, <2>1, <2>2, FieldsHandle, BecomeType
<1>8. ASSUME NEW h \in Handles, BoxBorrow(h) \/ BoxBorrowMut(h)
      PROVE  TypeOK'
  BY <1>2, <1>7, <1>8 DEF BoxBorrow, BoxBorrowMut, Fields, TypeOK
<1>9. ASSUME NEW h \in Handles, NEW o \in Objects, BoxNew(h, o) \/ RefFrom(h, o) \/ Upcast(h, o)
      PROVE  TypeOK'
  BY <1>7, <1>9 DEF BoxNew, RefFrom, Upcast, TypeOK
<1>10. ASSUME NEW h \in Handles, NEW o \in Objects, RefMutFrom(h, o)
       PROVE  TypeOK'
  BY <1>7, <1>10 DEF RefMutFrom, TypeOK
<1>11. ASSUME NEW h \in Handles, Copy(h)
       PROVE  TypeOK'
  BY <1>11, HandleTyped DEF Copy, TypeOK
<1>12. ASSUME NEW h \in Handles, RefMutBorrow(h)
       PROVE  TypeOK'
  BY <1>2, <1>12, LendType DEF RefMutBorrow, Readable, Fitting
<1>13. ASSUME NEW h \in Handles, RefMutBorrowMut(h)
       PROVE  TypeOK'
  BY <1>2, <1>13, LendType DEF RefMutBorrowMut, Writable, Movable, Fitting
<1>14. ASSUME NEW h \in Handles, Call(h) \/ CallMut(h)
       PROVE  TypeOK'
  BY <1>14, LendType DEF Call, CallMut, Readable, Writable, Movable
<1> QED
  BY <1>1, <1>3, <1>4, <1>5, <1>6, <1>8, <1>9, <1>10, <1>11, <1>12, <1>13, <1>14 DEF Next

\* Every variable has its type in every reachable state.
THEOREM TypeCorrect == Spec => []TypeOK
<1>1. TypeOK /\ [Next]_vars => TypeOK'
  BY TypeStep
<1> QED BY TypeInit, <1>1, PTL DEF Spec

-----------------------------------------------------------------------------
(* The tree of loans                                                       *)

\* An unused reference has no parent, so that it is in nobody's loans.
LEMMA LoansLive ==
  ASSUME TypeOK, NEW h \in Handles, NEW r \in Loans(h)
  PROVE  r \in Handles /\ Live(r) /\ handles[r].parent = h
<1>1. r \in Handles /\ handles[r].parent = h
  BY DEF Loans, Handles
<1>2. handles[r].kind = "unused" => handles[r].parent = None
  BY <1>1, HandleTyped, HandleFields DEF Fitting, Unused
<1> QED BY <1>1, <1>2, BorrowsAssumption DEF Handles, Live

\* Nobody has a loan on a handle that is not there.
LEMMA UnusedLendsNot ==
  ASSUME TypeOK, ParentsLive, NEW h \in Handles, ~Live(h)
  PROVE  Loans(h) = {}
<1> SUFFICES ASSUME NEW r \in Loans(h) PROVE FALSE
  OBVIOUS
<1>1. r \in Refs /\ Live(r) /\ handles[r].parent = h
  BY LoansLive DEF Loans
<1> QED BY <1>1 DEF ParentsLive

\* Conversions and moves leave the tree as it is.
LEMMA SameTree ==
  ASSUME LoanTree,
         \A x \in Handles : /\ Live(x)' <=> Live(x)
                            /\ handles'[x].loan = handles[x].loan
                            /\ handles'[x].parent = handles[x].parent
  PROVE  LoanTree' /\ Writers' = Writers /\ \A h \in Handles : Loans(h)' = Loans(h)
<1>1. ASSUME NEW h PROVE Loans(h)' = Loans(h) /\ LendsMut(h)' = LendsMut(h)
  BY DEF Loans, LendsMut, Handles
<1>2. Writers' = Writers
  BY DEF Writers
<1>3. ParentsLive'
  BY DEF LoanTree, ParentsLive, Handles
<1>4. MutLoansSole'
  BY <1>1, <1>2 DEF LoanTree, MutLoansSole, Handles
<1>5. OneTip'
  BY <1>1, <1>2 DEF LoanTree, OneTip
<1>6. ASSUME NEW S, Descended(S)' PROVE Descended(S)
  BY <1>1, <1>6 DEF Descended, Handles
<1>7. Rooted'
  BY <1>6 DEF LoanTree, Rooted
<1> QED BY <1>1, <1>2, <1>3, <1>4, <1>5, <1>7 DEF LoanTree

\* r becomes a reference with a loan on p ...
Adds(r, p) ==
  /\ r \in Refs /\ ~Live(r) /\ p \in Handles /\ Live(r)' /\ handles'[r].parent = p
  /\ \A x \in Handles \ {r} : handles'[x] = handles[x]

\* ... that p can give: a shared one beside shared ones, or a mutable one of a writer
\* without loans.
Grafts(r, p) ==
  /\ Adds(r, p) /\ Live(p)
  /\ \/ handles'[r].loan = "shared" /\ \A s \in Loans(p) : handles[s].loan = "shared"
     \/ handles'[r].loan = "mut" /\ p \in Writers /\ Loans(p) = {}

LEMMA GraftedTree ==
  ASSUME TypeOK, LoanTree, NEW r, NEW p, Grafts(r, p)
  PROVE  /\ LoanTree'
         /\ Writers' = IF handles'[r].loan = "mut" THEN Writers \cup {r} ELSE Writers
<1>1. r \in Handles /\ r # p /\ r # Owner /\ r \notin Writers
  BY BorrowsAssumption DEF Adds, Grafts, Handles, Writers
<1>2. ASSUME NEW x \in Handles \ {r} PROVE handles'[x] = handles[x] /\ (Live(x)' <=> Live(x))
  BY <1>2 DEF Adds, Grafts, Live
<1>3. Writers' = IF handles'[r].loan = "mut" THEN Writers \cup {r} ELSE Writers
  BY <1>1, <1>2 DEF Adds, Grafts, Writers
<1>4. ASSUME NEW h \in Handles
      PROVE  Loans(h)' = IF h = p THEN Loans(h) \cup {r} ELSE Loans(h)
  <2>1. r \notin Loans(h)
    BY LoansLive DEF Adds, Grafts
  <2>2. \A x \in Refs \ {r} : handles'[x].parent = handles[x].parent
    BY <1>2 DEF Handles
  <2> QED BY <2>1, <2>2 DEF Adds, Grafts, Loans
<1>5. Loans(r)' = {}
  BY <1>1, <1>4, UnusedLendsNot DEF Adds, Grafts, LoanTree
<1>6. ParentsLive'
  <2> SUFFICES ASSUME NEW s \in Refs, Live(s)'
               PROVE  (handles[s].parent \in Handles /\ Live(handles[s].parent))'
    BY DEF ParentsLive
  <2>1. CASE s = r
    BY <1>1, <1>2, <2>1 DEF Adds, Grafts
  <2>2. CASE s # r
    <3>1. handles'[s] = handles[s] /\ Live(s)
      BY <1>2, <2>2 DEF Handles
    <3>2. handles[s].parent \in Handles /\ Live(handles[s].parent)
      BY <3>1 DEF LoanTree, ParentsLive
    <3> QED BY <1>2, <3>1, <3>2 DEF Adds, Grafts
  <2> QED BY <2>1, <2>2
<1>7. MutLoansSole'
  <2> SUFFICES ASSUME NEW s \in Refs, Live(s)', handles'[s].loan = "mut"
               PROVE  (handles[s].parent \in Writers /\ \A q \in Loans(handles[s].parent) : q = s)'
    BY DEF MutLoansSole
  <2>1. CASE s = r
    BY <1>1, <1>3, <1>4, <2>1 DEF Adds, Grafts
  <2>2. CASE s # r
    <3>1. handles'[s] = handles[s] /\ Live(s) /\ s \in Handles
      BY <1>2, <2>2 DEF Handles
    <3>2. /\ handles[s].parent \in Writers /\ handles[s].parent \in Handles
          /\ \A q \in Loans(handles[s].parent) : q = s
      BY <3>1 DEF LoanTree, MutLoansSole, Writers
    <3>3. s \in Loans(handles[s].parent)
      BY DEF Loans
    <3>4. handles[s].parent # p
      BY <3>1, <3>3 DEF Adds, Grafts
    <3> QED BY <1>3, <1>4, <3>1, <3>2, <3>4
  <2> QED BY <2>1, <2>2
<1>8. OneTip'
  <2>1. ASSUME NEW h \in Handles \ {r}
        PROVE  LendsMut(h)' <=> LendsMut(h) \/ (h = p /\ handles'[r].loan = "mut")
    <3>1. \A s \in Loans(h) : s # r /\ handles'[s] = handles[s]
      BY <1>2, LoansLive DEF Adds, Grafts
    <3> QED BY <1>4, <3>1 DEF LendsMut
  <2>2. CASE handles'[r].loan = "mut"
    <3>1. p \in Writers /\ ~LendsMut(p)
      BY <2>2 DEF Adds, Grafts, LendsMut
    <3>2. \A h \in Writers : LendsMut(h)'
      BY <1>1, <2>1, <2>2, <3>1 DEF LoanTree, OneTip, Writers
    <3> QED BY <1>3, <2>2, <3>2 DEF OneTip
  <2>3. CASE handles'[r].loan # "mut"
    BY <1>1, <1>3, <2>1, <2>3 DEF LoanTree, OneTip, Writers
  <2> QED BY <2>2, <2>3
<1>9. Rooted'
  <2> SUFFICES ASSUME NEW S \in SUBSET Handles, Descended(S)', NEW h \in Handles, Live(h)'
               PROVE  h \in S
    BY DEF Rooted
  <2>1. Descended(S)
    BY <1>1, <1>2, <1>4 DEF Descended, Handles
  <2>2. \A x \in Handles : Live(x) => x \in S
    BY <2>1 DEF LoanTree, Rooted
  <2>3. r \in S
    BY <1>4, <2>2 DEF Adds, Grafts, Descended
  <2> QED BY <1>2, <2>2, <2>3
<1> QED BY <1>3, <1>6, <1>7, <1>8, <1>9 DEF LoanTree

\* Only what has lent nothing ends; a writer that ends leaves its parent as the tip.
LEMMA PrunedTree ==
  ASSUME TypeOK, LoanTree, NEW h \in Handles, End(h)
  PROVE  LoanTree' /\ Writers' = Writers \ {h}
<1>1. Live(h) /\ Loans(h) = {} /\ handles'[h] = Unused /\ ~Live(h)'
  BY DEF End, Movable, TypeOK, Live, Unused
<1>2. ASSUME NEW x \in Handles \ {h} PROVE handles'[x] = handles[x] /\ (Live(x)' <=> Live(x))
  BY <1>2 DEF End, TypeOK, Live
<1>3. Writers' = Writers \ {h}
  BY <1>1, <1>2 DEF Writers
<1>4. ASSUME NEW x \in Handles PROVE Loans(x)' = Loans(x) \ {h}
  <2>1. \A s \in Refs \ {h} : handles'[s].parent = handles[s].parent
    BY <1>2 DEF Handles
  <2>2. handles'[h].parent = None /\ None # x
    BY <1>1, BorrowsAssumption DEF Unused, Handles
  <2> QED BY <2>1, <2>2 DEF Loans
<1>5. ASSUME NEW s \in Refs, Live(s)'
      PROVE  /\ s # h /\ handles'[s] = handles[s] /\ Live(s)
             /\ handles[s].parent \in Handles \ {h} /\ Live(handles[s].parent)
  <2>1. s # h /\ handles'[s] = handles[s] /\ Live(s)
    BY <1>1, <1>2, <1>5 DEF Handles
  <2>2. handles[s].parent \in Handles /\ Live(handles[s].parent)
    BY <2>1 DEF LoanTree, ParentsLive
  <2>3. handles[s].parent # h
    BY <1>1 DEF Loans
  <2> QED BY <2>1, <2>2, <2>3
<1>6. ParentsLive'
  BY <1>2, <1>5 DEF ParentsLive
<1>7. MutLoansSole'
  <2> SUFFICES ASSUME NEW s \in Refs, Live(s)', handles'[s].loan = "mut"
               PROVE  (handles[s].parent \in Writers /\ \A q \in Loans(handles[s].parent) : q = s)'
    BY DEF MutLoansSole
  <2>1. handles[s].parent \in Writers /\ \A q \in Loans(handles[s].parent) : q = s
    BY <1>5 DEF LoanTree, MutLoansSole
  <2> QED BY <1>3, <1>4, <1>5, <2>1
<1>8. OneTip'
  <2> SUFFICES ASSUME NEW f \in Writers', NEW g \in Writers', ~LendsMut(f)', ~LendsMut(g)'
               PROVE  f = g
    BY DEF OneTip
  <2>1. f \in Writers \ {h} /\ g \in Writers \ {h} /\ Writers \subseteq Handles
    BY <1>3 DEF Writers
  <2>2. ASSUME NEW x \in Writers, LendsMut(x), ~LendsMut(x)'
        PROVE  h \in Loans(x) /\ handles[h].loan = "mut"
    BY <1>2, <1>4, <2>1, <2>2 DEF LendsMut, Loans, Handles
  <2>3. ASSUME NEW x \in Writers, LendsMut(x), ~LendsMut(x)'
        PROVE  handles[h].parent = x /\ h \in Writers /\ ~LendsMut(h)
    BY <1>1, <2>2, <2>3 DEF Writers, LendsMut, Loans
  <2>4. CASE LendsMut(f) /\ LendsMut(g)
    BY <2>1, <2>3, <2>4
  <2>5. CASE LendsMut(f) /\ ~LendsMut(g)
    BY <2>1, <2>3, <2>5 DEF LoanTree, OneTip
  <2>6. CASE ~LendsMut(f) /\ LendsMut(g)
    BY <2>1, <2>3, <2>6 DEF LoanTree, OneTip
  <2>7. CASE ~LendsMut(f) /\ ~LendsMut(g)
    BY <2>1, <2>7 DEF LoanTree, OneTip
  <2> QED BY <2>4, <2>5, <2>6, <2>7
<1>9. Rooted'
  <2> SUFFICES ASSUME NEW S \in SUBSET Handles, Descended(S)', NEW x \in Handles, Live(x)'
               PROVE  x \in S
    BY DEF Rooted
  <2>1. Descended(S \cup {h})
    <3>1. Live(Owner) => Owner \in S \cup {h}
      BY <1>2 DEF Descended, Handles
    <3>2. \A y \in S \cup {h} : Loans(y) \subseteq S \cup {h}
      BY <1>1, <1>4 DEF Descended
    <3> QED BY <3>1, <3>2 DEF Descended
  <2>2. x \in S \cup {h}
    BY <1>1, <1>2, <2>1 DEF LoanTree, Rooted
  <2> QED BY <1>1, <2>2
<1> QED BY <1>3, <1>6, <1>7, <1>8, <1>9 DEF LoanTree

-----------------------------------------------------------------------------
(* The inductive invariant                                                 *)

\* A conversion keeps the handle's loan, parent and thread, and all other handles.
LEMMA BecomeFields ==
  ASSUME TypeOK, NEW h \in Handles, NEW kind \in {"box", "ref", "mut", "dynref", "dynrefmut"}, NEW o,
         Live(h), Become(h, kind, o)
  PROVE  \A x \in Handles : /\ Live(x)' <=> Live(x)
                            /\ handles'[x].loan = handles[x].loan
                            /\ handles'[x].parent = handles[x].parent
                            /\ handles'[x].thread = handles[x].thread
                            /\ handles'[x].kind = IF x = h THEN kind ELSE handles[x].kind
                            /\ handles'[x].object = IF x = h THEN o ELSE handles[x].object
<1>1. \A x \in Handles : handles[x] \in Fields
  BY HandleTyped, HandleFields
<1> QED BY <1>1 DEF Become, Fields, Live, TypeOK

\* A new reference is grafted on its parent.
LEMMA LendGrafts ==
  ASSUME TypeOK, NEW h \in Handles, Live(h), NEW kind, kind # "unused", NEW o, NEW loan,
         Lend(h, kind, o, loan),
         "aliased" \notin past =>
           \/ loan = "shared" /\ \A s \in Loans(h) : handles[s].loan = "shared"
           \/ loan = "mut" /\ h \in Writers /\ Loans(h) = {}
  PROVE  \E r : /\ Adds(r, h) /\ ("aliased" \notin past => Grafts(r, h))
                /\ handles'[r].kind = kind /\ handles'[r].object = o
                /\ handles'[r].loan = loan /\ handles'[r].thread = handles[h].thread
<1>1. PICK r \in Refs :
        /\ ~Live(r)
        /\ handles' = [handles EXCEPT ![r] =
             [kind |-> kind, object |-> o, loan |-> loan, parent |-> h,
              thread |-> handles[h].thread]]
  BY DEF Lend
<1> QED BY <1>1 DEF Adds, Grafts, Live, TypeOK, Handles

\* Whoever can be written through, and has nothing lent, is a writer.
LEMMA WritableWriter ==
  ASSUME TypeOK, KindsRight, "aliased" \notin past, NEW h \in Handles, Writable(h)
  PROVE  h \in Writers /\ Loans(h) = {}
<1>1. Live(h) /\ Loans(h) = {} /\ handles[h].kind \in {"value", "box", "mut", "dynrefmut"}
  BY DEF Writable, Movable
<1>2. Fitting(handles[h])
  BY HandleTyped, HandleFields
<1>3. CASE h = Owner
  BY <1>1, <1>3 DEF Writers
<1>4. CASE h \in Refs
  BY <1>1, <1>2, <1>4 DEF Writers, Fitting, KindsRight
<1> QED BY <1>3, <1>4 DEF Handles

\* A copy of a shared reference is grafted on the parent of the reference.
LEMMA CopyGrafts ==
  ASSUME TypeOK, KindsRight, "aliased" \notin past => LoanTree, NEW h \in Handles, Copy(h)
  PROVE  \E r : /\ Adds(r, handles[h].parent)
                /\ "aliased" \notin past => Grafts(r, handles[h].parent)
                /\ handles'[r] = handles[h]
<1>1. PICK r \in Refs : ~Live(r) /\ handles' = [handles EXCEPT ![r] = handles[h]]
  BY DEF Copy
<1>2. Live(h) /\ handles[h].kind \in {"ref", "dynref"} /\ Fitting(handles[h])
  BY HandleTyped, HandleFields DEF Copy, Readable
<1>3. h \in Refs /\ handles[h].loan = "shared"
  BY <1>2 DEF KindsRight, Handles, Fitting
<1>4. Adds(r, handles[h].parent) /\ handles'[r] = handles[h]
  BY <1>1, <1>2 DEF Adds, TypeOK, Handles, Live, Fitting
<1>5. ASSUME LoanTree PROVE Grafts(r, handles[h].parent)
  <2>1. Live(handles[h].parent) /\ h \in Loans(handles[h].parent)
    BY <1>2, <1>3, <1>5 DEF LoanTree, ParentsLive, Loans
  <2>2. ASSUME NEW s \in Loans(handles[h].parent) PROVE handles[s].loan = "shared"
    <3>1. s \in Refs /\ Live(s) /\ handles[s].parent = handles[h].parent
      BY <1>4, LoansLive DEF Loans, Adds
    <3>2. handles[s].loan \in {"shared", "mut"}
      BY <3>1, HandleTyped, HandleFields DEF Fitting, Fields, Handles, Live, KindsRight
    <3>3. handles[s].loan = "mut" => h = s
      BY <1>5, <2>1, <3>1 DEF LoanTree, MutLoansSole
    <3> QED BY <1>3, <3>2, <3>3
  <2> QED BY <1>3, <1>4, <2>1, <2>2 DEF Grafts
<1> QED BY <1>4, <1>5

\* What a vtable that there is implies, the value's type implements.
LEMMA ImpliedTrue ==
  ASSUME NEW o \in Implemented
  PROVE  Implied(o) \subseteq impls
  BY DEF Implemented, Implied

\* The vtable of a supertrait is there if the trait's is.
LEMMA UpcastImplemented ==
  ASSUME NEW object \in Implemented, NEW o \in Upcasts(object)
  PROVE  o \in Implemented
<1>1. object.of \in Traits /\ Bounds[object.of] \subseteq impls
  BY BorrowsAssumption DEF Implemented
<1>2. PICK t \in Supers[object.of] : o = [of |-> t, plus |-> {}]
  BY DEF Upcasts
<1>3. Bounds[t] \subseteq Bounds[object.of] /\ o \in Objects
  BY <1>1, BorrowsAssumption DEF Upcasts
<1> QED BY <1>1, <1>2, <1>3 DEF Implemented

LEMMA LoanInit == Init => LoanInv
<1> SUFFICES ASSUME Init PROVE LoanInv
  OBVIOUS
<1>1. TypeOK
  BY TypeInit
<1>2. \A h \in Handles : Live(h) <=> h = Owner
  BY DEF Init, Live, Unused
<1>3. \A r \in Refs : r \in Handles /\ ~Live(r)
  BY <1>2, BorrowsAssumption DEF Handles
<1>4. KindsRight
  BY <1>3, BorrowsAssumption DEF KindsRight, Init, Unused, Handles, Live
<1>5. VTablesTrue
  BY DEF VTablesTrue, Init, Unused
<1>6. ParentsLive /\ MutLoansSole /\ SharedStay
  BY <1>3 DEF ParentsLive, MutLoansSole, SharedStay
<1>7. OneTip
  BY <1>2 DEF OneTip, Writers
<1>8. Rooted
  BY <1>2 DEF Rooted, Descended, Handles
<1>9. WritersStay
  BY <1>2, BorrowsAssumption DEF WritersStay, Writers, Init, Unused, Handles
<1> QED BY <1>4, <1>5, <1>6, <1>7, <1>8, <1>9 DEF LoanInv, LoanTree

\* A handle becomes another of the same loan, with a vtable that there is.
LEMMA LoanBecome ==
  ASSUME TypeOK, LoanInv, NEW h \in Handles, Live(h), NEW kind \in {"box", "ref", "mut", "dynref", "dynrefmut"}, NEW o,
         Become(h, kind, o), o \in Implemented, past \subseteq past',
         \/ h = Owner /\ kind = "box"
         \/ h \in Refs /\ kind \notin {"value", "box"},
         "aliased" \notin past' /\ h \in Refs /\ handles[h].loan = "shared" => kind \in {"ref", "dynref"}
  PROVE  LoanInv'
<1>1. \A x \in Handles : /\ Live(x)' <=> Live(x)
                         /\ handles'[x].loan = handles[x].loan
                         /\ handles'[x].parent = handles[x].parent
                         /\ handles'[x].thread = handles[x].thread
                         /\ handles'[x].kind = IF x = h THEN kind ELSE handles[x].kind
                         /\ handles'[x].object = IF x = h THEN o ELSE handles[x].object
  BY BecomeFields
<1>2. Implemented' = Implemented /\ impls' = impls
  BY DEF Become, Implemented
<1>3. KindsRight'
  BY <1>1, BorrowsAssumption DEF LoanInv, KindsRight, Handles
<1>4. VTablesTrue'
  BY <1>1, <1>2 DEF LoanInv, VTablesTrue
<1>5. LoanTree => LoanTree' /\ Writers' = Writers
  BY <1>1, SameTree
<1>6. LoanTree /\ SharedStay => SharedStay'
  BY <1>1, <1>2 DEF SharedStay, LoanTree, ParentsLive, Handles
<1>7. past = {} => "aliased" \notin past
  OBVIOUS
<1>8. past = {} /\ WritersStay /\ LoanTree => WritersStay'
  BY <1>1, <1>2, <1>5 DEF WritersStay, Writers
<1> QED BY <1>3, <1>4, <1>5, <1>6, <1>7, <1>8 DEF LoanInv

\* A new reference on the thread of its parent, or of another shared one of the parent's.
LEMMA LoanGraft ==
  ASSUME TypeOK, LoanInv, NEW r, NEW p, UNCHANGED <<impls, past>>, Adds(r, p),
         "aliased" \notin past => Grafts(r, p),
         handles'[r].kind \notin {"value", "box"},
         "aliased" \notin past /\ handles'[r].loan = "shared" => handles'[r].kind \in {"ref", "dynref"},
         handles'[r].object \in Implemented \cup {None},
         \/ handles'[r].thread = handles[p].thread
         \/ /\ handles'[r].loan = "shared"
            /\ "aliased" \notin past /\ "Sync" \notin impls => handles'[r].thread = handles[p].thread
  PROVE  LoanInv'
<1>1. /\ r \in Refs /\ r \in Handles /\ r # Owner /\ p \in Handles
      /\ "aliased" \notin past => r # p
  BY BorrowsAssumption DEF Adds, Grafts, Handles
<1>2. ASSUME NEW x \in Handles \ {r} PROVE handles'[x] = handles[x] /\ (Live(x)' <=> Live(x))
  BY <1>2 DEF Adds, Live
<1>3. KindsRight'
  BY <1>1, <1>2, BorrowsAssumption DEF LoanInv, KindsRight, Handles
<1>4. VTablesTrue'
  BY <1>1, <1>2 DEF LoanInv, VTablesTrue, Implemented
<1>5. "aliased" \notin past /\ LoanTree =>
        /\ LoanTree'
        /\ Writers' = IF handles'[r].loan = "mut" THEN Writers \cup {r} ELSE Writers
  BY GraftedTree
<1>6. ASSUME LoanTree, SharedStay, "aliased" \notin past PROVE SharedStay'
  <2> SUFFICES ASSUME "Sync" \notin impls, NEW s \in Refs, Live(s)', handles'[s].loan = "shared"
               PROVE  (handles[s].thread = handles[handles[s].parent].thread)'
    BY DEF SharedStay
  <2>1. CASE s = r
    BY <1>1, <1>2, <1>6, <2>1 DEF Adds
  <2>2. CASE s # r
    <3>1. handles'[s] = handles[s] /\ Live(s)
      BY <1>2, <2>2 DEF Handles
    <3>2. handles[s].parent \in Handles \ {r}
      BY <1>6, <3>1 DEF LoanTree, ParentsLive, Adds
    <3> QED BY <1>2, <1>6, <3>1, <3>2 DEF SharedStay
  <2> QED BY <2>1, <2>2
<1>7. ASSUME LoanTree, WritersStay, past = {} PROVE WritersStay'
  <2> SUFFICES ASSUME "Send" \notin impls, NEW x \in Writers' PROVE handles'[x].thread = Home
    BY DEF WritersStay
  <2>1. CASE x = r /\ handles'[r].loan = "mut"
    BY <1>1, <1>2, <1>7, <2>1 DEF Grafts, Adds, WritersStay
  <2>2. CASE x \in Writers
    BY <1>1, <1>2, <1>7, <2>2 DEF WritersStay, Writers, Adds
  <2> QED BY <1>5, <1>7, <2>1, <2>2
<1>8. past = {} => "aliased" \notin past
  OBVIOUS
<1> QED BY <1>3, <1>4, <1>5, <1>6, <1>7, <1>8 DEF LoanInv

LEMMA LoanEnd ==
  ASSUME TypeOK, LoanInv, NEW h \in Handles, End(h)
  PROVE  LoanInv'
<1>1. Live(h) /\ Loans(h) = {} /\ handles'[h] = Unused /\ UNCHANGED <<impls, past>>
  BY DEF End, Movable, TypeOK
<1>2. ASSUME NEW x \in Handles \ {h} PROVE handles'[x] = handles[x] /\ (Live(x)' <=> Live(x))
  BY <1>2 DEF End, TypeOK, Live
<1>3. ~Live(h)' /\ handles'[h].kind = "unused" /\ handles'[h].object = None
  BY <1>1 DEF Unused, Live
<1>4. KindsRight'
  BY <1>1, <1>2, <1>3, BorrowsAssumption DEF LoanInv, KindsRight, Handles
<1>5. VTablesTrue'
  BY <1>1, <1>2, <1>3 DEF LoanInv, VTablesTrue, Implemented
<1>6. LoanTree => LoanTree' /\ Writers' = Writers \ {h}
  BY PrunedTree
<1>7. ASSUME LoanTree, SharedStay PROVE SharedStay'
  <2> SUFFICES ASSUME "Sync" \notin impls, NEW s \in Refs, Live(s)', handles'[s].loan = "shared"
               PROVE  (handles[s].thread = handles[handles[s].parent].thread)'
    BY <1>1 DEF SharedStay
  <2>1. s # h /\ handles'[s] = handles[s] /\ Live(s)
    BY <1>2, <1>3 DEF Handles
  <2>2. handles[s].parent \in Handles \ {h}
    BY <1>1, <1>7, <2>1 DEF LoanTree, ParentsLive, Loans
  <2> QED BY <1>2, <1>7, <2>1, <2>2 DEF SharedStay
<1>8. ASSUME LoanTree, WritersStay PROVE WritersStay'
  BY <1>1, <1>2, <1>6, <1>8 DEF WritersStay, Writers
<1>9. past = {} => "aliased" \notin past
  OBVIOUS
<1> QED BY <1>1, <1>4, <1>5, <1>6, <1>7, <1>8, <1>9 DEF LoanInv

\* A shared reference that is sent refers to a Sync type, and a writer but a DynRefMut
\* to a Send one, because the vtables are true.
LEMMA SentTrue ==
  ASSUME TypeOK, VTablesTrue, NEW h \in Handles, IsSend(h)
  PROVE  /\ handles[h].kind \in {"ref", "dynref"} => "Sync" \in impls
         /\ handles[h].kind \in {"value", "box", "mut"} => "Send" \in impls
<1>1. handles[h].object # None => Implied(handles[h].object) \subseteq impls
  BY ImpliedTrue DEF VTablesTrue
<1>2. handles[h].kind \in {"box", "dynref"} => handles[h].object # None
  BY HandleTyped, HandleFields, BorrowsAssumption DEF Fitting
<1> QED BY <1>1, <1>2 DEF IsSend, BoxSend, BoxSync, RefSend

\* Only what has lent nothing moves to another thread.
LEMMA LoanMove ==
  ASSUME TypeOK, LoanInv, NEW h \in Handles, NEW t \in Threads, MoveTo(h, t)
  PROVE  LoanInv'
<1>1. Live(h) /\ Loans(h) = {} /\ IsSend(h) /\ UNCHANGED impls /\ past \subseteq past'
  BY DEF MoveTo, Movable
<1>2. \A x \in Handles : /\ Live(x)' <=> Live(x)
                         /\ handles'[x].loan = handles[x].loan
                         /\ handles'[x].parent = handles[x].parent
                         /\ handles'[x].kind = handles[x].kind
                         /\ handles'[x].object = handles[x].object
                         /\ x # h => handles'[x].thread = handles[x].thread
  <2>1. \A x \in Handles : handles[x] \in Fields
    BY HandleTyped, HandleFields
  <2> QED BY <2>1 DEF MoveTo, Fields, Live, TypeOK
<1>3. KindsRight'
  BY <1>1, <1>2, BorrowsAssumption DEF LoanInv, KindsRight, Handles
<1>4. VTablesTrue'
  BY <1>1, <1>2 DEF LoanInv, VTablesTrue, Implemented
<1>5. LoanTree => LoanTree' /\ Writers' = Writers
  BY <1>2, SameTree
<1>6. ASSUME LoanTree, SharedStay, "aliased" \notin past PROVE SharedStay'
  <2> SUFFICES ASSUME "Sync" \notin impls, NEW s \in Refs, Live(s)', handles'[s].loan = "shared"
               PROVE  (handles[s].thread = handles[handles[s].parent].thread)'
    BY <1>1 DEF SharedStay
  <2>1. Live(s) /\ handles[s].loan = "shared" /\ handles'[s].parent = handles[s].parent
    BY <1>2 DEF Handles
  <2>2. handles[s].kind \in {"ref", "dynref"}
    BY <1>6, <2>1 DEF LoanInv, KindsRight
  <2>3. s # h
    BY <1>1, <2>2, SentTrue DEF LoanInv
  <2>4. handles[s].parent \in Handles \ {h}
    BY <1>1, <1>6, <2>1 DEF LoanTree, ParentsLive, Loans
  <2> QED BY <1>2, <1>6, <2>1, <2>3, <2>4 DEF SharedStay, Handles
<1>7. ASSUME LoanTree, WritersStay, past' = {} PROVE WritersStay'
  <2> SUFFICES ASSUME "Send" \notin impls, NEW x \in Writers PROVE handles'[x].thread = Home
    BY <1>1, <1>5, <1>7 DEF WritersStay
  <2>1. x \in Handles /\ handles[x].thread = Home
    BY <1>7 DEF WritersStay, Writers
  <2>2. handles[h].kind # "dynrefmut"
    BY <1>7 DEF MoveTo
  <2>3. ASSUME x = h PROVE FALSE
    <3>1. handles[h].kind \in {"value", "box", "mut"}
      BY <2>2, <2>3, HandleTyped, HandleFields DEF Writers, Live, Fitting, LoanInv, KindsRight, Fields
    <3> QED BY <1>1, <3>1, SentTrue DEF LoanInv
  <2> QED BY <1>2, <2>1, <2>3
<1>8. past' = {} => past = {} /\ "aliased" \notin past
  BY <1>1
<1> QED BY <1>1, <1>3, <1>4, <1>5, <1>6, <1>7, <1>8 DEF LoanInv

LEMMA LoanStep == TypeOK /\ LoanInv /\ [Next]_vars => LoanInv'
<1> SUFFICES ASSUME TypeOK, LoanInv, [Next]_vars PROVE LoanInv'
  OBVIOUS
<1>1. CASE UNCHANGED vars
  <2> USE <1>1 DEF vars
  <2>1. \A x \in Handles : /\ Live(x)' <=> Live(x)
                           /\ handles'[x].loan = handles[x].loan
                           /\ handles'[x].parent = handles[x].parent
    BY DEF Live
  <2>2. LoanTree => LoanTree' /\ Writers' = Writers
    BY <2>1, SameTree
  <2>3. KindsRight' /\ VTablesTrue'
    BY DEF LoanInv, KindsRight, VTablesTrue, Live, Implemented
  <2>4. (SharedStay => SharedStay') /\ (LoanTree /\ WritersStay => WritersStay')
    BY <2>2 DEF SharedStay, WritersStay, Live
  <2> QED BY <2>2, <2>3, <2>4 DEF LoanInv
<1>2. ASSUME NEW h \in Handles
      PROVE  /\ Fitting(handles[h]) /\ handles[h] \in Fields
             /\ handles[h].object \in Implemented \cup {None}
             /\ handles[h].object \in Objects => handles[h].object \in Implemented
             /\ handles[h].kind \in {"value", "box"} <=> h = Owner /\ Live(h)
  BY HandleTyped, HandleFields, BorrowsAssumption
    DEF LoanInv, VTablesTrue, KindsRight, Handles, Live
<1>3. ASSUME NEW h \in Handles, Live(h), NEW kind, NEW o \in Implemented \cup {None},
             NEW loan \in {"shared", "mut"},
             Lend(h, kind, o, loan), kind \in {"ref", "mut", "dynref", "dynrefmut"},
             loan = "shared" => kind \in {"ref", "dynref"} /\ Readable(h),
             loan = "mut" => Writable(h)
      PROVE  LoanInv'
  <2>1. "aliased" \notin past =>
           \/ loan = "shared" /\ \A s \in Loans(h) : handles[s].loan = "shared"
           \/ loan = "mut" /\ h \in Writers /\ Loans(h) = {}
    BY <1>3, WritableWriter DEF Readable, LoanInv
  <2>2. PICK r : /\ Adds(r, h) /\ ("aliased" \notin past => Grafts(r, h))
                 /\ handles'[r].kind = kind /\ handles'[r].object = o
                 /\ handles'[r].loan = loan /\ handles'[r].thread = handles[h].thread
    BY <1>3, <2>1, LendGrafts
  <2>3. UNCHANGED <<impls, past>>
    BY <1>3 DEF Lend
  <2> QED BY <1>3, <2>2, <2>3, LoanGraft
<1>4. ASSUME NEW h \in Handles, Borrow(h) \/ BorrowMut(h)
      PROVE  LoanInv'
  BY <1>2, <1>3, <1>4 DEF Borrow, BorrowMut, Readable, Writable, Movable
<1>5. ASSUME NEW h \in Handles, RefMutBorrow(h) \/ RefMutBorrowMut(h) \/ Call(h) \/ CallMut(h)
      PROVE  LoanInv'
  BY <1>2, <1>3, <1>5
    DEF RefMutBorrow, RefMutBorrowMut, Call, CallMut, Readable, Writable, Movable
<1>6. ASSUME NEW h \in Handles, End(h)
      PROVE  LoanInv'
  BY <1>6, LoanEnd
<1>7. ASSUME NEW h \in Handles, NEW t \in Threads, MoveTo(h, t)
      PROVE  LoanInv'
  BY <1>7, LoanMove
<1>8. ASSUME NEW h \in Handles, Copy(h)
      PROVE  LoanInv'
  <2>1. PICK r : /\ Adds(r, handles[h].parent)
                 /\ "aliased" \notin past => Grafts(r, handles[h].parent)
                 /\ handles'[r] = handles[h]
    BY <1>8, CopyGrafts DEF LoanInv
  <2>2. Live(h) /\ handles[h].kind \in {"ref", "dynref"} /\ UNCHANGED <<impls, past>>
    BY <1>8 DEF Copy, Readable
  <2>3. h \in Refs /\ handles[h].loan = "shared"
    BY <1>2, <2>2, BorrowsAssumption DEF LoanInv, KindsRight, Handles, Fitting
  <2>4. "aliased" \notin past /\ "Sync" \notin impls =>
          handles[h].thread = handles[handles[h].parent].thread
    BY <2>2, <2>3 DEF LoanInv, SharedStay
  <2> QED BY <1>2, <2>1, <2>2, <2>3, <2>4, LoanGraft
<1>9. ASSUME NEW h \in Handles, BoxBorrow(h) \/ BoxBorrowMut(h)
      PROVE  LoanInv'
  <2>1. Live(h) /\ h \in Refs /\ handles[h].object \in Implemented /\ past \subseteq past'
    BY <1>2, <1>9 DEF BoxBorrow, BoxBorrowMut, Movable, Handles, LoanInv, KindsRight
  <2>2. CASE BoxBorrow(h)
    BY <2>1, <2>2, LoanBecome DEF BoxBorrow
  <2>3. CASE BoxBorrowMut(h)
    BY <1>2, <2>1, <2>3, LoanBecome DEF BoxBorrowMut, Fitting
  <2> QED BY <1>9, <2>2, <2>3
<1>10. ASSUME NEW h \in Handles, NEW o \in Objects, BoxNew(h, o)
       PROVE  LoanInv'
  <2>1. h = Owner /\ h \notin Refs /\ Live(h) /\ o \in Implemented
    BY <1>2, <1>10, BorrowsAssumption DEF BoxNew
  <2> QED BY <1>10, <2>1, LoanBecome DEF BoxNew
<1>11. ASSUME NEW h \in Handles, NEW o \in Objects, RefFrom(h, o) \/ RefMutFrom(h, o)
       PROVE  LoanInv'
  <2>1. Live(h) /\ h \in Refs /\ o \in Implemented
    BY <1>2, <1>11 DEF RefFrom, RefMutFrom, Movable, Handles, LoanInv, KindsRight
  <2>2. CASE RefFrom(h, o)
    BY <2>1, <2>2, LoanBecome DEF RefFrom
  <2>3. CASE RefMutFrom(h, o)
    BY <2>1, <2>3, LoanBecome DEF RefMutFrom
  <2> QED BY <1>11, <2>2, <2>3
<1>12. ASSUME NEW h \in Handles, NEW o \in Objects, Upcast(h, o)
       PROVE  LoanInv'
  <2>1. /\ Live(h) /\ handles[h].kind \in {"box", "dynref", "dynrefmut"}
        /\ handles[h].object \in Implemented
        /\ Become(h, handles[h].kind, o) /\ UNCHANGED past
    BY <1>2, <1>12 DEF Upcast, Movable, Fitting
  <2>2. o \in Implemented
    BY <1>12, <2>1, UpcastImplemented DEF Upcast
  <2>3. "aliased" \notin past' /\ h \in Refs /\ handles[h].loan = "shared" =>
          handles[h].kind \in {"ref", "dynref"}
    BY <2>1 DEF LoanInv, KindsRight
  <2>4. \/ h = Owner /\ handles[h].kind = "box"
        \/ h \in Refs /\ handles[h].kind \notin {"value", "box"}
    BY <2>1 DEF LoanInv, KindsRight, Handles
  <2>5. handles[h].kind \in {"box", "ref", "mut", "dynref", "dynrefmut"} /\ past \subseteq past'
    BY <2>1
  <2> QED BY <2>1, <2>2, <2>3, <2>4, <2>5, LoanBecome
<1> QED
  BY <1>1, <1>4, <1>5, <1>6, <1>7, <1>8, <1>9, <1>10, <1>11, <1>12 DEF Next

\* The loans on a value form a tree in every reachable state unless a DynRefMut was made
\* of a shared reference; what vtables promise of its type is always true.
THEOREM LoansFormATree == Spec => []LoanInv
<1>1. TypeOK /\ LoanInv /\ [Next]_vars => LoanInv'
  BY LoanStep
<1> QED BY LoanInit, <1>1, TypeCorrect, PTL DEF Spec

-----------------------------------------------------------------------------
(* What the tree is for                                                    *)

\* A writer that is not the tip has lent one loan, to a writer.
LEMMA ChainOfWriters ==
  ASSUME MutLoansSole, NEW x \in Writers, LendsMut(x), TypeOK
  PROVE  Loans(x) \subseteq Writers
<1> SUFFICES ASSUME NEW s \in Loans(x) PROVE s \in Writers
  OBVIOUS
<1>1. x \in Handles
  BY DEF Writers
<1>2. PICK r \in Loans(x) : handles[r].loan = "mut"
  BY DEF LendsMut
<1>3. r \in Refs /\ Live(r) /\ handles[r].parent = x
  BY <1>1, LoansLive DEF Loans
<1>4. s = r
  BY <1>2, <1>3 DEF MutLoansSole
<1> QED BY <1>2, <1>3, <1>4 DEF Writers, Handles

\* XOR mutability holds in every reachable state without an aliased DynRefMut: if the
\* tip of the writers has lent nothing then all handles are writers, and only the tip
\* can be read.
THEOREM BorrowsAreExclusive == Spec => []BorrowsExclusive
<1>1. TypeOK /\ LoanInv => BorrowsExclusive
  <2> SUFFICES ASSUME TypeOK, LoanInv, "aliased" \notin past, NEW g \in Handles, NEW h \in Handles,
                      g # h, Writable(g), Readable(h)
               PROVE  FALSE
    BY DEF BorrowsExclusive, Exclusive
  <2>1. LoanTree /\ KindsRight
    BY DEF LoanInv
  <2>2. g \in Writers /\ Loans(g) = {} /\ ~LendsMut(g)
    BY <2>1, WritableWriter DEF LendsMut
  <2>3. ASSUME NEW x \in Writers PROVE Loans(x) \subseteq Writers
    BY <2>1, <2>2, ChainOfWriters DEF LoanTree, OneTip
  <2>4. Descended(Writers) /\ Writers \subseteq Handles
    BY <2>3 DEF Descended, Writers, Handles
  <2>5. h \in Writers
    BY <2>1, <2>4 DEF LoanTree, Rooted, Readable
  <2>6. ~LendsMut(h)
    BY DEF Readable, LendsMut
  <2> QED BY <2>1, <2>2, <2>5, <2>6 DEF LoanTree, OneTip
<1> QED BY <1>1, TypeCorrect, LoansFormATree, PTL

\* A value that is not Sync is read on the thread of the writers' tip only: shared
\* references stay on the thread of their parents, and descend from the tip.
THEOREM SharedIfSync == Spec => []SharedOnlyIfSync
<1>1. TypeOK /\ LoanInv => SharedOnlyIfSync
  <2> SUFFICES ASSUME TypeOK, LoanInv, "Sync" \notin impls, "aliased" \notin past
               PROVE  \A g, h \in Handles :
                        Readable(g) /\ Readable(h) => handles[g].thread = handles[h].thread
    BY DEF SharedOnlyIfSync
  <2>1. LoanTree /\ SharedStay
    BY DEF LoanInv
  <2> DEFINE Tips == {t \in Writers : ~LendsMut(t)}
             S == Writers \cup
                    {x \in Handles : \E t \in Tips : handles[x].thread = handles[t].thread}
  <2>2. ASSUME NEW x \in S, NEW r \in Loans(x) PROVE r \in S
    <3>1. x \in Handles /\ r \in Refs /\ r \in Handles /\ Live(r) /\ handles[r].parent = x
      BY LoansLive DEF Writers, Loans
    <3>2. CASE x \in Writers /\ LendsMut(x)
      BY <2>1, <3>2, ChainOfWriters DEF LoanTree
    <3>3. CASE ~(x \in Writers /\ LendsMut(x))
      <4>1. PICK t \in Tips : handles[x].thread = handles[t].thread
        BY <3>3
      <4>2. CASE handles[r].loan = "mut"
        BY <3>1, <4>2 DEF Writers
      <4>3. CASE handles[r].loan = "shared"
        BY <2>1, <3>1, <4>1, <4>3 DEF SharedStay
      <4>4. handles[r].loan \in {"mut", "shared"}
        BY <3>1, HandleTyped, HandleFields DEF Fitting, Fields, Live, LoanInv, KindsRight
      <4> QED BY <4>2, <4>3, <4>4
    <3> QED BY <3>2, <3>3
  <2>3. Descended(S) /\ S \subseteq Handles
    BY <2>2 DEF Descended, Writers, Handles
  <2>4. ASSUME NEW h \in Handles, Readable(h)
        PROVE  \E t \in Tips : handles[h].thread = handles[t].thread
    <3>1. h \in S
      BY <2>1, <2>3, <2>4 DEF LoanTree, Rooted, Readable
    <3>2. ~LendsMut(h)
      BY <2>4 DEF Readable, LendsMut
    <3> QED BY <3>1, <3>2
  <2> QED BY <2>1, <2>4 DEF LoanTree, OneTip
<1> QED BY <1>1, TypeCorrect, LoansFormATree, PTL

\* As long as no DynRefMut was sent or made of a shared reference, a value that is not
\* Send is owned and written on the thread that made it.
THEOREM OwnersAtHome == Spec => []OwnersStayHome
<1>1. TypeOK /\ LoanInv => OwnersStayHome
  <2> SUFFICES ASSUME TypeOK, LoanInv, past = {}, "Send" \notin impls,
                      NEW h \in Handles, Writable(h)
               PROVE  handles[h].thread = Home
    BY DEF OwnersStayHome, StaysHome
  <2>1. h \in Writers
    BY WritableWriter DEF LoanInv
  <2> QED BY <2>1 DEF LoanInv, WritersStay
<1> QED BY <1>1, TypeCorrect, LoansFormATree, PTL

=============================================================================
