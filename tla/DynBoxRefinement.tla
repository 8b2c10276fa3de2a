-------------------------- MODULE DynBoxRefinement --------------------------
(***************************************************************************)
(* DynBox keeps the promise of an owning pointer: the proof that every     *)
(* step of DynBox is a step of OwnedValues or changes nothing there, for   *)
(* any values, sizes, traits, allocators and number of owners and blocks.  *)
(***************************************************************************)
EXTENDS DynBoxConservation

-----------------------------------------------------------------------------
(* Where the instances are                                                 *)

LEMMA VacatedCell ==
  ASSUME TypeOK, NEW p, NEW b \in Blocks, heap' = Vacated(p)
  PROVE  /\ b # p => heap'[b] = heap[b]
         /\ b = p => heap'[b] = [heap[b] EXCEPT !.val = None] /\ heap'[b].val = None
<1>1. heap[b] \in [alloc : Allocators \cup {Global, None}, size : Nat, val : Values \cup {None}]
  BY DEF TypeOK, Block
<1>2. [heap[b] EXCEPT !.val = None].val = None
  BY <1>1
<1> QED BY <1>2 DEF Vacated

LEMMA InstancesOwnedStep ==
  ASSUME TypeOK, Ownership, InstancesOwned, [Next]_vars
  PROVE  InstancesOwned'
<1>1. CASE UNCHANGED <<slots, heap>>
  BY <1>1 DEF InstancesOwned
<1>2. ASSUME NEW s \in Slots, Shaped(s), NEW b \in Blocks, heap'[b].val # None
      PROVE  \E r \in Slots : slots'[r].kind \in AtRest /\ slots'[r].ptr = b
  <2>1. ASSUME heap[b].val # None, OthersKept(s), ~(slots[s].kind \in AtRest /\ slots[s].ptr = b)
        PROVE  \E r \in Slots : slots'[r].kind \in AtRest /\ slots'[r].ptr = b
    BY <2>1 DEF InstancesOwned, OthersKept
  <2>2. ASSUME NEW v \in Values, NEW a \in Usable, NEW p \in Pointers, Created(s, v, a, p)
        PROVE  \E r \in Slots : slots'[r].kind \in AtRest /\ slots'[r].ptr = b
    <3>1. CASE p = b
      BY <2>2, <3>1 DEF Created
    <3>2. CASE p # b
      <4>1. heap[b].val # None
        BY <1>2, <2>2, <3>2 DEF Created, Initialised, WithBlock
      <4> QED BY <2>1, <2>2, <4>1 DEF Created, Empty, AtRest
    <3> QED BY <3>1, <3>2
  <2>3. CASE Converted(s)
    <3>1. heap[b].val # None /\ OthersKept(s)
      BY <1>2, <2>3 DEF Converted, Becomes
    <3>2. slots'[s].kind \in AtRest /\ slots'[s].ptr = slots[s].ptr
      BY <2>3 DEF Converted, Becomes
    <3> QED BY <2>1, <3>1, <3>2
  <2>4. CASE MovedOut(s) \/ Dropped(s)
    <3>1. heap' = Vacated(slots[s].ptr) /\ OthersKept(s)
      BY <2>4 DEF MovedOut, Dropped, Becomes, Gone
    <3>2. slots[s].ptr # b /\ heap[b].val # None
      BY <1>2, <3>1, VacatedCell
    <3> QED BY <2>1, <3>1, <3>2
  <2>5. CASE \/ \E kept \in BOOLEAN : MethodEnds(s, kept)
             \/ DeallocationUnwinds(s) \/ DroppedAgain(s) \/ Disposed(s)
    <3>1. slots[s].kind \notin AtRest /\ OthersKept(s)
      BY <2>5 DEF MethodEnds, DeallocationUnwinds, DroppedAgain, Disposed, Becomes, Gone, AtRest
    <3>2. heap'[b] = heap[b] \/ heap'[b] = Free
      BY <2>5 DEF MethodEnds, DeallocationUnwinds, DroppedAgain, Disposed, Freed, WithBlock
    <3> QED BY <1>2, <2>1, <3>1, <3>2 DEF Free
  <2> QED BY <1>2, <2>2, <2>3, <2>4, <2>5 DEF Shaped
<1> QED BY <1>1, <1>2, StepShapes DEF InstancesOwned, Nothing, Refused

\* A block holds an instance only as long as an owner at rest refers to it, whatever
\* unwinds.
THEOREM InstancesAreOwned == Spec => []InstancesOwned
<1>1. Init => InstancesOwned
  BY DEF Init, InstancesOwned, Free
<1>2. TypeOK /\ Ownership /\ InstancesOwned /\ [Next]_vars => InstancesOwned'
  BY InstancesOwnedStep
<1> QED BY TypeCorrect, OwnershipHolds, <1>1, <1>2, PTL DEF Spec

\* An instance is where its boxed value is, in one block.
LEMMA OneCell ==
  ASSUME TypeOK, Ownership, InstancesOwned, NEW b \in Blocks, heap[b].val # None
  PROVE  /\ heap[b].val \in Values /\ place[heap[b].val] = "boxed"
         /\ \A c \in Blocks : heap[c].val = heap[b].val => c = b
<1>1. ASSUME NEW c \in Blocks, heap[c].val # None
      PROVE  \E s \in Slots : /\ slots[s].kind \in AtRest /\ slots[s].ptr = c
                              /\ slots[s].ty = heap[c].val /\ place[heap[c].val] = "boxed"
  <2>1. PICK s \in Slots : slots[s].kind \in AtRest /\ slots[s].ptr = c
    BY <1>1 DEF InstancesOwned
  <2>2. InstanceHeld(slots[s])
    BY <2>1 DEF Ownership, Sound
  <2> QED BY <2>1, <2>2 DEF InstanceHeld
<1>2. heap[b].val \in Values
  BY DEF TypeOK, Block
<1>3. ASSUME NEW c \in Blocks, heap[c].val = heap[b].val PROVE c = b
  <2>1. PICK s \in Slots : slots[s].kind \in AtRest /\ slots[s].ptr = b /\ slots[s].ty = heap[b].val
    BY <1>1
  <2>2. PICK r \in Slots : slots[r].kind \in AtRest /\ slots[r].ptr = c /\ slots[r].ty = heap[b].val
    BY <1>1, <1>3
  <2>3. s = r
    BY <2>1, <2>2 DEF Ownership, Apart, Holding
  <2> QED BY <2>1, <2>2, <2>3
<1> QED BY <1>1, <1>2, <1>3

\* A DynBox whose value is gone has an empty block.
LEMMA EmptyCell ==
  ASSUME TypeOK, Ownership, InstancesOwned, NEW s \in Slots, slots[s].kind \notin AtRest,
         slots[s].ptr \in Blocks
  PROVE  heap[slots[s].ptr].val = None
  BY DEF InstancesOwned, Ownership, Apart

-----------------------------------------------------------------------------
(* Blocks with an instance                                                 *)

LEMMA OccupiedBlockStep ==
  ASSUME TypeOK, Ownership, InstancesOwned, [Next]_vars,
         NEW b \in Blocks, heap[b].val # None
  PROVE  heap'[b] \in {heap[b], [heap[b] EXCEPT !.val = None]}
<1>1. CASE UNCHANGED heap
  BY <1>1
<1>2. ASSUME NEW s \in Slots, Shaped(s), heap'[b] # heap[b]
      PROVE  heap'[b] = [heap[b] EXCEPT !.val = None]
  <2>1. ASSUME NEW v \in Values, NEW a \in Usable, Created(s, v, a, b) PROVE FALSE
    <3>1. b # Dangling
      BY NamesAssumption
    <3>2. heap[b] = Free
      BY <2>1, <3>1 DEF Created, Allocated
    <3> QED BY <3>2 DEF Free
  <2>2. slots[s].ptr = b /\ heap' \in {Vacated(b), Freed(b)}
    BY <1>2, <2>1, OthersBlocks
  <2>3. slots[s].kind \in AtRest
    BY <2>2, EmptyCell
  <2>4. CASE MovedOut(s) \/ Dropped(s)
    BY <2>2, <2>4, VacatedCell DEF MovedOut, Dropped
  <2>5. CASE ~MovedOut(s) /\ ~Dropped(s)
    <3>1. CASE Converted(s)
      BY <1>2, <3>1 DEF Converted
    <3>2. CASE \E v \in Values, a \in Usable, p \in Pointers : Created(s, v, a, p)
      BY <2>3, <3>2 DEF Created, Empty, AtRest
    <3> QED
      BY <1>2, <2>3, <2>5, <3>1, <3>2
         DEF Shaped, MethodEnds, DeallocationUnwinds, DroppedAgain, Disposed, AtRest
  <2> QED BY <2>4, <2>5
<1> QED BY <1>1, <1>2, StepShapes DEF Nothing, Refused

\* A block that holds a live instance is neither freed nor handed out again nor
\* overwritten, whatever unwinds.
THEOREM OccupiedBlocksStay == Spec => OccupiedBlockStays
<1>1. TypeOK /\ Ownership /\ InstancesOwned /\ [Next]_vars
        => [\A b \in Blocks : heap[b].val # None =>
              heap'[b] \in {heap[b], [heap[b] EXCEPT !.val = None]}]_vars
  BY OccupiedBlockStep
<1> QED
  BY TypeCorrect, OwnershipHolds, InstancesAreOwned, <1>1, PTL DEF Spec, OccupiedBlockStays

-----------------------------------------------------------------------------
(* The refinement                                                          *)

Cell == [b \in Blocks |-> heap[b].val]

\* The cells of a block whose value v is taken out, and of a value that has none.
LEMMA VacatedIsVacate ==
  ASSUME TypeOK, Ownership, InstancesOwned, NEW s \in Slots, slots[s].kind = "box",
         heap' = Vacated(slots[s].ptr)
  PROVE  Cell' = OV!Vacate(slots[s].ty)
<1>1. InstanceHeld(slots[s])
  BY DEF Ownership, Sound, AtRest
<1>2. slots[s].ty \in Values
  BY OwnerTyped, SlotFields DEF BoxKinds
<1>3. ASSUME NEW b \in Blocks
      PROVE  heap'[b].val = IF heap[b].val = slots[s].ty THEN None ELSE heap[b].val
  <2>1. CASE b = slots[s].ptr
    <3>1. heap'[b].val = None
      BY <2>1, VacatedCell
    <3>2. heap[b].val = slots[s].ty
      BY <1>1, <2>1 DEF InstanceHeld
    <3> QED BY <3>1, <3>2
  <2>2. CASE b # slots[s].ptr
    <3>1. heap[b].val # slots[s].ty
      <4>1. SUFFICES ASSUME heap[b].val = slots[s].ty PROVE FALSE
        OBVIOUS
      <4>2. heap[b].val # None
        BY <1>2, <4>1, NamesAssumption
      <4>3. PICK r \in Slots : slots[r].kind \in AtRest /\ slots[r].ptr = b
        BY <4>2 DEF InstancesOwned
      <4>4. slots[r].ty = slots[s].ty
        BY <4>1, <4>3 DEF Ownership, Sound, InstanceHeld
      <4>5. r # s
        BY <2>2, <4>3
      <4> QED BY <4>3, <4>4, <4>5 DEF Ownership, Apart, Holding, AtRest
    <3>2. heap'[b] = heap[b]
      BY <2>2 DEF Vacated
    <3> QED BY <3>1, <3>2
  <2> QED BY <2>1, <2>2
<1> QED BY <1>3 DEF Cell, OV!Vacate

LEMMA NowhereIsVacate ==
  ASSUME TypeOK, Ownership, InstancesOwned, NEW v \in Values, place[v] # "boxed", UNCHANGED heap
  PROVE  Cell' = OV!Vacate(v) /\ Cell' = Cell
<1>1. \A b \in Blocks : heap[b].val # v
  BY OneCell, NamesAssumption
<1> QED BY <1>1 DEF Cell, OV!Vacate

LEMMA RefinementStep ==
  ASSUME CallsDoNotUnwind, TypeOK, Ownership, InstancesOwned, NothingUnwound, [Next]_vars
  PROVE  [OV!Next]_(OV!vars)
<1> USE DEF Cell
<1>1. CASE UNCHANGED <<place, drops>> /\ Cell' = Cell
  BY <1>1 DEF OV!vars
<1>2. ASSUME NEW v \in Values, place[v] # "dead", Destroyed(v), Cell' = OV!Vacate(v)
      PROVE  OV!Next
  BY <1>2 DEF OV!Next, OV!Destroy, Destroyed, MoveValue
<1>3. ASSUME NEW v \in Values, Refused(v) PROVE OV!Next
  BY <1>2, <1>3, NowhereIsVacate DEF Refused
<1>4. ASSUME NEW s \in Slots, Shaped(s) PROVE [OV!Next]_(OV!vars)
  <2>1. ASSUME NEW v \in Values, NEW a \in Usable, NEW p \in Pointers, Created(s, v, a, p)
        PROVE  OV!Next
    <3>1. place[v] = "client" /\ place' = [place EXCEPT ![v] = "boxed"] /\ UNCHANGED drops
      BY <2>1 DEF Created, MoveValue
    <3>2. CASE p \in Blocks
      <4>1. Cell[p] = None
        <5>1. p # Dangling
          BY <3>2, NamesAssumption
        <5>2. heap[p] = Free
          BY <2>1, <5>1 DEF Created, Allocated
        <5> QED BY <3>2, <5>2 DEF Free
      <4>2. Cell' = [Cell EXCEPT ![p] = v]
        BY <2>1 DEF Created, Initialised, WithBlock
      <4> QED BY <3>1, <3>2, <4>1, <4>2 DEF OV!Next, OV!Put
    <3>3. CASE p \notin Blocks
      <4>1. Cell' = Cell
        BY <2>1, <3>3 DEF Created, Initialised, WithBlock
      <4> QED BY <3>1, <4>1 DEF OV!Next, OV!Put
    <3> QED BY <3>2, <3>3
  <2>2. slots[s].kind \in {"box", "calling"} => slots[s].ty \in Values
    BY OwnerTyped, SlotFields DEF BoxKinds
  <2>3. /\ slots[s].kind = "box" => place[slots[s].ty] = "boxed"
        /\ slots[s].kind = "calling" => place[slots[s].ty] = "callee"
    BY DEF Ownership, Sound, InstanceHeld, AtRest
  <2>4. CASE MovedOut(s)
    <3>1. Cell' = OV!Vacate(slots[s].ty)
      BY <2>4, VacatedIsVacate DEF MovedOut
    <3> QED BY <2>2, <2>3, <2>4, <3>1 DEF MovedOut, MoveValue, OV!Next, OV!TakeOut
  <2>5. CASE Dropped(s)
    <3>1. Cell' = OV!Vacate(slots[s].ty)
      BY <2>5, VacatedIsVacate DEF Dropped
    <3> QED BY <1>2, <2>2, <2>3, <2>5, <3>1 DEF Dropped
  <2>6. ASSUME NEW kept \in BOOLEAN, MethodEnds(s, kept) PROVE OV!Next
    <3>1. /\ slots[s].ty \in Values /\ place[slots[s].ty] = "callee"
          /\ Released(slots[s].ty, kept) /\ UNCHANGED heap
      BY <2>2, <2>3, <2>6 DEF MethodEnds
    <3>2. Cell' = OV!Vacate(slots[s].ty) /\ Cell' = Cell
      BY <3>1, NowhereIsVacate
    <3>3. CASE kept
      BY <3>1, <3>2, <3>3 DEF Released, MoveValue, OV!Next, OV!HandBack
    <3>4. CASE ~kept
      BY <1>2, <3>1, <3>2, <3>4 DEF Released
    <3> QED BY <3>3, <3>4
  <2>7. ~DeallocationUnwinds(s) /\ ~DroppedAgain(s)
    BY DEF DeallocationUnwinds, DroppedAgain, NothingUnwound, CallsDoNotUnwind
  <2>8. CASE Converted(s)
    BY <1>1, <2>8 DEF Converted
  <2>9. CASE Disposed(s)
    <3>1. ASSUME NEW b \in Blocks PROVE heap'[b].val = heap[b].val
      <4>1. CASE heap'[b] = heap[b]
        BY <4>1
      <4>2. CASE heap'[b] # heap[b]
        <5>1. heap'[b] = Free /\ b = slots[s].ptr
          BY <2>9, <4>2 DEF Disposed, Freed, WithBlock
        <5>2. heap[b].val = None
          BY <2>9, <5>1, EmptyCell DEF Disposed, AtRest
        <5> QED BY <5>1, <5>2 DEF Free
      <4> QED BY <4>1, <4>2
    <3>2. Cell' = Cell
      BY <3>1
    <3> QED BY <1>1, <2>9, <3>2 DEF Disposed
  <2> QED BY <1>4, <2>1, <2>4, <2>5, <2>6, <2>7, <2>8, <2>9 DEF Shaped
<1>5. CASE Nothing
  BY <1>1, <1>5 DEF Nothing
<1> QED BY <1>3, <1>4, <1>5, StepShapes

LEMMA RefinementStart == Init => OV!Init
  BY DEF Init, OV!Init, Free

\* As long as calls do not unwind, DynBox behaves like an owning pointer: whatever
\* conversions, upcasts and deallocations happen, a value is in one place, moves and
\* is never copied, and is destroyed from the place where it is.
THEOREM DynBoxImplementsOwnedValues ==
  ASSUME CallsDoNotUnwind
  PROVE  Spec => ImplementsOwnedValues
<1>1. Init => NothingUnwound
  BY DEF Init, NothingUnwound, Empty
<1>2. TypeOK /\ NothingUnwound /\ [Next]_vars => NothingUnwound'
  BY NothingUnwoundStep
<1>3. TypeOK /\ Ownership /\ InstancesOwned /\ NothingUnwound /\ [Next]_vars
        => [OV!Next]_(OV!vars)
  BY RefinementStep
<1> QED
  BY TypeCorrect, OwnershipHolds, InstancesAreOwned, RefinementStart, <1>1, <1>2, <1>3, PTL
     DEF Spec, ImplementsOwnedValues, OV!Spec
=============================================================================
