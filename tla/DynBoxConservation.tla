-------------------------- MODULE DynBoxConservation --------------------------
(***************************************************************************)
(* Theorems about what DynBox conserves, for any values, sizes, traits,    *)
(* allocators and number of owners and blocks: allocator instances are not *)
(* duplicated, values and blocks are not lost, and a destructor runs twice *)
(* only when a by-value call unwinds.                                      *)
(***************************************************************************)
EXTENDS DynBoxProofs

-----------------------------------------------------------------------------
(* Allocators                                                              *)

\* A step of slot s after which the owner there has the allocator it had.
LEMMA AllocatorStays ==
  ASSUME TypeOK, AllocatorConserved, UNCHANGED allocs, NEW s \in Slots, NEW u, Put(s, u),
         \A a \in Allocators : u.alloc = a <=> slots[s].alloc = a
  PROVE  AllocatorConserved'
<1>1. slots'[s] = u /\ \A r \in Slots \ {s} : slots'[r] = slots[r]
  BY DEF Put, TypeOK
<1>2. \A r \in Slots : \A a \in Allocators : slots'[r].alloc = a <=> slots[r].alloc = a
  BY <1>1
<1> QED BY <1>2 DEF AllocatorConserved

\* The client gives its allocator to a new owner.
LEMMA AllocatorMovesIn ==
  ASSUME TypeOK, AllocatorConserved, NEW s \in Slots, slots[s] = Empty,
         NEW a \in Usable, MoveAlloc(a, "held"), NEW u, Put(s, u), u.alloc = a
  PROVE  AllocatorConserved'
<1>1. slots'[s] = u /\ \A r \in Slots \ {s} : slots'[r] = slots[r]
  BY DEF Put, TypeOK
<1>2. slots[s].alloc \notin Allocators
  BY NamesAssumption DEF Empty
<1>3. ASSUME NEW x \in Allocators, x # a
      PROVE  /\ allocs'[x] = allocs[x]
             /\ \A r \in Slots : slots'[r].alloc = x <=> slots[r].alloc = x
  BY <1>1, <1>2, <1>3 DEF MoveAlloc
<1>4. ASSUME a \in Allocators
      PROVE  allocs'[a] = "held" /\ \A r \in Slots : slots'[r].alloc = a <=> r = s
  <2>1. allocs[a] = "client"
    BY <1>4, NamesAssumption DEF Usable
  <2>2. \A r \in Slots : slots[r].alloc # a
    BY <1>4, <2>1 DEF AllocatorConserved
  <2> QED BY <1>1, <1>4, <2>2 DEF MoveAlloc
<1> QED BY <1>3, <1>4 DEF AllocatorConserved

\* An owner loses its allocator, which was dropped or leaked.
LEMMA AllocatorMovesOut ==
  ASSUME TypeOK, AllocatorConserved, NEW s \in Slots,
         NEW where \in {"dropped", "leaked"}, MoveAlloc(slots[s].alloc, where),
         NEW u, Put(s, u), u.alloc = None
  PROVE  AllocatorConserved'
<1>1. slots'[s] = u /\ \A r \in Slots \ {s} : slots'[r] = slots[r]
  BY DEF Put, TypeOK
<1>2. u.alloc \notin Allocators
  BY NamesAssumption
<1>3. ASSUME NEW x \in Allocators, x # slots[s].alloc
      PROVE  /\ allocs'[x] = allocs[x]
             /\ \A r \in Slots : slots'[r].alloc = x <=> slots[r].alloc = x
  BY <1>1, <1>2, <1>3 DEF MoveAlloc
<1>4. ASSUME NEW x \in Allocators, x = slots[s].alloc
      PROVE  allocs'[x] = where /\ \A r \in Slots : slots'[r].alloc # x
  BY <1>1, <1>2, <1>4 DEF MoveAlloc, AllocatorConserved
<1> QED BY <1>3, <1>4 DEF AllocatorConserved

\* An allocator that the client holds is dropped.
LEMMA AllocatorRefused ==
  ASSUME AllocatorConserved, UNCHANGED slots, NEW a \in Usable, MoveAlloc(a, "dropped")
  PROVE  AllocatorConserved'
<1>1. \A x \in Allocators : x = a => allocs[x] = "client"
  BY NamesAssumption DEF Usable
<1> QED BY <1>1 DEF AllocatorConserved, MoveAlloc

LEMMA AllocatorStep ==
  ASSUME TypeOK, AllocatorConserved, [Next]_vars
  PROVE  AllocatorConserved'
<1>1. CASE UNCHANGED <<slots, allocs>>
  BY <1>1 DEF AllocatorConserved
<1>2. ASSUME NEW v \in Values, NEW a \in Usable, TryNewInFails(v, a) \/ NewInFails(v, a)
      PROVE  AllocatorConserved'
  BY <1>2, AllocatorRefused DEF TryNewInFails, NewInFails
<1>3. ASSUME NEW s \in Slots, NEW v \in Values, NEW a \in Usable, NEW p \in Pointers,
             StdBoxNew(s, v, a, p) \/ \E t \in Traits : TryNewIn(s, v, t, a, p)
      PROVE  AllocatorConserved'
  <2>1. CASE StdBoxNew(s, v, a, p)
    BY <2>1, AllocatorMovesIn DEF StdBoxNew, Owner
  <2>2. ASSUME NEW t \in Traits, TryNewIn(s, v, t, a, p) PROVE AllocatorConserved'
    BY <2>2, AllocatorMovesIn DEF TryNewIn, Owner
  <2> QED BY <1>3, <2>1, <2>2
<1>4. ASSUME NEW s \in Slots, NEW t \in Traits,
             FromBox(s, t) \/ UpcastPtr(s, t) \/ UpcastBox(s, t)
      PROVE  AllocatorConserved'
  <2>1. slots[s] \in Slot
    BY OwnerTyped
  <2>2. CASE FromBox(s, t)
    <3>1. [slots[s] EXCEPT !.kind = "box", !.trait = t].alloc = slots[s].alloc
      BY <2>1, <2>2 DEF FromBox, Slot, Empty, BoxKinds
    <3> QED BY <2>2, <3>1, AllocatorStays DEF FromBox
  <2>3. CASE UpcastPtr(s, t)
    <3>1. DynPtrUpcast(slots[s], t).alloc = slots[s].alloc
      BY <2>1, <2>3, RawMoves DEF UpcastPtr
    <3> QED BY <2>3, <3>1, AllocatorStays DEF UpcastPtr
  <2>4. CASE UpcastBox(s, t)
    <3>1. AsBox(DynPtrUpcast(AsRaw(slots[s]), t), slots[s].alloc).alloc = slots[s].alloc
      BY <2>1, <2>4, UpcastMoves DEF UpcastBox, BoxKinds
    <3> QED BY <2>4, <3>1, AllocatorStays DEF UpcastBox
  <2> QED BY <1>4, <2>2, <2>3, <2>4
<1>5. ASSUME NEW s \in Slots,
             IntoRawWithAllocator(s) \/ IntoRaw(s) \/ FromRawIn(s) \/ FromRaw(s)
      PROVE  AllocatorConserved'
  <2>1. slots[s] \in Slot
    BY OwnerTyped
  <2>2. CASE IntoRawWithAllocator(s)
    <3>1. AsRaw(slots[s]).alloc = slots[s].alloc
      BY <2>1, <2>2, BoxMoves DEF IntoRawWithAllocator, BoxKinds
    <3> QED BY <2>2, <3>1, AllocatorStays DEF IntoRawWithAllocator
  <2>3. CASE IntoRaw(s)
    <3>1. [AsRaw(slots[s]) EXCEPT !.alloc = None].alloc = None
      BY <2>1, <2>3 DEF IntoRaw, AsRaw, Slot, Empty, BoxKinds
    <3> QED BY <2>3, <3>1, AllocatorMovesOut DEF IntoRaw
  <2>4. CASE FromRawIn(s)
    <3>1. AsBox(slots[s], slots[s].alloc).alloc = slots[s].alloc
      BY <2>1, <2>4, SlotFields, RawMoves DEF FromRawIn
    <3> QED BY <2>4, <3>1, AllocatorStays DEF FromRawIn
  <2>5. CASE FromRaw(s)
    <3>1. AsBox(slots[s], Global).alloc = Global /\ slots[s].alloc = None
      BY <2>1, <2>5, RawMoves DEF FromRaw
    <3>2. Global \notin Allocators /\ None \notin Allocators
      BY NamesAssumption
    <3> QED BY <2>5, <3>1, <3>2, AllocatorStays DEF FromRaw
  <2> QED BY <1>5, <2>2, <2>3, <2>4, <2>5
<1>6. ASSUME NEW s \in Slots, slots[s].kind \in BoxKinds, NEW k \in BoxKinds,
             UNCHANGED allocs, Put(s, [slots[s] EXCEPT !.kind = k])
      PROVE  AllocatorConserved'
  <2>1. [slots[s] EXCEPT !.kind = k].alloc = slots[s].alloc
    BY <1>6, OwnerTyped DEF Slot, Empty, BoxKinds
  <2> QED BY <1>6, <2>1, AllocatorStays
<1>7. ASSUME NEW s \in Slots, NEW kept \in BOOLEAN,
             \/ BeginDrop(s) \/ CallByValue(s) \/ CallReturns(s, kept)
             \/ CallPanics(s, kept) \/ DynDeallocPanics(s) \/ UnwindDrop(s)
      PROVE  AllocatorConserved'
  BY <1>6, <1>7 DEF BeginDrop, CallByValue, CallReturns, CallPanics, DynDeallocPanics,
                    UnwindDrop, BoxKinds
<1>8. ASSUME NEW s \in Slots,
             DropPanics(s) \/ FinishDrop(s) \/ FinishDropPanics(s) \/ DynDealloc(s)
      PROVE  AllocatorConserved'
  BY <1>8, AllocatorMovesOut DEF DropPanics, FinishDrop, FinishDropPanics, DynDealloc, Empty
<1>9. ASSUME NEW s \in Slots, PanicAborts(s)
      PROVE  AllocatorConserved'
  BY <1>1, <1>9 DEF PanicAborts
<1> QED BY <1>1, <1>2, <1>3, <1>4, <1>5, <1>7, <1>8, <1>9 DEF Next, vars

\* An allocator instance is in one owner at most while it is held and in none after it
\* was dropped or leaked, whatever unwinds and for any number of allocators.
THEOREM AllocatorsAreConserved == Spec => []AllocatorConserved
<1>1. Init => AllocatorConserved
  BY NamesAssumption DEF Init, AllocatorConserved, Empty
<1>2. TypeOK /\ AllocatorConserved /\ [Next]_vars => AllocatorConserved'
  BY AllocatorStep
<1> QED BY TypeCorrect, <1>1, <1>2, PTL DEF Spec

-----------------------------------------------------------------------------
(* The shapes of a step: what a step does to owners, blocks and values,    *)
(* whatever the conversion, the trait and the allocator.                   *)

OthersKept(s) == \A r \in Slots \ {s} : slots'[r] = slots[r]

Gone(s) == OthersKept(s) /\ slots'[s] = Empty

Becomes(s, kinds) ==
  /\ OthersKept(s) /\ slots'[s].kind \in kinds
  /\ slots'[s].ptr = slots[s].ptr /\ slots'[s].ty = slots[s].ty

Nothing == UNCHANGED <<slots, heap, place, drops>> /\ (Running' => Running)

\* The allocation failed.
Refused(v) == place[v] = "client" /\ Destroyed(v) /\ UNCHANGED <<slots, heap>>

Created(s, v, a, p) ==
  /\ slots[s] = Empty /\ place[v] = "client" /\ p \in Allocated(Size[v])
  /\ heap' = Initialised(p, a, v)
  /\ MoveValue(v, "boxed") /\ UNCHANGED drops
  /\ OthersKept(s) /\ slots'[s].kind \in AtRest /\ slots'[s].ptr = p /\ slots'[s].ty = v

Converted(s) ==
  /\ slots[s].kind \in AtRest /\ Becomes(s, AtRest)
  /\ UNCHANGED <<heap, place, drops>>

\* A method that takes `self` by value has the value.
MovedOut(s) ==
  /\ slots[s].kind = "box" /\ Becomes(s, {"calling"})
  /\ heap' = Vacated(slots[s].ptr)
  /\ MoveValue(slots[s].ty, "callee") /\ UNCHANGED drops

MethodEnds(s, kept) ==
  /\ slots[s].kind = "calling" /\ Becomes(s, {"returned", "panicked"})
  /\ Released(slots[s].ty, kept)
  /\ UNCHANGED heap

Dropped(s) ==
  /\ slots[s].kind = "box"
  /\ Becomes(s, {"dropping"}) \/ ("drop" \in Unwinds /\ Gone(s))
  /\ heap' = Vacated(slots[s].ptr)
  /\ Destroyed(slots[s].ty)

DeallocationUnwinds(s) ==
  /\ slots[s].kind = "returned" /\ Becomes(s, {"panicked"}) /\ "dealloc" \in Unwinds
  /\ UNCHANGED <<heap, place, drops>>

DroppedAgain(s) ==
  /\ slots[s].kind = "panicked" /\ Becomes(s, {"unwinding"})
  /\ drops' = [drops EXCEPT ![slots[s].ty] = @ + 1]
  /\ UNCHANGED <<heap, place>> /\ ~Running'

Disposed(s) ==
  /\ slots[s].kind \in {"dropping", "returned"} /\ Gone(s)
  /\ \/ heap' = Freed(slots[s].ptr)
     \/ /\ UNCHANGED heap
        /\ \/ "dealloc" \in Unwinds
           \/ Size[slots[s].ty] = 0
           \/ ~Fits(slots[s].alloc, slots[s].ptr, Size[slots[s].ty])
  /\ UNCHANGED <<place, drops>>

Shaped(s) ==
  \/ \E v \in Values, a \in Usable, p \in Pointers : Created(s, v, a, p)
  \/ Converted(s) \/ MovedOut(s) \/ Dropped(s)
  \/ \E kept \in BOOLEAN : MethodEnds(s, kept)
  \/ DeallocationUnwinds(s) \/ DroppedAgain(s) \/ Disposed(s)

\* A conversion that leaves owner u in slot s, and a DynBox that enters another phase.
LEMMA PutBecomes ==
  ASSUME TypeOK, NEW s \in Slots, NEW kinds, NEW u, Put(s, u),
         u.kind \in kinds, u.ptr = slots[s].ptr, u.ty = slots[s].ty
  PROVE  Becomes(s, kinds)
  BY DEF Put, TypeOK, Becomes, OthersKept

LEMMA PhaseBecomes ==
  ASSUME TypeOK, NEW s \in Slots, slots[s].kind \in BoxKinds, NEW k,
         Put(s, [slots[s] EXCEPT !.kind = k])
  PROVE  Becomes(s, {k})
<1>1. LET u == [slots[s] EXCEPT !.kind = k]
      IN  u.kind = k /\ u.ptr = slots[s].ptr /\ u.ty = slots[s].ty
  BY OwnerTyped DEF Slot, Empty, BoxKinds
<1> QED BY <1>1, PutBecomes

LEMMA PutGone == ASSUME TypeOK, NEW s \in Slots, Put(s, Empty) PROVE Gone(s)
  BY DEF Put, TypeOK, Gone, OthersKept

LEMMA ConversionShape ==
  ASSUME TypeOK, NEW s \in Slots,
         \/ \E t \in Traits : FromBox(s, t) \/ UpcastPtr(s, t) \/ UpcastBox(s, t)
         \/ IntoRawWithAllocator(s) \/ IntoRaw(s) \/ FromRawIn(s) \/ FromRaw(s)
  PROVE  Converted(s)
<1>1. slots[s] \in Slot
  BY OwnerTyped
<1>2. ASSUME NEW t \in Traits, FromBox(s, t) PROVE Converted(s)
  <2>1. LET u == [slots[s] EXCEPT !.kind = "box", !.trait = t]
        IN  u.kind \in AtRest /\ u.ptr = slots[s].ptr /\ u.ty = slots[s].ty
    BY <1>1, <1>2 DEF FromBox, Slot, Empty, BoxKinds, AtRest
  <2> QED BY <1>2, <2>1, PutBecomes DEF FromBox, Converted, AtRest
<1>3. ASSUME NEW t \in Traits, UpcastPtr(s, t) PROVE Converted(s)
  <2>1. LET u == DynPtrUpcast(slots[s], t)
        IN  u.kind \in AtRest /\ u.ptr = slots[s].ptr /\ u.ty = slots[s].ty
    BY <1>1, <1>3, RawMoves DEF UpcastPtr, AtRest
  <2> QED BY <1>3, <2>1, PutBecomes DEF UpcastPtr, Converted, AtRest
<1>4. ASSUME NEW t \in Traits, UpcastBox(s, t) PROVE Converted(s)
  <2>1. LET u == AsBox(DynPtrUpcast(AsRaw(slots[s]), t), slots[s].alloc)
        IN  u.kind \in AtRest /\ u.ptr = slots[s].ptr /\ u.ty = slots[s].ty
    BY <1>1, <1>4, UpcastMoves DEF UpcastBox, AtRest, BoxKinds
  <2> QED BY <1>4, <2>1, PutBecomes DEF UpcastBox, Converted, AtRest
<1>5. CASE IntoRawWithAllocator(s)
  <2>1. LET u == AsRaw(slots[s])
        IN  u.kind \in AtRest /\ u.ptr = slots[s].ptr /\ u.ty = slots[s].ty
    BY <1>1, <1>5, BoxMoves DEF IntoRawWithAllocator, AtRest, BoxKinds
  <2> QED BY <1>5, <2>1, PutBecomes DEF IntoRawWithAllocator, Converted, AtRest
<1>6. CASE IntoRaw(s)
  <2>1. LET u == [AsRaw(slots[s]) EXCEPT !.alloc = None]
        IN  u.kind \in AtRest /\ u.ptr = slots[s].ptr /\ u.ty = slots[s].ty
    BY <1>1, <1>6 DEF IntoRaw, AsRaw, Slot, Empty, BoxKinds, AtRest
  <2> QED BY <1>6, <2>1, PutBecomes DEF IntoRaw, Converted, AtRest
<1>7. CASE FromRawIn(s)
  <2>1. LET u == AsBox(slots[s], slots[s].alloc)
        IN  u.kind \in AtRest /\ u.ptr = slots[s].ptr /\ u.ty = slots[s].ty
    BY <1>1, <1>7, SlotFields, RawMoves DEF FromRawIn, AtRest
  <2> QED BY <1>7, <2>1, PutBecomes DEF FromRawIn, Converted, AtRest
<1>8. CASE FromRaw(s)
  <2>1. LET u == AsBox(slots[s], Global)
        IN  u.kind \in AtRest /\ u.ptr = slots[s].ptr /\ u.ty = slots[s].ty
    BY <1>1, <1>8, RawMoves DEF FromRaw, AtRest
  <2> QED BY <1>8, <2>1, PutBecomes DEF FromRaw, Converted, AtRest
<1> QED BY <1>2, <1>3, <1>4, <1>5, <1>6, <1>7, <1>8

LEMMA DisposalShape ==
  ASSUME TypeOK, NEW s \in Slots, FinishDrop(s) \/ FinishDropPanics(s) \/ DynDealloc(s)
  PROVE  Disposed(s)
<1>1. Gone(s) /\ slots[s].kind \in {"dropping", "returned"} /\ UNCHANGED <<place, drops>>
  BY PutGone DEF FinishDrop, FinishDropPanics, DynDealloc
<1>2. CASE FinishDrop(s)
  BY <1>1, <1>2 DEF FinishDrop, Disposed, Deallocate, is_zero_sized
<1>3. CASE FinishDropPanics(s)
  BY <1>1, <1>3 DEF FinishDropPanics, Disposed
<1>4. CASE DynDealloc(s)
  BY <1>1, <1>4 DEF DynDealloc, Disposed, Deallocate
<1> QED BY <1>2, <1>3, <1>4

\* Every step has one of these shapes.
LEMMA StepShapes ==
  ASSUME TypeOK, Ownership, [Next]_vars
  PROVE  \/ Nothing
         \/ Running /\ \E v \in Values : Refused(v)
         \/ Running /\ \E s \in Slots : Shaped(s)
<1>1. CASE UNCHANGED vars
  BY <1>1 DEF vars, Nothing, Running
<1>2. ASSUME NEW v \in Values, NEW a \in Usable, TryNewInFails(v, a) \/ NewInFails(v, a)
      PROVE  Running /\ Refused(v)
  BY <1>2 DEF TryNewInFails, NewInFails, Refused
<1>3. ASSUME NEW s \in Slots, NEW v \in Values, NEW a \in Usable, NEW p \in Pointers,
             StdBoxNew(s, v, a, p) \/ \E t \in Traits : TryNewIn(s, v, t, a, p)
      PROVE  Running /\ Created(s, v, a, p)
  <2>1. CASE StdBoxNew(s, v, a, p)
    BY <2>1 DEF StdBoxNew, Owner, Put, TypeOK, OthersKept, AtRest, Created
  <2>2. ASSUME NEW t \in Traits, TryNewIn(s, v, t, a, p) PROVE Running /\ Created(s, v, a, p)
    BY <2>2 DEF TryNewIn, Owner, Put, TypeOK, OthersKept, AtRest, Created
  <2> QED BY <1>3, <2>1, <2>2
<1>4. ASSUME NEW s \in Slots,
             \/ \E t \in Traits : FromBox(s, t) \/ UpcastPtr(s, t) \/ UpcastBox(s, t)
             \/ IntoRawWithAllocator(s) \/ IntoRaw(s) \/ FromRawIn(s) \/ FromRaw(s)
      PROVE  Running /\ Converted(s)
  BY <1>4, ConversionShape, Zenon
     DEF FromBox, UpcastPtr, UpcastBox, IntoRawWithAllocator, IntoRaw, FromRawIn, FromRaw
<1>5. ASSUME NEW s \in Slots, BeginDrop(s) \/ DropPanics(s)
      PROVE  Running /\ Dropped(s)
  <2>1. Running /\ slots[s].kind = "box" /\ Destroyed(slots[s].ty) /\ heap' = Vacated(slots[s].ptr)
    BY <1>5, DropTarget DEF BeginDrop, DropPanics
  <2>2. Becomes(s, {"dropping"}) \/ ("drop" \in Unwinds /\ Gone(s))
    BY <1>5, <2>1, PhaseBecomes, PutGone DEF BeginDrop, DropPanics, BoxKinds
  <2> QED BY <2>1, <2>2 DEF Dropped
<1>6. ASSUME NEW s \in Slots, FinishDrop(s) \/ FinishDropPanics(s) \/ DynDealloc(s)
      PROVE  Running /\ Disposed(s)
  BY <1>6, DisposalShape DEF FinishDrop, FinishDropPanics, DynDealloc
<1>7. ASSUME NEW s \in Slots, CallByValue(s)
      PROVE  Running /\ MovedOut(s)
  BY <1>7, PhaseBecomes DEF CallByValue, MovedOut, BoxKinds
<1>8. ASSUME NEW s \in Slots, NEW kept \in BOOLEAN, CallReturns(s, kept) \/ CallPanics(s, kept)
      PROVE  Running /\ MethodEnds(s, kept)
  <2>1. Becomes(s, {"returned"}) \/ Becomes(s, {"panicked"})
    BY <1>8, PhaseBecomes DEF CallReturns, CallPanics, BoxKinds
  <2> QED BY <1>8, <2>1 DEF CallReturns, CallPanics, MethodEnds, Becomes
<1>9. ASSUME NEW s \in Slots, DynDeallocPanics(s)
      PROVE  Running /\ DeallocationUnwinds(s)
  BY <1>9, PhaseBecomes DEF DynDeallocPanics, DeallocationUnwinds, BoxKinds
<1>10. ASSUME NEW s \in Slots, UnwindDrop(s)
       PROVE  Running /\ DroppedAgain(s)
  <2>1. slots[s].kind = "panicked" /\ ~HoldsInstance(slots[s]) /\ Running
    BY <1>10 DEF UnwindDrop, HoldsInstance
  <2>2. Becomes(s, {"unwinding"})
    BY <1>10, <2>1, PhaseBecomes DEF UnwindDrop, BoxKinds
  <2> QED BY <1>10, <2>1, <2>2 DEF UnwindDrop, VirtualDrop, DroppedAgain, Running
<1>11. ASSUME NEW s \in Slots, PanicAborts(s) PROVE Nothing
  BY <1>11 DEF PanicAborts, Nothing
<1> QED
  BY <1>1, <1>2, <1>3, <1>4, <1>5, <1>6, <1>7, <1>8, <1>9, <1>10, <1>11 DEF Next, Shaped

-----------------------------------------------------------------------------
(* Values and blocks                                                       *)

\* An owner at rest survives every step of another slot and every conversion.
LEMMA NoValueLeaksStep ==
  ASSUME TypeOK, Ownership, NoValueLeaks, [Next]_vars
  PROVE  NoValueLeaks'
<1>1. CASE Nothing
  BY <1>1 DEF Nothing, NoValueLeaks
<1>2. ASSUME NEW v \in Values, Refused(v) PROVE NoValueLeaks'
  BY <1>2 DEF Refused, Destroyed, MoveValue, TypeOK, NoValueLeaks
<1>3. ASSUME NEW s \in Slots, NEW w \in Values, place'[w] = "boxed", Shaped(s)
      PROVE  \E r \in Slots : slots'[r].kind \in AtRest /\ slots'[r].ty = w
  <2>1. ASSUME place[w] = "boxed", OthersKept(s), ~(slots[s].kind \in AtRest /\ slots[s].ty = w)
        PROVE  \E r \in Slots : slots'[r].kind \in AtRest /\ slots'[r].ty = w
    BY <2>1 DEF NoValueLeaks, OthersKept
  <2>2. ASSUME NEW v \in Values, NEW a \in Usable, NEW p \in Pointers, Created(s, v, a, p)
        PROVE  \E r \in Slots : slots'[r].kind \in AtRest /\ slots'[r].ty = w
    <3>1. CASE w = v
      BY <2>2, <3>1 DEF Created
    <3>2. CASE w # v
      <4>1. place[w] = "boxed"
        BY <1>3, <2>2, <3>2 DEF Created, MoveValue, TypeOK
      <4> QED BY <2>1, <2>2, <4>1 DEF Created, Empty, AtRest
    <3> QED BY <3>1, <3>2
  <2>3. CASE Converted(s)
    <3>1. place[w] = "boxed" /\ OthersKept(s)
      BY <1>3, <2>3 DEF Converted, Becomes
    <3>2. slots'[s].kind \in AtRest /\ slots'[s].ty = slots[s].ty
      BY <2>3 DEF Converted, Becomes
    <3> QED BY <2>1, <3>1, <3>2
  <2>4. ASSUME slots[s].kind = "box",
               MoveValue(slots[s].ty, "callee") \/ Destroyed(slots[s].ty)
        PROVE  place[w] = "boxed" /\ slots[s].ty # w
    BY <1>3, <2>4, OwnerTyped, SlotFields DEF Destroyed, MoveValue, TypeOK, BoxKinds
  <2>5. CASE MovedOut(s)
    BY <2>1, <2>4, <2>5 DEF MovedOut, Becomes
  <2>6. CASE Dropped(s)
    BY <2>1, <2>4, <2>6 DEF Dropped, Becomes, Gone
  <2>7. ASSUME NEW kept \in BOOLEAN, MethodEnds(s, kept)
        PROVE  \E r \in Slots : slots'[r].kind \in AtRest /\ slots'[r].ty = w
    <3>1. slots[s].ty \in Values /\ slots[s].kind = "calling"
      BY <2>7, OwnerTyped, SlotFields DEF MethodEnds, BoxKinds
    <3>2. place[w] = "boxed"
      <4>1. CASE kept
        BY <1>3, <2>7, <3>1, <4>1 DEF MethodEnds, Released, MoveValue, TypeOK
      <4>2. CASE ~kept
        BY <1>3, <2>7, <3>1, <4>2 DEF MethodEnds, Released, Destroyed, MoveValue, TypeOK
      <4> QED BY <4>1, <4>2
    <3> QED BY <2>1, <2>7, <3>1, <3>2 DEF MethodEnds, Becomes, AtRest
  <2>8. CASE DeallocationUnwinds(s) \/ DroppedAgain(s) \/ Disposed(s)
    <3>1. place[w] = "boxed"
      BY <1>3, <2>8 DEF DeallocationUnwinds, DroppedAgain, Disposed
    <3>2. slots[s].kind \notin AtRest /\ OthersKept(s)
      BY <2>8 DEF DeallocationUnwinds, DroppedAgain, Disposed, Becomes, Gone, AtRest
    <3> QED BY <2>1, <3>1, <3>2
  <2> QED BY <1>3, <2>2, <2>3, <2>5, <2>6, <2>7, <2>8 DEF Shaped
<1> QED BY <1>1, <1>2, <1>3, StepShapes DEF NoValueLeaks

\* Every boxed value can be reached through an owner, whatever unwinds.
THEOREM ValuesDoNotLeak == Spec => []NoValueLeaks
<1>1. Init => NoValueLeaks
  BY DEF Init, NoValueLeaks
<1>2. TypeOK /\ Ownership /\ NoValueLeaks /\ [Next]_vars => NoValueLeaks'
  BY NoValueLeaksStep
<1> QED BY TypeCorrect, OwnershipHolds, <1>1, <1>2, PTL DEF Spec

\* A step of slot s leaves the blocks that the others refer to alone.
LEMMA OthersBlocks ==
  ASSUME NEW s \in Slots, NEW b \in Blocks, Shaped(s), heap'[b] # heap[b]
  PROVE  \/ slots[s].ptr = b /\ heap' \in {Vacated(b), Freed(b)}
         \/ \E v \in Values, a \in Usable : Created(s, v, a, b)
<1>1. ASSUME NEW v \in Values, NEW a \in Usable, NEW p \in Pointers, Created(s, v, a, p)
      PROVE  p = b
  BY <1>1 DEF Created, Initialised, WithBlock
<1>2. CASE MovedOut(s) \/ Dropped(s)
  BY <1>2 DEF MovedOut, Dropped, Vacated
<1>3. CASE Disposed(s)
  BY <1>3 DEF Disposed, Freed, WithBlock
<1> QED
  BY <1>1, <1>2, <1>3
     DEF Shaped, Converted, MethodEnds, DeallocationUnwinds, DroppedAgain

\* No block is as large as a value of size zero.
BlocksSized == \A b \in Blocks : heap[b] # Free => heap[b].size # 0

LEMMA BlocksSizedStep ==
  ASSUME TypeOK, Ownership, BlocksSized, [Next]_vars
  PROVE  BlocksSized'
<1>1. CASE UNCHANGED heap
  BY <1>1 DEF BlocksSized
<1>2. ASSUME NEW s \in Slots, Shaped(s), NEW b \in Blocks, heap'[b] # Free
      PROVE  heap'[b].size # 0
  <2>1. CASE heap'[b] = heap[b]
    BY <1>2, <2>1 DEF BlocksSized
  <2>2. CASE slots[s].ptr = b /\ heap' = Vacated(b)
    <3>1. heap'[b] = [heap[b] EXCEPT !.val = None] /\ heap[b] \in Block
      BY <2>2 DEF Vacated, TypeOK
    <3>2. heap[b] # Free
      BY <1>2, <3>1 DEF Free
    <3> QED BY <3>1, <3>2 DEF BlocksSized, Block
  <2>3. CASE heap' = Freed(b)
    BY <1>2, <2>3 DEF Freed, WithBlock
  <2>4. ASSUME NEW v \in Values, NEW a \in Usable, Created(s, v, a, b) PROVE heap'[b].size # 0
    <3>1. b # Dangling /\ b \in Allocated(Size[v])
      BY <2>4, NamesAssumption DEF Created
    <3>2. Size[v] # 0
      BY <3>1 DEF Allocated, is_zero_sized
    <3>3. heap'[b] = [alloc |-> a, size |-> Size[v], val |-> v]
      BY <2>4 DEF Created, Initialised, WithBlock
    <3> QED BY <3>2, <3>3
  <2> QED BY <1>2, <2>1, <2>2, <2>3, <2>4, OthersBlocks
<1> QED BY <1>1, <1>2, StepShapes DEF BlocksSized, Nothing, Refused

\* A DynBox with a block hands its deallocator what that deallocator wants.
LEMMA HeldBlockFits ==
  ASSUME TypeOK, Ownership, BlocksSized, NEW s \in Slots, slots[s].kind \in BoxKinds,
         slots[s].ptr \in Blocks
  PROVE  Fits(slots[s].alloc, slots[s].ptr, Size[slots[s].ty]) /\ Size[slots[s].ty] # 0
<1>1. slots[s].alloc # None /\ slots[s].kind # "empty"
  BY NamesAssumption, OwnerTyped, SlotFields DEF BoxKinds
<1>2. BlockHeld(slots[s]) /\ slots[s].ptr # Dangling
  BY <1>1, NamesAssumption DEF Ownership, Sound
<1>3. heap[slots[s].ptr] # Free
  BY HeldBlocks
<1> QED BY <1>1, <1>2, <1>3 DEF BlockHeld, Fits, BlocksSized

\* Neither a destructor nor a deallocator unwinds out of the drop of a DynBox.
DropsDoNotUnwind == Unwinds \subseteq {"method"}

LEMMA NoBlockLeaksStep ==
  ASSUME DropsDoNotUnwind, TypeOK, Ownership, BlocksSized, NoBlockLeaks, [Next]_vars
  PROVE  NoBlockLeaks'
<1>1. CASE UNCHANGED <<slots, heap>>
  BY <1>1 DEF NoBlockLeaks
<1>2. ASSUME NEW s \in Slots, Shaped(s), NEW b \in Blocks, heap'[b] # Free
      PROVE  \E r \in Slots : slots'[r].ptr = b
  <2>1. CASE \E v \in Values, a \in Usable, p \in Pointers : Created(s, v, a, p)
    <3>1. PICK v \in Values, a \in Usable, p \in Pointers : Created(s, v, a, p)
      BY <2>1
    <3>2. CASE p = b
      BY <3>1, <3>2 DEF Created
    <3>3. CASE p # b
      <4>1. heap[b] # Free
        BY <1>2, <3>1, <3>3 DEF Created, Initialised, WithBlock
      <4>2. PICK r \in Slots : slots[r].ptr = b
        BY <4>1 DEF NoBlockLeaks
      <4>3. r # s
        BY <3>1, <4>2, NamesAssumption DEF Created, Empty
      <4> QED BY <3>1, <4>2, <4>3 DEF Created, OthersKept
    <3> QED BY <3>2, <3>3
  <2>2. CASE ~\E v \in Values, a \in Usable, p \in Pointers : Created(s, v, a, p)
    <3>1. heap[b] # Free /\ (slots[s].ptr = b => heap' # Freed(b))
      <4>1. heap' # Freed(b)
        BY <1>2 DEF Freed, WithBlock
      <4>2. heap' = Vacated(b) => heap[b] # Free
        BY <1>2 DEF Vacated, Free
      <4>3. heap'[b] # heap[b] => heap' \in {Vacated(b), Freed(b)}
        BY <1>2, <2>2, OthersBlocks DEF Pointers
      <4> QED BY <1>2, <4>1, <4>2, <4>3
    <3>2. PICK r \in Slots : slots[r].ptr = b
      BY <3>1 DEF NoBlockLeaks
    <3>3. CASE r # s
      BY <1>2, <2>2, <3>2, <3>3
         DEF Shaped, Converted, MovedOut, Dropped, MethodEnds, DeallocationUnwinds,
             DroppedAgain, Disposed, Becomes, Gone, OthersKept
    <3>4. CASE r = s
      <4>1. ~Disposed(s)
        BY <3>1, <3>2, <3>4, HeldBlockFits DEF Disposed, DropsDoNotUnwind, BoxKinds
      <4> QED
        BY <1>2, <2>2, <3>2, <3>4, <4>1
           DEF Shaped, Converted, MovedOut, Dropped, MethodEnds, DeallocationUnwinds,
               DroppedAgain, Becomes, DropsDoNotUnwind
    <3> QED BY <3>3, <3>4
  <2> QED BY <2>1, <2>2
<1> QED BY <1>1, <1>2, StepShapes DEF NoBlockLeaks, Nothing, Refused

\* As long as neither destructors nor deallocators unwind, no block is left behind,
\* whatever by-value methods do and however many owners there are.
THEOREM BlocksDoNotLeak ==
  ASSUME DropsDoNotUnwind
  PROVE  Spec => []NoBlockLeaks
<1>1. Init => BlocksSized /\ NoBlockLeaks
  BY DEF Init, BlocksSized, NoBlockLeaks
<1>2. TypeOK /\ Ownership /\ BlocksSized /\ NoBlockLeaks /\ [Next]_vars
        => (BlocksSized /\ NoBlockLeaks)'
  BY BlocksSizedStep, NoBlockLeaksStep
<1> QED BY TypeCorrect, OwnershipHolds, <1>1, <1>2, PTL DEF Spec

-----------------------------------------------------------------------------
(* Destructors, when calls may unwind                                      *)

\* A value that is not dead dies, and its destructor ran once.
LEMMA ShapesDropOnce ==
  ASSUME TypeOK, Ownership, DroppedExactlyOnce, NEW s \in Slots, Shaped(s), ~DroppedAgain(s)
  PROVE  DroppedExactlyOnce'
<1>1. ASSUME NEW v \in Values, NEW a \in Usable, NEW p \in Pointers, Created(s, v, a, p)
      PROVE  DroppedExactlyOnce'
  BY <1>1, MovedOnce DEF Created, Places
<1>2. slots[s].kind \in {"box", "calling"} =>
        slots[s].ty \in Values /\ place[slots[s].ty] \in {"boxed", "callee"}
  BY OwnerTyped, SlotFields DEF Ownership, Sound, InstanceHeld, AtRest, BoxKinds
<1>3. CASE MovedOut(s)
  BY <1>2, <1>3, MovedOnce DEF MovedOut, Places
<1>4. CASE Dropped(s)
  BY <1>2, <1>4, DestroyedOnce DEF Dropped
<1>5. ASSUME NEW kept \in BOOLEAN, MethodEnds(s, kept) PROVE DroppedExactlyOnce'
  <2>1. slots[s].ty \in Values /\ place[slots[s].ty] # "dead" /\ Released(slots[s].ty, kept)
    BY <1>2, <1>5 DEF MethodEnds
  <2>2. CASE kept
    BY <2>1, <2>2, MovedOnce DEF Released, Places
  <2>3. CASE ~kept
    BY <2>1, <2>3, DestroyedOnce DEF Released
  <2> QED BY <2>2, <2>3
<1>6. CASE Converted(s) \/ DeallocationUnwinds(s) \/ Disposed(s)
  BY <1>6 DEF Converted, DeallocationUnwinds, Disposed, DroppedExactlyOnce
<1> QED BY <1>1, <1>3, <1>4, <1>5, <1>6 DEF Shaped

\* While the program runs, nothing was dropped twice: the step that does it, after a
\* by-value call has unwound, is the last one of a defined execution.
TwiceInv == TwiceDroppedOnlyByUnwinding /\ (Running => DroppedExactlyOnce)

LEMMA TwiceStep ==
  ASSUME TypeOK, Ownership, TwiceInv, [Next]_vars
  PROVE  TwiceInv'
<1>1. CASE Nothing
  BY <1>1 DEF Nothing, TwiceInv, TwiceDroppedOnlyByUnwinding, DroppedExactlyOnce
<1>2. ASSUME DroppedExactlyOnce' PROVE TwiceInv'
  BY <1>2 DEF TwiceInv, TwiceDroppedOnlyByUnwinding, DroppedExactlyOnce
<1>3. ASSUME Running, NEW v \in Values, Refused(v) PROVE TwiceInv'
  BY <1>2, <1>3, DestroyedOnce DEF Refused, TwiceInv
<1>4. ASSUME Running, NEW s \in Slots, Shaped(s), ~DroppedAgain(s) PROVE TwiceInv'
  BY <1>2, <1>4, ShapesDropOnce DEF TwiceInv
<1>5. ASSUME Running, NEW s \in Slots, DroppedAgain(s) PROVE TwiceInv'
  <2>1. DroppedExactlyOnce
    BY <1>5 DEF TwiceInv
  <2>2. slots'[s].kind = "unwinding" /\ slots'[s].ty = slots[s].ty /\ ~Running'
    BY <1>5 DEF DroppedAgain, Becomes
  <2>3. \A v \in Values : v # slots[s].ty => drops'[v] = drops[v]
    BY <1>5 DEF DroppedAgain, TypeOK
  <2> QED
    BY <2>1, <2>2, <2>3 DEF TwiceInv, TwiceDroppedOnlyByUnwinding, DroppedExactlyOnce
<1> QED BY <1>1, <1>3, <1>4, <1>5, StepShapes

\* Whatever unwinds, a destructor runs twice only on a value that a by-value method
\* took before it unwound.
THEOREM TwiceOnlyByUnwinding == Spec => []TwiceDroppedOnlyByUnwinding
<1>1. Init => TwiceInv
  BY DEF Init, TwiceInv, TwiceDroppedOnlyByUnwinding, DroppedExactlyOnce
<1>2. TypeOK /\ Ownership /\ TwiceInv /\ [Next]_vars => TwiceInv'
  BY TwiceStep
<1>3. TwiceInv => TwiceDroppedOnlyByUnwinding
  BY DEF TwiceInv
<1> QED BY TypeCorrect, OwnershipHolds, <1>1, <1>2, <1>3, PTL DEF Spec
=============================================================================
