---------------------------- MODULE DynBoxProofs ----------------------------
(***************************************************************************)
(* Theorems about DynBox, for any values, sizes, traits, allocators and    *)
(* number of owners and blocks.                                            *)
(***************************************************************************)
EXTENDS DynBox, TLAPS

-----------------------------------------------------------------------------
(* What the operators on owners and on the heap return.                    *)

\* The fields of an owner, by its kind.
LEMMA SlotFields ==
  ASSUME NEW b \in Slot
  PROVE  /\ b.kind \in {"empty", "stdbox", "raw"} \cup BoxKinds
         /\ b.kind = "empty" <=> b = Empty
         /\ b.kind # "empty" => b.ptr \in Pointers /\ b.ty \in Values
         /\ b.kind = "stdbox" => b.alloc \in Allocators \cup {Global}
         /\ b.kind = "raw" => b.trait \in Traits /\ b.alloc \in Allocators \cup {Global, None}
         /\ b.kind \in BoxKinds => b.trait \in Traits /\ b.alloc \in Allocators \cup {Global}
  BY DEF Slot, BoxKinds, Empty

\* A raw pointer stays an owner when it is upcast or boxed with an allocator.
LEMMA RawMoves ==
  ASSUME NEW b \in Slot, b.kind = "raw"
  PROVE  /\ \A t \in Traits : /\ DynPtrUpcast(b, t) \in Slot
                              /\ DynPtrUpcast(b, t).kind = "raw"
                              /\ DynPtrUpcast(b, t).trait = t
                              /\ DynPtrUpcast(b, t).ptr = b.ptr
                              /\ DynPtrUpcast(b, t).ty = b.ty
                              /\ DynPtrUpcast(b, t).alloc = b.alloc
         /\ \A a \in Allocators \cup {Global} : /\ AsBox(b, a) \in Slot
                                                /\ AsBox(b, a).kind = "box"
                                                /\ AsBox(b, a).trait = b.trait
                                                /\ AsBox(b, a).ptr = b.ptr
                                                /\ AsBox(b, a).ty = b.ty
                                                /\ AsBox(b, a).alloc = a
<1> DEFINE RawSlots == [kind : {"raw"}, ptr : Pointers, ty : Values,
                        trait : Traits, alloc : Allocators \cup {Global, None}]
<1>1. b \in RawSlots
  BY DEF Slot, BoxKinds, Empty
<1>2. ASSUME NEW t \in Traits PROVE DynPtrUpcast(b, t) \in RawSlots
  BY <1>1 DEF DynPtrUpcast
<1>3. ASSUME NEW a \in Allocators \cup {Global} PROVE AsBox(b, a) \in Slot
  BY <1>1 DEF AsBox, Slot, BoxKinds
<1> QED BY <1>1, <1>2, <1>3 DEF Slot, DynPtrUpcast, AsBox

\* A DynBox stays an owner when its phase changes and when its parts are taken.
LEMMA BoxMoves ==
  ASSUME NEW b \in Slot, b.kind \in BoxKinds
  PROVE  /\ \A k \in BoxKinds : [b EXCEPT !.kind = k] \in Slot
         /\ AsRaw(b) \in Slot /\ AsRaw(b).kind = "raw" /\ AsRaw(b).trait = b.trait
         /\ AsRaw(b).ptr = b.ptr /\ AsRaw(b).ty = b.ty /\ AsRaw(b).alloc = b.alloc
         /\ [AsRaw(b) EXCEPT !.alloc = None] \in Slot
         /\ b.alloc \in Allocators \cup {Global}
<1> DEFINE BoxSlots == [kind : BoxKinds, ptr : Pointers, ty : Values,
                        trait : Traits, alloc : Allocators \cup {Global}]
<1>1. b \in BoxSlots
  BY DEF Slot, BoxKinds, Empty
<1>2. \A k \in BoxKinds : [b EXCEPT !.kind = k] \in BoxSlots
  BY <1>1
<1>3. AsRaw(b) \in Slot
  BY <1>1 DEF Slot, AsRaw
<1>4. [AsRaw(b) EXCEPT !.alloc = None] \in Slot
  BY <1>1 DEF Slot, AsRaw
<1> QED BY <1>1, <1>2, <1>3, <1>4 DEF Slot, AsRaw

\* DynBox::upcast changes the trait of the vtable and nothing else.
LEMMA UpcastMoves ==
  ASSUME NEW b \in Slot, b.kind \in BoxKinds, NEW t \in Traits
  PROVE  LET u == AsBox(DynPtrUpcast(AsRaw(b), t), b.alloc)
         IN  /\ u \in Slot /\ u.kind = "box" /\ u.trait = t
             /\ u.ptr = b.ptr /\ u.ty = b.ty /\ u.alloc = b.alloc
<1> DEFINE raw == AsRaw(b)
           super == DynPtrUpcast(raw, t)
<1>1. /\ raw \in Slot /\ raw.kind = "raw" /\ raw.ptr = b.ptr /\ raw.ty = b.ty
      /\ b.alloc \in Allocators \cup {Global}
  BY BoxMoves
<1> HIDE DEF raw
<1>2. /\ super \in Slot /\ super.kind = "raw" /\ super.trait = t
      /\ super.ptr = b.ptr /\ super.ty = b.ty
  BY <1>1, RawMoves
<1> HIDE DEF super
<1>3. LET u == AsBox(super, b.alloc)
      IN  /\ u \in Slot /\ u.kind = "box" /\ u.trait = t
          /\ u.ptr = b.ptr /\ u.ty = b.ty /\ u.alloc = b.alloc
  BY <1>1, <1>2, RawMoves
<1> QED BY <1>3 DEF super, raw

\* DynBox::from changes the kind of the owner and gives it a vtable.
LEMMA BoxConverted ==
  ASSUME NEW b \in Slot, b.kind = "stdbox", NEW t \in Traits
  PROVE  [b EXCEPT !.kind = "box", !.trait = t] \in Slot
<1>1. b \in [kind : {"stdbox"}, ptr : Pointers, ty : Values,
             trait : {None}, alloc : Allocators \cup {Global}]
  BY DEF Slot, BoxKinds, Empty
<1>2. [b EXCEPT !.kind = "box", !.trait = t]
        \in [kind : BoxKinds, ptr : Pointers, ty : Values,
            trait : Traits, alloc : Allocators \cup {Global}]
  BY <1>1 DEF BoxKinds
<1> QED BY <1>2 DEF Slot

\* A new owner is an owner.
LEMMA NewOwners ==
  ASSUME NEW p \in Pointers, NEW v \in Values, NEW a \in Allocators \cup {Global}
  PROVE  /\ Owner("stdbox", p, v, None, a) \in Slot
         /\ \A t \in Traits : Owner("box", p, v, t, a) \in Slot
  BY DEF Slot, BoxKinds, Owner

\* The heap stays a heap.
LEMMA HeapOperators ==
  ASSUME heap \in [Blocks -> Block], NEW p
  PROVE  /\ Vacated(p) \in [Blocks -> Block]
         /\ Freed(p) \in [Blocks -> Block]
         /\ \A a \in Allocators \cup {Global}, v \in Values : Initialised(p, a, v) \in [Blocks -> Block]
  BY SizeAssumption DEF Vacated, Freed, Initialised, WithBlock, Free, Block

-----------------------------------------------------------------------------
(* Types                                                                   *)

LEMMA MoveAllocType ==
  ASSUME TypeOK, NEW a, NEW where \in {"client", "held", "dropped", "leaked"},
         MoveAlloc(a, where)
  PROVE  allocs' \in [Allocators -> {"client", "held", "dropped", "leaked"}]
  BY DEF TypeOK, MoveAlloc

LEMMA DestroyedType ==
  ASSUME TypeOK, NEW v \in Values, Destroyed(v)
  PROVE  place' \in [Values -> Places] /\ drops' \in [Values -> Nat]
  BY DEF TypeOK, Destroyed, MoveValue, Places

LEMMA ReleasedType ==
  ASSUME TypeOK, NEW v \in Values, NEW kept \in BOOLEAN, Released(v, kept)
  PROVE  place' \in [Values -> Places] /\ drops' \in [Values -> Nat]
  BY DestroyedType DEF TypeOK, Released, MoveValue, Places

LEMMA VirtualDropType ==
  ASSUME TypeOK, NEW b, b.ty \in Values, VirtualDrop(b)
  PROVE  /\ heap' \in [Blocks -> Block]
         /\ place' \in [Values -> Places] /\ drops' \in [Values -> Nat]
         /\ status' \in {"running", "aborted", "undefined"}
<1>1. CASE HoldsInstance(b)
  BY <1>1, HeapOperators, DestroyedType DEF TypeOK, VirtualDrop
<1>2. CASE ~HoldsInstance(b)
  BY <1>2 DEF TypeOK, VirtualDrop
<1> QED BY <1>1, <1>2

LEMMA DeallocateType ==
  ASSUME TypeOK, NEW a, NEW p, NEW size, Deallocate(a, p, size)
  PROVE  heap' \in [Blocks -> Block] /\ status' \in {"running", "aborted", "undefined"}
  BY HeapOperators DEF TypeOK, Deallocate

LEMMA PutType ==
  ASSUME TypeOK, NEW s \in Slots, NEW b \in Slot, Put(s, b)
  PROVE  slots' \in [Slots -> Slot]
  BY DEF TypeOK, Put

LEMMA UsableType == Usable \subseteq Allocators \cup {Global}
  BY DEF Usable

LEMMA AllocatedType == ASSUME NEW size PROVE Allocated(size) \subseteq Pointers
  BY DEF Allocated, Pointers

LEMMA TypeInit == Init => TypeOK
  BY DEF Init, TypeOK, Slot, Block, Free, Places

LEMMA TypeStep == TypeOK /\ [Next]_vars => TypeOK'
<1> SUFFICES ASSUME TypeOK, [Next]_vars PROVE TypeOK'
  OBVIOUS
<1> USE DEF TypeOK
<1>1. CASE UNCHANGED vars
  BY <1>1 DEF vars
<1>2. ASSUME NEW v \in Values, NEW a \in Usable, TryNewInFails(v, a)
      PROVE  TypeOK'
  BY <1>2, DestroyedType, MoveAllocType DEF TryNewInFails
<1>3. ASSUME NEW v \in Values, NEW a \in Usable, NewInFails(v, a)
      PROVE  TypeOK'
  BY <1>3, DestroyedType, MoveAllocType DEF NewInFails
<1>4. ASSUME NEW s \in Slots, NEW v \in Values, NEW a \in Usable, NEW p \in Pointers,
             StdBoxNew(s, v, a, p)
      PROVE  TypeOK'
  BY <1>4, UsableType, NewOwners, PutType, HeapOperators, MoveAllocType
     DEF StdBoxNew, MoveValue, Places
<1>5. ASSUME NEW s \in Slots, NEW v \in Values, NEW a \in Usable, NEW p \in Pointers,
             NEW t \in Traits, TryNewIn(s, v, t, a, p)
      PROVE  TypeOK'
  BY <1>5, UsableType, NewOwners, PutType, HeapOperators, MoveAllocType
     DEF TryNewIn, MoveValue, Places
<1>6. ASSUME NEW s \in Slots, NEW t \in Traits, FromBox(s, t)
      PROVE  TypeOK'
  BY <1>6, BoxConverted, PutType DEF FromBox
<1>7. ASSUME NEW s \in Slots, NEW t \in Traits, UpcastPtr(s, t)
      PROVE  TypeOK'
  BY <1>7, RawMoves, PutType DEF UpcastPtr
<1>8. ASSUME NEW s \in Slots, NEW t \in Traits, UpcastBox(s, t)
      PROVE  TypeOK'
  BY <1>8, UpcastMoves, PutType DEF UpcastBox, BoxKinds
<1>9. ASSUME NEW s \in Slots, IntoRawWithAllocator(s)
      PROVE  TypeOK'
  BY <1>9, BoxMoves, PutType DEF IntoRawWithAllocator, BoxKinds
<1>10. ASSUME NEW s \in Slots, IntoRaw(s)
       PROVE  TypeOK'
  BY <1>10, BoxMoves, PutType, MoveAllocType DEF IntoRaw, BoxKinds
<1>11. ASSUME NEW s \in Slots, FromRawIn(s)
       PROVE  TypeOK'
  BY <1>11, SlotFields, RawMoves, PutType DEF FromRawIn
<1>12. ASSUME NEW s \in Slots, FromRaw(s)
       PROVE  TypeOK'
  BY <1>12, RawMoves, PutType DEF FromRaw
<1>13. ASSUME NEW s \in Slots, BeginDrop(s)
       PROVE  TypeOK'
  BY <1>13, SlotFields, BoxMoves, VirtualDropType, PutType DEF BeginDrop, BoxKinds
<1>14. ASSUME NEW s \in Slots, DropPanics(s)
       PROVE  TypeOK'
  BY <1>14, SlotFields, VirtualDropType, MoveAllocType, PutType DEF DropPanics, Slot
<1>15. ASSUME NEW s \in Slots, FinishDrop(s)
       PROVE  TypeOK'
  BY <1>15, DeallocateType, MoveAllocType, PutType DEF FinishDrop, Slot
<1>16. ASSUME NEW s \in Slots, FinishDropPanics(s)
       PROVE  TypeOK'
  BY <1>16, MoveAllocType, PutType DEF FinishDropPanics, Slot
<1>17. ASSUME NEW s \in Slots, CallByValue(s)
       PROVE  TypeOK'
  BY <1>17, SlotFields, BoxMoves, HeapOperators, PutType
     DEF CallByValue, MoveValue, Places, BoxKinds
<1>18. ASSUME NEW s \in Slots, NEW kept \in BOOLEAN, CallReturns(s, kept)
       PROVE  TypeOK'
  BY <1>18, SlotFields, BoxMoves, ReleasedType, PutType DEF CallReturns, BoxKinds
<1>19. ASSUME NEW s \in Slots, NEW kept \in BOOLEAN, CallPanics(s, kept)
       PROVE  TypeOK'
  BY <1>19, SlotFields, BoxMoves, ReleasedType, PutType DEF CallPanics, BoxKinds
<1>20. ASSUME NEW s \in Slots, DynDealloc(s)
       PROVE  TypeOK'
  BY <1>20, DeallocateType, MoveAllocType, PutType DEF DynDealloc, Slot
<1>21. ASSUME NEW s \in Slots, DynDeallocPanics(s)
       PROVE  TypeOK'
  BY <1>21, BoxMoves, PutType DEF DynDeallocPanics, BoxKinds
<1>22. ASSUME NEW s \in Slots, UnwindDrop(s)
       PROVE  TypeOK'
  BY <1>22, SlotFields, BoxMoves, VirtualDropType, PutType DEF UnwindDrop, BoxKinds
<1>23. ASSUME NEW s \in Slots, PanicAborts(s)
       PROVE  TypeOK'
  BY <1>23 DEF PanicAborts
<1> QED
  BY <1>1, <1>2, <1>3, <1>4, <1>5, <1>6, <1>7, <1>8, <1>9, <1>10, <1>11, <1>12, <1>13,
     <1>14, <1>15, <1>16, <1>17, <1>18, <1>19, <1>20, <1>21, <1>22, <1>23
  DEF Next

\* Every variable has its type in every reachable state, whatever may unwind and
\* with whatever allocators.
THEOREM TypeCorrect == Spec => []TypeOK
<1>1. TypeOK /\ [Next]_vars => TypeOK'
  BY TypeStep
<1> QED BY TypeInit, <1>1, PTL DEF Spec

-----------------------------------------------------------------------------
(* Ownership                                                               *)

\* What the type invariant says of one owner.
LEMMA OwnerTyped ==
  ASSUME TypeOK, NEW s \in Slots
  PROVE  slots[s] \in Slot
  BY DEF TypeOK

\* A step of slot s preserves Ownership when the owner it leaves there is sound and
\* apart from the others, and the others stay sound.
LEMMA OwnerStep ==
  ASSUME TypeOK, Ownership, NEW s \in Slots, NEW u, Put(s, u),
         Sound(u)',
         \A r \in Slots \ {s} : Sound(slots[r])',
         \A r \in Slots \ {s} : Apart(u, slots[r]) /\ Apart(slots[r], u)
  PROVE  Ownership'
<1>1. /\ slots'[s] = u
      /\ \A r \in Slots \ {s} : slots'[r] = slots[r]
  BY DEF Put, TypeOK
<1>2. ASSUME NEW r \in Slots PROVE Sound(slots[r])'
  <2>1. CASE r = s
    BY <1>1, <2>1 DEF Sound, BlockHeld, InstanceHeld
  <2>2. CASE r # s
    BY <2>2
  <2> QED BY <2>1, <2>2
<1>3. ASSUME NEW q \in Slots, NEW r \in Slots, q # r PROVE Apart(slots[q], slots[r])'
  BY <1>1, <1>3 DEF Apart, Ownership
<1> QED BY <1>2, <1>3 DEF Ownership

\* The owner of s changes its form but neither its pointer nor its value, and
\* nothing else changes.
LEMMA Conversion ==
  ASSUME TypeOK, Ownership, NEW s \in Slots, NEW u, Put(s, u), UNCHANGED <<heap, place>>,
         slots[s].kind \in AtRest, u.kind \in AtRest,
         u.ptr = slots[s].ptr, u.ty = slots[s].ty, Sound(u)
  PROVE  Ownership'
<1>1. Sound(u)'
  BY DEF Sound, BlockHeld, InstanceHeld
<1>2. ASSUME NEW r \in Slots \ {s} PROVE Sound(slots[r])'
  <2>1. slots'[r] = slots[r]
    BY DEF Put, TypeOK
  <2> QED BY <2>1 DEF Ownership, Sound, BlockHeld, InstanceHeld
<1>3. ASSUME NEW r \in Slots \ {s} PROVE Apart(u, slots[r]) /\ Apart(slots[r], u)
  BY DEF Ownership, Apart, Holding
<1> QED BY <1>1, <1>2, <1>3, OwnerStep

\* An empty slot refers to no block and a filled one to a block that is not free.
LEMMA HeldBlocks ==
  ASSUME TypeOK, Ownership, NEW s \in Slots, slots[s].ptr \in Blocks
  PROVE  /\ slots[s].kind # "empty"
         /\ heap[slots[s].ptr] # Free
<1>1. slots[s].kind # "empty"
  BY NamesAssumption, OwnerTyped, SlotFields DEF Empty
<1>2. BlockHeld(slots[s])
  BY <1>1 DEF Ownership, Sound
<1> QED BY <1>1, <1>2, NamesAssumption DEF BlockHeld, Free

\* A value is moved into memory that was free, behind a new owner.
LEMMA Creation ==
  ASSUME TypeOK, Ownership, NEW s \in Slots, slots[s] = Empty,
         NEW v \in Values, place[v] = "client", NEW a \in Usable,
         NEW p \in Allocated(Size[v]), heap' = Initialised(p, a, v),
         MoveValue(v, "boxed"), NEW u, Put(s, u),
         u.ptr = p, u.ty = v, u.alloc = a, u.kind \in {"stdbox", "box"},
         u.kind = "box" => u.trait \in Boxable \cap Implements[v]
  PROVE  Ownership'
<1>1. a # None
  BY NamesAssumption DEF Usable
<1>2. (p = Dangling /\ Size[v] = 0) \/ (p \in Blocks /\ heap[p] = Free)
  <2>1. CASE Size[v] = 0
    BY <2>1 DEF Allocated, is_zero_sized
  <2>2. CASE Size[v] # 0
    BY <2>2 DEF Allocated, is_zero_sized
  <2> QED BY <2>1, <2>2
<1>3. p \in Blocks => heap'[p] = [alloc |-> a, size |-> Size[v], val |-> v]
  BY DEF Initialised, WithBlock
<1>4. \A b \in Blocks : b # p => heap'[b] = heap[b]
  BY DEF Initialised, WithBlock
<1>5. place'[v] = "boxed" /\ \A w \in Values : w # v => place'[w] = place[w]
  BY DEF MoveValue, TypeOK
<1>6. Sound(u)'
  BY <1>1, <1>2, <1>3, <1>5, NamesAssumption DEF Sound, BlockHeld, InstanceHeld, AtRest
<1>7. ASSUME NEW r \in Slots \ {s}
      PROVE  /\ Sound(slots[r])'
             /\ Apart(u, slots[r]) /\ Apart(slots[r], u)
  <2>1. slots'[r] = slots[r]
    BY DEF Put, TypeOK
  <2>2. slots[r].ptr \in Blocks => slots[r].ptr # p
    BY <1>2, HeldBlocks, NamesAssumption
  <2>3. slots[r].kind \in Holding => slots[r].ty # v
    BY DEF Ownership, Sound, InstanceHeld, Holding
  <2>4. slots[r].kind \in Holding => slots[r].ty \in Values
    BY OwnerTyped, SlotFields DEF Holding, AtRest
  <2>5. Sound(slots[r])'
    <3>1. Sound(slots[r])
      BY DEF Ownership
    <3>2. slots[r].kind # "empty" => BlockHeld(slots[r])'
      BY <1>4, <2>1, <2>2, <3>1 DEF Sound, BlockHeld
    <3>3. slots[r].kind \in AtRest => InstanceHeld(slots[r])'
      BY <1>4, <1>5, <2>1, <2>2, <2>3, <2>4, <3>1 DEF Sound, InstanceHeld, Holding
    <3>4. slots[r].kind = "calling" => place'[slots[r].ty] = "callee"
      BY <1>5, <2>3, <2>4, <3>1 DEF Sound, Holding
    <3> QED BY <2>1, <3>2, <3>3, <3>4 DEF Sound
  <2>6. Apart(u, slots[r]) /\ Apart(slots[r], u)
    BY <2>2, <2>3 DEF Apart
  <2> QED BY <2>5, <2>6
<1> QED BY <1>6, <1>7, OwnerStep

\* The value behind the DynBox in s leaves its block: it was destroyed or a method
\* has it.  The DynBox enters another phase or is gone.
LEMMA Vacating ==
  ASSUME TypeOK, Ownership, NEW s \in Slots, slots[s].kind = "box",
         heap' = Vacated(slots[s].ptr), NEW where \in Places,
         MoveValue(slots[s].ty, where), NEW u, Put(s, u),
         \/ u = Empty
         \/ /\ u.kind = "dropping" \/ (u.kind = "calling" /\ where = "callee")
            /\ u.ptr = slots[s].ptr /\ u.ty = slots[s].ty /\ u.alloc = slots[s].alloc
  PROVE  Ownership'
<1> DEFINE v == slots[s].ty
<1>1. v \in Values
  BY OwnerTyped, SlotFields DEF BoxKinds
<1>2. place'[v] = where /\ \A w \in Values : w # v => place'[w] = place[w]
  BY <1>1 DEF MoveValue, TypeOK
<1>3. \A b \in Blocks : /\ heap'[b].alloc = heap[b].alloc /\ heap'[b].size = heap[b].size
                        /\ b # slots[s].ptr => heap'[b] = heap[b]
  BY DEF Vacated, TypeOK, Block
<1>4. Sound(slots[s])
  BY DEF Ownership
<1>5. Sound(u)'
  <2>1. CASE u = Empty
    BY <2>1 DEF Sound, Empty, AtRest
  <2>2. CASE u # Empty
    <3>1. u.kind \notin AtRest /\ u.ptr = slots[s].ptr /\ u.ty = v /\ u.alloc = slots[s].alloc
      BY <2>2 DEF AtRest
    <3>2. BlockHeld(slots[s])
      BY <1>4 DEF Sound
    <3>3. BlockHeld(u)'
      BY <1>3, <3>1, <3>2 DEF BlockHeld
    <3> QED BY <1>2, <2>2, <3>1, <3>3 DEF Sound
  <2> QED BY <2>1, <2>2
<1>6. ASSUME NEW r \in Slots \ {s}
      PROVE  /\ Sound(slots[r])'
             /\ Apart(u, slots[r]) /\ Apart(slots[r], u)
  <2>1. slots'[r] = slots[r]
    BY DEF Put, TypeOK
  <2>2. slots[r].ptr \in Blocks => slots[r].ptr # slots[s].ptr
    BY DEF Ownership, Apart
  <2>3. slots[r].kind \in Holding => slots[r].ty # v /\ slots[r].ty \in Values
    BY OwnerTyped, SlotFields DEF Ownership, Apart, Holding, AtRest
  <2>4. Sound(slots[r])
    BY DEF Ownership
  <2>5. slots[r].kind # "empty" => BlockHeld(slots[r])'
    BY <1>3, <2>1, <2>4 DEF Sound, BlockHeld
  <2>6. slots[r].kind \in AtRest => InstanceHeld(slots[r])'
    BY <1>2, <1>3, <2>1, <2>2, <2>3, <2>4 DEF Sound, InstanceHeld, Holding
  <2>7. slots[r].kind = "calling" => place'[slots[r].ty] = "callee"
    BY <1>2, <2>3, <2>4 DEF Sound, Holding
  <2>8. Sound(slots[r])'
    BY <2>1, <2>5, <2>6, <2>7 DEF Sound
  <2>9. Apart(u, slots[r]) /\ Apart(slots[r], u)
    <3>1. CASE u = Empty
      BY <3>1, NamesAssumption, <2>2 DEF Apart, Empty, Holding, AtRest
    <3>2. CASE u # Empty
      BY <3>2, <2>2, <2>3 DEF Apart
    <3> QED BY <3>1, <3>2
  <2> QED BY <2>8, <2>9
<1> QED BY <1>5, <1>6, OwnerStep

\* A DynBox that is no longer at rest enters another phase; only its own value may
\* move, when a method had it.
LEMMA Phase ==
  ASSUME TypeOK, Ownership, NEW s \in Slots, slots[s].kind \in BoxKinds \ {"box"},
         UNCHANGED heap, NEW where,
         \/ UNCHANGED place
         \/ slots[s].kind = "calling" /\ MoveValue(slots[s].ty, where),
         NEW u, Put(s, u),
         u.kind \in {"returned", "panicked", "unwinding"},
         u.ptr = slots[s].ptr, u.ty = slots[s].ty, u.alloc = slots[s].alloc
  PROVE  Ownership'
<1>1. Sound(slots[s]) /\ slots[s].kind # "empty"
  BY DEF Ownership, BoxKinds
<1>2. Sound(u)'
  BY <1>1 DEF Sound, BlockHeld, AtRest
<1>3. ASSUME NEW r \in Slots \ {s}
      PROVE  /\ Sound(slots[r])'
             /\ Apart(u, slots[r]) /\ Apart(slots[r], u)
  <2>1. slots'[r] = slots[r]
    BY DEF Put, TypeOK
  <2>2. slots[r].kind \in Holding => place'[slots[r].ty] = place[slots[r].ty]
    <3>1. slots[r].kind \in Holding => slots[r].ty \in Values
      BY OwnerTyped, SlotFields DEF Holding, AtRest
    <3>2. slots[r].kind \in Holding /\ slots[s].kind = "calling" => slots[r].ty # slots[s].ty
      BY DEF Ownership, Apart, Holding
    <3> QED BY <3>1, <3>2 DEF MoveValue, TypeOK
  <2>3. Sound(slots[r])'
    BY <2>1, <2>2 DEF Ownership, Sound, BlockHeld, InstanceHeld, Holding
  <2>4. Apart(u, slots[r]) /\ Apart(slots[r], u)
    BY DEF Ownership, Apart, Holding, AtRest
  <2> QED BY <2>3, <2>4
<1> QED BY <1>2, <1>3, OwnerStep

\* A DynBox that is no longer at rest is gone, and its block with it or leaked.
LEMMA Disposal ==
  ASSUME TypeOK, Ownership, NEW s \in Slots, slots[s].kind \in {"dropping", "returned"},
         heap' = heap \/ heap' = Freed(slots[s].ptr), UNCHANGED place, Put(s, Empty)
  PROVE  Ownership'
<1>1. \A b \in Blocks : b # slots[s].ptr => heap'[b] = heap[b]
  BY DEF Freed, WithBlock
<1>2. PICK u : u = Empty
  OBVIOUS
<1>3. Sound(u)'
  BY <1>2 DEF Sound, Empty, AtRest
<1>4. ASSUME NEW r \in Slots \ {s}
      PROVE  /\ Sound(slots[r])'
             /\ Apart(u, slots[r]) /\ Apart(slots[r], u)
  <2>1. slots'[r] = slots[r]
    BY DEF Put, TypeOK
  <2>2. slots[r].ptr \in Blocks => slots[r].ptr # slots[s].ptr
    BY DEF Ownership, Apart
  <2>3. Sound(slots[r])
    BY DEF Ownership
  <2>4. Sound(slots[r])'
    BY <1>1, <2>1, <2>2, <2>3 DEF Sound, BlockHeld, InstanceHeld
  <2>5. Apart(u, slots[r]) /\ Apart(slots[r], u)
    BY <1>2, NamesAssumption DEF Apart, Empty, Holding, AtRest
  <2> QED BY <2>4, <2>5
<1> QED BY <1>2, <1>3, <1>4, OwnerStep

\* The DynBox in s holds an instance exactly when it is at rest, so its destructor
\* runs on a live value then, and on a moved one when it runs while unwinding.
LEMMA DropTarget ==
  ASSUME TypeOK, Ownership, NEW s \in Slots, VirtualDrop(slots[s])
  PROVE  /\ slots[s].kind = "box" =>
              /\ Destroyed(slots[s].ty) /\ heap' = Vacated(slots[s].ptr) /\ UNCHANGED status
         /\ slots[s].kind = "panicked" => UNCHANGED <<place, heap>> /\ status' = "undefined"
<1>1. Sound(slots[s])
  BY DEF Ownership
<1>2. slots[s].kind = "box" => HoldsInstance(slots[s])
  BY <1>1 DEF Sound, InstanceHeld, HoldsInstance, AtRest
<1>3. slots[s].kind = "panicked" => ~HoldsInstance(slots[s])
  BY DEF HoldsInstance
<1> QED BY <1>2, <1>3 DEF VirtualDrop

\* Deallocation frees the block of the pointer or leaves the heap alone.
LEMMA Deallocation ==
  ASSUME NEW a, NEW p, NEW size, Deallocate(a, p, size)
  PROVE  heap' = heap \/ heap' = Freed(p)
  BY DEF Deallocate

\* A step that moves a value the client holds leaves the owners alone.
LEMMA ClientStep ==
  ASSUME TypeOK, Ownership, UNCHANGED <<slots, heap>>,
         NEW v \in Values, place[v] = "client", NEW where, MoveValue(v, where)
  PROVE  Ownership'
<1>1. ASSUME NEW s \in Slots PROVE Sound(slots[s])'
  <2>1. Sound(slots[s])
    BY DEF Ownership
  <2>2. slots[s].kind \in Holding => slots[s].ty \in Values
    BY OwnerTyped, SlotFields DEF Holding, AtRest
  <2>3. slots[s].kind \in Holding => place'[slots[s].ty] = place[slots[s].ty]
    BY <2>1, <2>2 DEF Sound, InstanceHeld, Holding, MoveValue, TypeOK
  <2> QED BY <2>1, <2>3 DEF Sound, BlockHeld, InstanceHeld, Holding
<1>2. ASSUME NEW s \in Slots, NEW r \in Slots, s # r PROVE Apart(slots[s], slots[r])'
  BY <1>2 DEF Ownership, Apart
<1> QED BY <1>1, <1>2 DEF Ownership

LEMMA OwnershipInit == Init => Ownership
  BY NamesAssumption DEF Init, Ownership, Sound, Apart, Empty, AtRest, Holding

LEMMA OwnershipStep == TypeOK /\ Ownership /\ [Next]_vars => Ownership'
<1> SUFFICES ASSUME TypeOK, Ownership, [Next]_vars PROVE Ownership'
  OBVIOUS
<1>1. CASE UNCHANGED vars
  BY <1>1 DEF vars, Ownership, Sound, Apart, BlockHeld, InstanceHeld
<1>2. ASSUME NEW v \in Values, NEW a \in Usable, TryNewInFails(v, a)
      PROVE  Ownership'
  BY <1>2, ClientStep DEF TryNewInFails, Destroyed
<1>3. ASSUME NEW v \in Values, NEW a \in Usable, NewInFails(v, a)
      PROVE  Ownership'
  BY <1>3, ClientStep DEF NewInFails, Destroyed
<1>4. ASSUME NEW s \in Slots, NEW v \in Values, NEW a \in Usable, NEW p \in Pointers,
             StdBoxNew(s, v, a, p)
      PROVE  Ownership'
  <2>1. PICK u : u = Owner("stdbox", p, v, None, a)
    OBVIOUS
  <2> QED BY <1>4, <2>1, Creation DEF StdBoxNew, Owner
<1>5. ASSUME NEW s \in Slots, NEW v \in Values, NEW a \in Usable, NEW p \in Pointers,
             NEW t \in Traits, TryNewIn(s, v, t, a, p)
      PROVE  Ownership'
  <2>1. PICK u : u = Owner("box", p, v, t, a)
    OBVIOUS
  <2> QED BY <1>5, <2>1, Creation DEF TryNewIn, Owner
<1>6. ASSUME NEW s \in Slots, NEW t \in Traits, FromBox(s, t)
      PROVE  Ownership'
  <2>1. PICK u : u = [slots[s] EXCEPT !.kind = "box", !.trait = t]
    OBVIOUS
  <2>2. slots[s] \in Slot /\ slots[s].kind = "stdbox" /\ t \in Boxable \cap Implements[slots[s].ty]
    BY <1>6, OwnerTyped DEF FromBox
  <2>3. /\ u.kind = "box" /\ u.trait = t
        /\ u.ptr = slots[s].ptr /\ u.ty = slots[s].ty /\ u.alloc = slots[s].alloc
    BY <2>1, <2>2 DEF Slot, BoxKinds, Empty
  <2>4. Sound(slots[s])
    BY DEF Ownership
  <2>5. Sound(u)
    BY <2>2, <2>3, <2>4 DEF Sound, BlockHeld, InstanceHeld, AtRest
  <2> QED BY <1>6, <2>1, <2>3, <2>5, Conversion DEF FromBox, AtRest
<1>7. ASSUME NEW s \in Slots, NEW t \in Traits, UpcastPtr(s, t)
      PROVE  Ownership'
  <2>1. PICK u : u = DynPtrUpcast(slots[s], t)
    OBVIOUS
  <2>2. slots[s] \in Slot /\ slots[s].kind = "raw" /\ t \in Supers[slots[s].trait]
    BY <1>7, OwnerTyped DEF UpcastPtr
  <2>3. /\ u.kind = "raw" /\ u.trait = t
        /\ u.ptr = slots[s].ptr /\ u.ty = slots[s].ty /\ u.alloc = slots[s].alloc
    BY <2>1, <2>2, RawMoves
  <2>4. Sound(slots[s]) /\ slots[s].ty \in Values
    BY <2>2, SlotFields DEF Ownership
  <2>5. Sound(u)
    BY <2>2, <2>3, <2>4, TraitAssumption DEF Sound, BlockHeld, InstanceHeld, AtRest
  <2> QED BY <1>7, <2>1, <2>2, <2>3, <2>5, Conversion DEF UpcastPtr, AtRest
<1>8. ASSUME NEW s \in Slots, NEW t \in Traits, UpcastBox(s, t)
      PROVE  Ownership'
  <2>1. PICK u : u = AsBox(DynPtrUpcast(AsRaw(slots[s]), t), slots[s].alloc)
    OBVIOUS
  <2>2. /\ slots[s] \in Slot /\ slots[s].kind = "box"
        /\ t \in Boxable \cap Supers[slots[s].trait]
    BY <1>8, OwnerTyped DEF UpcastBox
  <2>3. /\ u.kind = "box" /\ u.trait = t
        /\ u.ptr = slots[s].ptr /\ u.ty = slots[s].ty /\ u.alloc = slots[s].alloc
    BY <2>1, <2>2, UpcastMoves DEF BoxKinds
  <2>4. Sound(slots[s]) /\ slots[s].ty \in Values
    BY <2>2, SlotFields DEF Ownership
  <2>5. Sound(u)
    BY <2>2, <2>3, <2>4, TraitAssumption DEF Sound, BlockHeld, InstanceHeld, AtRest
  <2> QED BY <1>8, <2>1, <2>2, <2>3, <2>5, Conversion DEF UpcastBox, AtRest
<1>9. ASSUME NEW s \in Slots, IntoRawWithAllocator(s)
      PROVE  Ownership'
  <2>1. PICK u : u = AsRaw(slots[s])
    OBVIOUS
  <2>2. slots[s] \in Slot /\ slots[s].kind = "box"
    BY <1>9, OwnerTyped DEF IntoRawWithAllocator
  <2>3. /\ u.kind = "raw" /\ u.trait = slots[s].trait
        /\ u.ptr = slots[s].ptr /\ u.ty = slots[s].ty /\ u.alloc = slots[s].alloc
    BY <2>1, <2>2, BoxMoves DEF BoxKinds
  <2>4. Sound(u)
    BY <2>2, <2>3 DEF Ownership, Sound, BlockHeld, InstanceHeld, AtRest
  <2> QED BY <1>9, <2>1, <2>2, <2>3, <2>4, Conversion DEF IntoRawWithAllocator, AtRest
<1>10. ASSUME NEW s \in Slots, IntoRaw(s)
       PROVE  Ownership'
  <2>1. PICK u : u = [AsRaw(slots[s]) EXCEPT !.alloc = None]
    OBVIOUS
  <2>2. slots[s] \in Slot /\ slots[s].kind = "box"
    BY <1>10, OwnerTyped DEF IntoRaw
  <2>3. /\ u.kind = "raw" /\ u.trait = slots[s].trait
        /\ u.ptr = slots[s].ptr /\ u.ty = slots[s].ty /\ u.alloc = None
    BY <2>1, <2>2 DEF AsRaw, Slot, BoxKinds, Empty
  <2>4. Sound(u)
    BY <2>2, <2>3 DEF Ownership, Sound, BlockHeld, InstanceHeld, AtRest
  <2> QED BY <1>10, <2>1, <2>2, <2>3, <2>4, Conversion DEF IntoRaw, AtRest
<1>11. ASSUME NEW s \in Slots, FromRawIn(s)
       PROVE  Ownership'
  <2>1. PICK u : u = AsBox(slots[s], slots[s].alloc)
    OBVIOUS
  <2>2. /\ slots[s] \in Slot /\ slots[s].kind = "raw"
        /\ slots[s].trait \in Boxable /\ slots[s].alloc # None
    BY <1>11, OwnerTyped DEF FromRawIn
  <2>3. slots[s].alloc \in Allocators \cup {Global}
    BY <2>2, SlotFields
  <2>4. /\ u.kind = "box" /\ u.trait = slots[s].trait
        /\ u.ptr = slots[s].ptr /\ u.ty = slots[s].ty /\ u.alloc = slots[s].alloc
    BY <2>1, <2>2, <2>3, RawMoves
  <2>5. Sound(u)
    BY <2>2, <2>4 DEF Ownership, Sound, BlockHeld, InstanceHeld, AtRest
  <2> QED BY <1>11, <2>1, <2>2, <2>4, <2>5, Conversion DEF FromRawIn, AtRest
<1>12. ASSUME NEW s \in Slots, FromRaw(s)
       PROVE  Ownership'
  <2>1. PICK u : u = AsBox(slots[s], Global)
    OBVIOUS
  <2>2. /\ slots[s] \in Slot /\ slots[s].kind = "raw" /\ slots[s].trait \in Boxable
        /\ slots[s].ptr \in Blocks => heap[slots[s].ptr].alloc = Global
    BY <1>12, OwnerTyped DEF FromRaw
  <2>3. /\ u.kind = "box" /\ u.trait = slots[s].trait
        /\ u.ptr = slots[s].ptr /\ u.ty = slots[s].ty /\ u.alloc = Global
    BY <2>1, <2>2, RawMoves
  <2>4. Sound(u)
    BY <2>2, <2>3 DEF Ownership, Sound, BlockHeld, InstanceHeld, AtRest
  <2> QED BY <1>12, <2>1, <2>2, <2>3, <2>4, Conversion DEF FromRaw, AtRest
<1>13. ASSUME NEW s \in Slots, BeginDrop(s)
       PROVE  Ownership'
  <2>1. PICK u : u = [slots[s] EXCEPT !.kind = "dropping"]
    OBVIOUS
  <2>2. /\ u.kind = "dropping"
        /\ u.ptr = slots[s].ptr /\ u.ty = slots[s].ty /\ u.alloc = slots[s].alloc
    BY <1>13, <2>1, OwnerTyped DEF BeginDrop, Slot, BoxKinds, Empty
  <2> QED BY <1>13, <2>1, <2>2, DropTarget, Vacating DEF BeginDrop, Destroyed, Places
<1>14. ASSUME NEW s \in Slots, DropPanics(s)
       PROVE  Ownership'
  <2>1. PICK u : u = Empty
    OBVIOUS
  <2> QED BY <1>14, <2>1, DropTarget, Vacating DEF DropPanics, Destroyed, Places
<1>15. ASSUME NEW s \in Slots, FinishDrop(s)
       PROVE  Ownership'
  BY <1>15, Deallocation, Disposal DEF FinishDrop
<1>16. ASSUME NEW s \in Slots, FinishDropPanics(s)
       PROVE  Ownership'
  BY <1>16, Disposal DEF FinishDropPanics
<1>17. ASSUME NEW s \in Slots, CallByValue(s)
       PROVE  Ownership'
  <2>1. PICK u : u = [slots[s] EXCEPT !.kind = "calling"]
    OBVIOUS
  <2>2. /\ u.kind = "calling"
        /\ u.ptr = slots[s].ptr /\ u.ty = slots[s].ty /\ u.alloc = slots[s].alloc
    BY <1>17, <2>1, OwnerTyped DEF CallByValue, Slot, BoxKinds, Empty
  <2> QED BY <1>17, <2>1, <2>2, Vacating DEF CallByValue, Places
<1>18. ASSUME NEW s \in Slots, NEW kept \in BOOLEAN, CallReturns(s, kept)
       PROVE  Ownership'
  <2>1. PICK u : u = [slots[s] EXCEPT !.kind = "returned"]
    OBVIOUS
  <2>2. /\ u.kind = "returned"
        /\ u.ptr = slots[s].ptr /\ u.ty = slots[s].ty /\ u.alloc = slots[s].alloc
    BY <1>18, <2>1, OwnerTyped DEF CallReturns, Slot, BoxKinds, Empty
  <2> QED BY <1>18, <2>1, <2>2, Phase DEF CallReturns, Released, Destroyed, BoxKinds
<1>19. ASSUME NEW s \in Slots, NEW kept \in BOOLEAN, CallPanics(s, kept)
       PROVE  Ownership'
  <2>1. PICK u : u = [slots[s] EXCEPT !.kind = "panicked"]
    OBVIOUS
  <2>2. /\ u.kind = "panicked"
        /\ u.ptr = slots[s].ptr /\ u.ty = slots[s].ty /\ u.alloc = slots[s].alloc
    BY <1>19, <2>1, OwnerTyped DEF CallPanics, Slot, BoxKinds, Empty
  <2> QED BY <1>19, <2>1, <2>2, Phase DEF CallPanics, Released, Destroyed, BoxKinds
<1>20. ASSUME NEW s \in Slots, DynDealloc(s)
       PROVE  Ownership'
  BY <1>20, Deallocation, Disposal DEF DynDealloc
<1>21. ASSUME NEW s \in Slots, DynDeallocPanics(s)
       PROVE  Ownership'
  <2>1. PICK u : u = [slots[s] EXCEPT !.kind = "panicked"]
    OBVIOUS
  <2>2. /\ u.kind = "panicked"
        /\ u.ptr = slots[s].ptr /\ u.ty = slots[s].ty /\ u.alloc = slots[s].alloc
    BY <1>21, <2>1, OwnerTyped DEF DynDeallocPanics, Slot, BoxKinds, Empty
  <2> QED BY <1>21, <2>1, <2>2, Phase DEF DynDeallocPanics, BoxKinds
<1>22. ASSUME NEW s \in Slots, UnwindDrop(s)
       PROVE  Ownership'
  <2>1. PICK u : u = [slots[s] EXCEPT !.kind = "unwinding"]
    OBVIOUS
  <2>2. /\ u.kind = "unwinding"
        /\ u.ptr = slots[s].ptr /\ u.ty = slots[s].ty /\ u.alloc = slots[s].alloc
    BY <1>22, <2>1, OwnerTyped DEF UnwindDrop, Slot, BoxKinds, Empty
  <2> QED BY <1>22, <2>1, <2>2, DropTarget, Phase DEF UnwindDrop, BoxKinds
<1>23. ASSUME NEW s \in Slots, PanicAborts(s)
       PROVE  Ownership'
  BY <1>23 DEF PanicAborts, Ownership, Sound, Apart, BlockHeld, InstanceHeld
<1> QED
  BY <1>1, <1>2, <1>3, <1>4, <1>5, <1>6, <1>7, <1>8, <1>9, <1>10, <1>11, <1>12, <1>13,
     <1>14, <1>15, <1>16, <1>17, <1>18, <1>19, <1>20, <1>21, <1>22, <1>23
  DEF Next

\* The inductive invariant holds in every reachable state, whatever may unwind.
THEOREM OwnershipHolds == Spec => []Ownership
<1>1. TypeOK /\ Ownership /\ [Next]_vars => Ownership'
  BY OwnershipStep
<1> QED BY TypeCorrect, OwnershipInit, <1>1, PTL DEF Spec

\* Two owners never share a block nor a boxed value.
THEOREM SoleOwnerHolds == Spec => []SoleOwner
<1>1. Ownership => SoleOwner
  BY DEF Ownership, Apart, SoleOwner, Holding
<1> QED BY OwnershipHolds, <1>1, PTL

\* An owner at rest always reaches a live instance of what its vtable describes.
THEOREM OwnerReachesValueHolds == Spec => []OwnerReachesValue
<1>1. Ownership => OwnerReachesValue
  BY DEF Ownership, Sound, OwnerReachesValue, AtRest
<1> QED BY OwnershipHolds, <1>1, PTL

-----------------------------------------------------------------------------
(* Destructors and deallocations                                           *)

\* A destructor that runs on a value that is not dead keeps the count right.
LEMMA DestroyedOnce ==
  ASSUME TypeOK, DroppedExactlyOnce, NEW v \in Values, place[v] # "dead", Destroyed(v)
  PROVE  DroppedExactlyOnce'
  BY DEF TypeOK, DroppedExactlyOnce, Destroyed, MoveValue

\* So does a value that moves without its destructor running.
LEMMA MovedOnce ==
  ASSUME TypeOK, DroppedExactlyOnce, NEW v \in Values, place[v] # "dead",
         NEW where \in Places \ {"dead"}, MoveValue(v, where), UNCHANGED drops
  PROVE  DroppedExactlyOnce'
  BY DEF TypeOK, DroppedExactlyOnce, MoveValue

\* While calls do not unwind, no DynBox is dropped after its value was moved out.
NothingUnwound == \A s \in Slots : slots[s].kind \notin {"panicked", "unwinding"}

\* Nothing of a by-value call unwinds.
LEMMA NoCallUnwinds ==
  ASSUME NothingUnwound, CallsDoNotUnwind, NEW s \in Slots, NEW kept \in BOOLEAN
  PROVE  ~CallPanics(s, kept) /\ ~DynDeallocPanics(s) /\ ~UnwindDrop(s)
<1>1. ~CallPanics(s, kept)
  BY DEF CallsDoNotUnwind, CallPanics
<1>2. ~DynDeallocPanics(s)
  BY DEF CallsDoNotUnwind, DynDeallocPanics
<1>3. UnwindDrop(s) => slots[s].kind = "panicked"
  BY DEF UnwindDrop
<1>4. slots[s].kind # "panicked"
  BY DEF NothingUnwound
<1> QED BY <1>1, <1>2, <1>3, <1>4

LEMMA PutNothingUnwound ==
  ASSUME TypeOK, NothingUnwound, NEW s \in Slots, NEW u, Put(s, u),
         u.kind \notin {"panicked", "unwinding"}
  PROVE  NothingUnwound'
  BY DEF TypeOK, NothingUnwound, Put

LEMMA NothingUnwoundStep ==
  ASSUME CallsDoNotUnwind, TypeOK, NothingUnwound, [Next]_vars
  PROVE  NothingUnwound'
<1>1. CASE UNCHANGED <<slots>>
  BY <1>1 DEF NothingUnwound
<1>2. ASSUME NEW s \in Slots, NEW u, Put(s, u), u.kind \notin {"panicked", "unwinding"}
      PROVE  NothingUnwound'
  BY <1>2, PutNothingUnwound
<1>3. ASSUME NEW s \in Slots, NEW v \in Values, NEW a \in Usable, NEW p \in Pointers,
             StdBoxNew(s, v, a, p) \/ \E t \in Traits : TryNewIn(s, v, t, a, p)
      PROVE  NothingUnwound'
  BY <1>3, <1>2 DEF StdBoxNew, TryNewIn, Owner
<1>4. ASSUME NEW s \in Slots, NEW t \in Traits,
             FromBox(s, t) \/ UpcastPtr(s, t) \/ UpcastBox(s, t)
      PROVE  NothingUnwound'
  <2>1. slots[s] \in Slot
    BY OwnerTyped
  <2>2. CASE FromBox(s, t)
    BY <2>1, <2>2, <1>2 DEF FromBox, Slot, Empty, BoxKinds
  <2>3. CASE UpcastPtr(s, t)
    BY <2>1, <2>3, <1>2, RawMoves DEF UpcastPtr
  <2>4. CASE UpcastBox(s, t)
    <3>1. AsBox(DynPtrUpcast(AsRaw(slots[s]), t), slots[s].alloc).kind = "box"
      BY <2>1, <2>4, UpcastMoves DEF UpcastBox, BoxKinds
    <3> QED BY <3>1, <2>4, <1>2 DEF UpcastBox
  <2> QED BY <1>4, <2>2, <2>3, <2>4
<1>5. ASSUME NEW s \in Slots,
             IntoRawWithAllocator(s) \/ IntoRaw(s) \/ FromRawIn(s) \/ FromRaw(s)
      PROVE  NothingUnwound'
  <2>1. slots[s] \in Slot
    BY OwnerTyped
  <2>2. CASE IntoRawWithAllocator(s)
    BY <2>1, <2>2, <1>2, BoxMoves DEF IntoRawWithAllocator, BoxKinds
  <2>3. CASE IntoRaw(s)
    BY <2>1, <2>3, <1>2 DEF IntoRaw, AsRaw, Slot, Empty, BoxKinds
  <2>4. CASE FromRawIn(s)
    BY <2>1, <2>4, <1>2, SlotFields, RawMoves DEF FromRawIn
  <2>5. CASE FromRaw(s)
    BY <2>1, <2>5, <1>2, RawMoves DEF FromRaw
  <2> QED BY <1>5, <2>2, <2>3, <2>4, <2>5
<1>6. ASSUME NEW s \in Slots, BeginDrop(s) \/ CallByValue(s)
      PROVE  NothingUnwound'
  BY <1>6, <1>2, OwnerTyped DEF BeginDrop, CallByValue, Slot, Empty, BoxKinds
<1>7. ASSUME NEW s \in Slots,
             DropPanics(s) \/ FinishDrop(s) \/ FinishDropPanics(s) \/ DynDealloc(s)
      PROVE  NothingUnwound'
  BY <1>7, <1>2 DEF DropPanics, FinishDrop, FinishDropPanics, DynDealloc, Empty
<1>8. ASSUME NEW s \in Slots, NEW kept \in BOOLEAN, CallReturns(s, kept)
      PROVE  NothingUnwound'
  BY <1>8, <1>2, OwnerTyped DEF CallReturns, Slot, Empty, BoxKinds
<1>9. ASSUME NEW s \in Slots, NEW kept \in BOOLEAN
      PROVE  ~CallPanics(s, kept) /\ ~DynDeallocPanics(s) /\ ~UnwindDrop(s)
  BY NoCallUnwinds, Zenon
<1>10. ASSUME NEW s \in Slots, PanicAborts(s)
       PROVE  NothingUnwound'
  BY <1>10, <1>1 DEF PanicAborts
<1>11. ASSUME NEW v \in Values, NEW a \in Usable, TryNewInFails(v, a) \/ NewInFails(v, a)
       PROVE  NothingUnwound'
  BY <1>11, <1>1 DEF TryNewInFails, NewInFails
<1> QED BY <1>1, <1>3, <1>4, <1>5, <1>6, <1>7, <1>8, <1>9, <1>10, <1>11 DEF Next, vars

LEMMA DroppedExactlyOnceStep ==
  ASSUME TypeOK, Ownership, NothingUnwound, DroppedExactlyOnce, CallsDoNotUnwind, [Next]_vars
  PROVE  DroppedExactlyOnce'
<1>1. CASE UNCHANGED <<place, drops>>
  BY <1>1 DEF DroppedExactlyOnce
<1>2. ASSUME NEW v \in Values, NEW a \in Usable, TryNewInFails(v, a) \/ NewInFails(v, a)
      PROVE  DroppedExactlyOnce'
  BY <1>2, DestroyedOnce DEF TryNewInFails, NewInFails
<1>3. ASSUME NEW s \in Slots, NEW v \in Values, NEW a \in Usable, NEW p \in Pointers,
             StdBoxNew(s, v, a, p) \/ \E t \in Traits : TryNewIn(s, v, t, a, p)
      PROVE  DroppedExactlyOnce'
  BY <1>3, MovedOnce DEF StdBoxNew, TryNewIn, Places
<1>4. ASSUME NEW s \in Slots, slots[s].kind \in {"box", "calling"}
      PROVE  slots[s].ty \in Values /\ place[slots[s].ty] \in {"boxed", "callee"}
  BY <1>4, OwnerTyped, SlotFields DEF Ownership, Sound, InstanceHeld, AtRest, BoxKinds
<1>5. ASSUME NEW s \in Slots, BeginDrop(s) \/ DropPanics(s)
      PROVE  DroppedExactlyOnce'
  BY <1>4, <1>5, DropTarget, DestroyedOnce DEF BeginDrop, DropPanics
<1>6. ASSUME NEW s \in Slots, CallByValue(s)
      PROVE  DroppedExactlyOnce'
  BY <1>4, <1>6, MovedOnce DEF CallByValue, Places
<1>7. ASSUME NEW s \in Slots, NEW kept \in BOOLEAN, CallReturns(s, kept)
      PROVE  DroppedExactlyOnce'
  <2>1. slots[s].ty \in Values /\ place[slots[s].ty] # "dead" /\ Released(slots[s].ty, kept)
    BY <1>4, <1>7 DEF CallReturns
  <2>2. CASE kept
    BY <2>1, <2>2, MovedOnce DEF Released, Places
  <2>3. CASE ~kept
    BY <2>1, <2>3, DestroyedOnce DEF Released
  <2> QED BY <2>2, <2>3
<1>8. ASSUME NEW s \in Slots, NEW kept \in BOOLEAN
      PROVE  ~CallPanics(s, kept) /\ ~DynDeallocPanics(s) /\ ~UnwindDrop(s)
  BY NoCallUnwinds
<1>9. ASSUME NEW s \in Slots,
             \/ \E t \in Traits : FromBox(s, t) \/ UpcastPtr(s, t) \/ UpcastBox(s, t)
             \/ IntoRawWithAllocator(s) \/ IntoRaw(s) \/ FromRawIn(s) \/ FromRaw(s)
             \/ FinishDrop(s) \/ FinishDropPanics(s) \/ DynDealloc(s) \/ PanicAborts(s)
      PROVE  UNCHANGED <<place, drops>>
  BY <1>9 DEF FromBox, UpcastPtr, UpcastBox, IntoRawWithAllocator, IntoRaw, FromRawIn,
              FromRaw, FinishDrop, FinishDropPanics, DynDealloc, PanicAborts
<1> QED BY <1>1, <1>2, <1>3, <1>5, <1>6, <1>7, <1>8, <1>9 DEF Next, vars

\* While calls do not unwind, the destructor of a value runs exactly once, when the
\* value dies: for every number of owners, conversions, upcasts and calls.
THEOREM DroppedExactlyOnceHolds ==
  ASSUME CallsDoNotUnwind
  PROVE  Spec => []DroppedExactlyOnce
<1>1. Init => NothingUnwound /\ DroppedExactlyOnce
  BY DEF Init, NothingUnwound, DroppedExactlyOnce, Empty
<1>2. TypeOK /\ Ownership /\ NothingUnwound /\ DroppedExactlyOnce /\ [Next]_vars
        => (NothingUnwound /\ DroppedExactlyOnce)'
  BY NothingUnwoundStep, DroppedExactlyOnceStep
<1> QED BY TypeCorrect, OwnershipHolds, <1>1, <1>2, PTL DEF Spec

\* A DynBox that frees its block hands it to the allocator it came from.
LEMMA BlockFits ==
  ASSUME ZeroSizesAccepted, TypeOK, Ownership, NEW s \in Slots, slots[s].kind \in BoxKinds
  PROVE  Fits(slots[s].alloc, slots[s].ptr, Size[slots[s].ty])
<1>1. slots[s].alloc # None /\ slots[s].ty \in Values
  BY NamesAssumption, OwnerTyped, SlotFields DEF BoxKinds
<1>2. BlockHeld(slots[s])
  BY DEF Ownership, Sound, BoxKinds
<1> QED BY <1>1, <1>2, NamesAssumption DEF BlockHeld, Fits, ZeroSizesAccepted

LEMMA ContractsKeptStep ==
  ASSUME CallsDoNotUnwind, ZeroSizesAccepted, TypeOK, Ownership, NothingUnwound,
         ContractsKept, [Next]_vars
  PROVE  ContractsKept'
<1> USE DEF ContractsKept
<1>1. CASE UNCHANGED status
  BY <1>1
<1>2. CASE status' = "aborted"
  BY <1>2
<1>3. ASSUME NEW s \in Slots, FinishDrop(s) \/ DynDealloc(s)
      PROVE  UNCHANGED status
  BY <1>3, BlockFits DEF FinishDrop, DynDealloc, Deallocate, BoxKinds
<1>4. ASSUME NEW s \in Slots, BeginDrop(s) \/ DropPanics(s)
      PROVE  UNCHANGED status
  BY <1>4, DropTarget DEF BeginDrop, DropPanics
<1>5. \A s \in Slots : ~UnwindDrop(s)
  BY DEF UnwindDrop, NothingUnwound
<1>6. ASSUME NEW s \in Slots, NEW kept \in BOOLEAN,
             \/ \E v \in Values, a \in Usable, p \in Pointers :
                  StdBoxNew(s, v, a, p) \/ \E t \in Traits : TryNewIn(s, v, t, a, p)
             \/ \E t \in Traits : FromBox(s, t) \/ UpcastPtr(s, t) \/ UpcastBox(s, t)
             \/ IntoRawWithAllocator(s) \/ IntoRaw(s) \/ FromRawIn(s) \/ FromRaw(s)
             \/ FinishDropPanics(s) \/ CallByValue(s) \/ CallReturns(s, kept)
             \/ CallPanics(s, kept) \/ DynDeallocPanics(s)
      PROVE  UNCHANGED status
  BY <1>6 DEF StdBoxNew, TryNewIn, FromBox, UpcastPtr, UpcastBox, IntoRawWithAllocator,
              IntoRaw, FromRawIn, FromRaw, FinishDropPanics, CallByValue, CallReturns,
              CallPanics, DynDeallocPanics
<1>7. ASSUME NEW v \in Values, NEW a \in Usable, TryNewInFails(v, a) \/ NewInFails(v, a)
      PROVE  UNCHANGED status \/ status' = "aborted"
  BY <1>7 DEF TryNewInFails, NewInFails
<1>8. ASSUME NEW s \in Slots, PanicAborts(s)
      PROVE  status' = "aborted"
  BY <1>8 DEF PanicAborts
<1> QED BY <1>1, <1>2, <1>3, <1>4, <1>5, <1>6, <1>7, <1>8 DEF Next, vars

\* While calls do not unwind and the global allocator accepts what has size zero, no
\* destructor runs on a moved value and every deallocation meets its contract.
THEOREM ContractsKeptHolds ==
  ASSUME CallsDoNotUnwind, ZeroSizesAccepted
  PROVE  Spec => []ContractsKept
<1>1. Init => NothingUnwound /\ ContractsKept
  BY DEF Init, NothingUnwound, ContractsKept, Empty
<1>2. TypeOK /\ Ownership /\ NothingUnwound /\ ContractsKept /\ [Next]_vars
        => (NothingUnwound /\ ContractsKept)'
  BY NothingUnwoundStep, ContractsKeptStep
<1> QED BY TypeCorrect, OwnershipHolds, <1>1, <1>2, PTL DEF Spec
=============================================================================
