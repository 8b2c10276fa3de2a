------------------------------- MODULE DynBox -------------------------------
(***************************************************************************)
(* DynBox (src/src/boxed.rs) over its allocators (src/src/alloc.rs): how a *)
(* value, its memory and the allocator instance change owner.              *)
(*                                                                         *)
(* A slot is one owner in the program: a Box before its conversion, an     *)
(* owned DynPtr, a DynBox, or a DynBox half way through its drop glue or   *)
(* through a method that takes `self` by value.  Slots step independently, *)
(* as do the owners held by several threads or by nested calls.            *)
(***************************************************************************)
EXTENDS Naturals

CONSTANTS
  Values,         \* the values, each of a concrete type of its own
  Size,           \* Size[v]: the size of the type of v
  Slots,          \* the owners that exist at the same time
  Blocks,         \* the blocks of memory the allocators hand out
  Traits,         \* the dyntable traits
  Supers,         \* Supers[t]: the traits whose vtable the vtable of t contains
  Boxable,        \* the traits whose vtable has both drop and layout
  Implements,     \* Implements[v]: the traits that the type of v implements
  Allocators,     \* the allocator instances, which are moved and not copied
  Global,         \* GlobalAllocator, a unit value
  Dangling,       \* a pointer that refers to no memory
  None,           \* no value, block, trait or allocator
  AllocatorApi,   \* is the crate built with the feature allocator_api?
  Unwinds         \* what may unwind: a subset of {"method", "drop", "dealloc"}

ASSUME NamesAssumption ==
  /\ None \notin Values \cup Blocks \cup Traits \cup Allocators
  /\ Global \notin Allocators \cup {None}
  /\ Dangling \notin Blocks \cup {None}

ASSUME SizeAssumption == Size \in [Values -> Nat]

ASSUME TraitAssumption ==
  /\ Supers \in [Traits -> SUBSET Traits]
  /\ Boxable \subseteq Traits
  /\ Implements \in [Values -> SUBSET Traits]
  /\ \A v \in Values : \A t \in Implements[v] : Supers[t] \subseteq Implements[v]

ASSUME BuildAssumption ==
  /\ AllocatorApi \in BOOLEAN
  /\ Unwinds \subseteq {"method", "drop", "dealloc"}

VARIABLES
  slots,    \* slots[s]: the owner in slot s
  heap,     \* heap[b]: the allocator, the size and the content of block b
  place,    \* place[v]: "client", "boxed", "callee" or "dead"
  drops,    \* drops[v]: how many times the destructor of v ran
  allocs,   \* allocs[a]: "client", "held", "dropped" or "leaked"
  status    \* "running", "aborted", or "undefined" once a contract is broken

vars == <<slots, heap, place, drops, allocs, status>>

-----------------------------------------------------------------------------
(* Owners and memory                                                       *)

\* The owners that are at rest and hold a value.
AtRest == {"stdbox", "raw", "box"}

Empty == [kind |-> "empty", ptr |-> None, ty |-> None, trait |-> None, alloc |-> None]

Pointers == Blocks \cup {Dangling}

\* A DynBox at rest, and the phases of its drop glue and of a by-value call.
BoxKinds == {"box", "calling", "returned", "panicked", "dropping", "unwinding"}

Slot ==
  {Empty}
    \cup [kind : {"stdbox"}, ptr : Pointers, ty : Values,
          trait : {None}, alloc : Allocators \cup {Global}]
    \cup [kind : {"raw"}, ptr : Pointers, ty : Values,
          trait : Traits, alloc : Allocators \cup {Global, None}]
    \cup [kind : BoxKinds, ptr : Pointers, ty : Values,
          trait : Traits, alloc : Allocators \cup {Global}]

Free == [alloc |-> None, size |-> 0, val |-> None]

Block == [alloc : Allocators \cup {Global, None}, size : Nat, val : Values \cup {None}]

Init ==
  /\ slots = [s \in Slots |-> Empty]
  /\ heap = [b \in Blocks |-> Free]
  /\ place = [v \in Values |-> "client"]
  /\ drops = [v \in Values |-> 0]
  /\ allocs = [a \in Allocators |-> "client"]
  /\ status = "running"

is_zero_sized(size) == size = 0

\* The pointers `allocate` can return for a layout of this size.
Allocated(size) ==
  IF is_zero_sized(size) THEN {Dangling} ELSE {b \in Blocks : heap[b] = Free}

\* Only the global allocator is known to accept a zero-sized layout.
MayFail(a, size) == a # Global \/ ~is_zero_sized(size)

\* `deallocate` wants a pointer of this allocator with the layout it has.  The
\* crate's GlobalAllocator passes every pointer to the system allocator; the
\* standard library's ignores zero-sized layouts.
Fits(a, p, size) ==
  IF p = Dangling THEN a # Global \/ AllocatorApi
                  ELSE p \in Blocks /\ heap[p].alloc = a /\ heap[p].size = size

WithBlock(p, block) == [b \in Blocks |-> IF b = p THEN block ELSE heap[b]]

\* Mutant: without `ptr.write`.
InitialisedNoWrite(p, a, v) == WithBlock(p, [alloc |-> a, size |-> Size[v], val |-> None])

Initialised(p, a, v) == WithBlock(p, [alloc |-> a, size |-> Size[v], val |-> v])

Vacated(p) == [b \in Blocks |-> IF b = p THEN [heap[b] EXCEPT !.val = None] ELSE heap[b]]

Freed(p) == WithBlock(p, Free)

Deallocate(a, p, size) ==
  IF Fits(a, p, size)
  THEN heap' = Freed(p) /\ UNCHANGED status
  ELSE status' = "undefined" /\ UNCHANGED heap

\* The allocator instances the client can give away.
Usable == {Global} \cup {a \in Allocators : allocs[a] = "client"}

MoveAlloc(a, where) ==
  allocs' = [x \in Allocators |-> IF x = a THEN where ELSE allocs[x]]

Put(s, owner) == slots' = [slots EXCEPT ![s] = owner]

MoveValue(v, where) == place' = [place EXCEPT ![v] = where]

Destroyed(v) ==
  /\ MoveValue(v, "dead")
  /\ drops' = [drops EXCEPT ![v] = @ + 1]

\* The value leaves the hands of the method that took it: the method gave it
\* to somebody (kept) or its destructor ran.
Released(v, kept) ==
  IF kept THEN MoveValue(v, "client") /\ UNCHANGED drops ELSE Destroyed(v)

-----------------------------------------------------------------------------
(* Construction and conversion                                             *)

Running == status = "running"

Owner(kind, p, v, t, a) ==
  [kind |-> kind, ptr |-> p, ty |-> v, trait |-> t, alloc |-> a]

\* The client boxes v with the standard library (external code).
StdBoxNew(s, v, a, p) ==
  /\ Running /\ slots[s] = Empty /\ place[v] = "client"
  /\ a \in Usable /\ (a # Global => AllocatorApi)
  /\ p \in Allocated(Size[v])
  /\ heap' = Initialised(p, a, v)
  /\ Put(s, Owner("stdbox", p, v, None, a))
  /\ MoveValue(v, "boxed") /\ MoveAlloc(a, "held")
  /\ UNCHANGED <<drops, status>>

\* DynBox::from(Box): the pointer and the allocator of the Box are taken over.
FromBox(s, t) ==
  /\ Running /\ slots[s].kind = "stdbox"
  /\ t \in Boxable \cap Implements[slots[s].ty]
  /\ Put(s, [slots[s] EXCEPT !.kind = "box", !.trait = t])
  /\ UNCHANGED <<heap, place, drops, allocs, status>>

\* DynBox::new, new_in and try_new_in when the allocation succeeds.
TryNewIn(s, v, t, a, p) ==
  /\ Running /\ slots[s] = Empty /\ place[v] = "client"
  /\ t \in Boxable \cap Implements[v] /\ a \in Usable
  /\ p \in Allocated(Size[v])
  /\ heap' = Initialised(p, a, v)
  /\ Put(s, Owner("box", p, v, t, a))
  /\ MoveValue(v, "boxed") /\ MoveAlloc(a, "held")
  /\ UNCHANGED <<drops, status>>

\* try_new_in when it fails: the error return drops the value and the allocator.
TryNewInFails(v, a) ==
  /\ Running /\ place[v] = "client" /\ a \in Usable /\ MayFail(a, Size[v])
  /\ Destroyed(v) /\ MoveAlloc(a, "dropped")
  /\ UNCHANGED <<slots, heap, status>>

\* new and new_in when it fails: both are gone, then handle_alloc_error aborts.
NewInFails(v, a) ==
  /\ Running /\ place[v] = "client" /\ a \in Usable /\ MayFail(a, Size[v])
  /\ Destroyed(v) /\ MoveAlloc(a, "dropped")
  /\ status' = "aborted"
  /\ UNCHANGED <<slots, heap>>

\* The three primitives on fat pointers that `upcast` is composed of.
AsRaw(b) == [b EXCEPT !.kind = "raw"]
DynPtrUpcast(ptr, t) == [ptr EXCEPT !.trait = t]
AsBox(ptr, a) == [ptr EXCEPT !.kind = "box", !.alloc = a]

\* Mutant: without `mem::forget`, the box is dropped after its parts were copied.
IntoRawNoForget(s) ==
  /\ Running /\ slots[s].kind = "box"
  /\ Put(s, AsRaw(slots[s]))
  /\ heap' = Freed(slots[s].ptr)
  /\ Destroyed(slots[s].ty)
  /\ UNCHANGED <<allocs, status>>

IntoRawWithAllocator(s) ==
  /\ Running /\ slots[s].kind = "box"
  /\ Put(s, AsRaw(slots[s]))
  /\ UNCHANGED <<heap, place, drops, allocs, status>>

\* Mutant: into_raw forgets the allocator.
IntoRawForgetsAllocator(s) ==
  /\ Running /\ slots[s].kind = "box"
  /\ Put(s, [AsRaw(slots[s]) EXCEPT !.alloc = None])
  /\ UNCHANGED <<heap, place, drops, allocs, status>>

\* into_raw keeps the pointer of the pair; the allocator is dropped.
IntoRaw(s) ==
  /\ Running /\ slots[s].kind = "box"
  /\ Put(s, [AsRaw(slots[s]) EXCEPT !.alloc = None])
  /\ MoveAlloc(slots[s].alloc, "dropped")
  /\ UNCHANGED <<heap, place, drops, status>>

\* from_raw_in with the allocator that came with the pointer: its contract.
FromRawIn(s) ==
  /\ Running /\ slots[s].kind = "raw"
  /\ slots[s].trait \in Boxable /\ slots[s].alloc # None
  /\ Put(s, AsBox(slots[s], slots[s].alloc))
  /\ UNCHANGED <<heap, place, drops, allocs, status>>

\* Mutant: from_raw does not supply the global allocator.
FromRawNoAllocator(s) ==
  /\ Running /\ slots[s].kind = "raw"
  /\ slots[s].trait \in Boxable /\ slots[s].alloc = None
  /\ slots[s].ptr \in Blocks => heap[slots[s].ptr].alloc = Global
  /\ Put(s, AsBox(slots[s], slots[s].alloc))
  /\ UNCHANGED <<heap, place, drops, allocs, status>>

\* from_raw of a pointer into the global allocator: its contract.
FromRaw(s) ==
  /\ Running /\ slots[s].kind = "raw"
  /\ slots[s].trait \in Boxable /\ slots[s].alloc = None
  /\ slots[s].ptr \in Blocks => heap[slots[s].ptr].alloc = Global
  /\ Put(s, AsBox(slots[s], Global))
  /\ UNCHANGED <<heap, place, drops, allocs, status>>

UpcastPtr(s, t) ==
  /\ Running /\ slots[s].kind = "raw" /\ t \in Supers[slots[s].trait]
  /\ Put(s, DynPtrUpcast(slots[s], t))
  /\ UNCHANGED <<heap, place, drops, allocs, status>>

\* Mutant: the box is rebuilt with from_raw, hence in the global allocator.
UpcastBoxGlobal(s, t) ==
  /\ Running /\ slots[s].kind = "box" /\ t \in Boxable \cap Supers[slots[s].trait]
  /\ Put(s, AsBox(DynPtrUpcast(AsRaw(slots[s]), t), Global))
  /\ MoveAlloc(slots[s].alloc, "dropped")
  /\ UNCHANGED <<heap, place, drops, status>>

UpcastBox(s, t) ==
  /\ Running /\ slots[s].kind = "box" /\ t \in Boxable \cap Supers[slots[s].trait]
  /\ Put(s, AsBox(DynPtrUpcast(AsRaw(slots[s]), t), slots[s].alloc))
  /\ UNCHANGED <<heap, place, drops, allocs, status>>

-----------------------------------------------------------------------------
(* Drop                                                                    *)

\* Is there a live instance where the fat pointer points?  A zero-sized value
\* occupies no memory: it is where its owner is.
HoldsInstance(b) ==
  /\ b.kind = "box" /\ place[b.ty] = "boxed"
  /\ b.ptr \in Blocks => heap[b.ptr].val = b.ty

\* The destructor runs on the instance the pointer refers to; on anything else
\* it runs on a value that was moved away.
VirtualDrop(b) ==
  IF HoldsInstance(b)
  THEN Destroyed(b.ty) /\ heap' = Vacated(b.ptr) /\ UNCHANGED status
  ELSE /\ drops' = [drops EXCEPT ![b.ty] = @ + 1]
       /\ status' = "undefined"
       /\ UNCHANGED <<place, heap>>

\* Mutant: the zero-size test guards the destructor too.
BeginDropSkipsUnit(s) ==
  /\ Running /\ slots[s].kind = "box"
  /\ IF is_zero_sized(Size[slots[s].ty])
     THEN UNCHANGED <<heap, place, drops, status>> ELSE VirtualDrop(slots[s])
  /\ Put(s, [slots[s] EXCEPT !.kind = "dropping"])
  /\ UNCHANGED allocs

\* Mutant: the block is freed before the destructor has run.
BeginDropFreesFirst(s) ==
  /\ Running /\ slots[s].kind = "box"
  /\ Destroyed(slots[s].ty) /\ heap' = Freed(slots[s].ptr)
  /\ Put(s, [slots[s] EXCEPT !.kind = "dropping"])
  /\ UNCHANGED <<allocs, status>>

\* Drop::drop up to the return of the destructor.
BeginDrop(s) ==
  /\ Running /\ slots[s].kind = "box"
  /\ VirtualDrop(slots[s])
  /\ Put(s, [slots[s] EXCEPT !.kind = "dropping"])
  /\ UNCHANGED allocs

\* Mutant: an unwinding destructor loses the allocator.
DropPanicsLosesAllocator(s) ==
  /\ Running /\ slots[s].kind = "box" /\ "drop" \in Unwinds
  /\ VirtualDrop(slots[s])
  /\ Put(s, Empty)
  /\ UNCHANGED allocs

\* Mutant: an unwinding destructor frees the block before it has run.
DropPanicsFrees(s) ==
  /\ Running /\ slots[s].kind = "box" /\ "drop" \in Unwinds
  /\ Destroyed(slots[s].ty) /\ heap' = Freed(slots[s].ptr)
  /\ MoveAlloc(slots[s].alloc, "dropped")
  /\ Put(s, Empty)
  /\ UNCHANGED status

\* The destructor unwinds: the block stays, the drop glue drops the allocator.
DropPanics(s) ==
  /\ Running /\ slots[s].kind = "box" /\ "drop" \in Unwinds
  /\ VirtualDrop(slots[s])
  /\ MoveAlloc(slots[s].alloc, "dropped")
  /\ Put(s, Empty)

\* Mutant: the zero-size test is the wrong way round.
FinishDropNoDealloc(s) ==
  /\ Running /\ slots[s].kind = "dropping"
  /\ MoveAlloc(slots[s].alloc, "dropped")
  /\ Put(s, Empty)
  /\ UNCHANGED <<heap, status, place, drops>>

\* The rest of Drop::drop and the drop glue: free the block, drop the allocator.
FinishDrop(s) ==
  /\ Running /\ slots[s].kind = "dropping"
  /\ IF is_zero_sized(Size[slots[s].ty])
     THEN UNCHANGED <<heap, status>>
     ELSE Deallocate(slots[s].alloc, slots[s].ptr, Size[slots[s].ty])
  /\ MoveAlloc(slots[s].alloc, "dropped")
  /\ Put(s, Empty)
  /\ UNCHANGED <<place, drops>>

\* A deallocator of the client unwinds without releasing the block.
FinishDropPanics(s) ==
  /\ Running /\ slots[s].kind = "dropping" /\ "dealloc" \in Unwinds
  /\ slots[s].alloc # Global /\ ~is_zero_sized(Size[slots[s].ty])
  /\ MoveAlloc(slots[s].alloc, "dropped")
  /\ Put(s, Empty)
  /\ UNCHANGED <<heap, place, drops, status>>

-----------------------------------------------------------------------------
(* Methods that take `self` by value                                       *)

\* Mutant: the thunk hands over a copy and leaves the value in the block.
CallByValueCopies(s) ==
  /\ Running /\ slots[s].kind = "box"
  /\ MoveValue(slots[s].ty, "callee")
  /\ Put(s, [slots[s] EXCEPT !.kind = "calling"])
  /\ UNCHANGED <<heap, drops, allocs, status>>

\* The vtable thunk reads the value out of the block and calls the method.
CallByValue(s) ==
  /\ Running /\ slots[s].kind = "box"
  /\ heap' = Vacated(slots[s].ptr)
  /\ MoveValue(slots[s].ty, "callee")
  /\ Put(s, [slots[s] EXCEPT !.kind = "calling"])
  /\ UNCHANGED <<drops, allocs, status>>

CallReturns(s, kept) ==
  /\ Running /\ slots[s].kind = "calling"
  /\ Released(slots[s].ty, kept)
  /\ Put(s, [slots[s] EXCEPT !.kind = "returned"])
  /\ UNCHANGED <<heap, allocs, status>>

\* The method unwinds, over the DynBox that is still a live local of its caller.
CallPanics(s, kept) ==
  /\ Running /\ slots[s].kind = "calling" /\ "method" \in Unwinds
  /\ Released(slots[s].ty, kept)
  /\ Put(s, [slots[s] EXCEPT !.kind = "panicked"])
  /\ UNCHANGED <<heap, allocs, status>>

\* Mutant: without `mem::forget`, the DynBox is dropped after the call.
DynDeallocNoForget(s) ==
  /\ Running /\ slots[s].kind = "returned"
  /\ drops' = [drops EXCEPT ![slots[s].ty] = @ + 1]
  /\ heap' = Freed(slots[s].ptr)
  /\ MoveAlloc(slots[s].alloc, "dropped")
  /\ Put(s, Empty)
  /\ UNCHANGED <<place, status>>

\* Mutant: the DynBox is forgotten and its block too.
DynDeallocForgetsBlock(s) ==
  /\ Running /\ slots[s].kind = "returned"
  /\ MoveAlloc(slots[s].alloc, "leaked")
  /\ Put(s, Empty)
  /\ UNCHANGED <<heap, status, place, drops>>

\* dyn_dealloc: deallocate whatever the layout says, then forget the DynBox.
DynDealloc(s) ==
  /\ Running /\ slots[s].kind = "returned"
  /\ Deallocate(slots[s].alloc, slots[s].ptr, Size[slots[s].ty])
  /\ MoveAlloc(slots[s].alloc, "leaked")
  /\ Put(s, Empty)
  /\ UNCHANGED <<place, drops>>

\* The deallocator of the client unwinds before the DynBox is forgotten.
DynDeallocPanics(s) ==
  /\ Running /\ slots[s].kind = "returned" /\ "dealloc" \in Unwinds
  /\ slots[s].alloc # Global
  /\ Put(s, [slots[s] EXCEPT !.kind = "panicked"])
  /\ UNCHANGED <<heap, place, drops, allocs, status>>

\* Unwinding drops the DynBox.
UnwindDrop(s) ==
  /\ Running /\ slots[s].kind = "panicked"
  /\ VirtualDrop(slots[s])
  /\ Put(s, [slots[s] EXCEPT !.kind = "unwinding"])
  /\ UNCHANGED allocs

\* A panic reaches a function of an ABI that does not unwind.
PanicAborts(s) ==
  /\ Running
  /\ \/ slots[s].kind = "calling" /\ "method" \notin Unwinds
     \/ slots[s].kind = "box" /\ "drop" \notin Unwinds
  /\ status' = "aborted"
  /\ UNCHANGED <<slots, heap, place, drops, allocs>>

-----------------------------------------------------------------------------

Next ==
  \/ \E v \in Values, a \in Usable : TryNewInFails(v, a) \/ NewInFails(v, a)
  \/ \E s \in Slots :
       \/ \E v \in Values, a \in Usable, p \in Pointers :
            \/ StdBoxNew(s, v, a, p)
            \/ \E t \in Traits : TryNewIn(s, v, t, a, p)
       \/ \E t \in Traits : FromBox(s, t) \/ UpcastPtr(s, t) \/ UpcastBox(s, t)
       \/ IntoRawWithAllocator(s) \/ IntoRaw(s) \/ FromRawIn(s) \/ FromRaw(s)
       \/ BeginDrop(s) \/ DropPanics(s) \/ FinishDrop(s) \/ FinishDropPanics(s)
       \/ CallByValue(s)
       \/ \E kept \in BOOLEAN : CallReturns(s, kept) \/ CallPanics(s, kept)
       \/ DynDealloc(s) \/ DynDeallocPanics(s) \/ UnwindDrop(s)
       \/ PanicAborts(s)

Spec == Init /\ [][Next]_vars

\* What follows a destructor or a method is straight-line code of the crate: it
\* does not wait for anybody.  Nothing else is under an obligation to happen.
Fairness == \A s \in Slots : WF_vars(FinishDrop(s)) /\ WF_vars(DynDealloc(s))

FairSpec == Spec /\ Fairness

-----------------------------------------------------------------------------
(* Properties                                                              *)

Places == {"client", "boxed", "callee", "dead"}

\* Every variable has its type; an owner has an allocator unless it is a raw
\* pointer, and a vtable unless it is a Box.
TypeOK ==
  /\ slots \in [Slots -> Slot]
  /\ heap \in [Blocks -> Block]
  /\ place \in [Values -> Places]
  /\ drops \in [Values -> Nat]
  /\ allocs \in [Allocators -> {"client", "held", "dropped", "leaked"}]
  /\ status \in {"running", "aborted", "undefined"}

\* No memory has two owners, and no boxed value has: whatever the order of
\* conversions, upcasts, by-value calls and drops, two slots never refer to the
\* same block, and the value behind an owner at rest is behind no other one.
SoleOwner ==
  \A s, r \in Slots : s # r =>
    /\ slots[s].ptr \in Blocks => slots[s].ptr # slots[r].ptr
    /\ slots[s].kind \in AtRest /\ slots[r].kind \in AtRest => slots[s].ty # slots[r].ty

\* The memory of an owner comes from the allocator it will be given back to and is
\* as large as the layout in the vtable says; a zero-sized value has none.
BlockHeld(b) ==
  \/ b.ptr = Dangling /\ Size[b.ty] = 0
  \/ /\ b.ptr \in Blocks
     /\ heap[b.ptr].alloc # None /\ b.alloc \in {heap[b.ptr].alloc, None}
     /\ heap[b.ptr].size = Size[b.ty]

\* What the vtable of an owner at rest says is true: there is a live instance of its
\* type, which implements its trait.
InstanceHeld(b) ==
  /\ place[b.ty] = "boxed"
  /\ b.ptr \in Blocks => heap[b.ptr].val = b.ty
  /\ b.kind # "stdbox" => b.trait \in Implements[b.ty]
  /\ b.kind = "box" => b.trait \in Boxable

\* An owner at rest always reaches a live instance of what its vtable describes, in
\* memory that may be given back to its allocator.
OwnerReachesValue ==
  \A s \in Slots : slots[s].kind \in AtRest => BlockHeld(slots[s]) /\ InstanceHeld(slots[s])

\* The inductive form of SoleOwner and OwnerReachesValue: what they say of the owners
\* at rest, and what is left of it in the later phases of a DynBox, whose block is
\* still held and whose value, while a method has it, is in no other slot.
Sound(b) ==
  /\ b.kind # "empty" => BlockHeld(b)
  /\ b.kind \in AtRest => InstanceHeld(b)
  /\ b.kind = "calling" => place[b.ty] = "callee"

Holding == AtRest \cup {"calling"}

Apart(b, c) ==
  /\ b.ptr \in Blocks => b.ptr # c.ptr
  /\ b.kind \in Holding /\ c.kind \in Holding => b.ty # c.ty

Ownership ==
  /\ \A s \in Slots : Sound(slots[s])
  /\ \A s, r \in Slots : s # r => Apart(slots[s], slots[r])

\* A block holds an instance only as long as an owner at rest refers to it: whatever
\* ends the owner, a by-value call, a drop or an unwinding drop, has emptied the block.
InstancesOwned ==
  \A b \in Blocks : heap[b].val # None =>
    \E s \in Slots : slots[s].kind \in AtRest /\ slots[s].ptr = b

\* The destructor of a value runs exactly once, when the value dies, whoever runs
\* it: Drop, an error return of try_new_in or a method that consumed the value.
DroppedExactlyOnce ==
  \A v \in Values : drops[v] = IF place[v] = "dead" THEN 1 ELSE 0

\* Nothing unwinds over a method called by value or over the deallocation after it.
CallsDoNotUnwind == Unwinds \subseteq {"drop"}

\* GlobalAllocator is the standard library's, or nothing has size zero.
ZeroSizesAccepted == AllocatorApi \/ \A v \in Values : Size[v] # 0

\* No destructor runs on a moved value and every deallocation meets the contract
\* of Deallocator::deallocate.
ContractsKept == status # "undefined"

\* A block is allocated only as long as somebody owns it.
NoBlockLeaks == \A b \in Blocks : heap[b] # Free => \E s \in Slots : slots[s].ptr = b

\* Every boxed value can still be reached through an owner.
NoValueLeaks ==
  \A v \in Values : place[v] = "boxed" =>
    \E s \in Slots : slots[s].kind \in AtRest /\ slots[s].ty = v

\* An allocator instance is never duplicated: it is in exactly one slot while it is
\* held and in none afterwards, so it is neither dropped twice nor used when dropped.
AllocatorConserved ==
  \A a \in Allocators :
    /\ allocs[a] = "held" => \E s \in Slots : slots[s].alloc = a
    /\ allocs[a] # "held" => \A s \in Slots : slots[s].alloc # a
    /\ \A s, r \in Slots : slots[s].alloc = a /\ slots[r].alloc = a => s = r

\* Only unwinding over a by-value call runs a destructor twice.
TwiceDroppedOnlyByUnwinding ==
  \A v \in Values : drops[v] > 1 =>
    \E s \in Slots : slots[s].kind = "unwinding" /\ slots[s].ty = v

\* A block that holds a live instance is neither freed nor handed out again nor
\* overwritten: the only thing that happens to it is that the instance leaves.
OccupiedBlockStays ==
  [][\A b \in Blocks : heap[b].val # None =>
       heap'[b] \in {heap[b], [heap[b] EXCEPT !.val = None]}]_vars

\* A block whose value is gone, because it was destroyed or its by-value method
\* returned, is eventually given back unless the process aborts.
VacatedBlockFreed ==
  \A b \in Blocks :
    (\E s \in Slots : slots[s].ptr = b /\ slots[s].kind \in {"dropping", "returned"})
      ~> (heap[b] = Free \/ status = "aborted")

\* DynBox implements the promise of an owning pointer.
OV == INSTANCE OwnedValues WITH Cells <- Blocks, cell <- [b \in Blocks |-> heap[b].val]

ImplementsOwnedValues == OV!Spec
=============================================================================
