# A verification development for dyntable

`dyntable` gives Rust FFI-safe trait objects.  A `#[dyntable]` trait gets a vtable struct
with a fixed layout; `DynPtr`, `DynRef`, `DynRefMut` and `DynBox` are fat pointers to a
value and such a vtable, which C code or another Rust library may have made.  This
directory holds TLA+ models of the crate and of its macro, the TLC configurations that
check them, and TLAPS proofs about them.

Paths below are relative to the repository.  Run `tlc -config X.cfg MCModule` and
`tlapm DynBoxProofs.tla` in this directory.

## The system

| component | state | operations | what makes it correct |
|---|---|---|---|
| `DynBox` (`src/boxed.rs`) | fat pointer and allocator | `new`, `new_in`, `try_new_in`, `From<Box>`, `from_raw(_in)`, `into_raw(_with_allocator)`, `upcast`, `Drop`, by-value calls with `dyn_dealloc` | the value and its memory have one owner, the destructor runs once, memory goes back to its allocator with its layout |
| allocators (`src/alloc.rs`) | blocks handed out | `allocate`, `deallocate` | `deallocate` gets only what it allocated, with that layout |
| references (`src/lib.rs`) | fat pointer and lifetime | `borrow`, `borrow_mut`, `Copy`, `upcast`, `From<&T>`, calls through `Deref` and `DerefMut` | XOR mutability, the meaning of `Send` and `Sync` |
| vtables, dispatch (`src/dyntable-macro` `codegen`, `DynPtr`, `SubTable`) | static vtables | `DynPtr::new`, `upcast`, method calls | every path leads to the vtable of the same type, old programs can read new vtables |
| options (`parse/attribute.rs`) | the options stored so far | `AttributeOptions::parse` | order does not matter, none counts twice, defaults as documented |
| dyn entries (`parse/dyntrait.rs`) | the where clause and the entries | `strip_dyn_entries` | takes out the dyn entries and nothing else |
| subtables (`parse/dyntrait.rs`) | the macro's maps and lists | `solve_subtables`, `graph_subtables`, field names | accepts what its rules allow, one path to each trait, distinct fields |
| methods (`parse/`) | the method entries | `DynTraitBody::parse`, `MethodEntry::try_from`, the ABI check | accepts only what has a vtable entry, for which field, function and call agree |
| generics (`parse/mod.rs`, `codegen`) | none | the generics of each generated item | what an item mentions it declares, gives and bounds |
| `Send`/`Sync` wrappers (`src/private.rs`) | none | vtables for `dyn Trait + Send` | exist only for types with the marker |

The parsers run one after the other on one trait and return at the first error; the dyn
entries that `strip_dyn_entries` takes out of the where clause are what `solve_subtables`
works on.  The macro's output ties the rest together: `parse_trait` puts the subtables before
the methods, the code generator turns each entry into a field and `SubTable` impls,
`DynPtr::new` stores the static vtable, `DynBox::drop` and `dyn_dealloc` read the destructor
and the layout through it, and calls and upcasts walk its subtables.

The crate has no concurrency of its own, but its types move between threads, and the drop
glue and by-value calls run foreign code (destructors, methods, allocators) in their middle,
which can unwind.  Hard to test are: the order of conversions that only `unsafe` contracts
constrain; the phases of a drop or a by-value call when something unwinds; zero sizes;
reborrows, copies and thread moves that only signatures and marker impls constrain; indirect
paths between vtables; a library and a program compiled at different times; combinations of
features of a trait, each of which has a test.  `PROJECT.json` lists these hazards with their
lines.

## Modules

- **OwnedValues** - what an owning pointer promises: a value is in one place, a memory
  cell that holds one is not reused, a value is destroyed once.
- **DynBox** - `DynBox` and the allocators.  A slot is one owner (`Box`, owned `DynPtr`,
  `DynBox`), with the fields of the fat pointer (`ptr`, `trait`) and of the box (`alloc`);
  `ty` is the type that the vtable behind `trait` belongs to, from which the layout and the
  destructor come.  The drop glue has two steps (`BeginDrop` up to the return of the
  destructor, `FinishDrop`), a by-value call three (`CallByValue`, `CallReturns`,
  `DynDealloc`), since foreign code runs between them; slots interleave freely.
  `Unwinds` says what may unwind and `AllocatorApi` which `GlobalAllocator` is built in.
  `status` becomes `"undefined"` when a destructor runs on a moved value or `deallocate`
  gets memory it did not allocate with that layout.
- **Subtables** - the macro's loops, one iteration per step: `Predicate...` are the loop
  over the dyn entries of `solve_subtables`, `Bound`, `Graph` and `BoundsDone` that over the
  supertraits with the recursion of `graph_subtables` as an explicit list of calls, `Name`
  the naming of fields in `DynTraitBody::parse`.  Paths are values with a last segment,
  which is a stem and digits, as far as the numbering of names can tell.  A call has its
  depth; `GraphOverflows` is the end of the stack, which holds `Stack` calls.
- **MacroStages** - what the parsers share: a `source`, the `stage` and the position `pos` in
  its list, and the `verdict`, with which the macro returns.
- **AttributeOptions**, **DynEntries**, **TraitItems** - the parsers, one element of their
  list per step: the options in two loops (all are parsed before the first is stored), the
  predicates of the where clause, the items and the ABIs.  A source says of each element what
  the parser tells apart, such as `"self: T"` or `"pattern: T"` of a parameter; the checks of an
  element are the operators `...Error`, in the order of the code.
- **DynTrait** - the macro's parsers composed: `TraitNext` runs the stages `options`,
  `settings`, `where`, `subtables` (the actions of `Subtables`, on what `Stripped` hands over),
  `items` and `abi`.  `Legal` says what the documentation asks of a source in each; which quoted
  ABIs there are (`Abis`) it leaves to the compiler, as the macro does.
- **Expansion** - what is generated for an accepted source: the `Pieces`, each with the
  parameters it declares and mentions and the generated items it names, and the rules of the
  language that a piece must meet (`Resolves`); and what a method is as a field of the vtable,
  as the function stored there, and at a call, but for the types of its parameters and its result,
  which all three copy from the same `MethodEntry`.
- **TraitObject** - what a trait object promises: an upcast changes the trait only, and a
  call runs the method of the value's type.
- **VTables** - a vtable as a sequence of words; the memory of the library follows from its
  definitions (`VTable`, which is recursive on the traits).  `Getter`, `Itself` and `Delegate` are the three generated forms of
  `SubTable::subtable`; their nested calls are the list `goals`.  The program uses the layout
  of its own version, the library's memory has that of a newer one (`AddMethod`, as
  `tests/reftable.rs` does with `UpdatedBase`).
- **Borrows** - the owner of one value of any type, the references derived from it, and
  the threads they are on.  A reference is a loan, shared or mutable, on its parent;
  `Readable`, `Movable` and `Writable` are the borrow checker.  What the crate contributes
  is which loan a function takes and what it returns, and `BoxSend`, `BoxSync`, `RefSend`
  and `RefMutSend`.  A call is the `self` reference that the callee has while it runs.  The
  type of a handle is an object `dyn of + plus`: with markers added, its vtable is that of `of`
  in `SendWrapper`, `SyncWrapper` or `SendSyncWrapper`, which exists for types that have these
  markers (`Implemented`), promises them (`Implied`), and has no methods and no supertraits
  (`Callable`, `Upcasts`).
- **DynBoxProofs** (ownership, destructors, contracts), **DynBoxConservation** (allocators and
  leaks), **DynBoxRefinement** (`OwnedValues`), **BorrowsProofs**, **SubtablesProofs**,
  **DynTraitProofs**, **ExpansionProofs**, **VTablesProofs** - theorems and their proofs.  The `MC...` modules give
  TLC its instances.

Operators whose comment starts with `Mutant:` are variants of the definition after them with
a plausible bug; each property has one that violates it (`PROJECT.json`, `mutants`).

## Runs

| run | checks | shows |
|---|---|---|
| `MCDynBox.cfg` | the safety properties, `OccupiedBlockStays`, `VacatedBlockFreed`, `ImplementsOwnedValues` | without unwinding over calls, ownership is exact, nothing leaks but the allocator of a by-value call, and `DynBox` implements `OwnedValues` |
| `MCDynBoxUnwinding.cfg` | `Ownership`, `InstancesOwned` and what else survives | everything may unwind; only a value that a by-value call had taken is dropped twice |
| `MCDynBoxPanic.cfg` | `DroppedExactlyOnce`, violated | a by-value method that unwinds |
| `MCDynBoxZst.cfg` | `ContractsKept`, violated | a by-value call on a zero-sized value with the crate's `GlobalAllocator` |
| `MCDynTrait.cfg` | verdict, options, predicates, subtables and their names, signatures, generics, termination | the macro rejects a trait for the first rule it breaks and for nothing else, loses nothing of one that it accepts, and what it generates fits together but for the combinations in `ResolvesOtherwise` |
| `MCDynTraitAbi.cfg` | `DocumentedAbisTaken`, violated | `drop = "C-unwind"` panics |
| `MCSubtablesNames.cfg` | `FieldNamesDistinct`, violated | traits `A`, `A` and `A2` |
| `MCSubtablesLayout.cfg` | `LayoutFollowsEntries`, violated | the order comes from the supertraits |
| `MCVTables.cfg` | `WordsInPlace`, `DispatchInv`, `ImplementsTraitObject`, `SubtablesFound` | dispatch on every path, also in a newer library |
| `MCBorrows.cfg` | `LoanInv`, `BorrowsExclusive`, `SharedOnlyIfSync`, `OwnersStayHome` | borrows and markers, also behind wrapped vtables, outside the two exceptions below |
| `MCBorrowsAlias.cfg` | `Exclusive`, violated | `DynRefMut::from(&T)` |
| `MCBorrowsSend.cfg` | `StaysHomeUnaliased`, violated | a `DynRefMut` whose bounds are `Sync` only, borrowed mutably and sent |

**Bounds.** `DynBox`: two slots and two blocks are enough, since every property
relates at most two owners; three values of sizes 16, 8 and 0 tell a
wrong layout and a zero size apart; one allocator instance beside the global one; a boxable
trait, its boxable supertrait, and one that is not.  The macro reads one source at a time, so
that its instances are families of sources, each of which varies one part (`MCDynTrait`):

- *Subtables*: every input of two entries with one bound over three paths, with `&` over two
  paths, and with two bounds each, for four lists of supertraits; two lists with a trait twice;
  up to four entries chosen from six on four paths, for depth and for circles. `Stack` = 5 is
  more than the four paths, which is the longest chain without a circle (`StackAssumption`); at
  most nine supertraits, so that a count has one digit.
- *Items*: every pair of items out of 27, which have every error of an item or none, with and
  without `relax_abi`.
- *Options*: every pair out of 17 well-formed and malformed ones, and four at once in any order.
- *Where clauses*: every pair out of 17 predicates, with every error of a predicate or none,
  and longer clauses that mix entries and others; lifetimes among the supertraits.
- *Faults*: an error in each stage, with and without errors in the others.
- *Expansions*: no generics, or a lifetime, a type or a const, bounded or with a default, with
  up to two supertraits, a where clause that is about the generics or not, and methods by
  reference and by value, with lifetimes of their own or not.

`VTables`: the diamond of four traits with every
choice of `&` and of the path, and the chain of four; at most `MaxMethods` = 2 methods, so
that one can be added to each trait.  `Borrows`: three references beside the owner, which
allows a child, its sibling and a grandchild; two threads; the type has any of `Send` and
`Sync`; traits that bound nothing, `Send` and `Sync`, the first with any markers added and the
last with `Send` added.  References are symmetric.

Deadlock is not checked: a program that has dropped its values, aborted, or broken a contract
stops, a macro returns, and references may all be in use.

**Fairness.** `DynBox`: weak fairness of `FinishDrop` and `DynDealloc` alone, the code of the
crate that follows a destructor or a method and waits for nobody; no destructor or method
has to return.  `DynTrait`: weak fairness of `TraitNext`, since the macro is one call that
waits for nothing.  `VTables`: weak fairness of `subtable` calls that have begun, which are
sequential code.

## What the runs found

1. *By-value calls and unwinding.*  `codegen/mod.rs:264-276` keeps the `DynBox` alive while
   the method consumes its value; a method whose ABI unwinds (`Rust`, `C-unwind`) and that
   panics has its value dropped a second time.
2. *By-value calls and zero sizes.*  `dyn_dealloc` (`src/boxed.rs:78-87`) has no zero-size
   test, `Drop` has; the crate's `GlobalAllocator` passes the dangling pointer on.
3. *Field names.*  The count that tells equal names apart may form another trait's name.
4. *Layout.*  The subtables follow the supertrait list; the documentation says that they
   follow the dyn entries, also in its rules of backwards compatibility.
5. *`From<&T>` for `DynRefMut`* makes a mutable reference of a shared one.
6. *`DynRefMut` is `Send` where the bounds are `Sync`*, `&mut dyn Trait` where they are `Send`.
   `StaysHomeUnaliased` leaves 5 out, so that the trace is a mutable borrow that was sent.
7. *Generics and several supertraits.*  `codegen/mod.rs:159` declares `__DynBounds_X` with the
   generics of the trait, lines 161 and 304 name it without arguments.  No run is violated by it: `ResolvesOtherwise`
   states of these traits that they do not compile, and passes.
8. *The ABI of `drop`.*  `Ident::new` (`attribute.rs:62`) panics on `drop = "C-unwind"`;
   `src/lib.rs:896-899` permits any ABI that `extern` does.

The runs that pass exclude 5 and 6 by the history variable `past`, and 1 and 2 by the
constants `Unwinds` and `AllocatorApi`.  `VerdictOfFirstStage` takes a quoted ABI for legal, as the
documentation does, and names the panic of 8 as what else may happen.  `ResolvesOtherwise` names 7 and these, of which no
documentation speaks:

- the thunk of a by-value method (`codegen/vtable/imp.rs:252-271`) repeats the generics of the
  trait with their defaults, not the lifetimes of the method and not the where clause, so that
  a by-value method with lifetimes of its own, or in a trait with defaults or with predicates
  on its generics, does not compile;
- the default of a const parameter is kept in the generics of impls
  (`codegen/mod.rs:66-72`, `imp.rs:52-72`).

Also states of the models, but not violations:

- dyn entries that lead in a circle overflow the compiler's stack (the verdict `"aborted"` of
  `Subtables`);
- a quoted `drop` ABI that is an identifier and no ABI is accepted, and left to the compiler;
- a predicate on `&'a T` or `&mut T` is rejected whatever it says (`dyntrait.rs:212-216`);
- a `dyn Trait + Send` implements `SubTable` for itself only, so that its methods cannot be
  called and it cannot be upcast;
- a supertrait that is listed twice or is also a bound of another is left to the compiler's
  check of overlapping impls (`SubtablesExact` assumes `OnePathEach`); the second subtable of
  one listed twice has no `&`, since its entry was taken by the first;
- `dyn_dealloc` leaks the allocator instance (`allocs[a] = "leaked"`).

Met and in no model: `repr` is read as one identifier (`parse/mod.rs:98-108`), so that
`repr = align(8)` is a syntax error, though `src/lib.rs:884-885` permits what `#[repr(...)]` does,
and a source has no such option; `DynBox` is `Send` and `Sync` whatever its allocator is
(`src/boxed.rs:41`); `unsafe trait` is generated as a safe trait (`codegen/mod.rs:291`);
attributes, default bodies, `async` and `const` of a method are dropped without an error; a
supertrait with a dyn entry that a later version adds, behind `&` or not, moves the methods of
the trait, which the rules of `src/lib.rs:998-1005` do not mention.

## Proofs

Each theorem holds for every value of the constants that meets the assumptions of its
module.  An invariant that a run checks is seldom inductive; what was added to it stands in
the component's own module, where a run checks it too (`Ownership`, `InstancesOwned`,
`LoanInv`, `StagesInv`, `DispatchInv`, and the last section of `Subtables`).

**`DynBox`** (`DynBoxProofs`, `DynBoxConservation`, `DynBoxRefinement`)

- `TypeCorrect`, `OwnershipHolds`, and from the latter `SoleOwnerHolds` and
  `OwnerReachesValueHolds`: whatever unwinds and in either build.
- `DroppedExactlyOnceHolds`, if nothing unwinds over a by-value call (`CallsDoNotUnwind`).
- `ContractsKeptHolds`, if moreover zero-sized layouts are accepted or do not occur
  (`ZeroSizesAccepted`).
- `AllocatorsAreConserved`, `ValuesDoNotLeak` and `TwiceOnlyByUnwinding`, whatever unwinds;
  `BlocksDoNotLeak`, if neither destructors nor deallocators do (`DropsDoNotUnwind`): a method
  that unwinds leaves its block to `DynBox::drop`.
- `InstancesAreOwned` and `OccupiedBlocksStay`, whatever unwinds, and
  `DynBoxImplementsOwnedValues` under `CallsDoNotUnwind`.

`SoleOwner` and `OwnerReachesValue` are not inductive: they speak of owners at rest, and a
block is freed by a box half way through its drop or its call.  `Ownership` adds what remains
true in these phases: the block is still held with the layout that will be used to free it,
and while a method has the value no other slot refers to it.  The argument goes by groups of
actions, each with a lemma of its own: conversions (the pointer keeps its block and type),
creation (an empty block, a value of the client), vacating a block, phases that change only
the kind of a slot, and disposal (a block with no other owner is freed).  The two theorems on
destructors use `NothingUnwound`: without unwinding no slot is ever `"panicked"` or
`"unwinding"`, so that the destructor runs on a live instance only.

That a block with an instance stays needs the converse of `OwnerReachesValue`,
`InstancesOwned`: a block holds an instance only as long as an owner at rest refers to it.
With both, each action changes the mapped state of `OwnedValues` as one of its actions does or
not at all; with unwinding it does not, since a value that a method consumed is dropped again.

**`Borrows`** (`BorrowsProofs`)

- `TypeCorrect`; `LoansFormATree`; `BorrowsAreExclusive`, `SharedIfSync` and `OwnersAtHome`, for
  any number of references, threads and traits.

`LoanInv` says that the loans on a value form a tree: mutable loans make a chain from the
owner, whose last member is the only one that may write or lend shared references, and these
stay on the thread of their parents unless the type is `Sync`.  It is false as soon as a
`DynRefMut` was made of a shared reference, so that it is conditional on `past`, as the
properties are.  Markers come in by `VTablesTrue`: every vtable in use, a wrapped one too,
promises of its type only what is true of it.

**The macro** (`SubtablesProofs`, `DynTraitProofs`, `ExpansionProofs`)

- Of `solve_subtables` on any input: `TypeCorrect`, `OneParentEach`, `VerdictIsCorrect`,
  `SubtablesAreExact`, and `NamesAreDistinct` if no trait is named like another with a count behind it (`NoNameCounted`,
  which the run `MCSubtablesNames.cfg` shows to be needed).
- Of the macro on any source: the same five (`SubtablesTyped`, `OneParentInTrait`,
  `SolvedRightly`, `SubtablesExactInTrait`, `FieldsAreDistinct`), `ParsersTyped`,
  `StagesAreRead`, `VerdictsAreOfFirstStage`, `OptionsAreMeant`, `PredicatesAreConserved`.
- Of the expansion of any accepted source: `SignaturesDoAgree`, `ResolvesUnlessCombined`.

What the dyn entries reach is defined as the least closed set, so that no induction on paths is
needed: `Walked` says that the traits used are closed but for the pending calls of
`graph_subtables`, and when no call is pending they are what the supertraits reach.  Without
a circle the depth of a call is at most the number of its ancestors, which are fewer than the
paths, so that the stack does not overflow; a circle that was entered is always still pending, so
that the walk does not come to its end.

That the subtables are exact needs the list of the last one while it grows (`BuildInv`).  Its
children and the pending calls that would add more have no trait twice: the bounds of a trait
that was just added are new, since no trait has two parents and, by `OnePathEach`, none of them
is a supertrait or was reached from another one.  When no call is left the children are closed
under the entries, hence all that the supertrait reaches.  Which supertrait a subtable is for,
and which predicate one that is kept is, is said by ranks: the element of a filtered list at
`Rank(p)` is the one at `p`, so that no filtering function has to be reasoned about.

The stages of the macro share `pos`, so that what is known of a list depends on the stage and
the position: `IsPast` says which elements were read, and one invariant per part (`OptionsInv`,
`StoredInv`, `SettingsInv`, `WhereInv`, `SolveInv`, `ItemsInv`) what is known of these.  The
lemmas on the steps of `Subtables` ask of the input only that it has its type and are used
for both.  `ResolvesUnlessCombined` goes piece by piece: a lemma for each kind of piece
says when it resolves.

**`VTables`** (`VTablesProofs`)

- `TypeCorrect`, `DispatchHolds`, `WordsAreInPlace`, and `VTablesImplementTraitObject`, for any
  hierarchy of traits, with any mix of fields and pointers, and any newer library.

A vtable is defined by recursion on the traits, and so is the concatenation of its parts.  That
such a function exists, is unique and gives sequences of words needs no induction scheme: a
program has a height for each trait that is above those of its supertraits (`NotCircular`), and
the least height at which a definition would fail is contradicted by the ones below it
(`TablesExist`, `TablesUnique`; `JoinsExist`, `JoinsUnique` of `FlattenSeq`).  From this follow the
offsets: a subtable's words are at `SubtableOffset`, a method's at `MethodOffset`
(`EntryInPlace`, `MethodInPlace`).  `LibraryNewer` says what versions may differ in: then the vtables
inside others are the same in both, and every static vtable of the library begins with the
program's (`InlinedAlike`, `ProgramFirst`).  So each impl of `SubTable` that a call goes through
leads from a vtable that is in place to one that is (`GetterMatches`), and `Underway` says that it
leads towards the trait that was asked for, whose method is then the one that runs (`CallRuns`).

**Assumptions on the constants.** `DynBox`: names differ, sizes are naturals, and a type that
implements a trait implements its supertraits (`NamesAssumption`, `SizeAssumption`,
`TraitAssumption`, `BuildAssumption`).  `VTables`: programs are finite and compile, which
excludes circular supertraits (`ProgramsAssumption`, `NoneAssumption`).  `Borrows`: the same of its traits and markers.  The
macro: the stack holds a chain of all traits (`StackAssumption`), a trait has fewer than ten
supertraits, so that a count is one digit, and sources are made of what the parser tells
apart (`InputsAssumption`, `SourcesAssumption`); a source has resolved as it was written: what a
method mentions is in scope (`ScopesAssumption`).  `WordsAssumption` tells the provers that four words
are strings.  TLC evaluates all of them on the runs' instances.

**Model-checked only.**  Liveness (`VacatedBlockFreed`, `SubtablesFound`, `MacroEnds`), which is
out of the prover's reach.

## Assumed and left out

- A client's allocator returns a dangling pointer for a zero-sized layout and accepts it
  back; one whose `deallocate` unwinds has not released the block.
- A `DynPtr` from foreign code is one that `TryNewIn` and `IntoRawWithAllocator` make: its
  vtable is true of its value.  Contracts of `unsafe` functions are met by callers.
- Alignment goes with the size and is not modelled apart from it.
- What `syn` and `quote` do is taken from their use: a source is a list of parsed elements, an
  expansion a set of pieces.  The position that an error is reported at, and its wording
  beyond the message, are left out.
- The bodies of the wrappers' `virtual_drop` and `virtual_layout` hand the call on, so that
  `DynBox` has no wrapped vtables.
- Not modelled: `visit_type_paths` and `fix_vtable_associated_types`, which rewrite `Self::X`
  in the types of parameters for the associated types of the trait.  The parser rejects every
  trait that has associated types.
- Not modelled: the examples, the benchmarks and the tests, which are read as documentation.

## Plan

Done: all components in `PROJECT.json`, as modelled above, and the proofs listed; every safety
property that a run checks is a theorem.  Left, in this order:

1. `VTables`: a measure of the nested calls of `subtable` that every step of a call makes smaller,
   as an action property.  It bounds the length of a call for every program, which is the safety
   part of `SubtablesFound`; that the call ends under fairness stays with TLC.
2. Subtables and vtables together: that the graph which `solve_subtables` makes is one for which
   `ImplsExist` holds.
