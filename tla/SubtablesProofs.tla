-------------------------- MODULE SubtablesProofs --------------------------
(***************************************************************************)
(* Theorems about Subtables, for any inputs, traits and names.  The lemmas *)
(* about steps ask of the input only that it has its type, so that they    *)
(* hold wherever the macro starts.                                         *)
(***************************************************************************)
EXTENDS Subtables, SequenceTheorems, FiniteSetTheorems, TLAPS

InputTyped == input.supertraits \in Seq(Paths) /\ input.predicates \in Seq(Entries)

-----------------------------------------------------------------------------
(* Types                                                                   *)

Call == [parent : Paths \cup {Root}, path : Paths, depth : 1 .. (Stack + 1)]

Edge == [parent : Paths \cup {Root}, path : Paths]

Subtable == [path : Paths, ref : BOOLEAN, graph : Seq(Edge)]

FieldName == [stem : STRING, digits : Seq(Nat)]

MapTyped ==
  /\ DOMAIN supertrait_map \subseteq Paths
  /\ \A p \in DOMAIN supertrait_map : supertrait_map[p] \in Seq(Paths)

NamesCounted == \A n \in DOMAIN used_names : used_names[n] \in Nat

PcTyped == pc \in {"predicates", "bounds", "graph", "naming", "ok", "error", "aborted"}

SetsTyped == specified_paths \subseteq Paths /\ ref_tokens \subseteq Paths /\ used \subseteq Paths

Typed ==
  /\ InputTyped /\ PcTyped /\ i \in Nat \ {0} /\ MapTyped /\ SetsTyped
  /\ subtables \in Seq(Subtable) /\ todo \in Seq(Call)
  /\ fields \in Seq(FieldName) /\ NamesCounted

LEMMA TypedTypeOK == Typed => TypeOK
  BY DEF Typed, TypeOK, InputTyped, PcTyped, MapTyped, SetsTyped, Subtable, Edge, Call, FieldName

LEMMA InputsTyped == Init => InputTyped
  BY InputsAssumption DEF Init, InputTyped

LEMMA TypeStart == InputTyped /\ Start => Typed
  BY EmptySeq DEF Start, Typed, PcTyped, MapTyped, SetsTyped, NamesCounted

LEMMA EntryFields ==
  ASSUME InputTyped, NEW k \in 1 .. Len(input.predicates)
  PROVE  /\ input.predicates[k].path \in Paths /\ input.predicates[k].bounds \in Seq(Paths)
         /\ input.predicates[k].ref \in BOOLEAN
<1>1. input.predicates[k] \in Entries
  BY ElementOfSeq DEF InputTyped
<1> QED BY <1>1 DEF Entries

\* The calls for the bounds of a trait, as many as it has.
LEMMA CallsTyped ==
  ASSUME Typed, NEW call \in Call, call.depth <= Stack
  PROVE  /\ Calls(call) \in Seq(Call)
         /\ Calls(call) # <<>> => call.path \in DOMAIN supertrait_map
         /\ call.path \in DOMAIN supertrait_map =>
              /\ DOMAIN Calls(call) = DOMAIN supertrait_map[call.path]
              /\ \A j \in DOMAIN Calls(call) :
                   /\ Calls(call)[j].parent = call.path
                   /\ Calls(call)[j].path = supertrait_map[call.path][j]
                   /\ Calls(call)[j].depth = call.depth + 1
<1>1. CASE call.path \notin DOMAIN supertrait_map
  BY <1>1, EmptySeq DEF Calls
<1>2. CASE call.path \in DOMAIN supertrait_map
  <2> DEFINE bounds == supertrait_map[call.path]
  <2>1. bounds \in Seq(Paths)
    BY <1>2 DEF Typed, MapTyped
  <2>2. Len(bounds) \in Nat /\ DOMAIN bounds = 1 .. Len(bounds)
    BY <2>1, LenProperties
  <2>3. Calls(call) = [j \in 1 .. Len(bounds) |->
                         [parent |-> call.path, path |-> bounds[j], depth |-> call.depth + 1]]
    BY <1>2, <2>2 DEF Calls
  <2>4. \A j \in 1 .. Len(bounds) :
          [parent |-> call.path, path |-> bounds[j], depth |-> call.depth + 1] \in Call
    BY <2>1, ElementOfSeq, StackAssumption DEF Call
  <2>5. Calls(call) \in [1 .. Len(bounds) -> Call]
    BY <2>3, <2>4
  <2>6. Calls(call) \in Seq(Call)
    BY <2>2, <2>5, SeqDef
  <2> QED BY <1>2, <2>2, <2>3, <2>6
<1> QED BY <1>1, <1>2

\* The outcomes of the checks after the loops.
LEMMA BoundsOutcome ==
  ASSUME BoundsDone
  PROVE  /\ pc = "bounds" /\ i > Len(input.supertraits) /\ i' = 1
         /\ UNCHANGED <<input, supertrait_map, specified_paths, ref_tokens, used, subtables,
                        todo, used_names, fields>>
         /\ \/ /\ DOMAIN supertrait_map \subseteq used /\ ref_tokens = {} /\ pc' = "naming"
            \/ /\ DOMAIN supertrait_map \subseteq used /\ ref_tokens # {} /\ pc' = "error"
               /\ error' = "& may only be applied to toplevel trait bounds"
            \/ /\ ~(DOMAIN supertrait_map \subseteq used) /\ pc' = "error"
               /\ error' = "dyn trait bound has no relation to the defined trait"
  BY Zenon DEF BoundsDone, Fail

LEMMA TypeStep == Typed /\ [Next]_vars => Typed'
<1> SUFFICES ASSUME Typed, [Next]_vars PROVE Typed'
  OBVIOUS
<1> USE DEF Typed
<1>1. InputTyped'
  <2>1. input' = input
    BY DEF vars, Next, Predicate, PredicateListed, PredicateDuplicates, PredicatesDone, Bound,
           Graph, GraphOverflows, GraphDone, BoundsDone, Name, NamesDone
  <2> QED BY <2>1 DEF InputTyped
<1>2. CASE UNCHANGED vars
  BY <1>1, <1>2 DEF vars, PcTyped, MapTyped, SetsTyped, NamesCounted
<1>3. CASE Predicate
  <2> DEFINE entry == input.predicates[i]
  <2>1. i \in 1 .. Len(input.predicates)
    BY <1>3, LenProperties DEF Predicate, InputTyped
  <2>2. entry.path \in Paths /\ entry.bounds \in Seq(Paths) /\ i + 1 \in Nat \ {0}
    BY <2>1, EntryFields
  <2>3. \A j \in DOMAIN entry.bounds : entry.bounds[j] \in Paths
    BY <2>2, LenProperties, ElementOfSeq
  <2>4. SetsTyped'
    BY <1>3, <2>2, <2>3 DEF Predicate, SetsTyped
  <2>5. MapTyped'
    BY <1>3, <2>2 DEF Predicate, With, MapTyped
  <2> QED BY <1>1, <1>3, <2>2, <2>4, <2>5 DEF Predicate, PcTyped, NamesCounted
<1>4. CASE PredicateListed \/ PredicateDuplicates
  BY <1>1, <1>4
    DEF PredicateListed, PredicateDuplicates, Fail, PcTyped, MapTyped, SetsTyped, NamesCounted
<1>5. CASE PredicatesDone
  BY <1>1, <1>5 DEF PredicatesDone, PcTyped, MapTyped, SetsTyped, NamesCounted
<1>6. CASE Bound
  <2> DEFINE path == input.supertraits[i]
             new == [path |-> path, ref |-> path \in ref_tokens, graph |-> <<>>]
             call == [parent |-> Root, path |-> path, depth |-> 1]
  <2>1. path \in Paths /\ i + 1 \in Nat \ {0}
    BY <1>6, ElementOfSeq, LenProperties DEF Bound, InputTyped
  <2>2. MapTyped' /\ NamesCounted' /\ SetsTyped' /\ PcTyped' /\ fields' \in Seq(FieldName)
    BY <1>6 DEF Bound, MapTyped, NamesCounted, SetsTyped, PcTyped
  <2>3. subtables' \in Seq(Subtable) /\ todo' \in Seq(Call)
    <3>1. new \in Subtable /\ call \in Call
      BY <2>1, EmptySeq, StackAssumption DEF Subtable, Call
    <3>2. Append(subtables, new) \in Seq(Subtable) /\ <<call>> \in Seq(Call)
      BY <3>1, AppendProperties
    <3> QED BY <1>6, <3>2 DEF Bound
  <2>4. i' \in Nat \ {0}
    BY <1>6, <2>1 DEF Bound
  <2> QED BY <1>1, <2>2, <2>3, <2>4
<1>7. CASE Graph
  <2> DEFINE call == Head(todo)
             edge == [parent |-> call.parent, path |-> call.path]
  <2>1. call \in Call /\ Tail(todo) \in Seq(Call) /\ call.depth <= Stack
    BY <1>7, HeadTailProperties DEF Graph
  <2>2. todo' \in Seq(Call)
    BY <1>7, <2>1, CallsTyped, ConcatProperties DEF Graph
  <2>3. edge \in Edge /\ call.path \in Paths
    BY <2>1 DEF Call, Edge
  <2>4. Len(subtables) \in Nat
    BY LenProperties
  <2>5. subtables' \in Seq(Subtable)
    <3>1. \A s \in Subtable : [s EXCEPT !.graph = Append(@, edge)] \in Subtable
      BY <2>3, AppendProperties DEF Subtable
    <3>2. subtables \in [1 .. Len(subtables) -> Subtable]
      BY LenProperties
    <3>3. subtables' \in [1 .. Len(subtables) -> Subtable]
      BY <1>7, <3>1, <3>2 DEF Graph
    <3> QED BY <2>4, <3>3, SeqDef
  <2>6. MapTyped' /\ NamesCounted' /\ SetsTyped' /\ PcTyped'
    BY <1>7, <2>3 DEF Graph, MapTyped, NamesCounted, SetsTyped, PcTyped
  <2> QED BY <1>1, <1>7, <2>2, <2>5, <2>6 DEF Graph
<1>8. CASE GraphOverflows \/ GraphDone \/ NamesDone \/ BoundsDone
  <2>1. MapTyped' /\ NamesCounted' /\ SetsTyped'
    BY <1>8 DEF GraphOverflows, GraphDone, NamesDone, BoundsDone, MapTyped, NamesCounted, SetsTyped
  <2>2. PcTyped'
    <3>1. CASE GraphOverflows \/ GraphDone \/ NamesDone
      BY <3>1 DEF GraphOverflows, GraphDone, NamesDone, PcTyped
    <3>2. CASE BoundsDone
      BY <3>2, BoundsOutcome DEF PcTyped
    <3> QED BY <1>8, <3>1, <3>2
  <2>3. subtables' = subtables /\ todo' = todo /\ fields' = fields
    BY <1>8, BoundsOutcome DEF GraphOverflows, GraphDone, NamesDone
  <2>4. i' \in {1, i, i + 1}
    BY <1>8, BoundsOutcome DEF GraphOverflows, GraphDone, NamesDone
  <2> QED BY <1>1, <2>1, <2>2, <2>3, <2>4
<1>9. CASE Name
  <2> DEFINE name == Ident[subtables[i].path]
  <2>1. i \in 1 .. Len(subtables) /\ i + 1 \in Nat \ {0}
    BY <1>9, LenProperties DEF Name
  <2>2. subtables[i].path \in Paths
    <3>1. subtables[i] \in Subtable
      BY <2>1, ElementOfSeq
    <3> QED BY <3>1 DEF Subtable
  <2>3. name \in Idents
    BY <2>2, PathsAssumption
  <2>4. name.digits \in Seq(Nat) /\ name.stem \in STRING /\ name \in FieldName
    <3>1. name.digits \in Seq(0 .. 9) /\ 0 .. 9 \subseteq Nat
      BY <2>3 DEF Idents
    <3>2. name.digits \in Seq(Nat)
      BY <3>1, SeqMonotonic
    <3> QED BY <2>3, <3>2 DEF Idents, FieldName
  <2>5. ASSUME NEW n \in Nat PROVE Numbered(name, n) \in FieldName
    <3>1. <<n>> \in Seq(Nat)
      OBVIOUS
    <3>2. name.digits \o <<n>> \in Seq(Nat)
      BY <2>4, <3>1, ConcatProperties
    <3> QED BY <2>4, <3>2 DEF Numbered, Digits, FieldName
  <2>6. fields' \in Seq(FieldName) /\ NamesCounted'
    <3>1. CASE name \in DOMAIN used_names
      <4>1. used_names[name] + 1 \in Nat
        BY <3>1 DEF NamesCounted
      <4>2. fields' = Append(fields, Numbered(name, used_names[name] + 1)) /\ NamesCounted'
        BY <1>9, <3>1, <4>1 DEF Name, With, NamesCounted
      <4> QED BY <2>5, <4>1, <4>2, AppendProperties
    <3>2. CASE name \notin DOMAIN used_names
      <4>1. fields' = Append(fields, name) /\ NamesCounted'
        BY <1>9, <3>2 DEF Name, With, NamesCounted
      <4> QED BY <2>4, <4>1, AppendProperties
    <3> QED BY <3>1, <3>2
  <2> QED BY <1>1, <1>9, <2>1, <2>6 DEF Name, PcTyped, MapTyped, SetsTyped
<1> QED
  BY <1>2, <1>3, <1>4, <1>5, <1>6, <1>7, <1>8, <1>9 DEF Next

\* Every variable has its type in every reachable state.
THEOREM TypeCorrect == Spec => []TypeOK
<1>1. Init => Typed
  BY InputsTyped, TypeStart DEF Init
<1>2. Typed /\ [Next]_vars => Typed'
  BY TypeStep
<1>3. Typed => TypeOK
  BY TypedTypeOK
<1> QED BY <1>1, <1>2, <1>3, PTL DEF Spec

-----------------------------------------------------------------------------
(* One parent                                                              *)

BoundsSpecified ==
  \A p \in DOMAIN supertrait_map :
    \A j \in DOMAIN supertrait_map[p] : supertrait_map[p][j] \in specified_paths

ParentInv == BoundsSpecified /\ OneParent

LEMMA ParentStart == Start => ParentInv
  BY DEF Start, ParentInv, BoundsSpecified, OneParent

LEMMA NoDuplicate ==
  ASSUME NEW bounds \in Seq(Paths), ~Duplicate(bounds)
  PROVE  /\ \A j \in DOMAIN bounds : bounds[j] \notin specified_paths
         /\ \A j, k \in DOMAIN bounds : bounds[j] = bounds[k] => j = k
<1>1. \A j \in DOMAIN bounds :
        /\ bounds[j] \notin specified_paths
        /\ \A k \in 1 .. (j - 1) : bounds[k] # bounds[j]
  BY DEF Duplicate
<1>2. DOMAIN bounds = 1 .. Len(bounds) /\ Len(bounds) \in Nat
  BY LenProperties
<1>3. ASSUME NEW j \in DOMAIN bounds, NEW k \in DOMAIN bounds, k < j
      PROVE  bounds[k] # bounds[j]
  BY <1>1, <1>2, <1>3
<1>4. \A j, k \in DOMAIN bounds : j < k \/ k < j \/ j = k
  BY <1>2
<1> QED BY <1>1, <1>3, <1>4

LEMMA ParentStep == Typed /\ ParentInv /\ [Next]_vars => ParentInv'
<1> SUFFICES ASSUME Typed, ParentInv, [Next]_vars PROVE ParentInv'
  OBVIOUS
<1>1. CASE UNCHANGED <<supertrait_map, specified_paths>>
  BY <1>1 DEF ParentInv, BoundsSpecified, OneParent
<1>2. CASE Predicate
  <2> DEFINE entry == input.predicates[i]
  <2>1. /\ entry.path \notin DOMAIN supertrait_map
        /\ supertrait_map' = With(supertrait_map, entry.path, entry.bounds)
        /\ specified_paths' = specified_paths \cup {entry.bounds[j] : j \in DOMAIN entry.bounds}
        /\ ~Duplicate(entry.bounds)
    BY <1>2 DEF Predicate
  <2>2. /\ DOMAIN supertrait_map' = DOMAIN supertrait_map \cup {entry.path}
        /\ supertrait_map'[entry.path] = entry.bounds
        /\ \A p \in DOMAIN supertrait_map : supertrait_map'[p] = supertrait_map[p]
    BY <2>1 DEF With
  <2>3. /\ \A j \in DOMAIN entry.bounds : entry.bounds[j] \notin specified_paths
        /\ \A j, k \in DOMAIN entry.bounds : entry.bounds[j] = entry.bounds[k] => j = k
    <3>1. i \in 1 .. Len(input.predicates)
      BY <1>2, LenProperties DEF Predicate, Typed, InputTyped
    <3>2. entry.bounds \in Seq(Paths)
      BY <3>1, EntryFields DEF Typed
    <3> QED BY <2>1, <3>2, NoDuplicate
  <2>4. BoundsSpecified'
    BY <2>1, <2>2 DEF ParentInv, BoundsSpecified
  <2>5. OneParent'
    <3> SUFFICES ASSUME NEW p \in DOMAIN supertrait_map', NEW q \in DOMAIN supertrait_map',
                        NEW j \in DOMAIN supertrait_map'[p], NEW k \in DOMAIN supertrait_map'[q],
                        supertrait_map'[p][j] = supertrait_map'[q][k]
                 PROVE  p = q /\ j = k
      BY DEF OneParent
    <3>1. CASE p = entry.path /\ q = entry.path
      BY <2>2, <2>3, <3>1
    <3>2. CASE p = entry.path /\ q # entry.path
      BY <2>2, <2>3, <3>2 DEF ParentInv, BoundsSpecified
    <3>3. CASE p # entry.path /\ q = entry.path
      BY <2>2, <2>3, <3>3 DEF ParentInv, BoundsSpecified
    <3>4. CASE p # entry.path /\ q # entry.path
      BY <2>2, <3>4 DEF ParentInv, OneParent
    <3> QED BY <3>1, <3>2, <3>3, <3>4
  <2> QED BY <2>4, <2>5 DEF ParentInv
<1> QED
  BY <1>1, <1>2
    DEF vars, Next, PredicateListed, PredicateDuplicates, PredicatesDone, Bound, Graph,
        GraphOverflows, GraphDone, BoundsDone, Name, NamesDone

\* No trait ever has two parents, whatever the entries are and wherever the macro stops.
THEOREM OneParentEach == Spec => []OneParent
<1>1. Init => Typed /\ ParentInv
  BY InputsTyped, TypeStart, ParentStart DEF Init
<1>2. Typed /\ ParentInv /\ [Next]_vars => Typed' /\ ParentInv'
  BY TypeStep, ParentStep
<1>3. ParentInv => OneParent
  BY DEF ParentInv
<1> QED BY <1>1, <1>2, <1>3, PTL DEF Spec

-----------------------------------------------------------------------------
(* Reachability                                                            *)

LEMMA ChildrenDef ==
  ASSUME NEW p, NEW q
  PROVE  q \in Children(p) <=>
           \E k \in DOMAIN input.predicates :
             /\ input.predicates[k].path = p
             /\ \E j \in DOMAIN input.predicates[k].bounds : input.predicates[k].bounds[j] = q
  BY DEF Children

LEMMA ChildrenPaths ==
  ASSUME InputTyped, NEW p
  PROVE  Children(p) \subseteq Paths
<1> SUFFICES ASSUME NEW q \in Children(p) PROVE q \in Paths
  OBVIOUS
<1>1. PICK k \in DOMAIN input.predicates :
        \E j \in DOMAIN input.predicates[k].bounds : input.predicates[k].bounds[j] = q
  BY ChildrenDef
<1>2. k \in 1 .. Len(input.predicates)
  BY LenProperties DEF InputTyped
<1>3. input.predicates[k].bounds \in Seq(Paths)
  BY <1>2, EntryFields
<1> QED BY <1>1, <1>3, LenProperties, ElementOfSeq

\* What is reached from S is the least closed set that has S.
LEMMA ReachedClosed ==
  ASSUME InputTyped, NEW S \in SUBSET Paths
  PROVE  S \subseteq Reached(S) /\ Reached(S) \subseteq Paths /\ Closed(Reached(S))
<1>1. S \subseteq Reached(S) /\ Reached(S) \subseteq Paths
  BY DEF Reached
<1>2. ASSUME NEW p \in Reached(S), NEW q \in Children(p) PROVE q \in Reached(S)
  BY ChildrenPaths DEF Reached, Closed
<1> QED BY <1>1, <1>2 DEF Closed

LEMMA ReachedLeast ==
  ASSUME NEW S, NEW T \in SUBSET Paths, S \subseteq T, Closed(T)
  PROVE  Reached(S) \subseteq T
  BY DEF Reached

LEMMA ReachedFrom ==
  ASSUME InputTyped, NEW S \in SUBSET Paths, NEW T \in SUBSET Paths, T \subseteq Reached(S)
  PROVE  Reached(T) \subseteq Reached(S)
  BY ReachedClosed, ReachedLeast

LEMMA ReachedUnion ==
  ASSUME InputTyped, NEW S \in SUBSET Paths, NEW q \in Reached(S)
  PROVE  \E p \in S : q \in Reached({p})
<1> DEFINE T == {x \in Paths : \E p \in S : x \in Reached({p})}
<1>1. \A p \in S : {p} \in SUBSET Paths
  OBVIOUS
<1>2. S \subseteq T
  BY <1>1, ReachedClosed
<1>3. ASSUME NEW x \in T, NEW y \in Children(x) PROVE y \in T
  <2>1. PICK p \in S : x \in Reached({p})
    OBVIOUS
  <2>2. y \in Reached({p})
    BY <1>1, <2>1, ReachedClosed DEF Closed
  <2> QED BY <2>2, ChildrenPaths
<1>4. Closed(T)
  BY <1>3 DEF Closed
<1> HIDE DEF T
<1>5. T \in SUBSET Paths
  BY DEF T
<1>6. q \in T
  BY <1>2, <1>4, <1>5, ReachedLeast
<1> QED BY <1>6 DEF T

LEMMA ReachedStep ==
  ASSUME InputTyped, NEW p \in Paths
  PROVE  Reached({p}) = {p} \cup Reached(Children(p))
<1>1. {p} \in SUBSET Paths /\ Children(p) \in SUBSET Paths
  BY ChildrenPaths
<1>2. p \in Reached({p}) /\ Children(p) \subseteq Reached({p})
  BY <1>1, ReachedClosed DEF Closed
<1>3. Reached(Children(p)) \subseteq Reached({p})
  BY <1>1, <1>2, ReachedFrom
<1>4. Closed({p} \cup Reached(Children(p)))
  BY <1>1, ReachedClosed DEF Closed
<1>5. Reached({p}) \subseteq {p} \cup Reached(Children(p))
  <2>1. {p} \cup Reached(Children(p)) \in SUBSET Paths
    BY <1>1, ReachedClosed
  <2> QED BY <1>4, <2>1, ReachedLeast
<1> QED BY <1>2, <1>3, <1>5

\* A trait that leads to a circle has an entry with a bound that does.
LEMMA CircleAhead ==
  ASSUME InputTyped, NEW p \in Paths, LeadsToCircle(p)
  PROVE  \E q \in Children(p) : LeadsToCircle(q)
<1>1. PICK q \in Reached({p}) : q \in Reached(Children(q))
  BY DEF LeadsToCircle
<1>2. q \in Reached(Children(p))
  BY <1>1, ReachedStep
<1>3. PICK c \in Children(p) : q \in Reached({c})
  BY <1>2, ReachedUnion, ChildrenPaths
<1> QED BY <1>1, <1>3 DEF LeadsToCircle

-----------------------------------------------------------------------------
(* Reading the dyn entries                                                 *)

\* What the input means does not change while the macro runs.
LEMMA MeaningSame ==
  ASSUME input' = input
  PROVE  /\ \A p : Children(p)' = Children(p)
         /\ \A S : Reached(S)' = Reached(S)
         /\ \A p : LeadsToCircle(p)' <=> LeadsToCircle(p)
         /\ \A p : Ancestors(p)' = Ancestors(p)
         /\ Tops' = Tops /\ EntryPaths' = EntryPaths /\ Supertraits' = Supertraits
         /\ Circular' <=> Circular
         /\ ListedOnce' <=> ListedOnce
         /\ BoundedOnce' <=> BoundedOnce
         /\ Related' <=> Related
         /\ RefsOnTop' <=> RefsOnTop
<1>1. ASSUME NEW p PROVE Children(p)' = Children(p)
  BY DEF Children
<1>2. ASSUME NEW S PROVE Closed(S)' <=> Closed(S)
  BY <1>1 DEF Closed
<1>3. ASSUME NEW S PROVE Reached(S)' = Reached(S)
  BY <1>2 DEF Reached
<1>4. EntryPaths' = EntryPaths /\ Supertraits' = Supertraits
  BY DEF EntryPaths, Supertraits
<1>5. Tops' = Tops
  BY <1>4 DEF Tops
<1>6. ASSUME NEW p PROVE LeadsToCircle(p)' <=> LeadsToCircle(p)
  <2>1. \A q : Reached(Children(q))' = Reached(Children(q))
    BY <1>1, <1>3
  <2>2. Reached({p})' = Reached({p})
    BY <1>3
  <2> QED BY <2>1, <2>2 DEF LeadsToCircle
<1>7. ASSUME NEW p PROVE Ancestors(p)' = Ancestors(p)
  <2>1. \A q : Reached({q})' = Reached({q})
    BY <1>3
  <2>2. Reached(Tops)' = Reached(Tops)
    BY <1>3, <1>5
  <2> QED BY <2>1, <2>2 DEF Ancestors
<1>8. (Related' <=> Related) /\ (Circular' <=> Circular)
  <2>1. Reached(Supertraits \cap EntryPaths)' = Reached(Supertraits \cap EntryPaths)
    BY <1>3, <1>4
  <2>2. \A q : Reached(Children(q))' = Reached(Children(q))
    BY <1>1, <1>3
  <2> QED BY <1>4, <2>1, <2>2 DEF Related, Circular
<1>9. (ListedOnce' <=> ListedOnce) /\ (RefsOnTop' <=> RefsOnTop)
  BY <1>4 DEF ListedOnce, RefsOnTop
<1>10. BoundedOnce' <=> BoundedOnce
  BY DEF BoundedOnce, Mentions
<1> QED BY <1>1, <1>3, <1>4, <1>5, <1>6, <1>7, <1>8, <1>9, <1>10

\* Once all entries are read supertrait_map is the graph on paths.
LEMMA MapIsGraph ==
  ASSUME InputTyped, Entered(Len(input.predicates))
  PROVE  /\ DOMAIN supertrait_map = EntryPaths
         /\ \A p \in EntryPaths : \A q : q \in Children(p) <=>
              \E j \in DOMAIN supertrait_map[p] : supertrait_map[p][j] = q
         /\ \A p : p \notin EntryPaths => Children(p) = {}
<1>1. DOMAIN input.predicates = 1 .. Len(input.predicates)
  BY LenProperties DEF InputTyped
<1>2. DOMAIN supertrait_map = EntryPaths
  BY <1>1 DEF Entered, EntryPaths
<1>3. ASSUME NEW p \in EntryPaths, NEW q
      PROVE  q \in Children(p) <=> \E j \in DOMAIN supertrait_map[p] : supertrait_map[p][j] = q
  <2>1. PICK k \in DOMAIN input.predicates : input.predicates[k].path = p
    BY DEF EntryPaths
  <2>2. \A l \in DOMAIN input.predicates : input.predicates[l].path = p => l = k
    BY <1>1, <2>1 DEF Entered
  <2>3. supertrait_map[p] = input.predicates[k].bounds
    BY <1>1, <2>1 DEF Entered
  <2> QED BY <2>1, <2>2, <2>3, ChildrenDef
<1>4. ASSUME NEW p, p \notin EntryPaths PROVE Children(p) = {}
  BY <1>4, ChildrenDef DEF EntryPaths
<1> QED BY <1>2, <1>3, <1>4

LEMMA OnceIfEntered ==
  ASSUME InputTyped, Entered(Len(input.predicates))
  PROVE  ListedOnce /\ BoundedOnce
<1>1. DOMAIN input.predicates = 1 .. Len(input.predicates)
  BY LenProperties DEF InputTyped
<1>2. ListedOnce
  BY <1>1 DEF Entered, ListedOnce
<1>3. BoundedOnce
  <2> SUFFICES ASSUME NEW m \in Mentions, NEW n \in Mentions,
                      input.predicates[m[1]].bounds[m[2]] = input.predicates[n[1]].bounds[n[2]]
               PROVE  m = n
    BY DEF BoundedOnce
  <2>1. PICK k \in DOMAIN input.predicates :
          \E j \in DOMAIN input.predicates[k].bounds : m = <<k, j>>
    BY DEF Mentions
  <2>2. PICK l \in DOMAIN input.predicates :
          \E h \in DOMAIN input.predicates[l].bounds : n = <<l, h>>
    BY DEF Mentions
  <2>3. PICK j \in DOMAIN input.predicates[k].bounds : m = <<k, j>>
    BY <2>1
  <2>4. PICK h \in DOMAIN input.predicates[l].bounds : n = <<l, h>>
    BY <2>2
  <2>5. k = l /\ j = h
    BY <1>1, <2>3, <2>4 DEF Entered
  <2> QED BY <2>3, <2>4, <2>5
<1> QED BY <1>2, <1>3

LEMMA ReadNext ==
  ASSUME Typed, ReadInv, Predicate
  PROVE  (Entered(i - 1) /\ ref_tokens = RefPaths(i - 1))'
<1> DEFINE entry == input.predicates[i]
<1>1. /\ Entered(i - 1) /\ ref_tokens = RefPaths(i - 1)
      /\ i \in 1 .. Len(input.predicates) /\ i \in Nat
  BY LenProperties DEF Predicate, ReadInv, Typed, InputTyped
<1>2. /\ entry.path \notin DOMAIN supertrait_map /\ ~Duplicate(entry.bounds)
      /\ specified_paths' = specified_paths \cup {entry.bounds[j] : j \in DOMAIN entry.bounds}
      /\ ref_tokens' = IF entry.ref THEN ref_tokens \cup {entry.path} ELSE ref_tokens
      /\ supertrait_map' = With(supertrait_map, entry.path, entry.bounds)
      /\ input' = input /\ i' = i + 1
  BY DEF Predicate
<1>3. \A k : k \in 1 .. i <=> k \in 1 .. (i - 1) \/ k = i
  BY <1>1
<1>4. \A k \in 1 .. (i - 1) : /\ input.predicates[k].path \in DOMAIN supertrait_map
                              /\ input.predicates[k].path # entry.path
  <2>1. DOMAIN supertrait_map = {input.predicates[k].path : k \in 1 .. (i - 1)}
    BY <1>1 DEF Entered
  <2> QED BY <1>2, <2>1
<1>5. /\ DOMAIN supertrait_map' = DOMAIN supertrait_map \cup {entry.path}
      /\ supertrait_map'[entry.path] = entry.bounds
      /\ \A p \in DOMAIN supertrait_map : supertrait_map'[p] = supertrait_map[p]
  BY <1>2 DEF With
<1>6. /\ DOMAIN supertrait_map' = {input.predicates[k].path : k \in 1 .. i}
      /\ \A k \in 1 .. i : supertrait_map'[input.predicates[k].path] = input.predicates[k].bounds
      /\ \A k, l \in 1 .. i : input.predicates[k].path = input.predicates[l].path => k = l
  <2>1. DOMAIN supertrait_map' = {input.predicates[k].path : k \in 1 .. i}
    BY <1>1, <1>3, <1>5 DEF Entered
  <2>2. ASSUME NEW k \in 1 .. i
        PROVE  supertrait_map'[input.predicates[k].path] = input.predicates[k].bounds
    <3>1. CASE k = i
      BY <1>5, <3>1
    <3>2. CASE k # i
      <4>1. k \in 1 .. (i - 1)
        BY <1>3, <3>2
      <4>2. supertrait_map[input.predicates[k].path] = input.predicates[k].bounds
        BY <1>1, <4>1 DEF Entered
      <4> QED BY <1>4, <1>5, <4>1, <4>2
    <3> QED BY <3>1, <3>2
  <2>3. ASSUME NEW k \in 1 .. i, NEW l \in 1 .. i,
               input.predicates[k].path = input.predicates[l].path
        PROVE  k = l
    BY <1>1, <1>3, <1>4, <2>3 DEF Entered
  <2> QED BY <2>1, <2>2, <2>3
<1>7. /\ \A k \in 1 .. i : \A j \in DOMAIN input.predicates[k].bounds :
           input.predicates[k].bounds[j] \in specified_paths'
      /\ \A p \in specified_paths' : \E k \in 1 .. i :
           \E j \in DOMAIN input.predicates[k].bounds : input.predicates[k].bounds[j] = p
  BY <1>1, <1>2, <1>3 DEF Entered
<1>8. /\ \A j \in DOMAIN entry.bounds : entry.bounds[j] \notin specified_paths
      /\ \A j, k \in DOMAIN entry.bounds : entry.bounds[j] = entry.bounds[k] => j = k
  <2>1. entry.bounds \in Seq(Paths)
    BY <1>1, EntryFields DEF Typed
  <2> QED BY <1>2, <2>1, NoDuplicate
<1>9. ASSUME NEW k \in 1 .. i, NEW l \in 1 .. i,
              NEW j \in DOMAIN input.predicates[k].bounds,
              NEW m \in DOMAIN input.predicates[l].bounds,
              input.predicates[k].bounds[j] = input.predicates[l].bounds[m]
       PROVE  k = l /\ j = m
  <2>1. CASE k = i /\ l = i
    BY <1>8, <1>9, <2>1
  <2>2. CASE k = i /\ l # i
    BY <1>1, <1>3, <1>8, <1>9, <2>2 DEF Entered
  <2>3. CASE k # i /\ l = i
    BY <1>1, <1>3, <1>8, <1>9, <2>3 DEF Entered
  <2>4. CASE k # i /\ l # i
    BY <1>1, <1>3, <1>9, <2>4 DEF Entered
  <2> QED BY <2>1, <2>2, <2>3, <2>4
<1>10. {input.predicates[k].path : k \in {k \in 1 .. i : input.predicates[k].ref}} =
         IF entry.ref THEN RefPaths(i - 1) \cup {entry.path} ELSE RefPaths(i - 1)
  BY <1>3 DEF RefPaths
<1>11. ref_tokens' = RefPaths(i - 1)'
  BY <1>1, <1>2, <1>10 DEF RefPaths
<1>12. (i - 1)' = i /\ i \in 0 .. Len(input.predicates)
  BY <1>1, <1>2
<1>13. Entered(i - 1)'
  BY <1>2, <1>6, <1>7, <1>9, <1>12, SMTT(30) DEF Entered
<1> QED BY <1>11, <1>13

\* After the entries are read nothing changes what was read.
LEMMA ReadKept ==
  ASSUME UNCHANGED <<input, supertrait_map, specified_paths>>,
         Entered(Len(input.predicates)), pc' # "predicates"
  PROVE  ReadInv'
<1>1. input' = input /\ supertrait_map' = supertrait_map /\ specified_paths' = specified_paths
  OBVIOUS
<1>2. Entered(Len(input.predicates))'
  BY <1>1, SMTT(30) DEF Entered
<1> QED BY <1>2 DEF ReadInv

-----------------------------------------------------------------------------
(* Ranks                                                                   *)

\* A new last position has the last rank and leaves those before it alone.
LEMMA RankOfNew ==
  ASSUME NEW n \in Nat, NEW S \in SUBSET (1 .. n)
  PROVE  /\ IsFiniteSet(S) /\ Cardinality(S) \in Nat
         /\ Cardinality(S \cup {n + 1}) = Cardinality(S) + 1
         /\ \A k \in S : Rank(S \cup {n + 1}, k) = Rank(S, k) /\ Rank(S, k) \in 1 .. Cardinality(S)
         /\ Rank(S \cup {n + 1}, n + 1) = Cardinality(S) + 1
<1>1. IsFiniteSet(1 .. n)
  BY FS_Interval
<1>2. IsFiniteSet(S) /\ Cardinality(S) \in Nat
  BY <1>1, FS_Subset, FS_CardinalityType
<1>3. n + 1 \notin S /\ \A k \in S : k \in Nat /\ k <= n
  OBVIOUS
<1>4. Cardinality(S \cup {n + 1}) = Cardinality(S) + 1
  BY <1>2, <1>3, FS_AddElement
<1>5. ASSUME NEW k \in S
      PROVE  Rank(S \cup {n + 1}, k) = Rank(S, k) /\ Rank(S, k) \in 1 .. Cardinality(S)
  <2> DEFINE upto == {j \in S : j <= k}
  <2>1. {j \in S \cup {n + 1} : j <= k} = upto
    BY <1>3
  <2>2. upto \subseteq S /\ {k} \subseteq upto
    BY <1>3
  <2> HIDE DEF upto
  <2>3. IsFiniteSet(upto) /\ Cardinality(upto) \in Nat /\ Cardinality(upto) <= Cardinality(S)
    BY <1>2, <2>2, FS_Subset, FS_CardinalityType
  <2>4. Cardinality({k}) = 1 /\ Cardinality({k}) <= Cardinality(upto)
    BY <2>2, <2>3, FS_Singleton, FS_Subset
  <2>5. Cardinality(upto) \in 1 .. Cardinality(S)
    BY <1>2, <2>3, <2>4
  <2> QED BY <2>1, <2>5 DEF Rank, upto
<1>6. {j \in S \cup {n + 1} : j <= n + 1} = S \cup {n + 1}
  <2>1. \A j \in S \cup {n + 1} : j <= n + 1
    BY <1>3
  <2> QED BY <2>1, Zenon
<1>7. Rank(S \cup {n + 1}, n + 1) = Cardinality(S) + 1
  BY <1>4, <1>6 DEF Rank
<1> QED BY <1>2, <1>4, <1>5, <1>7

-----------------------------------------------------------------------------
(* Walking the supertraits                                                 *)

\* The calls are for the bounds of the trait, each of them once.
LEMMA CallsAreChildren ==
  ASSUME Typed, Entered(Len(input.predicates)), NEW call \in Call, call.depth <= Stack
  PROVE  /\ \A q : q \in Children(call.path) <=> \E j \in DOMAIN Calls(call) : Calls(call)[j].path = q
         /\ \A j \in DOMAIN Calls(call) : Calls(call)[j].parent = call.path
         /\ \A j, k \in DOMAIN Calls(call) : Calls(call)[j].path = Calls(call)[k].path => j = k
<1>1. InputTyped
  BY DEF Typed
<1>2. CASE call.path \in EntryPaths
  <2>1. call.path \in DOMAIN supertrait_map
    BY <1>1, <1>2, MapIsGraph
  <2>2. /\ DOMAIN Calls(call) = DOMAIN supertrait_map[call.path]
        /\ \A j \in DOMAIN Calls(call) : /\ Calls(call)[j].path = supertrait_map[call.path][j]
                                        /\ Calls(call)[j].parent = call.path
    BY <2>1, CallsTyped
  <2>3. \A q : q \in Children(call.path) <=>
                 \E j \in DOMAIN supertrait_map[call.path] : supertrait_map[call.path][j] = q
    BY <1>1, <1>2, MapIsGraph
  <2>4. \A j, k \in DOMAIN supertrait_map[call.path] :
          supertrait_map[call.path][j] = supertrait_map[call.path][k] => j = k
    <3>1. DOMAIN input.predicates = 1 .. Len(input.predicates)
      BY <1>1, LenProperties DEF InputTyped
    <3>2. PICK n \in 1 .. Len(input.predicates) : input.predicates[n].path = call.path
      BY <1>2, <3>1 DEF EntryPaths
    <3>3. supertrait_map[call.path] = input.predicates[n].bounds
      BY <3>2 DEF Entered
    <3> QED BY <3>3 DEF Entered
  <2> QED BY <2>2, <2>3, <2>4
<1>3. CASE call.path \notin EntryPaths
  <2>1. Children(call.path) = {} /\ call.path \notin DOMAIN supertrait_map
    BY <1>1, <1>3, MapIsGraph
  <2>2. Calls(call) = <<>>
    BY <2>1 DEF Calls
  <2> QED BY <2>1, <2>2
<1> QED BY <1>2, <1>3

\* A call of graph_subtables puts the bounds of its path in its place.
LEMMA PendingAfter ==
  ASSUME Typed, Entered(Len(input.predicates)), Graph
  PROVE  /\ Head(todo).path \in Pending
         /\ Pending \subseteq Pending' \cup {Head(todo).path}
         /\ Children(Head(todo).path) \subseteq Pending'
         /\ Pending' \subseteq Pending \cup Children(Head(todo).path)
         /\ \A c \in PendingCalls' :
              \/ c \in PendingCalls
              \/ c.path \in Children(Head(todo).path) /\ c.depth = Head(todo).depth + 1
<1> DEFINE call == Head(todo)
<1>1. /\ call \in Call /\ Tail(todo) \in Seq(Call) /\ call.depth <= Stack
      /\ todo \in Seq(Call) /\ todo # <<>> /\ Len(Tail(todo)) = Len(todo) - 1
      /\ todo' = Calls(call) \o Tail(todo) /\ InputTyped
  BY HeadTailProperties DEF Graph, Typed
<1>2. /\ Len(todo) \in Nat \ {0} /\ DOMAIN todo = 1 .. Len(todo) /\ call = todo[1]
      /\ \A k \in 1 .. Len(Tail(todo)) : Tail(todo)[k] = todo[k + 1]
  BY <1>1, EmptySeq, LenProperties
<1>3. Calls(call) \in Seq(Call)
  BY <1>1, CallsTyped DEF Typed
<1>4. /\ Len(Calls(call)) \in Nat /\ DOMAIN Calls(call) = 1 .. Len(Calls(call))
      /\ Len(todo') = Len(Calls(call)) + Len(Tail(todo)) /\ DOMAIN todo' = 1 .. Len(todo')
      /\ \A k \in 1 .. Len(Calls(call)) + Len(Tail(todo)) :
           todo'[k] = IF k <= Len(Calls(call)) THEN Calls(call)[k]
                                               ELSE Tail(todo)[k - Len(Calls(call))]
  BY <1>1, <1>3, ConcatProperties, LenProperties
<1>5. \A q : q \in Children(call.path) <=> \E j \in DOMAIN Calls(call) : Calls(call)[j].path = q
  BY <1>1, CallsAreChildren
<1>6. \A j \in DOMAIN Calls(call) : Calls(call)[j].depth = call.depth + 1
  BY <1>1, <1>4, CallsTyped, EmptySeq
<1> HIDE DEF call
<1>7. ASSUME NEW k \in DOMAIN todo'
      PROVE  \/ todo'[k] \in PendingCalls
             \/ todo'[k].path \in Children(call.path) /\ todo'[k].depth = call.depth + 1
  <2>1. CASE k <= Len(Calls(call))
    <3>1. k \in DOMAIN Calls(call) /\ todo'[k] = Calls(call)[k]
      BY <1>4, <2>1
    <3> QED BY <1>5, <1>6, <3>1
  <2>2. CASE ~(k <= Len(Calls(call)))
    <3>1. /\ k - Len(Calls(call)) \in 1 .. Len(Tail(todo)) /\ Len(Tail(todo)) \in Nat
          /\ todo'[k] = Tail(todo)[k - Len(Calls(call))]
      BY <1>1, <1>2, <1>4, <2>2
    <3>2. todo'[k] = todo[k - Len(Calls(call)) + 1] /\ k - Len(Calls(call)) + 1 \in DOMAIN todo
      BY <1>1, <1>2, <3>1
    <3> QED BY <3>2 DEF PendingCalls
  <2> QED BY <2>1, <2>2
<1>8. Children(call.path) \subseteq Pending'
  <2> SUFFICES ASSUME NEW q \in Children(call.path) PROVE q \in Pending'
    OBVIOUS
  <2>1. PICK j \in DOMAIN Calls(call) : Calls(call)[j].path = q
    BY <1>5
  <2>2. j \in DOMAIN todo' /\ todo'[j] = Calls(call)[j]
    BY <1>1, <1>2, <1>4
  <2> QED BY <2>1, <2>2 DEF Pending, PendingCalls
<1>9. Pending \subseteq Pending' \cup {call.path}
  <2> SUFFICES ASSUME NEW m \in DOMAIN todo, m # 1 PROVE todo[m].path \in Pending'
    BY <1>2 DEF Pending, PendingCalls
  <2>1. /\ m - 1 \in 1 .. Len(Tail(todo)) /\ Len(Calls(call)) + (m - 1) \in DOMAIN todo'
        /\ todo'[Len(Calls(call)) + (m - 1)] = Tail(todo)[m - 1]
        /\ Tail(todo)[m - 1] = todo[m]
    BY <1>1, <1>2, <1>4
  <2> QED BY <2>1 DEF Pending, PendingCalls
<1>10. Pending' \subseteq Pending \cup Children(call.path)
  BY <1>7 DEF Pending, PendingCalls
<1>11. call.path \in Pending
  BY <1>2 DEF Pending, PendingCalls
<1> QED BY <1>7, <1>8, <1>9, <1>10, <1>11 DEF call, PendingCalls

LEMMA AncestorsFinite ==
  ASSUME InputTyped, NEW p
  PROVE  /\ IsFiniteSet(Ancestors(p)) /\ Cardinality(Ancestors(p)) \in Nat
         /\ Cardinality(Ancestors(p)) <= Cardinality(Paths)
<1>1. Ancestors(p) \in SUBSET Paths
  BY DEF Ancestors, Reached
<1> QED BY <1>1, StackAssumption, FS_Subset, FS_CardinalityType

LEMMA TopsPaths == InputTyped => Tops \in SUBSET Paths
<1> SUFFICES ASSUME InputTyped, NEW p \in Tops PROVE p \in Paths
  OBVIOUS
<1>1. PICK k \in DOMAIN input.supertraits : p = input.supertraits[k]
  BY DEF Tops, Supertraits
<1> QED BY <1>1, LenProperties, ElementOfSeq DEF InputTyped

\* Without a circle a bound has an ancestor more than the trait that lists it.
LEMMA AncestorsGrow ==
  ASSUME InputTyped, ~Circular, NEW p \in Reached(Tops), NEW q \in Children(p)
  PROVE  Cardinality(Ancestors(p)) + 1 <= Cardinality(Ancestors(q))
<1>1. Reached(Tops) \in SUBSET Paths /\ q \in Reached(Tops)
  BY TopsPaths, ReachedClosed DEF Closed
<1>2. p \in Paths /\ q \in Paths
  BY <1>1
<1>3. q \in Ancestors(q)
  BY <1>1, <1>2, ReachedStep DEF Ancestors
<1>4. Ancestors(p) \subseteq Ancestors(q)
  <2> SUFFICES ASSUME NEW x \in Ancestors(p) PROVE x \in Ancestors(q)
    OBVIOUS
  <2>1. x \in Reached(Tops) /\ p \in Reached({x}) /\ {x} \in SUBSET Paths
    BY <1>1 DEF Ancestors
  <2>2. q \in Reached({x})
    BY <2>1, ReachedClosed DEF Closed
  <2> QED BY <2>1, <2>2 DEF Ancestors
<1>5. q \notin Ancestors(p)
  <2> SUFFICES ASSUME p \in Reached({q}) PROVE FALSE
    BY DEF Ancestors
  <2>1. Children(p) \in SUBSET Paths /\ {q} \in SUBSET Paths
    BY <1>2, ChildrenPaths
  <2>2. {q} \subseteq Reached(Children(p))
    BY <2>1, ReachedClosed
  <2>3. p \in Reached(Children(p))
    BY <2>1, <2>2, ReachedFrom
  <2> QED BY <2>3 DEF Circular, Tops
<1>6. Ancestors(p) \cup {q} \in SUBSET Ancestors(q)
  BY <1>3, <1>4
<1>7. Cardinality(Ancestors(p) \cup {q}) = Cardinality(Ancestors(p)) + 1
  BY <1>5, AncestorsFinite, FS_AddElement
<1>8. Cardinality(Ancestors(p) \cup {q}) <= Cardinality(Ancestors(q))
  BY <1>6, AncestorsFinite, FS_Subset
<1> QED BY <1>7, <1>8

LEMMA WalkedGraph ==
  ASSUME Typed, Entered(Len(input.predicates)), Walked(i), Graph
  PROVE  Walked(i)'
<1> DEFINE call == Head(todo)
<1>1. /\ UNCHANGED <<input, i, ref_tokens>> /\ used' = used \cup {call.path} /\ InputTyped
      /\ todo \in Seq(Call) /\ todo # <<>>
  BY DEF Graph, Typed
<1>2. /\ call.path \in Pending /\ Pending \subseteq Pending' \cup {call.path}
      /\ Children(call.path) \subseteq Pending'
      /\ Pending' \subseteq Pending \cup Children(call.path)
      /\ \A c \in PendingCalls' :
           \/ c \in PendingCalls
           \/ c.path \in Children(call.path) /\ c.depth = call.depth + 1
  BY PendingAfter
<1>3. call \in Call /\ call \in PendingCalls /\ call.depth \in Nat
  <2>1. 1 \in DOMAIN todo /\ call = todo[1] /\ call \in Call
    BY <1>1, EmptySeq, LenProperties, HeadTailProperties
  <2> QED BY <2>1, StackAssumption DEF Call, PendingCalls
<1> HIDE DEF call
<1>4. Reached(Tops) \in SUBSET Paths /\ Closed(Reached(Tops)) /\ call.path \in Paths
  BY <1>1, <1>3, TopsPaths, ReachedClosed DEF Call
<1>5. /\ i' \in 0 .. Len(input'.supertraits)
      /\ ref_tokens' = RefPaths(Len(input.predicates))' \ Passed(i)'
      /\ Passed(i)' = Passed(i) /\ EntryPaths' = EntryPaths
  BY <1>1 DEF Walked, RefPaths, Passed, EntryPaths
<1>6. (Passed(i) \cap EntryPaths \subseteq used \cup Pending)'
  BY <1>1, <1>2, <1>5 DEF Walked
<1>7. used' \cup Pending' \subseteq Reached(Tops)
  BY <1>1, <1>2, <1>4 DEF Walked, Closed
<1>8. \A p \in used' : Children(p) \subseteq used' \cup Pending'
  BY <1>1, <1>2 DEF Walked
<1>9. (\E p \in used' : LeadsToCircle(p)) => \E p \in Pending' : LeadsToCircle(p)
  BY <1>1, <1>2, <1>4, CircleAhead DEF Walked
<1>10. ASSUME ~Circular, NEW c \in PendingCalls'
       PROVE  c.depth <= Cardinality(Ancestors(c.path))
  <2>1. CASE c \in PendingCalls
    BY <1>10, <2>1 DEF Walked
  <2>2. CASE c.path \in Children(call.path) /\ c.depth = call.depth + 1
    <3>1. call.path \in Reached(Tops) /\ call.depth <= Cardinality(Ancestors(call.path))
      BY <1>2, <1>3, <1>10 DEF Walked
    <3>2. Cardinality(Ancestors(call.path)) + 1 <= Cardinality(Ancestors(c.path))
      BY <1>1, <1>10, <2>2, <3>1, AncestorsGrow
    <3>3. Cardinality(Ancestors(call.path)) \in Nat /\ Cardinality(Ancestors(c.path)) \in Nat
      BY <1>1, AncestorsFinite
    <3> QED BY <1>3, <2>2, <3>1, <3>2, <3>3
  <2> QED BY <1>2, <2>1, <2>2
<1>11. /\ \A p : Children(p)' = Children(p)
       /\ Reached(Tops)' = Reached(Tops)
       /\ \A p : LeadsToCircle(p)' <=> LeadsToCircle(p)
       /\ \A p : Ancestors(p)' = Ancestors(p)
       /\ Circular' <=> Circular
  BY <1>1, MeaningSame
<1> QED BY <1>5, <1>6, <1>7, <1>8, <1>9, <1>10, <1>11 DEF Walked

\* A supertrait that has a dyn entry is pending; another one is passed.
LEMMA WalkedBound ==
  ASSUME Typed, Entered(Len(input.predicates)), Walked(i - 1), todo = <<>>, Bound
  PROVE  WalkInv'
<1> DEFINE path == input.supertraits[i]
           call == [parent |-> Root, path |-> path, depth |-> 1]
<1>1. /\ i \in 1 .. Len(input.supertraits) /\ InputTyped /\ UNCHANGED <<input, used>>
      /\ Len(input.supertraits) \in Nat /\ pc = "bounds"
  BY LenProperties DEF Bound, Typed, InputTyped
<1>2. /\ path \in Supertraits /\ path \in Paths /\ DOMAIN supertrait_map = EntryPaths
  BY <1>1, LenProperties, ElementOfSeq, MapIsGraph DEF InputTyped, Supertraits
<1>3. Passed(i) = Passed(i - 1) \cup {path}
  BY <1>1 DEF Passed
<1>4. PendingCalls = {} /\ Pending = {} /\ ~\E p \in used : LeadsToCircle(p)
  BY DEF PendingCalls, Pending, Walked
<1>5. /\ \A p : Children(p)' = Children(p)
      /\ Reached(Tops)' = Reached(Tops) /\ EntryPaths' = EntryPaths
      /\ \A p : LeadsToCircle(p)' <=> LeadsToCircle(p)
      /\ \A p : Ancestors(p)' = Ancestors(p)
      /\ Circular' <=> Circular
  BY <1>1, MeaningSame
<1>6. CASE path \in EntryPaths
  <2>1. /\ todo' = <<call>> /\ pc' = "graph" /\ i' = i /\ ref_tokens' = ref_tokens \ {path}
    BY <1>2, <1>6 DEF Bound
  <2>2. PendingCalls' = {call} /\ Pending' = {path}
    BY <2>1 DEF PendingCalls, Pending
  <2>3. Tops \in SUBSET Paths /\ path \in Tops
    BY <1>1, <1>2, <1>6, TopsPaths DEF Tops
  <2>4. path \in Reached(Tops)
    BY <1>1, <2>3, ReachedClosed
  <2>5. 1 <= Cardinality(Ancestors(path))
    <3>1. path \in Ancestors(path)
      BY <1>1, <1>2, <2>4, ReachedStep DEF Ancestors
    <3>2. Ancestors(path) # {}
      BY <3>1
    <3> QED BY <1>1, <3>2, AncestorsFinite, FS_EmptySet
  <2>6. /\ i' \in 0 .. Len(input'.supertraits)
        /\ ref_tokens' = RefPaths(Len(input.predicates))' \ Passed(i)'
        /\ Passed(i)' = Passed(i)
    BY <1>1, <1>3, <2>1 DEF Walked, RefPaths, Passed
  <2>7. Passed(i)' \cap EntryPaths' \subseteq used' \cup Pending'
    BY <1>1, <1>3, <1>4, <1>5, <2>2, <2>6 DEF Walked
  <2>8. used' \cup Pending' \subseteq Reached(Tops)
    BY <1>1, <2>2, <2>4 DEF Walked
  <2>9. \A p \in used' : Children(p) \subseteq used' \cup Pending'
    BY <1>1, <1>4 DEF Walked
  <2>10. \A c \in PendingCalls' : c.depth <= Cardinality(Ancestors(c.path))
    BY <2>2, <2>5
  <2>11. Walked(i)'
    BY <1>1, <1>4, <1>5, <2>6, <2>7, <2>8, <2>9, <2>10 DEF Walked
  <2> QED BY <2>1, <2>11 DEF WalkInv
<1>7. CASE path \notin EntryPaths
  <2>1. i' = i + 1 /\ UNCHANGED <<pc, ref_tokens, todo>>
    BY <1>2, <1>7 DEF Bound
  <2>2. PendingCalls' = {} /\ Pending' = {} /\ (i - 1)' = i
    BY <1>1, <1>4, <2>1 DEF PendingCalls, Pending
  <2>3. RefPaths(Len(input.predicates)) \subseteq EntryPaths
    BY <1>1, LenProperties DEF RefPaths, EntryPaths, InputTyped
  <2>4. /\ (i - 1)' \in 0 .. Len(input'.supertraits)
        /\ ref_tokens' = RefPaths(Len(input.predicates))' \ Passed(i - 1)'
        /\ Passed(i - 1)' = Passed(i)
    <3>1. Passed(i - 1)' = Passed(i) /\ RefPaths(Len(input.predicates))' = RefPaths(Len(input.predicates))
      BY <1>1, <2>2 DEF RefPaths, Passed
    <3>2. ref_tokens = RefPaths(Len(input.predicates)) \ Passed(i - 1)
      BY DEF Walked
    <3> QED BY <1>1, <1>3, <1>7, <2>1, <2>2, <2>3, <3>1, <3>2
  <2>5. Passed(i - 1)' \cap EntryPaths' \subseteq used' \cup Pending'
    BY <1>1, <1>3, <1>4, <1>5, <1>7, <2>2, <2>4 DEF Walked
  <2>6. /\ used' \cup Pending' \subseteq Reached(Tops)
        /\ \A p \in used' : Children(p) \subseteq used' \cup Pending'
    BY <1>1, <1>4, <2>2 DEF Walked
  <2>7. Walked(i - 1)'
    BY <1>1, <1>4, <1>5, <2>2, <2>4, <2>5, <2>6 DEF Walked
  <2> QED BY <1>1, <2>1, <2>7 DEF WalkInv
<1> QED BY <1>6, <1>7

\* A supertrait is passed when none of its calls is pending.
LEMMA WalkedDone ==
  ASSUME Typed, Walked(i), GraphDone
  PROVE  WalkInv'
<1>1. /\ i \in Nat /\ i' = i + 1 /\ todo = <<>> /\ pc' = "bounds"
      /\ UNCHANGED <<input, used, ref_tokens, todo>>
  BY DEF GraphDone, Typed
<1>2. (i - 1)' = i /\ PendingCalls' = PendingCalls /\ Pending' = Pending
  BY <1>1 DEF PendingCalls, Pending
<1>3. /\ \A p : Children(p)' = Children(p)
      /\ Reached(Tops)' = Reached(Tops) /\ EntryPaths' = EntryPaths
      /\ \A p : LeadsToCircle(p)' <=> LeadsToCircle(p)
      /\ \A p : Ancestors(p)' = Ancestors(p)
      /\ Circular' <=> Circular
  BY <1>1, MeaningSame
<1>4. /\ Passed(i - 1)' = Passed(i)
      /\ RefPaths(Len(input.predicates))' = RefPaths(Len(input.predicates))
  BY <1>1, <1>2 DEF RefPaths, Passed
<1>5. Walked(i - 1)'
  BY <1>1, <1>2, <1>3, <1>4 DEF Walked
<1> QED BY <1>1, <1>5 DEF WalkInv

\* The loop over the supertraits starts with nothing used.
LEMMA WalkedStart ==
  ASSUME Typed, ReadInv, PredicatesDone
  PROVE  ReadInv' /\ WalkInv'
<1>1. /\ i \in Nat \ {0} /\ i > Len(input.predicates) /\ Entered(i - 1)
      /\ ref_tokens = RefPaths(i - 1) /\ used = {} /\ todo = <<>>
      /\ pc' = "bounds" /\ i' = 1 /\ InputTyped
      /\ UNCHANGED <<input, used, ref_tokens, todo, supertrait_map, specified_paths>>
  BY DEF PredicatesDone, ReadInv, Typed
<1>2. Len(input.predicates) \in Nat /\ Len(input.supertraits) \in Nat
  BY <1>1, LenProperties DEF InputTyped
<1>3. i - 1 = Len(input.predicates)
  BY <1>1, <1>2 DEF Entered
<1>4. ReadInv'
  <2>1. Entered(Len(input.predicates))
    BY <1>1, <1>3
  <2> QED BY <1>1, <2>1, ReadKept
<1>5. (i - 1)' = 0 /\ Passed(i - 1)' = {} /\ PendingCalls' = {} /\ Pending' = {}
  BY <1>1 DEF Passed, PendingCalls, Pending
<1>6. RefPaths(Len(input.predicates))' = RefPaths(i - 1)
  BY <1>1, <1>3 DEF RefPaths
<1>7. Walked(i - 1)'
  <2>1. (i - 1)' \in 0 .. Len(input'.supertraits)
    BY <1>1, <1>2, <1>5
  <2>2. ref_tokens' = RefPaths(Len(input.predicates))' \ Passed(i - 1)'
    BY <1>1, <1>5, <1>6
  <2>3. used' = {}
    BY <1>1
  <2> QED BY <1>5, <2>1, <2>2, <2>3 DEF Walked
<1> QED BY <1>1, <1>4, <1>7 DEF WalkInv

\* The recursion is deeper than the stack only in a circle.
LEMMA OverflowCircular ==
  ASSUME Typed, Walked(i), GraphOverflows
  PROVE  Circular
<1> SUFFICES ASSUME ~Circular PROVE FALSE
  OBVIOUS
<1> DEFINE call == Head(todo)
<1>1. /\ todo \in Seq(Call) /\ todo # <<>> /\ InputTyped /\ call.depth > Stack
  BY DEF GraphOverflows, Typed
<1>2. call \in PendingCalls /\ call.depth \in Nat
  <2>1. 1 \in DOMAIN todo /\ call = todo[1] /\ call \in Call
    BY <1>1, EmptySeq, LenProperties, HeadTailProperties
  <2> QED BY <2>1, StackAssumption DEF Call, PendingCalls
<1> HIDE DEF call
<1>3. call.depth <= Cardinality(Ancestors(call.path))
  BY <1>2 DEF Walked
<1>4. /\ Cardinality(Ancestors(call.path)) \in Nat
      /\ Cardinality(Ancestors(call.path)) <= Cardinality(Paths)
      /\ Cardinality(Paths) \in Nat
  BY <1>1, AncestorsFinite, StackAssumption, FS_CardinalityType
<1> QED BY <1>1, <1>2, <1>3, <1>4, StackAssumption

\* What the checks after the loop find is what the input means.
LEMMA BoundsDecide ==
  ASSUME Typed, Entered(Len(input.predicates)), Walked(i - 1), todo = <<>>,
         i > Len(input.supertraits)
  PROVE  /\ Related <=> DOMAIN supertrait_map \subseteq used
         /\ RefsOnTop <=> ref_tokens = {}
         /\ ~Circular
<1>1. InputTyped /\ i \in Nat /\ used \subseteq Paths
  BY DEF Typed, SetsTyped
<1>2. /\ DOMAIN input.supertraits = 1 .. Len(input.supertraits) /\ Len(input.supertraits) \in Nat
      /\ DOMAIN input.predicates = 1 .. Len(input.predicates)
  BY <1>1, LenProperties DEF InputTyped
<1>3. i - 1 = Len(input.supertraits) /\ Passed(i - 1) = Supertraits
  <2>1. i - 1 = Len(input.supertraits)
    BY <1>1, <1>2 DEF Walked
  <2> QED BY <1>2, <2>1 DEF Passed, Supertraits
<1>4. PendingCalls = {} /\ Pending = {}
  BY DEF PendingCalls, Pending
<1>5. Tops \subseteq used /\ used \subseteq Reached(Tops) /\ Closed(used)
  BY <1>3, <1>4 DEF Walked, Tops, Closed
<1>6. used = Reached(Tops)
  BY <1>1, <1>5, ReachedLeast
<1>7. Related <=> DOMAIN supertrait_map \subseteq used
  BY <1>1, <1>6, MapIsGraph DEF Related, Tops
<1>8. RefsOnTop <=> ref_tokens = {}
  BY <1>2, <1>3 DEF Walked, RefsOnTop, RefPaths
<1>9. ~Circular
  <2>1. \A p \in used : p \in Paths /\ p \in Reached({p})
    BY <1>1, ReachedStep
  <2> QED BY <1>4, <1>6, <2>1 DEF Walked, Circular, LeadsToCircle, Tops
<1> QED BY <1>7, <1>8, <1>9

-----------------------------------------------------------------------------
(* The verdict                                                             *)

LEMMA VerdictStart == InputTyped /\ Start => VerdictInv
<1> SUFFICES ASSUME InputTyped, Start PROVE VerdictInv
  OBVIOUS
<1>1. i - 1 = 0 /\ Len(input.predicates) \in Nat
  BY LenProperties DEF InputTyped, Start
<1>2. Entered(i - 1) /\ ref_tokens = RefPaths(i - 1)
  BY <1>1 DEF Entered, RefPaths, Start
<1>3. ReadInv /\ WalkInv
  BY <1>2 DEF ReadInv, WalkInv, Start
<1> QED BY <1>3 DEF VerdictInv, VerdictCorrect, Start

\* Reading on, or to the first error.
LEMMA ReadStep ==
  ASSUME Typed, ReadInv, Predicate \/ PredicateListed \/ PredicateDuplicates
  PROVE  VerdictInv'
<1>1. pc = "predicates" /\ i \in 1 .. Len(input.predicates) /\ InputTyped /\ Entered(i - 1)
  <2>1. pc = "predicates" /\ i <= Len(input.predicates)
    BY DEF Predicate, PredicateListed, PredicateDuplicates
  <2>2. InputTyped /\ Len(input.predicates) \in Nat /\ i \in Nat \ {0}
    BY LenProperties DEF Typed, InputTyped
  <2> QED BY <2>1, <2>2 DEF ReadInv
<1>2. DOMAIN input.predicates = 1 .. Len(input.predicates) /\ i \in Nat
  BY <1>1, LenProperties DEF InputTyped
<1>3. input' = input
  BY DEF Predicate, PredicateListed, PredicateDuplicates
<1>4. CASE Predicate
  <2>1. pc' = "predicates" /\ used' = {} /\ todo' = <<>>
    BY <1>1, <1>4 DEF Predicate, ReadInv
  <2>2. ReadInv'
    BY <1>4, <2>1, ReadNext DEF ReadInv
  <2> QED BY <2>1, <2>2 DEF VerdictInv, WalkInv, VerdictCorrect
<1>5. CASE PredicateListed
  <2>1. pc' = "error" /\ error' = "supertrait already listed"
    BY <1>5 DEF PredicateListed, Fail
  <2>2. ~ListedOnce
    <3>1. input.predicates[i].path \in DOMAIN supertrait_map
      BY <1>5 DEF PredicateListed
    <3>2. PICK k \in 1 .. (i - 1) : input.predicates[k].path = input.predicates[i].path
      BY <1>1, <3>1 DEF Entered
    <3>3. k \in DOMAIN input.predicates /\ k # i
      BY <1>1, <1>2
    <3> QED BY <1>1, <1>2, <3>2, <3>3 DEF ListedOnce
  <2>3. ~ListedOnce'
    BY <1>3, <2>2, MeaningSame
  <2> QED BY <2>1, <2>3 DEF VerdictInv, ReadInv, WalkInv, VerdictCorrect
<1>6. CASE PredicateDuplicates
  <2> DEFINE bounds == input.predicates[i].bounds
  <2>1. pc' = "error" /\ error' = "this path is a duplicate" /\ Duplicate(bounds)
    BY <1>6 DEF PredicateDuplicates, Fail
  <2>2. ~BoundedOnce
    <3>1. ASSUME NEW k \in DOMAIN input.predicates, NEW j \in DOMAIN input.predicates[k].bounds
          PROVE  <<k, j>> \in Mentions
      BY DEF Mentions
    <3>2. bounds \in Seq(Paths)
      BY <1>1, EntryFields
    <3>3. DOMAIN bounds = 1 .. Len(bounds) /\ Len(bounds) \in Nat /\ i \in DOMAIN input.predicates
      BY <1>1, <1>2, <3>2, LenProperties
    <3>4. PICK j \in DOMAIN bounds :
            bounds[j] \in specified_paths \/ \E k \in 1 .. (j - 1) : bounds[k] = bounds[j]
      BY <2>1 DEF Duplicate
    <3>5. CASE bounds[j] \in specified_paths
      <4>1. PICK k \in 1 .. (i - 1) : \E m \in DOMAIN input.predicates[k].bounds :
                                        input.predicates[k].bounds[m] = bounds[j]
        BY <1>1, <3>5 DEF Entered
      <4>2. PICK m \in DOMAIN input.predicates[k].bounds :
              input.predicates[k].bounds[m] = bounds[j]
        BY <4>1
      <4>3. k \in DOMAIN input.predicates /\ k # i
        BY <1>1, <1>2
      <4>4. <<k, m>> \in Mentions /\ <<i, j>> \in Mentions /\ <<k, m>> # <<i, j>>
        BY <3>1, <3>3, <4>3
      <4>5. input.predicates[<<k, m>>[1]].bounds[<<k, m>>[2]] =
              input.predicates[<<i, j>>[1]].bounds[<<i, j>>[2]]
        BY <4>2
      <4> QED BY <4>4, <4>5 DEF BoundedOnce
    <3>6. CASE \E k \in 1 .. (j - 1) : bounds[k] = bounds[j]
      <4>1. PICK k \in 1 .. (j - 1) : bounds[k] = bounds[j]
        BY <3>6
      <4>2. k \in DOMAIN bounds /\ k # j
        BY <3>3
      <4>3. <<i, k>> \in Mentions /\ <<i, j>> \in Mentions /\ <<i, k>> # <<i, j>>
        BY <3>1, <3>3, <4>2
      <4>4. input.predicates[<<i, k>>[1]].bounds[<<i, k>>[2]] =
              input.predicates[<<i, j>>[1]].bounds[<<i, j>>[2]]
        BY <4>1
      <4> QED BY <4>3, <4>4 DEF BoundedOnce
    <3> QED BY <3>4, <3>5, <3>6
  <2>3. ~BoundedOnce'
    BY <1>3, <2>2, MeaningSame
  <2> QED BY <2>1, <2>3 DEF VerdictInv, ReadInv, WalkInv, VerdictCorrect
<1> QED BY <1>4, <1>5, <1>6

LEMMA VerdictStep == Typed /\ VerdictInv /\ [Next]_vars => VerdictInv'
<1> SUFFICES ASSUME Typed, VerdictInv, [Next]_vars PROVE VerdictInv'
  OBVIOUS
<1>1. ReadInv /\ WalkInv /\ VerdictCorrect /\ InputTyped
  BY DEF VerdictInv, Typed
<1>2. pc \notin {"predicates", "error"} => Entered(Len(input.predicates))
  BY <1>1 DEF ReadInv
<1>3. CASE UNCHANGED vars
  <2> USE <1>3 DEF vars
  <2>1. ReadInv'
    BY <1>1 DEF ReadInv, Entered, RefPaths
  <2>2. /\ \A p : Children(p)' = Children(p)
        /\ Reached(Tops)' = Reached(Tops) /\ EntryPaths' = EntryPaths
        /\ \A p : LeadsToCircle(p)' <=> LeadsToCircle(p)
        /\ \A p : Ancestors(p)' = Ancestors(p)
        /\ Circular' <=> Circular
        /\ ListedOnce' <=> ListedOnce
        /\ BoundedOnce' <=> BoundedOnce
        /\ Related' <=> Related
        /\ RefsOnTop' <=> RefsOnTop
    BY MeaningSame
  <2>3. PendingCalls' = PendingCalls /\ Pending' = Pending
    BY DEF PendingCalls, Pending
  <2>4. /\ RefPaths(Len(input.predicates))' = RefPaths(Len(input.predicates))
        /\ Passed(i - 1)' = Passed(i - 1) /\ Passed(i)' = Passed(i)
    BY DEF RefPaths, Passed
  <2>5. (Walked(i - 1)' <=> Walked(i - 1)) /\ (Walked(i)' <=> Walked(i))
    BY <2>2, <2>3, <2>4 DEF Walked
  <2> QED BY <1>1, <2>1, <2>2, <2>5 DEF VerdictInv, WalkInv, VerdictCorrect
<1>4. CASE Predicate \/ PredicateListed \/ PredicateDuplicates
  BY <1>1, <1>4, ReadStep
<1>5. CASE PredicatesDone
  BY <1>1, <1>5, WalkedStart DEF PredicatesDone, VerdictInv, VerdictCorrect
<1>6. CASE Bound
  <2>1. pc = "bounds" /\ pc' \in {"bounds", "graph"}
        /\ UNCHANGED <<input, supertrait_map, specified_paths>>
    BY <1>6 DEF Bound
  <2>2. WalkInv'
    BY <1>1, <1>2, <1>6, <2>1, WalkedBound DEF WalkInv
  <2>3. ReadInv'
    BY <1>2, <2>1, ReadKept
  <2> QED BY <2>1, <2>2, <2>3 DEF VerdictInv, VerdictCorrect
<1>7. CASE Graph
  <2>1. pc = "graph" /\ pc' = "graph" /\ UNCHANGED <<input, supertrait_map, specified_paths>>
    BY <1>7 DEF Graph
  <2>2. WalkInv'
    BY <1>1, <1>2, <1>7, <2>1, WalkedGraph DEF WalkInv
  <2>3. ReadInv'
    BY <1>2, <2>1, ReadKept
  <2> QED BY <2>1, <2>2, <2>3 DEF VerdictInv, VerdictCorrect
<1>8. CASE GraphDone
  <2>1. pc = "graph" /\ pc' = "bounds" /\ UNCHANGED <<input, supertrait_map, specified_paths>>
    BY <1>8 DEF GraphDone
  <2>2. WalkInv'
    BY <1>1, <1>8, <2>1, WalkedDone DEF WalkInv
  <2>3. ReadInv'
    BY <1>2, <2>1, ReadKept
  <2> QED BY <2>1, <2>2, <2>3 DEF VerdictInv, VerdictCorrect
<1>9. CASE GraphOverflows
  <2>1. pc = "graph" /\ pc' = "aborted" /\ UNCHANGED <<input, supertrait_map, specified_paths>>
    BY <1>9 DEF GraphOverflows
  <2>2. Circular'
    BY <1>1, <1>9, <2>1, OverflowCircular, MeaningSame DEF WalkInv
  <2>3. ReadInv'
    BY <1>2, <2>1, ReadKept
  <2> QED BY <2>1, <2>2, <2>3 DEF VerdictInv, VerdictCorrect, WalkInv
<1>10. CASE BoundsDone
  <2>1. /\ pc = "bounds" /\ i > Len(input.supertraits) /\ pc' \in {"naming", "error"}
        /\ UNCHANGED <<input, supertrait_map, specified_paths>>
    BY <1>10, BoundsOutcome
  <2>2. /\ Related <=> DOMAIN supertrait_map \subseteq used
        /\ RefsOnTop <=> ref_tokens = {}
        /\ ~Circular /\ ListedOnce /\ BoundedOnce
    BY <1>1, <1>2, <2>1, BoundsDecide, OnceIfEntered DEF WalkInv
  <2>3. /\ Related' <=> DOMAIN supertrait_map \subseteq used
        /\ RefsOnTop' <=> ref_tokens = {}
        /\ ~Circular' /\ ListedOnce' /\ BoundedOnce'
    BY <2>1, <2>2, MeaningSame
  <2>4. ReadInv' /\ WalkInv'
    BY <1>2, <2>1, ReadKept DEF WalkInv
  <2> QED BY <1>10, <2>1, <2>3, <2>4, BoundsOutcome DEF VerdictInv, VerdictCorrect
<1>11. CASE Name \/ NamesDone
  <2>1. /\ pc = "naming" /\ pc' \in {"naming", "ok"}
        /\ UNCHANGED <<input, supertrait_map, specified_paths>>
    BY <1>11 DEF Name, NamesDone
  <2>2. ListedOnce' /\ BoundedOnce' /\ Related' /\ RefsOnTop' /\ ~Circular'
    BY <2>1, MeaningSame DEF VerdictInv
  <2>3. ReadInv' /\ WalkInv'
    BY <1>2, <2>1, ReadKept DEF WalkInv
  <2> QED BY <2>1, <2>2, <2>3 DEF VerdictInv, VerdictCorrect
<1> QED
  BY <1>3, <1>4, <1>5, <1>6, <1>7, <1>8, <1>9, <1>10, <1>11 DEF Next

\* For any entries and supertraits, the macro accepts the legal ones only, names a rule
\* that is broken if it returns an error, and overflows its stack only in a circle.
THEOREM VerdictIsCorrect == Spec => []VerdictCorrect
<1>1. Init => Typed /\ VerdictInv
  BY InputsTyped, TypeStart, VerdictStart DEF Init
<1>2. Typed /\ VerdictInv /\ [Next]_vars => Typed' /\ VerdictInv'
  BY TypeStep, VerdictStep
<1>3. VerdictInv => VerdictCorrect
  BY DEF VerdictInv
<1> QED BY <1>1, <1>2, <1>3, PTL DEF Spec

-----------------------------------------------------------------------------
(* The graph of a subtable                                                 *)

LEMMA GraphSame ==
  ASSUME input' = input
  PROVE  /\ \A g, t : GraphOf(g, t)' <=> GraphOf(g, t)
         /\ \A g, c, t : Growing(g, c, t)' <=> Growing(g, c, t)
         /\ \A s, t : PlacedFor(s, t)' <=> PlacedFor(s, t)
         /\ \A n : TopsAmong(n)' = TopsAmong(n)
         /\ OnePathEach' <=> OnePathEach
<1>1. /\ \A p : Children(p)' = Children(p)
      /\ \A S : Reached(S)' = Reached(S)
      /\ EntryPaths' = EntryPaths /\ Supertraits' = Supertraits
  BY MeaningSame
<1>2. \A n : TopsAmong(n)' = TopsAmong(n)
  BY <1>1 DEF TopsAmong
<1>3. OnePathEach' <=> OnePathEach
  BY <1>1, <1>2 DEF OnePathEach, TopPositions
<1>4. ASSUME NEW g, NEW t PROVE GraphOf(g, t)' <=> GraphOf(g, t)
  BY <1>1 DEF GraphOf
<1>5. ASSUME NEW g, NEW c, NEW t PROVE Growing(g, c, t)' <=> Growing(g, c, t)
  BY <1>1 DEF Growing
<1>6. ASSUME NEW s, NEW t PROVE PlacedFor(s, t)' <=> PlacedFor(s, t)
  BY DEF PlacedFor
<1> QED BY <1>2, <1>3, <1>4, <1>5, <1>6

\* The elements of s \o t are those of s and of t.
LEMMA ConcatElements ==
  ASSUME NEW S, NEW s \in Seq(S), NEW t \in Seq(S)
  PROVE  /\ \A k \in DOMAIN (s \o t) :
              \/ k \in DOMAIN s /\ (s \o t)[k] = s[k]
              \/ k - Len(s) \in DOMAIN t /\ (s \o t)[k] = t[k - Len(s)]
         /\ \A k \in DOMAIN s : k \in DOMAIN (s \o t) /\ (s \o t)[k] = s[k]
         /\ \A k \in DOMAIN t : k + Len(s) \in DOMAIN (s \o t) /\ (s \o t)[k + Len(s)] = t[k]
<1>1. /\ Len(s) \in Nat /\ Len(t) \in Nat /\ DOMAIN s = 1 .. Len(s) /\ DOMAIN t = 1 .. Len(t)
      /\ s \o t \in Seq(S)
  BY LenProperties, ConcatProperties
<1>2. DOMAIN (s \o t) = 1 .. (Len(s) + Len(t))
  BY <1>1, ConcatProperties, LenProperties
<1>3. \A k \in 1 .. (Len(s) + Len(t)) : (s \o t)[k] = IF k <= Len(s) THEN s[k] ELSE t[k - Len(s)]
  BY ConcatProperties
<1> DEFINE u == s \o t
<1> HIDE DEF u
<1>4. \A k \in DOMAIN u : \/ k \in DOMAIN s /\ u[k] = s[k]
                          \/ k - Len(s) \in DOMAIN t /\ u[k] = t[k - Len(s)]
  BY <1>1, <1>2, <1>3 DEF u
<1>5. \A k \in DOMAIN s : k \in DOMAIN u /\ u[k] = s[k]
  BY <1>1, <1>2, <1>3 DEF u
<1>6. \A k \in DOMAIN t : k + Len(s) \in DOMAIN u /\ u[k + Len(s)] = t[k]
  <2> SUFFICES ASSUME NEW k \in DOMAIN t PROVE k + Len(s) \in DOMAIN u /\ u[k + Len(s)] = t[k]
    OBVIOUS
  <2>1. k \in 1 .. Len(t) /\ k + Len(s) \in 1 .. (Len(s) + Len(t)) /\ ~(k + Len(s) <= Len(s))
        /\ k + Len(s) - Len(s) = k
    BY <1>1
  <2> QED BY <1>2, <1>3, <2>1 DEF u
<1> QED BY <1>4, <1>5, <1>6 DEF u

LEMMA ConcatDistinct ==
  ASSUME NEW S, NEW s \in Seq(S), NEW t \in Seq(S),
         Distinct(s), Distinct(t), PathsOf(s) \cap PathsOf(t) = {}
  PROVE  Distinct(s \o t) /\ PathsOf(s \o t) = PathsOf(s) \cup PathsOf(t)
<1> DEFINE u == s \o t
<1>1. /\ \A k \in DOMAIN u : \/ k \in DOMAIN s /\ u[k] = s[k]
                             \/ k - Len(s) \in DOMAIN t /\ u[k] = t[k - Len(s)]
      /\ \A k \in DOMAIN s : k \in DOMAIN u /\ u[k] = s[k]
      /\ \A k \in DOMAIN t : k + Len(s) \in DOMAIN u /\ u[k + Len(s)] = t[k]
  BY ConcatElements
<1>2. /\ Len(s) \in Nat /\ \A k \in DOMAIN u : k \in Nat
  <2>1. u \in Seq(S)
    BY ConcatProperties
  <2> QED BY <2>1, LenProperties
<1> HIDE DEF u
<1>3. ASSUME NEW j \in DOMAIN u, NEW k \in DOMAIN u, u[j].path = u[k].path
      PROVE  j = k
  <2>1. CASE j \in DOMAIN s /\ u[j] = s[j] /\ k \in DOMAIN s /\ u[k] = s[k]
    BY <1>3, <2>1 DEF Distinct
  <2>2. CASE j \in DOMAIN s /\ u[j] = s[j] /\ k - Len(s) \in DOMAIN t /\ u[k] = t[k - Len(s)]
    BY <1>3, <2>2 DEF PathsOf
  <2>3. CASE k \in DOMAIN s /\ u[k] = s[k] /\ j - Len(s) \in DOMAIN t /\ u[j] = t[j - Len(s)]
    BY <1>3, <2>3 DEF PathsOf
  <2>4. CASE /\ k - Len(s) \in DOMAIN t /\ u[k] = t[k - Len(s)]
             /\ j - Len(s) \in DOMAIN t /\ u[j] = t[j - Len(s)]
    <3>1. k - Len(s) = j - Len(s)
      BY <1>3, <2>4 DEF Distinct
    <3> QED BY <1>2, <3>1
  <2> QED BY <1>1, <2>1, <2>2, <2>3, <2>4
<1>4. PathsOf(u) = PathsOf(s) \cup PathsOf(t)
  BY <1>1 DEF PathsOf
<1> QED BY <1>3, <1>4 DEF Distinct, u

LEMMA TailDistinct ==
  ASSUME NEW S, NEW s \in Seq(S), s # <<>>, Distinct(s)
  PROVE  /\ Distinct(Tail(s)) /\ PathsOf(Tail(s)) = PathsOf(s) \ {Head(s).path}
         /\ Head(s).path \in PathsOf(s)
         /\ \A k \in DOMAIN Tail(s) : k + 1 \in DOMAIN s /\ Tail(s)[k] = s[k + 1]
<1>1. /\ Len(s) \in Nat \ {0} /\ DOMAIN s = 1 .. Len(s) /\ Head(s) = s[1]
      /\ DOMAIN Tail(s) = 1 .. (Len(s) - 1)
      /\ \A k \in 1 .. (Len(s) - 1) : Tail(s)[k] = s[k + 1]
  BY HeadTailProperties, EmptySeq, LenProperties
<1> DEFINE t == Tail(s)
<1>2. /\ \A k \in DOMAIN t : k + 1 \in DOMAIN s /\ t[k] = s[k + 1] /\ k + 1 # 1 /\ k \in Nat
      /\ \A k \in DOMAIN s : k # 1 => k - 1 \in DOMAIN t /\ t[k - 1] = s[k]
      /\ 1 \in DOMAIN s
  BY <1>1
<1> HIDE DEF t
<1>3. Distinct(t)
  <2> SUFFICES ASSUME NEW j \in DOMAIN t, NEW k \in DOMAIN t, t[j].path = t[k].path
               PROVE  j = k
    BY DEF Distinct
  <2>1. /\ j + 1 \in DOMAIN s /\ k + 1 \in DOMAIN s
        /\ s[j + 1].path = s[k + 1].path /\ j \in Nat /\ k \in Nat
    BY <1>2
  <2>2. j + 1 = k + 1
    BY <2>1, Zenon DEF Distinct
  <2> QED BY <2>1, <2>2
<1>4. PathsOf(t) = PathsOf(s) \ {s[1].path}
  <2>1. \A k \in DOMAIN t : t[k].path \in PathsOf(s) /\ t[k].path # s[1].path
    BY <1>2 DEF Distinct, PathsOf
  <2>2. \A k \in DOMAIN s : k # 1 => s[k].path \in PathsOf(t)
    BY <1>2 DEF PathsOf
  <2> QED BY <2>1, <2>2 DEF PathsOf
<1> QED BY <1>1, <1>2, <1>3, <1>4 DEF t, PathsOf

LEMMA AppendPaths ==
  ASSUME NEW S, NEW s \in Seq(S), NEW e \in S
  PROVE  /\ PathsOf(Append(s, e)) = PathsOf(s) \cup {e.path}
         /\ Distinct(s) /\ e.path \notin PathsOf(s) => Distinct(Append(s, e))
<1> DEFINE t == Append(s, e)
<1>1. /\ Len(s) \in Nat /\ DOMAIN s = 1 .. Len(s) /\ DOMAIN t = 1 .. (Len(s) + 1)
      /\ \A k \in 1 .. Len(s) : t[k] = s[k]
      /\ t[Len(s) + 1] = e
  BY AppendProperties, LenProperties
<1> HIDE DEF t
<1>2. \A k : k \in DOMAIN t <=> k \in DOMAIN s \/ k = Len(s) + 1
  BY <1>1
<1>3. PathsOf(t) = PathsOf(s) \cup {e.path}
  BY <1>1, <1>2 DEF PathsOf
<1>4. ASSUME Distinct(s), e.path \notin PathsOf(s) PROVE Distinct(t)
  BY <1>1, <1>2, <1>4 DEF Distinct, PathsOf
<1> QED BY <1>3, <1>4 DEF t

\* No trait is a bound of two entries.
LEMMA OneEntryEach ==
  ASSUME InputTyped, Entered(Len(input.predicates)), NEW p, NEW q, NEW c,
         c \in Children(p), c \in Children(q)
  PROVE  p = q
<1>1. DOMAIN input.predicates = 1 .. Len(input.predicates)
  BY LenProperties DEF InputTyped
<1>2. PICK k \in DOMAIN input.predicates :
        /\ input.predicates[k].path = p
        /\ \E j \in DOMAIN input.predicates[k].bounds : input.predicates[k].bounds[j] = c
  BY ChildrenDef
<1>3. PICK l \in DOMAIN input.predicates :
        /\ input.predicates[l].path = q
        /\ \E j \in DOMAIN input.predicates[l].bounds : input.predicates[l].bounds[j] = c
  BY ChildrenDef
<1>4. k = l
  BY <1>1, <1>2, <1>3 DEF Entered
<1> QED BY <1>2, <1>3, <1>4

LEMMA GrowingStart ==
  ASSUME InputTyped, NEW top \in Paths
  PROVE  Growing(<<>>, <<[parent |-> Root, path |-> top, depth |-> 1]>>, top)
<1> DEFINE calls == <<[parent |-> Root, path |-> top, depth |-> 1]>>
<1>1. PathsOf(<<>>) = {} /\ Distinct(<<>>)
  BY DEF PathsOf, Distinct
<1>2. PathsOf(calls) = {top} /\ Distinct(calls)
  <2>1. DOMAIN calls = {1} /\ calls[1].path = top
    OBVIOUS
  <2> QED BY <2>1 DEF PathsOf, Distinct
<1>3. top \in Reached({top})
  BY ReachedStep
<1> QED BY <1>1, <1>2, <1>3 DEF Growing

\* A graph that no call is missing from is complete.
LEMMA GrownIsGraph ==
  ASSUME InputTyped, NEW graph, NEW top \in Paths, Growing(graph, <<>>, top)
  PROVE  GraphOf(graph, top)
<1>1. PathsOf(<<>>) = {}
  BY DEF PathsOf
<1>2. /\ Distinct(graph) /\ top \in PathsOf(graph) /\ PathsOf(graph) \subseteq Reached({top})
      /\ Closed(PathsOf(graph))
  BY <1>1 DEF Growing, Closed
<1>3. graph # <<>>
  BY <1>1, <1>2
<1>4. PathsOf(graph) = Reached({top})
  <2>1. PathsOf(graph) \in SUBSET Paths /\ {top} \subseteq PathsOf(graph)
    BY <1>2, ReachedClosed
  <2> QED BY <1>2, <2>1, ReachedLeast
<1>5. /\ graph[1] = [parent |-> Root, path |-> top]
      /\ \A g \in DOMAIN graph \ {1} :
           /\ graph[g].path \in Children(graph[g].parent)
           /\ \E h \in 1 .. (g - 1) : graph[h].path = graph[g].parent
  BY <1>3 DEF Growing
<1> QED BY <1>2, <1>4, <1>5 DEF GraphOf, Distinct, PathsOf

\* The bounds of a trait whose call is made are in neither the graph nor the calls.
LEMMA BoundsAreNew ==
  ASSUME InputTyped, Entered(Len(input.predicates)), OnePathEach, NEW top \in Supertraits,
         NEW graph \in Seq(Edge), NEW calls, Growing(graph, calls, top), NEW p \in PathsOf(calls)
  PROVE  Children(p) \cap (PathsOf(graph) \cup PathsOf(calls)) = {}
<1> SUFFICES ASSUME NEW c \in Children(p), c \in PathsOf(graph) \cup PathsOf(calls) PROVE FALSE
  OBVIOUS
<1>1. p \in EntryPaths
  BY ChildrenDef DEF EntryPaths
<1>2. c # top
  BY <1>1 DEF OnePathEach
<1>3. p \notin PathsOf(graph)
  BY DEF Growing
<1>4. \E q \in PathsOf(graph) : c \in Children(q)
  <2>1. CASE graph = <<>>
    <3>1. calls = <<[parent |-> Root, path |-> top, depth |-> 1]>> /\ PathsOf(graph) = {}
      BY <2>1 DEF Growing, PathsOf
    <3>2. DOMAIN calls = {1} /\ calls[1].path = top
      BY <3>1
    <3> QED BY <1>2, <3>1, <3>2 DEF PathsOf
  <2>2. CASE graph # <<>>
    <3>1. /\ graph[1].path = top
          /\ \A k \in DOMAIN calls :
               calls[k].parent \in PathsOf(graph) /\ calls[k].path \in Children(calls[k].parent)
          /\ \A g \in DOMAIN graph \ {1} : graph[g].path \in Children(graph[g].parent)
      BY <2>2 DEF Growing
    <3>2. ASSUME NEW g \in DOMAIN graph \ {1} PROVE graph[g].parent \in PathsOf(graph)
      <4>1. PICK h \in 1 .. (g - 1) : graph[h].path = graph[g].parent
        BY <2>2 DEF Growing
      <4>2. h \in DOMAIN graph
        BY LenProperties
      <4> QED BY <4>1, <4>2 DEF PathsOf
    <3> QED BY <1>2, <3>1, <3>2 DEF PathsOf
  <2> QED BY <2>1, <2>2
<1>5. PICK q \in PathsOf(graph) : c \in Children(q)
  BY <1>4
<1>6. p = q
  BY <1>5, OneEntryEach
<1> QED BY <1>3, <1>5, <1>6

\* A call adds its trait to the graph and puts the calls for the bounds in its place.
LEMMA GrowingCall ==
  ASSUME Typed, Entered(Len(input.predicates)), OnePathEach, NEW top \in Supertraits,
         NEW graph \in Seq(Edge), Growing(graph, todo, top), todo # <<>>, Head(todo).depth <= Stack
  PROVE  Growing(Append(graph, [parent |-> Head(todo).parent, path |-> Head(todo).path]),
                 Calls(Head(todo)) \o Tail(todo), top)
<1> DEFINE call == Head(todo)
           edge == [parent |-> call.parent, path |-> call.path]
           below == Calls(call)
           rest == Tail(todo)
           larger == Append(graph, edge)
           next == below \o rest
           G == PathsOf(graph)
           P == PathsOf(todo)
           C == Children(call.path)
           Linked ==
             /\ larger[1] = [parent |-> Root, path |-> top]
             /\ \A k \in DOMAIN next :
                  next[k].parent \in PathsOf(larger) /\ next[k].path \in Children(next[k].parent)
             /\ \A g \in DOMAIN larger \ {1} :
                  /\ larger[g].path \in Children(larger[g].parent)
                  /\ \E h \in 1 .. (g - 1) : larger[h].path = larger[g].parent
<1>1. /\ InputTyped /\ call \in Call /\ rest \in Seq(Call) /\ below \in Seq(Call)
      /\ edge \in Edge /\ todo \in Seq(Call) /\ call.path \in Paths
  <2>1. call \in Call /\ rest \in Seq(Call)
    BY HeadTailProperties DEF Typed
  <2>2. below \in Seq(Call)
    BY <2>1, CallsTyped
  <2> QED BY <2>1, <2>2 DEF Typed, Call, Edge
<1>2. /\ Distinct(graph) /\ Distinct(todo) /\ G \cap P = {}
      /\ top \in G \cup P /\ G \cup P \subseteq Reached({top})
      /\ \A p \in G : Children(p) \subseteq G \cup P
  BY DEF Growing
<1>3. Distinct(rest) /\ PathsOf(rest) = P \ {call.path} /\ call.path \in P
  BY <1>1, <1>2, TailDistinct
<1>4. /\ Distinct(below) /\ PathsOf(below) = C
      /\ \A k \in DOMAIN below : below[k].parent = call.path /\ below[k].path \in C
  <2>1. /\ \A q : q \in C <=> \E j \in DOMAIN below : below[j].path = q
        /\ \A j \in DOMAIN below : below[j].parent = call.path
        /\ \A j, k \in DOMAIN below : below[j].path = below[k].path => j = k
    BY <1>1, CallsAreChildren
  <2> HIDE DEF below, C
  <2> QED BY <2>1 DEF PathsOf, Distinct
<1>5. C \cap (G \cup P) = {}
  BY <1>1, <1>3, BoundsAreNew
<1>6. Distinct(next) /\ PathsOf(next) = C \cup (P \ {call.path})
  <2>1. PathsOf(below) \cap PathsOf(rest) = {}
    BY <1>3, <1>4, <1>5
  <2>2. Distinct(next) /\ PathsOf(next) = PathsOf(below) \cup PathsOf(rest)
    <3> HIDE DEF below, rest, call, C, P
    <3> QED BY <1>1, <1>3, <1>4, <2>1, ConcatDistinct
  <2> QED BY <1>3, <1>4, <2>2
<1>7. Distinct(larger) /\ PathsOf(larger) = G \cup {call.path}
  <2>1. edge.path = call.path /\ edge.path \notin G
    BY <1>2, <1>3
  <2> HIDE DEF edge
  <2> QED BY <1>1, <1>2, <2>1, AppendPaths
<1>8. \A k \in DOMAIN next : \/ \E j \in DOMAIN below : next[k] = below[j]
                             \/ \E j \in DOMAIN rest : next[k] = rest[j]
  <2>1. \A k \in DOMAIN next : \/ k \in DOMAIN below /\ next[k] = below[k]
                               \/ k - Len(below) \in DOMAIN rest /\ next[k] = rest[k - Len(below)]
    BY <1>1, ConcatElements
  <2> HIDE DEF next, below, rest
  <2> QED BY <2>1
<1>9. \A k \in DOMAIN rest : k + 1 \in DOMAIN todo /\ rest[k] = todo[k + 1]
  BY <1>1, <1>2, TailDistinct
<1>10. /\ Len(graph) \in Nat /\ DOMAIN graph = 1 .. Len(graph) /\ DOMAIN larger = 1 .. (Len(graph) + 1)
       /\ \A k \in 1 .. Len(graph) : larger[k] = graph[k]
       /\ larger[Len(graph) + 1] = edge
  BY <1>1, AppendProperties, LenProperties
<1>11. /\ call.path \in Reached({top}) /\ C \subseteq Reached({top})
  <2>1. PICK k \in DOMAIN input.supertraits : input.supertraits[k] = top
    BY DEF Supertraits
  <2>2. top \in Paths
    BY <1>1, <2>1, LenProperties, ElementOfSeq DEF InputTyped
  <2>3. Closed(Reached({top}))
    BY <1>1, <2>2, ReachedClosed
  <2> QED BY <1>2, <1>3, <2>3 DEF Closed
<1>12. call = todo[1] /\ 1 \in DOMAIN todo
  BY <1>1, HeadTailProperties, EmptySeq, LenProperties
<1> HIDE DEF next, larger, below, rest, call, G, P, C
<1>13. ASSUME graph = <<>> PROVE Linked
  <2>1. todo = <<[parent |-> Root, path |-> top, depth |-> 1]>> /\ Len(graph) = 0
    BY <1>13 DEF Growing
  <2>2. P = {top} /\ call.path = top /\ call.parent = Root
    <3>1. DOMAIN todo = {1} /\ todo[1].path = top /\ todo[1].parent = Root
      BY <2>1
    <3> QED BY <1>12, <3>1 DEF P, PathsOf
  <2>3. DOMAIN rest = {}
    <3>1. PathsOf(rest) = {}
      BY <1>3, <2>2
    <3> QED BY <3>1 DEF PathsOf
  <2>4. DOMAIN larger = {1} /\ larger[1] = [parent |-> Root, path |-> top]
    BY <1>10, <2>1, <2>2 DEF edge
  <2>5. /\ \A k \in DOMAIN next :
             next[k].parent \in PathsOf(larger) /\ next[k].path \in Children(next[k].parent)
        /\ \A g \in DOMAIN larger \ {1} :
             /\ larger[g].path \in Children(larger[g].parent)
             /\ \E h \in 1 .. (g - 1) : larger[h].path = larger[g].parent
    BY <1>4, <1>7, <1>8, <2>3, <2>4 DEF C
  <2> QED BY <2>4, <2>5
<1>14. ASSUME graph # <<>> PROVE Linked
  <2>1. /\ graph[1] = [parent |-> Root, path |-> top]
        /\ \A k \in DOMAIN todo :
             todo[k].parent \in G /\ todo[k].path \in Children(todo[k].parent)
        /\ \A g \in DOMAIN graph \ {1} :
             /\ graph[g].path \in Children(graph[g].parent)
             /\ \E h \in 1 .. (g - 1) : graph[h].path = graph[g].parent
    BY <1>14 DEF Growing, G
  <2>2. Len(graph) \in Nat \ {0}
    BY <1>1, <1>10, <1>14, EmptySeq
  <2>3. larger[1] = [parent |-> Root, path |-> top]
    BY <1>10, <2>1, <2>2
  <2>4. ASSUME NEW k \in DOMAIN next
        PROVE  next[k].parent \in PathsOf(larger) /\ next[k].path \in Children(next[k].parent)
    <3>1. CASE \E j \in DOMAIN below : next[k] = below[j]
      BY <1>4, <1>7, <3>1 DEF C
    <3>2. CASE \E j \in DOMAIN rest : next[k] = rest[j]
      BY <1>7, <1>9, <2>1, <3>2
    <3> QED BY <1>8, <3>1, <3>2
  <2>5. ASSUME NEW g \in DOMAIN larger \ {1}
        PROVE  /\ larger[g].path \in Children(larger[g].parent)
               /\ \E h \in 1 .. (g - 1) : larger[h].path = larger[g].parent
    <3>1. CASE g \in 1 .. Len(graph)
      <4>1. larger[g] = graph[g] /\ g \in DOMAIN graph \ {1}
        BY <1>10, <3>1
      <4>2. PICK h \in 1 .. (g - 1) : graph[h].path = graph[g].parent
        BY <2>1, <4>1
      <4>3. larger[h] = graph[h]
        BY <1>10, <3>1
      <4> QED BY <2>1, <4>1, <4>2, <4>3
    <3>2. CASE g = Len(graph) + 1
      <4>1. larger[g].path = call.path /\ larger[g].parent = call.parent
        BY <1>10, <3>2 DEF edge
      <4>2. call.parent \in G /\ call.path \in Children(call.parent)
        BY <1>12, <2>1
      <4>3. PICK h \in DOMAIN graph : graph[h].path = call.parent
        BY <4>2 DEF G, PathsOf
      <4>4. h \in 1 .. (g - 1) /\ larger[h] = graph[h]
        BY <1>10, <3>2, <4>3
      <4> QED BY <4>1, <4>2, <4>3, <4>4
    <3> QED BY <1>10, <3>1, <3>2
  <2> QED BY <2>3, <2>4, <2>5
<1>15. larger # <<>>
  BY <1>10
<1>16. PathsOf(larger) \cap PathsOf(next) = {}
  BY <1>2, <1>3, <1>5, <1>6, <1>7
<1>17. PathsOf(larger) \cup PathsOf(next) = G \cup P \cup C
  BY <1>3, <1>6, <1>7
<1>18. \A p \in PathsOf(larger) : Children(p) \subseteq G \cup P \cup C
  BY <1>2, <1>7 DEF C
<1>19. Growing(larger, next, top)
  <2>1. Linked
    BY <1>13, <1>14
  <2> QED BY <1>2, <1>6, <1>7, <1>11, <1>15, <1>16, <1>17, <1>18, <2>1 DEF Growing
<1> QED BY <1>19 DEF larger, next, below, rest, call, edge

-----------------------------------------------------------------------------
(* The subtables                                                           *)

LEMMA BuildStart == Start => BuildInv
  BY DEF Start, BuildInv

LEMMA TopsNext ==
  ASSUME NEW n \in Nat
  PROVE  /\ TopsAmong(n) \in SUBSET (1 .. n)
         /\ input.supertraits[n + 1] \in EntryPaths => TopsAmong(n + 1) = TopsAmong(n) \cup {n + 1}
         /\ input.supertraits[n + 1] \notin EntryPaths => TopsAmong(n + 1) = TopsAmong(n)
<1>1. \A k : k \in 1 .. (n + 1) <=> k \in 1 .. n \/ k = n + 1
  OBVIOUS
<1> QED BY <1>1 DEF TopsAmong

\* A subtable that is complete keeps its place.
LEMMA ExactKept ==
  ASSUME input' = input, NEW n \in Nat, ExactUpTo(n),
         \A j \in 1 .. Cardinality(TopsAmong(n)) : subtables'[j] = subtables[j]
  PROVE  ExactUpTo(n)'
<1>1. /\ \A g, t : GraphOf(g, t)' <=> GraphOf(g, t)
      /\ \A s, t : PlacedFor(s, t)' <=> PlacedFor(s, t)
      /\ \A m : TopsAmong(m)' = TopsAmong(m)
  BY GraphSame
<1>2. \A k \in TopsAmong(n) : Rank(TopsAmong(n), k) \in 1 .. Cardinality(TopsAmong(n))
  BY TopsNext, RankOfNew
<1>3. \A k \in TopsAmong(n) : subtables'[Rank(TopsAmong(n), k)] = subtables[Rank(TopsAmong(n), k)]
  BY <1>2
<1> QED BY <1>1, <1>3 DEF ExactUpTo

LEMMA BuiltKept ==
  ASSUME UNCHANGED <<input, subtables>>
  PROVE  \A n : BuiltFor(n)' <=> BuiltFor(n)
<1>1. /\ \A g, t : GraphOf(g, t)' <=> GraphOf(g, t)
      /\ \A s, t : PlacedFor(s, t)' <=> PlacedFor(s, t)
      /\ \A m : TopsAmong(m)' = TopsAmong(m)
  BY GraphSame
<1> QED BY <1>1 DEF BuiltFor, ExactUpTo

LEMMA BuildBound ==
  ASSUME Typed, Entered(Len(input.predicates)), Walked(i - 1), OnePathEach, BuiltFor(i - 1), Bound
  PROVE  BuildInv'
<1> DEFINE path == input.supertraits[i]
           new == [path |-> path, ref |-> path \in ref_tokens, graph |-> <<>>]
           n == i - 1
<1>1. /\ input' = input /\ n \in Nat /\ i = n + 1 /\ i \in 1 .. Len(input.supertraits)
      /\ InputTyped /\ path \in Paths /\ EntryPaths = DOMAIN supertrait_map
      /\ subtables \in Seq(Subtable) /\ Len(subtables) = Cardinality(TopsAmong(n))
      /\ pc = "bounds"
  BY LenProperties, ElementOfSeq, MapIsGraph DEF Typed, InputTyped, Bound, BuiltFor
<1>2. /\ \A g, c, t : Growing(g, c, t)' <=> Growing(g, c, t)
      /\ \A s, t : PlacedFor(s, t)' <=> PlacedFor(s, t)
      /\ \A m : TopsAmong(m)' = TopsAmong(m)
  BY <1>1, GraphSame
<1>3. CASE path \notin DOMAIN supertrait_map
  <2>1. pc' = "bounds" /\ i' = i + 1 /\ UNCHANGED <<input, subtables>>
    BY <1>1, <1>3 DEF Bound
  <2>2. TopsAmong(i) = TopsAmong(n)
    BY <1>1, <1>3, TopsNext
  <2>3. BuiltFor(i)
    BY <2>2 DEF BuiltFor, ExactUpTo, n
  <2>4. BuiltFor(i - 1)'
    <3>1. i' - 1 = i
      BY <1>1, <2>1
    <3>2. \A m : BuiltFor(m)' <=> BuiltFor(m)
      BY <2>1, BuiltKept
    <3> QED BY <2>3, <3>1, <3>2
  <2> QED BY <2>1, <2>4 DEF BuildInv
<1>4. CASE path \in DOMAIN supertrait_map
  <2>1. /\ subtables' = Append(subtables, new) /\ pc' = "graph" /\ i' = i
        /\ todo' = <<[parent |-> Root, path |-> path, depth |-> 1]>>
    BY <1>4 DEF Bound
  <2>2. i \in TopsAmong(i)
    BY <1>1, <1>4 DEF TopsAmong
  <2>3. /\ Len(subtables') = Len(subtables) + 1
        /\ \A j \in 1 .. Len(subtables) : subtables'[j] = subtables[j]
        /\ subtables'[Len(subtables')] = new
    <3>1. new \in Subtable
      BY <1>1, EmptySeq DEF Subtable
    <3> HIDE DEF new
    <3> QED BY <1>1, <2>1, <3>1, AppendProperties
  <2>4. ExactUpTo(i - 1)'
    <3>1. PICK m \in Nat : m = i - 1
      BY <1>1
    <3>2. ExactUpTo(m)'
      BY <1>1, <2>3, <3>1, ExactKept DEF BuiltFor
    <3> QED BY <2>1, <3>1, <3>2
  <2>5. PlacedFor(new, path)
    <3>1. path \notin Passed(n)
      <4> SUFFICES ASSUME NEW k \in 1 .. n, input.supertraits[k] = path PROVE FALSE
        BY DEF Passed
      <4>1. k \in TopPositions /\ i \in TopPositions /\ k # i
        BY <1>1, <1>4 DEF TopPositions, TopsAmong
      <4> QED BY <4>1 DEF OnePathEach
    <3>2. path \in ref_tokens <=> path \in RefPaths(Len(input.predicates))
      BY <3>1 DEF Walked
    <3>3. DOMAIN input.predicates = 1 .. Len(input.predicates)
      BY <1>1, LenProperties DEF InputTyped
    <3> QED BY <3>2, <3>3 DEF PlacedFor, RefPaths
  <2>6. Growing(<<>>, todo', path)
    BY <1>1, <2>1, GrowingStart
  <2> QED BY <1>1, <1>2, <2>1, <2>2, <2>3, <2>4, <2>5, <2>6 DEF BuildInv
<1> QED BY <1>3, <1>4

LEMMA BuildGraph ==
  ASSUME Typed, Entered(Len(input.predicates)), Walked(i), OnePathEach, BuildInv, Graph
  PROVE  BuildInv'
<1> DEFINE last == subtables[Len(subtables)]
           edge == [parent |-> Head(todo).parent, path |-> Head(todo).path]
           grown == [last EXCEPT !.graph = Append(@, edge)]
           top == input.supertraits[i]
<1>1. /\ pc = "graph" /\ pc' = "graph" /\ UNCHANGED <<input, i>>
      /\ todo # <<>> /\ Head(todo).depth <= Stack
      /\ subtables' = [subtables EXCEPT ![Len(subtables)].graph = Append(@, edge)]
      /\ todo' = Calls(Head(todo)) \o Tail(todo)
  BY DEF Graph
<1>2. /\ i \in TopsAmong(i) /\ Len(subtables) = Cardinality(TopsAmong(i - 1)) + 1
      /\ ExactUpTo(i - 1) /\ PlacedFor(last, top) /\ Growing(last.graph, todo, top)
  BY <1>1 DEF BuildInv
<1>3. PICK n \in Nat : n = i - 1
  BY DEF Typed
<1>4. Cardinality(TopsAmong(n)) \in Nat
  BY TopsNext, RankOfNew
<1>5. /\ subtables \in Seq(Subtable) /\ Len(subtables) \in Nat \ {0}
      /\ DOMAIN subtables = 1 .. Len(subtables) /\ last \in Subtable
  BY <1>2, <1>3, <1>4, LenProperties, ElementOfSeq DEF Typed
<1>6. /\ DOMAIN subtables' = DOMAIN subtables
      /\ \A j \in 1 .. Cardinality(TopsAmong(n)) : subtables'[j] = subtables[j]
      /\ subtables'[Len(subtables)] = grown
  <2>1. subtables' = [subtables EXCEPT ![Len(subtables)] = grown]
    BY <1>1
  <2>2. Len(subtables) = Cardinality(TopsAmong(n)) + 1
    BY <1>2, <1>3
  <2> HIDE DEF grown
  <2> QED BY <1>4, <1>5, <2>1, <2>2
<1>7. Len(subtables') = Len(subtables)
  <2>1. [Next]_vars
    BY DEF Next
  <2>2. subtables' \in Seq(Subtable)
    BY <2>1, TypeStep DEF Typed
  <2>3. DOMAIN subtables' = 1 .. Len(subtables') /\ Len(subtables') \in Nat
    BY <2>2, LenProperties
  <2> QED BY <1>5, <1>6, <2>3
<1>8. /\ subtables'[Len(subtables)].path = last.path
      /\ subtables'[Len(subtables)].ref = last.ref
      /\ subtables'[Len(subtables)].graph = Append(last.graph, edge)
  BY <1>5, <1>6 DEF Subtable
<1>9. ExactUpTo(n)'
  BY <1>1, <1>2, <1>3, <1>6, ExactKept
<1>10. top \in Supertraits
  <2>1. i \in DOMAIN input.supertraits
    BY <1>3, LenProperties DEF Walked, Typed, InputTyped
  <2> QED BY <2>1 DEF Supertraits
<1>11. Growing(Append(last.graph, edge), todo', top)
  <2>1. last.graph \in Seq(Edge)
    BY <1>5 DEF Subtable
  <2> HIDE DEF last, top
  <2> QED BY <1>1, <1>2, <1>10, <2>1, GrowingCall
<1>12. PlacedFor(subtables'[Len(subtables)], top)
  BY <1>2, <1>8 DEF PlacedFor
<1>13. /\ \A g, c, t : Growing(g, c, t)' <=> Growing(g, c, t)
       /\ \A s, t : PlacedFor(s, t)' <=> PlacedFor(s, t)
       /\ \A m : TopsAmong(m)' = TopsAmong(m)
  BY <1>1, GraphSame
<1> QED BY <1>1, <1>2, <1>3, <1>7, <1>8, <1>9, <1>11, <1>12, <1>13 DEF BuildInv

LEMMA BuildDone ==
  ASSUME Typed, OnePathEach, BuildInv, GraphDone
  PROVE  BuildInv'
<1> DEFINE last == subtables[Len(subtables)]
           top == input.supertraits[i]
<1>1. /\ pc = "graph" /\ pc' = "bounds" /\ i' = i + 1 /\ todo = <<>>
      /\ UNCHANGED <<input, subtables>> /\ InputTyped /\ i \in Nat
  BY DEF GraphDone, Typed
<1>2. /\ i \in TopsAmong(i) /\ Len(subtables) = Cardinality(TopsAmong(i - 1)) + 1
      /\ ExactUpTo(i - 1) /\ PlacedFor(last, top) /\ Growing(last.graph, <<>>, top)
  BY <1>1 DEF BuildInv
<1>3. top \in EntryPaths /\ top \in Paths
  <2>1. top \in EntryPaths
    BY <1>2 DEF TopsAmong
  <2>2. PICK k \in DOMAIN input.predicates : input.predicates[k].path = top
    BY <2>1 DEF EntryPaths
  <2> QED BY <1>1, <2>1, <2>2, LenProperties, EntryFields DEF InputTyped
<1>4. GraphOf(last.graph, top)
  BY <1>1, <1>2, <1>3, GrownIsGraph
<1>5. PICK n \in Nat : n = i - 1
  BY DEF Typed
<1>6. i = n + 1 /\ TopsAmong(i) = TopsAmong(n) \cup {n + 1} /\ TopsAmong(n) \in SUBSET (1 .. n)
  <2>1. i = n + 1
    BY <1>1, <1>5
  <2>2. input.supertraits[n + 1] \in EntryPaths
    BY <1>3, <2>1
  <2>3. TopsAmong(n + 1) = TopsAmong(n) \cup {n + 1} /\ TopsAmong(n) \in SUBSET (1 .. n)
    BY <2>2, TopsNext
  <2> QED BY <2>1, <2>3
<1>7. /\ Cardinality(TopsAmong(i)) = Cardinality(TopsAmong(n)) + 1
      /\ \A k \in TopsAmong(n) : Rank(TopsAmong(i), k) = Rank(TopsAmong(n), k)
      /\ Rank(TopsAmong(i), n + 1) = Cardinality(TopsAmong(n)) + 1
  BY <1>6, RankOfNew
<1>8. BuiltFor(i)
  <2>1. ASSUME NEW k \in TopsAmong(i)
        PROVE  LET sub == subtables[Rank(TopsAmong(i), k)] IN
               PlacedFor(sub, input.supertraits[k]) /\ GraphOf(sub.graph, input.supertraits[k])
    <3>1. CASE k \in TopsAmong(n)
      BY <1>2, <1>5, <1>7, <3>1 DEF ExactUpTo
    <3>2. CASE k = n + 1
      BY <1>2, <1>4, <1>5, <1>6, <1>7, <3>2
    <3> QED BY <1>6, <3>1, <3>2
  <2> QED BY <1>2, <1>5, <1>7, <2>1 DEF BuiltFor, ExactUpTo
<1>9. BuiltFor(i - 1)'
  <2>1. \A m : BuiltFor(m)' <=> BuiltFor(m)
    BY <1>1, BuiltKept
  <2> QED BY <1>1, <1>8, <2>1
<1> QED BY <1>1, <1>9 DEF BuildInv

LEMMA BuildStep == Typed /\ VerdictInv /\ BuildInv /\ [Next]_vars => BuildInv'
<1> SUFFICES ASSUME Typed, VerdictInv, BuildInv, [Next]_vars PROVE BuildInv'
  OBVIOUS
<1>0. CASE ~OnePathEach
  <2>1. input' = input
    BY DEF vars, Next, Predicate, PredicateListed, PredicateDuplicates, PredicatesDone, Bound,
           Graph, GraphOverflows, GraphDone, BoundsDone, Name, NamesDone
  <2> QED BY <1>0, <2>1, GraphSame DEF BuildInv
<1>1. /\ pc \notin {"predicates", "error"} => Entered(Len(input.predicates))
      /\ pc = "bounds" => Walked(i - 1)
      /\ pc = "graph" => Walked(i)
      /\ i \in Nat /\ Len(input.supertraits) \in Nat
  BY LenProperties DEF VerdictInv, ReadInv, WalkInv, Typed, InputTyped
<1>2. CASE OnePathEach /\ Bound
  BY <1>1, <1>2, BuildBound DEF Bound, BuildInv
<1>3. CASE OnePathEach /\ Graph
  BY <1>1, <1>3, BuildGraph DEF Graph
<1>4. CASE OnePathEach /\ GraphDone
  BY <1>4, BuildDone
<1>5. CASE OnePathEach /\ ~(Bound \/ Graph \/ GraphDone)
  <2>1. UNCHANGED <<input, subtables>>
    BY <1>5 DEF vars, Next, Predicate, PredicateListed, PredicateDuplicates, PredicatesDone,
                GraphOverflows, BoundsDone, Name, NamesDone
  <2>2. \A m : BuiltFor(m)' <=> BuiltFor(m)
    BY <2>1, BuiltKept
  <2>3. CASE UNCHANGED vars
    <3>1. UNCHANGED <<pc, i, input, subtables, todo>>
      BY <2>3 DEF vars
    <3>2. CASE pc # "graph"
      BY <1>5, <2>2, <3>1, <3>2 DEF BuildInv
    <3>3. CASE pc = "graph"
      <4>1. /\ i \in TopsAmong(i) /\ Len(subtables) = Cardinality(TopsAmong(i - 1)) + 1
            /\ ExactUpTo(i - 1)
            /\ PlacedFor(subtables[Len(subtables)], input.supertraits[i])
            /\ Growing(subtables[Len(subtables)].graph, todo, input.supertraits[i])
        BY <1>5, <3>3 DEF BuildInv
      <4>2. /\ \A g, c, t : Growing(g, c, t)' <=> Growing(g, c, t)
            /\ \A s, t : PlacedFor(s, t)' <=> PlacedFor(s, t)
            /\ \A m : TopsAmong(m)' = TopsAmong(m)
        BY <2>1, GraphSame
      <4>3. PICK n \in Nat : n = i - 1
        BY DEF Typed
      <4>4. ExactUpTo(n)'
        BY <2>1, <4>1, <4>3, ExactKept
      <4>5. ExactUpTo(i - 1)'
        BY <3>1, <4>3, <4>4
      <4> QED BY <3>1, <3>3, <4>1, <4>2, <4>5 DEF BuildInv
    <3> QED BY <3>2, <3>3
  <2>4. CASE Predicate \/ PredicateListed \/ PredicateDuplicates
    <3>1. subtables' = <<>> /\ pc' \in {"predicates", "error"}
      BY <1>5, <2>1, <2>4 DEF Predicate, PredicateListed, PredicateDuplicates, Fail, BuildInv
    <3> QED BY <3>1 DEF BuildInv
  <2>5. CASE PredicatesDone
    <3>1. pc = "predicates" /\ pc' = "bounds" /\ i' - 1 = 0 /\ subtables = <<>>
      BY <1>5, <2>5 DEF PredicatesDone, BuildInv
    <3>2. TopsAmong(0) = {}
      BY DEF TopsAmong
    <3>3. BuiltFor(0)
      BY <3>1, <3>2, FS_EmptySet DEF BuiltFor, ExactUpTo
    <3>4. BuiltFor(i - 1)'
      BY <2>2, <3>1, <3>3
    <3> QED BY <3>1, <3>4 DEF BuildInv
  <2>6. CASE GraphOverflows
    BY <2>6 DEF GraphOverflows, BuildInv
  <2>7. CASE BoundsDone
    <3>1. /\ pc = "bounds" /\ i > Len(input.supertraits) /\ pc' \in {"naming", "error"}
      BY <2>7, BoundsOutcome
    <3>2. i - 1 = Len(input.supertraits)
      BY <1>1, <3>1 DEF Walked
    <3>3. BuiltFor(Len(input.supertraits))
      BY <1>5, <3>1, <3>2 DEF BuildInv
    <3>4. BuiltFor(Len(input.supertraits))'
      BY <2>1, <2>2, <3>3
    <3> QED BY <3>1, <3>4 DEF BuildInv
  <2>8. CASE Name \/ NamesDone
    <3>1. pc = "naming" /\ pc' \in {"naming", "ok"}
      BY <2>8 DEF Name, NamesDone
    <3>2. BuiltFor(Len(input.supertraits))
      BY <1>5, <3>1 DEF BuildInv
    <3>3. BuiltFor(Len(input.supertraits))'
      BY <2>1, <2>2, <3>2
    <3> QED BY <3>1, <3>3 DEF BuildInv
  <2> QED BY <1>5, <2>3, <2>4, <2>5, <2>6, <2>7, <2>8 DEF Next
<1> QED BY <1>0, <1>2, <1>3, <1>4, <1>5

\* Whatever the entries are, an accepted trait has a subtable for each supertrait with an
\* entry, in order and behind its pointer, whose graph has all that is reached from it once
\* and after its parent.
THEOREM SubtablesAreExact == Spec => []SubtablesExact
<1>1. Init => Typed /\ VerdictInv /\ BuildInv
  BY InputsTyped, TypeStart, VerdictStart, BuildStart DEF Init
<1>2. Typed /\ VerdictInv /\ BuildInv /\ [Next]_vars => Typed' /\ VerdictInv' /\ BuildInv'
  BY TypeStep, VerdictStep, BuildStep
<1>3. BuildInv => SubtablesExact
  BY DEF BuildInv, SubtablesExact
<1> QED BY <1>1, <1>2, <1>3, PTL DEF Spec

-----------------------------------------------------------------------------
(* The names of the fields                                                 *)

\* No trait is named like another with a count behind it, as A2 is behind two traits A.
NoNameCounted == \A p, q \in Paths : \A n \in Nat : Ident[p] # Numbered(Ident[q], n)

LastSegments == {Ident[p] : p \in Paths}

\* A field has a name, or a name and a count that was reached.
FieldNamed(f) ==
  \E name \in DOMAIN used_names :
    f = name \/ \E n \in 2 .. used_names[name] : f = Numbered(name, n)

FieldNames == {fields[j] : j \in DOMAIN fields}

NamesInv ==
  /\ DOMAIN used_names \subseteq LastSegments
  /\ \A name \in DOMAIN used_names : used_names[name] \in Nat \ {0}
  /\ \A f \in FieldNames : FieldNamed(f)
  /\ FieldNamesDistinct

LEMMA NumberedOnce ==
  ASSUME NEW f \in LastSegments, NEW g \in LastSegments, NEW m \in Nat, NEW n \in Nat,
         Numbered(f, m) = Numbered(g, n)
  PROVE  f = g /\ m = n
<1>1. f \in Idents /\ g \in Idents
  BY PathsAssumption DEF LastSegments
<1>2. /\ f.stem = g.stem /\ f.digits \o <<m>> = g.digits \o <<n>>
      /\ f.digits \in Seq(0 .. 9) /\ g.digits \in Seq(0 .. 9) /\ 0 .. 9 \subseteq Nat
      /\ f = [stem |-> f.stem, digits |-> f.digits] /\ g = [stem |-> g.stem, digits |-> g.digits]
  <2>1. Numbered(f, m).stem = f.stem /\ Numbered(f, m).digits = f.digits \o <<m>>
    BY <1>1 DEF Idents, Numbered, Digits
  <2>2. Numbered(g, n).stem = g.stem /\ Numbered(g, n).digits = g.digits \o <<n>>
    BY <1>1 DEF Idents, Numbered, Digits
  <2>3. /\ f.digits \in Seq(0 .. 9) /\ g.digits \in Seq(0 .. 9)
        /\ f = [stem |-> f.stem, digits |-> f.digits] /\ g = [stem |-> g.stem, digits |-> g.digits]
    BY <1>1 DEF Idents
  <2>4. 0 .. 9 \subseteq Nat
    OBVIOUS
  <2>5. f.stem = g.stem /\ f.digits \o <<m>> = g.digits \o <<n>>
    BY <2>1, <2>2
  <2> QED BY <2>3, <2>4, <2>5
<1> DEFINE s == f.digits
           t == g.digits
<1>3. s \in Seq(Nat) /\ t \in Seq(Nat) /\ <<m>> \in Seq(Nat) /\ <<n>> \in Seq(Nat)
  <2>1. s \in Seq(Nat)
    BY <1>2, SeqMonotonic
  <2>2. t \in Seq(Nat)
    BY <1>2, SeqMonotonic
  <2> QED BY <2>1, <2>2
<1>4. /\ Len(s) \in Nat /\ Len(t) \in Nat /\ Len(<<m>>) = 1 /\ Len(<<n>>) = 1
      /\ s \o <<m>> = t \o <<n>>
  BY <1>2, <1>3, LenProperties
<1> HIDE DEF s, t
<1>5. Len(s \o <<m>>) = Len(s) + 1 /\ Len(t \o <<n>>) = Len(t) + 1
  BY <1>3, <1>4, ConcatProperties
<1>6. Len(s) = Len(t)
  BY <1>4, <1>5
<1>7. /\ \A k \in 1 .. Len(s) + 1 : (s \o <<m>>)[k] = IF k <= Len(s) THEN s[k] ELSE <<m>>[k - Len(s)]
      /\ \A k \in 1 .. Len(t) + 1 : (t \o <<n>>)[k] = IF k <= Len(t) THEN t[k] ELSE <<n>>[k - Len(t)]
  BY <1>3, <1>4, ConcatProperties
<1>8. \A k \in 1 .. Len(s) : s[k] = t[k]
  BY <1>4, <1>6, <1>7
<1>9. m = n
  <2>1. Len(s) + 1 \in 1 .. Len(s) + 1 /\ ~(Len(s) + 1 <= Len(s)) /\ (Len(s) + 1) - Len(s) = 1
    BY <1>4
  <2>2. (s \o <<m>>)[Len(s) + 1] = <<m>>[1]
    BY <1>7, <2>1
  <2>3. (t \o <<n>>)[Len(s) + 1] = <<n>>[1]
    BY <1>6, <1>7, <2>1
  <2> QED BY <1>4, <2>2, <2>3
<1>10. s = t
  BY <1>3, <1>6, <1>8, SeqEqual
<1> QED BY <1>2, <1>9, <1>10 DEF s, t

\* A name that is appended and differs from all others keeps the names distinct.
LEMMA AppendDistinct ==
  ASSUME fields \in Seq(FieldName), FieldNamesDistinct, NEW f \in FieldName,
         fields' = Append(fields, f), f \notin FieldNames
  PROVE  FieldNamesDistinct' /\ FieldNames' \subseteq FieldNames \cup {f}
<1>1. /\ Len(fields) \in Nat /\ DOMAIN fields = 1 .. Len(fields)
      /\ fields' \in Seq(FieldName) /\ Len(fields') = Len(fields) + 1
      /\ \A j \in 1 .. Len(fields) : fields'[j] = fields[j]
      /\ fields'[Len(fields) + 1] = f
  BY LenProperties, AppendProperties
<1>2. DOMAIN fields' = 1 .. Len(fields) + 1
  BY <1>1, LenProperties
<1>3. \A j \in DOMAIN fields' : j \in DOMAIN fields \/ j = Len(fields) + 1
  BY <1>1, <1>2
<1>4. FieldNamesDistinct'
  BY <1>1, <1>3 DEF FieldNamesDistinct, FieldNames
<1> QED BY <1>1, <1>3, <1>4 DEF FieldNames

LEMMA NamesStep ==
  ASSUME NoNameCounted, Typed, NamesInv, [Next]_vars
  PROVE  NamesInv'
<1>1. CASE UNCHANGED <<used_names, fields>>
  BY <1>1 DEF NamesInv, FieldNamesDistinct, FieldNamed, FieldNames
<1>2. CASE Name
  <2> DEFINE name == Ident[subtables[i].path]
             count == used_names[name] + 1
  <2>1. name \in LastSegments /\ name \in FieldName
    <3>1. i \in 1 .. Len(subtables)
      BY <1>2, LenProperties DEF Name, Typed
    <3>2. subtables[i] \in Subtable
      BY <3>1, ElementOfSeq DEF Typed
    <3>3. subtables[i].path \in Paths /\ name \in Idents /\ 0 .. 9 \subseteq Nat
      BY <3>2, PathsAssumption DEF Subtable
    <3>4. name.digits \in Seq(Nat)
      BY <3>3, SeqMonotonic DEF Idents
    <3> QED BY <3>3, <3>4 DEF LastSegments, Idents, FieldName
  <2>2. fields' = Append(fields, IF name \in DOMAIN used_names THEN Numbered(name, count) ELSE name)
    BY <1>2 DEF Name
  <2>3. /\ DOMAIN used_names' = DOMAIN used_names \cup {name}
        /\ used_names'[name] = IF name \in DOMAIN used_names THEN count ELSE 1
        /\ \A n \in DOMAIN used_names \ {name} : used_names'[n] = used_names[n]
    BY <1>2 DEF Name, With
  <2> HIDE DEF name
  <2>4. /\ DOMAIN used_names' \subseteq LastSegments
        /\ \A n \in DOMAIN used_names' : used_names'[n] \in Nat \ {0}
    BY <2>1, <2>3 DEF NamesInv
  <2>5. ASSUME NEW f, FieldNamed(f) PROVE FieldNamed(f)'
    <3>1. PICK n \in DOMAIN used_names :
            f = n \/ \E m \in 2 .. used_names[n] : f = Numbered(n, m)
      BY <2>5 DEF FieldNamed
    <3>2. n \in DOMAIN used_names' /\ used_names[n] \in Nat
      BY <2>3 DEF NamesInv
    <3>3. 2 .. used_names[n] \subseteq 2 .. used_names'[n]
      BY <2>3, <3>2
    <3> QED BY <3>1, <3>2, <3>3 DEF FieldNamed
  <2>6. CASE name \in DOMAIN used_names
    <3>1. used_names[name] \in Nat \ {0} /\ count \in Nat
      BY <2>6 DEF NamesInv
    <3>2. Numbered(name, count) \in FieldName
      <4>1. name.digits \in Seq(Nat) /\ <<count>> \in Seq(Nat)
        BY <2>1, <3>1 DEF FieldName
      <4>2. name.digits \o <<count>> \in Seq(Nat)
        BY <4>1, ConcatProperties
      <4> QED BY <2>1, <4>2 DEF Numbered, Digits, FieldName
    <3>3. ASSUME NEW f, FieldNamed(f) PROVE f # Numbered(name, count)
      <4>1. PICK n \in DOMAIN used_names :
              f = n \/ \E m \in 2 .. used_names[n] : f = Numbered(n, m)
        BY <3>3 DEF FieldNamed
      <4>2. n \in LastSegments /\ used_names[n] \in Nat
        BY DEF NamesInv
      <4>3. CASE f = n
        BY <2>1, <3>1, <4>2, <4>3 DEF NoNameCounted, LastSegments
      <4>4. CASE \E m \in 2 .. used_names[n] : f = Numbered(n, m)
        <5>1. PICK m \in 2 .. used_names[n] : f = Numbered(n, m)
          BY <4>4
        <5>2. m \in Nat /\ (n = name => m # count)
          BY <3>1, <4>2
        <5> QED BY <2>1, <3>1, <4>2, <5>1, <5>2, NumberedOnce
      <4> QED BY <4>1, <4>3, <4>4
    <3>4. ASSUME NEW f, f = Numbered(name, count) PROVE FieldNamed(f)'
      <4>1. count \in 2 .. used_names'[name] /\ name \in DOMAIN used_names'
        BY <2>3, <2>6, <3>1
      <4> QED BY <3>4, <4>1 DEF FieldNamed
    <3>5. Numbered(name, count) \notin FieldNames
      BY <3>3 DEF NamesInv
    <3>6. FieldNamesDistinct' /\ FieldNames' \subseteq FieldNames \cup {Numbered(name, count)}
      BY <2>2, <2>6, <3>2, <3>5, AppendDistinct DEF NamesInv, Typed
    <3> QED BY <2>4, <2>5, <3>4, <3>6 DEF NamesInv
  <2>7. CASE name \notin DOMAIN used_names
    <3>1. ASSUME NEW f, FieldNamed(f) PROVE f # name
      <4>1. PICK n \in DOMAIN used_names :
              f = n \/ \E m \in 2 .. used_names[n] : f = Numbered(n, m)
        BY <3>1 DEF FieldNamed
      <4>2. n \in LastSegments /\ used_names[n] \in Nat
        BY DEF NamesInv
      <4> QED BY <2>1, <2>7, <4>1, <4>2 DEF NoNameCounted, LastSegments
    <3>2. ASSUME NEW f, f = name PROVE FieldNamed(f)'
      BY <2>3, <3>2 DEF FieldNamed
    <3>3. name \notin FieldNames
      BY <3>1 DEF NamesInv
    <3>4. FieldNamesDistinct' /\ FieldNames' \subseteq FieldNames \cup {name}
      BY <2>1, <2>2, <2>7, <3>3, AppendDistinct DEF NamesInv, Typed
    <3> QED BY <2>4, <2>5, <3>2, <3>4 DEF NamesInv
  <2> QED BY <2>6, <2>7
<1> QED
  BY <1>1, <1>2
    DEF vars, Next, Predicate, PredicateListed, PredicateDuplicates, PredicatesDone, Bound, Graph,
        GraphOverflows, GraphDone, BoundsDone, NamesDone

LEMMA NamesStart == Start => NamesInv
  BY DEF Start, NamesInv, FieldNames, FieldNamesDistinct

\* The fields have different names as long as no trait is named like another with a count
\* behind it.
THEOREM NamesAreDistinct == ASSUME NoNameCounted PROVE Spec => []FieldNamesDistinct
<1>1. Init => Typed /\ NamesInv
  BY InputsTyped, TypeStart, NamesStart DEF Init
<1>2. Typed /\ NamesInv /\ [Next]_vars => Typed' /\ NamesInv'
  BY TypeStep, NamesStep
<1>3. NamesInv => FieldNamesDistinct
  BY DEF NamesInv
<1> QED BY <1>1, <1>2, <1>3, PTL DEF Spec

=============================================================================
