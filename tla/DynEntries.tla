------------------------------ MODULE DynEntries ------------------------------
(***************************************************************************)
(* The dyn entries of a where clause: strip_dyn_entries                    *)
(* (src/dyntable-macro/src/parse/dyntrait.rs) takes them out of the clause *)
(* and leaves the predicates that are rustc's.                             *)
(***************************************************************************)
EXTENDS MacroStages

VARIABLES
  where_clause,   \* the predicates that stay in the where clause
  dyn_entries     \* the dyn entries found so far

(***************************************************************************)
(* A bound is a trait, [is |-> "trait", path, hrtb, modifier], or a        *)
(* lifetime.  A where predicate `for<..> &dyn object: bounds` has its ref  *)
(* ("none", "shared", "mut", "lifetime"), hrtb, object, bounds, and the    *)
(* generic parameters it is about.  The object, a sequence of bounds, is   *)
(* empty for every type but an unparenthesised `dyn`, and for lifetimes.   *)
(***************************************************************************)
EntriesInit == where_clause = <<>> /\ dyn_entries = <<>>

-----------------------------------------------------------------------------

BoundError(bound) ==
  IF bound.is = "lifetime" THEN "dyn bound must be a trait"
  ELSE IF bound.hrtb THEN "dyn bound cannot have higher ranked trait bounds"
  ELSE IF bound.modifier THEN "dyn bound cannot have trait modifier"
  ELSE "none"

IsEntry(p) == p.object # <<>> /\ p.ref \in {"none", "shared"}

\* References with a lifetime or a mut are refused whatever they refer to.
PredicateError(p) ==
  IF p.ref = "lifetime" THEN "unexpected lifetime in ref dyn bound"
  ELSE IF p.ref = "mut" THEN "unexpected mut in ref dyn bound"
  ELSE IF ~IsEntry(p) THEN "none"
  ELSE FirstOf(<<
    IF Len(p.object) > 1 THEN "dyn bound must have exactly 1 trait" ELSE "none",
    BoundError(p.object[1]),
    IF p.hrtb THEN "dyn bound cannot have higher ranked trait bounds" ELSE "none",
    FirstOf([k \in DOMAIN p.bounds |-> BoundError(p.bounds[k])])>>)

\* Mutant: the bounds are kept as bounds, and not as the paths they name.
DynPredicateUnread(p) ==
  [path |-> p.object[1].path, ref |-> p.ref = "shared", bounds |-> p.bounds]

DynPredicate(p) ==
  [path |-> p.object[1].path, ref |-> p.ref = "shared",
   bounds |-> [k \in DOMAIN p.bounds |-> p.bounds[k].path]]

\* Mutant: a predicate that is no entry is dropped.
PredicateDropped ==
  /\ Reading("where", source.where)
  /\ ~IsEntry(source.where[pos]) /\ PredicateError(source.where[pos]) = "none"
  /\ Continue /\ UNCHANGED <<where_clause, dyn_entries>>

PredicateKept ==
  /\ Reading("where", source.where)
  /\ ~IsEntry(source.where[pos]) /\ PredicateError(source.where[pos]) = "none"
  /\ where_clause' = Append(where_clause, source.where[pos])
  /\ Continue /\ UNCHANGED dyn_entries

PredicateStripped ==
  /\ Reading("where", source.where)
  /\ IsEntry(source.where[pos]) /\ PredicateError(source.where[pos]) = "none"
  /\ dyn_entries' = Append(dyn_entries, DynPredicate(source.where[pos]))
  /\ Continue /\ UNCHANGED where_clause

PredicateMalformed ==
  /\ Reading("where", source.where)
  /\ PredicateError(source.where[pos]) # "none"
  /\ Return(PredicateError(source.where[pos])) /\ UNCHANGED <<where_clause, dyn_entries>>

StripNext == PredicateKept \/ PredicateStripped \/ PredicateMalformed
=============================================================================
