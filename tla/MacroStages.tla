----------------------------- MODULE MacroStages -----------------------------
(***************************************************************************)
(* What the parsers of #[dyntable] have in common: the macro reads its     *)
(* source in stages, each a loop over one list, and returns at the first   *)
(* error (DynTraitInfo::parse_trait, src/dyntable-macro/src/parse/mod.rs). *)
(***************************************************************************)
EXTENDS Naturals, Sequences

VARIABLES
  source,    \* the attribute's options and the parts of the trait
  stage,     \* the loop the macro is in
  pos,       \* the next element of that loop
  verdict    \* "none" so far, "accepted", "panicked", or the error returned

Reading(s, list) == stage = s /\ verdict = "none" /\ pos <= Len(list)

PastEnd(s, list) == stage = s /\ verdict = "none" /\ pos > Len(list)

Continue == pos' = pos + 1 /\ UNCHANGED <<source, stage, verdict>>

Enter(s) == stage' = s /\ pos' = 1 /\ UNCHANGED <<source, verdict>>

Return(what) == verdict' = what /\ UNCHANGED <<source, stage, pos>>

\* Checks made one after the other: the first that fails says what is returned.
FirstOf(errors) ==
  LET failed == {k \in DOMAIN errors : errors[k] # "none"} IN
  IF failed = {} THEN "none" ELSE errors[CHOOSE k \in failed : \A j \in failed : k <= j]
=============================================================================
