----------------------------- MODULE MCBorrows -----------------------------
(* One value, three references and two threads; a trait that requires nothing *)
(* with any markers added, one over it that requires Send, and one that       *)
(* requires Sync, as it is and with Send added.                               *)
EXTENDS Borrows, TLC

CONSTANTS tAny, tSend, tSync, r1, r2, r3, main, other

MCTraits == {tAny, tSend, tSync}

MCObjects == [of : {tAny}, plus : SUBSET Markers]
               \cup [of : {tSync}, plus : {{}, {"Send"}}] \cup [of : {tSend}, plus : {{}}]

MCBounds == (tAny :> {}) @@ (tSend :> {"Send"}) @@ (tSync :> {"Sync"})

MCSupers == (tAny :> {}) @@ (tSend :> {tAny}) @@ (tSync :> {tAny})

MCMarkers == {"Send", "Sync"}

Symmetry == Permutations(Refs)
=============================================================================
