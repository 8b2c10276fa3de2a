----------------------------- MODULE TraitObject -----------------------------
(***************************************************************************)
(* What a pointer to a dyntable trait promises: it refers to a value whose *)
(* type implements the trait, an upcast changes nothing but the trait it   *)
(* is seen as, and a call of a method of the trait, or of a trait it can   *)
(* be upcast to, runs that method of the value's type.                     *)
(***************************************************************************)
CONSTANTS Traits, Methods, None

VARIABLES
  upcasts,   \* the pairs <<t, u>> where t can be upcast to u
  trait,     \* the trait the pointer is seen as
  called     \* the last call: what was asked for and what ran

vars == <<upcasts, trait, called>>

Ran(t, m) == [is |-> "method", trait |-> t, name |-> m]

Init == upcasts \subseteq Traits \X Traits /\ trait = None /\ called = None

Make == trait = None /\ trait' \in Traits /\ UNCHANGED <<upcasts, called>>

Upcast == trait # None /\ <<trait, trait'>> \in upcasts /\ UNCHANGED <<upcasts, called>>

Call ==
  /\ trait # None
  /\ \E t \in Traits, m \in Methods :
       <<trait, t>> \in upcasts /\ called' = [trait |-> t, method |-> m, ran |-> Ran(t, m)]
  /\ UNCHANGED <<upcasts, trait>>

Spec == Init /\ [][Make \/ Upcast \/ Call]_vars
=============================================================================
