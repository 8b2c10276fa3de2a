------------------------------ MODULE MCDynBox ------------------------------
(* The instance of DynBox that TLC checks: two sized values and a zero-sized one, a *)
(* boxable trait with a boxable and a non-boxable supertrait.                *)
EXTENDS DynBox, TLC

CONSTANTS vLarge, vSmall, vUnit, tSub, tSuper, tPlain

MCSize == (vLarge :> 16) @@ (vSmall :> 8) @@ (vUnit :> 0)
MCSupers == [t \in Traits |-> IF t = tSub THEN Traits ELSE {t}]
MCBoxable == {tSub, tSuper}
MCImplements == (vLarge :> Traits) @@ (vSmall :> {tSuper, tPlain}) @@ (vUnit :> Traits)
=============================================================================
