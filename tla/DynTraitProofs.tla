---------------------------- MODULE DynTraitProofs ----------------------------
(***************************************************************************)
(* Theorems about DynTrait, for any sources: the verdict of the macro and  *)
(* what it has read when it accepts a trait.  What solve_subtables does    *)
(* with the entries it is given is in SubtablesProofs.                     *)
(***************************************************************************)
EXTENDS DynTrait, SubtablesProofs, WellFoundedInduction

-----------------------------------------------------------------------------
(* Checks made one after the other                                         *)

\* What a check says.
CheckResult == Messages \cup {"none"}

LEMMA MessagesAreErrors == Messages \cap {"none", "accepted", "panicked"} = {}
  BY DEF Messages

LEMMA LeastIndex ==
  ASSUME NEW S \in SUBSET Nat, S # {}
  PROVE  \E k \in S : \A j \in S : k <= j
<1>1. IsWellFoundedOn(OpToRel(<, Nat), Nat)
  BY NatLessThanWellFounded, Zenon
<1>2. PICK k \in S : \A j \in S : ~(<<j, k>> \in OpToRel(<, Nat))
  BY <1>1, WFMin, Zenon
<1>3. \A j \in S : ~(j < k)
  BY <1>2 DEF OpToRel
<1> QED BY <1>3

LEMMA FirstOfChecks ==
  ASSUME NEW errors, DOMAIN errors \subseteq Nat, \A k \in DOMAIN errors : errors[k] \in CheckResult
  PROVE  /\ FirstOf(errors) \in CheckResult
         /\ FirstOf(errors) = "none" <=> \A k \in DOMAIN errors : errors[k] = "none"
<1> DEFINE failed == {k \in DOMAIN errors : errors[k] # "none"}
<1>1. CASE failed = {}
  <2>1. \A k \in DOMAIN errors : errors[k] = "none"
    BY <1>1
  <2> QED BY <1>1, <2>1 DEF FirstOf, CheckResult
<1>2. CASE failed # {}
  <2>1. PICK least \in failed : \A j \in failed : least <= j
    BY <1>2, LeastIndex
  <2>2. (CHOOSE k \in failed : \A j \in failed : k <= j) \in failed
    BY <2>1
  <2>3. FirstOf(errors) = errors[CHOOSE k \in failed : \A j \in failed : k <= j]
    BY <1>2 DEF FirstOf
  <2>4. PICK q \in failed : FirstOf(errors) = errors[q]
    BY <2>2, <2>3
  <2> QED BY <2>4
<1> QED BY <1>1, <1>2

LEMMA FirstOfFour ==
  ASSUME NEW a \in CheckResult, NEW b \in CheckResult, NEW c \in CheckResult, NEW d \in CheckResult
  PROVE  /\ FirstOf(<<a, b, c, d>>) \in CheckResult
         /\ FirstOf(<<a, b, c, d>>) = "none" <=> a = "none" /\ b = "none" /\ c = "none" /\ d = "none"
<1> DEFINE errors == <<a, b, c, d>>
<1>1. DOMAIN errors = 1 .. 4
  OBVIOUS
<1>2. errors[1] = a /\ errors[2] = b /\ errors[3] = c /\ errors[4] = d
  OBVIOUS
<1>3. \A k \in DOMAIN errors : k = 1 \/ k = 2 \/ k = 3 \/ k = 4
  BY <1>1
<1>4. 1 \in DOMAIN errors /\ 2 \in DOMAIN errors /\ 3 \in DOMAIN errors /\ 4 \in DOMAIN errors
  BY <1>1
<1> HIDE DEF errors
<1>5. DOMAIN errors \subseteq Nat /\ \A k \in DOMAIN errors : errors[k] \in CheckResult
  BY <1>1, <1>2, <1>3
<1>6. (\A k \in DOMAIN errors : errors[k] = "none")
        <=> a = "none" /\ b = "none" /\ c = "none" /\ d = "none"
  BY <1>2, <1>3, <1>4
<1>7. FirstOf(errors) \in CheckResult /\ (FirstOf(errors) = "none" <=> \A k \in DOMAIN errors : errors[k] = "none")
  BY <1>5, FirstOfChecks
<1> QED BY <1>6, <1>7 DEF errors

LEMMA FirstOfFive ==
  ASSUME NEW a \in CheckResult, NEW b \in CheckResult, NEW c \in CheckResult, NEW d \in CheckResult,
         NEW e \in CheckResult
  PROVE  /\ FirstOf(<<a, b, c, d, e>>) \in CheckResult
         /\ FirstOf(<<a, b, c, d, e>>) = "none"
              <=> a = "none" /\ b = "none" /\ c = "none" /\ d = "none" /\ e = "none"
<1> DEFINE errors == <<a, b, c, d, e>>
<1>1. DOMAIN errors = 1 .. 5
  OBVIOUS
<1>2. errors[1] = a /\ errors[2] = b /\ errors[3] = c /\ errors[4] = d /\ errors[5] = e
  OBVIOUS
<1>3. \A k \in DOMAIN errors : k = 1 \/ k = 2 \/ k = 3 \/ k = 4 \/ k = 5
  BY <1>1
<1>4. /\ 1 \in DOMAIN errors /\ 2 \in DOMAIN errors /\ 3 \in DOMAIN errors
      /\ 4 \in DOMAIN errors /\ 5 \in DOMAIN errors
  BY <1>1
<1> HIDE DEF errors
<1>5. DOMAIN errors \subseteq Nat /\ \A k \in DOMAIN errors : errors[k] \in CheckResult
  BY <1>1, <1>2, <1>3
<1>6. (\A k \in DOMAIN errors : errors[k] = "none")
        <=> a = "none" /\ b = "none" /\ c = "none" /\ d = "none" /\ e = "none"
  BY <1>2, <1>3, <1>4
<1>7. FirstOf(errors) \in CheckResult /\ (FirstOf(errors) = "none" <=> \A k \in DOMAIN errors : errors[k] = "none")
  BY <1>5, FirstOfChecks
<1> QED BY <1>6, <1>7 DEF errors

-----------------------------------------------------------------------------
(* What the checks of an option, a predicate and an item find              *)

Known(o) ==
  \/ o.name \in {"repr", "vtable"} /\ o.is = "ident"
  \/ o.name \in {"relax_abi", "embed_layout"} /\ o.is = "bool"
  \/ o.name = "drop" /\ o.is = "ident" /\ o.value = "none"
  \/ o.name = "drop" /\ o.is = "string"

LEMMA OptionNames == DOMAIN Takes = {"repr", "relax_abi", "drop", "embed_layout", "vtable"}
  BY DEF Takes

LEMMA OptionChecked ==
  ASSUME NEW o
  PROVE  /\ OptionError(o) \in CheckResult
         /\ OptionError(o) = "none" <=> Known(o)
<1>1. OptionError(o) \in CheckResult
  BY DEF OptionError, CheckResult, Messages
<1>2. CASE o.name \notin DOMAIN Takes
  BY <1>1, <1>2, OptionNames DEF OptionError, Known
<1>3. CASE o.name \in {"repr", "vtable"}
  <2>1. o.name \in DOMAIN Takes /\ Takes[o.name] = {"ident"}
    BY <1>3 DEF Takes
  <2> QED BY <1>1, <1>3, <2>1 DEF OptionError, Known
<1>4. CASE o.name \in {"relax_abi", "embed_layout"}
  <2>1. o.name \in DOMAIN Takes /\ Takes[o.name] = {"bool"}
    BY <1>4 DEF Takes
  <2> QED BY <1>1, <1>4, <2>1 DEF OptionError, Known
<1>5. CASE o.name = "drop"
  <2>1. o.name \in DOMAIN Takes /\ Takes[o.name] = {"ident", "string"}
    BY <1>5 DEF Takes
  <2> QED BY <1>1, <1>5, <2>1 DEF OptionError, Known
<1> QED BY <1>1, <1>2, <1>3, <1>4, <1>5, OptionNames

LEMMA RangeOfConcat ==
  ASSUME NEW S, NEW s \in Seq(S), NEW t \in Seq(S)
  PROVE  RangeOf(s \o t) = RangeOf(s) \cup RangeOf(t)
<1> DEFINE all == s \o t
           m == Len(s)
           n == Len(t)
<1>1. m \in Nat /\ DOMAIN s = 1 .. m /\ n \in Nat /\ DOMAIN t = 1 .. n
  BY LenProperties
<1>2. all \in Seq(S) /\ Len(all) = m + n
  BY ConcatProperties
<1>3. DOMAIN all = 1 .. (m + n)
  BY <1>2, LenProperties
<1>4. \A k \in 1 .. (m + n) : all[k] = IF k <= m THEN s[k] ELSE t[k - m]
  BY ConcatProperties
<1>0. \A k \in 1 .. (m + n) : \A j : ~(k <= m) /\ j = k - m => all[k] = t[j]
  BY <1>4
<1> HIDE DEF all, m, n
<1>5. ASSUME NEW k \in DOMAIN all PROVE all[k] \in RangeOf(s) \cup RangeOf(t)
  <2>1. CASE k <= m
    BY <1>1, <1>3, <1>4, <1>5, <2>1 DEF RangeOf
  <2>2. CASE ~(k <= m)
    <3>1. k - m \in DOMAIN t
      BY <1>1, <1>3, <1>5, <2>2
    <3> QED BY <1>3, <1>4, <2>2, <3>1 DEF RangeOf
  <2> QED BY <2>1, <2>2
<1>6. ASSUME NEW k \in DOMAIN s PROVE k \in DOMAIN all /\ s[k] = all[k]
  BY <1>1, <1>3, <1>4
<1>7. ASSUME NEW k \in DOMAIN t PROVE k + m \in DOMAIN all /\ t[k] = all[k + m]
  <2> DEFINE h == k + m
  <2>1. h \in 1 .. (m + n) /\ ~(h <= m) /\ k = h - m
    BY <1>1
  <2> HIDE DEF h
  <2>2. h \in DOMAIN all /\ all[h] = t[k]
    BY <1>0, <1>3, <2>1, Zenon
  <2> QED BY <2>2 DEF h
<1>8. \A x : x \in RangeOf(all) => x \in RangeOf(s) \cup RangeOf(t)
  BY <1>5 DEF RangeOf
<1>9. \A x : x \in RangeOf(s) => x \in RangeOf(all)
  BY <1>6 DEF RangeOf
<1>10. \A x : x \in RangeOf(t) => x \in RangeOf(all)
  BY <1>7 DEF RangeOf
<1>11. RangeOf(all) = RangeOf(s) \cup RangeOf(t)
  BY <1>8, <1>9, <1>10
<1> QED BY <1>11 DEF all

LEMMA BoundChecked ==
  ASSUME NEW bound \in AnyBound
  PROVE  /\ BoundError(bound) \in CheckResult
         /\ BoundError(bound) = "none" <=> PlainTrait(bound)
<1>1. BoundError(bound) \in CheckResult
  BY DEF BoundError, CheckResult, Messages
<1>2. bound.is \in {"trait", "lifetime"}
  BY DEF AnyBound, TraitBound
<1>3. CASE bound.is = "lifetime"
  BY <1>1, <1>3 DEF BoundError, PlainTrait
<1>4. CASE bound.is = "trait"
  BY <1>1, <1>4 DEF BoundError, PlainTrait
<1> QED BY <1>1, <1>2, <1>3, <1>4

\* A predicate that rustc keeps, or a plain dyn entry.
PlainPredicate(p) ==
  /\ p.ref \in {"none", "shared"}
  /\ p.object # <<>> =>
       ~p.hrtb /\ Len(p.object) = 1 /\ \A b \in RangeOf(p.object \o p.bounds) : PlainTrait(b)

LEMMA PredicateFields ==
  ASSUME NEW p \in WherePredicate
  PROVE  /\ p.ref \in {"none", "shared", "mut", "lifetime"} /\ p.hrtb \in BOOLEAN
         /\ p.object \in Seq(AnyBound) /\ p.bounds \in Seq(AnyBound)
  BY DEF WherePredicate

LEMMA PredicateChecked ==
  ASSUME NEW p \in WherePredicate
  PROVE  /\ PredicateError(p) \in CheckResult
         /\ PredicateError(p) = "none" <=> PlainPredicate(p)
<1>1. CASE p.ref \in {"lifetime", "mut"}
  BY <1>1 DEF PredicateError, PlainPredicate, CheckResult, Messages
<1>2. CASE p.object = <<>> /\ p.ref \in {"none", "shared"}
  BY <1>2 DEF PredicateError, PlainPredicate, IsEntry, CheckResult
<1>3. CASE p.object # <<>> /\ p.ref \in {"none", "shared"}
  <2> DEFINE single == IF Len(p.object) > 1 THEN "dyn bound must have exactly 1 trait" ELSE "none"
             ranked == IF p.hrtb THEN "dyn bound cannot have higher ranked trait bounds" ELSE "none"
             checks == [k \in DOMAIN p.bounds |-> BoundError(p.bounds[k])]
  <2>1. /\ Len(p.object) \in Nat /\ DOMAIN p.object = 1 .. Len(p.object) /\ Len(p.object) > 0
        /\ Len(p.bounds) \in Nat /\ DOMAIN p.bounds = 1 .. Len(p.bounds)
    BY <1>3, PredicateFields, LenProperties, EmptySeq
  <2>2. p.object[1] \in AnyBound /\ \A k \in DOMAIN p.bounds : p.bounds[k] \in AnyBound
    BY <2>1, PredicateFields, ElementOfSeq
  <2>3. /\ single \in CheckResult /\ ranked \in CheckResult
        /\ BoundError(p.object[1]) \in CheckResult
    BY <2>2, BoundChecked DEF CheckResult, Messages
  <2>4. /\ FirstOf(checks) \in CheckResult
        /\ FirstOf(checks) = "none" <=> \A k \in DOMAIN p.bounds : BoundError(p.bounds[k]) = "none"
    <3>1. DOMAIN checks \subseteq Nat /\ \A k \in DOMAIN checks : checks[k] \in CheckResult
      BY <2>1, <2>2, BoundChecked
    <3> HIDE DEF checks
    <3>2. /\ FirstOf(checks) \in CheckResult
          /\ FirstOf(checks) = "none" <=> \A k \in DOMAIN checks : checks[k] = "none"
      BY <3>1, FirstOfChecks
    <3> QED BY <3>2 DEF checks
  <2>5. PredicateError(p) = FirstOf(<<single, BoundError(p.object[1]), ranked, FirstOf(checks)>>)
    BY <1>3 DEF PredicateError, IsEntry
  <2>6. /\ PredicateError(p) \in CheckResult
        /\ PredicateError(p) = "none" <=>
             /\ single = "none" /\ BoundError(p.object[1]) = "none" /\ ranked = "none"
             /\ FirstOf(checks) = "none"
    <3> HIDE DEF single, ranked, checks
    <3> QED BY <2>3, <2>4, <2>5, FirstOfFour
  <2>7. single = "none" <=> Len(p.object) = 1
    <3>1. CASE Len(p.object) = 1
      BY <3>1
    <3>2. CASE Len(p.object) # 1
      <4>1. Len(p.object) > 1
        <5>1. \A n \in Nat : n > 0 /\ n # 1 => n > 1
          OBVIOUS
        <5> QED BY <2>1, <3>2, <5>1, Zenon
      <4>2. single = "dyn bound must have exactly 1 trait"
        BY <4>1
      <4> QED BY <3>2, <4>2
    <3> QED BY <3>1, <3>2
  <2>8. ranked = "none" <=> ~p.hrtb
    OBVIOUS
  <2>9. /\ BoundError(p.object[1]) = "none" <=> PlainTrait(p.object[1])
        /\ FirstOf(checks) = "none" <=> \A k \in DOMAIN p.bounds : PlainTrait(p.bounds[k])
    BY <2>2, <2>4, BoundChecked
  <2>10. ASSUME Len(p.object) = 1
         PROVE  (\A b \in RangeOf(p.object \o p.bounds) : PlainTrait(b)) <=>
                  PlainTrait(p.object[1]) /\ \A k \in DOMAIN p.bounds : PlainTrait(p.bounds[k])
    <3>1. RangeOf(p.object \o p.bounds) = RangeOf(p.object) \cup RangeOf(p.bounds)
      BY PredicateFields, RangeOfConcat
    <3>2. RangeOf(p.object) = {p.object[1]}
      BY <2>1, <2>10 DEF RangeOf
    <3>3. (\A b \in RangeOf(p.bounds) : PlainTrait(b)) <=>
            \A k \in DOMAIN p.bounds : PlainTrait(p.bounds[k])
      BY DEF RangeOf
    <3> QED BY <3>1, <3>2, <3>3
  <2> QED BY <1>3, <2>6, <2>7, <2>8, <2>9, <2>10 DEF PlainPredicate
<1> QED BY <1>1, <1>2, <1>3, PredicateFields

LEMMA GenericChecked ==
  ASSUME NEW g \in GenericParam
  PROVE  /\ GenericError(g) \in CheckResult
         /\ GenericError(g) = "none" <=> g.kind = "lifetime" /\ ~g.bounded
<1>1. g.kind \in {"lifetime", "type", "const"} /\ g.bounded \in BOOLEAN
  BY DEF GenericParam
<1>2. CASE g.kind = "lifetime"
  BY <1>1, <1>2 DEF GenericError, CheckResult, Messages
<1>3. CASE g.kind = "type"
  <2>1. GenericError(g) = "type generics"
    BY <1>3 DEF GenericError
  <2> QED BY <1>3, <2>1 DEF CheckResult, Messages
<1>4. CASE g.kind = "const"
  <2>1. GenericError(g) = "const generics"
    BY <1>4 DEF GenericError
  <2> QED BY <1>4, <2>1 DEF CheckResult, Messages
<1> QED BY <1>1, <1>2, <1>3, <1>4

Input == {"self", "&self", "self: T", "pattern: T", "name: T", "_: T"}

LEMMA InputChecked ==
  ASSUME NEW inputs, NEW k, inputs[k] \in Input
  PROVE  /\ InputError(inputs, k) \in CheckResult
         /\ InputError(inputs, k) = "none" <=>
              \/ inputs[k] \in {"name: T", "_: T"} /\ \E j \in 1 .. (k - 1) : inputs[j] \in Receivers
              \/ inputs[k] \in Receivers /\ ~\E j \in 1 .. (k - 1) : inputs[j] \in Receivers
<1> DEFINE received == \E j \in 1 .. (k - 1) : inputs[j] \in Receivers
<1>1. CASE inputs[k] = "self: T"
  <2>1. InputError(inputs, k) = "self must use implicit type syntax"
    BY <1>1 DEF InputError, Receivers
  <2> QED BY <1>1, <2>1 DEF CheckResult, Messages, Receivers
<1>2. CASE inputs[k] = "pattern: T"
  <2>1. InputError(inputs, k) = "patterns are not supported"
    BY <1>2 DEF InputError, Receivers
  <2> QED BY <1>2, <2>1 DEF CheckResult, Messages, Receivers
<1>3. CASE inputs[k] \in {"name: T", "_: T"}
  <2>1. InputError(inputs, k) = IF received THEN "none" ELSE "first parameter must be self"
    BY <1>3 DEF InputError, Receivers
  <2> HIDE DEF received
  <2>2. inputs[k] \notin Receivers
    BY <1>3 DEF Receivers
  <2>3. InputError(inputs, k) \in CheckResult /\ (InputError(inputs, k) = "none" <=> received)
    BY <2>1 DEF CheckResult, Messages
  <2> QED BY <1>3, <2>2, <2>3 DEF received
<1>4. CASE inputs[k] \in Receivers
  <2>1. InputError(inputs, k) = IF received THEN "self is bound more than once" ELSE "none"
    BY <1>4 DEF InputError, Receivers
  <2> HIDE DEF received
  <2>2. inputs[k] \notin {"name: T", "_: T"}
    BY <1>4 DEF Receivers
  <2>3. InputError(inputs, k) \in CheckResult /\ (InputError(inputs, k) = "none" <=> ~received)
    BY <2>1 DEF CheckResult, Messages
  <2> QED BY <1>4, <2>2, <2>3 DEF received
<1> QED BY <1>1, <1>2, <1>3, <1>4 DEF Input, Receivers

\* The first input is the receiver, and the others are none.
LEMMA InputsChecked ==
  ASSUME NEW inputs \in Seq(Input)
  PROVE  /\ FirstOf([k \in DOMAIN inputs |-> InputError(inputs, k)]) \in CheckResult
         /\ inputs # <<>> =>
              (FirstOf([k \in DOMAIN inputs |-> InputError(inputs, k)]) = "none" <=>
                 /\ inputs[1] \in Receivers
                 /\ \A k \in DOMAIN inputs \ {1} : inputs[k] \in {"name: T", "_: T"})
<1> DEFINE checks == [k \in DOMAIN inputs |-> InputError(inputs, k)]
           First(k) == \E j \in 1 .. (k - 1) : inputs[j] \in Receivers
<1>1. DOMAIN inputs = 1 .. Len(inputs) /\ Len(inputs) \in Nat
  BY LenProperties
<1>2. \A k \in DOMAIN inputs : inputs[k] \in Input
  BY <1>1, ElementOfSeq
<1>3. \A k \in DOMAIN inputs :
        /\ InputError(inputs, k) \in CheckResult
        /\ InputError(inputs, k) = "none" <=>
             \/ inputs[k] \in {"name: T", "_: T"} /\ First(k)
             \/ inputs[k] \in Receivers /\ ~First(k)
  BY <1>2, InputChecked
<1>4. /\ FirstOf(checks) \in CheckResult
      /\ FirstOf(checks) = "none" <=> \A k \in DOMAIN inputs : InputError(inputs, k) = "none"
  <2>1. DOMAIN checks = DOMAIN inputs /\ \A k \in DOMAIN checks : checks[k] = InputError(inputs, k)
    OBVIOUS
  <2> HIDE DEF checks, First
  <2>2. /\ FirstOf(checks) \in CheckResult
        /\ FirstOf(checks) = "none" <=> \A k \in DOMAIN checks : checks[k] = "none"
    <3>1. DOMAIN checks \subseteq Nat
      BY <1>1, <2>1
    <3>2. \A k \in DOMAIN checks : checks[k] \in CheckResult
      BY <1>3, <2>1
    <3> QED BY <3>1, <3>2, FirstOfChecks
  <2> QED BY <2>1, <2>2 DEF checks
<1>5. ~First(1)
  OBVIOUS
<1>6. \A k \in DOMAIN inputs : k # 1 => 1 \in 1 .. (k - 1)
  BY <1>1
<1>7. \A k \in DOMAIN inputs : k # 1 /\ inputs[1] \in Receivers => First(k)
  BY <1>6
<1> HIDE DEF First
<1>8. ASSUME inputs # <<>>
      PROVE  (\A k \in DOMAIN inputs : InputError(inputs, k) = "none") <=>
               /\ inputs[1] \in Receivers
               /\ \A k \in DOMAIN inputs \ {1} : inputs[k] \in {"name: T", "_: T"}
  <2>1. 1 \in DOMAIN inputs
    BY <1>1, <1>8, EmptySeq
  <2>2. InputError(inputs, 1) = "none" <=> inputs[1] \in Receivers
    BY <1>3, <1>5, <2>1
  <2>3. ASSUME inputs[1] \in Receivers, NEW k \in DOMAIN inputs \ {1}
        PROVE  InputError(inputs, k) = "none" <=> inputs[k] \in {"name: T", "_: T"}
    BY <1>3, <1>7, <2>3
  <2> QED BY <2>1, <2>2, <2>3
<1> QED BY <1>4, <1>8

LEMMA MethodFields ==
  ASSUME NEW item \in Item, item.is = "fn"
  PROVE  /\ item \in Method /\ item.variadic \in BOOLEAN /\ item.where \in BOOLEAN
         /\ item.unsafe \in BOOLEAN /\ item.name \in STRING /\ item.abi \in STRING
         /\ item.mentions \in SUBSET STRING
         /\ item.inputs \in Seq(Input) /\ item.generics \in Seq(GenericParam)
<1>1. item \in Method
  BY DEF Item
<1> QED BY <1>1 DEF Method, Input

LEMMA GenericsChecked ==
  ASSUME NEW generics \in Seq(GenericParam)
  PROVE  /\ FirstOf([k \in DOMAIN generics |-> GenericError(generics[k])]) \in CheckResult
         /\ FirstOf([k \in DOMAIN generics |-> GenericError(generics[k])]) = "none" <=>
              \A g \in RangeOf(generics) : g.kind = "lifetime" /\ ~g.bounded
<1> DEFINE checks == [k \in DOMAIN generics |-> GenericError(generics[k])]
<1>1. DOMAIN generics = 1 .. Len(generics) /\ Len(generics) \in Nat
  BY LenProperties
<1>2. \A k \in DOMAIN generics : generics[k] \in GenericParam
  BY <1>1, ElementOfSeq
<1>3. DOMAIN checks = DOMAIN generics
        /\ \A k \in DOMAIN checks : checks[k] = GenericError(generics[k])
  OBVIOUS
<1> HIDE DEF checks
<1>4. DOMAIN checks \subseteq Nat /\ \A k \in DOMAIN checks : checks[k] \in CheckResult
  BY <1>1, <1>2, <1>3, GenericChecked
<1>5. /\ FirstOf(checks) \in CheckResult
      /\ FirstOf(checks) = "none" <=> \A k \in DOMAIN checks : checks[k] = "none"
  BY <1>4, FirstOfChecks
<1>6. (\A k \in DOMAIN checks : checks[k] = "none")
        <=> \A k \in DOMAIN generics : generics[k].kind = "lifetime" /\ ~generics[k].bounded
  BY <1>2, <1>3, GenericChecked
<1>7. (\A g \in RangeOf(generics) : g.kind = "lifetime" /\ ~g.bounded)
        <=> \A k \in DOMAIN generics : generics[k].kind = "lifetime" /\ ~generics[k].bounded
  BY DEF RangeOf
<1> QED BY <1>5, <1>6, <1>7 DEF checks

\* A method with an implicit receiver, plain parameters and plain lifetimes.
PlainMethod(item) ==
  /\ item.is = "fn" /\ ~item.variadic /\ ~item.where
  /\ item.inputs # <<>> /\ item.inputs[1] \in Receivers
  /\ \A k \in DOMAIN item.inputs \ {1} : item.inputs[k] \in {"name: T", "_: T"}
  /\ \A g \in RangeOf(item.generics) : g.kind = "lifetime" /\ ~g.bounded

LEMMA ItemChecked ==
  ASSUME NEW item \in Item
  PROVE  /\ ItemError(item) \in CheckResult
         /\ ItemError(item) = "none" <=> PlainMethod(item)
<1>1. CASE item.is # "fn"
  BY <1>1 DEF ItemError, PlainMethod, CheckResult, Messages
<1>2. CASE item.is = "fn"
  <2> DEFINE variadic == IF item.variadic THEN "variadics are not supported" ELSE "none"
             where == IF item.where THEN "where clauses cannot be specified for functions" ELSE "none"
             generics == FirstOf([k \in DOMAIN item.generics |-> GenericError(item.generics[k])])
             inputs == FirstOf([k \in DOMAIN item.inputs |-> InputError(item.inputs, k)])
             self == IF item.inputs = <<>> THEN "missing required self parameter" ELSE "none"
  <2>1. ItemError(item) = FirstOf(<<variadic, where, generics, inputs, self>>)
    BY <1>2 DEF ItemError, SignatureError
  <2>2. /\ variadic \in CheckResult /\ (variadic = "none" <=> ~item.variadic)
        /\ where \in CheckResult /\ (where = "none" <=> ~item.where)
        /\ self \in CheckResult /\ (self = "none" <=> item.inputs # <<>>)
    BY DEF CheckResult, Messages
  <2>3. /\ generics \in CheckResult
        /\ generics = "none" <=> \A g \in RangeOf(item.generics) : g.kind = "lifetime" /\ ~g.bounded
    BY <1>2, MethodFields, GenericsChecked
  <2>4. /\ inputs \in CheckResult
        /\ item.inputs # <<>> =>
             (inputs = "none" <=>
                /\ item.inputs[1] \in Receivers
                /\ \A k \in DOMAIN item.inputs \ {1} : item.inputs[k] \in {"name: T", "_: T"})
    BY <1>2, MethodFields, InputsChecked
  <2> HIDE DEF variadic, where, generics, inputs, self
  <2>5. /\ ItemError(item) \in CheckResult
        /\ ItemError(item) = "none" <=>
             variadic = "none" /\ where = "none" /\ generics = "none" /\ inputs = "none" /\ self = "none"
    <3>1. /\ variadic \in CheckResult /\ where \in CheckResult /\ generics \in CheckResult
          /\ inputs \in CheckResult /\ self \in CheckResult
      BY <2>2, <2>3, <2>4
    <3> QED BY <2>1, <3>1, FirstOfFive
  <2> QED BY <1>2, <2>2, <2>3, <2>4, <2>5 DEF PlainMethod
<1> QED BY <1>1, <1>2

LEMMA MethodTyped ==
  ASSUME NEW item \in Item, PlainMethod(item)
  PROVE  MethodOf(item) \in MethodEntry
<1>1. item.is = "fn" /\ item.inputs # <<>>
  BY DEF PlainMethod
<1>2. Len(item.inputs) - 1 \in Nat
  BY <1>1, MethodFields, LenProperties, EmptySeq
<1>3. {item.generics[k].name : k \in DOMAIN item.generics} \in SUBSET STRING
  <2>1. \A k \in DOMAIN item.generics : item.generics[k] \in GenericParam
    BY <1>1, MethodFields, ElementOfSeq, LenProperties
  <2> QED BY <2>1 DEF GenericParam
<1>4. (IF item.inputs[1] = "self" THEN "value" ELSE "reference") \in {"value", "reference"}
  OBVIOUS
<1> QED BY <1>1, <1>2, <1>3, <1>4, MethodFields DEF MethodOf, MethodEntry

-----------------------------------------------------------------------------
(* How far the loops are                                                   *)

LEMMA SourceParts ==
  ASSUME source \in Sources
  PROVE  /\ source.options \in Seq(Option)
         /\ TraitBounds(source.supertraits) \in Seq(TraitBound)
         /\ Len(TraitBounds(source.supertraits)) < 10
         /\ source.where \in Seq(WherePredicate) /\ source.items \in Seq(Item)
  BY SourcesAssumption

LEMMA SourceElements ==
  ASSUME source \in Sources
  PROVE  /\ Len(source.options) \in Nat /\ DOMAIN source.options = 1 .. Len(source.options)
         /\ \A k \in 1 .. Len(source.options) : source.options[k] \in Option
         /\ Len(source.where) \in Nat /\ DOMAIN source.where = 1 .. Len(source.where)
         /\ \A k \in 1 .. Len(source.where) : source.where[k] \in WherePredicate
         /\ Len(source.items) \in Nat /\ DOMAIN source.items = 1 .. Len(source.items)
         /\ \A k \in 1 .. Len(source.items) : source.items[k] \in Item
  BY SourceParts, LenProperties, ElementOfSeq

Loops == {"options", "settings", "where", "items"}

LEMMA AfterEach ==
  /\ After["options"] = {"settings", "where", "subtables", "items", "abi"}
  /\ After["settings"] = {"where", "subtables", "items", "abi"}
  /\ After["where"] = {"subtables", "items", "abi"}
  /\ After["items"] = {"abi"}
  BY DEF After

LEMMA PastSame ==
  ASSUME UNCHANGED <<stage, pos>>, NEW s, NEW k
  PROVE  IsPast(s, k)' <=> IsPast(s, k)
  BY DEF IsPast

LEMMA PastContinued ==
  ASSUME Continue, pos \in Nat, NEW s, NEW k \in Nat
  PROVE  IsPast(s, k)' <=> IsPast(s, k) \/ (stage = s /\ k = pos)
  BY DEF IsPast, Continue

Follows ==
  {<<"options", "settings">>, <<"settings", "where">>, <<"where", "subtables">>,
   <<"subtables", "items">>, <<"items", "abi">>}

LEMMA PastEntered ==
  ASSUME NEW next, Enter(next), <<stage, next>> \in Follows, NEW s \in Loops, NEW k \in Nat \ {0},
         stage = s => k < pos
  PROVE  IsPast(s, k)' <=> IsPast(s, k)
<1>1. stage' = next /\ ~(k < pos')
  BY DEF Enter
<1>2. IsPast(s, k)' <=> next \in After[s]
  BY <1>1 DEF IsPast
<1>3. IsPast(s, k) <=> stage = s \/ stage \in After[s]
  BY DEF IsPast
<1>4. (stage = s \/ stage \in After[s]) <=> next \in After[s]
  BY AfterEach DEF Follows, Loops
<1> QED BY <1>2, <1>3, <1>4

-----------------------------------------------------------------------------
(* The parts of the invariant                                              *)

PlaceInv ==
  /\ stage \in RangeOf(Stages) /\ pos \in Nat \ {0}
  /\ stage \in {"options", "settings"} => pos <= Len(source.options) + 1
  /\ stage = "where" => pos <= Len(source.where) + 1
  /\ stage = "items" => pos <= Len(source.items) + 1
  /\ stage = "abi" => pos <= Len(methods) + 1

LEMMA StageNames == RangeOf(Stages) = {"options", "settings", "where", "subtables", "items", "abi"}
<1>1. DOMAIN Stages = 1 .. 6
  BY DEF Stages
<1>2. /\ Stages[1] = "options" /\ Stages[2] = "settings" /\ Stages[3] = "where"
      /\ Stages[4] = "subtables" /\ Stages[5] = "items" /\ Stages[6] = "abi"
  BY DEF Stages
<1>3. \A k : k \in 1 .. 6 <=> k = 1 \/ k = 2 \/ k = 3 \/ k = 4 \/ k = 5 \/ k = 6
  OBVIOUS
<1>4. \A k \in DOMAIN Stages :
        Stages[k] \in {"options", "settings", "where", "subtables", "items", "abi"}
  BY <1>1, <1>2, <1>3
<1> QED BY <1>1, <1>2, <1>3, <1>4 DEF RangeOf

\* Nothing that has been read is forgotten as long as the loops stay where they are.
LEMMA OptionsKept ==
  ASSUME source' = source, \A k \in DOMAIN source.options :
                             IsPast("options", k)' => IsPast("options", k), OptionsInv
  PROVE  OptionsInv'
  BY DEF OptionsInv

LEMMA StoredKept ==
  ASSUME UNCHANGED <<source, given>>,
         \A k \in DOMAIN source.options : IsPast("settings", k)' <=> IsPast("settings", k), StoredInv
  PROVE  StoredInv'
<1> DEFINE stored == {k \in DOMAIN source.options : IsPast("settings", k)}
<1>1. stored' = stored
  OBVIOUS
<1> HIDE DEF stored
<1> QED BY <1>1 DEF StoredInv, stored

LEMMA SettingsKept ==
  ASSUME UNCHANGED <<given, settings>>,
         stage' \in After["settings"] <=> stage \in After["settings"], SettingsInv
  PROVE  SettingsInv'
  BY DEF SettingsInv

LEMMA WhereKept ==
  ASSUME UNCHANGED <<source, where_clause, dyn_entries>>,
         \A k \in DOMAIN source.where : IsPast("where", k)' => IsPast("where", k), WhereInv
  PROVE  WhereInv'
  BY DEF WhereInv

LEMMA ItemsKept ==
  ASSUME UNCHANGED <<source, methods>>, stage \notin {"items", "abi"}, stage' \notin {"items", "abi"},
         ItemsInv
  PROVE  ItemsInv'
<1>1. \A k : ~IsPast("items", k)'
  BY AfterEach DEF IsPast
<1>2. Len(methods) = 0
  BY DEF ItemsInv
<1> QED BY <1>1, <1>2 DEF ItemsInv

\* All but SolveInv.
ReadingInv == PlaceInv /\ OptionsInv /\ StoredInv /\ SettingsInv /\ WhereInv /\ ItemsInv

LEMMA StagesParts == StagesInv <=> ReadingInv /\ SolveInv
  BY DEF StagesInv, ReadingInv, PlaceInv

LEMMA ReadingKept ==
  ASSUME UNCHANGED <<source, stage, pos, given, settings, where_clause, dyn_entries, methods>>,
         ReadingInv
  PROVE  ReadingInv'
<1>1. \A s, k : IsPast(s, k)' <=> IsPast(s, k)
  BY PastSame
<1>2. PlaceInv'
  BY DEF ReadingInv, PlaceInv
<1>3. ItemsInv'
  BY <1>1 DEF ReadingInv, ItemsInv
<1> QED
  BY <1>1, <1>2, <1>3, OptionsKept, StoredKept, SettingsKept, WhereKept DEF ReadingInv

-----------------------------------------------------------------------------
(* The steps that read options                                             *)

LEMMA ParseOptionReads ==
  ASSUME source \in Sources, ReadingInv, ParseOption,
         UNCHANGED <<where_clause, dyn_entries, methods>>
  PROVE  ReadingInv'
<1>1. /\ stage = "options" /\ pos \in 1 .. Len(source.options) /\ Continue
      /\ UNCHANGED <<source, stage, given, settings>> /\ pos' = pos + 1
      /\ OptionError(source.options[pos]) = "none" /\ ~NotIdentifier(source.options[pos])
  BY SourceElements DEF ParseOption, Reading, Continue, ReadingInv, PlaceInv
<1>2. \A s, k : k \in Nat =>
        (IsPast(s, k)' <=> IsPast(s, k) \/ (stage = s /\ k = pos))
  BY <1>1, PastContinued DEF ReadingInv, PlaceInv
<1>3. PlaceInv'
  BY <1>1, SourceElements DEF ReadingInv, PlaceInv
<1>4. OptionsInv'
  BY <1>1, <1>2, SourceElements DEF ReadingInv, OptionsInv
<1>5. StoredInv'
  <2>1. \A k \in DOMAIN source.options : IsPast("settings", k)' <=> IsPast("settings", k)
    BY <1>1, <1>2, SourceElements
  <2> QED BY <1>1, <2>1, StoredKept DEF ReadingInv
<1>6. SettingsInv'
  BY <1>1, SettingsKept DEF ReadingInv
<1>7. WhereInv'
  <2>1. \A k \in DOMAIN source.where : IsPast("where", k)' => IsPast("where", k)
    BY <1>1, <1>2, SourceElements
  <2> QED BY <1>1, <2>1, WhereKept DEF ReadingInv
<1>8. ItemsInv'
  BY <1>1, ItemsKept DEF ReadingInv
<1> QED BY <1>3, <1>4, <1>5, <1>6, <1>7, <1>8 DEF ReadingInv

LEMMA OptionsParsedReads ==
  ASSUME source \in Sources, ReadingInv, OptionsParsed,
         UNCHANGED <<where_clause, dyn_entries, methods>>
  PROVE  ReadingInv'
<1>1. /\ stage = "options" /\ pos > Len(source.options) /\ Enter("settings")
      /\ UNCHANGED <<source, given, settings>> /\ stage' = "settings" /\ pos' = 1
  BY DEF OptionsParsed, PastEnd, Enter
<1>2. \A k \in DOMAIN source.options : k \in Nat \ {0} /\ k < pos
  BY <1>1, SourceElements DEF ReadingInv, PlaceInv
<1>3. \A s \in Loops, k \in Nat \ {0} :
        (stage = s => k < pos) => (IsPast(s, k)' <=> IsPast(s, k))
  BY <1>1, PastEntered DEF Follows
<1>4. PlaceInv'
  BY <1>1, SourceElements, StageNames DEF ReadingInv, PlaceInv
<1>5. OptionsInv'
  BY <1>1, <1>2, <1>3, OptionsKept DEF ReadingInv, Loops
<1>6. StoredInv'
  BY <1>1, <1>2, <1>3, StoredKept DEF ReadingInv, Loops
<1>7. SettingsInv'
  BY <1>1, AfterEach, SettingsKept DEF ReadingInv
<1>8. WhereInv'
  BY <1>1, <1>3, SourceElements, WhereKept DEF ReadingInv, Loops
<1>9. ItemsInv'
  BY <1>1, ItemsKept DEF ReadingInv
<1> QED BY <1>4, <1>5, <1>6, <1>7, <1>8, <1>9 DEF ReadingInv

StoredAs(stored, options, kept) ==
  /\ DOMAIN kept = {options[k].name : k \in stored}
  /\ \A k \in stored : kept[options[k].name] = Stored(options[k])
  /\ \A j, k \in stored : options[j].name = options[k].name => j = k

LEMMA StoreOptionReads ==
  ASSUME source \in Sources, ReadingInv, StoreOption,
         UNCHANGED <<where_clause, dyn_entries, methods>>
  PROVE  ReadingInv'
<1> DEFINE o == source.options[pos]
           stored == {k \in DOMAIN source.options : IsPast("settings", k)}
<1>1. /\ stage = "settings" /\ pos \in 1 .. Len(source.options) /\ Continue
      /\ UNCHANGED <<source, stage, settings>> /\ pos' = pos + 1
      /\ o.name \notin DOMAIN given
      /\ given' = [n \in DOMAIN given \cup {o.name} |-> IF n = o.name THEN Stored(o) ELSE given[n]]
  BY SourceElements DEF StoreOption, Reading, Continue, ReadingInv, PlaceInv
<1>2. \A s, k : k \in Nat =>
        (IsPast(s, k)' <=> IsPast(s, k) \/ (stage = s /\ k = pos))
  BY <1>1, PastContinued DEF ReadingInv, PlaceInv
<1>3. PlaceInv'
  BY <1>1, SourceElements DEF ReadingInv, PlaceInv
<1>4. OptionsInv'
  BY <1>1, <1>2, SourceElements, OptionsKept DEF ReadingInv
<1>5. StoredInv'
  <2>1. \A k \in DOMAIN source.options : IsPast("settings", k)' <=> IsPast("settings", k) \/ k = pos
    BY <1>1, <1>2, SourceElements
  <2>2. stored' = stored \cup {pos}
    BY <1>1, <2>1, SourceElements
  <2>3. /\ DOMAIN given = {source.options[k].name : k \in stored}
        /\ \A k \in stored : given[source.options[k].name] = Stored(source.options[k])
        /\ \A j, k \in stored : source.options[j].name = source.options[k].name => j = k
    BY DEF ReadingInv, StoredInv
  <2> HIDE DEF stored
  <2>4. \A k \in stored : source.options[k].name \in DOMAIN given /\ source.options[k].name # o.name
    BY <1>1, <2>3
  <2>5. DOMAIN given' = {source.options[k].name : k \in stored \cup {pos}}
    BY <1>1, <2>3
  <2>6. \A k \in stored \cup {pos} : given'[source.options[k].name] = Stored(source.options[k])
    BY <1>1, <2>3, <2>4
  <2>7. \A j, k \in stored \cup {pos} : source.options[j].name = source.options[k].name => j = k
    BY <2>3, <2>4
  <2>8. StoredAs(stored \cup {pos}, source.options, given')
    BY <2>5, <2>6, <2>7 DEF StoredAs
  <2>9. StoredAs(stored', source'.options, given')
    BY <1>1, <2>2, <2>8
  <2> QED BY <2>9 DEF StoredAs, StoredInv, stored
<1>6. SettingsInv'
  BY <1>1, AfterEach DEF ReadingInv, SettingsInv
<1>7. WhereInv'
  <2>1. \A k \in DOMAIN source.where : IsPast("where", k)' => IsPast("where", k)
    BY <1>1, <1>2, SourceElements
  <2> QED BY <1>1, <2>1, WhereKept DEF ReadingInv
<1>8. ItemsInv'
  BY <1>1, ItemsKept DEF ReadingInv
<1> QED BY <1>3, <1>4, <1>5, <1>6, <1>7, <1>8 DEF ReadingInv

LEMMA SettleReads ==
  ASSUME source \in Sources, ReadingInv, Settle,
         UNCHANGED <<where_clause, dyn_entries, methods>>
  PROVE  ReadingInv'
<1>1. /\ stage = "settings" /\ pos > Len(source.options) /\ Enter("where")
      /\ UNCHANGED <<source, given>> /\ stage' = "where" /\ pos' = 1
      /\ settings' =
           [n \in DOMAIN Defaults |-> IF n \in DOMAIN given THEN given[n] ELSE Defaults[n]]
  BY DEF Settle, PastEnd, Enter
<1>2. \A k \in DOMAIN source.options : k \in Nat \ {0} /\ k < pos
  BY <1>1, SourceElements DEF ReadingInv, PlaceInv
<1>3. \A s \in Loops, k \in Nat \ {0} :
        (stage = s => k < pos) => (IsPast(s, k)' <=> IsPast(s, k))
  BY <1>1, PastEntered DEF Follows
<1>4. PlaceInv'
  BY <1>1, SourceElements, StageNames DEF ReadingInv, PlaceInv
<1>5. OptionsInv'
  BY <1>1, <1>2, <1>3, OptionsKept DEF ReadingInv, Loops
<1>6. StoredInv'
  BY <1>1, <1>2, <1>3, StoredKept DEF ReadingInv, Loops
<1>7. SettingsInv'
  BY <1>1, AfterEach DEF SettingsInv
<1>8. WhereInv'
  BY <1>1, <1>3, SourceElements, WhereKept DEF ReadingInv, Loops
<1>9. ItemsInv'
  BY <1>1, ItemsKept DEF ReadingInv
<1> QED BY <1>4, <1>5, <1>6, <1>7, <1>8, <1>9 DEF ReadingInv

-----------------------------------------------------------------------------
(* The steps that read the where clause                                    *)

LEMMA EntryTyped ==
  ASSUME NEW p \in WherePredicate, PlainPredicate(p), IsEntry(p)
  PROVE  DynPredicate(p) \in Entries
<1>1. /\ p.object \in Seq(AnyBound) /\ p.bounds \in Seq(AnyBound)
      /\ p.object # <<>> /\ Len(p.object) = 1
      /\ \A b \in RangeOf(p.object \o p.bounds) : PlainTrait(b)
  BY PredicateFields DEF PlainPredicate, IsEntry
<1>2. \A b \in RangeOf(p.object) \cup RangeOf(p.bounds) : b.is = "trait"
  BY <1>1, RangeOfConcat DEF PlainTrait
<1>3. \A b \in AnyBound : b.is = "trait" => b.path \in Paths
  BY DEF AnyBound, TraitBound
<1>4. 1 \in DOMAIN p.object /\ p.object[1] \in AnyBound
  BY <1>1, LenProperties, ElementOfSeq
<1>5. /\ DOMAIN p.bounds = 1 .. Len(p.bounds) /\ Len(p.bounds) \in Nat
      /\ \A k \in DOMAIN p.bounds : p.bounds[k] \in AnyBound
  BY <1>1, LenProperties, ElementOfSeq
<1>6. p.object[1].path \in Paths /\ \A k \in DOMAIN p.bounds : p.bounds[k].path \in Paths
  BY <1>2, <1>3, <1>4, <1>5 DEF RangeOf
<1>7. [k \in DOMAIN p.bounds |-> p.bounds[k].path] \in [1 .. Len(p.bounds) -> Paths]
  BY <1>5, <1>6
<1>8. [k \in DOMAIN p.bounds |-> p.bounds[k].path] \in Seq(Paths)
  BY <1>5, <1>7, SeqDef
<1> QED BY <1>6, <1>8 DEF DynPredicate, Entries

\* Both kinds of predicate: kept in the clause, or stripped from it.
LEMMA PredicateReads ==
  ASSUME source \in Sources, ReadingInv, PredicateKept \/ PredicateStripped,
         UNCHANGED <<given, settings, methods>>
  PROVE  ReadingInv'
<1> DEFINE p == source.where[pos]
<1>1. /\ stage = "where" /\ pos \in 1 .. Len(source.where) /\ Continue
      /\ UNCHANGED <<source, stage>> /\ pos' = pos + 1 /\ PredicateError(p) = "none"
      /\ \/ where_clause' = Append(where_clause, p) /\ UNCHANGED dyn_entries
         \/ /\ IsEntry(p) /\ dyn_entries' = Append(dyn_entries, DynPredicate(p))
            /\ UNCHANGED where_clause
  BY SourceElements DEF PredicateKept, PredicateStripped, Reading, Continue, ReadingInv, PlaceInv
<1>2. \A s, k : k \in Nat =>
        (IsPast(s, k)' <=> IsPast(s, k) \/ (stage = s /\ k = pos))
  BY <1>1, PastContinued DEF ReadingInv, PlaceInv
<1>3. PlaceInv'
  BY <1>1, SourceElements DEF ReadingInv, PlaceInv
<1>4. OptionsInv'
  BY <1>1, <1>2, SourceElements, OptionsKept DEF ReadingInv
<1>5. StoredInv'
  <2>1. \A k \in DOMAIN source.options : IsPast("settings", k)' <=> IsPast("settings", k)
    BY <1>1, <1>2, SourceElements
  <2> QED BY <1>1, <2>1, StoredKept DEF ReadingInv
<1>6. SettingsInv'
  BY <1>1, SettingsKept DEF ReadingInv
<1>7. WhereInv'
  <2>0. /\ \A k \in DOMAIN source.where :
             IsPast("where", k) =>
               /\ PredicateError(source.where[k]) = "none"
               /\ IsEntry(source.where[k]) \/ source.where[k] \in RangeOf(where_clause)
        /\ where_clause \in Seq(RangeOf(source.where)) /\ dyn_entries \in Seq(Entries)
    BY DEF ReadingInv, WhereInv
  <2>1. \A k \in DOMAIN source.where : IsPast("where", k)' =>
          /\ PredicateError(source.where[k]) = "none"
          /\ IsEntry(source.where[k]) \/ source.where[k] \in RangeOf(where_clause')
    <3>1. \A k \in DOMAIN source.where : IsPast("where", k)' => IsPast("where", k) \/ k = pos
      BY <1>2, SourceElements
    <3>2. /\ RangeOf(where_clause) \subseteq RangeOf(where_clause')
          /\ IsEntry(p) \/ p \in RangeOf(where_clause')
      <4>1. CASE PredicateStripped
        BY <4>1 DEF PredicateStripped
      <4>2. CASE PredicateKept
        <5>1. where_clause' = Append(where_clause, p)
          BY <4>2 DEF PredicateKept
        <5>2. /\ DOMAIN where_clause = 1 .. Len(where_clause) /\ Len(where_clause) \in Nat
              /\ DOMAIN where_clause' = 1 .. (Len(where_clause) + 1)
              /\ where_clause'[Len(where_clause) + 1] = p
              /\ \A k \in 1 .. Len(where_clause) : where_clause'[k] = where_clause[k]
          BY <2>0, <5>1, AppendProperties, LenProperties
        <5> QED BY <5>2 DEF RangeOf
      <4> QED BY <4>1, <4>2
    <3> QED BY <1>1, <2>0, <3>1, <3>2
  <2>2. p \in WherePredicate /\ p \in RangeOf(source.where)
    BY <1>1, SourceElements DEF RangeOf
  <2>3. where_clause' \in Seq(RangeOf(source.where))
    <3>1. Append(where_clause, p) \in Seq(RangeOf(source.where))
      BY <2>0, <2>2, AppendProperties
    <3> QED BY <1>1, <2>0, <3>1
  <2>4. dyn_entries' \in Seq(Entries)
    <3>1. IsEntry(p) => DynPredicate(p) \in Entries
      BY <1>1, <2>2, PredicateChecked, EntryTyped
    <3> QED BY <1>1, <2>0, <3>1, AppendProperties
  <2> QED BY <1>1, <2>1, <2>3, <2>4 DEF WhereInv
<1>8. ItemsInv'
  BY <1>1, ItemsKept DEF ReadingInv
<1> QED BY <1>3, <1>4, <1>5, <1>6, <1>7, <1>8 DEF ReadingInv

LEMMA StrippedReads ==
  ASSUME source \in Sources, ReadingInv, Stripped
  PROVE  ReadingInv'
<1>1. /\ stage = "where" /\ pos > Len(source.where) /\ Enter("subtables")
      /\ stage' = "subtables" /\ pos' = 1
      /\ UNCHANGED <<source, given, settings, where_clause, dyn_entries, methods>>
  BY DEF Stripped, PastEnd, Enter, optionVars, entryVars
<1>2. \A k \in DOMAIN source.where : k \in Nat \ {0} /\ k < pos
  BY <1>1, SourceElements DEF ReadingInv, PlaceInv
<1>3. \A s \in Loops, k \in Nat \ {0} :
        (stage = s => k < pos) => (IsPast(s, k)' <=> IsPast(s, k))
  BY <1>1, PastEntered DEF Follows
<1>4. PlaceInv'
  BY <1>1, StageNames DEF ReadingInv, PlaceInv
<1>5. OptionsInv'
  BY <1>1, <1>3, SourceElements, OptionsKept DEF ReadingInv, Loops
<1>6. StoredInv'
  BY <1>1, <1>3, SourceElements, StoredKept DEF ReadingInv, Loops
<1>7. SettingsInv'
  BY <1>1, AfterEach, SettingsKept DEF ReadingInv
<1>8. WhereInv'
  BY <1>1, <1>2, <1>3, WhereKept DEF ReadingInv, Loops
<1>9. ItemsInv'
  BY <1>1, ItemsKept DEF ReadingInv
<1> QED BY <1>4, <1>5, <1>6, <1>7, <1>8, <1>9 DEF ReadingInv

-----------------------------------------------------------------------------
(* The steps that read items                                               *)

LEMMA SolvedReads ==
  ASSUME source \in Sources, ReadingInv, stage = "subtables", Enter("items"),
         UNCHANGED <<given, settings, where_clause, dyn_entries, methods>>
  PROVE  ReadingInv'
<1>1. source' = source /\ stage' = "items" /\ pos' = 1
  BY DEF Enter
<1>2. \A s \in Loops, k \in Nat \ {0} : IsPast(s, k)' <=> IsPast(s, k)
  <2>1. stage \notin Loops
    BY DEF Loops
  <2> QED BY <2>1, PastEntered DEF Follows
<1>3. PlaceInv'
  BY <1>1, SourceElements, StageNames DEF ReadingInv, PlaceInv
<1>4. OptionsInv'
  BY <1>1, <1>2, SourceElements, OptionsKept DEF ReadingInv, Loops
<1>5. StoredInv'
  BY <1>1, <1>2, SourceElements, StoredKept DEF ReadingInv, Loops
<1>6. SettingsInv'
  BY <1>1, AfterEach, SettingsKept DEF ReadingInv
<1>7. WhereInv'
  BY <1>1, <1>2, SourceElements, WhereKept DEF ReadingInv, Loops
<1>8. ItemsInv'
  <2>1. \A k \in DOMAIN source.items : ~IsPast("items", k)'
    BY <1>1, <1>2, AfterEach, SourceElements DEF Loops, IsPast
  <2>2. Len(methods) = 0 /\ \A k \in DOMAIN methods : methods[k] = MethodOf(source.items[k])
    BY DEF ReadingInv, ItemsInv
  <2> QED BY <1>1, <2>1, <2>2 DEF ItemsInv
<1> QED BY <1>3, <1>4, <1>5, <1>6, <1>7, <1>8 DEF ReadingInv

\* What the other loops have read is kept while the items are.
LEMMA EarlierKept ==
  ASSUME source \in Sources, ReadingInv, stage \in {"items", "abi"}, stage' \in {"items", "abi"},
         UNCHANGED <<source, given, settings, where_clause, dyn_entries>>
  PROVE  OptionsInv' /\ StoredInv' /\ SettingsInv' /\ WhereInv'
<1>1. \A s \in Loops : \A k : s # "items" => IsPast(s, k)' /\ IsPast(s, k)
  BY AfterEach DEF Loops, IsPast
<1>2. OptionsInv'
  BY <1>1, OptionsKept DEF ReadingInv, Loops
<1>3. StoredInv'
  BY <1>1, StoredKept DEF ReadingInv, Loops
<1>4. SettingsInv'
  BY AfterEach, SettingsKept DEF ReadingInv
<1>5. WhereInv'
  BY <1>1, WhereKept DEF ReadingInv, Loops
<1> QED BY <1>2, <1>3, <1>4, <1>5

LEMMA ReadMethodReads ==
  ASSUME source \in Sources, ReadingInv, methods \in Seq(MethodEntry), ReadMethod,
         UNCHANGED <<given, settings, where_clause, dyn_entries>>
  PROVE  ReadingInv'
<1> DEFINE item == source.items[pos]
<1>1. /\ stage = "items" /\ pos \in 1 .. Len(source.items) /\ Continue
      /\ UNCHANGED <<source, stage>> /\ pos' = pos + 1 /\ ItemError(item) = "none"
      /\ methods' = Append(methods, MethodOf(item))
  BY SourceElements DEF ReadMethod, Reading, Continue, ReadingInv, PlaceInv
<1>2. \A k \in DOMAIN source.items : IsPast("items", k)' => IsPast("items", k) \/ k = pos
  BY <1>1, PastContinued, SourceElements DEF ReadingInv, PlaceInv
<1>3. PlaceInv'
  BY <1>1, SourceElements DEF ReadingInv, PlaceInv
<1>4. ItemsInv'
  <2>1. /\ \A k \in DOMAIN source.items :
             IsPast("items", k) => ItemError(source.items[k]) = "none"
        /\ Len(methods) = pos - 1
        /\ \A k \in DOMAIN methods : methods[k] = MethodOf(source.items[k])
    BY <1>1 DEF ReadingInv, ItemsInv
  <2>2. \A k \in DOMAIN source.items : IsPast("items", k)' => ItemError(source.items[k]) = "none"
    BY <1>1, <1>2, <2>1
  <2>3. DOMAIN methods' = 1 .. pos /\ Len(methods') = pos /\ DOMAIN methods = 1 .. (pos - 1)
    BY <1>1, <2>1, LenProperties
  <2>4. \A k \in DOMAIN methods' : methods'[k] = MethodOf(source.items[k])
    BY <1>1, <2>1, <2>3
  <2> QED BY <1>1, <2>2, <2>3, <2>4 DEF ItemsInv
<1> QED BY <1>1, <1>3, <1>4, EarlierKept DEF ReadingInv

LEMMA ItemsReadReads ==
  ASSUME source \in Sources, ReadingInv, methods \in Seq(MethodEntry), ItemsRead,
         UNCHANGED <<given, settings, where_clause, dyn_entries>>
  PROVE  ReadingInv'
<1>1. /\ stage = "items" /\ pos > Len(source.items) /\ stage' = "abi" /\ pos' = 1
      /\ UNCHANGED <<source, methods>>
  BY DEF ItemsRead, PastEnd, Enter
<1>2. Len(source.items) \in Nat /\ Len(methods) \in Nat /\ pos = Len(source.items) + 1
  BY <1>1, SourceElements, LenProperties DEF ReadingInv, PlaceInv
<1>3. PlaceInv'
  BY <1>1, <1>2, StageNames DEF ReadingInv, PlaceInv
<1>4. ItemsInv'
  <2>1. /\ \A k \in DOMAIN source.items :
             IsPast("items", k) => ItemError(source.items[k]) = "none"
        /\ Len(methods) = pos - 1
        /\ \A k \in DOMAIN methods : methods[k] = MethodOf(source.items[k])
    BY <1>1 DEF ReadingInv, ItemsInv
  <2>2. \A k \in DOMAIN source.items : IsPast("items", k)
    BY <1>1, <1>2, SourceElements DEF IsPast
  <2>3. \A k \in DOMAIN methods : k \in 1 .. Len(methods)
    BY LenProperties
  <2> QED BY <1>1, <1>2, <2>1, <2>2, <2>3 DEF ItemsInv
<1> QED BY <1>1, <1>3, <1>4, EarlierKept DEF ReadingInv

LEMMA AbiExplicitReads ==
  ASSUME source \in Sources, ReadingInv, methods \in Seq(MethodEntry), AbiExplicit,
         UNCHANGED <<given, settings, where_clause, dyn_entries>>
  PROVE  ReadingInv'
<1>1. /\ stage = "abi" /\ pos <= Len(methods) /\ pos' = pos + 1
      /\ UNCHANGED <<source, stage, methods>> /\ (settings.relax_abi \/ methods[pos].abi # "none")
  BY DEF AbiExplicit, Reading, Continue
<1>2. pos \in Nat \ {0} /\ Len(methods) \in Nat /\ DOMAIN methods = 1 .. Len(methods)
  BY LenProperties DEF ReadingInv, PlaceInv
<1>3. PlaceInv'
  BY <1>1, <1>2 DEF ReadingInv, PlaceInv
<1>4. ItemsInv'
  <2>1. /\ \A k \in DOMAIN source.items :
             IsPast("items", k) => ItemError(source.items[k]) = "none"
        /\ Len(methods) = Len(source.items)
        /\ \A k \in DOMAIN methods : methods[k] = MethodOf(source.items[k])
        /\ \A k \in DOMAIN methods : k < pos => settings.relax_abi \/ methods[k].abi # "none"
    BY <1>1 DEF ReadingInv, ItemsInv
  <2>2. \A k \in DOMAIN source.items : IsPast("items", k)
    BY <1>1, AfterEach DEF IsPast
  <2>3. \A k \in DOMAIN methods : k < pos' => k < pos \/ k = pos
    BY <1>1, <1>2
  <2>4. \A k \in DOMAIN methods : k < pos' => settings.relax_abi \/ methods[k].abi # "none"
    BY <1>1, <2>1, <2>3
  <2> QED BY <1>1, <2>1, <2>2, <2>4 DEF ItemsInv
<1> QED BY <1>1, <1>3, <1>4, EarlierKept DEF ReadingInv

-----------------------------------------------------------------------------
(* The rules of the stages that are past                                   *)

LEMMA KnownEach ==
  OptionsKnown <=> \A k \in DOMAIN source.options : Known(source.options[k])
  BY DEF OptionsKnown, Known, RangeOf

LEMMA PlainEach ==
  EntriesPlain <=> \A k \in DOMAIN source.where : PlainPredicate(source.where[k])
  BY DEF EntriesPlain, PlainPredicate, RangeOf

LEMMA LegalEach ==
  ItemsLegal <=> \A k \in DOMAIN source.items : PlainMethod(source.items[k])
<1>1. ItemsLegal <=> \A item \in RangeOf(source.items) : PlainMethod(item)
  BY DEF ItemsLegal, PlainMethod
<1>2. (\A item \in RangeOf(source.items) : PlainMethod(item))
        <=> \A k \in DOMAIN source.items : PlainMethod(source.items[k])
  BY DEF RangeOf
<1> QED BY <1>1, <1>2

LEMMA OptionsPast ==
  ASSUME ReadingInv, stage \in After["options"]
  PROVE  OptionsKnown
<1>1. \A k \in DOMAIN source.options :
        OptionError(source.options[k]) = "none" /\ ~NotIdentifier(source.options[k])
  BY DEF ReadingInv, OptionsInv, IsPast
<1> QED BY <1>1, OptionChecked, KnownEach

LEMMA SettingsPast ==
  ASSUME ReadingInv, stage \in After["settings"]
  PROVE  /\ OptionsOnce
         /\ DOMAIN given = {source.options[k].name : k \in DOMAIN source.options}
         /\ \A k \in DOMAIN source.options : given[source.options[k].name] = Stored(source.options[k])
<1>1. {k \in DOMAIN source.options : IsPast("settings", k)} = DOMAIN source.options
  BY DEF IsPast
<1> QED BY <1>1 DEF ReadingInv, StoredInv, OptionsOnce

LEMMA WherePast ==
  ASSUME source \in Sources, ReadingInv, stage \in After["where"]
  PROVE  EntriesPlain
<1>1. \A k \in DOMAIN source.where : PredicateError(source.where[k]) = "none"
  BY DEF ReadingInv, WhereInv, IsPast
<1> QED BY <1>1, PredicateChecked, PlainEach, SourceElements

LEMMA ItemsPast ==
  ASSUME source \in Sources, ReadingInv, stage = "abi"
  PROVE  ItemsLegal
<1>1. \A k \in DOMAIN source.items : ItemError(source.items[k]) = "none"
  BY AfterEach DEF ReadingInv, ItemsInv, IsPast
<1> QED BY <1>1, ItemChecked, LegalEach, SourceElements

\* What an option settles.
LEMMA SettledAs ==
  ASSUME ReadingInv, stage \in After["settings"], NEW n \in DOMAIN Defaults
  PROVE  /\ DOMAIN settings = DOMAIN Defaults
         /\ \A o \in RangeOf(source.options) : o.name = n => settings[n] = Stored(o)
         /\ (~\E o \in RangeOf(source.options) : o.name = n) => settings[n] = Defaults[n]
<1>1. settings = [m \in DOMAIN Defaults |-> IF m \in DOMAIN given THEN given[m] ELSE Defaults[m]]
  BY DEF ReadingInv, SettingsInv
<1>2. /\ DOMAIN settings = DOMAIN Defaults
      /\ n \in DOMAIN given => settings[n] = given[n]
      /\ n \notin DOMAIN given => settings[n] = Defaults[n]
  BY <1>1
<1>3. \A o \in RangeOf(source.options) : o.name \in DOMAIN given /\ given[o.name] = Stored(o)
  BY SettingsPast DEF RangeOf
<1>4. n \in DOMAIN given => \E o \in RangeOf(source.options) : o.name = n
  BY SettingsPast DEF RangeOf
<1> QED BY <1>2, <1>3, <1>4

LEMMA RelaxedAs ==
  ASSUME source \in Sources, ReadingInv, stage \in After["settings"]
  PROVE  /\ settings.relax_abi \in BOOLEAN
         /\ settings.relax_abi <=>
              \E o \in RangeOf(source.options) : o.name = "relax_abi" /\ o.value = TRUE
<1>1. "relax_abi" \in DOMAIN Defaults /\ Defaults["relax_abi"] = FALSE
  BY DEF Defaults
<1>2. \A o \in RangeOf(source.options) : o.name = "relax_abi" =>
        /\ settings["relax_abi"] = o.value /\ o.value \in BOOLEAN
  <2> SUFFICES ASSUME NEW o \in RangeOf(source.options), o.name = "relax_abi"
               PROVE  settings["relax_abi"] = o.value /\ o.value \in BOOLEAN
    OBVIOUS
  <2>1. settings["relax_abi"] = Stored(o)
    BY <1>1, SettledAs
  <2>2. Stored(o) = o.value
    BY DEF Stored
  <2>3. o \in Option
    BY SourceElements DEF RangeOf
  <2>4. Known(o)
    BY OptionsPast, KnownEach, AfterEach DEF RangeOf
  <2>5. o.is = "bool"
    BY <2>4 DEF Known
  <2>6. o.value \in BOOLEAN
    BY <2>3, <2>5 DEF Option
  <2> QED BY <2>1, <2>2, <2>6
<1>3. (~\E o \in RangeOf(source.options) : o.name = "relax_abi") => settings["relax_abi"] = FALSE
  BY <1>1, SettledAs
<1> QED BY <1>2, <1>3

\* The ABIs of the methods are those of the items.
LEMMA AbisOfItems ==
  ASSUME source \in Sources, ReadingInv, stage = "abi", methods \in Seq(MethodEntry)
  PROVE  /\ DOMAIN methods = DOMAIN source.items
         /\ \A k \in DOMAIN methods : methods[k].abi = source.items[k].abi
<1>1. /\ Len(methods) = Len(source.items)
      /\ \A k \in DOMAIN methods : methods[k] = MethodOf(source.items[k])
  BY DEF ReadingInv, ItemsInv
<1>2. \A item : MethodOf(item).abi = item.abi
  BY DEF MethodOf
<1> QED BY <1>1, <1>2, SourceElements, LenProperties

LEMMA StagesInOrder ==
  ASSUME NEW n \in DOMAIN Stages, stage = Stages[n]
  PROVE  (CHOOSE m \in DOMAIN Stages : Stages[m] = stage) = n
<1>1. /\ DOMAIN Stages = 1 .. 6
      /\ Stages[1] = "options" /\ Stages[2] = "settings" /\ Stages[3] = "where"
      /\ Stages[4] = "subtables" /\ Stages[5] = "items" /\ Stages[6] = "abi"
  BY DEF Stages
<1>2. \A k \in DOMAIN Stages : k = 1 \/ k = 2 \/ k = 3 \/ k = 4 \/ k = 5 \/ k = 6
  BY <1>1
<1>3. \A m \in DOMAIN Stages : Stages[m] = Stages[n] => m = n
  BY <1>1, <1>2
<1> QED BY <1>3

\* The rules of every stage before the one the macro is in.
EarlierLegal ==
  /\ stage # "options" => OptionsKnown
  /\ stage \notin {"options", "settings"} => OptionsOnce
  /\ stage \in {"subtables", "items", "abi"} => EntriesPlain
  /\ stage \in {"items", "abi"} => SubtablesLegal
  /\ stage = "abi" => ItemsLegal

LEMMA EarlierAreLegal ==
  ASSUME EarlierLegal, stage \in RangeOf(Stages)
  PROVE  LET reached == CHOOSE n \in DOMAIN Stages : Stages[n] = stage IN
         \A n \in 1 .. (reached - 1) : Legal(Stages[n])
<1> DEFINE reached == CHOOSE n \in DOMAIN Stages : Stages[n] = stage
<1>1. /\ DOMAIN Stages = 1 .. 6
      /\ Stages[1] = "options" /\ Stages[2] = "settings" /\ Stages[3] = "where"
      /\ Stages[4] = "subtables" /\ Stages[5] = "items" /\ Stages[6] = "abi"
  BY DEF Stages
<1>2. PICK r \in DOMAIN Stages : stage = Stages[r]
  BY DEF RangeOf
<1>3. reached = r
  BY <1>2, StagesInOrder
<1>4. /\ Legal("options") <=> OptionsKnown
      /\ Legal("settings") <=> OptionsOnce
      /\ Legal("where") <=> EntriesPlain
      /\ Legal("subtables") <=> SubtablesLegal
      /\ Legal("items") <=> ItemsLegal
  BY DEF Legal
<1>5. /\ r > 1 => Legal(Stages[1])
      /\ r > 2 => Legal(Stages[2])
      /\ r > 3 => Legal(Stages[3])
      /\ r > 4 => Legal(Stages[4])
      /\ r > 5 => Legal(Stages[5])
  <2>1. r = 1 \/ r = 2 \/ r = 3 \/ r = 4 \/ r = 5 \/ r = 6
    BY <1>1
  <2>2. /\ r > 1 => stage # "options"
        /\ r > 2 => stage \notin {"options", "settings"}
        /\ r > 3 => stage \in {"subtables", "items", "abi"}
        /\ r > 4 => stage \in {"items", "abi"}
        /\ r > 5 => stage = "abi"
    BY <1>1, <1>2, <2>1
  <2> QED BY <1>1, <1>4, <2>2 DEF EarlierLegal
<1>6. ASSUME NEW n \in 1 .. (r - 1) PROVE Legal(Stages[n])
  <2>1. n < r /\ (n = 1 \/ n = 2 \/ n = 3 \/ n = 4 \/ n = 5)
    BY <1>1
  <2> QED BY <1>5, <2>1
<1> QED BY <1>3, <1>6

-----------------------------------------------------------------------------
(* The verdict                                                             *)

Answers == {"none", "accepted", "panicked"}

\* The rules of the stage the macro is in.
StageBroken ==
  /\ stage = "options" => ~OptionsKnown
  /\ stage = "settings" => ~OptionsOnce
  /\ stage = "where" => ~EntriesPlain
  /\ stage = "subtables" => ~SubtablesLegal
  /\ stage = "items" => ~ItemsLegal
  /\ stage = "abi" => ~AbisGiven

VerdictMeant ==
  /\ verdict \in Messages \cup Answers
  /\ verdict = "accepted" => stage = "abi" /\ AbisGiven
  /\ verdict = "panicked" =>
       /\ stage = "options" /\ pos \in DOMAIN source.options
       /\ OptionError(source.options[pos]) = "none" /\ NotIdentifier(source.options[pos])
  /\ verdict \notin Answers => StageBroken

LEMMA BrokenIsIllegal ==
  ASSUME StageBroken, stage \in RangeOf(Stages)
  PROVE  ~Legal(stage)
<1>1. /\ Legal("options") <=> OptionsKnown
      /\ Legal("settings") <=> OptionsOnce
      /\ Legal("where") <=> EntriesPlain
      /\ Legal("subtables") <=> SubtablesLegal
      /\ Legal("items") <=> ItemsLegal
      /\ Legal("abi") <=> AbisGiven
  BY DEF Legal
<1> QED BY <1>1, StageNames DEF StageBroken

LEMMA RulesSame ==
  ASSUME source' = source
  PROVE  /\ OptionsKnown' <=> OptionsKnown
         /\ OptionsOnce' <=> OptionsOnce
         /\ EntriesPlain' <=> EntriesPlain
         /\ ItemsLegal' <=> ItemsLegal
         /\ AbisGiven' <=> AbisGiven
<1>1. OptionsKnown' <=> OptionsKnown
  BY DEF OptionsKnown
<1>2. OptionsOnce' <=> OptionsOnce
  BY DEF OptionsOnce
<1>3. EntriesPlain' <=> EntriesPlain
  BY DEF EntriesPlain
<1>4. ItemsLegal' <=> ItemsLegal
  BY DEF ItemsLegal
<1>5. AbisGiven' <=> AbisGiven
  BY DEF AbisGiven
<1> QED BY <1>1, <1>2, <1>3, <1>4, <1>5

LEMMA OptionsReturn ==
  ASSUME source \in Sources, ReadingInv, OptionMalformed \/ OptionPanics \/ OptionDuplicate
  PROVE  VerdictMeant'
<1> DEFINE o == source.options[pos]
<1>0. pos \in Nat \ {0}
  BY DEF ReadingInv, PlaceInv
<1>1. /\ pos \in DOMAIN source.options /\ UNCHANGED <<source, stage>>
      /\ o \in RangeOf(source.options)
  <2>1. pos <= Len(source.options) /\ UNCHANGED <<source, stage>>
    BY DEF OptionMalformed, OptionPanics, OptionDuplicate, Reading, Return
  <2>2. pos \in DOMAIN source.options
    BY <1>0, <2>1, SourceElements
  <2> QED BY <2>1, <2>2 DEF RangeOf
<1>2. CASE OptionMalformed
  <2>1. stage = "options" /\ verdict' = OptionError(o) /\ OptionError(o) # "none"
    BY <1>2 DEF OptionMalformed, Reading, Return
  <2>2. verdict' \in Messages /\ ~Known(o)
    BY <2>1, OptionChecked DEF CheckResult
  <2>3. ~OptionsKnown'
    BY <1>1, <2>2, KnownEach, RulesSame
  <2>4. StageBroken'
    BY <1>1, <2>1, <2>3 DEF StageBroken
  <2> QED BY <2>2, <2>4, MessagesAreErrors DEF VerdictMeant, Answers
<1>3. CASE OptionPanics
  <2>1. /\ stage = "options" /\ verdict' = "panicked" /\ pos' = pos
        /\ OptionError(o) = "none" /\ NotIdentifier(o)
    BY <1>3 DEF OptionPanics, Reading, Return
  <2>2. /\ pos' \in DOMAIN source'.options
        /\ OptionError(source'.options[pos']) = "none" /\ NotIdentifier(source'.options[pos'])
    BY <1>1, <2>1
  <2>3. verdict' \in Answers /\ verdict' # "accepted"
    BY <2>1 DEF Answers
  <2> QED BY <1>1, <2>1, <2>2, <2>3 DEF VerdictMeant
<1>4. CASE OptionDuplicate
  <2>1. /\ stage = "settings" /\ verdict' = "option can only be defined once"
        /\ o.name \in DOMAIN given
    BY <1>4 DEF OptionDuplicate, Reading, Return
  <2>0. DOMAIN given = {source.options[k].name :
                          k \in {k \in DOMAIN source.options : IsPast("settings", k)}}
    BY DEF ReadingInv, StoredInv
  <2>2. PICK k \in DOMAIN source.options : IsPast("settings", k) /\ source.options[k].name = o.name
    BY <2>0, <2>1
  <2>3. k # pos
    <3>1. stage \notin After["settings"]
      BY <2>1, AfterEach
    <3>2. k < pos
      BY <2>2, <3>1 DEF IsPast
    <3> QED BY <1>0, <3>2
  <2>4. ~OptionsOnce'
    BY <1>1, <2>2, <2>3, RulesSame DEF OptionsOnce
  <2>5. StageBroken'
    BY <1>1, <2>1, <2>4 DEF StageBroken
  <2>6. verdict' \in Messages
    BY <2>1 DEF Messages
  <2> QED BY <2>5, <2>6, MessagesAreErrors DEF VerdictMeant, Answers
<1> QED BY <1>2, <1>3, <1>4

LEMMA WhereReturns ==
  ASSUME source \in Sources, ReadingInv, PredicateMalformed
  PROVE  VerdictMeant'
<1> DEFINE p == source.where[pos]
<1>1. /\ stage = "where" /\ pos \in DOMAIN source.where /\ UNCHANGED <<source, stage>>
      /\ verdict' = PredicateError(p) /\ PredicateError(p) # "none"
  BY SourceElements DEF PredicateMalformed, Reading, Return, ReadingInv, PlaceInv
<1>2. verdict' \in Messages /\ ~PlainPredicate(p)
  BY <1>1, PredicateChecked, SourceElements DEF CheckResult
<1>3. ~EntriesPlain'
  BY <1>1, <1>2, PlainEach, RulesSame
<1>4. StageBroken'
  BY <1>1, <1>3 DEF StageBroken
<1> QED BY <1>2, <1>4, MessagesAreErrors DEF VerdictMeant, Answers

LEMMA ItemsReturn ==
  ASSUME source \in Sources, ReadingInv, methods \in Seq(MethodEntry),
         ItemRejected \/ AbiMissing \/ Accept
  PROVE  VerdictMeant'
<1>1. UNCHANGED <<source, stage>>
  BY DEF ItemRejected, AbiMissing, Accept, Return
<1>2. CASE ItemRejected
  <2> DEFINE item == source.items[pos]
  <2>1. /\ stage = "items" /\ pos \in DOMAIN source.items
        /\ verdict' = ItemError(item) /\ ItemError(item) # "none"
    BY <1>2, SourceElements DEF ItemRejected, Reading, Return, ReadingInv, PlaceInv
  <2>2. verdict' \in Messages /\ ~PlainMethod(item)
    BY <2>1, ItemChecked, SourceElements DEF CheckResult
  <2>3. ~ItemsLegal'
    BY <1>1, <2>1, <2>2, LegalEach, RulesSame
  <2>4. StageBroken'
    BY <1>1, <2>1, <2>3 DEF StageBroken
  <2> QED BY <2>2, <2>4, MessagesAreErrors DEF VerdictMeant, Answers
<1>3. CASE AbiMissing
  <2>1. /\ stage = "abi" /\ pos <= Len(methods) /\ ~settings.relax_abi /\ methods[pos].abi = "none"
        /\ verdict' = "missing explicit ABI specifier"
    BY <1>3 DEF AbiMissing, Reading, Return
  <2>2. pos \in DOMAIN methods
    <3>1. pos \in Nat \ {0}
      BY DEF ReadingInv, PlaceInv
    <3>2. DOMAIN methods = 1 .. Len(methods) /\ Len(methods) \in Nat
      BY LenProperties
    <3>3. pos <= Len(methods)
      BY <2>1
    <3> QED BY <3>1, <3>2, <3>3
  <2>3. source.items[pos] \in RangeOf(source.items) /\ source.items[pos].abi = "none"
    BY <2>1, <2>2, AbisOfItems DEF RangeOf
  <2>4. ~\E o \in RangeOf(source.options) : o.name = "relax_abi" /\ o.value = TRUE
    BY <2>1, RelaxedAs, AfterEach
  <2>5. ~AbisGiven
    BY <2>3, <2>4 DEF AbisGiven
  <2>6. StageBroken'
    BY <1>1, <2>1, <2>5, RulesSame DEF StageBroken
  <2>7. verdict' \in Messages
    BY <2>1 DEF Messages
  <2> QED BY <2>6, <2>7, MessagesAreErrors DEF VerdictMeant, Answers
<1>4. CASE Accept
  <2>1. stage = "abi" /\ pos > Len(methods) /\ verdict' = "accepted"
    BY <1>4 DEF Accept, PastEnd, Return
  <2>2. \A k \in DOMAIN methods : k < pos
    BY <2>1, LenProperties DEF ReadingInv, PlaceInv
  <2>3. \A k \in DOMAIN methods : settings.relax_abi \/ methods[k].abi # "none"
    BY <2>1, <2>2 DEF ReadingInv, ItemsInv
  <2>4. AbisGiven
    <3>1. CASE settings.relax_abi
      BY <2>1, <3>1, RelaxedAs, AfterEach DEF AbisGiven
    <3>2. CASE ~settings.relax_abi
      BY <2>1, <2>3, <3>2, AbisOfItems DEF AbisGiven, RangeOf
    <3> QED BY <3>1, <3>2
  <2> QED BY <1>1, <2>1, <2>4, RulesSame DEF VerdictMeant, Answers
<1> QED BY <1>2, <1>3, <1>4

-----------------------------------------------------------------------------
(* The macro as a whole                                                    *)

SubtablesInv == Typed /\ ParentInv /\ VerdictInv /\ BuildInv

TraitInv ==
  /\ source \in Sources
  /\ ReadingInv /\ SolveInv
  /\ methods \in Seq(MethodEntry)
  /\ VerdictMeant
  /\ SubtablesInv

LEMMA SubtablesKept == SubtablesInv /\ [Next]_vars => SubtablesInv'
  BY TypeStep, ParentStep, VerdictStep, BuildStep DEF SubtablesInv

LEMMA SubtablesStart == InputTyped /\ Start => SubtablesInv
  BY TypeStart, ParentStart, VerdictStart, BuildStart DEF SubtablesInv

\* What solve_subtables is given has its type.
LEMMA StrippedTyped ==
  ASSUME source \in Sources, WhereInv, Stripped
  PROVE  InputTyped'
<1> DEFINE bounds == TraitBounds(source.supertraits)
           paths == [k \in DOMAIN bounds |-> bounds[k].path]
<1>1. input' = [supertraits |-> paths, predicates |-> dyn_entries]
  BY DEF Stripped
<1>2. dyn_entries \in Seq(Entries)
  BY DEF WhereInv
<1>3. bounds \in Seq(TraitBound)
  BY SourceParts
<1> HIDE DEF bounds
<1>4. /\ Len(bounds) \in Nat /\ DOMAIN bounds = 1 .. Len(bounds)
      /\ \A k \in DOMAIN bounds : bounds[k] \in TraitBound
  BY <1>3, LenProperties, ElementOfSeq
<1>5. \A k \in DOMAIN bounds : bounds[k].path \in Paths
  BY <1>4 DEF TraitBound
<1>6. paths \in Seq(Paths)
  <2>1. paths \in [1 .. Len(bounds) -> Paths]
    BY <1>4, <1>5
  <2> QED BY <1>4, <2>1, SeqDef
<1> HIDE DEF paths
<1> QED BY <1>1, <1>2, <1>6 DEF InputTyped

LEMMA StartKept ==
  ASSUME Start, UNCHANGED <<pc, i, error, supertrait_map, specified_paths, ref_tokens, used,
                            subtables, todo, used_names, fields>>
  PROVE  Start'
  BY DEF Start

\* The errors of solve_subtables.
SolveMessages ==
  {"supertrait already listed", "this path is a duplicate",
   "dyn trait bound has no relation to the defined trait",
   "& may only be applied to toplevel trait bounds", "stack overflow"}

LEMMA SolveAnswers ==
  ASSUME Next, pc' \in {"error", "aborted"}
  PROVE  error' \in SolveMessages
<1>1. CASE PredicateListed \/ PredicateDuplicates \/ GraphOverflows
  BY <1>1 DEF PredicateListed, PredicateDuplicates, GraphOverflows, Fail, SolveMessages
<1>2. CASE BoundsDone
  BY <1>2, BoundsOutcome DEF SolveMessages
<1>3. CASE Predicate \/ PredicatesDone \/ Graph \/ GraphDone \/ Name \/ NamesDone
  BY <1>3 DEF Predicate, PredicatesDone, Graph, GraphDone, Name, NamesDone
<1>4. CASE Bound
  BY <1>4 DEF Bound
<1> QED BY <1>1, <1>2, <1>3, <1>4 DEF Next

LEMMA SolveMessagesAre == SolveMessages \subseteq Messages
  BY DEF SolveMessages, Messages

RefusedRightly == pc \in {"error", "aborted"} => ~SubtablesLegal

LEMMA SolveRefuses == VerdictCorrect => RefusedRightly
<1> SUFFICES ASSUME VerdictCorrect, pc \in {"error", "aborted"} PROVE ~SubtablesLegal
  BY DEF RefusedRightly
<1>1. CASE pc = "aborted"
  BY <1>1 DEF VerdictCorrect, SubtablesLegal
<1>2. CASE pc = "error"
  <2>1. ~ListedOnce \/ ~BoundedOnce \/ ~Related \/ ~RefsOnTop
    BY <1>2 DEF VerdictCorrect
  <2> QED BY <2>1 DEF SubtablesLegal
<1> QED BY <1>1, <1>2

\* A step that goes on has no verdict.
LEMMA NoVerdictYet == ASSUME verdict = "none", verdict' = verdict PROVE VerdictMeant'
  BY DEF VerdictMeant, Answers

LEMMA OptionsStep ==
  ASSUME TraitInv, ReadOptions
  PROVE  ReadingInv' /\ SolveInv' /\ VerdictMeant'
<1>1. /\ UNCHANGED <<where_clause, dyn_entries, methods>> /\ source' = source
      /\ UNCHANGED <<pc, i, error, supertrait_map, specified_paths, ref_tokens, used,
                     subtables, todo, used_names, fields>>
      /\ verdict = "none" /\ stage \in {"options", "settings"}
      /\ stage' \in {"options", "settings", "where"}
  BY DEF ReadOptions, OptionsNext, ParseOption, OptionMalformed, OptionPanics, OptionsParsed,
         StoreOption, OptionDuplicate, Settle, Reading, PastEnd, Continue, Enter, Return,
         entryVars, subtableVars
<1>2. SolveInv'
  <2>1. Start
    BY <1>1 DEF TraitInv, SolveInv
  <2>2. Start'
    BY <1>1, <2>1, StartKept
  <2> QED BY <1>1, <2>2 DEF SolveInv
<1>3. CASE ParseOption \/ OptionsParsed \/ StoreOption \/ Settle
  <2>1. verdict' = verdict
    BY <1>3 DEF ParseOption, OptionsParsed, StoreOption, Settle, Continue, Enter
  <2>2. ReadingInv'
    BY <1>1, <1>3, ParseOptionReads, OptionsParsedReads, StoreOptionReads, SettleReads DEF TraitInv
  <2> QED BY <1>1, <1>2, <2>1, <2>2, NoVerdictYet
<1>4. CASE OptionMalformed \/ OptionPanics \/ OptionDuplicate
  <2>1. UNCHANGED <<source, stage, pos, given, settings>>
    BY <1>4 DEF OptionMalformed, OptionPanics, OptionDuplicate, Return
  <2>2. ReadingInv'
    BY <1>1, <2>1, ReadingKept DEF TraitInv
  <2> QED BY <1>2, <1>4, <2>2, OptionsReturn DEF TraitInv
<1> QED BY <1>3, <1>4 DEF ReadOptions, OptionsNext

LEMMA StripStep ==
  ASSUME TraitInv, Strip
  PROVE  ReadingInv' /\ SolveInv' /\ VerdictMeant'
<1>1. /\ UNCHANGED <<given, settings, methods, source, stage>>
      /\ UNCHANGED <<pc, i, error, supertrait_map, specified_paths, ref_tokens, used,
                     subtables, todo, used_names, fields>>
      /\ verdict = "none" /\ stage = "where"
  BY DEF Strip, StripNext, PredicateKept, PredicateStripped, PredicateMalformed, Reading, Continue,
         Return, optionVars, subtableVars
<1>2. SolveInv'
  <2>1. Start
    BY <1>1 DEF TraitInv, SolveInv
  <2>2. Start'
    BY <1>1, <2>1, StartKept
  <2> QED BY <1>1, <2>2 DEF SolveInv
<1>3. CASE PredicateKept \/ PredicateStripped
  <2>1. verdict' = verdict
    BY <1>3 DEF PredicateKept, PredicateStripped, Continue
  <2>2. ReadingInv'
    BY <1>1, <1>3, PredicateReads DEF TraitInv
  <2> QED BY <1>1, <1>2, <2>1, <2>2, NoVerdictYet
<1>4. CASE PredicateMalformed
  <2>1. UNCHANGED <<pos, where_clause, dyn_entries>>
    BY <1>4 DEF PredicateMalformed, Return
  <2>2. ReadingInv'
    BY <1>1, <2>1, ReadingKept DEF TraitInv
  <2> QED BY <1>2, <1>4, <2>2, WhereReturns DEF TraitInv
<1> QED BY <1>3, <1>4 DEF Strip, StripNext

LEMMA StrippedStep ==
  ASSUME TraitInv, Stripped
  PROVE  ReadingInv' /\ SolveInv' /\ VerdictMeant' /\ SubtablesInv'
<1>1. /\ UNCHANGED <<pc, i, error, supertrait_map, specified_paths, ref_tokens, used,
                     subtables, todo, used_names, fields>>
      /\ verdict = "none" /\ verdict' = verdict /\ stage = "where" /\ stage' = "subtables"
  BY DEF Stripped, PastEnd, Enter
<1>2. Start'
  <2>1. Start
    BY <1>1 DEF TraitInv, SolveInv
  <2> QED BY <1>1, <2>1, StartKept
<1>3. SolveInv'
  <2>1. pc' = "predicates"
    BY <1>2 DEF Start
  <2> QED BY <1>1, <2>1 DEF SolveInv
<1>4. ReadingInv'
  BY StrippedReads DEF TraitInv
<1>5. InputTyped'
  BY StrippedTyped DEF TraitInv, ReadingInv
<1>6. InputTyped' /\ Start' => SubtablesInv'
  BY SubtablesStart, PTL
<1> QED BY <1>1, <1>2, <1>3, <1>4, <1>5, <1>6, NoVerdictYet

LEMMA SolveStep ==
  ASSUME TraitInv, Solve
  PROVE  ReadingInv' /\ SolveInv' /\ VerdictMeant'
<1>1. /\ stage = "subtables" /\ verdict = "none" /\ Next
      /\ UNCHANGED <<given, settings, where_clause, dyn_entries, methods>>
  BY DEF Solve, optionVars, entryVars
<1>2. CASE pc' \in {"error", "aborted"}
  <2>1. UNCHANGED <<source, stage, pos>> /\ verdict' = error'
    BY <1>2 DEF Solve, Return
  <2>2. ReadingInv'
    BY <1>1, <2>1, ReadingKept DEF TraitInv
  <2>3. verdict' \in Messages /\ verdict' \notin Answers
    BY <1>1, <1>2, <2>1, SolveAnswers, SolveMessagesAre, MessagesAreErrors DEF Answers
  <2>4. SolveInv'
    BY <1>1, <2>1, <2>3 DEF SolveInv, Answers
  <2>5. ~SubtablesLegal'
    <3>1. SubtablesInv'
      BY <1>1, SubtablesKept DEF TraitInv
    <3>2. VerdictCorrect'
      BY <3>1 DEF SubtablesInv, VerdictInv
    <3>3. VerdictCorrect' => RefusedRightly'
      BY SolveRefuses, PTL
    <3> QED BY <1>2, <3>2, <3>3 DEF RefusedRightly
  <2>6. StageBroken'
    BY <1>1, <2>1, <2>5 DEF StageBroken
  <2> QED BY <2>2, <2>3, <2>4, <2>6 DEF VerdictMeant, Answers
<1>3. CASE pc' = "ok"
  <2>1. Enter("items")
    BY <1>3 DEF Solve
  <2>2. stage' = "items" /\ verdict' = verdict
    BY <2>1 DEF Enter
  <2>3. SolveInv'
    BY <1>3, <2>2 DEF SolveInv
  <2>4. ReadingInv'
    BY <1>1, <2>1, SolvedReads DEF TraitInv
  <2> QED BY <1>1, <2>2, <2>3, <2>4, NoVerdictYet
<1>4. CASE pc' \notin {"ok", "error", "aborted"}
  <2>1. UNCHANGED <<source, stage, pos, verdict>>
    BY <1>4 DEF Solve
  <2>2. ReadingInv'
    BY <1>1, <2>1, ReadingKept DEF TraitInv
  <2>3. SolveInv'
    BY <1>1, <1>4, <2>1 DEF SolveInv
  <2> QED BY <1>1, <2>1, <2>2, <2>3, NoVerdictYet
<1> QED BY <1>2, <1>3, <1>4

LEMMA ItemsStep ==
  ASSUME TraitInv, ReadItems
  PROVE  ReadingInv' /\ SolveInv' /\ VerdictMeant' /\ methods' \in Seq(MethodEntry)
<1>1. /\ UNCHANGED <<given, settings, where_clause, dyn_entries, source, pc>>
      /\ verdict = "none" /\ stage \in {"items", "abi"} /\ stage' \in {"items", "abi"}
      /\ methods \in Seq(MethodEntry) /\ source \in Sources /\ ReadingInv
  BY DEF ReadItems, ItemsNext, ReadMethod, ItemRejected, ItemsRead, AbiMissing, AbiExplicit, Accept,
         Reading, PastEnd, Continue, Enter, Return, optionVars, entryVars, subtableVars, TraitInv
<1>2. SolveInv'
  BY <1>1 DEF TraitInv, SolveInv
<1>3. CASE ReadMethod
  <2> DEFINE item == source.items[pos]
  <2>1. verdict' = verdict /\ methods' = Append(methods, MethodOf(item))
    BY <1>3 DEF ReadMethod, Continue
  <2>2. ItemError(item) = "none" /\ pos \in 1 .. Len(source.items)
    BY <1>1, <1>3, SourceElements DEF ReadMethod, Reading, ReadingInv, PlaceInv
  <2>3. MethodOf(item) \in MethodEntry
    BY <1>1, <2>2, SourceElements, ItemChecked, MethodTyped
  <2>4. methods' \in Seq(MethodEntry)
    BY <1>1, <2>1, <2>3, AppendProperties
  <2>5. ReadingInv'
    BY <1>1, <1>3, ReadMethodReads
  <2> QED BY <1>1, <1>2, <2>1, <2>4, <2>5, NoVerdictYet
<1>4. CASE ItemsRead \/ AbiExplicit
  <2>1. verdict' = verdict /\ methods' = methods
    BY <1>4 DEF ItemsRead, AbiExplicit, Continue, Enter
  <2>2. ReadingInv'
    BY <1>1, <1>4, ItemsReadReads, AbiExplicitReads
  <2> QED BY <1>1, <1>2, <2>1, <2>2, NoVerdictYet
<1>5. CASE ItemRejected \/ AbiMissing \/ Accept
  <2>1. UNCHANGED <<stage, pos, methods>>
    BY <1>5 DEF ItemRejected, AbiMissing, Accept, Return
  <2>2. ReadingInv'
    BY <1>1, <2>1, ReadingKept
  <2> QED BY <1>1, <1>2, <1>5, <2>1, <2>2, ItemsReturn
<1> QED BY <1>3, <1>4, <1>5 DEF ReadItems, ItemsNext

LEMMA TraitStart == TraitInit => TraitInv
<1> SUFFICES ASSUME TraitInit PROVE TraitInv
  OBVIOUS
<1>1. /\ source \in Sources /\ stage = "options" /\ pos = 1 /\ verdict = "none" /\ Start
      /\ input = [supertraits |-> <<>>, predicates |-> <<>>]
      /\ given = <<>> /\ settings = Defaults /\ where_clause = <<>> /\ dyn_entries = <<>>
      /\ methods = <<>>
  BY DEF TraitInit, OptionsInit, EntriesInit, ItemsInit
<1>2. SubtablesInv
  <2>1. InputTyped
    BY <1>1, EmptySeq DEF InputTyped
  <2> QED BY <1>1, <2>1, SubtablesStart
<1>3. SolveInv
  BY <1>1 DEF SolveInv
<1>4. VerdictMeant
  BY <1>1 DEF VerdictMeant, Answers
<1>5. methods \in Seq(MethodEntry)
  BY <1>1, EmptySeq
<1>6. \A s \in Loops, k \in Nat \ {0} : ~IsPast(s, k)
  BY <1>1, AfterEach DEF IsPast, Loops
<1>7. PlaceInv
  BY <1>1, SourceElements, StageNames DEF PlaceInv
<1>8. OptionsInv
  BY <1>1, <1>6, SourceElements DEF OptionsInv, Loops
<1>9. StoredInv
  <2>1. {k \in DOMAIN source.options : IsPast("settings", k)} = {}
    BY <1>1, <1>6, SourceElements DEF Loops
  <2>2. DOMAIN given = {}
    BY <1>1
  <2> QED BY <2>1, <2>2 DEF StoredInv
<1>10. SettingsInv
  BY <1>1, AfterEach DEF SettingsInv
<1>11. WhereInv
  BY <1>1, <1>6, SourceElements, EmptySeq DEF WhereInv, Loops
<1>12. ItemsInv
  <2>1. Len(methods) = 0 /\ DOMAIN methods = {}
    BY <1>1
  <2> QED BY <1>1, <1>6, <2>1, SourceElements DEF ItemsInv, Loops
<1> QED
  BY <1>1, <1>2, <1>3, <1>4, <1>5, <1>7, <1>8, <1>9, <1>10, <1>11, <1>12 DEF TraitInv, ReadingInv

LEMMA TraitStep == TraitInv /\ [TraitNext]_traitVars => TraitInv'
<1> SUFFICES ASSUME TraitInv, [TraitNext]_traitVars PROVE TraitInv'
  OBVIOUS
<1>1. source' = source
  BY DEF TraitNext, ReadOptions, OptionsNext, ParseOption, OptionMalformed, OptionPanics,
         OptionsParsed, StoreOption, OptionDuplicate, Settle, Strip, StripNext, PredicateKept,
         PredicateStripped, PredicateMalformed, Stripped, Solve, ReadItems, ItemsNext, ReadMethod,
         ItemRejected, ItemsRead, AbiMissing, AbiExplicit, Accept, Continue, Enter, Return, traitVars
<1>2. CASE UNCHANGED traitVars
  <2>1. /\ UNCHANGED <<source, stage, pos, verdict, given, settings, where_clause, dyn_entries, methods>>
        /\ UNCHANGED <<pc, i, error, supertrait_map, specified_paths, ref_tokens, used,
                       subtables, todo, used_names, fields>>
        /\ UNCHANGED vars
    BY <1>2 DEF traitVars, optionVars, entryVars, subtableVars, vars
  <2>2. ReadingInv'
    BY <2>1, ReadingKept DEF TraitInv
  <2>3. SolveInv'
    BY <2>1, StartKept DEF TraitInv, SolveInv
  <2>4. SubtablesInv'
    BY <2>1, SubtablesKept DEF TraitInv
  <2>5. VerdictMeant'
    <3>1. input' = input
      BY <2>1 DEF vars
    <3>2. SubtablesLegal' <=> SubtablesLegal
      BY <3>1, MeaningSame DEF SubtablesLegal
    <3>3. StageBroken' <=> StageBroken
      BY <2>1, <3>2, RulesSame DEF StageBroken
    <3> QED BY <2>1, <3>3, RulesSame DEF TraitInv, VerdictMeant
  <2> QED BY <2>1, <2>2, <2>3, <2>4, <2>5 DEF TraitInv
<1>3. CASE ReadOptions \/ Strip
  <2>1. UNCHANGED vars /\ methods' = methods
    BY <1>3 DEF ReadOptions, Strip, subtableVars, vars
  <2>2. SubtablesInv'
    BY <2>1, SubtablesKept DEF TraitInv
  <2> QED BY <1>1, <1>3, <2>1, <2>2, OptionsStep, StripStep DEF TraitInv
<1>4. CASE Stripped
  <2>1. methods' = methods
    BY <1>4 DEF Stripped
  <2> QED BY <1>1, <1>4, <2>1, StrippedStep DEF TraitInv
<1>5. CASE Solve
  <2>1. Next /\ methods' = methods
    BY <1>5 DEF Solve
  <2>2. SubtablesInv'
    BY <2>1, SubtablesKept DEF TraitInv
  <2> QED BY <1>1, <1>5, <2>1, <2>2, SolveStep DEF TraitInv
<1>6. CASE ReadItems
  <2>1. UNCHANGED vars
    BY <1>6 DEF ReadItems, subtableVars, vars
  <2>2. SubtablesInv'
    BY <2>1, SubtablesKept DEF TraitInv
  <2> QED BY <1>1, <1>6, <2>2, ItemsStep DEF TraitInv
<1> QED BY <1>2, <1>3, <1>4, <1>5, <1>6 DEF TraitNext

LEMMA TraitAlways == TraitSpec => []TraitInv
  BY TraitStart, TraitStep, PTL DEF TraitSpec

\* The variables of solve_subtables have their types however the macro comes to it.
THEOREM SubtablesTyped == TraitSpec => []TypeOK
<1>1. TraitInv => TypeOK
  BY TypedTypeOK DEF TraitInv, SubtablesInv
<1> QED BY <1>1, TraitAlways, PTL

\* The subtables of a source are accepted, and refused, by the rules on its dyn entries:
\* the stages before hand solve_subtables what it takes.
THEOREM SolvedRightly == TraitSpec => []VerdictCorrect
<1>1. TraitInv => VerdictCorrect
  BY DEF TraitInv, SubtablesInv, VerdictInv
<1> QED BY <1>1, TraitAlways, PTL

\* No trait has two parents, whatever the source.
THEOREM OneParentInTrait == TraitSpec => []OneParent
<1>1. TraitInv => OneParent
  BY DEF TraitInv, SubtablesInv, ParentInv
<1> QED BY <1>1, TraitAlways, PTL

\* The subtables of any source that is accepted are its supertraits with a dyn entry, each
\* with the graph of all that is reached from it.
THEOREM SubtablesExactInTrait == TraitSpec => []SubtablesExact
<1>1. TraitInv => SubtablesExact
  BY DEF TraitInv, SubtablesInv, BuildInv, SubtablesExact
<1> QED BY <1>1, TraitAlways, PTL

\* How far each loop is says what is known of the list it reads.
THEOREM StagesAreRead == TraitSpec => []StagesInv
<1>1. TraitInv => StagesInv
  BY StagesParts DEF TraitInv
<1> QED BY <1>1, TraitAlways, PTL

LEMMA EarlierStages == TraitInv => EarlierLegal
<1> SUFFICES ASSUME TraitInv PROVE EarlierLegal
  OBVIOUS
<1>1. source \in Sources /\ ReadingInv /\ SolveInv /\ VerdictCorrect
  BY DEF TraitInv, SubtablesInv, VerdictInv
<1>2. stage \in {"options", "settings", "where", "subtables", "items", "abi"}
  BY <1>1, StageNames DEF ReadingInv, PlaceInv
<1>3. stage # "options" => OptionsKnown
  BY <1>1, <1>2, OptionsPast, AfterEach
<1>4. stage \notin {"options", "settings"} => OptionsOnce
  BY <1>1, <1>2, SettingsPast, AfterEach
<1>5. stage \in {"subtables", "items", "abi"} => EntriesPlain
  BY <1>1, WherePast, AfterEach
<1>6. stage \in {"items", "abi"} => SubtablesLegal
  BY <1>1 DEF SolveInv, VerdictCorrect, SubtablesLegal
<1>7. stage = "abi" => ItemsLegal
  BY <1>1, ItemsPast
<1> QED BY <1>3, <1>4, <1>5, <1>6, <1>7 DEF EarlierLegal

\* The macro is in a stage only if the source follows the rules of all stages before it,
\* and it returns an error only if the source breaks those of the stage it is in:
\* the verdict is right for any source, and the error is of the first stage that fails.
\* It panics at the drop ABI that is not an identifier, and nowhere else.
THEOREM VerdictsAreOfFirstStage == TraitSpec => []VerdictOfFirstStage
<1>1. ASSUME TraitInv PROVE VerdictOfFirstStage
  <2>1. stage \in RangeOf(Stages) /\ VerdictMeant
    BY <1>1 DEF TraitInv, ReadingInv, PlaceInv
  <2>2. LET reached == CHOOSE n \in DOMAIN Stages : Stages[n] = stage IN
        \A n \in 1 .. (reached - 1) : Legal(Stages[n])
    BY <1>1, <2>1, EarlierStages, EarlierAreLegal
  <2>3. Legal("abi") <=> AbisGiven
    BY DEF Legal
  <2>4. verdict \notin {"none", "accepted", "panicked"} => ~Legal(stage)
    BY <2>1, BrokenIsIllegal DEF VerdictMeant, Answers
  <2> QED BY <2>1, <2>2, <2>3, <2>4 DEF VerdictOfFirstStage, VerdictMeant
<1> QED BY <1>1, TraitAlways, PTL

\* An accepted trait is generated with the options the source gives, and the defaults of
\* those it does not give, whatever their order.
THEOREM OptionsAreMeant == TraitSpec => []OptionsMeant
<1>1. ASSUME TraitInv, verdict = "accepted", NEW n \in DOMAIN settings
      PROVE  IF \E o \in RangeOf(source.options) : o.name = n
             THEN \E o \in RangeOf(source.options) : o.name = n /\ settings[n] = Stored(o)
             ELSE settings[n] = Defaults[n]
  <2>1. ReadingInv /\ stage \in After["settings"]
    BY <1>1, AfterEach DEF TraitInv, VerdictMeant
  <2>2. n \in DOMAIN Defaults
    BY <1>1, <2>1 DEF ReadingInv, SettingsInv
  <2> QED BY <2>1, <2>2, SettledAs
<1>2. TraitInv => OptionsMeant
  BY <1>1 DEF OptionsMeant
<1> QED BY <1>2, TraitAlways, PTL

LEMMA SettingsTyped ==
  ASSUME source \in Sources, ReadingInv
  PROVE  settings \in [repr : STRING, relax_abi : BOOLEAN, drop : STRING,
                       embed_layout : BOOLEAN, vtable : STRING]
<1> DEFINE Settled == [repr : STRING, relax_abi : BOOLEAN, drop : STRING,
                       embed_layout : BOOLEAN, vtable : STRING]
<1>1. /\ DOMAIN Defaults = {"repr", "relax_abi", "drop", "embed_layout", "vtable"}
      /\ Defaults["repr"] \in STRING /\ Defaults["relax_abi"] \in BOOLEAN
      /\ Defaults["drop"] \in STRING /\ Defaults["embed_layout"] \in BOOLEAN
      /\ Defaults["vtable"] \in STRING
  BY WordsAssumption DEF Defaults
<1>2. Defaults \in Settled
  BY WordsAssumption DEF Defaults
<1>3. CASE stage \notin After["settings"]
  BY <1>2, <1>3 DEF ReadingInv, SettingsInv
<1>4. CASE stage \in After["settings"]
  <2>1. \A o \in RangeOf(source.options) :
          /\ o.name \in {"repr", "drop", "vtable"} => Stored(o) \in STRING
          /\ o.name \in {"relax_abi", "embed_layout"} => Stored(o) \in BOOLEAN
    <3> SUFFICES ASSUME NEW o \in RangeOf(source.options)
                 PROVE  /\ o.name \in {"repr", "drop", "vtable"} => Stored(o) \in STRING
                        /\ o.name \in {"relax_abi", "embed_layout"} => Stored(o) \in BOOLEAN
      OBVIOUS
    <3>1. Known(o)
      BY <1>4, OptionsPast, KnownEach, AfterEach DEF RangeOf
    <3>2. o \in Option
      BY SourceElements DEF RangeOf
    <3>3. CASE o.name \in {"repr", "drop", "vtable"}
      <4>1. o.is \in {"ident", "string"}
        BY <3>1, <3>3 DEF Known
      <4>2. o.value \in STRING
        BY <3>2, <4>1 DEF Option
      <4> QED BY <3>3, <4>2, WordsAssumption DEF Stored
    <3>4. CASE o.name \in {"relax_abi", "embed_layout"}
      <4>1. o.is = "bool"
        BY <3>1, <3>4 DEF Known
      <4>2. o.value \in BOOLEAN
        BY <3>2, <4>1 DEF Option
      <4> QED BY <3>4, <4>2 DEF Stored
    <3> QED BY <3>3, <3>4
  <2>2. \A n \in DOMAIN Defaults :
          \/ settings[n] = Defaults[n]
          \/ \E o \in RangeOf(source.options) : o.name = n /\ settings[n] = Stored(o)
    BY <1>4, SettledAs
  <2>3. settings =
          [n \in DOMAIN Defaults |-> IF n \in DOMAIN given THEN given[n] ELSE Defaults[n]]
    BY <1>4 DEF ReadingInv, SettingsInv
  <2>4. /\ settings["repr"] \in STRING /\ settings["drop"] \in STRING
        /\ settings["vtable"] \in STRING
    BY <1>1, <2>1, <2>2
  <2>5. settings["relax_abi"] \in BOOLEAN /\ settings["embed_layout"] \in BOOLEAN
    BY <1>1, <2>1, <2>2
  <2>6. settings = [n \in {"repr", "relax_abi", "drop", "embed_layout", "vtable"} |-> settings[n]]
    BY <1>1, <2>3
  <2> QED BY <2>4, <2>5, <2>6
<1> QED BY <1>3, <1>4

\* The variables of the parsers have their types: what is stored under the name of an
\* option is of its kind.
THEOREM ParsersTyped == TraitSpec => []ParsersTypeOK
<1>1. ASSUME TraitInv PROVE ParsersTypeOK
  <2>1. source \in Sources /\ ReadingInv /\ VerdictMeant /\ methods \in Seq(MethodEntry)
    BY <1>1 DEF TraitInv
  <2>2. DOMAIN given \subseteq DOMAIN Takes
    <3>1. CASE stage = "options"
      <4>1. ~\E k \in DOMAIN source.options : IsPast("settings", k)
        BY <3>1, AfterEach DEF IsPast
      <4> QED BY <2>1, <4>1 DEF ReadingInv, StoredInv
    <3>2. CASE stage # "options"
      <4>1. OptionsKnown
        BY <2>1, <3>2, OptionsPast, AfterEach, StageNames DEF ReadingInv, PlaceInv
      <4>2. \A k \in DOMAIN source.options : source.options[k].name \in DOMAIN Takes
        BY <4>1, KnownEach, OptionNames DEF Known
      <4> QED BY <2>1, <4>2 DEF ReadingInv, StoredInv
    <3> QED BY <3>1, <3>2
  <2> QED BY <2>1, <2>2, SettingsTyped
        DEF ParsersTypeOK, ReadingInv, PlaceInv, WhereInv, VerdictMeant, Answers
<1> QED BY <1>1, TraitAlways, PTL

\* The fields of any trait that is accepted have different names, unless one of its
\* supertraits is named like another with a count behind it.
THEOREM FieldsAreDistinct == ASSUME NoNameCounted PROVE TraitSpec => []FieldNamesDistinct
<1>1. TraitInit => NamesInv
  BY NamesStart DEF TraitInit
<1>2. ASSUME TraitInv, NamesInv, [TraitNext]_traitVars PROVE NamesInv'
  <2>1. CASE [Next]_vars
    BY <1>2, <2>1, NamesStep DEF TraitInv, SubtablesInv
  <2>2. CASE Stripped
    <3>1. Start
      BY <1>2, <2>2 DEF Stripped, PastEnd, TraitInv, SolveInv
    <3>2. Start'
      BY <2>2, <3>1, StartKept DEF Stripped
    <3>3. Start' => NamesInv'
      BY NamesStart, PTL
    <3> QED BY <3>2, <3>3
  <2>3. [Next]_vars \/ Stripped
    BY <1>2 DEF TraitNext, ReadOptions, Strip, Solve, ReadItems, subtableVars, vars, traitVars
  <2> QED BY <2>1, <2>2, <2>3
<1>3. NamesInv => FieldNamesDistinct
  BY DEF NamesInv
<1> QED BY <1>1, <1>2, <1>3, TraitAlways, PTL DEF TraitSpec

-----------------------------------------------------------------------------
(* What becomes of the predicates                                          *)

EntriesAmong(list, n) == {k \in 1 .. n : list[k].object # <<>>}

OthersAmong(list, n) == {k \in 1 .. n : list[k].object = <<>>}

\* The entry says what the predicate says.
EntryOf(entry, p) ==
  /\ entry.path = p.object[1].path
  /\ entry.ref <=> p.ref # "none"
  /\ Len(entry.bounds) = Len(p.bounds)
  /\ \A j \in DOMAIN p.bounds : entry.bounds[j] = p.bounds[j].path

\* The first n predicates of the list are divided between the clause and the entries.
Divided(list, n, clause, entries) ==
  /\ Len(clause) = Cardinality(OthersAmong(list, n))
  /\ \A k \in OthersAmong(list, n) : clause[Rank(OthersAmong(list, n), k)] = list[k]
  /\ Len(entries) = Cardinality(EntriesAmong(list, n))
  /\ \A k \in EntriesAmong(list, n) : EntryOf(entries[Rank(EntriesAmong(list, n), k)], list[k])

LEMMA ConservedDivides ==
  /\ ConservedUpTo(PredicatesRead) <=>
       Divided(source.where, PredicatesRead, where_clause, dyn_entries)
  /\ ConservedUpTo(PredicatesRead)' <=>
       Divided(source.where, PredicatesRead, where_clause, dyn_entries)'
<1>1. ConservedUpTo(PredicatesRead) <=>
        Divided(source.where, PredicatesRead, where_clause, dyn_entries)
  BY DEF ConservedUpTo, Divided, OthersAmong, EntriesAmong, EntryOf
<1> QED BY <1>1, PTL

LEMMA NextAmong ==
  ASSUME NEW list, NEW n \in Nat
  PROVE  /\ EntriesAmong(list, n) \in SUBSET (1 .. n) /\ OthersAmong(list, n) \in SUBSET (1 .. n)
         /\ list[n + 1].object = <<>> =>
              /\ EntriesAmong(list, n + 1) = EntriesAmong(list, n)
              /\ OthersAmong(list, n + 1) = OthersAmong(list, n) \cup {n + 1}
         /\ list[n + 1].object # <<>> =>
              /\ EntriesAmong(list, n + 1) = EntriesAmong(list, n) \cup {n + 1}
              /\ OthersAmong(list, n + 1) = OthersAmong(list, n)
<1>1. \A k : k \in 1 .. (n + 1) <=> k \in 1 .. n \/ k = n + 1
  OBVIOUS
<1> QED BY <1>1 DEF EntriesAmong, OthersAmong

LEMMA DividedKeeps ==
  ASSUME NEW T, NEW clause \in Seq(T), NEW entries, NEW list, NEW n \in Nat, NEW p \in T,
         list[n + 1] = p, p.object = <<>>, Divided(list, n, clause, entries)
  PROVE  Divided(list, n + 1, Append(clause, p), entries)
<1> DEFINE old == OthersAmong(list, n)
           next == OthersAmong(list, n + 1)
<1>1. /\ old \in SUBSET (1 .. n) /\ next = old \cup {n + 1}
      /\ EntriesAmong(list, n + 1) = EntriesAmong(list, n)
  BY NextAmong
<1>2. Len(clause) = Cardinality(old) /\ \A k \in old : clause[Rank(old, k)] = list[k]
  BY DEF Divided
<1> HIDE DEF old, next
<1>3. /\ Len(Append(clause, p)) = Cardinality(next)
      /\ \A k \in old : Append(clause, p)[Rank(next, k)] = clause[Rank(old, k)]
      /\ Append(clause, p)[Rank(next, n + 1)] = p
  <2>1. /\ Cardinality(next) = Cardinality(old) + 1 /\ Cardinality(old) \in Nat
        /\ \A k \in old : Rank(next, k) = Rank(old, k) /\ Rank(old, k) \in 1 .. Cardinality(old)
        /\ Rank(next, n + 1) = Cardinality(old) + 1
    BY <1>1, RankOfNew
  <2>2. /\ Len(Append(clause, p)) = Len(clause) + 1
        /\ \A j \in 1 .. Len(clause) : Append(clause, p)[j] = clause[j]
        /\ Append(clause, p)[Len(clause) + 1] = p
    BY AppendProperties
  <2> QED BY <1>2, <2>1, <2>2
<1>4. \A k \in next : Append(clause, p)[Rank(next, k)] = list[k]
  BY <1>1, <1>2, <1>3
<1> QED BY <1>1, <1>3, <1>4 DEF Divided, next

LEMMA DividedStrips ==
  ASSUME NEW T, NEW clause, NEW entries \in Seq(T), NEW entry \in T, NEW list, NEW n \in Nat,
         list[n + 1].object # <<>>, EntryOf(entry, list[n + 1]), Divided(list, n, clause, entries)
  PROVE  Divided(list, n + 1, clause, Append(entries, entry))
<1> DEFINE old == EntriesAmong(list, n)
           next == EntriesAmong(list, n + 1)
<1>1. /\ old \in SUBSET (1 .. n) /\ next = old \cup {n + 1}
      /\ OthersAmong(list, n + 1) = OthersAmong(list, n)
  BY NextAmong
<1>2. /\ Len(entries) = Cardinality(old)
      /\ \A k \in old : EntryOf(entries[Rank(old, k)], list[k])
  BY DEF Divided
<1> HIDE DEF old, next
<1>3. /\ Len(Append(entries, entry)) = Cardinality(next)
      /\ \A k \in old : Append(entries, entry)[Rank(next, k)] = entries[Rank(old, k)]
      /\ Append(entries, entry)[Rank(next, n + 1)] = entry
  <2>1. /\ Cardinality(next) = Cardinality(old) + 1 /\ Cardinality(old) \in Nat
        /\ \A k \in old : Rank(next, k) = Rank(old, k) /\ Rank(old, k) \in 1 .. Cardinality(old)
        /\ Rank(next, n + 1) = Cardinality(old) + 1
    BY <1>1, RankOfNew
  <2>2. /\ Len(Append(entries, entry)) = Len(entries) + 1
        /\ \A j \in 1 .. Len(entries) : Append(entries, entry)[j] = entries[j]
        /\ Append(entries, entry)[Len(entries) + 1] = entry
    BY AppendProperties
  <2> QED BY <1>2, <2>1, <2>2
<1>4. \A k \in next : EntryOf(Append(entries, entry)[Rank(next, k)], list[k])
  BY <1>1, <1>2, <1>3
<1> QED BY <1>1, <1>3, <1>4 DEF Divided, next

LEMMA EntrySays ==
  ASSUME NEW p \in WherePredicate, PlainPredicate(p), IsEntry(p)
  PROVE  EntryOf(DynPredicate(p), p)
<1>1. p.bounds \in Seq(AnyBound) /\ p.ref \in {"none", "shared"}
  BY PredicateFields DEF IsEntry
<1>2. DOMAIN p.bounds = 1 .. Len(p.bounds) /\ Len(p.bounds) \in Nat
  BY <1>1, LenProperties
<1>3. DynPredicate(p).bounds = [k \in DOMAIN p.bounds |-> p.bounds[k].path]
  BY DEF DynPredicate
<1>4. DynPredicate(p).bounds = [k \in 1 .. Len(p.bounds) |-> p.bounds[k].path]
  BY <1>2, <1>3
<1>5. Len(DynPredicate(p).bounds) = Len(p.bounds)
  BY <1>2, <1>4
<1> QED BY <1>1, <1>3, <1>5 DEF EntryOf, DynPredicate

LEMMA ReadIsDivided ==
  ASSUME TraitInv, PredicatesConserved, PredicateKept \/ PredicateStripped
  PROVE  PredicatesConserved'
<1> DEFINE list == source.where
           n == pos - 1
<1>1. /\ stage = "where" /\ pos \in 1 .. Len(list) /\ pos' = pos + 1
      /\ source' = source /\ stage' = "where"
      /\ list[pos] \in WherePredicate /\ PredicateError(list[pos]) = "none"
  BY SourceElements
    DEF TraitInv, ReadingInv, PlaceInv, PredicateKept, PredicateStripped, Reading, Continue
<1>2. n \in Nat /\ n + 1 = pos /\ PredicatesRead = n /\ PredicatesRead' = n + 1
  BY <1>1 DEF TraitInv, ReadingInv, PlaceInv, PredicatesRead
<1>3. Divided(list, n, where_clause, dyn_entries)
  BY <1>2, ConservedDivides DEF PredicatesConserved
<1>4. /\ where_clause \in Seq(RangeOf(list)) /\ list[pos] \in RangeOf(list)
      /\ dyn_entries \in Seq(Entries) /\ PlainPredicate(list[pos])
  BY <1>1, SourceElements, PredicateChecked DEF TraitInv, ReadingInv, WhereInv, RangeOf
<1> HIDE DEF list, n
<1>5. Divided(list, n + 1, where_clause', dyn_entries')
  <2>1. CASE PredicateKept
    <3>1. list[pos].object = <<>>
      BY <1>4, <2>1 DEF PredicateKept, PlainPredicate, IsEntry, list
    <3>2. where_clause' = Append(where_clause, list[pos]) /\ dyn_entries' = dyn_entries
      BY <1>2, <2>1 DEF PredicateKept, list
    <3> QED BY <1>2, <1>3, <1>4, <3>1, <3>2, DividedKeeps
  <2>2. CASE PredicateStripped
    <3>1. IsEntry(list[pos])
      BY <2>2 DEF PredicateStripped, list
    <3>2. /\ dyn_entries' = Append(dyn_entries, DynPredicate(list[pos]))
          /\ where_clause' = where_clause
      BY <2>2 DEF PredicateStripped, list
    <3>3. /\ EntryOf(DynPredicate(list[pos]), list[pos]) /\ DynPredicate(list[pos]) \in Entries
          /\ list[pos].object # <<>>
      BY <1>1, <1>4, <3>1, EntrySays, EntryTyped DEF IsEntry
    <3> QED BY <1>2, <1>3, <1>4, <3>2, <3>3, DividedStrips
  <2> QED BY <2>1, <2>2
<1>6. Divided(source.where, PredicatesRead, where_clause, dyn_entries)'
  BY <1>1, <1>2, <1>5 DEF list
<1> QED BY <1>1, <1>6, ConservedDivides DEF PredicatesConserved

\* The other steps read no predicate.
LEMMA NoneRead ==
  ASSUME TraitInv, [TraitNext]_traitVars
  PROVE  \/ PredicateKept \/ PredicateStripped
         \/ /\ UNCHANGED <<source, where_clause, dyn_entries>>
            /\ PredicatesRead' = PredicatesRead
            /\ stage' = "subtables" =>
                 \/ input'.predicates = dyn_entries
                 \/ stage = "subtables" /\ input' = input
<1>1. /\ pos \in Nat \ {0} /\ (stage = "where" => pos <= Len(source.where) + 1)
      /\ Len(source.where) \in Nat
  BY SourceElements DEF TraitInv, ReadingInv, PlaceInv
<1>2. CASE UNCHANGED traitVars
  BY <1>2 DEF traitVars, entryVars, subtableVars, PredicatesRead
<1>3. CASE ReadOptions
  <2>1. /\ UNCHANGED <<source, where_clause, dyn_entries>> /\ stage \in {"options", "settings"}
        /\ stage' \in {"options", "settings"} \/ (stage' = "where" /\ pos' = 1)
    BY <1>3 DEF ReadOptions, OptionsNext, ParseOption, OptionMalformed, OptionPanics,
                OptionsParsed, StoreOption, OptionDuplicate, Settle, Reading, PastEnd,
                Continue, Enter, Return, entryVars
  <2> QED BY <2>1 DEF PredicatesRead
<1>4. CASE Strip
  <2>1. CASE PredicateMalformed
    BY <2>1 DEF PredicateMalformed, Reading, Return, PredicatesRead
  <2> QED BY <1>4, <2>1 DEF Strip, StripNext
<1>5. CASE Stripped
  <2>1. /\ UNCHANGED <<source, where_clause, dyn_entries>> /\ stage = "where"
        /\ stage' = "subtables" /\ pos > Len(source.where) /\ input'.predicates = dyn_entries
    BY <1>5 DEF Stripped, PastEnd, Enter, entryVars
  <2> QED BY <1>1, <2>1 DEF PredicatesRead
<1>6. CASE Solve
  <2>1. input' = input
    BY <1>6 DEF Solve, Next, Predicate, PredicateListed, PredicateDuplicates, PredicatesDone, Bound,
                Graph, GraphOverflows, GraphDone, BoundsDone, Name, NamesDone
  <2>2. /\ UNCHANGED <<source, where_clause, dyn_entries>> /\ stage = "subtables"
        /\ stage' \in {"subtables", "items"}
    BY <1>6 DEF Solve, Enter, Return, entryVars
  <2> QED BY <2>1, <2>2 DEF PredicatesRead
<1>7. CASE ReadItems
  <2>1. /\ UNCHANGED <<source, where_clause, dyn_entries>> /\ stage \in {"items", "abi"}
        /\ stage' \in {"items", "abi"}
    BY <1>7 DEF ReadItems, ItemsNext, ReadMethod, ItemRejected, ItemsRead, AbiMissing,
                AbiExplicit, Accept, Reading, PastEnd, Continue, Enter, Return, entryVars
  <2> QED BY <2>1 DEF PredicatesRead
<1> QED BY <1>2, <1>3, <1>4, <1>5, <1>6, <1>7 DEF TraitNext

\* Whatever the where clause is, each of its predicates is in the clause that is left or is
\* a dyn entry, once, with all it says and in its place.
THEOREM PredicatesAreConserved == TraitSpec => []PredicatesConserved
<1>1. TraitInit => PredicatesConserved
  <2> SUFFICES ASSUME TraitInit PROVE PredicatesConserved
    OBVIOUS
  <2>1. stage = "options" /\ PredicatesRead = 0 /\ where_clause = <<>> /\ dyn_entries = <<>>
    BY DEF TraitInit, EntriesInit, PredicatesRead
  <2>2. EntriesAmong(source.where, 0) = {} /\ OthersAmong(source.where, 0) = {}
    BY DEF EntriesAmong, OthersAmong
  <2>3. Divided(source.where, 0, where_clause, dyn_entries)
    BY <2>1, <2>2, FS_EmptySet DEF Divided
  <2> QED BY <2>1, <2>3, ConservedDivides DEF PredicatesConserved
<1>2. TraitInv /\ PredicatesConserved /\ [TraitNext]_traitVars => PredicatesConserved'
  <2> SUFFICES ASSUME TraitInv, PredicatesConserved, [TraitNext]_traitVars
               PROVE  PredicatesConserved'
    OBVIOUS
  <2>1. CASE PredicateKept \/ PredicateStripped
    BY <2>1, ReadIsDivided
  <2>2. CASE ~(PredicateKept \/ PredicateStripped)
    <3>1. /\ UNCHANGED <<source, where_clause, dyn_entries>> /\ PredicatesRead' = PredicatesRead
          /\ stage' = "subtables" =>
               \/ input'.predicates = dyn_entries
               \/ stage = "subtables" /\ input' = input
      BY <2>2, NoneRead
    <3>2. Divided(source.where, PredicatesRead, where_clause, dyn_entries)
      BY ConservedDivides DEF PredicatesConserved
    <3>3. Divided(source.where, PredicatesRead, where_clause, dyn_entries)'
      BY <3>1, <3>2
    <3> QED BY <3>1, <3>3, ConservedDivides DEF PredicatesConserved
  <2> QED BY <2>1, <2>2
<1> QED BY <1>1, <1>2, TraitAlways, PTL DEF TraitSpec
=============================================================================
