------------------------------ MODULE TraitItems ------------------------------
(***************************************************************************)
(* The items of a trait and the check of explicit ABIs:                    *)
(* DynTraitBody::parse and MethodEntry::try_from                           *)
(* (src/dyntable-macro/src/parse/dyntrait.rs), parse_trait (parse/mod.rs). *)
(***************************************************************************)
EXTENDS AttributeOptions

VARIABLE methods   \* the MethodEntries made so far

(***************************************************************************)
(* An item is a type, a const, a macro, something else, or a fn with the   *)
(* parts of its signature: unsafe, abi ("none" if it has none), generics,  *)
(* whether it has a where clause or is variadic, its inputs, and the       *)
(* generic parameters, its own and the trait's, that its types mention.    *)
(***************************************************************************)
Receivers == {"self", "&self"}

MethodEntry ==
  [name : STRING, unsafe : BOOLEAN, abi : STRING, lifetimes : SUBSET STRING,
   receiver : {"value", "reference"}, arity : Nat, mentions : SUBSET STRING]

ItemsInit == methods = <<>>

-----------------------------------------------------------------------------

GenericError(param) ==
  CASE param.kind = "lifetime" -> IF param.bounded THEN "lifetime bounds" ELSE "none"
    [] param.kind = "const" -> "const generics"
    [] param.kind = "type" -> "type generics"

\* The loop over the inputs; it has a receiver when it gets past the first.
InputError(inputs, k) ==
  CASE inputs[k] = "self: T" -> "self must use implicit type syntax"
    [] inputs[k] = "pattern: T" -> "patterns are not supported"
    [] inputs[k] \in {"name: T", "_: T"} ->
         IF \E j \in 1 .. (k - 1) : inputs[j] \in Receivers THEN "none"
         ELSE "first parameter must be self"
    [] inputs[k] \in Receivers ->
         IF \E j \in 1 .. (k - 1) : inputs[j] \in Receivers THEN "self is bound more than once"
         ELSE "none"

SignatureError(sig) ==
  FirstOf(<<
    IF sig.variadic THEN "variadics are not supported" ELSE "none",
    IF sig.where THEN "where clauses cannot be specified for functions" ELSE "none",
    FirstOf([k \in DOMAIN sig.generics |-> GenericError(sig.generics[k])]),
    FirstOf([k \in DOMAIN sig.inputs |-> InputError(sig.inputs, k)]),
    IF sig.inputs = <<>> THEN "missing required self parameter" ELSE "none">>)

ItemError(item) ==
  CASE item.is = "fn" -> SignatureError(item)
    [] item.is = "type" -> "associated types are currently unsupported"
    [] item.is = "const" -> "associated constants are not supported"
    [] item.is = "macro" -> "macro invocations are not supported"
    [] OTHER -> "unknown entry"

MethodOf(sig) ==
  [name |-> sig.name, unsafe |-> sig.unsafe, abi |-> sig.abi,
   lifetimes |-> {sig.generics[k].name : k \in DOMAIN sig.generics},
   receiver |-> IF sig.inputs[1] = "self" THEN "value" ELSE "reference",
   arity |-> Len(sig.inputs) - 1, mentions |-> sig.mentions]

ReadMethod ==
  /\ Reading("items", source.items)
  /\ ItemError(source.items[pos]) = "none"
  /\ methods' = Append(methods, MethodOf(source.items[pos]))
  /\ Continue

ItemRejected ==
  /\ Reading("items", source.items)
  /\ ItemError(source.items[pos]) # "none"
  /\ Return(ItemError(source.items[pos])) /\ UNCHANGED methods

ItemsRead ==
  /\ PastEnd("items", source.items)
  /\ Enter("abi") /\ UNCHANGED methods

\* The loop over the methods is skipped with relax_abi.
AbiMissing ==
  /\ Reading("abi", methods)
  /\ ~settings.relax_abi /\ methods[pos].abi = "none"
  /\ Return("missing explicit ABI specifier") /\ UNCHANGED methods

\* Mutant: relax_abi is not looked at, and neither is the ABI.
AbiUnchecked ==
  /\ Reading("abi", methods)
  /\ Continue /\ UNCHANGED methods

AbiExplicit ==
  /\ Reading("abi", methods)
  /\ settings.relax_abi \/ methods[pos].abi # "none"
  /\ Continue /\ UNCHANGED methods

Accept ==
  /\ PastEnd("abi", methods)
  /\ Return("accepted") /\ UNCHANGED methods

ItemsNext == ReadMethod \/ ItemRejected \/ ItemsRead \/ AbiMissing \/ AbiExplicit \/ Accept
=============================================================================
