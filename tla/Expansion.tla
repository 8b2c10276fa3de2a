------------------------------- MODULE Expansion -------------------------------
(***************************************************************************)
(* What #[dyntable] generates for an accepted trait, as far as generic     *)
(* parameters and the signatures of methods go (src/dyntable-macro/src/    *)
(* codegen).  The vtable's layout and the impls of SubTable are in VTables.*)
(*                                                                         *)
(* A piece is a definition or an impl in the expansion, or a method, field *)
(* or fn in one: its form, the parameters in scope, those its types        *)
(* mention, the generated generic items it names with their arguments, and *)
(* whether the trait's where clause is in force.                           *)
(***************************************************************************)
EXTENDS DynTrait

Piece(form, declares, mentions, uses, where) ==
  [form |-> form, declares |-> declares, mentions |-> mentions, uses |-> uses, where |-> where]

-----------------------------------------------------------------------------
(* Generic parameters: kind, name, whether bounded, whether with a default  *)

Names(params) == {p.name : p \in params}

Generics == RangeOf(source.generics)

(***************************************************************************)
(* What rustc asks of the trait as it is written: the types of a method    *)
(* mention the parameters of the method and of the trait, which have       *)
(* different names, and no lifetime has a default.  A dyn entry is about a *)
(* trait, and not about a parameter.                                       *)
(***************************************************************************)
InScope(s) ==
  /\ s.generics \in Seq(GenericParam)
  /\ \A g \in RangeOf(s.generics) : g.kind = "lifetime" => ~g.default
  /\ \A item \in RangeOf(s.items) : item.is = "fn" =>
       /\ Names(RangeOf(item.generics)) \cap Names(RangeOf(s.generics)) = {}
       /\ item.mentions \subseteq Names(RangeOf(item.generics)) \cup Names(RangeOf(s.generics))
  /\ \A p \in RangeOf(s.where) : IsEntry(p) => p.about = {}

ASSUME ScopesAssumption == \A s \in Sources : InScope(s)

\* ImplGenerics of syn: all but the defaults.
ImplGenerics(params) == {[p EXCEPT !.default = FALSE] : p \in params}

\* impl_generic_entries and impl_vt_generic_entries: the defaults of types are removed.
ImplEntries(params) ==
  {IF p.kind = "type" THEN [p EXCEPT !.default = FALSE] ELSE p : p \in params}

\* make_trait_vtable_ty_generics and TypeGenerics of syn: the names.
TyGenerics(params) ==
  {[kind |-> IF p.kind = "lifetime" THEN "lifetime" ELSE "type", name |-> p.name,
    bounded |-> FALSE, default |-> FALSE] : p \in params}

Lifetimes(method) ==
  {[kind |-> "lifetime", name |-> l, bounded |-> FALSE, default |-> FALSE] :
     l \in method.lifetimes}

Use(item) == [item |-> item, args |-> Names(TyGenerics(Generics))]

-----------------------------------------------------------------------------
(* The pieces                                                              *)

TraitDef ==
  {Piece("trait", Generics, {}, {}, TRUE)}
    \cup {Piece("trait", Generics \cup Lifetimes(m), m.mentions, {}, TRUE) : m \in RangeOf(methods)}

\* Mutant: the type of a field does not declare the method's lifetimes.
VTableDefNoFor ==
  {Piece("struct", ImplGenerics(Generics), {}, {}, TRUE)}
    \cup {Piece("struct", ImplGenerics(Generics), m.mentions, {}, TRUE) : m \in RangeOf(methods)}

\* The type of a field is `for<..> fn`; the phantom field mentions lifetimes and types.
VTableDef ==
  {Piece("struct", ImplGenerics(Generics), Names({p \in Generics : p.kind # "const"}), {}, TRUE)}
    \cup {Piece("struct", ImplGenerics(Generics) \cup Lifetimes(m), m.mentions, {}, TRUE) :
            m \in RangeOf(methods)}

ManyBounds == Len(TraitBounds(source.supertraits)) > 1

\* The trait that stands for several supertraits in VTable::Bounds.
BoundsDef == IF ManyBounds THEN {Piece("trait", TyGenerics(Generics), {}, {}, FALSE)} ELSE {}

\* VTable, which names the bounds without arguments, and VTableRepr.
VTableImpls ==
  {Piece("impl", ImplGenerics(Generics), {},
     {Use("vtable")} \cup IF ManyBounds THEN {[item |-> "bounds", args |-> {}]} ELSE {}, TRUE),
   Piece("impl", ImplGenerics(Generics), {}, {Use("vtable"), Use("trait")}, TRUE)}

SubTableImpls ==
  {Piece("impl", ImplGenerics(Generics), {}, {Use("vtable")}, TRUE) : k \in DOMAIN subtables}

\* AssociatedDrop and AssociatedLayout.
AssociatedImpls ==
  IF settings.drop = "none" /\ ~settings.embed_layout THEN {}
  ELSE {Piece("impl", ImplGenerics(Generics), {}, {Use("vtable")}, TRUE)}

\* The thunk of a method that takes self by value, a fn of its own in the DynTrait impl.
Thunk(m) == Piece("fn", Generics, m.mentions, {Use("trait")}, FALSE)

\* The local DynTrait, with its thunks.
DynTraitImpl ==
  {Piece("impl", ImplEntries(Generics), {}, {Use("vtable"), Use("trait")}, TRUE)}
    \cup {Thunk(m) : m \in {m \in RangeOf(methods) : m.receiver = "value"}}

ProxyImpl == {Piece("impl", ImplEntries(Generics), {}, {Use("vtable")}, TRUE)}

\* The trait for everything that is AsDyn.
BlanketImpl ==
  {Piece("impl", ImplEntries(Generics), {}, {Use("trait"), Use("vtable")}, TRUE)}
    \cup {Piece("impl", ImplEntries(Generics) \cup Lifetimes(m), m.mentions, {Use("trait")}, TRUE) :
            m \in RangeOf(methods)}

Pieces ==
  TraitDef \cup VTableDef \cup BoundsDef \cup VTableImpls \cup SubTableImpls \cup ProxyImpl
    \cup DynTraitImpl \cup AssociatedImpls \cup BlanketImpl

-----------------------------------------------------------------------------
(* The rules of the language                                               *)

Declared(p) == p.mentions \subseteq Names(p.declares)

DefaultsPlaced(p) == p.form \in {"trait", "struct"} \/ \A d \in p.declares : ~d.default

\* Every generated generic item has the parameters of the trait.
ArgumentsGiven(p) == \A u \in p.uses : u.args = Names(Generics)

\* Who names the trait or its vtable restates the bounds on its parameters.
BoundsRestated(p) ==
  p.uses # {} =>
    /\ \A g \in Generics : g.bounded => \E d \in p.declares : d.name = g.name /\ d.bounded
    /\ (\E w \in RangeOf(where_clause) : w.about # {}) => p.where

Resolves(p) == Declared(p) /\ DefaultsPlaced(p) /\ ArgumentsGiven(p) /\ BoundsRestated(p)

-----------------------------------------------------------------------------
(* The signature of a method in the vtable, behind it, and at a call        *)

FieldType(m) ==
  [unsafe |-> m.unsafe, abi |-> m.abi, arity |-> m.arity,
   self |-> IF m.receiver = "reference" THEN "DynSelf" ELSE "*mut c_void"]

\* Mutant: the thunk has the default ABI.
FunctionTypeNoAbi(m) ==
  [unsafe |-> m.unsafe, abi |-> IF m.receiver = "value" THEN "none" ELSE m.abi,
   arity |-> m.arity, self |-> IF m.receiver = "reference" THEN "&Self" ELSE "*mut Self"]

\* The method of the type, or the thunk.
FunctionType(m) ==
  [unsafe |-> m.unsafe, abi |-> m.abi, arity |-> m.arity,
   self |-> IF m.receiver = "reference" THEN "&Self" ELSE "*mut Self"]

CallArguments(m) ==
  [arity |-> m.arity, self |-> IF m.receiver = "value" THEN "*mut c_void" ELSE "DynSelf"]

-----------------------------------------------------------------------------
(* Properties                                                              *)

\* transmute makes a field of any function.  What the field of an accepted trait is
\* declared as, what is stored in it and how it is called have the same ABI, which is
\* explicit unless relaxed, the same number of arguments, and a self that is one pointer.
SignaturesAgree ==
  verdict = "accepted" => \A m \in RangeOf(methods) :
    LET field == FieldType(m)
        fn == FunctionType(m)
        call == CallArguments(m) IN
    /\ field.unsafe = fn.unsafe /\ field.abi = fn.abi /\ field.arity = fn.arity
    /\ <<field.self, fn.self>> \in {<<"DynSelf", "&Self">>, <<"*mut c_void", "*mut Self">>}
    /\ call.self = field.self /\ call.arity = field.arity
    /\ settings.relax_abi \/ field.abi # "none"

\* The features of a trait that do not go together.
GenericWithBounds == Generics # {} /\ ManyBounds

ByValueMethods == {m \in RangeOf(methods) : m.receiver = "value"}

ByValueWithLifetimes == \E m \in ByValueMethods : m.mentions \cap m.lifetimes # {}

ByValueWithDefaults == ByValueMethods # {} /\ \E g \in Generics : g.default

ByValueWithWhere == ByValueMethods # {} /\ \E p \in RangeOf(source.where) : p.about # {}

ConstWithDefault == \E g \in Generics : g.kind = "const" /\ g.default

\* The expansion of an accepted trait resolves unless the trait combines generics with
\* several supertraits, a by-value method with its own lifetimes, with defaults or with
\* a where clause on the generics, or has a default for a const.
ResolvesOtherwise ==
  verdict = "accepted" =>
    ((\A p \in Pieces : Resolves(p)) <=>
       ~(GenericWithBounds \/ ByValueWithLifetimes \/ ByValueWithDefaults \/ ByValueWithWhere
           \/ ConstWithDefault))
=============================================================================
