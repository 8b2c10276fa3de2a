---------------------------- MODULE ExpansionProofs ----------------------------
(***************************************************************************)
(* Theorems about Expansion, for any source that is accepted: signatures   *)
(* agree, and which traits have an expansion that resolves.                *)
(***************************************************************************)
EXTENDS Expansion, DynTraitProofs

\* What is known of an accepted trait.
LEMMA AcceptedTrait ==
  ASSUME TraitInv, verdict = "accepted"
  PROVE  /\ source \in Sources /\ ReadingInv /\ stage = "abi" /\ AbisGiven
         /\ methods \in Seq(MethodEntry) /\ ItemsLegal
  BY ItemsPast DEF TraitInv, VerdictMeant

LEMMA AcceptedMethods ==
  ASSUME TraitInv, verdict = "accepted", NEW m \in RangeOf(methods)
  PROVE  /\ m \in MethodEntry
         /\ \E item \in RangeOf(source.items) :
              item \in Item /\ item.is = "fn" /\ m = MethodOf(item)
<1>1. PICK k \in DOMAIN methods : m = methods[k]
  BY DEF RangeOf
<1>2. m \in MethodEntry
  BY <1>1, AcceptedTrait, ElementOfSeq, LenProperties
<1>3. methods[k] = MethodOf(source.items[k])
  BY AcceptedTrait DEF ReadingInv, ItemsInv
<1>4. k \in DOMAIN source.items
  BY AcceptedTrait, AbisOfItems
<1>5. source.items[k] \in Item /\ PlainMethod(source.items[k])
  BY <1>4, AcceptedTrait, SourceElements, LegalEach
<1>6. source.items[k] \in RangeOf(source.items)
  BY <1>4 DEF RangeOf
<1> QED BY <1>1, <1>2, <1>3, <1>5, <1>6 DEF PlainMethod

-----------------------------------------------------------------------------
(* Signatures                                                              *)

LEMMA SignaturesOf ==
  ASSUME TraitInv, verdict = "accepted", NEW m \in RangeOf(methods)
  PROVE  LET field == FieldType(m)
             fn == FunctionType(m)
             call == CallArguments(m) IN
         /\ field.unsafe = fn.unsafe /\ field.abi = fn.abi /\ field.arity = fn.arity
         /\ <<field.self, fn.self>> \in {<<"DynSelf", "&Self">>, <<"*mut c_void", "*mut Self">>}
         /\ call.self = field.self /\ call.arity = field.arity
         /\ settings.relax_abi \/ field.abi # "none"
<1>1. m.receiver \in {"value", "reference"}
  BY AcceptedMethods DEF MethodEntry
<1>2. settings.relax_abi \/ m.abi # "none"
  <2>1. CASE \E o \in RangeOf(source.options) : o.name = "relax_abi" /\ o.value = TRUE
    BY <2>1, AcceptedTrait, RelaxedAs, AfterEach
  <2>2. CASE \A item \in RangeOf(source.items) : item.abi # "none"
    <3>1. PICK item \in RangeOf(source.items) : m = MethodOf(item)
      BY AcceptedMethods
    <3> QED BY <2>2, <3>1 DEF MethodOf
  <2> QED BY <2>1, <2>2, AcceptedTrait DEF AbisGiven
<1>3. CASE m.receiver = "value"
  BY <1>2, <1>3 DEF FieldType, FunctionType, CallArguments
<1>4. CASE m.receiver = "reference"
  BY <1>2, <1>4 DEF FieldType, FunctionType, CallArguments
<1> QED BY <1>1, <1>3, <1>4

\* The field of a method, what is transmuted into it and the call through it agree, for any
\* method of any accepted trait; its ABI is explicit unless relax_abi is among the options.
THEOREM SignaturesDoAgree == TraitSpec => []SignaturesAgree
<1>1. TraitInv => SignaturesAgree
  BY SignaturesOf DEF SignaturesAgree
<1> QED BY <1>1, TraitAlways, PTL

-----------------------------------------------------------------------------
(* Generic parameters                                                      *)

LEMMA SourceScopes ==
  ASSUME source \in Sources
  PROVE  /\ Generics \subseteq GenericParam
         /\ \A g \in Generics : g.bounded \in BOOLEAN /\ g.default \in BOOLEAN
         /\ \A g \in Generics : g.kind \in {"lifetime", "type", "const"}
         /\ \A g \in Generics : g.kind = "lifetime" => ~g.default
<1>1. InScope(source)
  BY ScopesAssumption
<1>2. Generics \subseteq GenericParam
  BY <1>1, ElementOfSeq, LenProperties DEF InScope, Generics, RangeOf
<1>3. \A g \in GenericParam :
        /\ g.bounded \in BOOLEAN /\ g.default \in BOOLEAN /\ g.kind \in {"lifetime", "type", "const"}
  BY DEF GenericParam
<1> QED BY <1>1, <1>2, <1>3 DEF InScope, Generics

LEMMA WithoutDefault ==
  ASSUME NEW g \in GenericParam
  PROVE  /\ [g EXCEPT !.default = FALSE].name = g.name
         /\ [g EXCEPT !.default = FALSE].kind = g.kind
         /\ [g EXCEPT !.default = FALSE].bounded = g.bounded
         /\ [g EXCEPT !.default = FALSE].default = FALSE
  BY DEF GenericParam

\* The lists of parameters have the names of the trait's.
LEMMA NamesKept ==
  ASSUME source \in Sources
  PROVE  /\ Names(ImplGenerics(Generics)) = Names(Generics)
         /\ Names(ImplEntries(Generics)) = Names(Generics)
         /\ Names(TyGenerics(Generics)) = Names(Generics)
<1>1. Generics \subseteq GenericParam
  BY SourceScopes
<1>2. Names(ImplGenerics(Generics)) = Names(Generics)
  <2> DEFINE entry(g) == [g EXCEPT !.default = FALSE]
  <2>1. \A g \in Generics : entry(g).name = g.name
    BY <1>1, WithoutDefault
  <2>2. ImplGenerics(Generics) = {entry(g) : g \in Generics}
    BY DEF ImplGenerics
  <2> HIDE DEF entry
  <2> QED BY <2>1, <2>2 DEF Names
<1>3. Names(ImplEntries(Generics)) = Names(Generics)
  <2> DEFINE entry(g) == IF g.kind = "type" THEN [g EXCEPT !.default = FALSE] ELSE g
  <2>1. \A g \in Generics : entry(g).name = g.name
    BY <1>1, WithoutDefault
  <2>2. ImplEntries(Generics) = {entry(g) : g \in Generics}
    BY DEF ImplEntries
  <2> HIDE DEF entry
  <2> QED BY <2>1, <2>2 DEF Names
<1>4. Names(TyGenerics(Generics)) = Names(Generics)
  <2> DEFINE entry(g) == [kind |-> IF g.kind = "lifetime" THEN "lifetime" ELSE "type", name |-> g.name,
                          bounded |-> FALSE, default |-> FALSE]
  <2>1. \A g \in Generics : entry(g).name = g.name
    OBVIOUS
  <2>2. TyGenerics(Generics) = {entry(g) : g \in Generics}
    BY DEF TyGenerics
  <2> HIDE DEF entry
  <2> QED BY <2>1, <2>2 DEF Names
<1> QED BY <1>2, <1>3, <1>4

LEMMA NamesUnion ==
  ASSUME NEW S, NEW T
  PROVE  Names(S \cup T) = Names(S) \cup Names(T)
  BY DEF Names

LEMMA LifetimesNamed ==
  ASSUME NEW m
  PROVE  Names(Lifetimes(m)) = m.lifetimes
<1> DEFINE entry(l) == [kind |-> "lifetime", name |-> l, bounded |-> FALSE, default |-> FALSE]
<1>1. \A l \in m.lifetimes : entry(l).name = l
  OBVIOUS
<1>2. Lifetimes(m) = {entry(l) : l \in m.lifetimes}
  BY DEF Lifetimes
<1> HIDE DEF entry
<1> QED BY <1>1, <1>2 DEF Names

\* The bounds of the parameters are restated by both kinds of list.
LEMMA BoundsKept ==
  ASSUME source \in Sources, NEW g \in Generics, g.bounded
  PROVE  /\ \E d \in ImplGenerics(Generics) : d.name = g.name /\ d.bounded
         /\ \E d \in ImplEntries(Generics) : d.name = g.name /\ d.bounded
<1>1. g \in GenericParam
  BY SourceScopes
<1> DEFINE without == [g EXCEPT !.default = FALSE]
<1>2. without.name = g.name /\ without.bounded = g.bounded
  BY <1>1, WithoutDefault
<1>3. without \in ImplGenerics(Generics)
  BY DEF ImplGenerics
<1>4. without \in ImplEntries(Generics) \/ g \in ImplEntries(Generics)
  BY DEF ImplEntries
<1> HIDE DEF without
<1> QED BY <1>2, <1>3, <1>4

\* The defaults that are left.
LEMMA DefaultsLeft ==
  ASSUME source \in Sources
  PROVE  /\ \A d \in ImplGenerics(Generics) : ~d.default
         /\ (\A d \in ImplEntries(Generics) : ~d.default) <=> ~ConstWithDefault
<1>1. /\ Generics \subseteq GenericParam
      /\ \A g \in Generics : g.default \in BOOLEAN /\ g.kind \in {"lifetime", "type", "const"}
      /\ \A g \in Generics : g.kind = "lifetime" => ~g.default
  BY SourceScopes
<1>2. \A d \in ImplGenerics(Generics) : ~d.default
  BY <1>1, WithoutDefault DEF ImplGenerics
<1> DEFINE entry(g) == IF g.kind = "type" THEN [g EXCEPT !.default = FALSE] ELSE g
<1>3. ImplEntries(Generics) = {entry(g) : g \in Generics}
  BY DEF ImplEntries
<1>4. \A g \in Generics : entry(g).default <=> g.kind = "const" /\ g.default
  <2> SUFFICES ASSUME NEW g \in Generics PROVE entry(g).default <=> g.kind = "const" /\ g.default
    OBVIOUS
  <2>1. g \in GenericParam /\ [g EXCEPT !.default = FALSE].default = FALSE
    BY <1>1, WithoutDefault
  <2>2. CASE g.kind = "type"
    BY <2>1, <2>2
  <2>3. CASE g.kind # "type"
    BY <1>1, <2>3
  <2> QED BY <2>2, <2>3
<1> HIDE DEF entry
<1>5. (\A d \in ImplEntries(Generics) : ~d.default) <=> ~ConstWithDefault
  BY <1>3, <1>4 DEF ConstWithDefault
<1> QED BY <1>2, <1>5

\* The types of a method mention its lifetimes and the parameters of the trait.
LEMMA MentionsInScope ==
  ASSUME TraitInv, verdict = "accepted", NEW m \in RangeOf(methods)
  PROVE  /\ m.mentions \subseteq Names(Generics) \cup m.lifetimes
         /\ m.lifetimes \cap Names(Generics) = {}
<1>1. PICK item \in RangeOf(source.items) : item.is = "fn" /\ m = MethodOf(item)
  BY AcceptedMethods
<1>2. m.mentions = item.mentions /\ m.lifetimes = Names(RangeOf(item.generics))
  BY <1>1 DEF MethodOf, Names, RangeOf
<1>3. InScope(source)
  BY AcceptedTrait, ScopesAssumption
<1> QED BY <1>1, <1>2, <1>3 DEF InScope, Generics

\* The predicates about parameters are in the where clause.
LEMMA AboutKept ==
  ASSUME TraitInv, verdict = "accepted"
  PROVE  (\E w \in RangeOf(where_clause) : w.about # {}) <=>
           \E p \in RangeOf(source.where) : p.about # {}
<1>1. source \in Sources /\ WhereInv /\ stage \in After["where"]
  BY AcceptedTrait, AfterEach DEF ReadingInv
<1>2. \A p \in RangeOf(where_clause) : p \in RangeOf(source.where)
  BY <1>1, ElementOfSeq, LenProperties DEF WhereInv, RangeOf
<1>3. \A k \in DOMAIN source.where :
        IsEntry(source.where[k]) \/ source.where[k] \in RangeOf(where_clause)
  BY <1>1 DEF WhereInv, IsPast
<1>4. \A p \in RangeOf(source.where) : IsEntry(p) => p.about = {}
  BY <1>1, ScopesAssumption DEF InScope
<1>5. \A p \in RangeOf(source.where) : p.about # {} => p \in RangeOf(where_clause)
  BY <1>3, <1>4 DEF RangeOf
<1> QED BY <1>2, <1>5

-----------------------------------------------------------------------------
(* The pieces                                                              *)

LEMMA ResolvesPiece ==
  ASSUME NEW form, NEW declares, NEW mentions, NEW uses, NEW where
  PROVE  Resolves(Piece(form, declares, mentions, uses, where)) <=>
           /\ mentions \subseteq Names(declares)
           /\ form \in {"trait", "struct"} \/ \A d \in declares : ~d.default
           /\ \A u \in uses : u.args = Names(Generics)
           /\ uses # {} =>
                /\ \A g \in Generics : g.bounded => \E d \in declares : d.name = g.name /\ d.bounded
                /\ (\E w \in RangeOf(where_clause) : w.about # {}) => where
  BY DEF Resolves, Piece, Declared, DefaultsPlaced, ArgumentsGiven, BoundsRestated

\* A piece inside an impl that repeats the where clause.
LEMMA ImplPiece ==
  ASSUME NEW declares, NEW mentions, NEW uses,
         \A g \in Generics : g.bounded => \E d \in declares : d.name = g.name /\ d.bounded
  PROVE  Resolves(Piece("impl", declares, mentions, uses, TRUE)) <=>
           /\ mentions \subseteq Names(declares)
           /\ \A d \in declares : ~d.default
           /\ \A u \in uses : u.args = Names(Generics)
<1> DEFINE piece == Piece("impl", declares, mentions, uses, TRUE)
<1>1. /\ piece.form = "impl" /\ piece.declares = declares /\ piece.mentions = mentions
      /\ piece.uses = uses /\ piece.where = TRUE
  BY DEF Piece
<1> HIDE DEF piece
<1>2. Declared(piece) <=> mentions \subseteq Names(declares)
  BY <1>1 DEF Declared
<1>3. DefaultsPlaced(piece) <=> \A d \in declares : ~d.default
  BY <1>1 DEF DefaultsPlaced
<1>4. ArgumentsGiven(piece) <=> \A u \in uses : u.args = Names(Generics)
  BY <1>1 DEF ArgumentsGiven
<1>5. BoundsRestated(piece)
  BY <1>1 DEF BoundsRestated
<1> USE DEF piece
<1> QED BY <1>2, <1>3, <1>4, <1>5 DEF Resolves

LEMMA UseArguments ==
  ASSUME source \in Sources, NEW item
  PROVE  Use(item).args = Names(Generics)
  BY NamesKept DEF Use

\* An impl with all parameters and the where clause resolves.
LEMMA ImplResolves ==
  ASSUME source \in Sources, NEW uses, \A u \in uses : u.args = Names(Generics)
  PROVE  /\ Resolves(Piece("impl", ImplGenerics(Generics), {}, uses, TRUE))
         /\ Resolves(Piece("impl", ImplEntries(Generics), {}, uses, TRUE)) <=> ~ConstWithDefault
<1>1. ASSUME NEW declares,
             \A g \in Generics : g.bounded => \E d \in declares : d.name = g.name /\ d.bounded
      PROVE  Resolves(Piece("impl", declares, {}, uses, TRUE)) <=> \A d \in declares : ~d.default
  <2>1. Resolves(Piece("impl", declares, {}, uses, TRUE)) <=>
          /\ {} \subseteq Names(declares)
          /\ \A d \in declares : ~d.default
          /\ \A u \in uses : u.args = Names(Generics)
    BY <1>1, ImplPiece
  <2> QED BY <2>1
<1>2. Resolves(Piece("impl", ImplGenerics(Generics), {}, uses, TRUE))
        <=> \A d \in ImplGenerics(Generics) : ~d.default
  BY <1>1, BoundsKept
<1>3. Resolves(Piece("impl", ImplEntries(Generics), {}, uses, TRUE))
        <=> \A d \in ImplEntries(Generics) : ~d.default
  BY <1>1, BoundsKept
<1> QED BY <1>2, <1>3, DefaultsLeft

LEMMA DefinitionsResolve ==
  ASSUME TraitInv, verdict = "accepted"
  PROVE  \A p \in TraitDef \cup VTableDef \cup BoundsDef : Resolves(p)
<1>1. source \in Sources
  BY AcceptedTrait
<1>2. ASSUME NEW m \in RangeOf(methods)
      PROVE  /\ Resolves(Piece("trait", Generics \cup Lifetimes(m), m.mentions, {}, TRUE))
             /\ Resolves(Piece("struct", ImplGenerics(Generics) \cup Lifetimes(m), m.mentions, {}, TRUE))
  <2>1. /\ m.mentions \subseteq Names(Generics \cup Lifetimes(m))
        /\ m.mentions \subseteq Names(ImplGenerics(Generics) \cup Lifetimes(m))
    BY <1>1, MentionsInScope, NamesUnion, LifetimesNamed, NamesKept
  <2> QED BY <2>1, ResolvesPiece
<1>3. /\ Resolves(Piece("trait", Generics, {}, {}, TRUE))
      /\ Resolves(Piece("trait", TyGenerics(Generics), {}, {}, FALSE))
  BY ResolvesPiece
<1>4. Resolves(Piece("struct", ImplGenerics(Generics), Names({p \in Generics : p.kind # "const"}), {}, TRUE))
  <2>1. Names({p \in Generics : p.kind # "const"}) \subseteq Names(ImplGenerics(Generics))
    <3>1. Names({p \in Generics : p.kind # "const"}) \subseteq Names(Generics)
      BY DEF Names
    <3> QED BY <1>1, <3>1, NamesKept
  <2> QED BY <2>1, ResolvesPiece
<1>5. \A p \in TraitDef : Resolves(p)
  BY <1>2, <1>3 DEF TraitDef
<1>6. \A p \in VTableDef : Resolves(p)
  BY <1>2, <1>4 DEF VTableDef
<1>7. \A p \in BoundsDef : Resolves(p)
  BY <1>3 DEF BoundsDef
<1> QED BY <1>5, <1>6, <1>7

LEMMA VTableImplsResolve ==
  ASSUME source \in Sources
  PROVE  (\A p \in VTableImpls : Resolves(p)) <=> ~GenericWithBounds
<1> DEFINE uses == {Use("vtable")} \cup IF ManyBounds THEN {[item |-> "bounds", args |-> {}]} ELSE {}
           impl == Piece("impl", ImplGenerics(Generics), {}, uses, TRUE)
           repr == Piece("impl", ImplGenerics(Generics), {}, {Use("vtable"), Use("trait")}, TRUE)
<1>1. VTableImpls = {impl, repr}
  BY DEF VTableImpls
<1>2. Resolves(repr)
  BY UseArguments, ImplResolves
<1>3. CASE ~ManyBounds
  <2>1. \A u \in uses : u.args = Names(Generics)
    BY <1>3, UseArguments
  <2> HIDE DEF uses
  <2>2. Resolves(impl)
    BY <2>1, ImplResolves
  <2> HIDE DEF impl, repr
  <2> QED BY <1>1, <1>2, <1>3, <2>2 DEF GenericWithBounds
<1>4. CASE ManyBounds /\ Generics = {}
  <2>1. Names(Generics) = {}
    BY <1>4 DEF Names
  <2>2. \A u \in uses : u.args = Names(Generics)
    BY <1>4, <2>1, UseArguments
  <2> HIDE DEF uses
  <2>3. Resolves(impl)
    BY <2>2, ImplResolves
  <2> HIDE DEF impl, repr
  <2> QED BY <1>1, <1>2, <1>4, <2>3 DEF GenericWithBounds
<1>5. CASE ManyBounds /\ Generics # {}
  <2>1. Names(Generics) # {}
    BY <1>5 DEF Names
  <2>2. \E u \in uses : u.args # Names(Generics)
    <3>1. [item |-> "bounds", args |-> {}].args = {} /\ [item |-> "bounds", args |-> {}] \in uses
      BY <1>5
    <3> QED BY <2>1, <3>1
  <2> HIDE DEF uses
  <2>3. \A g \in Generics :
          g.bounded => \E d \in ImplGenerics(Generics) : d.name = g.name /\ d.bounded
    BY BoundsKept
  <2>4. ~Resolves(impl)
    BY <2>2, <2>3, ImplPiece
  <2> HIDE DEF impl, repr
  <2> QED BY <1>1, <1>5, <2>4 DEF GenericWithBounds
<1> QED BY <1>3, <1>4, <1>5

LEMMA PlainImplsResolve ==
  ASSUME source \in Sources
  PROVE  \A p \in SubTableImpls \cup AssociatedImpls : Resolves(p)
<1>1. Resolves(Piece("impl", ImplGenerics(Generics), {}, {Use("vtable")}, TRUE))
  BY UseArguments, ImplResolves
<1>2. \A p \in SubTableImpls : Resolves(p)
  BY <1>1 DEF SubTableImpls
<1>3. \A p \in AssociatedImpls : Resolves(p)
  BY <1>1 DEF AssociatedImpls
<1> QED BY <1>2, <1>3

LEMMA ProxyResolves ==
  ASSUME source \in Sources
  PROVE  (\A p \in ProxyImpl : Resolves(p)) <=> ~ConstWithDefault
<1>1. Resolves(Piece("impl", ImplEntries(Generics), {}, {Use("vtable")}, TRUE)) <=> ~ConstWithDefault
  BY UseArguments, ImplResolves
<1> QED BY <1>1 DEF ProxyImpl

LEMMA BlanketResolves ==
  ASSUME TraitInv, verdict = "accepted"
  PROVE  (\A p \in BlanketImpl : Resolves(p)) <=> ~ConstWithDefault
<1> DEFINE impl == Piece("impl", ImplEntries(Generics), {}, {Use("trait"), Use("vtable")}, TRUE)
           method(m) == Piece("impl", ImplEntries(Generics) \cup Lifetimes(m), m.mentions,
                              {Use("trait")}, TRUE)
<1>1. source \in Sources
  BY AcceptedTrait
<1>2. Resolves(impl) <=> ~ConstWithDefault
  BY <1>1, UseArguments, ImplResolves
<1>3. ASSUME NEW m \in RangeOf(methods), ~ConstWithDefault PROVE Resolves(method(m))
  <2> DEFINE declares == ImplEntries(Generics) \cup Lifetimes(m)
  <2>1. m.mentions \subseteq Names(declares)
    BY <1>1, MentionsInScope, NamesUnion, LifetimesNamed, NamesKept
  <2>2. \A d \in declares : ~d.default
    <3>1. \A d \in Lifetimes(m) : ~d.default
      BY DEF Lifetimes
    <3> QED BY <1>1, <1>3, <3>1, DefaultsLeft
  <2>3. \A g \in Generics : g.bounded => \E d \in declares : d.name = g.name /\ d.bounded
    BY <1>1, BoundsKept
  <2>4. \A u \in {Use("trait")} : u.args = Names(Generics)
    BY <1>1, UseArguments
  <2> HIDE DEF declares
  <2>5. Resolves(Piece("impl", declares, m.mentions, {Use("trait")}, TRUE))
    BY <2>1, <2>2, <2>3, <2>4, ImplPiece
  <2> QED BY <2>5 DEF declares
<1>4. BlanketImpl = {impl} \cup {method(m) : m \in RangeOf(methods)}
  BY DEF BlanketImpl
<1> HIDE DEF impl, method
<1> QED BY <1>2, <1>3, <1>4

\* The thunk of a method stands outside the impl: it has neither the lifetimes of the method
\* nor the where clause, and repeats the defaults.
LEMMA ThunkResolves ==
  ASSUME TraitInv, verdict = "accepted", NEW m \in RangeOf(methods)
  PROVE  Resolves(Thunk(m)) <=>
           /\ m.mentions \cap m.lifetimes = {}
           /\ ~\E g \in Generics : g.default
           /\ ~\E p \in RangeOf(source.where) : p.about # {}
<1>1. source \in Sources
  BY AcceptedTrait
<1>2. Resolves(Thunk(m)) <=>
        /\ m.mentions \subseteq Names(Generics)
        /\ "fn" \in {"trait", "struct"} \/ \A d \in Generics : ~d.default
        /\ \A u \in {Use("trait")} : u.args = Names(Generics)
        /\ {Use("trait")} # {} =>
             /\ \A g \in Generics : g.bounded => \E d \in Generics : d.name = g.name /\ d.bounded
             /\ (\E w \in RangeOf(where_clause) : w.about # {}) => FALSE
  BY ResolvesPiece DEF Thunk
<1>3. "fn" \notin {"trait", "struct"} /\ {Use("trait")} # {}
  OBVIOUS
<1>4. \A u \in {Use("trait")} : u.args = Names(Generics)
  BY <1>1, UseArguments
<1>5. \A g \in Generics : g.bounded => \E d \in Generics : d.name = g.name /\ d.bounded
  OBVIOUS
<1>6. m.mentions \subseteq Names(Generics) <=> m.mentions \cap m.lifetimes = {}
  BY MentionsInScope
<1>7. (\E w \in RangeOf(where_clause) : w.about # {})
        <=> \E p \in RangeOf(source.where) : p.about # {}
  BY AboutKept
<1> QED BY <1>2, <1>3, <1>4, <1>5, <1>6, <1>7

LEMMA DynTraitResolves ==
  ASSUME TraitInv, verdict = "accepted"
  PROVE  (\A p \in DynTraitImpl : Resolves(p)) <=>
           ~(ByValueWithLifetimes \/ ByValueWithDefaults \/ ByValueWithWhere \/ ConstWithDefault)
<1> DEFINE impl == Piece("impl", ImplEntries(Generics), {}, {Use("vtable"), Use("trait")}, TRUE)
<1>1. source \in Sources
  BY AcceptedTrait
<1>2. Resolves(impl) <=> ~ConstWithDefault
  BY <1>1, UseArguments, ImplResolves
<1>3. DynTraitImpl = {impl} \cup {Thunk(m) : m \in ByValueMethods}
  BY DEF DynTraitImpl, ByValueMethods
<1> HIDE DEF impl
<1>4. ByValueMethods \subseteq RangeOf(methods)
  BY DEF ByValueMethods
<1>5. (\A p \in DynTraitImpl : Resolves(p)) <=>
        ~ConstWithDefault /\ \A m \in ByValueMethods : Resolves(Thunk(m))
  BY <1>2, <1>3
<1>6. (\A m \in ByValueMethods : Resolves(Thunk(m))) <=>
        ~(ByValueWithLifetimes \/ ByValueWithDefaults \/ ByValueWithWhere)
  <2>1. \A m \in ByValueMethods : Resolves(Thunk(m)) <=>
          /\ m.mentions \cap m.lifetimes = {}
          /\ ~\E g \in Generics : g.default
          /\ ~\E p \in RangeOf(source.where) : p.about # {}
    BY <1>4, ThunkResolves
  <2> QED BY <2>1 DEF ByValueWithLifetimes, ByValueWithDefaults, ByValueWithWhere
<1> QED BY <1>5, <1>6

\* Which expansions do not resolve, for any accepted trait that resolved as it was written:
\* those of traits that combine two features the code generator does not expect together.
THEOREM ResolvesUnlessCombined == TraitSpec => []ResolvesOtherwise
<1>1. ASSUME TraitInv, verdict = "accepted"
      PROVE  (\A p \in Pieces : Resolves(p)) <=>
               ~(GenericWithBounds \/ ByValueWithLifetimes \/ ByValueWithDefaults
                   \/ ByValueWithWhere \/ ConstWithDefault)
  <2>1. source \in Sources
    BY <1>1, AcceptedTrait
  <2>2. (\A p \in Pieces : Resolves(p)) <=>
          /\ \A p \in TraitDef \cup VTableDef \cup BoundsDef : Resolves(p)
          /\ \A p \in VTableImpls : Resolves(p)
          /\ \A p \in SubTableImpls \cup AssociatedImpls : Resolves(p)
          /\ \A p \in ProxyImpl : Resolves(p)
          /\ \A p \in DynTraitImpl : Resolves(p)
          /\ \A p \in BlanketImpl : Resolves(p)
    BY DEF Pieces
  <2>3. \A p \in TraitDef \cup VTableDef \cup BoundsDef : Resolves(p)
    BY <1>1, DefinitionsResolve
  <2>4. (\A p \in VTableImpls : Resolves(p)) <=> ~GenericWithBounds
    BY <2>1, VTableImplsResolve
  <2>5. \A p \in SubTableImpls \cup AssociatedImpls : Resolves(p)
    BY <2>1, PlainImplsResolve
  <2>6. /\ (\A p \in ProxyImpl : Resolves(p)) <=> ~ConstWithDefault
        /\ (\A p \in BlanketImpl : Resolves(p)) <=> ~ConstWithDefault
    BY <1>1, <2>1, ProxyResolves, BlanketResolves
  <2>7. (\A p \in DynTraitImpl : Resolves(p)) <=>
          ~(ByValueWithLifetimes \/ ByValueWithDefaults \/ ByValueWithWhere \/ ConstWithDefault)
    BY <1>1, DynTraitResolves
  <2> QED BY <2>2, <2>3, <2>4, <2>5, <2>6, <2>7
<1>2. TraitInv => ResolvesOtherwise
  BY <1>1 DEF ResolvesOtherwise
<1> QED BY <1>2, TraitAlways, PTL
=============================================================================
