----------------------------- MODULE MCDynTrait -----------------------------
(* The sources on which TLC runs the macro.  Each family varies one part of   *)
(* the trait and leaves the others plain; Faults combines an error in every   *)
(* stage with any other.                                                      *)
EXTENDS Expansion, MCSubtables

MCIdentifiers == {"C", "Rust"}

MCAbis == {"C", "Rust", "C-unwind"}

Source(options, supertraits, where, items, generics) ==
  [options |-> options, supertraits |-> supertraits, where |-> where, items |-> items,
   generics |-> generics]

TraitNamed(p) == [is |-> "trait", path |-> p, hrtb |-> FALSE, modifier |-> FALSE]

Higher(p) == [TraitNamed(p) EXCEPT !.hrtb = TRUE]

Maybe(p) == [TraitNamed(p) EXCEPT !.modifier = TRUE]

Lifetime == [is |-> "lifetime"]

Pred(ref, object, bounds) ==
  [ref |-> ref, hrtb |-> FALSE, object |-> object, bounds |-> bounds, about |-> {}]

Dyn(p) == Pred("none", <<TraitNamed(p)>>, <<>>)

Kept(names) == [Pred("none", <<>>, <<TraitNamed(a1)>>) EXCEPT !.about = names]

-----------------------------------------------------------------------------
(* Subtables: the inputs of MCSubtables, as sources                         *)

Spelled(inp) ==
  Source(<<>>, [k \in DOMAIN inp.supertraits |-> TraitNamed(inp.supertraits[k])],
    [k \in DOMAIN inp.predicates |->
       LET e == inp.predicates[k] IN
       Pred(IF e.ref THEN "shared" ELSE "none", <<TraitNamed(e.path)>>,
            [j \in DOMAIN e.bounds |-> TraitNamed(e.bounds[j])])],
    <<>>, <<>>)

SubtableSources == {Spelled(inp) : inp \in MCInputs}

-----------------------------------------------------------------------------
(* Items                                                                    *)

Fn(abi, inputs) ==
  [is |-> "fn", name |-> "f", unsafe |-> FALSE, abi |-> abi, generics |-> <<>>,
   where |-> FALSE, variadic |-> FALSE, inputs |-> inputs, mentions |-> {}]

Param(kind, name) == [kind |-> kind, name |-> name, bounded |-> FALSE, default |-> FALSE]

ByRef == Fn("C", <<"&self", "name: T", "_: T">>)

ByValue == Fn("C", <<"self", "name: T">>)

WithLifetime(fn) == [fn EXCEPT !.generics = <<Param("lifetime", "'m")>>, !.mentions = {"'m"}]

MCItems ==
  {[is |-> what] : what \in {"type", "const", "macro", "verbatim"}}
    \cup {Fn(abi, inputs) : abi \in {"none", "C"},
            inputs \in {<<>>, <<"&self">>, <<"self", "_: T">>, <<"name: T">>, <<"self: T">>,
                        <<"pattern: T">>, <<"&self", "pattern: T">>, <<"_: T", "pattern: T">>}}
    \cup {[ByRef EXCEPT !.unsafe = TRUE], [ByRef EXCEPT !.where = TRUE],
          [ByRef EXCEPT !.variadic = TRUE], WithLifetime(ByRef),
          [ByRef EXCEPT !.generics = <<[Param("lifetime", "'m") EXCEPT !.bounded = TRUE]>>],
          [ByRef EXCEPT !.generics = <<Param("lifetime", "'m"), Param("type", "U")>>],
          [ByRef EXCEPT !.generics = <<Param("const", "M")>>]}

Relaxed == [name |-> "relax_abi", is |-> "bool", value |-> TRUE]

ItemSources ==
  {Source(options, <<>>, <<>>, items, <<>>) :
     options \in {<<>>, <<Relaxed>>}, items \in SeqOf(MCItems, 2)}

-----------------------------------------------------------------------------
(* Options and the where clause                                             *)

Given(name, is, value) == [name |-> name, is |-> is, value |-> value]

MCOptions ==
  {Given("repr", "ident", "C"), Given("repr", "ident", "Rust"), Given("repr", "string", "C"),
   Relaxed, Given("relax_abi", "bool", FALSE), Given("relax_abi", "ident", "C"),
   Given("drop", "ident", "none"), Given("drop", "ident", "C"), Given("drop", "string", "C"),
   Given("drop", "string", "C-unwind"), Given("drop", "string", "no ABI"),
   Given("drop", "bool", TRUE),
   Given("embed_layout", "bool", FALSE), Given("embed_layout", "string", "C"),
   Given("vtable", "ident", "C"), Given("vtable", "bool", TRUE), Given("size", "bool", TRUE)}

OptionSources ==
  {Source(options, <<>>, <<>>, <<Fn("none", <<"&self">>)>>, <<>>) : options \in SeqOf(MCOptions, 2)}
    \cup {Source(options, <<>>, <<>>, <<ByValue>>, <<>>) :
            options \in {o \in SetToAllKPermutations({Given("repr", "ident", "Rust"), Relaxed,
                            Given("drop", "ident", "none"), Given("embed_layout", "bool", FALSE)}) :
                           Len(o) > 2}}

MCPredicates ==
  {Kept({}), Kept({"T"}), [Kept({}) EXCEPT !.hrtb = TRUE], Dyn(a1), Dyn(b),
   Pred("shared", <<TraitNamed(a1)>>, <<TraitNamed(b)>>), Pred("shared", <<>>, <<>>),
   Pred("lifetime", <<TraitNamed(a1)>>, <<>>), Pred("lifetime", <<>>, <<>>),
   Pred("mut", <<TraitNamed(a1)>>, <<>>), Pred("none", <<TraitNamed(a1), Lifetime>>, <<>>),
   Pred("none", <<Higher(a1)>>, <<>>), Pred("none", <<Maybe(a1)>>, <<>>),
   [Dyn(a1) EXCEPT !.hrtb = TRUE], Pred("none", <<TraitNamed(a1)>>, <<Lifetime>>),
   Pred("none", <<TraitNamed(a1)>>, <<Higher(b)>>),
   Pred("none", <<TraitNamed(a1)>>, <<TraitNamed(b), Maybe(a2)>>)}

WhereSources ==
  {Source(<<>>, supertraits, where, <<ByRef>>, <<Param("type", "T")>>) :
     supertraits \in {<<TraitNamed(a1)>>, <<Lifetime, TraitNamed(a1), Maybe(b)>>},
     where \in SeqOf(MCPredicates, 2)}
    \cup {Source(<<>>, <<TraitNamed(a1), TraitNamed(b)>>, where, <<>>, <<>>) :
            where \in {<<Dyn(b), Kept({}), Dyn(a1)>>, <<Kept({}), Dyn(a1), Kept({"T"}), Dyn(b)>>,
                       <<Dyn(a1), Kept({}), Dyn(b), Pred("mut", <<>>, <<>>)>>}}

\* A source with or without an error in each stage.
Faults ==
  {Source(options, <<TraitNamed(a1)>>, <<Dyn(a1)>> \o where, <<Fn(abi, <<"&self">>)>> \o items, <<>>) :
     options \in {<<>>, <<Relaxed, Relaxed>>, <<Relaxed, Given("size", "bool", TRUE)>>},
     where \in {<<>>, <<Dyn(a1)>>, <<Dyn(b)>>, <<Dyn(a1), [Dyn(b) EXCEPT !.hrtb = TRUE]>>},
     abi \in {"none", "C"}, items \in {<<>>, <<[is |-> "const"]>>}}

-----------------------------------------------------------------------------
(* Expansions: generics, supertraits, where clauses, methods and options     *)

MCGenerics ==
  LET T == Param("type", "T") IN
  {<<>>, <<Param("lifetime", "'l")>>, <<T>>, <<[T EXCEPT !.bounded = TRUE]>>,
   <<[T EXCEPT !.default = TRUE]>>, <<Param("const", "N")>>,
   <<[Param("const", "N") EXCEPT !.default = TRUE]>>, <<Param("lifetime", "'l"), T>>}

ExpansionsOf(counts, fns) ==
  {Source(options, SubSeq(<<TraitNamed(a1), TraitNamed(b)>>, 1, n), where, fn, generics) :
     options \in {<<>>, <<Given("drop", "ident", "none"), Given("embed_layout", "bool", FALSE)>>},
     n \in counts, where \in {<<>>, <<Kept({})>>, <<Kept({"T"})>>}, fn \in fns,
     generics \in MCGenerics}

MCMethods ==
  {<<>>, <<ByRef>>, <<ByValue>>, <<WithLifetime(ByRef)>>, <<WithLifetime(ByValue)>>,
   <<ByValue, WithLifetime(ByRef)>>,
   <<[WithLifetime(ByValue) EXCEPT !.mentions = {}], [ByRef EXCEPT !.unsafe = TRUE]>>}

MCSources ==
  SubtableSources \cup ItemSources \cup OptionSources \cup WhereSources \cup Faults
    \cup ExpansionsOf(0 .. 2, MCMethods)
=============================================================================
