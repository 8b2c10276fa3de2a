------------------------------- MODULE DynTrait -------------------------------
(***************************************************************************)
(* The parsers of #[dyntable] from the source of a trait to its verdict:   *)
(* DynTraitInfo::parse_trait and DynTraitBody::parse                       *)
(* (src/dyntable-macro/src/parse).  The options come first, then the where *)
(* clause, the subtables and their names, the items, and the ABIs.         *)
(***************************************************************************)
EXTENDS Subtables, DynEntries, TraitItems

CONSTANT Sources   \* the sources the macro is given

(***************************************************************************)
(* The parts of a source, in the words of DynEntries and TraitItems.       *)
(***************************************************************************)
TraitBound == [is : {"trait"}, path : Paths, hrtb : BOOLEAN, modifier : BOOLEAN]

AnyBound == TraitBound \cup [is : {"lifetime"}]

WherePredicate ==
  [ref : {"none", "shared", "mut", "lifetime"}, hrtb : BOOLEAN, object : Seq(AnyBound),
   bounds : Seq(AnyBound), about : SUBSET STRING]

GenericParam ==
  [kind : {"lifetime", "type", "const"}, name : STRING, bounded : BOOLEAN, default : BOOLEAN]

Method ==
  [is : {"fn"}, name : STRING, unsafe : BOOLEAN, abi : STRING, generics : Seq(GenericParam),
   where : BOOLEAN, variadic : BOOLEAN,
   inputs : Seq({"self", "&self", "self: T", "pattern: T", "name: T", "_: T"}),
   mentions : SUBSET STRING]

Item == Method \cup [is : {"type", "const", "macro", "verbatim"}]

\* The supertraits that are traits, and not lifetimes.
TraitBounds(supertraits) == SelectSeq(supertraits, LAMBDA bound : bound.is = "trait")

ASSUME SourcesAssumption ==
  \A s \in Sources :
    /\ s.options \in Seq(Option)
    /\ TraitBounds(s.supertraits) \in Seq(TraitBound) /\ Len(TraitBounds(s.supertraits)) < 10
    /\ s.where \in Seq(WherePredicate)
    /\ s.items \in Seq(Item)

\* The provers do not know that words are strings.
ASSUME WordsAssumption == {"C", "none", "TraitVTable", "implicit"} \subseteq STRING

subtableVars ==
  <<input, pc, i, error, supertrait_map, specified_paths, ref_tokens, used, subtables, todo,
    used_names, fields>>

optionVars == <<given, settings>>

entryVars == <<where_clause, dyn_entries>>

traitVars == <<source, stage, pos, verdict, optionVars, entryVars, methods, subtableVars>>

TraitInit ==
  /\ source \in Sources
  /\ stage = "options" /\ pos = 1 /\ verdict = "none"
  /\ OptionsInit /\ EntriesInit /\ ItemsInit
  /\ input = [supertraits |-> <<>>, predicates |-> <<>>] /\ Start

-----------------------------------------------------------------------------

ReadOptions == OptionsNext /\ UNCHANGED <<entryVars, methods, subtableVars>>

Strip == StripNext /\ UNCHANGED <<optionVars, methods, subtableVars>>

\* What solve_subtables is given.
Stripped ==
  /\ PastEnd("where", source.where)
  /\ LET bounds == TraitBounds(source.supertraits) IN
     input' = [supertraits |-> [k \in DOMAIN bounds |-> bounds[k].path],
               predicates |-> dyn_entries]
  /\ Enter("subtables")
  /\ UNCHANGED <<optionVars, entryVars, methods, pc, i, error, supertrait_map,
                 specified_paths, ref_tokens, used, subtables, todo, used_names, fields>>

Solve ==
  /\ stage = "subtables" /\ verdict = "none"
  /\ Next
  /\ IF pc' \in {"error", "aborted"} THEN Return(error')
     ELSE IF pc' = "ok" THEN Enter("items")
     ELSE UNCHANGED <<source, stage, pos, verdict>>
  /\ UNCHANGED <<optionVars, entryVars, methods>>

ReadItems == ItemsNext /\ UNCHANGED <<optionVars, entryVars, subtableVars>>

TraitNext == ReadOptions \/ Strip \/ Stripped \/ Solve \/ ReadItems

\* The macro is one call, which runs to its end unless one of its loops does not.
TraitSpec == TraitInit /\ [][TraitNext]_traitVars /\ WF_traitVars(TraitNext)

-----------------------------------------------------------------------------
(* What the documentation asks of a trait, stage by stage                   *)

RangeOf(s) == {s[k] : k \in DOMAIN s}

\* Options are known and have a value of their kind, for `drop` any quoted ABI ...
OptionsKnown ==
  \A o \in RangeOf(source.options) :
    \/ o.name \in {"repr", "vtable"} /\ o.is = "ident"
    \/ o.name \in {"relax_abi", "embed_layout"} /\ o.is = "bool"
    \/ o.name = "drop" /\ o.is = "ident" /\ o.value = "none"
    \/ o.name = "drop" /\ o.is = "string"

\* ... and are given once.
OptionsOnce ==
  \A j, k \in DOMAIN source.options : source.options[j].name = source.options[k].name => j = k

PlainTrait(bound) == bound.is = "trait" /\ ~bound.hrtb /\ ~bound.modifier

\* A dyn entry relates one plain trait to plain traits; a predicate on another
\* reference than that of a dyn entry is in parentheses.
EntriesPlain ==
  \A p \in RangeOf(source.where) :
    /\ p.ref \in {"none", "shared"}
    /\ p.object # <<>> =>
         ~p.hrtb /\ Len(p.object) = 1 /\ \A b \in RangeOf(p.object \o p.bounds) : PlainTrait(b)

SubtablesLegal == ListedOnce /\ BoundedOnce /\ Related /\ RefsOnTop /\ ~Circular

\* The items are methods with an implicit receiver, plain parameters, and no generics but
\* unbounded lifetimes.
ItemsLegal ==
  \A item \in RangeOf(source.items) :
    /\ item.is = "fn" /\ ~item.variadic /\ ~item.where
    /\ item.inputs # <<>> /\ item.inputs[1] \in Receivers
    /\ \A k \in DOMAIN item.inputs \ {1} : item.inputs[k] \in {"name: T", "_: T"}
    /\ \A g \in RangeOf(item.generics) : g.kind = "lifetime" /\ ~g.bounded

AbisGiven ==
  \/ \E o \in RangeOf(source.options) : o.name = "relax_abi" /\ o.value = TRUE
  \/ \A item \in RangeOf(source.items) : item.abi # "none"

Stages == <<"options", "settings", "where", "subtables", "items", "abi">>

Legal(s) ==
  CASE s = "options" -> OptionsKnown
    [] s = "settings" -> OptionsOnce
    [] s = "where" -> EntriesPlain
    [] s = "subtables" -> SubtablesLegal
    [] s = "items" -> ItemsLegal
    [] s = "abi" -> AbisGiven

-----------------------------------------------------------------------------
(* Properties                                                              *)

\* The errors of the parsers.
Messages ==
  {"unknown option", "unexpected token", "expected quoted ABI or none",
   "option can only be defined once",
   "unexpected lifetime in ref dyn bound", "unexpected mut in ref dyn bound",
   "dyn bound must have exactly 1 trait", "dyn bound must be a trait",
   "dyn bound cannot have higher ranked trait bounds", "dyn bound cannot have trait modifier",
   "supertrait already listed", "this path is a duplicate",
   "dyn trait bound has no relation to the defined trait",
   "& may only be applied to toplevel trait bounds", "stack overflow",
   "variadics are not supported", "where clauses cannot be specified for functions",
   "lifetime bounds", "const generics", "type generics",
   "self must use implicit type syntax", "patterns are not supported",
   "first parameter must be self", "self is bound more than once",
   "missing required self parameter", "associated types are currently unsupported",
   "associated constants are not supported", "macro invocations are not supported",
   "unknown entry", "missing explicit ABI specifier"}

\* The variables of the parsers have their types.
ParsersTypeOK ==
  /\ stage \in RangeOf(Stages) /\ pos \in Nat \ {0}
  /\ verdict \in Messages \cup {"none", "accepted", "panicked"}
  /\ DOMAIN given \subseteq DOMAIN Takes
  /\ settings \in [repr : STRING, relax_abi : BOOLEAN, drop : STRING,
                   embed_layout : BOOLEAN, vtable : STRING]
  /\ where_clause \in Seq(RangeOf(source.where))
  /\ dyn_entries \in Seq(Entries)
  /\ methods \in Seq(MethodEntry)

\* The macro accepts only sources that follow the rules of every stage, and rejects one in
\* the first stage whose rules the source breaks, whatever the later ones hold.  What
\* keeps it from accepting a source that breaks none is only a drop ABI that is not an
\* identifier, on which it panics.
VerdictOfFirstStage ==
  LET reached == CHOOSE n \in DOMAIN Stages : Stages[n] = stage IN
  /\ \A n \in 1 .. (reached - 1) : Legal(Stages[n])
  /\ verdict = "accepted" => stage = "abi" /\ Legal("abi")
  /\ verdict = "panicked" =>
       /\ stage = "options" /\ pos \in DOMAIN source.options
       /\ OptionError(source.options[pos]) = "none" /\ NotIdentifier(source.options[pos])
  /\ verdict \notin {"none", "accepted", "panicked"} => ~Legal(stage)

\* The drop option takes any ABI that `extern "..."` permits: none of them makes the
\* macro panic.
DocumentedAbisTaken == verdict = "panicked" => source.options[pos].value \notin Abis

\* The code generator finds every option as the source gives it, wherever it stands among
\* the others, and the documented default where the source does not.
OptionsMeant ==
  verdict = "accepted" =>
    \A n \in DOMAIN settings :
      IF \E o \in RangeOf(source.options) : o.name = n
      THEN \E o \in RangeOf(source.options) : o.name = n /\ settings[n] = Stored(o)
      ELSE settings[n] = Defaults[n]

PredicatesRead ==
  CASE stage \in {"options", "settings"} -> 0
    [] stage = "where" -> pos - 1
    [] OTHER -> Len(source.where)

\* Of the first n predicates, those about dyn types are the entries and the others the
\* where clause, in their order.
ConservedUpTo(n) ==
  LET entries == {k \in 1 .. n : source.where[k].object # <<>>}
      others == {k \in 1 .. n : source.where[k].object = <<>>} IN
  /\ Len(where_clause) = Cardinality(others)
  /\ \A k \in others : where_clause[Rank(others, k)] = source.where[k]
  /\ Len(dyn_entries) = Cardinality(entries)
  /\ \A k \in entries :
       LET entry == dyn_entries[Rank(entries, k)]
           p == source.where[k] IN
       /\ entry.path = p.object[1].path
       /\ entry.ref <=> p.ref # "none"
       /\ Len(entry.bounds) = Len(p.bounds)
       /\ \A j \in DOMAIN p.bounds : entry.bounds[j] = p.bounds[j].path

\* While the predicates are swapped out of the where clause none is lost, doubled or
\* reordered: those read so far are in the where clause or are entries, which
\* solve_subtables is given.
PredicatesConserved ==
  ConservedUpTo(PredicatesRead) /\ (stage = "subtables" => input.predicates = dyn_entries)

\* However its entries are nested and its options malformed, the macro comes to an end;
\* that of entries in a circle is the end of the stack.
MacroEnds == <>(verdict # "none")

-----------------------------------------------------------------------------
(* The inductive invariant                                                 *)

After ==
  [options |-> {"settings", "where", "subtables", "items", "abi"},
   settings |-> {"where", "subtables", "items", "abi"},
   where |-> {"subtables", "items", "abi"},
   items |-> {"abi"}]

\* The loop of stage s is past element k of its list.
IsPast(s, k) == (stage = s /\ k < pos) \/ stage \in After[s]

OptionsInv ==
  \A k \in DOMAIN source.options :
    IsPast("options", k) =>
      OptionError(source.options[k]) = "none" /\ ~NotIdentifier(source.options[k])

\* The options stored so far, each by its name.
StoredInv ==
  LET stored == {k \in DOMAIN source.options : IsPast("settings", k)} IN
  /\ DOMAIN given = {source.options[k].name : k \in stored}
  /\ \A k \in stored : given[source.options[k].name] = Stored(source.options[k])
  /\ \A j, k \in stored : source.options[j].name = source.options[k].name => j = k

SettingsInv ==
  settings =
    IF stage \in After["settings"]
    THEN [n \in DOMAIN Defaults |-> IF n \in DOMAIN given THEN given[n] ELSE Defaults[n]]
    ELSE Defaults

WhereInv ==
  /\ \A k \in DOMAIN source.where :
       IsPast("where", k) =>
         /\ PredicateError(source.where[k]) = "none"
         /\ IsEntry(source.where[k]) \/ source.where[k] \in RangeOf(where_clause)
  /\ where_clause \in Seq(RangeOf(source.where))
  /\ dyn_entries \in Seq(Entries)

SolveInv ==
  /\ stage \in {"options", "settings", "where"} => Start
  /\ stage = "subtables" /\ verdict = "none" => pc \notin {"ok", "error", "aborted"}
  /\ stage \in {"items", "abi"} => pc = "ok"

ItemsInv ==
  /\ \A k \in DOMAIN source.items : IsPast("items", k) => ItemError(source.items[k]) = "none"
  /\ Len(methods) = CASE stage = "items" -> pos - 1
                      [] stage = "abi" -> Len(source.items)
                      [] OTHER -> 0
  /\ \A k \in DOMAIN methods : methods[k] = MethodOf(source.items[k])
  /\ stage = "abi" =>
       \A k \in DOMAIN methods : k < pos => settings.relax_abi \/ methods[k].abi # "none"

\* How far the loops are says what is known of the parts of the source they read.
StagesInv ==
  /\ stage \in RangeOf(Stages) /\ pos \in Nat \ {0}
  /\ stage \in {"options", "settings"} => pos <= Len(source.options) + 1
  /\ stage = "where" => pos <= Len(source.where) + 1
  /\ stage = "items" => pos <= Len(source.items) + 1
  /\ stage = "abi" => pos <= Len(methods) + 1
  /\ OptionsInv /\ StoredInv /\ SettingsInv /\ WhereInv /\ SolveInv /\ ItemsInv
=============================================================================
