---------------------------- MODULE MCSubtables ----------------------------
(* The inputs on which TLC runs the macro: three traits of the same name and  *)
(* one of another, any dyn entries on two or three of them, and deeper graphs *)
(* on all four.                                                               *)
EXTENDS Subtables, TLC, SequencesExt

CONSTANTS a1, a2, a3, b

MCPaths == {a1, a2, a3, b}

MCIdent == [p \in MCPaths |-> [stem |-> IF p = b THEN "B" ELSE "A", digits |-> <<>>]]

\* Two traits A of different modules and a trait A2.
ClashIdent == [p \in MCPaths |-> IF p = b THEN [stem |-> "A", digits |-> <<2>>]
                                          ELSE [stem |-> "A", digits |-> <<>>]]

EntriesOver(S, R, length) ==
  [path : S, ref : R, bounds : SeqOf(S, length)]

SupertraitLists(S) == {s \in SeqOf(S, 3) : IsInjective(s)}

InputsOver(S, R, entries, bounds) ==
  [supertraits : SupertraitLists(S), predicates : SeqOf(EntriesOver(S, R, bounds), entries)]

Entry(p, r, bs) == [path |-> p, ref |-> r, bounds |-> bs]

\* A graph whose second supertrait has a bound of its own after a sibling, chains of
\* all four traits, and a circle of three.
DeepEntries == {Entry(a1, FALSE, <<a2, a3>>), Entry(a1, TRUE, <<a2>>), Entry(a2, FALSE, <<b>>),
                Entry(a3, FALSE, <<>>), Entry(a3, FALSE, <<a2>>), Entry(b, FALSE, <<a3>>)}

DeepInputs ==
  [supertraits : {<<a1>>, <<a1, a3>>, <<b, a1>>}, predicates : SeqOf(DeepEntries, 4)]

\* Entries with two bounds, which may be the same, and any others beside them.
WideInputs ==
  [supertraits : {<<a1>>, <<a2, b>>, <<b, a1>>, <<b, a1, a2>>},
   predicates : SeqOf(EntriesOver({a1, a2, b}, {FALSE}, 2), 2)]

\* A supertrait listed twice.
TwiceInputs ==
  [supertraits : {<<a1, a1>>, <<b, a1, b>>}, predicates : SeqOf(EntriesOver({a1, b}, BOOLEAN, 1), 2)]

MCInputs ==
  InputsOver({a1, a2, b}, {FALSE}, 2, 1) \cup InputsOver({a1, b}, BOOLEAN, 2, 1)
    \cup WideInputs \cup DeepInputs \cup TwiceInputs
    \cup [supertraits : {<<a1, a2, a3>>, <<a1, b, a2, a3>>, <<a3, a1>>},
          predicates : {<<Entry(a1, FALSE, <<>>), Entry(a2, TRUE, <<>>), Entry(a3, FALSE, <<b>>)>>}]

\* Three traits without bounds, in any order of supertraits and entries.
ClashInputs ==
  [supertraits : SetToAllKPermutations({a1, a2, b}),
   predicates : {<<Entry(a1, FALSE, <<>>), Entry(a2, FALSE, <<>>), Entry(b, FALSE, <<>>)>>}]
=============================================================================
