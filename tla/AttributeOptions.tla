--------------------------- MODULE AttributeOptions ---------------------------
(***************************************************************************)
(* The options in #[dyntable(...)]: AttributeOptions::parse                *)
(* (src/dyntable-macro/src/parse/attribute.rs).  All options are parsed    *)
(* before the first is stored.                                             *)
(***************************************************************************)
EXTENDS MacroStages

CONSTANTS
  Identifiers,   \* the quoted names that are Rust identifiers
  Abis           \* the quoted names that `extern "..."` permits

VARIABLES
  given,      \* OptionalOptions: the options stored so far
  settings    \* the AttributeOptions returned

(***************************************************************************)
(* An option `name = value`; `is` says which token the value is.           *)
(***************************************************************************)
Option == [name : STRING, is : {"ident", "string"}, value : STRING]
            \cup [name : STRING, is : {"bool"}, value : BOOLEAN]

\* The tokens an option takes.
Takes ==
  [repr |-> {"ident"}, relax_abi |-> {"bool"}, drop |-> {"ident", "string"},
   embed_layout |-> {"bool"}, vtable |-> {"ident"}]

Defaults ==
  [repr |-> "C", relax_abi |-> FALSE, drop |-> "C", embed_layout |-> TRUE,
   vtable |-> "TraitVTable"]

OptionsInit == given = <<>> /\ settings = Defaults

-----------------------------------------------------------------------------

OptionError(o) ==
  IF o.name \notin DOMAIN Takes THEN "unknown option"
  ELSE IF o.is \notin Takes[o.name] THEN "unexpected token"
  ELSE IF o.name = "drop" /\ o.is = "ident" /\ o.value # "none"
       THEN "expected quoted ABI or none"
  ELSE "none"

\* `drop = "abi"` makes an identifier of the string, which panics unless it is one.
NotIdentifier(o) == o.name = "drop" /\ o.is = "string" /\ o.value \notin Identifiers

\* What an option stores: `repr = Rust` stands for no #[repr], `drop = none` for no ABI.
Stored(o) == IF o.name = "repr" /\ o.value = "Rust" THEN "implicit" ELSE o.value

ParseOption ==
  /\ Reading("options", source.options)
  /\ OptionError(source.options[pos]) = "none" /\ ~NotIdentifier(source.options[pos])
  /\ Continue /\ UNCHANGED <<given, settings>>

OptionMalformed ==
  /\ Reading("options", source.options)
  /\ OptionError(source.options[pos]) # "none"
  /\ Return(OptionError(source.options[pos])) /\ UNCHANGED <<given, settings>>

OptionPanics ==
  /\ Reading("options", source.options)
  /\ OptionError(source.options[pos]) = "none" /\ NotIdentifier(source.options[pos])
  /\ Return("panicked") /\ UNCHANGED <<given, settings>>

OptionsParsed ==
  /\ PastEnd("options", source.options)
  /\ Enter("settings") /\ UNCHANGED <<given, settings>>

\* Mutant: a second value replaces the first.
StoreOptionAgain ==
  /\ Reading("settings", source.options)
  /\ LET o == source.options[pos] IN
     given' = [n \in DOMAIN given \cup {o.name} |-> IF n = o.name THEN Stored(o) ELSE given[n]]
  /\ Continue /\ UNCHANGED settings

StoreOption ==
  /\ Reading("settings", source.options)
  /\ LET o == source.options[pos] IN
     /\ o.name \notin DOMAIN given
     /\ given' = [n \in DOMAIN given \cup {o.name} |->
                    IF n = o.name THEN Stored(o) ELSE given[n]]
  /\ Continue /\ UNCHANGED settings

OptionDuplicate ==
  /\ Reading("settings", source.options)
  /\ source.options[pos].name \in DOMAIN given
  /\ Return("option can only be defined once") /\ UNCHANGED <<given, settings>>

\* Mutant: no option is on unless it is given.
SettleOff ==
  /\ PastEnd("settings", source.options)
  /\ settings' = [n \in DOMAIN Defaults |->
       IF n \in DOMAIN given THEN given[n]
       ELSE IF n = "embed_layout" THEN FALSE ELSE Defaults[n]]
  /\ Enter("where") /\ UNCHANGED given

Settle ==
  /\ PastEnd("settings", source.options)
  /\ settings' = [n \in DOMAIN Defaults |-> IF n \in DOMAIN given THEN given[n] ELSE Defaults[n]]
  /\ Enter("where") /\ UNCHANGED given

OptionsNext ==
  \/ ParseOption \/ OptionMalformed \/ OptionPanics \/ OptionsParsed
  \/ StoreOption \/ OptionDuplicate \/ Settle
=============================================================================
