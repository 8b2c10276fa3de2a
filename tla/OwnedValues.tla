---------------------------- MODULE OwnedValues ----------------------------
(***************************************************************************)
(* What an owning smart pointer promises, whatever its representation: a   *)
(* value is in exactly one place, it is moved and never copied, a memory   *)
(* cell that holds a value is neither reused nor overwritten, and a value  *)
(* is destroyed at most once, from the place where it is.                  *)
(*                                                                         *)
(* DynBox.tla is shown to implement this specification.                    *)
(***************************************************************************)
EXTENDS Naturals

CONSTANTS
  Values,   \* the values that programs box
  Cells,    \* the memory cells that can hold a value
  None      \* no value

VARIABLES
  place,    \* place[v]: "client", "boxed", "callee" or "dead"
  drops,    \* drops[v]: how many times the destructor of v ran
  cell      \* cell[c]: the value the cell holds, or None

vars == <<place, drops, cell>>

Init ==
  /\ place = [v \in Values |-> "client"]
  /\ drops = [v \in Values |-> 0]
  /\ cell = [c \in Cells |-> None]

Vacate(v) == [c \in Cells |-> IF cell[c] = v THEN None ELSE cell[c]]

\* The client hands v over; a value that needs memory goes to an empty cell.
Put(v) ==
  /\ place[v] = "client"
  /\ place' = [place EXCEPT ![v] = "boxed"]
  /\ \/ \E c \in Cells : cell[c] = None /\ cell' = [cell EXCEPT ![c] = v]
     \/ UNCHANGED cell
  /\ UNCHANGED drops

\* A method that takes the value by value moves it out of its cell.
TakeOut(v) ==
  /\ place[v] = "boxed"
  /\ place' = [place EXCEPT ![v] = "callee"]
  /\ cell' = Vacate(v)
  /\ UNCHANGED drops

\* That method gives the value back to the client.
HandBack(v) ==
  /\ place[v] = "callee"
  /\ place' = [place EXCEPT ![v] = "client"]
  /\ UNCHANGED <<drops, cell>>

\* The destructor of v runs where v is.
Destroy(v) ==
  /\ place[v] # "dead"
  /\ place' = [place EXCEPT ![v] = "dead"]
  /\ drops' = [drops EXCEPT ![v] = @ + 1]
  /\ cell' = Vacate(v)

Next == \E v \in Values : Put(v) \/ TakeOut(v) \/ HandBack(v) \/ Destroy(v)

Spec == Init /\ [][Next]_vars
=============================================================================
