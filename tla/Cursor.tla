------------------------------- MODULE Cursor -------------------------------
(***************************************************************************)
(* What codec.Unmarshaler promises of a safe-mode codec, seen from the     *)
(* caller: a position moves forward inside the buffer, a value is either   *)
(* read to its end or rejected, and one count and one error come back.     *)
(***************************************************************************)
EXTENDS Integers

CONSTANTS
  NoErr,   \* the nil error
  Errors   \* what an Unmarshal may return, NoErr included

VARIABLES
  limit,    \* len(b)
  pos,      \* bytes consumed so far; in the end the count returned
  state,    \* "reading", "failing", "returned"
  outcome   \* the error

vars == <<limit, pos, state, outcome>>

Init ==
  /\ limit \in Nat
  /\ pos = 0
  /\ state = "reading"
  /\ outcome = NoErr

Read ==
  /\ state = "reading"
  /\ pos' \in pos .. limit
  /\ UNCHANGED <<limit, state, outcome>>

Reject ==
  /\ state = "reading"
  /\ state' = "failing"
  /\ outcome' \in Errors \ { NoErr }
  /\ pos' \in pos .. limit
  /\ UNCHANGED limit

\* Each enclosing method returns the count it had reached before the call.
Unwind ==
  /\ state = "failing"
  /\ pos' \in 0 .. pos
  /\ UNCHANGED <<limit, state, outcome>>

Return ==
  /\ state \in { "reading", "failing" }
  /\ state' = "returned"
  /\ UNCHANGED <<limit, pos, outcome>>

Next == Read \/ Reject \/ Unwind \/ Return

Spec == Init /\ [][Next]_vars
=============================================================================
