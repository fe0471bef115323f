---------------------------- MODULE ClientView -----------------------------
(***************************************************************************)
(* What the gateway promises the client of each chat completion, with the  *)
(* workers, the race, the limiter and the breakers left out: a request is  *)
(* tried at most Tries times, a further try is made only while nothing of  *)
(* the response has been sent, an error status is given only instead of a  *)
(* body, a body ends complete or cut off, and a request is answered once.  *)
(***************************************************************************)
EXTENDS Naturals

CONSTANTS Requests, Tries

VARIABLES
  phase,      \* of the exchange: idle, waiting, body or closed
  tries,      \* tries made
  answer      \* how it ended

vars == <<phase, tries, answer>>

Errors == {"429", "502", "503"}

Init ==
  /\ phase = [r \in Requests |-> "idle"]
  /\ tries = [r \in Requests |-> 0]
  /\ answer = [r \in Requests |-> "none"]

Accept(r) ==
  /\ phase[r] = "idle"
  /\ phase' = [phase EXCEPT ![r] = "waiting"]
  /\ tries' = [tries EXCEPT ![r] = 1]
  /\ UNCHANGED answer

Close(r, a) ==
  /\ phase' = [phase EXCEPT ![r] = "closed"]
  /\ answer' = [answer EXCEPT ![r] = a]
  /\ UNCHANGED tries

Reject(r) == phase[r] = "idle" /\ Close(r, "400")

TryAgain(r) ==
  /\ phase[r] = "waiting"
  /\ tries[r] < Tries
  /\ tries' = [tries EXCEPT ![r] = @ + 1]
  /\ UNCHANGED <<phase, answer>>

\* The status line, 200, and the first bytes of the body go out.
Respond(r) ==
  /\ phase[r] = "waiting"
  /\ phase' = [phase EXCEPT ![r] = "body"]
  /\ UNCHANGED <<tries, answer>>

\* An error status, or nothing at all to a client that has gone.
Fail(r) == phase[r] = "waiting" /\ \E a \in Errors \cup {"gone"} : Close(r, a)

\* The body ends, complete or not.
EndBody(r) == phase[r] = "body" /\ \E a \in {"200", "truncated"} : Close(r, a)

Next == \E r \in Requests :
  Accept(r) \/ Reject(r) \/ TryAgain(r) \/ Respond(r) \/ Fail(r) \/ EndBody(r)

Spec == Init /\ [][Next]_vars
=============================================================================
