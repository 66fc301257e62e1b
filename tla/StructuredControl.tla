-------------------------- MODULE StructuredControl --------------------------
(***************************************************************************)
(* What `fn`, `return` and `try { } catch(e) { }` promise: activations are *)
(* entered and left like a stack, a function leaves with its own try       *)
(* blocks closed, and an error goes to the innermost open try block of the *)
(* innermost activation that has one, ending the activations above it, or  *)
(* ends the call. Data and addresses are left out.                         *)
(***************************************************************************)
EXTENDS Integers, Sequences, SequencesExt

VARIABLES
  tries,     \* open try blocks of each activation, the innermost last
  outcome    \* "running", "success" or "failed"

svars == <<tries, outcome>>

Init == tries = <<0>> /\ outcome = "running"

Active == outcome = "running"
Innermost == Len(tries)

Enter ==
  /\ Active
  /\ tries' = Append(tries, 0)
  /\ UNCHANGED outcome

Leave ==
  /\ Active
  /\ Len(tries) > 1
  /\ Last(tries) = 0
  /\ tries' = Front(tries)
  /\ UNCHANGED outcome

OpenTry ==
  /\ Active
  /\ tries' = [tries EXCEPT ![Innermost] = @ + 1]
  /\ UNCHANGED outcome

CloseTry ==
  /\ Active
  /\ Last(tries) > 0
  /\ tries' = [tries EXCEPT ![Innermost] = @ - 1]
  /\ UNCHANGED outcome

\* The error unwinds to activation i and its handler runs outside the try.
Catch ==
  /\ Active
  /\ \E i \in DOMAIN tries :
       /\ tries[i] > 0
       /\ \A j \in (i + 1)..Len(tries) : tries[j] = 0
       /\ tries' = [SubSeq(tries, 1, i) EXCEPT ![i] = @ - 1]
  /\ UNCHANGED outcome

\* Only the outermost activation ends the call normally.
Succeed ==
  /\ Active
  /\ tries = <<0>>
  /\ outcome' = "success"
  /\ UNCHANGED tries

\* An error nobody catches; also a panic, which no try block catches.
Fail ==
  /\ Active
  /\ outcome' = "failed"
  /\ UNCHANGED tries

\* Another call, on a machine of its own.
Renew ==
  /\ ~Active
  /\ tries' = <<0>>
  /\ outcome' = "running"

Next == Enter \/ Leave \/ OpenTry \/ CloseTry \/ Catch \/ Succeed \/ Fail \/ Renew

Spec == Init /\ [][Next]_svars
=============================================================================
