-------------------------- MODULE AptWorkerService --------------------------
(***************************************************************************)
(* What call_apt_worker () promises the flows of the Application Manager.  *)
(*                                                                         *)
(* Calls are outstanding in the order in which they were made.  Only the   *)
(* oldest one is answered, with the response that was computed for it.  At *)
(* any time the service may give up: all outstanding calls, and the calls  *)
(* made while that happens, are answered with NULL.                        *)
(***************************************************************************)
EXTENDS Integers, Sequences

CONSTANT MaxCalls   \* bound: calls made in one behaviour

VARIABLES
  outstanding,  \* identities of the calls that wait for their callback
  next,         \* identity of the next call
  done,         \* how often the callback of a call has been called
  reply         \* what it was called with: 0 nothing, -1 NULL, else whose response

svars == <<outstanding, next, done, reply>>

Ids == 1 .. MaxCalls

Init ==
  /\ outstanding = <<>>
  /\ next = 1
  /\ done = [i \in Ids |-> 0]
  /\ reply = [i \in Ids |-> 0]

\* The n calls made in this step, and the queue with its k oldest calls taken
\* off and the new ones at the end.
Fresh(n) == [i \in 1 .. n |-> next + i - 1]
Queue(k, n) == SubSeq(outstanding, k + 1, Len(outstanding)) \o Fresh(n)

\* Every call in a is answered with its own response, every call in s with NULL.
Answered(a, s) ==
  /\ done' = [i \in Ids |-> IF i \in a \cup s THEN done[i] + 1 ELSE done[i]]
  /\ reply' = [i \in Ids |-> IF i \in a THEN i ELSE IF i \in s THEN -1 ELSE reply[i]]

Elements(s) == {s[i] : i \in 1 .. Len(s)}

\* A call is accepted.
Accept ==
  /\ next <= MaxCalls
  /\ outstanding' = Queue(0, 1)
  /\ next' = next + 1
  /\ UNCHANGED <<done, reply>>

\* The oldest call is answered; its callback may make another call.
Answer ==
  /\ outstanding # <<>>
  /\ \E n \in {0, 1} :
       /\ next + n <= MaxCalls + 1
       /\ outstanding' = Queue(1, n)
       /\ next' = next + n
  /\ Answered({Head(outstanding)}, {})

\* All calls are given up, after k of them was answered properly.
GiveUp ==
  \E k \in 0 .. 1, n \in 0 .. (MaxCalls + 1 - next) :
    /\ k <= Len(outstanding)
    /\ outstanding' = <<>>
    /\ next' = next + n
    /\ Answered(Elements(SubSeq(outstanding, 1, k)), Elements(Queue(k, n)))

Next == Accept \/ Answer \/ GiveUp

Spec == Init /\ [][Next]_svars

============================================================================
