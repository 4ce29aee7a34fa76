------------------------ MODULE AptWorkerLink_proofs ------------------------
(***************************************************************************)
(* Proofs of the safety properties of the link between frontend and        *)
(* backend, for every number of calls, cancel bytes and unread messages.   *)
(***************************************************************************)
EXTENDS AptWorkerLink, SequenceTheorems, TLAPS

\* A queue q of calls that may be handed to maybe_send_one_worker_call () with
\* active_call = act and counters id and seq, when call a has been answered.
WaitOK(act, q, id, seq, a) ==
  /\ act \in Call /\ q \in Seq(Call)
  /\ id \in 1 .. (MaxCalls + 1) /\ seq \in 0 .. MaxCalls /\ seq < id
  /\ a \in 0 .. (id - 1)
  /\ a # 0 => done[a] = 0
  /\ act # NoCall => /\ act.id \in 1 .. (id - 1) /\ act.kind # "exit"
                     /\ done[act.id] = 0 /\ act.id # a
  /\ \A i \in 1 .. Len(q) :
       /\ q[i].id \in 1 .. (id - 1) /\ q[i].kind # "exit"
       /\ done[q[i].id] = 0 /\ q[i].id # a
       /\ act # NoCall => act.id < q[i].id
  /\ \A i, j \in 1 .. Len(q) : i < j => q[i].id < q[j].id
  /\ \A i \in CallIds : i >= id => done[i] = 0

\* The queue as it is, before the active call is answered.
LEMMA WaitActive ==
  ASSUME TypeOK, CallsInv
  PROVE  WaitOK(active, pending, nextId, nextSeq, 0)
  BY LinkAssumption DEF TypeOK, CallsTypeOK, CallsInv, WaitOK, CallIds

\* The queue as it is, when the active call has been answered.
LEMMA WaitAnswered ==
  ASSUME TypeOK, CallsInv, active # NoCall
  PROVE  WaitOK(NoCall, pending, nextId, nextSeq, active.id)
<1>1. NoCall \in Call
  BY LinkAssumption DEF Call, NoCall, Kinds
<1>2. \A i \in 1 .. Len(pending) : active.id < pending[i].id /\ pending[i].id \in Nat
  BY DEF CallsInv
<1>3. active.id \in 1 .. (nextId - 1) /\ done[active.id] = 0
  BY DEF CallsInv
<1>4. /\ pending \in Seq(Call) /\ nextId \in 1 .. (MaxCalls + 1)
      /\ nextSeq \in 0 .. MaxCalls /\ nextSeq < nextId
  BY DEF TypeOK, CallsTypeOK, CallsInv
<1>5. \A i \in 1 .. Len(pending) : active.id # pending[i].id
  BY <1>2, <1>3, <1>4
<1>6. QED
  BY <1>1, <1>3, <1>4, <1>5 DEF CallsInv, WaitOK

\* A queue stays in order when a new call is appended to it.
LEMMA WaitAppend ==
  ASSUME TypeOK, NEW act, NEW a, NEW kind \in Kinds,
         WaitOK(act, pending, nextId, nextSeq, a),
         nextId <= MaxCalls
  PROVE  WaitOK(act,
                Append(pending, [id |-> nextId, seq |-> nextSeq, kind |-> kind]),
                nextId + 1, nextSeq + 1, a)
<1> DEFINE c == [id |-> nextId, seq |-> nextSeq, kind |-> kind]
           q == Append(pending, c)
<1>1. c \in Call /\ c.kind # "exit"
  BY LinkAssumption DEF CallsTypeOK, TypeOK, Call, Kinds
<1>2. q \in Seq(Call) /\ Len(q) = Len(pending) + 1
  BY <1>1 DEF CallsTypeOK, TypeOK
<1>3. \A i \in 1 .. Len(pending) : q[i] = pending[i]
  BY <1>1 DEF CallsTypeOK, TypeOK
<1>4. q[Len(pending) + 1] = c
  BY <1>1 DEF CallsTypeOK, TypeOK
<1>5. done[nextId] = 0 /\ nextId \in Nat /\ nextSeq \in Nat
  BY LinkAssumption DEF WaitOK, CallIds, CallsTypeOK, TypeOK
<1>6. Len(pending) \in Nat
  BY DEF CallsTypeOK, TypeOK
<1> HIDE DEF q
<1>7. QED
  BY <1>1, <1>2, <1>3, <1>4, <1>5, <1>6, LinkAssumption DEF WaitOK, CallIds

-----------------------------------------------------------------------------
(* Completing calls and sending the next one *)

\* Completing calls that have not been completed keeps "at most once" and
\* "its own answer".
LEMMA CompleteOK ==
  ASSUME TypeOK, AtMostOnce, AnswerMatches,
         NEW a, NEW v, NEW S,
         a = 0 \/ (a \in CallIds /\ v = a /\ done[a] = 0),
         \A i \in CallIds : i \in S => done[i] = 0,
         Complete(a, v, S)
  PROVE  /\ done' \in [CallIds -> Nat]
         /\ reply' \in [CallIds -> -1 .. MaxCalls]
         /\ AtMostOnce' /\ AnswerMatches'
         /\ \A i \in CallIds : i # a /\ i \notin S => done'[i] = done[i]
<1>1. \A i \in CallIds : done[i] \in Nat /\ reply[i] \in -1 .. MaxCalls
  BY DEF CallsTypeOK, TypeOK
<1>2. \A i \in CallIds : i \in Nat /\ i # 0 /\ i <= MaxCalls
  BY LinkAssumption DEF CallIds, LinkAssumption
<1>3. \A i \in CallIds : done'[i] = (IF i = a \/ i \in S THEN done[i] + 1 ELSE done[i])
  BY DEF Complete
<1>4. \A i \in CallIds : reply'[i] = (IF i = a THEN v
                               ELSE IF i \in S THEN NoDecoder ELSE reply[i])
  BY DEF Complete
<1>5. done' \in [CallIds -> Nat]
  BY <1>1 DEF Complete
<1>6. \A i \in CallIds : reply'[i] \in -1 .. MaxCalls
  BY <1>1, <1>2, <1>4, LinkAssumption DEF NoDecoder, LinkAssumption
<1>7. reply' \in [CallIds -> -1 .. MaxCalls]
  BY <1>6 DEF Complete
<1>8. AtMostOnce'
  BY <1>1, <1>2, <1>3 DEF AtMostOnce
<1>9. AnswerMatches'
  BY <1>2, <1>4 DEF AnswerMatches
<1>10. QED
  BY <1>3, <1>5, <1>7, <1>8, <1>9

\* What maybe_send_one_worker_call () leaves behind.
LEMMA SendOK ==
  ASSUME TypeOK, AtMostOnce, AnswerMatches,
         NEW act, NEW q, NEW id, NEW seq, NEW a, NEW v,
         WaitOK(act, q, id, seq, a),
         a = 0 \/ v = a,
         MaybeSendOneWorkerCall(act, q, id, seq, a, v)
  PROVE  /\ pending' \in Seq(Call) /\ active' \in Call /\ toPipe' \in Seq(Call)
         /\ nextId' \in 1 .. (MaxCalls + 1) /\ nextSeq' \in 0 .. MaxCalls
         /\ done' \in [CallIds -> Nat] /\ reply' \in [CallIds -> -1 .. MaxCalls]
         /\ AtMostOnce' /\ AnswerMatches' /\ CallsInv'
         /\ ready' => active' # NoCall \/ pending' = <<>>
         /\ ~ready' => active' = act
         /\ \/ active' = act /\ toPipe' = toPipe
            \/ /\ act = NoCall /\ active' # NoCall
               /\ toPipe' = Append(toPipe, active')
               /\ ready' /\ wpc # "dead"
<1>1. a = 0 \/ (a \in CallIds /\ v = a /\ done[a] = 0)
  BY LinkAssumption DEF WaitOK, CallIds, LinkAssumption
<1>2. CASE /\ ~ready' \/ Busy(act) \/ q = <<>>
           /\ Hold(act, q, id, seq)
           /\ Complete(a, v, {})
  <2>1. /\ done' \in [CallIds -> Nat] /\ reply' \in [CallIds -> -1 .. MaxCalls]
        /\ AtMostOnce' /\ AnswerMatches'
        /\ \A i \in CallIds : i # a => done'[i] = done[i]
    BY <1>1, <1>2, CompleteOK
  <2>2. active' = act /\ pending' = q /\ nextId' = id /\ nextSeq' = seq
        /\ toPipe' = toPipe
    BY <1>2 DEF Hold
  <2>3. CallsInv'
    <3>1. \A c \in 1 .. (id - 1) : c \in CallIds
      BY LinkAssumption DEF WaitOK, CallIds, LinkAssumption
    <3>2. \A i \in 1 .. Len(pending') :
            /\ pending'[i].id \in 1 .. (nextId' - 1)
            /\ pending'[i].kind # "exit"
            /\ done'[pending'[i].id] = 0
            /\ active' # NoCall => active'.id < pending'[i].id
      BY <2>1, <2>2, <3>1 DEF WaitOK
    <3>3. active' # NoCall =>
            active'.id \in 1 .. (nextId' - 1) /\ active'.kind # "exit"
            /\ done'[active'.id] = 0
      BY <2>1, <2>2, <3>1 DEF WaitOK
    <3>4. \A i \in CallIds : i >= nextId' => done'[i] = 0
      BY <2>1, <2>2 DEF WaitOK, CallIds
    <3>5. QED
      BY <2>2, <3>2, <3>3, <3>4 DEF CallsInv, WaitOK
  <2>4. QED
    BY <1>2, <2>1, <2>2, <2>3 DEF WaitOK, CallsTypeOK, TypeOK, Busy
<1>3. CASE /\ ready' /\ ~Busy(act) /\ q # <<>> /\ wpc # "dead"
           /\ SendOldest(q, id, seq)
           /\ Complete(a, v, {})
  <2>1. /\ done' \in [CallIds -> Nat] /\ reply' \in [CallIds -> -1 .. MaxCalls]
        /\ AtMostOnce' /\ AnswerMatches'
        /\ \A i \in CallIds : i # a => done'[i] = done[i]
    BY <1>1, <1>3, CompleteOK
  <2>2. active' = Head(q) /\ pending' = Tail(q) /\ nextId' = id /\ nextSeq' = seq
        /\ toPipe' = Append(toPipe, active')
    BY <1>3 DEF SendOldest
  <2>3. /\ q \in Seq(Call) /\ Len(q) \in Nat /\ Len(q) # 0
        /\ Head(q) = q[1] /\ Head(q) \in Call
        /\ Tail(q) \in Seq(Call) /\ Len(Tail(q)) = Len(q) - 1
        /\ \A i \in 1 .. Len(Tail(q)) : Tail(q)[i] = q[i + 1]
    BY <1>3 DEF WaitOK
  <2>4. active'.id \in 1 .. (id - 1) /\ active'.kind # "exit" /\ active'.id # a
        /\ done[active'.id] = 0
    BY <2>2, <2>3 DEF WaitOK
  <2>5. active' # NoCall
    BY <2>4 DEF NoCall
  <2>6. \A i \in 1 .. Len(pending') :
          /\ i + 1 \in 1 .. Len(q)
          /\ pending'[i] = q[i + 1]
          /\ active'.id < pending'[i].id
    BY <2>2, <2>3 DEF WaitOK
  <2>7. CallsInv'
    <3>1. \A c \in 1 .. (id - 1) : c \in CallIds
      BY LinkAssumption DEF WaitOK, CallIds, LinkAssumption
    <3>2. nextSeq' < nextId' /\ done'[active'.id] = 0
      BY <2>1, <2>2, <2>4, <3>1 DEF WaitOK
    <3>3. \A i \in 1 .. Len(pending') :
            /\ pending'[i].id \in 1 .. (nextId' - 1)
            /\ pending'[i].kind # "exit"
            /\ done'[pending'[i].id] = 0
      <4> TAKE i \in 1 .. Len(pending')
      <4>1. /\ q[i + 1].id \in 1 .. (id - 1) /\ q[i + 1].kind # "exit"
            /\ done[q[i + 1].id] = 0 /\ q[i + 1].id # a
        BY <2>6 DEF WaitOK
      <4>2. done'[q[i + 1].id] = 0
        BY <2>1, <3>1, <4>1
      <4>3. QED
        BY <2>2, <2>6, <4>1, <4>2
    <3>4. \A i, j \in 1 .. Len(pending') : i < j => pending'[i].id < pending'[j].id
      BY <2>2, <2>3, <2>6 DEF WaitOK
    <3>5. \A i \in CallIds : i >= nextId' => done'[i] = 0
      BY <2>1, <2>2 DEF WaitOK, CallIds
    <3>6. QED
      BY <2>2, <2>4, <2>6, <3>2, <3>3, <3>4, <3>5 DEF CallsInv
  <2>8. toPipe' \in Seq(Call)
    BY <2>2, <2>3 DEF CallsTypeOK, TypeOK
  <2>9. act = NoCall
    BY <1>3 DEF Busy
  <2>10. QED
    BY <1>3, <2>1, <2>2, <2>3, <2>5, <2>7, <2>8, <2>9 DEF WaitOK
<1>4. ASSUME ready' /\ ~Busy(act) /\ q # <<>> /\ wpc = "dead",
             NEW n \in 0 .. (MaxCalls + 1 - id),
             Hold(act, <<>>, id + n, seq + n),
             Complete(a, v, IdsOf(q) \cup (id .. (id + n - 1)))
      PROVE  /\ pending' \in Seq(Call) /\ active' \in Call /\ toPipe' \in Seq(Call)
             /\ nextId' \in 1 .. (MaxCalls + 1) /\ nextSeq' \in 0 .. MaxCalls
             /\ done' \in [CallIds -> Nat] /\ reply' \in [CallIds -> -1 .. MaxCalls]
             /\ AtMostOnce' /\ AnswerMatches' /\ CallsInv'
             /\ pending' = <<>> /\ active' = act /\ toPipe' = toPipe
  <2> DEFINE S == IdsOf(q) \cup (id .. (id + n - 1))
  <2>1. \A i \in CallIds : i \in S => done[i] = 0
    <3>1. \A i \in IdsOf(q) : done[i] = 0
      BY DEF IdsOf, WaitOK
    <3>2. \A i \in id .. (id + n - 1) : i >= id
      BY DEF WaitOK
    <3>3. \A i \in CallIds : i >= id => done[i] = 0
      BY DEF WaitOK
    <3>4. QED
      BY <3>1, <3>2, <3>3
  <2>2. /\ done' \in [CallIds -> Nat] /\ reply' \in [CallIds -> -1 .. MaxCalls]
        /\ AtMostOnce' /\ AnswerMatches'
        /\ \A i \in CallIds : i # a /\ i \notin S => done'[i] = done[i]
    BY <1>1, <1>4, <2>1, CompleteOK
  <2>3. active' = NoCall /\ act = NoCall /\ pending' = <<>> /\ nextId' = id + n
        /\ nextSeq' = seq + n /\ toPipe' = toPipe
    BY <1>4 DEF Hold, Busy
  <2>4. id \in Nat /\ seq \in Nat /\ n \in Nat /\ id + n <= MaxCalls + 1 /\ seq < id
        /\ a < id /\ a \in Nat /\ id >= 1
    <3>1. /\ id \in 1 .. (MaxCalls + 1) /\ seq \in 0 .. MaxCalls /\ seq < id
          /\ a \in 0 .. (id - 1) /\ MaxCalls \in Nat
      BY LinkAssumption DEF WaitOK, LinkAssumption
    <3>2. QED
      BY <3>1
  <2>5. \A i \in CallIds : i >= id + n => i # a /\ i \notin S /\ done[i] = 0
    <3>1. \A i \in IdsOf(q) : i \in Nat /\ i < id
      BY <2>4 DEF IdsOf, WaitOK
    <3>2. \A i \in CallIds : i \in Nat
      BY DEF CallIds
    <3>3. QED
      BY <2>4, <3>1, <3>2 DEF WaitOK
  <2>6. CallsInv'
    BY <2>2, <2>3, <2>4, <2>5 DEF CallsInv
  <2>7. nextId' \in 1 .. (MaxCalls + 1) /\ nextSeq' \in 0 .. MaxCalls
    BY <2>3, <2>4, LinkAssumption DEF LinkAssumption
  <2>8. QED
    BY <2>2, <2>3, <2>6, <2>7 DEF WaitOK, CallsTypeOK, TypeOK
<1>5. QED
  BY <1>2, <1>3, <1>4 DEF MaybeSendOneWorkerCall

-----------------------------------------------------------------------------
(* The invariant *)

Inv == TypeOK /\ LinkInv

LEMMA InitInv == Init => Inv
<1> SUFFICES ASSUME Init PROVE Inv
  OBVIOUS
<1> USE LinkAssumption DEF LinkAssumption
<1>1. NoCall \in Call
  BY DEF NoCall, Call, Kinds
<1>2. TypeOK
  <2>1. Init => /\ pending = <<>> /\ toPipe = <<>> /\ fromPipe = <<>>
                /\ cancelPipe = <<>>
    BY DEF Init
  <2>2. /\ pending \in Seq(Call) /\ toPipe \in Seq(Call)
        /\ fromPipe \in Seq(Message) /\ cancelPipe \in Seq(0 .. MaxCalls)
    BY <2>1
  <2>3. done \in [CallIds -> Nat] /\ reply \in [CallIds -> -1 .. MaxCalls]
    BY DEF Init, NotDone
  <2>4. QED
    <3>1. CallsTypeOK
      BY <1>1, <2>2, <2>3 DEF Init, CallsTypeOK
    <3>2. {started, ready, running, handler, watched} \subseteq BOOLEAN
      BY DEF Init
    <3>3. ProcessTypeOK
      BY <1>1, <2>2, <3>2 DEF Init, ProcessTypeOK
    <3>4. QED
      BY <3>1, <3>3 DEF TypeOK
<1>3. StartupInv /\ RequestInv /\ BackendInv /\ ResponseInv /\ CancelHitsOwner
      /\ QueueWaitsForActive /\ BlockedOnlyAtStartup
  BY DEF Init, StartupInv, RequestInv, BackendInv, ResponseInv, CancelHitsOwner,
         QueueWaitsForActive, BlockedOnlyAtStartup
<1>4. CallsInv /\ AtMostOnce /\ AnswerMatches
  BY DEF Init, CallsInv, AtMostOnce, AnswerMatches, CallIds
<1>5. QED
  BY <1>2, <1>3, <1>4 DEF Inv, LinkInv

\* A call that is refused at once.
LEMMA RefusedInv ==
  ASSUME Inv, CallStartFails \/ CallRefused
  PROVE  Inv'
<1> USE LinkAssumption DEF LinkAssumption
<1>1. /\ nextId <= MaxCalls /\ nextId' = nextId + 1
      /\ Complete(nextId, NoDecoder, {})
      /\ UNCHANGED <<client, started, ready, running, handler, watched, pending,
                     active, nextSeq, pipeVars, workerVars>>
  BY DEF CallStartFails, CallRefused
<1>2. TypeOK /\ LinkInv
  BY DEF Inv
<1>3. nextId \in CallIds /\ nextId \in Nat /\ done[nextId] = 0
  BY <1>1, <1>2 DEF TypeOK, CallsTypeOK, LinkInv, CallsInv, CallIds
<1>4. \A i \in CallIds :
        /\ done'[i] = IF i = nextId THEN done[i] + 1 ELSE done[i]
        /\ reply'[i] = IF i = nextId THEN NoDecoder ELSE reply[i]
  BY <1>1 DEF Complete
<1>5. done' \in [CallIds -> Nat] /\ reply' \in [CallIds -> -1 .. MaxCalls]
  BY <1>1, <1>2 DEF Complete, TypeOK, CallsTypeOK, NoDecoder
<1>6. TypeOK'
  <2>1. CallsTypeOK'
    BY <1>1, <1>2, <1>3, <1>5 DEF TypeOK, CallsTypeOK, pipeVars
  <2>2. ProcessTypeOK'
    BY <1>1, <1>2 DEF TypeOK, ProcessTypeOK, pipeVars, workerVars
  <2>3. QED
    BY <2>1, <2>2 DEF TypeOK
<1>7. AtMostOnce' /\ AnswerMatches'
  BY <1>2, <1>3, <1>4 DEF LinkInv, AtMostOnce, AnswerMatches
<1>8. CallsInv'
  <2>1. \A c \in 1 .. (nextId - 1) : c \in CallIds /\ c # nextId /\ done'[c] = done[c]
    BY <1>3, <1>4 DEF CallIds
  <2>2. \A i \in CallIds : i >= nextId' => done'[i] = 0
    BY <1>1, <1>2, <1>3, <1>4 DEF LinkInv, CallsInv, CallIds
  <2>3. QED
    <3>1. \A i \in 1 .. Len(pending) :
            /\ pending[i].id \in 1 .. (nextId - 1) /\ pending[i].kind # "exit"
            /\ done[pending[i].id] = 0
            /\ active # NoCall => active.id < pending[i].id
      BY <1>2 DEF LinkInv, CallsInv
    <3>2. active # NoCall =>
            active.id \in 1 .. (nextId - 1) /\ active.kind # "exit"
            /\ done[active.id] = 0
      BY <1>2 DEF LinkInv, CallsInv
    <3>3. nextSeq < nextId /\ nextSeq \in Nat
      BY <1>2 DEF LinkInv, CallsInv, TypeOK, CallsTypeOK
    <3>4. \A i, j \in 1 .. Len(pending) : i < j => pending[i].id < pending[j].id
      BY <1>2 DEF LinkInv, CallsInv
    <3>5. pending' = pending /\ active' = active /\ nextSeq' = nextSeq
      BY <1>1
    <3>6. QED
      BY <1>1, <1>3, <2>1, <2>2, <3>1, <3>2, <3>3, <3>4, <3>5 DEF CallsInv
<1>9. StartupInv' /\ RequestInv' /\ BackendInv' /\ ResponseInv' /\ CancelHitsOwner'
      /\ QueueWaitsForActive' /\ BlockedOnlyAtStartup'
  BY <1>1, <1>2 DEF LinkInv, StartupInv, RequestInv, BackendInv, ResponseInv,
       CancelHitsOwner, QueueWaitsForActive, BlockedOnlyAtStartup, pipeVars, workerVars
<1>10. QED
  BY <1>6, <1>7, <1>8, <1>9 DEF Inv, LinkInv

\* A call that is queued, and sent if nothing else is active.
LEMMA QueuedInv ==
  ASSUME Inv, NEW kind \in Kinds, CallQueued(kind)
  PROVE  Inv'
<1> DEFINE q == Append(pending, [id |-> nextId, seq |-> nextSeq, kind |-> kind])
<1>1. TypeOK /\ LinkInv
  BY DEF Inv
<1>2. /\ client = "up" /\ nextId <= MaxCalls
      /\ UNCHANGED <<client, ready, watched, fromPipe, cancelPipe, cur, rounds>>
      /\ MaybeSendOneWorkerCall(active, q, nextId + 1, nextSeq + 1, 0, NotDone)
  BY DEF CallQueued
<1>3. \/ /\ ~started /\ started' = TRUE /\ running' = TRUE /\ handler' = TRUE
         /\ wpc' = "spawned"
      \/ started /\ running /\ UNCHANGED <<started, running, handler, wpc>>
  BY DEF CallQueued, StartAptWorker
<1>4. WaitOK(active, q, nextId + 1, nextSeq + 1, 0)
  BY <1>1, <1>2, WaitActive, WaitAppend DEF LinkInv
<1>5. /\ pending' \in Seq(Call) /\ active' \in Call /\ toPipe' \in Seq(Call)
      /\ nextId' \in 1 .. (MaxCalls + 1) /\ nextSeq' \in 0 .. MaxCalls
      /\ done' \in [CallIds -> Nat] /\ reply' \in [CallIds -> -1 .. MaxCalls]
      /\ AtMostOnce' /\ AnswerMatches' /\ CallsInv'
      /\ ready' => active' # NoCall \/ pending' = <<>>
      /\ ~ready' => active' = active
      /\ \/ active' = active /\ toPipe' = toPipe
         \/ /\ active = NoCall /\ active' # NoCall
            /\ toPipe' = Append(toPipe, active')
            /\ ready' /\ wpc # "dead"
  <2> HIDE DEF q
  <2> QED BY <1>1, <1>2, <1>4, SendOK DEF LinkInv
<1>6. TypeOK'
  BY <1>1, <1>2, <1>3, <1>5 DEF TypeOK, CallsTypeOK, ProcessTypeOK
<1>7. StartupInv' /\ QueueWaitsForActive' /\ BlockedOnlyAtStartup' /\ CancelHitsOwner'
  BY <1>1, <1>2, <1>3, <1>5
  DEF LinkInv, StartupInv, QueueWaitsForActive, BlockedOnlyAtStartup, CancelHitsOwner
<1>8. CASE active' = active /\ toPipe' = toPipe
  <2>1. RequestInv' /\ BackendInv'
    BY <1>1, <1>2, <1>3, <1>8 DEF LinkInv, RequestInv, BackendInv, StartupInv
  <2>2. ResponseInv'
    <3>1. CASE running
      BY <1>1, <1>2, <1>3, <1>8, <3>1 DEF LinkInv, ResponseInv, StartupInv
    <3>2. CASE ~running
      <4>1. fromPipe' = <<>> /\ Len(fromPipe') = 0
        BY <1>1, <1>2, <1>3, <3>2 DEF LinkInv, StartupInv
      <4>2. QED
        BY <4>1 DEF ResponseInv
    <3>3. QED
      BY <3>1, <3>2
  <2>3. QED
    BY <1>5, <1>6, <1>7, <2>1, <2>2 DEF Inv, LinkInv
<1>9. CASE /\ active = NoCall /\ active' # NoCall
           /\ toPipe' = Append(toPipe, active')
           /\ ready' /\ wpc # "dead"
  <2>1. running /\ running' /\ wpc' = wpc
    BY <1>1, <1>2, <1>3, <1>9 DEF LinkInv, StartupInv
  <2>2. toPipe = <<>> /\ wpc \notin {"read", "busy"}
    BY <1>1, <1>2, <1>9, <2>1 DEF LinkInv, RequestInv, BackendInv
  <2>3. Len(toPipe') = 1 /\ toPipe'[1] = active'
    BY <1>5, <1>9, <2>2
  <2>4. \A i \in 1 .. Len(fromPipe) : fromPipe[i].type # "response"
    BY <1>1, <1>9, <2>1 DEF LinkInv, ResponseInv
  <2>5. RequestInv' /\ BackendInv' /\ ResponseInv'
    BY <1>2, <1>9, <2>1, <2>2, <2>3, <2>4 DEF RequestInv, BackendInv, ResponseInv
  <2>6. QED
    BY <1>5, <1>6, <1>7, <2>5 DEF Inv, LinkInv
<1>10. QED
  BY <1>5, <1>8, <1>9

\* Taking the first message off the response fifo.
LEMMA TailMessages ==
  ASSUME TypeOK, fromPipe # <<>>, fromPipe' = Tail(fromPipe)
  PROVE  /\ Head(fromPipe) = fromPipe[1] /\ Head(fromPipe) \in Message
         /\ Len(fromPipe) \in Nat /\ Len(fromPipe) # 0
         /\ fromPipe' \in Seq(Message)
         /\ Len(fromPipe') = Len(fromPipe) - 1
         /\ \A i \in 1 .. Len(fromPipe') :
              i + 1 \in 1 .. Len(fromPipe) /\ fromPipe'[i] = fromPipe[i + 1]
<1>1. fromPipe \in Seq(Message)
  BY DEF TypeOK, ProcessTypeOK
<1> DEFINE T == Tail(fromPipe)
<1>2. T \in Seq(Message) /\ Len(T) = Len(fromPipe) - 1 /\ Len(fromPipe) \in Nat
      /\ Len(fromPipe) # 0
  BY <1>1
<1>3. \A i \in 1 .. Len(T) : i + 1 \in 1 .. Len(fromPipe) /\ T[i] = fromPipe[i + 1]
  BY <1>1, <1>2
<1>4. Head(fromPipe) = fromPipe[1] /\ Head(fromPipe) \in Message
  BY <1>1
<1>5. QED
  BY <1>2, <1>3, <1>4

\* The first status report.
LEMMA FinishStartupInv ==
  ASSUME Inv, FinishAptWorkerStartup
  PROVE  Inv'
<1>1. TypeOK /\ LinkInv
  BY DEF Inv
<1>2. /\ client = "up" /\ handler /\ running /\ ~ready /\ fromPipe # <<>>
      /\ fromPipe' = Tail(fromPipe)
      /\ UNCHANGED <<started, running, handler, watched, cancelPipe, workerVars>>
  BY DEF FinishAptWorkerStartup
<1>3. active = NoCall /\ toPipe = <<>>
      /\ wpc \notin {"read", "busy", "idle", "reinit"}
  BY <1>1, <1>2 DEF LinkInv, StartupInv
<1>4. \A i \in 1 .. Len(fromPipe) : fromPipe[i].type # "response"
  BY <1>1, <1>2, <1>3 DEF LinkInv, ResponseInv
<1>5. /\ fromPipe' \in Seq(Message)
      /\ \A i \in 1 .. Len(fromPipe') : fromPipe'[i].type # "response"
  BY <1>1, <1>2, <1>4, TailMessages
<1>6. ResponseInv' /\ CancelHitsOwner' /\ BackendInv'
  BY <1>1, <1>2, <1>3, <1>5
  DEF ResponseInv, CancelHitsOwner, BackendInv, workerVars
<1>7. CASE ~Alive
  <2>1. /\ client' = "blocked"
        /\ UNCHANGED <<ready, pending, active, nextId, nextSeq, done, reply, toPipe>>
    BY <1>7 DEF FinishAptWorkerStartup
  <2>2. wpc = "dead" /\ started
    BY <1>1, <1>2, <1>7 DEF LinkInv, StartupInv, Alive
  <2>3. CallsTypeOK'
    BY <1>1, <2>1 DEF TypeOK, CallsTypeOK
  <2>4. ProcessTypeOK'
    BY <1>1, <1>2, <1>5, <2>1 DEF TypeOK, ProcessTypeOK, workerVars
  <2>5. CallsInv' /\ AtMostOnce' /\ AnswerMatches'
    BY <1>1, <2>1 DEF LinkInv, CallsInv, AtMostOnce, AnswerMatches
  <2>6. StartupInv' /\ RequestInv' /\ QueueWaitsForActive' /\ BlockedOnlyAtStartup'
    BY <1>1, <1>2, <1>3, <2>1, <2>2
    DEF LinkInv, StartupInv, RequestInv, QueueWaitsForActive, BlockedOnlyAtStartup,
        workerVars
  <2>7. QED
    BY <1>6, <2>3, <2>4, <2>5, <2>6 DEF Inv, LinkInv, TypeOK
<1>8. CASE Alive
  <2>1. /\ ready' = TRUE /\ client' = client
        /\ MaybeSendOneWorkerCall(active, pending, nextId, nextSeq, 0, NotDone)
    BY <1>8 DEF FinishAptWorkerStartup
  <2>2. WaitOK(active, pending, nextId, nextSeq, 0)
    BY <1>1, WaitActive DEF LinkInv
  <2>3. /\ pending' \in Seq(Call) /\ active' \in Call /\ toPipe' \in Seq(Call)
        /\ nextId' \in 1 .. (MaxCalls + 1) /\ nextSeq' \in 0 .. MaxCalls
        /\ done' \in [CallIds -> Nat] /\ reply' \in [CallIds -> -1 .. MaxCalls]
        /\ AtMostOnce' /\ AnswerMatches' /\ CallsInv'
        /\ ready' => active' # NoCall \/ pending' = <<>>
        /\ \/ active' = active /\ toPipe' = toPipe
           \/ /\ active' # NoCall
              /\ toPipe' = Append(toPipe, active')
    BY <1>1, <2>1, <2>2, SendOK DEF LinkInv
  <2>4. CallsTypeOK'
    BY <2>3 DEF CallsTypeOK
  <2>5. ProcessTypeOK'
    BY <1>1, <1>2, <1>5, <2>1 DEF TypeOK, ProcessTypeOK, workerVars
  <2>6. StartupInv' /\ QueueWaitsForActive' /\ BlockedOnlyAtStartup'
    BY <1>1, <1>2, <2>1, <2>3
    DEF LinkInv, StartupInv, QueueWaitsForActive, BlockedOnlyAtStartup, workerVars
  <2>7. CASE toPipe' = <<>>
    BY <1>6, <2>3, <2>4, <2>5, <2>6, <2>7 DEF Inv, LinkInv, TypeOK, RequestInv
  <2>8. CASE toPipe' # <<>>
    <3>1. active' # NoCall /\ toPipe' = <<active'>>
      BY <1>3, <2>3, <2>8
    <3>2. Len(toPipe') = 1 /\ toPipe'[1] = active'
      BY <3>1
    <3>3. RequestInv'
      BY <1>2, <1>3, <3>1, <3>2 DEF RequestInv, workerVars
    <3>4. QED
      BY <1>6, <2>3, <2>4, <2>5, <2>6, <3>3 DEF Inv, LinkInv, TypeOK
  <2>9. QED
    BY <2>7, <2>8
<1>9. QED
  BY <1>7, <1>8

\* A later status report.
LEMMA StatusInv ==
  ASSUME Inv, HandleStatus
  PROVE  Inv'
<1>1. TypeOK /\ LinkInv
  BY DEF Inv
<1>2. /\ fromPipe # <<>> /\ fromPipe' = Tail(fromPipe) /\ running
      /\ UNCHANGED <<clientVars, toPipe, cancelPipe, workerVars>>
  BY DEF HandleStatus
<1>3. CallsTypeOK' /\ CallsInv' /\ AtMostOnce' /\ AnswerMatches'
  BY <1>1, <1>2
  DEF LinkInv, TypeOK, CallsTypeOK, CallsInv, AtMostOnce, AnswerMatches, clientVars
<1>4. ProcessTypeOK'
  BY <1>1, <1>2, TailMessages DEF TypeOK, ProcessTypeOK, clientVars, workerVars
<1>5. StartupInv' /\ RequestInv' /\ BackendInv' /\ CancelHitsOwner'
      /\ QueueWaitsForActive' /\ BlockedOnlyAtStartup'
  <2>1. started
    BY <1>1, <1>2 DEF LinkInv, StartupInv
  <2>2. QED
    BY <1>1, <1>2, <2>1
    DEF LinkInv, StartupInv, RequestInv, BackendInv, CancelHitsOwner,
        QueueWaitsForActive, BlockedOnlyAtStartup, clientVars, workerVars
<1>6. ResponseInv'
  <2>1. /\ Len(fromPipe') = Len(fromPipe) - 1 /\ Len(fromPipe) \in Nat
        /\ \A i \in 1 .. Len(fromPipe') :
             i + 1 \in 1 .. Len(fromPipe) /\ fromPipe'[i] = fromPipe[i + 1]
    BY <1>1, <1>2, TailMessages
  <2>2. UNCHANGED <<active, toPipe, wpc>>
    BY <1>2 DEF clientVars, workerVars
  <2>3. ASSUME NEW i \in 1 .. Len(fromPipe'), fromPipe'[i].type = "response"
        PROVE  /\ i = Len(fromPipe')
               /\ active # NoCall /\ fromPipe'[i] = Response(active)
               /\ toPipe = <<>>
               /\ wpc \notin {"read", "busy"}
    <3>1. i + 1 \in 1 .. Len(fromPipe) /\ fromPipe[i + 1].type = "response"
      BY <2>1, <2>3
    <3>2. /\ i + 1 = Len(fromPipe)
          /\ active # NoCall /\ fromPipe[i + 1] = Response(active)
          /\ toPipe = <<>>
          /\ wpc \notin {"read", "busy"}
      BY <1>1, <1>2, <3>1 DEF LinkInv, ResponseInv
    <3>3. i = Len(fromPipe')
      BY <2>1, <3>2
    <3>4. QED
      BY <2>1, <3>2, <3>3
  <2>4. Response(active)' = Response(active)
    BY <2>2 DEF Response
  <2>5. QED
    BY <2>2, <2>3, <2>4 DEF ResponseInv
<1>7. QED
  BY <1>1, <1>3, <1>4, <1>5, <1>6 DEF Inv, LinkInv, TypeOK

\* A response.
LEMMA HandleResponseInv ==
  ASSUME Inv, HandleResponse
  PROVE  Inv'
<1>1. TypeOK /\ LinkInv
  BY DEF Inv
<1>2. /\ fromPipe # <<>> /\ Head(fromPipe).type = "response"
      /\ fromPipe' = Tail(fromPipe) /\ running /\ ready /\ client = "up"
      /\ UNCHANGED <<client, started, ready, running, handler, watched, cancelPipe,
                     workerVars>>
  BY Zenon DEF HandleResponse
<1>3. /\ Head(fromPipe) = fromPipe[1] /\ Len(fromPipe) \in Nat /\ Len(fromPipe) # 0
      /\ Len(fromPipe') = Len(fromPipe) - 1 /\ fromPipe' \in Seq(Message)
  BY <1>1, <1>2, TailMessages
<1>4. /\ Len(fromPipe) = 1 /\ active # NoCall /\ Head(fromPipe) = Response(active)
      /\ toPipe = <<>> /\ wpc \notin {"read", "busy"}
  <2>1. 1 \in 1 .. Len(fromPipe)
    BY <1>3
  <2>2. fromPipe[1].type = "response"
    BY <1>2, <1>3
  <2>3. ResponseInv
    BY <1>1 DEF LinkInv
  <2>4. /\ 1 = Len(fromPipe) /\ active # NoCall /\ fromPipe[1] = Response(active)
        /\ toPipe = <<>> /\ wpc \notin {"read", "busy"}
    BY <1>2, <2>1, <2>2, <2>3 DEF ResponseInv
  <2>5. QED
    BY <1>3, <2>4
<1>5. active.seq = Head(fromPipe).seq /\ Head(fromPipe).answers = active.id
  BY <1>4 DEF Response
<1>6. WaitOK(NoCall, pending, nextId, nextSeq, active.id)
  BY <1>1, <1>4, WaitAnswered DEF LinkInv
<1>7. /\ CallsTypeOK'
      /\ AtMostOnce' /\ AnswerMatches' /\ CallsInv'
      /\ active' # NoCall \/ pending' = <<>>
      /\ \/ active' = NoCall /\ toPipe' = toPipe
         \/ active' # NoCall /\ toPipe' = Append(toPipe, active')
  <2>1. CASE MaybeSendOneWorkerCall(NoCall, pending, nextId, nextSeq,
                                    active.id, Head(fromPipe).answers)
    BY <1>1, <1>2, <1>5, <1>6, <2>1, SendOK DEF LinkInv, CallsTypeOK
  <2>2. ASSUME nextId <= MaxCalls, NEW kind \in Kinds,
               MaybeSendOneWorkerCall(NoCall,
                 Append(pending, [id |-> nextId, seq |-> nextSeq, kind |-> kind]),
                 nextId + 1, nextSeq + 1, active.id, Head(fromPipe).answers)
        PROVE  /\ CallsTypeOK'
               /\ AtMostOnce' /\ AnswerMatches' /\ CallsInv'
               /\ active' # NoCall \/ pending' = <<>>
               /\ \/ active' = NoCall /\ toPipe' = toPipe
                  \/ active' # NoCall /\ toPipe' = Append(toPipe, active')
    <3> DEFINE q == Append(pending, [id |-> nextId, seq |-> nextSeq, kind |-> kind])
    <3>1. WaitOK(NoCall, q, nextId + 1, nextSeq + 1, active.id)
      BY <1>1, <1>6, <2>2, WaitAppend
    <3>2. MaybeSendOneWorkerCall(NoCall, q, nextId + 1, nextSeq + 1,
                                 active.id, Head(fromPipe).answers)
      BY <2>2
    <3> HIDE DEF q
    <3>3. QED
      BY <1>1, <1>2, <1>5, <3>1, <3>2, SendOK DEF LinkInv, CallsTypeOK
  <2>3. QED
    BY <1>4, <1>5, <2>1, <2>2 DEF HandleResponse
<1>8. TypeOK'
  BY <1>1, <1>2, <1>3, <1>7 DEF TypeOK, ProcessTypeOK, workerVars
<1>9. StartupInv' /\ QueueWaitsForActive' /\ BlockedOnlyAtStartup' /\ CancelHitsOwner'
  BY <1>1, <1>2, <1>4, <1>7
  DEF LinkInv, StartupInv, QueueWaitsForActive, BlockedOnlyAtStartup, CancelHitsOwner,
      workerVars
<1>10. BackendInv' /\ ResponseInv'
  BY <1>2, <1>3, <1>4 DEF BackendInv, ResponseInv, workerVars
<1>11. RequestInv'
  <2>1. CASE toPipe' = <<>>
    BY <2>1 DEF RequestInv
  <2>2. CASE toPipe' # <<>>
    <3>1. active' # NoCall /\ toPipe' = <<active'>>
      BY <1>4, <1>7, <2>2
    <3>2. Len(toPipe') = 1 /\ toPipe'[1] = active'
      BY <3>1
    <3>3. QED
      BY <1>2, <1>4, <3>1, <3>2 DEF RequestInv, workerVars
  <2>3. QED
    BY <2>1, <2>2
<1>12. QED
  BY <1>7, <1>8, <1>9, <1>10, <1>11 DEF Inv, LinkInv

\* The loss of the backend is noticed.
LEMMA FailureInv ==
  ASSUME Inv, HandleEOF \/ AptWorkerWatch
  PROVE  Inv'
<1>1. TypeOK /\ LinkInv
  BY DEF Inv
<1>2. /\ client = "up" /\ wpc = "dead" /\ NoticeAptWorkerFailure
      /\ {handler', watched'} \subseteq BOOLEAN
  BY <1>1 DEF HandleEOF, AptWorkerWatch, TypeOK, ProcessTypeOK
<1>3. PICK n \in 0 .. (MaxCalls + 1 - nextId) :
        /\ nextId' = nextId + n
        /\ Complete(0, NotDone,
             {active.id} \cup IdsOf(pending) \cup (nextId .. (nextId + n - 1)))
  BY <1>2 DEF NoticeAptWorkerFailure
<1>4. /\ running' = FALSE /\ active' = NoCall /\ pending' = <<>>
      /\ UNCHANGED <<client, started, ready, nextSeq, pipeVars, workerVars>>
  BY <1>2 DEF NoticeAptWorkerFailure
<1> DEFINE S == {active.id} \cup IdsOf(pending) \cup (nextId .. (nextId + n - 1))
<1>5. nextId \in Nat /\ n \in Nat /\ nextId >= 1 /\ nextId + n <= MaxCalls + 1
      /\ nextSeq < nextId /\ nextSeq \in 0 .. MaxCalls
  BY <1>1, LinkAssumption
  DEF LinkInv, CallsInv, TypeOK, CallsTypeOK, LinkAssumption
<1>6. \A i \in CallIds : i \in S => done[i] = 0
  <2>1. active.id \in CallIds => done[active.id] = 0
    BY <1>1 DEF LinkInv, CallsInv, NoCall, CallIds
  <2>2. \A i \in IdsOf(pending) : done[i] = 0
    BY <1>1 DEF LinkInv, CallsInv, IdsOf
  <2>3. \A i \in CallIds : i >= nextId => done[i] = 0
    BY <1>1 DEF LinkInv, CallsInv
  <2>4. QED
    BY <2>1, <2>2, <2>3, <1>5
<1>7. /\ done' \in [CallIds -> Nat] /\ reply' \in [CallIds -> -1 .. MaxCalls]
      /\ AtMostOnce' /\ AnswerMatches'
      /\ \A i \in CallIds : i # 0 /\ i \notin S => done'[i] = done[i]
  <2> HIDE DEF S
  <2> QED BY <1>1, <1>3, <1>6, CompleteOK DEF LinkInv, S
<1>8. NoCall \in Call
  BY LinkAssumption DEF NoCall, Call, Kinds, LinkAssumption
<1>9. TypeOK'
  <2>1. CallsTypeOK'
    BY <1>1, <1>3, <1>4, <1>5, <1>7, <1>8 DEF TypeOK, CallsTypeOK, pipeVars
  <2>2. ProcessTypeOK'
    BY <1>1, <1>2, <1>4 DEF TypeOK, ProcessTypeOK, pipeVars, workerVars
  <2>3. QED
    BY <2>1, <2>2 DEF TypeOK
<1>10. CallsInv'
  <2>1. \A i \in CallIds : i >= nextId + n => i \notin S /\ i # 0 /\ done[i] = 0
    <3>1. active.id < nextId /\ active.id \in Int
      BY <1>1, <1>5 DEF LinkInv, CallsInv, NoCall
    <3>2. \A i \in IdsOf(pending) : i \in Int /\ i < nextId
      BY <1>1, <1>5 DEF LinkInv, CallsInv, IdsOf
    <3>3. \A i \in CallIds : i \in Int
      BY DEF CallIds
    <3>4. QED
      BY <1>1, <1>5, <3>1, <3>2, <3>3 DEF LinkInv, CallsInv
  <2>2. QED
    BY <1>3, <1>4, <1>5, <1>7, <2>1 DEF CallsInv
<1>11. StartupInv' /\ RequestInv' /\ BackendInv' /\ ResponseInv' /\ CancelHitsOwner'
       /\ QueueWaitsForActive' /\ BlockedOnlyAtStartup'
  BY <1>1, <1>2, <1>4
  DEF LinkInv, StartupInv, RequestInv, BackendInv, ResponseInv, CancelHitsOwner,
      QueueWaitsForActive, BlockedOnlyAtStartup, pipeVars, workerVars
<1>12. QED
  BY <1>7, <1>9, <1>10, <1>11 DEF Inv, LinkInv

\* The cancel button and the exit of the frontend.
LEMMA CancelInv ==
  ASSUME Inv, CancelAptWorker \/ FrontendExit
  PROVE  Inv'
<1>1. TypeOK /\ LinkInv
  BY DEF Inv
<1>2. active.id \in 0 .. MaxCalls /\ nextSeq \in 0 .. MaxCalls /\ nextSeq \in Int
  BY <1>1, LinkAssumption DEF TypeOK, CallsTypeOK, Call, LinkAssumption
<1>3. ASSUME cancelPipe' = Append(cancelPipe, active.id)
      PROVE  /\ cancelPipe' \in Seq(0 .. MaxCalls)
             /\ Len(cancelPipe) \in Nat /\ Len(cancelPipe') = Len(cancelPipe) + 1
             /\ \A i \in 1 .. Len(cancelPipe) : cancelPipe'[i] = cancelPipe[i]
             /\ cancelPipe'[Len(cancelPipe) + 1] = active.id
  <2>1. cancelPipe \in Seq(0 .. MaxCalls)
    BY <1>1 DEF TypeOK, ProcessTypeOK
  <2>2. QED
    BY <1>2, <1>3, <2>1
<1>4. wpc = "busy" => cur.id = active.id
  <2>1. wpc = "busy" => running
    BY <1>1 DEF LinkInv, StartupInv
  <2>2. QED
    BY <1>1, <2>1 DEF LinkInv, BackendInv
<1>5. cancelPipe' \in Seq(0 .. MaxCalls)
      /\ (wpc = "busy" => \A i \in 1 .. Len(cancelPipe') : cancelPipe'[i] = cur.id)
  <2>1. CASE cancelPipe' = cancelPipe
    BY <1>1, <2>1 DEF TypeOK, ProcessTypeOK, LinkInv, CancelHitsOwner
  <2>2. CASE cancelPipe' = Append(cancelPipe, active.id)
    <3>1. \A i \in 1 .. Len(cancelPipe') :
            i \in 1 .. Len(cancelPipe) \/ i = Len(cancelPipe) + 1
      BY <1>3, <2>2
    <3>2. QED
      BY <1>1, <1>3, <1>4, <2>2, <3>1 DEF LinkInv, CancelHitsOwner
  <2>3. QED
    BY <2>1, <2>2 DEF CancelAptWorker, FrontendExit
<1>6. CASE CancelAptWorker
  <2>1. /\ cancelPipe' = Append(cancelPipe, active.id) /\ client = "up"
        /\ UNCHANGED <<clientVars, toPipe, fromPipe, workerVars>>
    BY <1>6 DEF CancelAptWorker
  <2>2. CallsTypeOK' /\ CallsInv' /\ AtMostOnce' /\ AnswerMatches'
    BY <1>1, <2>1
    DEF LinkInv, TypeOK, CallsTypeOK, CallsInv, AtMostOnce, AnswerMatches, clientVars
  <2>3. ProcessTypeOK'
    BY <1>1, <1>5, <2>1 DEF TypeOK, ProcessTypeOK, clientVars, workerVars
  <2>4. StartupInv' /\ RequestInv' /\ BackendInv' /\ CancelHitsOwner'
        /\ QueueWaitsForActive' /\ BlockedOnlyAtStartup'
    BY <1>1, <1>5, <2>1
    DEF LinkInv, StartupInv, RequestInv, BackendInv, CancelHitsOwner,
        QueueWaitsForActive, BlockedOnlyAtStartup, clientVars, workerVars
  <2>5. ResponseInv'
    BY <1>1, <2>1 DEF LinkInv, ResponseInv, Response, clientVars, workerVars
  <2>6. QED
    BY <2>2, <2>3, <2>4, <2>5 DEF Inv, LinkInv, TypeOK
<1>7. CASE FrontendExit
  <2> DEFINE exit == [id |-> 0, seq |-> nextSeq, kind |-> "exit"]
  <2>1. /\ client = "up" /\ client' = "exited"
        /\ UNCHANGED <<ready, watched, pending, active, nextId, nextSeq, done, reply,
                       fromPipe, cur, rounds>>
    BY <1>7 DEF FrontendExit
  <2>2. \/ /\ ~started /\ started' = TRUE /\ running' = TRUE /\ handler' = TRUE
           /\ wpc' = "spawned"
        \/ UNCHANGED <<started, running, handler, wpc>>
    BY <1>7 DEF FrontendExit, StartAptWorker
  <2>3. \/ toPipe' = toPipe
        \/ /\ ready /\ running /\ active = NoCall /\ wpc # "dead"
           /\ toPipe' = Append(toPipe, exit)
    BY <1>7 DEF FrontendExit, Alive
  <2>4. exit \in Call
    BY <1>2, LinkAssumption DEF Call, LinkAssumption
  <2>5. toPipe' \in Seq(Call)
    <3>1. toPipe \in Seq(Call)
      BY <1>1 DEF TypeOK, CallsTypeOK
    <3> HIDE DEF exit
    <3>2. QED
      BY <2>3, <2>4, <3>1
  <2>6. CallsTypeOK' /\ CallsInv' /\ AtMostOnce' /\ AnswerMatches'
    BY <1>1, <2>1, <2>5
    DEF LinkInv, TypeOK, CallsTypeOK, CallsInv, AtMostOnce, AnswerMatches
  <2>7. ProcessTypeOK'
    BY <1>1, <1>5, <2>1, <2>2 DEF TypeOK, ProcessTypeOK
  <2>8. CancelHitsOwner'
    BY <1>5, <2>1, <2>2 DEF CancelHitsOwner
  <2>9. StartupInv' /\ QueueWaitsForActive' /\ BlockedOnlyAtStartup'
    BY <1>1, <2>1, <2>2, <2>3
    DEF LinkInv, StartupInv, QueueWaitsForActive, BlockedOnlyAtStartup
  <2>10. CASE ~started
    <3>1. ~ready /\ toPipe = <<>> /\ fromPipe = <<>> /\ wpc = "unborn"
      BY <1>1, <2>10 DEF LinkInv, StartupInv
    <3>2. toPipe' = <<>> /\ fromPipe' = <<>> /\ Len(fromPipe') = 0
          /\ wpc' \notin {"read", "busy"}
      BY <2>1, <2>2, <2>3, <3>1
    <3>3. RequestInv' /\ BackendInv' /\ ResponseInv'
      BY <3>2 DEF RequestInv, BackendInv, ResponseInv
    <3>4. QED
      BY <2>6, <2>7, <2>8, <2>9, <3>3 DEF Inv, LinkInv, TypeOK
  <2>11. CASE started
    <3>1. UNCHANGED <<started, running, handler, wpc>>
      BY <2>2, <2>11
    <3>2. BackendInv'
      BY <1>1, <2>1, <3>1 DEF LinkInv, BackendInv
    <3>3. CASE toPipe' = toPipe
      BY <1>1, <2>1, <2>6, <2>7, <2>8, <2>9, <3>1, <3>2, <3>3
      DEF Inv, LinkInv, TypeOK, RequestInv, ResponseInv, Response
    <3>4. CASE /\ ready /\ running /\ active = NoCall /\ wpc # "dead"
               /\ toPipe' = Append(toPipe, exit)
      <4>1. toPipe = <<>> /\ wpc \notin {"read", "busy"}
        BY <1>1, <2>1, <3>4 DEF LinkInv, RequestInv, BackendInv
      <4>2. toPipe' = <<exit>> /\ Len(toPipe') = 1 /\ toPipe'[1] = exit
        BY <3>4, <4>1
      <4>3. RequestInv'
        BY <2>1, <3>1, <3>4, <4>1, <4>2 DEF RequestInv
      <4>4. \A i \in 1 .. Len(fromPipe) : fromPipe[i].type # "response"
        BY <1>1, <3>4 DEF LinkInv, ResponseInv
      <4>5. ResponseInv'
        BY <2>1, <4>4 DEF ResponseInv
      <4>6. QED
        BY <2>6, <2>7, <2>8, <2>9, <3>2, <4>3, <4>5 DEF Inv, LinkInv, TypeOK
    <3>5. QED
      BY <2>3, <3>3, <3>4
  <2>12. QED
    BY <1>1, <2>10, <2>11
<1>8. QED
  BY <1>6, <1>7

-----------------------------------------------------------------------------
(* Steps of the backend *)

\* The backend leaves the frontend's variables alone.
LEMMA BackendStep ==
  ASSUME Inv, UNCHANGED clientVars
  PROVE  /\ CallsInv' /\ AtMostOnce' /\ AnswerMatches'
         /\ QueueWaitsForActive'
         /\ toPipe' \in Seq(Call) => CallsTypeOK'
<1>1. TypeOK /\ LinkInv
  BY DEF Inv
<1>2. QED
  BY <1>1 DEF LinkInv, TypeOK, CallsTypeOK, CallsInv, AtMostOnce, AnswerMatches,
              QueueWaitsForActive, clientVars

\* The steps that neither write a message nor take a request.
LEMMA InternalInv ==
  ASSUME Inv,
         \/ WorkerStartup \/ ReadEOF \/ DrainAndDispatch \/ PollCancelled
         \/ RoundEnds \/ CacheInitAfterRequest \/ WorkerDies
  PROVE  Inv'
<1>1. TypeOK /\ LinkInv
  BY DEF Inv
<1>2. UNCHANGED <<clientVars, toPipe, fromPipe, cur>>
  BY DEF WorkerStartup, ReadEOF, DrainAndDispatch, PollCancelled, RoundEnds,
         CacheInitAfterRequest, WorkerDies, pipeVars
<1>3. CallsInv' /\ AtMostOnce' /\ AnswerMatches' /\ QueueWaitsForActive'
      /\ CallsTypeOK'
  BY <1>1, <1>2, BackendStep DEF TypeOK, CallsTypeOK
<1>4. /\ cancelPipe' \in {cancelPipe, <<>>} \/ (cancelPipe # <<>> /\ cancelPipe' = Tail(cancelPipe))
      /\ wpc' \in {"idle", "read", "busy", "dead"}
      /\ rounds' \in Nat
  <2>1. rounds \in Nat
        /\ wpc \in {"unborn", "spawned", "waiting", "idle", "read", "busy", "reinit",
                    "dead"}
    BY <1>1 DEF TypeOK, ProcessTypeOK
  <2>2. CASE WorkerStartup
    BY <2>1, <2>2 DEF WorkerStartup, pipeVars
  <2>3. CASE ReadEOF
    BY <2>1, <2>3 DEF ReadEOF, pipeVars
  <2>4. CASE DrainAndDispatch
    <3>1. PollRounds(cur.kind) \subseteq Nat
      <4>1. CASE cur.kind = "list"
        BY <4>1 DEF PollRounds
      <4>2. CASE cur.kind = "download"
        BY <4>2 DEF PollRounds
      <4>3. CASE cur.kind # "list" /\ cur.kind # "download"
        BY <4>3 DEF PollRounds
      <4>4. QED
        BY <4>1, <4>2, <4>3
    <3>2. QED
      BY <2>1, <2>4, <3>1 DEF DrainAndDispatch
  <2>5. CASE PollCancelled
    BY <2>1, <2>5 DEF PollCancelled
  <2>6. CASE RoundEnds
    BY <2>1, <2>6 DEF RoundEnds, pipeVars
  <2>7. CASE CacheInitAfterRequest
    BY <2>1, <2>7 DEF CacheInitAfterRequest, pipeVars
  <2>8. CASE WorkerDies
    BY <2>1, <2>8 DEF WorkerDies, pipeVars
  <2>9. QED
    BY <2>2, <2>3, <2>4, <2>5, <2>6, <2>7, <2>8
<1>5. cancelPipe' \in Seq(0 .. MaxCalls)
  <2>1. cancelPipe \in Seq(0 .. MaxCalls)
    BY <1>1 DEF TypeOK, ProcessTypeOK
  <2>2. cancelPipe # <<>> => Tail(cancelPipe) \in Seq(0 .. MaxCalls)
    BY <2>1
  <2>3. <<>> \in Seq(0 .. MaxCalls)
    OBVIOUS
  <2>4. CASE cancelPipe' = cancelPipe
    BY <2>1, <2>4
  <2>5. CASE cancelPipe' = <<>>
    BY <2>3, <2>5
  <2>6. CASE cancelPipe # <<>> /\ cancelPipe' = Tail(cancelPipe)
    BY <2>2, <2>6
  <2>7. QED
    BY <1>4, <2>4, <2>5, <2>6
<1>6. ProcessTypeOK'
  BY <1>1, <1>2, <1>4, <1>5 DEF TypeOK, ProcessTypeOK, clientVars
<1>7. /\ wpc' \in {"read", "busy"} => wpc \in {"read", "busy"}
      /\ wpc' = "read" => wpc = "read"
      /\ wpc' = "busy" => wpc = "busy" \/ (cur.kind # "exit" /\ cancelPipe' = <<>>)
      /\ wpc # "unborn" /\ wpc' # "unborn"
      /\ wpc = "dead" => wpc' = "dead"
  BY DEF WorkerStartup, ReadEOF, DrainAndDispatch, PollCancelled, RoundEnds,
         CacheInitAfterRequest, WorkerDies, Alive
<1>8. wpc' \in {"idle", "read", "busy"} => ready
  BY <1>1 DEF WorkerStartup, ReadEOF, DrainAndDispatch, PollCancelled, RoundEnds,
         CacheInitAfterRequest, WorkerDies, Alive, LinkInv, StartupInv
<1>9. StartupInv' /\ BlockedOnlyAtStartup'
  BY <1>1, <1>2, <1>4, <1>7, <1>8
  DEF LinkInv, StartupInv, BlockedOnlyAtStartup, clientVars
<1>10. RequestInv' /\ ResponseInv'
  BY <1>1, <1>2, <1>7 DEF LinkInv, RequestInv, ResponseInv, Response, clientVars
<1>11. BackendInv'
  BY <1>1, <1>2, <1>7 DEF LinkInv, BackendInv, clientVars
<1>12. CancelHitsOwner'
  <2>1. CASE wpc' # "busy" \/ cancelPipe' = <<>>
    BY <2>1 DEF CancelHitsOwner
  <2>2. CASE wpc' = "busy" /\ cancelPipe' # <<>>
    <3>1. wpc = "busy" /\ (cancelPipe' = cancelPipe \/ cancelPipe' = Tail(cancelPipe))
      BY <1>4, <1>7, <2>2
    <3>2. cancelPipe \in Seq(0 .. MaxCalls)
      BY <1>1 DEF TypeOK, ProcessTypeOK
    <3>3. \A i \in 1 .. Len(cancelPipe) : cancelPipe[i] = cur.id
      BY <1>1, <3>1 DEF LinkInv, CancelHitsOwner
    <3>4. \A i \in 1 .. Len(cancelPipe') : cancelPipe'[i] = cur.id
      <4>1. CASE cancelPipe' = cancelPipe
        BY <3>3, <4>1
      <4>2. CASE cancelPipe # <<>> /\ cancelPipe' = Tail(cancelPipe)
        BY <3>2, <3>3, <4>2
      <4>3. QED
        BY <1>4, <2>2, <4>1, <4>2
    <3>5. QED
      BY <1>2, <3>4 DEF CancelHitsOwner
  <2>3. QED
    BY <2>1, <2>2
<1>13. QED
  BY <1>3, <1>6, <1>9, <1>10, <1>11, <1>12 DEF Inv, LinkInv, TypeOK

\* The steps that write a message.
LEMMA WriteInv ==
  ASSUME Inv, WorkerOpenFifos \/ SendStatus \/ SendResponse
  PROVE  Inv'
<1>1. TypeOK /\ LinkInv
  BY DEF Inv
<1>2. UNCHANGED <<clientVars, toPipe, cancelPipe, cur, rounds>>
  BY DEF WorkerOpenFifos, SendStatus, SendResponse
<1>3. CallsInv' /\ AtMostOnce' /\ AnswerMatches' /\ QueueWaitsForActive'
      /\ CallsTypeOK'
  BY <1>1, <1>2, BackendStep DEF TypeOK, CallsTypeOK
<1>4. /\ wpc \in {"spawned", "busy"}
      /\ wpc' \in {"waiting", "busy", "idle", "reinit", "dead"}
      /\ wpc' = "busy" => wpc = "busy"
      /\ wpc' \in {"idle", "reinit"} => wpc = "busy"
  BY DEF WorkerOpenFifos, SendStatus, SendResponse
<1>5. running /\ started /\ client # "blocked" /\ (wpc = "busy" => ready)
  BY <1>1, <1>4 DEF LinkInv, StartupInv, BlockedOnlyAtStartup
<1>6. StartupInv' /\ BlockedOnlyAtStartup'
  BY <1>1, <1>2, <1>4, <1>5
  DEF LinkInv, StartupInv, BlockedOnlyAtStartup, clientVars
<1>7. RequestInv' /\ BackendInv' /\ CancelHitsOwner'
  BY <1>1, <1>2, <1>4
  DEF LinkInv, RequestInv, BackendInv, CancelHitsOwner, clientVars
<1>8. \A i \in 1 .. Len(fromPipe) : fromPipe[i].type # "response"
  <2>1. CASE wpc = "busy"
    BY <1>1, <1>5, <2>1 DEF LinkInv, ResponseInv
  <2>2. CASE wpc = "spawned"
    BY <1>1, <1>5, <2>2 DEF LinkInv, ResponseInv, StartupInv
  <2>3. QED
    BY <1>4, <2>1, <2>2
<1>9. fromPipe \in Seq(Message) /\ Len(fromPipe) \in Nat
  BY <1>1 DEF TypeOK, ProcessTypeOK
<1>10. \/ fromPipe' = fromPipe
       \/ fromPipe' = Append(fromPipe, StatusMsg)
       \/ /\ fromPipe' = Append(fromPipe, Response(cur))
          /\ wpc = "busy" /\ wpc' \in {"idle", "reinit"}
  BY DEF WorkerOpenFifos, SendStatus, SendResponse
<1>11. StatusMsg \in Message /\ StatusMsg.type # "response"
  <2>1. -1 \in -1 .. MaxCalls /\ 0 \in 0 .. MaxCalls
    BY LinkAssumption DEF LinkAssumption
  <2>2. QED
    BY <2>1 DEF StatusMsg, Message
<1>12. Response(cur) \in Message
  BY <1>1 DEF Response, Message, TypeOK, ProcessTypeOK, Call
<1>13. fromPipe' \in Seq(Message)
  <2>1. Append(fromPipe, StatusMsg) \in Seq(Message)
    BY <1>9, <1>11
  <2>2. Append(fromPipe, Response(cur)) \in Seq(Message)
    BY <1>9, <1>12
  <2>3. QED
    BY <1>9, <1>10, <2>1, <2>2
<1>14. ProcessTypeOK'
  BY <1>1, <1>2, <1>4, <1>13 DEF TypeOK, ProcessTypeOK, clientVars
<1>15. ResponseInv'
  <2>1. CASE fromPipe' = fromPipe
    BY <1>8, <2>1 DEF ResponseInv
  <2>2. CASE fromPipe' = Append(fromPipe, StatusMsg)
    <3>1. Len(fromPipe') = Len(fromPipe) + 1
          /\ fromPipe'[Len(fromPipe) + 1] = StatusMsg
          /\ \A i \in 1 .. Len(fromPipe) : fromPipe'[i] = fromPipe[i]
      BY <1>9, <1>11, <2>2
    <3>2. \A i \in 1 .. Len(fromPipe') : fromPipe'[i].type # "response"
      BY <1>8, <1>9, <1>11, <3>1
    <3>3. QED
      BY <3>2 DEF ResponseInv
  <2>3. CASE /\ fromPipe' = Append(fromPipe, Response(cur))
             /\ wpc = "busy" /\ wpc' \in {"idle", "reinit"}
    <3>1. active # NoCall /\ cur = active /\ toPipe = <<>>
      BY <1>1, <1>5, <2>3 DEF LinkInv, BackendInv, RequestInv
    <3>2. Len(fromPipe') = Len(fromPipe) + 1
          /\ fromPipe'[Len(fromPipe) + 1] = Response(active)
          /\ \A i \in 1 .. Len(fromPipe) : fromPipe'[i] = fromPipe[i]
      BY <1>9, <1>12, <2>3, <3>1
    <3>3. \A i \in 1 .. Len(fromPipe') : fromPipe'[i].type = "response" =>
            i = Len(fromPipe') /\ fromPipe'[i] = Response(active)
      BY <1>8, <1>9, <3>2
    <3>4. UNCHANGED <<active, toPipe>> /\ Response(active)' = Response(active)
      BY <1>2 DEF clientVars, Response
    <3>5. QED
      BY <2>3, <3>1, <3>3, <3>4 DEF ResponseInv
  <2>4. QED
    BY <1>10, <2>1, <2>2, <2>3
<1>16. QED
  BY <1>3, <1>6, <1>7, <1>14, <1>15 DEF Inv, LinkInv, TypeOK

\* The backend takes the request.
LEMMA ReadRequestInv ==
  ASSUME Inv, ReadRequest
  PROVE  Inv'
<1>1. TypeOK /\ LinkInv
  BY DEF Inv
<1>2. /\ wpc = "idle" /\ wpc' = "read" /\ toPipe # <<>>
      /\ cur' = Head(toPipe) /\ toPipe' = Tail(toPipe)
      /\ UNCHANGED <<clientVars, fromPipe, cancelPipe, rounds>>
  BY DEF ReadRequest
<1>3. running /\ ready /\ started
  BY <1>1, <1>2 DEF LinkInv, StartupInv
<1>4. toPipe \in Seq(Call)
  BY <1>1 DEF TypeOK, CallsTypeOK
<1>5. /\ Head(toPipe) = toPipe[1] /\ Head(toPipe) \in Call
      /\ Tail(toPipe) \in Seq(Call) /\ Len(Tail(toPipe)) = Len(toPipe) - 1
  BY <1>2, <1>4
<1>6. /\ Len(toPipe) = 1
      /\ \/ active # NoCall /\ toPipe[1] = active
         \/ client = "exited" /\ active = NoCall /\ toPipe[1].kind = "exit"
  BY <1>1, <1>2, <1>3 DEF LinkInv, RequestInv
<1>7. toPipe' = <<>>
  BY <1>2, <1>5, <1>6
<1>8. CallsInv' /\ AtMostOnce' /\ AnswerMatches' /\ QueueWaitsForActive'
      /\ CallsTypeOK'
  BY <1>1, <1>2, <1>5, BackendStep
<1>9. ProcessTypeOK'
  BY <1>1, <1>2, <1>5 DEF TypeOK, ProcessTypeOK, clientVars
<1>10. active # NoCall => active.kind # "exit"
  BY <1>1 DEF LinkInv, CallsInv
<1>11. \A i \in 1 .. Len(fromPipe) : fromPipe[i].type # "response"
  BY <1>1, <1>2, <1>3 DEF LinkInv, ResponseInv
<1>12. StartupInv' /\ RequestInv' /\ BackendInv' /\ ResponseInv' /\ CancelHitsOwner'
       /\ BlockedOnlyAtStartup'
  BY <1>1, <1>2, <1>3, <1>5, <1>6, <1>7, <1>10, <1>11
  DEF LinkInv, StartupInv, RequestInv, BackendInv, ResponseInv, CancelHitsOwner,
      BlockedOnlyAtStartup, clientVars
<1>13. QED
  BY <1>8, <1>9, <1>12 DEF Inv, LinkInv, TypeOK

-----------------------------------------------------------------------------
(* The theorems *)

\* A step in which nothing changes.
LEMMA StutterInv ==
  ASSUME Inv, UNCHANGED vars
  PROVE  Inv'
<1>1. UNCHANGED <<clientVars, toPipe, fromPipe, cancelPipe, workerVars>>
  BY DEF vars, pipeVars
<1>2. TypeOK'
  BY <1>1 DEF Inv, TypeOK, CallsTypeOK, ProcessTypeOK, clientVars, workerVars
<1>3. CallsInv' /\ AtMostOnce' /\ AnswerMatches' /\ QueueWaitsForActive'
  BY <1>1, BackendStep
<1>4. StartupInv' /\ RequestInv' /\ BackendInv' /\ CancelHitsOwner'
      /\ BlockedOnlyAtStartup'
  BY <1>1 DEF Inv, LinkInv, StartupInv, RequestInv, BackendInv, CancelHitsOwner,
              BlockedOnlyAtStartup, clientVars, workerVars
<1>5. ResponseInv'
  BY <1>1 DEF Inv, LinkInv, ResponseInv, Response, clientVars, workerVars
<1>6. QED
  BY <1>2, <1>3, <1>4, <1>5 DEF Inv, LinkInv

\* Type correctness and the inductive invariant of the link (apt-worker-client.cc
\* and the dispatcher of apt-worker.cc), in every reachable state.
THEOREM LinkInvariant == Spec => [](TypeOK /\ LinkInv)
<1>1. Init => Inv
  BY InitInv
<1>2. Inv /\ [Next]_vars => Inv'
  <2> SUFFICES ASSUME Inv, [Next]_vars PROVE Inv'
    OBVIOUS
  <2>1. CASE User
    BY <2>1, RefusedInv, QueuedInv, CancelInv DEF User
  <2>2. CASE Handlers
    BY <2>2, FinishStartupInv, StatusInv, HandleResponseInv, FailureInv DEF Handlers
  <2>3. CASE WorkerProgress
    BY <2>3, WriteInv, InternalInv, ReadRequestInv DEF WorkerProgress
  <2>4. CASE SendStatus \/ SendResponse
    BY <2>4, WriteInv
  <2>5. CASE WorkerDies
    BY <2>5, InternalInv
  <2>6. CASE UNCHANGED vars
    BY <2>6, StutterInv
  <2>7. QED
    BY <2>1, <2>2, <2>3, <2>4, <2>5, <2>6 DEF Next
<1>3. Inv => TypeOK /\ LinkInv
  BY DEF Inv
<1>4. QED
  BY <1>1, <1>2, <1>3, PTL DEF Spec

\* The variables keep their types.
THEOREM TypeCorrect == Spec => []TypeOK
<1>1. TypeOK /\ LinkInv => TypeOK
  OBVIOUS
<1>2. QED
  BY <1>1, LinkInvariant, PTL

\* A cancel byte is only ever polled by the request it was meant for.
THEOREM CancelSafe == Spec => []CancelHitsOwner
<1>1. TypeOK /\ LinkInv => CancelHitsOwner
  BY DEF LinkInv
<1>2. QED
  BY <1>1, LinkInvariant, PTL

\* No response is dropped as out of sequence.
THEOREM NoStray == Spec => []NoStrayReply
<1>1. TypeOK /\ LinkInv => NoStrayReply
  <2> SUFFICES ASSUME TypeOK, LinkInv, running, fromPipe # <<>>,
                      Head(fromPipe).type = "response"
               PROVE  active # NoCall /\ Head(fromPipe) = Response(active)
    BY DEF NoStrayReply
  <2>1. 1 \in 1 .. Len(fromPipe) /\ Head(fromPipe) = fromPipe[1]
    BY DEF TypeOK, ProcessTypeOK
  <2>2. QED
    BY <2>1 DEF LinkInv, ResponseInv
<1>2. QED
  BY <1>1, LinkInvariant, PTL

\* A done_callback is called at most once, with its own response or NULL.
THEOREM CalledOnce == Spec => [](AtMostOnce /\ AnswerMatches)
<1>1. TypeOK /\ LinkInv => AtMostOnce /\ AnswerMatches
  BY DEF LinkInv
<1>2. QED
  BY <1>1, LinkInvariant, PTL

\* The backend has at most one request, the active call's.
THEOREM OneRequest == Spec => []OneRequestAtBackend
<1>1. TypeOK /\ LinkInv => OneRequestAtBackend
  <2> SUFFICES ASSUME TypeOK, LinkInv, running, wpc \in {"read", "busy"},
                      cur.kind # "exit"
               PROVE  /\ toPipe = <<>> /\ cur = active
                      /\ \A i \in 1 .. Len(fromPipe) : fromPipe[i].type = "status"
    BY DEF OneRequestAtBackend
  <2>1. toPipe = <<>> /\ cur = active
    BY DEF LinkInv, RequestInv, BackendInv
  <2>2. \A i \in 1 .. Len(fromPipe) : fromPipe[i] \in Message
    BY DEF TypeOK, ProcessTypeOK
  <2>3. QED
    BY <2>1, <2>2 DEF LinkInv, ResponseInv, Message
<1>2. QED
  BY <1>1, LinkInvariant, PTL

\* No call is left waiting by an idle or a lost backend.
THEOREM QueueServed == Spec => []QueueWaitsForActive
<1>1. TypeOK /\ LinkInv => QueueWaitsForActive
  BY DEF LinkInv
<1>2. QED
  BY <1>1, LinkInvariant, PTL

-----------------------------------------------------------------------------
(* The link implements the service *)

\* The calls that wait for their callback, oldest first.
Waiting == IF active = NoCall THEN pending ELSE <<active>> \o pending
IdSeq(s) == [i \in 1 .. Len(s) |-> s[i].id]

LEMMA WaitingFacts ==
  ASSUME TypeOK
  PROVE  /\ Waiting \in Seq(Call) /\ OutstandingIds = IdSeq(Waiting)
         /\ active = NoCall => Waiting = pending
         /\ active # NoCall => /\ Waiting # <<>> /\ Len(Waiting) = Len(pending) + 1 /\ Waiting[1] = active
                               /\ \A i \in 1 .. Len(pending) : Waiting[i + 1] = pending[i]
<1>1. pending \in Seq(Call) /\ active \in Call
  BY DEF TypeOK, CallsTypeOK
<1>2. OutstandingIds = IdSeq(Waiting)
  BY DEF OutstandingIds, IdSeq, Waiting
<1>3. QED
  BY <1>1, <1>2 DEF Waiting

\* Nobody waits for a backend that is known to be lost.
LostInv == started /\ ~running => active = NoCall /\ pending = <<>>

LEMMA LostKept == ASSUME Inv, LostInv, [Next]_vars PROVE LostInv'
<1>1. CASE UNCHANGED <<started, running, active, pending>>
  BY <1>1 DEF LostInv
<1>2. CASE User
  <2>1. CASE CallStartFails \/ CallRefused \/ CancelAptWorker
    BY <1>1, <2>1 DEF CallStartFails, CallRefused, CancelAptWorker, clientVars
  <2>2. CASE \E kind \in Kinds : CallQueued(kind)
    <3>1. running' = TRUE
      BY <2>2 DEF CallQueued, StartAptWorker, Inv, TypeOK, ProcessTypeOK
    <3>2. QED
      BY <3>1 DEF LostInv
  <2>3. CASE FrontendExit
    BY <2>3 DEF FrontendExit, StartAptWorker, LostInv
  <2>4. QED
    BY <1>2, <2>1, <2>2, <2>3 DEF User
<1>3. CASE HandleEOF \/ AptWorkerWatch
  BY <1>3 DEF HandleEOF, AptWorkerWatch, NoticeAptWorkerFailure, LostInv
<1>4. CASE FinishAptWorkerStartup \/ HandleStatus \/ HandleResponse
  <2>1. running' = TRUE
    BY <1>4 DEF FinishAptWorkerStartup, HandleStatus, HandleResponse, clientVars, Inv, TypeOK, ProcessTypeOK
  <2>2. QED
    BY <2>1 DEF LostInv
<1>5. CASE WorkerProgress \/ SendStatus \/ SendResponse \/ WorkerDies
  BY <1>1, <1>5 DEF WorkerProgress, WorkerOpenFifos, WorkerStartup, ReadRequest, ReadEOF, DrainAndDispatch,
           PollCancelled, RoundEnds, CacheInitAfterRequest, SendStatus, SendResponse, WorkerDies, clientVars
<1>6. QED
  BY <1>1, <1>2, <1>3, <1>4, <1>5 DEF Next, Handlers, vars, clientVars

\* Queue w of calls is the waiting one without its k oldest and with n new ones.
Moved(w, k, n) ==
  /\ w \in Seq(Call) /\ Len(w) = (Len(Waiting) - k) + n
  /\ \A i \in 1 .. (Len(Waiting) - k) : w[i].id = Waiting[i + k].id
  /\ \A i \in 1 .. n : w[(Len(Waiting) - k) + i].id = nextId + i - 1

\* Sequence q is out without its first k elements and with n numbers from first on.
Spliced(q, out, k, n, first) ==
  /\ q \in Seq(Int) /\ Len(q) = (Len(out) - k) + n
  /\ \A i \in 1 .. (Len(out) - k) : q[i] = out[i + k]
  /\ \A i \in 1 .. n : q[(Len(out) - k) + i] = first + i - 1

LEMMA QueueFacts ==
  ASSUME NEW out \in Seq(Int), NEW k \in {0, 1}, k <= Len(out), NEW n \in Nat, NEW first \in Int
  PROVE  Spliced(SubSeq(out, k + 1, Len(out)) \o [i \in 1 .. n |-> first + i - 1], out, k, n, first)
<1> DEFINE a == SubSeq(out, k + 1, Len(out))
           b == [i \in 1 .. n |-> first + i - 1]
<1>1. a \in Seq(Int) /\ Len(a) = Len(out) - k /\ \A i \in 1 .. (Len(out) - k) : a[i] = out[i + k]
  OBVIOUS
<1>2. b \in Seq(Int) /\ Len(b) = n /\ \A i \in 1 .. n : b[i] = first + i - 1
  OBVIOUS
<1>3. Len(a) \in Nat
  BY <1>1
<1> HIDE DEF a, b
<1>4. /\ a \o b \in Seq(Int) /\ Len(a \o b) = Len(a) + Len(b)
      /\ \A i \in 1 .. Len(a) + Len(b) : (a \o b)[i] = IF i <= Len(a) THEN a[i] ELSE b[i - Len(a)]
  BY <1>1, <1>2, ConcatProperties
<1>5. \A i \in 1 .. (Len(out) - k) : (a \o b)[i] = out[i + k]
  BY <1>1, <1>2, <1>3, <1>4
<1>6. \A i \in 1 .. n : (a \o b)[(Len(out) - k) + i] = first + i - 1
  <2>1. \A i \in 1 .. n : Len(a) + i \in 1 .. Len(a) + Len(b) /\ ~(Len(a) + i <= Len(a))
                         /\ (Len(a) + i) - Len(a) = i
    BY <1>2, <1>3
  <2>2. \A i \in 1 .. n : (a \o b)[Len(a) + i] = b[i]
    BY <1>4, <2>1
  <2>3. QED
    BY <1>1, <1>2, <2>2
<1>7. Len(a \o b) = (Len(out) - k) + n
  BY <1>1, <1>2, <1>4
<1>8. Spliced(a \o b, out, k, n, first)
  BY <1>4, <1>5, <1>6, <1>7, Zenon DEF Spliced
<1>9. QED
  BY <1>8 DEF a, b

LEMMA IdSeqFacts ==
  ASSUME NEW w \in Seq(Call)
  PROVE  /\ IdSeq(w) \in Seq(Int) /\ Len(IdSeq(w)) = Len(w)
         /\ \A i \in 1 .. Len(w) : IdSeq(w)[i] = w[i].id
<1>1. \A i \in 1 .. Len(w) : w[i].id \in Int
  <2>1. \A c \in Call : c.id \in Int
    BY LinkAssumption DEF Call
  <2>2. QED
    BY <2>1
<1>2. Len(w) \in Nat
  OBVIOUS
<1>3. QED
  BY <1>1, <1>2 DEF IdSeq

\* What the service makes of the outstanding calls.
LEMMA QueueMoved ==
  ASSUME TypeOK, NEW k \in {0, 1}, k <= Len(Waiting), NEW n \in Nat
  PROVE  /\ \A w : Moved(w, k, n) => IdSeq(w) = Service!Queue(k, n)
         /\ \A i : i \in Service!Elements(Service!Queue(k, n)) <=>
                     \/ \E j \in (k + 1) .. Len(Waiting) : i = Waiting[j].id
                     \/ i \in nextId .. (nextId + n - 1)
<1> DEFINE out == IdSeq(Waiting)
           q == Service!Queue(k, n)
<1>1. Waiting \in Seq(Call) /\ OutstandingIds = out /\ nextId \in Int /\ Len(Waiting) \in Nat
  BY WaitingFacts DEF TypeOK, CallsTypeOK
<1>2. out \in Seq(Int) /\ Len(out) = Len(Waiting) /\ \A i \in 1 .. Len(Waiting) : out[i] = Waiting[i].id
  BY <1>1, IdSeqFacts
<1> HIDE DEF out
<1>3. q = SubSeq(out, k + 1, Len(out)) \o [i \in 1 .. n |-> nextId + i - 1]
  BY <1>1 DEF Service!Queue, Service!Fresh
<1> HIDE DEF q
<1>4. /\ q \in Seq(Int) /\ Len(q) = (Len(Waiting) - k) + n
      /\ \A i \in 1 .. (Len(Waiting) - k) : q[i] = out[i + k]
      /\ \A i \in 1 .. n : q[(Len(Waiting) - k) + i] = nextId + i - 1
  <2>1. k <= Len(out)
    BY <1>2
  <2>2. Spliced(q, out, k, n, nextId)
    BY <1>1, <1>2, <1>3, <2>1, QueueFacts
  <2>3. QED
    BY <1>2, <2>2 DEF Spliced
<1>5. \A i \in 1 .. (Len(Waiting) - k) : i + k \in 1 .. Len(Waiting)
  BY <1>1
<1>6. ASSUME NEW w, Moved(w, k, n) PROVE IdSeq(w) = q
  <2>1. IdSeq(w) \in Seq(Int) /\ Len(IdSeq(w)) = Len(q) /\ \A i \in 1 .. Len(w) : IdSeq(w)[i] = w[i].id
    BY <1>4, <1>6, IdSeqFacts DEF Moved
  <2>2. ASSUME NEW i \in 1 .. Len(q) PROVE IdSeq(w)[i] = q[i]
    <3>1. CASE i \in 1 .. (Len(Waiting) - k)
      BY <1>2, <1>4, <1>5, <1>6, <2>1, <3>1 DEF Moved
    <3>2. CASE i \notin 1 .. (Len(Waiting) - k)
      <4>1. PICK j \in 1 .. n : i = (Len(Waiting) - k) + j
        <5>1. i - (Len(Waiting) - k) \in 1 .. n
          BY <1>1, <1>4, <3>2
        <5>2. QED
          BY <1>1, <5>1
      <4>2. QED
        BY <1>4, <1>6, <2>1, <4>1 DEF Moved
    <3>3. QED
      BY <3>1, <3>2
  <2>3. QED
    BY <1>4, <2>1, <2>2, SeqEqual
<1>7. ASSUME NEW i
      PROVE  i \in Service!Elements(q) <=> \/ \E j \in (k + 1) .. Len(Waiting) : i = Waiting[j].id
                                           \/ i \in nextId .. (nextId + n - 1)
  <2>1. i \in Service!Elements(q) <=> \E j \in 1 .. Len(q) : i = q[j]
    BY DEF Service!Elements
  <2>2. ASSUME NEW j \in 1 .. Len(q), i = q[j]
        PROVE  (\E l \in (k + 1) .. Len(Waiting) : i = Waiting[l].id) \/ i \in nextId .. (nextId + n - 1)
    <3>1. CASE j \in 1 .. (Len(Waiting) - k)
      <4>1. j + k \in (k + 1) .. Len(Waiting) /\ i = Waiting[j + k].id
        BY <1>1, <1>2, <1>4, <1>5, <2>2, <3>1
      <4>2. QED
        BY <4>1
    <3>2. CASE j \notin 1 .. (Len(Waiting) - k)
      <4>1. j - (Len(Waiting) - k) \in 1 .. n /\ j = (Len(Waiting) - k) + (j - (Len(Waiting) - k))
        BY <1>1, <1>4, <3>2
      <4>2. i = nextId + (j - (Len(Waiting) - k)) - 1
        BY <1>4, <2>2, <4>1
      <4>3. QED
        BY <1>1, <4>1, <4>2
    <3>3. QED
      BY <3>1, <3>2
  <2>3. ASSUME NEW l \in (k + 1) .. Len(Waiting), i = Waiting[l].id PROVE \E j \in 1 .. Len(q) : i = q[j]
    <3>1. /\ l - k \in 1 .. (Len(Waiting) - k) /\ l - k \in 1 .. Len(q)
          /\ l \in 1 .. Len(Waiting) /\ (l - k) + k = l
      BY <1>1, <1>4
    <3>2. i = q[l - k]
      BY <1>2, <1>4, <2>3, <3>1
    <3>3. QED
      BY <3>1, <3>2
  <2>4. ASSUME i \in nextId .. (nextId + n - 1) PROVE \E j \in 1 .. Len(q) : i = q[j]
    <3>1. i \in Int
      BY <1>1, <2>4
    <3>2. i - nextId + 1 \in 1 .. n /\ nextId + (i - nextId + 1) - 1 = i
      BY <1>1, <2>4, <3>1
    <3>3. i = q[(Len(Waiting) - k) + (i - nextId + 1)]
      BY <1>4, <3>2
    <3>4. (Len(Waiting) - k) + (i - nextId + 1) \in 1 .. Len(q)
      <4>1. Len(Waiting) - k \in Nat
        BY <1>1
      <4>2. \A m \in Nat, x \in 1 .. n : m + x \in 1 .. (m + n)
        OBVIOUS
      <4>3. QED
        BY <1>4, <3>2, <4>1, <4>2
    <3>5. QED
      BY <3>3, <3>4
  <2>5. QED
    BY <2>1, <2>2, <2>3, <2>4
<1>8. QED
  BY <1>6, <1>7 DEF q

\* The steps of the service, in terms of the calls that wait.
LEMMA ServiceStutters ==
  ASSUME TypeOK, Waiting' = Waiting, UNCHANGED <<nextId, done, reply>> PROVE UNCHANGED Service!svars
<1>1. OutstandingIds = IdSeq(Waiting) /\ OutstandingIds' = IdSeq(Waiting')
  BY DEF OutstandingIds, IdSeq, Waiting
<1>2. QED
  BY <1>1 DEF Service!svars

LEMMA ServiceAccepts ==
  ASSUME TypeOK, nextId <= MaxCalls, Moved(Waiting', 0, 1), nextId' = nextId + 1, UNCHANGED <<done, reply>>
  PROVE  Service!Next
<1>1. OutstandingIds' = IdSeq(Waiting')
  BY DEF OutstandingIds, IdSeq, Waiting
<1>2. 0 <= Len(Waiting)
  BY WaitingFacts
<1>3. IdSeq(Waiting') = Service!Queue(0, 1)
  BY <1>2, QueueMoved
<1>4. QED
  BY <1>1, <1>3 DEF Service!Next, Service!Accept

LEMMA ServiceAnswers ==
  ASSUME TypeOK, Waiting # <<>>, NEW n \in {0, 1}, nextId + n <= MaxCalls + 1, Moved(Waiting', 1, n),
         nextId' = nextId + n, Complete(Waiting[1].id, Waiting[1].id, {})
  PROVE  Service!Next
<1>1. OutstandingIds' = IdSeq(Waiting')
  BY DEF OutstandingIds, IdSeq, Waiting
<1>2. Waiting \in Seq(Call) /\ 1 <= Len(Waiting) /\ OutstandingIds = IdSeq(Waiting)
  BY WaitingFacts
<1>3. IdSeq(Waiting') = Service!Queue(1, n)
  BY <1>2, QueueMoved
<1>4. OutstandingIds # <<>> /\ Head(OutstandingIds) = Waiting[1].id
  BY <1>2, IdSeqFacts
<1>5. Service!Answered({Waiting[1].id}, {})
  BY DEF Complete, Service!Answered, Service!Ids, CallIds
<1>6. QED
  BY <1>1, <1>3, <1>4, <1>5 DEF Service!Next, Service!Answer

LEMMA ServiceGivesUp ==
  ASSUME TypeOK, NEW k \in {0, 1}, k <= Len(Waiting), NEW n \in 0 .. (MaxCalls + 1 - nextId),
         Waiting' = <<>>, nextId' = nextId + n, NEW a, NEW v, NEW S, Complete(a, v, S),
         k = 0 => a \notin CallIds, k = 1 => a = Waiting[1].id /\ v = a,
         \A i \in CallIds : i # a => (i \in S <=> \/ \E j \in (k + 1) .. Len(Waiting) : i = Waiting[j].id
                                                  \/ i \in nextId .. (nextId + n - 1))
  PROVE  Service!Next
<1> DEFINE first == Service!Elements(SubSeq(OutstandingIds, 1, k))
           rest == Service!Elements(Service!Queue(k, n))
<1>1. OutstandingIds' = <<>>
  BY DEF OutstandingIds, Waiting
<1>2. /\ Waiting \in Seq(Call) /\ OutstandingIds = IdSeq(Waiting) /\ Len(OutstandingIds) = Len(Waiting)
      /\ OutstandingIds \in Seq(Int) /\ (k = 1 => OutstandingIds[1] = Waiting[1].id) /\ n \in Nat
  BY WaitingFacts, IdSeqFacts, LinkAssumption DEF TypeOK, CallsTypeOK
<1>3. \A i \in CallIds : i # a => (i \in rest <=> i \in S)
  BY <1>2, QueueMoved
<1>4. \A i \in CallIds : i \in first <=> i = a
  <2> DEFINE s == SubSeq(OutstandingIds, 1, k)
  <2>1. Len(s) = k /\ (k = 1 => s[1] = Waiting[1].id)
    <3>1. CASE k = 0
      BY <1>2, <3>1
    <3>2. CASE k = 1
      <4>1. \A i \in 1 .. 1 : OutstandingIds[i] \in Int
        BY <1>2, <3>2
      <4>2. Len(s) = 1 /\ s[1] = OutstandingIds[1]
        BY <3>2, <4>1, SubSeqProperties
      <4>3. QED
        BY <1>2, <3>2, <4>2
    <3>3. QED
      BY <3>1, <3>2
  <2>2. \A i : i \in first <=> \E j \in 1 .. Len(s) : i = s[j]
    BY Zenon DEF Service!Elements
  <2> HIDE DEF first, s
  <2>3. QED
    BY <2>1, <2>2
<1>5. k = 0 \/ v = a
  OBVIOUS
<1> HIDE DEF first, rest
<1>6. Service!Answered(first, rest)
  <2>1. \A i \in CallIds : /\ (i \in first \cup rest) <=> (i = a \/ i \in S)
                           /\ i \in first <=> i = a
                           /\ i # a => (i \in rest <=> i \in S)
    BY <1>3, <1>4
  <2>2. done' = [i \in CallIds |-> IF i \in first \cup rest THEN done[i] + 1 ELSE done[i]]
    BY <2>1, Zenon DEF Complete
  <2>3. \A i \in CallIds : i = a => i = v
    BY <1>5
  <2>4. reply' = [i \in CallIds |-> IF i \in first THEN i ELSE IF i \in rest THEN NoDecoder ELSE reply[i]]
    BY <2>1, <2>3 DEF Complete
  <2>5. QED
    BY <2>2, <2>4 DEF Service!Answered, Service!Ids, CallIds, NoDecoder
<1>7. k \in 0 .. 1 /\ k <= Len(OutstandingIds)
  BY <1>2
<1>8. QED
  BY <1>1, <1>6, <1>7 DEF Service!Next, Service!GiveUp, first, rest

\* The calls that wait when active_call = act and the queue is q.
Line(act, q) == IF act = NoCall THEN q ELSE <<act>> \o q

\* maybe_send_one_worker_call () gives everything up or changes nobody's place.
LEMMA SendMoves ==
  ASSUME NEW act, NEW q, NEW id, NEW seq, NEW a, NEW v, WaitOK(act, q, id, seq, a),
         MaybeSendOneWorkerCall(act, q, id, seq, a, v)
  PROVE  \/ Waiting' = Line(act, q) /\ nextId' = id /\ Complete(a, v, {})
         \/ /\ act = NoCall /\ Waiting' = <<>>
            /\ \E n \in 0 .. (MaxCalls + 1 - id) :
                 nextId' = id + n /\ Complete(a, v, IdsOf(q) \cup (id .. (id + n - 1)))
<1>0. q \in Seq(Call)
  BY DEF WaitOK
<1>1. CASE Hold(act, q, id, seq) /\ Complete(a, v, {})
  BY <1>1 DEF Hold, Waiting, Line
<1>2. CASE act = NoCall /\ q # <<>> /\ SendOldest(q, id, seq) /\ Complete(a, v, {})
  <2>1. active' = Head(q) /\ pending' = Tail(q) /\ nextId' = id
    BY <1>2 DEF SendOldest
  <2>2. Head(q) = q[1] /\ 1 \in 1 .. Len(q)
    BY <1>0, <1>2
  <2>3. q[1].id \in 1 .. (id - 1)
    BY <2>2 DEF WaitOK
  <2>4. active' # NoCall
    BY <2>1, <2>2, <2>3 DEF NoCall
  <2>5. <<Head(q)>> \o Tail(q) = q
    BY <1>0, <1>2
  <2>6. QED
    BY <1>2, <2>1, <2>4, <2>5 DEF Waiting, Line
<1>3. CASE /\ act = NoCall
           /\ \E n \in 0 .. (MaxCalls + 1 - id) :
                /\ Hold(act, <<>>, id + n, seq + n)
                /\ Complete(a, v, IdsOf(q) \cup (id .. (id + n - 1)))
  BY <1>3 DEF Hold, Waiting
<1>4. QED
  BY <1>1, <1>2, <1>3 DEF MaybeSendOneWorkerCall, Busy

\* What is left to the service: k calls have been answered and m made.
LEMMA SendServes ==
  ASSUME Inv, NEW act, NEW q, NEW k \in {0, 1}, NEW m \in {0, 1}, NEW seq, NEW a, NEW v,
         WaitOK(act, q, nextId + m, seq, a),
         MaybeSendOneWorkerCall(act, q, nextId + m, seq, a, v),
         k <= Len(Waiting), Moved(Line(act, q), k, m),
         k = 0 => a = 0 /\ v = NotDone, k = 1 => active # NoCall /\ a = active.id /\ v = a,
         Line(act, q) = Waiting \/ k # 0 \/ m # 0
  PROVE  Service!Next \/ UNCHANGED Service!svars
<1>0. TypeOK /\ CallsInv /\ nextId \in 1 .. (MaxCalls + 1) /\ nextId + m <= MaxCalls + 1
  BY DEF Inv, LinkInv, TypeOK, CallsTypeOK, WaitOK
<1>1. /\ Waiting \in Seq(Call) /\ Len(Waiting) \in Nat
      /\ active # NoCall => Waiting # <<>> /\ Waiting[1] = active
  BY <1>0, WaitingFacts
<1>2. CASE Waiting' = Line(act, q) /\ nextId' = nextId + m /\ Complete(a, v, {})
  <2>1. CASE k = 1
    BY <1>0, <1>1, <1>2, <2>1, ServiceAnswers
  <2>2. CASE k = 0
    <3>1. UNCHANGED <<done, reply>>
      <4>1. \A i \in CallIds : i # 0
        BY DEF CallIds
      <4>2. /\ done = [i \in CallIds |-> done[i]] /\ reply = [i \in CallIds |-> reply[i]]
        BY <1>0 DEF TypeOK, CallsTypeOK
      <4>3. QED
        BY <1>2, <2>2, <4>1, <4>2 DEF Complete
    <3>2. CASE m = 1
      <4>1. nextId <= MaxCalls /\ nextId' = nextId + 1
        BY <1>0, <1>2, <3>2, LinkAssumption
      <4>2. QED
        BY <1>0, <1>2, <2>2, <3>1, <3>2, <4>1, ServiceAccepts
    <3>3. CASE m = 0
      BY <1>0, <1>2, <2>2, <3>1, <3>3, ServiceStutters
    <3>4. QED
      BY <3>2, <3>3
  <2>3. QED
    BY <2>1, <2>2
<1>3. CASE /\ act = NoCall /\ Waiting' = <<>>
           /\ \E n \in 0 .. (MaxCalls + 1 - (nextId + m)) :
                /\ nextId' = nextId + m + n
                /\ Complete(a, v, IdsOf(q) \cup ((nextId + m) .. (nextId + m + n - 1)))
  <2>1. PICK n \in 0 .. (MaxCalls + 1 - (nextId + m)) :
               /\ nextId' = nextId + m + n
               /\ Complete(a, v, IdsOf(q) \cup ((nextId + m) .. (nextId + m + n - 1)))
    BY <1>3
  <2> DEFINE S == IdsOf(q) \cup ((nextId + m) .. (nextId + m + n - 1))
  <2>2. m + n \in 0 .. (MaxCalls + 1 - nextId) /\ nextId' = nextId + (m + n)
    BY <1>0, <2>1, LinkAssumption
  <2>3. Line(act, q) = q
    BY <1>3 DEF Line
  <2>4. ASSUME NEW i \in CallIds
        PROVE  i \in S <=> \/ \E j \in (k + 1) .. Len(Waiting) : i = Waiting[j].id
                           \/ i \in nextId .. (nextId + (m + n) - 1)
    <3>1. /\ Len(q) = (Len(Waiting) - k) + m
          /\ \A j \in 1 .. (Len(Waiting) - k) : q[j].id = Waiting[j + k].id
          /\ \A j \in 1 .. m : q[(Len(Waiting) - k) + j].id = nextId + j - 1
      BY <2>3 DEF Moved
    <3>2. i \in IdsOf(q) <=> \/ \E j \in (k + 1) .. Len(Waiting) : i = Waiting[j].id
                             \/ m = 1 /\ i = nextId
      <4>1. ASSUME NEW j \in 1 .. Len(q), i = q[j].id
            PROVE  (\E l \in (k + 1) .. Len(Waiting) : i = Waiting[l].id) \/ (m = 1 /\ i = nextId)
        <5>1. CASE j \in 1 .. (Len(Waiting) - k)
          <6>1. j + k \in (k + 1) .. Len(Waiting) /\ i = Waiting[j + k].id
            BY <1>1, <3>1, <4>1, <5>1
          <6>2. QED
            BY <6>1
        <5>2. CASE j \notin 1 .. (Len(Waiting) - k)
          <6>1. m = 1 /\ j = (Len(Waiting) - k) + 1
            BY <1>1, <3>1, <5>2
          <6>2. QED
            BY <1>0, <3>1, <4>1, <6>1
        <5>3. QED
          BY <5>1, <5>2
      <4>2. ASSUME NEW l \in (k + 1) .. Len(Waiting), i = Waiting[l].id PROVE i \in IdsOf(q)
        <5>1. l - k \in 1 .. (Len(Waiting) - k) /\ l - k \in 1 .. Len(q) /\ (l - k) + k = l
          BY <1>1, <3>1
        <5>2. i = q[l - k].id
          BY <3>1, <4>2, <5>1
        <5>3. QED
          BY <5>1, <5>2 DEF IdsOf
      <4>3. ASSUME m = 1, i = nextId PROVE i \in IdsOf(q)
        <5>1. (Len(Waiting) - k) + 1 \in 1 .. Len(q) /\ q[(Len(Waiting) - k) + 1].id = nextId
          BY <1>0, <1>1, <3>1, <4>3
        <5>2. QED
          BY <4>3, <5>1 DEF IdsOf
      <4>4. QED
        BY <4>1, <4>2, <4>3 DEF IdsOf
    <3>3. i \in nextId .. (nextId + (m + n) - 1) <=>
            (m = 1 /\ i = nextId) \/ i \in (nextId + m) .. (nextId + m + n - 1)
      BY <1>0, LinkAssumption DEF CallIds
    <3>4. QED
      BY <3>2, <3>3
  <2> HIDE DEF S
  <2>5. k = 0 => a \notin CallIds
    BY DEF CallIds
  <2>6. Complete(a, v, S)
    BY <2>1 DEF S
  <2>7. QED
    BY <1>0, <1>1, <1>3, <2>2, <2>4, <2>5, <2>6, ServiceGivesUp
<1>4. QED
  BY <1>2, <1>3, SendMoves

\* The queues that the handlers hand on, in terms of the calls that wait.
LEMMA QueuesMoved ==
  ASSUME TypeOK
  PROVE  /\ Moved(Line(active, pending), 0, 0) /\ Line(active, pending) = Waiting
         /\ active # NoCall => Moved(Line(NoCall, pending), 1, 0) /\ 1 <= Len(Waiting)
<1>1. /\ Waiting \in Seq(Call) /\ Line(active, pending) = Waiting /\ Line(NoCall, pending) = pending
      /\ pending \in Seq(Call) /\ Len(pending) \in Nat /\ Len(Waiting) \in Nat
  BY WaitingFacts DEF Waiting, Line, TypeOK, CallsTypeOK
<1>2. Moved(Waiting, 0, 0)
  BY <1>1 DEF Moved
<1>3. CASE active # NoCall
  <2>1. /\ Len(Waiting) = Len(pending) + 1
        /\ \A i \in 1 .. Len(pending) : Waiting[i + 1] = pending[i]
    BY <1>3, WaitingFacts
  <2>2. Moved(pending, 1, 0)
    BY <1>1, <2>1 DEF Moved
  <2>3. QED
    BY <1>1, <1>2, <2>1, <2>2
<1>4. QED
  BY <1>1, <1>2, <1>3

LEMMA QueuesGrown ==
  ASSUME TypeOK, NEW c \in Call, c.id = nextId
  PROVE  /\ Moved(Line(active, Append(pending, c)), 0, 1)
         /\ active # NoCall => Moved(Line(NoCall, Append(pending, c)), 1, 1)
<1> DEFINE q == Append(pending, c)
           w == Append(Waiting, c)
<1>1. /\ Waiting \in Seq(Call) /\ Len(Waiting) \in Nat /\ active \in Call
      /\ pending \in Seq(Call) /\ Len(pending) \in Nat /\ nextId \in Int
  BY WaitingFacts, LinkAssumption DEF TypeOK, CallsTypeOK
<1>2. /\ q \in Seq(Call) /\ Len(q) = Len(pending) + 1 /\ q[Len(pending) + 1] = c
      /\ \A i \in 1 .. Len(pending) : q[i] = pending[i]
  BY <1>1
<1>3. /\ w \in Seq(Call) /\ Len(w) = Len(Waiting) + 1 /\ w[Len(Waiting) + 1] = c
      /\ \A i \in 1 .. Len(Waiting) : w[i] = Waiting[i]
  BY <1>1
<1>4. Line(active, q) = w
  <2>1. <<active>> \o Append(pending, c) = Append(<<active>> \o pending, c)
    BY <1>1
  <2>2. QED
    BY <2>1 DEF Line, Waiting
<1>5. Line(NoCall, q) = q
  BY DEF Line
<1> HIDE DEF q, w
<1>6. Moved(w, 0, 1)
  BY <1>1, <1>3 DEF Moved
<1>7. CASE active # NoCall
  <2>1. /\ Len(Waiting) = Len(pending) + 1
        /\ \A i \in 1 .. Len(pending) : Waiting[i + 1] = pending[i]
    BY <1>7, WaitingFacts
  <2>2. Moved(q, 1, 1)
    BY <1>1, <1>2, <2>1 DEF Moved
  <2>3. QED
    BY <1>4, <1>5, <1>6, <2>2 DEF q
<1>8. QED
  BY <1>4, <1>6, <1>7 DEF q

\* A call that is refused is given up at once; nobody else waits.
LEMMA RefusedServes ==
  ASSUME Inv, LostInv, CallStartFails \/ CallRefused
  PROVE  Service!Next
<1>1. /\ nextId <= MaxCalls /\ Complete(nextId, NoDecoder, {}) /\ nextId' = nextId + 1
      /\ active' = active /\ pending' = pending
  BY DEF CallStartFails, CallRefused
<1>2. active = NoCall /\ pending = <<>>
  BY <1>1 DEF Inv, LinkInv, StartupInv, LostInv, CallStartFails, CallRefused
<1>3. Waiting = <<>> /\ Waiting' = <<>>
  <2>1. active' = NoCall /\ pending' = <<>>
    BY <1>1, <1>2
  <2>2. QED
    BY <1>2, <2>1 DEF Waiting
<1>4. TypeOK /\ nextId \in 1 .. (MaxCalls + 1)
  BY DEF Inv, TypeOK, CallsTypeOK
<1>5. Complete(0, NotDone, {nextId})
  <2>1. \A i \in CallIds : i # 0 /\ i \notin {}
    BY DEF CallIds
  <2>2. /\ done' = [i \in CallIds |-> IF i = nextId \/ i \in {} THEN done[i] + 1 ELSE done[i]]
        /\ reply' = [i \in CallIds |-> IF i = nextId THEN NoDecoder
                                       ELSE IF i \in {} THEN NoDecoder ELSE reply[i]]
    BY <1>1 DEF Complete
  <2>3. done' = [i \in CallIds |-> IF i = 0 \/ i \in {nextId} THEN done[i] + 1 ELSE done[i]]
    BY <2>1, <2>2
  <2>4. reply' = [i \in CallIds |-> IF i = 0 THEN NotDone
                                    ELSE IF i \in {nextId} THEN NoDecoder ELSE reply[i]]
    BY <2>1, <2>2
  <2>5. QED
    BY <2>3, <2>4 DEF Complete
<1>6. \A i \in CallIds : i \in {nextId} <=> \/ \E j \in 1 .. Len(Waiting) : i = Waiting[j].id
                                            \/ i \in nextId .. (nextId + 1 - 1)
  BY <1>3, <1>4, LinkAssumption DEF CallIds
<1>7. 1 \in 0 .. (MaxCalls + 1 - nextId) /\ 0 \notin CallIds /\ 0 <= Len(Waiting)
  BY <1>1, <1>3, <1>4, LinkAssumption DEF CallIds
<1>8. QED
  BY <1>1, <1>3, <1>4, <1>5, <1>6, <1>7, ServiceGivesUp

\* When the failure is noticed, everything that waits is given up.
LEMMA FailureServes ==
  ASSUME Inv, NoticeAptWorkerFailure
  PROVE  Service!Next
<1>1. TypeOK /\ nextId \in 1 .. (MaxCalls + 1)
  BY DEF Inv, TypeOK, CallsTypeOK
<1>2. active' = NoCall /\ pending' = <<>>
  BY DEF NoticeAptWorkerFailure
<1>3. Waiting' = <<>>
  BY <1>2 DEF Waiting
<1>4. PICK n \in 0 .. (MaxCalls + 1 - nextId) :
        /\ nextId' = nextId + n
        /\ Complete(0, NotDone, {active.id} \cup IdsOf(pending) \cup (nextId .. (nextId + n - 1)))
  BY DEF NoticeAptWorkerFailure
<1> DEFINE S == {active.id} \cup IdsOf(pending) \cup (nextId .. (nextId + n - 1))
<1>5. /\ Waiting \in Seq(Call) /\ Len(Waiting) \in Nat /\ pending \in Seq(Call) /\ Len(pending) \in Nat
  BY <1>1, WaitingFacts DEF TypeOK, CallsTypeOK
<1>6. ASSUME NEW i \in CallIds
      PROVE  i = active.id \/ i \in IdsOf(pending) <=> \E j \in 1 .. Len(Waiting) : i = Waiting[j].id
  <2>1. CASE active = NoCall
    <3>1. Waiting = pending /\ i # active.id
      BY <2>1 DEF Waiting, NoCall, CallIds
    <3>2. QED
      BY <3>1 DEF IdsOf
  <2>2. CASE active # NoCall
    <3>1. /\ Len(Waiting) = Len(pending) + 1 /\ Waiting[1] = active
          /\ \A j \in 1 .. Len(pending) : Waiting[j + 1] = pending[j]
      BY <1>1, <2>2, WaitingFacts
    <3>2. ASSUME NEW j \in 1 .. Len(Waiting), i = Waiting[j].id PROVE i = active.id \/ i \in IdsOf(pending)
      <4>1. CASE j = 1
        BY <3>1, <3>2, <4>1
      <4>2. CASE j # 1
        <5>1. j - 1 \in 1 .. Len(pending) /\ (j - 1) + 1 = j
          BY <1>5, <3>1, <4>2
        <5>2. i = pending[j - 1].id
          BY <3>1, <3>2, <5>1
        <5>3. QED
          BY <5>1, <5>2 DEF IdsOf
      <4>3. QED
        BY <4>1, <4>2
    <3>3. ASSUME i = active.id PROVE \E j \in 1 .. Len(Waiting) : i = Waiting[j].id
      <4>1. 1 \in 1 .. Len(Waiting)
        BY <1>5, <3>1
      <4>2. QED
        BY <3>1, <3>3, <4>1
    <3>4. ASSUME NEW j \in 1 .. Len(pending), i = pending[j].id
          PROVE  \E l \in 1 .. Len(Waiting) : i = Waiting[l].id
      <4>1. j + 1 \in 1 .. Len(Waiting) /\ i = Waiting[j + 1].id
        BY <1>5, <3>1, <3>4
      <4>2. QED
        BY <4>1
    <3>5. QED
      BY <3>2, <3>3, <3>4 DEF IdsOf
  <2>3. QED
    BY <2>1, <2>2
<1>7. \A i \in CallIds : i \in S <=> \/ \E j \in (0 + 1) .. Len(Waiting) : i = Waiting[j].id
                                     \/ i \in nextId .. (nextId + n - 1)
  BY <1>6
<1>8. Complete(0, NotDone, S) /\ 0 \notin CallIds /\ 0 <= Len(Waiting)
  BY <1>4, <1>5 DEF CallIds
<1> HIDE DEF S
<1>9. QED
  BY <1>1, <1>3, <1>4, <1>7, <1>8, ServiceGivesUp

\* A call that is queued is accepted, or given up with all others when the
\* backend turns out to be dead.
LEMMA QueuedServes ==
  ASSUME Inv, NEW kind \in Kinds, CallQueued(kind)
  PROVE  Service!Next \/ UNCHANGED Service!svars
<1> DEFINE c == [id |-> nextId, seq |-> nextSeq, kind |-> kind]
           q == Append(pending, c)
<1>1. TypeOK /\ CallsInv /\ nextId <= MaxCalls
  BY DEF Inv, LinkInv, CallQueued
<1>2. MaybeSendOneWorkerCall(active, q, nextId + 1, nextSeq + 1, 0, NotDone)
  BY DEF CallQueued
<1>3. WaitOK(active, q, nextId + 1, nextSeq + 1, 0)
  BY <1>1, WaitActive, WaitAppend
<1>4. c \in Call /\ c.id = nextId
  BY <1>1, LinkAssumption DEF TypeOK, CallsTypeOK, Call, Kinds
<1> HIDE DEF c
<1>5. Moved(Line(active, q), 0, 1)
  BY <1>1, <1>4, QueuesGrown
<1>6. 0 <= Len(Waiting)
  BY <1>1, WaitingFacts
<1> HIDE DEF q
<1>7. QED
  BY <1>2, <1>3, <1>5, <1>6, SendServes

\* The startup hands the queue on as it is.
LEMMA StartupServes ==
  ASSUME Inv, FinishAptWorkerStartup
  PROVE  Service!Next \/ UNCHANGED Service!svars
<1>1. TypeOK /\ CallsInv /\ nextId \in Int
  BY LinkAssumption DEF Inv, LinkInv, TypeOK, CallsTypeOK
<1>2. CASE Alive
  <2>1. MaybeSendOneWorkerCall(active, pending, nextId, nextSeq, 0, NotDone)
    BY <1>2 DEF FinishAptWorkerStartup
  <2>2. MaybeSendOneWorkerCall(active, pending, nextId + 0, nextSeq, 0, NotDone)
        /\ WaitOK(active, pending, nextId + 0, nextSeq, 0)
    <3>1. nextId + 0 = nextId
      BY <1>1
    <3>2. QED
      BY <1>1, <2>1, <3>1, WaitActive
  <2>3. Moved(Line(active, pending), 0, 0) /\ Line(active, pending) = Waiting /\ 0 <= Len(Waiting)
    BY <1>1, QueuesMoved, WaitingFacts
  <2>4. QED
    BY <2>2, <2>3, SendServes
<1>3. CASE ~Alive
  <2>1. UNCHANGED <<active, pending, nextId, done, reply>>
    BY <1>3 DEF FinishAptWorkerStartup
  <2>2. Waiting' = Waiting
    BY <2>1 DEF Waiting
  <2>3. QED
    BY <1>1, <2>1, <2>2, ServiceStutters
<1>4. QED
  BY <1>2, <1>3

\* The active call is answered with its own response; its callback may make
\* another call.
LEMMA ResponseServes ==
  ASSUME Inv, HandleResponse
  PROVE  Service!Next \/ UNCHANGED Service!svars
<1>1. TypeOK /\ CallsInv /\ nextId \in Int
  BY LinkAssumption DEF Inv, LinkInv, TypeOK, CallsTypeOK
<1>2. CASE UNCHANGED <<active, pending, nextId, nextSeq, done, reply, toPipe>>
  <2>1. Waiting' = Waiting
    BY <1>2 DEF Waiting
  <2>2. QED
    BY <1>1, <1>2, <2>1, ServiceStutters
<1>3. active # NoCall /\ Head(fromPipe) = Response(active)
  <2>1. fromPipe # <<>> /\ Head(fromPipe).type = "response" /\ running
    BY DEF HandleResponse
  <2>2. fromPipe \in Seq(Message)
    BY <1>1 DEF TypeOK, ProcessTypeOK
  <2>3. Head(fromPipe) = fromPipe[1] /\ 1 \in 1 .. Len(fromPipe)
    BY <2>1, <2>2
  <2>4. ResponseInv
    BY DEF Inv, LinkInv
  <2>5. QED
    BY <2>1, <2>3, <2>4 DEF ResponseInv
<1>4. Head(fromPipe).answers = active.id
  BY <1>3 DEF Response
<1>5. WaitOK(NoCall, pending, nextId, nextSeq, active.id)
  BY <1>1, <1>3, WaitAnswered
<1>6. /\ Moved(Line(NoCall, pending), 1, 0) /\ 1 <= Len(Waiting)
  BY <1>1, <1>3, QueuesMoved
<1>7. CASE MaybeSendOneWorkerCall(NoCall, pending, nextId, nextSeq, active.id, Head(fromPipe).answers)
  <2>1. nextId + 0 = nextId
    BY <1>1
  <2>2. /\ MaybeSendOneWorkerCall(NoCall, pending, nextId + 0, nextSeq, active.id, active.id)
        /\ WaitOK(NoCall, pending, nextId + 0, nextSeq, active.id)
    BY <1>4, <1>5, <1>7, <2>1
  <2>3. QED
    BY <1>3, <1>6, <2>2, SendServes
<1>8. ASSUME NEW kind \in Kinds, nextId <= MaxCalls,
             MaybeSendOneWorkerCall(NoCall,
               Append(pending, [id |-> nextId, seq |-> nextSeq, kind |-> kind]),
               nextId + 1, nextSeq + 1, active.id, Head(fromPipe).answers)
      PROVE  Service!Next \/ UNCHANGED Service!svars
  <2> DEFINE c == [id |-> nextId, seq |-> nextSeq, kind |-> kind]
             q == Append(pending, c)
  <2>1. WaitOK(NoCall, q, nextId + 1, nextSeq + 1, active.id)
    BY <1>1, <1>5, <1>8, WaitAppend
  <2>2. MaybeSendOneWorkerCall(NoCall, q, nextId + 1, nextSeq + 1, active.id, active.id)
    BY <1>4, <1>8
  <2>3. c \in Call /\ c.id = nextId
    BY <1>1, <1>8, LinkAssumption DEF TypeOK, CallsTypeOK, Call, Kinds
  <2> HIDE DEF c
  <2>4. Moved(Line(NoCall, q), 1, 1)
    BY <1>1, <1>3, <2>3, QueuesGrown
  <2> HIDE DEF q
  <2>5. QED
    BY <1>3, <1>6, <2>1, <2>2, <2>4, SendServes
<1>9. QED
  BY <1>2, <1>7, <1>8 DEF HandleResponse

\* call_apt_worker () keeps its promise: calls are completed in the order in
\* which they were made, each with its own response, or all are given up
\* together (active_call, pending_calls and maybe_send_one_worker_call () in
\* apt-worker-client.cc implement the service of AptWorkerService).
THEOREM ServiceImplemented == Spec => ImplementsService
<1>1. Init => Service!Init /\ LostInv
  BY DEF Init, Service!Init, Service!Ids, CallIds, OutstandingIds, NotDone, NoCall, LostInv
<1>2. Inv /\ LostInv /\ [Next]_vars => [Service!Next]_Service!svars
  <2> SUFFICES ASSUME Inv, LostInv, [Next]_vars PROVE Service!Next \/ UNCHANGED Service!svars
    OBVIOUS
  <2>1. CASE UNCHANGED <<active, pending, nextId, done, reply>>
    <3>1. Waiting' = Waiting
      BY <2>1 DEF Waiting
    <3>2. QED
      BY <2>1, <3>1, ServiceStutters DEF Inv
  <2>2. CASE User
    <3>1. CASE CallStartFails \/ CallRefused
      BY <3>1, RefusedServes
    <3>2. CASE \E kind \in Kinds : CallQueued(kind)
      BY <3>2, QueuedServes
    <3>3. CASE CancelAptWorker \/ FrontendExit
      BY <2>1, <3>3 DEF CancelAptWorker, FrontendExit, clientVars
    <3>4. QED
      BY <2>2, <3>1, <3>2, <3>3 DEF User
  <2>3. CASE Handlers
    <3>1. CASE HandleStatus
      BY <2>1, <3>1 DEF HandleStatus, clientVars
    <3>2. CASE HandleEOF \/ AptWorkerWatch
      BY <3>2, FailureServes DEF HandleEOF, AptWorkerWatch
    <3>3. QED
      BY <2>3, <3>1, <3>2, StartupServes, ResponseServes DEF Handlers
  <2>4. CASE WorkerProgress \/ SendStatus \/ SendResponse \/ WorkerDies
    BY <2>1, <2>4 DEF WorkerProgress, WorkerOpenFifos, WorkerStartup, ReadRequest, ReadEOF,
             DrainAndDispatch, PollCancelled, RoundEnds, CacheInitAfterRequest, SendStatus,
             SendResponse, WorkerDies, clientVars
  <2>5. CASE UNCHANGED vars
    BY <2>1, <2>5 DEF vars, clientVars
  <2>6. QED
    BY <2>2, <2>3, <2>4, <2>5 DEF Next
<1>3. Inv /\ LostInv /\ [Next]_vars => LostInv'
  BY LostKept
<1>4. Spec => []Inv
  BY LinkInvariant DEF Inv
<1>5. QED
  BY <1>1, <1>2, <1>3, <1>4, PTL DEF Spec, Service!Spec, ImplementsService
=============================================================================
