--------------------------- MODULE AptWorkerLink ---------------------------
(***************************************************************************)
(* The link between the Application Manager (the frontend, one GLib main   *)
(* loop: apt-worker-client.cc) and its apt-worker backend process          *)
(* (apt-worker.cc, "COMMUNICATING WITH THE FRONTEND" and the command       *)
(* dispatcher).                                                            *)
(*                                                                         *)
(* They share three fifos: requests (toPipe), responses and status reports *)
(* (fromPipe), and the cancel fifo (cancelPipe).  The frontend queues the  *)
(* calls its flows make and keeps at most one of them at the backend.  The *)
(* backend may die at any moment, the frontend may exit at any moment.     *)
(*                                                                         *)
(* Payloads are abstracted to what the link tells apart: a call has an     *)
(* identity, a sequence number and a kind (how often the backend polls the *)
(* cancel fifo while it executes the call).                                *)
(***************************************************************************)
EXTENDS Integers, Sequences

CONSTANTS
  MaxCalls,        \* bound: calls made by the flows in one behaviour
  MaxCancelBytes,  \* bound: unread bytes in the cancel fifo
  PipeCapacity,    \* unread messages the response fifo holds
  DownloadToMMC    \* the backend's flag_download_packages_to_mmc

ASSUME LinkAssumption ==
  /\ MaxCalls \in Nat
  /\ MaxCancelBytes \in Nat
  /\ PipeCapacity \in Nat \ {0}
  /\ DownloadToMMC \in BOOLEAN

VARIABLES
  client,      \* the frontend process: "up", "blocked" in open (), "exited"
  started,     \* apt_worker_started
  ready,       \* apt_worker_ready: the request and cancel fifos are open
  running,     \* apt_worker_is_running (): apt_worker_in_fd is valid
  handler,     \* the response handler is installed (apt_source_id)
  watched,     \* the child watch has fired
  pending,     \* pending_calls
  active,      \* active_call
  nextId,      \* identity of the next call of a flow
  nextSeq,     \* next_seq ()
  done,        \* how often done_callback has been called, per call
  reply,       \* what it was called with last
  toPipe, fromPipe, cancelPipe,
  wpc,         \* where the backend process is
  cur,         \* the request the backend is handling
  rounds       \* polling rounds left before the response is sent

clientVars == <<client, started, ready, running, handler, watched, pending,
                active, nextId, nextSeq, done, reply>>
pipeVars   == <<toPipe, fromPipe, cancelPipe>>
workerVars == <<wpc, cur, rounds>>
vars       == <<clientVars, pipeVars, workerVars>>

-----------------------------------------------------------------------------
(* Calls, messages, replies *)

CallIds == 1 .. MaxCalls

\* "plain" never polls the cancel fifo, "list" polls it in one loop, and
\* "download" runs one or more fetches that each poll it.
Kinds == {"plain", "list", "download"}

Call == [id : 0 .. MaxCalls, seq : -1 .. MaxCalls, kind : Kinds \cup {"exit"}]

\* active_call == NULL.
NoCall == [id |-> 0, seq |-> -1, kind |-> "plain"]

\* Messages of the backend.  APTCMD_STATUS reports carry sequence number -1;
\* "answers" is the call the response was computed for, which the real
\* message does not carry: it is there to state what a reply belongs to.
Message == [type : {"status", "response"}, seq : -1 .. MaxCalls,
            answers : 0 .. MaxCalls]
StatusMsg   == [type |-> "status", seq |-> -1, answers |-> 0]
Response(c) == [type |-> "response", seq |-> c.seq, answers |-> c.id]

\* What done_callback receives: nothing yet, NULL, or the response that was
\* computed for a call.
NotDone   == 0
NoDecoder == -1

Alive == wpc \notin {"unborn", "dead"}

\* One done_callback with value v for call a (if there is one), and one with
\* NULL for each call in S.
Complete(a, v, S) ==
  /\ done'  = [i \in CallIds |-> IF i = a \/ i \in S THEN done[i] + 1 ELSE done[i]]
  /\ reply' = [i \in CallIds |-> IF i = a THEN v
                               ELSE IF i \in S THEN NoDecoder ELSE reply[i]]

IdsOf(s) == {s[i].id : i \in 1 .. Len(s)}

-----------------------------------------------------------------------------
(* Initial state: no backend yet; it is started by the first call. *)

Init ==
  /\ client = "up"
  /\ started = FALSE
  /\ ready = FALSE
  /\ running = FALSE
  /\ handler = FALSE
  /\ watched = FALSE
  /\ pending = <<>>
  /\ active = NoCall
  /\ nextId = 1
  /\ nextSeq = 0
  /\ done = [i \in CallIds |-> 0]
  /\ reply = [i \in CallIds |-> NotDone]
  /\ toPipe = <<>>
  /\ fromPipe = <<>>
  /\ cancelPipe = <<>>
  /\ wpc = "unborn"
  /\ cur = NoCall
  /\ rounds = 0

-----------------------------------------------------------------------------
(* Frontend *)

\* The condition of the loop in maybe_send_one_worker_call ().
Busy(act) == act # NoCall

\* The queue stays as it is.
Hold(act, q, id, seq) ==
  /\ active' = act
  /\ pending' = q
  /\ nextId' = id
  /\ nextSeq' = seq
  /\ UNCHANGED toPipe

\* Mutant: the calls are put in front of the queue.
SendNewest(q, id, seq) ==
  /\ active' = q[Len(q)]
  /\ pending' = SubSeq(q, 1, Len(q) - 1)
  /\ toPipe' = Append(toPipe, q[Len(q)])
  /\ nextId' = id
  /\ nextSeq' = seq

\* get_next_pending_worker_call () and send_apt_worker_request ().
SendOldest(q, id, seq) ==
  /\ active' = Head(q)
  /\ pending' = Tail(q)
  /\ toPipe' = Append(toPipe, Head(q))
  /\ nextId' = id
  /\ nextSeq' = seq

\* maybe_send_one_worker_call () with active_call = act and queue q, after call
\* a was answered with v; id and seq are the counters at that point.  Nothing
\* is sent before the fifo is open or while a call is active.  Otherwise the
\* oldest call is written and becomes active.  When the backend is dead the
\* write fails: the call is completed with NULL and the loop goes on with the
\* next one, among them the n calls that the completed flows make in turn.
MaybeSendOneWorkerCall(act, q, id, seq, a, v) ==
  \/ /\ ~ready' \/ Busy(act) \/ q = <<>>
     /\ Hold(act, q, id, seq)
     /\ Complete(a, v, {})
  \/ /\ ready' /\ ~Busy(act) /\ q # <<>> /\ wpc # "dead"
     /\ SendOldest(q, id, seq)
     /\ Complete(a, v, {})
  \/ /\ ready' /\ ~Busy(act) /\ q # <<>> /\ wpc = "dead"
     /\ \E n \in 0 .. (MaxCalls + 1 - id) :
          /\ Hold(act, <<>>, id + n, seq + n)
          /\ Complete(a, v, IdsOf(q) \cup (id .. (id + n - 1)))

\* call_apt_worker () by the first call of a session, when start_apt_worker ()
\* fails (mkfifo or spawn): done_callback is called with NULL at once and the
\* next call tries again.
CallStartFails ==
  /\ client = "up" /\ ~started
  /\ nextId <= MaxCalls
  /\ Complete(nextId, NoDecoder, {})
  /\ nextId' = nextId + 1
  /\ UNCHANGED <<client, started, ready, running, handler, watched, pending,
                 active, nextSeq, pipeVars, workerVars>>

\* call_apt_worker () after the backend was lost: it is never restarted, and
\* every later call is completed with NULL at once.
CallRefused ==
  /\ client = "up" /\ started /\ ~running
  /\ nextId <= MaxCalls
  /\ Complete(nextId, NoDecoder, {})
  /\ nextId' = nextId + 1
  /\ UNCHANGED <<client, started, ready, running, handler, watched, pending,
                 active, nextSeq, pipeVars, workerVars>>

\* start_apt_worker () succeeds: the child is spawned, the response fifo is
\* open for reading and its handler is installed.
StartAptWorker ==
  /\ ~started
  /\ started' = TRUE
  /\ running' = TRUE
  /\ handler' = TRUE
  /\ wpc' = "spawned"

\* call_apt_worker (): the call is appended to the queue, which starts the
\* backend if this is the first call, and is sent if nothing else is active.
CallQueued(kind) ==
  /\ client = "up"
  /\ nextId <= MaxCalls
  /\ \/ StartAptWorker
     \/ started /\ running /\ UNCHANGED <<started, running, handler, wpc>>
  /\ UNCHANGED <<client, ready, watched, fromPipe, cancelPipe, cur, rounds>>
  /\ MaybeSendOneWorkerCall(active,
       Append(pending, [id |-> nextId, seq |-> nextSeq, kind |-> kind]),
       nextId + 1, nextSeq + 1, 0, NotDone)

\* Mutant: apt_worker_ready is set first, and nothing is sent afterwards.
FinishStartupEarly ==
  /\ client = "up" /\ handler /\ running /\ ~ready
  /\ fromPipe # <<>>
  /\ fromPipe' = Tail(fromPipe)
  /\ ready' = TRUE
  /\ client' = IF Alive THEN client ELSE "blocked"
  /\ UNCHANGED <<started, running, handler, watched, cancelPipe, workerVars,
                 pending, active, nextId, nextSeq, done, reply, toPipe>>

\* handle_one_apt_worker_response () for the first status report, which
\* completes the startup: finish_apt_worker_startup () opens the request and
\* cancel fifos and sends the oldest call.  Nobody has the reading end of
\* these fifos any more when the backend has died since it wrote the report,
\* and then open () blocks the frontend for good.
FinishAptWorkerStartup ==
  /\ client = "up" /\ handler /\ running /\ ~ready
  /\ fromPipe # <<>>
  /\ fromPipe' = Tail(fromPipe)
  /\ UNCHANGED <<started, running, handler, watched, cancelPipe, workerVars>>
  /\ IF Alive
       THEN /\ ready' = TRUE
            /\ UNCHANGED client
            /\ MaybeSendOneWorkerCall(active, pending, nextId, nextSeq, 0, NotDone)
       ELSE /\ client' = "blocked"
            /\ UNCHANGED <<ready, pending, active, nextId, nextSeq, done, reply,
                           toPipe>>

\* handle_one_apt_worker_response () for any later status report.
HandleStatus ==
  /\ client = "up" /\ handler /\ running /\ ready
  /\ fromPipe # <<>> /\ Head(fromPipe).type = "status"
  /\ fromPipe' = Tail(fromPipe)
  /\ UNCHANGED <<clientVars, toPipe, cancelPipe, workerVars>>

\* handle_one_apt_worker_response () for a response.  A response to anything
\* but the active call is ignored.  Otherwise the active call is completed
\* with it; its done_callback may make a further call (as the SET_ENV chains
\* do) before the next request is sent.
HandleResponse ==
  /\ client = "up" /\ handler /\ running /\ ready
  /\ fromPipe # <<>> /\ Head(fromPipe).type = "response"
  /\ fromPipe' = Tail(fromPipe)
  /\ UNCHANGED <<client, started, ready, running, handler, watched, cancelPipe,
                 workerVars>>
  /\ \/ /\ active = NoCall \/ active.seq # Head(fromPipe).seq
        /\ UNCHANGED <<active, pending, nextId, nextSeq, done, reply, toPipe>>
     \/ /\ active # NoCall /\ active.seq = Head(fromPipe).seq
        /\ MaybeSendOneWorkerCall(NoCall, pending, nextId, nextSeq,
                                  active.id, Head(fromPipe).answers)
     \/ /\ active # NoCall /\ active.seq = Head(fromPipe).seq
        /\ nextId <= MaxCalls
        /\ \E kind \in Kinds :
             MaybeSendOneWorkerCall(NoCall,
               Append(pending, [id |-> nextId, seq |-> nextSeq, kind |-> kind]),
               nextId + 1, nextSeq + 1, active.id, Head(fromPipe).answers)

\* notice_apt_worker_failure (): the descriptors are invalidated first, so the
\* n calls that the completed flows make in turn are refused; the active and
\* all queued calls are completed with NULL.
NoticeAptWorkerFailure ==
  /\ running' = FALSE
  /\ \E n \in 0 .. (MaxCalls + 1 - nextId) :
       /\ nextId' = nextId + n
       /\ Complete(0, NotDone,
            {active.id} \cup IdsOf(pending) \cup (nextId .. (nextId + n - 1)))
  /\ active' = NoCall
  /\ pending' = <<>>
  /\ UNCHANGED <<client, started, ready, nextSeq, pipeVars, workerVars>>

\* handle_apt_worker () when must_read () fails: at end of file, or because
\* the descriptor has been invalidated by the child watch.  The handler is
\* removed.  (End of file is not reported for a fifo no writer ever opened.)
HandleEOF ==
  /\ client = "up" /\ handler
  /\ wpc = "dead"
  /\ ~running \/ (ready /\ fromPipe = <<>>)
  /\ handler' = FALSE
  /\ UNCHANGED watched
  /\ NoticeAptWorkerFailure

\* apt_worker_watch (): the child watch can be dispatched before the last
\* messages of the backend have been read.
AptWorkerWatch ==
  /\ client = "up" /\ wpc = "dead" /\ ~watched
  /\ watched' = TRUE
  /\ UNCHANGED handler
  /\ NoticeAptWorkerFailure

\* cancel_apt_worker (): one byte.  The model remembers which call was active
\* when it was written; the real byte carries nothing.
CancelAptWorker ==
  /\ client = "up" /\ ready /\ running
  /\ Alive
  /\ Len(cancelPipe) < MaxCancelBytes
  /\ cancelPipe' = Append(cancelPipe, active.id)
  /\ UNCHANGED <<clientVars, toPipe, fromPipe, workerVars>>

\* The frontend exits.  exit_apt_worker () makes one last call, EXIT, which
\* starts a backend if there was none and is written only if no call is
\* active; cancel_apt_worker () then sends a cancel byte.
FrontendExit ==
  /\ client = "up"
  /\ client' = "exited"
  /\ \/ StartAptWorker
     \/ UNCHANGED <<started, running, handler, wpc>>
  /\ toPipe' = IF ready /\ running /\ active = NoCall /\ Alive
                 THEN Append(toPipe, [id |-> 0, seq |-> nextSeq, kind |-> "exit"])
                 ELSE toPipe
  /\ cancelPipe' = IF ready /\ running /\ Alive
                     THEN Append(cancelPipe, active.id) ELSE cancelPipe
  /\ UNCHANGED <<ready, watched, pending, active, nextId, nextSeq, done, reply,
                 fromPipe, cur, rounds>>

-----------------------------------------------------------------------------
(* Backend *)

\* main (): the fifos are opened, which needs the frontend's reading end, and
\* a first status report tells the frontend so.
WorkerOpenFifos ==
  /\ wpc = "spawned" /\ client # "exited"
  /\ fromPipe' = Append(fromPipe, StatusMsg)
  /\ wpc' = "waiting"
  /\ UNCHANGED <<clientVars, toPipe, cancelPipe, cur, rounds>>

\* main (): block_for_read () returns when there is a request to read, or when
\* the frontend has opened the fifo and closed it again.  Then the lock is
\* taken and misc_init () builds the package cache.
WorkerStartup ==
  /\ wpc = "waiting"
  /\ toPipe # <<>> \/ (ready /\ client = "exited")
  /\ wpc' = "idle"
  /\ UNCHANGED <<clientVars, pipeVars, cur, rounds>>

\* handle_request (): the header and the body are read.
ReadRequest ==
  /\ wpc = "idle" /\ toPipe # <<>>
  /\ cur' = Head(toPipe)
  /\ toPipe' = Tail(toPipe)
  /\ wpc' = "read"
  /\ UNCHANGED <<clientVars, fromPipe, cancelPipe, rounds>>

\* Mutant: must_read () tries again.
ReadEOFAgain ==
  /\ wpc = "idle" /\ toPipe = <<>> /\ client = "exited"
  /\ UNCHANGED vars

\* must_read (): the backend exits on end of file.
ReadEOF ==
  /\ wpc = "idle" /\ toPipe = <<>> /\ client = "exited"
  /\ wpc' = "dead"
  /\ UNCHANGED <<clientVars, pipeVars, cur, rounds>>

\* How many polling rounds a request may have: none for a plain command, at
\* most one (the loop over all packages, one fetch of all lists) for a package
\* list or an update, and for a download the fetches of cmd_download_package:
\* the memory cards if the flag is set, /home if it is writable, and the
\* default directory.
PollRounds(kind) ==
  CASE kind = "list" -> 0 .. 1
    [] kind = "download" -> 0 .. (IF DownloadToMMC THEN 4 ELSE 2)
    [] OTHER -> {0}

\* Mutant: the cancel fifo is not drained.
DispatchWithoutDrain ==
  /\ wpc = "read"
  /\ wpc' = IF cur.kind = "exit" THEN "dead" ELSE "busy"
  /\ rounds' \in PollRounds(cur.kind)
  /\ UNCHANGED <<clientVars, pipeVars, cur>>

\* handle_request (): drain_fd (cancel_fd) and the dispatch of the command.
\* EXIT ends the process without a response.
DrainAndDispatch ==
  /\ wpc = "read"
  /\ cancelPipe' = <<>>
  /\ wpc' = IF cur.kind = "exit" THEN "dead" ELSE "busy"
  /\ rounds' \in PollRounds(cur.kind)
  /\ UNCHANGED <<clientVars, toPipe, fromPipe, cur>>

\* A status report while a command runs.  The write waits for room in the fifo,
\* and kills the process when there is no reader any more.
SendStatus ==
  /\ wpc = "busy"
  /\ \/ /\ client # "exited"
        /\ Len(fromPipe) < PipeCapacity
        /\ fromPipe' = Append(fromPipe, StatusMsg)
        /\ UNCHANGED wpc
     \/ /\ client = "exited"
        /\ wpc' = "dead"
        /\ UNCHANGED fromPipe
  /\ UNCHANGED <<clientVars, toPipe, cancelPipe, cur, rounds>>

\* DownloadStatus::Pulse and the loop of cmd_get_package_list: a byte can be
\* read from the cancel fifo, which ends the round.  Without the memory card
\* flag cmd_download_package goes on with its next fetch whatever the result
\* of this one was.
PollCancelled ==
  /\ wpc = "busy" /\ rounds > 0
  /\ cancelPipe # <<>>
  /\ cancelPipe' = Tail(cancelPipe)
  /\ rounds' = IF cur.kind = "download" /\ ~DownloadToMMC THEN rounds - 1 ELSE 0
  /\ UNCHANGED <<clientVars, toPipe, fromPipe, wpc, cur>>

\* A round ends by itself (finished, failed or out of space).
RoundEnds ==
  /\ wpc = "busy" /\ rounds > 0
  /\ rounds' = rounds - 1
  /\ UNCHANGED <<clientVars, pipeVars, wpc, cur>>

\* handle_request (): send_response_raw ().  If the command asked for it, the
\* package cache is then rebuilt before the next request is read.
SendResponse ==
  /\ wpc = "busy" /\ rounds = 0
  /\ \/ /\ client # "exited"
        /\ Len(fromPipe) < PipeCapacity
        /\ fromPipe' = Append(fromPipe, Response(cur))
        /\ wpc' \in {"idle", "reinit"}
     \/ /\ client = "exited"
        /\ wpc' = "dead"
        /\ UNCHANGED fromPipe
  /\ UNCHANGED <<clientVars, toPipe, cancelPipe, cur, rounds>>

CacheInitAfterRequest ==
  /\ wpc = "reinit"
  /\ wpc' = "idle"
  /\ UNCHANGED <<clientVars, pipeVars, cur, rounds>>

\* The backend dies: exit (1) when the lock is held or a descriptor fails, a
\* signal, a crash in a library.
WorkerDies ==
  /\ Alive
  /\ wpc' = "dead"
  /\ UNCHANGED <<clientVars, pipeVars, cur, rounds>>

-----------------------------------------------------------------------------
WorkerProgress ==
  \/ WorkerOpenFifos \/ WorkerStartup \/ ReadRequest \/ ReadEOF
  \/ DrainAndDispatch \/ PollCancelled \/ RoundEnds \/ CacheInitAfterRequest

Handlers ==
  \/ FinishAptWorkerStartup \/ HandleStatus \/ HandleResponse
  \/ HandleEOF \/ AptWorkerWatch

User ==
  \/ CallStartFails \/ CallRefused
  \/ \E kind \in Kinds : CallQueued(kind)
  \/ CancelAptWorker \/ FrontendExit

Next == User \/ Handlers \/ WorkerProgress \/ SendStatus \/ SendResponse \/ WorkerDies

Spec == Init /\ [][Next]_vars

\* The main loop dispatches its sources, and a command of the backend ends: it
\* reports its status finitely often, so the write of the response, which
\* waits for room in the fifo, succeeds if there is room again and again.
Fairness ==
  /\ WF_vars(WorkerProgress)
  /\ SF_vars(SendResponse)
  /\ WF_vars(Handlers)

FairSpec == Spec /\ Fairness

-----------------------------------------------------------------------------
(* Properties *)

CallsTypeOK ==
  /\ pending \in Seq(Call)
  /\ active \in Call
  /\ nextId \in 1 .. (MaxCalls + 1)
  /\ nextSeq \in 0 .. MaxCalls
  /\ done \in [CallIds -> Nat]
  /\ reply \in [CallIds -> -1 .. MaxCalls]
  /\ toPipe \in Seq(Call)

ProcessTypeOK ==
  /\ client \in {"up", "blocked", "exited"}
  /\ {started, ready, running, handler, watched} \subseteq BOOLEAN
  /\ fromPipe \in Seq(Message)
  /\ cancelPipe \in Seq(0 .. MaxCalls)
  /\ wpc \in {"unborn", "spawned", "waiting", "idle", "read", "busy", "reinit",
              "dead"}
  /\ cur \in Call
  /\ rounds \in Nat

TypeOK == CallsTypeOK /\ ProcessTypeOK

\* A cancel byte that the backend can poll while it executes a request was
\* written while that very request was the frontend's active call: the button
\* press for one operation never aborts a later one, because handle_request ()
\* drains the cancel fifo after it has read a request and the next request is
\* only sent once the response has been handled.
CancelHitsOwner ==
  wpc = "busy" => \A i \in 1 .. Len(cancelPipe) : cancelPipe[i] = cur.id

\* No response is ever dropped as "out of sequence": a response that the
\* frontend is about to read belongs to its active call.
NoStrayReply ==
  /\ running
  /\ fromPipe # <<>> /\ Head(fromPipe).type = "response"
  => active # NoCall /\ Head(fromPipe) = Response(active)

\* A done_callback runs at most once, even when the failure of the backend is
\* noticed by both the response handler and the child watch while calls are
\* queued, active or made by the callbacks themselves.
AtMostOnce == \A i \in CallIds : done[i] <= 1

\* A done_callback gets NULL or the response computed for its own request.
AnswerMatches == \A i \in CallIds : reply[i] \in {NotDone, NoDecoder, i}

\* The backend has at most one request, and reads the next one only when the
\* previous response has been taken off the fifo ("No new request is read until
\* the response to the current one has been completely sent").
OneRequestAtBackend ==
  running /\ wpc \in {"read", "busy"} /\ cur.kind # "exit" =>
    /\ toPipe = <<>>
    /\ cur = active
    /\ \A i \in 1 .. Len(fromPipe) : fromPipe[i].type = "status"

\* A call only waits in the queue for the startup or for the active call: none
\* is left behind when the backend is idle or its loss has been noticed.
QueueWaitsForActive ==
  ready \/ (started /\ ~running) => active # NoCall \/ pending = <<>>

\* The frontend hangs in open () only if the backend died after it had
\* announced itself and before the frontend opened the request fifo.
BlockedOnlyAtStartup == client = "blocked" => ~ready /\ wpc = "dead"

\* Every call is eventually completed, unless the frontend exits or hangs.
Issued(i) == i < nextId
EveryCallCompleted ==
  \A i \in CallIds : Issued(i) ~> (done[i] = 1 \/ client # "up")

\* When the frontend exits after the startup was completed, the backend ends
\* too: by EXIT, by end of file, or when it writes to the closed fifo.
BackendEndsAfterStartup == (client = "exited" /\ ready) ~> wpc = "dead"

\* Any exit of the backend is noticed as a failure by a frontend that does not
\* itself exit.
ExitIsNoticed == wpc = "dead" ~> (~running \/ client = "exited")

-----------------------------------------------------------------------------
(* The inductive invariant behind the safety properties.  The active call is  *)
(* a token: its request is in the request fifo, or at the backend, or its     *)
(* response is the last message of the response fifo, and never two of these. *)

\* How far the startup is.
StartupInv ==
  /\ started <=> wpc # "unborn"
  /\ running \/ ready => started
  /\ started /\ ~running => wpc = "dead"
  /\ wpc \in {"idle", "read", "busy", "reinit"} => ready
  /\ toPipe # <<>> => ready
  /\ ~ready => active = NoCall
  /\ ~started => pending = <<>>
  /\ wpc \in {"unborn", "spawned"} => ~ready /\ fromPipe = <<>>

\* Where the token is.
RequestInv ==
  running /\ toPipe # <<>> =>
    /\ Len(toPipe) = 1
    /\ wpc \notin {"read", "busy"}
    /\ \/ active # NoCall /\ toPipe[1] = active
       \/ client = "exited" /\ active = NoCall /\ toPipe[1].kind = "exit"

BackendInv ==
  running /\ wpc \in {"read", "busy"} =>
    \/ active # NoCall /\ cur = active /\ cur.kind # "exit"
    \/ client = "exited" /\ active = NoCall /\ cur.kind = "exit" /\ wpc = "read"

ResponseInv ==
  running =>
    \A i \in 1 .. Len(fromPipe) : fromPipe[i].type = "response" =>
      /\ i = Len(fromPipe)
      /\ active # NoCall /\ fromPipe[i] = Response(active)
      /\ toPipe = <<>>
      /\ wpc \notin {"read", "busy"}

\* Calls that wait have been made, are in order, and have not been completed.
CallsInv ==
  /\ nextSeq < nextId
  /\ active # NoCall =>
       active.id \in 1 .. (nextId - 1) /\ active.kind # "exit" /\ done[active.id] = 0
  /\ \A i \in 1 .. Len(pending) :
       /\ pending[i].id \in 1 .. (nextId - 1)
       /\ pending[i].kind # "exit"
       /\ done[pending[i].id] = 0
       /\ active # NoCall => active.id < pending[i].id
  /\ \A i, j \in 1 .. Len(pending) : i < j => pending[i].id < pending[j].id
  /\ \A i \in CallIds : i >= nextId => done[i] = 0

LinkInv ==
  /\ StartupInv /\ RequestInv /\ BackendInv /\ ResponseInv /\ CallsInv
  /\ CancelHitsOwner /\ AtMostOnce /\ AnswerMatches
  /\ QueueWaitsForActive /\ BlockedOnlyAtStartup

\* The link implements the service call_apt_worker () promises: the oldest
\* outstanding call is the active one, if there is one.
OutstandingIds ==
  LET ids(s) == [i \in 1 .. Len(s) |-> s[i].id]
  IN  ids(IF active = NoCall THEN pending ELSE <<active>> \o pending)

Service == INSTANCE AptWorkerService
             WITH outstanding <- OutstandingIds, next <- nextId
ImplementsService == Service!Spec

============================================================================
