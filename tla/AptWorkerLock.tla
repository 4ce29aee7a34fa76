--------------------------- MODULE AptWorkerLock ---------------------------
(***************************************************************************)
(* How the apt-worker processes decide who may run (try_lock and           *)
(* get_apt_worker_lock of apt-worker.cc).  A strong worker is the backend  *)
(* of the frontend, a weak one was started by the update notifier          *)
(* ("check-for-updates").  The lock is an fcntl lock on a file that names  *)
(* its holder; a strong worker that meets a weak holder terminates it, and *)
(* after too many attempts kills it and unlinks the file under it.         *)
(*                                                                         *)
(* open, fcntl, read, ftruncate, write, kill and unlink are steps of their *)
(* own: other workers run between any two of them.  Files are inodes: the  *)
(* name refers to one of them, a worker keeps the one it opened.           *)
(***************************************************************************)
EXTENDS Integers, Sequences

CONSTANTS
  Workers,          \* the apt-worker processes
  NoWorker,         \* none of them
  Strong,           \* those started with "backend"
  Stubborn,         \* those that may be stuck in the kernel for over a second
  MaxLockAttempts,  \* lock_attempts (5 in the code)
  MaxTermAttempts,  \* termination_attempts (5 in the code)
  MaxFiles          \* bound: lock files created in one behaviour

ASSUME LockAssumption ==
  /\ NoWorker \notin Workers
  /\ Strong \subseteq Workers
  /\ Stubborn \subseteq Workers
  /\ MaxLockAttempts \in Nat
  /\ MaxTermAttempts \in Nat
  /\ MaxFiles \in Nat \ {0}

VARIABLES
  pc,         \* where each process is
  fd,         \* lock_fd: the file a worker has opened last, 0 for none
  his,        \* the holder read from the file, NoWorker for an empty file
  attempts,   \* lock_attempts
  terms,      \* termination_attempts
  name,       \* the file APT_WORKER_LOCK refers to, 0 for none
  owner,      \* per file: who holds the fcntl lock
  text,       \* per file: who is named by its content
  signalled   \* workers that were sent SIGTERM or SIGKILL

fileVars == <<name, owner, text>>
lockVars == <<pc, fd, his, attempts, terms, fileVars, signalled>>

Stages == {"off", "open", "lock", "read", "judge", "sleep", "unlink",
           "truncate", "write", "holds", "gave_up", "ended"}

LockInit ==
  /\ pc = [w \in Workers |-> "off"]
  /\ fd = [w \in Workers |-> 0]
  /\ his = [w \in Workers |-> NoWorker]
  /\ attempts = [w \in Workers |-> 0]
  /\ terms = [w \in Workers |-> 0]
  /\ name = 0
  /\ owner = << >>
  /\ text = << >>
  /\ signalled = {}

Goto(w, at) == pc' = [pc EXCEPT ![w] = at]

\* The kernel releases the lock of a process that ends.
Release(w) == owner' = [f \in DOMAIN owner |->
                          IF owner[f] = w THEN NoWorker ELSE owner[f]]

\* A signalled process executes no instruction of its own any more.
Runs(w) == w \notin signalled

-----------------------------------------------------------------------------
(* One attempt: try_lock *)

Start(w) ==
  /\ pc[w] = "off"
  /\ Goto(w, "open")
  /\ UNCHANGED <<fd, his, attempts, terms, fileVars, signalled>>

\* open (file, O_RDWR | O_CREAT)
Open(w) ==
  /\ pc[w] = "open" /\ Runs(w)
  /\ IF name # 0
     THEN /\ fd' = [fd EXCEPT ![w] = name]
          /\ UNCHANGED fileVars
     ELSE /\ Len(owner) < MaxFiles
          /\ name' = Len(owner) + 1
          /\ owner' = Append(owner, NoWorker)
          /\ text' = Append(text, NoWorker)
          /\ fd' = [fd EXCEPT ![w] = name']
  /\ Goto(w, "lock")
  /\ UNCHANGED <<his, attempts, terms, signalled>>

\* Mutant: a read lock, which does not exclude the others.
SetSharedLock(w) ==
  /\ pc[w] = "lock" /\ Runs(w)
  /\ owner' = [owner EXCEPT ![fd[w]] = w]
  /\ Goto(w, "truncate")
  /\ UNCHANGED <<fd, his, attempts, terms, name, text, signalled>>

\* fcntl (F_SETLK)
SetLock(w) ==
  /\ pc[w] = "lock" /\ Runs(w)
  /\ IF owner[fd[w]] = NoWorker
     THEN owner' = [owner EXCEPT ![fd[w]] = w] /\ Goto(w, "truncate")
     ELSE owner' = owner /\ Goto(w, "read")
  /\ UNCHANGED <<fd, his, attempts, terms, name, text, signalled>>

ReadHis(w) ==
  /\ pc[w] = "read" /\ Runs(w)
  /\ his' = [his EXCEPT ![w] = text[fd[w]]]
  /\ Goto(w, "judge")
  /\ UNCHANGED <<fd, attempts, terms, fileVars, signalled>>

Truncate(w) ==
  /\ pc[w] = "truncate" /\ Runs(w)
  /\ text' = [text EXCEPT ![fd[w]] = NoWorker]
  /\ Goto(w, "write")
  /\ UNCHANGED <<fd, his, attempts, terms, name, owner, signalled>>

\* Mutant: lock_fd is closed when try_lock returns, which releases the lock.
WriteMineAndClose(w) ==
  /\ pc[w] = "write" /\ Runs(w)
  /\ text' = [text EXCEPT ![fd[w]] = w]
  /\ owner' = [owner EXCEPT ![fd[w]] = NoWorker]
  /\ Goto(w, "holds")
  /\ UNCHANGED <<fd, his, attempts, terms, name, signalled>>

WriteMine(w) ==
  /\ pc[w] = "write" /\ Runs(w)
  /\ text' = [text EXCEPT ![fd[w]] = w]
  /\ Goto(w, "holds")
  /\ UNCHANGED <<fd, his, attempts, terms, name, owner, signalled>>

-----------------------------------------------------------------------------
(* What the loop does when someone else has the lock: get_apt_worker_lock *)

Exit(w, at) == Goto(w, at) /\ Release(w)

CantParse(w) ==
  /\ pc[w] = "judge" /\ Runs(w)
  /\ his[w] = NoWorker
  /\ Exit(w, "gave_up")
  /\ UNCHANGED <<fd, his, attempts, terms, name, text, signalled>>

\* Mutant: the type of the holder is not looked at.
YieldsIfWeak(w) == w \notin Strong

\* Two weak or two strong workers, or a weak one against a strong one: the
\* holder is left alone.
Yields(w) == w \notin Strong \/ his[w] \in Strong

\* Mutant: the counter of the attempts is not advanced.
TryForever(w) ==
  /\ pc[w] = "judge" /\ Runs(w)
  /\ his[w] # NoWorker /\ Yields(w)
  /\ Goto(w, "sleep")
  /\ UNCHANGED <<fd, his, attempts, terms, fileVars, signalled>>

TryAgain(w) ==
  /\ pc[w] = "judge" /\ Runs(w)
  /\ his[w] # NoWorker /\ Yields(w)
  /\ attempts[w] < MaxLockAttempts
  /\ attempts' = [attempts EXCEPT ![w] = @ + 1]
  /\ Goto(w, "sleep")
  /\ UNCHANGED <<fd, his, terms, fileVars, signalled>>

TooWeak(w) ==
  /\ pc[w] = "judge" /\ Runs(w)
  /\ his[w] # NoWorker /\ Yields(w)
  /\ attempts[w] >= MaxLockAttempts
  /\ Exit(w, "gave_up")
  /\ UNCHANGED <<fd, his, attempts, terms, name, text, signalled>>

\* Mutant: the file is unlinked with the first SIGTERM already.
TerminateAndUnlink(w) ==
  /\ pc[w] = "judge" /\ Runs(w)
  /\ his[w] # NoWorker /\ ~Yields(w)
  /\ terms[w] < MaxTermAttempts
  /\ terms' = [terms EXCEPT ![w] = @ + 1]
  /\ signalled' = signalled \cup {his[w]}
  /\ Goto(w, "unlink")
  /\ UNCHANGED <<fd, his, attempts, fileVars>>

\* kill (his_pid, SIGTERM)
Terminate(w) ==
  /\ pc[w] = "judge" /\ Runs(w)
  /\ his[w] # NoWorker /\ ~Yields(w)
  /\ terms[w] < MaxTermAttempts
  /\ terms' = [terms EXCEPT ![w] = @ + 1]
  /\ signalled' = signalled \cup {his[w]}
  /\ Goto(w, "sleep")
  /\ UNCHANGED <<fd, his, attempts, fileVars>>

\* kill (his_pid, SIGKILL)
KillHard(w) ==
  /\ pc[w] = "judge" /\ Runs(w)
  /\ his[w] # NoWorker /\ ~Yields(w)
  /\ terms[w] >= MaxTermAttempts
  /\ signalled' = signalled \cup {his[w]}
  /\ Goto(w, "unlink")
  /\ UNCHANGED <<fd, his, attempts, terms, fileVars>>

Unlink(w) ==
  /\ pc[w] = "unlink" /\ Runs(w)
  /\ name' = 0
  /\ Goto(w, "sleep")
  /\ UNCHANGED <<fd, his, attempts, terms, owner, text, signalled>>

\* sleep (1).  A second is enough for a process that is not stuck in the kernel
\* to die of a signal, and to write the lock it has just got.
Wake(w) ==
  /\ pc[w] = "sleep" /\ Runs(w)
  /\ \A v \in Workers \ Stubborn :
       /\ v \in signalled => pc[v] \in {"gave_up", "ended"}
       /\ pc[v] \notin {"truncate", "write"}
  /\ Goto(w, "open")
  /\ UNCHANGED <<fd, his, attempts, terms, fileVars, signalled>>

-----------------------------------------------------------------------------
(* The ends of a process *)

\* A weak worker is done, or a backend loses its frontend.
Finish(w) ==
  /\ pc[w] = "holds" /\ Runs(w)
  /\ Exit(w, "ended")
  /\ UNCHANGED <<fd, his, attempts, terms, name, text, signalled>>

DieOfSignal(w) ==
  /\ w \in signalled
  /\ pc[w] \notin {"gave_up", "ended"}
  /\ Exit(w, "ended")
  /\ UNCHANGED <<fd, his, attempts, terms, name, text, signalled>>

GetLock(w) ==
  \/ Open(w) \/ SetLock(w) \/ ReadHis(w) \/ Truncate(w) \/ WriteMine(w)
  \/ CantParse(w) \/ TryAgain(w) \/ TooWeak(w)
  \/ Terminate(w) \/ KillHard(w) \/ Unlink(w) \/ Wake(w)

LockNext == \E w \in Workers : Start(w) \/ GetLock(w) \/ Finish(w) \/ DieOfSignal(w)

LockSpec == LockInit /\ [][LockNext]_lockVars

\* Processes are scheduled; signals are delivered in the end.  Nothing obliges
\* a worker to start, or a backend to end.
LockFairSpec ==
  LockSpec /\ \A w \in Workers : WF_lockVars(GetLock(w)) /\ WF_lockVars(DieOfSignal(w))

-----------------------------------------------------------------------------
(* Properties *)

LockFiles == 1 .. Len(owner)

\* Types; a worker that works on a file has opened it.
LockTypeOK ==
  /\ pc \in [Workers -> Stages]
  /\ fd \in [Workers -> 0 .. Len(owner)]
  /\ his \in [Workers -> Workers \cup {NoWorker}]
  /\ attempts \in [Workers -> 0 .. MaxLockAttempts]
  /\ terms \in [Workers -> 0 .. MaxTermAttempts]
  /\ name \in 0 .. Len(owner)
  /\ owner \in Seq(Workers \cup {NoWorker})
  /\ text \in Seq(Workers \cup {NoWorker})
  /\ Len(text) = Len(owner) /\ Len(owner) <= MaxFiles
  /\ signalled \subseteq Workers
  /\ \A w \in Workers :
       pc[w] \in {"lock", "read", "truncate", "write", "holds"} => fd[w] # 0

Holds(w) == pc[w] = "holds" /\ Runs(w)

\* At most one worker runs past get_apt_worker_lock at a time: the doc of
\* try_lock ("If this fails because someone else has the lock") and PAST:333.
OneHolder == \A v, w \in Workers : Holds(v) /\ Holds(w) => v = w

\* As long as no lock file has been unlinked (KillHard), two workers never get
\* past get_apt_worker_lock together, however slow any of them is.
OneHolderUntilUnlink == Len(owner) <= 1 => OneHolder

\* A worker that has passed F_SETLK owns the file it opened, and it alone
\* decides what the file says (try_lock).
OwnersOwn ==
  \A w \in Workers :
    /\ pc[w] \in {"truncate", "write", "holds"} => owner[fd[w]] = w
    /\ pc[w] = "write" => text[fd[w]] = NoWorker
    /\ pc[w] = "holds" => text[fd[w]] = w

\* Stale content names no bystander: whoever is named by a file, or was read
\* from one, has held the lock, and either holds it still or has ended.
NamedHeldTheLock ==
  LET HeldIt(v) == v # NoWorker => pc[v] \in {"holds", "ended"} IN
  /\ \A f \in LockFiles : HeldIt(text[f])
  /\ \A w \in Workers : HeldIt(his[w])

\* Only a weak worker that got the lock is ever signalled (kill (his_pid)): no
\* backend is, and no worker that is itself still waiting for the lock.
OnlyWeakHoldersSignalled ==
  \A w \in signalled : w \notin Strong /\ pc[w] \in {"holds", "ended"}

\* The inductive invariant of get_apt_worker_lock.
LockInv == LockTypeOK /\ OwnersOwn /\ NamedHeldTheLock /\ OnlyWeakHoldersSignalled

\* Every worker that asks for the lock gets it, gives up or is terminated.
EveryWorkerDecides ==
  \A w \in Workers : pc[w] = "open" ~> pc[w] \in {"holds", "gave_up", "ended"}
=============================================================================
