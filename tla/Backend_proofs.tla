-------------------------- MODULE Backend_proofs --------------------------
(***************************************************************************)
(* What the processes of apt-worker do to the files they share: the lock,  *)
(* the lists of packages, and the record of the current operation.  The    *)
(* three machines share no variable; their theorems rest on each other     *)
(* only in the text: the kills of PackageLists are those of AptWorkerLock. *)
(***************************************************************************)
EXTENDS AptWorkerLock, PackageLists, OperationJournal, TLAPS

-----------------------------------------------------------------------------
(* The lock finds one holder, and signals nobody but a weak one, for any set of
   workers *)

\* A function from the files to owners is a sequence again.
LEMMA ReleaseType ==
  ASSUME LockTypeOK, NEW w \in Workers, Release(w)
  PROVE  /\ owner' \in Seq(Workers \cup {NoWorker})
         /\ Len(owner') = Len(owner)
         /\ \A f \in 1 .. Len(owner) :
              owner'[f] = IF owner[f] = w THEN NoWorker ELSE owner[f]
<1> DEFINE g == [f \in 1 .. Len(owner) |-> IF owner[f] = w THEN NoWorker ELSE owner[f]]
<1>1. owner' = g /\ Len(owner) \in Nat
  BY DEF Release, LockTypeOK
<1>2. g \in [1 .. Len(owner) -> Workers \cup {NoWorker}]
  BY DEF LockTypeOK
<1>3. g \in Seq(Workers \cup {NoWorker}) /\ Len(g) = Len(owner)
  BY <1>1, <1>2
<1>4. QED
  BY <1>1, <1>3

\* The end of a process, in any way, keeps the invariant.
LEMMA ExitKeeps ==
  ASSUME LockInv, NEW w \in Workers, NEW at \in {"gave_up", "ended"},
         Exit(w, at), at = "gave_up" => pc[w] = "judge" /\ w \notin signalled,
         UNCHANGED <<fd, his, attempts, terms, name, text, signalled>>
  PROVE  LockInv'
<1> USE DEF LockInv
<1>1. /\ owner' \in Seq(Workers \cup {NoWorker}) /\ Len(owner') = Len(owner)
      /\ \A f \in 1 .. Len(owner) :
           owner'[f] = IF owner[f] = w THEN NoWorker ELSE owner[f]
  BY ReleaseType DEF Exit
<1>2. pc' = [pc EXCEPT ![w] = at] /\ pc \in [Workers -> Stages]
  BY DEF Exit, Goto, LockTypeOK
<1>3. LockTypeOK'
  BY <1>1, <1>2 DEF LockTypeOK, Stages
<1>4. OwnersOwn'
  <2>1. SUFFICES ASSUME NEW v \in Workers
                 PROVE  /\ pc'[v] \in {"truncate", "write", "holds"} => owner'[fd[v]] = v
                        /\ pc'[v] = "write" => text[fd[v]] = NoWorker
                        /\ pc'[v] = "holds" => text[fd[v]] = v
    BY DEF OwnersOwn
  <2>2. CASE v = w
    BY <1>2, <2>2
  <2>3. CASE v # w
    <3>1. pc'[v] = pc[v]
      BY <1>2, <2>3
    <3>2. ASSUME pc[v] \in {"truncate", "write", "holds"} PROVE owner'[fd[v]] = v
      <4>1. fd[v] \in 1 .. Len(owner) /\ owner[fd[v]] = v
        BY <3>2 DEF LockTypeOK, OwnersOwn
      <4>2. QED
        BY <1>1, <2>3, <4>1
    <3>3. QED
      BY <3>1, <3>2 DEF OwnersOwn
  <2>4. QED
    BY <2>2, <2>3
<1>5. NamedHeldTheLock'
  <2>1. \A v \in Workers : pc[v] \in {"holds", "ended"} => pc'[v] \in {"holds", "ended"}
    BY <1>2
  <2>2. /\ \A f \in LockFiles : text[f] \in Workers \cup {NoWorker}
        /\ \A v \in Workers : his[v] \in Workers \cup {NoWorker}
        /\ LockFiles' = LockFiles
    BY <1>1 DEF LockTypeOK, LockFiles
  <2>3. QED
    BY <2>1, <2>2 DEF NamedHeldTheLock
<1>6. OnlyWeakHoldersSignalled'
  BY <1>2 DEF OnlyWeakHoldersSignalled, LockTypeOK
<1>7. QED
  BY <1>3, <1>4, <1>5, <1>6

\* A step of one worker that moves no file and signals nobody.
LEMMA WaitingKeeps ==
  ASSUME LockInv, NEW w \in Workers, NEW at \in Stages, Goto(w, at),
         pc[w] \in {"off", "judge", "unlink", "sleep"},
         at \in {"open", "sleep"},
         attempts' \in [Workers -> 0 .. MaxLockAttempts],
         name' \in {0, name},
         UNCHANGED <<fd, his, terms, owner, text, signalled>>
  PROVE  LockInv'
<1> USE DEF LockInv
<1>1. pc' = [pc EXCEPT ![w] = at] /\ pc \in [Workers -> Stages]
  BY DEF Goto, LockTypeOK
<1>2. LockTypeOK'
  BY <1>1 DEF LockTypeOK, Stages
<1>3. OwnersOwn'
  BY <1>1 DEF OwnersOwn, LockTypeOK
<1>4. NamedHeldTheLock'
  BY <1>1 DEF NamedHeldTheLock, LockTypeOK, LockFiles
<1>5. OnlyWeakHoldersSignalled'
  BY <1>1 DEF OnlyWeakHoldersSignalled, LockTypeOK
<1>6. QED
  BY <1>2, <1>3, <1>4, <1>5

LEMMA OpenKeeps ==
  ASSUME LockInv, NEW w \in Workers, Open(w)
  PROVE  LockInv'
<1> USE DEF LockInv
<1>1. pc' = [pc EXCEPT ![w] = "lock"] /\ pc \in [Workers -> Stages] /\ pc[w] = "open"
  BY DEF Open, Goto, LockTypeOK
<1>2. \/ owner' = owner /\ text' = text
      \/ /\ owner' = Append(owner, NoWorker) /\ text' = Append(text, NoWorker)
         /\ Len(owner) < MaxFiles
  BY DEF Open, fileVars
<1>3. /\ owner' \in Seq(Workers \cup {NoWorker}) /\ text' \in Seq(Workers \cup {NoWorker})
      /\ Len(owner') \in Nat /\ Len(owner') >= Len(owner) /\ Len(text') = Len(owner')
      /\ Len(owner') <= MaxFiles
      /\ \A f \in 1 .. Len(owner) : owner'[f] = owner[f] /\ text'[f] = text[f]
      /\ \A f \in 1 .. Len(owner') : f > Len(owner) => text'[f] = NoWorker
  <2>1. /\ owner \in Seq(Workers \cup {NoWorker}) /\ text \in Seq(Workers \cup {NoWorker})
        /\ Len(text) = Len(owner) /\ Len(owner) <= MaxFiles
        /\ Len(owner) \in Nat /\ MaxFiles \in Nat
    BY LockAssumption DEF LockTypeOK
  <2>2. CASE owner' = owner /\ text' = text
    BY <2>1, <2>2
  <2>3. CASE /\ owner' = Append(owner, NoWorker) /\ text' = Append(text, NoWorker)
             /\ Len(owner) < MaxFiles
    BY <2>1, <2>3
  <2>4. QED
    BY <1>2, <2>2, <2>3
<1>4. /\ name' \in 1 .. Len(owner') /\ fd' = [fd EXCEPT ![w] = name']
      /\ UNCHANGED <<his, attempts, terms, signalled>>
  BY DEF Open, fileVars, LockTypeOK
<1>5. LockTypeOK'
  BY <1>1, <1>3, <1>4 DEF LockTypeOK, Stages
<1>6. OwnersOwn'
  BY <1>1, <1>3, <1>4 DEF OwnersOwn, LockTypeOK
<1>7. NamedHeldTheLock'
  <2>1. \A f \in 1 .. Len(owner) : text'[f] = text[f]
    BY <1>3
  <2>2. \A v \in Workers : pc[v] \in {"holds", "ended"} => pc'[v] \in {"holds", "ended"}
    BY <1>1
  <2>3. /\ \A f \in 1 .. Len(owner) : text[f] \in Workers \cup {NoWorker}
        /\ \A v \in Workers : his[v] \in Workers \cup {NoWorker}
    BY DEF LockTypeOK
  <2>4. \A f \in 1 .. Len(owner') : f \in 1 .. Len(owner) \/ text'[f] = NoWorker
    <3>1. Len(owner) \in Nat /\ Len(owner') \in Nat
      BY <1>3 DEF LockTypeOK
    <3>2. \A f \in 1 .. Len(owner') : f > Len(owner) => text'[f] = NoWorker
      BY <1>3
    <3>3. QED
      BY <3>1, <3>2
  <2>5. QED
    BY <1>4, <2>1, <2>2, <2>3, <2>4 DEF NamedHeldTheLock, LockFiles
<1>8. OnlyWeakHoldersSignalled'
  BY <1>1, <1>4 DEF OnlyWeakHoldersSignalled, LockTypeOK
<1>9. QED
  BY <1>5, <1>6, <1>7, <1>8

LEMMA SetLockKeeps ==
  ASSUME LockInv, NEW w \in Workers, SetLock(w)
  PROVE  LockInv'
<1> USE DEF LockInv
<1>1. /\ pc \in [Workers -> Stages] /\ pc[w] = "lock"
      /\ fd[w] \in 1 .. Len(owner) /\ owner \in Seq(Workers \cup {NoWorker})
      /\ UNCHANGED <<fd, his, attempts, terms, name, text, signalled>>
  BY DEF SetLock, LockTypeOK
<1>2. CASE owner[fd[w]] = NoWorker
  <2>1. owner' = [owner EXCEPT ![fd[w]] = w] /\ pc' = [pc EXCEPT ![w] = "truncate"]
    BY <1>2 DEF SetLock, Goto
  <2>2. LockTypeOK'
    BY <1>1, <2>1 DEF LockTypeOK, Stages
  <2>3. OwnersOwn'
    BY <1>1, <1>2, <2>1, LockAssumption DEF OwnersOwn, LockTypeOK
  <2>4. NamedHeldTheLock'
    BY <1>1, <2>1 DEF NamedHeldTheLock, LockTypeOK, LockFiles
  <2>5. OnlyWeakHoldersSignalled'
    BY <1>1, <2>1 DEF OnlyWeakHoldersSignalled, LockTypeOK
  <2>6. QED
    BY <2>2, <2>3, <2>4, <2>5
<1>3. CASE owner[fd[w]] # NoWorker
  <2>1. owner' = owner /\ pc' = [pc EXCEPT ![w] = "read"]
    BY <1>3 DEF SetLock, Goto
  <2>2. LockTypeOK'
    BY <1>1, <2>1 DEF LockTypeOK, Stages
  <2>3. OwnersOwn' /\ NamedHeldTheLock' /\ OnlyWeakHoldersSignalled'
    BY <1>1, <2>1 DEF OwnersOwn, NamedHeldTheLock, OnlyWeakHoldersSignalled, LockTypeOK, LockFiles
  <2>4. QED
    BY <2>2, <2>3
<1>4. QED
  BY <1>2, <1>3

LEMMA ReadHisKeeps ==
  ASSUME LockInv, NEW w \in Workers, ReadHis(w)
  PROVE  LockInv'
<1> USE DEF LockInv
<1>1. /\ pc \in [Workers -> Stages] /\ pc[w] = "read" /\ pc' = [pc EXCEPT ![w] = "judge"]
      /\ fd[w] \in 1 .. Len(owner) /\ his' = [his EXCEPT ![w] = text[fd[w]]]
      /\ UNCHANGED <<fd, attempts, terms, name, owner, text, signalled>>
  BY DEF ReadHis, Goto, LockTypeOK, fileVars
<1>2. LockTypeOK'
  BY <1>1 DEF LockTypeOK, Stages
<1>3. OwnersOwn' /\ OnlyWeakHoldersSignalled'
  BY <1>1 DEF OwnersOwn, OnlyWeakHoldersSignalled, LockTypeOK
<1>4. NamedHeldTheLock'
  BY <1>1 DEF NamedHeldTheLock, LockTypeOK, LockFiles
<1>5. QED
  BY <1>2, <1>3, <1>4

\* The two writes of an owner: no other owner works on the same file.
LEMMA WriteKeeps ==
  ASSUME LockInv, NEW w \in Workers, Truncate(w) \/ WriteMine(w)
  PROVE  LockInv'
<1> USE DEF LockInv
<1>1. /\ pc \in [Workers -> Stages] /\ pc[w] \in {"truncate", "write"}
      /\ fd[w] \in 1 .. Len(owner) /\ owner[fd[w]] = w
      /\ UNCHANGED <<fd, his, attempts, terms, name, owner, signalled>>
  BY DEF Truncate, WriteMine, LockTypeOK, OwnersOwn
<1>2. \A v \in Workers : pc[v] \in {"truncate", "write", "holds"} /\ fd[v] = fd[w] => v = w
  BY <1>1 DEF OwnersOwn
<1>3. w \notin signalled
  BY DEF Truncate, WriteMine, Runs
<1>4. \/ text' = [text EXCEPT ![fd[w]] = NoWorker] /\ pc' = [pc EXCEPT ![w] = "write"]
      \/ text' = [text EXCEPT ![fd[w]] = w] /\ pc' = [pc EXCEPT ![w] = "holds"]
  BY DEF Truncate, WriteMine, Goto
<1>5. LockTypeOK'
  <2>1. text' \in Seq(Workers \cup {NoWorker}) /\ Len(text') = Len(text)
    <3>1. text \in Seq(Workers \cup {NoWorker}) /\ fd[w] \in 1 .. Len(text)
      BY <1>1 DEF LockTypeOK
    <3>2. \E x \in Workers \cup {NoWorker} : text' = [text EXCEPT ![fd[w]] = x]
      BY <1>4
    <3>3. QED
      BY <3>1, <3>2
  <2>2. pc' \in [Workers -> Stages]
    BY <1>1, <1>4 DEF Stages
  <2>3. \A v \in Workers :
          pc'[v] \in {"lock", "read", "truncate", "write", "holds"} => fd[v] # 0
    BY <1>1, <1>4 DEF LockTypeOK
  <2>4. QED
    BY <1>1, <2>1, <2>2, <2>3 DEF LockTypeOK
<1>6. OwnersOwn'
  BY <1>1, <1>2, <1>4 DEF OwnersOwn, LockTypeOK
<1>7. NamedHeldTheLock'
  <2>1. \A v \in Workers : pc[v] \in {"holds", "ended"} => pc'[v] \in {"holds", "ended"}
    BY <1>1, <1>4
  <2>2. \A v \in Workers : his[v] # NoWorker => pc'[his[v]] \in {"holds", "ended"}
    BY <2>1 DEF NamedHeldTheLock, LockTypeOK
  <2>3. \A f \in 1 .. Len(owner) : text[f] # NoWorker => pc'[text[f]] \in {"holds", "ended"}
    BY <2>1 DEF NamedHeldTheLock, LockTypeOK, LockFiles
  <2>4. /\ \A f \in 1 .. Len(owner) : f # fd[w] => text'[f] = text[f]
        /\ text'[fd[w]] = NoWorker \/ (text'[fd[w]] = w /\ pc'[w] = "holds")
    <3>1. text \in Seq(Workers \cup {NoWorker}) /\ Len(text) = Len(owner)
      BY DEF LockTypeOK
    <3>2. CASE text' = [text EXCEPT ![fd[w]] = NoWorker] /\ pc' = [pc EXCEPT ![w] = "write"]
      BY <1>1, <3>1, <3>2
    <3>3. CASE text' = [text EXCEPT ![fd[w]] = w] /\ pc' = [pc EXCEPT ![w] = "holds"]
      BY <1>1, <3>1, <3>3
    <3>4. QED
      BY <1>4, <3>2, <3>3
  <2>5. QED
    BY <1>1, <2>2, <2>3, <2>4 DEF NamedHeldTheLock, LockFiles
<1>8. OnlyWeakHoldersSignalled'
  BY <1>1, <1>3, <1>4 DEF OnlyWeakHoldersSignalled, LockTypeOK
<1>9. QED
  BY <1>5, <1>6, <1>7, <1>8

\* The two signals go to a weak worker that got the lock.
LEMMA SignalKeeps ==
  ASSUME LockInv, NEW w \in Workers, Terminate(w) \/ KillHard(w)
  PROVE  LockInv'
<1> USE DEF LockInv
<1>1. /\ pc \in [Workers -> Stages] /\ pc[w] = "judge"
      /\ his[w] \in Workers /\ his[w] \notin Strong
      /\ signalled' = signalled \cup {his[w]}
      /\ UNCHANGED <<fd, his, attempts, name, owner, text>>
  BY DEF Terminate, KillHard, Yields, LockTypeOK, fileVars
<1>2. pc[his[w]] \in {"holds", "ended"}
  <2>1. his[w] # NoWorker
    BY DEF Terminate, KillHard
  <2>2. QED
    BY <2>1 DEF NamedHeldTheLock
<1>3. /\ pc' = [pc EXCEPT ![w] = "sleep"] \/ pc' = [pc EXCEPT ![w] = "unlink"]
      /\ terms' \in [Workers -> 0 .. MaxTermAttempts]
  <2>1. terms \in [Workers -> 0 .. MaxTermAttempts] /\ MaxTermAttempts \in Nat
    BY LockAssumption DEF LockTypeOK
  <2>2. CASE Terminate(w)
    BY <2>1, <2>2 DEF Terminate, Goto
  <2>3. CASE KillHard(w)
    BY <2>1, <2>3 DEF KillHard, Goto
  <2>4. QED
    BY <2>2, <2>3
<1>4. LockTypeOK'
  BY <1>1, <1>3 DEF LockTypeOK, Stages
<1>5. OwnersOwn'
  BY <1>1, <1>3 DEF OwnersOwn, LockTypeOK
<1>6. NamedHeldTheLock'
  <2>1. \A v \in Workers : pc[v] \in {"holds", "ended"} => pc'[v] \in {"holds", "ended"}
    BY <1>1, <1>3
  <2>2. /\ \A f \in LockFiles : text[f] \in Workers \cup {NoWorker}
        /\ \A v \in Workers : his[v] \in Workers \cup {NoWorker}
    BY DEF LockTypeOK, LockFiles
  <2>3. QED
    BY <1>1, <2>1, <2>2 DEF NamedHeldTheLock, LockFiles
<1>7. OnlyWeakHoldersSignalled'
  BY <1>1, <1>2, <1>3 DEF OnlyWeakHoldersSignalled, LockTypeOK
<1>8. QED
  BY <1>4, <1>5, <1>6, <1>7

LEMMA InitLock == LockInit => LockInv
<1>1. SUFFICES ASSUME LockInit PROVE LockInv
  OBVIOUS
<1>2. owner \in Seq(Workers \cup {NoWorker}) /\ text = owner /\ Len(owner) = 0
  BY <1>1 DEF LockInit
<1>3. DOMAIN owner = {}
  BY <1>2
<1>4. QED
  BY <1>1, <1>2, <1>3, LockAssumption
     DEF LockInit, LockInv, LockTypeOK, Stages, OwnersOwn, NamedHeldTheLock, LockFiles,
         OnlyWeakHoldersSignalled

LEMMA StepLock == LockInv /\ [LockNext]_lockVars => LockInv'
<1>1. SUFFICES ASSUME LockInv, [LockNext]_lockVars PROVE LockInv'
  OBVIOUS
<1>2. CASE UNCHANGED lockVars
  BY <1>1, <1>2 DEF lockVars, fileVars, LockInv, LockTypeOK, OwnersOwn, NamedHeldTheLock,
                    LockFiles, OnlyWeakHoldersSignalled
<1>3. ASSUME NEW w \in Workers,
             Start(w) \/ TryAgain(w) \/ Unlink(w) \/ Wake(w)
      PROVE  LockInv'
  <2>1. /\ pc[w] \in {"off", "judge", "unlink", "sleep"}
        /\ \E at \in {"open", "sleep"} : Goto(w, at)
        /\ name' \in {0, name}
        /\ UNCHANGED <<fd, his, terms, owner, text, signalled>>
    BY <1>3 DEF Start, TryAgain, Unlink, Wake, fileVars
  <2>2. attempts' \in [Workers -> 0 .. MaxLockAttempts]
    BY <1>1, <1>3, LockAssumption
       DEF Start, TryAgain, Unlink, Wake, LockInv, LockTypeOK
  <2>3. {"open", "sleep"} \subseteq Stages
    BY DEF Stages
  <2>4. QED
    BY <1>1, <2>1, <2>2, <2>3, WaitingKeeps
<1>4. ASSUME NEW w \in Workers,
             CantParse(w) \/ TooWeak(w) \/ Finish(w) \/ DieOfSignal(w)
      PROVE  LockInv'
  <2>1. /\ \E at \in {"gave_up", "ended"} :
             /\ Exit(w, at)
             /\ at = "gave_up" => pc[w] = "judge" /\ w \notin signalled
        /\ UNCHANGED <<fd, his, attempts, terms, name, text, signalled>>
    BY <1>4 DEF CantParse, TooWeak, Finish, DieOfSignal, Runs
  <2>2. QED
    BY <1>1, <2>1, ExitKeeps
<1>5. CASE LockNext
  <2>1. PICK w \in Workers : Start(w) \/ GetLock(w) \/ Finish(w) \/ DieOfSignal(w)
    BY <1>5 DEF LockNext
  <2>2. QED
    BY <1>1, <1>3, <1>4, <2>1, OpenKeeps, SetLockKeeps, ReadHisKeeps, WriteKeeps,
       SignalKeeps DEF GetLock
<1>6. QED
  BY <1>1, <1>2, <1>5

\* The invariant of get_apt_worker_lock: owners own the file they write, files
\* name only workers that got the lock, and only weak ones are signalled.
THEOREM LockInvariant == LockSpec => []LockInv
<1>1. QED
  BY InitLock, StepLock, PTL DEF LockSpec

\* No backend is ever signalled, and no worker that is still waiting
\* (kill (his_pid)).
THEOREM BackendsAreSafe == LockSpec => []OnlyWeakHoldersSignalled
<1>1. LockInv => OnlyWeakHoldersSignalled
  BY DEF LockInv
<1>2. QED
  BY <1>1, LockInvariant, PTL

\* Two workers get past get_apt_worker_lock together only after the file of
\* one of them was unlinked.
THEOREM ExclusiveUntilUnlink == LockSpec => []OneHolderUntilUnlink
<1>1. LockInv => OneHolderUntilUnlink
  <2>1. SUFFICES ASSUME LockInv, Len(owner) <= 1,
                        NEW v \in Workers, NEW w \in Workers, Holds(v), Holds(w)
                 PROVE  v = w
    BY DEF OneHolderUntilUnlink, OneHolder
  <2>2. pc[v] = "holds" /\ pc[w] = "holds"
    BY <2>1 DEF Holds
  <2>3. fd[v] = 1 /\ fd[w] = 1
    BY <2>1, <2>2 DEF LockInv, LockTypeOK
  <2>4. QED
    BY <2>1, <2>2, <2>3 DEF LockInv, OwnersOwn
<1>2. QED
  BY <1>1, LockInvariant, PTL

-----------------------------------------------------------------------------
(* The transaction of update_package_cache loses no lists, for any repositories
   and any number of kills *)

LEMMA InitSwap == ListsInit => SwapInv
<1>1. SUFFICES ASSUME ListsInit PROVE SwapInv
  OBVIOUS
<1>2. /\ dir["lists"] = Holding(base) /\ dir["new"] = Absent /\ dir["old"] = Absent
      /\ step = "idle"
  BY <1>1 DEF ListsInit, Dirs
<1>3. Nothing \in Content /\ base \in Content
  BY <1>1, ListsAssumption DEF ListsInit, Nothing, Content, Versions
<1>4. ListsTypeOK
  <2>1. dir \in [Dirs -> [exists : BOOLEAN, at : Content]]
    BY <1>1, <1>3 DEF ListsInit, Absent, Holding
  <2>2. \A d \in Dirs : ~dir[d].exists => dir[d].at = Nothing
    BY <1>2 DEF Dirs, Absent, Holding
  <2>3. server \in [Files -> 1 .. MaxVersion] /\ crashes \in 0 .. MaxCrashes
    BY <1>1, ListsAssumption DEF ListsInit
  <2>4. /\ goal \in Content /\ listed \subseteq Repositories
        /\ todo \subseteq items /\ items \subseteq Files /\ failed \in BOOLEAN
    BY <1>1, <1>3 DEF ListsInit
  <2>5. step \in Steps /\ result \in {"none", "failure", "partial_success", "success"}
    BY <1>1 DEF ListsInit, Steps
  <2>6. QED
    BY <1>3, <2>1, <2>2, <2>3, <2>4, <2>5 DEF ListsTypeOK
<1>5. QED
  BY <1>2, <1>4 DEF SwapInv, NothingLost, Absent

LEMMA UnlinkType ==
  ASSUME ListsTypeOK, NEW d \in Dirs, UnlinkStep(d)
  PROVE  /\ dir' \in [Dirs -> [exists : BOOLEAN, at : Content]]
         /\ \A e \in Dirs : ~dir'[e].exists => dir'[e].at = Nothing
         /\ \A e \in Dirs : e # d => dir'[e] = dir[e]
<1>1. CASE \E f \in Files : dir[d].at[f] # 0 /\ Put(d, f, 0)
  <2>1. PICK f \in Files : dir' = [dir EXCEPT ![d].at[f] = 0]
    BY <1>1 DEF Put
  <2>2. dir'[d].exists
    BY <2>1 DEF UnlinkStep, ListsTypeOK
  <2>3. 0 \in Versions
    BY ListsAssumption DEF Versions
  <2>4. QED
    BY <2>1, <2>2, <2>3 DEF ListsTypeOK, Content
<1>2. CASE dir' = [dir EXCEPT ![d] = Absent]
  BY <1>2, ListsAssumption DEF ListsTypeOK, Absent, Nothing, Content, Versions
<1>3. QED
  BY <1>1, <1>2 DEF UnlinkStep

LEMMA PutType ==
  ASSUME ListsTypeOK, NEW d \in Dirs, dir[d].exists, NEW f \in Files,
         NEW v \in Versions, Put(d, f, v)
  PROVE  /\ dir' \in [Dirs -> [exists : BOOLEAN, at : Content]]
         /\ \A e \in Dirs : ~dir'[e].exists => dir'[e].at = Nothing
         /\ \A e \in Dirs : e # d => dir'[e] = dir[e]
         /\ dir'[d].exists
         /\ \A g \in Files : dir'[d].at[g] = IF g = f THEN v ELSE dir[d].at[g]
  BY DEF Put, ListsTypeOK, Content

\* A tree is removed only where nothing needs it.
LEMMA UnlinkTreeKeeps ==
  ASSUME SwapInv, NEW here, NEW d, NEW there, UnlinkTree(here, d, there),
         <<here, d, there>> \in {<<"unlink_new", "new", "duplink">>,
                                 <<"unlink_old", "old", "swap_out">>,
                                 <<"unlink_after", "old", "idle">>,
                                 <<"cleanup", "new", "idle">>}
  PROVE  SwapInv'
<1>1. /\ d \in Dirs /\ d # "lists" /\ here \in Steps /\ there \in Steps
      /\ UNCHANGED <<server, listed, items, todo, failed, goal, base, result, crashes>>
  BY DEF UnlinkTree, Dirs, Steps, download
<1>2. ListsTypeOK
  BY DEF SwapInv
<1>3. CASE UnlinkStep(d) /\ step' = step
  <2>1. ListsTypeOK'
    BY <1>1, <1>2, <1>3, UnlinkType DEF ListsTypeOK
  <2>2. dir'["lists"] = dir["lists"] /\ \A e \in Dirs : e # d => dir'[e] = dir[e]
    BY <1>1, <1>2, <1>3, UnlinkType DEF Dirs
  <2>3. step = here
    BY DEF UnlinkTree
  <2>4. here = "unlink_new" \/ here = "cleanup" => dir'["old"] = dir["old"]
    BY <2>2 DEF Dirs
  <2>5. here \in {"unlink_old", "unlink_after"} => dir'["new"] = dir["new"]
    BY <2>2 DEF Dirs
  <2>6. QED
    BY <1>1, <1>3, <2>1, <2>2, <2>3, <2>4, <2>5 DEF SwapInv, NothingLost, Holding
<1>4. CASE ~dir[d].exists /\ dir' = dir /\ step' = there
  <2>1. ListsTypeOK'
    BY <1>1, <1>2, <1>4 DEF ListsTypeOK
  <2>2. step = here
    BY DEF UnlinkTree
  <2>3. QED
    BY <1>1, <1>4, <2>1, <2>2 DEF SwapInv, NothingLost, Holding
<1>5. QED
  BY <1>3, <1>4 DEF UnlinkTree

LEMMA DuplinkKeeps ==
  ASSUME SwapInv, Duplink
  PROVE  SwapInv'
<1>1. /\ ListsTypeOK /\ step = "duplink"
      /\ UNCHANGED <<server, listed, items, todo, failed, goal, base, result, crashes>>
  BY DEF SwapInv, Duplink, download
<1>2. CASE /\ dir["lists"].exists /\ ~dir["new"].exists
           /\ dir' = [dir EXCEPT !["new"].exists = TRUE] /\ step' = step
  <2>1. /\ dir'["lists"] = dir["lists"] /\ dir'["old"] = dir["old"]
        /\ dir'["new"].exists /\ dir["lists"] = Holding(base)
    BY <1>1, <1>2 DEF SwapInv, NothingLost, ListsTypeOK, Dirs
  <2>2. ListsTypeOK'
    BY <1>1, <1>2 DEF ListsTypeOK, Dirs, Steps
  <2>3. QED
    BY <1>1, <1>2, <2>1, <2>2 DEF SwapInv, NothingLost, Holding
<1>3. CASE /\ dir["new"].exists /\ step' = step
           /\ \E f \in Files : Put("new", f, dir["lists"].at[f])
  <2>1. PICK f \in Files : Put("new", f, dir["lists"].at[f])
    BY <1>3
  <2>2. dir["lists"].at[f] \in Versions /\ "new" \in Dirs
    BY <1>1 DEF ListsTypeOK, Content, Dirs
  <2>3. /\ dir'["lists"] = dir["lists"] /\ dir'["old"] = dir["old"]
        /\ ListsTypeOK'
    BY <1>1, <1>3, <2>1, <2>2, PutType DEF ListsTypeOK, Dirs
  <2>4. QED
    BY <1>1, <1>3, <2>3 DEF SwapInv, NothingLost, Holding
<1>4. CASE /\ ~dir["lists"].exists \/ dir["new"] = dir["lists"]
           /\ dir' = dir /\ step' = "sources"
  <2>1. ListsTypeOK'
    BY <1>1, <1>4 DEF ListsTypeOK, Steps
  <2>2. QED
    BY <1>1, <1>4, <2>1 DEF SwapInv, NothingLost, Holding
<1>5. QED
  BY <1>1, <1>2, <1>3, <1>4 DEF Duplink

\* What apt writes and removes is in lists.new.
LEMMA FetchKeeps ==
  ASSUME SwapInv, NEW f \in Files, Fetch(f) \/ FetchFails(f) \/ Clean(f)
  PROVE  SwapInv'
<1>1. /\ ListsTypeOK /\ step \in {"download", "clean"} /\ dir["new"].exists
      /\ dir["lists"] = Holding(base)
      /\ UNCHANGED <<server, listed, step, goal, base, result, crashes>>
  BY DEF SwapInv, Fetch, FetchFails, Clean, AsksFor
<1>2. /\ server[f] \in Versions /\ 0 \in Versions /\ "new" \in Dirs /\ "lists" \in Dirs
      /\ "old" \in Dirs
  BY <1>1, ListsAssumption DEF ListsTypeOK, Versions, Dirs
<1>3. todo' \subseteq items' /\ items' \subseteq Files /\ failed' \in BOOLEAN
  <2>1. Behind(f) \subseteq Files
    BY DEF Behind, Files
  <2>2. QED
    BY <1>1, <2>1 DEF ListsTypeOK, Fetch, FetchFails, Clean, AsksFor, download
<1>4. /\ dir' \in [Dirs -> [exists : BOOLEAN, at : Content]]
      /\ \A e \in Dirs : ~dir'[e].exists => dir'[e].at = Nothing
      /\ dir'["lists"] = dir["lists"] /\ dir'["new"].exists
  <2>1. CASE \E v \in Versions : Put("new", f, v)
    BY <1>1, <1>2, <2>1, PutType
  <2>2. CASE dir' = dir
    BY <1>1, <2>2 DEF ListsTypeOK
  <2>3. QED
    BY <1>2, <2>1, <2>2 DEF Fetch, FetchFails, Clean
<1>5. ListsTypeOK'
  BY <1>1, <1>3, <1>4 DEF ListsTypeOK
<1>6. QED
  BY <1>1, <1>4, <1>5 DEF SwapInv, NothingLost, Holding

\* The two renames of the swap succeed, one after the other.
LEMMA SwapKeeps ==
  ASSUME SwapInv, SwapOut \/ SwapIn
  PROVE  /\ SwapInv'
         /\ SwapOut => dir'["new"] = dir["new"]
         /\ SwapIn => dir'["lists"] = dir["new"] /\ dir'["new"] = Absent
<1>1. ListsTypeOK /\ UNCHANGED <<server, listed, items, todo, failed, goal, result, crashes>>
  BY DEF SwapInv, SwapOut, SwapIn, download
<1>2. CASE SwapOut
  <2>1. /\ step = "swap_out" /\ step' = "swap_in" /\ dir["lists"] = Holding(base)
        /\ base' = base /\ dir["old"].at = Nothing /\ dir["new"].exists
    BY <1>1, <1>2 DEF SwapInv, SwapOut, ListsTypeOK, Dirs
  <2>2. dir' = [dir EXCEPT !["old"] = dir["lists"], !["lists"] = Absent]
    BY <1>2, <2>1 DEF SwapOut, Rename, Renames, Holding
  <2>3. /\ dir'["old"] = dir["lists"] /\ dir'["new"] = dir["new"]
        /\ dir'["lists"] = Absent
    BY <1>1, <2>2 DEF ListsTypeOK, Dirs
  <2>4. ListsTypeOK'
    BY <1>1, <2>1, <2>2, ListsAssumption
       DEF ListsTypeOK, Dirs, Steps, Absent, Nothing, Content, Versions
  <2>5. SwapInv'
    BY <2>1, <2>3, <2>4 DEF SwapInv, NothingLost, Holding, Absent
  <2>6. QED
    BY <2>1, <2>3, <2>5 DEF SwapIn
<1>3. CASE SwapIn
  <2>1. /\ step = "swap_in" /\ step' = "unlink_after" /\ dir["new"].exists
        /\ dir["lists"].at = Nothing
    BY <1>1, <1>3 DEF SwapInv, SwapIn, ListsTypeOK, Dirs
  <2>2. /\ dir' = [dir EXCEPT !["lists"] = dir["new"], !["new"] = Absent]
        /\ base' = dir["new"].at
    BY <1>3, <2>1 DEF SwapIn, Rename, Renames
  <2>3. dir'["lists"] = dir["new"] /\ dir'["new"] = Absent
    BY <1>1, <2>2 DEF ListsTypeOK, Dirs
  <2>4. dir["new"] = Holding(base')
    BY <1>1, <2>1, <2>2 DEF ListsTypeOK, Dirs, Holding
  <2>5. base' \in Content
    BY <1>1, <2>2 DEF ListsTypeOK, Dirs
  <2>6. ListsTypeOK'
    BY <1>1, <2>1, <2>2, <2>5, ListsAssumption
       DEF ListsTypeOK, Dirs, Steps, Absent, Nothing, Content, Versions
  <2>7. SwapInv'
    BY <2>1, <2>3, <2>4, <2>6 DEF SwapInv, NothingLost, Holding
  <2>8. QED
    BY <2>1, <2>3, <2>7 DEF SwapOut
<1>4. QED
  BY <1>2, <1>3

\* Steps that leave the directories alone.
LEMMA RestKeeps ==
  ASSUME SwapInv,
         \/ Begin \/ ReadSources \/ DownloadFails \/ DownloadDone \/ Cleaned \/ Crash
         \/ \E f \in Files : Publish(f)
         \/ \E r \in Repositories : Edit(r)
  PROVE  SwapInv'
<1>1. ListsTypeOK /\ UNCHANGED <<dir, base>>
  BY DEF SwapInv, Begin, ReadSources, DownloadFails, DownloadDone, Cleaned, Crash, Publish, Edit
<1>2. CASE Begin \/ DownloadFails \/ DownloadDone \/ Crash
  <2>1. crashes' \in 0 .. MaxCrashes
    BY <1>1, <1>2, ListsAssumption
       DEF ListsTypeOK, Begin, DownloadFails, DownloadDone, Crash
  <2>2. UNCHANGED <<server, listed, items, todo, failed, goal>>
    BY <1>2 DEF Begin, DownloadFails, DownloadDone, Crash, download
  <2>3. /\ step' \in Steps
        /\ result' \in {"none", "failure", "partial_success", "success"}
    BY <1>1, <1>2 DEF ListsTypeOK, Begin, DownloadFails, DownloadDone, Crash, Steps
  <2>4. ListsTypeOK'
    BY <1>1, <2>1, <2>2, <2>3 DEF ListsTypeOK
  <2>5. QED
    BY <1>1, <1>2, <2>4
       DEF SwapInv, NothingLost, Holding, Begin, DownloadFails, DownloadDone, Crash
<1>3. CASE ReadSources
  <2>1. /\ step = "sources" /\ dir["new"].exists /\ step' = "download"
        /\ UNCHANGED <<server, listed, goal, result, crashes>>
    BY <1>3 DEF ReadSources
  <2>2. todo' \subseteq items' /\ items' \subseteq Files /\ failed' \in BOOLEAN
    BY <1>1, <1>3 DEF ListsTypeOK, ReadSources, Files
  <2>3. ListsTypeOK'
    BY <1>1, <2>1, <2>2 DEF ListsTypeOK, Steps
  <2>4. QED
    BY <1>1, <2>1, <2>3 DEF SwapInv, NothingLost, Holding
<1>4. CASE Cleaned
  <2>1. /\ step = "clean" /\ dir["new"].exists /\ step' = "unlink_old"
        /\ dir["lists"] = Holding(base)
        /\ UNCHANGED <<server, listed, items, todo, failed, crashes>>
    BY <1>4 DEF Cleaned, SwapInv, download
  <2>2. goal' \in Content /\ result' \in {"partial_success", "success"}
    BY <1>1, <1>4 DEF ListsTypeOK, Cleaned, Dirs
  <2>3. ListsTypeOK'
    BY <1>1, <2>1, <2>2 DEF ListsTypeOK, Steps
  <2>4. QED
    BY <1>1, <2>1, <2>3 DEF SwapInv, NothingLost, Holding
<1>5. CASE \/ \E f \in Files : Publish(f)
           \/ \E r \in Repositories : Edit(r)
  <2>1. UNCHANGED <<step, items, todo, failed, goal, result, crashes>>
    BY <1>5 DEF Publish, Edit, download
  <2>2. server' \in [Files -> 1 .. MaxVersion] /\ listed' \subseteq Repositories
    BY <1>1, <1>5, ListsAssumption DEF ListsTypeOK, Publish, Edit
  <2>3. ListsTypeOK'
    BY <1>1, <2>1, <2>2 DEF ListsTypeOK
  <2>4. QED
    BY <1>1, <2>1, <2>3 DEF SwapInv, NothingLost, Holding
<1>6. QED
  BY <1>2, <1>3, <1>4, <1>5

LEMMA StepSwap == SwapInv /\ [ListsNext]_listsVars => SwapInv'
<1>1. SUFFICES ASSUME SwapInv, [ListsNext]_listsVars PROVE SwapInv'
  OBVIOUS
<1>2. CASE UNCHANGED listsVars
  BY <1>1, <1>2 DEF listsVars, SwapInv, ListsTypeOK, NothingLost, Holding
<1>3. CASE UnlinkNew \/ UnlinkOld \/ UnlinkAfter \/ Cleanup
  BY <1>1, <1>3, UnlinkTreeKeeps DEF UnlinkNew, UnlinkOld, UnlinkAfter, Cleanup
<1>4. CASE ListsNext /\ ~(UnlinkNew \/ UnlinkOld \/ UnlinkAfter \/ Cleanup)
  BY <1>1, <1>4, DuplinkKeeps, FetchKeeps, SwapKeeps, RestKeeps DEF ListsNext
<1>5. QED
  BY <1>1, <1>2, <1>3, <1>4

\* The invariant of the transaction of update_package_cache.
THEOREM SwapInvariant == ListsSpec => []SwapInv
<1>1. QED
  BY InitSwap, StepSwap, PTL DEF ListsSpec

\* Whenever the backend is killed, the lists of the last complete transaction survive,
\* every file of them and no other, under their own name or as lists.old.
THEOREM ListsSurvive == ListsSpec => []NothingLost
<1>1. SwapInv => NothingLost
  BY DEF SwapInv
<1>2. QED
  BY <1>1, SwapInvariant, PTL

-----------------------------------------------------------------------------
(* What an update does that comes to its end *)

\* What apt has got so far: each file that it asked for and has tried is there, and
\* so is what it learns from each Release file, unless something failed.  No file is
\* asked for before its Release file.
Fetched ==
  /\ \A f \in items : <<f[1], "Release">> \in items
  /\ ~failed => \A f \in items \ todo :
                  dir["new"].at[f] # 0 /\ IndicesOf(f[1]) \subseteq items

\* What has been downloaded, on its way to its place.
GoalInv ==
  /\ step \in {"download", "clean"} => Fetched
  /\ step = "clean" => todo = {}
  /\ step \in {"unlink_old", "swap_out", "swap_in"} => dir["new"].at = goal
  /\ step = "unlink_after" => ~dir["new"].exists /\ dir["lists"].at = goal
  /\ step \in {"unlink_old", "swap_out", "swap_in", "unlink_after"}
       => result # "failure" /\ Delivered
  /\ step = "cleanup" => result = "failure"
  /\ FinishesClean

LEMMA UnlinkTreeFinishes ==
  ASSUME SwapInv, GoalInv, UnlinkNew \/ UnlinkOld \/ UnlinkAfter \/ Cleanup PROVE GoalInv'
<1>1. ListsTypeOK /\ UNCHANGED <<goal, result, items, todo, failed>>
  BY DEF SwapInv, UnlinkNew, UnlinkOld, UnlinkAfter, Cleanup, UnlinkTree, download
<1>2. PICK tree \in {<<"unlink_new", "new", "duplink">>, <<"unlink_old", "old", "swap_out">>,
                     <<"unlink_after", "old", "idle">>, <<"cleanup", "new", "idle">>} :
        UnlinkTree(tree[1], tree[2], tree[3])
  BY DEF UnlinkNew, UnlinkOld, UnlinkAfter, Cleanup
<1>3. Delivered <=> Delivered'
  BY <1>1 DEF Delivered
<1>4. CASE UnlinkStep(tree[2]) /\ step = tree[1] /\ step' = step
  <2>1. tree[2] \in {"new", "old"} /\ \A e \in Dirs : e # tree[2] => dir'[e] = dir[e]
    BY <1>1, <1>2, <1>4, UnlinkType DEF Dirs
  <2>2. dir'["lists"] = dir["lists"] /\ (tree[2] = "old" => dir'["new"] = dir["new"])
    BY <2>1 DEF Dirs
  <2>3. tree[2] = "new" => step \in {"unlink_new", "cleanup"}
    BY <1>2, <1>4
  <2>4. QED
    BY <1>1, <1>2, <1>3, <1>4, <2>2, <2>3 DEF GoalInv, FinishesClean
<1>5. CASE ~dir[tree[2]].exists /\ dir' = dir /\ step = tree[1] /\ step' = tree[3]
  BY <1>1, <1>2, <1>3, <1>5 DEF GoalInv, FinishesClean
<1>6. QED
  BY <1>2, <1>4, <1>5 DEF UnlinkTree

LEMMA SwapFinishes == ASSUME SwapInv, GoalInv, SwapOut \/ SwapIn PROVE GoalInv'
<1>1. UNCHANGED <<goal, result, items>>
  BY DEF SwapOut, SwapIn, download
<1>2. Delivered <=> Delivered'
  BY <1>1 DEF Delivered
<1>3. CASE SwapOut
  <2>1. step = "swap_out" /\ step' = "swap_in" /\ dir'["new"] = dir["new"]
    BY <1>3, SwapKeeps DEF SwapOut
  <2>2. QED
    BY <1>1, <1>2, <2>1 DEF GoalInv, FinishesClean
<1>4. CASE SwapIn
  <2>1. step = "swap_in" /\ step' = "unlink_after" /\ dir["new"].exists
    BY <1>4 DEF SwapInv, SwapIn
  <2>2. dir'["lists"] = dir["new"] /\ dir'["new"] = Absent
    BY <1>4, SwapKeeps
  <2>3. QED
    BY <1>1, <1>2, <2>1, <2>2 DEF GoalInv, FinishesClean, Absent
<1>5. QED
  BY <1>3, <1>4

\* What apt asks for, gets and misses.
LEMMA DownloadFinishes ==
  ASSUME SwapInv, GoalInv, NEW f \in Files, Fetch(f) \/ FetchFails(f) \/ Clean(f)
  PROVE  GoalInv'
<1>1. ListsTypeOK /\ step' = step /\ step \in {"download", "clean"}
  BY DEF SwapInv, Fetch, FetchFails, Clean, AsksFor
<1>2. dir["new"].exists
  BY <1>1 DEF SwapInv
<1>3. CASE Fetch(f)
  <2>1. /\ step = "download" /\ f \in todo /\ items' = items \cup Behind(f)
        /\ todo' = (todo \ {f}) \cup Behind(f) /\ failed' = failed
    BY <1>3 DEF Fetch, AsksFor
  <2>2. server[f] \in Versions /\ server[f] # 0
    BY <1>1, ListsAssumption DEF ListsTypeOK, Versions
  <2>3. \A g \in Files : dir'["new"].at[g] = IF g = f THEN server[f] ELSE dir["new"].at[g]
    BY <1>1, <1>2, <1>3, <2>2, PutType DEF Fetch, Dirs
  <2>4. f = <<f[1], f[2]>> /\ f[2] \in {"Release", "Packages"} /\ f \in items
    BY <1>1, <2>1 DEF ListsTypeOK, Files
  <2>5. f[2] = "Release" => Behind(f) = {<<f[1], "Packages">>}
    BY DEF Behind
  <2>6. \A g \in items' : g \in items \/ (g = <<f[1], "Packages">> /\ g \in todo')
    BY <2>1, <2>4 DEF Behind
  <2>7. items \subseteq items' /\ Fetched
    BY <2>1 DEF GoalInv
  <2>8. \A g \in items' : <<g[1], "Release">> \in items'
    <3>1. <<f[1], "Packages">>[1] = f[1] /\ <<f[1], "Release">> \in items
      BY <2>4, <2>7 DEF Fetched
    <3>2. \A g \in items : <<g[1], "Release">> \in items
      BY <2>7 DEF Fetched
    <3>3. QED
      BY <2>6, <2>7, <3>1, <3>2
  <2>9. IndicesOf(f[1]) \subseteq items'
    BY <2>1, <2>4, <2>5, <2>7 DEF IndicesOf, Fetched
  <2>10. Fetched'
    <3>1. SUFFICES ASSUME ~failed, NEW g \in items' \ todo'
                   PROVE  dir'["new"].at[g] # 0 /\ IndicesOf(g[1]) \subseteq items'
      BY <2>1, <2>8 DEF Fetched
    <3>2. CASE g = f
      BY <2>2, <2>3, <2>9, <3>2
    <3>3. CASE g # f
      <4>1. g \in items \ todo /\ g \in Files
        BY <1>1, <2>1, <2>6, <3>1, <3>3 DEF ListsTypeOK
      <4>2. QED
        BY <2>3, <2>7, <3>1, <3>3, <4>1 DEF Fetched
    <3>4. QED
      BY <3>2, <3>3
  <2>11. UNCHANGED <<goal, result>>
    BY <1>3 DEF Fetch, AsksFor
  <2>12. QED
    BY <1>1, <2>1, <2>10, <2>11 DEF GoalInv, FinishesClean
<1>4. CASE FetchFails(f)
  <2>1. PICK more \in {{}, Behind(f)} : items' = items \cup more
    BY <1>4 DEF FetchFails, AsksFor
  <2>2. /\ step = "download" /\ f \in items /\ failed'
        /\ f = <<f[1], f[2]>> /\ UNCHANGED <<dir, goal, result>>
    BY <1>1, <1>4 DEF ListsTypeOK, FetchFails, AsksFor, Files
  <2>3. \A g \in items' : <<g[1], "Release">> \in items'
    <3>1. \A g \in items : <<g[1], "Release">> \in items
      BY <2>2 DEF GoalInv, Fetched
    <3>2. <<f[1], "Packages">>[1] = f[1] /\ <<f[1], "Release">> \in items
      BY <2>2, <3>1
    <3>3. \A g \in more : g[1] = f[1]
      BY <2>1, <3>2 DEF Behind
    <3>4. QED
      BY <2>1, <3>1, <3>2, <3>3
  <2>4. QED
    BY <1>1, <2>2, <2>3 DEF GoalInv, FinishesClean, Fetched
<1>5. CASE Clean(f)
  <2>1. \A g \in Files : dir'["new"].at[g] = IF g = f THEN 0 ELSE dir["new"].at[g]
    <3>1. 0 \in Versions
      BY ListsAssumption DEF Versions
    <3>2. QED
      BY <1>1, <1>2, <1>5, <3>1, PutType DEF Clean, Dirs
  <2>2. /\ step = "clean" /\ f \notin items
        /\ UNCHANGED <<items, todo, failed, goal, result>>
    BY <1>5 DEF Clean, download
  <2>3. Fetched' /\ todo = {}
    BY <1>1, <2>1, <2>2 DEF GoalInv, Fetched, ListsTypeOK
  <2>4. QED
    BY <1>1, <2>2, <2>3 DEF GoalInv, FinishesClean
<1>6. QED
  BY <1>3, <1>4, <1>5

LEMMA RestFinishes ==
  ASSUME SwapInv, GoalInv,
         \/ Begin \/ Duplink \/ ReadSources \/ DownloadFails \/ DownloadDone \/ Cleaned
         \/ Crash
         \/ \E f \in Files : Publish(f)
         \/ \E r \in Repositories : Edit(r)
  PROVE  GoalInv'
<1>1. CASE Begin \/ Duplink \/ DownloadFails \/ DownloadDone \/ Crash
  <2>1. step' = "clean" => todo = {} /\ DownloadDone
    BY <1>1 DEF Begin, Duplink, DownloadFails, DownloadDone, Crash
  <2>2. QED
    BY <1>1, <2>1
       DEF GoalInv, FinishesClean, Fetched, Begin, Duplink, DownloadFails, DownloadDone,
           Crash, download
<1>2. CASE ReadSources
  BY <1>2 DEF GoalInv, FinishesClean, Fetched, ReadSources
<1>3. CASE Cleaned
  <2>1. /\ step = "clean" /\ todo = {} /\ Fetched /\ step' = "unlink_old"
        /\ goal' = dir["new"].at /\ result' \in {"partial_success", "success"}
        /\ result' = "success" => ~failed
        /\ UNCHANGED <<dir, items>>
        /\ \A f \in Files \ items : dir["new"].at[f] = 0
    BY <1>3 DEF GoalInv, Cleaned, download
  <2>2. Delivered'
    BY <2>1 DEF Delivered, Fetched
  <2>3. QED
    BY <2>1, <2>2 DEF GoalInv, FinishesClean
<1>4. CASE \/ \E f \in Files : Publish(f)
           \/ \E r \in Repositories : Edit(r)
  <2>1. UNCHANGED <<dir, step, items, todo, failed, goal, result>>
    BY <1>4 DEF Publish, Edit, download
  <2>2. QED
    BY <2>1 DEF GoalInv, FinishesClean, Fetched, Delivered
<1>5. QED
  BY <1>1, <1>2, <1>3, <1>4

\* Success means that what was downloaded is in place, all of it, and nothing of the
\* transaction is left, however many updates were killed before.
THEOREM FinishesCleanly == ListsSpec => []FinishesClean
<1>1. ListsInit => GoalInv
  BY DEF ListsInit, GoalInv, FinishesClean
<1>2. SwapInv /\ GoalInv /\ [ListsNext]_listsVars => GoalInv'
  <2>1. SUFFICES ASSUME SwapInv, GoalInv, [ListsNext]_listsVars PROVE GoalInv'
    OBVIOUS
  <2>2. CASE UNCHANGED listsVars
    BY <2>1, <2>2 DEF listsVars, GoalInv, FinishesClean, Fetched, Delivered
  <2>3. CASE ListsNext
    BY <2>1, <2>3, UnlinkTreeFinishes, SwapFinishes, DownloadFinishes, RestFinishes
       DEF ListsNext
  <2>4. QED
    BY <2>1, <2>2, <2>3
<1>3. GoalInv => FinishesClean
  BY DEF GoalInv
<1>4. QED
  BY <1>1, <1>2, <1>3, SwapInvariant, PTL DEF ListsSpec

-----------------------------------------------------------------------------
(* The journal finds every interrupted operation again, for any packages and any
   number of losses of power *)

LEMMA InitJournal == JournalInit => JournalInv
<1>1. SUFFICES ASSUME JournalInit PROVE JournalInv
  OBVIOUS
<1>2. JournalTypeOK
  BY <1>1, JournalAssumption DEF JournalInit, JournalTypeOK, DeviceStages, Operating, Sources, Results
<1>3. QED
  BY <1>1, <1>2
     DEF JournalInit, JournalInv, OperationIsRecorded, InterruptedIsRecorded, Operating,
         Sources

\* An operation, in the backend or in a rescue, returns.
LEMMA ReturnKeeps ==
  ASSUME JournalInv, NEW here, NEW r \in Results \ {"none"}, NEW there,
         Return(here, r, there),
         \/ here = "operation" /\ there = "journal"
         \/ here \in Sources /\ there \in Sources \cup {"rescue_erase"}
  PROVE  JournalInv'
<1>1. /\ JournalTypeOK /\ stage = here /\ stage' = there /\ outcome' = r
      /\ UNCHANGED <<record, bootFlag, rescueFile, pkg, banner, interrupted, losses,
                     installs>>
  BY DEF JournalInv, Return
<1>2. here \in Operating /\ there \in Operating /\ there \in DeviceStages
  BY DEF Operating, Sources, DeviceStages
<1>3. pkg \in Packages
  BY <1>1, <1>2 DEF JournalTypeOK
<1>4. state' \in [Packages -> {"old", "partial", "new"}]
  <2>1. CASE r = "success"
    BY <1>1, <1>3, <2>1 DEF Return, JournalTypeOK
  <2>2. CASE r # "success"
    BY <1>1, <2>2 DEF Return, JournalTypeOK
  <2>3. QED
    BY <2>1, <2>2
<1>5. JournalTypeOK'
  BY <1>1, <1>2, <1>3, <1>4, JournalAssumption DEF JournalTypeOK
<1>6. QED
  BY <1>1, <1>2, <1>5
     DEF JournalInv, OperationIsRecorded, InterruptedIsRecorded, Operating, Sources

LEMMA TouchKeeps ==
  ASSUME JournalInv, NEW here \in Operating, Touch(here)
  PROVE  JournalInv'
<1>1. /\ JournalTypeOK /\ stage = here /\ pkg \in Packages
      /\ state' = [state EXCEPT ![pkg] = "partial"]
      /\ UNCHANGED <<record, bootFlag, rescueFile, stage, pkg, outcome, banner,
                     interrupted, losses, installs>>
  BY DEF JournalInv, Touch, JournalTypeOK
<1>2. JournalTypeOK'
  BY <1>1 DEF JournalTypeOK
<1>3. QED
  BY <1>1, <1>2 DEF JournalInv, OperationIsRecorded, InterruptedIsRecorded

LEMMA SaveKeeps ==
  ASSUME JournalInv, NEW p \in Packages, SaveOperationRecord(p)
  PROVE  JournalInv'
<1>1. JournalTypeOK'
  BY JournalAssumption
     DEF JournalInv, SaveOperationRecord, JournalTypeOK, DeviceStages, Operating, Sources, Results
<1>2. QED
  BY <1>1
     DEF JournalInv, SaveOperationRecord, OperationIsRecorded, InterruptedIsRecorded,
         Operating, Sources

\* The steps that change no package.
LEMMA TypeOfRest ==
  ASSUME JournalTypeOK,
         \/ EraseOperationRecord \/ RebootNow \/ GoDown \/ NoReboot
         \/ Boot \/ RescueUnable \/ RescueMarked \/ RescueErase
         \/ RescueReboot \/ WriteRescueResult \/ AfterBoot \/ PowerLoss
  PROVE  JournalTypeOK'
<1>1. CASE EraseOperationRecord \/ RebootNow \/ GoDown \/ NoReboot
  BY <1>1
     DEF JournalTypeOK, EraseOperationRecord, RebootNow, GoDown, NoReboot, DeviceStages, Operating,
         Sources, diskVars
<1>2. CASE Boot \/ RescueUnable \/ RescueMarked
  BY <1>2
     DEF JournalTypeOK, Boot, RescueUnable, RescueMarked, DeviceStages, Operating, Sources,
         diskVars, Results
<1>3. CASE RescueErase \/ RescueReboot \/ WriteRescueResult
  BY <1>3
     DEF JournalTypeOK, RescueErase, RescueReboot, WriteRescueResult, DeviceStages, Operating,
         Sources, diskVars
<1>4. CASE AfterBoot
  BY <1>4 DEF JournalTypeOK, AfterBoot, DeviceStages, Operating, Sources
<1>5. CASE PowerLoss
  <2>1. losses' \in 0 .. MaxLosses
    BY <1>5, JournalAssumption DEF JournalTypeOK, PowerLoss
  <2>2. QED
    BY <1>5, <2>1 DEF JournalTypeOK, PowerLoss, DeviceStages, Operating, Sources, diskVars
<1>6. QED
  BY <1>1, <1>2, <1>3, <1>4, <1>5

LEMMA JournalRestKeeps ==
  ASSUME JournalInv,
         \/ EraseOperationRecord \/ RebootNow \/ GoDown \/ NoReboot
         \/ Boot \/ RescueUnable \/ RescueMarked \/ RescueErase
         \/ RescueReboot \/ WriteRescueResult \/ AfterBoot \/ PowerLoss
  PROVE  JournalInv'
<1>1. JournalTypeOK /\ JournalTypeOK'
  BY TypeOfRest DEF JournalInv
<1>2. CASE EraseOperationRecord \/ RebootNow \/ GoDown \/ NoReboot \/ AfterBoot
  BY <1>1, <1>2
     DEF JournalInv, OperationIsRecorded, InterruptedIsRecorded, Operating, Sources,
         EraseOperationRecord, RebootNow, GoDown, NoReboot, AfterBoot, diskVars
<1>3. CASE Boot \/ RescueUnable \/ RescueMarked
  BY <1>1, <1>3
     DEF JournalInv, OperationIsRecorded, InterruptedIsRecorded, Operating, Sources,
         Boot, RescueUnable, RescueMarked, diskVars
<1>4. CASE RescueErase \/ RescueReboot \/ WriteRescueResult
  BY <1>1, <1>4
     DEF JournalInv, OperationIsRecorded, InterruptedIsRecorded, Operating, Sources,
         RescueErase, RescueReboot, WriteRescueResult, diskVars
<1>5. CASE PowerLoss
  <2>1. /\ stage' = "off" /\ record' = record
        /\ interrupted' = IF stage \in {"operation", "rescue", "rescue_erase"} \cup Sources
                          THEN pkg ELSE interrupted
    BY <1>5 DEF PowerLoss, diskVars
  <2>2. InterruptedIsRecorded'
    BY <2>1 DEF JournalInv, OperationIsRecorded, InterruptedIsRecorded, Operating, Sources
  <2>3. QED
    BY <1>1, <2>1, <2>2 DEF JournalInv, OperationIsRecorded, Operating, Sources
<1>6. QED
  BY <1>2, <1>3, <1>4, <1>5

LEMMA StepJournal == JournalInv /\ [JournalNext]_journalVars => JournalInv'
<1>1. SUFFICES ASSUME JournalInv, [JournalNext]_journalVars PROVE JournalInv'
  OBVIOUS
<1>2. CASE UNCHANGED journalVars
  BY <1>1, <1>2
     DEF journalVars, diskVars, JournalInv, JournalTypeOK, OperationIsRecorded, InterruptedIsRecorded
<1>3. CASE OperationTouches \/ RescueTouches
  <2>1. \E here \in Operating : Touch(here)
    BY <1>3 DEF OperationTouches, RescueTouches, Operating
  <2>2. QED
    BY <1>1, <2>1, TouchKeeps
<1>4. ASSUME NEW r \in Results \ {"none"}, OperationReturns(r) \/ RescueReturns(r)
      PROVE  JournalInv'
  <2>1. CASE OperationReturns(r)
    BY <1>1, <2>1, ReturnKeeps DEF OperationReturns
  <2>2. CASE RescueReturns(r)
    <3>1. PICK s \in Sources : Return(s, r, AfterSource(s, r))
      BY <2>2 DEF RescueReturns
    <3>2. AfterSource(s, r) \in Sources \cup {"rescue_erase"}
      BY DEF AfterSource, Sources
    <3>3. QED
      BY <1>1, <3>1, <3>2, ReturnKeeps
  <2>3. QED
    BY <1>4, <2>1, <2>2
<1>5. CASE \E p \in Packages : SaveOperationRecord(p)
  BY <1>1, <1>5, SaveKeeps
<1>6. CASE \/ EraseOperationRecord \/ RebootNow \/ GoDown \/ NoReboot
           \/ Boot \/ RescueUnable \/ RescueMarked \/ RescueErase
           \/ RescueReboot \/ WriteRescueResult \/ AfterBoot \/ PowerLoss
  BY <1>1, <1>6, JournalRestKeeps
<1>7. QED
  BY <1>1, <1>2, <1>3, <1>4, <1>5, <1>6 DEF JournalNext, Backend

\* The invariant of the journal: an operation under way, or cut off and not yet
\* retried, is the one the record on disk names.
THEOREM JournalInvariant == JournalSpec => []JournalInv
<1>1. QED
  BY InitJournal, StepJournal, PTL DEF JournalSpec

\* Whoever uses the device after a boot finds every interrupted operation
\* rescued, or a rescue that said it could not.
THEOREM UpAfterRescue == JournalSpec => []UpMeansTried
<1>1. JournalInv => UpMeansTried
  BY DEF JournalInv, UpMeansTried, Sources
<1>2. QED
  BY <1>1, JournalInvariant, PTL
=============================================================================
