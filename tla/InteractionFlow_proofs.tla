------------------------ MODULE InteractionFlow_proofs ------------------------
(***************************************************************************)
(* Proofs about InteractionFlow, for any set of calls and any bounds.      *)
(*                                                                         *)
(* The lemmas say of each operator on ui that it leads from a state that   *)
(* fits (Fit: the stack is that of the flow, and nothing is queued when    *)
(* idle) to one that fits; the invariance proof adds who is waiting.       *)
(***************************************************************************)
EXTENDS InteractionFlow, TLAPS

\* A state of ui between two events
Fit(u) == u \in States /\ StackFits(u) /\ (Idle(u) => u.tasks = <<>>)

\* The flow of v is that of u, or it was started for no call.
SameOrOwn(u, v) == v.job = u.job \/ v.job.kind \in {"file", "check"}

-----------------------------------------------------------------------------
(* The operators on ui *)

\* A flow that starts when the program is idle fits.
LEMMA BeginFits ==
  ASSUME NEW u \in States, NEW f \in {"local", "foreign"},
         NEW k \in {"install", "file", "user"}, NEW c \in Calls \cup {NoCall},
         c # NoCall <=> k = "install", Idle(u)
  PROVE  /\ Fit(Begin(u, f, Job(k, c)))
         /\ Begin(u, f, Job(k, c)).job = Job(k, c)
         /\ Begin(u, f, Job(k, c)).shown = u.shown
  <1>1. Job(k, c) \in Jobs /\ Job(k, c) # NoJob
    BY DEF Job, Jobs, NoJob
  <1>2. Begin(u, f, Job(k, c)) \in States
    BY <1>1 DEF Begin, States
  <1>3. /\ Begin(u, f, Job(k, c)).flow = f
        /\ Begin(u, f, Job(k, c)).job = Job(k, c)
        /\ Begin(u, f, Job(k, c)).stack = IF f = "local" THEN 1 ELSE 0
        /\ Begin(u, f, Job(k, c)).shown = u.shown
    BY DEF Begin, States
  <1> QED
    BY <1>1, <1>2, <1>3 DEF Fit, StackFits, Idle, Job

\* So does a refresh, whose progress bar is put up at once.
LEMMA StartCheckFits ==
  ASSUME NEW u \in States, Idle(u)
  PROVE  /\ Fit(StartCheck(u))
         /\ StartCheck(u).job.kind = "check" /\ StartCheck(u).job.call = NoCall
         /\ StartCheck(u).shown = u.shown
  <1> DEFINE b == Begin(u, "local", Job("check", NoCall))
  <1>1. Job("check", NoCall) \in Jobs
    BY DEF Job, Jobs
  <1>2. /\ b \in States /\ b.flow = "local" /\ b.stack = 1 /\ b.shown = u.shown
        /\ b.job = Job("check", NoCall)
    BY <1>1 DEF Begin, States
  <1> HIDE DEF b
  <1> DEFINE j == [b.job EXCEPT !.dialogs = @ + 1]
  <1>3. j = [kind |-> "check", call |-> NoCall, dialogs |-> 1]
    BY <1>2 DEF Job
  <1>4. j \in Jobs
    BY <1>3 DEF Jobs
  <1> HIDE DEF j
  <1>5. /\ PushDialog(b) \in States /\ PushDialog(b).flow = "local"
        /\ PushDialog(b).stack = 2 /\ PushDialog(b).shown = u.shown
        /\ PushDialog(b).job = [kind |-> "check", call |-> NoCall, dialogs |-> 1]
    <2>1. PushDialog(b) = [[b EXCEPT !.stack = b.stack + 1] EXCEPT !.job = j]
      BY <1>2 DEF PushDialog, j, States
    <2> DEFINE p == PushDialog(b)
    <2> HIDE DEF p
    <2>2. p = [[b EXCEPT !.stack = 2] EXCEPT !.job = j]
      BY <2>1, <1>2 DEF p
    <2>3. p \in States
      BY <2>2, <1>2, <1>4 DEF States
    <2>4. p.flow = "local" /\ p.stack = 2 /\ p.shown = u.shown /\ p.job = j
      BY <2>2, <1>2 DEF States
    <2> QED
      BY <2>3, <2>4, <1>3 DEF p
  <1>6. Fit(PushDialog(b))
    BY <1>5 DEF Fit, StackFits, Idle, NoJob
  <1> QED
    BY <1>5, <1>6 DEF StartCheck, b

\* Resetting the timer and presenting the window change no flow.
LEMMA ResetFits ==
  ASSUME NEW u \in States
  PROVE  /\ ResetIdleTimer(u) \in States
         /\ ResetIdleTimer(u).job = u.job /\ ResetIdleTimer(u).flow = u.flow
         /\ ResetIdleTimer(u).stack = u.stack /\ ResetIdleTimer(u).tasks = u.tasks
         /\ ResetIdleTimer(u).shown = u.shown
         /\ Fit(u) => Fit(ResetIdleTimer(u))
  <1>1. /\ ResetIdleTimer(u) \in States
        /\ ResetIdleTimer(u).job = u.job /\ ResetIdleTimer(u).flow = u.flow
        /\ ResetIdleTimer(u).stack = u.stack /\ ResetIdleTimer(u).tasks = u.tasks
        /\ ResetIdleTimer(u).shown = u.shown
    BY DEF ResetIdleTimer, States, Idle
  <1> QED
    BY <1>1 DEF Fit, StackFits, Idle

LEMMA PresentFits ==
  ASSUME NEW u \in States
  PROVE  /\ Present(u) \in States /\ Present(u).job = u.job
         /\ Present(u).shown = TRUE
         /\ Idle(Present(u)) <=> Idle(u)
         /\ Fit(u) => Fit(Present(u))
  <1> DEFINE r == ResetIdleTimer(u)
  <1>1. /\ r \in States /\ r.job = u.job /\ r.flow = u.flow /\ r.stack = u.stack
        /\ r.tasks = u.tasks /\ (Fit(u) => Fit(r))
    BY ResetFits
  <1> HIDE DEF r
  <1>2. Present(u) = [r EXCEPT !.shown = TRUE]
    BY DEF Present, r
  <1>3. /\ Present(u) \in States /\ Present(u).shown = TRUE
        /\ Present(u).job = r.job /\ Present(u).flow = r.flow
        /\ Present(u).stack = r.stack /\ Present(u).tasks = r.tasks
    BY <1>1, <1>2 DEF States
  <1> QED
    BY <1>1, <1>3 DEF Fit, StackFits, Idle

\* Taking up a task leaves nothing queued when idle.
LEMMA ConsumeFits ==
  ASSUME NEW u \in States, StackFits(u)
  PROVE  Fit(Consume(u)) /\ SameOrOwn(u, Consume(u)) /\ Consume(u).shown = u.shown
  <1>1. CASE ~Idle(u) \/ u.tasks = <<>>
    BY <1>1 DEF Consume, Fit, SameOrOwn
  <1>2. CASE Idle(u) /\ u.tasks # <<>>
    <2> DEFINE ts == IF Head(u.tasks) = "file" THEN Tail(u.tasks)
                     ELSE Append(Tail(u.tasks), Head(u.tasks))
               v == [u EXCEPT !.tasks = ts]
    <2>0. u.tasks \in Seq(Files)
      BY DEF States
    <2>1. ts \in Seq(Files)
      BY <1>2, <2>0
    <2> HIDE DEF ts
    <2>2. v \in States /\ Idle(v) /\ v.shown = u.shown
      BY <1>2, <2>1 DEF States, Idle
    <2>3. Consume(u) = Begin(v, "local", Job("file", NoCall))
      BY <1>2 DEF Consume, ts
    <2> HIDE DEF v
    <2> QED
      BY <2>2, <2>3, BeginFits DEF SameOrOwn, Job
  <1> QED
    BY <1>1, <1>2

\* The end of a flow whose dialogs are closed.
LEMMA EndFlowFits ==
  ASSUME NEW u \in States, u.flow # "none", u.stack = IF u.flow = "local" THEN 1 ELSE 0
  PROVE  /\ Balanced(u)
         /\ Fit(EndFlow(u)) /\ EndFlow(u).shown = u.shown
         /\ EndFlow(u).job = NoJob \/ EndFlow(u).job.kind = "file"
         /\ EndFlow(u).flow = "none" => EndFlow(u).job = NoJob
  <1> DEFINE e == [u EXCEPT !.flow = "none", !.job = NoJob,
                            !.stack = IF u.flow = "local" THEN @ - 1 ELSE @]
             r == ResetIdleTimer(e)
  <1>2. e \in States /\ e.flow = "none" /\ e.job = NoJob /\ e.stack = 0 /\ e.shown = u.shown
    <2>1. (IF u.flow = "local" THEN u.stack - 1 ELSE u.stack) = 0
      OBVIOUS
    <2>2. e = [[[u EXCEPT !.flow = "none"] EXCEPT !.job = NoJob] EXCEPT !.stack = 0]
      BY <2>1 DEF States
    <2> HIDE DEF e
    <2>3. e \in States
      BY <2>2 DEF States
    <2>4. e.flow = "none" /\ e.job = NoJob /\ e.stack = 0 /\ e.shown = u.shown
      BY <2>2 DEF States
    <2> QED
      BY <2>3, <2>4
  <1> HIDE DEF e
  <1>3. /\ r \in States /\ r.flow = "none" /\ r.job = NoJob /\ r.stack = 0
        /\ r.shown = u.shown
    BY <1>2, ResetFits
  <1> HIDE DEF r
  <1>4. StackFits(r)
    BY <1>3 DEF StackFits, NoJob
  <1>5. EndFlow(u) = Consume(r)
    BY DEF EndFlow, e, r
  <1>6. /\ Fit(EndFlow(u)) /\ SameOrOwn(r, EndFlow(u)) /\ EndFlow(u).shown = u.shown
    BY <1>3, <1>4, <1>5, ConsumeFits
  <1>7. EndFlow(u).job = NoJob \/ EndFlow(u).job.kind = "file"
    <2>1. CASE ~Idle(r) \/ r.tasks = <<>>
      BY <2>1, <1>3, <1>5 DEF Consume
    <2>2. CASE Idle(r) /\ r.tasks # <<>>
      BY <2>2, <1>3, <1>5 DEF Consume, Begin, Job, States
    <2> QED
      BY <2>1, <2>2
  <1> QED
    BY <1>6, <1>7 DEF Balanced, Fit, StackFits

\* The end of a flow that still has dialogs up over a foreign window keeps the
\* types.
LEMMA EndFlowTypes ==
  ASSUME NEW u \in States, u.flow # "none", u.flow = "local" => u.stack = 1
  PROVE  EndFlow(u) \in States
  <1> DEFINE n == IF u.flow = "local" THEN u.stack - 1 ELSE u.stack
             e == [u EXCEPT !.flow = "none", !.job = NoJob,
                            !.stack = IF u.flow = "local" THEN @ - 1 ELSE @]
             r == ResetIdleTimer(e)
  <1>1. n \in Nat
    BY DEF States
  <1>2. e = [[[u EXCEPT !.flow = "none"] EXCEPT !.job = NoJob] EXCEPT !.stack = n]
    BY DEF States
  <1> HIDE DEF n, e
  <1>3. e \in States /\ e.flow = "none" /\ e.job = NoJob
    BY <1>1, <1>2 DEF States
  <1>4. r \in States /\ r.flow = "none" /\ r.job = NoJob
    BY <1>3, ResetFits
  <1> HIDE DEF r
  <1>5. CASE r.stack = 0
    <2>1. StackFits(r)
      BY <1>4, <1>5 DEF StackFits, NoJob
    <2> QED
      BY <1>4, <2>1, ConsumeFits DEF EndFlow, Fit, e, r
  <1>6. CASE r.stack # 0
    BY <1>4, <1>6 DEF EndFlow, Consume, Idle, e, r
  <1> QED
    BY <1>5, <1>6

\* What else is in ui does not matter.
LEMMA SameFits ==
  ASSUME NEW u, Fit(u), NEW v \in States,
         v.job = u.job, v.flow = u.flow, v.stack = u.stack, v.tasks = u.tasks
  PROVE  Fit(v)
  BY DEF Fit, StackFits, Idle

LEMMA IdleHasNoJob ==
  ASSUME NEW u, Fit(u), Idle(u)
  PROVE  u.job = NoJob /\ u.job.call = NoCall
  BY DEF Fit, StackFits, Idle, NoJob

LEMMA NoCallNoInstall ==
  ASSUME NEW u, Fit(u), u.job.call = NoCall
  PROVE  u.job.kind # "install"
  BY DEF Fit, StackFits

LEMMA ShowViewFits ==
  ASSUME NEW u, Fit(u), NEW v \in ShowView(u)
  PROVE  Fit(v) /\ v.shown = u.shown /\ v.job.call = u.job.call
         /\ (v.job = u.job \/ (v.job.kind = "check" /\ Idle(u)))
  <1>0. u \in States
    BY DEF Fit
  <1>1. CASE v = ResetIdleTimer(u)
    BY <1>0, <1>1, ResetFits
  <1>2. CASE Idle(u) /\ v = ResetIdleTimer(StartCheck(u))
    <2>1. /\ Fit(StartCheck(u)) /\ StartCheck(u).job.kind = "check"
          /\ StartCheck(u).job.call = NoCall /\ StartCheck(u).shown = u.shown
      BY <1>0, <1>2, StartCheckFits
    <2>2. u.job.call = NoCall
      BY <1>2, IdleHasNoJob
    <2> QED
      BY <1>2, <2>1, <2>2, ResetFits DEF Fit
  <1> QED
    BY <1>1, <1>2 DEF ShowView

LEMMA InstallFromFileFits ==
  ASSUME NEW u, Fit(u), NEW file \in Files
  PROVE  /\ Fit(InstallFromFile(u, file))
         /\ InstallFromFile(u, file).job.call = u.job.call
         /\ \/ InstallFromFile(u, file).job = u.job
            \/ InstallFromFile(u, file).job.kind = "file" /\ Idle(u)
  <1>0. u \in States
    BY DEF Fit
  <1>1. CASE Idle(u)
    BY <1>0, <1>1, BeginFits, IdleHasNoJob DEF InstallFromFile, Job
  <1>2. CASE ~Idle(u)
    <2> DEFINE v == [u EXCEPT !.tasks = Append(@, file)]
    <2>1. /\ v \in States /\ v.job = u.job /\ v.flow = u.flow /\ v.stack = u.stack
      BY <1>0 DEF States
    <2> HIDE DEF v
    <2>2. Fit(v)
      BY <1>2, <2>1 DEF Fit, StackFits, Idle
    <2>3. InstallFromFile(u, file) = v
      BY <1>2 DEF InstallFromFile, v
    <2> QED
      BY <2>1, <2>2, <2>3
  <1> QED
    BY <1>1, <1>2

\* Opening a dialog
LEMMA PushFits ==
  ASSUME NEW u, Fit(u), u.job.kind \in {"install", "file", "user"}
  PROVE  /\ Fit(PushDialog(u)) /\ PushDialog(u).job.call = u.job.call
         /\ PushDialog(u).job.kind = u.job.kind
  <1> DEFINE j == [u.job EXCEPT !.dialogs = @ + 1]
             p == PushDialog(u)
  <1>0. u \in States /\ u.flow # "none" /\ u.job \in Jobs
    BY DEF Fit, StackFits, States, NoJob
  <1>1. /\ j \in Jobs /\ j.kind = u.job.kind /\ j.call = u.job.call
        /\ j.dialogs = u.job.dialogs + 1
    BY <1>0 DEF Jobs
  <1> HIDE DEF j
  <1>2. p = [[u EXCEPT !.stack = u.stack + 1] EXCEPT !.job = j]
    BY <1>0 DEF PushDialog, j, States
  <1> HIDE DEF p
  <1>3. p \in States
    <2>1. u.stack + 1 \in Nat
      BY <1>0 DEF States
    <2>2. [u EXCEPT !.stack = u.stack + 1] \in States
      BY <1>0, <2>1 DEF States
    <2> QED
      BY <1>1, <1>2, <2>2 DEF States
  <1>4. p.flow = u.flow /\ p.stack = u.stack + 1 /\ p.job = j
    BY <1>0, <1>2 DEF States
  <1>5. Fit(p)
    BY <1>0, <1>1, <1>3, <1>4 DEF Fit, StackFits, Idle, NoJob, States, Jobs
  <1> QED
    BY <1>1, <1>4, <1>5 DEF p

\* Closing a dialog: the flow is still there, and no task is taken up.
LEMMA PopFits ==
  ASSUME NEW u, Fit(u), u.job # NoJob, u.job.dialogs > 0
  PROVE  /\ PopDialog(u) \in States /\ PopDialog(u).flow = u.flow
         /\ PopDialog(u).stack = u.stack - 1
         /\ PopDialog(u).shown = u.shown
         /\ PopDialog(u).job \in Jobs
         /\ PopDialog(u).job.call = u.job.call /\ PopDialog(u).job.kind = u.job.kind
         /\ PopDialog(u).job.dialogs = u.job.dialogs - 1
  <1> DEFINE j == [u.job EXCEPT !.dialogs = @ - 1]
             p == [u EXCEPT !.stack = @ - 1, !.job.dialogs = @ - 1]
  <1>0. u \in States /\ u.flow # "none" /\ u.job \in Jobs /\ u.stack > 0
    BY DEF Fit, StackFits, States, NoJob, Jobs
  <1>1. /\ j \in Jobs /\ j.kind = u.job.kind /\ j.call = u.job.call
        /\ j.dialogs = u.job.dialogs - 1
    BY <1>0 DEF Jobs
  <1> HIDE DEF j
  <1>2. p = [[u EXCEPT !.stack = u.stack - 1] EXCEPT !.job = j]
    BY <1>0 DEF j, States
  <1>3. PopDialog(u) = Consume(p)
    BY DEF PopDialog
  <1> HIDE DEF p
  <1>4. p \in States
    <2>1. u.stack - 1 \in Nat
      BY <1>0 DEF States
    <2>2. [u EXCEPT !.stack = u.stack - 1] \in States
      BY <1>0, <2>1 DEF States
    <2> QED
      BY <1>1, <1>2, <2>2 DEF States
  <1>5. p.flow = u.flow /\ p.stack = u.stack - 1 /\ p.job = j /\ p.shown = u.shown
    BY <1>0, <1>2 DEF States
  <1>6. PopDialog(u) = p
    BY <1>0, <1>3, <1>5 DEF Consume, Idle
  <1> QED
    BY <1>1, <1>4, <1>5, <1>6

-----------------------------------------------------------------------------
(* Who is waiting *)

In(w) == {w[i] : i \in 1 .. Len(w)}

Asking == {"packages", "foreign"}

\* The kinds of the calls with one reply
Single == Kinds \ {"bad_install", "bad_search"}

LEMMA OneReply ==
  /\ RepliesTo("search") = 1
  /\ \A k \in Single : RepliesTo(k) = 1
  /\ Asking \cup {"search"} \subseteq Single
  BY DEF RepliesTo, Single, Kinds, Asking

\* What the calls cl, those that wait, the flow's call and the replies are like,
\* except for the call x.
Accounted(cl, w, jc, r, x) ==
  /\ \A c \in In(w) : cl[c] \in Asking \cup {"search"} /\ c # jc
  /\ \A i, j \in 1 .. Len(w) : w[i] = w[j] => i = j
  /\ jc # NoCall => jc \in Calls /\ cl[jc] \in Asking
  /\ \A c \in Calls \ {x} :
       r[c] = IF cl[c] = NoCall THEN 0
              ELSE IF cl[c] \in Asking /\ (c \in In(w) \/ jc = c) THEN 0
              ELSE RepliesTo(cl[c])

\* The outstanding requests l.gets, while the kind of the flow is k
ListFits(l, k) ==
  /\ \A i, j \in 1 .. Len(l.gets) :
       l.gets[i] = "rpcwu_end" =>
         /\ k = "listing"
         /\ l.gets[j] = "rpcwu_end" => i = j
  /\ k = "install" => l.available

ListTypes == [first : {"nobody", "init", "other"},
              gets : Seq({"init", "none", "rpcwu_end"}), available : BOOLEAN]

\* The invariant, taken apart
Inv(u, l, w, cl, r) ==
  /\ Fit(u) /\ l \in ListTypes /\ w \in Seq(Calls)
  /\ cl \in [Calls -> Kinds \cup {NoCall}] /\ r \in [Calls -> Nat]
  /\ ListFits(l, u.job.kind)
  /\ Accounted(cl, w, u.job.call, r, NoCall)

LEMMA InvApart ==
  mode = "running" => (InteractionInv <=> Inv(ui, lists, waiters, call, replies))
  <1> SUFFICES ASSUME mode = "running"
               PROVE  InteractionInv <=> Inv(ui, lists, waiters, call, replies)
    OBVIOUS
  <1>1. Calls \ {NoCall} = Calls
    BY InteractionAssumption DEF NoCall
  <1>2. CASE TypeOK
    <2>1. Fit(ui) <=> StackFits(ui) /\ NothingForgotten
      BY <1>2 DEF TypeOK, Fit, NothingForgotten
    <2>2. ListFits(lists, ui.job.kind) <=> ListingFits
      BY DEF ListFits, ListingFits
    <2>3. StackFits(ui) => (ui.job.call # NoCall <=> ui.job.kind = "install")
      BY DEF StackFits
    <2>4. StackFits(ui) =>
            (Accounted(call, waiters, ui.job.call, replies, NoCall)
              <=> WaitersFit /\ EveryCallAccounted)
      BY <1>1, <2>3 DEF Accounted, WaitersFit, EveryCallAccounted, WaitersSet, In,
                        Installs, Asking
    <2> QED
      BY <1>2, <2>1, <2>2, <2>4 DEF InteractionInv, Inv, TypeOK, ListTypes, Fit
  <1>3. CASE ~TypeOK
    BY <1>3 DEF InteractionInv, Inv, TypeOK, Fit, ListTypes
  <1> QED
    BY <1>2, <1>3

\* A step of the program that goes on, or exits, from a state that fits to one
\* that does.
LEMMA InvTogether ==
  ASSUME mode' \in {"running", "exited"},
         Inv(ui, lists, waiters, call, replies)'
  PROVE  InteractionInv'
  <1>1. CASE mode' = "running"
    <2>1. (mode = "running" => (InteractionInv <=> Inv(ui, lists, waiters, call, replies)))'
      BY InvApart, PTL
    <2> QED
      BY <1>1, <2>1
  <1>2. CASE mode' = "exited"
    BY <1>2 DEF InteractionInv, Inv, TypeOK, Fit, ListTypes, NothingForgotten,
                EveryCallAccounted
  <1> QED
    BY <1>1, <1>2

\* Asking for the list without a flow that waits for it
LEMMA GetFits ==
  ASSUME NEW l \in ListTypes, NEW k, ListFits(l, k), NEW cont \in {"init", "none"}
  PROVE  GetPackageList(l, cont) \in ListTypes /\ ListFits(GetPackageList(l, cont), k)
  <1> DEFINE g == Append(l.gets, cont)
  <1>1. l.gets \in Seq({"init", "none", "rpcwu_end"})
    BY DEF ListTypes
  <1>2. /\ g \in Seq({"init", "none", "rpcwu_end"}) /\ Len(g) = Len(l.gets) + 1
        /\ \A i \in 1 .. Len(l.gets) : g[i] = l.gets[i]
        /\ g[Len(g)] = cont
    BY <1>1
  <1>3. Len(l.gets) \in Nat
    BY <1>1
  <1> HIDE DEF g
  <1>4. /\ GetPackageList(l, cont) \in ListTypes /\ GetPackageList(l, cont).gets = g
        /\ GetPackageList(l, cont).available = l.available
    BY <1>2 DEF GetPackageList, ListTypes, g
  <1>5. \A i \in 1 .. Len(g) : g[i] = "rpcwu_end" => i \in 1 .. Len(l.gets)
    BY <1>2, <1>3
  <1> QED
    BY <1>2, <1>4, <1>5 DEF ListFits

LEMMA MaybeInitFits ==
  ASSUME NEW l \in ListTypes, NEW k, ListFits(l, k)
  PROVE  MaybeInit(l) \in ListTypes /\ ListFits(MaybeInit(l), k)
  BY GetFits DEF MaybeInit

\* A request that is answered is gone; if a flow waited for it, nobody does now.
LEMMA TailFits ==
  ASSUME NEW l \in ListTypes, NEW k, ListFits(l, k), l.gets # <<>>,
         NEW a \in BOOLEAN, l.available => a
  PROVE  LET m == [l EXCEPT !.gets = Tail(@), !.available = a] IN
         /\ m \in ListTypes /\ ListFits(m, k)
         /\ Head(l.gets) = "rpcwu_end" => k = "listing" /\ \A q \in {"none", "file"} : ListFits(m, q)
  <1> DEFINE g == Tail(l.gets)
             m == [l EXCEPT !.gets = Tail(@), !.available = a]
  <1>1. l.gets \in Seq({"init", "none", "rpcwu_end"}) /\ Len(l.gets) \in Nat \ {0}
    BY DEF ListTypes
  <1>2. /\ g \in Seq({"init", "none", "rpcwu_end"}) /\ Len(g) = Len(l.gets) - 1
        /\ \A i \in 1 .. Len(g) : g[i] = l.gets[i + 1]
        /\ Head(l.gets) = l.gets[1]
    BY <1>1
  <1>3. \A i \in 1 .. Len(g) : i + 1 \in 1 .. Len(l.gets)
    BY <1>1, <1>2
  <1>4. m \in ListTypes /\ m.gets = g /\ m.available = a
    BY <1>2 DEF ListTypes
  <1> HIDE DEF g, m
  <1>5. ListFits(m, k)
    <2> SUFFICES ASSUME NEW i \in 1 .. Len(g), NEW j \in 1 .. Len(g), g[i] = "rpcwu_end"
                 PROVE  k = "listing" /\ (g[j] = "rpcwu_end" => i = j)
      BY <1>4 DEF ListFits
    <2>1. i + 1 \in 1 .. Len(l.gets) /\ j + 1 \in 1 .. Len(l.gets)
      BY <1>3
    <2>2. g[i] = l.gets[i + 1] /\ g[j] = l.gets[j + 1]
      BY <1>2
    <2>3. k = "listing" /\ (l.gets[j + 1] = "rpcwu_end" => i + 1 = j + 1)
      BY <2>1, <2>2 DEF ListFits
    <2> QED
      BY <2>2, <2>3
  <1>6. ASSUME Head(l.gets) = "rpcwu_end"
        PROVE  k = "listing" /\ \A q \in {"none", "file"} : ListFits(m, q)
    <2>1. 1 \in 1 .. Len(l.gets)
      BY <1>1
    <2>2. k = "listing" /\ \A j \in 1 .. Len(l.gets) : l.gets[j] = "rpcwu_end" => 1 = j
      BY <1>2, <1>6, <2>1 DEF ListFits
    <2>3. \A i \in 1 .. Len(g) : g[i] # "rpcwu_end"
      BY <1>1, <1>2, <1>3, <2>2
    <2> QED
      BY <1>4, <2>2, <2>3 DEF ListFits
  <1> QED
    BY <1>4, <1>5, <1>6 DEF m

LEMMA NotListing ==
  ASSUME NEW l, NEW k, ListFits(l, k), k # "listing"
  PROVE  \A q : (q = "install" => l.available) => ListFits(l, q)
  BY DEF ListFits

-----------------------------------------------------------------------------
(* Calls and replies *)

\* A call that has not been received yet has no part in anything.
LEMMA NewCall ==
  ASSUME Inv(ui, lists, waiters, call, replies), NEW c \in Calls, call[c] = NoCall,
         NEW k \in Kinds
  PROVE  /\ replies[c] = 0 /\ c \notin In(waiters) /\ c # ui.job.call
         /\ [call EXCEPT ![c] = k] \in [Calls -> Kinds \cup {NoCall}]
         /\ [call EXCEPT ![c] = k][c] = k
         /\ Accounted([call EXCEPT ![c] = k], waiters, ui.job.call, replies, c)
  <1> DEFINE cl == [call EXCEPT ![c] = k]
  <1>1. c # NoCall /\ NoCall \notin Asking \cup {"search"}
    BY InteractionAssumption DEF NoCall, Asking
  <1>2. Accounted(call, waiters, ui.job.call, replies, NoCall) /\ call \in [Calls -> Kinds \cup {NoCall}]
    BY DEF Inv
  <1>3. replies[c] = 0 /\ c \notin In(waiters) /\ c # ui.job.call
    BY <1>1, <1>2 DEF Accounted
  <1>4. cl \in [Calls -> Kinds \cup {NoCall}] /\ cl[c] = k /\ \A d \in Calls \ {c} : cl[d] = call[d]
    BY <1>2
  <1> HIDE DEF cl
  <1>5. In(waiters) \subseteq Calls
    BY DEF Inv, In
  <1>6. Accounted(cl, waiters, ui.job.call, replies, c)
    <2>1. \A d \in In(waiters) : cl[d] \in Asking \cup {"search"} /\ d # ui.job.call
      BY <1>2, <1>3, <1>4, <1>5 DEF Accounted
    <2>2. ui.job.call # NoCall => ui.job.call \in Calls /\ cl[ui.job.call] \in Asking
      BY <1>2, <1>3, <1>4 DEF Accounted
    <2>3. \A d \in Calls \ {c} :
            replies[d] = IF cl[d] = NoCall THEN 0
                         ELSE IF cl[d] \in Asking /\ (d \in In(waiters) \/ ui.job.call = d)
                              THEN 0 ELSE RepliesTo(cl[d])
      <3>1. \A d \in Calls : d # NoCall
        BY InteractionAssumption DEF NoCall
      <3> QED
        BY <1>2, <1>4, <3>1 DEF Accounted
    <2>4. \A i, j \in 1 .. Len(waiters) : waiters[i] = waiters[j] => i = j
      BY <1>2 DEF Accounted
    <2> QED
      BY <2>1, <2>2, <2>3, <2>4 DEF Accounted
  <1> QED
    BY <1>3, <1>4, <1>6 DEF cl

\* The call x is replied to at once, or when its flow is refused.
LEMMA ReplyFits ==
  ASSUME NEW cl, NEW w, NEW jc, NEW r \in [Calls -> Nat], NEW x \in Calls,
         Accounted(cl, w, jc, r, x), r[x] = 0, cl[x] # NoCall, cl[x] \in Single,
         x \notin In(w), x # jc
  PROVE  /\ [r EXCEPT ![x] = @ + 1] \in [Calls -> Nat]
         /\ [r EXCEPT ![x] = @ + 1][x] = 1
         /\ Accounted(cl, w, jc, [r EXCEPT ![x] = @ + 1], NoCall)
         /\ Accounted(cl, w, jc, [r EXCEPT ![x] = @ + 1], x)
  BY OneReply DEF Accounted

\* The call x starts to wait.
LEMMA WaitFits ==
  ASSUME NEW cl, NEW w \in Seq(Calls), NEW jc, NEW r, NEW x \in Calls,
         Accounted(cl, w, jc, r, x), x \notin In(w), x # jc,
         cl[x] \in Asking \cup {"search"}, r[x] = IF cl[x] = "search" THEN 1 ELSE 0
  PROVE  <<x>> \o w \in Seq(Calls) /\ Accounted(cl, <<x>> \o w, jc, r, NoCall)
  <1> DEFINE v == <<x>> \o w
  <1>1. /\ v \in Seq(Calls) /\ Len(v) = Len(w) + 1 /\ Len(w) \in Nat
        /\ v[1] = x /\ \A i \in 2 .. Len(v) : v[i] = w[i - 1]
    OBVIOUS
  <1> HIDE DEF v
  <1>2. \A i \in 2 .. Len(v) : i - 1 \in 1 .. Len(w) /\ v[i] \in In(w)
    BY <1>1 DEF In
  <1>3. In(v) = In(w) \cup {x}
    <2>1. In(v) \subseteq In(w) \cup {x}
      <3> SUFFICES ASSUME NEW i \in 1 .. Len(v) PROVE v[i] \in In(w) \cup {x}
        BY DEF In
      <3>1. i = 1 \/ i \in 2 .. Len(v)
        BY <1>1
      <3> QED
        BY <1>1, <1>2, <3>1
    <2>2. x \in In(v)
      <3>1. 1 \in 1 .. Len(v)
        BY <1>1
      <3> QED
        BY <1>1, <3>1 DEF In
    <2>3. ASSUME NEW i \in 1 .. Len(w) PROVE w[i] \in In(v)
      <3>1. i + 1 \in 2 .. Len(v) /\ i + 1 \in 1 .. Len(v) /\ (i + 1) - 1 = i
        BY <1>1
      <3>2. v[i + 1] = w[i]
        BY <1>1, <3>1
      <3> QED
        BY <3>1, <3>2 DEF In
    <2> QED
      BY <2>1, <2>2, <2>3 DEF In
  <1>4. \A i, j \in 1 .. Len(v) : v[i] = v[j] => i = j
    <2> SUFFICES ASSUME NEW i \in 1 .. Len(v), NEW j \in 1 .. Len(v), v[i] = v[j]
                 PROVE  i = j
      OBVIOUS
    <2>1. (i = 1 \/ i \in 2 .. Len(v)) /\ (j = 1 \/ j \in 2 .. Len(v))
      BY <1>1
    <2>2. CASE i \in 2 .. Len(v) /\ j \in 2 .. Len(v)
      <3>1. w[i - 1] = w[j - 1] /\ i - 1 \in 1 .. Len(w) /\ j - 1 \in 1 .. Len(w)
        BY <1>1, <1>2, <2>2
      <3>2. i - 1 = j - 1
        BY <3>1 DEF Accounted
      <3> QED
        BY <3>2
    <2> QED
      BY <1>1, <1>2, <2>1, <2>2
  <1>5. Accounted(cl, v, jc, r, NoCall)
    <2>1. "search" \notin Asking /\ NoCall \notin Asking \cup {"search"}
      BY DEF Asking, NoCall
    <2>2. \A c \in Calls : r[c] = IF cl[c] = NoCall THEN 0
              ELSE IF cl[c] \in Asking /\ (c \in In(v) \/ jc = c) THEN 0
              ELSE RepliesTo(cl[c])
      <3> SUFFICES ASSUME NEW c \in Calls
                   PROVE  r[c] = IF cl[c] = NoCall THEN 0
                            ELSE IF cl[c] \in Asking /\ (c \in In(v) \/ jc = c) THEN 0
                            ELSE RepliesTo(cl[c])
        OBVIOUS
      <3>1. CASE c = x
        <4>1. c \in In(v)
          BY <1>3, <3>1
        <4>2. CASE cl[c] = "search"
          BY <2>1, <3>1, <4>2, OneReply
        <4>3. CASE cl[c] \in Asking
          BY <2>1, <3>1, <4>1, <4>3
        <4> QED
          BY <3>1, <4>2, <4>3
      <3>2. CASE c # x
        BY <1>3, <3>2 DEF Accounted
      <3> QED
        BY <3>1, <3>2
    <2> QED
      BY <1>3, <1>4, <2>2 DEF Accounted
  <1> QED
    BY <1>1, <1>5 DEF v

\* The flow of the call x starts.
LEMMA FlowStartsFits ==
  ASSUME NEW cl, NEW w, NEW r, NEW x \in Calls,
         Accounted(cl, w, NoCall, r, x), x \notin In(w), cl[x] \in Asking, r[x] = 0
  PROVE  Accounted(cl, w, x, r, NoCall)
  <1>1. NoCall \notin Calls /\ NoCall \notin Asking
    BY InteractionAssumption DEF NoCall, Asking
  <1> QED
    BY <1>1 DEF Accounted

\* dip_with_initialized_packages: the flow starts, or the call is refused.
LEMMA StartInstallFits ==
  ASSUME NEW u, Fit(u), mode = "running", NEW f \in {"local", "foreign"},
         NEW cl, NEW w, NEW c \in Calls, replies \in [Calls -> Nat],
         Accounted(cl, w, u.job.call, replies, c), replies[c] = 0,
         c \notin In(w), c # u.job.call, cl[c] \in Asking,
         StartInstall(c, f, u)
  PROVE  /\ Fit(ui') /\ mode' \in {"running", "exited"} /\ replies' \in [Calls -> Nat]
         /\ Accounted(cl, w, ui'.job.call, replies', NoCall)
         /\ (ui'.job = u.job \/ (Idle(u) /\ ui'.job.kind = "install"))
  <1>1. CASE Idle(u)
    <2>1. c # NoCall
      BY InteractionAssumption DEF NoCall
    <2>2. ui' = Begin(u, f, Job("install", c)) /\ UNCHANGED <<replies, mode>>
      BY <1>1 DEF StartInstall
    <2>3. Fit(ui') /\ ui'.job = Job("install", c)
      BY <1>1, <2>1, <2>2, BeginFits DEF Fit
    <2>4. ui'.job.call = c /\ ui'.job.kind = "install"
      BY <2>3 DEF Job
    <2>5. u.job.call = NoCall
      BY <1>1, IdleHasNoJob
    <2>6. Accounted(cl, w, c, replies, NoCall)
      BY <2>5, FlowStartsFits
    <2> QED
      BY <1>1, <2>2, <2>3, <2>4, <2>6
  <1>2. CASE ~Idle(u)
    <2>1. EndCall(c, u)
      BY <1>2 DEF StartInstall
    <2>2. ui' = u /\ replies' = [replies EXCEPT ![c] = @ + 1] /\ mode' \in {"running", "exited"}
      BY <2>1 DEF EndCall, Replied
    <2>3. cl[c] # NoCall /\ cl[c] \in Single
      BY OneReply DEF Asking, NoCall
    <2> QED
      BY <2>2, <2>3, ReplyFits
  <1> QED
    BY <1>1, <1>2

\* dsp_with_initialized_packages, for a window that has been presented
LEMMA ShowResultsFits ==
  ASSUME Fit(ui), mode = "running", ShowResults(Present(ui)), NEW l,
         ListFits(l, ui.job.kind)
  PROVE  /\ Fit(ui') /\ mode' = "running" /\ ui'.job.call = ui.job.call
         /\ ListFits(l, ui'.job.kind)
  <1> DEFINE u == Present(ui)
  <1>1. Fit(u) /\ u.job = ui.job
    BY PresentFits DEF Fit
  <1>2. mode' = "running" /\ (ui' = u \/ (Idle(u) /\ ui' \in ShowView(u)))
    BY DEF ShowResults
  <1> HIDE DEF u
  <1>3. CASE ui' = u
    BY <1>1, <1>2, <1>3
  <1>4. CASE Idle(u) /\ ui' \in ShowView(u)
    <2>1. Fit(ui') /\ ui'.job.call = u.job.call
      BY <1>1, <1>4, ShowViewFits
    <2>2. ui.job.kind # "listing" /\ ui.job.call = NoCall
      BY <1>1, <1>4, IdleHasNoJob DEF NoJob
    <2>3. ui'.job.kind # "install"
      BY <1>1, <2>1, <2>2, NoCallNoInstall
    <2> QED
      BY <1>1, <1>2, <2>1, <2>2, <2>3, NotListing
  <1> QED
    BY <1>2, <1>3, <1>4

\* What with_initialized_packages calls
LEMMA ContinuationFits ==
  ASSUME Fit(ui), mode = "running", NEW cl, NEW w, NEW c \in Calls,
         replies \in [Calls -> Nat], NEW l, ListFits(l, ui.job.kind), l.available,
         Accounted(cl, w, ui.job.call, replies, c),
         c \notin In(w), c # ui.job.call,
         replies[c] = IF cl[c] = "search" THEN 1 ELSE 0,
         Continuation(c, cl[c])
  PROVE  /\ Fit(ui') /\ mode' \in {"running", "exited"} /\ replies' \in [Calls -> Nat]
         /\ ListFits(l, ui'.job.kind)
         /\ Accounted(cl, w, ui'.job.call, replies', NoCall)
  <1>1. ASSUME NEW u, Fit(u), u.job = ui.job, NEW f \in {"local", "foreign"},
               cl[c] \in Asking, StartInstall(c, f, u)
        PROVE  /\ Fit(ui') /\ mode' \in {"running", "exited"}
               /\ replies' \in [Calls -> Nat] /\ ListFits(l, ui'.job.kind)
               /\ Accounted(cl, w, ui'.job.call, replies', NoCall)
    <2>0. replies[c] = 0
      BY <1>1 DEF Asking
    <2>1. /\ Fit(ui') /\ mode' \in {"running", "exited"} /\ replies' \in [Calls -> Nat]
          /\ Accounted(cl, w, ui'.job.call, replies', NoCall)
          /\ (ui'.job = u.job \/ (Idle(u) /\ ui'.job.kind = "install"))
      BY <1>1, <2>0, StartInstallFits
    <2>2. CASE ui'.job = u.job
      BY <1>1, <2>1, <2>2
    <2>3. CASE Idle(u)
      <3>1. ui.job.kind # "listing"
        BY <1>1, <2>3, IdleHasNoJob DEF NoJob
      <3> QED
        BY <2>1, <3>1, NotListing
    <2> QED
      BY <2>1, <2>2, <2>3
  <1>2. CASE cl[c] = "foreign" /\ StartInstall(c, "foreign", ui)
    BY <1>1, <1>2 DEF Asking
  <1>3. CASE cl[c] = "packages" /\ StartInstall(c, "local", Present(ui))
    <2>1. Fit(Present(ui)) /\ Present(ui).job = ui.job
      BY PresentFits DEF Fit
    <2> QED
      BY <1>1, <1>3, <2>1 DEF Asking
  <1>4. CASE cl[c] = "search" /\ ShowResults(Present(ui)) /\ UNCHANGED replies
    <2>1. /\ Fit(ui') /\ mode' = "running" /\ ui'.job.call = ui.job.call
          /\ ListFits(l, ui'.job.kind)
      BY <1>4, ShowResultsFits
    <2>2. Accounted(cl, w, ui.job.call, replies, NoCall)
      <3>1. "search" \notin Asking /\ "search" # NoCall
        BY DEF Asking, NoCall
      <3>2. replies[c] = 1
        BY <1>4
      <3> QED
        BY <1>4, <3>1, <3>2, OneReply DEF Accounted
    <2> QED
      BY <1>4, <2>1, <2>2
  <1> QED
    BY <1>2, <1>3, <1>4 DEF Continuation

\* A step that concerns no call
LEMMA QuietStep ==
  ASSUME InteractionInv, mode = "running", UNCHANGED <<waiters, call, replies, mode>>,
         Fit(ui'), ui'.job.call = ui.job.call,
         lists' \in ListTypes, ListFits(lists', ui'.job.kind)
  PROVE  InteractionInv'
  <1>1. Inv(ui, lists, waiters, call, replies)
    BY InvApart
  <1>2. Inv(ui, lists, waiters, call, replies)'
    BY <1>1 DEF Inv
  <1> QED
    BY <1>2, InvTogether

\* The flow that is running ends, as it closed its dialogs.
LEMMA JobEndsFits ==
  ASSUME InteractionInv, mode = "running", ui.flow # "none", ui.job.dialogs = 0,
         NEW l \in ListTypes, \A k \in {"none", "file"} : ListFits(l, k), JobEnds(l), UNCHANGED <<waiters, call>>
  PROVE  InteractionInv'
  <1> DEFINE u == EndFlow(ui)
  <1>1. Inv(ui, lists, waiters, call, replies)
    BY InvApart
  <1>2. ui \in States /\ StackFits(ui)
    BY <1>1 DEF Inv, Fit
  <1>3. /\ Balanced(ui) /\ Fit(u)
        /\ u.job = NoJob \/ u.job.kind = "file"
    <2>1. ui.stack = IF ui.flow = "local" THEN 1 ELSE 0
      BY <1>2 DEF StackFits, States
    <2> QED
      BY <1>2, <2>1, EndFlowFits
  <1>4. u.job.call = NoCall
    BY <1>3 DEF Fit, StackFits, NoJob
  <1> HIDE DEF u
  <1>5. ui' = u
    BY <1>3 DEF JobEnds, EndCall, u
  <1>6. lists' \in ListTypes /\ ListFits(lists', u.job.kind)
    BY <1>3, MaybeInitFits DEF JobEnds, NoJob
  <1>7. CASE ui.job.kind = "install"
    <2> DEFINE c == ui.job.call
    <2>1. /\ mode' \in {"running", "exited"}
          /\ replies' = [replies EXCEPT ![c] = @ + 1]
      BY <1>3, <1>7 DEF JobEnds, EndCall, Replied
    <2>2. c # NoCall
      BY <1>2, <1>7 DEF StackFits
    <2>3. /\ c \in Calls /\ call[c] \in Asking /\ c \notin In(waiters) /\ replies[c] = 0
          /\ call[c] # NoCall /\ call[c] \in Single /\ replies \in [Calls -> Nat]
      <3>1. NoCall \notin Asking
        BY DEF Asking, NoCall
      <3> QED
        BY <1>1, <2>2, <3>1, OneReply DEF Inv, Accounted
    <2>4. Accounted(call, waiters, NoCall, replies, c)
      <3>1. \A d \in Calls : d # NoCall
        BY InteractionAssumption DEF NoCall
      <3>2. In(waiters) \subseteq Calls
        BY <1>1 DEF Inv, In
      <3>3. Accounted(call, waiters, c, replies, NoCall)
        BY <1>1 DEF Inv
      <3> HIDE DEF c
      <3>4. \A d \in Calls \ {c} :
              replies[d] = IF call[d] = NoCall THEN 0
                           ELSE IF call[d] \in Asking /\ (d \in In(waiters) \/ NoCall = d)
                                THEN 0 ELSE RepliesTo(call[d])
        BY <3>1, <3>3 DEF Accounted
      <3>5. \A d \in In(waiters) : call[d] \in Asking \cup {"search"} /\ d # NoCall
        BY <3>1, <3>2, <3>3 DEF Accounted
      <3> QED
        BY <3>3, <3>4, <3>5 DEF Accounted
    <2>5. /\ [replies EXCEPT ![c] = @ + 1] \in [Calls -> Nat]
          /\ Accounted(call, waiters, NoCall, [replies EXCEPT ![c] = @ + 1], NoCall)
      <3>1. c # NoCall
        BY <2>2
      <3> HIDE DEF c
      <3> QED
        BY <2>3, <2>4, <3>1, ReplyFits
    <2>6. Inv(ui, lists, waiters, call, replies)'
      BY <1>1, <1>3, <1>4, <1>5, <1>6, <2>1, <2>5 DEF Inv
    <2> QED
      BY <2>1, <2>6, InvTogether
  <1>8. CASE ui.job.kind # "install"
    <2>1. UNCHANGED <<replies, mode>>
      BY <1>3, <1>8 DEF JobEnds
    <2>2. ui.job.call = NoCall
      BY <1>2, <1>8 DEF StackFits
    <2> QED
      BY <1>3, <1>4, <1>5, <1>6, <2>1, <2>2, QuietStep
  <1> QED
    BY <1>7, <1>8

\* A call that is replied to at once
LEMMA AnsweredAtOnce ==
  ASSUME InteractionInv, NEW c \in Calls, NEW k \in Single, Received(c, k),
         replies' = Replied(c), UNCHANGED <<waiters, mode>>,
         Fit(ui'), ui'.job.call = ui.job.call,
         lists' \in ListTypes, ListFits(lists', ui'.job.kind)
  PROVE  InteractionInv'
  <1>1. /\ mode = "running" /\ call[c] = NoCall /\ call' = [call EXCEPT ![c] = k]
        /\ replies' = [replies EXCEPT ![c] = @ + 1]
    BY DEF Received, Runs, Replied
  <1>2. Inv(ui, lists, waiters, call, replies)
    BY <1>1, InvApart
  <1>3. /\ replies[c] = 0 /\ c \notin In(waiters) /\ c # ui.job.call
        /\ call' \in [Calls -> Kinds \cup {NoCall}] /\ call'[c] = k
        /\ Accounted(call', waiters, ui.job.call, replies, c)
    BY <1>1, <1>2, NewCall DEF Single
  <1>4. k # NoCall /\ replies \in [Calls -> Nat]
    BY <1>2 DEF Kinds, Single, NoCall, Inv
  <1>5. /\ replies' \in [Calls -> Nat]
        /\ Accounted(call', waiters, ui.job.call, replies', NoCall)
    <2> DEFINE cl == call'
               jc == ui.job.call
    <2>1. /\ cl[c] # NoCall /\ c # jc /\ c \notin In(waiters) /\ replies[c] = 0
          /\ cl[c] \in Single /\ Accounted(cl, waiters, jc, replies, c)
      BY <1>3, <1>4
    <2> HIDE DEF cl, jc
    <2>2. /\ [replies EXCEPT ![c] = @ + 1] \in [Calls -> Nat]
          /\ Accounted(cl, waiters, jc, [replies EXCEPT ![c] = @ + 1], NoCall)
      BY <1>4, <2>1, ReplyFits
    <2> QED
      BY <1>1, <2>2 DEF cl, jc
  <1>6. Inv(ui, lists, waiters, call, replies)'
    BY <1>2, <1>3, <1>5 DEF Inv
  <1> QED
    BY <1>1, <1>6, InvTogether

\* A call that waits for the list
LEMMA Waits ==
  ASSUME InteractionInv, NEW c \in Calls, NEW k \in Asking \cup {"search"}, Received(c, k),
         waiters' = <<c>> \o waiters, UNCHANGED <<ui, mode>>, lists' = MaybeInit(lists),
         replies' = IF k = "search" THEN Replied(c) ELSE replies
  PROVE  InteractionInv'
  <1>1. /\ mode = "running" /\ call[c] = NoCall /\ call' = [call EXCEPT ![c] = k]
        /\ Replied(c) = [replies EXCEPT ![c] = @ + 1]
    BY DEF Received, Runs, Replied
  <1>2. Inv(ui, lists, waiters, call, replies)
    BY <1>1, InvApart
  <1>3. k \in Kinds /\ k # NoCall /\ "search" \notin Asking
    BY DEF Kinds, NoCall, Asking
  <1>4. /\ replies[c] = 0 /\ c \notin In(waiters) /\ c # ui.job.call
        /\ call' \in [Calls -> Kinds \cup {NoCall}] /\ call'[c] = k
        /\ Accounted(call', waiters, ui.job.call, replies, c)
    BY <1>1, <1>2, <1>3, NewCall
  <1>5. /\ replies' \in [Calls -> Nat]
        /\ replies'[c] = IF k = "search" THEN 1 ELSE 0
        /\ Accounted(call', waiters, ui.job.call, replies', c)
    <2> DEFINE cl == call'
               jc == ui.job.call
    <2>0. replies \in [Calls -> Nat]
      BY <1>2 DEF Inv
    <2>1. /\ cl[c] # NoCall /\ c # jc /\ c \notin In(waiters) /\ replies[c] = 0
          /\ Accounted(cl, waiters, jc, replies, c)
      BY <1>3, <1>4
    <2> HIDE DEF cl, jc
    <2>2. /\ [replies EXCEPT ![c] = @ + 1] \in [Calls -> Nat]
          /\ [replies EXCEPT ![c] = @ + 1][c] = 1
          /\ Accounted(cl, waiters, jc, [replies EXCEPT ![c] = @ + 1], c)
      BY <2>0, <2>1 DEF Accounted
    <2>3. CASE k = "search"
      BY <1>1, <2>2, <2>3 DEF cl, jc
    <2>4. CASE k # "search"
      BY <1>4, <2>0, <2>4
    <2> QED
      BY <2>3, <2>4
  <1>6. waiters \in Seq(Calls)
    BY <1>2 DEF Inv
  <1>7. /\ waiters' \in Seq(Calls)
        /\ Accounted(call', waiters', ui.job.call, replies', NoCall)
    BY <1>4, <1>5, <1>6, WaitFits
  <1>8. lists' \in ListTypes /\ ListFits(lists', ui.job.kind)
    BY <1>2, MaybeInitFits DEF Inv
  <1>9. Inv(ui, lists, waiters, call, replies)'
    BY <1>2, <1>4, <1>5, <1>7, <1>8 DEF Inv
  <1> QED
    BY <1>1, <1>9, InvTogether

\* The first call of those that wait is not among the others.
LEMMA NextWaiter ==
  ASSUME NEW w \in Seq(Calls), w # <<>>, NEW jc, NEW r,
         Accounted(call, w, jc, r, NoCall)
  PROVE  /\ Head(w) \in Calls /\ Tail(w) \in Seq(Calls)
         /\ Head(w) \notin In(Tail(w)) /\ Head(w) # jc
         /\ r[Head(w)] = IF call[Head(w)] = "search" THEN 1 ELSE 0
         /\ Accounted(call, Tail(w), jc, r, Head(w))
  <1> DEFINE c == Head(w)
             v == Tail(w)
  <1>1. /\ Len(w) \in Nat \ {0} /\ c = w[1] /\ c \in Calls /\ v \in Seq(Calls)
        /\ Len(v) = Len(w) - 1 /\ \A i \in 1 .. Len(v) : v[i] = w[i + 1]
    OBVIOUS
  <1> HIDE DEF c, v
  <1>2. \A i \in 1 .. Len(v) : i + 1 \in 1 .. Len(w) /\ i + 1 # 1
    BY <1>1
  <1>3. 1 \in 1 .. Len(w) /\ \A i \in 1 .. Len(w) : i = 1 \/ i - 1 \in 1 .. Len(v)
    BY <1>1
  <1>4. \A i, j \in 1 .. Len(w) : w[i] = w[j] => i = j
    BY DEF Accounted
  <1>5. c \in In(w) /\ c \notin In(v)
    BY <1>1, <1>2, <1>3, <1>4 DEF In
  <1>6. In(w) = In(v) \cup {c}
    <2>1. \A i \in 1 .. Len(v) : v[i] \in In(w)
      BY <1>1, <1>2 DEF In
    <2>2. \A i \in 1 .. Len(w) : w[i] = c \/ w[i] \in In(v)
      <3> SUFFICES ASSUME NEW i \in 1 .. Len(w), i # 1 PROVE w[i] \in In(v)
        BY <1>1
      <3>1. i - 1 \in 1 .. Len(v) /\ (i - 1) + 1 = i
        BY <1>1, <1>3
      <3>2. v[i - 1] = w[i]
        BY <1>1, <3>1
      <3> QED
        BY <3>1, <3>2 DEF In
    <2> QED
      BY <1>5, <2>1, <2>2 DEF In
  <1>7. \A i, j \in 1 .. Len(v) : v[i] = v[j] => i = j
    <2> SUFFICES ASSUME NEW i \in 1 .. Len(v), NEW j \in 1 .. Len(v), v[i] = v[j]
                 PROVE  i = j
      OBVIOUS
    <2>1. i + 1 = j + 1
      BY <1>1, <1>2, <1>4
    <2> QED
      BY <2>1
  <1>8. c # NoCall
    BY <1>1, InteractionAssumption DEF NoCall
  <1>9. c # jc /\ call[c] \in Asking \cup {"search"}
    BY <1>5 DEF Accounted
  <1>10. r[c] = IF call[c] = "search" THEN 1 ELSE 0
    <2>1. /\ NoCall \notin Asking \cup {"search"} /\ "search" \notin Asking
          /\ RepliesTo("search") = 1
      BY OneReply DEF NoCall, Asking
    <2> QED
      BY <1>1, <1>5, <1>8, <1>9, <2>1 DEF Accounted
  <1>11. Accounted(call, v, jc, r, c)
    <2>1. \A d \in Calls \ {c} : d # NoCall /\ (d \in In(v) <=> d \in In(w))
      BY <1>6, InteractionAssumption DEF NoCall
    <2>2. \A d \in Calls \ {c} :
            r[d] = IF call[d] = NoCall THEN 0
                   ELSE IF call[d] \in Asking /\ (d \in In(v) \/ jc = d) THEN 0
                   ELSE RepliesTo(call[d])
      BY <2>1 DEF Accounted
    <2>3. \A d \in In(v) : call[d] \in Asking \cup {"search"} /\ d # jc
      BY <1>6 DEF Accounted
    <2>4. jc # NoCall => jc \in Calls /\ call[jc] \in Asking
      BY DEF Accounted
    <2> QED
      BY <1>7, <2>2, <2>3, <2>4 DEF Accounted
  <1> QED
    BY <1>1, <1>5, <1>9, <1>10, <1>11 DEF c, v

-----------------------------------------------------------------------------
(* The steps *)

\* What every step finds
LEMMA Running ==
  ASSUME InteractionInv, mode = "running"
  PROVE  /\ Inv(ui, lists, waiters, call, replies)
         /\ Fit(ui) /\ ui \in States /\ lists \in ListTypes
         /\ ListFits(lists, ui.job.kind) /\ replies \in [Calls -> Nat]
         /\ Accounted(call, waiters, ui.job.call, replies, NoCall)
  BY InvApart DEF Inv, Fit

\* A continuation runs at once: the call that was received, with the list there.
LEMMA InstallAtOnce ==
  ASSUME InteractionInv, NEW c \in Calls, NEW k \in Asking, Received(c, k),
         Continuation(c, k), UNCHANGED waiters, lists' = MaybeInit(lists),
         lists.available
  PROVE  InteractionInv'
  <1> DEFINE cl == [call EXCEPT ![c] = k]
             l == MaybeInit(lists)
  <1>1. mode = "running" /\ call[c] = NoCall /\ call' = cl
    BY DEF Received, Runs
  <1>2. /\ Inv(ui, lists, waiters, call, replies) /\ Fit(ui) /\ lists \in ListTypes
        /\ ListFits(lists, ui.job.kind) /\ replies \in [Calls -> Nat]
    BY <1>1, Running
  <1>3. k \in Kinds /\ k # "search"
    BY DEF Kinds, Asking
  <1>4. /\ replies[c] = 0 /\ c \notin In(waiters) /\ c # ui.job.call
        /\ cl \in [Calls -> Kinds \cup {NoCall}] /\ cl[c] = k
        /\ Accounted(cl, waiters, ui.job.call, replies, c)
    BY <1>1, <1>2, <1>3, NewCall
  <1>5. l \in ListTypes /\ ListFits(l, ui.job.kind) /\ l.available
    BY <1>2, MaybeInitFits DEF MaybeInit
  <1> HIDE DEF cl, l
  <1>6. Continuation(c, cl[c])
    BY <1>4
  <1>7. replies[c] = IF cl[c] = "search" THEN 1 ELSE 0
    BY <1>3, <1>4
  <1>8. /\ Fit(ui') /\ mode' \in {"running", "exited"} /\ replies' \in [Calls -> Nat]
        /\ ListFits(l, ui'.job.kind)
        /\ Accounted(cl, waiters, ui'.job.call, replies', NoCall)
    BY <1>1, <1>2, <1>4, <1>5, <1>6, <1>7, ContinuationFits
  <1>9. Inv(ui, lists, waiters, call, replies)'
    BY <1>1, <1>2, <1>4, <1>5, <1>8 DEF Inv, l
  <1> QED
    BY <1>8, <1>9, InvTogether

LEMMA InstallStep ==
  ASSUME InteractionInv, NEW c \in Calls, NEW k \in Kinds, ReceiveInstall(c, k)
  PROVE  InteractionInv'
  <1>1. k \in Asking /\ k # "search" /\ Received(c, k) /\ lists' = MaybeInit(lists)
    BY DEF ReceiveInstall, Asking
  <1>2. CASE lists.available
    BY <1>1, <1>2, InstallAtOnce DEF ReceiveInstall
  <1>3. CASE ~lists.available
    BY <1>1, <1>3, Waits DEF ReceiveInstall
  <1> QED
    BY <1>2, <1>3

LEMMA SearchStep ==
  ASSUME InteractionInv, NEW c \in Calls, ReceiveSearch(c)
  PROVE  InteractionInv'
  <1>1. /\ Received(c, "search") /\ lists' = MaybeInit(lists) /\ replies' = Replied(c)
        /\ mode = "running" /\ "search" \in Single
    BY DEF ReceiveSearch, Received, Runs, Kinds, Single
  <1>2. CASE ~lists.available
    BY <1>1, <1>2, Waits DEF ReceiveSearch
  <1>3. CASE lists.available
    <2>1. ShowResults(Present(ui)) /\ UNCHANGED waiters
      BY <1>3 DEF ReceiveSearch
    <2>2. /\ Fit(ui) /\ lists \in ListTypes /\ ListFits(lists, ui.job.kind)
      BY <1>1, Running
    <2>3. lists' \in ListTypes /\ ListFits(lists', ui.job.kind)
      BY <1>1, <2>2, MaybeInitFits
    <2> DEFINE l == lists'
    <2>4. ListFits(l, ui.job.kind)
      BY <2>3
    <2> HIDE DEF l
    <2>5. /\ Fit(ui') /\ mode' = "running" /\ ui'.job.call = ui.job.call
          /\ ListFits(l, ui'.job.kind)
      BY <1>1, <2>1, <2>2, <2>4, ShowResultsFits
    <2> QED
      BY <1>1, <2>1, <2>3, <2>5, AnsweredAtOnce DEF l
  <1> QED
    BY <1>2, <1>3

LEMMA OpenStep ==
  ASSUME InteractionInv, NEW c \in Calls, ReceiveOpen(c)
  PROVE  InteractionInv'
  <1> DEFINE u == Present(ui)
  <1>1. /\ Received(c, "open") /\ replies' = Replied(c) /\ mode = "running"
        /\ ui' = InstallFromFile(u, "file") /\ UNCHANGED <<lists, waiters, mode>>
        /\ "open" \in Single /\ "file" \in Files
    BY DEF ReceiveOpen, Received, Runs, Kinds, Single, Files
  <1>2. Fit(ui) /\ ui \in States /\ lists \in ListTypes /\ ListFits(lists, ui.job.kind)
    BY <1>1, Running
  <1>3. Fit(u) /\ u.job = ui.job
    BY <1>2, PresentFits
  <1> HIDE DEF u
  <1>4. Fit(ui') /\ ui'.job.call = u.job.call
        /\ (ui'.job = u.job \/ (ui'.job.kind = "file" /\ Idle(u)))
    BY <1>1, <1>3, InstallFromFileFits
  <1>5. ListFits(lists, ui'.job.kind)
    <2>1. CASE ui'.job = u.job
      BY <1>2, <1>3, <2>1
    <2>2. CASE Idle(u)
      BY <1>2, <1>3, <1>4, <2>2, IdleHasNoJob, NoCallNoInstall, NotListing DEF NoJob
    <2> QED
      BY <1>4, <2>1, <2>2
  <1> QED
    BY <1>1, <1>2, <1>3, <1>4, <1>5, AnsweredAtOnce

LEMMA RestoreStep ==
  ASSUME InteractionInv, NEW c \in Calls, ReceiveRestore(c)
  PROVE  InteractionInv'
  <1> DEFINE u == Present(ui)
  <1>1. /\ Received(c, "restore") /\ replies' = Replied(c) /\ mode = "running"
        /\ ui' = IF Idle(u) THEN Begin(u, "local", Job("file", NoCall)) ELSE u
        /\ UNCHANGED <<lists, waiters, mode>> /\ "restore" \in Single
    BY DEF ReceiveRestore, Received, Runs, Kinds, Single
  <1>2. Fit(ui) /\ ui \in States /\ lists \in ListTypes /\ ListFits(lists, ui.job.kind)
    BY <1>1, Running
  <1>3. Fit(u) /\ u.job = ui.job /\ u \in States
    BY <1>2, PresentFits
  <1> HIDE DEF u
  <1>4. CASE ~Idle(u)
    BY <1>1, <1>2, <1>3, <1>4, AnsweredAtOnce
  <1>5. CASE Idle(u)
    <2>1. u.job = NoJob /\ u.job.call = NoCall
      BY <1>3, <1>5, IdleHasNoJob
    <2>2. Fit(ui') /\ ui'.job = Job("file", NoCall)
      BY <1>1, <1>3, <1>5, BeginFits
    <2>3. ui'.job.call = ui.job.call
      BY <1>3, <2>1, <2>2 DEF Job
    <2>4. ListFits(lists, ui'.job.kind)
      BY <1>2, <1>3, <2>1, <2>2, NotListing DEF NoJob, Job
    <2> QED
      BY <1>1, <1>2, <2>2, <2>3, <2>4, AnsweredAtOnce
  <1> QED
    BY <1>4, <1>5

LEMMA TopStep ==
  ASSUME InteractionInv, NEW c \in Calls, ReceiveTop(c)
  PROVE  InteractionInv'
  <1>1. /\ Received(c, "top") /\ replies' = Replied(c) /\ mode = "running"
        /\ ui' = Present(ui) /\ lists' = MaybeInit(lists)
        /\ UNCHANGED <<waiters, mode>> /\ "top" \in Single
    BY DEF ReceiveTop, Received, Runs, Kinds, Single
  <1>2. Fit(ui) /\ ui \in States /\ lists \in ListTypes /\ ListFits(lists, ui.job.kind)
    BY <1>1, Running
  <1>3. Fit(ui') /\ ui'.job = ui.job
    BY <1>1, <1>2, PresentFits
  <1>4. lists' \in ListTypes /\ ListFits(lists', ui.job.kind)
    BY <1>1, <1>2, MaybeInitFits
  <1> QED
    BY <1>1, <1>3, <1>4, AnsweredAtOnce

LEMMA CheckStep ==
  ASSUME InteractionInv, NEW c \in Calls, ReceiveCheck(c)
  PROVE  InteractionInv'
  <1>1. /\ Received(c, "check") /\ replies' = Replied(c) /\ mode = "running"
        /\ ui' = (IF Idle(ui) /\ ui.long THEN StartCheck(ui) ELSE [ui EXCEPT !.cont = TRUE])
        /\ lists' = MaybeInit(lists)
        /\ UNCHANGED <<waiters, mode>> /\ "check" \in Single
    BY DEF ReceiveCheck, Received, Runs, Kinds, Single
  <1>2. Fit(ui) /\ ui \in States /\ lists \in ListTypes /\ ListFits(lists, ui.job.kind)
    BY <1>1, Running
  <1>3. lists' \in ListTypes /\ ListFits(lists', ui.job.kind)
    BY <1>1, <1>2, MaybeInitFits
  <1>4. CASE Idle(ui) /\ ui.long
    <2>1. ui.job = NoJob /\ ui.job.call = NoCall
      BY <1>2, <1>4, IdleHasNoJob
    <2>2. Fit(ui') /\ ui'.job.call = NoCall /\ ui'.job.kind = "check"
      BY <1>1, <1>2, <1>4, StartCheckFits
    <2>3. ListFits(lists', ui'.job.kind)
      BY <1>3, <2>1, <2>2, NotListing DEF NoJob
    <2> QED
      BY <1>1, <1>3, <2>1, <2>2, <2>3, AnsweredAtOnce
  <1>5. CASE ~(Idle(ui) /\ ui.long)
    <2>1. /\ ui' \in States /\ ui'.job = ui.job /\ ui'.flow = ui.flow
          /\ ui'.stack = ui.stack /\ ui'.tasks = ui.tasks
      BY <1>1, <1>2, <1>5 DEF States
    <2> DEFINE v == ui'
    <2>2. /\ v \in States /\ v.job = ui.job /\ v.flow = ui.flow
          /\ v.stack = ui.stack /\ v.tasks = ui.tasks
      BY <2>1
    <2> HIDE DEF v
    <2>3. Fit(v)
      BY <1>2, <2>2, SameFits
    <2> QED
      BY <1>1, <1>3, <2>1, <2>3, AnsweredAtOnce DEF v
  <1> QED
    BY <1>4, <1>5

\* A call with invalid arguments changes nothing but its replies, and an invalid call
\* to install may make the program exit.
LEMMA InvalidStep ==
  ASSUME InteractionInv, NEW c \in Calls,
         ReceiveInvalidInstall(c) \/ ReceiveInvalidSearch(c) \/ ReceiveInvalidOpen(c)
  PROVE  InteractionInv'
  <1>1. mode = "running" /\ call[c] = NoCall /\ UNCHANGED <<ui, lists, waiters>>
    BY DEF ReceiveInvalidInstall, ReceiveInvalidSearch, ReceiveInvalidOpen, Received, Runs
  <1>2. /\ Inv(ui, lists, waiters, call, replies) /\ Fit(ui) /\ lists \in ListTypes
        /\ ListFits(lists, ui.job.kind) /\ replies \in [Calls -> Nat]
    BY <1>1, Running
  <1>3. CASE ReceiveInvalidOpen(c)
    <2>1. /\ Received(c, "bad_open") /\ replies' = Replied(c) /\ UNCHANGED mode
          /\ "bad_open" \in Single
      BY <1>3 DEF ReceiveInvalidOpen, Single, Kinds
    <2> QED
      BY <1>1, <1>2, <2>1, AnsweredAtOnce
  <1>4. CASE ReceiveInvalidInstall(c) \/ ReceiveInvalidSearch(c)
    <2>1. PICK k \in {"bad_install", "bad_search"} :
            call' = [call EXCEPT ![c] = k]
      BY <1>4 DEF ReceiveInvalidInstall, ReceiveInvalidSearch, Received
    <2>2. replies' = [replies EXCEPT ![c] = @ + 2] /\ mode' \in {"running", "exited"}
      BY <1>1, <1>4 DEF ReceiveInvalidInstall, ReceiveInvalidSearch
    <2>3. k \in Kinds /\ k # NoCall /\ k \notin Asking /\ RepliesTo(k) = 2
      BY DEF Kinds, NoCall, Asking, RepliesTo
    <2>4. /\ replies[c] = 0 /\ call' \in [Calls -> Kinds \cup {NoCall}] /\ call'[c] = k
          /\ Accounted(call', waiters, ui.job.call, replies, c)
      BY <1>1, <1>2, <2>1, <2>3, NewCall
    <2>5. /\ replies' \in [Calls -> Nat] /\ replies'[c] = 2
          /\ \A d \in Calls \ {c} : replies'[d] = replies[d]
      BY <1>2, <2>2, <2>4
    <2>6. Accounted(call', waiters, ui.job.call, replies', NoCall)
      BY <2>3, <2>4, <2>5 DEF Accounted
    <2>7. Inv(ui, lists, waiters, call, replies)'
      BY <1>1, <1>2, <2>4, <2>5, <2>6 DEF Inv
    <2> QED
      BY <2>2, <2>7, InvTogether
  <1> QED
    BY <1>3, <1>4

LEMMA NoticeStep ==
  ASSUME InteractionInv, Notice
  PROVE  InteractionInv'
  <1> DEFINE c == Head(waiters)
             w == Tail(waiters)
  <1>1. /\ mode = "running" /\ waiters # <<>> /\ Continuation(c, call[c])
        /\ lists.available
        /\ waiters' = w /\ UNCHANGED <<lists, call>>
    BY DEF Notice, Noticing
  <1>2. /\ Inv(ui, lists, waiters, call, replies) /\ Fit(ui) /\ lists \in ListTypes
        /\ ListFits(lists, ui.job.kind) /\ replies \in [Calls -> Nat]
        /\ Accounted(call, waiters, ui.job.call, replies, NoCall)
    BY <1>1, Running
  <1>3. waiters \in Seq(Calls)
    BY <1>2 DEF Inv
  <1>4. /\ c \in Calls /\ w \in Seq(Calls) /\ c \notin In(w) /\ c # ui.job.call
        /\ replies[c] = IF call[c] = "search" THEN 1 ELSE 0
        /\ Accounted(call, w, ui.job.call, replies, c)
    BY <1>1, <1>2, <1>3, NextWaiter
  <1> HIDE DEF c, w
  <1>5. /\ Fit(ui') /\ mode' \in {"running", "exited"} /\ replies' \in [Calls -> Nat]
        /\ ListFits(lists, ui'.job.kind)
        /\ Accounted(call, w, ui'.job.call, replies', NoCall)
    BY <1>1, <1>2, <1>4, ContinuationFits
  <1>6. Inv(ui, lists, waiters, call, replies)'
    BY <1>1, <1>2, <1>4, <1>5 DEF Inv
  <1> QED
    BY <1>5, <1>6, InvTogether

LEMMA ReplyOfListStep ==
  ASSUME InteractionInv, GetPackageListReply
  PROVE  InteractionInv'
  <1> DEFINE cont == Head(lists.gets)
             l == [lists EXCEPT !.gets = Tail(@)]
             a == lists.available \/ cont = "init"
             m == [lists EXCEPT !.gets = Tail(@), !.available = a]
  <1>1. mode = "running" /\ lists.gets # <<>> /\ UNCHANGED <<waiters, call>>
    BY DEF GetPackageListReply, Runs
  <1>2. /\ Fit(ui) /\ ui \in States /\ lists \in ListTypes
        /\ ListFits(lists, ui.job.kind)
    BY <1>1, Running
  <1>3. CASE cont # "rpcwu_end"
    <2>1. /\ ui' \in {ui} \cup (IF ui.shown THEN ShowView(ui) ELSE {})
          /\ lists' = m /\ UNCHANGED <<replies, mode>>
      <3>1. l \in ListTypes /\ m = [l EXCEPT !.available = l.available \/ cont = "init"]
        BY <1>1, <1>2 DEF ListTypes
      <3> QED
        BY <1>1, <1>3, <3>1 DEF GetPackageListReply
    <2>2. a \in BOOLEAN
      BY <1>2 DEF ListTypes
    <2>3. m \in ListTypes /\ ListFits(m, ui.job.kind)
      BY <1>1, <1>2, <2>2, TailFits
    <2> HIDE DEF m, l, a, cont
    <2>4. CASE ui' = ui
      BY <1>1, <1>2, <2>1, <2>3, <2>4, QuietStep
    <2>5. CASE ui' \in ShowView(ui)
      <3>1. /\ Fit(ui') /\ ui'.job.call = ui.job.call
            /\ (ui'.job = ui.job \/ Idle(ui))
        BY <1>2, <2>5, ShowViewFits
      <3>2. ListFits(m, ui'.job.kind)
        <4>1. CASE ui'.job = ui.job
          BY <2>3, <4>1
        <4>2. CASE Idle(ui)
          BY <1>2, <2>3, <3>1, <4>2, IdleHasNoJob, NoCallNoInstall, NotListing DEF NoJob
        <4> QED
          BY <3>1, <4>1, <4>2
      <3> QED
        BY <1>1, <2>1, <2>3, <3>1, <3>2, QuietStep
    <2> QED
      BY <2>1, <2>4, <2>5
  <1>4. CASE cont = "rpcwu_end"
    <2>1. JobEnds(l)
      BY <1>4 DEF GetPackageListReply
    <2>2. lists.available \in BOOLEAN
          /\ l = [lists EXCEPT !.gets = Tail(@), !.available = lists.available]
      BY <1>2 DEF ListTypes
    <2>3. l \in ListTypes /\ ui.job.kind = "listing" /\ \A q \in {"none", "file"} : ListFits(l, q)
      BY <1>1, <1>2, <1>4, <2>2, TailFits
    <2>4. ui.flow # "none" /\ ui.job.dialogs = 0
      BY <1>2, <2>3 DEF Fit, StackFits, NoJob
    <2> HIDE DEF l
    <2> QED
      BY <1>1, <2>1, <2>3, <2>4, JobEndsFits
  <1> QED
    BY <1>3, <1>4

\* The steps of an operation
LEMMA JobStep ==
  ASSUME InteractionInv, JobPushes \/ JobPops \/ JobLists
  PROVE  InteractionInv'
  <1>1. /\ mode = "running" /\ ui.job.kind \in {"install", "file", "user"}
        /\ UNCHANGED <<waiters, call, replies, mode>>
    BY DEF JobPushes, JobPops, JobLists, Operating, Runs
  <1>2. /\ Fit(ui) /\ ui \in States /\ lists \in ListTypes
        /\ ListFits(lists, ui.job.kind)
    BY <1>1, Running
  <1>3. CASE JobPushes
    <2>1. ui' = PushDialog(ui) /\ UNCHANGED lists
      BY <1>3 DEF JobPushes
    <2>2. Fit(ui') /\ ui'.job.call = ui.job.call /\ ui'.job.kind = ui.job.kind
      BY <1>1, <1>2, <2>1, PushFits
    <2> QED
      BY <1>1, <1>2, <2>1, <2>2, QuietStep
  <1>4. CASE JobPops
    <2>1. ui' = PopDialog(ui) /\ UNCHANGED lists /\ ui.job.dialogs > 0 /\ ui.job # NoJob
      BY <1>1, <1>4 DEF JobPops, NoJob
    <2> DEFINE v == PopDialog(ui)
    <2>2. /\ v \in States /\ v.flow = ui.flow /\ v.stack = ui.stack - 1
          /\ v.job \in Jobs /\ v.job.call = ui.job.call /\ v.job.kind = ui.job.kind
          /\ v.job.dialogs = ui.job.dialogs - 1
      BY <1>2, <2>1, PopFits
    <2> HIDE DEF v
    <2>3. /\ ui.flow # "none" /\ ui.job \in Jobs /\ v.job # NoJob
          /\ ui.stack = ui.job.dialogs + (IF ui.flow = "local" THEN 1 ELSE 0)
          /\ (ui.job.call # NoCall <=> ui.job.kind = "install")
      BY <1>1, <1>2, <2>1, <2>2 DEF Fit, StackFits, States, NoJob
    <2>4. StackFits(v)
      BY <1>1, <2>2, <2>3 DEF StackFits, Jobs
    <2>5. Fit(v)
      BY <2>2, <2>3, <2>4 DEF Fit, Idle
    <2> QED
      BY <1>1, <1>2, <2>1, <2>2, <2>5, QuietStep DEF v
  <1>5. CASE JobLists
    <2>1. lists' = GetPackageList(lists, "none") /\ UNCHANGED ui
      BY <1>5 DEF JobLists
    <2>2. lists' \in ListTypes /\ ListFits(lists', ui.job.kind)
      BY <1>2, <2>1, GetFits
    <2> QED
      BY <1>1, <1>2, <2>1, <2>2, QuietStep
  <1> QED
    BY <1>3, <1>4, <1>5

LEMMA OperationEndsStep ==
  ASSUME InteractionInv, OperationEnds
  PROVE  InteractionInv'
  <1>1. /\ mode = "running" /\ ui.job.kind \in {"install", "file", "user"}
        /\ ui.job.dialogs = 0 /\ UNCHANGED <<waiters, call>>
        /\ (JobEnds(lists) \/ JobEnds(GetPackageList(lists, "none")))
    BY DEF OperationEnds, Operating, Runs
  <1>2. /\ Fit(ui) /\ lists \in ListTypes /\ ListFits(lists, ui.job.kind)
    BY <1>1, Running
  <1>3. ui.flow # "none"
    BY <1>1, <1>2 DEF Fit, StackFits, NoJob
  <1>4. \A q \in {"none", "file"} : ListFits(lists, q)
    BY <1>1, <1>2, NotListing
  <1>5. GetPackageList(lists, "none") \in ListTypes
        /\ \A q \in {"none", "file"} : ListFits(GetPackageList(lists, "none"), q)
    BY <1>2, <1>4, GetFits
  <1> QED
    BY <1>1, <1>2, <1>3, <1>4, <1>5, JobEndsFits

\* The flow of a refresh is the only one that has the list read for itself.
LEMMA AskFits ==
  ASSUME NEW l \in ListTypes, ListFits(l, "check")
  PROVE  /\ GetPackageList(l, "rpcwu_end") \in ListTypes
         /\ ListFits(GetPackageList(l, "rpcwu_end"), "listing")
  <1> DEFINE g == Append(l.gets, "rpcwu_end")
  <1>1. l.gets \in Seq({"init", "none", "rpcwu_end"}) /\ Len(l.gets) \in Nat
    BY DEF ListTypes
  <1>2. /\ g \in Seq({"init", "none", "rpcwu_end"}) /\ Len(g) = Len(l.gets) + 1
        /\ \A i \in 1 .. Len(l.gets) : g[i] = l.gets[i]
    BY <1>1
  <1> HIDE DEF g
  <1>3. GetPackageList(l, "rpcwu_end") \in ListTypes
        /\ GetPackageList(l, "rpcwu_end").gets = g
    BY <1>2 DEF GetPackageList, ListTypes, g
  <1>4. \A i \in 1 .. Len(l.gets) : l.gets[i] # "rpcwu_end"
    BY DEF ListFits
  <1>5. \A i \in 1 .. Len(g) : g[i] = "rpcwu_end" => i = Len(g)
    BY <1>1, <1>2, <1>4
  <1> QED
    BY <1>3, <1>5 DEF ListFits

LEMMA CheckAnsweredStep ==
  ASSUME InteractionInv, CheckAnswered
  PROVE  InteractionInv'
  <1> DEFINE u == PopDialog(ui)
  <1>1. /\ mode = "running" /\ ui.job.kind = "check"
        /\ UNCHANGED <<waiters, call, replies, mode>>
        /\ \/ ui' = EndFlow(u) /\ lists' = lists
           \/ /\ ui' = [u EXCEPT !.job.kind = "listing"]
              /\ lists' = GetPackageList(lists, "rpcwu_end")
    BY DEF CheckAnswered, Runs
  <1>2. /\ Fit(ui) /\ lists \in ListTypes /\ ListFits(lists, "check")
    BY <1>1, Running
  <1>3. /\ ui.job # NoJob /\ ui.flow = "local" /\ ui.stack = 2 /\ ui.job.dialogs = 1
        /\ ui.job.call = NoCall
    BY <1>1, <1>2 DEF Fit, StackFits, NoJob
  <1>4. /\ u \in States /\ u.flow = "local" /\ u.stack = 1 /\ u.job \in Jobs
        /\ u.job.call = NoCall /\ u.job.dialogs = 0
    BY <1>2, <1>3, PopFits
  <1> HIDE DEF u
  <1>5. CASE ui' = EndFlow(u) /\ lists' = lists
    <2>1. Fit(EndFlow(u)) /\ (EndFlow(u).job = NoJob \/ EndFlow(u).job.kind = "file")
      BY <1>4, EndFlowFits
    <2>2. EndFlow(u).job.call = NoCall
      BY <2>1 DEF Fit, StackFits, NoJob
    <2>3. ListFits(lists, EndFlow(u).job.kind)
      BY <1>2, <2>1, <2>2, NoCallNoInstall, NotListing
    <2> QED
      BY <1>1, <1>2, <1>3, <1>5, <2>1, <2>2, <2>3, QuietStep
  <1>6. CASE /\ ui' = [u EXCEPT !.job.kind = "listing"]
             /\ lists' = GetPackageList(lists, "rpcwu_end")
    <2> DEFINE j == [u.job EXCEPT !.kind = "listing"]
               v == [u EXCEPT !.job = j]
    <2>1. j = [kind |-> "listing", call |-> NoCall, dialogs |-> 0] /\ j \in Jobs
      BY <1>4 DEF Jobs
    <2>2. ui' = v
      BY <1>4, <1>6 DEF States
    <2> HIDE DEF j
    <2>3. v \in States /\ v.flow = "local" /\ v.stack = 1 /\ v.job = j
      BY <1>4, <2>1 DEF States
    <2> HIDE DEF v
    <2>4. Fit(v)
      BY <2>1, <2>3 DEF Fit, StackFits, Idle, NoJob
    <2>5. lists' \in ListTypes /\ ListFits(lists', v.job.kind)
      BY <1>2, <1>6, <2>1, <2>3, AskFits
    <2> QED
      BY <1>1, <1>3, <2>1, <2>2, <2>3, <2>4, <2>5, QuietStep
  <1> QED
    BY <1>1, <1>5, <1>6

\* What the user does, except closing the window, and what the time brings
LEMMA UserStep ==
  ASSUME InteractionInv,
         UserStarts \/ UserInstallsFile \/ SwitchView \/ IdleCallback \/ MinutePasses
  PROVE  InteractionInv'
  <1>1. mode = "running" /\ UNCHANGED <<lists, waiters, call, replies, mode>>
    BY DEF UserStarts, UserInstallsFile, SwitchView, IdleCallback, MinutePasses, Runs
  <1>2. /\ Fit(ui) /\ ui \in States /\ lists \in ListTypes
        /\ ListFits(lists, ui.job.kind)
    BY <1>1, Running
  <1>3. ASSUME Fit(ui'), ui'.job.call = ui.job.call, ui'.job = ui.job \/ Idle(ui)
        PROVE  InteractionInv'
    <2>1. ListFits(lists, ui'.job.kind)
      <3>1. CASE ui'.job = ui.job
        BY <1>2, <3>1
      <3>2. CASE Idle(ui)
        BY <1>2, <1>3, <3>2, IdleHasNoJob, NoCallNoInstall, NotListing DEF NoJob
      <3> QED
        BY <1>3, <3>1, <3>2
    <2> QED
      BY <1>1, <1>2, <1>3, <2>1, QuietStep
  <1>4. CASE UserStarts
    <2>1. /\ Idle(ui)
          /\ \/ ui' = Begin(ui, "local", Job("user", NoCall))
             \/ ui' = StartCheck(ui)
      BY <1>4 DEF UserStarts
    <2>2. Fit(ui') /\ ui'.job.call = NoCall
      BY <1>2, <2>1, BeginFits, StartCheckFits DEF Job
    <2> QED
      BY <1>2, <1>3, <2>1, <2>2, IdleHasNoJob
  <1>5. CASE UserInstallsFile
    BY <1>2, <1>3, <1>5, InstallFromFileFits DEF UserInstallsFile, Files
  <1>6. CASE SwitchView
    BY <1>2, <1>3, <1>6, ShowViewFits DEF SwitchView
  <1>7. CASE IdleCallback
    <2> DEFINE u == [ui EXCEPT !.timer = FALSE]
               w == [u EXCEPT !.cont = FALSE]
    <2>1. /\ u \in States /\ u.job = ui.job /\ u.flow = ui.flow
          /\ u.stack = ui.stack /\ u.tasks = ui.tasks
      BY <1>2 DEF States
    <2>2. /\ w \in States /\ w.flow = ui.flow /\ w.stack = ui.stack
      BY <1>2 DEF States
    <2>3. ui' = IF ui.cont /\ Idle(ui) THEN StartCheck(w) ELSE u
      BY <1>7 DEF IdleCallback
    <2> HIDE DEF u, w
    <2>4. CASE ui.cont /\ Idle(ui)
      <3>1. Idle(w)
        BY <2>2, <2>4 DEF Idle
      <3>2. Fit(StartCheck(w)) /\ StartCheck(w).job.call = NoCall
        BY <2>2, <3>1, StartCheckFits
      <3> QED
        BY <1>2, <1>3, <2>3, <2>4, <3>2, IdleHasNoJob
    <2>5. CASE ~(ui.cont /\ Idle(ui))
      <3>1. Fit(u)
        BY <1>2, <2>1, SameFits
      <3> QED
        BY <1>3, <2>1, <2>3, <2>5, <3>1
    <2> QED
      BY <2>4, <2>5
  <1>8. CASE MinutePasses
    <2> DEFINE u == [ui EXCEPT !.long = TRUE]
    <2>1. /\ u \in States /\ u.job = ui.job /\ u.flow = ui.flow
          /\ u.stack = ui.stack /\ u.tasks = ui.tasks
      BY <1>2 DEF States
    <2>2. ui' = u
      BY <1>8 DEF MinutePasses
    <2> HIDE DEF u
    <2>3. Fit(u)
      BY <1>2, <2>1, SameFits
    <2> QED
      BY <1>3, <2>1, <2>2, <2>3
  <1> QED
    BY <1>4, <1>5, <1>6, <1>7, <1>8

\* When the window is closed the program exits, or another flow goes on.
LEMMA CloseStep ==
  ASSUME InteractionInv, CloseWindow
  PROVE  InteractionInv'
  <1> DEFINE u == IF ui.flow # "none" THEN EndFlow(ui) ELSE ui
             v == [u EXCEPT !.shown = FALSE]
  <1>1. /\ mode = "running" /\ ui' = v /\ UNCHANGED <<lists, waiters, call, replies>>
        /\ mode' \in {"exited", "two"} /\ (ui.flow = "local" => ui.stack = 1)
    BY DEF CloseWindow, Usable, Runs
  <1>2. TypeOK /\ ui \in States
    BY DEF InteractionInv, TypeOK
  <1>3. u \in States
    BY <1>1, <1>2, EndFlowTypes
  <1> HIDE DEF u
  <1>4. v \in States
    BY <1>3 DEF States
  <1> HIDE DEF v
  <1>5. TypeOK'
    BY <1>1, <1>2, <1>4 DEF TypeOK
  <1> QED
    BY <1>1, <1>5 DEF InteractionInv, NothingForgotten, EveryCallAccounted

\* The program starts with nothing queued and nobody waiting.
LEMMA InitFits == Init => InteractionInv
  <1> SUFFICES ASSUME Init PROVE InteractionInv
    OBVIOUS
  <1>1. PICK show \in BOOLEAN :
          /\ ui = [flow |-> "none", stack |-> 0, job |-> NoJob, tasks |-> <<>>,
                   cont |-> FALSE, timer |-> TRUE, long |-> FALSE, shown |-> show]
          /\ lists = IF show THEN [first |-> "init", gets |-> <<"init">>, available |-> FALSE]
                     ELSE [first |-> "nobody", gets |-> <<>>, available |-> FALSE]
    BY DEF Init
  <1>2. /\ waiters = <<>> /\ call = [c \in Calls |-> NoCall]
        /\ replies = [c \in Calls |-> 0] /\ mode = "running"
    BY DEF Init
  <1>3. Fit(ui) /\ ui.job = NoJob
    <2>1. ui \in States
      BY <1>1 DEF States
    <2> QED
      BY <1>1, <2>1 DEF Fit, StackFits, Idle, NoJob
  <1>4. lists \in ListTypes /\ ListFits(lists, "none")
    <2>1. CASE show
      <3>1. <<"init">> \in Seq({"init", "none", "rpcwu_end"})
        OBVIOUS
      <3> QED
        BY <1>1, <2>1, <3>1 DEF ListTypes, ListFits
    <2>2. CASE ~show
      BY <1>1, <2>2 DEF ListTypes, ListFits
    <2> QED
      BY <2>1, <2>2
  <1>5. Accounted(call, waiters, NoCall, replies, NoCall)
    <2>1. In(waiters) = {} /\ Len(waiters) = 0
      BY <1>2 DEF In
    <2> QED
      BY <1>2, <2>1 DEF Accounted
  <1>6. Inv(ui, lists, waiters, call, replies)
    BY <1>2, <1>3, <1>4, <1>5 DEF Inv, NoJob
  <1> QED
    BY <1>2, <1>6, InvApart

\* The inductive invariant of util.cc's flows and dbus.cc's calls: the assertions
\* of end_interaction_flow hold, no task is forgotten, and every call has the
\* replies it should have.
THEOREM InteractionInvariant == Spec => []InteractionInv
  <1>1. InteractionInv /\ [Next]_vars => InteractionInv'
    <2> SUFFICES ASSUME InteractionInv, [Next]_vars PROVE InteractionInv'
      OBVIOUS
    <2>1. CASE Receives
      <3>1. PICK c \in Calls :
              \/ \E k \in Kinds : ReceiveInstall(c, k)
              \/ ReceiveSearch(c) \/ ReceiveOpen(c) \/ ReceiveRestore(c)
              \/ ReceiveTop(c) \/ ReceiveCheck(c)
              \/ ReceiveInvalidInstall(c) \/ ReceiveInvalidSearch(c) \/ ReceiveInvalidOpen(c)
        BY <2>1 DEF Receives
      <3> QED
        BY <3>1, InstallStep, SearchStep, OpenStep, RestoreStep, TopStep, CheckStep,
           InvalidStep
    <2>2. CASE Notice
      BY <2>2, NoticeStep
    <2>3. CASE GetPackageListReply
      BY <2>3, ReplyOfListStep
    <2>4. CASE JobPushes \/ JobPops \/ JobLists
      BY <2>4, JobStep
    <2>5. CASE OperationEnds
      BY <2>5, OperationEndsStep
    <2>6. CASE CheckAnswered
      BY <2>6, CheckAnsweredStep
    <2>7. CASE UserStarts \/ UserInstallsFile \/ SwitchView \/ IdleCallback \/ MinutePasses
      BY <2>7, UserStep
    <2>8. CASE CloseWindow
      BY <2>8, CloseStep
    <2>9. CASE UNCHANGED vars
      BY <2>9 DEF vars, InteractionInv, TypeOK, StackFits, WaitersFit, WaitersSet,
                  Installs, ListingFits, NothingForgotten, Idle, EveryCallAccounted,
                  RepliesTo
    <2> QED
      BY <2>1, <2>2, <2>3, <2>4, <2>5, <2>6, <2>7, <2>8, <2>9 DEF Next
  <1> QED
    BY <1>1, InitFits, PTL DEF Spec

\* When the program is idle, no task is queued.
THEOREM TasksNotForgotten == Spec => []NothingForgotten
  <1>1. InteractionInv => NothingForgotten
    BY DEF InteractionInv
  <1> QED
    BY <1>1, InteractionInvariant, PTL

\* Every D-Bus call has exactly the replies it should have by now.
THEOREM RepliesAccounted == Spec => []EveryCallAccounted
  <1>1. InteractionInv => EveryCallAccounted
    BY DEF InteractionInv
  <1> QED
    BY <1>1, InteractionInvariant, PTL

\* The continuation of a call does not make the program exit: either a flow
\* starts, or there is one already.
LEMMA NoExitAtStart ==
  ASSUME InteractionInv, mode = "running", NEW c, NEW k, Continuation(c, k)
  PROVE  mode' = "running"
  <1>1. Fit(ui) /\ ui \in States
    BY Running
  <1>2. ASSUME NEW u, NEW f, StartInstall(c, f, u), ~Idle(u) => ~MaybeExit(u)
        PROVE  mode' = "running"
    BY <1>2 DEF StartInstall, EndCall
  <1>3. ~Idle(ui) => ~MaybeExit(ui)
    BY <1>1 DEF Fit, StackFits, Idle, MaybeExit, NoJob
  <1>4. ~MaybeExit(Present(ui))
    BY <1>1, PresentFits DEF MaybeExit
  <1> QED
    BY <1>2, <1>3, <1>4 DEF Continuation, ShowResults

\* The program itself exits for an invalid call, or at the end of the flow of a call,
\* and nobody else waits for an answer then.
LEMMA ExitStep ==
  ASSUME InteractionInv, Next, mode' = "exited", ~ui.shown,
         \A c \in Calls : ~ReceiveInvalidInstall(c)
  PROVE  \A c \in Installs : replies'[c] = 1
  <1>1. mode = "running"
    BY DEF Next, Receives, ReceiveInstall, ReceiveSearch, ReceiveOpen, ReceiveRestore,
           ReceiveTop, ReceiveCheck, ReceiveInvalidSearch, ReceiveInvalidOpen, Received,
           Notice, GetPackageListReply, JobPushes,
           JobPops, JobLists, OperationEnds, CheckAnswered, UserStarts,
           UserInstallsFile, SwitchView, CloseWindow, IdleCallback, MinutePasses,
           Operating, Runs
  <1>2. OperationEnds
    <2>1. ASSUME NEW c \in Calls, NEW k \in Kinds, ReceiveInstall(c, k)
          PROVE  FALSE
      <3>1. mode' = "running"
        BY <1>1, <2>1, NoExitAtStart DEF ReceiveInstall
      <3> QED
        BY <3>1
    <2>2. ~Notice
      BY <1>1, NoExitAtStart DEF Notice
    <2>3. ~GetPackageListReply
      <3>1. ASSUME GetPackageListReply PROVE FALSE
        <4>1. PICK l : JobEnds(l) /\ Head(lists.gets) = "rpcwu_end" /\ lists.gets # <<>>
          BY <1>1, <3>1 DEF GetPackageListReply
        <4>2. lists \in ListTypes /\ ListFits(lists, ui.job.kind)
          BY <1>1, Running
        <4>3. ui.job.kind = "listing"
          <5>1. lists.available \in BOOLEAN
            BY <4>2 DEF ListTypes
          <5> QED
            BY <4>1, <4>2, <5>1, TailFits
        <4> QED
          BY <1>1, <4>1, <4>3 DEF JobEnds
      <3> QED
        BY <3>1
    <2>4. ~CloseWindow
      BY DEF CloseWindow, Usable
    <2> QED
      BY <1>1, <2>1, <2>2, <2>3, <2>4
         DEF Next, Receives, ReceiveSearch, ShowResults, ReceiveOpen, ReceiveRestore,
             ReceiveTop, ReceiveCheck, ReceiveInvalidSearch, ReceiveInvalidOpen, JobPushes,
             JobPops, JobLists, CheckAnswered,
             UserStarts, UserInstallsFile, SwitchView, IdleCallback, MinutePasses
  <1>3. ui.job.kind = "install" /\ replies' = [replies EXCEPT ![ui.job.call] = @ + 1]
    BY <1>1, <1>2 DEF OperationEnds, JobEnds, EndCall, Replied
  <1>4. lists.available /\ waiters = <<>>
    BY <1>1, <1>2, <1>3 DEF InteractionInv, ListingFits, OperationEnds, Operating,
                            Runs, Noticing
  <1>5. WaitersSet = {}
    BY <1>4 DEF WaitersSet
  <1>6. /\ ui.job.call \in Installs /\ Installs \subseteq Calls
        /\ \A c \in Installs : call[c] # NoCall
    BY <1>1, <1>3 DEF InteractionInv, WaitersFit, Installs, NoCall
  <1>7. \A c \in Installs : replies[c] = IF ui.job.call = c THEN 0 ELSE 1
    <2>1. \A k \in {"packages", "foreign"} : RepliesTo(k) = 1
      BY DEF RepliesTo
    <2> QED
      BY <1>1, <1>5, <1>6, <2>1 DEF InteractionInv, EveryCallAccounted, Installs
  <1>8. replies \in [Calls -> Nat]
    BY <1>1, Running
  <1> QED
    BY <1>3, <1>6, <1>7, <1>8

\* When the program exits by itself, every call to install has its reply, or an invalid
\* call to install has just been received.
THEOREM ExitsAfterReplies == Spec => ExitAfterReplies
  <1> DEFINE Invalid == \E c \in Calls : call[c] = NoCall /\ call'[c] = "bad_install"
  <1>1. ASSUME InteractionInv, NEW c \in Calls, ReceiveInvalidInstall(c)
        PROVE  Invalid
    <2>1. call \in [Calls -> Kinds \cup {NoCall}]
      BY <1>1 DEF InteractionInv, TypeOK
    <2> QED
      BY <1>1, <2>1 DEF ReceiveInvalidInstall, Received
  <1>2. InteractionInv /\ [Next]_vars
          => [mode' = "exited" /\ ~ui.shown =>
                (\A c \in Installs : replies'[c] = 1) \/ Invalid]_vars
    BY <1>1, ExitStep
  <1> QED
    BY <1>2, InteractionInvariant, PTL DEF Spec, ExitAfterReplies
=============================================================================
