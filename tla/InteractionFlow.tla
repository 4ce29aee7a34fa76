--------------------------- MODULE InteractionFlow ---------------------------
(***************************************************************************)
(* Interaction flows (util.cc): at most one flow has dialogs up at a time, *)
(* over the main window or over a window of another program.  The D-Bus    *)
(* calls (dbus.cc), the menus and the timers start flows; what cannot      *)
(* start is refused, queued (install_from_file_flow), kept until the       *)
(* program has been idle for a minute (check_for_updates), or waits for    *)
(* the initial list of packages (with_initialized_packages of main.cc).    *)
(* The program exits when its window is closed or a reply has been sent.   *)
(*                                                                         *)
(* What a flow does between its start and its end is left open: it opens   *)
(* and closes dialogs, and has the list of packages read again.  The       *)
(* refresh of the package cache is modelled step by step.                  *)
(*                                                                         *)
(* When the main window is closed during a flow and the next flow starts   *)
(* at once, the first one goes on as well.  "two" stands for that; what    *)
(* the two do to each other is left out.                                   *)
(***************************************************************************)
EXTENDS Integers, Sequences

CONSTANTS
  Calls,        \* D-Bus calls
  MaxDialogs,   \* bound: dialogs of a flow
  MaxTasks,     \* bound: length of task_queue
  MaxGets       \* bound: requests for the list of packages that are outstanding

ASSUME InteractionAssumption ==
  /\ MaxDialogs \in Nat \ {0} /\ MaxTasks \in Nat /\ MaxGets \in Nat
  /\ "no_call" \notin Calls

VARIABLES
  ui,        \* the variables of util.cc, and the flow that is running
  lists,     \* who asked first for the list of packages, the continuations of
             \* the outstanding requests, and initial_packages_available
  waiters,   \* pending_for_initial_packages, the latest one first
  call,      \* what each D-Bus call asks for
  replies,   \* number of replies sent to it
  mode       \* whether the program is running

vars == <<ui, lists, waiters, call, replies, mode>>

\* "bad_": the arguments are not those that the method takes.
Kinds  == {"packages", "foreign", "open", "restore", "top", "check", "search",
           "bad_install", "bad_search", "bad_open"}
Files  == {"file", "no_file"}
NoCall == "no_call"
NoJob  == [kind |-> "none", call |-> NoCall, dialogs |-> 0]
Job(kind, c) == [kind |-> kind, call |-> c, dialogs |-> 0]

\* main, with or without --no-show
Init ==
  /\ \E show \in BOOLEAN :
       /\ ui = [flow |-> "none", stack |-> 0, job |-> NoJob, tasks |-> <<>>,
                cont |-> FALSE, timer |-> TRUE, long |-> FALSE, shown |-> show]
       /\ lists = IF show THEN [first |-> "init", gets |-> <<"init">>, available |-> FALSE]
                          ELSE [first |-> "nobody", gets |-> <<>>, available |-> FALSE]
  /\ waiters = <<>>
  /\ call = [c \in Calls |-> NoCall]
  /\ replies = [c \in Calls |-> 0]
  /\ mode = "running"

-----------------------------------------------------------------------------
(* util.cc: each operator returns what becomes of ui *)

\* is_idle
Idle(u) == u.flow = "none" /\ u.stack = 0

\* start_interaction_flow and start_foreign_interaction_flow, when idle.  A local
\* flow has the main window at the bottom of the stack.
Begin(u, f, job) ==
  [u EXCEPT !.flow = f, !.job = job,
            !.stack = IF f = "local" THEN 1 ELSE 0,
            !.timer = @ /\ f # "local"]

\* reset_idle_timer.  "long": IDLE_TIMEOUT_SECS have passed since idle_since.
ResetIdleTimer(u) == [u EXCEPT !.timer = Idle(u), !.long = @ /\ ~Idle(u)]

\* consume_interaction_task_queue: the first task starts a flow.  A task without
\* a file name returns TRUE, and is queued again.
Consume(u) ==
  IF ~Idle(u) \/ u.tasks = <<>> THEN u
  ELSE Begin([u EXCEPT !.tasks = IF Head(@) = "file" THEN Tail(@)
                                 ELSE Append(Tail(@), Head(@))],
             "local", Job("file", NoCall))

\* push_dialog and pop_dialog of the flow that is running
PushDialog(u) == [u EXCEPT !.stack = @ + 1, !.job.dialogs = @ + 1]
PopDialog(u)  == Consume([u EXCEPT !.stack = @ - 1, !.job.dialogs = @ - 1])

\* The assertions of end_interaction_flow
Balanced(u) == u.flow # "none" /\ (u.flow = "local" => u.stack = 1)

\* Mutant: the end of a foreign flow pops the main window as well.
EndFlowPops(u) ==
  Consume(ResetIdleTimer([u EXCEPT !.flow = "none", !.job = NoJob, !.stack = @ - 1]))

\* end_interaction_flow
EndFlow(u) ==
  Consume(ResetIdleTimer(
    [u EXCEPT !.flow = "none", !.job = NoJob,
              !.stack = IF u.flow = "local" THEN @ - 1 ELSE @]))

\* present_main_window
Present(u) == [ResetIdleTimer(u) EXCEPT !.shown = TRUE]

\* refresh_package_cache_without_user, in a flow that starts: the progress bar
StartCheck(u) == PushDialog(Begin(u, "local", Job("check", NoCall)))

\* What show_view may make of u: the view may start a refresh when it is made
\* (maybe_refresh_package_cache_without_user).
ShowView(u) ==
  {ResetIdleTimer(u)} \cup (IF Idle(u) THEN {ResetIdleTimer(StartCheck(u))} ELSE {})

\* install_from_file_flow
InstallFromFile(u, file) ==
  IF Idle(u) THEN Begin(u, "local", Job("file", NoCall))
  ELSE [u EXCEPT !.tasks = Append(@, file)]

\* Mutant: does not look whether a flow is running.
ExitUnlessShown(u) == ~u.shown

\* maybe_exit
MaybeExit(u) == ~u.shown /\ u.flow = "none"

-----------------------------------------------------------------------------
(* main.cc: the list of packages *)

\* get_package_list_with_cont
GetPackageList(l, cont) ==
  [l EXCEPT !.first = IF @ = "nobody" THEN (IF cont = "init" THEN "init" ELSE "other")
                      ELSE @,
            !.gets = Append(@, cont)]

\* Mutant: the continuation of the initial list is left out.
InitWithoutCont(l) ==
  IF l.available \/ l.first # "nobody" THEN l
  ELSE [GetPackageList(l, "none") EXCEPT !.first = "init"]

\* maybe_init_packages_list; pkg_list_state is unknown until somebody has asked.
MaybeInit(l) ==
  IF l.available \/ l.first # "nobody" THEN l ELSE GetPackageList(l, "init")

\* notice_initial_packages_available is calling the continuations.
Noticing == lists.available /\ waiters # <<>>

Runs == mode = "running" /\ ~Noticing

-----------------------------------------------------------------------------
(* D-Bus calls *)

Replied(c) == [replies EXCEPT ![c] = @ + 1]

\* Mutant: a call that is refused is not answered.
RefusedSilently(c, u) ==
  /\ ui' = u /\ replies' = replies
  /\ mode' = IF MaybeExit(u) THEN "exited" ELSE mode

\* dip_end and dif_end: the reply, and maybe_exit
EndCall(c, u) ==
  /\ ui' = u /\ replies' = Replied(c)
  /\ mode' = IF MaybeExit(u) THEN "exited" ELSE mode

\* dip_with_initialized_packages, dif_with_initialized_packages
StartInstall(c, f, u) ==
  IF Idle(u) THEN /\ ui' = Begin(u, f, Job("install", c))
                  /\ UNCHANGED <<replies, mode>>
  ELSE EndCall(c, u)

\* dsp_with_initialized_packages
ShowResults(u) == ui' \in (IF Idle(u) THEN ShowView(u) ELSE {u}) /\ UNCHANGED mode

\* What the continuation of the call does, for which k was asked.  A search has
\* been replied to before.
Continuation(c, k) ==
  \/ k = "foreign" /\ StartInstall(c, "foreign", ui)
  \/ k = "packages" /\ StartInstall(c, "local", Present(ui))
  \/ k = "search" /\ ShowResults(Present(ui)) /\ UNCHANGED replies

Received(c, k) ==
  /\ Runs /\ call[c] = NoCall
  /\ call' = [call EXCEPT ![c] = k]

\* dbus_install_packages and dbus_install_file, of the main window or a foreign
\* one.
ReceiveInstall(c, k) ==
  /\ k \in {"packages", "foreign"} /\ Received(c, k)
  /\ lists' = MaybeInit(lists)
  /\ IF lists.available
     THEN Continuation(c, k) /\ waiters' = waiters
     ELSE waiters' = <<c>> \o waiters /\ UNCHANGED <<ui, replies, mode>>

\* dbus_search_packages
ReceiveSearch(c) ==
  /\ Received(c, "search")
  /\ lists' = MaybeInit(lists)
  /\ replies' = Replied(c)
  /\ IF lists.available
     THEN ShowResults(Present(ui)) /\ waiters' = waiters
     ELSE waiters' = <<c>> \o waiters /\ UNCHANGED <<ui, mode>>

\* install_package: mime_open and install_trusted_package
ReceiveOpen(c) ==
  /\ Received(c, "open")
  /\ Len(ui.tasks) < MaxTasks
  /\ ui' = InstallFromFile(Present(ui), "file")
  /\ replies' = Replied(c)
  /\ UNCHANGED <<lists, waiters, mode>>

\* install_package with "magic:restore-packages"
ReceiveRestore(c) ==
  /\ Received(c, "restore")
  /\ LET u == Present(ui) IN
     ui' = IF Idle(u) THEN Begin(u, "local", Job("file", NoCall)) ELSE u
  /\ replies' = Replied(c)
  /\ UNCHANGED <<lists, waiters, mode>>

\* dbus_top_application, dbus_show_check_for_updates_view (whose view starts no
\* refresh)
ReceiveTop(c) ==
  /\ Received(c, "top")
  /\ ui' = Present(ui)
  /\ lists' = MaybeInit(lists)
  /\ replies' = Replied(c)
  /\ UNCHANGED <<waiters, mode>>

\* dbus_check_for_updates, start_interaction_flow_when_idle
ReceiveCheck(c) ==
  /\ Received(c, "check")
  /\ lists' = MaybeInit(lists)
  /\ ui' = IF Idle(ui) /\ ui.long THEN StartCheck(ui) ELSE [ui EXCEPT !.cont = TRUE]
  /\ replies' = Replied(c)
  /\ UNCHANGED <<waiters, mode>>

\* dbus_install_packages and dbus_install_file: the error is one reply, and dip_end
\* or dif_end sends another and calls maybe_exit.
ReceiveInvalidInstall(c) ==
  /\ Received(c, "bad_install")
  /\ replies' = [replies EXCEPT ![c] = @ + 2]
  /\ mode' = IF MaybeExit(ui) THEN "exited" ELSE mode
  /\ UNCHANGED <<ui, lists, waiters>>

\* dbus_search_packages: the error, and then the result.
ReceiveInvalidSearch(c) ==
  /\ Received(c, "bad_search")
  /\ replies' = [replies EXCEPT ![c] = @ + 2]
  /\ UNCHANGED <<ui, lists, waiters, mode>>

\* install_package
ReceiveInvalidOpen(c) ==
  /\ Received(c, "bad_open")
  /\ replies' = Replied(c)
  /\ UNCHANGED <<ui, lists, waiters, mode>>

-----------------------------------------------------------------------------
(* Answers of the backend, and the flow that is running *)

\* notice_initial_packages_available: the next continuation
Notice ==
  /\ mode = "running" /\ Noticing
  /\ Continuation(Head(waiters), call[Head(waiters)])
  /\ waiters' = Tail(waiters)
  /\ UNCHANGED <<lists, call>>

\* The flow ends: dip_install_done, dif_install_done; iff_end, rp_end; icfu_end,
\* rpcwuf_end and those of the menus.  l is what becomes of the lists.
JobEnds(l) ==
  LET u == EndFlow(ui) IN
  IF ~Balanced(ui) THEN mode' = "aborted" /\ UNCHANGED <<ui, lists, replies>>
  ELSE /\ IF ui.job.kind = "install" THEN EndCall(ui.job.call, u)
          ELSE ui' = u /\ UNCHANGED <<replies, mode>>
       /\ lists' = IF ui.job.kind = "file" THEN MaybeInit(l) ELSE l

\* get_package_list_reply: the view is shown again, and the continuation called.
GetPackageListReply ==
  /\ Runs /\ lists.gets # <<>>
  /\ LET cont == Head(lists.gets)
         l == [lists EXCEPT !.gets = Tail(@)] IN
     \/ /\ cont # "rpcwu_end"
        /\ lists' = [l EXCEPT !.available = @ \/ cont = "init"]
        /\ ui' \in {ui} \cup (IF ui.shown THEN ShowView(ui) ELSE {})
        /\ UNCHANGED <<replies, mode>>
     \/ cont = "rpcwu_end" /\ JobEnds(l)
  /\ UNCHANGED <<waiters, call>>

Operating == Runs /\ ui.job.kind \in {"install", "file", "user"}

JobPushes ==
  /\ Operating /\ ui.job.dialogs < MaxDialogs
  /\ ui' = PushDialog(ui)
  /\ UNCHANGED <<lists, waiters, call, replies, mode>>

JobPops ==
  /\ Operating /\ ui.job.dialogs > 0
  /\ ui' = PopDialog(ui)
  /\ UNCHANGED <<lists, waiters, call, replies, mode>>

\* get_package_list: packages have been installed or removed, or settings changed.
JobLists ==
  /\ Operating /\ Len(lists.gets) < MaxGets
  /\ lists' = GetPackageList(lists, "none")
  /\ UNCHANGED <<ui, waiters, call, replies, mode>>

\* The operation is over; ip_end reads the list again before.
OperationEnds ==
  /\ Operating /\ ui.job.dialogs = 0
  /\ \/ JobEnds(lists)
     \/ Len(lists.gets) < MaxGets /\ JobEnds(GetPackageList(lists, "none"))
  /\ UNCHANGED <<waiters, call>>

\* rpcwu_with_network without success, rpcwu_reply
CheckAnswered ==
  /\ Runs /\ ui.job.kind = "check"
  /\ LET u == PopDialog(ui) IN
     \/ /\ ui' = EndFlow(u) /\ lists' = lists
     \/ /\ ui' = [u EXCEPT !.job.kind = "listing"]
        /\ lists' = GetPackageList(lists, "rpcwu_end")
  /\ UNCHANGED <<waiters, call, replies, mode>>

-----------------------------------------------------------------------------
(* The user and the time *)

\* The main window gets events unless a modal dialog is up: those of a foreign
\* flow are not modal.
Usable == ui.shown /\ (ui.flow = "local" => ui.stack = 1)

\* A flow of the menus and views starts, or the one that reports the errors of the
\* catalogues; when it cannot, the user is told so.
UserStarts ==
  /\ Runs /\ Usable /\ Idle(ui)
  /\ \/ ui' = Begin(ui, "local", Job("user", NoCall))
     \/ ui' = StartCheck(ui)
  /\ UNCHANGED <<lists, waiters, call, replies, mode>>

\* "Install from file" in the menu
UserInstallsFile ==
  /\ Runs /\ Usable /\ Len(ui.tasks) < MaxTasks
  /\ ui' = InstallFromFile(ui, "no_file")
  /\ UNCHANGED <<lists, waiters, call, replies, mode>>

SwitchView ==
  /\ Runs /\ Usable
  /\ ui' \in ShowView(ui)
  /\ UNCHANGED <<lists, waiters, call, replies, mode>>

\* window_delete_event
CloseWindow ==
  /\ Runs /\ Usable
  /\ LET u == IF ui.flow # "none" THEN EndFlow(ui) ELSE ui IN
     /\ ui' = [u EXCEPT !.shown = FALSE]
     /\ mode' = IF u.flow = "none" THEN "exited" ELSE "two"
  /\ UNCHANGED <<lists, waiters, call, replies>>

\* idle_callback
IdleCallback ==
  /\ Runs /\ ui.timer
  /\ LET u == [ui EXCEPT !.timer = FALSE] IN
     ui' = IF ui.cont /\ Idle(ui) THEN StartCheck([u EXCEPT !.cont = FALSE]) ELSE u
  /\ UNCHANGED <<lists, waiters, call, replies, mode>>

\* The clock says that IDLE_TIMEOUT_SECS have passed, before or after the timer.
MinutePasses ==
  /\ Runs /\ ~ui.long
  /\ ui' = [ui EXCEPT !.long = TRUE]
  /\ UNCHANGED <<lists, waiters, call, replies, mode>>

Receives ==
  \E c \in Calls :
    \/ \E k \in Kinds : ReceiveInstall(c, k)
    \/ ReceiveSearch(c) \/ ReceiveOpen(c) \/ ReceiveRestore(c)
    \/ ReceiveTop(c) \/ ReceiveCheck(c)
    \/ ReceiveInvalidInstall(c) \/ ReceiveInvalidSearch(c) \/ ReceiveInvalidOpen(c)

Next ==
  \/ Receives
  \/ Notice \/ GetPackageListReply
  \/ JobPushes \/ JobPops \/ JobLists \/ OperationEnds \/ CheckAnswered
  \/ UserStarts \/ UserInstallsFile \/ SwitchView \/ CloseWindow
  \/ IdleCallback \/ MinutePasses

Spec == Init /\ [][Next]_vars

\* The backend answers, and the main loop goes on.  Nothing is assumed of the user.
FairSpec == Spec /\ WF_vars(Notice) /\ WF_vars(GetPackageListReply)

-----------------------------------------------------------------------------
(* Properties *)

Jobs == [kind : {"install", "file", "user", "check", "listing"},
         call : Calls \cup {NoCall}, dialogs : Nat]

States == [flow : {"none", "local", "foreign"}, stack : Nat, job : Jobs \cup {NoJob},
           tasks : Seq(Files), cont : BOOLEAN, timer : BOOLEAN, long : BOOLEAN,
           shown : BOOLEAN]

TypeOK ==
  /\ ui \in States
  /\ lists \in [first : {"nobody", "init", "other"},
                gets : Seq({"init", "none", "rpcwu_end"}), available : BOOLEAN]
  /\ waiters \in Seq(Calls)
  /\ call \in [Calls -> Kinds \cup {NoCall}]
  /\ replies \in [Calls -> Nat]
  /\ mode \in {"running", "exited", "two", "aborted"}

\* The dialogs of the flow that is running lie on the main window or by
\* themselves, and there are none without a flow.
StackFits(u) ==
  /\ u.flow = "none" <=> u.job = NoJob
  /\ u.stack = u.job.dialogs + (IF u.flow = "local" THEN 1 ELSE 0)
  /\ u.job.kind \in {"check", "listing"} => u.flow = "local"
  /\ u.job.kind = "check" => u.job.dialogs = 1
  /\ u.job.kind = "listing" => u.job.dialogs = 0
  /\ u.job.call # NoCall <=> u.job.kind = "install"

\* Nothing that was queued is forgotten: when the program is idle there is no
\* task left.
NothingForgotten == mode = "running" /\ Idle(ui) => ui.tasks = <<>>

Installs == {c \in Calls : call[c] \in {"packages", "foreign"}}

WaitersSet == {waiters[i] : i \in 1 .. Len(waiters)}

\* What a call of kind k gets in the end
RepliesTo(k) == IF k \in {"bad_install", "bad_search"} THEN 2 ELSE 1

\* Every call to install is answered exactly once, at the end of its own flow or
\* when that is refused: it is unanswered as long as it waits for the list or its
\* flow is running, and every other call received has its reply; invalid ones to
\* install or to search have two.
EveryCallAccounted ==
  mode = "running" =>
    \A c \in Calls :
      replies[c] = IF call[c] = NoCall THEN 0
                   ELSE IF c \in Installs /\ (c \in WaitersSet \/ ui.job.call = c) THEN 0
                   ELSE RepliesTo(call[c])

\* A call waits once, for something that needs the list, and before its flow.
WaitersFit ==
  /\ \A c \in WaitersSet : call[c] \in {"packages", "foreign", "search"} /\ c # ui.job.call
  /\ \A i, j \in 1 .. Len(waiters) : waiters[i] = waiters[j] => i = j
  /\ ui.job.kind = "install" => ui.job.call \in Installs

\* The refresh that is waiting for the list is the flow that is running, and a
\* call's flow runs only once the list is there.
ListingFits ==
  /\ \A i, j \in 1 .. Len(lists.gets) :
       lists.gets[i] = "rpcwu_end" =>
         /\ ui.job.kind = "listing"
         /\ lists.gets[j] = "rpcwu_end" => i = j
  /\ ui.job.kind = "install" => lists.available

\* The inductive invariant: a flow that has closed its dialogs finds the stack as
\* it was at the start, no assertion fails, and nothing and nobody is forgotten.
InteractionInv ==
  /\ TypeOK /\ mode # "aborted"
  /\ mode = "running" => StackFits(ui) /\ WaitersFit /\ ListingFits
  /\ NothingForgotten /\ EveryCallAccounted

\* The program does not exit by itself before every call has its reply, unless it does
\* so for an invalid call to install; it may when the user closes the window.
ExitAfterReplies ==
  [][mode' = "exited" /\ ~ui.shown =>
       \/ \A c \in Installs : replies'[c] = 1
       \/ \E c \in Calls : call[c] = NoCall /\ call'[c] = "bad_install"]_vars

\* "So that we don't lose the reply when we exit below" (dbus.cc:196): no reply is lost,
\* whatever call is the last one.
NoReplyLost ==
  [][mode' = "exited" /\ ~ui.shown => \A c \in Installs : replies'[c] = 1]_vars

\* A call that waits for the initial list of packages is not left waiting, when
\* that list was the first one asked for.
WaitersServed ==
  \A c \in Calls :
    lists.first = "init" /\ c \in WaitersSet ~> c \notin WaitersSet \/ mode # "running"

\* "Make sure packages list is initialized after this" (main.cc): the same,
\* whatever was done before.
CallsServed ==
  \A c \in Calls : c \in WaitersSet ~> c \notin WaitersSet \/ mode # "running"

\* "The Application Manager can run one interaction flow at any single time."
OneFlow == mode # "two"
=============================================================================
