------------------------- MODULE FileAndRemoveFlows -------------------------
(***************************************************************************)
(* UNINSTALL_PACKAGE and INSTALL_FILE (up_... and if_..., operations.cc)  *)
(* as flows of callbacks, with the file that is made local first (util.cc) *)
(* and the queue of files that wait for the flow to end                    *)
(* (install_from_file_flow of main.cc).  The next file of the queue is     *)
(* started from within end_interaction_flow (): the stack of dialogs, the  *)
(* progress bar and the static variables of the copy have to be as the     *)
(* next flow expects them at that very point.                              *)
(*                                                                         *)
(* What an instruction file does (instr.cc) is one callback here: adding   *)
(* catalogues is modelled in Catalogues, installing a package in           *)
(* InstallFlow.                                                            *)
(***************************************************************************)
EXTENDS Integers, Sequences, SequencesExt

CONSTANTS
  Files,       \* files that are opened
  MaxTasks,    \* bound: length of task_queue
  MaxScripts   \* bound: checkrm scripts of one package

NoFile == "no_file"   \* filename == NULL: the user will choose one

ASSUME FilesAssumption ==
  NoFile \notin Files /\ MaxTasks \in Nat /\ MaxScripts \in Nat

VARIABLES
  ui,       \* the outstanding callback, the file of the flow, the dialogs above
            \* the main window (topmost first), copy_cont and copy_local, the
            \* task queue, and the files given up without a message
  scripts,  \* number of remove_names
  failed,   \* whether the backend has said that this uninstallation failed
  lost,     \* whether the backend is lost; it is not started again
  again     \* whether a copy that is over will report its end once more ("due"), or
            \* has done so ("came"); "there seems to be no good way to really stop
            \* copy_progress from being called"

vars == <<ui, scripts, failed, lost, again>>
rest == <<scripts, failed, lost, again>>

Init ==
  /\ ui = [at |-> "idle", file |-> NoFile, stack |-> <<>>, cont |-> FALSE,
           local |-> FALSE, tasks |-> <<>>, silent |-> {}]
  /\ scripts = 0 /\ failed = FALSE /\ lost = FALSE /\ again = "no"

\* Callbacks of dialogs, and those that come by themselves.
Dialogs  == {"iff_with_filename", "if_install", "if_fail", "if_end", "fail_copy_cont",
             "up_checkrm_start", "up_end"}
Answered == {"if_details_reply", "if_install_reply", "copy_progress", "up_checkrm_reply",
             "up_checkrm_cmd_done", "up_remove_with_info", "up_remove_reply",
             "up_autoremove_reply"}

-----------------------------------------------------------------------------
(* Dialogs: each operator returns what becomes of ui *)

\* "abort": an assertion has failed, and the program is gone.
Goes(u, p) == IF u.at = "abort" THEN u ELSE [u EXCEPT !.at = p]

\* push_dialog of a note or a question whose answer calls p
Tell(u, p) == Goes([u EXCEPT !.stack = <<"note">> \o @], p)
Ask(u, p)  == Goes([u EXCEPT !.stack = <<"question">> \o @], p)

\* pop_dialog: asserts that the dialog is the topmost one.
Pop(u, d) ==
  IF u.stack # <<>> /\ Head(u.stack) = d THEN [u EXCEPT !.stack = Tail(@)]
  ELSE [u EXCEPT !.at = "abort"]

\* start_entertaining_user and stop_entertaining_user; the depth is at most one.
StartEnt(u) == [u EXCEPT !.stack = <<"bar">> \o @]
StopEnt(u)  == Pop(u, "bar")

\* cleanup_temp_file
CleanUp(u) == [u EXCEPT !.local = FALSE]

-----------------------------------------------------------------------------
(* The end of a flow, and the files that wait for it *)

\* The assertion of end_interaction_flow: no dialog is left.
Gone(u) == [u EXCEPT !.at = "abort"]

\* The file chooser: the task has been taken from the queue, does not succeed,
\* and is queued again (install_from_file_flow_when_idle).
Choose(u) == Ask([u EXCEPT !.tasks = Append(Tail(@), NoFile)], "iff_with_filename")

IsChooser(t) == t = NoFile

\* The flow ends while copy_cont is being called: the files that are started now
\* find copy_cont still set ("Unexpected reentry") and are given up, each in a
\* flow that ends at once, up to a file chooser.
EndInside(u) ==
  IF u.stack # <<>> \/ u.at = "abort" THEN Gone(u)
  ELSE LET k == SelectInSeq(u.tasks, IsChooser)
           n == IF k = 0 THEN Len(u.tasks) ELSE k - 1
           v == [CleanUp(u) EXCEPT !.at = "idle", !.file = NoFile, !.cont = FALSE,
                                   !.silent = @ \cup Range(SubSeq(u.tasks, 1, n)),
                                   !.tasks = SubSeq(@, n + 1, Len(@))]
       IN IF k = 0 THEN v ELSE Choose(v)

\* install_file: what becomes of it while the file is made local and looked at.
\* A file that cannot be opened, or copied for want of a directory, makes a note; a
\* remote one is copied; a package goes to the backend, instructions are
\* carried out.  Instructions without package and catalogues end at once, as does
\* a package when there is no backend.
InstallFile(u, f) ==
  LET v == [u EXCEPT !.file = f]
      w == [v EXCEPT !.cont = TRUE]
  IN {Tell(w, "fail_copy_cont"),
      Goes(StartEnt([w EXCEPT !.local = TRUE]), "copy_progress"),
      Goes(v, "instructions"),
      EndInside(v)}
     \cup (IF lost THEN {} ELSE {Goes(v, "if_details_reply")})

\* consume_interaction_task_queue, when idle
Consume(u) ==
  IF u.tasks = <<>> THEN {u}
  ELSE IF Head(u.tasks) = NoFile THEN {Choose(u)}
  ELSE InstallFile([u EXCEPT !.tasks = Tail(@)], Head(u.tasks))

\* end_interaction_flow, outside of a call of copy_cont
EndFlow(u) ==
  IF u.stack # <<>> \/ u.at = "abort" THEN {Gone(u)}
  ELSE Consume([u EXCEPT !.at = "idle", !.file = NoFile])

\* if_end and iff_end
IfEnd(u) == EndFlow(CleanUp(u))

-----------------------------------------------------------------------------
(* Starting a flow *)

Running == ui.at # "abort"

\* install_from_file_flow: from the menu, which a dialog covers, or for a file
\* that another program opens.
InstallFromFile(f) ==
  /\ Running
  /\ f = NoFile => ui.stack = <<>>
  /\ IF ui.at = "idle"
     THEN ui' \in (IF f = NoFile THEN {Ask(ui, "iff_with_filename")} ELSE InstallFile(ui, f))
     ELSE /\ Len(ui.tasks) < MaxTasks
          /\ ui' = [ui EXCEPT !.tasks = Append(@, f)]
  /\ UNCHANGED rest

\* uninstall_package_flow
UninstallPackageFlow ==
  /\ ui.at = "idle"
  /\ ui' = Ask(ui, "up_checkrm_start") /\ failed' = FALSE
  /\ UNCHANGED <<scripts, lost, again>>

\* notice_apt_worker_failure: the request that is outstanding, and all later ones
\* are answered with NULL.
LoseBackend ==
  /\ Running /\ ~lost /\ lost' = TRUE
  /\ UNCHANGED <<ui, scripts, failed, again>>

At(p) == ui.at = p

-----------------------------------------------------------------------------
(* UNINSTALL_PACKAGE *)

\* up_checkrm_loop and up_remove
CheckrmLoop(u, n) ==
  /\ ui' = Goes(u, IF n > 0 THEN "up_checkrm_cmd_done" ELSE "up_remove_with_info")
  /\ scripts' = IF n > 0 THEN n - 1 ELSE 0

UpCheckrmStart ==
  /\ At("up_checkrm_start")
  /\ LET u == Pop(ui, "question")
     IN ui' = Goes(u, "up_checkrm_reply") \/ ui' \in EndFlow(u)
  /\ UNCHANGED rest

UpCheckrmReply ==
  /\ At("up_checkrm_reply")
  /\ \/ lost /\ ui' \in EndFlow(ui) /\ scripts' = scripts
     \/ ~lost /\ \E n \in 0 .. MaxScripts : CheckrmLoop(ui, n)
  /\ UNCHANGED <<failed, lost, again>>

\* A script that exits with 111 does not want the package to be removed.
UpCheckrmCmdDone ==
  /\ At("up_checkrm_cmd_done")
  /\ \/ ui' = Tell(ui, "up_end") /\ scripts' = 0
     \/ CheckrmLoop(ui, scripts)
  /\ UNCHANGED <<failed, lost, again>>

\* When the request has failed, the status is that of an earlier one.
UpRemoveWithInfo ==
  /\ At("up_remove_with_info")
  /\ \/ ui' = Goes(StartEnt(ui), "up_remove_reply")
     \/ ui' = Tell(ui, "up_end")
  /\ UNCHANGED rest

UpRemoveReply ==
  /\ At("up_remove_reply")
  /\ \/ lost /\ ui' \in EndFlow(StopEnt(ui)) /\ failed' = failed
     \/ ~lost /\ ui' = Goes(ui, "up_autoremove_reply") /\ failed' = failed
     \/ ~lost /\ ui' = Tell(ui, "up_end") /\ failed' = TRUE
  /\ UNCHANGED <<scripts, lost, again>>

\* Mutant: the progress bar is taken down before the note, but not when the
\* backend is lost.
AutoremoveStopsLate ==
  /\ At("up_autoremove_reply")
  /\ \/ lost /\ ui' \in EndFlow(ui)
     \/ ~lost /\ ui' = Tell(StopEnt(ui), "up_end")
  /\ UNCHANGED rest

UpAutoremoveReply ==
  /\ At("up_autoremove_reply")
  /\ \/ lost /\ ui' \in EndFlow(StopEnt(ui))
     \/ ~lost /\ ui' = Tell(StopEnt(ui), "up_end")
  /\ UNCHANGED rest

UpEnd ==
  /\ At("up_end")
  /\ ui' \in EndFlow(Pop(ui, "note"))
  /\ UNCHANGED rest

-----------------------------------------------------------------------------
(* INSTALL_FILE *)

\* iff_with_filename, from the file chooser
IffWithFilename ==
  /\ At("iff_with_filename")
  /\ LET u == Pop(ui, "question")
     IN ui' \in EndFlow(u) \cup UNION {InstallFile(u, f) : f \in Files}
  /\ UNCHANGED rest

\* copy_progress with cur == tot, and call_copy_cont: the copied file is reported as
\* STATUS_CANCELLED, or it is not there.
CopyOver ==
  LET u == CleanUp(StopEnt(ui))
  IN \/ ui' = EndInside([u EXCEPT !.silent = @ \cup {u.file}])
     \/ ui' = Tell(u, "fail_copy_cont")

\* The report may come from an earlier copy, and is then taken for one of this copy.
CopyProgress ==
  /\ At("copy_progress") /\ CopyOver
  /\ again' \in {again, IF again = "no" THEN "due" ELSE again}
  /\ UNCHANGED <<scripts, failed, lost>>

\* A further report with cur == tot, when no copy is going on.  One that has failed
\* finds its owner in it.  Otherwise copy_target has been freed and copy_cont is NULL,
\* or waits for a note: the program is gone, or stat () fails and a note
\* comes, which belongs to no flow.
LateProgress ==
  /\ again = "due" /\ Running /\ ~At("copy_progress")
  /\ \/ At("copy_failed") /\ CopyOver /\ again' = again
     \/ /\ ~At("copy_failed") /\ again' = "came"
        /\ ui' = Gone(ui) \/ ui' = [ui EXCEPT !.stack = <<"late">> \o @]
  /\ UNCHANGED <<scripts, failed, lost>>

\* Its answer calls copy_cont: that is NULL, or its flow ends below other dialogs.
LateNote ==
  /\ Running /\ ui.stack # <<>> /\ Head(ui.stack) = "late"
  /\ ui' = Gone(ui)
  /\ UNCHANGED rest

\* g_file_copy_async fails; it was given no callback.
CopyFails ==
  /\ At("copy_progress")
  /\ ui' = Goes(ui, "copy_failed")
  /\ UNCHANGED rest

\* fail_copy_cont, if_local with NULL
FailCopyCont ==
  /\ At("fail_copy_cont")
  /\ ui' = EndInside(Pop(ui, "note"))
  /\ UNCHANGED rest

\* if_end_with_success, when the instructions have been carried out
InstructionsDone ==
  /\ At("instructions")
  /\ ui' \in IfEnd(ui)
  /\ UNCHANGED rest

\* Mutant: returns without ending the flow when there is no answer.
DetailsReplyIgnoresNull ==
  /\ At("if_details_reply") /\ ~lost
  /\ \E p \in {"if_install", "if_fail"} : ui' = Ask(ui, p)
  /\ UNCHANGED rest

IfDetailsReply ==
  /\ At("if_details_reply")
  /\ \/ lost /\ ui' \in IfEnd(ui)
     \/ ~lost /\ \E p \in {"if_install", "if_fail"} : ui' = Ask(ui, p)
  /\ UNCHANGED rest

IfInstall ==
  /\ At("if_install")
  /\ LET u == Pop(ui, "question")
     IN ui' = Goes(StartEnt(u), "if_install_reply") \/ ui' \in IfEnd(u)
  /\ UNCHANGED rest

IfInstallReply ==
  /\ At("if_install_reply")
  /\ \/ lost /\ ui' \in IfEnd(StopEnt(ui))
     \/ ~lost /\ ui' = Tell(StopEnt(ui), "if_end")
  /\ UNCHANGED rest

IfFail ==
  /\ At("if_fail")
  /\ LET u == Pop(ui, "question")
     IN ui' = Tell(u, "if_end") \/ ui' \in IfEnd(u)
  /\ UNCHANGED rest

\* if_end_with_success and if_end_with_failure, from a note
IfEndNote ==
  /\ At("if_end")
  /\ ui' \in IfEnd(Pop(ui, "note"))
  /\ UNCHANGED rest

-----------------------------------------------------------------------------

\* What comes without the user.
Answers ==
  \/ UpCheckrmReply \/ UpCheckrmCmdDone \/ UpRemoveWithInfo \/ UpRemoveReply
  \/ UpAutoremoveReply \/ CopyProgress \/ CopyFails \/ IfDetailsReply
  \/ IfInstallReply

UserActs ==
  \/ UninstallPackageFlow \/ UpCheckrmStart \/ UpEnd \/ IffWithFilename
  \/ FailCopyCont \/ InstructionsDone \/ IfInstall \/ IfFail \/ IfEndNote
  \/ LateNote
  \/ \E f \in Files \cup {NoFile} : InstallFromFile(f)

Next == Answers \/ UserActs \/ LoseBackend \/ LateProgress

Spec == Init /\ [][Next]_vars

\* The backend, the scripts and the copy come to an end; the user need not answer.
FairSpec == Spec /\ WF_vars(Answers)

-----------------------------------------------------------------------------
(* Properties *)

TypeOK ==
  /\ ui.at \in Dialogs \cup Answered \cup {"idle", "instructions", "copy_failed", "abort"}
  /\ ui.file \in Files \cup {NoFile}
  /\ Range(ui.stack) \subseteq {"bar", "note", "question"}
  /\ ui.cont \in BOOLEAN /\ ui.local \in BOOLEAN
  /\ Range(ui.tasks) \subseteq Files \cup {NoFile} /\ Len(ui.tasks) <= MaxTasks
  /\ ui.silent \subseteq Files
  /\ scripts \in 0 .. MaxScripts /\ failed \in BOOLEAN /\ lost \in BOOLEAN
  /\ again \in {"no", "due", "came"}

\* Without a flow there is no dialog, no temporary file and no file in the queue, and
\* the next file will not be taken for a reentry.
NothingLeft ==
  At("idle") => ui.stack = <<>> /\ ui.tasks = <<>> /\ ~ui.cont /\ ~ui.local

\* copy_cont is set only while its file is copied, or its failure is shown; so no
\* file that the user opens then is taken for a reentry.
CopyHasOwner ==
  /\ ui.cont => ui.at \in {"copy_progress", "copy_failed", "fail_copy_cont", "abort"}
  /\ ui.local => ui.cont

\* The dialogs of a flow, its progress bar included, are closed in the order of
\* pop_dialog () and all closed at its end, on every path but one: the
\* uninstallation that failed (operations.cc:2079).  And nothing is left behind.
Balanced ==
  /\ TypeOK
  /\ At("abort") => failed
  /\ NothingLeft
  /\ CopyHasOwner

\* That is so until a copy reports its end a second time when no copy is going on
\* (util.cc:3389), which the code does not survive.
FlowsBalanced == again # "came" => Balanced

\* A flow comes to its end or to a dialog by itself, unless its copy fails or an
\* assertion does.
FlowsEndOrAsk ==
  ui.at \in Answered ~>
    ui.at \in Dialogs \cup {"idle", "instructions", "copy_failed", "abort"}

\* util.h:242, the progress bar is "properly nested": no assertion fails.
AssertionsHold == Running

\* util.h:529, when a file cannot be made local, "an appropriate error message has
\* already been shown".
FilesHeard == ui.silent = {}
=============================================================================
