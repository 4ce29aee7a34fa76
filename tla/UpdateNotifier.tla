---------------------------- MODULE UpdateNotifier ----------------------------
(***************************************************************************)
(* The two plugins of the status menu (statusbar/).  The first tells the   *)
(* user by an icon, which blinks for what is new, of updates and of        *)
(* notifications of their provider; it runs the check for updates, by an   *)
(* alarm.  The second shows the notifications.  They and the Application   *)
(* Manager share six files, which inotify watches for them; both plugins   *)
(* run in one main loop, the download of notifications in a thread.        *)
(***************************************************************************)
EXTENDS Integers

CONSTANTS
  Updates,        \* updates that may be available
  Fields, Texts,  \* a notification: what it may have, and what these may be
  Compared,       \* title, text and uri, by which notifications are compared
  NoText,         \* a field that is missing
  Notifications,  \* what the provider publishes, some fields of which may be missing
  NoFile,         \* content of a file that is not there, or cannot be parsed
  MaxEvents,      \* bound: what the user, the network and the daemons do
  MaxChecks,      \* bound: checks that run at a time
  MaxAlarms       \* bound: alarms in the queue of the daemon

\* An "info" without anything in it.
Empty == [f \in Fields |-> NoText]

ASSUME NotifierAssumption ==
  /\ Notifications \subseteq [Fields -> Texts \cup {NoText}] \ {Empty}
  /\ Compared \subseteq Fields /\ Compared # {}
  /\ \A s \in SUBSET Updates : NoFile # s
  /\ NoFile \notin [Fields -> Texts \cup {NoText}]
  /\ MaxEvents \in Nat /\ MaxChecks \in Nat /\ MaxAlarms \in Nat

VARIABLES
  updates,   \* available-updates, seen-updates, tapped-updates: sets of updates
  notes,     \* available-, seen-, tapped-notifications: a notification each
  ham,       \* the Application Manager: "off", "on", "writing" the files of the
             \* view "Check for updates", or "showing" it
  icon,      \* icon_state, and whether the timeout of the blinking runs
  shown,     \* the buttons in the menu, and the dialog that is open
  display,   \* display_state
  online,    \* constate
  watching,  \* of each plugin: the watches are in place
  pending,   \* events inotify has: for the first plugin, and by file for the second
  checks,    \* "apt-worker check-for-updates" that run
  download,  \* the thread: "idle", "loading", "writing", and what it writes
  alarm,     \* cookie and setup timer of the plugin, queue of the daemon
  events     \* what has happened from outside

diskVars == <<updates, notes>>
viewVars == <<icon, shown, display>>
vars == <<diskVars, ham, viewVars, online, watching, pending, checks, download, alarm, events>>

UpdateFiles == [avail : {NoFile} \cup SUBSET Updates, seen : {NoFile} \cup SUBSET Updates,
                tapped : {NoFile} \cup SUBSET Updates]
Note      == Notifications \cup {Empty}
NoteFiles == [avail : {NoFile} \cup Note, seen : {NoFile} \cup Note, tapped : {NoFile} \cup Note]

-----------------------------------------------------------------------------
(* What the files say *)

Read(file) == IF file = NoFile THEN {} ELSE file

\* updates_fetch, and the test of is_there_unseen_updates
Unseen(u) == Read(u.avail) \ Read(u.seen)

UpdatesNew(u) == Unseen(u) # {} /\ (u.tapped = NoFile \/ Unseen(u) \ u.tapped # {})

\* ham_updates_status: nothing while the user looks at the updates
UpdatesStatus(u, h) ==
  IF Unseen(u) = {} \/ h = "showing" THEN "none" ELSE IF UpdatesNew(u) THEN "new" ELSE "tapped"

NotEmpty(n)   == n # NoFile /\ n # Empty
Complete(n)   == \A f \in Compared : n[f] # NoText
AllDiffer(n, m) == \A f \in Compared : n[f] # m[f]
Same(n, m)      == \A f \in Compared : n[f] = m[f]

\* A notification that is seen is done with; one that differs from the seen one
\* is new, even if it was tapped.  One without title, text or uri is none, but an
\* empty one is.
NotesStatus(n) ==
  IF n.avail = NoFile \/ (NotEmpty(n.avail) /\ ~Complete(n.avail)) THEN "none"
  ELSE IF NotEmpty(n.seen) THEN IF Same(n.seen, n.avail) THEN "none" ELSE "new"
  ELSE IF NotEmpty(n.tapped) /\ Same(n.tapped, n.avail) THEN "tapped" ELSE "new"

SomethingNew == UpdatesNew(updates) \/ NotesStatus(notes) = "new"

IconFor(u, n, h) ==
  IF "new" \in {UpdatesStatus(u, h), NotesStatus(n)} THEN "blinking"
  ELSE IF "tapped" \in {UpdatesStatus(u, h), NotesStatus(n)} THEN "static" ELSE "invisible"

-----------------------------------------------------------------------------
(* The icon *)

\* Mutants: the timeout is added whatever the display does; an icon that was
\* tapped stays as it is.
SetIconAnyway(s, i) ==
  IF s = i.state THEN i ELSE [state |-> s, blinker |-> s = "blinking"]

SetIconUntapped(s, i) ==
  IF s = i.state \/ i.state = "static" THEN i
  ELSE [state |-> s, blinker |-> s = "blinking" /\ display = "on"]

\* set_icon_state, update_icon_state: nothing happens to a state that is the same.
SetIcon(s, i) ==
  IF s = i.state THEN i ELSE [state |-> s, blinker |-> s = "blinking" /\ display = "on"]

\* update_state, when the files are u and n.  The Application Manager answers
\* only when it is back in its main loop; it is not asked if nothing is unseen.
UpdateState(u, n) ==
  /\ Unseen(u) # {} => ham # "writing"
  /\ icon' = SetIcon(IconFor(u, n, ham), icon)
  /\ shown' = [shown EXCEPT !.updates = UpdatesStatus(u, ham) # "none"]

\* ham_updates_status_menu_item_init: update_state runs before the state of the
\* display is known, and the timer of the alarm starts if inotify works.  The second
\* plugin has a button if its inotify works.
NewIcon(u, n)  == [state |-> IconFor(u, n, "off"), blinker |-> FALSE]
NewShown(u, n, w) == [updates |-> UpdatesStatus(u, "off") # "none",
                      notes |-> w.notes /\ NotesStatus(n) # "none", dialog |-> "none"]
NewAlarm(q)    == [cookie |-> 0, timer |-> TRUE, queue |-> q]
NoAlarm(q)     == [cookie |-> 0, timer |-> FALSE, queue |-> q]
NoAlarms       == [recurring |-> 0, single |-> 0]
NoPending      == [updates |-> FALSE, notes |-> {}]
NoDownload     == [state |-> "idle", note |-> Empty]

Watches == [updates : BOOLEAN, notes : BOOLEAN]

Init ==
  /\ watching \in Watches
  /\ updates = [avail |-> NoFile, seen |-> NoFile, tapped |-> NoFile]
  /\ notes = [avail |-> NoFile, seen |-> NoFile, tapped |-> NoFile]
  /\ icon = NewIcon(updates, notes) /\ shown = NewShown(updates, notes, watching)
  /\ display = "unknown" /\ online \in BOOLEAN /\ ham \in {"off", "on"}
  /\ pending = NoPending /\ checks = 0 /\ download = NoDownload /\ events = 0
  /\ \/ watching.updates /\ (\E n \in 0 .. 1 : alarm = NewAlarm([NoAlarms EXCEPT !.single = n]))
     \/ ~watching.updates /\ alarm = NoAlarm(NoAlarms)

\* Something happens that is no consequence of what happened before.
Event == events < MaxEvents /\ events' = events + 1

\* The device boots again, with the files and the alarms that it had; or the
\* plugins are unloaded (finalize), which deletes the alarms.
Restart ==
  /\ Event
  /\ display' = "unknown" /\ online' = FALSE /\ ham' = "off"
  /\ pending' = NoPending /\ checks' = 0 /\ download' = NoDownload
  /\ \E q \in {alarm.queue, NoAlarms}, w \in Watches :
       /\ watching' = w /\ alarm' = IF w.updates THEN NewAlarm(q) ELSE NoAlarm(q)
       /\ icon' = NewIcon(updates, notes) /\ shown' = NewShown(updates, notes, w)
  /\ UNCHANGED diskVars

\* ham_updates_status_menu_display_event_cb
DisplayEvent(d) ==
  /\ Event /\ display' = d
  /\ icon' = IF icon.state = "blinking" THEN [icon EXCEPT !.blinker = d = "on"] ELSE icon
  /\ UNCHANGED <<diskVars, ham, shown, online, watching, pending, checks, download, alarm>>

\* ham_updates_status_menu_item_connection_cb: only a new connection is looked
\* at; the end of one leaves constate alone.
ConnectionEvent(cheap) ==
  /\ Event /\ online' = cheap
  /\ UNCHANGED <<diskVars, ham, viewVars, watching, pending, checks, download, alarm>>

-----------------------------------------------------------------------------
(* Events of inotify *)

\* Mutants: available-updates and seen-updates are not watched; nor is
\* seen-notifications by the first plugin.
TellNobody == pending
TellNotesOnly(files) ==
  [pending EXCEPT !.notes = IF watching.notes THEN @ \cup files ELSE @]

\* What the first plugin is told of: available-updates, seen-updates and
\* seen-notifications.
TellUpdates == [pending EXCEPT !.updates = watching.updates]
TellNotes(files) ==
  [updates |-> IF "seen" \in files THEN watching.updates ELSE pending.updates,
   notes |-> IF watching.notes THEN pending.notes \cup files ELSE pending.notes]

\* ham_updates_status_menu_item_inotify_cb: all events are read at once, and
\* each runs update_state.
UpdatesEvent ==
  /\ pending.updates
  /\ pending' = [pending EXCEPT !.updates = FALSE]
  /\ UpdateState(updates, notes)
  /\ UNCHANGED <<diskVars, ham, display, online, watching, checks, download, alarm, events>>

\* inotify cannot be read: the watches of the plugin are closed.
WatchFails ==
  /\ Event
  /\ \/ /\ watching.updates /\ watching' = [watching EXCEPT !.updates = FALSE]
        /\ pending' = [pending EXCEPT !.updates = FALSE]
     \/ /\ watching.notes /\ watching' = [watching EXCEPT !.notes = FALSE]
        /\ pending' = [pending EXCEPT !.notes = {}]
  /\ UNCHANGED <<diskVars, ham, viewVars, online, checks, download, alarm>>

\* RPC "check_state"
CheckState ==
  /\ Event /\ UpdateState(updates, notes)
  /\ UNCHANGED <<diskVars, ham, display, online, watching, pending, checks, download, alarm>>

\* ham_notifier_empty_seen_notifications: files that have nothing in common with
\* the notification that is available are emptied.
Outdated(file) ==
  \/ file = NoFile
  \/ NotEmpty(notes.avail) /\ (file = Empty \/ AllDiffer(notes.avail, file))

Emptied(file) == IF Outdated(file) THEN Empty ELSE file

AvailableNotesEvent ==
  /\ "avail" \in pending.notes
  /\ LET written == IF notes.avail # NoFile /\ Outdated(notes.seen) THEN {"seen"} ELSE {}
     IN pending' = [TellNotes(written) EXCEPT !.notes = @ \ {"avail"}]
  /\ notes' = IF notes.avail = NoFile THEN notes
              ELSE [notes EXCEPT !.seen = Emptied(@), !.tapped = Emptied(@)]
  /\ UNCHANGED <<updates, ham, viewVars, online, watching, checks, download, alarm, events>>

\* update_button_visibility
SeenNotesEvent ==
  /\ "seen" \in pending.notes
  /\ pending' = [pending EXCEPT !.notes = @ \ {"seen"}]
  /\ shown' = [shown EXCEPT !.notes = NotesStatus(notes) # "none"]
  /\ UNCHANGED <<diskVars, ham, icon, display, online, watching, checks, download, alarm, events>>

-----------------------------------------------------------------------------
(* The user *)

\* ham_updates_icon_tapped and ham_notifier_icon_tapped
TappedUpdates == IF updates.avail = NoFile THEN {} ELSE Unseen(updates)

\* ham_updates_status_menu_item_map_event: the menu is opened.
OpenMenu ==
  /\ Event /\ icon.state = "blinking"
  /\ updates' = [updates EXCEPT !.tapped = TappedUpdates]
  /\ notes' = [notes EXCEPT !.tapped = IF notes.avail = NoFile THEN @ ELSE notes.avail]
  /\ icon' = SetIcon("static", icon)
  /\ UNCHANGED <<ham, shown, display, online, watching, pending, checks, download, alarm>>

\* ham_updates_button_clicked_cb: the dialog shows what is unseen now.
ClickUpdates ==
  /\ Event /\ shown.updates /\ shown.dialog = "none" /\ Unseen(updates) # {}
  /\ shown' = [shown EXCEPT !.dialog = "updates"]
  /\ UNCHANGED <<diskVars, ham, icon, display, online, watching, pending, checks, download, alarm>>

\* ham_updates_dialog_response_cb: "No" makes seen what is available by then, and
\* "Yes" asks the Application Manager to show the updates.
AnswerUpdates(yes) ==
  LET seen == IF updates.avail = NoFile THEN updates.seen ELSE updates.avail
      u    == IF yes THEN updates ELSE [updates EXCEPT !.seen = seen, !.tapped = {}]
  IN /\ Event /\ shown.dialog = "updates"
     /\ Unseen(u) # {} => ham # "writing"
     /\ updates' = u
     /\ icon' = SetIcon(IconFor(u, notes, ham), icon)
     /\ shown' = [shown EXCEPT !.updates = UpdatesStatus(u, ham) # "none", !.dialog = "none"]
     /\ pending' = IF yes \/ updates.avail = NoFile THEN pending ELSE TellUpdates
     /\ UNCHANGED <<notes, ham, display, online, watching, checks, download, alarm>>

\* ham_notifier_button_clicked_cb
ClickNotes ==
  /\ Event /\ shown.notes /\ shown.dialog = "none" /\ NotEmpty(notes.avail) /\ Complete(notes.avail)
  /\ shown' = [shown EXCEPT !.dialog = "notes"]
  /\ UNCHANGED <<diskVars, ham, icon, display, online, watching, pending, checks, download, alarm>>

\* ham_notifier_dialog_response_cb, with either answer.
AnswerNotes ==
  /\ Event /\ shown.dialog = "notes"
  /\ notes' = [notes EXCEPT !.seen = IF notes.avail = NoFile THEN @ ELSE notes.avail,
                            !.tapped = Empty]
  /\ shown' = [shown EXCEPT !.dialog = "none", !.notes = FALSE]
  /\ pending' = IF notes.avail = NoFile THEN pending ELSE TellNotes({"seen"})
  /\ UNCHANGED <<updates, ham, icon, display, online, watching, checks, download, alarm>>

-----------------------------------------------------------------------------
(* Checks *)

\* check_for_updates and check_for_notifications.  Files of taps that are long
\* ago are removed first (old); the process or the thread may fail to start; the
\* thread ends at once when another one has the mutex.
Check(old, runs, loads) ==
  IF online
  THEN /\ updates' = IF old /\ updates.tapped # NoFile
                     THEN [updates EXCEPT !.seen = NoFile, !.tapped = NoFile] ELSE updates
       /\ runs => checks < MaxChecks
       /\ checks' = IF runs THEN checks + 1 ELSE checks
       /\ download' = IF loads /\ download.state = "idle"
                      THEN [download EXCEPT !.state = "loading"] ELSE download
  ELSE UNCHANGED <<updates, checks, download>>

\* RPC "check_for_updates", or a recurring alarm
CheckUpdates(old, runs, loads) ==
  /\ Event /\ Check(old, runs, loads)
  /\ UNCHANGED <<notes, ham, viewVars, online, watching, pending, alarm>>

\* An alarm of an older version goes off once.
SingleAlarm(old, runs, loads) ==
  /\ Event /\ alarm.queue.single > 0 /\ alarm' = [alarm EXCEPT !.queue.single = 0]
  /\ Check(old, runs, loads)
  /\ UNCHANGED <<notes, ham, viewVars, online, watching, pending>>

\* ham_updates_check_done_cb, ham_updates_status_menu_item_check_done_cb.  After
\* a failure an Application Manager that runs is asked to check, as it may.
CheckDone(ok) ==
  /\ checks > 0 /\ checks' = checks - 1
  /\ IF ok THEN UpdateState(updates, notes) ELSE UNCHANGED <<icon, shown>>
  /\ UNCHANGED <<diskVars, ham, display, online, watching, pending, download, alarm, events>>

\* write_available_updates_file, of either backend
WriteAvailableUpdates(u) ==
  /\ Event
  /\ checks > 0 \/ ham # "off"
  /\ updates' = [updates EXCEPT !.avail = u]
  /\ pending' = TellUpdates
  /\ UNCHANGED <<notes, ham, viewVars, online, watching, checks, download, alarm>>

\* download_notifications: nothing usable was loaded; or the file is opened for
\* writing, which truncates it, and is closed.
DownloadFails ==
  /\ download.state = "loading" /\ download' = NoDownload
  /\ UNCHANGED <<diskVars, ham, viewVars, online, watching, pending, checks, alarm, events>>

DownloadTruncates(n) ==
  /\ Event /\ download.state = "loading" /\ download' = [state |-> "writing", note |-> n]
  /\ notes' = [notes EXCEPT !.avail = NoFile]
  /\ UNCHANGED <<updates, ham, viewVars, online, watching, pending, checks, alarm>>

DownloadWrites ==
  /\ download.state = "writing" /\ download' = NoDownload
  /\ notes' = [notes EXCEPT !.avail = download.note]
  /\ pending' = TellNotes({"avail"})
  /\ UNCHANGED <<updates, ham, viewVars, online, watching, checks, alarm, events>>

-----------------------------------------------------------------------------
(* The alarm *)

\* setup_alarm, when the query of the queue and the addition to it succeed or not.
\* Several alarms, or one that does not recur, are deleted.
SetupAlarm(al, query, add) ==
  LET found == IF query THEN al.queue ELSE NoAlarms
      left  == IF found = NoAlarms THEN al.queue ELSE NoAlarms
  IN IF al.cookie # 0 \/ found = [NoAlarms EXCEPT !.recurring = 1]
     THEN [ok |-> TRUE, alarm |-> [al EXCEPT !.cookie = IF @ # 0 THEN @ ELSE 1]]
     ELSE IF add
     THEN [ok |-> TRUE, alarm |-> [al EXCEPT !.cookie = 1, !.queue = [left EXCEPT !.recurring = @ + 1]]]
     ELSE [ok |-> FALSE, alarm |-> [al EXCEPT !.cookie = -1, !.queue = left]]

Bounded(queue) == queue.recurring + queue.single <= MaxAlarms

\* setup_alarm_now, a minute after the start; run_service_now checks when that is
\* due, or there is something new without a tap (should_force_check_for_updates).
SetupAlarmNow(query, add, due, old, runs, loads) ==
  LET r == SetupAlarm(alarm, query, add)
  IN /\ Event /\ alarm.timer /\ Bounded(r.alarm.queue)
     /\ alarm' = [r.alarm EXCEPT !.timer = ~r.ok]
     /\ IF r.ok /\ (due \/ (UpdatesStatus(updates, ham) = "new" /\ updates.tapped = NoFile))
        THEN Check(old, runs, loads) ELSE UNCHANGED <<updates, checks, download>>
     /\ UNCHANGED <<notes, ham, viewVars, online, watching, pending>>

\* ham_updates_status_menu_item_interval_changed_cb
IntervalChanged(deleted, query, add) ==
  LET r == SetupAlarm([alarm EXCEPT !.cookie = 0, !.queue = IF deleted THEN NoAlarms ELSE @],
                      query, add)
  IN /\ Event /\ Bounded(r.alarm.queue)
     /\ alarm' = r.alarm
     /\ UNCHANGED <<diskVars, ham, viewVars, online, watching, pending, checks, download>>

-----------------------------------------------------------------------------
(* The Application Manager (main.cc) *)

HamStartsOrExits ==
  /\ Event /\ ham \in {"off", "on"} /\ ham' = IF ham = "off" THEN "on" ELSE "off"
  /\ UNCHANGED <<diskVars, viewVars, online, watching, pending, checks, download, alarm>>

\* update_seen_updates_file: the view shows s, which are seen then.
HamShowsUpdates(s) ==
  /\ Event /\ ham \in {"on", "showing"} /\ ham' = "writing"
  /\ updates' = [updates EXCEPT !.seen = s]
  /\ pending' = TellUpdates
  /\ UNCHANGED <<notes, viewVars, online, watching, checks, download, alarm>>

HamCleansTapped ==
  /\ ham = "writing" /\ ham' = "showing"
  /\ updates' = [updates EXCEPT !.tapped = {}]
  /\ UNCHANGED <<notes, viewVars, online, watching, pending, checks, download, alarm, events>>

HamLeavesView ==
  /\ Event /\ ham = "showing" /\ ham' = "on"
  /\ UNCHANGED <<diskVars, viewVars, online, watching, pending, checks, download, alarm>>

-----------------------------------------------------------------------------
Next ==
  \/ Restart
  \/ \E d \in {"on", "off"} : DisplayEvent(d)
  \/ \E b \in BOOLEAN : ConnectionEvent(b)
  \/ UpdatesEvent \/ WatchFails \/ CheckState \/ AvailableNotesEvent \/ SeenNotesEvent
  \/ OpenMenu \/ ClickUpdates \/ ClickNotes \/ AnswerNotes
  \/ \E b \in BOOLEAN : AnswerUpdates(b)
  \/ \E old, runs, loads \in BOOLEAN :
       \/ CheckUpdates(old, runs, loads) \/ SingleAlarm(old, runs, loads)
       \/ \E query, add, due \in BOOLEAN : SetupAlarmNow(query, add, due, old, runs, loads)
  \/ \E ok \in BOOLEAN : CheckDone(ok)
  \/ \E u \in SUBSET Updates : WriteAvailableUpdates(u) \/ HamShowsUpdates(u)
  \/ DownloadFails \/ DownloadWrites
  \/ \E n \in Note : DownloadTruncates(n)
  \/ \E deleted, query, add \in BOOLEAN : IntervalChanged(deleted, query, add)
  \/ HamStartsOrExits \/ HamCleansTapped \/ HamLeavesView

Spec == Init /\ [][Next]_vars

\* The main loop dispatches what inotify has, and a file that is being written is
\* written in the end.  Nothing is assumed of the user or the network.
FairSpec ==
  /\ Spec
  /\ WF_vars(UpdatesEvent) /\ WF_vars(AvailableNotesEvent) /\ WF_vars(SeenNotesEvent)
  /\ WF_vars(HamCleansTapped) /\ WF_vars(DownloadWrites)

-----------------------------------------------------------------------------
TypeOK ==
  /\ updates \in UpdateFiles /\ notes \in NoteFiles
  /\ ham \in {"off", "on", "writing", "showing"}
  /\ icon \in [state : {"invisible", "static", "blinking"}, blinker : BOOLEAN]
  /\ shown \in [updates : BOOLEAN, notes : BOOLEAN, dialog : {"none", "updates", "notes"}]
  /\ display \in {"unknown", "on", "off"} /\ online \in BOOLEAN /\ watching \in Watches
  /\ pending \in [updates : BOOLEAN, notes : SUBSET {"avail", "seen"}]
  /\ checks \in 0 .. MaxChecks /\ events \in 0 .. MaxEvents
  /\ download \in [state : {"idle", "loading", "writing"}, note : Note]
  /\ alarm \in [cookie : {-1, 0, 1}, timer : BOOLEAN, queue : [recurring : Nat, single : Nat]]

\* The icon blinks when it should and the display is on, and only then: a timeout
\* left behind would keep the processor awake.
BlinkerFits == icon.blinker <=> icon.state = "blinking" /\ display = "on"

\* The plugin that thinks it has an alarm has one; one that has stopped trying has
\* an alarm or has met a failure.
AlarmFits ==
  /\ alarm.cookie = 1 => alarm.queue.recurring > 0
  /\ watching.updates /\ ~alarm.timer => alarm.cookie # 0

NotifierInv == TypeOK /\ BlinkerFits /\ AlarmFits

\* The icon does not blink when there is nothing new, unless the plugins are still
\* to be told, a file is half written, or what is available is nothing that makes the
\* second plugin empty seen-notifications, without which the first is not told.
NoFalseAlarm ==
  icon.state = "blinking" /\ watching.updates /\ watching.notes =>
    \/ SomethingNew
    \/ pending.updates \/ pending.notes # {}
    \/ download.state = "writing"
    \/ notes.avail # NoFile /\ ~Outdated(notes.seen)

\* An update that is announced to inotify makes the icon blink, or is seen,
\* tapped or withdrawn before, or the user looks at the updates.
UpdatesAnnounced ==
  pending.updates /\ UpdatesNew(updates) ~>
    icon.state = "blinking" \/ ~UpdatesNew(updates) \/ ham = "showing" \/ ~watching.updates

\* A notification that has nothing in common with the one that was seen makes the
\* icon blink, by way of both plugins, if both can read inotify.
NotesAnnounced ==
  "avail" \in pending.notes /\ NotEmpty(notes.avail) /\ NotesStatus(notes) = "new"
       /\ Outdated(notes.seen) ~>
    icon.state = "blinking" \/ NotesStatus(notes) # "new"
      \/ ~(watching.updates /\ watching.notes)

\* "Try again in one minute" (setup_alarm_now): the plugin tries until it has an
\* alarm.
AlarmTriedAgain == watching.updates /\ ~alarm.timer => alarm.queue # NoAlarms
=============================================================================
