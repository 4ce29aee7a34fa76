------------------------- MODULE UpdateNotifier_proofs -------------------------
(***************************************************************************)
(* The icon blinks only for something that is new or that the plugins are  *)
(* still to be told of, for any updates, any notifications and any number  *)
(* of events; and the plugin that believes in its alarm has one.           *)
(***************************************************************************)
EXTENDS UpdateNotifier, TLAPS

\* Why the icon blinks.  This is stronger than NoFalseAlarm: of the events that the
\* second plugin is to be told of, only that of a notification that makes it write
\* seen-notifications leads to another look at the icon.
BlinksForReason ==
  icon.state = "blinking" /\ watching.updates /\ watching.notes =>
    \/ SomethingNew
    \/ pending.updates \/ download.state = "writing"
    \/ notes.avail # NoFile /\ ~Outdated(notes.seen)
    \/ "avail" \in pending.notes /\ notes.avail # NoFile

Alarm == [cookie : {-1, 0, 1}, timer : BOOLEAN, queue : [recurring : Nat, single : Nat]]

IndInv == NotifierInv /\ BlinksForReason

-----------------------------------------------------------------------------
(* Files *)

LEMMA NoteFacts == \A n \in Note : n # NoFile
  BY NotifierAssumption DEF Note, Empty

\* What the user has been shown is among what there is.
LEMMA FileTypes ==
  ASSUME TypeOK
  PROVE  /\ updates.avail \in {NoFile} \cup SUBSET Updates
         /\ updates.seen \in {NoFile} \cup SUBSET Updates
         /\ updates.tapped \in {NoFile} \cup SUBSET Updates
         /\ notes.avail \in {NoFile} \cup Note
         /\ notes.seen \in {NoFile} \cup Note
         /\ notes.tapped \in {NoFile} \cup Note
         /\ Unseen(updates) \in SUBSET Updates
         /\ TappedUpdates \in SUBSET Updates
         /\ Empty \in Note
  BY DEF TypeOK, UpdateFiles, NoteFiles, Note, Unseen, Read, TappedUpdates

-----------------------------------------------------------------------------
(* Types *)

LEMMA InitTypes == Init => TypeOK
<1>1. SUFFICES ASSUME Init PROVE TypeOK
  OBVIOUS
<1>2. updates \in UpdateFiles /\ notes \in NoteFiles
  BY <1>1 DEF Init, UpdateFiles, NoteFiles
<1>3. icon \in [state : {"invisible", "static", "blinking"}, blinker : BOOLEAN]
  BY <1>1 DEF Init, NewIcon, IconFor
<1>4. shown \in [updates : BOOLEAN, notes : BOOLEAN, dialog : {"none", "updates", "notes"}]
  BY <1>1 DEF Init, NewShown
<1>5. alarm \in [cookie : {-1, 0, 1}, timer : BOOLEAN, queue : [recurring : Nat, single : Nat]]
  <2>1. NoAlarms \in [recurring : Nat, single : Nat]
    BY DEF NoAlarms
  <2>2. \A k \in 0 .. 1 : [NoAlarms EXCEPT !.single = k] \in [recurring : Nat, single : Nat]
    BY DEF NoAlarms
  <2> HIDE DEF NoAlarms
  <2>3. PICK q \in [recurring : Nat, single : Nat] : alarm = NewAlarm(q) \/ alarm = NoAlarm(q)
    BY <1>1, <2>1, <2>2, Zenon DEF Init
  <2>4. NewAlarm(q) \in Alarm /\ NoAlarm(q) \in Alarm
    BY DEF NewAlarm, NoAlarm, Alarm
  <2>5. QED
    BY <2>3, <2>4, Zenon DEF Alarm
<1>6. download \in [state : {"idle", "loading", "writing"}, note : Note]
  BY <1>1 DEF Init, NoDownload, Note
<1>7. /\ pending \in [updates : BOOLEAN, notes : SUBSET {"avail", "seen"}]
      /\ ham \in {"off", "on", "writing", "showing"} /\ display \in {"unknown", "on", "off"}
      /\ checks \in 0 .. MaxChecks /\ events \in 0 .. MaxEvents
  BY <1>1, NotifierAssumption DEF Init, NoPending
<1>8. online \in BOOLEAN /\ watching \in Watches
  BY <1>1, Zenon DEF Init
<1>9. QED
  BY <1>2, <1>3, <1>4, <1>5, <1>6, <1>7, <1>8 DEF TypeOK

LEMMA SetIconTypes ==
  ASSUME NEW u, NEW n, NEW h,
         icon \in [state : {"invisible", "static", "blinking"}, blinker : BOOLEAN]
  PROVE  SetIcon(IconFor(u, n, h), icon)
           \in [state : {"invisible", "static", "blinking"}, blinker : BOOLEAN]
  BY DEF SetIcon, IconFor

LEMMA CheckTypes ==
  ASSUME TypeOK, NEW old \in BOOLEAN, NEW runs \in BOOLEAN, NEW loads \in BOOLEAN,
         Check(old, runs, loads)
  PROVE  /\ updates' \in UpdateFiles
         /\ checks' \in 0 .. MaxChecks
         /\ download' \in [state : {"idle", "loading", "writing"}, note : Note]
<1>1. updates' \in UpdateFiles
  <2>1. updates' \in {updates, [updates EXCEPT !.seen = NoFile, !.tapped = NoFile]}
    BY DEF Check
  <2>2. QED
    BY <2>1 DEF TypeOK, UpdateFiles
<1>2. checks' \in 0 .. MaxChecks
  BY NotifierAssumption DEF TypeOK, Check
<1>3. download' \in [state : {"idle", "loading", "writing"}, note : Note]
  BY DEF TypeOK, Check
<1>4. QED
  BY <1>1, <1>2, <1>3

LEMMA SetupTypes ==
  ASSUME NEW al \in Alarm, NEW query \in BOOLEAN, NEW add \in BOOLEAN
  PROVE  /\ SetupAlarm(al, query, add).ok \in BOOLEAN
         /\ SetupAlarm(al, query, add).alarm \in Alarm
         /\ SetupAlarm(al, query, add).alarm.cookie # 0
         /\ SetupAlarm(al, query, add).alarm.cookie = 1
              => al.cookie = 1 \/ SetupAlarm(al, query, add).alarm.queue.recurring > 0
         /\ al.cookie = 1 => SetupAlarm(al, query, add).alarm.queue = al.queue
<1> DEFINE found == IF query THEN al.queue ELSE NoAlarms
           left  == IF found = NoAlarms THEN al.queue ELSE NoAlarms
           more  == [left EXCEPT !.recurring = @ + 1]
           kept  == [al EXCEPT !.cookie = IF @ # 0 THEN @ ELSE 1]
           new   == [al EXCEPT !.cookie = 1, !.queue = more]
           none  == [al EXCEPT !.cookie = -1, !.queue = left]
<1>1. left \in [recurring : Nat, single : Nat]
  BY DEF NoAlarms, Alarm
<1>2. more \in [recurring : Nat, single : Nat] /\ more.recurring > 0
  BY <1>1
<1>3. CASE al.cookie # 0 \/ found = [NoAlarms EXCEPT !.recurring = 1]
  <2>1. SetupAlarm(al, query, add) = [ok |-> TRUE, alarm |-> kept]
    BY <1>3 DEF SetupAlarm
  <2>2. al.cookie = 0 => al.queue.recurring = 1
    BY <1>3 DEF NoAlarms
  <2>3. kept \in Alarm /\ kept.cookie = (IF al.cookie # 0 THEN al.cookie ELSE 1) /\ kept.queue = al.queue
    BY DEF Alarm
  <2> HIDE DEF kept
  <2>4. QED
    BY <2>1, <2>2, <2>3 DEF Alarm
<1>4. CASE ~(al.cookie # 0 \/ found = [NoAlarms EXCEPT !.recurring = 1])
  <2> HIDE DEF left, more
  <2>1. CASE add
    <3>1. SetupAlarm(al, query, add) = [ok |-> TRUE, alarm |-> new]
      BY <1>4, <2>1 DEF SetupAlarm, left, more
    <3>2. new \in Alarm /\ new.cookie = 1 /\ new.queue = more
      BY <1>2 DEF Alarm
    <3> HIDE DEF new
    <3>3. QED
      BY <1>2, <1>4, <3>1, <3>2
  <2>2. CASE ~add
    <3>1. SetupAlarm(al, query, add) = [ok |-> FALSE, alarm |-> none]
      BY <1>4, <2>2 DEF SetupAlarm, left
    <3>2. none \in Alarm /\ none.cookie = -1
      BY <1>1 DEF Alarm
    <3> HIDE DEF none
    <3>3. QED
      BY <1>4, <3>1, <3>2
  <2>3. QED
    BY <2>1, <2>2
<1>5. QED
  BY <1>3, <1>4

\* The variables that an action leaves alone keep their types; the others are
\* treated one by one.
LEMMA ViewTypes ==
  ASSUME TypeOK, NEW u, NEW n, UpdateState(u, n)
  PROVE  /\ icon' \in [state : {"invisible", "static", "blinking"}, blinker : BOOLEAN]
         /\ shown' \in [updates : BOOLEAN, notes : BOOLEAN, dialog : {"none", "updates", "notes"}]
<1>1. icon' \in [state : {"invisible", "static", "blinking"}, blinker : BOOLEAN]
  BY SetIconTypes DEF TypeOK, UpdateState
<1>2. shown' \in [updates : BOOLEAN, notes : BOOLEAN, dialog : {"none", "updates", "notes"}]
  BY DEF TypeOK, UpdateState
<1>3. QED
  BY <1>1, <1>2

LEMMA PendingTypes ==
  ASSUME TypeOK
  PROVE  /\ TellUpdates \in [updates : BOOLEAN, notes : SUBSET {"avail", "seen"}]
         /\ \A files \in SUBSET {"avail", "seen"} :
              TellNotes(files) \in [updates : BOOLEAN, notes : SUBSET {"avail", "seen"}]
  BY DEF TypeOK, TellUpdates, TellNotes, Watches

LEMMA EventTypes == ASSUME TypeOK, Event PROVE events' \in 0 .. MaxEvents
  BY NotifierAssumption DEF TypeOK, Event

LEMMA RestartTypes == TypeOK /\ Restart => TypeOK'
<1>1. SUFFICES ASSUME TypeOK, Restart PROVE TypeOK'
  OBVIOUS
<1>2. icon' \in [state : {"invisible", "static", "blinking"}, blinker : BOOLEAN]
  BY <1>1 DEF Restart, NewIcon, IconFor
<1>3. shown' \in [updates : BOOLEAN, notes : BOOLEAN, dialog : {"none", "updates", "notes"}]
  BY <1>1 DEF Restart, NewShown
<1>4. alarm' \in [cookie : {-1, 0, 1}, timer : BOOLEAN, queue : [recurring : Nat, single : Nat]]
  <2>1. alarm.queue \in [recurring : Nat, single : Nat] /\ NoAlarms \in [recurring : Nat, single : Nat]
    BY <1>1 DEF TypeOK, NoAlarms
  <2>2. PICK q \in [recurring : Nat, single : Nat] : alarm' = NewAlarm(q) \/ alarm' = NoAlarm(q)
    BY <1>1, <2>1, Zenon DEF Restart
  <2>3. NewAlarm(q) \in Alarm /\ NoAlarm(q) \in Alarm
    BY DEF NewAlarm, NoAlarm, Alarm
  <2>4. QED
    BY <2>2, <2>3, Zenon DEF Alarm
<1>5. watching' \in Watches
  BY <1>1, Zenon DEF Restart
<1>6. /\ download' \in [state : {"idle", "loading", "writing"}, note : Note]
      /\ pending' \in [updates : BOOLEAN, notes : SUBSET {"avail", "seen"}]
      /\ checks' \in 0 .. MaxChecks /\ events' \in 0 .. MaxEvents
  BY <1>1, EventTypes, NotifierAssumption DEF Restart, NoDownload, Note, NoPending
<1>7. QED
  BY <1>1, <1>2, <1>3, <1>4, <1>5, <1>6 DEF TypeOK, Restart, diskVars

LEMMA DeviceTypes ==
  ASSUME TypeOK,
         \/ \E d \in {"on", "off"} : DisplayEvent(d)
         \/ \E b \in BOOLEAN : ConnectionEvent(b)
         \/ WatchFails \/ UpdatesEvent \/ CheckState
         \/ \E ok \in BOOLEAN : CheckDone(ok)
  PROVE  TypeOK'
<1>1. CASE \E d \in {"on", "off"} : DisplayEvent(d)
  <2>1. icon' \in [state : {"invisible", "static", "blinking"}, blinker : BOOLEAN]
    <3>1. icon' \in {icon, [icon EXCEPT !.blinker = TRUE], [icon EXCEPT !.blinker = FALSE]}
      BY <1>1 DEF DisplayEvent
    <3>2. QED
      BY <3>1 DEF TypeOK
  <2>2. QED
    BY <1>1, <2>1, EventTypes DEF DisplayEvent, TypeOK, diskVars
<1>2. CASE \E b \in BOOLEAN : ConnectionEvent(b)
  BY <1>2, EventTypes DEF ConnectionEvent, TypeOK, diskVars, viewVars
<1>3. CASE WatchFails
  <2>1. pending' \in [updates : BOOLEAN, notes : SUBSET {"avail", "seen"}]
    BY <1>3 DEF WatchFails, TypeOK
  <2>2. watching' \in Watches
    BY <1>3 DEF WatchFails, TypeOK, Watches
  <2>3. QED
    BY <1>3, <2>1, <2>2, EventTypes DEF WatchFails, TypeOK, diskVars, viewVars
<1>4. CASE UpdatesEvent
  <2>1. pending' \in [updates : BOOLEAN, notes : SUBSET {"avail", "seen"}]
    BY <1>4 DEF UpdatesEvent, TypeOK
  <2>2. QED
    BY <1>4, <2>1, ViewTypes DEF UpdatesEvent, TypeOK, diskVars
<1>5. CASE CheckState
  BY <1>5, ViewTypes, EventTypes DEF CheckState, TypeOK, diskVars
<1>6. CASE \E ok \in BOOLEAN : CheckDone(ok)
  <2>1. checks' \in 0 .. MaxChecks
    BY <1>6, NotifierAssumption DEF CheckDone, TypeOK
  <2>2. QED
    BY <1>6, <2>1, ViewTypes DEF CheckDone, TypeOK, diskVars
<1>7. QED
  BY <1>1, <1>2, <1>3, <1>4, <1>5, <1>6

LEMMA NotesTypes ==
  ASSUME TypeOK,
         \/ AvailableNotesEvent \/ SeenNotesEvent \/ ClickNotes \/ AnswerNotes
         \/ DownloadFails \/ DownloadWrites \/ \E n \in Note : DownloadTruncates(n)
  PROVE  TypeOK'
<1>1. CASE AvailableNotesEvent
  <2>1. notes' \in NoteFiles
    BY <1>1, FileTypes DEF AvailableNotesEvent, TypeOK, NoteFiles, Emptied
  <2>2. pending' \in [updates : BOOLEAN, notes : SUBSET {"avail", "seen"}]
    BY <1>1, PendingTypes DEF AvailableNotesEvent, TypeOK
  <2>3. QED
    BY <1>1, <2>1, <2>2 DEF AvailableNotesEvent, TypeOK, viewVars
<1>2. CASE SeenNotesEvent
  <2>1. /\ pending' \in [updates : BOOLEAN, notes : SUBSET {"avail", "seen"}]
        /\ shown' \in [updates : BOOLEAN, notes : BOOLEAN, dialog : {"none", "updates", "notes"}]
    BY <1>2 DEF SeenNotesEvent, TypeOK
  <2>2. QED
    BY <1>2, <2>1 DEF SeenNotesEvent, TypeOK, diskVars
<1>3. CASE ClickNotes
  <2>1. shown' \in [updates : BOOLEAN, notes : BOOLEAN, dialog : {"none", "updates", "notes"}]
    BY <1>3 DEF ClickNotes, TypeOK
  <2>2. QED
    BY <1>3, <2>1, EventTypes DEF ClickNotes, TypeOK, diskVars
<1>4. CASE AnswerNotes
  <2>1. notes' \in NoteFiles
    BY <1>4, FileTypes DEF AnswerNotes, TypeOK, NoteFiles
  <2>2. /\ pending' \in [updates : BOOLEAN, notes : SUBSET {"avail", "seen"}]
        /\ shown' \in [updates : BOOLEAN, notes : BOOLEAN, dialog : {"none", "updates", "notes"}]
    BY <1>4, PendingTypes DEF AnswerNotes, TypeOK
  <2>3. QED
    BY <1>4, <2>1, <2>2, EventTypes DEF AnswerNotes, TypeOK
<1>5. CASE DownloadFails
  BY <1>5 DEF DownloadFails, NoDownload, Note, TypeOK, diskVars, viewVars
<1>6. CASE DownloadWrites
  <2>1. notes' \in NoteFiles
    BY <1>6 DEF DownloadWrites, TypeOK, NoteFiles
  <2>2. /\ pending' \in [updates : BOOLEAN, notes : SUBSET {"avail", "seen"}]
        /\ download' \in [state : {"idle", "loading", "writing"}, note : Note]
    BY <1>6, PendingTypes DEF DownloadWrites, NoDownload, Note
  <2>3. QED
    BY <1>6, <2>1, <2>2 DEF DownloadWrites, TypeOK, viewVars
<1>7. CASE \E n \in Note : DownloadTruncates(n)
  <2>1. notes' \in NoteFiles
    BY <1>7 DEF DownloadTruncates, TypeOK, NoteFiles
  <2>2. download' \in [state : {"idle", "loading", "writing"}, note : Note]
    BY <1>7 DEF DownloadTruncates
  <2>3. QED
    BY <1>7, <2>1, <2>2, EventTypes DEF DownloadTruncates, TypeOK, viewVars
<1>8. QED
  BY <1>1, <1>2, <1>3, <1>4, <1>5, <1>6, <1>7
LEMMA UserTypes ==
  ASSUME TypeOK, OpenMenu \/ ClickUpdates \/ \E yes \in BOOLEAN : AnswerUpdates(yes)
  PROVE  TypeOK'
<1>1. CASE OpenMenu
  <2>1. updates' \in UpdateFiles /\ notes' \in NoteFiles
    BY <1>1, FileTypes DEF OpenMenu, TypeOK, UpdateFiles, NoteFiles
  <2>2. icon' \in [state : {"invisible", "static", "blinking"}, blinker : BOOLEAN]
    BY <1>1 DEF OpenMenu, TypeOK, SetIcon
  <2>3. QED
    BY <1>1, <2>1, <2>2, EventTypes DEF OpenMenu, TypeOK
<1>2. CASE ClickUpdates
  <2>1. shown' \in [updates : BOOLEAN, notes : BOOLEAN, dialog : {"none", "updates", "notes"}]
    BY <1>2 DEF ClickUpdates, TypeOK
  <2>2. QED
    BY <1>2, <2>1, EventTypes DEF ClickUpdates, TypeOK, diskVars
<1>3. CASE \E yes \in BOOLEAN : AnswerUpdates(yes)
  <2>1. PICK yes \in BOOLEAN : AnswerUpdates(yes)
    BY <1>3
  <2>2. updates' \in UpdateFiles
    BY <2>1, FileTypes DEF AnswerUpdates, TypeOK, UpdateFiles
  <2>3. icon' \in [state : {"invisible", "static", "blinking"}, blinker : BOOLEAN]
    BY <2>1, SetIconTypes DEF AnswerUpdates, TypeOK
  <2>4. shown' \in [updates : BOOLEAN, notes : BOOLEAN, dialog : {"none", "updates", "notes"}]
    BY <2>1 DEF AnswerUpdates, TypeOK
  <2>5. pending' \in [updates : BOOLEAN, notes : SUBSET {"avail", "seen"}]
    BY <2>1, PendingTypes DEF AnswerUpdates, TypeOK
  <2>6. QED
    BY <2>1, <2>2, <2>3, <2>4, <2>5, EventTypes DEF AnswerUpdates, TypeOK
<1>4. QED
  BY <1>1, <1>2, <1>3

LEMMA AlarmTypes ==
  ASSUME TypeOK,
         \/ \E old, runs, loads \in BOOLEAN :
              \/ CheckUpdates(old, runs, loads) \/ SingleAlarm(old, runs, loads)
              \/ \E query, add, due \in BOOLEAN :
                   SetupAlarmNow(query, add, due, old, runs, loads)
         \/ \E deleted, query, add \in BOOLEAN : IntervalChanged(deleted, query, add)
  PROVE  TypeOK'
<1>0. alarm \in Alarm
  BY DEF TypeOK, Alarm
<1>1. ASSUME NEW old \in BOOLEAN, NEW runs \in BOOLEAN, NEW loads \in BOOLEAN,
             CheckUpdates(old, runs, loads)
      PROVE  TypeOK'
  BY <1>1, CheckTypes, EventTypes DEF CheckUpdates, TypeOK, viewVars
<1>2. ASSUME NEW old \in BOOLEAN, NEW runs \in BOOLEAN, NEW loads \in BOOLEAN,
             SingleAlarm(old, runs, loads)
      PROVE  TypeOK'
  <2>1. alarm' \in Alarm
    BY <1>0, <1>2 DEF SingleAlarm, Alarm
  <2>2. QED
    BY <1>2, <2>1, CheckTypes, EventTypes DEF SingleAlarm, TypeOK, viewVars, Alarm
<1>3. ASSUME NEW old \in BOOLEAN, NEW runs \in BOOLEAN, NEW loads \in BOOLEAN,
             NEW query \in BOOLEAN, NEW add \in BOOLEAN, NEW due \in BOOLEAN,
             SetupAlarmNow(query, add, due, old, runs, loads)
      PROVE  TypeOK'
  <2> DEFINE r == SetupAlarm(alarm, query, add)
  <2>1. r.ok \in BOOLEAN /\ r.alarm \in Alarm
    BY <1>0, SetupTypes
  <2>2. alarm' = [r.alarm EXCEPT !.timer = ~r.ok]
    BY <1>3 DEF SetupAlarmNow
  <2>3. alarm' \in Alarm
    <3> HIDE DEF r
    <3>1. alarm' \in {[r.alarm EXCEPT !.timer = TRUE], [r.alarm EXCEPT !.timer = FALSE]}
      BY <2>1, <2>2
    <3>2. QED
      BY <2>1, <3>1 DEF Alarm
  <2>4. Check(old, runs, loads) \/ UNCHANGED <<updates, checks, download>>
    BY <1>3 DEF SetupAlarmNow
  <2>5. QED
    BY <1>3, <2>3, <2>4, CheckTypes, EventTypes DEF SetupAlarmNow, TypeOK, viewVars, Alarm
<1>4. ASSUME NEW deleted \in BOOLEAN, NEW query \in BOOLEAN, NEW add \in BOOLEAN,
             IntervalChanged(deleted, query, add)
      PROVE  TypeOK'
  <2> DEFINE al == [alarm EXCEPT !.cookie = 0, !.queue = IF deleted THEN NoAlarms ELSE @]
  <2>1. al \in Alarm
    BY <1>0 DEF Alarm, NoAlarms
  <2>2. alarm' = SetupAlarm(al, query, add).alarm
    BY <1>4 DEF IntervalChanged
  <2> HIDE DEF al
  <2>3. alarm' \in Alarm
    BY <2>1, <2>2, SetupTypes
  <2>4. UNCHANGED <<diskVars, ham, viewVars, online, watching, pending, checks, download>>
    BY <1>4 DEF IntervalChanged
  <2>5. events' \in 0 .. MaxEvents
    BY <1>4, EventTypes DEF IntervalChanged
  <2>6. QED
    BY <2>3, <2>4, <2>5 DEF TypeOK, diskVars, viewVars, Alarm
<1>5. QED
  BY <1>1, <1>2, <1>3, <1>4

LEMMA HamTypes ==
  ASSUME TypeOK,
         \/ \E u \in SUBSET Updates : WriteAvailableUpdates(u) \/ HamShowsUpdates(u)
         \/ HamStartsOrExits \/ HamCleansTapped \/ HamLeavesView
  PROVE  TypeOK'
<1>1. ASSUME NEW u \in SUBSET Updates, WriteAvailableUpdates(u) PROVE TypeOK'
  <2>1. updates' \in UpdateFiles
    BY <1>1 DEF WriteAvailableUpdates, TypeOK, UpdateFiles
  <2>2. QED
    BY <1>1, <2>1, EventTypes, PendingTypes DEF WriteAvailableUpdates, TypeOK, viewVars
<1>2. ASSUME NEW u \in SUBSET Updates, HamShowsUpdates(u) PROVE TypeOK'
  <2>1. updates' \in UpdateFiles
    BY <1>2 DEF HamShowsUpdates, TypeOK, UpdateFiles
  <2>2. /\ ham' = "writing" /\ events' \in 0 .. MaxEvents
        /\ pending' \in [updates : BOOLEAN, notes : SUBSET {"avail", "seen"}]
    BY <1>2, EventTypes, PendingTypes DEF HamShowsUpdates
  <2>3. UNCHANGED <<notes, viewVars, online, watching, checks, download, alarm>>
    BY <1>2 DEF HamShowsUpdates
  <2>4. QED
    BY <2>1, <2>2, <2>3 DEF TypeOK, viewVars
<1>3. CASE HamStartsOrExits
  BY <1>3, EventTypes DEF HamStartsOrExits, TypeOK, diskVars, viewVars
<1>4. CASE HamCleansTapped
  <2>1. updates' \in UpdateFiles
    BY <1>4 DEF HamCleansTapped, TypeOK, UpdateFiles
  <2>2. QED
    BY <1>4, <2>1 DEF HamCleansTapped, TypeOK, viewVars
<1>5. CASE HamLeavesView
  BY <1>5, EventTypes DEF HamLeavesView, TypeOK, diskVars, viewVars
<1>6. QED
  BY <1>1, <1>2, <1>3, <1>4, <1>5

LEMMA TypesKept == TypeOK /\ [Next]_vars => TypeOK'
<1>1. SUFFICES ASSUME TypeOK, [Next]_vars PROVE TypeOK'
  OBVIOUS
<1>2. CASE UNCHANGED vars
  BY <1>1, <1>2 DEF TypeOK, vars, diskVars, viewVars
<1>3. CASE Next
  BY <1>1, <1>3, RestartTypes, DeviceTypes, NotesTypes, UserTypes, AlarmTypes, HamTypes, Zenon DEF Next
<1>4. QED
  BY <1>1, <1>2, <1>3

-----------------------------------------------------------------------------
(* The timeout of the blinking, and the alarm *)

LEMMA SetIconFits ==
  ASSUME TypeOK, BlinkerFits, NEW st, st # "blinking" \/ st = "blinking", display' = display,
         icon' = SetIcon(st, icon)
  PROVE  BlinkerFits' /\ icon'.state = st
<1>1. CASE st = icon.state
  <2>1. icon' = icon
    BY <1>1 DEF SetIcon
  <2>2. QED
    BY <1>1, <2>1, Zenon DEF BlinkerFits
<1>2. CASE st # icon.state
  <2>1. icon' = [state |-> st, blinker |-> st = "blinking" /\ display = "on"]
    BY <1>2 DEF SetIcon
  <2>2. icon'.state = st /\ icon'.blinker = (st = "blinking" /\ display = "on")
    BY <2>1
  <2>3. QED
    BY <2>2, Zenon DEF BlinkerFits
<1>3. QED
  BY <1>1, <1>2

LEMMA BlinkerKept == TypeOK /\ BlinkerFits /\ [Next]_vars => BlinkerFits'
<1>1. SUFFICES ASSUME TypeOK, BlinkerFits, [Next]_vars PROVE BlinkerFits'
  OBVIOUS
<1>2. CASE UNCHANGED <<icon, display>>
  BY <1>1, <1>2 DEF BlinkerFits
<1>3. CASE \E st : icon' = SetIcon(st, icon) /\ display' = display
  BY <1>1, <1>3, SetIconFits
<1>4. CASE Restart
  BY <1>4 DEF Restart, NewIcon, BlinkerFits
<1>5. ASSUME NEW d \in {"on", "off"}, DisplayEvent(d) PROVE BlinkerFits'
  <2>1. CASE icon.state = "blinking"
    <3>1. icon' = [icon EXCEPT !.blinker = d = "on"] /\ display' = d
      BY <1>5, <2>1 DEF DisplayEvent
    <3>2. icon'.state = "blinking" /\ icon'.blinker = (d = "on")
      BY <1>1, <2>1, <3>1 DEF TypeOK
    <3>3. QED
      BY <3>1, <3>2, Zenon DEF BlinkerFits
  <2>2. CASE icon.state # "blinking"
    BY <1>1, <1>5, <2>2 DEF DisplayEvent, BlinkerFits
  <2>3. QED
    BY <2>1, <2>2
<1>6. QED
  BY <1>1, <1>2, <1>3, <1>4, <1>5, Zenon
     DEF Next, vars, viewVars, UpdateState, ConnectionEvent, UpdatesEvent, WatchFails, CheckState,
         AvailableNotesEvent, SeenNotesEvent, OpenMenu, ClickUpdates, ClickNotes, AnswerNotes,
         AnswerUpdates, CheckUpdates, SingleAlarm, SetupAlarmNow, CheckDone,
         WriteAvailableUpdates, HamShowsUpdates, DownloadFails, DownloadWrites,
         DownloadTruncates, IntervalChanged, HamStartsOrExits, HamCleansTapped, HamLeavesView

LEMMA AlarmKept == TypeOK /\ AlarmFits /\ [Next]_vars => AlarmFits'
<1>1. SUFFICES ASSUME TypeOK, AlarmFits, [Next]_vars PROVE AlarmFits'
  OBVIOUS
<1>2. alarm \in Alarm /\ (alarm.cookie = 1 => alarm.queue.recurring > 0)
  BY <1>1 DEF TypeOK, Alarm, AlarmFits
<1>3. CASE alarm' = alarm /\ (watching'.updates => watching.updates)
  BY <1>1, <1>3 DEF AlarmFits
<1>4. CASE Restart
  <2>1. PICK q : alarm' = IF watching'.updates THEN NewAlarm(q) ELSE NoAlarm(q)
    BY <1>4 DEF Restart
  <2>2. alarm'.cookie = 0 /\ (alarm'.timer = TRUE \/ ~watching'.updates)
    BY <2>1 DEF NewAlarm, NoAlarm
  <2>3. alarm'.cookie # 1
    BY <2>2
  <2>4. QED
    BY <2>2, <2>3, Zenon DEF AlarmFits
<1>5. ASSUME NEW old \in BOOLEAN, NEW runs \in BOOLEAN, NEW loads \in BOOLEAN,
             SingleAlarm(old, runs, loads)
      PROVE  AlarmFits'
  <2>1. /\ watching' = watching /\ alarm'.cookie = alarm.cookie
        /\ alarm'.timer = alarm.timer /\ alarm'.queue.recurring = alarm.queue.recurring
    BY <1>2, <1>5 DEF SingleAlarm, Alarm
  <2>2. QED
    BY <1>1, <2>1, Zenon DEF AlarmFits
<1>6. ASSUME NEW old \in BOOLEAN, NEW runs \in BOOLEAN, NEW loads \in BOOLEAN,
             NEW query \in BOOLEAN, NEW add \in BOOLEAN, NEW due \in BOOLEAN,
             SetupAlarmNow(query, add, due, old, runs, loads)
      PROVE  AlarmFits'
  <2> DEFINE r == SetupAlarm(alarm, query, add)
  <2>2. alarm' = [r.alarm EXCEPT !.timer = ~r.ok]
    BY <1>6 DEF SetupAlarmNow
  <2>0. /\ r.alarm \in Alarm /\ r.alarm.cookie # 0
        /\ r.alarm.cookie = 1 => alarm.cookie = 1 \/ r.alarm.queue.recurring > 0
        /\ alarm.cookie = 1 => r.alarm.queue = alarm.queue
    BY <1>2, SetupTypes
  <2> HIDE DEF r
  <2>1. /\ r.alarm \in Alarm /\ r.alarm.cookie # 0
        /\ r.alarm.cookie = 1 => r.alarm.queue.recurring > 0
    BY <1>2, <2>0
  <2>3. alarm'.cookie = r.alarm.cookie /\ alarm'.queue = r.alarm.queue
    BY <2>1, <2>2 DEF Alarm
  <2>4. QED
    BY <2>1, <2>3, Zenon DEF AlarmFits
<1>7. ASSUME NEW deleted \in BOOLEAN, NEW query \in BOOLEAN, NEW add \in BOOLEAN,
             IntervalChanged(deleted, query, add)
      PROVE  AlarmFits'
  <2> DEFINE al == [alarm EXCEPT !.cookie = 0, !.queue = IF deleted THEN NoAlarms ELSE @]
  <2>1. al \in Alarm /\ al.cookie = 0
    BY <1>2 DEF Alarm, NoAlarms
  <2>2. alarm' = SetupAlarm(al, query, add).alarm
    BY <1>7 DEF IntervalChanged
  <2> HIDE DEF al
  <2>3. alarm'.cookie # 0 /\ (alarm'.cookie = 1 => al.cookie = 1 \/ alarm'.queue.recurring > 0)
    BY <2>1, <2>2, SetupTypes
  <2>4. QED
    <3>1. alarm'.cookie # 0 /\ (alarm'.cookie = 1 => alarm'.queue.recurring > 0)
      BY <2>1, <2>3
    <3>2. QED
      BY <3>1, Zenon DEF AlarmFits
<1>8. CASE UNCHANGED vars
  BY <1>3, <1>8 DEF vars
<1>9. CASE \/ \E d \in {"on", "off"} : DisplayEvent(d)
           \/ \E b \in BOOLEAN : ConnectionEvent(b)
           \/ UpdatesEvent \/ WatchFails \/ CheckState \/ AvailableNotesEvent \/ SeenNotesEvent
           \/ OpenMenu \/ ClickUpdates \/ ClickNotes \/ AnswerNotes
           \/ \E b \in BOOLEAN : AnswerUpdates(b)
  <2>1. alarm' = alarm /\ (watching'.updates => watching.updates)
    BY <1>1, <1>9 DEF TypeOK, Watches, viewVars, DisplayEvent, ConnectionEvent, UpdatesEvent, WatchFails, CheckState,
         AvailableNotesEvent, SeenNotesEvent, OpenMenu, ClickUpdates, ClickNotes, AnswerNotes,
         AnswerUpdates
  <2>2. QED
    BY <1>3, <2>1
<1>10. CASE \/ \E ok \in BOOLEAN : CheckDone(ok)
            \/ \E u \in SUBSET Updates : WriteAvailableUpdates(u) \/ HamShowsUpdates(u)
            \/ DownloadFails \/ DownloadWrites
            \/ \E n \in Note : DownloadTruncates(n)
            \/ HamStartsOrExits \/ HamCleansTapped \/ HamLeavesView
  <2>1. alarm' = alarm /\ watching' = watching
    BY <1>10 DEF viewVars, CheckDone, WriteAvailableUpdates, HamShowsUpdates, DownloadFails,
         DownloadWrites, DownloadTruncates, HamStartsOrExits, HamCleansTapped, HamLeavesView
  <2>2. QED
    BY <1>3, <2>1
<1>11. CASE \E old, runs, loads \in BOOLEAN :
              \/ CheckUpdates(old, runs, loads) \/ SingleAlarm(old, runs, loads)
              \/ \E query, add, due \in BOOLEAN : SetupAlarmNow(query, add, due, old, runs, loads)
  <2>1. PICK old \in BOOLEAN, runs \in BOOLEAN, loads \in BOOLEAN :
             \/ CheckUpdates(old, runs, loads) \/ SingleAlarm(old, runs, loads)
             \/ \E query, add, due \in BOOLEAN : SetupAlarmNow(query, add, due, old, runs, loads)
    BY <1>11, Zenon
  <2>2. CASE CheckUpdates(old, runs, loads)
    BY <1>3, <2>2 DEF CheckUpdates
  <2>3. CASE SingleAlarm(old, runs, loads)
    BY <1>5, <2>3, Zenon
  <2>4. CASE \E query, add, due \in BOOLEAN : SetupAlarmNow(query, add, due, old, runs, loads)
    BY <1>6, <2>4, Zenon
  <2>5. QED
    BY <2>1, <2>2, <2>3, <2>4, Zenon
<1>12. CASE \E deleted, query, add \in BOOLEAN : IntervalChanged(deleted, query, add)
  BY <1>7, <1>12, Zenon
<1>13. QED
  BY <1>1, <1>4, <1>8, <1>9, <1>10, <1>11, <1>12, Zenon DEF Next
-----------------------------------------------------------------------------
(* Why the icon blinks *)

LEMMA IconReason ==
  ASSUME NEW u, NEW n, NEW h, IconFor(u, n, h) = "blinking"
  PROVE  UpdatesNew(u) \/ NotesStatus(n) = "new"
<1>1. UpdatesStatus(u, h) = "new" \/ NotesStatus(n) = "new"
  BY DEF IconFor
<1>2. QED
  BY <1>1 DEF UpdatesStatus

LEMMA SetIconState ==
  ASSUME NEW st, icon' = SetIcon(st, icon) PROVE icon'.state = st
  BY DEF SetIcon

\* Whenever the icon is set anew, it is set to what is in the files.
LEMMA SetAnew ==
  ASSUME NEW h, icon' = SetIcon(IconFor(updates', notes', h), icon)
  PROVE  BlinksForReason'
<1>1. icon'.state = IconFor(updates', notes', h)
  BY SetIconState
<1>2. icon'.state = "blinking" => UpdatesNew(updates') \/ NotesStatus(notes') = "new"
  BY <1>1, IconReason, Zenon
<1>3. QED
  BY <1>2, Zenon DEF BlinksForReason, SomethingNew

\* An update that is new stays so if it is seen by less, and has no tap.
LEMMA NewStaysNew ==
  ASSUME NEW u, UpdatesNew(u), NEW v, v.avail = u.avail,
         \/ v.seen = NoFile /\ v.tapped = NoFile
         \/ v.seen = u.seen /\ v.tapped = {}
  PROVE  UpdatesNew(v)
<1>1. Unseen(u) # {} /\ Unseen(u) \subseteq Unseen(v)
  BY DEF UpdatesNew, Unseen, Read
<1>2. QED
  BY <1>1 DEF UpdatesNew

\* What was a reason to blink is one still, if none of it is taken away.
LEMMA ReasonStays ==
  ASSUME BlinksForReason, icon'.state = icon.state, watching' = watching, notes' = notes,
         UpdatesNew(updates) => UpdatesNew(updates'), pending'.updates = pending.updates,
         "avail" \in pending.notes => "avail" \in pending'.notes,
         download.state = "writing" => download'.state = "writing"
  PROVE  BlinksForReason'
  BY Zenon DEF BlinksForReason, SomethingNew, Outdated

LEMMA CheckReason ==
  ASSUME TypeOK, NEW old, NEW runs, NEW loads, Check(old, runs, loads)
  PROVE  /\ UpdatesNew(updates) => UpdatesNew(updates')
         /\ download.state = "writing" => download'.state = "writing"
<1>1. updates' \in {updates, [updates EXCEPT !.seen = NoFile, !.tapped = NoFile]}
  BY DEF Check
<1>2. updates'.avail = updates.avail
        /\ (updates' = updates \/ (updates'.seen = NoFile /\ updates'.tapped = NoFile))
  BY <1>1 DEF TypeOK, UpdateFiles
<1>3. UpdatesNew(updates) => UpdatesNew(updates')
  BY <1>2, NewStaysNew, Zenon
<1>4. download.state = "writing" => download'.state = "writing"
  BY DEF Check
<1>5. QED
  BY <1>3, <1>4

\* A notification that is written reaches the second plugin.
LEMMA DownloadReason ==
  ASSUME TypeOK, DownloadWrites PROVE BlinksForReason'
<1>1. /\ notes'.avail = download.note /\ download.note \in Note
      /\ pending' = TellNotes({"avail"}) /\ watching' = watching
  BY DEF DownloadWrites, TypeOK, NoteFiles
<1>2. notes'.avail # NoFile
  BY <1>1, NoteFacts
<1>3. watching'.notes => "avail" \in pending'.notes
  BY <1>1 DEF TellNotes
<1>4. QED
  BY <1>2, <1>3, Zenon DEF BlinksForReason

LEMMA AvailableReason ==
  ASSUME TypeOK, BlinksForReason, AvailableNotesEvent PROVE BlinksForReason'
<1>1. /\ UNCHANGED <<icon, watching, updates, download>>
      /\ notes' = IF notes.avail = NoFile THEN notes
                  ELSE [notes EXCEPT !.seen = Emptied(@), !.tapped = Emptied(@)]
  BY DEF AvailableNotesEvent, viewVars
<1>2. CASE notes.avail = NoFile
  <2>1. notes' = notes /\ pending'.updates = pending.updates
    BY <1>1, <1>2 DEF AvailableNotesEvent, TellNotes, TypeOK
  <2>2. QED
    BY <1>1, <1>2, <2>1, Zenon DEF BlinksForReason, SomethingNew
<1>3. CASE notes.avail # NoFile /\ Outdated(notes.seen)
  <2>1. pending'.updates = watching.updates
    BY <1>3 DEF AvailableNotesEvent, TellNotes, TypeOK
  <2>2. QED
    BY <1>1, <2>1, Zenon DEF BlinksForReason
<1>4. CASE notes.avail # NoFile /\ ~Outdated(notes.seen)
  <2>1. notes'.avail = notes.avail /\ notes'.seen = notes.seen
    BY <1>1, <1>4 DEF TypeOK, NoteFiles, Emptied
  <2>2. notes'.avail # NoFile /\ ~Outdated(notes.seen)'
    BY <1>4, <2>1 DEF Outdated, NotEmpty
  <2>3. QED
    BY <2>2, Zenon DEF BlinksForReason
<1>5. QED
  BY <1>2, <1>3, <1>4

\* The answer is written to a file of which the first plugin is told.
LEMMA AnswerReason ==
  ASSUME TypeOK, BlinksForReason, AnswerNotes PROVE BlinksForReason'
<1>1. UNCHANGED <<icon, watching, updates, download>>
  BY DEF AnswerNotes
<1>2. CASE notes.avail = NoFile
  <2>1. pending' = pending /\ notes'.avail = NoFile
    BY <1>2 DEF AnswerNotes, TypeOK, NoteFiles
  <2>2. NotesStatus(notes) # "new"
    BY <1>2 DEF NotesStatus
  <2>3. QED
    BY <1>1, <1>2, <2>1, <2>2, Zenon DEF BlinksForReason, SomethingNew
<1>3. CASE notes.avail # NoFile
  <2>1. pending'.updates = watching.updates
    BY <1>3 DEF AnswerNotes, TellNotes
  <2>2. QED
    BY <1>1, <2>1, Zenon DEF BlinksForReason
<1>4. QED
  BY <1>2, <1>3

LEMMA BlinksKept == TypeOK /\ BlinksForReason /\ [Next]_vars => BlinksForReason'
<1>1. SUFFICES ASSUME TypeOK, BlinksForReason, [Next]_vars PROVE BlinksForReason'
  OBVIOUS
\* The icon is set anew.
<1>2. CASE Restart
  <2>1. icon'.state = IconFor(updates', notes', "off")
    BY <1>2 DEF Restart, NewIcon, diskVars
  <2>2. icon'.state = "blinking" => UpdatesNew(updates') \/ NotesStatus(notes') = "new"
    BY <2>1, IconReason, Zenon
  <2>3. QED
    BY <2>2, Zenon DEF BlinksForReason, SomethingNew
<1>3. CASE UpdatesEvent \/ CheckState
  <2>1. updates' = updates /\ notes' = notes /\ icon' = SetIcon(IconFor(updates, notes, ham), icon)
    BY <1>3 DEF UpdatesEvent, CheckState, UpdateState, diskVars
  <2>2. QED
    BY <2>1, SetAnew
<1>4. ASSUME NEW yes \in BOOLEAN, AnswerUpdates(yes) PROVE BlinksForReason'
  <2>1. icon' = SetIcon(IconFor(updates', notes', ham), icon)
    BY <1>4 DEF AnswerUpdates
  <2>2. QED
    BY <2>1, SetAnew
<1>5. ASSUME NEW ok \in BOOLEAN, CheckDone(ok) PROVE BlinksForReason'
  <2>1. UNCHANGED <<updates, notes, watching, pending, download>>
    BY <1>5 DEF CheckDone, diskVars
  <2>2. CASE icon' = SetIcon(IconFor(updates, notes, ham), icon)
    BY <2>1, <2>2, SetAnew
  <2>3. CASE icon' = icon
    BY <1>1, <2>1, <2>3, ReasonStays
  <2>4. QED
    BY <1>5, <2>2, <2>3 DEF CheckDone, UpdateState
<1>6. CASE OpenMenu
  <2>1. icon'.state = "static"
    BY <1>6, SetIconState DEF OpenMenu
  <2>2. QED
    BY <2>1, Zenon DEF BlinksForReason
\* Nothing that is a reason is touched.
<1>7. ASSUME NEW d \in {"on", "off"}, DisplayEvent(d) PROVE BlinksForReason'
  <2>1. icon'.state = icon.state
    BY <1>1, <1>7 DEF DisplayEvent, TypeOK
  <2>2. UNCHANGED <<updates, notes, watching, pending, download>>
    BY <1>7 DEF DisplayEvent, diskVars
  <2>3. QED
    BY <1>1, <2>1, <2>2, ReasonStays
<1>8. CASE WatchFails
  <2>1. ~watching'.updates \/ ~watching'.notes
    BY <1>1, <1>8 DEF WatchFails, TypeOK, Watches
  <2>2. QED
    BY <2>1, Zenon DEF BlinksForReason
<1>9. CASE \/ \E b \in BOOLEAN : ConnectionEvent(b)
           \/ ClickUpdates \/ ClickNotes \/ HamStartsOrExits \/ HamLeavesView
           \/ \E deleted, query, add \in BOOLEAN : IntervalChanged(deleted, query, add)
           \/ UNCHANGED vars
  <2>1. UNCHANGED <<icon, updates, notes, watching, pending, download>>
    BY <1>9 DEF ConnectionEvent, ClickUpdates, ClickNotes, HamStartsOrExits, HamLeavesView,
                IntervalChanged, diskVars, viewVars, vars
  <2>2. QED
    BY <1>1, <2>1, ReasonStays
<1>10. CASE SeenNotesEvent
  <2>1. UNCHANGED <<icon, updates, notes, watching, download>>
    BY <1>10 DEF SeenNotesEvent, diskVars
  <2>2. pending' = [pending EXCEPT !.notes = @ \ {"seen"}]
    BY <1>10 DEF SeenNotesEvent
  <2>3. pending'.updates = pending.updates /\ ("avail" \in pending.notes => "avail" \in pending'.notes)
    BY <1>1, <2>2 DEF TypeOK
  <2>4. QED
    BY <1>1, <2>1, <2>3, ReasonStays
<1>11. CASE DownloadFails
  BY <1>1, <1>11, ReasonStays DEF DownloadFails, diskVars, viewVars
\* A check, and the end of the view, forget what was tapped.
<1>12. ASSUME NEW old \in BOOLEAN, NEW runs \in BOOLEAN, NEW loads \in BOOLEAN,
              \/ CheckUpdates(old, runs, loads) \/ SingleAlarm(old, runs, loads)
              \/ \E query, add, due \in BOOLEAN : SetupAlarmNow(query, add, due, old, runs, loads)
       PROVE  BlinksForReason'
  <2>1. UNCHANGED <<icon, notes, watching, pending>>
    BY <1>12 DEF CheckUpdates, SingleAlarm, SetupAlarmNow, viewVars
  <2>2. Check(old, runs, loads) \/ UNCHANGED <<updates, checks, download>>
    BY <1>12 DEF CheckUpdates, SingleAlarm, SetupAlarmNow
  <2>3. /\ UpdatesNew(updates) => UpdatesNew(updates')
        /\ download.state = "writing" => download'.state = "writing"
    BY <1>1, <2>2, CheckReason
  <2>4. QED
    BY <1>1, <2>1, <2>3, ReasonStays
<1>13. CASE HamCleansTapped
  <2>1. UNCHANGED <<icon, notes, watching, pending, download>>
    BY <1>13 DEF HamCleansTapped, viewVars
  <2>2. updates'.avail = updates.avail /\ updates'.seen = updates.seen /\ updates'.tapped = {}
    BY <1>1, <1>13 DEF HamCleansTapped, TypeOK, UpdateFiles
  <2>3. UpdatesNew(updates) => UpdatesNew(updates')
    BY <2>2, NewStaysNew, Zenon
  <2>4. QED
    BY <1>1, <2>1, <2>3, ReasonStays
\* The first plugin is to be told.
<1>14. ASSUME NEW u \in SUBSET Updates, WriteAvailableUpdates(u) \/ HamShowsUpdates(u)
       PROVE  BlinksForReason'
  <2>1. pending'.updates = watching.updates /\ watching' = watching
    BY <1>1, <1>14 DEF WriteAvailableUpdates, HamShowsUpdates, TellUpdates, TypeOK
  <2>2. QED
    BY <2>1, Zenon DEF BlinksForReason
<1>15. ASSUME NEW n \in Note, DownloadTruncates(n) PROVE BlinksForReason'
  <2>1. download'.state = "writing"
    BY <1>15 DEF DownloadTruncates
  <2>2. QED
    BY <2>1, Zenon DEF BlinksForReason
<1>16. CASE \/ \E d \in {"on", "off"} : DisplayEvent(d)
            \/ \E b \in BOOLEAN : AnswerUpdates(b)
            \/ \E ok \in BOOLEAN : CheckDone(ok)
            \/ \E u \in SUBSET Updates : WriteAvailableUpdates(u) \/ HamShowsUpdates(u)
            \/ \E n \in Note : DownloadTruncates(n)
  BY <1>4, <1>5, <1>7, <1>14, <1>15, <1>16, Zenon
<1>17. CASE \E old, runs, loads \in BOOLEAN :
              \/ CheckUpdates(old, runs, loads) \/ SingleAlarm(old, runs, loads)
              \/ \E query, add, due \in BOOLEAN : SetupAlarmNow(query, add, due, old, runs, loads)
  <2>1. PICK old \in BOOLEAN, runs \in BOOLEAN, loads \in BOOLEAN :
             \/ CheckUpdates(old, runs, loads) \/ SingleAlarm(old, runs, loads)
             \/ \E query, add, due \in BOOLEAN : SetupAlarmNow(query, add, due, old, runs, loads)
    BY <1>17, Zenon
  <2>2. QED
    BY <1>12, <2>1
<1>18. CASE AvailableNotesEvent \/ AnswerNotes \/ DownloadWrites
  BY <1>1, <1>18, AvailableReason, AnswerReason, DownloadReason, Zenon
<1>19. QED
  BY <1>1, <1>2, <1>3, <1>6, <1>8, <1>9, <1>10, <1>11, <1>13, <1>16, <1>17, <1>18, Zenon DEF Next

-----------------------------------------------------------------------------
LEMMA InitInv == Init => IndInv
<1>1. SUFFICES ASSUME Init PROVE IndInv
  OBVIOUS
<1>2. icon.state = "invisible" /\ icon.blinker = FALSE
  BY <1>1 DEF Init, NewIcon, IconFor, UpdatesStatus, NotesStatus, Unseen, Read
<1>3. BlinkerFits /\ BlinksForReason
  BY <1>2, Zenon DEF BlinkerFits, BlinksForReason
<1>4. AlarmFits
  <2>1. PICK q : \/ watching.updates /\ alarm = NewAlarm(q)
                 \/ ~watching.updates /\ alarm = NoAlarm(q)
    BY <1>1 DEF Init
  <2>2. alarm.cookie = 0 /\ (alarm.timer = TRUE \/ ~watching.updates)
    BY <2>1 DEF NewAlarm, NoAlarm
  <2>3. alarm.cookie # 1
    BY <2>2
  <2>4. QED
    BY <2>2, <2>3, Zenon DEF AlarmFits
<1>5. QED
  BY <1>1, <1>3, <1>4, InitTypes, Zenon DEF IndInv, NotifierInv

LEMMA IndInvKept == IndInv /\ [Next]_vars => IndInv'
  BY TypesKept, BlinkerKept, AlarmKept, BlinksKept, Zenon DEF IndInv, NotifierInv

LEMMA IndInvAlways == Spec => []IndInv
  BY InitInv, IndInvKept, PTL DEF Spec

\* The timeout runs exactly while the icon blinks on a display that is on
\* (set_icon_state, the display callback), and the plugin that believes in its
\* alarm has one (setup_alarm), whatever the user and the daemons do.
THEOREM NotifierInvariant == Spec => []NotifierInv
<1>1. IndInv => NotifierInv
  BY Zenon DEF IndInv
<1>2. QED
  BY <1>1, IndInvAlways, PTL

\* The icon does not blink for nothing: whoever makes the last reason vanish
\* leaves an event that makes the plugin look again (update_state).
THEOREM NoFalseAlarmAlways == Spec => []NoFalseAlarm
<1>1. IndInv => NoFalseAlarm
  <2>1. "avail" \in pending.notes => pending.notes # {}
    OBVIOUS
  <2>2. QED
    BY <2>1, Zenon DEF IndInv, BlinksForReason, NoFalseAlarm
<1>2. QED
  BY <1>1, IndInvAlways, PTL
=============================================================================
