----------------------------- MODULE InstallFlow -----------------------------
(***************************************************************************)
(* INSTALL_PACKAGES (the ip_* functions of operations.cc): the flow that   *)
(* confirms, checks, downloads and installs a list of packages, as a chain *)
(* of callbacks in the main loop of the frontend.  Between two of them     *)
(* anything may happen: the backend is lost, the user presses Stop, the    *)
(* connection changes (ensure_network, iap_callback and the entertainment  *)
(* of util.cc).                                                            *)
(*                                                                         *)
(* "at" holds the callbacks that are outstanding, by the names of the      *)
(* functions that will be called.  What a package check answers is a       *)
(* nondeterministic choice; a package is its kind.  "abort" stands for an  *)
(* assertion that has failed: the program is gone.  A callback that is     *)
(* called after its closure was deleted does something undefined, which is *)
(* left out.                                                               *)
(***************************************************************************)
EXTENDS Integers, Sequences

CONSTANTS
  Kinds,         \* kinds of packages
  Rebooting,     \* those with a flag of package_needs_reboot
  Ssu,           \* those with pkgflag_system_update
  Iaps,          \* internet access points
  HomeMode,      \* device mode the user has chosen
  MaxPackages,   \* bound: packages in one flow
  MaxUpgrades,   \* bound: checkrm scripts of one package
  MaxFlows       \* bound: flows started

Modes == {"normal", "offline"}

ASSUME FlowAssumption ==
  /\ Rebooting \subseteq Kinds /\ Ssu \subseteq Kinds
  /\ "none" \notin Iaps
  /\ HomeMode \in Modes
  /\ MaxPackages \in Nat /\ MaxUpgrades \in Nat /\ MaxFlows \in Nat

VARIABLES
  at,        \* the callbacks that are outstanding
  c,         \* the ip_clos, NoClos when it is deleted
  ent,       \* entertainment: depth, was_cancelled, was_broke, and whether it
             \* was the user who cancelled
  device,    \* device mode, and whether prestarted applications are enabled
  iap,       \* iap of iap_callback
  failures,  \* failure_count of ip_download_cur_reply
  silent,    \* whether a failed installation was concealed from the user
  flows      \* flows started

vars == <<at, c, ent, device, iap, failures, silent, flows>>
rest == <<iap, failures, silent, flows>>

NoClos == [list |-> <<>>]
Types  == {"standard", "multi", "update_system"}
Normal == [mode |-> HomeMode, prestarted |-> TRUE]
Quiet  == [depth |-> 0, cancelled |-> FALSE, broke |-> FALSE, pressed |-> FALSE]

Init ==
  /\ at = {} /\ c = NoClos
  /\ ent = Quiet
  /\ device = Normal
  /\ iap = "none"
  /\ failures = 0 /\ silent = FALSE /\ flows = 0

-----------------------------------------------------------------------------
(* Entertainment, network and device mode *)

\* reset_entertainment
ResetEnt(e) == [e EXCEPT !.cancelled = FALSE, !.broke = FALSE, !.pressed = FALSE]

\* start_entertaining_user: the flags are reset when the dialog is created.
StartEnt(e) == [(IF e.depth = 0 THEN ResetEnt(e) ELSE e) EXCEPT !.depth = @ + 1]

\* stop_entertaining_user
StopEnt(e) == [e EXCEPT !.depth = @ - 1]

\* break_entertainment
BreakEnt(e) == [e EXCEPT !.cancelled = TRUE, !.broke = TRUE]

\* ip_set_device_mode (c, DEVICE_MODE_OFFLINE): what is saved.
GoOffline(cc) == [cc EXCEPT !.saved = device.mode]

\* ip_maybe_restore_device_mode
Restored(cc) == IF cc.saved = "unknown" THEN device.mode ELSE cc.saved

Dialogs == {"ip_select_package_response", "ip_legalese_response", "ip_install_anyway",
            "ip_warn_about_reboot_response", "ip_install_one", "ip_install_cur",
            "ip_maybe_continue", "ip_download_cur_retry_confirm_response",
            "ip_abort_response", "ip_end", "ip_end_errno"}

-----------------------------------------------------------------------------
(* How a callback p goes on: each of these takes p off "at" *)

Running   == "abort" \notin at
Called(p) == Running /\ p \in at /\ c # NoClos

\* The callbacks in Q are outstanding from now on.
Goes(p, Q, cc, e) ==
  /\ at' = (at \ {p}) \cup Q /\ c' = cc /\ ent' = e
  /\ device' = device

Then(p, q, cc) == Goes(p, {q}, cc, ent)

\* pop_dialog asserts that the dialog is the topmost one, and the note that the
\* free space is not known is put on top of the progress bar.
NoteAbove(p) == "ip_end_errno" \in at \ {p}
Abort == at' = {"abort"} /\ UNCHANGED <<c, ent>>

\* ip_end
EndIn(p, cc, e) ==
  /\ device' = [mode |-> Restored(cc), prestarted |-> TRUE]
  /\ IF cc.entertaining /\ NoteAbove(p) THEN Abort
     ELSE /\ at' = at \ {p} /\ c' = NoClos
          /\ ent' = IF cc.entertaining THEN StopEnt(e) ELSE e

End(p, cc) == EndIn(p, cc, ent)

AbortDialog(cc) == IF cc.cur = Len(cc.list) THEN "ip_end" ELSE "ip_abort_response"

\* Mutant: the note about the last package leaves the progress bar up.
AbortOtherCur(p, cc) ==
  IF NoteAbove(p) THEN Abort /\ device' = device
  ELSE Goes(p, {AbortDialog(cc)}, [cc EXCEPT !.entertaining = FALSE],
            IF cc.cur = Len(cc.list) THEN ent ELSE StopEnt(ent))

\* Mutant: the question comes up besides the note.
AbortTwice(p, cc) ==
  IF NoteAbove(p) THEN Abort /\ device' = device
  ELSE Goes(p, {"ip_end", "ip_abort_response"}, [cc EXCEPT !.entertaining = FALSE],
            StopEnt(ent))

\* ip_abort_cur: a note for the last package, otherwise a question.
AbortCur(p, cc) ==
  IF NoteAbove(p) THEN Abort /\ device' = device
  ELSE Goes(p, {AbortDialog(cc)}, [cc EXCEPT !.entertaining = FALSE], StopEnt(ent))

\* ip_ensure_network
EnsureNetwork(p, cc) ==
  Goes(p, {"ip_ensure_network_reply"}, [cc EXCEPT !.entertaining = TRUE], StartEnt(ent))

GetInfo(p, cc) == Then(p, "ip_third_party_policy_check", cc)

\* ip_install_loop, while the entertainment is e
InstallLoop(p, cc, e) ==
  LET mode == Restored(cc) IN
  \/ /\ cc.cur > Len(cc.list) /\ NoteAbove(p)
     /\ Abort /\ device' = [device EXCEPT !.mode = mode]
  \/ /\ cc.cur > Len(cc.list) /\ ~NoteAbove(p)
     /\ ent' = StopEnt(e)
     /\ \/ /\ cc.ok > 0
           /\ at' = (at \ {p}) \cup {"ip_end"}
           /\ c' = [cc EXCEPT !.saved = "unknown", !.entertaining = FALSE]
           /\ device' = [device EXCEPT !.mode = mode]
        \/ /\ cc.ok = 0
           /\ at' = at \ {p} /\ c' = NoClos
           /\ device' = [mode |-> mode, prestarted |-> TRUE]
  \/ /\ cc.cur <= Len(cc.list)
     /\ at' = (at \ {p}) \cup {IF cc.red THEN "ip_check_domain_reply"
                                         ELSE "ip_third_party_policy_check"}
     /\ c' = [cc EXCEPT !.saved = "unknown"]
     /\ device' = [device EXCEPT !.mode = mode]
     /\ ent' = e

InstallNext(p, cc, e) == InstallLoop(p, [cc EXCEPT !.cur = @ + 1], e)

\* ip_check_cert_loop, at the package i or, if packages are known not to exist,
\* at a later one.
CertLoop(p, i, e) ==
  \/ \E j \in i .. Len(c.list) :
       Goes(p, {"ip_check_cert_reply"}, [c EXCEPT !.cur = j], e)
  \/ /\ Len(c.list) = 1
     /\ Goes(p, {"ip_legalese_response"}, [c EXCEPT !.cur = 1], e)
  \/ Len(c.list) # 1 /\ InstallLoop(p, [c EXCEPT !.cur = 1], e)

Kind(cc) == cc.list[cc.cur]

\* ip_install_one and ip_install_cur: a system update is not installed when the
\* battery is low.
AfterBattery(check, again) == {check} \cup (IF Kind(c) \in Ssu THEN {again} ELSE {})
InstallOne == AfterBattery("ip_install_one_with_space_checked", "ip_install_one")
InstallCur == AfterBattery("ip_install_cur_with_space_checked", "ip_install_cur")

\* ip_with_new_info
WithNewInfo(p) ==
  \/ Kind(c) \in Rebooting /\ Then(p, "ip_warn_about_reboot_response", c)
  \/ Kind(c) \notin Rebooting /\ \E q \in InstallOne : Then(p, q, c)
  \/ AbortCur(p, c)

\* ip_not_enough_memory
NotEnoughMemory(p) ==
  \/ c.red /\ Then(p, "ip_maybe_continue", c)
  \/ ~c.red /\ AbortCur(p, c)

\* The free space is not known: annoy_user_with_errno (..., ip_end, c), and then
\* ip_not_enough_memory.
SpaceUnknown(p) ==
  \/ c.red /\ Goes(p, {"ip_end_errno", "ip_maybe_continue"}, c, ent)
  \/ ~c.red /\ Abort /\ device' = device

\* ip_download_cur
DownloadCur(p, cc, e) == Goes(p, {"ip_download_cur_reply"}, cc, ResetEnt(e))

\* ip_check_upgrade_loop, with n scripts to run
UpgradeLoop(p, n) ==
  \/ n > 0 /\ Then(p, "ip_check_upgrade_cmd_done", [c EXCEPT !.upgrades = n])
  \/ n = 0 /\ DownloadCur(p, [c EXCEPT !.upgrades = 0], ent)

-----------------------------------------------------------------------------
(* The callbacks, up to the installation loop *)

\* red_pill_mode cannot be changed while a flow is running.
InstallPackages(l, type, red) ==
  /\ at = {} /\ c = NoClos /\ flows < MaxFlows
  /\ c' = [list |-> l, type |-> type, red |-> red, cur |-> 1, upgrades |-> 0,
           entertaining |-> FALSE, ok |-> 0, saved |-> "unknown"]
  /\ at' = {"ip_install_with_info"}
  /\ flows' = flows + 1
  /\ UNCHANGED <<ent, device, iap, failures, silent>>

\* Sequences of positions in the list s
Positions(s) == UNION {[1 .. n -> 1 .. Len(s)] : n \in 0 .. Len(s)}

Chosen(s, f) == [i \in DOMAIN f |-> s[f[i]]]

InOrder(s, f) == \A i, j \in DOMAIN f : i < j => f[i] < f[j]

\* Mutant: the packages are handled in the order in which they were given.
AsGiven(s, f) == InOrder(s, f)

\* A package that reboots comes last, and there is only one; the others keep
\* their order.
Arranged(s, f) ==
  \A i, j \in DOMAIN f : i < j =>
    /\ s[f[i]] \notin Rebooting
    /\ s[f[j]] \notin Rebooting => f[i] < f[j]

\* Packages that are up to date are dropped; a standard installation is that of
\* the first of the others.
InstallWithInfo ==
  LET p == "ip_install_with_info" IN
  /\ Called(p)
  /\ \E f \in Positions(c.list) :
       LET cc == [c EXCEPT !.list = Chosen(c.list, f)] IN
       /\ Arranged(c.list, f)
       /\ c.type = "standard" => Len(f) <= 1
       /\ \/ f = <<>> /\ Then(p, "ip_end", cc)
          \/ f # <<>> /\ c.type = "multi" /\ Then(p, "ip_select_package_response", cc)
          \/ f # <<>> /\ c.type # "multi" /\ EnsureNetwork(p, cc)
  /\ UNCHANGED rest

\* select_package_list, and the confirmation of "update all".
SelectPackageResponse ==
  LET p == "ip_select_package_response" IN
  /\ Called(p)
  /\ \/ End(p, c)
     \/ \E f \in Positions(c.list) :
          /\ f # <<>> /\ InOrder(c.list, f)
          /\ EnsureNetwork(p, [c EXCEPT !.list = Chosen(c.list, f)])
  /\ UNCHANGED rest

CheckCertReply ==
  LET p == "ip_check_cert_reply" IN
  /\ Called(p)
  /\ \/ End(p, c)
     \/ Then(p, "ip_legalese_response", c)
     \/ CertLoop(p, c.cur + 1, ent)
  /\ UNCHANGED rest

LegaleseResponse ==
  LET p == "ip_legalese_response" IN
  /\ Called(p)
  /\ End(p, c) \/ InstallLoop(p, [c EXCEPT !.cur = 1], ent)
  /\ UNCHANGED rest

CheckDomainReply ==
  LET p == "ip_check_domain_reply" IN
  /\ Called(p)
  /\ End(p, c) \/ Then(p, "ip_install_anyway", c) \/ GetInfo(p, c)
  /\ UNCHANGED rest

InstallAnyway ==
  LET p == "ip_install_anyway" IN
  /\ Called(p)
  /\ GetInfo(p, c) \/ InstallNext(p, c, ent)
  /\ UNCHANGED rest

\* ip_third_party_policy_check: a policy not known yet is asked for.
PolicyCheck ==
  LET p == "ip_third_party_policy_check" IN
  /\ Called(p)
  /\ \/ WithNewInfo(p)
     \/ AbortCur(p, c)
     \/ Then(p, "ip_third_party_policy_check_reply", c)
  /\ UNCHANGED rest

PolicyCheckReply ==
  LET p == "ip_third_party_policy_check_reply" IN
  /\ Called(p)
  /\ WithNewInfo(p) \/ AbortCur(p, c)
  /\ UNCHANGED rest

\* The user agrees to a reboot.  "Create backup" leaves the dialog up.
WarnAboutRebootResponse ==
  LET p == "ip_warn_about_reboot_response" IN
  /\ Called(p)
  /\ \/ End(p, c)
     \/ \E q \in InstallOne :
          /\ at' = (at \ {p}) \cup {q}
          /\ device' = [device EXCEPT !.prestarted = FALSE]
          /\ UNCHANGED <<c, ent>>
  /\ UNCHANGED rest

\* ip_not_enough_battery_confirm_response
BatteryResponse ==
  /\ \E p \in {"ip_install_one", "ip_install_cur"} :
       /\ Called(p)
       /\ \/ End(p, c)
          \/ \E q \in IF p = "ip_install_one" THEN InstallOne ELSE InstallCur :
               Then(p, q, c)
  /\ UNCHANGED rest

InstallOneWithSpaceChecked ==
  LET p == "ip_install_one_with_space_checked" IN
  /\ Called(p)
  /\ End(p, c) \/ Then(p, "ip_check_upgrade_reply", c)
     \/ NotEnoughMemory(p) \/ SpaceUnknown(p)
  /\ UNCHANGED rest

MaybeContinue ==
  LET p == "ip_maybe_continue" IN
  /\ Called(p)
  /\ Then(p, "ip_check_upgrade_reply", c) \/ InstallNext(p, c, ent)
  /\ UNCHANGED rest

CheckUpgradeReply ==
  LET p == "ip_check_upgrade_reply" IN
  /\ Called(p)
  /\ \/ End(p, c)
     \/ Then(p, "ip_end", c)
     \/ \E n \in 0 .. MaxUpgrades : UpgradeLoop(p, n)
  /\ UNCHANGED rest

\* A checkrm script has ended; 111 asks not to go on.
CheckUpgradeCmdDone ==
  LET p == "ip_check_upgrade_cmd_done" IN
  /\ Called(p)
  /\ \/ AbortCur(p, [c EXCEPT !.upgrades = 0])
     \/ UpgradeLoop(p, c.upgrades - 1)
  /\ UNCHANGED rest

-----------------------------------------------------------------------------
(* Download and installation *)

\* Failures beyond the third are not told apart.
Count(n) == IF n < 3 THEN n + 1 ELSE n

\* Mutant: a download that was broken off by the network is not counted.
RetryUncounted(p) ==
  IF ent.cancelled /\ ~ent.broke
  THEN End(p, c) /\ failures' = failures
  ELSE /\ failures' = IF ent.broke THEN failures ELSE Count(failures)
       /\ Then(p, IF failures' < 3 THEN "ip_download_cur_retry"
                  ELSE "ip_download_cur_retry_confirm_response", c)

\* A failed download: the user has pressed Stop, or it is tried again, by itself
\* at first.
DownloadFailed(p) ==
  IF ent.cancelled /\ ~ent.broke
  THEN End(p, c) /\ failures' = failures
  ELSE /\ failures' = Count(failures)
       /\ Then(p, IF failures' < 3 THEN "ip_download_cur_retry"
                  ELSE "ip_download_cur_retry_confirm_response", c)

DownloadCurReply ==
  LET p == "ip_download_cur_reply" IN
  /\ Called(p)
  /\ \/ End(p, c) /\ failures' = failures
     \/ (\E q \in InstallCur : Then(p, q, c)) /\ failures' = 0
     \/ NotEnoughMemory(p) /\ failures' = failures
     \/ DownloadFailed(p)
     \/ Then(p, "ip_download_cur_retry_confirm_response", c) /\ failures' = failures
  /\ UNCHANGED <<iap, silent, flows>>

RetryConfirmResponse ==
  LET p == "ip_download_cur_retry_confirm_response" IN
  /\ Called(p)
  /\ \/ Then(p, "ip_download_cur_retry", c)
     \/ c.cur < Len(c.list) /\ AbortCur(p, c)
     \/ c.cur = Len(c.list) /\ End(p, c)
  /\ UNCHANGED rest

\* A system update is installed offline, after three seconds.
InstallCurWithSpaceChecked ==
  LET p == "ip_install_cur_with_space_checked" IN
  /\ Called(p)
  /\ \/ End(p, c)
     \/ /\ Kind(c) \in Ssu
        /\ at' = (at \ {p}) \cup {"ip_kill_all_and_install_delayed"}
        /\ c' = GoOffline(c)
        /\ device' = [device EXCEPT !.mode = "offline"]
        /\ ent' = ent
     \/ Kind(c) \notin Ssu /\ Then(p, "ip_install_cur_reply", c)
     \/ NotEnoughMemory(p) \/ SpaceUnknown(p)
  /\ UNCHANGED rest

KillAllAndInstallDelayed ==
  LET p == "ip_kill_all_and_install_delayed" IN
  /\ Called(p)
  /\ Then(p, "ip_install_cur_reply", c)
  /\ UNCHANGED rest

InstallCurReply ==
  LET p == "ip_install_cur_reply" IN
  /\ Called(p)
  /\ \/ End(p, c) /\ silent' = silent
     \/ /\ Kind(c) \in Rebooting
        /\ Then(p, "ip_reboot_delayed", c) /\ silent' = silent
     \/ /\ Kind(c) \notin Rebooting
        /\ InstallNext(p, [c EXCEPT !.ok = @ + 1], ent) /\ silent' = silent
     \/ /\ Kind(c) \notin Rebooting
        /\ IF ent.cancelled
           THEN End(p, c) /\ silent' = (silent \/ ~ent.pressed)
           ELSE AbortCur(p, c) /\ silent' = silent
  /\ UNCHANGED <<iap, failures, flows>>

\* The user goes on with the next package.
AbortResponse ==
  LET p == "ip_abort_response" IN
  /\ Called(p)
  /\ \/ End(p, c)
     \/ InstallNext(p, [c EXCEPT !.entertaining = TRUE], StartEnt(ent))
  /\ UNCHANGED rest

\* A note is dismissed whose continuation is ip_end; the one about the free space
\* when nothing is on top of it.
NoteResponse ==
  /\ \/ Called("ip_end") /\ End("ip_end", c)
     \/ /\ Called("ip_end_errno") /\ \A p \in at : p \notin Dialogs \/ p = "ip_end_errno"
        /\ End("ip_end_errno", c)
  /\ UNCHANGED rest

\* The reboot: the lists are refreshed, unused packages removed, and after two
\* seconds the backend is asked to reboot.
RebootDelayed ==
  LET p == "ip_reboot_delayed" IN
  /\ Called(p)
  /\ at' = (at \ {p}) \cup {"ip_autoremove_reply"}
  /\ c' = [c EXCEPT !.saved = "unknown"]
  /\ device' = [device EXCEPT !.mode = Restored(c)]
  /\ ent' = ent
  /\ UNCHANGED rest

RebootSteps ==
  /\ \/ Called("ip_autoremove_reply") /\ Then("ip_autoremove_reply", "ip_reboot_now", c)
     \/ Called("ip_reboot_now") /\ Then("ip_reboot_now", "ip_reboot_reply", c)
     \/ Called("ip_reboot_reply") /\ End("ip_reboot_reply", c)
  /\ UNCHANGED rest

-----------------------------------------------------------------------------
(* The network and the user *)

\* ensure_network_cont, while the entertainment is e
NetworkCont(success, e) ==
  \/ /\ Called("ip_ensure_network_reply")
     /\ IF success THEN CertLoop("ip_ensure_network_reply", 1, e)
                   ELSE EndIn("ip_ensure_network_reply", c, e)
  \/ /\ Called("ip_download_cur_retry")
     /\ IF success THEN DownloadCur("ip_download_cur_retry", c, e)
                   ELSE EndIn("ip_download_cur_retry", c, e)
  \/ /\ ~Called("ip_ensure_network_reply") /\ ~Called("ip_download_cur_retry")
     /\ ent' = e
     /\ UNCHANGED <<at, c, device>>

\* iap_callback: a change of the access point breaks off a download.
IapConnected(i) ==
  /\ Running /\ iap' = i
  /\ NetworkCont(TRUE, IF iap \in {"none", i} THEN ent ELSE BreakEnt(ent))
  /\ UNCHANGED <<failures, silent, flows>>

IapDisconnected(i) ==
  /\ Running /\ iap' = IF iap = i THEN "none" ELSE iap
  /\ NetworkCont(FALSE, BreakEnt(ent))
  /\ UNCHANGED <<failures, silent, flows>>

Ensuring == Called("ip_ensure_network_reply") \/ Called("ip_download_cur_retry")

\* ensure_network itself answers: a connection is assumed, or cannot be asked for.
EnsureNetworkAnswers ==
  /\ Ensuring
  /\ \E success \in BOOLEAN : NetworkCont(success, ent)
  /\ UNCHANGED rest

\* cancel_entertainment: Stop or Escape in the entertainment dialog.
CancelEntertainment ==
  /\ Running /\ ent.depth > 0 /\ at \cap Dialogs = {}
  /\ ent' = [ent EXCEPT !.cancelled = TRUE, !.pressed = TRUE]
  /\ UNCHANGED <<at, c, device>> /\ UNCHANGED rest

\* What the backend, the scripts, the timers and the network do
Answers ==
  \/ InstallWithInfo \/ CheckCertReply \/ CheckDomainReply
  \/ PolicyCheck \/ PolicyCheckReply
  \/ InstallOneWithSpaceChecked \/ CheckUpgradeReply \/ CheckUpgradeCmdDone
  \/ DownloadCurReply
  \/ InstallCurWithSpaceChecked \/ KillAllAndInstallDelayed \/ InstallCurReply
  \/ RebootDelayed \/ RebootSteps
  \/ EnsureNetworkAnswers
  \/ Ensuring /\ \E i \in Iaps : IapConnected(i) \/ IapDisconnected(i)

Responses ==
  \/ SelectPackageResponse \/ LegaleseResponse \/ InstallAnyway
  \/ WarnAboutRebootResponse \/ BatteryResponse \/ MaybeContinue
  \/ RetryConfirmResponse \/ AbortResponse \/ NoteResponse

Requests == UNION {[1 .. n -> Kinds] : n \in 1 .. MaxPackages}

Next ==
  \/ \E l \in Requests, type \in Types, red \in BOOLEAN : InstallPackages(l, type, red)
  \/ Answers
  \/ Responses
  \/ CancelEntertainment
  \/ \E i \in Iaps : IapConnected(i) \/ IapDisconnected(i)

Spec == Init /\ [][Next]_vars

\* The backend and the network answer, scripts and timers end.  Nothing is
\* assumed of the user.
FairSpec == Spec /\ WF_vars(Answers)

-----------------------------------------------------------------------------
(* Properties *)

Waiting == {"ip_install_with_info", "ip_ensure_network_reply", "ip_check_cert_reply",
            "ip_check_domain_reply", "ip_third_party_policy_check",
            "ip_third_party_policy_check_reply", "ip_install_one_with_space_checked",
            "ip_check_upgrade_reply", "ip_check_upgrade_cmd_done",
            "ip_download_cur_reply", "ip_download_cur_retry",
            "ip_install_cur_with_space_checked", "ip_kill_all_and_install_delayed",
            "ip_install_cur_reply", "ip_reboot_delayed", "ip_autoremove_reply",
            "ip_reboot_now", "ip_reboot_reply"}

Closures == [list : Seq(Kinds), type : Types, red : BOOLEAN, cur : Nat, upgrades : Nat,
             entertaining : BOOLEAN, ok : Nat, saved : Modes \cup {"unknown"}]

TypeOK ==
  /\ at \subseteq Waiting \cup Dialogs \cup {"abort"}
  /\ c \in Closures \cup {NoClos}
  /\ ent \in [depth : 0 .. 1, cancelled : BOOLEAN, broke : BOOLEAN, pressed : BOOLEAN]
  /\ device \in [mode : Modes, prestarted : BOOLEAN]
  /\ iap \in Iaps \cup {"none"}
  /\ failures \in 0 .. 3 /\ silent \in BOOLEAN /\ flows \in 0 .. MaxFlows

\* Callbacks of a flow whose progress bar is not up, and those that the device
\* may be kept offline for
Unentertained == {"ip_install_with_info", "ip_select_package_response", "ip_abort_response"}
KeptOffline   == {"ip_kill_all_and_install_delayed", "ip_install_cur_reply",
                  "ip_reboot_delayed", "ip_abort_response", "ip_end"}

\* Callbacks that are not about the current package
AboutAll == {"ip_install_with_info", "ip_select_package_response",
             "ip_ensure_network_reply", "ip_legalese_response", "ip_end",
             "ip_abort_response", "ip_autoremove_reply", "ip_reboot_now",
             "ip_reboot_reply"}

Reboots == {"ip_warn_about_reboot_response", "ip_reboot_delayed"}

OnlyLastReboots(s) == \A i \in 1 .. Len(s) : s[i] \in Rebooting => i = Len(s)

\* What the closure cc, the entertainment e and the device d are like while the
\* callback q is outstanding.
Fits(q, cc, e, d) ==
  /\ cc \in Closures
  /\ e.depth = IF cc.entertaining THEN 1 ELSE 0
  /\ q \in Unentertained => ~cc.entertaining
  /\ q \notin Unentertained \cup {"ip_end"} => cc.entertaining
  /\ IF cc.saved = "unknown" THEN d.mode = HomeMode ELSE cc.saved = HomeMode
  /\ q \notin KeptOffline => cc.saved = "unknown"
  /\ q \notin AboutAll => cc.cur \in 1 .. Len(cc.list)
  /\ q # "ip_install_with_info" => OnlyLastReboots(cc.list)
  /\ q \in Reboots => Kind(cc) \in Rebooting

\* The inductive invariant: a flow is at one callback, which fits its closure,
\* and leaves nothing behind; unless an assertion has failed.
FlowInv ==
  /\ TypeOK
  /\ \/ c = NoClos /\ ent.depth = 0 /\ device = Normal /\ Running
     \/ at = {"abort"} /\ c # NoClos
     \/ \E q \in at : /\ q # "ip_end_errno" /\ at \subseteq {q, "ip_end_errno"}
                     /\ Fits(q, c, ent, device)

\* As long as a flow is running, exactly one of its callbacks is outstanding,
\* besides the note that the free space is not known: the flow is never lost and
\* never goes two ways.
OneContinuation ==
  c # NoClos => \E p \in at : p # "ip_end_errno" /\ at \subseteq {p, "ip_end_errno"}

\* When a flow has ended, on whatever path, the progress bar is down, the device
\* is back in the mode the user has chosen, and applications are prestarted.
EndsClean == c = NoClos => ent.depth = 0 /\ device = Normal

\* A package that reboots the device is the last one: no other is left behind.
RebootsLast ==
  at \cap {"ip_warn_about_reboot_response", "ip_reboot_delayed"} # {}
    => c = NoClos \/ c.cur = Len(c.list)

\* A flow does not run forever by itself: it ends, it asks the user, or the
\* program is gone.
EndsOrAsks == c # NoClos ~> (c = NoClos \/ at \cap Dialogs # {} \/ ~Running)

\* util.h: the progress bar must be "properly nested with respect to" the dialogs,
\* and no assertion about their stack fails, on whatever path of the flow.
AssertionsHold == Running

\* operations.h: "These functions take care of all the error reporting."
ErrorsReported == ~silent
=============================================================================
