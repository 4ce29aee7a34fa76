-------------------------- MODULE OperationJournal --------------------------
(***************************************************************************)
(* The record of the current operation and the rescue at boot: the backend *)
(* notes which package it is about to install (cmd_install_package of      *)
(* apt-worker.cc); if the device goes down before the operation is over,   *)
(* ham-rescue.sh finds the record at the next boot and "apt-worker rescue" *)
(* (cmdline_rescue, do_rescue) tries again.  The frontend reboots after a  *)
(* package that asks for it (ip_reboot, operations.cc), and ham-after-boot *)
(* tells the user about the result.                                        *)
(*                                                                         *)
(* The device may lose power between any two steps.                        *)
(***************************************************************************)
EXTENDS Integers

CONSTANTS
  Packages,      \* the packages that are installed
  Rebooting,     \* those that ask for a reboot (package_needs_reboot)
  Ssu,           \* of these, the system updates (is_ssu)
  NoPackage,
  MaxLosses,     \* bound: losses of power
  MaxInstalls    \* bound: installations the user starts

ASSUME JournalAssumption ==
  /\ Ssu \subseteq Rebooting /\ Rebooting \subseteq Packages
  /\ NoPackage \notin Packages
  /\ MaxLosses \in Nat /\ MaxInstalls \in Nat

VARIABLES
  record,       \* CURRENT_OPERATION_FILE: the package it names
  state,        \* per package: "old", "partial" or "new" on disk
  stage,        \* what the device is doing
  pkg,          \* the package being installed or rescued
  outcome,      \* result code of the operation
  bootFlag,     \* UFILE_BOOT: the package the frontend rebooted for
  rescueFile,   \* RESCUE_RESULT_FILE: "none", "failure" or "success"
  banner,       \* packages "System update installed" was shown for
  interrupted,  \* the package whose operation was cut off and not retried
  losses, installs

diskVars == <<record, state, bootFlag, rescueFile>>
journalVars == <<diskVars, stage, pkg, outcome, banner, interrupted, losses, installs>>

Results == {"none", "success", "not_found", "failure"}

JournalInit ==
  /\ record = NoPackage
  /\ state = [p \in Packages |-> "old"]
  /\ stage = "up"
  /\ pkg = NoPackage
  /\ outcome = "none"
  /\ bootFlag = NoPackage
  /\ rescueFile = "none"
  /\ banner = {}
  /\ interrupted = NoPackage
  /\ losses = 0 /\ installs = 0

-----------------------------------------------------------------------------
(* cmd_install_package and the reboot that may follow *)

\* Mutant: the record is written when the operation is over.
SaveRecordLate(p) ==
  /\ stage = "up" /\ installs < MaxInstalls /\ state[p] # "new"
  /\ installs' = installs + 1
  /\ pkg' = p /\ stage' = "operation"
  /\ outcome' = "none"
  /\ UNCHANGED <<diskVars, banner, interrupted, losses>>

\* ensure_cache and mark_named_package_for_install have succeeded.
SaveOperationRecord(p) ==
  /\ stage = "up" /\ installs < MaxInstalls /\ state[p] # "new"
  /\ installs' = installs + 1
  /\ record' = p /\ pkg' = p /\ stage' = "operation"
  /\ outcome' = "none"
  /\ UNCHANGED <<state, bootFlag, rescueFile, banner, interrupted, losses>>

\* dpkg begins to unpack.
Touch(here) ==
  /\ stage = here /\ state[pkg] = "old"
  /\ state' = [state EXCEPT ![pkg] = "partial"]
  /\ UNCHANGED <<record, bootFlag, rescueFile, stage, pkg, outcome, banner,
                 interrupted, losses, installs>>

\* operation () returns: a download that is not there, success, or a failure,
\* before or after dpkg has begun.  A package that is there is left alone.
Return(here, r, there) ==
  /\ stage = here
  /\ CASE r = "success"   -> state' = [state EXCEPT ![pkg] = "new"]
       [] OTHER           -> state[pkg] # "new" /\ state' = state
  /\ outcome' = r /\ stage' = there
  /\ UNCHANGED <<record, bootFlag, rescueFile, pkg, banner, interrupted, losses,
                 installs>>

OperationTouches    == Touch("operation")
OperationReturns(r) == Return("operation", r, "journal")

\* "Delete journal on succesful operations only"; the journal of a package
\* that is no system update is deleted in any case.
EraseOperationRecord ==
  /\ stage = "journal"
  /\ record' = IF outcome = "success" \/ pkg \notin Ssu THEN NoPackage ELSE record
  /\ stage' = IF pkg \in Rebooting THEN "reboot" ELSE "up"
  /\ UNCHANGED <<state, bootFlag, rescueFile, pkg, outcome, banner, interrupted,
                 losses, installs>>

\* ip_reboot_now, whatever the result was, with the lists refreshed and unused
\* packages removed before.
RebootNow ==
  /\ stage = "reboot"
  /\ bootFlag' = pkg
  /\ stage' = "rebooting"
  /\ UNCHANGED <<record, state, rescueFile, pkg, outcome, banner, interrupted, losses,
                 installs>>

\* The backend is lost before it is asked to reboot, or the command fails: the
\* flow ends (ip_reboot_reply) and the device stays up.
NoReboot ==
  /\ stage \in {"reboot", "rebooting"}
  /\ stage' = "up"
  /\ UNCHANGED <<diskVars, pkg, outcome, banner, interrupted, losses, installs>>

\* The device goes down as it was asked to (cmd_reboot).
GoDown ==
  /\ stage \in {"rebooting", "rescue_rebooting", "rescue_down"}
  /\ stage' = "off"
  /\ UNCHANGED <<diskVars, pkg, outcome, banner, interrupted, losses, installs>>

-----------------------------------------------------------------------------
(* The next boot: ham-rescue.sh, cmdline_rescue and do_rescue *)

\* The record is read (read_operation_record).
Boot ==
  /\ stage = "off"
  /\ IF record = NoPackage
     THEN stage' = "desktop" /\ pkg' = pkg
     ELSE stage' = "rescue" /\ pkg' = record
  /\ outcome' = "none"
  /\ UNCHANGED <<diskVars, banner, interrupted, losses, installs>>

\* There is no cache, or the package is not in it: the record is kept.
RescueUnable ==
  /\ stage = "rescue"
  /\ outcome' = "failure" /\ stage' = "rescue_result"
  /\ interrupted' = NoPackage
  /\ UNCHANGED <<diskVars, pkg, banner, losses, installs>>

RescueMarked ==
  /\ stage = "rescue"
  /\ stage' = "rescue_dir"
  /\ UNCHANGED <<diskVars, pkg, outcome, banner, interrupted, losses, installs>>

\* rescue_operation_with_dir, rescue_with_all_devs, rescue_with_all_devnodes:
\* the next one is tried unless the last one has succeeded, and its result
\* replaces that of the last one.
Sources == {"rescue_dir", "rescue_devs", "rescue_devnodes"}

RescueTouches == \E s \in Sources : Touch(s)

AfterSource(s, r) ==
  IF r = "success" THEN "rescue_erase"
  ELSE CASE s = "rescue_dir"      -> "rescue_devs"
         [] s = "rescue_devs"     -> "rescue_devnodes"
         [] s = "rescue_devnodes" -> "rescue_erase"

RescueReturns(r) == \E s \in Sources : Return(s, r, AfterSource(s, r))

\* Mutant: the record survives the rescue.
RescueKeepRecord ==
  /\ stage = "rescue_erase"
  /\ interrupted' = NoPackage
  /\ stage' = IF outcome = "not_found" THEN "rescue_result" ELSE "rescue_reboot"
  /\ UNCHANGED <<diskVars, pkg, outcome, banner, losses, installs>>

\* "If we get this far, we have done everything we can."
RescueErase ==
  /\ stage = "rescue_erase"
  /\ record' = NoPackage
  /\ interrupted' = NoPackage
  /\ stage' = IF outcome = "not_found" THEN "rescue_result" ELSE "rescue_reboot"
  /\ UNCHANGED <<state, bootFlag, rescueFile, pkg, outcome, banner, losses, installs>>

\* After a failure, dpkg --configure -a --force-all; then cmd_reboot, which
\* returns before the device is down.
RescueReboot ==
  /\ stage = "rescue_reboot"
  /\ stage' = "rescue_rebooting"
  /\ UNCHANGED <<diskVars, pkg, outcome, banner, interrupted, losses, installs>>

\* The result file is written last, with or without a reboot on its way.
WriteRescueResult ==
  /\ stage \in {"rescue_result", "rescue_rebooting"}
  /\ rescueFile' = IF outcome = "success" THEN "success" ELSE "failure"
  /\ stage' = IF stage = "rescue_result" THEN "desktop" ELSE "rescue_down"
  /\ UNCHANGED <<record, state, bootFlag, pkg, outcome, banner, interrupted, losses,
                 installs>>

\* ham-after-boot, when the user interface is up.
AfterBoot ==
  /\ stage = "desktop"
  /\ stage' = "up"
  /\ banner' = IF bootFlag # NoPackage /\ rescueFile # "failure"
               THEN banner \cup {bootFlag} ELSE banner
  /\ bootFlag' = NoPackage
  /\ UNCHANGED <<record, state, rescueFile, pkg, outcome, interrupted, losses, installs>>

PowerLoss ==
  /\ stage # "off" /\ losses < MaxLosses
  /\ losses' = losses + 1
  /\ stage' = "off"
  /\ interrupted' = IF stage \in {"operation", "rescue", "rescue_erase"} \cup Sources
                    THEN pkg ELSE interrupted
  /\ UNCHANGED <<diskVars, pkg, outcome, banner, installs>>

Backend ==
  \/ OperationTouches \/ EraseOperationRecord
  \/ RebootNow \/ GoDown \/ Boot
  \/ RescueUnable \/ RescueMarked \/ RescueTouches
  \/ RescueErase \/ RescueReboot \/ WriteRescueResult
  \/ AfterBoot
  \/ \E r \in Results \ {"none"} : OperationReturns(r) \/ RescueReturns(r)

JournalNext ==
  \/ Backend \/ NoReboot \/ PowerLoss
  \/ \E p \in Packages : SaveOperationRecord(p)

JournalSpec == JournalInit /\ [][JournalNext]_journalVars

\* The device goes on by itself; nothing obliges the user to install, and the
\* power to fail.
JournalFairSpec == JournalSpec /\ WF_journalVars(Backend)

-----------------------------------------------------------------------------
(* Properties *)

DeviceStages == {"up", "operation", "journal", "reboot", "rebooting", "off", "desktop",
           "rescue", "rescue_erase", "rescue_reboot", "rescue_rebooting",
           "rescue_result", "rescue_down"} \cup Sources

\* The stages in which an operation on pkg is under way.
Operating == {"operation", "journal", "rescue", "rescue_erase"} \cup Sources

\* Types; an operation is under way on some package.
JournalTypeOK ==
  /\ record \in Packages \cup {NoPackage}
  /\ state \in [Packages -> {"old", "partial", "new"}]
  /\ stage \in DeviceStages
  /\ pkg \in Packages \cup {NoPackage}
  /\ stage \in Operating \cup {"reboot"} => pkg # NoPackage
  /\ outcome \in Results
  /\ bootFlag \in Packages \cup {NoPackage}
  /\ rescueFile \in {"none", "failure", "success"}
  /\ banner \subseteq Packages
  /\ interrupted \in Packages \cup {NoPackage}
  /\ losses \in 0 .. MaxLosses /\ installs \in 0 .. MaxInstalls

\* While dpkg works on a package the record names it, so that the next boot
\* finds it (save_operation_record before operation ()).
OperationIsRecorded == stage \in Operating => record = pkg

\* "If the rescue operation is interrupted before getting here, we try again on
\* the next boot": an operation that was cut off stays recorded until a rescue
\* has come to its end.
InterruptedIsRecorded == interrupted # NoPackage => record = interrupted

\* The user never gets a device on which an operation was cut off and no rescue
\* has tried since.
UpMeansTried == stage \in {"desktop", "up", "operation", "journal"} => interrupted = NoPackage

\* The inductive invariant: the two above and when they may be set.
JournalInv ==
  /\ JournalTypeOK
  /\ OperationIsRecorded
  /\ InterruptedIsRecorded
  /\ stage \notin {"off", "rescue"} \cup Sources \cup {"rescue_erase"}
       => interrupted = NoPackage
  /\ stage \in {"rescue", "rescue_erase"} \cup Sources
       => interrupted \in {NoPackage, pkg}

\* "Show success banner only on success" (ham-after-boot).
BannerOnlyOnSuccess ==
  [][\A p \in banner' \ banner : state[p] = "new"]_journalVars

\* However a rescue ends, and whatever is interrupted, the device comes up again
\* in the end: a record that is tried at every boot must not reboot for ever
\* ("This might lead to a reboot loop").
ComesUpAgain == stage = "off" ~> stage = "up"
=============================================================================
