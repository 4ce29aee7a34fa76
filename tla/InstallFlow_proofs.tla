------------------------- MODULE InstallFlow_proofs -------------------------
(***************************************************************************)
(* Proofs about INSTALL_PACKAGES.  Every callback of a flow goes on in one *)
(* of four ways: to its end (ip_end), to the next callback, to the dialog  *)
(* of ip_abort_cur, or round the installation loop.  There is a lemma for  *)
(* each, and every action is shown to be an instance of them.              *)
(***************************************************************************)
EXTENDS InstallFlow, TLAPS

Ents    == [depth : 0 .. 1, cancelled : BOOLEAN, broke : BOOLEAN, pressed : BOOLEAN]
Devices == [mode : Modes, prestarted : BOOLEAN]

RestOK ==
  /\ iap \in Iaps \cup {"none"}
  /\ failures \in 0 .. 3 /\ silent \in BOOLEAN /\ flows \in 0 .. MaxFlows

Errno == "ip_end_errno"

\* The callback that is called is the one the flow is at.
LEMMA AtCallback ==
  ASSUME FlowInv, NEW p, Called(p), p # Errno
  PROVE  at \subseteq {p, Errno} /\ Fits(p, c, ent, device)
BY DEF FlowInv, Called, Running, Errno

LEMMA TypesOfState ==
  ASSUME FlowInv
  PROVE  /\ ent \in Ents /\ device \in Devices /\ RestOK
         /\ at \subseteq Waiting \cup Dialogs \cup {"abort"}
BY DEF FlowInv, TypeOK, Ents, Devices, RestOK

LEMMA NoClosIsNone == NoClos \notin Closures
BY DEF NoClos, Closures

\* An assertion that fails leaves the program as it is.
LEMMA AbortedStep ==
  ASSUME FlowInv, NEW p, Called(p), Abort, device' \in Devices, RestOK'
  PROVE  FlowInv'
<1>1. c' \in Closures /\ c' # NoClos /\ at' = {"abort"} /\ ent' \in Ents
  BY TypesOfState DEF Called, Abort, FlowInv, TypeOK
<1> QED
  BY <1>1 DEF FlowInv, TypeOK, RestOK, Ents, Devices

\* A flow that ends, in whichever callback, leaves nothing behind.
LEMMA EndStep ==
  ASSUME FlowInv, NEW p, Called(p), NEW e \in Ents, e.depth = ent.depth,
         EndIn(p, c, e), RestOK'
  PROVE  FlowInv'
<1>1. PICK q \in at : Fits(q, c, ent, device)
  BY DEF FlowInv, Called, Running
<1>2. device' = Normal /\ device' \in Devices
  BY <1>1, NoClosIsNone, FlowAssumption
  DEF EndIn, Restored, Fits, Normal, Modes, Closures, Devices
<1>3. CASE c.entertaining /\ NoteAbove(p)
  BY <1>2, <1>3, AbortedStep DEF EndIn
<1>4. CASE ~(c.entertaining /\ NoteAbove(p))
  <2>1. ent' \in Ents /\ ent'.depth = 0
    BY <1>1, <1>4, TypesOfState DEF EndIn, StopEnt, Fits, Ents, Closures
  <2>2. at' \subseteq Waiting \cup Dialogs /\ c' = NoClos
    BY <1>4, TypesOfState DEF EndIn, Called, Running
  <2> QED
    BY <1>2, <2>1, <2>2 DEF FlowInv, TypeOK, RestOK, Ents, Devices, Running, Waiting, Dialogs
<1> QED
  BY <1>3, <1>4

\* A flow that goes on does so at one callback, which fits its closure.
LEMMA NextStep ==
  ASSUME FlowInv, NEW p, Called(p), p # Errno,
         NEW q \in (Waiting \cup Dialogs) \ {Errno}, NEW Q, q \in Q, Q \subseteq {q, Errno},
         at' = (at \ {p}) \cup Q, Fits(q, c', ent', device'),
         ent' \in Ents, device' \in Devices, RestOK'
  PROVE  FlowInv'
<1>1. at' \subseteq {q, Errno} /\ q \in at'
  BY AtCallback
<1>2. at' \subseteq Waiting \cup Dialogs
  BY <1>1 DEF Dialogs, Errno
<1> QED
  BY <1>1, <1>2 DEF FlowInv, TypeOK, RestOK, Ents, Devices, Errno, Fits

\* ip_abort_cur
LEMMA AbortStep ==
  ASSUME FlowInv, NEW p, Called(p), p # Errno,
         p \notin Unentertained \cup {"ip_end"},
         NEW cc \in Closures, cc.entertaining, cc.list = c.list,
         cc.saved = c.saved, AbortCur(p, cc), RestOK'
  PROVE  FlowInv'
<1> DEFINE q == AbortDialog(cc)
<1>0. CASE NoteAbove(p)
  BY <1>0, TypesOfState, AbortedStep DEF AbortCur
<1> SUFFICES ASSUME ~NoteAbove(p) PROVE FlowInv'
  BY <1>0
<1>1. q \in {"ip_end", "ip_abort_response"}
  BY DEF AbortDialog
<1>2. Fits(p, c, ent, device)
  BY AtCallback
<1>3. c' \in Closures /\ ~c'.entertaining /\ c'.saved = c.saved /\ c'.list = c.list
  BY DEF AbortCur, Goes, Closures
<1>4. ent' \in Ents /\ ent'.depth = 0
  BY <1>2, TypesOfState DEF AbortCur, Goes, StopEnt, Ents, Fits
<1>5. device' = device /\ at' = (at \ {p}) \cup {q}
  BY DEF AbortCur, Goes
<1>6. p # "ip_install_with_info"
  BY DEF Unentertained
<1>7. Fits(q, c', ent', device')
  BY <1>1, <1>2, <1>3, <1>4, <1>5, <1>6
  DEF Fits, Unentertained, KeptOffline, AboutAll, Reboots, OnlyLastReboots
<1> QED
  <2>1. q \in (Waiting \cup Dialogs) \ {Errno} /\ q \in {q} /\ {q} \subseteq {q, Errno}
    BY <1>1 DEF Dialogs, Errno
  <2> HIDE DEF q
  <2>2. device' \in Devices
    BY <1>5, TypesOfState
  <2> QED
    BY <1>4, <1>5, <1>7, <2>1, <2>2, NextStep

\* ip_install_loop
LEMMA LoopStep ==
  ASSUME FlowInv, NEW p, Called(p), p # Errno,
         NEW cc \in Closures, cc.entertaining, cc.cur >= 1, OnlyLastReboots(cc.list),
         Restored(cc) = HomeMode,
         NEW e \in Ents, e.depth = 1, InstallLoop(p, cc, e), RestOK'
  PROVE  FlowInv'
<1>0. at \subseteq {p, Errno} /\ device \in Devices
  BY AtCallback, TypesOfState
<1>4. CASE cc.cur > Len(cc.list) /\ NoteAbove(p)
  <2>1. Abort /\ device' \in Devices
    BY <1>0, <1>4, FlowAssumption DEF InstallLoop, Devices, Closures
  <2> QED
    BY <2>1, AbortedStep
<1>1. CASE cc.cur > Len(cc.list) /\ ~NoteAbove(p) /\ cc.ok > 0
  <2>1. c' \in Closures /\ ~c'.entertaining /\ c'.saved = "unknown" /\ c'.list = cc.list
    <3>1. c' = [cc EXCEPT !.saved = "unknown", !.entertaining = FALSE]
      BY <1>1 DEF InstallLoop, Closures
    <3> QED
      BY <3>1 DEF Closures
  <2>2. ent' \in Ents /\ ent'.depth = 0
    BY <1>1 DEF InstallLoop, StopEnt, Ents, Closures
  <2>3. device' \in Devices /\ device'.mode = HomeMode
    BY <1>0, <1>1, FlowAssumption DEF InstallLoop, Devices, Closures
  <2>4. at' = (at \ {p}) \cup {"ip_end"}
    BY <1>1 DEF InstallLoop, Closures
  <2>5. Fits("ip_end", c', ent', device')
    BY <2>1, <2>2, <2>3 DEF Fits, Unentertained, KeptOffline, AboutAll, Reboots
  <2>6. "ip_end" \in (Waiting \cup Dialogs) \ {Errno}
    BY DEF Dialogs, Errno
  <2> QED
    BY <2>2, <2>3, <2>4, <2>5, <2>6, NextStep
<1>2. CASE cc.cur > Len(cc.list) /\ ~NoteAbove(p) /\ cc.ok = 0
  <2>1. c' = NoClos /\ at' \subseteq {Errno} /\ device' = Normal
    BY <1>0, <1>2 DEF InstallLoop, Normal, Closures
  <2>2. ent' \in Ents /\ ent'.depth = 0
    BY <1>2 DEF InstallLoop, StopEnt, Ents, Closures
  <2> QED
    BY <2>1, <2>2, FlowAssumption
    DEF FlowInv, TypeOK, RestOK, Ents, Normal, Modes, Dialogs, Errno, Running
<1>3. CASE cc.cur <= Len(cc.list)
  <2>1. PICK q \in {"ip_check_domain_reply", "ip_third_party_policy_check"} :
          at' = (at \ {p}) \cup {q}
    BY <1>3 DEF InstallLoop, Closures
  <2>2. c' \in Closures /\ c'.entertaining /\ c'.saved = "unknown" /\ c'.list = cc.list
        /\ c'.cur = cc.cur
    BY <1>3 DEF InstallLoop, Closures
  <2>3. device' \in Devices /\ device'.mode = HomeMode /\ ent' = e
    BY <1>0, <1>3, FlowAssumption DEF InstallLoop, Devices, Closures
  <2>4. cc.cur \in 1 .. Len(cc.list)
    BY <1>3 DEF Closures
  <2>5. Fits(q, c', ent', device')
    BY <2>1, <2>2, <2>3, <2>4 DEF Fits, Unentertained, KeptOffline, AboutAll, Reboots
  <2>6. q \in (Waiting \cup Dialogs) \ {Errno}
    BY <2>1 DEF Waiting, Errno
  <2> QED
    BY <2>1, <2>3, <2>5, <2>6, NextStep
<1> QED
  BY <1>1, <1>2, <1>3, <1>4 DEF InstallLoop, Closures

\* Facts about the callback p at which the flow is, which every action needs.
LEMMA Here ==
  ASSUME FlowInv, NEW p, Called(p), p \notin Unentertained \cup {"ip_end", Errno}
  PROVE  /\ c \in Closures /\ c.entertaining /\ ent.depth = 1
         /\ OnlyLastReboots(c.list)
         /\ p \notin AboutAll => c.cur \in 1 .. Len(c.list)
         /\ p \notin KeptOffline => c.saved = "unknown" /\ device.mode = HomeMode
         /\ Restored(c) = HomeMode
BY AtCallback, FlowAssumption DEF Fits, Unentertained, Restored, Modes

\* The next callback is one about the current package, and nothing else changes.
LEMMA ThenStep ==
  ASSUME FlowInv, NEW p, Called(p), p \notin Unentertained \cup {"ip_end", Errno},
         p \notin AboutAll, p \notin KeptOffline,
         NEW q \in (Waiting \cup Dialogs) \ (Unentertained \cup {Errno}),
         q \in Reboots => Kind(c) \in Rebooting,
         NEW Q, q \in Q, Q \subseteq {q, Errno},
         NEW n \in Nat, NEW e \in Ents, e.depth = 1,
         Goes(p, Q, [c EXCEPT !.upgrades = n], e), RestOK'
  PROVE  FlowInv'
<1>1. c \in Closures /\ c.entertaining /\ OnlyLastReboots(c.list)
      /\ c.cur \in 1 .. Len(c.list) /\ c.saved = "unknown" /\ device.mode = HomeMode
  BY Here
<1>2. c' \in Closures /\ c'.entertaining /\ c'.list = c.list
      /\ c'.cur = c.cur /\ c'.saved = "unknown"
  BY <1>1 DEF Goes, Closures
<1>3. Fits(q, c', ent', device')
  BY <1>1, <1>2 DEF Fits, Goes, Kind, Unentertained
<1>4. device' \in Devices /\ ent' \in Ents /\ at' = (at \ {p}) \cup Q
  BY TypesOfState DEF Goes
<1> QED
  BY <1>3, <1>4, NextStep

\* A special case: the closure stays as it is.
LEMMA PlainStep ==
  ASSUME FlowInv, NEW p, Called(p), p \notin Unentertained \cup {"ip_end", Errno},
         p \notin AboutAll, p \notin KeptOffline,
         NEW q \in (Waiting \cup Dialogs) \ (Unentertained \cup {Errno}),
         q \in Reboots => Kind(c) \in Rebooting,
         Then(p, q, c), RestOK'
  PROVE  FlowInv'
<1>1. c \in Closures /\ ent \in Ents /\ ent.depth = 1
  BY Here, TypesOfState
<1>2. c = [c EXCEPT !.upgrades = c.upgrades] /\ c.upgrades \in Nat
  BY <1>1 DEF Closures
<1>3. Goes(p, {q}, [c EXCEPT !.upgrades = c.upgrades], ent)
  BY <1>2 DEF Then
<1> QED
  BY <1>1, <1>2, <1>3, ThenStep

\* ip_install_next
LEMMA InstallNextStep ==
  ASSUME FlowInv, NEW p, Called(p), p # Errno,
         NEW cc \in Closures, cc.entertaining, OnlyLastReboots(cc.list),
         Restored(cc) = HomeMode,
         NEW e \in Ents, e.depth = 1, InstallNext(p, cc, e), RestOK'
  PROVE  FlowInv'
<1> DEFINE next == [cc EXCEPT !.cur = @ + 1]
<1>1. next \in Closures /\ next.entertaining /\ next.list = cc.list
      /\ next.saved = cc.saved /\ next.cur >= 1
  BY DEF Closures
<1>2. Restored(next) = HomeMode
  BY <1>1 DEF Restored
<1>3. InstallLoop(p, next, e)
  BY DEF InstallNext
<1> HIDE DEF next
<1> QED
  BY <1>1, <1>2, <1>3, LoopStep

\* ip_check_cert_loop
LEMMA CertStep ==
  ASSUME FlowInv, NEW p \in {"ip_ensure_network_reply", "ip_check_cert_reply"}, Called(p),
         NEW i \in Nat, i >= 1, NEW e \in Ents, e.depth = 1, CertLoop(p, i, e), RestOK'
  PROVE  FlowInv'
<1>0. p \notin Unentertained \cup {"ip_end", Errno} /\ p \notin KeptOffline
  BY DEF Unentertained, Errno, KeptOffline
<1>1. c \in Closures /\ c.entertaining /\ OnlyLastReboots(c.list) /\ Restored(c) = HomeMode
      /\ c.saved = "unknown" /\ device.mode = HomeMode /\ device \in Devices
  BY <1>0, Here, TypesOfState
<1>2. ASSUME NEW j \in i .. Len(c.list),
             Goes(p, {"ip_check_cert_reply"}, [c EXCEPT !.cur = j], e)
      PROVE  FlowInv'
  <2>1. c' \in Closures /\ c'.entertaining /\ c'.list = c.list /\ c'.cur = j
        /\ c'.saved = "unknown" /\ j \in 1 .. Len(c.list)
    BY <1>1, <1>2 DEF Goes, Closures
  <2>2. Fits("ip_check_cert_reply", c', ent', device')
    BY <1>1, <1>2, <2>1 DEF Goes, Fits, Unentertained, Reboots
  <2>3. "ip_check_cert_reply" \in (Waiting \cup Dialogs) \ {Errno}
    BY DEF Waiting, Errno
  <2> QED
    BY <1>0, <1>1, <1>2, <2>2, <2>3, NextStep DEF Goes
<1>3. ASSUME Goes(p, {"ip_legalese_response"}, [c EXCEPT !.cur = 1], e)
      PROVE  FlowInv'
  <2>1. c' \in Closures /\ c'.entertaining /\ c'.list = c.list /\ c'.saved = "unknown"
    BY <1>1, <1>3 DEF Goes, Closures
  <2>2. Fits("ip_legalese_response", c', ent', device')
    BY <1>1, <1>3, <2>1 DEF Goes, Fits, Unentertained, AboutAll, Reboots
  <2>3. "ip_legalese_response" \in (Waiting \cup Dialogs) \ {Errno}
    BY DEF Dialogs, Errno
  <2> QED
    BY <1>0, <1>1, <1>3, <2>2, <2>3, NextStep DEF Goes
<1>4. ASSUME InstallLoop(p, [c EXCEPT !.cur = 1], e)
      PROVE  FlowInv'
  <2> DEFINE cc == [c EXCEPT !.cur = 1]
  <2>1. cc \in Closures /\ cc.entertaining /\ cc.list = c.list /\ cc.saved = c.saved
        /\ cc.cur >= 1
    BY <1>1 DEF Closures
  <2>2. Restored(cc) = HomeMode
    BY <1>1, <2>1 DEF Restored
  <2> HIDE DEF cc
  <2>3. InstallLoop(p, cc, e)
    BY <1>4 DEF cc
  <2> QED
    BY <1>0, <1>1, <2>1, <2>2, <2>3, LoopStep
<1> QED
  BY <1>2, <1>3, <1>4 DEF CertLoop

-----------------------------------------------------------------------------
(* The actions *)

\* A callback that leaves the rest of the state alone.
LEMMA RestStays ==
  ASSUME FlowInv, UNCHANGED rest
  PROVE  RestOK'
BY TypesOfState DEF rest, RestOK

LEMMA EndHere ==
  ASSUME FlowInv, NEW p, Called(p), End(p, c), RestOK'
  PROVE  FlowInv'
BY TypesOfState, EndStep DEF End

\* ip_abort_cur, the closure being as it is.
LEMMA AbortHere ==
  ASSUME FlowInv, NEW p, Called(p), p \notin Unentertained \cup {"ip_end", Errno},
         AbortCur(p, c), RestOK'
  PROVE  FlowInv'
BY Here, AbortStep

LEMMA NotEnoughMemoryStep ==
  ASSUME FlowInv, NEW p, Called(p), p \notin Unentertained \cup {"ip_end", Errno},
         p \notin AboutAll, p \notin KeptOffline, NotEnoughMemory(p) \/ SpaceUnknown(p), RestOK'
  PROVE  FlowInv'
<1>1. CASE AbortCur(p, c)
  BY <1>1, AbortHere
<1>2. CASE Abort /\ device' = device
  BY <1>2, AbortedStep, TypesOfState
<1>3. ASSUME NEW Q \in {{}, {Errno}}, Goes(p, Q \cup {"ip_maybe_continue"}, c, ent)
      PROVE  FlowInv'
  <2>1. c = [c EXCEPT !.upgrades = c.upgrades] /\ c.upgrades \in Nat
    BY Here DEF Closures
  <2>2. "ip_maybe_continue" \in (Waiting \cup Dialogs) \ (Unentertained \cup {Errno})
        /\ "ip_maybe_continue" \notin Reboots
    BY DEF Dialogs, Unentertained, Errno, Reboots
  <2>3. Q \cup {"ip_maybe_continue"} \subseteq {"ip_maybe_continue", Errno}
    OBVIOUS
  <2>4. Goes(p, Q \cup {"ip_maybe_continue"}, [c EXCEPT !.upgrades = c.upgrades], ent)
    BY <1>3, <2>1
  <2> QED
    BY <2>1, <2>2, <2>3, <2>4, ThenStep, Here, TypesOfState
<1>4. \/ AbortCur(p, c)
      \/ Abort /\ device' = device
      \/ \E Q \in {{}, {Errno}} : Goes(p, Q \cup {"ip_maybe_continue"}, c, ent)
  <2>1. {} \cup {"ip_maybe_continue"} = {"ip_maybe_continue"}
        /\ {Errno} \cup {"ip_maybe_continue"} = {"ip_end_errno", "ip_maybe_continue"}
    BY DEF Errno
  <2> QED
    BY <2>1 DEF NotEnoughMemory, SpaceUnknown, Then
<1> QED
  BY <1>1, <1>2, <1>3, <1>4

LEMMA DownloadStep ==
  ASSUME FlowInv, NEW p, Called(p), p \notin Unentertained \cup {"ip_end", Errno},
         p \notin AboutAll, p \notin KeptOffline, NEW n \in Nat,
         NEW e \in Ents, e.depth = 1, DownloadCur(p, [c EXCEPT !.upgrades = n], e), RestOK'
  PROVE  FlowInv'
<1>1. "ip_download_cur_reply" \in (Waiting \cup Dialogs) \ (Unentertained \cup {Errno})
      /\ "ip_download_cur_reply" \notin Reboots
  BY DEF Waiting, Unentertained, Errno, Reboots
<1>2. ResetEnt(e) \in Ents /\ ResetEnt(e).depth = 1
  BY DEF ResetEnt, Ents
<1> QED
  BY <1>1, <1>2, ThenStep DEF DownloadCur

LEMMA UpgradeStep ==
  ASSUME FlowInv, NEW p, Called(p), p \notin Unentertained \cup {"ip_end", Errno},
         p \notin AboutAll, p \notin KeptOffline, NEW n \in Int, UpgradeLoop(p, n), RestOK'
  PROVE  FlowInv'
<1>1. CASE n = 0
  BY <1>1, Here, TypesOfState, DownloadStep DEF UpgradeLoop
<1>2. CASE n > 0
  <2>1. "ip_check_upgrade_cmd_done" \in (Waiting \cup Dialogs) \ (Unentertained \cup {Errno})
        /\ "ip_check_upgrade_cmd_done" \notin Reboots
    BY DEF Waiting, Unentertained, Errno, Reboots
  <2>2. Goes(p, {"ip_check_upgrade_cmd_done"}, [c EXCEPT !.upgrades = n], ent) /\ n \in Nat
    BY <1>2 DEF UpgradeLoop, Then
  <2> QED
    BY <2>1, <2>2, ThenStep, Here, TypesOfState
<1> QED
  BY <1>1, <1>2 DEF UpgradeLoop

\* ip_install_one and ip_install_cur
LEMMA BatteryStep ==
  ASSUME FlowInv, NEW p, Called(p), p \notin Unentertained \cup {"ip_end", Errno},
         p \notin AboutAll, p \notin KeptOffline,
         NEW q \in InstallOne \cup InstallCur, Then(p, q, c), RestOK'
  PROVE  FlowInv'
<1>1. q \in {"ip_install_one_with_space_checked", "ip_install_one",
             "ip_install_cur_with_space_checked", "ip_install_cur"}
  BY DEF InstallOne, InstallCur, AfterBattery
<1>2. q \in (Waiting \cup Dialogs) \ (Unentertained \cup {Errno}) /\ q \notin Reboots
  BY <1>1 DEF Waiting, Dialogs, Unentertained, Errno, Reboots
<1> QED
  BY <1>2, PlainStep

LEMMA NewInfoStep ==
  ASSUME FlowInv, NEW p, Called(p), p \notin Unentertained \cup {"ip_end", Errno},
         p \notin AboutAll, p \notin KeptOffline, WithNewInfo(p), RestOK'
  PROVE  FlowInv'
<1>1. CASE Kind(c) \in Rebooting /\ Then(p, "ip_warn_about_reboot_response", c)
  <2>1. "ip_warn_about_reboot_response" \in (Waiting \cup Dialogs) \ (Unentertained \cup {Errno})
    BY DEF Dialogs, Unentertained, Errno
  <2> QED
    BY <1>1, <2>1, PlainStep
<1>2. CASE \E q \in InstallOne : Then(p, q, c)
  BY <1>2, BatteryStep
<1>3. CASE AbortCur(p, c)
  BY <1>3, AbortHere
<1> QED
  BY <1>1, <1>2, <1>3 DEF WithNewInfo

LEMMA StartEntType ==
  ASSUME NEW e \in Ents, e.depth = 0
  PROVE  StartEnt(e) \in Ents /\ StartEnt(e).depth = 1
<1>1. ResetEnt(e) \in Ents /\ ResetEnt(e).depth = 0
  BY DEF ResetEnt, Ents
<1>2. StartEnt(e) = [ResetEnt(e) EXCEPT !.depth = @ + 1]
  BY DEF StartEnt
<1> QED
  BY <1>1, <1>2 DEF Ents

LEMMA InstallPackagesStep ==
  ASSUME FlowInv, NEW l \in Requests, NEW type \in Types, NEW red \in BOOLEAN,
         InstallPackages(l, type, red)
  PROVE  FlowInv'
<1>1. c = NoClos /\ ent.depth = 0 /\ device = Normal
  BY DEF FlowInv, InstallPackages
<1>2. l \in Seq(Kinds)
  BY DEF Requests
<1>3. c' \in Closures /\ ~c'.entertaining /\ c'.saved = "unknown"
  BY <1>2 DEF InstallPackages, Closures
<1>4. at' = {"ip_install_with_info"} /\ ent' = ent /\ device' = device
  BY DEF InstallPackages
<1>5. Fits("ip_install_with_info", c', ent', device')
  BY <1>1, <1>3, <1>4 DEF Fits, Unentertained, AboutAll, Reboots, Normal
<1>6. RestOK'
  BY TypesOfState, FlowAssumption DEF InstallPackages, RestOK
<1>7. ent \in Ents /\ device \in Devices
  BY TypesOfState
<1> QED
  BY <1>3, <1>4, <1>5, <1>6, <1>7
  DEF FlowInv, TypeOK, RestOK, Ents, Devices, Waiting

\* A selection of packages that is in order keeps the rebooting one last.
LEMMA ChosenIsList ==
  ASSUME NEW s \in Seq(Kinds), NEW f \in Positions(s)
  PROVE  /\ Chosen(s, f) \in Seq(Kinds)
         /\ Arranged(s, f) => OnlyLastReboots(Chosen(s, f))
         /\ InOrder(s, f) /\ OnlyLastReboots(s) => OnlyLastReboots(Chosen(s, f))
<1>1. PICK n \in 0 .. Len(s) : f \in [1 .. n -> 1 .. Len(s)]
  BY DEF Positions
<1>2. Chosen(s, f) = [i \in 1 .. n |-> s[f[i]]]
  BY <1>1 DEF Chosen
<1>3. \A i \in 1 .. n : s[f[i]] \in Kinds
  BY <1>1
<1>4. n \in Nat /\ Chosen(s, f) \in [1 .. n -> Kinds]
  BY <1>2, <1>3
<1>5. Chosen(s, f) \in Seq(Kinds) /\ Len(Chosen(s, f)) = n
  BY <1>4
<1>6. ASSUME Arranged(s, f)
      PROVE  OnlyLastReboots(Chosen(s, f))
  <2> SUFFICES ASSUME NEW i \in 1 .. n, s[f[i]] \in Rebooting PROVE i = n
    BY <1>2, <1>5 DEF OnlyLastReboots
  <2>1. ~(i < n)
    BY <1>1, <1>6 DEF Arranged
  <2> QED
    BY <1>4, <2>1
<1>7. ASSUME InOrder(s, f), OnlyLastReboots(s)
      PROVE  OnlyLastReboots(Chosen(s, f))
  <2> SUFFICES ASSUME NEW i \in 1 .. n, s[f[i]] \in Rebooting PROVE i = n
    BY <1>2, <1>5 DEF OnlyLastReboots
  <2>1. f[i] = Len(s)
    BY <1>1, <1>7 DEF OnlyLastReboots
  <2>2. f[n] \in 1 .. Len(s) /\ (i < n => f[i] < f[n])
    BY <1>1, <1>7 DEF InOrder
  <2> QED
    BY <1>1, <2>1, <2>2
<1> QED
  BY <1>5, <1>6, <1>7

LEMMA InstallWithInfoStep ==
  ASSUME FlowInv, InstallWithInfo
  PROVE  FlowInv'
<1> DEFINE p == "ip_install_with_info"
<1>1. Called(p) /\ p # Errno /\ RestOK'
  BY RestStays DEF InstallWithInfo, Errno
<1>2. Fits(p, c, ent, device) /\ ent \in Ents /\ device \in Devices
  BY <1>1, AtCallback, TypesOfState
<1>3. PICK f \in Positions(c.list) :
        LET cc == [c EXCEPT !.list = Chosen(c.list, f)] IN
        /\ Arranged(c.list, f)
        /\ \/ Then(p, "ip_end", cc)
           \/ Then(p, "ip_select_package_response", cc)
           \/ EnsureNetwork(p, cc)
  BY DEF InstallWithInfo
<1> DEFINE cc == [c EXCEPT !.list = Chosen(c.list, f)]
<1>4. c \in Closures /\ ~c.entertaining /\ c.saved = "unknown" /\ ent.depth = 0
      /\ device.mode = HomeMode
  BY <1>2 DEF Fits, Unentertained, KeptOffline
<1>5. Chosen(c.list, f) \in Seq(Kinds) /\ OnlyLastReboots(Chosen(c.list, f))
  BY <1>3, <1>4, ChosenIsList DEF Closures
<1>6. cc \in Closures /\ ~cc.entertaining /\ cc.saved = "unknown" /\ OnlyLastReboots(cc.list)
  BY <1>4, <1>5 DEF Closures
<1> HIDE DEF cc
<1>7. ASSUME NEW q \in {"ip_end", "ip_select_package_response"}, Then(p, q, cc)
      PROVE  FlowInv'
  <2>1. Fits(q, c', ent', device')
    BY <1>2, <1>4, <1>6, <1>7
    DEF Then, Goes, Fits, Unentertained, AboutAll, Reboots
  <2>2. q \in (Waiting \cup Dialogs) \ {Errno}
    BY DEF Dialogs, Errno
  <2> QED
    BY <1>1, <1>2, <1>7, <2>1, <2>2, NextStep DEF Then, Goes
<1>8. ASSUME EnsureNetwork(p, cc)
      PROVE  FlowInv'
  <2>1. c' \in Closures /\ c'.entertaining /\ c'.saved = "unknown" /\ c'.list = cc.list
    BY <1>6, <1>8 DEF EnsureNetwork, Goes, Closures
  <2>2. ent' \in Ents /\ ent'.depth = 1
    BY <1>2, <1>4, <1>8, StartEntType DEF EnsureNetwork, Goes
  <2>3. device' = device /\ at' = (at \ {p}) \cup {"ip_ensure_network_reply"}
    BY <1>8 DEF EnsureNetwork, Goes
  <2>4. Fits("ip_ensure_network_reply", c', ent', device')
    BY <1>4, <1>6, <2>1, <2>2, <2>3 DEF Fits, Unentertained, AboutAll, Reboots
  <2>5. "ip_ensure_network_reply" \in (Waiting \cup Dialogs) \ {Errno}
    BY DEF Waiting, Errno
  <2> QED
    BY <1>1, <1>2, <2>2, <2>3, <2>4, <2>5, NextStep
<1> QED
  BY <1>3, <1>7, <1>8 DEF cc

LEMMA SelectPackageStep ==
  ASSUME FlowInv, SelectPackageResponse
  PROVE  FlowInv'
<1> DEFINE p == "ip_select_package_response"
<1>1. Called(p) /\ p # Errno /\ RestOK'
  BY RestStays DEF SelectPackageResponse, Errno
<1>2. Fits(p, c, ent, device) /\ ent \in Ents /\ device \in Devices
  BY <1>1, AtCallback, TypesOfState
<1>3. CASE End(p, c)
  BY <1>1, <1>3, EndHere
<1>4. ASSUME NEW f \in Positions(c.list), InOrder(c.list, f),
             EnsureNetwork(p, [c EXCEPT !.list = Chosen(c.list, f)])
      PROVE  FlowInv'
  <2>1. c \in Closures /\ ~c.entertaining /\ c.saved = "unknown" /\ ent.depth = 0
        /\ device.mode = HomeMode /\ OnlyLastReboots(c.list)
    BY <1>2 DEF Fits, Unentertained, KeptOffline
  <2>2. Chosen(c.list, f) \in Seq(Kinds) /\ OnlyLastReboots(Chosen(c.list, f))
    BY <1>4, <2>1, ChosenIsList DEF Closures
  <2>3. c' \in Closures /\ c'.entertaining /\ c'.saved = "unknown"
        /\ c'.list = Chosen(c.list, f)
    BY <1>4, <2>1, <2>2 DEF EnsureNetwork, Goes, Closures
  <2>4. ent' \in Ents /\ ent'.depth = 1
    BY <1>2, <1>4, <2>1, StartEntType DEF EnsureNetwork, Goes
  <2>5. device' = device /\ at' = (at \ {p}) \cup {"ip_ensure_network_reply"}
    BY <1>4 DEF EnsureNetwork, Goes
  <2>6. Fits("ip_ensure_network_reply", c', ent', device')
    BY <2>1, <2>2, <2>3, <2>4, <2>5 DEF Fits, Unentertained, AboutAll, Reboots
  <2>7. "ip_ensure_network_reply" \in (Waiting \cup Dialogs) \ {Errno}
    BY DEF Waiting, Errno
  <2> QED
    BY <1>1, <1>2, <2>4, <2>5, <2>6, <2>7, NextStep
<1> QED
  BY <1>3, <1>4 DEF SelectPackageResponse

\* The callbacks that are about the current package while the device is online
OnePackage == (Waiting \cup Dialogs) \
                (Unentertained \cup {"ip_end", Errno} \cup AboutAll \cup KeptOffline)

LEMMA OnePackageCallbacks ==
  OnePackage =
    {"ip_check_cert_reply", "ip_check_domain_reply", "ip_third_party_policy_check",
     "ip_third_party_policy_check_reply", "ip_install_one_with_space_checked",
     "ip_check_upgrade_reply", "ip_check_upgrade_cmd_done", "ip_download_cur_reply",
     "ip_download_cur_retry", "ip_install_cur_with_space_checked", "ip_install_anyway",
     "ip_warn_about_reboot_response", "ip_install_one", "ip_install_cur",
     "ip_maybe_continue", "ip_download_cur_retry_confirm_response"}
BY DEF OnePackage, Waiting, Dialogs, Unentertained, Errno, AboutAll, KeptOffline

\* Next callbacks that nothing is asked of beyond OnePackage
LEMMA PlainCallbacks ==
  ASSUME NEW q \in OnePackage
  PROVE  q \in (Waiting \cup Dialogs) \ (Unentertained \cup {Errno})
BY DEF OnePackage

LEMMA ChecksStep ==
  ASSUME FlowInv,
         \/ CheckCertReply \/ LegaleseResponse \/ CheckDomainReply \/ InstallAnyway
         \/ PolicyCheck \/ PolicyCheckReply
  PROVE  FlowInv'
<1>0. RestOK'
  BY RestStays DEF CheckCertReply, LegaleseResponse, CheckDomainReply, InstallAnyway,
                   PolicyCheck, PolicyCheckReply
<1>1. ent \in Ents
  BY TypesOfState
<1>2. CASE CheckCertReply
  <2> DEFINE p == "ip_check_cert_reply"
  <2>1. Called(p) /\ p \notin Unentertained \cup {"ip_end", Errno} /\ p \notin AboutAll
        /\ p \notin KeptOffline
    BY <1>2, OnePackageCallbacks DEF CheckCertReply, OnePackage
  <2>2. c \in Closures /\ c.cur \in 1 .. Len(c.list) /\ ent.depth = 1
    BY <2>1, Here
  <2>3. CASE End(p, c)
    BY <1>0, <2>1, <2>3, EndHere
  <2>4. CASE CertLoop(p, c.cur + 1, ent)
    BY <1>0, <1>1, <2>1, <2>2, <2>4, CertStep
  <2>5. CASE Then(p, "ip_legalese_response", c)
    <3>1. Fits("ip_legalese_response", c', ent', device')
      BY <2>1, <2>2, <2>5, AtCallback
      DEF Then, Goes, Fits, Unentertained, AboutAll, Reboots
    <3>2. "ip_legalese_response" \in (Waiting \cup Dialogs) \ {Errno}
      BY DEF Dialogs, Errno
    <3> QED
      BY <1>0, <1>1, <2>1, <2>5, <3>1, <3>2, NextStep, TypesOfState DEF Then, Goes
  <2> QED
    BY <1>2, <2>3, <2>4, <2>5 DEF CheckCertReply
<1>3. CASE LegaleseResponse
  <2> DEFINE p == "ip_legalese_response"
             cc == [c EXCEPT !.cur = 1]
  <2>1. Called(p) /\ p \notin Unentertained \cup {"ip_end", Errno} /\ p \notin KeptOffline
    BY <1>3 DEF LegaleseResponse, Unentertained, Errno, KeptOffline
  <2>2. c \in Closures /\ c.entertaining /\ ent.depth = 1 /\ OnlyLastReboots(c.list)
        /\ c.saved = "unknown" /\ device.mode = HomeMode
    BY <2>1, Here
  <2>3. CASE End(p, c)
    BY <1>0, <2>1, <2>3, EndHere
  <2>4. CASE InstallLoop(p, [c EXCEPT !.cur = 1], ent)
    <3>1. cc \in Closures /\ cc.entertaining /\ cc.list = c.list /\ cc.cur >= 1
          /\ Restored(cc) = HomeMode
      BY <2>2 DEF Closures, Restored
    <3> HIDE DEF cc
    <3>2. InstallLoop(p, cc, ent)
      BY <2>4 DEF cc
    <3> QED
      BY <1>0, <1>1, <2>1, <2>2, <3>1, <3>2, LoopStep
  <2> QED
    BY <1>3, <2>3, <2>4 DEF LegaleseResponse
<1>4. CASE CheckDomainReply
  <2> DEFINE p == "ip_check_domain_reply"
  <2>1. Called(p) /\ p \in OnePackage
    BY <1>4, OnePackageCallbacks DEF CheckDomainReply
  <2>2. {"ip_install_anyway", "ip_third_party_policy_check"} \subseteq OnePackage \ Reboots
    BY OnePackageCallbacks DEF Reboots
  <2>3. \/ End(p, c) \/ \E q \in {"ip_install_anyway", "ip_third_party_policy_check"} :
                          Then(p, q, c)
    BY <1>4 DEF CheckDomainReply, GetInfo
  <2> HIDE DEF p
  <2> QED
    BY <1>0, <2>1, <2>2, <2>3, EndHere, PlainStep, PlainCallbacks DEF OnePackage
<1>5. CASE InstallAnyway
  <2> DEFINE p == "ip_install_anyway"
  <2>1. Called(p) /\ p \in OnePackage /\ p # Errno
    BY <1>5, OnePackageCallbacks DEF InstallAnyway, Errno
  <2>2. CASE GetInfo(p, c)
    <3>1. "ip_third_party_policy_check" \in OnePackage \ Reboots
      BY OnePackageCallbacks DEF Reboots
    <3> HIDE DEF p
    <3> QED
      BY <1>0, <2>1, <2>2, <3>1, PlainStep, PlainCallbacks DEF OnePackage, GetInfo
  <2>3. CASE InstallNext(p, c, ent)
    <3> HIDE DEF p
    <3> QED
      BY <1>0, <1>1, <2>1, <2>3, Here, InstallNextStep DEF OnePackage
  <2> QED
    BY <1>5, <2>2, <2>3 DEF InstallAnyway
<1>6. CASE PolicyCheck \/ PolicyCheckReply
  <2>1. PICK p \in {"ip_third_party_policy_check", "ip_third_party_policy_check_reply"} :
          /\ Called(p)
          /\ \/ WithNewInfo(p)
             \/ AbortCur(p, c)
             \/ Then(p, "ip_third_party_policy_check_reply", c)
    BY <1>6 DEF PolicyCheck, PolicyCheckReply
  <2>2. p \in OnePackage /\ "ip_third_party_policy_check_reply" \in OnePackage \ Reboots
    BY OnePackageCallbacks DEF Reboots
  <2>3. CASE WithNewInfo(p)
    BY <1>0, <2>1, <2>2, <2>3, NewInfoStep DEF OnePackage
  <2>4. CASE AbortCur(p, c)
    BY <1>0, <2>1, <2>2, <2>4, AbortHere DEF OnePackage
  <2>5. CASE Then(p, "ip_third_party_policy_check_reply", c)
    BY <1>0, <2>1, <2>2, <2>5, PlainStep, PlainCallbacks DEF OnePackage
  <2> QED
    BY <2>1, <2>3, <2>4, <2>5
<1> QED
  BY <1>2, <1>3, <1>4, <1>5, <1>6

LEMMA PreparationStep ==
  ASSUME FlowInv,
         \/ WarnAboutRebootResponse \/ BatteryResponse \/ InstallOneWithSpaceChecked
         \/ MaybeContinue \/ CheckUpgradeReply \/ CheckUpgradeCmdDone
  PROVE  FlowInv'
<1>0. RestOK'
  BY RestStays DEF WarnAboutRebootResponse, BatteryResponse, InstallOneWithSpaceChecked,
                   MaybeContinue, CheckUpgradeReply, CheckUpgradeCmdDone
<1>1. ent \in Ents /\ device \in Devices
  BY TypesOfState
<1>2. CASE WarnAboutRebootResponse
  <2> DEFINE p == "ip_warn_about_reboot_response"
  <2>1. Called(p) /\ p \in OnePackage /\ p # Errno
    BY <1>2, OnePackageCallbacks DEF WarnAboutRebootResponse, Errno
  <2>2. CASE End(p, c)
    BY <1>0, <2>1, <2>2, EndHere
  <2>3. ASSUME NEW q \in InstallOne, at' = (at \ {p}) \cup {q},
               device' = [device EXCEPT !.prestarted = FALSE], UNCHANGED <<c, ent>>
        PROVE  FlowInv'
    <3>1. q \in OnePackage \ Reboots /\ p \notin KeptOffline /\ p \notin AboutAll
          /\ p \notin Unentertained \cup {"ip_end", Errno}
      BY <2>1, OnePackageCallbacks DEF InstallOne, AfterBattery, OnePackage, Reboots
    <3>2. device' \in Devices /\ device'.mode = HomeMode
      BY <1>1, <2>1, <2>3, <3>1, Here DEF Devices
    <3>3. Fits(q, c', ent', device')
      BY <2>1, <2>3, <3>1, <3>2, Here DEF Fits, OnePackage
    <3> HIDE DEF p
    <3> QED
      BY <1>0, <1>1, <2>1, <2>3, <3>1, <3>2, <3>3, NextStep, PlainCallbacks
  <2> QED
    BY <1>2, <2>2, <2>3 DEF WarnAboutRebootResponse
<1>3. CASE BatteryResponse
  <2>1. PICK p \in {"ip_install_one", "ip_install_cur"} :
          /\ Called(p)
          /\ End(p, c) \/ \E q \in InstallOne \cup InstallCur : Then(p, q, c)
    BY <1>3 DEF BatteryResponse
  <2>2. p \in OnePackage
    BY <2>1, OnePackageCallbacks
  <2> QED
    BY <1>0, <2>1, <2>2, EndHere, BatteryStep DEF OnePackage
<1>4. CASE InstallOneWithSpaceChecked
  <2> DEFINE p == "ip_install_one_with_space_checked"
  <2>1. Called(p) /\ p \in OnePackage /\ "ip_check_upgrade_reply" \in OnePackage \ Reboots
    BY <1>4, OnePackageCallbacks DEF InstallOneWithSpaceChecked, Reboots
  <2>2. End(p, c) \/ Then(p, "ip_check_upgrade_reply", c) \/ NotEnoughMemory(p) \/ SpaceUnknown(p)
    BY <1>4 DEF InstallOneWithSpaceChecked
  <2> HIDE DEF p
  <2> QED
    BY <1>0, <2>1, <2>2, EndHere, PlainStep, PlainCallbacks, NotEnoughMemoryStep
    DEF OnePackage
<1>5. CASE MaybeContinue
  <2> DEFINE p == "ip_maybe_continue"
  <2>1. Called(p) /\ p \in OnePackage /\ "ip_check_upgrade_reply" \in OnePackage \ Reboots
        /\ p # Errno
    BY <1>5, OnePackageCallbacks DEF MaybeContinue, Reboots, Errno
  <2>2. Then(p, "ip_check_upgrade_reply", c) \/ InstallNext(p, c, ent)
    BY <1>5 DEF MaybeContinue
  <2> HIDE DEF p
  <2>3. CASE Then(p, "ip_check_upgrade_reply", c)
    BY <1>0, <2>1, <2>3, PlainStep, PlainCallbacks DEF OnePackage
  <2>4. CASE InstallNext(p, c, ent)
    BY <1>0, <1>1, <2>1, <2>4, Here, InstallNextStep DEF OnePackage
  <2> QED
    BY <2>2, <2>3, <2>4
<1>6. CASE CheckUpgradeReply
  <2> DEFINE p == "ip_check_upgrade_reply"
  <2>1. Called(p) /\ p \in OnePackage /\ p # Errno
    BY <1>6, OnePackageCallbacks DEF CheckUpgradeReply, Errno
  <2>2. CASE End(p, c)
    BY <1>0, <2>1, <2>2, EndHere
  <2>3. CASE Then(p, "ip_end", c)
    <3>1. Fits("ip_end", c', ent', device') /\ "ip_end" \in (Waiting \cup Dialogs) \ {Errno}
      BY <2>1, <2>3, AtCallback
      DEF Then, Goes, Fits, OnePackage, Unentertained, AboutAll, KeptOffline, Reboots,
          Dialogs, Errno
    <3> QED
      BY <1>0, <1>1, <2>1, <2>3, <3>1, NextStep DEF Then, Goes
  <2>4. ASSUME NEW n \in 0 .. MaxUpgrades, UpgradeLoop(p, n)
        PROVE  FlowInv'
    <3>1. n \in Int
      BY FlowAssumption
    <3> HIDE DEF p
    <3> QED
      BY <1>0, <2>1, <2>4, <3>1, UpgradeStep DEF OnePackage
  <2> QED
    BY <1>6, <2>2, <2>3, <2>4 DEF CheckUpgradeReply
<1>7. CASE CheckUpgradeCmdDone
  <2> DEFINE p == "ip_check_upgrade_cmd_done"
  <2>1. Called(p) /\ p \in OnePackage
    BY <1>7, OnePackageCallbacks DEF CheckUpgradeCmdDone
  <2>2. c \in Closures /\ c.entertaining
    BY <2>1, Here DEF OnePackage
  <2>3. CASE AbortCur(p, [c EXCEPT !.upgrades = 0])
    <3> DEFINE cc == [c EXCEPT !.upgrades = 0]
    <3>1. cc \in Closures /\ cc.entertaining /\ cc.list = c.list /\ cc.saved = c.saved
      BY <2>2 DEF Closures
    <3> HIDE DEF cc, p
    <3>2. AbortCur(p, cc)
      BY <2>3 DEF cc
    <3> QED
      BY <1>0, <2>1, <3>1, <3>2, AbortStep DEF OnePackage
  <2>4. CASE UpgradeLoop(p, c.upgrades - 1)
    <3>1. c.upgrades - 1 \in Int
      BY <2>2 DEF Closures
    <3> HIDE DEF p
    <3> QED
      BY <1>0, <2>1, <2>4, <3>1, UpgradeStep DEF OnePackage
  <2> QED
    BY <1>7, <2>3, <2>4 DEF CheckUpgradeCmdDone
<1> QED
  BY <1>2, <1>3, <1>4, <1>5, <1>6, <1>7

LEMMA DownloadReplyStep ==
  ASSUME FlowInv, DownloadCurReply \/ RetryConfirmResponse
  PROVE  FlowInv'
<1>1. CASE DownloadCurReply
  <2> DEFINE p == "ip_download_cur_reply"
             retries == {"ip_download_cur_retry", "ip_download_cur_retry_confirm_response"}
  <2>1. Called(p) /\ p \in OnePackage /\ retries \subseteq OnePackage \ Reboots
    BY <1>1, OnePackageCallbacks DEF DownloadCurReply, Reboots
  <2>2. failures' \in 0 .. 3
    BY <1>1, TypesOfState DEF DownloadCurReply, DownloadFailed, Count, RestOK
  <2>3. RestOK'
    BY <1>1, <2>2, TypesOfState DEF DownloadCurReply, RestOK
  <2>4. \/ End(p, c)
        \/ \E q \in InstallOne \cup InstallCur : Then(p, q, c)
        \/ NotEnoughMemory(p)
        \/ \E q \in retries : Then(p, q, c)
    BY <1>1 DEF DownloadCurReply, DownloadFailed
  <2> HIDE DEF p, retries
  <2> QED
    BY <2>1, <2>3, <2>4, EndHere, BatteryStep, NotEnoughMemoryStep, PlainStep, PlainCallbacks
    DEF OnePackage
<1>2. CASE RetryConfirmResponse
  <2> DEFINE p == "ip_download_cur_retry_confirm_response"
  <2>1. Called(p) /\ p \in OnePackage /\ "ip_download_cur_retry" \in OnePackage \ Reboots
    BY <1>2, OnePackageCallbacks DEF RetryConfirmResponse, Reboots
  <2>2. RestOK'
    BY <1>2, RestStays DEF RetryConfirmResponse
  <2>3. Then(p, "ip_download_cur_retry", c) \/ AbortCur(p, c) \/ End(p, c)
    BY <1>2 DEF RetryConfirmResponse
  <2> HIDE DEF p
  <2> QED
    BY <2>1, <2>2, <2>3, EndHere, AbortHere, PlainStep, PlainCallbacks DEF OnePackage
<1> QED
  BY <1>1, <1>2

LEMMA InstallCurStep ==
  ASSUME FlowInv,
         \/ InstallCurWithSpaceChecked \/ KillAllAndInstallDelayed \/ InstallCurReply
         \/ AbortResponse \/ NoteResponse
  PROVE  FlowInv'
<1>1. ent \in Ents /\ device \in Devices
  BY TypesOfState
<1>2. CASE InstallCurWithSpaceChecked
  <2> DEFINE p == "ip_install_cur_with_space_checked"
  <2>1. Called(p) /\ p \in OnePackage /\ p # Errno /\ RestOK'
    BY <1>2, OnePackageCallbacks, RestStays DEF InstallCurWithSpaceChecked, Errno
  <2>2. c \in Closures /\ c.entertaining /\ c.saved = "unknown" /\ device.mode = HomeMode
        /\ ent.depth = 1 /\ OnlyLastReboots(c.list) /\ c.cur \in 1 .. Len(c.list)
    BY <2>1, Here DEF OnePackage
  <2>3. CASE End(p, c)
    BY <2>1, <2>3, EndHere
  <2>4. CASE NotEnoughMemory(p) \/ SpaceUnknown(p)
    <3> HIDE DEF p
    <3> QED
      BY <2>1, <2>4, NotEnoughMemoryStep DEF OnePackage
  <2>5. ASSUME at' = (at \ {p}) \cup {"ip_kill_all_and_install_delayed"},
               c' = GoOffline(c), device' = [device EXCEPT !.mode = "offline"], ent' = ent
        PROVE  FlowInv'
    <3>1. c' \in Closures /\ c'.entertaining /\ c'.saved = HomeMode /\ c'.list = c.list
          /\ c'.cur = c.cur
      BY <2>2, <2>5, FlowAssumption DEF GoOffline, Closures
    <3>2. device' \in Devices
      BY <1>1, <2>5 DEF Devices, Modes
    <3>3. HomeMode # "unknown"
      BY FlowAssumption DEF Modes
    <3>4. Fits("ip_kill_all_and_install_delayed", c', ent', device')
      BY <2>2, <2>5, <3>1, <3>3 DEF Fits, Unentertained, KeptOffline, Reboots
    <3>5. "ip_kill_all_and_install_delayed" \in (Waiting \cup Dialogs) \ {Errno}
      BY DEF Waiting, Errno
    <3> QED
      BY <1>1, <2>1, <2>5, <3>2, <3>4, <3>5, NextStep
  <2>6. CASE Then(p, "ip_install_cur_reply", c)
    <3>1. Fits("ip_install_cur_reply", c', ent', device')
          /\ "ip_install_cur_reply" \in (Waiting \cup Dialogs) \ {Errno}
      BY <2>2, <2>6 DEF Then, Goes, Fits, Unentertained, Reboots, Waiting, Errno
    <3> QED
      BY <1>1, <2>1, <2>6, <3>1, NextStep DEF Then, Goes
  <2> QED
    BY <1>2, <2>3, <2>4, <2>5, <2>6 DEF InstallCurWithSpaceChecked
<1>3. CASE KillAllAndInstallDelayed
  <2> DEFINE p == "ip_kill_all_and_install_delayed"
  <2>1. Called(p) /\ p # Errno /\ RestOK' /\ Then(p, "ip_install_cur_reply", c)
    BY <1>3, RestStays DEF KillAllAndInstallDelayed, Errno
  <2>2. Fits("ip_install_cur_reply", c', ent', device')
        /\ "ip_install_cur_reply" \in (Waiting \cup Dialogs) \ {Errno}
    BY <2>1, AtCallback
    DEF Then, Goes, Fits, Unentertained, KeptOffline, AboutAll, Reboots, Waiting, Errno
  <2> QED
    BY <1>1, <2>1, <2>2, NextStep DEF Then, Goes
<1>4. CASE InstallCurReply
  <2> DEFINE p == "ip_install_cur_reply"
  <2>1. Called(p) /\ p \notin Unentertained \cup {"ip_end", Errno} /\ p \notin AboutAll
        /\ p # Errno
    BY <1>4 DEF InstallCurReply, Unentertained, Errno, AboutAll
  <2>2. RestOK'
    BY <1>4, TypesOfState DEF InstallCurReply, RestOK
  <2>3. c \in Closures /\ c.entertaining /\ ent.depth = 1 /\ OnlyLastReboots(c.list)
        /\ Restored(c) = HomeMode
    BY <2>1, Here
  <2>4. CASE End(p, c)
    BY <2>1, <2>2, <2>4, EndHere
  <2>5. CASE Kind(c) \in Rebooting /\ Then(p, "ip_reboot_delayed", c)
    <3>1. Fits("ip_reboot_delayed", c', ent', device')
          /\ "ip_reboot_delayed" \in (Waiting \cup Dialogs) \ {Errno}
      BY <2>1, <2>5, AtCallback
      DEF Then, Goes, Fits, Unentertained, KeptOffline, AboutAll, Reboots, Waiting, Errno
    <3> QED
      BY <1>1, <2>1, <2>2, <2>5, <3>1, NextStep DEF Then, Goes
  <2>6. CASE InstallNext(p, [c EXCEPT !.ok = @ + 1], ent)
    <3> DEFINE cc == [c EXCEPT !.ok = @ + 1]
    <3>1. cc \in Closures /\ cc.entertaining /\ cc.list = c.list /\ cc.saved = c.saved
      BY <2>3 DEF Closures
    <3>2. Restored(cc) = HomeMode
      BY <2>3, <3>1 DEF Restored
    <3> HIDE DEF cc
    <3>3. InstallNext(p, cc, ent)
      BY <2>6 DEF cc
    <3> QED
      BY <1>1, <2>1, <2>2, <2>3, <3>1, <3>2, <3>3, InstallNextStep
  <2>7. CASE AbortCur(p, c)
    BY <2>1, <2>2, <2>7, AbortHere
  <2> QED
    BY <1>4, <2>4, <2>5, <2>6, <2>7 DEF InstallCurReply
<1>5. CASE AbortResponse
  <2> DEFINE p == "ip_abort_response"
             cc == [c EXCEPT !.entertaining = TRUE]
  <2>1. Called(p) /\ p # Errno /\ RestOK'
    BY <1>5, RestStays DEF AbortResponse, Errno
  <2>2. c \in Closures /\ ent.depth = 0 /\ OnlyLastReboots(c.list) /\ Restored(c) = HomeMode
    BY <2>1, AtCallback, FlowAssumption DEF Fits, Unentertained, Restored, Modes
  <2>3. CASE End(p, c)
    BY <2>1, <2>3, EndHere
  <2>4. CASE InstallNext(p, [c EXCEPT !.entertaining = TRUE], StartEnt(ent))
    <3>1. cc \in Closures /\ cc.entertaining /\ cc.list = c.list /\ cc.saved = c.saved
      BY <2>2 DEF Closures
    <3>2. Restored(cc) = HomeMode
      BY <2>2, <3>1 DEF Restored
    <3> HIDE DEF cc
    <3>3. InstallNext(p, cc, StartEnt(ent))
      BY <2>4 DEF cc
    <3>4. StartEnt(ent) \in Ents /\ StartEnt(ent).depth = 1
      BY <1>1, <2>2, StartEntType
    <3> QED
      BY <2>1, <2>2, <3>1, <3>2, <3>3, <3>4, InstallNextStep
  <2> QED
    BY <1>5, <2>3, <2>4 DEF AbortResponse
<1>6. CASE NoteResponse
  BY <1>6, EndHere, RestStays DEF NoteResponse
<1> QED
  BY <1>2, <1>3, <1>4, <1>5, <1>6

LEMMA RebootStep ==
  ASSUME FlowInv, RebootDelayed \/ RebootSteps
  PROVE  FlowInv'
<1>0. RestOK'
  BY RestStays DEF RebootDelayed, RebootSteps
<1>1. CASE RebootDelayed
  <2> DEFINE p == "ip_reboot_delayed"
  <2>1. Called(p) /\ p \notin Unentertained \cup {"ip_end", Errno} /\ p # Errno
    BY <1>1 DEF RebootDelayed, Unentertained, Errno
  <2>2. c \in Closures /\ c.entertaining /\ ent.depth = 1 /\ OnlyLastReboots(c.list)
        /\ Restored(c) = HomeMode /\ ent \in Ents /\ device \in Devices
    BY <2>1, Here, TypesOfState
  <2>3. c' \in Closures /\ c'.entertaining /\ c'.saved = "unknown" /\ c'.list = c.list
    BY <1>1, <2>2 DEF RebootDelayed, Closures
  <2>4. device' \in Devices /\ device'.mode = HomeMode /\ ent' = ent
        /\ at' = (at \ {p}) \cup {"ip_autoremove_reply"}
    BY <1>1, <2>2, FlowAssumption DEF RebootDelayed, Devices
  <2>5. Fits("ip_autoremove_reply", c', ent', device')
    BY <2>2, <2>3, <2>4 DEF Fits, Unentertained, AboutAll, Reboots
  <2>6. "ip_autoremove_reply" \in (Waiting \cup Dialogs) \ {Errno}
    BY DEF Waiting, Errno
  <2> QED
    BY <1>0, <2>1, <2>2, <2>4, <2>5, <2>6, NextStep
<1>2. CASE RebootSteps
  <2>1. CASE Called("ip_reboot_reply") /\ End("ip_reboot_reply", c)
    BY <1>0, <2>1, EndHere
  <2>2. ASSUME NEW p \in {"ip_autoremove_reply", "ip_reboot_now"},
               NEW q \in {"ip_reboot_now", "ip_reboot_reply"}, Called(p), Then(p, q, c)
        PROVE  FlowInv'
    <3>1. p # Errno /\ q \in (Waiting \cup Dialogs) \ {Errno}
      BY <2>2 DEF Waiting, Errno
    <3>2. Fits(q, c', ent', device')
      BY <2>2, <3>1, AtCallback
      DEF Then, Goes, Fits, Unentertained, KeptOffline, AboutAll, Reboots
    <3> QED
      BY <1>0, <2>2, <3>1, <3>2, NextStep, TypesOfState DEF Then, Goes
  <2> QED
    BY <1>2, <2>1, <2>2 DEF RebootSteps
<1> QED
  BY <1>1, <1>2

LEMMA NetworkStep ==
  ASSUME FlowInv, NEW success \in BOOLEAN, NEW e \in Ents, e.depth = ent.depth,
         NetworkCont(success, e), RestOK'
  PROVE  FlowInv'
<1>1. CASE /\ Called("ip_ensure_network_reply")
           /\ IF success THEN CertLoop("ip_ensure_network_reply", 1, e)
                         ELSE EndIn("ip_ensure_network_reply", c, e)
  <2>1. "ip_ensure_network_reply" \notin Unentertained \cup {"ip_end", Errno}
    BY DEF Unentertained, Errno
  <2> QED
    BY <1>1, <2>1, Here, CertStep, EndStep
<1>2. CASE /\ Called("ip_download_cur_retry")
           /\ IF success THEN DownloadCur("ip_download_cur_retry", c, e)
                         ELSE EndIn("ip_download_cur_retry", c, e)
  <2> DEFINE p == "ip_download_cur_retry"
  <2>1. p \in OnePackage
    BY OnePackageCallbacks
  <2>2. c \in Closures /\ ent.depth = 1
    BY <1>2, <2>1, Here DEF OnePackage
  <2>3. c = [c EXCEPT !.upgrades = c.upgrades] /\ c.upgrades \in Nat
    BY <2>2 DEF Closures
  <2>4. Called(p) /\ (DownloadCur(p, [c EXCEPT !.upgrades = c.upgrades], e) \/ EndIn(p, c, e))
    BY <1>2, <2>3
  <2> HIDE DEF p
  <2> QED
    BY <2>1, <2>2, <2>3, <2>4, DownloadStep, EndStep DEF OnePackage
<1>3. CASE ent' = e /\ UNCHANGED <<at, c, device>>
  BY <1>3 DEF FlowInv, TypeOK, RestOK, Ents, Fits, Running
<1> QED
  BY <1>1, <1>2, <1>3 DEF NetworkCont

LEMMA EventStep ==
  ASSUME FlowInv,
         \/ \E i \in Iaps : IapConnected(i) \/ IapDisconnected(i)
         \/ EnsureNetworkAnswers
         \/ CancelEntertainment
  PROVE  FlowInv'
<1>1. ent \in Ents /\ BreakEnt(ent) \in Ents /\ BreakEnt(ent).depth = ent.depth
  BY TypesOfState DEF BreakEnt, Ents
<1>2. ASSUME NEW i \in Iaps, IapConnected(i)
      PROVE  FlowInv'
  <2>1. RestOK'
    BY <1>2, TypesOfState DEF IapConnected, RestOK
  <2> QED
    BY <1>1, <1>2, <2>1, NetworkStep DEF IapConnected
<1>3. ASSUME NEW i \in Iaps, IapDisconnected(i)
      PROVE  FlowInv'
  <2>1. RestOK'
    BY <1>3, TypesOfState DEF IapDisconnected, RestOK
  <2> QED
    BY <1>1, <1>3, <2>1, NetworkStep DEF IapDisconnected
<1>4. CASE EnsureNetworkAnswers
  BY <1>1, <1>4, RestStays, NetworkStep DEF EnsureNetworkAnswers
<1>5. CASE CancelEntertainment
  <2>1. ent' \in Ents /\ ent'.depth = ent.depth /\ RestOK'
    BY <1>1, <1>5, RestStays DEF CancelEntertainment, Ents
  <2>2. UNCHANGED <<at, c, device>>
    BY <1>5 DEF CancelEntertainment
  <2> QED
    BY <2>1, <2>2 DEF FlowInv, TypeOK, RestOK, Ents, Fits, Running
<1> QED
  BY <1>2, <1>3, <1>4, <1>5

-----------------------------------------------------------------------------
(* The theorems *)

LEMMA InitInv == Init => FlowInv
<1> SUFFICES ASSUME Init PROVE FlowInv
  OBVIOUS
<1>1. Quiet \in Ents /\ Quiet.depth = 0
  BY DEF Quiet, Ents
<1>2. Normal \in Devices
  BY FlowAssumption DEF Normal, Devices
<1>3. at \subseteq Waiting \cup Dialogs /\ iap \in Iaps \cup {"none"}
      /\ failures \in 0 .. 3 /\ flows \in 0 .. MaxFlows
  BY FlowAssumption DEF Init
<1>4. silent \in BOOLEAN
  BY DEF Init
<1>5. c = NoClos /\ ent = Quiet /\ device = Normal
  BY DEF Init
<1> QED
  BY <1>1, <1>2, <1>3, <1>4, <1>5 DEF FlowInv, TypeOK, Ents, Devices, Running, Init

LEMMA NextInv == FlowInv /\ [Next]_vars => FlowInv'
<1>1. FlowInv /\ UNCHANGED vars => FlowInv'
  BY DEF FlowInv, TypeOK, vars, Fits, Running
<1>2. FlowInv /\ Answers => FlowInv'
  BY InstallWithInfoStep, ChecksStep, PreparationStep, DownloadReplyStep, InstallCurStep,
     RebootStep, EventStep DEF Answers
<1>3. FlowInv /\ Responses => FlowInv'
  BY SelectPackageStep, ChecksStep, PreparationStep, DownloadReplyStep, InstallCurStep
  DEF Responses
<1> QED
  BY <1>1, <1>2, <1>3, InstallPackagesStep, EventStep DEF Next

\* A flow is at one callback, which fits its closure (ip_* of operations.cc),
\* and leaves nothing behind.
THEOREM FlowInvariant == Spec => []FlowInv
BY InitInv, NextInv, PTL DEF Spec

\* Exactly one callback of a running flow is outstanding.
THEOREM FlowIsNeverLost == Spec => []OneContinuation
<1>1. FlowInv => OneContinuation
  BY DEF FlowInv, OneContinuation
<1> QED
  BY <1>1, FlowInvariant, PTL

\* ip_end is reached with the progress bar paired and the device as it was.
THEOREM FlowEndsClean == Spec => []EndsClean
<1>1. FlowInv => EndsClean
  BY NoClosIsNone DEF FlowInv, EndsClean, Fits
<1> QED
  BY <1>1, FlowInvariant, PTL

\* No package of the list comes after one that reboots the device.
THEOREM FlowRebootsLast == Spec => []RebootsLast
<1>1. FlowInv => RebootsLast
  <2> SUFFICES ASSUME FlowInv, NEW p \in at, p \in Reboots, c # NoClos
               PROVE  c.cur = Len(c.list)
    BY DEF RebootsLast, Reboots
  <2>1. p # Errno /\ p # "ip_install_with_info" /\ p \notin AboutAll
    BY DEF Reboots, Errno, AboutAll
  <2>2. Fits(p, c, ent, device)
    BY <2>1 DEF FlowInv, Reboots, Errno
  <2> QED
    BY <2>1, <2>2 DEF Fits, OnlyLastReboots, Kind
<1> QED
  BY <1>1, FlowInvariant, PTL
=============================================================================
