----------------------------- MODULE PackageCache -----------------------------
(***************************************************************************)
(* What apt-worker does with the package cache of libapt-pkg: it marks     *)
(* packages to try out an installation or a removal, it carries out what   *)
(* is marked, and it keeps, beside the status of dpkg, which packages were *)
(* installed automatically and from which domain of sources each one came. *)
(* The requests come from the flows of operations.cc and from the          *)
(* background retrieval of main.cc; the backend takes them one at a time,  *)
(* in order (AptWorkerLink).  How an operation marks packages is in        *)
(* CacheMarks.  Before each request it reads which domains are configured, *)
(* if that has changed; a domain is then known by its place among them.    *)
(***************************************************************************)
EXTENDS CacheMarks, Sequences, SequencesExt

CONSTANTS
  Rebooting,        \* package_needs_reboot
  Trust,            \* [names of domains -> trust levels]
  Configs,          \* the domains that may be configured: sequences of names
  Sources,          \* [Packages -> sequences of names], where the available version is
  Garbled,          \* the trust levels that may be read outside the array of domains
  MaxEvents         \* bound: what the user does, changes of the domains, and failures

Domains == DOMAIN Trust

\* The numbers of domains, which are one more than those in the code: DOMAIN_INVALID,
\* DOMAIN_UNSIGNED, DOMAIN_SIGNED, and those that are configured.
Invalid  == 0
Unsigned == 1
Signed   == 2
Numbers  == {Invalid} \cup UNION {DOMAIN c : c \in Configs}

ASSUME PackageCacheAssumption ==
  /\ Rebooting \subseteq Packages
  /\ Trust \in [Domains -> Nat] /\ Trust["unsigned"] = 0 /\ "" \notin Domains
  /\ \A c \in Configs : /\ c \in Seq(Domains) /\ IsInjective(c)
                        /\ Len(c) >= Signed /\ c[Unsigned] = "unsigned" /\ c[Signed] = "signed"
  /\ Sources \in [Packages -> Seq(Domains)] /\ Garbled \subseteq Nat /\ MaxEvents \in Nat

\* What is marked for installation is related, and has a newer version.
Fits(now, m) ==
  m \in Marks /\ \A p \in Installed(m) : p \in m.related /\ Cand(now, p) # now.have[p]

VARIABLES
  have,       \* dpkg: the version installed
  bad,        \* dpkg: unpacked, not configured
  autoFile,   \* the file autoinst
  domFile,    \* the files domain.*: what each has
  open,       \* the cache is there
  marks,      \* what is marked in it
  autoinst,   \* extra_info: autoinst
  cur,        \* extra_info: cur_domain, a number
  memo,       \* current_cache_package, current_cache_is_install
  domains,    \* the array of that name, of what is configured
  requests,   \* what the backend has been asked
  flow,       \* the interaction flow, its package, and whether that was checked (with
              \* the domains as they are)
  agreed,     \* packages from another domain that the user wants anyway
  lost,       \* packages whose domain was overwritten though they are kept
  unasked,    \* those whose domain was overwritten by a download without a check
  renumbered, \* those whose number stands for another domain than when it was read
  disturbed,  \* an autoremove was given up, with its marks in the cache
  events

disk    == <<have, bad, autoFile, domFile>>
cache   == <<open, marks, autoinst, cur, memo>>
history == <<lost, unasked, renumbered, disturbed, agreed>>
vars    == <<disk, cache, domains, requests, flow, history, events>>

-----------------------------------------------------------------------------
(* Trying an operation *)

\* The status that marks are about.
Now == [have |-> have, bad |-> bad, auto |-> autoinst]

NowBroken(p) == Broken(Now, Kept({}), p)

\* Mutant: the marks of the previous operation stay.
CacheStateKept(m, done, op) == IF done = op THEN m ELSE Marked(Now, m, op)

\* check_cache_state: the marks are reset only if an operation is recorded.
CacheState(m, done, op) ==
  IF done = op THEN m ELSE Marked(Now, IF done = NoOp THEN m ELSE Kept(autoinst), op)

-----------------------------------------------------------------------------
(* Domains *)

\* The trust level of a domain.
Level(i) == Trust[domains[i]]

\* Any number of an installed package is an index into the array, DOMAIN_INVALID and one
\* from a longer array, too: what may be read there.
Beyond == [{cur[p] : p \in {q \in Packages : have[q] # 0}} \ DOMAIN domains -> Garbled]
Read(beyond, i) == IF i \in DOMAIN domains THEN Level(i) ELSE beyond[i]

\* find_domain_by_tag: the sources of a domain that is not configured are signed.
Numbered(d) ==
  IF d \in Range(domains) THEN CHOOSE i \in DOMAIN domains : domains[i] = d ELSE Signed

\* Where the available version of p is.
Indices(p) == [i \in DOMAIN Sources[p] |-> Numbered(Sources[p][i])]

\* index_trust_level_for_package, after all indices that have the version, when c is
\* configured: the first of the best domains, unless that of an installed package
\* dominates it.
Accepted(indices, c, new, level) ==
  LET LevelOf(i) == Trust[c[indices[i]]]
      good == {i \in DOMAIN indices : indices[i] # Unsigned}
      best == Min({i \in good : \A j \in good : LevelOf(j) <= LevelOf(i)})
  IN IF good # {} /\ (new \/ LevelOf(best) >= level) THEN indices[best] ELSE Unsigned

\* reset_new_domains, and GetArchives for what is installed.
NewDomain(m, p, beyond) ==
  IF m.mode[p] = "install" THEN Accepted(Indices(p), domains, have[p] = 0, Read(beyond, cur[p]))
  ELSE Unsigned

\* collect_new_domains
Collected(m, beyond) ==
  [p \in Packages |-> IF p \in m.related THEN NewDomain(m, p, beyond) ELSE cur[p]]

\* encode_trust_summary: is p an upgrade from a domain that does not dominate?
Worse(m, p, beyond) == have[p] # 0 /\ Level(NewDomain(m, p, beyond)) < Read(beyond, cur[p])

\* Mutant: only packages of the user are looked at.
ViolationsOfUser(m, beyond) == {p \in Installed(m) \cap UserPackages : Worse(m, p, beyond)}

Violations(m, beyond) == {p \in Installed(m) : Worse(m, p, beyond)}

\* load_extra_info: the files of the configured domains are read, the last one last.
Loaded(files) ==
  LET In(p) == {i \in DOMAIN domains : p \in files[domains[i]]}
  IN [p \in Packages |-> IF In(p) = {} THEN Invalid ELSE Max(In(p))]

\* The domains on record.
Recorded == Loaded(domFile)

\* save_extra_info: only the files of the configured domains are written.
Saved(files, number) ==
  [d \in Domains |-> IF d \in Range(domains) THEN {p \in Packages : number[p] = Numbered(d)}
                    ELSE files[d]]

\* load_extra_info: an installed package of unknown domain gets the last one that
\* its version is available from, if that is better than unsigned.
Filled(number, got) ==
  LET Better(p) == {i \in DOMAIN Indices(p) : Level(Indices(p)[i]) > 0}
  IN [p \in Packages |->
        IF number[p] = Invalid /\ got[p] # 0 /\ got[p] = Available[p] /\ Better(p) # {}
        THEN Indices(p)[Max(Better(p))] ELSE number[p]]

\* Then the files are written again.
Rewritten(files, number) == IF number = Loaded(files) THEN files ELSE Saved(files, number)

-----------------------------------------------------------------------------
(* Requests *)

Ask(cmd, op) == <<[cmd |-> cmd, op |-> op]>>
Pending(cmds) == \E i \in DOMAIN requests : requests[i].cmd \in cmds
Answer(more) == requests' = Tail(requests) \o more
Is(cmd)      == requests # <<>> /\ Head(requests).cmd = cmd
Op           == Head(requests).op

Idle    == [step |-> "idle", package |-> "", from |-> {}, checked |-> FALSE]
Busy(p) == [Idle EXCEPT !.step = "busy", !.package = p]

Event == events < MaxEvents /\ events' = events + 1
NoEvent == UNCHANGED events

\* cache_init: what is in a new cache.  When it cannot be opened, its domains may have
\* been written or not.
NewCache(auto, files, got, opened) ==
  /\ open' = opened /\ autoinst' = auto /\ marks' = Kept(auto) /\ memo' = NoOp
  /\ cur' = Filled(Loaded(files), got) /\ renumbered' = {} /\ disturbed' = FALSE
  /\ domFile' \in {Rewritten(files, cur')} \cup IF opened THEN {} ELSE {files}

\* cache_init after a request: it may fail.
Reopened(auto, files, got) ==
  \/ NewCache(auto, files, got, TRUE) /\ NoEvent
  \/ NewCache(auto, files, got, FALSE) /\ Event

\* Does operation () return at once?
Nothing(m) == Deleted(m) = {} /\ Installed(m) = {} /\ bad = {}

\* The cache as it is when op has been tried.
Tried(op) == CacheState(marks, memo, op)

AnyBroken(m) == \E p \in Packages : Broken(Now, m, p) /\ (~NowBroken(p) \/ p \in m.related)

Init ==
  /\ have \in Start /\ bad = {}
  /\ autoFile \in SUBSET {p \in Packages \ UserPackages : have[p] # 0}
  /\ domains \in Configs
  /\ \E d \in {"certified", ""} :
       LET files == [n \in Domains |-> IF n = d THEN {p \in Packages : have[p] # 0} ELSE {}]
       IN cur = Filled(Loaded(files), have) /\ domFile = Rewritten(files, cur)
  /\ open = TRUE /\ autoinst = autoFile /\ marks = Kept(autoFile) /\ memo = NoOp
  /\ requests = <<>> /\ flow = Idle /\ lost = {} /\ unasked = {} /\ renumbered = {}
  /\ disturbed = FALSE /\ agreed = {}
  /\ events = 0

-----------------------------------------------------------------------------
(* What the frontend asks *)

\* In the views of packages to install and of updates; magic:sys is there in the
\* red-pill mode.
Shown(p) == p \in UserPackages /\ have[p] < Available[p]

\* gpiib_trigger, for a package of a view; not while the lists are retrieved.
Background(p) ==
  /\ Shown(p) /\ ~Pending({"info", "list", "relist"}) /\ flow.step # "gone"
  /\ requests' = requests \o Ask("info", ToInstall(p))
  /\ UNCHANGED <<disk, cache, domains, flow, history, events>>

\* install_packages, for one package or for the system.
StartInstall(p) ==
  /\ Event /\ flow = Idle
  /\ p = Sys \/ Shown(p)
  /\ flow' = Busy(p) /\ requests' = requests \o Ask("check", ToInstall(p))
  /\ UNCHANGED <<disk, cache, domains, history>>

\* uninstall_package, after its question has been answered.
StartUninstall(p) ==
  /\ Event /\ flow = Idle /\ have[p] # 0 /\ p \in UserPackages
  /\ flow' = Busy(p) /\ requests' = requests \o Ask("rmcheck", ToRemove(p))
  /\ UNCHANGED <<disk, cache, domains, history>>

\* The details in the question; both kinds of summaries are a simulation.
LookAtDetails(op) ==
  /\ flow.step = "confirm" /\ flow.package = op.package /\ op.install /\ ~Pending({"details"})
  /\ requests' = requests \o Ask("details", op)
  /\ UNCHANGED <<disk, cache, domains, flow, history, events>>

\* ip_legalese_response
Confirm(yes) ==
  /\ flow.step = "confirm" /\ ~Pending({"details"})
  /\ IF yes
     THEN /\ agreed' = agreed \cup flow.from /\ flow' = [flow EXCEPT !.step = "busy", !.from = {}]
          /\ requests' = requests \o Ask("flowinfo", ToInstall(flow.package))
     ELSE flow' = Idle /\ UNCHANGED <<agreed, requests>>
  /\ UNCHANGED <<disk, cache, domains, lost, unasked, renumbered, disturbed, events>>

-----------------------------------------------------------------------------
(* What the backend does, and what the frontend makes of the answer *)

\* handle_request, when the configuration of the domains has changed.
RereadDomains ==
  LET Name(i)    == IF i \in DOMAIN domains THEN domains[i] ELSE ""
      Meaning(p) == <<Name(cur[p]), Name(Recorded[p])>>
  IN /\ Event /\ requests # <<>>
     /\ UNCHANGED <<disk, cache, requests, lost, unasked, disturbed, agreed>>
     /\ domains' \in Configs \ {domains}
     /\ flow' = [flow EXCEPT !.checked = FALSE]
     /\ renumbered' =
          renumbered \cup {p \in Packages : cur[p] \notin DOMAIN domains' \/ Meaning(p)' # Meaning(p)}

\* ensure_cache, before a request.
EnsureCache ==
  /\ ~open /\ requests # <<>> /\ Head(requests).cmd \notin {"autoremove", "details"}
  /\ NewCache(autoFile, domFile, have, TRUE)
  /\ UNCHANGED <<have, bad, autoFile, domains, requests, flow, lost, unasked, agreed, events>>

\* It fails; some flows go on all the same.  A request to install or to remove makes
\* another attempt at its end.
Refused ==
  LET cmd == Head(requests).cmd
      next == CASE cmd = "rmcheck" -> Ask("flowinfo", Op)
                [] cmd = "relist"  -> Ask("autoremove", NoOp)
                [] cmd = "remove"  -> Ask("list", NoOp)
                [] cmd = "install" -> Ask(IF Op.package \in Rebooting THEN "relist" ELSE "list", NoOp)
                [] OTHER           -> <<>>
  IN /\ ~open /\ requests # <<>> /\ cmd \notin {"autoremove", "details"}
     /\ NoEvent /\ Answer(next)
     /\ \E opened \in BOOLEAN : /\ opened => cmd \in {"install", "remove"}
                                /\ NewCache(autoFile, domFile, have, opened)
     /\ flow' = CASE cmd = "check" -> [flow EXCEPT !.step = "confirm"]
                  [] cmd \in {"flowinfo", "download", "remove"} -> Idle
                  [] cmd = "install" /\ Op.package \notin Rebooting -> Idle
                  [] OTHER -> flow
     /\ UNCHANGED <<have, bad, autoFile, domains, lost, unasked, agreed>>

Try(op) ==
  /\ open /\ marks' = Tried(op) /\ memo' = op
  /\ UNCHANGED <<open, autoinst, cur>>

\* cmd_get_package_info for the background, cmd_get_package_details
Simulate ==
  /\ Is("info") \/ Is("details")
  /\ Try(Op) /\ Answer(<<>>)
  /\ UNCHANGED <<disk, domains, flow, history, events>>

\* The details of a package are looked for in the cache that there is.
NoDetails ==
  /\ Is("details") /\ ~open /\ Op.package # Sys
  /\ Answer(<<>>)
  /\ UNCHANGED <<disk, cache, domains, flow, history, events>>

\* cmd_remove_check; the checkrm scripts let the removal go on, or not.
RemoveCheck(allowed) ==
  /\ Is("rmcheck") /\ Try(Op)
  /\ Answer(IF allowed THEN Ask("flowinfo", Op) ELSE <<>>)
  /\ flow' = IF allowed THEN flow ELSE Idle
  /\ UNCHANGED <<disk, domains, history, events>>

\* cmd_get_package_info for a flow: ip_with_new_info, up_remove_with_info.  The
\* information on a removal is simulated after that on an installation.
FlowInfo ==
  LET installed == CacheState(marks, memo, ToInstall(Op.package))
      m == IF Op.install THEN installed ELSE CacheState(installed, ToInstall(Op.package), Op)
  IN /\ Is("flowinfo") /\ open
     /\ marks' = m /\ memo' = Op /\ UNCHANGED <<open, autoinst, cur>>
     /\ IF AnyBroken(m) THEN Answer(<<>>) /\ flow' = Idle
        ELSE Answer(Ask(IF Op.install THEN "download" ELSE "remove", Op)) /\ UNCHANGED flow
     /\ UNCHANGED <<disk, domains, history, events>>

\* cmd_install_check, ip_check_cert_reply: "We ignore the rest of the reply, including
\* the success indication".  A check that fails has reported no violation.
InstallCheck(fails) ==
  /\ Is("check") /\ Try(Op) /\ Answer(<<>>)
  /\ \E beyond \in Beyond :
       flow' = [flow EXCEPT !.step = "confirm", !.checked = ~fails,
                 !.from = IF fails \/ Nothing(Tried(Op)) THEN {} ELSE Violations(Tried(Op), beyond)]
  /\ IF fails THEN Event /\ ~Nothing(Tried(Op)) ELSE NoEvent
  /\ UNCHANGED <<disk, domains, history>>

\* collect_new_domains comes before the download, whether violations were found or not.
Collect(m, beyond) ==
  /\ cur' = Collected(m, beyond)
  /\ lost' = lost \cup (m.related \ Installed(m))
  /\ unasked' = unasked \cup IF flow.checked THEN {} ELSE Violations(m, beyond)

\* cmd_download_package; a failed download may be tried again.
Download(fails) ==
  /\ Is("download") /\ open /\ marks' = Tried(Op) /\ memo' = Op /\ UNCHANGED <<open, autoinst>>
  /\ IF Nothing(Tried(Op)) THEN UNCHANGED <<cur, lost, unasked>>
     ELSE \E beyond \in Beyond : Collect(Tried(Op), beyond)
  /\ IF fails
     THEN Event /\ \/ Answer(<<>>) /\ flow' = Idle
                   \/ Answer(Ask("download", Op)) /\ UNCHANGED flow
     ELSE NoEvent /\ Answer(Ask("install", Op)) /\ UNCHANGED flow
  /\ UNCHANGED <<disk, domains, renumbered, disturbed, agreed>>

\* DoInstall and save_extra_info: dpkg does some of what m has marked, and packages
\* are left unconfigured.
DoInstall(m, done, unconfigured) ==
  /\ have' = [p \in Packages |-> IF p \in done THEN InstVer(Now, m, p) ELSE have[p]]
  /\ bad' = unconfigured /\ autoFile' = m.auto
  /\ lost' = lost \cup (m.related \ Installed(m))

\* operation () without a check, and the cache_init that follows.  It may fail
\* before it gets to dpkg, and dpkg may fail.
Operate(m, success) ==
  LET changed == {p \in Packages : InstVer(Now, m, p) # have[p]}
      New(beyond) == Saved(domFile, Collected(m, beyond))
  IN \/ /\ success = Nothing(m) /\ UNCHANGED <<have, bad, autoFile, lost>>
        /\ Reopened(autoFile, domFile, have)
     \/ /\ success /\ ~Nothing(m) /\ DoInstall(m, changed, bad \ (changed \cup m.related))
        /\ \E beyond \in Beyond : Reopened(m.auto, New(beyond), have')
     \/ /\ ~success /\ ~Nothing(m) /\ Event
        /\ \E done \in SUBSET changed :
             \E half \in {{}} \cup {{p} : p \in done \cap Installed(m)} :
               DoInstall(m, done, (bad \ done) \cup half)
        /\ \E beyond \in Beyond : NewCache(m.auto, New(beyond), have', TRUE)

\* cmd_install_package, ip_install_cur_reply
InstallPackage(success) ==
  /\ Is("install") /\ open /\ Operate(Tried(Op), success)
  /\ IF Op.package \in Rebooting
     THEN Answer(Ask("relist", NoOp)) /\ UNCHANGED flow
     ELSE Answer(Ask("list", NoOp)) /\ flow' = Idle
  /\ UNCHANGED <<domains, unasked, agreed>>

\* cmd_remove_package, up_remove_reply
RemovePackage(success) ==
  /\ Is("remove") /\ open /\ Operate(Tried(Op), success)
  /\ IF success
     THEN Answer(Ask("list", NoOp) \o Ask("autoremove", NoOp)) /\ UNCHANGED flow
     ELSE Answer(Ask("list", NoOp)) /\ flow' = Idle
  /\ UNCHANGED <<domains, unasked, agreed>>

\* cmd_get_package_list, get_package_list_reply: the view is drawn again, which
\* may start the background retrieval, before ip_reboot_delayed.
GetPackageList ==
  /\ Is("list") \/ Is("relist")
  /\ open
  /\ LET next == IF Is("relist") THEN Ask("autoremove", NoOp) ELSE <<>>
     IN \/ Answer(next)
        \/ /\ ~Pending({"info"})
           /\ \E p \in Packages : Shown(p) /\ Answer(Ask("info", ToInstall(p)) \o next)
  /\ UNCHANGED <<disk, cache, domains, flow, history, events>>

\* cmd_autoremove: garbage is marked, whatever else is, and all of it is carried out,
\* unless something is broken.
Autoremove(success) ==
  LET m == Doomed(marks, Garbage(have, autoFile))
  IN /\ Is("autoremove") /\ open
     /\ IF \E p \in Packages : Broken(Now, m, p)
        THEN /\ ~success /\ marks' = m /\ disturbed' = TRUE
             /\ UNCHANGED <<disk, open, autoinst, cur, memo, lost, renumbered, events>>
        ELSE Operate(m, success)
     /\ Answer(<<>>) /\ flow' = Idle
     /\ UNCHANGED <<domains, unasked, agreed>>

\* There is no cache to look into: the backend crashes.
Crash ==
  /\ ~open
  /\ Is("autoremove") \/ (Is("details") /\ Op.package = Sys)
  /\ requests' = <<>> /\ flow' = [Idle EXCEPT !.step = "gone"]
  /\ UNCHANGED <<disk, cache, domains, history, events>>

Next ==
  \/ \E p \in Packages : StartUninstall(p) \/ Background(p)
  \/ \E p \in Packages \cup {Sys} : StartInstall(p) \/ LookAtDetails(ToInstall(p))
  \/ \E yes \in BOOLEAN : Confirm(yes) \/ RemoveCheck(yes) \/ Download(yes) \/ InstallCheck(yes)
  \/ \E success \in BOOLEAN : InstallPackage(success) \/ RemovePackage(success) \/ Autoremove(success)
  \/ RereadDomains \/ EnsureCache \/ Refused \/ Simulate \/ NoDetails \/ FlowInfo
  \/ GetPackageList \/ Crash

Spec == Init /\ [][Next]_vars

-----------------------------------------------------------------------------
TypeOK ==
  /\ have \in [Packages -> Nat] /\ bad \subseteq Packages /\ autoFile \subseteq Packages
  /\ domFile \in [Domains -> SUBSET Packages] /\ cur \in [Packages -> Numbers] /\ domains \in Configs
  /\ open \in BOOLEAN /\ autoinst \subseteq Packages /\ memo \in Ops \cup {NoOp}
  /\ marks \in Marks

\* What is marked is what the recorded operation marks in a cache that was reset,
\* whatever was tried before.
NoResidue ==
  ~disturbed => marks = IF memo = NoOp THEN Kept(autoinst) ELSE Marked(Now, Kept(autoinst), memo)

\* The flags the cache is reset to are those that were saved.
AutoAsSaved == open => autoinst = autoFile

CacheInv == TypeOK /\ NoResidue /\ AutoAsSaved

\* "... put back the first softly removed target": nothing is to be broken by a
\* removal that nobody has asked for (fix_soft_packages).
NothingBrokenSoftly ==
  ~disturbed =>
    \A p \in Packages : InstVer(Now, marks, p) # 0 =>
      \A d \in Needs(p, InstVer(Now, marks, p)) : ~(d[1] \in marks.soft /\ d[1] \in Deleted(marks))

\* The packages of the user that a step removes.
Dropped == {p \in UserPackages : have[p] # 0 /\ have'[p] = 0}

\* "Installing a package will never automatically remove other packages"
\* (mark_for_install_1), at least not those of the user, and what is removed takes only
\* "non-user, auto-installed dependencies" along (mark_for_remove_1), whatever was tried
\* before; but an autoremove that was given up leaves its marks to the next operation.
NoSurprises ==
  [][~disturbed =>
       /\ Is("install") => Dropped = {}
       /\ Is("remove") => \A p \in Packages : have'[p] # have[p] =>
            have'[p] = 0 /\ p \in {Op.package} \cup (autoinst \ UserPackages)]_vars

\* Not even then.
UserPackagesAlwaysStay == [][Is("install") => Dropped = {}]_vars

\* The packages of known domain that a step takes to another version from a worse one.
Lowered ==
  {p \in Packages : /\ have[p] # 0 /\ have'[p] \notin {0, have[p]} /\ Recorded[p] # Invalid
                    /\ Level(Recorded[p])' < Level(Recorded[p])}

\* "When upgrading a package, the update must come from the same domain as the
\* installed package, or from one that dominates it", unless the user agrees, the
\* domain on record has been overwritten, the check has failed or was about the marks
\* that an autoremove has left, or other domains have been configured since the cache
\* was opened or since the check.
NoSilentLowering ==
  [][Is("install") /\ flow.checked /\ ~disturbed =>
       Lowered \subseteq agreed \cup lost \cup unasked \cup renumbered]_vars

\* The domains that are compared are those on record.
AskedOfTheRecord ==
  [][Is("install") /\ flow.checked /\ ~disturbed =>
       Lowered \subseteq agreed \cup lost \cup unasked]_vars

\* The user is asked in any case, or at least if the check has not failed.
AlwaysAsked == [][Is("install") => Lowered \subseteq agreed \cup lost \cup renumbered]_vars
AskedIfChecked ==
  [][Is("install") /\ flow.checked =>
       Lowered \subseteq agreed \cup lost \cup unasked \cup renumbered]_vars

\* The information on a package is simulated: removing what is not needed any more
\* removes that, and nothing else happens.
SimulationsStaySo ==
  [][Is("autoremove") => \A p \in Packages : have'[p] = have[p] \/ p \in Garbage(have, autoFile)]_vars

\* A package keeps its domain as long as its version stays, and the domains do.
DomainsStay ==
  [][\A p \in Packages \ renumbered :
       UNCHANGED domains /\ have'[p] = have[p] /\ Recorded[p] # Invalid => Recorded'[p] = Recorded[p]]_vars
=============================================================================
