# Formal models of the Hildon Application Manager

TLA+ specifications, TLC model-checking runs and TLAPS proofs for the
application manager of Maemo: the GTK frontend (`src/`), its root backend
`apt-worker`, and the update notifiers (`statusbar/`).  Paths below are
relative to the repository.

## 1. Inventory

### Processes

* **Frontend** (`src/*.cc`): one GLib main loop.  All its concurrency is
  callbacks: dialogs, D-Bus messages, timeouts, idle functions, answers of the
  backend.  A chain of callbacks that belongs to one user action is called a
  *flow* (operations.cc: `ip_*`, `up_*`, `if_*`; repo.cc; main.cc: `rpcwu_*`).
* **Backend** (`src/apt-worker.cc`): a sequential process run by sudo.  It
  blocks on its request fifo, executes one command at a time, and may be
  killed between any two system calls.  The same binary is also run by itself:
  `check-for-updates` (by the notifier, with a *weak* lock) and `rescue` (at
  boot).
* **Notifiers** (`statusbar/`): plugins of the status menu, driven by alarms,
  file monitors, D-Bus and the display state.

### Components

| component | state | operations | interacts with | hard behaviour | correctness |
|---|---|---|---|---|---|
| Backend link (`apt-worker-client.cc`, dispatcher of `apt-worker.cc`) | queue of calls, active call, sequence numbers, three fifos, startup flags | call, answer, status, cancel, failure, exit | every flow | death of either process at any point, failure noticed twice, callbacks that call again, cancel bytes that outlive their operation | each call answered at most once, with its own answer, in order; a cancel only hits its own request; no backend stays behind |
| Backend lock (`get_apt_worker_lock`) | lock file, its content, fcntl lock | try, wait, SIGTERM, SIGKILL and unlink | notifier's backend against the frontend's | content written after the lock is taken; lock file unlinked while held | one holder, the right process killed |
| Package lists (`update_package_cache`) | `lists`, `lists.new`, `lists.old` | duplicate, download, clean, swap, clean up | lock (SIGTERM), cache | a kill between two renames | the lists stay complete |
| Operation journal (`save_operation_record`, `do_rescue`) | record on disk, package state | save, install, erase, rescue at boot | reboot flow | crash at any point, rescue itself interrupted | an interrupted system update is finished at the next boot |
| Interaction flows and dialogs (`util.cc`) | dialog stack, task queue, idle continuation | start/end flow, push/pop, when idle | D-Bus, main window | re-entrance, stale timers | one flow at a time, nothing forgotten |
| Entertainment (`util.cc`) | depth, dialog, cancel callback | start, stop, cancel | link, flows | nested flows | dialog exists iff depth > 0 |
| Network and connection (`util.cc: ensure_network`) | continuation, IAP state | ensure, iap callback | ConIC, flows | events out of order | continuation called exactly once |
| Package listing (`main.cc`, `dbus.cc`) | package lists, state, waiting D-Bus calls | get list, info in the background, init | link, flows | overlapping requests, freed lists | one list, waiting calls answered |
| Installation flow (`operations.cc: ip_*`) | closure, outstanding callbacks, retry counter, device mode, prestarted applications | some fifty callbacks | link, dialogs, entertainment, network | failure, Stop and loss of the connection at every stage | the flow ends exactly once, on every path; progress bar, mode and prestarting are restored |
| Uninstallation and install-from-file flows (`operations.cc: up_*, if_*`, `util.cc: localize_file_and_keep_it_open`) | closure, continuation and target of the copy, queue of files | up_*, if_*, copy, queue | link, dialogs, entertainment, task queue | the next flow starts inside the end of the last one; the copy has no callback for failures | dialogs and progress bar balanced, nothing left behind |
| Cache marks and solver (`apt-worker.cc: mark_*`, `fix_soft_packages`, `operation`) | marks and soft flags of the cache, recorded operation, automatic flags | simulate, mark, fix, carry out, autoremove | every request of a flow and of the background retrieval | memoised operation, simulations beside real operations, failures | what is carried out is what was asked; no user package removed by an install |
| Domains and trust (`apt-worker.cc`) | configured domains, domain of each package, new domains | read the configuration, read, collect, compare, save | installation flow, configuration files | recorded before the download; the configuration changes while the cache is open | a package does not change to a less certain domain unseen |
| Catalogues (`repo.cc`, `confutils.cc`, `instr.cc`, configuration tool, `cmd_*_catalogues`) | catalogue files, sources.list, failed catalogues | get, set, merge, edit, refresh, add | link, flows, package scripts | three writers without a lock, partial writes, catalogues left out silently, errors merged | sources.list follows the catalogues, a refresh changes nothing that counts, failures shown where they belong |
| Update and notification notifiers (`statusbar/`) | alarm cookie, six files, icon, buttons, dialog, thread | check, download, blink, tap, answer | backend, alarmd, inotify, the Application Manager | events in any order, files half written, failing daemons | what is new is announced, the icon and its timeout stop |
| Instruction files (`instr.cc`) | parsed file | read, dispatch | install-file flow, catalogues | - | - |
| Wire codec and s-expressions (`apt-worker-proto.cc`, `xexp.c`) | buffers | encode, decode, read, write | link, files | truncated data | decode inverts encode |
| Logging, settings, details, search, menus, widgets, scripts | widgets, files | presentation | flows | - | - |

`PROJECT.json` lists the components with their files and the hazards of the
code, each at its line with the properties that are about it.

## 2. Modules and order

| order | module | extends / instantiates | models | state |
|---|---|---|---|---|
| 1 | `AptWorkerService` | | the promise of `call_apt_worker ()` (abstract) | done |
| 1 | `AptWorkerLink` | instantiates `AptWorkerService` | backend link | done |
| 1 | `AptWorkerLink_proofs` | `AptWorkerLink`, `TLAPS` | | done |
| 2 | `AptWorkerLock` | | backend lock | done |
| 3 | `PackageLists` | | update transaction | done |
| 4 | `OperationJournal` | | journal, rescue, banner | done |
| 4 | `Backend_proofs` | the three before, `TLAPS` | | done |
| 5 | `InstallFlow`, `_proofs` | | INSTALL_PACKAGES with entertainment, network, device mode | done |
| 6 | `InteractionFlow`, `_proofs` | | flows, dialog stack, task queue, when-idle continuation (`util.cc`), the D-Bus calls and the initial list they wait for (`dbus.cc`, `main.cc`) | done |
| 7 | `FileAndRemoveFlows` | | `uninstall_package`, `install_file`, the copy of a remote file and the queue of files | done |
| 8 | `PackageListing` | | the lists of packages, the views that show them, the background retrieval (`main.cc`) | done |
| 8 | `Frontend_proofs` | `FileAndRemoveFlows`, `PackageListing`, `TLAPS` | | done |
| 9 | `UpdateNotifier`, `MCUpdateNotifier`, `_proofs` | | both plugins of the status menu, their files, the alarm | done |
| 10 | `Catalogues`, `MCCatalogues`, `_proofs` | | catalogues, sources.list, their three writers | done |
| 11 | `DepCache` | | candidates, broken packages and garbage, as libapt-pkg has them | done |
| 11 | `CacheMarks` | `DepCache` | `mark_for_install_1`, `mark_for_remove_1`, `fix_soft_packages` | done |
| 11 | `PackageCache`, `_proofs` | `CacheMarks` | the requests, operations, domains and the autoremove of `apt-worker` | done |
| 11 | `MCPackageCache` | `PackageCache` | the packages and what they need, for two instances | done |

A module of proofs is about one module (`X`, `_proofs`), or about several that share
no variable; these have names of their own for what others would call `vars`,
`Init`, `Next` and `Spec` (`LockSpec`, `ListsSpec`, `JournalSpec`, `ListingSpec`).

The order is that of what depends on what: every flow relies on the link, the
link on one backend being there (the lock), and what a kill of the backend
leaves behind is the subject of the lists and of the journal.  The models do
not share variables.  They meet at these interfaces:

* `AptWorkerLock` and `PackageLists`: SIGTERM or SIGKILL of a weak worker is
  the action `Crash` of `PackageLists`.
* `AptWorkerLink` and `InstallFlow`: a flow has at most one call outstanding,
  and each callback that is told "NULL" by the link may end the flow; that a
  call is answered at most once, and in the end (`AtMostOnce`,
  `EveryCallCompleted`), is what `InstallFlow` assumes with `Answers`.
* `InstallFlow` and `OperationJournal`: `SaveOperationRecord` to
  `EraseOperationRecord` is what the backend does between
  `ip_install_cur_with_space_checked` and `ip_install_cur_reply`; `RebootNow`
  and `NoReboot` are the ends of the flow after `ip_reboot_delayed`.
* `InteractionFlow` and `InstallFlow`: `InstallFlow` is what one job of
  `InteractionFlow` does between its start and `OperationEnds`; there, its
  dialogs and its requests for the list are `JobPushes`, `JobPops` and
  `JobLists` in any order.
* `InteractionFlow` and `FileAndRemoveFlows`: the former assumes that an
  operation closes the dialogs it has opened, the latter shows it, but for one
  path; both have `task_queue`, the latter with what happens to a file that is
  started from within the end of another.
* `FileAndRemoveFlows` takes from `InstallFlow` (`EndsClean`) and `Catalogues`
  that what an instruction file starts leaves no dialog up.
* `InteractionFlow` and `PackageListing`: who asks for the list and who waits for
  it is in the former, what the list is and who points into it in the latter.
* `PackageCache` has the requests that `InstallFlow` and `FileAndRemoveFlows` make,
  and those of `PackageListing`, in the order of `AptWorkerLink`.
* `UpdateNotifier` runs the backend of `AptWorkerLock` with a weak lock; what
  it writes is `WriteAvailableUpdates`.
* `Catalogues`: what a refresh then downloads is the update of `PackageLists`.

## 3. What the modules say of the code

**AptWorkerLink.**  One action per handler of the main loop of the frontend
and per blocking step of the backend.  `pending`, `active`, `running`, `ready`
are the static variables of `apt-worker-client.cc`; `toPipe`, `fromPipe` and
`cancelPipe` are the fifos.  A call is an identity, a sequence number and a
kind (how often its handler polls the cancel fifo).  `handle_apt_worker ()`
handles one message per action; `maybe_send_one_worker_call ()` is part of
every action that calls it.  `wpc` is where the backend is: `spawned` (opening
fifos), `waiting` (`block_for_read`), `idle`, `read` (request read, cancel fifo
not yet drained), `busy`, `reinit`, `dead`.  A callback may make one further
call when it is answered, and any number when the backend is lost.  The cancel
bytes carry the call that was active when they were written, and responses the
call they were computed for; the code has neither, no guard looks at them, and
they are there for the properties.  The frontend exits when it likes
(`FrontendExit`), the backend dies when it likes (`WorkerDies`).

**AptWorkerService** is the abstract specification: a queue of calls of which
the oldest is answered with its own response, or all are given up.
`AptWorkerLink` implements it with `outstanding` = the active call followed by
the pending ones.

**AptWorkerLock.**  One action per system call of `try_lock ()` and
`get_apt_worker_lock ()`.  A file is an inode: `name` is the one the path
refers to, `owner` and `text` are its fcntl lock and its content.  A worker
that was signalled executes nothing more but may keep its lock for a while;
one in `Stubborn` for longer than a second.  `Wake` is the sleep of one second:
it is long enough for a process that is not stubborn to die, or to get from
`fcntl ()` to the end of `write ()`.

**PackageLists.**  A directory is a function from files to versions; unlinking
a tree, duplicating it and cleaning it are one step per file.  Each repository has
a Release file and a Packages file.  apt's fetcher is external: it asks for the
Release files of `listed` (sources.list, which is edited at any time), and behind
each of them for the Packages file; it fetches each file, or fails to, or the
operation is given up.  Behind a Release file that failed it may ask for the
Packages file or not.  `Clean` is `Fetcher.Clean ()` of lists.new (apt-worker.cc:4079):
what was not asked for goes, the Packages files of a repository whose Release file
was not fetched among it (the comment at 4176 is about these), and those of
repositories that are not in sources.list any more.  `base` is what the last swap
has put in place.

**OperationJournal.**  What is on disk (record, packages, UFILE_BOOT,
rescue-result) survives `PowerLoss`; everything else starts again at `Boot`.
dpkg is external: it touches a package, and returns.

**InstallFlow.**  `at` holds the names of the callbacks that are outstanding;
an action is the whole callback, down to the next call that returns to the
main loop.  Callbacks run in one call chain are one action: for instance
`AbortResponse` runs `ip_abort_response`, `ip_install_next`,
`ip_install_loop` and `ip_install_start` up to the next dialog or call.  A
note and a question with the same continuation share its name.  A list of
packages is a sequence of kinds (plain, rebooting, system update); what a
check of a package answers is a nondeterministic choice of the branch that is
taken.  `ent` is the entertainment of `util.cc`, of which the flow uses one
level; `NetworkCont` is the continuation kept by `ensure_network ()`, called
by `iap_callback ()`.  "abort" in `at` is a failed assertion of `pop_dialog ()`:
the program is gone.

**InteractionFlow.**  `ui` holds the static variables of `util.cc`: whether a
flow is active and over which window (`flow`), the length of `dialog_stack`
(`stack`), `task_queue` (`tasks`), `idle_cont` (`cont`), whether the idle timer
is armed (`timer`) and whether `time ()` says that the minute is over (`long`),
and `main_window_shown`.  Each function of `util.cc` is an operator that
returns what becomes of `ui`; an action applies those its handler calls.  `job`
is what the code keeps in the closure of the flow that runs: who started it
and how many dialogs it has up.  `lists.gets` are the outstanding calls of
`get_package_list_with_cont ()`, which the backend answers in order;
`lists.first` tells whether `pkg_list_state` is still unknown, and if not,
whether the initial list was the first one.  `waiters` is
`pending_for_initial_packages`; the loop of
`notice_initial_packages_available ()` is one step per continuation, during
which nothing else happens.  A call has a kind and a number of replies; calls whose
arguments are not those of the method ("bad_install", "bad_search", "bad_open") get
an error, and some of them a second reply.
Functions that may complete at once (`install_file ()` without a network, say)
complete in a later step here, which nothing in between can tell.

**FileAndRemoveFlows.**  `ui.at` is the one outstanding callback, `ui.stack` the
dialogs above the main window ("bar" is the progress bar), `ui.cont` and
`ui.local` tell whether `copy_cont` and `copy_local` are set.  Operators return
what becomes of `ui`; where the code goes on in one of several ways (a file is
opened, copied, an instruction file, ...) they return the set of these.
`EndInside` is `end_interaction_flow ()` called from within `copy_cont ()`, which
is reset only after it returns: the files of the queue that it starts are given
up as a reentry.  `EndFlow` is the same call from anywhere else.  A request to a
lost backend is answered with NULL in a later step, except inside `copy_cont ()`,
where it makes the difference.  `again` is about the copy's last report, which may
come a second time (util.cc:3389; "there seems to be no good way to really stop
copy_progress from being called", 3319): while another copy is going on it is taken
for a report of that one (`CopyProgress`), otherwise `LateProgress` finds
`copy_target` freed and `copy_cont` NULL.  The directory that stays when `chmod ()`
fails is left out.

**PackageListing.**  A list is not what is in it but whether there is something in
it; a pointer (`global_packages` of the window, `gpiib_next` of the background
retrieval) is the list it points into, or "freed"; the window keeps its pointer when
a view has no packages, as `make_global_package_list ()` returns at once.  `requests`
is what the backend has been asked, in order.  Whether a package still needs its
details is a nondeterministic choice, so the retrieval may end at any package.
`level` and `timers` are `updating_level` and the timeouts that will raise it.

**UpdateNotifier.**  One state machine for both plugins, which run in one main loop.
The six files are in `updates` and `notes`; `pending` is what inotify has to report.
A notification is a function from fields to texts, some of which may be missing: the
provider may publish what has no title, text or uri.  The code compares these three
(`Compared`) and no others.  `watching` tells of each plugin whether it can read
inotify: either may fail, at its start or later.  The Application Manager is there as
far as it touches the files: `HamShowsUpdates`, `HamCleansTapped`.  `alarm` has the
cookie of the plugin, the timer of its next attempt and the queue of the daemon, of
which each call may fail.  The thread that downloads notifications truncates the file
in one step and writes it in another.

**Catalogues.**  A catalogue has a place (uri, distribution and components), may
belong to a package, may be disabled, may have the filter of another distribution
(`foreign`) and may have failed.  `Listable` are the places that
`write_sources_list ()` writes, `Addable` those that `add_catalogues_cont_2 ()`
takes: the others have no uri, or are too long, and are passed over without a
word.  Reading the user's file leaves out foreign catalogues and references to
packages that are gone (`Read`), so the next write loses them.  `conf`, `sources` and
`failed` are files; `backend`, `flow` and `tool` are the three who read and write
them, each with the copy it works on and the step it is at.  `outdated` and
`past` are history: who works on a copy that somebody else has overtaken, what
was written without being disturbed, what failed in the last refresh.

**PackageCache.**  `marks` is what libapt-pkg's depcache has, with the soft flags
of `apt-worker`; `memo` is `current_cache_package`; `domFile` and `cur` are the
domains on disk and in memory.  `Marked` of `CacheMarks` is what `mark_for_install`,
`mark_for_remove` and `fix_soft_packages` compute for an operation: each function of
the code that calls itself is one call (`InstallOnce`, `RemoveOnce`, `RelateOnce`)
whose inner calls go to a function, and that function is given by the number of calls
that may still be nested (`Installing`, `Removing`, `Relating`).  The code counts only
those of `mark_for_install_1`, up to 100 (`MaxLevel`); for the others the number of
packages is enough, and likewise for the rounds of `fix_soft_packages` (`Fixing`).
That is proved (section 5), also for packages that need each other in a circle.
`Accepted` says in one expression what the loop of
`index_trust_level_for_package` comes to; `AcceptedAssumption` compares the two.

A domain is known by its place in the array `domains`, which is what the backend has
read of the configuration; the model counts from one, so that DOMAIN_INVALID (-1) is
0.  `RereadDomains` is the start of `handle_request ()`: other domains may be
configured (`Configs`), and the array is then another one, while the cache and its
`cur_domain` stay.  The files domain.* go by the names of domains, and only those of
the configured ones are read and written (`Loaded`, `Saved`).  For an installed
package of which no domain is known the code reads what lies before the array, and
for a number that a longer array has left behind what lies after it: what is found
there is chosen anew at each check and download (`Beyond`, from `Garbled`).

What replaces nothing is not removed by what conflicts with it: `Against` and
`Replaces` are two relations, and `Replaced` takes those that are in both.
`myPolicy::GetCandidateVer` does not override anything with the libapt-pkg of today,
so every version is a candidate. Dependencies have no alternatives, and repositories
do not change.  Where the code goes through the dependencies of a package in their
order, the model takes them in the order of `FoldSet`, which TLA+ leaves open but
fixes.

`lost`, `unasked`, `renumbered`, `disturbed` and `agreed` are history: the packages
whose domain was overwritten though they are kept, those whose domain was
overwritten by a download that nobody was asked about since its check had failed (or
was made with other domains configured), those whose number no longer stands for the
domain it was read for, whether an autoremove was given up and has left its marks,
and what the user has agreed to.
The action properties make exceptions for them, each of which is
needed: without `lost` or `unasked` an installation is compared with a record that
is wrong already (`PackageCache_domains`, `PackageCache_unchecked`), without
`renumbered` with that of another domain (`PackageCache_renumbered`), and after an
autoremove that was given up the next request is simulated on top of its marks
(`PackageCache_garbage`, `PackageCache_dropped`; section 6).

## 4. Runs

| run | question | bounds |
|---|---|---|
| `link` | is every call answered once, in order, with its own answer, do cancellations hit their request, and does the backend end? | 3 calls, 2 cancel bytes, 2 messages in the response fifo, no download to memory cards |
| `lock` | does every worker decide, and is only a weak holder of the lock signalled? | 2 strong and 2 weak workers, one weak one stubborn; 1 attempt of each kind; 4 lock files |
| `lists` | what do kills of the backend leave behind? | 1 repository (2 files), 2 versions, 2 kills |
| `lists_crash` | are the lists always in place? (finding) | the same |
| `journal` | is an interrupted operation tried again at the next boot, and does the device come up? | a system update and a plain package, 2 installations, 2 losses of power |
| `install` | does the flow end on every path, with everything restored? | 3 kinds of packages, lists of 2, 2 access points, 1 checkrm script, 2 flows |
| `files` | are dialogs and progress bar balanced on every path, is nothing left behind, and does every flow end or ask? | 2 files, 3 queued, 2 checkrm scripts |
| `interaction` | does every flow find the stack as it should be, is nothing queued forgotten, does every call get its replies, and before an exit? | 3 D-Bus calls, 1 dialog, 1 task, 2 outstanding lists |
| `notifier` | does the icon blink for what is new, and for nothing else? | 1 update, 5 notifications, 4 events, 1 check, 2 alarms |
| `listing` | do pointers survive the lists they point into, does the banner go away? | 4 events, 2 outstanding lists |
| `catalogues` | do sources.list and the catalogues agree, is nothing lost, are failures shown where they belong? | 2 places of which one can be added and written, 1 package, 3 events |
| `cache` | is what is carried out what was asked for and nothing else, whatever was tried before, and is nothing that is needed removed softly? | 5 packages, 2 configurations of the domains, 3 events, 2 starting states |

Why the bounds are enough.  Three calls make one active, one queued and one
that a callback makes; two bytes and two messages are enough for the second
press of Stop and for a full response fifo behind a status report.  Two
workers of each type meet in every combination, and with one attempt each
counter is both below and at its limit (5 in the code; `AptWorkerLock_two` needs
two).  Four lock files allow three unlinks.  The two files of a repository tell a
partial swap from a whole one, and a repository that is in sources.list from one
that was taken out while an update runs; two kills interrupt the repair of the first
one.  The proofs are for any number of repositories.  Two losses of
power interrupt an operation and its rescue.  Two packages are one that is the
last and one that is not (which is what `ip_abort_cur` and `ip_install_loop`
look at), and two flows let the retry counter outlive the first.  With three
calls one has its flow, one waits and one is refused; one dialog is enough, for
the code only looks whether the stack is empty and what is on top; one task is
queued, taken up, and may be queued again by itself (the invariants are proved for
any number, and `files` has three).  Three queued files make the
one that is started, one that is given up and a file chooser between them; two
files tell which.

One update is new or is not; five notifications are two that have nothing in common,
one that shares a field with both, one that lacks a field, and one that has nothing
that is compared, which is what the comparisons tell apart; four events are, for
instance, a publication, a tap, a second publication and a boot.  Two alarms are a
recurring and a single one.  Two outstanding lists are the least that overlap; four
events open a view, refresh, search and refresh again.  Two places are a catalogue
that is changed and one that is not, or one that reaches sources.list and one that
cannot be added or written; three events are a dialog, an edit, and somebody who
disturbs them, or a crash.  The five packages are one of the user that is updated and
reboots (`app`), the library it needs (`lib`), one that the new application replaces
(`old`), a helper that `old` needs and that the application is in conflict with but
does not replace (`help`), and one of the user that needs `old` and that the new
library would replace (`tool`): each rule of `mark_for_install_1` and each way into
`fix_soft_packages` has a package.  The packages start all installed, or with `old`
and `help` only; they are known to be of a certified domain, or of none.  Of the two
configurations one has another domain before the certified one, whose number is thus
another; from the longer to the shorter one a number is left behind the end of the
array.  `Garbled` is a level below all and one above all.  `cache` has some 370,000
states and takes about three minutes, `catalogues` 3.5 million and two; no other
takes more than two. `PackageCache_garbage` and `PackageCache_dropped` have another
instance of the same module, with a package that is broken and stays so; the
properties of `cache` hold there as well.

`CHECK_DEADLOCK FALSE` is set where the bounded environment comes to an end:
all calls made and both processes gone (`link`), all workers decided (`lock`),
all installations done and the device up (`journal`); for the installation
flow and the file flows, where the program may be gone (section 6); for the
interaction flows, where the program may have exited; and in `notifier`,
`listing`, `catalogues` and `cache`, where the number of events is bounded.

### Fairness

* `link`: the main loop dispatches its sources (WF of `Handlers`); a command
  of the backend goes on (WF of `WorkerProgress`) and writes its response when
  there is room in the fifo again and again (SF of `SendResponse`: it competes
  with the status reports of the same command, which are finitely many).
  Nothing is assumed of the user, and neither process has to die.
* `lock`: each worker is scheduled and a signal is delivered in the end (WF
  per worker).  No worker has to start, and no holder to finish.
* `journal`: the device goes on by itself (WF of `Backend`).
* `install`: the backend, the scripts, the timers and the network answer (WF of
  `Answers`).  Nothing is assumed of the user; hence `EndsOrAsks` says that a
  flow ends or waits for a dialog, or the program is gone.
* `interaction`: the backend answers a request for the list, and the loop that
  calls the continuations goes on (WF of `GetPackageListReply` and `Notice`).
  The user and the operations do what they like, and for ever.
* `files`: the backend, the scripts and the copy come to an end (WF of `Answers`).
  The user need not answer; instructions count as asking the user, as they do.
* `notifier`: the main loop dispatches what inotify has (WF of `UpdatesEvent`,
  `AvailableNotesEvent`, `SeenNotesEvent`); the Application Manager, once it has
  written the first of two files, writes the second, and the thread ends what it
  has begun to write (WF of `HamCleansTapped`, `DownloadWrites`).
* `listing`: the backend answers (WF of `BackendAnswers`; `AptWorkerLink` shows why)
  and timeouts fire (WF of `UpdatingTimeout`).
* `catalogues` and `cache` state safety and action properties only.

## 5. Proofs

The theorems hold for all values of the constants that satisfy the named
assumption of the module (`LinkAssumption`, `LockAssumption`,
`ListsAssumption`, `JournalAssumption`, `FlowAssumption`,
`InteractionAssumption`, `FilesAssumption`, `ListingAssumption`,
`NotifierAssumption`, `CataloguesAssumption`, `DepCacheAssumption`,
`VersionsAssumption`, `PackageCacheAssumption`), and for the specification with or
without its fairness.

* **Link.**  `LinkInvariant`: `TypeOK /\ LinkInv` is inductive.  The argument
  is that the active call is a token: its request is in the request fifo
  (`RequestInv`), at the backend (`BackendInv`), or its response is the last
  message of the response fifo (`ResponseInv`), and never two of these.  None
  of the properties is inductive without this.  A cancel byte is about the
  owner of the token, and the fifo is drained whenever the token changes hands
  (`CancelSafe`); a call is answered when its token is taken away
  (`CalledOnce`, `NoStray`); the queue is served when there is no token
  (`QueueServed`).  `MaybeSendOneWorkerCall` is treated once (`SendOK`, from
  `WaitOK`: what the waiting calls are like after the answered one is gone),
  and cited by the four handlers that call it.
  `ServiceImplemented` is the refinement of
  `AptWorkerService`: the initial states map to initial states, and every step to
  one of the service's or to a stutter.  `outstanding` is the active call
  followed by the pending ones; a step that takes a call from the queue to the
  fifo is a stutter (`Moved`), one that appends, answers or gives up is the
  service's own (`ServiceAccepts`, `ServiceAnswers`, `ServiceGivesUp`), and
  `SendServes` combines them for `MaybeSendOneWorkerCall`.  It needs one fact more
  than `LinkInv`, that nobody waits for a backend that is known to be lost
  (`LostInv`).
* **Lock.**  `LockInvariant`: who has passed F_SETLK owns the file it opened,
  and whoever is named by a file, or has been read from one, has got past the
  lock once.  The file may be stale, and a reader may have read it long ago,
  but neither ever names a worker that still waits, or a backend to another
  backend's signal (`BackendsAreSafe`).  Two holders need two files
  (`ExclusiveUntilUnlink`).
* **Lists.**  `SwapInvariant`: what is complete at each step of the swap, of
  which `ListsSurvive` says that what the last swap has put in place is still there,
  every file of it and no other, as lists or as lists.old.  `FinishesCleanly` needs
  in addition what the download has achieved so far (`GoalInv`): unless something
  failed, lists.new has every file that is done, and behind each Release file the
  Packages file was asked for; what is swapped in is what cleaning has left.
* **Journal.**  `JournalInvariant`: the record names the package that dpkg
  works on and an operation that was cut off, until a rescue has ended;
  `UpAfterRescue` follows.
* **Installation.**  `FlowInvariant`: a flow is at one callback, and the
  closure, the entertainment and the device are as that callback finds them
  (`Fits`: progress bar up or down, mode saved or not, position in the list);
  or nothing is left behind; or an assertion has failed in a running flow.
  A callback goes on in one of four ways, each a lemma: it ends the flow
  (`EndStep`), makes the next call (`NextStep`), asks (`AbortStep`), or goes
  round the loop (`LoopStep`).  `FlowIsNeverLost`, `FlowEndsClean` and
  `FlowRebootsLast` follow.
* **Interaction.**  `InteractionInvariant`.  The stack is what the running job
  accounts for (`StackFits`), so a flow that has closed its dialogs meets the
  assertions of `end_interaction_flow ()`, and a program without a flow is idle; a
  refresh that waits for the list is the flow that runs, and a call's flow runs only
  once the list is there (`ListingFits`); a call is in one place: among the waiters,
  at its flow, or replied to, twice if its arguments were invalid (`WaitersFit`,
  `EveryCallAccounted`).  One lemma per function of `util.cc` says that it leads from
  a state that fits to one that fits (`BeginFits` to `PopFits`), one per thing that
  can happen to a call what becomes of the accounts (`ReplyFits`, `WaitFits`,
  `FlowStartsFits`), and each action combines them. `ExitsAfterReplies` needs
  `ListingFits`: at the end of a call's flow the list is there, so nobody waits for
  it any more.  An invalid call to install has no flow, and is the exception: its
  `dip_end ()` may exit while others wait.
* **Notifier.**  `NotifierInvariant` and `NoFalseAlarmAlways`.  The inductive
  invariant adds to `NotifierInv` why the icon blinks (`BlinksForReason`):
  besides something new and an event that is under way, only a notification for
  which the second plugin does not empty seen-notifications (one that has something
  in common with the seen one, or lacks a field), of which the first plugin is not
  told; all this as long as both plugins can read inotify.  Each action
  either leaves the reason alone or leaves an event that will have the state
  evaluated again.
* **Catalogues.**  `CataloguesInvariant`, from which the five properties follow,
  is the conjunction of what is known of the lists in the files and in the hands
  of the three who work on them (`Types`, `Lists`, `FlowLists`, `WriterLists`: at
  most one catalogue of each package, at its home), who waits for whom (`Waits`,
  `FlowFits`), what an undisturbed writer has written or is about to write
  (`SourcesFollow`), where failures may be on their way (`ErrorsBelong`,
  `ErrorsOnTheirWay`), and that what the instructions ask for is in the flow's
  list until it is stored (`WishesKept`).  None is inductive by itself: that
  sources.list is right after a refresh needs what the backend holds between its
  two writes, and that holds only if nobody has overtaken it.  One lemma per
  operator on lists says what reading back what was written gives (`ReadWhole`
  and those that follow it): a list without foreign catalogues and without
  references to packages that are gone, which is what anybody who has read one
  holds, comes back as it was.

`TypeOK` of a module, and the inductive invariants `LinkInv`, `SwapInv`,
`JournalInv` and `FlowInv`, are proved and not run any more, as are
`AtMostOnce`, `TasksNotForgotten` and `OneRequest`, which other runs' properties
contain or rest on.

* **Package lists of the frontend.**  `ListingInvariant` and
  `LostOnlyToSecondReply`.  The inductive invariant is `ListingInv` and
  `PointersLive` with one fact more, that sections which are there were put there
  by a reply (`SectionsMerged`): so a reply that finds some to free is the second
  one for these lists.  The level of the banner is compared with the number of
  requests in the queue; `TimesAppend`, `TimesTail` and the like say how that number
  changes when one is sent or answered, `ShowKeeps` and `ToParentKeeps` what drawing
  a view may do to pointers and queue, once for all the actions that do it.
* **Files and removals.**  `FlowsStayBalanced`, as long as no copy reports its end
  once more when no copy is going on.  The inductive invariant says for
  each callback which dialogs it finds above the main window (`Nested`), who owns
  `copy_cont` and `copy_local`, and when the queue is empty (`Kept`); the failed
  uninstallation is the one exception.  Operators on `ui` have lemmas of their own:
  what leads from a flow between two dialogs (`Ready`) to a state that fits, and
  what ends a flow that has given its copy back (`Settled`), with the files that
  wait for it.
* **Cache, solver.**  `MarkedFits`, `MarkedRemoval`, `MarkedSettles`,
  `RelatedThroughout`, `RemovedThroughout`, for any packages, versions, dependencies
  (in circles or not) and conflicts.  There is no induction over operators here, so
  each fact about the level functions is proved for every level by the smallest one
  that would not satisfy it (`EveryNumber`), and that the functions and folds are
  what their definitions say comes first (`Iterates`, `Folded`).  What the marks
  have in common is said by a set of marks that no step of the solver leads out of:
  `InstallsWithin`, `RemovesWithin` and `ResetsWithin` are what a set must satisfy so
  that `InstallingStays`, `RemovalStays` and `FixingStays` hold of it, and the theorems
  are instances.  *Fit* marks are such a set (what is installed is related and newer:
  `FittingIsClosed`), so are those that remove no package of the user, and those that,
  beside one package, remove only automatic packages that are not the user's.
  `MarkedSettles`: a round of `fix_soft_packages` that changes something leaves fewer
  packages softly removed, so as many rounds as packages come to a state in which
  there is nothing to put back.  `RelatedThroughout` and `RemovedThroughout`: a call
  that goes on leaves fewer packages to be marked, so two levels that are both at
  least that many agree (`RelatingSettles`, `RemovingSettles`, by `FoldsAgree`), and
  the function of the last level satisfies the equation of the code, which has no
  levels.  For `mark_for_install_1` the level is the code's own and nothing is to be
  shown: a call at level 101 returns at once, in the code as in the model.
* **Cache, requests.**  `MarksAreOfTheRecord`, `NoUpdateInSilence`,
  `OperationsSpareTheRest` and `NothingNeededIsBroken`, none of which assumes
  anything of the solver but what is proved of it: the recorded operation,
  simulations beside real operations, caches that are closed and opened again,
  failures, the domains. `OperationsSpareTheRest` puts `MarkedFits`, `MarkedRemoval`
  and `MarksAreOfTheRecord` together: what an installation removes is what its own
  marks say, and not what a simulation or a flow that was given up has left.  The
  inductive invariant `CacheIInv` has what the marks are (`MarksKnown`), that only
  one request of a flow is under way, of which kind, and that a flow that waits for
  the user or for its check has none that installs (`QueueKnown`), that the domains
  in memory are among the configured ones and not worse than those on file but for
  the excused (`DomainsKnown`), and the core of it: after a check that succeeded,
  what the operation would now take from a worse domain is among the packages the
  user was told of or the excused (`AllAsked`).  A download overwrites the domains in
  memory in between, which raises no new question (`QuestionsCollected`), and a cache
  is opened again only when no operation that was checked waits for it.  When the
  configuration of the domains is read again (`RereadDomainsStep`), a number that
  stands for another domain in memory or on file makes its package an excused one,
  and what was checked before counts as not checked: so the theorem says nothing of
  an installation with such a change between its check and its end, and of those that
  begin after it only what concerns the other packages.

Only model-checked: everything that says "eventually", for TLAPS proves no
liveness (`EveryCallCompleted`, `BackendEndsAfterStartup`, `EveryWorkerDecides`,
`ComesUpAgain`, `EndsOrAsks`, `FlowsEndOrAsk`, `WaitersServed`, `BannerGoesAway`,
`UpdatesAnnounced`, `NotesAnnounced`).  `AcceptedAssumption` of `MCPackageCache` is
evaluated for lists of up to four indices: that a loop over an arbitrary sequence
comes to one expression is an induction over data.

## 6. Findings

`lists_crash` is the run of a finding: between the two renames there are no
lists, and nothing ever moves `lists.old` back (apt-worker.cc:4204), though "all
the old files are kept in place" (4172).

Further counterexamples, each by a configuration of its own
(`tlc -config X.cfg M`, where M is X up to the underscore, or MCPackageCache):

1. `AptWorkerLink_hang`: a backend that dies right after its first status report
   makes the frontend block in `open ()` for writing (apt-worker-client.cc:310).
2. `AptWorkerLock_two`: `unlink ()` removes the name, not the file whose holder
   was killed; a third worker may have taken the lock in between
   (apt-worker.cc:1466).
3. `OperationJournal_banner`: the frontend reboots whether or not the
   installation has succeeded, and the banner says "installed"
   (ham-after-boot.c:80).
4. `InstallFlow_errors`: a connection that is lost while dpkg works makes a
   failed installation end without a word (operations.cc:1606).
5. `InteractionFlow_wait`: when the program was started for a file or a restore,
   its flow reads the list of packages itself; `maybe_init_packages_list ()`
   then gives up (main.cc:2835), and a call that waits for the initial list is
   never answered.
6. `FileAndRemoveFlows_failed`: when the backend says that an uninstallation
   failed, the progress bar stays up below the note (operations.cc:2076), and the
   end of the flow fails its assertion: the program aborts.
7. `FileAndRemoveFlows_heard`: util.h:529 says that, when a file cannot be made
   local, "an appropriate error message has already been shown".  The last report
   of a copy is passed on as STATUS_CANCELLED (util.cc:3406), so a file that was
   copied is never installed and nobody is told; and a file that waited in the
   queue behind one that could not be opened is given up as "Unexpected reentry"
   (util.cc:3474), and then removed if it was under /var/tmp (main.cc:2556).
8. `FileAndRemoveFlows_again`: a copy may report its end more than once
   (util.cc:3389).  When no copy is going on by then, `copy_target` is freed a second
   time and `copy_cont` is NULL, or a note comes up that belongs to no flow: the
   program crashes, or the note is among the dialogs of the next flow (`Balanced`).
9. `InteractionFlow_invalid`: calls to install with invalid arguments get an error and,
   from `dip_end ()` or `dif_end ()`, a second reply (dbus.cc:134-143, 245-254), and
   the program may exit while other calls wait, whose replies are lost (against
   dbus.cc:196); a search gets two replies as well (417-437).
10. `Catalogues_skipped`: `add_catalogues_cont_2 ()` passes over a new catalogue without
   a uri or one that is too long, and without a word (repo.cc:1481-1499, 1548-1554):
   the installation goes on without a catalogue that its file asks for (`AllServed`).
11. `Catalogues_lost`: reading the user's catalogues leaves out those for another
   distribution and references to packages that are gone (confutils.cc:538-551), and a
   refresh writes what was read: they are lost, also when the package or the
   distribution comes back (`RefreshForgetsNothing`).
12. `PackageCache_simulated`: `cmd_autoremove ()` carries out whatever is marked
   (apt-worker.cc:5032).  A simulation of the background retrieval that was queued
   before it becomes an installation: the reply to the list draws the upgrade
   view again and queues a request for information before `ip_reboot_delayed ()`
   queues the autoremove; or the retrieval goes on in the view for uninstalling,
   and `up_remove_reply ()` queues the autoremove behind it.
13. `PackageCache_domains`: `collect_new_domains ()` overwrites the domains of
   packages that are related but kept, and before the download: `DomainsStay`
   fails (apt-worker.cc:5267).
14. `PackageCache_unchecked`: a check that fails has no violations in its reply,
   and "We ignore the rest of the reply, including the success indication"
   (operations.cc:665): the user is not asked (`AlwaysAsked`).
15. `PackageCache_garbage`: an autoremove that gives up, because some package is
   broken, leaves its marks in the cache (apt-worker.cc:5046).  The next check is
   about these marks, a simulation in between resets them, and what is then
   installed is not what was checked: an update from a worse domain is installed
   though the check has succeeded (`AskedIfChecked`).
16. `PackageCache_dropped`: with the same marks, the next installation removes a
   package of the user that was once installed as a dependency
   (`UserPackagesAlwaysStay`), against "installing a package will never automatically
   remove other packages" (apt-worker.cc:2224).
17. `PackageCache_renumbered`: the configuration of the domains is read again before a
   request (apt-worker.cc:1189-1195), and the cache stays open: `cur_domain` counts
   places in an array that is another one now.  A check compares with the wrong
   domain, or with what lies behind the array, and an update from a worse domain than
   the one on record is installed without a question (`AskedOfTheRecord`); and the next
   `save_extra_info ()` writes the package into the file of another domain.

Met while modelling, without a run:

* A frontend that exits before the request fifo has been opened leaves a
  backend behind, which waits for ever in `open ()`; the exit handler even
  starts one (apt-worker-client.cc:1000).  The changelog (debian/changelog:137)
  says that apt-worker exits with the application manager;
  `BackendEndsAfterStartup` says what is left of that.
* Without the option for memory cards, Stop during the download to /home is
  followed by the download to the default directory (apt-worker.cc:4757): the
  request is not aborted (`PollCancelled`).
* apt-worker-client.h:44 says that only one request may be in progress;
  `call_apt_worker ()` queues any number.
* `drain_fd ()` also drains a cancel byte written for the request just read:
  the press of Stop is lost.
* The lock file is empty between `fcntl ()` and `write ()`: another worker
  that looks then gives up with "can't parse lock" (`CantParse`).
* The record of a failed system update is overwritten by the next installation.
* When the query for free space fails, a note whose continuation is `ip_end`
  is put up *and* the flow goes on to its next dialog (operations.cc:1112,
  1533).  By default that begins with taking down the progress bar, which is
  below the note: an assertion of `pop_dialog ()` fails and the program aborts
  (util.h:242 asks for proper nesting).  TLC finds it when `AssertionsHold` is
  added to `install`.  In red pill mode a question is put on top of the note;
  whichever of the two is answered after the flow has ended is called with a
  deleted closure.  That is undefined and left out; `OneContinuation` makes an
  exception for the note.
* The comment at operations.cc:1458 speaks of three automatic retries; there
  are two, and the counter outlives the flow.
* Stop pressed together with the loss of the network counts as the latter: the
  download is tried again.
* A rebooting package reboots the device also when its installation failed,
  and is not counted in `n_successful`.
* The overview at the top of operations.cc has the download before the checkrm
  scripts and removes the archive files in any case; the code does not.
* The main window can be closed while a flow runs over the window of another
  program, or has no dialog up.  `window_delete_event ()` then ends the flow,
  and a file that was queued starts the next one while the first goes on:
  `OneFlow` does not hold ("The Application Manager can run one interaction flow
  at any single time", util.h:35).  Without a queued file the program exits
  under the foreign flow, whose call is not answered (util.h "Exiting").
* "Install from file" of the menu during a flow is queued; its task returns
  TRUE, is queued again, and the file chooser comes back after every flow.
* A second `check_for_updates` is dropped while the first one waits for a quiet
  minute; a program that was only started for it stays, without a window.
* The timer of that wait runs once: if `time ()` does not agree that the minute
  is over, the next start is after the next flow.
* `cmdline_rescue ()` takes no lock; a later source of a rescue replaces the
  result of an earlier one, and RESCUE_RESULT_FILE is never removed.
* Files: Stop during a copy sets `copy_cancel_requested`, which nobody reads; a copy
  that fails has no callback (util.cc:3460), and its progress bar stays up for
  ever; a nested `consume_interaction_task_queue ()` frees the queue that the outer
  one then asks whether it is empty.
* Lists: two refreshes that overlap (settings.cc:294, repo.cc:149) put two replies
  into one set of lists, and `free_sections ()` of the second leaves `gpiib_next`
  and `global_packages` dangling, against main.cc:1053 (`PointersLive` says that
  this is the only case; `BackgroundCancelled` fails); `ip_reboot_delayed ()`
  (operations.cc:1851) reads a `package_info` that the refresh before it may have
  freed; `available_package_selected ()` leaks a reference;
  `show_search_dialog_flow ()` and `set_sort_settings ()` are never called.
* Notifier: an alarm that could not be set has the cookie -1, which the retry takes
  for one that was set (ham-updates-status-menu-item.c:813): it is never tried again,
  against "Try again in one minute" (`AlarmTriedAgain` fails).  A tap records as
  tapped what is available by then, announced or not (ham-updates.c:132), and an
  answer to the dialog as seen (ham-updates.c:205, ham-notifier.c:142). Notifications
  are different for the plugin that empties seen-notifications only if title, text
  and uri all differ and are there; an empty "info" counts as new and cannot be
  dismissed; one that is published again after it was seen, has something in common
  with the seen one, or lacks one of the three leaves the icon blinking
  (`NoFalseAlarm` allows for it).  The second plugin tells the first of what is new
  by writing seen-notifications: if it cannot read inotify any more
  (ham-notifier-status-menu-item.c:120, 189), nothing is announced.  The string of
  the proxy is freed while the thread uses it; a second check overwrites the process
  id of the first; the state of the connection never goes back to offline.
* Catalogues: the configuration tool reads them before the settings, so the filter of
  one for any distribution is compared with NULL (confutils.cc:332), and the tool
  crashes (`Readable`).  An enabled catalogue without a uri, or whose line would be
  too long, is not written to sources.list, without a word (confutils.cc:353-367);
  the limit for adding one counts "unknown" for a missing distribution, and
  `write_sources_list ()` writes the default one.  The tool's `set` writes a
  sources.list without the packages' catalogues, until the next refresh; its `delete`
  at the place of a package's catalogue drops the reference to it.
  `merge_catalogues_with_errors ()` reads an entry after `xexp_del ()` freed it
  (apt-worker.cc:6719).  The reply to the request that stores catalogues is not
  looked at (main.cc:1435), nor is the result of `update_sources_list ()`
  (apt-worker.cc:4264), which truncates sources.list in place.  Failures stay with an
  edited catalogue until the next refresh.  The "first hit" of
  `find_catalogues_for_item_desc ()` is all hits.
* Cache: with no cache, `cmd_autoremove ()` and the details of the system update
  crash (`Crash`); an autoremove that gives up leaves its marks for the next
  request (`disturbed`); versions from the wrong domain are not filtered, though
  operations.cc:780 says that they "aren't visible"; "No explicit domain
  dominates any other explicit domain" (5081) while the code compares trust levels;
  `load_extra_info ()` keeps the last of several better candidates.

## 7. Not modelled

Within the modelled components: the content of messages, wording and layout of
dialogs, logging, icon names; the flags of a package, which a refresh could change
during a flow, are fixed; INSTALL_TYPE_MEMORY_CARD, which is compiled out; failures
of `link ()` and `mkdir ()` while the lists are duplicated, which the code ignores
(hazard at apt-worker.cc:4120); Details and "Create backup", which leave the dialog
they are opened from up; in `InteractionFlow`, what two flows do to each other after
the main window was closed (`mode` "two"), and operations that leave a dialog up at
their end (the failed uninstallation of section 6).

apt, dpkg, GLib, Hildon, ConIC, alarmd and mce are external: a model has what
the code in `src/` sees of them.

The D-Bus variant of `install_file ()` (`dif_*`) is in `InteractionFlow`; in
`FileAndRemoveFlows` only the flows of the menu and of opened files are.  Details of
a package, which open another dialog above a question, are left out there as in
`InstallFlow`.  In `Catalogues`: system sources, temporary catalogues and the card
installation, which are dead code, and the migration tool; a catalogue with the
filter of this very distribution, which is like one without but for the configuration
tool, which it stops as a foreign one does (here it may go on); a change of the
distribution itself.  In `PackageCache`: a configuration of the domains that changes
the trust level of a name, or which sources belong to it, or has a name twice; a
change within the same second, which the time of the file does not tell; alternatives
of dependencies, NeedsUnpack and ReInstall, the flag apt-algorithms, `cmd_clean ()`,
the second check of the red pill mode, installation from a file.

Not modelled:

* the wire codec: encoder and decoder are sequential, and recursion over bytes
  says little on the short messages TLC can enumerate; messages are values;
* the reader of s-expressions and key files, for the same reason;
* settings, log, details, search, menus, widgets and scripts, which have no state
  that several actors change;
* a request for the network by one flow that is cancelled by another, which only a
  flow without a dialog could make (`ensure_network ()` then overwrites the
  continuation).

## 8. Plan

What is left, in this order: a composition of `InstallFlow` with the queue of
`FileAndRemoveFlows`, whose product is about two orders of magnitude larger than
either; alternatives of dependencies in `PackageCache`; the wire codec.

## 9. How to run

    tlc -workers 2 -config AptWorkerLink.cfg AptWorkerLink
    tlc -workers 2 -config UpdateNotifier.cfg MCUpdateNotifier
    tlapm AptWorkerLink_proofs.tla
    tlapm Backend_proofs.tla

The configurations of `UpdateNotifier`, `Catalogues` and `PackageCache` are for their
MC modules.

A mutant (the definitions headed "Mutant:") is a plausible mistake in the code;
PROJECT.json says which definition it replaces and which property notices it.
