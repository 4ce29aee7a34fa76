------------------------------ MODULE Catalogues ------------------------------
(***************************************************************************)
(* The catalogues: where packages come from.  A catalogue is in the user's *)
(* file or in the file of a package, of which the user's file then says    *)
(* whether it is disabled; sources.list is made from both (confutils.cc).  *)
(* The backend refreshes the package lists from it and remembers which     *)
(* catalogues failed (apt-worker.cc); the Application Manager shows a copy *)
(* of the catalogues, changes it and gives it back (repo.cc, main.cc,      *)
(* instr.cc); packages and administrators use a tool of their own, which   *)
(* no lock keeps apart from them (hildon-application-manager-config.cc).   *)
(* A place stands for the uri, distribution and components of a catalogue. *)
(***************************************************************************)
EXTENDS Integers, FiniteSets

CONSTANTS
  Places,       \* what catalogues point to
  Packages,     \* packages that bring a catalogue with them
  NoPackage,    \* of a catalogue of the user
  Home,         \* the place of a package's catalogue
  Listable,     \* places with a uri whose line in sources.list apt can take
  Addable,      \* places with a uri that are short enough to be added
  MaxEvents     \* bound: what users, packages and failures do

ASSUME CataloguesAssumption ==
  /\ NoPackage \notin Packages
  /\ Home \in [Packages -> Places]
  /\ Listable \subseteq Places /\ Addable \subseteq Places
  /\ MaxEvents \in Nat

VARIABLES
  installed,   \* the packages whose files are in PACKAGE_CATALOGUES
  conf,        \* CATALOGUE_CONF
  sources,     \* CATALOGUE_APT_SOURCE
  failed,      \* the places in FAILED_CATALOGUES_FILE
  backend,     \* the request it works on
  flow,        \* the interaction flow of the Application Manager
  tool,        \* a run of hildon-application-manager-config
  outdated,    \* history: who works on a copy that somebody has overtaken
  past,        \* history: see History
  events

vars == <<installed, conf, sources, failed, backend, flow, tool, outdated, past, events>>

\* A catalogue of a package is known by the package's file and its id; foreign: it
\* has the filter of another distribution.
Catalogue == [package : Packages \cup {NoPackage}, place : Places,
              disabled : BOOLEAN, foreign : BOOLEAN, errors : BOOLEAN]

Own(p, d) ==
  [package |-> NoPackage, place |-> p, disabled |-> d, foreign |-> FALSE, errors |-> FALSE]
Packaged(k, d) ==
  [package |-> k, place |-> Home[k], disabled |-> d, foreign |-> FALSE, errors |-> FALSE]

\* fresh: the last to write conf and sources did so undisturbed and they have not
\*   been touched since; stored: the flow's catalogues have been written in full;
\* failing: the places that failed in the last refresh; moved: the places the user
\*   has put in a catalogue that had failed.
History == [fresh : BOOLEAN, stored : BOOLEAN, failing : SUBSET Places, moved : SUBSET Places]

-----------------------------------------------------------------------------
(* Lists of catalogues *)

PlacesOf(list) == {c.place : c \in list}
Enabled(list)  == PlacesOf({c \in list : ~c.disabled})
Failing(list)  == PlacesOf({c \in list : c.errors})
Cleared(list)  == {[c EXCEPT !.errors = FALSE] : c \in list}

\* What becomes of them in sources.list; the others are left out silently.
Listed(list) == Enabled(list) \cap Listable

\* What the files together say: a reference only tells whether its package's
\* catalogue is disabled, and nothing once the package is gone.
Read(cf, pkgs) ==
  {Packaged(k, \E c \in cf : c.package = k /\ c.disabled) : k \in pkgs}
    \cup {c \in cf : c.package = NoPackage /\ ~c.foreign}

\* Mutant: only the user's own catalogues are written.
OwnWritten(list) == {c \in list : c.package = NoPackage}

\* What is written to the user's file; of a package's catalogue, a reference.
Written(list) == {IF c.package = NoPackage THEN c ELSE Packaged(c.package, c.disabled) : c \in list}

\* Mutant: a message is taken to be about all catalogues.
AllBlamed(list, places) == {[c EXCEPT !.errors = places # {}] : c \in list}

\* The catalogues that are told that something of their places was not fetched.
Blamed(list, places) == {[c EXCEPT !.errors = c.place \in places] : c \in list}

\* Those who hold a copy of what has just been changed by `by'.
Others(by) == {"backend", "flow", "tool"} \ {by}

Count == events < MaxEvents /\ events' = events + 1

-----------------------------------------------------------------------------
(* The backend *)

Idle          == [phase |-> "idle", cmd |-> "none", list |-> {}, ok |-> TRUE]
Ask(cmd, l)   == backend' = [phase |-> "asked", cmd |-> cmd, list |-> l, ok |-> TRUE]
Answer(l)     == [backend EXCEPT !.phase = "answered", !.list = l]
Asked(cmd)    == backend.phase = "asked" /\ backend.cmd = cmd

\* After the files: a refresh downloads, a change of the catalogues is done.
AfterFiles == IF backend.cmd = "update" THEN [backend EXCEPT !.phase = "download"] ELSE Answer({})

\* The record of the failures, put back into the catalogues it belongs to.
Merged(list) == Blamed(list, failed)

\* cmd_get_catalogues: if there is no user's file it is made.
GetCatalogues ==
  /\ Asked("get")
  /\ backend' = Answer(Merged(Read(conf, installed)))
  /\ outdated' = outdated \ {"flow"}
  /\ \/ UNCHANGED conf
     \/ conf = {} /\ conf' = Written(Read(conf, installed))
  /\ UNCHANGED <<installed, sources, failed, flow, tool, past, events>>

\* Mutant: the records of failures are written with the catalogues.
SetUncleared ==
  /\ Asked("set")
  /\ failed' = Failing(backend.list)
  /\ IF flow.null THEN backend' = Answer({})
     ELSE backend' = [backend EXCEPT !.phase = "conf"]
  /\ outdated' = (outdated \ {"backend"}) \cup {b \in {"backend"} : "flow" \in outdated}
  /\ UNCHANGED <<installed, conf, sources, flow, tool, past, events>>

\* cmd_set_catalogues; the list may be none at all, which is not written.
SetCatalogues ==
  /\ Asked("set")
  /\ failed' = Failing(backend.list)
  /\ IF flow.null THEN backend' = Answer({})
     ELSE backend' = [backend EXCEPT !.phase = "conf", !.list = Cleared(backend.list)]
  /\ outdated' = (outdated \ {"backend"}) \cup {b \in {"backend"} : "flow" \in outdated}
  /\ UNCHANGED <<installed, conf, sources, flow, tool, past, events>>

\* cmd_check_updates, up to its writing the files.
CheckUpdates ==
  /\ Asked("update")
  /\ failed' = {}
  /\ backend' = [backend EXCEPT !.phase = "conf", !.list = Cleared(Read(conf, installed))]
  /\ outdated' = outdated \ {"backend"}
  /\ UNCHANGED <<installed, conf, sources, flow, tool, past, events>>

\* update_sources_list: first the user's file, which is replaced by renaming, ...
WriteConf ==
  /\ backend.phase = "conf"
  /\ conf' = Written(backend.list)
  /\ backend' = [backend EXCEPT !.phase = "sources"]
  /\ outdated' = outdated \cup Others("backend")
  /\ past' = [past EXCEPT !.fresh = FALSE]
  /\ UNCHANGED <<installed, sources, failed, flow, tool, events>>

\* Mutant: a refresh takes sources.list as it is.
WriteSourcesIfSet ==
  /\ backend.phase = "sources"
  /\ sources' = IF backend.cmd = "set" THEN Listed(backend.list) ELSE sources
  /\ backend' = AfterFiles
  /\ past' = [past EXCEPT !.fresh = "backend" \notin outdated,
                         !.stored = @ \/ (backend.cmd = "set" /\ "backend" \notin outdated)]
  /\ UNCHANGED <<installed, conf, failed, flow, tool, outdated, events>>

\* ... then sources.list.
WriteSources ==
  /\ backend.phase = "sources"
  /\ sources' = Listed(backend.list)
  /\ backend' = AfterFiles
  /\ past' = [past EXCEPT !.fresh = "backend" \notin outdated,
                         !.stored = @ \/ (backend.cmd = "set" /\ "backend" \notin outdated)]
  /\ UNCHANGED <<installed, conf, failed, flow, tool, outdated, events>>

\* No space is left for one of them; sources.list is truncated before it is
\* written.  Nobody looks at the result.
WriteFails ==
  /\ backend.phase \in {"conf", "sources"}
  /\ Count
  /\ IF backend.phase = "conf" THEN UNCHANGED sources
     ELSE sources' \in SUBSET Listed(backend.list)
  /\ backend' = AfterFiles
  /\ past' = [past EXCEPT !.fresh = FALSE]
  /\ UNCHANGED <<installed, conf, failed, flow, tool, outdated>>

\* The rest of cmd_check_updates: some places cannot be fetched.
Download(places) ==
  /\ backend.phase = "download"
  /\ places \subseteq sources
  /\ LET list == Blamed(backend.list, places) IN
     /\ failed' = Failing(list)
     /\ backend' = Answer(list)
  /\ past' = [past EXCEPT !.failing = places, !.moved = {}]
  /\ UNCHANGED <<installed, conf, sources, flow, tool, outdated, events>>

\* The backend dies; whoever waits for it gets an answer without contents.
Crash ==
  /\ backend.phase \in {"asked", "conf", "sources", "download"}
  /\ Count
  /\ backend' = [Answer({}) EXCEPT !.ok = FALSE]
  /\ \/ UNCHANGED <<sources, past>>
     \/ /\ backend.phase = "sources" /\ sources' \in SUBSET Listed(backend.list)
        /\ past' = [past EXCEPT !.fresh = FALSE]
  /\ UNCHANGED <<installed, conf, failed, flow, tool, outdated>>

BackendStep ==
  \/ GetCatalogues \/ SetCatalogues \/ CheckUpdates \/ WriteConf \/ WriteSources
  \/ \E places \in SUBSET Places : Download(places)

-----------------------------------------------------------------------------
(* The Application Manager: the dialogs for all catalogues and for those    *)
(* that failed, and the instruction files that add catalogues, before a     *)
(* package is installed or for themselves.                                  *)

Flow == [kind : {"none", "dialog", "errors", "add", "install"},
         step : {"none", "network", "updating", "getting", "editing", "asking",
                 "setting", "installing"},
         list : SUBSET Catalogue, null : BOOLEAN, dirty : BOOLEAN, first : BOOLEAN,
         rest : SUBSET Places, wanted : SUBSET Places]

NoFlow == [kind |-> "none", step |-> "none", list |-> {}, null |-> FALSE, dirty |-> FALSE,
           first |-> FALSE, rest |-> {}, wanted |-> {}]

At(step)         == flow.step = step
GoTo(f, step)    == flow' = [f EXCEPT !.step = step]
Disk             == <<installed, conf, sources, failed>>
InDialog         == flow.kind \in {"dialog", "errors"}

\* check_catalogues_reply, for a user who has not closed the dialog of it.
ShowErrors == failed # {}

\* show_catalogue_dialog; if the last refresh is too old there is one first.
OpenDialog(kind) ==
  /\ flow = NoFlow /\ backend.phase = "idle"
  /\ kind = "errors" => ShowErrors
  /\ Count
  /\ LET f == [NoFlow EXCEPT !.kind = kind] IN
     \/ Ask("get", {}) /\ GoTo(f, "getting")
     \/ GoTo([f EXCEPT !.first = TRUE], "network") /\ UNCHANGED backend
  /\ UNCHANGED <<Disk, tool, outdated, past>>

\* add_catalogues, with the catalogues of an instruction file.
OpenInstructions(kind, places) ==
  /\ flow = NoFlow /\ backend.phase = "idle"
  /\ Count
  /\ Ask("get", {})
  /\ GoTo([NoFlow EXCEPT !.kind = kind, !.rest = places, !.wanted = places], "getting")
  /\ UNCHANGED <<Disk, tool, outdated, past>>

\* refresh_package_cache_without_user goes on: its first use in a dialog does not
\* care about the outcome; only an installation is given up.
AfterRefresh(keep) ==
  IF flow.first
  THEN Ask("get", {}) /\ GoTo([flow EXCEPT !.first = FALSE], "getting")
  ELSE /\ backend' = Idle
       /\ IF flow.kind = "install" /\ keep THEN GoTo(flow, "installing") ELSE flow' = NoFlow

Refresh ==
  /\ At("network") /\ backend.phase = "idle"
  /\ \/ Ask("update", {}) /\ GoTo(flow, "updating")
     \/ AfterRefresh(FALSE)                         \* there is no network
  /\ UNCHANGED <<Disk, tool, outdated, past, events>>

\* rpcwu_reply: only a cancellation by the user counts, not the result.
Refreshed ==
  /\ At("updating") /\ backend.phase = "answered"
  /\ \E cancelled \in BOOLEAN : AfterRefresh(~cancelled)
  /\ UNCHANGED <<Disk, tool, outdated, past, events>>

\* scd_get_catalogues_reply, add_catalogues_cont_1.
GotCatalogues ==
  /\ At("getting") /\ backend.phase = "answered"
  /\ backend' = Idle
  /\ LET f == [flow EXCEPT !.list = backend.list, !.null = ~backend.ok] IN
     IF InDialog THEN GoTo(f, "editing")
     ELSE IF backend.ok THEN GoTo(f, "asking") ELSE flow' = NoFlow
  /\ UNCHANGED <<Disk, tool, outdated, past, events>>

\* The dialog is closed before the catalogues are there; then they are ignored.
CloseEarly ==
  /\ At("getting") /\ InDialog
  /\ flow' = NoFlow
  /\ UNCHANGED <<Disk, backend, tool, outdated, past, events>>

Ignored ==
  /\ flow = NoFlow /\ backend.phase = "answered"
  /\ backend' = Idle
  /\ UNCHANGED <<Disk, flow, tool, outdated, past, events>>

\* The catalogues in the dialog.
Visible == IF flow.kind = "errors" THEN {c \in flow.list : c.errors} ELSE flow.list

Edited(list) == flow' = [flow EXCEPT !.list = IF flow.null THEN {} ELSE list, !.dirty = TRUE]

\* cat_edit_response: a package's catalogue can only be disabled and enabled.  What
\* is known of a failure stays with a catalogue that is moved.
Change ==
  \E c \in Visible, d \in BOOLEAN, p \in Places :
    /\ c.package # NoPackage => p = c.place
    /\ Edited((flow.list \ {c}) \cup {[c EXCEPT !.disabled = d, !.place = p]})
    /\ past' = [past EXCEPT !.moved = @ \cup {q \in {p} : c.errors}]

\* remove_cat_cont
Remove == \E c \in Visible : c.package = NoPackage /\ Edited(flow.list \ {c})

\* show_cat_edit_dialog for a new catalogue, which may be one that is there.
New == flow.kind = "dialog" /\ \E p \in Places, d \in BOOLEAN : Edited(flow.list \cup {Own(p, d)})

Edit ==
  /\ At("editing")
  /\ Count
  /\ Change \/ ((Remove \/ New) /\ UNCHANGED past)
  /\ UNCHANGED <<Disk, backend, tool, outdated>>

\* set_catalogues_and_refresh
Set ==
  /\ Ask("set", flow.list)
  /\ GoTo(flow, "setting")
  /\ past' = [past EXCEPT !.stored = FALSE]

CloseDialog ==
  /\ At("editing")
  /\ \/ flow.dirty /\ Set
     \/ ~flow.dirty /\ flow' = NoFlow /\ UNCHANGED <<backend, past>>
  /\ UNCHANGED <<Disk, tool, outdated, events>>

\* What the user has been asked about a catalogue of the instruction file, and
\* the catalogues there are already: the first of them counts.
Same(p)          == {c \in flow.list : c.place = p}
Replaced(c, new) == [flow EXCEPT !.list = (@ \ c) \cup {new}, !.dirty = TRUE]
Further(f, p)      == flow' = [f EXCEPT !.rest = @ \ {p}]

SameOff(p)         == {c \in Same(p) : c.disabled}
SameOn(p)          == Same(p) \ SameOff(p)

\* add_catalogues_cont_2: a catalogue that is disabled is enabled; a new one is
\* added, and one that is enabled is replaced, unless that is for an installation.
\* What cannot be added is passed over without a word, in an installation too.
ToEnable(p) == SameOff(p) # {}
ToAdd(p)    == Same(p) = {} \/ (SameOn(p) # {} /\ flow.kind = "add")
ToLeave(p)  == SameOn(p) # {} /\ flow.kind = "install"

\* Mutant: a catalogue that is there is not looked at any further.
AcceptNew(p) ==
  \/ ToEnable(p) /\ Further(flow, p)
  \/ /\ ToAdd(p) /\ p \in Addable
     /\ \E c \in IF Same(p) = {} THEN {{}} ELSE {{o} : o \in SameOn(p)} :
          Further(Replaced(c, Own(p, FALSE)), p)

\* ... and add_catalogues_cont_3 with the answer yes.
Accept(p) ==
  \/ \E c \in SameOff(p) : Further(Replaced({c}, [c EXCEPT !.disabled = FALSE]), p)
  \/ /\ ToAdd(p) /\ p \in Addable
     /\ \E c \in IF Same(p) = {} THEN {{}} ELSE {{o} : o \in SameOn(p)} :
          Further(Replaced(c, Own(p, FALSE)), p)

\* ... with the answer no, which gives an installation up.
Decline(p) ==
  /\ ToEnable(p) \/ (ToAdd(p) /\ p \in Addable)
  /\ IF flow.kind = "install" THEN flow' = NoFlow ELSE Further(flow, p)

\* ... without a question.
Skip(p) ==
  /\ ToLeave(p) \/ (ToAdd(p) /\ p \notin Addable)
  /\ Further(flow, p)

AskUser ==
  /\ At("asking")
  /\ \E p \in flow.rest : Accept(p) \/ Decline(p) \/ Skip(p)
  /\ UNCHANGED <<Disk, backend, tool, outdated, past, events>>

AllAsked ==
  /\ At("asking") /\ flow.rest = {}
  /\ \/ (flow.dirty \/ flow.kind = "install") /\ Set
     \/ ~flow.dirty /\ flow.kind = "add" /\ flow' = NoFlow /\ UNCHANGED <<backend, past>>
  /\ UNCHANGED <<Disk, tool, outdated, events>>

\* scar_set_catalogues_reply does not look at the reply.
CataloguesSet ==
  /\ At("setting") /\ backend.phase = "answered"
  /\ backend' = Idle
  /\ GoTo(flow, "network")
  /\ UNCHANGED <<Disk, tool, outdated, past, events>>

\* The package is installed from the catalogues.
Installed ==
  /\ At("installing")
  /\ flow' = NoFlow
  /\ UNCHANGED <<Disk, backend, tool, outdated, past, events>>

FlowStep ==
  \/ Refresh \/ Refreshed \/ GotCatalogues \/ CloseEarly \/ Ignored \/ CloseDialog
  \/ AskUser \/ AllAsked \/ CataloguesSet \/ Installed

-----------------------------------------------------------------------------
(* Packages and the tool *)

\* A package with a catalogue is installed or removed, by whatever means.
PackageChanges(k) ==
  /\ Count
  /\ installed' = IF k \in installed THEN installed \ {k} ELSE installed \cup {k}
  /\ outdated' = {"backend", "flow", "tool"}
  /\ past' = [past EXCEPT !.fresh = FALSE, !.stored = FALSE]
  /\ UNCHANGED <<conf, sources, failed, backend, flow, tool>>

NoTool == [cmd |-> "none", phase |-> "none", list |-> {}]

\* handle_generic_element: the first catalogue at the element's place makes way.
Without(list, p) == IF p \in PlacesOf(list) THEN {list \ {c} : c \in {d \in list : d.place = p}} ELSE {list}

\* read_conf compares a filter with the distribution before that is known, and the
\* tool dies of it.
Readable == \A c \in conf : ~c.foreign

ToolReads ==
  /\ tool = NoTool
  /\ Count
  /\ LET list == Read(conf, installed) IN
     \/ Readable /\ tool' = [cmd |-> "update", phase |-> "sources", list |-> list]
     \/ \E p \in Places : \E l \in Without(list, p) :
          Readable /\ tool' = [cmd |-> "delete", phase |-> "conf", list |-> l]
     \/ \E p \in Places, d, f \in BOOLEAN :
          LET new == [Own(p, d) EXCEPT !.foreign = f] IN
          \/ \E l \in Without(list, p) :
               Readable /\ tool' = [cmd |-> "add", phase |-> "conf", list |-> l \cup {new}]
          \/ tool' = [cmd |-> "set", phase |-> "conf", list |-> {new}]
  /\ outdated' = outdated \ {"tool"}
  /\ UNCHANGED <<Disk, backend, flow, past>>

\* write_conf
ToolWritesConf ==
  /\ tool.phase = "conf"
  /\ conf' = Written(tool.list)
  /\ tool' = [tool EXCEPT !.phase = "sources"]
  /\ outdated' = outdated \cup Others("tool")
  /\ past' = [past EXCEPT !.fresh = FALSE, !.stored = FALSE]
  /\ UNCHANGED <<installed, sources, failed, backend, flow, events>>

\* update_conf
ToolWritesSources ==
  /\ tool.phase = "sources"
  /\ sources' = Listed(tool.list)
  /\ tool' = NoTool
  /\ past' = [past EXCEPT !.fresh = tool.cmd = "update" /\ "tool" \notin outdated]
  /\ UNCHANGED <<installed, conf, failed, backend, flow, outdated, events>>

\* A file cannot be written, or the tool is killed.
ToolFails ==
  /\ tool # NoTool
  /\ Count
  /\ tool' = NoTool
  /\ \/ UNCHANGED <<sources, past>>
     \/ /\ tool.phase = "sources" /\ sources' \in SUBSET Listed(tool.list)
        /\ past' = [past EXCEPT !.fresh = FALSE]
  /\ UNCHANGED <<installed, conf, failed, backend, flow, outdated>>

-----------------------------------------------------------------------------

Init ==
  /\ installed \in SUBSET Packages
  /\ \E own, foreign \in SUBSET Places, off \in SUBSET installed :
       conf = {Own(p, FALSE) : p \in own} \cup {Packaged(k, k \in off) : k \in installed}
                \cup {[Own(p, FALSE) EXCEPT !.foreign = TRUE] : p \in foreign}
  /\ sources = Listed(Read(conf, installed)) /\ failed = {}
  /\ backend = Idle /\ flow = NoFlow /\ tool = NoTool
  /\ outdated = {}
  /\ past = [fresh |-> TRUE, stored |-> FALSE, failing |-> {}, moved |-> {}]
  /\ events = 0

Environment ==
  \/ \E kind \in {"dialog", "errors"} : OpenDialog(kind)
  \/ \E kind \in {"add", "install"}, places \in SUBSET Places \ {{}} : OpenInstructions(kind, places)
  \/ Edit
  \/ WriteFails \/ Crash
  \/ \E k \in Packages : PackageChanges(k)
  \/ ToolReads \/ ToolFails

Next == BackendStep \/ FlowStep \/ ToolWritesConf \/ ToolWritesSources \/ Environment

Spec == Init /\ [][Next]_vars

-----------------------------------------------------------------------------
(* Properties *)

\* The types of the variables; the files hold no record of failures besides their
\* own; who waits for the backend has asked it, and the list that a flow shows is
\* one that it has been given.
CataloguesInv ==
  /\ installed \subseteq Packages
  /\ conf \subseteq Catalogue /\ conf = Cleared(conf)
  /\ sources \subseteq Places /\ failed \subseteq Places
  /\ backend \in [phase : {"idle", "asked", "conf", "sources", "download", "answered"},
                  cmd : {"none", "get", "set", "update"}, list : SUBSET Catalogue, ok : BOOLEAN]
  /\ flow \in Flow
  /\ tool \in [cmd : {"none", "add", "delete", "set", "update"}, phase : {"none", "conf", "sources"},
               list : SUBSET Catalogue]
  /\ tool.list = Cleared(tool.list)
  /\ outdated \subseteq {"backend", "flow", "tool"}
  /\ past \in History
  /\ events \in 0..MaxEvents
  /\ backend.phase \in {"conf", "sources", "download"} => backend.list = Cleared(backend.list)
  /\ backend.phase \in {"conf", "sources"} => backend.cmd \in {"set", "update"}
  /\ backend.phase = "download" => backend.cmd = "update"
  /\ At("updating") => backend.phase # "idle" /\ backend.cmd = "update"
  /\ At("getting")  => backend.phase # "idle" /\ backend.cmd = "get"
  /\ At("setting")  => backend.phase # "idle" /\ backend.cmd = "set"
  /\ backend.phase # "idle" =>
       At("updating") \/ At("getting") \/ At("setting") \/ (flow = NoFlow /\ backend.cmd = "get")

\* After a refresh, a change in the dialog or an update by the tool that nothing
\* has disturbed, sources.list has the enabled catalogues of the user and of the
\* packages, as far as apt can take them, and no others: what is written to the two
\* files agrees, and what is lost by writing references instead of catalogues comes
\* back.
SourcesFollow == past.fresh => sources = Listed(Read(conf, installed))

\* A refresh rewrites the user's file, but what it says for this distribution and
\* the packages that are installed stays: these catalogues are still there, and
\* disabled or not as they were, unless somebody else has changed the files since
\* the backend read them.
Rewritten == backend.cmd = "update" /\ backend.phase = "conf" /\ backend' # backend
RefreshKeeps ==
  [][Rewritten /\ "backend" \notin outdated => Read(conf', installed) = Read(conf, installed)]_vars

\* When the package of an instruction file is installed, all catalogues that the
\* file asks for and that can be added and written are in sources.list: the new
\* ones, those that were disabled and those that were there, provided that they
\* could be stored.
InstructionServed ==
  At("installing") /\ past.stored /\ past.fresh => flow.wanted \cap Addable \cap Listable \subseteq sources

\* The installation has all the catalogues that its file asks for.  It has not:
\* what add_catalogues_cont_2 passes over, nobody is told of.
AllServed == At("installing") /\ past.stored /\ past.fresh => flow.wanted \subseteq sources

\* A refresh takes nothing out of the user's file.
RefreshForgetsNothing == [][Rewritten /\ conf' # conf => conf \subseteq conf']_vars

\* The user is told of a failure only for a catalogue that failed in the last
\* refresh, or for one that replaces it since.
ErrorsBelong ==
  /\ failed \subseteq past.failing \cup past.moved
  /\ At("editing") \/ At("setting") => Failing(flow.list) \subseteq past.failing \cup past.moved
=============================================================================
