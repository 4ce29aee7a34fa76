---------------------------- MODULE PackageListing ----------------------------
(***************************************************************************)
(* The lists of packages that the Application Manager shows (main.cc).  A  *)
(* refresh frees them and asks the backend for new ones; while they are    *)
(* shown, the details of one package after the other are retrieved in the  *)
(* background, along a pointer into the list.  The window keeps another    *)
(* such pointer.  A list is not represented by what is in it but by        *)
(* whether there is something in it, a pointer by the list it points into. *)
(* The backend answers in order (AptWorkerLink).                           *)
(***************************************************************************)
EXTENDS Integers, Sequences, FiniteSets

CONSTANTS
  MaxEvents,      \* bound: what the user and D-Bus clients do
  MaxListings     \* bound: requests for the list that are outstanding

ASSUME ListingAssumption == MaxEvents \in Nat /\ MaxListings \in Nat \ {0}

VARIABLES
  state,       \* pkg_list_state
  lists,       \* install_sections, upgradeable_, installed_, search_result_packages
  merged,      \* replies that were put into them since they were freed
  view,        \* cur_view_struct
  shown,       \* the list that global_packages is in
  background,  \* the list that gpiib_next is in
  requests,    \* what the backend has been asked
  level,       \* updating_level
  timers,      \* timeouts of show_updating that have not fired
  events

listingVars ==
  <<state, lists, merged, view, shown, background, requests, level, timers, events>>

Views == {"main", "install", "section", "upgrade", "uninstall", "search"}

Parent(v) == IF v \in {"section", "search"} THEN "install" ELSE "main"

\* Pointers; "freed" is one into a list that is no more.
Pointers == {"none", "section", "upgradeable", "installed", "results", "freed"}

\* install_sections: no list, one section without packages, few packages in one
\* section for all, many of one category, or sections by category.
Lists == [sections : {"none", "empty", "few", "one", "many"},
          upgradeable : BOOLEAN, installed : BOOLEAN, results : BOOLEAN]

NoLists == [sections |-> "none", upgradeable |-> FALSE, installed |-> FALSE, results |-> FALSE]

OneSection(ls) == ls.sections \in {"empty", "few", "one"}

Kinds == {"list", "info", "search"}

\* How many requests of a kind are among those that were sent.
Times(kind, sent) == Cardinality({i \in DOMAIN sent : sent[i] = kind})
Count(kind)       == Times(kind, requests)

-----------------------------------------------------------------------------
(* Views *)

\* The list a view shows; the current section may be gone.
Shows(v, ls) ==
  CASE v = "install" /\ ls.sections \in {"few", "one"} -> {"section"}
    [] v = "section" /\ ls.sections \in {"one", "many"} -> {"section", "none"}
    [] v = "upgrade" /\ ls.upgradeable -> {"upgradeable"}
    [] v = "uninstall" /\ ls.installed -> {"installed"}
    [] v = "search" /\ ls.results -> {"results"}
    [] OTHER -> {"none"}

\* Which views call get_package_infos_in_background.
Retrieves(v, ls, l) ==
  \/ v \in {"main", "upgrade", "search"}
  \/ v = "install" /\ OneSection(ls)
  \/ v = "section" /\ l # "none"

\* gpiib_trigger: the next package that has no details yet is asked for, if any.
Triggered(l, sent) ==
  {[next |-> "none", sent |-> sent]} \cup
  IF l = "none" THEN {} ELSE {[next |-> n, sent |-> Append(sent, "info")] : n \in {l, "none"}}

\* show_view, when the lists are ls: the list of the view, and what may become of the
\* pointers w and b and of the requests that were sent.  The window keeps its pointer
\* when the view has no list or an empty one (make_global_package_list).
Shown(v, ls, w, b, sent) ==
  UNION {{[list |-> l, shown |-> IF l = "none" THEN w ELSE l, next |-> t.next, sent |-> t.sent] :
            t \in IF Retrieves(v, ls, l) THEN Triggered(l, sent) ELSE {[next |-> b, sent |-> sent]}} :
         l \in Shows(v, ls)}

Show(v, ls, w, b, sent) ==
  \E d \in Shown(v, ls, w, b, sent) : shown' = d.shown /\ background' = d.next /\ requests' = d.sent

Event == events < MaxEvents /\ events' = events + 1

ListingInit ==
  /\ state = "unknown" /\ lists = NoLists /\ merged = 0 /\ view = "main"
  /\ shown = "none" /\ background = "none" /\ requests = <<>>
  /\ level = 0 /\ timers = 0 /\ events = 0

\* A button of the main view, or a section.
OpenView(v) ==
  /\ Event /\ v \notin {"main", "search"} /\ Parent(v) = view
  /\ v = "section" => lists.sections = "many"
  /\ view' = v /\ Show(v, lists, shown, background, requests)
  /\ UNCHANGED <<state, lists, merged, level, timers>>

\* The window on top is closed.  Its parent is drawn again if it learns of that
\* before it comes to the top; the main view never is.
ToParent(w, b, sent) ==
  /\ view' = Parent(view)
  /\ \/ Parent(view) # "main" /\ Show(Parent(view), lists', w, b, sent)
     \/ shown' = w /\ background' = b /\ requests' = sent

GoBack ==
  /\ Event /\ view # "main" /\ UNCHANGED lists
  /\ ToParent(shown, background, requests)
  /\ UNCHANGED <<state, merged, level, timers>>

-----------------------------------------------------------------------------
(* Refreshing *)

\* Mutant: the background retrieval goes on.
StartUncancelled ==
  /\ state' = "retrieving" /\ lists' = NoLists /\ merged' = 0 /\ shown' = "none"
  /\ background' = IF background = "none" THEN "none" ELSE "freed"
  /\ requests' = Append(requests, "list") /\ timers' = timers + 1

\* get_package_list_with_cont
Start ==
  /\ state' = "retrieving" /\ lists' = NoLists /\ merged' = 0 /\ shown' = "none"
  /\ background' = "none"
  /\ requests' = Append(requests, "list") /\ timers' = timers + 1

\* Called at the start, by flows, and by the dialogs of the settings and of the
\* pills, which do not wait for an earlier request.
GetPackageList ==
  /\ Event /\ Count("list") < MaxListings
  /\ Start
  /\ UNCHANGED <<view, level>>

\* updating_timeout, two seconds after show_updating
UpdatingTimeout ==
  /\ timers > 0 /\ timers' = timers - 1 /\ level' = level + 1
  /\ UNCHANGED <<state, lists, merged, view, shown, background, requests, events>>

\* Mutant: only an answer hides the banner.
HideIfAnswered(answered) == level' = IF answered THEN level - 1 ELSE level

\* hide_updating is called first, even if the backend is gone.
Hide(answered) == level' = level - 1

\* What becomes of a pointer when the sections are freed.
Freed(p) == IF p = "section" THEN "freed" ELSE p

\* get_package_list_reply: few packages go into one section, and those that were
\* made before are freed.
Merge(s) == [sections |-> s, freed |-> s \in {"empty", "few"} /\ lists.sections # "none"]

\* The lists are sorted and shown, but for the main view; a view of search results,
\* or of a section that is gone, gives way to its parent.
ListReply(answered, s, u, i) ==
  LET r     == Merge(s)
      ls    == [lists EXCEPT !.sections = r.sections, !.upgradeable = @ \/ u, !.installed = @ \/ i]
      w     == IF answered /\ r.freed THEN Freed(shown) ELSE shown
      b     == IF answered /\ r.freed THEN Freed(background) ELSE background
      Leaves(l) == view = "search" \/ (view = "section" /\ (lists'.sections # "many" \/ l = "none"))
  IN /\ requests # <<>> /\ Head(requests) = "list"
     /\ answered \/ (s = "empty" /\ ~u /\ ~i)
     /\ Hide(answered) /\ state' = "ready"
     /\ lists' = IF answered THEN ls ELSE lists
     /\ merged' = IF answered THEN merged + 1 ELSE merged
     /\ IF view = "main"
        THEN shown' = w /\ background' = b /\ requests' = Tail(requests) /\ UNCHANGED view
        ELSE \E d \in Shown(view, lists', w, b, Tail(requests)) :
               IF Leaves(d.list) THEN ToParent(d.shown, d.next, d.sent)
               ELSE shown' = d.shown /\ background' = d.next /\ requests' = d.sent /\ UNCHANGED view
     /\ UNCHANGED <<timers, events>>

\* gpi_reply, gpiib_done.  The lists are sorted by name: no user can choose the
\* size, by which they would be sorted again after the last package.
InfoReply ==
  /\ requests # <<>> /\ Head(requests) = "info"
  /\ \E t \in Triggered(background, Tail(requests)) : background' = t.next /\ requests' = t.sent
  /\ UNCHANGED <<state, lists, merged, view, shown, level, timers, events>>

\* dsp_with_initialized_packages, search_packages
Search ==
  /\ Event
  /\ view' = "install" /\ timers' = timers + 1
  /\ \E d \in Shown("install", lists, shown, background, requests) :
       shown' = d.shown /\ background' = d.next /\ requests' = Append(d.sent, "search")
  /\ UNCHANGED <<state, lists, merged, level>>

\* search_packages_reply: what the backend has found is looked up in the first
\* section, for the names that are in it.
SearchReply(answered, found) ==
  /\ requests # <<>> /\ Head(requests) = "search"
  /\ found => answered /\ lists.sections \in {"few", "one", "many"}
  /\ Hide(answered)
  /\ IF answered
     THEN /\ lists' = [lists EXCEPT !.results = found] /\ view' = "search"
          /\ Show("search", lists', "none", background, Tail(requests))
     ELSE /\ UNCHANGED <<lists, view, shown, background>> /\ requests' = Tail(requests)
  /\ UNCHANGED <<state, merged, timers, events>>

BackendAnswers ==
  \/ \E answered, u, i \in BOOLEAN, s \in {"empty", "few", "one", "many"} :
       ListReply(answered, s, u, i)
  \/ InfoReply
  \/ \E answered, found \in BOOLEAN : SearchReply(answered, found)

ListingNext ==
  \/ \E v \in Views : OpenView(v)
  \/ GoBack \/ GetPackageList \/ UpdatingTimeout \/ Search
  \/ BackendAnswers

ListingSpec == ListingInit /\ [][ListingNext]_listingVars

\* Every request is answered, if only because the backend is gone (AptWorkerLink),
\* and the main loop dispatches timeouts.
ListingFairSpec ==
  ListingSpec /\ WF_listingVars(BackendAnswers) /\ WF_listingVars(UpdatingTimeout)

-----------------------------------------------------------------------------
ListingTypeOK ==
  /\ state \in {"unknown", "retrieving", "ready"} /\ lists \in Lists /\ merged \in Nat
  /\ view \in Views /\ shown \in Pointers /\ background \in Pointers
  /\ requests \in Seq(Kinds) /\ level \in Int /\ timers \in Nat
  /\ events \in 0 .. MaxEvents

\* "We must never cancel this timeout since otherwise the UPDATING_LEVEL will get
\* out of sync" (show_updating).
LevelInSync == level + timers = Count("list") + Count("search")

\* The program does not wait for a list that nobody has been asked for.
RetrievingIsAsked == state = "retrieving" => Count("list") > 0

\* A pointer is into a list that exists, or is known to be lost.
Points(p, ls) ==
  /\ p = "section" => ls.sections \in {"few", "one", "many"}
  /\ p = "upgradeable" => ls.upgradeable
  /\ p = "installed" => ls.installed
  /\ p = "results" => ls.results

ListingInv ==
  /\ ListingTypeOK /\ LevelInSync /\ RetrievingIsAsked
  /\ Points(shown, lists) /\ Points(background, lists)

\* Neither the window nor the background retrieval is left with a list that was
\* freed, unless two replies were put into the same lists.
PointersLive == "freed" \in {shown, background} => merged > 1

\* "... cancel the package info getting in the background before freeing the list"
\* (get_package_list_with_cont)
BackgroundCancelled == background # "freed"

\* When nothing more is asked for, the banner "Updating" goes away.
BannerGoesAway == level > 0 ~> level <= 0
=============================================================================
