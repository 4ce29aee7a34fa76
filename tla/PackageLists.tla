---------------------------- MODULE PackageLists ----------------------------
(***************************************************************************)
(* The "transaction" by which the backend refreshes the package lists      *)
(* (update_package_cache, download_lists and the file tree helpers of      *)
(* apt-worker.cc): the directory lists is duplicated with hard links to    *)
(* lists.new, apt downloads into lists.new, files that apt has not asked   *)
(* for are removed from there, and then the directories are swapped by two *)
(* renames.  The backend may be killed between any two system calls (a     *)
(* weak worker is, by a strong one: AptWorkerLock).                        *)
(*                                                                         *)
(* Each repository has a Release file, and a Packages file that apt asks   *)
(* for next.  A file is abstracted to the version of it that was           *)
(* downloaded.  Equal versions in two directories are links to one file.   *)
(***************************************************************************)
EXTENDS Integers

CONSTANTS
  Repositories, \* those that sources.list may have
  MaxVersion,   \* bound: versions of a file that are published
  MaxCrashes    \* bound: kills of the backend

ASSUME ListsAssumption == MaxVersion \in Nat \ {0} /\ MaxCrashes \in Nat

VARIABLES
  dir,       \* the three directories
  server,    \* the version of each file that is published
  listed,    \* the repositories in sources.list
  step,      \* where update_package_cache is
  items,     \* files that apt asks for in this update
  todo,      \* those it has not tried to fetch yet
  failed,    \* some_failed
  goal,      \* what lists.new contained when the download was complete
  base,      \* what the swap has put in place last
  result,    \* result code of the last update
  crashes

listsVars == <<dir, server, listed, step, items, todo, failed, goal, base, result, crashes>>

IndicesOf(r) == {<<r, "Release">>, <<r, "Packages">>}
Files    == Repositories \X {"Release", "Packages"}
Dirs     == {"lists", "new", "old"}
Versions == 0 .. MaxVersion     \* 0: the file is not there
Content  == [Files -> Versions]
Nothing  == [f \in Files |-> 0]
Absent   == [exists |-> FALSE, at |-> Nothing]
Holding(content) == [exists |-> TRUE, at |-> content]

ListsInit ==
  /\ base = [f \in Files |-> 1]
  /\ dir = [d \in Dirs |-> IF d = "lists" THEN Holding(base) ELSE Absent]
  /\ server = [f \in Files |-> 1]
  /\ listed = Repositories
  /\ step = "idle"
  /\ items = {} /\ todo = {} /\ failed = FALSE
  /\ goal = Nothing
  /\ result = "none"
  /\ crashes = 0

-----------------------------------------------------------------------------
(* The file system *)

Put(d, f, v) == dir' = [dir EXCEPT ![d].at[f] = v]

\* One step of unlink_file_tree: a file is unlinked, or the directory is
\* removed when it is empty.
UnlinkStep(d) ==
  /\ dir[d].exists
  /\ \/ \E f \in Files : dir[d].at[f] # 0 /\ Put(d, f, 0)
     \/ dir[d].at = Nothing /\ dir' = [dir EXCEPT ![d] = Absent]

\* rename (from, to) of directories: to may exist only if it is empty.
Renames(from, to) == dir[from].exists /\ dir[to].at = Nothing
Rename(from, to) ==
  IF Renames(from, to) THEN dir' = [dir EXCEPT ![to] = dir[from], ![from] = Absent]
  ELSE dir' = dir

download == <<items, todo, failed>>

-----------------------------------------------------------------------------
(* update_package_cache *)

Begin ==
  /\ step = "idle"
  /\ step' = "unlink_new" /\ result' = "none"
  /\ UNCHANGED <<dir, server, listed, download, goal, base, crashes>>

\* unlink_file_tree (d), at the place of the code called here, then there.
UnlinkTree(here, d, there) ==
  /\ step = here
  /\ \/ UnlinkStep(d) /\ step' = step
     \/ ~dir[d].exists /\ dir' = dir /\ step' = there
  /\ UNCHANGED <<server, listed, download, goal, base, result, crashes>>

UnlinkNew == UnlinkTree("unlink_new", "new", "duplink")

\* duplink_file_tree: a directory, then one link after the other.  Its errors
\* are ignored; without lists it does nothing.
Duplink ==
  /\ step = "duplink"
  /\ \/ /\ dir["lists"].exists /\ ~dir["new"].exists
        /\ dir' = [dir EXCEPT !["new"].exists = TRUE]
        /\ step' = step
     \/ /\ dir["new"].exists
        /\ \E f \in Files : /\ dir["lists"].at[f] # dir["new"].at[f]
                            /\ Put("new", f, dir["lists"].at[f])
        /\ step' = step
     \/ /\ ~dir["lists"].exists \/ dir["new"] = dir["lists"]
        /\ dir' = dir
        /\ step' = "sources"
  /\ UNCHANGED <<server, listed, download, goal, base, result, crashes>>

\* download_lists: ReadMainList, and GetIndexes, which asks for the Release files.
ReadSources ==
  /\ step = "sources" /\ dir["new"].exists
  /\ step' = "download"
  /\ items' = listed \X {"Release"} /\ todo' = items' /\ failed' = FALSE
  /\ UNCHANGED <<dir, server, listed, goal, base, result, crashes>>

\* download_lists: the list of sources cannot be read, the lock file cannot be
\* created (without the directory, for one), the user cancels, or the fetcher gives up.
DownloadFails ==
  /\ step \in {"sources", "download"}
  /\ step' = "cleanup" /\ result' = "failure"
  /\ UNCHANGED <<dir, server, listed, download, goal, base, crashes>>

\* After f apt asks for more.
AsksFor(f, more) ==
  /\ step = "download" /\ f \in todo
  /\ items' = items \cup more /\ todo' = (todo \ {f}) \cup more
  /\ UNCHANGED <<server, listed, step, goal, base, result, crashes>>

Behind(f) == IF f[2] = "Release" THEN {<<f[1], "Packages">>} ELSE {}

\* apt downloads to partial/ and renames: a new file replaces the link.
Fetch(f) ==
  /\ AsksFor(f, Behind(f))
  /\ Put("new", f, server[f]) /\ failed' = failed

\* Without the Release file apt may ask for the Packages file, or not: it may not have
\* "been downloaded yet" when the files are cleaned.
FetchFails(f) ==
  /\ \E more \in {{}, Behind(f)} : AsksFor(f, more)
  /\ dir' = dir /\ failed' = TRUE

DownloadDone ==
  /\ step = "download" /\ todo = {}
  /\ step' = "clean"
  /\ UNCHANGED <<dir, server, listed, download, goal, base, result, crashes>>

\* Fetcher.Clean: files that apt did not ask for are removed.
Clean(f) ==
  /\ step = "clean" /\ f \notin items /\ dir["new"].at[f] # 0
  /\ Put("new", f, 0)
  /\ UNCHANGED <<server, listed, step, download, goal, base, result, crashes>>

Cleaned ==
  /\ step = "clean" /\ \A f \in Files \ items : dir["new"].at[f] = 0
  /\ step' = "unlink_old"
  /\ goal' = dir["new"].at
  /\ result' = IF failed THEN "partial_success" ELSE "success"
  /\ UNCHANGED <<dir, server, listed, download, base, crashes>>

\* Mutant: an old directory is expected only if this update has made it.
KeepOld ==
  /\ step = "unlink_old" /\ step' = "swap_out"
  /\ UNCHANGED <<dir, server, listed, download, goal, base, result, crashes>>

UnlinkOld == UnlinkTree("unlink_old", "old", "swap_out")

\* Mutant: the lists are removed to make room, not kept until the swap is done.
SwapOutByUnlink ==
  /\ step = "swap_out" /\ step' = "swap_in"
  /\ dir' = [dir EXCEPT !["lists"] = Absent]
  /\ UNCHANGED <<server, listed, download, goal, base, result, crashes>>

SwapOut ==
  /\ step = "swap_out" /\ step' = "swap_in"
  /\ Rename("lists", "old")
  /\ UNCHANGED <<server, listed, download, goal, base, result, crashes>>

SwapIn ==
  /\ step = "swap_in" /\ step' = "unlink_after"
  /\ Rename("new", "lists")
  /\ base' = IF Renames("new", "lists") THEN dir["new"].at ELSE base
  /\ UNCHANGED <<server, listed, download, goal, result, crashes>>

UnlinkAfter == UnlinkTree("unlink_after", "old", "idle")

\* A failed download leaves nothing behind.
Cleanup == UnlinkTree("cleanup", "new", "idle")

-----------------------------------------------------------------------------
(* The environment *)

Publish(f) ==
  /\ server[f] < MaxVersion
  /\ server' = [server EXCEPT ![f] = @ + 1]
  /\ UNCHANGED <<dir, listed, step, download, goal, base, result, crashes>>

\* A catalogue is added, removed, enabled or disabled.
Edit(r) ==
  /\ listed' = IF r \in listed THEN listed \ {r} ELSE listed \cup {r}
  /\ UNCHANGED <<dir, server, step, download, goal, base, result, crashes>>

\* The backend is killed; the next one starts anew.
Crash ==
  /\ step # "idle" /\ crashes < MaxCrashes
  /\ crashes' = crashes + 1
  /\ step' = "idle" /\ result' = "none"
  /\ UNCHANGED <<dir, server, listed, download, goal, base>>

ListsNext ==
  \/ Begin \/ UnlinkNew \/ Duplink \/ ReadSources
  \/ DownloadFails \/ DownloadDone \/ Cleaned
  \/ \E f \in Files : Fetch(f) \/ FetchFails(f) \/ Clean(f) \/ Publish(f)
  \/ UnlinkOld \/ SwapOut \/ SwapIn \/ UnlinkAfter \/ Cleanup
  \/ \E r \in Repositories : Edit(r)
  \/ Crash

ListsSpec == ListsInit /\ [][ListsNext]_listsVars

-----------------------------------------------------------------------------
(* Properties *)

Steps == {"idle", "unlink_new", "duplink", "sources", "download", "clean", "unlink_old",
          "swap_out", "swap_in", "unlink_after", "cleanup"}

\* Types; a directory that is not there holds nothing.
ListsTypeOK ==
  /\ dir \in [Dirs -> [exists : BOOLEAN, at : Content]]
  /\ \A d \in Dirs : ~dir[d].exists => dir[d].at = Nothing
  /\ server \in [Files -> 1 .. MaxVersion]
  /\ listed \subseteq Repositories
  /\ step \in Steps
  /\ todo \subseteq items /\ items \subseteq Files /\ failed \in BOOLEAN
  /\ goal \in Content /\ base \in Content
  /\ result \in {"none", "failure", "partial_success", "success"}
  /\ crashes \in 0 .. MaxCrashes

\* "If we get interrupted half-way through, all the old files are kept in
\* place" (update_package_cache): whenever no update is running, the lists are those
\* that the last complete transaction has put in place.
OldFilesKept == step = "idle" => dir["lists"] = Holding(base)

\* What is left of that promise: these lists are there, every file of them and no
\* other, under their name or as lists.old, where an interrupted swap has put them.
\* Neither what is downloaded nor what is cleaned or left by an earlier update gets in.
NothingLost ==
  dir["lists"] = Holding(base) \/ (~dir["lists"].exists /\ dir["old"] = Holding(base))

\* The inductive invariant of the transaction: what the two renames start from.
SwapInv ==
  /\ ListsTypeOK /\ NothingLost
  /\ step \in {"duplink", "sources", "download", "clean"} /\ dir["new"].exists
       => dir["lists"] = Holding(base)
  /\ step \in {"download", "clean", "unlink_old", "swap_out", "swap_in"} => dir["new"].exists
  /\ step \in {"unlink_old", "swap_out", "unlink_after"} => dir["lists"] = Holding(base)
  /\ step = "swap_out" => ~dir["old"].exists
  /\ step = "swap_in" => ~dir["lists"].exists

\* What a download delivers: nothing of a repository that was not asked for, and, when
\* nothing failed, all that was.
Delivered ==
  /\ \A f \in Files : goal[f] # 0 => f \in items
  /\ result = "success" => \A f \in items : goal[f] # 0 /\ IndicesOf(f[1]) \subseteq items

\* An update that reports success has put in place exactly what it downloaded,
\* whatever earlier, interrupted updates have left in lists.new and lists.old; and
\* one that comes to its end removes lists.new, and lists.old if it swapped.
FinishesClean ==
  step = "idle" /\ result # "none" =>
    /\ ~dir["new"].exists
    /\ result # "failure" => dir["lists"].at = goal /\ ~dir["old"].exists /\ Delivered
=============================================================================
