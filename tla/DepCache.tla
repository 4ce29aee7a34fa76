------------------------------- MODULE DepCache -------------------------------
(***************************************************************************)
(* What apt-worker relies on in libapt-pkg: the candidate of a package,    *)
(* what is broken when some packages are marked, and which packages are    *)
(* needed by none.  All of it depends on the status of the packages (now): *)
(* the versions that are installed, those that are not configured, and the *)
(* automatic flags that the cache is reset to.                             *)
(*                                                                         *)
(* A version is a number, 0 for none.  The dependencies have no            *)
(* alternatives, and what the repositories offer does not change.          *)
(***************************************************************************)
EXTENDS Integers, FiniteSets

CONSTANTS
  Packages,
  UserPackages,   \* is_user_package
  Available,      \* [Packages -> versions that the repositories have]
  Start,          \* the versions that may be installed at first
  Needs(_, _),    \* package, version: the <<package, least version>> it depends on
  Against(_, _),  \* package, version: those it conflicts with
  Replaces(_, _)  \* package, version: those it replaces

Sys  == "magic:sys"
NoOp == [package |-> "", install |-> FALSE]

\* Every status that packages may have.
Versions(p) == {0, Available[p]} \cup {s[p] : s \in Start}
Statuses ==
  {now \in [have : {h \in [Packages -> UNION {Versions(p) : p \in Packages}] :
                     \A p \in Packages : h[p] \in Versions(p)},
            bad : SUBSET Packages, auto : SUBSET Packages] :
     now.bad \subseteq {p \in Packages : now.have[p] # 0}}

ASSUME DepCacheAssumption ==
  /\ IsFiniteSet(Packages) /\ UserPackages \subseteq Packages
  /\ Sys \notin Packages /\ "" \notin Packages
  /\ Available \in [Packages -> Nat] /\ Start \subseteq [Packages -> Nat]

\* A version depends on finitely many packages, and conflicts with packages.
ASSUME VersionsAssumption ==
  \A p \in Packages : \A v \in Versions(p) :
    /\ IsFiniteSet(Needs(p, v)) /\ Against(p, v) \subseteq Packages
    /\ \A d \in Needs(p, v) : d = <<d[1], d[2]>> /\ d[1] \in Packages /\ d[2] \in Nat

\* What can be tried: the user installs and removes applications, or updates the
\* system.
ToInstall(p) == [package |-> p, install |-> TRUE]
ToRemove(p)  == [package |-> p, install |-> FALSE]
Ops == {ToInstall(p) : p \in UserPackages \cup {Sys}} \cup {ToRemove(p) : p \in UserPackages}

\* What is marked in a cache.
Marks == [mode : [Packages -> {"keep", "install", "delete"}], auto : SUBSET Packages,
          soft : SUBSET Packages, related : SUBSET Packages]

\* The candidate is the newest version; myPolicy excludes none (see the README).
Cand(now, p) == IF Available[p] > now.have[p] THEN Available[p] ELSE now.have[p]

\* The version of p that m comes to.
InstVer(now, m, p) ==
  CASE m.mode[p] = "install" -> Cand(now, p)
    [] m.mode[p] = "delete"  -> 0
    [] OTHER                 -> now.have[p]

Unmet(now, m, d)  == InstVer(now, m, d[1]) < d[2]
Broken(now, m, p) ==
  LET v == InstVer(now, m, p)
  IN v # 0 /\ \/ \E d \in Needs(p, v) : Unmet(now, m, d)
              \/ \E q \in Against(p, v) : InstVer(now, m, q) # 0

\* cache_reset
Kept(auto) == [mode |-> [p \in Packages |-> "keep"], auto |-> auto, soft |-> {}, related |-> {}]

Deleted(m)   == {p \in Packages : m.mode[p] = "delete"}
Installed(m) == {p \in Packages : m.mode[p] = "install"}

\* Installed automatically, and needed by nothing that was not.
Garbage(have, auto) ==
  LET Roots == {p \in Packages : have[p] # 0 /\ p \notin auto}
      More(s) == s \cup {d[1] : d \in UNION {Needs(p, have[p]) : p \in s}}
      Needed[n \in 0 .. Cardinality(Packages)] == IF n = 0 THEN Roots ELSE More(Needed[n - 1])
  IN {p \in Packages : have[p] # 0} \ Needed[Cardinality(Packages)]

\* Packages that are marked for removal whatever else is marked.
Doomed(m, ps) == [m EXCEPT !.mode = [p \in Packages |-> IF p \in ps THEN "delete" ELSE m.mode[p]]]
=============================================================================
