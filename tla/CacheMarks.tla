------------------------------ MODULE CacheMarks ------------------------------
(***************************************************************************)
(* How apt-worker marks packages to try out an installation or a removal.  *)
(*                                                                         *)
(* Each of its functions that call themselves is here one call, whose      *)
(* inner calls go to a function Call, and that function by the number of   *)
(* calls that may still be nested.  A call that goes on marks one more     *)
(* package, so that as many calls as there are packages are enough         *)
(* (RelatedThroughout and RemovedThroughout of PackageCache_proofs); only  *)
(* those of mark_for_install_1 are counted by the code.                    *)
(***************************************************************************)
EXTENDS DepCache, FiniteSetsExt

\* mark_related, for version v of p: when a package is not configured, all that p
\* depends on is related.
RelateOnce(now, Call, related, p, v) ==
  LET More(d, r) == IF now.have[d[1]] = 0 THEN r ELSE Call[d[1]][r]
  IN IF p \in related THEN related
     ELSE IF now.bad = {} THEN related \cup {p}
     ELSE FoldSet(More, related \cup {p}, Needs(p, v))

Relating(now) ==
  LET calls[n \in Nat] ==
        [p \in Packages |-> [r \in SUBSET Packages |->
           IF n = 0 THEN r ELSE RelateOnce(now, calls[n - 1], r, p, now.have[p])]]
  IN calls

MarkRelated(now, related, p, v) ==
  RelateOnce(now, Relating(now)[Cardinality(Packages)], related, p, v)

\* cache_reset_package, for some packages.
ResetPackages(now, m, ps) ==
  [mode    |-> [p \in Packages |-> IF p \in ps THEN "keep" ELSE m.mode[p]],
   auto    |-> (m.auto \ ps) \cup (now.auto \cap ps),
   soft    |-> m.soft \ ps,
   related |-> m.related \ ps]

\* mark_for_remove_1: with p go its automatic dependencies.
RemoveOnce(now, Call, m, p, soft) ==
  LET d == [m EXCEPT !.mode[p] = IF now.have[p] = 0 THEN "keep" ELSE "delete",
                     !.auto = @ \ {p},
                     !.soft = IF soft THEN @ \cup {p} ELSE @ \ {p}]
      Unused(q, n) == q \in n.auto /\ now.have[q] # 0 /\ q \notin UserPackages
      Go(x, n) == IF Unused(x[1], n) THEN Call[x[1]][n] ELSE n
  IN IF m.mode[p] = "delete" THEN m
     ELSE IF now.have[p] = 0 THEN d
     ELSE FoldSet(Go, d, Needs(p, now.have[p]))

Removing(now) ==
  LET calls[n \in Nat] ==
        [p \in Packages |-> [m \in Marks |->
           IF n = 0 THEN m ELSE RemoveOnce(now, calls[n - 1], m, p, TRUE)]]
  IN calls

MarkForRemove1(now, m, p, soft) == RemoveOnce(now, Removing(now)[Cardinality(Packages)], m, p, soft)

\* What is removed softly although it is needed.
PutBack(now, m) ==
  {q \in Deleted(m) \cap m.soft :
     \E p \in Packages : /\ InstVer(now, m, p) # 0
                         /\ q \in {d[1] : d \in Needs(p, InstVer(now, m, p))}}

\* Mutant: one round only.
FixOnce(now, m) == ResetPackages(now, m, PutBack(now, m))

\* fix_soft_packages: until nothing changes, which is after a round for each package.
Fixing(now) ==
  LET rounds[n \in Nat] ==
        [m \in Marks |-> IF n = 0 \/ PutBack(now, m) = {} THEN m
                         ELSE rounds[n - 1][ResetPackages(now, m, PutBack(now, m))]]
  IN rounds

FixSoftPackages(now, m) == Fixing(now)[Cardinality(Packages)][m]

\* Mutant: whatever is replaced is removed.
ReplacedAny(now, m, p) ==
  LET v == InstVer(now, m, p) IN {q \in Against(p, v) \cap Replaces(p, v) : InstVer(now, m, q) # 0}

\* The packages that p both conflicts with and replaces; those of the user stay.
Replaced(now, m, p) ==
  LET v == InstVer(now, m, p)
  IN {q \in Against(p, v) \cap Replaces(p, v) : InstVer(now, m, q) # 0} \ UserPackages

\* mark_for_install_1
InstallOnce(now, Call, m, p) ==
  LET r == [m EXCEPT !.related = MarkRelated(now, @, p, Cand(now, p))]
      i == IF Cand(now, p) = now.have[p] THEN [r EXCEPT !.mode[p] = "keep"]
           ELSE [r EXCEPT !.mode[p] = "install", !.auto = @ \ {p}]
      \* The automatic flag is set after MarkInstall has cleared it.
      Satisfy(d, n) ==
        IF ~Unmet(now, n, d) \/ Cand(now, d[1]) < d[2] THEN n
        ELSE [Call[d[1]][n] EXCEPT !.auto = IF now.have[d[1]] = 0 THEN @ \cup {d[1]} ELSE @]
      s == FoldSet(Satisfy, i, Needs(p, Cand(now, p)))
  IN IF r.mode[p] = "install" /\ ~Broken(now, r, p) THEN r
     ELSE FoldSet(LAMBDA q, n : MarkForRemove1(now, n, q, TRUE), s, Replaced(now, s, p))

Installing(now) ==
  LET calls[n \in Nat] ==
        [p \in Packages |-> [m \in Marks |-> IF n = 0 THEN m ELSE InstallOnce(now, calls[n - 1], m, p)]]
  IN calls

\* "This check is just to be extra robust against infinite recursions": it returns at
\* once when the level is greater.
MaxLevel == 100

MarkForInstall1(now, m, p) == Installing(now)[MaxLevel + 1][p][m]

\* mark_sys_upgrades
MarkSysUpgrades(now, m) ==
  LET Upgrade(p, n) == IF n.mode[p] = "keep" THEN MarkForInstall1(now, n, p) ELSE n
  IN FixSoftPackages(now, FoldSet(Upgrade, m, {p \in Packages \ UserPackages : now.have[p] # 0}))

\* mark_named_package_for_install, mark_for_remove: what op marks, beside what m has.
Marked(now, m, op) ==
  IF ~op.install THEN FixSoftPackages(now, MarkForRemove1(now, m, op.package, FALSE))
  ELSE IF op.package = Sys THEN MarkSysUpgrades(now, m)
  ELSE FixSoftPackages(now, MarkForInstall1(now, m, op.package))
=============================================================================
