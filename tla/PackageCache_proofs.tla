-------------------------- MODULE PackageCache_proofs --------------------------
(***************************************************************************)
(* Proofs about the package cache.  What apt-worker marks is fit to be     *)
(* carried out and breaks nothing that is needed; what is marked is what   *)
(* belongs to the operation on record, an installation takes no update     *)
(* from a worse domain without a question, and neither an installation nor *)
(* a removal touches what nobody has asked for.                            *)
(***************************************************************************)
EXTENDS PackageCache, FiniteSetTheorems, SequenceTheorems, WellFoundedInduction, TLAPS
-----------------------------------------------------------------------------
(* The inductive invariant *)

\* The status, and what the backend remembers of it.
Typed ==
  /\ Now \in Statuses /\ autoinst = autoFile
  /\ domains \in Configs /\ domFile \in [Domains -> SUBSET Packages] /\ cur \in [Packages -> Numbers]
  /\ open \in BOOLEAN /\ memo \in Ops \cup {NoOp}
  /\ lost \subseteq Packages /\ unasked \subseteq Packages /\ agreed \subseteq Packages
  /\ renumbered \subseteq Packages
  /\ disturbed \in BOOLEAN

\* Only an autoremove that was given up leaves more, and then the cache is there.
MarksKnown ==
  /\ Fits(Now, marks)
  /\ NoResidue
  /\ disturbed => open

\* Requests of the flow, of which there is one at a time.
FlowCmds  == {"check", "rmcheck", "flowinfo", "download", "install", "remove", "relist", "autoremove"}
TriedCmds == {"info", "details", "check", "rmcheck", "flowinfo", "download", "install", "remove"}
Sets      == {"check", "download", "install"}
Wants     == {"flowinfo", "download", "install"}

Requests ==
  {r \in [cmd : FlowCmds \cup {"info", "details", "list"}, op : Ops \cup {NoOp}] :
     /\ r.cmd \in TriedCmds => r.op \in Ops
     /\ r.cmd \in Sets => r.op.install
     /\ r.cmd \in {"rmcheck", "remove"} => ~r.op.install}

Flows == [step : {"idle", "busy", "confirm", "gone"}, package : UserPackages \cup {Sys, ""},
          from : SUBSET Packages, checked : BOOLEAN]

Quiet(s)  == \A i \in DOMAIN s : s[i].cmd \notin FlowCmds
Single(s) == \A i, j \in DOMAIN s : s[i].cmd \in FlowCmds /\ s[j].cmd \in FlowCmds => i = j

\* A flow that waits for its check has not been checked, and asks for nothing while it
\* waits for the user.
QueueKnown ==
  /\ requests \in Seq(Requests) /\ Single(requests) /\ flow \in Flows
  /\ flow.step # "busy" => Quiet(requests)
  /\ flow.step \in {"busy", "confirm"} => flow.package # ""
  /\ \A r \in Range(requests) :
       r.cmd = "check" => r.op = ToInstall(flow.package) /\ ~flow.checked

\* Packages whose domain the user has been told of, or nobody was asked about, or whose
\* number stands for another domain by now.
Excused == agreed \cup lost \cup unasked \cup renumbered

\* The domain of an update that is compared with some level.
Taken(p, level) == Accepted(Indices(p), domains, FALSE, level)

\* What the user would have to be asked about op, as far as the domains are known.
Questions(op) ==
  {p \in Installed(Marked(Now, Kept(autoinst), op)) :
     have[p] # 0 /\ cur[p] \in DOMAIN domains /\ Level(Taken(p, Level(cur[p]))) < Level(cur[p])}

\* The domains in memory are not worse than those on file, but for the excused.
DomainsKnown ==
  ~disturbed =>
    \A p \in Packages \ Excused :
      have[p] # 0 /\ Recorded[p] # Invalid =>
        cur[p] \in DOMAIN domains /\ Level(cur[p]) >= Level(Recorded[p])

\* After a check nothing is left to be asked before the installation, and the cache that
\* it looked at is still there.
AllAsked ==
  (~disturbed /\ flow.checked) =>
    /\ \A r \in Range(requests) :
         (r.cmd \in Wants /\ r.op.install) => open /\ Questions(r.op) \subseteq Excused
    /\ \A op \in Ops :
         (flow.step = "confirm" /\ op = ToInstall(flow.package)) =>
            open /\ Questions(op) \subseteq (flow.from \cup Excused)

CacheIInv == Typed /\ MarksKnown /\ QueueKnown /\ DomainsKnown /\ AllAsked
-----------------------------------------------------------------------------
(* Sets and sequences *)

\* The greatest of some numbers that have a bound.
LEMMA GreatestOfSome ==
  ASSUME NEW n \in Nat, NEW I \in SUBSET (1 .. n), I # {}
  PROVE  Max(I) \in I
<1> DEFINE From == {i .. n : i \in I}
<1>1. From # {} /\ From \subseteq FiniteSubsetsOf(Nat)
  <2>1. \A i \in I : i .. n \in SUBSET Nat /\ IsFiniteSet(i .. n)
    BY FS_Interval
  <2>2. QED
    BY <2>1 DEF FiniteSubsetsOf
<1>2. PICK X \in From : \A Y \in From : <<Y, X>> \notin StrictSubsetOrdering(Nat)
  BY <1>1, FS_StrictSubsetOrderingWellFounded, WFMin
<1>3. PICK i \in I : X = i .. n
  OBVIOUS
<1>4. \A j \in I : i >= j
  <2>1. SUFFICES ASSUME NEW j \in I, ~(i >= j) PROVE FALSE
    OBVIOUS
  <2>2. i \in Nat /\ j \in Nat /\ i < j /\ j .. n \subseteq i .. n /\ i \in i .. n /\ i \notin j .. n
    BY <2>1
  <2>3. j .. n \in From /\ j .. n \in SUBSET Nat /\ i .. n \in SUBSET Nat /\ j .. n # i .. n
    BY <2>1, <2>2
  <2>4. <<j .. n, X>> \in StrictSubsetOrdering(Nat)
    BY <1>3, <2>2, <2>3 DEF StrictSubsetOrdering
  <2>5. QED
    BY <1>2, <2>3, <2>4
<1>5. QED
  BY <1>4 DEF Max

\* A set of numbers that has 0, and with each number the next one, has them all.
LEMMA EveryNumber ==
  ASSUME NEW T, 0 \in T, \A n \in Nat : n \in T => n + 1 \in T
  PROVE  Nat \subseteq T
<1> DEFINE Others == Nat \ T
<1>1. SUFFICES ASSUME Others # {} PROVE FALSE
  OBVIOUS
<1>2. PICK n \in Others : \A k \in Others : <<k, n>> \notin OpToRel(<, Nat)
  BY <1>1, NatLessThanWellFounded, WFMin
<1>3. n # 0 /\ n - 1 \in Nat /\ n - 1 < n /\ n = (n - 1) + 1
  OBVIOUS
<1>4. <<n - 1, n>> \in OpToRel(<, Nat)
  BY <1>3 DEF OpToRel
<1>5. QED
  BY <1>2, <1>3, <1>4

\* A function can be applied again and again.
Run(S, s, h, g) == g \in [Nat -> S] /\ g[0] = s /\ \A n \in Nat : g[n + 1] = h[g[n]]
Runs(S, s, h)   == \E g : Run(S, s, h, g)

LEMMA Iterates ==
  ASSUME NEW S, NEW s \in S, NEW h \in [S -> S]
  PROVE  Runs(S, s, h)
<1> DEFINE Parts(n) == {f \in [0 .. n -> S] : f[0] = s /\ \A k \in 0 .. n - 1 : f[k + 1] = h[f[k]]}
<1>1. \A n \in Nat : Parts(n) # {}
  <2> DEFINE T == {n \in Nat : Parts(n) # {}}
  <2>1. [k \in 0 .. 0 |-> s] \in Parts(0)
    OBVIOUS
  <2>2. ASSUME NEW n \in Nat, NEW f \in Parts(n) PROVE Parts(n + 1) # {}
    <3> DEFINE e == [k \in 0 .. n + 1 |-> IF k = n + 1 THEN h[f[n]] ELSE f[k]]
    <3>1. f \in [0 .. n -> S] /\ n \in 0 .. n /\ h[f[n]] \in S
      OBVIOUS
    <3>2. e \in [0 .. n + 1 -> S]
      BY <3>1
    <3>3. e[0] = s
      OBVIOUS
    <3>4. \A k \in 0 .. (n + 1) - 1 : e[k + 1] = h[e[k]]
      OBVIOUS
    <3>5. QED
      BY <3>2, <3>3, <3>4
  <2>3. 0 \in T /\ \A n \in Nat : n \in T => n + 1 \in T
    BY <2>1, <2>2
  <2> HIDE DEF T
  <2>4. Nat \subseteq T
    BY <2>3, EveryNumber
  <2>5. QED
    BY <2>4 DEF T
<1>2. \A k, n, m \in Nat : \A f \in Parts(n), e \in Parts(m) : k <= n /\ k <= m => f[k] = e[k]
  <2> DEFINE T == {k \in Nat : \A n, m \in Nat : \A f \in Parts(n), e \in Parts(m) :
                                 k <= n /\ k <= m => f[k] = e[k]}
  <2>1. 0 \in T
    OBVIOUS
  <2>2. ASSUME NEW k \in Nat, k \in T PROVE k + 1 \in T
    <3>1. SUFFICES ASSUME NEW n \in Nat, NEW m \in Nat, NEW f \in Parts(n), NEW e \in Parts(m),
                          k + 1 <= n, k + 1 <= m
                   PROVE  f[k + 1] = e[k + 1]
      OBVIOUS
    <3>2. f[k] = e[k]
      <4>1. k <= n /\ k <= m /\ f \in Parts(n) /\ e \in Parts(m)
        BY <3>1
      <4> HIDE DEF Parts
      <4>2. QED
        BY <2>2, <4>1
    <3>3. f[k + 1] = h[f[k]] /\ e[k + 1] = h[e[k]]
      BY <3>1
    <3>4. QED
      BY <3>2, <3>3
  <2> HIDE DEF T
  <2>3. Nat \subseteq T
    BY <2>1, <2>2, EveryNumber
  <2>4. QED
    BY <2>3 DEF T
<1> DEFINE run(n) == CHOOSE f : f \in Parts(n)
           g == [n \in Nat |-> run(n)[n]]
<1>3. \A n \in Nat : run(n) \in Parts(n)
  BY <1>1
<1> HIDE DEF run
<1>4. g \in [Nat -> S]
  <2>1. \A n \in Nat : run(n) \in [0 .. n -> S] /\ n \in 0 .. n
    BY <1>3
  <2>2. QED
    BY <2>1
<1>5. g[0] = s
  BY <1>3
<1>6. \A n \in Nat : g[n + 1] = h[g[n]]
  <2>1. SUFFICES ASSUME NEW n \in Nat PROVE run(n + 1)[n + 1] = h[run(n)[n]]
    OBVIOUS
  <2>2. run(n) \in Parts(n) /\ run(n + 1) \in Parts(n + 1) /\ n + 1 \in Nat
    BY <1>3
  <2>3. run(n + 1)[n] = run(n)[n]
    <3>1. n <= n /\ n <= n + 1
      OBVIOUS
    <3> HIDE DEF Parts
    <3>2. QED
      BY <1>2, <2>2, <3>1
  <2>4. run(n + 1)[n + 1] = h[run(n + 1)[n]]
    BY <2>2
  <2>5. QED
    BY <2>3, <2>4
<1>7. QED
  BY <1>4, <1>5, <1>6 DEF Run, Runs

\* What is computed for a finite set, one element after the other, exists.
FoldsTo(D, t, h, f) ==
  f = [s \in SUBSET D |->
         IF s = {} THEN t ELSE h[CHOOSE x \in s : TRUE][f[s \ {CHOOSE x \in s : TRUE}]]]
CanFold(D, T, t, h) == \E f : f \in [SUBSET D -> T] /\ FoldsTo(D, t, h, f)

LEMMA Folded ==
  ASSUME NEW D, IsFiniteSet(D), NEW T, NEW t \in T, NEW h \in [D -> [T -> T]]
  PROVE  CanFold(D, T, t, h)
<1> DEFINE one(s)  == CHOOSE x \in s : TRUE
           S       == [SUBSET D -> T]
           next(f) == [s \in SUBSET D |-> IF s = {} THEN t ELSE h[one(s)][f[s \ {one(s)}]]]
<1>1. \A s \in SUBSET D : s # {} => one(s) \in s /\ one(s) \in D /\ s \ {one(s)} \in SUBSET D
  OBVIOUS
<1>2. \A s \in SUBSET D : /\ Cardinality(s) \in Nat
                          /\ s # {} => Cardinality(s) = Cardinality(s \ {one(s)}) + 1
  <2>1. SUFFICES ASSUME NEW s \in SUBSET D
                 PROVE  /\ Cardinality(s) \in Nat
                        /\ s # {} => Cardinality(s) = Cardinality(s \ {one(s)}) + 1
    OBVIOUS
  <2>2. IsFiniteSet(s)
    BY FS_Subset
  <2>3. Cardinality(s) \in Nat
    BY <2>2, FS_CardinalityType
  <2>4. ASSUME s # {} PROVE Cardinality(s) = Cardinality(s \ {one(s)}) + 1
    <3>1. one(s) \in s
      BY <1>1, <2>4
    <3>2. Cardinality(s \ {one(s)}) = Cardinality(s) - 1
      BY <2>2, <3>1, FS_RemoveElement
    <3>3. QED
      BY <2>3, <3>2
  <2>5. QED
    BY <2>3, <2>4
<1> HIDE DEF one
<1>3. \A f \in S : next(f) \in S
  BY <1>1
<1> DEFINE first == [s \in SUBSET D |-> t]
           step  == [f \in S |-> next(f)]
<1>4. first \in S /\ step \in [S -> S]
  BY <1>3
<1> HIDE DEF S, first, step
<1>5. Runs(S, first, step)
  BY <1>4, Iterates
<1> PICK g : Run(S, first, step, g)
  BY <1>5 DEF Runs
<1>6. \A n \in Nat : g[n] \in S /\ g[n + 1] = next(g[n])
  BY DEF Run, step
<1> DEFINE f == [s \in SUBSET D |-> IF s = {} THEN t ELSE g[Cardinality(s)][s]]
<1>7. f \in [SUBSET D -> T]
  BY <1>2, <1>6 DEF S
<1>8. ASSUME NEW s \in SUBSET D, s # {} PROVE f[s] = h[one(s)][f[s \ {one(s)}]]
  <2> DEFINE r == s \ {one(s)}
  <2>1. r \in SUBSET D /\ Cardinality(r) \in Nat /\ Cardinality(s) = Cardinality(r) + 1
    BY <1>1, <1>2, <1>8
  <2>2. f[s] = g[Cardinality(r) + 1][s]
    BY <2>1, <1>8
  <2>3. g[Cardinality(r) + 1] = next(g[Cardinality(r)])
    BY <2>1, <1>6
  <2>4. f[s] = h[one(s)][g[Cardinality(r)][r]]
    BY <2>2, <2>3, <1>8
  <2>5. f[r] = g[Cardinality(r)][r]
    <3>1. CASE r # {}
      BY <2>1, <3>1
    <3>2. CASE r = {}
      <4>1. Cardinality(r) = 0 /\ g[0][r] = t
        BY <3>2, <2>1, FS_EmptySet DEF first, Run
      <4>2. QED
        BY <3>2, <4>1, <2>1
    <3>3. QED
      BY <3>1, <3>2
  <2>6. QED
    BY <2>4, <2>5
<1>9. f = [s \in SUBSET D |-> IF s = {} THEN t ELSE h[one(s)][f[s \ {one(s)}]]]
  <2>1. \A s \in SUBSET D : f[s] = IF s = {} THEN t ELSE h[one(s)][f[s \ {one(s)}]]
    BY <1>8
  <2>2. f = [s \in SUBSET D |-> f[s]]
    BY <1>7
  <2> HIDE DEF f
  <2>3. QED
    BY <2>1, <2>2
<1>10. QED
  BY <1>7, <1>9 DEF one, CanFold, FoldsTo

\* It is in T when it starts there and no element leads out of T.
Within(D, T, f) ==
  f[{}] \in T /\ \A s \in SUBSET D : s # {} => \E x \in s : f[s \ {x}] \in T => f[s] \in T

LEMMA FoldStays ==
  ASSUME NEW D, IsFiniteSet(D), NEW T, NEW f, Within(D, T, f)
  PROVE  f[D] \in T
<1> DEFINE N == {n \in Nat : \A s \in SUBSET D : Cardinality(s) = n => f[s] \in T}
<1>1. \A s \in SUBSET D : IsFiniteSet(s) /\ Cardinality(s) \in Nat
  BY FS_Subset, FS_CardinalityType
<1>2. 0 \in N
  BY <1>1, FS_EmptySet DEF Within
<1>3. ASSUME NEW n \in Nat, n \in N PROVE n + 1 \in N
  <2>1. SUFFICES ASSUME NEW s \in SUBSET D, Cardinality(s) = n + 1 PROVE f[s] \in T
    OBVIOUS
  <2>2. s # {}
    BY <1>1, <2>1, FS_EmptySet
  <2>3. PICK x \in s : f[s \ {x}] \in T => f[s] \in T
    BY <2>2 DEF Within
  <2>4. Cardinality(s \ {x}) = n
    <3>1. Cardinality(s \ {x}) = Cardinality(s) - 1
      BY <1>1, FS_RemoveElement
    <3>2. QED
      BY <2>1, <3>1
  <2>5. QED
    BY <1>3, <2>3, <2>4
<1> HIDE DEF N
<1>4. Nat \subseteq N
  BY <1>2, <1>3, EveryNumber
<1>5. QED
  BY <1>1, <1>4 DEF N

\* Two of them agree when they start alike in T and each element keeps them so.
Together(D, T, f, g) ==
  /\ f[{}] = g[{}] /\ f[{}] \in T
  /\ \A s \in SUBSET D : s # {} =>
       \E x \in s : (f[s \ {x}] = g[s \ {x}] /\ f[s \ {x}] \in T) => (f[s] = g[s] /\ f[s] \in T)

LEMMA FoldsAgree ==
  ASSUME NEW D, IsFiniteSet(D), NEW T, NEW f, NEW g, Together(D, T, f, g)
  PROVE  f[D] = g[D]
<1> DEFINE e  == [s \in SUBSET D |-> <<f[s], g[s]>>]
           T2 == {<<x, x>> : x \in T}
<1>1. \A s \in SUBSET D : e[s] \in T2 <=> f[s] = g[s] /\ f[s] \in T
  OBVIOUS
<1>2. \A s \in SUBSET D : \A x \in s : s \ {x} \in SUBSET D
  OBVIOUS
<1> HIDE DEF e, T2
<1>3. e[{}] \in T2
  BY <1>1 DEF Together
<1>4. ASSUME NEW s \in SUBSET D, s # {} PROVE \E x \in s : e[s \ {x}] \in T2 => e[s] \in T2
  <2>1. PICK x \in s : (f[s \ {x}] = g[s \ {x}] /\ f[s \ {x}] \in T) => (f[s] = g[s] /\ f[s] \in T)
    BY <1>4 DEF Together
  <2>2. e[s \ {x}] \in T2 => e[s] \in T2
    BY <1>1, <1>2, <2>1
  <2>3. QED
    BY <2>2
<1>5. Within(D, T2, e)
  BY <1>3, <1>4 DEF Within
<1>6. e[D] \in T2
  BY <1>5, FoldStays
<1>7. QED
  BY <1>1, <1>6

\* A queue that something is added to.
LEMMA AddedToQueue ==
  ASSUME NEW s \in Seq(Requests), NEW t \in Seq(Requests)
  PROVE  /\ s \o t \in Seq(Requests)
         /\ Range(s \o t) \subseteq Range(s) \cup Range(t)
         /\ Quiet(s) /\ Quiet(t) => Quiet(s \o t)
         /\ Quiet(s) /\ Single(t) => Single(s \o t)
         /\ Single(s) /\ Quiet(t) => Single(s \o t)
<1>1. /\ s \o t \in Seq(Requests) /\ Len(s \o t) = Len(s) + Len(t)
      /\ \A i \in 1 .. Len(s) + Len(t) : (s \o t)[i] = IF i <= Len(s) THEN s[i] ELSE t[i - Len(s)]
      /\ Len(s) \in Nat /\ Len(t) \in Nat
      /\ DOMAIN s = 1 .. Len(s) /\ DOMAIN t = 1 .. Len(t) /\ DOMAIN (s \o t) = 1 .. Len(s) + Len(t)
  BY ConcatProperties
<1> DEFINE u == s \o t
<1>2. \A i \in DOMAIN u : \/ i \in DOMAIN s /\ u[i] = s[i]
                          \/ i \notin DOMAIN s /\ i - Len(s) \in DOMAIN t /\ u[i] = t[i - Len(s)] /\ i \in Nat
  BY <1>1
<1> HIDE DEF u
<1>3. Range(u) \subseteq Range(s) \cup Range(t)
  BY <1>2 DEF Range
<1>4. Quiet(s) /\ Quiet(t) => Quiet(u)
  BY <1>2 DEF Quiet
<1>5. Quiet(s) /\ Single(t) => Single(u)
  BY <1>1, <1>2 DEF Quiet, Single
<1>6. Single(s) /\ Quiet(t) => Single(u)
  BY <1>2 DEF Quiet, Single
<1>7. QED
  BY <1>1, <1>3, <1>4, <1>5, <1>6 DEF u

\* A queue whose first request has been answered.
LEMMA RestOfQueue ==
  ASSUME NEW s \in Seq(Requests), s # << >>, Single(s)
  PROVE  /\ Head(s) \in Requests /\ Head(s) \in Range(s)
         /\ Tail(s) \in Seq(Requests) /\ Range(Tail(s)) \subseteq Range(s) /\ Single(Tail(s))
         /\ Quiet(s) => Quiet(Tail(s)) /\ Head(s).cmd \notin FlowCmds
         /\ Head(s).cmd \in FlowCmds => Quiet(Tail(s))
<1>1. /\ Head(s) = s[1] /\ 1 \in DOMAIN s /\ Tail(s) \in Seq(Requests) /\ Head(s) \in Requests
      /\ \A i \in DOMAIN Tail(s) : i \in Nat /\ i > 0 /\ i + 1 \in DOMAIN s /\ Tail(s)[i] = s[i + 1]
  BY HeadTailProperties
<1>2. Range(Tail(s)) \subseteq Range(s) /\ Head(s) \in Range(s)
  BY <1>1 DEF Range
<1>3. Single(Tail(s))
  BY <1>1 DEF Single
<1>4. Quiet(s) => Quiet(Tail(s)) /\ Head(s).cmd \notin FlowCmds
  BY <1>1 DEF Quiet
<1>5. Head(s).cmd \in FlowCmds => Quiet(Tail(s))
  BY <1>1 DEF Quiet, Single
<1>6. QED
  BY <1>1, <1>2, <1>3, <1>4, <1>5

\* What is in a queue is a request.
LEMMA InQueue ==
  ASSUME NEW s \in Seq(Requests), NEW r \in Range(s)
  PROVE  r \in Requests
<1>1. PICK i \in DOMAIN s : r = s[i]
  BY DEF Range
<1>2. QED
  BY <1>1

\* A request of its own.
LEMMA Asked ==
  ASSUME NEW cmd, NEW op, [cmd |-> cmd, op |-> op] \in Requests
  PROVE  /\ Ask(cmd, op) \in Seq(Requests) /\ Single(Ask(cmd, op))
         /\ Range(Ask(cmd, op)) = {[cmd |-> cmd, op |-> op]}
         /\ cmd \notin FlowCmds => Quiet(Ask(cmd, op))
<1>1. DOMAIN Ask(cmd, op) = {1} /\ Ask(cmd, op)[1] = [cmd |-> cmd, op |-> op]
  BY DEF Ask
<1>2. Ask(cmd, op) \in Seq(Requests)
  BY DEF Ask
<1>3. QED
  BY <1>1, <1>2 DEF Single, Quiet, Range

\* Nothing more is asked.
LEMMA NothingAsked ==
  /\ << >> \in Seq(Requests) /\ Quiet(<< >>) /\ Single(<< >>) /\ Range(<< >>) = {}
<1>1. DOMAIN << >> = {}
  OBVIOUS
<1>2. QED
  BY <1>1 DEF Quiet, Single, Range
-----------------------------------------------------------------------------
(* Domains *)

\* What may be configured.
LEMMA ConfigIs ==
  ASSUME domains \in Configs
  PROVE  /\ Len(domains) \in Nat /\ DOMAIN domains = 1 .. Len(domains)
         /\ Unsigned \in DOMAIN domains /\ Signed \in DOMAIN domains /\ Level(Unsigned) = 0
         /\ Invalid \notin DOMAIN domains /\ DOMAIN domains \subseteq Numbers /\ Invalid \in Numbers
         /\ \A i \in DOMAIN domains : domains[i] \in Domains /\ Level(i) \in Nat
         /\ \A i, j \in DOMAIN domains : domains[i] = domains[j] => i = j
<1>1. /\ domains \in Seq(Domains) /\ IsInjective(domains) /\ Len(domains) >= 2
      /\ domains[Unsigned] = "unsigned"
  BY PackageCacheAssumption DEF Signed
<1>2. Len(domains) \in Nat /\ DOMAIN domains = 1 .. Len(domains) /\ \A i \in DOMAIN domains : domains[i] \in Domains
  BY <1>1
<1>3. Trust \in [Domains -> Nat] /\ Trust["unsigned"] = 0
  BY PackageCacheAssumption
<1>4. \A i \in DOMAIN domains : Level(i) \in Nat
  BY <1>2, <1>3 DEF Level
<1>5. Level(Unsigned) = 0
  BY <1>1, <1>3 DEF Level
<1>6. DOMAIN domains \subseteq Numbers /\ Invalid \in Numbers
  BY DEF Numbers
<1>7. Unsigned \in DOMAIN domains /\ Signed \in DOMAIN domains /\ Invalid \notin DOMAIN domains
  BY <1>1, <1>2 DEF Unsigned, Signed, Invalid
<1>8. \A i, j \in DOMAIN domains : domains[i] = domains[j] => i = j
  BY <1>1 DEF IsInjective
<1>9. QED
  BY <1>2, <1>4, <1>5, <1>6, <1>7, <1>8

\* A domain has its own number, or counts as signed.
LEMMA NumberedIs ==
  ASSUME domains \in Configs
  PROVE  /\ \A d : Numbered(d) \in DOMAIN domains
         /\ \A i \in DOMAIN domains : Numbered(domains[i]) = i
<1>1. \A d : d \in Range(domains) => \E i \in DOMAIN domains : domains[i] = d
  BY DEF Range
<1>2. \A i \in DOMAIN domains : domains[i] \in Range(domains)
  BY DEF Range
<1>3. \A d : d \in Range(domains) => Numbered(d) \in DOMAIN domains /\ domains[Numbered(d)] = d
  BY <1>1 DEF Numbered
<1>4. \A d : d \notin Range(domains) => Numbered(d) = Signed
  BY DEF Numbered
<1>5. QED
  BY <1>2, <1>3, <1>4, ConfigIs

LEMMA IndicesAre ==
  ASSUME domains \in Configs, NEW p \in Packages
  PROVE  /\ Len(Sources[p]) \in Nat /\ DOMAIN Indices(p) = 1 .. Len(Sources[p])
         /\ \A i \in DOMAIN Indices(p) : Indices(p)[i] \in DOMAIN domains
<1>1. Sources[p] \in Seq(Domains)
  BY PackageCacheAssumption
<1>2. Len(Sources[p]) \in Nat /\ DOMAIN Sources[p] = 1 .. Len(Sources[p])
  BY <1>1
<1>3. QED
  BY <1>2, NumberedIs DEF Indices

\* One of the greatest values of a function.
LEMMA GreatestValue ==
  ASSUME NEW n \in Nat, NEW good \in SUBSET (1 .. n), good # {},
         NEW g, \A i \in good : g[i] \in Nat
  PROVE  \E i \in good : \A j \in good : g[j] <= g[i]
<1> DEFINE Best(i, k) == i \in good /\ i <= k /\ \A j \in good : j <= k => g[j] <= g[i]
           T == {k \in Nat : (\E i \in good : Best(i, k)) \/ \A j \in good : ~(j <= k)}
<1>1. 0 \in T
  OBVIOUS
<1>2. ASSUME NEW k \in Nat, k \in T PROVE k + 1 \in T
  <2>1. CASE k + 1 \notin good
    <3>1. \A j \in good : j <= k + 1 <=> j <= k
      BY <2>1
    <3>2. QED
      BY <1>2, <3>1
  <2>2. CASE k + 1 \in good /\ \A j \in good : ~(j <= k)
    <3>1. \A j \in good : j <= k + 1 => j = k + 1
      BY <2>2
    <3>2. g[k + 1] <= g[k + 1]
      BY <2>2
    <3>3. Best(k + 1, k + 1)
      BY <2>2, <3>1, <3>2
    <3>4. QED
      BY <2>2, <3>3
  <2>3. ASSUME k + 1 \in good, NEW i \in good, Best(i, k) PROVE k + 1 \in T
    <3>1. \A j \in good : j <= k + 1 => j <= k \/ j = k + 1
      OBVIOUS
    <3>2. g[i] \in Nat /\ g[k + 1] \in Nat /\ \A j \in good : g[j] \in Nat
      BY <2>3
    <3>3. CASE g[k + 1] <= g[i]
      <4>1. \A j \in good : j <= k + 1 => g[j] <= g[i]
        BY <2>3, <3>1, <3>3
      <4>2. Best(i, k + 1)
        BY <2>3, <4>1
      <4>3. QED
        BY <4>2
    <3>4. CASE ~(g[k + 1] <= g[i])
      <4>1. \A j \in good : j <= k + 1 => g[j] <= g[k + 1]
        BY <2>3, <3>1, <3>2, <3>4
      <4>2. Best(k + 1, k + 1)
        BY <2>3, <4>1
      <4>3. QED
        BY <2>3, <4>2
    <3>5. QED
      BY <3>3, <3>4
  <2>4. QED
    BY <1>2, <2>1, <2>2, <2>3
<1> HIDE DEF T
<1>3. n \in T
  BY <1>1, <1>2, EveryNumber
<1>4. \A j \in good : j <= n
  OBVIOUS
<1>5. QED
  BY <1>3, <1>4 DEF T

\* The domain of an update is the best one or unsigned, depending on that level.
LEMMA AcceptedIs ==
  ASSUME domains \in Configs, NEW p \in Packages
  PROVE  /\ \A new \in BOOLEAN : \A level : Accepted(Indices(p), domains, new, level) \in DOMAIN domains
         /\ \E best \in DOMAIN domains :
              \A level \in Nat : Taken(p, level) = IF Level(best) >= level THEN best ELSE Unsigned
<1> DEFINE s == Indices(p)
           good == {i \in DOMAIN s : s[i] # Unsigned}
           greatest == {i \in good : \A j \in good : Level(s[j]) <= Level(s[i])}
           best == Min(greatest)
<1>1. \A new, level : Accepted(s, domains, new, level) =
                        IF good # {} /\ (new \/ Level(s[best]) >= level) THEN s[best] ELSE Unsigned
  BY DEF Accepted, Level
<1>2. Unsigned \in DOMAIN domains /\ Level(Unsigned) = 0
  BY ConfigIs
<1>3. \A level : Taken(p, level) = Accepted(s, domains, FALSE, level)
  BY DEF Taken
<1>4. CASE good = {}
  <2>1. \A new, level : Accepted(s, domains, new, level) = Unsigned
    BY <1>1, <1>4
  <2>2. \A level : Taken(p, level) = Unsigned
    BY <1>3, <2>1
  <2>3. QED
    BY <1>2, <2>1, <2>2
<1>5. CASE good # {}
  <2>1. PICK n \in Nat : DOMAIN s = 1 .. n /\ \A i \in DOMAIN s : s[i] \in DOMAIN domains /\ Level(s[i]) \in Nat
    BY IndicesAre, ConfigIs
  <2>2. greatest # {}
    <3> DEFINE g == [i \in good |-> Level(s[i])]
    <3>1. good \in SUBSET (1 .. n) /\ \A i \in good : g[i] \in Nat
      BY <2>1
    <3> HIDE DEF g
    <3>2. PICK i \in good : \A j \in good : g[j] <= g[i]
      BY <1>5, <3>1, GreatestValue
    <3>3. \A j \in good : Level(s[j]) <= Level(s[i])
      BY <3>2 DEF g
    <3>4. QED
      BY <3>3
  <2>3. best \in greatest
    <3>1. greatest \subseteq Nat
      BY <2>1
    <3> HIDE DEF greatest
    <3>2. PICK i \in greatest : \A j \in greatest : <<j, i>> \notin OpToRel(<, Nat)
      BY <2>2, <3>1, NatLessThanWellFounded, WFMin
    <3>3. \A j \in greatest : ~(j < i)
      BY <3>1, <3>2 DEF OpToRel
    <3>4. \A j \in greatest : i <= j
      BY <3>1, <3>3
    <3>5. QED
      BY <3>4 DEF Min
  <2>4. s[best] \in DOMAIN domains
    BY <2>1, <2>3
  <2> HIDE DEF best
  <2>5. \A new \in BOOLEAN : \A level : Accepted(s, domains, new, level) \in DOMAIN domains
    BY <1>1, <1>2, <2>4
  <2>6. \A level \in Nat : Taken(p, level) = IF Level(s[best]) >= level THEN s[best] ELSE Unsigned
    BY <1>1, <1>3, <1>5
  <2>7. QED
    BY <2>4, <2>5, <2>6
<1>6. QED
  BY <1>4, <1>5

\* Once the domain of an update is on record, the same update is not from a worse one.
LEMMA AcceptedAgain ==
  ASSUME domains \in Configs, NEW p \in Packages, NEW level \in Nat
  PROVE  /\ Taken(p, level) \in DOMAIN domains /\ Level(Taken(p, level)) \in Nat
         /\ Level(Taken(p, Level(Taken(p, level)))) >= Level(Taken(p, level))
<1>1. PICK best \in DOMAIN domains :
        \A l \in Nat : Taken(p, l) = IF Level(best) >= l THEN best ELSE Unsigned
  BY AcceptedIs
<1>2. Level(best) \in Nat /\ Level(Unsigned) = 0 /\ Unsigned \in DOMAIN domains
  BY ConfigIs
<1>3. Taken(p, level) \in {best, Unsigned}
  BY <1>1
<1>4. Taken(p, Level(best)) = best
  BY <1>1, <1>2
<1>5. Taken(p, 0) = best
  BY <1>1, <1>2
<1>6. QED
  BY <1>2, <1>3, <1>4, <1>5

\* The last of some domains.
LEMMA LastOf ==
  ASSUME NEW config \in Configs, NEW I \in SUBSET (DOMAIN config), I # {}
  PROVE  Max(I) \in DOMAIN config
<1>1. config \in Seq(Domains)
  BY PackageCacheAssumption
<1>2. Len(config) \in Nat /\ DOMAIN config = 1 .. Len(config)
  BY <1>1
<1>3. Max(I) \in I
  BY <1>2, GreatestOfSome
<1>4. QED
  BY <1>3

\* The domains in some files, which are those that are configured.
LEMMA LoadedIs ==
  ASSUME domains \in Configs, NEW files
  PROVE  Loaded(files) \in [Packages -> DOMAIN domains \cup {Invalid}]
<1> DEFINE In(p) == {i \in DOMAIN domains : p \in files[domains[i]]}
<1>1. Loaded(files) = [p \in Packages |-> IF In(p) = {} THEN Invalid ELSE Max(In(p))]
  BY DEF Loaded
<1>2. ASSUME NEW p \in Packages, In(p) # {} PROVE Max(In(p)) \in DOMAIN domains
  <2> HIDE DEF In
  <2>1. In(p) \in SUBSET (DOMAIN domains)
    BY DEF In
  <2>2. QED
    BY <1>2, <2>1, LastOf
<1> HIDE DEF In
<1>3. QED
  BY <1>1, <1>2

LEMMA RecordedIs == domains \in Configs => Recorded \in [Packages -> DOMAIN domains \cup {Invalid}]
BY LoadedIs DEF Recorded

LEMMA RecordedNext == domains' \in Configs => Recorded' \in [Packages -> DOMAIN domains' \cup {Invalid}]
<1> DEFINE In(p) == {i \in DOMAIN domains' : p \in (domFile')[(domains')[i]]}
<1>1. Recorded' = [p \in Packages |-> IF In(p) = {} THEN Invalid ELSE Max(In(p))]
  BY DEF Recorded, Loaded
<1>2. ASSUME domains' \in Configs, NEW p \in Packages, In(p) # {} PROVE Max(In(p)) \in DOMAIN domains'
  <2> HIDE DEF In
  <2>1. In(p) \in SUBSET (DOMAIN domains')
    BY DEF In
  <2>2. QED
    BY <1>2, <2>1, LastOf
<1> HIDE DEF In
<1>3. QED
  BY <1>1, <1>2

\* What has been written is what is read.
LEMMA SavedIs ==
  ASSUME domains \in Configs, NEW files \in [Domains -> SUBSET Packages], NEW number
  PROVE  /\ Saved(files, number) \in [Domains -> SUBSET Packages]
         /\ \A p \in Packages : Loaded(Saved(files, number))[p] =
              IF number[p] \in DOMAIN domains THEN number[p] ELSE Invalid
<1> DEFINE new == Saved(files, number)
           In(p) == {i \in DOMAIN domains : p \in new[domains[i]]}
<1>1. /\ \A i \in DOMAIN domains : domains[i] \in Domains /\ Numbered(domains[i]) = i /\ domains[i] \in Range(domains)
      /\ Len(domains) \in Nat /\ DOMAIN domains = 1 .. Len(domains)
  BY ConfigIs, NumberedIs DEF Range
<1>2. new \in [Domains -> SUBSET Packages]
  BY DEF Saved
<1>3. \A i \in DOMAIN domains : new[domains[i]] = {p \in Packages : number[p] = i}
  BY <1>1 DEF Saved
<1>4. Loaded(new) = [p \in Packages |-> IF In(p) = {} THEN Invalid ELSE Max(In(p))]
  BY DEF Loaded
<1>5. \A p \in Packages : In(p) = {number[p]} \cap DOMAIN domains
  BY <1>3
<1> HIDE DEF new, In
<1>6. ASSUME NEW p \in Packages
      PROVE  Loaded(new)[p] = IF number[p] \in DOMAIN domains THEN number[p] ELSE Invalid
  <2>1. CASE number[p] \in DOMAIN domains
    <3>1. In(p) = {number[p]} /\ In(p) \in SUBSET (1 .. Len(domains))
      BY <1>1, <1>5, <2>1
    <3>2. Max(In(p)) \in In(p)
      BY <1>1, <3>1, GreatestOfSome
    <3>3. QED
      BY <1>4, <2>1, <3>1, <3>2
  <2>2. CASE number[p] \notin DOMAIN domains
    BY <1>4, <1>5, <2>2
  <2>3. QED
    BY <2>1, <2>2
<1>7. QED
  BY <1>2, <1>6 DEF new

\* The record of an installed package of known domain stays as it is.
LEMMA FilledIs ==
  ASSUME domains \in Configs, NEW number \in [Packages -> DOMAIN domains \cup {Invalid}], NEW got
  PROVE  /\ Filled(number, got) \in [Packages -> DOMAIN domains \cup {Invalid}]
         /\ \A p \in Packages : number[p] # Invalid => Filled(number, got)[p] = number[p]
<1> DEFINE Better(p) == {i \in DOMAIN Indices(p) : Level(Indices(p)[i]) > 0}
<1>1. Filled(number, got) =
        [p \in Packages |->
          IF number[p] = Invalid /\ got[p] # 0 /\ got[p] = Available[p] /\ Better(p) # {}
          THEN Indices(p)[Max(Better(p))] ELSE number[p]]
  BY DEF Filled
<1>2. ASSUME NEW p \in Packages, Better(p) # {} PROVE Indices(p)[Max(Better(p))] \in DOMAIN domains
  <2>1. PICK n \in Nat : DOMAIN Indices(p) = 1 .. n /\ \A i \in DOMAIN Indices(p) : Indices(p)[i] \in DOMAIN domains
    BY IndicesAre
  <2>2. Better(p) \in SUBSET (1 .. n)
    BY <2>1
  <2>3. Max(Better(p)) \in Better(p)
    <3> HIDE DEF Better
    <3>1. QED
      BY <1>2, <2>2, GreatestOfSome
  <2>4. Max(Better(p)) \in DOMAIN Indices(p)
    BY <2>3
  <2>5. QED
    BY <2>1, <2>4
<1> HIDE DEF Better
<1>3. QED
  BY <1>1, <1>2

\* A new cache has the domains that are in the files, be they written again or not.
LEMMA RereadIs ==
  ASSUME domains \in Configs, NEW files \in [Domains -> SUBSET Packages], NEW got, NEW number,
         number = Filled(Loaded(files), got), NEW new \in {Rewritten(files, number), files}
  PROVE  /\ new \in [Domains -> SUBSET Packages]
         /\ number \in [Packages -> DOMAIN domains \cup {Invalid}]
         /\ \A p \in Packages : Loaded(new)[p] # Invalid => number[p] = Loaded(new)[p]
         /\ \A p \in Packages : Loaded(files)[p] # Invalid => Loaded(new)[p] = Loaded(files)[p]
<1>1. Loaded(files) \in [Packages -> DOMAIN domains \cup {Invalid}]
  BY LoadedIs
<1>2. /\ number \in [Packages -> DOMAIN domains \cup {Invalid}]
      /\ \A p \in Packages : Loaded(files)[p] # Invalid => number[p] = Loaded(files)[p]
  BY <1>1, FilledIs
<1>3. CASE new = files
  BY <1>2, <1>3
<1>4. CASE new = Saved(files, number)
  <2>1. /\ new \in [Domains -> SUBSET Packages]
        /\ \A p \in Packages : Loaded(new)[p] = IF number[p] \in DOMAIN domains THEN number[p] ELSE Invalid
    BY <1>4, SavedIs
  <2>2. \A p \in Packages : number[p] # Invalid => Loaded(new)[p] = number[p]
    BY <1>2, <2>1
  <2>3. QED
    BY <1>2, <2>1, <2>2
<1>5. QED
  BY <1>3, <1>4 DEF Rewritten

\* Nothing about the domains changes but by writing their files or configuring others.
LEMMA SameDomains ==
  ASSUME domains' = domains
  PROVE  /\ \A i : Level(i)' = Level(i)
         /\ domFile' = domFile => Recorded' = Recorded
BY DEF Level, Recorded, Loaded

-----------------------------------------------------------------------------
(* The status *)

LEMMA StatusIs ==
  ASSUME NEW now \in Statuses
  PROVE  /\ now.have \in [Packages -> Nat] /\ now.bad \subseteq Packages /\ now.auto \subseteq Packages
         /\ \A p \in Packages : now.have[p] \in Versions(p)
         /\ \A p \in now.bad : now.have[p] # 0
         /\ now = [have |-> now.have, bad |-> now.bad, auto |-> now.auto]
<1>1. \A p \in Packages : Versions(p) \subseteq Nat
  <2>1. SUFFICES ASSUME NEW p \in Packages PROVE Versions(p) \subseteq Nat
    OBVIOUS
  <2>2. Available[p] \in Nat /\ \A s \in Start : s[p] \in Nat
    BY DepCacheAssumption
  <2>3. QED
    BY <2>2 DEF Versions
<1>2. /\ now.have \in [Packages -> UNION {Versions(p) : p \in Packages}]
      /\ \A p \in Packages : now.have[p] \in Versions(p)
      /\ now.bad \subseteq Packages /\ now.auto \subseteq Packages
      /\ \A p \in now.bad : now.have[p] # 0
      /\ now = [have |-> now.have, bad |-> now.bad, auto |-> now.auto]
  BY DEF Statuses
<1>3. now.have \in [Packages -> Nat]
  BY <1>1, <1>2
<1>4. QED
  BY <1>2, <1>3

LEMMA IsStatus ==
  ASSUME NEW h, h = [p \in Packages |-> h[p]], \A p \in Packages : h[p] \in Versions(p),
         NEW b \in SUBSET Packages, \A p \in b : h[p] # 0, NEW a \in SUBSET Packages
  PROVE  [have |-> h, bad |-> b, auto |-> a] \in Statuses
<1>1. h \in [Packages -> UNION {Versions(p) : p \in Packages}]
  <2>1. \A p \in Packages : h[p] \in UNION {Versions(q) : q \in Packages}
    OBVIOUS
  <2>2. QED
    BY <2>1
<1>2. QED
  BY <1>1 DEF Statuses

-----------------------------------------------------------------------------
(* How an operation marks packages *)

\* The versions of a package that the marks are about.
LEMMA VersionIs ==
  ASSUME NEW now \in Statuses, NEW p \in Packages
  PROVE  /\ Cand(now, p) \in Versions(p)
         /\ \A m : InstVer(now, m, p) \in Versions(p)
         /\ Versions(p) \subseteq Nat
<1>1. now.have[p] \in Versions(p) /\ Available[p] \in Versions(p) /\ 0 \in Versions(p)
  BY StatusIs DEF Versions
<1>2. Cand(now, p) \in Versions(p)
  BY <1>1 DEF Cand
<1>3. Versions(p) \subseteq Nat
  <2>1. Available[p] \in Nat /\ \A s \in Start : s[p] \in Nat
    BY DepCacheAssumption
  <2>2. QED
    BY <2>1 DEF Versions
<1>4. QED
  BY <1>1, <1>2, <1>3 DEF InstVer

\* What is related only grows.
Grows(Call) == \A q \in Packages : \A r \in SUBSET Packages :
                 Call[q][r] \in SUBSET Packages /\ r \subseteq Call[q][r]

\* The related packages as they are collected, need by need.
First(s) == CHOOSE x \in s : TRUE
RelatesBy(now, Call, related, p, v, f) ==
  /\ RelateOnce(now, Call, related, p, v) =
       IF p \in related THEN related ELSE IF now.bad = {} THEN related \cup {p} ELSE f[Needs(p, v)]
  /\ f[{}] = related \cup {p}
  /\ \A s \in SUBSET Needs(p, v) : s # {} =>
       f[s] = IF now.have[First(s)[1]] = 0 THEN f[s \ {First(s)}]
              ELSE Call[First(s)[1]][f[s \ {First(s)}]]
CanRelate(now, Call, related, p, v) == \E f : RelatesBy(now, Call, related, p, v, f)

LEMMA RelateOnceFolds ==
  ASSUME NEW now \in Statuses, NEW Call, Grows(Call),
         NEW related \in SUBSET Packages, NEW p \in Packages, NEW v \in Versions(p)
  PROVE  CanRelate(now, Call, related, p, v)
<1> DEFINE D == Needs(p, v)
           t == related \cup {p}
           T == {r \in SUBSET Packages : t \subseteq r}
           More(d, r) == IF now.have[d[1]] = 0 THEN r ELSE Call[d[1]][r]
           one(s) == CHOOSE x \in s : TRUE
           Eq(f) == f = [s \in SUBSET D |-> IF s = {} THEN t ELSE More(one(s), f[s \ {one(s)}])]
           h == [d \in D |-> [r \in T |-> More(d, r)]]
<1>1. IsFiniteSet(D) /\ \A d \in D : d[1] \in Packages
  BY VersionsAssumption
<1>2. t \in T /\ \A d \in D, r \in T : More(d, r) \in T
  BY <1>1 DEF Grows
<1>3. RelateOnce(now, Call, related, p, v)
        = IF p \in related THEN related ELSE IF now.bad = {} THEN t ELSE (CHOOSE f : Eq(f))[D]
  BY DEF RelateOnce, FoldSet, MapThenFoldSet
<1> HIDE DEF More, T, t, D
<1>4. \E f : Eq(f)
  <2>1. h \in [D -> [T -> T]]
    BY <1>2
  <2> HIDE DEF h
  <2>2. CanFold(D, T, t, h)
    BY <1>1, <1>2, <2>1, Folded
  <2> PICK f : f \in [SUBSET D -> T] /\ FoldsTo(D, t, h, f)
    BY <2>2 DEF CanFold
  <2>3. \A s \in SUBSET D : s # {} => h[one(s)][f[s \ {one(s)}]] = More(one(s), f[s \ {one(s)}])
    BY DEF h
  <2>4. \A s \in SUBSET D : f[s] = IF s = {} THEN t ELSE h[one(s)][f[s \ {one(s)}]]
    BY DEF FoldsTo
  <2>5. Eq(f)
    BY <2>3, <2>4
  <2>6. QED
    BY <2>5
<1>5. PICK f : f = CHOOSE e : Eq(e)
  OBVIOUS
<1>6. Eq(f)
  <2> HIDE DEF Eq
  <2>1. QED
    BY <1>4, <1>5
<1>7. f[{}] = t /\ \A s \in SUBSET D : s # {} => f[s] = More(one(s), f[s \ {one(s)}])
  BY <1>6
<1>8. RelateOnce(now, Call, related, p, v)
        = IF p \in related THEN related ELSE IF now.bad = {} THEN t ELSE f[D]
  <2> HIDE DEF Eq
  <2>1. QED
    BY <1>3, <1>5
<1> HIDE DEF Eq
<1>9. RelatesBy(now, Call, related, p, v, f)
  BY <1>7, <1>8 DEF RelatesBy, First, More, D, t
<1>10. QED
  BY <1>9 DEF CanRelate

LEMMA RelateOnceGrows ==
  ASSUME NEW now \in Statuses, NEW Call, Grows(Call),
         NEW related \in SUBSET Packages, NEW p \in Packages, NEW v \in Versions(p)
  PROVE  /\ RelateOnce(now, Call, related, p, v) \in SUBSET Packages
         /\ related \cup {p} \subseteq RelateOnce(now, Call, related, p, v)
<1> DEFINE D == Needs(p, v)
           T == {r \in SUBSET Packages : related \cup {p} \subseteq r}
<1>1. IsFiniteSet(D) /\ \A d \in D : d[1] \in Packages
  BY VersionsAssumption
<1> PICK f : RelatesBy(now, Call, related, p, v, f)
  BY RelateOnceFolds DEF CanRelate
<1>2. ASSUME NEW s \in SUBSET D, s # {} PROVE \E x \in s : f[s \ {x}] \in T => f[s] \in T
  <2>1. First(s) \in s
    BY <1>2 DEF First
  <2>2. First(s)[1] \in Packages
    BY <1>1, <2>1
  <2>3. f[s] = IF now.have[First(s)[1]] = 0 THEN f[s \ {First(s)}] ELSE Call[First(s)[1]][f[s \ {First(s)}]]
    BY <1>2 DEF RelatesBy
  <2>4. \A q \in Packages : \A r \in T : Call[q][r] \in T
    BY DEF Grows
  <2> HIDE DEF T
  <2>5. f[s \ {First(s)}] \in T => f[s] \in T
    BY <2>2, <2>3, <2>4
  <2>6. QED
    BY <2>1, <2>5
<1>3. f[{}] \in T
  BY DEF RelatesBy
<1>4. f[D] \in T
  <2> HIDE DEF T, D
  <2>1. Within(D, T, f)
    BY <1>2, <1>3 DEF Within
  <2>2. QED
    BY <1>1, <2>1, FoldStays
<1>5. QED
  BY <1>4 DEF RelatesBy

\* What it comes to depends only on the calls for what is related already.
LEMMA RelateOnceAgrees ==
  ASSUME NEW now \in Statuses, NEW Call, NEW Other, Grows(Call), Grows(Other),
         NEW related \in SUBSET Packages, NEW p \in Packages, NEW v \in Versions(p),
         p \notin related =>
           \A q \in Packages : \A r \in SUBSET Packages :
             related \cup {p} \subseteq r => Call[q][r] = Other[q][r]
  PROVE  RelateOnce(now, Call, related, p, v) = RelateOnce(now, Other, related, p, v)
<1> DEFINE D == Needs(p, v)
           T == {r \in SUBSET Packages : related \cup {p} \subseteq r}
<1>1. IsFiniteSet(D) /\ \A d \in D : d[1] \in Packages
  BY VersionsAssumption
<1> PICK f : RelatesBy(now, Call, related, p, v, f)
  BY RelateOnceFolds DEF CanRelate
<1> PICK g : RelatesBy(now, Other, related, p, v, g)
  BY RelateOnceFolds DEF CanRelate
<1>2. CASE p \in related
  BY <1>2 DEF RelatesBy
<1>3. CASE p \notin related
  <2>1. ASSUME NEW s \in SUBSET D, s # {}
        PROVE  \E x \in s : (f[s \ {x}] = g[s \ {x}] /\ f[s \ {x}] \in T) => (f[s] = g[s] /\ f[s] \in T)
    <3>1. First(s) \in s
      BY <2>1 DEF First
    <3>2. First(s)[1] \in Packages
      BY <1>1, <3>1
    <3>3. f[s] = IF now.have[First(s)[1]] = 0 THEN f[s \ {First(s)}] ELSE Call[First(s)[1]][f[s \ {First(s)}]]
      BY <2>1 DEF RelatesBy
    <3>4. g[s] = IF now.have[First(s)[1]] = 0 THEN g[s \ {First(s)}] ELSE Other[First(s)[1]][g[s \ {First(s)}]]
      BY <2>1 DEF RelatesBy
    <3>5. ASSUME f[s \ {First(s)}] = g[s \ {First(s)}], f[s \ {First(s)}] \in T
          PROVE  f[s] = g[s] /\ f[s] \in T
      <4>1. Call[First(s)[1]][f[s \ {First(s)}]] = Other[First(s)[1]][f[s \ {First(s)}]]
        BY <1>3, <3>2, <3>5
      <4>2. \A q \in Packages : \A r \in T : Call[q][r] \in T
        BY DEF Grows
      <4> HIDE DEF T
      <4>3. f[s] \in T
        BY <3>2, <3>3, <3>5, <4>2
      <4>4. QED
        BY <3>3, <3>4, <3>5, <4>1, <4>3
    <3>6. QED
      BY <3>1, <3>5
  <2>2. f[{}] = g[{}] /\ f[{}] \in T
    BY DEF RelatesBy
  <2>3. f[D] = g[D]
    <3> HIDE DEF T, D
    <3>1. Together(D, T, f, g)
      BY <2>1, <2>2 DEF Together
    <3>2. QED
      BY <1>1, <3>1, FoldsAgree
  <2>4. QED
    BY <2>3 DEF RelatesBy
<1>4. QED
  BY <1>2, <1>3

LEMMA RelatingIs ==
  ASSUME NEW now \in Statuses
  PROVE  /\ \A n \in Nat : Grows(Relating(now)[n])
         /\ \A p \in Packages : \A r \in SUBSET Packages :
              /\ Relating(now)[0][p][r] = r
              /\ \A n \in Nat : Relating(now)[n + 1][p][r] = RelateOnce(now, Relating(now)[n], r, p, now.have[p])
<1> DEFINE S == {c \in [Packages -> [SUBSET Packages -> SUBSET Packages]] : Grows(c)}
           none == [p \in Packages |-> [r \in SUBSET Packages |-> r]]
           more(c) == [p \in Packages |-> [r \in SUBSET Packages |-> RelateOnce(now, c, r, p, now.have[p])]]
           h == [c \in S |-> more(c)]
           Eq(f) == f = [n \in Nat |-> [p \in Packages |-> [r \in SUBSET Packages |->
                           IF n = 0 THEN r ELSE RelateOnce(now, f[n - 1], r, p, now.have[p])]]]
<1>1. none \in S
  BY DEF Grows
<1>2. \A c \in S : more(c) \in S
  <2>1. SUFFICES ASSUME NEW c \in S PROVE more(c) \in S
    OBVIOUS
  <2>2. \A p \in Packages : \A r \in SUBSET Packages :
          /\ RelateOnce(now, c, r, p, now.have[p]) \in SUBSET Packages
          /\ r \subseteq RelateOnce(now, c, r, p, now.have[p])
    BY RelateOnceGrows, StatusIs
  <2>3. QED
    BY <2>2 DEF Grows
<1>3. \A f : Eq(f) => f[0] = none /\ \A n \in Nat : f[n + 1] = more(f[n])
  <2>1. SUFFICES ASSUME NEW f, Eq(f) PROVE f[0] = none /\ \A n \in Nat : f[n + 1] = more(f[n])
    BY Zenon
  <2>2. f[0] = none
    BY <2>1
  <2>3. ASSUME NEW n \in Nat PROVE f[n + 1] = more(f[n])
    <3>1. n + 1 # 0 /\ n + 1 \in Nat /\ (n + 1) - 1 = n
      OBVIOUS
    <3>2. f[n + 1] = [p \in Packages |-> [r \in SUBSET Packages |->
                       IF n + 1 = 0 THEN r ELSE RelateOnce(now, f[(n + 1) - 1], r, p, now.have[p])]]
      BY <2>1, <3>1
    <3>3. QED
      BY <3>1, <3>2
  <2>4. QED
    BY <2>2, <2>3
<1>4. ASSUME NEW g, g \in [Nat -> S], g[0] = none, \A n \in Nat : g[n + 1] = more(g[n]) PROVE Eq(g)
  <2>1. \A n \in Nat : g[n] = [p \in Packages |-> [r \in SUBSET Packages |->
                           IF n = 0 THEN r ELSE RelateOnce(now, g[n - 1], r, p, now.have[p])]]
    <3>1. SUFFICES ASSUME NEW n \in Nat
                   PROVE  g[n] = [p \in Packages |-> [r \in SUBSET Packages |->
                                   IF n = 0 THEN r ELSE RelateOnce(now, g[n - 1], r, p, now.have[p])]]
      OBVIOUS
    <3>2. CASE n = 0
      BY <1>4, <3>2
    <3>3. CASE n # 0
      <4>1. n - 1 \in Nat /\ n = (n - 1) + 1
        BY <3>3
      <4>2. g[n] = more(g[n - 1])
        BY <4>1, <1>4
      <4>3. QED
        BY <3>3, <4>2
    <3>4. QED
      BY <3>2, <3>3
  <2>2. g = [n \in Nat |-> g[n]]
    BY <1>4
  <2>3. QED
    BY <2>1, <2>2
<1>5. Relating(now) = CHOOSE f : Eq(f)
  BY DEF Relating
<1> HIDE DEF S, none, Eq, more
<1>6. \E f : Eq(f)
  <2>1. h \in [S -> S]
    BY <1>2
  <2> HIDE DEF h
  <2>2. Runs(S, none, h)
    BY <1>1, <2>1, Iterates
  <2> PICK g : Run(S, none, h, g)
    BY <2>2 DEF Runs
  <2>3. g \in [Nat -> S] /\ g[0] = none /\ \A n \in Nat : g[n] \in S /\ g[n + 1] = h[g[n]]
    BY DEF Run
  <2>4. \A n \in Nat : g[n + 1] = more(g[n])
    BY <2>3 DEF h
  <2>5. QED
    BY <1>4, <2>3, <2>4
<1>7. Eq(CHOOSE f : Eq(f))
  BY <1>6
<1> DEFINE N == {n \in Nat : Relating(now)[n] \in S}
<1>8. 0 \in N /\ \A n \in Nat : n \in N => n + 1 \in N
  BY <1>1, <1>2, <1>3, <1>5, <1>7
<1> HIDE DEF N
<1>9. Nat \subseteq N
  BY <1>8, EveryNumber
<1>10. \A n \in Nat : Grows(Relating(now)[n])
  BY <1>9 DEF N, S
<1>11. Relating(now)[0] = none /\ \A n \in Nat : Relating(now)[n + 1] = more(Relating(now)[n])
  BY <1>3, <1>5, <1>7
<1>12. \A p \in Packages : \A r \in SUBSET Packages : Relating(now)[0][p][r] = r
  BY <1>11 DEF none
<1>13. ASSUME NEW n \in Nat, NEW p \in Packages, NEW r \in SUBSET Packages
       PROVE  Relating(now)[n + 1][p][r] = RelateOnce(now, Relating(now)[n], r, p, now.have[p])
  <2>1. Relating(now)[n + 1] = more(Relating(now)[n])
    BY <1>11
  <2>2. QED
    BY <2>1 DEF more
<1>14. QED
  BY <1>10, <1>12, <1>13

LEMMA RelatedGrows ==
  ASSUME NEW now \in Statuses, NEW related \in SUBSET Packages, NEW p \in Packages, NEW v \in Versions(p)
  PROVE  /\ MarkRelated(now, related, p, v) \in SUBSET Packages
         /\ related \cup {p} \subseteq MarkRelated(now, related, p, v)
<1>1. Cardinality(Packages) \in Nat
  BY DepCacheAssumption, FS_CardinalityType
<1>2. Grows(Relating(now)[Cardinality(Packages)])
  BY <1>1, RelatingIs
<1>3. QED
  BY <1>2, RelateOnceGrows DEF MarkRelated

\* As many calls as there are packages are enough for what is not related yet.
LEMMA RelatingSettles ==
  ASSUME NEW now \in Statuses
  PROVE  \A n \in Nat : \A p \in Packages : \A r \in SUBSET Packages :
           Cardinality(Packages \ r) <= n => Relating(now)[n][p][r] = Relating(now)[n + 1][p][r]
<1> DEFINE L(n, p, r) == Relating(now)[n][p][r]
           N == {n \in Nat : \A p \in Packages : \A r \in SUBSET Packages :
                   Cardinality(Packages \ r) <= n => L(n, p, r) = L(n + 1, p, r)}
<1>1. \A r \in SUBSET Packages : IsFiniteSet(Packages \ r) /\ Cardinality(Packages \ r) \in Nat
  BY DepCacheAssumption, FS_Subset, FS_CardinalityType
<1>2. \A p \in Packages : \A r \in SUBSET Packages :
        /\ L(0, p, r) = r
        /\ \A n \in Nat : L(n + 1, p, r) = RelateOnce(now, Relating(now)[n], r, p, now.have[p])
  BY RelatingIs
<1>3. \A r \in SUBSET Packages : \A p \in r : \A n \in Nat : L(n, p, r) = r
  <2>1. SUFFICES ASSUME NEW r \in SUBSET Packages, NEW p \in r, NEW n \in Nat PROVE L(n, p, r) = r
    OBVIOUS
  <2>2. \A Call, v : RelateOnce(now, Call, r, p, v) = r
    BY DEF RelateOnce
  <2>3. CASE n = 0
    BY <1>2, <2>3
  <2>4. CASE n # 0
    <3>1. PICK k \in Nat : n = k + 1
      <4>1. n - 1 \in Nat /\ n = (n - 1) + 1
        BY <2>4
      <4>2. QED
        BY <4>1
    <3> HIDE DEF L
    <3>2. p \in Packages
      OBVIOUS
    <3>3. L(k + 1, p, r) = RelateOnce(now, Relating(now)[k], r, p, now.have[p])
      BY <1>2, <3>2
    <3>4. QED
      BY <2>2, <3>1, <3>3
  <2>5. QED
    BY <2>3, <2>4
<1>4. 0 \in N
  <2>1. SUFFICES ASSUME NEW p \in Packages, NEW r \in SUBSET Packages, Cardinality(Packages \ r) <= 0
                 PROVE  L(0, p, r) = L(0 + 1, p, r)
    OBVIOUS
  <2>2. Packages \ r = {}
    <3>1. Cardinality(Packages \ r) = 0
      BY <1>1, <2>1
    <3>2. QED
      BY <1>1, <3>1, FS_EmptySet
  <2>3. p \in r /\ 0 + 1 \in Nat
    BY <2>2
  <2> HIDE DEF L
  <2>4. QED
    BY <1>3, <2>3
<1>5. ASSUME NEW n \in Nat, n \in N PROVE n + 1 \in N
  <2>1. SUFFICES ASSUME NEW p \in Packages, NEW r \in SUBSET Packages, Cardinality(Packages \ r) <= n + 1
                 PROVE  L(n + 1, p, r) = L((n + 1) + 1, p, r)
    OBVIOUS
  <2>2. /\ L(n + 1, p, r) = RelateOnce(now, Relating(now)[n], r, p, now.have[p])
        /\ L((n + 1) + 1, p, r) = RelateOnce(now, Relating(now)[n + 1], r, p, now.have[p])
    BY <1>2
  <2>3. ASSUME p \notin r, NEW q \in Packages, NEW x \in SUBSET Packages, r \cup {p} \subseteq x
        PROVE  Relating(now)[n][q][x] = Relating(now)[n + 1][q][x]
    <3>1. Packages \ x \subseteq Packages \ r /\ Packages \ x # Packages \ r
      BY <2>3
    <3>2. Cardinality(Packages \ x) <= Cardinality(Packages \ r)
          /\ Cardinality(Packages \ x) # Cardinality(Packages \ r)
      BY <1>1, <3>1, FS_Subset
    <3>3. Cardinality(Packages \ x) <= n
      BY <1>1, <2>1, <3>2
    <3>4. QED
      BY <1>5, <3>3
  <2>4. Grows(Relating(now)[n]) /\ Grows(Relating(now)[n + 1]) /\ now.have[p] \in Versions(p)
    BY RelatingIs, StatusIs
  <2>5. p \notin r =>
          \A q \in Packages : \A x \in SUBSET Packages :
            r \cup {p} \subseteq x => Relating(now)[n][q][x] = Relating(now)[n + 1][q][x]
    BY <2>3
  <2> HIDE DEF L
  <2>6. QED
    BY <2>2, <2>4, <2>5, RelateOnceAgrees
<1>6. Nat \subseteq N
  <2> HIDE DEF N
  <2>1. QED
    BY <1>4, <1>5, EveryNumber
<1>7. QED
  BY <1>6

\* So the calls of mark_related go on to the end: what it comes to satisfies the equation
\* by which the function calls itself.
THEOREM RelatedThroughout ==
  ASSUME NEW now \in Statuses, NEW related \in SUBSET Packages, NEW p \in Packages, NEW v \in Versions(p)
  PROVE  LET Itself == [q \in Packages |-> [r \in SUBSET Packages |-> MarkRelated(now, r, q, now.have[q])]]
         IN MarkRelated(now, related, p, v) = RelateOnce(now, Itself, related, p, v)
<1> DEFINE Itself == [q \in Packages |-> [r \in SUBSET Packages |-> MarkRelated(now, r, q, now.have[q])]]
           N == Cardinality(Packages)
<1>1. N \in Nat /\ \A r \in SUBSET Packages : Cardinality(Packages \ r) <= N
  BY DepCacheAssumption, FS_CardinalityType, FS_Subset
<1> HIDE DEF N
<1>2. MarkRelated(now, related, p, v) = RelateOnce(now, Relating(now)[N], related, p, v)
  BY DEF MarkRelated, N
<1>3. \A q \in Packages : \A r \in SUBSET Packages : Itself[q][r] = Relating(now)[N][q][r]
  <2>1. SUFFICES ASSUME NEW q \in Packages, NEW r \in SUBSET Packages
                 PROVE  Itself[q][r] = Relating(now)[N][q][r]
    OBVIOUS
  <2>2. Itself[q][r] = RelateOnce(now, Relating(now)[N], r, q, now.have[q])
    BY DEF MarkRelated, N
  <2>3. Relating(now)[N + 1][q][r] = RelateOnce(now, Relating(now)[N], r, q, now.have[q])
    BY <1>1, RelatingIs
  <2>4. Relating(now)[N][q][r] = Relating(now)[N + 1][q][r]
    BY <1>1, RelatingSettles
  <2> HIDE DEF Itself
  <2>5. QED
    BY <2>2, <2>3, <2>4
<1> HIDE DEF Itself
<1>4. Grows(Relating(now)[N])
  BY <1>1, RelatingIs
<1>5. Grows(Itself)
  BY <1>3, <1>4 DEF Grows
<1>6. RelateOnce(now, Relating(now)[N], related, p, v) = RelateOnce(now, Itself, related, p, v)
  BY <1>3, <1>4, <1>5, RelateOnceAgrees
<1>7. QED
  BY <1>2, <1>6 DEF Itself

\* What mark_for_remove_1 and mark_for_install_1 do to the package itself.
Deleting(now, m, p, soft) ==
  [m EXCEPT !.mode[p] = IF now.have[p] = 0 THEN "keep" ELSE "delete",
            !.auto = @ \ {p},
            !.soft = IF soft THEN @ \cup {p} ELSE @ \ {p}]
RelatedTo(now, m, p) == [m EXCEPT !.related = MarkRelated(now, @, p, Cand(now, p))]
Putting(now, m, p) ==
  IF Cand(now, p) = now.have[p] THEN [RelatedTo(now, m, p) EXCEPT !.mode[p] = "keep"]
  ELSE [RelatedTo(now, m, p) EXCEPT !.mode[p] = "install", !.auto = @ \ {p}]
SetAuto(m, p) == [m EXCEPT !.auto = @ \cup {p}]

LEMMA MarksAre ==
  ASSUME NEW m \in Marks
  PROVE  /\ m = [mode |-> m.mode, auto |-> m.auto, soft |-> m.soft, related |-> m.related]
         /\ m.mode \in [Packages -> {"keep", "install", "delete"}]
         /\ m.auto \subseteq Packages /\ m.soft \subseteq Packages /\ m.related \subseteq Packages
BY DEF Marks

LEMMA StepsInMarks ==
  ASSUME NEW now \in Statuses, NEW m \in Marks, NEW p \in Packages
  PROVE  /\ \A soft \in BOOLEAN : Deleting(now, m, p, soft) \in Marks
         /\ RelatedTo(now, m, p) \in Marks /\ Putting(now, m, p) \in Marks /\ SetAuto(m, p) \in Marks
<1>1. \A soft \in BOOLEAN : Deleting(now, m, p, soft) \in Marks
  <2>1. SUFFICES ASSUME NEW soft \in BOOLEAN PROVE Deleting(now, m, p, soft) \in Marks
    OBVIOUS
  <2>2. CASE now.have[p] = 0 /\ soft
    BY <2>2 DEF Marks, Deleting
  <2>3. CASE now.have[p] # 0 /\ soft
    BY <2>3 DEF Marks, Deleting
  <2>4. CASE now.have[p] = 0 /\ ~soft
    BY <2>4 DEF Marks, Deleting
  <2>5. CASE now.have[p] # 0 /\ ~soft
    BY <2>5 DEF Marks, Deleting
  <2>6. QED
    BY <2>2, <2>3, <2>4, <2>5
<1>2. MarkRelated(now, m.related, p, Cand(now, p)) \in SUBSET Packages
  BY MarksAre, VersionIs, RelatedGrows
<1>3. RelatedTo(now, m, p) =
        [mode |-> m.mode, auto |-> m.auto, soft |-> m.soft,
         related |-> MarkRelated(now, m.related, p, Cand(now, p))]
  BY MarksAre DEF RelatedTo
<1>4. RelatedTo(now, m, p) \in Marks
  BY <1>2, <1>3, MarksAre DEF Marks
<1>5. \A n \in Marks : /\ [n EXCEPT !.mode[p] = "keep"] \in Marks
                       /\ [n EXCEPT !.mode[p] = "install", !.auto = @ \ {p}] \in Marks
                       /\ SetAuto(n, p) \in Marks
  BY DEF Marks, SetAuto
<1>6. QED
  BY <1>1, <1>4, <1>5 DEF Putting

\* Marks that removing what is not needed any more does not lead out of.
RemovesWithin(now, T) ==
  T \subseteq Marks /\ \A m \in T : \A p \in m.auto \ UserPackages : Deleting(now, m, p, TRUE) \in T
Keeps(Call, T) == \A m \in T : \A p \in m.auto \ UserPackages : Call[p][m] \in T

\* The removals as they are marked, need by need.
RemovesBy(now, Call, m, p, soft, f) ==
  /\ RemoveOnce(now, Call, m, p, soft) =
       IF m.mode[p] = "delete" THEN m ELSE IF now.have[p] = 0 THEN Deleting(now, m, p, soft)
       ELSE f[Needs(p, now.have[p])]
  /\ f[{}] = Deleting(now, m, p, soft)
  /\ \A s \in SUBSET Needs(p, now.have[p]) : s # {} =>
       LET q == First(s)[1]
           n == f[s \ {First(s)}]
       IN f[s] = IF q \in n.auto /\ now.have[q] # 0 /\ q \notin UserPackages THEN Call[q][n] ELSE n
CanRemove(now, Call, m, p, soft) == \E f : RemovesBy(now, Call, m, p, soft, f)

LEMMA RemoveOnceFolds ==
  ASSUME NEW now \in Statuses, NEW T \in SUBSET Marks, NEW Call, Keeps(Call, T),
         NEW m \in Marks, NEW p \in Packages, NEW soft \in BOOLEAN, Deleting(now, m, p, soft) \in T
  PROVE  CanRemove(now, Call, m, p, soft)
<1> DEFINE D == Needs(p, now.have[p])
           t == Deleting(now, m, p, soft)
           Unused(q, n) == q \in n.auto /\ now.have[q] # 0 /\ q \notin UserPackages
           Go(x, n) == IF Unused(x[1], n) THEN Call[x[1]][n] ELSE n
           one(s) == CHOOSE x \in s : TRUE
           Eq(f) == f = [s \in SUBSET D |-> IF s = {} THEN t ELSE Go(one(s), f[s \ {one(s)}])]
           h == [d \in D |-> [n \in T |-> Go(d, n)]]
<1>1. IsFiniteSet(D)
  BY VersionsAssumption, StatusIs
<1>2. t \in T /\ \A d \in D, n \in T : Go(d, n) \in T
  BY DEF Keeps
<1>3. RemoveOnce(now, Call, m, p, soft)
        = IF m.mode[p] = "delete" THEN m ELSE IF now.have[p] = 0 THEN t ELSE (CHOOSE f : Eq(f))[D]
  BY DEF RemoveOnce, FoldSet, MapThenFoldSet, Deleting
<1> HIDE DEF Go, t, D
<1>4. \E f : Eq(f)
  <2>1. h \in [D -> [T -> T]]
    BY <1>2
  <2> HIDE DEF h
  <2>2. CanFold(D, T, t, h)
    BY <1>1, <1>2, <2>1, Folded
  <2> PICK f : f \in [SUBSET D -> T] /\ FoldsTo(D, t, h, f)
    BY <2>2 DEF CanFold
  <2>3. \A s \in SUBSET D : s # {} => h[one(s)][f[s \ {one(s)}]] = Go(one(s), f[s \ {one(s)}])
    BY DEF h
  <2>4. \A s \in SUBSET D : f[s] = IF s = {} THEN t ELSE h[one(s)][f[s \ {one(s)}]]
    BY DEF FoldsTo
  <2>5. Eq(f)
    BY <2>3, <2>4
  <2>6. QED
    BY <2>5
<1>5. PICK f : f = CHOOSE e : Eq(e)
  OBVIOUS
<1>6. Eq(f)
  <2> HIDE DEF Eq
  <2>1. QED
    BY <1>4, <1>5
<1>7. f[{}] = t /\ \A s \in SUBSET D : s # {} => f[s] = Go(one(s), f[s \ {one(s)}])
  BY <1>6
<1>8. RemoveOnce(now, Call, m, p, soft)
        = IF m.mode[p] = "delete" THEN m ELSE IF now.have[p] = 0 THEN t ELSE f[D]
  <2> HIDE DEF Eq
  <2>1. QED
    BY <1>3, <1>5
<1> HIDE DEF Eq
<1>9. RemovesBy(now, Call, m, p, soft, f)
  BY <1>7, <1>8 DEF RemovesBy, First, Go, D, t
<1>10. QED
  BY <1>9 DEF CanRemove

LEMMA RemoveOnceStays ==
  ASSUME NEW now \in Statuses, NEW T \in SUBSET Marks, NEW Call, Keeps(Call, T),
         NEW m \in T, NEW p \in Packages, NEW soft \in BOOLEAN, Deleting(now, m, p, soft) \in T
  PROVE  RemoveOnce(now, Call, m, p, soft) \in T
<1> DEFINE D == Needs(p, now.have[p])
<1>1. IsFiniteSet(D)
  BY VersionsAssumption, StatusIs
<1> PICK f : RemovesBy(now, Call, m, p, soft, f)
  BY RemoveOnceFolds DEF CanRemove
<1>2. ASSUME NEW s \in SUBSET D, s # {} PROVE \E x \in s : f[s \ {x}] \in T => f[s] \in T
  <2>1. First(s) \in s
    BY <1>2 DEF First
  <2>2. f[s \ {First(s)}] \in T => f[s] \in T
    BY <1>2 DEF RemovesBy, Keeps
  <2>3. QED
    BY <2>1, <2>2
<1>3. f[{}] \in T
  BY DEF RemovesBy
<1>4. f[D] \in T
  <2> HIDE DEF D
  <2>1. Within(D, T, f)
    BY <1>2, <1>3 DEF Within
  <2>2. QED
    BY <1>1, <2>1, FoldStays
<1>5. QED
  BY <1>4 DEF RemovesBy

\* What it comes to depends only on the calls for marks that it may come to.
Alike(now, Call, Other, T) ==
  \A m \in T : \A p \in m.auto \ UserPackages : now.have[p] # 0 => Call[p][m] = Other[p][m]

LEMMA RemoveOnceAgrees ==
  ASSUME NEW now \in Statuses, NEW T \in SUBSET Marks, NEW Call, Keeps(Call, T), NEW Other, Keeps(Other, T),
         Alike(now, Call, Other, T),
         NEW m \in Marks, NEW p \in Packages, NEW soft \in BOOLEAN, Deleting(now, m, p, soft) \in T
  PROVE  RemoveOnce(now, Call, m, p, soft) = RemoveOnce(now, Other, m, p, soft)
<1> DEFINE D == Needs(p, now.have[p])
<1>1. IsFiniteSet(D)
  BY VersionsAssumption, StatusIs
<1> PICK f : RemovesBy(now, Call, m, p, soft, f)
  BY RemoveOnceFolds DEF CanRemove
<1> PICK g : RemovesBy(now, Other, m, p, soft, g)
  BY RemoveOnceFolds DEF CanRemove
<1>2. ASSUME NEW s \in SUBSET D, s # {}
      PROVE  \E x \in s : (f[s \ {x}] = g[s \ {x}] /\ f[s \ {x}] \in T) => (f[s] = g[s] /\ f[s] \in T)
  <2> DEFINE q == First(s)[1]
             n == f[s \ {First(s)}]
             k == g[s \ {First(s)}]
  <2>1. First(s) \in s
    BY <1>2 DEF First
  <2>2. f[s] = IF q \in n.auto /\ now.have[q] # 0 /\ q \notin UserPackages THEN Call[q][n] ELSE n
    BY <1>2 DEF RemovesBy
  <2>3. g[s] = IF q \in k.auto /\ now.have[q] # 0 /\ q \notin UserPackages THEN Other[q][k] ELSE k
    BY <1>2 DEF RemovesBy
  <2> HIDE DEF q
  <2>4. n = k /\ n \in T => f[s] = g[s] /\ f[s] \in T
    <3> HIDE DEF n, k
    <3>1. QED
      BY <2>2, <2>3 DEF Keeps, Alike
  <2>5. QED
    BY <2>1, <2>4
<1>3. f[{}] = g[{}] /\ f[{}] \in T
  BY DEF RemovesBy
<1>4. f[D] = g[D]
  <2> HIDE DEF D
  <2>1. Together(D, T, f, g)
    BY <1>2, <1>3 DEF Together
  <2>2. QED
    BY <1>1, <2>1, FoldsAgree
<1>5. QED
  BY <1>4 DEF RemovesBy

LEMMA RemovingIs ==
  ASSUME NEW now \in Statuses, NEW T, RemovesWithin(now, T)
  PROVE  /\ \A n \in Nat : Keeps(Removing(now)[n], T) /\ Keeps(Removing(now)[n], Marks)
         /\ \A p \in Packages : \A m \in Marks :
              /\ Removing(now)[0][p][m] = m
              /\ \A n \in Nat : Removing(now)[n + 1][p][m] = RemoveOnce(now, Removing(now)[n], m, p, TRUE)
<1> DEFINE S == {c \in [Packages -> [Marks -> Marks]] : Keeps(c, T)}
           none == [p \in Packages |-> [m \in Marks |-> m]]
           more(c) == [p \in Packages |-> [m \in Marks |-> RemoveOnce(now, c, m, p, TRUE)]]
           h == [c \in S |-> more(c)]
           Eq(f) == f = [n \in Nat |-> [p \in Packages |-> [m \in Marks |->
                           IF n = 0 THEN m ELSE RemoveOnce(now, f[n - 1], m, p, TRUE)]]]
<1>0. T \subseteq Marks /\ \A m \in Marks : m.auto \subseteq Packages
  BY MarksAre DEF RemovesWithin
<1>1. none \in S
  BY <1>0 DEF Keeps
<1>2. \A c \in S : more(c) \in S
  <2>1. SUFFICES ASSUME NEW c \in S PROVE more(c) \in S
    OBVIOUS
  <2>2. Keeps(c, Marks) /\ Keeps(c, T)
    BY <1>0 DEF Keeps
  <2>3. \A m \in Marks, p \in Packages : RemoveOnce(now, c, m, p, TRUE) \in Marks
    BY <2>2, RemoveOnceStays, StepsInMarks
  <2>4. \A m \in T : \A p \in m.auto \ UserPackages : RemoveOnce(now, c, m, p, TRUE) \in T
    BY <1>0, <2>2, RemoveOnceStays DEF RemovesWithin
  <2>5. more(c) \in [Packages -> [Marks -> Marks]]
    BY <2>3
  <2>6. Keeps(more(c), T)
    BY <1>0, <2>4 DEF Keeps
  <2>7. QED
    BY <2>5, <2>6
<1>3. \A f : Eq(f) => f[0] = none /\ \A n \in Nat : f[n + 1] = more(f[n])
  <2>1. SUFFICES ASSUME NEW f, Eq(f) PROVE f[0] = none /\ \A n \in Nat : f[n + 1] = more(f[n])
    BY Zenon
  <2>2. f[0] = none
    BY <2>1
  <2>3. ASSUME NEW n \in Nat PROVE f[n + 1] = more(f[n])
    <3>1. n + 1 # 0 /\ n + 1 \in Nat /\ (n + 1) - 1 = n
      OBVIOUS
    <3>2. f[n + 1] = [p \in Packages |-> [m \in Marks |->
                       IF n + 1 = 0 THEN m ELSE RemoveOnce(now, f[(n + 1) - 1], m, p, TRUE)]]
      BY <2>1, <3>1
    <3>3. QED
      BY <3>1, <3>2
  <2>4. QED
    BY <2>2, <2>3
<1>4. ASSUME NEW g, g \in [Nat -> S], g[0] = none, \A n \in Nat : g[n + 1] = more(g[n]) PROVE Eq(g)
  <2>1. \A n \in Nat : g[n] = [p \in Packages |-> [m \in Marks |->
                           IF n = 0 THEN m ELSE RemoveOnce(now, g[n - 1], m, p, TRUE)]]
    <3>1. SUFFICES ASSUME NEW n \in Nat
                   PROVE  g[n] = [p \in Packages |-> [m \in Marks |->
                                   IF n = 0 THEN m ELSE RemoveOnce(now, g[n - 1], m, p, TRUE)]]
      OBVIOUS
    <3>2. CASE n = 0
      BY <1>4, <3>2
    <3>3. CASE n # 0
      <4>1. n - 1 \in Nat /\ n = (n - 1) + 1
        BY <3>3
      <4>2. g[n] = more(g[n - 1])
        BY <4>1, <1>4
      <4>3. QED
        BY <3>3, <4>2
    <3>4. QED
      BY <3>2, <3>3
  <2>2. g = [n \in Nat |-> g[n]]
    BY <1>4
  <2>3. QED
    BY <2>1, <2>2
<1>5. Removing(now) = CHOOSE f : Eq(f)
  BY DEF Removing
<1>6. \A c \in S : Keeps(c, T) /\ Keeps(c, Marks)
  BY <1>0 DEF Keeps
<1> HIDE DEF S, none, Eq, more
<1>7. \E f : Eq(f)
  <2>1. h \in [S -> S]
    BY <1>2
  <2> HIDE DEF h
  <2>2. Runs(S, none, h)
    BY <1>1, <2>1, Iterates
  <2> PICK g : Run(S, none, h, g)
    BY <2>2 DEF Runs
  <2>3. g \in [Nat -> S] /\ g[0] = none /\ \A n \in Nat : g[n] \in S /\ g[n + 1] = h[g[n]]
    BY DEF Run
  <2>4. \A n \in Nat : g[n + 1] = more(g[n])
    BY <2>3 DEF h
  <2>5. QED
    BY <1>4, <2>3, <2>4
<1>8. Eq(CHOOSE f : Eq(f))
  BY <1>7
<1> DEFINE N == {n \in Nat : Removing(now)[n] \in S}
<1>9. 0 \in N /\ \A n \in Nat : n \in N => n + 1 \in N
  BY <1>1, <1>2, <1>3, <1>5, <1>8
<1> HIDE DEF N
<1>10. Nat \subseteq N
  BY <1>9, EveryNumber
<1>11. \A n \in Nat : Keeps(Removing(now)[n], T) /\ Keeps(Removing(now)[n], Marks)
  BY <1>6, <1>10 DEF N
<1>12. Removing(now)[0] = none /\ \A n \in Nat : Removing(now)[n + 1] = more(Removing(now)[n])
  BY <1>3, <1>5, <1>8
<1>13. \A p \in Packages : \A m \in Marks : Removing(now)[0][p][m] = m
  BY <1>12 DEF none
<1>14. ASSUME NEW n \in Nat, NEW p \in Packages, NEW m \in Marks
       PROVE  Removing(now)[n + 1][p][m] = RemoveOnce(now, Removing(now)[n], m, p, TRUE)
  <2>1. Removing(now)[n + 1] = more(Removing(now)[n])
    BY <1>12
  <2>2. QED
    BY <2>1 DEF more
<1>15. QED
  BY <1>11, <1>13, <1>14

LEMMA RemovalStays ==
  ASSUME NEW now \in Statuses, NEW T, RemovesWithin(now, T),
         NEW m \in T, NEW p \in Packages, NEW soft \in BOOLEAN, Deleting(now, m, p, soft) \in T
  PROVE  MarkForRemove1(now, m, p, soft) \in T
<1>1. Cardinality(Packages) \in Nat /\ T \in SUBSET Marks
  BY DepCacheAssumption, FS_CardinalityType DEF RemovesWithin
<1>2. Keeps(Removing(now)[Cardinality(Packages)], T)
  BY <1>1, RemovingIs
<1>3. QED
  BY <1>1, <1>2, RemoveOnceStays DEF MarkForRemove1

\* Marks that an installation does not lead out of.
InstallsWithin(now, T) ==
  /\ T \subseteq Marks
  /\ \A m \in T : \A p \in Packages :
       /\ RelatedTo(now, m, p) \in T /\ Putting(now, m, p) \in T /\ SetAuto(m, p) \in T
       /\ p \notin UserPackages => Deleting(now, m, p, TRUE) \in T
Leads(Call, T) == \A m \in T : \A p \in Packages : Call[p][m] \in T

LEMMA InstallsRemoves ==
  ASSUME NEW now, NEW T, InstallsWithin(now, T)
  PROVE  RemovesWithin(now, T)
BY MarksAre DEF InstallsWithin, RemovesWithin

LEMMA MarksWithin ==
  ASSUME NEW now \in Statuses
  PROVE  InstallsWithin(now, Marks)
BY StepsInMarks DEF InstallsWithin

\* Calls that remove do not put back what they have marked.
Gone(now, m)    == {p \in Packages : now.have[p] # 0 /\ m.mode[p] = "delete"}
Further(now, m)  == {k \in Marks : Gone(now, m) \subseteq Gone(now, k)}
Present(now, m) == {p \in Packages : now.have[p] # 0} \ Gone(now, m)

LEMMA FurtherIsClosed ==
  ASSUME NEW now \in Statuses, NEW m \in Marks
  PROVE  RemovesWithin(now, Further(now, m))
<1>1. ASSUME NEW k \in Further(now, m), NEW p \in Packages PROVE Deleting(now, k, p, TRUE) \in Further(now, m)
  <2>1. k \in Marks /\ Gone(now, m) \subseteq Gone(now, k)
    BY DEF Further
  <2>2. Deleting(now, k, p, TRUE) \in Marks
    BY <2>1, StepsInMarks
  <2>3. /\ \A q \in Packages \ {p} : Deleting(now, k, p, TRUE).mode[q] = k.mode[q]
        /\ now.have[p] # 0 => Deleting(now, k, p, TRUE).mode[p] = "delete"
    BY <2>1 DEF Deleting, Marks
  <2>4. Gone(now, k) \subseteq Gone(now, Deleting(now, k, p, TRUE))
    BY <2>3 DEF Gone
  <2>5. QED
    BY <2>1, <2>2, <2>4 DEF Further
<1>2. \A k \in Further(now, m) : k \in Marks /\ k.auto \subseteq Packages
  BY MarksAre DEF Further
<1>3. QED
  BY <1>1, <1>2 DEF RemovesWithin

\* As many calls as there are packages are enough for what is still there.
LEMMA RemovingSettles ==
  ASSUME NEW now \in Statuses
  PROVE  \A n \in Nat : \A p \in Packages : \A m \in Marks :
           now.have[p] # 0 /\ Cardinality(Present(now, m)) <= n =>
             Removing(now)[n][p][m] = Removing(now)[n + 1][p][m]
<1> DEFINE L(n, p, m) == Removing(now)[n][p][m]
           N == {n \in Nat : \A p \in Packages : \A m \in Marks :
                   now.have[p] # 0 /\ Cardinality(Present(now, m)) <= n => L(n, p, m) = L(n + 1, p, m)}
<1>1. \A m \in Marks : IsFiniteSet(Present(now, m)) /\ Cardinality(Present(now, m)) \in Nat
  <2>1. SUFFICES ASSUME NEW m \in Marks
                 PROVE  IsFiniteSet(Present(now, m)) /\ Cardinality(Present(now, m)) \in Nat
    OBVIOUS
  <2>2. Present(now, m) \subseteq Packages
    BY DEF Present
  <2>3. QED
    BY <2>2, DepCacheAssumption, FS_Subset, FS_CardinalityType
<1>2. \A p \in Packages : \A m \in Marks :
        /\ L(0, p, m) = m
        /\ \A n \in Nat : L(n + 1, p, m) = RemoveOnce(now, Removing(now)[n], m, p, TRUE)
  BY MarksWithin, InstallsRemoves, RemovingIs
<1>3. \A p \in Packages : \A m \in Marks : m.mode[p] = "delete" => \A n \in Nat : L(n, p, m) = m
  <2>1. SUFFICES ASSUME NEW p \in Packages, NEW m \in Marks, m.mode[p] = "delete", NEW n \in Nat
                 PROVE  L(n, p, m) = m
    OBVIOUS
  <2>2. \A Call : RemoveOnce(now, Call, m, p, TRUE) = m
    BY <2>1 DEF RemoveOnce
  <2>3. CASE n = 0
    BY <1>2, <2>3
  <2>4. CASE n # 0
    <3>1. PICK k \in Nat : n = k + 1
      <4>1. n - 1 \in Nat /\ n = (n - 1) + 1
        BY <2>4
      <4>2. QED
        BY <4>1
    <3> HIDE DEF L
    <3>2. L(k + 1, p, m) = RemoveOnce(now, Removing(now)[k], m, p, TRUE)
      BY <1>2
    <3>3. QED
      BY <2>2, <3>1, <3>2
  <2>5. QED
    BY <2>3, <2>4
<1>4. 0 \in N
  <2>1. SUFFICES ASSUME NEW p \in Packages, NEW m \in Marks, now.have[p] # 0, Cardinality(Present(now, m)) <= 0
                 PROVE  L(0, p, m) = L(0 + 1, p, m)
    OBVIOUS
  <2>2. Present(now, m) = {}
    <3>1. Cardinality(Present(now, m)) = 0
      BY <1>1, <2>1
    <3>2. QED
      BY <1>1, <3>1, FS_EmptySet
  <2>3. m.mode[p] = "delete" /\ 0 + 1 \in Nat
    BY <2>1, <2>2 DEF Present, Gone
  <2> HIDE DEF L
  <2>4. QED
    BY <1>3, <2>3
<1>5. ASSUME NEW n \in Nat, n \in N PROVE n + 1 \in N
  <2>1. SUFFICES ASSUME NEW p \in Packages, NEW m \in Marks, now.have[p] # 0,
                        Cardinality(Present(now, m)) <= n + 1
                 PROVE  L(n + 1, p, m) = L((n + 1) + 1, p, m)
    OBVIOUS
  <2>2. CASE m.mode[p] = "delete"
    BY <1>3, <2>2
  <2>3. CASE m.mode[p] # "delete"
    <3> DEFINE d == Deleting(now, m, p, TRUE)
               T == Further(now, d)
    <3>1. /\ L(n + 1, p, m) = RemoveOnce(now, Removing(now)[n], m, p, TRUE)
          /\ L((n + 1) + 1, p, m) = RemoveOnce(now, Removing(now)[n + 1], m, p, TRUE)
      <4>1. n + 1 \in Nat
        OBVIOUS
      <4> HIDE DEF L
      <4>2. QED
        BY <1>2, <4>1
    <3>2. d \in Marks
      BY StepsInMarks
    <3>3. p \in Gone(now, d) /\ Gone(now, m) \subseteq Gone(now, d) /\ p \notin Gone(now, m)
      <4>1. d.mode[p] = "delete" /\ \A q \in Packages \ {p} : d.mode[q] = m.mode[q]
        BY <2>1 DEF Deleting, Marks
      <4>2. QED
        BY <2>1, <2>3, <4>1 DEF Gone
    <3> HIDE DEF d, T
    <3>4. d \in T /\ T \in SUBSET Marks
      BY <3>2 DEF T, Further
    <3>5. ASSUME NEW k \in T PROVE Cardinality(Present(now, k)) <= n
      <4>1. k \in Marks /\ Gone(now, d) \subseteq Gone(now, k)
        BY <3>5 DEF T, Further
      <4>2. Present(now, k) \subseteq Present(now, m) /\ Present(now, k) # Present(now, m)
        BY <2>1, <3>3, <4>1 DEF Present
      <4>3. Cardinality(Present(now, k)) <= Cardinality(Present(now, m))
            /\ Cardinality(Present(now, k)) # Cardinality(Present(now, m))
        BY <1>1, <4>2, FS_Subset
      <4>4. QED
        BY <1>1, <2>1, <4>1, <4>3
    <3>6. Alike(now, Removing(now)[n], Removing(now)[n + 1], T)
      BY <1>5, <3>4, <3>5, MarksAre DEF Alike
    <3>7. RemovesWithin(now, T)
      BY <3>2, FurtherIsClosed DEF T
    <3>8. Keeps(Removing(now)[n], T) /\ Keeps(Removing(now)[n + 1], T)
      <4>1. \A k \in Nat : Keeps(Removing(now)[k], T)
        BY <3>7, RemovingIs
      <4>2. n + 1 \in Nat
        OBVIOUS
      <4>3. QED
        BY <4>1, <4>2
    <3>9. m \in Marks /\ Deleting(now, m, p, TRUE) \in T
      BY <3>4 DEF d
    <3>10. RemoveOnce(now, Removing(now)[n], m, p, TRUE) = RemoveOnce(now, Removing(now)[n + 1], m, p, TRUE)
      <4>1. PICK soft \in BOOLEAN : soft = TRUE
        OBVIOUS
      <4>2. Deleting(now, m, p, soft) \in T
        BY <3>9, <4>1
      <4>3. RemoveOnce(now, Removing(now)[n], m, p, soft) = RemoveOnce(now, Removing(now)[n + 1], m, p, soft)
        BY <3>4, <3>6, <3>8, <4>2, RemoveOnceAgrees
      <4>4. QED
        BY <4>1, <4>3
    <3> HIDE DEF L
    <3>11. QED
      BY <3>1, <3>10
  <2>4. QED
    BY <2>2, <2>3
<1>6. Nat \subseteq N
  <2> HIDE DEF N
  <2>1. QED
    BY <1>4, <1>5, EveryNumber
<1>7. QED
  BY <1>6

\* So the calls of mark_for_remove_1 go on to the end as well, although the code does not
\* count them.
THEOREM RemovedThroughout ==
  ASSUME NEW now \in Statuses, NEW m \in Marks, NEW p \in Packages, NEW soft \in BOOLEAN
  PROVE  LET Itself == [q \in Packages |-> [k \in Marks |-> MarkForRemove1(now, k, q, TRUE)]]
         IN MarkForRemove1(now, m, p, soft) = RemoveOnce(now, Itself, m, p, soft)
<1> DEFINE Itself == [q \in Packages |-> [k \in Marks |-> MarkForRemove1(now, k, q, TRUE)]]
           N == Cardinality(Packages)
<1>1. N \in Nat /\ \A k \in Marks : Cardinality(Present(now, k)) <= N
  <2>1. \A k \in Marks : Present(now, k) \subseteq Packages
    BY DEF Present
  <2>2. QED
    BY <2>1, DepCacheAssumption, FS_CardinalityType, FS_Subset
<1> HIDE DEF N
<1>2. MarkForRemove1(now, m, p, soft) = RemoveOnce(now, Removing(now)[N], m, p, soft)
  BY DEF MarkForRemove1, N
<1>3. \A q \in Packages : \A k \in Marks : now.have[q] # 0 => Removing(now)[N][q][k] = Itself[q][k]
  <2>1. SUFFICES ASSUME NEW q \in Packages, NEW k \in Marks, now.have[q] # 0
                 PROVE  Removing(now)[N][q][k] = Itself[q][k]
    OBVIOUS
  <2>2. Itself[q][k] = RemoveOnce(now, Removing(now)[N], k, q, TRUE)
    BY DEF MarkForRemove1, N
  <2>3. Removing(now)[N + 1][q][k] = RemoveOnce(now, Removing(now)[N], k, q, TRUE)
    BY <1>1, MarksWithin, InstallsRemoves, RemovingIs
  <2>4. Removing(now)[N][q][k] = Removing(now)[N + 1][q][k]
    BY <1>1, <2>1, RemovingSettles
  <2> HIDE DEF Itself
  <2>5. QED
    BY <2>2, <2>3, <2>4
<1>4. Keeps(Removing(now)[N], Marks)
  BY <1>1, MarksWithin, InstallsRemoves, RemovingIs
<1>5. Keeps(Itself, Marks)
  <2>1. SUFFICES ASSUME NEW k \in Marks, NEW q \in k.auto \ UserPackages PROVE Itself[q][k] \in Marks
    BY DEF Keeps
  <2>2. q \in Packages
    BY MarksAre
  <2>3. MarkForRemove1(now, k, q, TRUE) \in Marks
    BY <2>2, MarksWithin, InstallsRemoves, StepsInMarks, RemovalStays
  <2>4. QED
    BY <2>2, <2>3
<1> HIDE DEF Itself
<1>6. Alike(now, Removing(now)[N], Itself, Marks)
  BY <1>3, MarksAre DEF Alike
<1>7. RemoveOnce(now, Removing(now)[N], m, p, soft) = RemoveOnce(now, Itself, m, p, soft)
  BY <1>4, <1>5, <1>6, StepsInMarks, RemoveOnceAgrees
<1>8. QED
  BY <1>2, <1>7 DEF Itself

LEMMA InstallOnceStays ==
  ASSUME NEW now \in Statuses, NEW T, InstallsWithin(now, T), NEW Call, Leads(Call, T),
         NEW m \in T, NEW p \in Packages
  PROVE  InstallOnce(now, Call, m, p) \in T
<1> DEFINE D == Needs(p, Cand(now, p))
           t == Putting(now, m, p)
           Satisfy(d, n) ==
             IF ~Unmet(now, n, d) \/ Cand(now, d[1]) < d[2] THEN n
             ELSE [Call[d[1]][n] EXCEPT !.auto = IF now.have[d[1]] = 0 THEN @ \cup {d[1]} ELSE @]
           one(s) == CHOOSE x \in s : TRUE
           Eq(f) == f = [s \in SUBSET D |-> IF s = {} THEN t ELSE Satisfy(one(s), f[s \ {one(s)}])]
           h == [d \in D |-> [n \in T |-> Satisfy(d, n)]]
           r == RelatedTo(now, m, p)
           u == (CHOOSE f : Eq(f))[D]
           R == Replaced(now, u, p)
           Away(q, n) == MarkForRemove1(now, n, q, TRUE)
           EqR(f) == f = [s \in SUBSET R |-> IF s = {} THEN u ELSE Away(one(s), f[s \ {one(s)}])]
           hR == [q \in R |-> [n \in T |-> Away(q, n)]]
<1>1. InstallOnce(now, Call, m, p)
        = IF r.mode[p] = "install" /\ ~Broken(now, r, p) THEN r ELSE (CHOOSE f : EqR(f))[R]
  BY DEF InstallOnce, FoldSet, MapThenFoldSet, Putting, RelatedTo
<1>2. IsFiniteSet(D) /\ \A d \in D : d[1] \in Packages
  BY VersionsAssumption, VersionIs
<1>3. t \in T /\ \A d \in D, n \in T : Satisfy(d, n) \in T
  <2>1. SUFFICES ASSUME NEW d \in D, NEW n \in T PROVE Satisfy(d, n) \in T
    BY DEF InstallsWithin
  <2>2. d[1] \in Packages /\ Call[d[1]][n] \in T /\ T \subseteq Marks
    BY <1>2 DEF Leads, InstallsWithin
  <2>3. SetAuto(Call[d[1]][n], d[1]) \in T
    BY <2>2 DEF InstallsWithin
  <2>4. \A k \in Marks : [k EXCEPT !.auto = @] = k
    BY MarksAre
  <2>5. QED
    BY <2>2, <2>3, <2>4 DEF SetAuto
<1>4. r \in T
  BY DEF InstallsWithin
<1> HIDE DEF Satisfy, t, D, r
<1>5. \E f : Eq(f)
  <2>1. h \in [D -> [T -> T]]
    BY <1>3
  <2> HIDE DEF h
  <2>2. CanFold(D, T, t, h)
    BY <1>2, <1>3, <2>1, Folded
  <2> PICK f : f \in [SUBSET D -> T] /\ FoldsTo(D, t, h, f)
    BY <2>2 DEF CanFold
  <2>3. \A s \in SUBSET D : s # {} => h[one(s)][f[s \ {one(s)}]] = Satisfy(one(s), f[s \ {one(s)}])
    BY DEF h
  <2>4. \A s \in SUBSET D : f[s] = IF s = {} THEN t ELSE h[one(s)][f[s \ {one(s)}]]
    BY DEF FoldsTo
  <2>5. Eq(f)
    BY <2>3, <2>4
  <2>6. QED
    BY <2>5
<1>6. \A f : Eq(f) => f[D] \in T
  <2>1. SUFFICES ASSUME NEW f, Eq(f) PROVE f[D] \in T
    OBVIOUS
  <2>2. f[{}] \in T /\ \A s \in SUBSET D : s # {} => f[s] = Satisfy(one(s), f[s \ {one(s)}]) /\ one(s) \in s
    BY <1>3, <2>1
  <2>3. Within(D, T, f)
    <3>1. ASSUME NEW s \in SUBSET D, s # {} PROVE one(s) \in D /\ f[s] = Satisfy(one(s), f[s \ {one(s)}])
      BY <2>2, <3>1
    <3>2. ASSUME NEW s \in SUBSET D, s # {}, f[s \ {one(s)}] \in T PROVE f[s] \in T
      <4>1. one(s) \in D
        BY <3>1, <3>2
      <4> HIDE DEF one
      <4>2. QED
        BY <1>3, <3>1, <3>2, <4>1
    <3>3. QED
      BY <2>2, <3>2 DEF Within
  <2>4. QED
    BY <1>2, <2>3, FoldStays
<1> HIDE DEF Eq
<1>7. Eq(CHOOSE f : Eq(f))
  BY <1>5
<1>8. u \in T
  BY <1>6, <1>7
<1> HIDE DEF u
<1>9. IsFiniteSet(R) /\ R \subseteq Packages \ UserPackages
  <2>1. R \subseteq Packages \ UserPackages
    BY VersionsAssumption, VersionIs DEF Replaced
  <2>2. QED
    BY <2>1, DepCacheAssumption, FS_Subset
<1>10. u \in T /\ \A q \in R, n \in T : Away(q, n) \in T
  BY <1>8, <1>9, InstallsRemoves, RemovalStays DEF InstallsWithin
<1> HIDE DEF Away, R
<1>11. \E f : EqR(f)
  <2>1. hR \in [R -> [T -> T]]
    BY <1>10
  <2> HIDE DEF hR
  <2>2. CanFold(R, T, u, hR)
    BY <1>9, <1>10, <2>1, Folded
  <2> PICK f : f \in [SUBSET R -> T] /\ FoldsTo(R, u, hR, f)
    BY <2>2 DEF CanFold
  <2>3. \A s \in SUBSET R : s # {} => hR[one(s)][f[s \ {one(s)}]] = Away(one(s), f[s \ {one(s)}])
    BY DEF hR
  <2>4. \A s \in SUBSET R : f[s] = IF s = {} THEN u ELSE hR[one(s)][f[s \ {one(s)}]]
    BY DEF FoldsTo
  <2>5. EqR(f)
    BY <2>3, <2>4
  <2>6. QED
    BY <2>5
<1>12. \A f : EqR(f) => f[R] \in T
  <2>1. SUFFICES ASSUME NEW f, EqR(f) PROVE f[R] \in T
    OBVIOUS
  <2>2. f[{}] \in T /\ \A s \in SUBSET R : s # {} => f[s] = Away(one(s), f[s \ {one(s)}]) /\ one(s) \in s
    BY <1>10, <2>1
  <2>3. Within(R, T, f)
    <3>1. ASSUME NEW s \in SUBSET R, s # {} PROVE one(s) \in R /\ f[s] = Away(one(s), f[s \ {one(s)}])
      BY <2>2, <3>1
    <3>2. ASSUME NEW s \in SUBSET R, s # {}, f[s \ {one(s)}] \in T PROVE f[s] \in T
      <4>1. one(s) \in R
        BY <3>1, <3>2
      <4> HIDE DEF one
      <4>2. QED
        BY <1>10, <3>1, <3>2, <4>1
    <3>3. QED
      BY <2>2, <3>2 DEF Within
  <2>4. QED
    BY <1>9, <2>3, FoldStays
<1> HIDE DEF EqR
<1>13. EqR(CHOOSE f : EqR(f))
  BY <1>11
<1>14. QED
  BY <1>1, <1>4, <1>12, <1>13

LEMMA InstallingStays ==
  ASSUME NEW now \in Statuses, NEW T, InstallsWithin(now, T)
  PROVE  \A n \in Nat : Leads(Installing(now)[n], T)
<1> DEFINE S == {c \in [Packages -> [Marks -> Marks]] : Leads(c, T)}
           none == [p \in Packages |-> [m \in Marks |-> m]]
           more(c) == [p \in Packages |-> [m \in Marks |-> InstallOnce(now, c, m, p)]]
           h == [c \in S |-> more(c)]
           Eq(f) == f = [n \in Nat |-> [p \in Packages |-> [m \in Marks |->
                           IF n = 0 THEN m ELSE InstallOnce(now, f[n - 1], m, p)]]]
<1>0. T \subseteq Marks
  BY DEF InstallsWithin
<1>1. none \in S
  BY <1>0 DEF Leads
<1>2. \A c \in S : more(c) \in S
  <2>1. SUFFICES ASSUME NEW c \in S PROVE more(c) \in S
    OBVIOUS
  <2>2. Leads(c, Marks) /\ Leads(c, T)
    BY <1>0 DEF Leads
  <2>3. \A m \in Marks, p \in Packages : InstallOnce(now, c, m, p) \in Marks
    BY <2>2, InstallOnceStays, MarksWithin
  <2>4. \A m \in T, p \in Packages : InstallOnce(now, c, m, p) \in T
    BY <2>2, InstallOnceStays
  <2>5. more(c) \in [Packages -> [Marks -> Marks]]
    BY <2>3
  <2>6. Leads(more(c), T)
    BY <1>0, <2>4 DEF Leads
  <2>7. QED
    BY <2>5, <2>6
<1>3. \A f : Eq(f) => f[0] = none /\ \A n \in Nat : f[n + 1] = more(f[n])
  <2>1. SUFFICES ASSUME NEW f, Eq(f) PROVE f[0] = none /\ \A n \in Nat : f[n + 1] = more(f[n])
    BY Zenon
  <2>2. f[0] = none
    BY <2>1
  <2>3. ASSUME NEW n \in Nat PROVE f[n + 1] = more(f[n])
    <3>1. n + 1 # 0 /\ n + 1 \in Nat /\ (n + 1) - 1 = n
      OBVIOUS
    <3>2. f[n + 1] = [p \in Packages |-> [m \in Marks |->
                       IF n + 1 = 0 THEN m ELSE InstallOnce(now, f[(n + 1) - 1], m, p)]]
      BY <2>1, <3>1
    <3>3. QED
      BY <3>1, <3>2
  <2>4. QED
    BY <2>2, <2>3
<1>4. ASSUME NEW g, g \in [Nat -> S], g[0] = none, \A n \in Nat : g[n + 1] = more(g[n]) PROVE Eq(g)
  <2>1. \A n \in Nat : g[n] = [p \in Packages |-> [m \in Marks |->
                           IF n = 0 THEN m ELSE InstallOnce(now, g[n - 1], m, p)]]
    <3>1. SUFFICES ASSUME NEW n \in Nat
                   PROVE  g[n] = [p \in Packages |-> [m \in Marks |->
                           IF n = 0 THEN m ELSE InstallOnce(now, g[n - 1], m, p)]]
      OBVIOUS
    <3>2. CASE n = 0
      BY <1>4, <3>2
    <3>3. CASE n # 0
      <4>1. n - 1 \in Nat /\ n = (n - 1) + 1
        BY <3>3
      <4>2. g[n] = more(g[n - 1])
        BY <4>1, <1>4
      <4>3. QED
        BY <3>3, <4>2
    <3>4. QED
      BY <3>2, <3>3
  <2>2. g = [n \in Nat |-> g[n]]
    BY <1>4
  <2>3. QED
    BY <2>1, <2>2
<1>5. Installing(now) = CHOOSE f : Eq(f)
  BY DEF Installing
<1>6. \A c \in S : Leads(c, T)
  OBVIOUS
<1> HIDE DEF S, none, Eq, more
<1>7. \E f : Eq(f)
  <2>1. h \in [S -> S]
    BY <1>2
  <2> HIDE DEF h
  <2>2. Runs(S, none, h)
    BY <1>1, <2>1, Iterates
  <2> PICK g : Run(S, none, h, g)
    BY <2>2 DEF Runs
  <2>3. g \in [Nat -> S] /\ g[0] = none /\ \A n \in Nat : g[n] \in S /\ g[n + 1] = h[g[n]]
    BY DEF Run
  <2>4. \A n \in Nat : g[n + 1] = more(g[n])
    BY <2>3 DEF h
  <2>5. QED
    BY <1>4, <2>3, <2>4
<1>8. Eq(CHOOSE f : Eq(f))
  BY <1>7
<1> DEFINE N == {n \in Nat : Installing(now)[n] \in S}
<1>9. 0 \in N /\ \A n \in Nat : n \in N => n + 1 \in N
  BY <1>1, <1>2, <1>3, <1>5, <1>8
<1> HIDE DEF N
<1>10. Nat \subseteq N
  BY <1>9, EveryNumber
<1>11. QED
  BY <1>6, <1>10 DEF N

LEMMA InstallationStays ==
  ASSUME NEW now \in Statuses, NEW T, InstallsWithin(now, T), NEW m \in T, NEW p \in Packages
  PROVE  MarkForInstall1(now, m, p) \in T
<1>1. MaxLevel + 1 \in Nat
  BY DEF MaxLevel
<1>2. Leads(Installing(now)[MaxLevel + 1], T)
  BY <1>1, InstallingStays
<1>3. QED
  BY <1>2 DEF MarkForInstall1, Leads

\* mark_sys_upgrades, before fix_soft_packages.
Upgraded(now, m) ==
  LET Upgrade(p, n) == IF n.mode[p] = "keep" THEN MarkForInstall1(now, n, p) ELSE n
  IN FoldSet(Upgrade, m, {p \in Packages \ UserPackages : now.have[p] # 0})

LEMMA UpgradesStay ==
  ASSUME NEW now \in Statuses, NEW T, InstallsWithin(now, T), NEW m \in T
  PROVE  Upgraded(now, m) \in T
<1> DEFINE D == {p \in Packages \ UserPackages : now.have[p] # 0}
           Upgrade(p, n) == IF n.mode[p] = "keep" THEN MarkForInstall1(now, n, p) ELSE n
           one(s) == CHOOSE x \in s : TRUE
           Eq(f) == f = [s \in SUBSET D |-> IF s = {} THEN m ELSE Upgrade(one(s), f[s \ {one(s)}])]
           h == [d \in D |-> [n \in T |-> Upgrade(d, n)]]
<1>1. IsFiniteSet(D) /\ D \subseteq Packages
  BY DepCacheAssumption, FS_Subset
<1>2. m \in T /\ \A d \in D, n \in T : Upgrade(d, n) \in T
  BY InstallationStays
<1>3. Upgraded(now, m) = (CHOOSE f : Eq(f))[D]
  BY DEF Upgraded, FoldSet, MapThenFoldSet
<1> HIDE DEF Upgrade, D
<1>4. \E f : Eq(f)
  <2>1. h \in [D -> [T -> T]]
    BY <1>2
  <2> HIDE DEF h
  <2>2. CanFold(D, T, m, h)
    BY <1>1, <1>2, <2>1, Folded
  <2> PICK f : f \in [SUBSET D -> T] /\ FoldsTo(D, m, h, f)
    BY <2>2 DEF CanFold
  <2>3. \A s \in SUBSET D : s # {} => h[one(s)][f[s \ {one(s)}]] = Upgrade(one(s), f[s \ {one(s)}])
    BY DEF h
  <2>4. \A s \in SUBSET D : f[s] = IF s = {} THEN m ELSE h[one(s)][f[s \ {one(s)}]]
    BY DEF FoldsTo
  <2>5. Eq(f)
    BY <2>3, <2>4
  <2>6. QED
    BY <2>5
<1>5. \A f : Eq(f) => f[D] \in T
  <2>1. SUFFICES ASSUME NEW f, Eq(f) PROVE f[D] \in T
    OBVIOUS
  <2>2. f[{}] \in T /\ \A s \in SUBSET D : s # {} => f[s] = Upgrade(one(s), f[s \ {one(s)}]) /\ one(s) \in s
    BY <1>2, <2>1
  <2>3. Within(D, T, f)
    <3>1. ASSUME NEW s \in SUBSET D, s # {} PROVE one(s) \in D /\ f[s] = Upgrade(one(s), f[s \ {one(s)}])
      BY <2>2, <3>1
    <3>2. ASSUME NEW s \in SUBSET D, s # {}, f[s \ {one(s)}] \in T PROVE f[s] \in T
      <4>1. one(s) \in D
        BY <3>1, <3>2
      <4> HIDE DEF one
      <4>2. QED
        BY <1>2, <3>1, <3>2, <4>1
    <3>3. QED
      BY <2>2, <3>2 DEF Within
  <2>4. QED
    BY <1>1, <2>3, FoldStays
<1> HIDE DEF Eq
<1>6. Eq(CHOOSE f : Eq(f))
  BY <1>4
<1>7. QED
  BY <1>3, <1>5, <1>6

\* Marks that putting packages back does not lead out of.
ResetsWithin(now, T) ==
  T \subseteq Marks /\ \A m \in T : \A ps \in SUBSET Packages : ResetPackages(now, m, ps) \in T

LEMMA ResetIs ==
  ASSUME NEW now \in Statuses, NEW m \in Marks, NEW ps \in SUBSET Packages
  PROVE  /\ ResetPackages(now, m, ps) \in Marks
         /\ Deleted(ResetPackages(now, m, ps)) = Deleted(m) \ ps
         /\ Installed(ResetPackages(now, m, ps)) = Installed(m) \ ps
         /\ ResetPackages(now, m, ps).soft = m.soft \ ps
<1>1. ResetPackages(now, m, ps) \in Marks
  BY StatusIs DEF Marks, ResetPackages
<1>2. \A p \in Packages : ResetPackages(now, m, ps).mode[p] = IF p \in ps THEN "keep" ELSE m.mode[p]
  BY DEF ResetPackages
<1>3. ResetPackages(now, m, ps).soft = m.soft \ ps
  BY DEF ResetPackages
<1>4. QED
  BY <1>1, <1>2, <1>3 DEF Deleted, Installed

LEMMA PutBackIs ==
  ASSUME NEW now \in Statuses, NEW m \in Marks
  PROVE  PutBack(now, m) \in SUBSET (Deleted(m) \cap m.soft) /\ PutBack(now, m) \in SUBSET Packages
BY DEF PutBack, Deleted

LEMMA FixingIs ==
  ASSUME NEW now \in Statuses
  PROVE  \A m \in Marks :
           /\ Fixing(now)[0][m] = m
           /\ \A n \in Nat : Fixing(now)[n + 1][m] =
                IF PutBack(now, m) = {} THEN m
                ELSE Fixing(now)[n][ResetPackages(now, m, PutBack(now, m))]
<1> DEFINE S == [Marks -> Marks]
           none == [m \in Marks |-> m]
           fixed(m) == ResetPackages(now, m, PutBack(now, m))
           more(c) == [m \in Marks |-> IF PutBack(now, m) = {} THEN m ELSE c[fixed(m)]]
           h == [c \in S |-> more(c)]
           Eq(f) == f = [n \in Nat |-> [m \in Marks |->
                           IF n = 0 \/ PutBack(now, m) = {} THEN m ELSE f[n - 1][fixed(m)]]]
<1>1. none \in S
  OBVIOUS
<1>2. \A c \in S : more(c) \in S
  BY ResetIs, PutBackIs
<1>3. \A f : Eq(f) => f[0] = none /\ \A n \in Nat : f[n + 1] = more(f[n])
  <2> HIDE DEF fixed
  <2>1. SUFFICES ASSUME NEW f, Eq(f) PROVE f[0] = none /\ \A n \in Nat : f[n + 1] = more(f[n])
    BY Zenon
  <2>2. f[0] = none
    BY <2>1
  <2>3. ASSUME NEW n \in Nat PROVE f[n + 1] = more(f[n])
    <3>1. n + 1 # 0 /\ n + 1 \in Nat /\ (n + 1) - 1 = n
      OBVIOUS
    <3>2. f[n + 1] = [m \in Marks |-> IF n + 1 = 0 \/ PutBack(now, m) = {} THEN m
                                      ELSE f[(n + 1) - 1][fixed(m)]]
      BY <2>1, <3>1
    <3>3. QED
      BY <3>1, <3>2
  <2>4. QED
    BY <2>2, <2>3
<1>4. ASSUME NEW g, g \in [Nat -> S], g[0] = none, \A n \in Nat : g[n + 1] = more(g[n]) PROVE Eq(g)
  <2> HIDE DEF fixed
  <2>1. \A n \in Nat : g[n] = [m \in Marks |->
                           IF n = 0 \/ PutBack(now, m) = {} THEN m ELSE g[n - 1][fixed(m)]]
    <3>1. SUFFICES ASSUME NEW n \in Nat
                   PROVE  g[n] = [m \in Marks |->
                                   IF n = 0 \/ PutBack(now, m) = {} THEN m ELSE g[n - 1][fixed(m)]]
      OBVIOUS
    <3>2. CASE n = 0
      BY <1>4, <3>2
    <3>3. CASE n # 0
      <4>1. n - 1 \in Nat /\ n = (n - 1) + 1
        BY <3>3
      <4>2. g[n] = more(g[n - 1])
        BY <4>1, <1>4
      <4>3. QED
        BY <3>3, <4>2
    <3>4. QED
      BY <3>2, <3>3
  <2>2. g = [n \in Nat |-> g[n]]
    BY <1>4
  <2>3. QED
    BY <2>1, <2>2
<1>5. Fixing(now) = CHOOSE f : Eq(f)
  BY DEF Fixing
<1> HIDE DEF S, Eq, more, none
<1>6. \E f : Eq(f)
  <2>1. h \in [S -> S]
    BY <1>2
  <2> HIDE DEF h
  <2>2. Runs(S, none, h)
    BY <1>1, <2>1, Iterates
  <2> PICK g : Run(S, none, h, g)
    BY <2>2 DEF Runs
  <2>3. g \in [Nat -> S] /\ g[0] = none /\ \A n \in Nat : g[n] \in S /\ g[n + 1] = h[g[n]]
    BY DEF Run
  <2>4. \A n \in Nat : g[n + 1] = more(g[n])
    BY <2>3 DEF h
  <2>5. QED
    BY <1>4, <2>3, <2>4
<1>7. Eq(CHOOSE f : Eq(f))
  BY <1>6
<1>8. Fixing(now)[0] = none /\ \A n \in Nat : Fixing(now)[n + 1] = more(Fixing(now)[n])
  BY <1>3, <1>5, <1>7
<1>9. SUFFICES ASSUME NEW m \in Marks
               PROVE  /\ Fixing(now)[0][m] = m
                      /\ \A n \in Nat : Fixing(now)[n + 1][m] =
                           IF PutBack(now, m) = {} THEN m ELSE Fixing(now)[n][fixed(m)]
  OBVIOUS
<1> HIDE DEF fixed
<1>10. Fixing(now)[0][m] = m
  BY <1>8 DEF none
<1>11. ASSUME NEW n \in Nat
       PROVE  Fixing(now)[n + 1][m] = IF PutBack(now, m) = {} THEN m ELSE Fixing(now)[n][fixed(m)]
  <2>1. Fixing(now)[n + 1] = more(Fixing(now)[n])
    BY <1>8
  <2>2. QED
    BY <2>1 DEF more
<1>12. QED
  BY <1>10, <1>11

LEMMA FixingStays ==
  ASSUME NEW now \in Statuses, NEW T, ResetsWithin(now, T), NEW m \in T
  PROVE  FixSoftPackages(now, m) \in T
<1> DEFINE N == {n \in Nat : \A k \in T : Fixing(now)[n][k] \in T}
<1>1. T \subseteq Marks
  BY DEF ResetsWithin
<1>2. 0 \in N
  BY <1>1, FixingIs
<1>3. ASSUME NEW n \in Nat, n \in N PROVE n + 1 \in N
  <2>1. SUFFICES ASSUME NEW k \in T PROVE Fixing(now)[n + 1][k] \in T
    OBVIOUS
  <2>2. ResetPackages(now, k, PutBack(now, k)) \in T
    BY <1>1, PutBackIs DEF ResetsWithin
  <2>3. k \in Marks
    BY <1>1
  <2>4. Fixing(now)[n + 1][k] = IF PutBack(now, k) = {} THEN k
                                ELSE Fixing(now)[n][ResetPackages(now, k, PutBack(now, k))]
    BY <2>3, FixingIs
  <2>5. QED
    BY <1>3, <2>2, <2>4
<1> HIDE DEF N
<1>4. Nat \subseteq N
  BY <1>2, <1>3, EveryNumber
<1>5. Cardinality(Packages) \in Nat
  BY DepCacheAssumption, FS_CardinalityType
<1>6. QED
  BY <1>4, <1>5 DEF N, FixSoftPackages

\* Each round puts a package back, so that at the end nothing is to be put back.
LEMMA FixingSettles ==
  ASSUME NEW now \in Statuses, NEW m \in Marks
  PROVE  PutBack(now, FixSoftPackages(now, m)) = {}
<1> DEFINE gone(k) == Deleted(k) \cap k.soft
           N == {n \in Nat : \A k \in Marks : Cardinality(gone(k)) <= n => PutBack(now, Fixing(now)[n][k]) = {}}
<1>1. \A k \in Marks : gone(k) \subseteq Packages /\ IsFiniteSet(gone(k)) /\ Cardinality(gone(k)) \in Nat
  <2>1. SUFFICES ASSUME NEW k \in Marks
                 PROVE  gone(k) \subseteq Packages /\ IsFiniteSet(gone(k)) /\ Cardinality(gone(k)) \in Nat
    OBVIOUS
  <2>2. gone(k) \subseteq Packages
    BY DEF Deleted
  <2>3. QED
    BY <2>2, DepCacheAssumption, FS_Subset, FS_CardinalityType
<1>2. 0 \in N
  <2>1. SUFFICES ASSUME NEW k \in Marks, Cardinality(gone(k)) <= 0 PROVE PutBack(now, Fixing(now)[0][k]) = {}
    OBVIOUS
  <2>2. gone(k) = {}
    <3>1. Cardinality(gone(k)) = 0
      <4> HIDE DEF gone
      <4>1. QED
        BY <1>1, <2>1
    <3>2. QED
      BY <1>1, <3>1, FS_EmptySet
  <2>3. Fixing(now)[0][k] = k
    BY FixingIs
  <2>4. QED
    BY <2>2, <2>3, PutBackIs
<1>3. ASSUME NEW n \in Nat, n \in N PROVE n + 1 \in N
  <2>1. SUFFICES ASSUME NEW k \in Marks, Cardinality(gone(k)) <= n + 1
                 PROVE  PutBack(now, Fixing(now)[n + 1][k]) = {}
    <3> HIDE DEF gone
    <3>1. QED
      BY <1>3
  <2> DEFINE r == ResetPackages(now, k, PutBack(now, k))
  <2>2. Fixing(now)[n + 1][k] = IF PutBack(now, k) = {} THEN k ELSE Fixing(now)[n][r]
    BY FixingIs
  <2>3. CASE PutBack(now, k) = {}
    BY <2>2, <2>3
  <2>4. CASE PutBack(now, k) # {}
    <3>1. r \in Marks /\ gone(r) = gone(k) \ PutBack(now, k)
      BY ResetIs, PutBackIs
    <3>2. PutBack(now, k) \subseteq gone(k)
      BY PutBackIs
    <3> HIDE DEF r, gone
    <3>3. gone(r) \subseteq gone(k) /\ gone(r) # gone(k)
      BY <2>4, <3>1, <3>2
    <3>4. Cardinality(gone(r)) < Cardinality(gone(k))
      <4>1. IsFiniteSet(gone(k)) /\ Cardinality(gone(k)) \in Nat /\ Cardinality(gone(r)) \in Nat
        BY <1>1, <3>1
      <4>2. Cardinality(gone(r)) <= Cardinality(gone(k))
            /\ (Cardinality(gone(r)) = Cardinality(gone(k)) => gone(r) = gone(k))
        BY <3>3, <4>1, FS_Subset
      <4>3. QED
        BY <3>3, <4>1, <4>2
    <3>5. Cardinality(gone(r)) <= n
      BY <1>1, <2>1, <3>1, <3>4
    <3>6. PutBack(now, Fixing(now)[n][r]) = {}
      BY <1>3, <3>1, <3>5
    <3>7. QED
      BY <2>2, <2>4, <3>6
  <2>5. QED
    BY <2>3, <2>4
<1>4. Nat \subseteq N
  <2> HIDE DEF N
  <2>1. QED
    BY <1>2, <1>3, EveryNumber
<1>5. Cardinality(Packages) \in Nat /\ Cardinality(gone(m)) <= Cardinality(Packages)
  BY <1>1, DepCacheAssumption, FS_CardinalityType, FS_Subset
<1>6. QED
  BY <1>4, <1>5 DEF FixSoftPackages

\* Once that is so, nothing that is needed is removed softly.
LEMMA NothingToPutBack ==
  ASSUME NEW now \in Statuses, NEW m \in Marks, PutBack(now, m) = {},
         NEW p \in Packages, InstVer(now, m, p) # 0, NEW d \in Needs(p, InstVer(now, m, p))
  PROVE  ~(d[1] \in m.soft /\ d[1] \in Deleted(m))
BY DEF PutBack

\* A cache that was reset has nothing marked.
LEMMA KeptFits ==
  ASSUME NEW now, NEW auto \in SUBSET Packages
  PROVE  Fits(now, Kept(auto)) /\ Installed(Kept(auto)) = {} /\ Deleted(Kept(auto)) = {}
<1>1. Kept(auto) \in Marks
  BY DEF Kept, Marks
<1>2. Installed(Kept(auto)) = {} /\ Deleted(Kept(auto)) = {}
  BY DEF Kept, Installed, Deleted
<1>3. QED
  BY <1>1, <1>2 DEF Fits

LEMMA DoomedFits ==
  ASSUME NEW now, NEW m, Fits(now, m), NEW ps
  PROVE  Fits(now, Doomed(m, ps))
<1>1. m \in Marks /\ \A p \in Installed(m) : p \in m.related /\ Cand(now, p) # now.have[p]
  BY DEF Fits
<1>2. Doomed(m, ps) \in Marks /\ Doomed(m, ps).related = m.related
  BY <1>1 DEF Doomed, Marks
<1>3. Installed(Doomed(m, ps)) \subseteq Installed(m)
  BY <1>1 DEF Doomed, Installed, Marks
<1>4. QED
  BY <1>1, <1>2, <1>3 DEF Fits

\* An operation is not the one that stands for none.
LEMMA OpIs ==
  ASSUME NEW op \in Ops
  PROVE  /\ op # NoOp /\ op.package \in UserPackages \cup {Sys}
         /\ op.package # "" /\ op.package # NoOp.package
         /\ op.install \in BOOLEAN /\ (op.install => op = ToInstall(op.package))
         /\ ~op.install => op.package \in UserPackages /\ op.package \in Packages
         /\ ToInstall(op.package) \in Ops
<1>1. /\ "magic:sys" # "" /\ "" \notin UserPackages
  BY DepCacheAssumption
<1>2. \A p : /\ ToInstall(p).package = p /\ ToInstall(p).install = TRUE
             /\ ToRemove(p).package = p /\ ToRemove(p).install = FALSE
  BY DEF ToInstall, ToRemove
<1>3. NoOp.package = "" /\ Sys # ""
  BY <1>1 DEF NoOp, Sys
<1>4. CASE \E p \in UserPackages \cup {Sys} : op = ToInstall(p)
  <2>1. PICK p \in UserPackages \cup {Sys} : op = ToInstall(p)
    BY <1>4
  <2>2. p # "" /\ op.package = p /\ op.install = TRUE /\ op = ToInstall(op.package)
    BY <1>1, <1>2, <1>3, <2>1
  <2>3. QED
    BY <1>3, <2>1, <2>2 DEF Ops
<1>5. CASE \E p \in UserPackages : op = ToRemove(p)
  <2>1. PICK p \in UserPackages : op = ToRemove(p)
    BY <1>5
  <2>2. p # "" /\ op.package = p /\ op.install = FALSE /\ p \in Packages
    BY <1>1, <1>2, <2>1, DepCacheAssumption
  <2>3. ToInstall(p) \in Ops
    BY DEF Ops
  <2>4. QED
    BY <1>3, <2>1, <2>2, <2>3
<1>6. QED
  BY <1>4, <1>5 DEF Ops

\* All that an operation does to the marks leads to such as are fit, and an installation
\* removes no package of the user more.
Fitting(now, X) == {m \in Marks : Fits(now, m) /\ Deleted(m) \cap UserPackages \subseteq X}

LEMMA FittingIsClosed ==
  ASSUME NEW now \in Statuses, NEW X
  PROVE  InstallsWithin(now, Fitting(now, X)) /\ ResetsWithin(now, Fitting(now, X))
<1>1. Fitting(now, X) \subseteq Marks
  BY DEF Fitting
<1>2. ASSUME NEW m \in Fitting(now, X), NEW p \in Packages
      PROVE  /\ RelatedTo(now, m, p) \in Fitting(now, X) /\ Putting(now, m, p) \in Fitting(now, X)
             /\ SetAuto(m, p) \in Fitting(now, X)
             /\ p \notin UserPackages => Deleting(now, m, p, TRUE) \in Fitting(now, X)
  <2>1. /\ m \in Marks /\ Deleted(m) \cap UserPackages \subseteq X
        /\ \A q \in Installed(m) : q \in m.related /\ Cand(now, q) # now.have[q]
    BY DEF Fitting, Fits
  <2>2. /\ \A soft \in BOOLEAN : Deleting(now, m, p, soft) \in Marks
        /\ RelatedTo(now, m, p) \in Marks /\ Putting(now, m, p) \in Marks /\ SetAuto(m, p) \in Marks
    BY <2>1, StepsInMarks
  <2>3. MarkRelated(now, m.related, p, Cand(now, p)) \in SUBSET Packages
        /\ m.related \cup {p} \subseteq MarkRelated(now, m.related, p, Cand(now, p))
    BY <2>1, MarksAre, VersionIs, RelatedGrows
  <2>4. /\ RelatedTo(now, m, p).mode = m.mode /\ m.related \cup {p} \subseteq RelatedTo(now, m, p).related
    BY <2>1, <2>3, MarksAre DEF RelatedTo
  <2>5. RelatedTo(now, m, p) \in Fitting(now, X)
    BY <2>1, <2>2, <2>4 DEF Fitting, Fits, Installed, Deleted
  <2>6. SetAuto(m, p).mode = m.mode /\ SetAuto(m, p).related = m.related
    BY <2>1, MarksAre DEF SetAuto
  <2>7. SetAuto(m, p) \in Fitting(now, X)
    BY <2>1, <2>2, <2>6 DEF Fitting, Fits, Installed, Deleted
  <2>8. /\ Putting(now, m, p).related = RelatedTo(now, m, p).related
        /\ \A q \in Packages \ {p} : Putting(now, m, p).mode[q] = m.mode[q]
        /\ Putting(now, m, p).mode[p] = IF Cand(now, p) = now.have[p] THEN "keep" ELSE "install"
    <3>1. CASE Cand(now, p) = now.have[p]
      BY <2>2, <2>4, <3>1 DEF Putting, Marks
    <3>2. CASE Cand(now, p) # now.have[p]
      BY <2>2, <2>4, <3>2 DEF Putting, Marks
    <3>3. QED
      BY <3>1, <3>2
  <2>9. Putting(now, m, p) \in Fitting(now, X)
    <3>1. Deleted(Putting(now, m, p)) \subseteq Deleted(m)
      BY <2>8 DEF Deleted
    <3>2. \A q \in Installed(Putting(now, m, p)) :
            q \in Putting(now, m, p).related /\ Cand(now, q) # now.have[q]
      BY <2>1, <2>4, <2>8 DEF Installed
    <3>3. QED
      BY <2>1, <2>2, <3>1, <3>2 DEF Fitting, Fits
  <2>10. ASSUME p \notin UserPackages PROVE Deleting(now, m, p, TRUE) \in Fitting(now, X)
    <3>1. /\ Deleting(now, m, p, TRUE).related = m.related
          /\ \A q \in Packages \ {p} : Deleting(now, m, p, TRUE).mode[q] = m.mode[q]
          /\ Deleting(now, m, p, TRUE).mode[p] \in {"keep", "delete"}
      BY <2>1 DEF Deleting, Marks
    <3>2. Deleted(Deleting(now, m, p, TRUE)) \subseteq Deleted(m) \cup {p}
          /\ Installed(Deleting(now, m, p, TRUE)) \subseteq Installed(m)
      BY <3>1 DEF Deleted, Installed
    <3>3. QED
      BY <2>1, <2>2, <2>10, <3>1, <3>2 DEF Fitting, Fits
  <2>11. QED
    BY <2>5, <2>7, <2>9, <2>10
<1>3. ASSUME NEW m \in Fitting(now, X), NEW ps \in SUBSET Packages
      PROVE  ResetPackages(now, m, ps) \in Fitting(now, X)
  <2>1. /\ m \in Marks /\ Deleted(m) \cap UserPackages \subseteq X
        /\ \A q \in Installed(m) : q \in m.related /\ Cand(now, q) # now.have[q]
    BY DEF Fitting, Fits
  <2>2. ResetPackages(now, m, ps).related = m.related \ ps
    BY DEF ResetPackages
  <2>3. QED
    BY <2>1, <2>2, ResetIs DEF Fitting, Fits
<1>4. QED
  BY <1>1, <1>2, <1>3 DEF InstallsWithin, ResetsWithin

LEMMA MarkedStays ==
  ASSUME NEW now \in Statuses, NEW op \in Ops, op.install,
         NEW T, InstallsWithin(now, T), ResetsWithin(now, T), NEW m \in T
  PROVE  Marked(now, m, op) \in T
<1>1. op.package = Sys \/ op.package \in Packages
  BY OpIs, DepCacheAssumption
<1>2. CASE op.package = Sys
  <2>1. Marked(now, m, op) = FixSoftPackages(now, Upgraded(now, m))
    BY <1>2 DEF Marked, MarkSysUpgrades, Upgraded
  <2>2. QED
    BY <2>1, UpgradesStay, FixingStays
<1>3. CASE op.package # Sys
  <2>1. Marked(now, m, op) = FixSoftPackages(now, MarkForInstall1(now, m, op.package))
    BY <1>3 DEF Marked
  <2>2. QED
    BY <1>1, <1>3, <2>1, InstallationStays, FixingStays
<1>4. QED
  BY <1>2, <1>3

LEMMA RemovalMarkedStays ==
  ASSUME NEW now \in Statuses, NEW op \in Ops, ~op.install,
         NEW T, RemovesWithin(now, T), ResetsWithin(now, T),
         NEW m \in T, Deleting(now, m, op.package, FALSE) \in T
  PROVE  Marked(now, m, op) \in T
<1>1. op.package \in Packages
  BY OpIs
<1>2. MarkForRemove1(now, m, op.package, FALSE) \in T
  BY <1>1, RemovalStays
<1>3. QED
  BY <1>2, FixingStays DEF Marked

\* What is marked for installation is related and newer, whatever was marked before; and
\* an installation marks no package of the user for removal ("but only if it is a non-user
\* package", mark_for_install_1).
THEOREM MarkedFits ==
  ASSUME NEW now \in Statuses, NEW op \in Ops, NEW m, Fits(now, m)
  PROVE  /\ Fits(now, Marked(now, m, op))
         /\ op.install => Deleted(Marked(now, m, op)) \cap UserPackages \subseteq Deleted(m)
<1> DEFINE X == Deleted(m) \cap UserPackages
<1>1. m \in Marks
  BY DEF Fits
<1>2. m \in Fitting(now, X)
  BY <1>1 DEF Fitting
<1>3. CASE op.install
  <2>1. Marked(now, m, op) \in Fitting(now, X)
    BY <1>2, <1>3, FittingIsClosed, MarkedStays
  <2>2. QED
    BY <2>1 DEF Fitting
<1>4. CASE ~op.install
  <2> DEFINE p == op.package
             d == Deleting(now, m, p, FALSE)
             Y == UserPackages
  <2>1. p \in UserPackages /\ p \in Packages
    BY <1>4, OpIs
  <2>2. d \in Marks
    BY <1>1, <2>1, StepsInMarks
  <2>3. d.related = m.related /\ Installed(d) \subseteq Installed(m)
    <3>1. /\ d.related = m.related
          /\ \A q \in Packages \ {p} : d.mode[q] = m.mode[q]
          /\ d.mode[p] \in {"keep", "delete"}
      BY <1>1, <2>1 DEF Deleting, Marks
    <3>2. QED
      BY <3>1 DEF Installed
  <2>4. d \in Fitting(now, Y) /\ m \in Fitting(now, Y)
    BY <1>1, <2>2, <2>3 DEF Fitting, Fits
  <2>5. RemovesWithin(now, Fitting(now, Y)) /\ ResetsWithin(now, Fitting(now, Y))
    BY FittingIsClosed, InstallsRemoves
  <2>6. Marked(now, m, op) \in Fitting(now, Y)
    BY <1>4, <2>4, <2>5, RemovalMarkedStays
  <2>7. QED
    BY <1>4, <2>6 DEF Fitting
<1>5. QED
  BY <1>3, <1>4, OpIs

\* A removal takes only packages along that were installed automatically and are not the
\* user's, and installs nothing (mark_for_remove_1).
THEOREM MarkedRemoval ==
  ASSUME NEW now \in Statuses, NEW op \in Ops, ~op.install
  PROVE  LET m == Marked(now, Kept(now.auto), op)
         IN /\ Installed(m) = {}
            /\ Deleted(m) \subseteq {op.package} \cup (now.auto \ UserPackages)
<1> DEFINE k == Kept(now.auto)
           p == op.package
           T == {m \in Marks : /\ Installed(m) = {} /\ m.auto \subseteq now.auto
                               /\ Deleted(m) \subseteq {p} \cup (now.auto \ UserPackages)}
<1>1. now.auto \in SUBSET Packages /\ p \in Packages
  BY StatusIs, OpIs
<1>2. k \in T
  BY <1>1, KeptFits DEF Fits, Kept
<1>3. ASSUME NEW m \in T, NEW q \in {p} \cup (m.auto \ UserPackages), NEW soft \in BOOLEAN
      PROVE  Deleting(now, m, q, soft) \in T
  <2>1. m \in Marks /\ q \in Packages /\ q \in {p} \cup (now.auto \ UserPackages)
    BY <1>1, MarksAre
  <2>2. Deleting(now, m, q, soft) \in Marks
    BY <2>1, StepsInMarks
  <2>3. /\ Deleting(now, m, q, soft).auto \subseteq m.auto
        /\ \A r \in Packages \ {q} : Deleting(now, m, q, soft).mode[r] = m.mode[r]
        /\ Deleting(now, m, q, soft).mode[q] \in {"keep", "delete"}
    BY <2>1 DEF Deleting, Marks
  <2>4. Deleted(Deleting(now, m, q, soft)) \subseteq Deleted(m) \cup {q}
        /\ Installed(Deleting(now, m, q, soft)) \subseteq Installed(m)
    BY <2>3 DEF Deleted, Installed
  <2>5. QED
    BY <2>1, <2>2, <2>3, <2>4
<1>4. ASSUME NEW m \in T, NEW ps \in SUBSET Packages PROVE ResetPackages(now, m, ps) \in T
  <2>1. ResetPackages(now, m, ps).auto \subseteq now.auto
    BY DEF ResetPackages
  <2>2. QED
    BY <2>1, ResetIs
<1>5. RemovesWithin(now, T) /\ ResetsWithin(now, T)
  BY <1>3, <1>4 DEF RemovesWithin, ResetsWithin
<1>6. Deleting(now, k, p, FALSE) \in T
  BY <1>2, <1>3
<1> HIDE DEF T, k
<1>7. Marked(now, k, op) \in T
  BY <1>2, <1>5, <1>6, RemovalMarkedStays
<1>8. QED
  BY <1>7 DEF T, k

\* Nothing that is needed is removed softly (fix_soft_packages).
THEOREM MarkedSettles ==
  ASSUME NEW now \in Statuses, NEW op \in Ops, NEW m \in Marks
  PROVE  PutBack(now, Marked(now, m, op)) = {}
<1>1. op.package = Sys \/ op.package \in Packages
  BY OpIs, DepCacheAssumption
<1>2. InstallsWithin(now, Marks) /\ RemovesWithin(now, Marks)
  BY MarksWithin, InstallsRemoves
<1>3. CASE op.install /\ op.package = Sys
  <2>1. Marked(now, m, op) = FixSoftPackages(now, Upgraded(now, m))
    BY <1>3 DEF Marked, MarkSysUpgrades, Upgraded
  <2>2. Upgraded(now, m) \in Marks
    BY <1>2, UpgradesStay
  <2>3. QED
    BY <2>1, <2>2, FixingSettles
<1>4. CASE op.install /\ op.package # Sys
  <2>1. Marked(now, m, op) = FixSoftPackages(now, MarkForInstall1(now, m, op.package))
    BY <1>4 DEF Marked
  <2>2. MarkForInstall1(now, m, op.package) \in Marks
    BY <1>1, <1>2, <1>4, InstallationStays
  <2>3. QED
    BY <2>1, <2>2, FixingSettles
<1>5. CASE ~op.install
  <2>1. Marked(now, m, op) = FixSoftPackages(now, MarkForRemove1(now, m, op.package, FALSE))
    BY <1>5 DEF Marked
  <2>2. op.package \in Packages
    BY <1>5, OpIs
  <2>3. MarkForRemove1(now, m, op.package, FALSE) \in Marks
    BY <1>2, <2>2, StepsInMarks, RemovalStays
  <2>4. QED
    BY <2>1, <2>3, FixingSettles
<1>6. QED
  BY <1>3, <1>4, <1>5, OpIs

\* What is marked when op has been tried.
LEMMA TriedFits ==
  ASSUME Typed, MarksKnown, NEW op \in Ops
  PROVE  /\ Fits(Now, CacheState(marks, memo, op))
         /\ ~disturbed => CacheState(marks, memo, op) = Marked(Now, Kept(autoinst), op)
<1>1. Now \in Statuses /\ Now.auto = autoinst /\ Now.have = have /\ autoinst = autoFile
  BY DEF Typed, Now
<1>2. Fits(Now, Kept(autoinst)) /\ Fits(Now, marks)
  BY <1>1, StatusIs, KeptFits DEF MarksKnown
<1>3. Fits(Now, Marked(Now, Kept(autoinst), op)) /\ Fits(Now, Marked(Now, marks, op))
  BY <1>1, <1>2, MarkedFits
<1>4. Fits(Now, CacheState(marks, memo, op))
  BY <1>2, <1>3 DEF CacheState
<1>5. ~disturbed => marks = IF memo = NoOp THEN Kept(autoinst) ELSE Marked(Now, Kept(autoinst), memo)
  BY DEF MarksKnown, NoResidue
<1>6. ~disturbed => CacheState(marks, memo, op) = Marked(Now, Kept(autoinst), op)
  BY <1>5, OpIs DEF CacheState
<1>7. QED
  BY <1>4, <1>6

\* What may be read of the level of an installed package, and the domain of its update.
LEMMA NewDomainIs ==
  ASSUME Typed, NEW m, NEW beyond \in Beyond
  PROVE  \A p \in Packages :
           /\ NewDomain(m, p, beyond) \in DOMAIN domains
           /\ have[p] # 0 => /\ Read(beyond, cur[p]) \in Nat
                             /\ cur[p] \in DOMAIN domains => Read(beyond, cur[p]) = Level(cur[p])
           /\ have[p] # 0 /\ m.mode[p] = "install" => NewDomain(m, p, beyond) = Taken(p, Read(beyond, cur[p]))
<1> SUFFICES ASSUME NEW p \in Packages
             PROVE  /\ NewDomain(m, p, beyond) \in DOMAIN domains
                    /\ have[p] # 0 => /\ Read(beyond, cur[p]) \in Nat
                                      /\ cur[p] \in DOMAIN domains => Read(beyond, cur[p]) = Level(cur[p])
                    /\ have[p] # 0 /\ m.mode[p] = "install" => NewDomain(m, p, beyond) = Taken(p, Read(beyond, cur[p]))
  OBVIOUS
<1>1. domains \in Configs /\ Unsigned \in DOMAIN domains /\ \A i \in DOMAIN domains : Level(i) \in Nat
  BY ConfigIs DEF Typed
<1>2. Accepted(Indices(p), domains, have[p] = 0, Read(beyond, cur[p])) \in DOMAIN domains
  BY <1>1, AcceptedIs
<1>3. NewDomain(m, p, beyond) \in DOMAIN domains
  BY <1>1, <1>2 DEF NewDomain
<1>4. ASSUME have[p] # 0
      PROVE  /\ Read(beyond, cur[p]) \in Nat
             /\ cur[p] \in DOMAIN domains => Read(beyond, cur[p]) = Level(cur[p])
  <2>1. cur[p] \notin DOMAIN domains => beyond[cur[p]] \in Nat
    BY <1>4, PackageCacheAssumption DEF Beyond
  <2>2. QED
    BY <1>1, <2>1 DEF Read
<1>5. ASSUME have[p] # 0, m.mode[p] = "install" PROVE NewDomain(m, p, beyond) = Taken(p, Read(beyond, cur[p]))
  <2>1. (have[p] = 0) = FALSE
    BY <1>5
  <2>2. QED
    BY <1>5, <2>1 DEF NewDomain, Taken
<1>6. QED
  BY <1>3, <1>4, <1>5

\* The domains after collect_new_domains.
LEMMA CollectedIs ==
  ASSUME Typed, NEW m, NEW beyond \in Beyond
  PROVE  /\ Collected(m, beyond) \in [Packages -> Numbers]
         /\ \A p \in m.related \cap Packages : Collected(m, beyond)[p] = NewDomain(m, p, beyond)
         /\ \A p \in Packages \ m.related : Collected(m, beyond)[p] = cur[p]
<1>1. DOMAIN domains \subseteq Numbers
  BY ConfigIs DEF Typed
<1>2. \A p \in Packages : NewDomain(m, p, beyond) \in Numbers /\ cur[p] \in Numbers
  BY <1>1, NewDomainIs DEF Typed
<1>3. QED
  BY <1>2 DEF Collected

-----------------------------------------------------------------------------
(* Steps of the cache *)

\* An operation that has been tried is on record.
LEMMA RecordedKeeps ==
  ASSUME Typed, MarksKnown, open, NEW op \in Ops, NEW m, Fits(Now, m),
         ~disturbed => m = Marked(Now, Kept(autoinst), op),
         marks' = m, memo' = op, UNCHANGED <<disk, open, autoinst, disturbed>>
  PROVE  Now' = Now /\ MarksKnown'
<1>1. Now' = Now
  BY DEF Now, disk
<1>2. op # NoOp
  BY OpIs
<1>3. QED
  BY <1>1, <1>2 DEF MarksKnown, NoResidue

\* A cache that is new.
LEMMA NewKeeps ==
  ASSUME marks' = Kept(autoinst'), memo' = NoOp, disturbed' = FALSE, autoinst' \subseteq Packages
  PROVE  MarksKnown'
<1>1. Fits(Now, Kept(autoinst))' /\ Kept(autoinst)' = Kept(autoinst')
  <2>1. \A now : Fits(now, Kept(autoinst'))
    BY KeptFits
  <2>2. QED
    BY <2>1
<1>2. QED
  BY <1>1 DEF MarksKnown, NoResidue

\* It has what is on file, be it written again or not.
LEMMA OpenedKeeps ==
  ASSUME Typed, NEW auto \in SUBSET Packages, NEW files \in [Domains -> SUBSET Packages], NEW got,
         NEW opened \in BOOLEAN, NewCache(auto, files, got, opened), autoFile' = auto,
         Now' \in Statuses, lost' \subseteq Packages, UNCHANGED <<domains, unasked, agreed>>
  PROVE  /\ Typed' /\ MarksKnown' /\ DomainsKnown' /\ ~disturbed'
         /\ \A p \in Packages : Loaded(files)[p] # Invalid => Recorded'[p] = Loaded(files)[p]
<1>1. /\ open' \in BOOLEAN /\ autoinst' = auto /\ marks' = Kept(auto) /\ memo' = NoOp
      /\ cur' = Filled(Loaded(files), got) /\ renumbered' = {} /\ disturbed' = FALSE
      /\ domFile' \in {Rewritten(files, cur'), files}
  BY DEF NewCache
<1>2. domains \in Configs
  BY DEF Typed
<1>3. /\ domFile' \in [Domains -> SUBSET Packages]
      /\ cur' \in [Packages -> DOMAIN domains \cup {Invalid}]
      /\ \A p \in Packages : Loaded(domFile')[p] # Invalid => cur'[p] = Loaded(domFile')[p]
      /\ \A p \in Packages : Loaded(files)[p] # Invalid => Loaded(domFile')[p] = Loaded(files)[p]
  <2>1. PICK number, new : number = cur' /\ new = domFile'
    OBVIOUS
  <2>2. number = Filled(Loaded(files), got) /\ new \in {Rewritten(files, number), files}
    BY <1>1, <2>1
  <2>3. QED
    BY <1>2, <2>1, <2>2, RereadIs
<1>4. Recorded' = Loaded(domFile') /\ \A i : Level(i)' = Level(i)
  BY DEF Recorded, Loaded, Level
<1>5. cur' \in [Packages -> Numbers]
  BY <1>2, <1>3, ConfigIs
<1>6. Typed'
  BY <1>1, <1>2, <1>3, <1>5 DEF Typed
<1>7. MarksKnown'
  BY <1>1, NewKeeps
<1>8. DomainsKnown'
  <2>1. ASSUME NEW p \in Packages, Recorded'[p] # Invalid
        PROVE  cur'[p] \in DOMAIN domains' /\ Level(cur[p])' >= Level(Recorded[p])'
    <3>1. cur'[p] = Recorded'[p] /\ cur'[p] \in DOMAIN domains
      BY <1>3, <1>4, <2>1
    <3>2. Level(cur'[p]) \in Nat /\ domains' = domains
      BY <1>2, <3>1, ConfigIs
    <3>3. Level(cur[p])' = Level(cur'[p]) /\ Level(Recorded[p])' = Level(cur'[p])
      BY <3>1 DEF Level
    <3>4. QED
      BY <3>1, <3>2, <3>3
  <2>2. QED
    BY <2>1 DEF DomainsKnown
<1>9. QED
  BY <1>1, <1>3, <1>4, <1>6, <1>7, <1>8

\* A cache that is opened again, with what is on file.
LEMMA ReopenedKeeps ==
  ASSUME Typed, NEW opened \in BOOLEAN, NewCache(autoFile, domFile, have, opened),
         UNCHANGED <<have, bad, autoFile, domains, lost, unasked, agreed>>
  PROVE  Typed' /\ MarksKnown' /\ DomainsKnown' /\ ~disturbed'
<1>1. autoFile \in SUBSET Packages /\ domFile \in [Domains -> SUBSET Packages] /\ autoinst = autoFile
  BY StatusIs DEF Typed, Now
<1>2. Now' = Now
  BY <1>1 DEF NewCache, Now
<1>3. Now' \in Statuses /\ lost' \subseteq Packages
  BY <1>2 DEF Typed
<1>4. QED
  BY <1>1, <1>3, OpenedKeeps

\* What dpkg does to some of the packages that are marked.
LEMMA InstalledKeeps ==
  ASSUME Typed, NEW m, Fits(Now, m), NEW done \in SUBSET Packages, NEW half \in SUBSET Packages,
         half \subseteq bad \cup (done \cap Installed(m)),
         \A p \in half : p \in done => p \in Installed(m),
         DoInstall(m, done, half), NEW beyond \in Beyond, NEW opened \in BOOLEAN,
         NewCache(m.auto, Saved(domFile, Collected(m, beyond)), have', opened),
         UNCHANGED <<domains, unasked, agreed>>
  PROVE  /\ Typed' /\ MarksKnown' /\ DomainsKnown' /\ ~disturbed'
         /\ \A p \in m.related \cap Packages : Recorded'[p] = NewDomain(m, p, beyond)
<1> DEFINE got == [p \in Packages |-> IF p \in done THEN InstVer(Now, m, p) ELSE have[p]]
           files == Saved(domFile, Collected(m, beyond))
<1>1. /\ have' = got /\ bad' = half /\ autoFile' = m.auto
      /\ lost' = lost \cup (m.related \ Installed(m)) /\ autoinst' = m.auto
  BY DEF DoInstall, NewCache
<1>2. /\ Now \in Statuses /\ Now.have = have /\ Now.bad = bad
      /\ \A p \in Packages : have[p] \in Versions(p) /\ have[p] \in Nat
      /\ \A p \in bad : have[p] # 0
  BY StatusIs DEF Typed, Now
<1>3. m \in Marks /\ \A p \in Installed(m) : p \in m.related /\ Cand(Now, p) # have[p]
  BY <1>2 DEF Fits
<1>4. \A p \in Packages : /\ Cand(Now, p) \in Versions(p)
                          /\ Cand(Now, p) # have[p] => Cand(Now, p) # 0
  <2>1. SUFFICES ASSUME NEW p \in Packages
                 PROVE  /\ Cand(Now, p) \in Versions(p)
                        /\ Cand(Now, p) # have[p] => Cand(Now, p) # 0
    OBVIOUS
  <2>2. Available[p] \in Nat /\ Available[p] \in Versions(p)
    BY DepCacheAssumption DEF Versions
  <2>3. have[p] \in Nat /\ have[p] \in Versions(p) /\ Cand(Now, p) = IF Available[p] > have[p] THEN Available[p] ELSE have[p]
    BY <1>2 DEF Cand
  <2>4. QED
    BY <2>2, <2>3
<1>5. \A p \in Packages : InstVer(Now, m, p) \in Versions(p)
  BY <1>2, <1>4 DEF InstVer, Versions
<1>6. \A p \in Installed(m) : InstVer(Now, m, p) # 0
  BY <1>3, <1>4 DEF Installed, InstVer
<1>7. Now' \in Statuses
  <2>1. \A p \in Packages : got[p] \in Versions(p)
    BY <1>2, <1>5
  <2>2. \A p \in half : got[p] # 0
    BY <1>2, <1>6
  <2>3. m.auto \in SUBSET Packages
    BY <1>3 DEF Marks
  <2>4. got = [p \in Packages |-> got[p]]
    OBVIOUS
  <2> HIDE DEF got
  <2>5. [have |-> got, bad |-> half, auto |-> m.auto] \in Statuses
    BY <2>1, <2>2, <2>3, <2>4, IsStatus
  <2>6. QED
    BY <1>1, <2>5 DEF Now
<1> HIDE DEF got
<1>8. m.auto \in SUBSET Packages /\ lost' \subseteq Packages
  BY <1>1, <1>3 DEF Marks, Typed
<1>9. /\ files \in [Domains -> SUBSET Packages]
      /\ \A p \in Packages : Loaded(files)[p] =
           IF Collected(m, beyond)[p] \in DOMAIN domains THEN Collected(m, beyond)[p] ELSE Invalid
  BY SavedIs DEF Typed
<1>10. NewCache(m.auto, files, have', opened)
  OBVIOUS
<1> HIDE DEF files
<1>11. /\ Typed' /\ MarksKnown' /\ DomainsKnown' /\ ~disturbed'
       /\ \A p \in Packages : Loaded(files)[p] # Invalid => Recorded'[p] = Loaded(files)[p]
  <2>1. PICK now : now = have'
    OBVIOUS
  <2>2. NewCache(m.auto, files, now, opened)
    BY <1>10, <2>1
  <2>3. QED
    BY <1>1, <1>7, <1>8, <1>9, <2>2, OpenedKeeps
<1>12. \A p \in m.related \cap Packages : Recorded'[p] = NewDomain(m, p, beyond)
  <2>1. SUFFICES ASSUME NEW p \in m.related \cap Packages PROVE Recorded'[p] = NewDomain(m, p, beyond)
    OBVIOUS
  <2>2. Collected(m, beyond)[p] = NewDomain(m, p, beyond) /\ NewDomain(m, p, beyond) \in DOMAIN domains
    BY NewDomainIs, CollectedIs
  <2>3. Invalid \notin DOMAIN domains
    BY ConfigIs DEF Typed
  <2>4. QED
    BY <1>9, <1>11, <2>2, <2>3
<1>13. QED
  BY <1>11, <1>12

\* operation (): nothing is done, or dpkg does some of what is marked.
LEMMA OperateIs ==
  ASSUME Typed, NEW m, NEW success \in BOOLEAN, Operate(m, success)
  PROVE  \/ \E opened \in BOOLEAN :
              NewCache(autoFile, domFile, have, opened) /\ UNCHANGED <<have, bad, autoFile, lost>>
         \/ \E done \in SUBSET Packages, half \in SUBSET Packages, beyond \in Beyond, opened \in BOOLEAN :
              /\ half \subseteq bad \cup (done \cap Installed(m))
              /\ \A p \in half : p \in done => p \in Installed(m)
              /\ DoInstall(m, done, half)
              /\ NewCache(m.auto, Saved(domFile, Collected(m, beyond)), have', opened)
<1> DEFINE changed == {p \in Packages : InstVer(Now, m, p) # have[p]}
           New(beyond) == Saved(domFile, Collected(m, beyond))
<1>1. bad \subseteq Packages
  BY StatusIs DEF Typed, Now
<1>2. ASSUME NEW auto, NEW files, NEW got, Reopened(auto, files, got)
      PROVE  \E opened \in BOOLEAN : NewCache(auto, files, got, opened)
  BY <1>2 DEF Reopened
<1>3. CASE Reopened(autoFile, domFile, have) /\ UNCHANGED <<have, bad, autoFile, lost>>
  BY <1>2, <1>3
<1>4. ASSUME DoInstall(m, changed, bad \ (changed \cup m.related)),
             NEW beyond \in Beyond, Reopened(m.auto, New(beyond), have')
      PROVE  \E done \in SUBSET Packages, half \in SUBSET Packages, opened \in BOOLEAN :
               /\ half \subseteq bad \cup (done \cap Installed(m))
               /\ \A p \in half : p \in done => p \in Installed(m)
               /\ DoInstall(m, done, half) /\ NewCache(m.auto, New(beyond), have', opened)
  <2> DEFINE rest == bad \ (changed \cup m.related)
  <2>1. \E opened \in BOOLEAN : NewCache(m.auto, New(beyond), have', opened)
    BY <1>4 DEF Reopened
  <2>2. /\ changed \in SUBSET Packages /\ rest \in SUBSET Packages
        /\ rest \subseteq bad \cup (changed \cap Installed(m)) /\ \A p \in rest : p \notin changed
    BY <1>1
  <2>3. DoInstall(m, changed, rest)
    BY <1>4
  <2> HIDE DEF changed, rest, New
  <2>4. QED
    BY <2>1, <2>2, <2>3
<1>5. ASSUME NEW done \in SUBSET changed, NEW half \in {{}} \cup {{p} : p \in done \cap Installed(m)},
             DoInstall(m, done, (bad \ done) \cup half),
             NEW beyond \in Beyond, NewCache(m.auto, New(beyond), have', TRUE)
      PROVE  \E d \in SUBSET Packages, h \in SUBSET Packages, opened \in BOOLEAN :
               /\ h \subseteq bad \cup (d \cap Installed(m))
               /\ \A p \in h : p \in d => p \in Installed(m)
               /\ DoInstall(m, d, h) /\ NewCache(m.auto, New(beyond), have', opened)
  <2> DEFINE h == (bad \ done) \cup half
  <2>1. half \subseteq done \cap Installed(m) /\ done \subseteq Packages
    OBVIOUS
  <2>2. /\ h \in SUBSET Packages /\ h \subseteq bad \cup (done \cap Installed(m))
        /\ \A p \in h : p \in done => p \in Installed(m)
    BY <1>1, <2>1
  <2>3. DoInstall(m, done, h)
    BY <1>5
  <2> HIDE DEF h, New
  <2>4. QED
    BY <1>5, <2>1, <2>2, <2>3
<1>6. QED
  BY <1>3, <1>4, <1>5 DEF Operate

\* operation (), whatever dpkg did.
LEMMA OperateKeeps ==
  ASSUME Typed, NEW m, Fits(Now, m), NEW success \in BOOLEAN, Operate(m, success),
         UNCHANGED <<domains, unasked, agreed>>
  PROVE  Typed' /\ MarksKnown' /\ DomainsKnown' /\ ~disturbed'
<1>1. ASSUME NEW opened \in BOOLEAN, NewCache(autoFile, domFile, have, opened),
             UNCHANGED <<have, bad, autoFile, lost>>
      PROVE  Typed' /\ MarksKnown' /\ DomainsKnown' /\ ~disturbed'
  BY <1>1, ReopenedKeeps
<1>2. ASSUME NEW done \in SUBSET Packages, NEW half \in SUBSET Packages, NEW beyond \in Beyond,
             NEW opened \in BOOLEAN, half \subseteq bad \cup (done \cap Installed(m)),
             \A p \in half : p \in done => p \in Installed(m), DoInstall(m, done, half),
             NewCache(m.auto, Saved(domFile, Collected(m, beyond)), have', opened)
      PROVE  Typed' /\ MarksKnown' /\ DomainsKnown' /\ ~disturbed'
  BY <1>2, InstalledKeeps
<1>3. QED
  BY <1>1, <1>2, OperateIs

-----------------------------------------------------------------------------
(* Steps of the queue *)

LEMMA Enqueued ==
  ASSUME QueueKnown, NEW cmd, NEW op, [cmd |-> cmd, op |-> op] \in Requests,
         requests' = requests \o Ask(cmd, op)
  PROVE  /\ requests' \in Seq(Requests)
         /\ Range(requests') \subseteq Range(requests) \cup {[cmd |-> cmd, op |-> op]}
         /\ cmd \notin FlowCmds \/ Quiet(requests) => Single(requests')
         /\ cmd \notin FlowCmds /\ Quiet(requests) => Quiet(requests')
BY Asked, AddedToQueue DEF QueueKnown

LEMMA Answered ==
  ASSUME QueueKnown, requests # << >>, NEW more \in Seq(Requests), Answer(more)
  PROVE  /\ requests' \in Seq(Requests)
         /\ Range(requests') \subseteq Range(requests) \cup Range(more)
         /\ Head(requests).cmd \in FlowCmds =>
              /\ flow.step = "busy"
              /\ Single(more) => Single(requests')
              /\ Quiet(more) => Quiet(requests')
              /\ \A r \in Range(requests') : r.cmd \in FlowCmds => r \in Range(more)
         /\ Quiet(more) => Single(requests') /\ (Quiet(requests) => Quiet(requests'))
<1>1. /\ requests \in Seq(Requests) /\ Single(requests) /\ requests' = Tail(requests) \o more
      /\ flow.step # "busy" => Quiet(requests)
  BY DEF QueueKnown, Answer
<1>2. /\ Tail(requests) \in Seq(Requests) /\ Range(Tail(requests)) \subseteq Range(requests)
      /\ Single(Tail(requests)) /\ (Quiet(requests) => Quiet(Tail(requests)) /\ Head(requests).cmd \notin FlowCmds)
      /\ Head(requests).cmd \in FlowCmds => Quiet(Tail(requests))
  BY <1>1, RestOfQueue
<1>3. /\ requests' \in Seq(Requests) /\ Range(requests') \subseteq Range(Tail(requests)) \cup Range(more)
      /\ Quiet(Tail(requests)) /\ Single(more) => Single(requests')
      /\ Quiet(more) => Single(requests')
      /\ Quiet(Tail(requests)) /\ Quiet(more) => Quiet(requests')
  BY <1>1, <1>2, AddedToQueue
<1>4. Quiet(Tail(requests)) => \A r \in Range(requests') : r.cmd \in FlowCmds => r \in Range(more)
  BY <1>3 DEF Quiet, Range
<1>5. QED
  BY <1>1, <1>2, <1>3, <1>4

\* The request of the flow has been answered, and it asks for nothing more.
LEMMA FlowSettles ==
  ASSUME QueueKnown, requests # << >>, Head(requests).cmd \in FlowCmds,
         NEW more \in Seq(Requests), Quiet(more), Answer(more),
         flow' \in Flows, flow'.step \in {"busy", "confirm"} => flow'.package # ""
  PROVE  QueueKnown' /\ Quiet(requests')
<1>1. /\ requests' \in Seq(Requests) /\ Single(requests') /\ Quiet(requests')
  BY Answered
<1>2. \A r \in Range(requests') : r.cmd \notin FlowCmds
  BY <1>1 DEF Quiet, Range
<1>3. "check" \in FlowCmds
  BY DEF FlowCmds
<1>4. QED
  BY <1>1, <1>2, <1>3 DEF QueueKnown

\* It asks for something else.
LEMMA FlowGoesOn ==
  ASSUME QueueKnown, requests # << >>, Head(requests).cmd \in FlowCmds,
         NEW more \in Seq(Requests), Single(more), Answer(more), flow' = flow,
         \A r \in Range(more) : r.cmd # "check"
  PROVE  QueueKnown' /\ flow.step = "busy" /\ \A r \in Range(requests') : r.cmd \in FlowCmds => r \in Range(more)
<1>1. /\ requests' \in Seq(Requests) /\ Single(requests') /\ flow.step = "busy"
      /\ \A r \in Range(requests') : r.cmd \in FlowCmds => r \in Range(more)
  BY Answered
<1>2. "check" \in FlowCmds
  BY DEF FlowCmds
<1>3. QED
  BY <1>1, <1>2 DEF QueueKnown

\* A request that is not the flow's has been answered.
LEMMA FlowStays ==
  ASSUME QueueKnown, requests # << >>, NEW more \in Seq(Requests), Quiet(more), Answer(more), flow' = flow
  PROVE  QueueKnown' /\ \A r \in Range(requests') : r.cmd \in FlowCmds => r \in Range(requests)
<1>1. /\ requests' \in Seq(Requests) /\ Single(requests') /\ (Quiet(requests) => Quiet(requests'))
      /\ Range(requests') \subseteq Range(requests) \cup Range(more)
  BY Answered
<1>2. \A r \in Range(more) : r.cmd \notin FlowCmds
  BY DEF Quiet, Range
<1>3. \A r \in Range(requests') : r.cmd \in FlowCmds => r \in Range(requests)
  BY <1>1, <1>2
<1>4. "check" \in FlowCmds
  BY DEF FlowCmds
<1>5. QED
  BY <1>1, <1>3, <1>4 DEF QueueKnown

\* The requests that the frontend makes.
LEMMA RequestIs ==
  /\ \A op \in Ops :
       /\ \A cmd \in {"info", "details", "flowinfo"} : [cmd |-> cmd, op |-> op] \in Requests
       /\ op.install => \A cmd \in Sets : [cmd |-> cmd, op |-> op] \in Requests
       /\ ~op.install => \A cmd \in {"rmcheck", "remove"} : [cmd |-> cmd, op |-> op] \in Requests
  /\ \A cmd \in {"list", "relist", "autoremove"} : [cmd |-> cmd, op |-> NoOp] \in Requests
  /\ \A p \in UserPackages \cup {Sys} : ToInstall(p) \in Ops /\ ToInstall(p).install
  /\ \A p \in UserPackages : ToRemove(p) \in Ops /\ ~ToRemove(p).install
<1>1. \A p \in UserPackages \cup {Sys} : ToInstall(p) \in Ops /\ ToInstall(p).install
  BY DEF Ops, ToInstall
<1>2. \A p \in UserPackages : ToRemove(p) \in Ops /\ ~ToRemove(p).install
  BY DEF Ops, ToRemove
<1>3. \A op \in Ops :
        /\ \A cmd \in {"info", "details", "flowinfo"} : [cmd |-> cmd, op |-> op] \in Requests
        /\ ~op.install => \A cmd \in {"rmcheck", "remove"} : [cmd |-> cmd, op |-> op] \in Requests
  BY DEF Requests, FlowCmds, TriedCmds, Sets
<1>4. \A op \in Ops, cmd \in Sets : op.install => [cmd |-> cmd, op |-> op] \in Requests
  BY DEF Requests, FlowCmds, TriedCmds, Sets
<1>5. \A cmd \in {"list", "relist", "autoremove"} : [cmd |-> cmd, op |-> NoOp] \in Requests
  BY DEF Requests, FlowCmds, TriedCmds, Sets
<1>6. QED
  BY <1>1, <1>2, <1>3, <1>4, <1>5

\* The request that the backend takes.
LEMMA HeadIs ==
  ASSUME QueueKnown, requests # << >>
  PROVE  /\ Head(requests) \in Range(requests) /\ Head(requests) = [cmd |-> Head(requests).cmd, op |-> Op]
         /\ Head(requests).cmd \in TriedCmds => Op \in Ops
         /\ Head(requests).cmd \in Sets => Op.install
         /\ Head(requests).cmd \in {"rmcheck", "remove"} => ~Op.install
         /\ Head(requests).cmd = "check" => Op = ToInstall(flow.package) /\ ~flow.checked
<1>1. Head(requests) \in Range(requests) /\ Head(requests) \in Requests
  BY RestOfQueue DEF QueueKnown
<1>2. QED
  BY <1>1 DEF QueueKnown, Requests, Op

-----------------------------------------------------------------------------
(* What there is to ask *)

LEMMA QuestionsStay ==
  ASSUME Now' = Now, UNCHANGED <<have, autoinst, cur, domains>>, NEW op
  PROVE  Questions(op)' = Questions(op)
<1> DEFINE m == Marked(Now, Kept(autoinst), op)
<1>1. m' = m
  OBVIOUS
<1>2. \A p, level : Taken(p, level)' = Taken(p, level) /\ \A i : Level(i)' = Level(i)
  BY DEF Taken, Accepted, Indices, Numbered, Level
<1>3. \A p : Taken(p, Level(cur[p]))' = Taken(p, Level(cur[p]))
  BY DEF Taken, Accepted, Indices, Numbered, Level
<1>4. \A p : Level(Taken(p, Level(cur[p])))' = Level(Taken(p, Level(cur[p]))) /\ Level(cur[p])' = Level(cur[p])
  BY <1>3 DEF Level
<1> HIDE DEF m
<1>5. QED
  BY <1>1, <1>4 DEF Questions, m

\* The questions are what is found, but for packages of which something else is read.
LEMMA QuestionsAre ==
  ASSUME Typed, NEW op, NEW m, m = Marked(Now, Kept(autoinst), op), NEW beyond \in Beyond
  PROVE  /\ Questions(op) \subseteq Violations(m, beyond)
         /\ \A p \in Violations(m, beyond) : cur[p] \in DOMAIN domains => p \in Questions(op)
<1>1. \A p \in Packages : have[p] # 0 /\ cur[p] \in DOMAIN domains /\ m.mode[p] = "install" =>
        NewDomain(m, p, beyond) = Taken(p, Level(cur[p])) /\ Read(beyond, cur[p]) = Level(cur[p])
  BY NewDomainIs
<1>2. \A p \in Installed(m) : p \in Packages /\ m.mode[p] = "install"
  BY DEF Installed
<1>3. QED
  BY <1>1, <1>2 DEF Questions, Violations, Worse

\* Once its domains are on record, an operation raises no question.
LEMMA QuestionsCollected ==
  ASSUME Typed, NEW op \in Ops, NEW m, Fits(Now, m), m = Marked(Now, Kept(autoinst), op),
         NEW beyond \in Beyond, Now' = Now, UNCHANGED <<have, autoinst, domains>>,
         cur' = Collected(m, beyond)
  PROVE  Questions(op)' = {}
<1>1. m = Marked(Now, Kept(autoinst), op)'
  OBVIOUS
<1>2. \A p, level : Taken(p, level)' = Taken(p, level')
  BY DEF Taken, Accepted, Indices, Numbered, Level
<1>3. \A i : Level(i)' = Level(i')
  BY DEF Level
<1>4. SUFFICES ASSUME NEW p \in Questions(op)' PROVE FALSE
  OBVIOUS
<1>5. /\ p \in Installed(m) /\ have[p] # 0
      /\ Level(Taken(p, Level(cur'[p]))) < Level(cur'[p])
  BY <1>1, <1>2, <1>3, <1>4 DEF Questions
<1>6. p \in Packages /\ m.mode[p] = "install" /\ p \in m.related
  BY <1>5 DEF Installed, Fits
<1>7. PICK level \in Nat : cur'[p] = Taken(p, level)
  BY <1>5, <1>6, CollectedIs, NewDomainIs
<1>8. Level(Taken(p, Level(cur'[p]))) >= Level(cur'[p]) /\ Level(cur'[p]) \in Nat /\ cur'[p] \in DOMAIN domains
  BY <1>6, <1>7, AcceptedAgain DEF Typed
<1>9. Level(Taken(p, Level(cur'[p]))) \in Nat
  BY <1>6, <1>8, AcceptedAgain DEF Typed
<1>10. QED
  BY <1>5, <1>8, <1>9

\* What was to be asked has been, as long as it only gets less.
LEMMA AskedStays ==
  ASSUME AllAsked, QueueKnown', flow' = flow, ~disturbed' => ~disturbed,
         open => /\ open' /\ Excused \subseteq Excused'
                 /\ \A op \in Ops : Questions(op)' \subseteq Questions(op) \cup Excused',
         \A r \in Range(requests') :
           r.cmd \in Wants /\ r.op.install =>
             \E q \in Range(requests) : q.cmd \in Wants /\ q.op = r.op
  PROVE  AllAsked'
<1>1. SUFFICES ASSUME ~disturbed', flow.checked
               PROVE  /\ \A r \in Range(requests') :
                           r.cmd \in Wants /\ r.op.install => open' /\ Questions(r.op)' \subseteq Excused'
                      /\ \A op \in Ops :
                           flow.step = "confirm" /\ op = ToInstall(flow.package) =>
                             open' /\ Questions(op)' \subseteq flow.from \cup Excused'
  BY DEF AllAsked
<1>2. ASSUME NEW r \in Range(requests'), r.cmd \in Wants, r.op.install
      PROVE  open' /\ Questions(r.op)' \subseteq Excused'
  <2>1. PICK q \in Range(requests) : q.cmd \in Wants /\ q.op = r.op
    BY <1>2
  <2>2. open /\ Questions(r.op) \subseteq Excused
    BY <1>1, <1>2, <2>1 DEF AllAsked
  <2>3. r \in Requests
    BY InQueue DEF QueueKnown
  <2>4. r.op \in Ops
    BY <1>2, <2>3 DEF Requests, Wants, TriedCmds
  <2>5. QED
    BY <2>2, <2>4
<1>3. ASSUME NEW op \in Ops, flow.step = "confirm", op = ToInstall(flow.package)
      PROVE  open' /\ Questions(op)' \subseteq flow.from \cup Excused'
  BY <1>1, <1>3 DEF AllAsked
<1>4. QED
  BY <1>2, <1>3

\* Where no flow is after something, there is nothing to be asked.
LEMMA NothingToAsk ==
  ASSUME \/ ~flow'.checked
         \/ /\ flow'.step # "confirm"
            /\ \A r \in Range(requests') : r.cmd \in FlowCmds => ~(r.cmd \in Wants /\ r.op.install)
  PROVE  AllAsked'
<1>1. Wants \subseteq FlowCmds
  BY DEF Wants, FlowCmds
<1>2. QED
  BY <1>1 DEF AllAsked

LEMMA CacheStays ==
  ASSUME Typed, MarksKnown, DomainsKnown,
         UNCHANGED <<disk, cache, domains, lost, unasked, renumbered, disturbed>>,
         agreed \subseteq agreed', agreed' \subseteq Packages
  PROVE  /\ Typed' /\ MarksKnown' /\ DomainsKnown' /\ open' = open
         /\ \A op : Questions(op)' = Questions(op)
         /\ Excused \subseteq Excused' /\ disturbed' = disturbed
<1>1. /\ UNCHANGED <<have, bad, autoFile, domFile, open, marks, autoinst, cur, memo, domains>>
      /\ UNCHANGED <<lost, unasked, renumbered, disturbed>>
  BY DEF disk, cache
<1>2. Now' = Now /\ Recorded' = Recorded
  BY <1>1, SameDomains DEF Now
<1>3. \A op : Questions(op)' = Questions(op)
  BY <1>1, <1>2, QuestionsStay
<1>4. Excused \subseteq Excused'
  BY <1>1 DEF Excused
<1>5. Typed'
  BY <1>1, <1>2 DEF Typed
<1>6. MarksKnown'
  BY <1>1, <1>2 DEF MarksKnown, NoResidue
<1>7. DomainsKnown'
  BY <1>1, <1>2, <1>4 DEF DomainsKnown, Level
<1>8. QED
  BY <1>1, <1>3, <1>4, <1>5, <1>6, <1>7

\* Trying an operation changes what is marked, and nothing else.
LEMMA MarkingKeeps ==
  ASSUME Typed, MarksKnown, DomainsKnown, open, NEW op \in Ops, NEW m, Fits(Now, m),
         ~disturbed => m = Marked(Now, Kept(autoinst), op), marks' = m, memo' = op,
         UNCHANGED <<open, autoinst, cur, disk, domains, history>>
  PROVE  /\ Typed' /\ MarksKnown' /\ DomainsKnown' /\ open' = open
         /\ \A o : Questions(o)' = Questions(o)
         /\ Excused \subseteq Excused' /\ disturbed' = disturbed
<1>1. /\ UNCHANGED <<have, bad, autoFile, domFile, open, autoinst, cur, domains>>
      /\ UNCHANGED <<lost, unasked, renumbered, disturbed, agreed>>
  BY DEF disk, history
<1>2. Now' = Now /\ MarksKnown' /\ Recorded' = Recorded
  BY <1>1, RecordedKeeps, SameDomains
<1>3. \A o : Questions(o)' = Questions(o)
  BY <1>1, <1>2, QuestionsStay
<1>4. Excused' = Excused
  BY <1>1 DEF Excused
<1>5. Typed'
  BY <1>1, <1>2 DEF Typed
<1>6. DomainsKnown'
  BY <1>1, <1>2, <1>4 DEF DomainsKnown, Level
<1>7. QED
  BY <1>1, <1>2, <1>3, <1>4, <1>5, <1>6

LEMMA TryKeeps ==
  ASSUME Typed, MarksKnown, DomainsKnown, NEW op \in Ops, Try(op), UNCHANGED <<disk, domains, history>>
  PROVE  /\ Typed' /\ MarksKnown' /\ DomainsKnown' /\ open /\ open' = open
         /\ \A o : Questions(o)' = Questions(o)
         /\ Excused \subseteq Excused' /\ disturbed' = disturbed
<1>1. /\ Fits(Now, Tried(op)) /\ (~disturbed => Tried(op) = Marked(Now, Kept(autoinst), op))
  BY TriedFits DEF Tried
<1>2. open /\ marks' = Tried(op) /\ memo' = op /\ UNCHANGED <<open, autoinst, cur>>
  BY DEF Try
<1>3. QED
  BY <1>1, <1>2, MarkingKeeps

-----------------------------------------------------------------------------
(* What the frontend asks *)

LEMMA BackgroundStep ==
  ASSUME CacheIInv, NEW p \in Packages, Background(p)
  PROVE  CacheIInv'
<1>1. /\ p \in UserPackages /\ requests' = requests \o Ask("info", ToInstall(p))
      /\ UNCHANGED <<disk, cache, domains, flow, history>>
  BY DEF Background, Shown
<1>2. Typed /\ MarksKnown /\ QueueKnown /\ DomainsKnown /\ AllAsked
  BY DEF CacheIInv
<1>3. UNCHANGED <<lost, unasked, renumbered, disturbed, agreed>> /\ agreed \subseteq Packages
  BY <1>1, <1>2 DEF history, Typed
<1>4. /\ Typed' /\ MarksKnown' /\ DomainsKnown' /\ open' = open /\ Excused \subseteq Excused' /\ disturbed' = disturbed
      /\ \A op : Questions(op)' = Questions(op)
  BY <1>1, <1>2, <1>3, CacheStays
<1>5. [cmd |-> "info", op |-> ToInstall(p)] \in Requests /\ "info" \notin FlowCmds
  BY <1>1, RequestIs DEF FlowCmds
<1>6. /\ requests' \in Seq(Requests) /\ Single(requests') /\ (Quiet(requests) => Quiet(requests'))
      /\ Range(requests') \subseteq Range(requests) \cup {[cmd |-> "info", op |-> ToInstall(p)]}
  BY <1>1, <1>2, <1>5, Enqueued
<1>7. \A r \in Range(requests') : r.cmd # "info" => r \in Range(requests)
  BY <1>6
<1>8. QueueKnown'
  BY <1>1, <1>2, <1>6, <1>7 DEF QueueKnown
<1>9. AllAsked'
  BY <1>1, <1>2, <1>4, <1>7, <1>8, AskedStays DEF Wants
<1>10. QED
  BY <1>4, <1>8, <1>9 DEF CacheIInv

LEMMA LookAtDetailsStep ==
  ASSUME CacheIInv, NEW p \in Packages \cup {Sys}, LookAtDetails(ToInstall(p))
  PROVE  CacheIInv'
<1>1. /\ flow.step = "confirm" /\ flow.package = p /\ requests' = requests \o Ask("details", ToInstall(p))
      /\ UNCHANGED <<disk, cache, domains, flow, history>>
  BY DEF LookAtDetails, ToInstall
<1>2. Typed /\ MarksKnown /\ QueueKnown /\ DomainsKnown /\ AllAsked
  BY DEF CacheIInv
<1>3. UNCHANGED <<lost, unasked, renumbered, disturbed, agreed>> /\ agreed \subseteq Packages
  BY <1>1, <1>2 DEF history, Typed
<1>4. /\ Typed' /\ MarksKnown' /\ DomainsKnown' /\ open' = open /\ Excused \subseteq Excused' /\ disturbed' = disturbed
      /\ \A op : Questions(op)' = Questions(op)
  BY <1>1, <1>2, <1>3, CacheStays
<1>5. p \in UserPackages \cup {Sys}
  BY <1>1, <1>2 DEF QueueKnown, Flows
<1>6. [cmd |-> "details", op |-> ToInstall(p)] \in Requests /\ "details" \notin FlowCmds
  BY <1>5, RequestIs DEF FlowCmds
<1>7. /\ requests' \in Seq(Requests) /\ Single(requests') /\ (Quiet(requests) => Quiet(requests'))
      /\ Range(requests') \subseteq Range(requests) \cup {[cmd |-> "details", op |-> ToInstall(p)]}
  BY <1>1, <1>2, <1>6, Enqueued
<1>8. \A r \in Range(requests') : r.cmd # "details" => r \in Range(requests)
  BY <1>7
<1>9. QueueKnown'
  BY <1>1, <1>2, <1>7, <1>8 DEF QueueKnown
<1>10. AllAsked'
  BY <1>1, <1>2, <1>4, <1>8, <1>9, AskedStays DEF Wants
<1>11. QED
  BY <1>4, <1>9, <1>10 DEF CacheIInv

\* A flow starts with a request, and with nothing checked.
LEMMA StartStep ==
  ASSUME CacheIInv, NEW p \in UserPackages \cup {Sys}, flow = Idle, flow' = Busy(p),
         NEW cmd \in {"check", "rmcheck"}, NEW op, [cmd |-> cmd, op |-> op] \in Requests,
         cmd = "check" => op = ToInstall(p),
         requests' = requests \o Ask(cmd, op), UNCHANGED <<disk, cache, domains, history>>
  PROVE  CacheIInv'
<1>1. Typed /\ MarksKnown /\ QueueKnown /\ DomainsKnown
  BY DEF CacheIInv
<1>2. UNCHANGED <<lost, unasked, renumbered, disturbed, agreed>> /\ agreed \subseteq Packages
  BY <1>1 DEF history, Typed
<1>3. Typed' /\ MarksKnown' /\ DomainsKnown'
  BY <1>1, <1>2, CacheStays
<1>4. /\ Busy(p) \in Flows /\ Busy(p).package = p /\ ~Busy(p).checked
      /\ p # "" /\ flow.step # "busy"
  BY DepCacheAssumption DEF Idle, Busy, Sys, Flows
<1>5. Quiet(requests)
  BY <1>1, <1>4 DEF QueueKnown
<1>6. /\ requests' \in Seq(Requests) /\ Single(requests')
      /\ Range(requests') \subseteq Range(requests) \cup {[cmd |-> cmd, op |-> op]}
  BY <1>1, <1>5, Enqueued
<1>7. \A r \in Range(requests') : r.cmd = "check" => r.op = ToInstall(p)
  <2>1. \A r \in Range(requests) : r.cmd # "check"
    BY <1>5 DEF Quiet, Range, FlowCmds
  <2>2. QED
    BY <1>6, <2>1
<1>8. QueueKnown'
  <2>1. \A r \in Range(requests') : r.cmd = "check" => r.op = ToInstall(Busy(p).package) /\ ~Busy(p).checked
    BY <1>4, <1>7
  <2>2. Busy(p).step = "busy"
    BY DEF Busy, Idle
  <2>3. QED
    BY <1>4, <1>6, <2>1, <2>2 DEF QueueKnown
<1>9. AllAsked'
  BY <1>4, NothingToAsk
<1>10. QED
  BY <1>3, <1>8, <1>9 DEF CacheIInv

LEMMA StartInstallStep ==
  ASSUME CacheIInv, NEW p \in Packages \cup {Sys}, StartInstall(p)
  PROVE  CacheIInv'
<1>1. p \in UserPackages \cup {Sys}
  BY DEF StartInstall, Shown
<1>2. [cmd |-> "check", op |-> ToInstall(p)] \in Requests
  BY <1>1, RequestIs DEF Sets
<1>3. QED
  BY <1>1, <1>2, StartStep DEF StartInstall

LEMMA StartUninstallStep ==
  ASSUME CacheIInv, NEW p \in Packages, StartUninstall(p)
  PROVE  CacheIInv'
<1>1. p \in UserPackages
  BY DEF StartUninstall
<1>2. [cmd |-> "rmcheck", op |-> ToRemove(p)] \in Requests
  BY <1>1, RequestIs
<1>3. QED
  BY <1>1, <1>2, StartStep DEF StartUninstall

\* What the user has been asked about is what the installation will do.
LEMMA ConfirmStep ==
  ASSUME CacheIInv, NEW yes \in BOOLEAN, Confirm(yes)
  PROVE  CacheIInv'
<1>1. /\ flow.step = "confirm"
      /\ UNCHANGED <<disk, cache, domains, lost, unasked, renumbered, disturbed>>
  BY DEF Confirm
<1>2. Typed /\ MarksKnown /\ QueueKnown /\ DomainsKnown /\ AllAsked
  BY DEF CacheIInv
<1>3. /\ requests \in Seq(Requests) /\ Quiet(requests) /\ Single(requests)
      /\ flow \in Flows /\ flow.package \in UserPackages \cup {Sys} /\ flow.package # ""
      /\ flow.from \subseteq Packages
      /\ \A r \in Range(requests) : r.cmd \notin FlowCmds
  BY <1>1, <1>2 DEF QueueKnown, Flows, Quiet, Range
<1>4. CASE yes
  <2>1. /\ agreed' = agreed \cup flow.from /\ flow' = [flow EXCEPT !.step = "busy", !.from = {}]
        /\ requests' = requests \o Ask("flowinfo", ToInstall(flow.package))
    BY <1>4 DEF Confirm
  <2>2. /\ Typed' /\ MarksKnown' /\ DomainsKnown' /\ open' = open /\ Excused \subseteq Excused' /\ disturbed' = disturbed
        /\ \A op : Questions(op)' = Questions(op)
    BY <1>1, <1>2, <1>3, <2>1, CacheStays DEF Typed
  <2>3. [cmd |-> "flowinfo", op |-> ToInstall(flow.package)] \in Requests
    BY <1>3, RequestIs
  <2>4. /\ requests' \in Seq(Requests) /\ Single(requests')
        /\ Range(requests') \subseteq Range(requests) \cup {[cmd |-> "flowinfo", op |-> ToInstall(flow.package)]}
    BY <1>2, <1>3, <2>1, <2>3, Enqueued
  <2>5. \A r \in Range(requests') : r.cmd \in FlowCmds => r = [cmd |-> "flowinfo", op |-> ToInstall(flow.package)]
    BY <1>3, <2>4
  <2>6. /\ flow' \in Flows /\ flow'.step = "busy" /\ flow'.package = flow.package /\ flow'.checked = flow.checked
    BY <1>3, <2>1 DEF Flows
  <2>7. QueueKnown'
    <3>1. \A r \in Range(requests') : r.cmd # "check"
      BY <2>5 DEF FlowCmds
    <3>2. QED
      BY <1>3, <2>4, <2>6, <3>1 DEF QueueKnown
  <2>8. AllAsked'
    <3>1. PICK op \in Ops : op = ToInstall(flow.package)
      BY <1>3, RequestIs
    <3>2. ~disturbed /\ flow.checked => open /\ Questions(op) \subseteq flow.from \cup Excused
      BY <1>1, <1>2, <3>1 DEF AllAsked
    <3>3. flow.from \cup Excused \subseteq Excused'
      BY <2>1, <2>2 DEF Excused
    <3>4. ~disturbed' /\ flow'.checked => open' /\ Questions(op)' \subseteq Excused'
      BY <2>2, <2>6, <3>2, <3>3
    <3>5. \A r \in Range(requests') : r.cmd \in Wants => r.op = op
      BY <2>5, <3>1 DEF Wants, FlowCmds
    <3>6. QED
      BY <2>6, <3>4, <3>5 DEF AllAsked
  <2>9. QED
    BY <2>2, <2>7, <2>8 DEF CacheIInv
<1>5. CASE ~yes
  <2>1. flow' = Idle /\ agreed' = agreed /\ requests' = requests
    BY <1>5 DEF Confirm
  <2>2. Typed' /\ MarksKnown' /\ DomainsKnown'
    BY <1>1, <1>2, <2>1, CacheStays DEF Typed
  <2>3. /\ Idle \in Flows /\ Idle.step = "idle" /\ ~Idle.checked /\ "check" \in FlowCmds
    BY DEF Idle, Flows, FlowCmds
  <2>4. QueueKnown'
    BY <1>3, <2>1, <2>3 DEF QueueKnown
  <2>5. AllAsked'
    BY <2>1, <2>3, NothingToAsk
  <2>6. QED
    BY <2>2, <2>4, <2>5 DEF CacheIInv
<1>6. QED
  BY <1>4, <1>5

-----------------------------------------------------------------------------
(* What the backend does *)

\* The step is not the flow's, and changes at most what is marked.
LEMMA AsideStep ==
  ASSUME CacheIInv, requests # << >>, Head(requests).cmd \notin FlowCmds,
         NEW more \in Seq(Requests), Quiet(more), Answer(more), flow' = flow,
         Typed', MarksKnown', DomainsKnown', ~disturbed' => ~disturbed,
         open => /\ open' /\ Excused \subseteq Excused'
                 /\ \A o \in Ops : Questions(o)' \subseteq Questions(o) \cup Excused'
  PROVE  CacheIInv'
<1>1. QueueKnown /\ AllAsked
  BY DEF CacheIInv
<1>2. QueueKnown' /\ \A r \in Range(requests') : r.cmd \in FlowCmds => r \in Range(requests)
  BY <1>1, FlowStays
<1>3. Wants \subseteq FlowCmds
  BY DEF Wants, FlowCmds
<1>4. AllAsked'
  BY <1>1, <1>2, <1>3, AskedStays
<1>5. QED
  BY <1>2, <1>4 DEF CacheIInv

\* The flow has had its answer and is at its end.
LEMMA EndStep ==
  ASSUME CacheIInv, requests # << >>, Head(requests).cmd \in FlowCmds,
         NEW more \in Seq(Requests), Quiet(more), Answer(more), flow' = Idle,
         Typed', MarksKnown', DomainsKnown'
  PROVE  CacheIInv'
<1>1. Idle \in Flows /\ Idle.step = "idle" /\ ~Idle.checked
  BY DEF Idle, Flows
<1>2. QueueKnown'
  BY <1>1, FlowSettles DEF CacheIInv
<1>3. AllAsked'
  BY <1>1, NothingToAsk
<1>4. QED
  BY <1>2, <1>3 DEF CacheIInv

\* It goes on with something that is not an installation.
LEMMA GoOnStep ==
  ASSUME CacheIInv, requests # << >>, Head(requests).cmd \in FlowCmds,
         NEW more \in Seq(Requests), Single(more), Answer(more), flow' = flow,
         \A r \in Range(more) : r.cmd # "check" /\ ~(r.cmd \in Wants /\ r.op.install),
         Typed', MarksKnown', DomainsKnown'
  PROVE  CacheIInv'
<1>1. QueueKnown' /\ flow.step = "busy" /\ \A r \in Range(requests') : r.cmd \in FlowCmds => r \in Range(more)
  BY FlowGoesOn DEF CacheIInv
<1>2. AllAsked'
  BY <1>1, NothingToAsk
<1>3. QED
  BY <1>1, <1>2 DEF CacheIInv

\* The rest of a flow, once its operation has been carried out.
LEMMA AfterwardsAsked ==
  /\ \A cmd \in {"list", "relist", "autoremove"} :
       /\ Ask(cmd, NoOp) \in Seq(Requests) /\ Single(Ask(cmd, NoOp))
       /\ \A r \in Range(Ask(cmd, NoOp)) : r.cmd # "check" /\ ~(r.cmd \in Wants /\ r.op.install)
  /\ Quiet(Ask("list", NoOp))
<1>1. \A cmd \in {"list", "relist", "autoremove"} :
        /\ Ask(cmd, NoOp) \in Seq(Requests) /\ Single(Ask(cmd, NoOp))
        /\ Range(Ask(cmd, NoOp)) = {[cmd |-> cmd, op |-> NoOp]}
        /\ cmd \notin FlowCmds => Quiet(Ask(cmd, NoOp))
  BY RequestIs, Asked
<1>2. \A cmd \in {"list", "relist", "autoremove"} : cmd # "check" /\ cmd \notin Wants
  BY DEF Wants
<1>3. "list" \notin FlowCmds
  BY DEF FlowCmds
<1>4. QED
  BY <1>1, <1>2, <1>3

\* Other domains are configured: what stands for another one is excused.
LEMMA RereadDomainsStep ==
  ASSUME CacheIInv, RereadDomains
  PROVE  CacheIInv'
<1> DEFINE Name(i) == IF i \in DOMAIN domains THEN domains[i] ELSE ""
           New(i) == IF i \in DOMAIN domains' THEN domains'[i] ELSE ""
           again == {p \in Packages : \/ cur[p] \notin DOMAIN domains'
                                      \/ <<New(cur[p]), New(Recorded'[p])>> # <<Name(cur[p]), Name(Recorded[p])>>}
<1>1. /\ UNCHANGED <<disk, cache, requests, lost, unasked, disturbed, agreed>>
      /\ domains' \in Configs /\ flow' = [flow EXCEPT !.checked = FALSE]
  BY DEF RereadDomains
<1>2. renumbered' = renumbered \cup again
  BY <1>1 DEF RereadDomains, cache
<1>3. Typed /\ MarksKnown /\ QueueKnown /\ DomainsKnown
  BY DEF CacheIInv
<1>4. UNCHANGED <<have, bad, autoFile, domFile, open, marks, autoinst, cur, memo>>
  BY <1>1 DEF disk, cache
<1>5. Now' = Now
  BY <1>4 DEF Now
<1>6. Typed'
  BY <1>1, <1>2, <1>3, <1>4, <1>5 DEF Typed
<1>7. MarksKnown'
  BY <1>1, <1>3, <1>4, <1>5 DEF MarksKnown, NoResidue
<1>8. flow' \in Flows /\ ~flow'.checked /\ flow'.step = flow.step /\ flow'.package = flow.package
  BY <1>1, <1>3 DEF QueueKnown, Flows
<1>9. QueueKnown'
  BY <1>1, <1>3, <1>8 DEF QueueKnown
<1>10. DomainsKnown'
  <2>1. SUFFICES ASSUME ~disturbed, NEW p \in Packages, p \notin Excused', have[p] # 0, Recorded'[p] # Invalid
                 PROVE  cur[p] \in DOMAIN domains' /\ Level(cur[p])' >= Level(Recorded[p])'
    BY <1>1, <1>4 DEF DomainsKnown
  <2>2. p \notin Excused /\ p \notin again
    BY <1>1, <1>2, <2>1 DEF Excused
  <2>3. cur[p] \in DOMAIN domains' /\ New(cur[p]) = Name(cur[p]) /\ New(Recorded'[p]) = Name(Recorded[p])
    BY <2>2
  <2>4. Recorded'[p] \in DOMAIN domains'
    BY <1>1, <2>1, RecordedNext
  <2>5. domains'[cur[p]] \in Domains /\ domains'[Recorded'[p]] \in Domains /\ "" \notin Domains
    <3>1. domains' \in Seq(Domains)
      BY <1>1, PackageCacheAssumption
    <3>2. \A i \in DOMAIN domains' : domains'[i] \in Domains
      BY <3>1
    <3>3. cur[p] \in DOMAIN domains'
      BY <2>3
    <3>4. QED
      BY <2>4, <3>2, <3>3, PackageCacheAssumption
  <2>6. /\ cur[p] \in DOMAIN domains /\ domains'[cur[p]] = domains[cur[p]]
        /\ Recorded[p] \in DOMAIN domains /\ domains'[Recorded'[p]] = domains[Recorded[p]]
    BY <2>3, <2>4, <2>5
  <2>7. Recorded[p] # Invalid
    BY <1>3, <2>6, ConfigIs DEF Typed
  <2>8. Level(cur[p]) >= Level(Recorded[p])
    BY <1>3, <2>1, <2>2, <2>7 DEF DomainsKnown
  <2>9. Level(cur[p])' = Level(cur[p]) /\ Level(Recorded[p])' = Level(Recorded[p])
    BY <1>4, <2>6 DEF Level
  <2>10. QED
    BY <2>3, <2>8, <2>9
<1>11. AllAsked'
  BY <1>8, NothingToAsk
<1>12. QED
  BY <1>6, <1>7, <1>9, <1>10, <1>11 DEF CacheIInv

LEMMA EnsureCacheStep ==
  ASSUME CacheIInv, EnsureCache
  PROVE  CacheIInv'
<1>1. ~open /\ NewCache(autoFile, domFile, have, TRUE)
      /\ UNCHANGED <<have, bad, autoFile, domains, requests, flow, lost, unasked, agreed>>
  BY DEF EnsureCache
<1>2. Typed /\ MarksKnown /\ QueueKnown /\ AllAsked /\ ~disturbed
  BY <1>1 DEF CacheIInv, MarksKnown
<1>3. Typed' /\ MarksKnown' /\ DomainsKnown'
  BY <1>1, <1>2, ReopenedKeeps
<1>4. QueueKnown'
  BY <1>1, <1>2 DEF QueueKnown
<1>5. AllAsked'
  BY <1>1, <1>2, <1>4, AskedStays
<1>6. QED
  BY <1>3, <1>4, <1>5 DEF CacheIInv

LEMMA RefusedStep ==
  ASSUME CacheIInv, Refused
  PROVE  CacheIInv'
<1> DEFINE cmd == Head(requests).cmd
           next == CASE cmd = "rmcheck" -> Ask("flowinfo", Op)
                     [] cmd = "relist"  -> Ask("autoremove", NoOp)
                     [] cmd = "remove"  -> Ask("list", NoOp)
                     [] cmd = "install" -> Ask(IF Op.package \in Rebooting THEN "relist" ELSE "list", NoOp)
                     [] OTHER           -> << >>
<1>1. /\ ~open /\ requests # << >> /\ cmd \notin {"autoremove", "details"} /\ Answer(next)
      /\ \E opened \in BOOLEAN : NewCache(autoFile, domFile, have, opened)
      /\ flow' = CASE cmd = "check" -> [flow EXCEPT !.step = "confirm"]
                   [] cmd \in {"flowinfo", "download", "remove"} -> Idle
                   [] cmd = "install" /\ Op.package \notin Rebooting -> Idle
                   [] OTHER -> flow
      /\ UNCHANGED <<have, bad, autoFile, domains, lost, unasked, agreed>>
  BY DEF Refused
<1>2. QueueKnown /\ AllAsked
  BY DEF CacheIInv
<1>3. /\ Head(requests) \in Range(requests) /\ Head(requests) \in Requests
      /\ cmd \in TriedCmds => Op \in Ops
      /\ cmd = "rmcheck" => ~Op.install
      /\ cmd = "check" => ~flow.checked
  BY <1>1, <1>2, HeadIs, InQueue DEF QueueKnown
<1>4. Typed' /\ MarksKnown' /\ DomainsKnown' /\ ~disturbed
  BY <1>1, ReopenedKeeps DEF CacheIInv, MarksKnown
<1> HIDE DEF cmd
<1>5. CASE cmd = "check"
  <2>1. next = << >> /\ flow' = [flow EXCEPT !.step = "confirm"]
    BY <1>1, <1>5
  <2>2. flow.step = "busy" /\ cmd \in FlowCmds
    BY <1>1, <1>2, <1>5, Answered, NothingAsked, <2>1 DEF FlowCmds, cmd
  <2>3. flow \in Flows /\ flow.package # ""
    BY <1>2, <2>2 DEF QueueKnown
  <2>4. /\ flow' \in Flows /\ flow'.package # "" /\ ~flow'.checked
    BY <1>3, <1>5, <2>1, <2>3 DEF Flows
  <2>5. QueueKnown'
    BY <1>1, <1>2, <2>1, <2>2, <2>4, FlowSettles, NothingAsked DEF cmd
  <2>6. AllAsked'
    BY <2>4, NothingToAsk
  <2>7. QED
    BY <1>4, <2>5, <2>6 DEF CacheIInv
<1>6. CASE cmd = "rmcheck"
  <2>1. /\ next = Ask("flowinfo", Op) /\ flow' = flow /\ cmd \in FlowCmds /\ Op \in Ops
    BY <1>1, <1>3, <1>6 DEF FlowCmds, TriedCmds
  <2>2. [cmd |-> "flowinfo", op |-> Op] \in Requests
    BY <2>1, RequestIs
  <2>3. /\ Ask("flowinfo", Op) \in Seq(Requests) /\ Single(Ask("flowinfo", Op))
        /\ Range(Ask("flowinfo", Op)) = {[cmd |-> "flowinfo", op |-> Op]}
    BY <2>2, Asked
  <2>4. \A r \in Range(Ask("flowinfo", Op)) : r.cmd # "check" /\ ~(r.cmd \in Wants /\ r.op.install)
    BY <1>3, <1>6, <2>3
  <2>5. QED
    BY <1>1, <1>4, <2>1, <2>3, <2>4, GoOnStep DEF cmd
<1>7. CASE cmd = "relist" \/ (cmd = "install" /\ Op.package \in Rebooting)
  <2>1. /\ \E c \in {"relist", "autoremove"} : next = Ask(c, NoOp)
        /\ flow' = flow /\ cmd \in FlowCmds
    BY <1>1, <1>7 DEF FlowCmds
  <2>2. QED
    BY <1>1, <1>4, <2>1, AfterwardsAsked, GoOnStep DEF cmd
<1>8. CASE cmd \in {"remove", "flowinfo", "download"} \/ (cmd = "install" /\ Op.package \notin Rebooting)
  <2>1. /\ next = Ask("list", NoOp) \/ next = << >>
        /\ flow' = Idle /\ cmd \in FlowCmds
    BY <1>1, <1>8 DEF FlowCmds
  <2>2. QED
    BY <1>1, <1>4, <2>1, AfterwardsAsked, NothingAsked, EndStep DEF cmd
<1>9. CASE cmd \in {"info", "list"}
  <2>1. next = << >> /\ flow' = flow /\ cmd \notin FlowCmds
    BY <1>1, <1>9 DEF FlowCmds
  <2>2. QED
    BY <1>1, <1>4, <2>1, NothingAsked, AsideStep DEF cmd
<1>10. cmd \in FlowCmds \cup {"info", "details", "list"}
  BY <1>3 DEF Requests, cmd
<1>11. QED
  BY <1>1, <1>5, <1>6, <1>7, <1>8, <1>9, <1>10 DEF FlowCmds

LEMMA SimulateStep ==
  ASSUME CacheIInv, Simulate
  PROVE  CacheIInv'
<1>1. /\ requests # << >> /\ Head(requests).cmd \in {"info", "details"}
      /\ Try(Op) /\ Answer(<< >>) /\ UNCHANGED <<disk, domains, flow, history>>
  BY DEF Simulate, Is
<1>2. Op \in Ops /\ Head(requests).cmd \notin FlowCmds
  BY <1>1, HeadIs DEF CacheIInv, TriedCmds, FlowCmds
<1>3. /\ Typed' /\ MarksKnown' /\ DomainsKnown' /\ open' = open /\ Excused \subseteq Excused' /\ disturbed' = disturbed
      /\ \A o : Questions(o)' = Questions(o)
  BY <1>1, <1>2, TryKeeps DEF CacheIInv
<1>4. QED
  BY <1>1, <1>2, <1>3, NothingAsked, AsideStep

LEMMA NoDetailsStep ==
  ASSUME CacheIInv, NoDetails
  PROVE  CacheIInv'
<1>1. /\ requests # << >> /\ Head(requests).cmd = "details" /\ Answer(<< >>)
      /\ UNCHANGED <<disk, cache, domains, flow, history>>
  BY DEF NoDetails, Is
<1>2. UNCHANGED <<lost, unasked, renumbered, disturbed, agreed>> /\ agreed \subseteq Packages
  BY <1>1 DEF history, CacheIInv, Typed
<1>3. /\ Typed' /\ MarksKnown' /\ DomainsKnown' /\ open' = open /\ Excused \subseteq Excused' /\ disturbed' = disturbed
      /\ \A o : Questions(o)' = Questions(o)
  BY <1>1, <1>2, CacheStays DEF CacheIInv
<1>4. "details" \notin FlowCmds
  BY DEF FlowCmds
<1>5. QED
  BY <1>1, <1>3, <1>4, NothingAsked, AsideStep

LEMMA RemoveCheckStep ==
  ASSUME CacheIInv, NEW allowed \in BOOLEAN, RemoveCheck(allowed)
  PROVE  CacheIInv'
<1>1. /\ requests # << >> /\ Head(requests).cmd = "rmcheck" /\ Try(Op)
      /\ Answer(IF allowed THEN Ask("flowinfo", Op) ELSE << >>)
      /\ flow' = IF allowed THEN flow ELSE Idle
      /\ UNCHANGED <<disk, domains, history>>
  BY DEF RemoveCheck, Is
<1>2. Op \in Ops /\ ~Op.install /\ "rmcheck" \in FlowCmds
  BY <1>1, HeadIs DEF CacheIInv, TriedCmds, FlowCmds
<1>3. Typed' /\ MarksKnown' /\ DomainsKnown'
  BY <1>1, <1>2, TryKeeps DEF CacheIInv
<1>4. CASE allowed
  <2>1. [cmd |-> "flowinfo", op |-> Op] \in Requests
    BY <1>2, RequestIs
  <2>2. /\ Ask("flowinfo", Op) \in Seq(Requests) /\ Single(Ask("flowinfo", Op))
        /\ Range(Ask("flowinfo", Op)) = {[cmd |-> "flowinfo", op |-> Op]}
    BY <2>1, Asked
  <2>3. \A r \in Range(Ask("flowinfo", Op)) : r.cmd # "check" /\ ~(r.cmd \in Wants /\ r.op.install)
    BY <1>2, <2>2
  <2>4. QED
    BY <1>1, <1>2, <1>3, <1>4, <2>2, <2>3, GoOnStep
<1>5. CASE ~allowed
  BY <1>1, <1>2, <1>3, <1>5, NothingAsked, EndStep
<1>6. QED
  BY <1>4, <1>5

LEMMA FlowInfoStep ==
  ASSUME CacheIInv, FlowInfo
  PROVE  CacheIInv'
<1> DEFINE installed == CacheState(marks, memo, ToInstall(Op.package))
           m == IF Op.install THEN installed ELSE CacheState(installed, ToInstall(Op.package), Op)
           more == Ask(IF Op.install THEN "download" ELSE "remove", Op)
<1>1. /\ requests # << >> /\ Head(requests).cmd = "flowinfo" /\ open
      /\ marks' = m /\ memo' = Op /\ UNCHANGED <<open, autoinst, cur>>
      /\ (Answer(<< >>) /\ flow' = Idle) \/ (Answer(more) /\ flow' = flow)
      /\ UNCHANGED <<disk, domains, history>>
  BY DEF FlowInfo, Is
<1>2. /\ Op \in Ops /\ "flowinfo" \in FlowCmds /\ Head(requests) \in Range(requests)
      /\ Head(requests) = [cmd |-> "flowinfo", op |-> Op]
  BY <1>1, HeadIs DEF CacheIInv, TriedCmds, FlowCmds
<1>3. Typed /\ MarksKnown /\ DomainsKnown /\ QueueKnown /\ AllAsked
  BY DEF CacheIInv
<1>4. Fits(Now, m) /\ (~disturbed => m = Marked(Now, Kept(autoinst), Op))
  <2>1. CASE Op.install
    <3>1. m = CacheState(marks, memo, Op)
      BY <1>2, <2>1, OpIs
    <3>2. QED
      BY <1>2, <1>3, <3>1, TriedFits
  <2>2. CASE ~Op.install
    <3>1. /\ ToInstall(Op.package) # NoOp /\ ToInstall(Op.package) # Op
      BY <1>2, <2>2, OpIs DEF ToInstall
    <3>2. m = Marked(Now, Kept(autoinst), Op)
      BY <2>2, <3>1 DEF CacheState
    <3>3. Now \in Statuses /\ Now.auto = autoinst
      BY <1>3 DEF Typed, Now
    <3>4. Fits(Now, m)
      BY <1>2, <3>2, <3>3, StatusIs, KeptFits, MarkedFits
    <3>5. QED
      BY <3>2, <3>4
  <2>3. QED
    BY <2>1, <2>2
<1> HIDE DEF m
<1>5. /\ Typed' /\ MarksKnown' /\ DomainsKnown' /\ open' = open /\ Excused \subseteq Excused' /\ disturbed' = disturbed
      /\ \A o : Questions(o)' = Questions(o)
  BY <1>1, <1>2, <1>3, <1>4, MarkingKeeps
<1>6. CASE Answer(<< >>) /\ flow' = Idle
  BY <1>1, <1>2, <1>5, <1>6, NothingAsked, EndStep
<1>7. CASE Answer(more) /\ flow' = flow
  <2>1. PICK cmd \in {"download", "remove"} : more = Ask(cmd, Op) /\ [cmd |-> cmd, op |-> Op] \in Requests
    BY <1>2, RequestIs DEF Sets
  <2>2. /\ more \in Seq(Requests) /\ Single(more) /\ Range(more) = {[cmd |-> cmd, op |-> Op]}
    BY <2>1, Asked
  <2>3. QueueKnown' /\ \A r \in Range(requests') : r.cmd \in FlowCmds => r \in Range(more)
    BY <1>1, <1>2, <1>3, <1>7, <2>1, <2>2, FlowGoesOn
  <2>4. \A r \in Range(requests') : r.cmd \in Wants => r.op = Op
    BY <2>2, <2>3 DEF Wants, FlowCmds
  <2>5. AllAsked'
    BY <1>2, <1>3, <1>5, <1>7, <2>3, <2>4, AskedStays DEF Wants
  <2>6. QED
    BY <1>5, <2>3, <2>5 DEF CacheIInv
<1>8. QED
  BY <1>1, <1>6, <1>7

\* A check that succeeds has asked all there is to ask.
LEMMA InstallCheckStep ==
  ASSUME CacheIInv, NEW fails \in BOOLEAN, InstallCheck(fails)
  PROVE  CacheIInv'
<1> PICK beyond \in Beyond :
      flow' = [flow EXCEPT !.step = "confirm", !.checked = ~fails,
                !.from = IF fails \/ Nothing(Tried(Op)) THEN {} ELSE Violations(Tried(Op), beyond)]
  BY DEF InstallCheck
<1> DEFINE from == IF fails \/ Nothing(Tried(Op)) THEN {} ELSE Violations(Tried(Op), beyond)
<1>1. /\ requests # << >> /\ Head(requests).cmd = "check" /\ Try(Op) /\ Answer(<< >>)
      /\ flow' = [flow EXCEPT !.step = "confirm", !.checked = ~fails, !.from = from]
      /\ UNCHANGED <<disk, domains, history>>
  BY DEF InstallCheck, Is
<1>2. Op \in Ops /\ Op = ToInstall(flow.package) /\ "check" \in FlowCmds
  BY <1>1, HeadIs DEF CacheIInv, TriedCmds, FlowCmds
<1>3. Typed /\ MarksKnown /\ DomainsKnown /\ QueueKnown
  BY DEF CacheIInv
<1>4. /\ Typed' /\ MarksKnown' /\ DomainsKnown' /\ open' /\ Excused \subseteq Excused' /\ disturbed' = disturbed
      /\ \A o : Questions(o)' = Questions(o)
  BY <1>1, <1>2, <1>3, TryKeeps
<1>5. /\ flow \in Flows /\ flow.package # ""
  BY <1>1, <1>2, <1>3, Answered, NothingAsked DEF QueueKnown
<1>6. Violations(Tried(Op), beyond) \subseteq Packages
  BY DEF Violations, Installed
<1>7. from \subseteq Packages
  BY <1>6
<1> HIDE DEF from
<1>8. /\ flow' \in Flows /\ flow'.package = flow.package /\ flow'.from = from /\ flow'.checked = ~fails
      /\ flow'.step = "confirm"
  BY <1>1, <1>5, <1>7 DEF Flows
<1>9. QueueKnown' /\ Quiet(requests')
  BY <1>1, <1>2, <1>3, <1>5, <1>8, FlowSettles, NothingAsked
<1>10. ASSUME ~fails, ~disturbed PROVE Questions(Op) \subseteq from
  <2>1. Tried(Op) = Marked(Now, Kept(autoinst), Op)
    BY <1>2, <1>3, <1>10, TriedFits DEF Tried
  <2>2. Questions(Op) \subseteq Violations(Tried(Op), beyond)
    BY <1>3, <2>1, QuestionsAre
  <2>3. Nothing(Tried(Op)) => Violations(Tried(Op), beyond) = {}
    BY DEF Nothing, Violations
  <2>4. QED
    BY <1>10, <2>2, <2>3 DEF from
<1>11. AllAsked'
  <2>1. \A r \in Range(requests') : r.cmd \notin Wants
    BY <1>9 DEF Quiet, Range, Wants, FlowCmds
  <2>2. \A op \in Ops : op = ToInstall(flow'.package) /\ ~disturbed' /\ flow'.checked => Questions(op)' \subseteq flow'.from
    <3>1. SUFFICES ASSUME NEW op \in Ops, op = Op, ~disturbed, ~fails PROVE Questions(op)' \subseteq from
      BY <1>2, <1>4, <1>8
    <3>2. Questions(op) \subseteq from
      BY <1>10, <3>1
    <3>3. QED
      BY <1>4, <3>2
  <2>3. QED
    BY <1>4, <2>1, <2>2 DEF AllAsked
<1>12. QED
  BY <1>4, <1>9, <1>11 DEF CacheIInv

\* The domains of what is downloaded are on record from now on.
LEMMA CollectKeeps ==
  ASSUME CacheIInv, open, requests # << >>, Head(requests).cmd = "download",
         NEW op, op = Op, NEW m, m = Tried(op), NEW beyond \in Beyond, Collect(m, beyond),
         marks' = m, memo' = op, UNCHANGED <<open, autoinst>>,
         UNCHANGED <<disk, domains, renumbered, disturbed, agreed>>
  PROVE  /\ Typed' /\ MarksKnown' /\ DomainsKnown'
         /\ ~disturbed' => Questions(op)' = {}
<1>1. Typed /\ MarksKnown /\ DomainsKnown /\ QueueKnown /\ AllAsked
  BY DEF CacheIInv
<1>2. op \in Ops /\ op.install /\ Head(requests) \in Range(requests) /\ Head(requests).op = op
  BY <1>1, HeadIs DEF TriedCmds, Sets, Op
<1>3. Fits(Now, m) /\ (~disturbed => m = Marked(Now, Kept(autoinst), op))
  BY <1>1, <1>2, TriedFits DEF Tried
<1>4. Now' = Now /\ MarksKnown'
  BY <1>1, <1>2, <1>3, RecordedKeeps
<1>5. /\ cur' = Collected(m, beyond) /\ lost' = lost \cup (m.related \ Installed(m))
      /\ unasked' = unasked \cup IF flow.checked THEN {} ELSE Violations(m, beyond)
  BY DEF Collect
<1>6. /\ UNCHANGED <<have, bad, autoFile, domFile, open, autoinst>>
      /\ UNCHANGED <<domains, renumbered, disturbed, agreed>> /\ Recorded' = Recorded
  BY SameDomains DEF disk
<1>7. Violations(m, beyond) \subseteq Packages /\ m.related \subseteq Packages
  BY <1>3 DEF Violations, Installed, Fits, Marks
<1>8. /\ cur' \in [Packages -> Numbers]
      /\ \A p \in m.related \cap Packages : cur'[p] = NewDomain(m, p, beyond)
      /\ \A p \in Packages \ m.related : cur'[p] = cur[p]
  BY <1>1, <1>5, CollectedIs
<1>9. Typed'
  <2>1. lost' \subseteq Packages /\ unasked' \subseteq Packages
    BY <1>1, <1>5, <1>7 DEF Typed
  <2>2. QED
    BY <1>1, <1>2, <1>4, <1>6, <1>8, <2>1 DEF Typed
<1>10. Excused \subseteq Excused' /\ m.related \ Installed(m) \subseteq Excused'
  BY <1>5, <1>6 DEF Excused
<1>11. ASSUME ~disturbed, NEW p \in Violations(m, beyond), cur[p] \in DOMAIN domains PROVE p \in Excused'
  <2>1. CASE flow.checked
    <3>1. "download" \in Wants
      BY DEF Wants
    <3>2. Questions(op) \subseteq Excused
      BY <1>1, <1>2, <1>11, <2>1, <3>1 DEF AllAsked
    <3>3. p \in Questions(op)
      BY <1>1, <1>3, <1>11, QuestionsAre
    <3>4. QED
      BY <1>10, <3>2, <3>3
  <2>2. CASE ~flow.checked
    BY <1>5, <2>2 DEF Excused
  <2>3. QED
    BY <2>1, <2>2
<1>12. DomainsKnown'
  <2>1. SUFFICES ASSUME ~disturbed, NEW p \in Packages, have[p] # 0, p \notin Excused', Recorded[p] # Invalid
                 PROVE  cur'[p] \in DOMAIN domains /\ Level(cur'[p]) >= Level(Recorded[p])
    <3>1. \A i : Level(i)' = Level(i')
      BY <1>6 DEF Level
    <3>2. QED
      BY <1>6, <2>1, <3>1 DEF DomainsKnown
  <2>2. cur[p] \in DOMAIN domains /\ Level(cur[p]) >= Level(Recorded[p])
    BY <1>1, <1>10, <2>1 DEF DomainsKnown
  <2>3. CASE p \notin m.related
    BY <1>8, <2>2, <2>3
  <2>4. CASE p \in m.related
    <3>1. p \in Installed(m) /\ p \notin Violations(m, beyond)
      BY <1>10, <1>11, <2>1, <2>2, <2>4
    <3>2. cur'[p] = NewDomain(m, p, beyond) /\ NewDomain(m, p, beyond) \in DOMAIN domains
      BY <1>1, <1>8, <2>4, NewDomainIs
    <3>3. ~(Level(NewDomain(m, p, beyond)) < Level(cur[p]))
      <4>1. Read(beyond, cur[p]) = Level(cur[p])
        BY <2>2 DEF Read
      <4>2. QED
        BY <2>1, <3>1, <4>1 DEF Violations, Worse
    <3>4. Level(cur'[p]) \in Nat /\ Level(cur[p]) \in Nat /\ Level(Recorded[p]) \in Nat
      <4>1. Recorded[p] \in DOMAIN domains
        BY <1>1, <2>1, RecordedIs DEF Typed
      <4>2. QED
        BY <1>1, <2>2, <3>2, <4>1, ConfigIs DEF Typed
    <3>5. QED
      BY <2>2, <3>2, <3>3, <3>4
  <2>5. QED
    BY <2>3, <2>4
<1>13. ~disturbed' => Questions(op)' = {}
  BY <1>1, <1>2, <1>3, <1>4, <1>5, <1>6, QuestionsCollected
<1>14. QED
  BY <1>4, <1>9, <1>12, <1>13

LEMMA DownloadStep ==
  ASSUME CacheIInv, NEW fails \in BOOLEAN, Download(fails)
  PROVE  CacheIInv'
<1> PICK op : op = Op
  OBVIOUS
<1>1. /\ requests # << >> /\ Head(requests).cmd = "download" /\ open
      /\ marks' = Tried(op) /\ memo' = op /\ UNCHANGED <<open, autoinst>>
      /\ UNCHANGED <<disk, domains, renumbered, disturbed, agreed>>
      /\ IF Nothing(Tried(op)) THEN UNCHANGED <<cur, lost, unasked>>
         ELSE \E beyond \in Beyond : Collect(Tried(op), beyond)
      /\ \/ Answer(<< >>) /\ flow' = Idle
         \/ \E cmd \in {"download", "install"} : Answer(Ask(cmd, op)) /\ flow' = flow
  BY DEF Download, Is
<1>2. Typed /\ MarksKnown /\ DomainsKnown /\ QueueKnown /\ AllAsked
  BY DEF CacheIInv
<1>3. /\ op \in Ops /\ op.install /\ Head(requests) \in Range(requests) /\ Head(requests).op = op
      /\ "download" \in FlowCmds /\ "download" \in Wants
  BY <1>1, <1>2, HeadIs DEF TriedCmds, Sets, Op, FlowCmds, Wants
<1>4. Fits(Now, Tried(op)) /\ (~disturbed => Tried(op) = Marked(Now, Kept(autoinst), op))
  BY <1>2, <1>3, TriedFits DEF Tried
<1>5. /\ Typed' /\ MarksKnown' /\ DomainsKnown'
      /\ ~disturbed' /\ flow.checked => open' /\ Questions(op)' \subseteq Excused'
  <2>1. CASE Nothing(Tried(op))
    <3>1. UNCHANGED <<open, autoinst, cur, disk, domains, history>>
      BY <1>1, <2>1 DEF history
    <3>2. /\ Typed' /\ MarksKnown' /\ DomainsKnown' /\ open' = open /\ Excused \subseteq Excused' /\ disturbed' = disturbed
          /\ \A o : Questions(o)' = Questions(o)
      BY <1>1, <1>2, <1>3, <1>4, <3>1, MarkingKeeps
    <3>3. ~disturbed /\ flow.checked => Questions(op) \subseteq Excused
      BY <1>1, <1>2, <1>3 DEF AllAsked
    <3>4. QED
      BY <1>1, <3>2, <3>3
  <2>2. CASE ~Nothing(Tried(op))
    <3>1. PICK beyond \in Beyond : Collect(Tried(op), beyond)
      BY <1>1, <2>2
    <3>2. QED
      BY <1>1, <3>1, CollectKeeps
  <2>3. QED
    BY <2>1, <2>2
<1>6. CASE Answer(<< >>) /\ flow' = Idle
  BY <1>1, <1>3, <1>5, <1>6, NothingAsked, EndStep
<1>7. ASSUME NEW cmd \in {"download", "install"}, Answer(Ask(cmd, op)), flow' = flow
      PROVE  CacheIInv'
  <2>1. [cmd |-> cmd, op |-> op] \in Requests
    BY <1>3, RequestIs DEF Sets
  <2>2. /\ Ask(cmd, op) \in Seq(Requests) /\ Single(Ask(cmd, op)) /\ Range(Ask(cmd, op)) = {[cmd |-> cmd, op |-> op]}
    BY <2>1, Asked
  <2>3. QueueKnown' /\ flow.step = "busy" /\ \A r \in Range(requests') : r.cmd \in FlowCmds => r \in Range(Ask(cmd, op))
    BY <1>1, <1>2, <1>3, <1>7, <2>2, FlowGoesOn
  <2>4. \A r \in Range(requests') : r.cmd \in Wants => r.op = op
    BY <2>2, <2>3 DEF Wants, FlowCmds
  <2>5. AllAsked'
    <3>1. flow'.step # "confirm" /\ flow'.checked = flow.checked
      BY <1>7, <2>3
    <3>2. QED
      BY <1>5, <2>4, <3>1 DEF AllAsked
  <2>6. QED
    BY <1>5, <2>3, <2>5 DEF CacheIInv
<1>8. QED
  BY <1>1, <1>6, <1>7

LEMMA InstallPackageStep ==
  ASSUME CacheIInv, NEW success \in BOOLEAN, InstallPackage(success)
  PROVE  CacheIInv'
<1>1. /\ requests # << >> /\ Head(requests).cmd = "install" /\ Operate(Tried(Op), success)
      /\ UNCHANGED <<domains, unasked, agreed>>
      /\ (Answer(Ask("relist", NoOp)) /\ flow' = flow) \/ (Answer(Ask("list", NoOp)) /\ flow' = Idle)
  BY DEF InstallPackage, Is
<1>2. Op \in Ops /\ "install" \in FlowCmds
  BY <1>1, HeadIs DEF CacheIInv, TriedCmds, FlowCmds
<1>3. Fits(Now, Tried(Op))
  BY <1>2, TriedFits DEF Tried, CacheIInv
<1>4. Typed' /\ MarksKnown' /\ DomainsKnown'
  BY <1>1, <1>3, OperateKeeps DEF CacheIInv
<1>5. QED
  BY <1>1, <1>2, <1>4, AfterwardsAsked, GoOnStep, EndStep

LEMMA RemovePackageStep ==
  ASSUME CacheIInv, NEW success \in BOOLEAN, RemovePackage(success)
  PROVE  CacheIInv'
<1> DEFINE both == Ask("list", NoOp) \o Ask("autoremove", NoOp)
<1>1. /\ requests # << >> /\ Head(requests).cmd = "remove" /\ Operate(Tried(Op), success)
      /\ UNCHANGED <<domains, unasked, agreed>>
      /\ (Answer(both) /\ flow' = flow) \/ (Answer(Ask("list", NoOp)) /\ flow' = Idle)
  BY DEF RemovePackage, Is
<1>2. Op \in Ops /\ "remove" \in FlowCmds
  BY <1>1, HeadIs DEF CacheIInv, TriedCmds, FlowCmds
<1>3. Fits(Now, Tried(Op))
  BY <1>2, TriedFits DEF Tried, CacheIInv
<1>4. Typed' /\ MarksKnown' /\ DomainsKnown'
  BY <1>1, <1>3, OperateKeeps DEF CacheIInv
<1>5. /\ both \in Seq(Requests) /\ Single(both)
      /\ \A r \in Range(both) : r.cmd # "check" /\ ~(r.cmd \in Wants /\ r.op.install)
  BY AfterwardsAsked, AddedToQueue
<1> HIDE DEF both
<1>6. QED
  BY <1>1, <1>2, <1>4, <1>5, AfterwardsAsked, GoOnStep, EndStep

LEMMA GetPackageListStep ==
  ASSUME CacheIInv, GetPackageList
  PROVE  CacheIInv'
<1> DEFINE next == IF Is("relist") THEN Ask("autoremove", NoOp) ELSE << >>
<1>1. /\ requests # << >> /\ Head(requests).cmd \in {"list", "relist"}
      /\ UNCHANGED <<disk, cache, domains, flow, history>>
      /\ \/ Answer(next)
         \/ \E p \in UserPackages : Answer(Ask("info", ToInstall(p)) \o next)
  BY DEF GetPackageList, Is, Shown
<1>2. UNCHANGED <<lost, unasked, renumbered, disturbed, agreed>> /\ agreed \subseteq Packages
  BY <1>1 DEF history, CacheIInv, Typed
<1>3. /\ Typed' /\ MarksKnown' /\ DomainsKnown' /\ open' = open /\ Excused \subseteq Excused' /\ disturbed' = disturbed
      /\ \A o : Questions(o)' = Questions(o)
  BY <1>1, <1>2, CacheStays DEF CacheIInv
<1>4. \A p \in UserPackages :
        LET s == Ask("info", ToInstall(p))
        IN /\ s \in Seq(Requests) /\ Quiet(s)
           /\ \A r \in Range(s) : r.cmd # "check" /\ r.cmd \notin Wants
  <2>1. SUFFICES ASSUME NEW p \in UserPackages
                 PROVE  LET s == Ask("info", ToInstall(p))
                        IN /\ s \in Seq(Requests) /\ Quiet(s)
                           /\ \A r \in Range(s) : r.cmd # "check" /\ r.cmd \notin Wants
    OBVIOUS
  <2>2. [cmd |-> "info", op |-> ToInstall(p)] \in Requests /\ "info" \notin FlowCmds /\ "info" \notin Wants
    BY RequestIs DEF FlowCmds, Wants
  <2>3. QED
    BY <2>2, Asked
<1>5. CASE Head(requests).cmd = "list"
  <2>1. next = << >> /\ "list" \notin FlowCmds
    BY <1>5 DEF Is, FlowCmds
  <2>2. CASE Answer(next)
    BY <1>1, <1>3, <1>5, <2>1, <2>2, NothingAsked, AsideStep
  <2>3. ASSUME NEW p \in UserPackages, Answer(Ask("info", ToInstall(p)) \o next) PROVE CacheIInv'
    <3> DEFINE more == Ask("info", ToInstall(p)) \o << >>
    <3>1. more \in Seq(Requests) /\ Quiet(more)
      BY <1>4, NothingAsked, AddedToQueue
    <3>2. Answer(more)
      BY <2>1, <2>3
    <3> HIDE DEF more
    <3>3. QED
      BY <1>1, <1>3, <1>5, <2>1, <3>1, <3>2, AsideStep
  <2>4. QED
    BY <1>1, <2>2, <2>3
<1>6. CASE Head(requests).cmd = "relist"
  <2>1. next = Ask("autoremove", NoOp) /\ "relist" \in FlowCmds
    BY <1>1, <1>6 DEF Is, FlowCmds
  <2>2. CASE Answer(next)
    BY <1>1, <1>3, <1>6, <2>1, <2>2, AfterwardsAsked, GoOnStep
  <2>3. ASSUME NEW p \in UserPackages, Answer(Ask("info", ToInstall(p)) \o next) PROVE CacheIInv'
    <3> DEFINE more == Ask("info", ToInstall(p)) \o Ask("autoremove", NoOp)
    <3>1. /\ more \in Seq(Requests) /\ Single(more)
          /\ \A r \in Range(more) : r.cmd # "check" /\ ~(r.cmd \in Wants /\ r.op.install)
      BY <1>4, AfterwardsAsked, AddedToQueue
    <3>2. Answer(more)
      BY <2>1, <2>3
    <3> HIDE DEF more
    <3>3. QED
      BY <1>1, <1>3, <1>6, <2>1, <3>1, <3>2, GoOnStep
  <2>4. QED
    BY <1>1, <2>2, <2>3
<1>7. QED
  BY <1>1, <1>5, <1>6

LEMMA AutoremoveStep ==
  ASSUME CacheIInv, NEW success \in BOOLEAN, Autoremove(success)
  PROVE  CacheIInv'
<1> DEFINE garbage == Garbage(have, autoFile)
           m == Doomed(marks, garbage)
<1>1. /\ requests # << >> /\ Head(requests).cmd = "autoremove" /\ open /\ Answer(<< >>) /\ flow' = Idle
      /\ UNCHANGED <<domains, unasked, agreed>>
      /\ \/ marks' = m /\ disturbed' = TRUE /\ UNCHANGED <<disk, open, autoinst, cur, memo, lost, renumbered>>
         \/ Operate(m, success)
  BY DEF Autoremove, Is
<1>2. Typed /\ MarksKnown
  BY DEF CacheIInv
<1>3. Fits(Now, m)
  BY <1>2, DoomedFits DEF MarksKnown
<1> HIDE DEF m
<1>4. Typed' /\ MarksKnown' /\ DomainsKnown'
  <2>1. CASE marks' = m /\ disturbed' = TRUE /\ UNCHANGED <<disk, open, autoinst, cur, memo, lost, renumbered>>
    <3>1. UNCHANGED <<have, bad, autoFile, domFile, open, autoinst, cur, memo, lost, renumbered>>
      BY <2>1 DEF disk
    <3>2. Now' = Now
      BY <3>1 DEF Now
    <3>3. Typed'
      BY <1>1, <1>2, <2>1, <3>1, <3>2 DEF Typed
    <3>4. MarksKnown'
      BY <1>1, <1>2, <1>3, <2>1, <3>1, <3>2 DEF MarksKnown, NoResidue
    <3>5. DomainsKnown'
      BY <2>1 DEF DomainsKnown
    <3>6. QED
      BY <3>3, <3>4, <3>5
  <2>2. CASE Operate(m, success)
    BY <1>1, <1>2, <1>3, <2>2, OperateKeeps
  <2>3. QED
    BY <1>1, <2>1, <2>2
<1>5. "autoremove" \in FlowCmds
  BY DEF FlowCmds
<1>6. QED
  BY <1>1, <1>4, <1>5, NothingAsked, EndStep

LEMMA CrashStep ==
  ASSUME CacheIInv, Crash
  PROVE  CacheIInv'
<1>1. /\ requests' = << >> /\ flow' = [Idle EXCEPT !.step = "gone"]
      /\ UNCHANGED <<disk, cache, domains, history>>
  BY DEF Crash
<1>2. UNCHANGED <<lost, unasked, renumbered, disturbed, agreed>> /\ agreed \subseteq Packages
  BY <1>1 DEF history, CacheIInv, Typed
<1>3. Typed' /\ MarksKnown' /\ DomainsKnown'
  BY <1>1, <1>2, CacheStays DEF CacheIInv
<1>4. flow' \in Flows /\ flow'.step = "gone" /\ ~flow'.checked
  BY <1>1 DEF Idle, Flows
<1>5. QueueKnown'
  BY <1>1, <1>4, NothingAsked DEF QueueKnown
<1>6. AllAsked'
  BY <1>4, NothingToAsk
<1>7. QED
  BY <1>3, <1>5, <1>6 DEF CacheIInv

-----------------------------------------------------------------------------
(* The theorems *)

LEMMA CacheStarts == Init => CacheIInv
<1> SUFFICES ASSUME Init PROVE CacheIInv
  OBVIOUS
<1>1. /\ have \in Start /\ bad = {} /\ autoFile \in SUBSET Packages /\ autoinst = autoFile
      /\ domains \in Configs /\ open = TRUE /\ marks = Kept(autoFile) /\ memo = NoOp
      /\ requests = << >> /\ flow = Idle /\ lost = {} /\ unasked = {} /\ renumbered = {}
      /\ disturbed = FALSE /\ agreed = {}
  BY DEF Init
<1>2. PICK d :
        LET files == [n \in Domains |-> IF n = d THEN {p \in Packages : have[p] # 0} ELSE {}]
        IN cur = Filled(Loaded(files), have) /\ domFile = Rewritten(files, cur)
  BY DEF Init
<1> DEFINE files == [n \in Domains |-> IF n = d THEN {p \in Packages : have[p] # 0} ELSE {}]
<1>3. files \in [Domains -> SUBSET Packages]
  OBVIOUS
<1>4. cur = Filled(Loaded(files), have) /\ domFile = Rewritten(files, cur)
  BY <1>2
<1> HIDE DEF files
<1>5. Now \in Statuses
  <2>1. have = [p \in Packages |-> have[p]]
    BY <1>1, DepCacheAssumption
  <2>2. \A p \in Packages : have[p] \in Versions(p)
    BY <1>1 DEF Versions
  <2>3. [have |-> have, bad |-> {}, auto |-> autoinst] \in Statuses
    BY <1>1, <2>1, <2>2, IsStatus
  <2>4. QED
    BY <1>1, <2>3 DEF Now
<1>6. Typed /\ DomainsKnown
  <2>1. /\ domFile \in [Domains -> SUBSET Packages]
        /\ cur \in [Packages -> DOMAIN domains \cup {Invalid}]
        /\ \A p \in Packages : Loaded(domFile)[p] # Invalid => cur[p] = Loaded(domFile)[p]
    <3>1. PICK number, new : number = cur /\ new = domFile
      OBVIOUS
    <3>2. number = Filled(Loaded(files), have) /\ new \in {Rewritten(files, number), files}
      BY <1>4, <3>1
    <3>3. QED
      BY <1>1, <1>3, <3>1, <3>2, RereadIs
  <2>2. DOMAIN domains \cup {Invalid} \subseteq Numbers /\ \A i \in DOMAIN domains : Level(i) \in Nat
    BY <1>1, ConfigIs
  <2>3. Typed
    BY <1>1, <1>5, <2>1, <2>2 DEF Typed
  <2>4. ASSUME NEW p \in Packages, Recorded[p] # Invalid
        PROVE  cur[p] \in DOMAIN domains /\ Level(cur[p]) >= Level(Recorded[p])
    <3>1. cur[p] = Recorded[p]
      BY <2>1, <2>4 DEF Recorded
    <3>2. cur[p] \in DOMAIN domains
      BY <2>1, <2>4, <3>1
    <3>3. Level(cur[p]) \in Nat
      BY <2>2, <3>2
    <3>4. Level(Recorded[p]) = Level(cur[p])
      BY <3>1
    <3>5. QED
      BY <3>2, <3>3, <3>4
  <2>5. QED
    BY <2>3, <2>4 DEF DomainsKnown
<1>7. MarksKnown
  BY <1>1, KeptFits DEF MarksKnown, NoResidue
<1>8. flow \in Flows /\ ~flow.checked /\ flow.step = "idle"
  BY <1>1 DEF Idle, Flows
<1>9. QueueKnown
  BY <1>1, <1>8, NothingAsked DEF QueueKnown
<1>10. AllAsked
  BY <1>8 DEF AllAsked
<1>11. QED
  BY <1>6, <1>7, <1>9, <1>10 DEF CacheIInv

LEMMA CacheKept == CacheIInv /\ [Next]_vars => CacheIInv'
<1> SUFFICES ASSUME CacheIInv, [Next]_vars PROVE CacheIInv'
  OBVIOUS
<1>1. ASSUME NEW p \in Packages, StartUninstall(p) \/ Background(p) PROVE CacheIInv'
  BY <1>1, StartUninstallStep, BackgroundStep
<1>2. ASSUME NEW p \in Packages \cup {Sys}, StartInstall(p) \/ LookAtDetails(ToInstall(p)) PROVE CacheIInv'
  BY <1>2, StartInstallStep, LookAtDetailsStep
<1>3. ASSUME NEW yes \in BOOLEAN, Confirm(yes) \/ RemoveCheck(yes) \/ Download(yes) \/ InstallCheck(yes)
      PROVE  CacheIInv'
  BY <1>3, ConfirmStep, RemoveCheckStep, DownloadStep, InstallCheckStep
<1>4. ASSUME NEW success \in BOOLEAN, InstallPackage(success) \/ RemovePackage(success) \/ Autoremove(success)
      PROVE  CacheIInv'
  BY <1>4, InstallPackageStep, RemovePackageStep, AutoremoveStep
<1>5. CASE RereadDomains \/ EnsureCache \/ Refused \/ Simulate \/ NoDetails \/ FlowInfo \/ GetPackageList \/ Crash
  BY <1>5, RereadDomainsStep, EnsureCacheStep, RefusedStep, SimulateStep, NoDetailsStep, FlowInfoStep,
     GetPackageListStep, CrashStep
<1>6. CASE UNCHANGED vars
  <2>1. UNCHANGED <<disk, cache, domains, requests, flow, history>>
    BY <1>6 DEF vars
  <2>2. UNCHANGED <<lost, unasked, renumbered, disturbed, agreed>> /\ agreed \subseteq Packages
    BY <2>1 DEF history, CacheIInv, Typed
  <2>3. /\ Typed' /\ MarksKnown' /\ DomainsKnown' /\ open' = open /\ Excused \subseteq Excused' /\ disturbed' = disturbed
        /\ \A o : Questions(o)' = Questions(o)
    BY <2>1, <2>2, CacheStays DEF CacheIInv
  <2>4. QueueKnown'
    BY <2>1 DEF CacheIInv, QueueKnown
  <2>5. AllAsked'
    BY <2>1, <2>3, <2>4, AskedStays DEF CacheIInv
  <2>6. QED
    BY <2>3, <2>4, <2>5 DEF CacheIInv
<1>7. QED
  BY <1>1, <1>2, <1>3, <1>4, <1>5, <1>6 DEF Next

LEMMA CacheReached == Spec => []CacheIInv
BY CacheStarts, CacheKept, PTL DEF Spec

LEMMA CacheFits == CacheIInv => CacheInv
<1> SUFFICES ASSUME Typed, MarksKnown PROVE CacheInv
  BY DEF CacheIInv
<1>1. /\ have \in [Packages -> Nat] /\ bad \subseteq Packages /\ autoinst \subseteq Packages
  BY StatusIs DEF Typed, Now
<1>2. TypeOK
  BY <1>1 DEF TypeOK, Typed, MarksKnown, Fits
<1>3. NoResidue /\ AutoAsSaved
  BY DEF MarksKnown, Typed, AutoAsSaved
<1>4. QED
  BY <1>2, <1>3 DEF CacheInv

\* What is marked in the cache is what the operation on record marks in a cache that was
\* reset, however often apt-worker has tried others before; only an autoremove that it
\* gave up leaves more (check_cache_state, cmd_autoremove).
THEOREM MarksAreOfTheRecord == Spec => []CacheInv
BY CacheReached, CacheFits, PTL

\* An installation that was checked lowers no domain but those of the excused.
LEMMA InstalledAsAsked ==
  ASSUME CacheIInv, NEW success \in BOOLEAN, InstallPackage(success), flow.checked, ~disturbed
  PROVE  Lowered \subseteq agreed \cup lost \cup unasked \cup renumbered
<1> PICK op : op = Op
  OBVIOUS
<1> DEFINE m == Tried(op)
<1>1. /\ requests # << >> /\ Head(requests).cmd = "install" /\ Operate(m, success)
      /\ UNCHANGED <<domains, unasked, agreed>>
  BY DEF InstallPackage, Is
<1>2. Typed /\ MarksKnown /\ QueueKnown /\ DomainsKnown /\ AllAsked
  BY DEF CacheIInv
<1>3. op \in Ops /\ op.install /\ Head(requests) \in Range(requests) /\ Head(requests).op = op
  BY <1>1, <1>2, HeadIs DEF TriedCmds, Sets, Op
<1>4. Fits(Now, m) /\ m = Marked(Now, Kept(autoinst), op)
  BY <1>2, <1>3, TriedFits DEF Tried
<1>5. Questions(op) \subseteq Excused
  BY <1>1, <1>2, <1>3 DEF AllAsked, Wants
<1> HIDE DEF m
<1>6. SUFFICES ASSUME NEW p \in Packages, have[p] # 0, have'[p] \notin {0, have[p]}, Recorded[p] # Invalid,
                      Level(Recorded[p])' < Level(Recorded[p]), p \notin Excused
               PROVE  FALSE
  BY DEF Lowered, Excused
<1>7. PICK done \in SUBSET Packages, half \in SUBSET Packages, beyond \in Beyond, opened \in BOOLEAN :
        /\ half \subseteq bad \cup (done \cap Installed(m))
        /\ \A q \in half : q \in done => q \in Installed(m)
        /\ DoInstall(m, done, half)
        /\ NewCache(m.auto, Saved(domFile, Collected(m, beyond)), have', opened)
  BY <1>1, <1>2, <1>6, OperateIs
<1>8. have'[p] = IF p \in done THEN InstVer(Now, m, p) ELSE have[p]
  BY <1>7 DEF DoInstall
<1>9. p \in Installed(m) /\ m.mode[p] = "install"
  <2>1. m.mode[p] \in {"keep", "install", "delete"} /\ Now.have = have
    BY <1>4 DEF Fits, Marks, Now
  <2>2. InstVer(Now, m, p) \notin {0, have[p]}
    BY <1>6, <1>8
  <2>3. QED
    BY <2>1, <2>2 DEF InstVer, Installed
<1>10. Recorded'[p] = NewDomain(m, p, beyond)
  <2>1. p \in m.related \cap Packages
    BY <1>4, <1>9 DEF Fits
  <2>2. QED
    BY <1>1, <1>2, <1>4, <1>7, <2>1, InstalledKeeps
<1>11. cur[p] \in DOMAIN domains /\ Level(cur[p]) >= Level(Recorded[p])
  BY <1>2, <1>6 DEF DomainsKnown
<1>12. NewDomain(m, p, beyond) = Taken(p, Level(cur[p])) /\ NewDomain(m, p, beyond) \in DOMAIN domains
  BY <1>2, <1>6, <1>9, <1>11, NewDomainIs
<1>13. Level(Recorded[p])' = Level(Taken(p, Level(cur[p])))
  BY <1>1, <1>10, <1>12 DEF Level
<1>14. /\ Level(cur[p]) \in Nat /\ Level(Recorded[p]) \in Nat
       /\ Level(Taken(p, Level(cur[p]))) \in Nat
  <2>1. Recorded[p] \in DOMAIN domains
    BY <1>2, <1>6, RecordedIs DEF Typed
  <2>2. QED
    BY <1>2, <1>11, <1>12, <2>1, ConfigIs DEF Typed
<1>15. p \in Questions(op)
  <2>1. Level(Taken(p, Level(cur[p]))) < Level(cur[p])
    BY <1>6, <1>11, <1>13, <1>14
  <2>2. QED
    BY <1>4, <1>6, <1>9, <1>11, <2>1 DEF Questions
<1>16. QED
  BY <1>5, <1>6, <1>15

\* No other step carries out a request to install or to remove.
LEMMA OthersLeaveThePackages ==
  ASSUME [Next]_vars, Is("install") \/ Is("remove"),
         \A success \in BOOLEAN : ~InstallPackage(success) /\ ~RemovePackage(success)
  PROVE  have' = have
<1>1. \A success \in BOOLEAN : ~Autoremove(success)
  BY DEF Autoremove, Is
<1>2. ASSUME NEW p \in Packages, StartUninstall(p) \/ Background(p) PROVE have' = have
  BY <1>2 DEF StartUninstall, Background, disk
<1>3. ASSUME NEW p \in Packages \cup {Sys}, StartInstall(p) \/ LookAtDetails(ToInstall(p)) PROVE have' = have
  BY <1>3 DEF StartInstall, LookAtDetails, disk
<1>4. ASSUME NEW yes \in BOOLEAN, Confirm(yes) \/ RemoveCheck(yes) \/ Download(yes) \/ InstallCheck(yes)
      PROVE  have' = have
  BY <1>4 DEF Confirm, RemoveCheck, Download, InstallCheck, disk
<1>5. CASE RereadDomains \/ EnsureCache \/ Refused \/ Simulate \/ NoDetails \/ FlowInfo \/ GetPackageList \/ Crash
  BY <1>5 DEF RereadDomains, EnsureCache, Refused, Simulate, NoDetails, FlowInfo, GetPackageList, Crash, disk
<1>6. CASE UNCHANGED vars
  BY <1>6 DEF vars, disk
<1>7. QED
  BY <1>1, <1>2, <1>3, <1>4, <1>5, <1>6 DEF Next

\* What carries out a request carries out no other.
LEMMA OneOfThem ==
  ASSUME NEW success \in BOOLEAN
  PROVE  /\ Is("install") => ~RemovePackage(success)
         /\ Is("remove") => ~InstallPackage(success)
BY DEF Is, InstallPackage, RemovePackage

LEMMA NotLowered ==
  ASSUME [Next]_vars, Is("install"), \A success \in BOOLEAN : ~InstallPackage(success)
  PROVE  Lowered = {}
<1>1. have' = have
  BY OneOfThem, OthersLeaveThePackages
<1>2. QED
  BY <1>1 DEF Lowered

\* When the check of an installation has succeeded, apt-worker takes no package to another
\* version from a worse domain than the one on file, unless the user was asked, the
\* record had been overwritten before, or its number stood for another domain by then;
\* whatever was simulated, closed, downloaded, given up or configured in between
\* (encode_trust_summary, ip_check_cert_reply, collect_new_domains, read_domain_conf).
THEOREM NoUpdateInSilence == Spec => NoSilentLowering
<1>1. CacheIInv /\ [Next]_vars =>
        [Is("install") /\ flow.checked /\ ~disturbed =>
           Lowered \subseteq agreed \cup lost \cup unasked \cup renumbered]_vars
  <2>1. SUFFICES ASSUME CacheIInv, [Next]_vars, Is("install"), flow.checked, ~disturbed
                 PROVE  Lowered \subseteq agreed \cup lost \cup unasked \cup renumbered
    OBVIOUS
  <2>2. CASE \E success \in BOOLEAN : InstallPackage(success)
    BY <2>1, <2>2, InstalledAsAsked
  <2>3. CASE \A success \in BOOLEAN : ~InstallPackage(success)
    <3>1. Lowered = {}
      BY <2>1, <2>3, NotLowered
    <3>2. QED
      BY <3>1
  <2>4. QED
    BY <2>2, <2>3
<1>2. QED
  BY CacheReached, <1>1, PTL DEF Spec, NoSilentLowering

\* What goes to dpkg is what is marked, or a part of it.
LEMMA OperateChanges ==
  ASSUME NEW m, NEW success \in BOOLEAN, Operate(m, success), NEW p \in Packages, have'[p] # have[p]
  PROVE  have'[p] = InstVer(Now, m, p)
<1>1. ASSUME NEW done, NEW half, DoInstall(m, done, half) PROVE have'[p] = InstVer(Now, m, p)
  <2>1. have' = [q \in Packages |-> IF q \in done THEN InstVer(Now, m, q) ELSE have[q]]
    BY <1>1 DEF DoInstall
  <2>2. QED
    BY <2>1
<1>2. have' # have
  OBVIOUS
<1>3. \E done, half : DoInstall(m, done, half)
  BY <1>2 DEF Operate
<1>4. QED
  BY <1>1, <1>3

\* An installation goes to dpkg with what it marks in a cache that was reset.
LEMMA InstalledSpares ==
  ASSUME CacheIInv, NEW success \in BOOLEAN, InstallPackage(success), ~disturbed,
         NEW p \in UserPackages, have[p] # 0
  PROVE  have'[p] # 0
<1> PICK op : op = Op
  OBVIOUS
<1> DEFINE m == Tried(op)
<1>1. /\ requests # << >> /\ Head(requests).cmd = "install" /\ Operate(m, success)
  BY DEF InstallPackage, Is
<1>2. Typed /\ MarksKnown /\ QueueKnown /\ Now \in Statuses /\ Now.auto = autoinst /\ Now.have = have
  BY DEF CacheIInv, Typed, Now
<1>3. op \in Ops /\ op.install
  BY <1>1, <1>2, HeadIs DEF TriedCmds, Sets, Op
<1>4. Fits(Now, m) /\ m = Marked(Now, Kept(autoinst), op)
  BY <1>2, <1>3, TriedFits DEF Tried
<1>5. Deleted(m) \cap UserPackages = {}
  <2>1. Fits(Now, Kept(autoinst)) /\ Deleted(Kept(autoinst)) = {}
    BY <1>2, StatusIs, KeptFits
  <2>2. Deleted(Marked(Now, Kept(autoinst), op)) \cap UserPackages \subseteq Deleted(Kept(autoinst))
    BY <1>2, <1>3, <2>1, MarkedFits
  <2>3. QED
    BY <1>4, <2>1, <2>2
<1> HIDE DEF m
<1>6. p \in Packages /\ m.mode[p] \in {"keep", "install"} /\ have[p] \in Nat /\ Available[p] \in Nat
  <2>1. p \in Packages /\ Available[p] \in Nat
    BY DepCacheAssumption
  <2>2. have[p] \in Nat
    BY <1>2, <2>1, StatusIs
  <2>3. m.mode[p] \in {"keep", "install", "delete"}
    BY <1>4, <2>1 DEF Fits, Marks
  <2>4. QED
    BY <1>5, <2>1, <2>2, <2>3 DEF Deleted
<1>7. InstVer(Now, m, p) # 0
  BY <1>2, <1>6 DEF InstVer, Cand
<1>8. QED
  BY <1>1, <1>6, <1>7, OperateChanges

\* A removal goes to dpkg with what it marks in a cache that was reset, too.
LEMMA RemovedSpares ==
  ASSUME CacheIInv, NEW success \in BOOLEAN, RemovePackage(success), ~disturbed,
         NEW p \in Packages, have'[p] # have[p]
  PROVE  have'[p] = 0 /\ p \in {Op.package} \cup (autoinst \ UserPackages)
<1> PICK op : op = Op
  OBVIOUS
<1> DEFINE m == Tried(op)
<1>1. /\ requests # << >> /\ Head(requests).cmd = "remove" /\ Operate(m, success)
  BY DEF RemovePackage, Is
<1>2. Typed /\ MarksKnown /\ QueueKnown /\ Now \in Statuses /\ Now.auto = autoinst /\ Now.have = have
  BY DEF CacheIInv, Typed, Now
<1>3. op \in Ops /\ ~op.install
  BY <1>1, <1>2, HeadIs DEF TriedCmds
<1>4. Fits(Now, m) /\ m = Marked(Now, Kept(autoinst), op)
  BY <1>2, <1>3, TriedFits DEF Tried
<1>5. Installed(m) = {} /\ Deleted(m) \subseteq {op.package} \cup (autoinst \ UserPackages)
  BY <1>2, <1>3, <1>4, MarkedRemoval
<1> HIDE DEF m
<1>6. have'[p] = InstVer(Now, m, p)
  BY <1>1, OperateChanges
<1>7. m.mode[p] \in {"keep", "delete"}
  BY <1>4, <1>5 DEF Fits, Marks, Installed
<1>8. m.mode[p] = "delete" /\ InstVer(Now, m, p) = 0
  BY <1>2, <1>6, <1>7 DEF InstVer
<1>9. QED
  BY <1>5, <1>6, <1>8 DEF Deleted

\* An installation removes no package of the user; a removal takes only packages along
\* that were installed automatically and are not the user's, and changes no other; both
\* whatever was tried, taken back or left over in the cache before, unless that was an
\* autoremove that was given up (check_cache_state, mark_for_install_1,
\* mark_for_remove_1).
THEOREM OperationsSpareTheRest == Spec => NoSurprises
<1> DEFINE spares ==
      /\ Is("install") => Dropped = {}
      /\ Is("remove") => \A p \in Packages : have'[p] # have[p] =>
           have'[p] = 0 /\ p \in {Op.package} \cup (autoinst \ UserPackages)
<1>1. CacheIInv /\ [Next]_vars => [~disturbed => spares]_vars
  <2>1. SUFFICES ASSUME CacheIInv, [Next]_vars, ~disturbed PROVE spares
    OBVIOUS
  <2>2. CASE \E success \in BOOLEAN : InstallPackage(success)
    <3>1. ASSUME NEW p \in UserPackages, have[p] # 0 PROVE have'[p] # 0
      BY <2>1, <2>2, <3>1, InstalledSpares
    <3>2. Dropped = {}
      BY <3>1 DEF Dropped
    <3>3. ~Is("remove")
      BY <2>2, OneOfThem
    <3>4. QED
      BY <3>2, <3>3
  <2>3. CASE \E success \in BOOLEAN : RemovePackage(success)
    <3>1. ASSUME NEW p \in Packages, have'[p] # have[p]
          PROVE  have'[p] = 0 /\ p \in {Op.package} \cup (autoinst \ UserPackages)
      BY <2>1, <2>3, <3>1, RemovedSpares
    <3>2. ~Is("install")
      BY <2>3, OneOfThem
    <3>3. QED
      BY <3>1, <3>2
  <2>4. CASE \A success \in BOOLEAN : ~InstallPackage(success) /\ ~RemovePackage(success)
    <3>1. Is("install") \/ Is("remove") => have' = have
      BY <2>1, <2>4, OthersLeaveThePackages
    <3>2. QED
      BY <3>1 DEF Dropped
  <2>5. QED
    BY <2>2, <2>3, <2>4
<1>2. QED
  BY CacheReached, <1>1, PTL DEF Spec, NoSurprises

LEMMA CacheSettles == CacheIInv => NothingBrokenSoftly
<1> SUFFICES ASSUME CacheIInv, ~disturbed,
                    NEW p \in Packages, InstVer(Now, marks, p) # 0, NEW d \in Needs(p, InstVer(Now, marks, p))
             PROVE  ~(d[1] \in marks.soft /\ d[1] \in Deleted(marks))
  BY DEF NothingBrokenSoftly
<1>1. Typed /\ MarksKnown /\ Now \in Statuses /\ autoinst \in SUBSET Packages
  BY StatusIs DEF CacheIInv, Typed, Now
<1>2. marks \in Marks /\ Kept(autoinst) \in Marks
  BY <1>1, KeptFits DEF MarksKnown, Fits
<1>3. marks = IF memo = NoOp THEN Kept(autoinst) ELSE Marked(Now, Kept(autoinst), memo)
  BY <1>1 DEF MarksKnown, NoResidue
<1>4. CASE memo = NoOp
  <2>1. Deleted(marks) = {}
    BY <1>1, <1>3, <1>4, KeptFits
  <2>2. QED
    BY <2>1
<1>5. CASE memo # NoOp
  <2>1. memo \in Ops
    BY <1>1, <1>5 DEF Typed
  <2>2. PutBack(Now, marks) = {}
    BY <1>1, <1>2, <1>3, <1>5, <2>1, MarkedSettles
  <2>3. QED
    BY <1>1, <1>2, <2>2, NothingToPutBack
<1>6. QED
  BY <1>4, <1>5

\* No package that is to be installed or to stay needs one that is marked for removal
\* softly: the rounds of fix_soft_packages, which end, put them all back.
THEOREM NothingNeededIsBroken == Spec => []NothingBrokenSoftly
BY CacheReached, CacheSettles, PTL
=============================================================================
