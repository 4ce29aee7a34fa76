-------------------------- MODULE Frontend_proofs --------------------------
(***************************************************************************)
(* Proofs about the lists of packages that the frontend shows, and about   *)
(* its flows of files and removals.  The two machines share no variable.   *)
(***************************************************************************)
EXTENDS PackageListing, FileAndRemoveFlows, FunctionTheorems, FiniteSetTheorems,
        SequenceTheorems, WellFoundedInduction, TLAPS
-----------------------------------------------------------------------------
(* Requests that were sent, counted *)

\* Two sequences with equally many requests that the banner waits for.
SameWaits(s, t) ==
  /\ Times("list", s) = Times("list", t)
  /\ Times("search", s) = Times("search", t)

LEMMA TimesType ==
  ASSUME NEW k, NEW s \in Seq(Kinds)
  PROVE  Times(k, s) \in Nat /\ IsFiniteSet({i \in DOMAIN s : s[i] = k})
<1>1. Len(s) \in Nat /\ DOMAIN s = 1 .. Len(s)
  OBVIOUS
<1>2. IsFiniteSet(1 .. Len(s))
  BY <1>1, FS_Interval
<1>3. IsFiniteSet({i \in DOMAIN s : s[i] = k})
  BY <1>1, <1>2, FS_Subset
<1>4. QED
  BY <1>3, FS_CardinalityType DEF Times

LEMMA TimesEmpty ==
  ASSUME NEW k
  PROVE  Times(k, << >>) = 0
<1>1. {i \in DOMAIN << >> : << >>[i] = k} = {}
  OBVIOUS
<1>2. QED
  BY <1>1, FS_EmptySet DEF Times

\* One more of the kind of the request that is sent.
LEMMA TimesAppend ==
  ASSUME NEW k, NEW s \in Seq(Kinds), NEW e \in Kinds
  PROVE  Times(k, Append(s, e)) = Times(k, s) + (IF e = k THEN 1 ELSE 0)
<1> DEFINE Occ(q) == {i \in DOMAIN q : q[i] = k}
<1>1. /\ Append(s, e) \in Seq(Kinds) /\ Len(Append(s, e)) = Len(s) + 1
      /\ \A i \in 1 .. Len(s) : Append(s, e)[i] = s[i]
      /\ Append(s, e)[Len(s) + 1] = e
  BY AppendProperties
<1>2. /\ Len(s) \in Nat /\ DOMAIN s = 1 .. Len(s)
      /\ DOMAIN Append(s, e) = 1 .. Len(s) + 1
  BY <1>1
<1>3. IsFiniteSet(Occ(s)) /\ Cardinality(Occ(s)) \in Nat
  BY TimesType DEF Times
<1>4. CASE e = k
  <2>1. Occ(Append(s, e)) = Occ(s) \cup {Len(s) + 1} /\ Len(s) + 1 \notin Occ(s)
    BY <1>1, <1>2, <1>4
  <2>2. Cardinality(Occ(Append(s, e))) = Cardinality(Occ(s)) + 1
    BY <2>1, <1>3, FS_AddElement
  <2>3. QED
    BY <2>2, <1>4 DEF Times
<1>5. CASE e # k
  <2>1. Occ(Append(s, e)) = Occ(s)
    BY <1>1, <1>2, <1>5
  <2> HIDE DEF Occ
  <2>2. Cardinality(Occ(Append(s, e))) = Cardinality(Occ(s)) + 0
    BY <2>1, <1>3
  <2>3. QED
    BY <2>2, <1>5 DEF Times, Occ
<1>6. QED
  BY <1>4, <1>5

\* One less of the kind of the request that is answered: the others move up.
LEMMA TimesTail ==
  ASSUME NEW k, NEW s \in Seq(Kinds), s # << >>
  PROVE  Times(k, s) = Times(k, Tail(s)) + (IF Head(s) = k THEN 1 ELSE 0)
<1> DEFINE Here == {i \in DOMAIN s : s[i] = k}
           Next1 == {i \in DOMAIN Tail(s) : Tail(s)[i] = k}
           Up == [i \in Next1 |-> i + 1]
<1>1. /\ Len(s) \in Nat /\ Len(s) > 0 /\ DOMAIN s = 1 .. Len(s)
      /\ Head(s) = s[1]
      /\ Tail(s) \in Seq(Kinds) /\ Len(Tail(s)) = Len(s) - 1
      /\ \A i \in 1 .. Len(s) - 1 : Tail(s)[i] = s[i + 1]
      /\ DOMAIN Tail(s) = 1 .. Len(s) - 1
  BY HeadTailProperties
<1>2. IsFiniteSet(Here) /\ IsFiniteSet(Next1)
  BY <1>1, TimesType
<1>3. Next1 \subseteq Int /\ \A i \in Next1 : i + 1 \in Here \ {1}
  BY <1>1
<1>4. Up \in [Next1 -> Here \ {1}]
  BY <1>3
<1>5. \A i, j \in Next1 : Up[i] = Up[j] => i = j
  BY <1>3
<1>6. \A j \in Here \ {1} : \E i \in Next1 : Up[i] = j
  <2>1. SUFFICES ASSUME NEW j \in Here \ {1} PROVE j - 1 \in Next1 /\ Up[j - 1] = j
    OBVIOUS
  <2>2. j \in 2 .. Len(s) /\ s[j] = k
    BY <1>1
  <2>3. j - 1 \in 1 .. Len(s) - 1 /\ Tail(s)[j - 1] = s[j]
    BY <1>1, <2>2
  <2>4. QED
    BY <1>1, <2>2, <2>3
<1>7. Up \in Bijection(Next1, Here \ {1})
  BY <1>4, <1>5, <1>6, Fun_IsBij
<1>8. Cardinality(Next1) = Cardinality(Here \ {1})
  BY <1>7, <1>2, FS_Bijection, Fun_ExistsBij
<1>9. Cardinality(Here \ {1}) = IF 1 \in Here THEN Cardinality(Here) - 1 ELSE Cardinality(Here)
  BY <1>2, FS_RemoveElement
<1>10. 1 \in Here <=> Head(s) = k
  BY <1>1
<1>11. Cardinality(Here) \in Nat
  BY <1>2, FS_CardinalityType
<1>12. Cardinality(Here) = Cardinality(Next1) + (IF Head(s) = k THEN 1 ELSE 0)
  <2> HIDE DEF Here, Next1
  <2>1. QED
    BY <1>8, <1>9, <1>10, <1>11
<1>13. QED
  BY <1>12 DEF Times

-----------------------------------------------------------------------------
(* The lists of packages: what drawing a view may do *)

\* A pointer that is not lost.
Live(p, ls) == p \in Pointers \ {"freed"} /\ Points(p, ls)

\* What a view leaves of the pointers and of the requests: each pointer is as before,
\* or into the lists that were shown, and nothing that the banner waits for was asked.
LEMMA TriggeredKeeps ==
  ASSUME NEW l, NEW sent \in Seq(Kinds), NEW t \in Triggered(l, sent)
  PROVE  t.next \in {l, "none"} /\ t.sent \in Seq(Kinds) /\ SameWaits(t.sent, sent)
<1>1. /\ Append(sent, "info") \in Seq(Kinds)
      /\ SameWaits(Append(sent, "info"), sent)
  <2>1. "info" \in Kinds /\ Append(sent, "info") \in Seq(Kinds)
    BY AppendProperties DEF Kinds
  <2>2. Times("list", sent) \in Nat /\ Times("search", sent) \in Nat
    BY TimesType
  <2>3. QED
    BY <2>1, <2>2, TimesAppend DEF SameWaits
<1>2. SameWaits(sent, sent)
  BY DEF SameWaits
<1>3. \/ t = [next |-> "none", sent |-> sent]
      \/ \E n \in {l, "none"} : t = [next |-> n, sent |-> Append(sent, "info")]
  BY DEF Triggered
<1>4. t.next \in {l, "none"} /\ t.sent \in {sent, Append(sent, "info")}
  BY <1>3
<1>5. QED
  BY <1>1, <1>2, <1>4

LEMMA ShowsLive ==
  ASSUME NEW v \in Views, NEW ls \in Lists, NEW l \in Shows(v, ls)
  PROVE  Live(l, ls)
  BY DEF Shows, Live, Points, Pointers, Views, Lists

LEMMA ShownKeeps ==
  ASSUME NEW v \in Views, NEW ls \in Lists, NEW w, NEW b, NEW sent \in Seq(Kinds),
         NEW d \in Shown(v, ls, w, b, sent)
  PROVE  /\ d.shown = w \/ Live(d.shown, ls)
         /\ d.next = b \/ Live(d.next, ls)
         /\ d.sent \in Seq(Kinds) /\ SameWaits(d.sent, sent)
<1>1. PICK l \in Shows(v, ls) :
        \E t \in IF Retrieves(v, ls, l) THEN Triggered(l, sent) ELSE {[next |-> b, sent |-> sent]} :
          d = [list |-> l, shown |-> IF l = "none" THEN w ELSE l, next |-> t.next, sent |-> t.sent]
  BY DEF Shown
<1>2. PICK t \in IF Retrieves(v, ls, l) THEN Triggered(l, sent) ELSE {[next |-> b, sent |-> sent]} :
        d = [list |-> l, shown |-> IF l = "none" THEN w ELSE l, next |-> t.next, sent |-> t.sent]
  BY <1>1
<1>3. Live(l, ls) /\ Live("none", ls)
  BY ShowsLive DEF Live, Points, Pointers
<1>4. /\ t.next \in {l, "none", b}
      /\ t.sent \in Seq(Kinds) /\ SameWaits(t.sent, sent)
  BY TriggeredKeeps DEF SameWaits
<1>5. QED
  BY <1>2, <1>3, <1>4

\* Drawing a view again, or its parent.
LEMMA ShowKeeps ==
  ASSUME NEW v \in Views, NEW ls \in Lists, NEW w, NEW b, NEW sent \in Seq(Kinds),
         Show(v, ls, w, b, sent)
  PROVE  /\ shown' = w \/ Live(shown', ls)
         /\ background' = b \/ Live(background', ls)
         /\ requests' \in Seq(Kinds) /\ SameWaits(requests', sent)
  BY ShownKeeps DEF Show

\* The search view always starts its own retrieval, which the old one gives way to.
LEMMA SearchShowsRetrieves ==
  ASSUME NEW ls \in Lists, NEW w, NEW b, NEW sent \in Seq(Kinds),
         Show("search", ls, w, b, sent)
  PROVE  Live(background', ls)
<1>1. PICK d \in Shown("search", ls, w, b, sent) : background' = d.next
  BY DEF Show
<1>2. PICK l \in Shows("search", ls) :
        \E t \in Triggered(l, sent) : d.next = t.next
  BY DEF Shown, Retrieves
<1>3. d.next \in {l, "none"}
  BY <1>2, TriggeredKeeps
<1>4. "search" \in Views /\ Live("none", ls)
  BY DEF Views, Live, Points, Pointers
<1>5. QED
  BY <1>1, <1>2, <1>3, <1>4, ShowsLive

LEMMA ToParentKeeps ==
  ASSUME lists' \in Lists, view \in Views, NEW w, NEW b, NEW sent \in Seq(Kinds),
         ToParent(w, b, sent)
  PROVE  /\ view' \in Views
         /\ shown' = w \/ Live(shown', lists')
         /\ background' = b \/ Live(background', lists')
         /\ requests' \in Seq(Kinds) /\ SameWaits(requests', sent)
<1>1. Parent(view) \in Views
  BY DEF Parent, Views
<1>2. CASE Parent(view) # "main" /\ Show(Parent(view), lists', w, b, sent)
  BY <1>1, <1>2, ShowKeeps DEF ToParent
<1>3. CASE shown' = w /\ background' = b /\ requests' = sent
  BY <1>1, <1>3 DEF ToParent, SameWaits
<1>4. QED
  BY <1>2, <1>3 DEF ToParent

-----------------------------------------------------------------------------
(* The lists of packages: the inductive invariant *)

\* Sections that are there were put there by a reply: the second one is what frees
\* them under a pointer.
SectionsMerged == lists.sections # "none" => merged > 0

ListingIInv == ListingInv /\ PointersLive /\ SectionsMerged

\* What is left to show of a step that leaves the lists alone.
LEMMA ListsStay ==
  ASSUME ListingIInv, UNCHANGED <<lists, merged>>,
         state' \in {"unknown", "retrieving", "ready"}, view' \in Views,
         level' \in Int, timers' \in Nat, events' \in 0 .. MaxEvents,
         shown' = shown \/ Live(shown', lists),
         background' = background \/ Live(background', lists),
         requests' \in Seq(Kinds), LevelInSync', RetrievingIsAsked'
  PROVE  ListingIInv'
<1>1. ListingTypeOK'
  BY DEF ListingIInv, ListingInv, ListingTypeOK, Live
<1>2. Points(shown', lists') /\ Points(background', lists')
  BY DEF ListingIInv, ListingInv, Live
<1>3. PointersLive' /\ SectionsMerged'
  BY DEF ListingIInv, PointersLive, SectionsMerged, Live
<1>4. QED
  BY <1>1, <1>2, <1>3 DEF ListingIInv, ListingInv

LEMMA InitListing == ListingInit => ListingIInv
<1>1. SUFFICES ASSUME ListingInit PROVE ListingIInv
  OBVIOUS
<1>2. Count("list") = 0 /\ Count("search") = 0
  BY <1>1, TimesEmpty DEF ListingInit, Count
<1>3. ListingTypeOK
  BY <1>1, ListingAssumption DEF ListingInit, ListingTypeOK, NoLists, Lists, Views, Pointers
<1>4. QED
  BY <1>1, <1>2, <1>3
     DEF ListingInit, ListingIInv, ListingInv, LevelInSync, RetrievingIsAsked, Points,
         PointersLive, SectionsMerged, NoLists

\* The balance of the banner, and who waits for a list, when no such request is sent
\* or answered.
LEMMA WaitsKeep ==
  ASSUME ListingIInv, requests' \in Seq(Kinds), SameWaits(requests', requests),
         state' = state, level' + timers' = level + timers
  PROVE  LevelInSync' /\ RetrievingIsAsked'
  BY DEF ListingIInv, ListingInv, LevelInSync, RetrievingIsAsked, Count, SameWaits

LEMMA OpenViewKeeps ==
  ASSUME ListingIInv, NEW v \in Views, OpenView(v)
  PROVE  ListingIInv'
<1>1. ListingTypeOK /\ lists \in Lists /\ requests \in Seq(Kinds) /\ events' \in 0 .. MaxEvents
  BY ListingAssumption DEF ListingIInv, ListingInv, ListingTypeOK, OpenView, Event
<1>2. /\ shown' = shown \/ Live(shown', lists)
      /\ background' = background \/ Live(background', lists)
      /\ requests' \in Seq(Kinds) /\ SameWaits(requests', requests)
  BY <1>1, ShowKeeps DEF OpenView
<1>3. LevelInSync' /\ RetrievingIsAsked'
  BY <1>2, WaitsKeep DEF OpenView
<1>4. QED
  BY <1>1, <1>2, <1>3, ListsStay DEF OpenView, ListingTypeOK

LEMMA GoBackKeeps ==
  ASSUME ListingIInv, GoBack
  PROVE  ListingIInv'
<1>1. /\ ListingTypeOK /\ lists \in Lists /\ requests \in Seq(Kinds) /\ view \in Views
      /\ events' \in 0 .. MaxEvents /\ lists' = lists
  BY ListingAssumption DEF ListingIInv, ListingInv, ListingTypeOK, GoBack, Event
<1>2. /\ view' \in Views
      /\ shown' = shown \/ Live(shown', lists)
      /\ background' = background \/ Live(background', lists)
      /\ requests' \in Seq(Kinds) /\ SameWaits(requests', requests)
  BY <1>1, ToParentKeeps DEF GoBack
<1>3. LevelInSync' /\ RetrievingIsAsked'
  BY <1>2, WaitsKeep DEF GoBack
<1>4. QED
  BY <1>1, <1>2, <1>3, ListsStay DEF GoBack, ListingTypeOK

\* A request is sent after whatever drawing a view has asked for.
LEMMA RequestIsSent ==
  ASSUME requests \in Seq(Kinds), NEW s \in Seq(Kinds), SameWaits(s, requests),
         NEW e \in Kinds, requests' = Append(s, e)
  PROVE  /\ requests' \in Seq(Kinds)
         /\ Count("list") \in Nat /\ Count("search") \in Nat
         /\ Count("list")' = Count("list") + (IF e = "list" THEN 1 ELSE 0)
         /\ Count("search")' = Count("search") + (IF e = "search" THEN 1 ELSE 0)
<1>1. Append(s, e) \in Seq(Kinds)
  BY AppendProperties
<1>2. Times("list", requests) \in Nat /\ Times("search", requests) \in Nat
  BY TimesType
<1>3. Times("list", Append(s, e)) = Times("list", s) + (IF e = "list" THEN 1 ELSE 0)
  BY TimesAppend
<1>4. Times("search", Append(s, e)) = Times("search", s) + (IF e = "search" THEN 1 ELSE 0)
  BY TimesAppend
<1>5. QED
  BY <1>1, <1>2, <1>3, <1>4 DEF Count, SameWaits

\* The banner: whoever waits for one more answer has one more timeout running.
LEMMA OneMoreInSync ==
  ASSUME LevelInSync, level \in Int, timers \in Nat,
         Count("list") \in Nat, Count("search") \in Nat,
         level' = level, timers' = timers + 1,
         Count("list")' + Count("search")' = Count("list") + Count("search") + 1
  PROVE  LevelInSync'
<1>1. level + timers = Count("list") + Count("search")
  BY DEF LevelInSync
<1>2. level' + timers' = Count("list")' + Count("search")'
  BY <1>1
<1>3. QED
  BY <1>2 DEF LevelInSync

\* The lists are freed, and every pointer into them is dropped first.
LEMMA GetPackageListKeeps ==
  ASSUME ListingIInv, GetPackageList
  PROVE  ListingIInv'
<1>1. /\ ListingTypeOK /\ requests \in Seq(Kinds) /\ events' \in 0 .. MaxEvents
      /\ level \in Int /\ timers \in Nat
  BY ListingAssumption DEF ListingIInv, ListingInv, ListingTypeOK, GetPackageList, Event
<1>2. /\ state' = "retrieving" /\ lists' = NoLists /\ merged' = 0 /\ shown' = "none"
      /\ background' = "none" /\ requests' = Append(requests, "list")
      /\ timers' = timers + 1 /\ UNCHANGED <<view, level>>
  BY DEF GetPackageList, Start
<1>3. "list" \in Kinds /\ SameWaits(requests, requests)
  BY DEF Kinds, SameWaits
<1>4. /\ requests' \in Seq(Kinds) /\ Count("list") \in Nat /\ Count("search") \in Nat
      /\ Count("list")' = Count("list") + 1 /\ Count("search")' = Count("search")
  BY <1>1, <1>2, <1>3, RequestIsSent
<1>5. LevelInSync' /\ RetrievingIsAsked'
  <2>1. Count("list")' + Count("search")' = Count("list") + Count("search") + 1
    BY <1>4
  <2>2. LevelInSync'
    BY <1>1, <1>2, <1>4, <2>1, OneMoreInSync DEF ListingIInv, ListingInv
  <2>3. RetrievingIsAsked'
    BY <1>4 DEF RetrievingIsAsked
  <2>4. QED
    BY <2>2, <2>3
<1>6. ListingTypeOK'
  BY <1>1, <1>2, <1>4 DEF ListingTypeOK, NoLists, Lists, Pointers
<1>7. QED
  BY <1>2, <1>5, <1>6
     DEF ListingIInv, ListingInv, Points, PointersLive, SectionsMerged, NoLists

LEMMA UpdatingTimeoutKeeps ==
  ASSUME ListingIInv, UpdatingTimeout
  PROVE  ListingIInv'
<1>1. ListingTypeOK /\ requests' = requests /\ requests \in Seq(Kinds) /\ state' = state
  BY DEF ListingIInv, ListingInv, ListingTypeOK, UpdatingTimeout
<1>2. level' \in Int /\ timers' \in Nat /\ level' + timers' = level + timers
  BY <1>1 DEF UpdatingTimeout, ListingTypeOK
<1>3. LevelInSync' /\ RetrievingIsAsked'
  BY <1>1, <1>2, WaitsKeep DEF SameWaits
<1>4. QED
  BY <1>1, <1>2, <1>3, ListsStay DEF UpdatingTimeout, ListingTypeOK

LEMMA SearchKeeps ==
  ASSUME ListingIInv, Search
  PROVE  ListingIInv'
<1>1. /\ ListingTypeOK /\ lists \in Lists /\ requests \in Seq(Kinds)
      /\ events' \in 0 .. MaxEvents /\ level \in Int /\ timers \in Nat
  BY ListingAssumption DEF ListingIInv, ListingInv, ListingTypeOK, Search, Event
<1>2. PICK d \in Shown("install", lists, shown, background, requests) :
        shown' = d.shown /\ background' = d.next /\ requests' = Append(d.sent, "search")
  BY DEF Search
<1>3. "install" \in Views /\ "search" \in Kinds
  BY DEF Views, Kinds
<1>4. /\ shown' = shown \/ Live(shown', lists)
      /\ background' = background \/ Live(background', lists)
      /\ d.sent \in Seq(Kinds) /\ SameWaits(d.sent, requests)
  BY <1>1, <1>2, <1>3, ShownKeeps
<1>5. /\ requests' \in Seq(Kinds) /\ Count("list") \in Nat /\ Count("search") \in Nat
      /\ Count("list")' = Count("list") /\ Count("search")' = Count("search") + 1
  BY <1>1, <1>2, <1>3, <1>4, RequestIsSent
<1>6. LevelInSync' /\ RetrievingIsAsked'
  <2>1. Count("list")' + Count("search")' = Count("list") + Count("search") + 1
    BY <1>5
  <2>2. LevelInSync'
    BY <1>1, <1>5, <2>1, OneMoreInSync DEF ListingIInv, ListingInv, Search
  <2>3. RetrievingIsAsked'
    BY <1>5 DEF RetrievingIsAsked, ListingIInv, ListingInv, Search
  <2>4. QED
    BY <2>2, <2>3
<1>7. QED
  BY <1>1, <1>3, <1>4, <1>5, <1>6, ListsStay DEF Search, ListingTypeOK

\* An answer takes the first request from the queue.
LEMMA AnswerTakes ==
  ASSUME requests \in Seq(Kinds), requests # << >>, requests' \in Seq(Kinds),
         SameWaits(requests', Tail(requests))
  PROVE  /\ Count("list") \in Nat /\ Count("search") \in Nat
         /\ Count("list")' = Count("list") - (IF Head(requests) = "list" THEN 1 ELSE 0)
         /\ Count("search")' = Count("search") - (IF Head(requests) = "search" THEN 1 ELSE 0)
<1>1. Tail(requests) \in Seq(Kinds)
  BY HeadTailProperties
<1>2. /\ Times("list", requests) \in Nat /\ Times("search", requests) \in Nat
      /\ Times("list", Tail(requests)) \in Nat /\ Times("search", Tail(requests)) \in Nat
  BY <1>1, TimesType
<1>3. QED
  BY <1>2, TimesTail DEF Count, SameWaits

LEMMA InfoReplyKeeps ==
  ASSUME ListingIInv, InfoReply
  PROVE  ListingIInv'
<1>1. /\ ListingTypeOK /\ requests \in Seq(Kinds) /\ requests # << >>
      /\ Head(requests) = "info" /\ Tail(requests) \in Seq(Kinds)
  BY HeadTailProperties DEF ListingIInv, ListingInv, ListingTypeOK, InfoReply
<1>2. PICK t \in Triggered(background, Tail(requests)) :
        background' = t.next /\ requests' = t.sent
  BY DEF InfoReply
<1>3. /\ background' \in {background, "none"} /\ requests' \in Seq(Kinds)
      /\ SameWaits(requests', Tail(requests))
  BY <1>1, <1>2, TriggeredKeeps
<1>4. Live("none", lists)
  BY DEF Live, Pointers, Points
<1>5. /\ Count("list")' = Count("list") /\ Count("search")' = Count("search")
  BY <1>1, <1>3, AnswerTakes
<1>6. LevelInSync' /\ RetrievingIsAsked'
  BY <1>5 DEF ListingIInv, ListingInv, LevelInSync, RetrievingIsAsked, InfoReply
<1>7. QED
  BY <1>1, <1>3, <1>4, <1>6, ListsStay DEF InfoReply, ListingTypeOK

\* The banner: an answer hides it, and somebody waits for one answer less.
LEMMA OneLessInSync ==
  ASSUME LevelInSync, level \in Int, timers \in Nat,
         Count("list") \in Nat, Count("search") \in Nat,
         level' = level - 1, timers' = timers,
         Count("list")' + Count("search")' = Count("list") + Count("search") - 1
  PROVE  LevelInSync'
<1>1. level + timers = Count("list") + Count("search")
  BY DEF LevelInSync
<1>2. level' + timers' = Count("list")' + Count("search")'
  BY <1>1
<1>3. QED
  BY <1>2 DEF LevelInSync

\* A pointer after a reply was put into the lists: it is as before, or it was into the
\* sections that were freed, which the second reply does.
LEMMA MergeKeepsPointer ==
  ASSUME lists \in Lists, merged \in Nat, SectionsMerged, NEW p \in Pointers, Points(p, lists),
         p = "freed" => merged > 1, lists' \in Lists,
         NEW s \in {"empty", "few", "one", "many"}, NEW q \in Pointers,
         \/ lists' = lists /\ merged' = merged /\ q = p
         \/ /\ lists'.sections = s /\ merged' = merged + 1
            /\ lists.upgradeable => lists'.upgradeable
            /\ lists.installed => lists'.installed
            /\ lists'.results = lists.results
            /\ q = IF Merge(s).freed THEN Freed(p) ELSE p
  PROVE  Points(q, lists') /\ (q = "freed" => merged' > 1)
<1>1. CASE lists' = lists /\ merged' = merged /\ q = p
  BY <1>1
<1>2. CASE /\ lists'.sections = s /\ merged' = merged + 1
           /\ lists.upgradeable => lists'.upgradeable
           /\ lists.installed => lists'.installed
           /\ lists'.results = lists.results
           /\ q = IF Merge(s).freed THEN Freed(p) ELSE p
  <2>1. CASE p = "section"
    <3>1. lists.sections # "none" /\ merged > 0
      BY <2>1 DEF Points, SectionsMerged
    <3>2. q \in {"section", "freed"} /\ (q = "section" => s \in {"one", "many"})
      BY <1>2, <2>1, <3>1 DEF Merge, Freed
    <3>3. QED
      BY <1>2, <3>1, <3>2 DEF Points
  <2>2. CASE p # "section"
    <3>1. q = p
      BY <1>2, <2>2 DEF Freed
    <3>2. QED
      BY <1>2, <2>2, <3>1 DEF Points
  <2>3. QED
    BY <2>1, <2>2
<1>3. QED
  BY <1>1, <1>2

LEMMA ListReplyKeeps ==
  ASSUME ListingIInv, NEW answered \in BOOLEAN, NEW u \in BOOLEAN, NEW i \in BOOLEAN,
         NEW s \in {"empty", "few", "one", "many"}, ListReply(answered, s, u, i)
  PROVE  ListingIInv'
<1> DEFINE freed == answered /\ Merge(s).freed
           w == IF freed THEN Freed(shown) ELSE shown
           b == IF freed THEN Freed(background) ELSE background
<1>1. /\ ListingTypeOK /\ lists \in Lists /\ merged \in Nat /\ view \in Views
      /\ shown \in Pointers /\ background \in Pointers
      /\ requests \in Seq(Kinds) /\ level \in Int /\ timers \in Nat
      /\ Points(shown, lists) /\ Points(background, lists)
      /\ PointersLive /\ SectionsMerged /\ LevelInSync
  BY DEF ListingIInv, ListingInv, ListingTypeOK
<1>2. /\ requests # << >> /\ Head(requests) = "list" /\ Tail(requests) \in Seq(Kinds)
      /\ level' = level - 1 /\ state' = "ready" /\ timers' = timers /\ events' = events
  BY <1>1, HeadTailProperties DEF ListReply, Hide
<1>3. /\ answered => /\ lists' = [lists EXCEPT !.sections = s, !.upgradeable = @ \/ u,
                                              !.installed = @ \/ i]
                     /\ merged' = merged + 1
      /\ ~answered => lists' = lists /\ merged' = merged
  BY DEF ListReply, Merge
<1>4. lists' \in Lists /\ merged' \in Nat
  <2>1. (lists.upgradeable \/ u) \in BOOLEAN /\ (lists.installed \/ i) \in BOOLEAN
    OBVIOUS
  <2>2. s \in {"none", "empty", "few", "one", "many"}
    OBVIOUS
  <2>3. [lists EXCEPT !.sections = s, !.upgradeable = @ \/ u, !.installed = @ \/ i] \in Lists
    BY <1>1, <2>1, <2>2, Zenon DEF Lists
  <2>4. QED
    BY <1>1, <1>3, <2>3
<1>5. w \in Pointers /\ b \in Pointers
  BY <1>1 DEF Freed, Pointers
<1>6. Points(w, lists') /\ (w = "freed" => merged' > 1)
  <2>1. shown = "freed" => merged > 1
    BY <1>1 DEF PointersLive
  <2>2. \/ lists' = lists /\ merged' = merged /\ w = shown
        \/ /\ lists'.sections = s /\ merged' = merged + 1
           /\ lists.upgradeable => lists'.upgradeable
           /\ lists.installed => lists'.installed
           /\ lists'.results = lists.results
           /\ w = IF Merge(s).freed THEN Freed(shown) ELSE shown
    BY <1>1, <1>3 DEF Lists
  <2> HIDE DEF w
  <2>3. QED
    BY <1>1, <1>4, <1>5, <2>1, <2>2, MergeKeepsPointer
<1>7. Points(b, lists') /\ (b = "freed" => merged' > 1)
  <2>1. background = "freed" => merged > 1
    BY <1>1 DEF PointersLive
  <2>2. \/ lists' = lists /\ merged' = merged /\ b = background
        \/ /\ lists'.sections = s /\ merged' = merged + 1
           /\ lists.upgradeable => lists'.upgradeable
           /\ lists.installed => lists'.installed
           /\ lists'.results = lists.results
           /\ b = IF Merge(s).freed THEN Freed(background) ELSE background
    BY <1>1, <1>3 DEF Lists
  <2> HIDE DEF b
  <2>3. QED
    BY <1>1, <1>4, <1>5, <2>1, <2>2, MergeKeepsPointer
<1>8. /\ view' \in Views
      /\ shown' = w \/ Live(shown', lists')
      /\ background' = b \/ Live(background', lists')
      /\ requests' \in Seq(Kinds) /\ SameWaits(requests', Tail(requests))
  <2>1. CASE view = "main"
    BY <1>1, <1>2, <2>1 DEF ListReply, SameWaits, Views
  <2>2. CASE view # "main"
    <3>1. PICK d \in Shown(view, lists', w, b, Tail(requests)) :
            \/ ToParent(d.shown, d.next, d.sent)
            \/ shown' = d.shown /\ background' = d.next /\ requests' = d.sent /\ UNCHANGED view
      BY <2>2 DEF ListReply
    <3> HIDE DEF w, b
    <3>2. /\ d.shown = w \/ Live(d.shown, lists')
          /\ d.next = b \/ Live(d.next, lists')
          /\ d.sent \in Seq(Kinds) /\ SameWaits(d.sent, Tail(requests))
      BY <1>1, <1>2, <1>4, ShownKeeps
    <3>3. CASE ToParent(d.shown, d.next, d.sent)
      <4>1. /\ view' \in Views
            /\ shown' = d.shown \/ Live(shown', lists')
            /\ background' = d.next \/ Live(background', lists')
            /\ requests' \in Seq(Kinds) /\ SameWaits(requests', d.sent)
        BY <1>1, <1>4, <3>2, <3>3, ToParentKeeps
      <4>2. QED
        BY <3>2, <4>1 DEF SameWaits
    <3>4. CASE shown' = d.shown /\ background' = d.next /\ requests' = d.sent /\ UNCHANGED view
      BY <1>1, <3>2, <3>4
    <3>5. QED
      BY <3>1, <3>3, <3>4
  <2>3. QED
    BY <2>1, <2>2
<1> HIDE DEF w, b
<1>9. ListingTypeOK'
  BY <1>1, <1>2, <1>4, <1>5, <1>8 DEF ListingTypeOK, Live
<1>10. LevelInSync' /\ RetrievingIsAsked'
  <2>1. /\ Count("list") \in Nat /\ Count("search") \in Nat
        /\ Count("list")' = Count("list") - 1 /\ Count("search")' = Count("search")
    BY <1>1, <1>2, <1>8, AnswerTakes
  <2>2. Count("list")' + Count("search")' = Count("list") + Count("search") - 1
    BY <2>1
  <2>3. LevelInSync'
    BY <1>1, <1>2, <2>1, <2>2, OneLessInSync
  <2>4. RetrievingIsAsked'
    BY <1>2 DEF RetrievingIsAsked
  <2>5. QED
    BY <2>3, <2>4
<1>11. Points(shown', lists') /\ Points(background', lists') /\ PointersLive'
  BY <1>6, <1>7, <1>8 DEF Live, PointersLive
<1>12. SectionsMerged'
  BY <1>1, <1>3 DEF SectionsMerged
<1>13. QED
  BY <1>9, <1>10, <1>11, <1>12 DEF ListingIInv, ListingInv

\* The window gets the list of results or none, and so does the background retrieval:
\* an older one is not left with results that were freed.
LEMMA SearchReplyKeeps ==
  ASSUME ListingIInv, NEW answered \in BOOLEAN, NEW found \in BOOLEAN,
         SearchReply(answered, found)
  PROVE  ListingIInv'
<1>1. /\ ListingTypeOK /\ lists \in Lists /\ merged \in Nat
      /\ background \in Pointers /\ requests \in Seq(Kinds) /\ level \in Int /\ timers \in Nat
      /\ Points(shown, lists) /\ Points(background, lists)
      /\ PointersLive /\ SectionsMerged /\ LevelInSync /\ RetrievingIsAsked
  BY DEF ListingIInv, ListingInv, ListingTypeOK
<1>2. /\ requests # << >> /\ Head(requests) = "search" /\ Tail(requests) \in Seq(Kinds)
      /\ level' = level - 1 /\ UNCHANGED <<state, merged, timers, events>>
  BY <1>1, HeadTailProperties DEF SearchReply, Hide
<1>3. lists' \in Lists /\ lists'.sections = lists.sections
  BY <1>1 DEF SearchReply, Lists
<1>4. /\ requests' \in Seq(Kinds) /\ SameWaits(requests', Tail(requests)) /\ view' \in Views
      /\ Points(shown', lists') /\ Points(background', lists')
      /\ shown' \in Pointers /\ background' \in Pointers
      /\ "freed" \in {shown', background'} => "freed" \in {shown, background}
  <2>1. CASE answered
    <3>1. /\ lists' = [lists EXCEPT !.results = found] /\ view' = "search"
          /\ Show("search", lists', "none", background, Tail(requests))
      BY <2>1 DEF SearchReply
    <3>2. "search" \in Views /\ Live("none", lists')
      BY DEF Views, Live, Points, Pointers
    <3>3. /\ shown' = "none" \/ Live(shown', lists')
          /\ Live(background', lists')
          /\ requests' \in Seq(Kinds) /\ SameWaits(requests', Tail(requests))
      BY <1>2, <1>3, <3>1, <3>2, ShowKeeps, SearchShowsRetrieves
    <3>4. QED
      BY <3>1, <3>2, <3>3 DEF Live
  <2>2. CASE ~answered
    BY <1>1, <1>2, <2>2 DEF SearchReply, SameWaits, ListingTypeOK
  <2>3. QED
    BY <2>1, <2>2
<1>5. ListingTypeOK'
  BY <1>1, <1>2, <1>3, <1>4 DEF ListingTypeOK
<1>6. LevelInSync' /\ RetrievingIsAsked'
  <2>1. /\ Count("list") \in Nat /\ Count("search") \in Nat
        /\ Count("list")' = Count("list") /\ Count("search")' = Count("search") - 1
    BY <1>1, <1>2, <1>4, AnswerTakes
  <2>2. Count("list")' + Count("search")' = Count("list") + Count("search") - 1
    BY <2>1
  <2>3. LevelInSync'
    BY <1>1, <1>2, <2>1, <2>2, OneLessInSync
  <2>4. RetrievingIsAsked'
    BY <1>1, <1>2, <2>1 DEF RetrievingIsAsked
  <2>5. QED
    BY <2>3, <2>4
<1>7. PointersLive' /\ SectionsMerged'
  BY <1>1, <1>2, <1>3, <1>4 DEF PointersLive, SectionsMerged
<1>8. QED
  BY <1>4, <1>5, <1>6, <1>7 DEF ListingIInv, ListingInv

LEMMA ListingStep ==
  ASSUME ListingIInv, [ListingNext]_listingVars
  PROVE  ListingIInv'
<1>1. CASE \E v \in Views : OpenView(v)
  BY <1>1, OpenViewKeeps
<1>2. CASE GoBack
  BY <1>2, GoBackKeeps
<1>3. CASE GetPackageList
  BY <1>3, GetPackageListKeeps
<1>4. CASE UpdatingTimeout
  BY <1>4, UpdatingTimeoutKeeps
<1>5. CASE Search
  BY <1>5, SearchKeeps
<1>6. CASE InfoReply
  BY <1>6, InfoReplyKeeps
<1>7. ASSUME NEW answered \in BOOLEAN, NEW u \in BOOLEAN, NEW i \in BOOLEAN,
             NEW s \in {"empty", "few", "one", "many"}, ListReply(answered, s, u, i)
      PROVE  ListingIInv'
  BY <1>7, ListReplyKeeps
<1>8. ASSUME NEW answered \in BOOLEAN, NEW found \in BOOLEAN, SearchReply(answered, found)
      PROVE  ListingIInv'
  BY <1>8, SearchReplyKeeps
<1>9. CASE UNCHANGED listingVars
  BY <1>9
     DEF listingVars, ListingIInv, ListingInv, ListingTypeOK, LevelInSync, RetrievingIsAsked,
         Count, PointersLive, SectionsMerged
<1>10. QED
  BY <1>1, <1>2, <1>3, <1>4, <1>5, <1>6, <1>7, <1>8, <1>9 DEF ListingNext, BackendAnswers

LEMMA ListingAlways == ListingSpec => []ListingIInv
<1>1. ListingInit => ListingIInv
  BY InitListing
<1>2. ListingIInv /\ [ListingNext]_listingVars => ListingIInv'
  BY ListingStep
<1>3. QED
  BY <1>1, <1>2, PTL DEF ListingSpec

\* However the user walks through the views, searches and refreshes while answers are
\* outstanding: the banner's level counts what is still to be answered, nobody waits
\* for a list that was not asked for, and no pointer is into a list that is not there
\* without being known as lost (show_updating, hide_updating, get_package_list_reply,
\* show_view).
THEOREM ListingInvariant == ListingSpec => []ListingInv
<1>1. ListingIInv => ListingInv
  BY DEF ListingIInv
<1>2. QED
  BY <1>1, ListingAlways, PTL

\* A list is freed under the window or under the background retrieval only by a second
\* reply for the same lists: never by get_package_list_with_cont, by a search or by
\* the reply to a single request.
THEOREM LostOnlyToSecondReply == ListingSpec => []PointersLive
<1>1. ListingIInv => PointersLive
  BY DEF ListingIInv
<1>2. QED
  BY <1>1, ListingAlways, PTL

-----------------------------------------------------------------------------
(* The flows of files and removals: the inductive invariant *)

Places == Dialogs \cup Answered \cup {"idle", "instructions", "copy_failed", "abort"}

Uis == [at : Places, file : Files \cup {NoFile}, stack : Seq({"bar", "note", "question"}),
        cont : BOOLEAN, local : BOOLEAN, tasks : Seq(Files \cup {NoFile}),
        silent : SUBSET Files]

\* What is above the main window while a callback is outstanding.
Bare   == {"idle", "instructions", "if_details_reply", "up_checkrm_reply",
           "up_checkrm_cmd_done", "up_remove_with_info"}
Barred == {"copy_progress", "copy_failed", "if_install_reply", "up_remove_reply",
           "up_autoremove_reply"}
Asking == {"iff_with_filename", "if_install", "if_fail", "up_checkrm_start"}
Noting == {"fail_copy_cont", "if_end", "up_end"}

\* Each callback finds the dialogs that its pops expect; the one path on which the
\* progress bar is left under the note is the uninstallation that failed (f).
Nested(u, f) ==
  /\ u.at \in Bare => u.stack = << >>
  /\ u.at \in Barred => u.stack = << "bar" >>
  /\ u.at \in Asking => u.stack = << "question" >>
  /\ u.at \in Noting => \/ u.stack = << "note" >>
                        \/ u.at = "up_end" /\ f /\ u.stack = << "note", "bar" >>

\* Who owns the static variables of the copy, and when the queue is empty.
Kept(u, f) ==
  /\ u \in Uis
  /\ Len(u.tasks) <= MaxTasks
  /\ u.at = "idle" => u.tasks = << >>
  /\ u.cont => u.at \in {"copy_progress", "copy_failed", "fail_copy_cont"}
  /\ u.local => u.at \in {"copy_progress", "copy_failed"}
  /\ u.at \in {"copy_progress", "copy_failed"} => u.cont /\ u.file \in Files
  /\ u.at = "abort" => f
  /\ Nested(u, f)

FlowsIInv ==
  /\ Kept(ui, failed)
  /\ scripts \in 0 .. MaxScripts /\ failed \in BOOLEAN /\ lost \in BOOLEAN

\* A flow between two dialogs, and one that has given its copy back.
Ready(u)   == u \in Uis /\ u.stack = << >> /\ u.at # "abort" /\ Len(u.tasks) <= MaxTasks
Settled(u) == Ready(u) /\ ~u.cont /\ ~u.local

\* All but the callback and the dialogs is as it was.
Same(x, u) ==
  /\ x.file = u.file /\ x.cont = u.cont /\ x.local = u.local
  /\ x.tasks = u.tasks /\ x.silent = u.silent

-----------------------------------------------------------------------------
(* The flows: what the operators on dialogs return *)

LEMMA DialogSequences ==
  ASSUME NEW d \in {"bar", "note", "question"}
  PROVE  /\ << d >> \o << >> = << d >> /\ << d >> \in Seq({"bar", "note", "question"})
         /\ << d >> # << >> /\ Head(<< d >>) = d /\ Tail(<< d >>) = << >>
         /\ << >> \in Seq({"bar", "note", "question"})
  OBVIOUS

LEMMA DialogComes ==
  ASSUME NEW u \in Uis, u.at # "abort", u.stack = << >>, NEW p \in Places
  PROVE  /\ Tell(u, p) \in Uis /\ Tell(u, p).at = p
         /\ Tell(u, p).stack = << "note" >> /\ Same(Tell(u, p), u)
         /\ Ask(u, p) \in Uis /\ Ask(u, p).at = p
         /\ Ask(u, p).stack = << "question" >> /\ Same(Ask(u, p), u)
         /\ Goes(StartEnt(u), p) \in Uis /\ Goes(StartEnt(u), p).at = p
         /\ Goes(StartEnt(u), p).stack = << "bar" >> /\ Same(Goes(StartEnt(u), p), u)
         /\ Goes(u, p) \in Uis /\ Goes(u, p).at = p
         /\ Goes(u, p).stack = << >> /\ Same(Goes(u, p), u)
<1>1. /\ Tell(u, p) = [u EXCEPT !.stack = << "note" >>, !.at = p]
      /\ Ask(u, p) = [u EXCEPT !.stack = << "question" >>, !.at = p]
      /\ Goes(StartEnt(u), p) = [u EXCEPT !.stack = << "bar" >>, !.at = p]
      /\ Goes(u, p) = [u EXCEPT !.at = p]
  BY DialogSequences DEF Tell, Ask, StartEnt, Goes, Uis
<1>2. QED
  BY <1>1, DialogSequences DEF Uis, Same

LEMMA DialogGoes ==
  ASSUME NEW d \in {"bar", "note", "question"}, NEW u \in Uis, u.stack = << d >>
  PROVE  Pop(u, d) \in Uis /\ Pop(u, d).at = u.at /\ Pop(u, d).stack = << >> /\ Same(Pop(u, d), u)
<1>1. Pop(u, d) = [u EXCEPT !.stack = << >>]
  BY DialogSequences DEF Pop, Uis
<1>2. QED
  BY <1>1, DialogSequences DEF Uis, Same

-----------------------------------------------------------------------------
(* The flows: the queue of files, up to its first file chooser *)

\* A set of numbers that is not empty has a smallest one: the intervals that end at
\* its members are ordered by inclusion.
LEMMA SmallestOfSome ==
  ASSUME NEW I \in SUBSET (Nat \ {0}), I # {}
  PROVE  Min(I) \in I /\ \A j \in I : Min(I) <= j
<1> DEFINE Upto == {1 .. i : i \in I}
<1>1. Upto # {} /\ Upto \subseteq FiniteSubsetsOf(Nat)
  <2>1. \A i \in I : 1 .. i \in SUBSET Nat /\ IsFiniteSet(1 .. i)
    BY FS_Interval
  <2>2. QED
    BY <2>1 DEF FiniteSubsetsOf
<1>2. PICK X \in Upto : \A Y \in Upto : <<Y, X>> \notin StrictSubsetOrdering(Nat)
  BY <1>1, FS_StrictSubsetOrderingWellFounded, WFMin
<1>3. PICK i \in I : X = 1 .. i
  OBVIOUS
<1>4. \A j \in I : i <= j
  <2>1. SUFFICES ASSUME NEW j \in I, ~(i <= j) PROVE FALSE
    OBVIOUS
  <2>2. i \in Nat /\ j \in Nat /\ j < i /\ 1 .. j \subseteq 1 .. i /\ i \in 1 .. i /\ i \notin 1 .. j
    BY <2>1
  <2>3. 1 .. j \in Upto /\ 1 .. j \in SUBSET Nat /\ 1 .. i \in SUBSET Nat /\ 1 .. j # 1 .. i
    BY <2>1, <2>2
  <2>4. <<1 .. j, X>> \in StrictSubsetOrdering(Nat)
    BY <1>3, <2>2, <2>3 DEF StrictSubsetOrdering
  <2>5. QED
    BY <1>2, <2>3, <2>4
<1>5. QED
  BY <1>4 DEF Min

\* Where the queue is cut: before its first file chooser there are only files.
LEMMA FirstChooser ==
  ASSUME NEW tasks \in Seq(Files \cup {NoFile})
  PROVE  LET k == SelectInSeq(tasks, IsChooser)
         IN \/ k = 0 /\ \A i \in 1 .. Len(tasks) : tasks[i] \in Files
            \/ /\ k \in 1 .. Len(tasks) /\ tasks[k] = NoFile
               /\ \A i \in 1 .. k - 1 : tasks[i] \in Files
<1> DEFINE I == {i \in 1 .. Len(tasks) : IsChooser(tasks[i])}
           k == SelectInSeq(tasks, IsChooser)
<1>1. k = IF I # {} THEN Min(I) ELSE 0
  BY DEF SelectInSeq
<1>2. Len(tasks) \in Nat /\ \A i \in 1 .. Len(tasks) : tasks[i] \in Files \/ (i \in I /\ tasks[i] = NoFile)
  BY DEF IsChooser
<1>3. CASE I = {}
  BY <1>1, <1>2, <1>3
<1>4. CASE I # {}
  <2>1. I \in SUBSET (Nat \ {0})
    BY <1>2
  <2>2. k \in I /\ \A j \in I : k <= j
    BY <1>1, <1>4, <2>1, SmallestOfSome
  <2>3. k \in 1 .. Len(tasks) /\ tasks[k] = NoFile
    BY <2>2, <1>2 DEF IsChooser
  <2>4. \A i \in 1 .. k - 1 : i \in 1 .. Len(tasks) /\ i \notin I
    <3> HIDE DEF I, k
    <3>1. QED
      BY <1>2, <2>2, <2>3
  <2>5. QED
    BY <1>2, <2>3, <2>4
<1>5. QED
  BY <1>3, <1>4

\* The queue is cut in two: files only, and what begins with the file chooser.
LEMMA QueueIsCut ==
  ASSUME NEW tasks \in Seq(Files \cup {NoFile}), NEW n \in 0 .. Len(tasks),
         \A i \in 1 .. n : tasks[i] \in Files
  PROVE  /\ Range(SubSeq(tasks, 1, n)) \subseteq Files
         /\ SubSeq(tasks, n + 1, Len(tasks)) \in Seq(Files \cup {NoFile})
         /\ Len(SubSeq(tasks, n + 1, Len(tasks))) = Len(tasks) - n
         /\ n = Len(tasks) => SubSeq(tasks, n + 1, Len(tasks)) = << >>
<1>1. Len(tasks) \in Nat /\ n \in Nat
  OBVIOUS
<1>2. SubSeq(tasks, 1, n) \in Seq(Files)
  BY <1>1, SubSeqProperties
<1>3. Range(SubSeq(tasks, 1, n)) \subseteq Files
  BY <1>2 DEF Range
<1>4. \A i \in n + 1 .. Len(tasks) : tasks[i] \in Files \cup {NoFile}
  BY <1>1
<1>5. /\ SubSeq(tasks, n + 1, Len(tasks)) \in Seq(Files \cup {NoFile})
      /\ Len(SubSeq(tasks, n + 1, Len(tasks))) =
           IF n + 1 <= Len(tasks) THEN Len(tasks) - (n + 1) + 1 ELSE 0
  BY <1>1, <1>4, SubSeqProperties
<1>6. Len(SubSeq(tasks, n + 1, Len(tasks))) = Len(tasks) - n
  BY <1>1, <1>5
<1>7. n = Len(tasks) => SubSeq(tasks, n + 1, Len(tasks)) = << >>
  BY <1>1, SubSeqEmpty
<1>8. QED
  BY <1>3, <1>5, <1>6, <1>7

-----------------------------------------------------------------------------
(* The flows: their end, and the next file *)

\* The file chooser comes out of the queue, and goes back to its end.
LEMMA ChooseKeeps ==
  ASSUME NEW u \in Uis, Settled(u), u.tasks # << >>, NEW f \in BOOLEAN
  PROVE  Kept(Choose(u), f)
<1> DEFINE q == Append(Tail(u.tasks), NoFile)
           v == [u EXCEPT !.tasks = q]
<1>1. u.tasks \in Seq(Files \cup {NoFile}) /\ Len(u.tasks) \in Nat /\ Len(u.tasks) <= MaxTasks
  BY DEF Uis, Settled, Ready
<1>2. Tail(u.tasks) \in Seq(Files \cup {NoFile}) /\ Len(Tail(u.tasks)) = Len(u.tasks) - 1
  BY <1>1, HeadTailProperties
<1>3. q \in Seq(Files \cup {NoFile}) /\ Len(q) = Len(u.tasks)
  BY <1>1, <1>2, AppendProperties
<1> HIDE DEF q
<1>4. /\ v \in Uis /\ v.at # "abort" /\ v.stack = << >> /\ ~v.cont /\ ~v.local
      /\ Len(v.tasks) <= MaxTasks
  BY <1>1, <1>3 DEF Uis, Settled, Ready
<1>5. Choose(u) = Ask(v, "iff_with_filename") /\ "iff_with_filename" \in Places
  BY DEF Choose, q, Places, Dialogs
<1> HIDE DEF v
<1>6. /\ Choose(u) \in Uis /\ Choose(u).at = "iff_with_filename"
      /\ Choose(u).stack = << "question" >> /\ Same(Choose(u), v)
  BY <1>4, <1>5, DialogComes
<1>7. QED
  BY <1>4, <1>6 DEF Kept, Nested, Same, Bare, Barred, Asking, Noting

\* The flow that ends inside of copy_cont gives up files, and stops at a file chooser
\* or with an empty queue.
LEMMA EndInsideKeeps ==
  ASSUME NEW u \in Uis, Ready(u), NEW f \in BOOLEAN
  PROVE  Kept(EndInside(u), f)
<1> DEFINE k == SelectInSeq(u.tasks, IsChooser)
           n == IF k = 0 THEN Len(u.tasks) ELSE k - 1
           given == Range(SubSeq(u.tasks, 1, n))
           left == SubSeq(u.tasks, n + 1, Len(u.tasks))
           v == [CleanUp(u) EXCEPT !.at = "idle", !.file = NoFile, !.cont = FALSE,
                                   !.silent = @ \cup given, !.tasks = left]
<1>1. u.tasks \in Seq(Files \cup {NoFile}) /\ Len(u.tasks) \in Nat /\ Len(u.tasks) <= MaxTasks
  BY DEF Uis, Ready
<1>2. \/ k = 0 /\ \A i \in 1 .. Len(u.tasks) : u.tasks[i] \in Files
      \/ /\ k \in 1 .. Len(u.tasks) /\ u.tasks[k] = NoFile
         /\ \A i \in 1 .. k - 1 : u.tasks[i] \in Files
  BY <1>1, FirstChooser
<1>3. EndInside(u) = IF k = 0 THEN v ELSE Choose(v)
  <2>1. CleanUp(u).tasks = u.tasks
    BY DEF CleanUp, Uis
  <2>2. ~(u.stack # << >> \/ u.at = "abort")
    BY DEF Ready
  <2>3. QED
    BY <2>1, <2>2, Zenon DEF EndInside
<1> HIDE DEF k
<1>4. n \in 0 .. Len(u.tasks) /\ \A i \in 1 .. n : u.tasks[i] \in Files
  BY <1>1, <1>2
<1>5. given \subseteq Files /\ left \in Seq(Files \cup {NoFile})
  BY <1>1, <1>4, QueueIsCut
<1>6. Len(left) = Len(u.tasks) - n /\ (n = Len(u.tasks) => left = << >>)
  BY <1>1, <1>4, QueueIsCut
<1>7. k # 0 => left # << >>
  <2>1. k # 0 => Len(left) > 0
    BY <1>1, <1>2, <1>6
  <2> HIDE DEF left
  <2>2. QED
    BY <2>1
<1>8. Len(left) <= MaxTasks
  BY <1>1, <1>4, <1>6, FilesAssumption
<1>9. "idle" \in Places
  BY DEF Places
<1> HIDE DEF given, left
<1>10. /\ v \in Uis /\ v.at = "idle" /\ v.stack = << >> /\ v.cont = FALSE /\ v.local = FALSE
       /\ v.tasks = left
  BY <1>5, <1>9 DEF Uis, Ready, CleanUp
<1> HIDE DEF v
<1>11. CASE k = 0
  <2>1. left = << >>
    BY <1>6, <1>11
  <2>2. QED
    BY <1>3, <1>8, <1>10, <1>11, <2>1 DEF Kept, Nested, Bare, Barred, Asking, Noting
<1>12. CASE k # 0
  <2>1. Settled(v) /\ v.tasks # << >>
    BY <1>7, <1>8, <1>10, <1>12 DEF Settled, Ready
  <2>2. QED
    BY <1>3, <1>10, <1>12, <2>1, ChooseKeeps
<1>13. QED
  BY <1>11, <1>12

LEMMA InstallFileKeeps ==
  ASSUME NEW u \in Uis, Settled(u), NEW g \in Files, NEW f \in BOOLEAN,
         NEW x \in InstallFile(u, g)
  PROVE  Kept(x, f)
<1> DEFINE v == [u EXCEPT !.file = g]
           w == [v EXCEPT !.cont = TRUE]
           c == [w EXCEPT !.local = TRUE]
<1>1. /\ v \in Uis /\ v.at # "abort" /\ v.stack = << >> /\ v.file = g
      /\ Len(v.tasks) <= MaxTasks /\ v.cont = FALSE /\ v.local = FALSE
  BY DEF Uis, Settled, Ready
<1>2. /\ w \in Uis /\ w.at # "abort" /\ w.stack = << >> /\ w.file = g
      /\ Len(w.tasks) <= MaxTasks /\ w.cont = TRUE /\ w.local = FALSE
  BY DEF Uis, Settled, Ready
<1>3. /\ c \in Uis /\ c.at # "abort" /\ c.stack = << >> /\ c.file = g
      /\ Len(c.tasks) <= MaxTasks /\ c.cont = TRUE /\ c.local = TRUE
  BY DEF Uis, Settled, Ready
<1>4. \/ x = Tell(w, "fail_copy_cont")
      \/ x = Goes(StartEnt(c), "copy_progress")
      \/ x = Goes(v, "instructions")
      \/ x = EndInside(v)
      \/ x = Goes(v, "if_details_reply")
  BY DEF InstallFile
<1>5. {"fail_copy_cont", "copy_progress", "instructions", "if_details_reply"} \subseteq Places
  BY DEF Places, Dialogs, Answered
<1> HIDE DEF v, w, c
<1>6. CASE x = Tell(w, "fail_copy_cont")
  <2>1. x \in Uis /\ x.at = "fail_copy_cont" /\ x.stack = << "note" >> /\ Same(x, w)
    BY <1>2, <1>5, <1>6, DialogComes
  <2>2. QED
    BY <1>2, <2>1 DEF Kept, Nested, Same, Bare, Barred, Asking, Noting
<1>7. CASE x = Goes(StartEnt(c), "copy_progress")
  <2>1. x \in Uis /\ x.at = "copy_progress" /\ x.stack = << "bar" >> /\ Same(x, c)
    BY <1>3, <1>5, <1>7, DialogComes
  <2>2. QED
    BY <1>3, <2>1 DEF Kept, Nested, Same, Bare, Barred, Asking, Noting
<1>8. ASSUME NEW p \in {"instructions", "if_details_reply"}, x = Goes(v, p)
      PROVE  Kept(x, f)
  <2>1. x \in Uis /\ x.at = p /\ x.stack = << >> /\ Same(x, v)
    BY <1>1, <1>5, <1>8, DialogComes
  <2>2. QED
    BY <1>1, <2>1 DEF Kept, Nested, Same, Bare, Barred, Asking, Noting
<1>9. CASE x = EndInside(v)
  BY <1>1, <1>9, EndInsideKeeps DEF Ready
<1>10. QED
  BY <1>4, <1>6, <1>7, <1>8, <1>9

\* The end of a flow that has given its copy back, with the next file if there is one.
LEMMA EndFlowKeeps ==
  ASSUME NEW u \in Uis, Settled(u), NEW f \in BOOLEAN, NEW x \in EndFlow(u)
  PROVE  Kept(x, f)
<1> DEFINE v == [u EXCEPT !.at = "idle", !.file = NoFile]
<1>1. /\ v \in Uis /\ v.at = "idle" /\ v.stack = << >> /\ v.cont = FALSE /\ v.local = FALSE
      /\ v.tasks = u.tasks /\ v.tasks \in Seq(Files \cup {NoFile})
      /\ Len(v.tasks) \in Nat /\ Len(v.tasks) <= MaxTasks
  <2>1. "idle" \in Places
    BY DEF Places
  <2>2. /\ u.stack = << >> /\ ~u.cont /\ ~u.local /\ Len(u.tasks) <= MaxTasks
        /\ u.tasks \in Seq(Files \cup {NoFile})
    BY DEF Uis, Settled, Ready
  <2>3. /\ v \in Uis /\ v.at = "idle" /\ v.stack = u.stack /\ v.cont = u.cont
        /\ v.local = u.local /\ v.tasks = u.tasks
    BY <2>1 DEF Uis
  <2> HIDE DEF v
  <2>4. v.cont = FALSE /\ v.local = FALSE
    BY <2>2, <2>3
  <2>5. Len(v.tasks) \in Nat
    BY <2>2, <2>3
  <2>6. QED
    BY <2>2, <2>3, <2>4, <2>5
<1>2. x \in Consume(v)
  BY DEF EndFlow, Settled, Ready
<1> HIDE DEF v
<1>3. Settled(v)
  BY <1>1 DEF Settled, Ready
<1>4. CASE v.tasks = << >>
  <2>1. x = v
    BY <1>2, <1>4 DEF Consume
  <2>2. QED
    BY <1>1, <1>4, <2>1 DEF Kept, Nested, Bare, Barred, Asking, Noting
<1>5. CASE v.tasks # << >> /\ Head(v.tasks) = NoFile
  BY <1>1, <1>2, <1>3, <1>5, ChooseKeeps DEF Consume
<1>6. CASE v.tasks # << >> /\ Head(v.tasks) # NoFile
  <2> DEFINE w == [v EXCEPT !.tasks = Tail(@)]
  <2>1. /\ Head(v.tasks) \in Files /\ Tail(v.tasks) \in Seq(Files \cup {NoFile})
        /\ Len(Tail(v.tasks)) = Len(v.tasks) - 1
    BY <1>1, <1>6, HeadTailProperties
  <2>2. w \in Uis /\ Settled(w)
    <3>1. w \in Uis
      BY <1>1, <2>1 DEF Uis
    <3>2. w.stack = << >> /\ w.at = "idle" /\ w.cont = FALSE /\ w.local = FALSE /\ w.tasks = Tail(v.tasks)
      BY <1>1 DEF Uis
    <3> HIDE DEF w
    <3>3. Len(w.tasks) <= MaxTasks
      BY <1>1, <2>1, <3>2, FilesAssumption
    <3>4. QED
      BY <3>1, <3>2, <3>3 DEF Settled, Ready
  <2>3. x \in InstallFile(w, Head(v.tasks))
    BY <1>2, <1>6 DEF Consume
  <2> HIDE DEF w
  <2>4. QED
    BY <2>1, <2>2, <2>3, InstallFileKeeps
<1>7. QED
  BY <1>4, <1>5, <1>6

\* if_end cleans the copy up first.
LEMMA IfEndKeeps ==
  ASSUME NEW u \in Uis, Ready(u), ~u.cont, NEW f \in BOOLEAN, NEW x \in IfEnd(u)
  PROVE  Kept(x, f)
<1>1. CleanUp(u) \in Uis /\ Settled(CleanUp(u))
  BY DEF CleanUp, Uis, Settled, Ready
<1>2. QED
  BY <1>1, EndFlowKeeps DEF IfEnd

-----------------------------------------------------------------------------
(* The flows: what their steps have in common *)

LEMMA PoppedIsReady ==
  ASSUME NEW u, NEW f \in BOOLEAN, Kept(u, f), u.at # "abort",
         NEW d \in {"bar", "note", "question"}, u.stack = << d >>
  PROVE  Ready(Pop(u, d)) /\ Pop(u, d) \in Uis /\ Pop(u, d).at = u.at /\ Same(Pop(u, d), u)
<1>1. Pop(u, d) \in Uis /\ Pop(u, d).at = u.at /\ Pop(u, d).stack = << >> /\ Same(Pop(u, d), u)
  BY DialogGoes DEF Kept
<1>2. QED
  BY <1>1 DEF Ready, Kept, Same

\* Outside of a copy, each dialog takes the flow to a callback that knows of it.
LEMMA NextDialogKeeps ==
  ASSUME NEW u \in Uis, Settled(u), NEW f \in BOOLEAN
  PROVE  /\ \A p \in {"if_end", "up_end"} : Kept(Tell(u, p), f)
         /\ \A p \in Asking : Kept(Ask(u, p), f)
         /\ \A p \in {"if_install_reply", "up_remove_reply"} : Kept(Goes(StartEnt(u), p), f)
         /\ \A p \in Bare \ {"idle"} : Kept(Goes(u, p), f)
<1>1. /\ u.at # "abort" /\ u.stack = << >> /\ ~u.cont /\ ~u.local /\ Len(u.tasks) <= MaxTasks
  BY DEF Settled, Ready
<1>2. {"if_end", "up_end", "if_install_reply", "up_remove_reply"} \cup Asking \cup Bare \subseteq Places
  BY DEF Places, Dialogs, Answered, Asking, Bare
<1>3. ASSUME NEW p \in {"if_end", "up_end"} PROVE Kept(Tell(u, p), f)
  <2>1. /\ Tell(u, p) \in Uis /\ Tell(u, p).at = p /\ Tell(u, p).stack = << "note" >>
        /\ Same(Tell(u, p), u)
    BY <1>1, <1>2, DialogComes
  <2>2. QED
    BY <1>1, <2>1 DEF Kept, Nested, Same, Bare, Barred, Asking, Noting
<1>4. ASSUME NEW p \in Asking PROVE Kept(Ask(u, p), f)
  <2>1. /\ Ask(u, p) \in Uis /\ Ask(u, p).at = p /\ Ask(u, p).stack = << "question" >>
        /\ Same(Ask(u, p), u)
    BY <1>1, <1>2, DialogComes
  <2>2. QED
    BY <1>1, <2>1 DEF Kept, Nested, Same, Bare, Barred, Asking, Noting
<1>5. ASSUME NEW p \in {"if_install_reply", "up_remove_reply"}
      PROVE  Kept(Goes(StartEnt(u), p), f)
  <2> DEFINE x == Goes(StartEnt(u), p)
  <2>1. x \in Uis /\ x.at = p /\ x.stack = << "bar" >> /\ Same(x, u)
    BY <1>1, <1>2, DialogComes
  <2> HIDE DEF x
  <2>2. Kept(x, f)
    BY <1>1, <2>1 DEF Kept, Nested, Same, Bare, Barred, Asking, Noting
  <2>3. QED
    BY <2>2 DEF x
<1>6. ASSUME NEW p \in Bare \ {"idle"} PROVE Kept(Goes(u, p), f)
  <2>1. Goes(u, p) \in Uis /\ Goes(u, p).at = p /\ Goes(u, p).stack = << >> /\ Same(Goes(u, p), u)
    BY <1>1, <1>2, DialogComes
  <2>2. QED
    BY <1>1, <2>1 DEF Kept, Nested, Same, Bare, Barred, Asking, Noting
<1>7. QED
  BY <1>3, <1>4, <1>5, <1>6

\* What each callback finds.
LEMMA Found ==
  ASSUME FlowsIInv
  PROVE  /\ ui \in Uis /\ failed \in BOOLEAN /\ lost \in BOOLEAN /\ Kept(ui, failed)
         /\ ui.at \in Bare => Settled(ui)
         /\ ui.at \in {"if_install_reply", "up_remove_reply", "up_autoremove_reply"} =>
              Settled(Pop(ui, "bar")) /\ Pop(ui, "bar") \in Uis
         /\ ui.at \in Asking => Settled(Pop(ui, "question")) /\ Pop(ui, "question") \in Uis
         /\ ui.at = "if_end" => Settled(Pop(ui, "note")) /\ Pop(ui, "note") \in Uis
<1>1. ui \in Uis /\ failed \in BOOLEAN /\ lost \in BOOLEAN /\ Kept(ui, failed)
  BY DEF FlowsIInv, Kept
<1>2. ui.at \in Bare => Settled(ui)
  BY <1>1 DEF Kept, Nested, Bare, Settled, Ready
<1>3. ASSUME ui.at \in {"if_install_reply", "up_remove_reply", "up_autoremove_reply"}
      PROVE  Settled(Pop(ui, "bar")) /\ Pop(ui, "bar") \in Uis
  <2>1. ui.stack = << "bar" >> /\ ~ui.cont /\ ~ui.local
    BY <1>1, <1>3 DEF Kept, Nested, Barred
  <2>2. QED
    BY <1>1, <1>3, <2>1, PoppedIsReady DEF Settled, Same
<1>4. ASSUME ui.at \in Asking
      PROVE  Settled(Pop(ui, "question")) /\ Pop(ui, "question") \in Uis
  <2>1. ui.stack = << "question" >> /\ ~ui.cont /\ ~ui.local /\ ui.at # "abort"
    BY <1>1, <1>4 DEF Kept, Nested, Asking
  <2>2. QED
    BY <1>1, <2>1, PoppedIsReady DEF Settled, Same
<1>5. ASSUME ui.at = "if_end"
      PROVE  Settled(Pop(ui, "note")) /\ Pop(ui, "note") \in Uis
  <2>1. ui.stack = << "note" >> /\ ~ui.cont /\ ~ui.local /\ ui.at # "abort"
    BY <1>1, <1>5 DEF Kept, Nested, Noting
  <2>2. QED
    BY <1>1, <2>1, PoppedIsReady DEF Settled, Same
<1>6. QED
  BY <1>1, <1>2, <1>3, <1>4, <1>5

-----------------------------------------------------------------------------
(* The flows: UNINSTALL_PACKAGE *)

LEMMA UninstallStartKeeps ==
  ASSUME FlowsIInv, UninstallPackageFlow
  PROVE  FlowsIInv'
<1>1. ui.at \in Bare /\ "up_checkrm_start" \in Asking
  BY DEF UninstallPackageFlow, Bare, Asking
<1>2. Kept(Ask(ui, "up_checkrm_start"), FALSE)
  BY <1>1, Found, NextDialogKeeps
<1>3. QED
  BY <1>2 DEF UninstallPackageFlow, FlowsIInv

LEMMA UpCheckrmStartKeeps ==
  ASSUME FlowsIInv, UpCheckrmStart
  PROVE  FlowsIInv'
<1> DEFINE u == Pop(ui, "question")
<1>1. u \in Uis /\ Settled(u) /\ failed \in BOOLEAN
  BY Found DEF UpCheckrmStart, At, Asking
<1>2. ui' = Goes(u, "up_checkrm_reply") \/ ui' \in EndFlow(u)
  BY DEF UpCheckrmStart
<1> HIDE DEF u
<1>3. "up_checkrm_reply" \in Bare \ {"idle"}
  BY DEF Bare
<1>4. Kept(ui', failed)
  BY <1>1, <1>2, <1>3, NextDialogKeeps, EndFlowKeeps
<1>5. QED
  BY <1>4 DEF UpCheckrmStart, rest, FlowsIInv

\* One script less, or the request for what is to be removed.
LEMMA CheckrmLoopKeeps ==
  ASSUME FlowsIInv, ui.at \in Bare, NEW n \in 0 .. MaxScripts, CheckrmLoop(ui, n),
         UNCHANGED <<failed, lost>>
  PROVE  FlowsIInv'
<1>1. ui \in Uis /\ Settled(ui) /\ failed \in BOOLEAN /\ lost \in BOOLEAN
  BY Found
<1>2. {"up_checkrm_cmd_done", "up_remove_with_info"} \subseteq Bare \ {"idle"}
  BY DEF Bare
<1>3. Kept(ui', failed)
  BY <1>1, <1>2, NextDialogKeeps DEF CheckrmLoop
<1>4. scripts' \in 0 .. MaxScripts
  BY FilesAssumption DEF CheckrmLoop
<1>5. QED
  BY <1>1, <1>3, <1>4 DEF FlowsIInv

LEMMA UpCheckrmReplyKeeps ==
  ASSUME FlowsIInv, UpCheckrmReply
  PROVE  FlowsIInv'
<1>1. /\ ui.at \in Bare /\ ui \in Uis /\ Settled(ui) /\ failed \in BOOLEAN
      /\ UNCHANGED <<failed, lost>>
  BY Found DEF UpCheckrmReply, At, Bare
<1>2. CASE ui' \in EndFlow(ui) /\ scripts' = scripts
  BY <1>1, <1>2, EndFlowKeeps DEF FlowsIInv
<1>3. CASE \E n \in 0 .. MaxScripts : CheckrmLoop(ui, n)
  BY <1>1, <1>3, CheckrmLoopKeeps
<1>4. QED
  BY <1>2, <1>3 DEF UpCheckrmReply

LEMMA UpCheckrmCmdDoneKeeps ==
  ASSUME FlowsIInv, UpCheckrmCmdDone
  PROVE  FlowsIInv'
<1>1. /\ ui.at \in Bare /\ ui \in Uis /\ Settled(ui) /\ failed \in BOOLEAN
      /\ UNCHANGED <<failed, lost>> /\ scripts \in 0 .. MaxScripts
  BY Found DEF UpCheckrmCmdDone, At, Bare, FlowsIInv
<1>2. CASE ui' = Tell(ui, "up_end") /\ scripts' = 0
  BY <1>1, <1>2, NextDialogKeeps, FilesAssumption DEF FlowsIInv
<1>3. CASE CheckrmLoop(ui, scripts)
  BY <1>1, <1>3, CheckrmLoopKeeps
<1>4. QED
  BY <1>2, <1>3 DEF UpCheckrmCmdDone

LEMMA UpRemoveWithInfoKeeps ==
  ASSUME FlowsIInv, UpRemoveWithInfo
  PROVE  FlowsIInv'
<1>1. ui \in Uis /\ Settled(ui) /\ failed \in BOOLEAN
  BY Found DEF UpRemoveWithInfo, At, Bare
<1>2. Kept(ui', failed)
  BY <1>1, NextDialogKeeps DEF UpRemoveWithInfo
<1>3. QED
  BY <1>2 DEF UpRemoveWithInfo, rest, FlowsIInv

\* The progress bar stays until the packages that nobody needs are gone as well;
\* if the removal fails, it stays under the note.
LEMMA UpRemoveReplyKeeps ==
  ASSUME FlowsIInv, UpRemoveReply
  PROVE  FlowsIInv'
<1>1. /\ ui \in Uis /\ failed \in BOOLEAN /\ Kept(ui, failed) /\ ui.at = "up_remove_reply"
      /\ Settled(Pop(ui, "bar")) /\ Pop(ui, "bar") \in Uis /\ UNCHANGED <<scripts, lost>>
  BY Found DEF UpRemoveReply, At
<1>2. /\ ui.stack = << "bar" >> /\ ~ui.cont /\ ~ui.local /\ Len(ui.tasks) <= MaxTasks
  BY <1>1 DEF Kept, Nested, Barred
<1>3. CASE ui' \in EndFlow(StopEnt(ui)) /\ failed' = failed
  BY <1>1, <1>3, EndFlowKeeps DEF StopEnt, FlowsIInv
<1>4. CASE ui' = Goes(ui, "up_autoremove_reply") /\ failed' = failed
  <2>1. ui' = [ui EXCEPT !.at = "up_autoremove_reply"]
    BY <1>1, <1>4 DEF Goes
  <2>2. "up_autoremove_reply" \in Places
    BY DEF Places, Answered
  <2>3. /\ ui' \in Uis /\ ui'.at = "up_autoremove_reply" /\ ui'.stack = ui.stack
        /\ Same(ui', ui)
    BY <1>1, <2>1, <2>2 DEF Uis, Same
  <2>4. Kept(ui', failed)
    BY <1>2, <2>3 DEF Kept, Nested, Same, Bare, Barred, Asking, Noting
  <2>5. QED
    BY <1>1, <1>4, <2>4 DEF FlowsIInv
<1>5. CASE ui' = Tell(ui, "up_end") /\ failed' = TRUE
  <2>1. << "note" >> \o << "bar" >> = << "note", "bar" >>
    <3> DEFINE Parts == {"bar", "note", "question"}
    <3>1. << "note" >> \in Seq(Parts) /\ << "bar" >> \in Seq(Parts) /\ << "note", "bar" >> \in Seq(Parts)
      OBVIOUS
    <3>2. /\ << "note" >> \o << "bar" >> \in Seq(Parts)
          /\ Len(<< "note" >> \o << "bar" >>) = 2
          /\ (<< "note" >> \o << "bar" >>)[1] = "note"
          /\ (<< "note" >> \o << "bar" >>)[2] = "bar"
      BY <3>1, ConcatProperties
    <3>3. Len(<< "note", "bar" >>) = 2
      OBVIOUS
    <3>4. \A i \in 1 .. 2 : (<< "note" >> \o << "bar" >>)[i] = << "note", "bar" >>[i]
      BY <3>2
    <3>5. QED
      BY <3>1, <3>2, <3>3, <3>4, SeqEqual
  <2>2. ui' = [ui EXCEPT !.stack = << "note", "bar" >>, !.at = "up_end"]
    BY <1>1, <1>2, <1>5, <2>1 DEF Tell, Goes, Uis
  <2>3. "up_end" \in Places /\ << "note", "bar" >> \in Seq({"bar", "note", "question"})
    BY DEF Places, Dialogs
  <2>4. /\ ui' \in Uis /\ ui'.at = "up_end" /\ ui'.stack = << "note", "bar" >> /\ Same(ui', ui)
    BY <1>1, <2>2, <2>3 DEF Uis, Same
  <2>5. Kept(ui', TRUE)
    BY <1>2, <2>4 DEF Kept, Nested, Same, Bare, Barred, Asking, Noting
  <2>6. QED
    BY <1>1, <1>5, <2>5 DEF FlowsIInv
<1>6. QED
  BY <1>3, <1>4, <1>5 DEF UpRemoveReply

LEMMA UpAutoremoveReplyKeeps ==
  ASSUME FlowsIInv, UpAutoremoveReply
  PROVE  FlowsIInv'
<1>1. Pop(ui, "bar") \in Uis /\ Settled(Pop(ui, "bar")) /\ failed \in BOOLEAN
  BY Found DEF UpAutoremoveReply, At
<1>2. Kept(ui', failed)
  BY <1>1, NextDialogKeeps, EndFlowKeeps DEF UpAutoremoveReply, StopEnt
<1>3. QED
  BY <1>2 DEF UpAutoremoveReply, rest, FlowsIInv

\* If the note is on top of the progress bar, the assertion of the end fails: this is
\* the one way to "abort".
LEMMA UpEndKeeps ==
  ASSUME FlowsIInv, UpEnd
  PROVE  FlowsIInv'
<1>1. /\ ui \in Uis /\ failed \in BOOLEAN /\ Kept(ui, failed) /\ ui.at = "up_end"
      /\ ui' \in EndFlow(Pop(ui, "note")) /\ UNCHANGED rest
  BY Found DEF UpEnd, At
<1>2. ~ui.cont /\ ~ui.local /\ Len(ui.tasks) <= MaxTasks
  BY <1>1 DEF Kept
<1>3. CASE ui.stack = << "note" >>
  <2>1. Settled(Pop(ui, "note")) /\ Pop(ui, "note") \in Uis
    BY <1>1, <1>2, <1>3, PoppedIsReady DEF Settled, Same
  <2>2. Kept(ui', failed)
    BY <1>1, <2>1, EndFlowKeeps
  <2>3. QED
    BY <1>1, <2>2 DEF FlowsIInv, rest
<1>4. CASE failed /\ ui.stack = << "note", "bar" >>
  <2>1. /\ Head(<< "note", "bar" >>) = "note" /\ << "note", "bar" >> # << >>
        /\ Tail(<< "note", "bar" >>) = << "bar" >>
    OBVIOUS
  <2>2. Pop(ui, "note") = [ui EXCEPT !.stack = << "bar" >>]
    BY <1>4, <2>1 DEF Pop
  <2>3. Pop(ui, "note").stack # << >>
    BY <1>1, <2>2, DialogSequences DEF Uis
  <2>4. ui' = [Pop(ui, "note") EXCEPT !.at = "abort"]
    BY <1>1, <2>3 DEF EndFlow, Gone
  <2>5. "abort" \in Places /\ << "bar" >> \in Seq({"bar", "note", "question"})
    BY DialogSequences DEF Places
  <2>6. ui' \in Uis /\ ui'.at = "abort" /\ Same(ui', ui)
    BY <1>1, <2>2, <2>4, <2>5 DEF Uis, Same
  <2>7. Kept(ui', failed)
    BY <1>2, <1>4, <2>6 DEF Kept, Nested, Same, Bare, Barred, Asking, Noting
  <2>8. QED
    BY <1>1, <2>7 DEF FlowsIInv, rest
<1>5. QED
  BY <1>1, <1>3, <1>4 DEF Kept, Nested, Noting

-----------------------------------------------------------------------------
(* The flows: INSTALL_FILE and its queue *)

\* A file that another program opens waits while there is a flow; a flow is ended by
\* nobody else, so the queue is empty when there is none.
LEMMA InstallFromFileKeeps ==
  ASSUME FlowsIInv, NEW g \in Files \cup {NoFile}, InstallFromFile(g)
  PROVE  FlowsIInv'
<1>1. /\ ui \in Uis /\ failed \in BOOLEAN /\ Kept(ui, failed) /\ ui.at # "abort"
      /\ UNCHANGED rest
  BY Found DEF InstallFromFile, Running
<1>2. CASE ui.at = "idle"
  <2>1. Settled(ui) /\ "iff_with_filename" \in Asking
    BY <1>2, Found DEF Bare, Asking
  <2>2. CASE g = NoFile
    BY <1>1, <1>2, <2>1, <2>2, NextDialogKeeps DEF InstallFromFile, rest, FlowsIInv
  <2>3. CASE g # NoFile
    BY <1>1, <1>2, <2>1, <2>3, InstallFileKeeps DEF InstallFromFile, rest, FlowsIInv
  <2>4. QED
    BY <2>2, <2>3
<1>3. CASE ui.at # "idle"
  <2>1. ui' = [ui EXCEPT !.tasks = Append(ui.tasks, g)] /\ Len(ui.tasks) < MaxTasks
    BY <1>3 DEF InstallFromFile
  <2>2. ui.tasks \in Seq(Files \cup {NoFile}) /\ Len(ui.tasks) \in Nat
    BY <1>1 DEF Uis
  <2>3. /\ Append(ui.tasks, g) \in Seq(Files \cup {NoFile})
        /\ Len(Append(ui.tasks, g)) <= MaxTasks
    BY <2>1, <2>2, AppendProperties, FilesAssumption
  <2>4. /\ ui' \in Uis /\ Len(ui'.tasks) <= MaxTasks /\ ui'.at = ui.at /\ ui'.stack = ui.stack
        /\ ui'.file = ui.file /\ ui'.cont = ui.cont /\ ui'.local = ui.local
    BY <1>1, <2>1, <2>3 DEF Uis
  <2>5. Kept(ui', failed)
    BY <1>1, <1>3, <2>4 DEF Kept, Nested
  <2>6. QED
    BY <1>1, <2>5 DEF FlowsIInv, rest
<1>4. QED
  BY <1>2, <1>3

LEMMA IffWithFilenameKeeps ==
  ASSUME FlowsIInv, IffWithFilename
  PROVE  FlowsIInv'
<1> DEFINE u == Pop(ui, "question")
<1>1. u \in Uis /\ Settled(u) /\ failed \in BOOLEAN
  BY Found DEF IffWithFilename, At, Asking
<1>2. ui' \in EndFlow(u) \/ \E g \in Files : ui' \in InstallFile(u, g)
  BY DEF IffWithFilename
<1> HIDE DEF u
<1>3. Kept(ui', failed)
  BY <1>1, <1>2, EndFlowKeeps, InstallFileKeeps
<1>4. QED
  BY <1>3 DEF IffWithFilename, rest, FlowsIInv

\* The copy is over: the flow ends inside of copy_cont, or tells of the failure first.
LEMMA CopyOverKeeps ==
  ASSUME FlowsIInv, ui.at \in {"copy_progress", "copy_failed"}, CopyOver,
         UNCHANGED <<scripts, failed, lost>>
  PROVE  FlowsIInv'
<1> DEFINE u == CleanUp(StopEnt(ui))
           v == [u EXCEPT !.silent = @ \cup {u.file}]
<1>1. /\ ui \in Uis /\ failed \in BOOLEAN /\ Kept(ui, failed)
      /\ ui.at \in {"copy_progress", "copy_failed"}
  BY Found
<1>2. ui.stack = << "bar" >> /\ ui.cont = TRUE /\ ui.file \in Files /\ Len(ui.tasks) <= MaxTasks
  BY <1>1 DEF Kept, Nested, Barred, Uis
<1>3. /\ StopEnt(ui) \in Uis /\ StopEnt(ui).at = ui.at /\ StopEnt(ui).stack = << >>
      /\ Same(StopEnt(ui), ui)
  BY <1>1, <1>2, DialogGoes DEF StopEnt
<1>4. /\ u \in Uis /\ u.at \in {"copy_progress", "copy_failed"} /\ u.stack = << >>
      /\ u.cont = TRUE /\ u.local = FALSE /\ u.file \in Files /\ Len(u.tasks) <= MaxTasks
  BY <1>1, <1>2, <1>3 DEF CleanUp, Uis, Same
<1>5. ui' = EndInside(v) \/ ui' = Tell(u, "fail_copy_cont")
  BY DEF CopyOver
<1> HIDE DEF u
<1>6. v \in Uis /\ Ready(v)
  BY <1>4 DEF Uis, Ready
<1> HIDE DEF v
<1>7. ASSUME ui' = EndInside(v) PROVE Kept(ui', failed)
  BY <1>1, <1>6, <1>7, EndInsideKeeps
<1>8. ASSUME ui' = Tell(u, "fail_copy_cont") PROVE Kept(ui', failed)
  <2>1. "fail_copy_cont" \in Places
    BY DEF Places, Dialogs
  <2>2. /\ ui' \in Uis /\ ui'.at = "fail_copy_cont" /\ ui'.stack = << "note" >>
        /\ Same(ui', u)
    BY <1>4, <1>8, <2>1, DialogComes
  <2>3. QED
    BY <1>1, <1>4, <2>2 DEF Kept, Nested, Same, Bare, Barred, Asking, Noting
<1>9. Kept(ui', failed)
  BY <1>5, <1>7, <1>8
<1>10. QED
  BY <1>9 DEF FlowsIInv

LEMMA CopyProgressKeeps ==
  ASSUME FlowsIInv, CopyProgress
  PROVE  FlowsIInv'
  BY CopyOverKeeps DEF CopyProgress, At

\* A late report: of the failed copy, or of none.
LEMMA LateProgressKeeps ==
  ASSUME FlowsIInv, LateProgress
  PROVE  FlowsIInv' \/ again' = "came"
  BY CopyOverKeeps DEF LateProgress, At

\* Without one there is no note outside of a flow.
LEMMA NoLateNote ==
  ASSUME FlowsIInv
  PROVE  ~LateNote
<1>1. ui \in Uis /\ ui.stack \in Seq({"bar", "note", "question"})
  BY Found DEF Uis
<1>2. ui.stack # << >> => Head(ui.stack) \in {"bar", "note", "question"}
  BY <1>1
<1>3. QED
  BY <1>2 DEF LateNote

LEMMA CopyFailsKeeps ==
  ASSUME FlowsIInv, CopyFails
  PROVE  FlowsIInv'
<1>1. /\ ui \in Uis /\ failed \in BOOLEAN /\ Kept(ui, failed) /\ ui.at = "copy_progress"
  BY Found DEF CopyFails, At
<1>2. ui' = [ui EXCEPT !.at = "copy_failed"] /\ "copy_failed" \in Places
  BY <1>1 DEF CopyFails, Goes, Places
<1>3. ui' \in Uis /\ ui'.at = "copy_failed" /\ ui'.stack = ui.stack /\ Same(ui', ui)
  BY <1>1, <1>2 DEF Uis, Same
<1>4. Kept(ui', failed)
  BY <1>1, <1>3 DEF Kept, Nested, Same, Bare, Barred, Asking, Noting
<1>5. QED
  BY <1>4 DEF CopyFails, rest, FlowsIInv

LEMMA FailCopyContKeeps ==
  ASSUME FlowsIInv, FailCopyCont
  PROVE  FlowsIInv'
<1>1. /\ ui \in Uis /\ failed \in BOOLEAN /\ Kept(ui, failed) /\ ui.at = "fail_copy_cont"
  BY Found DEF FailCopyCont, At
<1>2. ui.stack = << "note" >>
  BY <1>1 DEF Kept, Nested, Noting
<1>3. Ready(Pop(ui, "note")) /\ Pop(ui, "note") \in Uis
  BY <1>1, <1>2, PoppedIsReady
<1>4. Kept(ui', failed)
  BY <1>1, <1>3, EndInsideKeeps DEF FailCopyCont
<1>5. QED
  BY <1>4 DEF FailCopyCont, rest, FlowsIInv

LEMMA InstructionsDoneKeeps ==
  ASSUME FlowsIInv, InstructionsDone
  PROVE  FlowsIInv'
<1>1. ui \in Uis /\ Settled(ui) /\ failed \in BOOLEAN
  BY Found DEF InstructionsDone, At, Bare
<1>2. Kept(ui', failed)
  BY <1>1, IfEndKeeps DEF InstructionsDone, Settled
<1>3. QED
  BY <1>2 DEF InstructionsDone, rest, FlowsIInv

LEMMA IfDetailsReplyKeeps ==
  ASSUME FlowsIInv, IfDetailsReply
  PROVE  FlowsIInv'
<1>1. ui \in Uis /\ Settled(ui) /\ failed \in BOOLEAN
  BY Found DEF IfDetailsReply, At, Bare
<1>2. {"if_install", "if_fail"} \subseteq Asking
  BY DEF Asking
<1>3. Kept(ui', failed)
  BY <1>1, <1>2, IfEndKeeps, NextDialogKeeps DEF IfDetailsReply, Settled
<1>4. QED
  BY <1>3 DEF IfDetailsReply, rest, FlowsIInv

LEMMA IfInstallKeeps ==
  ASSUME FlowsIInv, IfInstall
  PROVE  FlowsIInv'
<1> DEFINE u == Pop(ui, "question")
<1>1. u \in Uis /\ Settled(u) /\ failed \in BOOLEAN
  BY Found DEF IfInstall, At, Asking
<1>2. ui' = Goes(StartEnt(u), "if_install_reply") \/ ui' \in IfEnd(u)
  BY DEF IfInstall
<1> HIDE DEF u
<1>3. Kept(ui', failed)
  BY <1>1, <1>2, IfEndKeeps, NextDialogKeeps DEF Settled
<1>4. QED
  BY <1>3 DEF IfInstall, rest, FlowsIInv

LEMMA IfInstallReplyKeeps ==
  ASSUME FlowsIInv, IfInstallReply
  PROVE  FlowsIInv'
<1>1. Pop(ui, "bar") \in Uis /\ Settled(Pop(ui, "bar")) /\ failed \in BOOLEAN
  BY Found DEF IfInstallReply, At
<1>2. Kept(ui', failed)
  BY <1>1, IfEndKeeps, NextDialogKeeps DEF IfInstallReply, StopEnt, Settled
<1>3. QED
  BY <1>2 DEF IfInstallReply, rest, FlowsIInv

LEMMA IfFailKeeps ==
  ASSUME FlowsIInv, IfFail
  PROVE  FlowsIInv'
<1> DEFINE u == Pop(ui, "question")
<1>1. u \in Uis /\ Settled(u) /\ failed \in BOOLEAN
  BY Found DEF IfFail, At, Asking
<1>2. ui' = Tell(u, "if_end") \/ ui' \in IfEnd(u)
  BY DEF IfFail
<1> HIDE DEF u
<1>3. Kept(ui', failed)
  BY <1>1, <1>2, IfEndKeeps, NextDialogKeeps DEF Settled
<1>4. QED
  BY <1>3 DEF IfFail, rest, FlowsIInv

LEMMA IfEndNoteKeeps ==
  ASSUME FlowsIInv, IfEndNote
  PROVE  FlowsIInv'
<1>1. Pop(ui, "note") \in Uis /\ Settled(Pop(ui, "note")) /\ failed \in BOOLEAN
  BY Found DEF IfEndNote, At
<1>2. Kept(ui', failed)
  BY <1>1, IfEndKeeps DEF IfEndNote, Settled
<1>3. QED
  BY <1>2 DEF IfEndNote, rest, FlowsIInv

-----------------------------------------------------------------------------
(* The flows: the theorem *)

LEMMA InitFlows == Init => FlowsIInv
<1>1. SUFFICES ASSUME Init PROVE FlowsIInv
  OBVIOUS
<1>2. "idle" \in Places
  BY DEF Places
<1>3. ui \in Uis
  BY <1>1, <1>2 DEF Init, Uis
<1>4. Len(ui.tasks) <= MaxTasks
  BY <1>1, FilesAssumption DEF Init
<1>5. /\ ui.at = "idle" /\ ui.stack = << >> /\ ui.tasks = << >>
      /\ ui.cont = FALSE /\ ui.local = FALSE
  BY <1>1 DEF Init
<1>6. Kept(ui, failed)
  BY <1>3, <1>4, <1>5 DEF Kept, Nested, Bare, Barred, Asking, Noting
<1>7. scripts \in 0 .. MaxScripts
  BY <1>1, FilesAssumption DEF Init
<1>8. failed \in BOOLEAN /\ lost \in BOOLEAN
  BY <1>1 DEF Init
<1>9. QED
  BY <1>6, <1>7, <1>8, Zenon DEF FlowsIInv

LEMMA AnswersKeep ==
  ASSUME FlowsIInv, Answers
  PROVE  FlowsIInv'
  BY UpCheckrmReplyKeeps, UpCheckrmCmdDoneKeeps, UpRemoveWithInfoKeeps, UpRemoveReplyKeeps,
     UpAutoremoveReplyKeeps, CopyProgressKeeps, CopyFailsKeeps, IfDetailsReplyKeeps,
     IfInstallReplyKeeps DEF Answers

LEMMA UserActsKeep ==
  ASSUME FlowsIInv, UserActs
  PROVE  FlowsIInv'
  BY UninstallStartKeeps, UpCheckrmStartKeeps, UpEndKeeps, IffWithFilenameKeeps,
     FailCopyContKeeps, InstructionsDoneKeeps, IfInstallKeeps, IfFailKeeps, IfEndNoteKeeps,
     InstallFromFileKeeps, NoLateNote DEF UserActs

LEMMA FlowsStep ==
  ASSUME FlowsIInv, [Next]_vars
  PROVE  FlowsIInv' \/ again' = "came"
<1>1. CASE Answers
  BY <1>1, AnswersKeep
<1>2. CASE UserActs
  BY <1>2, UserActsKeep
<1>3. CASE LoseBackend
  BY <1>3 DEF LoseBackend, FlowsIInv
<1>4. CASE LateProgress
  BY <1>4, LateProgressKeeps
<1>5. CASE UNCHANGED vars
  BY <1>5 DEF vars, FlowsIInv
<1>6. QED
  BY <1>1, <1>2, <1>3, <1>4, <1>5 DEF Next

\* How often the copies that are over may have reported their end.
Reports == again \in {"no", "due", "came"} /\ (again = "came" \/ FlowsIInv)

LEMMA ReportsStep ==
  ASSUME Reports, [Next]_vars
  PROVE  Reports'
<1>1. /\ again' \in {"no", "due", "came"}
      /\ again = "came" => again' = "came"
  <2>1. CASE Answers
    BY <2>1 DEF Reports, Answers, UpCheckrmReply, UpCheckrmCmdDone, UpRemoveWithInfo,
                UpRemoveReply, UpAutoremoveReply, CopyProgress, CopyFails, IfDetailsReply,
                IfInstallReply, rest
  <2>2. CASE UserActs
    BY <2>2 DEF Reports, UserActs, UninstallPackageFlow, UpCheckrmStart, UpEnd,
                IffWithFilename, FailCopyCont, InstructionsDone, IfInstall, IfFail,
                IfEndNote, LateNote, InstallFromFile, rest
  <2>3. CASE LoseBackend \/ LateProgress \/ UNCHANGED vars
    BY <2>3 DEF Reports, LoseBackend, LateProgress, vars
  <2>4. QED
    BY <2>1, <2>2, <2>3 DEF Next
<1>2. QED
  BY <1>1, FlowsStep DEF Reports

LEMMA FlowsIInvImplies == Reports => FlowsBalanced
<1>1. SUFFICES ASSUME FlowsIInv, again \in {"no", "due", "came"} PROVE Balanced
  BY DEF Reports, FlowsBalanced
<1>2. ui \in Uis /\ Kept(ui, failed)
  BY <1>1, Found
<1>3. Range(ui.stack) \subseteq {"bar", "note", "question"}
  BY <1>2 DEF Uis, Range
<1>4. Range(ui.tasks) \subseteq Files \cup {NoFile}
  BY <1>2 DEF Uis, Range
<1>5. TypeOK
  BY <1>1, <1>2, <1>3, <1>4 DEF TypeOK, FlowsIInv, Kept, Uis, Places
<1>6. At("abort") => failed
  BY <1>2 DEF Kept, At
<1>7. NothingLeft /\ CopyHasOwner
  BY <1>2 DEF NothingLeft, CopyHasOwner, Kept, Nested, Bare, At
<1>8. QED
  BY <1>5, <1>6, <1>7 DEF Balanced

\* Whatever is opened, answered, copied or lost in whatever order, for any number of
\* files and any length of the queue: the dialogs of a flow are closed in the order of
\* pop_dialog () and before end_interaction_flow (), unless an uninstallation has
\* failed or a copy has reported its end twice; between flows no dialog, temporary file, copy_cont or queued file is left
\* (push_dialog, pop_dialog, end_interaction_flow, call_copy_cont).
THEOREM FlowsStayBalanced == Spec => []FlowsBalanced
<1>1. Init => Reports
  BY InitFlows DEF Reports, Init
<1>2. Reports /\ [Next]_vars => Reports'
  BY ReportsStep
<1>3. Reports => FlowsBalanced
  BY FlowsIInvImplies
<1>4. QED
  BY <1>1, <1>2, <1>3, PTL DEF Spec

=============================================================================
