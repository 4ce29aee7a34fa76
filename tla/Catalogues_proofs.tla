--------------------------- MODULE Catalogues_proofs ---------------------------
(***************************************************************************)
(* For any places, packages and number of events: the files of the         *)
(* catalogues agree when nothing has disturbed their last writer, a        *)
(* refresh loses nothing, an instruction file gets what it asks for, and   *)
(* a failure is told of catalogues that have failed.                       *)
(***************************************************************************)
EXTENDS Catalogues, TLAPS

-----------------------------------------------------------------------------
(* Lists of catalogues *)

\* A list in which every package that is installed has a catalogue, or is
\* represented by one of the user that is enabled (add_catalogues_cont_3).
Packed(list) == \A c \in list : \A d \in list :
                  c.package # NoPackage /\ c.package = d.package => c = d
Known(list, pkgs) == \A c \in list : /\ ~c.foreign
                                     /\ c.package # NoPackage =>
                                          c.package \in pkgs /\ c.place = Home[c.package]
Has(list, k)  == \E c \in list : c.package = k
Copy(list, k) == \E c \in list : c.package = NoPackage /\ c.place = Home[k] /\ ~c.disabled
Whole(list, pkgs) ==
  /\ list \subseteq Catalogue /\ Packed(list) /\ Known(list, pkgs)
  /\ \A k \in pkgs : Has(list, k) \/ Copy(list, k)

LEMMA OwnTypes ==
  ASSUME NEW p \in Places, NEW d \in BOOLEAN
  PROVE  /\ Own(p, d) \in Catalogue /\ Own(p, d).foreign = FALSE
         /\ \A f \in BOOLEAN : /\ [Own(p, d) EXCEPT !.foreign = f] \in Catalogue
                              /\ [Own(p, d) EXCEPT !.foreign = f].errors = FALSE
  BY DEF Own, Catalogue

LEMMA PackagedTypes ==
  ASSUME NEW k \in Packages, NEW d \in BOOLEAN
  PROVE  /\ Packaged(k, d) \in Catalogue
         /\ Packaged(k, d).package = k /\ Packaged(k, d).place = Home[k]
         /\ Packaged(k, d).disabled = d /\ Packaged(k, d).errors = FALSE
         /\ Packaged(k, d).foreign = FALSE
  BY CataloguesAssumption DEF Packaged, Catalogue

LEMMA ListTypes ==
  ASSUME NEW list \in SUBSET Catalogue
  PROVE  /\ PlacesOf(list) \subseteq Places /\ Enabled(list) \subseteq Places
         /\ Listed(list) \subseteq Places /\ Failing(list) \subseteq Places
  BY DEF PlacesOf, Enabled, Listed, Failing, Catalogue

\* What Read makes of the user's file: a catalogue for every package.
Off(cf, k) == \E c \in cf : c.package = k /\ c.disabled

LEMMA ReadMember ==
  ASSUME NEW cf, NEW pkgs, NEW x
  PROVE  x \in Read(cf, pkgs) <=> \/ \E k \in pkgs : x = Packaged(k, Off(cf, k))
                                  \/ x \in cf /\ x.package = NoPackage /\ ~x.foreign
  BY Zenon DEF Read, Off

LEMMA OffTypes == ASSUME NEW cf, NEW k PROVE Off(cf, k) \in BOOLEAN
  BY Zenon DEF Off

LEMMA ReferenceTypes ==
  ASSUME NEW cf, NEW k \in Packages
  PROVE  /\ Packaged(k, Off(cf, k)) \in Catalogue
         /\ Packaged(k, Off(cf, k)).package = k /\ Packaged(k, Off(cf, k)).place = Home[k]
         /\ Packaged(k, Off(cf, k)).disabled = Off(cf, k)
         /\ Packaged(k, Off(cf, k)).errors = FALSE /\ Packaged(k, Off(cf, k)).foreign = FALSE
<1>1. Off(cf, k) \in BOOLEAN
  BY OffTypes
<1>2. QED
  BY <1>1, PackagedTypes

LEMMA ReadMembers ==
  ASSUME NEW cf \in SUBSET Catalogue, NEW pkgs \in SUBSET Packages, NEW x \in Read(cf, pkgs)
  PROVE  /\ x \in Catalogue /\ ~x.foreign
         /\ x.package = NoPackage => x \in cf
         /\ x.package # NoPackage => /\ x.package \in pkgs /\ x.place = Home[x.package]
                                     /\ x = Packaged(x.package, Off(cf, x.package))
                                     /\ x.errors = FALSE
<1>1. CASE x \in cf /\ x.package = NoPackage /\ ~x.foreign
  BY <1>1
<1>2. CASE \E k \in pkgs : x = Packaged(k, Off(cf, k))
  <2>1. PICK k \in pkgs : x = Packaged(k, Off(cf, k))
    BY <1>2
  <2>2. k \in Packages /\ k # NoPackage
    BY CataloguesAssumption
  <2>3. x \in Catalogue /\ x.package = k /\ x.place = Home[k] /\ x.errors = FALSE /\ x.foreign = FALSE
    BY <2>1, <2>2, ReferenceTypes
  <2>4. QED
    BY <2>1, <2>2, <2>3
<1>3. QED
  BY <1>1, <1>2, ReadMember

LEMMA ReadCleared ==
  ASSUME NEW cf \in SUBSET Catalogue, \A c \in cf : c.errors = FALSE, NEW pkgs \in SUBSET Packages
  PROVE  \A c \in Read(cf, pkgs) : c.errors = FALSE
  BY ReadMembers

LEMMA ReadWhole ==
  ASSUME NEW cf \in SUBSET Catalogue, NEW pkgs \in SUBSET Packages
  PROVE  Whole(Read(cf, pkgs), pkgs) /\ \A k \in pkgs : Has(Read(cf, pkgs), k)
<1>1. Packed(Read(cf, pkgs)) /\ Known(Read(cf, pkgs), pkgs) /\ Read(cf, pkgs) \subseteq Catalogue
  <2>1. \A c \in Read(cf, pkgs) :
          /\ c \in Catalogue /\ ~c.foreign
          /\ c.package # NoPackage => /\ c.package \in pkgs /\ c.place = Home[c.package]
                                      /\ c = Packaged(c.package, Off(cf, c.package))
    BY ReadMembers
  <2>2. ASSUME NEW c \in Read(cf, pkgs), NEW d \in Read(cf, pkgs),
               c.package # NoPackage, c.package = d.package
        PROVE  c = d
    BY <2>1, <2>2, Zenon
  <2>3. QED
    BY <2>1, <2>2, Zenon DEF Packed, Known
<1>2. ASSUME NEW k \in pkgs PROVE Has(Read(cf, pkgs), k)
  <2>1. Packaged(k, Off(cf, k)) \in Read(cf, pkgs)
    BY ReadMember
  <2>2. Packaged(k, Off(cf, k)).package = k
    BY ReferenceTypes
  <2>3. QED
    BY <2>1, <2>2 DEF Has
<1>3. QED
  BY <1>1, <1>2 DEF Whole

LEMMA ClearedMember ==
  ASSUME NEW list \in SUBSET Catalogue
  PROVE  /\ \A x : x \in Cleared(list) <=> \E c \in list : x = [c EXCEPT !.errors = FALSE]
         /\ \A c \in Cleared(list) : c \in Catalogue /\ c.errors = FALSE
         /\ list = Cleared(list) <=> \A c \in list : c.errors = FALSE
<1>1. \A c \in Catalogue :
             /\ [c EXCEPT !.errors = FALSE] \in Catalogue
             /\ [c EXCEPT !.errors = FALSE].errors = FALSE
             /\ c.errors = FALSE => [c EXCEPT !.errors = FALSE] = c
  BY DEF Catalogue
<1>2. \A x : x \in Cleared(list) <=> \E c \in list : x = [c EXCEPT !.errors = FALSE]
  BY DEF Cleared
<1>3. ASSUME NEW c \in Cleared(list) PROVE c \in Catalogue /\ c.errors = FALSE
  <2>1. PICK d \in list : c = [d EXCEPT !.errors = FALSE]
    BY <1>2, Zenon
  <2>2. QED
    BY <1>1, <2>1, Zenon
<1>4. ASSUME \A c \in list : c.errors = FALSE PROVE list = Cleared(list)
  <2>1. \A c \in list : c = [c EXCEPT !.errors = FALSE]
    BY <1>1, <1>4, Zenon
  <2>2. ASSUME NEW x \in list PROVE x \in Cleared(list)
    BY <1>2, <2>1
  <2>4. ASSUME NEW x \in Cleared(list) PROVE x \in list
    <3>1. PICK d \in list : x = [d EXCEPT !.errors = FALSE]
      BY <1>2, Zenon
    <3>2. x = d
      BY <2>1, <3>1, Zenon
    <3>3. QED
      BY <3>2
  <2>3. QED
    BY <2>2, <2>4
<1>5. QED
  BY <1>2, <1>3, <1>4, Zenon

\* An error more or less changes nothing of a catalogue but the error.
LEMMA RelabelFacts ==
  ASSUME NEW c \in Catalogue, NEW e \in BOOLEAN
  PROVE  /\ [c EXCEPT !.errors = e] \in Catalogue
         /\ [c EXCEPT !.errors = e].package = c.package /\ [c EXCEPT !.errors = e].place = c.place
         /\ [c EXCEPT !.errors = e].disabled = c.disabled /\ [c EXCEPT !.errors = e].errors = e
         /\ [c EXCEPT !.errors = e].foreign = c.foreign
  BY DEF Catalogue

\* list m is list l with other errors.
Alike(x, c) ==
  x.package = c.package /\ x.place = c.place /\ x.disabled = c.disabled /\ x.foreign = c.foreign
Relabelled(l, m) == (\A x \in m : \E c \in l : Alike(x, c)) /\ \A c \in l : \E x \in m : Alike(x, c)

LEMMA ClearedRelabels ==
  ASSUME NEW list \in SUBSET Catalogue PROVE Relabelled(list, Cleared(list))
<1>1. ASSUME NEW c \in list
      PROVE  LET x == [c EXCEPT !.errors = FALSE]
             IN x \in Cleared(list) /\ Alike(x, c)
  BY ClearedMember, RelabelFacts DEF Alike
<1>2. ASSUME NEW x \in Cleared(list)
      PROVE  \E c \in list : Alike(x, c)
  <2>1. PICK c \in list : x = [c EXCEPT !.errors = FALSE]
    BY ClearedMember
  <2>2. QED
    BY <2>1, RelabelFacts DEF Alike
<1>3. QED
  BY <1>1, <1>2 DEF Relabelled

LEMMA BlamedMember ==
  ASSUME NEW list \in SUBSET Catalogue, NEW places
  PROVE  /\ \A x : x \in Blamed(list, places) <=> \E c \in list : x = [c EXCEPT !.errors = c.place \in places]
         /\ Blamed(list, places) \subseteq Catalogue
         /\ Relabelled(list, Blamed(list, places))
         /\ \A x \in Blamed(list, places) : x.errors <=> x.place \in places
<1> DEFINE Mark(c) == [c EXCEPT !.errors = c.place \in places]
<1>1. \A x : x \in Blamed(list, places) <=> \E c \in list : x = Mark(c)
  BY Zenon DEF Blamed
<1>2. ASSUME NEW c \in list
      PROVE  /\ Mark(c) \in Catalogue /\ Mark(c).package = c.package /\ Mark(c).place = c.place
             /\ Mark(c).disabled = c.disabled /\ Mark(c).errors = (c.place \in places)
             /\ Mark(c).foreign = c.foreign
  <2>1. Mark(c) \in {[c EXCEPT !.errors = TRUE], [c EXCEPT !.errors = FALSE]}
    <3>1. CASE c.place \in places
      <4>1. (c.place \in places) = TRUE
        BY <3>1
      <4>2. Mark(c) = [c EXCEPT !.errors = TRUE]
        BY <4>1, Zenon
      <4>3. QED
        BY <4>2, Zenon
    <3>2. CASE c.place \notin places
      <4>1. (c.place \in places) = FALSE
        BY <3>2
      <4>2. Mark(c) = [c EXCEPT !.errors = FALSE]
        BY <4>1, Zenon
      <4>3. QED
        BY <4>2, Zenon
    <3>3. QED
      BY <3>1, <3>2
  <2>2. Mark(c).errors = (c.place \in places)
    BY Zenon DEF Catalogue
  <2>3. QED
    BY <2>1, <2>2, RelabelFacts
<1> HIDE DEF Mark
<1>3. Blamed(list, places) \subseteq Catalogue
  BY <1>1, <1>2
<1>4. Relabelled(list, Blamed(list, places))
  <2>1. ASSUME NEW c \in list
        PROVE  \E x \in Blamed(list, places) : Alike(x, c)
    BY <1>1, <1>2 DEF Alike
  <2>2. ASSUME NEW x \in Blamed(list, places)
        PROVE  \E c \in list : Alike(x, c)
    <3>1. PICK c \in list : x = Mark(c)
      BY <1>1
    <3>2. QED
      BY <1>2, <3>1 DEF Alike
  <2>3. QED
    BY <2>1, <2>2 DEF Relabelled
<1>5. ASSUME NEW x \in Blamed(list, places) PROVE x.errors <=> x.place \in places
  <2>1. PICK c \in list : x = Mark(c)
    BY <1>1
  <2>2. QED
    BY <1>2, <2>1, Zenon
<1>6. QED
  BY <1>1, <1>3, <1>4, <1>5 DEF Mark

\* Errors do not matter to what is written.
LEMMA RelabelledSame ==
  ASSUME NEW l \in SUBSET Catalogue, NEW m \in SUBSET Catalogue, Relabelled(l, m), NEW pkgs
  PROVE  /\ Enabled(m) = Enabled(l)
         /\ \A k : (Has(m, k) <=> Has(l, k)) /\ (Copy(m, k) <=> Copy(l, k))
         /\ Known(l, pkgs) => Known(m, pkgs)
<1>1. Enabled(m) = Enabled(l)
  BY DEF Enabled, PlacesOf, Relabelled, Alike, Catalogue
<1>2. \A k : (Has(m, k) <=> Has(l, k)) /\ (Copy(m, k) <=> Copy(l, k))
  BY DEF Has, Copy, Relabelled, Alike, Catalogue
<1>3. Known(l, pkgs) => Known(m, pkgs)
  BY DEF Known, Relabelled, Alike
<1>4. QED
  BY <1>1, <1>2, <1>3

LEMMA ClearedWhole ==
  ASSUME NEW list \in SUBSET Catalogue, NEW pkgs, Whole(list, pkgs)
  PROVE  Whole(Cleared(list), pkgs) /\ Enabled(Cleared(list)) = Enabled(list)
<1>1. Cleared(list) \subseteq Catalogue
  BY ClearedMember
<1>2. Packed(Cleared(list))
  <2>1. SUFFICES ASSUME NEW x \in Cleared(list), NEW y \in Cleared(list),
                        x.package # NoPackage, x.package = y.package
                 PROVE  x = y
    BY DEF Packed
  <2>2. PICK c \in list : x = [c EXCEPT !.errors = FALSE]
    BY ClearedMember
  <2>3. PICK d \in list : y = [d EXCEPT !.errors = FALSE]
    BY ClearedMember
  <2>4. c.package = x.package /\ d.package = y.package
    BY <2>2, <2>3, RelabelFacts
  <2>5. c = d
    BY <2>1, <2>4 DEF Whole, Packed
  <2>6. QED
    BY <2>2, <2>3, <2>5
<1>3. QED
  BY <1>1, <1>2, ClearedRelabels, RelabelledSame DEF Whole

LEMMA BlamedWhole ==
  ASSUME NEW list \in SUBSET Catalogue, NEW pkgs, Whole(list, pkgs), NEW places
  PROVE  Whole(Blamed(list, places), pkgs)
<1>1. Blamed(list, places) \subseteq Catalogue /\ Relabelled(list, Blamed(list, places))
  BY BlamedMember
<1>2. Packed(Blamed(list, places))
  <2>1. SUFFICES ASSUME NEW x \in Blamed(list, places), NEW y \in Blamed(list, places),
                        x.package # NoPackage, x.package = y.package
                 PROVE  x = y
    BY DEF Packed
  <2> DEFINE Mark(c) == [c EXCEPT !.errors = c.place \in places]
  <2>2. \A z \in Blamed(list, places) : \E c \in list : z = Mark(c)
    BY BlamedMember
  <2>3. \A c \in list : Mark(c).package = c.package
    BY DEF Catalogue
  <2> HIDE DEF Mark
  <2>4. PICK c \in list : x = Mark(c)
    BY <2>2
  <2>5. PICK d \in list : y = Mark(d)
    BY <2>2
  <2>6. c.package = d.package /\ c.package # NoPackage
    BY <2>1, <2>3, <2>4, <2>5
  <2>7. c = d
    BY <2>6 DEF Whole, Packed
  <2>8. QED
    BY <2>4, <2>5, <2>7
<1>3. QED
  BY <1>1, <1>2, RelabelledSame DEF Whole

LEMMA WrittenMember ==
  ASSUME NEW list \in SUBSET Catalogue, NEW x
  PROVE  x \in Written(list) <=>
           \E c \in list : x = IF c.package = NoPackage THEN c ELSE Packaged(c.package, c.disabled)
  BY Zenon DEF Written

\* What is read again after a list is written: the references bring back the
\* packages' catalogues, disabled or not as they were.
LEMMA ReadWritten ==
  ASSUME NEW list \in SUBSET Catalogue, NEW pkgs \in SUBSET Packages, Known(list, pkgs), Packed(list)
  PROVE  /\ Written(list) \subseteq Catalogue
         /\ \A c \in list : c.package = NoPackage => c \in Read(Written(list), pkgs)
         /\ \A x \in Read(Written(list), pkgs) : x.package = NoPackage => x \in list
         /\ \A c \in list : c.package # NoPackage => Off(Written(list), c.package) = c.disabled
         /\ \A k \in pkgs : ~Has(list, k) => Off(Written(list), k) = FALSE
<1>1. ASSUME NEW c \in list, c.package # NoPackage
      PROVE  /\ Packaged(c.package, c.disabled) \in Catalogue
             /\ Packaged(c.package, c.disabled) \in Written(list)
             /\ Packaged(c.package, c.disabled).package = c.package
             /\ Packaged(c.package, c.disabled).disabled = c.disabled
  <2>1. c.package \in Packages /\ c.disabled \in BOOLEAN
    BY <1>1 DEF Catalogue
  <2>2. Packaged(c.package, c.disabled) \in Written(list)
    BY <1>1, WrittenMember
  <2>3. QED
    BY <2>1, <2>2, PackagedTypes
<1>2. \A x \in Written(list) :
        \/ x \in list /\ x.package = NoPackage
        \/ \E c \in list : /\ c.package # NoPackage /\ x \in Catalogue
                           /\ x.package = c.package /\ x.disabled = c.disabled
  BY <1>1, WrittenMember
<1>3. Written(list) \subseteq Catalogue
  BY <1>2
<1>4. \A c \in list : c.package = NoPackage => c \in Read(Written(list), pkgs)
  BY ReadMember, WrittenMember DEF Known
<1>5. \A x \in Read(Written(list), pkgs) : x.package = NoPackage => x \in list
  BY <1>2, <1>3, ReadMembers
<1>6. ASSUME NEW c \in list, c.package # NoPackage
      PROVE  Off(Written(list), c.package) = c.disabled
  <2>1. CASE c.disabled
    BY <1>1, <1>6, <2>1 DEF Off
  <2>2. CASE ~c.disabled
    <3>1. ASSUME NEW x \in Written(list), x.package = c.package PROVE ~x.disabled
      <4>1. PICK d \in list : d.package = c.package /\ x.disabled = d.disabled
        BY <1>2, <1>6, <3>1
      <4>2. d = c
        BY <1>6, <4>1 DEF Packed
      <4>3. QED
        BY <2>2, <4>1, <4>2
    <3>2. QED
      BY <2>2, <3>1 DEF Off, Catalogue
  <2>3. QED
    BY <2>1, <2>2
<1>7. ASSUME NEW k \in pkgs, ~Has(list, k) PROVE Off(Written(list), k) = FALSE
  <2>1. k # NoPackage
    BY CataloguesAssumption
  <2>2. \A x \in Written(list) : x.package # k
    BY <1>2, <1>7, <2>1 DEF Has
  <2>3. QED
    BY <2>2 DEF Off
<1>8. QED
  BY <1>3, <1>4, <1>5, <1>6, <1>7

LEMMA EnabledMember ==
  ASSUME NEW list, NEW p PROVE p \in Enabled(list) <=> \E c \in list : ~c.disabled /\ c.place = p
  BY DEF Enabled, PlacesOf

LEMMA EnabledWritten ==
  ASSUME NEW list, NEW pkgs \in SUBSET Packages, Whole(list, pkgs)
  PROVE  Enabled(Read(Written(list), pkgs)) = Enabled(list)
<1> DEFINE again == Read(Written(list), pkgs)
<1>1. list \in SUBSET Catalogue /\ Known(list, pkgs) /\ Packed(list)
  BY DEF Whole
<1>2. /\ \A c \in list : c.package = NoPackage => c \in again
      /\ \A x \in again : x.package = NoPackage => x \in list
      /\ \A c \in list : c.package # NoPackage => Off(Written(list), c.package) = c.disabled
      /\ Written(list) \in SUBSET Catalogue
  BY <1>1, ReadWritten
<1>3. ASSUME NEW x \in again, ~x.disabled PROVE x.place \in Enabled(list)
  <2>1. CASE x.package = NoPackage
    BY <1>2, <1>3, <2>1, EnabledMember
  <2>2. CASE x.package # NoPackage
    <3> DEFINE k == x.package
    <3>1. k \in pkgs /\ x.place = Home[k] /\ x = Packaged(k, Off(Written(list), k))
      <4>1. Written(list) \in SUBSET Catalogue /\ x \in Read(Written(list), pkgs)
        BY <1>2
      <4>2. QED
        BY <2>2, <4>1, ReadMembers
    <3>2. ~Off(Written(list), k)
      <4>1. Packaged(k, Off(Written(list), k)).disabled = Off(Written(list), k)
        BY <3>1, ReferenceTypes
      <4>2. QED
        BY <1>3, <3>1, <4>1
    <3>3. CASE Has(list, k)
      <4>1. PICK c \in list : c.package = k
        BY <3>3 DEF Has
      <4>2. c.place = Home[k] /\ ~c.disabled
        BY <1>1, <1>2, <2>2, <3>2, <4>1 DEF Known
      <4>3. QED
        BY <3>1, <4>2, EnabledMember
    <3>4. CASE Copy(list, k)
      BY <3>1, <3>4, EnabledMember DEF Copy
    <3>5. QED
      BY <3>1, <3>3, <3>4 DEF Whole
  <2>3. QED
    BY <2>1, <2>2
<1>4. ASSUME NEW c \in list, ~c.disabled PROVE c.place \in Enabled(again)
  <2>1. CASE c.package = NoPackage
    BY <1>2, <1>4, <2>1, EnabledMember
  <2>2. CASE c.package # NoPackage
    <3> DEFINE k == c.package
               x == Packaged(k, Off(Written(list), k))
    <3>1. k \in pkgs /\ c.place = Home[k] /\ ~Off(Written(list), k)
      BY <1>1, <1>2, <1>4, <2>2 DEF Known
    <3>2. x \in again
      BY <3>1, ReadMember
    <3>3. x.place = Home[k] /\ ~x.disabled
      <4>1. k \in Packages
        BY <3>1
      <4>2. x.place = Home[k] /\ x.disabled = Off(Written(list), k)
        BY <4>1, ReferenceTypes, Zenon
      <4>3. QED
        BY <3>1, <4>2
    <3>4. QED
      BY <3>1, <3>2, <3>3, EnabledMember
  <2>3. QED
    BY <2>1, <2>2
<1> HIDE DEF again
<1>5. \A p : p \in Enabled(again) <=> p \in Enabled(list)
  BY <1>3, <1>4, EnabledMember
<1>6. QED
  BY <1>5 DEF again

\* What is read and written without a change is read the same again.
LEMMA ReadAgain ==
  ASSUME NEW cf \in SUBSET Catalogue, \A c \in cf : c.errors = FALSE, NEW pkgs \in SUBSET Packages
  PROVE  /\ Cleared(Read(cf, pkgs)) = Read(cf, pkgs)
         /\ Read(Written(Read(cf, pkgs)), pkgs) = Read(cf, pkgs)
<1> DEFINE list == Read(cf, pkgs)
           again == Read(Written(list), pkgs)
<1>1. Whole(list, pkgs) /\ list \in SUBSET Catalogue
  BY ReadWhole DEF Whole
<1>2. Cleared(list) = list
  BY <1>1, ReadCleared, ClearedMember
<1>3. /\ \A c \in list : c.package = NoPackage => c \in again
      /\ \A x \in again : x.package = NoPackage => x \in list
      /\ \A c \in list : c.package # NoPackage => Off(Written(list), c.package) = c.disabled
      /\ Written(list) \in SUBSET Catalogue
  BY <1>1, ReadWritten DEF Whole
<1>4. ASSUME NEW k \in pkgs PROVE Off(Written(list), k) = Off(cf, k)
  <2>1. Packaged(k, Off(cf, k)) \in list
    BY ReadMember
  <2>2. Packaged(k, Off(cf, k)).package = k /\ Packaged(k, Off(cf, k)).disabled = Off(cf, k)
    BY ReferenceTypes
  <2>3. k # NoPackage
    BY CataloguesAssumption
  <2>4. QED
    BY <1>3, <2>1, <2>2, <2>3
<1>5. ASSUME NEW x \in again PROVE x \in list
  <2>1. CASE x.package = NoPackage
    BY <1>3, <2>1
  <2>2. CASE x.package # NoPackage
    <3>1. x.package \in pkgs /\ x = Packaged(x.package, Off(Written(list), x.package))
      BY <1>3, <2>2, ReadMembers
    <3>2. x = Packaged(x.package, Off(cf, x.package))
      BY <1>4, <3>1
    <3>3. QED
      BY <3>1, <3>2, ReadMember
  <2>3. QED
    BY <2>1, <2>2
<1>6. ASSUME NEW x \in list PROVE x \in again
  <2>1. CASE x.package = NoPackage
    BY <1>3, <2>1
  <2>2. CASE x.package # NoPackage
    <3>1. x.package \in pkgs /\ x = Packaged(x.package, Off(cf, x.package))
      BY <2>2, ReadMembers
    <3>2. x = Packaged(x.package, Off(Written(list), x.package))
      BY <1>4, <3>1
    <3>3. QED
      BY <3>1, <3>2, ReadMember
  <2>3. QED
    BY <2>1, <2>2
<1> HIDE DEF list, again
<1>7. again = list
  BY <1>5, <1>6
<1>8. QED
  BY <1>2, <1>7 DEF list, again

-----------------------------------------------------------------------------
(* The inductive invariant *)

Undisturbed(who) == who \notin outdated
Busy(phases)     == backend.phase \in phases

\* The parts of CataloguesInv: what the variables may be, and who waits for whom.
Backend == [phase : {"idle", "asked", "conf", "sources", "download", "answered"},
            cmd : {"none", "get", "set", "update"}, list : SUBSET Catalogue, ok : BOOLEAN]
Tool    == [cmd : {"none", "add", "delete", "set", "update"}, phase : {"none", "conf", "sources"},
            list : SUBSET Catalogue]
Clean(list) == list \subseteq Catalogue /\ \A c \in list : c.errors = FALSE

FileTypes ==
  /\ installed \in SUBSET Packages /\ Clean(conf)
  /\ sources \in SUBSET Places /\ failed \in SUBSET Places
  /\ outdated \in SUBSET {"backend", "flow", "tool"} /\ events \in 0 .. MaxEvents

Types == FileTypes /\ backend \in Backend /\ flow \in Flow /\ tool \in Tool /\ past \in History

Lists ==
  /\ Clean(tool.list)
  /\ Busy({"conf", "sources", "download"}) => Clean(backend.list)

Waits ==
  /\ Busy({"conf", "sources"}) => backend.cmd \in {"set", "update"}
  /\ Busy({"download"}) => backend.cmd = "update"
  /\ At("updating") => ~Busy({"idle"}) /\ backend.cmd = "update"
  /\ At("getting")  => ~Busy({"idle"}) /\ backend.cmd = "get"
  /\ At("setting")  => ~Busy({"idle"}) /\ backend.cmd = "set"
  /\ ~Busy({"idle"}) =>
       At("updating") \/ At("getting") \/ At("setting") \/ (flow = NoFlow /\ backend.cmd = "get")

\* A flow knows what it is for; only an instruction file has wishes.
FlowFits ==
  /\ At("editing") => InDialog
  /\ At("installing") => flow.kind = "install"
  /\ flow.kind = "install" => ~flow.first
  /\ flow.kind = "install" /\ At("getting") => flow.rest = flow.wanted

\* A list that nobody has overtaken covers all packages, up to those whose
\* catalogue the user has just replaced.
FlowCovers ==
  flow.step \in {"editing", "asking", "setting"} /\ ~flow.null /\ Undisturbed("flow") =>
    /\ Whole(flow.list, installed)
    /\ At("editing") => \A k \in installed : Has(flow.list, k)
    /\ At("asking") => \A k \in installed : Has(flow.list, k) \/ Home[k] \notin flow.rest

FlowLists ==
  /\ FlowCovers
  /\ Busy({"asked"}) /\ backend.cmd = "set" => backend.list = flow.list
  /\ Busy({"conf", "sources"}) /\ backend.cmd = "set" => backend.list = Cleared(flow.list)
  /\ Busy({"answered"}) /\ backend.cmd = "get" /\ backend.ok /\ Undisturbed("flow") =>
       Whole(backend.list, installed) /\ \A k \in installed : Has(backend.list, k)

\* What the backend and the tool are about to write is made from what there is.
WriterLists ==
  /\ Busy({"conf", "sources"}) /\ Undisturbed("backend") => Whole(backend.list, installed)
  /\ Busy({"sources"}) /\ Undisturbed("backend") => conf = Written(backend.list)
  /\ Busy({"conf"}) /\ backend.cmd = "update" /\ Undisturbed("backend") =>
       backend.list = Read(conf, installed)
  /\ tool.cmd = "update" => tool.phase = "sources"
  /\ tool.cmd = "update" /\ Undisturbed("tool") => tool.list = Read(conf, installed)

\* An error that is on its way to the user.
ErrorsOnTheirWay ==
  /\ Busy({"answered"}) /\ backend.cmd = "get" => Failing(backend.list) \subseteq past.failing \cup past.moved
  /\ At("asking") => Failing(flow.list) \subseteq past.failing \cup past.moved

\* What an instruction file asks for is in the list, and then in the user's file.
FlowWishes ==
  /\ flow.kind = "install" /\ At("asking") =>
       flow.wanted \cap Addable \subseteq flow.rest \cup Enabled(flow.list)
  /\ flow.kind = "install" /\ At("setting") => flow.wanted \cap Addable \subseteq Enabled(flow.list)
  /\ flow.kind = "install" /\ flow.step \in {"setting", "network", "updating", "installing"} /\ past.stored =>
       flow.wanted \cap Addable \subseteq Enabled(Read(conf, installed))

WishesKept ==
  /\ FlowWishes
  /\ Busy({"asked", "conf", "sources"}) /\ backend.cmd = "set" => ~past.stored
  /\ Busy({"conf"}) /\ backend.cmd = "update" /\ past.stored => Undisturbed("backend")

IndInv ==
  /\ Types /\ Lists /\ Waits /\ SourcesFollow /\ ErrorsBelong
  /\ FlowFits /\ FlowLists /\ WriterLists /\ ErrorsOnTheirWay /\ WishesKept

LEMMA Parts == CataloguesInv <=> Types /\ Lists /\ Waits
<1>1. \A list \in SUBSET Catalogue : list = Cleared(list) <=> Clean(list)
  BY ClearedMember DEF Clean
<1>2. CataloguesInv => Types /\ Lists /\ Waits
  BY <1>1 DEF CataloguesInv, Types, FileTypes, Lists, Waits, Backend, Tool, Clean, Busy
<1>3. Types /\ Lists /\ Waits => CataloguesInv
  BY <1>1 DEF CataloguesInv, Types, FileTypes, Lists, Waits, Backend, Tool, Clean, Busy
<1>4. QED
  BY <1>2, <1>3

-----------------------------------------------------------------------------
(* What the steps are made of *)

LEMMA FileFacts ==
  ASSUME Types
  PROVE  /\ Read(conf, installed) \in SUBSET Catalogue /\ Clean(Read(conf, installed))
         /\ Cleared(Read(conf, installed)) = Read(conf, installed)
         /\ Read(Written(Read(conf, installed)), installed) = Read(conf, installed)
         /\ Merged(Read(conf, installed)) \in SUBSET Catalogue
         /\ Failing(Merged(Read(conf, installed))) \subseteq failed
         /\ Count => events' \in 0 .. MaxEvents
<1>1. conf \in SUBSET Catalogue /\ (\A c \in conf : c.errors = FALSE) /\ installed \in SUBSET Packages
  BY DEF Types, FileTypes, Clean
<1>2. /\ Read(conf, installed) \in SUBSET Catalogue /\ Clean(Read(conf, installed))
      /\ Cleared(Read(conf, installed)) = Read(conf, installed)
      /\ Read(Written(Read(conf, installed)), installed) = Read(conf, installed)
  BY <1>1, ReadMembers, ReadCleared, ReadAgain DEF Clean
<1>3. Merged(Read(conf, installed)) \in SUBSET Catalogue
  BY <1>2, BlamedMember DEF Merged
<1>4. Failing(Merged(Read(conf, installed))) \subseteq failed
  BY <1>2, BlamedMember DEF Merged, Failing, PlacesOf
<1>5. Count => events' \in 0 .. MaxEvents
  BY CataloguesAssumption DEF Types, FileTypes, Count
<1>6. QED
  BY <1>2, <1>3, <1>4, <1>5

LEMMA WrittenClean ==
  ASSUME NEW list \in SUBSET Catalogue, Clean(list) PROVE Clean(Written(list))
<1>1. ASSUME NEW c \in list, c.package # NoPackage
      PROVE  Packaged(c.package, c.disabled) \in Catalogue /\ Packaged(c.package, c.disabled).errors = FALSE
  <2>1. c.package \in Packages /\ c.disabled \in BOOLEAN
    BY <1>1 DEF Catalogue
  <2>2. QED
    BY <2>1, PackagedTypes
<1>2. ASSUME NEW x \in Written(list) PROVE x \in Catalogue /\ x.errors = FALSE
  <2>1. PICK c \in list : x = IF c.package = NoPackage THEN c ELSE Packaged(c.package, c.disabled)
    BY WrittenMember
  <2>2. CASE c.package = NoPackage
    BY <2>1, <2>2 DEF Clean
  <2>3. CASE c.package # NoPackage
    BY <1>1, <2>1, <2>3
  <2>4. QED
    BY <2>2, <2>3
<1>3. QED
  BY <1>2 DEF Clean

LEMMA GoToFacts ==
  ASSUME NEW f \in Flow,
         NEW step \in {"none", "network", "updating", "getting", "editing", "asking", "setting", "installing"},
         GoTo(f, step)
  PROVE  /\ flow' \in Flow /\ flow'.step = step /\ flow'.kind = f.kind
         /\ flow'.list = f.list /\ flow'.null = f.null /\ flow'.dirty = f.dirty
         /\ flow'.first = f.first /\ flow'.rest = f.rest /\ flow'.wanted = f.wanted
  BY DEF GoTo, Flow

LEMMA AskFacts ==
  ASSUME NEW cmd \in {"get", "set", "update"}, NEW l \in SUBSET Catalogue, Ask(cmd, l)
  PROVE  /\ backend' \in Backend /\ backend'.phase = "asked" /\ backend'.cmd = cmd
         /\ backend'.list = l /\ backend'.ok = TRUE
  BY DEF Ask, Backend

LEMMA AnswerFacts ==
  ASSUME backend \in Backend, NEW l \in SUBSET Catalogue
  PROVE  /\ Answer(l) \in Backend /\ Answer(l).phase = "answered" /\ Answer(l).cmd = backend.cmd
         /\ Answer(l).list = l /\ Answer(l).ok = backend.ok
  BY DEF Answer, Backend

LEMMA NoFlowFacts ==
  /\ NoFlow \in Flow /\ NoFlow.kind = "none" /\ NoFlow.step = "none" /\ NoFlow.list = {}
  /\ NoFlow.null = FALSE /\ NoFlow.dirty = FALSE /\ NoFlow.first = FALSE
  /\ NoFlow.rest = {} /\ NoFlow.wanted = {}
  BY DEF NoFlow, Flow

LEMMA IdleFacts == Idle \in Backend /\ Idle.phase = "idle" /\ Idle.cmd = "none"
  BY DEF Idle, Backend

\* The flow ends or goes on without the backend, and nothing is written.
LEMMA FlowEnds ==
  ASSUME IndInv, UNCHANGED <<Disk, tool, outdated, past>>, events' \in 0 .. MaxEvents,
         flow' = NoFlow, backend' = Idle \/ (backend' = backend /\ Busy({"idle"}))
  PROVE  IndInv'
<1>1. backend' \in Backend /\ backend'.phase = "idle"
  BY IdleFacts DEF IndInv, Types, Busy
<1>2. flow' \in Flow /\ flow'.kind = "none" /\ flow'.step = "none"
  BY NoFlowFacts
<1>3. Types'
  BY <1>1, <1>2 DEF IndInv, Types, FileTypes, Clean, Disk
<1>4. Lists' /\ Waits' /\ SourcesFollow' /\ ErrorsBelong'
  BY <1>1, <1>2 DEF IndInv, Lists, Waits, SourcesFollow, ErrorsBelong, Disk, Busy, At, Clean
<1>5. FlowFits' /\ FlowLists'
  BY <1>1, <1>2 DEF FlowFits, FlowLists, FlowCovers, Busy, At, InDialog
<1>6. WriterLists'
  BY <1>1 DEF IndInv, WriterLists, Disk, Busy, Undisturbed
<1>7. ErrorsOnTheirWay' /\ WishesKept'
  BY <1>1, <1>2 DEF ErrorsOnTheirWay, WishesKept, FlowWishes, Busy, At
<1>8. QED
  BY <1>3, <1>4, <1>5, <1>6, <1>7 DEF IndInv

-----------------------------------------------------------------------------
(* The backend *)

LEMMA GetKeeps == ASSUME IndInv, GetCatalogues PROVE IndInv'
<1> DEFINE list == Read(conf, installed)
<1>0. Types /\ Waits
  BY DEF IndInv
<1>1. /\ Busy({"asked"}) /\ backend.cmd = "get" /\ backend' = Answer(Merged(list))
      /\ outdated' = outdated \ {"flow"} /\ (conf' = conf \/ (conf = {} /\ conf' = Written(list)))
      /\ UNCHANGED <<installed, sources, failed, flow, tool, past, events>>
  BY DEF GetCatalogues, Asked, Busy
<1>2. /\ backend' \in Backend /\ backend'.phase = "answered" /\ backend'.cmd = "get"
      /\ backend'.list = Merged(list)
  BY <1>0, <1>1, AnswerFacts, FileFacts DEF Types
<1>3. Read(conf', installed') = list /\ Clean(conf')
  BY <1>0, <1>1, FileFacts, WrittenClean DEF Types, FileTypes
<1>4. At("getting") \/ flow = NoFlow
  BY <1>0, <1>1 DEF Waits, Busy, At
<1>5. flow'.step \in {"getting", "none"}
  BY <1>1, <1>4, NoFlowFacts DEF At
<1>6. Types'
  BY <1>0, <1>1, <1>2, <1>3 DEF Types, FileTypes
<1>7. Lists' /\ Waits'
  BY <1>0, <1>1, <1>2, <1>4, <1>5 DEF IndInv, Lists, Waits, Busy, At, Clean
<1>8. SourcesFollow' /\ ErrorsBelong'
  BY <1>1, <1>3, <1>5 DEF IndInv, SourcesFollow, ErrorsBelong, At
<1>9. FlowLists'
  <2>1. Whole(list, installed) /\ \A k \in installed : Has(list, k)
    BY <1>0, ReadWhole DEF Types, FileTypes, Clean
  <2>2. Whole(Merged(list), installed) /\ \A k \in installed : Has(Merged(list), k)
    BY <1>0, <2>1, FileFacts, BlamedWhole, BlamedMember, RelabelledSame DEF Merged
  <2> HIDE DEF list
  <2>3. QED
    BY <1>1, <1>2, <1>5, <2>2 DEF FlowLists, FlowCovers, Busy, At
<1>10. WriterLists'
  BY <1>1, <1>2, <1>3 DEF IndInv, WriterLists, Busy, Undisturbed
<1>11. ErrorsOnTheirWay'
  BY <1>0, <1>1, <1>2, <1>5, FileFacts DEF IndInv, ErrorsBelong, ErrorsOnTheirWay, Busy, At
<1>12. FlowFits' /\ WishesKept'
  BY <1>1, <1>2, <1>3, <1>5 DEF IndInv, FlowFits, WishesKept, FlowWishes, Busy, At, InDialog
<1>13. QED
  BY <1>6, <1>7, <1>8, <1>9, <1>10, <1>11, <1>12 DEF IndInv

LEMMA SetKeeps == ASSUME IndInv, SetCatalogues PROVE IndInv'
<1>0. Types /\ Waits /\ FlowLists
  BY DEF IndInv
<1>1. /\ Busy({"asked"}) /\ backend.cmd = "set" /\ failed' = Failing(backend.list)
      /\ ("backend" \notin outdated' <=> "flow" \notin outdated) /\ ("flow" \in outdated' <=> "flow" \in outdated)
      /\ outdated' \in SUBSET {"backend", "flow", "tool"} /\ ("tool" \in outdated' <=> "tool" \in outdated)
      /\ UNCHANGED <<installed, conf, sources, flow, tool, past, events>>
  BY <1>0 DEF SetCatalogues, Asked, Busy, Types, FileTypes
<1>2. At("setting") /\ backend.list = flow.list /\ flow.list \in SUBSET Catalogue /\ backend.ok \in BOOLEAN
  BY <1>0, <1>1, NoFlowFacts DEF Waits, FlowLists, FlowCovers, Busy, At, Types, Backend
<1>3. CASE flow.null /\ backend' = Answer({})
  <2>1. backend' \in Backend /\ backend'.phase = "answered" /\ backend'.cmd = "set"
    BY <1>0, <1>1, <1>3, AnswerFacts DEF Types
  <2>2. failed' \in SUBSET Places
    BY <1>1, <1>2, ListTypes
  <2>3. Types'
    BY <1>0, <1>1, <2>1, <2>2 DEF Types, FileTypes
  <2>4. Lists' /\ Waits' /\ SourcesFollow' /\ ErrorsBelong'
    BY <1>0, <1>1, <1>2, <2>1 DEF IndInv, Lists, Waits, SourcesFollow, ErrorsBelong, Busy, At, Clean
  <2>5. FlowFits' /\ FlowLists' /\ WriterLists'
    BY <1>0, <1>1, <1>2, <2>1 DEF IndInv, FlowFits, FlowLists, FlowCovers, WriterLists, Busy, At, InDialog, Undisturbed
  <2>6. ErrorsOnTheirWay' /\ WishesKept'
    BY <1>0, <1>1, <1>2, <2>1 DEF IndInv, ErrorsOnTheirWay, WishesKept, FlowWishes, Busy, At, Undisturbed
  <2>7. QED
    BY <2>3, <2>4, <2>5, <2>6 DEF IndInv
<1>4. CASE ~flow.null /\ backend' = [backend EXCEPT !.phase = "conf", !.list = Cleared(backend.list)]
  <2>0. Cleared(backend.list) \in SUBSET Catalogue /\ Clean(Cleared(backend.list))
    BY <1>2, ClearedMember DEF Clean
  <2>1. /\ backend' \in Backend /\ backend'.phase = "conf" /\ backend'.cmd = "set"
        /\ backend'.list = Cleared(flow.list)
    BY <1>0, <1>1, <1>2, <1>4, <2>0 DEF Types, Backend
  <2>2. failed' \in SUBSET Places
    BY <1>1, <1>2, ListTypes
  <2>3. Types'
    BY <1>0, <1>1, <2>1, <2>2 DEF Types, FileTypes
  <2>4. Lists' /\ Waits' /\ SourcesFollow' /\ ErrorsBelong'
    BY <1>0, <1>1, <1>2, <2>0, <2>1 DEF IndInv, Lists, Waits, SourcesFollow, ErrorsBelong, Busy, At, Clean
  <2>5. FlowFits' /\ FlowLists'
    BY <1>0, <1>1, <1>2, <2>1 DEF IndInv, FlowFits, FlowLists, FlowCovers, Busy, At, InDialog, Undisturbed
  <2>6. "flow" \notin outdated => Whole(Cleared(flow.list), installed)
    BY <1>0, <1>2, <1>4, ClearedWhole DEF FlowLists, FlowCovers, At, Undisturbed
  <2>7. WriterLists'
    BY <1>0, <1>1, <1>2, <2>1, <2>6 DEF IndInv, WriterLists, Busy, Undisturbed
  <2>8. ErrorsOnTheirWay' /\ WishesKept'
    BY <1>0, <1>1, <1>2, <2>1 DEF IndInv, ErrorsOnTheirWay, WishesKept, FlowWishes, Busy, At, Undisturbed
  <2>9. QED
    BY <2>3, <2>4, <2>5, <2>7, <2>8 DEF IndInv
<1>5. QED
  BY <1>3, <1>4 DEF SetCatalogues

LEMMA CheckKeeps == ASSUME IndInv, CheckUpdates PROVE IndInv'
<1> DEFINE list == Read(conf, installed)
<1>0. Types /\ Waits
  BY DEF IndInv
<1>1. /\ Busy({"asked"}) /\ backend.cmd = "update" /\ failed' = {} /\ outdated' = outdated \ {"backend"}
      /\ backend' = [backend EXCEPT !.phase = "conf", !.list = Cleared(list)]
      /\ UNCHANGED <<installed, conf, sources, flow, tool, past, events>>
  BY DEF CheckUpdates, Asked, Busy
<1>2. list \in SUBSET Catalogue /\ Clean(list) /\ Cleared(list) = list /\ Whole(list, installed)
  BY <1>0, FileFacts, ReadWhole DEF Types, FileTypes, Clean
<1> HIDE DEF list
<1>3. backend' \in Backend /\ backend'.phase = "conf" /\ backend'.cmd = "update" /\ backend'.list = list
  BY <1>0, <1>1, <1>2 DEF Types, Backend
<1>4. Types'
  BY <1>0, <1>1, <1>3 DEF Types, FileTypes
<1>5. Lists' /\ Waits' /\ SourcesFollow' /\ ErrorsBelong'
  BY <1>0, <1>1, <1>2, <1>3 DEF IndInv, Lists, Waits, SourcesFollow, ErrorsBelong, Busy, At, Clean
<1>6. At("updating")
  BY <1>0, <1>1 DEF Waits, Busy, At
<1>7. FlowFits' /\ FlowLists'
  BY <1>0, <1>1, <1>3, <1>6 DEF IndInv, FlowFits, FlowLists, FlowCovers, Busy, At, InDialog
<1>8. WriterLists'
  BY <1>1, <1>2, <1>3 DEF IndInv, WriterLists, Busy, Undisturbed, list
<1>9. ErrorsOnTheirWay' /\ WishesKept'
  BY <1>0, <1>1, <1>3, <1>6 DEF IndInv, ErrorsOnTheirWay, WishesKept, FlowWishes, Busy, At, Undisturbed
<1>10. QED
  BY <1>4, <1>5, <1>7, <1>8, <1>9 DEF IndInv

LEMMA WriteConfKeeps == ASSUME IndInv, WriteConf PROVE IndInv'
<1>0. Types /\ Waits /\ WriterLists /\ WishesKept
  BY DEF IndInv
<1>1. /\ Busy({"conf"}) /\ conf' = Written(backend.list) /\ outdated' = outdated \cup {"flow", "tool"}
      /\ backend' = [backend EXCEPT !.phase = "sources"] /\ past' = [past EXCEPT !.fresh = FALSE]
      /\ UNCHANGED <<installed, sources, failed, flow, tool, events>>
  BY DEF WriteConf, Busy, Others
<1>2. /\ backend' \in Backend /\ backend'.phase = "sources" /\ backend'.cmd = backend.cmd
      /\ backend'.list = backend.list
  BY <1>0, <1>1 DEF Types, Backend
<1>3. /\ past' \in History /\ past'.fresh = FALSE /\ past'.stored = past.stored
      /\ past'.failing = past.failing /\ past'.moved = past.moved
  BY <1>0, <1>1 DEF Types, History
<1>4. backend.list \in SUBSET Catalogue /\ Clean(backend.list)
  BY <1>0, <1>1 DEF IndInv, Lists, Types, Backend, Busy
<1>5. Types'
  BY <1>0, <1>1, <1>2, <1>3, <1>4, WrittenClean DEF Types, FileTypes
<1>6. Lists' /\ Waits' /\ SourcesFollow' /\ ErrorsBelong'
  BY <1>1, <1>2, <1>3, <1>4 DEF IndInv, Lists, Waits, SourcesFollow, ErrorsBelong, Busy, At, Clean
<1>7. FlowFits' /\ FlowLists'
  BY <1>1, <1>2 DEF IndInv, FlowFits, FlowLists, FlowCovers, Busy, At, InDialog, Undisturbed
<1>8. WriterLists'
  BY <1>0, <1>1, <1>2 DEF WriterLists, Busy, Undisturbed
<1>9. ErrorsOnTheirWay'
  BY <1>1, <1>2, <1>3 DEF IndInv, ErrorsOnTheirWay, Busy, At
\* A refresh writes the wishes that it has read.
<1>10. past.stored => Read(conf', installed) = Read(conf, installed)
  <2>1. past.stored => backend.cmd = "update" /\ Undisturbed("backend")
    BY <1>0, <1>1 DEF WishesKept, FlowWishes, Waits, Busy
  <2>2. past.stored => backend.list = Read(conf, installed)
    BY <1>0, <1>1, <2>1 DEF WriterLists
  <2>3. QED
    BY <1>0, <1>1, <2>2, FileFacts
<1>11. WishesKept'
  BY <1>0, <1>1, <1>2, <1>3, <1>10 DEF WishesKept, FlowWishes, Busy, At, Undisturbed
<1>12. QED
  BY <1>5, <1>6, <1>7, <1>8, <1>9, <1>11 DEF IndInv

\* What comes after the files.
LEMMA AfterFacts ==
  ASSUME backend \in Backend, Busy({"conf", "sources"}), backend.cmd \in {"set", "update"}
  PROVE  /\ AfterFiles \in Backend /\ AfterFiles.cmd = backend.cmd /\ AfterFiles.ok = backend.ok
         /\ \/ backend.cmd = "update" /\ AfterFiles.phase = "download" /\ AfterFiles.list = backend.list
            \/ backend.cmd = "set" /\ AfterFiles.phase = "answered" /\ AfterFiles.list = {}
  BY AnswerFacts DEF AfterFiles, Backend

LEMMA WriteSourcesKeeps == ASSUME IndInv, WriteSources PROVE IndInv'
<1> DEFINE kept == Undisturbed("backend")
<1>0. Types /\ Waits /\ WriterLists /\ WishesKept
  BY DEF IndInv
<1>1. /\ Busy({"sources"}) /\ sources' = Listed(backend.list) /\ backend' = AfterFiles
      /\ past' = [past EXCEPT !.fresh = kept, !.stored = @ \/ (backend.cmd = "set" /\ kept)]
      /\ UNCHANGED <<installed, conf, failed, flow, tool, outdated, events>>
  BY DEF WriteSources, Busy, Undisturbed
<1>2. /\ backend' \in Backend /\ backend'.cmd = backend.cmd /\ backend'.phase \in {"download", "answered"}
      /\ backend'.phase = "download" => backend.cmd = "update" /\ backend'.list = backend.list
      /\ backend'.phase = "answered" => backend.cmd = "set"
  BY <1>0, <1>1, AfterFacts DEF Types, Waits, Busy
<1>3. kept \in BOOLEAN
  BY DEF Undisturbed
<1> HIDE DEF kept
<1>4. /\ past' \in History /\ past'.failing = past.failing /\ past'.moved = past.moved
      /\ past'.fresh = kept /\ (past'.stored <=> past.stored \/ (backend.cmd = "set" /\ kept))
  <2>1. CASE past.stored \/ (backend.cmd = "set" /\ kept)
    <3>1. past' = [past EXCEPT !.fresh = kept, !.stored = TRUE]
      BY <1>0, <1>1, <2>1 DEF Types, History
    <3>2. QED
      BY <1>0, <1>3, <2>1, <3>1 DEF Types, History
  <2>2. CASE ~(past.stored \/ (backend.cmd = "set" /\ kept))
    <3>1. past' = [past EXCEPT !.fresh = kept, !.stored = FALSE]
      BY <1>0, <1>1, <2>2 DEF Types, History
    <3>2. QED
      BY <1>0, <1>3, <2>2, <3>1 DEF Types, History
  <2>3. QED
    BY <2>1, <2>2
<1>5. backend.list \in SUBSET Catalogue /\ Clean(backend.list) /\ installed \in SUBSET Packages
  BY <1>0, <1>1 DEF IndInv, Lists, Types, FileTypes, Backend, Busy
<1>6. Types'
  BY <1>0, <1>1, <1>2, <1>4, <1>5, ListTypes DEF Types, FileTypes
<1>7. kept => Enabled(Read(conf, installed)) = Enabled(backend.list)
  BY <1>0, <1>1, <1>5, EnabledWritten DEF WriterLists, Busy, kept
<1>8. Lists' /\ Waits' /\ SourcesFollow' /\ ErrorsBelong'
  BY <1>1, <1>2, <1>4, <1>5, <1>7 DEF IndInv, Lists, Waits, SourcesFollow, ErrorsBelong, Listed, Busy, At, Clean
<1>9. FlowFits' /\ FlowLists'
  BY <1>0, <1>1, <1>2 DEF IndInv, FlowFits, FlowLists, FlowCovers, Busy, At, InDialog, Undisturbed
<1>10. WriterLists' /\ ErrorsOnTheirWay'
  BY <1>0, <1>1, <1>2, <1>4 DEF IndInv, WriterLists, ErrorsOnTheirWay, Busy, At, Undisturbed
\* A change of the catalogues stores the wishes.
<1>11. ASSUME backend.cmd = "set", kept, flow.kind = "install"
       PROVE  flow.step = "setting" /\ flow.wanted \cap Addable \subseteq Enabled(Read(conf, installed))
  <2>1. At("setting")
    BY <1>0, <1>1, <1>11, NoFlowFacts DEF Waits, Busy, At
  <2>2. backend.list = Cleared(flow.list) /\ flow.wanted \cap Addable \subseteq Enabled(flow.list)
    BY <1>0, <1>1, <1>11, <2>1 DEF IndInv, FlowLists, FlowCovers, WishesKept, FlowWishes, Busy
  <2>3. flow.list \in SUBSET Catalogue
    BY <1>0 DEF Types, Flow
  <2>4. Enabled(Cleared(flow.list)) = Enabled(flow.list)
    BY <2>3, ClearedMember, ClearedRelabels, RelabelledSame
  <2>5. QED
    BY <1>7, <1>11, <2>1, <2>2, <2>4 DEF At
<1>12. WishesKept'
  BY <1>0, <1>1, <1>2, <1>4, <1>11 DEF WishesKept, FlowWishes, Busy, At
<1>13. QED
  BY <1>6, <1>8, <1>9, <1>10, <1>12 DEF IndInv

LEMMA WriteFailsKeeps == ASSUME IndInv, WriteFails PROVE IndInv'
<1>0. Types /\ Waits /\ WriterLists /\ WishesKept
  BY DEF IndInv
<1>1. /\ Busy({"conf", "sources"}) /\ Count /\ backend' = AfterFiles /\ past' = [past EXCEPT !.fresh = FALSE]
      /\ sources' = sources \/ sources' \in SUBSET Listed(backend.list)
      /\ UNCHANGED <<installed, conf, failed, flow, tool, outdated>>
  BY DEF WriteFails, Busy
<1>2. /\ backend' \in Backend /\ backend'.cmd = backend.cmd /\ backend'.phase \in {"download", "answered"}
      /\ backend'.phase = "download" => backend.cmd = "update" /\ backend'.list = backend.list
      /\ backend'.phase = "answered" => backend.cmd = "set"
  BY <1>0, <1>1, AfterFacts DEF Types, Waits, Busy
<1>3. /\ past' \in History /\ past'.fresh = FALSE /\ past'.stored = past.stored
      /\ past'.failing = past.failing /\ past'.moved = past.moved
  BY <1>0, <1>1 DEF Types, History
<1>4. backend.list \in SUBSET Catalogue /\ Clean(backend.list)
  BY <1>0, <1>1 DEF IndInv, Lists, Types, Backend, Busy
<1>5. sources' \in SUBSET Places
  BY <1>0, <1>1, <1>4, ListTypes DEF Types, FileTypes
<1>6. Types'
  BY <1>0, <1>1, <1>2, <1>3, <1>5, FileFacts DEF Types, FileTypes
<1>7. Lists' /\ Waits' /\ SourcesFollow' /\ ErrorsBelong'
  BY <1>1, <1>2, <1>3, <1>4 DEF IndInv, Lists, Waits, SourcesFollow, ErrorsBelong, Busy, At, Clean
<1>8. FlowFits' /\ FlowLists'
  BY <1>0, <1>1, <1>2 DEF IndInv, FlowFits, FlowLists, FlowCovers, Busy, At, InDialog, Undisturbed
<1>9. WriterLists' /\ ErrorsOnTheirWay' /\ WishesKept'
  BY <1>0, <1>1, <1>2, <1>3 DEF IndInv, WriterLists, ErrorsOnTheirWay, WishesKept, FlowWishes, Busy, At, Undisturbed
<1>10. QED
  BY <1>6, <1>7, <1>8, <1>9 DEF IndInv

LEMMA DownloadKeeps == ASSUME IndInv, NEW places \in SUBSET Places, Download(places) PROVE IndInv'
<1> DEFINE list == Blamed(backend.list, places)
<1>0. Types /\ Waits /\ WriterLists /\ WishesKept
  BY DEF IndInv
<1>1. /\ Busy({"download"}) /\ failed' = Failing(list) /\ backend' = Answer(list)
      /\ past' = [past EXCEPT !.failing = places, !.moved = {}]
      /\ UNCHANGED <<installed, conf, sources, flow, tool, outdated, events>>
  BY DEF Download, Busy
<1>2. list \in SUBSET Catalogue /\ Failing(list) \subseteq places
  <2>1. backend.list \in SUBSET Catalogue
    BY <1>0 DEF Types, Backend
  <2>2. list \in SUBSET Catalogue /\ \A x \in list : x.errors => x.place \in places
    BY <2>1, BlamedMember
  <2> HIDE DEF list
  <2>3. QED
    BY <2>2 DEF Failing, PlacesOf
<1> HIDE DEF list
<1>3. At("updating") /\ backend.cmd = "update"
  BY <1>0, <1>1 DEF Waits, Busy, At
<1>4. backend' \in Backend /\ backend'.phase = "answered" /\ backend'.cmd = "update"
  BY <1>0, <1>1, <1>2, <1>3, AnswerFacts DEF Types
<1>5. /\ past' \in History /\ past'.failing = places /\ past'.moved = {}
      /\ past'.fresh = past.fresh /\ past'.stored = past.stored
  BY <1>0, <1>1 DEF Types, History
<1>6. Types'
  BY <1>0, <1>1, <1>2, <1>4, <1>5 DEF Types, FileTypes
<1>7. Lists' /\ Waits' /\ SourcesFollow' /\ ErrorsBelong'
  BY <1>1, <1>2, <1>3, <1>4, <1>5 DEF IndInv, Lists, Waits, SourcesFollow, ErrorsBelong, Busy, At
<1>8. FlowFits' /\ FlowLists' /\ WriterLists'
  BY <1>0, <1>1, <1>3, <1>4 DEF IndInv, FlowFits, FlowLists, FlowCovers, WriterLists, Busy, At, InDialog, Undisturbed
<1>9. ErrorsOnTheirWay' /\ WishesKept'
  BY <1>0, <1>1, <1>3, <1>4, <1>5 DEF ErrorsOnTheirWay, WishesKept, FlowWishes, Busy, At
<1>10. QED
  BY <1>6, <1>7, <1>8, <1>9 DEF IndInv

LEMMA CrashKeeps == ASSUME IndInv, Crash PROVE IndInv'
<1>0. Types /\ Waits /\ WriterLists /\ WishesKept
  BY DEF IndInv
<1>1. /\ Busy({"asked", "conf", "sources", "download"}) /\ Count
      /\ backend' = [Answer({}) EXCEPT !.ok = FALSE]
      /\ \/ sources' = sources /\ past' = past
         \/ sources' \in SUBSET Listed(backend.list) /\ past' = [past EXCEPT !.fresh = FALSE]
      /\ UNCHANGED <<installed, conf, failed, flow, tool, outdated>>
  BY DEF Crash, Busy
<1>2. /\ backend' \in Backend /\ backend'.phase = "answered" /\ backend'.cmd = backend.cmd
      /\ backend'.list = {} /\ backend'.ok = FALSE
  BY <1>0, <1>1 DEF Types, Backend, Answer
<1>3. /\ past' \in History /\ past'.stored = past.stored
      /\ past'.failing = past.failing /\ past'.moved = past.moved
      /\ past'.fresh = FALSE \/ (past'.fresh = past.fresh /\ sources' = sources)
  BY <1>0, <1>1 DEF Types, History
<1>4. sources' \in SUBSET Places
  BY <1>0, <1>1, ListTypes DEF Types, FileTypes, Backend
<1>5. Types'
  BY <1>0, <1>1, <1>2, <1>3, <1>4, FileFacts DEF Types, FileTypes
<1>6. Lists' /\ Waits' /\ SourcesFollow' /\ ErrorsBelong'
  BY <1>0, <1>1, <1>2, <1>3 DEF IndInv, Lists, Waits, SourcesFollow, ErrorsBelong, Busy, At, Clean
<1>7. FlowFits' /\ FlowLists'
  BY <1>0, <1>1, <1>2 DEF IndInv, FlowFits, FlowLists, FlowCovers, Busy, At, InDialog, Undisturbed
<1>8. WriterLists' /\ WishesKept'
  BY <1>0, <1>1, <1>2, <1>3 DEF WriterLists, WishesKept, FlowWishes, Busy, At, Undisturbed
<1>9. ErrorsOnTheirWay'
  <2>1. Failing({}) = {}
    BY DEF Failing, PlacesOf
  <2>2. QED
    BY <1>1, <1>2, <1>3, <2>1 DEF IndInv, ErrorsOnTheirWay, Busy, At
<1>10. QED
  BY <1>5, <1>6, <1>7, <1>8, <1>9 DEF IndInv

-----------------------------------------------------------------------------
(* The Application Manager *)

\* A flow asks the backend for something.
LEMMA AskKeeps ==
  ASSUME IndInv, UNCHANGED <<Disk, tool, outdated>>, events' \in 0 .. MaxEvents,
         NEW cmd \in {"get", "set", "update"}, NEW l \in SUBSET Catalogue, Ask(cmd, l),
         flow' \in Flow, past' \in History, past'.fresh = past.fresh,
         past'.failing = past.failing, past'.moved = past.moved,
         \/ cmd = "get" /\ flow'.step = "getting"
         \/ cmd = "update" /\ flow'.step = "updating"
         \/ cmd = "set" /\ flow'.step = "setting" /\ l = flow'.list /\ past'.stored = FALSE,
         FlowFits', FlowCovers', FlowWishes',
         flow'.step = "setting" => Failing(flow'.list) \subseteq past.failing \cup past.moved
  PROVE  IndInv'
<1>1. /\ backend' \in Backend /\ backend'.phase = "asked" /\ backend'.cmd = cmd /\ backend'.list = l
  BY AskFacts
<1>2. Types'
  BY <1>1 DEF IndInv, Types, FileTypes, Clean, Disk
<1>3. Lists' /\ Waits'
  BY <1>1 DEF IndInv, Lists, Waits, Busy, At, Disk, Clean
<1>4. SourcesFollow' /\ ErrorsBelong'
  BY <1>1 DEF IndInv, SourcesFollow, ErrorsBelong, At, Disk
<1>5. WriterLists'
  BY <1>1 DEF IndInv, WriterLists, Disk, Busy, Undisturbed
<1>6. ErrorsOnTheirWay' /\ FlowLists' /\ WishesKept'
  BY <1>1 DEF ErrorsOnTheirWay, FlowLists, WishesKept, Busy, At
<1>7. QED
  BY <1>2, <1>3, <1>4, <1>5, <1>6 DEF IndInv

\* A flow goes on while the backend has nothing to do.
LEMMA MoveKeeps ==
  ASSUME IndInv, UNCHANGED <<Disk, tool, outdated>>, events' \in 0 .. MaxEvents,
         backend' = Idle \/ (backend' = backend /\ Busy({"idle"})),
         flow' \in Flow, flow'.step \in {"network", "editing", "asking", "installing"},
         past' \in History, past'.fresh = past.fresh, past'.stored = past.stored,
         past'.failing = past.failing, past.moved \subseteq past'.moved,
         FlowFits', FlowCovers', FlowWishes',
         flow'.step \in {"editing", "asking"} =>
           Failing(flow'.list) \subseteq past'.failing \cup past'.moved
  PROVE  IndInv'
<1>1. backend' \in Backend /\ backend'.phase = "idle"
  BY IdleFacts DEF IndInv, Types, Busy
<1>2. Types'
  BY <1>1 DEF IndInv, Types, FileTypes, Clean, Disk
<1>3. Lists' /\ Waits'
  BY <1>1 DEF IndInv, Lists, Waits, Busy, At, Disk, Clean
<1>4. SourcesFollow' /\ ErrorsBelong'
  BY <1>1 DEF IndInv, SourcesFollow, ErrorsBelong, At, Disk
<1>5. WriterLists'
  BY <1>1 DEF IndInv, WriterLists, Disk, Busy, Undisturbed
<1>6. ErrorsOnTheirWay' /\ FlowLists' /\ WishesKept'
  BY <1>1 DEF ErrorsOnTheirWay, FlowLists, WishesKept, Busy, At
<1>7. QED
  BY <1>2, <1>3, <1>4, <1>5, <1>6 DEF IndInv

LEMMA IndFacts ==
  ASSUME IndInv
  PROVE  /\ Types /\ Lists /\ Waits /\ SourcesFollow /\ ErrorsBelong /\ FlowFits /\ FlowLists
         /\ WriterLists /\ ErrorsOnTheirWay /\ WishesKept /\ FlowCovers /\ FlowWishes
         /\ flow \in Flow /\ backend \in Backend /\ tool \in Tool /\ past \in History
         /\ flow.list \in SUBSET Catalogue /\ events \in 0 .. MaxEvents
         /\ Count => events' \in 0 .. MaxEvents
<1>1. Types
  BY DEF IndInv
<1>2. Count => events' \in 0 .. MaxEvents
  BY <1>1, FileFacts
<1>3. QED
  BY <1>1, <1>2 DEF IndInv, FlowLists, WishesKept, Types, FileTypes, Flow

LEMMA OpenDialogKeeps ==
  ASSUME IndInv, NEW kind \in {"dialog", "errors"}, OpenDialog(kind) PROVE IndInv'
<1> DEFINE f == [NoFlow EXCEPT !.kind = kind]
           g == [f EXCEPT !.first = TRUE]
<1>1. /\ Busy({"idle"}) /\ Count /\ UNCHANGED <<Disk, tool, outdated, past>>
      /\ \/ Ask("get", {}) /\ GoTo(f, "getting")
         \/ GoTo(g, "network") /\ UNCHANGED backend
  BY DEF OpenDialog, Busy
<1>2. f \in Flow /\ f.kind = kind
  BY NoFlowFacts DEF Flow
<1> HIDE DEF f
<1>3. g \in Flow /\ g.kind = kind
  BY <1>2 DEF Flow
<1> HIDE DEF g
<1>4. CASE Ask("get", {}) /\ GoTo(f, "getting")
  <2>1. flow' \in Flow /\ flow'.step = "getting" /\ flow'.kind = kind
    BY <1>2, <1>4, GoToFacts
  <2>2. FlowFits' /\ FlowCovers' /\ FlowWishes'
    BY <2>1 DEF FlowFits, FlowCovers, FlowWishes, At, InDialog
  <2>3. QED
    BY <1>1, <1>4, <2>1, <2>2, AskKeeps, IndFacts
<1>5. CASE GoTo(g, "network") /\ UNCHANGED backend
  <2>1. flow' \in Flow /\ flow'.step = "network" /\ flow'.kind = kind
    BY <1>3, <1>5, GoToFacts
  <2>2. FlowFits' /\ FlowCovers' /\ FlowWishes'
    BY <2>1 DEF FlowFits, FlowCovers, FlowWishes, At, InDialog
  <2>3. QED
    BY <1>1, <1>5, <2>1, <2>2, MoveKeeps, IndFacts
<1>6. QED
  BY <1>1, <1>4, <1>5

LEMMA OpenInstructionsKeeps ==
  ASSUME IndInv, NEW kind \in {"add", "install"}, NEW places \in SUBSET Places,
         OpenInstructions(kind, places)
  PROVE  IndInv'
<1> DEFINE f == [NoFlow EXCEPT !.kind = kind, !.rest = places, !.wanted = places]
<1>1. /\ Count /\ UNCHANGED <<Disk, tool, outdated, past>> /\ Ask("get", {}) /\ GoTo(f, "getting")
  BY DEF OpenInstructions
<1>2. f \in Flow /\ f.kind = kind /\ f.rest = places /\ f.wanted = places /\ f.first = FALSE
  BY NoFlowFacts DEF Flow
<1> HIDE DEF f
<1>3. /\ flow' \in Flow /\ flow'.step = "getting" /\ flow'.kind = kind
      /\ flow'.rest = flow'.wanted /\ flow'.first = FALSE
  BY <1>1, <1>2, GoToFacts
<1>4. FlowFits' /\ FlowCovers' /\ FlowWishes'
  BY <1>3 DEF FlowFits, FlowCovers, FlowWishes, At, InDialog
<1>5. QED
  BY <1>1, <1>3, <1>4, AskKeeps, IndFacts

LEMMA AfterRefreshKeeps ==
  ASSUME IndInv, flow.step \in {"network", "updating"}, NEW keep \in BOOLEAN, AfterRefresh(keep),
         UNCHANGED <<Disk, tool, outdated, past, events>>
  PROVE  IndInv'
<1> DEFINE f == [flow EXCEPT !.first = FALSE]
<1>1. f \in Flow /\ f.kind = flow.kind
  BY IndFacts DEF Flow
<1>2. CASE flow.first
  <2>1. Ask("get", {}) /\ GoTo(f, "getting")
    BY <1>2 DEF AfterRefresh
  <2> HIDE DEF f
  <2>2. flow' \in Flow /\ flow'.step = "getting" /\ flow'.kind # "install"
    BY <1>1, <1>2, <2>1, GoToFacts, IndFacts DEF FlowFits
  <2>3. FlowFits' /\ FlowCovers' /\ FlowWishes'
    BY <2>2 DEF FlowFits, FlowCovers, FlowWishes, At, InDialog
  <2>4. QED
    BY <2>1, <2>2, <2>3, AskKeeps, IndFacts
<1>3. CASE ~flow.first /\ flow.kind = "install" /\ keep
  <2>1. backend' = Idle /\ GoTo(flow, "installing")
    BY <1>3 DEF AfterRefresh
  <2>2. /\ flow' \in Flow /\ flow'.step = "installing" /\ flow'.kind = flow.kind
        /\ flow'.first = flow.first /\ flow'.wanted = flow.wanted
    BY <2>1, GoToFacts, IndFacts
  <2>3. FlowFits' /\ FlowCovers' /\ FlowWishes'
    BY <1>3, <2>2, IndFacts DEF FlowFits, FlowCovers, FlowWishes, At, InDialog, Disk
  <2>4. QED
    BY <2>1, <2>2, <2>3, MoveKeeps, IndFacts
<1>4. CASE ~flow.first /\ ~(flow.kind = "install" /\ keep)
  BY <1>4, FlowEnds, IndFacts DEF AfterRefresh
<1>5. QED
  BY <1>2, <1>3, <1>4

LEMMA RefreshStepKeeps == ASSUME IndInv, Refresh \/ Refreshed PROVE IndInv'
<1>1. CASE At("network") /\ Ask("update", {}) /\ GoTo(flow, "updating")
           /\ UNCHANGED <<Disk, tool, outdated, past, events>>
  <2>1. /\ flow' \in Flow /\ flow'.step = "updating" /\ flow'.kind = flow.kind
        /\ flow'.first = flow.first /\ flow'.wanted = flow.wanted
    BY <1>1, GoToFacts, IndFacts
  <2>2. FlowFits' /\ FlowCovers' /\ FlowWishes'
    BY <1>1, <2>1, IndFacts DEF FlowFits, FlowCovers, FlowWishes, At, InDialog, Disk
  <2>3. QED
    BY <1>1, <2>1, <2>2, AskKeeps, IndFacts
<1>2. CASE \E keep \in BOOLEAN : flow.step \in {"network", "updating"} /\ AfterRefresh(keep)
                                 /\ UNCHANGED <<Disk, tool, outdated, past, events>>
  BY <1>2, AfterRefreshKeeps
<1>3. QED
  BY <1>1, <1>2 DEF Refresh, Refreshed, At

\* Between its questions a flow leaves the backend alone.
LEMMA IdleInBetween ==
  ASSUME IndInv, flow.step \in {"editing", "asking", "installing", "network"} PROVE Busy({"idle"})
  BY IndFacts, NoFlowFacts DEF Waits, At

LEMMA GotKeeps == ASSUME IndInv, GotCatalogues PROVE IndInv'
<1> DEFINE f == [flow EXCEPT !.list = backend.list, !.null = ~backend.ok]
<1>1. /\ At("getting") /\ Busy({"answered"}) /\ backend' = Idle
      /\ \/ InDialog /\ GoTo(f, "editing")
         \/ ~InDialog /\ backend.ok /\ GoTo(f, "asking")
         \/ flow' = NoFlow
      /\ UNCHANGED <<Disk, tool, outdated, past, events>>
  BY DEF GotCatalogues, Busy
<1>2. backend.cmd = "get" /\ backend.list \in SUBSET Catalogue
  BY <1>1, IndFacts DEF Waits, Backend
<1>3. /\ f \in Flow /\ f.list = backend.list /\ f.kind = flow.kind /\ f.first = flow.first
      /\ f.rest = flow.rest /\ f.wanted = flow.wanted /\ (f.null <=> ~backend.ok)
  <2>1. CASE backend.ok
    <3>1. f = [flow EXCEPT !.list = backend.list, !.null = FALSE]
      BY <2>1
    <3>2. QED
      BY <1>2, <2>1, <3>1, IndFacts DEF Flow
  <2>2. CASE ~backend.ok
    <3>1. f = [flow EXCEPT !.list = backend.list, !.null = TRUE]
      BY <2>2
    <3>2. QED
      BY <1>2, <2>2, <3>1, IndFacts DEF Flow
  <2>3. QED
    BY <2>1, <2>2
<1> HIDE DEF f
<1>4. CASE flow' = NoFlow
  BY <1>1, <1>4, FlowEnds, IndFacts
<1>5. ASSUME NEW step \in {"editing", "asking"}, GoTo(f, step),
             step = "editing" => InDialog, step = "asking" => ~InDialog
      PROVE  IndInv'
  <2>1. /\ flow' \in Flow /\ flow'.step = step /\ flow'.list = backend.list /\ flow'.kind = flow.kind
        /\ flow'.first = flow.first /\ flow'.rest = flow.rest /\ flow'.wanted = flow.wanted
        /\ (flow'.null <=> ~backend.ok)
    BY <1>3, <1>5, GoToFacts
  <2>2. FlowFits' /\ FlowWishes'
    BY <1>1, <1>5, <2>1, IndFacts DEF FlowFits, FlowWishes, At, InDialog
  <2>3. FlowCovers'
    BY <1>1, <1>2, <2>1, IndFacts DEF FlowCovers, FlowLists, At, Undisturbed, Disk
  <2>4. Failing(flow'.list) \subseteq past.failing \cup past.moved
    BY <1>1, <1>2, <2>1, IndFacts DEF ErrorsOnTheirWay
  <2>5. QED
    BY <1>1, <2>1, <2>2, <2>3, <2>4, MoveKeeps, IndFacts
<1>6. QED
  BY <1>1, <1>4, <1>5

LEMMA CloseEarlyKeeps == ASSUME IndInv, CloseEarly PROVE IndInv'
<1>1. At("getting") /\ flow' = NoFlow /\ UNCHANGED <<Disk, backend, tool, outdated, past, events>>
  BY DEF CloseEarly
<1>2. flow' \in Flow /\ flow'.kind = "none" /\ flow'.step = "none"
  BY <1>1, NoFlowFacts
<1>3. Types' /\ Lists' /\ Waits'
  BY <1>1, <1>2, IndFacts DEF Types, FileTypes, Clean, Lists, Waits, Busy, At, Disk
<1>4. SourcesFollow' /\ ErrorsBelong' /\ FlowFits'
  BY <1>1, <1>2, IndFacts DEF SourcesFollow, ErrorsBelong, FlowFits, At, InDialog, Disk
<1>5. FlowLists'
  BY <1>1, <1>2, IndFacts DEF FlowLists, FlowCovers, Waits, Busy, At, Undisturbed, Disk
<1>6. WriterLists' /\ ErrorsOnTheirWay' /\ WishesKept'
  BY <1>1, <1>2, IndFacts DEF WriterLists, ErrorsOnTheirWay, WishesKept, FlowWishes, Busy, At, Undisturbed, Disk
<1>7. QED
  BY <1>3, <1>4, <1>5, <1>6 DEF IndInv

LEMMA EndKeeps == ASSUME IndInv, Ignored \/ Installed PROVE IndInv'
<1>1. CASE Ignored
  BY <1>1, FlowEnds, IndFacts DEF Ignored
<1>2. CASE Installed
  BY <1>2, FlowEnds, IndFacts, IdleInBetween DEF Installed, At
<1>3. QED
  BY <1>1, <1>2

LEMMA CataloguesSetKeeps == ASSUME IndInv, CataloguesSet PROVE IndInv'
<1>1. /\ At("setting") /\ backend' = Idle /\ GoTo(flow, "network")
      /\ UNCHANGED <<Disk, tool, outdated, past, events>>
  BY DEF CataloguesSet
<1>2. /\ flow' \in Flow /\ flow'.step = "network" /\ flow'.kind = flow.kind
      /\ flow'.first = flow.first /\ flow'.wanted = flow.wanted
  BY <1>1, GoToFacts, IndFacts
<1>3. FlowFits' /\ FlowCovers' /\ FlowWishes'
  BY <1>1, <1>2, IndFacts DEF FlowFits, FlowCovers, FlowWishes, At, InDialog, Disk
<1>4. QED
  BY <1>1, <1>2, <1>3, MoveKeeps, IndFacts

\* The catalogues are given back to the backend.
LEMMA SetStepKeeps ==
  ASSUME IndInv, flow.step \in {"editing", "asking"}, At("asking") => flow.rest = {}, Set,
         UNCHANGED <<Disk, tool, outdated, events>>
  PROVE  IndInv'
<1>1. /\ Ask("set", flow.list) /\ GoTo(flow, "setting") /\ past' = [past EXCEPT !.stored = FALSE]
  BY DEF Set
<1>2. /\ flow' \in Flow /\ flow'.step = "setting" /\ flow'.kind = flow.kind /\ flow'.list = flow.list
      /\ flow'.first = flow.first /\ flow'.wanted = flow.wanted /\ flow'.null = flow.null
  BY <1>1, GoToFacts, IndFacts
<1>3. /\ past' \in History /\ past'.stored = FALSE /\ past'.fresh = past.fresh
      /\ past'.failing = past.failing /\ past'.moved = past.moved
  BY <1>1, IndFacts DEF History
<1>4. FlowFits' /\ FlowWishes'
  BY <1>2, <1>3, IndFacts DEF FlowFits, FlowWishes, At, InDialog
<1>5. FlowCovers'
  BY <1>2, IndFacts DEF FlowCovers, At, Undisturbed, Disk
<1>6. Failing(flow'.list) \subseteq past.failing \cup past.moved
  BY <1>2, IndFacts DEF ErrorsBelong, ErrorsOnTheirWay, At
<1>7. QED
  BY <1>1, <1>2, <1>3, <1>4, <1>5, <1>6, AskKeeps, IndFacts

LEMMA CloseKeeps == ASSUME IndInv, CloseDialog \/ AllAsked PROVE IndInv'
<1>1. CASE CloseDialog
  BY <1>1, SetStepKeeps, FlowEnds, IndFacts, IdleInBetween DEF CloseDialog, At
<1>2. CASE AllAsked
  BY <1>2, SetStepKeeps, FlowEnds, IndFacts, IdleInBetween DEF AllAsked, At
<1>3. QED
  BY <1>1, <1>2

\* What the dialog does to a list.
LEMMA ReplacedCovers ==
  ASSUME NEW list, NEW pkgs, Whole(list, pkgs), NEW c \in list, NEW x \in Catalogue,
         x.package = c.package, x.foreign = c.foreign, c.package # NoPackage => x.place = c.place
  PROVE  /\ (list \ {c}) \cup {x} \subseteq Catalogue
         /\ Packed((list \ {c}) \cup {x}) /\ Known((list \ {c}) \cup {x}, pkgs)
         /\ \A k : Has(list, k) => Has((list \ {c}) \cup {x}, k)
  BY DEF Whole, Packed, Known, Has

LEMMA OwnCovers ==
  ASSUME NEW list, NEW pkgs, Whole(list, pkgs), NEW c, NEW x \in Catalogue, x.package = NoPackage, ~x.foreign
  PROVE  /\ (list \ c) \cup {x} \subseteq Catalogue
         /\ Packed((list \ c) \cup {x}) /\ Known((list \ c) \cup {x}, pkgs)
  BY DEF Whole, Packed, Known

LEMMA EditKeeps == ASSUME IndInv, Edit PROVE IndInv'
<1> DEFINE Fit(list) == /\ list \subseteq Catalogue
                        /\ \A pkgs : /\ NoPackage \notin pkgs /\ Whole(flow.list, pkgs)
                                     /\ \A k \in pkgs : Has(flow.list, k)
                                     => Whole(list, pkgs) /\ \A k \in pkgs : Has(list, k)
<1>1. At("editing") /\ Count /\ UNCHANGED <<Disk, backend, tool, outdated>>
  BY DEF Edit
\* A change of the list that keeps all packages covered.
<1>2. ASSUME NEW list, Fit(list), Edited(list), past' \in History, past'.fresh = past.fresh,
             past'.stored = past.stored, past'.failing = past.failing, past.moved \subseteq past'.moved,
             Failing(list) \subseteq past'.failing \cup past'.moved
      PROVE  IndInv'
  <2>1. /\ flow' \in Flow /\ flow'.step = "editing" /\ flow'.kind = flow.kind /\ flow'.null = flow.null
        /\ flow'.first = flow.first /\ flow'.list = IF flow.null THEN {} ELSE list
    <3>1. (IF flow.null THEN {} ELSE list) \in SUBSET Catalogue
      BY <1>2
    <3>2. flow' = [flow EXCEPT !.list = IF flow.null THEN {} ELSE list, !.dirty = TRUE]
      BY <1>2 DEF Edited
    <3>3. QED
      BY <1>1, <3>1, <3>2, IndFacts DEF Flow, At
  <2>2. FlowFits' /\ FlowWishes'
    BY <1>1, <2>1, IndFacts DEF FlowFits, FlowWishes, At, InDialog
  <2>3. FlowCovers'
    <3>1. NoPackage \notin installed
      BY CataloguesAssumption, IndFacts DEF Types, FileTypes
    <3>2. QED
      BY <1>1, <1>2, <2>1, <3>1, IndFacts DEF FlowCovers, At, Undisturbed, Disk
  <2>4. Failing({}) = {}
    BY DEF Failing, PlacesOf
  <2>5. Failing(flow'.list) \subseteq past'.failing \cup past'.moved
    BY <1>2, <2>1, <2>4
  <2> HIDE DEF Fit
  <2>6. QED
    BY <1>1, <1>2, <2>1, <2>2, <2>3, <2>5, MoveKeeps, IndFacts, IdleInBetween DEF At
<1>3. Failing(flow.list) \subseteq past.failing \cup past.moved
  BY <1>1, IndFacts DEF ErrorsBelong
<1>4. \A c \in Visible : c \in flow.list /\ c \in Catalogue
  BY IndFacts DEF Visible
<1>5. ASSUME NEW c \in Visible, NEW d \in BOOLEAN, NEW q \in Places, c.package # NoPackage => q = c.place,
             Edited((flow.list \ {c}) \cup {[c EXCEPT !.disabled = d, !.place = q]}),
             past' = [past EXCEPT !.moved = @ \cup {r \in {q} : c.errors}]
      PROVE  IndInv'
  <2> DEFINE x == [c EXCEPT !.disabled = d, !.place = q]
             list == (flow.list \ {c}) \cup {x}
  <2>1. /\ x \in Catalogue /\ x.package = c.package /\ x.place = q /\ x.errors = c.errors
        /\ x.foreign = c.foreign
    BY <1>4, <1>5 DEF Catalogue
  <2> HIDE DEF x
  <2>2. Fit(list)
    <3>1. list \subseteq Catalogue
      BY <2>1, IndFacts
    <3>2. ASSUME NEW pkgs, Whole(flow.list, pkgs), \A k \in pkgs : Has(flow.list, k)
          PROVE  Whole(list, pkgs) /\ \A k \in pkgs : Has(list, k)
      BY <1>4, <1>5, <2>1, <3>2, ReplacedCovers DEF Whole
    <3> HIDE DEF list
    <3>3. QED
      BY <3>1, <3>2
  <2>3. /\ past' \in History /\ past'.fresh = past.fresh /\ past'.stored = past.stored
        /\ past'.failing = past.failing /\ past'.moved = past.moved \cup {r \in {q} : c.errors}
    BY <1>5, IndFacts DEF History
  <2>4. Failing(list) \subseteq past'.failing \cup past'.moved
    BY <1>3, <2>1, <2>3 DEF Failing, PlacesOf
  <2> HIDE DEF Fit
  <2>5. QED
    BY <1>2, <1>5, <2>2, <2>3, <2>4 DEF x
<1>6. ASSUME NEW c \in Visible, c.package = NoPackage, Edited(flow.list \ {c}), UNCHANGED past
      PROVE  IndInv'
  <2>1. Fit(flow.list \ {c})
    <3>1. flow.list \ {c} \subseteq Catalogue
      BY IndFacts
    <3>2. ASSUME NEW pkgs, NoPackage \notin pkgs, Whole(flow.list, pkgs), \A k \in pkgs : Has(flow.list, k)
          PROVE  Whole(flow.list \ {c}, pkgs) /\ \A k \in pkgs : Has(flow.list \ {c}, k)
      <4>1. \A k \in pkgs : Has(flow.list \ {c}, k)
        BY <1>6, <3>2 DEF Has
      <4>2. QED
        BY <3>1, <3>2, <4>1 DEF Whole, Packed, Known
    <3>3. QED
      BY <3>1, <3>2
  <2>2. Failing(flow.list \ {c}) \subseteq Failing(flow.list)
    BY DEF Failing, PlacesOf
  <2> HIDE DEF Fit
  <2>3. QED
    BY <1>2, <1>3, <1>6, <2>1, <2>2, IndFacts
<1>7. ASSUME NEW q \in Places, NEW d \in BOOLEAN, Edited(flow.list \cup {Own(q, d)}), UNCHANGED past
      PROVE  IndInv'
  <2>1. /\ Own(q, d) \in Catalogue /\ Own(q, d).package = NoPackage /\ Own(q, d).errors = FALSE
        /\ ~Own(q, d).foreign
    BY OwnTypes DEF Own
  <2>2. Fit(flow.list \cup {Own(q, d)})
    BY <2>1, IndFacts DEF Whole, Packed, Known, Has
  <2>3. Failing(flow.list \cup {Own(q, d)}) \subseteq Failing(flow.list)
    BY <2>1 DEF Failing, PlacesOf
  <2> HIDE DEF Fit
  <2>4. QED
    BY <1>2, <1>3, <1>7, <2>2, <2>3, IndFacts
<1>8. QED
  BY <1>5, <1>6, <1>7 DEF Edit, Change, Remove, New

\* An answer of the user about the place p, and what becomes of the list.
LEMMA AskStep ==
  ASSUME IndInv, At("asking"), NEW p \in flow.rest, NEW l \in SUBSET Catalogue,
         flow' \in Flow, flow'.step = "asking", flow'.kind = flow.kind, flow'.list = l,
         flow'.null = flow.null, flow'.first = flow.first, flow'.rest = flow.rest \ {p},
         flow'.wanted = flow.wanted, UNCHANGED <<Disk, backend, tool, outdated, past, events>>,
         Whole(flow.list, installed) => /\ l \subseteq Catalogue /\ Packed(l) /\ Known(l, installed)
                                        /\ \A k \in installed : Has(flow.list, k) =>
                                             Has(l, k) \/ (Home[k] = p /\ Copy(l, k))
                                        /\ \A k \in installed : Copy(flow.list, k) => Has(l, k) \/ Copy(l, k),
         flow.kind = "install" => Enabled(flow.list) \cup ({p} \cap Addable) \subseteq Enabled(l),
         Failing(l) \subseteq Failing(flow.list)
  PROVE  IndInv'
<1>1. FlowFits' /\ FlowWishes'
  BY IndFacts DEF FlowFits, FlowWishes, At, InDialog
<1>2. FlowCovers'
  <2>1. SUFFICES ASSUME ~flow.null, Undisturbed("flow")
                 PROVE  Whole(l, installed) /\ \A k \in installed : Has(l, k) \/ Home[k] \notin flow.rest \ {p}
    BY DEF FlowCovers, Undisturbed, At, Disk
  <2>2. Whole(flow.list, installed) /\ \A k \in installed : Has(flow.list, k) \/ Home[k] \notin flow.rest
    BY <2>1, IndFacts DEF FlowCovers, At
  <2>3. QED
    BY <2>2 DEF Whole
<1>3. Failing(l) \subseteq past.failing \cup past.moved
  BY IndFacts DEF ErrorsOnTheirWay
<1>4. QED
  BY <1>1, <1>2, <1>3, MoveKeeps, IndFacts, IdleInBetween DEF At

LEMMA FurtherFacts ==
  ASSUME NEW f \in Flow, NEW p, Further(f, p)
  PROVE  /\ flow' \in Flow /\ flow'.step = f.step /\ flow'.kind = f.kind /\ flow'.list = f.list
         /\ flow'.null = f.null /\ flow'.first = f.first /\ flow'.rest = f.rest \ {p}
         /\ flow'.wanted = f.wanted
  BY DEF Further, Flow

LEMMA ReplacedFacts ==
  ASSUME flow \in Flow, NEW c, NEW x \in Catalogue
  PROVE  /\ Replaced(c, x) \in Flow /\ Replaced(c, x).step = flow.step /\ Replaced(c, x).kind = flow.kind
         /\ Replaced(c, x).list = (flow.list \ c) \cup {x} /\ Replaced(c, x).null = flow.null
         /\ Replaced(c, x).first = flow.first /\ Replaced(c, x).rest = flow.rest
         /\ Replaced(c, x).wanted = flow.wanted
  BY DEF Replaced, Flow

LEMMA AcceptKeeps ==
  ASSUME IndInv, At("asking"), NEW p \in flow.rest, Accept(p),
         UNCHANGED <<Disk, backend, tool, outdated, past, events>>
  PROVE  IndInv'
<1>0. /\ p \in Places /\ Own(p, FALSE) \in Catalogue /\ Own(p, FALSE).package = NoPackage
      /\ Own(p, FALSE).place = p /\ Own(p, FALSE).disabled = FALSE /\ Own(p, FALSE).errors = FALSE
      /\ ~Own(p, FALSE).foreign
  BY IndFacts, OwnTypes DEF Own, Flow
\* One catalogue at the place makes way for another.
<1>1. ASSUME NEW old \in SUBSET flow.list, NEW x \in Catalogue, Further(Replaced(old, x), p),
             \A c \in old : c.place = p, x.place = p, ~x.disabled,
             x.errors => \E c \in old : c.errors,
             Whole(flow.list, installed) =>
               /\ Packed((flow.list \ old) \cup {x}) /\ Known((flow.list \ old) \cup {x}, installed)
               /\ \A c \in old : x.package \in {c.package, NoPackage}
      PROVE  IndInv'
  <2> DEFINE l == (flow.list \ old) \cup {x}
  <2>1. l \in SUBSET Catalogue
    BY IndFacts
  <2>2. /\ flow' \in Flow /\ flow'.step = "asking" /\ flow'.kind = flow.kind /\ flow'.list = l
        /\ flow'.null = flow.null /\ flow'.first = flow.first /\ flow'.rest = flow.rest \ {p}
        /\ flow'.wanted = flow.wanted
    BY <1>1, FurtherFacts, ReplacedFacts, IndFacts DEF At
  <2>3. Enabled(flow.list) \cup {p} \subseteq Enabled(l)
    BY <1>1, EnabledMember
  <2>4. Failing(l) \subseteq Failing(flow.list)
    BY <1>1 DEF Failing, PlacesOf
  <2>5. ASSUME Whole(flow.list, installed)
        PROVE  /\ \A k \in installed : Has(flow.list, k) => Has(l, k) \/ (Home[k] = p /\ Copy(l, k))
               /\ \A k \in installed : Copy(flow.list, k) => Has(l, k) \/ Copy(l, k)
    <3>0. x \in l /\ \A c \in flow.list : c \in old \/ c \in l
      OBVIOUS
    <3>1. ASSUME NEW k \in installed, Has(flow.list, k)
          PROVE  Has(l, k) \/ (Home[k] = p /\ Copy(l, k))
      <4>1. PICK c \in flow.list : c.package = k
        BY <3>1 DEF Has
      <4>2. k # NoPackage
        BY CataloguesAssumption, IndFacts DEF Types, FileTypes
      <4>3. Home[k] = c.place
        BY <2>5, <4>1, <4>2 DEF Whole, Known
      <4>4. CASE c \in l
        BY <4>1, <4>4 DEF Has
      <4>5. CASE c \in old
        <5>1. x.package = k \/ x.package = NoPackage
          BY <1>1, <2>5, <4>1, <4>2, <4>5
        <5>2. Home[k] = p
          BY <1>1, <4>3, <4>5
        <5>3. QED
          BY <1>1, <3>0, <5>1, <5>2 DEF Has, Copy
      <4>6. QED
        BY <3>0, <4>4, <4>5
    <3>2. ASSUME NEW k \in installed, Copy(flow.list, k) PROVE Has(l, k) \/ Copy(l, k)
      <4>1. PICK c \in flow.list : c.package = NoPackage /\ c.place = Home[k] /\ ~c.disabled
        BY <3>2 DEF Copy
      <4>2. CASE c \in l
        BY <4>1, <4>2 DEF Copy
      <4>3. CASE c \in old
        <5>1. x.package = NoPackage
          BY <1>1, <2>5, <4>1, <4>3
        <5>2. QED
          BY <1>1, <3>0, <4>1, <4>3, <5>1 DEF Copy
      <4>4. QED
        BY <3>0, <4>2, <4>3
    <3>3. QED
      BY <3>1, <3>2
  <2>6. Whole(flow.list, installed) => l \subseteq Catalogue /\ Packed(l) /\ Known(l, installed)
    BY <1>1, <2>1
  <2> HIDE DEF l
  <2>7. QED
    BY <2>1, <2>2, <2>3, <2>4, <2>5, <2>6, AskStep
<1>2. \A c \in Same(p) : c \in flow.list /\ c \in Catalogue /\ c.place = p
  BY IndFacts DEF Same
<1>3. ASSUME NEW c \in Same(p), c.disabled, Further(Replaced({c}, [c EXCEPT !.disabled = FALSE]), p)
      PROVE  IndInv'
  <2> DEFINE x == [c EXCEPT !.disabled = FALSE]
  <2>1. /\ x \in Catalogue /\ x.package = c.package /\ x.place = p /\ x.disabled = FALSE
        /\ x.errors = c.errors /\ x.foreign = c.foreign
    BY <1>2 DEF Catalogue
  <2> HIDE DEF x
  <2>2. Whole(flow.list, installed) =>
          Packed((flow.list \ {c}) \cup {x}) /\ Known((flow.list \ {c}) \cup {x}, installed)
    BY <1>2, <2>1, ReplacedCovers
  <2>3. QED
    BY <1>1, <1>2, <1>3, <2>1, <2>2 DEF x
<1>4. ASSUME NEW old \in SUBSET Same(p), Further(Replaced(old, Own(p, FALSE)), p) PROVE IndInv'
  <2>1. Whole(flow.list, installed) =>
          Packed((flow.list \ old) \cup {Own(p, FALSE)}) /\ Known((flow.list \ old) \cup {Own(p, FALSE)}, installed)
    BY <1>0, OwnCovers
  <2>2. QED
    BY <1>0, <1>1, <1>2, <1>4, <2>1
<1>5. CASE \E c \in SameOff(p) : Further(Replaced({c}, [c EXCEPT !.disabled = FALSE]), p)
  BY <1>3, <1>5 DEF SameOff
<1>6. CASE \E c \in IF Same(p) = {} THEN {{}} ELSE {{o} : o \in SameOn(p)} :
             Further(Replaced(c, Own(p, FALSE)), p)
  <2>1. \A c \in IF Same(p) = {} THEN {{}} ELSE {{o} : o \in SameOn(p)} : c \in SUBSET Same(p)
    BY DEF SameOn
  <2>2. QED
    BY <1>4, <1>6, <2>1
<1>7. QED
  BY <1>5, <1>6 DEF Accept

LEMMA AskUserKeeps == ASSUME IndInv, AskUser PROVE IndInv'
<1>1. At("asking") /\ UNCHANGED <<Disk, backend, tool, outdated, past, events>>
  BY DEF AskUser
<1>2. PICK p \in flow.rest : Accept(p) \/ Decline(p) \/ Skip(p)
  BY DEF AskUser
<1>3. CASE Accept(p)
  BY <1>1, <1>3, AcceptKeeps
<1>4. CASE flow' = NoFlow
  BY <1>1, <1>4, FlowEnds, IndFacts, IdleInBetween DEF At
<1>5. CASE Further(flow, p) /\ (flow.kind = "install" => p \notin Addable \/ \E c \in Same(p) : ~c.disabled)
  <2>1. /\ flow' \in Flow /\ flow'.step = "asking" /\ flow'.kind = flow.kind /\ flow'.list = flow.list
        /\ flow'.null = flow.null /\ flow'.first = flow.first /\ flow'.rest = flow.rest \ {p}
        /\ flow'.wanted = flow.wanted
    BY <1>1, <1>5, FurtherFacts, IndFacts DEF At
  <2>2. flow.kind = "install" => Enabled(flow.list) \cup ({p} \cap Addable) \subseteq Enabled(flow.list)
    BY <1>5, EnabledMember DEF Same
  <2>3. QED
    BY <1>1, <2>1, <2>2, AskStep, IndFacts DEF Whole
<1>6. QED
  BY <1>2, <1>3, <1>4, <1>5 DEF Decline, Skip, ToLeave, SameOn, SameOff

-----------------------------------------------------------------------------
(* Packages and the tool *)

LEMMA PackageKeeps == ASSUME IndInv, NEW k \in Packages, PackageChanges(k) PROVE IndInv'
<1>1. /\ Count /\ installed' \in SUBSET Packages /\ outdated' = {"backend", "flow", "tool"}
      /\ past' = [past EXCEPT !.fresh = FALSE, !.stored = FALSE]
      /\ UNCHANGED <<conf, sources, failed, backend, flow, tool>>
  BY IndFacts DEF PackageChanges, Types, FileTypes
<1>2. /\ past' \in History /\ past'.fresh = FALSE /\ past'.stored = FALSE
      /\ past'.failing = past.failing /\ past'.moved = past.moved
  BY <1>1, IndFacts DEF History
<1>3. Types'
  BY <1>1, <1>2, IndFacts DEF Types, FileTypes, Clean
<1>4. Lists' /\ Waits' /\ SourcesFollow' /\ ErrorsBelong'
  BY <1>1, <1>2, IndFacts DEF Lists, Waits, SourcesFollow, ErrorsBelong, Busy, At, Clean
<1>5. FlowFits' /\ FlowLists' /\ WriterLists'
  BY <1>1, IndFacts DEF FlowFits, FlowLists, FlowCovers, WriterLists, Busy, At, InDialog, Undisturbed
<1>6. ErrorsOnTheirWay' /\ WishesKept'
  BY <1>1, <1>2, IndFacts DEF ErrorsOnTheirWay, WishesKept, FlowWishes, Busy, At
<1>7. QED
  BY <1>3, <1>4, <1>5, <1>6 DEF IndInv

LEMMA NoToolFacts ==
  NoTool \in Tool /\ NoTool.cmd = "none" /\ NoTool.phase = "none" /\ NoTool.list = {}
  BY DEF NoTool, Tool

LEMMA ToolReadsKeeps == ASSUME IndInv, ToolReads PROVE IndInv'
<1> DEFINE list == Read(conf, installed)
<1>1. /\ Count /\ outdated' = outdated \ {"tool"} /\ UNCHANGED <<Disk, backend, flow, past>>
  BY DEF ToolReads
<1>2. list \in SUBSET Catalogue /\ Clean(list)
  BY FileFacts, IndFacts
<1>3. \/ tool' = [cmd |-> "update", phase |-> "sources", list |-> list]
      \/ \E cmd \in {"add", "delete", "set"} : \E m :
           tool' = [cmd |-> cmd, phase |-> "conf", list |-> m] /\ Clean(m)
  <2>1. \A p \in Places : \A l \in Without(list, p) : Clean(l)
    BY <1>2 DEF Without, Clean
  <2>2. \A p \in Places, d, f \in BOOLEAN :
          LET new == [Own(p, d) EXCEPT !.foreign = f] IN new \in Catalogue /\ new.errors = FALSE
    BY OwnTypes
  <2> HIDE DEF list
  <2>3. CASE tool' = [cmd |-> "update", phase |-> "sources", list |-> list]
    BY <2>3
  <2>4. ASSUME NEW p \in Places, NEW d \in BOOLEAN, NEW f \in BOOLEAN, NEW m,
               tool' \in {[cmd |-> cmd, phase |-> "conf", list |-> m] : cmd \in {"add", "delete", "set"}},
               \/ \E l \in Without(list, p) : m = l \cup {[Own(p, d) EXCEPT !.foreign = f]}
               \/ m \in Without(list, p)
               \/ m = {[Own(p, d) EXCEPT !.foreign = f]}
        PROVE  \E cmd \in {"add", "delete", "set"} :
                 tool' = [cmd |-> cmd, phase |-> "conf", list |-> m] /\ Clean(m)
    <3>1. Clean(m)
      BY <2>1, <2>2, <2>4 DEF Clean
    <3>2. QED
      BY <2>4, <3>1
  <2>5. CASE \E p \in Places, d, f \in BOOLEAN :
               LET new == [Own(p, d) EXCEPT !.foreign = f] IN
               \/ \E l \in Without(list, p) :
                    Readable /\ tool' = [cmd |-> "add", phase |-> "conf", list |-> l \cup {new}]
               \/ tool' = [cmd |-> "set", phase |-> "conf", list |-> {new}]
    <3>1. PICK p \in Places, d \in BOOLEAN, f \in BOOLEAN :
               \/ \E l \in Without(list, p) :
                    tool' = [cmd |-> "add", phase |-> "conf",
                             list |-> l \cup {[Own(p, d) EXCEPT !.foreign = f]}]
               \/ tool' = [cmd |-> "set", phase |-> "conf", list |-> {[Own(p, d) EXCEPT !.foreign = f]}]
      BY <2>5
    <3>2. QED
      BY <2>4, <3>1
  <2>6. CASE \E p \in Places : \E l \in Without(list, p) :
               Readable /\ tool' = [cmd |-> "delete", phase |-> "conf", list |-> l]
    <3>1. PICK p \in Places : \E l \in Without(list, p) :
            tool' = [cmd |-> "delete", phase |-> "conf", list |-> l]
      BY <2>6
    <3>2. QED
      BY <2>1, <3>1
  <2>7. QED
    BY <2>3, <2>5, <2>6 DEF ToolReads, list
<1> HIDE DEF list
<1>4. /\ tool' \in Tool /\ Clean(tool'.list) /\ (tool'.cmd = "update" => tool'.phase = "sources")
      /\ tool'.cmd = "update" => tool'.list = list
  <2>1. CASE tool' = [cmd |-> "update", phase |-> "sources", list |-> list]
    BY <1>2, <2>1 DEF Tool
  <2>2. ASSUME NEW cmd \in {"add", "delete", "set"}, NEW m, Clean(m),
               tool' = [cmd |-> cmd, phase |-> "conf", list |-> m]
        PROVE  tool' \in Tool /\ Clean(tool'.list) /\ tool'.cmd # "update"
    BY <2>2 DEF Tool, Clean
  <2>3. QED
    BY <1>3, <2>1, <2>2
<1>5. Types'
  BY <1>1, <1>4, IndFacts DEF Types, FileTypes, Clean, Disk
<1>6. Lists' /\ Waits' /\ SourcesFollow' /\ ErrorsBelong'
  BY <1>1, <1>4, IndFacts DEF Lists, Waits, SourcesFollow, ErrorsBelong, Busy, At, Clean, Disk
<1>7. FlowFits' /\ FlowLists'
  BY <1>1, IndFacts DEF FlowFits, FlowLists, FlowCovers, Busy, At, InDialog, Undisturbed, Disk
<1>8. WriterLists'
  BY <1>1, <1>4, IndFacts DEF WriterLists, Busy, Undisturbed, Disk, list
<1>9. ErrorsOnTheirWay' /\ WishesKept'
  BY <1>1, IndFacts DEF ErrorsOnTheirWay, WishesKept, FlowWishes, Busy, At, Undisturbed, Disk
<1>10. QED
  BY <1>5, <1>6, <1>7, <1>8, <1>9 DEF IndInv

LEMMA ToolWritesConfKeeps == ASSUME IndInv, ToolWritesConf PROVE IndInv'
<1>1. /\ tool.phase = "conf" /\ conf' = Written(tool.list) /\ tool' = [tool EXCEPT !.phase = "sources"]
      /\ outdated' = outdated \cup {"backend", "flow"}
      /\ past' = [past EXCEPT !.fresh = FALSE, !.stored = FALSE]
      /\ UNCHANGED <<installed, sources, failed, backend, flow, events>>
  BY DEF ToolWritesConf, Others
<1>2. /\ past' \in History /\ past'.fresh = FALSE /\ past'.stored = FALSE
      /\ past'.failing = past.failing /\ past'.moved = past.moved
  BY <1>1, IndFacts DEF History
<1>3. tool' \in Tool /\ tool'.cmd = tool.cmd /\ tool'.list = tool.list /\ tool.cmd # "update"
  BY <1>1, IndFacts DEF Tool, WriterLists
<1>4. Clean(conf')
  BY <1>1, WrittenClean, IndFacts DEF Lists, Clean
<1>5. Types'
  BY <1>1, <1>2, <1>3, <1>4, IndFacts DEF Types, FileTypes
<1>6. Lists' /\ Waits' /\ SourcesFollow' /\ ErrorsBelong'
  BY <1>1, <1>2, <1>3, IndFacts DEF Lists, Waits, SourcesFollow, ErrorsBelong, Busy, At, Clean
<1>7. FlowFits' /\ FlowLists' /\ WriterLists'
  BY <1>1, <1>3, IndFacts DEF FlowFits, FlowLists, FlowCovers, WriterLists, Busy, At, InDialog, Undisturbed
<1>8. ErrorsOnTheirWay' /\ WishesKept'
  BY <1>1, <1>2, IndFacts DEF ErrorsOnTheirWay, WishesKept, FlowWishes, Busy, At
<1>9. QED
  BY <1>5, <1>6, <1>7, <1>8 DEF IndInv

\* The tool ends; only then may it have written sources.list.
LEMMA ToolEnds ==
  ASSUME IndInv, tool' = NoTool, UNCHANGED <<installed, conf, failed, backend, flow, outdated>>,
         events' \in 0 .. MaxEvents, sources' \in SUBSET Places, past' \in History,
         past'.stored = past.stored, past'.failing = past.failing, past'.moved = past.moved, SourcesFollow'
  PROVE  IndInv'
<1>1. Types'
  BY IndFacts, NoToolFacts DEF Types, FileTypes, Clean
<1>2. Lists' /\ Waits' /\ ErrorsBelong'
  BY IndFacts, NoToolFacts DEF Lists, Waits, ErrorsBelong, Busy, At, Clean
<1>3. FlowFits' /\ FlowLists'
  BY IndFacts DEF FlowFits, FlowLists, FlowCovers, Busy, At, InDialog, Undisturbed
<1>4. WriterLists'
  BY IndFacts, NoToolFacts DEF WriterLists, Busy, Undisturbed
<1>5. ErrorsOnTheirWay' /\ WishesKept'
  BY IndFacts DEF ErrorsOnTheirWay, WishesKept, FlowWishes, Busy, At, Undisturbed
<1>6. QED
  BY <1>1, <1>2, <1>3, <1>4, <1>5 DEF IndInv

LEMMA ToolEndsKeeps == ASSUME IndInv, ToolWritesSources \/ ToolFails PROVE IndInv'
<1>1. Listed(tool.list) \subseteq Places /\ sources \in SUBSET Places
  BY ListTypes, IndFacts DEF Tool, Types, FileTypes
<1>2. CASE ToolWritesSources
  <2> DEFINE new == tool.cmd = "update" /\ Undisturbed("tool")
  <2>1. /\ sources' = Listed(tool.list) /\ tool' = NoTool /\ past' = [past EXCEPT !.fresh = new]
        /\ UNCHANGED <<installed, conf, failed, backend, flow, outdated, events>>
    BY <1>2 DEF ToolWritesSources, Undisturbed
  <2>2. new \in BOOLEAN
    BY DEF Undisturbed
  <2>3. new => tool.list = Read(conf, installed)
    BY IndFacts DEF WriterLists
  <2> HIDE DEF new
  <2>4. /\ past' \in History /\ past'.fresh = new /\ past'.stored = past.stored
        /\ past'.failing = past.failing /\ past'.moved = past.moved
    BY <2>1, <2>2, IndFacts DEF History
  <2>5. SourcesFollow'
    BY <2>1, <2>3, <2>4 DEF SourcesFollow
  <2>6. QED
    BY <1>1, <2>1, <2>4, <2>5, ToolEnds, IndFacts
<1>3. CASE ToolFails
  <2>1. /\ Count /\ tool' = NoTool /\ UNCHANGED <<installed, conf, failed, backend, flow, outdated>>
        /\ \/ sources' = sources /\ past' = past
           \/ sources' \in SUBSET Listed(tool.list) /\ past' = [past EXCEPT !.fresh = FALSE]
    BY <1>3 DEF ToolFails
  <2>2. /\ past' \in History /\ past'.stored = past.stored
        /\ past'.failing = past.failing /\ past'.moved = past.moved
        /\ past'.fresh = FALSE \/ (past'.fresh = past.fresh /\ sources' = sources)
    BY <2>1, IndFacts DEF History
  <2>3. SourcesFollow'
    BY <2>1, <2>2, IndFacts DEF SourcesFollow
  <2>4. QED
    BY <1>1, <2>1, <2>2, <2>3, ToolEnds, IndFacts
<1>4. QED
  BY <1>2, <1>3

-----------------------------------------------------------------------------
(* The inductive invariant holds *)

LEMMA StutterKeeps == ASSUME IndInv, UNCHANGED vars PROVE IndInv'
<1>1. /\ installed' = installed /\ conf' = conf /\ sources' = sources /\ failed' = failed
      /\ backend' = backend /\ flow' = flow /\ tool' = tool /\ outdated' = outdated
      /\ past' = past /\ events' = events
  BY DEF vars
<1>2. Types' /\ Lists' /\ Waits' /\ SourcesFollow' /\ ErrorsBelong'
  BY <1>1, IndFacts DEF Types, FileTypes, Lists, Waits, SourcesFollow, ErrorsBelong, Clean, Busy, At
<1>3. FlowFits' /\ FlowLists' /\ WriterLists'
  BY <1>1, IndFacts DEF FlowFits, FlowLists, FlowCovers, WriterLists, Busy, At, InDialog, Undisturbed
<1>4. ErrorsOnTheirWay' /\ WishesKept'
  BY <1>1, IndFacts DEF ErrorsOnTheirWay, WishesKept, FlowWishes, Busy, At, Undisturbed
<1>5. QED
  BY <1>2, <1>3, <1>4 DEF IndInv

LEMMA InitHolds == ASSUME Init PROVE IndInv
<1>1. /\ installed \in SUBSET Packages /\ failed = {} /\ backend = Idle /\ flow = NoFlow
      /\ tool = NoTool /\ outdated = {} /\ events = 0
      /\ past = [fresh |-> TRUE, stored |-> FALSE, failing |-> {}, moved |-> {}]
      /\ sources = Listed(Read(conf, installed))
  BY DEF Init
<1>2. Clean(conf)
  <2>1. PICK own \in SUBSET Places, foreign \in SUBSET Places, off \in SUBSET installed :
          conf = {Own(p, FALSE) : p \in own} \cup {Packaged(k, k \in off) : k \in installed}
                   \cup {[Own(p, FALSE) EXCEPT !.foreign = TRUE] : p \in foreign}
    BY DEF Init
  <2>2. \A p \in own : Own(p, FALSE) \in Catalogue /\ Own(p, FALSE).errors = FALSE
    BY OwnTypes DEF Own
  <2>3. ASSUME NEW k \in installed
        PROVE  Packaged(k, k \in off) \in Catalogue /\ Packaged(k, k \in off).errors = FALSE
    <3>1. k \in Packages /\ (k \in off) \in BOOLEAN
      BY <1>1
    <3>2. QED
      BY <3>1, PackagedTypes
  <2>4. \A p \in foreign : /\ [Own(p, FALSE) EXCEPT !.foreign = TRUE] \in Catalogue
                           /\ [Own(p, FALSE) EXCEPT !.foreign = TRUE].errors = FALSE
    BY OwnTypes
  <2>5. QED
    BY <2>1, <2>2, <2>3, <2>4 DEF Clean
<1>3. /\ past \in History /\ past.stored = FALSE /\ past.fresh = TRUE /\ past.failing = {} /\ past.moved = {}
  BY <1>1 DEF History
<1>4. Read(conf, installed) \in SUBSET Catalogue
  BY <1>1, <1>2, ReadMembers DEF Clean
<1>5. Types
  BY <1>1, <1>2, <1>3, <1>4, ListTypes, CataloguesAssumption, IdleFacts, NoFlowFacts, NoToolFacts
     DEF Types, FileTypes
<1>6. Lists /\ Waits /\ SourcesFollow
  BY <1>1, IdleFacts, NoFlowFacts, NoToolFacts DEF Lists, Waits, SourcesFollow, Clean, Busy, At
<1>7. ErrorsBelong /\ FlowFits /\ FlowLists /\ WriterLists
  BY <1>1, IdleFacts, NoFlowFacts, NoToolFacts
     DEF ErrorsBelong, FlowFits, FlowLists, FlowCovers, WriterLists, Busy, At, InDialog
<1>8. ErrorsOnTheirWay /\ WishesKept
  BY <1>1, IdleFacts, NoFlowFacts DEF ErrorsOnTheirWay, WishesKept, FlowWishes, Busy, At
<1>9. QED
  BY <1>5, <1>6, <1>7, <1>8 DEF IndInv

LEMMA NextKeeps == ASSUME IndInv, Next PROVE IndInv'
<1>1. CASE BackendStep
  <2>1. CASE \E places \in SUBSET Places : Download(places)
    BY <2>1, DownloadKeeps
  <2>2. QED
    BY <1>1, <2>1, GetKeeps, SetKeeps, CheckKeeps, WriteConfKeeps, WriteSourcesKeeps, Zenon DEF BackendStep
<1>2. CASE FlowStep
  BY <1>2, RefreshStepKeeps, GotKeeps, CloseEarlyKeeps, EndKeeps, CloseKeeps, AskUserKeeps,
     CataloguesSetKeeps, Zenon DEF FlowStep
<1>3. CASE Environment
  <2>1. CASE \E kind \in {"dialog", "errors"} : OpenDialog(kind)
    BY <2>1, OpenDialogKeeps
  <2>2. CASE \E kind \in {"add", "install"}, places \in SUBSET Places \ {{}} : OpenInstructions(kind, places)
    <3>1. PICK kind \in {"add", "install"}, places \in SUBSET Places \ {{}} : OpenInstructions(kind, places)
      BY <2>2
    <3>2. QED
      BY <3>1, OpenInstructionsKeeps
  <2>3. CASE \E k \in Packages : PackageChanges(k)
    BY <2>3, PackageKeeps
  <2>4. QED
    BY <1>3, <2>1, <2>2, <2>3, EditKeeps, WriteFailsKeeps, CrashKeeps, ToolReadsKeeps, ToolEndsKeeps, Zenon
       DEF Environment
<1>4. QED
  BY <1>1, <1>2, <1>3, ToolWritesConfKeeps, ToolEndsKeeps, Zenon DEF Next

LEMMA IndInvAlways == Spec => []IndInv
<1>1. Init => IndInv
  BY InitHolds
<1>2. IndInv /\ [Next]_vars => IndInv'
  BY NextKeeps, StutterKeeps
<1>3. QED
  BY <1>1, <1>2, PTL DEF Spec

-----------------------------------------------------------------------------
(* The results *)

\* The types, who waits for the backend, and that no file holds a record of
\* failures but its own.
THEOREM CataloguesInvariant == Spec => []CataloguesInv
<1>1. IndInv => CataloguesInv
  BY Parts DEF IndInv
<1>2. QED
  BY <1>1, IndInvAlways, PTL

\* After an undisturbed refresh, change or update by the tool, sources.list has what
\* the files of the user and of the packages say, although only references to the
\* packages' catalogues are written (backend_set_catalogues, write_sources_list).
THEOREM SourcesFollowAlways == Spec => []SourcesFollow
<1>1. IndInv => SourcesFollow
  BY DEF IndInv
<1>2. QED
  BY <1>1, IndInvAlways, PTL

\* A failure is told only of a catalogue that failed in the last refresh, or of one
\* that the user has put in its place.
THEOREM ErrorsBelongAlways == Spec => []ErrorsBelong
<1>1. IndInv => ErrorsBelong
  BY DEF IndInv
<1>2. QED
  BY <1>1, IndInvAlways, PTL

\* The package of an instruction file is installed with all catalogues that the file
\* asks for in sources.list, except those that add_catalogues_cont_2 passes over and
\* that write_sources_list leaves out, if they could be stored and nobody has
\* interfered.
THEOREM InstructionServedAlways == Spec => []InstructionServed
<1>1. ASSUME IndInv PROVE InstructionServed
  <2>1. SUFFICES ASSUME At("installing"), past.stored, past.fresh
                 PROVE  flow.wanted \cap Addable \cap Listable \subseteq sources
    BY DEF InstructionServed
  <2>2. flow.kind = "install"
    BY <1>1, <2>1 DEF IndInv, FlowFits, At
  <2>3. flow.wanted \cap Addable \subseteq Enabled(Read(conf, installed))
    BY <1>1, <2>1, <2>2, IndFacts DEF FlowWishes, At
  <2>4. QED
    BY <1>1, <2>1, <2>3 DEF IndInv, SourcesFollow, Listed
<1>2. QED
  BY <1>1, IndInvAlways, PTL

\* A refresh of the package lists changes nothing of what the files say for this
\* distribution and the packages that are installed, unless they have changed since
\* the backend read them.
THEOREM RefreshKeepsAlways == Spec => RefreshKeeps
<1> DEFINE Kept == backend.cmd = "update" /\ backend.phase = "conf" /\ backend' # backend
                     /\ "backend" \notin outdated
                   => Read(conf', installed) = Read(conf, installed)
<1>1. ASSUME IndInv, Next, backend.cmd = "update", backend.phase = "conf", backend' # backend,
             "backend" \notin outdated
      PROVE  Read(conf', installed) = Read(conf, installed)
  <2>1. CASE WriteConf
    <3>1. conf' = Written(backend.list) /\ backend.list = Read(conf, installed)
      BY <1>1, <2>1, IndFacts DEF WriteConf, WriterLists, Busy, Undisturbed
    <3>2. QED
      BY <1>1, <3>1, FileFacts, IndFacts
  <2>2. CASE UNCHANGED conf
    BY <2>2
  <2>3. ASSUME BackendStep PROVE WriteConf \/ UNCHANGED conf
    BY <1>1, <2>3
       DEF BackendStep, GetCatalogues, SetCatalogues, CheckUpdates, WriteSources, Download, Asked
  <2>4. ASSUME FlowStep PROVE UNCHANGED conf
    BY <2>4 DEF FlowStep, Refresh, Refreshed, GotCatalogues, CloseEarly, Ignored, CloseDialog, AskUser,
                AllAsked, CataloguesSet, Installed, Disk
  <2>5. ASSUME Environment PROVE UNCHANGED conf
    <3>1. CASE \E kind \in {"add", "install"}, places \in SUBSET Places \ {{}} : OpenInstructions(kind, places)
      BY <3>1 DEF OpenInstructions, Disk
    <3>2. CASE \E kind \in {"dialog", "errors"} : OpenDialog(kind)
      BY <3>2 DEF OpenDialog, Disk
    <3>3. CASE Edit \/ WriteFails \/ Crash \/ ToolReads \/ ToolFails
      BY <3>3 DEF Edit, WriteFails, Crash, ToolReads, ToolFails, Disk
    <3>4. CASE \E k \in Packages : PackageChanges(k)
      BY <3>4 DEF PackageChanges
    <3>5. QED
      BY <2>5, <3>1, <3>2, <3>3, <3>4, Zenon DEF Environment
  <2>6. ~ToolWritesConf /\ (ToolWritesSources => UNCHANGED conf)
    BY <1>1 DEF ToolWritesConf, ToolWritesSources
  <2>7. QED
    BY <1>1, <2>1, <2>2, <2>3, <2>4, <2>5, <2>6, Zenon DEF Next
<1>2. IndInv /\ [Next]_vars => [Kept]_vars
  BY <1>1
<1>3. QED
  BY <1>2, IndInvAlways, PTL DEF Spec, RefreshKeeps, Rewritten
=============================================================================
