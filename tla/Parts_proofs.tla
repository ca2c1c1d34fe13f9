----------------------------- MODULE Parts_proofs -----------------------------
(***************************************************************************)
(* What the theorems about a component say of the instance that MCParts    *)
(* makes of it: a behaviour of MCParts is about one component from its     *)
(* first state to its last, and is a behaviour of that component's         *)
(* specification.                                                          *)
(***************************************************************************)
EXTENDS MCParts, TLAPS, FiniteSetTheorems, SequenceTheorems, WellFoundedInduction

-------------------------------------------------------------------------------
LEMMA PartStays ==
  ASSUME [Next]_vars
  PROVE  part' = part
<1>1. CASE UNCHANGED vars
  BY <1>1 DEF vars
<1>2. CASE Next
  BY <1>2 DEF Next, OfDocuments, OfShelving, OfCompletion, OfSpend, OfIdentity, OfListing
<1> QED BY <1>1, <1>2

(***************************************************************************)
(* Completion.                                                             *)
(***************************************************************************)
OfFinish == part = "completion"

LEMMA FinishStays == Spec => []OfFinish \/ []~OfFinish
<1>1. OfFinish /\ [Next]_vars => OfFinish'
  BY PartStays DEF OfFinish
<1>2. ~OfFinish /\ [Next]_vars => (~OfFinish)'
  BY PartStays DEF OfFinish
<1> QED BY <1>1, <1>2, PTL DEF Spec

LEMMA FinishStep ==
  ASSUME OfFinish, [Next]_vars
  PROVE  [Finish!Next]_Finish!vars
<1>1. CASE UNCHANGED vars
  BY <1>1 DEF vars, Finish!vars
<1>2. CASE Next
  BY <1>2 DEF Next, OfFinish, OfDocuments, OfShelving, OfCompletion, OfSpend, OfIdentity,
       OfListing, Finish!Next, Pair, Finished
<1> QED BY <1>1, <1>2

LEMMA FinishIsCompletion == Spec /\ []OfFinish => Finish!Spec
<1>1. Init /\ OfFinish => Finish!Init
  BY DEF Init, OfFinish
<1>2. OfFinish /\ [Next]_vars => [Finish!Next]_Finish!vars
  BY FinishStep
<1> QED BY <1>1, <1>2, PTL DEF Spec, Finish!Spec

\* A result that was recorded in time stays with its item, whichever processes finish it
\* and whatever other commands do (mergeResultSidecar).
THEOREM RecordedStays == Spec => []ResultsKept
<1>1. Finish!Spec => []Finish!ResultsKept
  BY FinishAssumption, Finish!ResultsStay
<1>2. OfFinish /\ Finish!ResultsKept => ResultsKept
  BY DEF ResultsKept
<1>3. ~OfFinish => ResultsKept
  BY DEF OfFinish, ResultsKept
<1> QED BY <1>1, <1>2, <1>3, FinishStays, FinishIsCompletion, PTL

\* No item claims an inheritance from one that never named it (linkSuccessorBothWays).
THEOREM NoneInheritsUnnamed == Spec => []NoFalseInheritance
<1>1. Finish!Spec => []Finish!NoFalseInheritance
  BY FinishAssumption, Finish!InheritanceNamed
<1>2. OfFinish /\ Finish!NoFalseInheritance => NoFalseInheritance
  BY DEF NoFalseInheritance
<1>3. ~OfFinish => NoFalseInheritance
  BY DEF OfFinish, NoFalseInheritance
<1> QED BY <1>1, <1>2, <1>3, FinishStays, FinishIsCompletion, PTL

\* Nothing owed is completed or archived untracked (requireRemainderDischarged,
\* checkArchiveGuards).
THEOREM PutAwayIsTracked == Spec => NothingOwedIsPutAway
<1>1. Finish!Spec => [][Finish!PutAwayStep]_Finish!vars
  BY FinishAssumption, Finish!OwedIsTracked DEF Finish!NothingOwedIsPutAway
<1>2. [Finish!PutAwayStep]_Finish!vars => [part = "completion" => Finish!PutAwayStep]_vars
  BY DEF Finish!vars, Finish!PutAwayStep
<1>3. ~OfFinish => [part = "completion" => Finish!PutAwayStep]_vars
  BY DEF OfFinish
<1> QED BY <1>1, <1>2, <1>3, FinishStays, FinishIsCompletion, PTL DEF NothingOwedIsPutAway

\* What is completed or archived is named back by its successors (reconcileBacklinks).
THEOREM ChainsAreWalkable == Spec => LinksWalkable
<1>1. Finish!Spec => [][Finish!LinkedStep]_Finish!vars
  BY FinishAssumption, Finish!ChainsWalkable DEF Finish!LinksWalkable
<1>2. [Finish!LinkedStep]_Finish!vars => [part = "completion" => Finish!LinkedStep]_vars
  BY DEF Finish!vars, Finish!LinkedStep
<1>3. ~OfFinish => [part = "completion" => Finish!LinkedStep]_vars
  BY DEF OfFinish
<1> QED BY <1>1, <1>2, <1>3, FinishStays, FinishIsCompletion, PTL DEF LinksWalkable

(***************************************************************************)
(* Listing.  A behaviour of MCParts makes one report and stops.            *)
(***************************************************************************)
OfReport == part = "listing"

LEMMA ReportStays == Spec => []OfReport \/ []~OfReport
<1>1. OfReport /\ [Next]_vars => OfReport'
  BY PartStays DEF OfReport
<1>2. ~OfReport /\ [Next]_vars => (~OfReport)'
  BY PartStays DEF OfReport
<1> QED BY <1>1, <1>2, PTL DEF Spec

LEMMA ReportStep ==
  ASSUME OfReport, [Next]_vars
  PROVE  [Report!Next]_Report!vars
<1>1. CASE UNCHANGED vars
  BY <1>1 DEF vars, Report!vars
<1>2. CASE Next
  BY <1>2 DEF Next, OfReport, OfDocuments, OfShelving, OfCompletion, OfSpend, OfIdentity,
       OfListing, Report!Next, Report!Others, Listed
<1> QED BY <1>1, <1>2

LEMMA ReportIsListing == Spec /\ []OfReport => Report!Spec
<1>1. Init /\ OfReport => Report!Init
  BY DEF Init, OfReport
<1>2. OfReport /\ [Next]_vars => [Report!Next]_Report!vars
  BY ReportStep
<1> QED BY <1>1, <1>2, PTL DEF Spec, Report!Spec

\* What only goes the way items flow is listed, once, while it goes (listAllOrder).
THEOREM FlowingIsListed == Spec => []ListedOnce
<1>1. Report!Spec => []Report!ListedOnce
  BY ReportAssumption, Report!FlowingIsListedOnce
<1>2. OfReport /\ Report!ListedOnce => ListedOnce
  BY DEF ListedOnce
<1>3. ~OfReport => ListedOnce
  BY DEF OfReport, ListedOnce
<1> QED BY <1>1, <1>2, <1>3, ReportStays, ReportIsListing, PTL

\* What is reported as blocked has been claimed that long (computeBlocked).
THEOREM BlockedIsClaimed == Spec => []BlockedIsOld
<1>1. Report!Spec => []Report!BlockedIsOld
  BY ReportAssumption, Report!BlockedIsLongClaimed
<1>2. OfReport /\ Report!BlockedIsOld => BlockedIsOld
  BY DEF BlockedIsOld
<1>3. ~OfReport => BlockedIsOld
  BY DEF OfReport, BlockedIsOld
<1> QED BY <1>1, <1>2, <1>3, ReportStays, ReportIsListing, PTL

(***************************************************************************)
(* Shelving.                                                               *)
(***************************************************************************)
OfShelf == part = "shelving"

LEMMA ShelfStays == Spec => []OfShelf \/ []~OfShelf
<1>1. OfShelf /\ [Next]_vars => OfShelf'
  BY PartStays DEF OfShelf
<1>2. ~OfShelf /\ [Next]_vars => (~OfShelf)'
  BY PartStays DEF OfShelf
<1> QED BY <1>1, <1>2, PTL DEF Spec

LEMMA ShelfStep ==
  ASSUME OfShelf, [Next]_vars
  PROVE  [Shelf!Next]_Shelf!vars
<1>1. CASE UNCHANGED vars
  BY <1>1 DEF vars, Shelf!vars
<1>2. CASE Next
  BY <1>2 DEF Next, OfShelf, OfDocuments, OfShelving, OfCompletion, OfSpend, OfIdentity,
       OfListing, Shelf!Next
<1> QED BY <1>1, <1>2

LEMMA ShelfIsShelving == Spec /\ []OfShelf => Shelf!Spec
<1>1. Init /\ OfShelf => Shelf!Init
  BY DEF Init, OfShelf
<1>2. OfShelf /\ [Next]_vars => [Shelf!Next]_Shelf!vars
  BY ShelfStep
<1> QED BY <1>1, <1>2, PTL DEF Spec, Shelf!Spec

\* A shelve leaves no dependent open, save those that another command has moved
\* (shelveCascade).
THEOREM CascadeIsComplete == Spec => []DependentsHidden
<1>1. Shelf!Spec => []Shelf!DependentsHidden
  BY ShelfAssumption, Shelf!DependentsStayHidden
<1>2. OfShelf /\ Shelf!DependentsHidden => DependentsHidden
  BY DEF DependentsHidden
<1>3. ~OfShelf => DependentsHidden
  BY DEF OfShelf, DependentsHidden
<1> QED BY <1>1, <1>2, <1>3, ShelfStays, ShelfIsShelving, PTL

\* An unshelve brings back all that was hidden by what it restores, or filed under it
\* (unshelveTop, shelvedWithChain).
THEOREM ChainComesBack == Spec => []HiddenReturn
<1>1. Shelf!Spec => []Shelf!HiddenReturn
  BY ShelfAssumption, Shelf!HiddenComeBack
<1>2. OfShelf /\ Shelf!HiddenReturn => HiddenReturn
  BY DEF HiddenReturn
<1>3. ~OfShelf => HiddenReturn
  BY DEF OfShelf, HiddenReturn
<1> QED BY <1>1, <1>2, <1>3, ShelfStays, ShelfIsShelving, PTL

\* A restore lifts no hold it was not asked to lift, and takes into claimed/ only what
\* was claimed (shelvedWithChain, UnshelveClaim).
THEOREM RestoreIsAsAsked == Spec => NoMoreThanAsked
<1>1. Shelf!Spec => [][Shelf!HoldStep /\ Shelf!ClaimStep]_Shelf!vars
  BY ShelfAssumption, Shelf!HoldsAndClaimsKept DEF Shelf!NoMoreThanAsked
<1>2. [Shelf!HoldStep /\ Shelf!ClaimStep]_Shelf!vars =>
        [part = "shelving" => Shelf!HoldStep /\ Shelf!ClaimStep]_vars
  BY DEF Shelf!vars, Shelf!HoldStep, Shelf!ClaimStep
<1>3. ~OfShelf => [part = "shelving" => Shelf!HoldStep /\ Shelf!ClaimStep]_vars
  BY DEF OfShelf
<1> QED BY <1>1, <1>2, <1>3, ShelfStays, ShelfIsShelving, PTL DEF NoMoreThanAsked

-------------------------------------------------------------------------------
(***************************************************************************)
(* Documents. The invariant is of every document that was filed or edited: *)
(* what its tags say and what its body says agree, and the guards of an    *)
(* edit, read over the document as it stands, let it pass. Most of it is   *)
(* about a title written into a body: the lines that are not a title stay  *)
(* in their order, and so do the readers of them.                          *)
(***************************************************************************)
Text == Seq(Doc!Lines)
TitleOrNone == Title \cup {None}

LEMMA SameCount == \A S : Doc!Cardinality(S) = Cardinality(S)
<1>1. \A S : Doc!IsFiniteSet(S) = IsFiniteSet(S)
  BY DEF IsFiniteSet, Doc!IsFiniteSet
<1> QED BY <1>1, Zenon DEF Cardinality, Doc!Cardinality

LEMMA Least ==
  ASSUME NEW T \in SUBSET Nat, T # {}
  PROVE  Doc!MinOf(T) \in T /\ \A n \in T : Doc!MinOf(T) <= n
<1> DEFINE R == {s \in Nat \X Nat : s[1] < s[2]}
<1>1. IsWellFoundedOn(R, Nat)
  BY NatLessThanWellFounded, Zenon DEF OpToRel
<1>2. PICK k \in T : \A l \in T : <<l, k>> \notin R
  <2> HIDE DEF R
  <2> QED BY <1>1, WFMin, Zenon
<1>3. \A l \in T : k <= l
  <2> TAKE l \in T
  <2>1. l \in Nat /\ k \in Nat /\ <<l, k>> \notin R
    BY <1>2
  <2>2. ~(l < k)
    BY <2>1
  <2> QED BY <2>1, <2>2
<1> QED BY <1>2, <1>3 DEF Doc!MinOf

LEMMA LeastIs ==
  ASSUME NEW T \in SUBSET Nat, NEW k \in T, \A n \in T : k <= n
  PROVE  Doc!MinOf(T) = k
<1>1. PICK n : n = Doc!MinOf(T)
  OBVIOUS
<1>2. n \in T /\ n <= k
  BY <1>1, Least
<1>3. n \in Nat /\ k \in Nat /\ k <= n
  BY <1>2
<1> QED BY <1>1, <1>2, <1>3

LEMMA LinesAre ==
  /\ \A l \in Doc!Lines : l.kind = "title" => l.text \in TitleOrNone /\ l = Doc!Heading(l.text)
  /\ \A t \in TitleOrNone : Doc!Heading(t) \in Doc!Lines
  /\ \A t : Doc!Heading(t).kind = "title" /\ Doc!Heading(t).text = t
  /\ Doc!Blank \in Doc!Lines /\ Doc!Blank.kind = "blank"
  /\ Doc!Prose \in Doc!Lines /\ Doc!Prose.kind = "prose"
<1>1. \A t : Doc!Heading(t).kind = "title" /\ Doc!Heading(t).text = t
  BY DEF Doc!Heading, Doc!Plain
<1>2. \A k, v, form : Doc!Key(k, v, form).kind = "key"
  BY DEF Doc!Key, Doc!Plain
<1>3. /\ Doc!Blank.kind = "blank" /\ Doc!Prose.kind = "prose" /\ Doc!Fence.kind = "fence"
      /\ Doc!Section.kind = "section"
  BY DEF Doc!Blank, Doc!Prose, Doc!Fence, Doc!Section, Doc!Plain
<1> QED BY <1>1, <1>2, <1>3 DEF Doc!Lines, TitleOrNone

LEMMA TitlesAre ==
  ASSUME NEW b \in Text
  PROVE  /\ Len(b) \in Nat /\ Doc!Headings(b) \in SUBSET (1 .. Len(b))
         /\ Doc!TitleOf(b) \in TitleOrNone
         /\ Doc!Headings(b) # {} =>
              /\ Doc!MinOf(Doc!Headings(b)) \in Doc!Headings(b)
              /\ Doc!Title1(b) = Doc!MinOf(Doc!Headings(b))
              /\ b[Doc!MinOf(Doc!Headings(b))] = Doc!Heading(Doc!TitleOf(b))
<1>1. Len(b) \in Nat /\ \A i \in 1 .. Len(b) : b[i] \in Doc!Lines
  BY DEF Text
<1>2. Doc!Headings(b) \in SUBSET (1 .. Len(b))
  BY DEF Doc!Headings
<1>3. CASE Doc!Headings(b) = {}
  BY <1>1, <1>2, <1>3 DEF Doc!TitleOf, TitleOrNone
<1>4. CASE Doc!Headings(b) # {}
  <2>1. PICK n : n = Doc!MinOf(Doc!Headings(b))
    OBVIOUS
  <2>2. n \in Doc!Headings(b)
    <3>1. Doc!Headings(b) \in SUBSET Nat
      BY <1>1, <1>2
    <3> QED BY <1>4, <2>1, <3>1, Least
  <2>3. b[n].kind = "title" /\ b[n] \in Doc!Lines
    BY <1>1, <2>2 DEF Doc!Headings
  <2>4. Doc!TitleOf(b) = b[n].text /\ Doc!Title1(b) = n
    BY <1>4, <2>1 DEF Doc!TitleOf, Doc!Title1
  <2> QED BY <1>1, <1>2, <1>4, <2>1, <2>2, <2>3, <2>4, LinesAre
<1> QED BY <1>3, <1>4

(***************************************************************************)
(* What the title is written over, or above, reads the same.               *)
(***************************************************************************)
Shifted(b, c, o) ==
  /\ Len(c) = Len(b) + o
  /\ \A i \in 1 .. o : c[i].kind \in {"blank", "title"}
  /\ \A i \in 1 .. Len(b) : c[i + o] = b[i] \/ (c[i + o].kind = "title" /\ b[i].kind = "title")

LEMMA ComposeIs ==
  ASSUME NEW b \in Text, NEW t \in TitleOrNone, NEW c, c = Doc!Compose(b, t)
  PROVE  /\ c \in Text /\ Doc!Headings(c) # {} /\ Doc!TitleOf(c) = t
         /\ Shifted(b, c, IF Doc!Headings(b) = {} THEN 2 ELSE 0)
         /\ Doc!Headings(b) # {} /\ t = Doc!TitleOf(b) => c = b
         /\ Doc!Headings(b) = {} => Doc!Headings(c) = {2}
<1>1. Len(b) \in Nat /\ \A i \in 1 .. Len(b) : b[i] \in Doc!Lines
  BY DEF Text
<1>2. PICK h : h = Doc!Heading(t)
  OBVIOUS
<1>3. h \in Doc!Lines /\ h.kind = "title" /\ h.text = t
  BY <1>2, LinesAre
<1>4. CASE Doc!Headings(b) = {}
  <2>1. PICK e : e = <<Doc!Blank, h>>
    OBVIOUS
  <2>2. e \in Text /\ Len(e) = 2 /\ e[1] = Doc!Blank /\ e[2] = h
    BY <1>3, <2>1, LinesAre DEF Text
  <2>3. c = e \o b
    BY <1>2, <1>4, <2>1 DEF Doc!Compose
  <2>4. /\ c \in Text /\ Len(c) = Len(b) + 2 /\ c[1] = Doc!Blank /\ c[2] = h
        /\ \A i \in 1 .. Len(b) : c[i + 2] = b[i]
    <3>1. /\ c \in Text /\ Len(c) = 2 + Len(b)
          /\ \A i \in 1 .. 2 + Len(b) : c[i] = IF i <= 2 THEN e[i] ELSE b[i - 2]
      <4>1. e \in Seq(Doc!Lines) /\ b \in Seq(Doc!Lines)
        BY <2>2 DEF Text
      <4>2. /\ e \o b \in Seq(Doc!Lines) /\ Len(e \o b) = Len(e) + Len(b)
            /\ \A i \in 1 .. Len(e) + Len(b) : (e \o b)[i] = IF i <= Len(e) THEN e[i] ELSE b[i - Len(e)]
        BY <4>1, ConcatProperties
      <4> QED BY <2>2, <2>3, <4>2 DEF Text
    <3>2. c[1] = e[1] /\ c[2] = e[2]
      BY <1>1, <3>1
    <3>3. ASSUME NEW i \in 1 .. Len(b) PROVE c[i + 2] = b[i]
      <4>1. i + 2 \in 1 .. 2 + Len(b) /\ ~(i + 2 <= 2) /\ (i + 2) - 2 = i
        BY <1>1
      <4> QED BY <3>1, <4>1
    <3> QED BY <1>1, <2>2, <3>1, <3>2, <3>3
  <2>5. Doc!Headings(c) = {2}
    <3>1. \A i \in 1 .. Len(b) : c[i + 2].kind # "title"
      BY <1>4, <2>4 DEF Doc!Headings
    <3>2. \A i \in 3 .. Len(c) : c[i].kind # "title"
      <4> TAKE i \in 3 .. Len(c)
      <4>1. i - 2 \in 1 .. Len(b) /\ (i - 2) + 2 = i
        BY <1>1, <2>4
      <4> QED BY <3>1, <4>1
    <3> QED BY <1>1, <1>3, <2>4, <3>2, LinesAre DEF Doc!Headings
  <2>6. Doc!TitleOf(c) = t
    <3>1. Doc!MinOf({2}) = 2
      BY LeastIs
    <3> QED BY <1>3, <2>4, <2>5, <3>1 DEF Doc!TitleOf
  <2>7. Shifted(b, c, 2)
    BY <1>3, <2>4, LinesAre DEF Shifted
  <2> QED BY <1>4, <2>4, <2>5, <2>6, <2>7
<1>5. CASE Doc!Headings(b) # {}
  <2>1. PICK n : n = Doc!MinOf(Doc!Headings(b))
    OBVIOUS
  <2>2. n \in 1 .. Len(b) /\ b[n].kind = "title" /\ b[n] = Doc!Heading(Doc!TitleOf(b))
    BY <1>5, <2>1, TitlesAre DEF Doc!Headings
  <2>3. c = [b EXCEPT ![n] = h]
    BY <1>2, <1>5, <2>1 DEF Doc!Compose
  <2>4. c \in Text /\ Len(c) = Len(b) /\ c[n] = h /\ \A i \in 1 .. Len(b) : i # n => c[i] = b[i]
    BY <1>1, <1>3, <2>2, <2>3 DEF Text
  <2>5. Doc!Headings(c) = Doc!Headings(b)
    BY <1>3, <2>2, <2>4 DEF Doc!Headings
  <2>6. Doc!TitleOf(c) = t
    BY <1>3, <1>5, <2>1, <2>4, <2>5 DEF Doc!TitleOf
  <2>7. Shifted(b, c, 0)
    BY <1>1, <1>3, <2>2, <2>4 DEF Shifted
  <2>8. ASSUME t = Doc!TitleOf(b) PROVE c = b
    <3>1. b[n] = h
      BY <1>2, <2>2, <2>8
    <3>2. b \in [1 .. Len(b) -> Doc!Lines]
      BY DEF Text
    <3> QED BY <2>2, <2>3, <3>1, <3>2
  <2> QED BY <1>5, <2>4, <2>5, <2>6, <2>7, <2>8
<1> QED BY <1>4, <1>5

LEMMA ShiftedFence ==
  ASSUME NEW b \in Text, NEW c \in Text, NEW o \in {0, 2}, Shifted(b, c, o), NEW i \in 1 .. Len(b)
  PROVE  Doc!InFence(c, i + o) = Doc!InFence(b, i)
<1>1. Len(b) \in Nat
  BY DEF Text
<1> DEFINE S == {j \in 1 .. i - 1 : b[j].kind = "fence"}
           T == {j \in 1 .. i + o - 1 : c[j].kind = "fence"}
           f == [j \in S |-> j + o]
<1>2. f \in [S -> T]
  <2>1. ASSUME NEW j \in S PROVE j + o \in T
    <3>1. j \in 1 .. Len(b) /\ j + o \in 1 .. i + o - 1 /\ b[j].kind = "fence"
      BY <1>1
    <3> QED BY <3>1 DEF Shifted
  <2> QED BY <2>1
<1>3. \A x, y \in S : f[x] = f[y] => x = y
  OBVIOUS
<1>4. \A y \in T : \E x \in S : f[x] = y
  <2> TAKE y \in T
  <2>1. y > o
    BY DEF Shifted
  <2>2. y - o \in 1 .. Len(b) /\ y - o \in 1 .. i - 1 /\ (y - o) + o = y
    BY <1>1, <2>1
  <2>3. c[y].kind = "fence"
    OBVIOUS
  <2>4. y - o \in S
    BY <2>2, <2>3 DEF Shifted
  <2> QED BY <2>2, <2>4
<1>5. f \in Bijection(S, T)
  <2>1. PICK g : g = f
    OBVIOUS
  <2>2. g \in [S -> T] /\ (\A x, y \in S : g[x] = g[y] => x = y) /\ \A y \in T : \E x \in S : g[x] = y
    BY <1>2, <1>3, <1>4, <2>1
  <2>3. g \in Bijection(S, T)
    <3> HIDE DEF S, T, f
    <3> QED BY <2>2 DEF Bijection, Injection, Surjection, IsInjective
  <2> QED BY <2>1, <2>3
<1>6. IsFiniteSet(S)
  <2>1. IsFiniteSet(1 .. i - 1)
    BY <1>1, FS_Interval
  <2>2. S \subseteq 1 .. i - 1
    OBVIOUS
  <2> QED BY <2>1, <2>2, FS_Subset
<1>7. Cardinality(T) = Cardinality(S)
  BY <1>5, <1>6, FS_Bijection DEF ExistsBijection
<1> QED BY <1>7, SameCount DEF Doc!InFence

LEMMA DeclsAre ==
  ASSUME NEW b \in Text
  PROVE  /\ Doc!Declarations(b) \in SUBSET (1 .. Len(b)) /\ Doc!Declarations(b) \in SUBSET Nat
         /\ Doc!Declarations(b) # {} =>
              /\ Doc!MinOf(Doc!Declarations(b)) \in Doc!Declarations(b)
              /\ \A i \in Doc!Declarations(b) : Doc!MinOf(Doc!Declarations(b)) <= i
<1>1. Doc!Declarations(b) \in SUBSET (1 .. Len(b)) /\ Doc!Declarations(b) \in SUBSET Nat
  BY DEF Doc!Declarations
<1> QED BY <1>1, Least

\* Two bodies whose declarations are the same, some lines apart, are read alike.
LEMMA SameReading ==
  ASSUME NEW b \in Text, NEW c \in Text, NEW o \in {0, 2},
         \A i \in Doc!Declarations(b) : i + o \in Doc!Declarations(c) /\ c[i + o].val = b[i].val,
         \A k \in Doc!Declarations(c) : \E i \in Doc!Declarations(b) : k = i + o,
         \A i \in Doc!Declarations(b) : Doc!InLead(c, i + o) <=> Doc!InLead(b, i)
  PROVE  Doc!Declared(c) = Doc!Declared(b) /\ (Doc!Misplaced(c) <=> Doc!Misplaced(b))
<1>1. CASE Doc!Declarations(b) = {}
  BY <1>1 DEF Doc!Declared, Doc!Misplaced
<1>2. CASE Doc!Declarations(b) # {}
  <2>1. PICK n : n = Doc!MinOf(Doc!Declarations(b))
    OBVIOUS
  <2>2. n \in Nat /\ n \in Doc!Declarations(b) /\ \A i \in Doc!Declarations(b) : n <= i /\ i \in Nat
    BY <1>2, <2>1, DeclsAre
  <2>3. PICK m : m = n + o
    OBVIOUS
  <2>4. m \in Doc!Declarations(c) /\ \A k \in Doc!Declarations(c) : m <= k
    BY <2>2, <2>3
  <2>5. Doc!MinOf(Doc!Declarations(c)) = m
    BY <2>4, DeclsAre, LeastIs
  <2>6. c[m].val = b[n].val /\ (Doc!InLead(c, m) <=> Doc!InLead(b, n))
    BY <2>2, <2>3
  <2> QED BY <1>2, <2>1, <2>4, <2>5, <2>6 DEF Doc!Declared, Doc!Misplaced
<1> QED BY <1>1, <1>2

LEMMA ShiftedReads ==
  ASSUME NEW b \in Text, NEW c \in Text, NEW o \in {0, 2}, Shifted(b, c, o)
  PROVE  Doc!Declared(c) = Doc!Declared(b) /\ (Doc!Misplaced(c) <=> Doc!Misplaced(b))
<1>1. Len(b) \in Nat
  BY DEF Text
<1>2. ASSUME NEW i \in Doc!Declarations(b)
      PROVE  i + o \in Doc!Declarations(c) /\ c[i + o].val = b[i].val
  <2>1. i \in 1 .. Len(b) /\ b[i].kind = "key" /\ b[i].key = "workflow" /\ ~Doc!InFence(b, i)
    BY DEF Doc!Declarations
  <2>2. i + o \in 1 .. Len(c) /\ c[i + o] = b[i]
    BY <1>1, <2>1 DEF Shifted
  <2>3. ~Doc!InFence(c, i + o)
    BY <2>1, ShiftedFence
  <2> QED BY <2>1, <2>2, <2>3 DEF Doc!Declarations
<1>3. ASSUME NEW k \in Doc!Declarations(c)
      PROVE  \E i \in Doc!Declarations(b) : k = i + o
  <2>1. k \in 1 .. Len(c) /\ c[k].kind = "key" /\ c[k].key = "workflow" /\ ~Doc!InFence(c, k)
    BY DEF Doc!Declarations
  <2>2. PICK i : i = k - o
    OBVIOUS
  <2>3. k > o
    BY <2>1 DEF Shifted
  <2>4. i \in 1 .. Len(b) /\ k = i + o
    BY <1>1, <2>1, <2>2, <2>3 DEF Shifted
  <2>5. b[i] = c[k]
    BY <2>1, <2>4 DEF Shifted
  <2>6. ~Doc!InFence(b, i)
    BY <2>1, <2>4, ShiftedFence
  <2>7. i \in Doc!Declarations(b)
    BY <2>1, <2>4, <2>5, <2>6 DEF Doc!Declarations
  <2> QED BY <2>4, <2>7
<1>4. ASSUME NEW i \in 1 .. Len(b) PROVE Doc!InLead(c, i + o) <=> Doc!InLead(b, i)
  <2>1. \A j \in 1 .. Len(b) : Doc!Leads(c[j + o]) <=> Doc!Leads(b[j])
    BY DEF Shifted, Doc!Leads
  <2>2. \A j \in 1 .. o : Doc!Leads(c[j])
    BY DEF Shifted, Doc!Leads
  <2>3. ASSUME Doc!InLead(c, i + o), NEW j \in 1 .. i - 1 PROVE Doc!Leads(b[j])
    <3>1. j + o \in 1 .. (i + o) - 1 /\ j \in 1 .. Len(b)
      BY <1>1
    <3> QED BY <2>1, <2>3, <3>1 DEF Doc!InLead
  <2>4. ASSUME Doc!InLead(b, i), NEW j \in 1 .. (i + o) - 1 PROVE Doc!Leads(c[j])
    <3>1. CASE j <= o
      BY <2>2, <3>1
    <3>2. CASE j > o
      <4>1. j - o \in 1 .. i - 1 /\ j - o \in 1 .. Len(b) /\ (j - o) + o = j
        BY <1>1, <3>2
      <4> QED BY <2>1, <2>4, <4>1 DEF Doc!InLead
    <3> QED BY <3>1, <3>2
  <2> QED BY <2>3, <2>4 DEF Doc!InLead
<1>5. \A i \in Doc!Declarations(b) : Doc!InLead(c, i + o) <=> Doc!InLead(b, i)
  BY <1>4, DeclsAre
<1> QED BY <1>2, <1>3, <1>5, SameReading

LEMMA ComposeReads ==
  ASSUME NEW b \in Text, NEW t \in TitleOrNone
  PROVE  /\ Doc!Declared(Doc!Compose(b, t)) = Doc!Declared(b)
         /\ Doc!Misplaced(Doc!Compose(b, t)) <=> Doc!Misplaced(b)
<1>1. PICK c, o : c = Doc!Compose(b, t) /\ o = IF Doc!Headings(b) = {} THEN 2 ELSE 0
  OBVIOUS
<1>2. c \in Text /\ o \in {0, 2} /\ Shifted(b, c, o)
  BY <1>1, ComposeIs
<1> QED BY <1>1, <1>2, ShiftedReads

(***************************************************************************)
(* What is appended to, its trailing blank lines apart, stays in its place *)
(***************************************************************************)
Extended(b, a, n) ==
  /\ n \in Nat /\ n <= Len(b) /\ n <= Len(a)
  /\ \A i \in 1 .. n : a[i] = b[i]
  /\ \A i \in n + 1 .. Len(b) : b[i].kind = "blank"

LEMMA AppendedIs ==
  ASSUME NEW b \in Text, NEW text \in Text
  PROVE  /\ Doc!Appended(b, text) \in Text
         /\ \E n \in Nat : /\ Extended(b, Doc!Appended(b, text), n)
                           /\ text = <<Doc!Prose>> =>
                                \A i \in n + 1 .. Len(Doc!Appended(b, text)) :
                                  Doc!Appended(b, text)[i] \in {Doc!Blank, Doc!Prose}
<1>1. Len(b) \in Nat /\ \A i \in 1 .. Len(b) : b[i] \in Doc!Lines
  BY DEF Text
<1> DEFINE N == {n \in 0 .. Len(b) : \A i \in n + 1 .. Len(b) : b[i].kind = "blank"}
<1>2. PICK n : n = Doc!MinOf(N)
  OBVIOUS
<1>3. n \in 0 .. Len(b) /\ \A i \in n + 1 .. Len(b) : b[i].kind = "blank"
  <2>1. Len(b) \in N /\ N \in SUBSET Nat
    BY <1>1
  <2>2. n \in N
    <3> HIDE DEF N
    <3> QED BY <1>2, <2>1, Least
  <2> QED BY <2>2
<1>4. PICK t : t = Doc!Trimmed(b)
  OBVIOUS
<1>5. t = SubSeq(b, 1, n)
  BY <1>2, <1>4 DEF Doc!Trimmed
<1>6. t \in Text /\ Len(t) = n /\ \A i \in 1 .. n : t[i] = b[i]
  <2>1. \A i \in 1 .. n : b[i] \in Doc!Lines
    BY <1>1, <1>3
  <2>2. n \in Int /\ 1 \in Int /\ n - 1 + 1 = n /\ \A i \in 1 .. n : 1 + i - 1 = i
    BY <1>3
  <2>3. /\ t \in Seq(Doc!Lines) /\ Len(t) = IF 1 <= n THEN n - 1 + 1 ELSE 0
        /\ \A i \in 1 .. n - 1 + 1 : t[i] = b[1 + i - 1]
    BY <1>5, <2>1, <2>2, SubSeqProperties
  <2> QED BY <1>3, <2>2, <2>3 DEF Text
<1>7. CASE t = <<>>
  <2>1. n = 0 /\ Doc!Appended(b, text) = text
    BY <1>3, <1>4, <1>6, <1>7 DEF Doc!Appended
  <2>2. Extended(b, text, 0)
    BY <1>1, <1>3, <2>1 DEF Extended, Text
  <2>3. text = <<Doc!Prose>> => \A i \in 1 .. Len(text) : text[i] \in {Doc!Blank, Doc!Prose}
    OBVIOUS
  <2> QED BY <2>1, <2>2, <2>3
<1>8. CASE t # <<>>
  <2>1. PICK k : k = <<Doc!Blank>>
    OBVIOUS
  <2>2. k \in Seq(Doc!Lines) /\ Len(k) = 1 /\ k[1] = Doc!Blank
    BY <2>1, LinesAre
  <2>3. PICK u : u = t \o k
    OBVIOUS
  <2>4. /\ u \in Seq(Doc!Lines) /\ Len(u) = n + 1
        /\ \A i \in 1 .. n + 1 : u[i] = IF i <= n THEN t[i] ELSE k[i - n]
    <3>1. t \in Seq(Doc!Lines)
      BY <1>6 DEF Text
    <3>2. /\ t \o k \in Seq(Doc!Lines) /\ Len(t \o k) = Len(t) + Len(k)
          /\ \A i \in 1 .. Len(t) + Len(k) : (t \o k)[i] = IF i <= Len(t) THEN t[i] ELSE k[i - Len(t)]
      BY <2>2, <3>1, ConcatProperties
    <3> QED BY <1>6, <2>2, <2>3, <3>2
  <2>5. PICK a : a = u \o text
    OBVIOUS
  <2>6. /\ a \in Seq(Doc!Lines) /\ Len(a) = n + 1 + Len(text)
        /\ \A i \in 1 .. n + 1 + Len(text) : a[i] = IF i <= n + 1 THEN u[i] ELSE text[i - (n + 1)]
    <3>1. u \in Seq(Doc!Lines) /\ text \in Seq(Doc!Lines)
      BY <2>4 DEF Text
    <3>2. /\ u \o text \in Seq(Doc!Lines) /\ Len(u \o text) = Len(u) + Len(text)
          /\ \A i \in 1 .. Len(u) + Len(text) :
               (u \o text)[i] = IF i <= Len(u) THEN u[i] ELSE text[i - Len(u)]
      BY <3>1, ConcatProperties
    <3> QED BY <2>4, <2>5, <3>2
  <2>7. a = Doc!Appended(b, text)
    BY <1>4, <1>8, <2>1, <2>3, <2>5 DEF Doc!Appended
  <2>8. n \in Nat /\ Len(text) \in Nat
    BY <1>3 DEF Text
  <2>9. \A i \in 1 .. n : a[i] = b[i]
    <3> TAKE i \in 1 .. n
    <3>1. i \in 1 .. n + 1 + Len(text) /\ i \in 1 .. n + 1 /\ i <= n /\ i <= n + 1
      BY <2>8
    <3> QED BY <1>6, <2>4, <2>6, <3>1
  <2>10. Extended(b, a, n)
    BY <1>3, <2>6, <2>8, <2>9 DEF Extended
  <2>11. ASSUME text = <<Doc!Prose>>, NEW i \in n + 1 .. Len(a) PROVE a[i] \in {Doc!Blank, Doc!Prose}
    <3>1. Len(text) = 1 /\ text[1] = Doc!Prose
      BY <2>11
    <3>2. CASE i = n + 1
      <4>1. a[i] = u[i] /\ u[i] = k[i - n] /\ i - n = 1
        BY <2>4, <2>6, <2>8, <3>1, <3>2
      <4> QED BY <2>2, <4>1
    <3>3. CASE i = n + 2
      <4>1. a[i] = text[i - (n + 1)] /\ i - (n + 1) = 1
        BY <2>6, <2>8, <3>1, <3>3
      <4> QED BY <3>1, <4>1
    <3> QED BY <2>6, <2>8, <3>1, <3>2, <3>3
  <2> QED BY <2>6, <2>7, <2>8, <2>10, <2>11 DEF Text
<1> QED BY <1>7, <1>8

LEMMA ExtendedFence ==
  ASSUME NEW b \in Text, NEW a \in Text, NEW n, Extended(b, a, n), NEW i \in 1 .. n
  PROVE  Doc!InFence(a, i) <=> Doc!InFence(b, i)
<1>1. \A j \in 1 .. i - 1 : a[j] = b[j]
  BY DEF Extended
<1>2. {j \in 1 .. i - 1 : a[j].kind = "fence"} = {j \in 1 .. i - 1 : b[j].kind = "fence"}
  BY <1>1
<1> QED BY <1>2 DEF Doc!InFence

LEMMA ExtendedDecls ==
  ASSUME NEW b \in Text, NEW a \in Text, NEW n, Extended(b, a, n)
  PROVE  /\ \A i \in Doc!Declarations(b) : i \in 1 .. n /\ i \in Doc!Declarations(a)
         /\ \A i \in Doc!Declarations(a) : i <= n => i \in Doc!Declarations(b)
         /\ \A i \in 1 .. n : a[i] = b[i] /\ (Doc!InLead(a, i) <=> Doc!InLead(b, i))
<1>1. n \in Nat /\ n <= Len(b) /\ n <= Len(a) /\ Len(b) \in Nat /\ Len(a) \in Nat
  BY DEF Extended, Text
<1>2. ASSUME NEW i \in Doc!Declarations(b) PROVE i \in 1 .. n /\ i \in Doc!Declarations(a)
  <2>1. i \in 1 .. Len(b) /\ b[i].kind = "key" /\ b[i].key = "workflow" /\ ~Doc!InFence(b, i)
    BY DEF Doc!Declarations
  <2>2. i \in 1 .. n
    BY <1>1, <2>1 DEF Extended
  <2> QED BY <1>1, <2>1, <2>2, ExtendedFence DEF Doc!Declarations, Extended
<1>3. ASSUME NEW i \in Doc!Declarations(a), i <= n PROVE i \in Doc!Declarations(b)
  <2>1. i \in 1 .. n /\ a[i].kind = "key" /\ a[i].key = "workflow" /\ ~Doc!InFence(a, i)
    BY <1>1, <1>3 DEF Doc!Declarations
  <2> QED BY <1>1, <2>1, ExtendedFence DEF Doc!Declarations, Extended
<1>4. \A i \in 1 .. n : a[i] = b[i] /\ (Doc!InLead(a, i) <=> Doc!InLead(b, i))
  BY <1>1 DEF Doc!InLead, Extended
<1> QED BY <1>2, <1>3, <1>4

\* Nothing that is appended changes what is declared already.
LEMMA ExtendedReads ==
  ASSUME NEW b \in Text, NEW a \in Text, NEW n, Extended(b, a, n), Doc!Declared(b) # None
  PROVE  Doc!Declared(a) = Doc!Declared(b)
<1>1. Doc!Declarations(b) # {}
  BY DEF Doc!Declared
<1>2. PICK m : m = Doc!MinOf(Doc!Declarations(b))
  OBVIOUS
<1>3. m \in Doc!Declarations(b) /\ \A i \in Doc!Declarations(b) : m <= i
  BY <1>1, <1>2, DeclsAre
<1>4. m \in 1 .. n /\ n \in Nat /\ m \in Doc!Declarations(a)
  BY <1>3, ExtendedDecls DEF Extended
<1>5. \A i \in Doc!Declarations(a) : m <= i
  <2> TAKE i \in Doc!Declarations(a)
  <2>1. i \in Nat
    BY DeclsAre
  <2>2. CASE i <= n
    BY <1>3, <2>2, ExtendedDecls
  <2>3. CASE ~(i <= n)
    BY <1>4, <2>1, <2>3
  <2> QED BY <2>2, <2>3
<1>6. Doc!MinOf(Doc!Declarations(a)) = m
  BY <1>4, <1>5, DeclsAre, LeastIs
<1>7. a[m] = b[m] /\ (Doc!InLead(a, m) <=> Doc!InLead(b, m))
  BY <1>4, ExtendedDecls
<1> QED BY <1>1, <1>2, <1>4, <1>6, <1>7 DEF Doc!Declared

\* Of prose alone, nothing that it is read for changes.
Quiet(b, a, n) ==
  /\ b \in Text /\ a \in Text /\ Extended(b, a, n)
  /\ \A i \in n + 1 .. Len(a) : a[i] \in {Doc!Blank, Doc!Prose}

LEMMA QuietLines ==
  ASSUME NEW b, NEW a, NEW n, Quiet(b, a, n)
  PROVE  \A i \in 1 .. Len(a) : a[i].kind \in {"title", "key", "fence"} => i \in 1 .. n
<1>1. n \in Nat /\ Len(a) \in Nat
  BY DEF Quiet, Extended, Text
<1>2. \A i \in n + 1 .. Len(a) : a[i].kind \in {"blank", "prose"}
  BY LinesAre DEF Quiet
<1> QED BY <1>1, <1>2

LEMMA QuietReads ==
  ASSUME NEW b, NEW a, NEW n, Quiet(b, a, n)
  PROVE  /\ Doc!Declared(a) = Doc!Declared(b) /\ (Doc!Misplaced(a) <=> Doc!Misplaced(b))
         /\ Doc!Headings(a) = Doc!Headings(b) /\ Doc!TitleOf(a) = Doc!TitleOf(b)
         /\ \A t : Doc!TitleCount(a, t) = Doc!TitleCount(b, t)
<1>1. /\ b \in Text /\ a \in Text /\ Extended(b, a, n)
      /\ n \in Nat /\ n <= Len(b) /\ n <= Len(a) /\ Len(b) \in Nat /\ Len(a) \in Nat
  BY DEF Quiet, Extended, Text
<1>2. \A i \in Doc!Declarations(a) : i \in 1 .. n
  BY QuietLines DEF Doc!Declarations
<1>3. Doc!Declared(a) = Doc!Declared(b) /\ (Doc!Misplaced(a) <=> Doc!Misplaced(b))
  <2>1. \A i \in Doc!Declarations(b) : i + 0 \in Doc!Declarations(a) /\ a[i + 0].val = b[i].val
    <3> TAKE i \in Doc!Declarations(b)
    <3>1. i \in 1 .. n /\ i \in Doc!Declarations(a) /\ a[i] = b[i] /\ i + 0 = i
      BY <1>1, ExtendedDecls
    <3> QED BY <3>1
  <2>2. \A k \in Doc!Declarations(a) : \E i \in Doc!Declarations(b) : k = i + 0
    <3> TAKE k \in Doc!Declarations(a)
    <3>1. k \in 1 .. n
      BY <1>2
    <3>2. k \in Doc!Declarations(b) /\ k = k + 0
      BY <1>1, <3>1, ExtendedDecls
    <3> QED BY <3>2
  <2>3. \A i \in Doc!Declarations(b) : Doc!InLead(a, i + 0) <=> Doc!InLead(b, i)
    <3> TAKE i \in Doc!Declarations(b)
    <3>1. i \in 1 .. n /\ i + 0 = i /\ (Doc!InLead(a, i) <=> Doc!InLead(b, i))
      BY <1>1, ExtendedDecls
    <3> QED BY <3>1
  <2> QED BY <1>1, <2>1, <2>2, <2>3, SameReading
<1>4. Doc!Headings(a) = Doc!Headings(b)
  <2>1. \A i \in Doc!Headings(a) : i \in Doc!Headings(b)
    BY <1>1, QuietLines DEF Doc!Headings, Extended
  <2>2. \A i \in Doc!Headings(b) : i \in Doc!Headings(a)
    BY <1>1 DEF Doc!Headings, Extended
  <2> QED BY <2>1, <2>2
<1>5. \A i \in Doc!Headings(b) : a[i] = b[i]
  BY <1>1 DEF Doc!Headings, Extended
<1>6. Doc!TitleOf(a) = Doc!TitleOf(b)
  BY <1>1, <1>4, <1>5, TitlesAre DEF Doc!TitleOf
<1>7. \A t : {i \in Doc!Headings(a) : a[i].text = t} = {i \in Doc!Headings(b) : b[i].text = t}
  BY <1>4, <1>5
<1> QED BY <1>3, <1>4, <1>6, <1>7 DEF Doc!TitleCount

(***************************************************************************)
(* The block that dispatch reads.                                          *)
(***************************************************************************)
Stopping(b, first, i) ==
  ~Doc!Decl(b[i]) /\ ~(b[i].kind = "blank" /\ \A j \in first .. i - 1 : b[j].kind = "blank")

LEMMA BlockIs ==
  ASSUME NEW b \in Text, Doc!Headings(b) # {}
  PROVE  \A i : i \in Doc!InBlock(b) <=>
           /\ i \in Doc!Title1(b) + 1 .. Len(b) /\ i < Doc!Title1(b) + 1 + Horizon
           /\ \A j \in Doc!Title1(b) + 1 .. i : ~Stopping(b, Doc!Title1(b) + 1, j)
<1>1. PICK t, first : t = Doc!Title1(b) /\ first = t + 1
  OBVIOUS
<1>2. t \in 1 .. Len(b) /\ Len(b) \in Nat /\ Horizon \in Nat /\ first \in Nat
  BY <1>1, TitlesAre, DocAssumption DEF Doc!DocumentsAssumption
<1> DEFINE S == {i \in first .. Len(b) : Stopping(b, first, i)} \cup {Len(b) + 1, first + Horizon}
<1>3. PICK e : e = Doc!MinOf(S)
  OBVIOUS
<1>4. e \in S /\ \A s \in S : e <= s
  <2>1. S \in SUBSET Nat /\ S # {}
    BY <1>2
  <2> HIDE DEF S
  <2> QED BY <1>3, <2>1, Least
<1>5. Doc!BlockEnd(b) = e
  BY <1>1, <1>3 DEF Doc!BlockEnd, Stopping
<1>6. Doc!InBlock(b) = first .. e - 1
  BY <1>1, <1>2, <1>5 DEF Doc!InBlock
<1>7. e \in Nat /\ e <= Len(b) + 1 /\ e <= first + Horizon
  BY <1>2, <1>4
<1>8. \A j \in first .. Len(b) : Stopping(b, first, j) => e <= j
  BY <1>4
<1>9. ASSUME NEW i \in first .. e - 1
      PROVE  /\ i \in first .. Len(b) /\ i < first + Horizon
             /\ \A j \in first .. i : ~Stopping(b, first, j)
  <2>1. i \in first .. Len(b) /\ i < first + Horizon
    BY <1>2, <1>7
  <2>2. ASSUME NEW j \in first .. i PROVE ~Stopping(b, first, j)
    <3>1. j \in first .. Len(b) /\ j < e
      BY <1>2, <1>7
    <3> QED BY <1>7, <1>8, <3>1
  <2> QED BY <2>1, <2>2
<1>10. ASSUME NEW i \in first .. Len(b), i < first + Horizon,
              \A j \in first .. i : ~Stopping(b, first, j)
       PROVE  i \in first .. e - 1
  <2>1. \A s \in S : i < s
    BY <1>2, <1>10
  <2> QED BY <1>2, <1>4, <1>7, <2>1
<1> QED BY <1>1, <1>6, <1>9, <1>10

Carries(b, i) ==
  i \in 1 .. Len(b) \ Doc!InBlock(b) /\ Doc!Decl(b[i]) /\ b[i].key \in {"workflow", "stage"} /\ ~Doc!InFence(b, i)

LEMMA UnreachableIs ==
  ASSUME NEW b
  PROVE  Doc!Unreachable(b) = {b[i] : i \in {i \in 1 .. Len(b) : Carries(b, i)}}
BY DEF Doc!Unreachable, Carries

\* What prose is appended to reaches as far as it did.
LEMMA QuietReaches ==
  ASSUME NEW b, NEW a, NEW n, Quiet(b, a, n), NEW i, Carries(a, i)
  PROVE  i \in 1 .. n /\ a[i] = b[i] /\ Carries(b, i)
<1>1. /\ b \in Text /\ a \in Text /\ Extended(b, a, n)
      /\ n \in Nat /\ n <= Len(b) /\ n <= Len(a) /\ Len(b) \in Nat /\ Len(a) \in Nat
  BY DEF Quiet, Extended, Text
<1>2. i \in 1 .. n
  BY QuietLines DEF Carries, Doc!Decl
<1>3. a[i] = b[i] /\ ~Doc!InFence(b, i) /\ \A j \in 1 .. n : a[j] = b[j]
  BY <1>1, <1>2, ExtendedFence DEF Carries, Extended
<1>4. i \notin Doc!InBlock(b)
  <2>1. SUFFICES ASSUME i \in Doc!InBlock(b) PROVE FALSE
    OBVIOUS
  <2>2. Doc!Headings(b) # {}
    BY <2>1 DEF Doc!InBlock, Doc!Title1
  <2>3. Doc!Headings(a) = Doc!Headings(b)
    BY QuietReads
  <2>4. PICK t : t = Doc!Title1(b)
    OBVIOUS
  <2>5. Doc!Title1(a) = t /\ t \in Nat
    BY <1>1, <2>2, <2>3, <2>4, TitlesAre DEF Doc!Title1
  <2>6. /\ i \in t + 1 .. Len(b) /\ i < t + 1 + Horizon
        /\ \A j \in t + 1 .. i : ~Stopping(b, t + 1, j)
    BY <1>1, <2>1, <2>2, <2>4, BlockIs
  <2>7. \A j \in t + 1 .. i : ~Stopping(a, t + 1, j)
    <3> TAKE j \in t + 1 .. i
    <3>1. j \in 1 .. n /\ \A k \in t + 1 .. j - 1 : k \in 1 .. n
      BY <1>1, <1>2, <2>5
    <3>2. a[j] = b[j] /\ \A k \in t + 1 .. j - 1 : a[k] = b[k]
      BY <1>3, <3>1
    <3> QED BY <2>6, <3>2 DEF Stopping
  <2>8. i \in t + 1 .. Len(a)
    BY <1>1, <1>2, <2>5, <2>6
  <2>9. i \in Doc!InBlock(a)
    BY <1>1, <2>2, <2>3, <2>5, <2>6, <2>7, <2>8, BlockIs
  <2> QED BY <2>9 DEF Carries
<1> QED BY <1>1, <1>2, <1>3, <1>4 DEF Carries

\* The two readers of a body: where they may differ excepted, and nothing out of
\* reach, dispatch routes by what mg reads.
LEMMA ReadersAgree ==
  ASSUME NEW b \in Text, Doc!Headings(b) # {}, Doc!Unreachable(b) = {}, ~Doc!Misplaced(b),
         ~Doc!ReadersDiffer(b)
  PROVE  Doc!Declared(b) = Workflow <=> Doc!Routed(b) = Workflow
<1>1. PICK t : t = Doc!Title1(b)
  OBVIOUS
<1>2. t \in 1 .. Len(b) /\ b[t].kind = "title" /\ Len(b) \in Nat
  BY <1>1, TitlesAre, LinesAre
<1>3. ~Doc!InFence(b, t) /\ \A i \in 1 .. Len(b) : b[i].kind = "key" /\ b[i].key = "workflow" => b[i].form = "plain"
  BY <1>1 DEF Doc!ReadersDiffer
<1>4. ASSUME NEW i \in Doc!InBlock(b)
      PROVE  i \in t + 1 .. Len(b) /\ \A j \in t + 1 .. i : b[j].kind \in {"key", "blank"}
  <2>1. i \in t + 1 .. Len(b) /\ \A j \in t + 1 .. i : ~Stopping(b, t + 1, j)
    BY <1>1, BlockIs
  <2> QED BY <2>1 DEF Stopping, Doc!Decl
<1>5. ASSUME NEW i \in Doc!InBlock(b) PROVE ~Doc!InFence(b, i)
  <2>1. i \in t + 1 .. Len(b) /\ \A j \in t + 1 .. i : b[j].kind \in {"key", "blank"}
    BY <1>4
  <2>2. ASSUME NEW j \in 1 .. i - 1, b[j].kind = "fence" PROVE j \in 1 .. t - 1
    <3>1. j # t /\ ~(j \in t + 1 .. i)
      BY <1>2, <2>1, <2>2
    <3> QED BY <1>2, <2>1, <3>1
  <2>3. \A j \in 1 .. t - 1 : j \in 1 .. i - 1
    BY <1>2, <2>1
  <2>4. {j \in 1 .. i - 1 : b[j].kind = "fence"} = {j \in 1 .. t - 1 : b[j].kind = "fence"}
    BY <2>2, <2>3
  <2> QED BY <1>3, <2>4 DEF Doc!InFence
<1> DEFINE S == {i \in Doc!InBlock(b) : Doc!Decl(b[i]) /\ b[i].key = "workflow"}
<1>6. S = Doc!Declarations(b)
  <2>1. ASSUME NEW i \in S PROVE i \in Doc!Declarations(b)
    <3>1. i \in 1 .. Len(b)
      BY <1>2, <1>4
    <3> QED BY <1>5, <3>1 DEF Doc!Declarations, Doc!Decl
  <2>2. ASSUME NEW i \in Doc!Declarations(b) PROVE i \in S
    <3>1. i \in 1 .. Len(b) /\ b[i].kind = "key" /\ b[i].key = "workflow" /\ ~Doc!InFence(b, i)
      BY DEF Doc!Declarations
    <3>2. Doc!Decl(b[i])
      BY <1>3, <3>1 DEF Doc!Decl
    <3>3. i \in Doc!InBlock(b)
      BY <3>1, <3>2, UnreachableIs DEF Carries
    <3> QED BY <3>1, <3>2, <3>3
  <2> QED BY <2>1, <2>2
<1>7. CASE Doc!Declarations(b) = {}
  BY <1>6, <1>7, DocAssumption DEF Doc!Declared, Doc!Routed, Doc!DocumentsAssumption
<1>8. CASE Doc!Declarations(b) # {}
  <2>1. Doc!Routed(b) = b[Doc!MinOf(Doc!Declarations(b))].val
    BY <1>6, <1>8 DEF Doc!Routed
  <2> QED BY <1>8, <2>1, DocAssumption DEF Doc!Declared, Doc!Misplaced, Doc!DocumentsAssumption
<1> QED BY <1>7, <1>8

(***************************************************************************)
(* The invariant, of a document and where it came from.                    *)
(***************************************************************************)
DocSet == [body : Text, tags : SUBSET Doc!Tags]
Filed(d) ==
  /\ Doc!Headings(d.body) # {} /\ Doc!Unreachable(d.body) = {} /\ ~Doc!Misplaced(d.body)
  /\ Workflow \in d.tags <=> Doc!Declared(d.body) = Workflow
DocInv(d, o, e) ==
  /\ d \in DocSet /\ o \in {"none", "filed", "older"} /\ e \in 0 .. MaxEdits
  /\ o = "filed" => Filed(d)

WellFormed(f) ==
  /\ f.title \in TitleOrNone /\ f.body \in Text /\ f.text \in Text
  /\ f.add \in SUBSET Doc!Tags /\ f.rm \in SUBSET Doc!Tags

LEMMA FieldsApply ==
  ASSUME NEW d \in DocSet, NEW f, WellFormed(f)
  PROVE  /\ Doc!Supplied(d.body, f) \in Text /\ Doc!NewTitle(d.body, f) \in TitleOrNone
         /\ Doc!Result(d, f) \in DocSet
         /\ Doc!NewBody(d.body, f) \in Text /\ Doc!Headings(Doc!NewBody(d.body, f)) # {}
         /\ Doc!TitleOf(Doc!NewBody(d.body, f)) = Doc!NewTitle(d.body, f)
<1>1. d.body \in Text /\ d.tags \in SUBSET Doc!Tags
  BY DEF DocSet
<1>2. Doc!Supplied(d.body, f) \in Text
  BY <1>1, AppendedIs DEF Doc!Supplied, WellFormed
<1>3. Doc!NewTitle(d.body, f) \in TitleOrNone
  BY <1>1, TitlesAre DEF Doc!NewTitle, WellFormed
<1>4. PICK s, t, c : s = Doc!Supplied(d.body, f) /\ t = Doc!NewTitle(d.body, f) /\ c = Doc!Compose(s, t)
  OBVIOUS
<1>5. c = Doc!NewBody(d.body, f) /\ c \in Text /\ Doc!Headings(c) # {} /\ Doc!TitleOf(c) = t
  BY <1>2, <1>3, <1>4, ComposeIs DEF Doc!NewBody
<1>6. Doc!Derived(c, Doc!NewTags(d, f)) \in SUBSET Doc!Tags
  BY <1>1 DEF Doc!Derived, Doc!NewTags, WellFormed, Doc!Tags
<1> QED BY <1>2, <1>3, <1>4, <1>5, <1>6 DEF Doc!Result, DocSet

\* An edit that is not refused keeps what was filed in order.
LEMMA EditKeeps ==
  ASSUME NEW d \in DocSet, Filed(d), NEW f, WellFormed(f), ~Doc!Refused(d, f)
  PROVE  Filed(Doc!Result(d, f))
<1>1. PICK c, tags : c = Doc!NewBody(d.body, f) /\ tags = Doc!NewTags(d, f)
  OBVIOUS
<1>2. /\ c \in Text /\ Doc!Headings(c) # {} /\ d.body \in Text
      /\ Doc!Supplied(d.body, f) \in Text /\ Doc!NewTitle(d.body, f) \in TitleOrNone
  BY <1>1, FieldsApply DEF DocSet
<1>3. Doc!Unreachable(c) = {}
  BY <1>1 DEF Doc!Refused, Filed
<1>4. /\ ~Doc!Misplaced(c)
      /\ Workflow \in tags /\ Doc!Declared(c) # Workflow =>
           Doc!Grandfathered(d, f) /\ Doc!Declared(c) = None
  BY <1>1 DEF Doc!Refused, Doc!MarkersRefused
<1>5. ~(Doc!Grandfathered(d, f) /\ Doc!Declared(c) = None)
  <2>1. SUFFICES ASSUME Doc!Grandfathered(d, f) PROVE Doc!Declared(c) # None
    OBVIOUS
  <2>2. f.text # <<>> /\ f.body = <<>> /\ Doc!Declared(d.body) = Workflow /\ Workflow # None
    BY <2>1, DocAssumption DEF Doc!Grandfathered, Filed, Doc!DocumentsAssumption
  <2>3. PICK a : a = Doc!Appended(d.body, f.text)
    OBVIOUS
  <2>4. Doc!Supplied(d.body, f) = a
    BY <2>2, <2>3 DEF Doc!Supplied
  <2>5. \E n \in Nat : Extended(d.body, a, n)
    BY <1>2, <2>3, AppendedIs DEF WellFormed
  <2>6. Doc!Declared(a) = Workflow
    BY <1>2, <2>2, <2>4, <2>5, ExtendedReads
  <2>7. Doc!Declared(c) = Doc!Declared(a)
    BY <1>1, <1>2, <2>4, ComposeReads DEF Doc!NewBody
  <2> QED BY <2>2, <2>6, <2>7
<1>6. Workflow \in Doc!Derived(c, tags) <=> Doc!Declared(c) = Workflow
  BY <1>4, <1>5 DEF Doc!Derived
<1> QED BY <1>1, <1>2, <1>3, <1>4, <1>6 DEF Filed, Doc!Result

LEMMA AtMostOne ==
  ASSUME NEW S, NEW x, S \subseteq {x}
  PROVE  ~(Cardinality(S) > 1)
<1>1. S = {} \/ S = {x}
  OBVIOUS
<1>2. Cardinality({}) = 0 /\ Cardinality({x}) = 1
  BY FS_EmptySet, FS_Singleton
<1> QED BY <1>1, <1>2

\* Prose can be appended to what declares nothing, however it was filed.
LEMMA ProseAccepted ==
  ASSUME NEW d \in DocSet, ~Doc!Misplaced(d.body), Doc!Declared(d.body) = None
  PROVE  ~Doc!Refused(d, [Doc!NoField EXCEPT !.text = <<Doc!Prose>>])
<1>1. PICK f : f = [Doc!NoField EXCEPT !.text = <<Doc!Prose>>]
  OBVIOUS
<1>2. PICK p : p = <<Doc!Prose>>
  OBVIOUS
<1>3. p \in Text /\ p # <<>>
  BY <1>2, LinesAre DEF Text
<1>4. f.title = None /\ f.body = <<>> /\ f.text = p /\ f.add = {} /\ f.rm = {}
  BY <1>1, <1>2 DEF Doc!NoField
<1>5. PICK b, t, a : b = d.body /\ t = Doc!TitleOf(b) /\ a = Doc!Appended(b, p)
  OBVIOUS
<1>6. b \in Text /\ t \in TitleOrNone
  BY <1>5, TitlesAre DEF DocSet
<1>7. PICK n : Quiet(b, a, n)
  BY <1>2, <1>3, <1>5, <1>6, AppendedIs DEF Quiet
<1>8. PICK c : c = Doc!Compose(a, t)
  OBVIOUS
<1>9. a \in Text
  BY <1>7 DEF Quiet
<1>10. Doc!Supplied(b, f) = a /\ Doc!NewTitle(b, f) = t /\ Doc!NewBody(b, f) = c
  BY <1>3, <1>4, <1>5, <1>8 DEF Doc!Supplied, Doc!NewTitle, Doc!NewBody
<1>11. /\ Doc!Declared(a) = Doc!Declared(b) /\ (Doc!Misplaced(a) <=> Doc!Misplaced(b))
       /\ Doc!Headings(a) = Doc!Headings(b) /\ Doc!TitleOf(a) = t
       /\ Doc!TitleCount(a, t) = Doc!TitleCount(b, t)
  BY <1>5, <1>7, QuietReads
<1>12. ~Doc!Retitles(b, f)
  BY <1>5, <1>10, <1>11 DEF Doc!Retitles
<1>13. /\ c \in Text /\ Shifted(a, c, IF Doc!Headings(a) = {} THEN 2 ELSE 0)
       /\ Doc!Headings(a) # {} => c = a
       /\ Doc!Headings(a) = {} => Doc!Headings(c) = {2}
  BY <1>6, <1>8, <1>9, <1>11, ComposeIs
<1>14. ~Doc!Doubles(b, f)
  <2>1. CASE Doc!Headings(a) # {}
    <3>1. Doc!TitleCount(c, t) = Doc!TitleCount(b, t) /\ Len(b) \in Nat
      BY <1>6, <1>11, <1>13, <2>1 DEF Text
    <3>2. Doc!TitleCount(b, t) \in Nat
      <4>1. {i \in Doc!Headings(b) : b[i].text = t} \subseteq 1 .. Len(b)
        BY DEF Doc!Headings
      <4>2. IsFiniteSet(1 .. Len(b))
        BY <3>1, FS_Interval
      <4>3. IsFiniteSet({i \in Doc!Headings(b) : b[i].text = t})
        BY <4>1, <4>2, FS_Subset
      <4> QED BY <4>3, FS_CardinalityType, SameCount DEF Doc!TitleCount
    <3>3. ~(Doc!TitleCount(c, t) > Doc!TitleCount(b, t))
      BY <3>1, <3>2
    <3> QED BY <1>10, <3>3 DEF Doc!Doubles
  <2>2. CASE Doc!Headings(a) = {}
    <3>1. {i \in Doc!Headings(c) : c[i].text = t} \subseteq {2}
      BY <1>13, <2>2
    <3>2. ~(Doc!TitleCount(c, t) > 1)
      BY <3>1, AtMostOne, SameCount DEF Doc!TitleCount
    <3> QED BY <1>10, <3>2 DEF Doc!Doubles
  <2> QED BY <2>1, <2>2
<1>15. ~Doc!MarkersRefused(c, Doc!NewTags(d, f), Doc!Grandfathered(d, f))
  <2>1. Doc!Declared(c) = None /\ ~Doc!Misplaced(c)
    BY <1>5, <1>6, <1>8, <1>9, <1>11, ComposeReads
  <2>2. Doc!NewTags(d, f) = d.tags
    BY <1>4 DEF Doc!NewTags
  <2> QED BY <1>3, <1>4, <2>1, <2>2 DEF Doc!MarkersRefused, Doc!Grandfathered
<1>16. Doc!Unreachable(c) \subseteq Doc!Unreachable(b)
  <2>1. SUFFICES ASSUME NEW i, Carries(c, i) PROVE \E k \in 1 .. Len(b) : Carries(b, k) /\ b[k] = c[i]
    BY UnreachableIs
  <2>2. n \in Nat /\ n <= Len(b) /\ Len(b) \in Nat /\ Len(a) \in Nat
    BY <1>6, <1>7, <1>9 DEF Quiet, Extended, Text
  <2>3. CASE Doc!Headings(a) # {}
    <3>1. i \in 1 .. n /\ a[i] = b[i] /\ Carries(b, i)
      BY <1>7, <1>13, <2>1, <2>3, QuietReaches
    <3> QED BY <1>13, <2>2, <2>3, <3>1
  <2>4. CASE Doc!Headings(a) = {}
    <3>1. Shifted(a, c, 2) /\ i \in 1 .. Len(c) /\ c[i].kind = "key"
      BY <1>13, <2>1, <2>4 DEF Carries, Doc!Decl
    <3>2. PICK k : k = i - 2
      OBVIOUS
    <3>3. i > 2
      BY <3>1 DEF Shifted
    <3>4. k \in 1 .. Len(a) /\ i = k + 2
      BY <2>2, <3>1, <3>2, <3>3 DEF Shifted
    <3>5. c[i] = a[k]
      BY <3>1, <3>4 DEF Shifted
    <3>6. Doc!InFence(c, i) = Doc!InFence(a, k)
      BY <1>9, <1>13, <3>1, <3>4, ShiftedFence
    <3>7. k \notin Doc!InBlock(a)
      BY <2>4 DEF Doc!InBlock, Doc!Title1
    <3>8. Carries(a, k)
      BY <2>1, <3>4, <3>5, <3>6, <3>7 DEF Carries
    <3>9. k \in 1 .. n /\ a[k] = b[k] /\ Carries(b, k)
      BY <1>7, <3>8, QuietReaches
    <3> QED BY <2>2, <3>5, <3>9
  <2> QED BY <2>3, <2>4
<1>17. ~Doc!Refused(d, f)
  BY <1>5, <1>10, <1>12, <1>14, <1>15, <1>16 DEF Doc!Refused
<1> QED BY <1>1, <1>17

\* A filed body can be given back.
LEMMA SelfAccepted ==
  ASSUME NEW d \in DocSet, Filed(d)
  PROVE  LET f == [Doc!NoField EXCEPT !.body = d.body] IN ~Doc!Refused(d, f) /\ Doc!Result(d, f) = d
<1>1. PICK b, t, f : b = d.body /\ t = Doc!TitleOf(b) /\ f = [Doc!NoField EXCEPT !.body = d.body]
  OBVIOUS
<1>2. f.title = None /\ f.body = b /\ f.text = <<>> /\ f.add = {} /\ f.rm = {}
  BY <1>1 DEF Doc!NoField
<1>3. b \in Text /\ t \in TitleOrNone /\ Doc!Headings(b) # {} /\ Len(b) \in Nat
  BY <1>1, TitlesAre DEF DocSet, Filed, Text
<1>4. b # <<>>
  BY <1>3 DEF Doc!Headings
<1>5. Doc!Compose(b, t) = b
  BY <1>1, <1>3, ComposeIs
<1>6. Doc!Supplied(b, f) = b /\ Doc!NewTitle(b, f) = t /\ Doc!NewBody(b, f) = b
  BY <1>1, <1>2, <1>4, <1>5 DEF Doc!Supplied, Doc!NewTitle, Doc!NewBody
<1>7. ~Doc!Retitles(b, f)
  BY <1>1, <1>6 DEF Doc!Retitles
<1>8. ~Doc!Doubles(b, f)
  <2>1. PICK k : k = Doc!TitleCount(b, t)
    OBVIOUS
  <2>2. k \in Nat
    <3>1. {i \in Doc!Headings(b) : b[i].text = t} \subseteq 1 .. Len(b)
      BY DEF Doc!Headings
    <3>2. IsFiniteSet(1 .. Len(b))
      BY <1>3, FS_Interval
    <3>3. IsFiniteSet({i \in Doc!Headings(b) : b[i].text = t})
      BY <3>1, <3>2, FS_Subset
    <3> QED BY <2>1, <3>3, FS_CardinalityType, SameCount DEF Doc!TitleCount
  <2>3. ~(k > k)
    BY <2>2
  <2> QED BY <1>6, <2>1, <2>3 DEF Doc!Doubles
<1>9. Doc!NewTags(d, f) = d.tags
  BY <1>2 DEF Doc!NewTags
<1>10. ~Doc!Refused(d, f)
  BY <1>1, <1>6, <1>7, <1>8, <1>9 DEF Doc!Refused, Doc!MarkersRefused, Filed
<1>11. Doc!Result(d, f) = d
  <2>1. Doc!Derived(b, d.tags) = d.tags
    BY <1>1 DEF Doc!Derived, Filed
  <2>2. d = [body |-> b, tags |-> d.tags]
    BY <1>1 DEF DocSet
  <2> QED BY <1>1, <1>6, <1>9, <2>1, <2>2 DEF Doc!Result
<1> QED BY <1>1, <1>10, <1>11

(***************************************************************************)
(* Steps.                                                                  *)
(***************************************************************************)
Document == DocInv(s1, s2, s4)

LEMMA GivenTexts ==
  /\ \A b \in Bodies \cup {<<>>, <<Doc!Blank>>} : b \in Text
  /\ \A b \in Texts \cup {<<>>} : b \in Text
<1>1. PICK x : x = <<Doc!Blank>>
  OBVIOUS
<1>2. x \in Text /\ <<>> \in Text
  BY <1>1, LinesAre DEF Text
<1>3. Bodies \subseteq Text /\ Texts \subseteq Text
  BY DocAssumption DEF Doc!DocumentsAssumption, Text
<1> QED BY <1>1, <1>2, <1>3

LEMMA DocInit == Doc!Init => Document
<1>1. ASSUME Doc!Init PROVE Document
  <2>1. [body |-> <<>>, tags |-> {}] \in DocSet
    BY DEF DocSet, Text
  <2>2. Older \subseteq DocSet /\ 0 \in 0 .. MaxEdits
    BY DocAssumption DEF Doc!DocumentsAssumption, DocSet, Text
  <2> QED BY <1>1, <2>1, <2>2 DEF Doc!Init, Document, DocInv
<1> QED BY <1>1

LEMMA DocCreate ==
  ASSUME Document, Doc!Create
  PROVE  Document' /\ Doc!TitleStep
<1>1. PICK t \in Title, b \in Bodies \cup {<<Doc!Blank>>}, tags \in SUBSET Doc!Tags :
        /\ ~Doc!MarkersRefused(Doc!Compose(b, t), tags, FALSE)
        /\ Doc!Unreachable(Doc!Compose(b, t)) = {}
        /\ s1' = [body |-> Doc!Compose(b, t), tags |-> Doc!Derived(Doc!Compose(b, t), tags)]
        /\ s3' = t
  BY DEF Doc!Create
<1>2. s2' = "filed" /\ s4' = 0 /\ 0 \in 0 .. MaxEdits
  BY DocAssumption DEF Doc!Create, Doc!DocumentsAssumption
<1>3. PICK c : c = Doc!Compose(b, t)
  OBVIOUS
<1>4. b \in Text /\ t \in TitleOrNone /\ t # None
  BY GivenTexts, DocAssumption DEF Doc!DocumentsAssumption, TitleOrNone
<1>5. c \in Text /\ Doc!Headings(c) # {} /\ Doc!TitleOf(c) = t
  BY <1>3, <1>4, ComposeIs
<1>6. s1' \in DocSet
  BY <1>1, <1>3, <1>5 DEF DocSet, Doc!Derived, Doc!Tags
<1>7. Filed(s1')
  BY <1>1, <1>3, <1>5 DEF Filed, Doc!MarkersRefused, Doc!Derived
<1> QED BY <1>1, <1>2, <1>3, <1>4, <1>5, <1>6, <1>7 DEF Document, DocInv, Doc!TitleStep

LEMMA DocEdit ==
  ASSUME Document, Doc!Edit
  PROVE  Document' /\ Doc!TitleStep
<1>1. PICK t \in Title \cup {None}, b \in Bodies \cup {<<>>, <<Doc!Blank>>}, text \in Texts \cup {<<>>},
           add \in {{}, {Workflow}}, rm \in {{}, {Workflow}} :
        LET f == [title |-> t, body |-> b, text |-> text, add |-> add, rm |-> rm] IN
        /\ b = <<>> \/ text = <<>>
        /\ add = {} \/ rm = {}
        /\ f # Doc!NoField /\ ~Doc!Refused(s1, f)
        /\ s1' = Doc!Result(s1, f)
        /\ s3' = t
  BY DEF Doc!Edit
<1>2. PICK f : f = [title |-> t, body |-> b, text |-> text, add |-> add, rm |-> rm]
  OBVIOUS
<1>3. f.title = t /\ ~Doc!Refused(s1, f) /\ s1' = Doc!Result(s1, f) /\ s3' = t
  BY <1>1, <1>2
<1>4. WellFormed(f)
  <2>1. b \in Text /\ text \in Text
    BY GivenTexts
  <2>2. add \in SUBSET Doc!Tags /\ rm \in SUBSET Doc!Tags
    BY DEF Doc!Tags
  <2> QED BY <1>2, <2>1, <2>2 DEF WellFormed, TitleOrNone
<1>5. s2' = s2 /\ s2 # "none" /\ s4 < MaxEdits /\ s4' = s4 + 1
  BY DEF Doc!Edit
<1>6. s4' \in 0 .. MaxEdits
  BY <1>5, DocAssumption DEF Document, DocInv, Doc!DocumentsAssumption
<1>7. s1 \in DocSet
  BY DEF Document, DocInv
<1>8. s1' \in DocSet /\ Doc!TitleOf(s1'.body) = Doc!NewTitle(s1.body, f)
  BY <1>3, <1>4, <1>7, FieldsApply DEF Doc!Result
<1>9. s2 = "filed" => Filed(s1')
  BY <1>3, <1>4, <1>7, EditKeeps DEF Document, DocInv
<1>10. Doc!TitleStep
  BY <1>3, <1>8 DEF Doc!TitleStep, Doc!NewTitle
<1> QED BY <1>5, <1>6, <1>8, <1>9, <1>10 DEF Document, DocInv

LEMMA DocNext ==
  ASSUME Document, [Doc!Next]_Doc!vars
  PROVE  Document'
<1>1. CASE UNCHANGED Doc!vars
  BY <1>1 DEF Doc!vars, Document
<1> QED BY <1>1, DocCreate, DocEdit DEF Doc!Next

LEMMA DocKeepsInv == Doc!Spec => []Document
<1>1. Document /\ [Doc!Next]_Doc!vars => Document'
  BY DocNext
<1> QED BY <1>1, DocInit, PTL DEF Doc!Spec

LEMMA DocTyped == Document => Doc!TypeOK
BY DEF Document, DocInv, DocSet, Filed, Text, Doc!TypeOK

LEMMA DocAgrees == Document => Doc!MarkersAgree
<1> SUFFICES ASSUME Document, s2 = "filed", ~Doc!ReadersDiffer(s1.body)
             PROVE  Workflow \in s1.tags <=> Doc!Routed(s1.body) = Workflow
  BY DEF Doc!MarkersAgree
<1>1. s1.body \in Text /\ Filed(s1)
  BY DEF Document, DocInv, DocSet
<1> QED BY <1>1, ReadersAgree DEF Filed

LEMMA DocEditable == Document => Doc!StaysEditable
BY ProseAccepted, SelfAccepted DEF Document, DocInv, Doc!StaysEditable

OfDoc == part = "documents"

LEMMA DocStays == Spec => []OfDoc \/ []~OfDoc
<1>1. OfDoc /\ [Next]_vars => OfDoc'
  BY PartStays DEF OfDoc
<1>2. ~OfDoc /\ [Next]_vars => (~OfDoc)'
  BY PartStays DEF OfDoc
<1> QED BY <1>1, <1>2, PTL DEF Spec

LEMMA DocStep ==
  ASSUME OfDoc, [Next]_vars
  PROVE  [Doc!Next]_Doc!vars
<1>1. CASE UNCHANGED vars
  BY <1>1 DEF vars, Doc!vars
<1>2. CASE Next
  BY <1>2 DEF Next, OfDoc, OfDocuments, OfShelving, OfCompletion, OfSpend, OfIdentity,
       OfListing, Doc!Next
<1> QED BY <1>1, <1>2

LEMMA DocIsDocuments == Spec /\ []OfDoc => Doc!Spec
<1>1. Init /\ OfDoc => Doc!Init
  BY DEF Init, OfDoc
<1>2. OfDoc /\ [Next]_vars => [Doc!Next]_Doc!vars
  BY DocStep
<1> QED BY <1>1, <1>2, PTL DEF Spec, Doc!Spec

\* A tag and the routing of a document's body agree, after every create and every edit, where
\* the two readers of the body do (workflowmarker.go).
THEOREM MarkersStayTrue == Spec => []MarkersAgree
<1>1. Document => Doc!MarkersAgree
  BY DocAgrees
<1>2. OfDoc /\ Doc!MarkersAgree => MarkersAgree
  BY DEF MarkersAgree
<1>3. ~OfDoc => MarkersAgree
  BY DEF OfDoc, MarkersAgree
<1> QED BY <1>1, <1>2, <1>3, DocKeepsInv, DocStays, DocIsDocuments, PTL

\* The guards that a document passed never lock it out of its own repair (writeShape).
THEOREM EditsStayOpen == Spec => []StaysEditable
<1>1. Document => Doc!StaysEditable
  BY DocEditable
<1>2. OfDoc /\ Doc!StaysEditable => StaysEditable
  BY DEF StaysEditable
<1>3. ~OfDoc => StaysEditable
  BY DEF OfDoc, StaysEditable
<1> QED BY <1>1, <1>2, <1>3, DocKeepsInv, DocStays, DocIsDocuments, PTL

\* A document's title moves only to the one the caller named, whatever the body says
\* (titleheading.go).
THEOREM TitlesAreNamed == Spec => TitleMovesWhenNamed
<1>1. Document /\ OfDoc /\ [Next]_vars => [part = "documents" => Doc!TitleStep]_vars
  <2> SUFFICES ASSUME Document, OfDoc, Next
               PROVE  Doc!TitleStep
    BY DEF vars
  <2>1. Doc!Create \/ Doc!Edit
    BY DEF Next, OfDoc, OfDocuments, OfShelving, OfCompletion, OfSpend, OfIdentity, OfListing
  <2> QED BY <2>1, DocCreate, DocEdit
<1>2. ~OfDoc => [part = "documents" => Doc!TitleStep]_vars
  BY DEF OfDoc
<1> QED BY <1>1, <1>2, DocKeepsInv, DocStays, DocIsDocuments, PTL
        DEF TitleMovesWhenNamed, Spec

-------------------------------------------------------------------------------
(***************************************************************************)
(* Spend. The invariant says of each mg spend what its harvest has in hand *)
(* at each step: nothing that is stored already, everything in the file it *)
(* belongs in, and between them and the store whatever the figures owe.    *)
(* The lock makes it hold, and a rebuild that clears the store clears what *)
(* the others owed.                                                        *)
(***************************************************************************)
LEMMA BillSizes ==
  /\ \A S : Bill!IsFiniteSet(S) = IsFiniteSet(S)
  /\ \A S : Bill!Cardinality(S) = Cardinality(S)
<1>1. \A S : Bill!IsFiniteSet(S) = IsFiniteSet(S)
  BY DEF IsFiniteSet, Bill!IsFiniteSet
<1>2. \A S : Bill!Cardinality(S) = Cardinality(S)
  BY <1>1, Zenon DEF Cardinality, Bill!Cardinality
<1> QED BY <1>1, <1>2

\* A bounded set of numbers has a greatest one.
LEMMA Greatest ==
  ASSUME NEW T \in SUBSET Nat, T # {}, NEW b \in Nat, \A n \in T : n <= b
  PROVE  \E m \in T : \A n \in T : n <= m
<1> DEFINE D == {n \in 0 .. b : b - n \in T}
<1>1. PICK t \in T : t <= b
  OBVIOUS
<1>2. t \in Nat /\ b - t \in 0 .. b /\ b - (b - t) = t
  BY <1>1
<1>3. b - t \in D
  BY <1>1, <1>2
<1>4. D \in SUBSET Nat /\ D # {}
  BY <1>3
<1>5. PICK d : d = Doc!MinOf(D)
  OBVIOUS
<1>6. d \in D /\ \A n \in D : d <= n
  <2> HIDE DEF D
  <2> QED BY <1>4, <1>5, Least
<1>7. d \in 0 .. b /\ b - d \in T
  BY <1>6
<1>8. \A n \in T : n <= b - d
  <2> TAKE n \in T
  <2>1. n \in Nat /\ n <= b
    OBVIOUS
  <2>2. b - n \in 0 .. b /\ b - (b - n) = n
    BY <2>1
  <2>3. b - n \in D
    BY <2>2
  <2>4. d <= b - n
    BY <1>6, <2>3
  <2> QED BY <1>7, <2>1, <2>4
<1> QED BY <1>7, <1>8

(***************************************************************************)
(* Numbers in ascending order.                                             *)
(***************************************************************************)
LEMMA Ranked ==
  ASSUME NEW S \in SUBSET Nat, IsFiniteSet(S)
  PROVE  /\ Bill!InOrder(S) \in Seq(S) /\ Len(Bill!InOrder(S)) = Cardinality(S)
         /\ DOMAIN Bill!InOrder(S) = 1 .. Cardinality(S)
         /\ Bill!ToSet(Bill!InOrder(S)) = S
<1> DEFINE upTo(t) == {u \in S : u <= t}
           n == Cardinality(S)
           rank == [t \in S |-> Cardinality(upTo(t))]
<1>1. n \in Nat
  BY FS_CardinalityType
<1>2. ASSUME NEW t \in S PROVE IsFiniteSet(upTo(t)) /\ Cardinality(upTo(t)) \in 1 .. n
  <2>1. upTo(t) \in SUBSET S /\ t \in upTo(t)
    OBVIOUS
  <2>2. PICK U : U = upTo(t)
    OBVIOUS
  <2>3. IsFiniteSet(U) /\ Cardinality(U) <= n
    BY <2>1, <2>2, FS_Subset
  <2>4. Cardinality(U) \in Nat /\ Cardinality(U) # 0
    BY <2>1, <2>2, <2>3, FS_CardinalityType, FS_EmptySet
  <2> QED BY <1>1, <2>2, <2>3, <2>4
<1>3. rank \in [S -> 1 .. n]
  BY <1>2
<1>4. ASSUME NEW t \in S, NEW u \in S, t < u PROVE rank[t] < rank[u]
  <2>0. t \in Nat /\ u \in Nat /\ t < u /\ \A v \in S : v \in Nat
    BY <1>4
  <2>1. (\A v \in upTo(t) : v \in upTo(u)) /\ u \in upTo(u) /\ u \notin upTo(t)
    <3>1. \A v \in S : v <= t => v <= u
      BY <2>0
    <3>2. u <= u /\ ~(u <= t)
      BY <2>0
    <3> QED BY <3>1, <3>2
  <2>2. PICK T, U : T = upTo(t) /\ U = upTo(u)
    OBVIOUS
  <2>3. IsFiniteSet(U) /\ T \in SUBSET U /\ T # U
    BY <1>2, <2>1, <2>2
  <2>4. Cardinality(T) <= Cardinality(U) /\ Cardinality(T) # Cardinality(U)
    BY <2>3, FS_Subset
  <2>5. Cardinality(T) \in Nat /\ Cardinality(U) \in Nat
    BY <2>3, FS_Subset, FS_CardinalityType
  <2> QED BY <2>2, <2>4, <2>5
<1>5. \A t, u \in S : rank[t] = rank[u] => t = u
  <2> SUFFICES ASSUME NEW t \in S, NEW u \in S, rank[t] = rank[u], t # u PROVE FALSE
    OBVIOUS
  <2>1. t \in Nat /\ u \in Nat
    OBVIOUS
  <2>2. t < u \/ u < t
    BY <2>1
  <2>3. rank[t] \in Nat /\ rank[u] \in Nat
    BY <1>1, <1>3
  <2> HIDE DEF rank
  <2> QED BY <1>4, <2>2, <2>3
<1>6. \A k \in 1 .. n : \E t \in S : rank[t] = k
  <2>1. rank \in Injection(S, 1 .. n)
    <3> HIDE DEF rank, n
    <3> QED BY <1>3, <1>5 DEF Injection, IsInjective
  <2>2. IsFiniteSet(1 .. n) /\ Cardinality(1 .. n) = n
    <3> HIDE DEF n
    <3> QED BY <1>1, FS_Interval
  <2>3. rank \in Surjection(S, 1 .. n)
    <3> HIDE DEF rank
    <3> QED BY <2>1, <2>2, FS_Injection
  <2> HIDE DEF rank, n
  <2> QED BY <2>3 DEF Surjection
<1>7. PICK s : s = Bill!InOrder(S)
  OBVIOUS
<1>8. s = [k \in 1 .. Bill!Cardinality(S) |->
             CHOOSE t \in S : Bill!Cardinality(upTo(t)) = k]
  BY <1>7 DEF Bill!InOrder
<1>9. \A k \in 1 .. n : s[k] \in S /\ rank[s[k]] = k
  <2> TAKE k \in 1 .. n
  <2>1. \E t \in S : Bill!Cardinality(upTo(t)) = k
    BY <1>6, BillSizes
  <2>2. s[k] = CHOOSE t \in S : Bill!Cardinality(upTo(t)) = k
    BY <1>8, BillSizes
  <2>3. s[k] \in S /\ Bill!Cardinality(upTo(s[k])) = k
    BY <2>1, <2>2
  <2> QED BY <2>3, BillSizes
<1>10. s \in Seq(S) /\ Len(s) = n /\ DOMAIN s = 1 .. n
  <2>1. PICK m : m = Bill!Cardinality(S)
    OBVIOUS
  <2>2. m = n /\ m \in Nat
    BY <1>1, <2>1, BillSizes
  <2>3. s = [k \in 1 .. m |-> CHOOSE t \in S : Bill!Cardinality(upTo(t)) = k]
    BY <1>8, <2>1
  <2>4. \A k \in 1 .. m : s[k] \in S
    BY <1>9, <2>2
  <2>5. s \in [1 .. m -> S]
    BY <2>3, <2>4
  <2>6. s \in Seq(S) /\ Len(s) = m /\ DOMAIN s = 1 .. m
    BY <2>2, <2>5
  <2> QED BY <2>2, <2>6
<1>11. \A t \in S : \E k \in 1 .. n : s[k] = t
  <2> TAKE t \in S
  <2>1. rank[t] \in 1 .. n
    BY <1>3
  <2>2. s[rank[t]] \in S /\ rank[s[rank[t]]] = rank[t]
    <3> HIDE DEF rank, n
    <3> QED BY <1>9, <2>1
  <2> QED BY <1>5, <2>1, <2>2
<1>12. Bill!ToSet(s) = S
  <2>1. \A k \in 1 .. n : s[k] \in S
    BY <1>9
  <2>2. DOMAIN s = 1 .. n
    BY <1>10
  <2> HIDE DEF n
  <2> QED BY <1>11, <2>1, <2>2 DEF Bill!ToSet
<1> QED BY <1>7, <1>10, <1>12

(***************************************************************************)
(* Spend: the world, the store and the commands as constants.              *)
(***************************************************************************)
Spoke(sp) == UNION {sp[a] : a \in Bill!Agents}
FileSet == Bill!Agents \cup Bill!Items
Events == [type : {"claim", "release"}, actor : Bill!Actors, item : Bill!Items, ts : Nat]

\* No two things happen at one moment, and an item is claimed again only after it was
\* released.
Moments(k, l, sp) ==
  /\ k \in 1 .. MaxTime /\ Len(l) <= k
  /\ sp \in [Bill!Agents -> SUBSET (1 .. k)]
  /\ \A a, b \in Bill!Agents : a # b => sp[a] \cap sp[b] = {}
  /\ \A n \in 1 .. Len(l) : l[n].ts \in 1 .. k /\ l[n].ts \notin Spoke(sp)
  /\ \A m, n \in 1 .. Len(l) : m < n => l[m].ts < l[n].ts
Between(l) ==
  \A m, n \in 1 .. Len(l) :
    m < n /\ l[m].type = "claim" /\ l[n].type = "claim" /\ l[m].item = l[n].item =>
      \E r \in m + 1 .. n - 1 : l[r].type = "release" /\ l[r].item = l[m].item
World(k, l, sp) == l \in Seq(Events) /\ Moments(k, l, sp) /\ Between(l)

\* What the records of a file, and those of the store, are about.
RecordsOf(s, f) == Bill!ToSet(s[f]) \ {Bill!Torn}
AllRecords(s) == UNION {RecordsOf(s, f) : f \in FileSet}
Kept(sp, s) ==
  /\ s \in [FileSet -> Seq(Nat)]
  /\ AllRecords(s) \subseteq Spoke(sp)
  /\ \A a \in Bill!Agents : RecordsOf(s, a) \subseteq sp[a]

Commands ==
  [step : {"idle", "lock", "clear", "snapshot", "scan", "append", "read", "report"},
   rebuild : BOOLEAN, seen : SUBSET Nat, upto : Nat, registry : BOOLEAN,
   batch : [FileSet -> Seq(Nat)], file : 1 .. Len(Bill!Files),
   read : Seq([file : FileSet, msg : Nat]), due : SUBSET Nat]
Harvesting(c) == c.step \in {"clear", "snapshot", "scan", "append"}
OneHarvest(k) == \A p, q \in Processes : Harvesting(k[p]) /\ Harvesting(k[q]) => p = q

SpeakerOf(sp, t) == CHOOSE a \in Bill!Agents : t \in sp[a]
BucketOf(sp, intervals, registry, t) ==
  LET a == SpeakerOf(sp, t)
      item == Bill!attribute(intervals, a, t) IN
  CASE item # "none" -> item
    [] item = "none" /\ registry /\ Assigned[a] # "none" -> Assigned[a]
    [] OTHER -> a

\* What is left to append was said, is not stored, and is in the file it belongs in.
Batched(c) == UNION {Bill!ToSet(c.batch[f]) : f \in FileSet}
Sorted(l, sp, s, c) ==
  \A f \in FileSet : \A t \in Bill!ToSet(c.batch[f]) :
    /\ t \in Spoke(sp) /\ t \notin AllRecords(s)
    /\ BucketOf(sp, Bill!Intervals(SubSeq(l, 1, c.upto)), c.registry, t) = f

Msgs(recs) == {r.msg : r \in Bill!ToSet(recs)}
Unread(s, c) == UNION {RecordsOf(s, Bill!Files[j]) : j \in c.file .. Len(Bill!Files)}

\* The files of the agents are read before those of the items.
ItemsLast(recs) ==
  \A j, k \in 1 .. Len(recs) : j < k /\ recs[j].file \in Bill!Items => recs[k].file \in Bill!Items

Accounts(l, sp, s, c) ==
  /\ c \in Commands
  /\ c.step \in {"scan", "append"} => c.upto <= Len(l)
  /\ c.step = "scan" => c.seen = AllRecords(s)
  /\ c.step = "append" => Sorted(l, sp, s, c) /\ c.due \subseteq AllRecords(s) \cup Batched(c)
  /\ c.step \in {"idle", "lock", "clear", "snapshot", "scan"} => c.due = {}
  /\ c.step \notin {"read", "report"} => c.file = 1 /\ c.read = <<>>
  /\ c.step = "read" =>
       /\ c.due \subseteq Msgs(c.read) \cup Unread(s, c)
       /\ c.file <= Len(AgentNames) => \A r \in Bill!ToSet(c.read) : r.file \in Bill!Agents
  /\ c.step = "report" => c.due \subseteq Msgs(c.read)
  /\ ItemsLast(c.read)

SpendInv(k, l, sp, s, c) ==
  /\ World(k, l, sp) /\ Kept(sp, s)
  /\ DOMAIN c = Processes /\ OneHarvest(c)
  /\ \A p \in Processes : Accounts(l, sp, s, c[p])

(***************************************************************************)
(* The files, and what is in them.                                         *)
(***************************************************************************)
LEMMA FilesAre ==
  /\ Len(AgentNames) \in Nat \ {0} /\ Len(ItemIDs) \in Nat \ {0}
  /\ Bill!Files \in Seq(FileSet) /\ Len(Bill!Files) = Len(AgentNames) + Len(ItemIDs)
  /\ \A j \in 1 .. Len(Bill!Files) :
       IF j <= Len(AgentNames) THEN Bill!Files[j] \in Bill!Agents ELSE Bill!Files[j] \in Bill!Items
  /\ \A f \in FileSet : \E j \in 1 .. Len(Bill!Files) : Bill!Files[j] = f
  /\ Bill!ToSet(Bill!Files) = FileSet
<1>1. /\ AgentNames \in Seq(Bill!Agents) /\ AgentNames # <<>>
      /\ ItemIDs \in Seq(Bill!Items) /\ ItemIDs # <<>>
  BY BillAssumption DEF Bill!SpendAssumption
<1>2. /\ Len(AgentNames) \in Nat \ {0} /\ DOMAIN AgentNames = 1 .. Len(AgentNames)
      /\ Len(ItemIDs) \in Nat \ {0} /\ DOMAIN ItemIDs = 1 .. Len(ItemIDs)
  BY <1>1, EmptySeq, LenProperties
<1>3. AgentNames \in Seq(FileSet) /\ ItemIDs \in Seq(FileSet)
  BY <1>1, SeqMonotonic DEF FileSet
<1>4. /\ Bill!Files \in Seq(FileSet)
      /\ Len(Bill!Files) = Len(AgentNames) + Len(ItemIDs)
      /\ \A i \in 1 .. Len(AgentNames) + Len(ItemIDs) : Bill!Files[i] =
           IF i <= Len(AgentNames) THEN AgentNames[i] ELSE ItemIDs[i - Len(AgentNames)]
  BY <1>3, ConcatProperties DEF Bill!Files
<1>5. \A i \in 1 .. Len(AgentNames) : AgentNames[i] \in Bill!Agents
  BY <1>1, ElementOfSeq
<1>6. \A i \in 1 .. Len(ItemIDs) : ItemIDs[i] \in Bill!Items
  BY <1>1, ElementOfSeq
<1>7. ASSUME NEW j \in 1 .. Len(Bill!Files)
      PROVE  IF j <= Len(AgentNames) THEN Bill!Files[j] \in Bill!Agents
             ELSE Bill!Files[j] \in Bill!Items
  <2>1. CASE j <= Len(AgentNames)
    <3>1. j \in 1 .. Len(AgentNames) /\ Bill!Files[j] = AgentNames[j]
      BY <1>2, <1>4, <2>1
    <3> QED BY <1>5, <2>1, <3>1
  <2>2. CASE ~(j <= Len(AgentNames))
    <3>1. j - Len(AgentNames) \in 1 .. Len(ItemIDs)
      BY <1>2, <1>4, <2>2
    <3>2. Bill!Files[j] = ItemIDs[j - Len(AgentNames)]
      BY <1>2, <1>4, <2>2
    <3> QED BY <1>6, <2>2, <3>1, <3>2
  <2> QED BY <2>1, <2>2
<1>8. ASSUME NEW f \in FileSet PROVE \E j \in 1 .. Len(Bill!Files) : Bill!Files[j] = f
  <2>1. CASE f \in Bill!Agents
    <3>1. PICK i \in 1 .. Len(AgentNames) : AgentNames[i] = f
      BY <1>2, <2>1 DEF Bill!Agents, Bill!ToSet
    <3>2. i \in 1 .. Len(Bill!Files) /\ Bill!Files[i] = AgentNames[i]
      BY <1>2, <1>4
    <3> QED BY <3>1, <3>2
  <2>2. CASE f \in Bill!Items
    <3>1. PICK i \in 1 .. Len(ItemIDs) : ItemIDs[i] = f
      BY <1>2, <2>2 DEF Bill!Items, Bill!ToSet
    <3>2. PICK j : j = i + Len(AgentNames)
      OBVIOUS
    <3>3. j \in 1 .. Len(Bill!Files) /\ ~(j <= Len(AgentNames)) /\ j - Len(AgentNames) = i
      BY <1>2, <1>4, <3>2
    <3>4. Bill!Files[j] = ItemIDs[i]
      BY <1>4, <3>3
    <3> QED BY <3>1, <3>3, <3>4
  <2> QED BY <2>1, <2>2 DEF FileSet
<1>9. Bill!ToSet(Bill!Files) = FileSet
  <2>1. DOMAIN Bill!Files = 1 .. Len(Bill!Files) /\ \A j \in 1 .. Len(Bill!Files) : Bill!Files[j] \in FileSet
    BY <1>4, LenProperties, ElementOfSeq
  <2> QED BY <1>8, <2>1 DEF Bill!ToSet
<1> QED BY <1>2, <1>4, <1>7, <1>8, <1>9

LEMMA Distinct ==
  /\ Bill!Agents \cap Bill!Items = {} /\ "none" \notin Bill!Items
  /\ Assigned \in [Bill!Agents -> Bill!Items \cup {"none"}]
  /\ MaxTime \in Nat \ {0} /\ Bill!Agents \subseteq Bill!Actors
BY BillAssumption DEF Bill!SpendAssumption, Bill!Actors

LEMMA Read ==
  ASSUME s4 \in [FileSet -> Seq(Nat)], NEW f \in FileSet
  PROVE  Bill!readRecords(f) \in Seq(Nat) /\ Bill!ToSet(Bill!readRecords(f)) = RecordsOf(s4, f)
<1>1. PICK s : s = s4[f]
  OBVIOUS
<1>2. s \in Seq(Nat) /\ Len(s) \in Nat /\ DOMAIN s = 1 .. Len(s) /\ \A n \in 1 .. Len(s) : s[n] \in Nat
  BY <1>1
<1>3. PICK K : K = {k \in DOMAIN s : s[k] # Bill!Torn}
  OBVIOUS
<1>4. K \in SUBSET (1 .. Len(s)) /\ K \in SUBSET Nat
  BY <1>2, <1>3
<1>5. IsFiniteSet(1 .. Len(s))
  BY <1>2, FS_Interval
<1>6. IsFiniteSet(K)
  BY <1>4, <1>5, FS_Subset
<1>7. PICK o : o = Bill!InOrder(K)
  OBVIOUS
<1>8. o \in Seq(K) /\ Len(o) \in Nat /\ DOMAIN o = 1 .. Len(o) /\ Bill!ToSet(o) = K
  BY <1>4, <1>6, <1>7, Ranked, LenProperties
<1>9. Bill!readRecords(f) = [n \in DOMAIN o |-> s[o[n]]]
  BY <1>1, <1>3, <1>7 DEF Bill!readRecords
<1>10. PICK r : r = Bill!readRecords(f)
  OBVIOUS
<1>11. \A n \in 1 .. Len(o) : o[n] \in K /\ s[o[n]] \in Nat
  BY <1>2, <1>4, <1>8, ElementOfSeq
<1>12. r \in [1 .. Len(o) -> Nat]
  BY <1>8, <1>9, <1>10, <1>11
<1>13. r \in Seq(Nat) /\ DOMAIN r = 1 .. Len(o)
  <2>1. PICK m : m = Len(o)
    OBVIOUS
  <2>2. m \in Nat /\ r \in [1 .. m -> Nat]
    BY <1>8, <1>12, <2>1
  <2>3. r \in Seq(Nat) /\ DOMAIN r = 1 .. m
    BY <2>2
  <2> QED BY <2>1, <2>3
<1>14. ASSUME NEW x \in Bill!ToSet(r) PROVE x \in RecordsOf(s4, f)
  <2>1. PICK n \in 1 .. Len(o) : x = s[o[n]]
    BY <1>8, <1>9, <1>10, <1>13, <1>14 DEF Bill!ToSet
  <2>2. o[n] \in K
    BY <1>11
  <2>3. o[n] \in DOMAIN s /\ x # Bill!Torn
    BY <1>3, <2>1, <2>2
  <2> QED BY <1>1, <2>1, <2>3 DEF RecordsOf, Bill!ToSet
<1>15. ASSUME NEW x \in RecordsOf(s4, f) PROVE x \in Bill!ToSet(r)
  <2>1. PICK k \in DOMAIN s : x = s[k] /\ x # Bill!Torn
    BY <1>1, <1>15 DEF RecordsOf, Bill!ToSet
  <2>2. k \in Bill!ToSet(o)
    BY <1>3, <1>8, <2>1
  <2>3. PICK n \in DOMAIN o : o[n] = k
    BY <2>2 DEF Bill!ToSet
  <2>4. r[n] = x /\ n \in DOMAIN r
    BY <1>8, <1>9, <1>10, <1>13, <2>1, <2>3
  <2> QED BY <2>4 DEF Bill!ToSet
<1> QED BY <1>10, <1>13, <1>14, <1>15

LEMMA StoredIs ==
  ASSUME s4 \in [FileSet -> Seq(Nat)]
  PROVE  Bill!Stored = AllRecords(s4)
<1>1. \A f \in FileSet : Bill!ToSet(Bill!readRecords(f)) = RecordsOf(s4, f)
  BY Read
<1> QED BY <1>1, FilesAre DEF Bill!Stored, AllRecords

LEMMA Bucketed ==
  ASSUME NEW v, NEW r, NEW t
  PROVE  Bill!Bucket(v, r, t) = BucketOf(s3, v, r, t) /\ Bill!Speaker(t) = SpeakerOf(s3, t)
<1>1. Bill!Speaker(t) = SpeakerOf(s3, t)
  BY DEF Bill!Speaker, SpeakerOf
<1>2. Bill!Bucket(v, r, t) = BucketOf(s3, v, r, t)
  BY <1>1, Zenon DEF Bill!Bucket, BucketOf
<1> QED BY <1>1, <1>2

LEMMA Speakers ==
  ASSUME NEW k, NEW l, NEW sp, Moments(k, l, sp), NEW t \in Spoke(sp)
  PROVE  /\ SpeakerOf(sp, t) \in Bill!Agents /\ t \in sp[SpeakerOf(sp, t)]
         /\ \A a \in Bill!Agents : t \in sp[a] => a = SpeakerOf(sp, t)
         /\ t \in 1 .. k
<1>1. PICK a : a = SpeakerOf(sp, t)
  OBVIOUS
<1>2. \E b \in Bill!Agents : t \in sp[b]
  BY DEF Spoke
<1>3. a \in Bill!Agents /\ t \in sp[a]
  BY <1>1, <1>2 DEF SpeakerOf
<1>4. \A b \in Bill!Agents : t \in sp[b] => b = a
  BY <1>3 DEF Moments
<1>5. t \in 1 .. k
  BY <1>3 DEF Moments
<1> QED BY <1>1, <1>3, <1>4, <1>5

(***************************************************************************)
(* Whose a message is.                                                     *)
(***************************************************************************)
Opens(v, a, t) == {i \in v : i.actor = a /\ i.from <= t /\ t <= i.to}

LEMMA IntervalsAre ==
  ASSUME NEW l \in Seq(Events)
  PROVE  /\ \A v \in Bill!Intervals(l) : \E e \in Bill!ToSet(l) :
              /\ e \in Events /\ e.type = "claim" /\ v.actor = e.actor /\ v.item = e.item
              /\ v.from = e.ts /\ v.to \in 1 .. Bill!Forever /\ Bill!EndsAt(l, e, v.to)
         /\ \A e \in Bill!ToSet(l), to \in 1 .. Bill!Forever : Bill!EndsAt(l, e, to) =>
              [actor |-> e.actor, item |-> e.item, from |-> e.ts, to |-> to] \in Bill!Intervals(l)
<1>1. \A e \in Bill!ToSet(l) : e \in Events
  BY DEF Bill!ToSet
<1>2. ASSUME NEW v \in Bill!Intervals(l)
      PROVE  \E e \in Bill!ToSet(l) :
              /\ e \in Events /\ e.type = "claim" /\ v.actor = e.actor /\ v.item = e.item
              /\ v.from = e.ts /\ v.to \in 1 .. Bill!Forever /\ Bill!EndsAt(l, e, v.to)
  <2>1. PICK x \in Bill!ToSet(l) \X (1 .. Bill!Forever) :
          /\ Bill!EndsAt(l, x[1], x[2])
          /\ v = [actor |-> x[1].actor, item |-> x[1].item, from |-> x[1].ts, to |-> x[2]]
    BY <1>2 DEF Bill!Intervals
  <2>2. PICK e, n : e = x[1] /\ n = x[2]
    OBVIOUS
  <2>3. e \in Bill!ToSet(l) /\ n \in 1 .. Bill!Forever /\ Bill!EndsAt(l, e, n)
    BY <2>1, <2>2
  <2>4. v = [actor |-> e.actor, item |-> e.item, from |-> e.ts, to |-> n]
    BY <2>1, <2>2
  <2>5. e.type = "claim"
    BY <2>3 DEF Bill!EndsAt
  <2>6. v.actor = e.actor /\ v.item = e.item /\ v.from = e.ts /\ v.to = n
    BY <2>4
  <2> QED BY <1>1, <2>3, <2>5, <2>6
<1>3. ASSUME NEW e \in Bill!ToSet(l), NEW to \in 1 .. Bill!Forever, Bill!EndsAt(l, e, to)
      PROVE  [actor |-> e.actor, item |-> e.item, from |-> e.ts, to |-> to] \in Bill!Intervals(l)
  <2>1. PICK x : x = <<e, to>>
    OBVIOUS
  <2>2. x[1] = e /\ x[2] = to /\ x \in Bill!ToSet(l) \X (1 .. Bill!Forever)
    BY <2>1
  <2>3. Bill!EndsAt(l, x[1], x[2])
    BY <1>3, <2>2
  <2>4. [actor |-> x[1].actor, item |-> x[1].item, from |-> x[1].ts, to |-> x[2]]
          \in Bill!Intervals(l)
    BY <2>2, <2>3 DEF Bill!Intervals
  <2> QED BY <2>2, <2>4
<1> QED BY <1>2, <1>3

\* It is of the item that was claimed last, of those that were claimed.
LEMMA Attributed ==
  ASSUME NEW l \in Seq(Events), NEW a, NEW t \in Nat
  PROVE  \/ /\ Opens(Bill!Intervals(l), a, t) = {}
            /\ Bill!attribute(Bill!Intervals(l), a, t) = "none"
         \/ \E v \in Opens(Bill!Intervals(l), a, t) :
              /\ Bill!attribute(Bill!Intervals(l), a, t) = v.item
              /\ \A w \in Opens(Bill!Intervals(l), a, t) : w.from <= v.from
<1>1. PICK iv : iv = Bill!Intervals(l)
  OBVIOUS
<1>2. \A v \in iv : v.from \in Nat
  BY <1>1, IntervalsAre DEF Events
<1>3. CASE Opens(iv, a, t) = {}
  BY <1>1, <1>3 DEF Bill!attribute, Opens
<1>4. CASE Opens(iv, a, t) # {}
  <2> DEFINE T == {v.from : v \in Opens(iv, a, t)}
  <2>1. T \in SUBSET Nat /\ T # {} /\ \A n \in T : n <= t
    BY <1>2, <1>4 DEF Opens
  <2>2. PICK m \in T : \A n \in T : n <= m
    <3> HIDE DEF T
    <3> QED BY <2>1, Greatest
  <2>3. \E v \in Opens(iv, a, t) : \A w \in Opens(iv, a, t) : w.from <= v.from
    BY <2>2
  <2>4. PICK v : v = CHOOSE u \in Opens(iv, a, t) : \A w \in Opens(iv, a, t) : w.from <= u.from
    OBVIOUS
  <2>5. v \in Opens(iv, a, t) /\ \A w \in Opens(iv, a, t) : w.from <= v.from
    BY <2>3, <2>4
  <2>6. Bill!attribute(iv, a, t) = v.item
    BY <1>4, <2>4, Zenon DEF Bill!attribute, Opens
  <2> QED BY <1>1, <2>5, <2>6
<1> QED BY <1>1, <1>3, <1>4

LEMMA BucketIn ==
  ASSUME NEW k, NEW l, NEW sp, World(k, l, sp), NEW t \in Spoke(sp), NEW r, NEW e \in Seq(Events)
  PROVE  LET f == BucketOf(sp, Bill!Intervals(e), r, t) IN
         f \in FileSet /\ (f \in Bill!Agents => t \in sp[f])
<1>1. PICK a : a = SpeakerOf(sp, t)
  OBVIOUS
<1>2. a \in Bill!Agents /\ t \in sp[a] /\ t \in Nat
  <2>1. a \in Bill!Agents /\ t \in sp[a] /\ t \in 1 .. k /\ k \in 1 .. MaxTime
    BY <1>1, Speakers DEF World, Moments
  <2> QED BY <2>1
<1>3. PICK i : i = Bill!attribute(Bill!Intervals(e), a, t)
  OBVIOUS
<1>4. i = "none" \/ i \in Bill!Items
  <2>1. i = "none" \/ \E v \in Opens(Bill!Intervals(e), a, t) : i = v.item
    BY <1>2, <1>3, Attributed
  <2>2. \A v \in Opens(Bill!Intervals(e), a, t) : v.item \in Bill!Items
    BY IntervalsAre DEF Opens, Events
  <2> QED BY <2>1, <2>2
<1>5. PICK f : f = BucketOf(sp, Bill!Intervals(e), r, t)
  OBVIOUS
<1>6. \/ i # "none" /\ f = i
      \/ Assigned[a] # "none" /\ f = Assigned[a]
      \/ f = a
  BY <1>1, <1>3, <1>5 DEF BucketOf
<1>7. Assigned[a] \in Bill!Items \cup {"none"} /\ Bill!Agents \cap Bill!Items = {}
  BY <1>2, Distinct
<1> QED BY <1>2, <1>4, <1>5, <1>6, <1>7 DEF FileSet

LEMMA Happened ==
  ASSUME NEW k, NEW l, NEW sp, World(k, l, sp), NEW u \in 0 .. Len(l)
  PROVE  LET told == Bill!ToSet(SubSeq(l, 1, u)) IN
         /\ SubSeq(l, 1, u) \in Seq(Events) /\ told \subseteq Bill!ToSet(l)
         /\ \A e \in Bill!ToSet(l) : e \in Events /\ e.ts \in 1 .. k /\ e.ts \notin Spoke(sp)
         /\ \A e, f \in Bill!ToSet(l) : e.ts = f.ts => e = f
         /\ \A e, f \in Bill!ToSet(l) : e.ts < f.ts /\ f \in told => e \in told
         /\ \A e, f \in Bill!ToSet(l) :
              e.ts < f.ts /\ e.type = "claim" /\ f.type = "claim" /\ e.item = f.item =>
                \E g \in Bill!ToSet(l) :
                  e.ts < g.ts /\ g.ts < f.ts /\ g.type = "release" /\ g.item = e.item
<1>1. l \in Seq(Events) /\ Len(l) \in Nat /\ DOMAIN l = 1 .. Len(l)
  BY DEF World
<1>2. \A n \in 1 .. Len(l) : l[n] \in Events /\ l[n].ts \in 1 .. k /\ l[n].ts \notin Spoke(sp)
  BY <1>1 DEF World, Moments
<1>3. k \in Nat /\ \A m, n \in 1 .. Len(l) : m < n => l[m].ts < l[n].ts
  BY DEF World, Moments
<1>4. \A e : e \in Bill!ToSet(l) <=> \E n \in 1 .. Len(l) : l[n] = e
  BY <1>1 DEF Bill!ToSet
<1>5. PICK s : s = SubSeq(l, 1, u)
  OBVIOUS
<1>6. s \in Seq(Events) /\ Len(s) = u /\ DOMAIN s = 1 .. u /\ \A n \in 1 .. u : s[n] = l[n]
  <2>1. u \in Nat /\ 1 .. u \subseteq 1 .. Len(l)
    BY <1>1
  <2>2. \A n \in 1 .. u : l[n] \in Events
    BY <1>2, <2>1
  <2>3. SubSeq(l, 1, u) \in Seq(Events) /\ Len(SubSeq(l, 1, u)) = (IF 1 <= u THEN u - 1 + 1 ELSE 0)
        /\ \A n \in 1 .. u - 1 + 1 : SubSeq(l, 1, u)[n] = l[1 + n - 1]
    BY <2>1, <2>2, SubSeqProperties
  <2>4. u - 1 + 1 = u /\ \A n \in 1 .. u : 1 + n - 1 = n
    BY <2>1
  <2>5. Len(s) = u
    BY <1>5, <2>1, <2>3
  <2>6. \A n \in 1 .. u : s[n] = l[n]
    BY <1>5, <2>3, <2>4
  <2> QED BY <1>5, <2>3, <2>5, <2>6, LenProperties
<1>7. \A e : e \in Bill!ToSet(s) <=> \E n \in 1 .. u : l[n] = e
  BY <1>6 DEF Bill!ToSet
<1>8. Bill!ToSet(s) \subseteq Bill!ToSet(l)
  <2>1. 1 .. u \subseteq 1 .. Len(l)
    BY <1>1
  <2> QED BY <1>4, <1>7, <2>1
<1>9. ASSUME NEW m \in 1 .. Len(l), NEW n \in 1 .. Len(l), l[m].ts < l[n].ts PROVE m < n
  <2> SUFFICES ASSUME ~(m < n) PROVE FALSE
    OBVIOUS
  <2>1. m = n \/ n < m
    BY <1>1
  <2>2. l[m].ts \in Nat /\ l[n].ts \in Nat
    BY <1>2, <1>3
  <2>3. ~(l[n].ts < l[m].ts) /\ l[m].ts # l[n].ts
    BY <1>9, <2>2
  <2> QED BY <1>3, <2>1, <2>3
<1>10. ASSUME NEW e \in Bill!ToSet(l), NEW f \in Bill!ToSet(l), e.ts = f.ts PROVE e = f
  <2>1. PICK m \in 1 .. Len(l) : l[m] = e
    BY <1>4
  <2>2. PICK n \in 1 .. Len(l) : l[n] = f
    BY <1>4
  <2>3. l[m].ts \in Nat /\ l[m].ts = l[n].ts
    BY <1>2, <1>3, <1>10, <2>1, <2>2
  <2>4. ~(m < n) /\ ~(n < m)
    BY <1>3, <2>3
  <2> QED BY <1>1, <2>1, <2>2, <2>4
<1>11. ASSUME NEW e \in Bill!ToSet(l), NEW f \in Bill!ToSet(l), e.ts < f.ts, f \in Bill!ToSet(s)
       PROVE  e \in Bill!ToSet(s)
  <2>1. PICK m \in 1 .. Len(l) : l[m] = e
    BY <1>4
  <2>2. PICK n \in 1 .. u : l[n] = f
    BY <1>7, <1>11
  <2>3. n \in 1 .. Len(l) /\ m < n
    BY <1>1, <1>9, <1>11, <2>1, <2>2
  <2>4. m \in 1 .. u
    BY <1>1, <2>3
  <2> QED BY <1>7, <2>1, <2>4
<1>12. ASSUME NEW e \in Bill!ToSet(l), NEW f \in Bill!ToSet(l),
              e.ts < f.ts, e.type = "claim", f.type = "claim", e.item = f.item
       PROVE  \E g \in Bill!ToSet(l) :
                e.ts < g.ts /\ g.ts < f.ts /\ g.type = "release" /\ g.item = e.item
  <2>1. PICK m \in 1 .. Len(l) : l[m] = e
    BY <1>4
  <2>2. PICK n \in 1 .. Len(l) : l[n] = f
    BY <1>4
  <2>3. m < n
    BY <1>9, <1>12, <2>1, <2>2
  <2>4. PICK r \in m + 1 .. n - 1 : l[r].type = "release" /\ l[r].item = l[m].item
    BY <1>12, <2>1, <2>2, <2>3 DEF World, Between
  <2>5. r \in 1 .. Len(l) /\ m < r /\ r < n
    BY <1>1
  <2>6. l[m].ts < l[r].ts /\ l[r].ts < l[n].ts
    BY <1>3, <2>5
  <2> QED BY <1>4, <2>1, <2>2, <2>4, <2>5, <2>6
<1> QED BY <1>2, <1>4, <1>5, <1>6, <1>8, <1>10, <1>11, <1>12

\* The first of some events.
LEMMA FirstOf ==
  ASSUME NEW T \in SUBSET Events, T # {}
  PROVE  \E f \in T : \A g \in T : f.ts <= g.ts
<1> DEFINE N == {g.ts : g \in T}
<1>1. N \in SUBSET Nat /\ N # {}
  BY DEF Events
<1>2. PICK n : n = Doc!MinOf(N)
  OBVIOUS
<1>3. n \in N /\ \A m \in N : n <= m
  <2> HIDE DEF N
  <2> QED BY <1>1, <1>2, Least
<1> QED BY <1>3

(***************************************************************************)
(* A message of an item that its speaker has is that item's.               *)
(***************************************************************************)
PriorClaims(l, a, t) ==
  {e \in Bill!ToSet(l) : e.type = "claim" /\ e.actor = a /\ e.ts < t}
EndsOf(l, e, by) ==
  {g \in Bill!ToSet(l) : g.item = e.item /\ g.ts > e.ts /\ g.type = "release" /\ g.actor \in by}
Again(l, told, a, t, e) ==
  \E g \in PriorClaims(l, a, t) \cup told :
    g.type = "claim" /\ g.actor = a /\ g.item = e.item /\ g.ts > e.ts
LastHeld(l, told, a, t, e) ==
  /\ e \in PriorClaims(l, a, t) \cap told
  /\ \A g \in PriorClaims(l, a, t) : g.ts <= e.ts
  /\ \A g \in EndsOf(l, e, Bill!Actors) : g.ts > t
  /\ ~(Again(l, told, a, t, e) /\ EndsOf(l, e, Bill!Actors \ {a}) # {})
HadIt(l, told, a, t, f) ==
  \E e \in PriorClaims(l, a, t) : e.item = f /\ \A g \in EndsOf(l, e, {a}) \cap told : g.ts > t
Owned(l, sp, u, r, t, f) ==
  LET a == SpeakerOf(sp, t)
      told == Bill!ToSet(SubSeq(l, 1, u)) IN
  /\ \A e : LastHeld(l, told, a, t, e) => f = e.item
  /\ f \in Bill!Items => (r /\ f = Assigned[a]) \/ HadIt(l, told, a, t, f)

LEMMA StillHeld ==
  ASSUME NEW k, NEW l, NEW sp, World(k, l, sp), NEW u \in 0 .. Len(l), NEW t \in Spoke(sp),
         NEW a, a = SpeakerOf(sp, t), NEW told, told = Bill!ToSet(SubSeq(l, 1, u)),
         NEW e, LastHeld(l, told, a, t, e)
  PROVE  \E to \in 1 .. Bill!Forever : t <= to /\ Bill!EndsAt(SubSeq(l, 1, u), e, to)
<1>1. PICK s : s = SubSeq(l, 1, u)
  OBVIOUS
<1>2. /\ s \in Seq(Events) /\ told = Bill!ToSet(s) /\ told \subseteq Bill!ToSet(l)
      /\ \A g \in Bill!ToSet(l) : g \in Events /\ g.ts \in 1 .. k
      /\ \A g, f \in Bill!ToSet(l) : g.ts < f.ts /\ f \in told => g \in told
      /\ \A g, f \in Bill!ToSet(l) :
            g.ts < f.ts /\ g.type = "claim" /\ f.type = "claim" /\ g.item = f.item =>
              \E h \in Bill!ToSet(l) :
                g.ts < h.ts /\ h.ts < f.ts /\ h.type = "release" /\ h.item = g.item
  BY <1>1, Happened
<1>3. k \in 1 .. MaxTime /\ MaxTime \in Nat /\ t \in 1 .. k
  BY Speakers, Distinct DEF World, Moments
<1>4. e \in Bill!ToSet(l) /\ e.type = "claim" /\ e.actor = a /\ e.ts < t /\ e \in told
  BY DEF PriorClaims, LastHeld
<1>5. PICK N : N = {f \in told : f.actor = e.actor /\ f.item = e.item /\ f.ts > e.ts}
  OBVIOUS
<1>6. CASE N = {}
  <2>1. Bill!EndsAt(s, e, Bill!Forever)
    BY <1>2, <1>4, <1>5, <1>6 DEF Bill!EndsAt
  <2>2. Bill!Forever \in 1 .. Bill!Forever /\ t <= Bill!Forever
    BY <1>3 DEF Bill!Forever
  <2> QED BY <1>1, <2>1, <2>2
<1>7. CASE N # {}
  <2>1. N \in SUBSET Events
    BY <1>2, <1>5
  <2>2. PICK f \in N : \A g \in N : f.ts <= g.ts
    BY <1>7, <2>1, FirstOf
  <2>3. /\ f \in told /\ f \in Bill!ToSet(l) /\ f \in Events
        /\ f.actor = a /\ f.item = e.item /\ f.ts > e.ts /\ f.ts \in 1 .. k
    BY <1>2, <1>4, <1>5, <2>2
  <2>4. a \in Bill!Actors
    BY <2>3 DEF Events
  <2>5. CASE f.type = "release"
    <3>1. f \in EndsOf(l, e, Bill!Actors)
      BY <2>3, <2>4, <2>5 DEF EndsOf
    <3>2. t < f.ts
      BY <1>3, <2>3, <3>1 DEF LastHeld
    <3>3. Bill!EndsAt(s, e, f.ts)
      BY <1>2, <1>4, <1>5, <1>7, <2>2, <2>5 DEF Bill!EndsAt
    <3>4. f.ts \in 1 .. Bill!Forever /\ t <= f.ts
      BY <1>3, <2>3, <3>2 DEF Bill!Forever
    <3> QED BY <1>1, <3>3, <3>4
  <2>6. CASE f.type = "claim"
    <3>1. PICK h \in Bill!ToSet(l) :
            e.ts < h.ts /\ h.ts < f.ts /\ h.type = "release" /\ h.item = e.item
      BY <1>2, <1>4, <2>3, <2>6
    <3>2. h \in told /\ h \in Events /\ h.ts \in Nat /\ e.ts \in Nat /\ f.ts \in Nat
      BY <1>2, <1>3, <1>4, <2>3, <3>1
    <3>3. h.ts > e.ts /\ ~(f.ts <= h.ts)
      BY <3>1, <3>2
    <3>4. h.actor # a
      <4> SUFFICES ASSUME h.actor = a PROVE FALSE
        OBVIOUS
      <4>1. h \in N
        BY <1>4, <1>5, <3>1, <3>2, <3>3
      <4> QED BY <2>2, <3>3, <4>1
    <3>5. h \in EndsOf(l, e, Bill!Actors \ {a})
      BY <3>1, <3>2, <3>3, <3>4 DEF EndsOf, Events
    <3>6. Again(l, told, a, t, e)
      BY <2>3, <2>6 DEF Again
    <3> QED BY <3>5, <3>6 DEF LastHeld
  <2>7. f.type \in {"claim", "release"}
    BY <2>3 DEF Events
  <2> QED BY <2>5, <2>6, <2>7
<1> QED BY <1>6, <1>7

LEMMA GoesToClaimed ==
  ASSUME NEW k, NEW l, NEW sp, World(k, l, sp), NEW u \in 0 .. Len(l), NEW t \in Spoke(sp),
         NEW a, a = SpeakerOf(sp, t), NEW told, told = Bill!ToSet(SubSeq(l, 1, u)),
         NEW e, LastHeld(l, told, a, t, e),
         NEW r
  PROVE  BucketOf(sp, Bill!Intervals(SubSeq(l, 1, u)), r, t) = e.item
<1>1. PICK s : s = SubSeq(l, 1, u)
  OBVIOUS
<1>2. /\ s \in Seq(Events) /\ told = Bill!ToSet(s) /\ told \subseteq Bill!ToSet(l)
      /\ \A g \in Bill!ToSet(l) : g \in Events /\ g.ts \in 1 .. k /\ g.ts \notin Spoke(sp)
      /\ \A g, f \in Bill!ToSet(l) : g.ts = f.ts => g = f
  BY <1>1, Happened
<1>3. t \in 1 .. k /\ k \in Nat /\ t \in Nat
  <2>1. t \in 1 .. k /\ k \in 1 .. MaxTime
    BY Speakers DEF World, Moments
  <2> QED BY <2>1
<1>4. e \in Bill!ToSet(s) /\ e \in Bill!ToSet(l) /\ e.type = "claim" /\ e.actor = a /\ e.ts < t
  BY <1>2 DEF PriorClaims, LastHeld
<1>5. PICK to \in 1 .. Bill!Forever : t <= to /\ Bill!EndsAt(s, e, to)
  BY <1>1, StillHeld
<1>6. PICK x : x = [actor |-> e.actor, item |-> e.item, from |-> e.ts, to |-> to]
  OBVIOUS
<1>7. e.ts \in Nat /\ e.ts <= t
  BY <1>2, <1>3, <1>4
<1>8. x \in Opens(Bill!Intervals(s), a, t)
  <2>1. x \in Bill!Intervals(s)
    BY <1>2, <1>4, <1>5, <1>6, IntervalsAre
  <2>2. x.actor = a /\ x.from = e.ts /\ x.to = to
    BY <1>4, <1>6
  <2> QED BY <1>5, <1>7, <2>1, <2>2 DEF Opens
<1>9. PICK v \in Opens(Bill!Intervals(s), a, t) :
        /\ Bill!attribute(Bill!Intervals(s), a, t) = v.item
        /\ \A w \in Opens(Bill!Intervals(s), a, t) : w.from <= v.from
  BY <1>2, <1>3, <1>8, Attributed
<1>10. PICK c \in Bill!ToSet(s) :
         c.type = "claim" /\ v.actor = c.actor /\ v.item = c.item /\ v.from = c.ts
  BY <1>2, <1>9, IntervalsAre DEF Opens
<1>11. c \in Bill!ToSet(l) /\ c.actor = a /\ c.ts \in Nat /\ c.ts <= t /\ c.ts # t
  BY <1>2, <1>9, <1>10 DEF Opens
<1>12. c \in PriorClaims(l, a, t)
  BY <1>3, <1>10, <1>11 DEF PriorClaims
<1>13. c.ts <= e.ts
  BY <1>12 DEF LastHeld
<1>14. e.ts <= c.ts
  BY <1>6, <1>8, <1>9, <1>10
<1>15. c = e
  BY <1>2, <1>4, <1>7, <1>11, <1>13, <1>14
<1>16. Bill!attribute(Bill!Intervals(s), a, t) = e.item
  BY <1>9, <1>10, <1>15
<1>17. e.item # "none"
  BY <1>2, <1>4, Distinct DEF Events
<1> QED BY <1>1, <1>16, <1>17 DEF BucketOf

LEMMA ItemHadIt ==
  ASSUME NEW k, NEW l, NEW sp, World(k, l, sp), NEW u \in 0 .. Len(l), NEW t \in Spoke(sp),
         NEW a, a = SpeakerOf(sp, t), NEW told, told = Bill!ToSet(SubSeq(l, 1, u)),
         NEW r \in BOOLEAN, NEW f \in Bill!Items, f = BucketOf(sp, Bill!Intervals(SubSeq(l, 1, u)), r, t),
         ~(r /\ f = Assigned[a])
  PROVE  HadIt(l, told, a, t, f)
<1>1. PICK s : s = SubSeq(l, 1, u)
  OBVIOUS
<1>2. /\ s \in Seq(Events) /\ told = Bill!ToSet(s) /\ told \subseteq Bill!ToSet(l)
      /\ \A g \in Bill!ToSet(l) : g \in Events /\ g.ts \in 1 .. k /\ g.ts \notin Spoke(sp)
  BY <1>1, Happened
<1>3. t \in 1 .. k /\ k \in Nat /\ t \in Nat /\ a \in Bill!Agents
  <2>1. t \in 1 .. k /\ k \in 1 .. MaxTime /\ a \in Bill!Agents
    BY Speakers DEF World, Moments
  <2> QED BY <2>1
<1>4. f # a
  BY <1>3, Distinct
<1>5. PICK i : i = Bill!attribute(Bill!Intervals(s), a, t)
  OBVIOUS
<1>6. i # "none" /\ f = i
  BY <1>1, <1>4, <1>5 DEF BucketOf
<1>7. PICK v \in Opens(Bill!Intervals(s), a, t) : i = v.item
  BY <1>2, <1>3, <1>5, <1>6, Attributed
<1>8. PICK e \in Bill!ToSet(s) :
        /\ e.type = "claim" /\ v.actor = e.actor /\ v.item = e.item /\ v.from = e.ts
        /\ v.to \in 1 .. Bill!Forever /\ Bill!EndsAt(s, e, v.to)
  BY <1>2, <1>7, IntervalsAre DEF Opens
<1>9. /\ e \in Bill!ToSet(l) /\ e.actor = a /\ e.ts \in Nat /\ e.ts <= t /\ e.ts # t
      /\ t <= v.to /\ e.item = f
  BY <1>2, <1>6, <1>7, <1>8 DEF Opens
<1>10. e \in PriorClaims(l, a, t)
  BY <1>3, <1>8, <1>9 DEF PriorClaims
<1>11. ASSUME NEW g \in EndsOf(l, e, {a}) \cap told PROVE g.ts > t
  <2>1. PICK N : N = {h \in Bill!ToSet(s) : h.actor = e.actor /\ h.item = e.item /\ h.ts > e.ts}
    OBVIOUS
  <2>2. g \in N /\ g \in Bill!ToSet(l) /\ g.ts \in Nat /\ g.ts # t
    BY <1>2, <1>9, <2>1 DEF EndsOf
  <2>3. PICK h \in N : h.ts <= g.ts /\ v.to = h.ts
    BY <1>8, <2>1, <2>2 DEF Bill!EndsAt
  <2>4. h.ts \in Nat
    BY <1>2, <2>1
  <2> QED BY <1>3, <1>9, <2>2, <2>3, <2>4
<1> QED BY <1>9, <1>10, <1>11 DEF HadIt

LEMMA IsOwned ==
  ASSUME NEW k, NEW l, NEW sp, World(k, l, sp), NEW u \in 0 .. Len(l), NEW t \in Spoke(sp),
         NEW r \in BOOLEAN, NEW f, f = BucketOf(sp, Bill!Intervals(SubSeq(l, 1, u)), r, t)
  PROVE  Owned(l, sp, u, r, t, f)
<1>1. PICK a : a = SpeakerOf(sp, t)
  OBVIOUS
<1>2. PICK told : told = Bill!ToSet(SubSeq(l, 1, u))
  OBVIOUS
<1>3. ASSUME NEW e, LastHeld(l, told, a, t, e) PROVE f = e.item
  BY <1>1, <1>2, <1>3, GoesToClaimed
<1>4. ASSUME f \in Bill!Items, ~(r /\ f = Assigned[a]) PROVE HadIt(l, told, a, t, f)
  BY <1>1, <1>2, <1>4, ItemHadIt
<1> QED BY <1>1, <1>2, <1>3, <1>4, Zenon DEF Owned

(***************************************************************************)
(* The agents work.                                                        *)
(***************************************************************************)
LEMMA Spoken ==
  ASSUME NEW k, NEW l, NEW sp, World(k, l, sp), k + 1 <= MaxTime, NEW a \in Bill!Agents,
         NEW d, d = [sp EXCEPT ![a] = sp[a] \cup {k + 1}]
  PROVE  World(k + 1, l, d) /\ \A b \in Bill!Agents : sp[b] \subseteq d[b]
<1>1. /\ k \in 1 .. MaxTime /\ MaxTime \in Nat /\ k \in Nat /\ k + 1 \in 1 .. MaxTime
      /\ Len(l) \in Nat /\ Len(l) <= k
  BY Distinct DEF World, Moments
<1>2. sp \in [Bill!Agents -> SUBSET (1 .. k)]
  BY DEF World, Moments
<1>3. \A b \in Bill!Agents : d[b] = IF b = a THEN sp[b] \cup {k + 1} ELSE sp[b]
  BY <1>2
<1>4. 1 .. k \subseteq 1 .. k + 1 /\ k + 1 \in 1 .. k + 1 /\ k + 1 \notin 1 .. k
  BY <1>1
<1>5. d \in [Bill!Agents -> SUBSET (1 .. k + 1)]
  <2>1. \A b \in Bill!Agents : sp[b] \subseteq 1 .. k
    BY <1>2
  <2>2. \A b \in Bill!Agents : d[b] \subseteq 1 .. k + 1
    BY <1>3, <1>4, <2>1
  <2>3. DOMAIN d = Bill!Agents /\ d = [b \in Bill!Agents |-> d[b]]
    BY <1>2
  <2> QED BY <2>2, <2>3
<1>6. \A b, c \in Bill!Agents : b # c => d[b] \cap d[c] = {}
  <2>1. \A b, c \in Bill!Agents : b # c => sp[b] \cap sp[c] = {}
    BY DEF World, Moments
  <2>2. \A b \in Bill!Agents : k + 1 \notin sp[b]
    BY <1>2, <1>4
  <2> QED BY <1>3, <2>1, <2>2
<1>7. ASSUME NEW n \in 1 .. Len(l) PROVE l[n].ts \in 1 .. k + 1 /\ l[n].ts \notin Spoke(d)
  <2>1. l[n].ts \in 1 .. k /\ l[n].ts \notin Spoke(sp)
    BY DEF World, Moments
  <2>2. l[n].ts # k + 1
    BY <1>4, <2>1
  <2>3. Spoke(d) \subseteq Spoke(sp) \cup {k + 1}
    BY <1>3 DEF Spoke
  <2> QED BY <1>4, <2>1, <2>2, <2>3
<1>8. Moments(k + 1, l, d)
  <2>1. \A m, n \in 1 .. Len(l) : m < n => l[m].ts < l[n].ts
    BY DEF World, Moments
  <2>2. Len(l) <= k + 1
    BY <1>1
  <2> QED BY <1>1, <1>5, <1>6, <1>7, <2>1, <2>2 DEF Moments
<1> QED BY <1>3, <1>8 DEF World

LEMMA Noted ==
  ASSUME NEW k, NEW l, NEW sp, World(k, l, sp), k + 1 <= MaxTime,
         NEW e \in Events, e.ts = k + 1,
         e.type = "claim" =>
           ~\E c \in Bill!ToSet(l) :
             /\ c.item = e.item /\ c.type = "claim"
             /\ \A f \in Bill!ToSet(l) : f.item = e.item => f.ts <= c.ts
  PROVE  /\ World(k + 1, Append(l, e), sp)
         /\ Len(Append(l, e)) = Len(l) + 1 /\ \A n \in 1 .. Len(l) : Append(l, e)[n] = l[n]
<1>1. /\ k \in 1 .. MaxTime /\ MaxTime \in Nat /\ k \in Nat /\ k + 1 \in 1 .. MaxTime
      /\ l \in Seq(Events) /\ Len(l) \in Nat /\ Len(l) <= k /\ DOMAIN l = 1 .. Len(l)
  BY Distinct DEF World, Moments
<1>2. PICK h, n0 : h = Append(l, e) /\ n0 = Len(l) + 1
  OBVIOUS
<1>3. /\ h \in Seq(Events) /\ Len(h) = n0 /\ h[n0] = e
      /\ \A n \in 1 .. Len(l) : h[n] = l[n]
  BY <1>1, <1>2
<1>4. \A n \in 1 .. n0 : n = n0 \/ n \in 1 .. Len(l)
  BY <1>1, <1>2
<1>5. /\ \A n \in 1 .. Len(l) : l[n].ts \in 1 .. k /\ l[n].ts \notin Spoke(sp)
      /\ \A m, n \in 1 .. Len(l) : m < n => l[m].ts < l[n].ts
      /\ sp \in [Bill!Agents -> SUBSET (1 .. k)]
      /\ \A a, b \in Bill!Agents : a # b => sp[a] \cap sp[b] = {}
  BY DEF World, Moments
<1>6. 1 .. k \subseteq 1 .. k + 1 /\ k + 1 \in 1 .. k + 1 /\ k + 1 \notin 1 .. k
  BY <1>1
<1>7. Moments(k + 1, h, sp)
  <2>1. sp \in [Bill!Agents -> SUBSET (1 .. k + 1)]
    BY <1>5, <1>6
  <2>2. ASSUME NEW n \in 1 .. n0 PROVE h[n].ts \in 1 .. k + 1 /\ h[n].ts \notin Spoke(sp)
    <3>1. CASE n = n0
      <4>1. k + 1 \notin Spoke(sp)
        BY <1>5, <1>6 DEF Spoke
      <4> QED BY <1>3, <1>6, <3>1, <4>1
    <3>2. CASE n \in 1 .. Len(l)
      BY <1>3, <1>5, <1>6, <3>2
    <3> QED BY <1>4, <3>1, <3>2
  <2>3. ASSUME NEW m \in 1 .. n0, NEW n \in 1 .. n0, m < n PROVE h[m].ts < h[n].ts
    <3>1. m \in 1 .. Len(l)
      BY <1>1, <1>2, <2>3
    <3>2. CASE n = n0
      BY <1>1, <1>3, <1>5, <3>1, <3>2
    <3>3. CASE n \in 1 .. Len(l)
      BY <1>3, <1>5, <2>3, <3>1, <3>3
    <3> QED BY <1>4, <3>2, <3>3
  <2>4. n0 <= k + 1
    BY <1>1, <1>2
  <2> QED BY <1>1, <1>3, <1>5, <2>1, <2>2, <2>3, <2>4 DEF Moments
<1>8. ASSUME NEW m \in 1 .. n0, NEW n \in 1 .. n0,
             m < n, h[m].type = "claim", h[n].type = "claim", h[m].item = h[n].item
      PROVE  \E r \in m + 1 .. n - 1 : h[r].type = "release" /\ h[r].item = h[m].item
  <2>1. m \in 1 .. Len(l) /\ h[m] = l[m]
    <3>1. m \in 1 .. Len(l)
      BY <1>1, <1>2, <1>8
    <3> QED BY <1>3, <3>1
  <2>2. CASE n \in 1 .. Len(l)
    <3>1. h[n] = l[n]
      BY <1>3, <2>2
    <3>2. PICK r \in m + 1 .. n - 1 : l[r].type = "release" /\ l[r].item = l[m].item
      BY <1>8, <2>1, <2>2, <3>1 DEF World, Between
    <3>3. r \in 1 .. Len(l)
      BY <1>1, <2>1, <2>2
    <3> QED BY <1>3, <2>1, <3>2, <3>3
  <2>3. CASE n = n0
    <3>1. e.type = "claim" /\ l[m].item = e.item /\ l[m].type = "claim"
      BY <1>3, <1>8, <2>1, <2>3
    <3> DEFINE T == {l[r].ts : r \in {q \in 1 .. Len(l) : l[q].item = e.item}}
    <3>2. T \in SUBSET Nat /\ T # {} /\ \A x \in T : x <= k
      <4>1. \A q \in 1 .. Len(l) : l[q].ts \in Nat /\ l[q].ts <= k
        BY <1>1, <1>5
      <4> QED BY <2>1, <3>1, <4>1
    <3>3. PICK x \in T : \A y \in T : y <= x
      <4> HIDE DEF T
      <4> QED BY <1>1, <3>2, Greatest
    <3>4. PICK r \in 1 .. Len(l) : l[r].item = e.item /\ l[r].ts = x
      BY <3>3
    <3>5. l[r] \in Bill!ToSet(l) /\ \A f \in Bill!ToSet(l) : f.item = e.item => f.ts <= l[r].ts
      BY <1>1, <3>3, <3>4 DEF Bill!ToSet
    <3>6. l[r].type # "claim"
      BY <3>1, <3>4, <3>5
    <3>7. l[r].type = "release"
      <4>1. l[r] \in Events
        BY <1>1
      <4> QED BY <3>6, <4>1 DEF Events
    <3>8. m < r
      <4>1. r # m
        BY <3>1, <3>6
      <4>2. l[m] \in Bill!ToSet(l)
        BY <1>1, <2>1 DEF Bill!ToSet
      <4>3. l[m].ts <= l[r].ts /\ l[m].ts \in Nat /\ l[r].ts \in Nat
        BY <1>1, <1>5, <2>1, <3>1, <3>5, <4>2
      <4>4. ~(r < m)
        BY <1>5, <2>1, <4>3
      <4> QED BY <2>1, <4>1, <4>4
    <3>9. r \in m + 1 .. n - 1
      BY <1>1, <1>2, <2>1, <2>3, <3>8
    <3> QED BY <1>3, <2>1, <3>1, <3>4, <3>7, <3>9
  <2> QED BY <1>4, <2>2, <2>3
<1>9. World(k + 1, h, sp)
  BY <1>3, <1>7, <1>8 DEF World, Between
<1> QED BY <1>2, <1>3, <1>9

\* What happens later changes nothing of what was said and noted before.
Later(l, sp, h, d) ==
  /\ \A a \in Bill!Agents : sp[a] \subseteq d[a]
  /\ Len(l) <= Len(h) /\ \A n \in 1 .. Len(l) : h[n] = l[n]

LEMMA SameBucket ==
  ASSUME NEW k, NEW l, NEW sp, World(k, l, sp), NEW m, NEW h, NEW d, World(m, h, d),
         Later(l, sp, h, d), NEW u \in 0 .. Len(l), NEW t \in Spoke(sp), NEW r
  PROVE  /\ t \in Spoke(d)
         /\ BucketOf(d, Bill!Intervals(SubSeq(h, 1, u)), r, t) =
              BucketOf(sp, Bill!Intervals(SubSeq(l, 1, u)), r, t)
<1>1. /\ SpeakerOf(sp, t) \in Bill!Agents /\ t \in sp[SpeakerOf(sp, t)]
  BY Speakers DEF World
<1>2. t \in Spoke(d) /\ t \in d[SpeakerOf(sp, t)]
  BY <1>1 DEF Later, Spoke
<1>3. SpeakerOf(d, t) = SpeakerOf(sp, t)
  BY <1>1, <1>2, Speakers DEF World
<1>4. SubSeq(h, 1, u) = SubSeq(l, 1, u)
  <2>1. /\ u \in Nat /\ Len(l) \in Nat /\ Len(h) \in Nat /\ Len(l) <= Len(h)
        /\ l \in Seq(Events) /\ h \in Seq(Events)
    BY DEF Later, World
  <2>2. \A n \in 1 .. u : h[n] = l[n] /\ h[n] \in Events /\ l[n] \in Events
    <3>1. 1 .. u \subseteq 1 .. Len(l) /\ 1 .. u \subseteq 1 .. Len(h)
      BY <2>1
    <3> QED BY <2>1, <3>1, ElementOfSeq DEF Later
  <2>3. /\ SubSeq(h, 1, u) \in Seq(Events)
        /\ Len(SubSeq(h, 1, u)) = (IF 1 <= u THEN u - 1 + 1 ELSE 0)
        /\ \A n \in 1 .. u - 1 + 1 : SubSeq(h, 1, u)[n] = h[1 + n - 1]
    BY <2>1, <2>2, SubSeqProperties
  <2>4. /\ SubSeq(l, 1, u) \in Seq(Events)
        /\ Len(SubSeq(l, 1, u)) = (IF 1 <= u THEN u - 1 + 1 ELSE 0)
        /\ \A n \in 1 .. u - 1 + 1 : SubSeq(l, 1, u)[n] = l[1 + n - 1]
    BY <2>1, <2>2, SubSeqProperties
  <2>5. u - 1 + 1 = u /\ \A n \in 1 .. u : 1 + n - 1 = n
    BY <2>1
  <2>6. \A n \in 1 .. u : SubSeq(h, 1, u)[n] = SubSeq(l, 1, u)[n]
    BY <2>2, <2>3, <2>4, <2>5
  <2>7. Len(SubSeq(h, 1, u)) = Len(SubSeq(l, 1, u)) /\ Len(SubSeq(h, 1, u)) = u
    BY <2>1, <2>3, <2>4, <2>5
  <2> QED BY <2>3, <2>4, <2>6, <2>7, SeqEqual
<1> QED BY <1>2, <1>3, <1>4 DEF BucketOf

LEMMA WorkGoesOn ==
  ASSUME NEW k, NEW l, NEW sp, NEW s, NEW c, SpendInv(k, l, sp, s, c),
         NEW m, NEW h, NEW d, World(m, h, d), Later(l, sp, h, d)
  PROVE  SpendInv(m, h, d, s, c)
<1>1. World(k, l, sp) /\ Kept(sp, s) /\ DOMAIN c = Processes /\ OneHarvest(c)
  BY DEF SpendInv
<1>2. Kept(d, s)
  BY <1>1 DEF Kept, Later, Spoke
<1>3. ASSUME NEW p \in Processes PROVE Accounts(h, d, s, c[p])
  <2>1. PICK b : b = c[p]
    OBVIOUS
  <2>2. Accounts(l, sp, s, b)
    BY <2>1 DEF SpendInv
  <2>3. Len(l) \in Nat /\ Len(h) \in Nat /\ Len(l) <= Len(h)
    BY <1>1 DEF Later, World
  <2>4. b.step \in {"scan", "append"} => b.upto <= Len(h) /\ b.upto \in 0 .. Len(l)
    BY <2>2, <2>3 DEF Accounts, Commands
  <2>5. ASSUME b.step = "append" PROVE Sorted(h, d, s, b)
    <3> SUFFICES ASSUME NEW f \in FileSet, NEW t \in Bill!ToSet(b.batch[f])
                 PROVE  /\ t \in Spoke(d) /\ t \notin AllRecords(s)
                        /\ BucketOf(d, Bill!Intervals(SubSeq(h, 1, b.upto)), b.registry, t) = f
      BY DEF Sorted
    <3>1. /\ t \in Spoke(sp) /\ t \notin AllRecords(s)
          /\ BucketOf(sp, Bill!Intervals(SubSeq(l, 1, b.upto)), b.registry, t) = f
      BY <2>2, <2>5 DEF Accounts, Sorted
    <3> QED BY <1>1, <2>4, <2>5, <3>1, SameBucket
  <2>6. Accounts(h, d, s, b)
    BY <2>2, <2>4, <2>5 DEF Accounts
  <2> QED BY <2>1, <2>6
<1> QED BY <1>1, <1>2, <1>3 DEF SpendInv

(***************************************************************************)
(* One process takes a step.                                               *)
(***************************************************************************)
LEMMA StoreGrows ==
  ASSUME NEW l, NEW sp, NEW s, NEW z, NEW c, Accounts(l, sp, s, c),
         \A f \in FileSet : RecordsOf(s, f) \subseteq RecordsOf(z, f),
         c.step \notin {"scan", "append"}
  PROVE  Accounts(l, sp, z, c)
<1>1. \A j \in 1 .. Len(Bill!Files) : RecordsOf(s, Bill!Files[j]) \subseteq RecordsOf(z, Bill!Files[j])
  BY FilesAre, ElementOfSeq
<1>2. c.file \in 1 .. Len(Bill!Files)
  BY DEF Accounts, Commands
<1>3. \A j \in c.file .. Len(Bill!Files) : j \in 1 .. Len(Bill!Files)
  <2>1. Len(Bill!Files) \in Nat
    BY FilesAre
  <2> QED BY <1>2, <2>1
<1>4. Unread(s, c) \subseteq Unread(z, c)
  BY <1>1, <1>3 DEF Unread
<1> QED BY <1>4 DEF Accounts

LEMMA StepOf ==
  ASSUME NEW k, NEW l, NEW sp, NEW s, NEW c, SpendInv(k, l, sp, s, c),
         NEW p \in Processes, NEW d, NEW z,
         Accounts(l, sp, z, d), Kept(sp, z),
         \A f \in FileSet : RecordsOf(s, f) \subseteq RecordsOf(z, f),
         z = s \/ c[p].step = "append",
         Harvesting(d) => Harvesting(c[p]) \/ \A q \in Processes : ~Harvesting(c[q])
  PROVE  SpendInv(k, l, sp, z, [c EXCEPT ![p] = d])
<1>1. PICK e : e = [c EXCEPT ![p] = d]
  OBVIOUS
<1>2. DOMAIN c = Processes /\ OneHarvest(c) /\ World(k, l, sp)
  BY DEF SpendInv
<1>3. DOMAIN e = Processes /\ \A q \in Processes : e[q] = IF q = p THEN d ELSE c[q]
  BY <1>1, <1>2
<1>4. OneHarvest(e)
  BY <1>2, <1>3 DEF OneHarvest
<1>5. ASSUME NEW q \in Processes PROVE Accounts(l, sp, z, e[q])
  <2>1. CASE q = p
    BY <1>3, <2>1
  <2>2. CASE q # p /\ z = s
    BY <1>3, <2>2 DEF SpendInv
  <2>3. CASE q # p /\ c[p].step = "append"
    <3>1. Accounts(l, sp, s, c[q])
      BY DEF SpendInv
    <3>2. c[q].step \notin {"scan", "append"}
      BY <1>2, <2>3 DEF OneHarvest, Harvesting
    <3>3. Accounts(l, sp, z, c[q])
      BY <3>1, <3>2, StoreGrows
    <3> QED BY <1>3, <2>3, <3>3
  <2> QED BY <2>1, <2>2, <2>3
<1> QED BY <1>1, <1>2, <1>3, <1>4, <1>5 DEF SpendInv

Billed == SpendInv(s1, s2, s3, s4, s5)

LEMMA BillWork ==
  ASSUME Billed, Bill!Work
  PROVE  Billed' /\ UNCHANGED <<s4, s5>>
<1>1. PICK k, l, sp : k = s1 /\ l = s2 /\ sp = s3
  OBVIOUS
<1>2. /\ SpendInv(k, l, sp, s4, s5) /\ World(k, l, sp)
      /\ k \in Nat /\ MaxTime \in Nat /\ l \in Seq(Events) /\ Len(l) \in Nat
      /\ sp \in [Bill!Agents -> SUBSET (1 .. k)]
  <2>1. SpendInv(k, l, sp, s4, s5)
    BY <1>1 DEF Billed
  <2>2. World(k, l, sp)
    BY <2>1 DEF SpendInv
  <2> QED BY <2>1, <2>2, Distinct DEF World, Moments
<1>3. ASSUME NEW m, NEW h, NEW d, m = s1', h = s2', d = s3', World(m, h, d), Later(l, sp, h, d),
             UNCHANGED <<s4, s5>>
      PROVE  Billed'
  BY <1>2, <1>3, WorkGoesOn DEF Billed
<1>4. ASSUME NEW e, e.ts = k + 1, e \in Events, Bill!Tick, s2' = Append(l, e),
             UNCHANGED <<s3, s4, s5>>,
             e.type = "claim" =>
               ~\E c \in Bill!ToSet(l) :
                 /\ c.item = e.item /\ c.type = "claim"
                 /\ \A f \in Bill!ToSet(l) : f.item = e.item => f.ts <= c.ts
      PROVE  Billed'
  <2>1. k + 1 <= MaxTime /\ s1' = k + 1 /\ s3' = sp
    BY <1>1, <1>2, <1>4 DEF Bill!Tick
  <2>2. /\ World(k + 1, Append(l, e), sp)
        /\ Len(Append(l, e)) = Len(l) + 1 /\ \A n \in 1 .. Len(l) : Append(l, e)[n] = l[n]
    BY <1>2, <1>4, <2>1, Noted
  <2>3. Later(l, sp, Append(l, e), sp)
    BY <1>2, <2>2 DEF Later
  <2> QED BY <1>3, <1>4, <2>1, <2>2, <2>3
<1>5. CASE \E a \in Bill!Agents, i \in Bill!Items : Bill!Claimed(a, i)
  <2>1. PICK a \in Bill!Agents, i \in Bill!Items : Bill!Claimed(a, i)
    BY <1>5
  <2>2. PICK e : e = Bill!Event("claim", a, i)
    OBVIOUS
  <2>3. Bill!Tick /\ ~Bill!Held(i) /\ s2' = Append(l, e) /\ UNCHANGED <<s3, s4, s5>>
    BY <1>1, <2>1, <2>2 DEF Bill!Claimed
  <2>4. e = [type |-> "claim", actor |-> a, item |-> i, ts |-> k + 1]
    BY <1>1, <2>2, <2>3 DEF Bill!Event, Bill!Tick
  <2>5. e \in Events /\ e.ts = k + 1 /\ e.item = i
    BY <1>2, <2>4, Distinct DEF Events
  <2>6. ~\E c \in Bill!ToSet(l) :
          /\ c.item = e.item /\ c.type = "claim"
          /\ \A f \in Bill!ToSet(l) : f.item = e.item => f.ts <= c.ts
    BY <1>1, <2>3, <2>5, Zenon DEF Bill!Held
  <2> QED BY <1>4, <2>3, <2>5, <2>6
<1>6. CASE \E a \in Bill!Actors, i \in Bill!Items : Bill!Released(a, i)
  <2>1. PICK a \in Bill!Actors, i \in Bill!Items : Bill!Released(a, i)
    BY <1>6
  <2>2. PICK e : e = Bill!Event("release", a, i)
    OBVIOUS
  <2>3. Bill!Tick /\ s2' = Append(l, e) /\ UNCHANGED <<s3, s4, s5>>
    BY <1>1, <2>1, <2>2 DEF Bill!Released
  <2>4. e = [type |-> "release", actor |-> a, item |-> i, ts |-> k + 1]
    BY <1>1, <2>2, <2>3 DEF Bill!Event, Bill!Tick
  <2>5. e \in Events /\ e.ts = k + 1 /\ e.type # "claim"
    BY <1>2, <2>4 DEF Events
  <2> QED BY <1>4, <2>3, <2>5
<1>7. CASE \E a \in Bill!Agents : Bill!Speak(a)
  <2>1. PICK a \in Bill!Agents : Bill!Speak(a)
    BY <1>7
  <2>2. /\ k + 1 <= MaxTime /\ s1' = k + 1 /\ s2' = l /\ UNCHANGED <<s4, s5>>
        /\ s3' = [sp EXCEPT ![a] = sp[a] \cup {k + 1}]
    BY <1>1, <1>2, <2>1 DEF Bill!Speak, Bill!Tick
  <2>3. PICK d : d = [sp EXCEPT ![a] = sp[a] \cup {k + 1}]
    OBVIOUS
  <2>4. World(k + 1, l, d) /\ \A b \in Bill!Agents : sp[b] \subseteq d[b]
    BY <1>2, <2>2, <2>3, Spoken
  <2>5. Later(l, sp, l, d)
    BY <1>2, <2>4 DEF Later
  <2> QED BY <1>3, <2>2, <2>3, <2>4, <2>5
<1>8. UNCHANGED <<s4, s5>>
  BY DEF Bill!Work, Bill!Claimed, Bill!Released, Bill!Speak
<1> QED BY <1>5, <1>6, <1>7, <1>8 DEF Bill!Work

\* A harvest begins, and takes the lock or goes without.
LEMMA BillBegins ==
  ASSUME Billed, NEW p \in Processes,
         Bill!Command(p) \/ Bill!acquireHarvestLock(p) \/ Bill!Report(p)
  PROVE  Billed' /\ UNCHANGED s4
<1>1. PICK k, l, sp, s, c : k = s1 /\ l = s2 /\ sp = s3 /\ s = s4 /\ c = s5
  OBVIOUS
<1>2. SpendInv(k, l, sp, s, c) /\ Kept(sp, s) /\ DOMAIN c = Processes /\ Accounts(l, sp, s, c[p])
  BY <1>1 DEF Billed, SpendInv
<1>3. s1' = k /\ s2' = l /\ s3' = sp /\ s4' = s
  BY <1>1 DEF Bill!Command, Bill!acquireHarvestLock, Bill!Report, Bill!world
<1>4. PICK b : b = c[p]
  OBVIOUS
<1>5. ASSUME NEW d, Accounts(l, sp, s, d),
             Harvesting(d) => Harvesting(b) \/ \A q \in Processes : ~Harvesting(c[q])
      PROVE  SpendInv(k, l, sp, s, [c EXCEPT ![p] = d])
  BY <1>2, <1>4, <1>5, StepOf
<1>6. Bill!Idle \in Commands /\ Accounts(l, sp, s, Bill!Idle) /\ ~Harvesting(Bill!Idle)
  <2>1. Bill!NoLines \in [FileSet -> Seq(Nat)]
    BY FilesAre DEF Bill!NoLines
  <2>2. 1 \in 1 .. Len(Bill!Files)
    BY FilesAre
  <2>3. Bill!Idle \in Commands
    BY <2>1, <2>2 DEF Bill!Idle, Commands
  <2>4. /\ Bill!Idle.step = "idle" /\ Bill!Idle.due = {} /\ Bill!Idle.file = 1
        /\ Bill!Idle.read = <<>> /\ Len(Bill!Idle.read) = 0
    BY DEF Bill!Idle
  <2> QED BY <2>3, <2>4 DEF Accounts, ItemsLast, Harvesting
<1>7. CASE Bill!Command(p)
  <2>1. PICK rebuild \in BOOLEAN : s5' = [c EXCEPT ![p] = [Bill!Idle EXCEPT !.step = "lock", !.rebuild = rebuild]]
    BY <1>1, <1>7 DEF Bill!Command, Bill!Step
  <2>2. PICK d : d = [Bill!Idle EXCEPT !.step = "lock", !.rebuild = rebuild]
    OBVIOUS
  <2>3. d \in Commands
    BY <1>6, <2>2 DEF Commands
  <2>4. d.step = "lock" /\ d.due = {} /\ d.file = 1 /\ d.read = <<>> /\ Len(d.read) = 0
    BY <2>2 DEF Bill!Idle
  <2>5. Accounts(l, sp, s, d) /\ ~Harvesting(d)
    BY <2>3, <2>4 DEF Accounts, ItemsLast, Harvesting
  <2>6. SpendInv(k, l, sp, s, [c EXCEPT ![p] = d])
    BY <1>5, <2>5
  <2> QED BY <1>1, <1>3, <2>1, <2>2, <2>6 DEF Billed
<1>8. CASE Bill!acquireHarvestLock(p)
  <2>1. PICK step \in {"clear", "snapshot", "read"} :
          /\ b.step = "lock"
          /\ s5' = [c EXCEPT ![p] = [b EXCEPT !.step = step]]
          /\ step # "read" => \A q \in Processes : ~Harvesting(c[q])
    BY <1>1, <1>4, <1>8 DEF Bill!acquireHarvestLock, Bill!Goto, Bill!Step, Bill!At, Bill!LockHeld, Harvesting
  <2>2. PICK d : d = [b EXCEPT !.step = step]
    OBVIOUS
  <2>3. b \in Commands /\ b.due = {} /\ b.file = 1 /\ b.read = <<>> /\ Len(b.read) = 0
    BY <1>2, <1>4, <2>1 DEF Accounts
  <2>4. d \in Commands /\ d.step = step /\ d.due = {} /\ d.file = 1 /\ d.read = <<>> /\ Len(d.read) = 0
    BY <2>2, <2>3 DEF Commands
  <2>5. \A r \in Bill!ToSet(d.read) : FALSE
    BY <2>4 DEF Bill!ToSet
  <2>6. Accounts(l, sp, s, d)
    BY <2>4, <2>5 DEF Accounts, ItemsLast
  <2>7. Harvesting(d) => \A q \in Processes : ~Harvesting(c[q])
    BY <2>1, <2>4 DEF Harvesting
  <2>8. SpendInv(k, l, sp, s, [c EXCEPT ![p] = d])
    BY <1>5, <2>6, <2>7
  <2> QED BY <1>1, <1>3, <2>1, <2>2, <2>8 DEF Billed
<1>9. CASE Bill!Report(p)
  <2>1. s5' = [c EXCEPT ![p] = Bill!Idle]
    BY <1>1, <1>9 DEF Bill!Report, Bill!Step
  <2>2. SpendInv(k, l, sp, s, [c EXCEPT ![p] = Bill!Idle])
    BY <1>5, <1>6
  <2> QED BY <1>1, <1>3, <2>1, <2>2 DEF Billed
<1> QED BY <1>1, <1>3, <1>7, <1>8, <1>9

\* A rebuild throws the store away, and nobody else is harvesting.
LEMMA BillClears ==
  ASSUME Billed, NEW p \in Processes, Bill!Clear(p)
  PROVE  Billed' /\ s4' = Bill!NoLines
<1>1. PICK l, sp, s, c : l = s2 /\ sp = s3 /\ s = s4 /\ c = s5
  OBVIOUS
<1>2. /\ s1' = s1 /\ s2' = l /\ s3' = sp /\ s4' = Bill!NoLines /\ c[p].step = "clear"
      /\ s5' = [q \in Processes |-> IF q = p THEN [c[q] EXCEPT !.step = "snapshot"]
                                   ELSE [c[q] EXCEPT !.due = {}]]
  BY <1>1 DEF Bill!Clear, Bill!world, Bill!At
<1>3. /\ World(s1, l, sp) /\ DOMAIN c = Processes /\ OneHarvest(c)
      /\ \A q \in Processes : Accounts(l, sp, s, c[q])
  BY <1>1 DEF Billed, SpendInv
<1>4. PICK z : z = Bill!NoLines
  OBVIOUS
<1>5. z \in [FileSet -> Seq(Nat)] /\ AllRecords(z) = {} /\ \A f \in FileSet : RecordsOf(z, f) = {}
  <2>1. z = [f \in FileSet |-> <<>>]
    BY <1>4, FilesAre DEF Bill!NoLines
  <2>2. z \in [FileSet -> Seq(Nat)]
    BY <2>1
  <2>3. \A f \in FileSet : RecordsOf(z, f) = {}
    <3>1. Bill!ToSet(<<>>) = {}
      BY DEF Bill!ToSet
    <3> QED BY <2>1, <3>1 DEF RecordsOf
  <2> QED BY <2>2, <2>3 DEF AllRecords
<1>6. Kept(sp, z)
  BY <1>5 DEF Kept, FileSet
<1>7. ASSUME NEW q \in Processes
      PROVE  /\ Accounts(l, sp, z, s5'[q]) /\ (Harvesting(s5'[q]) => Harvesting(c[q]))
  <2>1. PICK b, d : b = c[q] /\ d = s5'[q]
    OBVIOUS
  <2>2. Accounts(l, sp, s, b) /\ b \in Commands
    BY <1>3, <2>1 DEF Accounts
  <2>3. CASE q = p
    <3>1. d = [b EXCEPT !.step = "snapshot"] /\ b.step = "clear"
      BY <1>2, <2>1, <2>3
    <3>2. d \in Commands
      BY <2>2, <3>1 DEF Commands
    <3>3. d.step = "snapshot" /\ d.due = b.due /\ d.file = b.file /\ d.read = b.read
      BY <2>2, <3>1 DEF Commands
    <3>4. Accounts(l, sp, z, d)
      BY <2>2, <3>1, <3>2, <3>3 DEF Accounts
    <3> QED BY <2>1, <3>1, <3>4 DEF Harvesting
  <2>4. CASE q # p
    <3>1. d = [b EXCEPT !.due = {}]
      BY <1>2, <2>1, <2>4
    <3>2. d \in Commands
      BY <2>2, <3>1 DEF Commands
    <3>3. /\ d.step = b.step /\ d.due = {} /\ d.file = b.file /\ d.read = b.read
      BY <2>2, <3>1 DEF Commands
    <3>4. b.step \notin {"scan", "append"}
      BY <1>2, <1>3, <2>1, <2>4 DEF OneHarvest, Harvesting
    <3>5. Accounts(l, sp, z, d)
      BY <2>2, <3>2, <3>3, <3>4 DEF Accounts
    <3> QED BY <2>1, <3>3, <3>5 DEF Harvesting
  <2> QED BY <2>3, <2>4
<1>8. OneHarvest(s5')
  BY <1>3, <1>7 DEF OneHarvest
<1> QED BY <1>2, <1>3, <1>4, <1>6, <1>7, <1>8 DEF Billed, SpendInv

\* What is stored is seen, and the claims are read.
LEMMA BillSees ==
  ASSUME Billed, NEW p \in Processes, Bill!Snapshot(p)
  PROVE  Billed' /\ UNCHANGED s4
<1>1. PICK k, l, sp, s, c : k = s1 /\ l = s2 /\ sp = s3 /\ s = s4 /\ c = s5
  OBVIOUS
<1>2. SpendInv(k, l, sp, s, c) /\ Kept(sp, s) /\ Accounts(l, sp, s, c[p]) /\ World(k, l, sp)
  BY <1>1 DEF Billed, SpendInv
<1>3. PICK b : b = c[p]
  OBVIOUS
<1>4. PICK registry \in BOOLEAN :
        s5' = [c EXCEPT ![p] = [b EXCEPT !.step = "scan", !.seen = Bill!SeenSet, !.upto = Len(l),
                                         !.registry = registry]]
  BY <1>1, <1>3 DEF Bill!Snapshot, Bill!Step
<1>5. b.step = "snapshot" /\ s1' = k /\ s2' = l /\ s3' = sp /\ s4' = s
  BY <1>1, <1>3 DEF Bill!Snapshot, Bill!world, Bill!At
<1>6. PICK d : d = [b EXCEPT !.step = "scan", !.seen = Bill!SeenSet, !.upto = Len(l),
                             !.registry = registry]
  OBVIOUS
<1>7. Bill!SeenSet = AllRecords(s)
  BY <1>1, <1>2, StoredIs DEF Bill!SeenSet, Kept
<1>8. b \in Commands /\ AllRecords(s) \in SUBSET Nat /\ Len(l) \in Nat
  <2>1. Len(l) \in Nat
    BY <1>2 DEF World
  <2>2. Spoke(sp) \subseteq Nat
    <3>1. k \in 1 .. MaxTime /\ sp \in [Bill!Agents -> SUBSET (1 .. k)]
      BY <1>2 DEF World, Moments
    <3> QED BY <3>1 DEF Spoke
  <2> QED BY <1>2, <1>3, <2>1, <2>2 DEF Accounts, Kept
<1>9. d \in Commands /\ d.step = "scan" /\ d.seen = AllRecords(s) /\ d.upto = Len(l)
      /\ d.due = b.due /\ d.file = b.file /\ d.read = b.read
  BY <1>6, <1>7, <1>8 DEF Commands
<1>10. Accounts(l, sp, s, d)
  BY <1>2, <1>3, <1>5, <1>8, <1>9 DEF Accounts
<1>11. Harvesting(c[p])
  BY <1>3, <1>5 DEF Harvesting
<1>12. SpendInv(k, l, sp, s, [c EXCEPT ![p] = d])
  BY <1>2, <1>10, <1>11, StepOf
<1> QED BY <1>1, <1>4, <1>5, <1>6, <1>12 DEF Billed

\* The transcripts are read: what is new is sorted.
LEMMA BillScans ==
  ASSUME Billed, NEW p \in Processes, Bill!Scan(p)
  PROVE  Billed' /\ UNCHANGED s4
<1>1. PICK k, l, sp, s, c : k = s1 /\ l = s2 /\ sp = s3 /\ s = s4 /\ c = s5
  OBVIOUS
<1>2. SpendInv(k, l, sp, s, c) /\ Kept(sp, s) /\ Accounts(l, sp, s, c[p]) /\ World(k, l, sp)
  BY <1>1 DEF Billed, SpendInv
<1>3. PICK b : b = c[p]
  OBVIOUS
<1>4. PICK new, iv : new = Spoke(sp) \ b.seen /\ iv = Bill!Intervals(SubSeq(l, 1, b.upto))
  OBVIOUS
<1>5. PICK batch : batch = Bill!Batch(iv, b.registry, new)
  OBVIOUS
<1>6. PICK d : d = [b EXCEPT !.step = "append", !.due = Spoke(sp), !.seen = {}, !.batch = batch]
  OBVIOUS
<1>7. s5' = [c EXCEPT ![p] = d]
  <2>1. Bill!Spoken = Spoke(sp)
    BY <1>1 DEF Bill!Spoken, Spoke
  <2> QED BY <1>1, <1>3, <1>4, <1>5, <1>6, <2>1 DEF Bill!Scan, Bill!Step
<1>8. b.step = "scan" /\ s1' = k /\ s2' = l /\ s3' = sp /\ s4' = s
  BY <1>1, <1>3 DEF Bill!Scan, Bill!world, Bill!At
<1>9. b \in Commands /\ b.upto \in 0 .. Len(l) /\ b.seen = AllRecords(s) /\ b.registry \in BOOLEAN
  <2>1. Len(l) \in Nat
    BY <1>2 DEF World
  <2> QED BY <1>2, <1>3, <1>8, <2>1 DEF Accounts, Commands
<1>10. Spoke(sp) \subseteq 1 .. k /\ k \in Nat
  <2>1. k \in 1 .. MaxTime /\ sp \in [Bill!Agents -> SUBSET (1 .. k)]
    BY <1>2 DEF World, Moments
  <2> QED BY <2>1 DEF Spoke
<1>11. SubSeq(l, 1, b.upto) \in Seq(Events)
  BY <1>2, <1>9, Happened
<1>12. ASSUME NEW f \in FileSet
       PROVE  batch[f] \in Seq(Nat) /\ Bill!ToSet(batch[f]) = {t \in new : BucketOf(sp, iv, b.registry, t) = f}
  <2>1. PICK T : T = {t \in new : BucketOf(sp, iv, b.registry, t) = f}
    OBVIOUS
  <2>2. batch[f] = Bill!InOrder(T)
    <3>1. T = {t \in new : Bill!Bucket(iv, b.registry, t) = f}
      BY <1>1, <2>1, Bucketed
    <3> QED BY <1>5, <3>1, FilesAre DEF Bill!Batch
  <2>3. T \in SUBSET (1 .. k) /\ T \in SUBSET Nat
    BY <1>4, <1>10, <2>1
  <2>4. IsFiniteSet(1 .. k)
    BY <1>10, FS_Interval
  <2>5. IsFiniteSet(T)
    BY <2>3, <2>4, FS_Subset
  <2>6. Bill!InOrder(T) \in Seq(T) /\ Bill!ToSet(Bill!InOrder(T)) = T
    BY <2>3, <2>5, Ranked
  <2>7. Bill!InOrder(T) \in Seq(Nat)
    BY <2>3, <2>6, SeqMonotonic
  <2> QED BY <2>1, <2>2, <2>6, <2>7
<1>13. batch \in [FileSet -> Seq(Nat)]
  <2>1. batch = [f \in FileSet |-> batch[f]]
    BY <1>5, FilesAre DEF Bill!Batch
  <2> QED BY <1>12, <2>1
<1>14. d \in Commands /\ d.step = "append" /\ d.due = Spoke(sp) /\ d.batch = batch
       /\ d.upto = b.upto /\ d.registry = b.registry /\ d.file = b.file /\ d.read = b.read
  <2>1. Spoke(sp) \in SUBSET Nat
    BY <1>10
  <2> QED BY <1>6, <1>9, <1>13, <2>1 DEF Commands
<1>15. Sorted(l, sp, s, d)
  BY <1>4, <1>9, <1>12, <1>14 DEF Sorted
<1>16. d.due \subseteq AllRecords(s) \cup Batched(d)
  <2> SUFFICES ASSUME NEW t \in Spoke(sp), t \notin AllRecords(s) PROVE t \in Batched(d)
    BY <1>14
  <2>1. PICK f : f = BucketOf(sp, iv, b.registry, t)
    OBVIOUS
  <2>2. f \in FileSet
    BY <1>2, <1>4, <1>11, <2>1, BucketIn
  <2>3. t \in Bill!ToSet(batch[f])
    BY <1>4, <1>9, <1>12, <2>1, <2>2
  <2> QED BY <1>14, <2>2, <2>3 DEF Batched
<1>17. Accounts(l, sp, s, d)
  <2>1. b.upto <= Len(l) /\ b.file = 1 /\ b.read = <<>> /\ ItemsLast(b.read)
    BY <1>2, <1>3, <1>8 DEF Accounts
  <2> QED BY <1>14, <1>15, <1>16, <2>1 DEF Accounts
<1>18. Harvesting(c[p])
  BY <1>3, <1>8 DEF Harvesting
<1>19. SpendInv(k, l, sp, s, [c EXCEPT ![p] = d])
  BY <1>2, <1>17, <1>18, StepOf
<1> QED BY <1>1, <1>7, <1>8, <1>19 DEF Billed

(***************************************************************************)
(* What is appended.                                                       *)
(***************************************************************************)
LEMMA InLines ==
  ASSUME NEW S, NEW r \in Seq(S)
  PROVE  /\ Len(r) \in Nat /\ DOMAIN r = 1 .. Len(r) /\ \A n \in 1 .. Len(r) : r[n] \in S
         /\ \A x : x \in Bill!ToSet(r) <=> \E n \in 1 .. Len(r) : r[n] = x
BY LenProperties, ElementOfSeq DEF Bill!ToSet

LEMMA Concat ==
  ASSUME NEW S, NEW a \in Seq(S), NEW b \in Seq(S)
  PROVE  /\ a \o b \in Seq(S) /\ Len(a \o b) = Len(a) + Len(b)
         /\ Bill!ToSet(a \o b) = Bill!ToSet(a) \cup Bill!ToSet(b)
         /\ \A n \in Len(a) + 1 .. Len(a) + Len(b) : (a \o b)[n] \in Bill!ToSet(b)
<1>1. Len(a) \in Nat /\ Len(b) \in Nat
  BY LenProperties
<1>2. PICK c : c = a \o b
  OBVIOUS
<1>3. /\ c \in Seq(S) /\ Len(c) = Len(a) + Len(b)
      /\ \A i \in 1 .. Len(a) + Len(b) : c[i] = IF i <= Len(a) THEN a[i] ELSE b[i - Len(a)]
  BY <1>2, ConcatProperties
<1>4. \A i \in 1 .. Len(a) : i \in 1 .. Len(c) /\ c[i] = a[i]
  BY <1>1, <1>3
<1>5. \A i \in 1 .. Len(b) : i + Len(a) \in 1 .. Len(c) /\ c[i + Len(a)] = b[i]
  <2> TAKE i \in 1 .. Len(b)
  <2>1. i + Len(a) \in 1 .. Len(a) + Len(b) /\ ~(i + Len(a) <= Len(a)) /\ i + Len(a) - Len(a) = i
    BY <1>1
  <2> QED BY <1>3, <2>1
<1>6. \A n \in Len(a) + 1 .. Len(a) + Len(b) : n - Len(a) \in 1 .. Len(b) /\ c[n] = b[n - Len(a)]
  <2> TAKE n \in Len(a) + 1 .. Len(a) + Len(b)
  <2>1. n - Len(a) \in 1 .. Len(b) /\ n \in 1 .. Len(a) + Len(b) /\ ~(n <= Len(a))
    BY <1>1
  <2> QED BY <1>3, <2>1
<1>7. \A n \in 1 .. Len(c) : n \in 1 .. Len(a) \/ n \in Len(a) + 1 .. Len(a) + Len(b)
  BY <1>1, <1>3
<1>8. \A n \in Len(a) + 1 .. Len(a) + Len(b) : c[n] \in Bill!ToSet(b)
  BY <1>6, InLines
<1>9. ASSUME NEW x \in Bill!ToSet(c) PROVE x \in Bill!ToSet(a) \cup Bill!ToSet(b)
  <2>1. PICK n \in 1 .. Len(c) : c[n] = x
    BY <1>3, InLines
  <2>2. CASE n \in 1 .. Len(a)
    BY <1>4, <2>1, <2>2, InLines
  <2>3. CASE n \in Len(a) + 1 .. Len(a) + Len(b)
    BY <1>8, <2>1, <2>3
  <2> QED BY <1>7, <2>2, <2>3
<1>10. ASSUME NEW x \in Bill!ToSet(a) PROVE x \in Bill!ToSet(c)
  <2>1. PICK n \in 1 .. Len(a) : a[n] = x
    BY InLines
  <2> QED BY <1>3, <1>4, <2>1, InLines
<1>11. ASSUME NEW x \in Bill!ToSet(b) PROVE x \in Bill!ToSet(c)
  <2>1. PICK n \in 1 .. Len(b) : b[n] = x
    BY InLines
  <2>2. n + Len(a) \in 1 .. Len(c) /\ c[n + Len(a)] = x
    BY <1>5, <2>1
  <2> QED BY <1>3, <2>2, InLines
<1> QED BY <1>2, <1>3, <1>8, <1>9, <1>10, <1>11

\* Some lines of it.
LEMMA FirstLines ==
  ASSUME NEW b \in Seq(Nat), NEW n \in 0 .. Len(b)
  PROVE  SubSeq(b, 1, n) \in Seq(Nat) /\ Bill!ToSet(SubSeq(b, 1, n)) \subseteq Bill!ToSet(b)
<1>1. Len(b) \in Nat /\ n \in Nat /\ 1 .. n \subseteq 1 .. Len(b)
  BY LenProperties
<1>2. \A i \in 1 .. n : b[i] \in Nat
  BY <1>1, ElementOfSeq
<1>3. PICK s : s = SubSeq(b, 1, n)
  OBVIOUS
<1>4. /\ s \in Seq(Nat) /\ Len(s) = (IF 1 <= n THEN n - 1 + 1 ELSE 0)
      /\ \A i \in 1 .. n - 1 + 1 : s[i] = b[1 + i - 1]
  BY <1>1, <1>2, <1>3, SubSeqProperties
<1>5. Len(s) = n /\ n - 1 + 1 = n /\ \A i \in 1 .. n : 1 + i - 1 = i
  BY <1>1, <1>4
<1>6. \A i \in 1 .. Len(s) : i \in 1 .. Len(b) /\ s[i] = b[i]
  BY <1>1, <1>4, <1>5
<1>7. Bill!ToSet(s) \subseteq Bill!ToSet(b)
  <2> SUFFICES ASSUME NEW x \in Bill!ToSet(s) PROVE x \in Bill!ToSet(b)
    OBVIOUS
  <2>1. s \in Seq(Nat)
    BY <1>4
  <2>2. PICK i \in 1 .. Len(s) : s[i] = x
    BY <2>1, InLines
  <2>3. i \in 1 .. Len(b) /\ b[i] = x
    BY <1>6, <2>2
  <2> QED BY <2>3, InLines
<1> QED BY <1>3, <1>4, <1>7

LEMMA AppendedTo ==
  ASSUME s4 \in [FileSet -> Seq(Nat)], NEW f \in FileSet, NEW b \in Seq(Nat)
  PROVE  LET z == Bill!Appended(f, b) IN
         /\ z \in Seq(Nat)
         /\ Bill!ToSet(z) \subseteq Bill!ToSet(s4[f]) \cup Bill!ToSet(b)
         /\ RecordsOf(s4, f) \subseteq Bill!ToSet(z)
         /\ Bill!ToSet(b) \subseteq Bill!ToSet(z) \cup (IF Bill!Glued(f, b) THEN {Head(b)} ELSE {})
         /\ \A n \in Len(s4[f]) + 1 .. Len(z) : z[n] \in Bill!ToSet(b)
<1>1. PICK a, z : a = s4[f] /\ z = Bill!Appended(f, b)
  OBVIOUS
<1>2. a \in Seq(Nat) /\ Len(a) \in Nat /\ Len(b) \in Nat
  BY <1>1, LenProperties
<1>3. CASE ~Bill!Glued(f, b)
  <2>1. z = a \o b
    BY <1>1, <1>3 DEF Bill!Appended
  <2>2. /\ z \in Seq(Nat) /\ Len(z) = Len(a) + Len(b)
        /\ Bill!ToSet(z) = Bill!ToSet(a) \cup Bill!ToSet(b)
        /\ \A n \in Len(a) + 1 .. Len(a) + Len(b) : z[n] \in Bill!ToSet(b)
    BY <1>2, <2>1, Concat
  <2> QED BY <1>1, <1>3, <2>2 DEF RecordsOf
<1>4. CASE Bill!Glued(f, b)
  <2>1. a # <<>> /\ b # <<>> /\ Bill!Last(a) = Bill!Torn
    BY <1>1, <1>4 DEF Bill!Glued
  <2>2. PICK h, t : h = Bill!Front(a) /\ t = Tail(b)
    OBVIOUS
  <2>3. z = h \o t
    BY <1>1, <1>4, <2>2 DEF Bill!Appended
  <2>4. Len(a) \in Nat \ {0}
    BY <1>2, <2>1, EmptySeq
  <2>5. a[Len(a)] = Bill!Torn
    BY <2>1 DEF Bill!Last
  <2>6. /\ h \in Seq(Nat) /\ Len(h) = Len(a) - 1 /\ \A n \in 1 .. Len(a) - 1 : h[n] = a[n]
    <3>1. h = SubSeq(a, 1, Len(a) - 1)
      BY <2>2 DEF Bill!Front
    <3>2. \A i \in 1 .. Len(a) - 1 : a[i] \in Nat
      BY <1>2, ElementOfSeq
    <3>3. PICK m : m = Len(a) - 1
      OBVIOUS
    <3>4. m \in Nat /\ m - 1 + 1 = m /\ \A i \in 1 .. m : 1 + i - 1 = i
      BY <2>4, <3>3
    <3>5. /\ h \in Seq(Nat) /\ Len(h) = (IF 1 <= m THEN m - 1 + 1 ELSE 0)
          /\ \A i \in 1 .. m - 1 + 1 : h[i] = a[1 + i - 1]
      BY <3>1, <3>2, <3>3, <3>4, SubSeqProperties
    <3>6. Len(h) = m
      BY <3>4, <3>5
    <3>7. h \in Seq(Nat) /\ \A i \in 1 .. m : h[i] = a[i]
      <4>1. h \in Seq(Nat)
        BY <3>5
      <4>2. \A i \in 1 .. m : i \in 1 .. m - 1 + 1 /\ 1 + i - 1 = i
        BY <3>4
      <4> QED BY <3>5, <4>1, <4>2
    <3> QED BY <3>3, <3>6, <3>7
  <2>7. /\ t \in Seq(Nat) /\ Len(t) = Len(b) - 1 /\ \A n \in 1 .. Len(t) : t[n] = b[n + 1]
        /\ Len(b) \in Nat \ {0}
    BY <2>1, <2>2, HeadTailProperties, EmptySeq
  <2>8. /\ z \in Seq(Nat) /\ Len(z) = Len(h) + Len(t)
        /\ Bill!ToSet(z) = Bill!ToSet(h) \cup Bill!ToSet(t)
        /\ \A n \in Len(h) + 1 .. Len(h) + Len(t) : z[n] \in Bill!ToSet(t)
    <3>1. h \in Seq(Nat) /\ t \in Seq(Nat)
      BY <2>6, <2>7
    <3> QED BY <2>3, <3>1, Concat
  <2>9. Bill!ToSet(h) \subseteq Bill!ToSet(a)
    <3>1. \A n \in 1 .. Len(h) : n \in 1 .. Len(a) /\ h[n] = a[n]
      BY <2>4, <2>6
    <3>2. h \in Seq(Nat)
      BY <2>6
    <3> SUFFICES ASSUME NEW x \in Bill!ToSet(h) PROVE x \in Bill!ToSet(a)
      OBVIOUS
    <3>3. PICK n \in 1 .. Len(h) : h[n] = x
      BY <3>2, InLines
    <3>4. n \in 1 .. Len(a) /\ a[n] = x
      BY <3>1, <3>3
    <3> QED BY <1>2, <3>4, InLines
  <2>10. Bill!ToSet(a) \subseteq Bill!ToSet(h) \cup {Bill!Torn}
    <3> SUFFICES ASSUME NEW x \in Bill!ToSet(a), x # Bill!Torn PROVE x \in Bill!ToSet(h)
      OBVIOUS
    <3>1. PICK n \in 1 .. Len(a) : a[n] = x
      BY <1>2, InLines
    <3>2. n # Len(a)
      BY <2>5, <3>1
    <3>3. n \in 1 .. Len(h) /\ h[n] = x
      BY <2>4, <2>6, <3>1, <3>2
    <3>4. h \in Seq(Nat)
      BY <2>6
    <3> QED BY <3>3, <3>4, InLines
  <2>11. Bill!ToSet(t) \subseteq Bill!ToSet(b)
    <3>1. ASSUME NEW n \in 1 .. Len(t) PROVE n + 1 \in 1 .. Len(b) /\ t[n] = b[n + 1]
      <4>1. n + 1 \in 1 .. Len(b)
        BY <2>7
      <4> QED BY <2>7, <4>1
    <3>2. t \in Seq(Nat)
      BY <2>7
    <3> SUFFICES ASSUME NEW x \in Bill!ToSet(t) PROVE x \in Bill!ToSet(b)
      OBVIOUS
    <3>3. PICK n \in 1 .. Len(t) : t[n] = x
      BY <3>2, InLines
    <3>4. n + 1 \in 1 .. Len(b) /\ b[n + 1] = x
      BY <3>1, <3>3
    <3> QED BY <3>4, InLines
  <2>12. Bill!ToSet(b) \subseteq Bill!ToSet(t) \cup {Head(b)}
    <3> SUFFICES ASSUME NEW x \in Bill!ToSet(b), x # Head(b) PROVE x \in Bill!ToSet(t)
      OBVIOUS
    <3>1. PICK n \in 1 .. Len(b) : b[n] = x
      BY InLines
    <3>2. n # 1
      BY <2>1, <3>1
    <3>3. n - 1 \in 1 .. Len(t) /\ n - 1 + 1 = n
      BY <2>7, <3>2
    <3>4. t[n - 1] = x
      BY <2>7, <3>1, <3>3
    <3>5. t \in Seq(Nat)
      BY <2>7
    <3> QED BY <3>3, <3>4, <3>5, InLines
  <2>13. \A n \in Len(a) + 1 .. Len(z) : z[n] \in Bill!ToSet(b)
    <3>1. \A n \in Len(a) + 1 .. Len(z) : n \in Len(h) + 1 .. Len(h) + Len(t)
      BY <2>4, <2>6, <2>7, <2>8
    <3> QED BY <2>8, <2>11, <3>1
  <2> QED BY <1>1, <1>4, <2>8, <2>9, <2>10, <2>11, <2>12, <2>13 DEF RecordsOf
<1> QED BY <1>3, <1>4

\* The files z are the files s with some of the lines `lines` appended to f, by some of them
\* whole and, when the process dies, a part of one more.
Appends(s, z, f, lines) ==
  /\ z \in [FileSet -> Seq(Nat)]
  /\ \A g \in FileSet : g # f => z[g] = s[g]
  /\ Bill!ToSet(z[f]) \subseteq Bill!ToSet(Bill!Appended(f, lines)) \cup {Bill!Torn}
  /\ Bill!ToSet(Bill!Appended(f, lines)) \subseteq Bill!ToSet(z[f])

\* The first lines of the file that is due are appended, all of them or, when the process
\* dies, some and a part of one.
LEMMA Stores ==
  ASSUME NEW k, NEW l, NEW sp, NEW c, SpendInv(k, l, sp, s4, c),
         NEW p \in Processes, c[p].step = "append", NEW f \in FileSet,
         NEW b \in Seq(Nat), Bill!ToSet(b) \subseteq Bill!ToSet(c[p].batch[f]),
         NEW z, Appends(s4, z, f, b)
  PROVE  /\ Kept(sp, z)
         /\ \A g \in FileSet : RecordsOf(s4, g) \subseteq RecordsOf(z, g)
         /\ AllRecords(z) \subseteq AllRecords(s4) \cup Bill!ToSet(c[p].batch[f])
<1>0. /\ z \in [FileSet -> Seq(Nat)]
      /\ \A g \in FileSet : g # f => z[g] = s4[g]
      /\ Bill!ToSet(z[f]) \subseteq Bill!ToSet(Bill!Appended(f, b)) \cup {Bill!Torn}
      /\ Bill!ToSet(Bill!Appended(f, b)) \subseteq Bill!ToSet(z[f])
  BY DEF Appends
<1>1. /\ World(k, l, sp) /\ Kept(sp, s4) /\ Accounts(l, sp, s4, c[p])
      /\ s4 \in [FileSet -> Seq(Nat)]
  BY DEF SpendInv, Kept
<1>2. Sorted(l, sp, s4, c[p]) /\ c[p].upto \in 0 .. Len(l) /\ c[p].registry \in BOOLEAN
  <2>1. Len(l) \in Nat
    BY <1>1 DEF World
  <2> QED BY <1>1, <2>1 DEF Accounts, Commands
<1>3. /\ Bill!ToSet(Bill!Appended(f, b)) \subseteq Bill!ToSet(s4[f]) \cup Bill!ToSet(b)
      /\ RecordsOf(s4, f) \subseteq Bill!ToSet(Bill!Appended(f, b))
  BY <1>1, AppendedTo
<1>5. RecordsOf(z, f) \subseteq RecordsOf(s4, f) \cup Bill!ToSet(c[p].batch[f])
  BY <1>0, <1>3 DEF RecordsOf
<1>6. RecordsOf(s4, f) \subseteq RecordsOf(z, f)
  BY <1>0, <1>3 DEF RecordsOf
<1>7. \A g \in FileSet : g # f => RecordsOf(z, g) = RecordsOf(s4, g)
  BY <1>0 DEF RecordsOf
<1>8. AllRecords(z) \subseteq AllRecords(s4) \cup Bill!ToSet(c[p].batch[f])
  BY <1>5, <1>7 DEF AllRecords
<1>9. ASSUME NEW t \in Bill!ToSet(c[p].batch[f])
      PROVE  t \in Spoke(sp) /\ (f \in Bill!Agents => t \in sp[f])
  <2>1. /\ t \in Spoke(sp)
        /\ BucketOf(sp, Bill!Intervals(SubSeq(l, 1, c[p].upto)), c[p].registry, t) = f
    BY <1>2 DEF Sorted
  <2>2. SubSeq(l, 1, c[p].upto) \in Seq(Events)
    BY <1>1, <1>2, Happened
  <2> QED BY <1>1, <2>1, <2>2, BucketIn
<1>10. AllRecords(z) \subseteq Spoke(sp)
  BY <1>1, <1>8, <1>9 DEF Kept
<1>11. \A a \in Bill!Agents : RecordsOf(z, a) \subseteq sp[a]
  <2> SUFFICES ASSUME NEW a \in Bill!Agents, NEW t \in RecordsOf(z, a) PROVE t \in sp[a]
    OBVIOUS
  <2>1. a \in FileSet
    BY DEF FileSet
  <2>2. RecordsOf(s4, a) \subseteq sp[a]
    BY <1>1 DEF Kept
  <2>3. CASE a # f
    BY <1>7, <2>1, <2>2, <2>3
  <2>4. CASE a = f
    BY <1>5, <1>9, <2>2, <2>4
  <2> QED BY <2>3, <2>4
<1>12. z \in [FileSet -> Seq(Nat)]
  BY <1>0
<1>13. \A g \in FileSet : RecordsOf(s4, g) \subseteq RecordsOf(z, g)
  BY <1>6, <1>7
<1> QED BY <1>8, <1>10, <1>11, <1>12, <1>13 DEF Kept

LEMMA BillAppends ==
  ASSUME Billed, NEW p \in Processes, Bill!appendRecords(p)
  PROVE  Billed' /\ Bill!AppendStep
<1>1. PICK k, l, sp, s, c : k = s1 /\ l = s2 /\ sp = s3 /\ s = s4 /\ c = s5
  OBVIOUS
<1>2. /\ SpendInv(k, l, sp, s, c) /\ Kept(sp, s) /\ Accounts(l, sp, s, c[p]) /\ World(k, l, sp)
      /\ s \in [FileSet -> Seq(Nat)]
  BY <1>1 DEF Billed, SpendInv, Kept
<1>3. PICK b : b = c[p]
  OBVIOUS
<1>4. b.step = "append" /\ s1' = k /\ s2' = l /\ s3' = sp
  BY <1>1, <1>3 DEF Bill!appendRecords, Bill!world, Bill!At
<1>5. PICK f \in FileSet :
        /\ s4' = [s EXCEPT ![f] = Bill!Appended(f, b.batch[f])]
        /\ s5' = [c EXCEPT ![p] =
             [b EXCEPT !.batch[f] = <<>>,
                       !.due = IF Bill!Glued(f, b.batch[f]) THEN b.due \ {Head(b.batch[f])} ELSE b.due]]
  <2>1. PICK f \in Bill!ToSet(Bill!Files) :
       /\ s4' = [s EXCEPT ![f] = Bill!Appended(f, b.batch[f])]
       /\ Bill!Step(p, [b EXCEPT !.batch[f] = <<>>,
                     !.due = IF Bill!Glued(f, b.batch[f]) THEN @ \ {Head(b.batch[f])} ELSE @])
    BY <1>1, <1>3 DEF Bill!appendRecords
  <2> QED BY <1>1, <2>1, FilesAre DEF Bill!Step
<1>6. PICK lines, due :
        /\ lines = b.batch[f]
        /\ due = IF Bill!Glued(f, lines) THEN b.due \ {Head(lines)} ELSE b.due
  OBVIOUS
<1>7. PICK d : d = [b EXCEPT !.batch[f] = <<>>, !.due = due]
  OBVIOUS
<1>8. b \in Commands /\ lines \in Seq(Nat) /\ due \subseteq b.due
  BY <1>2, <1>3, <1>6 DEF Accounts, Commands
<1>9. /\ d \in Commands /\ d.step = "append" /\ d.due = due /\ d.upto = b.upto
      /\ d.registry = b.registry /\ d.file = b.file /\ d.read = b.read
      /\ d.batch[f] = <<>> /\ \A g \in FileSet : g # f => d.batch[g] = b.batch[g]
  <2>1. PICK batch : batch = [b.batch EXCEPT ![f] = <<>>]
    OBVIOUS
  <2>2. b.batch \in [FileSet -> Seq(Nat)]
    BY <1>8 DEF Commands
  <2>3. /\ batch \in [FileSet -> Seq(Nat)] /\ batch[f] = <<>>
        /\ \A g \in FileSet : g # f => batch[g] = b.batch[g]
    BY <2>1, <2>2
  <2>4. d = [b EXCEPT !.batch = batch, !.due = due]
    BY <1>7, <2>1
  <2>5. /\ d \in Commands /\ d.step = b.step /\ d.due = due /\ d.upto = b.upto /\ d.batch = batch
        /\ d.registry = b.registry /\ d.file = b.file /\ d.read = b.read
    <3>1. due \in SUBSET Nat
      BY <1>8 DEF Commands
    <3> QED BY <1>8, <2>3, <2>4, <3>1 DEF Commands
  <2> QED BY <1>4, <2>3, <2>5
<1>10. PICK w, z : w = Bill!Appended(f, lines) /\ z = s4'
  OBVIOUS
<1>11. /\ w \in Seq(Nat) /\ z = [s EXCEPT ![f] = w] /\ z[f] = w
       /\ \A g \in FileSet : g # f => z[g] = s[g]
       /\ Bill!ToSet(lines) \subseteq Bill!ToSet(w) \cup (IF Bill!Glued(f, lines) THEN {Head(lines)} ELSE {})
       /\ \A n \in Len(s[f]) + 1 .. Len(w) : w[n] \in Bill!ToSet(lines)
  BY <1>1, <1>2, <1>5, <1>6, <1>8, <1>10, AppendedTo
<1>12. /\ Kept(sp, z)
       /\ \A g \in FileSet : RecordsOf(s, g) \subseteq RecordsOf(z, g)
       /\ AllRecords(z) \subseteq AllRecords(s) \cup Bill!ToSet(lines)
  <2>1. SpendInv(k, l, sp, s4, c) /\ c[p].step = "append"
    BY <1>1, <1>2, <1>3, <1>4
  <2>2. /\ Bill!ToSet(lines) = Bill!ToSet(c[p].batch[f])
        /\ Appends(s4, z, f, lines)
    BY <1>1, <1>2, <1>3, <1>6, <1>10, <1>11 DEF Appends
  <2>3. /\ Kept(sp, z)
        /\ \A g \in FileSet : RecordsOf(s4, g) \subseteq RecordsOf(z, g)
        /\ AllRecords(z) \subseteq AllRecords(s4) \cup Bill!ToSet(c[p].batch[f])
    BY <1>8, <2>1, <2>2, Stores
  <2> QED BY <1>1, <2>2, <2>3
<1>13. Sorted(l, sp, s, b) /\ b.due \subseteq AllRecords(s) \cup Batched(b)
  BY <1>2, <1>3, <1>4 DEF Accounts
<1>14. Sorted(l, sp, z, d)
  <2> SUFFICES ASSUME NEW g \in FileSet, NEW t \in Bill!ToSet(d.batch[g])
               PROVE  /\ t \in Spoke(sp) /\ t \notin AllRecords(z)
                      /\ BucketOf(sp, Bill!Intervals(SubSeq(l, 1, d.upto)), d.registry, t) = g
    BY DEF Sorted
  <2>1. g # f
    BY <1>9 DEF Bill!ToSet
  <2>2. t \in Bill!ToSet(b.batch[g])
    BY <1>9, <2>1
  <2>3. /\ t \in Spoke(sp) /\ t \notin AllRecords(s)
        /\ BucketOf(sp, Bill!Intervals(SubSeq(l, 1, d.upto)), d.registry, t) = g
    BY <1>9, <1>13, <2>2 DEF Sorted
  <2>4. t \notin Bill!ToSet(lines)
    BY <1>6, <1>9, <1>13, <2>1, <2>3 DEF Sorted
  <2> QED BY <1>12, <2>3, <2>4
<1>15. due \subseteq AllRecords(z) \cup Batched(d)
  <2> SUFFICES ASSUME NEW t \in due, t \notin AllRecords(z) PROVE t \in Batched(d)
    OBVIOUS
  <2>1. t \notin AllRecords(s)
    BY <1>12 DEF AllRecords
  <2>2. PICK g \in FileSet : t \in Bill!ToSet(b.batch[g])
    BY <1>8, <1>13, <2>1 DEF Batched
  <2>3. g # f
    <3> SUFFICES ASSUME g = f PROVE FALSE
      OBVIOUS
    <3>1. t \in Bill!ToSet(lines)
      BY <1>6, <2>2
    <3>2. ~(Bill!Glued(f, lines) /\ t = Head(lines))
      BY <1>6
    <3>3. t \in Bill!ToSet(w)
      BY <1>11, <3>1, <3>2
    <3>4. t # Bill!Torn
      <4>1. t \in Spoke(sp)
        BY <1>13, <2>2 DEF Sorted
      <4>2. t \in 1 .. k /\ k \in 1 .. MaxTime
        BY <1>2, <4>1, Speakers DEF World, Moments
      <4> QED BY <4>2 DEF Bill!Torn
    <3>5. t \in RecordsOf(z, f)
      BY <1>11, <3>3, <3>4 DEF RecordsOf
    <3> QED BY <3>5 DEF AllRecords
  <2> QED BY <1>9, <2>2, <2>3 DEF Batched
<1>16. Accounts(l, sp, z, d)
  <2>1. b.upto <= Len(l) /\ b.file = 1 /\ b.read = <<>> /\ ItemsLast(b.read)
    BY <1>2, <1>3, <1>4 DEF Accounts
  <2> QED BY <1>9, <1>14, <1>15, <2>1 DEF Accounts
<1>17. SpendInv(k, l, sp, z, [c EXCEPT ![p] = d])
  <2>1. Harvesting(c[p]) /\ c[p].step = "append"
    BY <1>3, <1>4 DEF Harvesting
  <2> QED BY <1>2, <1>12, <1>16, <2>1, StepOf
<1>18. s5' = [c EXCEPT ![p] = d]
  BY <1>5, <1>6, <1>7
<1>19. Billed'
  BY <1>4, <1>10, <1>17, <1>18 DEF Billed
<1>20. Bill!AppendStep
  <2>1. ASSUME NEW g \in FileSet, Len(z[g]) > Len(s[g]), NEW n \in Len(s[g]) + 1 .. Len(z[g])
        PROVE  z[g][n] \notin AllRecords(s)
    <3>1. g = f
      <4> SUFFICES ASSUME g # f PROVE FALSE
        OBVIOUS
      <4>1. z[g] = s[g] /\ Len(s[g]) \in Nat
        BY <1>2, <1>11
      <4> QED BY <2>1, <4>1
    <3>2. z[g][n] \in Bill!ToSet(lines)
      BY <1>11, <3>1
    <3> QED BY <1>6, <1>13, <3>2 DEF Sorted
  <2>2. Bill!Stored = AllRecords(s) /\ s4' = z
    BY <1>1, <1>2, <1>10, StoredIs
  <2> QED BY <1>1, <2>1, <2>2, FilesAre, Zenon DEF Bill!AppendStep
<1> QED BY <1>19, <1>20

LEMMA NoHarvest ==
  ASSUME NEW l, NEW sp, NEW s
  PROVE  Accounts(l, sp, s, Bill!Idle) /\ ~Harvesting(Bill!Idle)
<1>1. Bill!NoLines \in [FileSet -> Seq(Nat)]
  BY FilesAre DEF Bill!NoLines
<1>2. 1 \in 1 .. Len(Bill!Files)
  BY FilesAre
<1>3. Bill!Idle \in Commands
  BY <1>1, <1>2 DEF Bill!Idle, Commands
<1>4. /\ Bill!Idle.step = "idle" /\ Bill!Idle.due = {} /\ Bill!Idle.file = 1
      /\ Bill!Idle.read = <<>> /\ Len(Bill!Idle.read) = 0
  BY DEF Bill!Idle
<1> QED BY <1>3, <1>4 DEF Accounts, ItemsLast, Harvesting

LEMMA BillDies ==
  ASSUME Billed, NEW p \in Processes, Bill!Crash(p)
  PROVE  Billed' /\ Bill!AppendStep
<1>1. PICK k, l, sp, s, c : k = s1 /\ l = s2 /\ sp = s3 /\ s = s4 /\ c = s5
  OBVIOUS
<1>2. /\ SpendInv(k, l, sp, s, c) /\ Kept(sp, s) /\ Accounts(l, sp, s, c[p]) /\ World(k, l, sp)
      /\ s \in [FileSet -> Seq(Nat)]
  BY <1>1 DEF Billed, SpendInv, Kept
<1>3. /\ s1' = k /\ s2' = l /\ s3' = sp /\ s5' = [c EXCEPT ![p] = Bill!Idle]
  BY <1>1 DEF Bill!Crash, Bill!world, Bill!Step
<1>4. PICK z : z = s4'
  OBVIOUS
<1>5. Accounts(l, sp, z, Bill!Idle) /\ ~Harvesting(Bill!Idle)
  BY NoHarvest
<1>6. CASE z = s
  <2>1. \A f \in FileSet : RecordsOf(s, f) \subseteq RecordsOf(z, f)
    BY <1>6
  <2>2. SpendInv(k, l, sp, z, [c EXCEPT ![p] = Bill!Idle])
    BY <1>2, <1>5, <1>6, <2>1, StepOf
  <2>3. \A g \in FileSet : ~(Len(z[g]) > Len(s[g]))
    <3>1. \A g \in FileSet : Len(s[g]) \in Nat
      BY <1>2
    <3> QED BY <1>6, <3>1
  <2>4. Bill!AppendStep
    BY <1>1, <1>4, <2>3, FilesAre, Zenon DEF Bill!AppendStep
  <2> QED BY <1>3, <1>4, <2>2, <2>4 DEF Billed
<1>7. ASSUME z # s
      PROVE  /\ c[p].step = "append"
             /\ \E f \in FileSet, n \in Nat :
                  /\ n < Len(c[p].batch[f])
                  /\ z = [s EXCEPT ![f] = Bill!Appended(f, SubSeq(c[p].batch[f], 1, n)) \o <<Bill!Torn>>]
  <2>1. c[p].step = "append"
    BY <1>1, <1>4, <1>7 DEF Bill!Crash, Bill!At
  <2>2. PICK f \in Bill!ToSet(Bill!Files), n \in 0 .. MaxTime :
          /\ n < Len(c[p].batch[f])
          /\ z = [s EXCEPT ![f] = Bill!Appended(f, SubSeq(c[p].batch[f], 1, n)) \o <<Bill!Torn>>]
    BY <1>1, <1>4, <1>7 DEF Bill!Crash
  <2>3. n \in Nat /\ f \in FileSet
    BY FilesAre, Distinct
  <2> QED BY <2>1, <2>2, <2>3
<1>8. CASE z # s
  <2>1. PICK f \in FileSet, n \in Nat :
          /\ n < Len(c[p].batch[f])
          /\ z = [s EXCEPT ![f] = Bill!Appended(f, SubSeq(c[p].batch[f], 1, n)) \o <<Bill!Torn>>]
    BY <1>7, <1>8
  <2>2. c[p].step = "append" /\ Sorted(l, sp, s, c[p]) /\ c[p].batch[f] \in Seq(Nat)
    BY <1>2, <1>7, <1>8 DEF Accounts, Commands
  <2>3. PICK a, b, w : a = SubSeq(c[p].batch[f], 1, n) /\ b = Bill!Appended(f, a) /\ w = b \o <<Bill!Torn>>
    OBVIOUS
  <2>4. a \in Seq(Nat) /\ Bill!ToSet(a) \subseteq Bill!ToSet(c[p].batch[f])
    <3>1. PICK all : all = c[p].batch[f]
      OBVIOUS
    <3>2. all \in Seq(Nat) /\ Len(all) \in Nat /\ n < Len(all)
      BY <2>1, <2>2, <3>1
    <3>3. n \in 0 .. Len(all)
      BY <3>2
    <3> QED BY <2>3, <3>1, <3>2, <3>3, FirstLines
  <2>5. /\ b \in Seq(Nat) /\ \A i \in Len(s[f]) + 1 .. Len(b) : b[i] \in Bill!ToSet(a)
    BY <1>1, <1>2, <2>3, <2>4, AppendedTo
  <2>6. <<Bill!Torn>> \in Seq(Nat) /\ Len(<<Bill!Torn>>) = 1 /\ Bill!ToSet(<<Bill!Torn>>) = {Bill!Torn}
    BY DEF Bill!Torn, Bill!ToSet
  <2>7. /\ w \in Seq(Nat) /\ Len(w) = Len(b) + 1 /\ Bill!ToSet(w) = Bill!ToSet(b) \cup {Bill!Torn}
        /\ w[Len(b) + 1] = Bill!Torn /\ \A i \in 1 .. Len(b) : w[i] = b[i]
    <3>1. PICK e : e = <<Bill!Torn>>
      OBVIOUS
    <3>2. e \in Seq(Nat) /\ Len(e) = 1 /\ Bill!ToSet(e) = {Bill!Torn} /\ w = b \o e
      BY <2>3, <2>6, <3>1
    <3>3. b \in Seq(Nat) /\ Len(b) \in Nat
      BY <2>5
    <3>4. /\ w \in Seq(Nat) /\ Len(w) = Len(b) + Len(e) /\ Bill!ToSet(w) = Bill!ToSet(b) \cup Bill!ToSet(e)
          /\ \A i \in Len(b) + 1 .. Len(b) + Len(e) : w[i] \in Bill!ToSet(e)
      BY <3>2, <3>3, Concat
    <3>5. \A i \in 1 .. Len(b) + Len(e) : w[i] = IF i <= Len(b) THEN b[i] ELSE e[i - Len(b)]
      BY <3>2, <3>3, ConcatProperties
    <3>6. Len(b) + 1 \in Len(b) + 1 .. Len(b) + Len(e)
      BY <3>2, <3>3
    <3>7. \A i \in 1 .. Len(b) : i \in 1 .. Len(b) + Len(e) /\ i <= Len(b)
      BY <3>2, <3>3
    <3> QED BY <3>2, <3>4, <3>5, <3>6, <3>7
  <2>8. /\ z = [s EXCEPT ![f] = w] /\ z[f] = w /\ \A g \in FileSet : g # f => z[g] = s[g]
    BY <1>2, <2>1, <2>3
  <2>9. /\ Kept(sp, z)
        /\ \A g \in FileSet : RecordsOf(s, g) \subseteq RecordsOf(z, g)
    <3>1. SpendInv(k, l, sp, s4, c) /\ c[p].step = "append"
      BY <1>1, <1>2, <2>2
    <3>2. /\ Bill!ToSet(z[f]) \subseteq Bill!ToSet(Bill!Appended(f, a)) \cup {Bill!Torn}
          /\ Bill!ToSet(Bill!Appended(f, a)) \subseteq Bill!ToSet(z[f])
      BY <2>3, <2>7, <2>8
    <3>3. Appends(s4, z, f, a)
      BY <1>1, <1>2, <2>7, <2>8, <3>2 DEF Appends
    <3>4. /\ Kept(sp, z) /\ \A g \in FileSet : RecordsOf(s4, g) \subseteq RecordsOf(z, g)
      <4>1. SpendInv(k, l, sp, s4, c)
        BY <3>1
      <4>2. c[p].step = "append"
        BY <3>1
      <4>3. a \in Seq(Nat)
        BY <2>4
      <4>4. Bill!ToSet(a) \subseteq Bill!ToSet(c[p].batch[f])
        BY <2>4
      <4> QED BY <3>3, <4>1, <4>2, <4>3, <4>4, Stores
    <3> QED BY <1>1, <3>4
  <2>10. SpendInv(k, l, sp, z, [c EXCEPT ![p] = Bill!Idle])
    BY <1>2, <1>5, <2>2, <2>9, StepOf
  <2>11. ASSUME NEW g \in FileSet, Len(z[g]) > Len(s[g]), NEW i \in Len(s[g]) + 1 .. Len(z[g])
         PROVE  z[g][i] \notin AllRecords(s)
    <3>1. g = f
      <4> SUFFICES ASSUME g # f PROVE FALSE
        OBVIOUS
      <4>1. z[g] = s[g] /\ Len(s[g]) \in Nat
        BY <1>2, <2>8
      <4> QED BY <2>11, <4>1
    <3>2. Len(s[f]) \in Nat /\ Len(b) \in Nat /\ i \in Len(s[f]) + 1 .. Len(b) + 1 /\ z[g][i] = w[i]
      BY <1>2, <2>5, <2>7, <2>8, <3>1
    <3>3. CASE i = Len(b) + 1
      <4>1. z[g][i] = Bill!Torn
        BY <2>7, <3>2, <3>3
      <4> QED BY <4>1 DEF AllRecords, RecordsOf
    <3>4. CASE i # Len(b) + 1
      <4>1. i \in Len(s[f]) + 1 .. Len(b) /\ i \in 1 .. Len(b)
        BY <3>2, <3>4
      <4>2. z[g][i] \in Bill!ToSet(a)
        BY <2>5, <2>7, <3>2, <4>1
      <4> QED BY <2>2, <2>4, <4>2 DEF Sorted
    <3> QED BY <3>3, <3>4
  <2>12. Bill!Stored = AllRecords(s) /\ s4' = z
    BY <1>1, <1>2, <1>4, StoredIs
  <2>13. Bill!AppendStep
    BY <1>1, <2>11, <2>12, FilesAre, Zenon DEF Bill!AppendStep
  <2> QED BY <1>3, <1>4, <2>10, <2>13 DEF Billed
<1> QED BY <1>6, <1>8

LEMMA BillReleases ==
  ASSUME Billed, NEW p \in Processes, Bill!Release(p)
  PROVE  Billed' /\ UNCHANGED s4
<1>1. PICK k, l, sp, s, c : k = s1 /\ l = s2 /\ sp = s3 /\ s = s4 /\ c = s5
  OBVIOUS
<1>2. /\ SpendInv(k, l, sp, s, c) /\ Kept(sp, s) /\ Accounts(l, sp, s, c[p])
  BY <1>1 DEF Billed, SpendInv
<1>3. PICK b, d : b = c[p] /\ d = [b EXCEPT !.step = "read"]
  OBVIOUS
<1>4. /\ b.step = "append" /\ s1' = k /\ s2' = l /\ s3' = sp /\ s4' = s
      /\ Bill!Due(b) = {} /\ s5' = [c EXCEPT ![p] = d]
  BY <1>1, <1>3 DEF Bill!Release, Bill!world, Bill!At, Bill!Goto, Bill!Step
<1>5. \A f \in FileSet : b.batch[f] = <<>>
  BY <1>4, FilesAre DEF Bill!Due
<1>6. Batched(b) = {}
  BY <1>5 DEF Batched, Bill!ToSet
<1>7. b \in Commands /\ b.due \subseteq AllRecords(s) /\ b.file = 1 /\ b.read = <<>> /\ ItemsLast(b.read)
  BY <1>2, <1>3, <1>4, <1>6 DEF Accounts
<1>8. d \in Commands /\ d.step = "read" /\ d.due = b.due /\ d.file = b.file /\ d.read = b.read
  BY <1>3, <1>7 DEF Commands
<1>9. AllRecords(s) \subseteq Unread(s, d)
  <2> SUFFICES ASSUME NEW f \in FileSet PROVE RecordsOf(s, f) \subseteq Unread(s, d)
    BY DEF AllRecords
  <2>1. PICK j \in 1 .. Len(Bill!Files) : Bill!Files[j] = f
    BY FilesAre
  <2> QED BY <1>7, <1>8, <2>1 DEF Unread
<1>10. \A r \in Bill!ToSet(d.read) : FALSE
  BY <1>7, <1>8 DEF Bill!ToSet
<1>11. Accounts(l, sp, s, d) /\ ~Harvesting(d)
  BY <1>7, <1>8, <1>9, <1>10 DEF Accounts, Harvesting
<1>12. SpendInv(k, l, sp, s, [c EXCEPT ![p] = d])
  BY <1>2, <1>11, StepOf
<1> QED BY <1>1, <1>4, <1>12 DEF Billed

LEMMA BillReads ==
  ASSUME Billed, NEW p \in Processes, Bill!ReadFile(p)
  PROVE  Billed' /\ UNCHANGED s4
<1>1. PICK k, l, sp, s, c : k = s1 /\ l = s2 /\ sp = s3 /\ s = s4 /\ c = s5
  OBVIOUS
<1>2. /\ SpendInv(k, l, sp, s, c) /\ Kept(sp, s) /\ Accounts(l, sp, s, c[p])
      /\ s \in [FileSet -> Seq(Nat)]
  BY <1>1 DEF Billed, SpendInv, Kept
<1>3. PICK b : b = c[p]
  OBVIOUS
<1>4. PICK f, recs : f = Bill!Files[b.file] /\ recs = Bill!readRecords(f)
  OBVIOUS
<1>5. PICK new, file, step :
        /\ new = [n \in DOMAIN recs |-> [file |-> f, msg |-> recs[n]]]
        /\ file = IF b.file = Len(Bill!Files) THEN 1 ELSE b.file + 1
        /\ step = IF b.file = Len(Bill!Files) THEN "report" ELSE "read"
  OBVIOUS
<1>6. PICK d : d = [b EXCEPT !.read = b.read \o new, !.file = file, !.step = step]
  OBVIOUS
<1>7. /\ b.step = "read" /\ s1' = k /\ s2' = l /\ s3' = sp /\ s4' = s
      /\ s5' = [c EXCEPT ![p] = d]
  BY <1>1, <1>3, <1>4, <1>5, <1>6 DEF Bill!ReadFile, Bill!world, Bill!At, Bill!Step
<1>8. /\ b \in Commands /\ ItemsLast(b.read) /\ b.due \subseteq Msgs(b.read) \cup Unread(s, b)
      /\ b.file <= Len(AgentNames) => \A r \in Bill!ToSet(b.read) : r.file \in Bill!Agents
  BY <1>2, <1>3, <1>7 DEF Accounts
<1>9. /\ b.file \in 1 .. Len(Bill!Files) /\ Len(Bill!Files) \in Nat /\ Len(AgentNames) \in Nat
      /\ Len(AgentNames) < Len(Bill!Files)
      /\ b.read \in Seq([file : FileSet, msg : Nat])
  BY <1>8, FilesAre DEF Commands
<1>10. /\ f \in FileSet
       /\ IF b.file <= Len(AgentNames) THEN f \in Bill!Agents ELSE f \in Bill!Items
  BY <1>4, <1>9, FilesAre DEF FileSet
<1>11. recs \in Seq(Nat) /\ Bill!ToSet(recs) = RecordsOf(s, f)
  BY <1>1, <1>2, <1>4, <1>10, Read
<1>12. /\ new \in Seq([file : FileSet, msg : Nat]) /\ Len(new) = Len(recs) /\ Len(recs) \in Nat
       /\ \A n \in 1 .. Len(recs) : new[n] = [file |-> f, msg |-> recs[n]]
  <2>1. PICK m : m = Len(recs)
    OBVIOUS
  <2>2. m \in Nat /\ DOMAIN recs = 1 .. m /\ \A n \in 1 .. m : recs[n] \in Nat
    BY <1>11, <2>1
  <2>3. new = [n \in 1 .. m |-> [file |-> f, msg |-> recs[n]]]
    BY <1>5, <2>2
  <2>4. new \in [1 .. m -> [file : FileSet, msg : Nat]]
    BY <1>10, <2>2, <2>3
  <2>5. new \in Seq([file : FileSet, msg : Nat]) /\ Len(new) = m
    <3>1. PICK S : S = [file : FileSet, msg : Nat]
      OBVIOUS
    <3>2. m \in Nat /\ new \in [1 .. m -> S]
      BY <2>2, <2>4, <3>1
    <3>3. new \in Seq(S) /\ Len(new) = m
      BY <3>2
    <3> QED BY <3>1, <3>3
  <2> QED BY <2>1, <2>2, <2>3, <2>5
<1>13. PICK read : read = b.read \o new
  OBVIOUS
<1>14. /\ read \in Seq([file : FileSet, msg : Nat]) /\ Len(read) = Len(b.read) + Len(new)
       /\ Bill!ToSet(read) = Bill!ToSet(b.read) \cup Bill!ToSet(new)
       /\ \A n \in Len(b.read) + 1 .. Len(b.read) + Len(new) : read[n] \in Bill!ToSet(new)
       /\ \A n \in 1 .. Len(b.read) : read[n] = b.read[n]
       /\ Len(b.read) \in Nat
  <2>1. PICK S : S = [file : FileSet, msg : Nat]
    OBVIOUS
  <2>2. b.read \in Seq(S) /\ new \in Seq(S)
    BY <1>9, <1>12, <2>1
  <2>3. /\ read \in Seq(S) /\ Len(read) = Len(b.read) + Len(new)
        /\ Bill!ToSet(read) = Bill!ToSet(b.read) \cup Bill!ToSet(new)
        /\ \A n \in Len(b.read) + 1 .. Len(b.read) + Len(new) : read[n] \in Bill!ToSet(new)
    BY <1>13, <2>2, Concat
  <2>4. \A i \in 1 .. Len(b.read) + Len(new) : read[i] = IF i <= Len(b.read) THEN b.read[i] ELSE new[i - Len(b.read)]
    BY <1>13, <2>2, ConcatProperties
  <2>5. Len(b.read) \in Nat /\ Len(new) \in Nat
    BY <2>2, LenProperties
  <2>6. \A i \in 1 .. Len(b.read) : i \in 1 .. Len(b.read) + Len(new) /\ i <= Len(b.read)
    BY <2>5
  <2>7. \A i \in 1 .. Len(b.read) : read[i] = b.read[i]
    BY <2>4, <2>6
  <2> QED BY <2>1, <2>3, <2>5, <2>7
<1>15. \A r \in Bill!ToSet(new) : r.file = f
  <2> TAKE r \in Bill!ToSet(new)
  <2>1. PICK n \in 1 .. Len(new) : new[n] = r
    BY <1>12, InLines
  <2>2. r = [file |-> f, msg |-> recs[n]]
    BY <1>12, <2>1
  <2> QED BY <2>2
<1>16. RecordsOf(s, f) \subseteq Msgs(read)
  <2> SUFFICES ASSUME NEW t \in Bill!ToSet(recs) PROVE t \in Msgs(read)
    BY <1>11
  <2>1. PICK n \in 1 .. Len(recs) : recs[n] = t
    BY <1>11, InLines
  <2>2. new[n] \in Bill!ToSet(new) /\ new[n] = [file |-> f, msg |-> t]
    BY <1>12, <2>1, InLines
  <2>3. new[n].msg = t /\ new[n] \in Bill!ToSet(read)
    BY <1>14, <2>2
  <2> QED BY <2>3 DEF Msgs
<1>17. Msgs(b.read) \subseteq Msgs(read)
  BY <1>14 DEF Msgs
<1>18. d \in Commands /\ d.step = step /\ d.due = b.due /\ d.file = file /\ d.read = read
  <2>1. file \in 1 .. Len(Bill!Files)
    BY <1>5, <1>9
  <2>2. step \in {"read", "report"}
    BY <1>5
  <2>3. d = [b EXCEPT !.read = read, !.file = file, !.step = step]
    BY <1>6, <1>13
  <2>4. read \in Seq([file : FileSet, msg : Nat])
    BY <1>14
  <2> QED BY <1>8, <2>1, <2>2, <2>3, <2>4 DEF Commands
<1>19. ASSUME NEW t \in b.due, t \notin Msgs(read)
       PROVE  step = "read" /\ t \in Unread(s, d)
  <2>1. PICK j \in b.file .. Len(Bill!Files) : t \in RecordsOf(s, Bill!Files[j])
    BY <1>8, <1>17, <1>19 DEF Unread
  <2>2. j # b.file
    BY <1>4, <1>16, <1>19, <2>1
  <2>3. b.file # Len(Bill!Files) /\ j \in b.file + 1 .. Len(Bill!Files)
    BY <1>9, <2>2
  <2>4. step = "read" /\ file = b.file + 1
    BY <1>5, <2>3
  <2> QED BY <1>18, <2>1, <2>3, <2>4 DEF Unread
<1>20. d.due \subseteq Msgs(d.read) \cup Unread(s, d) /\ (step = "report" => d.due \subseteq Msgs(d.read))
  BY <1>18, <1>19
<1>21. step = "read" /\ file <= Len(AgentNames) => \A r \in Bill!ToSet(read) : r.file \in Bill!Agents
  <2> SUFFICES ASSUME step = "read", file <= Len(AgentNames), NEW r \in Bill!ToSet(read)
               PROVE  r.file \in Bill!Agents
    OBVIOUS
  <2>1. b.file <= Len(AgentNames)
    BY <1>5, <1>9
  <2> QED BY <1>8, <1>10, <1>14, <1>15, <2>1
<1>22. ItemsLast(read)
  <2> SUFFICES ASSUME NEW j \in 1 .. Len(read), NEW n \in 1 .. Len(read),
                      j < n, read[j].file \in Bill!Items
               PROVE  read[n].file \in Bill!Items
    BY DEF ItemsLast
  <2>1. Len(new) \in Nat /\ Len(b.read) \in Nat
    BY <1>12, <1>14
  <2>2. CASE n \in 1 .. Len(b.read)
    <3>1. j \in 1 .. Len(b.read)
      BY <2>1, <2>2
    <3> QED BY <1>8, <1>14, <2>2, <3>1 DEF ItemsLast
  <2>3. CASE n \notin 1 .. Len(b.read)
    <3>1. n \in Len(b.read) + 1 .. Len(b.read) + Len(new)
      BY <1>14, <2>1, <2>3
    <3>2. read[n].file = f
      BY <1>14, <1>15, <3>1
    <3>3. read[j] \in Bill!ToSet(read)
      BY <1>14, InLines
    <3>4. b.file <= Len(AgentNames) => read[j].file \in Bill!Agents
      BY <1>8, <1>10, <1>14, <1>15, <3>3
    <3>5. ~(b.file <= Len(AgentNames))
      BY <3>4, Distinct
    <3> QED BY <1>10, <3>2, <3>5
  <2> QED BY <2>2, <2>3
<1>23. Accounts(l, sp, s, d) /\ ~Harvesting(d)
  <2>1. step \in {"read", "report"}
    BY <1>5
  <2> QED BY <1>18, <1>20, <1>21, <1>22, <2>1 DEF Accounts, Harvesting
<1>24. SpendInv(k, l, sp, s, [c EXCEPT ![p] = d])
  BY <1>2, <1>23, StepOf
<1> QED BY <1>1, <1>7, <1>24 DEF Billed

\* What the first states of the log and the transcripts can be.
LEMMA BillInit == ASSUME Bill!Init PROVE Billed
<1>1. PICK k, l, sp, s, c : k = s1 /\ l = s2 /\ sp = s3 /\ s = s4 /\ c = s5
  OBVIOUS
<1>2. PICK a : a = AgentNames[1]
  OBVIOUS
<1>3. PICK none : none = Bill!NoLines
  OBVIOUS
<1>4. none \in [FileSet -> Seq(Nat)] /\ \A f \in FileSet : none[f] = <<>> /\ RecordsOf(none, f) = {}
  <2>1. none = [f \in FileSet |-> <<>>]
    BY <1>3, FilesAre DEF Bill!NoLines
  <2>2. Bill!ToSet(<<>>) = {}
    BY DEF Bill!ToSet
  <2> QED BY <2>1, <2>2 DEF RecordsOf
<1>5. /\ a \in Bill!Agents /\ a \in Bill!Actors /\ ItemIDs[1] \in Bill!Items
      /\ a = Bill!Files[1] /\ Bill!Files[1] \in FileSet
      /\ Bill!Files[Len(Bill!Files)] \in FileSet /\ Bill!Files[Len(Bill!Files)] \notin Bill!Agents
  <2>1. /\ AgentNames \in Seq(Bill!Agents) /\ AgentNames # <<>>
        /\ ItemIDs \in Seq(Bill!Items) /\ ItemIDs # <<>>
    BY BillAssumption DEF Bill!SpendAssumption
  <2>2. Len(AgentNames) \in Nat \ {0} /\ Len(ItemIDs) \in Nat \ {0}
    BY FilesAre
  <2>3. a \in Bill!Agents /\ ItemIDs[1] \in Bill!Items
    BY <1>2, <2>1, <2>2, ElementOfSeq
  <2>4. AgentNames \in Seq(FileSet) /\ ItemIDs \in Seq(FileSet)
    BY <2>1, SeqMonotonic DEF FileSet
  <2>5. Bill!Files[1] = AgentNames[1]
    BY <2>2, <2>4, ConcatProperties DEF Bill!Files
  <2>6. PICK m : m = Len(Bill!Files)
    OBVIOUS
  <2>7. m \in 1 .. Len(Bill!Files) /\ ~(m <= Len(AgentNames))
    BY <2>2, <2>6, FilesAre
  <2>8. Bill!Files[m] \in Bill!Items
    BY <2>7, FilesAre
  <2> QED BY <1>2, <2>3, <2>5, <2>6, <2>8, Distinct DEF FileSet
<1>6. PICK L : L = Bill!Files[Len(Bill!Files)]
  OBVIOUS
<1>7. PICK e : e = [type |-> "claim", actor |-> a, item |-> ItemIDs[1], ts |-> 1]
  OBVIOUS
<1>8. PICK q, q2 : q = <<1>> /\ q2 = <<1, 1>>
  OBVIOUS
<1>9. /\ q \in Seq(Nat) /\ Bill!ToSet(q) = {1} /\ q2 \in Seq(Nat) /\ Bill!ToSet(q2) = {1}
  BY <1>8 DEF Bill!ToSet
<1>10. /\ k = 1
       /\ \/ l = <<e>> /\ sp = [b \in Bill!Agents |-> {}] /\ s = none
          \/ /\ l = <<>> /\ sp = [b \in Bill!Agents |-> IF b = a THEN {1} ELSE {}]
             /\ s = none \/ s = [none EXCEPT ![a] = q2]
                         \/ s = [none EXCEPT ![a] = q, ![L] = q]
       /\ c = [p \in Processes |-> Bill!Idle]
  BY <1>1, <1>2, <1>3, <1>5, <1>6, <1>7, <1>8 DEF Bill!Init
<1>11. World(k, l, sp)
  <2>1. 1 \in 1 .. MaxTime
    BY Distinct
  <2>2. CASE l = <<e>> /\ sp = [b \in Bill!Agents |-> {}]
    <3>1. e \in Events /\ e.ts = 1
      BY <1>5, <1>7 DEF Events
    <3>2. l \in Seq(Events) /\ Len(l) = 1 /\ l[1] = e
      BY <2>2, <3>1
    <3>3. Spoke(sp) = {} /\ sp \in [Bill!Agents -> SUBSET (1 .. 1)]
      BY <2>2 DEF Spoke
    <3>4. Moments(k, l, sp)
      BY <1>10, <2>1, <3>1, <3>2, <3>3, <2>2 DEF Moments
    <3>5. Between(l)
      BY <3>2 DEF Between
    <3> QED BY <3>2, <3>4, <3>5 DEF World
  <2>3. CASE l = <<>> /\ sp = [b \in Bill!Agents |-> IF b = a THEN {1} ELSE {}]
    <3>1. l \in Seq(Events) /\ Len(l) = 0
      BY <2>3
    <3>2. sp \in [Bill!Agents -> SUBSET (1 .. 1)]
      BY <2>3
    <3>3. \A x, y \in Bill!Agents : x # y => sp[x] \cap sp[y] = {}
      BY <2>3
    <3> QED BY <1>10, <2>1, <3>1, <3>2, <3>3 DEF World, Moments, Between
  <2>4. \/ l = <<e>> /\ sp = [b \in Bill!Agents |-> {}]
        \/ l = <<>> /\ sp = [b \in Bill!Agents |-> IF b = a THEN {1} ELSE {}]
    BY <1>10
  <2> QED BY <2>2, <2>3, <2>4
<1>12. Kept(sp, s)
  <2>1. CASE s = none
    <3>1. AllRecords(s) = {}
      BY <1>4, <2>1 DEF AllRecords
    <3>2. \A b \in Bill!Agents : RecordsOf(s, b) = {}
      BY <1>4, <2>1 DEF FileSet
    <3> QED BY <1>4, <2>1, <3>1, <3>2 DEF Kept
  <2>2. CASE s # none
    <3>1. sp = [b \in Bill!Agents |-> IF b = a THEN {1} ELSE {}]
      BY <1>10, <2>2
    <3>2. s = [none EXCEPT ![a] = q2] \/ s = [none EXCEPT ![a] = q, ![L] = q]
      BY <1>10, <2>2
    <3>3. /\ s \in [FileSet -> Seq(Nat)]
          /\ \A f \in FileSet : s[f] = none[f] \/ ((f = a \/ f = L) /\ (s[f] = q \/ s[f] = q2))
      <4>1. a \in FileSet /\ L \in FileSet
        BY <1>5, <1>6
      <4>2. CASE s = [none EXCEPT ![a] = q2]
        BY <1>4, <1>9, <4>1, <4>2
      <4>3. CASE s = [none EXCEPT ![a] = q, ![L] = q]
        BY <1>4, <1>9, <4>1, <4>3
      <4> QED BY <3>2, <4>2, <4>3
    <3>4. \A f \in FileSet : RecordsOf(s, f) \subseteq {1} /\ (f # a /\ f # L => RecordsOf(s, f) = {})
      <4> TAKE f \in FileSet
      <4>1. CASE s[f] = none[f]
        BY <1>4, <4>1 DEF RecordsOf
      <4>2. CASE (f = a \/ f = L) /\ (s[f] = q \/ s[f] = q2)
        BY <1>9, <4>2 DEF RecordsOf
      <4> QED BY <3>3, <4>1, <4>2
    <3>5. 1 \in Spoke(sp)
      BY <1>5, <3>1 DEF Spoke
    <3>6. AllRecords(s) \subseteq Spoke(sp)
      BY <3>4, <3>5 DEF AllRecords
    <3>7. ASSUME NEW b \in Bill!Agents PROVE RecordsOf(s, b) \subseteq sp[b]
      <4>1. b \in FileSet /\ b # L
        BY <1>5, <1>6 DEF FileSet
      <4>2. CASE b = a
        BY <3>1, <3>4, <4>1, <4>2
      <4>3. CASE b # a
        BY <3>4, <4>1, <4>3
      <4> QED BY <4>2, <4>3
    <3> QED BY <3>3, <3>6, <3>7 DEF Kept
  <2> QED BY <2>1, <2>2
<1>13. DOMAIN c = Processes /\ \A p \in Processes : c[p] = Bill!Idle
  BY <1>10
<1>14. OneHarvest(c) /\ \A p \in Processes : Accounts(l, sp, s, c[p])
  BY <1>13, NoHarvest DEF OneHarvest
<1> QED BY <1>1, <1>11, <1>12, <1>13, <1>14 DEF Billed, SpendInv

\* A step that appends nothing has nothing to answer for.
LEMMA NothingNew ==
  ASSUME s4 \in [FileSet -> Seq(Nat)], s4' = s4 \/ s4' = Bill!NoLines
  PROVE  Bill!AppendStep
<1>1. PICK s, z : s = s4 /\ z = s4'
  OBVIOUS
<1>2. \A f \in FileSet : Len(s[f]) \in Nat
  BY <1>1
<1>3. \A f \in FileSet : ~(Len(z[f]) > Len(s[f]))
  <2> TAKE f \in FileSet
  <2>1. CASE z = s
    BY <1>2, <2>1
  <2>2. CASE z = Bill!NoLines
    <3>1. z[f] = <<>> /\ Len(z[f]) = 0
      BY <2>2, FilesAre DEF Bill!NoLines
    <3> QED BY <1>2, <3>1
  <2> QED BY <1>1, <2>1, <2>2
<1> QED BY <1>1, <1>3, FilesAre DEF Bill!AppendStep

LEMMA BillNext == ASSUME Billed, Bill!Next PROVE Billed' /\ Bill!AppendStep
<1>1. s4 \in [FileSet -> Seq(Nat)]
  BY DEF Billed, SpendInv, Kept
<1>2. CASE Bill!Work
  BY <1>1, <1>2, BillWork, NothingNew
<1>3. ASSUME NEW p \in Processes, Bill!Run(p) PROVE Billed' /\ Bill!AppendStep
  <2>1. CASE Bill!Command(p) \/ Bill!acquireHarvestLock(p) \/ Bill!Report(p)
    BY <1>1, <2>1, BillBegins, NothingNew
  <2>2. CASE Bill!Clear(p)
    BY <1>1, <2>2, BillClears, NothingNew
  <2>3. CASE Bill!Snapshot(p)
    BY <1>1, <2>3, BillSees, NothingNew
  <2>4. CASE Bill!Scan(p)
    BY <1>1, <2>4, BillScans, NothingNew
  <2>5. CASE Bill!appendRecords(p)
    BY <2>5, BillAppends
  <2>6. CASE Bill!Release(p)
    BY <1>1, <2>6, BillReleases, NothingNew
  <2>7. CASE Bill!ReadFile(p)
    BY <1>1, <2>7, BillReads, NothingNew
  <2> QED BY <1>3, <2>1, <2>2, <2>3, <2>4, <2>5, <2>6, <2>7 DEF Bill!Run
<1>4. ASSUME NEW p \in Processes, Bill!Crash(p) PROVE Billed' /\ Bill!AppendStep
  BY <1>4, BillDies
<1> QED BY <1>2, <1>3, <1>4 DEF Bill!Next

LEMMA BillIdle == ASSUME Billed, UNCHANGED Bill!vars PROVE Billed' /\ Bill!AppendStep
<1>1. s1' = s1 /\ s2' = s2 /\ s3' = s3 /\ s4' = s4 /\ s5' = s5
  BY DEF Bill!vars
<1>2. s4 \in [FileSet -> Seq(Nat)]
  BY DEF Billed, SpendInv, Kept
<1> QED BY <1>1, <1>2, NothingNew DEF Billed

LEMMA BillKeepsInv == Bill!Spec => []Billed
<1>1. Bill!Init => Billed
  BY BillInit
<1>2. Billed /\ [Bill!Next]_Bill!vars => Billed'
  BY BillNext, BillIdle
<1> QED BY <1>1, <1>2, PTL DEF Bill!Spec

LEMMA BillStoresOnce == Bill!Spec => [][Bill!AppendStep]_Bill!vars
<1>1. Billed /\ [Bill!Next]_Bill!vars => [Bill!AppendStep]_Bill!vars
  BY BillNext
<1> QED BY <1>1, BillKeepsInv, PTL DEF Bill!Spec

LEMMA BillTyped == ASSUME Billed PROVE Bill!TypeOK
<1>1. PICK k, l, sp, s, c : k = s1 /\ l = s2 /\ sp = s3 /\ s = s4 /\ c = s5
  OBVIOUS
<1>2. /\ World(k, l, sp) /\ Moments(k, l, sp) /\ Kept(sp, s) /\ OneHarvest(c)
      /\ s \in [FileSet -> Seq(Nat)]
  BY <1>1 DEF Billed, SpendInv, World, Kept
<1>3. k \in 1 .. MaxTime /\ Len(l) <= MaxTime /\ sp \in [Bill!Agents -> SUBSET (1 .. k)]
  <2>1. Len(l) \in Nat /\ k \in 1 .. MaxTime /\ Len(l) <= k
    BY <1>2 DEF World, Moments
  <2> QED BY <1>2, <2>1, Distinct DEF Moments
<1>4. ASSUME NEW f \in Bill!ToSet(Bill!Files)
      PROVE  Bill!ToSet(s[f]) \subseteq Spoke(sp) \cup {Bill!Torn}
  <2>1. f \in FileSet
    BY FilesAre
  <2>2. RecordsOf(s, f) \subseteq Spoke(sp)
    BY <1>2, <2>1 DEF Kept, AllRecords
  <2> QED BY <2>2 DEF RecordsOf
<1>5. \A a \in Bill!Agents : Bill!ToSet(s[a]) \subseteq sp[a] \cup {Bill!Torn}
  <2> SUFFICES ASSUME NEW a \in Bill!Agents PROVE Bill!ToSet(s[a]) \subseteq sp[a] \cup {Bill!Torn}
    OBVIOUS
  <2>1. RecordsOf(s, a) \subseteq sp[a]
    BY <1>2 DEF Kept
  <2> QED BY <2>1 DEF RecordsOf
<1>6. PICK H : H = {p \in Processes : c[p].step \in {"clear", "snapshot", "scan", "append"}}
  OBVIOUS
<1>7. H = {} \/ \E p : H = {p}
  <2>1. \A p, q \in H : p = q
    BY <1>2, <1>6 DEF OneHarvest, Harvesting
  <2> QED BY <2>1
<1>8. Cardinality(H) <= 1
  <2>1. CASE H = {}
    <3>1. Cardinality({}) = 0
      BY FS_EmptySet
    <3> QED BY <2>1, <3>1
  <2>2. CASE \E p : H = {p}
    <3>1. PICK p : H = {p}
      BY <2>2
    <3>2. Cardinality({p}) = 1
      BY FS_Singleton
    <3> QED BY <3>1, <3>2
  <2> QED BY <1>7, <2>1, <2>2
<1>9. Bill!Cardinality({p \in Processes : c[p].step \in {"clear", "snapshot", "scan", "append"}}) <= 1
  BY <1>6, <1>8, BillSizes
<1>10. Bill!Spoken = Spoke(sp)
  BY <1>1 DEF Bill!Spoken, Spoke
<1> QED BY <1>1, <1>3, <1>4, <1>5, <1>9, <1>10 DEF Bill!TypeOK

LEMMA BillComplete == ASSUME Billed PROVE Bill!HarvestComplete
<1>1. ASSUME NEW p \in Processes, Bill!At(p, "report")
      PROVE  s5[p].due \subseteq {r.msg : r \in Bill!ToSet(s5[p].read)}
  <2>1. Accounts(s2, s3, s4, s5[p]) /\ s5[p].step = "report"
    BY <1>1 DEF Billed, SpendInv, Bill!At
  <2> QED BY <2>1 DEF Accounts, Msgs
<1> QED BY <1>1 DEF Bill!HarvestComplete

LEMMA BillOwns == ASSUME Billed PROVE Bill!OwnWork
<1>1. ASSUME NEW p \in Processes, Bill!At(p, "append"),
             NEW f \in Bill!ToSet(Bill!Files), NEW t \in Bill!ToSet(s5[p].batch[f])
      PROVE  LET a == Bill!Speaker(t)
                 told == Bill!ToSet(SubSeq(s2, 1, s5[p].upto)) IN
             /\ \A e : LastHeld(s2, told, a, t, e) => f = e.item
             /\ f \in Bill!Items => (s5[p].registry /\ f = Assigned[a]) \/ HadIt(s2, told, a, t, f)
  <2>1. PICK k, l, sp, s, c : k = s1 /\ l = s2 /\ sp = s3 /\ s = s4 /\ c = s5[p]
    OBVIOUS
  <2>2. /\ World(k, l, sp) /\ Accounts(l, sp, s, c) /\ c.step = "append" /\ f \in FileSet
    BY <1>1, <2>1, FilesAre DEF Billed, SpendInv, Bill!At
  <2>3. PICK u, r : u = c.upto /\ r = c.registry
    OBVIOUS
  <2>4. /\ t \in Spoke(sp) /\ r \in BOOLEAN /\ u \in 0 .. Len(l)
        /\ f = BucketOf(sp, Bill!Intervals(SubSeq(l, 1, u)), r, t)
    <3>1. Len(l) \in Nat
      BY <2>2 DEF World
    <3> QED BY <1>1, <2>1, <2>2, <2>3, <3>1 DEF Accounts, Commands, Sorted
  <2>5. Owned(l, sp, u, r, t, f)
    BY <2>2, <2>4, IsOwned
  <2>6. Bill!Speaker(t) = SpeakerOf(sp, t)
    BY <2>1 DEF Bill!Speaker, SpeakerOf
  <2> QED BY <2>1, <2>3, <2>5, <2>6 DEF Owned
<1>2. ASSUME NEW p \in Processes, Bill!At(p, "append"),
             NEW f \in Bill!ToSet(Bill!Files), NEW t \in Bill!ToSet(s5[p].batch[f])
      PROVE  LET a == Bill!Speaker(t)
                 told == Bill!ToSet(SubSeq(s2, 1, s5[p].upto))
                 claims == {e \in Bill!ToSet(s2) : e.type = "claim" /\ e.actor = a /\ e.ts < t}
                 ends(e, by) == {g \in Bill!ToSet(s2) :
                   g.item = e.item /\ g.ts > e.ts /\ g.type = "release" /\ g.actor \in by}
                 again(e) == \E g \in claims \cup told :
                   g.type = "claim" /\ g.actor = a /\ g.item = e.item /\ g.ts > e.ts IN
             /\ \A e \in claims \cap told :
                  /\ \A g \in claims : g.ts <= e.ts
                  /\ \A g \in ends(e, Bill!Actors) : g.ts > t
                  /\ ~(again(e) /\ ends(e, Bill!Actors \ {a}) # {})
                  => f = e.item
             /\ f \in Bill!Items =>
                  \/ s5[p].registry /\ f = Assigned[a]
                  \/ \E e \in claims : e.item = f /\ \A g \in ends(e, {a}) \cap told : g.ts > t
  <2>1. PICK a, told : a = Bill!Speaker(t) /\ told = Bill!ToSet(SubSeq(s2, 1, s5[p].upto))
    OBVIOUS
  <2>2. /\ \A e : LastHeld(s2, told, a, t, e) => f = e.item
        /\ f \in Bill!Items => (s5[p].registry /\ f = Assigned[a]) \/ HadIt(s2, told, a, t, f)
    BY <1>1, <1>2, <2>1
  <2>3. ASSUME NEW e \in PriorClaims(s2, a, t) \cap told,
               \A g \in PriorClaims(s2, a, t) : g.ts <= e.ts,
               \A g \in EndsOf(s2, e, Bill!Actors) : g.ts > t,
               ~(Again(s2, told, a, t, e) /\ EndsOf(s2, e, Bill!Actors \ {a}) # {})
        PROVE  f = e.item
    BY <2>2, <2>3 DEF LastHeld
  <2>4. f \in Bill!Items =>
          \/ s5[p].registry /\ f = Assigned[a]
          \/ \E e \in PriorClaims(s2, a, t) : e.item = f /\ \A g \in EndsOf(s2, e, {a}) \cap told : g.ts > t
    BY <2>2 DEF HadIt
  <2> QED BY <2>1, <2>3, <2>4, Zenon DEF PriorClaims, EndsOf, Again
<1> QED BY <1>2, Zenon DEF Bill!OwnWork

(***************************************************************************)
(* The figures.                                                            *)
(***************************************************************************)
\* What the fold over the rows adds up is whatever adds up row by row.
AnyOf(S) == CHOOSE x \in S : TRUE

AddsUp(gr, D, G) ==
  /\ D = DOMAIN gr /\ G = [S \in SUBSET D |-> G[S]] /\ G[{}] = 0
  /\ \A S \in SUBSET D : \A x \in S : G[S] = gr[x] + G[S \ {x}]

LEMMA SumIs ==
  ASSUME NEW gr, NEW D, IsFiniteSet(D), NEW G, AddsUp(gr, D, G)
  PROVE  Bill!sumGroups(gr) = G[D]
<1> DEFINE Sums(h) == [S \in SUBSET D |-> IF S = {} THEN 0 ELSE gr[AnyOf(S)] + h[S \ {AnyOf(S)}]]
<1>0. /\ D = DOMAIN gr /\ G = [S \in SUBSET D |-> G[S]] /\ G[{}] = 0
      /\ \A S \in SUBSET D : \A x \in S : G[S] = gr[x] + G[S \ {x}]
  BY DEF AddsUp
<1>1. G = Sums(G)
  <2>1. \A S \in SUBSET D : G[S] = IF S = {} THEN 0 ELSE gr[AnyOf(S)] + G[S \ {AnyOf(S)}]
    <3> TAKE S \in SUBSET D
    <3>1. CASE S = {}
      BY <1>0, <3>1
    <3>2. CASE S # {}
      <4>1. AnyOf(S) \in S /\ AnyOf(S) \in D
        BY <3>2 DEF AnyOf
      <4> QED BY <1>0, <3>2, <4>1
    <3> QED BY <3>1, <3>2
  <2> QED BY <1>0, <2>1
<1>2. PICK h : h = CHOOSE g : g = Sums(g)
  OBVIOUS
<1>3. h = Sums(h)
  <2> HIDE DEF Sums
  <2> QED BY <1>1, <1>2
<1>4. Bill!sumGroups(gr) = h[D]
  BY <1>0, <1>2 DEF Bill!sumGroups, Bill!FoldFunction, Bill!FoldFunctionOnSet, Bill!MapThenFoldSet, AnyOf
<1>5. \A S \in SUBSET D : h[S] = IF S = {} THEN 0 ELSE gr[AnyOf(S)] + h[S \ {AnyOf(S)}]
  BY <1>3
<1>6. \A S \in SUBSET D : h[S] = G[S]
  <2> SUFFICES ASSUME NEW S \in SUBSET D, h[S] # G[S] PROVE FALSE
    OBVIOUS
  <2>1. \A T \in SUBSET D : IsFiniteSet(T) /\ Cardinality(T) \in Nat
    BY FS_Subset, FS_CardinalityType
  <2>2. PICK N : N = {n \in Nat : \E T \in SUBSET D : h[T] # G[T] /\ Cardinality(T) = n}
    OBVIOUS
  <2>3. N \in SUBSET Nat /\ N # {}
    BY <2>1, <2>2
  <2>4. PICK n \in N : \A m \in N : n <= m
    BY <2>3, Least
  <2>5. PICK T \in SUBSET D : h[T] # G[T] /\ Cardinality(T) = n
    BY <2>2, <2>4
  <2>6. T # {}
    BY <1>0, <1>5, <2>5
  <2>7. PICK x : x = AnyOf(T)
    OBVIOUS
  <2>8. x \in T /\ x \in D
    BY <2>6, <2>7 DEF AnyOf
  <2>9. PICK U : U = T \ {x}
    OBVIOUS
  <2>10. U \in SUBSET D /\ Cardinality(U) = Cardinality(T) - 1
    BY <2>1, <2>8, <2>9, FS_RemoveElement
  <2>11. h[U] = G[U]
    <3> SUFFICES ASSUME h[U] # G[U] PROVE FALSE
      OBVIOUS
    <3>1. Cardinality(U) \in N
      BY <2>1, <2>2, <2>10
    <3> QED BY <2>1, <2>3, <2>4, <2>5, <2>10, <3>1
  <2>12. h[T] = gr[x] + h[U] /\ G[T] = gr[x] + G[U]
    BY <1>0, <1>5, <2>6, <2>7, <2>8, <2>9
  <2> QED BY <2>5, <2>11, <2>12
<1> QED BY <1>4, <1>6

\* When no record is in two rows, the sizes of the rows add up to the number of the records
\* that are in one.
InOneRow(K, R) == \A k \in K : R[k] = {} \/ \E x : R[k] = {x}

RowSizes(K, R) == [x \in UNION {R[k] : k \in K} |-> Cardinality({k \in K : x \in R[k]})]
Placed(K, R) == {k \in K : R[k] # {}}

LEMMA RowsAddUp ==
  ASSUME NEW K, IsFiniteSet(K), NEW R, InOneRow(K, R)
  PROVE  Bill!sumGroups(RowSizes(K, R)) = Cardinality(Placed(K, R))
<1> DEFINE In(S) == {k \in K : R[k] \cap S # {}}
<1>0. \A k \in K : R[k] = {} \/ \E x : R[k] = {x}
  BY DEF InOneRow
<1>1. PICK D, gr, B : /\ D = UNION {R[k] : k \in K}
                      /\ gr = RowSizes(K, R) /\ B = Placed(K, R)
  OBVIOUS
<1>2. /\ gr = [x \in D |-> Cardinality({k \in K : x \in R[k]})]
      /\ B = {k \in K : R[k] # {}}
  BY <1>1 DEF RowSizes, Placed
<1>3. PICK G : G = [S \in SUBSET D |-> Cardinality(In(S))]
  OBVIOUS
<1>4. \A S : IsFiniteSet(In(S)) /\ Cardinality(In(S)) \in Nat
  <2> TAKE S
  <2>1. In(S) \in SUBSET K
    OBVIOUS
  <2> HIDE DEF In
  <2> QED BY <2>1, FS_Subset, FS_CardinalityType
<1>5. IsFiniteSet(D)
  <2>1. PICK f : f = [k \in In(D) |-> CHOOSE x : x \in R[k]]
    OBVIOUS
  <2>2. \A k \in In(D) : f[k] \in R[k] /\ f[k] \in D
    BY <1>1, <2>1
  <2>3. \A x \in D : \E k \in In(D) : f[k] = x
    <3> TAKE x \in D
    <3>1. PICK k \in K : x \in R[k]
      BY <1>1
    <3>2. k \in In(D) /\ R[k] = {x}
      BY <1>0, <3>1
    <3> QED BY <2>2, <3>2
  <2>4. f \in Surjection(In(D), D)
    BY <2>1, <2>2, <2>3 DEF Surjection
  <2> HIDE DEF In
  <2> QED BY <1>4, <2>4, FS_Surjection
<1>6. G[{}] = 0
  <2>1. In({}) = {}
    OBVIOUS
  <2> HIDE DEF In
  <2> QED BY <1>3, <2>1, FS_EmptySet
<1>7. ASSUME NEW S \in SUBSET D, NEW x \in D, x \in S PROVE G[S] = gr[x] + G[S \ {x}]
  <2>1. PICK A, C : A = In({x}) /\ C = In(S \ {x})
    OBVIOUS
  <2>2. In(S) = A \cup C
    BY <1>7, <2>1
  <2>3. A \cap C = {}
    BY <1>0, <2>1
  <2>4. A = {k \in K : x \in R[k]}
    BY <2>1
  <2> HIDE DEF In
  <2>5. IsFiniteSet(A) /\ IsFiniteSet(C) /\ Cardinality(A) \in Nat /\ Cardinality(C) \in Nat
    BY <1>4, <2>1
  <2>6. Cardinality(A \cup C) = Cardinality(A) + Cardinality(C) - Cardinality(A \cap C)
    BY <2>5, FS_Union
  <2>7. Cardinality(A \cup C) = Cardinality(A) + Cardinality(C)
    <3>1. Cardinality(A \cap C) = 0
      BY <2>3, FS_EmptySet
    <3> QED BY <2>5, <2>6, <3>1
  <2>8. G[S] = Cardinality(A \cup C) /\ G[S \ {x}] = Cardinality(C) /\ gr[x] = Cardinality(A)
    BY <1>2, <1>3, <2>1, <2>2, <2>4
  <2> QED BY <2>7, <2>8
<1>8. In(D) = B
  BY <1>1, <1>2
<1>9. Bill!sumGroups(gr) = G[D]
  <2>1. AddsUp(gr, D, G)
    <3>1. D = DOMAIN gr /\ G = [S \in SUBSET D |-> G[S]]
      BY <1>2, <1>3
    <3>2. \A S \in SUBSET D : \A x \in S : G[S] = gr[x] + G[S \ {x}]
      <4> SUFFICES ASSUME NEW S \in SUBSET D, NEW x \in S PROVE G[S] = gr[x] + G[S \ {x}]
        OBVIOUS
      <4>1. x \in D
        OBVIOUS
      <4> QED BY <1>7, <4>1
    <3> QED BY <1>6, <3>1, <3>2 DEF AddsUp
  <2> QED BY <1>5, <2>1, SumIs
<1>10. G[D] = Cardinality(B)
  BY <1>3, <1>8
<1> QED BY <1>1, <1>9, <1>10

LEMMA RowIs ==
  ASSUME NEW by \in Bill!Axes, Bill!hasGrandTotal(by), NEW r
  PROVE  IF by \in {"item", "agent"} \/ r.file \in Bill!Items
         THEN \E x : Bill!Rows(by, r) = {x}
         ELSE Bill!Rows(by, r) = {}
<1>1. by \in {"item", "agent", "repo"}
  BY DEF Bill!Axes, Bill!hasGrandTotal
<1>2. CASE by = "item"
  <2>1. Bill!Rows(by, r) = {r.file}
    BY <1>2 DEF Bill!Rows
  <2> QED BY <1>2, <2>1
<1>3. CASE by = "agent"
  <2>1. Bill!Rows(by, r) = {Bill!Speaker(r.msg)}
    BY <1>3 DEF Bill!Rows
  <2> QED BY <1>3, <2>1
<1>4. CASE by = "repo" /\ r.file \in Bill!Items
  <2>1. Bill!Rows(by, r) = {Repo[r.file]}
    BY <1>4 DEF Bill!Rows
  <2> QED BY <1>4, <2>1
<1>5. CASE by = "repo" /\ r.file \notin Bill!Items
  <2>1. Bill!Rows(by, r) = {}
    BY <1>5 DEF Bill!Rows
  <2> QED BY <1>5, <2>1
<1> QED BY <1>1, <1>2, <1>3, <1>4, <1>5

\* Of the records of a message the last one counts, and it is an item's if any of them is.
LEMMA BillTotals == ASSUME Billed PROVE Bill!TotalIsTrue
<1>1. ASSUME NEW p \in Processes, Bill!At(p, "report"), NEW by \in Bill!Axes,
             NEW since \in 1 .. 2, Bill!hasGrandTotal(by)
      PROVE  Bill!sumGroups(Bill!Query(s5[p].read, by, since)) =
               Bill!Cardinality({r.msg : r \in {s \in Bill!ToSet(s5[p].read) :
                 s.msg >= since /\ (by \in {"item", "agent"} \/ s.file \in Bill!Items)}})
  <2>1. PICK read : read = s5[p].read
    OBVIOUS
  <2>2. read \in Seq([file : FileSet, msg : Nat]) /\ ItemsLast(read)
    <3>1. Accounts(s2, s3, s4, s5[p])
      BY DEF Billed, SpendInv
    <3> QED BY <2>1, <3>1 DEF Accounts, Commands
  <2>3. PICK n : n = Len(read)
    OBVIOUS
  <2>4. /\ n \in Nat /\ DOMAIN read = 1 .. n
        /\ \A j \in 1 .. n : read[j].file \in FileSet /\ read[j].msg \in Nat
        /\ \A x : x \in Bill!ToSet(read) <=> \E j \in 1 .. n : read[j] = x
    <3>1. \A j \in 1 .. Len(read) : read[j] \in [file : FileSet, msg : Nat]
      BY <2>2, InLines
    <3>2. \A j \in 1 .. Len(read) : read[j].file \in FileSet /\ read[j].msg \in Nat
      BY <3>1
    <3> QED BY <2>2, <2>3, <3>2, InLines
  <2>5. PICK K : K = {k \in Bill!dedupLastWins(read) : read[k].msg >= since}
    OBVIOUS
  <2>6. \A k : k \in K <=> /\ k \in 1 .. n /\ read[k].msg >= since
                           /\ \A j \in 1 .. n : read[j].msg = read[k].msg => j <= k
    BY <2>4, <2>5 DEF Bill!dedupLastWins
  <2>7. IsFiniteSet(K)
    <3>1. IsFiniteSet(1 .. n)
      BY <2>4, FS_Interval
    <3>2. K \in SUBSET (1 .. n)
      BY <2>6
    <3> QED BY <3>1, <3>2, FS_Subset
  <2>8. PICK R : R = [k \in K |-> Bill!Rows(by, read[k])]
    OBVIOUS
  <2>9. \A k \in K : IF by \in {"item", "agent"} \/ read[k].file \in Bill!Items
                     THEN \E x : R[k] = {x} ELSE R[k] = {}
    BY <1>1, <2>8, RowIs
  <2>10. Bill!Query(read, by, since) = RowSizes(K, R)
    <3>1. UNION {R[k] : k \in K} = UNION {Bill!Rows(by, read[k]) : k \in K}
      BY <2>8
    <3>2. \A x : {k \in K : x \in R[k]} = {k \in K : x \in Bill!Rows(by, read[k])}
      BY <2>8
    <3>3. Bill!Query(read, by, since) =
            [x \in UNION {R[k] : k \in K} |->
              Bill!Cardinality({k \in K : x \in Bill!Rows(by, read[k])})]
      BY <2>5, <3>1 DEF Bill!Query
    <3> QED BY <3>2, <3>3, BillSizes DEF RowSizes
  <2>11. InOneRow(K, R)
    BY <2>9 DEF InOneRow
  <2>12. PICK B : B = Placed(K, R)
    OBVIOUS
  <2>13. Bill!sumGroups(Bill!Query(read, by, since)) = Cardinality(B) /\ IsFiniteSet(B)
    <3>1. B \in SUBSET K
      BY <2>12 DEF Placed
    <3>2. IsFiniteSet(B)
      BY <2>7, <3>1, FS_Subset
    <3> QED BY <2>7, <2>10, <2>11, <2>12, <3>2, RowsAddUp
  <2>14. PICK M : M = {r.msg : r \in {s \in Bill!ToSet(read) :
                    s.msg >= since /\ (by \in {"item", "agent"} \/ s.file \in Bill!Items)}}
    OBVIOUS
  <2>15. \A m : m \in M <=> \E j \in 1 .. n :
           /\ read[j].msg = m /\ m >= since
           /\ by \in {"item", "agent"} \/ read[j].file \in Bill!Items
    BY <2>4, <2>14
  <2>16. \A k : k \in B <=> k \in K /\ (by \in {"item", "agent"} \/ read[k].file \in Bill!Items)
    BY <2>9, <2>12 DEF Placed
  <2>17. PICK f : f = [k \in B |-> read[k].msg]
    OBVIOUS
  <2>18. \A k \in B : f[k] \in M
    BY <2>6, <2>15, <2>16, <2>17
  <2>19. \A j, k \in B : f[j] = f[k] => j = k
    <3> SUFFICES ASSUME NEW j \in B, NEW k \in B, f[j] = f[k] PROVE j = k
      OBVIOUS
    <3>1. j \in 1 .. n /\ k \in 1 .. n /\ read[j].msg = read[k].msg
      BY <2>6, <2>16, <2>17
    <3>2. j <= k /\ k <= j
      BY <2>6, <2>16, <3>1
    <3> QED BY <2>4, <3>1, <3>2
  <2>20. ASSUME NEW m \in M PROVE \E k \in B : f[k] = m
    <3>1. PICK j \in 1 .. n : /\ read[j].msg = m /\ m >= since
                              /\ by \in {"item", "agent"} \/ read[j].file \in Bill!Items
      BY <2>15
    <3>2. PICK T : T = {i \in 1 .. n : read[i].msg = m}
      OBVIOUS
    <3>3. T \in SUBSET Nat /\ T # {} /\ \A i \in T : i <= n
      BY <2>4, <3>1, <3>2
    <3>4. PICK k \in T : \A i \in T : i <= k
      BY <2>4, <3>3, Greatest
    <3>5. k \in 1 .. n /\ read[k].msg = m /\ j <= k /\ k \in K
      BY <2>6, <3>1, <3>2, <3>4
    <3>6. by \in {"item", "agent"} \/ read[k].file \in Bill!Items
      <4>1. CASE j = k
        BY <3>1, <4>1
      <4>2. CASE j # k
        <5>1. j < k
          BY <2>4, <3>5, <4>2
        <5> QED BY <2>2, <2>3, <3>1, <3>5, <5>1 DEF ItemsLast
      <4> QED BY <4>1, <4>2
    <3>7. k \in B
      BY <2>16, <3>5, <3>6
    <3> QED BY <2>17, <3>5, <3>7
  <2>21. Cardinality(M) = Cardinality(B)
    <3>1. f \in [B -> M]
      BY <2>17, <2>18
    <3>2. f \in Surjection(B, M) /\ f \in Injection(B, M)
      BY <2>19, <2>20, <3>1 DEF Surjection, Injection, IsInjective
    <3> QED BY <2>13, <3>2, FS_Surjection
  <2>22. Bill!Cardinality(M) = Cardinality(M)
    BY BillSizes
  <2> QED BY <2>1, <2>13, <2>14, <2>21, <2>22
<1> QED BY <1>1, Zenon DEF Bill!TotalIsTrue

OfBill == part = "spend"

LEMMA BillStays == Spec => []OfBill \/ []~OfBill
<1>1. OfBill /\ [Next]_vars => OfBill'
  BY PartStays DEF OfBill
<1>2. ~OfBill /\ [Next]_vars => (~OfBill)'
  BY PartStays DEF OfBill
<1> QED BY <1>1, <1>2, PTL DEF Spec

LEMMA BillStep ==
  ASSUME OfBill, [Next]_vars
  PROVE  [Bill!Next]_Bill!vars
<1>1. CASE UNCHANGED vars
  BY <1>1 DEF vars, Bill!vars
<1>2. CASE Next
  BY <1>2 DEF Next, OfBill, OfDocuments, OfShelving, OfCompletion, OfSpend, OfIdentity,
       OfListing, Bill!Next, Bill!Work, Bill!Run
<1> QED BY <1>1, <1>2

LEMMA BillIsSpend == Spec /\ []OfBill => Bill!Spec
<1>1. Init /\ OfBill => Bill!Init
  BY DEF Init, OfBill
<1>2. OfBill /\ [Next]_vars => [Bill!Next]_Bill!vars
  BY BillStep
<1> QED BY <1>1, <1>2, PTL DEF Spec, Bill!Spec

\* A run that harvested has in its figures every message the transcripts had when it scanned
\* them, whatever an earlier run that died had left (Aggregate, ReadAll).
THEOREM HarvestsAreComplete == Spec => []HarvestComplete
<1>1. Billed => Bill!HarvestComplete
  BY BillComplete
<1>2. OfBill /\ Bill!HarvestComplete => HarvestComplete
  BY DEF HarvestComplete
<1>3. ~OfBill => HarvestComplete
  BY DEF OfBill, HarvestComplete
<1> QED BY <1>1, <1>2, <1>3, BillKeepsInv, BillStays, BillIsSpend, PTL

\* A total counts every message once, though it be stored twice (Query, hasGrandTotal).
THEOREM TotalsAreTrue == Spec => []TotalIsTrue
<1>1. Billed => Bill!TotalIsTrue
  BY BillTotals
<1>2. OfBill /\ Bill!TotalIsTrue => TotalIsTrue
  BY DEF TotalIsTrue
<1>3. ~OfBill => TotalIsTrue
  BY DEF OfBill, TotalIsTrue
<1> QED BY <1>1, <1>2, <1>3, BillKeepsInv, BillStays, BillIsSpend, PTL

\* A message of an agent goes to the item that the agent had claimed last and has (attribute).
THEOREM WorkIsOwned == Spec => []OwnWork
<1>1. Billed => Bill!OwnWork
  BY BillOwns
<1>2. OfBill /\ Bill!OwnWork => OwnWork
  BY DEF OwnWork
<1>3. ~OfBill => OwnWork
  BY DEF OfBill, OwnWork
<1> QED BY <1>1, <1>2, <1>3, BillKeepsInv, BillStays, BillIsSpend, PTL

\* However harvests, rebuilds and crashes overlap, nothing that is stored is stored again
\* (Aggregate, acquireHarvestLock).
THEOREM NothingStoredTwice == Spec => StoredOnce
<1>1. Billed /\ [Bill!AppendStep]_Bill!vars => [part = "spend" => Bill!AppendStep]_vars
  BY BillIdle
<1>2. ~OfBill => [part = "spend" => Bill!AppendStep]_vars
  BY DEF OfBill
<1> QED BY <1>1, <1>2, BillStoresOnce, BillKeepsInv, BillStays, BillIsSpend, PTL DEF StoredOnce

-------------------------------------------------------------------------------
(***************************************************************************)
(* Identity. The invariant says of each command what it has read so far of *)
(* the store, and why that is enough while records move: the names in what *)
(* it has still to read, and the records that have stood still since it    *)
(* began.                                                                  *)
(***************************************************************************)
\* An instance has its own name for what it takes from FiniteSets.
LEMMA SameSize ==
  /\ \A S : Ident!IsFiniteSet(S) = IsFiniteSet(S)
  /\ \A S : Ident!Cardinality(S) = Cardinality(S)
<1>1. \A S : Ident!IsFiniteSet(S) = IsFiniteSet(S)
  BY DEF IsFiniteSet, Ident!IsFiniteSet
<1>2. \A S : Ident!Cardinality(S) = Cardinality(S)
  BY <1>1, Zenon DEF Cardinality, Ident!Cardinality
<1> QED BY <1>1, <1>2

LEMMA SameOrder == \A S : Ident!InOrder(S) = Bill!InOrder(S)
<1>1. \A S : Ident!Cardinality(S) = Bill!Cardinality(S)
  BY SameSize, BillSizes
<1> SUFFICES ASSUME NEW S PROVE Ident!InOrder(S) = Bill!InOrder(S)
  OBVIOUS
<1> DEFINE ours(n) == CHOOSE t \in S : Ident!Cardinality({u \in S : u <= t}) = n
           theirs(n) == CHOOSE t \in S : Bill!Cardinality({u \in S : u <= t}) = n
<1>2. \A n : ours(n) = theirs(n)
  BY <1>1
<1>3. /\ Ident!InOrder(S) = [n \in 1 .. Ident!Cardinality(S) |-> ours(n)]
      /\ Bill!InOrder(S) = [n \in 1 .. Bill!Cardinality(S) |-> theirs(n)]
  BY DEF Ident!InOrder, Bill!InOrder
<1> HIDE DEF ours, theirs
<1> QED BY <1>1, <1>2, <1>3

LEMMA InSeq ==
  ASSUME NEW S, NEW s \in Seq(S), NEW x
  PROVE  x \in Ident!ToSet(s) <=> \E n \in 1..Len(s) : s[n] = x
BY DEF Ident!ToSet

LEMMA InConcat ==
  ASSUME NEW S, NEW s \in Seq(S), NEW t \in Seq(S)
  PROVE  /\ s \o t \in Seq(S)
         /\ \A x \in Ident!ToSet(s) \cup Ident!ToSet(t) : x \in Ident!ToSet(s \o t)
<1>0. s \o t \in Seq(S) /\ Len(s \o t) = Len(s) + Len(t)
  BY ConcatProperties
<1>1. ASSUME NEW x \in Ident!ToSet(s) PROVE x \in Ident!ToSet(s \o t)
  <2>1. PICK n \in 1..Len(s) : s[n] = x
    BY InSeq
  <2>2. Len(s) \in Nat /\ Len(t) \in Nat
    BY LenProperties
  <2>3. (s \o t)[n] = x /\ n \in 1..Len(s \o t)
    BY <1>0, <2>1, <2>2, ConcatProperties
  <2> QED BY <1>0, <2>3, InSeq
<1>2. ASSUME NEW x \in Ident!ToSet(t) PROVE x \in Ident!ToSet(s \o t)
  <2>1. PICK n \in 1..Len(t) : t[n] = x
    BY InSeq
  <2>2. Len(s) \in Nat /\ Len(t) \in Nat
    BY LenProperties
  <2>3. (s \o t)[Len(s) + n] = x /\ Len(s) + n \in 1..Len(s \o t)
    BY <1>0, <2>1, <2>2, ConcatProperties
  <2> QED BY <1>0, <2>3, InSeq
<1> QED BY <1>0, <1>1, <1>2

LEMMA InTail ==
  ASSUME NEW S, NEW s \in Seq(S), s # <<>>
  PROVE  /\ Tail(s) \in Seq(S) /\ Head(s) \in S
         /\ \A x \in Ident!ToSet(s) : x = Head(s) \/ x \in Ident!ToSet(Tail(s))
<1>0. Tail(s) \in Seq(S) /\ Head(s) = s[1] /\ Len(Tail(s)) = Len(s) - 1 /\ Len(s) \in Nat
  BY HeadTailProperties, LenProperties, EmptySeq
<1>3. Head(s) \in S
  BY HeadTailProperties
<1>1. ASSUME NEW x \in Ident!ToSet(s), x # Head(s) PROVE x \in Ident!ToSet(Tail(s))
  <2>1. PICK n \in 1..Len(s) : s[n] = x
    BY InSeq
  <2>2. n # 1
    BY <1>0, <1>1, <2>1
  <2>3. n - 1 \in 1..Len(Tail(s)) /\ Tail(s)[n - 1] = s[n]
    BY <1>0, <2>1, <2>2, HeadTailProperties
  <2> QED BY <1>0, <2>1, <2>3, InSeq
<1> QED BY <1>0, <1>1, <1>3

LEMMA SetAsSeq ==
  ASSUME NEW S, IsFiniteSet(S)
  PROVE  Ident!SetToSeq(S) \in Seq(S) /\ Ident!ToSet(Ident!SetToSeq(S)) = S
<1> DEFINE n == Cardinality(S)
<1>1. n \in Nat /\ ExistsBijection(1..n, S)
  BY FS_CardinalityType
<1>2. PICK f : f \in Bijection(1..n, S)
  BY <1>1 DEF ExistsBijection
<1>3. f \in [1..n -> S] /\ (\A x, y \in 1..n : f[x] = f[y] => x = y)
  BY <1>2 DEF Bijection, Injection, IsInjective
<1>4. Ident!IsInjective(f)
  BY <1>3 DEF Ident!IsInjective
<1>5. Ident!SetToSeq(S) \in [1..n -> S] /\ Ident!IsInjective(Ident!SetToSeq(S))
  <2>1. \E h \in [1..n -> S] : Ident!IsInjective(h)
    BY <1>3, <1>4
  <2>2. Ident!SetToSeq(S) = CHOOSE h \in [1..n -> S] : Ident!IsInjective(h)
    BY SameSize DEF Ident!SetToSeq
  <2>3. PICK w : w = CHOOSE h \in [1..n -> S] : Ident!IsInjective(h)
    OBVIOUS
  <2>4. w \in [1..n -> S] /\ Ident!IsInjective(w)
    BY <2>1, <2>3
  <2> QED BY <2>2, <2>3, <2>4
<1>6. PICK g : g = Ident!SetToSeq(S)
  OBVIOUS
<1>7. g \in [1..n -> S] /\ (\A x, y \in 1..n : g[x] = g[y] => x = y)
  BY <1>5, <1>6 DEF Ident!IsInjective
<1>8. g \in Injection(1..n, S)
  BY <1>7 DEF Injection, IsInjective
<1>9. IsFiniteSet(1..n) /\ Cardinality(1..n) = n
  BY <1>1, FS_Interval
<1>10. g \in Surjection(1..n, S)
  BY <1>8, <1>9, FS_Injection
<1>11. g \in Seq(S) /\ Len(g) = n
  BY <1>1, <1>7
<1>12. ASSUME NEW x PROVE x \in Ident!ToSet(g) <=> x \in S
  BY <1>1, <1>7, <1>10, <1>11, InSeq DEF Surjection
<1> QED BY <1>6, <1>11, <1>12

(***************************************************************************)
(* Identity: ids, names and commands as constants, so that the lemmas can  *)
(* be used of a state and of the next one.                                 *)
(***************************************************************************)
Stand(w) == {r \in Records : w[r] # Ident!Nowhere}
ByName == {"any"} \cup Ident!Months
IdCommands ==
  [call : {"none", "new", "show", "ids"}, step : {"idle", "scan", "list", "answer"},
   id : IDs \cup {"none"}, partition : ByName, todo : Seq(Ident!Dirs), found : Seq(Ident!Names),
   docs : SUBSET [name : Ident!Names, record : Records], moved : BOOLEAN, tries : Nat,
   ids : SUBSET IDs, still : SUBSET Records]

\* The scan has yet to read the directory that the record is in.
Due(d, todo) == d \in Ident!ToSet(todo) \/ (d \in Ident!Months /\ "archive" \in Ident!ToSet(todo))

\* A record of the id that has stood still is due, or was found, or was opened.
Seen(i, w, c) ==
  \A r \in c.still : i[r] = c.id =>
    \/ Due(w[r].dir, c.todo)
    \/ w[r] \in Ident!ToSet(c.found)
    \/ [name |-> w[r], record |-> r] \in c.docs

\* The id of a record that has stood still is due, or is listed.
Gathered(i, w, c) == \A r \in c.still : Due(w[r].dir, c.todo) \/ i[r] \in c.ids

\* What was opened is a record of the id.
Opened(i, w, c) ==
  /\ IsFiniteSet(c.docs)
  /\ \A d \in c.docs : d.record \in Stand(w) /\ i[d.record] = c.id

Heeds(i, w, c) ==
  /\ c \in IdCommands
  /\ c.still \subseteq Stand(w)
  /\ Opened(i, w, c)
  /\ c.call = "none" => c.step = "idle"
  /\ c.call = "new" => c.docs = {} /\ c.step = "scan"
  /\ c.call \in {"new", "show"} => c.id \in IDs /\ c.step \in {"scan", "answer"} /\ Seen(i, w, c)
  /\ c.call = "show" /\ c.step = "answer" => c.todo = <<>> /\ c.found = <<>>
  /\ c.call = "ids" => c.step \in {"list", "answer"} /\ Gathered(i, w, c)
  /\ c.call = "ids" /\ c.step = "list" => c.todo # <<>>
  /\ c.call = "ids" /\ c.step = "answer" => c.todo = <<>>

\* Records have names of their own, and the partitions they are in exist.
Named(i, w, m) ==
  /\ i \in [Records -> IDs] /\ w \in [Records -> Ident!Names \cup {Ident!Nowhere}]
  /\ m \subseteq Ident!Months
  /\ \A r \in Stand(w) : w[r].dir \in Ident!Months => w[r].dir \in m
  /\ \A r, s \in Stand(w) : i[r] = i[s] /\ w[r] = w[s] => r = s

Aliased(i, w, e) == \A r, s \in Stand(w) : i[r] = i[s] /\ r # s => {r, s} \in e

IdInv(i, w, m, k, e) ==
  /\ Named(i, w, m) /\ Aliased(i, w, e)
  /\ k \in [Processes -> IdCommands]
  /\ \A p \in Processes : Heeds(i, w, k[p])


LEMMA DirsAre ==
  /\ "none" \notin Ident!Dirs
  /\ Ident!WholeStore \in Seq(Ident!Dirs) /\ Ident!WholeStore # <<>>
  /\ \A d \in Ident!Dirs : Due(d, Ident!WholeStore)
<1>1. PICK s : s = Ident!activeStates
  OBVIOUS
<1>2. s = <<"available", "claimed", "done", "pending", "shelved">>
  BY <1>1 DEF Ident!activeStates
<1>3. /\ s \in Seq(Ident!ToSet(s) \cup {"archive"}) /\ <<"archive">> \in Seq(Ident!ToSet(s) \cup {"archive"})
      /\ Ident!ToSet(s) = {"available", "claimed", "done", "pending", "shelved"}
      /\ Ident!ToSet(<<"archive">>) = {"archive"}
  BY <1>2 DEF Ident!ToSet
<1>4. PICK a : a = <<"archive">>
  OBVIOUS
<1>5. s \in Seq(Ident!Dirs) /\ a \in Seq(Ident!Dirs)
  <2>1. Ident!ToSet(s) \cup {"archive"} \subseteq Ident!Dirs
    BY <1>1 DEF Ident!Dirs
  <2>2. s \in Seq(Ident!Dirs)
    BY <1>2, <1>3, <2>1
  <2>3. a \in Seq(Ident!Dirs)
    BY <1>4, <2>1
  <2> QED BY <2>2, <2>3
<1>6. /\ s \o a \in Seq(Ident!Dirs)
      /\ \A x \in Ident!ToSet(s) \cup Ident!ToSet(a) : x \in Ident!ToSet(s \o a)
  BY <1>5, InConcat
<1>7. Ident!WholeStore = s \o a
  BY <1>1, <1>4 DEF Ident!WholeStore
<1>8. \A d \in Ident!Dirs : Due(d, Ident!WholeStore)
  BY <1>1, <1>3, <1>4, <1>6, <1>7 DEF Due, Ident!Dirs
<1>9. Ident!WholeStore # <<>>
  <2>1. Len(s \o a) = 6
    BY <1>2, <1>4
  <2> QED BY <1>7, <2>1
<1>10. "none" \notin Ident!Dirs
  BY <1>1, <1>3, IdentAssumption DEF Ident!Dirs, Ident!IdentityAssumption
<1> QED BY <1>6, <1>7, <1>8, <1>9, <1>10

LEMMA NamesAre ==
  /\ \A n \in Ident!Names : n.dir \in Ident!Dirs /\ n # Ident!Nowhere
  /\ \A d \in Ident!Dirs : \A n \in Ident!Name(d) : n.dir = d /\ n \in Ident!Names
BY DirsAre DEF Ident!Names, Ident!Name, Ident!Nowhere

\* The partitions that exist, oldest first.
LEMMA OpenArchive ==
  ASSUME s3 \in SUBSET Ident!Months
  PROVE  LET a == Ident!InArchive("archive") IN
         a \in Seq(s3) /\ Ident!ToSet(a) = s3 /\ (a = <<>> <=> s3 = {})
<1>1. Partitions \in Seq(Ident!Months) /\ Len(Partitions) \in Nat
  BY IdentAssumption, LenProperties DEF Ident!IdentityAssumption
<1>2. DOMAIN Partitions = 1 .. Len(Partitions) /\ \A k \in 1 .. Len(Partitions) : Partitions[k] \in Ident!Months
  BY <1>1, LenProperties, ElementOfSeq
<1>3. PICK K : K = {k \in DOMAIN Partitions : Partitions[k] \in s3}
  OBVIOUS
<1>4. K \in SUBSET Nat /\ IsFiniteSet(K)
  <2>1. K \in SUBSET (1 .. Len(Partitions)) /\ K \in SUBSET Nat
    BY <1>1, <1>2, <1>3
  <2>2. IsFiniteSet(1 .. Len(Partitions))
    BY <1>1, FS_Interval
  <2> QED BY <2>1, <2>2, FS_Subset
<1>5. PICK o : o = Ident!InOrder(K)
  OBVIOUS
<1>6. o = Bill!InOrder(K)
  BY <1>5, SameOrder
<1>7. o \in Seq(K) /\ Len(o) \in Nat /\ DOMAIN o = 1 .. Len(o) /\ Bill!ToSet(o) = K
  BY <1>4, <1>6, Ranked, LenProperties
<1>8. PICK m : m = Len(o)
  OBVIOUS
<1>9. m \in Nat /\ DOMAIN o = 1 .. m /\ \A n \in 1 .. m : o[n] \in K
  BY <1>7, <1>8, ElementOfSeq
<1>10. PICK a : a = Ident!InArchive("archive")
  OBVIOUS
<1>11. a = [n \in 1 .. m |-> Partitions[o[n]]]
  BY <1>3, <1>5, <1>9, <1>10 DEF Ident!InArchive
<1>12. \A n \in 1 .. m : Partitions[o[n]] \in s3
  BY <1>3, <1>9
<1>13. a \in Seq(s3) /\ Len(a) = m /\ DOMAIN a = 1 .. m
  <2>1. a \in [1 .. m -> s3]
    BY <1>11, <1>12
  <2> QED BY <1>9, <2>1
<1>14. ASSUME NEW x \in s3 PROVE \E n \in 1 .. m : a[n] = x
  <2>1. PICK k \in DOMAIN Partitions : Partitions[k] = x
    BY <1>14 DEF Ident!Months, Ident!ToSet
  <2>2. k \in K
    BY <1>3, <2>1
  <2>3. PICK n \in 1 .. m : o[n] = k
    BY <1>7, <1>8, <2>2 DEF Bill!ToSet
  <2> QED BY <1>11, <2>1, <2>3
<1>15. Ident!ToSet(a) = s3
  <2>1. \A n \in 1 .. m : a[n] \in s3
    BY <1>11, <1>12
  <2> QED BY <1>13, <1>14, <2>1 DEF Ident!ToSet
<1>16. a = <<>> <=> s3 = {}
  <2>1. ASSUME a = <<>> PROVE s3 = {}
    BY <1>13, <1>14, <2>1
  <2>2. ASSUME s3 = {} PROVE m = 0
    BY <1>9, <1>12, <2>2
  <2>3. m = 0 => a = <<>>
    BY <1>13, EmptySeq
  <2> QED BY <2>1, <2>2, <2>3
<1> QED BY <1>10, <1>13, <1>15, <1>16

\* Reading a directory leaves due whatever else was due.
LEMMA ReadLeaves ==
  ASSUME NEW todo \in Seq(Ident!Dirs), todo # <<>>, s3 \subseteq Ident!Months
  PROVE  LET rest == Tail(todo) \o Ident!InArchive(Head(todo)) IN
         /\ rest \in Seq(Ident!Dirs) /\ Head(todo) \in Ident!Dirs
         /\ \A d : Due(d, todo) /\ (d \in Ident!Months => d \in s3) => d = Head(todo) \/ Due(d, rest)
<1>1. PICK t, a : t = Tail(todo) /\ a = Ident!InArchive(Head(todo))
  OBVIOUS
<1>2. /\ t \in Seq(Ident!Dirs) /\ Head(todo) \in Ident!Dirs
      /\ \A x \in Ident!ToSet(todo) : x = Head(todo) \/ x \in Ident!ToSet(t)
  BY <1>1, InTail
<1>3. a \in Seq(Ident!Dirs) /\ (Head(todo) = "archive" => Ident!ToSet(a) = s3)
  <2>1. s3 \subseteq Ident!Dirs
    BY DEF Ident!Dirs
  <2>2. CASE Head(todo) = "archive"
    <3>1. a \in Seq(s3) /\ Ident!ToSet(a) = s3
      BY <1>1, <2>2, OpenArchive
    <3> QED BY <2>1, <3>1
  <2>3. CASE Head(todo) # "archive"
    BY <1>1, <2>3 DEF Ident!InArchive
  <2> QED BY <2>2, <2>3
<1>4. /\ t \o a \in Seq(Ident!Dirs)
      /\ \A x \in Ident!ToSet(t) \cup Ident!ToSet(a) : x \in Ident!ToSet(t \o a)
  BY <1>2, <1>3, InConcat
<1>5. ASSUME NEW d, Due(d, todo), d \in Ident!Months => d \in s3, d # Head(todo) PROVE Due(d, t \o a)
  BY <1>2, <1>3, <1>4, <1>5 DEF Due
<1> QED BY <1>1, <1>2, <1>4, <1>5

LEMMA IdleHeeds ==
  ASSUME NEW i, NEW w
  PROVE  Heeds(i, w, Ident!Idle)
<1>1. Ident!Idle \in IdCommands
  BY DEF Ident!Idle, IdCommands, ByName
<1>2. Opened(i, w, Ident!Idle)
  BY FS_EmptySet DEF Opened, Ident!Idle
<1> QED BY <1>1, <1>2 DEF Heeds, Ident!Idle

\* A scan begins with everything due.
LEMMA ScanningHeeds ==
  ASSUME NEW i, NEW w, NEW m, Named(i, w, m),
         NEW c \in IdCommands, c.call \in {"new", "show"}, c.id \in IDs,
         c.still \subseteq Stand(w), c.docs = {}
  PROVE  Heeds(i, w, Ident!Scanning(c))
<1>1. PICK d : d = Ident!Scanning(c)
  OBVIOUS
<1>2. /\ d \in IdCommands /\ d.todo = Ident!WholeStore /\ d.step = "scan"
      /\ d.call = c.call /\ d.id = c.id /\ d.still = c.still /\ d.docs = {}
  <2>1. PICK whole : whole = Ident!WholeStore
    OBVIOUS
  <2>2. whole \in Seq(Ident!Dirs) /\ <<>> \in Seq(Ident!Names)
    BY <2>1, DirsAre
  <2>3. d = [c EXCEPT !.step = "scan", !.todo = whole, !.found = <<>>]
    BY <1>1, <2>1 DEF Ident!Scanning
  <2> QED BY <2>1, <2>2, <2>3 DEF IdCommands
<1>3. \A r \in d.still : w[r].dir \in Ident!Dirs
  BY <1>2, NamesAre DEF Named, Stand
<1>4. Seen(i, w, d)
  BY <1>2, <1>3, DirsAre DEF Seen
<1>5. Opened(i, w, d)
  BY <1>2, FS_EmptySet DEF Opened
<1> QED BY <1>1, <1>2, <1>4, <1>5 DEF Heeds

LEMMA MatchingIs ==
  ASSUME NEW i, NEW d, Named(s1, s2, s3)
  PROVE  LET found == Ident!SetToSeq(Ident!Matching(i, d)) IN
         /\ found \in Seq(Ident!Names)
         /\ \A r \in Stand(s2) : s1[r] = i /\ s2[r].dir = d => s2[r] \in Ident!ToSet(found)
<1>1. PICK M : M = Ident!Matching(i, d)
  OBVIOUS
<1>2. M \subseteq Ident!Names
  BY <1>1 DEF Ident!Matching, Ident!Existing, Named
<1>3. IsFiniteSet(M)
  <2> DEFINE R == {r \in Records : s2[r] # Ident!Nowhere /\ s1[r] = i /\ s2[r].dir = d}
             f == [r \in R |-> s2[r]]
  <2>1. IsFiniteSet(R)
    BY IdentAssumption, SameSize, FS_Subset DEF Ident!IdentityAssumption
  <2>2. f \in Surjection(R, M)
    BY <1>1 DEF Surjection, Ident!Matching, Ident!Existing
  <2> QED BY <2>1, <2>2, FS_Surjection
<1>4. PICK g : g = Ident!SetToSeq(M)
  OBVIOUS
<1>5. g \in Seq(M) /\ Ident!ToSet(g) = M
  BY <1>3, <1>4, SetAsSeq
<1>6. g \in Seq(Ident!Names)
  BY <1>2, <1>5
<1>7. \A r \in Stand(s2) : s1[r] = i /\ s2[r].dir = d => s2[r] \in M
  BY <1>1 DEF Ident!Matching, Ident!Existing, Stand
<1> QED BY <1>1, <1>4, <1>5, <1>6, <1>7

LEMMA ReadHeeds ==
  ASSUME Named(s1, s2, s3), NEW c, Heeds(s1, s2, c), c.step = "scan", c.todo # <<>>
  PROVE  Heeds(s1, s2, Ident!ReadDir(c))
<1>0. c \in IdCommands /\ c.still \subseteq Stand(s2) /\ c.call \in {"new", "show"} /\ Opened(s1, s2, c)
  BY DEF Heeds, IdCommands
<1>1. PICK found, rest : /\ found = Ident!SetToSeq(Ident!Matching(c.id, Head(c.todo)))
                         /\ rest = Tail(c.todo) \o Ident!InArchive(Head(c.todo))
  OBVIOUS
<1>2. c.todo \in Seq(Ident!Dirs) /\ c.found \in Seq(Ident!Names)
  BY <1>0 DEF IdCommands
<1>3. /\ rest \in Seq(Ident!Dirs)
      /\ \A d : Due(d, c.todo) /\ (d \in Ident!Months => d \in s3) => d = Head(c.todo) \/ Due(d, rest)
  BY <1>1, <1>2, ReadLeaves DEF Named
<1>4. /\ found \in Seq(Ident!Names)
      /\ \A r \in Stand(s2) : s1[r] = c.id /\ s2[r].dir = Head(c.todo) => s2[r] \in Ident!ToSet(found)
  BY <1>1, MatchingIs
<1>5. /\ c.found \o found \in Seq(Ident!Names)
      /\ \A x \in Ident!ToSet(c.found) \cup Ident!ToSet(found) : x \in Ident!ToSet(c.found \o found)
  BY <1>2, <1>4, InConcat
<1>6. PICK d : d = Ident!ReadDir(c)
  OBVIOUS
<1>7. d = [c EXCEPT !.found = @ \o found, !.todo = rest]
  BY <1>1, <1>6 DEF Ident!ReadDir
<1>8. PICK all : all = c.found \o found
  OBVIOUS
<1>9. /\ d \in IdCommands /\ d.todo = rest /\ d.found = all
      /\ d.call = c.call /\ d.step = c.step /\ d.id = c.id /\ d.still = c.still /\ d.docs = c.docs
  BY <1>0, <1>3, <1>5, <1>7, <1>8 DEF IdCommands
<1>10. Seen(s1, s2, d)
  <2>1. Seen(s1, s2, c)
    BY <1>0 DEF Heeds
  <2>2. SUFFICES ASSUME NEW r \in c.still, s1[r] = c.id
                 PROVE  \/ Due(s2[r].dir, rest)
                        \/ s2[r] \in Ident!ToSet(all)
                        \/ [name |-> s2[r], record |-> r] \in c.docs
    BY <1>9 DEF Seen
  <2>3. r \in Stand(s2) /\ (s2[r].dir \in Ident!Months => s2[r].dir \in s3)
    BY <1>0, <2>2 DEF Named
  <2>4. CASE Due(s2[r].dir, c.todo)
    BY <1>3, <1>4, <1>5, <1>8, <2>2, <2>3, <2>4
  <2>5. CASE s2[r] \in Ident!ToSet(c.found)
    BY <1>5, <1>8, <2>5
  <2> QED BY <2>1, <2>2, <2>4, <2>5 DEF Seen
<1>11. Opened(s1, s2, d)
  BY <1>0, <1>9 DEF Opened
<1> QED BY <1>0, <1>6, <1>9, <1>10, <1>11 DEF Heeds

\* Opened by its name, the one record of the id that is there is read.
LEMMA OpenHeeds ==
  ASSUME NEW i, NEW w, NEW m, Named(i, w, m), NEW c, Heeds(i, w, c),
         c.call = "show", c.step = "scan", c.found # <<>>,
         NEW mv \in BOOLEAN, NEW r, r = {s \in Stand(w) : i[s] = c.id /\ w[s] = Head(c.found)},
         NEW d2, d2 = [c EXCEPT !.found = Tail(@),
                                !.docs = @ \cup {[name |-> Head(c.found), record |-> s] : s \in r},
                                !.moved = mv]
  PROVE  Heeds(i, w, d2)
<1>0. c \in IdCommands /\ c.still \subseteq Stand(w) /\ Opened(i, w, c) /\ Seen(i, w, c) /\ c.id \in IDs
  BY DEF Heeds
<1>1. PICK t, n : t = Tail(c.found) /\ n = Head(c.found)
  OBVIOUS
<1>2. c.found \in Seq(Ident!Names)
  BY <1>0 DEF IdCommands
<1>3. /\ t \in Seq(Ident!Names) /\ n \in Ident!Names
      /\ \A x \in Ident!ToSet(c.found) : x = n \/ x \in Ident!ToSet(t)
  BY <1>1, <1>2, InTail
<1>4. PICK new : new = {[name |-> n, record |-> s] : s \in r}
  OBVIOUS
<1>5. new \subseteq [name : Ident!Names, record : Records]
  BY <1>1, <1>3, <1>4 DEF Stand
<1>6. IsFiniteSet(new)
  <2>1. CASE r = {}
    BY <1>4, <2>1, FS_EmptySet
  <2>2. CASE r # {}
    <3>1. PICK s : s \in r
      BY <2>2
    <3>2. r = {s}
      BY <3>1 DEF Named, Stand
    <3>3. new = {[name |-> n, record |-> s]}
      BY <1>4, <3>2
    <3> QED BY <3>3, FS_Singleton
  <2> QED BY <2>1, <2>2
<1>7. PICK docs : docs = c.docs \cup new
  OBVIOUS
<1>8. IsFiniteSet(docs) /\ docs \subseteq [name : Ident!Names, record : Records]
  BY <1>0, <1>5, <1>6, <1>7, FS_Union DEF Opened, IdCommands
<1>9. PICK d : d = [c EXCEPT !.found = t, !.docs = docs, !.moved = mv]
  OBVIOUS
<1>10. /\ d \in IdCommands /\ d.found = t /\ d.docs = docs
       /\ d.call = c.call /\ d.step = c.step /\ d.id = c.id /\ d.still = c.still /\ d.todo = c.todo
  BY <1>0, <1>3, <1>8, <1>9 DEF IdCommands
<1>11. Seen(i, w, d)
  <2>1. SUFFICES ASSUME NEW s \in c.still, i[s] = c.id, w[s] = n
                 PROVE  [name |-> w[s], record |-> s] \in docs
    BY <1>0, <1>3, <1>7, <1>10 DEF Seen
  <2>2. s \in r
    BY <1>0, <1>1, <2>1
  <2> QED BY <1>4, <1>7, <2>1, <2>2
<1>12. Opened(i, w, d)
  <2>1. \A x \in new : x.record \in r
    BY <1>4
  <2>2. \A x \in docs : x.record \in Stand(w) /\ i[x.record] = c.id
    BY <1>0, <1>7, <2>1 DEF Opened
  <2> QED BY <1>8, <1>10, <2>2 DEF Opened
<1>13. Heeds(i, w, d)
  BY <1>0, <1>10, <1>11, <1>12 DEF Heeds
<1>14. d = d2
  BY <1>0, <1>1, <1>4, <1>7, <1>9 DEF IdCommands
<1> QED BY <1>13, <1>14

\* A record that moves has not stood still, and its name may have been seen twice.
LEMMA MovedHeeds ==
  ASSUME NEW i, NEW w, NEW c, Heeds(i, w, c), NEW r \in Records,
         NEW n \in Ident!Names, NEW w2, w2 = [w EXCEPT ![r] = n],
         w \in [Records -> Ident!Names \cup {Ident!Nowhere}]
  PROVE  Heeds(i, w2, [c EXCEPT !.still = @ \ {r}])
<1>0. c \in IdCommands /\ c.still \subseteq Stand(w) /\ Opened(i, w, c)
  BY DEF Heeds
<1>1. PICK d : d = [c EXCEPT !.still = @ \ {r}]
  OBVIOUS
<1>2. /\ d \in IdCommands /\ d.found = c.found /\ d.docs = c.docs /\ d.ids = c.ids
      /\ d.call = c.call /\ d.step = c.step /\ d.id = c.id /\ d.todo = c.todo
      /\ d.still = c.still \ {r}
  BY <1>0, <1>1 DEF IdCommands
<1>3. Stand(w) \subseteq Stand(w2) /\ \A s \in d.still : w2[s] = w[s]
  BY <1>0, <1>2, NamesAre DEF Stand
<1>4. Opened(i, w2, d) /\ d.still \subseteq Stand(w2)
  BY <1>0, <1>2, <1>3 DEF Opened
<1>5. Seen(i, w, c) => Seen(i, w2, d)
  BY <1>2, <1>3 DEF Seen
<1>6. Gathered(i, w, c) => Gathered(i, w2, d)
  BY <1>2, <1>3 DEF Gathered
<1> QED BY <1>1, <1>2, <1>4, <1>5, <1>6 DEF Heeds

\* A new record is of no concern to a scan under way: it has not stood still.
LEMMA CreatedHeeds ==
  ASSUME NEW i, NEW w, NEW c, Heeds(i, w, c), NEW i2, NEW w2,
         Stand(w) \subseteq Stand(w2), \A s \in Stand(w) : i2[s] = i[s] /\ w2[s] = w[s]
  PROVE  Heeds(i2, w2, c)
<1>0. c \in IdCommands /\ c.still \subseteq Stand(w) /\ Opened(i, w, c)
  BY DEF Heeds
<1>4. Opened(i2, w2, c) /\ c.still \subseteq Stand(w2)
  BY <1>0 DEF Opened
<1>5. Seen(i, w, c) => Seen(i2, w2, c)
  BY <1>0, Zenon DEF Seen
<1>6. Gathered(i, w, c) => Gathered(i2, w2, c)
  BY <1>0, Zenon DEF Gathered
<1> QED BY <1>4, <1>5, <1>6 DEF Heeds

LEMMA TurnInv ==
  ASSUME NEW i, NEW w, NEW m, NEW k, NEW e, IdInv(i, w, m, k, e),
         NEW p \in Processes, NEW c, Heeds(i, w, c), NEW k2, k2 = [k EXCEPT ![p] = c]
  PROVE  IdInv(i, w, m, k2, e)
BY DEF IdInv, Heeds

LEMMA IdentInit == Ident!Init => IdInv(s1, s2, s3, s4, s6)
<1> SUFFICES ASSUME Ident!Init PROVE IdInv(s1, s2, s3, s4, s6)
  OBVIOUS
<1>1. PICK old \in SUBSET Records :
        /\ s1 \in [Records -> IDs]
        /\ s2 \in [Records -> {Ident!Nowhere} \cup UNION {Ident!Name(d) : d \in Taken}]
        /\ old = Ident!Existing
        /\ \A r, s \in old : s1[r] = s1[s] /\ r # s => s2[r] # s2[s]
        /\ s6 = {{r, s} : r \in old, s \in old}
  BY DEF Ident!Init
<1>2. old = Stand(s2)
  BY <1>1 DEF Ident!Existing, Stand
<1>3. s2 \in [Records -> Ident!Names \cup {Ident!Nowhere}]
  <2>1. Taken \subseteq Ident!Dirs
    BY IdentAssumption DEF Ident!IdentityAssumption
  <2>2. UNION {Ident!Name(d) : d \in Taken} \subseteq Ident!Names
    BY <2>1 DEF Ident!Names
  <2> QED BY <1>1, <2>2
<1>4. s3 = {s2[r].dir : r \in Stand(s2)} \cap Ident!Months
  BY <1>1, <1>2 DEF Ident!Init
<1>5. Named(s1, s2, s3)
  BY <1>1, <1>2, <1>3, <1>4 DEF Named
<1>6. Aliased(s1, s2, s6)
  BY <1>1, <1>2 DEF Aliased
<1>7. s4 \in [Processes -> IdCommands] /\ \A p \in Processes : Heeds(s1, s2, s4[p])
  <2>1. s4 = [p \in Processes |-> Ident!Idle]
    BY DEF Ident!Init
  <2>2. Heeds(s1, s2, Ident!Idle)
    BY IdleHeeds
  <2>3. Ident!Idle \in IdCommands
    BY <2>2 DEF Heeds
  <2> QED BY <2>1, <2>2, <2>3
<1> QED BY <1>5, <1>6, <1>7 DEF IdInv

Current == IdInv(s1, s2, s3, s4, s6)

LEMMA IdentMove ==
  ASSUME Current, NEW r \in Records, Ident!Move(r)
  PROVE  Current'
<1>1. PICK n \in Ident!Names :
        /\ Ident!Vacant(r, n)
        /\ s2' = [s2 EXCEPT ![r] = n]
        /\ s3' = s3 \cup ({n.dir} \cap Ident!Months)
  BY DEF Ident!Move
<1>2. /\ r \in Stand(s2) /\ s1' = s1 /\ s6' = s6
      /\ s4' = [q \in Processes |-> [s4[q] EXCEPT !.still = @ \ {r}]]
  BY DEF Ident!Move, Ident!Existing, Stand
<1>3. Named(s1, s2, s3) /\ Aliased(s1, s2, s6)
  BY DEF Current, IdInv
<1>4. PICK w2 : w2 = [s2 EXCEPT ![r] = n]
  OBVIOUS
<1>5. Stand(w2) = Stand(s2) /\ w2 \in [Records -> Ident!Names \cup {Ident!Nowhere}]
  BY <1>2, <1>3, <1>4, NamesAre DEF Named, Stand
<1>6. \A s \in Stand(s2) : s1[s] = s1[r] => s2[s] # n
  BY <1>1 DEF Ident!Vacant, Ident!NameFree, Ident!Existing, Stand
<1>7. Named(s1', s2', s3')
  <2>1. \A s \in Stand(w2) : w2[s].dir \in Ident!Months => w2[s].dir \in s3'
    BY <1>1, <1>3, <1>4, <1>5 DEF Named
  <2>2. ASSUME NEW s \in Stand(w2), NEW t \in Stand(w2), s1[s] = s1[t], w2[s] = w2[t]
        PROVE  s = t
    BY <1>2, <1>3, <1>4, <1>5, <1>6, <2>2 DEF Named, Stand
  <2>3. s1' = s1 /\ s2' = w2 /\ s3' \subseteq Ident!Months /\ s1 \in [Records -> IDs]
    BY <1>1, <1>2, <1>3, <1>4 DEF Named
  <2> QED BY <1>5, <2>1, <2>2, <2>3 DEF Named
<1>8. Aliased(s1', s2', s6')
  BY <1>1, <1>2, <1>3, <1>4, <1>5 DEF Aliased
<1>9. ASSUME NEW q \in Processes PROVE Heeds(s1', s2', s4'[q])
  <2>1. PICK c : c = s4[q]
    OBVIOUS
  <2>2. Heeds(s1, s2, c)
    BY <2>1 DEF Current, IdInv
  <2>3. Heeds(s1, w2, [c EXCEPT !.still = @ \ {r}])
    BY <1>3, <1>4, <2>2, MovedHeeds DEF Named
  <2> QED BY <1>1, <1>2, <1>4, <2>1, <2>3
<1>10. s4' \in [Processes -> IdCommands]
  BY <1>2, <1>9 DEF Heeds
<1> QED BY <1>7, <1>8, <1>9, <1>10 DEF Current, IdInv

\* What only sets a process's command.
LEMMA IdentTurn ==
  ASSUME Current, NEW p \in Processes, NEW c, Heeds(s1, s2, c), Ident!Step(p, c),
         s1' = s1, s2' = s2, s3' = s3, s6' = s6
  PROVE  Current'
<1>1. s4' = [s4 EXCEPT ![p] = c]
  BY DEF Ident!Step
<1>2. IdInv(s1, s2, s3, s4', s6)
  BY <1>1, TurnInv DEF Current
<1> QED BY <1>2 DEF Current

LEMMA IdentFree ==
  ASSUME Current
  PROVE  /\ Named(s1, s2, s3) /\ Aliased(s1, s2, s6) /\ Ident!Existing = Stand(s2)
         /\ \A p \in Processes : Heeds(s1, s2, s4[p]) /\ s4[p] \in IdCommands
BY DEF Current, IdInv, Ident!Existing, Stand

LEMMA IdleIs == Ident!Idle \in IdCommands /\ Ident!Idle.partition = "any"
<1>1. Heeds(s1, s2, Ident!Idle)
  BY IdleHeeds
<1> QED BY <1>1 DEF Heeds, Ident!Idle

LEMMA BegunHeeds ==
  ASSUME Named(s1, s2, s3), NEW i \in IDs, NEW m \in ByName,
         NEW call \in {"new", "show"}, NEW b \in IdCommands,
         b = [Ident!Idle EXCEPT !.call = call, !.id = i, !.partition = m]
  PROVE  Heeds(s1, s2, [Ident!Scanning(b) EXCEPT !.still = Stand(s2)])
<1>1. PICK c : c = [b EXCEPT !.still = Stand(s2)]
  OBVIOUS
<1>2. c \in IdCommands /\ c.call = call /\ c.id = i /\ c.still = Stand(s2) /\ c.docs = {}
  <2>1. PICK e : e = Ident!Idle
    OBVIOUS
  <2>2. e \in IdCommands /\ e.docs = {}
    BY <2>1, IdleIs DEF Ident!Idle
  <2>3. b = [e EXCEPT !.call = call, !.id = i, !.partition = m]
    BY <2>1
  <2>4. b.call = call /\ b.id = i /\ b.docs = {}
    BY <2>2, <2>3 DEF IdCommands
  <2>5. Stand(s2) \in SUBSET Records
    BY DEF Stand
  <2> QED BY <1>1, <2>4, <2>5 DEF IdCommands
<1>3. Heeds(s1, s2, Ident!Scanning(c))
  BY <1>2, ScanningHeeds
<1>4. Ident!Scanning(c) = [Ident!Scanning(b) EXCEPT !.still = Stand(s2)]
  BY <1>1 DEF Ident!Scanning, IdCommands
<1> QED BY <1>3, <1>4

LEMMA IdentNew ==
  ASSUME Current, NEW p \in Processes, Ident!New(p)
  PROVE  Current'
<1>1. PICK i \in IDs : Ident!Begin(p, Ident!Scanning([Ident!Idle EXCEPT !.call = "new", !.id = i]))
  BY DEF Ident!New
<1>2. PICK b : b = [Ident!Idle EXCEPT !.call = "new", !.id = i]
  OBVIOUS
<1>3. b \in IdCommands /\ b = [Ident!Idle EXCEPT !.call = "new", !.id = i, !.partition = "any"]
  BY <1>2, IdleIs DEF IdCommands, ByName
<1>4. PICK c : c = [Ident!Scanning(b) EXCEPT !.still = Stand(s2)]
  OBVIOUS
<1>5. Heeds(s1, s2, c)
  BY <1>3, <1>4, BegunHeeds, IdentFree DEF ByName
<1>6. Ident!Step(p, c) /\ s1' = s1 /\ s2' = s2 /\ s3' = s3 /\ s6' = s6
  BY <1>1, <1>2, <1>4, IdentFree DEF Ident!Begin, Ident!store
<1> QED BY <1>5, <1>6, IdentTurn

LEMMA IdentResolve ==
  ASSUME Current, NEW p \in Processes, Ident!Resolve(p)
  PROVE  Current'
<1>1. PICK i \in IDs, m \in ByName :
        Ident!Begin(p, Ident!Scanning([Ident!Idle EXCEPT !.call = "show", !.id = i, !.partition = m]))
  BY DEF Ident!Resolve, ByName
<1>2. PICK b : b = [Ident!Idle EXCEPT !.call = "show", !.id = i, !.partition = m]
  OBVIOUS
<1>3. b \in IdCommands
  BY <1>2, IdleIs DEF IdCommands
<1>4. PICK c : c = [Ident!Scanning(b) EXCEPT !.still = Stand(s2)]
  OBVIOUS
<1>5. Heeds(s1, s2, c)
  BY <1>2, <1>3, <1>4, BegunHeeds, IdentFree
<1>6. Ident!Step(p, c) /\ s1' = s1 /\ s2' = s2 /\ s3' = s3 /\ s6' = s6
  BY <1>1, <1>2, <1>4, IdentFree DEF Ident!Begin, Ident!store
<1> QED BY <1>5, <1>6, IdentTurn

LEMMA IdentScan ==
  ASSUME Current, NEW p \in Processes, Ident!Scan(p)
  PROVE  Current'
<1>1. /\ s4[p].step = "scan" /\ s4[p].todo # <<>> /\ Ident!Step(p, Ident!ReadDir(s4[p]))
      /\ s1' = s1 /\ s2' = s2 /\ s3' = s3 /\ s6' = s6
  BY DEF Ident!Scan, Ident!store
<1>2. Heeds(s1, s2, Ident!ReadDir(s4[p]))
  BY <1>1, IdentFree, ReadHeeds
<1> QED BY <1>1, <1>2, IdentTurn

LEMMA IdentOpen ==
  ASSUME Current, NEW p \in Processes, Ident!Open(p)
  PROVE  Current'
<1>1. PICK c : c = s4[p]
  OBVIOUS
<1>2. PICK r : r = {s \in Stand(s2) : s1[s] = c.id /\ s2[s] = Head(c.found)}
  OBVIOUS
<1>3. PICK mv : mv = (c.moved \/ r = {})
  OBVIOUS
<1>4. PICK d : d = [c EXCEPT !.found = Tail(@),
                             !.docs = @ \cup {[name |-> Head(c.found), record |-> s] : s \in r},
                             !.moved = mv]
  OBVIOUS
<1>5. /\ c.call = "show" /\ c.step = "scan" /\ c.found # <<>>
      /\ s1' = s1 /\ s2' = s2 /\ s3' = s3 /\ s6' = s6
  BY <1>1 DEF Ident!Open, Ident!Scanned, Ident!At, Ident!store
<1>6. c \in IdCommands /\ Heeds(s1, s2, c) /\ Named(s1, s2, s3) /\ Ident!Existing = Stand(s2)
  BY <1>1, IdentFree
<1>7. mv \in BOOLEAN
  BY <1>3
<1>8. Ident!Step(p, d)
  <2>1. Ident!Step(p, [c EXCEPT !.found = Tail(@),
                         !.docs = @ \cup {[name |-> Head(c.found), record |-> s] : s \in r},
                         !.moved = @ \/ r = {}])
    BY <1>1, <1>2, <1>6 DEF Ident!Open
  <2>2. d = [c EXCEPT !.found = Tail(@),
                      !.docs = @ \cup {[name |-> Head(c.found), record |-> s] : s \in r},
                      !.moved = @ \/ r = {}]
    BY <1>3, <1>4
  <2> QED BY <2>1, <2>2
<1>9. Heeds(s1, s2, d)
  BY <1>2, <1>4, <1>5, <1>6, <1>7, OpenHeeds
<1> QED BY <1>5, <1>8, <1>9, IdentTurn

LEMMA IdentGetAll ==
  ASSUME Current, NEW p \in Processes, Ident!GetAll(p)
  PROVE  Current'
<1>1. PICK c : c = s4[p]
  OBVIOUS
<1>2. /\ c.call = "show" /\ c.step = "scan" /\ c.todo = <<>> /\ c.found = <<>>
      /\ s1' = s1 /\ s2' = s2 /\ s3' = s3 /\ s6' = s6
  BY <1>1 DEF Ident!GetAll, Ident!Scanned, Ident!At, Ident!store
<1>3. c \in IdCommands /\ Heeds(s1, s2, c) /\ Named(s1, s2, s3)
  BY <1>1, IdentFree
<1>4. CASE Ident!Step(p, [Ident!Scanning(c) EXCEPT !.docs = {}, !.moved = FALSE, !.tries = @ + 1])
  <2>1. PICK b : b = [c EXCEPT !.docs = {}, !.moved = FALSE, !.tries = @ + 1]
    OBVIOUS
  <2>2. /\ b \in IdCommands /\ b.call = "show" /\ b.id \in IDs
        /\ b.still \subseteq Stand(s2) /\ b.docs = {}
    <3>1. c.call = "show" /\ c.id \in IDs /\ c.still \subseteq Stand(s2) /\ c.tries + 1 \in Nat
      BY <1>2, <1>3 DEF Heeds, IdCommands
    <3> QED BY <1>3, <2>1, <3>1 DEF IdCommands
  <2>3. Heeds(s1, s2, Ident!Scanning(b))
    BY <1>3, <2>2, ScanningHeeds
  <2>4. Ident!Scanning(b) = [Ident!Scanning(c) EXCEPT !.docs = {}, !.moved = FALSE, !.tries = @ + 1]
    BY <1>3, <2>1 DEF Ident!Scanning, IdCommands
  <2>5. Ident!Step(p, Ident!Scanning(b))
    BY <1>4, <2>4
  <2> QED BY <1>2, <2>3, <2>5, IdentTurn
<1>5. CASE Ident!Step(p, [c EXCEPT !.step = "answer"])
  <2>1. PICK d : d = [c EXCEPT !.step = "answer"]
    OBVIOUS
  <2>2. /\ d \in IdCommands /\ d.found = c.found /\ d.docs = c.docs /\ d.ids = c.ids
        /\ d.call = c.call /\ d.step = "answer" /\ d.id = c.id /\ d.todo = c.todo
        /\ d.still = c.still
    BY <1>3, <2>1 DEF IdCommands
  <2>3. Heeds(s1, s2, d)
    BY <1>2, <1>3, <2>2 DEF Heeds, Opened, Seen
  <2>4. Ident!Step(p, d)
    BY <1>5, <2>1
  <2> QED BY <1>2, <2>3, <2>4, IdentTurn
<1> QED BY <1>1, <1>4, <1>5 DEF Ident!GetAll

LEMMA IdentAllIDs ==
  ASSUME Current, NEW p \in Processes, Ident!AllIDs(p)
  PROVE  Current'
<1>1. PICK whole : whole = Ident!WholeStore
  OBVIOUS
<1>2. PICK c : c = [Ident!Idle EXCEPT !.call = "ids", !.step = "list", !.todo = whole,
                                      !.still = Stand(s2)]
  OBVIOUS
<1>3. Ident!Idle.docs = {}
  BY DEF Ident!Idle
<1>4. /\ c \in IdCommands /\ c.call = "ids" /\ c.step = "list" /\ c.todo = whole /\ c.docs = {}
      /\ c.still = Stand(s2)
  BY <1>1, <1>2, <1>3, IdleIs, DirsAre DEF IdCommands, Stand
<1>5. \A r \in Stand(s2) : s2[r].dir \in Ident!Dirs
  BY IdentFree, NamesAre DEF Named, Stand
<1>6. Gathered(s1, s2, c)
  BY <1>1, <1>4, <1>5, DirsAre DEF Gathered
<1>7. Opened(s1, s2, c)
  BY <1>4, FS_EmptySet DEF Opened
<1>8. Heeds(s1, s2, c)
  BY <1>1, <1>4, <1>6, <1>7, DirsAre DEF Heeds
<1>9. Ident!Step(p, c) /\ s1' = s1 /\ s2' = s2 /\ s3' = s3 /\ s6' = s6
  BY <1>1, <1>2, IdentFree, IdleIs DEF Ident!AllIDs, Ident!Begin, Ident!store, IdCommands
<1> QED BY <1>8, <1>9, IdentTurn

LEMMA IdentListIDs ==
  ASSUME Current, NEW p \in Processes, Ident!ListIDs(p)
  PROVE  Current'
<1>1. PICK c : c = s4[p]
  OBVIOUS
<1>2. PICK rest : rest = Tail(c.todo) \o Ident!InArchive(Head(c.todo))
  OBVIOUS
<1>3. PICK ids : ids = c.ids \cup {s1[r] : r \in {s \in Stand(s2) : s2[s].dir = Head(c.todo)}}
  OBVIOUS
<1>4. PICK step : step = IF Len(c.todo) = 1 /\ (Head(c.todo) # "archive" \/ s3 = {})
                         THEN "answer" ELSE "list"
  OBVIOUS
<1>5. PICK d : d = [c EXCEPT !.ids = ids, !.todo = rest, !.step = step]
  OBVIOUS
<1>6. /\ c.call = "ids" /\ c.step = "list"
      /\ s1' = s1 /\ s2' = s2 /\ s3' = s3 /\ s6' = s6
  BY <1>1 DEF Ident!ListIDs, Ident!At, Ident!store
<1>7. c \in IdCommands /\ Heeds(s1, s2, c) /\ Named(s1, s2, s3) /\ Ident!Existing = Stand(s2)
  BY <1>1, IdentFree
<1>8. c.todo \in Seq(Ident!Dirs) /\ c.todo # <<>>
  BY <1>6, <1>7 DEF Heeds, IdCommands
<1>9. /\ rest \in Seq(Ident!Dirs)
      /\ \A x : Due(x, c.todo) /\ (x \in Ident!Months => x \in s3) => x = Head(c.todo) \/ Due(x, rest)
  BY <1>2, <1>7, <1>8, ReadLeaves DEF Named
<1>10. ids \subseteq IDs
  BY <1>3, <1>7 DEF IdCommands, Named, Stand
<1>11. /\ d \in IdCommands /\ d.docs = c.docs /\ d.ids = ids
       /\ d.call = "ids" /\ d.step = step /\ d.id = c.id /\ d.todo = rest /\ d.still = c.still
       /\ step \in {"list", "answer"}
  BY <1>4, <1>5, <1>6, <1>7, <1>9, <1>10 DEF IdCommands
<1>12. Gathered(s1, s2, d)
  <2>1. SUFFICES ASSUME NEW r \in c.still PROVE Due(s2[r].dir, rest) \/ s1[r] \in ids
    BY <1>11 DEF Gathered
  <2>2. r \in Stand(s2) /\ (Due(s2[r].dir, c.todo) \/ s1[r] \in c.ids)
    BY <1>6, <1>7, <2>1 DEF Heeds, Gathered
  <2> QED BY <1>3, <1>7, <1>9, <2>2 DEF Named
<1>13. step = "answer" <=> rest = <<>>
  <2>1. PICK t, a : t = Tail(c.todo) /\ a = Ident!InArchive(Head(c.todo))
    OBVIOUS
  <2>2. t \in Seq(Ident!Dirs) /\ Len(t) = Len(c.todo) - 1 /\ Len(c.todo) \in Nat /\ Len(t) \in Nat
    BY <1>8, <2>1, HeadTailProperties, LenProperties
  <2>3. a \in Seq(Ident!Months) /\ (Len(a) = 0 <=> Head(c.todo) # "archive" \/ s3 = {}) /\ Len(a) \in Nat
    <3>1. CASE Head(c.todo) = "archive"
      <4>1. s3 \subseteq Ident!Months
        BY <1>7 DEF Named
      <4>2. a \in Seq(s3) /\ (a = <<>> <=> s3 = {})
        BY <2>1, <3>1, <4>1, OpenArchive
      <4>3. a \in Seq(Ident!Months)
        BY <4>1, <4>2
      <4>4. Len(a) \in Nat /\ (Len(a) = 0 <=> a = <<>>)
        BY <4>3, LenProperties, EmptySeq
      <4> QED BY <3>1, <4>2, <4>3, <4>4
    <3>2. CASE Head(c.todo) # "archive"
      BY <2>1, <3>2 DEF Ident!InArchive
    <3> QED BY <3>1, <3>2
  <2>4. Len(t \o a) = Len(t) + Len(a) /\ t \o a \in Seq(Ident!Dirs)
    <3>1. a \in Seq(Ident!Dirs)
      BY <2>3 DEF Ident!Dirs
    <3> QED BY <2>2, <3>1, ConcatProperties
  <2>5. Len(t \o a) = 0 <=> t \o a = <<>>
    BY <2>4, EmptySeq
  <2>6. Len(t) + Len(a) = 0 <=> Len(c.todo) = 1 /\ (Head(c.todo) # "archive" \/ s3 = {})
    <3>1. PICK n, k, j : n = Len(c.todo) /\ k = Len(t) /\ j = Len(a)
      OBVIOUS
    <3>2. n \in Nat /\ k \in Nat /\ j \in Nat /\ k = n - 1
      BY <2>2, <2>3, <3>1
    <3>3. k + j = 0 <=> n = 1 /\ j = 0
      BY <3>2
    <3> QED BY <2>3, <3>1, <3>3, Zenon
  <2> QED BY <1>2, <1>4, <2>1, <2>4, <2>5, <2>6
<1>14. Heeds(s1, s2, d)
  BY <1>6, <1>7, <1>11, <1>12, <1>13 DEF Heeds, Opened
<1>15. Ident!Step(p, d)
  BY <1>1, <1>2, <1>3, <1>4, <1>5, <1>7 DEF Ident!ListIDs
<1> QED BY <1>6, <1>14, <1>15, IdentTurn

LEMMA IdentAnswered ==
  ASSUME Current, NEW p \in Processes, Ident!Answered(p)
  PROVE  Current'
BY IdleHeeds, IdentTurn DEF Ident!Answered, Ident!store

\* A record that is made under a free name, of an id that no record bore which stood
\* still during the scan.
LEMMA IdentMade ==
  ASSUME Current, NEW p \in Processes, Ident!Scanned(p, "new"), Ident!Free(s4[p]),
         NEW n \in Ident!Name("available") \cup Ident!Name("pending"), Ident!NameFree(s4[p].id, n),
         NEW r \in Records \ Ident!Existing,
         s1' = [s1 EXCEPT ![r] = s4[p].id], s2' = [s2 EXCEPT ![r] = n],
         s6' = s6 \cup {{r, s} : s \in {s \in Ident!Existing : s1[s] = s4[p].id /\ s \notin s4[p].still}},
         Ident!Step(p, Ident!Idle), s3' = s3
  PROVE  Current'
<1>1. PICK c : c = s4[p]
  OBVIOUS
<1>2. /\ c \in IdCommands /\ Heeds(s1, s2, c) /\ Named(s1, s2, s3) /\ Aliased(s1, s2, s6)
      /\ Ident!Existing = Stand(s2)
  BY <1>1, IdentFree
<1>3. c.call = "new" /\ c.step = "scan" /\ c.todo = <<>> /\ c.found = <<>> /\ c.docs = {} /\ c.id \in IDs
  BY <1>1, <1>2 DEF Ident!Scanned, Ident!At, Ident!Free, Heeds
<1>4. \A s \in c.still : s1[s] # c.id
  <2>1. \A d : ~Due(d, <<>>)
    BY DEF Due, Ident!ToSet
  <2>2. \A x : x \notin Ident!ToSet(<<>>)
    BY DEF Ident!ToSet
  <2> QED BY <1>2, <1>3, <2>1, <2>2 DEF Heeds, Seen
<1>5. PICK i2, w2 : i2 = [s1 EXCEPT ![r] = c.id] /\ w2 = [s2 EXCEPT ![r] = n]
  OBVIOUS
<1>6. s1' = i2 /\ s2' = w2 /\ r \in Records /\ r \notin Stand(s2)
  BY <1>1, <1>2, <1>5
<1>7. n \in Ident!Names /\ n.dir \in {"available", "pending"}
  BY NamesAre DEF Ident!Dirs, Ident!ToSet, Ident!Name, Ident!Names, Ident!activeStates
<1>8. /\ Stand(w2) = Stand(s2) \cup {r} /\ i2[r] = c.id /\ w2[r] = n
      /\ \A s \in Stand(s2) : i2[s] = s1[s] /\ w2[s] = s2[s]
      /\ i2 \in [Records -> IDs] /\ w2 \in [Records -> Ident!Names \cup {Ident!Nowhere}]
  BY <1>2, <1>3, <1>5, <1>6, <1>7, NamesAre DEF Named, Stand
<1>9. n.dir \notin Ident!Months
  BY <1>7, IdentAssumption DEF Ident!IdentityAssumption, Ident!ToSet, Ident!activeStates
<1>10. Named(i2, w2, s3)
  <2>1. \A s \in Stand(w2) : w2[s].dir \in Ident!Months => w2[s].dir \in s3
    BY <1>2, <1>8, <1>9 DEF Named
  <2>2. \A s \in Stand(s2) : s1[s] = c.id => s2[s] # n
    BY <1>1, <1>2 DEF Ident!NameFree
  <2>3. ASSUME NEW s \in Stand(w2), NEW t \in Stand(w2), i2[s] = i2[t], w2[s] = w2[t]
        PROVE  s = t
    BY <1>2, <1>8, <2>2, <2>3 DEF Named
  <2> QED BY <1>2, <1>8, <2>1, <2>3 DEF Named
<1>11. Aliased(i2, w2, s6')
  <2>1. SUFFICES ASSUME NEW s \in Stand(w2), NEW t \in Stand(w2), i2[s] = i2[t], s # t
                 PROVE  {s, t} \in s6'
    BY DEF Aliased
  <2>2. \A x \in Stand(s2) : s1[x] = c.id => {r, x} \in s6'
    BY <1>1, <1>2, <1>4
  <2>3. CASE s \in Stand(s2) /\ t \in Stand(s2)
    BY <1>2, <1>8, <2>1, <2>3 DEF Aliased
  <2>4. CASE s = r
    BY <1>8, <2>1, <2>2, <2>4
  <2>5. CASE t = r
    <3>1. {r, s} \in s6'
      BY <1>8, <2>1, <2>2, <2>5
    <3>2. {r, s} = {s, t}
      BY <2>5
    <3> QED BY <3>1, <3>2
  <2> QED BY <1>8, <2>3, <2>4, <2>5
<1>12. \A q \in Processes : Heeds(i2, w2, s4[q])
  BY <1>8, IdentFree, CreatedHeeds
<1>13. IdInv(i2, w2, s3, s4, s6')
  BY <1>10, <1>11, <1>12, IdentFree DEF Current, IdInv
<1>14. s4' = [s4 EXCEPT ![p] = Ident!Idle]
  BY DEF Ident!Step
<1>15. IdInv(i2, w2, s3, s4', s6')
  BY <1>13, <1>14, IdleHeeds, TurnInv
<1> QED BY <1>6, <1>15 DEF Current

LEMMA IdentRemint ==
  ASSUME Current, NEW p \in Processes, Ident!Scanned(p, "new"), Ident!Remint(p),
         s1' = s1, s2' = s2, s3' = s3, s6' = s6
  PROVE  Current'
<1>1. PICK c : c = s4[p]
  OBVIOUS
<1>2. c \in IdCommands /\ Heeds(s1, s2, c) /\ Named(s1, s2, s3) /\ Ident!Existing = Stand(s2)
  BY <1>1, IdentFree
<1>3. c.call = "new" /\ c.docs = {}
  BY <1>1, <1>2 DEF Ident!Scanned, Ident!At, Heeds
<1>4. CASE Ident!Step(p, Ident!Idle)
  BY <1>4, IdleHeeds, IdentTurn
<1>5. CASE \E i \in IDs : Ident!Step(p, [Ident!Scanning(c) EXCEPT !.id = i, !.tries = @ + 1,
                                                                  !.still = Stand(s2)])
  <2>1. PICK i \in IDs : Ident!Step(p, [Ident!Scanning(c) EXCEPT !.id = i, !.tries = @ + 1,
                                                                 !.still = Stand(s2)])
    BY <1>5
  <2>2. PICK b : b = [c EXCEPT !.id = i, !.tries = @ + 1, !.still = Stand(s2)]
    OBVIOUS
  <2>3. c.tries + 1 \in Nat
    BY <1>2 DEF IdCommands
  <2>4. b \in IdCommands /\ b.call = "new" /\ b.id \in IDs /\ b.still = Stand(s2) /\ b.docs = {}
    BY <1>2, <1>3, <2>2, <2>3 DEF IdCommands, Stand
  <2>5. Heeds(s1, s2, Ident!Scanning(b))
    BY <1>2, <2>4, ScanningHeeds
  <2>6. Ident!Scanning(b) = [Ident!Scanning(c) EXCEPT !.id = i, !.tries = @ + 1, !.still = Stand(s2)]
    BY <1>2, <2>2 DEF Ident!Scanning, IdCommands
  <2>7. Ident!Step(p, Ident!Scanning(b))
    BY <2>1, <2>6
  <2> QED BY <2>5, <2>7, IdentTurn
<1> QED BY <1>1, <1>2, <1>4, <1>5 DEF Ident!Remint

LEMMA IdentCreate ==
  ASSUME Current, NEW p \in Processes, Ident!Create(p)
  PROVE  Current'
<1>1. Ident!Scanned(p, "new") /\ s3' = s3
  BY DEF Ident!Create
<1>2. PICK n \in Ident!Name("available") \cup Ident!Name("pending") :
        \/ /\ Ident!Free(s4[p]) /\ Ident!NameFree(s4[p].id, n)
           /\ \E r \in Records \ Ident!Existing :
                /\ s1' = [s1 EXCEPT ![r] = s4[p].id]
                /\ s2' = [s2 EXCEPT ![r] = n]
                /\ s6' = s6 \cup {{r, s} : s \in {s \in Ident!Existing :
                                                    s1[s] = s4[p].id /\ s \notin s4[p].still}}
           /\ Ident!Step(p, Ident!Idle)
        \/ Ident!Remint(p) /\ s1' = s1 /\ s2' = s2 /\ s6' = s6
  BY DEF Ident!Create
<1>3. CASE Ident!Remint(p) /\ s1' = s1 /\ s2' = s2 /\ s6' = s6
  BY <1>1, <1>3, IdentRemint
<1>4. ASSUME Ident!Free(s4[p]), Ident!NameFree(s4[p].id, n), Ident!Step(p, Ident!Idle),
             NEW r \in Records \ Ident!Existing,
             s1' = [s1 EXCEPT ![r] = s4[p].id], s2' = [s2 EXCEPT ![r] = n],
             s6' = s6 \cup {{r, s} : s \in {s \in Ident!Existing :
                                              s1[s] = s4[p].id /\ s \notin s4[p].still}}
      PROVE  Current'
  BY <1>1, <1>4, IdentMade
<1> QED BY <1>2, <1>3, <1>4

LEMMA IdentNext ==
  ASSUME Current, [Ident!Next]_Ident!vars
  PROVE  Current'
<1>1. CASE UNCHANGED Ident!vars
  BY <1>1 DEF Ident!vars, Current
<1>2. ASSUME NEW r \in Records, Ident!Move(r) PROVE Current'
  BY <1>2, IdentMove
<1>3. ASSUME NEW p \in Processes, Ident!Run(p) PROVE Current'
  BY <1>3, IdentNew, IdentCreate, IdentResolve, IdentOpen, IdentGetAll, IdentScan, IdentAllIDs,
     IdentListIDs, IdentAnswered DEF Ident!Run
<1> QED BY <1>1, <1>2, <1>3 DEF Ident!Next

LEMMA IdentKeepsInv == Ident!Spec => []Current
<1>1. Ident!Init => Current
  BY IdentInit DEF Current
<1>2. Current /\ [Ident!Next]_Ident!vars => Current'
  BY IdentNext
<1> QED BY <1>1, <1>2, PTL DEF Ident!Spec

LEMMA IdentTyped == Current => Ident!TypeOK
BY DEF Current, IdInv, Named, Ident!TypeOK, Ident!Existing, Stand

LEMMA IdentAliased == Current => Ident!NoSilentAlias
BY DEF Current, IdInv, Aliased, Ident!NoSilentAlias, Ident!Existing, Stand

\* The only record of a finite set that has one.
LEMMA OnlyOne ==
  ASSUME NEW S, IsFiniteSet(S), Cardinality(S) = 1, NEW x \in S, NEW y \in S
  PROVE  x = y
<1>1. Cardinality(S \ {x}) = 0 /\ IsFiniteSet(S \ {x})
  BY FS_RemoveElement
<1> QED BY <1>1, FS_EmptySet

LEMMA ResolvedIs ==
  ASSUME NEW docs, NEW m, NEW kept, NEW live, IsFiniteSet(kept), IsFiniteSet(live),
         kept = {d \in docs : Ident!Qualifies(d.name.dir, m)},
         live = {d \in kept : d.name.dir \in Ident!liveStates}
  PROVE  LET a == Ident!ResolveUnique(docs, m) IN
         \/ kept = {} /\ a = "not_found"
         \/ Cardinality(kept) = 1 /\ \E d \in kept : a = d.record
         \/ Cardinality(live) = 1 /\ \E d \in live : a = d.record
         \/ kept # {} /\ a = "ambiguous_id"
<1> DEFINE K == {d \in docs : Ident!Qualifies(d.name.dir, m)}
           L == {d \in K : d.name.dir \in Ident!liveStates}
<1>1. PICK a : a = Ident!ResolveUnique(docs, m)
  OBVIOUS
<1>2. a = CASE K = {} -> "not_found"
            [] Ident!Cardinality(K) = 1 -> (CHOOSE d \in K : TRUE).record
            [] Ident!Cardinality(K) > 1 /\ Ident!Cardinality(L) = 1 -> (CHOOSE d \in L : TRUE).record
            [] OTHER -> "ambiguous_id"
  BY <1>1, Zenon DEF Ident!ResolveUnique
<1>3. K = kept /\ L = live
  OBVIOUS
<1> HIDE DEF K, L
<1>4. PICK n, k : n = Ident!Cardinality(K) /\ k = Ident!Cardinality(L)
  OBVIOUS
<1>5. n \in Nat /\ n = Cardinality(kept) /\ k = Cardinality(live) /\ (n = 0 <=> kept = {}) /\ (k = 1 => live # {})
  BY <1>3, <1>4, SameSize, FS_CardinalityType, FS_EmptySet
<1>6. PICK x, y : x = (CHOOSE d \in K : TRUE) /\ y = (CHOOSE d \in L : TRUE)
  OBVIOUS
<1>7. (K # {} => x \in K) /\ (L # {} => y \in L)
  BY <1>6
<1>8. a = CASE K = {} -> "not_found"
            [] n = 1 -> x.record
            [] n > 1 /\ k = 1 -> y.record
            [] OTHER -> "ambiguous_id"
  BY <1>2, <1>4, <1>6
<1>9. CASE K = {}
  BY <1>1, <1>3, <1>5, <1>8, <1>9
<1>10. CASE n = 1
  BY <1>1, <1>3, <1>5, <1>7, <1>8, <1>10
<1>11. CASE K # {} /\ n > 1 /\ k = 1
  BY <1>1, <1>3, <1>5, <1>7, <1>8, <1>11
<1>12. CASE K # {} /\ n # 1 /\ ~(n > 1 /\ k = 1)
  BY <1>1, <1>3, <1>5, <1>8, <1>12
<1> QED BY <1>1, <1>9, <1>10, <1>11, <1>12

LEMMA ShownRight ==
  ASSUME Current, NEW p \in Processes, Ident!At(p, "show", "answer")
  PROVE  LET c == s4[p]
             read(r) == {d \in c.docs : d.record = r /\ Ident!Qualifies(d.name.dir, c.partition)}
             good(r) == s1[r] = c.id /\ Ident!Qualifies(s2[r].dir, c.partition) IN
         /\ \A r \in c.still : good(r) => Ident!Answer(p) # "not_found"
         /\ Ident!Answer(p) \in Records =>
              /\ s1[Ident!Answer(p)] = c.id /\ read(Ident!Answer(p)) # {}
              /\ \A s \in c.still \ {Ident!Answer(p)} : good(s) =>
                   /\ s2[s].dir \notin Ident!liveStates
                   /\ \E d \in read(Ident!Answer(p)) : d.name.dir \in Ident!liveStates
<1>1. PICK c : c = s4[p]
  OBVIOUS
<1>2. PICK kept : kept = {d \in c.docs : Ident!Qualifies(d.name.dir, c.partition)}
  OBVIOUS
<1>3. PICK live : live = {d \in kept : d.name.dir \in Ident!liveStates}
  OBVIOUS
<1>4. PICK a : a = Ident!Answer(p)
  OBVIOUS
<1>5. /\ c \in IdCommands /\ Heeds(s1, s2, c) /\ c.call = "show" /\ c.step = "answer"
      /\ c.todo = <<>> /\ c.found = <<>>
  BY <1>1, IdentFree DEF Ident!At, Heeds
<1>6. \A s \in c.still : s1[s] = c.id => [name |-> s2[s], record |-> s] \in c.docs
  <2>1. \A d : ~Due(d, <<>>)
    BY DEF Due, Ident!ToSet
  <2>2. \A x : x \notin Ident!ToSet(<<>>)
    BY DEF Ident!ToSet
  <2> QED BY <1>5, <2>1, <2>2 DEF Heeds, Seen
<1>7. \A s \in c.still : s1[s] = c.id /\ Ident!Qualifies(s2[s].dir, c.partition)
                           => [name |-> s2[s], record |-> s] \in kept
  BY <1>2, <1>6
<1>8. IsFiniteSet(kept) /\ IsFiniteSet(live) /\ \A d \in kept : s1[d.record] = c.id /\ d.record \in Records
  <2>1. IsFiniteSet(c.docs) /\ \A d \in c.docs : s1[d.record] = c.id /\ d.record \in Records
    BY <1>5 DEF Heeds, Opened, Stand
  <2> QED BY <1>2, <1>3, <2>1, FS_Subset
<1>9. /\ "not_found" \notin Records /\ "ambiguous_id" \notin Records
  BY IdentAssumption DEF Ident!IdentityAssumption
<1>10. Cardinality(kept) \in Nat /\ (Cardinality(kept) = 0 <=> kept = {})
  BY <1>8, FS_CardinalityType, FS_EmptySet
<1>11. \/ kept = {} /\ a = "not_found"
       \/ Cardinality(kept) = 1 /\ \E d \in kept : a = d.record
       \/ Cardinality(live) = 1 /\ \E d \in live : a = d.record
       \/ kept # {} /\ a = "ambiguous_id"
  BY <1>1, <1>2, <1>3, <1>4, <1>8, ResolvedIs DEF Ident!Answer
<1>12. ASSUME NEW d \in kept, a = d.record,
              NEW s \in c.still, s # a, s1[s] = c.id, Ident!Qualifies(s2[s].dir, c.partition),
              Cardinality(kept) = 1
       PROVE  FALSE
  <2>1. [name |-> s2[s], record |-> s] = d
    BY <1>7, <1>8, <1>12, OnlyOne
  <2> QED BY <1>12, <2>1
<1>13. ASSUME NEW d \in live, a = d.record,
              NEW s \in c.still, s # a, s1[s] = c.id, Ident!Qualifies(s2[s].dir, c.partition),
              Cardinality(live) = 1
       PROVE  s2[s].dir \notin Ident!liveStates
  <2>1. SUFFICES ASSUME s2[s].dir \in Ident!liveStates PROVE FALSE
    OBVIOUS
  <2>2. [name |-> s2[s], record |-> s] \in live
    BY <1>3, <1>7, <1>13, <2>1
  <2>3. [name |-> s2[s], record |-> s] = d
    BY <1>8, <1>13, <2>2, OnlyOne
  <2> QED BY <1>13, <2>3
<1> DEFINE read == {d \in c.docs : d.record = a /\ Ident!Qualifies(d.name.dir, c.partition)}
<1>14. /\ \A d \in kept : a = d.record => d \in read
       /\ \A d \in live : a = d.record => d \in read /\ d.name.dir \in Ident!liveStates /\ d \in kept
  BY <1>2, <1>3
<1>15. ASSUME NEW r \in c.still, s1[r] = c.id, Ident!Qualifies(s2[r].dir, c.partition)
       PROVE  a # "not_found"
  <2>1. kept # {}
    BY <1>7, <1>15
  <2> QED BY <1>3, <1>8, <1>9, <1>11, <2>1
<1>16. ASSUME a \in Records
       PROVE  /\ s1[a] = c.id /\ read # {}
              /\ \A s \in c.still \ {a} : s1[s] = c.id /\ Ident!Qualifies(s2[s].dir, c.partition) =>
                   s2[s].dir \notin Ident!liveStates /\ \E d \in read : d.name.dir \in Ident!liveStates
  <2>1. CASE Cardinality(kept) = 1 /\ \E d \in kept : a = d.record
    BY <1>8, <1>12, <1>14, <2>1
  <2>2. CASE Cardinality(live) = 1 /\ \E d \in live : a = d.record
    BY <1>8, <1>13, <1>14, <2>2
  <2> QED BY <1>9, <1>11, <1>16, <2>1, <2>2
<1> QED BY <1>1, <1>4, <1>15, <1>16

LEMMA IdentAnsweredRight == Current => Ident!AnsweredRight
<1> SUFFICES ASSUME Current PROVE Ident!AnsweredRight
  OBVIOUS
<1>1. ASSUME NEW p \in Processes, Ident!At(p, "ids", "answer"), NEW r \in s4[p].still
      PROVE  s1[r] \in s4[p].ids
  <2>1. \A d : ~Due(d, <<>>)
    BY DEF Due, Ident!ToSet
  <2>2. Gathered(s1, s2, s4[p]) /\ s4[p].todo = <<>>
    BY <1>1, IdentFree DEF Heeds, Ident!At
  <2> QED BY <1>1, <2>1, <2>2 DEF Gathered
<1> QED BY <1>1, ShownRight DEF Ident!AnsweredRight

OfIdent == part = "identity"

LEMMA IdentStays == Spec => []OfIdent \/ []~OfIdent
<1>1. OfIdent /\ [Next]_vars => OfIdent'
  BY PartStays DEF OfIdent
<1>2. ~OfIdent /\ [Next]_vars => (~OfIdent)'
  BY PartStays DEF OfIdent
<1> QED BY <1>1, <1>2, PTL DEF Spec

LEMMA IdentStep ==
  ASSUME OfIdent, [Next]_vars
  PROVE  [Ident!Next]_Ident!vars
<1>1. CASE UNCHANGED vars
  BY <1>1 DEF vars, Ident!vars
<1>2. CASE Next
  BY <1>2 DEF Next, OfIdent, OfDocuments, OfShelving, OfCompletion, OfSpend, OfIdentity,
       OfListing, Ident!Next, Ident!Run
<1> QED BY <1>1, <1>2

LEMMA IdentIsIdentity == Spec /\ []OfIdent => Ident!Spec
<1>1. Init /\ OfIdent => Ident!Init
  BY DEF Init, OfIdent
<1>2. OfIdent /\ [Next]_vars => [Ident!Next]_Ident!vars
  BY IdentStep
<1> QED BY <1>1, <1>2, PTL DEF Spec, Ident!Spec

\* No new item shares its id with one that stood by while the new one was made (Create,
\* Locate).
THEOREM IdsAreNew == Spec => []NoSilentAlias
<1>1. Current => Ident!NoSilentAlias
  BY IdentAliased
<1>2. OfIdent /\ Ident!NoSilentAlias => NoSilentAlias
  BY DEF NoSilentAlias
<1>3. ~OfIdent => NoSilentAlias
  BY DEF OfIdent, NoSilentAlias
<1> QED BY <1>1, <1>2, <1>3, IdentKeepsInv, IdentStays, IdentIsIdentity, PTL

\* An id gets the right answer, or none, while records move (ResolveUnique, GetAll, IDs).
THEOREM AnswersAreRight == Spec => []AnsweredRight
<1>1. Current => Ident!AnsweredRight
  BY IdentAnsweredRight
<1>2. OfIdent /\ Ident!AnsweredRight => AnsweredRight
  BY DEF AnsweredRight
<1>3. ~OfIdent => AnsweredRight
  BY DEF OfIdent, AnsweredRight
<1> QED BY <1>1, <1>2, <1>3, IdentKeepsInv, IdentStays, IdentIsIdentity, PTL

-------------------------------------------------------------------------------
(***************************************************************************)
(* Types.                                                                  *)
(***************************************************************************)
\* Of whichever component a behaviour is, its variables have the types of that component's
\* module, with what goes beside them there: one harvest at a time, one record to a name.
THEOREM PartsTypes == Spec => []TypeOK
<1>1. Finish!Spec => []Finish!TypeOK
  BY FinishAssumption, Finish!CompletionTypes
<1>2. Report!Spec => []Report!TypeOK
  BY ReportAssumption, Report!ListingTypes
<1>3. Shelf!Spec => []Shelf!TypeOK
  BY ShelfAssumption, Shelf!ShelvingTypes
<1>4. Document => Doc!TypeOK
  BY DocTyped
<1>5. Current => Ident!TypeOK
  BY IdentTyped
<1>6. Billed => Bill!TypeOK
  BY BillTyped
<1>7. /\ OfFinish /\ Finish!TypeOK => TypeOK
      /\ OfReport /\ Report!TypeOK => TypeOK
      /\ OfShelf /\ Shelf!TypeOK => TypeOK
      /\ OfDoc /\ Doc!TypeOK => TypeOK
      /\ OfIdent /\ Ident!TypeOK => TypeOK
      /\ OfBill /\ Bill!TypeOK => TypeOK
  BY DEF TypeOK, OfFinish, OfReport, OfShelf, OfDoc, OfIdent, OfBill
<1>8. Init => OfFinish \/ OfReport \/ OfShelf \/ OfDoc \/ OfIdent \/ OfBill
  BY DEF Init, OfFinish, OfReport, OfShelf, OfDoc, OfIdent, OfBill
<1> QED BY <1>1, <1>2, <1>3, <1>4, <1>5, <1>6, <1>7, <1>8, FinishStays, FinishIsCompletion,
           ReportStays, ReportIsListing, ShelfStays, ShelfIsShelving, DocKeepsInv, DocStays,
           DocIsDocuments, IdentKeepsInv, IdentStays, IdentIsIdentity, BillKeepsInv, BillStays,
           BillIsSpend, PTL DEF Spec
===============================================================================
