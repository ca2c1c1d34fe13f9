------------------------------- MODULE MCParts -------------------------------
\* Instances for TLC of six components that share no state in these models: which of
\* them a behaviour is about is chosen in its initial state, and the variables s1, s2,
\* ... stand for the variables of that one.
EXTENDS Naturals, Sequences, TLC

CONSTANTS
  Processes, Records, t1, t2, None,
  Title, Workflow, Horizon, Bodies, Texts, Older, MaxEdits,
  AgentNames, ItemIDs, Assigned, ItemTags, Repo, MaxTime, MaxCrashes,
  IDs, Holders, Partitions, Moves, Taken, MaxCommands, MaxMoves, MaxAttempts, MaxRescans

VARIABLES part, s1, s2, s3, s4, s5, s6, s7, s8, s9
vars == <<part, s1, s2, s3, s4, s5, s6, s7, s8, s9>>

\* Documents: bodies of one or two lines, out of the lines that its guards read.
Line(kind) == [kind |-> kind, text |-> None, key |-> None, val |-> None, form |-> None]
TitleLine(t) == [Line("title") EXCEPT !.text = t]
Key(k, v, form) == [Line("key") EXCEPT !.key = k, !.val = v, !.form = form]
Lines ==
  {Line("prose"), Line("fence"), Line("section"), TitleLine(t1), TitleLine(t2),
   Key("workflow", "gh-issue", "plain"), Key("workflow", "gh-issue", "indented"),
   Key("stage", "other", "plain")}
OneLine == [1 .. 1 -> Lines]
TwoLines == OneLine \cup [1 .. 2 -> Lines]
TwoTitles == {t1, t2}
OldDocs == [body : TwoLines, tags : {{}, {"gh-issue"}}]
Doc == INSTANCE Documents WITH
  Stored <- Older, doc <- s1, origin <- s2, named <- s3, edits <- s4
ASSUME DocAssumption == Doc!DocumentsAssumption

\* Shelving: b depends on a, c on both, and c is the successor that a declares.
Chain == {"a", "b", "c"}
Depends == "a" :> {} @@ "b" :> {"a"} @@ "c" :> {"a", "b"}
Successors == "a" :> {"c"} @@ "b" :> {} @@ "c" :> {}
Tagged == {"c"}
Asking == {"b"}
Declares == {"a"}
Shelf == INSTANCE Shelving_proofs WITH
  Items <- Chain,
  MaxCommands <- 2, MaxMoves <- 1, MaxCrashes <- 1,
  at <- s1, rec <- s2, from <- s3, stack <- s4, run <- s5, left <- s6, came <- s7, hid <- s8, told <- s9
ASSUME ShelfAssumption == Shelf!ShelvingAssumption

\* Completion: x is finished while its tags change, y may be its successor.
FinishTags == {<<"declares-remainder", "none">>, <<"blocked-on", "none">>, <<"succ", "y">>}
Pair == {"x", "y"}
Finished == {"x"}
Finish == INSTANCE Completion_proofs WITH
  Items <- Pair, Designs <- Finished,
  EditedTags <- FinishTags,
  MaxCommands <- 2, MaxMoves <- 1,
  at <- s1, tags <- s2, result <- s3, cmd <- s4, left <- s5, kept <- s6, named <- s7
ASSUME FinishAssumption == Finish!CompletionAssumption

\* Spend: one agent, two items.
OneAgent == <<"alice">>
TwoItems == <<"x", "y">>
Registry == "alice" :> "x"
TagsOfTwo == "x" :> {"red", "blue"} @@ "y" :> {}
RepoOfTwo == "x" :> "mg" @@ "y" :> "none"
Bill == INSTANCE Spend WITH
  Tags <- ItemTags, clock <- s1, log <- s2, spoken <- s3, store <- s4, cmd <- s5, left <- s6
ASSUME BillAssumption == Bill!SpendAssumption

\* Identity: one item, or two of one id, while it is claimed, given back, completed,
\* archived and unarchived.
OneID == {"i"}
TwoHolders == {"h1", "h2"}
OneMonth == <<"m1">>
MovesOfOne ==
  { <<"available", "claimed">>, <<"claimed", "available">>, <<"claimed", "claimed">>,
    <<"claimed", "done">>, <<"done", "m1">>, <<"m1", "available">>, <<"archive", "available">> }
TakenByOlder == {"available", "claimed", "archive", "m1"}
Ident == INSTANCE Identity WITH
  id <- s1, where <- s2, months <- s3, cmd <- s4, left <- s5, excused <- s6
ASSUME IdentAssumption == Ident!IdentityAssumption

\* Listing: a report treats each item by itself, so one item.
Listed == {"i"}
Steps == "list" :> 3 @@ "flow" :> 2
Report == INSTANCE Listing_proofs WITH
  Items <- Listed, Holders <- Processes, BlockedAfter <- 1, MaxMoves <- Steps, MaxTime <- 2,
  at <- s1, nth <- s2, since <- s3, log <- s4, owing <- s5, clock <- s6, job <- s7, left <- s8
ASSUME ReportAssumption == Report!ListingAssumption

-------------------------------------------------------------------------------
Symmetry == Permutations(Processes) \cup Permutations(Records)

\* One of them, and the variables it has no use for.
OfDocuments == part = "documents" /\ UNCHANGED <<part, s5, s6, s7, s8, s9>>
OfShelving == part = "shelving" /\ UNCHANGED part
OfCompletion == part = "completion" /\ UNCHANGED <<part, s8, s9>>
OfSpend == part = "spend" /\ UNCHANGED <<part, s7, s8, s9>>
OfIdentity == part = "identity" /\ UNCHANGED <<part, s7, s8, s9>>
OfListing == part = "listing" /\ ~s7.shown /\ UNCHANGED <<part, s9>>

\* Of the ways to be on the shelf: a was claimed, b may be held by its own shelve,
\* c has been hidden with b, or is filed later.  What becomes of a result does not
\* depend on the tags, so an item that is finished has one or the other at first.
Init ==
  \/ part = "documents" /\ Doc!Init /\ s5 = 0 /\ s6 = 0 /\ s7 = 0 /\ s8 = 0 /\ s9 = 0
  \/ /\ part = "shelving" /\ Shelf!Init
     /\ s1["a"] \in {"claimed", "shelved"} /\ s7["a"] \in {"none", "claimed"}
     /\ s8["b"] # "filed" /\ s8["c"] \in {"none", "b"}
     /\ s1["b"] = "shelved" => s1["c"] # "pending"
  \/ /\ part = "completion" /\ Finish!Init /\ s8 = 0 /\ s9 = 0
     /\ s2["x"] = {} \/ s6["x"] = {}
  \/ part = "spend" /\ Bill!Init /\ s7 = 0 /\ s8 = 0 /\ s9 = 0
  \/ part = "identity" /\ Ident!Init /\ s7 = 0 /\ s8 = 0 /\ s9 = 0
  \/ part = "listing" /\ Report!Init /\ s9 = 0

\* Of the chain a process dies or another command moves an item, not both.
Next ==
  \/ OfDocuments /\ Doc!Create
  \/ OfDocuments /\ Doc!Edit
  \/ \E p \in Processes, i \in Chain : OfShelving /\ Shelf!Shelve(p, i)
  \/ \E p \in Processes, i \in Chain : OfShelving /\ Shelf!Unshelve(p, i)
  \/ \E p \in Processes, i \in Chain : OfShelving /\ Shelf!New(p, i)
  \/ \E p \in Processes : OfShelving /\ Shelf!ShelveByTag(p)
  \/ \E p \in Processes : OfShelving /\ Shelf!UnshelveByTag(p)
  \/ \E p \in Processes : OfShelving /\ Shelf!Guard(p)
  \/ \E p \in Processes : OfShelving /\ Shelf!Read(p)
  \/ \E p \in Processes : OfShelving /\ Shelf!Hide(p)
  \/ \E p \in Processes : OfShelving /\ Shelf!List(p)
  \/ \E p \in Processes : OfShelving /\ Shelf!Cascade(p)
  \/ \E p \in Processes : OfShelving /\ Shelf!Emit(p)
  \/ \E p \in Processes : OfShelving /\ Shelf!ReadShelved(p)
  \/ \E p \in Processes : OfShelving /\ Shelf!Restore(p)
  \/ \E p \in Processes : OfShelving /\ Shelf!EmitRestored(p)
  \/ \E p \in Processes : OfShelving /\ Shelf!Pull(p)
  \/ \E p \in Processes : OfShelving /\ Shelf!Finish(p)
  \/ \E p \in Processes : OfShelving /\ Shelf!ShelveTagged(p)
  \/ \E p \in Processes : OfShelving /\ Shelf!UnshelveTagged(p)
  \/ \E p \in Processes : OfShelving /\ Shelf!Classify(p)
  \/ \E p \in Processes : OfShelving /\ Shelf!Create(p)
  \/ \E p \in Processes : OfShelving /\ s6.moves > 0 /\ Shelf!Crash(p)
  \/ \E i \in Chain : OfShelving /\ s6.crashes > 0 /\ Shelf!Elsewhere(i)
  \/ \E p \in Processes : OfCompletion /\ Finish!Done(p, "x")
  \/ \E p \in Processes : OfCompletion /\ Finish!ArchiveItem(p, "x")
  \/ \E p \in Processes : OfCompletion /\ Finish!Sweep(p)
  \/ \E p \in Processes : OfCompletion /\ Finish!SweepOne(p)
  \/ \E p \in Processes : OfCompletion /\ Finish!SweepNext(p)
  \/ \E p \in Processes : OfCompletion /\ Finish!ReadPrior(p)
  \/ \E p \in Processes : OfCompletion /\ Finish!ReadPriorDone(p)
  \/ \E p \in Processes : OfCompletion /\ Finish!Unmergeable(p)
  \/ \E p \in Processes : OfCompletion /\ Finish!WriteResult(p)
  \/ \E p \in Processes : OfCompletion /\ Finish!CheckSuccessor(p)
  \/ \E p \in Processes : OfCompletion /\ Finish!LinkSuccessor(p)
  \/ \E p \in Processes : OfCompletion /\ Finish!LinkRaced(p)
  \/ \E p \in Processes : OfCompletion /\ Finish!LinkBack(p)
  \/ \E p \in Processes : OfCompletion /\ Finish!Guard(p)
  \/ \E p \in Processes : OfCompletion /\ Finish!Complete(p)
  \/ \E p \in Processes : OfCompletion /\ Finish!Archive(p)
  \/ \E i \in Pair : OfCompletion /\ Finish!Elsewhere(i)
  \/ \E t \in FinishTags : OfCompletion /\ Finish!EditTags("x", t)
  \/ \E a \in Bill!Agents, i \in Bill!Items : OfSpend /\ Bill!Claimed(a, i)
  \/ \E a \in Bill!Actors, i \in Bill!Items : OfSpend /\ Bill!Released(a, i)
  \/ \E a \in Bill!Agents : OfSpend /\ Bill!Speak(a)
  \/ \E p \in Processes : OfSpend /\ Bill!Command(p)
  \/ \E p \in Processes : OfSpend /\ Bill!acquireHarvestLock(p)
  \/ \E p \in Processes : OfSpend /\ Bill!Clear(p)
  \/ \E p \in Processes : OfSpend /\ Bill!Snapshot(p)
  \/ \E p \in Processes : OfSpend /\ Bill!Scan(p)
  \/ \E p \in Processes : OfSpend /\ Bill!appendRecords(p)
  \/ \E p \in Processes : OfSpend /\ Bill!Release(p)
  \/ \E p \in Processes : OfSpend /\ Bill!ReadFile(p)
  \/ \E p \in Processes : OfSpend /\ Bill!Report(p)
  \/ \E p \in Processes : OfSpend /\ Bill!Crash(p)
  \/ \E r \in Records : OfIdentity /\ Ident!Move(r)
  \/ \E p \in Processes : OfIdentity /\ Ident!New(p)
  \/ \E p \in Processes : OfIdentity /\ Ident!Create(p)
  \/ \E p \in Processes : OfIdentity /\ Ident!Resolve(p)
  \/ \E p \in Processes : OfIdentity /\ Ident!Open(p)
  \/ \E p \in Processes : OfIdentity /\ Ident!GetAll(p)
  \/ \E p \in Processes : OfIdentity /\ Ident!Scan(p)
  \/ \E p \in Processes : OfIdentity /\ Ident!AllIDs(p)
  \/ \E p \in Processes : OfIdentity /\ Ident!ListIDs(p)
  \/ \E p \in Processes : OfIdentity /\ Ident!Answered(p)
  \/ \E to \in Report!Place, told \in BOOLEAN : OfListing /\ Report!Move("i", to, told)
  \/ OfListing /\ Report!Emit
  \/ OfListing /\ Report!Tick
  \/ OfListing /\ Report!Begin
  \/ OfListing /\ Report!ReadDir
  \/ OfListing /\ Report!Open
  \/ OfListing /\ Report!ReadLog
  \/ OfListing /\ Report!Show

Spec == Init /\ [][Next]_vars

-------------------------------------------------------------------------------
\* The properties of the parts; the comments are where they are defined.

\* The types of every part, with what goes beside them in each module.
TypeOK ==
  CASE part = "documents" -> Doc!TypeOK
    [] part = "shelving" -> Shelf!TypeOK
    [] part = "completion" -> Finish!TypeOK
    [] part = "spend" -> Bill!TypeOK
    [] part = "identity" -> Ident!TypeOK
    [] part = "listing" -> Report!TypeOK

\* A tag and the routing of a document's body agree (workflowmarker.go).
MarkersAgree == part = "documents" => Doc!MarkersAgree

\* The guards of a document never lock it out of its own repair (writeShape).
StaysEditable == part = "documents" => Doc!StaysEditable

\* A document's title moves only to the one the caller named (titleheading.go).
TitleMovesWhenNamed == [][part = "documents" => Doc!TitleStep]_vars

\* A shelve leaves no dependent open (shelveCascade).
DependentsHidden == part = "shelving" => Shelf!DependentsHidden

\* An unshelve brings back all that was hidden by what it restored (unshelveTop).
HiddenReturn == part = "shelving" => Shelf!HiddenReturn

\* A restore lifts no hold it was not asked to lift (shelvedWithChain), and takes into
\* claimed/ only what was claimed (UnshelveClaim).
NoMoreThanAsked == [][part = "shelving" => Shelf!HoldStep /\ Shelf!ClaimStep]_vars

\* A result that was recorded in time stays with its item (mergeResultSidecar).
ResultsKept == part = "completion" => Finish!ResultsKept

\* Nothing owed is completed or archived untracked (checkArchiveGuards).
NothingOwedIsPutAway == [][part = "completion" => Finish!PutAwayStep]_vars

\* No item claims an inheritance from one that never named it (linkSuccessorBothWays).
NoFalseInheritance == part = "completion" => Finish!NoFalseInheritance

\* What is completed or archived is named back by its successors (reconcileBacklinks).
LinksWalkable == [][part = "completion" => Finish!LinkedStep]_vars

\* No message is stored twice by harvests that overlap or die (Aggregate).
StoredOnce == [][part = "spend" => Bill!AppendStep]_vars

\* A harvest makes up for what an earlier one left (appendRecords, ReadAll).
HarvestComplete == part = "spend" => Bill!HarvestComplete

\* A total counts every message once (Query, hasGrandTotal).
TotalIsTrue == part = "spend" => Bill!TotalIsTrue

\* What is spent on a claimed item is that item's (attribute).
OwnWork == part = "spend" => Bill!OwnWork

\* No new item shares its id with one that stood by (Create, Locate).
NoSilentAlias == part = "identity" => Ident!NoSilentAlias

\* An id gets the right answer, or none, while records move (ResolveUnique, IDs).
AnsweredRight == part = "identity" => Ident!AnsweredRight

\* What only goes the way items flow is listed, once, while it goes (listAllOrder).
ListedOnce == part = "listing" => Report!ListedOnce

\* What is reported as blocked has been claimed that long (computeBlocked).
BlockedIsOld == part = "listing" => Report!BlockedIsOld
===============================================================================
