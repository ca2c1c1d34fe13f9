----------------------------- MODULE Gates_proofs -----------------------------
(***************************************************************************)
(* Theorems about Gates, for any number of items, processes, commands and  *)
(* crashes: the types, that a parent is finished before its dependents are *)
(* available (ParentsFirst), and that a sweep misses nothing that was      *)
(* ready all along (SweepIsTotal).                                         *)
(***************************************************************************)
EXTENDS Gates, TLAPS

\* TypeOK, without the history variables.
StoreOK == where \in [Items -> State] /\ doc \in [Items -> Doc] /\ now \in 0 .. MaxTime

ProcOK(p) ==
  /\ pc[p] # "idle" => cmd[p] \in Command
  /\ pc[p] # "idle" /\ cmd[p].name \notin Sweeps => on[p] \in Items
  /\ pc[p] \in {"clear_read", "clear_write"} => on[p] \in Items
  /\ pc[p] \in {"resolve", "create"} => cmd[p].name = "new"
  /\ pc[p] \in {"read", "write", "move"} => cmd[p].name \notin Sweeps
  /\ pc[p] \in {"idle", "create"} => todo[p] = {}

LocalOK ==
  /\ pc \in [Procs -> Waits \cup {"idle"}]
  /\ cmd \in [Procs -> Command \cup {NoCommand}]
  /\ on \in [Procs -> Items \cup {NoItem}]
  /\ at \in [Procs -> State]
  /\ docs \in [Procs -> [Items -> Doc]]
  /\ ids \in [Procs -> SUBSET Items]
  /\ todo \in [Procs -> SUBSET Items]
  /\ \A p \in Procs : ProcOK(p)

\* A state with no holder is a State.
LEMMA InState ==
  /\ \A dir \in {"none", "available", "pending", "done", "archived", "claimed"} : In(dir) \in State
  /\ \A p \in Procs : [dir |-> "claimed", holder |-> p] \in State
BY DEF In, State

\* The documents read are documents.
LEMMA SnapshotType ==
  ASSUME TypeOK, NEW s
  PROVE  Snapshot(s) \in [Items -> Doc]
<1>1. NoDoc \in Doc
  BY BoundsAssumption DEF NoDoc, Doc
<1>. QED
  BY <1>1 DEF TypeOK, Snapshot

\* A process whose locals and step are as they were is as it was.
LEMMA OthersOK ==
  ASSUME TypeOK, NEW q \in Procs,
         pc'[q] = pc[q], cmd'[q] = cmd[q], on'[q] = on[q], todo'[q] = todo[q]
  PROVE  ProcOK(q)'
BY DEF TypeOK, ProcOK

\* A command ends, and what it read is dropped.
LEMMA EndTypes ==
  ASSUME TypeOK, NEW p \in Procs, End(p)
  PROVE  LocalOK'
<1>1. In("none") \in State
  BY InState
<1>2. [i \in Items |-> NoDoc] \in [Items -> Doc]
  BY BoundsAssumption DEF NoDoc, Doc
<1>3. ASSUME NEW q \in Procs
      PROVE  ProcOK(q)'
  <2>1. CASE q = p
    BY <2>1 DEF TypeOK, End, Goto, ProcOK
  <2>2. CASE q # p
    BY <2>2, OthersOK DEF TypeOK, End, Goto
  <2>. QED
    BY <2>1, <2>2
<1>. QED
  BY <1>1, <1>2, <1>3 DEF TypeOK, LocalOK, End, Goto

\* A move keeps the states states.
LEMMA TransitionTypes ==
  ASSUME TypeOK, NEW i \in Items, NEW s, NEW t \in State, Transition(i, s, t)
  PROVE  where' \in [Items -> State]
BY DEF TypeOK, Transition

\* A command is given.
LEMMA BeginTypes ==
  ASSUME TypeOK, NEW p \in Procs, Begin(p)
  PROVE  StoreOK' /\ LocalOK'
<1>. PICK c \in Allowed[p] :
       Claim(p, c) \/ Reopen(p, c) \/ ArchiveItem(p, c) \/ Done(p, c) \/ Start(p, c)
  BY DEF Begin
<1>1. c \in Command /\ (c.name \notin {"schedule", "auto_promote"} => c.item \in Items)
  BY AllowedAssumption
<1>2. pc[p] = "idle"
  BY DEF Begin
<1>3. CASE Claim(p, c) \/ Reopen(p, c) \/ ArchiveItem(p, c)
  <2>1. StoreOK'
    <3>1. c.item \in Items
      BY <1>1, <1>3 DEF Claim, Reopen, ArchiveItem
    <3>2. PICK s \in State : where' = [where EXCEPT ![c.item] = s]
      BY <1>3, InState DEF Claim, Reopen, ArchiveItem
    <3>. QED
      BY <1>3, <3>1, <3>2 DEF TypeOK, StoreOK, Claim, Reopen, ArchiveItem
  <2>2. UNCHANGED <<pc, local>>
    BY <1>3 DEF Claim, Reopen, ArchiveItem
  <2>3. LocalOK'
    BY <2>2 DEF TypeOK, LocalOK, ProcOK, local
  <2>. QED
    BY <2>1, <2>3
<1>4. CASE Done(p, c)
  <2>1. StoreOK'
    BY <1>1, <1>4, InState DEF TypeOK, StoreOK, Done
  <2>2. ASSUME NEW q \in Procs
        PROVE  ProcOK(q)'
    <3>1. CASE q = p
      BY <1>1, <1>4, <3>1 DEF TypeOK, Done, Goto, ProcOK, Sweeps
    <3>2. CASE q # p
      BY <1>4, <3>2, OthersOK DEF TypeOK, Done, Goto
    <3>. QED
      BY <3>1, <3>2
  <2>3. LocalOK'
    BY <1>1, <1>4, <2>2 DEF TypeOK, LocalOK, Done, Goto, Waits
  <2>. QED
    BY <2>1, <2>3
<1>5. CASE Start(p, c)
  <2>1. StoreOK'
    BY <1>5 DEF TypeOK, StoreOK, Start, store
  <2>2. /\ FirstStep(c) \in {"create", "read_done", "list", "read"}
        /\ FirstStep(c) = "create" => c.name = "new"
        /\ FirstStep(c) = "read" => c.name \notin Sweeps
    BY DEF FirstStep
  <2>3. ASSUME NEW q \in Procs
        PROVE  ProcOK(q)'
    <3>1. CASE q = p
      <4>1. pc'[p] = FirstStep(c) /\ cmd'[p] = c /\ on'[p] = c.item /\ todo'[p] = todo[p]
        BY <1>5 DEF TypeOK, Start, Goto
      <4>2. todo[p] = {}
        BY <1>2 DEF TypeOK
      <4>. QED
        BY <1>1, <2>2, <3>1, <4>1, <4>2 DEF ProcOK, Sweeps
    <3>2. CASE q # p
      BY <1>5, <3>2, OthersOK DEF TypeOK, Start, Goto
    <3>. QED
      BY <3>1, <3>2
  <2>4. LocalOK'
    BY <1>1, <1>5, <2>2, <2>3 DEF TypeOK, LocalOK, Start, Goto, Waits, Command
  <2>. QED
    BY <2>1, <2>4
<1>. QED
  BY <1>3, <1>4, <1>5

\* A step of p leaves the other processes as they were.
OnlyOf(p) ==
  \A q \in Procs \ {p} :
    pc'[q] = pc[q] /\ cmd'[q] = cmd[q] /\ on'[q] = on[q] /\ todo'[q] = todo[q]

LEMMA StepOfOne ==
  ASSUME TypeOK, NEW p \in Procs, OnlyOf(p), ProcOK(p)',
         pc' \in [Procs -> Waits \cup {"idle"}],
         cmd' \in [Procs -> Command \cup {NoCommand}],
         on' \in [Procs -> Items \cup {NoItem}],
         at' \in [Procs -> State],
         docs' \in [Procs -> [Items -> Doc]],
         ids' \in [Procs -> SUBSET Items],
         todo' \in [Procs -> SUBSET Items]
  PROVE  LocalOK'
<1>1. ASSUME NEW q \in Procs
      PROVE  ProcOK(q)'
  BY OthersOK DEF OnlyOf
<1>. QED
  BY <1>1 DEF LocalOK

\* The two reads of doneIDSet, and the decision.
LEMMA ReadTypes ==
  ASSUME TypeOK, NEW p \in Procs, ReadDone(p) \/ ReadArchive(p)
  PROVE  StoreOK' /\ LocalOK'
<1>1. StoreOK'
  BY DEF TypeOK, StoreOK, ReadDone, ReadArchive, store
<1>2. CASE ReadDone(p)
  BY <1>1, <1>2, StepOfOne DEF TypeOK, ReadDone, Goto, OnlyOf, ProcOK, Waits, InDir
<1>3. CASE ReadArchive(p)
  <2>. DEFINE done == ids[p] \cup InDir("archived")
  <2>1. cmd[p] \in Command /\ done \subseteq Items
    BY <1>3 DEF TypeOK, ReadArchive, InDir
  <2>2. cmd[p].deps \subseteq Items
    BY <2>1 DEF Command
  <2>3. /\ todo' = [todo EXCEPT ![p] = todo'[p]]
        /\ todo'[p] \subseteq Items
    BY <1>3, <2>2 DEF TypeOK, ReadArchive, Decide
  <2>4. /\ pc' = [pc EXCEPT ![p] = pc'[p]]
        /\ \/ pc'[p] = "resolve" /\ cmd[p].name = "new"
           \/ pc'[p] = "promote" /\ cmd[p].name \in Sweeps
           \/ pc'[p] = "move" /\ cmd[p].name \notin Sweeps
    BY <1>3 DEF TypeOK, ReadArchive, Decide, Goto
  <2>5. pc[p] # "idle"
    BY <1>3 DEF ReadArchive
  <2>6. ProcOK(p)' /\ OnlyOf(p)
    <3>1. UNCHANGED <<cmd, on>>
      BY <1>3 DEF ReadArchive
    <3>2. OnlyOf(p)
      BY <2>3, <2>4, <3>1 DEF TypeOK, OnlyOf
    <3>3. cmd[p].name \notin Sweeps => on[p] \in Items
      BY <2>5 DEF TypeOK
    <3>4. ProcOK(p)'
      BY <2>1, <2>4, <3>1, <3>3 DEF ProcOK
    <3>. QED
      BY <3>2, <3>4
  <2>. QED
    <3>1. ids' = [ids EXCEPT ![p] = done] /\ UNCHANGED <<cmd, on, at, docs>>
      BY <1>3 DEF ReadArchive, Decide
    <3>2. ids' \in [Procs -> SUBSET Items]
      BY <2>1, <3>1 DEF TypeOK
    <3>3. todo' \in [Procs -> SUBSET Items]
      BY <2>3 DEF TypeOK
    <3>4. pc' \in [Procs -> Waits \cup {"idle"}]
      BY <2>4 DEF TypeOK, Waits
    <3>. QED
      BY <1>1, <2>6, <3>1, <3>2, <3>3, <3>4, StepOfOne DEF TypeOK
<1>. QED
  BY <1>2, <1>3

\* mg new
LEMMA NewTypes ==
  ASSUME TypeOK, NEW p \in Procs, ResolveDep(p) \/ Resolved(p) \/ Create(p)
  PROVE  StoreOK' /\ LocalOK'
<1>1. CASE ResolveDep(p)
  <2>1. StoreOK'
    BY <1>1 DEF TypeOK, StoreOK, ResolveDep, store
  <2>2. PICK d \in todo[p] : /\ todo' = [todo EXCEPT ![p] = @ \ {d}]
                            /\ ids' = [ids EXCEPT ![p] = @ \cup ({d} \cap Completed)]
    BY <1>1 DEF ResolveDep
  <2>3. Completed \subseteq Items
    BY DEF Completed, InDir
  <2>4. ProcOK(p)' /\ OnlyOf(p)
    BY <1>1, <2>2 DEF TypeOK, ResolveDep, OnlyOf, ProcOK
  <2>. QED
    BY <1>1, <2>1, <2>2, <2>3, <2>4, StepOfOne DEF TypeOK, ResolveDep
<1>2. CASE Resolved(p)
  <2>1. StoreOK'
    BY <1>2 DEF TypeOK, StoreOK, Resolved, store
  <2>. QED
    BY <1>2, <2>1, StepOfOne DEF TypeOK, Resolved, Goto, local, OnlyOf, ProcOK, Waits
<1>3. CASE Create(p)
  <2>1. on[p] \in Items /\ cmd[p] \in Command
    BY <1>3 DEF TypeOK, Create, Sweeps
  <2>2. [depends |-> cmd[p].deps, snooze |-> 0] \in Doc
    BY <2>1, BoundsAssumption DEF Command, Doc
  <2>3. In(placeForDeps(cmd[p].deps, ids[p])) \in State
    BY InState DEF placeForDeps
  <2>4. StoreOK'
    BY <1>3, <2>1, <2>2, <2>3 DEF TypeOK, StoreOK, Create
  <2>. QED
    BY <1>3, <2>4, EndTypes DEF Create
<1>. QED
  BY <1>1, <1>2, <1>3

\* A command keeps what it reads of an item.
LEMMA KeepTypes ==
  ASSUME TypeOK, NEW p \in Procs, NEW i \in Items, NEW step \in {"read_done", "write"},
         Keep(p, i, step), cmd[p] \in Command, on[p] \in Items, cmd[p].name \notin Sweeps
  PROVE  LocalOK'
<1>1. Snapshot({i}) \in [Items -> Doc]
  BY SnapshotType
<1>2. ProcOK(p)'
  BY DEF TypeOK, Keep, Goto, ProcOK
<1>3. OnlyOf(p)
  BY DEF TypeOK, Keep, Goto, OnlyOf
<1>. QED
  BY <1>1, <1>2, <1>3, StepOfOne DEF TypeOK, Keep, Goto, Waits

\* A command on an item that is in the middle of a step has one.
LEMMA ItemOf ==
  ASSUME TypeOK, NEW p \in Procs, pc[p] \in {"read", "write", "move"}
  PROVE  on[p] \in Items /\ cmd[p] \in Command /\ cmd[p].name \notin Sweeps
BY DEF TypeOK

\* A changed document is a document.
LEMMA ChangedType ==
  ASSUME NEW c \in Command, NEW d \in Doc
  PROVE  Changed(c, d) \in Doc
BY BoundsAssumption DEF Command, Doc, Changed

\* Reading an item, writing its document, moving it.
LEMMA ModifyTypes ==
  ASSUME TypeOK, NEW p \in Procs, Read(p) \/ Write(p) \/ Rewrite(p) \/ Move(p)
  PROVE  StoreOK' /\ LocalOK'
<1>. DEFINE i == on[p]
<1>1. i \in Items /\ cmd[p] \in Command /\ cmd[p].name \notin Sweeps
  BY ItemOf DEF Read, Write, Rewrite, Move
<1>2. CASE Read(p)
  <2>1. StoreOK'
    BY <1>2 DEF TypeOK, StoreOK, Read, store
  <2>2. End(p) \/ Keep(p, i, "read_done") \/ Keep(p, i, "write")
    BY <1>2 DEF Read
  <2>. QED
    BY <1>1, <2>1, <2>2, EndTypes, KeepTypes
<1>3. CASE Write(p)
  <2>. DEFINE d == Changed(cmd[p], docs[p][i])
              step == AfterWrite(cmd[p], at[p].dir, d)
  <2>1. d \in Doc
    BY <1>1, ChangedType DEF TypeOK
  <2>2. StoreOK'
    BY <1>1, <1>3, <2>1 DEF TypeOK, StoreOK, Write
  <2>3. step \in {"end", "read_done", "move"}
    BY DEF AfterWrite
  <2>4. CASE step = "end"
    BY <1>3, <2>2, <2>4, EndTypes DEF Write
  <2>5. CASE step # "end"
    <3>1. /\ docs' = [docs EXCEPT ![p][i] = d] /\ pc' = [pc EXCEPT ![p] = step]
          /\ UNCHANGED <<cmd, on, at, ids, todo>>
      BY <1>3, <2>5 DEF Write, Goto
    <3>2. ProcOK(p)' /\ OnlyOf(p)
      BY <1>1, <2>3, <2>5, <3>1 DEF TypeOK, OnlyOf, ProcOK
    <3>3. docs' \in [Procs -> [Items -> Doc]]
      BY <1>1, <2>1, <3>1 DEF TypeOK
    <3>4. pc' \in [Procs -> Waits \cup {"idle"}]
      BY <2>3, <2>5, <3>1 DEF TypeOK, Waits
    <3>. QED
      BY <2>2, <3>1, <3>2, <3>3, <3>4, StepOfOne DEF TypeOK
  <2>. QED
    BY <2>4, <2>5
<1>4. CASE Rewrite(p)
  <2>1. StoreOK'
    BY <1>4 DEF TypeOK, StoreOK, Rewrite, store
  <2>2. End(p) \/ Keep(p, i, "write")
    BY <1>4 DEF Rewrite
  <2>. QED
    BY <1>1, <2>1, <2>2, EndTypes, KeepTypes
<1>5. CASE Move(p)
  <2>. DEFINE landing == Landing(cmd[p], i \in todo[p])
  <2>1. In(landing) \in State
    BY InState DEF Landing
  <2>2. where' = where \/ Transition(i, at[p], In(landing))
    BY <1>5 DEF Move
  <2>3. where' \in [Items -> State]
    BY <1>1, <2>1, <2>2, TransitionTypes DEF TypeOK
  <2>4. StoreOK'
    BY <1>5, <2>3 DEF TypeOK, StoreOK, Move
  <2>. QED
    BY <1>5, <2>4, EndTypes DEF Move
<1>. QED
  BY <1>2, <1>3, <1>4, <1>5

\* Schedule and AutoPromote.
LEMMA SweepTypes ==
  ASSUME TypeOK, NEW p \in Procs, List(p) \/ Promote(p) \/ Swept(p)
  PROVE  StoreOK' /\ LocalOK'
<1>1. CASE List(p)
  <2>1. StoreOK'
    BY <1>1 DEF TypeOK, StoreOK, List, store
  <2>2. CASE End(p)
    BY <2>1, <2>2, EndTypes
  <2>3. CASE ~End(p)
    <3>1. PICK listed \in SUBSET Items :
            /\ todo' = [todo EXCEPT ![p] = listed]
            /\ docs' = [docs EXCEPT ![p] = Snapshot(listed)]
      BY <1>1, <2>3 DEF List, Spent, InDir
    <3>2. Snapshot(listed) \in [Items -> Doc]
      BY SnapshotType
    <3>3. pc' = [pc EXCEPT ![p] = "read_done"] /\ UNCHANGED <<cmd, on, at, ids>>
      BY <1>1, <2>3 DEF List, Goto
    <3>4. ProcOK(p)' /\ OnlyOf(p)
      BY <1>1, <3>1, <3>3 DEF TypeOK, List, OnlyOf, ProcOK
    <3>. QED
      BY <2>1, <3>1, <3>2, <3>3, <3>4, StepOfOne DEF TypeOK, Waits
  <2>. QED
    BY <2>2, <2>3
<1>2. CASE Promote(p)
  <2>1. PICK i \in todo[p] :
          /\ Transition(i, In("pending"), In("available"))
          /\ todo' = [todo EXCEPT ![p] = @ \ {i}]
          /\ \/ /\ on' = [on EXCEPT ![p] = i]
                /\ at' = [at EXCEPT ![p] = In("available")]
                /\ pc' = [pc EXCEPT ![p] = "clear_read"]
             \/ UNCHANGED <<on, at, pc>>
    BY <1>2 DEF Promote, Goto
  <2>2. i \in Items
    BY DEF TypeOK
  <2>3. In("available") \in State
    BY InState
  <2>4. where' \in [Items -> State]
    BY <2>1, <2>2, <2>3, TransitionTypes
  <2>5. StoreOK'
    BY <1>2, <2>4 DEF TypeOK, StoreOK, Promote
  <2>6. ProcOK(p)' /\ OnlyOf(p)
    BY <1>2, <2>1, <2>2 DEF TypeOK, Promote, OnlyOf, ProcOK
  <2>. QED
    <3>1. UNCHANGED <<cmd, docs, ids>>
      BY <1>2 DEF Promote
    <3>2. /\ pc' \in [Procs -> Waits \cup {"idle"}]
          /\ on' \in [Procs -> Items \cup {NoItem}]
          /\ at' \in [Procs -> State]
      <4>1. CASE UNCHANGED <<on, at, pc>>
        BY <4>1 DEF TypeOK
      <4>2. CASE ~UNCHANGED <<on, at, pc>>
        <5>. DEFINE available == In("available")
        <5>1. /\ on' = [on EXCEPT ![p] = i]
              /\ at' = [at EXCEPT ![p] = available]
              /\ pc' = [pc EXCEPT ![p] = "clear_read"]
          BY <2>1, <4>2
        <5>2. available \in State
          BY InState
        <5>. HIDE DEF available
        <5>3. pc' \in [Procs -> Waits \cup {"idle"}]
          BY <5>1 DEF TypeOK, Waits
        <5>4. on' \in [Procs -> Items \cup {NoItem}]
          BY <2>1, <5>1 DEF TypeOK
        <5>5. at' \in [Procs -> State]
          BY <5>1, <5>2 DEF TypeOK
        <5>. QED
          BY <5>3, <5>4, <5>5
      <4>. QED
        BY <4>1, <4>2
    <3>3. todo' \in [Procs -> SUBSET Items]
      BY <2>1 DEF TypeOK
    <3>. QED
      BY <2>5, <2>6, <3>1, <3>2, <3>3, StepOfOne DEF TypeOK
<1>3. CASE Swept(p)
  <2>1. StoreOK'
    BY <1>3 DEF TypeOK, StoreOK, Swept, store
  <2>2. ProcOK(p)' /\ OnlyOf(p)
    BY <1>3 DEF TypeOK, Swept, Goto, local, OnlyOf, ProcOK
  <2>. QED
    BY <1>3, <2>1, <2>2, StepOfOne DEF TypeOK, Swept, Goto, local, Waits
<1>. QED
  BY <1>1, <1>2, <1>3

\* Listing the spent snoozes of a directory.
LEMMA SurveyTypes ==
  ASSUME TypeOK, NEW p \in Procs, pc[p] # "idle",
         NEW dir \in {"available", "claimed"}, Survey(p, dir)
  PROVE  LocalOK'
<1>1. In(dir) \in State
  BY InState
<1>2. Spent(dir) \subseteq Items
  BY DEF Spent, InDir
<1>3. [cmd[p] EXCEPT !.name = "clear_spent"] \in Command
  BY ZenonT(40) DEF TypeOK, Command, Names, Sweeps
<1>4. cmd' = [cmd EXCEPT ![p] = [cmd[p] EXCEPT !.name = "clear_spent"]]
  BY DEF Survey
<1>5. cmd'[p].name = "clear_spent"
  BY <1>3, <1>4 DEF TypeOK, Command
<1>6. ProcOK(p)' /\ OnlyOf(p)
  BY <1>3, <1>4, <1>5 DEF TypeOK, Survey, Goto, OnlyOf, ProcOK, Sweeps
<1>. QED
  <2>1. cmd' \in [Procs -> Command \cup {NoCommand}]
    BY <1>3, <1>4 DEF TypeOK
  <2>2. /\ at' \in [Procs -> State] /\ todo' \in [Procs -> SUBSET Items]
        /\ pc' \in [Procs -> Waits \cup {"idle"}]
    BY <1>1, <1>2 DEF TypeOK, Survey, Goto, Waits
  <2>3. UNCHANGED <<on, docs, ids>>
    BY DEF Survey
  <2>. QED
    BY <1>6, <2>1, <2>2, <2>3, StepOfOne DEF TypeOK

\* Going back to the loop that cleared a snooze.
LEMMA ResumeTypes ==
  ASSUME TypeOK, NEW p \in Procs, pc[p] # "idle", Resume(p)
  PROVE  LocalOK'
<1>1. ProcOK(p)' /\ OnlyOf(p)
  BY DEF TypeOK, Resume, Goto, OnlyOf, ProcOK
<1>. QED
  BY <1>1, StepOfOne DEF TypeOK, Resume, Goto, Waits

\* ClearSpentGates and clearSpentSnooze.
LEMMA ClearTypes ==
  ASSUME TypeOK, NEW p \in Procs,
         AfterSweep(p) \/ ClearNext(p) \/ ClearRead(p) \/ ClearWrite(p) \/ ClearAgain(p)
  PROVE  StoreOK' /\ LocalOK'
<1>1. pc[p] # "idle"
  BY DEF AfterSweep, ClearNext, ClearRead, ClearWrite, ClearAgain
<1>2. CASE AfterSweep(p)
  BY <1>1, <1>2, EndTypes, SurveyTypes DEF TypeOK, StoreOK, AfterSweep, store
<1>3. CASE ClearNext(p)
  <2>1. StoreOK'
    BY <1>3 DEF TypeOK, StoreOK, ClearNext, store
  <2>2. CASE End(p) \/ Survey(p, "claimed")
    BY <1>1, <2>1, <2>2, EndTypes, SurveyTypes
  <2>3. CASE ~End(p) /\ ~Survey(p, "claimed")
    <3>1. PICK i \in todo[p] :
            /\ on' = [on EXCEPT ![p] = i]
            /\ todo' = [todo EXCEPT ![p] = @ \ {i}]
            /\ pc' = [pc EXCEPT ![p] = "clear_read"]
            /\ UNCHANGED <<cmd, at, docs, ids>>
      BY <1>3, <2>3 DEF ClearNext, Goto
    <3>2. i \in Items
      BY DEF TypeOK
    <3>3. ProcOK(p)' /\ OnlyOf(p)
      BY <1>1, <3>1, <3>2 DEF TypeOK, OnlyOf, ProcOK
    <3>. QED
      BY <2>1, <3>1, <3>2, <3>3, StepOfOne DEF TypeOK, Waits
  <2>. QED
    BY <2>2, <2>3
<1>4. CASE ClearRead(p)
  <2>1. StoreOK'
    BY <1>4 DEF TypeOK, StoreOK, ClearRead, store
  <2>2. CASE Resume(p)
    BY <1>1, <2>1, <2>2, ResumeTypes
  <2>3. CASE ~Resume(p)
    <3>1. /\ docs' = [docs EXCEPT ![p][on[p]] = doc[on[p]]]
          /\ pc' = [pc EXCEPT ![p] = "clear_write"]
          /\ UNCHANGED <<cmd, on, at, ids, todo>>
      BY <1>4, <2>3 DEF ClearRead, Goto
    <3>2. on[p] \in Items
      BY <1>4 DEF TypeOK, ClearRead
    <3>3. docs' \in [Procs -> [Items -> Doc]]
      BY <3>1, <3>2 DEF TypeOK
    <3>4. ProcOK(p)' /\ OnlyOf(p)
      BY <1>1, <3>1, <3>2 DEF TypeOK, OnlyOf, ProcOK
    <3>. QED
      BY <2>1, <3>1, <3>3, <3>4, StepOfOne DEF TypeOK, Waits
  <2>. QED
    BY <2>2, <2>3
<1>5. CASE ClearWrite(p)
  <2>1. on[p] \in Items
    BY <1>5 DEF TypeOK, ClearWrite
  <2>. DEFINE cleared == [doc[on[p]] EXCEPT !.snooze = 0]
  <2>2. cleared \in Doc
    <3>1. doc[on[p]] \in Doc
      BY <2>1 DEF TypeOK
    <3>2. 0 \in 0 .. MaxTime
      BY BoundsAssumption
    <3>. QED
      BY <3>1, <3>2 DEF Doc
  <2>3. StoreOK'
    <3>1. doc' = [doc EXCEPT ![on[p]] = cleared] /\ UNCHANGED <<where, now>>
      BY <1>5 DEF ClearWrite
    <3>. HIDE DEF cleared
    <3>. QED
      BY <2>1, <2>2, <3>1 DEF TypeOK, StoreOK
  <2>. QED
    BY <1>1, <1>5, <2>3, ResumeTypes DEF ClearWrite
<1>6. CASE ClearAgain(p)
  <2>1. StoreOK'
    BY <1>6 DEF TypeOK, StoreOK, ClearAgain, store
  <2>2. CASE Resume(p)
    BY <1>1, <2>1, <2>2, ResumeTypes
  <2>3. CASE ~Resume(p)
    <3>1. pc' = [pc EXCEPT ![p] = "clear_read"] /\ UNCHANGED local
      BY <1>6, <2>3 DEF ClearAgain, Goto
    <3>2. ProcOK(p)' /\ OnlyOf(p)
      BY <1>6, <3>1 DEF TypeOK, ClearAgain, local, OnlyOf, ProcOK
    <3>. QED
      BY <2>1, <3>1, <3>2, StepOfOne DEF TypeOK, local, Waits
  <2>. QED
    BY <2>2, <2>3
<1>. QED
  BY <1>2, <1>3, <1>4, <1>5, <1>6

\* The initial state is typed.
LEMMA InitTypes == Init => TypeOK
<1>1. In("none") \in State
  BY InState
<1>2. NoDoc \in Doc
  BY BoundsAssumption DEF NoDoc, Doc
<1>. QED
  BY <1>1, <1>2, BoundsAssumption DEF Init, TypeOK, Waits

\* Every step keeps the types.
LEMMA NextTypes == TypeOK /\ [Next]_vars => TypeOK'
<1>. SUFFICES ASSUME TypeOK, [Next]_vars
              PROVE  TypeOK'
  OBVIOUS
<1>1. CASE UNCHANGED vars
  BY <1>1 DEF vars, store, local, TypeOK
<1>2. CASE Next
  <2>1. ASSUME NEW p \in Procs, Run(p) \/ Crash(p)
        PROVE  StoreOK' /\ LocalOK' /\ crashes' \in 0 .. MaxCrashes
    <3>1. CASE Begin(p) /\ UNCHANGED crashes
      BY <3>1, BeginTypes DEF TypeOK
    <3>2. CASE Step(p) /\ UNCHANGED crashes
      BY <3>2, ReadTypes, NewTypes, ModifyTypes, SweepTypes, ClearTypes DEF TypeOK, Step
    <3>3. CASE Crash(p)
      BY <3>3, EndTypes, BoundsAssumption DEF TypeOK, StoreOK, store, Crash
    <3>. QED
      BY <2>1, <3>1, <3>2, <3>3 DEF Run
  <2>2. ASSUME Tick
        PROVE  StoreOK' /\ LocalOK' /\ crashes' \in 0 .. MaxCrashes
    <3>1. StoreOK'
      BY <2>2, BoundsAssumption DEF TypeOK, StoreOK, Tick
    <3>. QED
      BY <2>2, <3>1 DEF TypeOK, LocalOK, ProcOK, Tick, local
  <2>3. StoreOK' /\ LocalOK' /\ crashes' \in 0 .. MaxCrashes
    BY <1>2, <2>1, <2>2 DEF Next
  <2>4. \A i \in Items : doc'[i].depends \subseteq Items
    BY <2>3 DEF StoreOK, Doc
  <2>5. Track
    BY <1>2 DEF Next
  <2>6. filed' \in [Items -> SUBSET Items]
    BY <2>4, <2>5 DEF TypeOK, Track
  <2>7. reached' \subseteq Items
    BY <2>5 DEF TypeOK, Track
  <2>8. Ready' \subseteq Items
    BY DEF Ready, InDir
  <2>9. owed' \in [Procs -> SUBSET Items]
    BY <2>5, <2>8 DEF TypeOK, Track
  <2>. QED
    BY <2>3, <2>6, <2>7, <2>9 DEF TypeOK, StoreOK, LocalOK, ProcOK
<1>. QED
  BY <1>1, <1>2

\* Whatever the processes do and wherever they die, every variable has its type, a
\* process that works on an item has one, and mg new creates with nothing left to
\* resolve.
THEOREM GatesTypes == Spec => []TypeOK
BY InitTypes, NextTypes, PTL DEF Spec

-------------------------------------------------------------------------------
(***************************************************************************)
(* ParentsFirst for any number of items, processes, commands and crashes.  *)
(*                                                                         *)
(* ParentsFirst is not inductive: a process decides from documents and a   *)
(* set of finished items that it read some steps ago.  What saves it is    *)
(* that the reads go stale in one direction only.  An item that has been   *)
(* done has been done for ever (reached grows), and the dependencies it    *)
(* was filed with and keeps can only become fewer (filed shrinks).         *)
(***************************************************************************)

\* The document in hand holds what the item has kept, until the decision is made.
Weighing(p) == pc[p] \in {"read_done", "read_archive"} /\ cmd[p].name # "new"

\* The decision is made: the items in todo may be moved to available/.
Vetted(p) ==
  \/ pc[p] = "promote"
  \/ pc[p] \in {"clear_read", "clear_write"} /\ cmd[p].name # "clear_spent"
  \/ pc[p] = "move" /\ cmd[p].name # "snooze"

Exists(i) == where[i].dir # "none"

InHand(p) ==
  /\ ids[p] \subseteq reached
  /\ pc[p] = "write" => todo[p] = {on[p]} /\ Exists(on[p])
  /\ pc[p] = "clear_next" => cmd[p].name = "clear_spent"
  /\ Weighing(p) => \A i \in todo[p] : Exists(i) /\ filed[i] \subseteq docs[p][i].depends
  /\ Vetted(p) => \A i \in todo[p] : Exists(i) /\ filed[i] \subseteq reached

Reached == \A i \in Items : where[i].dir \in {"done", "archived"} => i \in reached
Filed == \A i \in Items : filed[i] \subseteq doc[i].depends

Order == Reached /\ Filed /\ (\A p \in Procs : InHand(p)) /\ ParentsFirst

\* What a step does to the history.
History ==
  /\ reached \subseteq reached'
  /\ \A i \in Items : where'[i].dir = "done" => i \in reached'
  /\ Filed'
  /\ \A i \in Items : Exists(i) => filed'[i] \subseteq filed[i]

\* What a step may do to an item.
Moved(i) ==
  \/ where'[i] = where[i]
  \/ where'[i].dir = "pending"
  \/ where[i].dir \notin {"none", "pending"} /\ where'[i].dir \in {"claimed", "done"}
  \/ where[i].dir = "done" /\ where'[i].dir = "archived"
  \/ where'[i].dir = "available" /\ filed'[i] \subseteq reached'

\* The history variables record what History says.
LEMMA TrackHistory ==
  ASSUME TypeOK, Order, Track
  PROVE  History
<1>1. reached \subseteq reached' /\ \A i \in Items : where'[i].dir = "done" => i \in reached'
  BY DEF Track
<1>2. Filed'
  BY DEF Track, Filed
<1>3. \A i \in Items : Exists(i) => filed'[i] \subseteq filed[i]
  BY DEF Track, Exists
<1>. QED
  BY <1>1, <1>2, <1>3 DEF History

\* Steps that move items so keep the order of the items.
LEMMA MovedOrder ==
  ASSUME TypeOK, Order, History, \A i \in Items : Moved(i)
  PROVE  Reached' /\ ParentsFirst' /\ \A i \in Items : Exists(i) => Exists(i)'
<1>1. Reached'
  BY DEF Moved, History, Order, Reached
<1>2. ParentsFirst'
  <2>. SUFFICES ASSUME NEW i \in Items, where'[i].dir \notin {"none", "pending"}
                PROVE  filed'[i] \subseteq reached'
    BY DEF ParentsFirst
  <2>1. CASE where[i].dir \notin {"none", "pending"}
    BY <2>1 DEF History, Exists, Order, ParentsFirst
  <2>2. CASE where[i].dir \in {"none", "pending"}
    BY <2>2 DEF Moved
  <2>. QED
    BY <2>1, <2>2
<1>3. \A i \in Items : Exists(i) => Exists(i)'
  BY DEF Moved, Exists
<1>. QED
  BY <1>1, <1>2, <1>3

\* What a process has read stays good when another one steps: q does nothing here.
LEMMA StillInHand ==
  ASSUME TypeOK, Order, History, NEW q \in Procs,
         \A i \in Items : Exists(i) => Exists(i)',
         pc'[q] = pc[q], cmd'[q] = cmd[q], on'[q] = on[q],
         docs'[q] = docs[q], ids'[q] = ids[q], todo'[q] = todo[q]
  PROVE  InHand(q)'
<1>. todo[q] \subseteq Items
  BY DEF TypeOK
<1>1. ids'[q] \subseteq reached'
  BY DEF Order, InHand, History
<1>2. pc'[q] = "write" => todo'[q] = {on'[q]} /\ Exists(on[q])'
  <2>1. pc[q] = "write" => on[q] \in Items
    BY DEF TypeOK
  <2>. QED
    BY <2>1 DEF Order, InHand
<1>3. Weighing(q)' => \A i \in todo'[q] : Exists(i)' /\ filed'[i] \subseteq docs'[q][i].depends
  BY DEF Order, InHand, History, Weighing
<1>4. Vetted(q)' => \A i \in todo'[q] : Exists(i)' /\ filed'[i] \subseteq reached'
  BY DEF Order, InHand, History, Vetted
<1>. QED
  BY <1>1, <1>2, <1>3, <1>4 DEF Order, InHand

\* A command that is over has nothing in hand.
LEMMA EndInHand ==
  ASSUME TypeOK, NEW p \in Procs, End(p)
  PROVE  InHand(p)'
<1>1. pc'[p] = "idle" /\ ids'[p] = {}
  BY DEF TypeOK, End, Goto
<1>. QED
  BY <1>1 DEF InHand, Weighing, Vetted

\* A step of p leaves what the other processes hold.
Alone(p) ==
  \A q \in Procs \ {p} :
    /\ pc'[q] = pc[q] /\ cmd'[q] = cmd[q] /\ on'[q] = on[q]
    /\ docs'[q] = docs[q] /\ ids'[q] = ids[q] /\ todo'[q] = todo[q]

LEMMA NobodyElse ==
  ASSUME TypeOK, NEW p \in Procs, Begin(p) \/ Step(p) \/ Crash(p)
  PROVE  Alone(p)
<1>1. CASE Begin(p)
  BY <1>1 DEF TypeOK, Begin, Claim, Reopen, ArchiveItem, Done, Start, Goto, Alone, local
<1>2. CASE ReadDone(p) \/ ReadArchive(p) \/ ResolveDep(p) \/ Resolved(p)
  BY <1>2 DEF TypeOK, ReadDone, ReadArchive, Decide, ResolveDep, Resolved, Goto, Alone, local
<1>3. CASE Create(p) \/ Move(p) \/ Crash(p)
  BY <1>3 DEF TypeOK, Create, Move, Crash, End, Goto, Alone
<1>4. CASE Read(p) \/ Rewrite(p)
  BY <1>4 DEF TypeOK, Read, Rewrite, Keep, End, Goto, Alone
<1>5. CASE Write(p)
  BY <1>5 DEF TypeOK, Write, End, Goto, Alone
<1>6. CASE List(p) \/ Promote(p) \/ Swept(p)
  BY <1>6 DEF TypeOK, List, Promote, Swept, End, Goto, Alone, local
<1>7. CASE AfterSweep(p) \/ ClearNext(p)
  BY <1>7 DEF TypeOK, AfterSweep, ClearNext, Survey, End, Goto, Alone
<1>8. CASE ClearRead(p) \/ ClearWrite(p) \/ ClearAgain(p)
  BY <1>8 DEF TypeOK, ClearRead, ClearWrite, ClearAgain, Resume, Goto, Alone, local
<1>. QED
  BY <1>1, <1>2, <1>3, <1>4, <1>5, <1>6, <1>7, <1>8 DEF Step

\* A command is given.  The moves that need no decision are those of an item that
\* has left pending/ already.
LEMMA BeginOrder ==
  ASSUME TypeOK, Order, History, NEW p \in Procs, Begin(p)
  PROVE  (\A i \in Items : Moved(i)) /\ InHand(p)'
<1>. PICK c \in Allowed[p] :
       Claim(p, c) \/ Reopen(p, c) \/ ArchiveItem(p, c) \/ Done(p, c) \/ Start(p, c)
  BY DEF Begin
<1>1. pc[p] = "idle" /\ todo[p] = {}
  BY DEF Begin, TypeOK
<1>2. ids[p] \subseteq reached'
  BY DEF Order, InHand, History
<1>3. CASE Claim(p, c) \/ Reopen(p, c) \/ ArchiveItem(p, c)
  <2>1. \A i \in Items : Moved(i)
    BY <1>3 DEF TypeOK, Claim, Reopen, ArchiveItem, In, Moved
  <2>2. UNCHANGED <<pc, local>>
    BY <1>3 DEF Claim, Reopen, ArchiveItem
  <2>. QED
    BY <1>1, <1>2, <2>1, <2>2 DEF InHand, Weighing, Vetted, local
<1>4. CASE Done(p, c)
  <2>1. \A i \in Items : Moved(i)
    BY <1>4 DEF TypeOK, Done, In, Moved
  <2>2. pc'[p] = "list" /\ ids' = ids
    BY <1>4 DEF TypeOK, Done, Goto
  <2>. QED
    BY <1>2, <2>1, <2>2 DEF InHand, Weighing, Vetted
<1>5. CASE Start(p, c)
  <2>1. \A i \in Items : Moved(i)
    BY <1>5 DEF Start, store, Moved
  <2>2. /\ pc'[p] = FirstStep(c) /\ cmd'[p] = c
        /\ ids' = ids /\ todo' = todo
    BY <1>5 DEF TypeOK, Start, Goto
  <2>3. FirstStep(c) \in {"create", "read_done", "list", "read"}
    BY DEF FirstStep
  <2>. QED
    BY <1>1, <1>2, <2>1, <2>2, <2>3 DEF InHand, Weighing, Vetted
<1>. QED
  BY <1>3, <1>4, <1>5

\* The two reads of doneIDSet, and the decision: a gate that is open for the
\* document in hand and the items found done is one whose parents have been done.
LEMMA ReadOrder ==
  ASSUME TypeOK, Order, History, NEW p \in Procs, ReadDone(p) \/ ReadArchive(p)
  PROVE  (\A i \in Items : Moved(i)) /\ InHand(p)'
<1>1. \A i \in Items : Moved(i)
  BY DEF ReadDone, ReadArchive, store, Moved
<1>2. InDir("done") \cup InDir("archived") \subseteq reached'
  BY DEF InDir, Order, Reached, History
<1>3. ids[p] \subseteq reached' /\ todo[p] \subseteq Items
  BY DEF Order, InHand, History, TypeOK
<1>4. \A i \in Items : Exists(i) => Exists(i)' /\ filed'[i] \subseteq filed[i]
  BY <1>1, MovedOrder DEF History
<1>5. CASE ReadDone(p)
  <2>1. /\ pc[p] = "read_done" /\ pc'[p] = "read_archive" /\ ids'[p] = InDir("done")
        /\ UNCHANGED <<cmd, docs, todo>>
    BY <1>5 DEF TypeOK, ReadDone, Goto
  <2>2. Weighing(p)' => \A i \in todo'[p] : Exists(i)' /\ filed'[i] \subseteq docs'[p][i].depends
    BY <1>3, <1>4, <2>1 DEF Order, InHand, Weighing
  <2>. QED
    BY <1>1, <1>2, <2>1, <2>2 DEF InHand, Vetted
<1>6. CASE ReadArchive(p)
  <2>. DEFINE done == ids[p] \cup InDir("archived")
  <2>1. done \subseteq reached' /\ ids'[p] = done
    BY <1>2, <1>3, <1>6 DEF TypeOK, ReadArchive, Decide
  <2>2. CASE cmd[p].name = "new"
    <3>1. pc'[p] = "resolve"
      BY <1>6, <2>2 DEF TypeOK, ReadArchive, Decide, Goto
    <3>. QED
      BY <1>1, <2>1, <3>1 DEF InHand, Weighing, Vetted
  <2>3. CASE cmd[p].name # "new"
    <3>1. /\ pc'[p] \in {"promote", "move"}
          /\ todo'[p] = {i \in todo[p] : gateOpen(docs[p][i], done)}
      BY <1>6, <2>3 DEF TypeOK, ReadArchive, Decide, Goto
    <3>2. Weighing(p)
      BY <1>6, <2>3 DEF ReadArchive, Weighing
    <3>3. ASSUME NEW i \in todo'[p]
          PROVE  Exists(i)' /\ filed'[i] \subseteq reached'
      <4>1. i \in todo[p] /\ docs[p][i].depends \subseteq done
        BY <3>1 DEF gateOpen, allDepsMet
      <4>2. i \in Items /\ Exists(i) /\ filed[i] \subseteq docs[p][i].depends
        BY <1>3, <3>2, <4>1 DEF Order, InHand
      <4>. QED
        BY <1>4, <2>1, <4>1, <4>2
    <3>. QED
      BY <1>1, <2>1, <3>1, <3>3 DEF InHand, Weighing
  <2>. QED
    BY <2>2, <2>3
<1>. QED
  BY <1>5, <1>6

\* mg new files an item in available/ only if all its dependencies have been done.
LEMMA NewOrder ==
  ASSUME TypeOK, Order, History, Track, NEW p \in Procs,
         ResolveDep(p) \/ Resolved(p) \/ Create(p)
  PROVE  (\A i \in Items : Moved(i)) /\ InHand(p)'
<1>1. ids[p] \subseteq reached'
  BY DEF Order, InHand, History
<1>2. CASE ResolveDep(p)
  <2>1. pc'[p] = "resolve" /\ ids'[p] \subseteq ids[p] \cup Completed
    BY <1>2 DEF TypeOK, ResolveDep
  <2>2. Completed \subseteq reached'
    BY DEF Completed, InDir, Order, Reached, History
  <2>3. \A i \in Items : Moved(i)
    BY <1>2 DEF ResolveDep, store, Moved
  <2>. QED
    BY <1>1, <2>1, <2>2, <2>3 DEF InHand, Weighing, Vetted
<1>3. CASE Resolved(p)
  <2>1. pc'[p] = "create" /\ ids'[p] = ids[p]
    BY <1>3 DEF TypeOK, Resolved, Goto, local
  <2>2. \A i \in Items : Moved(i)
    BY <1>3 DEF Resolved, store, Moved
  <2>. QED
    BY <1>1, <2>1, <2>2 DEF InHand, Weighing, Vetted
<1>4. CASE Create(p)
  <2>. DEFINE i == on[p]  dir == placeForDeps(cmd[p].deps, ids[p])
  <2>1. i \in Items
    <3>1. cmd[p].name = "new" /\ pc[p] # "idle"
      BY <1>4 DEF TypeOK, Create
    <3>. QED
      BY <3>1 DEF TypeOK, Sweeps
  <2>2. where' = [where EXCEPT ![i] = In(dir)] /\ doc'[i].depends = cmd[p].deps
    BY <1>4, <2>1 DEF TypeOK, Create
  <2>3. filed'[i] = cmd[p].deps
    BY <1>4, <2>1, <2>2 DEF Track, Create
  <2>4. dir = "pending" \/ (dir = "available" /\ filed'[i] \subseteq reached')
    BY <1>1, <2>3 DEF placeForDeps
  <2>5. Moved(i)
    BY <2>1, <2>2, <2>4 DEF TypeOK, In, Moved
  <2>6. \A j \in Items \ {i} : Moved(j)
    BY <2>1, <2>2 DEF TypeOK, Moved
  <2>7. InHand(p)'
    BY <1>4, EndInHand DEF Create
  <2>. QED
    BY <2>5, <2>6, <2>7
<1>. QED
  BY <1>2, <1>3, <1>4

\* An item is read: nothing is decided about it yet.
LEMMA KeepInHand ==
  ASSUME TypeOK, Order, History, NEW p \in Procs, on[p] \in Items,
         NEW step \in {"write", "read_done"},
         where[on[p]].dir # "none", UNCHANGED where, Keep(p, on[p], step)
  PROVE  InHand(p)'
<1>. DEFINE i == on[p]
<1>1. /\ pc'[p] = step /\ todo'[p] = {i} /\ docs'[p] = Snapshot({i})
      /\ UNCHANGED <<cmd, on, ids>>
  BY DEF TypeOK, Keep, Goto
<1>2. ids'[p] \subseteq reached'
  BY <1>1 DEF Order, InHand, History
<1>3. docs'[p][i].depends = doc[i].depends
  BY <1>1 DEF Snapshot
<1>4. filed'[i] \subseteq docs'[p][i].depends /\ Exists(i) /\ Exists(i)'
  BY <1>1, <1>3 DEF Exists, Order, Filed, History
<1>. QED
  BY <1>1, <1>2, <1>4 DEF InHand, Weighing, Vetted

\* Reading an item, changing its document and moving it: it is moved to available/
\* only if the gates of the document that was written are open.
LEMMA ModifyOrder ==
  ASSUME TypeOK, Order, History, NEW p \in Procs,
         Read(p) \/ Write(p) \/ Rewrite(p) \/ Move(p)
  PROVE  (\A i \in Items : Moved(i)) /\ InHand(p)'
<1>. DEFINE i == on[p]
<1>1. i \in Items
  <2>1. pc[p] \in {"read", "write", "move"}
    BY DEF Read, Write, Rewrite, Move
  <2>. QED
    BY <2>1 DEF TypeOK
<1>2. ids[p] \subseteq reached'
  BY DEF Order, InHand, History
<1>3. CASE Read(p) \/ Rewrite(p)
  <2>1. UNCHANGED where
    BY <1>3 DEF Read, Rewrite, store
  <2>2. \/ End(p)
        \/ \E step \in {"write", "read_done"} : where[i].dir # "none" /\ Keep(p, i, step)
    BY <1>3 DEF Read, Rewrite, Readable
  <2>3. InHand(p)'
    BY <1>1, <2>1, <2>2, EndInHand, KeepInHand
  <2>. QED
    BY <2>1, <2>3 DEF Moved
<1>4. CASE Write(p)
  <2>. DEFINE d == Changed(cmd[p], docs[p][i])
              step == AfterWrite(cmd[p], at[p].dir, d)
  <2>1. \A j \in Items : Moved(j)
    BY <1>4 DEF Write, Moved
  <2>2. CASE step = "end"
    BY <1>4, <2>1, <2>2, EndInHand DEF Write
  <2>3. CASE step # "end"
    <3>1. /\ pc'[p] = step /\ docs'[p][i] = d
          /\ UNCHANGED <<cmd, ids, todo, where>>
      BY <1>1, <1>4, <2>3 DEF TypeOK, Write, Goto
    <3>2. doc'[i] = d
      BY <1>1, <1>4 DEF TypeOK, Write
    <3>3. todo[p] = {i} /\ Exists(i)
      BY <1>4 DEF Write, Order, InHand
    <3>4. step = "read_done" \/ (step = "move" /\ cmd[p].name = "snooze")
      BY <2>3 DEF AfterWrite
    <3>5. filed'[i] \subseteq docs'[p][i].depends
      BY <1>1, <3>1, <3>2 DEF History, Filed
    <3>. HIDE DEF d, step
    <3>. QED
      BY <1>2, <2>1, <3>1, <3>3, <3>4, <3>5 DEF InHand, Weighing, Vetted, Exists
  <2>. QED
    BY <2>2, <2>3
<1>5. CASE Move(p)
  <2>. DEFINE landing == Landing(cmd[p], i \in todo[p])
  <2>1. where' = where \/ where' = [where EXCEPT ![i] = In(landing)]
    BY <1>5 DEF Move, Transition
  <2>2. \A j \in Items \ {i} : Moved(j)
    BY <1>1, <2>1 DEF TypeOK, Moved
  <2>3. landing = "pending" \/ (landing = "available" /\ i \in todo[p] /\ cmd[p].name # "snooze")
    BY DEF Landing
  <2>4. landing = "available" => filed'[i] \subseteq reached'
    <3>1. landing = "available" => Vetted(p) /\ i \in todo[p]
      BY <1>5, <2>3 DEF Vetted, Move
    <3>. QED
      BY <1>1, <3>1 DEF Order, InHand, History
  <2>5. Moved(i)
    <3>1. CASE where' = where
      BY <3>1 DEF Moved
    <3>2. CASE where' = [where EXCEPT ![i] = In(landing)]
      <4>1. where'[i].dir = landing
        BY <1>1, <3>2 DEF TypeOK, In
      <4>. QED
        BY <2>3, <2>4, <4>1 DEF Moved
    <3>. QED
      BY <2>1, <3>1, <3>2
  <2>6. InHand(p)'
    BY <1>5, EndInHand DEF Move
  <2>. QED
    BY <2>2, <2>5, <2>6
<1>. QED
  BY <1>3, <1>4, <1>5

\* What a sweep that goes on has vetted stays vetted.
LEMMA StillVetted ==
  ASSUME TypeOK, Order, History, NEW p \in Procs, \A i \in Items : Exists(i) => Exists(i)',
         ids'[p] = ids[p], todo'[p] \subseteq todo[p], cmd'[p] = cmd[p],
         pc'[p] \in {"promote", "clear_read", "clear_write", "clear_next"},
         pc'[p] = "clear_next" => cmd[p].name = "clear_spent",
         Vetted(p)' => Vetted(p)
  PROVE  InHand(p)'
<1>1. ids'[p] \subseteq reached' /\ todo[p] \subseteq Items
  BY DEF Order, InHand, History, TypeOK
<1>2. Vetted(p)' => \A i \in todo'[p] : Exists(i)' /\ filed'[i] \subseteq reached'
  BY <1>1 DEF Order, InHand, History
<1>. QED
  BY <1>1, <1>2 DEF InHand, Weighing

\* Listing the spent snoozes of a directory.
LEMMA SurveyInHand ==
  ASSUME TypeOK, Order, History, NEW p \in Procs, pc[p] # "idle", NEW dir, Survey(p, dir)
  PROVE  InHand(p)'
<1>1. cmd[p] \in Command
  BY DEF TypeOK
<1>2. cmd'[p].name = "clear_spent" /\ pc'[p] = "clear_next" /\ ids' = ids
  BY <1>1 DEF TypeOK, Survey, Goto, Command
<1>3. ids'[p] \subseteq reached'
  BY <1>2 DEF Order, InHand, History
<1>. QED
  BY <1>2, <1>3 DEF InHand, Weighing, Vetted

\* The sweep of pending/.
LEMMA SweepOrder ==
  ASSUME TypeOK, Order, History, NEW p \in Procs,
         List(p) \/ Promote(p) \/ Swept(p) \/ AfterSweep(p)
  PROVE  (\A i \in Items : Moved(i)) /\ InHand(p)'
<1>1. ids[p] \subseteq reached' /\ todo[p] \subseteq Items
  BY DEF Order, InHand, History, TypeOK
<1>2. CASE List(p)
  <2>1. \A i \in Items : Moved(i)
    BY <1>2 DEF List, store, Moved
  <2>2. CASE End(p)
    BY <2>1, <2>2, EndInHand
  <2>3. CASE ~End(p)
    <3>1. PICK listed \in SUBSET InDir("pending") :
            /\ todo'[p] = listed /\ docs'[p] = Snapshot(listed)
            /\ pc'[p] = "read_done" /\ UNCHANGED <<cmd, ids, where>>
      <4>. DEFINE list == IF cmd[p].name = "auto_promote" THEN Spent("pending") ELSE InDir("pending")
      <4>1. list \subseteq InDir("pending")
        BY DEF Spent
      <4>2. /\ todo' = [todo EXCEPT ![p] = list] /\ docs' = [docs EXCEPT ![p] = Snapshot(list)]
            /\ Goto(p, "read_done") /\ UNCHANGED <<cmd, ids, where>>
        BY <1>2, <2>3 DEF List, store
      <4>. HIDE DEF list
      <4>. QED
        BY <4>1, <4>2 DEF TypeOK, Goto
    <3>2. ASSUME NEW i \in listed
          PROVE  Exists(i)' /\ filed'[i] \subseteq docs'[p][i].depends
      <4>1. i \in Items /\ where[i].dir = "pending"
        BY DEF InDir
      <4>2. docs'[p][i].depends = doc[i].depends
        BY <3>1, <4>1 DEF Snapshot
      <4>. QED
        BY <3>1, <4>1, <4>2 DEF Exists, Order, Filed, History
    <3>. QED
      BY <1>1, <2>1, <3>1, <3>2 DEF InHand, Weighing, Vetted
  <2>. QED
    BY <2>2, <2>3
<1>3. CASE Promote(p)
  <2>0. pc[p] = "promote" /\ Vetted(p) /\ UNCHANGED <<cmd, docs, ids>>
    BY <1>3 DEF Promote, Vetted
  <2>1. PICK i \in todo[p] :
          /\ \/ where' = where
             \/ where' = [where EXCEPT ![i] = In("available")]
          /\ todo' = [todo EXCEPT ![p] = @ \ {i}]
          /\ pc' = pc \/ pc' = [pc EXCEPT ![p] = "clear_read"]
    BY <1>3 DEF Promote, Transition, Goto
  <2>2. i \in Items /\ filed'[i] \subseteq reached'
    BY <1>1, <2>0 DEF Order, InHand, History
  <2>3. \A j \in Items \ {i} : Moved(j)
    BY <2>1, <2>2 DEF TypeOK, Moved
  <2>4. Moved(i)
    <3>1. where'[i] = where[i] \/ where'[i].dir = "available"
      BY <2>1, <2>2 DEF TypeOK, In
    <3>. QED
      BY <2>2, <3>1 DEF Moved
  <2>5. todo'[p] \subseteq todo[p] /\ pc'[p] \in {"promote", "clear_read"}
    BY <2>0, <2>1 DEF TypeOK
  <2>6. \A j \in Items : Moved(j)
    BY <2>3, <2>4
  <2>7. InHand(p)'
    BY <2>0, <2>5, <2>6, MovedOrder, StillVetted
  <2>. QED
    BY <2>6, <2>7
<1>4. CASE Swept(p)
  <2>1. pc'[p] = "swept" /\ ids' = ids
    BY <1>4 DEF TypeOK, Swept, Goto, local
  <2>2. \A i \in Items : Moved(i)
    BY <1>4 DEF Swept, store, Moved
  <2>. QED
    BY <1>1, <2>1, <2>2 DEF InHand, Weighing, Vetted
<1>5. CASE AfterSweep(p)
  <2>1. \A i \in Items : Moved(i)
    BY <1>5 DEF AfterSweep, store, Moved
  <2>2. End(p) \/ Survey(p, "available")
    BY <1>5 DEF AfterSweep
  <2>3. InHand(p)'
    BY <1>5, <2>2, EndInHand, SurveyInHand DEF AfterSweep
  <2>. QED
    BY <2>1, <2>3
<1>. QED
  BY <1>2, <1>3, <1>4, <1>5

\* The clearing of snoozes moves nothing.
LEMMA ClearOrder ==
  ASSUME TypeOK, Order, History, NEW p \in Procs,
         ClearNext(p) \/ ClearRead(p) \/ ClearWrite(p) \/ ClearAgain(p)
  PROVE  (\A i \in Items : Moved(i)) /\ InHand(p)'
<1>1. UNCHANGED where
  BY DEF ClearNext, ClearRead, ClearWrite, ClearAgain, store
<1>2. (\A i \in Items : Moved(i)) /\ (\A i \in Items : Exists(i) => Exists(i)')
  BY <1>1 DEF Moved, Exists
<1>3. CASE ClearNext(p)
  <2>0. pc[p] = "clear_next" /\ cmd[p].name = "clear_spent"
    BY <1>3 DEF ClearNext, Order, InHand
  <2>1. CASE End(p) \/ Survey(p, "claimed")
    BY <1>2, <2>0, <2>1, EndInHand, SurveyInHand
  <2>2. CASE ~End(p) /\ ~Survey(p, "claimed")
    <3>1. /\ pc'[p] = "clear_read" /\ todo'[p] \subseteq todo[p]
          /\ UNCHANGED <<cmd, ids>>
      BY <1>3, <2>2 DEF TypeOK, ClearNext, Goto
    <3>2. ~Vetted(p)'
      BY <2>0, <3>1 DEF Vetted
    <3>. QED
      BY <1>2, <3>1, <3>2, StillVetted
  <2>. QED
    BY <2>1, <2>2
<1>4. CASE ClearRead(p) \/ ClearWrite(p) \/ ClearAgain(p)
  <2>1. pc[p] \in {"clear_read", "clear_write"} /\ UNCHANGED <<cmd, ids, todo>>
    BY <1>4 DEF ClearRead, ClearWrite, ClearAgain, Resume, local
  <2>2. \/ pc'[p] \in {"clear_read", "clear_write"}
        \/ pc'[p] = "clear_next" /\ cmd[p].name = "clear_spent"
        \/ pc'[p] = "promote" /\ cmd[p].name # "clear_spent"
    BY <1>4 DEF TypeOK, ClearRead, ClearWrite, ClearAgain, Resume, Goto
  <2>3. Vetted(p)' => Vetted(p)
    BY <2>1, <2>2 DEF Vetted
  <2>. QED
    BY <1>2, <2>1, <2>2, <2>3, StillVetted
<1>. QED
  BY <1>3, <1>4

\* Nothing has been filed, and nothing is in hand.
LEMMA InitOrder == Init => Order
<1>. SUFFICES ASSUME Init
              PROVE  Order
  OBVIOUS
<1>1. Reached /\ ParentsFirst
  BY DEF Init, In, Reached, ParentsFirst
<1>2. Filed
  BY DEF Init, NoDoc, Filed
<1>3. \A p \in Procs : InHand(p)
  BY DEF Init, InHand, Weighing, Vetted
<1>. QED
  BY <1>1, <1>2, <1>3 DEF Order

\* Every step of every process, and the clock, keeps the order.
LEMMA NextOrder == TypeOK /\ Order /\ [Next]_vars => Order'
<1>. SUFFICES ASSUME TypeOK, Order, [Next]_vars
              PROVE  Order'
  OBVIOUS
<1>1. CASE UNCHANGED vars
  BY <1>1 DEF vars, store, local, Order, Reached, Filed, InHand, Weighing, Vetted, Exists, ParentsFirst
<1>2. CASE Next
  <2>1. Track /\ History
    BY <1>2, TrackHistory DEF Next
  <2>2. ASSUME NEW p \in Procs, Run(p) \/ Crash(p)
        PROVE  Order'
    <3>1. (\A i \in Items : Moved(i)) /\ InHand(p)'
      <4>1. CASE Begin(p)
        BY <2>1, <4>1, BeginOrder
      <4>2. CASE Step(p)
        BY <2>1, <4>2, ReadOrder, NewOrder, ModifyOrder, SweepOrder, ClearOrder DEF Step
      <4>3. CASE Crash(p)
        BY <4>3, EndInHand DEF Crash, store, Moved
      <4>. QED
        BY <2>2, <4>1, <4>2, <4>3 DEF Run
    <3>2. Alone(p)
      BY <2>2, NobodyElse DEF Run
    <3>3. Reached' /\ ParentsFirst' /\ \A i \in Items : Exists(i) => Exists(i)'
      BY <2>1, <3>1, MovedOrder
    <3>4. ASSUME NEW q \in Procs
          PROVE  InHand(q)'
      <4>1. CASE q = p
        BY <3>1, <4>1
      <4>2. CASE q # p
        BY <2>1, <3>2, <3>3, <4>2, StillInHand DEF Alone
      <4>. QED
        BY <4>1, <4>2
    <3>. QED
      BY <2>1, <3>3, <3>4 DEF Order, History
  <2>3. CASE Tick
    <3>1. UNCHANGED <<where, pc, local>>
      BY <2>3 DEF Tick
    <3>2. \A i \in Items : Moved(i)
      BY <3>1 DEF Moved
    <3>3. Reached' /\ ParentsFirst' /\ \A i \in Items : Exists(i) => Exists(i)'
      BY <2>1, <3>2, MovedOrder
    <3>4. ASSUME NEW q \in Procs
          PROVE  InHand(q)'
      BY <2>1, <3>1, <3>3, StillInHand DEF local
    <3>. QED
      BY <2>1, <3>3, <3>4 DEF Order, History
  <2>. QED
    BY <1>2, <2>2, <2>3 DEF Next
<1>. QED
  BY <1>1, <1>2

\* However stale the reads of the processes that file, release, edit and sweep, and
\* wherever they die, no item leaves pending/ before each dependency it was filed
\* with and keeps has been done.
THEOREM OrderKept == Spec => []ParentsFirst
<1>1. Order => ParentsFirst
  BY DEF Order
<1>. QED
  BY <1>1, InitTypes, NextTypes, InitOrder, NextOrder, PTL DEF Spec

-------------------------------------------------------------------------------
(***************************************************************************)
(* SweepIsTotal for any number of items, processes, commands and crashes.  *)
(*                                                                         *)
(* A sweep decides from documents and a set of finished items that it read *)
(* some steps ago, without a lock.  What it owes is what has been ready    *)
(* all along: of such an item it still has the document, and a parent that *)
(* it did not see in done/ is in the archive by the time it reads that,    *)
(* because the archive is read last and nothing comes back from it.        *)
(***************************************************************************)

Whole == {"done", "schedule"}

\* What a sweep owes is ready, is still to be handled, and will be found ready.
Owes(p) ==
  /\ pc[p] = "list" => cmd[p].name \in Whole \cup {"auto_promote"}
  /\ owed[p] # {} =>
       /\ cmd[p].name \in Whole
       /\ pc[p] \in {"read_done", "read_archive", "promote", "clear_read", "clear_write"}
  /\ owed[p] \subseteq Ready \cap todo[p]
  /\ \A i \in owed[p] :
       /\ pc[p] \in {"read_done", "read_archive"} => docs[p][i] = doc[i]
       /\ pc[p] = "read_archive" => doc[i].depends \subseteq ids[p] \cup InDir("archived")

Owing == \A p \in Procs : Owes(p)

\* A finished item that was in the archive has not come back to done/.
Settled == \A i \in Items : where'[i].dir = "done" => where[i].dir # "archived"

\* What is owed is only ever taken back, and is ready with its document untouched,
\* except when pending/ is listed.
LEMMA TrackOwed ==
  ASSUME TypeOK, Track, NEW p \in Procs, pc[p] = "list" => pc'[p] # "read_done"
  PROVE  /\ owed'[p] \subseteq owed[p] \cap Ready'
         /\ \A i \in owed'[p] : doc'[i] = doc[i]
         /\ pc'[p] = "idle" => owed'[p] = {}
BY DEF Track

\* Only a completion brings an item to done/, and it had been claimed.
LEMMA StepSettled ==
  ASSUME TypeOK, NEW p \in Procs, Run(p) \/ Crash(p)
  PROVE  Settled
<1>1. CASE UNCHANGED where
  BY <1>1 DEF Settled
<1>2. CASE Begin(p)
  BY <1>2, ZenonT(40) DEF TypeOK, Begin, Claim, Reopen, ArchiveItem, Done, Start, store, In, Settled
<1>3. CASE Create(p)
  <2>1. \A i \in Items : where'[i] = where[i] \/ where'[i].dir \in {"available", "pending"}
    BY <1>3 DEF TypeOK, Create, In, placeForDeps
  <2> QED BY <2>1 DEF Settled
<1>4. CASE Move(p) \/ Promote(p)
  <2>1. \A i \in Items : where'[i] = where[i] \/ where'[i].dir \in {"available", "pending"}
    BY <1>4 DEF TypeOK, Move, Promote, Transition, Landing, In
  <2> QED BY <2>1 DEF Settled
<1> QED
  BY <1>1, <1>2, <1>3, <1>4
     DEF Run, Step, Crash, store, ReadDone, ReadArchive, ResolveDep, Resolved, Read, Write, Rewrite,
         List, Swept, AfterSweep, ClearNext, ClearRead, ClearWrite, ClearAgain

\* A process that does nothing itself owes no more, and will find what it owes.
LEMMA StillOwes ==
  ASSUME TypeOK, Track, Settled, NEW q \in Procs, Owes(q),
         pc'[q] = pc[q], cmd'[q] = cmd[q], docs'[q] = docs[q], ids'[q] = ids[q],
         todo'[q] = todo[q]
  PROVE  Owes(q)'
<1>1. /\ owed'[q] \subseteq owed[q] \cap Ready'
      /\ \A i \in owed'[q] : doc'[i] = doc[i]
  BY TrackOwed
<1>2. ASSUME NEW i \in owed'[q], pc[q] = "read_archive", NEW d \in doc'[i].depends
      PROVE  d \in ids[q] \/ d \in InDir("archived")'
  <2>1. d \in ids[q] \/ d \in InDir("archived")
    BY <1>1, <1>2 DEF Owes
  <2>2. d \in Completed'
    BY <1>1, <1>2 DEF Ready
  <2> QED BY <2>1, <2>2 DEF Completed, InDir, Settled
<1> QED BY <1>1, <1>2 DEF Owes

\* A command that is over, or that owes nothing and does not list pending/.
LEMMA OwesNothing ==
  ASSUME TypeOK, Track, NEW p \in Procs, owed[p] = {} \/ pc'[p] = "idle",
         pc[p] # "list" \/ pc'[p] = "idle",
         pc'[p] = "list" => cmd'[p].name \in Whole \cup {"auto_promote"}
  PROVE  Owes(p)'
<1>1. owed'[p] = {}
  BY TrackOwed
<1> QED BY <1>1 DEF Owes

\* A command is given: nothing is owed yet.
LEMMA BeginOwes ==
  ASSUME TypeOK, Track, NEW p \in Procs, Owes(p), Begin(p)
  PROVE  Owes(p)'
<1>1. pc[p] = "idle" /\ owed[p] = {}
  BY DEF Begin, Owes
<1> PICK c \in Allowed[p] :
      Claim(p, c) \/ Reopen(p, c) \/ ArchiveItem(p, c) \/ Done(p, c) \/ Start(p, c)
  BY DEF Begin
<1>2. CASE Claim(p, c) \/ Reopen(p, c) \/ ArchiveItem(p, c)
  BY <1>1, <1>2, OwesNothing DEF Claim, Reopen, ArchiveItem
<1>3. CASE Done(p, c)
  <2>1. cmd'[p] = c /\ c.name = "done"
    BY <1>3 DEF TypeOK, Done
  <2> QED BY <1>1, <2>1, OwesNothing DEF Whole
<1>4. CASE Start(p, c)
  <2>1. cmd'[p] = c /\ pc'[p] = FirstStep(c)
    BY <1>4 DEF TypeOK, Start, Goto
  <2>2. FirstStep(c) = "list" => c.name \in Sweeps
    BY DEF FirstStep
  <2>3. FirstStep(c) = "list" => c.name \in Whole \cup {"auto_promote"}
    BY <1>4, <2>2 DEF Start, Sweeps, Modifies, Edits, Whole
  <2> QED BY <1>1, <2>1, <2>3, OwesNothing
<1> QED BY <1>2, <1>3, <1>4

\* Listing pending/: what is ready is owed, and has been read.
LEMMA ListOwes ==
  ASSUME TypeOK, Track, NEW p \in Procs, Owes(p), List(p)
  PROVE  Owes(p)'
<1>1. pc[p] = "list" /\ owed[p] = {} /\ UNCHANGED store
  BY DEF List, Owes
<1>2. CASE End(p)
  BY <1>2, OwesNothing DEF TypeOK, End, Goto
<1>3. CASE ~End(p) /\ cmd[p].name = "auto_promote"
  <2>1. pc'[p] = "read_done" /\ owed'[p] = {}
    BY <1>1, <1>3 DEF TypeOK, List, Goto, Track
  <2> QED BY <2>1 DEF Owes
<1>4. CASE ~End(p) /\ cmd[p].name # "auto_promote"
  <2>1. /\ pc'[p] = "read_done" /\ cmd'[p] = cmd[p] /\ cmd[p].name \in Whole
        /\ todo'[p] = InDir("pending") /\ docs'[p] = Snapshot(InDir("pending"))
    BY <1>1, <1>4 DEF TypeOK, List, Goto, Owes
  <2>2. owed'[p] = Ready'
    BY <1>1, <1>4, <2>1 DEF Track
  <2>3. Ready' = Ready
    BY <1>1 DEF store, Ready, InDir, Completed
  <2>4. Ready \subseteq InDir("pending")
    BY DEF Ready
  <2>5. \A i \in Ready : docs'[p][i] = doc'[i]
    BY <1>1, <2>1, <2>4 DEF Snapshot, InDir, store
  <2> QED BY <2>1, <2>2, <2>3, <2>4, <2>5 DEF Owes
<1> QED BY <1>2, <1>3, <1>4

\* The two reads, and the decision: what is owed is found ready.
LEMMA ReadOwes ==
  ASSUME TypeOK, Track, NEW p \in Procs, Owes(p), ReadDone(p) \/ ReadArchive(p)
  PROVE  Owes(p)'
<1>1. pc[p] # "list" /\ UNCHANGED <<store, cmd, docs>>
  BY DEF ReadDone, ReadArchive
<1>2. owed'[p] \subseteq owed[p] \cap Ready'
  BY <1>1, TrackOwed
<1>3. Ready' = Ready /\ InDir("archived")' = InDir("archived")
  BY <1>1 DEF store, Ready, InDir, Completed
<1>4. CASE ReadDone(p)
  <2>1. /\ pc[p] = "read_done" /\ pc'[p] = "read_archive" /\ ids'[p] = InDir("done")
        /\ todo' = todo
    BY <1>4 DEF TypeOK, ReadDone, Goto
  <2>2. \A i \in Ready : doc[i].depends \subseteq InDir("done") \cup InDir("archived")
    BY DEF Ready, Completed
  <2>3. \A i \in owed[p] : docs[p][i] = doc[i]
    BY <2>1 DEF Owes
  <2> QED BY <1>1, <1>2, <1>3, <2>1, <2>2, <2>3 DEF Owes, store
<1>5. CASE ReadArchive(p)
  <2> DEFINE done == ids[p] \cup InDir("archived")
  <2>1. pc[p] = "read_archive"
    BY <1>5 DEF ReadArchive
  <2>2. CASE cmd[p].name \notin Whole
    <3>1. owed[p] = {} /\ pc'[p] # "list"
      BY <1>5, <2>2 DEF TypeOK, ReadArchive, Decide, Goto, Owes
    <3> QED BY <1>1, <3>1, OwesNothing
  <2>3. CASE cmd[p].name \in Whole
    <3>1. /\ pc'[p] = "promote"
          /\ todo'[p] = {i \in todo[p] : gateOpen(docs[p][i], done)}
      BY <1>5, <2>3 DEF TypeOK, ReadArchive, Decide, Goto, Whole, Sweeps
    <3>2. ASSUME NEW i \in owed[p]
          PROVE  gateOpen(docs[p][i], done)
      <4>1. docs[p][i] = doc[i] /\ doc[i].depends \subseteq done
        BY <2>1 DEF Owes
      <4>2. i \in Items /\ doc[i].snooze <= now
        BY DEF Owes, Ready, InDir
      <4>3. doc[i].snooze \in Nat /\ now \in Nat
        BY <4>2 DEF TypeOK, Doc
      <4>4. ~snoozeHolds(doc[i])
        BY <4>2, <4>3 DEF snoozeHolds
      <4> QED BY <4>1, <4>4 DEF gateOpen, allDepsMet
    <3>3. owed[p] \subseteq todo'[p]
      BY <3>1, <3>2 DEF Owes
    <3> QED BY <1>1, <1>2, <2>3, <3>1, <3>3 DEF Owes
  <2> QED BY <2>2, <2>3
<1> QED BY <1>4, <1>5

\* Promoting: what is handled has left pending/, or had left it before.
LEMMA PromoteOwes ==
  ASSUME TypeOK, Track, NEW p \in Procs, Owes(p), Promote(p)
  PROVE  Owes(p)'
<1>1. pc[p] = "promote" /\ UNCHANGED <<doc, cmd>>
  BY DEF Promote
<1>2. PICK i \in todo[p] :
        /\ Transition(i, In("pending"), In("available"))
        /\ todo' = [todo EXCEPT ![p] = @ \ {i}]
        /\ pc' = pc \/ pc' = [pc EXCEPT ![p] = "clear_read"]
  BY DEF Promote, Goto
<1>3. i \in Items /\ pc'[p] \in {"promote", "clear_read"}
  BY <1>1, <1>2 DEF TypeOK
<1>4. owed'[p] \subseteq owed[p] \cap Ready'
  BY <1>1, TrackOwed
<1>5. i \notin Ready'
  <2>1. where'[i].dir # "pending"
    BY <1>2, <1>3 DEF TypeOK, State, Transition, Satisfies, In
  <2> QED BY <2>1 DEF Ready, InDir
<1>6. owed'[p] \subseteq todo'[p]
  BY <1>2, <1>4, <1>5 DEF TypeOK, Owes
<1> QED BY <1>1, <1>3, <1>4, <1>6 DEF Owes

\* Clearing the snooze of what was promoted.
LEMMA ClearOwes ==
  ASSUME TypeOK, Order, Track, NEW p \in Procs, Owes(p),
         ClearNext(p) \/ ClearRead(p) \/ ClearWrite(p) \/ ClearAgain(p)
  PROVE  Owes(p)'
<1>1. pc[p] \in {"clear_next", "clear_read", "clear_write"}
  BY DEF ClearNext, ClearRead, ClearWrite, ClearAgain
<1>2. pc'[p] # "list"
  BY <1>1 DEF TypeOK, ClearNext, ClearRead, ClearWrite, ClearAgain, Survey, Resume, End, Goto
<1>3. CASE owed[p] = {}
  BY <1>1, <1>2, <1>3, OwesNothing
<1>4. CASE owed[p] # {}
  <2>1. cmd[p].name \in Whole /\ pc[p] # "clear_next"
    BY <1>1, <1>4 DEF Owes
  <2>2. UNCHANGED <<cmd, todo>>
    BY <2>1 DEF ClearNext, ClearRead, ClearWrite, ClearAgain, Resume, local
  <2>3. pc'[p] \in {"promote", "clear_read", "clear_write"}
    BY <2>1 DEF TypeOK, ClearNext, ClearRead, ClearWrite, ClearAgain, Resume, Goto, Whole
  <2>4. owed'[p] \subseteq owed[p] \cap Ready'
    BY <1>1, TrackOwed
  <2> QED BY <2>1, <2>2, <2>3, <2>4 DEF Owes
<1> QED BY <1>3, <1>4

\* The rest of the steps are no sweep's, or end it.
LEMMA RestOwes ==
  ASSUME TypeOK, Track, NEW p \in Procs, Owes(p),
         \/ ResolveDep(p) \/ Resolved(p) \/ Create(p)
         \/ Read(p) \/ Write(p) \/ Rewrite(p) \/ Move(p)
         \/ Swept(p) \/ AfterSweep(p) \/ Crash(p)
  PROVE  Owes(p)'
<1>1. CASE ResolveDep(p) \/ Resolved(p)
  <2>1. pc[p] = "resolve" /\ pc'[p] # "list"
    BY <1>1 DEF TypeOK, ResolveDep, Resolved, Goto
  <2> QED BY <2>1, OwesNothing DEF Owes
<1>2. CASE Create(p) \/ Move(p) \/ Crash(p)
  <2>1. pc'[p] = "idle"
    BY <1>2 DEF TypeOK, Create, Move, Crash, End, Goto
  <2> QED BY <2>1, OwesNothing
<1>3. CASE Read(p) \/ Rewrite(p)
  <2>1. pc[p] \in {"read", "write"} /\ pc'[p] # "list"
    BY <1>3 DEF TypeOK, Read, Rewrite, Keep, End, Goto
  <2> QED BY <2>1, OwesNothing DEF Owes
<1>4. CASE Write(p)
  <2>1. pc[p] = "write"
    BY <1>4 DEF Write
  <2>2. pc'[p] # "list"
    BY <1>4 DEF TypeOK, Write, AfterWrite, End, Goto
  <2> QED BY <2>1, <2>2, OwesNothing DEF Owes
<1>5. CASE Swept(p)
  <2>1. pc[p] = "promote" /\ todo[p] = {} /\ pc'[p] = "swept"
    BY <1>5 DEF TypeOK, Swept, Goto
  <2> QED BY <2>1, OwesNothing DEF Owes
<1>6. CASE AfterSweep(p)
  <2>1. pc[p] = "swept" /\ pc'[p] # "list"
    BY <1>6 DEF TypeOK, AfterSweep, Survey, End, Goto
  <2> QED BY <2>1, OwesNothing DEF Owes
<1> QED BY <1>1, <1>2, <1>3, <1>4, <1>5, <1>6

LEMMA InitOwing == Init => Owing
BY DEF Init, Owing, Owes

\* Every step of every process, and the clock, keeps what is owed.
LEMMA NextOwing == TypeOK /\ Order /\ Owing /\ [Next]_vars => Owing'
<1> SUFFICES ASSUME TypeOK, Order, Owing, [Next]_vars
             PROVE  Owing'
  OBVIOUS
<1>1. CASE UNCHANGED vars
  BY <1>1 DEF vars, store, local, Owing, Owes, Ready, Completed, InDir
<1>2. ASSUME NEW p \in Procs, Run(p) \/ Crash(p), Track
      PROVE  Owing'
  <2>1. Owes(p)'
    <3>1. Owes(p)
      BY DEF Owing
    <3> QED
      BY <1>2, <3>1, BeginOwes, ListOwes, ReadOwes, PromoteOwes, ClearOwes, RestOwes DEF Run, Step
  <2>2. Settled
    BY <1>2, StepSettled
  <2>3. Alone(p)
    BY <1>2, NobodyElse DEF Run
  <2>4. ASSUME NEW q \in Procs, q # p
        PROVE  Owes(q)'
    BY <1>2, <2>2, <2>3, <2>4, StillOwes DEF Alone, Owing
  <2> QED BY <2>1, <2>4 DEF Owing
<1>3. CASE Tick /\ Track
  <2>1. UNCHANGED <<where, pc, local>>
    BY <1>3 DEF Tick
  <2>2. Settled
    BY <2>1 DEF Settled
  <2>3. ASSUME NEW q \in Procs
        PROVE  Owes(q)'
    BY <1>3, <2>1, <2>2, StillOwes DEF Owing, local
  <2> QED BY <2>3 DEF Owing
<1> QED BY <1>1, <1>2, <1>3 DEF Next

\* However stale its reads, and whatever the other processes and the clock do
\* meanwhile, a sweep leaves nothing in pending/ that was ready all through it
\* (Schedule, which Unpromoted checks after it).
THEOREM SweepsTotal == Spec => []SweepIsTotal
<1>1. Owing => SweepIsTotal
  BY DEF Owing, Owes, SweepIsTotal
<1> QED
  BY <1>1, InitTypes, NextTypes, InitOrder, NextOrder, InitOwing, NextOwing, PTL DEF Spec
===============================================================================
