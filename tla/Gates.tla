-------------------------------- MODULE Gates --------------------------------
(***************************************************************************)
(* The gates that keep a work item in pending/: its dependencies, which    *)
(* open when each has reached done/ or the archive, and its snooze, which  *)
(* opens at a wake time.                                                   *)
(*                                                                         *)
(* A gate is enforced by placement: whoever files, releases, edits or      *)
(* sweeps an item reads which items are done, decides, and moves it, with  *)
(* no lock held meanwhile.  A process takes one step per read of the       *)
(* store, per guarded write and per move; a move (Transition) is atomic,   *)
(* which FsStore shows, and so is a write that is refused when the content *)
(* is not what was read (Edit).  Shelving and unarchiving are not here.    *)
(***************************************************************************)
EXTENDS Naturals, FiniteSets

CONSTANTS Items,
          Procs,       \* mg processes, and the holders of claims
          NoHolder,    \* a claim held by nobody, and no claim
          NoItem,      \* a sweep names no item
          MaxTime,     \* the clock stops here
          MaxCrashes,  \* how many processes may die in the middle of a command
          Allowed      \* the commands each process may be given

\* Commands that one move decides, those that change a document, and the sweeps.
Single == {"claim", "reopen", "archive"}
Edits == {"add_depends", "rm_depends"}
Modifies == Edits \cup {"snooze", "unsnooze"}
Sweeps == {"done", "schedule", "auto_promote", "clear_spent"}
Names == {"new", "unclaim"} \cup Single \cup Modifies \cup Sweeps
Command == [name : Names, item : Items \cup {NoItem}, deps : SUBSET Items, wake : 0 .. MaxTime]

ASSUME BoundsAssumption == MaxTime \in Nat /\ MaxCrashes \in Nat
ASSUME NobodyAssumption == NoHolder \notin Procs /\ NoItem \notin Items
ASSUME AllowedAssumption ==
  /\ Allowed \in [Procs -> SUBSET Command]
  /\ \A p \in Procs : \A c \in Allowed[p] :
       c.name \notin {"schedule", "auto_promote"} => c.item \in Items

VARIABLES where,    \* the state of each item
          doc,      \* its stored document
          now,      \* the clock
          pc,       \* the next step of each process
          cmd,      \* the command it runs
          on,       \* the item it is working on
          at,       \* the state it read that item in
          docs,     \* the documents it has read
          ids,      \* the items it has found done
          todo,     \* the items it has still to handle
          crashes,
          filed,    \* history: the dependencies an item was filed with and keeps
          reached,  \* history: the items that have been done
          owed      \* history: what has been ready, untouched, all through a sweep

store == <<where, doc, now>>
local == <<cmd, on, at, docs, ids, todo>>
vars == <<store, pc, local, crashes, filed, reached, owed>>

State == [dir : {"none", "available", "pending", "done", "archived"}, holder : {NoHolder}]
           \cup [dir : {"claimed"}, holder : Procs \cup {NoHolder}]
In(dir) == [dir |-> dir, holder |-> NoHolder]

\* A wake time of 0 is no snooze.
Doc == [depends : SUBSET Items, snooze : 0 .. MaxTime]
NoDoc == [depends |-> {}, snooze |-> 0]
NoCommand == [name |-> "none", item |-> NoItem, deps |-> {}, wake |-> 0]

Satisfies(s, expect) ==
  s.dir = expect.dir /\ (expect.holder = NoHolder \/ s.holder = expect.holder)

\* Mutant of snoozeHolds: edge-triggered, open at the wake time only.
snoozeHoldsOffTheInstant(d) == d.snooze # 0 /\ now # d.snooze

snoozeHolds(d) == d.snooze # 0 /\ now < d.snooze

allDepsMet(d, done) == d.depends \subseteq done

\* "May this item be released to available/?"
gateOpen(d, done) == allDepsMet(d, done) /\ ~snoozeHolds(d)

InDir(dir) == {i \in Items : where[i].dir = dir}
Completed == InDir("done") \cup InDir("archived")

\* Pending items that nothing holds: every dependency is done, no wake time is left.
Ready == {i \in InDir("pending") : doc[i].depends \subseteq Completed /\ doc[i].snooze <= now}

Init ==
  /\ where = [i \in Items |-> In("none")]
  /\ doc = [i \in Items |-> NoDoc]
  /\ now = 0
  /\ pc = [p \in Procs |-> "idle"]
  /\ cmd = [p \in Procs |-> NoCommand]
  /\ on = [p \in Procs |-> NoItem]
  /\ at = [p \in Procs |-> In("none")]
  /\ docs = [p \in Procs |-> [i \in Items |-> NoDoc]]
  /\ ids = [p \in Procs |-> {}]
  /\ todo = [p \in Procs |-> {}]
  /\ crashes = 0
  /\ filed = [i \in Items |-> {}]
  /\ reached = {}
  /\ owed = [p \in Procs |-> {}]

-------------------------------------------------------------------------------
(* What the steps are made of. *)

Goto(p, step) == pc' = [pc EXCEPT ![p] = step]

\* The command returns, or dies; what it had read is gone.
End(p) ==
  /\ Goto(p, "idle")
  /\ cmd' = [cmd EXCEPT ![p] = NoCommand]
  /\ on' = [on EXCEPT ![p] = NoItem]
  /\ at' = [at EXCEPT ![p] = In("none")]
  /\ docs' = [docs EXCEPT ![p] = [i \in Items |-> NoDoc]]
  /\ ids' = [ids EXCEPT ![p] = {}]
  /\ todo' = [todo EXCEPT ![p] = {}]

\* The documents of a set of items, as they are now.
Snapshot(s) == [i \in Items |-> IF i \in s THEN doc[i] ELSE NoDoc]

\* Transition: the item moves if it is still as expected, and stays otherwise.
Transition(i, expect, to) ==
  where' = IF Satisfies(where[i], expect) THEN [where EXCEPT ![i] = to] ELSE where

-------------------------------------------------------------------------------
(* Commands that one move decides. *)

Claim(p, c) ==
  /\ c.name = "claim" /\ where[c.item].dir = "available"
  /\ where' = [where EXCEPT ![c.item] = [dir |-> "claimed", holder |-> p]]
  /\ UNCHANGED <<doc, now, pc, local>>

\* A reopened claim is held by nobody.
Reopen(p, c) ==
  /\ c.name = "reopen" /\ where[c.item].dir = "done"
  /\ where' = [where EXCEPT ![c.item] = In("claimed")]
  /\ UNCHANGED <<doc, now, pc, local>>

ArchiveItem(p, c) ==
  /\ c.name = "archive" /\ where[c.item].dir = "done"
  /\ where' = [where EXCEPT ![c.item] = In("archived")]
  /\ UNCHANGED <<doc, now, pc, local>>

\* A completion goes on to sweep pending/.
Done(p, c) ==
  /\ c.name = "done" /\ where[c.item].dir = "claimed"
  /\ where' = [where EXCEPT ![c.item] = In("done")]
  /\ cmd' = [cmd EXCEPT ![p] = c]
  /\ Goto(p, "list")
  /\ UNCHANGED <<doc, now, on, at, docs, ids, todo>>

\* The other commands start by reading something.
FirstStep(c) ==
  CASE c.name = "new" -> IF c.deps = {} THEN "create" ELSE "read_done"
    [] c.name \in Sweeps -> "list"
    [] OTHER -> "read"

\* mg new mints an id that is not taken; mg snooze refuses a time that is past.
Start(p, c) ==
  /\ c.name \in {"new", "unclaim", "schedule", "auto_promote"} \cup Modifies
  /\ c.name = "new" => where[c.item].dir = "none"
  /\ c.name = "snooze" => now < c.wake
  /\ cmd' = [cmd EXCEPT ![p] = c]
  /\ on' = [on EXCEPT ![p] = c.item]
  /\ Goto(p, FirstStep(c))
  /\ UNCHANGED <<store, at, docs, ids, todo>>

Begin(p) ==
  /\ pc[p] = "idle"
  /\ \E c \in Allowed[p] :
       Claim(p, c) \/ Reopen(p, c) \/ ArchiveItem(p, c) \/ Done(p, c) \/ Start(p, c)

-------------------------------------------------------------------------------
(* Reading which items are done, and deciding. *)

\* Mutant of ReadDone: the archive is read first, and done/ second.
ReadArchiveFirst(p) ==
  /\ pc[p] = "read_done"
  /\ ids' = [ids EXCEPT ![p] = InDir("archived")]
  /\ Goto(p, "read_archive")
  /\ UNCHANGED <<store, cmd, on, at, docs, todo>>

\* doneIDSet reads done/ first,
ReadDone(p) ==
  /\ pc[p] = "read_done"
  /\ ids' = [ids EXCEPT ![p] = InDir("done")]
  /\ Goto(p, "read_archive")
  /\ UNCHANGED <<store, cmd, on, at, docs, todo>>

\* With the done set in hand: mg new resolves the dependencies that are not in
\* it, the others keep the items whose gate is open.
Decide(p, done) ==
  /\ ids' = [ids EXCEPT ![p] = done]
  /\ IF cmd[p].name = "new"
       THEN /\ todo' = [todo EXCEPT ![p] = cmd[p].deps \ done]
            /\ Goto(p, "resolve")
       ELSE /\ todo' = [todo EXCEPT ![p] = {i \in @ : gateOpen(docs[p][i], done)}]
            /\ Goto(p, IF cmd[p].name \in Sweeps THEN "promote" ELSE "move")

\* Mutant of ReadArchive: only done/ counts.
ReadNoArchive(p) ==
  /\ pc[p] = "read_archive"
  /\ Decide(p, ids[p])
  /\ UNCHANGED <<store, cmd, on, at, docs>>

\* ... then the archive.
ReadArchive(p) ==
  /\ pc[p] = "read_archive"
  /\ Decide(p, ids[p] \cup InDir("archived"))
  /\ UNCHANGED <<store, cmd, on, at, docs>>

-------------------------------------------------------------------------------
(* mg new *)

\* depStateFor resolves a dependency that was not in the set: it may have been
\* completed since.
ResolveDep(p) ==
  /\ pc[p] = "resolve"
  /\ \E d \in todo[p] :
       /\ todo' = [todo EXCEPT ![p] = @ \ {d}]
       /\ ids' = [ids EXCEPT ![p] = @ \cup ({d} \cap Completed)]
  /\ UNCHANGED <<store, pc, cmd, on, at, docs>>

\* Mutant of Resolved: the item is placed before every dependency is resolved.
ResolvedEnough(p) ==
  /\ pc[p] = "resolve"
  /\ Goto(p, "create")
  /\ UNCHANGED <<store, local>>

Resolved(p) ==
  /\ pc[p] = "resolve" /\ todo[p] = {}
  /\ Goto(p, "create")
  /\ UNCHANGED <<store, local>>

placeForDeps(deps, done) == IF deps \subseteq done THEN "available" ELSE "pending"

Create(p) ==
  /\ pc[p] = "create" /\ where[on[p]].dir = "none"
  /\ where' = [where EXCEPT ![on[p]] = In(placeForDeps(cmd[p].deps, ids[p]))]
  /\ doc' = [doc EXCEPT ![on[p]] = [depends |-> cmd[p].deps, snooze |-> 0]]
  /\ End(p)
  /\ UNCHANGED now

-------------------------------------------------------------------------------
(* Reading an item, changing its document, and moving it. *)

\* ResolveUnique, and the refusals that need no more than what it read.
Readable(c, s, d) ==
  /\ s.dir # "none"
  /\ c.name = "unclaim" => s.dir = "claimed"
  /\ c.name = "snooze" => s.dir \in {"available", "claimed", "pending"}
  /\ c.name = "unsnooze" => d.snooze # 0

Keep(p, i, step) ==
  /\ at' = [at EXCEPT ![p] = where[i]]
  /\ docs' = [docs EXCEPT ![p] = Snapshot({i})]
  /\ todo' = [todo EXCEPT ![p] = {i}]
  /\ Goto(p, step)
  /\ UNCHANGED <<cmd, on, ids>>

Read(p) ==
  LET i == on[p] IN
  /\ pc[p] = "read"
  /\ IF Readable(cmd[p], where[i], doc[i])
       THEN Keep(p, i, IF cmd[p].name = "unclaim" THEN "read_done" ELSE "write")
       ELSE End(p)
  /\ UNCHANGED store

Changed(c, d) ==
  CASE c.name = "add_depends" -> [d EXCEPT !.depends = @ \cup c.deps]
    [] c.name = "rm_depends" -> [d EXCEPT !.depends = @ \ c.deps]
    [] c.name = "snooze" -> [d EXCEPT !.snooze = c.wake]
    [] OTHER -> [d EXCEPT !.snooze = 0]

\* Mutant of AfterWrite: mg unsnooze releases the item without asking its other gate.
AfterWriteUngated(c, dir, d) ==
  CASE c.name = "snooze" -> IF dir = "pending" THEN "end" ELSE "move"
    [] c.name \in Edits /\ dir = "available" /\ d.depends # {} -> "read_done"
    [] c.name \in Edits /\ dir = "pending" -> "read_done"
    [] c.name = "unsnooze" /\ dir = "pending" -> "move"
    [] OTHER -> "end"

\* What follows the write is chosen by the status the item was read in.
AfterWrite(c, dir, d) ==
  CASE c.name = "snooze" -> IF dir = "pending" THEN "end" ELSE "move"
    [] c.name \in Edits /\ dir = "available" /\ d.depends # {} -> "read_done"
    [] c.name # "snooze" /\ dir = "pending" -> "read_done"
    [] OTHER -> "end"

\* The write lands if the document is the one that was read, wherever the item is
\* by now.
Write(p) ==
  LET i == on[p]
      d == Changed(cmd[p], docs[p][i])
      step == AfterWrite(cmd[p], at[p].dir, d) IN
  /\ pc[p] = "write" /\ doc[i] = docs[p][i]
  /\ doc' = [doc EXCEPT ![i] = d]
  /\ IF step = "end"
       THEN End(p)
       ELSE /\ docs' = [docs EXCEPT ![p][i] = d]
            /\ Goto(p, step)
            /\ UNCHANGED <<cmd, on, at, ids, todo>>
  /\ UNCHANGED <<where, now>>

\* It is not: the command starts again from what is there now, or gives up after
\* a few attempts.  modifyItem insists on the status it started from.
Rewrite(p) ==
  LET i == on[p]
      again == /\ cmd[p].name \in Edits \/ where[i].dir = at[p].dir
               /\ Readable(cmd[p], where[i], doc[i]) IN
  /\ pc[p] = "write" /\ doc[i] # docs[p][i]
  /\ (again /\ Keep(p, i, "write")) \/ End(p)
  /\ UNCHANGED store

\* Where a command puts the item, given whether its gate was open.
Landing(c, open) == IF c.name # "snooze" /\ open THEN "available" ELSE "pending"

Move(p) ==
  LET landing == Landing(cmd[p], on[p] \in todo[p]) IN
  /\ pc[p] = "move"
  /\ IF landing = at[p].dir THEN where' = where ELSE Transition(on[p], at[p], In(landing))
  /\ End(p)
  /\ UNCHANGED <<doc, now>>

-------------------------------------------------------------------------------
(* The sweeps: Schedule, and AutoPromote, which every mg process runs first. *)

Spent(dir) == {i \in InDir(dir) : doc[i].snooze # 0 /\ ~snoozeHolds(doc[i])}

\* A sweep lists pending/ with its documents; AutoPromote is about clocks only.
List(p) ==
  LET listed == IF cmd[p].name = "auto_promote" THEN Spent("pending") ELSE InDir("pending") IN
  /\ pc[p] = "list"
  /\ IF cmd[p].name = "auto_promote" /\ listed = {}
       THEN End(p)
       ELSE /\ todo' = [todo EXCEPT ![p] = listed]
            /\ docs' = [docs EXCEPT ![p] = Snapshot(listed)]
            /\ Goto(p, "read_done")
            /\ UNCHANGED <<cmd, on, at, ids>>
  /\ UNCHANGED store

\* promote: the move decides who promotes the item; only then is a snooze that
\* has done its work removed.
Promote(p) ==
  /\ pc[p] = "promote"
  /\ \E i \in todo[p] :
       /\ Transition(i, In("pending"), In("available"))
       /\ todo' = [todo EXCEPT ![p] = @ \ {i}]
       /\ IF where[i].dir = "pending"
            THEN /\ on' = [on EXCEPT ![p] = i]
                 /\ at' = [at EXCEPT ![p] = In("available")]
                 /\ Goto(p, "clear_read")
            ELSE UNCHANGED <<on, at, pc>>
  /\ UNCHANGED <<doc, now, cmd, docs, ids>>

\* Schedule is over.
Swept(p) ==
  /\ pc[p] = "promote" /\ todo[p] = {}
  /\ Goto(p, "swept")
  /\ UNCHANGED <<store, local>>

\* List the spent snoozes of one directory.
Survey(p, dir) ==
  /\ cmd' = [cmd EXCEPT ![p].name = "clear_spent"]
  /\ at' = [at EXCEPT ![p] = In(dir)]
  /\ todo' = [todo EXCEPT ![p] = Spent(dir)]
  /\ Goto(p, "clear_next")
  /\ UNCHANGED <<on, docs, ids>>

\* mg schedule goes on to ClearSpentGates; the other sweeps are over.
AfterSweep(p) ==
  /\ pc[p] = "swept"
  /\ IF cmd[p].name = "schedule" THEN Survey(p, "available") ELSE End(p)
  /\ UNCHANGED store

\* Mutant of ClearNext: only available/ is surveyed.
ClearAvailable(p) ==
  /\ pc[p] = "clear_next"
  /\ \/ todo[p] = {} /\ End(p)
     \/ \E i \in todo[p] :
          /\ on' = [on EXCEPT ![p] = i]
          /\ todo' = [todo EXCEPT ![p] = @ \ {i}]
          /\ Goto(p, "clear_read")
          /\ UNCHANGED <<cmd, at, docs, ids>>
  /\ UNCHANGED store

\* ClearSpentGates: available/, and then claimed/.
ClearNext(p) ==
  /\ pc[p] = "clear_next"
  /\ \/ todo[p] = {} /\ IF at[p].dir = "available" THEN Survey(p, "claimed") ELSE End(p)
     \/ \E i \in todo[p] :
          /\ on' = [on EXCEPT ![p] = i]
          /\ todo' = [todo EXCEPT ![p] = @ \ {i}]
          /\ Goto(p, "clear_read")
          /\ UNCHANGED <<cmd, at, docs, ids>>
  /\ UNCHANGED store

\* Back to the loop that cleared a snooze.
Resume(p) ==
  /\ Goto(p, IF cmd[p].name = "clear_spent" THEN "clear_next" ELSE "promote")
  /\ UNCHANGED <<cmd, on, at, docs, ids, todo>>

\* clearSpentSnooze reads the item again, in the directory it should be in,
ClearRead(p) ==
  LET i == on[p] IN
  /\ pc[p] = "clear_read"
  /\ IF where[i].dir = at[p].dir /\ doc[i].snooze # 0
       THEN /\ docs' = [docs EXCEPT ![p][i] = doc[i]]
            /\ Goto(p, "clear_write")
            /\ UNCHANGED <<cmd, on, at, ids, todo>>
       ELSE Resume(p)
  /\ UNCHANGED store

\* ... and removes the snooze it read.
ClearWrite(p) ==
  LET i == on[p] IN
  /\ pc[p] = "clear_write" /\ doc[i] = docs[p][i]
  /\ doc' = [doc EXCEPT ![i].snooze = 0]
  /\ Resume(p)
  /\ UNCHANGED <<where, now>>

\* The document has changed since: read again, or give up after a few attempts.
ClearAgain(p) ==
  /\ pc[p] = "clear_write" /\ doc[on[p]] # docs[p][on[p]]
  /\ \/ Goto(p, "clear_read") /\ UNCHANGED local
     \/ Resume(p)
  /\ UNCHANGED store

-------------------------------------------------------------------------------
Step(p) ==
  \/ ReadDone(p) \/ ReadArchive(p)
  \/ ResolveDep(p) \/ Resolved(p) \/ Create(p)
  \/ Read(p) \/ Write(p) \/ Rewrite(p) \/ Move(p)
  \/ List(p) \/ Promote(p) \/ Swept(p) \/ AfterSweep(p)
  \/ ClearNext(p) \/ ClearRead(p) \/ ClearWrite(p) \/ ClearAgain(p)

Crash(p) ==
  /\ pc[p] # "idle" /\ crashes < MaxCrashes
  /\ crashes' = crashes + 1
  /\ End(p)
  /\ UNCHANGED store

Tick ==
  /\ now < MaxTime
  /\ now' = now + 1
  /\ UNCHANGED <<where, doc, pc, local, crashes>>

\* The history variables.  A sweep owes what was ready when it listed pending/
\* and has been ready, with the same document, ever since.
Track ==
  /\ filed' = [i \in Items |-> IF where[i].dir = "none"
                                 THEN doc'[i].depends
                                 ELSE filed[i] \cap doc'[i].depends]
  /\ reached' = reached \cup {i \in Items : where'[i].dir = "done"}
  /\ owed' = [p \in Procs |->
                IF pc[p] = "list" /\ pc'[p] = "read_done" /\ cmd[p].name # "auto_promote"
                  THEN Ready'
                ELSE IF pc'[p] = "idle" THEN {}
                ELSE owed[p] \cap {i \in Ready' : doc'[i] = doc[i]}]

Run(p) == (Begin(p) \/ Step(p)) /\ UNCHANGED crashes
Next == ((\E p \in Procs : Run(p) \/ Crash(p)) \/ Tick) /\ Track

Spec == Init /\ [][Next]_vars

\* A process that is alive is scheduled, and time passes; nobody has to give an
\* mg command, and a process may die.
FairSpec ==
  /\ Spec
  /\ \A p \in Procs : WF_vars(Step(p) /\ UNCHANGED crashes /\ Track)
  /\ WF_vars(Tick /\ Track)
-------------------------------------------------------------------------------
Waits == {"read_done", "read_archive", "resolve", "create", "read", "write", "move", "list",
          "promote", "swept", "clear_next", "clear_read", "clear_write"}

\* The types, and what a process in the middle of a command holds: a command, with
\* the item it works on unless it sweeps, and nothing left to resolve once it creates.
TypeOK ==
  /\ where \in [Items -> State]
  /\ doc \in [Items -> Doc]
  /\ now \in 0 .. MaxTime
  /\ pc \in [Procs -> Waits \cup {"idle"}]
  /\ cmd \in [Procs -> Command \cup {NoCommand}]
  /\ on \in [Procs -> Items \cup {NoItem}]
  /\ at \in [Procs -> State]
  /\ docs \in [Procs -> [Items -> Doc]]
  /\ ids \in [Procs -> SUBSET Items]
  /\ todo \in [Procs -> SUBSET Items]
  /\ crashes \in 0 .. MaxCrashes
  /\ filed \in [Items -> SUBSET Items]
  /\ reached \subseteq Items
  /\ owed \in [Procs -> SUBSET Items]
  /\ \A p \in Procs :
       /\ pc[p] # "idle" => cmd[p] \in Command
       /\ pc[p] # "idle" /\ cmd[p].name \notin Sweeps => on[p] \in Items
       /\ pc[p] \in {"clear_read", "clear_write"} => on[p] \in Items
       /\ pc[p] \in {"resolve", "create"} => cmd[p].name = "new"
       /\ pc[p] \in {"read", "write", "move"} => cmd[p].name \notin Sweeps
       /\ pc[p] \in {"idle", "create"} => todo[p] = {}

\* No item is offered, claimed or completed before its parents: a dependency it was
\* filed with, and has kept ever since, has been done by then, however stale the
\* reads that released it were.
ParentsFirst ==
  \A i \in Items : where[i].dir \notin {"none", "pending"} => filed[i] \subseteq reached

\* A finished sweep has left nothing behind: an item that was ready when pending/
\* was listed, and stayed ready with its document untouched, is no longer there
\* ("which, after a sweep, must be none", Unpromoted).
SweepIsTotal == \A p \in Procs : pc[p] = "swept" => owed[p] = {}

\* Somebody gives a command again and again, and it comes to an end.
Recurs(name) ==
  \E p \in Procs : []<>(cmd[p].name = name) /\ []<>(pc[p] = "idle")

\* As long as mg schedule is being run, no item whose gates are all open stays in
\* pending/ for ever.
PendingReleased ==
  Recurs("schedule") => \A i \in Items : ~<>[](i \in Ready)

\* As long as mg is being run at all, no item that was snoozed does so after its
\* wake time, scheduler or no scheduler (AutoPromote).
ElapsedOpens ==
  Recurs("auto_promote") => \A i \in Items : ~<>[](i \in Ready /\ doc[i].snooze # 0)

\* A wake time that has passed does not stay on an item that was released, wherever
\* the promoter died: the next mg schedule that is not overtaken by an edit clears
\* it ("inert, visible and self-healing", promote).
SpentWiped ==
  Recurs("schedule") =>
    \A i \in Items, d \in Doc :
      ~<>[](doc[i] = d /\ where[i].dir \in {"available", "claimed"} /\ d.snooze \in 1 .. now)

\* A dependent filed in pending/ waits for a parent that "will release this
\* dependent when it completes, via Done -> Schedule" (DepWaiting): with no command
\* running, and none having died, nothing ready is left in pending/.
NotStranded ==
  (crashes = 0 /\ \A p \in Procs : pc[p] = "idle") => Ready = {}

\* "clearSpentSnooze removes a wake time that has already done its work": only
\* mg unsnooze removes one that has not come.
FutureSnoozeKept ==
  [][\A i \in Items :
       doc[i].snooze # 0 /\ doc'[i].snooze = 0 /\ now < doc[i].snooze
         => \E p \in Procs : cmd[p].name = "unsnooze" /\ pc[p] = "write" /\ pc'[p] # "write"]_vars
===============================================================================
