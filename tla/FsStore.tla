------------------------------- MODULE FsStore -------------------------------
(***************************************************************************)
(* The filesystem backend of mg's work items (store/fsstore), one system   *)
(* call at a time.                                                         *)
(*                                                                         *)
(* An item is one file.  Its status is the directory the file is in, and a *)
(* claim's holder is the suffix of its name, so a NAME here is a directory *)
(* and a holder.  No locks are taken: any number of mg processes call the  *)
(* backend at once, and what keeps an item in one status is rename(2) (a   *)
(* Transition) and link(2) followed by unlink(2) (archive and unarchive,   *)
(* which must not replace another record).  The result sidecar is a second *)
(* file, which follows in a separate step.                                 *)
(*                                                                         *)
(* The module is about one record, so every name leads to the same inode.  *)
(* A caller may ask for any move the program issues, at any time: what it  *)
(* read before it asked may be stale by then.  A directory is read         *)
(* atomically.                                                             *)
(***************************************************************************)
EXTENDS Naturals, FiniteSets

CONSTANTS Procs,       \* mg processes
          Holders,     \* the PIDs claims are recorded under
          NoHolder,    \* no holder suffix: a bare <id>.md
          Partitions,  \* archive partitions (one per month)
          Moves,       \* the <<from, to>> statuses of the Transitions called
          Restored,    \* the statuses unarchive restores to; {} for no unarchive
          MaxCrashes   \* how many processes may die in the middle of a call

\* Every Transition the work-item commands issue: claim, reclaim, unclaim,
\* done, reopen, snooze, a dependency added or met, shelve and unshelve.
Lifecycle ==
  { <<"available", "claimed">>, <<"claimed", "claimed">>, <<"claimed", "available">>,
    <<"claimed", "pending">>, <<"claimed", "done">>, <<"done", "claimed">>,
    <<"available", "pending">>, <<"pending", "available">>,
    <<"available", "shelved">>, <<"claimed", "shelved">>, <<"pending", "shelved">>,
    <<"shelved", "available">>, <<"shelved", "pending">>, <<"shelved", "claimed">> }

Restorable == {"available", "done", "pending", "shelved"}
Live == Restorable \cup {"claimed"}

ASSUME ProcsAssumption == IsFiniteSet(Procs)
ASSUME HoldersAssumption == IsFiniteSet(Holders) /\ NoHolder \notin Holders
ASSUME PartitionsAssumption == IsFiniteSet(Partitions) /\ Partitions \cap Live = {}
ASSUME CallsAssumption == Moves \subseteq Lifecycle /\ Restored \subseteq Restorable
ASSUME CrashesAssumption == MaxCrashes \in Nat

VARIABLES names,    \* the directory entries that lead to the record
          sides,    \* the directories that hold a result sidecar for the id
          pc,       \* the next system call of each process
          call,     \* what it asked for: the state expected, and the one wanted
          src,      \* the name it found the record under
          beaten,   \* history: another process moved the record during the call
          crashes

vars == <<names, sides, pc, call, src, beaten, crashes>>

Dirs == Live \cup Partitions
Unheld == Dirs \ {"claimed"}
Name == [dir : Unheld, holder : {NoHolder}]
          \cup [dir : {"claimed"}, holder : Holders \cup {NoHolder}]
At(dir) == [dir |-> dir, holder |-> NoHolder]
NoName == [dir |-> "none", holder |-> NoHolder]
NoCall == [expect |-> NoName, to |-> NoName]

\* Mutant of Satisfies: the holder of the claim is not compared.
SatisfiesStatusOnly(n, expect) == n.dir = expect.dir

Satisfies(n, expect) ==
  /\ n.dir = expect.dir
  /\ expect.holder = NoHolder \/ n.holder = expect.holder

\* A claim is recorded under the caller's PID; reopen alone claims for nobody.
TransitionCalls ==
  { c \in [expect : Name, to : Name] :
      /\ <<c.expect.dir, c.to.dir>> \in Moves
      /\ c.to.dir = "claimed" => (c.to.holder = NoHolder <=> c.expect.dir = "done") }
ArchiveCalls == [expect : {At("done")}, to : {At(d) : d \in Partitions}]
UnarchiveCalls == [expect : {At(d) : d \in Partitions}, to : {At(d) : d \in Restored}]
Calls == TransitionCalls \cup ArchiveCalls \cup UnarchiveCalls

\* Link and unlink, rather than rename.
NoReplace(c) == c.expect.dir \in Partitions \/ c.to.dir \in Partitions

Answered == {"refused", "stat_sidecar", "move_sidecar", "moved"}
Undecided(p) == pc[p] \notin Answered \cup {"idle"}

Init ==
  /\ \E n \in Name : n.dir \in Live /\ names = {n} /\ sides \in {{}, {n.dir}}
  /\ pc = [p \in Procs |-> "idle"]
  /\ call = [p \in Procs |-> NoCall]
  /\ src = [p \in Procs |-> NoName]
  /\ beaten = [p \in Procs |-> FALSE]
  /\ crashes = 0

Goto(p, step) == pc' = [pc EXCEPT ![p] = step]

\* A refusal ends the call: nothing was moved.
Refuse(p) ==
  /\ Goto(p, "refused")
  /\ beaten' = [beaten EXCEPT ![p] = FALSE]

\* The step that decides a call in p's favour overtakes every call in progress.
Decide(p, step) ==
  /\ Goto(p, step)
  /\ beaten' = [q \in Procs |-> q # p /\ (beaten[q] \/ Undecided(q))]

Ask(p) ==
  /\ pc[p] = "idle"
  /\ \E c \in Calls :
       /\ call' = [call EXCEPT ![p] = c]
       /\ IF c \in UnarchiveCalls
            THEN src' = [src EXCEPT ![p] = c.expect] /\ Goto(p, "lstat_src")
            ELSE src' = src /\ Goto(p, "find")
  /\ UNCHANGED <<names, sides, beaten, crashes>>

Return(p) ==
  /\ pc[p] \in {"refused", "moved"}
  /\ Goto(p, "idle")
  /\ call' = [call EXCEPT ![p] = NoCall]
  /\ src' = [src EXCEPT ![p] = NoName]
  /\ UNCHANGED <<names, sides, beaten, crashes>>

\* The entries of the expected directory that satisfy the expectation.
Matching(c) == {n \in names : Satisfies(n, c.expect)}

\* Mutant of Find: the error of find is dropped, and the move goes on.
FindAnyway(p) ==
  /\ pc[p] = "find"
  /\ LET found == Matching(call[p]) IN
       \/ found = {} /\ src' = src
       \/ \E n \in found : src' = [src EXCEPT ![p] = n]
  /\ Goto(p, IF NoReplace(call[p]) THEN "link" ELSE "lstat_dst")
  /\ UNCHANGED <<names, sides, call, beaten, crashes>>

\* find: none is a lost race, two are ambiguous, one is the source of the move.
Find(p) ==
  /\ pc[p] = "find"
  /\ LET found == Matching(call[p]) IN
       \/ Cardinality(found) # 1 /\ Refuse(p) /\ src' = src
       \/ \E n \in found :
            /\ Cardinality(found) = 1
            /\ src' = [src EXCEPT ![p] = n]
            /\ IF n = call[p].to
                 THEN Goto(p, "moved") /\ beaten' = [beaten EXCEPT ![p] = FALSE]
                 ELSE /\ Goto(p, IF NoReplace(call[p]) THEN "link" ELSE "lstat_dst")
                      /\ beaten' = beaten
  /\ UNCHANGED <<names, sides, call, crashes>>

\* A Transition refuses a destination that exists; the check is not atomic
\* with the rename.
LstatDst(p) ==
  /\ pc[p] = "lstat_dst"
  /\ IF call[p].to \in names
       THEN Refuse(p)
       ELSE Goto(p, "rename") /\ beaten' = beaten
  /\ UNCHANGED <<names, sides, call, src, crashes>>

\* rename(2): ENOENT if the source is gone.  Two names of one inode are left
\* as they are, and the call succeeds.
RenameTo(ns, n, to) == IF to \in ns THEN ns ELSE (ns \ {n}) \cup {to}

\* Mutant of Rename: read, write at the new path, remove the old one, with the
\* error of the removal ignored.
RenameByCopy(p) ==
  /\ pc[p] = "rename"
  /\ names' = RenameTo(names, src[p], call[p].to)
  /\ Decide(p, IF src[p].dir = call[p].to.dir THEN "moved" ELSE "stat_sidecar")
  /\ UNCHANGED <<sides, call, src, crashes>>

Rename(p) ==
  /\ pc[p] = "rename"
  /\ IF src[p] \in names
       THEN /\ names' = RenameTo(names, src[p], call[p].to)
            /\ Decide(p, IF src[p].dir = call[p].to.dir THEN "moved" ELSE "stat_sidecar")
       ELSE names' = names /\ Refuse(p)
  /\ UNCHANGED <<sides, call, src, crashes>>

\* Unarchive looks for the record in the partition it was told of.
LstatSrc(p) ==
  /\ pc[p] = "lstat_src"
  /\ IF src[p] \in names
       THEN Goto(p, "link") /\ beaten' = beaten
       ELSE Refuse(p)
  /\ UNCHANGED <<names, sides, call, src, crashes>>

\* MoveNoReplace: link(2) refuses a destination that exists, atomically.
Link(p) ==
  /\ pc[p] = "link"
  /\ IF src[p] \in names /\ call[p].to \notin names
       THEN /\ names' = names \cup {call[p].to}
            /\ Goto(p, "unlink") /\ beaten' = beaten
       ELSE names' = names /\ Refuse(p)
  /\ UNCHANGED <<sides, call, src, crashes>>

\* Mutant of Unlink: the clean-up runs after a successful unlink too.
UnlinkThenUndo(p) ==
  /\ pc[p] = "unlink"
  /\ names' = names \ {src[p]}
  /\ Goto(p, "undo")
  /\ UNCHANGED <<sides, call, src, beaten, crashes>>

\* ... then the source is unlinked,
Unlink(p) ==
  /\ pc[p] = "unlink"
  /\ IF src[p] \in names
       THEN names' = names \ {src[p]} /\ Decide(p, "stat_sidecar")
       ELSE names' = names /\ Goto(p, "undo") /\ beaten' = beaten
  /\ UNCHANGED <<sides, call, src, crashes>>

\* ... and when it is no longer there, the new link is removed again.
Undo(p) ==
  /\ pc[p] = "undo"
  /\ names' = names \ {call[p].to}
  /\ Refuse(p)
  /\ UNCHANGED <<sides, call, src, crashes>>

\* MoveSidecar: a sidecar beside the old name is renamed to stand beside the new.
StatSidecar(p) ==
  /\ pc[p] = "stat_sidecar"
  /\ Goto(p, IF src[p].dir \in sides THEN "move_sidecar" ELSE "moved")
  /\ UNCHANGED <<names, sides, call, src, beaten, crashes>>

\* Mutant of MoveSidecar: the sidecar is copied and the old one stays.
CopySidecar(p) ==
  /\ pc[p] = "move_sidecar"
  /\ sides' = IF src[p].dir \in sides THEN sides \cup {call[p].to.dir} ELSE sides
  /\ Goto(p, "moved")
  /\ UNCHANGED <<names, call, src, beaten, crashes>>

\* Gone since the stat: the caller gets an error, and the item has moved.
MoveSidecar(p) ==
  /\ pc[p] = "move_sidecar"
  /\ sides' = IF src[p].dir \in sides
                THEN (sides \ {src[p].dir}) \cup {call[p].to.dir}
                ELSE sides
  /\ Goto(p, "moved")
  /\ UNCHANGED <<names, call, src, beaten, crashes>>

\* A process dies between two system calls.
Crash(p) ==
  /\ pc[p] # "idle" /\ crashes < MaxCrashes
  /\ crashes' = crashes + 1
  /\ Goto(p, "idle")
  /\ call' = [call EXCEPT ![p] = NoCall]
  /\ src' = [src EXCEPT ![p] = NoName]
  /\ beaten' = [beaten EXCEPT ![p] = FALSE]
  /\ UNCHANGED <<names, sides>>

Step(p) ==
  \/ Find(p) \/ LstatDst(p) \/ Rename(p)
  \/ LstatSrc(p) \/ Link(p) \/ Unlink(p) \/ Undo(p)
  \/ StatSidecar(p) \/ MoveSidecar(p)

Next == \E p \in Procs : Ask(p) \/ Step(p) \/ Return(p) \/ Crash(p)

Spec == Init /\ [][Next]_vars
-------------------------------------------------------------------------------
Steps == {"idle", "find", "lstat_dst", "rename", "lstat_src", "link", "unlink", "undo"}
           \cup Answered

\* The types, and what a process in the middle of a call holds: it asked for a
\* move the program issues, and it has a source once it has looked for one.
TypeOK ==
  /\ names \subseteq Name
  /\ sides \subseteq Dirs
  /\ pc \in [Procs -> Steps]
  /\ call \in [Procs -> Calls \cup {NoCall}]
  /\ src \in [Procs -> Name \cup {NoName}]
  /\ beaten \in [Procs -> BOOLEAN]
  /\ crashes \in 0 .. MaxCrashes
  /\ \A p \in Procs :
       /\ pc[p] # "idle" => call[p] \in Calls
       /\ pc[p] \notin {"idle", "find", "refused"} => src[p] \in Name

\* A mover that has linked and not yet settled with an unlink.
Linked == {p \in Procs : pc[p] \in {"unlink", "undo"}}

\* No interleaving of moves and crashes ever leaves the record without a name:
\* each mover that has linked and not settled accounts for a name of its own, so
\* an unlink, or the unlink that undoes a link, is never of the last one ("no
\* bytes are lost either way", MoveNoReplace).
NoNameLost == Cardinality(names) >= 1 + Cardinality(Linked)

LiveNames == {n \in names : n.dir \in Live}

\* The record is in at most one status at a time, whoever is racing to move it,
\* as long as nothing brings it back from the archive meanwhile.
OneStatus == Cardinality(LiveNames) <= 1

\* Moves alone never destroy a result sidecar, however they overlap: there are
\* as many as there were.
SidecarKept == [][Cardinality(sides') = Cardinality(sides)]_vars

\* What a caller of the backend can tell.  The item is in the status of its live
\* name, and archived when it has none; a call is open until the rename, or the
\* unlink, that decides it.
StateOf(n) == IF n.dir \in Partitions THEN At("archived") ELSE n
ItemState == IF LiveNames # {} THEN CHOOSE n \in LiveNames : TRUE ELSE At("archived")
OpenCalls ==
  [p \in Procs |->
     IF Undecided(p)
       THEN [expect |-> StateOf(call[p].expect), to |-> StateOf(call[p].to)]
       ELSE NoCall]
Answers ==
  [p \in Procs |->
     IF pc[p] = "refused" THEN "refused" ELSE IF pc[p] \in Answered THEN "moved" ELSE "none"]

Contract == INSTANCE Store WITH state <- ItemState, call <- OpenCalls, answer <- Answers

\* The backend keeps the contract of store.Backend: a granted move started from
\* a state that satisfied the expectation, at one instant, and a Transition is
\* refused only when the item was not as expected or was moved during the call,
\* so that of two racing callers one wins and never both lose.
KeepsContract == Contract!Spec

\* "If the unlink fails, the new link is removed again so the item is not left in
\* two directories" (MoveNoReplace): with no call in progress it has one name.
NotLeftInTwoDirectories ==
  (\A p \in Procs : pc[p] = "idle") => Cardinality(names) = 1

\* "A result attached to a record must be found at the record's new Ref after a
\* Transition, Archive or Unarchive moves it" (store.Companions): with no call in
\* progress the sidecar is beside the record.
ResultTravels ==
  (\A p \in Procs : pc[p] = "idle") => sides \subseteq {n.dir : n \in names}
===============================================================================
