------------------------------- MODULE Identity -------------------------------
(* Short ids: the scan of the whole store that a new id is checked against and *)
(* that every command resolves an id with, and what is made of several records *)
(* of one id (Locate, Create, GetAll and IDs in src/store/fsstore, Create and  *)
(* resolve.go in src/internal/workitem).                                       *)
(*                                                                             *)
(* A directory is read at once, the next one some time later, and others move  *)
(* records meanwhile.  A record here is one work item, whatever its id: two of *)
(* one id are twins.  Its name in the store is a directory and, in claimed/,   *)
(* a holder.  A move checks its destination and renames in one step (FsStore   *)
(* takes the two apart).                                                       *)
EXTENDS Naturals, Sequences, FiniteSets, SequencesExt

CONSTANTS
  Processes,
  Records, IDs,
  Holders,
  Partitions,   \* the archive's partitions, in lexical order
  Moves,        \* the <<from, to>> directories records are moved between
  Taken,        \* the directories that records older than the model are in
  MaxCommands, MaxMoves, MaxAttempts, MaxRescans    \* bounds; the last two are 64 and 5

VARIABLES
  id, where,    \* the id and the name of each record
  months,       \* the partitions that exist
  cmd,          \* the command of each process
  left,         \* the commands and moves the bounds leave
  excused       \* history: the pairs of twins the code does not claim to prevent

vars == <<id, where, months, cmd, left, excused>>
store == <<id, where, months>>

activeStates == <<"available", "claimed", "done", "pending", "shelved">>
liveStates == {"available", "claimed", "pending", "shelved"}
Months == ToSet(Partitions)
Dirs == ToSet(activeStates) \cup {"archive"} \cup Months
Name(dir) == [dir : {dir}, holder : IF dir = "claimed" THEN Holders ELSE {"none"}]
Names == UNION {Name(d) : d \in Dirs}
Nowhere == [dir |-> "none", holder |-> "none"]

\* A partition is no state's directory, and a record is not one of the two errors.
IdentityAssumption ==
  /\ IsFiniteSet(Records) /\ Records \cap {"not_found", "ambiguous_id"} = {}
  /\ Partitions \in Seq(Months)
  /\ Months \cap (ToSet(activeStates) \cup {"archive", "none"}) = {}
  /\ IDs # {} /\ Taken \subseteq Dirs
  /\ {MaxCommands, MaxMoves, MaxAttempts, MaxRescans} \subseteq Nat

Existing == {r \in Records : where[r] # Nowhere}
NameFree(i, n) == \A r \in Existing : id[r] = i => where[r] # n

\* ids: what AllIDs has gathered.  still: history, the records that have not moved
\* since the command began.
Idle == [call |-> "none", step |-> "idle", id |-> "none", partition |-> "any",
         todo |-> <<>>, found |-> <<>>, docs |-> {}, moved |-> FALSE, tries |-> 1,
         ids |-> {}, still |-> {}]

Step(p, c) == cmd' = [cmd EXCEPT ![p] = c]
At(p, call, step) == cmd[p].call = call /\ cmd[p].step = step
Use(what) == left[what] > 0 /\ left' = [left EXCEPT ![what] = @ - 1]

-------------------------------------------------------------------------------
(* Other commands: they move records, never onto one of the same id. *)

\* There is no record at the name the record is to get.
Vacant(r, n) == NameFree(id[r], n)

Move(r) ==
  /\ r \in Existing
  /\ Use("moves")
  /\ \E n \in Names :
       /\ <<where[r].dir, n.dir>> \in Moves /\ n # where[r]
       /\ Vacant(r, n)
       /\ where' = [where EXCEPT ![r] = n]
       /\ months' = months \cup ({n.dir} \cap Months)
  /\ cmd' = [q \in Processes |-> [cmd[q] EXCEPT !.still = @ \ {r}]]
  /\ UNCHANGED <<id, excused>>

-------------------------------------------------------------------------------
(* The scan (Locate): one directory after another, the partitions that the     *)
(* archive is seen to have last of all.                                        *)

WholeStore == activeStates \o <<"archive">>

\* Some numbers, in ascending order.
InOrder(S) ==
  [n \in 1 .. Cardinality(S) |-> CHOOSE t \in S : Cardinality({u \in S : u <= t}) = n]

\* What a directory of the scan adds to those that are left of it: the partitions that exist,
\* oldest first.
InArchive(dir) ==
  LET kept == InOrder({k \in DOMAIN Partitions : Partitions[k] \in months}) IN
  IF dir = "archive" THEN [n \in DOMAIN kept |-> Partitions[kept[n]]] ELSE <<>>

Scanning(c) == [c EXCEPT !.step = "scan", !.todo = WholeStore, !.found = <<>>]

\* The names of the id in one directory.
Matching(i, dir) == {where[r] : r \in {s \in Existing : id[s] = i /\ where[s].dir = dir}}

\* Mutant of ReadDir: of the archive only the partitions are looked at.
ReadDirPartitions(c) ==
  LET dir == Head(c.todo) IN
  [c EXCEPT !.found = IF dir = "archive" THEN @ ELSE @ \o SetToSeq(Matching(c.id, dir)),
            !.todo = Tail(@) \o InArchive(dir)]

\* What the next directory adds to what was found.
ReadDir(c) ==
  LET dir == Head(c.todo) IN
  [c EXCEPT !.found = @ \o SetToSeq(Matching(c.id, dir)),
            !.todo = Tail(@) \o InArchive(dir)]

Scan(p) ==
  LET c == cmd[p] IN
  /\ c.step = "scan" /\ c.todo # <<>>
  /\ Step(p, ReadDir(c))
  /\ UNCHANGED <<store, left, excused>>

Scanned(p, call) == At(p, call, "scan") /\ cmd[p].todo = <<>>

-------------------------------------------------------------------------------
(* mg new: an id is minted from the title, the time and a nonce; one that is   *)
(* taken makes room for the next.                                              *)

Begin(p, c) ==
  /\ cmd[p] = Idle
  /\ Use("commands")
  /\ Step(p, [c EXCEPT !.still = Existing])
  /\ UNCHANGED <<store, excused>>

New(p) == \E i \in IDs : Begin(p, Scanning([Idle EXCEPT !.call = "new", !.id = i]))

\* The id is somebody's: with the next nonce another is minted, and what was seen
\* of the store before counts no longer.
Remint(p) ==
  LET c == cmd[p] IN
  \E i \in IDs :
    Step(p, IF c.tries = MaxAttempts THEN Idle
            ELSE [Scanning(c) EXCEPT !.id = i, !.tries = @ + 1,
                                     !.still = Existing])

\* Mutant of Free: the directory alone decides.
FreeHere(c) == TRUE

Free(c) == c.found = <<>>

\* Available, or pending for an item with unmet dependencies: O_EXCL.
Create(p) ==
  LET c == cmd[p] IN
  /\ Scanned(p, "new")
  /\ \E n \in Name("available") \cup Name("pending") :
       \/ /\ Free(c) /\ NameFree(c.id, n)
          /\ \E r \in Records \ Existing :
               /\ id' = [id EXCEPT ![r] = c.id]
               /\ where' = [where EXCEPT ![r] = n]
               /\ excused' = excused \cup
                    {{r, s} : s \in {s \in Existing : id[s] = c.id /\ s \notin c.still}}
          /\ Step(p, Idle)
       \/ ~(Free(c) /\ NameFree(c.id, n)) /\ Remint(p) /\ UNCHANGED <<id, where, excused>>
  /\ UNCHANGED <<months, left>>

-------------------------------------------------------------------------------
(* Every other command: the id, perhaps with a partition, is resolved. *)

Resolve(p) ==
  \E i \in IDs, m \in Months \cup {"any"} :
    Begin(p, Scanning([Idle EXCEPT !.call = "show", !.id = i, !.partition = m]))

\* Each name that was found is opened.
Open(p) ==
  LET c == cmd[p]
      n == Head(c.found)
      r == {s \in Existing : id[s] = c.id /\ where[s] = n} IN
  /\ Scanned(p, "show") /\ c.found # <<>>
  /\ Step(p, [c EXCEPT !.found = Tail(@),
                       !.docs = @ \cup {[name |-> n, record |-> s] : s \in r},
                       !.moved = @ \/ r = {}])
  /\ UNCHANGED <<store, left, excused>>

\* GetAll: a record that was gone when it was opened makes it scan again.
GetAll(p) ==
  LET c == cmd[p] IN
  /\ Scanned(p, "show") /\ c.found = <<>>
  /\ Step(p, IF c.moved /\ c.tries < MaxRescans
             THEN [Scanning(c) EXCEPT !.docs = {}, !.moved = FALSE, !.tries = @ + 1]
             ELSE [c EXCEPT !.step = "answer"])
  /\ UNCHANGED <<store, left, excused>>

Qualifies(dir, partition) == partition = "any" \/ dir = partition

\* One record, or the only one of several that is live.
ResolveUnique(docs, partition) ==
  LET kept == {d \in docs : Qualifies(d.name.dir, partition)}
      live == {d \in kept : d.name.dir \in liveStates} IN
  CASE kept = {} -> "not_found"
    [] Cardinality(kept) = 1 -> (CHOOSE d \in kept : TRUE).record
    [] Cardinality(kept) > 1 /\ Cardinality(live) = 1 -> (CHOOSE d \in live : TRUE).record
    [] OTHER -> "ambiguous_id"

Answer(p) == ResolveUnique(cmd[p].docs, cmd[p].partition)

\* AllIDs, for mg mail list: the names of every directory, none of them opened.
AllIDs(p) == Begin(p, [Idle EXCEPT !.call = "ids", !.step = "list", !.todo = WholeStore])

ListIDs(p) ==
  LET c == cmd[p]
      dir == Head(c.todo) IN
  /\ At(p, "ids", "list")
  /\ Step(p, [c EXCEPT
       !.ids = @ \cup {id[r] : r \in {s \in Existing : where[s].dir = dir}},
       !.todo = Tail(@) \o InArchive(dir),
       !.step = IF Len(c.todo) = 1 /\ (dir # "archive" \/ months = {}) THEN "answer" ELSE "list"])
  /\ UNCHANGED <<store, left, excused>>

Answered(p) ==
  /\ cmd[p].step = "answer"
  /\ Step(p, Idle)
  /\ UNCHANGED <<store, left, excused>>

-------------------------------------------------------------------------------

\* Some records are older, and may be twins: ids were shorter once.
Init ==
  /\ \E old \in SUBSET Records :
       /\ id \in [Records -> IDs]
       /\ \A r \in Records \ old : id[r] = CHOOSE i \in IDs : TRUE
       /\ where \in [Records -> {Nowhere} \cup UNION {Name(d) : d \in Taken}]
       /\ old = Existing
       /\ \A r, s \in old : id[r] = id[s] /\ r # s => where[r] # where[s]
       /\ excused = {{r, s} : r \in old, s \in old}
  /\ months = {where[r].dir : r \in Existing} \cap Months
  /\ cmd = [p \in Processes |-> Idle]
  /\ left = [commands |-> MaxCommands, moves |-> MaxMoves]

Run(p) ==
  \/ New(p) \/ Create(p) \/ Resolve(p) \/ Open(p) \/ GetAll(p) \/ Scan(p)
  \/ AllIDs(p) \/ ListIDs(p) \/ Answered(p)

Next == (\E r \in Records : Move(r)) \/ (\E p \in Processes : Run(p))
Spec == Init /\ [][Next]_vars

-------------------------------------------------------------------------------
(* Properties. *)

\* Every record has a name of its own, twins too: no move and no create has put
\* one record over another (Lstat and link in fs.go, O_EXCL in prim.go).
TypeOK ==
  /\ id \in [Records -> IDs] /\ where \in [Records -> Names \cup {Nowhere}]
  /\ \A r \in Existing : where[r].dir \in Months => where[r].dir \in months
  /\ \A r, s \in Existing : id[r] = id[s] /\ where[r] = where[s] => r = s

\* No new item is born a silent alias: two records share an id only if they always
\* have, or one was moved or made while the store was scanned for the other's id
\* (Create, workitem.go, and Locate).
NoSilentAlias ==
  \A r, s \in Existing : id[r] = id[s] /\ r # s => {r, s} \in excused

\* The answer to an id is the right one, whatever moves meanwhile.  It is not
\* guessed: the record is of that id, from the partition if one was named, and no
\* record that has stood still all along is as good an answer (ResolveUnique,
\* resolve.go).  And a record that stands still is seen: its id resolves, ambiguously
\* at the worst, and is among all the ids (Locate and IDs look into the same places).
AnsweredRight ==
  \A p \in Processes :
    LET c == cmd[p]
        read(r) == {d \in c.docs : d.record = r /\ Qualifies(d.name.dir, c.partition)}
        live(r) == where[r].dir \in liveStates
        good(r) == id[r] = c.id /\ Qualifies(where[r].dir, c.partition) IN
    /\ At(p, "ids", "answer") => \A r \in c.still : id[r] \in c.ids
    /\ At(p, "show", "answer") =>
         /\ \A r \in c.still : good(r) => Answer(p) # "not_found"
         /\ Answer(p) \in Records =>
              /\ id[Answer(p)] = c.id /\ read(Answer(p)) # {}
              /\ \A s \in c.still \ {Answer(p)} : good(s) =>
                   ~live(s) /\ \E d \in read(Answer(p)) : d.name.dir \in liveStates
===============================================================================
