------------------------------- MODULE Edits --------------------------------
(***************************************************************************)
(* The document of one work item and its saved bodies: mg edit, mg         *)
(* restore-body, and the archive and unarchive that carry the saved bodies *)
(* along.  No edit takes a lock; a write is guarded by the hash of what    *)
(* was read and is three system calls (compare, truncate, write).          *)
(***************************************************************************)
EXTENDS Naturals, FiniteSets

CONSTANTS
    Proc,            \* processes running mg
    None,            \* no process, section or saved body
    Sec,             \* sections of prose, one for each edit that adds one
    Bytes,           \* the length of a body of these sections
    Hash,            \* the hash prefix in the name of a saved body
    Now,             \* the times the clock may show: it can stand still, or go back
    Keep,            \* bodyBackupKeep
    MaxAttempts,     \* maxEditAttempts
    MaxCommands,     \* bound on the commands that are run
    MaxCrashes,      \* bound on the processes that die
    Allowed          \* the commands of each process

Commands == {"replace", "append", "restore", "take", "assign", "archive", "unarchive"}

ASSUME EditsAssumption ==
    /\ IsFiniteSet(Proc) /\ IsFiniteSet(Sec) /\ None \notin Proc \cup Sec
    /\ Bytes \in [SUBSET Sec -> Nat] /\ Hash \in [SUBSET Sec -> Nat]
    /\ \A b, c \in SUBSET Sec : Hash[b] = Hash[c] => b = c
    /\ Now \subseteq Nat
    /\ Keep \in Nat \ {0} /\ MaxAttempts \in Nat \ {0}
    /\ MaxCommands \in Nat /\ MaxCrashes \in Nat
    /\ Allowed \in [Proc -> SUBSET Commands]

VARIABLES
    place,           \* the path the record is at
    doc,             \* the bytes stored there
    shelf,           \* the saved bodies, of live and of archived records
    pc, job,         \* the next step of each process and what it works on
    acked,           \* history: sections whose edit reported success
    taken,           \* history: who was told that the dispatch gate is theirs
    gone,            \* history: sections a later replacement left out
    raced,           \* history: who wrote while another had compared already
    marks,           \* history: a carrying of bodies was cut short; there was one
    begun, crashes
vars == <<place, doc, shelf, pc, job, acked, taken, gone, raced, marks, begun, crashes>>

Live == {"available", "claimed"}
Shelf(at) == IF at = "archived" THEN "archived" ELSE "live"
Shelves == {"live", "archived"}
Kept == shelf["live"] \cup shelf["archived"]

\* front matter (of which the assignee) and body; junk is what is left at
\* the end of a longer document written over
Empty == [text |-> FALSE, body |-> {}, gate |-> None, junk |-> FALSE]
Doc == [text : BOOLEAN, body : SUBSET Sec, gate : Proc \cup {None}, junk : BOOLEAN]
Saved == [stamp : Nat, body : SUBSET Sec]

Nothing == [cmd |-> "none", guarded |-> FALSE, sec |-> None, seen |-> {}, base |-> Empty,
            new |-> Empty, at |-> "none", name |-> None,
            older |-> {}, todo |-> {}, tries |-> 0]

Goto(p, step, j) ==
    /\ pc' = [pc EXCEPT ![p] = step]
    /\ job' = [job EXCEPT ![p] = j]
Finish(p) == Goto(p, "idle", Nothing)
Told == <<acked, taken, gone, raced>>
History == <<Told, marks>>
Bounds == <<begun, crashes>>
Rest == <<place, doc, shelf, History, Bounds>>
Begun == begun < MaxCommands /\ begun' = begun + 1
Untouched == UNCHANGED <<place, doc, shelf, History, crashes>>
Fresh == {s \in Sec : /\ s \notin doc.body \cup acked \cup gone
                      /\ \A p \in Proc : job[p].sec # s}

(***************************************************************************)
(* The commands.  A full replacement is composed from what mg show printed *)
(* some time before; --if-unchanged names that version.                    *)
(***************************************************************************)
Show(p) ==
    /\ pc[p] = "idle" /\ "replace" \in Allowed[p]
    /\ doc.text
    /\ \E s \in Fresh, g \in BOOLEAN :
         Goto(p, "read", [Nothing EXCEPT !.cmd = "replace", !.guarded = g, !.sec = s,
                                         !.seen = doc.body])
    /\ Begun /\ Untouched

Append(p) ==
    /\ pc[p] = "idle" /\ "append" \in Allowed[p]
    /\ \E s \in Fresh : Goto(p, "read", [Nothing EXCEPT !.cmd = "append", !.sec = s])
    /\ Begun /\ Untouched

\* --if-assignee="" --assignee=blocked:me, and a plain --assignee
Assign(p) ==
    /\ pc[p] = "idle"
    /\ \E c \in {"take", "assign"} \cap Allowed[p] :
         Goto(p, "read", [Nothing EXCEPT !.cmd = c])
    /\ Begun /\ Untouched

\* restore-body lists the shelf and picks the newest body
After(m, n) == m.stamp > n.stamp \/ (m.stamp = n.stamp /\ Hash[m.body] > Hash[n.body])
NewerThan(n, names) == {m \in names : After(m, n)}

Restore(p) ==
    /\ pc[p] = "idle" /\ "restore" \in Allowed[p]
    /\ \E n \in {n \in shelf[Shelf(place)] : NewerThan(n, shelf[Shelf(place)]) = {}} :
         Goto(p, "get", [Nothing EXCEPT !.cmd = "restore", !.at = Shelf(place), !.name = n])
    /\ Begun /\ Untouched

\* a body that has been pruned or carried away meanwhile fails the restore
GetBody(p) ==
    /\ pc[p] = "get"
    /\ IF job[p].name \in shelf[job[p].at]
       THEN Goto(p, "read", [Nothing EXCEPT !.cmd = "restore", !.seen = job[p].name.body])
       ELSE Finish(p)
    /\ UNCHANGED Rest

(***************************************************************************)
(* updateOnce: read, refuse or compose, save what will be overwritten.     *)
(***************************************************************************)
Added(p) == IF job[p].sec = None THEN {} ELSE {job[p].sec}

\* the document this edit would store in place of d
Composed(p, d) ==
    CASE job[p].cmd = "append" -> [d EXCEPT !.body = @ \cup Added(p)]
      [] job[p].cmd = "take" -> [d EXCEPT !.gate = p]
      [] job[p].cmd = "assign" -> [d EXCEPT !.gate = None]
      [] OTHER -> [d EXCEPT !.body = job[p].seen \cup Added(p), !.junk = FALSE]

Replaces(j) == j.cmd \in {"replace", "restore"}
Overwrites(j) == Replaces(j) /\ j.base.body # {} /\ j.new # j.base

\* a document that does not parse, or is not the version named, is refused
Refused(p) ==
    \/ ~doc.text
    \/ job[p].guarded /\ (doc.body # job[p].seen \/ doc.junk)
    \/ job[p].cmd = "take" /\ doc.gate # None

Read(p) ==
    /\ pc[p] = "read"
    /\ LET j == [job[p] EXCEPT !.base = doc, !.new = Composed(p, doc), !.at = Shelf(place)] IN
       IF Refused(p) THEN Finish(p)
       ELSE Goto(p, IF Overwrites(j) THEN "save" ELSE "locate", j)
    /\ UNCHANGED Rest

\* the stamp of the moment, which an earlier body may have
StampNow(now, names) == now

\* nextBackupName: now, or just past the newest name if that is later
Stamp(now, names) ==
    IF \A n \in names : n.stamp < now THEN now
    ELSE 1 + (CHOOSE k \in {n.stamp : n \in names} : \A n \in names : n.stamp <= k)

ListShelf(p) ==
    /\ pc[p] = "save"
    /\ \E now \in Now :
         Goto(p, "put", [job[p] EXCEPT !.name = [stamp |-> Stamp(now, shelf[job[p].at]),
                                                 body |-> job[p].base.body],
                                       !.older = Kept])
    /\ UNCHANGED Rest

PutBody(p) ==
    /\ pc[p] = "put"
    /\ shelf' = [shelf EXCEPT ![job[p].at] = @ \cup {job[p].name}]
    /\ Goto(p, "prune", job[p])
    /\ UNCHANGED <<place, doc, History, Bounds>>

\* pruneBodyBackups: all but the newest Keep of what it lists
Surplus(names) == {n \in names : Cardinality(NewerThan(n, names)) >= Keep}

Pruning(p, drop) ==
    CASE drop # {} -> Goto(p, "remove", [job[p] EXCEPT !.todo = drop])
      [] drop = {} /\ Replaces(job[p]) -> Goto(p, "locate", [job[p] EXCEPT !.todo = {}])
      [] OTHER -> Finish(p)

\* the shelf that an archive merges into is not pruned
ListPruneSaved(p) ==
    /\ pc[p] = "prune" \/ (pc[p] = "carry" /\ job[p].todo = {})
    /\ Pruning(p, IF pc[p] = "prune" THEN Surplus(shelf[job[p].at]) ELSE {})
    /\ UNCHANGED Rest

\* after a save, and when all the bodies of a moved record are carried along
ListPrune(p) ==
    /\ pc[p] = "prune" \/ (pc[p] = "carry" /\ job[p].todo = {})
    /\ Pruning(p, Surplus(shelf[job[p].at]))
    /\ UNCHANGED Rest

RemoveOne(p) ==
    /\ pc[p] = "remove"
    /\ \E n \in job[p].todo :
         /\ shelf' = [shelf EXCEPT ![job[p].at] = @ \ {n}]
         /\ Pruning(p, job[p].todo \ {n})
    /\ UNCHANGED <<place, doc, History, Bounds>>

(***************************************************************************)
(* Backend.Edit: RewriteExisting at the path the record was located at.    *)
(***************************************************************************)
Locate(p) ==
    /\ pc[p] = "locate"
    /\ Goto(p, "compare", [job[p] EXCEPT !.at = place])
    /\ UNCHANGED Rest

\* one attempt more than the bound
RetryOnceMore(p) ==
    IF job[p].tries = MaxAttempts THEN Finish(p)
    ELSE Goto(p, "read", [job[p] EXCEPT !.tries = @ + 1, !.base = Empty, !.new = Empty,
                                        !.name = None, !.older = {}, !.at = "none"])

\* errEditRaced: the whole read-modify-write again, so many times
Retry(p) ==
    IF job[p].tries + 1 = MaxAttempts THEN Finish(p)
    ELSE Goto(p, "read", [job[p] EXCEPT !.tries = @ + 1, !.base = Empty, !.new = Empty,
                                        !.name = None, !.older = {}, !.at = "none"])

\* the write is not guarded by what was read
CompareNothing(p) ==
    /\ pc[p] = "compare"
    /\ IF place = job[p].at THEN Goto(p, "truncate", job[p]) ELSE Retry(p)
    /\ UNCHANGED Rest

\* the hash is of the body, and the front matter may have changed
CompareBody(p) ==
    /\ pc[p] = "compare"
    /\ IF place = job[p].at /\ doc.body = job[p].base.body THEN Goto(p, "truncate", job[p])
       ELSE Retry(p)
    /\ UNCHANGED Rest

\* opened without O_CREATE and read through the same descriptor
Compare(p) ==
    /\ pc[p] = "compare"
    /\ IF place = job[p].at /\ doc = job[p].base THEN Goto(p, "truncate", job[p])
       ELSE Retry(p)
    /\ UNCHANGED Rest

Truncate(p) ==
    /\ pc[p] = "truncate"
    /\ doc' = Empty
    /\ Goto(p, "write", job[p])
    /\ UNCHANGED <<place, shelf, History, Bounds>>

InWindow(p) == pc[p] \in {"truncate", "write"}

\* write(2) at offset 0: the end of a longer document stays
WrittenOver(old, new) == [new EXCEPT !.junk = @ \/ (old.text /\ Bytes[old.body] > Bytes[new.body])]

Write(p) ==
    /\ pc[p] = "write"
    /\ doc' = WrittenOver(doc, job[p].new)
    /\ acked' = acked \cup Added(p)
    /\ taken' = CASE job[p].cmd = "take" -> taken \cup {p}
                  [] job[p].cmd = "assign" -> {}
                  [] OTHER -> taken
    /\ gone' = gone \cup (job[p].base.body \ job[p].new.body)
    /\ raced' = IF \E q \in Proc \ {p} : InWindow(q) THEN raced \cup {p} \cup Added(p) ELSE raced
    /\ Finish(p)
    /\ UNCHANGED <<place, shelf, marks, Bounds>>

(***************************************************************************)
(* The record moves: a claim or an unclaim changes its path, an archive or *)
(* an unarchive also carries its saved bodies, one rename each.            *)
(***************************************************************************)
Move ==
    /\ place \in Live /\ Begun
    /\ \E l \in Live \ {place} : place' = l
    /\ UNCHANGED <<doc, shelf, pc, job, History, crashes>>

Carried(p, from, to, cmd) ==
    /\ pc[p] = "idle" /\ cmd \in Allowed[p] /\ Begun
    /\ Shelf(place) = from
    /\ place' = to
    /\ Goto(p, "list", [Nothing EXCEPT !.cmd = cmd])
    /\ marks' = marks \cup {"two shelves"}
    /\ UNCHANGED <<doc, shelf, Told, crashes>>
Archive(p) == Carried(p, "live", "archived", "archive")
Unarchive(p) == Carried(p, "archived", "available", "unarchive")

Source(p) == IF job[p].cmd = "archive" THEN "live" ELSE "archived"
Target(p) == IF job[p].cmd = "archive" THEN "archived" ELSE "live"

ListBodies(p) ==
    /\ pc[p] = "list"
    /\ Goto(p, "carry", [job[p] EXCEPT !.todo = shelf[Source(p)], !.at = Target(p)])
    /\ UNCHANGED Rest

\* rename(2); a body that is no longer there ends the move with an error
CarryOne(p) ==
    /\ pc[p] = "carry"
    /\ \E n \in job[p].todo :
         IF n \in shelf[Source(p)]
         THEN /\ shelf' = [shelf EXCEPT ![Source(p)] = @ \ {n}, ![Target(p)] = @ \cup {n}]
              /\ Goto(p, "carry", [job[p] EXCEPT !.todo = @ \ {n}])
              /\ UNCHANGED marks
         ELSE Finish(p) /\ marks' = marks \cup {"cut"} /\ UNCHANGED shelf
    /\ UNCHANGED <<place, doc, Told, Bounds>>

Crash(p) ==
    /\ pc[p] # "idle" /\ crashes < MaxCrashes
    /\ crashes' = crashes + 1 /\ marks' = marks \cup {"cut"}
    /\ raced' = IF pc[p] = "write" THEN raced \cup {None} ELSE raced
    /\ Finish(p)
    /\ UNCHANGED <<place, doc, shelf, acked, taken, gone, begun>>

-----------------------------------------------------------------------------
Init ==
    /\ place = "available" /\ shelf = [s \in Shelves |-> {}]
    /\ doc = [text |-> TRUE, body |-> {}, gate |-> None, junk |-> FALSE]
    /\ pc = [p \in Proc |-> "idle"] /\ job = [p \in Proc |-> Nothing]
    /\ acked = {} /\ taken = {} /\ gone = {} /\ raced = {}
    /\ marks = {} /\ begun = 0 /\ crashes = 0

Begin(p) ==
    \/ Show(p) \/ Append(p) \/ Assign(p) \/ Restore(p) \/ Archive(p) \/ Unarchive(p)

Step(p) ==
    \/ GetBody(p) \/ Read(p) \/ ListShelf(p) \/ PutBody(p) \/ ListPrune(p) \/ RemoveOne(p)
    \/ Locate(p) \/ Compare(p) \/ Truncate(p) \/ Write(p)
    \/ ListBodies(p) \/ CarryOne(p)

Next == Move \/ \E p \in Proc : Begin(p) \/ Step(p) \/ Crash(p)
Spec == Init /\ [][Next]_vars

-----------------------------------------------------------------------------
(***************************************************************************)
(* Properties.                                                             *)
(***************************************************************************)
Steps == {"idle", "get", "read", "save", "put", "prune", "remove", "locate", "compare",
          "truncate", "write", "list", "carry"}

\* The type of every variable; beside it, an edit gives up after MaxAttempts
\* and only one that passed its comparison goes on to write.
TypeOK ==
    /\ place \in Live \cup {"archived"} /\ doc \in Doc
    /\ \A s \in Shelves : shelf[s] \subseteq Saved
    /\ pc \in [Proc -> Steps]
    /\ \A p \in Proc :
         /\ job[p].cmd \in Commands \cup {"none"} /\ job[p].tries \in 0 .. MaxAttempts - 1
         /\ job[p].base \in Doc /\ job[p].new \in Doc /\ job[p].todo \subseteq Saved
         /\ InWindow(p) => job[p].base.text
    /\ acked \subseteq Sec /\ taken \subseteq Proc /\ gone \subseteq Sec
    /\ raced \subseteq Proc \cup Sec \cup {None}

\* Nobody is between the truncation and the write, and nobody died there.
Settled == None \notin raced /\ \A p \in Proc : pc[p] # "write"

\* A section whose edit reported success is in the stored body until a
\* replacement that was composed from a version with it leaves it out
\* (--if-unchanged), or one without the guard overwrites it; appends and
\* metadata edits lose none (edit.go), and the document is one edit's text from
\* the first byte to the last.  The exception is named: an edit that was
\* written while another one stood between its comparison and its write.
AckedKept ==
    Settled => acked \subseteq doc.body \cup gone \cup raced /\ doc.text /\ (doc.junk => raced # {})

\* --if-assignee="" makes the assignment a compare-and-swap (mgcli/edit.go):
\* whoever was told that the gate is theirs holds it until somebody assigns
\* it anew, with the same exception.
GateHeld == Settled => taken \subseteq {doc.gate} \cup raced

\* When a replacement destroys a body, that body is on a shelf of the item,
\* whatever saves and prunes run meanwhile, unless Keep bodies that were not
\* there when it was named have come after it (saveBody, nextBackupName: "name
\* order IS write order").  Each shelf gives stamps of its own, so once
\* the record has changed shelves Keep bodies with later names will do.
BodySaved ==
    \A p \in Proc : pc[p] \in {"locate", "compare", "truncate", "write"} /\ Overwrites(job[p]) =>
      LET n == job[p].name
          later == IF "two shelves" \in marks THEN NewerThan(n, Kept) ELSE Kept \ job[p].older
      IN n \in Kept \/ Cardinality(later \ {n}) >= Keep

\* The bound on saved bodies needs no sweep (pruneBodyBackups, moveBodyBackups):
\* with nobody at work a shelf holds Keep at most, unless somebody died or an
\* archive found a body gone that it had listed, which ends before it prunes.
ShelfBounded ==
    "cut" \notin marks /\ (\A p \in Proc : pc[p] = "idle") =>
      \A s \in Shelves : Cardinality(shelf[s]) <= Keep
=============================================================================
