------------------------------ MODULE Completion ------------------------------
(* mg done and mg archive: the result that is merged before anything can be    *)
(* refused, the successor that discharges a declared remainder, the link back, *)
(* the guards, and the move that decides (src/internal/workitem/done.go,       *)
(* sidecar.go, remainder.go, successor.go, predecessor.go, blockedon.go,       *)
(* archive.go, modifyItem in backend.go, and the commands in src/mgcli).       *)
(*                                                                             *)
(* A tag is a pair of what it says and whom it names, if it names an item.     *)
(* A result is the set of its keys, and {"opaque"} when it is no JSON object;  *)
(* a key is named for the process that supplied it.  A move carries the result *)
(* with it (FsStore looks into that), all claims are one agent's, and an       *)
(* archive has one partition.                                                  *)
EXTENDS Naturals, FiniteSets

CONSTANTS
  Items, Processes,
  Finished,     \* the items mg done and mg archive are called on
  Designs,      \* the items of type design
  EditedTags,   \* the tags mg edit adds and removes on a finished item
  MaxCommands, MaxMoves     \* bounds of the model

VARIABLES
  at,       \* where each item is
  tags,     \* the tags of each item
  result,   \* the result copy each item has in each directory
  cmd,      \* the command of each process
  left,     \* the commands and moves the bounds leave
  kept,     \* history: the keys of each item that were recorded in time
  named     \* history: the <<item, successor>> pairs that were ever recorded

vars == <<at, tags, result, cmd, left, kept, named>>
history == <<kept, named>>

Dirs == {"available", "claimed", "done", "archived"}
Keys == Processes \cup {"old", "opaque"}
NoResult == {}

Declares == <<"declares-remainder", "none">>
Blocked == <<"blocked-on", "none">>
Succ(j) == <<"succ", j>>
Pred(i) == <<"pred", i>>
Labels == {Declares, Blocked} \cup {Succ(j) : j \in Items} \cup {Pred(j) : j \in Items}
Inherited == {Pred(j) : j \in Items}

\* Nobody edits a link back by hand (mg edit could).
CompletionAssumption ==
  /\ Finished \subseteq Items /\ Designs \subseteq Items
  /\ EditedTags \subseteq Labels \ Inherited
  /\ {MaxCommands, MaxMoves} \subseteq Nat
  /\ "none" \notin Items /\ Processes \cap {"old", "opaque"} = {}

SuccessorIDs(t) == {j \in Items : Succ(j) \in t}
Exists(j) == at[j] # "none"

\* still: history, the items nobody else has touched since the command started;
\* base: the keys that were beside the item when it read the prior result.
Idle ==
  [call |-> "none", step |-> "idle", item |-> "none", successor |-> "none",
   flag |-> FALSE, mine |-> {}, todo |-> {}, sweep |-> {}, prior |-> NoResult,
   still |-> {}, base |-> {}, missed |-> {}]

\* The process touches i: the others can no longer count on it.
Touch(p, i, c) ==
  cmd' = [q \in Processes |-> IF q = p THEN c ELSE [cmd[q] EXCEPT !.still = @ \ {i}]]
Step(p, c) == cmd' = [cmd EXCEPT ![p] = c]
Quit(p) == Step(p, Idle)

At(p, call, step) == cmd[p].call \in call /\ cmd[p].step = step

\* A transition carries the result: the copy beside the item replaces one that is
\* already there, and no copy leaves it alone.
Moved(i, to) ==
  /\ at' = [at EXCEPT ![i] = to]
  /\ result' = IF result[i][at[i]] = NoResult THEN result
               ELSE [result EXCEPT ![i] = [@ EXCEPT ![to] = result[i][at[i]], ![at[i]] = NoResult]]

-------------------------------------------------------------------------------
(* Starting a command: the item is resolved and read. *)

Spend(what) == left[what] > 0 /\ left' = [left EXCEPT ![what] = @ - 1]

Begin(p, c) ==
  /\ cmd[p] = Idle
  /\ Spend("commands")
  /\ Step(p, [c EXCEPT !.still = Items])
  /\ UNCHANGED <<at, tags, result, history>>

\* Mutant of LinkStep: only the successor supplied on the command line is linked back.
LinkStepSupplied(c) == [c EXCEPT !.step = IF c.successor = "none" THEN "back" ELSE "check",
                                 !.todo = {}]

\* Mutant of LinkStep: the link back is written before the link.
LinkStepBackward(c) == [c EXCEPT !.step = "back",
                                 !.todo = SuccessorIDs(c.mine) \cup ({c.successor} \cap Items)]

\* What comes after the result is dealt with, if there is one.
LinkStep(c) == [c EXCEPT !.step = IF c.successor = "none" THEN "back" ELSE "check",
                         !.todo = SuccessorIDs(c.mine)]

\* mg done [--result] [--successor]
Done(p, i) ==
  \E flag \in BOOLEAN, s \in Items \cup {"none"} :
    LET c == [Idle EXCEPT !.call = "done", !.item = i, !.flag = flag, !.successor = s,
                          !.mine = tags[i], !.step = "prior"] IN
    /\ at[i] = "claimed"
    /\ Begin(p, IF flag THEN c ELSE LinkStep(c))

\* mg archive <id> [--successor] [--force]
ArchiveItem(p, i) ==
  \E flag \in BOOLEAN, s \in Items \cup {"none"} :
    /\ at[i] = "done"
    /\ Begin(p, LinkStep([Idle EXCEPT !.call = "archive", !.item = i, !.flag = flag,
                                      !.successor = s, !.mine = tags[i]]))

-------------------------------------------------------------------------------
(* The result, first of all. *)

\* The copy beside the item, or else one left beside its record in done/.
ReadPrior(p) ==
  LET c == cmd[p] IN
  /\ At(p, {"done"}, "prior")
  /\ Step(p, [c EXCEPT !.base = IF at[c.item] = "claimed" THEN kept[c.item] ELSE {},
                       !.prior = result[c.item]["claimed"],
                       !.step = IF result[c.item]["claimed"] = NoResult THEN "prior_done" ELSE "write"])
  /\ UNCHANGED <<at, tags, result, left, history>>

ReadPriorDone(p) ==
  /\ At(p, {"done"}, "prior_done")
  /\ Step(p, [cmd[p] EXCEPT !.prior = result[cmd[p].item]["done"], !.step = "write",
                            !.base = IF cmd[p].item \in cmd[p].still THEN @ ELSE {}])
  /\ UNCHANGED <<at, tags, result, left, history>>

\* Mutant of mergeResultSidecar: the fresh result replaces the prior one.
mergeByReplacing(prior, p) == {p}

\* The shallow merge of two objects keeps the keys of both.
mergeResultSidecar(prior, p) == prior \cup {p}

\* Mutant of Mergeable: whatever was there is merged.
MergeableAlways(prior) == TRUE

Mergeable(prior) == "opaque" \notin prior

\* A prior result that is no object is not overwritten.
Unmergeable(p) ==
  /\ At(p, {"done"}, "write") /\ ~Mergeable(cmd[p].prior)
  /\ Quit(p)
  /\ UNCHANGED <<at, tags, result, left, history>>

\* The write goes to the directory the item was resolved in, wherever it is by
\* now, and over what another Done wrote there since the read.
WriteResult(p) ==
  LET c == cmd[p] IN
  /\ At(p, {"done"}, "write") /\ Mergeable(c.prior)
  /\ result' = [result EXCEPT ![c.item]["claimed"] = mergeResultSidecar(c.prior, p)]
  /\ kept' = IF at[c.item] = "claimed"
               THEN [kept EXCEPT ![c.item] = (@ \cap c.base) \cup {p}]
               ELSE kept
  /\ Touch(p, c.item, LinkStep(c))
  /\ UNCHANGED <<at, tags, left, named>>

-------------------------------------------------------------------------------
(* The link to the successor, and the link back. *)

\* checkSuccessorTarget: the successor exists, and is another item.
Linkable(i, j) == j # i /\ Exists(j)

CheckSuccessor(p) ==
  LET c == cmd[p] IN
  /\ At(p, {"done", "archive"}, "check")
  /\ IF Linkable(c.item, c.successor) THEN Step(p, [c EXCEPT !.step = "link"]) ELSE Quit(p)
  /\ UNCHANGED <<at, tags, result, left, history>>

\* modifyItem: the write lands on the document that was read, wherever the item
\* is; once it has changed, only if the item is still where it was resolved.
Home(c) == IF c.call = "done" THEN "claimed" ELSE "done"

LinkSuccessor(p) ==
  LET c == cmd[p]
      t == tags[c.item] \cup {Succ(c.successor)} IN
  /\ At(p, {"done", "archive"}, "link")
  /\ tags[c.item] = c.mine \/ at[c.item] = Home(c)
  /\ tags' = [tags EXCEPT ![c.item] = t]
  /\ named' = named \cup {<<c.item, c.successor>>}
  /\ Touch(p, c.item, [c EXCEPT !.mine = t, !.todo = SuccessorIDs(t), !.step = "back"])
  /\ UNCHANGED <<at, result, left, kept>>

\* It moved away, or changed at every attempt: edit_raced.
LinkRaced(p) ==
  /\ At(p, {"done", "archive"}, "link") /\ tags[cmd[p].item] # cmd[p].mine
  /\ Quit(p)
  /\ UNCHANGED <<at, tags, result, left, history>>

\* reconcileBacklinks, one successor after the other.  A link that cannot be
\* written (no such item, itself, or raced) is reported, and nothing else.
LinkBack(p) ==
  LET c == cmd[p] IN
  /\ At(p, {"done", "archive", "sweep"}, "back")
  /\ \E j \in c.todo :
       \/ /\ j # c.item /\ Exists(j)
          /\ tags' = [tags EXCEPT ![j] = @ \cup {Pred(c.item)}]
          /\ Touch(p, j, [c EXCEPT !.todo = @ \ {j}])
       \/ /\ j = c.item \/ ~Exists(j) \/ j \notin c.still
          /\ Step(p, [c EXCEPT !.todo = @ \ {j}, !.missed = @ \cup {j}])
          /\ UNCHANGED tags
  /\ UNCHANGED <<at, result, left, history>>

-------------------------------------------------------------------------------
(* The guards, and the move. *)

Tracked(t) == \E j \in SuccessorIDs(t) : Exists(j)

\* Mutant of Discharged: any successor tag discharges.
DischargedByName(t) == Declares \in t => SuccessorIDs(t) # {}

\* requireRemainderDischarged
Discharged(t) == Declares \in t => Tracked(t)

\* checkArchiveGuards: nobody owes anything, nothing is undischarged, and a
\* design is tracked.
Archivable(i, t) ==
  /\ Blocked \notin t
  /\ Discharged(t)
  /\ i \in Designs => Tracked(t)

Passes(c) ==
  \/ c.call = "done" /\ Discharged(c.mine)
  \/ c.call = "archive" /\ (c.flag \/ Archivable(c.item, c.mine))

Guard(p) ==
  LET c == cmd[p] IN
  /\ At(p, {"done", "archive"}, "back") /\ c.todo = {}
  /\ IF Passes(c) THEN Step(p, [c EXCEPT !.step = "move"]) ELSE Quit(p)
  /\ UNCHANGED <<at, tags, result, left, history>>

\* The atomic instant expects the status that was resolved, and nothing more.
Complete(p) ==
  LET c == cmd[p] IN
  /\ At(p, {"done"}, "move")
  /\ IF at[c.item] = "claimed"
       THEN Moved(c.item, "done") /\ Touch(p, c.item, Idle)
       ELSE Quit(p) /\ UNCHANGED <<at, result>>
  /\ UNCHANGED <<tags, left, history>>

Archive(p) ==
  LET c == cmd[p] IN
  /\ At(p, {"archive"}, "move")
  /\ IF at[c.item] = "done"
       THEN Moved(c.item, "archived") /\ Touch(p, c.item, Idle)
       ELSE Quit(p) /\ UNCHANGED <<at, result>>
  /\ UNCHANGED <<tags, left, history>>

-------------------------------------------------------------------------------
(* The sweep: it lists done/, keeps what the guards let pass, and archives one *)
(* candidate after the other on the strength of that reading.                  *)

Take(p, c) ==
  IF c.sweep = {} THEN Quit(p)
  ELSE \E i \in c.sweep :
         Step(p, [c EXCEPT !.item = i[1], !.mine = i[2], !.sweep = @ \ {i},
                           !.todo = SuccessorIDs(i[2]), !.step = "back"])

\* archiveCandidates and splitBlocked
Candidates == {<<i, tags[i]>> : i \in {j \in Finished : at[j] = "done" /\ Archivable(j, tags[j])}}

Sweep(p) ==
  /\ cmd[p] = Idle /\ Spend("commands")
  /\ Candidates # {}
  /\ Take(p, [Idle EXCEPT !.call = "sweep", !.sweep = Candidates, !.still = Items])
  /\ UNCHANGED <<at, tags, result, history>>

\* One candidate that has left done/ ends the sweep.
SweepOne(p) ==
  LET c == cmd[p] IN
  /\ At(p, {"sweep"}, "back") /\ c.todo = {}
  /\ IF at[c.item] = "done"
       THEN Moved(c.item, "archived") /\ Touch(p, c.item, [c EXCEPT !.step = "next"])
       ELSE Quit(p) /\ UNCHANGED <<at, result>>
  /\ UNCHANGED <<tags, left, history>>

SweepNext(p) ==
  /\ At(p, {"sweep"}, "next")
  /\ Take(p, cmd[p])
  /\ UNCHANGED <<at, tags, result, left, history>>

-------------------------------------------------------------------------------
(* What other commands do to a finished item meanwhile, and mg new. *)

Others(i) ==
  /\ Spend("moves")
  /\ cmd' = [q \in Processes |-> [cmd[q] EXCEPT !.still = @ \ {i}]]

Elsewhere(i) ==
  /\ \/ at[i] = "claimed" /\ Moved(i, "available")
     \/ at[i] = "available" /\ Moved(i, "claimed")
     \/ at[i] = "done" /\ Moved(i, "claimed")
     \/ at[i] = "none" /\ at' = [at EXCEPT ![i] = "available"] /\ UNCHANGED result
  /\ Others(i)
  /\ UNCHANGED <<tags, history>>

EditTags(i, t) ==
  /\ i \in Finished /\ at[i] # "archived"
  /\ tags' = [tags EXCEPT ![i] = IF t \in @ THEN @ \ {t} ELSE @ \cup {t}]
  /\ named' = named \cup {<<i, j>> : j \in SuccessorIDs({t})}
  /\ Others(i)
  /\ UNCHANGED <<at, result, kept>>

-------------------------------------------------------------------------------
\* A finished item may carry any of the edited tags, and an earlier result, beside
\* it or left in done/.  The others are there or not.
Init ==
  /\ at \in [Items -> {"none", "available", "claimed", "done"}]
  /\ \A i \in Items : IF i \in Finished THEN at[i] \in {"claimed", "done"}
                                        ELSE at[i] \in {"none", "available"}
  /\ tags \in [Items -> SUBSET EditedTags]
  /\ \A i \in Items \ Finished : tags[i] = {}
  /\ result \in [Items -> {[d \in Dirs |-> IF d = h THEN {k} ELSE NoResult] :
                             h \in {"claimed", "done"}, k \in {"old", "opaque"}}
                          \cup {[d \in Dirs |-> NoResult]}]
  /\ \A i \in Items : (i \notin Finished \/ at[i] = "done") => result[i]["claimed"] = NoResult
  /\ \A i \in Items \ Finished : result[i]["done"] = NoResult
  /\ cmd = [p \in Processes |-> Idle]
  /\ left = [commands |-> MaxCommands, moves |-> MaxMoves]
  /\ kept = [i \in Items |-> UNION {result[i][d] : d \in Dirs}]
  /\ named = {e \in Items \X Items : Succ(e[2]) \in tags[e[1]]}

Next ==
  \/ \E p \in Processes :
       \/ \E i \in Finished : Done(p, i) \/ ArchiveItem(p, i)
       \/ Sweep(p) \/ SweepOne(p) \/ SweepNext(p)
       \/ ReadPrior(p) \/ ReadPriorDone(p) \/ Unmergeable(p) \/ WriteResult(p)
       \/ CheckSuccessor(p) \/ LinkSuccessor(p) \/ LinkRaced(p) \/ LinkBack(p)
       \/ Guard(p) \/ Complete(p) \/ Archive(p)
  \/ \E i \in Items : Elsewhere(i)
  \/ \E i \in Finished, t \in EditedTags : EditTags(i, t)

Spec == Init /\ [][Next]_vars

-------------------------------------------------------------------------------
(* Properties *)

\* Every variable holds a value of its kind, and a result that is no object has
\* nothing else in it.
TypeOK ==
  /\ at \in [Items -> Dirs \cup {"none"}]
  /\ tags \in [Items -> SUBSET Labels]
  /\ result \in [Items -> [Dirs -> SUBSET Keys]]
  /\ \A i \in Items, d \in Dirs : "opaque" \in result[i][d] => result[i][d] = {"opaque"}
  /\ \A p \in Processes : cmd[p].mine \subseteq Labels /\ cmd[p].todo \subseteq Items

\* A result recorded while its item was claimed is never lost: it is with the item
\* wherever the item goes, through refusals, releases, reopenings and later
\* results, unless another Done looked for the prior result before it was recorded,
\* or while the item moved, and wrote after.  One from before may also still lie in
\* done/ (mergeResultSidecar: "Done must never destroy a result it did not write").
ResultsKept ==
  \A i \in Items : \A k \in kept[i] :
    \/ at[i] # "none" /\ k \in result[i][at[i]]
    \/ k \in {"old", "opaque"} /\ k \in result[i]["done"]

\* What an item's tags call for when it is completed or put away.
Owed(i, archiving) ==
  \/ Declares \in tags[i] /\ ~Tracked(tags[i])
  \/ archiving /\ Blocked \in tags[i]
  \/ archiving /\ i \in Designs /\ ~Tracked(tags[i])

\* Nothing that is owed is completed or archived untracked, except by --force, or
\* by a command the item was edited under (requireRemainderDischarged,
\* checkArchiveGuards: targeted form and sweep agree).
PutAwayStep ==
  \A p \in Processes, i \in Items :
    /\ cmd'[p].step # cmd[p].step /\ at'[i] # at[i] /\ i \in cmd[p].still
    /\ ~(cmd[p].call = "archive" /\ cmd[p].flag)
    => ~Owed(i, at'[i] = "archived")
NothingOwedIsPutAway == [][PutAwayStep]_vars

\* No item claims an inheritance from one that never named it (linkSuccessorBothWays:
\* the forward link goes first).
NoFalseInheritance ==
  \A i, j \in Items : Pred(i) \in tags[j] => <<i, j>> \in named

\* A chain can be walked from both ends: when a command completes or archives an
\* item, every successor the item names names it back, or the failure has been
\* reported (reconcileBacklinks).
LinkedStep ==
  \A p \in Processes, i \in Items :
    /\ cmd'[p].step # cmd[p].step /\ at'[i] # at[i] /\ i \in cmd[p].still
    => \A j \in SuccessorIDs(tags[i]) : Pred(i) \in tags[j] \/ j \in cmd[p].missed
LinksWalkable == [][LinkedStep]_vars

===============================================================================
