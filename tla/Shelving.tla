------------------------------- MODULE Shelving -------------------------------
(* mg shelve and mg unshelve, by id and by --tag, and the cascade through      *)
(* dependents that each of them runs, with the record they keep in the event   *)
(* log (src/internal/workitem/shelve.go, shelveguard.go, depends.go and the    *)
(* commands in src/mgcli).                                                     *)
(*                                                                             *)
(* Every process runs one command, a stack of calls with the innermost first.  *)
(* A step is one access to the store or to the log.  A record in the log is    *)
(* kept as what currentShelveRecords and shelvedFrom read from it.  All claims *)
(* are one agent's, and the order of a listing is arbitrary.                   *)
EXTENDS Naturals, Sequences

CONSTANTS
  Items, Processes,
  Depends,      \* what each item names as its dependencies
  Tagged,       \* the items that carry the tag --tag is given
  Asking,       \* items tagged blocked-on-somebody
  Declares,     \* items that declare a remainder
  Successors,   \* the items each item names as its successors
  MaxCommands, MaxMoves, MaxCrashes     \* bounds of the model

Open == {"available", "claimed", "pending"}
Places == Open \cup {"none", "shelved", "done"}

ShelvingAssumption ==
  /\ Depends \in [Items -> SUBSET Items] /\ Successors \in [Items -> SUBSET Items]
  /\ Tagged \subseteq Items /\ Asking \subseteq Items /\ Declares \subseteq Items
  /\ {MaxCommands, MaxMoves, MaxCrashes} \subseteq Nat
  /\ Items \cap {"none", "own", "filed"} = {}

VARIABLES
  at,       \* where each item is
  rec,      \* the cause in the work.shelve of its current stay, "none" without one
  from,     \* from_status of its latest work.shelve
  stack,    \* the calls of each process, innermost first
  run,      \* what the command of each process keeps beside its calls
  left,     \* the commands, moves and crashes the bounds leave
  came,     \* history: the status an item was shelved from,
  hid,      \* ... why: its own shelve, another item's, or filed under it,
  told      \* ... and the items whose stay on the shelf was recorded in order

vars == <<at, rec, from, stack, run, left, came, hid, told>>
log == <<rec, from, told>>
history == <<came, hid>>

Call(name, i, cause, step) ==
  [call |-> name, item |-> i, cause |-> cause, step |-> step,
   to |-> "none", lists |-> <<>>, todo |-> {}]

\* unshelveTop reads the log once.  still, known: history, the items nobody else
\* has touched since, and those that were on the shelf and on record.
Fresh(flag) ==
  [flag |-> flag, records |-> rec, chain |-> {}, still |-> Items,
   known |-> {i \in told : at[i] = "shelved"}]

Idle == [flag |-> FALSE, records |-> [i \in Items |-> "none"], chain |-> {},
         still |-> {}, known |-> {}]

Top(p) == Head(stack[p])
In(p, call, step) == stack[p] # <<>> /\ Top(p).call = call /\ Top(p).step = step
Set(p, frame) == stack' = [stack EXCEPT ![p] = <<frame>> \o Tail(@)]
Push(p, frame, caller) == stack' = [stack EXCEPT ![p] = <<frame, caller>> \o Tail(@)]

\* The items other processes can no longer count on once p has touched i.
Touched(p, i) ==
  [q \in Processes |-> IF q = p THEN run[q] ELSE [run[q] EXCEPT !.still = @ \ {i}]]

Return(p) ==
  /\ stack' = [stack EXCEPT ![p] = Tail(@)]
  /\ IF Len(stack[p]) = 1 THEN run' = [run EXCEPT ![p] = Idle] ELSE run' = run

\* ... at the end of a call that has just touched i.
ReturnTouched(p, i) ==
  /\ stack' = [stack EXCEPT ![p] = Tail(@)]
  /\ run' = [Touched(p, i) EXCEPT ![p] = IF Len(stack[p]) = 1 THEN Idle ELSE @]

-------------------------------------------------------------------------------
(* The commands. *)

Spend(what) == left[what] > 0 /\ left' = [left EXCEPT ![what] = @ - 1]

Begin(p, frame, flag) ==
  /\ stack[p] = <<>>
  /\ Spend("commands")
  /\ stack' = [stack EXCEPT ![p] = <<frame>>]
  /\ run' = [run EXCEPT ![p] = Fresh(flag)]
  /\ UNCHANGED <<at, log, history>>

\* mg shelve [--override]; mg unshelve [--claim]; the two --tag forms; mg new.
Shelve(p, i) == \E override \in BOOLEAN : Begin(p, Call("shelve", i, "own", "guard"), override)
Unshelve(p, i) == \E claim \in BOOLEAN : Begin(p, Call("unshelve", i, "own", "read"), claim)

OpenLists == <<"available", "claimed", "pending">>
ShelveByTag(p) == Begin(p, [Call("shelve_tag", "none", "own", "list") EXCEPT !.lists = OpenLists], FALSE)
UnshelveByTag(p) == Begin(p, [Call("unshelve_tag", "none", "own", "list") EXCEPT !.lists = <<"shelved">>], FALSE)

New(p, i) == at[i] = "none" /\ Begin(p, Call("new", i, "own", "read"), FALSE)

-------------------------------------------------------------------------------
(* Shelve *)

\* The guards speak about the named item; any successor that exists will do.
Guarded(i) ==
  \/ i \in Asking
  \/ i \in Declares /\ \A s \in Successors[i] : at[s] = "none"

\* The status first, then the guards, which --override answers.
Guard(p) ==
  LET f == Top(p) IN
  /\ In(p, "shelve", "guard")
  /\ IF at[f.item] \in Open /\ (run[p].flag \/ ~Guarded(f.item))
       THEN Set(p, [f EXCEPT !.step = "read"]) /\ run' = run
       ELSE Return(p)
  /\ UNCHANGED <<at, log, left, history>>

\* shelveCascade starts by resolving the item again.
Read(p) ==
  LET f == Top(p) IN
  /\ In(p, "shelve", "read")
  /\ IF at[f.item] \in Open
       THEN Set(p, [f EXCEPT !.step = "move", !.to = at[f.item]]) /\ run' = run
       ELSE Return(p)
  /\ UNCHANGED <<at, log, left, history>>

\* Mutant of ListsOf: a dependent that is not ready is not looked for.
ListsOfReady == <<"available", "claimed">>

\* findDependents lists one directory after the other.
ListsOf == OpenLists

\* The move lands only on the status that was read.
Hide(p) ==
  LET f == Top(p) IN
  /\ In(p, "shelve", "move")
  /\ IF at[f.item] = f.to
       THEN /\ at' = [at EXCEPT ![f.item] = "shelved"]
            /\ came' = [came EXCEPT ![f.item] = f.to]
            /\ hid' = [hid EXCEPT ![f.item] = f.cause]
            /\ run' = Touched(p, f.item)
            /\ told' = told \ {f.item}
            /\ Set(p, [f EXCEPT !.step = "list", !.lists = ListsOf])
       ELSE Return(p) /\ UNCHANGED <<at, told, history>>
  /\ UNCHANGED <<rec, from, left>>

\* What a listing keeps: the dependents of the item, or the tagged items.
Kept(f, i) == IF f.item \in Items THEN f.item \in Depends[i] ELSE i \in Tagged

List(p) ==
  LET f == Top(p) IN
  /\ stack[p] # <<>> /\ f.step = "list" /\ f.lists # <<>>
  /\ Set(p, [f EXCEPT !.lists = Tail(@),
                      !.todo = @ \cup {i \in Items : at[i] = Head(f.lists) /\ Kept(f, i)}])
  /\ UNCHANGED <<at, log, run, left, history>>

Listed(p, call) == In(p, call, "list") /\ Top(p).lists = <<>>
Next1(f, d) == [f EXCEPT !.todo = @ \ {d}]

\* The cascade runs no guard, and its record names the parent.
Cascaded(f, d) == Call("shelve", d, f.item, "read")

Cascade(p) ==
  /\ Listed(p, "shelve")
  /\ \E d \in Top(p).todo : Push(p, Cascaded(Top(p), d), Next1(Top(p), d))
  /\ UNCHANGED <<at, log, run, left, history>>

\* work.shelve is emitted once the cascade is over.
Emit(p) ==
  LET f == Top(p) IN
  /\ Listed(p, "shelve") /\ f.todo = {}
  /\ rec' = [rec EXCEPT ![f.item] = f.cause]
  /\ from' = [from EXCEPT ![f.item] = f.to]
  /\ told' = IF f.item \in run[p].still THEN told \cup {f.item} ELSE told \ {f.item}
  /\ ReturnTouched(p, f.item)
  /\ UNCHANGED <<at, left, history>>

-------------------------------------------------------------------------------
(* Unshelve *)

gateOpen(i) == \A d \in Depends[i] : at[d] = "done"

\* --claim is for the named item, and only if it was claimed when it was shelved.
Allowed(p, f) == (run[p].flag /\ f.cause = "own") => from[f.item] = "claimed"

ReadShelved(p) ==
  LET f == Top(p)
      ready == IF run[p].flag /\ f.cause = "own" THEN "claimed" ELSE "available" IN
  /\ In(p, "unshelve", "read")
  /\ IF at[f.item] = "shelved" /\ Allowed(p, f)
       THEN /\ Set(p, [f EXCEPT !.step = "move", !.to = IF gateOpen(f.item) THEN ready ELSE "pending"])
            /\ run' = run
       ELSE Return(p)
  /\ UNCHANGED <<at, log, left, history>>

Restore(p) ==
  LET f == Top(p) IN
  /\ In(p, "unshelve", "move")
  /\ IF at[f.item] = "shelved"
       THEN /\ at' = [at EXCEPT ![f.item] = f.to]
            /\ came' = [came EXCEPT ![f.item] = "none"]
            /\ hid' = [hid EXCEPT ![f.item] = "none"]
            /\ run' = Touched(p, f.item)
            /\ told' = told \ {f.item}
            /\ Set(p, [f EXCEPT !.step = "emit"])
       ELSE Return(p) /\ UNCHANGED <<at, told, history>>
  /\ UNCHANGED <<rec, from, left>>

\* work.unshelve ends the record of the stay, even of one that has begun since;
\* the item joins the chain.
EmitRestored(p) ==
  LET f == Top(p) IN
  /\ In(p, "unshelve", "emit")
  /\ rec' = [rec EXCEPT ![f.item] = "none"]
  /\ run' = [Touched(p, f.item) EXCEPT ![p].chain = @ \cup {f.item}]
  /\ Set(p, [f EXCEPT !.step = "list", !.lists = <<"shelved">>])
  /\ told' = told \ {f.item}
  /\ UNCHANGED <<at, from, left, history>>

\* Mutant of shelvedWithChain: any shelved dependent comes back.
shelvedWithAnything(p, d) == TRUE

\* Mutant of shelvedWithChain: an item filed on the shelf has no record to match.
shelvedWithRecord(p, d) == run[p].records[d] \in run[p].chain

\* Without a record it was filed under its parent; otherwise its record must name
\* an item of the chain.
shelvedWithChain(p, d) == run[p].records[d] \in {"none"} \cup run[p].chain

\* A dependent in the chain is passed over, one that was not shelved with it stays.
Pull(p) ==
  /\ Listed(p, "unshelve")
  /\ \E d \in Top(p).todo :
       IF d \notin run[p].chain /\ shelvedWithChain(p, d)
         THEN Push(p, Call("unshelve", d, Top(p).item, "read"), Next1(Top(p), d))
         ELSE Set(p, Next1(Top(p), d))
  /\ UNCHANGED <<at, log, run, left, history>>

\* A call that lists has nothing left to do; shelve still has its record to write.
Finish(p) ==
  /\ stack[p] # <<>> /\ Top(p).call # "shelve" /\ Listed(p, Top(p).call) /\ Top(p).todo = {}
  /\ Return(p)
  /\ UNCHANGED <<at, log, left, history>>

-------------------------------------------------------------------------------
(* --tag: each listed item goes through the command for one item, unless the   *)
(* status it has by now says that it has been dealt with.                      *)

NextTagged(p, call, callee, done) ==
  /\ Listed(p, call)
  /\ \E d \in Top(p).todo :
       IF done = (at[d] = "shelved")
         THEN Set(p, Next1(Top(p), d)) /\ run' = run
         ELSE /\ Push(p, callee[d], Next1(Top(p), d))
              /\ run' = [run EXCEPT ![p] = Fresh(FALSE)]
  /\ UNCHANGED <<at, log, left, history>>

ShelveTagged(p) ==
  NextTagged(p, "shelve_tag", [d \in Items |-> Call("shelve", d, "own", "guard")], TRUE)

UnshelveTagged(p) ==
  NextTagged(p, "unshelve_tag", [d \in Items |-> Call("unshelve", d, "own", "read")], FALSE)

-------------------------------------------------------------------------------
(* mg new, and what other commands do to the items meanwhile. *)

\* A shelved dependency wins over everything.
placeForDeps(i) ==
  IF \E d \in Depends[i] : at[d] = "shelved" THEN "shelved"
  ELSE IF gateOpen(i) THEN "available" ELSE "pending"

Classify(p) ==
  LET f == Top(p) IN
  /\ In(p, "new", "read")
  /\ Set(p, [f EXCEPT !.step = "move", !.to = placeForDeps(f.item)])
  /\ UNCHANGED <<at, log, run, left, history>>

Create(p) ==
  LET f == Top(p) IN
  /\ In(p, "new", "move")
  /\ ReturnTouched(p, f.item)
  /\ IF at[f.item] = "none"
       THEN /\ at' = [at EXCEPT ![f.item] = f.to]
            /\ hid' = [hid EXCEPT ![f.item] = IF f.to = "shelved" THEN "filed" ELSE "none"]
            /\ told' = IF f.to = "shelved" THEN told \cup {f.item} ELSE told
       ELSE UNCHANGED <<at, hid, told>>
  /\ UNCHANGED <<rec, from, left, came>>

\* Claim, unclaim, done, and the sweep that promotes a pending item.
Elsewhere(i) ==
  /\ \/ at[i] = "available" /\ at' = [at EXCEPT ![i] = "claimed"]
     \/ at[i] = "claimed" /\ at' = [at EXCEPT ![i] = IF gateOpen(i) THEN "available" ELSE "pending"]
     \/ at[i] = "claimed" /\ at' = [at EXCEPT ![i] = "done"]
     \/ at[i] = "pending" /\ gateOpen(i) /\ at' = [at EXCEPT ![i] = "available"]
  /\ Spend("moves")
  /\ run' = [q \in Processes |-> [run[q] EXCEPT !.still = @ \ {i}]]
  /\ UNCHANGED <<log, stack, history>>

\* The process dies between two steps.
Crash(p) ==
  /\ stack[p] # <<>>
  /\ Spend("crashes")
  /\ stack' = [stack EXCEPT ![p] = <<>>]
  /\ run' = [run EXCEPT ![p] = Idle]
  /\ UNCHANGED <<at, log, history>>

-------------------------------------------------------------------------------
\* An item may be on the shelf for any reason that could have put it there.
Reasons(i, a) ==
  IF a[i] # "shelved" THEN {"none"}
  ELSE {"own"} \cup {d \in Depends[i] : a[d] = "shelved"}
       \cup IF \E d \in Depends[i] : a[d] = "shelved" THEN {"filed"} ELSE {}

Init ==
  /\ at \in [Items -> {"none", "available", "claimed", "pending", "shelved"}]
  /\ \A i \in Items : at[i] \in {"available", "claimed"} => gateOpen(i)
  /\ \A i \in Items : at[i] # "none" => \A d \in Depends[i] : at[d] # "none"
  /\ hid \in [Items -> {"none", "own", "filed"} \cup Items]
  /\ \A i \in Items : hid[i] \in Reasons(i, at)
  /\ rec = [i \in Items |-> IF hid[i] = "filed" THEN "none" ELSE hid[i]]
  /\ came \in [Items -> {"none", "available", "claimed", "pending"}]
  /\ \A i \in Items : IF at[i] # "shelved" \/ hid[i] = "filed" THEN came[i] = "none"
                      ELSE came[i] \in IF gateOpen(i) THEN {"available", "claimed"} ELSE {"pending"}
  /\ from = came /\ told = {i \in Items : at[i] = "shelved"}
  /\ stack = [p \in Processes |-> <<>>]
  /\ run = [p \in Processes |-> Idle]
  /\ left = [commands |-> MaxCommands, moves |-> MaxMoves, crashes |-> MaxCrashes]

Next ==
  \/ \E p \in Processes :
       \/ \E i \in Items : Shelve(p, i) \/ Unshelve(p, i) \/ New(p, i)
       \/ ShelveByTag(p) \/ UnshelveByTag(p)
       \/ Guard(p) \/ Read(p) \/ Hide(p) \/ List(p) \/ Cascade(p) \/ Emit(p)
       \/ ReadShelved(p) \/ Restore(p) \/ EmitRestored(p) \/ Pull(p) \/ Finish(p)
       \/ ShelveTagged(p) \/ UnshelveTagged(p) \/ Classify(p) \/ Create(p) \/ Crash(p)
  \/ \E i \in Items : Elsewhere(i)

Spec == Init /\ [][Next]_vars

-------------------------------------------------------------------------------
(* Properties *)

\* Every variable holds a value of its kind, and only a shelved item has a reason
\* for being on the shelf.
TypeOK ==
  /\ at \in [Items -> Places] /\ came \in [Items -> Places] /\ told \subseteq Items
  /\ rec \in [Items -> {"none", "own"} \cup Items]
  /\ from \in [Items -> {"none"} \cup Open]
  /\ \A i \in Items : (at[i] = "shelved") = (hid[i] # "none")

\* What p can rely on in the middle of its command.
Settled(p) == run[p].known \cap run[p].still

\* When shelve comes to write its record, no dependent of the item is open any
\* more, save those that another command has moved since the shelve began
\* (shelveCascade: "Items that depend on the shelved item are also shelved").
DependentsHidden ==
  \A p \in Processes :
    Listed(p, "shelve") /\ Top(p).todo = {} =>
      \A i \in run[p].still : Top(p).item \in Depends[i] => at[i] \notin Open

\* When unshelve is done, everything that was hidden by an item it restored, or
\* filed under one, is back, if it was on record when the log was read and nobody
\* else has touched it (UnshelveReport, and the dependents looked at too
\* early that unshelveTop speaks of).
HiddenReturn ==
  \A p \in Processes :
    Listed(p, "unshelve") /\ Top(p).todo = {} /\ Top(p).cause = "own" =>
      \A i \in Settled(p) :
        \/ hid[i] \in run[p].chain
        \/ hid[i] = "filed" /\ Depends[i] \cap run[p].chain # {}
        => at[i] # "shelved"

\* An item somebody shelved on its own leaves the shelf only when it is named
\* itself: no restore of an item it depends on lifts that hold (UnshelveReport).
HoldStep ==
  \A p \in Processes, i \in Items :
    /\ hid[i] = "own" /\ at'[i] # "shelved" /\ stack'[p] # stack[p]
    /\ i \in Settled(p)
    => Top(p).cause = "own"

\* An item goes from the shelf into claimed/ only if it was claimed when it was
\* shelved and its gate is open (UnshelveClaim).
ClaimStep ==
  \A p \in Processes, i \in Items :
    /\ at[i] = "shelved" /\ at'[i] = "claimed" /\ stack'[p] # stack[p]
    /\ i \in Settled(p)
    => came[i] = "claimed" /\ gateOpen(i)

\* The two together: a restore does no more than it was asked to.
NoMoreThanAsked == [][HoldStep /\ ClaimStep]_vars

===============================================================================
