--------------------------------- MODULE Spend ---------------------------------
(* mg spend: one harvest of the transcripts under a lock, the store that every *)
(* figure is read from, and the claims of the event log that decide whose      *)
(* tokens a message is (src/internal/spend and src/mgcli/spend.go).            *)
(*                                                                             *)
(* A message is the moment it was written at, and so is an event: the model    *)
(* has one clock, no two things happen at one moment, and a session has no     *)
(* name.  A line of the store is the message it records; Torn is the tail of a *)
(* line a crash cut short.  Axes by tag:<value>, priority and assignee read    *)
(* one field of the item as the axis "repo" does.                              *)
EXTENDS Naturals, Sequences, FiniteSets, SequencesExt

CONSTANTS
  Processes,
  AgentNames, ItemIDs,  \* the agents and the items, in lexical order
  Assigned,   \* the item pogod's registry has for each agent, or "none"
  Tags, Repo, \* the tags and the repo of each item, "none" if it has no repo
  MaxTime, MaxCommands, MaxCrashes    \* bounds of the model

VARIABLES
  clock,
  log,      \* the event log
  spoken,   \* the messages in each agent's transcripts
  store,    \* the lines of each by-agent and by-item file
  cmd,      \* the mg spend of each process
  left      \* the commands and crashes the bounds leave

vars == <<clock, log, spoken, store, cmd, left>>
world == <<clock, log, spoken>>

\* Some numbers, in ascending order.
InOrder(S) ==
  [n \in 1 .. Cardinality(S) |-> CHOOSE t \in S : Cardinality({u \in S : u <= t}) = n]

Agents == ToSet(AgentNames)
Items == ToSet(ItemIDs)
Actors == Agents \cup {"mayor"}
Files == AgentNames \o ItemIDs    \* in the order ReadAll reads them
Torn == 0
\* An agent's file is not an item's, and the registry names items.
SpendAssumption ==
  /\ AgentNames \in Seq(Agents) \ {<<>>} /\ ItemIDs \in Seq(Items) \ {<<>>}
  /\ Agents \cap Items = {} /\ "none" \notin Items
  /\ Assigned \in [Agents -> Items \cup {"none"}]
  /\ MaxTime \in Nat \ {0} /\ {MaxCommands, MaxCrashes} \subseteq Nat

NoLines == [f \in ToSet(Files) |-> <<>>]

\* due: history, the messages this harvest has to have in the store.
Idle == [step |-> "idle", rebuild |-> FALSE, seen |-> {}, upto |-> 0, registry |-> FALSE,
         batch |-> NoLines, file |-> 1, read |-> <<>>, due |-> {}]

Step(p, c) == cmd' = [cmd EXCEPT ![p] = c]
Goto(p, step) == Step(p, [cmd[p] EXCEPT !.step = step])
At(p, step) == cmd[p].step = step
Use(what) == left[what] > 0 /\ left' = [left EXCEPT ![what] = @ - 1]

Speaker(t) == CHOOSE a \in Agents : t \in spoken[a]
Spoken == UNION {spoken[a] : a \in Agents}

-------------------------------------------------------------------------------
(* The agents work: each claim and each release is an event of the one who     *)
(* made it, and the assistant's turns go to the transcript.                    *)

Tick == clock < MaxTime /\ clock' = clock + 1
Event(type, actor, item) == [type |-> type, actor |-> actor, item |-> item, ts |-> clock']

\* The item is held: the last event about it is a claim.
Held(i) == \E e \in ToSet(log) :
  /\ e.item = i /\ e.type = "claim"
  /\ \A f \in ToSet(log) : f.item = i => f.ts <= e.ts

Claimed(a, i) ==
  /\ Tick /\ ~Held(i)
  /\ log' = Append(log, Event("claim", a, i))
  /\ UNCHANGED <<spoken, store, cmd, left>>

\* work.done, work.unclaim, work.shelve or work.archive
Released(actor, i) ==
  /\ Tick /\ Held(i)
  /\ log' = Append(log, Event("release", actor, i))
  /\ UNCHANGED <<spoken, store, cmd, left>>

Speak(a) ==
  /\ Tick
  /\ spoken' = [spoken EXCEPT ![a] = @ \cup {clock'}]
  /\ UNCHANGED <<log, store, cmd, left>>

-------------------------------------------------------------------------------
(* Whose tokens: the claims of the log, and the registry where they miss.      *)

\* An actor's claim of an item ends at that actor's next release of it, and is
\* forgotten when the actor claims the item again before one.
Forever == MaxTime + 1
EndsAt(events, e, to) ==
  LET next == {f \in ToSet(events) : f.actor = e.actor /\ f.item = e.item /\ f.ts > e.ts} IN
  /\ e.type = "claim"
  /\ IF next = {} THEN to = Forever
     ELSE \E f \in next : (\A g \in next : f.ts <= g.ts) /\ f.type = "release" /\ to = f.ts
Intervals(events) ==
  {[actor |-> x[1].actor, item |-> x[1].item, from |-> x[1].ts, to |-> x[2]] :
     x \in {y \in ToSet(events) \X (1 .. Forever) : EndsAt(events, y[1], y[2])}}

\* Mutant of attribute: the oldest of the claims wins.
attributeOldest(intervals, actor, t) ==
  LET open == {v \in intervals : v.actor = actor /\ v.from <= t /\ t <= v.to} IN
  IF open = {} THEN "none"
  ELSE (CHOOSE v \in open : \A w \in open : v.from <= w.from).item

\* The item the actor had claimed last, of those it had claimed at the moment.
attribute(intervals, actor, t) ==
  LET open == {v \in intervals : v.actor = actor /\ v.from <= t /\ t <= v.to} IN
  IF open = {} THEN "none"
  ELSE (CHOOSE v \in open : \A w \in open : w.from <= v.from).item

\* The file a message goes to.
Bucket(intervals, registry, t) ==
  LET a == Speaker(t)
      item == attribute(intervals, a, t) IN
  CASE item # "none" -> item
    [] item = "none" /\ registry /\ Assigned[a] # "none" -> Assigned[a]
    [] OTHER -> a

-------------------------------------------------------------------------------
(* The harvest. *)

Command(p) ==
  /\ cmd[p] = Idle
  /\ Use("commands")
  /\ \E rebuild \in BOOLEAN : Step(p, [Idle EXCEPT !.step = "lock", !.rebuild = rebuild])
  /\ UNCHANGED <<world, store>>

\* Mutant of LockHeld: nobody looks at the lock.
LockIgnored == FALSE

\* The flock is on the process's own descriptor, and goes with it.
LockHeld == \E q \in Processes : cmd[q].step \in {"clear", "snapshot", "scan", "append"}

\* A plain harvest that finds the lock held is skipped, a rebuild waits.
acquireHarvestLock(p) ==
  /\ At(p, "lock")
  /\ \/ ~LockHeld /\ Goto(p, IF cmd[p].rebuild THEN "clear" ELSE "snapshot")
     \/ LockHeld /\ ~cmd[p].rebuild /\ Goto(p, "read")
  /\ UNCHANGED <<world, store, left>>

\* RemoveAll of spend/: what the others were to find there is gone.
Clear(p) ==
  /\ At(p, "clear")
  /\ store' = NoLines
  /\ cmd' = [q \in Processes |-> IF q = p THEN [cmd[q] EXCEPT !.step = "snapshot"]
                                 ELSE [cmd[q] EXCEPT !.due = {}]]
  /\ UNCHANGED <<world, left>>

\* The lines of a file that can be read.
readRecords(f) ==
  LET kept == InOrder({k \in DOMAIN store[f] : store[f][k] # Torn}) IN
  [n \in DOMAIN kept |-> store[f][kept[n]]]
Stored == UNION {ToSet(readRecords(f)) : f \in ToSet(Files)}

\* The messages already in the store.
SeenSet == Stored

\* What is stored, the claims, and the registry, as they are now.
Snapshot(p) ==
  /\ At(p, "snapshot")
  /\ \E registry \in BOOLEAN :
       Step(p, [cmd[p] EXCEPT !.step = "scan", !.seen = SeenSet, !.upto = Len(log),
                              !.registry = registry])
  /\ UNCHANGED <<world, store, left>>

\* Mutant of Batch: once an item has new messages, the agent's own are left out.
BatchItemsOnly(intervals, registry, new) ==
  LET to(f) == {t \in new : Bucket(intervals, registry, t) = f} IN
  [f \in ToSet(Files) |-> IF f \in Agents /\ to(f) # new THEN <<>> ELSE InOrder(to(f))]

\* The new messages of each file, in the order they were written.
Batch(intervals, registry, new) ==
  [f \in ToSet(Files) |-> InOrder({t \in new : Bucket(intervals, registry, t) = f})]

\* Every transcript is read, some time after the claims were.
Scan(p) ==
  LET c == cmd[p] IN
  /\ At(p, "scan")
  /\ Step(p, [c EXCEPT !.step = "append", !.due = Spoken, !.seen = {},
                !.batch = Batch(Intervals(SubSeq(log, 1, c.upto)), c.registry, Spoken \ c.seen)])
  /\ UNCHANGED <<world, store, left>>

\* Lines appended to a torn tail: the first becomes part of the line that is not one.
Glued(f, lines) == lines # <<>> /\ store[f] # <<>> /\ Last(store[f]) = Torn
Appended(f, lines) ==
  IF Glued(f, lines) THEN Front(store[f]) \o Tail(lines) ELSE store[f] \o lines

\* The files are appended to one after another, the items' before the agents'.
Due(c) ==
  LET new == {f \in ToSet(Files) : c.batch[f] # <<>>} IN
  IF new \cap Items # {} THEN new \cap Items ELSE new
NextFile(c, f) ==
  /\ f \in Due(c)
  /\ \A i, j \in DOMAIN Files : Files[i] = f /\ Files[j] \in Due(c) => i <= j

appendRecords(p) ==
  LET c == cmd[p] IN
  /\ At(p, "append")
  /\ \E f \in ToSet(Files) :
       /\ NextFile(c, f)
       /\ store' = [store EXCEPT ![f] = Appended(f, c.batch[f])]
       /\ Step(p, [c EXCEPT !.batch[f] = <<>>,
                     !.due = IF Glued(f, c.batch[f]) THEN @ \ {Head(c.batch[f])} ELSE @])
  /\ UNCHANGED <<world, left>>

\* Nothing is left to append: the lock is dropped and the figures are read.
Release(p) ==
  /\ At(p, "append") /\ Due(cmd[p]) = {}
  /\ Goto(p, "read")
  /\ UNCHANGED <<world, store, left>>

\* The process dies; a line it was appending may stay cut short.
Crash(p) ==
  LET c == cmd[p] IN
  /\ c # Idle
  /\ Use("crashes")
  /\ \/ UNCHANGED store
     \/ /\ At(p, "append")
        /\ \E f \in ToSet(Files), n \in 0 .. MaxTime :
             /\ NextFile(c, f) /\ n < Len(c.batch[f])
             /\ store' = [store EXCEPT ![f] = Appended(f, SubSeq(c.batch[f], 1, n)) \o <<Torn>>]
  /\ Step(p, Idle)
  /\ UNCHANGED world

-------------------------------------------------------------------------------
(* The figures, from the store as it stands: the lock is not taken to read it. *)

\* ReadAll opens one file after another.
ReadFile(p) ==
  LET c == cmd[p]  f == Files[c.file] IN
  /\ At(p, "read")
  /\ Step(p, [c EXCEPT !.read = @ \o [k \in DOMAIN readRecords(f) |->
                                         [file |-> f, msg |-> readRecords(f)[k]]],
                !.file = IF @ = Len(Files) THEN 1 ELSE @ + 1,
                !.step = IF c.file = Len(Files) THEN "report" ELSE "read"])
  /\ UNCHANGED <<world, store, left>>

\* Mutant of dedupLastWins: what is stored twice is counted twice.
dedupNothing(recs) == DOMAIN recs

\* The records that count, by their place in the order they were read in.
dedupLastWins(recs) ==
  {k \in DOMAIN recs : \A j \in DOMAIN recs : recs[j].msg = recs[k].msg => j <= k}

Axes == {"item", "agent", "tag", "repo"}

\* The rows a record is added to.
Rows(by, r) ==
  CASE by = "item" -> {r.file}
    [] by = "agent" -> {Speaker(r.msg)}
    [] by = "tag" /\ r.file \in Items -> IF Tags[r.file] = {} THEN {"(untagged)"} ELSE Tags[r.file]
    [] by = "repo" /\ r.file \in Items -> {Repo[r.file]}
    [] OTHER -> {}

hasGrandTotal(by) == by # "tag"

\* Query from a cutoff on, and sumGroups: the sum of the rows, each the number of
\* the records added to it.
Query(recs, by, since) ==
  LET kept == {k \in dedupLastWins(recs) : recs[k].msg >= since}
      keys == UNION {Rows(by, recs[k]) : k \in kept} IN
  [key \in keys |-> Cardinality({k \in kept : key \in Rows(by, recs[k])})]
sumGroups(groups) == FoldFunction(+, 0, groups)

Report(p) ==
  /\ At(p, "report")
  /\ Step(p, Idle)
  /\ UNCHANGED <<world, store, left>>

-------------------------------------------------------------------------------

\* At first there is one claim, or one message, no event, and the store: empty, with
\* a block that an older harvest had doubled, or with one message under two names.
Init ==
  /\ clock = 1
  /\ LET a == AgentNames[1] IN
     \/ /\ log = <<[type |-> "claim", actor |-> a, item |-> ItemIDs[1], ts |-> 1]>>
        /\ spoken = [b \in Agents |-> {}]
        /\ store = NoLines
     \/ /\ log = <<>>
        /\ spoken = [b \in Agents |-> IF b = a THEN {1} ELSE {}]
        /\ \/ store = NoLines
           \/ store = [NoLines EXCEPT ![Files[1]] = <<1, 1>>]
           \/ store = [NoLines EXCEPT ![Files[1]] = <<1>>, ![Files[Len(Files)]] = <<1>>]
  /\ cmd = [p \in Processes |-> Idle]
  /\ left = [commands |-> MaxCommands, crashes |-> MaxCrashes]

Work ==
  \/ \E a \in Agents, i \in Items : Claimed(a, i)
  \/ \E actor \in Actors, i \in Items : Released(actor, i)
  \/ \E a \in Agents : Speak(a)

Run(p) ==
  \/ Command(p) \/ acquireHarvestLock(p) \/ Clear(p) \/ Snapshot(p) \/ Scan(p)
  \/ appendRecords(p) \/ Release(p) \/ ReadFile(p) \/ Report(p)

Next == Work \/ \E p \in Processes : Run(p) \/ Crash(p)
Spec == Init /\ [][Next]_vars

-------------------------------------------------------------------------------
(* Properties. *)

\* The store holds messages that were written, each in a file of its speaker or of
\* an item, and at most one process is in the harvest (TryLock and rebuild, lock.go).
TypeOK ==
  /\ clock \in 1 .. MaxTime /\ Len(log) <= MaxTime
  /\ spoken \in [Agents -> SUBSET (1 .. clock)]
  /\ \A f \in ToSet(Files) : ToSet(store[f]) \subseteq Spoken \cup {Torn}
  /\ \A a \in Agents : ToSet(store[a]) \subseteq spoken[a] \cup {Torn}
  /\ Cardinality({p \in Processes : cmd[p].step \in {"clear", "snapshot", "scan", "append"}}) <= 1

\* However harvests, rebuilds and crashes overlap, no line is appended for a message
\* that the store already has (SeenSet and the lock over it, aggregator.go).
AppendStep ==
  \A f \in ToSet(Files) : Len(store'[f]) > Len(store[f]) =>
    \A k \in Len(store[f]) + 1 .. Len(store'[f]) : store'[f][k] \notin Stored
StoredOnce == [][AppendStep]_vars

\* A run that harvested has in its figures every message the transcripts had when
\* it scanned them, whatever an earlier run that died had left half done; but for
\* one that was glued to a torn tail, and if nobody has rebuilt since.
HarvestComplete ==
  \A p \in Processes : At(p, "report") =>
    cmd[p].due \subseteq {r.msg : r \in ToSet(cmd[p].read)}

\* A TOTAL is the number of messages there are in what the axis covers: none is
\* counted twice, though it be stored twice, and none of the rows overlap.
TotalIsTrue ==
  \A p \in Processes : At(p, "report") =>
    \A by \in Axes, since \in 1 .. 2 : hasGrandTotal(by) =>
      sumGroups(Query(cmd[p].read, by, since)) =
        Cardinality({r.msg : r \in {s \in ToSet(cmd[p].read) :
          s.msg >= since /\ (by \in {"item", "agent"} \/ s.file \in Items)}})

\* What is spent on a claimed item is that item's.  A message goes to the item its
\* speaker had claimed last, if nobody had ended that claim and the speaker has not
\* claimed the item again since somebody else ended it; and it goes to an item, the
\* registry's choice apart, only if its speaker had claimed it and not given it up:
\* both as far as the log told when the harvest read it (attribute, aggregator.go).
OwnWork ==
  \A p \in Processes : At(p, "append") =>
    \A f \in ToSet(Files) : \A t \in ToSet(cmd[p].batch[f]) :
      LET a == Speaker(t)
          told == ToSet(SubSeq(log, 1, cmd[p].upto))
          claims == {e \in ToSet(log) : e.type = "claim" /\ e.actor = a /\ e.ts < t}
          ends(e, by) == {g \in ToSet(log) :
            g.item = e.item /\ g.ts > e.ts /\ g.type = "release" /\ g.actor \in by}
          again(e) == \E g \in claims \cup told :
            g.type = "claim" /\ g.actor = a /\ g.item = e.item /\ g.ts > e.ts IN
      /\ \A e \in claims \cap told :
           /\ \A g \in claims : g.ts <= e.ts
           /\ \A g \in ends(e, Actors) : g.ts > t
           /\ ~(again(e) /\ ends(e, Actors \ {a}) # {})
           => f = e.item
      /\ f \in Items =>
           \/ cmd[p].registry /\ f = Assigned[a]
           \/ \E e \in claims : e.item = f /\ \A g \in ends(e, {a}) \cap told : g.ts > t
===============================================================================
