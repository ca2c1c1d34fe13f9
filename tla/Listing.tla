------------------------------- MODULE Listing -------------------------------
(***************************************************************************)
(* What is read off a store that nobody holds still: workitem.ListAll, mg  *)
(* list and mg flow.  One report reads one directory after the other, and  *)
(* each record of a directory after the directory; the other commands move *)
(* items meanwhile, and write the event of a move some time after it.      *)
(***************************************************************************)
EXTENDS Naturals, Sequences, FiniteSets

CONSTANTS
    Items,
    Holders,         \* who a claim's file name can name
    BlockedAfter,    \* Options.BlockedAfter
    MaxMoves,        \* bound on the moves, for each kind of report
    MaxTime          \* bound on the clock

Kinds == {"list", "flow"}
ListingAssumption ==
    BlockedAfter \in Nat /\ MaxMoves \in [Kinds -> Nat] /\ MaxTime \in Nat

VARIABLES
    at,              \* the status and the holder of each item
    nth,             \* history: how many times each item has moved
    since,           \* history: when it last moved
    log,             \* the events of the moves
    owing,           \* events of moves whose processes have not written them yet
    clock,
    job,             \* the report that is being made
    left             \* moves left
vars == <<at, nth, since, log, owing, clock, job, left>>
moved == <<at, nth, since, left>>

Active == {"pending", "available", "claimed", "done"}
Statuses == Active \cup {"shelved", "archived"}
Free(s) == [status |-> s, holder |-> "nobody"]
Place == {Free(s) : s \in Statuses} \cup {[status |-> "claimed", holder |-> h] : h \in Holders}
Event == [item : Items, to : Statuses, ts : 0 .. MaxTime, nth : Nat]

\* The moves of the commands, and whether the event of one says where it went:
\* a promotion and the placement after an edit do not.  The last is mg reclaim.
Logged ==
    {<<"available", "claimed">>, <<"claimed", "done">>, <<"done", "claimed">>,
     <<"claimed", "available">>, <<"claimed", "pending">>, <<"available", "pending">>,
     <<"pending", "available">>, <<"done", "archived">>, <<"archived", "done">>,
     <<"available", "shelved">>, <<"pending", "shelved">>, <<"claimed", "shelved">>,
     <<"shelved", "available">>, <<"shelved", "pending">>, <<"shelved", "claimed">>,
     <<"claimed", "claimed">>}
Unlogged == {<<"pending", "available">>, <<"available", "pending">>}

Sighting == [status : Statuses \cup {"none"}, since : 0 .. MaxTime, nth : Nat]
Unseen == [status |-> "none", since |-> 0, nth |-> 0]
Report(kind) == [kind |-> kind, begun |-> FALSE, dirs |-> <<>>, entries |-> {}, groups |-> [s \in Statuses |-> {}],
             now |-> 0, blocked |-> {}, start |-> [i \in Items |-> "none"],
             trail |-> [i \in Items |-> {}], seen |-> [i \in Items |-> Unseen], shown |-> FALSE]

(***************************************************************************)
(* The moves of other processes.  The event is written after the move, and *)
(* carries the time it is written at; it stays owed if its process dies in *)
(* between.  Only mg flow reads the events, so time and events are kept    *)
(* for its reports, and the trail of an item for the others.               *)
(***************************************************************************)
Move(i, to, told) ==
    LET edge == <<at[i].status, to.status>> IN
    /\ left > 0 /\ to # at[i] /\ (job.begun \/ job.kind = "flow")
    /\ edge \in IF told THEN Logged ELSE Unlogged
    /\ at' = [at EXCEPT ![i] = to]
    /\ nth' = [nth EXCEPT ![i] = @ + 1]
    /\ since' = [since EXCEPT ![i] = clock]
    /\ owing' = IF told /\ job.kind = "flow" THEN owing \cup {[item |-> i, to |-> to.status, nth |-> nth'[i]]} ELSE owing
    /\ left' = left - 1
    /\ job' = IF job.kind = "flow" THEN job ELSE [job EXCEPT !.trail[i] = @ \cup {edge}]
    /\ UNCHANGED <<log, clock>>

Emit ==
    /\ \E e \in owing :
         /\ log' = log \cup {[item |-> e.item, to |-> e.to, ts |-> clock, nth |-> e.nth]}
         /\ owing' = owing \ {e}
    /\ UNCHANGED <<moved, clock, job>>

Tick ==
    /\ job.kind = "flow" /\ clock < MaxTime /\ clock' = clock + 1
    /\ UNCHANGED <<moved, log, owing, job>>

(***************************************************************************)
(* The report.                                                             *)
(***************************************************************************)
\* the order that ListAll had before: the source of every promotion last
ListPendingLast(kind) ==
    IF kind = "list" THEN <<"available", "claimed", "done", "pending", "archived", "shelved">>
    ELSE <<"available", "claimed", "done", "pending">>

listAllOrder == <<"pending", "available", "claimed", "done">>

\* mg list --all goes on to the archive and the shelf
Order(kind) == IF kind = "list" THEN listAllOrder \o <<"archived", "shelved">> ELSE listAllOrder

Begin ==
    /\ ~job.begun
    /\ job' = [job EXCEPT !.begun = TRUE, !.dirs = Order(job.kind), !.now = clock,
                          !.start = [i \in Items |-> at[i].status]]
    /\ UNCHANGED <<moved, log, owing, clock>>

\* Backend.List: the names of one directory,
ReadDir ==
    /\ job.entries = {} /\ job.dirs # <<>>
    /\ LET s == Head(job.dirs) IN
       job' = [job EXCEPT !.dirs = Tail(@),
                          !.entries = {[item |-> i, place |-> at[i]] : i \in {j \in Items : at[j].status = s}}]
    /\ UNCHANGED <<moved, log, owing, clock>>

\* ListAll reports an item under the last status it was seen in; the archive and
\* the shelf are not compared with anything
Sighted(groups, s, i) ==
    [t \in Statuses |-> IF t = s THEN groups[t] \cup {i}
                       ELSE IF {s, t} \subseteq Active THEN groups[t] \ {i} ELSE groups[t]]

\* ... and then record by record: a path that has gone is passed over
Open ==
    /\ \E e \in job.entries :
         LET rest == [job EXCEPT !.entries = @ \ {e}] IN
         job' = IF at[e.item] # e.place THEN rest
                ELSE [rest EXCEPT !.groups = Sighted(@, e.place.status, e.item),
                                  !.seen[e.item] = [status |-> e.place.status, since |-> since[e.item],
                                                    nth |-> nth[e.item]]]
    /\ UNCHANGED <<moved, log, owing, clock>>

Arrivals(i, s) == {e.ts : e \in {f \in log : f.item = i /\ f.to = s}}

\* the first arrival is kept, not the last
arrivedFirst(i, s) ==
    IF Arrivals(i, s) = {} THEN 0 ELSE CHOOSE t \in Arrivals(i, s) : \A u \in Arrivals(i, s) : t <= u

\* the time of the last event that says the item entered the status, and the
\* item's creation when no event says so
arrivedAt(i, s) ==
    IF Arrivals(i, s) = {} THEN 0 ELSE CHOOSE t \in Arrivals(i, s) : \A u \in Arrivals(i, s) : u <= t

computeBlocked(claimed, now) == {i \in claimed : arrivedAt(i, "claimed") + BlockedAfter <= now}

\* mg flow reads the events after the items
ReadLog ==
    /\ job.kind = "flow" /\ job.begun /\ job.entries = {} /\ job.dirs = <<>>
    /\ job' = [job EXCEPT !.shown = TRUE,
                          !.blocked = computeBlocked(job.groups["claimed"], job.now)]
    /\ UNCHANGED <<moved, log, owing, clock>>

Show ==
    /\ job.kind # "flow" /\ job.begun /\ job.entries = {} /\ job.dirs = <<>>
    /\ job' = [job EXCEPT !.shown = TRUE]
    /\ UNCHANGED <<moved, log, owing, clock>>

-----------------------------------------------------------------------------
\* Items made before the clock started, wherever they are by now; a behaviour is
\* about one report.
Init ==
    /\ at \in [Items -> Place]
    /\ nth = [i \in Items |-> 0] /\ since = [i \in Items |-> 0]
    /\ log = {} /\ owing = {} /\ clock = 0
    /\ \E kind \in Kinds : job = Report(kind) /\ left = MaxMoves[kind]

Others == \E i \in Items, to \in Place, told \in BOOLEAN : Move(i, to, told)
Next ==
    /\ ~job.shown
    /\ \/ Others \/ Emit \/ Tick
       \/ Begin \/ ReadDir \/ Open \/ ReadLog \/ Show
Spec == Init /\ [][Next]_vars

-----------------------------------------------------------------------------
(***************************************************************************)
(* Properties.                                                             *)
(***************************************************************************)
\* The type of every variable.
TypeOK ==
    /\ at \in [Items -> Place] /\ nth \in [Items -> Nat]
    /\ since \in [Items -> 0 .. MaxTime] /\ log \subseteq Event
    /\ owing \subseteq [item : Items, to : Statuses, nth : Nat]
    /\ clock \in 0 .. MaxTime /\ left \in 0 .. MaxMoves[job.kind]
    /\ job.kind \in Kinds /\ job.begun \in BOOLEAN /\ job.shown \in BOOLEAN
    /\ job.entries \subseteq [item : Items, place : Place]
    /\ job.groups \in [Statuses -> SUBSET Items] /\ job.blocked \subseteq Items
    /\ job.seen \in [Items -> Sighting]

Forward == {<<"pending", "available">>, <<"available", "claimed">>, <<"claimed", "done">>}
Groups(i) == {s \in Active : i \in job.groups[s]}
Visited(i) == {job.start[i]} \cup {e[2] : e \in job.trail[i]}
Stayed(i) == Visited(i) \subseteq Active

\* ListAll holds nothing still, and yet an item that goes only the way items
\* flow while it reads is listed, once, in a group it was in (done.go,
\* listAllOrder); mg list --all finds it in the archive if it goes on to there.
ListedOnce ==
    job.shown /\ job.kind = "list" =>
      \A i \in Items :
        /\ Stayed(i) /\ job.trail[i] \subseteq Forward =>
             Cardinality(Groups(i)) = 1 /\ Groups(i) \subseteq Visited(i)
        /\ job.start[i] \in Active
           /\ job.trail[i] \subseteq Forward \cup {<<"done", "archived">>} =>
             \E s \in Statuses : i \in job.groups[s]

\* mg flow reads the events some time after the items, and other processes write
\* them some time after their moves.  What it reports as blocked has been in
\* claimed/ for as long as it says, unless the event of the claim that was seen
\* had not been written yet, or never was (flow.go, computeBlocked).
BlockedIsOld ==
    job.shown => \A i \in job.blocked :
      \/ job.seen[i].since + BlockedAfter <= job.now
      \/ ~\E e \in log : e.item = i /\ e.nth = job.seen[i].nth
=============================================================================
