--------------------------- MODULE Listing_proofs ---------------------------
(***************************************************************************)
(* Proofs about Listing: that an item which goes the way items flow is     *)
(* listed once, and that what is reported as blocked is, for any items,    *)
(* claimants, moves and clock.                                             *)
(***************************************************************************)
EXTENDS Listing, TLAPS, FiniteSetTheorems, SequenceTheorems, WellFoundedInduction

\* The directories a report has left: the end of one of the two orders.
Suffixes ==
    {<<>>, <<"done">>, <<"claimed", "done">>, <<"available", "claimed", "done">>,
     <<"pending", "available", "claimed", "done">>,
     <<"shelved">>, <<"archived", "shelved">>, <<"done", "archived", "shelved">>,
     <<"claimed", "done", "archived", "shelved">>,
     <<"available", "claimed", "done", "archived", "shelved">>,
     <<"pending", "available", "claimed", "done", "archived", "shelved">>}

Entry == [item : Items, place : Place]
Edge == Statuses \X Statuses
Job == [kind : Kinds, begun : BOOLEAN, dirs : Suffixes, entries : SUBSET Entry,
        groups : [Statuses -> SUBSET Items], now : 0 .. MaxTime, blocked : SUBSET Items,
        start : [Items -> Statuses \cup {"none"}], trail : [Items -> SUBSET Edge],
        seen : [Items -> Sighting], shown : BOOLEAN]
Debt == [item : Items, to : Statuses, nth : Nat]

Types ==
    /\ at \in [Items -> Place] /\ nth \in [Items -> Nat] /\ since \in [Items -> 0 .. MaxTime]
    /\ log \subseteq Event /\ owing \subseteq Debt /\ clock \in 0 .. MaxTime
    /\ job \in Job /\ left \in 0 .. MaxMoves[job.kind]

-----------------------------------------------------------------------------
LEMMA PlaceStatus == \A x \in Place : x.status \in Statuses
<1>1. ASSUME NEW s \in Statuses
      PROVE  Free(s).status \in Statuses
  BY DEF Free
<1>2. "claimed" \in Statuses
  BY DEF Statuses, Active
<1> QED BY <1>1, <1>2 DEF Place

LEMMA SuffixStep ==
  ASSUME NEW d \in Suffixes, d # <<>>
  PROVE  Head(d) \in Statuses /\ Tail(d) \in Suffixes
<1> USE DEF Statuses, Active
<1>0. ASSUME NEW s \in {"done", "shelved"}, d = <<s>>
      PROVE  Head(d) \in Statuses /\ Tail(d) \in Suffixes
  <2>1. d \in Seq({s}) /\ Len(d) = 1 /\ Head(d) = s /\ d # <<>>
    BY <1>0
  <2>2. Tail(d) \in Seq({s}) /\ Len(Tail(d)) = 0
    BY <2>1, HeadTailProperties
  <2>3. Tail(d) = <<>>
    BY <2>2, EmptySeq
  <2> QED BY <1>0, <2>1, <2>3 DEF Suffixes
<1>1. CASE d = <<"done">> \/ d = <<"shelved">>
  BY <1>0, <1>1
<1>2. CASE d = <<"claimed", "done">>
  <2>1. Tail(d) = <<"done">>
    BY <1>2
  <2> QED BY <1>2, <2>1 DEF Suffixes
<1>3. CASE d = <<"available", "claimed", "done">>
  <2>1. Tail(d) = <<"claimed", "done">>
    BY <1>3
  <2> QED BY <1>3, <2>1 DEF Suffixes
<1>4. CASE d = <<"pending", "available", "claimed", "done">>
  <2>1. Tail(d) = <<"available", "claimed", "done">>
    BY <1>4
  <2> QED BY <1>4, <2>1 DEF Suffixes
<1>5. CASE d = <<"archived", "shelved">>
  <2>1. Tail(d) = <<"shelved">>
    BY <1>5
  <2> QED BY <1>5, <2>1 DEF Suffixes
<1>6. CASE d = <<"done", "archived", "shelved">>
  <2>1. Tail(d) = <<"archived", "shelved">>
    BY <1>6
  <2> QED BY <1>6, <2>1 DEF Suffixes
<1>7. CASE d = <<"claimed", "done", "archived", "shelved">>
  <2>1. Tail(d) = <<"done", "archived", "shelved">>
    BY <1>7
  <2> QED BY <1>7, <2>1 DEF Suffixes
<1>8. CASE d = <<"available", "claimed", "done", "archived", "shelved">>
  <2>1. Tail(d) = <<"claimed", "done", "archived", "shelved">>
    BY <1>8
  <2> QED BY <1>8, <2>1 DEF Suffixes
<1>9. CASE d = <<"pending", "available", "claimed", "done", "archived", "shelved">>
  <2>1. Tail(d) = <<"available", "claimed", "done", "archived", "shelved">>
    BY <1>9
  <2> QED BY <1>9, <2>1 DEF Suffixes
<1> QED BY <1>1, <1>2, <1>3, <1>4, <1>5, <1>6, <1>7, <1>8, <1>9, Zenon DEF Suffixes

LEMMA Orders ==
  \A kind : Order(kind) =
    IF kind = "list" THEN <<"pending", "available", "claimed", "done", "archived", "shelved">>
    ELSE <<"pending", "available", "claimed", "done">>
<1> DEFINE a == <<"pending", "available", "claimed", "done">>
           b == <<"archived", "shelved">>
           c == <<"pending", "available", "claimed", "done", "archived", "shelved">>
<1>1. a \in Seq(Statuses) /\ b \in Seq(Statuses) /\ c \in Seq(Statuses)
  BY DEF Statuses, Active
<1>2. Len(a) = 4 /\ Len(b) = 2 /\ Len(c) = 6
  OBVIOUS
<1>3. /\ c[1] = a[1] /\ c[2] = a[2] /\ c[3] = a[3] /\ c[4] = a[4]
      /\ c[5] = b[1] /\ c[6] = b[2]
  OBVIOUS
<1> HIDE DEF a, b, c
<1>4. /\ a \o b \in Seq(Statuses) /\ Len(a \o b) = Len(a) + Len(b)
      /\ \A i \in 1 .. Len(a) + Len(b) : (a \o b)[i] = IF i <= Len(a) THEN a[i] ELSE b[i - Len(a)]
  BY <1>1, ConcatProperties
<1> DEFINE d == a \o b
<1>5. Len(d) = Len(c) /\ \A i \in 1 .. Len(d) : d[i] = c[i]
  <2>1. Len(d) = 6 /\ \A i \in 1 .. 6 : d[i] = IF i <= 4 THEN a[i] ELSE b[i - 4]
    BY <1>2, <1>4
  <2> HIDE DEF d
  <2>2. \A i \in 1 .. 6 : i \in {1, 2, 3, 4, 5, 6}
    OBVIOUS
  <2>3. /\ d[1] = a[1] /\ d[2] = a[2] /\ d[3] = a[3] /\ d[4] = a[4]
        /\ d[5] = b[1] /\ d[6] = b[2]
    BY <2>1
  <2> QED BY <1>2, <1>3, <2>1, <2>2, <2>3
<1>6. d = c
  <2>1. d \in Seq(Statuses)
    BY <1>4
  <2> HIDE DEF d
  <2> QED BY <1>1, <1>5, <2>1, SeqEqual
<1> QED BY <1>6, Zenon DEF Order, listAllOrder, a, b, c

LEMMA InitTypes == ListingAssumption /\ Init => Types
<1> SUFFICES ASSUME ListingAssumption, Init
             PROVE  Types
  OBVIOUS
<1>1. /\ at \in [Items -> Place] /\ nth \in [Items -> Nat] /\ since \in [Items -> 0 .. MaxTime]
      /\ log \subseteq Event /\ owing \subseteq Debt /\ clock \in 0 .. MaxTime
  BY DEF Init, ListingAssumption
<1>2. PICK kind \in Kinds : job = Report(kind) /\ left = MaxMoves[kind]
  BY DEF Init
<1>3. job \in Job /\ job.kind = kind
  <2>1. /\ <<>> \in Suffixes /\ 0 \in 0 .. MaxTime /\ Unseen \in Sighting
    BY DEF ListingAssumption, Suffixes, Unseen, Sighting
  <2>2. Report(kind) \in Job /\ Report(kind).kind = kind
    BY <2>1 DEF Report, Job
  <2> QED BY <1>2, <2>2
<1>4. left \in 0 .. MaxMoves[kind]
  BY <1>2 DEF ListingAssumption
<1> QED BY <1>1, <1>3, <1>4 DEF Types

LEMMA MoveTypes ==
  ASSUME ListingAssumption, Types, NEW i \in Items, NEW to \in Place, NEW told \in BOOLEAN,
         Move(i, to, told)
  PROVE  Types'
<1>1. /\ at' \in [Items -> Place] /\ nth' \in [Items -> Nat] /\ since' \in [Items -> 0 .. MaxTime]
      /\ log' \subseteq Event /\ clock' \in 0 .. MaxTime
  BY DEF Move, Types
<1>2. owing' \subseteq Debt
  <2>1. [item |-> i, to |-> to.status, nth |-> nth'[i]] \in Debt
    BY <1>1, PlaceStatus DEF Debt
  <2> QED BY <2>1 DEF Move, Types
<1>3. job' \in Job /\ job'.kind = job.kind
  <2> DEFINE edge == <<at[i].status, to.status>>
  <2>1. edge \in Edge
    BY PlaceStatus DEF Types, Edge
  <2> HIDE DEF edge
  <2>2. [job EXCEPT !.trail[i] = @ \cup {edge}] \in Job
    BY <2>1 DEF Types, Job
  <2>3. CASE job.kind = "flow"
    BY <2>3 DEF Move, Types
  <2>4. CASE job.kind # "flow"
    <3>1. job' = [job EXCEPT !.trail[i] = @ \cup {edge}]
      BY <2>4, Zenon DEF Move, edge
    <3>2. job'.kind = job.kind
      BY <3>1 DEF Types, Job
    <3> QED BY <2>2, <3>1, <3>2
  <2> QED BY <2>3, <2>4
<1>4. left' \in 0 .. MaxMoves[job.kind]
  BY DEF Move, Types, ListingAssumption, Job
<1> QED BY <1>1, <1>2, <1>3, <1>4 DEF Types

LEMMA EventTypes ==
  ASSUME ListingAssumption, Types, Emit \/ Tick
  PROVE  Types'
<1>1. CASE Emit
  <2>1. PICK e \in owing :
          /\ log' = log \cup {[item |-> e.item, to |-> e.to, ts |-> clock, nth |-> e.nth]}
          /\ owing' = owing \ {e}
    BY <1>1 DEF Emit
  <2>2. e.item \in Items /\ e.to \in Statuses /\ e.nth \in Nat /\ clock \in 0 .. MaxTime
    BY DEF Types, Debt
  <2>3. [item |-> e.item, to |-> e.to, ts |-> clock, nth |-> e.nth] \in Event
    BY <2>2 DEF Event
  <2> QED BY <1>1, <2>1, <2>3 DEF Emit, moved, Types
<1>2. CASE Tick
  BY <1>2 DEF Tick, moved, Types, ListingAssumption
<1> QED BY <1>1, <1>2

LEMMA BeginTypes == ASSUME ListingAssumption, Types, Begin PROVE Types'
<1>1. Order(job.kind) \in Suffixes
  BY Orders DEF Suffixes
<1> DEFINE start == [i \in Items |-> at[i].status]
<1>2. start \in [Items -> Statuses \cup {"none"}]
  BY PlaceStatus DEF Types
<1>4. job' = [job EXCEPT !.begun = TRUE, !.dirs = Order(job.kind), !.now = clock, !.start = start]
  BY Zenon DEF Begin
<1> HIDE DEF start
<1>3. job' \in Job /\ job'.kind = job.kind
  BY <1>1, <1>2, <1>4 DEF Types, Job
<1> QED BY <1>3 DEF Begin, moved, Types

LEMMA ReadDirTypes == ASSUME ListingAssumption, Types, ReadDir PROVE Types'
<1> DEFINE s == Head(job.dirs)
           read == {[item |-> i, place |-> at[i]] : i \in {j \in Items : at[j].status = s}}
<1>1. job.dirs \in Suffixes /\ job.dirs # <<>>
  BY DEF Types, Job, ReadDir
<1>2. Tail(job.dirs) \in Suffixes /\ read \in SUBSET Entry
  BY <1>1, SuffixStep DEF Types, Entry
<1>3. job' = [job EXCEPT !.dirs = Tail(job.dirs), !.entries = read]
  BY Zenon DEF ReadDir
<1> HIDE DEF read
<1>4. job' \in Job /\ job'.kind = job.kind
  BY <1>2, <1>3 DEF Types, Job
<1> QED BY <1>4 DEF ReadDir, moved, Types

LEMMA SightedTypes ==
  ASSUME NEW g \in [Statuses -> SUBSET Items], NEW s \in Statuses, NEW i \in Items
  PROVE  Sighted(g, s, i) \in [Statuses -> SUBSET Items]
BY DEF Sighted

\* Open passes a record over, or sights it.
LEMMA OpenCases ==
  ASSUME Types, Open
  PROVE  \E e \in job.entries :
           /\ job'.entries = job.entries \ {e} /\ job'.kind = job.kind
           /\ job'.begun = job.begun /\ job'.dirs = job.dirs /\ job'.now = job.now
           /\ job'.start = job.start /\ job'.trail = job.trail /\ job'.shown = job.shown
           /\ job'.blocked = job.blocked /\ job' \in Job
           /\ \/ at[e.item] # e.place /\ job'.groups = job.groups /\ job'.seen = job.seen
              \/ /\ at[e.item] = e.place
                 /\ job'.groups = Sighted(job.groups, e.place.status, e.item)
                 /\ job'.seen = [job.seen EXCEPT ![e.item] =
                      [status |-> e.place.status, since |-> since[e.item], nth |-> nth[e.item]]]
<1>1. PICK e \in job.entries :
        LET rest == [job EXCEPT !.entries = job.entries \ {e}] IN
        job' = IF at[e.item] # e.place THEN rest
               ELSE [rest EXCEPT !.groups = Sighted(rest.groups, e.place.status, e.item),
                                 !.seen[e.item] = [status |-> e.place.status,
                                                   since |-> since[e.item], nth |-> nth[e.item]]]
  BY Zenon DEF Open
<1> DEFINE groups == Sighted(job.groups, e.place.status, e.item)
           sight == [status |-> e.place.status, since |-> since[e.item], nth |-> nth[e.item]]
<1>2. e.item \in Items /\ e.place \in Place /\ job \in Job
  BY DEF Types, Job, Entry
<1>3. groups \in [Statuses -> SUBSET Items] /\ sight \in Sighting
  BY <1>2, SightedTypes, PlaceStatus DEF Types, Job, Sighting
<1>4. CASE at[e.item] # e.place
  <2>1. job' = [job EXCEPT !.entries = job.entries \ {e}]
    BY <1>1, <1>4
  <2> QED BY <1>2, <1>4, <2>1 DEF Job
<1>5. CASE at[e.item] = e.place
  <2>0. [job EXCEPT !.entries = job.entries \ {e}].groups = job.groups
    BY <1>2 DEF Job
  <2>1. job' = [[job EXCEPT !.entries = job.entries \ {e}]
                   EXCEPT !.groups = groups, !.seen[e.item] = sight]
    BY <1>1, <1>5, <2>0, Zenon
  <2> HIDE DEF groups, sight
  <2>2. /\ job'.entries = job.entries \ {e} /\ job'.kind = job.kind
        /\ job'.begun = job.begun /\ job'.dirs = job.dirs /\ job'.now = job.now
        /\ job'.start = job.start /\ job'.trail = job.trail /\ job'.shown = job.shown
        /\ job'.blocked = job.blocked /\ job' \in Job /\ job'.groups = groups
        /\ job'.seen = [job.seen EXCEPT ![e.item] = sight]
    BY <1>2, <1>3, <2>1 DEF Job
  <2> QED BY <1>5, <2>2, Zenon DEF groups, sight
<1> QED BY <1>4, <1>5

LEMMA ShowTypes == ASSUME ListingAssumption, Types, ReadLog \/ Show PROVE Types'
<1>1. computeBlocked(job.groups["claimed"], job.now) \in SUBSET Items
  BY DEF Types, Job, computeBlocked, Statuses, Active
<1>2. job' \in Job /\ job'.kind = job.kind
  BY <1>1 DEF ReadLog, Show, Types, Job
<1> QED BY <1>2 DEF ReadLog, Show, moved, Types

LEMMA NextTypes == ListingAssumption /\ Types /\ [Next]_vars => Types'
<1> SUFFICES ASSUME ListingAssumption, Types, [Next]_vars
             PROVE  Types'
  OBVIOUS
<1>1. CASE UNCHANGED vars
  BY <1>1 DEF vars, Types
<1>2. CASE Others
  BY <1>2, MoveTypes DEF Others
<1>3. CASE Open
  BY <1>3, OpenCases DEF Open, moved, Types
<1> QED BY <1>1, <1>2, <1>3, EventTypes, BeginTypes, ReadDirTypes, ShowTypes DEF Next
-----------------------------------------------------------------------------
(***************************************************************************)
(* mg list.  The directories are read in the order items go, so an item is *)
(* listed, is in hand (its record was named and has not moved since), or   *)
(* is still to come, where a later directory is.                           *)
(***************************************************************************)
Pos == [pending |-> 1, available |-> 2, claimed |-> 3, done |-> 4, archived |-> 5, shelved |-> 6]
Onward == Forward \cup {<<"done", "archived">>}
ListSuffixes ==
    {<<>>, <<"shelved">>, <<"archived", "shelved">>, <<"done", "archived", "shelved">>,
     <<"claimed", "done", "archived", "shelved">>,
     <<"available", "claimed", "done", "archived", "shelved">>,
     <<"pending", "available", "claimed", "done", "archived", "shelved">>}

Lists == job.kind = "list" /\ job.begun
Found(i) == \E s \in Statuses : i \in job.groups[s]
Coming(i) == Pos[at[i].status] > 6 - Len(job.dirs)
InHand(i) == \E e \in job.entries :
                e.item = i /\ e.place = at[i] /\ Pos[at[i].status] = 6 - Len(job.dirs)

Fresh ==
    ~job.begun => /\ job.dirs = <<>> /\ job.entries = {} /\ ~job.shown
                  /\ \A i \in Items : job.trail[i] = {}
                  /\ \A s \in Statuses : job.groups[s] = {}
Once == \A i \in Items : \A s, t \in Active : i \in job.groups[s] /\ i \in job.groups[t] => s = t
Ordered ==
    job.kind = "list" =>
      /\ job.dirs \in ListSuffixes
      /\ job.shown => job.begun /\ job.entries = {} /\ job.dirs = <<>>
Trails ==
    Lists => \A i \in Items :
      /\ job.start[i] \in Statuses /\ at[i].status \in Visited(i)
      /\ \A s \in Statuses : i \in job.groups[s] => s \in Visited(i)
ToBeListed ==
    Lists => \A i \in Items :
      job.start[i] \in Active /\ job.trail[i] \subseteq Onward => Found(i) \/ Coming(i) \/ InHand(i)
Listing1 == Fresh /\ Once /\ Ordered /\ Trails /\ ToBeListed

LEMMA Positions ==
  /\ \A s \in Statuses : Pos[s] \in 1 .. 6
  /\ \A s, t \in Statuses : Pos[s] = Pos[t] => s = t
  /\ \A s, t : <<s, t>> \in Onward => Pos[t] = Pos[s] + 1
<1>1. \A s \in Statuses : Pos[s] \in 1 .. 6
  BY DEF Pos, Statuses, Active
<1>2. \A s, t \in Statuses : Pos[s] = Pos[t] => s = t
  BY DEF Pos, Statuses, Active
<1>3. \A s, t : <<s, t>> \in Onward => Pos[t] = Pos[s] + 1
  <2> SUFFICES ASSUME NEW s, NEW t, <<s, t>> \in Onward
               PROVE  Pos[t] = Pos[s] + 1
    OBVIOUS
  <2>1. \/ s = "pending" /\ t = "available"
        \/ s = "available" /\ t = "claimed"
        \/ s = "claimed" /\ t = "done"
        \/ s = "done" /\ t = "archived"
    BY DEF Onward, Forward
  <2> QED BY <2>1 DEF Pos
<1> QED BY <1>1, <1>2, <1>3

LEMMA ListStep ==
  ASSUME NEW d \in ListSuffixes, d # <<>>
  PROVE  /\ Pos[Head(d)] = 7 - Len(d) /\ Len(d) \in Nat /\ Len(Tail(d)) = Len(d) - 1
         /\ Tail(d) \in ListSuffixes
<1>1. d \in Seq(Statuses)
  <2> USE DEF Statuses, Active
  <2>1. /\ <<>> \in Seq(Statuses) /\ <<"shelved">> \in Seq(Statuses)
        /\ <<"archived", "shelved">> \in Seq(Statuses)
        /\ <<"done", "archived", "shelved">> \in Seq(Statuses)
    OBVIOUS
  <2>2. /\ <<"claimed", "done", "archived", "shelved">> \in Seq(Statuses)
        /\ <<"available", "claimed", "done", "archived", "shelved">> \in Seq(Statuses)
        /\ <<"pending", "available", "claimed", "done", "archived", "shelved">> \in Seq(Statuses)
    OBVIOUS
  <2> HIDE DEF Statuses
  <2> QED BY <2>1, <2>2, Zenon DEF ListSuffixes
<1>2. Len(Tail(d)) = Len(d) - 1 /\ Len(d) \in Nat
  BY <1>1, HeadTailProperties, LenProperties
<1>3. Pos[Head(d)] = 7 - Len(d)
  <2>1. CASE d = <<"shelved">>
    BY <2>1 DEF Pos
  <2>2. CASE d = <<"archived", "shelved">>
    BY <2>2 DEF Pos
  <2>3. CASE d = <<"done", "archived", "shelved">>
    BY <2>3 DEF Pos
  <2>4. CASE d = <<"claimed", "done", "archived", "shelved">>
    BY <2>4 DEF Pos
  <2>5. CASE d = <<"available", "claimed", "done", "archived", "shelved">>
    BY <2>5 DEF Pos
  <2>6. CASE d = <<"pending", "available", "claimed", "done", "archived", "shelved">>
    BY <2>6 DEF Pos
  <2> QED BY <2>1, <2>2, <2>3, <2>4, <2>5, <2>6 DEF ListSuffixes
<1>4. Tail(d) \in ListSuffixes
  <2>1. CASE d = <<"shelved">>
    <3>1. Tail(d) \in Seq(Statuses) /\ Len(Tail(d)) = 0
      BY <1>1, <2>1, HeadTailProperties
    <3> QED BY <3>1, EmptySeq DEF ListSuffixes
  <2>2. CASE d = <<"archived", "shelved">>
    <3>1. Tail(d) = <<"shelved">>
      BY <2>2
    <3> QED BY <3>1 DEF ListSuffixes
  <2>3. CASE d = <<"done", "archived", "shelved">>
    <3>1. Tail(d) = <<"archived", "shelved">>
      BY <2>3
    <3> QED BY <3>1 DEF ListSuffixes
  <2>4. CASE d = <<"claimed", "done", "archived", "shelved">>
    <3>1. Tail(d) = <<"done", "archived", "shelved">>
      BY <2>4
    <3> QED BY <3>1 DEF ListSuffixes
  <2>5. CASE d = <<"available", "claimed", "done", "archived", "shelved">>
    <3>1. Tail(d) = <<"claimed", "done", "archived", "shelved">>
      BY <2>5
    <3> QED BY <3>1 DEF ListSuffixes
  <2>6. CASE d = <<"pending", "available", "claimed", "done", "archived", "shelved">>
    <3>1. Tail(d) = <<"available", "claimed", "done", "archived", "shelved">>
      BY <2>6
    <3> QED BY <3>1 DEF ListSuffixes
  <2> QED BY <2>1, <2>2, <2>3, <2>4, <2>5, <2>6 DEF ListSuffixes
<1> QED BY <1>2, <1>3, <1>4

\* What each step does to the report, field by field.
LEMMA MoveJob ==
  ASSUME Types, NEW i \in Items, NEW to \in Place, NEW told \in BOOLEAN, Move(i, to, told)
  PROVE  /\ at' = [at EXCEPT ![i] = to] /\ ~(job.kind = "list" /\ ~job.begun)
         /\ job'.kind = job.kind /\ job'.begun = job.begun /\ job'.dirs = job.dirs
         /\ job'.entries = job.entries /\ job'.groups = job.groups /\ job'.start = job.start
         /\ job'.shown = job.shown /\ job'.blocked = job.blocked /\ job'.seen = job.seen
         /\ job'.now = job.now
         /\ IF job.kind = "flow" THEN job'.trail = job.trail
            ELSE job'.trail = [job.trail EXCEPT ![i] = @ \cup {<<at[i].status, to.status>>}]
<1>1. at' = [at EXCEPT ![i] = to] /\ (job.begun \/ job.kind = "flow")
  BY DEF Move
<1>2. CASE job.kind = "flow"
  BY <1>1, <1>2 DEF Move
<1>3. CASE job.kind # "flow"
  <2> DEFINE edge == <<at[i].status, to.status>>
  <2> HIDE DEF edge
  <2>1. job' = [job EXCEPT !.trail[i] = @ \cup {edge}]
    BY <1>3, Zenon DEF Move, edge
  <2>2. job \in Job
    BY DEF Types
  <2>3. /\ job'.kind = job.kind /\ job'.begun = job.begun /\ job'.dirs = job.dirs
        /\ job'.entries = job.entries /\ job'.groups = job.groups /\ job'.start = job.start
        /\ job'.shown = job.shown /\ job'.blocked = job.blocked /\ job'.seen = job.seen
        /\ job'.now = job.now
        /\ job'.trail = [job.trail EXCEPT ![i] = @ \cup {edge}]
    BY <2>1, <2>2 DEF Job
  <2> QED BY <1>1, <1>3, <2>3, Zenon DEF edge
<1> QED BY <1>2, <1>3

LEMMA BeginJob ==
  ASSUME Types, Begin
  PROVE  /\ at' = at /\ ~job.begun /\ job'.kind = job.kind /\ job'.begun = TRUE
         /\ job'.dirs = Order(job.kind) /\ job'.now = clock
         /\ job'.entries = job.entries /\ job'.groups = job.groups
         /\ job'.start = [i \in Items |-> at[i].status] /\ job'.trail = job.trail
         /\ job'.shown = job.shown /\ job'.blocked = job.blocked /\ job'.seen = job.seen
<1> DEFINE start == [i \in Items |-> at[i].status]
<1>1. job' = [job EXCEPT !.begun = TRUE, !.dirs = Order(job.kind), !.now = clock, !.start = start]
  BY Zenon DEF Begin
<1>2. job \in Job /\ at' = at /\ ~job.begun
  BY DEF Types, Begin, moved
<1> HIDE DEF start
<1>3. /\ job'.kind = job.kind /\ job'.begun = TRUE
      /\ job'.dirs = Order(job.kind) /\ job'.now = clock
      /\ job'.entries = job.entries /\ job'.groups = job.groups
      /\ job'.start = start /\ job'.trail = job.trail
      /\ job'.shown = job.shown /\ job'.blocked = job.blocked /\ job'.seen = job.seen
  BY <1>1, <1>2 DEF Job
<1> QED BY <1>2, <1>3, Zenon DEF start

LEMMA ReadDirJob ==
  ASSUME Types, ReadDir
  PROVE  /\ at' = at /\ job.entries = {} /\ job.dirs # <<>> /\ job'.dirs = Tail(job.dirs)
         /\ job'.entries = {[item |-> i, place |-> at[i]] :
                              i \in {j \in Items : at[j].status = Head(job.dirs)}}
         /\ job'.kind = job.kind /\ job'.begun = job.begun /\ job'.groups = job.groups
         /\ job'.start = job.start /\ job'.trail = job.trail /\ job'.shown = job.shown
         /\ job'.blocked = job.blocked /\ job'.seen = job.seen /\ job'.now = job.now
<1> DEFINE s == Head(job.dirs)
           read == {[item |-> i, place |-> at[i]] : i \in {j \in Items : at[j].status = s}}
<1>1. job' = [job EXCEPT !.dirs = Tail(job.dirs), !.entries = read]
  BY Zenon DEF ReadDir
<1>2. job \in Job /\ at' = at /\ job.entries = {} /\ job.dirs # <<>>
  BY DEF Types, ReadDir, moved
<1> HIDE DEF read
<1>3. /\ job'.dirs = Tail(job.dirs) /\ job'.entries = read
      /\ job'.kind = job.kind /\ job'.begun = job.begun /\ job'.groups = job.groups
      /\ job'.start = job.start /\ job'.trail = job.trail /\ job'.shown = job.shown
      /\ job'.blocked = job.blocked /\ job'.seen = job.seen /\ job'.now = job.now
  BY <1>1, <1>2 DEF Job
<1> QED BY <1>2, <1>3, Zenon DEF read

LEMMA ShowJob ==
  ASSUME Types, ReadLog \/ Show
  PROVE  /\ at' = at /\ job.begun /\ job.entries = {} /\ job.dirs = <<>> /\ job'.shown = TRUE
         /\ job'.kind = job.kind /\ job'.begun = job.begun /\ job'.groups = job.groups
         /\ job'.start = job.start /\ job'.trail = job.trail /\ job'.dirs = job.dirs
         /\ job'.entries = job.entries /\ job'.seen = job.seen /\ job'.now = job.now
         /\ \/ job.kind = "flow" /\ job'.blocked = computeBlocked(job.groups["claimed"], job.now)
            \/ job.kind # "flow" /\ job'.blocked = job.blocked
BY DEF Types, ReadLog, Show, moved, Job
LEMMA InitListing == ListingAssumption /\ Init => Listing1
<1> SUFFICES ASSUME Init
             PROVE  Listing1
  OBVIOUS
<1>1. PICK kind \in Kinds : job = Report(kind)
  BY DEF Init
<1>2. /\ ~job.begun /\ job.dirs = <<>> /\ job.entries = {} /\ ~job.shown
      /\ \A i \in Items : job.trail[i] = {}
      /\ \A s \in Statuses : job.groups[s] = {}
  BY <1>1 DEF Report
<1>3. Active \subseteq Statuses
  BY DEF Statuses
<1> QED BY <1>2, <1>3 DEF Listing1, Fresh, Once, Ordered, Trails, ToBeListed, Lists, ListSuffixes

LEMMA MoveListing ==
  ASSUME Types, Listing1, NEW i \in Items, NEW to \in Place, NEW told \in BOOLEAN,
         Move(i, to, told)
  PROVE  Listing1'
<1>1. /\ at' = [at EXCEPT ![i] = to] /\ ~(job.kind = "list" /\ ~job.begun)
      /\ job'.kind = job.kind /\ job'.begun = job.begun /\ job'.dirs = job.dirs
      /\ job'.entries = job.entries /\ job'.groups = job.groups /\ job'.start = job.start
      /\ job'.shown = job.shown
      /\ IF job.kind = "flow" THEN job'.trail = job.trail
         ELSE job'.trail = [job.trail EXCEPT ![i] = @ \cup {<<at[i].status, to.status>>}]
  BY MoveJob
<1>2. Once' /\ Ordered'
  BY <1>1 DEF Listing1, Once, Ordered
<1>3. Fresh'
  <2>1. CASE job.kind = "flow"
    BY <1>1, <2>1 DEF Listing1, Fresh
  <2>2. CASE job.kind # "flow"
    BY <1>1, <2>2 DEF Listing1, Fresh, Types, Job, Kinds
  <2> QED BY <2>1, <2>2
<1>4. ASSUME Lists', NEW k \in Items
      PROVE  /\ Lists /\ (k # i => at'[k] = at[k] /\ job'.trail[k] = job.trail[k])
             /\ at'[i] = to /\ job'.trail[i] = job.trail[i] \cup {<<at[i].status, to.status>>}
             /\ at[k].status \in Statuses /\ to.status \in Statuses
             /\ Visited(k) \subseteq Visited(k)'
  <2>1. Lists /\ job.trail \in [Items -> SUBSET Edge] /\ at \in [Items -> Place]
    BY <1>1, <1>4 DEF Lists, Types, Job
  <2>2. job'.trail = [job.trail EXCEPT ![i] = @ \cup {<<at[i].status, to.status>>}]
    BY <1>1, <2>1 DEF Lists
  <2>3. /\ k # i => at'[k] = at[k] /\ job'.trail[k] = job.trail[k]
        /\ at'[i] = to /\ job'.trail[i] = job.trail[i] \cup {<<at[i].status, to.status>>}
    BY <1>1, <2>1, <2>2
  <2>4. job.trail[k] \subseteq job'.trail[k]
    BY <2>3
  <2>5. Visited(k) \subseteq Visited(k)'
    BY <1>1, <2>4 DEF Visited
  <2> QED BY <2>1, <2>3, <2>5, PlaceStatus
<1>5. Trails'
  <2> SUFFICES ASSUME Lists', NEW k \in Items
               PROVE  /\ job'.start[k] \in Statuses /\ at'[k].status \in Visited(k)'
                      /\ \A s \in Statuses : k \in job'.groups[s] => s \in Visited(k)'
    BY DEF Trails
  <2>1. /\ job.start[k] \in Statuses /\ at[k].status \in Visited(k)
        /\ \A s \in Statuses : k \in job.groups[s] => s \in Visited(k)
    BY <1>4 DEF Listing1, Trails
  <2>2. at'[k].status \in Visited(k)'
    <3>1. CASE k # i
      BY <1>4, <2>1, <3>1
    <3>2. CASE k = i
      <4>1. <<at[i].status, to.status>> \in job'.trail[i] /\ <<at[i].status, to.status>>[2] = to.status
        BY <1>4
      <4> QED BY <1>4, <3>2, <4>1 DEF Visited
    <3> QED BY <3>1, <3>2
  <2> QED BY <1>1, <1>4, <2>1, <2>2
<1>6. ToBeListed'
  <2> SUFFICES ASSUME Lists', NEW k \in Items, job'.start[k] \in Active,
                      job'.trail[k] \subseteq Onward
               PROVE  (Found(k) \/ Coming(k) \/ InHand(k))'
    BY DEF ToBeListed
  <2>1. job.trail[k] \subseteq Onward
    BY <1>4
  <2>2. Found(k) \/ Coming(k) \/ InHand(k)
    BY <1>1, <1>4, <2>1 DEF Listing1, ToBeListed
  <2>3. Found(k) => Found(k)'
    BY <1>1 DEF Found
  <2>4. CASE k # i
    BY <1>1, <1>4, <2>2, <2>3, <2>4 DEF Coming, InHand
  <2>5. CASE k = i /\ ~Found(k)
    <3>1. <<at[i].status, to.status>> \in Onward
      BY <1>4, <2>5
    <3>2. Pos[to.status] = Pos[at[i].status] + 1 /\ Pos[at[i].status] \in 1 .. 6
      BY <1>4, <3>1, Positions
    <3>3. Len(job.dirs) \in Nat
      <4>1. job.dirs \in ListSuffixes
        BY <1>4 DEF Lists, Listing1, Ordered
      <4> QED BY <4>1, ListStep DEF ListSuffixes
    <3>4. Pos[at[i].status] >= 6 - Len(job.dirs)
      BY <2>2, <2>5, <3>2, <3>3 DEF Coming, InHand
    <3>5. Pos[to.status] > 6 - Len(job.dirs)
      BY <3>2, <3>3, <3>4
    <3> QED BY <1>1, <1>4, <2>5, <3>5 DEF Coming
  <2> QED BY <2>3, <2>4, <2>5
<1> QED BY <1>2, <1>3, <1>5, <1>6 DEF Listing1

LEMMA BeginListing == ASSUME Types, Listing1, Begin PROVE Listing1'
<1>1. /\ at' = at /\ ~job.begun /\ job'.kind = job.kind /\ job'.begun = TRUE
      /\ job'.dirs = Order(job.kind)
      /\ job'.entries = job.entries /\ job'.groups = job.groups
      /\ job'.start = [i \in Items |-> at[i].status] /\ job'.trail = job.trail
      /\ job'.shown = job.shown
  BY BeginJob
<1>2. Fresh' /\ Once'
  BY <1>1 DEF Listing1, Fresh, Once
<1>3. ~job'.shown /\ \A s \in Statuses : job'.groups[s] = {}
  BY <1>1 DEF Listing1, Fresh
<1>4. Ordered'
  BY <1>1, <1>3, Orders DEF Ordered, ListSuffixes
<1>5. \A i \in Items : job'.start[i] = at[i].status /\ at[i].status \in Statuses
  BY <1>1, PlaceStatus DEF Types
<1>6. Trails'
  BY <1>1, <1>3, <1>5 DEF Trails, Visited
<1>7. ASSUME Lists', NEW i \in Items
      PROVE  Coming(i)'
  <2>1. job'.dirs = <<"pending", "available", "claimed", "done", "archived", "shelved">>
    BY <1>1, <1>7, Orders DEF Lists
  <2>2. Len(job'.dirs) = 6
    BY <2>1
  <2>3. Pos[at'[i].status] \in 1 .. 6
    BY <1>1, <1>5, Positions
  <2> QED BY <2>2, <2>3 DEF Coming
<1>8. ToBeListed'
  BY <1>7 DEF ToBeListed
<1> QED BY <1>2, <1>4, <1>6, <1>8 DEF Listing1

LEMMA ReadDirListing == ASSUME Types, Listing1, ReadDir PROVE Listing1'
<1>1. /\ at' = at /\ job.entries = {} /\ job.dirs # <<>> /\ job'.dirs = Tail(job.dirs)
      /\ job'.entries = {[item |-> i, place |-> at[i]] :
                           i \in {j \in Items : at[j].status = Head(job.dirs)}}
      /\ job'.kind = job.kind /\ job'.begun = job.begun /\ job'.groups = job.groups
      /\ job'.start = job.start /\ job'.trail = job.trail /\ job'.shown = job.shown
  BY ReadDirJob
<1>2. Fresh' /\ Once' /\ Trails'
  BY <1>1 DEF Listing1, Fresh, Once, Trails, Lists, Visited
<1>3. Ordered'
  BY <1>1, ListStep DEF Listing1, Ordered
<1>4. ToBeListed'
  <2> SUFFICES ASSUME Lists', NEW i \in Items, job'.start[i] \in Active,
                      job'.trail[i] \subseteq Onward
               PROVE  (Found(i) \/ Coming(i) \/ InHand(i))'
    BY DEF ToBeListed
  <2>1. Lists /\ job.dirs \in ListSuffixes
    BY <1>1 DEF Lists, Listing1, Ordered
  <2>2. Found(i) \/ Coming(i)
    BY <1>1, <2>1 DEF Listing1, ToBeListed, InHand
  <2>3. Found(i) => Found(i)'
    BY <1>1 DEF Found
  <2>4. /\ Pos[Head(job.dirs)] = 7 - Len(job.dirs) /\ Len(job.dirs) \in Nat
        /\ Len(job'.dirs) = Len(job.dirs) - 1
    BY <1>1, <2>1, ListStep
  <2>5. at[i].status \in Statuses /\ Pos[at[i].status] \in 1 .. 6
    BY PlaceStatus, Positions DEF Types
  <2>6. CASE at[i].status = Head(job.dirs)
    <3>1. [item |-> i, place |-> at[i]] \in job'.entries
      BY <1>1, <2>6
    <3>2. Pos[at[i].status] = 6 - Len(job'.dirs)
      BY <2>4, <2>6
    <3> QED BY <1>1, <3>1, <3>2 DEF InHand
  <2>7. CASE at[i].status # Head(job.dirs) /\ Coming(i)
    <3>1. Head(job.dirs) \in Statuses
      BY <1>1, SuffixStep DEF Types, Job
    <3>2. Pos[at[i].status] # Pos[Head(job.dirs)]
      BY <2>5, <2>7, <3>1, Positions
    <3>3. Pos[at[i].status] > 6 - Len(job'.dirs)
      BY <2>4, <2>5, <2>7, <3>2 DEF Coming
    <3> QED BY <1>1, <3>3 DEF Coming
  <2> QED BY <2>2, <2>3, <2>6, <2>7
<1> QED BY <1>2, <1>3, <1>4 DEF Listing1

LEMMA OpenListing == ASSUME Types, Listing1, Open, ~job.shown PROVE Listing1'
<1>1. at' = at
  BY DEF Open, moved
<1>2. PICK e \in job.entries :
        /\ job'.entries = job.entries \ {e} /\ job'.kind = job.kind
        /\ job'.begun = job.begun /\ job'.dirs = job.dirs
        /\ job'.start = job.start /\ job'.trail = job.trail /\ job'.shown = job.shown
        /\ \/ at[e.item] # e.place /\ job'.groups = job.groups
           \/ /\ at[e.item] = e.place
              /\ job'.groups = Sighted(job.groups, e.place.status, e.item)
  BY OpenCases
<1>3. e.item \in Items /\ e.place \in Place /\ job.groups \in [Statuses -> SUBSET Items]
  BY DEF Types, Job, Entry
<1>4. Fresh'
  BY <1>2 DEF Listing1, Fresh
<1>5. Ordered'
  BY <1>2 DEF Listing1, Ordered
<1>6. CASE at[e.item] # e.place /\ job'.groups = job.groups
  <2>1. Once' /\ Trails'
    BY <1>1, <1>2, <1>6 DEF Listing1, Once, Trails, Lists, Visited
  <2>2. ASSUME NEW i \in Items, InHand(i)
        PROVE  InHand(i)'
    BY <1>1, <1>2, <1>6, <2>2 DEF InHand
  <2>3. ToBeListed'
    BY <1>1, <1>2, <1>6, <2>2 DEF Listing1, ToBeListed, Lists, Found, Coming
  <2> QED BY <1>4, <1>5, <2>1, <2>3 DEF Listing1
<1>7. CASE at[e.item] = e.place /\ job'.groups = Sighted(job.groups, e.place.status, e.item)
  <2> DEFINE s == e.place.status
  <2>1. s \in Statuses
    BY <1>3, PlaceStatus
  <2>2. /\ \A t \in Statuses : job'.groups[t] =
             IF t = s THEN job.groups[t] \cup {e.item}
             ELSE IF {s, t} \subseteq Active THEN job.groups[t] \ {e.item} ELSE job.groups[t]
    BY <1>3, <1>7, <2>1 DEF Sighted
  <2> HIDE DEF s
  <2>3. ASSUME NEW i \in Items, Found(i) \/ i = e.item
        PROVE  Found(i)'
    <3>1. CASE i = e.item
      BY <2>1, <2>2, <3>1 DEF Found
    <3>2. CASE i # e.item
      BY <2>2, <2>3, <3>2 DEF Found
    <3> QED BY <3>1, <3>2
  <2>4. Once'
    <3> SUFFICES ASSUME NEW i \in Items, NEW t \in Active, NEW u \in Active,
                        i \in job'.groups[t], i \in job'.groups[u]
                 PROVE  t = u
      BY DEF Once
    <3>1. t \in Statuses /\ u \in Statuses
      BY DEF Statuses
    <3>2. CASE i # e.item
      BY <2>2, <3>1, <3>2 DEF Listing1, Once
    <3>3. CASE i = e.item /\ s \in Active
      BY <2>2, <3>1, <3>3
    <3>4. CASE i = e.item /\ s \notin Active
      BY <2>2, <3>1, <3>4 DEF Listing1, Once
    <3> QED BY <3>2, <3>3, <3>4
  <2>5. Trails'
    <3> SUFFICES ASSUME Lists, NEW i \in Items, NEW t \in Statuses, i \in job'.groups[t]
                 PROVE  t \in Visited(i)
      BY <1>1, <1>2 DEF Listing1, Trails, Lists, Visited
    <3>1. CASE i \in job.groups[t]
      BY <3>1 DEF Listing1, Trails
    <3>2. CASE i \notin job.groups[t]
      <4>1. i = e.item /\ t = s
        BY <2>2, <3>2
      <4>2. t = at[i].status
        BY <1>7, <4>1 DEF s
      <4> QED BY <4>2 DEF Listing1, Trails
    <3> QED BY <3>1, <3>2
  <2>6. ToBeListed'
    <3> SUFFICES ASSUME Lists, NEW i \in Items, job.start[i] \in Active,
                        job.trail[i] \subseteq Onward
                 PROVE  (Found(i) \/ Coming(i) \/ InHand(i))'
      BY <1>1, <1>2 DEF ToBeListed, Lists
    <3>1. Found(i) \/ Coming(i) \/ InHand(i)
      BY DEF Listing1, ToBeListed
    <3>2. Coming(i) => Coming(i)'
      BY <1>1, <1>2 DEF Coming
    <3>3. i # e.item /\ InHand(i) => InHand(i)'
      BY <1>1, <1>2 DEF InHand
    <3> QED BY <2>3, <3>1, <3>2, <3>3
  <2> QED BY <1>4, <1>5, <2>4, <2>5, <2>6 DEF Listing1
<1> QED BY <1>2, <1>6, <1>7

LEMMA NextListing == Types /\ Listing1 /\ [Next]_vars => Listing1'
<1> SUFFICES ASSUME Types, Listing1, [Next]_vars
             PROVE  Listing1'
  OBVIOUS
<1>1. CASE UNCHANGED <<at, job>>
  BY <1>1 DEF Listing1, Fresh, Once, Ordered, Trails, ToBeListed, Lists, Visited, Found, Coming,
       InHand
<1>2. CASE UNCHANGED vars \/ Emit \/ Tick
  BY <1>1, <1>2 DEF vars, Emit, Tick, moved
<1>3. CASE Others
  BY <1>3, MoveListing DEF Others
<1>4. CASE ReadLog \/ Show
  <2>1. /\ at' = at /\ job.begun /\ job.entries = {} /\ job.dirs = <<>> /\ job'.shown = TRUE
        /\ job'.kind = job.kind /\ job'.begun = job.begun /\ job'.groups = job.groups
        /\ job'.start = job.start /\ job'.trail = job.trail /\ job'.dirs = job.dirs
        /\ job'.entries = job.entries
    BY <1>4, ShowJob
  <2>2. Fresh' /\ Once' /\ Ordered'
    BY <2>1 DEF Listing1, Fresh, Once, Ordered
  <2>3. Trails' /\ ToBeListed'
    BY <2>1 DEF Listing1, Trails, ToBeListed, Lists, Visited, Found, Coming, InHand
  <2> QED BY <2>2, <2>3 DEF Listing1
<1> QED BY <1>2, <1>3, <1>4, BeginListing, ReadDirListing, OpenListing DEF Next

\* An item that goes only the way items flow while a listing reads is listed once, in a group
\* it was in; one that goes on to the archive is listed too (listAllOrder, ListAll).
THEOREM FlowingIsListedOnce == ASSUME ListingAssumption PROVE Spec => []ListedOnce
<1>1. Types /\ Listing1 => ListedOnce
  <2> SUFFICES ASSUME Types, Listing1, job.shown, job.kind = "list", NEW i \in Items
               PROVE  /\ Stayed(i) /\ job.trail[i] \subseteq Forward =>
                           Cardinality(Groups(i)) = 1 /\ Groups(i) \subseteq Visited(i)
                      /\ job.start[i] \in Active
                         /\ job.trail[i] \subseteq Forward \cup {<<"done", "archived">>} =>
                           \E s \in Statuses : i \in job.groups[s]
    BY DEF ListedOnce
  <2>1. Lists /\ job.entries = {} /\ job.dirs = <<>>
    BY DEF Listing1, Ordered, Lists
  <2>2. ASSUME job.start[i] \in Active, job.trail[i] \subseteq Onward
        PROVE  Found(i)
    <3>1. Pos[at[i].status] \in 1 .. 6 /\ Len(job.dirs) = 0
      BY <2>1, PlaceStatus, Positions, EmptySeq DEF Types
    <3>2. ~Coming(i)
      BY <3>1 DEF Coming
    <3>3. ~InHand(i)
      BY <2>1 DEF InHand
    <3> QED BY <2>1, <2>2, <3>2, <3>3 DEF Listing1, ToBeListed
  <2>3. ASSUME Stayed(i), job.trail[i] \subseteq Forward
        PROVE  Cardinality(Groups(i)) = 1 /\ Groups(i) \subseteq Visited(i)
    <3>1. job.start[i] \in Active /\ job.trail[i] \subseteq Onward
      BY <2>3 DEF Stayed, Visited, Onward
    <3>2. PICK s \in Statuses : i \in job.groups[s]
      BY <2>2, <3>1 DEF Found
    <3>3. \A t \in Statuses : i \in job.groups[t] => t \in Visited(i) /\ t \in Active
      BY <2>1, <2>3 DEF Listing1, Trails, Stayed
    <3>4. Groups(i) = {s}
      BY <3>2, <3>3 DEF Groups, Listing1, Once
    <3>5. s \in Visited(i)
      BY <3>2, <3>3
    <3> QED BY <3>4, <3>5, FS_Singleton
  <2> QED BY <2>2, <2>3 DEF Found, Onward
<1>2. Spec => [](Types /\ Listing1)
  <2>1. Init => Types /\ Listing1
    BY InitTypes, InitListing
  <2>2. Types /\ Listing1 /\ [Next]_vars => (Types /\ Listing1)'
    BY NextTypes, NextListing
  <2> QED BY <2>1, <2>2, PTL DEF Spec
<1> QED BY <1>1, <1>2, PTL
-----------------------------------------------------------------------------
(***************************************************************************)
(* mg flow.  An event that counts the move of an item that is in place, or *)
(* of one that was sighted, says where that move went, and was written no  *)
(* earlier.                                                                *)
(***************************************************************************)
FlowSuffixes ==
    {<<>>, <<"done">>, <<"claimed", "done">>, <<"available", "claimed", "done">>,
     <<"pending", "available", "claimed", "done">>}

Past == \A i \in Items : since[i] <= clock /\ job.seen[i].since <= clock /\ job.seen[i].nth <= nth[i]
OwedTells(e) ==
    /\ 1 <= e.nth /\ e.nth <= nth[e.item]
    /\ e.nth = nth[e.item] => e.to = at[e.item].status
    /\ e.nth = job.seen[e.item].nth => e.to = job.seen[e.item].status
LogTells(e) ==
    /\ OwedTells(e)
    /\ e.nth = nth[e.item] => since[e.item] <= e.ts
    /\ e.nth = job.seen[e.item].nth => job.seen[e.item].since <= e.ts
Told == (\A e \in owing : OwedTells(e)) /\ (\A e \in log : LogTells(e))
InFlow ==
    job.kind = "flow" =>
      /\ job.dirs \in FlowSuffixes
      /\ \A e \in job.entries : e.place.status \in Active
      /\ \A i \in job.groups["claimed"] : job.seen[i].status = "claimed"
Quiet == ~job.shown => job.blocked = {}
Flow1 == Past /\ Told /\ InFlow /\ Quiet

LEMMA FlowStep ==
  ASSUME NEW d \in FlowSuffixes, d # <<>>
  PROVE  Head(d) \in Active /\ Tail(d) \in FlowSuffixes
<1>1. CASE d = <<"done">>
  <2>1. d \in Seq(Statuses) /\ Len(d) = 1 /\ Head(d) = "done"
    BY <1>1 DEF Statuses, Active
  <2>2. Tail(d) \in Seq(Statuses) /\ Len(Tail(d)) = 0
    BY <2>1, HeadTailProperties
  <2>3. Tail(d) = <<>>
    BY <2>2, EmptySeq
  <2> QED BY <2>1, <2>3 DEF FlowSuffixes, Active
<1>2. CASE d = <<"claimed", "done">>
  <2>1. Tail(d) = <<"done">>
    BY <1>2
  <2> QED BY <1>2, <2>1 DEF FlowSuffixes, Active
<1>3. CASE d = <<"available", "claimed", "done">>
  <2>1. Tail(d) = <<"claimed", "done">>
    BY <1>3
  <2> QED BY <1>3, <2>1 DEF FlowSuffixes, Active
<1>4. CASE d = <<"pending", "available", "claimed", "done">>
  <2>1. Tail(d) = <<"available", "claimed", "done">>
    BY <1>4
  <2> QED BY <1>4, <2>1 DEF FlowSuffixes, Active
<1> QED BY <1>1, <1>2, <1>3, <1>4, Zenon DEF FlowSuffixes

\* The latest of some times.
LEMMA LatestOf ==
  ASSUME ListingAssumption, NEW T \in SUBSET (0 .. MaxTime), T # {}
  PROVE  \E t \in T : \A u \in T : u <= t
<1> DEFINE Less == {s \in Nat \X Nat : s[1] < s[2]}
           Ago == {MaxTime - t : t \in T}
<1>1. Ago \subseteq Nat /\ Ago # {}
  <2>1. \A t \in T : MaxTime - t \in Nat
    BY DEF ListingAssumption
  <2> QED BY <2>1
<1>2. IsWellFoundedOn(Less, Nat)
  BY NatLessThanWellFounded, Zenon DEF OpToRel
<1>3. PICK k \in Ago : \A l \in Ago : <<l, k>> \notin Less
  <2> HIDE DEF Less, Ago
  <2> QED BY <1>1, <1>2, WFMin, Zenon
<1>4. PICK t \in T : k = MaxTime - t
  BY <1>3
<1>5. ASSUME NEW u \in T
      PROVE  u <= t
  <2>1. <<MaxTime - u, k>> \notin Less /\ MaxTime - u \in Nat /\ k \in Nat
    BY <1>1, <1>3
  <2>2. k <= MaxTime - u
    BY <2>1
  <2> QED BY <1>4, <2>2 DEF ListingAssumption
<1> QED BY <1>4, <1>5

LEMMA ArrivesLate ==
  ASSUME ListingAssumption, Types, NEW e \in log
  PROVE  /\ arrivedAt(e.item, e.to) \in Nat /\ e.ts \in Nat
         /\ e.ts <= arrivedAt(e.item, e.to)
<1> DEFINE T == Arrivals(e.item, e.to)
<1>1. e.ts \in T /\ T \in SUBSET (0 .. MaxTime)
  BY DEF Arrivals, Types, Event
<1>2. \E t \in T : \A u \in T : u <= t
  <2> HIDE DEF T
  <2> QED BY <1>1, LatestOf
<1>3. arrivedAt(e.item, e.to) = CHOOSE t \in T : \A u \in T : u <= t
  BY <1>1 DEF arrivedAt
<1> HIDE DEF T
<1>4. arrivedAt(e.item, e.to) \in T /\ \A u \in T : u <= arrivedAt(e.item, e.to)
  BY <1>2, <1>3
<1>5. \A u \in T : u \in Nat
  BY <1>1 DEF ListingAssumption
<1> QED BY <1>1, <1>4, <1>5

LEMMA InitFlow == ListingAssumption /\ Init => Flow1
<1> SUFFICES ASSUME ListingAssumption, Init
             PROVE  Flow1
  OBVIOUS
<1>1. PICK kind \in Kinds : job = Report(kind)
  BY DEF Init
<1>2. /\ job.dirs = <<>> /\ job.entries = {} /\ ~job.shown /\ job.blocked = {}
      /\ \A i \in Items : job.seen[i] = Unseen
      /\ \A s \in Statuses : job.groups[s] = {}
  BY <1>1 DEF Report
<1>3. "claimed" \in Statuses
  BY DEF Statuses, Active
<1>4. Past
  BY <1>2 DEF Init, Past, Unseen
<1>5. Told /\ Quiet
  BY <1>2 DEF Init, Told, Quiet
<1>6. InFlow
  BY <1>2, <1>3 DEF InFlow, FlowSuffixes
<1> QED BY <1>4, <1>5, <1>6 DEF Flow1

LEMMA MoveFlow ==
  ASSUME ListingAssumption, Types, Flow1, NEW i \in Items, NEW to \in Place, NEW told \in BOOLEAN,
         Move(i, to, told)
  PROVE  Flow1'
<1>1. /\ at' = [at EXCEPT ![i] = to]
      /\ job'.kind = job.kind /\ job'.dirs = job.dirs /\ job'.entries = job.entries
      /\ job'.groups = job.groups /\ job'.shown = job.shown /\ job'.blocked = job.blocked
      /\ job'.seen = job.seen
  <2>1. job'.kind = job.kind /\ job'.shown = job.shown /\ job'.blocked = job.blocked
    BY MoveJob
  <2>2. job'.dirs = job.dirs /\ job'.entries = job.entries /\ job'.groups = job.groups
    BY MoveJob
  <2>3. job'.seen = job.seen
    BY MoveJob
  <2>4. at' = [at EXCEPT ![i] = to]
    BY DEF Move
  <2> QED BY <2>1, <2>2, <2>3, <2>4
<1>0. PICK new : new = [item |-> i, to |-> to.status, nth |-> nth'[i]]
  OBVIOUS
<1>2. /\ nth' = [nth EXCEPT ![i] = nth[i] + 1] /\ since' = [since EXCEPT ![i] = clock]
      /\ owing' \subseteq owing \cup {new} /\ log' = log /\ clock' = clock
  BY <1>0 DEF Move
<1>3. /\ at \in [Items -> Place] /\ nth \in [Items -> Nat] /\ since \in [Items -> 0 .. MaxTime]
      /\ clock \in Nat /\ job.seen \in [Items -> Sighting]
      /\ \A e \in owing : e.item \in Items /\ e.nth \in Nat
      /\ \A e \in log : e.item \in Items /\ e.nth \in Nat
  BY DEF Types, Job, Debt, Event, ListingAssumption
<1>4. \A k \in Items : job.seen[k].nth \in Nat /\ job.seen[k].since \in Nat
  BY <1>3 DEF Sighting, ListingAssumption
<1>5. Past'
  BY <1>1, <1>2, <1>3, <1>4 DEF Flow1, Past
<1>6. InFlow' /\ Quiet'
  BY <1>1 DEF Flow1, InFlow, Quiet
<1>7. new.item = i /\ new.to = to.status /\ new.nth = nth[i] + 1
  BY <1>0, <1>2, <1>3
<1>8. OwedTells(new)'
  <2>1. nth'[i] = nth[i] + 1 /\ at'[i] = to /\ job'.seen[i].nth < nth[i] + 1
    BY <1>1, <1>2, <1>3, <1>4 DEF Flow1, Past
  <2> QED BY <1>3, <1>4, <1>7, <2>1, <1>2 DEF OwedTells
<1>9. ASSUME NEW e, e.item \in Items, e.nth \in Nat, OwedTells(e)
      PROVE  OwedTells(e)' /\ (e.nth = nth'[e.item] => nth'[e.item] = nth[e.item] /\ e.item # i)
  BY <1>1, <1>2, <1>3, <1>9 DEF OwedTells
<1>10. \A e \in owing' : OwedTells(e)'
  <2>1. ASSUME NEW e \in owing
        PROVE  OwedTells(e)'
    BY <1>3, <1>9 DEF Flow1, Told
  <2> QED BY <1>2, <1>8, <2>1
<1>11. ASSUME NEW e \in log
       PROVE  LogTells(e)'
  <2>1. LogTells(e) /\ OwedTells(e)
    BY DEF Flow1, Told, LogTells
  <2>2. OwedTells(e)' /\ (e.nth = nth'[e.item] => nth'[e.item] = nth[e.item] /\ e.item # i)
    BY <1>3, <1>9, <2>1
  <2> QED BY <1>1, <1>2, <1>3, <2>1, <2>2 DEF LogTells
<1> QED BY <1>2, <1>5, <1>6, <1>10, <1>11 DEF Flow1, Told

LEMMA EventFlow ==
  ASSUME ListingAssumption, Types, Flow1, Emit \/ Tick
  PROVE  Flow1'
<1>1. at' = at /\ nth' = nth /\ since' = since /\ job' = job
  BY DEF Emit, Tick, moved
<1>2. InFlow' /\ Quiet'
  BY <1>1 DEF Flow1, InFlow, Quiet
<1>3. \A e : /\ OwedTells(e) => OwedTells(e)'
             /\ LogTells(e) => LogTells(e)'
  BY <1>1 DEF OwedTells, LogTells
<1>4. CASE Emit
  <2>1. PICK e \in owing :
          /\ log' = log \cup {[item |-> e.item, to |-> e.to, ts |-> clock, nth |-> e.nth]}
          /\ owing' = owing \ {e} /\ clock' = clock
    BY <1>4 DEF Emit
  <2> DEFINE new == [item |-> e.item, to |-> e.to, ts |-> clock, nth |-> e.nth]
  <2>2. new.item = e.item /\ new.to = e.to /\ new.ts = clock /\ new.nth = e.nth
    OBVIOUS
  <2> HIDE DEF new
  <2>3. OwedTells(e) /\ e.item \in Items
    BY DEF Flow1, Told, Types, Debt
  <2>4. LogTells(new)
    BY <2>2, <2>3 DEF LogTells, OwedTells, Flow1, Past
  <2>5. Told'
    BY <1>3, <2>1, <2>4 DEF Flow1, Told, new
  <2>6. Past'
    BY <1>1, <2>1 DEF Flow1, Past
  <2> QED BY <1>2, <2>5, <2>6 DEF Flow1
<1>5. CASE Tick
  <2>1. clock' = clock + 1 /\ owing' = owing /\ log' = log
    BY <1>5 DEF Tick
  <2>2. Told'
    BY <1>3, <2>1 DEF Flow1, Told
  <2>3. \A i \in Items : since[i] \in Nat /\ job.seen[i].since \in Nat /\ clock \in Nat
    BY DEF Types, Job, Sighting, ListingAssumption
  <2>4. Past'
    BY <1>1, <2>1, <2>3 DEF Flow1, Past
  <2> QED BY <1>2, <2>2, <2>4 DEF Flow1
<1> QED BY <1>4, <1>5

\* A step of the report that sights nothing.
LEMMA Unsighted ==
  ASSUME Flow1, job'.seen = job.seen, UNCHANGED <<at, nth, since, log, owing, clock>>
  PROVE  Past' /\ Told'
BY DEF Flow1, Past, Told, OwedTells, LogTells

LEMMA ReadFlow == ASSUME Types, Flow1, Begin \/ ReadDir PROVE Flow1'
<1>1. UNCHANGED <<at, nth, since, log, owing, clock>>
  BY DEF Begin, ReadDir, moved
<1>2. CASE Begin
  <2>1. /\ job'.kind = job.kind /\ job'.dirs = Order(job.kind) /\ job'.entries = job.entries
        /\ job'.groups = job.groups /\ job'.seen = job.seen
        /\ job'.shown = job.shown /\ job'.blocked = job.blocked
    BY <1>2, BeginJob
  <2>2. InFlow' /\ Quiet'
    BY <2>1, Orders DEF Flow1, InFlow, Quiet, FlowSuffixes
  <2> QED BY <1>1, <2>1, <2>2, Unsighted DEF Flow1
<1>3. CASE ReadDir
  <2>1. /\ job.dirs # <<>> /\ job'.dirs = Tail(job.dirs) /\ job'.kind = job.kind
        /\ job'.entries = {[item |-> i, place |-> at[i]] :
                             i \in {j \in Items : at[j].status = Head(job.dirs)}}
        /\ job'.groups = job.groups /\ job'.seen = job.seen
        /\ job'.shown = job.shown /\ job'.blocked = job.blocked
    BY <1>3, ReadDirJob
  <2>2. Quiet'
    BY <2>1 DEF Flow1, Quiet
  <2>3. \A e \in job'.entries : e.place.status = Head(job.dirs)
    BY <2>1
  <2>4. InFlow'
    BY <2>1, <2>3, FlowStep DEF Flow1, InFlow
  <2> QED BY <1>1, <2>1, <2>2, <2>4, Unsighted DEF Flow1
<1> QED BY <1>2, <1>3

LEMMA OpenFlow == ASSUME ListingAssumption, Types, Flow1, Open PROVE Flow1'
<1>1. UNCHANGED <<at, nth, since, log, owing, clock>>
  BY DEF Open, moved
<1>2. PICK e \in job.entries :
        /\ job'.entries = job.entries \ {e} /\ job'.kind = job.kind /\ job'.dirs = job.dirs
        /\ job'.shown = job.shown /\ job'.blocked = job.blocked
        /\ \/ at[e.item] # e.place /\ job'.groups = job.groups /\ job'.seen = job.seen
           \/ /\ at[e.item] = e.place
              /\ job'.groups = Sighted(job.groups, e.place.status, e.item)
              /\ job'.seen = [job.seen EXCEPT ![e.item] =
                   [status |-> e.place.status, since |-> since[e.item], nth |-> nth[e.item]]]
  BY OpenCases
<1>3. /\ e.item \in Items /\ job.groups \in [Statuses -> SUBSET Items]
      /\ job.seen \in [Items -> Sighting] /\ nth \in [Items -> Nat]
      /\ \A f \in owing \cup log : f.item \in Items
  BY DEF Types, Job, Entry, Debt, Event
<1>4. Quiet'
  BY <1>2 DEF Flow1, Quiet
<1>5. CASE job'.groups = job.groups /\ job'.seen = job.seen
  <2>1. InFlow'
    BY <1>2, <1>5 DEF Flow1, InFlow
  <2> QED BY <1>1, <1>4, <1>5, <2>1, Unsighted DEF Flow1
<1>6. CASE /\ at[e.item] = e.place
           /\ job'.groups = Sighted(job.groups, e.place.status, e.item)
           /\ job'.seen = [job.seen EXCEPT ![e.item] =
                [status |-> e.place.status, since |-> since[e.item], nth |-> nth[e.item]]]
  <2>1. /\ \A i \in Items : i # e.item => job'.seen[i] = job.seen[i]
        /\ job'.seen[e.item].status = at[e.item].status
        /\ job'.seen[e.item].since = since[e.item] /\ job'.seen[e.item].nth = nth[e.item]
    BY <1>3, <1>6
  <2>2. Past'
    <3>1. \A i \in Items : nth[i] <= nth[i]
      BY <1>3
    <3> QED BY <1>1, <2>1, <3>1 DEF Flow1, Past
  <2>3. \A f : f.item \in Items => (OwedTells(f) => OwedTells(f)') /\ (LogTells(f) => LogTells(f)')
    BY <1>1, <2>1 DEF OwedTells, LogTells
  <2>4. Told'
    BY <1>1, <1>3, <2>3 DEF Flow1, Told
  <2>5. InFlow'
    <3> SUFFICES ASSUME job.kind = "flow", NEW i \in job'.groups["claimed"]
                 PROVE  job'.seen[i].status = "claimed"
      BY <1>2 DEF Flow1, InFlow
    <3>1. "claimed" \in Statuses /\ "claimed" \in Active /\ e.place.status \in Active
      BY DEF Statuses, Active, Flow1, InFlow
    <3>2. job'.groups["claimed"] =
            IF "claimed" = e.place.status THEN job.groups["claimed"] \cup {e.item}
            ELSE job.groups["claimed"] \ {e.item}
      BY <1>6, <3>1 DEF Sighted
    <3>3. i \in Items
      BY <1>3, <3>1, <3>2
    <3>4. CASE i = e.item
      BY <1>6, <2>1, <3>2, <3>4
    <3>5. CASE i # e.item
      BY <2>1, <3>2, <3>3, <3>5 DEF Flow1, InFlow
    <3> QED BY <3>4, <3>5
  <2> QED BY <1>4, <2>2, <2>4, <2>5 DEF Flow1
<1> QED BY <1>2, <1>5, <1>6

LEMMA ShowFlow ==
  ASSUME ListingAssumption, Types, Flow1, ~job.shown, ReadLog \/ Show
  PROVE  Flow1' /\ BlockedIsOld'
<1>1. UNCHANGED <<at, nth, since, log, owing, clock>>
  BY DEF ReadLog, Show, moved
<1>2. /\ job'.shown = TRUE /\ job'.kind = job.kind /\ job'.groups = job.groups
      /\ job'.dirs = job.dirs /\ job'.entries = job.entries /\ job'.seen = job.seen
      /\ job'.now = job.now
      /\ \/ job.kind = "flow" /\ job'.blocked = computeBlocked(job.groups["claimed"], job.now)
         \/ job.kind # "flow" /\ job'.blocked = job.blocked
  BY ShowJob
<1>3. InFlow' /\ Quiet'
  BY <1>2 DEF Flow1, InFlow, Quiet
<1>4. CASE job.kind # "flow"
  <2>1. job'.blocked = {}
    BY <1>2, <1>4 DEF Flow1, Quiet
  <2>2. BlockedIsOld'
    BY <2>1 DEF BlockedIsOld
  <2> QED BY <1>1, <1>2, <1>3, <2>2, Unsighted DEF Flow1
<1>5. CASE job.kind = "flow"
  <2> SUFFICES ASSUME NEW i \in computeBlocked(job.groups["claimed"], job.now),
                      NEW e \in log, e.item = i, e.nth = job.seen[i].nth
               PROVE  job.seen[i].since + BlockedAfter <= job.now
    <3>1. BlockedIsOld'
      <4> SUFFICES ASSUME NEW i \in job'.blocked, NEW e \in log', e.item = i, e.nth = job'.seen[i].nth
                   PROVE  job'.seen[i].since + BlockedAfter <= job'.now
        BY DEF BlockedIsOld
      <4>1. i \in computeBlocked(job.groups["claimed"], job.now) /\ e \in log
        BY <1>1, <1>2, <1>5
      <4> QED BY <1>2, <4>1
    <3> QED BY <1>1, <1>2, <1>3, <3>1, Unsighted DEF Flow1
  <2>1. i \in job.groups["claimed"] /\ arrivedAt(i, "claimed") + BlockedAfter <= job.now
    BY DEF computeBlocked
  <2>2. job.seen[i].status = "claimed"
    BY <1>5, <2>1 DEF Flow1, InFlow
  <2>3. e.to = "claimed" /\ job.seen[i].since <= e.ts
    BY <2>2 DEF Flow1, Told, LogTells, OwedTells
  <2>4. e.ts <= arrivedAt(i, "claimed") /\ arrivedAt(i, "claimed") \in Nat /\ e.ts \in Nat
    BY <2>3, ArrivesLate
  <2>5. i \in Items /\ job.seen[i].since \in Nat /\ job.now \in Nat /\ BlockedAfter \in Nat
    BY DEF Types, Event, Job, Sighting, ListingAssumption
  <2> QED BY <2>1, <2>3, <2>4, <2>5
<1> QED BY <1>4, <1>5

LEMMA NextFlow ==
  ListingAssumption /\ Types /\ Flow1 /\ BlockedIsOld /\ [Next]_vars => Flow1' /\ BlockedIsOld'
<1> SUFFICES ASSUME ListingAssumption, Types, Flow1, BlockedIsOld, [Next]_vars
             PROVE  Flow1' /\ BlockedIsOld'
  OBVIOUS
<1>1. CASE UNCHANGED vars
  <2>1. job' = job /\ UNCHANGED <<at, nth, since, log, owing, clock>>
    BY <1>1 DEF vars
  <2>2. Past' /\ Told'
    BY <2>1, Unsighted
  <2> QED BY <2>1, <2>2 DEF Flow1, InFlow, Quiet, BlockedIsOld
<1>2. CASE Next /\ (Others \/ Emit \/ Tick \/ Begin \/ ReadDir \/ Open)
  <2>1. ~job.shown
    BY <1>2 DEF Next
  <2>2. job'.shown = job.shown
    <3>1. CASE Others
      BY <3>1, MoveJob DEF Others
    <3>2. CASE Emit \/ Tick
      BY <3>2 DEF Emit, Tick
    <3>3. CASE Begin \/ ReadDir
      BY <3>3, BeginJob, ReadDirJob
    <3>4. CASE Open
      BY <3>4, OpenCases
    <3> QED BY <1>2, <3>1, <3>2, <3>3, <3>4
  <2>3. BlockedIsOld'
    BY <2>1, <2>2 DEF BlockedIsOld
  <2>4. Flow1'
    BY <1>2, MoveFlow, EventFlow, ReadFlow, OpenFlow DEF Others
  <2> QED BY <2>3, <2>4
<1>3. CASE Next /\ (ReadLog \/ Show)
  BY <1>3, ShowFlow DEF Next
<1> QED BY <1>1, <1>2, <1>3 DEF Next

\* What mg flow reports as blocked has been in claimed/ for as long as it says, unless the
\* event of the claim it saw was not written (computeBlocked, arrivedAt).
THEOREM BlockedIsLongClaimed == ASSUME ListingAssumption PROVE Spec => []BlockedIsOld
<1>1. Init => Types /\ Flow1 /\ BlockedIsOld
  <2>1. Init => BlockedIsOld
    BY DEF Init, Report, BlockedIsOld
  <2> QED BY <2>1, InitTypes, InitFlow
<1>2. Types /\ Flow1 /\ BlockedIsOld /\ [Next]_vars => (Types /\ Flow1 /\ BlockedIsOld)'
  BY NextTypes, NextFlow
<1> QED BY <1>1, <1>2, PTL DEF Spec

\* What a report has read, and what it shows, are items, places and sightings, whatever the
\* commands beside it do (ListAll, computeFlow).
THEOREM ListingTypes == ASSUME ListingAssumption PROVE Spec => []TypeOK
<1>1. Types => TypeOK
  BY DEF Types, Job, Entry, Debt, TypeOK
<1>2. Init => Types
  BY InitTypes
<1>3. Types /\ [Next]_vars => Types'
  BY NextTypes
<1> QED BY <1>1, <1>2, <1>3, PTL DEF Spec
=============================================================================
