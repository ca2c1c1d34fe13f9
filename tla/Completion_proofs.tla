-------------------------- MODULE Completion_proofs --------------------------
(* Completion: that a succession is named before it is inherited, that what a   *)
(* command completes or archives is linked both ways, that nothing owed is put  *)
(* away, and that a recorded result stays with its item, for any items,         *)
(* processes and bounds.                                                        *)
EXTENDS Completion, TLAPS

Calls == {"none", "done", "archive", "sweep"}
Steps == {"idle", "prior", "prior_done", "write", "check", "link", "back", "move", "next"}
Command ==
  [call : Calls, step : Steps, item : Items \cup {"none"}, successor : Items \cup {"none"},
   flag : BOOLEAN, mine : SUBSET Labels, todo : SUBSET Items,
   sweep : SUBSET (Items \X SUBSET Labels), prior : SUBSET Keys, still : SUBSET Items,
   base : SUBSET Keys, missed : SUBSET Items]

\* A result that is no object has nothing else in it.
Whole(r) == "opaque" \in r => r = {"opaque"}

Types ==
  /\ at \in [Items -> Dirs \cup {"none"}]
  /\ tags \in [Items -> SUBSET Labels]
  /\ result \in [Items -> [Dirs -> SUBSET Keys]]
  /\ \A i \in Items, d \in Dirs : Whole(result[i][d])
  /\ kept \in [Items -> SUBSET Keys]
  /\ cmd \in [Processes -> Command]

\* The same tags, whatever links back there are.
Same(t, u) == \A l \in Labels \ Inherited : l \in t <=> l \in u

\* What a process knows of the items it works on, by its step.
Shaped(c) ==
  /\ c.call # "none" => c.item \in Items /\ c.step # "idle"
  /\ c.call \in {"done", "archive"} => c.sweep = {}
  /\ c.step \in {"check", "link"} => c.successor \in Items
  /\ c.step = "move" => c.todo = {} /\ Passes(c)
  /\ c.call = "sweep" => /\ Archivable(c.item, c.mine)
                         /\ \A e \in c.sweep : Archivable(e[1], e[2])
                         /\ c.step \in {"back", "next"}

\* Whatever it has in hand was named,
Told(c) ==
  /\ \A j \in SuccessorIDs(c.mine) \cup c.todo : <<c.item, j>> \in named
  /\ \A e \in c.sweep : \A j \in SuccessorIDs(e[2]) : <<e[1], j>> \in named

\* ... is what the item has still, if nobody else has touched it,
Current(c) ==
  /\ c.item \in c.still => Same(c.mine, tags[c.item])
  /\ \A e \in c.sweep : e[1] \in c.still => Same(e[2], tags[e[1]])

\* ... and every successor has been linked back, is still to be, or was reported.
Linked(c) ==
  c.step \in {"back", "move"} /\ c.item \in c.still =>
    \A j \in SuccessorIDs(tags[c.item]) :
      j \in c.todo \/ j \in c.missed \/ Pred(c.item) \in tags[j]

InHand(c) == Shaped(c) /\ Told(c) /\ Current(c) /\ Linked(c)

Recorded == \A i \in Items : \A j \in SuccessorIDs(tags[i]) : <<i, j>> \in named

Inv == Types /\ Recorded /\ NoFalseInheritance /\ \A p \in Processes : InHand(cmd[p])

-------------------------------------------------------------------------------
\* Labels are what they say and whom they name (the constructors of remainder.go,
\* blockedon.go, successor.go and predecessor.go).
LEMMA LabelsDiffer ==
  ASSUME NEW i \in Items, NEW j \in Items, CompletionAssumption
  PROVE  /\ Succ(i) \in Labels \ Inherited /\ Pred(i) \in Labels
         /\ Declares \in Labels \ Inherited /\ Blocked \in Labels \ Inherited
         /\ Succ(i) # Pred(j) /\ Succ(i) # Declares /\ Succ(i) # Blocked
         /\ Pred(i) # Declares /\ Pred(i) # Blocked
         /\ Succ(i) = Succ(j) => i = j
         /\ Pred(i) = Pred(j) => i = j
BY DEF Labels, Inherited, Succ, Pred, Declares, Blocked

\* What the guards and the links read of two tag sets that are the same.
LEMMA SameRead ==
  ASSUME NEW t, NEW u, Same(t, u), CompletionAssumption
  PROVE  /\ SuccessorIDs(t) = SuccessorIDs(u)
         /\ Declares \in t <=> Declares \in u
         /\ Blocked \in t <=> Blocked \in u
         /\ Tracked(t) <=> Tracked(u)
<1>1. SuccessorIDs(t) = SuccessorIDs(u)
  BY LabelsDiffer DEF Same, SuccessorIDs
<1>2. /\ Declares \in t <=> Declares \in u
      /\ Blocked \in t <=> Blocked \in u
  BY DEF Same, Labels, Inherited, Declares, Blocked, Pred
<1> QED BY <1>1, <1>2 DEF Tracked

\* What no step takes back: items, names and links back.
Grows ==
  /\ \A k \in Items : Exists(k) => Exists(k)'
  /\ named \subseteq named'
  /\ \A k \in Items : tags[k] \cap Inherited \subseteq tags'[k]

Keeps(q, S) == cmd'[q] = [cmd[q] EXCEPT !.still = S]

\* A process that does nothing itself knows no less, of the items it can still
\* count on.
LEMMA OtherInHand ==
  ASSUME CompletionAssumption, Types, Types', Grows,
         NEW q \in Processes, InHand(cmd[q]), NEW S, Keeps(q, S), S \subseteq cmd[q].still,
         \A k \in S : Same(tags[k], tags'[k])
  PROVE  InHand(cmd[q])'
<1> DEFINE c == cmd[q]  d == cmd'[q]
<1>1. /\ c \in Command /\ d \in Command
      /\ d.call = c.call /\ d.step = c.step /\ d.item = c.item /\ d.successor = c.successor
      /\ d.flag = c.flag /\ d.mine = c.mine /\ d.todo = c.todo /\ d.sweep = c.sweep
      /\ d.missed = c.missed /\ d.prior = c.prior /\ d.base = c.base /\ d.still = S
  <2>1. c \in Command /\ d \in Command
    BY DEF Types
  <2>2. d = [c EXCEPT !.still = S]
    BY DEF Keeps
  <2> HIDE DEF c, d
  <2> QED BY <2>1, <2>2 DEF Command
<1>2. S \subseteq Items
  BY <1>1 DEF Command
<1>3. ASSUME NEW t \in SUBSET Labels, Tracked(t)
      PROVE  Tracked(t)'
  BY <1>3 DEF Tracked, Grows, SuccessorIDs
<1>4. Shaped(c) => Shaped(c)'
  <2>2. Passes(c) => Passes(c)'
    BY <1>1, <1>3 DEF Passes, Discharged, Archivable, Command
  <2>3. \A i \in Items, t \in SUBSET Labels : Archivable(i, t) => Archivable(i, t)'
    BY <1>3 DEF Archivable, Discharged
  <2>4. c.call = "sweep" /\ Shaped(c) =>
          Archivable(c.item, c.mine)' /\ \A e \in d.sweep : Archivable(e[1], e[2])'
    BY <1>1, <2>3 DEF Shaped, Command
  <2> QED BY <1>1, <2>2, <2>4 DEF Shaped
<1>5. Told(c) => Told(c)'
  BY <1>1 DEF Told, Grows, SuccessorIDs
<1>6. Current(c) => Current(c)'
  <2> SUFFICES ASSUME Current(c) PROVE Current(c)'
    OBVIOUS
  <2>1. ASSUME NEW t, NEW k \in S, Same(t, tags[k])
        PROVE  Same(t, tags'[k])
    BY <2>1 DEF Same
  <2> QED BY <1>1, <2>1 DEF Current, Same
<1>7. Linked(c) => Linked(c)'
  <2> SUFFICES ASSUME Linked(c), d.step \in {"back", "move"}, d.item \in S,
                      NEW j \in SuccessorIDs(tags'[d.item])
               PROVE  j \in d.todo \/ j \in d.missed \/ Pred(d.item) \in tags'[j]
    BY <1>1 DEF Linked, SuccessorIDs
  <2>1. d.item \in Items /\ j \in Items
    BY <1>2 DEF SuccessorIDs
  <2>2. j \in SuccessorIDs(tags[d.item])
    BY <2>1, SameRead
  <2>3. j \in c.todo \/ j \in c.missed \/ Pred(c.item) \in tags[j]
    BY <1>1, <2>2 DEF Linked
  <2>4. Pred(c.item) \in tags[j] => Pred(c.item) \in tags'[j]
    BY <1>1, <2>1 DEF Grows, Inherited
  <2> QED BY <1>1, <2>3, <2>4
<1> QED BY <1>4, <1>5, <1>6, <1>7 DEF InHand

LEMMA IdleInHand ==
  ASSUME CompletionAssumption
  PROVE  Idle \in Command /\ InHand(Idle)
<1>1. Idle \in Command
  BY DEF Idle, Command, Calls, Steps, NoResult
<1> QED
  BY <1>1 DEF Idle, InHand, Shaped, Told, Current, Linked, SuccessorIDs, CompletionAssumption

\* What is in hand stays so where tags, places and names do.
LEMMA Carried ==
  ASSUME NEW q \in Processes, InHand(cmd'[q]), UNCHANGED <<at, tags, named>>
  PROVE  InHand(cmd[q])'
BY DEF InHand, Shaped, Told, Current, Linked, SuccessorIDs, Passes, Discharged, Archivable,
       Tracked, Exists, Same

\* A step of p that changes nothing but what p has in hand, soundly.
LEMMA QuietStep ==
  ASSUME CompletionAssumption, Inv, UNCHANGED <<at, tags, result, history>>,
         NEW p \in Processes, NEW d \in Command, InHand(d), Step(p, d)
  PROVE  Inv'
<1>1. Types'
  BY DEF Inv, Types, Step, history
<1>2. cmd'[p] = d /\ \A q \in Processes \ {p} : cmd'[q] = cmd[q]
  BY DEF Inv, Types, Step
<1>3. Recorded' /\ NoFalseInheritance'
  BY DEF Inv, Recorded, NoFalseInheritance, SuccessorIDs, history
<1>4. ASSUME NEW q \in Processes
      PROVE  InHand(cmd[q])'
  <2>1. InHand(cmd'[q])
    BY <1>2, <1>4 DEF Inv
  <2> QED BY <2>1, Carried DEF history
<1> QED BY <1>1, <1>3, <1>4 DEF Inv

\* A step that touches the tags or the place of i.  All but p learn that they can no
\* longer count on i, or else its tags are the same as before.
LEMMA TouchingStep ==
  ASSUME CompletionAssumption, Inv, Types', Grows, Recorded', NoFalseInheritance',
         NEW i \in Items, \A k \in Items \ {i} : Same(tags[k], tags'[k]),
         \A q \in Processes :
            \/ InHand(cmd[q])'
            \/ Keeps(q, cmd[q].still \ {i})
            \/ cmd'[q] = cmd[q] /\ Same(tags[i], tags'[i])
  PROVE  Inv'
<1> SUFFICES ASSUME NEW q \in Processes PROVE InHand(cmd[q])'
  BY DEF Inv
<1>1. cmd[q] \in Command /\ InHand(cmd[q]) /\ cmd[q].still \subseteq Items
  BY DEF Inv, Types, Command
<1>2. CASE Keeps(q, cmd[q].still \ {i})
  BY <1>1, <1>2, OtherInHand DEF Inv
<1>3. CASE cmd'[q] = cmd[q] /\ Same(tags[i], tags'[i])
  <2>1. Keeps(q, cmd[q].still)
    BY <1>1, <1>3 DEF Keeps, Command
  <2>2. \A k \in cmd[q].still : Same(tags[k], tags'[k])
    BY <1>1, <1>3
  <2> QED BY <1>1, <2>1, <2>2, OtherInHand DEF Inv
<1> QED BY <1>2, <1>3

-------------------------------------------------------------------------------
\* The steps that read: what the process takes in hand is what is there.

LEMMA LinkingInHand ==
  ASSUME CompletionAssumption, NEW d \in Command,
         d.call \in {"done", "archive"}, d.item \in Items, d.sweep = {},
         d.todo = SuccessorIDs(d.mine), d.step \in {"back", "check"},
         d.step = "check" => d.successor # "none",
         \A j \in SuccessorIDs(d.mine) : <<d.item, j>> \in named,
         d.item \in d.still => Same(d.mine, tags[d.item])
  PROVE  InHand(d)
<1>1. Shaped(d)
  BY DEF Shaped, Command
<1>2. Told(d) /\ Current(d)
  BY DEF Told, Current
<1>3. Linked(d)
  BY SameRead DEF Linked
<1> QED BY <1>1, <1>2, <1>3 DEF InHand

\* What a command reads of an item as it starts.
LEMMA FreshRead ==
  ASSUME Inv, NEW i \in Items
  PROVE  /\ tags[i] \in SUBSET Labels /\ Same(tags[i], tags[i])
         /\ \A j \in SuccessorIDs(tags[i]) : <<i, j>> \in named
BY DEF Inv, Types, Recorded, Same

LEMMA DoneStep ==
  ASSUME CompletionAssumption, Inv, NEW p \in Processes, NEW i \in Finished, Done(p, i)
  PROVE  Inv'
<1>1. PICK flag \in BOOLEAN, s \in Items \cup {"none"} :
        LET c == [Idle EXCEPT !.call = "done", !.item = i, !.flag = flag, !.successor = s,
                              !.mine = tags[i], !.step = "prior"] IN
        Begin(p, IF flag THEN c ELSE LinkStep(c))
  BY DEF Done
<1> DEFINE b == [Idle EXCEPT !.call = "done", !.item = i, !.flag = flag, !.successor = s,
                             !.mine = tags[i], !.step = "prior"]
           c == [b EXCEPT !.still = Items]
           d == [LinkStep(b) EXCEPT !.still = Items]
<1>2. i \in Items
  BY DEF CompletionAssumption
<1>3. c \in Command
  BY <1>2, FreshRead DEF Command, Idle, Calls, Steps, NoResult
<1>4. /\ c.call = "done" /\ c.step = "prior" /\ c.item = i /\ c.sweep = {} /\ c.mine = tags[i]
      /\ c.todo = {} /\ c.still = Items /\ c.missed = {}
  BY DEF Idle
<1>5. InHand(c)
  BY <1>2, <1>4, FreshRead DEF InHand, Shaped, Told, Current, Linked
<1>6. /\ d \in Command
      /\ d.call = "done" /\ d.item = i /\ d.sweep = {} /\ d.mine = tags[i] /\ d.still = Items
      /\ d.todo = SuccessorIDs(tags[i]) /\ d.step \in {"back", "check"}
      /\ d.step = "check" => d.successor # "none"
  BY <1>2, FreshRead, ZenonT(40) DEF LinkStep, Idle, Command, Calls, Steps, NoResult, SuccessorIDs
<1>7. InHand(d)
  BY <1>2, <1>6, FreshRead, LinkingInHand
<1>8. Step(p, c) \/ Step(p, d)
  BY <1>1 DEF Begin
<1>9. UNCHANGED <<at, tags, result, history>>
  BY <1>1 DEF Begin
<1> HIDE DEF c, d
<1> QED BY <1>3, <1>5, <1>6, <1>7, <1>8, <1>9, QuietStep

LEMMA ArchiveItemStep ==
  ASSUME CompletionAssumption, Inv, NEW p \in Processes, NEW i \in Finished, ArchiveItem(p, i)
  PROVE  Inv'
<1>1. PICK flag \in BOOLEAN, s \in Items \cup {"none"} :
        Begin(p, LinkStep([Idle EXCEPT !.call = "archive", !.item = i, !.flag = flag,
                                       !.successor = s, !.mine = tags[i]]))
  BY DEF ArchiveItem
<1> DEFINE b == [Idle EXCEPT !.call = "archive", !.item = i, !.flag = flag,
                             !.successor = s, !.mine = tags[i]]
           d == [LinkStep(b) EXCEPT !.still = Items]
<1>2. i \in Items
  BY DEF CompletionAssumption
<1>3. /\ d \in Command
      /\ d.call = "archive" /\ d.item = i /\ d.sweep = {} /\ d.mine = tags[i] /\ d.still = Items
      /\ d.todo = SuccessorIDs(tags[i]) /\ d.step \in {"back", "check"}
      /\ d.step = "check" => d.successor # "none"
  BY <1>2, FreshRead, ZenonT(40) DEF LinkStep, Idle, Command, Calls, Steps, NoResult, SuccessorIDs
<1>4. InHand(d)
  BY <1>2, <1>3, FreshRead, LinkingInHand
<1>5. Step(p, d) /\ UNCHANGED <<at, tags, result, history>>
  BY <1>1 DEF Begin
<1> HIDE DEF d
<1> QED BY <1>3, <1>4, <1>5, QuietStep

\* A step that only looks, or goes on to the next one.
LEMMA ProceedInHand ==
  ASSUME NEW c \in Command, InHand(c), NEW d \in Command, c.call \in {"done", "archive"},
         d.call = c.call, d.item = c.item, d.mine = c.mine, d.todo = c.todo, d.sweep = c.sweep,
         d.still = c.still, d.successor \in Items \/ d.step # "link",
         d.step \in {"prior_done", "write", "link"}
  PROVE  InHand(d)
BY DEF InHand, Shaped, Told, Current, Linked

LEMMA LookingSteps ==
  ASSUME CompletionAssumption, Inv, NEW p \in Processes,
         \/ ReadPrior(p) \/ ReadPriorDone(p) \/ Unmergeable(p) \/ CheckSuccessor(p)
         \/ LinkRaced(p) \/ Guard(p)
  PROVE  Inv'
<1> DEFINE c == cmd[p]
<1>1. c \in Command /\ InHand(c) /\ Idle \in Command /\ InHand(Idle)
  BY IdleInHand DEF Inv, Types
<1>2. c.call # "none" => c.item \in Items
  BY <1>1 DEF InHand, Shaped
<1>3. UNCHANGED <<at, tags, result, history>>
  BY DEF ReadPrior, ReadPriorDone, Unmergeable, CheckSuccessor, LinkRaced, Guard
<1>4. CASE Quit(p)
  BY <1>1, <1>3, <1>4, QuietStep DEF Quit
<1>5. CASE ReadPrior(p)
  <2> DEFINE d == [c EXCEPT !.base = IF at[c.item] = "claimed" THEN kept[c.item] ELSE {},
                            !.prior = result[c.item]["claimed"],
                            !.step = IF result[c.item]["claimed"] = NoResult
                                       THEN "prior_done" ELSE "write"]
  <2>1. c.call = "done" /\ Step(p, d)
    BY <1>5 DEF ReadPrior, At
  <2>2. result[c.item]["claimed"] \in SUBSET Keys /\ kept[c.item] \in SUBSET Keys
    BY <1>2, <2>1 DEF Inv, Types, Dirs
  <2>3. d \in Command
    BY <1>1, <2>2, ZenonT(40) DEF Command, Steps
  <2>4. InHand(d)
    BY <1>1, <2>1, <2>3, ProceedInHand DEF Command
  <2> HIDE DEF d
  <2> QED BY <1>3, <2>1, <2>3, <2>4, QuietStep
<1>6. CASE ReadPriorDone(p)
  <2> DEFINE d == [c EXCEPT !.prior = result[c.item]["done"], !.step = "write",
                            !.base = IF c.item \in c.still THEN @ ELSE {}]
  <2>1. c.call = "done" /\ Step(p, d)
    BY <1>6 DEF ReadPriorDone, At
  <2>2. result[c.item]["done"] \in SUBSET Keys
    BY <1>2, <2>1 DEF Inv, Types, Dirs
  <2>3. d \in Command
    BY <1>1, <2>2, ZenonT(40) DEF Command, Steps
  <2>4. InHand(d)
    BY <1>1, <2>1, <2>3, ProceedInHand DEF Command
  <2> HIDE DEF d
  <2> QED BY <1>3, <2>1, <2>3, <2>4, QuietStep
<1>7. CASE CheckSuccessor(p) /\ ~Quit(p)
  <2> DEFINE d == [c EXCEPT !.step = "link"]
  <2>1. c.call \in {"done", "archive"} /\ c.step = "check" /\ Step(p, d)
    BY <1>7 DEF CheckSuccessor, At
  <2>2. d \in Command /\ c.successor \in Items
    BY <1>1, <2>1 DEF Command, Steps, InHand, Shaped
  <2>3. InHand(d)
    BY <1>1, <2>1, <2>2, ProceedInHand DEF Command
  <2> HIDE DEF d
  <2> QED BY <1>3, <2>1, <2>2, <2>3, QuietStep
<1>8. CASE Guard(p) /\ ~Quit(p)
  <2> DEFINE d == [c EXCEPT !.step = "move"]
  <2>1. /\ c.call \in {"done", "archive"} /\ c.step = "back" /\ c.todo = {} /\ Passes(c)
        /\ Step(p, d)
    BY <1>8 DEF Guard, At
  <2>2. d \in Command
    BY <1>1 DEF Command, Steps
  <2>3. /\ d.call = c.call /\ d.item = c.item /\ d.mine = c.mine /\ d.todo = c.todo
        /\ d.sweep = c.sweep /\ d.still = c.still /\ d.missed = c.missed /\ d.flag = c.flag
        /\ d.step = "move"
    BY <1>1 DEF Command
  <2>4. Passes(d)
    BY <2>1, <2>3 DEF Passes
  <2> HIDE DEF d
  <2>5. InHand(d)
    BY <1>1, <2>1, <2>3, <2>4 DEF InHand, Shaped, Told, Current, Linked
  <2> QED BY <1>3, <2>1, <2>2, <2>5, QuietStep
<1> QED BY <1>4, <1>5, <1>6, <1>7, <1>8 DEF Unmergeable, LinkRaced

LEMMA TakeStep ==
  ASSUME CompletionAssumption, Inv, NEW p \in Processes, NEW c \in Command,
         c.call = "sweep", Take(p, c), UNCHANGED <<at, tags, result, history>>,
         \A e \in c.sweep :
           /\ Archivable(e[1], e[2])
           /\ \A j \in SuccessorIDs(e[2]) : <<e[1], j>> \in named
           /\ e[1] \in c.still => Same(e[2], tags[e[1]])
  PROVE  Inv'
<1>1. CASE Quit(p)
  BY <1>1, IdleInHand, QuietStep DEF Quit
<1>2. CASE ~Quit(p)
  <2>1. PICK e \in c.sweep :
          Step(p, [c EXCEPT !.item = e[1], !.mine = e[2], !.sweep = @ \ {e},
                            !.todo = SuccessorIDs(e[2]), !.step = "back"])
    BY <1>2 DEF Take
  <2> DEFINE d == [c EXCEPT !.item = e[1], !.mine = e[2], !.sweep = @ \ {e},
                            !.todo = SuccessorIDs(e[2]), !.step = "back"]
  <2>2. e[1] \in Items /\ e[2] \in SUBSET Labels
    BY DEF Command
  <2>3. d \in Command
    BY <2>2 DEF Command, Steps, SuccessorIDs
  <2>4. /\ d.call = "sweep" /\ d.item = e[1] /\ d.mine = e[2] /\ d.sweep = c.sweep \ {e}
        /\ d.todo = SuccessorIDs(e[2]) /\ d.step = "back" /\ d.still = c.still
    BY DEF Command
  <2> HIDE DEF d
  <2>5. Shaped(d)
    BY <2>2, <2>4 DEF Shaped
  <2>6. Told(d) /\ Current(d)
    BY <2>4 DEF Told, Current
  <2>7. Linked(d)
    BY <2>4, SameRead DEF Linked
  <2> QED BY <2>1, <2>3, <2>5, <2>6, <2>7, QuietStep DEF InHand, d
<1> QED BY <1>1, <1>2

LEMMA SweepSteps ==
  ASSUME CompletionAssumption, Inv, NEW p \in Processes, Sweep(p) \/ SweepNext(p)
  PROVE  Inv'
<1>1. CASE Sweep(p)
  <2> DEFINE c == [Idle EXCEPT !.call = "sweep", !.sweep = Candidates, !.still = Items]
  <2>1. \A e \in Candidates :
          e \in Items \X SUBSET Labels /\ e[2] = tags[e[1]] /\ Archivable(e[1], e[2])
    BY DEF Candidates, CompletionAssumption, Inv, Types
  <2>2. c \in Command
    BY <2>1 DEF Command, Idle, Calls, Steps, NoResult
  <2>3. c.call = "sweep" /\ c.sweep = Candidates
    BY DEF Idle
  <2>4. Take(p, c) /\ UNCHANGED <<at, tags, result, history>>
    BY <1>1 DEF Sweep
  <2> HIDE DEF c
  <2> QED BY <2>1, <2>2, <2>3, <2>4, FreshRead, TakeStep
<1>2. CASE SweepNext(p)
  <2>1. /\ cmd[p] \in Command /\ InHand(cmd[p]) /\ cmd[p].call = "sweep" /\ Take(p, cmd[p])
        /\ UNCHANGED <<at, tags, result, history>>
    BY <1>2 DEF SweepNext, At, Inv, Types
  <2> QED BY <2>1, TakeStep DEF InHand, Shaped, Told, Current
<1> QED BY <1>1, <1>2

-------------------------------------------------------------------------------
\* The steps that touch an item.

LEMMA TouchTypes ==
  ASSUME CompletionAssumption, Types, NEW p \in Processes, NEW i \in Items, NEW d \in Command,
         Touch(p, i, d)
  PROVE  /\ cmd' \in [Processes -> Command] /\ cmd'[p] = d
         /\ \A q \in Processes \ {p} : Keeps(q, cmd[q].still \ {i})
<1>1. \A q \in Processes : [cmd[q] EXCEPT !.still = @ \ {i}] \in Command
  BY DEF Types, Command
<1>2. \A q \in Processes : [cmd[q] EXCEPT !.still = @ \ {i}]
                             = [cmd[q] EXCEPT !.still = cmd[q].still \ {i}]
  OBVIOUS
<1> QED BY <1>1, <1>2 DEF Touch, Keeps

LEMMA MovedTypes ==
  ASSUME Types, NEW i \in Items, NEW to \in Dirs, at[i] # "none", Moved(i, to)
  PROVE  /\ at' \in [Items -> Dirs \cup {"none"}]
         /\ result' \in [Items -> [Dirs -> SUBSET Keys]]
         /\ \A k \in Items, e \in Dirs : Whole(result'[k][e])
         /\ \A k \in Items : Exists(k) => Exists(k)'
         /\ \A k \in Items \ {i} : at'[k] = at[k]
<1>1. at[i] \in Dirs
  BY DEF Types
<1>2. /\ at' \in [Items -> Dirs \cup {"none"}] /\ at'[i] = to
      /\ \A k \in Items \ {i} : at'[k] = at[k]
  BY DEF Moved, Types
<1>3. \A k \in Items : Exists(k) => Exists(k)'
  BY <1>2 DEF Exists, Dirs
<1>4. CASE result' = result
  BY <1>2, <1>3, <1>4 DEF Types
<1>5. CASE result' # result
  <2> DEFINE r == [result[i] EXCEPT ![to] = result[i][at[i]], ![at[i]] = NoResult]
  <2>1. result' = [result EXCEPT ![i] = r]
    BY <1>5 DEF Moved
  <2>2. r \in [Dirs -> SUBSET Keys] /\ \A e \in Dirs : Whole(r[e])
    <3>1. /\ result[i] \in [Dirs -> SUBSET Keys] /\ \A e \in Dirs : Whole(result[i][e])
          /\ result[i][at[i]] \in SUBSET Keys /\ NoResult \in SUBSET Keys /\ Whole(NoResult)
      BY <1>1 DEF Types, NoResult, Whole
    <3>2. r \in [Dirs -> SUBSET Keys]
      BY <1>1, <3>1
    <3>3. \A e \in Dirs : r[e] \in {result[i][e], result[i][at[i]], NoResult}
      BY <1>1, <3>1
    <3> QED BY <1>1, <3>1, <3>2, <3>3
  <2> HIDE DEF r
  <2> QED BY <1>2, <1>3, <2>1, <2>2 DEF Types
<1> QED BY <1>4, <1>5

\* Moves, which leave the tags alone: everybody else can no longer count on i.
LEMMA MovingStep ==
  ASSUME CompletionAssumption, Inv, NEW i \in Items, NEW to \in Dirs, at[i] # "none",
         Moved(i, to), UNCHANGED <<tags, history>>, cmd' \in [Processes -> Command],
         \A q \in Processes : InHand(cmd[q])' \/ Keeps(q, cmd[q].still \ {i})
  PROVE  Inv'
<1>1. Types' /\ Grows
  BY MovedTypes DEF Inv, Types, Grows, history
<1>2. Recorded' /\ NoFalseInheritance'
  BY DEF Inv, Recorded, NoFalseInheritance, SuccessorIDs, history
<1>3. \A k \in Items : Same(tags[k], tags'[k])
  BY DEF Same
<1> QED BY <1>1, <1>2, <1>3, TouchingStep

LEMMA IdleCarried ==
  ASSUME CompletionAssumption, NEW p \in Processes, cmd'[p] = Idle
  PROVE  InHand(cmd[p])'
BY DEF Idle, InHand, Shaped, Told, Current, Linked, SuccessorIDs, CompletionAssumption

LEMMA DecidingSteps ==
  ASSUME CompletionAssumption, Inv, NEW p \in Processes, Complete(p) \/ Archive(p) \/ SweepOne(p)
  PROVE  Inv'
<1> DEFINE c == cmd[p]
<1>1. c \in Command /\ InHand(c) /\ Idle \in Command /\ InHand(Idle)
  BY IdleInHand DEF Inv, Types
<1>2. c.item \in Items
  BY <1>1 DEF InHand, Shaped, Complete, Archive, SweepOne, At
<1>3. UNCHANGED <<tags, history>>
  BY DEF Complete, Archive, SweepOne
<1>4. CASE Quit(p) /\ UNCHANGED <<at, result>>
  BY <1>1, <1>3, <1>4, QuietStep DEF Quit
<1>5. ASSUME NEW to \in {"done", "archived"}, at[c.item] # "none", Moved(c.item, to),
             Touch(p, c.item, Idle)
      PROVE  Inv'
  <2>1. /\ cmd' \in [Processes -> Command] /\ cmd'[p] = Idle
        /\ \A q \in Processes \ {p} : Keeps(q, cmd[q].still \ {c.item})
    BY <1>1, <1>2, <1>5, TouchTypes DEF Inv
  <2>2. InHand(cmd[p])'
    BY <2>1, IdleCarried
  <2> QED BY <1>2, <1>3, <1>5, <2>1, <2>2, MovingStep DEF Dirs
<1>6. CASE Complete(p)
  BY <1>4, <1>5, <1>6 DEF Complete
<1>7. CASE Archive(p)
  BY <1>4, <1>5, <1>7 DEF Archive
<1>8. CASE SweepOne(p)
  <2> SUFFICES ASSUME at[c.item] = "done", Moved(c.item, "archived"),
                      Touch(p, c.item, [c EXCEPT !.step = "next"])
               PROVE  Inv'
    BY <1>4, <1>8 DEF SweepOne
  <2> DEFINE d == [c EXCEPT !.step = "next"]
  <2>1. d \in Command
    BY <1>1 DEF Command, Steps
  <2>2. /\ cmd' \in [Processes -> Command] /\ cmd'[p] = d
        /\ \A q \in Processes \ {p} : Keeps(q, cmd[q].still \ {c.item})
    BY <1>2, <2>1, TouchTypes DEF Inv
  <2>3. /\ d.call = "sweep" /\ d.item = c.item /\ d.mine = c.mine /\ d.todo = c.todo
        /\ d.sweep = c.sweep /\ d.still = c.still /\ d.step = "next" /\ c.call = "sweep"
    BY <1>1, <1>8 DEF Command, SweepOne, At
  <2> HIDE DEF d
  <2>4. \A k \in Items : Exists(k) => Exists(k)'
    BY <1>2, MovedTypes DEF Inv, Dirs
  <2>5. \A i \in Items, t \in SUBSET Labels : Archivable(i, t) => Archivable(i, t)'
    BY <2>4 DEF Archivable, Discharged, Tracked, SuccessorIDs
  <2>6. Shaped(cmd[p])'
    BY <1>1, <2>2, <2>3, <2>5 DEF InHand, Shaped, Command
  <2>7. Told(cmd[p])' /\ Current(cmd[p])' /\ Linked(cmd[p])'
    BY <1>1, <1>3, <2>2, <2>3 DEF InHand, Told, Current, Linked, SuccessorIDs, history, Same
  <2> QED BY <1>2, <1>3, <2>2, <2>6, <2>7, MovingStep DEF Dirs, InHand
<1> QED BY <1>6, <1>7, <1>8

LEMMA WriteResultStep ==
  ASSUME CompletionAssumption, Inv, NEW p \in Processes, WriteResult(p)
  PROVE  Inv'
<1> DEFINE c == cmd[p]  d == LinkStep(c)  r == mergeResultSidecar(c.prior, p)
<1>1. c \in Command /\ InHand(c)
  BY DEF Inv, Types
<1>2. c.call = "done" /\ c.item \in Items /\ c.sweep = {} /\ Mergeable(c.prior)
  BY <1>1 DEF InHand, Shaped, WriteResult, At
<1>3. /\ d \in Command /\ d.call = "done" /\ d.item = c.item /\ d.sweep = {} /\ d.mine = c.mine
      /\ d.todo = SuccessorIDs(d.mine) /\ d.step \in {"back", "check"}
      /\ (d.step = "check" => d.successor # "none") /\ d.still = c.still
  BY <1>1, <1>2, ZenonT(40) DEF LinkStep, Command, Steps, SuccessorIDs
<1>4. /\ UNCHANGED <<at, tags, named>> /\ Touch(p, c.item, d)
      /\ result' = [result EXCEPT ![c.item]["claimed"] = r]
      /\ kept' = IF at[c.item] = "claimed"
                   THEN [kept EXCEPT ![c.item] = (@ \cap c.base) \cup {p}] ELSE kept
  BY DEF WriteResult
<1> HIDE DEF d
<1>5. /\ cmd' \in [Processes -> Command] /\ cmd'[p] = d
      /\ \A q \in Processes \ {p} : Keeps(q, cmd[q].still \ {c.item})
  BY <1>2, <1>3, <1>4, TouchTypes DEF Inv
<1>6. r \in SUBSET Keys /\ Whole(r)
  BY <1>1, <1>2 DEF mergeResultSidecar, Mergeable, Command, Keys, Whole, CompletionAssumption
<1> HIDE DEF r
<1>7. Types' /\ Grows
  <2>1. kept' \in [Items -> SUBSET Keys]
    BY <1>4 DEF Inv, Types, Keys
  <2>2. /\ result' \in [Items -> [Dirs -> SUBSET Keys]]
        /\ \A i \in Items, e \in Dirs : Whole(result'[i][e])
    BY <1>2, <1>4, <1>6 DEF Inv, Types
  <2> QED BY <1>4, <1>5, <2>1, <2>2 DEF Inv, Types, Grows, Exists
<1>8. InHand(d)
  BY <1>1, <1>2, <1>3, LinkingInHand DEF InHand, Told, Current
<1>9. InHand(cmd[p])'
  BY <1>4, <1>5, <1>8, Carried
<1>10. Recorded' /\ NoFalseInheritance' /\ \A k \in Items : Same(tags[k], tags'[k])
  BY <1>4 DEF Inv, Recorded, NoFalseInheritance, SuccessorIDs, Same
<1> QED BY <1>2, <1>5, <1>7, <1>9, <1>10, TouchingStep

LEMMA LinkSuccessorStep ==
  ASSUME CompletionAssumption, Inv, NEW p \in Processes, LinkSuccessor(p)
  PROVE  Inv'
<1> DEFINE c == cmd[p]  i == c.item  j == c.successor
           t == tags[i] \cup {Succ(j)}
           d == [c EXCEPT !.mine = t, !.todo = SuccessorIDs(t), !.step = "back"]
<1>1. c \in Command /\ InHand(c)
  BY DEF Inv, Types
<1>2. c.call \in {"done", "archive"} /\ i \in Items /\ j \in Items /\ c.sweep = {}
  BY <1>1 DEF InHand, Shaped, LinkSuccessor, At
<1>3. t \in SUBSET Labels /\ SuccessorIDs(t) = SuccessorIDs(tags[i]) \cup {j}
  BY <1>2, FreshRead, LabelsDiffer DEF SuccessorIDs, Labels
<1>4. /\ UNCHANGED <<at, result, kept>> /\ named' = named \cup {<<i, j>>}
      /\ tags' = [tags EXCEPT ![i] = t] /\ Touch(p, i, d)
  BY DEF LinkSuccessor
<1> HIDE DEF t
<1>5. /\ d \in Command /\ d.call = c.call /\ d.item = i /\ d.sweep = {} /\ d.mine = t
      /\ d.todo = SuccessorIDs(t) /\ d.step = "back"
  BY <1>1, <1>2, <1>3 DEF Command, Steps, SuccessorIDs
<1> HIDE DEF d
<1>6. /\ cmd' \in [Processes -> Command] /\ cmd'[p] = d
      /\ \A q \in Processes \ {p} : Keeps(q, cmd[q].still \ {i})
  BY <1>2, <1>4, <1>5, TouchTypes DEF Inv
<1>7. tags'[i] = t /\ \A k \in Items \ {i} : tags'[k] = tags[k]
  BY <1>2, <1>4 DEF Inv, Types
<1>8. Types' /\ Grows
  BY <1>3, <1>4, <1>6, <1>7 DEF Inv, Types, Grows, Exists, t
<1>9. Recorded'
  BY <1>3, <1>4, <1>7 DEF Inv, Recorded, SuccessorIDs
<1>10. NoFalseInheritance'
  BY <1>2, <1>4, <1>7, LabelsDiffer DEF Inv, NoFalseInheritance, t
<1>11. InHand(cmd[p])'
  <2>1. Shaped(cmd[p])'
    BY <1>2, <1>5, <1>6 DEF Shaped
  <2>2. Told(cmd[p])'
    <3>1. \A k \in SuccessorIDs(t) : <<i, k>> \in named'
      BY <1>2, <1>3, <1>4 DEF Inv, Recorded
    <3> QED BY <1>5, <1>6, <3>1 DEF Told, SuccessorIDs
  <2>3. Current(cmd[p])' /\ Linked(cmd[p])'
    BY <1>5, <1>6, <1>7 DEF Current, Linked, Same, SuccessorIDs
  <2> QED BY <2>1, <2>2, <2>3 DEF InHand
<1>12. \A k \in Items \ {i} : Same(tags[k], tags'[k])
  BY <1>7 DEF Same
<1> QED BY <1>2, <1>6, <1>8, <1>9, <1>10, <1>11, <1>12, TouchingStep

LEMMA LinkBackStep ==
  ASSUME CompletionAssumption, Inv, NEW p \in Processes, LinkBack(p)
  PROVE  Inv'
<1> DEFINE c == cmd[p]
<1>1. c \in Command /\ InHand(c)
  BY DEF Inv, Types
<1>2. c.call # "none" /\ c.item \in Items /\ c.step = "back" /\ c.todo \subseteq Items
  BY <1>1 DEF InHand, Shaped, LinkBack, At, Command
<1>3. UNCHANGED <<at, result, history>>
  BY DEF LinkBack
<1>4. PICK j \in c.todo :
        \/ /\ j # c.item
           /\ tags' = [tags EXCEPT ![j] = @ \cup {Pred(c.item)}]
           /\ Touch(p, j, [c EXCEPT !.todo = @ \ {j}])
        \/ /\ Step(p, [c EXCEPT !.todo = @ \ {j}, !.missed = @ \cup {j}])
           /\ UNCHANGED tags
  BY DEF LinkBack
<1>5. j \in Items
  BY <1>2
<1>6. CASE /\ j # c.item
           /\ tags' = [tags EXCEPT ![j] = @ \cup {Pred(c.item)}]
           /\ Touch(p, j, [c EXCEPT !.todo = @ \ {j}])
  <2> DEFINE d == [c EXCEPT !.todo = @ \ {j}]
  <2>1. /\ d \in Command /\ d.call = c.call /\ d.item = c.item /\ d.mine = c.mine
        /\ d.todo = c.todo \ {j} /\ d.sweep = c.sweep /\ d.still = c.still /\ d.step = "back"
        /\ d.missed = c.missed
    BY <1>1, <1>2 DEF Command
  <2>2. /\ cmd' \in [Processes -> Command] /\ cmd'[p] = d
        /\ \A q \in Processes \ {p} : Keeps(q, cmd[q].still \ {j})
    BY <1>5, <1>6, <2>1, TouchTypes DEF Inv
  <2> HIDE DEF d
  <2>3. /\ tags'[j] = tags[j] \cup {Pred(c.item)}
        /\ \A k \in Items \ {j} : tags'[k] = tags[k]
    BY <1>5, <1>6 DEF Inv, Types
  <2>4. Types' /\ Grows
    <3>1. tags' \in [Items -> SUBSET Labels]
      BY <1>2, <1>5, <1>6, LabelsDiffer DEF Inv, Types
    <3> QED BY <1>3, <2>2, <2>3, <3>1 DEF Inv, Types, Grows, Exists, history
  <2>5. \A k \in Items : Same(tags[k], tags'[k])
    BY <1>2, <2>3 DEF Same, Inherited
  <2>6. Recorded'
    BY <1>3, <2>5, SameRead DEF Inv, Recorded, history
  <2>7. NoFalseInheritance'
    <3>1. <<c.item, j>> \in named
      BY <1>1 DEF InHand, Told
    <3> QED BY <1>2, <1>3, <1>5, <2>3, <3>1, LabelsDiffer DEF Inv, NoFalseInheritance, history
  <2>8. InHand(cmd[p])'
    <3>1. Shaped(cmd[p])'
      BY <1>1, <1>3, <2>1, <2>2
         DEF InHand, Shaped, Archivable, Discharged, Tracked, Exists, SuccessorIDs
    <3>2. Told(cmd[p])'
      BY <1>1, <1>3, <2>1, <2>2 DEF InHand, Told, SuccessorIDs, history
    <3>3. Current(cmd[p])'
      <4>1. \A e \in c.sweep : e[1] \in Items
        BY <1>1 DEF Command
      <4> QED BY <1>1, <1>2, <2>1, <2>2, <2>5, <4>1 DEF InHand, Current, Same
    <3>4. Linked(cmd[p])'
      BY <1>1, <1>2, <1>5, <1>6, <2>1, <2>2, <2>3 DEF InHand, Linked, SuccessorIDs
    <3> QED BY <3>1, <3>2, <3>3, <3>4 DEF InHand
  <2> QED BY <1>5, <2>2, <2>4, <2>5, <2>6, <2>7, <2>8, TouchingStep
<1>7. CASE /\ Step(p, [c EXCEPT !.todo = @ \ {j}, !.missed = @ \cup {j}])
           /\ UNCHANGED tags
  <2> DEFINE d == [c EXCEPT !.todo = @ \ {j}, !.missed = @ \cup {j}]
  <2>1. /\ d \in Command /\ d.call = c.call /\ d.item = c.item /\ d.mine = c.mine
        /\ d.todo = c.todo \ {j} /\ d.sweep = c.sweep /\ d.still = c.still /\ d.step = "back"
        /\ d.missed = c.missed \cup {j}
    BY <1>1, <1>2, <1>5 DEF Command
  <2> HIDE DEF d
  <2>2. InHand(d)
    BY <1>1, <1>2, <2>1 DEF InHand, Shaped, Told, Current, Linked
  <2> QED BY <1>3, <1>7, <2>1, <2>2, QuietStep DEF d
<1> QED BY <1>4, <1>6, <1>7

\* The other commands.
LEMMA OtherCommands ==
  ASSUME CompletionAssumption, Inv, NEW i \in Items,
         Elsewhere(i) \/ \E t \in EditedTags : EditTags(i, t)
  PROVE  Inv'
<1>1. /\ cmd' \in [Processes -> Command]
      /\ \A q \in Processes : Keeps(q, cmd[q].still \ {i})
  <2>1. cmd' = [q \in Processes |-> [cmd[q] EXCEPT !.still = @ \ {i}]]
    BY DEF Elsewhere, EditTags, Others
  <2>2. \A q \in Processes : [cmd[q] EXCEPT !.still = @ \ {i}] \in Command
    BY ZenonT(40) DEF Inv, Types, Command
  <2>3. \A q \in Processes : [cmd[q] EXCEPT !.still = @ \ {i}]
                             = [cmd[q] EXCEPT !.still = cmd[q].still \ {i}]
    OBVIOUS
  <2> QED BY <2>1, <2>2, <2>3 DEF Keeps
<1>2. CASE Elsewhere(i) /\ at[i] # "none"
  <2>1. PICK to \in Dirs : Moved(i, to)
    BY <1>2 DEF Elsewhere, Dirs
  <2> QED BY <1>1, <1>2, <2>1, MovingStep DEF Elsewhere
<1>3. CASE Elsewhere(i) /\ at[i] = "none"
  <2>1. at' = [at EXCEPT ![i] = "available"] /\ UNCHANGED <<result, tags, history>>
    BY <1>3 DEF Elsewhere
  <2>2. Types' /\ Grows
    BY <1>1, <2>1 DEF Inv, Types, Grows, Exists, Dirs, history
  <2>3. Recorded' /\ NoFalseInheritance' /\ \A k \in Items : Same(tags[k], tags'[k])
    BY <2>1 DEF Inv, Recorded, NoFalseInheritance, SuccessorIDs, Same, history
  <2> QED BY <1>1, <2>2, <2>3, TouchingStep
<1>4. ASSUME NEW t \in EditedTags, EditTags(i, t)
      PROVE  Inv'
  <2>1. t \in Labels \ Inherited
    BY DEF CompletionAssumption
  <2>2. /\ UNCHANGED <<at, result, kept>>
        /\ tags' = [tags EXCEPT ![i] = IF t \in @ THEN @ \ {t} ELSE @ \cup {t}]
        /\ named' = named \cup {<<i, j>> : j \in SuccessorIDs({t})}
    BY <1>4 DEF EditTags
  <2>3. /\ tags'[i] \subseteq tags[i] \cup {t} /\ tags[i] \ {t} \subseteq tags'[i]
        /\ \A k \in Items \ {i} : tags'[k] = tags[k]
    BY <2>2 DEF Inv, Types
  <2>4. Types' /\ Grows
    <3>1. tags' \in [Items -> SUBSET Labels]
      BY <2>1, <2>2 DEF Inv, Types
    <3> QED BY <1>1, <2>1, <2>2, <2>3, <3>1 DEF Inv, Types, Grows, Exists
  <2>5. Recorded'
    BY <2>2, <2>3 DEF Inv, Recorded, SuccessorIDs
  <2>6. NoFalseInheritance'
    BY <2>1, <2>2, <2>3 DEF Inv, NoFalseInheritance, Inherited
  <2>7. \A k \in Items \ {i} : Same(tags[k], tags'[k])
    BY <2>3 DEF Same
  <2> QED BY <1>1, <2>4, <2>5, <2>6, <2>7, TouchingStep
<1> QED BY <1>2, <1>3, <1>4

-------------------------------------------------------------------------------
LEMMA InitInv ==
  ASSUME CompletionAssumption, Init
  PROVE  Inv
<1>1. tags \in [Items -> SUBSET Labels] /\ \A i \in Items : tags[i] \cap Inherited = {}
  BY DEF Init, CompletionAssumption
<1>2. /\ result \in [Items -> [Dirs -> SUBSET Keys]]
      /\ \A i \in Items, d \in Dirs : Whole(result[i][d])
  BY DEF Init, Keys, NoResult, Whole
<1>3. kept \in [Items -> SUBSET Keys]
  BY <1>2 DEF Init
<1>4. Types
  BY <1>1, <1>2, <1>3, IdleInHand DEF Types, Init, Dirs
<1>5. Recorded
  BY DEF Recorded, Init, SuccessorIDs
<1>6. NoFalseInheritance
  BY <1>1 DEF NoFalseInheritance, Inherited
<1> QED BY <1>4, <1>5, <1>6, IdleInHand DEF Inv, Init

LEMMA NextInv ==
  ASSUME CompletionAssumption, Inv, [Next]_vars
  PROVE  Inv'
<1>1. CASE UNCHANGED vars
  <2>1. \A q \in Processes : InHand(cmd'[q])
    BY <1>1 DEF Inv, vars
  <2>2. Types' /\ Recorded' /\ NoFalseInheritance'
    BY <1>1 DEF Inv, Types, Recorded, NoFalseInheritance, SuccessorIDs, vars, history
  <2> QED BY <1>1, <2>1, <2>2, Carried DEF Inv, vars, history
<1>2. ASSUME NEW p \in Processes, NEW i \in Finished, Done(p, i) \/ ArchiveItem(p, i)
      PROVE  Inv'
  BY <1>2, DoneStep, ArchiveItemStep
<1>3. ASSUME NEW p \in Processes,
             \/ Sweep(p) \/ SweepNext(p)
             \/ ReadPrior(p) \/ ReadPriorDone(p) \/ Unmergeable(p) \/ CheckSuccessor(p)
             \/ LinkRaced(p) \/ Guard(p)
      PROVE  Inv'
  BY <1>3, SweepSteps, LookingSteps
<1>4. ASSUME NEW p \in Processes,
             \/ WriteResult(p) \/ LinkSuccessor(p) \/ LinkBack(p)
             \/ Complete(p) \/ Archive(p) \/ SweepOne(p)
      PROVE  Inv'
  BY <1>4, WriteResultStep, LinkSuccessorStep, LinkBackStep, DecidingSteps
<1>5. ASSUME NEW i \in Items, Elsewhere(i) \/ \E t \in EditedTags : EditTags(i, t)
      PROVE  Inv'
  BY <1>5, OtherCommands
<1> QED BY <1>1, <1>2, <1>3, <1>4, <1>5 DEF Next, CompletionAssumption

(***************************************************************************)
(* The inductive invariant holds of every behaviour of done and archive:   *)
(* the four theorems below are read off it, or use it at one step.         *)
(***************************************************************************)
THEOREM Invariant == ASSUME CompletionAssumption PROVE Spec => []Inv
BY InitInv, NextInv, PTL DEF Spec

\* Every variable of done and archive keeps its type, and a result that is no object
\* is never mixed with another (sidecar.go, mergeResultSidecar).
THEOREM CompletionTypes == ASSUME CompletionAssumption PROVE Spec => []TypeOK
<1>1. Inv => TypeOK
  BY DEF Inv, Types, TypeOK, Whole, Command
<1> QED BY <1>1, Invariant, PTL

\* No item claims an inheritance from one that never named it, for any items,
\* processes and interleavings (successor.go, linkSuccessorBothWays).
THEOREM InheritanceNamed == ASSUME CompletionAssumption PROVE Spec => []NoFalseInheritance
<1>1. Inv => NoFalseInheritance
  BY DEF Inv
<1> QED BY <1>1, Invariant, PTL

\* Only the move of a command's own item changes its step and a place.
LEMMA WhoMoves ==
  ASSUME CompletionAssumption, Inv, [Next]_vars, NEW p \in Processes, NEW i \in Items,
         cmd'[p].step # cmd[p].step, at'[i] # at[i]
  PROVE  /\ i = cmd[p].item
         /\ \/ Complete(p) /\ Moved(i, "done")
            \/ Archive(p) /\ Moved(i, "archived")
            \/ SweepOne(p) /\ Moved(i, "archived")
<1>1. at' # at
  OBVIOUS
<1>2. ASSUME NEW q \in Processes, Complete(q) \/ Archive(q) \/ SweepOne(q)
      PROVE  p = q
  <2>1. ~UNCHANGED at
    BY <1>1
  <2>2. PICK k, d : Touch(q, k, d)
    BY <1>2, <2>1 DEF Complete, Archive, SweepOne
  <2>3. p # q => cmd'[p] = [cmd[p] EXCEPT !.still = @ \ {k}]
    BY <2>2 DEF Touch
  <2> QED BY <2>3 DEF Inv, Types, Command
<1>3. ~Elsewhere(i) /\ \A k \in Items : ~Elsewhere(k)
  <2>1. ASSUME NEW k \in Items, Elsewhere(k)
        PROVE  FALSE
    <3>1. cmd'[p] = [cmd[p] EXCEPT !.still = @ \ {k}]
      BY <2>1 DEF Elsewhere, Others
    <3> QED BY <3>1 DEF Inv, Types, Command
  <2> QED BY <2>1
<1>4. Complete(p) \/ Archive(p) \/ SweepOne(p)
  BY <1>1, <1>2, <1>3, ZenonT(40)
     DEF Next, vars, Done, ArchiveItem, Begin, Sweep, SweepNext, ReadPrior, ReadPriorDone,
         Unmergeable, WriteResult, CheckSuccessor, LinkSuccessor, LinkRaced, LinkBack, Guard,
         EditTags
<1> QED BY <1>1, <1>4 DEF Complete, Archive, SweepOne, Moved, Inv, Types

\* When a command completes or archives an item that nobody else has touched, every
\* successor names it back or the failure was reported (reconcileBacklinks).
THEOREM ChainsWalkable == ASSUME CompletionAssumption PROVE Spec => LinksWalkable
<1>1. ASSUME Inv, [Next]_vars
      PROVE  LinkedStep
  <2> SUFFICES ASSUME NEW p \in Processes, NEW i \in Items, cmd'[p].step # cmd[p].step,
                      at'[i] # at[i], i \in cmd[p].still, NEW j \in SuccessorIDs(tags[i])
               PROVE  Pred(i) \in tags[j] \/ j \in cmd[p].missed
    BY DEF LinkedStep
  <2>1. i = cmd[p].item /\ InHand(cmd[p])
    BY <1>1, WhoMoves DEF Inv
  <2>2. cmd[p].step \in {"back", "move"} /\ cmd[p].todo = {}
    BY <1>1, <2>1, WhoMoves DEF Complete, Archive, SweepOne, At, InHand, Shaped
  <2> QED BY <2>1, <2>2 DEF InHand, Linked
<1> QED BY <1>1, Invariant, PTL DEF LinksWalkable, Spec

\* Nothing that is owed is completed or archived untracked, but by --force or under a
\* command during which the item was edited (requireRemainderDischarged,
\* checkArchiveGuards).
THEOREM OwedIsTracked == ASSUME CompletionAssumption PROVE Spec => NothingOwedIsPutAway
<1>1. ASSUME Inv, [Next]_vars
      PROVE  PutAwayStep
  <2> SUFFICES ASSUME NEW p \in Processes, NEW i \in Items, cmd'[p].step # cmd[p].step,
                      at'[i] # at[i], i \in cmd[p].still,
                      ~(cmd[p].call = "archive" /\ cmd[p].flag)
               PROVE  ~Owed(i, at'[i] = "archived")
    BY DEF PutAwayStep
  <2> DEFINE c == cmd[p]
  <2>1. i = c.item /\ InHand(c)
    BY <1>1, WhoMoves DEF Inv
  <2>2. Same(c.mine, tags[i])
    BY <2>1 DEF InHand, Current
  <2>3. CASE Complete(p) /\ Moved(i, "done")
    <3>1. Discharged(c.mine) /\ at'[i] = "done"
      BY <1>1, <2>1, <2>3 DEF InHand, Shaped, Passes, Complete, At, Moved, Inv, Types
    <3> QED BY <2>2, <3>1, SameRead DEF Owed, Discharged
  <2>4. CASE Archive(p) \/ SweepOne(p)
    <3>1. Archivable(i, c.mine)
      BY <2>1, <2>4 DEF InHand, Shaped, Passes, Archive, SweepOne, At
    <3> QED BY <2>2, <3>1, SameRead DEF Owed, Archivable, Discharged
  <2> QED BY <1>1, <2>3, <2>4, WhoMoves
<1> QED BY <1>1, Invariant, PTL DEF NothingOwedIsPutAway, Spec
-------------------------------------------------------------------------------
(* The result that was recorded.  Two things are needed beside ResultsKept: a    *)
(* result left in done/ stays what every Done will merge until one has merged    *)
(* it, and what a Done read still holds what was beside the item at the time.    *)

\* The result is with its item,
Beside(i) == kept[i] = {} \/ (at[i] # "none" /\ kept[i] \subseteq result[i][at[i]])

\* ... or it is one from before, which was left beside a record in done/, and nobody
\* has written a result without it since.
LeftInDone(i) ==
  /\ at[i] \in {"available", "claimed"}
  /\ kept[i] \subseteq result[i]["done"] \cap {"old", "opaque"}
  /\ result[i]["available"] = NoResult
  /\ result[i]["claimed"] = NoResult \/ kept[i] \subseteq result[i]["claimed"]
  /\ \A q \in Processes :
       cmd[q].step = "write" /\ cmd[q].item = i => kept[i] \subseteq cmd[q].prior

\* What a Done has read, or is about to, holds what was there when it started to.
Reads(c) ==
  /\ c.step = "prior_done" /\ c.item \in c.still => c.base \subseteq result[c.item]["done"]
  /\ c.step = "write" => c.base \subseteq c.prior

Safe == /\ \A i \in Items : Beside(i) \/ LeftInDone(i)
        /\ \A q \in Processes : Reads(cmd[q])

\* A command that goes from c to d does not read.
Blind(c, d) ==
  d.step \in {"write", "prior_done"} =>
    /\ d.step = c.step /\ d.item = c.item /\ d.prior = c.prior /\ d.base = c.base
    /\ d.still \subseteq c.still

NobodyReads == \A q \in Processes : Blind(cmd[q], cmd'[q])

LEMMA BlindStep ==
  ASSUME Types, NEW p \in Processes, NEW d, d.step \notin {"write", "prior_done"},
         Step(p, d) \/ \E i : Touch(p, i, d)
  PROVE  NobodyReads
<1> SUFFICES ASSUME NEW q \in Processes PROVE Blind(cmd[q], cmd'[q])
  BY DEF NobodyReads
<1>1. cmd[q] \in Command
  BY DEF Types
<1>2. CASE q = p
  BY <1>2 DEF Step, Touch, Blind, Types
<1>3. CASE q # p /\ Step(p, d)
  BY <1>3 DEF Step, Blind, Types
<1>4. CASE q # p /\ \E i : Touch(p, i, d)
  BY <1>1, <1>4 DEF Touch, Blind, Command
<1> QED BY <1>2, <1>3, <1>4

\* Nobody who has a read before it counts on i any longer.
Uncounted(i) ==
  \A q \in Processes : cmd'[q].step = "prior_done" => i \notin cmd'[q].still

LEMMA TouchUncounted ==
  ASSUME Types, NEW p \in Processes, NEW i \in Items, NEW d, d.step # "prior_done",
         Touch(p, i, d)
  PROVE  Uncounted(i)
<1> SUFFICES ASSUME NEW q \in Processes, cmd'[q].step = "prior_done"
             PROVE  i \notin cmd'[q].still
  BY DEF Uncounted
<1>1. q # p
  BY DEF Touch
<1>2. cmd[q] \in Command /\ cmd'[q] = [cmd[q] EXCEPT !.still = @ \ {i}]
  BY <1>1 DEF Touch, Types
<1> QED BY <1>2 DEF Command

LEMMA OthersUncounted ==
  ASSUME Types, NEW i \in Items, Others(i)
  PROVE  NobodyReads /\ Uncounted(i)
<1> SUFFICES ASSUME NEW q \in Processes
             PROVE  Blind(cmd[q], cmd'[q]) /\ i \notin cmd'[q].still
  BY DEF NobodyReads, Uncounted
<1>1. cmd[q] \in Command /\ cmd'[q] = [cmd[q] EXCEPT !.still = @ \ {i}]
  BY DEF Others, Types
<1> QED BY <1>1 DEF Command, Blind

\* Results, places and what is to be kept stay what they are.
LEMMA NothingMoves ==
  ASSUME Safe, NobodyReads, UNCHANGED <<at, result, kept>>
  PROVE  Safe'
<1>1. ASSUME NEW i \in Items
      PROVE  Beside(i)' \/ LeftInDone(i)'
  <2>1. Beside(i) => Beside(i)'
    BY DEF Beside
  <2>2. LeftInDone(i) => LeftInDone(i)'
    BY DEF LeftInDone, NobodyReads, Blind
  <2> QED BY <2>1, <2>2 DEF Safe
<1>2. ASSUME NEW q \in Processes
      PROVE  Reads(cmd[q])'
  BY <1>2 DEF Safe, Reads, NobodyReads, Blind
<1> QED BY <1>1, <1>2 DEF Safe

\* An item moves, and its result with it: forward, back or to done/, and to archived/
\* only from done/, where it is.
LEMMA ItemMoves ==
  ASSUME Types, Safe, NobodyReads, UNCHANGED kept, NEW i \in Items, Uncounted(i),
         NEW to \in Dirs, at[i] \in Dirs \ {to}, Moved(i, to), to = "archived" => at[i] = "done"
  PROVE  Safe'
<1>1. /\ at' = [at EXCEPT ![i] = to] /\ at'[i] = to
      /\ \A k \in Items \ {i} : at'[k] = at[k] /\ result'[k] = result[k]
  BY DEF Moved, Types
<1>2. /\ result[i][at[i]] = NoResult => result' = result
      /\ result[i][at[i]] # NoResult =>
           /\ result'[i][to] = result[i][at[i]] /\ result'[i][at[i]] = NoResult
           /\ \A e \in Dirs \ {to, at[i]} : result'[i][e] = result[i][e]
  BY DEF Moved, Types
<1>3. ASSUME NEW k \in Items \ {i}
      PROVE  Beside(k)' \/ LeftInDone(k)'
  BY <1>1, <1>3 DEF Safe, Beside, LeftInDone, NobodyReads, Blind
<1>4. Beside(i)' \/ LeftInDone(i)'
  <2>1. CASE Beside(i)
    BY <1>1, <1>2, <2>1 DEF Beside, NoResult, Dirs
  <2>2. CASE LeftInDone(i) /\ result[i][at[i]] # NoResult
    BY <1>1, <1>2, <2>2 DEF Beside, LeftInDone, Dirs
  <2>3. CASE LeftInDone(i) /\ result[i][at[i]] = NoResult
    <3>1. CASE to = "done"
      BY <1>1, <1>2, <2>3, <3>1 DEF Beside, LeftInDone
    <3>2. CASE to # "done"
      BY <1>1, <1>2, <2>3, <3>2 DEF LeftInDone, NobodyReads, Blind, Dirs
    <3> QED BY <3>1, <3>2
  <2> QED BY <2>1, <2>2, <2>3 DEF Safe
<1>5. ASSUME NEW q \in Processes
      PROVE  Reads(cmd[q])'
  BY <1>1, <1>5 DEF Safe, Reads, NobodyReads, Blind, Uncounted, Moved, Types
<1> QED BY <1>3, <1>4, <1>5 DEF Safe

\* Reading the copy beside the item, or the one left in done/.
LEMMA ReadingSteps ==
  ASSUME Types, Safe, NEW p \in Processes, cmd[p].item \in Items,
         ReadPrior(p) \/ ReadPriorDone(p)
  PROVE  Safe'
<1> DEFINE c == cmd[p]  i == c.item
<1>1. c \in Command
  BY DEF Types
<1>2. UNCHANGED <<at, result, kept>> /\ \A q \in Processes \ {p} : cmd'[q] = cmd[q]
  BY DEF ReadPrior, ReadPriorDone, Step, history, Types
<1>3. cmd'[p].item = i /\ cmd'[p].still = c.still
  <2>1. CASE ReadPrior(p)
    BY <1>1, <2>1 DEF ReadPrior, Step, Types, Command
  <2>2. CASE ReadPriorDone(p)
    BY <1>1, <2>2 DEF ReadPriorDone, Step, Types, Command
  <2> QED BY <2>1, <2>2
<1>4. CASE ReadPrior(p)
  <2>1. /\ cmd'[p].prior = result[i]["claimed"]
        /\ cmd'[p].base = IF at[i] = "claimed" THEN kept[i] ELSE {}
        /\ cmd'[p].step = IF result[i]["claimed"] = NoResult THEN "prior_done" ELSE "write"
    BY <1>1, <1>4 DEF ReadPrior, Step, Types, Command
  <2>2. Reads(cmd[p])'
    BY <1>2, <1>3, <2>1 DEF Safe, Reads, Beside, LeftInDone, NoResult
  <2>3. LeftInDone(i) /\ cmd'[p].step = "write" => kept[i] \subseteq cmd'[p].prior
    BY <2>1 DEF LeftInDone
  <2> QED BY <1>2, <1>3, <2>2, <2>3 DEF Safe, Reads, Beside, LeftInDone
<1>5. CASE ReadPriorDone(p)
  <2>1. /\ cmd'[p].prior = result[i]["done"] /\ cmd'[p].step = "write"
        /\ cmd'[p].base = IF i \in c.still THEN c.base ELSE {}
        /\ c.step = "prior_done"
    BY <1>1, <1>5 DEF ReadPriorDone, Step, Types, Command, At
  <2>2. Reads(cmd[p])'
    BY <1>2, <1>3, <2>1 DEF Safe, Reads
  <2>3. LeftInDone(i) => kept[i] \subseteq cmd'[p].prior
    BY <2>1 DEF LeftInDone
  <2> QED BY <1>2, <1>3, <2>2, <2>3 DEF Safe, Reads, Beside, LeftInDone
<1> QED BY <1>4, <1>5

\* The write holds what was there when the prior result was read, and it is the first
\* that must be kept beside a claimed item.
LEMMA WriteSafe ==
  ASSUME Types, Safe, NEW p \in Processes, NEW i \in Items, cmd[p].item = i, WriteResult(p)
  PROVE  Safe'
<1> DEFINE c == cmd[p]
<1>1. c \in Command /\ c.step = "write" /\ at' = at
  BY DEF Types, WriteResult, At
<1>2. /\ result'[i]["claimed"] = c.prior \cup {p}
      /\ \A e \in Dirs \ {"claimed"} : result'[i][e] = result[i][e]
      /\ \A k \in Items \ {i} : result'[k] = result[k]
  BY DEF WriteResult, mergeResultSidecar, Types, Dirs
<1>3. /\ at[i] = "claimed" => kept'[i] = (kept[i] \cap c.base) \cup {p}
      /\ at[i] # "claimed" => kept'[i] = kept[i]
      /\ \A k \in Items \ {i} : kept'[k] = kept[k]
  BY DEF WriteResult, Types
<1>4. LinkStep(c).step \notin {"write", "prior_done"} /\ Touch(p, i, LinkStep(c))
  BY <1>1 DEF WriteResult, LinkStep, Command
<1>5. NobodyReads /\ Uncounted(i)
  BY <1>4, BlindStep, TouchUncounted
<1>6. ASSUME NEW k \in Items \ {i}
      PROVE  Beside(k)' \/ LeftInDone(k)'
  BY <1>1, <1>2, <1>3, <1>5, <1>6 DEF Safe, Beside, LeftInDone, NobodyReads, Blind
<1>7. Beside(i)' \/ LeftInDone(i)'
  <2>1. CASE at[i] = "claimed"
    BY <1>1, <1>2, <1>3, <2>1 DEF Safe, Reads, Beside
  <2>2. CASE at[i] # "claimed" /\ Beside(i)
    BY <1>1, <1>2, <1>3, <2>2 DEF Beside, Types
  <2>3. CASE at[i] # "claimed" /\ LeftInDone(i)
    BY <1>1, <1>2, <1>3, <1>5, <2>3 DEF LeftInDone, NobodyReads, Blind, Dirs
  <2> QED BY <2>1, <2>2, <2>3 DEF Safe
<1>8. ASSUME NEW q \in Processes
      PROVE  Reads(cmd[q])'
  <2>1. cmd'[q].step = "prior_done" /\ cmd'[q].item \in cmd'[q].still =>
          result'[cmd'[q].item]["done"] = result[cmd'[q].item]["done"]
    <3>1. cmd'[q].step = "prior_done" /\ cmd'[q].item \in cmd'[q].still =>
            cmd'[q].item \in Items \ {i}
      BY <1>5 DEF Uncounted, NobodyReads, Blind, Types, Command
    <3> QED BY <1>2, <3>1
  <2> QED BY <1>5, <2>1 DEF Safe, Reads, NobodyReads, Blind
<1> QED BY <1>6, <1>7, <1>8 DEF Safe

LEMMA InitSafe == ASSUME CompletionAssumption, Init PROVE Safe
<1>1. ASSUME NEW i \in Items
      PROVE  Beside(i) \/ LeftInDone(i)
  <2>1. kept[i] = UNION {result[i][d] : d \in Dirs}
    BY DEF Init
  <2>2. CASE result[i] = [d \in Dirs |-> NoResult]
    BY <2>1, <2>2 DEF Beside, NoResult
  <2>3. CASE \E h \in {"claimed", "done"}, k \in {"old", "opaque"} :
               result[i] = [d \in Dirs |-> IF d = h THEN {k} ELSE NoResult]
    <3>1. PICK h \in {"claimed", "done"}, k \in {"old", "opaque"} :
            result[i] = [d \in Dirs |-> IF d = h THEN {k} ELSE NoResult]
      BY <2>3
    <3>2. kept[i] = {k} /\ result[i][h] = {k} /\ \A d \in Dirs \ {h} : result[i][d] = NoResult
      BY <2>1, <3>1 DEF Dirs, NoResult
    <3>3. /\ i \in Finished => at[i] \in {"claimed", "done"}
          /\ i \notin Finished \/ at[i] = "done" => result[i]["claimed"] = NoResult
          /\ i \notin Finished => result[i]["done"] = NoResult
          /\ \A q \in Processes : cmd[q].step = "idle"
      BY DEF Init, Idle
    <3>4. CASE at[i] = h
      BY <3>2, <3>4 DEF Beside
    <3>5. CASE at[i] # h
      <4>1. h = "done" /\ at[i] = "claimed"
        BY <3>2, <3>3, <3>5 DEF NoResult
      <4> QED BY <3>2, <3>3, <4>1 DEF LeftInDone, Dirs
    <3> QED BY <3>4, <3>5
  <2> QED BY <2>2, <2>3 DEF Init
<1> QED BY <1>1 DEF Init, Safe, Reads, Idle
\* The steps that leave every item and result where it is, and read no result.
LEMMA LinkingSafe ==
  ASSUME CompletionAssumption, Inv, Safe, NEW p \in Processes,
         \/ \E i \in Finished : Done(p, i) \/ ArchiveItem(p, i)
         \/ Sweep(p) \/ SweepNext(p) \/ Unmergeable(p) \/ CheckSuccessor(p)
         \/ LinkSuccessor(p) \/ LinkRaced(p) \/ LinkBack(p) \/ Guard(p)
  PROVE  Safe'
<1> DEFINE c == cmd[p]
<1>1. c \in Command /\ Types
  BY DEF Inv, Types
<1>2. UNCHANGED <<at, result, kept>>
  BY DEF Done, ArchiveItem, Begin, Sweep, SweepNext, Unmergeable, CheckSuccessor, LinkSuccessor,
         LinkRaced, LinkBack, Guard, history
<1>3. \E d : /\ d.step \notin {"write", "prior_done"}
             /\ Step(p, d) \/ \E i : Touch(p, i, d)
  <2>1. CASE Quit(p)
    BY <2>1 DEF Quit, Idle
  <2>2. CASE \E i \in Finished : Done(p, i) \/ ArchiveItem(p, i)
    <3>1. PICK b : /\ b.step \in {"prior", "back", "check"} /\ DOMAIN b = DOMAIN Idle
                   /\ Step(p, [b EXCEPT !.still = Items])
      <4>1. ASSUME NEW i \in Finished, Done(p, i)
            PROVE  \E b : /\ b.step \in {"prior", "back", "check"} /\ DOMAIN b = DOMAIN Idle
                          /\ Step(p, [b EXCEPT !.still = Items])
        BY <4>1 DEF Done, Begin, LinkStep, Idle
      <4>2. ASSUME NEW i \in Finished, ArchiveItem(p, i)
            PROVE  \E b : /\ b.step \in {"prior", "back", "check"} /\ DOMAIN b = DOMAIN Idle
                          /\ Step(p, [b EXCEPT !.still = Items])
        BY <4>2 DEF ArchiveItem, Begin, LinkStep, Idle
      <4> QED BY <2>2, <4>1, <4>2
    <3> QED BY <3>1 DEF Idle
  <2>3. CASE Sweep(p) \/ SweepNext(p)
    BY <1>1, <2>1, <2>3, ZenonT(30) DEF Sweep, SweepNext, Take, Idle, Command
  <2>4. CASE CheckSuccessor(p) \/ Guard(p)
    BY <1>1, <2>1, <2>4 DEF CheckSuccessor, Guard, Command
  <2>5. CASE LinkSuccessor(p)
    BY <1>1, <2>5 DEF LinkSuccessor, Command
  <2>6. CASE LinkBack(p)
    BY <1>1, <2>6 DEF LinkBack, Command, At
  <2> QED BY <2>1, <2>2, <2>3, <2>4, <2>5, <2>6 DEF Unmergeable, LinkRaced
<1> QED BY <1>1, <1>2, <1>3, BlindStep, NothingMoves

\* The moves, by a command of this component or another.
LEMMA MovesSafe ==
  ASSUME CompletionAssumption, Inv, Safe, NEW p \in Processes,
         Complete(p) \/ Archive(p) \/ SweepOne(p)
  PROVE  Safe'
<1> DEFINE c == cmd[p]
<1>1. c \in Command /\ c.item \in Items /\ Types /\ kept' = kept
  BY DEF Inv, Types, InHand, Shaped, Complete, Archive, SweepOne, At, history
<1>2. CASE Quit(p) /\ UNCHANGED <<at, result>>
  BY <1>1, <1>2, BlindStep, NothingMoves DEF Quit, Idle
<1>3. ASSUME NEW d, d.step \notin {"write", "prior_done"}, Touch(p, c.item, d),
             NEW to \in {"done", "archived"}, Moved(c.item, to),
             at[c.item] = IF to = "done" THEN "claimed" ELSE "done"
      PROVE  Safe'
  BY <1>1, <1>3, BlindStep, TouchUncounted, ItemMoves DEF Dirs
<1>4. CASE Complete(p)
  BY <1>2, <1>3, <1>4 DEF Complete, Idle
<1>5. CASE Archive(p)
  BY <1>2, <1>3, <1>5 DEF Archive, Idle
<1>6. CASE SweepOne(p)
  BY <1>1, <1>2, <1>3, <1>6 DEF SweepOne, Command
<1> QED BY <1>4, <1>5, <1>6

LEMMA ElsewhereSafe ==
  ASSUME CompletionAssumption, Inv, Safe, NEW i \in Items,
         Elsewhere(i) \/ \E t \in EditedTags : EditTags(i, t)
  PROVE  Safe'
<1>1. Types /\ kept' = kept /\ Others(i)
  BY DEF Inv, Elsewhere, EditTags, history
<1>2. NobodyReads /\ Uncounted(i)
  BY <1>1, OthersUncounted
<1>3. CASE \E t \in EditedTags : EditTags(i, t)
  BY <1>2, <1>3, NothingMoves DEF EditTags
<1>4. CASE Elsewhere(i)
  <2>1. CASE at[i] = "none" /\ at' = [at EXCEPT ![i] = "available"] /\ UNCHANGED result
    <3>1. kept[i] = {} /\ \A k \in Items \ {i} : at'[k] = at[k]
      BY <1>1, <2>1 DEF Safe, Beside, LeftInDone, Types
    <3>2. ASSUME NEW k \in Items
          PROVE  Beside(k)' \/ LeftInDone(k)'
      BY <1>1, <1>2, <2>1, <3>1, <3>2 DEF Safe, Beside, LeftInDone, NobodyReads, Blind
    <3>3. ASSUME NEW q \in Processes
          PROVE  Reads(cmd[q])'
      BY <1>2, <2>1, <3>3 DEF Safe, Reads, NobodyReads, Blind
    <3> QED BY <3>2, <3>3 DEF Safe
  <2>2. ASSUME NEW to \in {"available", "claimed"}, at[i] \in Dirs \ {to}, Moved(i, to)
        PROVE  Safe'
    BY <1>1, <1>2, <2>2, ItemMoves DEF Dirs
  <2> QED BY <1>4, <2>1, <2>2 DEF Elsewhere, Dirs
<1> QED BY <1>3, <1>4

LEMMA NextSafe ==
  ASSUME CompletionAssumption, Inv, Safe, [Next]_vars
  PROVE  Safe'
<1>1. CASE UNCHANGED vars
  BY <1>1, NothingMoves DEF vars, NobodyReads, Blind
<1>2. ASSUME NEW p \in Processes,
             ReadPrior(p) \/ ReadPriorDone(p) \/ WriteResult(p)
      PROVE  Safe'
  <2>1. cmd[p].item \in Items /\ Types
    BY <1>2 DEF Inv, InHand, Shaped, ReadPrior, ReadPriorDone, WriteResult, At
  <2> QED BY <1>2, <2>1, ReadingSteps, WriteSafe
<1>3. ASSUME NEW p \in Processes, Complete(p) \/ Archive(p) \/ SweepOne(p)
      PROVE  Safe'
  BY <1>3, MovesSafe
<1>4. ASSUME NEW i \in Items, Elsewhere(i) \/ \E t \in EditedTags : EditTags(i, t)
      PROVE  Safe'
  BY <1>4, ElsewhereSafe
<1> QED BY <1>1, <1>2, <1>3, <1>4, LinkingSafe DEF Next, CompletionAssumption

LEMMA SafeKeeps == ASSUME Safe PROVE ResultsKept
BY DEF Safe, Beside, LeftInDone, ResultsKept

\* A result recorded while its item was claimed stays with it, through any moves,
\* refusals and later results (sidecar.go, mergeResultSidecar: "Done must never destroy
\* a result it did not write").
THEOREM ResultsStay == ASSUME CompletionAssumption PROVE Spec => []ResultsKept
<1>1. Spec => []Safe
  BY Invariant, InitSafe, NextSafe, PTL DEF Spec
<1> QED BY <1>1, SafeKeeps, PTL
===============================================================================
