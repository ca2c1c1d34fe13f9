---------------------------- MODULE Edits_proofs ----------------------------
(***************************************************************************)
(* That an acknowledged edit is kept and an assignment is a compare-and-   *)
(* swap, but for the edits that were written while another stood between   *)
(* its comparison and its write; and that what is overwritten is saved,    *)
(* while shelves stay bounded, for any processes, sections, clocks and     *)
(* bounds.                                                                 *)
(***************************************************************************)
EXTENDS Edits, TLAPS, WellFoundedInduction, FiniteSetTheorems

Job ==
    [cmd : Commands \cup {"none"}, guarded : BOOLEAN, sec : Sec \cup {None},
     seen : SUBSET Sec, base : Doc, new : Doc, at : {"none"} \cup Live \cup {"archived"} \cup Shelves,
     name : Saved \cup {None}, older : SUBSET Saved, todo : SUBSET Saved,
     tries : 0 .. MaxAttempts - 1]

\* A shelf has a newest body, because stamps are bounded.
Bounded == \E b \in Nat : \A s \in Shelves : \A n \in shelf[s] : n.stamp <= b

Types ==
    /\ place \in Live \cup {"archived"} /\ doc \in Doc
    /\ shelf \in [Shelves -> SUBSET Saved] /\ Bounded
    /\ pc \in [Proc -> Steps] /\ job \in [Proc -> Job]
    /\ acked \subseteq Sec /\ taken \subseteq Proc /\ gone \subseteq Sec
    /\ raced \subseteq Proc \cup Sec \cup {None}

\* The steps at which a command has composed the document it will write.
Editing(step, j) ==
    \/ step \in {"save", "put", "locate", "compare", "truncate", "write"}
    \/ step \in {"prune", "remove"} /\ Replaces(j)

\* What it composed is made of the version it read,
Composes(p, j) ==
    /\ j.base.text /\ j.new.text
    /\ j.sec # None => j.sec \in j.new.body
    /\ j.new.junk => raced # {}
    /\ j.cmd = "take" => j.base.gate = None /\ j.new.gate = p
    /\ j.cmd \notin {"take", "assign"} => j.new.gate = j.base.gate

Ready(p, step, j) ==
    /\ Editing(step, j) => Composes(p, j)
    /\ j.cmd \in {"take", "assign"} => j.sec = None
    /\ step \in {"save", "put"} => Replaces(j)
    /\ step \in {"save", "put", "prune", "carry", "remove"} => j.at \in Shelves
    /\ step \in {"list", "carry"} => ~Replaces(j)
    /\ step \in {"get", "put"} => j.name \in Saved

\* ... which, once it has passed the comparison, has all that was acknowledged.
Covered(j) ==
    /\ acked \subseteq j.base.body \cup gone \cup raced
    /\ taken \subseteq {j.base.gate} \cup raced

Own(p) ==
    /\ Ready(p, pc[p], job[p])
    /\ pc[p] \in {"truncate", "write"} => Covered(job[p])
    /\ pc[p] = "write" /\ doc.text => raced # {}

\* So has the stored document, unless it is truncated.
Stored ==
    /\ doc.text => /\ acked \subseteq doc.body \cup gone \cup raced
                   /\ taken \subseteq {doc.gate} \cup raced
    /\ doc.text \/ None \in raced \/ \E q \in Proc : pc[q] = "write"
    /\ doc.junk => raced # {}

Inv == Types /\ Stored /\ \A p \in Proc : Own(p)

-----------------------------------------------------------------------------
(***************************************************************************)
(* Stamps.                                                                 *)
(***************************************************************************)
LEMMA Least ==
  ASSUME NEW T \in SUBSET Nat, T # {}
  PROVE  \E k \in T : \A l \in T : k <= l
<1> DEFINE R == {s \in Nat \X Nat : s[1] < s[2]}
<1>1. IsWellFoundedOn(R, Nat)
  BY NatLessThanWellFounded, Zenon DEF OpToRel
<1>2. PICK k \in T : \A l \in T : <<l, k>> \notin R
  <2> HIDE DEF R
  <2> QED BY <1>1, WFMin, Zenon
<1>3. \A l \in T : ~(l < k)
  BY <1>2
<1> QED BY <1>3

LEMMA Latest ==
  ASSUME NEW names \in SUBSET Saved, names # {}, NEW b \in Nat,
         \A n \in names : n.stamp <= b
  PROVE  \E k \in {n.stamp : n \in names} : \A n \in names : n.stamp <= k
<1> DEFINE T == {c \in Nat : \A n \in names : n.stamp <= c}
<1>1. \A n \in names : n.stamp \in Nat
  BY DEF Saved
<1>2. PICK k \in T : \A l \in T : k <= l
  <2>1. b \in T
    OBVIOUS
  <2> QED BY <2>1, Least
<1>3. \E n \in names : n.stamp = k
  <2> SUFFICES ASSUME \A n \in names : n.stamp # k
               PROVE  FALSE
    OBVIOUS
  <2>1. \A n \in names : n.stamp <= k - 1 /\ k - 1 \in Nat
    BY <1>1, <1>2
  <2>2. k - 1 \in T
    BY <2>1
  <2> QED BY <1>2, <2>2
<1> QED BY <1>2, <1>3

\* The next name on a shelf is one (bodybackup.go, nextBackupName).
LEMMA StampIsNat ==
  ASSUME Types, NEW s \in Shelves, NEW now \in Nat
  PROVE  Stamp(now, shelf[s]) \in Nat
<1>1. CASE \A n \in shelf[s] : n.stamp < now
  BY <1>1 DEF Stamp
<1>2. CASE \E n \in shelf[s] : ~(n.stamp < now)
  <2> DEFINE P(k) == \A n \in shelf[s] : n.stamp <= k
             S == {n.stamp : n \in shelf[s]}
  <2>1. \E k \in S : P(k)
    BY <1>2, Latest DEF Types, Bounded
  <2>2. (CHOOSE k \in S : P(k)) \in S
    BY <2>1
  <2>3. S \subseteq Nat
    BY DEF Types, Saved
  <2>4. Stamp(now, shelf[s]) = 1 + (CHOOSE k \in S : P(k))
    BY <1>2, Zenon DEF Stamp
  <2>5. PICK k \in Nat : Stamp(now, shelf[s]) = 1 + k
    <3> HIDE DEF S, P
    <3> QED BY <2>2, <2>3, <2>4, Zenon
  <2> QED BY <2>5
<1> QED BY <1>1, <1>2

-----------------------------------------------------------------------------
(***************************************************************************)
(* Steps that write no document.                                           *)
(***************************************************************************)
\* The others know what they knew.
LEMMA QuietStep ==
  ASSUME EditsAssumption, Inv, NEW p \in Proc, NEW step \in Steps, NEW j \in Job,
         Goto(p, step, j), UNCHANGED <<doc, Told>>,
         pc[p] # "write", step # "write",
         Ready(p, step, j), step = "truncate" => Covered(j)
  PROVE  /\ pc' \in [Proc -> Steps] /\ job' \in [Proc -> Job]
         /\ Stored' /\ \A q \in Proc : Own(q)'
<1>1. /\ pc' \in [Proc -> Steps] /\ job' \in [Proc -> Job]
      /\ pc'[p] = step /\ job'[p] = j
      /\ \A q \in Proc \ {p} : pc'[q] = pc[q] /\ job'[q] = job[q]
  BY DEF Goto, Inv, Types
<1>2. Stored'
  <2>1. \A q \in Proc : pc[q] = "write" => pc'[q] = "write"
    BY <1>1
  <2> QED BY <2>1 DEF Inv, Stored, Told
<1>3. ASSUME NEW q \in Proc
      PROVE  Own(q)'
  <2>1. CASE q = p
    <3>1. Ready(p, step, j)' /\ (step = "truncate" => Covered(j)')
      BY DEF Ready, Composes, Covered, Told, Editing, Replaces
    <3> QED BY <1>1, <2>1, <3>1 DEF Own, Ready, Composes, Covered, Told, Editing, Replaces
  <2>2. CASE q # p
    BY <1>1, <2>2 DEF Inv, Own, Ready, Composes, Covered, Told, Editing, Replaces
  <2> QED BY <2>1, <2>2
<1> QED BY <1>1, <1>2, <1>3

LEMMA NothingFits ==
  ASSUME EditsAssumption
  PROVE  /\ Nothing \in Job /\ "idle" \in Steps
         /\ \A p : Ready(p, "idle", Nothing)
BY DEF EditsAssumption, Nothing, Job, Empty, Doc, Steps, Ready, Editing, Replaces

\* A command that ends leaves nothing to keep.
LEMMA EndStep ==
  ASSUME EditsAssumption, Inv, NEW p \in Proc, Finish(p), UNCHANGED <<doc, Told>>,
         pc[p] # "write"
  PROVE  /\ pc' \in [Proc -> Steps] /\ job' \in [Proc -> Job]
         /\ Stored' /\ \A q \in Proc : Own(q)'
BY QuietStep, NothingFits DEF Finish

\* What is left of the types, when only the shelves or the place change.
LEMMA SameShelf ==
  ASSUME Types, UNCHANGED shelf
  PROVE  shelf' \in [Shelves -> SUBSET Saved] /\ Bounded'
BY DEF Types, Bounded

LEMMA Whole ==
  ASSUME Inv, UNCHANGED <<doc, Told>>, place' \in Live \cup {"archived"},
         shelf' \in [Shelves -> SUBSET Saved], Bounded',
         pc' \in [Proc -> Steps], job' \in [Proc -> Job], Stored', \A q \in Proc : Own(q)'
  PROVE  Inv'
BY DEF Inv, Types, Told

LEMMA BeginSteps ==
  ASSUME EditsAssumption, Inv, NEW p \in Proc, Begin(p)
  PROVE  Inv'
<1>1. pc[p] = "idle" /\ UNCHANGED <<doc, shelf, Told>> /\ place' \in Live \cup {"archived"}
  BY DEF Begin, Show, Append, Assign, Restore, Archive, Unarchive, Carried, Untouched, History,
         Told, Inv, Types, Live
<1>2. \E step \in {"read", "get", "list"}, j \in Job : Goto(p, step, j) /\ Ready(p, step, j)
  <2>1. CASE Show(p)
    <3>1. PICK s \in Sec, g \in BOOLEAN :
            Goto(p, "read", [Nothing EXCEPT !.cmd = "replace", !.guarded = g, !.sec = s,
                                            !.seen = doc.body])
      BY <2>1 DEF Show, Fresh
    <3>2. doc.body \subseteq Sec
      BY DEF Inv, Types, Doc
    <3> DEFINE j == [Nothing EXCEPT !.cmd = "replace", !.guarded = g, !.sec = s, !.seen = doc.body]
    <3>3. j \in Job
      BY <3>2, NothingFits DEF Nothing, Job, Commands
    <3>4. Ready(p, "read", j)
      BY DEF Ready, Editing, Nothing
    <3> QED BY <3>1, <3>3, <3>4
  <2>2. CASE Append(p)
    <3>1. PICK s \in Sec : Goto(p, "read", [Nothing EXCEPT !.cmd = "append", !.sec = s])
      BY <2>2 DEF Append, Fresh
    <3> DEFINE j == [Nothing EXCEPT !.cmd = "append", !.sec = s]
    <3>2. j \in Job
      BY NothingFits DEF Nothing, Job, Commands
    <3>3. Ready(p, "read", j)
      BY DEF Ready, Editing, Nothing
    <3> QED BY <3>1, <3>2, <3>3
  <2>3. CASE Assign(p)
    <3>1. PICK c \in {"take", "assign"} : Goto(p, "read", [Nothing EXCEPT !.cmd = c])
      BY <2>3 DEF Assign
    <3> DEFINE j == [Nothing EXCEPT !.cmd = c]
    <3>2. j \in Job
      BY NothingFits DEF Nothing, Job, Commands
    <3>3. Ready(p, "read", j)
      BY DEF Ready, Editing, Nothing
    <3> QED BY <3>1, <3>2, <3>3
  <2>4. CASE Restore(p)
    <3>1. PICK n \in shelf[Shelf(place)] :
            Goto(p, "get", [Nothing EXCEPT !.cmd = "restore", !.at = Shelf(place), !.name = n])
      BY <2>4 DEF Restore
    <3>2. Shelf(place) \in Shelves
      BY DEF Shelf, Shelves
    <3>3. n \in Saved
      BY <3>1, <3>2 DEF Inv, Types
    <3> DEFINE j == [Nothing EXCEPT !.cmd = "restore", !.at = Shelf(place), !.name = n]
    <3>4. j \in Job
      BY <3>2, <3>3, NothingFits DEF Nothing, Job, Commands
    <3>5. Ready(p, "get", j)
      BY <3>3 DEF Ready, Editing, Nothing
    <3> QED BY <3>1, <3>4, <3>5
  <2>5. CASE Archive(p) \/ Unarchive(p)
    <3>1. PICK c \in {"archive", "unarchive"} : Goto(p, "list", [Nothing EXCEPT !.cmd = c])
      BY <2>5 DEF Archive, Unarchive, Carried
    <3> DEFINE j == [Nothing EXCEPT !.cmd = c]
    <3>2. j \in Job
      BY NothingFits DEF Nothing, Job, Commands
    <3>3. Ready(p, "list", j)
      BY DEF Ready, Editing, Nothing, Replaces
    <3> QED BY <3>1, <3>2, <3>3
  <2> QED BY <2>1, <2>2, <2>3, <2>4, <2>5 DEF Begin
<1>3. /\ pc' \in [Proc -> Steps] /\ job' \in [Proc -> Job]
      /\ Stored' /\ \A q \in Proc : Own(q)'
  BY <1>1, <1>2, QuietStep DEF Steps
<1> QED BY <1>1, <1>3, SameShelf, Whole DEF Inv

LEMMA Rewritten ==
  ASSUME NEW d \in Doc, NEW b \in SUBSET Sec
  PROVE  [d EXCEPT !.body = b, !.junk = FALSE] \in Doc
BY DEF Doc

\* A version is read, refused or edited (updateOnce).
LEMMA ReadSteps ==
  ASSUME EditsAssumption, Inv, NEW p \in Proc, GetBody(p) \/ Read(p)
  PROVE  Inv'
<1>1. UNCHANGED <<place, doc, shelf, Told>> /\ pc[p] # "write"
  BY DEF GetBody, Read, Rest, History, Told
<1>2. CASE Finish(p)
  BY <1>1, <1>2, EndStep, SameShelf, Whole DEF Inv, Types
<1>3. CASE GetBody(p) /\ ~Finish(p)
  <2> DEFINE j == [Nothing EXCEPT !.cmd = "restore", !.seen = job[p].name.body]
  <2>1. Goto(p, "read", j) /\ job[p].name \in Saved
    BY <1>3 DEF GetBody, Inv, Own, Ready
  <2>2. j \in Job
    BY <2>1, NothingFits DEF Nothing, Job, Commands, Saved
  <2>3. Ready(p, "read", j)
    BY DEF Ready, Editing, Nothing
  <2> HIDE DEF j
  <2> QED BY <1>1, <2>1, <2>2, <2>3, QuietStep, SameShelf, Whole DEF Steps, Inv, Types
<1>4. CASE Read(p) /\ ~Finish(p)
  <2> DEFINE j == [job[p] EXCEPT !.base = doc, !.new = Composed(p, doc), !.at = Shelf(place)]
  <2>1. /\ ~Refused(p) /\ pc[p] = "read"
        /\ Goto(p, IF Overwrites(j) THEN "save" ELSE "locate", j)
    BY <1>4, Zenon DEF Read
  <2>2. /\ job[p] \in Job /\ doc \in Doc /\ doc.text
        /\ job[p].cmd \in {"take", "assign"} => job[p].sec = None
        /\ job[p].cmd = "take" => doc.gate = None
        /\ doc.junk => raced # {}
    BY <2>1 DEF Inv, Types, Own, Ready, Refused, Stored
  <2>3. Composed(p, doc) \in Doc
    <3>1. job[p].seen \subseteq Sec /\ Added(p) \subseteq Sec /\ doc.body \subseteq Sec
      BY <2>2 DEF Job, Added, Doc
    <3>2. CASE job[p].cmd = "append"
      BY <2>2, <3>1, <3>2 DEF Composed, Doc
    <3>3. CASE job[p].cmd \in {"take", "assign"}
      BY <2>2, <3>3 DEF Composed, Doc
    <3>4. CASE job[p].cmd \notin {"append", "take", "assign"}
      <4> DEFINE b == job[p].seen \cup Added(p)
      <4>1. Composed(p, doc) = [doc EXCEPT !.body = b, !.junk = FALSE]
        BY <3>4 DEF Composed
      <4>2. doc \in Doc /\ b \in SUBSET Sec
        BY <2>2, <3>1
      <4> HIDE DEF b
      <4>3. [doc EXCEPT !.body = b, !.junk = FALSE] \in Doc
        BY <4>2, Rewritten
      <4> QED BY <4>1, <4>3
    <3> QED BY <3>2, <3>3, <3>4
  <2>4. j \in Job
    BY <2>2, <2>3 DEF Job, Shelf, Shelves
  <2>5. Composes(p, j)
    BY <2>2 DEF Composes, Composed, Added, Doc, Job
  <2>6. \A step \in {"save", "locate"} :
          (step = "save" => Replaces(j)) => Ready(p, step, j)
    BY <2>2, <2>5 DEF Ready, Editing, Job, Shelf, Shelves
  <2>7. Overwrites(j) => Replaces(j)
    BY DEF Overwrites
  <2> HIDE DEF j
  <2>8. PICK step \in {"save", "locate"} : Goto(p, step, j) /\ Ready(p, step, j)
    BY <2>1, <2>6, <2>7
  <2> QED BY <1>1, <2>4, <2>8, QuietStep, SameShelf, Whole DEF Steps, Inv, Types
<1> QED BY <1>2, <1>3, <1>4

\* A prune that goes on, ends, or lets the edit go on.
LEMMA PruningFits ==
  ASSUME EditsAssumption, Inv, NEW p \in Proc, NEW drop \in SUBSET Saved, Pruning(p, drop),
         UNCHANGED <<doc, Told>>, pc[p] \in {"prune", "carry", "remove"}
  PROVE  /\ pc' \in [Proc -> Steps] /\ job' \in [Proc -> Job]
         /\ Stored' /\ \A q \in Proc : Own(q)'
<1>1. CASE Finish(p)
  BY <1>1, EndStep
<1>2. CASE ~Finish(p)
  <2> DEFINE j == [job[p] EXCEPT !.todo = drop]
  <2>1. PICK step \in {"remove", "locate"} :
          /\ Goto(p, step, j)
          /\ step = "locate" => Replaces(job[p])
    BY <1>2 DEF Pruning
  <2>2. job[p] \in Job /\ Ready(p, pc[p], job[p])
    BY DEF Inv, Types, Own
  <2>3. j \in Job /\ Replaces(j) = Replaces(job[p])
    BY <2>2 DEF Job, Replaces
  <2>4. pc[p] # "carry" \/ ~Replaces(job[p])
    BY <2>2 DEF Ready
  <2>5. Ready(p, step, j)
    BY <2>1, <2>2, <2>3, <2>4 DEF Ready, Editing, Composes, Job
  <2> HIDE DEF j
  <2> QED BY <2>1, <2>3, <2>5, QuietStep DEF Steps
<1> QED BY <1>1, <1>2

LEMMA FewerStamps ==
  ASSUME Types, shelf' \in [Shelves -> SUBSET Saved],
         \A s \in Shelves : \A n \in shelf'[s] : \E r \in Shelves : n \in shelf[r]
  PROVE  Bounded'
BY DEF Types, Bounded

\* The body that will be overwritten is saved, and the shelf pruned.
LEMMA ShelfSteps ==
  ASSUME EditsAssumption, Inv, NEW p \in Proc,
         ListShelf(p) \/ PutBody(p) \/ ListPrune(p) \/ RemoveOne(p)
  PROVE  Inv'
<1>1. UNCHANGED <<place, doc, Told>> /\ pc[p] # "write"
  BY DEF ListShelf, PutBody, ListPrune, RemoveOne, Rest, History, Told
<1>2. job[p] \in Job /\ Ready(p, pc[p], job[p])
  BY DEF Inv, Types, Own
<1>3. CASE ListShelf(p)
  <2>1. PICK now \in Now :
          Goto(p, "put", [job[p] EXCEPT !.name = [stamp |-> Stamp(now, shelf[job[p].at]),
                                                  body |-> job[p].base.body],
                                        !.older = Kept])
    BY <1>3 DEF ListShelf
  <2> DEFINE n == [stamp |-> Stamp(now, shelf[job[p].at]), body |-> job[p].base.body]
             j == [job[p] EXCEPT !.name = n, !.older = Kept]
  <2>2. job[p].at \in Shelves /\ Composes(p, job[p]) /\ Replaces(job[p])
    BY <1>2, <1>3 DEF ListShelf, Ready, Editing
  <2>3. n \in Saved
    <3>1. Stamp(now, shelf[job[p].at]) \in Nat
      BY <2>2, StampIsNat DEF Inv, EditsAssumption
    <3>2. job[p].base.body \subseteq Sec
      BY <1>2 DEF Job, Doc
    <3> QED BY <3>1, <3>2 DEF Saved
  <2>4. Kept \subseteq Saved
    BY DEF Kept, Inv, Types, Shelves
  <2>5. j \in Job /\ Ready(p, "put", j)
    <3> HIDE DEF n
    <3> QED BY <1>2, <2>2, <2>3, <2>4 DEF Job, Ready, Editing, Composes, Replaces
  <2>6. Goto(p, "put", j)
    BY <2>1
  <2>7. UNCHANGED shelf
    BY <1>3 DEF ListShelf, Rest
  <2> HIDE DEF j, n
  <2> QED BY <1>1, <2>5, <2>6, <2>7, QuietStep, SameShelf, Whole DEF Steps, Inv, Types
<1>4. CASE PutBody(p)
  <2>1. job[p].name \in Saved
    BY <1>2, <1>4 DEF PutBody, Ready
  <2>2. shelf' \in [Shelves -> SUBSET Saved] /\ Bounded'
    <3>0. job[p].at \in Shelves
      BY <1>2, <1>4 DEF PutBody, Ready
    <3>1. /\ shelf' \in [Shelves -> SUBSET Saved]
          /\ \A s \in Shelves : shelf'[s] \subseteq shelf[s] \cup {job[p].name}
      BY <1>4, <2>1, <3>0 DEF PutBody, Inv, Types
    <3>2. PICK b \in Nat : \A s \in Shelves : \A n \in shelf[s] : n.stamp <= b
      BY DEF Inv, Types, Bounded
    <3>3. PICK c \in Nat : b <= c /\ job[p].name.stamp <= c
      BY <2>1 DEF Saved
    <3>4. \A s \in Shelves : \A n \in shelf'[s] : n \in shelf[s] \/ n = job[p].name
      BY <3>1
    <3>5. \A s \in Shelves : \A n \in shelf[s] : n.stamp \in Nat
      BY DEF Inv, Types, Saved
    <3>6. \A s \in Shelves : \A n \in shelf'[s] : n.stamp <= c
      BY <3>2, <3>3, <3>4, <3>5
    <3> QED BY <3>1, <3>6 DEF Bounded
  <2>3. Goto(p, "prune", job[p]) /\ Ready(p, "prune", job[p])
    BY <1>2, <1>4 DEF PutBody, Ready, Editing
  <2> QED BY <1>1, <1>2, <2>2, <2>3, QuietStep, Whole DEF Steps, Inv, Types
<1>5. CASE ListPrune(p)
  <2>1. job[p].at \in Shelves
    BY <1>2, <1>5 DEF ListPrune, Ready
  <2>2. Surplus(shelf[job[p].at]) \subseteq Saved
    BY <2>1 DEF Surplus, Inv, Types
  <2> QED BY <1>1, <1>5, <2>2, <2>1, PruningFits, SameShelf, Whole DEF ListPrune, Rest, Inv, Types
<1>6. CASE RemoveOne(p)
  <2>1. PICK n \in job[p].todo :
          /\ shelf' = [shelf EXCEPT ![job[p].at] = @ \ {n}]
          /\ Pruning(p, job[p].todo \ {n})
    BY <1>6 DEF RemoveOne
  <2>2. shelf' \in [Shelves -> SUBSET Saved] /\ \A s \in Shelves : shelf'[s] \subseteq shelf[s]
    <3>1. job[p].at \in Shelves
      BY <1>2, <1>6 DEF RemoveOne, Ready
    <3> QED BY <2>1, <3>1 DEF Inv, Types
  <2>3. Bounded'
    BY <2>2, FewerStamps DEF Inv
  <2>4. job[p].todo \ {n} \subseteq Saved
    BY <1>2 DEF Job
  <2> QED BY <1>1, <1>6, <2>1, <2>2, <2>3, <2>4, PruningFits, Whole DEF RemoveOne, Inv, Types
<1> QED BY <1>3, <1>4, <1>5, <1>6

\* A lost attempt is made again or is the last (errEditRaced).
LEMMA RetryStep ==
  ASSUME EditsAssumption, Inv, NEW p \in Proc, Retry(p), UNCHANGED <<doc, Told>>,
         pc[p] = "compare"
  PROVE  /\ pc' \in [Proc -> Steps] /\ job' \in [Proc -> Job]
         /\ Stored' /\ \A q \in Proc : Own(q)'
<1>1. CASE Finish(p)
  BY <1>1, EndStep
<1>2. CASE ~Finish(p)
  <2> DEFINE j == [job[p] EXCEPT !.tries = @ + 1, !.base = Empty, !.new = Empty,
                                 !.name = None, !.older = {}, !.at = "none"]
  <2>1. Goto(p, "read", j) /\ job[p].tries + 1 # MaxAttempts
    BY <1>2 DEF Retry
  <2>2. job[p] \in Job /\ Ready(p, pc[p], job[p])
    BY DEF Inv, Types, Own
  <2>3. job[p].tries + 1 \in 0 .. MaxAttempts - 1
    BY <2>1, <2>2 DEF Job, EditsAssumption
  <2>4. j \in Job
    BY <2>2, <2>3, ZenonT(40) DEF Job, Empty, Doc
  <2>5. Ready(p, "read", j)
    BY <2>2 DEF Ready, Editing, Job
  <2> HIDE DEF j
  <2> QED BY <2>1, <2>4, <2>5, QuietStep DEF Steps
<1> QED BY <1>1, <1>2

LEMMA CarrySteps ==
  ASSUME EditsAssumption, Inv, NEW p \in Proc, ListBodies(p) \/ CarryOne(p)
  PROVE  Inv'
<1>1. UNCHANGED <<place, doc, Told>> /\ pc[p] # "write"
  BY DEF ListBodies, CarryOne, Rest, History, Told
<1>2. job[p] \in Job /\ Ready(p, pc[p], job[p])
  BY DEF Inv, Types, Own
<1>3. Source(p) \in Shelves /\ Target(p) \in Shelves
  BY DEF Source, Target, Shelves
<1>4. CASE ListBodies(p)
  <2> DEFINE j == [job[p] EXCEPT !.todo = shelf[Source(p)], !.at = Target(p)]
  <2>1. Goto(p, "carry", j)
    BY <1>4 DEF ListBodies
  <2>2. shelf[Source(p)] \subseteq Saved
    BY <1>3 DEF Inv, Types
  <2>3. j \in Job
    BY <1>2, <1>3, <2>2 DEF Job
  <2>4. Ready(p, "carry", j)
    BY <1>2, <1>3, <1>4 DEF ListBodies, Ready, Editing, Replaces, Job
  <2> HIDE DEF j
  <2> QED BY <1>1, <1>4, <2>1, <2>3, <2>4, QuietStep, SameShelf, Whole
          DEF ListBodies, Rest, Steps, Inv, Types
<1>5. CASE CarryOne(p) /\ Finish(p) /\ UNCHANGED shelf
  BY <1>1, <1>5, EndStep, SameShelf, Whole DEF Inv, Types
<1>6. CASE CarryOne(p) /\ ~(Finish(p) /\ UNCHANGED shelf)
  <2>1. PICK n \in job[p].todo :
          /\ n \in shelf[Source(p)]
          /\ shelf' = [shelf EXCEPT ![Source(p)] = @ \ {n}, ![Target(p)] = @ \cup {n}]
          /\ Goto(p, "carry", [job[p] EXCEPT !.todo = @ \ {n}])
    BY <1>6 DEF CarryOne
  <2>2. n \in Saved
    BY <1>2, <2>1 DEF Job
  <2>3. /\ shelf' \in [Shelves -> SUBSET Saved]
        /\ \A s \in Shelves : \A m \in shelf'[s] : \E r \in Shelves : m \in shelf[r]
    BY <1>3, <2>1, <2>2 DEF Inv, Types
  <2>4. Bounded'
    BY <2>3, FewerStamps DEF Inv
  <2> DEFINE j == [job[p] EXCEPT !.todo = @ \ {n}]
  <2>5. j \in Job
    BY <1>2 DEF Job
  <2>6. Ready(p, "carry", j)
    BY <1>2, <1>6 DEF CarryOne, Ready, Editing, Replaces, Job
  <2> HIDE DEF j
  <2> QED BY <1>1, <2>1, <2>3, <2>4, <2>5, <2>6, QuietStep, Whole, SMTT(30) DEF Steps, Inv, Types, j
<1> QED BY <1>4, <1>5, <1>6

LEMMA GuardSteps ==
  ASSUME EditsAssumption, Inv, NEW p \in Proc, Locate(p) \/ Compare(p)
  PROVE  Inv'
<1>1. UNCHANGED <<place, doc, shelf, Told>> /\ pc[p] # "write"
  BY DEF Locate, Compare, Rest, History, Told
<1>2. job[p] \in Job /\ Ready(p, pc[p], job[p])
  BY DEF Inv, Types, Own
<1>3. CASE Locate(p)
  <2> DEFINE j == [job[p] EXCEPT !.at = place]
  <2>1. Goto(p, "compare", j)
    BY <1>3 DEF Locate
  <2>2. j \in Job
    BY <1>2 DEF Job, Inv, Types
  <2>3. Ready(p, "compare", j)
    BY <1>2, <1>3 DEF Locate, Ready, Editing, Composes, Job
  <2> HIDE DEF j
  <2> QED BY <1>1, <2>1, <2>2, <2>3, QuietStep, SameShelf, Whole DEF Steps, Inv, Types
<1>4. CASE Compare(p) /\ Retry(p)
  BY <1>1, <1>4, RetryStep, SameShelf, Whole DEF Compare, Inv, Types
<1>5. CASE Compare(p) /\ ~Retry(p)
  <2>1. Goto(p, "truncate", job[p]) /\ doc = job[p].base /\ pc[p] = "compare"
    BY <1>5 DEF Compare
  <2>2. Ready(p, "truncate", job[p]) /\ Covered(job[p])
    BY <1>2, <2>1 DEF Ready, Editing, Composes, Covered, Inv, Stored
  <2> QED BY <1>1, <1>2, <2>1, <2>2, QuietStep, SameShelf, Whole DEF Steps, Inv, Types
<1> QED BY <1>3, <1>4, <1>5

(***************************************************************************)
(* Steps that write the document, and the end of a process.                *)
(***************************************************************************)
LEMMA TruncateStep ==
  ASSUME EditsAssumption, Inv, NEW p \in Proc, Truncate(p)
  PROVE  Inv'
<1>1. /\ pc[p] = "truncate" /\ doc' = Empty /\ UNCHANGED <<place, shelf, Told, job>>
      /\ pc' = [pc EXCEPT ![p] = "write"]
  BY DEF Truncate, Goto, History, Told, Inv, Types
<1>2. Types'
  BY <1>1 DEF Inv, Types, Bounded, Told, Empty, Doc, Steps
<1>3. Stored'
  BY <1>1 DEF Inv, Types, Stored, Told, Empty
<1>4. ASSUME NEW q \in Proc
      PROVE  Own(q)'
  <2>1. pc'[q] = (IF q = p THEN "write" ELSE pc[q]) /\ job'[q] = job[q] /\ doc'.text = FALSE
    BY <1>1 DEF Inv, Types, Empty
  <2> QED BY <1>1, <2>1 DEF Inv, Own, Ready, Editing, Replaces, Composes, Covered, Told
<1> QED BY <1>2, <1>3, <1>4 DEF Inv

LEMMA WriteStep ==
  ASSUME EditsAssumption, Inv, NEW p \in Proc, Write(p)
  PROVE  Inv'
<1> DEFINE j == job[p]
<1>1. /\ pc[p] = "write" /\ j \in Job /\ Composes(p, j) /\ Covered(j)
      /\ j.cmd \in {"take", "assign"} => j.sec = None
      /\ doc.text => raced # {}
  BY DEF Write, Inv, Types, Own, Ready, Editing
<1>2. /\ doc'.text /\ doc'.body = j.new.body /\ doc'.gate = j.new.gate
      /\ doc'.junk => j.new.junk \/ doc.text
      /\ doc' \in Doc
  BY <1>1 DEF Write, WrittenOver, Composes, Job, Doc
<1>3. /\ acked' = acked \cup Added(p) /\ gone' = gone \cup (j.base.body \ j.new.body)
      /\ raced \subseteq raced'
      /\ (\E q \in Proc \ {p} : InWindow(q)) => raced' = raced \cup {p} \cup Added(p)
      /\ UNCHANGED <<place, shelf>>
      /\ pc'[p] = "idle" /\ job'[p] = Nothing
      /\ \A q \in Proc \ {p} : pc'[q] = pc[q] /\ job'[q] = job[q]
      /\ pc' \in [Proc -> Steps] /\ job' \in [Proc -> Job]
  BY NothingFits DEF Write, Finish, Goto, Inv, Types
<1>4. /\ j.cmd = "take" => taken' = taken \cup {p}
      /\ j.cmd = "assign" => taken' = {}
      /\ j.cmd \notin {"take", "assign"} => taken' = taken
  BY DEF Write
<1>5. Added(p) \subseteq Sec /\ Added(p) \subseteq j.new.body
  BY <1>1 DEF Added, Job, Composes
<1>6. Types'
  <2>1. acked' \subseteq Sec /\ taken' \subseteq Proc
    BY <1>3, <1>4, <1>5 DEF Inv, Types
  <2>2. gone' \subseteq Sec
    BY <1>1, <1>3 DEF Inv, Types, Job, Doc
  <2>3. raced' \subseteq Proc \cup Sec \cup {None}
    BY <1>5 DEF Write, Inv, Types
  <2> QED BY <1>2, <1>3, <2>1, <2>2, <2>3 DEF Inv, Types, Bounded
<1>7. Stored'
  <2>1. acked' \subseteq doc'.body \cup gone' \cup raced'
    BY <1>1, <1>2, <1>3, <1>5 DEF Covered
  <2>2. taken' \subseteq {doc'.gate} \cup raced'
    <3>1. CASE j.cmd = "take"
      <4>1. taken \subseteq {None} \cup raced /\ None \notin taken
        BY <1>1, <3>1 DEF Composes, Covered, EditsAssumption, Inv, Types
      <4> QED BY <1>1, <1>2, <1>3, <1>4, <3>1, <4>1 DEF Composes
    <3>2. CASE j.cmd = "assign"
      BY <1>4, <3>2
    <3>3. CASE j.cmd \notin {"take", "assign"}
      BY <1>1, <1>2, <1>3, <1>4, <3>3 DEF Composes, Covered
    <3> QED BY <3>1, <3>2, <3>3
  <2>3. doc'.junk => raced' # {}
    BY <1>1, <1>2, <1>3 DEF Composes
  <2> QED BY <1>2, <2>1, <2>2, <2>3 DEF Stored
<1>8. ASSUME NEW q \in Proc
      PROVE  Own(q)'
  <2>1. CASE q = p
    BY <1>3, <2>1 DEF Own, Ready, Editing, Nothing
  <2>2. CASE q # p
    <3>1. Ready(q, pc[q], job[q])'
      BY <1>3, <2>2 DEF Inv, Own, Ready, Editing, Replaces, Composes
    <3>2. CASE InWindow(q)
      <4>1. raced' = raced \cup {p} \cup Added(p)
        BY <1>3, <2>2, <3>2
      <4>2. taken' \subseteq taken \cup {p}
        BY <1>4
      <4>3. Covered(job[q])'
        BY <1>3, <2>2, <3>2, <4>1, <4>2 DEF Covered, Inv, Own, InWindow
      <4> QED BY <1>3, <2>2, <3>1, <4>1, <4>3 DEF Own
    <3>3. CASE ~InWindow(q)
      BY <1>3, <2>2, <3>1, <3>3 DEF Own, InWindow
    <3> QED BY <3>2, <3>3
  <2> QED BY <2>1, <2>2
<1> QED BY <1>6, <1>7, <1>8 DEF Inv

LEMMA CrashStep ==
  ASSUME EditsAssumption, Inv, NEW p \in Proc, Crash(p)
  PROVE  Inv'
<1>1. /\ UNCHANGED <<place, doc, shelf, acked, taken, gone>>
      /\ raced \subseteq raced' /\ raced' \subseteq raced \cup {None}
      /\ pc[p] = "write" => None \in raced'
      /\ pc'[p] = "idle" /\ job'[p] = Nothing
      /\ \A q \in Proc \ {p} : pc'[q] = pc[q] /\ job'[q] = job[q]
      /\ pc' \in [Proc -> Steps] /\ job' \in [Proc -> Job]
  BY NothingFits DEF Crash, Finish, Goto, Inv, Types
<1>2. Types'
  BY <1>1 DEF Inv, Types, Bounded
<1>3. Stored'
  BY <1>1 DEF Inv, Stored
<1>4. ASSUME NEW q \in Proc
      PROVE  Own(q)'
  <2>1. CASE q = p
    BY <1>1, <2>1 DEF Own, Ready, Editing, Nothing
  <2>2. CASE q # p
    BY <1>1, <2>2 DEF Inv, Own, Ready, Editing, Replaces, Composes, Covered
  <2> QED BY <2>1, <2>2
<1> QED BY <1>2, <1>3, <1>4 DEF Inv

LEMMA MoveStep ==
  ASSUME Inv, Move
  PROVE  Inv'
BY ZenonT(40) DEF Move, History, Told, Inv, Types, Bounded, Stored, Own, Ready, Editing, Replaces, Composes,
       Covered

-----------------------------------------------------------------------------
(***************************************************************************)
(* The theorems.                                                           *)
(***************************************************************************)
LEMMA InitInv == ASSUME EditsAssumption, Init PROVE Inv
<1>1. Types
  <2>1. \A s \in Shelves : shelf[s] = {}
    BY DEF Init
  <2>2. Bounded
    <3>1. 0 \in Nat /\ \A s \in Shelves : \A n \in shelf[s] : n.stamp <= 0
      BY <2>1
    <3> QED BY <3>1, Zenon DEF Bounded
  <2>3. shelf \in [Shelves -> SUBSET Saved]
    BY DEF Init
  <2>4. job \in [Proc -> Job] /\ pc \in [Proc -> Steps]
    BY NothingFits DEF Init
  <2> QED BY <2>2, <2>3, <2>4 DEF Init, Types, Live, Doc
<1>2. Stored
  BY DEF Init, Stored
<1>3. \A p \in Proc : Own(p)
  BY DEF Init, Own, Ready, Editing, Nothing
<1> QED BY <1>1, <1>2, <1>3 DEF Inv

LEMMA NextInv ==
  ASSUME EditsAssumption, Inv, [Next]_vars
  PROVE  Inv'
<1>1. CASE UNCHANGED vars
  BY <1>1 DEF vars, Inv, Types, Bounded, Stored, Own, Ready, Editing, Replaces, Composes, Covered
<1>2. CASE Move
  BY <1>2, MoveStep
<1>3. ASSUME NEW p \in Proc, Begin(p) \/ Step(p) \/ Crash(p)
      PROVE  Inv'
  BY <1>3, BeginSteps, ReadSteps, ShelfSteps, CarrySteps, GuardSteps, TruncateStep, WriteStep,
     CrashStep DEF Step
<1> QED BY <1>1, <1>2, <1>3 DEF Next

\* What every process has composed, and what is stored, has all that was
\* acknowledged, but for writes that raced: the theorems below are read off it.
THEOREM Invariant == Spec => []Inv
<1>1. Init => Inv
  BY InitInv, EditsAssumption
<1>2. Inv /\ [Next]_vars => Inv'
  BY NextInv, EditsAssumption
<1> QED BY <1>1, <1>2, PTL DEF Spec

\* Every variable has its type, an edit gives up after MaxAttempts, and only one that
\* passed its comparison, with a document that parses, goes on to write (edit.go).
THEOREM EditsTypes == Spec => []TypeOK
<1>1. Inv => TypeOK
  <2> SUFFICES ASSUME Inv PROVE TypeOK
    OBVIOUS
  <2>1. \A p \in Proc : job[p] \in Job /\ Own(p)
    BY DEF Inv, Types
  <2>2. \A p \in Proc :
          /\ job[p].cmd \in Commands \cup {"none"} /\ job[p].tries \in 0 .. MaxAttempts - 1
          /\ job[p].base \in Doc /\ job[p].new \in Doc /\ job[p].todo \subseteq Saved
    BY <2>1 DEF Job
  <2>3. \A p \in Proc : InWindow(p) => job[p].base.text
    BY <2>1 DEF Own, Ready, Editing, Composes, InWindow
  <2> QED BY <2>2, <2>3 DEF TypeOK, Inv, Types
<1> QED BY <1>1, Invariant, PTL

\* A section whose edit reported success is in the document until a replacement leaves
\* it out, and the document is one edit's text, for any number of writers, but for
\* edits written while another stood in its window (RewriteExisting, updateOnce).
THEOREM EditsKept == Spec => []AckedKept
<1>1. Inv => AckedKept
  BY DEF Inv, Stored, AckedKept, Settled
<1> QED BY <1>1, Invariant, PTL

\* Of any number of processes that take an empty dispatch gate one is told that it is
\* theirs, with the same exception (mgcli/edit.go, --if-assignee).
THEOREM GateTaken == Spec => []GateHeld
<1>1. Inv => GateHeld
  BY DEF Inv, Stored, GateHeld, Settled
<1> QED BY <1>1, Invariant, PTL
-----------------------------------------------------------------------------
(***************************************************************************)
(* The saved bodies: names are in write order, so what a prune keeps is    *)
(* the newest Keep, and what it removes has Keep newer ones.               *)
(***************************************************************************)
\* Of the bodies of a set, the oldest.
LEMMA Oldest ==
  ASSUME EditsAssumption, NEW R \in SUBSET Saved, R # {}
  PROVE  \E m \in R : \A n \in R \ {m} : After(n, m)
<1>1. \A n \in R : n.stamp \in Nat /\ n.body \in SUBSET Sec /\ Hash[n.body] \in Nat
  BY DEF Saved, EditsAssumption
<1> DEFINE S == {n.stamp : n \in R}
<1>2. PICK k \in S : \A l \in S : k <= l
  <2>1. S \in SUBSET Nat /\ S # {}
    BY <1>1
  <2> HIDE DEF S
  <2> QED BY <2>1, Least
<1> DEFINE T == {n \in R : n.stamp = k}
<1> DEFINE H == {Hash[n.body] : n \in T}
<1>3. PICK h \in H : \A l \in H : h <= l
  <2>1. H \in SUBSET Nat /\ H # {}
    BY <1>1, <1>2
  <2> HIDE DEF H
  <2> QED BY <2>1, Least
<1>4. PICK m \in T : Hash[m.body] = h
  BY <1>3
<1>5. ASSUME NEW n \in R \ {m}
      PROVE  After(n, m)
  <2>1. k <= n.stamp /\ m.stamp = k
    BY <1>2, <1>4
  <2>2. CASE n.stamp = k
    <3>1. h <= Hash[n.body]
      BY <1>3, <2>2
    <3>2. n.body # m.body
      BY <1>4, <2>1, <2>2 DEF Saved
    <3>3. Hash[n.body] # Hash[m.body]
      BY <1>1, <1>4, <3>2 DEF EditsAssumption
    <3> QED BY <1>1, <1>4, <2>1, <2>2, <3>1, <3>3 DEF After
  <2>3. CASE n.stamp # k
    BY <1>1, <2>1, <2>3 DEF After
  <2> QED BY <2>2, <2>3
<1> QED BY <1>4, <1>5

\* All but the surplus are Keep at most (bodybackup.go, pruneBodyBackups).
LEMMA NewestKept ==
  ASSUME EditsAssumption, NEW names \in SUBSET Saved, IsFiniteSet(names)
  PROVE  Cardinality(names \ Surplus(names)) <= Keep
<1> DEFINE R == names \ Surplus(names)
<1>1. CASE R = {}
  <2>1. Cardinality(R) = 0
    BY <1>1, FS_EmptySet
  <2> QED BY <2>1 DEF EditsAssumption
<1>2. CASE R # {}
  <2>1. PICK m \in R : \A n \in R \ {m} : After(n, m)
    BY <1>2, Oldest
  <2> DEFINE L == NewerThan(m, names)
  <2>2. IsFiniteSet(L) /\ L \subseteq names
    BY FS_Subset DEF NewerThan
  <2>3. ~(Cardinality(L) >= Keep)
    BY DEF Surplus
  <2>4. R \subseteq L \cup {m}
    BY <2>1 DEF NewerThan
  <2>5. Cardinality(L \cup {m}) <= Cardinality(L) + 1 /\ IsFiniteSet(L \cup {m})
    <3>1. Cardinality(L) \in Nat
      BY <2>2, FS_CardinalityType
    <3> HIDE DEF L
    <3>2. /\ IsFiniteSet(L \cup {m})
          /\ \/ Cardinality(L \cup {m}) = Cardinality(L)
             \/ Cardinality(L \cup {m}) = Cardinality(L) + 1
      BY <2>2, FS_AddElement
    <3> QED BY <3>1, <3>2
  <2>6. Cardinality(R) <= Cardinality(L \cup {m})
    BY <2>4, <2>5, FS_Subset
  <2>7. Cardinality(L) \in Nat /\ Cardinality(R) \in Nat /\ Cardinality(L \cup {m}) \in Nat
    BY <2>2, <2>4, <2>5, FS_Subset, FS_CardinalityType
  <2>8. Keep \in Nat
    BY DEF EditsAssumption
  <2> HIDE DEF R, L
  <2>9. Cardinality(R) <= Keep
    BY <2>3, <2>5, <2>6, <2>7, <2>8
  <2> QED BY <2>9 DEF R
<1> QED BY <1>1, <1>2

LEMMA AfterOrders ==
  ASSUME EditsAssumption, NEW l \in Saved, NEW m \in Saved, NEW n \in Saved
  PROVE  /\ ~After(n, n)
         /\ After(l, m) /\ After(m, n) => After(l, n)
<1>1. \A x \in {l, m, n} : x.stamp \in Nat /\ Hash[x.body] \in Nat
  BY DEF Saved, EditsAssumption
<1> QED BY <1>1 DEF After

\* A name on a shelf is given after all that are there (nextBackupName: "name order IS
\* write order").
LEMMA StampIsLatest ==
  ASSUME EditsAssumption, Types, NEW s \in Shelves, NEW now \in Nat, NEW m \in shelf[s],
         NEW body
  PROVE  ~After(m, [stamp |-> Stamp(now, shelf[s]), body |-> body])
<1>1. m.stamp \in Nat /\ Stamp(now, shelf[s]) \in Nat
  BY StampIsNat DEF Types, Saved
<1>2. m.stamp < Stamp(now, shelf[s])
  <2>1. CASE \A n \in shelf[s] : n.stamp < now
    BY <2>1 DEF Stamp
  <2>2. CASE \E n \in shelf[s] : ~(n.stamp < now)
    <3> DEFINE P(k) == \A n \in shelf[s] : n.stamp <= k
               S == {n.stamp : n \in shelf[s]}
               c == CHOOSE k \in S : P(k)
    <3>1. \E k \in S : P(k)
      BY Latest DEF Types, Bounded
    <3>2. c \in S /\ P(c)
      BY <3>1
    <3>3. Stamp(now, shelf[s]) = 1 + c
      BY <2>2, Zenon DEF Stamp
    <3>4. c \in Nat /\ m.stamp <= c
      BY <3>2 DEF Types, Saved
    <3> HIDE DEF c
    <3> QED BY <1>1, <3>3, <3>4
  <2> QED BY <2>1, <2>2
<1> QED BY <1>1, <1>2 DEF After
-----------------------------------------------------------------------------
(***************************************************************************)
(* What a body that will be overwritten has on the shelves, and what a     *)
(* shelf holds beside what somebody is about to remove from it.            *)
(***************************************************************************)
Outdone(n) == Cardinality(NewerThan(n, Kept)) >= Keep
Spared(n) == n \in Saved /\ (n \in Kept \/ Outdone(n))
TwoShelves == "two shelves" \in marks

\* The name is saved or outdone, and was in order when it was given on the only shelf.
Shelved(j) == Spared(j.name) /\ (TwoShelves \/ NewerThan(j.name, j.older) = {})

Saving(step, j) ==
    /\ step = "remove" => \A n \in j.todo : Outdone(n)
    /\ step \in {"prune", "remove"} /\ Replaces(j) => Shelved(j)
    /\ step \in {"locate", "compare", "truncate", "write"} /\ Overwrites(j) => Shelved(j)
    /\ ~TwoShelves =>
         /\ step = "put" => NewerThan(j.name, j.older) = {}
         /\ step \in {"save", "put"} => j.at = "live"
         /\ step \notin {"list", "carry"}

OneShelf == TwoShelves \/ (shelf["archived"] = {} /\ place \in Live)

\* What no process is about to remove; and who is about to prune.
Staying(s) ==
    {n \in shelf[s] : \A q \in Proc : pc[q] = "remove" /\ job[q].at = s => n \notin job[q].todo}
WillPrune(q, s) == pc[q] \in {"prune", "carry"} /\ job[q].at = s
Trimmed ==
    "cut" \in marks \/ \A s \in Shelves : \/ \E q \in Proc : WillPrune(q, s)
                                          \/ Cardinality(Staying(s)) <= Keep

Bodies ==
    /\ \A s \in Shelves : IsFiniteSet(shelf[s])
    /\ OneShelf /\ Trimmed
    /\ \A q \in Proc : /\ Saving(pc[q], job[q])
                       /\ pc[q] = "carry" => job[q].at = Target(q)

LEMMA GotoEffect ==
  ASSUME Types, NEW p \in Proc, NEW step, NEW j, Goto(p, step, j)
  PROVE  /\ pc'[p] = step /\ job'[p] = j
         /\ \A q \in Proc \ {p} : pc'[q] = pc[q] /\ job'[q] = job[q]
BY DEF Goto, Types

LEMMA KeptFinite ==
  ASSUME Types, Bodies
  PROVE  IsFiniteSet(Kept) /\ Kept \subseteq Saved
<1>1. IsFiniteSet(shelf["live"]) /\ IsFiniteSet(shelf["archived"])
  BY DEF Bodies, Shelves
<1> QED BY <1>1, FS_Union DEF Kept, Types, Shelves

\* More newer bodies are no fewer.
LEMMA MoreNewer ==
  ASSUME NEW A, NEW B, IsFiniteSet(B), A \subseteq B, Cardinality(A) >= Keep,
         EditsAssumption
  PROVE  Cardinality(B) >= Keep
<1>1. IsFiniteSet(A) /\ Cardinality(A) <= Cardinality(B)
  BY FS_Subset
<1>2. Cardinality(A) \in Nat /\ Cardinality(B) \in Nat /\ Keep \in Nat
  BY <1>1, FS_CardinalityType DEF EditsAssumption
<1> QED BY <1>1, <1>2

\* A body is added, or one that is outdone is removed: what was spared is.
LEMMA StaySpared ==
  ASSUME EditsAssumption, Types, Types', Bodies, IsFiniteSet(Kept'),
         \/ Kept \subseteq Kept'
         \/ \E m \in Saved : Outdone(m) /\ Kept \ {m} \subseteq Kept'
  PROVE  \A n \in Saved : (Outdone(n) => Outdone(n)') /\ (Spared(n) => Spared(n)')
<1> SUFFICES ASSUME NEW n \in Saved
             PROVE  (Outdone(n) => Outdone(n)') /\ (n \in Kept => Spared(n)')
  BY DEF Spared
<1>0. IsFiniteSet(Kept) /\ Kept \subseteq Saved
  BY KeptFinite
<1>1. \A x : IsFiniteSet(NewerThan(x, Kept')) /\ NewerThan(x, Kept)' = NewerThan(x, Kept')
  <2>1. \A x : NewerThan(x, Kept') \subseteq Kept'
    BY DEF NewerThan
  <2>2. \A x : NewerThan(x, Kept)' = NewerThan(x, Kept')
    BY DEF NewerThan, After
  <2> QED BY <2>1, <2>2, FS_Subset
<1>2. CASE Kept \subseteq Kept'
  <2>1. NewerThan(n, Kept) \subseteq NewerThan(n, Kept')
    BY <1>2 DEF NewerThan
  <2> QED BY <1>1, <1>2, <2>1, MoreNewer DEF Outdone, Spared
<1>3. ASSUME NEW m \in Saved, Outdone(m), Kept \ {m} \subseteq Kept'
      PROVE  (Outdone(n) => Outdone(n)') /\ (n \in Kept => Spared(n)')
  <2>1. NewerThan(m, Kept) \subseteq NewerThan(m, Kept')
    BY <1>0, <1>3, AfterOrders DEF NewerThan
  <2>2. Outdone(m)'
    BY <1>1, <1>3, <2>1, MoreNewer DEF Outdone
  <2>3. ASSUME Outdone(n)
        PROVE  Outdone(n)'
    <3>1. CASE m \in NewerThan(n, Kept)
      <4>1. NewerThan(m, Kept) \subseteq NewerThan(n, Kept')
        BY <1>0, <1>3, <3>1, AfterOrders DEF NewerThan
      <4> QED BY <1>1, <1>3, <4>1, MoreNewer DEF Outdone
    <3>2. CASE m \notin NewerThan(n, Kept)
      <4>1. NewerThan(n, Kept) \subseteq NewerThan(n, Kept')
        BY <1>3, <3>2 DEF NewerThan
      <4> QED BY <1>1, <2>3, <4>1, MoreNewer DEF Outdone
    <3> QED BY <3>1, <3>2
  <2> QED BY <1>3, <2>2, <2>3 DEF Spared
<1> QED BY <1>2, <1>3

\* What a process has in hand stays so, when what was spared does.
LEMMA SavingStays ==
  ASSUME Types, NEW step, NEW j \in Job, Saving(step, j), marks \subseteq marks',
         \A n \in Saved : (Outdone(n) => Outdone(n)') /\ (Spared(n) => Spared(n)')
  PROVE  Saving(step, j)'
<1>1. j.todo \subseteq Saved
  BY DEF Job
<1>2. NewerThan(j.name, j.older)' = NewerThan(j.name, j.older)
  BY DEF NewerThan, After
<1>3. Shelved(j) => Shelved(j)'
  BY <1>2 DEF Shelved, TwoShelves, Spared
<1> QED BY <1>1, <1>2, <1>3 DEF Saving, TwoShelves, Replaces, Overwrites
Busy == {"prune", "carry", "remove"}

\* What a process has in hand next, by name.
LEMMA HandedOn ==
  ASSUME NEW q \in Proc, NEW step, NEW j, pc'[q] = step, job'[q] = j, Saving(step, j)'
  PROVE  Saving(pc[q], job[q])'
BY Zenon DEF Saving, Shelved, Spared, Outdone, NewerThan, After, TwoShelves, Replaces, Overwrites

\* A step of p that puts no body anywhere, and that is no part of a prune.
LEMMA AsideStep ==
  ASSUME EditsAssumption, Types, Types', Bodies, NEW p \in Proc, NEW step, NEW j \in Job,
         Goto(p, step, j), UNCHANGED shelf, marks \subseteq marks', TwoShelves' \/ UNCHANGED place,
         pc[p] \notin Busy \/ "cut" \in marks', step \notin Busy, Saving(step, j)'
  PROVE  Bodies'
<1>1. /\ pc'[p] = step /\ job'[p] = j
      /\ \A q \in Proc \ {p} : pc'[q] = pc[q] /\ job'[q] = job[q]
  BY GotoEffect
<1>2. \A n \in Saved : (Outdone(n) => Outdone(n)') /\ (Spared(n) => Spared(n)')
  <2>1. Kept' = Kept
    BY DEF Kept
  <2> QED BY <2>1 DEF Outdone, Spared, NewerThan, After
<1>3. Trimmed'
  <2> SUFFICES ASSUME pc[p] \notin Busy PROVE Trimmed'
    BY DEF Trimmed
  <2>1. \A s \in Shelves, q \in Proc : WillPrune(q, s) => WillPrune(q, s)'
    BY <1>1 DEF WillPrune, Busy
  <2>2. \A s \in Shelves : Staying(s)' = Staying(s)
    BY <1>1 DEF Staying, Busy
  <2> QED BY <2>1, <2>2 DEF Bodies, Trimmed
<1>4. ASSUME NEW q \in Proc
      PROVE  Saving(pc[q], job[q])'
  <2>1. CASE q = p
    BY <1>1, <2>1, HandedOn
  <2>2. CASE q # p
    <3>1. PICK u, w : u = pc[q] /\ w = job[q]
      OBVIOUS
    <3>2. w \in Job /\ Saving(u, w)
      BY <3>1 DEF Types, Bodies
    <3>3. Saving(u, w)'
      BY <1>2, <3>2, SavingStays
    <3> QED BY <1>1, <2>2, <3>1, <3>3, HandedOn
  <2> QED BY <2>1, <2>2
<1>6. ASSUME NEW q \in Proc
      PROVE  (pc[q] = "carry" => job[q].at = Target(q))'
  BY <1>1 DEF Busy, Bodies, Target
<1>5. OneShelf'
  <2>1. OneShelf
    BY DEF Bodies
  <2> QED BY <2>1, Zenon DEF OneShelf, TwoShelves, Live
<1>7. \A s \in Shelves : IsFiniteSet(shelf'[s])
  BY DEF Bodies
<1> QED BY <1>3, <1>4, <1>5, <1>6, <1>7, Zenon DEF Bodies
LEMMA PlainStep ==
  ASSUME EditsAssumption, Types, Types', Bodies, NEW p \in Proc,
         NEW step \in {"idle", "get", "read", "list"}, NEW j, Goto(p, step, j),
         UNCHANGED shelf, marks \subseteq marks',
         TwoShelves' \/ (UNCHANGED place /\ step # "list"),
         pc[p] \notin Busy \/ "cut" \in marks'
  PROVE  Bodies'
<1>1. j \in Job
  BY GotoEffect DEF Types
<1>2. Saving(step, j)'
  BY DEF Saving
<1> QED BY <1>1, <1>2, AsideStep DEF Busy

LEMMA BeginBodies ==
  ASSUME EditsAssumption, Types, Types', Bodies, NEW p \in Proc, Begin(p) \/ Crash(p)
  PROVE  Bodies'
<1>1. CASE Show(p)
  BY <1>1, PlainStep DEF Show, Untouched, History, Busy
<1>2. CASE Append(p)
  BY <1>2, PlainStep DEF Append, Untouched, History, Busy
<1>3. CASE Assign(p)
  BY <1>3, PlainStep DEF Assign, Untouched, History, Busy
<1>4. CASE Restore(p)
  BY <1>4, PlainStep DEF Restore, Untouched, History, Busy
<1>5. CASE Archive(p) \/ Unarchive(p)
  <2>1. /\ pc[p] = "idle" /\ UNCHANGED shelf /\ TwoShelves' /\ marks \subseteq marks'
        /\ \E j : Goto(p, "list", j)
    BY <1>5 DEF Archive, Unarchive, Carried, TwoShelves
  <2> QED BY <2>1, PlainStep DEF Busy
<1>6. CASE Crash(p)
  BY <1>6, PlainStep DEF Crash, Finish
<1> QED BY <1>1, <1>2, <1>3, <1>4, <1>5, <1>6 DEF Begin

\* Only a composition that overwrites nothing goes on without a save, and what was
\* saved stays with the command until it has written.
LEMMA EditBodies ==
  ASSUME EditsAssumption, Inv, Types', Bodies, NEW p \in Proc,
         \/ GetBody(p) \/ Read(p) \/ Locate(p) \/ Compare(p) \/ Truncate(p) \/ Write(p)
  PROVE  Bodies'
<1>1. UNCHANGED <<shelf, marks, place>> /\ pc[p] \notin Busy
  BY DEF GetBody, Read, Locate, Compare, Truncate, Write, Rest, History, Busy
<1>2. Types /\ Saving(pc[p], job[p]) /\ job[p] \in Job
  BY DEF Inv, Types, Bodies
<1>3. \A n \in Saved : (Outdone(n) => Outdone(n)') /\ (Spared(n) => Spared(n)')
  <2>1. Kept' = Kept
    BY <1>1 DEF Kept
  <2> QED BY <2>1 DEF Outdone, Spared, NewerThan, After
<1>4. ASSUME NEW step \in {"idle", "get", "read"}, NEW j, Goto(p, step, j)
      PROVE  Bodies'
  BY <1>1, <1>2, <1>4, PlainStep
<1>5. ASSUME NEW step \in Steps \ Busy, NEW j, Goto(p, step, j), Saving(step, j)
      PROVE  Bodies'
  <2>1. j \in Job
    BY <1>2, <1>5, GotoEffect DEF Types
  <2>2. Saving(step, j)'
    BY <1>1, <1>2, <1>3, <1>5, <2>1, SavingStays
  <2> QED BY <1>1, <1>2, <1>5, <2>1, <2>2, AsideStep
<1>6. CASE GetBody(p)
  BY <1>4, <1>6 DEF GetBody, Finish
<1>7. CASE Read(p)
  <2> DEFINE j == [job[p] EXCEPT !.base = doc, !.new = Composed(p, doc), !.at = Shelf(place)]
  <2>1. CASE Finish(p)
    BY <1>4, <2>1 DEF Finish
  <2>2. CASE Goto(p, IF Overwrites(j) THEN "save" ELSE "locate", j)
    <3>1. TwoShelves \/ j.at = "live"
      BY <1>2 DEF Bodies, OneShelf, Shelf, Job, Live
    <3>2. Saving(IF Overwrites(j) THEN "save" ELSE "locate", j)
      BY <3>1 DEF Saving
    <3> QED BY <1>5, <2>2, <3>2 DEF Steps, Busy
  <2> QED BY <1>7, <2>1, <2>2 DEF Read
<1>8. CASE Locate(p)
  <2> DEFINE j == [job[p] EXCEPT !.at = place]
  <2>1. Overwrites(j) = Overwrites(job[p]) /\ j.name = job[p].name /\ j.older = job[p].older
    BY <1>2 DEF Job, Overwrites, Replaces
  <2>2. Saving("compare", j)
    BY <1>2, <1>8, <2>1 DEF Saving, Shelved, Locate
  <2> QED BY <1>5, <1>8, <2>2 DEF Locate, Steps, Busy
<1>9. CASE Compare(p)
  <2>1. Saving("truncate", job[p])
    BY <1>2, <1>9 DEF Saving, Compare
  <2> QED BY <1>4, <1>5, <1>9, <2>1 DEF Compare, Retry, Finish, Steps, Busy
<1>10. CASE Truncate(p)
  <2>1. Saving("write", job[p])
    BY <1>2, <1>10 DEF Saving, Truncate
  <2> QED BY <1>5, <1>10, <2>1 DEF Truncate, Steps, Busy
<1>11. CASE Write(p)
  BY <1>4, <1>11 DEF Write, Finish
<1> QED BY <1>6, <1>7, <1>8, <1>9, <1>10, <1>11
\* A step that changes a shelf: what the others have in hand stays.
LEMMA OthersSaving ==
  ASSUME EditsAssumption, Types, Types', Bodies, NEW p \in Proc, NEW step, NEW j,
         Goto(p, step, j), marks \subseteq marks', Saving(step, j)',
         \A n \in Saved : (Outdone(n) => Outdone(n)') /\ (Spared(n) => Spared(n)')
  PROVE  \A q \in Proc : Saving(pc[q], job[q])'
<1>1. /\ pc'[p] = step /\ job'[p] = j
      /\ \A q \in Proc \ {p} : pc'[q] = pc[q] /\ job'[q] = job[q]
  BY GotoEffect
<1> SUFFICES ASSUME NEW q \in Proc PROVE Saving(pc[q], job[q])'
  OBVIOUS
<1>2. CASE q = p
  BY <1>1, <1>2, HandedOn
<1>3. CASE q # p
  <2>1. PICK u, w : u = pc[q] /\ w = job[q]
    OBVIOUS
  <2>2. w \in Job /\ Saving(u, w)
    BY <2>1 DEF Types, Bodies
  <2>3. Saving(u, w)'
    BY <2>2, SavingStays
  <2> QED BY <1>1, <1>3, <2>1, <2>3, HandedOn
<1> QED BY <1>2, <1>3

\* The name is given on one of the shelves, after all that are there.
LEMMA NameBodies ==
  ASSUME EditsAssumption, Inv, Types', Bodies, NEW p \in Proc, ListShelf(p)
  PROVE  Bodies'
<1>1. PICK now \in Now :
        Goto(p, "put", [job[p] EXCEPT !.name = [stamp |-> Stamp(now, shelf[job[p].at]),
                                                body |-> job[p].base.body],
                                      !.older = Kept])
  BY DEF ListShelf
<1>a. PICK n : n = [stamp |-> Stamp(now, shelf[job[p].at]), body |-> job[p].base.body]
  OBVIOUS
<1>b. PICK j : j = [job[p] EXCEPT !.name = n, !.older = Kept]
  OBVIOUS
<1>2. /\ UNCHANGED <<shelf, marks, place>> /\ pc[p] = "save" /\ Types /\ job[p] \in Job
      /\ Saving(pc[p], job[p]) /\ OneShelf
  BY DEF ListShelf, Rest, History, Inv, Types, Bodies
<1>3. j \in Job /\ j.at = job[p].at /\ j.name = n /\ j.older = Kept
  <2>1. j \in Job
    BY <1>1, <1>a, <1>b, <1>2, GotoEffect DEF Types
  <2> QED BY <1>2, <1>b, <2>1 DEF Job
<1>4. TwoShelves \/ NewerThan(n, Kept) = {}
  <2> SUFFICES ASSUME ~TwoShelves, NEW m \in Kept PROVE ~After(m, n)
    BY DEF NewerThan
  <2>1. job[p].at = "live" /\ m \in shelf["live"] /\ now \in Nat
    BY <1>2 DEF Saving, OneShelf, Kept, EditsAssumption
  <2> QED BY <1>2, <1>a, <2>1, StampIsLatest DEF Shelves
<1>5. Saving("put", j)
  <2>1. TwoShelves \/ j.at = "live"
    BY <1>2, <1>3 DEF Saving
  <2> QED BY <1>3, <1>4, <2>1 DEF Saving
<1>6. \A m \in Saved : (Outdone(m) => Outdone(m)') /\ (Spared(m) => Spared(m)')
  <2>1. Kept' = Kept
    BY <1>2 DEF Kept
  <2> QED BY <2>1 DEF Outdone, Spared, NewerThan, After
<1>7. Saving("put", j)'
  BY <1>2, <1>3, <1>5, <1>6, SavingStays
<1> QED BY <1>1, <1>a, <1>b, <1>2, <1>3, <1>7, AsideStep DEF Busy

\* The body is put there: whoever put it will prune that shelf.
LEMMA PutBodies ==
  ASSUME EditsAssumption, Inv, Types', Bodies, NEW p \in Proc, PutBody(p)
  PROVE  Bodies'
<1>0. PICK j, s0 : j = job[p] /\ s0 = j.at
  OBVIOUS
<1>1. /\ shelf' = [shelf EXCEPT ![s0] = @ \cup {j.name}] /\ Goto(p, "prune", j)
      /\ UNCHANGED <<marks, place>> /\ pc[p] = "put" /\ Types /\ j \in Job
      /\ Saving("put", j) /\ OneShelf /\ s0 \in Shelves /\ j.name \in Saved
  BY <1>0 DEF PutBody, History, Inv, Types, Bodies, Own, Ready
<1>2. /\ pc'[p] = "prune" /\ job'[p] = j
      /\ \A q \in Proc \ {p} : pc'[q] = pc[q] /\ job'[q] = job[q]
  BY <1>1, GotoEffect
<1>3. /\ shelf'[s0] = shelf[s0] \cup {j.name}
      /\ \A s \in Shelves \ {s0} : shelf'[s] = shelf[s]
  BY <1>1 DEF Types
<1>4. \A s \in Shelves : IsFiniteSet(shelf'[s])
  <2>1. IsFiniteSet(shelf[s0] \cup {j.name})
    <3>1. IsFiniteSet(shelf[s0])
      BY <1>1 DEF Bodies
    <3> QED BY <3>1, FS_AddElement
  <2>2. \A s \in Shelves : IsFiniteSet(shelf[s])
    BY DEF Bodies
  <2>3. IsFiniteSet(shelf'[s0])
    BY <1>3, <2>1, <2>2, Zenon
  <2>4. \A s \in Shelves \ {s0} : IsFiniteSet(shelf'[s])
    BY <1>3, <2>1, <2>2, Zenon
  <2> QED BY <2>3, <2>4
<1>5. Kept \subseteq Kept' /\ j.name \in Kept' /\ IsFiniteSet(Kept')
  <2>1. IsFiniteSet(shelf'["live"] \cup shelf'["archived"])
    BY <1>4, FS_Union DEF Shelves
  <2> QED BY <1>1, <1>3, <2>1 DEF Kept, Shelves
<1>6. \A n \in Saved : (Outdone(n) => Outdone(n)') /\ (Spared(n) => Spared(n)')
  BY <1>1, <1>5, StaySpared
<1>7. Saving("prune", j)'
  <2>1. TwoShelves' \/ NewerThan(j.name, j.older)' = {}
    BY <1>1 DEF Saving, TwoShelves, NewerThan, After
  <2>2. Spared(j.name)'
    BY <1>1, <1>5 DEF Spared
  <2> QED BY <2>1, <2>2 DEF Saving, Shelved
<1>8. \A q \in Proc : Saving(pc[q], job[q])'
  BY <1>1, <1>6, <1>7, OthersSaving
<1>9. Trimmed'
  <2>1. WillPrune(p, s0)'
    BY <1>0, <1>2 DEF WillPrune
  <2>2. \A s \in Shelves, q \in Proc : WillPrune(q, s) => WillPrune(q, s)'
    BY <1>1, <1>2 DEF WillPrune
  <2>3. \A s \in Shelves \ {s0} : Staying(s)' = Staying(s)
    BY <1>1, <1>2, <1>3 DEF Staying
  <2> QED BY <1>1, <2>1, <2>2, <2>3 DEF Trimmed, Bodies
<1>10. OneShelf'
  BY <1>0, <1>1, <1>3 DEF OneShelf, TwoShelves, Saving, Shelves, Live
<1>11. \A q \in Proc : (pc[q] = "carry" => job[q].at = Target(q))'
  BY <1>2 DEF Bodies, Target
<1> QED BY <1>4, <1>8, <1>9, <1>10, <1>11, Zenon DEF Bodies

\* What a prune goes on to, when it has drop to remove.
LEMMA PruningGoes ==
  ASSUME Types, NEW p \in Proc, NEW j, j = job[p], NEW drop, Pruning(p, drop)
  PROVE  \E k, step : /\ Goto(p, step, k) /\ step \in {"remove", "locate", "idle"}
                      /\ step = "remove" => k.at = j.at /\ k.todo = drop
                      /\ step = "remove" \/ drop = {}
                      /\ step # "idle" => /\ k.name = j.name /\ k.older = j.older
                                          /\ Replaces(k) = Replaces(j)
                      /\ step = "locate" => Replaces(j)
<1>0. j \in Job
  BY DEF Types
<1>1. CASE Finish(p) /\ drop = {}
  BY <1>1 DEF Finish
<1>2. CASE drop # {}
  <2> DEFINE k == [j EXCEPT !.todo = drop]
  <2>1. Goto(p, "remove", k)
    BY <1>2 DEF Pruning
  <2>2. k.at = j.at /\ k.todo = drop /\ k.name = j.name /\ k.older = j.older /\ k.cmd = j.cmd
    BY <1>0 DEF Job
  <2> HIDE DEF k
  <2> QED BY <2>1, <2>2 DEF Replaces
<1>3. CASE drop = {} /\ Replaces(j)
  <2> DEFINE k == [j EXCEPT !.todo = {}]
  <2>1. Goto(p, "locate", k)
    BY <1>3 DEF Pruning
  <2>2. k.name = j.name /\ k.older = j.older /\ k.cmd = j.cmd
    BY <1>0 DEF Job
  <2> HIDE DEF k
  <2> QED BY <1>3, <2>1, <2>2 DEF Replaces
<1> QED BY <1>1, <1>2, <1>3 DEF Pruning

\* All but the newest Keep are to go, and each of those has Keep newer ones.
LEMMA PruneBodies ==
  ASSUME EditsAssumption, Inv, Types', Bodies, NEW p \in Proc, ListPrune(p)
  PROVE  Bodies'
<1>0. PICK j, s0 : j = job[p] /\ s0 = j.at
  OBVIOUS
<1>1. /\ UNCHANGED <<shelf, marks, place>> /\ pc[p] \in {"prune", "carry"} /\ Types /\ j \in Job
      /\ Pruning(p, Surplus(shelf[s0])) /\ s0 \in Shelves
      /\ Saving(pc[p], j) /\ OneShelf /\ (pc[p] = "carry" => ~Replaces(j))
  BY <1>0 DEF ListPrune, Rest, History, Inv, Types, Bodies, Own, Ready
<1> DEFINE drop == Surplus(shelf[s0])
<1>2. drop \subseteq shelf[s0] /\ shelf[s0] \subseteq Saved /\ IsFiniteSet(shelf[s0])
  BY <1>1 DEF Surplus, Types, Bodies
<1>3. \A n \in drop : Outdone(n)
  <2> SUFFICES ASSUME NEW n \in drop PROVE Outdone(n)
    OBVIOUS
  <2>1. Cardinality(NewerThan(n, shelf[s0])) >= Keep
    BY DEF Surplus
  <2>2. NewerThan(n, shelf[s0]) \subseteq NewerThan(n, Kept) /\ NewerThan(n, Kept) \subseteq Kept
    BY <1>1 DEF NewerThan, Kept, Shelves
  <2>3. IsFiniteSet(NewerThan(n, Kept))
    BY <1>1, <2>2, KeptFinite, FS_Subset
  <2> QED BY <2>1, <2>2, <2>3, MoreNewer DEF Outdone
<1>4. PICK k, step : /\ Goto(p, step, k) /\ step \in {"remove", "locate", "idle"}
                     /\ step = "remove" => k.at = s0 /\ k.todo = drop
                     /\ step = "remove" \/ drop = {}
                     /\ step # "idle" => /\ k.name = j.name /\ k.older = j.older
                                         /\ Replaces(k) = Replaces(j)
                     /\ step = "locate" => Replaces(j)
  BY <1>0, <1>1, <1>2, PruningGoes
<1>5. /\ pc'[p] = step /\ job'[p] = k
      /\ \A q \in Proc \ {p} : pc'[q] = pc[q] /\ job'[q] = job[q]
  BY <1>1, <1>4, GotoEffect
<1>6. \A n \in Saved : (Outdone(n) => Outdone(n)') /\ (Spared(n) => Spared(n)')
  <2>1. Kept' = Kept
    BY <1>1 DEF Kept
  <2> QED BY <2>1 DEF Outdone, Spared, NewerThan, After
<1>7. Saving(step, k)'
  <2>1. Replaces(j) => Shelved(j)
    BY <1>1 DEF Saving
  <2>2. Saving(step, k)
    BY <1>3, <1>4, <2>1 DEF Saving, Shelved, Overwrites
  <2>3. k \in Job
    BY <1>5 DEF Types
  <2> QED BY <1>1, <1>6, <2>2, <2>3, SavingStays
<1>8. \A q \in Proc : Saving(pc[q], job[q])'
  BY <1>1, <1>4, <1>6, <1>7, OthersSaving
<1>9. Trimmed'
  <2>1. \A s \in Shelves \ {s0}, q \in Proc : WillPrune(q, s) => WillPrune(q, s)'
    BY <1>0, <1>5 DEF WillPrune
  <2>2. \A s \in Shelves \ {s0} : Staying(s)' = Staying(s)
    BY <1>0, <1>1, <1>4, <1>5 DEF Staying
  <2>3. Cardinality(Staying(s0)') <= Keep
    <3>1. Staying(s0)' \subseteq shelf[s0] \ drop
      BY <1>1, <1>4, <1>5 DEF Staying
    <3>2. Cardinality(shelf[s0] \ drop) <= Keep
      BY <1>2, NewestKept
    <3>3. IsFiniteSet(shelf[s0] \ drop)
      BY <1>2, FS_Subset
    <3>4. IsFiniteSet(Staying(s0)') /\ Cardinality(Staying(s0)') <= Cardinality(shelf[s0] \ drop)
      BY <3>1, <3>3, FS_Subset
    <3>5. Cardinality(Staying(s0)') \in Nat /\ Cardinality(shelf[s0] \ drop) \in Nat /\ Keep \in Nat
      BY <3>3, <3>4, FS_CardinalityType DEF EditsAssumption
    <3> QED BY <3>2, <3>4, <3>5
  <2> QED BY <1>1, <2>1, <2>2, <2>3 DEF Trimmed, Bodies
<1>10. OneShelf'
  BY <1>1 DEF OneShelf, TwoShelves, Live
<1>11. \A q \in Proc : (pc[q] = "carry" => job[q].at = Target(q))'
  BY <1>4, <1>5 DEF Bodies, Target
<1>12. \A s \in Shelves : IsFiniteSet(shelf'[s])
  BY <1>1 DEF Bodies
<1> QED BY <1>8, <1>9, <1>10, <1>11, <1>12, Zenon DEF Bodies
\* A body that is removed has Keep newer ones, and no shelf gains any.
LEMMA RemoveBodies ==
  ASSUME EditsAssumption, Inv, Types', Bodies, NEW p \in Proc, RemoveOne(p)
  PROVE  Bodies'
<1>0. PICK j, s0 : j = job[p] /\ s0 = j.at
  OBVIOUS
<1>1. PICK n \in j.todo :
        /\ shelf' = [shelf EXCEPT ![s0] = @ \ {n}]
        /\ Pruning(p, j.todo \ {n})
  BY <1>0 DEF RemoveOne
<1>2. /\ UNCHANGED <<marks, place>> /\ pc[p] = "remove" /\ Types /\ j \in Job
      /\ Saving("remove", j) /\ OneShelf /\ s0 \in Shelves /\ n \in Saved /\ Outdone(n)
  <2>1. pc[p] = "remove" /\ UNCHANGED <<marks, place>> /\ Types /\ Saving(pc[p], j) /\ j \in Job
    BY <1>0 DEF RemoveOne, History, Inv, Types, Bodies
  <2>2. s0 \in Shelves /\ OneShelf
    BY <1>0, <2>1 DEF Inv, Own, Ready, Bodies
  <2> QED BY <1>1, <2>1, <2>2 DEF Saving, Job
<1>3. /\ shelf'[s0] = shelf[s0] \ {n}
      /\ \A s \in Shelves \ {s0} : shelf'[s] = shelf[s]
  BY <1>1, <1>2 DEF Types
<1>4. \A s \in Shelves : IsFiniteSet(shelf'[s])
  <2>1. \A s \in Shelves : IsFiniteSet(shelf[s])
    BY DEF Bodies
  <2>2. IsFiniteSet(shelf[s0] \ {n})
    BY <1>2, <2>1, FS_RemoveElement
  <2>3. IsFiniteSet(shelf'[s0])
    BY <1>3, <2>1, <2>2, Zenon
  <2>4. \A s \in Shelves \ {s0} : IsFiniteSet(shelf'[s])
    BY <1>3, <2>1, <2>2, Zenon
  <2> QED BY <2>3, <2>4
<1>5. Kept \ {n} \subseteq Kept' /\ IsFiniteSet(Kept')
  <2>1. IsFiniteSet(shelf'["live"] \cup shelf'["archived"])
    BY <1>4, FS_Union DEF Shelves
  <2> QED BY <1>2, <1>3, <2>1 DEF Kept, Shelves
<1>6. \A m \in Saved : (Outdone(m) => Outdone(m)') /\ (Spared(m) => Spared(m)')
  BY <1>2, <1>5, StaySpared
<1> DEFINE drop == j.todo \ {n}
<1>7. PICK k, step : /\ Goto(p, step, k) /\ step \in {"remove", "locate", "idle"}
                     /\ step = "remove" => k.at = s0 /\ k.todo = drop
                     /\ step = "remove" \/ drop = {}
                     /\ step # "idle" => /\ k.name = j.name /\ k.older = j.older
                                         /\ Replaces(k) = Replaces(j)
                     /\ step = "locate" => Replaces(j)
  BY <1>0, <1>1, <1>2, PruningGoes
<1>8. /\ pc'[p] = step /\ job'[p] = k
      /\ \A q \in Proc \ {p} : pc'[q] = pc[q] /\ job'[q] = job[q]
  BY <1>2, <1>7, GotoEffect
<1>9. Saving(step, k)'
  <2>1. /\ Replaces(j) => Shelved(j)
        /\ \A m \in drop : Outdone(m)
    BY <1>2 DEF Saving
  <2>2. Saving(step, k)
    BY <1>7, <2>1 DEF Saving, Shelved, Overwrites
  <2>3. k \in Job
    BY <1>8 DEF Types
  <2> QED BY <1>2, <1>6, <2>2, <2>3, SavingStays
<1>10. \A q \in Proc : Saving(pc[q], job[q])'
  BY <1>2, <1>6, <1>7, <1>9, OthersSaving
<1>11. Trimmed'
  <2>1. \A s \in Shelves, q \in Proc : WillPrune(q, s) => WillPrune(q, s)'
    BY <1>2, <1>8 DEF WillPrune
  <2>2. ASSUME NEW s \in Shelves
        PROVE  Staying(s)' \subseteq Staying(s)
    <3> SUFFICES ASSUME NEW m \in Staying(s)', NEW q \in Proc, pc[q] = "remove", job[q].at = s
                 PROVE  m \in shelf[s] /\ m \notin job[q].todo
      BY <1>3 DEF Staying
    <3>1. m \in shelf'[s] /\ \A r \in Proc : pc'[r] = "remove" /\ job'[r].at = s => m \notin job'[r].todo
      BY DEF Staying
    <3>2. CASE q # p
      BY <1>3, <1>8, <3>1, <3>2
    <3>3. CASE q = p
      BY <1>0, <1>3, <1>7, <1>8, <3>1, <3>3
    <3> QED BY <3>2, <3>3
  <2>3. ASSUME NEW s \in Shelves, Cardinality(Staying(s)) <= Keep
        PROVE  Cardinality(Staying(s)') <= Keep
    <3>1. IsFiniteSet(Staying(s))
      BY FS_Subset DEF Staying, Bodies
    <3>2. IsFiniteSet(Staying(s)') /\ Cardinality(Staying(s)') <= Cardinality(Staying(s))
      BY <2>2, <3>1, FS_Subset
    <3>3. Cardinality(Staying(s)') \in Nat /\ Cardinality(Staying(s)) \in Nat /\ Keep \in Nat
      BY <3>1, <3>2, FS_CardinalityType DEF EditsAssumption
    <3> QED BY <2>3, <3>2, <3>3
  <2> QED BY <1>2, <2>1, <2>3 DEF Trimmed, Bodies
<1>12. OneShelf'
  <2>1. shelf'["archived"] \subseteq shelf["archived"]
    BY <1>3 DEF Shelves
  <2>2. shelf["archived"] = {} => shelf'["archived"] = {}
    BY <2>1
  <2> QED BY <1>2, <2>2, Zenon DEF OneShelf, TwoShelves, Live
<1>13. \A q \in Proc : (pc[q] = "carry" => job[q].at = Target(q))'
  BY <1>7, <1>8 DEF Bodies, Target
<1> QED BY <1>4, <1>10, <1>11, <1>12, <1>13, Zenon DEF Bodies
\* A body that is carried is on one shelf or the other at each step, and whoever
\* carries to a shelf will prune it.
LEMMA CarryBodies ==
  ASSUME EditsAssumption, Inv, Types', Bodies, NEW p \in Proc, ListBodies(p) \/ CarryOne(p)
  PROVE  Bodies'
<1>0. PICK j, to, from : j = job[p] /\ to = Target(p) /\ from = Source(p)
  OBVIOUS
<1>1. /\ Types /\ j \in Job /\ OneShelf /\ TwoShelves /\ UNCHANGED place
      /\ to \in Shelves /\ from \in Shelves /\ to # from /\ Shelves = {to, from}
      /\ pc[p] \in {"list", "carry"} /\ (pc[p] = "carry" => j.at = to)
  BY <1>0 DEF ListBodies, CarryOne, Inv, Types, Bodies, Saving, Rest, Target, Source, Shelves
<1>2. CASE CarryOne(p) /\ Finish(p) /\ "cut" \in marks' /\ marks \subseteq marks' /\ UNCHANGED shelf
  BY <1>1, <1>2, PlainStep DEF Finish
<1>3. CASE ListBodies(p)
  <2>1. PICK k : k = [j EXCEPT !.todo = shelf[from], !.at = to]
    OBVIOUS
  <2>2. Goto(p, "carry", k) /\ UNCHANGED <<shelf, marks>> /\ pc[p] = "list"
    BY <1>0, <1>3, <2>1 DEF ListBodies, Rest, History
  <2>3. /\ pc'[p] = "carry" /\ job'[p] = k /\ k \in Job
        /\ \A q \in Proc \ {p} : pc'[q] = pc[q] /\ job'[q] = job[q]
    BY <1>1, <2>2, GotoEffect DEF Types
  <2>4. k.at = to /\ k.cmd = j.cmd
    BY <1>1, <2>1 DEF Job
  <2>5. Saving("carry", k)'
    BY <1>1, <2>2 DEF Saving, TwoShelves
  <2>6. \A n \in Saved : (Outdone(n) => Outdone(n)') /\ (Spared(n) => Spared(n)')
    <3>1. Kept' = Kept
      BY <2>2 DEF Kept
    <3> QED BY <3>1 DEF Outdone, Spared, NewerThan, After
  <2>7. \A q \in Proc : Saving(pc[q], job[q])'
    BY <1>1, <2>2, <2>5, <2>6, OthersSaving
  <2>8. Trimmed'
    <3>1. \A s \in Shelves, q \in Proc : WillPrune(q, s) => WillPrune(q, s)'
      BY <2>2, <2>3 DEF WillPrune
    <3>2. \A s \in Shelves : Staying(s)' = Staying(s)
      BY <2>2, <2>3 DEF Staying
    <3> QED BY <2>2, <3>1, <3>2 DEF Trimmed, Bodies
  <2>9. \A q \in Proc : (pc[q] = "carry" => job[q].at = Target(q))'
    <3>1. job'[p].at = Target(p)'
      BY <1>0, <2>3, <2>4 DEF Target
    <3> QED BY <2>3, <3>1 DEF Bodies, Target
  <2>10. OneShelf' /\ \A s \in Shelves : IsFiniteSet(shelf'[s])
    BY <1>1, <2>2 DEF OneShelf, TwoShelves, Bodies
  <2> QED BY <2>7, <2>8, <2>9, <2>10, Zenon DEF Bodies
<1>4. ASSUME CarryOne(p), NEW n \in j.todo, n \in shelf[from],
             shelf' = [shelf EXCEPT ![from] = @ \ {n}, ![to] = @ \cup {n}],
             Goto(p, "carry", [j EXCEPT !.todo = @ \ {n}]), UNCHANGED marks
      PROVE  Bodies'
  <2>2. PICK k : k = [j EXCEPT !.todo = @ \ {n}]
    OBVIOUS
  <2>3. /\ pc'[p] = "carry" /\ job'[p] = k /\ k \in Job /\ pc[p] = "carry"
        /\ \A q \in Proc \ {p} : pc'[q] = pc[q] /\ job'[q] = job[q]
    BY <1>1, <1>4, <2>2, GotoEffect DEF Types, CarryOne
  <2>4. k.at = to /\ k.cmd = j.cmd
    BY <1>1, <2>2, <2>3 DEF Job
  <2>5. shelf'[from] = shelf[from] \ {n} /\ shelf'[to] = shelf[to] \cup {n}
    BY <1>1, <1>4 DEF Types
  <2>6. IsFiniteSet(shelf'[from]) /\ IsFiniteSet(shelf'[to])
    <3>1. IsFiniteSet(shelf[from]) /\ IsFiniteSet(shelf[to])
      BY <1>1 DEF Bodies
    <3>2. IsFiniteSet(shelf[from] \ {n}) /\ IsFiniteSet(shelf[to] \cup {n})
      BY <3>1, FS_RemoveElement, FS_AddElement
    <3> QED BY <2>5, <3>2, Zenon
  <2>7. Kept' = Kept
    <3>1. Kept = shelf[to] \cup shelf[from] /\ Kept' = shelf'[to] \cup shelf'[from]
      BY <1>1 DEF Kept, Shelves
    <3> QED BY <1>4, <2>5, <3>1
  <2>8. \A m \in Saved : (Outdone(m) => Outdone(m)') /\ (Spared(m) => Spared(m)')
    BY <2>7 DEF Outdone, Spared, NewerThan, After
  <2>9. Saving("carry", k)'
    BY <1>1, <1>4 DEF Saving, TwoShelves
  <2>10. \A q \in Proc : Saving(pc[q], job[q])'
    BY <1>1, <1>4, <2>2, <2>8, <2>9, OthersSaving
  <2>11. Trimmed'
    <3>1. WillPrune(p, to)'
      BY <2>3, <2>4 DEF WillPrune
    <3>2. \A q \in Proc : WillPrune(q, from) => WillPrune(q, from)'
      BY <1>0, <1>1, <2>3 DEF WillPrune
    <3>3. Staying(from)' \subseteq Staying(from)
      BY <2>3, <2>5 DEF Staying
    <3>4. Cardinality(Staying(from)) <= Keep => Cardinality(Staying(from)') <= Keep
      <4>1. IsFiniteSet(Staying(from))
        BY <1>1, FS_Subset DEF Staying, Bodies
      <4>2. IsFiniteSet(Staying(from)') /\ Cardinality(Staying(from)') <= Cardinality(Staying(from))
        BY <3>3, <4>1, FS_Subset
      <4>3. Cardinality(Staying(from)') \in Nat /\ Cardinality(Staying(from)) \in Nat /\ Keep \in Nat
        BY <4>1, <4>2, FS_CardinalityType DEF EditsAssumption
      <4> QED BY <4>2, <4>3
    <3> QED BY <1>1, <1>4, <3>1, <3>2, <3>4 DEF Trimmed, Bodies
  <2>12. \A q \in Proc : (pc[q] = "carry" => job[q].at = Target(q))'
    <3>1. job'[p].at = Target(p)'
      BY <1>0, <2>3, <2>4 DEF Target
    <3> QED BY <2>3, <3>1 DEF Bodies, Target
  <2>13. OneShelf' /\ \A s \in Shelves : IsFiniteSet(shelf'[s])
    BY <1>1, <1>4, <2>6 DEF OneShelf, TwoShelves
  <2> QED BY <2>10, <2>11, <2>12, <2>13, Zenon DEF Bodies
<1>5. CASE CarryOne(p)
  <2>1. PICK n \in j.todo :
          \/ /\ n \in shelf[from]
             /\ shelf' = [shelf EXCEPT ![from] = @ \ {n}, ![to] = @ \cup {n}]
             /\ Goto(p, "carry", [j EXCEPT !.todo = @ \ {n}]) /\ UNCHANGED marks
          \/ Finish(p) /\ marks' = marks \cup {"cut"} /\ UNCHANGED shelf
    BY <1>0, <1>5, Zenon DEF CarryOne
  <2> QED BY <1>2, <1>4, <1>5, <2>1
<1> QED BY <1>3, <1>5

LEMMA SameBodies ==
  ASSUME Types, Bodies, UNCHANGED <<shelf, pc, job, marks>>, UNCHANGED place \/ Move
  PROVE  Bodies'
<1>1. OneShelf'
  BY DEF Bodies, OneShelf, TwoShelves, Move
<1>2. Trimmed'
  BY DEF Bodies, Trimmed, Staying, WillPrune
<1>3. \A q \in Proc : Saving(pc[q], job[q])'
  <2> SUFFICES ASSUME NEW q \in Proc PROVE Saving(pc[q], job[q])'
    OBVIOUS
  <2>1. Kept' = Kept
    BY DEF Kept
  <2>2. \A n \in Saved : (Outdone(n) => Outdone(n)') /\ (Spared(n) => Spared(n)')
    BY <2>1 DEF Outdone, Spared, NewerThan, After
  <2>3. PICK u, w : u = pc[q] /\ w = job[q]
    OBVIOUS
  <2>4. Saving(u, w)'
    BY <2>2, <2>3, SavingStays DEF Bodies, Types
  <2> QED BY <2>3, <2>4, HandedOn
<1>4. \A q \in Proc : (pc[q] = "carry" => job[q].at = Target(q))'
  BY DEF Bodies, Target
<1>5. \A s \in Shelves : IsFiniteSet(shelf'[s])
  BY DEF Bodies
<1> QED BY <1>1, <1>2, <1>3, <1>4, <1>5, Zenon DEF Bodies

LEMMA InitBodies == ASSUME EditsAssumption, Init PROVE Bodies
<1>1. \A s \in Shelves : IsFiniteSet(shelf[s]) /\ Cardinality(Staying(s)) <= Keep
  <2> SUFFICES ASSUME NEW s \in Shelves
               PROVE  IsFiniteSet(shelf[s]) /\ Cardinality(Staying(s)) <= Keep
    OBVIOUS
  <2>1. shelf[s] = {} /\ Staying(s) = {}
    BY DEF Init, Staying
  <2>2. Keep \in Nat
    BY DEF EditsAssumption
  <2> QED BY <2>1, <2>2, FS_EmptySet
<1>2. OneShelf /\ \A q \in Proc : pc[q] = "idle"
  BY DEF Init, OneShelf, Shelves, Live
<1> QED BY <1>1, <1>2 DEF Bodies, Trimmed, Saving

LEMMA NextBodies ==
  ASSUME EditsAssumption, Inv, Inv', Bodies, [Next]_vars
  PROVE  Bodies'
<1>0. Types /\ Types'
  BY DEF Inv
<1>1. CASE UNCHANGED vars \/ Move
  BY <1>0, <1>1, SameBodies DEF vars, Move, History
<1>2. ASSUME NEW p \in Proc, Begin(p) \/ Step(p) \/ Crash(p)
      PROVE  Bodies'
  BY <1>0, <1>2, BeginBodies, EditBodies, NameBodies, PutBodies, PruneBodies, RemoveBodies,
     CarryBodies DEF Step
<1> QED BY <1>1, <1>2 DEF Next

\* What is about to be overwritten is saved or outdone, and no shelf will hold more
\* than Keep once those who are at work on it have pruned.
LEMMA BodiesInvariant == Spec => []Bodies
<1>1. Init => Bodies
  BY InitBodies, EditsAssumption
<1>2. Inv /\ Inv' /\ Bodies /\ [Next]_vars => Bodies'
  BY NextBodies, EditsAssumption
<1> QED BY <1>1, <1>2, Invariant, PTL DEF Spec

\* A replacement destroys no body that is not on a shelf, for any writers, restores,
\* carries, clocks and crashes, unless Keep later ones are (saveBody, nextBackupName,
\* pruneBodyBackups).
THEOREM BodiesSaved == Spec => []BodySaved
<1>1. ASSUME Inv, Bodies
      PROVE  BodySaved
  <2> SUFFICES ASSUME NEW p \in Proc, pc[p] \in {"locate", "compare", "truncate", "write"},
                      Overwrites(job[p]), job[p].name \notin Kept,
                      NEW later, later = IF TwoShelves THEN NewerThan(job[p].name, Kept)
                                                       ELSE Kept \ job[p].older
               PROVE  Cardinality(later \ {job[p].name}) >= Keep
    BY Zenon DEF BodySaved, TwoShelves
  <2> DEFINE n == job[p].name
  <2>1. Shelved(job[p]) /\ Types
    BY <1>1 DEF Bodies, Saving, Inv
  <2>2. n \in Saved /\ Outdone(n)
    BY <2>1 DEF Shelved, Spared
  <2>3. IsFiniteSet(Kept) /\ Kept \subseteq Saved
    BY <1>1, <2>1, KeptFinite
  <2>4. NewerThan(n, Kept) \subseteq later \ {n}
    <3>1. ~After(n, n)
      BY <2>2, AfterOrders, EditsAssumption
    <3>2. TwoShelves \/ NewerThan(n, job[p].older) = {}
      BY <2>1 DEF Shelved
    <3> QED BY <3>1, <3>2 DEF NewerThan
  <2>5. IsFiniteSet(later \ {n})
    <3>1. later \ {n} \subseteq Kept
      BY DEF NewerThan
    <3> QED BY <2>3, <3>1, FS_Subset
  <2> QED BY <2>2, <2>4, <2>5, MoreNewer, EditsAssumption DEF Outdone
<1> QED BY <1>1, Invariant, BodiesInvariant, PTL

\* With nobody at work no shelf holds more than Keep bodies, whatever was saved,
\* carried and pruned at once, unless somebody died or a carry was cut short.
THEOREM ShelvesBounded == Spec => []ShelfBounded
<1>1. ASSUME Bodies
      PROVE  ShelfBounded
  <2> SUFFICES ASSUME "cut" \notin marks, \A p \in Proc : pc[p] = "idle", NEW s \in Shelves
               PROVE  Cardinality(shelf[s]) <= Keep
    BY DEF ShelfBounded
  <2>1. Staying(s) = shelf[s] /\ \A q \in Proc : ~WillPrune(q, s)
    BY DEF Staying, WillPrune
  <2> QED BY <1>1, <2>1 DEF Bodies, Trimmed
<1> QED BY <1>1, BodiesInvariant, PTL
=============================================================================
