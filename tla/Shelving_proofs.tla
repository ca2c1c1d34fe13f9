---------------------------- MODULE Shelving_proofs ----------------------------
(***************************************************************************)
(* Proofs of the properties of Shelving, for any items, dependencies and   *)
(* processes.  The invariant says of each call on the stack of a process   *)
(* what it may rely on, as long as nobody else has touched the item it     *)
(* speaks of.                                                              *)
(***************************************************************************)
EXTENDS Shelving, SequenceTheorems, TLAPS

-------------------------------------------------------------------------------
(* Types *)

Causes == {"own"} \cup Items
RecordCauses == {"none", "own"} \cup Items
Frame ==
  [call : {"shelve", "unshelve", "new", "shelve_tag", "unshelve_tag"},
   item : Items \cup {"none"}, cause : Causes,
   step : {"guard", "read", "move", "emit", "list"},
   to : Places, lists : Seq(Places), todo : SUBSET Items]
Running ==
  [flag : BOOLEAN, records : [Items -> RecordCauses], chain : SUBSET Items,
   still : SUBSET Items, known : SUBSET Items]

Types ==
  /\ at \in [Items -> Places] /\ came \in [Items -> Places] /\ told \subseteq Items
  /\ rec \in [Items -> RecordCauses] /\ from \in [Items -> {"none"} \cup Open]
  /\ hid \in [Items -> {"none", "filed"} \cup Causes]
  /\ stack \in [Processes -> Seq(Frame)] /\ run \in [Processes -> Running]

-------------------------------------------------------------------------------
(* The shelf.  The invariant speaks of a state w of the items, the calls s and *)
(* what is kept r of one process, so that a step is from one to the next.      *)

World == [at |-> at, hid |-> hid, came |-> came, from |-> from]
Worlds ==
  [at : [Items -> Places], hid : [Items -> {"none", "filed"} \cup Causes],
   came : [Items -> Places], from : [Items -> {"none"} \cup Open]]

\* What the log says of an item that was hidden for a reason.
RecordOf(reason) == IF reason = "filed" THEN "none" ELSE reason

Reasoned(w, i) ==
  /\ (w.at[i] = "shelved") = (w.hid[i] # "none")
  /\ w.hid[i] \in {"none", "own", "filed"} \cup Depends[i]

\* What the log says of an item is so, if its stay was recorded in order.
Logged(w, i, cause, ordered) ==
  /\ w.at[i] = "none" => cause = "none" /\ w.from[i] = "none" /\ w.came[i] = "none"
  /\ ordered /\ w.at[i] = "shelved" => cause = RecordOf(w.hid[i]) /\ w.from[i] = w.came[i]

OnShelf == \A i \in Items : Reasoned(World, i) /\ Logged(World, i, rec[i], i \in told)

-------------------------------------------------------------------------------
(* The calls of a process: which is made by which, and what waits to be done.  *)

Unread(lists) == {lists[n] : n \in 1 .. Len(lists)}
Going(f, i) == f.item = i /\ f.step \in {"read", "move"}
Above(s, k, i) == k > 1 /\ Going(s[k-1], i)

Calls(f, g) ==
  /\ g.step = "list" /\ g.lists = <<>>
  /\ \/ f.call = "shelve" /\ g.call = "shelve" /\ f.cause = g.item
     \/ f.call = "unshelve" /\ g.call = "unshelve" /\ f.cause = g.item
     \/ f.call = "shelve" /\ g.call = "shelve_tag" /\ f.cause = "own"
     \/ f.call = "unshelve" /\ g.call = "unshelve_tag" /\ f.cause = "own"

Sound(f) ==
  /\ IF f.call \in {"shelve", "unshelve", "new"} THEN f.item \in Items
     ELSE f.item = "none" /\ f.step = "list"
  /\ f.cause = "own" \/ (f.item \in Items /\ f.cause \in Depends[f.item])
  /\ f.item \in Items => \A d \in f.todo : f.item \in Depends[d]
  /\ f.call = "new" => f.step \in {"read", "move"}

Hides == {"shelve", "shelve_tag"}

Stacked(s) ==
  \A k \in 1 .. Len(s) :
    /\ Sound(s[k]) /\ (k < Len(s) => Calls(s[k], s[k+1]))
    /\ (s[k].call \in Hides) = (s[1].call \in Hides)

\* A call of shelve, of an item that nobody else has touched.
Hiding(w, f, r) ==
  f.call = "shelve" =>
    /\ f.step = "move" => f.to \in Open /\ (f.item \in r.still => w.at[f.item] = f.to)
    /\ f.step = "list" =>
         /\ f.to \in Open /\ w.at[f.item] # "none"
         /\ f.item \in r.still =>
              w.at[f.item] = "shelved" /\ w.hid[f.item] = f.cause /\ w.came[f.item] = f.to

\* Its dependents that are open are not listed yet, or wait to be hidden.
Cascading(w, s, k, r) ==
  s[k].call = "shelve" /\ s[k].step = "list" =>
    \A i \in r.still : s[k].item \in Depends[i] /\ w.at[i] \in Open =>
      w.at[i] \in Unread(s[k].lists) \/ i \in s[k].todo \/ Above(s, k, i)

GateOpen(w, i) == \A d \in Depends[i] : w.at[d] = "done"

\* A call of unshelve.
Restoring(w, f, r) ==
  f.call = "unshelve" =>
    /\ f.step \in {"read", "move"} /\ f.cause # "own" => r.records[f.item] # "own"
    /\ f.step = "move" =>
         /\ f.to \in Open /\ (f.to # "pending" => GateOpen(w, f.item))
         /\ f.to = "claimed" /\ f.item \in r.still => w.from[f.item] = "claimed"
    /\ f.step = "emit" => (f.item \in r.still => w.at[f.item] # "shelved")

\* What was hidden with x is not listed yet, or waits to be restored.
Brings(f, x) == f.call = "unshelve" /\ f.step = "list" /\ f.item = x
Later(f, i) == "shelved" \in Unread(f.lists) \/ i \in f.todo
Waits(s, i, x) == \E k \in 1 .. Len(s) : Brings(s[k], x) /\ (Later(s[k], i) \/ Above(s, k, i))

Unshelves(s) == s # <<>> /\ s[1].call \in {"unshelve", "unshelve_tag"}

\* What an unshelve that restored x has yet to restore: i, if its record says so.
Follows(r, i, x) == x \in r.chain /\ x \in Depends[i] /\ r.records[i] \in {x, "none"}
Hidden(w, r, i) == i \in r.known /\ i \in r.still /\ w.at[i] = "shelved"

Chained(w, s, r) ==
  Unshelves(s) =>
    \A i \in Items : Hidden(w, r, i) =>
      /\ r.records[i] = RecordOf(w.hid[i]) /\ w.from[i] = w.came[i] /\ i \notin r.chain
      /\ \A x \in Items : Follows(r, i, x) => Waits(s, i, x)

Good(w, s, k, r) == Hiding(w, s[k], r) /\ Cascading(w, s, k, r) /\ Restoring(w, s[k], r)

Commands(w, s, r) ==
  Stacked(s) /\ (\A k \in 1 .. Len(s) : Good(w, s, k, r)) /\ Chained(w, s, r)

Inv == Types /\ OnShelf /\ \A p \in Processes : Commands(World, stack[p], run[p])

-------------------------------------------------------------------------------
(* Stacks *)

Put(s, f) == <<f>> \o Tail(s)
Over(s, f, g) == <<f, g>> \o Tail(s)

LEMMA UnreadTail ==
  ASSUME NEW lists \in Seq(Places), lists # <<>>
  PROVE  /\ Tail(lists) \in Seq(Places)
         /\ Unread(lists) = {Head(lists)} \cup Unread(Tail(lists))
<1>1. /\ Len(lists) \in Nat /\ Len(lists) > 0 /\ Head(lists) = lists[1]
      /\ Tail(lists) \in Seq(Places) /\ Len(Tail(lists)) = Len(lists) - 1
      /\ \A n \in 1 .. Len(Tail(lists)) : Tail(lists)[n] = lists[n+1]
  OBVIOUS
<1>2. ASSUME NEW n \in 1 .. Len(lists)
      PROVE  lists[n] \in {Head(lists)} \cup Unread(Tail(lists))
  <2>1. CASE n = 1
    BY <1>1, <2>1
  <2>2. CASE n # 1
    <3>1. n - 1 \in 1 .. Len(Tail(lists)) /\ Tail(lists)[n-1] = lists[n]
      BY <1>1, <2>2
    <3> QED BY <3>1 DEF Unread
  <2> QED BY <2>1, <2>2
<1>3. ASSUME NEW n \in 1 .. Len(Tail(lists))
      PROVE  Tail(lists)[n] \in Unread(lists)
  BY <1>1, n + 1 \in 1 .. Len(lists) DEF Unread
<1>4. Head(lists) \in Unread(lists)
  BY <1>1 DEF Unread
<1> QED BY <1>1, <1>2, <1>3, <1>4 DEF Unread

LEMMA UnreadLists ==
  /\ Unread(<<>>) = {}
  /\ Unread(OpenLists) = Open
  /\ Unread(<<"shelved">>) = {"shelved"}
<1>1. /\ Len(OpenLists) = 3 /\ OpenLists[1] = "available" /\ OpenLists[2] = "claimed"
      /\ OpenLists[3] = "pending"
  BY DEF OpenLists
<1>2. 1 .. 3 = {1, 2, 3} /\ 1 .. 1 = {1} /\ 1 .. 0 = {}
  OBVIOUS
<1> QED BY <1>1, <1>2 DEF Unread, Open

LEMMA First ==
  ASSUME NEW s \in Seq(Frame), s # <<>>
  PROVE  s[1] \in Frame /\ Head(s) = s[1] /\ Len(s) \in Nat /\ Len(s) > 0 /\ 1 \in 1 .. Len(s)
OBVIOUS

LEMMA PutIs ==
  ASSUME NEW s \in Seq(Frame), s # <<>>, NEW f \in Frame
  PROVE  /\ Put(s, f) \in Seq(Frame) /\ Len(Put(s, f)) = Len(s) /\ Len(s) \in Nat /\ Len(s) > 0
         /\ Put(s, f)[1] = f
         /\ \A k \in 2 .. Len(s) : Put(s, f)[k] = s[k]
BY DEF Put

LEMMA OverIs ==
  ASSUME NEW s \in Seq(Frame), s # <<>>, NEW f \in Frame, NEW g \in Frame
  PROVE  /\ Over(s, f, g) \in Seq(Frame) /\ Len(Over(s, f, g)) = Len(s) + 1
         /\ Len(s) \in Nat /\ Len(s) > 0
         /\ Over(s, f, g)[1] = f /\ Over(s, f, g)[2] = g
         /\ \A k \in 2 .. Len(s) : Over(s, f, g)[k+1] = s[k]
BY DEF Over

LEMMA TailIs ==
  ASSUME NEW s \in Seq(Frame), s # <<>>
  PROVE  /\ Tail(s) \in Seq(Frame) /\ Len(Tail(s)) = Len(s) - 1 /\ Len(s) \in Nat /\ Len(s) > 0
         /\ \A k \in 1 .. Len(s) - 1 : Tail(s)[k] = s[k+1]
OBVIOUS

-------------------------------------------------------------------------------
(* What a step of another process leaves a command. *)

Since(w, v) ==
  \A i \in Items :
    /\ w.at[i] = "done" => v.at[i] = "done"
    /\ w.at[i] # "none" => v.at[i] # "none"

Same(w, v, i) ==
  v.at[i] = w.at[i] /\ v.hid[i] = w.hid[i] /\ v.came[i] = w.came[i] /\ v.from[i] = w.from[i]

Less(r, q) ==
  q.still \subseteq r.still /\ q.records = r.records /\ q.chain = r.chain /\ q.known = r.known

LEMMA Bystander ==
  ASSUME ShelvingAssumption, NEW w \in Worlds, NEW v \in Worlds, NEW s \in Seq(Frame),
         NEW r \in Running, NEW q \in Running,
         Commands(w, s, r), Less(r, q), Since(w, v), \A i \in q.still : Same(w, v, i)
  PROVE  Commands(v, s, q)
<1>1. Stacked(s)
  BY DEF Commands
<1>2. ASSUME NEW k \in 1 .. Len(s)
      PROVE  Good(v, s, k, q)
  <2>1. s[k] \in Frame /\ Good(w, s, k, r) /\ Sound(s[k])
    BY <1>1, <1>2 DEF Commands, Stacked
  <2> PICK f : f = s[k]
    OBVIOUS
  <2>6. f.call \in {"shelve", "unshelve"} => f.item \in Items
    BY <2>1 DEF Sound
  <2>7. Hiding(w, f, r) /\ Restoring(w, f, r)
    BY <2>1 DEF Good
  <2>2. Hiding(v, f, q)
    <3>1. f.call = "shelve" /\ w.at[f.item] # "none" => v.at[f.item] # "none"
      BY <2>6 DEF Since
    <3> QED BY <2>7, <3>1 DEF Hiding, Less, Same
  <2>3. Cascading(v, s, k, q)
    BY <2>1 DEF Good, Cascading, Less, Same
  <2>4. f.call = "unshelve" /\ GateOpen(w, f.item) => GateOpen(v, f.item)
    <3>1. f.call = "unshelve" => Depends[f.item] \subseteq Items
      BY <2>6 DEF ShelvingAssumption
    <3> QED BY <3>1 DEF GateOpen, Since
  <2>5. Restoring(v, f, q)
    BY <2>4, <2>7 DEF Restoring, Less, Same
  <2> QED BY <2>2, <2>3, <2>5 DEF Good
<1>3. Chained(v, s, q)
  <2>1. ASSUME NEW i \in Items, Hidden(v, q, i)
        PROVE  Hidden(w, r, i) /\ Same(w, v, i)
    BY <2>1 DEF Hidden, Less, Same
  <2>2. \A i, x \in Items : Follows(q, i, x) => Follows(r, i, x)
    BY DEF Follows, Less
  <2> QED BY <2>1, <2>2 DEF Commands, Chained, Less, Same
<1> QED BY <1>1, <1>2, <1>3 DEF Commands

-------------------------------------------------------------------------------
(* What a step of its own leaves it: the call on top goes on, makes a call, or *)
(* returns; the calls under it stay what they are.                             *)

LEMMA StackedPut ==
  ASSUME NEW s \in Seq(Frame), s # <<>>, Stacked(s), NEW f \in Frame, Sound(f),
         f.call = s[1].call, f.cause = s[1].cause
  PROVE  Stacked(Put(s, f))
<1> DEFINE t == Put(s, f)
<1>1. /\ Len(t) = Len(s) /\ Len(s) \in Nat /\ Len(s) > 0 /\ t[1] = f
      /\ \A k \in 2 .. Len(s) : t[k] = s[k]
  BY PutIs
<1> HIDE DEF t
<1>2. \A g : Calls(s[1], g) => Calls(f, g)
  BY DEF Calls
<1>3. ASSUME NEW k \in 1 .. Len(s)
      PROVE  /\ Sound(t[k]) /\ (k < Len(s) => Calls(t[k], t[k+1]))
             /\ (t[k].call \in Hides) = (t[1].call \in Hides)
  <2>1. CASE k = 1
    BY <1>1, <1>2, <2>1 DEF Stacked
  <2>2. CASE k # 1
    BY <1>1, <1>3, <2>2 DEF Stacked
  <2> QED BY <2>1, <2>2
<1> QED BY <1>1, <1>3 DEF Stacked, t

LEMMA StackedOver ==
  ASSUME NEW s \in Seq(Frame), s # <<>>, Stacked(s), NEW f \in Frame, NEW g \in Frame,
         Sound(f), Sound(g), Calls(f, g), g.call = s[1].call, g.cause = s[1].cause
  PROVE  Stacked(Over(s, f, g))
<1> DEFINE t == Over(s, f, g)
<1>1. /\ Len(t) = Len(s) + 1 /\ Len(s) \in Nat /\ Len(s) > 0 /\ t[1] = f /\ t[2] = g
      /\ \A k \in 2 .. Len(s) : t[k+1] = s[k]
  BY OverIs
<1> HIDE DEF t
<1>2. \A h : Calls(s[1], h) => Calls(g, h)
  BY DEF Calls
<1>4. (f.call \in Hides) = (s[1].call \in Hides)
  BY DEF Calls, Hides
<1>3. ASSUME NEW k \in 1 .. Len(s) + 1
      PROVE  /\ Sound(t[k]) /\ (k < Len(s) + 1 => Calls(t[k], t[k+1]))
             /\ (t[k].call \in Hides) = (t[1].call \in Hides)
  <2>1. CASE k = 1
    BY <1>1, <2>1
  <2>2. CASE k = 2
    BY <1>1, <1>2, <1>4, <2>2 DEF Stacked
  <2>3. CASE k > 2
    <3>1. k - 1 \in 2 .. Len(s) /\ t[k] = s[k-1]
      BY <1>1, <1>3, <2>3
    <3>2. k < Len(s) + 1 => t[k+1] = s[k] /\ k - 1 < Len(s)
      BY <1>1, <2>3
    <3> QED BY <1>1, <1>4, <3>1, <3>2 DEF Stacked
  <2> QED BY <2>1, <2>2, <2>3
<1> QED BY <1>1, <1>3 DEF Stacked, t

LEMMA StackedTail ==
  ASSUME NEW s \in Seq(Frame), s # <<>>, Stacked(s)
  PROVE  Stacked(Tail(s))
<1> DEFINE t == Tail(s)
<1>1. /\ Len(t) = Len(s) - 1 /\ Len(s) \in Nat /\ Len(s) > 0
      /\ \A k \in 1 .. Len(s) - 1 : t[k] = s[k+1]
  BY TailIs
<1> HIDE DEF t
<1>2. ASSUME NEW k \in 1 .. Len(t)
      PROVE  /\ Sound(t[k]) /\ (k < Len(t) => Calls(t[k], t[k+1]))
             /\ (t[k].call \in Hides) = (t[1].call \in Hides)
  <2>1. k + 1 \in 1 .. Len(s) /\ t[k] = s[k+1] /\ 2 \in 1 .. Len(s) /\ t[1] = s[2]
    BY <1>1, <1>2
  <2>2. k < Len(t) => k + 1 < Len(s) /\ t[k+1] = s[k+2]
    BY <1>1, <1>2
  <2> QED BY <2>1, <2>2 DEF Stacked
<1> QED BY <1>2 DEF Stacked, t

\* A step hides or restores one item: of those that count on being left alone none
\* comes back or is hidden again.
Keeps(w, v, s, r) ==
  /\ Since(w, v)
  /\ s[1].call \in Hides =>
       \A i \in r.still :
         /\ w.at[i] = "shelved" =>
              v.at[i] = "shelved" /\ v.hid[i] = w.hid[i] /\ v.came[i] = w.came[i]
         /\ v.at[i] \in Open => v.at[i] = w.at[i]

\* A call that waits for another.
LEMMA Lower ==
  ASSUME NEW w \in Worlds, NEW v \in Worlds, NEW s \in Seq(Frame), NEW t \in Seq(Frame),
         NEW r \in Running, NEW q \in Running, q.still = r.still,
         Commands(w, s, r), Keeps(w, v, s, r),
         NEW k \in 2 .. Len(s), NEW j \in 1 .. Len(t), t[j] = s[k],
         \A i \in r.still :
           v.at[i] \in Open /\ Above(s, k, i) /\ s[k].call = "shelve" => Above(t, j, i)
  PROVE  Good(v, t, j, q)
<1>1. s # <<>> /\ k \in 1 .. Len(s) /\ k - 1 \in 1 .. Len(s) /\ k - 1 < Len(s) /\ (k - 1) + 1 = k
  OBVIOUS
<1>2. Good(w, s, k, r) /\ Sound(s[k]) /\ Calls(s[k-1], s[k])
  BY <1>1 DEF Commands, Stacked
<1>3. (s[k].call \in Hides) = (s[1].call \in Hides)
  BY <1>1 DEF Commands, Stacked
<1> PICK f : f = s[k]
  OBVIOUS
<1>4. f.step = "list" /\ (f.call = "shelve" => f.item \in Items /\ s[1].call \in Hides)
  BY <1>2, <1>3 DEF Calls, Sound, Hides
<1>5. Hiding(v, f, q)
  BY <1>2, <1>4 DEF Good, Hiding, Keeps, Since
<1>6. Cascading(v, t, j, q)
  BY <1>2, <1>4 DEF Good, Cascading, Keeps
<1>7. Restoring(v, f, q)
  BY <1>4 DEF Restoring
<1> QED BY <1>5, <1>6, <1>7 DEF Good

LEMMA CommandsPut ==
  ASSUME NEW w \in Worlds, NEW v \in Worlds, NEW s \in Seq(Frame), s # <<>>,
         NEW r \in Running, NEW q \in Running, q.still = r.still, NEW f \in Frame,
         Commands(w, s, r), Keeps(w, v, s, r),
         Sound(f), f.call = s[1].call, f.cause = s[1].cause,
         s[1].call = "shelve" =>
           \A i \in r.still : v.at[i] \in Open /\ Going(s[1], i) => Going(f, i),
         Hiding(v, f, q), Restoring(v, f, q),
         f.call = "shelve" /\ f.step = "list" =>
           \A i \in r.still : f.item \in Depends[i] /\ v.at[i] \in Open =>
             v.at[i] \in Unread(f.lists) \/ i \in f.todo,
         Chained(v, Put(s, f), q)
  PROVE  Commands(v, Put(s, f), q)
<1> PICK t : t = Put(s, f)
  OBVIOUS
<1>1. /\ t \in Seq(Frame) /\ Len(t) = Len(s) /\ Len(s) \in Nat /\ Len(s) > 0 /\ t[1] = f
      /\ \A k \in 2 .. Len(s) : t[k] = s[k]
  BY PutIs
<1>2. Stacked(s) /\ Stacked(t)
  BY StackedPut DEF Commands
<1>3. Good(v, t, 1, q)
  BY <1>1 DEF Good, Cascading
<1>4. ASSUME NEW k \in 2 .. Len(s)
      PROVE  Good(v, t, k, q)
  <2>1. k \in 1 .. Len(t) /\ t[k] = s[k]
    BY <1>1
  <2>2. ASSUME NEW i \in r.still, v.at[i] \in Open, Above(s, k, i), s[k].call = "shelve"
        PROVE  Above(t, k, i)
    <3>1. CASE k = 2
      <4>1. s[1].call = "shelve"
        BY <1>1, <1>2, <2>2, <3>1 DEF Stacked, Calls
      <4> QED BY <1>1, <2>2, <3>1, <4>1 DEF Above
    <3>2. CASE k # 2
      BY <1>1, <2>2, <3>2, k - 1 \in 2 .. Len(s) DEF Above
    <3> QED BY <3>1, <3>2
  <2>3. \A i \in r.still :
          v.at[i] \in Open /\ Above(s, k, i) /\ s[k].call = "shelve" => Above(t, k, i)
    BY <2>2
  <2> QED BY <1>1, <2>1, <2>3, Lower
<1> QED BY <1>1, <1>2, <1>3, <1>4 DEF Commands

LEMMA ChainedPut ==
  ASSUME NEW w \in Worlds, NEW v \in Worlds, NEW s \in Seq(Frame), s # <<>>,
         NEW r \in Running, NEW q \in Running, NEW f \in Frame, Commands(w, s, r),
         q.still = r.still, q.known = r.known, q.records = r.records, f.call = s[1].call,
         s[1].call \in {"unshelve", "unshelve_tag"} =>
           \A i \in Items : Hidden(v, q, i) =>
             /\ Same(w, v, i) /\ (i \in q.chain => i \in r.chain)
             /\ Going(s[1], i) => Going(f, i)
             /\ \A x \in Items : Follows(q, i, x) =>
                  \/ /\ x \in r.chain
                     /\ Brings(s[1], x) /\ Later(s[1], i) => Brings(f, x) /\ Later(f, i)
                  \/ Brings(f, x) /\ Later(f, i)
  PROVE  Chained(v, Put(s, f), q)
<1> PICK t : t = Put(s, f)
  OBVIOUS
<1>1. /\ t \in Seq(Frame) /\ Len(t) = Len(s) /\ Len(s) \in Nat /\ Len(s) > 0 /\ t[1] = f
      /\ \A k \in 2 .. Len(s) : t[k] = s[k]
  BY PutIs
<1>2. ASSUME Unshelves(t), NEW i \in Items, Hidden(v, q, i), NEW x \in Items, Follows(q, i, x),
             NEW k \in 1 .. Len(s), Brings(s[k], x), Later(s[k], i) \/ Above(s, k, i), x \in r.chain
      PROVE  Waits(t, i, x)
  <2>1. s[1].call \in {"unshelve", "unshelve_tag"}
    BY <1>1, <1>2 DEF Unshelves
  <2>2. CASE k = 1
    <3>1. Brings(f, x) /\ Later(f, i)
      BY <1>2, <2>1, <2>2 DEF Above
    <3> QED BY <1>1, <3>1, 1 \in 1 .. Len(t) DEF Waits
  <2>3. CASE k # 1
    <3>1. k \in 1 .. Len(t) /\ t[k] = s[k]
      BY <1>1, <2>3
    <3>2. Above(s, k, i) => Above(t, k, i)
      <4>1. CASE k = 2
        BY <1>1, <1>2, <2>1, <4>1 DEF Above
      <4>2. CASE k # 2
        BY <1>1, <2>3, <4>2, k - 1 \in 2 .. Len(s) DEF Above
      <4> QED BY <4>1, <4>2
    <3> QED BY <1>2, <3>1, <3>2 DEF Waits
  <2> QED BY <2>2, <2>3
<1>3. ASSUME Unshelves(t), NEW i \in Items, Hidden(v, q, i)
      PROVE  /\ q.records[i] = RecordOf(v.hid[i]) /\ v.from[i] = v.came[i] /\ i \notin q.chain
             /\ \A x \in Items : Follows(q, i, x) => Waits(t, i, x)
  <2>1. s[1].call \in {"unshelve", "unshelve_tag"} /\ Unshelves(s)
    BY <1>1, <1>3 DEF Unshelves
  <2>2. Same(w, v, i) /\ Hidden(w, r, i) /\ (i \in q.chain => i \in r.chain)
    BY <1>3, <2>1 DEF Hidden, Same
  <2>3. /\ r.records[i] = RecordOf(w.hid[i]) /\ w.from[i] = w.came[i] /\ i \notin r.chain
        /\ \A x \in Items : Follows(r, i, x) => Waits(s, i, x)
    BY <2>1, <2>2 DEF Commands, Chained
  <2>4. ASSUME NEW x \in Items, Follows(q, i, x)
        PROVE  Waits(t, i, x)
    <3>1. CASE x \in r.chain
      <4>1. Follows(r, i, x)
        BY <2>4, <3>1 DEF Follows
      <4>2. Waits(s, i, x)
        BY <2>3, <4>1
      <4>3. PICK k \in 1 .. Len(s) : Brings(s[k], x) /\ (Later(s[k], i) \/ Above(s, k, i))
        BY <4>2 DEF Waits
      <4> QED BY <1>2, <1>3, <2>4, <3>1, <4>3
    <3>2. CASE x \notin r.chain
      <4>1. Brings(f, x) /\ Later(f, i)
        BY <1>3, <2>1, <2>4, <3>2
      <4> QED BY <1>1, <4>1, 1 \in 1 .. Len(t) DEF Waits
    <3> QED BY <3>1, <3>2
  <2> QED BY <2>2, <2>3, <2>4 DEF Same
<1> QED BY <1>3 DEF Chained

NextFrame(f, g, d) ==
  /\ g.call = f.call /\ g.cause = f.cause /\ g.item = f.item /\ g.step = f.step
  /\ g.lists = f.lists /\ g.to = f.to /\ g.todo = f.todo \ {d}

LEMMA CommandsOver ==
  ASSUME NEW w \in Worlds, NEW s \in Seq(Frame), s # <<>>, NEW r \in Running,
         NEW f \in Frame, NEW g \in Frame, NEW i0 \in Items, Commands(w, s, r),
         s[1].step = "list", s[1].call \in {"shelve", "unshelve"},
         NextFrame(s[1], g, i0), i0 \in s[1].todo,
         f.item = i0, f.step = "read", Sound(f), Sound(g), Calls(f, g), Restoring(w, f, r)
  PROVE  Commands(w, Over(s, f, g), r)
<1> DEFINE t == Over(s, f, g)
<1>1. /\ t \in Seq(Frame) /\ Len(t) = Len(s) + 1 /\ Len(s) \in Nat /\ Len(s) > 0
      /\ t[1] = f /\ t[2] = g
      /\ \A k \in 2 .. Len(s) : t[k+1] = s[k]
  BY OverIs
<1> HIDE DEF t
<1>15. s[1] \in Frame /\ 1 \in 1 .. Len(s)
  BY First
<1>2. /\ g.call = s[1].call /\ g.cause = s[1].cause /\ g.item = s[1].item /\ g.step = s[1].step
      /\ g.lists = s[1].lists /\ g.todo = s[1].todo \ {i0} /\ g.to = s[1].to
  BY DEF NextFrame
<1>3. Stacked(s) /\ Stacked(t)
  BY <1>2, StackedOver DEF Commands, t
<1>4. Good(w, s, 1, r)
  BY <1>15 DEF Commands
<1>5. Good(w, t, 1, r)
  <2>1. Hiding(w, f, r)
    BY DEF Hiding
  <2>2. Cascading(w, t, 1, r)
    BY <1>1 DEF Cascading
  <2> QED BY <1>1, <2>1, <2>2 DEF Good
<1>6. Above(t, 2, i0)
  BY <1>1 DEF Above, Going
<1>7. Good(w, t, 2, r)
  <2>1. Hiding(w, g, r)
    BY <1>2, <1>4 DEF Good, Hiding
  <2>2. Restoring(w, g, r)
    BY <1>2 DEF Restoring
  <2>3. \A i : ~Above(s, 1, i)
    BY DEF Above
  <2>4. Cascading(w, t, 2, r)
    BY <1>1, <1>2, <1>4, <1>6, <2>3 DEF Good, Cascading
  <2> QED BY <1>1, <2>1, <2>2, <2>4 DEF Good
<1>8. Keeps(w, w, s, r)
  BY DEF Keeps, Since
<1>9. ASSUME NEW k \in 2 .. Len(s), NEW i, Above(s, k, i)
      PROVE  Above(t, k+1, i)
  <2>1. CASE k = 2
    BY <1>9, <2>1 DEF Above, Going
  <2>2. CASE k # 2
    <3>1. k - 1 \in 2 .. Len(s) /\ (k - 1) + 1 = k /\ (k + 1) - 1 = k /\ k + 1 > 1
      BY <1>1, <2>2
    <3>2. t[(k - 1) + 1] = s[k-1]
      BY <1>1, <3>1
    <3> QED BY <1>9, <3>1, <3>2 DEF Above
  <2> QED BY <2>1, <2>2
<1>10. ASSUME NEW k \in 3 .. Len(s) + 1
       PROVE  Good(w, t, k, r)
  <2>3. k - 1 \in 2 .. Len(s) /\ k \in 1 .. Len(s) + 1 /\ (k - 1) + 1 = k
    BY First
  <2>1. k - 1 \in 2 .. Len(s) /\ k \in 1 .. Len(t) /\ t[k] = s[k-1] /\ (k - 1) + 1 = k
    <3>1. t[(k - 1) + 1] = s[k-1]
      BY <1>1, <2>3
    <3> QED BY <1>1, <2>3, <3>1
  <2>2. \A i \in r.still :
          w.at[i] \in Open /\ Above(s, k-1, i) /\ s[k-1].call = "shelve" => Above(t, k, i)
    BY <1>9, <2>1
  <2> QED BY <1>1, <1>8, <2>1, <2>2, Lower
<1>11. \A k \in 1 .. Len(t) : Good(w, t, k, r)
  <2>1. \A k \in 1 .. Len(t) : k = 1 \/ k = 2 \/ k \in 3 .. Len(s) + 1
    BY <1>1
  <2> QED BY <1>5, <1>7, <1>10, <2>1
<1>12. ASSUME Unshelves(t), NEW i \in Items, NEW x \in Items, Waits(s, i, x)
       PROVE  Waits(t, i, x)
  <2>1. PICK k \in 1 .. Len(s) : Brings(s[k], x) /\ (Later(s[k], i) \/ Above(s, k, i))
    BY <1>12 DEF Waits
  <2>2. CASE k = 1
    <3>1. Brings(g, x) /\ Later(s[1], i)
      BY <1>2, <2>1, <2>2 DEF Brings, Above
    <3>2. Later(g, i) \/ Above(t, 2, i)
      BY <1>2, <1>6, <3>1 DEF Later
    <3> QED BY <1>1, <3>1, <3>2, 2 \in 1 .. Len(t) DEF Waits
  <2>3. CASE k # 1
    <3>2. k \in 2 .. Len(s) /\ k + 1 \in 1 .. Len(s) + 1
      BY <2>3, First
    <3>1. k \in 2 .. Len(s) /\ k + 1 \in 1 .. Len(t) /\ t[k+1] = s[k]
      BY <1>1, <3>2
    <3> QED BY <1>9, <2>1, <3>1 DEF Waits
  <2> QED BY <2>2, <2>3
<1>13. Unshelves(t) => Unshelves(s)
  BY <1>1, <1>2 DEF Unshelves, Calls
<1>14. Chained(w, t, r)
  BY <1>12, <1>13 DEF Commands, Chained
<1> QED BY <1>3, <1>11, <1>14 DEF Commands, t

LEMMA CommandsTail ==
  ASSUME ShelvingAssumption, NEW w \in Worlds, NEW v \in Worlds, NEW s \in Seq(Frame),
         s # <<>>, NEW r \in Running,
         Commands(w, s, r), Keeps(w, v, s, r),
         s[1].call = "shelve" => \A i \in r.still : v.at[i] \in Open => ~Going(s[1], i),
         Unshelves(s) =>
           \A i \in Items : Hidden(v, r, i) =>
             /\ Same(w, v, i) /\ (s[1].step = "list" => ~Later(s[1], i))
             /\ Going(s[1], i) => s[1].cause = "own"
  PROVE  Commands(v, Tail(s), r)
<1> PICK t : t = Tail(s)
  OBVIOUS
<1>1. /\ t \in Seq(Frame) /\ Len(t) = Len(s) - 1 /\ Len(s) \in Nat /\ Len(s) > 0
      /\ \A k \in 1 .. Len(s) - 1 : t[k] = s[k+1]
  BY TailIs
<1>2. Stacked(s) /\ Stacked(t)
  BY StackedTail DEF Commands
<1>3. ASSUME NEW k \in 2 .. Len(s), k > 2, NEW i, Above(s, k, i)
      PROVE  Above(t, k-1, i)
  BY <1>1, <1>3, k - 2 \in 1 .. Len(s) - 1, (k - 2) + 1 = k - 1, (k - 1) - 1 = k - 2 DEF Above
<1>4. ASSUME NEW k \in 1 .. Len(t)
      PROVE  Good(v, t, k, r)
  <2>1. k + 1 \in 2 .. Len(s) /\ t[k] = s[k+1]
    BY <1>1
  <2>2. ASSUME NEW i \in r.still, v.at[i] \in Open, Above(s, k+1, i), s[k+1].call = "shelve"
        PROVE  Above(t, k, i)
    <3>1. CASE k = 1
      <4>1. s[1].call = "shelve"
        BY <1>1, <1>2, <2>1, <2>2, <3>1 DEF Stacked, Calls
      <4> QED BY <2>2, <3>1, <4>1 DEF Above
    <3>2. CASE k # 1
      BY <1>3, <2>1, <2>2, <3>2
    <3> QED BY <3>1, <3>2
  <2>3. \A i \in r.still :
          v.at[i] \in Open /\ Above(s, k+1, i) /\ s[k+1].call = "shelve" => Above(t, k, i)
    BY <2>2
  <2> QED BY <1>1, <2>1, <2>3, Lower
<1>5. ASSUME Unshelves(t), NEW i \in Items, Hidden(v, r, i), NEW x \in Items, Waits(s, i, x),
             Same(w, v, i), s[1].step = "list" => ~Later(s[1], i),
             Going(s[1], i) => s[1].cause = "own"
      PROVE  Waits(t, i, x)
  <2>1. PICK k \in 1 .. Len(s) : Brings(s[k], x) /\ (Later(s[k], i) \/ Above(s, k, i))
    BY <1>5 DEF Waits
  <2>2. k # 1
    BY <1>5, <2>1 DEF Above, Brings
  <2>3. k - 1 \in 1 .. Len(t) /\ t[k-1] = s[k] /\ 1 < Len(s) /\ 1 \in 1 .. Len(s)
    BY <1>1, <2>2
  <2>4. k = 2 => ~Above(s, k, i)
    <3>1. k = 2 => s[1].cause # "own"
      <4>1. Calls(s[1], s[2])
        BY <1>2, <2>3 DEF Stacked
      <4>2. k = 2 => s[1].cause \in Items
        BY <1>2, <2>1, <2>3, <4>1 DEF Calls, Brings, Stacked, Sound
      <4> QED BY <4>2, ShelvingAssumption DEF ShelvingAssumption
    <3> QED BY <1>5, <3>1 DEF Above
  <2>5. Above(s, k, i) => Above(t, k-1, i)
    BY <1>3, <2>2, <2>4
  <2> QED BY <2>1, <2>3, <2>5 DEF Waits
<1>6. Unshelves(t) => Unshelves(s)
  <2>1. t # <<>> => t[1] = s[2] /\ 1 < Len(s) /\ 1 \in 1 .. Len(s)
    BY <1>1
  <2> QED BY <1>2, <2>1 DEF Unshelves, Stacked, Calls
<1>7. ASSUME Unshelves(t), NEW i \in Items, Hidden(v, r, i)
      PROVE  /\ r.records[i] = RecordOf(v.hid[i]) /\ v.from[i] = v.came[i] /\ i \notin r.chain
             /\ \A x \in Items : Follows(r, i, x) => Waits(t, i, x)
  <2>1. /\ Same(w, v, i) /\ (s[1].step = "list" => ~Later(s[1], i))
        /\ Going(s[1], i) => s[1].cause = "own"
    BY <1>6, <1>7
  <2>2. Hidden(w, r, i)
    BY <1>7, <2>1 DEF Hidden, Same
  <2> QED BY <1>5, <1>6, <1>7, <2>1, <2>2 DEF Commands, Chained, Same
<1> QED BY <1>2, <1>4, <1>7 DEF Commands, Chained

-------------------------------------------------------------------------------
(* A step of one process. *)

LEMMA WorldIs ==
  ASSUME Types
  PROVE  /\ World \in Worlds /\ World.at = at /\ World.hid = hid /\ World.came = came
         /\ World.from = from
BY DEF Types, World, Worlds

LEMMA Unchanged ==
  /\ UNCHANGED <<at, history, from>> => World' = World
  /\ World'.at = at' /\ World'.hid = hid' /\ World'.came = came' /\ World'.from = from'
BY DEF World, history

LEMMA Turn ==
  ASSUME ShelvingAssumption, Inv, NEW p \in Processes, NEW t \in Seq(Frame), World' \in Worlds,
         stack' = [stack EXCEPT ![p] = t], run' \in [Processes -> Running],
         Since(World, World'), Commands(World', t, run'[p]),
         \A q \in Processes \ {p} :
           Less(run[q], run'[q]) /\ \A i \in run'[q].still : Same(World, World', i)
  PROVE  /\ \A q \in Processes : Commands(World', stack'[q], run'[q])
         /\ stack' \in [Processes -> Seq(Frame)]
<1> PICK v : v = World'
  OBVIOUS
<1>1. World \in Worlds /\ stack \in [Processes -> Seq(Frame)] /\ run \in [Processes -> Running]
  BY WorldIs DEF Inv, Types
<1>2. stack' \in [Processes -> Seq(Frame)] /\ stack'[p] = t
  BY <1>1
<1>3. ASSUME NEW q \in Processes \ {p}
      PROVE  Commands(v, stack'[q], run'[q])
  <2>1. stack'[q] = stack[q] /\ Commands(World, stack[q], run[q])
    BY <1>1 DEF Inv
  <2> PICK s, r, n, w : s = stack[q] /\ r = run[q] /\ n = run'[q] /\ w = World
    OBVIOUS
  <2>2. w \in Worlds /\ v \in Worlds /\ s \in Seq(Frame) /\ r \in Running /\ n \in Running
    BY <1>1
  <2>3. Commands(w, s, r) /\ Less(r, n) /\ Since(w, v) /\ \A i \in n.still : Same(w, v, i)
    BY <1>3, <2>1
  <2>4. Commands(v, s, n)
    BY <2>2, <2>3, Bystander
  <2> QED BY <2>1, <2>4
<1> QED BY <1>2, <1>3

\* A step that only looks.
LEMMA QuietTurn ==
  ASSUME ShelvingAssumption, Inv, NEW p \in Processes, NEW t \in Seq(Frame), NEW r \in Running,
         stack' = [stack EXCEPT ![p] = t], run' = [run EXCEPT ![p] = r],
         UNCHANGED <<at, log, history>>, Commands(World, t, r)
  PROVE  Inv'
<1>1. World' = World /\ World \in Worlds
  BY WorldIs, Unchanged DEF log, history, Inv
<1>2. run' \in [Processes -> Running] /\ run'[p] = r /\ \A q \in Processes \ {p} : run'[q] = run[q]
  BY DEF Inv, Types
<1>3. Since(World, World') /\ \A i : Same(World, World', i)
  BY <1>1 DEF Since, Same
<1>4. \A q \in Processes \ {p} : Less(run[q], run'[q])
  BY <1>2 DEF Less
<1>5. /\ \A q \in Processes : Commands(World', stack'[q], run'[q])
      /\ stack' \in [Processes -> Seq(Frame)]
  BY <1>1, <1>2, <1>3, <1>4, Turn
<1>6. OnShelf'
  BY <1>1 DEF Inv, OnShelf, log
<1>7. Types'
  BY <1>2, <1>5 DEF Inv, Types, log, history
<1> QED BY <1>5, <1>6, <1>7 DEF Inv

LEMMA TopIs ==
  ASSUME Inv, NEW p \in Processes, stack[p] # <<>>
  PROVE  /\ Top(p) = stack[p][1] /\ Top(p) \in Frame /\ run[p] \in Running
         /\ stack[p] \in Seq(Frame) /\ Commands(World, stack[p], run[p])
         /\ Sound(Top(p)) /\ Good(World, stack[p], 1, run[p]) /\ World \in Worlds
<1>1. stack[p] \in Seq(Frame) /\ run[p] \in Running /\ World \in Worlds
  BY WorldIs DEF Inv, Types
<1>2. Commands(World, stack[p], run[p])
  BY DEF Inv
<1>3. /\ stack[p][1] \in Frame /\ Head(stack[p]) = stack[p][1] /\ 1 \in 1 .. Len(stack[p])
  BY <1>1, First
<1> QED BY <1>1, <1>2, <1>3 DEF Commands, Stacked, Top

LEMMA IdleCommands ==
  ASSUME NEW w, NEW r
  PROVE  Commands(w, <<>>, r)
<1>1. 1 .. Len(<<>>) = {}
  OBVIOUS
<1> QED BY <1>1 DEF Commands, Stacked, Chained, Unshelves

LEMMA RunsIs ==
  Types => Idle \in Running /\ \A flag \in BOOLEAN : Fresh(flag) \in Running
BY DEF Idle, Fresh, Running, RecordCauses, Types, Causes

LEMMA KeepsSame ==
  ASSUME NEW w, NEW s, NEW r
  PROVE  Keeps(w, w, s, r)
BY DEF Keeps, Since

\* The call on top returns, with nothing to do that others wait for.
LEMMA ReturnTurn ==
  ASSUME ShelvingAssumption, Inv, NEW p \in Processes, stack[p] # <<>>, Return(p),
         UNCHANGED <<at, log, history>>,
         Top(p).call = "shelve" =>
           \A i \in run[p].still : at[i] \in Open => ~Going(Top(p), i),
         Top(p).call \in {"unshelve", "unshelve_tag"} =>
           \A i \in Items : Hidden(World, run[p], i) =>
             /\ Top(p).step = "list" => ~Later(Top(p), i)
             /\ Going(Top(p), i) => Top(p).cause = "own"
  PROVE  Inv'
<1> DEFINE s == stack[p]  r == run[p]  t == Tail(s)  w == World
<1>1. /\ Top(p) = s[1] /\ r \in Running /\ s \in Seq(Frame) /\ Commands(w, s, r) /\ w \in Worlds
      /\ w.at = at
  BY TopIs, WorldIs DEF Inv
<1>2. t \in Seq(Frame) /\ Len(t) = Len(s) - 1 /\ Len(s) \in Nat /\ Len(s) > 0
  BY <1>1, TailIs
<1>3. stack' = [stack EXCEPT ![p] = t]
  BY DEF Return
<1>4. CASE Len(s) = 1
  <2>4. run' = [run EXCEPT ![p] = Idle]
    BY <1>4 DEF Return
  <2>5. t = <<>>
    <3> HIDE DEF t, s
    <3> QED BY <1>2, <1>4
  <2>1. t = <<>> /\ run' = [run EXCEPT ![p] = Idle]
    BY <2>4, <2>5
  <2>2. Commands(w, t, Idle)
    BY <2>1, IdleCommands
  <2>3. Idle \in Running
    BY RunsIs DEF Inv
  <2> HIDE DEF t, w
  <2> QED BY <1>2, <1>3, <2>1, <2>2, <2>3, QuietTurn DEF w
<1>5. CASE Len(s) # 1
  <2>1. run' = [run EXCEPT ![p] = r]
    BY <1>5 DEF Return, Inv, Types
  <2>2. Keeps(w, w, s, r) /\ \A i : Same(w, w, i)
    BY KeepsSame DEF Same
  <2>3. Unshelves(s) => Top(p).call \in {"unshelve", "unshelve_tag"}
    BY <1>1 DEF Unshelves
  <2>4. Commands(w, t, r)
    <3> HIDE DEF w, s, r
    <3>1. s # <<>> /\ (s[1].call = "shelve" =>
              \A i \in r.still : w.at[i] \in Open => ~Going(s[1], i))
      BY <1>1 DEF s, r
    <3>2. Unshelves(s) =>
             \A i \in Items : Hidden(w, r, i) =>
               /\ Same(w, w, i) /\ (s[1].step = "list" => ~Later(s[1], i))
               /\ Going(s[1], i) => s[1].cause = "own"
      BY <1>1, <2>2, <2>3 DEF w, r
    <3> QED BY <1>1, <2>2, <3>1, <3>2, CommandsTail
  <2> HIDE DEF t, w
  <2> QED BY <1>1, <1>2, <1>3, <2>1, <2>4, QuietTurn DEF w
<1> QED BY <1>4, <1>5

\* The call on top goes on.
LEMMA PutTurn ==
  ASSUME ShelvingAssumption, Inv, NEW p \in Processes, stack[p] # <<>>, NEW f \in Frame, Set(p, f),
         run' = run, UNCHANGED <<at, log, history>>,
         Sound(f), f.call = Top(p).call, f.cause = Top(p).cause,
         Top(p).call = "shelve" =>
           \A i \in run[p].still : at[i] \in Open /\ Going(Top(p), i) => Going(f, i),
         Hiding(World, f, run[p]), Restoring(World, f, run[p]),
         f.call = "shelve" /\ f.step = "list" =>
           \A i \in run[p].still : f.item \in Depends[i] /\ at[i] \in Open =>
             at[i] \in Unread(f.lists) \/ i \in f.todo,
         Top(p).call \in {"unshelve", "unshelve_tag"} =>
           \A i \in Items : Hidden(World, run[p], i) =>
             /\ Going(Top(p), i) => Going(f, i)
             /\ \A x \in Items :
                  Follows(run[p], i, x) /\ Brings(Top(p), x) /\ Later(Top(p), i) =>
                    Brings(f, x) /\ Later(f, i)
  PROVE  Inv'
<1> PICK s, r, w : s = stack[p] /\ r = run[p] /\ w = World
  OBVIOUS
<1>1. /\ Top(p) = s[1] /\ r \in Running /\ s \in Seq(Frame) /\ s # <<>> /\ Commands(w, s, r)
      /\ w \in Worlds /\ w.at = at
  BY TopIs, WorldIs DEF Inv
<1>2. Put(s, f) \in Seq(Frame) /\ stack' = [stack EXCEPT ![p] = Put(s, f)]
  BY <1>1, PutIs DEF Set, Put, Top
<1>3. Keeps(w, w, s, r) /\ \A i : Same(w, w, i)
  BY KeepsSame DEF Same
<1>4. Chained(w, Put(s, f), r)
  <2>1. s[1].call \in {"unshelve", "unshelve_tag"} =>
          \A i \in Items : Hidden(w, r, i) =>
            /\ Same(w, w, i) /\ (i \in r.chain => i \in r.chain)
            /\ Going(s[1], i) => Going(f, i)
            /\ \A x \in Items : Follows(r, i, x) =>
                 \/ /\ x \in r.chain
                    /\ Brings(s[1], x) /\ Later(s[1], i) => Brings(f, x) /\ Later(f, i)
                 \/ Brings(f, x) /\ Later(f, i)
    BY <1>1, <1>3 DEF Follows
  <2> QED BY <1>1, <2>1, ChainedPut
<1>5. Commands(w, Put(s, f), r)
  BY <1>1, <1>3, <1>4, CommandsPut
<1>6. run' = [run EXCEPT ![p] = r]
  BY DEF Inv, Types
<1> QED BY <1>1, <1>2, <1>5, <1>6, QuietTurn

\* The call on top makes another for one of the items it has to do.
LEMMA OverTurn ==
  ASSUME ShelvingAssumption, Inv, NEW p \in Processes, stack[p] # <<>>, NEW f \in Frame,
         NEW g \in Frame, NEW d \in Items, Push(p, f, g),
         run' = run, UNCHANGED <<at, log, history>>,
         NextFrame(Top(p), g, d), d \in Top(p).todo,
         Top(p).step = "list", Top(p).call \in {"shelve", "unshelve"},
         f.item = d, f.step = "read", Sound(f), Sound(g), Calls(f, g),
         Restoring(World, f, run[p])
  PROVE  Inv'
<1> PICK s, r, w : s = stack[p] /\ r = run[p] /\ w = World
  OBVIOUS
<1>1. /\ Top(p) = s[1] /\ r \in Running /\ s \in Seq(Frame) /\ s # <<>> /\ Commands(w, s, r)
      /\ w \in Worlds
  BY TopIs
<1>2. Over(s, f, g) \in Seq(Frame) /\ stack' = [stack EXCEPT ![p] = Over(s, f, g)]
  BY <1>1, OverIs DEF Push, Over
<1>5. Commands(w, Over(s, f, g), r)
  BY <1>1, CommandsOver
<1>6. run' = [run EXCEPT ![p] = r]
  BY DEF Inv, Types
<1> QED BY <1>1, <1>2, <1>5, <1>6, QuietTurn

\* What going on to the next step of a call leaves of it.
LEMMA StepIs ==
  ASSUME NEW f \in Frame, NEW step \in {"guard", "read", "move", "emit", "list"}
  PROVE  LET g == [f EXCEPT !.step = step] IN
         /\ g \in Frame /\ g.call = f.call /\ g.item = f.item /\ g.cause = f.cause
         /\ g.step = step /\ g.todo = f.todo /\ g.lists = f.lists /\ g.to = f.to
BY DEF Frame

LEMMA GuardTurn ==
  ASSUME ShelvingAssumption, Inv, NEW p \in Processes, Guard(p)
  PROVE  Inv'
<1>1. stack[p] # <<>> /\ Top(p).call = "shelve" /\ Top(p).step = "guard"
  BY DEF Guard, In
<1>2. Top(p) \in Frame /\ Sound(Top(p)) /\ UNCHANGED <<at, log, history>>
  BY <1>1, TopIs DEF Guard
<1>3. \A i : ~Going(Top(p), i)
  BY <1>1 DEF Going
<1>4. CASE Return(p)
  BY <1>1, <1>2, <1>3, <1>4, ReturnTurn
<1>5. CASE Set(p, [Top(p) EXCEPT !.step = "read"]) /\ run' = run
  <2> PICK g : g = [Top(p) EXCEPT !.step = "read"]
    OBVIOUS
  <2>1. /\ g \in Frame /\ g.call = Top(p).call /\ g.item = Top(p).item /\ g.cause = Top(p).cause
        /\ g.step = "read" /\ g.todo = Top(p).todo
    BY <1>2, StepIs
  <2>2. Sound(g) /\ Hiding(World, g, run[p]) /\ Restoring(World, g, run[p])
    BY <1>1, <1>2, <2>1 DEF Sound, Hiding, Restoring
  <2>3. Set(p, g)
    BY <1>5
  <2> QED BY <1>1, <1>2, <1>3, <1>5, <2>1, <2>2, <2>3, PutTurn
<1> QED BY <1>4, <1>5 DEF Guard

LEMMA ReadTurn ==
  ASSUME ShelvingAssumption, Inv, NEW p \in Processes, Read(p)
  PROVE  Inv'
<1>1. stack[p] # <<>> /\ Top(p).call = "shelve" /\ Top(p).step = "read"
  BY DEF Read, In
<1>2. /\ Top(p) \in Frame /\ Sound(Top(p)) /\ UNCHANGED <<at, log, history>>
      /\ World.at = at /\ at \in [Items -> Places]
  BY <1>1, TopIs, WorldIs DEF Read, Inv, Types
<1>3. Top(p).item \in Items
  BY <1>1, <1>2 DEF Sound
<1>4. CASE at[Top(p).item] \notin Open
  <2>1. Return(p)
    BY <1>4 DEF Read
  <2> QED BY <1>1, <1>2, <1>4, <2>1, ReturnTurn DEF Going
<1>5. CASE at[Top(p).item] \in Open
  <2> PICK to \in Places : to = at[Top(p).item]
    BY <1>2, <1>3
  <2> PICK f \in Frame : f = Top(p)
    BY <1>2
  <2> PICK g : g = [f EXCEPT !.step = "move", !.to = to]
    OBVIOUS
  <2>1. /\ g \in Frame /\ g.call = Top(p).call /\ g.item = Top(p).item /\ g.cause = Top(p).cause
        /\ g.step = "move" /\ g.todo = Top(p).todo /\ g.to = at[Top(p).item]
    BY DEF Frame
  <2>2. Sound(g) /\ Hiding(World, g, run[p]) /\ Restoring(World, g, run[p])
    BY <1>1, <1>2, <1>5, <2>1 DEF Sound, Hiding, Restoring
  <2>3. Set(p, g) /\ run' = run
    BY <1>5 DEF Read
  <2>4. \A i : Going(Top(p), i) => Going(g, i)
    BY <2>1 DEF Going
  <2> QED BY <1>1, <1>2, <2>1, <2>2, <2>3, <2>4, PutTurn
<1> QED BY <1>4, <1>5

LEMMA ListTurn ==
  ASSUME ShelvingAssumption, Inv, NEW p \in Processes, List(p)
  PROVE  Inv'
<1>1. stack[p] # <<>> /\ Top(p).step = "list" /\ Top(p).lists # <<>>
  BY DEF List
<1>2. /\ Top(p) \in Frame /\ Sound(Top(p)) /\ UNCHANGED <<at, log, history>> /\ run' = run
      /\ World.at = at /\ Top(p) = stack[p][1] /\ Good(World, stack[p], 1, run[p])
      /\ run[p] \in Running
  BY <1>1, TopIs, WorldIs DEF List, Inv
<1> PICK f, r : f = Top(p) /\ r = run[p]
  OBVIOUS
<1>3. PICK found : found = {i \in Items : at[i] = Head(f.lists) /\ Kept(f, i)}
  OBVIOUS
<1> PICK g : g = [f EXCEPT !.lists = Tail(@), !.todo = @ \cup found]
  OBVIOUS
<1>4. f \in Frame /\ f.lists \in Seq(Places) /\ f.todo \subseteq Items /\ r.still \subseteq Items
  BY <1>2 DEF Frame, Running
<1>5. Tail(f.lists) \in Seq(Places) /\ Unread(f.lists) = {Head(f.lists)} \cup Unread(Tail(f.lists))
  BY <1>1, <1>4, UnreadTail
<1>6. found \subseteq Items
  BY <1>3
<1>7. /\ g \in Frame /\ g.call = f.call /\ g.item = f.item /\ g.cause = f.cause /\ g.step = f.step
      /\ g.to = f.to /\ g.lists = Tail(f.lists) /\ g.todo = f.todo \cup found
  <2> HIDE DEF Places
  <2> QED BY <1>4, <1>5, <1>6 DEF Frame
<1>8. Set(p, g)
  BY <1>3 DEF List
<1>9. f.item \in Items => found = {i \in Items : at[i] = Head(f.lists) /\ f.item \in Depends[i]}
  BY <1>3 DEF Kept
<1>10. Sound(g)
  BY <1>1, <1>2, <1>7, <1>9 DEF Sound
<1>11. Hiding(World, g, r) /\ Restoring(World, g, r)
  BY <1>1, <1>2, <1>7 DEF Good, Hiding, Restoring
<1>12. \A i : ~Going(f, i)
  BY <1>1 DEF Going
<1>13. g.call = "shelve" /\ g.step = "list" =>
         \A i \in r.still : g.item \in Depends[i] /\ at[i] \in Open =>
           at[i] \in Unread(g.lists) \/ i \in g.todo
  <2>1. \A i : ~Above(stack[p], 1, i)
    BY DEF Above
  <2>2. f.call = "shelve" =>
          \A i \in r.still : f.item \in Depends[i] /\ at[i] \in Open =>
            at[i] \in Unread(f.lists) \/ i \in f.todo
    BY <1>1, <1>2, <2>1 DEF Good, Cascading
  <2>3. f.call = "shelve" => f.item \in Items
    BY <1>2 DEF Sound
  <2> QED BY <1>4, <1>5, <1>7, <1>9, <2>2, <2>3
<1>14. ASSUME NEW i \in Items, Hidden(World, r, i), NEW x \in Items, Follows(r, i, x),
              Brings(f, x), Later(f, i)
       PROVE  Brings(g, x) /\ Later(g, i)
  <2>1. x = f.item /\ f.item \in Depends[i] /\ at[i] = "shelved"
    BY <1>2, <1>14 DEF Brings, Follows, Hidden
  <2> QED BY <1>5, <1>7, <1>9, <1>14, <2>1 DEF Brings, Later
<1> QED BY <1>1, <1>2, <1>7, <1>8, <1>10, <1>11, <1>12, <1>13, <1>14, PutTurn

\* A call that lists, when one of the items it listed has been taken up.
LEMMA NextIs ==
  ASSUME NEW f \in Frame, NEW d
  PROVE  Next1(f, d) \in Frame /\ NextFrame(f, Next1(f, d), d)
BY DEF Next1, NextFrame, Frame

LEMMA NextSound ==
  ASSUME NEW f \in Frame, NEW g \in Frame, NEW d, NextFrame(f, g, d), Sound(f)
  PROVE  Sound(g)
BY DEF NextFrame, Sound

LEMMA ListedIs ==
  ASSUME Inv, NEW p \in Processes, NEW call, Listed(p, call)
  PROVE  /\ stack[p] # <<>> /\ Top(p).call = call /\ Top(p).step = "list" /\ Top(p).lists = <<>>
         /\ Top(p) \in Frame /\ Sound(Top(p)) /\ run[p] \in Running
         /\ Good(World, stack[p], 1, run[p]) /\ Top(p) = stack[p][1]
         /\ \A i : ~Going(Top(p), i)
         /\ \A i : Later(Top(p), i) => i \in Top(p).todo
<1>1. stack[p] # <<>> /\ Top(p).call = call /\ Top(p).step = "list" /\ Top(p).lists = <<>>
  BY DEF Listed, In
<1> QED BY <1>1, TopIs, UnreadLists DEF Going, Later

LEMMA CascadeTurn ==
  ASSUME ShelvingAssumption, Inv, NEW p \in Processes, Cascade(p)
  PROVE  Inv'
<1>1. /\ Listed(p, "shelve") /\ UNCHANGED <<at, log, history>> /\ run' = run
  BY DEF Cascade
<1>2. PICK d \in Top(p).todo : Push(p, Cascaded(Top(p), d), Next1(Top(p), d))
  BY DEF Cascade
<1>3. d \in Items /\ Top(p).item \in Items /\ Top(p).item \in Depends[d]
  BY <1>1, ListedIs DEF Sound, Frame
<1> PICK f, g : f = Cascaded(Top(p), d) /\ g = Next1(Top(p), d)
  OBVIOUS
<1>4. /\ f \in Frame /\ f.call = "shelve" /\ f.item = d /\ f.cause = Top(p).item
      /\ f.step = "read" /\ f.lists = <<>> /\ f.todo = {}
  <2> PICK i \in Items : i = Top(p).item
    BY <1>3
  <2>1. i \in Causes /\ d \in Items \cup {"none"}
    BY <1>3 DEF Causes
  <2>2. f = Call("shelve", d, i, "read")
    BY DEF Cascaded
  <2> QED BY <2>1, <2>2 DEF Call, Frame, Places
<1>5. g \in Frame /\ NextFrame(Top(p), g, d) /\ Sound(g)
  BY <1>1, ListedIs, NextIs, NextSound
<1>6. Sound(f) /\ Calls(f, g) /\ Restoring(World, f, run[p])
  BY <1>1, <1>3, <1>4, <1>5, ListedIs DEF Sound, Calls, Restoring, NextFrame
<1> QED BY <1>1, <1>2, <1>3, <1>4, <1>5, <1>6, ListedIs, OverTurn

LEMMA PullTurn ==
  ASSUME ShelvingAssumption, Inv, NEW p \in Processes, Pull(p)
  PROVE  Inv'
<1>1. /\ Listed(p, "unshelve") /\ UNCHANGED <<at, log, history>> /\ run' = run
  BY DEF Pull
<1>2. PICK d \in Top(p).todo :
        IF d \notin run[p].chain /\ shelvedWithChain(p, d)
          THEN Push(p, Call("unshelve", d, Top(p).item, "read"), Next1(Top(p), d))
          ELSE Set(p, Next1(Top(p), d))
  BY DEF Pull
<1>3. d \in Items /\ Top(p).item \in Items /\ Top(p).item \in Depends[d]
  BY <1>1, ListedIs DEF Sound, Frame
<1> PICK f, g : f = Call("unshelve", d, Top(p).item, "read") /\ g = Next1(Top(p), d)
  OBVIOUS
<1>4. /\ f \in Frame /\ f.call = "unshelve" /\ f.item = d /\ f.cause = Top(p).item
      /\ f.step = "read" /\ f.lists = <<>> /\ f.todo = {}
  <2> PICK i \in Items : i = Top(p).item
    BY <1>3
  <2>1. i \in Causes /\ d \in Items \cup {"none"}
    BY <1>3 DEF Causes
  <2>2. f = Call("unshelve", d, i, "read")
    OBVIOUS
  <2> QED BY <2>1, <2>2 DEF Call, Frame, Places
<1>5. g \in Frame /\ NextFrame(Top(p), g, d) /\ Sound(g)
  BY <1>1, ListedIs, NextIs, NextSound
<1>6. CASE d \notin run[p].chain /\ shelvedWithChain(p, d)
  <2>1. run[p].records[d] # "own"
    <3>1. run[p].chain \subseteq Items
      BY <1>1, ListedIs DEF Running
    <3> QED BY <1>6, <3>1 DEF shelvedWithChain, ShelvingAssumption
  <2>2. Sound(f) /\ Calls(f, g) /\ Restoring(World, f, run[p])
    BY <1>1, <1>3, <1>4, <1>5, <2>1, ListedIs DEF Sound, Calls, Restoring, NextFrame
  <2>3. Push(p, f, g)
    BY <1>2, <1>6
  <2> QED BY <1>1, <1>3, <1>4, <1>5, <2>2, <2>3, ListedIs, OverTurn
<1>7. CASE ~(d \notin run[p].chain /\ shelvedWithChain(p, d))
  <2>1. Set(p, g)
    BY <1>2, <1>7
  <2>2. ASSUME NEW i \in Items, Hidden(World, run[p], i), NEW x \in Items,
               Follows(run[p], i, x), Brings(Top(p), x), Later(Top(p), i)
        PROVE  Brings(g, x) /\ Later(g, i)
    <3>1. i \notin run[p].chain
      <4>1. Commands(World, stack[p], run[p]) /\ Unshelves(stack[p])
        BY <1>1, ListedIs, TopIs DEF Unshelves
      <4> QED BY <2>2, <4>1 DEF Commands, Chained
    <3>2. i # d
      BY <1>7, <2>2, <3>1 DEF shelvedWithChain, Follows
    <3>3. i \in Top(p).todo
      BY <1>1, <2>2, ListedIs
    <3> QED BY <1>5, <2>2, <3>2, <3>3 DEF NextFrame, Brings, Later
  <2>3. Hiding(World, g, run[p]) /\ Restoring(World, g, run[p])
    BY <1>1, <1>5, ListedIs DEF NextFrame, Hiding, Restoring
  <2>4. g.call = "unshelve" /\ g.cause = Top(p).cause
    BY <1>1, <1>5, ListedIs DEF NextFrame
  <2>5. stack[p] # <<>> /\ Top(p).call = "unshelve" /\ \A i : ~Going(Top(p), i)
    BY <1>1, ListedIs
  <2> QED BY <1>1, <1>5, <2>1, <2>2, <2>3, <2>4, <2>5, PutTurn
<1> QED BY <1>6, <1>7

LEMMA FinishTurn ==
  ASSUME ShelvingAssumption, Inv, NEW p \in Processes, Finish(p)
  PROVE  Inv'
<1>1. /\ Listed(p, Top(p).call) /\ Top(p).call # "shelve" /\ Top(p).todo = {} /\ Return(p)
      /\ UNCHANGED <<at, log, history>>
  BY DEF Finish
<1>2. stack[p] # <<>> /\ \A i : ~Going(Top(p), i) /\ ~Later(Top(p), i)
  BY <1>1, ListedIs
<1> QED BY <1>1, <1>2, ReturnTurn

LEMMA ReadShelvedTurn ==
  ASSUME ShelvingAssumption, Inv, NEW p \in Processes, ReadShelved(p)
  PROVE  Inv'
<1>1. stack[p] # <<>> /\ Top(p).call = "unshelve" /\ Top(p).step = "read"
  BY DEF ReadShelved, In
<1>2. /\ Top(p) \in Frame /\ Sound(Top(p)) /\ UNCHANGED <<at, log, history>>
      /\ World.at = at /\ World.from = from /\ Restoring(World, Top(p), run[p])
      /\ Top(p) = stack[p][1]
  BY <1>1, TopIs, WorldIs DEF ReadShelved, Inv, Good
<1> PICK f \in Frame : f = Top(p)
  BY <1>2
<1>3. f.item \in Items
  BY <1>1, <1>2 DEF Sound
<1>4. CASE ~(at[f.item] = "shelved" /\ Allowed(p, f))
  <2>1. Return(p)
    BY <1>4 DEF ReadShelved
  <2>2. \A i \in Items : Hidden(World, run[p], i) =>
          /\ Top(p).step = "list" => ~Later(Top(p), i)
          /\ Going(Top(p), i) => Top(p).cause = "own"
    BY <1>1, <1>2, <1>4 DEF Hidden, Going, Allowed
  <2> QED BY <1>1, <1>2, <2>1, <2>2, ReturnTurn
<1>5. CASE at[f.item] = "shelved" /\ Allowed(p, f)
  <2>1. PICK ready : ready = IF run[p].flag /\ f.cause = "own" THEN "claimed" ELSE "available"
    OBVIOUS
  <2> PICK to : to = IF gateOpen(f.item) THEN ready ELSE "pending"
    OBVIOUS
  <2>2. to \in Open /\ to \in Places /\ (to # "pending" => gateOpen(f.item))
    BY <2>1 DEF Open, Places
  <2>3. to = "claimed" => from[f.item] = "claimed"
    BY <1>5, <2>1 DEF Allowed
  <2> PICK g : g = [f EXCEPT !.step = "move", !.to = to]
    OBVIOUS
  <2>4. /\ g \in Frame /\ g.call = f.call /\ g.item = f.item /\ g.cause = f.cause
        /\ g.step = "move" /\ g.todo = f.todo /\ g.to = to
    BY <2>2 DEF Frame
  <2>5. gateOpen(f.item) => GateOpen(World, f.item)
    BY <1>2 DEF gateOpen, GateOpen
  <2>6. Sound(g) /\ Hiding(World, g, run[p])
    BY <1>1, <1>2, <2>4 DEF Sound, Hiding
  <2>7. Restoring(World, g, run[p])
    BY <1>1, <1>2, <2>2, <2>3, <2>4, <2>5 DEF Restoring
  <2>8. Set(p, g) /\ run' = run
    BY <1>5, <2>1 DEF ReadShelved
  <2>9. \A i : /\ Going(Top(p), i) => Going(g, i)
               /\ \A x : ~Brings(Top(p), x)
    BY <1>1, <2>4 DEF Going, Brings
  <2> QED BY <1>1, <1>2, <2>4, <2>6, <2>7, <2>8, <2>9, PutTurn
<1> QED BY <1>4, <1>5

LEMMA ClassifyTurn ==
  ASSUME ShelvingAssumption, Inv, NEW p \in Processes, Classify(p)
  PROVE  Inv'
<1>1. stack[p] # <<>> /\ Top(p).call = "new" /\ Top(p).step = "read"
  BY DEF Classify, In
<1>2. /\ Top(p) \in Frame /\ Sound(Top(p)) /\ UNCHANGED <<at, log, history>> /\ run' = run
  BY <1>1, TopIs DEF Classify
<1> PICK f \in Frame : f = Top(p)
  BY <1>2
<1> PICK to \in Places : to = placeForDeps(f.item)
  BY DEF placeForDeps, Places, Open
<1> PICK g : g = [f EXCEPT !.step = "move", !.to = to]
  OBVIOUS
<1>3. /\ g \in Frame /\ g.call = f.call /\ g.item = f.item /\ g.cause = f.cause
      /\ g.step = "move" /\ g.todo = f.todo
  BY DEF Frame
<1>4. Sound(g) /\ Hiding(World, g, run[p]) /\ Restoring(World, g, run[p])
  BY <1>1, <1>2, <1>3 DEF Sound, Hiding, Restoring
<1>5. Set(p, g)
  BY DEF Classify
<1> QED BY <1>1, <1>2, <1>3, <1>4, <1>5, PutTurn

-------------------------------------------------------------------------------
(* A command begins, or a command for a tag goes on to the next item. *)

LEMMA FreshChained ==
  ASSUME Inv, NEW s, NEW flag \in BOOLEAN
  PROVE  Chained(World, s, Fresh(flag))
<1> PICK r : r = Fresh(flag)
  OBVIOUS
<1>1. r.records = rec /\ r.chain = {} /\ r.known = {i \in told : at[i] = "shelved"}
  BY DEF Fresh
<1>2. \A i \in Items : Hidden(World, r, i) =>
        r.records[i] = RecordOf(World.hid[i]) /\ World.from[i] = World.came[i]
  BY <1>1, WorldIs DEF Inv, OnShelf, Logged, Hidden
<1>3. \A i, x : ~Follows(r, i, x)
  BY <1>1 DEF Follows
<1> QED BY <1>1, <1>2, <1>3 DEF Chained

LEMMA BeginTurn ==
  ASSUME ShelvingAssumption, Inv, NEW p \in Processes, NEW f \in Frame, NEW flag \in BOOLEAN,
         Begin(p, f, flag), Sound(f), f.cause = "own", f.step \in {"guard", "read", "list"},
         f.step = "list" => f.call \in {"shelve_tag", "unshelve_tag"}
  PROVE  Inv'
<1> PICK s, r : s = <<f>> /\ r = Fresh(flag)
  OBVIOUS
<1>1. s \in Seq(Frame) /\ Len(s) = 1 /\ s[1] = f /\ 1 .. Len(s) = {1}
  OBVIOUS
<1>2. stack' = [stack EXCEPT ![p] = s] /\ run' = [run EXCEPT ![p] = r]
      /\ UNCHANGED <<at, log, history>> /\ r \in Running
  BY RunsIs DEF Begin, Inv
<1>3. Stacked(s)
  BY <1>1 DEF Stacked
<1>4. Good(World, s, 1, r)
  BY <1>1 DEF Good, Hiding, Cascading, Restoring
<1>5. Chained(World, s, r)
  BY FreshChained
<1> QED BY <1>1, <1>2, <1>3, <1>4, <1>5, QuietTurn DEF Commands

LEMMA CommandTurn ==
  ASSUME ShelvingAssumption, Inv, NEW p \in Processes,
         \/ \E i \in Items : Shelve(p, i) \/ Unshelve(p, i) \/ New(p, i)
         \/ ShelveByTag(p) \/ UnshelveByTag(p)
  PROVE  Inv'
<1>1. CASE \E i \in Items : Shelve(p, i) \/ Unshelve(p, i) \/ New(p, i)
  <2>1. PICK i \in Items, flag \in BOOLEAN :
          \/ Begin(p, Call("shelve", i, "own", "guard"), flag)
          \/ Begin(p, Call("unshelve", i, "own", "read"), flag)
          \/ Begin(p, Call("new", i, "own", "read"), flag)
    BY <1>1 DEF Shelve, Unshelve, New
  <2>2. PICK name \in {"shelve", "unshelve", "new"}, step \in {"guard", "read"} :
          /\ Begin(p, Call(name, i, "own", step), flag) /\ (name = "new" => step = "read")
    BY <2>1
  <2> PICK f : f = Call(name, i, "own", step)
    OBVIOUS
  <2>3. /\ f \in Frame /\ f.call = name /\ f.item = i /\ f.cause = "own" /\ f.step = step
        /\ f.todo = {}
    BY DEF Call, Frame, Places, Causes
  <2>4. Sound(f)
    BY <2>2, <2>3 DEF Sound
  <2> QED BY <2>2, <2>3, <2>4, BeginTurn
<1>2. CASE ShelveByTag(p) \/ UnshelveByTag(p)
  <2>1. PICK name \in {"shelve_tag", "unshelve_tag"}, lists \in Seq(Places) :
          Begin(p, [Call(name, "none", "own", "list") EXCEPT !.lists = lists], FALSE)
    <3>1. OpenLists \in Seq(Places) /\ <<"shelved">> \in Seq(Places)
      BY DEF OpenLists, Places, Open
    <3> QED BY <1>2, <3>1 DEF ShelveByTag, UnshelveByTag
  <2> PICK f : f = [Call(name, "none", "own", "list") EXCEPT !.lists = lists]
    OBVIOUS
  <2>2. /\ f \in Frame /\ f.call = name /\ f.item = "none" /\ f.cause = "own" /\ f.step = "list"
        /\ f.todo = {}
    BY DEF Call, Frame, Places, Causes
  <2>3. Sound(f)
    BY <2>2 DEF Sound
  <2> QED BY <2>1, <2>2, <2>3, BeginTurn
<1> QED BY <1>1, <1>2

LEMMA Single ==
  ASSUME NEW s \in Seq(Frame), s # <<>>, Stacked(s),
         s[1].call \in {"shelve_tag", "unshelve_tag", "new"}
  PROVE  Len(s) = 1
<1>1. 1 \in 1 .. Len(s) /\ Len(s) \in Nat /\ Len(s) > 0
  BY First
<1>2. 1 < Len(s) => Calls(s[1], s[2])
  BY <1>1 DEF Stacked
<1>3. ~Calls(s[1], s[2])
  BY DEF Calls
<1> PICK n \in Nat : n = Len(s)
  BY <1>1
<1>4. n > 0 /\ ~(1 < n)
  BY <1>1, <1>2, <1>3
<1> QED BY <1>4

LEMMA TagTurn ==
  ASSUME ShelvingAssumption, Inv, NEW p \in Processes, stack[p] # <<>>,
         NEW f \in Frame, NEW g \in Frame, Push(p, f, g),
         run' = [run EXCEPT ![p] = Fresh(FALSE)], UNCHANGED <<at, log, history>>,
         Top(p).call \in {"shelve_tag", "unshelve_tag"},
         Sound(f), Sound(g), Calls(f, g), g.call = Top(p).call, g.cause = Top(p).cause,
         f.cause = "own", f.step \in {"guard", "read"}
  PROVE  Inv'
<1> PICK s, r : s = stack[p] /\ r = Fresh(FALSE)
  OBVIOUS
<1>1. s \in Seq(Frame) /\ s # <<>> /\ Stacked(s) /\ s[1] = Top(p)
  BY TopIs DEF Commands
<1> DEFINE t == Over(s, f, g)
<1>2. Stacked(t)
  BY <1>1, StackedOver
<1>3. t \in Seq(Frame) /\ Len(t) = Len(s) + 1 /\ t[1] = f /\ t[2] = g
  BY <1>1, OverIs
<1>4. stack' = [stack EXCEPT ![p] = t]
  BY DEF Push, Over
<1> HIDE DEF t
<1>5. Len(s) = 1
  BY <1>1, Single
<1>6. \A k \in 1 .. Len(t) : k = 1 \/ k = 2
  BY <1>3, <1>5
<1>7. Good(World, t, 1, r) /\ Good(World, t, 2, r)
  BY <1>1, <1>3 DEF Good, Hiding, Cascading, Restoring
<1>8. Chained(World, t, r)
  BY FreshChained
<1>9. Commands(World, t, r)
  BY <1>2, <1>6, <1>7, <1>8 DEF Commands
<1>10. r \in Running
  BY RunsIs DEF Inv
<1> QED BY <1>3, <1>4, <1>9, <1>10, QuietTurn

LEMMA NextTaggedOne ==
  ASSUME ShelvingAssumption, Inv, NEW p \in Processes,
         NEW call \in {"shelve_tag", "unshelve_tag"}, NEW callee, NEW done,
         NextTagged(p, call, callee, done),
         \/ call = "shelve_tag" /\ callee = [d \in Items |-> Call("shelve", d, "own", "guard")]
         \/ call = "unshelve_tag" /\ callee = [d \in Items |-> Call("unshelve", d, "own", "read")]
  PROVE  Inv'
<1>2. Listed(p, call) /\ UNCHANGED <<at, log, history>>
  BY DEF NextTagged
<1>3. /\ stack[p] # <<>> /\ Top(p).call = call /\ Top(p).step = "list" /\ Top(p).lists = <<>>
      /\ Top(p) \in Frame /\ Sound(Top(p)) /\ Top(p) = stack[p][1] /\ \A i : ~Going(Top(p), i)
  BY <1>2, ListedIs
<1>4. PICK d \in Top(p).todo :
        IF done = (at[d] = "shelved")
          THEN Set(p, Next1(Top(p), d)) /\ run' = run
          ELSE Push(p, callee[d], Next1(Top(p), d)) /\ run' = [run EXCEPT ![p] = Fresh(FALSE)]
  BY DEF NextTagged
<1> PICK f, g : f = callee[d] /\ g = Next1(Top(p), d)
  OBVIOUS
<1>5. g \in Frame /\ NextFrame(Top(p), g, d) /\ Sound(g)
  BY <1>3, NextIs, NextSound
<1>6. g.call = call /\ g.cause = Top(p).cause /\ g.step = "list" /\ g.lists = <<>>
  BY <1>3, <1>5 DEF NextFrame
<1>7. CASE done = (at[d] = "shelved")
  <2>1. Hiding(World, g, run[p]) /\ Restoring(World, g, run[p])
    BY <1>6 DEF Hiding, Restoring
  <2>2. \A x : ~Brings(Top(p), x)
    BY <1>3 DEF Brings
  <2>3. Set(p, g) /\ run' = run
    BY <1>4, <1>7
  <2> QED BY <1>2, <1>3, <1>5, <1>6, <2>1, <2>2, <2>3, PutTurn
<1>8. CASE done # (at[d] = "shelved")
  <2>1. d \in Items
    BY <1>3 DEF Frame
  <2>2. f = Call("shelve", d, "own", "guard") \/ f = Call("unshelve", d, "own", "read")
    BY <2>1
  <2>3. /\ f \in Frame /\ f.item = d /\ f.cause = "own" /\ f.step \in {"guard", "read"}
        /\ f.todo = {} /\ f.call \in {"shelve", "unshelve"}
    <3>1. CASE f = Call("shelve", d, "own", "guard")
      BY <2>1, <3>1 DEF Call, Frame, Places, Causes
    <3>2. CASE f = Call("unshelve", d, "own", "read")
      BY <2>1, <3>2 DEF Call, Frame, Places, Causes
    <3> QED BY <2>2, <3>1, <3>2
  <2>4. call = "shelve_tag" => f.call = "shelve"
    BY <2>1 DEF Call
  <2>5. call = "unshelve_tag" => f.call = "unshelve"
    BY <2>1 DEF Call
  <2>6. Sound(f) /\ Calls(f, g)
    BY <1>6, <2>1, <2>3, <2>4, <2>5 DEF Sound, Calls
  <2>7. Push(p, f, g) /\ run' = [run EXCEPT ![p] = Fresh(FALSE)]
    BY <1>4, <1>8
  <2> QED BY <1>2, <1>3, <1>5, <1>6, <2>3, <2>6, <2>7, TagTurn
<1> QED BY <1>7, <1>8

LEMMA NextTaggedTurn ==
  ASSUME ShelvingAssumption, Inv, NEW p \in Processes, ShelveTagged(p) \/ UnshelveTagged(p)
  PROVE  Inv'
<1>1. CASE ShelveTagged(p)
  BY <1>1, NextTaggedOne DEF ShelveTagged
<1>2. CASE UnshelveTagged(p)
  BY <1>2, NextTaggedOne DEF UnshelveTagged
<1> QED BY <1>1, <1>2

-------------------------------------------------------------------------------
(* The steps that change an item, or what the log says of it: other processes  *)
(* no longer count on it. *)

LEMMA TouchedIs ==
  ASSUME Types, NEW p \in Processes, NEW i \in Items
  PROVE  /\ Touched(p, i) \in [Processes -> Running] /\ Touched(p, i)[p] = run[p]
         /\ \A q \in Processes \ {p} : Less(run[q], Touched(p, i)[q])
         /\ \A q \in Processes \ {p} : Touched(p, i)[q].still \subseteq Items \ {i}
<1>1. ASSUME NEW q \in Processes
      PROVE  LET r == [run[q] EXCEPT !.still = @ \ {i}] IN
             r \in Running /\ Less(run[q], r) /\ r.still \subseteq Items \ {i}
  <2> PICK o \in Running : o = run[q]
    BY DEF Types
  <2>1. LET r == [o EXCEPT !.still = @ \ {i}] IN
        r \in Running /\ Less(o, r) /\ r.still \subseteq Items \ {i}
    BY DEF Running, Less
  <2> QED BY <2>1
<1>2. run \in [Processes -> Running]
  BY DEF Types
<1> QED BY <1>1, <1>2 DEF Touched

\* The step of p touched i; r is what the command of p keeps now.
LEMMA TouchTurn ==
  ASSUME ShelvingAssumption, Inv, NEW p \in Processes, NEW i \in Items, NEW t \in Seq(Frame),
         NEW r \in Running, World' \in Worlds, stack' = [stack EXCEPT ![p] = t],
         run' = [Touched(p, i) EXCEPT ![p] = r],
         Since(World, World'), \A j \in Items \ {i} : Same(World, World', j),
         Commands(World', t, r),
         told' \subseteq Items, rec' \in [Items -> RecordCauses], OnShelf'
  PROVE  Inv'
<1>1. Types
  BY DEF Inv
<1>2. /\ run' \in [Processes -> Running] /\ run'[p] = r
      /\ \A q \in Processes \ {p} : run'[q] = Touched(p, i)[q]
  BY <1>1, TouchedIs
<1>3. ASSUME NEW q \in Processes \ {p}
      PROVE  Less(run[q], run'[q]) /\ \A j \in run'[q].still : Same(World, World', j)
  BY <1>1, <1>2, <1>3, TouchedIs
<1>4. /\ \A q \in Processes : Commands(World', stack'[q], run'[q])
      /\ stack' \in [Processes -> Seq(Frame)]
  BY <1>2, <1>3, Turn
<1>5. at' \in [Items -> Places] /\ came' \in [Items -> Places]
      /\ from' \in [Items -> {"none"} \cup Open]
      /\ hid' \in [Items -> {"none", "filed"} \cup Causes]
  BY Unchanged DEF Worlds
<1>6. Types'
  BY <1>2, <1>4, <1>5 DEF Types
<1> QED BY <1>4, <1>6 DEF Inv

\* The items that a step did not touch are on the shelf as they were.
LEMMA ShelfTouched ==
  ASSUME Inv, NEW i \in Items, \A j \in Items \ {i} : Same(World, World', j),
         \A j \in Items \ {i} : rec'[j] = rec[j] /\ ((j \in told') = (j \in told)),
         (Reasoned(World, i) /\ Logged(World, i, rec[i], i \in told))'
  PROVE  OnShelf'
<1>1. ASSUME NEW j \in Items
      PROVE  (Reasoned(World, j) /\ Logged(World, j, rec[j], j \in told))'
  <2>1. CASE j = i
    BY <2>1
  <2>2. CASE j # i
    <3>1. Reasoned(World, j) /\ Logged(World, j, rec[j], j \in told)
      BY DEF Inv, OnShelf
    <3>2. Same(World, World', j) /\ rec'[j] = rec[j] /\ ((j \in told') = (j \in told))
      BY <2>2
    <3> QED BY <3>1, <3>2 DEF Same, Reasoned, Logged
  <2> QED BY <2>1, <2>2
<1> QED BY <1>1 DEF OnShelf

LEMMA HideTurn ==
  ASSUME ShelvingAssumption, Inv, NEW p \in Processes, Hide(p)
  PROVE  Inv'
<1>1. stack[p] # <<>> /\ Top(p).call = "shelve" /\ Top(p).step = "move"
  BY DEF Hide, In
<1> PICK f, s, r, w : f = Top(p) /\ s = stack[p] /\ r = run[p] /\ w = World
  OBVIOUS
<1>2. /\ f \in Frame /\ Sound(f) /\ s \in Seq(Frame) /\ r \in Running /\ Commands(w, s, r)
      /\ f = s[1] /\ Hiding(w, f, r) /\ w \in Worlds /\ s # <<>>
      /\ f.call = "shelve" /\ f.step = "move"
  BY <1>1, TopIs DEF Good
<1>3. /\ Types /\ w.at = at /\ w.hid = hid /\ w.came = came /\ w.from = from
      /\ at \in [Items -> Places] /\ hid \in [Items -> {"none", "filed"} \cup Causes]
      /\ came \in [Items -> Places] /\ told \subseteq Items /\ rec \in [Items -> RecordCauses]
      /\ from \in [Items -> {"none"} \cup Open]
  BY WorldIs DEF Inv, Types
<1> PICK i \in Items : i = f.item
  BY <1>2 DEF Sound
<1>4. /\ f.to \in Open /\ f.cause \in Causes /\ f.cause \in {"own"} \cup Depends[i]
  BY <1>2, ShelvingAssumption DEF Hiding, Sound, Frame
<1>5. CASE at[i] # f.to
  <2>1. Return(p) /\ UNCHANGED <<at, log, history>>
    BY <1>5 DEF Hide, log
  <2>2. \A j \in r.still : at[j] \in Open => ~Going(f, j)
    BY <1>2, <1>3, <1>5 DEF Hiding, Going
  <2> QED BY <1>1, <2>1, <2>2, ReturnTurn
<1>6. CASE at[i] = f.to
  <2>1. /\ at' = [at EXCEPT ![i] = "shelved"] /\ came' = [came EXCEPT ![i] = f.to]
        /\ hid' = [hid EXCEPT ![i] = f.cause] /\ run' = Touched(p, i) /\ told' = told \ {i}
        /\ Set(p, [f EXCEPT !.step = "list", !.lists = ListsOf]) /\ rec' = rec /\ from' = from
    BY <1>6 DEF Hide
  <2> PICK v : v = World'
    OBVIOUS
  <2>2. v.at = at' /\ v.hid = hid' /\ v.came = came' /\ v.from = from'
    BY Unchanged
  <2>3. v \in Worlds
    <3>1. at' \in [Items -> Places]
      BY <1>3, <2>1 DEF Places
    <3>2. hid' \in [Items -> {"none", "filed"} \cup Causes]
      BY <1>3, <1>4, <2>1
    <3>3. came' \in [Items -> Places]
      BY <1>3, <1>4, <2>1 DEF Places
    <3> QED BY <1>3, <2>1, <3>1, <3>2, <3>3 DEF World, Worlds
  <2>4. /\ v.at[i] = "shelved" /\ v.hid[i] = f.cause /\ v.came[i] = f.to /\ w.at[i] = f.to
        /\ \A j \in Items \ {i} : Same(w, v, j)
    BY <1>3, <1>6, <2>1, <2>2 DEF Same
  <2>5. Since(w, v)
    BY <1>4, <2>4 DEF Since, Same, Open
  <2>6. r.still \subseteq Items /\ f.to # "shelved" /\ "shelved" \notin Open
    BY <1>2, <1>4 DEF Running, Open
  <2>7. Keeps(w, v, s, r)
    BY <2>4, <2>5, <2>6 DEF Keeps, Same
  <2> PICK g : g = [f EXCEPT !.step = "list", !.lists = ListsOf]
    OBVIOUS
  <2>8. /\ g \in Frame /\ g.call = f.call /\ g.item = f.item /\ g.cause = f.cause /\ g.to = f.to
        /\ g.step = "list" /\ g.lists = OpenLists /\ g.todo = f.todo
    <3>1. OpenLists \in Seq(Places)
      BY DEF OpenLists, Places, Open
    <3> HIDE DEF OpenLists
    <3> QED BY <1>2, <3>1 DEF Frame, ListsOf
  <2>9. Sound(g)
    BY <1>2, <2>8 DEF Sound
  <2>10. Hiding(v, g, r) /\ Restoring(v, g, r)
    BY <1>2, <1>4, <2>4, <2>8 DEF Hiding, Restoring
  <2>11. \A j \in r.still : v.at[j] \in Open => ~Going(s[1], j)
    BY <1>2, <2>4, <2>6 DEF Going
  <2>12. g.call = "shelve" /\ g.step = "list" =>
           \A j \in r.still : g.item \in Depends[j] /\ v.at[j] \in Open =>
             v.at[j] \in Unread(g.lists) \/ j \in g.todo
    BY <2>8, UnreadLists
  <2>13. Chained(v, Put(s, g), r)
    <3>1. s[1].call \notin {"unshelve", "unshelve_tag"}
      BY <1>2
    <3> QED BY <1>2, <2>3, <2>8, <3>1, ChainedPut
  <2>14. Commands(v, Put(s, g), r)
    BY <1>2, <2>3, <2>7, <2>8, <2>9, <2>10, <2>11, <2>12, <2>13, CommandsPut
  <2>15. Put(s, g) \in Seq(Frame) /\ stack' = [stack EXCEPT ![p] = Put(s, g)]
    BY <1>2, <2>1, <2>8, PutIs DEF Set, Put
  <2>16. run' = [Touched(p, i) EXCEPT ![p] = r]
    BY <1>3, <2>1, TouchedIs
  <2>17. OnShelf'
    <3>1. f.cause # "none"
      BY <1>4 DEF ShelvingAssumption
    <3>2. Reasoned(v, i) /\ Logged(v, i, rec'[i], i \in told')
      BY <1>4, <2>1, <2>4, <3>1 DEF Reasoned, Logged
    <3> QED BY <2>1, <2>4, <3>2, ShelfTouched
  <2> QED BY <1>2, <1>3, <2>1, <2>3, <2>4, <2>5, <2>14, <2>15, <2>16, <2>17, TouchTurn
<1> QED BY <1>5, <1>6


\* The call on top returns, and has touched i.
LEMMA ReturnTouchedIs ==
  ASSUME Types, NEW p \in Processes, stack[p] # <<>>, NEW i \in Items, ReturnTouched(p, i)
  PROVE  \E t \in Seq(Frame), r \in Running :
           /\ stack' = [stack EXCEPT ![p] = t] /\ run' = [Touched(p, i) EXCEPT ![p] = r]
           /\ t = <<>> \/ (t = Tail(stack[p]) /\ r = run[p])
<1> DEFINE t == Tail(stack[p])
<1>1. stack[p] \in Seq(Frame) /\ run[p] \in Running
  BY DEF Types
<1>2. t \in Seq(Frame) /\ Len(t) = Len(stack[p]) - 1 /\ stack' = [stack EXCEPT ![p] = t]
  BY <1>1, TailIs DEF ReturnTouched
<1> HIDE DEF t
<1>3. CASE Len(stack[p]) = 1
  <2>1. t = <<>>
    BY <1>2, <1>3
  <2>2. run' = [Touched(p, i) EXCEPT ![p] = Idle]
    <3> HIDE DEF Touched, Idle
    <3> QED BY <1>3 DEF ReturnTouched
  <2>3. Idle \in Running
    BY RunsIs
  <2>4. t \in Seq(Frame)
    BY <1>2
  <2> WITNESS t \in Seq(Frame), Idle \in Running
  <2> QED BY <1>2, <2>1, <2>2
<1>4. CASE Len(stack[p]) # 1
  <2>1. run' = [Touched(p, i) EXCEPT ![p] = run[p]]
    BY <1>4, TouchedIs DEF ReturnTouched
  <2> QED BY <1>1, <1>2, <2>1 DEF t
<1> QED BY <1>3, <1>4

LEMMA EmitTurn ==
  ASSUME ShelvingAssumption, Inv, NEW p \in Processes, Emit(p)
  PROVE  Inv'
<1>1. Listed(p, "shelve") /\ stack[p] # <<>> /\ Top(p).call = "shelve" /\ Top(p).step = "list"
  BY ListedIs DEF Emit
<1> PICK f, s, w : f = Top(p) /\ s = stack[p] /\ w = World
  OBVIOUS
<1>2. /\ f \in Frame /\ Sound(f) /\ s \in Seq(Frame) /\ run[p] \in Running
      /\ Commands(w, s, run[p]) /\ f = s[1] /\ Hiding(w, f, run[p]) /\ w \in Worlds /\ s # <<>>
      /\ f.call = "shelve" /\ f.step = "list"
  BY <1>1, TopIs DEF Good
<1>3. /\ Types /\ w.at = at /\ w.hid = hid /\ w.came = came /\ w.from = from
      /\ told \subseteq Items /\ rec \in [Items -> RecordCauses]
      /\ from \in [Items -> {"none"} \cup Open]
  BY WorldIs DEF Inv, Types
<1> PICK i \in Items : i = f.item
  BY <1>2 DEF Sound
<1>4. /\ f.to \in Open /\ f.cause \in Causes /\ at[i] # "none"
      /\ i \in run[p].still => at[i] = "shelved" /\ hid[i] = f.cause /\ came[i] = f.to
  BY <1>2, <1>3 DEF Hiding, Frame
<1>5. /\ rec' = [rec EXCEPT ![i] = f.cause] /\ from' = [from EXCEPT ![i] = f.to]
      /\ told' = IF i \in run[p].still THEN told \cup {i} ELSE told \ {i}
      /\ ReturnTouched(p, i) /\ at' = at /\ UNCHANGED history
  BY DEF Emit
<1> PICK v : v = World'
  OBVIOUS
<1>6. v.at = at /\ v.hid = hid /\ v.came = came /\ v.from = from'
  BY <1>5, Unchanged DEF history
<1>7. v \in Worlds /\ from'[i] = f.to /\ rec'[i] = f.cause /\ rec' \in [Items -> RecordCauses]
  <2>1. from' \in [Items -> {"none"} \cup Open]
    BY <1>3, <1>4, <1>5
  <2>2. rec' \in [Items -> RecordCauses] /\ rec'[i] = f.cause /\ from'[i] = f.to
    BY <1>3, <1>4, <1>5 DEF RecordCauses, Causes
  <2> QED BY <1>3, <1>5, <2>1, <2>2 DEF World, Worlds, Types, history
<1>8. Since(w, v) /\ Keeps(w, v, s, run[p]) /\ \A j \in Items \ {i} : Same(w, v, j)
  BY <1>3, <1>5, <1>6 DEF Since, Keeps, Same
<1>9. PICK t \in Seq(Frame), r \in Running :
        /\ stack' = [stack EXCEPT ![p] = t] /\ run' = [Touched(p, i) EXCEPT ![p] = r]
        /\ t = <<>> \/ (t = Tail(s) /\ r = run[p])
  BY <1>2, <1>3, <1>5, ReturnTouchedIs
<1>10. Commands(v, t, r)
  <2>1. CASE t = <<>>
    BY <2>1, IdleCommands
  <2>2. CASE t = Tail(s) /\ r = run[p]
    <3>1. \A j : ~Going(s[1], j)
      BY <1>2 DEF Going
    <3>2. ~Unshelves(s)
      BY <1>2 DEF Unshelves
    <3>3. Commands(v, Tail(s), run[p])
      BY <1>2, <1>7, <1>8, <3>1, <3>2, CommandsTail
    <3> QED BY <2>2, <3>3
  <2> QED BY <1>9, <2>1, <2>2
<1>11. OnShelf'
  <2>1. f.cause # "none" /\ f.cause # "filed"
    BY <1>4 DEF ShelvingAssumption, Causes
  <2>2. Reasoned(w, i)
    BY DEF Inv, OnShelf
  <2>3. Reasoned(v, i)
    BY <1>3, <1>6, <2>2 DEF Reasoned
  <2>4. Logged(v, i, rec'[i], i \in told')
    BY <1>4, <1>5, <1>6, <1>7, <2>1 DEF Logged, RecordOf
  <2>5. \A j \in Items \ {i} : rec'[j] = rec[j] /\ ((j \in told') = (j \in told))
    BY <1>3, <1>5
  <2>6. (Reasoned(World, i) /\ Logged(World, i, rec[i], i \in told))'
    BY <2>3, <2>4
  <2> QED BY <1>8, <2>5, <2>6, ShelfTouched
<1>12. told' \subseteq Items
  BY <1>3, <1>5
<1> QED BY <1>7, <1>8, <1>9, <1>10, <1>11, <1>12, TouchTurn


LEMMA RestoreTurn ==
  ASSUME ShelvingAssumption, Inv, NEW p \in Processes, Restore(p)
  PROVE  Inv'
<1>1. stack[p] # <<>> /\ Top(p).call = "unshelve" /\ Top(p).step = "move"
  BY DEF Restore, In
<1> PICK f, s, r, w : f = Top(p) /\ s = stack[p] /\ r = run[p] /\ w = World
  OBVIOUS
<1>2. /\ f \in Frame /\ Sound(f) /\ s \in Seq(Frame) /\ r \in Running /\ Commands(w, s, r)
      /\ f = s[1] /\ Restoring(w, f, r) /\ w \in Worlds /\ s # <<>>
      /\ f.call = "unshelve" /\ f.step = "move"
  BY <1>1, TopIs DEF Good
<1>3. /\ Types /\ w.at = at /\ w.hid = hid /\ w.came = came /\ w.from = from
      /\ at \in [Items -> Places] /\ hid \in [Items -> {"none", "filed"} \cup Causes]
      /\ came \in [Items -> Places] /\ told \subseteq Items /\ rec \in [Items -> RecordCauses]
      /\ from \in [Items -> {"none"} \cup Open]
  BY WorldIs DEF Inv, Types
<1> PICK i \in Items : i = f.item
  BY <1>2 DEF Sound
<1>4. f.to \in Open
  BY <1>2 DEF Restoring
<1>5. CASE at[i] # "shelved"
  <2>1. Return(p) /\ UNCHANGED <<at, log, history>>
    BY <1>5 DEF Restore, log
  <2>2. \A j \in Items : Hidden(World, r, j) => ~Going(f, j)
    BY <1>3, <1>5 DEF Hidden, Going
  <2> QED BY <1>1, <2>1, <2>2, ReturnTurn
<1>6. CASE at[i] = "shelved"
  <2>1. /\ at' = [at EXCEPT ![i] = f.to] /\ came' = [came EXCEPT ![i] = "none"]
        /\ hid' = [hid EXCEPT ![i] = "none"] /\ run' = Touched(p, i) /\ told' = told \ {i}
        /\ Set(p, [f EXCEPT !.step = "emit"]) /\ rec' = rec /\ from' = from
    BY <1>6 DEF Restore
  <2> PICK v : v = World'
    OBVIOUS
  <2>2. v.at = at' /\ v.hid = hid' /\ v.came = came' /\ v.from = from'
    BY Unchanged
  <2>3. v \in Worlds
    <3>1. at' \in [Items -> Places]
      BY <1>3, <1>4, <2>1 DEF Places
    <3>2. hid' \in [Items -> {"none", "filed"} \cup Causes]
      BY <1>3, <2>1
    <3>3. came' \in [Items -> Places]
      BY <1>3, <2>1 DEF Places
    <3> QED BY <1>3, <2>1, <3>1, <3>2, <3>3 DEF World, Worlds
  <2>4. /\ v.at[i] = f.to /\ v.hid[i] = "none" /\ w.at[i] = "shelved"
        /\ v.at[i] # "shelved" /\ v.at[i] # "none"
        /\ \A j \in Items \ {i} : Same(w, v, j)
    BY <1>3, <1>4, <1>6, <2>1, <2>2 DEF Same, Open
  <2>5. Since(w, v)
    BY <2>4 DEF Since, Same
  <2>6. Keeps(w, v, s, r)
    BY <1>2, <2>5 DEF Keeps, Hides
  <2> PICK g : g = [f EXCEPT !.step = "emit"]
    OBVIOUS
  <2>7. /\ g \in Frame /\ g.call = f.call /\ g.item = f.item /\ g.cause = f.cause
        /\ g.step = "emit" /\ g.todo = f.todo
    BY <1>2, StepIs
  <2>8. Sound(g) /\ Hiding(v, g, r) /\ Restoring(v, g, r)
    BY <1>2, <2>4, <2>7 DEF Sound, Hiding, Restoring
  <2>9. ASSUME NEW j \in Items, Hidden(v, r, j)
        PROVE  Same(w, v, j) /\ ~Going(s[1], j)
    BY <1>2, <2>4, <2>9 DEF Hidden, Going
  <2>10. \A x : ~Brings(s[1], x)
    BY <1>2 DEF Brings
  <2>11. Chained(v, Put(s, g), r)
    BY <1>2, <2>3, <2>7, <2>9, <2>10, ChainedPut DEF Follows
  <2>12. Commands(v, Put(s, g), r)
    BY <1>2, <2>3, <2>6, <2>7, <2>8, <2>11, CommandsPut
  <2>13. Put(s, g) \in Seq(Frame) /\ stack' = [stack EXCEPT ![p] = Put(s, g)]
    BY <1>2, <2>1, <2>7, PutIs DEF Set, Put
  <2>14. run' = [Touched(p, i) EXCEPT ![p] = r]
    BY <1>3, <2>1, TouchedIs
  <2>15. OnShelf'
    <3>1. Reasoned(v, i) /\ Logged(v, i, rec'[i], i \in told')
      BY <2>1, <2>4 DEF Reasoned, Logged
    <3> QED BY <2>1, <2>4, <3>1, ShelfTouched
  <2> QED BY <1>2, <1>3, <2>1, <2>3, <2>4, <2>5, <2>12, <2>13, <2>14, <2>15, TouchTurn
<1> QED BY <1>5, <1>6

LEMMA EmitRestoredTurn ==
  ASSUME ShelvingAssumption, Inv, NEW p \in Processes, EmitRestored(p)
  PROVE  Inv'
<1>1. stack[p] # <<>> /\ Top(p).call = "unshelve" /\ Top(p).step = "emit"
  BY DEF EmitRestored, In
<1> PICK f, s, r, w : f = Top(p) /\ s = stack[p] /\ r = run[p] /\ w = World
  OBVIOUS
<1>2. /\ f \in Frame /\ Sound(f) /\ s \in Seq(Frame) /\ r \in Running /\ Commands(w, s, r)
      /\ f = s[1] /\ Restoring(w, f, r) /\ w \in Worlds /\ s # <<>>
      /\ f.call = "unshelve" /\ f.step = "emit"
  BY <1>1, TopIs DEF Good
<1>3. /\ Types /\ w.at = at /\ told \subseteq Items /\ rec \in [Items -> RecordCauses]
      /\ run \in [Processes -> Running]
  BY WorldIs DEF Inv, Types
<1> PICK i \in Items : i = f.item
  BY <1>2 DEF Sound
<1>4. /\ rec' = [rec EXCEPT ![i] = "none"] /\ told' = told \ {i}
      /\ run' = [Touched(p, i) EXCEPT ![p].chain = @ \cup {i}]
      /\ Set(p, [f EXCEPT !.step = "list", !.lists = <<"shelved">>])
      /\ UNCHANGED <<at, history, from>>
  BY DEF EmitRestored
<1>5. World' = w
  BY <1>4, Unchanged
<1>6. Since(w, w) /\ Keeps(w, w, s, r) /\ \A j : Same(w, w, j)
  BY KeepsSame DEF Since, Same
<1> PICK q : q = [r EXCEPT !.chain = @ \cup {i}]
  OBVIOUS
<1>7. /\ q \in Running /\ q.still = r.still /\ q.known = r.known /\ q.records = r.records
      /\ q.chain = r.chain \cup {i}
  BY <1>2 DEF Running
<1>8. run' = [Touched(p, i) EXCEPT ![p] = q]
  <2>1. Touched(p, i)[p] = r
    BY <1>3, TouchedIs
  <2> HIDE DEF Touched
  <2> QED BY <1>4, <2>1
<1> PICK g : g = [f EXCEPT !.step = "list", !.lists = <<"shelved">>]
  OBVIOUS
<1>9. /\ g \in Frame /\ g.call = f.call /\ g.item = f.item /\ g.cause = f.cause
      /\ g.step = "list" /\ g.lists = <<"shelved">> /\ g.todo = f.todo
  <2>1. <<"shelved">> \in Seq(Places)
    BY DEF Places
  <2> HIDE DEF Places
  <2> QED BY <1>2, <2>1 DEF Frame
<1>10. Sound(g) /\ Hiding(w, g, q) /\ Restoring(w, g, q)
  BY <1>2, <1>9 DEF Sound, Hiding, Restoring
<1>11. ASSUME NEW j \in Items, Hidden(w, q, j)
       PROVE  j # i /\ ~Going(s[1], j) /\ Later(g, j)
  BY <1>2, <1>7, <1>9, <1>11, UnreadLists DEF Hidden, Restoring, Going, Later
<1>12. \A x : ~Brings(s[1], x)
  BY <1>2 DEF Brings
<1>13. \A j, x \in Items : Follows(q, j, x) => x \in r.chain \/ x = i
  BY <1>7 DEF Follows
<1>14. Brings(g, i)
  BY <1>2, <1>9 DEF Brings
<1>15. Chained(w, Put(s, g), q)
  <2>1. ASSUME NEW j \in Items, Hidden(w, q, j), NEW x \in Items, Follows(q, j, x)
        PROVE  \/ /\ x \in r.chain
                  /\ Brings(s[1], x) /\ Later(s[1], j) => Brings(g, x) /\ Later(g, j)
               \/ Brings(g, x) /\ Later(g, j)
    BY <1>11, <1>12, <1>13, <1>14, <2>1
  <2>2. \A j \in Items : Hidden(w, q, j) =>
          /\ Same(w, w, j) /\ (j \in q.chain => j \in r.chain)
          /\ Going(s[1], j) => Going(g, j)
          /\ \A x \in Items : Follows(q, j, x) =>
               \/ /\ x \in r.chain
                  /\ Brings(s[1], x) /\ Later(s[1], j) => Brings(g, x) /\ Later(g, j)
               \/ Brings(g, x) /\ Later(g, j)
    BY <1>6, <1>7, <1>11, <2>1
  <2>3. g.call = s[1].call
    BY <1>2, <1>9
  <2> QED BY <1>2, <1>7, <1>9, <2>2, <2>3, ChainedPut
<1>16. Commands(w, Put(s, g), q)
  BY <1>2, <1>6, <1>7, <1>9, <1>10, <1>15, CommandsPut
<1>17. Put(s, g) \in Seq(Frame) /\ stack' = [stack EXCEPT ![p] = Put(s, g)]
  BY <1>2, <1>4, <1>9, PutIs DEF Set, Put
<1>18. rec' \in [Items -> RecordCauses] /\ rec'[i] = "none" /\ told' \subseteq Items
  BY <1>3, <1>4 DEF RecordCauses
<1>19. OnShelf'
  <2>1. Reasoned(w, i) /\ Logged(w, i, rec[i], i \in told)
    BY DEF Inv, OnShelf
  <2>2. Reasoned(w, i) /\ Logged(w, i, rec'[i], i \in told')
    BY <1>4, <1>18, <2>1 DEF Logged
  <2> QED BY <1>3, <1>4, <1>5, <1>6, <2>2, ShelfTouched
<1> QED BY <1>2, <1>5, <1>6, <1>7, <1>8, <1>16, <1>17, <1>18, <1>19, TouchTurn


LEMMA CreateTurn ==
  ASSUME ShelvingAssumption, Inv, NEW p \in Processes, Create(p)
  PROVE  Inv'
<1>1. stack[p] # <<>> /\ Top(p).call = "new" /\ Top(p).step = "move"
  BY DEF Create, In
<1> PICK f, s, w : f = Top(p) /\ s = stack[p] /\ w = World
  OBVIOUS
<1>2. /\ f \in Frame /\ Sound(f) /\ s \in Seq(Frame) /\ Stacked(s)
      /\ f = s[1] /\ w \in Worlds /\ s # <<>> /\ f.call = "new"
  BY <1>1, TopIs DEF Commands
<1>3. /\ Types /\ w.at = at /\ w.hid = hid /\ w.came = came /\ w.from = from
      /\ at \in [Items -> Places] /\ hid \in [Items -> {"none", "filed"} \cup Causes]
      /\ came \in [Items -> Places] /\ told \subseteq Items /\ rec \in [Items -> RecordCauses]
      /\ from \in [Items -> {"none"} \cup Open]
  BY WorldIs DEF Inv, Types
<1> PICK i \in Items : i = f.item
  BY <1>2 DEF Sound
<1>4. f.to \in Places
  BY <1>2 DEF Frame
<1>5. /\ ReturnTouched(p, i) /\ rec' = rec /\ from' = from /\ came' = came
      /\ IF at[i] = "none"
           THEN /\ at' = [at EXCEPT ![i] = f.to]
                /\ hid' = [hid EXCEPT ![i] = IF f.to = "shelved" THEN "filed" ELSE "none"]
                /\ told' = IF f.to = "shelved" THEN told \cup {i} ELSE told
           ELSE at' = at /\ hid' = hid /\ told' = told
  BY DEF Create
<1>6. PICK t \in Seq(Frame), r \in Running :
        /\ stack' = [stack EXCEPT ![p] = t] /\ run' = [Touched(p, i) EXCEPT ![p] = r]
        /\ t = <<>> \/ (t = Tail(s) /\ r = run[p])
  BY <1>2, <1>3, <1>5, ReturnTouchedIs
<1>7. t = <<>>
  <2>1. Len(s) = 1
    BY <1>2, Single
  <2>2. CASE t = Tail(s)
    BY <1>2, <2>1, <2>2, TailIs
  <2> QED BY <1>6, <2>2
<1> PICK v : v = World'
  OBVIOUS
<1>8. v.at = at' /\ v.hid = hid' /\ v.came = came' /\ v.from = from'
  BY Unchanged
<1>9. Commands(v, t, r)
  BY <1>7, IdleCommands
<1>10. at' \in [Items -> Places] /\ hid' \in [Items -> {"none", "filed"} \cup Causes]
       /\ told' \subseteq Items
  BY <1>3, <1>4, <1>5
<1>11. v \in Worlds
  BY <1>3, <1>5, <1>10 DEF World, Worlds
<1>12. /\ \A j \in Items \ {i} : Same(w, v, j)
       /\ \A j \in Items \ {i} : (j \in told') = (j \in told)
  BY <1>3, <1>5, <1>8 DEF Same
<1>13. Since(w, v)
  <2>1. at[i] # "none" => v.at[i] = w.at[i]
    BY <1>3, <1>5, <1>8
  <2> QED BY <1>3, <1>12, <2>1 DEF Since, Same
<1>14. OnShelf'
  <2>1. Reasoned(w, i) /\ Logged(w, i, rec[i], i \in told)
    BY DEF Inv, OnShelf
  <2>2. CASE at[i] = "none"
    <3>1. /\ v.at[i] = f.to /\ v.hid[i] = (IF f.to = "shelved" THEN "filed" ELSE "none")
          /\ v.came[i] = "none" /\ v.from[i] = "none" /\ rec'[i] = "none"
      BY <1>3, <1>5, <1>8, <2>1, <2>2 DEF Logged
    <3>2. Reasoned(v, i) /\ Logged(v, i, rec'[i], i \in told')
      BY <3>1 DEF Reasoned, Logged, RecordOf
    <3> QED BY <1>5, <1>12, <3>2, ShelfTouched
  <2>3. CASE at[i] # "none"
    <3>1. v.at[i] = w.at[i] /\ v.hid[i] = w.hid[i] /\ v.came[i] = w.came[i]
          /\ v.from[i] = w.from[i] /\ told' = told
      BY <1>3, <1>5, <1>8, <2>3
    <3>2. Reasoned(v, i) /\ Logged(v, i, rec'[i], i \in told')
      BY <1>5, <2>1, <3>1 DEF Reasoned, Logged
    <3> QED BY <1>5, <1>12, <3>2, ShelfTouched
  <2> QED BY <2>2, <2>3
<1> QED BY <1>3, <1>5, <1>6, <1>9, <1>10, <1>11, <1>12, <1>13, <1>14, TouchTurn

LEMMA CrashTurn ==
  ASSUME ShelvingAssumption, Inv, NEW p \in Processes, Crash(p)
  PROVE  Inv'
<1>1. Idle \in Running /\ <<>> \in Seq(Frame) /\ Commands(World, <<>>, Idle)
  BY RunsIs, IdleCommands DEF Inv
<1>2. /\ stack' = [stack EXCEPT ![p] = <<>>] /\ run' = [run EXCEPT ![p] = Idle]
      /\ UNCHANGED <<at, log, history>>
  BY DEF Crash
<1> HIDE DEF Idle
<1> QED BY <1>1, <1>2, QuietTurn

LEMMA ElsewhereTurn ==
  ASSUME ShelvingAssumption, Inv, NEW i \in Items, Elsewhere(i)
  PROVE  Inv'
<1>1. Types
  BY DEF Inv
<1> PICK w, v : w = World /\ v = World'
  OBVIOUS
<1>2. /\ w \in Worlds /\ w.at = at /\ w.hid = hid /\ w.came = came /\ w.from = from
      /\ v.at = at' /\ v.hid = hid' /\ v.came = came' /\ v.from = from'
  BY <1>1, WorldIs, Unchanged
<1>3. /\ rec' = rec /\ from' = from /\ told' = told /\ stack' = stack
      /\ hid' = hid /\ came' = came
  BY DEF Elsewhere, log, history
<1>4. PICK to \in Open \cup {"done"} :
        /\ at' = [at EXCEPT ![i] = to] /\ at[i] \in Open
  <2>1. PICK from0 \in Open, to \in Open \cup {"done"} :
          at[i] = from0 /\ at' = [at EXCEPT ![i] = to]
    <3>1. CASE at[i] = "available" /\ at' = [at EXCEPT ![i] = "claimed"]
      BY <3>1 DEF Open
    <3>2. CASE /\ at[i] = "claimed"
               /\ at' = [at EXCEPT ![i] = IF gateOpen(i) THEN "available" ELSE "pending"]
      BY <3>2, (IF gateOpen(i) THEN "available" ELSE "pending") \in Open DEF Open
    <3>3. CASE at[i] = "claimed" /\ at' = [at EXCEPT ![i] = "done"]
      BY <3>3 DEF Open
    <3>4. CASE at[i] = "pending" /\ at' = [at EXCEPT ![i] = "available"]
      BY <3>4 DEF Open
    <3> QED BY <3>1, <3>2, <3>3, <3>4 DEF Elsewhere
  <2>2. at[i] \in Open
    BY <2>1
  <2> QED BY <2>1, <2>2, Zenon
<1>5. at' \in [Items -> Places]
  BY <1>1, <1>4 DEF Types, Places
<1>6. v \in Worlds
  BY <1>1, <1>3, <1>5 DEF World, Worlds, Types
<1>7. /\ v.at[i] = to /\ w.at[i] \in Open
      /\ \A j \in Items \ {i} : Same(w, v, j)
  BY <1>1, <1>2, <1>3, <1>4 DEF Same, Types
<1>8. Since(w, v)
  BY <1>7 DEF Since, Same, Open
<1>9. ASSUME NEW q \in Processes
      PROVE  run'[q] \in Running /\ Commands(v, stack'[q], run'[q])
  <2> PICK o \in Running : o = run[q]
    BY <1>1 DEF Types
  <2> PICK n : n = [o EXCEPT !.still = @ \ {i}]
    OBVIOUS
  <2>1. n \in Running /\ Less(o, n) /\ n.still \subseteq Items \ {i}
    BY DEF Running, Less
  <2>2. run'[q] = n
    <3>1. run' = [x \in Processes |-> [run[x] EXCEPT !.still = @ \ {i}]]
      BY DEF Elsewhere
    <3>2. run'[q] = [run[q] EXCEPT !.still = @ \ {i}]
      BY <3>1, Zenon
    <3> QED BY <3>2
  <2>3. Commands(w, stack[q], o) /\ stack[q] \in Seq(Frame)
    BY <1>1 DEF Inv, Types
  <2>4. Commands(v, stack[q], n)
    BY <1>2, <1>6, <1>7, <1>8, <2>1, <2>3, Bystander
  <2> QED BY <1>3, <2>1, <2>2, <2>4
<1>10. OnShelf'
  <2>1. Reasoned(w, i) /\ Logged(w, i, rec[i], i \in told)
    BY DEF Inv, OnShelf
  <2>2. Reasoned(v, i) /\ Logged(v, i, rec'[i], i \in told')
    BY <1>2, <1>3, <1>7, <2>1 DEF Reasoned, Logged, Open
  <2> QED BY <1>3, <1>7, <2>2, ShelfTouched
<1>11. run' \in [Processes -> Running]
  <2>1. run' = [q \in Processes |-> [run[q] EXCEPT !.still = @ \ {i}]]
    BY DEF Elsewhere
  <2> QED BY <1>9, <2>1
<1>12. Types'
  BY <1>1, <1>3, <1>5, <1>11 DEF Types
<1> QED BY <1>9, <1>10, <1>12 DEF Inv


-------------------------------------------------------------------------------
(* The theorems *)

LEMMA InitInv ==
  ASSUME ShelvingAssumption, Init
  PROVE  Inv
<1>1. Types
  <2>1. at \in [Items -> Places] /\ came \in [Items -> Places] /\ told \subseteq Items
    BY DEF Init, Places, Open
  <2>2. hid \in [Items -> {"none", "filed"} \cup Causes]
    BY DEF Init, Causes
  <2>3. rec \in [Items -> RecordCauses]
    BY DEF Init, RecordCauses
  <2>4. from \in [Items -> {"none"} \cup Open]
    BY DEF Init, Open
  <2>5. stack \in [Processes -> Seq(Frame)]
    BY DEF Init
  <2>6. Idle \in Running
    BY DEF Idle, Running, RecordCauses
  <2>7. run \in [Processes -> Running]
    <3> HIDE DEF Idle
    <3> QED BY <2>6 DEF Init
  <2> QED BY <2>1, <2>2, <2>3, <2>4, <2>5, <2>7 DEF Types
<1>2. ASSUME NEW i \in Items
      PROVE  Reasoned(World, i) /\ Logged(World, i, rec[i], i \in told)
  <2>1. /\ World.at = at /\ World.hid = hid /\ World.came = came /\ World.from = from
    BY <1>1, WorldIs
  <2>2. hid[i] \in Reasons(i, at)
    BY DEF Init
  <2>3. /\ at[i] = "shelved" => hid[i] \in {"own", "filed"} \cup Depends[i]
        /\ at[i] # "shelved" => hid[i] = "none"
    BY <2>2 DEF Reasons
  <2>4. "none" \notin Depends[i]
    BY DEF ShelvingAssumption
  <2>5. Reasoned(World, i)
    BY <2>1, <2>3, <2>4 DEF Reasoned
  <2>6. rec[i] = RecordOf(hid[i]) /\ from[i] = came[i]
    BY DEF Init, RecordOf
  <2>7. at[i] = "none" => came[i] = "none"
    BY DEF Init
  <2> QED BY <2>1, <2>3, <2>5, <2>6, <2>7 DEF Logged, RecordOf
<1>3. ASSUME NEW p \in Processes
      PROVE  Commands(World, stack[p], run[p])
  BY IdleCommands DEF Init
<1> QED BY <1>1, <1>2, <1>3 DEF Inv, OnShelf

LEMMA NextInv ==
  ASSUME ShelvingAssumption, Inv, [Next]_vars
  PROVE  Inv'
<1>1. ASSUME NEW p \in Processes,
             \/ \E i \in Items : Shelve(p, i) \/ Unshelve(p, i) \/ New(p, i)
             \/ ShelveByTag(p) \/ UnshelveByTag(p)
      PROVE  Inv'
  BY <1>1, CommandTurn
<1>2. ASSUME NEW p \in Processes,
             Guard(p) \/ Read(p) \/ Hide(p) \/ List(p) \/ Cascade(p) \/ Emit(p)
      PROVE  Inv'
  BY <1>2, GuardTurn, ReadTurn, HideTurn, ListTurn, CascadeTurn, EmitTurn
<1>3. ASSUME NEW p \in Processes,
             ReadShelved(p) \/ Restore(p) \/ EmitRestored(p) \/ Pull(p) \/ Finish(p)
      PROVE  Inv'
  BY <1>3, ReadShelvedTurn, RestoreTurn, EmitRestoredTurn, PullTurn, FinishTurn
<1>4. ASSUME NEW p \in Processes,
             ShelveTagged(p) \/ UnshelveTagged(p) \/ Classify(p) \/ Create(p) \/ Crash(p)
      PROVE  Inv'
  BY <1>4, NextTaggedTurn, ClassifyTurn, CreateTurn, CrashTurn
<1>5. ASSUME NEW i \in Items, Elsewhere(i)
      PROVE  Inv'
  BY <1>5, ElsewhereTurn
<1>6. CASE UNCHANGED vars
  <2>1. UNCHANGED <<at, rec, from, stack, run, came, hid, told>>
    BY <1>6 DEF vars
  <2>2. World' = World
    BY <2>1 DEF World
  <2>3. Types' /\ OnShelf'
    BY <2>1, <2>2 DEF Inv, Types, OnShelf
  <2> QED BY <2>1, <2>2, <2>3 DEF Inv
<1> QED BY <1>1, <1>2, <1>3, <1>4, <1>5, <1>6 DEF Next

\* What every command counts on, and what the log says of the shelf, holds in every
\* state (shelveCascade and unshelve, with the guards and reads around them).
THEOREM Invariant ==
  ASSUME ShelvingAssumption
  PROVE  Spec => []Inv
<1>1. Init => Inv
  BY InitInv
<1>2. Inv /\ [Next]_vars => Inv'
  BY NextInv
<1> QED BY <1>1, <1>2, PTL DEF Spec

\* Every variable of the model holds a value of its kind, and an item has a reason for
\* being on the shelf exactly while it is there (store.Shelve, store.Unshelve).
THEOREM ShelvingTypes ==
  ASSUME ShelvingAssumption
  PROVE  Spec => []TypeOK
<1>1. Inv => TypeOK
  <2> SUFFICES ASSUME Inv PROVE TypeOK
    OBVIOUS
  <2>1. \A i \in Items : (at[i] = "shelved") = (hid[i] # "none")
    BY WorldIs DEF Inv, OnShelf, Reasoned
  <2> QED BY <2>1 DEF Inv, Types, TypeOK, RecordCauses
<1>2. Spec => []Inv
  BY Invariant
<1> QED BY <1>1, <1>2, PTL

\* shelveCascade leaves no dependent open, however many calls deep and whatever other
\* processes do to other items meanwhile.
THEOREM DependentsStayHidden ==
  ASSUME ShelvingAssumption
  PROVE  Spec => []DependentsHidden
<1>1. Inv => DependentsHidden
  <2> SUFFICES ASSUME Inv, NEW p \in Processes, Listed(p, "shelve"), Top(p).todo = {},
                      NEW i \in run[p].still, Top(p).item \in Depends[i]
               PROVE  at[i] \notin Open
    BY DEF DependentsHidden
  <2> PICK f, s, r, w : f = Top(p) /\ s = stack[p] /\ r = run[p] /\ w = World
    OBVIOUS
  <2>1. /\ f = s[1] /\ Good(w, s, 1, r) /\ f.call = "shelve" /\ f.step = "list"
        /\ f.lists = <<>> /\ f.todo = {}
    BY ListedIs
  <2>2. Unread(f.lists) = {} /\ ~Above(s, 1, i) /\ w.at = at
    BY <2>1, UnreadLists, WorldIs DEF Above, Inv
  <2> QED BY <2>1, <2>2 DEF Good, Cascading
<1>2. Spec => []Inv
  BY Invariant
<1> QED BY <1>1, <1>2, PTL

\* unshelveTop brings back all that was hidden by what it restores, or filed under it:
\* the record it read is that of the stay, and the item is still to be listed or waits in
\* a call until it has been.
THEOREM HiddenComeBack ==
  ASSUME ShelvingAssumption
  PROVE  Spec => []HiddenReturn
<1>1. Inv => HiddenReturn
  <2> SUFFICES ASSUME Inv, NEW p \in Processes, Listed(p, "unshelve"), Top(p).todo = {},
                      Top(p).cause = "own", NEW i \in Settled(p), at[i] = "shelved",
                      \/ hid[i] \in run[p].chain
                      \/ hid[i] = "filed" /\ Depends[i] \cap run[p].chain # {}
               PROVE  FALSE
    BY DEF HiddenReturn
  <2> PICK f, s, r, w : f = Top(p) /\ s = stack[p] /\ r = run[p] /\ w = World
    OBVIOUS
  <2>1. /\ f = s[1] /\ f.call = "unshelve" /\ f.step = "list" /\ f.lists = <<>> /\ f.todo = {}
        /\ f.cause = "own" /\ s # <<>> /\ s \in Seq(Frame) /\ r \in Running /\ Commands(w, s, r)
    BY ListedIs, TopIs
  <2>2. w.at = at /\ w.hid = hid
    BY WorldIs DEF Inv
  <2>3. i \in Items /\ Hidden(w, r, i)
    BY <2>1, <2>2 DEF Settled, Hidden, Running
  <2>4. Unshelves(s)
    BY <2>1 DEF Unshelves
  <2>5. /\ r.records[i] = RecordOf(hid[i])
        /\ \A x \in Items : Follows(r, i, x) => Waits(s, i, x)
    BY <2>1, <2>2, <2>3, <2>4 DEF Commands, Chained
  <2>6. hid[i] \in {"none", "own", "filed"} \cup Depends[i]
    BY <2>2, <2>3 DEF Inv, OnShelf, Reasoned
  <2>7. PICK x \in Items : Follows(r, i, x)
    <3>0. r.chain \subseteq Items /\ Depends[i] \subseteq Items
          /\ {"none", "own", "filed"} \cap Items = {}
      BY <2>1, <2>3 DEF Running, ShelvingAssumption
    <3>1. CASE hid[i] \in r.chain
      BY <2>5, <2>6, <3>0, <3>1 DEF Follows, RecordOf
    <3>2. CASE hid[i] = "filed" /\ Depends[i] \cap r.chain # {}
      <4>1. PICK x \in Depends[i] : x \in r.chain
        BY <3>2
      <4>2. r.records[i] = "none"
        BY <2>5, <3>2 DEF RecordOf
      <4> QED BY <3>0, <4>1, <4>2 DEF Follows
    <3> QED BY <3>1, <3>2
  <2>8. PICK k \in 1 .. Len(s) : Brings(s[k], x) /\ (Later(s[k], i) \/ Above(s, k, i))
    BY <2>5, <2>7 DEF Waits
  <2>9. k # 1
    BY <2>1, <2>8, UnreadLists DEF Later, Above
  <2>10. Stacked(s)
    BY <2>1 DEF Commands
  <2>11. Len(s) > 1 => s[2].call = "unshelve_tag"
    <3> SUFFICES ASSUME Len(s) > 1 PROVE s[2].call = "unshelve_tag"
      OBVIOUS
    <3>1. 1 \in 1 .. Len(s) /\ 2 \in 1 .. Len(s)
      BY <2>1, First
    <3>2. Calls(s[1], s[2]) /\ Sound(s[2])
      BY <2>10, <3>1 DEF Stacked
    <3> QED BY <2>1, <3>2 DEF Calls, Sound, ShelvingAssumption
  <2>12. Len(s) > 2 => FALSE
    <3> SUFFICES ASSUME Len(s) > 2 PROVE FALSE
      OBVIOUS
    <3>1. 2 \in 1 .. Len(s) /\ 2 < Len(s) /\ Len(s) > 1
      BY <2>1, First
    <3>2. Calls(s[2], s[3])
      BY <2>10, <3>1 DEF Stacked
    <3> QED BY <2>11, <3>1, <3>2 DEF Calls
  <2>13. k = 2 /\ Len(s) > 1
    <3> PICK n \in Nat : n = Len(s)
      BY <2>1, First
    <3> QED BY <2>9, <2>12
  <2> QED BY <2>8, <2>11, <2>13 DEF Brings
<1>2. Spec => []Inv
  BY Invariant
<1> QED BY <1>1, <1>2, PTL

\* Only unshelve takes an item off the shelf.
LEMMA LeavesShelf ==
  ASSUME ShelvingAssumption, Inv, [Next]_vars, NEW i \in Items,
         at[i] = "shelved", at'[i] # "shelved"
  PROVE  \E p \in Processes :
           /\ In(p, "unshelve", "move") /\ Top(p).item = i /\ at'[i] = Top(p).to
           /\ \A q \in Processes \ {p} : stack'[q] = stack[q]
<1>1. at' # at /\ at \in [Items -> Places] /\ stack \in [Processes -> Seq(Frame)]
  BY DEF Inv, Types
<1>2. ASSUME NEW p \in Processes, Hide(p)
      PROVE  FALSE
  <2>1. at' = [at EXCEPT ![Top(p).item] = "shelved"]
    BY <1>1, <1>2 DEF Hide
  <2> QED BY <1>1, <2>1
<1>3. ASSUME NEW p \in Processes, Create(p)
      PROVE  FALSE
  <2>1. at[Top(p).item] = "none" /\ at' = [at EXCEPT ![Top(p).item] = Top(p).to]
    BY <1>1, <1>3 DEF Create
  <2> QED BY <1>1, <2>1
<1>4. ASSUME NEW d \in Items, Elsewhere(d)
      PROVE  FALSE
  <2>1. at[d] # "shelved" /\ \A j \in Items \ {d} : at'[j] = at[j]
    BY <1>1, <1>4 DEF Elsewhere
  <2> QED BY <2>1
<1>5. ASSUME NEW p \in Processes, Restore(p)
      PROVE  /\ In(p, "unshelve", "move") /\ Top(p).item = i /\ at'[i] = Top(p).to
             /\ \A q \in Processes \ {p} : stack'[q] = stack[q]
  <2>1. /\ at' = [at EXCEPT ![Top(p).item] = Top(p).to] /\ In(p, "unshelve", "move")
        /\ Set(p, [Top(p) EXCEPT !.step = "emit"])
    BY <1>1, <1>5 DEF Restore
  <2>2. \A q \in Processes \ {p} : stack'[q] = stack[q]
    BY <1>1, <2>1 DEF Set
  <2> QED BY <1>1, <2>1, <2>2
<1>6. ASSUME NEW p \in Processes,
             \/ \E d \in Items : Shelve(p, d) \/ Unshelve(p, d) \/ New(p, d)
             \/ ShelveByTag(p) \/ UnshelveByTag(p)
      PROVE  at' = at
  BY <1>6 DEF Shelve, Unshelve, New, ShelveByTag, UnshelveByTag, Begin
<1>7. ASSUME NEW p \in Processes,
             \/ Guard(p) \/ Read(p) \/ List(p) \/ Cascade(p) \/ Emit(p)
             \/ ReadShelved(p) \/ EmitRestored(p) \/ Pull(p) \/ Finish(p)
             \/ ShelveTagged(p) \/ UnshelveTagged(p) \/ Classify(p) \/ Crash(p)
      PROVE  at' = at
  BY <1>7 DEF Guard, Read, List, Cascade, Emit, ReadShelved, EmitRestored, Pull, Finish,
              ShelveTagged, UnshelveTagged, NextTagged, Classify, Crash
<1>8. UNCHANGED vars => at' = at
  BY DEF vars
<1> QED BY <1>1, <1>2, <1>3, <1>4, <1>5, <1>6, <1>7, <1>8 DEF Next

\* What a process restores that it can rely on.
LEMMA RestoresRightly ==
  ASSUME ShelvingAssumption, Inv, [Next]_vars, NEW p \in Processes, NEW i \in Items,
         at[i] = "shelved", at'[i] # "shelved", stack'[p] # stack[p], i \in Settled(p)
  PROVE  /\ hid[i] = "own" => Top(p).cause = "own"
         /\ at'[i] = "claimed" => came[i] = "claimed" /\ gateOpen(i)
<1>1. /\ In(p, "unshelve", "move") /\ Top(p).item = i /\ at'[i] = Top(p).to
  BY LeavesShelf
<1> PICK f, s, r, w : f = Top(p) /\ s = stack[p] /\ r = run[p] /\ w = World
  OBVIOUS
<1>2. /\ f = s[1] /\ f.call = "unshelve" /\ f.step = "move" /\ Restoring(w, f, r)
      /\ Commands(w, s, r) /\ s # <<>>
  BY <1>1, TopIs DEF In, Good
<1>3. w.at = at /\ w.hid = hid /\ w.came = came /\ w.from = from
  BY WorldIs DEF Inv
<1>4. Unshelves(s) /\ Hidden(w, r, i)
  BY <1>2, <1>3 DEF Unshelves, Hidden, Settled
<1>5. r.records[i] = RecordOf(hid[i]) /\ from[i] = came[i]
  BY <1>2, <1>3, <1>4 DEF Commands, Chained
<1>6. hid[i] = "own" => Top(p).cause = "own"
  BY <1>1, <1>2, <1>5 DEF Restoring, RecordOf
<1>7. at'[i] = "claimed" => came[i] = "claimed" /\ gateOpen(i)
  BY <1>1, <1>2, <1>3, <1>4, <1>5 DEF Restoring, GateOpen, gateOpen, Hidden
<1> QED BY <1>6, <1>7

\* unshelve lifts no hold of an item's own that it was not asked to lift, and puts
\* into claimed/ only what was claimed when it was shelved, with its gate open.
THEOREM HoldsAndClaimsKept ==
  ASSUME ShelvingAssumption
  PROVE  Spec => NoMoreThanAsked
<1>1. Inv /\ [Next]_vars => HoldStep
  <2> SUFFICES ASSUME Inv, [Next]_vars, NEW p \in Processes, NEW i \in Items, hid[i] = "own",
                      at'[i] # "shelved", stack'[p] # stack[p], i \in Settled(p)
               PROVE  Top(p).cause = "own"
    BY DEF HoldStep
  <2>1. at[i] = "shelved"
    BY WorldIs DEF Inv, OnShelf, Reasoned
  <2> QED BY <2>1, RestoresRightly
<1>2. Inv /\ [Next]_vars => ClaimStep
  <2> SUFFICES ASSUME Inv, [Next]_vars, NEW p \in Processes, NEW i \in Items, at[i] = "shelved",
                      at'[i] = "claimed", stack'[p] # stack[p], i \in Settled(p)
               PROVE  came[i] = "claimed" /\ gateOpen(i)
    BY DEF ClaimStep
  <2> QED BY RestoresRightly
<1>3. Spec => []Inv
  BY Invariant
<1>4. Inv /\ [Next]_vars => [HoldStep /\ ClaimStep]_vars
  BY <1>1, <1>2
<1> QED BY <1>3, <1>4, PTL DEF Spec, NoMoreThanAsked

===============================================================================
