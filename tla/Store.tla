-------------------------------- MODULE Store --------------------------------
(***************************************************************************)
(* The contract a work-item backend owes mg (store.Backend), for one item. *)
(* Callers run at the same time; each asks for the item to be moved from   *)
(* an expected state to a new one.  The item has ONE state, a granted move *)
(* starts from a state that satisfies the expectation, and a refused       *)
(* Transition is one that could not have been granted: the item was not as *)
(* expected, or another caller moved it during the call.                   *)
(***************************************************************************)
CONSTANTS Procs,     \* mg processes
          Holders,   \* claim holders: owner PIDs
          NoHolder   \* the empty holder

VARIABLES state,   \* the item's state
          call,    \* the move each process has asked for and not yet had answered
          answer,  \* the answer a process has had and not yet returned with
          beaten   \* history: the item moved since the process made its call

vars == <<state, call, answer, beaten>>

\* A status and, for claimed, who holds the claim (store.State).
Unheld == {"available", "done", "pending", "shelved", "archived"}
State == [dir : Unheld, holder : {NoHolder}]
           \cup [dir : {"claimed"}, holder : Holders \cup {NoHolder}]

Call == [expect : State, to : State]
NoState == [dir |-> "none", holder |-> NoHolder]
NoCall == [expect |-> NoState, to |-> NoState]

\* An empty expected holder means "held by anyone".
Satisfies(s, expect) ==
  /\ s.dir = expect.dir
  /\ expect.holder = NoHolder \/ s.holder = expect.holder

Init ==
  /\ state \in State
  /\ call = [p \in Procs |-> NoCall]
  /\ answer = [p \in Procs |-> "none"]
  /\ beaten = [p \in Procs |-> FALSE]

Ask(p) ==
  /\ call[p] = NoCall /\ answer[p] = "none"
  /\ call'[p] \in Call
  /\ call' = [call EXCEPT ![p] = call'[p]]
  /\ UNCHANGED <<state, answer, beaten>>

\* Every other process waiting for an answer has now been overtaken.
Overtake(p) ==
  beaten' = [q \in Procs |-> q # p /\ (beaten[q] \/ call[q] # NoCall)]

\* The atomic primitive: the item was as expected, and is now in the new state.
Grant(p) ==
  /\ call[p] # NoCall
  /\ Satisfies(state, call[p].expect)
  /\ state' = call[p].to
  /\ IF state' = state THEN beaten' = [beaten EXCEPT ![p] = FALSE] ELSE Overtake(p)
  /\ call' = [call EXCEPT ![p] = NoCall]
  /\ answer' = [answer EXCEPT ![p] = "moved"]

\* An archive may also be refused because its partition is taken (ErrExists),
\* which depends on records this contract does not describe.
Refuse(p) ==
  /\ call[p] # NoCall
  /\ \/ ~Satisfies(state, call[p].expect)
     \/ beaten[p]
     \/ call[p].to.dir = "archived"
  /\ call' = [call EXCEPT ![p] = NoCall]
  /\ answer' = [answer EXCEPT ![p] = "refused"]
  /\ beaten' = [beaten EXCEPT ![p] = FALSE]
  /\ UNCHANGED state

Return(p) ==
  /\ answer[p] # "none"
  /\ answer' = [answer EXCEPT ![p] = "none"]
  /\ UNCHANGED <<state, call, beaten>>

\* The process dies before it is answered: it asked for nothing.
Abandon(p) ==
  /\ call[p] # NoCall
  /\ call' = [call EXCEPT ![p] = NoCall]
  /\ beaten' = [beaten EXCEPT ![p] = FALSE]
  /\ UNCHANGED <<state, answer>>

Next == \E p \in Procs : Ask(p) \/ Grant(p) \/ Refuse(p) \/ Return(p) \/ Abandon(p)

Spec == Init /\ [][Next]_vars
===============================================================================
