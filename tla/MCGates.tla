------------------------------- MODULE MCGates -------------------------------
\* Instances of Gates for TLC: who runs which commands.
EXTENDS Gates

CONSTANTS parent, child, p1, p2, p3

Cmd(name, item, deps, wake) == [name |-> name, item |-> item, deps |-> deps, wake |-> wake]
On(item, names) == {Cmd(n, item, {}, 0) : n \in names}
Sweep(name) == Cmd(name, NoItem, {}, 0)
New(item, deps) == Cmd("new", item, deps, 0)
Depend(name) == Cmd(name, child, {parent}, 0)
Snooze(item, times) == {Cmd("snooze", item, {}, t) : t \in times}

\* One process takes the parent through its life, one files, snoozes and edits the
\* child, one sweeps and gives the child back.
Lives ==
  [p \in Procs |->
     CASE p = p1 -> {New(parent, {})}
                      \cup On(parent, {"claim", "done", "reopen", "archive"})
       [] p = p2 -> {New(child, {parent}), Depend("add_depends"), Depend("rm_depends")}
                      \cup On(child, {"claim"}) \cup Snooze(child, {1})
       [] OTHER -> {Sweep("schedule")} \cup On(child, {"unclaim", "unsnooze"})]

\* The parent is completed and filed away, the child is snoozed and claimed, and
\* somebody may be sweeping.
Sweeping ==
  [p \in Procs |->
     CASE p = p1 -> {New(parent, {})} \cup On(parent, {"claim", "done", "archive"})
       [] p = p2 -> {New(child, {parent})} \cup On(child, {"claim"}) \cup Snooze(child, {1})
       [] OTHER -> {Sweep("schedule"), Sweep("auto_promote")}]

\* A dependent is filed while its parent is being completed.
Filing ==
  [p \in Procs |->
     IF p = p1 THEN {New(parent, {})} \cup On(parent, {"claim", "done", "reopen"}) ELSE {New(child, {parent})}]

\* A wake time is set, and set again once it has passed, beside the promoters.
Snoozing ==
  [p \in Procs |->
     IF p = p1 THEN {New(child, {})} \cup On(child, {"claim", "unclaim"}) \cup Snooze(child, {1, 2})
     ELSE {Sweep("schedule"), Sweep("auto_promote")}]
===============================================================================
