----------------------------- MODULE Mail_proofs -----------------------------
(***************************************************************************)
(* Proofs about Mail: its types, what no link and no registration          *)
(* replaces, where every delivered message is, what a listing shows and    *)
(* what a reclaim leaves, for any mailboxes, spellings, messages and ids,  *)
(* any number of processes, commands and crashes, and any interleaving.    *)
(***************************************************************************)
EXTENDS Mail, TLAPS, WellFoundedInduction, FiniteSetTheorems

-----------------------------------------------------------------------------
(***************************************************************************)
(* Types, and what a process holds at each step of its command: where it   *)
(* looks, what it sends, where it moves a file.                            *)
(***************************************************************************)
Job == [cmd : Commands \cup {"none"}, box : Opt(Box), to : Opt(Box), name : Opt(Name),
        msg : Opt(Msg), id : Opt(Nat), dir : Opt(Dirs) \cup {"none"}, vouch : BOOLEAN,
        tries : 0 .. MaxAttempts - 1,
        list : SUBSET Row, todo : SUBSET Row, was : SUBSET Msg]

Kept == {"new", "cur", "archive"}

Sends(s, j) ==
    /\ j.cmd = "reply" => j.to \in Box /\ j.name \in Name
    /\ s \in {"ensure", "open", "link", "unlink"} => j.cmd \in {"send", "reply"} /\ j.msg \in Msg
    /\ s \in {"link", "unlink"} => j.id \in Ids
    /\ s \in {"registered", "record"} => j.cmd \in {"send", "reply", "register", "migrate"}

Reads(s, j) ==
    /\ s \in {"new", "mark", "statcur", "statnew", "dest", "move"} => j.name \in Name
    /\ s \in {"new", "mark"} => j.cmd = "read"
    /\ s = "statcur" => j.cmd = "archive"
    /\ s = "statnew" => j.cmd \in {"archive", "reclaim"}
    /\ s = "dest" => j.cmd = "reclaim"
    /\ s \in {"listnew", "listcur"} => j.cmd \in {"list", "reclaim"}
    /\ s = "listed" => j.cmd = "list"

Moves(s, j) ==
    /\ s = "move" => /\ j.cmd \in {"archive", "reclaim", "migrate"}
                     /\ j.cmd # "archive" => j.id \in 0 .. MaxDup
                     /\ j.to \in Box /\ j.dir \in Kept
    /\ s \in {"dest", "move"} /\ j.cmd # "migrate" => j.to = j.box /\ j.dir \in {"new", "cur"}
    /\ s = "take" => j.cmd \in {"reclaim", "migrate"}

Merges(s, j) ==
    j.cmd = "migrate" =>
      /\ j.to = Canonical[j.box] /\ j.to # j.box /\ j.to \in Box
      /\ j.dir \in Kept \cup {"none"}
      /\ j.dir = "none" => j.todo = {}
      /\ s \in {"registered", "record", "removeall", "take", "move"}
      /\ s \in {"registered", "record", "removeall"} => j.dir = "archive" /\ j.todo = {}

Fit(s, j) ==
    /\ s \in Steps /\ j \in Job /\ IsFiniteSet(j.list)
    /\ s = "idle" => j = Nothing
    /\ s # "idle" => j.box \in Box
    /\ s = "removeall" => j.cmd = "migrate"
    /\ Sends(s, j) /\ Reads(s, j) /\ Moves(s, j) /\ Merges(s, j)

JobsOK ==
    /\ pc \in [Proc -> Steps] /\ job \in [Proc -> Job]
    /\ \A p \in Proc : Fit(pc[p], job[p])

DiskOK ==
    /\ dirs \subseteq Box \X Dirs /\ files \subseteq File /\ IsFiniteSet(files)
    /\ record \in [Box -> Opt(Proc)]
    /\ sent \in [Msg -> Opt(Ids)] /\ late \cup taken \subseteq Msg
    /\ crashes \in 0 .. MaxCrashes /\ begun \in 0 .. MaxCommands
    /\ \A f, g \in files : f.box = g.box /\ f.dir = g.dir /\ f.name = g.name => f = g

\* A process that goes on with a job that fits leaves the others alone.
LEMMA GoesOn ==
  ASSUME JobsOK, NEW p \in Proc, NEW s, NEW j, Goto(p, s, j), Fit(s, j)
  PROVE  /\ JobsOK' /\ pc'[p] = s /\ job'[p] = j
         /\ \A q \in Proc \ {p} : pc'[q] = pc[q] /\ job'[q] = job[q]
<1>1. /\ pc' = [pc EXCEPT ![p] = s] /\ job' = [job EXCEPT ![p] = j]
      /\ s \in Steps /\ j \in Job
      /\ pc \in [Proc -> Steps] /\ job \in [Proc -> Job]
      /\ \A q \in Proc : Fit(pc[q], job[q])
  BY DEF Goto, Fit, JobsOK
<1>2. /\ pc'[p] = s /\ job'[p] = j
      /\ \A q \in Proc \ {p} : pc'[q] = pc[q] /\ job'[q] = job[q]
      /\ pc' \in [Proc -> Steps] /\ job' \in [Proc -> Job]
  BY <1>1
<1>3. \A q \in Proc : Fit(pc'[q], job'[q])
  BY <1>1, <1>2
<1>4. JobsOK'
  BY <1>2, <1>3 DEF JobsOK
<1> QED BY <1>2, <1>4

\* An idle process has no job.
LEMMA Resting ==
  ASSUME MailAssumption
  PROVE  Nothing \in Job /\ Fit("idle", Nothing)
<1>1. Nothing \in Job
  BY DEF MailAssumption, Nothing, Job, Opt
<1>2. IsFiniteSet(Nothing.list)
  BY FS_EmptySet DEF Nothing
<1> QED BY <1>1, <1>2 DEF Nothing, Fit, Steps, Sends, Reads, Moves, Merges

\* A command that ends leaves its process idle.
LEMMA Ends ==
  ASSUME MailAssumption, JobsOK, NEW p \in Proc, Finish(p)
  PROVE  /\ JobsOK' /\ pc'[p] = "idle" /\ job'[p] = Nothing
         /\ \A q \in Proc \ {p} : pc'[q] = pc[q] /\ job'[q] = job[q]
BY GoesOn, Resting DEF Finish

LEMMA SpellingsBox ==
  ASSUME MailAssumption
  PROVE  /\ \A s \in Spelling : Canonical[s] \in Box
         /\ \A m \in Msg : Canonical[FromOf[m]] \in Box
         /\ \A b \in Box : Canonical[b] \in Box /\ b # None
         /\ MaxAttempts \in Nat \ {0} /\ MaxDup \in Nat /\ Ids \subseteq Nat
BY DEF MailAssumption

\* The job of a command that begins.
ToSend(b, m, v) == [Nothing EXCEPT !.cmd = "send", !.box = b, !.msg = m, !.vouch = v]
ToReply(b, m, t, n, v) ==
  [Nothing EXCEPT !.cmd = "reply", !.box = b, !.msg = m, !.to = t, !.name = n, !.vouch = v]
ToBox(c, b) == [Nothing EXCEPT !.cmd = c, !.box = b]
ToRow(c, b, n) == [Nothing EXCEPT !.cmd = c, !.box = b, !.name = n]
ToMerge(b, t) == [Nothing EXCEPT !.cmd = "migrate", !.box = b, !.to = t, !.dir = "none"]

LEMMA NothingIsJob ==
  ASSUME MailAssumption
  PROVE  Nothing \in Job /\ Nothing.list = {} /\ Nothing.todo = {}
BY DEF MailAssumption, Nothing, Job, Opt, Commands

LEMMA JobToSend ==
  ASSUME MailAssumption, NEW b \in Box, NEW m \in Msg, NEW v \in BOOLEAN, NEW j, j = ToSend(b, m, v)
  PROVE  j \in Job /\ j.list = {} /\ j.cmd = "send" /\ j.box = b /\ j.msg = m
BY NothingIsJob DEF ToSend, Job, Opt, Commands

LEMMA JobToReply ==
  ASSUME MailAssumption, NEW b \in Box, NEW m \in Msg, NEW t \in Box, NEW n \in Name,
         NEW v \in BOOLEAN, NEW j, j = ToReply(b, m, t, n, v)
  PROVE  /\ j \in Job /\ j.list = {} /\ j.cmd = "reply" /\ j.box = b /\ j.msg = m
         /\ j.to = t /\ j.name = n
BY NothingIsJob DEF ToReply, Job, Opt, Commands

LEMMA JobToBox ==
  ASSUME MailAssumption, NEW c \in Commands, NEW b \in Box, NEW j, j = ToBox(c, b)
  PROVE  j \in Job /\ j.list = {} /\ j.cmd = c /\ j.box = b
BY NothingIsJob DEF ToBox, Job, Opt

LEMMA JobToRow ==
  ASSUME MailAssumption, NEW c \in Commands, NEW b \in Box, NEW n \in Name, NEW j,
         j = ToRow(c, b, n)
  PROVE  j \in Job /\ j.list = {} /\ j.cmd = c /\ j.box = b /\ j.name = n
BY NothingIsJob DEF ToRow, Job, Opt

LEMMA JobToMerge ==
  ASSUME MailAssumption, NEW b \in Box, NEW t \in Box, NEW j, j = ToMerge(b, t)
  PROVE  /\ j \in Job /\ j.list = {} /\ j.todo = {} /\ j.cmd = "migrate" /\ j.box = b
         /\ j.to = t /\ j.dir = "none"
BY NothingIsJob DEF ToMerge, Job, Opt, Commands

\* The steps that begin a command.
LEMMA BeginFits ==
  ASSUME MailAssumption, DiskOK, JobsOK, NEW p \in Proc, Begin(p)
  PROVE  JobsOK'
<1> USE Resting
<1>1. CASE Send(p)
  <2>1. PICK s \in Spelling, create \in BOOLEAN, m \in Unclaimed :
          Goto(p, "ensure",
                 ToSend(Canonical[s], m, create /\ ~Exists(Canonical[s])))
    BY <1>1 DEF Send, ToSend
  <2> DEFINE b == Canonical[s]
             v == create /\ ~Exists(b)
             j == ToSend(b, m, v)
  <2>2. m \in Msg /\ b \in Box /\ v \in BOOLEAN
    BY SpellingsBox DEF Unclaimed, Exists
  <2> HIDE DEF v, b
  <2>3. j \in Job /\ j.list = {} /\ j.cmd = "send" /\ j.box \in Box /\ j.msg \in Msg
    BY <2>2, JobToSend
  <2>4. IsFiniteSet(j.list)
    BY <2>3, FS_EmptySet
  <2> HIDE DEF j
  <2>5. Fit("ensure", j)
    BY <2>3, <2>4 DEF Fit, Steps, Sends, Reads, Moves, Merges
  <2> QED BY <2>1, <2>5, GoesOn DEF j, v, b
<1>2. CASE Reply(p)
  <2>1. PICK o \in {f \in files : f.dir \in {"new", "cur"}}, create \in BOOLEAN,
          m \in Unclaimed :
          Goto(p, "ensure",
                 ToReply(Canonical[FromOf[o.msg]], m, o.box, o.name,
                         create /\ ~Exists(Canonical[FromOf[o.msg]])))
    BY <1>2 DEF Reply, ToReply
  <2> DEFINE b == Canonical[FromOf[o.msg]]
             v == create /\ ~Exists(b)
             to == o.box
             n == o.name
             j == ToReply(b, m, to, n, v)
  <2>2. m \in Msg /\ b \in Box /\ v \in BOOLEAN /\ to \in Box /\ n \in Name
    BY SpellingsBox DEF Unclaimed, Exists, DiskOK, File
  <2> HIDE DEF v, b, to, n
  <2>3. /\ j \in Job /\ j.list = {} /\ j.cmd = "reply" /\ j.box \in Box /\ j.msg \in Msg
        /\ j.to \in Box /\ j.name \in Name
    BY <2>2, JobToReply
  <2>4. IsFiniteSet(j.list)
    BY <2>3, FS_EmptySet
  <2> HIDE DEF j
  <2>5. Fit("ensure", j)
    BY <2>3, <2>4 DEF Fit, Steps, Sends, Reads, Moves, Merges
  <2> QED BY <2>1, <2>5, GoesOn DEF j, v, b, to, n
<1>3. ASSUME NEW s, NEW c \in Commands, NEW b \in Box,
             \/ c = "register" /\ s = "registered"
             \/ c \in {"list", "reclaim"} /\ s = "listnew",
             Goto(p, s, ToBox(c, b))
      PROVE  JobsOK'
  <2> DEFINE j == ToBox(c, b)
  <2>1. j \in Job /\ j.list = {} /\ j.cmd = c /\ j.box \in Box
    BY JobToBox
  <2>2. IsFiniteSet(j.list)
    BY <2>1, FS_EmptySet
  <2> HIDE DEF j
  <2>3. Fit(s, j)
    BY <1>3, <2>1, <2>2 DEF Fit, Steps, Sends, Reads, Moves, Merges
  <2> QED BY <1>3, <2>3, GoesOn DEF j
<1>4. CASE Register(p)
  BY <1>3, <1>4, SpellingsBox DEF Register, Commands, ToBox
<1>5. ASSUME NEW s, NEW c, <<c, s>> \in {<<"read", "new">>, <<"archive", "statcur">>},
             Address(p, c, s)
      PROVE  JobsOK'
  <2>1. PICK f \in files : Goto(p, s, ToRow(c, f.box, f.name))
    BY <1>5 DEF Address, ToRow
  <2> DEFINE j == ToRow(c, f.box, f.name)
  <2>2. f.box \in Box /\ f.name \in Name /\ c \in Commands
    BY <1>5 DEF DiskOK, File, Commands
  <2>3. j \in Job /\ j.list = {} /\ j.cmd = c /\ j.box \in Box /\ j.name \in Name
    BY <2>2, JobToRow
  <2>4. IsFiniteSet(j.list)
    BY <2>3, FS_EmptySet
  <2> HIDE DEF j
  <2>5. Fit(s, j)
    BY <1>5, <2>3, <2>4 DEF Fit, Steps, Sends, Reads, Moves, Merges
  <2> QED BY <2>1, <2>5, GoesOn DEF j
<1>6. CASE Read(p)
  BY <1>5, <1>6 DEF Read
<1>7. CASE Archive(p)
  BY <1>5, <1>7 DEF Archive
<1>8. CASE List(p)
  BY <1>3, <1>8 DEF List, Commands, ToBox
<1>9. CASE Reclaim(p)
  BY <1>3, <1>9 DEF Reclaim, Commands, ToBox
<1>10. CASE Migrate(p)
  <2>1. PICK b \in Box :
          /\ Canonical[b] # b
          /\ Goto(p, "take", ToMerge(b, Canonical[b]))
    BY <1>10 DEF Migrate, ToMerge
  <2> DEFINE to == Canonical[b]
             j == ToMerge(b, to)
  <2>2. to \in Box
    BY SpellingsBox
  <2> HIDE DEF to
  <2>3. /\ j \in Job /\ j.list = {} /\ j.todo = {} /\ j.cmd = "migrate" /\ j.box = b
        /\ j.to = to /\ j.dir = "none"
    BY <2>2, JobToMerge
  <2>4. IsFiniteSet(j.list)
    BY <2>3, FS_EmptySet
  <2> HIDE DEF j
  <2>5. Fit("take", j)
    BY <2>1, <2>2, <2>3, <2>4 DEF to, Fit, Steps, Sends, Reads, Moves, Merges, Kept
  <2> QED BY <2>1, <2>5, GoesOn DEF j, to
<1> QED BY <1>1, <1>2, <1>4, <1>6, <1>7, <1>8, <1>9, <1>10 DEF Begin

\* After a delivery or a registration its command goes on.
LEMMA AfterFits ==
  ASSUME MailAssumption, JobsOK, NEW p \in Proc, pc[p] \in {"unlink", "registered", "record"}
  PROVE  /\ AfterSend(p) => JobsOK'
         /\ AfterRecord(p) => JobsOK'
         /\ AfterSend(p) => pc'[p] \in {"idle", "new"} /\ job'[p].cmd \in {"none", "read"}
         /\ AfterRecord(p) => \/ pc'[p] \in {"idle", "new"} /\ job'[p].cmd \in {"none", "read"}
                              \/ pc'[p] = "removeall" /\ job'[p] = job[p] /\ job[p].cmd = "migrate"
<1>1. Fit(pc[p], job[p])
  BY DEF JobsOK
<1>2. ASSUME AfterSend(p)
      PROVE  JobsOK' /\ pc'[p] \in {"idle", "new"} /\ job'[p].cmd \in {"none", "read"}
  <2>1. CASE job[p].cmd = "reply"
    <3> DEFINE j == ToRow("read", job[p].to, job[p].name)
    <3>1. /\ j \in Job /\ j.list = {} /\ j.cmd = "read" /\ j.box \in Box /\ j.name \in Name
      <4>1. job[p].to \in Box /\ job[p].name \in Name
        BY <1>1, <2>1 DEF Fit, Sends
      <4> QED BY <4>1, JobToRow DEF Commands
    <3>2. IsFiniteSet(j.list)
      BY <3>1, FS_EmptySet
    <3>3. Goto(p, "new", j)
      BY <1>2, <2>1 DEF AfterSend, ToRow
    <3> HIDE DEF j
    <3>4. Fit("new", j)
      BY <3>1, <3>2 DEF Fit, Steps, Sends, Reads, Moves, Merges
    <3> QED BY <3>1, <3>3, <3>4, GoesOn
  <2>2. CASE job[p].cmd # "reply"
    <3>1. Finish(p)
      BY <1>2, <2>2 DEF AfterSend
    <3> QED BY <3>1, Ends DEF Nothing
  <2> QED BY <2>1, <2>2
<1>3. ASSUME AfterRecord(p), job[p].cmd = "migrate"
      PROVE  JobsOK' /\ pc'[p] = "removeall" /\ job'[p] = job[p]
  <2>1. Goto(p, "removeall", job[p])
    BY <1>3 DEF AfterRecord
  <2>2. pc[p] \in {"registered", "record"}
    BY <1>1, <1>3 DEF Fit, Merges
  <2>3. Fit("removeall", job[p])
    BY <1>1, <1>3, <2>2 DEF Fit, Steps, Sends, Reads, Moves, Merges
  <2> QED BY <2>1, <2>3, GoesOn
<1>4. ASSUME AfterRecord(p), job[p].cmd # "migrate"
      PROVE  AfterSend(p)
  BY <1>4 DEF AfterRecord
<1> QED BY <1>2, <1>3, <1>4

\* A step that only turns to the next one, with a part of the job renewed.
LEMMA SendingFits ==
  ASSUME MailAssumption, DiskOK, JobsOK, NEW p \in Proc,
         Ensure(p) \/ OpenTmp(p) \/ Link(p) \/ RemoveTmp(p)
  PROVE  JobsOK'
<1>1. Fit(pc[p], job[p])
  BY DEF JobsOK
<1>2. CASE Ensure(p)
  <2>1. Goto(p, "open", job[p]) /\ pc[p] = "ensure"
    BY <1>2 DEF Ensure
  <2>2. Fit("open", job[p])
    BY <1>1, <2>1 DEF Fit, Steps, Sends, Reads, Moves, Merges
  <2> QED BY <2>1, <2>2, GoesOn
<1>3. ASSUME Collide(p), pc[p] \in {"open", "link"}
      PROVE  JobsOK'
  <2>1. CASE job[p].tries + 1 = MaxAttempts
    BY <1>3, <2>1, Ends DEF Collide
  <2>2. CASE job[p].tries + 1 # MaxAttempts
    <3> DEFINE j == [job[p] EXCEPT !.tries = @ + 1, !.id = None]
    <3>1. Goto(p, "open", j)
      BY <1>3, <2>2 DEF Collide
    <3>2. job[p] \in Job /\ job[p].tries \in 0 .. MaxAttempts - 1 /\ MaxAttempts \in Nat
      BY <1>1, SpellingsBox DEF Fit, Job
    <3>3. job[p].tries + 1 \in 0 .. MaxAttempts - 1
      BY <2>2, <3>2
    <3>4. /\ j \in Job /\ j.list = job[p].list /\ j.cmd = job[p].cmd /\ j.box = job[p].box
          /\ j.msg = job[p].msg /\ j.to = job[p].to /\ j.name = job[p].name
      BY <3>2, <3>3 DEF Job, Opt
    <3> HIDE DEF j
    <3>5. Fit("open", j)
      BY <1>1, <1>3, <3>4 DEF Fit, Steps, Sends, Reads, Moves, Merges
    <3> QED BY <3>1, <3>5, GoesOn
  <2> QED BY <2>1, <2>2
<1>4. CASE OpenTmp(p)
  <2>1. pc[p] = "open"
    BY <1>4 DEF OpenTmp
  <2>2. PICK id \in Ids : Finish(p) \/ Collide(p) \/ Goto(p, "link", [job[p] EXCEPT !.id = id])
    BY <1>4 DEF OpenTmp
  <2>3. ASSUME Goto(p, "link", [job[p] EXCEPT !.id = id])
        PROVE  JobsOK'
    <3> DEFINE j == [job[p] EXCEPT !.id = id]
    <3>1. id \in Nat
      BY SpellingsBox
    <3>2. /\ j \in Job /\ j.list = job[p].list /\ j.cmd = job[p].cmd /\ j.box = job[p].box
          /\ j.msg = job[p].msg /\ j.to = job[p].to /\ j.name = job[p].name /\ j.id = id
      BY <1>1, <3>1 DEF Fit, Job, Opt
    <3> HIDE DEF j
    <3>3. Fit("link", j)
      BY <1>1, <2>1, <3>2 DEF Fit, Steps, Sends, Reads, Moves, Merges
    <3> QED BY <2>3, <3>3, GoesOn DEF j
  <2> QED BY <1>3, <2>1, <2>2, <2>3, Ends
<1>5. CASE Link(p)
  <2>1. pc[p] = "link" /\ (Finish(p) \/ Collide(p) \/ Goto(p, "unlink", job[p]))
    BY <1>5 DEF Link
  <2>2. Fit("unlink", job[p])
    BY <1>1, <2>1 DEF Fit, Steps, Sends, Reads, Moves, Merges
  <2> QED BY <1>3, <2>1, <2>2, Ends, GoesOn
<1>6. CASE RemoveTmp(p)
  <2>1. pc[p] = "unlink" /\ (Goto(p, "registered", job[p]) \/ AfterSend(p))
    BY <1>6 DEF RemoveTmp
  <2>2. Fit("registered", job[p])
    BY <1>1, <2>1 DEF Fit, Steps, Sends, Reads, Moves, Merges
  <2> QED BY <2>1, <2>2, AfterFits, GoesOn
<1> QED BY <1>2, <1>4, <1>5, <1>6

LEMMA RecordFits ==
  ASSUME MailAssumption, DiskOK, JobsOK, NEW p \in Proc, IsRegistered(p) \/ LinkRecord(p)
  PROVE  JobsOK'
<1>1. Fit(pc[p], job[p])
  BY DEF JobsOK
<1>2. CASE IsRegistered(p)
  <2>1. pc[p] = "registered" /\ (AfterRecord(p) \/ Goto(p, "record", job[p]))
    BY <1>2 DEF IsRegistered
  <2>2. Fit("record", job[p])
    BY <1>1, <2>1 DEF Fit, Steps, Sends, Reads, Moves, Merges
  <2> QED BY <2>1, <2>2, AfterFits, GoesOn
<1>3. CASE LinkRecord(p)
  <2>1. pc[p] = "record" /\ (AfterRecord(p) \/ Finish(p))
    BY <1>3 DEF LinkRecord
  <2> QED BY <2>1, AfterFits, Ends
<1> QED BY <1>2, <1>3

\* A row is looked for in cur/ and in new/, and then moved where it was found.
LEMMA FoundFits ==
  ASSUME MailAssumption, JobsOK, NEW p \in Proc, NEW j, NEW d \in {"cur", "new"},
         j \in Job, IsFiniteSet(j.list), j.box \in Box, j.name \in Name,
         j.cmd \in {"archive", "reclaim"}, Found(p, j, d)
  PROVE  JobsOK'
<1> DEFINE k == [j EXCEPT !.dir = d, !.to = j.box]
<1>1. Goto(p, IF j.cmd = "archive" THEN "move" ELSE "dest", k)
  BY DEF Found
<1>2. /\ k \in Job /\ k.list = j.list /\ k.cmd = j.cmd /\ k.box = j.box /\ k.name = j.name
      /\ k.to = j.box /\ k.dir = d
  BY DEF Job, Opt, Dirs
<1> HIDE DEF k
<1>3. j.cmd = "archive" => Fit("move", k)
  BY <1>2 DEF Fit, Steps, Sends, Reads, Moves, Merges, Kept
<1>4. j.cmd # "archive" => Fit("dest", k)
  BY <1>2 DEF Fit, Steps, Sends, Reads, Moves, Merges, Kept
<1> QED BY <1>1, <1>3, <1>4, GoesOn

LEMMA LookingFits ==
  ASSUME MailAssumption, JobsOK, NEW p \in Proc, NEW j,
         j \in Job, IsFiniteSet(j.list), j.box \in Box, j.name \in Name,
         j.cmd \in {"archive", "reclaim"}, LookInCur(p, j)
  PROVE  JobsOK'
<1>1. ASSUME Goto(p, "statnew", j)
      PROVE  JobsOK'
  <2>1. Fit("statnew", j)
    BY DEF Fit, Steps, Sends, Reads, Moves, Merges
  <2> QED BY <1>1, <2>1, GoesOn
<1> QED BY <1>1, FoundFits DEF LookInCur

LEMMA ReadingFits ==
  ASSUME MailAssumption, DiskOK, JobsOK, NEW p \in Proc,
         ReadNew(p) \/ MarkRead(p) \/ StatCur(p) \/ StatNew(p)
  PROVE  JobsOK'
<1>1. Fit(pc[p], job[p])
  BY DEF JobsOK
<1>2. CASE ReadNew(p)
  <2>1. pc[p] = "new" /\ (Finish(p) \/ Goto(p, "mark", job[p]))
    BY <1>2 DEF ReadNew
  <2>2. Fit("mark", job[p])
    BY <1>1, <2>1 DEF Fit, Steps, Sends, Reads, Moves, Merges
  <2> QED BY <2>1, <2>2, Ends, GoesOn
<1>3. CASE MarkRead(p)
  BY <1>3, Ends DEF MarkRead
<1>4. CASE StatCur(p)
  <2>1. pc[p] = "statcur" /\ LookInCur(p, job[p])
    BY <1>4 DEF StatCur
  <2>2. /\ job[p] \in Job /\ IsFiniteSet(job[p].list) /\ job[p].box \in Box
        /\ job[p].name \in Name /\ job[p].cmd \in {"archive", "reclaim"}
    BY <1>1, <2>1 DEF Fit, Reads
  <2> QED BY <2>1, <2>2, LookingFits
<1>5. CASE StatNew(p)
  <2>1. /\ pc[p] = "statnew"
        /\ \/ Found(p, job[p], "new")
           \/ Finish(p)
           \/ job[p].cmd # "archive" /\ Goto(p, "take", [job[p] EXCEPT !.name = None])
    BY <1>5 DEF StatNew
  <2>2. /\ job[p] \in Job /\ IsFiniteSet(job[p].list) /\ job[p].box \in Box
        /\ job[p].name \in Name /\ job[p].cmd \in {"archive", "reclaim"}
    BY <1>1, <2>1 DEF Fit, Reads
  <2>3. ASSUME job[p].cmd # "archive", Goto(p, "take", [job[p] EXCEPT !.name = None])
        PROVE  JobsOK'
    <3> DEFINE j == [job[p] EXCEPT !.name = None]
    <3>1. j \in Job /\ j.list = job[p].list /\ j.cmd = "reclaim" /\ j.box = job[p].box
      BY <2>2, <2>3 DEF Job, Opt
    <3> HIDE DEF j
    <3>2. Fit("take", j)
      BY <2>2, <3>1 DEF Fit, Steps, Sends, Reads, Moves, Merges
    <3> QED BY <2>3, <3>2, GoesOn DEF j
  <2> QED BY <2>1, <2>2, <2>3, FoundFits, Ends
<1> QED BY <1>2, <1>3, <1>4, <1>5

\* What a directory shows is finite.
LEMMA RowsFinite ==
  ASSUME DiskOK, NEW b \in Box, NEW d \in Dirs
  PROVE  Rows(b, d) \in SUBSET Row /\ IsFiniteSet(Rows(b, d))
<1>1. Rows(b, d) \in SUBSET Row
  BY DEF Rows, At, Row, DiskOK, File
<1>2. IsFiniteSet(At(b, d))
  BY FS_Subset DEF At, DiskOK
<1>3. IsFiniteSet({[name |-> f.name, msg |-> f.msg, dir |-> d] : f \in At(b, d)})
  <2> DEFINE T == {[name |-> f.name, msg |-> f.msg, dir |-> d] : f \in At(b, d)}
             show == [f \in At(b, d) |-> [name |-> f.name, msg |-> f.msg, dir |-> d]]
  <2>1. show \in Surjection(At(b, d), T)
    BY DEF Surjection
  <2> HIDE DEF T, show
  <2> QED BY <1>2, <2>1, FS_Surjection DEF T
<1> QED BY <1>1, <1>3 DEF Rows

LEMMA ListingFits ==
  ASSUME MailAssumption, DiskOK, JobsOK, NEW p \in Proc,
         ListNew(p) \/ ListCur(p) \/ Listed(p) \/ Take(p) \/ ReclaimEnd(p)
  PROVE  JobsOK'
<1>1. Fit(pc[p], job[p])
  BY DEF JobsOK
<1>2. CASE ListNew(p)
  <2> DEFINE rows == Rows(job[p].box, "new")
             was == Active(job[p].box)
             j == [job[p] EXCEPT !.list = rows, !.was = was]
  <2>1. pc[p] = "listnew" /\ Goto(p, "listcur", j)
    BY <1>2 DEF ListNew, ListOrder
  <2>2. job[p] \in Job /\ job[p].box \in Box /\ job[p].cmd \in {"list", "reclaim"}
    BY <1>1, <2>1 DEF Fit, Reads
  <2>3. rows \in SUBSET Row /\ IsFiniteSet(rows)
    BY <2>2, RowsFinite DEF Dirs
  <2>4. was \in SUBSET Msg
    BY DEF Active, At, DiskOK, File
  <2> HIDE DEF rows, was
  <2>5. j \in Job /\ j.list = rows /\ j.cmd = job[p].cmd /\ j.box = job[p].box
    BY <2>2, <2>3, <2>4 DEF Job
  <2> HIDE DEF j
  <2>6. Fit("listcur", j)
    BY <2>2, <2>3, <2>5 DEF Fit, Steps, Sends, Reads, Moves, Merges
  <2> QED BY <2>1, <2>6, GoesOn
<1>3. CASE ListCur(p)
  <2> DEFINE rows == job[p].list \cup Rows(job[p].box, "cur")
             todo == Superseded(rows)
             j == [job[p] EXCEPT !.list = rows]
             k == [job[p] EXCEPT !.list = rows, !.todo = todo, !.was = {}]
  <2>1. /\ pc[p] = "listcur"
        /\ \/ job[p].cmd = "list" /\ Goto(p, "listed", j)
           \/ job[p].cmd # "list" /\ Goto(p, "take", k)
    BY <1>3 DEF ListCur, ListOrder
  <2>2. /\ job[p] \in Job /\ job[p].box \in Box /\ job[p].cmd \in {"list", "reclaim"}
        /\ job[p].list \in SUBSET Row /\ IsFiniteSet(job[p].list)
    BY <1>1, <2>1 DEF Fit, Reads, Job
  <2>3. rows \in SUBSET Row /\ IsFiniteSet(rows)
    BY <2>2, RowsFinite, FS_Union DEF Dirs
  <2>4. todo \in SUBSET Row
    BY <2>3 DEF Superseded
  <2> HIDE DEF rows, todo
  <2>5. /\ j \in Job /\ j.list = rows /\ j.cmd = job[p].cmd /\ j.box = job[p].box
        /\ k \in Job /\ k.list = rows /\ k.cmd = job[p].cmd /\ k.box = job[p].box
    BY <2>2, <2>3, <2>4 DEF Job
  <2> HIDE DEF j, k
  <2>6. job[p].cmd = "list" => Fit("listed", j)
    BY <2>2, <2>3, <2>5 DEF Fit, Steps, Sends, Reads, Moves, Merges
  <2>7. job[p].cmd # "list" => Fit("take", k)
    BY <2>2, <2>3, <2>5 DEF Fit, Steps, Sends, Reads, Moves, Merges
  <2> QED BY <2>1, <2>6, <2>7, GoesOn
<1>4. CASE Listed(p)
  BY <1>4, Ends DEF Listed
<1>5. CASE Take(p)
  <2>1. PICK e \in job[p].todo : LookInCur(p, [job[p] EXCEPT !.name = e.name, !.todo = @ \ {e}])
    BY <1>5 DEF Take
  <2> DEFINE j == [job[p] EXCEPT !.name = e.name, !.todo = @ \ {e}]
  <2>2. pc[p] = "take" /\ job[p].cmd = "reclaim" /\ job[p] \in Job /\ e \in Row
    BY <1>1, <1>5 DEF Take, Fit, Job
  <2>3. /\ j \in Job /\ j.list = job[p].list /\ j.box = job[p].box /\ j.name = e.name
        /\ j.cmd = "reclaim" /\ e.name \in Name
    BY <2>2 DEF Job, Opt, Row
  <2> HIDE DEF j
  <2>4. IsFiniteSet(job[p].list) /\ job[p].box \in Box
    BY <1>1, <2>2 DEF Fit
  <2>5. LookInCur(p, j)
    BY <2>1 DEF j
  <2> QED BY <2>3, <2>4, <2>5, LookingFits
<1>6. CASE ReclaimEnd(p)
  BY <1>6, Ends DEF ReclaimEnd
<1> QED BY <1>2, <1>3, <1>4, <1>5, <1>6

\* The name a file gets is free, and its own but for the suffix.
LEMMA DestinationFits ==
  ASSUME MailAssumption, JobsOK, NEW p \in Proc, NEW n \in Name, NEW j,
         j \in Job, IsFiniteSet(j.list), j.box \in Box, j.to \in Box, j.dir \in Kept,
         \/ j.cmd = "reclaim" /\ j.to = j.box /\ j.dir \in {"new", "cur"}
         \/ j.cmd = "migrate" /\ j.to = Canonical[j.box] /\ j.to # j.box,
         DestFor(p, n, j)
  PROVE  JobsOK'
<1>1. PICK k \in Suffixes(j.to, ToDir(p), n) : Goto(p, "move", [j EXCEPT !.name = n, !.id = k])
  BY DEF DestFor
<1>2. k \in 0 .. MaxDup /\ k \in Nat
  BY <1>1, SpellingsBox DEF Suffixes, Name
<1> DEFINE i == [j EXCEPT !.name = n, !.id = k]
<1>3. /\ i \in Job /\ i.list = j.list /\ i.box = j.box /\ i.name = n /\ i.id = k
      /\ i.cmd = j.cmd /\ i.to = j.to /\ i.dir = j.dir /\ i.todo = j.todo
  BY <1>2 DEF Job, Opt
<1> HIDE DEF i
<1>4. Fit("move", i)
  BY <1>2, <1>3 DEF Fit, Steps, Sends, Reads, Moves, Merges, Kept
<1> QED BY <1>1, <1>4, GoesOn DEF i

LEMMA MovingFits ==
  ASSUME MailAssumption, DiskOK, JobsOK, NEW p \in Proc,
         Dest(p) \/ Move(p) \/ MergeDir(p) \/ MergeOne(p) \/ Carry(p) \/ RemoveAll(p)
  PROVE  JobsOK'
<1>1. Fit(pc[p], job[p])
  BY DEF JobsOK
<1>2. CASE Dest(p)
  <2>1. pc[p] = "dest" /\ DestFor(p, job[p].name, job[p])
    BY <1>2 DEF Dest
  <2>2. /\ job[p] \in Job /\ IsFiniteSet(job[p].list) /\ job[p].box \in Box /\ job[p].name \in Name
        /\ job[p].cmd = "reclaim" /\ job[p].to = job[p].box /\ job[p].dir \in {"new", "cur"}
    BY <1>1, <2>1 DEF Fit, Reads, Moves
  <2> QED BY <2>1, <2>2, DestinationFits DEF Kept
<1>3. CASE Move(p)
  <2>1. /\ pc[p] = "move"
        /\ \/ Finish(p)
           \/ job[p].cmd # "archive" /\ Goto(p, "take", [job[p] EXCEPT !.name = None, !.id = None])
    BY <1>3 DEF Move
  <2>2. ASSUME job[p].cmd # "archive",
               Goto(p, "take", [job[p] EXCEPT !.name = None, !.id = None])
        PROVE  JobsOK'
    <3> DEFINE j == [job[p] EXCEPT !.name = None, !.id = None]
    <3>1. job[p] \in Job /\ job[p].cmd \in {"reclaim", "migrate"}
      BY <1>1, <2>1, <2>2 DEF Fit, Moves
    <3>2. /\ j \in Job /\ j.list = job[p].list /\ j.cmd = job[p].cmd /\ j.box = job[p].box
          /\ j.to = job[p].to /\ j.dir = job[p].dir /\ j.todo = job[p].todo
      BY <3>1 DEF Job, Opt
    <3> HIDE DEF j
    <3>3. Fit("take", j)
      BY <1>1, <2>1, <3>1, <3>2 DEF Fit, Steps, Sends, Reads, Moves, Merges
    <3> QED BY <2>2, <3>3, GoesOn DEF j
  <2> QED BY <2>1, <2>2, Ends
<1>4. CASE MergeDir(p)
  <2> DEFINE d == NextDir[job[p].dir]
             rows == Rows(job[p].box, d)
             j == [job[p] EXCEPT !.dir = d, !.todo = rows]
  <2>1. /\ pc[p] = "take" /\ job[p].cmd = "migrate" /\ job[p].dir # "archive"
        /\ Goto(p, "take", j)
    BY <1>4 DEF MergeDir
  <2>2. /\ job[p] \in Job /\ job[p].box \in Box /\ job[p].dir \in Kept \cup {"none"}
        /\ IsFiniteSet(job[p].list)
    BY <1>1, <2>1 DEF Fit, Merges
  <2>3. d \in Kept
    BY <2>1, <2>2 DEF NextDir, Kept
  <2>4. rows \in SUBSET Row
    BY <2>2, <2>3, RowsFinite DEF Kept, Dirs
  <2> HIDE DEF d, rows
  <2>5. /\ j \in Job /\ j.list = job[p].list /\ j.cmd = "migrate" /\ j.box = job[p].box
        /\ j.to = job[p].to /\ j.dir = d
    BY <2>1, <2>2, <2>3, <2>4 DEF Job, Opt, Kept, Dirs
  <2> HIDE DEF j
  <2>6. Fit("take", j)
    BY <1>1, <2>1, <2>2, <2>3, <2>5 DEF Fit, Steps, Sends, Reads, Moves, Merges, Kept
  <2> QED BY <2>1, <2>6, GoesOn
<1>5. CASE MergeOne(p)
  <2>1. PICK e \in job[p].todo : DestFor(p, e.name, [job[p] EXCEPT !.todo = @ \ {e}])
    BY <1>5 DEF MergeOne
  <2> DEFINE j == [job[p] EXCEPT !.todo = @ \ {e}]
  <2>2. /\ pc[p] = "take" /\ job[p].cmd = "migrate" /\ job[p] \in Job /\ e \in Row
        /\ job[p].dir \in Kept \cup {"none"} /\ (job[p].dir = "none" => job[p].todo = {})
        /\ job[p].box \in Box /\ job[p].to \in Box /\ IsFiniteSet(job[p].list)
        /\ job[p].to = Canonical[job[p].box] /\ job[p].to # job[p].box
    BY <1>1, <1>5 DEF MergeOne, Fit, Job, Merges
  <2>3. /\ j \in Job /\ j.list = job[p].list /\ j.box = job[p].box /\ j.to = job[p].to
        /\ j.cmd = "migrate" /\ j.dir = job[p].dir /\ e.name \in Name
    BY <2>2 DEF Job, Row
  <2>4. j.dir \in Kept
    BY <2>1, <2>2, <2>3
  <2> HIDE DEF j
  <2>5. DestFor(p, e.name, j)
    BY <2>1 DEF j
  <2> QED BY <2>2, <2>3, <2>4, <2>5, DestinationFits
<1>6. CASE Carry(p)
  <2>1. /\ pc[p] = "take" /\ job[p].cmd = "migrate" /\ job[p].todo = {} /\ job[p].dir = "archive"
        /\ Goto(p, "registered", job[p]) \/ Goto(p, "removeall", job[p])
    BY <1>6 DEF Carry
  <2>2. Fit("registered", job[p]) /\ Fit("removeall", job[p])
    BY <1>1, <2>1 DEF Fit, Steps, Sends, Reads, Moves, Merges
  <2> QED BY <2>1, <2>2, GoesOn
<1>7. CASE RemoveAll(p)
  BY <1>7, Ends DEF RemoveAll
<1> QED BY <1>2, <1>3, <1>4, <1>5, <1>6, <1>7
-----------------------------------------------------------------------------
(***************************************************************************)
(* The directories and the files in them.                                  *)
(***************************************************************************)
LEMMA JobsKept ==
  ASSUME MailAssumption, DiskOK, JobsOK, [Next]_vars
  PROVE  JobsOK'
<1>1. CASE UNCHANGED vars
  BY <1>1, Zenon DEF vars, JobsOK
<1>2. ASSUME NEW p \in Proc, Begin(p) \/ Step(p) \/ Crash(p)
      PROVE  JobsOK'
  <2>1. CASE Crash(p)
    BY <2>1, Ends DEF Crash
  <2> QED BY <1>2, <2>1, BeginFits, SendingFits, RecordFits, ReadingFits, ListingFits,
             MovingFits DEF Step
<1> QED BY <1>1, <1>2 DEF Next

\* A directory has one file of a name.
LEMMA EntryIsOne ==
  ASSUME DiskOK, NEW b, NEW d, NEW n, NEW f \in Entry(b, d, n)
  PROVE  Entry(b, d, n) = {f} /\ f \in files /\ f \in File /\ f.box = b /\ f.dir = d /\ f.name = n
BY DEF DiskOK, Entry, At

LEMMA FileAdded ==
  ASSUME DiskOK, NEW b \in Box, NEW d \in Dirs, NEW n \in Name, NEW m \in Msg,
         Entry(b, d, n) = {},
         files' = files \cup {[box |-> b, dir |-> d, name |-> n, msg |-> m]}
  PROVE  /\ files' \subseteq File /\ IsFiniteSet(files')
         /\ \A f, g \in files' : f.box = g.box /\ f.dir = g.dir /\ f.name = g.name => f = g
<1> DEFINE new == [box |-> b, dir |-> d, name |-> n, msg |-> m]
<1>1. new \in File /\ new.box = b /\ new.dir = d /\ new.name = n
  BY DEF File
<1>2. \A f \in files : ~(f.box = b /\ f.dir = d /\ f.name = n)
  BY DEF Entry, At
<1> HIDE DEF new
<1>3. files' = files \cup {new}
  BY DEF new
<1>4. files \subseteq File /\ IsFiniteSet(files)
      /\ \A f, g \in files : f.box = g.box /\ f.dir = g.dir /\ f.name = g.name => f = g
  BY DEF DiskOK
<1>5. IsFiniteSet(files')
  BY <1>3, <1>4, FS_AddElement
<1> QED BY <1>1, <1>2, <1>3, <1>4, <1>5

LEMMA FileMoved ==
  ASSUME DiskOK, NEW f \in files, NEW b \in Box, NEW d \in Dirs, NEW n \in Name, Moved(f, b, d, n)
  PROVE  /\ files' \subseteq File /\ IsFiniteSet(files')
         /\ \A g, h \in files' : g.box = h.box /\ g.dir = h.dir /\ g.name = h.name => g = h
<1> DEFINE new == [box |-> b, dir |-> d, name |-> n, msg |-> f.msg]
           old == files \ ({f} \cup Entry(b, d, n))
<1>1. new \in File /\ new.box = b /\ new.dir = d /\ new.name = n
  BY DEF DiskOK, File
<1>2. \A g \in old : g \in files /\ ~(g.box = b /\ g.dir = d /\ g.name = n)
  BY DEF Entry, At
<1>3. files' = old \cup {new}
  BY DEF Moved
<1>4. old \subseteq File /\ IsFiniteSet(old)
      /\ \A g, h \in files : g.box = h.box /\ g.dir = h.dir /\ g.name = h.name => g = h
  <2>1. old \subseteq files /\ IsFiniteSet(files)
    BY DEF DiskOK
  <2> HIDE DEF old
  <2>2. IsFiniteSet(old)
    BY <2>1, FS_Subset
  <2> QED BY <2>1, <2>2 DEF DiskOK
<1> HIDE DEF new, old
<1>5. IsFiniteSet(files')
  BY <1>3, <1>4, FS_AddElement
<1> QED BY <1>1, <1>2, <1>3, <1>4, <1>5

LEMMA FilesRemoved ==
  ASSUME DiskOK, files' \subseteq files
  PROVE  /\ files' \subseteq File /\ IsFiniteSet(files')
         /\ \A f, g \in files' : f.box = g.box /\ f.dir = g.dir /\ f.name = g.name => f = g
BY FS_Subset DEF DiskOK

\* A message leaves tmp/ under the name it has there.
LEMMA LinkIsOne ==
  ASSUME DiskOK, JobsOK, NEW p \in Proc, Tmp(p) # {}
  PROVE  \E f \in files :
           /\ Tmp(p) = {f} /\ f.box = job[p].box /\ f.dir = "tmp" /\ f.name = Plain(job[p].id)
           /\ f \in File
           /\ {[g EXCEPT !.dir = "new"] : g \in Tmp(p)} =
                {[box |-> job[p].box, dir |-> "new", name |-> Plain(job[p].id), msg |-> f.msg]}
<1>1. PICK f \in Tmp(p) : TRUE
  OBVIOUS
<1>2. /\ Tmp(p) = {f} /\ f \in files /\ f \in File /\ f.box = job[p].box /\ f.dir = "tmp"
      /\ f.name = Plain(job[p].id)
  BY <1>1, EntryIsOne DEF Tmp
<1>3. [f EXCEPT !.dir = "new"] =
        [box |-> job[p].box, dir |-> "new", name |-> Plain(job[p].id), msg |-> f.msg]
  BY <1>2 DEF File
<1>4. {[g EXCEPT !.dir = "new"] : g \in Tmp(p)} = {[f EXCEPT !.dir = "new"]}
  BY <1>2, Zenon
<1> QED BY <1>2, <1>3, <1>4

LEMMA PlainName ==
  ASSUME MailAssumption, NEW i \in Ids
  PROVE  Plain(i) \in Name
BY SpellingsBox DEF Plain, Name

\* A link is refused, or delivers the message.
Refuses(p) ==
    /\ files' = files \ Tmp(p) /\ UNCHANGED <<sent, late>>
    /\ Finish(p) \/ Collide(p)
Delivers(p) ==
    /\ Tmp(p) # {} /\ Entry(job[p].box, "new", Plain(job[p].id)) = {}
    /\ files' = files \cup {[f EXCEPT !.dir = "new"] : f \in Tmp(p)}
    /\ sent' = [sent EXCEPT ![job[p].msg] = job[p].id]
    /\ late' = IF Merging(job[p].box) THEN late \cup {job[p].msg} ELSE late
    /\ Goto(p, "unlink", job[p])

LEMMA LinkCases ==
  ASSUME NEW p \in Proc, Link(p)
  PROVE  /\ pc[p] = "link" /\ taken' = taken \cup Others(p)
         /\ UNCHANGED <<dirs, record, crashes, begun>>
         /\ Refuses(p) \/ Delivers(p)
BY Zenon DEF Link, Refuses, Delivers

LEMMA DiskKept ==
  ASSUME MailAssumption, DiskOK, JobsOK, [Next]_vars
  PROVE  DiskOK'
<1>1. CASE UNCHANGED vars
  BY <1>1, Zenon DEF vars, DiskOK
<1>2. ASSUME NEW p \in Proc, Begin(p)
      PROVE  DiskOK'
  <2>1. begun < MaxCommands /\ begun' = begun + 1 /\ UNCHANGED OnDisk
    BY <1>2 DEF Begin, Send, Reply, Register, Read, Archive, Address, List, Reclaim, Migrate, Begun
  <2>2. begun \in 0 .. MaxCommands /\ MaxCommands \in Nat
    BY DEF DiskOK, MailAssumption
  <2>3. begun' \in 0 .. MaxCommands
    BY <2>1, <2>2
  <2>4. UNCHANGED <<dirs, files, record, sent, late, taken, crashes>>
    BY <2>1 DEF OnDisk
  <2> QED BY <2>3, <2>4, Zenon DEF DiskOK
<1>3. ASSUME UNCHANGED <<OnDisk, begun>>
      PROVE  DiskOK'
  <2>1. UNCHANGED <<dirs, files, record, sent, late, taken, crashes, begun>>
    BY <1>3 DEF OnDisk
  <2> QED BY <2>1, Zenon DEF DiskOK
<1>4. ASSUME dirs' \subseteq Box \X Dirs,
             UNCHANGED <<files, record, sent, late, taken, crashes, begun>>
      PROVE  DiskOK'
  BY <1>4, Zenon DEF DiskOK
<1>5. ASSUME dirs' \subseteq Box \X Dirs, record' \in [Box -> Opt(Proc)],
             sent' \in [Msg -> Opt(Ids)], late' \cup taken' \subseteq Msg,
             UNCHANGED <<crashes, begun>>,
             files' \subseteq File /\ IsFiniteSet(files'),
             \A f, g \in files' : f.box = g.box /\ f.dir = g.dir /\ f.name = g.name => f = g
      PROVE  DiskOK'
  BY <1>5, Zenon DEF DiskOK
<1>6. /\ dirs \subseteq Box \X Dirs /\ record \in [Box -> Opt(Proc)]
      /\ sent \in [Msg -> Opt(Ids)] /\ late \subseteq Msg /\ taken \subseteq Msg
      /\ files \subseteq File /\ IsFiniteSet(files)
      /\ \A f, g \in files : f.box = g.box /\ f.dir = g.dir /\ f.name = g.name => f = g
  BY DEF DiskOK
<1>7. \A b \in Box : Maildir(b) \subseteq Box \X Dirs
  BY DEF Maildir, Dirs
<1> SUFFICES ASSUME NEW p \in Proc, Step(p) \/ Crash(p)
             PROVE  DiskOK'
  BY <1>1, <1>2 DEF Next
<1> HIDE DEF DiskOK
<1>8. Fit(pc[p], job[p])
  BY DEF JobsOK
<1>9. CASE Ensure(p)
  <2>1. job[p].box \in Box
    BY <1>8, <1>9 DEF Ensure, Fit
  <2> QED BY <1>4, <1>6, <1>7, <1>9, <2>1 DEF Ensure
<1>10. CASE OpenTmp(p)
  <2>1. job[p].box \in Box /\ job[p].msg \in Msg
    BY <1>8, <1>10 DEF OpenTmp, Fit, Sends
  <2>2. PICK id \in Ids :
          \/ files' = files
          \/ /\ Entry(job[p].box, "tmp", Plain(id)) = {}
             /\ files' = files \cup {[box |-> job[p].box, dir |-> "tmp", name |-> Plain(id),
                                      msg |-> job[p].msg]}
    BY <1>10, Zenon DEF OpenTmp
  <2>3. UNCHANGED <<dirs, record, sent, late, taken, crashes, begun>>
    BY <1>10 DEF OpenTmp, Elsewhere
  <2>4. Plain(id) \in Name /\ "tmp" \in Dirs
    BY PlainName DEF Dirs
  <2>5. CASE files' = files
    BY <1>3, <2>3, <2>5 DEF OnDisk
  <2>6. CASE files' # files
    <3>1. /\ files' \subseteq File /\ IsFiniteSet(files')
          /\ \A f, g \in files' : f.box = g.box /\ f.dir = g.dir /\ f.name = g.name => f = g
      BY <2>1, <2>2, <2>4, <2>6, FileAdded
    <3> QED BY <1>5, <1>6, <2>3, <3>1
  <2> QED BY <2>5, <2>6
<1>11. ASSUME late' \cup taken' \subseteq Msg, sent' \in [Msg -> Opt(Ids)],
              UNCHANGED <<dirs, record, crashes, begun>>, files' \subseteq files
       PROVE  DiskOK'
  BY <1>5, <1>6, <1>11, FilesRemoved
<1>12. Others(p) \subseteq Msg
  BY <1>6 DEF Others, Tmp, Entry, At, File
<1>13. CASE Link(p)
  <2>1. /\ job[p].box \in Box /\ job[p].msg \in Msg /\ job[p].id \in Ids
    BY <1>8, <1>13 DEF Link, Fit, Sends
  <2>2. late' \subseteq late \cup {job[p].msg} /\ sent' \in {sent, [sent EXCEPT ![job[p].msg] = job[p].id]}
        /\ taken' = taken \cup Others(p) /\ UNCHANGED <<dirs, record, crashes, begun>>
    BY <1>13, LinkCases DEF Refuses, Delivers
  <2>3. sent' \in [Msg -> Opt(Ids)]
    BY <1>6, <2>1, <2>2 DEF Opt
  <2>4. late' \cup taken' \subseteq Msg
    BY <1>6, <1>12, <2>1, <2>2
  <2>5. CASE Refuses(p)
    <3>1. files' = files \ Tmp(p)
      BY <2>5 DEF Refuses
    <3>2. files' \subseteq files
      BY <3>1, Zenon
    <3> QED BY <1>11, <2>2, <2>3, <2>4, <3>2
  <2>6. CASE Delivers(p)
    <3>1. Tmp(p) # {} /\ Entry(job[p].box, "new", Plain(job[p].id)) = {}
          /\ files' = files \cup {[f EXCEPT !.dir = "new"] : f \in Tmp(p)}
      BY <2>6, Zenon DEF Delivers
    <3>2. PICK f \in files :
            /\ f \in File
            /\ {[g EXCEPT !.dir = "new"] : g \in Tmp(p)} =
                {[box |-> job[p].box, dir |-> "new", name |-> Plain(job[p].id), msg |-> f.msg]}
      BY <3>1, LinkIsOne
    <3>3. files' = files \cup {[box |-> job[p].box, dir |-> "new", name |-> Plain(job[p].id),
                                msg |-> f.msg]}
      BY <3>1, <3>2
    <3>4. f.msg \in Msg /\ "new" \in Dirs /\ Plain(job[p].id) \in Name
      BY <2>1, <3>2, PlainName DEF File, Dirs
    <3>5. /\ files' \subseteq File /\ IsFiniteSet(files')
          /\ \A g, h \in files' : g.box = h.box /\ g.dir = h.dir /\ g.name = h.name => g = h
      BY <2>1, <3>1, <3>3, <3>4, FileAdded
    <3> QED BY <1>5, <1>6, <2>2, <2>3, <2>4, <3>5
  <2> QED BY <1>13, <2>5, <2>6, LinkCases
<1>14. CASE RemoveTmp(p)
  <2>1. /\ files' \subseteq files /\ taken' = taken \cup Others(p)
        /\ UNCHANGED <<dirs, record, sent, late, crashes, begun>>
    <3>1. files' = files \ Tmp(p) /\ taken' = taken \cup Others(p)
          /\ UNCHANGED <<dirs, record, sent, late, crashes, begun>>
      BY <1>14, Zenon DEF RemoveTmp
    <3>2. files' \subseteq files
      BY <3>1, Zenon
    <3> QED BY <3>1, <3>2
  <2>2. late' \cup taken' \subseteq Msg /\ sent' \in [Msg -> Opt(Ids)]
    BY <1>6, <1>12, <2>1
  <2> QED BY <1>11, <2>1, <2>2
<1>15. CASE IsRegistered(p)
  <2>1. Named(p) \in Box
    BY <1>8, <1>15 DEF IsRegistered, Fit, Named, Merges
  <2> QED BY <1>4, <1>6, <1>7, <1>15, <2>1 DEF IsRegistered
<1>16. CASE LinkRecord(p)
  <2>1. record' \in {record, [record EXCEPT ![Named(p)] = p]}
        /\ UNCHANGED <<dirs, files, sent, late, taken, crashes, begun>>
    BY <1>16 DEF LinkRecord
  <2>2. record' \in [Box -> Opt(Proc)]
    BY <1>6, <2>1 DEF Opt
  <2> QED BY <1>5, <1>6, <2>1, <2>2
<1>17. ASSUME NEW f \in files, NEW b \in Box, NEW d \in Dirs, NEW n \in Name, Moved(f, b, d, n),
              dirs' \subseteq Box \X Dirs, late' \subseteq late \cup {f.msg},
              UNCHANGED <<record, sent, taken, crashes, begun>>
       PROVE  DiskOK'
  <2>1. /\ files' \subseteq File /\ IsFiniteSet(files')
        /\ \A g, h \in files' : g.box = h.box /\ g.dir = h.dir /\ g.name = h.name => g = h
    BY <1>17, FileMoved
  <2>2. f.msg \in Msg
    BY <1>6 DEF File
  <2>3. late' \cup taken' \subseteq Msg
    BY <1>6, <1>17, <2>2
  <2> QED BY <1>5, <1>6, <1>17, <2>1, <2>3
<1>18. CASE MarkRead(p)
  <2>1. job[p].box \in Box /\ "cur" \in Dirs
    BY <1>8, <1>18 DEF MarkRead, Fit, Dirs
  <2>2. dirs' = dirs \cup {<<job[p].box, "cur">>}
        /\ UNCHANGED <<record, sent, late, taken, crashes, begun>>
    BY <1>18 DEF MarkRead
  <2>3. dirs' \subseteq Box \X Dirs
    BY <1>6, <2>1, <2>2
  <2>4. CASE UNCHANGED files
    BY <1>4, <2>2, <2>3, <2>4
  <2>5. ASSUME NEW f \in Here(p, "new"), Moved(f, job[p].box, "cur", f.name)
        PROVE  DiskOK'
    <3>1. f \in files /\ f.name \in Name
      BY <1>6 DEF Here, Entry, At, File
    <3> QED BY <1>17, <2>1, <2>2, <2>3, <2>5, <3>1
  <2> QED BY <1>18, <2>4, <2>5 DEF MarkRead
<1>19. CASE Move(p)
  <2>1. ToDir(p) \in Dirs /\ job[p].to \in Box /\ job[p].name \in Name
        /\ (job[p].cmd # "archive" => job[p].id \in 0 .. MaxDup)
    BY <1>8, <1>19 DEF Move, Fit, Moves, Reads, Merges, ToDir, Kept, Dirs
  <2> DEFINE n == IF job[p].cmd = "archive" THEN job[p].name
                  ELSE [job[p].name EXCEPT !.dup = job[p].id]
  <2>2. n \in Name
    BY <2>1 DEF Name
  <2> HIDE DEF n
  <2>3. UNCHANGED <<record, sent, taken, crashes, begun>>
    BY <1>19 DEF Move
  <2>4. \/ UNCHANGED <<dirs, files, late>>
        \/ /\ dirs' = dirs \cup {<<job[p].to, ToDir(p)>>}
           /\ \E f \in Here(p, job[p].dir) : /\ Moved(f, job[p].to, ToDir(p), n)
                                             /\ late' \subseteq late \cup {f.msg}
    BY <1>19 DEF Move, n
  <2>5. CASE UNCHANGED <<dirs, files, late>>
    BY <1>3, <2>3, <2>5 DEF OnDisk
  <2>6. ASSUME dirs' = dirs \cup {<<job[p].to, ToDir(p)>>},
               NEW f \in Here(p, job[p].dir), Moved(f, job[p].to, ToDir(p), n),
               late' \subseteq late \cup {f.msg}
        PROVE  DiskOK'
    <3>1. f \in files
      BY DEF Here, Entry, At
    <3>2. dirs' \subseteq Box \X Dirs
      BY <1>6, <2>1, <2>6
    <3> QED BY <1>17, <2>1, <2>2, <2>3, <2>6, <3>1, <3>2
  <2> QED BY <2>4, <2>5, <2>6
<1>20. ASSUME NEW n \in Name, NEW j, j.to \in Box, ToDir(p) \in Dirs, DestFor(p, n, j)
       PROVE  DiskOK'
  BY <1>4, <1>6, <1>20 DEF DestFor
<1>21. CASE Dest(p)
  <2>1. job[p].to \in Box /\ job[p].name \in Name /\ ToDir(p) \in Dirs
    BY <1>8, <1>21 DEF Dest, Fit, Moves, Reads, ToDir, Dirs
  <2> QED BY <1>20, <1>21, <2>1 DEF Dest
<1>22. CASE MergeOne(p)
  <2>1. PICK e \in job[p].todo : DestFor(p, e.name, [job[p] EXCEPT !.todo = @ \ {e}])
    BY <1>22 DEF MergeOne
  <2>2. job[p] \in Job /\ job[p].cmd = "migrate" /\ job[p].to \in Box
        /\ job[p].dir \in Kept \cup {"none"} /\ (job[p].dir = "none" => job[p].todo = {})
    BY <1>8, <1>22 DEF MergeOne, Fit, Merges
  <2>3. e.name \in Name /\ ToDir(p) \in Dirs
    BY <2>1, <2>2 DEF Job, Row, ToDir, Kept, Dirs
  <2>4. [job[p] EXCEPT !.todo = @ \ {e}].to \in Box
    BY <2>2 DEF Job
  <2> QED BY <1>20, <2>1, <2>3, <2>4
<1>23. CASE MergeDir(p)
  <2>1. job[p].to \in Box /\ NextDir[job[p].dir] \in Dirs
    BY <1>8, <1>23 DEF MergeDir, Fit, Merges, Kept, NextDir, Dirs
  <2>2. dirs' \subseteq Box \X Dirs
    BY <1>6, <1>23, <2>1 DEF MergeDir
  <2> QED BY <1>4, <1>23, <2>2 DEF MergeDir
<1>24. CASE RemoveAll(p)
  <2>1. /\ files' \subseteq files /\ dirs' \subseteq dirs
        /\ record' = [record EXCEPT ![job[p].box] = None]
        /\ late' \subseteq late \cup {f.msg : f \in At(job[p].box, "tmp")}
        /\ UNCHANGED <<sent, taken, crashes, begun>>
    BY <1>24 DEF RemoveAll
  <2>2. record' \in [Box -> Opt(Proc)]
    BY <1>6, <2>1 DEF Opt
  <2>3. late' \cup taken' \subseteq Msg
    BY <1>6, <2>1 DEF At, File
  <2> QED BY <1>5, <1>6, <2>1, <2>2, <2>3, FilesRemoved
<1>25. CASE Crash(p)
  <2>1. crashes < MaxCrashes /\ crashes' = crashes + 1
        /\ UNCHANGED <<dirs, files, record, sent, late, taken, begun>>
    BY <1>25 DEF Crash
  <2>2. crashes \in 0 .. MaxCrashes /\ MaxCrashes \in Nat
    BY DEF DiskOK, MailAssumption
  <2>3. crashes' \in 0 .. MaxCrashes
    BY <2>1, <2>2
  <2> QED BY <2>1, <2>3, Zenon DEF DiskOK
<1>26. CASE ReadNew(p) \/ StatCur(p) \/ StatNew(p) \/ ListNew(p) \/ ListCur(p) \/ Listed(p)
            \/ Take(p) \/ ReclaimEnd(p) \/ Carry(p)
  <2>1. UNCHANGED <<OnDisk, begun>>
    BY <1>26 DEF ReadNew, StatCur, StatNew, ListNew, ListCur, Listed, Take, ReclaimEnd, Carry
  <2> QED BY <1>3, <2>1
<1> QED BY <1>9, <1>10, <1>13, <1>14, <1>15, <1>16, <1>18, <1>19, <1>21, <1>22, <1>23, <1>24,
           <1>25, <1>26 DEF Step

LEMMA DiskStarts ==
  ASSUME MailAssumption, Init
  PROVE  DiskOK /\ JobsOK
<1>1. JobsOK
  <2>1. pc = [p \in Proc |-> "idle"] /\ job = [p \in Proc |-> Nothing]
    BY DEF Init
  <2> QED BY <2>1, Resting DEF JobsOK, Steps
<1>2. dirs \subseteq Box \X Dirs
  <2>1. Made \subseteq Box /\ dirs = UNION {Maildir(b) : b \in Made}
    BY DEF MailAssumption, Init
  <2>2. \A b \in Box : Maildir(b) \subseteq Box \X Dirs
    BY DEF Maildir, Dirs
  <2> QED BY <2>1, <2>2
<1>3. IsFiniteSet(files)
  BY FS_EmptySet DEF Init
<1>4. /\ files = {} /\ record \in [Box -> Opt(Proc)] /\ sent \in [Msg -> Opt(Ids)]
      /\ late \cup taken \subseteq Msg
      /\ crashes \in 0 .. MaxCrashes /\ begun \in 0 .. MaxCommands
  BY DEF Init, Opt, MailAssumption
<1> QED BY <1>1, <1>2, <1>3, <1>4 DEF DiskOK

\* What the jobs are made of.
LEMMA TypesFollow ==
  ASSUME DiskOK, JobsOK
  PROVE  TypeOK
<1>1. \A p \in Proc :
         /\ job[p].cmd \in Commands \cup {"none"}
         /\ job[p].box \in Opt(Box) /\ job[p].to \in Opt(Box)
         /\ job[p].name \in Opt(Name) /\ job[p].msg \in Opt(Msg)
         /\ job[p].tries \in 0 .. MaxAttempts - 1
         /\ job[p].list \subseteq Row /\ job[p].todo \subseteq Row /\ job[p].was \subseteq Msg
  BY DEF JobsOK, Job
<1>2. pc \in [Proc -> Steps]
  BY DEF JobsOK
<1> QED BY <1>1, <1>2, Zenon DEF TypeOK, DiskOK

\* Every variable keeps its type, and no directory ever has two files of one name, for any
\* mailboxes, messages and processes (mail.go, cmd/mail).
THEOREM MailTypes == ASSUME MailAssumption PROVE Spec => []TypeOK
<1> DEFINE Kind == DiskOK /\ JobsOK
<1>1. Init => Kind
  BY DiskStarts
<1>2. Kind /\ [Next]_vars => Kind'
  BY DiskKept, JobsKept
<1>3. Kind => TypeOK
  BY TypesFollow
<1> QED BY <1>1, <1>2, <1>3, PTL DEF Spec
-----------------------------------------------------------------------------
(***************************************************************************)
(* The course of a command: what a step does to the job of its process,    *)
(* and that it does nothing to the others.                                 *)
(***************************************************************************)
Out == {f \in files : f.dir # "tmp"}
Mine(p) == [box |-> job[p].box, dir |-> "tmp", name |-> Plain(job[p].id), msg |-> job[p].msg]
Quiet == UNCHANGED <<files, sent, late, taken>>

OnSending == {"ensure", "open", "link"}
OnSweep == {"take", "statnew", "dest", "move"}

SendsOn(p) ==
    /\ job'[p].msg \in {None, job[p].msg} \cup Unclaimed
    /\ pc'[p] \in OnSending =>
         \/ pc'[p] = "ensure" /\ job'[p].msg \in Unclaimed
         \/ pc[p] \in OnSending /\ job'[p].msg = job[p].msg
    /\ pc'[p] = "link" => Mine(p)' \in files'

ListsOn(p) == pc'[p] \in {"listcur", "listed"} => ListNew(p) \/ ListCur(p)

SweepsOn(p) ==
    job'[p].cmd = "reclaim" /\ pc'[p] \in OnSweep =>
      \/ job'[p].todo = Superseded(job'[p].list)
      \/ /\ job[p].cmd = "reclaim" /\ pc[p] \in OnSweep
         /\ job'[p].list = job[p].list /\ job'[p].todo \subseteq job[p].todo

\* a merge passes to the next of its directories once it has handled all it listed
MergesOn(p) ==
    job'[p].cmd = "migrate" =>
      \/ job'[p].dir = "none"
      \/ /\ job[p].cmd = "migrate" /\ job'[p].box = job[p].box
         /\ \/ Move(p)
            \/ /\ Quiet /\ pc[p] # "move" /\ job'[p].dir = job[p].dir
               /\ \A e \in job[p].todo \ job'[p].todo : pc'[p] = "move" /\ job'[p].name = e.name
            \/ /\ Quiet /\ pc[p] # "move" /\ job[p].todo = {} /\ job[p].dir # "archive"
               /\ job'[p].dir = NextDir[job[p].dir]
               /\ job'[p].todo = Rows(job[p].box, job'[p].dir)

Course(p) ==
    /\ \A q \in Proc \ {p} : pc'[q] = pc[q] /\ job'[q] = job[q]
    /\ SendsOn(p) /\ ListsOn(p) /\ SweepsOn(p) /\ MergesOn(p)

LEMMA Turns ==
  ASSUME JobsOK, NEW p \in Proc, NEW s, NEW j, Goto(p, s, j)
  PROVE  /\ pc'[p] = s /\ job'[p] = j
         /\ \A q \in Proc \ {p} : pc'[q] = pc[q] /\ job'[q] = job[q]
<1>1. /\ pc' = [pc EXCEPT ![p] = s] /\ job' = [job EXCEPT ![p] = j]
      /\ pc \in [Proc -> Steps] /\ job \in [Proc -> Job]
  BY DEF Goto, JobsOK
<1> QED BY <1>1

\* A step that neither sends, lists, sweeps nor merges.
LEMMA Elsewhere1 ==
  ASSUME JobsOK, NEW p \in Proc, NEW s, NEW j, Goto(p, s, j),
         j.msg \in {None, job[p].msg}, s \notin OnSending \cup {"listcur", "listed"},
         s \in OnSweep => j.cmd # "reclaim", j.cmd # "migrate"
  PROVE  Course(p)
<1>1. /\ pc'[p] = s /\ job'[p] = j
      /\ \A q \in Proc \ {p} : pc'[q] = pc[q] /\ job'[q] = job[q]
  BY Turns
<1> QED BY <1>1 DEF Course, SendsOn, ListsOn, SweepsOn, MergesOn, OnSending

LEMMA Resigns ==
  ASSUME JobsOK, NEW p \in Proc, Finish(p)
  PROVE  Course(p)
<1>1. Nothing.msg = None /\ Nothing.cmd = "none"
  BY DEF Nothing
<1> QED BY <1>1, Elsewhere1 DEF Finish, OnSending, OnSweep

LEMMA BeginsCourse ==
  ASSUME MailAssumption, DiskOK, JobsOK, NEW p \in Proc, Begin(p)
  PROVE  Course(p) /\ Quiet /\ (job'[p].cmd = "migrate" => job'[p].dir = "none")
<1>1. Quiet
  BY DEF Begin, Send, Reply, Register, Read, Archive, Address, List, Reclaim, Migrate, Begun,
         OnDisk, Quiet
<1>2. ASSUME NEW m \in Unclaimed, NEW j, Goto(p, "ensure", j), j.msg = m, j.cmd # "migrate"
      PROVE  Course(p) /\ (job'[p].cmd = "migrate" => job'[p].dir = "none")
  <2>1. /\ pc'[p] = "ensure" /\ job'[p] = j
        /\ \A q \in Proc \ {p} : pc'[q] = pc[q] /\ job'[q] = job[q]
    BY <1>2, Turns
  <2> QED BY <1>2, <2>1 DEF Course, SendsOn, ListsOn, SweepsOn, MergesOn, OnSweep
<1>3. CASE Send(p)
  <2>1. PICK s \in Spelling, create \in BOOLEAN, m \in Unclaimed :
          Goto(p, "ensure",
                 [Nothing EXCEPT !.cmd = "send", !.box = Canonical[s], !.msg = m,
                                 !.vouch = create /\ ~Exists(Canonical[s])])
    BY <1>3 DEF Send
  <2> DEFINE v == create /\ ~Exists(Canonical[s])
             j == [Nothing EXCEPT !.cmd = "send", !.box = Canonical[s], !.msg = m, !.vouch = v]
  <2> HIDE DEF v
  <2>2. j.msg = m /\ j.cmd = "send"
    BY DEF Nothing
  <2> HIDE DEF j
  <2>3. Goto(p, "ensure", j)
    BY <2>1 DEF j, v
  <2> QED BY <1>1, <1>2, <2>2, <2>3
<1>4. CASE Reply(p)
  <2>1. PICK o \in {f \in files : f.dir \in {"new", "cur"}}, create \in BOOLEAN,
          m \in Unclaimed :
          Goto(p, "ensure",
                 [Nothing EXCEPT !.cmd = "reply", !.box = Canonical[FromOf[o.msg]], !.msg = m,
                                 !.to = o.box, !.name = o.name,
                                 !.vouch = create /\ ~Exists(Canonical[FromOf[o.msg]])])
    BY <1>4 DEF Reply
  <2> DEFINE b == Canonical[FromOf[o.msg]]
             v == create /\ ~Exists(b)
             j == [Nothing EXCEPT !.cmd = "reply", !.box = b, !.msg = m,
                                  !.to = o.box, !.name = o.name, !.vouch = v]
  <2> HIDE DEF v, b
  <2>2. j.msg = m /\ j.cmd = "reply"
    BY DEF Nothing
  <2> HIDE DEF j
  <2>3. Goto(p, "ensure", j)
    BY <2>1 DEF j, v, b
  <2> QED BY <1>1, <1>2, <2>2, <2>3
<1>5. ASSUME NEW s, NEW j, Goto(p, s, j), j.msg = None,
             s \notin OnSending \cup OnSweep \cup {"listcur", "listed"}, j.cmd # "migrate"
      PROVE  Course(p) /\ (job'[p].cmd = "migrate" => job'[p].dir = "none")
  <2>1. Course(p)
    BY <1>5, Elsewhere1
  <2> QED BY <1>5, <2>1, Turns
<1>6. CASE Register(p)
  <2>1. PICK s \in Spelling :
          Goto(p, "registered", [Nothing EXCEPT !.cmd = "register", !.box = Canonical[s]])
    BY <1>6 DEF Register
  <2> DEFINE j == [Nothing EXCEPT !.cmd = "register", !.box = Canonical[s]]
  <2>2. j.msg = None /\ j.cmd = "register"
    BY DEF Nothing
  <2> HIDE DEF j
  <2>3. Goto(p, "registered", j)
    BY <2>1 DEF j
  <2> QED BY <1>1, <1>5, <2>2, <2>3 DEF OnSending, OnSweep
<1>7. ASSUME NEW s \in {"new", "statcur"}, NEW c \in {"read", "archive"}, Address(p, c, s)
      PROVE  Course(p) /\ (job'[p].cmd = "migrate" => job'[p].dir = "none")
  <2>1. PICK f \in files : Goto(p, s, [Nothing EXCEPT !.cmd = c, !.box = f.box, !.name = f.name])
    BY <1>7 DEF Address
  <2> DEFINE j == [Nothing EXCEPT !.cmd = c, !.box = f.box, !.name = f.name]
  <2>2. j.msg = None /\ j.cmd = c
    BY DEF Nothing
  <2> HIDE DEF j
  <2>3. Goto(p, s, j)
    BY <2>1 DEF j
  <2> QED BY <1>5, <2>2, <2>3 DEF OnSending, OnSweep
<1>8. CASE Read(p) \/ Archive(p)
  BY <1>1, <1>7, <1>8 DEF Read, Archive
<1>9. ASSUME NEW b \in Box, NEW c \in {"list", "reclaim"},
             Goto(p, "listnew", [Nothing EXCEPT !.cmd = c, !.box = b])
      PROVE  Course(p) /\ (job'[p].cmd = "migrate" => job'[p].dir = "none")
  <2> DEFINE j == [Nothing EXCEPT !.cmd = c, !.box = b]
  <2>2. j.msg = None /\ j.cmd = c
    BY DEF Nothing
  <2> HIDE DEF j
  <2>3. Goto(p, "listnew", j)
    BY <1>9 DEF j
  <2> QED BY <1>5, <2>2, <2>3 DEF OnSending, OnSweep
<1>10. CASE List(p) \/ Reclaim(p)
  BY <1>1, <1>9, <1>10 DEF List, Reclaim
<1>11. CASE Migrate(p)
  <2>1. PICK b \in Box :
          Goto(p, "take", [Nothing EXCEPT !.cmd = "migrate", !.box = b,
                                          !.to = Canonical[b], !.dir = "none"])
    BY <1>11 DEF Migrate
  <2> DEFINE j == [Nothing EXCEPT !.cmd = "migrate", !.box = b,
                                  !.to = Canonical[b], !.dir = "none"]
  <2>2. j.msg = None /\ j.cmd = "migrate" /\ j.dir = "none"
    BY DEF Nothing
  <2> HIDE DEF j
  <2>3. Goto(p, "take", j)
    BY <2>1 DEF j
  <2>4. /\ pc'[p] = "take" /\ job'[p] = j
        /\ \A q \in Proc \ {p} : pc'[q] = pc[q] /\ job'[q] = job[q]
    BY <2>3, Turns
  <2> QED BY <1>1, <2>2, <2>4 DEF Course, SendsOn, ListsOn, SweepsOn, MergesOn, OnSending
<1> QED BY <1>1, <1>3, <1>4, <1>6, <1>8, <1>10, <1>11 DEF Begin

\* A merge that goes on with what it had, and a command that sends or registers.
LEMMA Carries ==
  ASSUME JobsOK, NEW p \in Proc, NEW s, Goto(p, s, job[p]), Quiet \/ job[p].cmd # "migrate",
         s \in OnSending => pc[p] \in OnSending, s # "link", pc[p] # "move",
         s \notin OnSweep \cup {"listcur", "listed"}
  PROVE  Course(p)
<1>1. /\ pc'[p] = s /\ job'[p] = job[p]
      /\ \A q \in Proc \ {p} : pc'[q] = pc[q] /\ job'[q] = job[q]
  BY Turns
<1> QED BY <1>1 DEF Course, SendsOn, ListsOn, SweepsOn, MergesOn

LEMMA AfterCourse ==
  ASSUME JobsOK, NEW p \in Proc, pc[p] \in {"unlink", "registered", "record"},
         AfterSend(p) \/ (Quiet /\ AfterRecord(p))
  PROVE  Course(p)
<1>1. ASSUME AfterSend(p)
      PROVE  Course(p)
  <2>1. CASE job[p].cmd = "reply"
    <3> DEFINE j == [Nothing EXCEPT !.cmd = "read", !.box = job[p].to, !.name = job[p].name]
    <3>1. j.msg = None /\ j.cmd = "read"
      BY DEF Nothing
    <3>2. Goto(p, "new", j)
      BY <1>1, <2>1 DEF AfterSend
    <3> HIDE DEF j
    <3> QED BY <3>1, <3>2, Elsewhere1 DEF OnSending, OnSweep
  <2>2. CASE job[p].cmd # "reply"
    BY <1>1, <2>2, Resigns DEF AfterSend
  <2> QED BY <2>1, <2>2
<1>2. ASSUME Quiet, AfterRecord(p)
      PROVE  Course(p)
  <2>1. AfterSend(p) \/ Goto(p, "removeall", job[p])
    BY <1>2 DEF AfterRecord
  <2> QED BY <1>1, <1>2, <2>1, Carries DEF OnSending, OnSweep
<1> QED BY <1>1, <1>2

LEMMA SendingCourse ==
  ASSUME MailAssumption, DiskOK, JobsOK, NEW p \in Proc,
         Ensure(p) \/ OpenTmp(p) \/ Link(p) \/ RemoveTmp(p)
  PROVE  Course(p)
<1>1. Fit(pc[p], job[p])
  BY DEF JobsOK
<1>2. CASE Ensure(p)
  <2>1. Goto(p, "open", job[p]) /\ pc[p] = "ensure"
    BY <1>2 DEF Ensure
  <2>2. job[p].cmd # "migrate"
    BY <1>1, <2>1 DEF Fit, Sends
  <2> QED BY <2>1, <2>2, Carries DEF OnSending, OnSweep
<1>3. ASSUME Collide(p), pc[p] \in {"open", "link"}
      PROVE  Course(p)
  <2>1. CASE Finish(p)
    BY <2>1, Resigns
  <2>2. CASE Goto(p, "open", [job[p] EXCEPT !.tries = @ + 1, !.id = None])
    <3> DEFINE j == [job[p] EXCEPT !.tries = @ + 1, !.id = None]
    <3>1. job[p] \in Job /\ job[p].cmd \in {"send", "reply"}
      BY <1>1, <1>3 DEF Fit, Sends
    <3>2. j.msg = job[p].msg /\ j.cmd = job[p].cmd
      BY <3>1 DEF Job
    <3> HIDE DEF j
    <3>3. /\ pc'[p] = "open" /\ job'[p] = j
          /\ \A q \in Proc \ {p} : pc'[q] = pc[q] /\ job'[q] = job[q]
      BY <2>2, Turns DEF j
    <3> QED BY <1>3, <3>1, <3>2, <3>3
            DEF Course, SendsOn, ListsOn, SweepsOn, MergesOn, OnSending, OnSweep
  <2> QED BY <1>3, <2>1, <2>2 DEF Collide
<1>4. CASE OpenTmp(p)
  <2>1. pc[p] = "open"
    BY <1>4 DEF OpenTmp
  <2>2. PICK id \in Ids :
          \/ Finish(p) \/ Collide(p)
          \/ /\ Goto(p, "link", [job[p] EXCEPT !.id = id])
             /\ files' = files \cup {[box |-> job[p].box, dir |-> "tmp", name |-> Plain(id),
                                      msg |-> job[p].msg]}
    BY <1>4, Zenon DEF OpenTmp
  <2>3. ASSUME Goto(p, "link", [job[p] EXCEPT !.id = id]),
               files' = files \cup {[box |-> job[p].box, dir |-> "tmp", name |-> Plain(id),
                                     msg |-> job[p].msg]}
        PROVE  Course(p)
    <3> DEFINE j == [job[p] EXCEPT !.id = id]
    <3>1. job[p] \in Job /\ job[p].cmd \in {"send", "reply"}
      BY <1>1, <2>1 DEF Fit, Sends
    <3>2. j.msg = job[p].msg /\ j.cmd = job[p].cmd /\ j.id = id /\ j.box = job[p].box
      BY <3>1 DEF Job
    <3> HIDE DEF j
    <3>3. /\ pc'[p] = "link" /\ job'[p] = j
          /\ \A q \in Proc \ {p} : pc'[q] = pc[q] /\ job'[q] = job[q]
      BY <2>3, Turns DEF j
    <3>4. Mine(p)' = [box |-> job[p].box, dir |-> "tmp", name |-> Plain(id), msg |-> job[p].msg]
      BY <3>2, <3>3 DEF Mine, Plain
    <3>5. Mine(p)' \in files'
      BY <2>3, <3>4
    <3> QED BY <2>1, <3>1, <3>2, <3>3, <3>5
            DEF Course, SendsOn, ListsOn, SweepsOn, MergesOn, OnSending, OnSweep
  <2> QED BY <1>3, <2>1, <2>2, <2>3, Resigns
<1>5. CASE Link(p)
  <2>1. pc[p] = "link" /\ (Finish(p) \/ Collide(p) \/ Goto(p, "unlink", job[p]))
    BY <1>5, LinkCases DEF Refuses, Delivers
  <2>2. job[p].cmd # "migrate"
    BY <1>1, <2>1 DEF Fit, Sends
  <2> QED BY <1>3, <2>1, <2>2, Resigns, Carries DEF OnSending, OnSweep
<1>6. CASE RemoveTmp(p)
  <2>1. pc[p] = "unlink" /\ (Goto(p, "registered", job[p]) \/ AfterSend(p))
    BY <1>6 DEF RemoveTmp
  <2>2. job[p].cmd # "migrate"
    BY <1>1, <2>1 DEF Fit, Sends
  <2> QED BY <2>1, <2>2, AfterCourse, Carries DEF OnSending, OnSweep
<1> QED BY <1>2, <1>4, <1>5, <1>6

LEMMA RecordCourse ==
  ASSUME MailAssumption, DiskOK, JobsOK, NEW p \in Proc, IsRegistered(p) \/ LinkRecord(p)
  PROVE  Course(p) /\ Quiet
<1>1. CASE IsRegistered(p)
  <2>1. pc[p] = "registered" /\ (AfterRecord(p) \/ Goto(p, "record", job[p])) /\ Quiet
    BY <1>1 DEF IsRegistered, Quiet
  <2> QED BY <2>1, AfterCourse, Carries DEF OnSending, OnSweep
<1>2. CASE LinkRecord(p)
  <2>1. pc[p] = "record" /\ (AfterRecord(p) \/ Finish(p)) /\ Quiet
    BY <1>2 DEF LinkRecord, Quiet
  <2> QED BY <2>1, AfterCourse, Resigns
<1> QED BY <1>1, <1>2

\* A sweep takes one row and looks for it.
LEMMA FoundCourse ==
  ASSUME JobsOK, NEW p \in Proc, NEW j \in Job, NEW d, Found(p, j, d),
         j.msg \in {None, job[p].msg}, j.cmd \in {"archive", "reclaim"},
         j.cmd = "reclaim" => /\ job[p].cmd = "reclaim" /\ pc[p] \in OnSweep
                              /\ j.list = job[p].list /\ j.todo \subseteq job[p].todo
  PROVE  Course(p)
<1> DEFINE k == [j EXCEPT !.dir = d, !.to = j.box]
<1>1. k.msg = j.msg /\ k.cmd = j.cmd /\ k.list = j.list /\ k.todo = j.todo
  BY DEF Job
<1> HIDE DEF k
<1>2. /\ pc'[p] \in {"move", "dest"} /\ job'[p] = k
      /\ \A q \in Proc \ {p} : pc'[q] = pc[q] /\ job'[q] = job[q]
  BY Turns DEF Found, k
<1> QED BY <1>1, <1>2 DEF Course, SendsOn, ListsOn, SweepsOn, MergesOn, OnSending

LEMMA LookingCourse ==
  ASSUME JobsOK, NEW p \in Proc, NEW j \in Job, LookInCur(p, j),
         j.msg \in {None, job[p].msg}, j.cmd \in {"archive", "reclaim"},
         j.cmd = "reclaim" => /\ job[p].cmd = "reclaim" /\ pc[p] \in OnSweep
                              /\ j.list = job[p].list /\ j.todo \subseteq job[p].todo
  PROVE  Course(p)
<1>1. ASSUME Goto(p, "statnew", j)
      PROVE  Course(p)
  <2>1. /\ pc'[p] = "statnew" /\ job'[p] = j
        /\ \A q \in Proc \ {p} : pc'[q] = pc[q] /\ job'[q] = job[q]
    BY <1>1, Turns
  <2> QED BY <2>1 DEF Course, SendsOn, ListsOn, SweepsOn, MergesOn, OnSending
<1> QED BY <1>1, FoundCourse DEF LookInCur

LEMMA ReadingCourse ==
  ASSUME MailAssumption, DiskOK, JobsOK, NEW p \in Proc,
         ReadNew(p) \/ MarkRead(p) \/ StatCur(p) \/ StatNew(p)
  PROVE  Course(p) /\ (Quiet \/ MarkRead(p))
<1>1. Fit(pc[p], job[p])
  BY DEF JobsOK
<1>2. Quiet \/ MarkRead(p)
  BY DEF ReadNew, StatCur, StatNew, OnDisk, Quiet
<1>3. CASE ReadNew(p)
  <2>1. pc[p] = "new" /\ (Finish(p) \/ Goto(p, "mark", job[p]))
    BY <1>3 DEF ReadNew
  <2>2. job[p].cmd = "read"
    BY <1>1, <2>1 DEF Fit, Reads
  <2> QED BY <1>2, <2>1, <2>2, Resigns, Carries DEF OnSending, OnSweep
<1>4. CASE MarkRead(p)
  BY <1>4, Resigns DEF MarkRead
<1>5. CASE StatCur(p)
  <2>1. pc[p] = "statcur" /\ LookInCur(p, job[p])
    BY <1>5 DEF StatCur
  <2>2. job[p] \in Job /\ job[p].cmd = "archive"
    BY <1>1, <2>1 DEF Fit, Reads
  <2> QED BY <1>2, <2>1, <2>2, LookingCourse
<1>6. CASE StatNew(p)
  <2>1. /\ pc[p] = "statnew"
        /\ \/ Found(p, job[p], "new")
           \/ Finish(p)
           \/ job[p].cmd # "archive" /\ Goto(p, "take", [job[p] EXCEPT !.name = None])
    BY <1>6 DEF StatNew
  <2>2. job[p] \in Job /\ job[p].cmd \in {"archive", "reclaim"}
    BY <1>1, <2>1 DEF Fit, Reads
  <2>3. ASSUME job[p].cmd # "archive", Goto(p, "take", [job[p] EXCEPT !.name = None])
        PROVE  Course(p)
    <3> DEFINE j == [job[p] EXCEPT !.name = None]
    <3>1. j.msg = job[p].msg /\ j.cmd = "reclaim" /\ j.list = job[p].list /\ j.todo = job[p].todo
      BY <2>2, <2>3 DEF Job
    <3> HIDE DEF j
    <3>2. /\ pc'[p] = "take" /\ job'[p] = j
          /\ \A q \in Proc \ {p} : pc'[q] = pc[q] /\ job'[q] = job[q]
      BY <2>3, Turns DEF j
    <3> QED BY <2>1, <2>2, <2>3, <3>1, <3>2
            DEF Course, SendsOn, ListsOn, SweepsOn, MergesOn, OnSending, OnSweep
  <2> QED BY <1>2, <2>1, <2>2, <2>3, FoundCourse, Resigns DEF OnSweep
<1> QED BY <1>2, <1>3, <1>4, <1>5, <1>6

LEMMA ListingCourse ==
  ASSUME MailAssumption, DiskOK, JobsOK, NEW p \in Proc,
         ListNew(p) \/ ListCur(p) \/ Listed(p) \/ Take(p) \/ ReclaimEnd(p)
  PROVE  Course(p) /\ Quiet
<1>1. Fit(pc[p], job[p])
  BY DEF JobsOK
<1>2. Quiet
  BY DEF ListNew, ListCur, Listed, Take, ReclaimEnd, OnDisk, Quiet
<1>3. CASE ListNew(p)
  <2> DEFINE j == [job[p] EXCEPT !.list = Rows(job[p].box, ListOrder[1]),
                                 !.was = Active(job[p].box)]
  <2>1. pc[p] = "listnew" /\ Goto(p, "listcur", j)
    BY <1>3 DEF ListNew
  <2>2. job[p] \in Job /\ job[p].cmd \in {"list", "reclaim"}
    BY <1>1, <2>1 DEF Fit, Reads
  <2>3. j.msg = job[p].msg /\ j.cmd = job[p].cmd
    BY <2>2 DEF Job
  <2> HIDE DEF j
  <2>4. /\ pc'[p] = "listcur" /\ job'[p] = j
        /\ \A q \in Proc \ {p} : pc'[q] = pc[q] /\ job'[q] = job[q]
    BY <2>1, Turns
  <2> QED BY <1>2, <1>3, <2>2, <2>3, <2>4
          DEF Course, SendsOn, ListsOn, SweepsOn, MergesOn, OnSending, OnSweep
<1>4. CASE ListCur(p)
  <2> DEFINE rows == job[p].list \cup Rows(job[p].box, ListOrder[2])
             todo == Superseded(rows)
             j == [job[p] EXCEPT !.list = rows]
             k == [job[p] EXCEPT !.list = rows, !.todo = todo, !.was = {}]
  <2>1. /\ pc[p] = "listcur"
        /\ \/ job[p].cmd = "list" /\ Goto(p, "listed", j)
           \/ job[p].cmd # "list" /\ Goto(p, "take", k)
    BY <1>4 DEF ListCur
  <2>2. job[p] \in Job /\ job[p].cmd \in {"list", "reclaim"}
    BY <1>1, <2>1 DEF Fit, Reads
  <2> HIDE DEF todo
  <2>3. /\ j.msg = job[p].msg /\ j.cmd = job[p].cmd
        /\ k.msg = job[p].msg /\ k.cmd = job[p].cmd /\ k.list = rows /\ k.todo = todo
    BY <2>2 DEF Job
  <2>4. k.todo = Superseded(k.list)
    BY <2>3 DEF todo
  <2> HIDE DEF j, k
  <2>5. /\ \/ pc'[p] = "listed" /\ job'[p] = j /\ job[p].cmd = "list"
           \/ pc'[p] = "take" /\ job'[p] = k
        /\ \A q \in Proc \ {p} : pc'[q] = pc[q] /\ job'[q] = job[q]
    BY <2>1, Turns
  <2> QED BY <1>2, <1>4, <2>2, <2>3, <2>4, <2>5
          DEF Course, SendsOn, ListsOn, SweepsOn, MergesOn, OnSending, OnSweep
<1>5. CASE Listed(p) \/ ReclaimEnd(p)
  BY <1>2, <1>5, Resigns DEF Listed, ReclaimEnd
<1>6. CASE Take(p)
  <2>1. PICK e \in job[p].todo : LookInCur(p, [job[p] EXCEPT !.name = e.name, !.todo = @ \ {e}])
    BY <1>6 DEF Take
  <2> DEFINE j == [job[p] EXCEPT !.name = e.name, !.todo = @ \ {e}]
  <2>2. pc[p] = "take" /\ job[p].cmd = "reclaim" /\ job[p] \in Job /\ e \in Row
    BY <1>1, <1>6 DEF Take, Fit, Job
  <2>3. /\ j \in Job /\ j.list = job[p].list /\ j.msg = job[p].msg /\ j.cmd = "reclaim"
        /\ j.todo \subseteq job[p].todo
    BY <2>2 DEF Job, Opt, Row
  <2> HIDE DEF j
  <2>4. LookInCur(p, j)
    BY <2>1 DEF j
  <2> QED BY <1>2, <2>2, <2>3, <2>4, LookingCourse DEF OnSweep
<1> QED BY <1>2, <1>3, <1>4, <1>5, <1>6

LEMMA MovingCourse ==
  ASSUME MailAssumption, DiskOK, JobsOK, NEW p \in Proc,
         Dest(p) \/ Move(p) \/ MergeDir(p) \/ MergeOne(p) \/ Carry(p) \/ RemoveAll(p) \/ Crash(p)
  PROVE  Course(p) /\ (Quiet \/ Move(p) \/ RemoveAll(p))
<1>1. Fit(pc[p], job[p])
  BY DEF JobsOK
<1>2. Quiet \/ Move(p) \/ RemoveAll(p)
  BY DEF Dest, DestFor, MergeDir, MergeOne, Carry, Crash, OnDisk, Quiet
<1>3. CASE Dest(p)
  <2>1. pc[p] = "dest" /\ DestFor(p, job[p].name, job[p])
    BY <1>3 DEF Dest
  <2>2. PICK k \in Suffixes(job[p].to, ToDir(p), job[p].name) :
          Goto(p, "move", [job[p] EXCEPT !.name = job[p].name, !.id = k])
    BY <2>1 DEF DestFor
  <2> DEFINE j == [job[p] EXCEPT !.name = job[p].name, !.id = k]
  <2>3. job[p] \in Job /\ job[p].cmd = "reclaim"
    BY <1>1, <2>1 DEF Fit, Reads
  <2>4. j.msg = job[p].msg /\ j.cmd = job[p].cmd /\ j.list = job[p].list /\ j.todo = job[p].todo
    BY <2>3 DEF Job
  <2> HIDE DEF j
  <2>5. /\ pc'[p] = "move" /\ job'[p] = j
        /\ \A q \in Proc \ {p} : pc'[q] = pc[q] /\ job'[q] = job[q]
    BY <2>2, Turns DEF j
  <2>6. Quiet
    BY <1>3 DEF Dest, DestFor, Quiet
  <2> QED BY <2>1, <2>3, <2>4, <2>5, <2>6
          DEF Course, SendsOn, ListsOn, SweepsOn, MergesOn, OnSending, OnSweep
<1>4. CASE Move(p)
  <2>1. /\ pc[p] = "move"
        /\ \/ Finish(p)
           \/ job[p].cmd # "archive" /\ Goto(p, "take", [job[p] EXCEPT !.name = None, !.id = None])
    BY <1>4 DEF Move
  <2>2. ASSUME Goto(p, "take", [job[p] EXCEPT !.name = None, !.id = None])
        PROVE  Course(p)
    <3> DEFINE j == [job[p] EXCEPT !.name = None, !.id = None]
    <3>1. job[p] \in Job
      BY <1>1 DEF Fit
    <3>2. /\ j.msg = job[p].msg /\ j.cmd = job[p].cmd /\ j.list = job[p].list
          /\ j.todo = job[p].todo /\ j.box = job[p].box
      BY <3>1 DEF Job
    <3> HIDE DEF j
    <3>3. /\ pc'[p] = "take" /\ job'[p] = j
          /\ \A q \in Proc \ {p} : pc'[q] = pc[q] /\ job'[q] = job[q]
      BY <2>2, Turns DEF j
    <3> QED BY <1>4, <2>1, <3>2, <3>3
            DEF Course, SendsOn, ListsOn, SweepsOn, MergesOn, OnSending, OnSweep
  <2> QED BY <1>2, <1>4, <2>1, <2>2, Resigns
<1>5. CASE MergeDir(p)
  <2> DEFINE d == NextDir[job[p].dir]
             rows == Rows(job[p].box, d)
             j == [job[p] EXCEPT !.dir = d, !.todo = rows]
  <2>1. /\ pc[p] = "take" /\ job[p].cmd = "migrate" /\ job[p].dir # "archive"
        /\ job[p].todo = {} /\ Goto(p, "take", j) /\ Quiet
    BY <1>5 DEF MergeDir, Quiet
  <2>2. job[p] \in Job
    BY <1>1 DEF Fit
  <2> HIDE DEF d, rows
  <2>3. j.msg = job[p].msg /\ j.cmd = "migrate" /\ j.box = job[p].box /\ j.dir = d /\ j.todo = rows
    BY <2>1, <2>2 DEF Job
  <2> HIDE DEF j
  <2>4. /\ pc'[p] = "take" /\ job'[p] = j
        /\ \A q \in Proc \ {p} : pc'[q] = pc[q] /\ job'[q] = job[q]
    BY <2>1, Turns
  <2>5. job'[p].dir = NextDir[job[p].dir] /\ job'[p].todo = Rows(job[p].box, job'[p].dir)
    BY <2>3, <2>4 DEF d, rows
  <2>6. MergesOn(p)
    BY <2>1, <2>3, <2>4, <2>5 DEF MergesOn
  <2> QED BY <1>2, <2>1, <2>3, <2>4, <2>6
          DEF Course, SendsOn, ListsOn, SweepsOn, OnSending, OnSweep
<1>6. CASE MergeOne(p)
  <2>1. PICK e \in job[p].todo : DestFor(p, e.name, [job[p] EXCEPT !.todo = @ \ {e}])
    BY <1>6 DEF MergeOne
  <2> DEFINE i == [job[p] EXCEPT !.todo = @ \ {e}]
  <2>2. pc[p] = "take" /\ job[p].cmd = "migrate" /\ job[p] \in Job
    BY <1>1, <1>6 DEF MergeOne, Fit
  <2>3. PICK k \in Suffixes(i.to, ToDir(p), e.name) :
          Goto(p, "move", [i EXCEPT !.name = e.name, !.id = k])
    BY <2>1 DEF DestFor
  <2> DEFINE j == [i EXCEPT !.name = e.name, !.id = k]
  <2>4. /\ j.msg = job[p].msg /\ j.cmd = "migrate" /\ j.box = job[p].box /\ j.dir = job[p].dir
        /\ j.todo = job[p].todo \ {e} /\ j.name = e.name
    BY <2>2 DEF Job
  <2>5. Goto(p, "move", j)
    BY <2>3
  <2> HIDE DEF i, j
  <2>6. /\ pc'[p] = "move" /\ job'[p] = j
        /\ \A q \in Proc \ {p} : pc'[q] = pc[q] /\ job'[q] = job[q]
    BY <2>5, Turns
  <2>7. Quiet
    BY <1>6 DEF MergeOne, DestFor, Quiet
  <2> QED BY <2>2, <2>4, <2>6, <2>7
          DEF Course, SendsOn, ListsOn, SweepsOn, MergesOn, OnSending, OnSweep
<1>7. CASE Carry(p)
  <2>1. /\ pc[p] = "take" /\ Quiet
        /\ Goto(p, "registered", job[p]) \/ Goto(p, "removeall", job[p])
    BY <1>7 DEF Carry, OnDisk, Quiet
  <2> QED BY <2>1, Carries DEF OnSending, OnSweep
<1>8. CASE RemoveAll(p) \/ Crash(p)
  BY <1>2, <1>8, Resigns DEF RemoveAll, Crash
<1> QED BY <1>2, <1>3, <1>4, <1>5, <1>6, <1>7, <1>8

\* What a step can do to the files of the mailboxes.
Touches(p) == OpenTmp(p) \/ Link(p) \/ RemoveTmp(p) \/ MarkRead(p) \/ Move(p) \/ RemoveAll(p)

LEMMA EveryCourse ==
  ASSUME MailAssumption, DiskOK, JobsOK, NEW p \in Proc, Begin(p) \/ Step(p) \/ Crash(p)
  PROVE  Course(p) /\ (Quiet \/ Touches(p))
<1>1. Ensure(p) => Quiet
  BY DEF Ensure, Quiet
<1> QED BY <1>1, BeginsCourse, SendingCourse, RecordCourse, ReadingCourse, ListingCourse,
           MovingCourse DEF Step, Touches
-----------------------------------------------------------------------------
(***************************************************************************)
(* Where the messages are.  Two processes never send one message (Apart);  *)
(* a sender that has lost its tmp file has lost it to a merge or to        *)
(* another sender (Own).  A message that no other sender took is in one    *)
(* file outside tmp/ (Once), under the id it was delivered with (Stamped), *)
(* and when it is in none, another was minted that id, or it came in       *)
(* during a merge (Gone).                                                  *)
(***************************************************************************)
Unsent == \A p \in Proc : pc[p] \in OnSending => sent[job[p].msg] = None
Apart == \A p, q \in Proc : job[p].msg = job[q].msg /\ job[p].msg # None => p = q
Own == \A p \in Proc : pc[p] = "link" => Mine(p) \in files \/ job[p].msg \in late \cup taken
Once == \A f, g \in Out : f.msg = g.msg /\ f.msg \notin taken => f = g
Nameless(o) == \A g \in Out : g.msg = o => o \in taken
Named1(f) == \E o \in Msg : sent[o] = f.name.id /\ (o = f.msg \/ Nameless(o))
Stamped == \A f \in Out : (f.msg \notin taken => sent[f.msg] = f.name.id) /\ Named1(f)
Excused(m) == m \in late \cup taken \/ Twin(m)
Gone == \A m \in Delivered : Copies(m) = {} => Excused(m)

\* Later says that a directory comes after another in the life of a message, and in a
\* merge.  A file is ahead of a merge that has its directory, or its row, still to do
\* (Ahead); what is in the mailbox and not ahead is excused (Merged).
Later(d, e) == \/ d = "none"
               \/ d = "new" /\ e \in {"cur", "archive"}
               \/ d = "cur" /\ e = "archive"
Ahead(p, f) ==
    \/ Later(job[p].dir, f.dir)
    \/ f.dir = job[p].dir /\ \E e \in job[p].todo : e.name = f.name
    \/ f.dir = job[p].dir /\ pc[p] = "move" /\ job[p].name = f.name
Merged ==
    \A p \in Proc : job[p].cmd = "migrate" =>
      \A f \in Out : f.box = job[p].box => Excused(f.msg) \/ Ahead(p, f)

Sending == Unsent /\ Apart /\ Own
Placed == Once /\ Stamped /\ Gone

LEMMA OutFiles ==
  ASSUME DiskOK
  PROVE  \A f \in Out : /\ f \in File /\ f \in files /\ f.box \in Box /\ f.dir \in Kept
                        /\ f.name \in Name /\ f.name.id \in Ids /\ f.msg \in Msg
BY DEF DiskOK, Out, File, Kept, Dirs, Name

LEMMA IdIsSome ==
  ASSUME MailAssumption
  PROVE  None \notin Ids /\ None \notin Msg
BY DEF MailAssumption

\* Two files of one id outside tmp/ make the message of the one a twin.
LEMMA TwinOf ==
  ASSUME MailAssumption, DiskOK, Once, Stamped, NEW f \in Out, NEW g \in Out, f # g,
         f.name.id = g.name.id, g.msg \notin taken
  PROVE  Twin(g.msg)
<1>1. f.msg # g.msg
  BY DEF Once
<1>2. sent[g.msg] = g.name.id /\ Named1(f)
  BY DEF Stamped
<1>3. PICK o \in Msg : sent[o] = f.name.id /\ (o = f.msg \/ Nameless(o))
  BY <1>2 DEF Named1
<1>4. o # g.msg
  BY <1>1, <1>3 DEF Nameless
<1>5. sent[o] # None
  BY <1>3, OutFiles, IdIsSome
<1> QED BY <1>2, <1>3, <1>4, <1>5 DEF Twin, Delivered

\* A move takes a file outside tmp/ on, in its mailbox or from a stray one to its own.
Shift(f, b, d, n) ==
    /\ f \in Out /\ b \in Box /\ d \in Kept /\ n \in Name /\ n.id = f.name.id
    /\ Moved(f, b, d, n)
    /\ \/ b = f.box /\ Later(f.dir, d) /\ late' = late
       \/ /\ b = Canonical[f.box] /\ b # f.box /\ d = f.dir
          /\ late' = IF Merging(b) THEN late \cup {f.msg} ELSE late

Merge1(p, f, b) ==
    job[p].cmd = "migrate" =>
      /\ f.box = job[p].box /\ f.dir = job[p].dir /\ f.name = job[p].name
      /\ job'[p].todo = job[p].todo /\ job'[p].dir = job[p].dir /\ b # job[p].box

LEMMA MoveCases ==
  ASSUME MailAssumption, DiskOK, JobsOK, NEW p \in Proc, MarkRead(p) \/ Move(p)
  PROVE  /\ UNCHANGED <<sent, taken>>
         /\ \/ Quiet /\ job'[p] = Nothing
            \/ \E f \in Out, b \in Box, d \in Kept, n \in Name : Shift(f, b, d, n) /\ Merge1(p, f, b)
<1>1. Fit(pc[p], job[p])
  BY DEF JobsOK
<1>2. CASE MarkRead(p)
  <2>1. pc[p] = "mark" /\ Finish(p) /\ UNCHANGED <<sent, late, taken>>
    BY <1>2 DEF MarkRead
  <2>2. job[p].cmd = "read" /\ job[p].box \in Box
    BY <1>1, <2>1 DEF Fit, Reads
  <2>3. CASE UNCHANGED files
    BY <2>1, <2>3, Ends DEF Quiet
  <2>4. ASSUME NEW f \in Here(p, "new"), Moved(f, job[p].box, "cur", f.name)
        PROVE  Shift(f, job[p].box, "cur", f.name) /\ Merge1(p, f, job[p].box) /\ f \in Out
    <3>1. f \in files /\ f.box = job[p].box /\ f.dir = "new"
      BY DEF Here, Entry, At
    <3>2. f \in Out /\ f.name \in Name
      BY <3>1, OutFiles DEF Out
    <3> QED BY <2>1, <2>2, <2>4, <3>1, <3>2 DEF Shift, Merge1, Later, Kept
  <2>5. ASSUME NEW f \in Here(p, "new"), Moved(f, job[p].box, "cur", f.name)
        PROVE  \E g \in Out, b \in Box, d \in Kept, n \in Name : Shift(g, b, d, n) /\ Merge1(p, g, b)
    <3>1. f \in Out /\ f.name \in Name /\ "cur" \in Kept
      BY <2>4, <2>5, OutFiles DEF Kept
    <3> QED BY <2>2, <2>4, <2>5, <3>1
  <2>6. UNCHANGED files \/ \E f \in Here(p, "new") : Moved(f, job[p].box, "cur", f.name)
    BY <1>2, Zenon DEF MarkRead
  <2> QED BY <2>1, <2>3, <2>5, <2>6
<1>3. CASE Move(p)
  <2> DEFINE n == IF job[p].cmd = "archive" THEN job[p].name
                  ELSE [job[p].name EXCEPT !.dup = job[p].id]
  <2>1. /\ pc[p] = "move" /\ UNCHANGED <<sent, taken>>
        /\ \/ Finish(p) /\ UNCHANGED <<files, late>>
           \/ /\ \E f \in Here(p, job[p].dir) :
                   /\ Moved(f, job[p].to, ToDir(p), n)
                   /\ late' = IF job[p].cmd = "migrate" /\ Merging(job[p].to)
                              THEN late \cup {f.msg} ELSE late
              /\ IF job[p].cmd = "archive" THEN Finish(p)
                 ELSE Goto(p, "take", [job[p] EXCEPT !.name = None, !.id = None])
    BY <1>3, Zenon DEF Move
  <2>2. /\ job[p] \in Job /\ job[p].cmd \in {"archive", "reclaim", "migrate"}
        /\ job[p].cmd # "archive" => job[p].id \in 0 .. MaxDup
        /\ job[p].to \in Box /\ job[p].dir \in Kept /\ job[p].name \in Name
        /\ job[p].cmd # "migrate" => job[p].to = job[p].box /\ job[p].dir \in {"new", "cur"}
        /\ job[p].cmd = "migrate" => /\ job[p].to = Canonical[job[p].box]
                                     /\ job[p].to # job[p].box
    BY <1>1, <2>1 DEF Fit, Moves, Reads, Merges
  <2>3. n \in Name /\ n.id = job[p].name.id
    BY <2>2 DEF Name
  <2> HIDE DEF n
  <2>4. CASE Finish(p) /\ UNCHANGED <<files, late>>
    BY <2>1, <2>4, Ends DEF Quiet
  <2>5. ASSUME NEW f \in Here(p, job[p].dir), Moved(f, job[p].to, ToDir(p), n),
               late' = IF job[p].cmd = "migrate" /\ Merging(job[p].to)
                       THEN late \cup {f.msg} ELSE late,
               IF job[p].cmd = "archive" THEN Finish(p)
                 ELSE Goto(p, "take", [job[p] EXCEPT !.name = None, !.id = None])
        PROVE  \E g \in Out, b \in Box, d \in Kept, m \in Name : Shift(g, b, d, m) /\ Merge1(p, g, b)
    <3>1. f \in files /\ f.box = job[p].box /\ f.dir = job[p].dir /\ f.name = job[p].name
      BY DEF Here, Entry, At
    <3>2. f \in Out
      BY <2>2, <3>1 DEF Out, Kept
    <3>3. ToDir(p) \in Kept
      BY <2>2 DEF ToDir, Kept
    <3>4. Shift(f, job[p].to, ToDir(p), n)
      <4>1. CASE job[p].cmd = "migrate"
        BY <2>2, <2>3, <2>5, <3>1, <3>2, <3>3, <4>1 DEF Shift, ToDir
      <4>2. CASE job[p].cmd # "migrate"
        BY <2>2, <2>3, <2>5, <3>1, <3>2, <3>3, <4>2 DEF Shift, ToDir, Later
      <4> QED BY <4>1, <4>2
    <3>5. Merge1(p, f, job[p].to)
      <4>1. CASE job[p].cmd = "migrate"
        <5> DEFINE j == [job[p] EXCEPT !.name = None, !.id = None]
        <5>1. j.todo = job[p].todo /\ j.dir = job[p].dir
          BY <2>2 DEF Job
        <5> HIDE DEF j
        <5>2. job'[p] = j
          BY <2>5, <4>1, Turns DEF j
        <5> QED BY <2>2, <3>1, <4>1, <5>1, <5>2 DEF Merge1
      <4>2. CASE job[p].cmd # "migrate"
        BY <4>2 DEF Merge1
      <4> QED BY <4>1, <4>2
    <3> QED BY <2>2, <2>3, <3>2, <3>3, <3>4, <3>5
  <2> QED BY <2>1, <2>4, <2>5
<1> QED BY <1>2, <1>3

\* What is outside tmp/ after each kind of step.
LEMMA ShiftOut ==
  ASSUME DiskOK, NEW f \in Out, NEW b \in Box, NEW d \in Kept, NEW n \in Name, Shift(f, b, d, n)
  PROVE  LET new == [box |-> b, dir |-> d, name |-> n, msg |-> f.msg] IN
         /\ Out' = (Out \ ({f} \cup Entry(b, d, n))) \cup {new}
         /\ new.msg = f.msg /\ new.name = n /\ new.box = b /\ new.dir = d
         /\ \A g \in files : g.dir = "tmp" => g \in files'
<1> DEFINE new == [box |-> b, dir |-> d, name |-> n, msg |-> f.msg]
<1>1. new.msg = f.msg /\ new.name = n /\ new.box = b /\ new.dir = d /\ d # "tmp"
  BY DEF Kept
<1>2. files' = (files \ ({f} \cup Entry(b, d, n))) \cup {new}
  BY DEF Shift, Moved
<1>3. f.dir # "tmp" /\ \A g \in Entry(b, d, n) : g.dir # "tmp"
  BY <1>1 DEF Out, Entry, At
<1> HIDE DEF new
<1>4. Out' = (Out \ ({f} \cup Entry(b, d, n))) \cup {new}
  BY <1>1, <1>2, <1>3 DEF Out
<1>5. \A g \in files : g.dir = "tmp" => g \in files'
  BY <1>2, <1>3
<1> QED BY <1>1, <1>4, <1>5 DEF new

LEMMA TmpOut ==
  ASSUME DiskOK, NEW p \in Proc
  PROVE  /\ OpenTmp(p) => Out' = Out /\ files \subseteq files'
         /\ RemoveTmp(p) \/ Refuses(p) => Out' = Out /\ files' = files \ Tmp(p)
<1>1. ASSUME OpenTmp(p)
      PROVE  Out' = Out /\ files \subseteq files'
  <2>1. PICK id \in Ids :
          \/ files' = files
          \/ files' = files \cup {[box |-> job[p].box, dir |-> "tmp", name |-> Plain(id),
                                   msg |-> job[p].msg]}
    BY <1>1, Zenon DEF OpenTmp
  <2> QED BY <2>1 DEF Out
<1>2. ASSUME RemoveTmp(p) \/ Refuses(p)
      PROVE  Out' = Out /\ files' = files \ Tmp(p)
  <2>1. files' = files \ Tmp(p)
    BY <1>2, Zenon DEF RemoveTmp, Refuses
  <2>2. \A g \in Tmp(p) : g.dir = "tmp"
    BY DEF Tmp, Entry, At
  <2> QED BY <2>1, <2>2 DEF Out
<1> QED BY <1>1, <1>2

LEMMA DeliversOut ==
  ASSUME DiskOK, JobsOK, NEW p \in Proc, Delivers(p)
  PROVE  \E f \in files :
           LET new == [box |-> job[p].box, dir |-> "new", name |-> Plain(job[p].id),
                       msg |-> f.msg] IN
           /\ Tmp(p) = {f} /\ f.msg \in Msg
           /\ files' = files \cup {new} /\ Out' = Out \cup {new}
           /\ new.msg = f.msg /\ new.name.id = job[p].id /\ new.box = job[p].box
<1>1. Tmp(p) # {} /\ files' = files \cup {[f EXCEPT !.dir = "new"] : f \in Tmp(p)}
  BY Zenon DEF Delivers
<1>2. PICK f \in files :
        /\ Tmp(p) = {f} /\ f \in File
        /\ {[g EXCEPT !.dir = "new"] : g \in Tmp(p)} =
             {[box |-> job[p].box, dir |-> "new", name |-> Plain(job[p].id), msg |-> f.msg]}
  BY <1>1, LinkIsOne
<1> DEFINE new == [box |-> job[p].box, dir |-> "new", name |-> Plain(job[p].id), msg |-> f.msg]
<1>3. files' = files \cup {new}
  BY <1>1, <1>2
<1>4. /\ new.msg = f.msg /\ new.name.id = job[p].id /\ new.box = job[p].box /\ new.dir = "new"
      /\ f.msg \in Msg
  BY <1>2 DEF Plain, File
<1> HIDE DEF new
<1>5. Out' = Out \cup {new}
  BY <1>3, <1>4 DEF Out
<1> QED BY <1>2, <1>3, <1>4, <1>5 DEF new

\* How the steps that touch files change what was sent, late and taken.
LEMMA Histories ==
  ASSUME MailAssumption, DiskOK, JobsOK, NEW p \in Proc, Begin(p) \/ Step(p) \/ Crash(p)
  PROVE  /\ late \subseteq late' /\ taken \subseteq taken'
         /\ \/ sent' = sent
            \/ Delivers(p) /\ pc[p] = "link" /\ pc'[p] = "unlink"
               /\ sent' = [sent EXCEPT ![job[p].msg] = job[p].id] /\ taken' = taken \cup Others(p)
<1>1. Course(p) /\ (Quiet \/ Touches(p))
  BY EveryCourse
<1>2. CASE Quiet
  BY <1>2 DEF Quiet
<1>3. CASE OpenTmp(p)
  BY <1>3 DEF OpenTmp, Elsewhere
<1>4. CASE Link(p)
  <2>1. Refuses(p) => UNCHANGED <<sent, late>>
    BY Zenon DEF Refuses
  <2>2. ASSUME Delivers(p)
        PROVE  /\ late \subseteq late' /\ pc'[p] = "unlink"
               /\ sent' = [sent EXCEPT ![job[p].msg] = job[p].id]
    <3>1. /\ late' = IF Merging(job[p].box) THEN late \cup {job[p].msg} ELSE late
          /\ sent' = [sent EXCEPT ![job[p].msg] = job[p].id]
          /\ Goto(p, "unlink", job[p])
      BY <2>2, Zenon DEF Delivers
    <3> QED BY <3>1, Turns
  <2> QED BY <1>4, <2>1, <2>2, LinkCases
<1>5. CASE RemoveTmp(p)
  BY <1>5 DEF RemoveTmp
<1>6. CASE MarkRead(p) \/ Move(p)
  BY <1>6, MoveCases DEF Quiet, Shift
<1>7. CASE RemoveAll(p)
  BY <1>7 DEF RemoveAll
<1> QED BY <1>1, <1>2, <1>3, <1>4, <1>5, <1>6, <1>7 DEF Touches

LEMMA SendingKept ==
  ASSUME MailAssumption, DiskOK, JobsOK, Sending, NEW p \in Proc, Begin(p) \/ Step(p) \/ Crash(p)
  PROVE  Sending'
<1>1. Course(p) /\ (Quiet \/ Touches(p))
  BY EveryCourse
<1>2. /\ \A q \in Proc \ {p} : pc'[q] = pc[q] /\ job'[q] = job[q]
      /\ SendsOn(p)
  BY <1>1 DEF Course
<1>3. late \subseteq late' /\ taken \subseteq taken'
  BY Histories
<1>4. \A m \in Unclaimed : m \in Msg /\ sent[m] = None /\ m # None /\ \A q \in Proc : job[q].msg # m
  BY IdIsSome DEF Unclaimed
<1>5. Apart'
  <2>1. \A q \in Proc \ {p} : job'[q].msg = job'[p].msg => job'[p].msg = None
    BY <1>2, <1>4 DEF SendsOn, Sending, Apart
  <2> QED BY <1>2, <2>1 DEF Sending, Apart
<1>6. Unsent'
  <2> SUFFICES ASSUME NEW q \in Proc, pc'[q] \in OnSending
               PROVE  sent'[job'[q].msg] = None
    BY DEF Unsent
  <2>1. sent[job'[q].msg] = None
    BY <1>2, <1>4 DEF SendsOn, Sending, Unsent
  <2>2. ASSUME Delivers(p), pc[p] = "link", pc'[p] = "unlink",
               sent' = [sent EXCEPT ![job[p].msg] = job[p].id]
        PROVE  sent'[job'[q].msg] = None
    <3>1. q # p
      BY <2>2 DEF OnSending
    <3>2. Fit(pc[q], job[q]) /\ Fit(pc[p], job[p])
      BY DEF JobsOK
    <3>3. job[q].msg # job[p].msg
      BY <1>2, <2>2, <3>1, <3>2, IdIsSome DEF Sending, Apart, Fit, Sends
    <3> QED BY <1>2, <2>1, <2>2, <3>1, <3>3 DEF DiskOK
  <2> QED BY <2>1, <2>2, Histories
<1>7. Own'
  <2> SUFFICES ASSUME NEW q \in Proc, pc'[q] = "link"
               PROVE  Mine(q)' \in files' \/ job'[q].msg \in late' \cup taken'
    BY DEF Own
  <2>1. CASE q = p
    BY <1>2, <2>1 DEF SendsOn
  <2>2. CASE q # p
    <3>1. pc[q] = "link" /\ pc'[q] = pc[q] /\ job'[q] = job[q] /\ Mine(q)' = Mine(q)
      BY <1>2, <2>2 DEF Mine, Plain
    <3>2. Mine(q).dir = "tmp" /\ Mine(q).msg = job[q].msg /\ Mine(q).box = job[q].box
      BY DEF Mine
    <3>3. CASE job[q].msg \in late \cup taken
      BY <1>3, <3>1, <3>3
    <3>4. CASE Mine(q) \in files /\ job[q].msg \notin late \cup taken
      <4>1. CASE Quiet
        BY <3>1, <3>4, <4>1 DEF Quiet
      <4>2. CASE OpenTmp(p)
        BY <3>1, <3>4, <4>2, TmpOut
      <4>3. ASSUME files' = files \ Tmp(p), taken' = taken \cup Others(p), pc[p] \in {"link", "unlink"}
            PROVE  Mine(q) \in files' \/ job[q].msg \in taken'
        <5>1. Fit(pc[q], job[q]) /\ Fit(pc[p], job[p])
          BY DEF JobsOK
        <5>2. job[q].msg # job[p].msg
          BY <2>2, <3>1, <4>3, <5>1, IdIsSome DEF Sending, Apart, Fit, Sends
        <5>3. Mine(q) \in Tmp(p) => job[q].msg \in Others(p)
          BY <3>2, <5>2 DEF Others
        <5> QED BY <3>4, <4>3, <5>3
      <4>4. CASE Link(p)
        <5>1. pc[p] = "link" /\ taken' = taken \cup Others(p) /\ (Refuses(p) \/ Delivers(p))
          BY <4>4, LinkCases
        <5>2. Delivers(p) => files \subseteq files'
          BY DeliversOut
        <5> QED BY <3>1, <3>4, <4>3, <5>1, <5>2, TmpOut
      <4>5. CASE RemoveTmp(p)
        <5>1. pc[p] = "unlink" /\ taken' = taken \cup Others(p)
          BY <4>5 DEF RemoveTmp
        <5> QED BY <3>1, <4>3, <4>5, <5>1, TmpOut
      <4>6. CASE MarkRead(p) \/ Move(p)
        <5>1. ASSUME NEW f \in Out, NEW b \in Box, NEW d \in Kept, NEW n \in Name,
                     Shift(f, b, d, n)
              PROVE  Mine(q) \in files'
          BY <3>2, <3>4, <5>1, ShiftOut
        <5> QED BY <3>1, <3>4, <4>6, <5>1, MoveCases DEF Quiet
      <4>7. CASE RemoveAll(p)
        <5>1. /\ files' = {f \in files : f.box # job[p].box}
              /\ late' = late \cup ({f.msg : f \in At(job[p].box, "tmp")} \ Delivered)
          BY <4>7 DEF RemoveAll
        <5>2. CASE job[q].box # job[p].box
          BY <3>1, <3>2, <3>4, <5>1, <5>2
        <5>3. CASE job[q].box = job[p].box
          <6>1. Mine(q) \in At(job[p].box, "tmp")
            BY <3>2, <3>4, <5>3 DEF At
          <6>2. job[q].msg \notin Delivered
            BY <3>1 DEF Sending, Unsent, OnSending, Delivered
          <6> QED BY <3>1, <3>2, <5>1, <6>1, <6>2
        <5> QED BY <5>2, <5>3
      <4> QED BY <1>1, <4>1, <4>2, <4>4, <4>5, <4>6, <4>7 DEF Touches
    <3> QED BY <3>1, <3>3, <3>4 DEF Sending, Own
  <2> QED BY <2>1, <2>2
<1> QED BY <1>5, <1>6, <1>7 DEF Sending

\* What excuses a message goes on excusing it.
LEMMA ExcusedStays ==
  ASSUME MailAssumption, DiskOK, JobsOK, Sending, NEW p \in Proc,
         Begin(p) \/ Step(p) \/ Crash(p), NEW m \in Msg, Excused(m)
  PROVE  Excused(m)'
<1>1. late \subseteq late' /\ taken \subseteq taken'
  BY Histories
<1>2. CASE m \in late \cup taken
  BY <1>1, <1>2 DEF Excused
<1>3. CASE Twin(m)
  <2>1. PICK o \in Msg : o # m /\ sent[o] # None /\ sent[o] = sent[m]
    BY <1>3 DEF Twin, Delivered
  <2>2. sent'[o] = sent[o] /\ sent'[m] = sent[m]
    <3>1. CASE sent' = sent
      BY <3>1
    <3>2. ASSUME pc[p] = "link", sent' = [sent EXCEPT ![job[p].msg] = job[p].id]
          PROVE  sent'[o] = sent[o] /\ sent'[m] = sent[m]
      <4>1. sent[job[p].msg] = None
        BY <3>2 DEF Sending, Unsent, OnSending
      <4> QED BY <2>1, <3>2, <4>1 DEF DiskOK
    <3> QED BY <3>1, <3>2, Histories
  <2>3. Twin(m)'
    BY <2>1, <2>2 DEF Twin, Delivered
  <2> QED BY <2>3 DEF Excused
<1> QED BY <1>2, <1>3 DEF Excused

\* A delivery puts its message where none was.
LEMMA DeliveryPlaced ==
  ASSUME MailAssumption, DiskOK, JobsOK, Sending, Placed, NEW p \in Proc, Delivers(p),
         pc[p] = "link", sent' = [sent EXCEPT ![job[p].msg] = job[p].id],
         taken' = taken \cup Others(p), late \subseteq late'
  PROVE  Placed'
<1>1. PICK f \in files :
        LET new == [box |-> job[p].box, dir |-> "new", name |-> Plain(job[p].id), msg |-> f.msg] IN
        /\ Tmp(p) = {f} /\ f.msg \in Msg
        /\ files' = files \cup {new} /\ Out' = Out \cup {new}
        /\ new.msg = f.msg /\ new.name.id = job[p].id /\ new.box = job[p].box
  BY DeliversOut
<1> DEFINE new == [box |-> job[p].box, dir |-> "new", name |-> Plain(job[p].id), msg |-> f.msg]
<1>a. PICK m : m = job[p].msg
  OBVIOUS
<1>2. Out' = Out \cup {new} /\ new.msg = f.msg /\ new.name.id = job[p].id /\ new \in files'
  BY <1>1
<1>3. Fit(pc[p], job[p])
  BY DEF JobsOK
<1>4. m \in Msg /\ job[p].id \in Ids /\ sent[m] = None /\ job[p].id # None
  BY <1>a, <1>3, IdIsSome DEF Fit, Sends, Sending, Unsent, OnSending
<1>5. sent'[m] = job[p].id /\ (\A o \in Msg : o # m => sent'[o] = sent[o])
  BY <1>a, <1>4 DEF DiskOK
<1>6. taken' = taken \cup ({f.msg} \ {m}) /\ taken \subseteq taken'
  <2>1. {g.msg : g \in Tmp(p)} = {f.msg}
    BY <1>1, Zenon
  <2> QED BY <1>a, <2>1 DEF Others
<1>7. f.msg # m => m \in late \cup taken
  <2>1. Mine(p) \in files => f = Mine(p)
    BY <1>1 DEF Mine, Tmp, Entry, At, Plain
  <2>2. Mine(p).msg = m
    BY <1>a DEF Mine
  <2> QED BY <1>a, <2>1, <2>2 DEF Sending, Own
<1> HIDE DEF new
\* nothing outside tmp/ held the message yet
<1>8. \A g \in Out : g.msg = m => m \in taken
  <2> SUFFICES ASSUME NEW g \in Out, g.msg = m, m \notin taken
               PROVE  FALSE
    OBVIOUS
  <2>1. sent[m] = g.name.id
    BY DEF Placed, Stamped
  <2> QED BY <1>4, <2>1, OutFiles, IdIsSome
<1>9. Once'
  <2> SUFFICES ASSUME NEW g \in Out', NEW h \in Out', g.msg = h.msg, g.msg \notin taken'
               PROVE  g = h
    BY DEF Once
  <2>1. ASSUME NEW e \in Out, e.msg = new.msg, new.msg \notin taken'
        PROVE  FALSE
    BY <1>2, <1>6, <1>8, <2>1
  <2> QED BY <1>2, <1>6, <2>1 DEF Placed, Once
<1>10. Stamped'
  <2> SUFFICES ASSUME NEW g \in Out'
               PROVE  (g.msg \notin taken' => sent'[g.msg] = g.name.id) /\ Named1(g)'
    BY DEF Stamped
  <2>1. CASE g = new
    <3>1. g.msg \notin taken' => g.msg = m
      BY <1>2, <1>6, <2>1
    <3>2. g.msg = m \/ (Nameless(m))'
      <4> SUFFICES ASSUME g.msg # m
                   PROVE  Nameless(m)'
        OBVIOUS
      <4>1. \A h \in Out' : h.msg = m => m \in taken'
        BY <1>2, <1>6, <1>8, <2>1
      <4> QED BY <4>1 DEF Nameless
    <3>3. sent'[m] = g.name.id
      BY <1>2, <1>5, <2>1
    <3>4. Named1(g)'
      BY <1>4, <3>2, <3>3 DEF Named1
    <3> QED BY <3>1, <3>3, <3>4
  <2>2. CASE g \in Out
    <3>1. (g.msg \notin taken => sent[g.msg] = g.name.id) /\ Named1(g)
      BY <2>2 DEF Placed, Stamped
    <3>2. PICK o \in Msg : sent[o] = g.name.id /\ (o = g.msg \/ Nameless(o))
      BY <3>1 DEF Named1
    <3>3. o # m
      BY <1>4, <2>2, <3>2, OutFiles, IdIsSome
    <3>4. sent'[o] = g.name.id
      BY <1>5, <3>2, <3>3
    <3>5. o = g.msg \/ (Nameless(o))'
      <4> SUFFICES ASSUME Nameless(o)
                   PROVE  Nameless(o)'
        BY <3>2
      <4>1. \A h \in Out' : h.msg = o => o \in taken'
        BY <1>2, <1>6, <3>3 DEF Nameless
      <4> QED BY <4>1 DEF Nameless
    <3>6. Named1(g)'
      BY <3>4, <3>5 DEF Named1
    <3>7. g.msg \notin taken' => sent'[g.msg] = g.name.id
      BY <1>5, <1>6, <1>8, <2>2, <3>1, OutFiles
    <3> QED BY <3>6, <3>7
  <2> QED BY <1>2, <2>1, <2>2
<1>11. Gone'
  <2> SUFFICES ASSUME NEW o \in Delivered', Copies(o)' = {}
               PROVE  Excused(o)'
    BY DEF Gone
  <2>1. o \in Msg /\ sent'[o] # None /\ \A g \in Out' : g.msg # o
    BY DEF Delivered, Copies, Out
  <2>2. CASE o = m
    <3>1. m \in late' \cup taken'
      BY <1>2, <1>6, <1>7, <2>1, <2>2
    <3> QED BY <2>2, <3>1 DEF Excused
  <2>3. CASE o # m
    <3>1. o \in Delivered
      BY <1>5, <2>1, <2>3 DEF Delivered
    <3>2. Copies(o) = {}
      BY <1>2, <2>1 DEF Copies, Out
    <3>3. Excused(o)
      BY <3>1, <3>2 DEF Placed, Gone
    <3>4. CASE o \in late \cup taken
      BY <1>6, <3>4 DEF Excused
    <3>5. CASE Twin(o)
      <4>1. PICK e \in Msg : e # o /\ sent[e] # None /\ sent[e] = sent[o]
        BY <3>5 DEF Twin, Delivered
      <4>2. sent'[e] = sent[e] /\ sent'[o] = sent[o]
        BY <1>4, <1>5, <2>1, <4>1
      <4>3. Twin(o)'
        BY <4>1, <4>2 DEF Twin, Delivered
      <4> QED BY <4>3 DEF Excused
    <3> QED BY <3>3, <3>4, <3>5 DEF Excused
  <2> QED BY <2>2, <2>3
<1> QED BY <1>9, <1>10, <1>11 DEF Placed

\* A step that only takes files outside tmp/ on, or removes what is excused, keeps the rest.
LEMMA OthersPlaced ==
  ASSUME MailAssumption, DiskOK, JobsOK, Placed, sent' = sent, taken \subseteq taken',
         late \subseteq late',
         \A g \in Out' : \E h \in Out : g.msg = h.msg /\ g.name.id = h.name.id,
         \A g, h \in Out' : g.msg = h.msg /\ g.msg \notin taken' => g = h,
         \A g \in Out : (\E h \in Out' : h.msg = g.msg) \/ (Excused(g.msg))'
  PROVE  Placed'
<1>1. Once'
  BY DEF Once
<1>2. \A o \in Msg : Nameless(o) => (Nameless(o))'
  BY DEF Nameless
<1>3. Stamped'
  <2> SUFFICES ASSUME NEW g \in Out'
               PROVE  (g.msg \notin taken' => sent'[g.msg] = g.name.id) /\ Named1(g)'
    BY DEF Stamped
  <2>1. PICK h \in Out : g.msg = h.msg /\ g.name.id = h.name.id
    OBVIOUS
  <2>2. (h.msg \notin taken => sent[h.msg] = h.name.id) /\ Named1(h)
    BY DEF Placed, Stamped
  <2>3. PICK o \in Msg : sent[o] = h.name.id /\ (o = h.msg \/ Nameless(o))
    BY <2>2 DEF Named1
  <2>4. Named1(g)'
    BY <1>2, <2>1, <2>3 DEF Named1
  <2> QED BY <2>1, <2>2, <2>4
<1>4. Gone'
  <2> SUFFICES ASSUME NEW o \in Delivered', Copies(o)' = {}
               PROVE  Excused(o)'
    BY DEF Gone
  <2>1. o \in Delivered /\ \A g \in Out' : g.msg # o
    BY DEF Delivered, Copies, Out
  <2>2. CASE Copies(o) = {}
    <3>1. Excused(o)
      BY <2>1, <2>2 DEF Placed, Gone
    <3> QED BY <3>1 DEF Excused, Twin, Delivered
  <2>3. CASE Copies(o) # {}
    <3>1. PICK g \in Out : g.msg = o
      BY <2>3 DEF Copies, Out
    <3> QED BY <2>1, <3>1
  <2> QED BY <2>2, <2>3
<1> QED BY <1>1, <1>3, <1>4 DEF Placed

LEMMA ShiftPlaced ==
  ASSUME MailAssumption, DiskOK, JobsOK, Placed, UNCHANGED <<sent, taken>>,
         NEW f \in Out, NEW b \in Box, NEW d \in Kept, NEW n \in Name, Shift(f, b, d, n)
  PROVE  Placed'
<1> DEFINE new == [box |-> b, dir |-> d, name |-> n, msg |-> f.msg]
<1>1. /\ Out' = (Out \ ({f} \cup Entry(b, d, n))) \cup {new}
      /\ new.msg = f.msg /\ new.name = n
  BY ShiftOut
<1> HIDE DEF new
<1>2. n.id = f.name.id /\ late \subseteq late'
  BY DEF Shift
<1>3. \A g \in Out' : \E h \in Out : g.msg = h.msg /\ g.name.id = h.name.id
  BY <1>1, <1>2
<1>4. \A g, h \in Out' : g.msg = h.msg /\ g.msg \notin taken' => g = h
  <2>1. \A g \in Out : g.msg = f.msg /\ g.msg \notin taken => g = f
    BY DEF Placed, Once
  <2> QED BY <1>1, <2>1 DEF Placed, Once
<1>5. ASSUME NEW g \in Out, ~\E h \in Out' : h.msg = g.msg
      PROVE  (Excused(g.msg))'
  <2>1. g \in Entry(b, d, n) /\ g # f
    BY <1>1, <1>5
  <2>2. g.name.id = f.name.id
    BY <1>2, <2>1 DEF Entry
  <2>3. g.msg \in taken \/ Twin(g.msg)
    BY <2>1, <2>2, TwinOf DEF Placed
  <2> QED BY <2>3 DEF Excused, Twin, Delivered
<1> QED BY <1>2, <1>3, <1>4, <1>5, OthersPlaced

LEMMA PlacedKept ==
  ASSUME MailAssumption, DiskOK, JobsOK, Sending, Placed, Merged,
         NEW p \in Proc, Begin(p) \/ Step(p) \/ Crash(p)
  PROVE  Placed'
<1>1. Course(p) /\ (Quiet \/ Touches(p))
  BY EveryCourse
<1>2. late \subseteq late' /\ taken \subseteq taken'
  BY Histories
<1>3. ASSUME Out' = Out, sent' = sent
      PROVE  Placed'
  <2>1. \A g, h \in Out' : g.msg = h.msg /\ g.msg \notin taken' => g = h
    BY <1>2, <1>3 DEF Placed, Once
  <2> QED BY <1>2, <1>3, <2>1, OthersPlaced
<1>4. CASE Quiet
  BY <1>3, <1>4 DEF Quiet, Out
<1>5. CASE OpenTmp(p)
  <2>1. sent' = sent
    BY <1>5 DEF OpenTmp, Elsewhere
  <2> QED BY <1>3, <1>5, <2>1, TmpOut
<1>6. CASE Link(p)
  <2>1. Refuses(p) => sent' = sent
    BY Zenon DEF Refuses
  <2>2. pc[p] = "link" /\ taken' = taken \cup Others(p) /\ (Refuses(p) \/ Delivers(p))
    BY <1>6, LinkCases
  <2>3. Delivers(p) => sent' = [sent EXCEPT ![job[p].msg] = job[p].id]
    BY Zenon DEF Delivers
  <2> QED BY <1>2, <1>3, <2>1, <2>2, <2>3, TmpOut, DeliveryPlaced
<1>7. CASE RemoveTmp(p)
  <2>1. sent' = sent
    BY <1>7 DEF RemoveTmp
  <2> QED BY <1>3, <1>7, <2>1, TmpOut
<1>8. CASE MarkRead(p) \/ Move(p)
  <2>1. UNCHANGED <<sent, taken>>
    BY <1>8, MoveCases
  <2> QED BY <1>4, <1>8, <2>1, MoveCases, ShiftPlaced
<1>9. CASE RemoveAll(p)
  <2>1. /\ files' = {f \in files : f.box # job[p].box} /\ sent' = sent /\ pc[p] = "removeall"
    BY <1>9 DEF RemoveAll
  <2>2. Out' = {f \in Out : f.box # job[p].box}
    BY <2>1 DEF Out
  <2>3. job[p].cmd = "migrate" /\ job[p].dir = "archive" /\ job[p].todo = {}
    BY <2>1 DEF JobsOK, Fit, Merges
  <2>4. ASSUME NEW g \in Out
        PROVE  (\E h \in Out' : h.msg = g.msg) \/ (Excused(g.msg))'
    <3>1. CASE g.box # job[p].box
      BY <2>2, <3>1
    <3>2. CASE g.box = job[p].box
      <4>1. ~Ahead(p, g)
        BY <2>1, <2>3, OutFiles DEF Ahead, Later, Kept
      <4>2. Excused(g.msg)
        BY <2>3, <3>2, <4>1 DEF Merged
      <4> QED BY <4>2, ExcusedStays, OutFiles
    <3> QED BY <3>1, <3>2
  <2>5. \A g, h \in Out' : g.msg = h.msg /\ g.msg \notin taken' => g = h
    BY <1>2, <2>2 DEF Placed, Once
  <2>6. \A g \in Out' : \E h \in Out : g.msg = h.msg /\ g.name.id = h.name.id
    BY <2>2
  <2> QED BY <1>2, <2>1, <2>4, <2>5, <2>6, OthersPlaced
<1> QED BY <1>1, <1>4, <1>5, <1>6, <1>7, <1>8, <1>9 DEF Touches

\* A merge has before it, or excused, all that its mailbox holds, whoever else moves it.
LEMMA MergedKept ==
  ASSUME MailAssumption, DiskOK, JobsOK, Sending, Merged, NEW p \in Proc,
         Begin(p) \/ Step(p) \/ Crash(p)
  PROVE  Merged'
<1>1. Course(p) /\ (Quiet \/ Touches(p))
  BY EveryCourse
<1>2. late \subseteq late' /\ taken \subseteq taken'
  BY Histories
<1>3. \A f \in Out : Excused(f.msg) => (Excused(f.msg))'
  BY ExcusedStays, OutFiles
<1> SUFFICES ASSUME NEW q \in Proc, job'[q].cmd = "migrate", NEW f \in Out', f.box = job'[q].box
             PROVE  (Excused(f.msg))' \/ Ahead(q, f)'
  BY DEF Merged
<1>4. CASE q = p
  <2>1. MergesOn(p)
    BY <1>1 DEF Course
  <2>2. CASE job'[p].dir = "none"
    BY <1>4, <2>2 DEF Ahead, Later
  <2>3. CASE job[p].cmd = "migrate" /\ job'[p].box = job[p].box /\ Move(p)
    <3>1. PICK g \in Out, b \in Box, d \in Kept, n \in Name : Shift(g, b, d, n) /\ Merge1(p, g, b)
      <4>1. Nothing.cmd = "none"
        BY DEF Nothing
      <4> QED BY <1>4, <2>3, <4>1, MoveCases
    <3>2. /\ g.box = job[p].box /\ g.dir = job[p].dir /\ g.name = job[p].name
          /\ job'[p].todo = job[p].todo /\ job'[p].dir = job[p].dir /\ b # job[p].box
      BY <2>3, <3>1 DEF Merge1
    <3>3. f \in Out /\ f # g
      BY <1>4, <2>3, <3>1, <3>2, ShiftOut
    <3>4. Excused(f.msg) \/ Ahead(p, f)
      BY <1>4, <2>3, <3>3 DEF Merged
    <3>5. ~(f.dir = job[p].dir /\ job[p].name = f.name)
      BY <1>4, <2>3, <3>2, <3>3, OutFiles DEF DiskOK
    <3>6. Ahead(p, f) => Ahead(p, f)'
      BY <3>2, <3>5 DEF Ahead
    <3> QED BY <1>3, <1>4, <3>3, <3>4, <3>6
  <2>4. CASE /\ job[p].cmd = "migrate" /\ job'[p].box = job[p].box /\ Quiet /\ pc[p] # "move"
             /\ job'[p].dir = job[p].dir
             /\ \A e \in job[p].todo \ job'[p].todo : pc'[p] = "move" /\ job'[p].name = e.name
    <3>1. f \in Out
      BY <2>4 DEF Quiet, Out
    <3>2. Excused(f.msg) \/ Ahead(p, f)
      BY <1>4, <2>4, <3>1 DEF Merged
    <3>3. Ahead(p, f) => Ahead(p, f)'
      BY <2>4 DEF Ahead
    <3> QED BY <1>3, <1>4, <3>1, <3>2, <3>3
  <2>5. CASE /\ job[p].cmd = "migrate" /\ job'[p].box = job[p].box /\ Quiet /\ pc[p] # "move"
             /\ job[p].todo = {} /\ job[p].dir # "archive"
             /\ job'[p].dir = NextDir[job[p].dir]
             /\ job'[p].todo = Rows(job[p].box, job'[p].dir)
    <3>1. f \in Out /\ f.dir \in Kept /\ f \in files
      BY <2>5, OutFiles DEF Quiet, Out
    <3>2. Excused(f.msg) \/ Ahead(p, f)
      BY <1>4, <2>5, <3>1 DEF Merged
    <3>3. job[p].dir \in {"none", "new", "cur"}
      BY <2>5 DEF JobsOK, Fit, Merges, Kept
    <3>4. f.dir = job'[p].dir => \E e \in job'[p].todo : e.name = f.name
      <4> SUFFICES ASSUME f.dir = job'[p].dir
                   PROVE  \E e \in Rows(job[p].box, job'[p].dir) : e.name = f.name
        BY <2>5
      <4>1. f \in At(job[p].box, job'[p].dir)
        BY <1>4, <2>5, <3>1 DEF At
      <4>2. [name |-> f.name, msg |-> f.msg, dir |-> job'[p].dir] \in Rows(job[p].box, job'[p].dir)
        BY <4>1 DEF Rows
      <4> QED BY <4>2
    <3>5. Ahead(p, f) => f.dir = job'[p].dir \/ Later(job'[p].dir, f.dir)
      BY <2>5, <3>1, <3>3 DEF Ahead, Later, NextDir, Kept
    <3>6. Ahead(p, f) => Ahead(p, f)'
      BY <3>4, <3>5 DEF Ahead
    <3> QED BY <1>3, <1>4, <3>1, <3>2, <3>6
  <2> QED BY <1>4, <2>1, <2>2, <2>3, <2>4, <2>5 DEF MergesOn
<1>5. CASE q # p
  <2>1. pc'[q] = pc[q] /\ job'[q] = job[q]
    BY <1>1, <1>5 DEF Course
  <2>2. \A g : Ahead(q, g) = Ahead(q, g)'
    BY <2>1 DEF Ahead
  <2>3. f \in Out => (Excused(f.msg))' \/ Ahead(q, f)'
    BY <1>3, <2>1, <2>2 DEF Merged
  <2>4. Out' \subseteq Out => (Excused(f.msg))' \/ Ahead(q, f)'
    BY <2>3
  <2>5. Merging(job[q].box)
    BY <2>1 DEF Merging
  <2>6. CASE Quiet
    BY <2>4, <2>6 DEF Quiet, Out
  <2>7. CASE OpenTmp(p) \/ RemoveTmp(p)
    BY <2>4, <2>7, TmpOut
  <2>8. CASE Link(p)
    <3>1. taken' = taken \cup Others(p) /\ (Refuses(p) \/ Delivers(p))
      BY <2>8, LinkCases
    <3>2. CASE Refuses(p)
      BY <2>4, <3>2, TmpOut
    <3>3. CASE Delivers(p)
      <4>1. PICK g \in files :
              LET new == [box |-> job[p].box, dir |-> "new", name |-> Plain(job[p].id),
                          msg |-> g.msg] IN
              /\ Tmp(p) = {g} /\ Out' = Out \cup {new} /\ new.msg = g.msg /\ new.box = job[p].box
        BY <3>3, DeliversOut
      <4>2. CASE f \notin Out
        <5>1. f.msg = g.msg /\ f.box = job[p].box
          BY <4>1, <4>2
        <5>2. CASE g.msg = job[p].msg
          <6>1. late' = IF Merging(job[p].box) THEN late \cup {job[p].msg} ELSE late
            BY <3>3, Zenon DEF Delivers
          <6>2. f.msg \in late'
            BY <2>1, <2>5, <5>1, <5>2, <6>1
          <6> QED BY <6>2 DEF Excused
        <5>3. CASE g.msg # job[p].msg
          <6>1. f.msg \in taken'
            BY <3>1, <4>1, <5>1, <5>3 DEF Others
          <6> QED BY <6>1 DEF Excused
        <5> QED BY <5>2, <5>3
      <4> QED BY <2>3, <4>2
    <3> QED BY <3>1, <3>2, <3>3
  <2>9. CASE MarkRead(p) \/ Move(p)
    <3>1. ASSUME NEW g \in Out, NEW b \in Box, NEW d \in Kept, NEW n \in Name, Shift(g, b, d, n),
                 f \notin Out
          PROVE  (Excused(f.msg))' \/ Ahead(q, f)'
      <4>1. f.msg = g.msg /\ f.box = b /\ f.dir = d
        BY <3>1, ShiftOut
      <4>2. CASE b = g.box /\ Later(g.dir, d)
        <5>1. Excused(g.msg) \/ Ahead(q, g)
          BY <2>1, <4>1, <4>2 DEF Merged
        <5>2. Ahead(q, g) => Later(job[q].dir, d)
          BY <4>2, OutFiles DEF Ahead, Later, Kept
        <5>3. Ahead(q, g) => Ahead(q, f)'
          BY <2>1, <4>1, <5>2 DEF Ahead
        <5> QED BY <1>3, <4>1, <5>1, <5>3
      <4>3. CASE late' = IF Merging(b) THEN late \cup {g.msg} ELSE late
        <5>1. f.msg \in late'
          BY <2>1, <2>5, <4>1, <4>3
        <5> QED BY <5>1 DEF Excused
      <4> QED BY <3>1, <4>2, <4>3 DEF Shift
    <3> QED BY <2>3, <2>6, <2>9, <3>1, MoveCases
  <2>10. CASE RemoveAll(p)
    <3>1. files' \subseteq files
      BY <2>10 DEF RemoveAll
    <3> QED BY <2>4, <3>1 DEF Out
  <2> QED BY <1>1, <2>6, <2>7, <2>8, <2>9, <2>10 DEF Touches
<1> QED BY <1>4, <1>5

LEMMA AtTheStart ==
  ASSUME MailAssumption, Init
  PROVE  Sending /\ Placed /\ Merged
<1>1. /\ \A p \in Proc : pc[p] = "idle" /\ job[p] = Nothing
      /\ Out = {} /\ Delivered = {}
  BY DEF Init, Out, Delivered
<1>2. Nothing.msg = None /\ Nothing.cmd = "none"
  BY DEF Nothing
<1>3. Sending
  BY <1>1, <1>2 DEF Sending, Unsent, Apart, Own, OnSending
<1>4. Placed
  BY <1>1 DEF Placed, Once, Stamped, Gone
<1>5. Merged
  BY <1>1, <1>2 DEF Merged
<1> QED BY <1>3, <1>4, <1>5

MailInv == DiskOK /\ JobsOK /\ Sending /\ Placed /\ Merged

LEMMA MailKept ==
  ASSUME MailAssumption, MailInv, [Next]_vars
  PROVE  MailInv'
<1>1. DiskOK' /\ JobsOK'
  BY DiskKept, JobsKept DEF MailInv
<1>2. CASE UNCHANGED vars
  <2>1. UNCHANGED <<files, sent, late, taken, pc, job>>
    BY <1>2 DEF vars
  <2>2. Sending'
    BY <2>1 DEF MailInv, Sending, Unsent, Apart, Own, Mine, Plain
  <2>3. Out' = Out /\ \A m : Excused(m)' = Excused(m)
    BY <2>1 DEF Out, Excused, Twin, Delivered
  <2>4. Placed'
    <3>1. \A g, h \in Out' : g.msg = h.msg /\ g.msg \notin taken' => g = h
      BY <2>1, <2>3 DEF MailInv, Placed, Once
    <3> QED BY <2>1, <2>3, <3>1, OthersPlaced DEF MailInv
  <2>5. Merged'
    BY <2>1, <2>3 DEF MailInv, Merged, Ahead
  <2> QED BY <1>1, <2>2, <2>4, <2>5 DEF MailInv
<1>3. ASSUME NEW p \in Proc, Begin(p) \/ Step(p) \/ Crash(p)
      PROVE  MailInv'
  BY <1>1, <1>3, SendingKept, PlacedKept, MergedKept DEF MailInv
<1> QED BY <1>2, <1>3 DEF Next

LEMMA MailHolds == ASSUME MailAssumption PROVE Spec => []MailInv
<1>1. Init => MailInv
  BY DiskStarts, AtTheStart DEF MailInv
<1>2. MailInv /\ [Next]_vars => MailInv'
  BY MailKept
<1> QED BY <1>1, <1>2, PTL DEF Spec

\* A message that was delivered is in exactly one place for good, however readers,
\* archivers, reclaims and merges interleave and wherever they die, but for the named
\* exceptions: deliverOnce, Read, Archive, reclaimOne, MergeMailbox.
THEOREM DeliveriesKept == ASSUME MailAssumption PROVE Spec => []DeliveredKept
<1>1. ASSUME MailInv
      PROVE  DeliveredKept
  <2> SUFFICES ASSUME NEW m \in Delivered \ taken
               PROVE  /\ Cardinality(Copies(m)) <= 1
                      /\ Copies(m) = {} => Twin(m) \/ m \in late
    BY DEF DeliveredKept
  <2>1. Copies(m) = {} => Twin(m) \/ m \in late
    BY <1>1 DEF MailInv, Placed, Gone, Excused
  <2>2. CASE Copies(m) = {}
    <3>1. Cardinality(Copies(m)) = 0
      BY <2>2, FS_EmptySet
    <3> QED BY <2>1, <3>1
  <2>3. CASE Copies(m) # {}
    <3>1. PICK f \in Copies(m) : TRUE
      BY <2>3
    <3>2. \A g \in Copies(m) : g = f
      BY <1>1, <3>1 DEF MailInv, Placed, Once, Copies, Out
    <3>3. Copies(m) = {f}
      BY <3>1, <3>2
    <3>4. Cardinality(Copies(m)) = 1
      BY <3>3, FS_Singleton
    <3> QED BY <2>1, <3>4
  <2> QED BY <2>2, <2>3
<1> QED BY <1>1, MailHolds, PTL

-----------------------------------------------------------------------------
(***************************************************************************)
(* What is never replaced.                                                 *)
(***************************************************************************)
\* A step that sends takes no message from where it is, for it only ever removes a tmp
\* file; and a registration goes only with its mailbox (deliverOnce, Register).
LEMMA NothingReplacedStep ==
  ASSUME MailAssumption, DiskOK, JobsOK, [Next]_vars
  PROVE  KeepStep \/ UNCHANGED vars
<1> SUFFICES ASSUME ~UNCHANGED vars
             PROVE  KeepStep
  OBVIOUS
<1>1. ASSUME NEW p \in Proc, OpenTmp(p) \/ Link(p) \/ RemoveTmp(p)
      PROVE  Stored \subseteq Stored'
  <2>1. Out \subseteq Out'
    <3>1. Link(p) => Refuses(p) \/ Delivers(p)
      BY LinkCases
    <3> QED BY <1>1, <3>1, TmpOut, DeliversOut
  <2> QED BY <2>1 DEF Stored, Out
<1>2. ASSUME NEW b \in Box, record[b] # None, record'[b] # record[b]
      PROVE  record'[b] = None /\ ~\E d \in Dirs : <<b, d>> \in dirs'
  <2>1. PICK p \in Proc : Begin(p) \/ Step(p) \/ Crash(p)
    BY DEF Next
  <2>2. UNCHANGED record \/ LinkRecord(p) \/ RemoveAll(p)
    <3>1. Begin(p) => UNCHANGED record
      BY DEF Begin, Send, Reply, Register, Read, Archive, Address, List, Reclaim, Migrate,
             Begun, OnDisk
    <3>2. Link(p) => UNCHANGED record
      BY LinkCases
    <3> QED BY <2>1, <3>1, <3>2
            DEF Step, Ensure, OpenTmp, Elsewhere, RemoveTmp, IsRegistered, ReadNew, MarkRead,
                StatCur, StatNew, ListNew, ListCur, Listed, Take, ReclaimEnd, Dest, DestFor, Move,
                MergeDir, MergeOne, Carry, Crash, OnDisk
  <2>3. ~LinkRecord(p)
    <3> SUFFICES ASSUME LinkRecord(p)
                 PROVE  FALSE
      OBVIOUS
    <3>1. record' = record \/ (record[Named(p)] = None /\ record' = [record EXCEPT ![Named(p)] = p])
      BY DEF LinkRecord
    <3> QED BY <1>2, <3>1 DEF DiskOK
  <2>4. RemoveAll(p)
    BY <1>2, <2>2, <2>3
  <2>5. /\ record' = [record EXCEPT ![job[p].box] = None]
        /\ dirs' = {d \in dirs : d[1] # job[p].box}
    BY <2>4 DEF RemoveAll
  <2>6. b = job[p].box
    BY <1>2, <2>5 DEF DiskOK
  <2> QED BY <2>5, <2>6 DEF DiskOK
<1> QED BY <1>1, <1>2 DEF KeepStep

\* No delivery destroys a message that is there, whatever its id collides with, and no
\* registration replaces one (deliverOnce, Register).
THEOREM LinksReplaceNothing == ASSUME MailAssumption PROVE Spec => NothingReplaced
<1> DEFINE Kind == DiskOK /\ JobsOK
<1>1. Init => Kind
  BY DiskStarts
<1>2. Kind /\ [Next]_vars => Kind'
  BY DiskKept, JobsKept
<1>3. Kind /\ [Next]_vars => [KeepStep]_vars
  BY NothingReplacedStep
<1> QED BY <1>1, <1>2, <1>3, PTL DEF Spec, NothingReplaced

-----------------------------------------------------------------------------
(***************************************************************************)
(* What a listing shows.  The name of a canonical mailbox is shorter than  *)
(* that of its stray one (canonicalAgent trims prefixes), so a message     *)
(* that a merge took out of a mailbox does not come back to it; and it     *)
(* goes from new/ to cur/ and never back.                                  *)
(***************************************************************************)
Shortens(Len) == \A b \in Box : Canonical[b] # b => Len[Canonical[b]] < Len[b]
Seen(p, m) == \E r \in job[p].list : r.msg = m
Rest(p) == job[p].was \ taken

\* where a message is that was in the mailbox when the listing began
Found1(p, f, Len) ==
    /\ f.box = job[p].box \/ Len[f.box] < Len[job[p].box]
    /\ pc[p] = "listcur" /\ f.dir = "new" => Seen(p, f.msg)
    /\ pc[p] = "listed" /\ f.box = job[p].box /\ f.dir # "archive" => Seen(p, f.msg)

Listings(Len) ==
    \A p \in Proc : pc[p] \in {"listcur", "listed"} =>
      /\ Rest(p) \subseteq Delivered
      /\ \A f \in Out : f.msg \in Rest(p) => Found1(p, f, Len)

LEMMA ListingsBegin ==
  ASSUME MailAssumption, MailInv, NEW p \in Proc, NEW Len \in [Box -> Nat], Listings(Len),
         ListNew(p) \/ ListCur(p), pc'[p] \in {"listcur", "listed"}
  PROVE  /\ Rest(p)' \subseteq Delivered
         /\ \A f \in Out : f.msg \in Rest(p)' => (Found1(p, f, Len))'
<1>1. Fit(pc[p], job[p]) /\ job[p] \in Job
  BY DEF MailInv, JobsOK
<1>2. taken' = taken
  BY DEF ListNew, ListCur, OnDisk
<1>3. CASE ListNew(p)
  <2> DEFINE j == [job[p] EXCEPT !.list = Rows(job[p].box, "new"), !.was = Active(job[p].box)]
  <2>1. pc[p] = "listnew" /\ Goto(p, "listcur", j)
    BY <1>3 DEF ListNew, ListOrder
  <2>2. j.list = Rows(job[p].box, "new") /\ j.was = Active(job[p].box) /\ j.box = job[p].box
    BY <1>1 DEF Job
  <2> HIDE DEF j
  <2>3. pc'[p] = "listcur" /\ job'[p] = j
    BY <2>1, Turns DEF MailInv
  <2>4. ASSUME NEW m \in Rest(p)'
        PROVE  /\ m \in Delivered
               /\ \A f \in Out : f.msg = m => f.box = job[p].box
    <3>1. m \notin taken /\ m \in Active(job[p].box)
      BY <1>2, <2>2, <2>3, <2>4 DEF Rest
    <3>2. PICK g \in Out : g.msg = m /\ g.box = job[p].box
      BY <3>1 DEF Active, At, Out
    <3>3. sent[m] # None /\ m \in Msg
      BY <3>1, <3>2, OutFiles, IdIsSome DEF MailInv, Placed, Stamped
    <3> QED BY <3>1, <3>2, <3>3 DEF Delivered, MailInv, Placed, Once
  <2>5. ASSUME NEW f \in Out, f.msg \in Rest(p)'
        PROVE  (Found1(p, f, Len))'
    <3>1. f.box = job[p].box
      BY <2>4, <2>5
    <3>2. f.dir = "new" => \E r \in Rows(job[p].box, "new") : r.msg = f.msg
      <4> SUFFICES ASSUME f.dir = "new"
                   PROVE  \E r \in Rows(job[p].box, "new") : r.msg = f.msg
        OBVIOUS
      <4>1. f \in At(job[p].box, "new")
        BY <3>1 DEF At, Out
      <4>2. [name |-> f.name, msg |-> f.msg, dir |-> "new"] \in Rows(job[p].box, "new")
        BY <4>1 DEF Rows
      <4> QED BY <4>2
    <3>3. f.dir = "new" => (Seen(p, f.msg))'
      BY <2>2, <2>3, <3>2 DEF Seen
    <3> QED BY <2>2, <2>3, <3>1, <3>3 DEF Found1
  <2> QED BY <2>4, <2>5
<1>4. CASE ListCur(p)
  <2> DEFINE rows == job[p].list \cup Rows(job[p].box, "cur")
             j == [job[p] EXCEPT !.list = rows]
             k == [job[p] EXCEPT !.list = rows, !.todo = Superseded(rows), !.was = {}]
  <2>1. pc[p] = "listcur" /\ (Goto(p, "listed", j) \/ Goto(p, "take", k))
    BY <1>4 DEF ListCur, ListOrder
  <2>2. Goto(p, "listed", j)
    BY <2>1, Turns DEF MailInv
  <2>3. j.list = rows /\ j.was = job[p].was /\ j.box = job[p].box
    BY <1>1 DEF Job
  <2> HIDE DEF j, k, rows
  <2>4. pc'[p] = "listed" /\ job'[p] = j
    BY <2>2, Turns DEF MailInv
  <2>5. Rest(p)' = Rest(p)
    BY <1>2, <2>3, <2>4 DEF Rest
  <2>6. Rest(p) \subseteq Delivered /\ \A f \in Out : f.msg \in Rest(p) => Found1(p, f, Len)
    BY <2>1 DEF Listings
  <2>7. ASSUME NEW f \in Out, f.msg \in Rest(p)
        PROVE  (Found1(p, f, Len))'
    <3>1. Found1(p, f, Len)
      BY <2>6, <2>7
    <3>2. f.dir = "new" => (Seen(p, f.msg))'
      BY <2>1, <2>3, <2>4, <3>1 DEF Found1, Seen, rows
    <3>3. ASSUME f.dir = "cur", f.box = job[p].box
          PROVE  (Seen(p, f.msg))'
      <4>1. f \in At(job[p].box, "cur")
        BY <3>3 DEF At, Out
      <4>2. [name |-> f.name, msg |-> f.msg, dir |-> "cur"] \in Rows(job[p].box, "cur")
        BY <4>1 DEF Rows
      <4>3. \E r \in rows : r.msg = f.msg
        BY <4>2 DEF rows
      <4> QED BY <2>3, <2>4, <4>3 DEF Seen
    <3> QED BY <2>3, <2>4, <3>1, <3>2, <3>3, OutFiles DEF Found1, Kept, MailInv
  <2> QED BY <2>5, <2>6, <2>7
<1> QED BY <1>3, <1>4

LEMMA ListingsKept ==
  ASSUME MailAssumption, MailInv, NEW Len \in [Box -> Nat], Shortens(Len), Listings(Len),
         NEW p \in Proc, Begin(p) \/ Step(p) \/ Crash(p)
  PROVE  Listings(Len)'
<1>1. Course(p) /\ (Quiet \/ Touches(p)) /\ DiskOK /\ JobsOK
  BY EveryCourse DEF MailInv
<1>2. taken \subseteq taken'
  BY Histories DEF MailInv
<1>3. Delivered \subseteq Delivered'
  <2>1. ASSUME pc[p] = "link", sent' = [sent EXCEPT ![job[p].msg] = job[p].id]
        PROVE  Delivered \subseteq Delivered'
    <3>1. sent[job[p].msg] = None
      BY <2>1 DEF MailInv, Sending, Unsent, OnSending
    <3> QED BY <2>1, <3>1 DEF Delivered, MailInv, DiskOK
  <2> QED BY <2>1, Histories DEF MailInv, Delivered
<1> SUFFICES ASSUME NEW q \in Proc, pc'[q] \in {"listcur", "listed"}
             PROVE  /\ (Rest(q) \subseteq Delivered)'
                    /\ \A f \in Out' : f.msg \in Rest(q)' => (Found1(q, f, Len))'
  BY DEF Listings
<1>4. CASE q = p
  <2>1. ListNew(p) \/ ListCur(p)
    BY <1>1, <1>4 DEF Course, ListsOn
  <2>2. Out' = Out
    BY <2>1 DEF ListNew, ListCur, OnDisk, Out
  <2>3. /\ Rest(p)' \subseteq Delivered
        /\ \A f \in Out : f.msg \in Rest(p)' => (Found1(p, f, Len))'
    BY <1>4, <2>1, ListingsBegin
  <2> QED BY <1>3, <1>4, <2>2, <2>3
<1>5. CASE q # p
  <2>1. pc'[q] = pc[q] /\ job'[q] = job[q]
    BY <1>1, <1>5 DEF Course
  <2>2. Rest(q)' \subseteq Rest(q)
    BY <1>2, <2>1 DEF Rest
  <2>3. Rest(q) \subseteq Delivered /\ \A f \in Out : f.msg \in Rest(q) => Found1(q, f, Len)
    BY <2>1 DEF Listings
  <2>4. \A f : Found1(q, f, Len) => (Found1(q, f, Len))'
    BY <2>1 DEF Found1, Seen
  <2> SUFFICES ASSUME NEW f \in Out', f.msg \in Rest(q)', f \notin Out
               PROVE  (Found1(q, f, Len))'
    BY <1>3, <2>2, <2>3, <2>4
  <2>5. f.msg \in Rest(q) /\ f.msg \notin taken' /\ f.msg \in Delivered
    BY <2>2, <2>3 DEF Rest
  <2>6. CASE Link(p)
    <3>1. pc[p] = "link" /\ taken' = taken \cup Others(p) /\ (Refuses(p) \/ Delivers(p))
      BY <2>6, LinkCases
    <3>2. Delivers(p)
      BY <1>1, <3>1, TmpOut
    <3>3. PICK g \in files :
            LET new == [box |-> job[p].box, dir |-> "new", name |-> Plain(job[p].id),
                        msg |-> g.msg] IN
            Tmp(p) = {g} /\ Out' = Out \cup {new} /\ new.msg = g.msg
      BY <1>1, <3>2, DeliversOut
    <3>4. f.msg = g.msg
      BY <3>3
    <3>5. g.msg = job[p].msg
      BY <2>5, <3>1, <3>3, <3>4 DEF Others
    <3>6. sent[job[p].msg] = None
      BY <3>1 DEF MailInv, Sending, Unsent, OnSending
    <3> QED BY <2>5, <3>4, <3>5, <3>6 DEF Delivered
  <2>7. CASE MarkRead(p) \/ Move(p)
    <3>1. ASSUME NEW g \in Out, NEW b \in Box, NEW d \in Kept, NEW n \in Name, Shift(g, b, d, n)
          PROVE  (Found1(q, f, Len))'
      <4>1. f.msg = g.msg /\ f.box = b /\ f.dir = d
        BY <1>1, <3>1, ShiftOut
      <4>2. Found1(q, g, Len)
        BY <2>3, <2>5, <4>1
      <4>3. g.dir \in Kept /\ g.box \in Box /\ job[q].box \in Box
        BY <1>1, <2>1, OutFiles DEF JobsOK, Fit
      <4>4. CASE b = g.box /\ Later(g.dir, d)
        <5>1. d # "new" /\ g.dir # "archive"
          BY <4>3, <4>4 DEF Later, Kept
        <5>2. f.dir # "new" /\ f.box = g.box
          BY <4>1, <4>4, <5>1
        <5> QED BY <2>1, <4>1, <4>2, <5>1, <5>2 DEF Found1, Seen
      <4>5. CASE b = Canonical[g.box] /\ b # g.box /\ d = g.dir
        <5>1. Len[b] < Len[g.box] /\ Len[b] \in Nat /\ Len[g.box] \in Nat /\ Len[job[q].box] \in Nat
          BY <3>1, <4>3, <4>5 DEF Shortens
        <5>2. Len[b] < Len[job[q].box]
          <6>1. CASE g.box = job[q].box
            BY <5>1, <6>1
          <6>2. CASE Len[g.box] < Len[job[q].box]
            BY <5>1, <6>2
          <6> QED BY <4>2, <6>1, <6>2 DEF Found1
        <5>3. b # job[q].box
          BY <5>1, <5>2
        <5>4. f.dir = g.dir
          BY <4>1, <4>5
        <5> QED BY <2>1, <4>1, <4>2, <5>2, <5>3, <5>4 DEF Found1, Seen
      <4> QED BY <3>1, <4>4, <4>5 DEF Shift
    <3>2. ~Quiet
      BY DEF Quiet, Out
    <3> QED BY <1>1, <2>7, <3>1, <3>2, MoveCases
  <2>8. CASE RemoveAll(p)
    <3>1. files' \subseteq files
      BY <2>8 DEF RemoveAll
    <3> QED BY <3>1 DEF Out
  <2>9. CASE OpenTmp(p) \/ RemoveTmp(p)
    BY <1>1, <2>9, TmpOut
  <2>10. ~Quiet
    BY DEF Quiet, Out
  <2> QED BY <1>1, <2>6, <2>7, <2>8, <2>9, <2>10 DEF Touches
<1> QED BY <1>4, <1>5

\* No message that was in a mailbox all through a listing is missing from it, as long as
\* the canonical name of a mailbox is shorter than its stray ones (ListAll, canonicalAgent).
THEOREM ListingsComplete ==
  ASSUME MailAssumption, NEW Len \in [Box -> Nat], Shortens(Len)
  PROVE  Spec => []ListingComplete
<1> DEFINE Inv == MailInv /\ Listings(Len)
<1>1. Init => Inv
  <2>1. Init => MailInv
    BY DiskStarts, AtTheStart DEF MailInv
  <2>2. Init => Listings(Len)
    BY DEF Init, Listings
  <2> QED BY <2>1, <2>2
<1>2. Inv /\ [Next]_vars => Inv'
  <2> SUFFICES ASSUME Inv, [Next]_vars
               PROVE  Inv'
    OBVIOUS
  <2>1. MailInv'
    BY MailKept
  <2>2. CASE UNCHANGED vars
    <3>1. UNCHANGED <<files, sent, taken, pc, job>>
      BY <2>2 DEF vars
    <3>2. Listings(Len)'
      BY <3>1 DEF Listings, Rest, Found1, Seen, Out, Delivered
    <3> QED BY <2>1, <3>2
  <2>3. ASSUME NEW p \in Proc, Begin(p) \/ Step(p) \/ Crash(p)
        PROVE  Inv'
    BY <2>1, <2>3, ListingsKept
  <2> QED BY <2>2, <2>3 DEF Next
<1>3. Inv => ListingComplete
  <2> SUFFICES ASSUME Inv, NEW p \in Proc, pc[p] = "listed",
                      NEW m \in (job[p].was \cap Active(job[p].box)) \ taken
               PROVE  m \in {r.msg : r \in job[p].list}
    BY DEF ListingComplete
  <2>1. PICK f \in Out : f.msg = m /\ f.box = job[p].box /\ f.dir # "archive"
    BY DEF Active, At, Out
  <2>2. f.msg \in Rest(p)
    BY <2>1 DEF Rest
  <2>3. Found1(p, f, Len)
    BY <2>1, <2>2 DEF Listings
  <2> QED BY <2>1, <2>3 DEF Found1, Seen
<1> QED BY <1>1, <1>2, <1>3, PTL DEF Spec
-----------------------------------------------------------------------------
(***************************************************************************)
(* What a reclaim leaves.  Before orders the rows, so that each group has  *)
(* a row that is before no other, and that one is not superseded.          *)
(***************************************************************************)
LEMMA LeastOf ==
  ASSUME NEW T \in SUBSET Nat, T # {}
  PROVE  \E k \in T : \A l \in T : k <= l
<1> DEFINE Less == {s \in Nat \X Nat : s[1] < s[2]}
<1>1. IsWellFoundedOn(Less, Nat)
  BY NatLessThanWellFounded, Zenon DEF OpToRel
<1>2. \E k \in T : \A l \in T : <<l, k>> \notin Less
  <2> HIDE DEF Less
  <2> QED BY <1>1, WFMin, Zenon
<1>3. PICK k \in T : \A l \in T : <<l, k>> \notin Less
  BY <1>2
<1>4. ASSUME NEW l \in T
      PROVE  k <= l
  <2>1. <<l, k>> \notin Less /\ l \in Nat /\ k \in Nat
    BY <1>3
  <2> QED BY <2>1
<1> QED BY <1>3, <1>4

LEMMA BeforeOrders ==
  ASSUME MailAssumption, NEW e \in Row, NEW f \in Row, NEW g \in Row
  PROVE  ~Before(e, e) /\ (Before(e, f) /\ Before(f, g) => Before(e, g))
<1>1. ASSUME NEW r \in Row
      PROVE  DateOf[r.msg] \in Nat /\ r.name.id \in Nat /\ r.name.dup \in Nat
  <2>1. r.msg \in Msg /\ r.name \in Name
    BY DEF Row
  <2>2. r.name.id \in Ids /\ r.name.dup \in 0 .. MaxDup
    BY <2>1 DEF Name
  <2>3. DateOf \in [Msg -> Nat] /\ Ids \subseteq Nat /\ MaxDup \in Nat
    BY DEF MailAssumption
  <2>4. DateOf[r.msg] \in Nat
    BY <2>1, <2>3
  <2>5. r.name.id \in Nat
    BY <2>2, <2>3
  <2>6. \A d \in 0 .. MaxDup : d \in Nat
    BY <2>3
  <2> QED BY <2>2, <2>4, <2>5, <2>6, Zenon
<1> QED BY <1>1 DEF Before

LEMMA NewestLeft ==
  ASSUME MailAssumption, NEW rows \in SUBSET Row, IsFiniteSet(rows), NEW e \in rows, keep(e.msg)
  PROVE  \E f \in Group(rows, e) : f \notin Superseded(rows)
<1> DEFINE G == Group(rows, e)
           Newer(f) == {g \in G : Before(f, g)}
           Counts == {Cardinality(Newer(f)) : f \in G}
<1>1. G \subseteq rows /\ e \in G /\ \A f \in G : Group(rows, f) = G
  BY DEF Group
<1>2. IsFiniteSet(G) /\ G \subseteq Row
  BY <1>1, FS_Subset
<1>3. \A f \in G : IsFiniteSet(Newer(f)) /\ Cardinality(Newer(f)) \in Nat
  <2> SUFFICES ASSUME NEW f \in G
               PROVE  IsFiniteSet(Newer(f)) /\ Cardinality(Newer(f)) \in Nat
    OBVIOUS
  <2>1. Newer(f) \subseteq G
    OBVIOUS
  <2> QED BY <1>2, <2>1, FS_Subset, FS_CardinalityType
<1>4. PICK k \in Counts : \A l \in Counts : k <= l
  <2>1. Counts \subseteq Nat
    <3>1. ASSUME NEW l \in Counts
          PROVE  l \in Nat
      <4>1. PICK h \in G : l = Cardinality(Newer(h))
        OBVIOUS
      <4> HIDE DEF Newer, G
      <4> QED BY <1>3, <4>1
    <3> HIDE DEF Counts
    <3> QED BY <3>1
  <2>2. Cardinality(Newer(e)) \in Counts
    BY <1>1, Zenon
  <2> HIDE DEF Counts
  <2> QED BY <2>1, <2>2, LeastOf
<1>5. PICK f \in G : Cardinality(Newer(f)) = k
  BY <1>4
<1>6. Newer(f) = {}
  <2> SUFFICES ASSUME NEW g \in Newer(f)
               PROVE  FALSE
    OBVIOUS
  <2>1. g \in G /\ Before(f, g)
    OBVIOUS
  <2>2. Newer(g) \subseteq Newer(f)
    BY <1>2, <2>1, BeforeOrders
  <2>3. g \notin Newer(g)
    BY <1>2, <2>1, BeforeOrders
  <2>4. Cardinality(Newer(g)) <= Cardinality(Newer(f)) /\ Cardinality(Newer(g)) # Cardinality(Newer(f))
    <3> DEFINE S == Newer(f)
               T == Newer(g)
    <3>1. IsFiniteSet(S) /\ T \subseteq S /\ T # S
      BY <1>3, <2>2, <2>3
    <3> HIDE DEF S, T
    <3>2. Cardinality(T) <= Cardinality(S) /\ (Cardinality(S) = Cardinality(T) => S = T)
      BY <3>1, FS_Subset
    <3> QED BY <3>1, <3>2 DEF S, T
  <2> HIDE DEF Newer, G
  <2>5. Cardinality(Newer(g)) \in Counts /\ Cardinality(Newer(g)) \in Nat /\ k \in Nat
    BY <1>3, <1>5, <2>1, Zenon
  <2> HIDE DEF Counts
  <2>6. k <= Cardinality(Newer(g))
    BY <1>4, <2>5
  <2> QED BY <1>5, <2>4, <2>5, <2>6
<1>7. {g \in Group(rows, f) : Before(f, g)} = {}
  BY <1>1, <1>6
<1>8. Cardinality({g \in Group(rows, f) : Before(f, g)}) = 0
  BY <1>7, FS_EmptySet, Zenon
<1>9. Keep \in Nat /\ Keep # 0
  BY DEF MailAssumption
<1>10. f \notin Superseded(rows)
  <2>1. ~(Cardinality({g \in Group(rows, f) : Before(f, g)}) >= Keep)
    BY <1>8, <1>9
  <2> QED BY <2>1, Zenon DEF Superseded
<1> QED BY <1>5, <1>10

\* A reclaim moves only rows that are superseded in what it listed.
Sweeps ==
    \A p \in Proc : pc[p] \in OnSweep /\ job[p].cmd = "reclaim" =>
      job[p].todo \subseteq Superseded(job[p].list)

\* Of each subject a reclaim leaves where it is a message it listed, but of a group in which
\* a message was listed both in new/ and in cur/ ("A live pointer always survives in every
\* group", reclaim.go).
THEOREM PointerSurvives == ASSUME MailAssumption PROVE Spec => []GroupSpared
<1> DEFINE Inv == DiskOK /\ JobsOK /\ Sweeps
<1>1. Init => Inv
  <2>1. Init => Sweeps
    BY DEF Init, Sweeps, OnSweep
  <2> QED BY <2>1, DiskStarts
<1>2. Inv /\ [Next]_vars => Inv'
  <2> SUFFICES ASSUME Inv, [Next]_vars
               PROVE  Inv'
    OBVIOUS
  <2>1. DiskOK' /\ JobsOK'
    BY DiskKept, JobsKept
  <2>2. CASE UNCHANGED vars
    <3>1. Sweeps'
      BY <2>2 DEF vars, Sweeps
    <3> QED BY <2>1, <3>1
  <2>3. ASSUME NEW p \in Proc, Begin(p) \/ Step(p) \/ Crash(p)
        PROVE  Inv'
    <3>1. /\ \A q \in Proc \ {p} : pc'[q] = pc[q] /\ job'[q] = job[q]
          /\ SweepsOn(p)
      BY <2>3, EveryCourse DEF Course
    <3>2. Sweeps'
      BY <3>1 DEF Sweeps, SweepsOn
    <3> QED BY <2>1, <3>2
  <2> QED BY <2>2, <2>3 DEF Next
<1>3. Inv => GroupSpared
  <2> SUFFICES ASSUME Inv, NEW p \in Proc, Sweeping(p), NEW e \in job[p].todo
               PROVE  \/ Spares(p, e)
                      \/ \E f \in Group(job[p].list, e) : ListedTwice(job[p].list, f.msg)
    BY DEF GroupSpared
  <2>1. e \in Superseded(job[p].list)
    BY DEF Sweeps, Sweeping, OnSweep
  <2>2. e \in job[p].list /\ keep(e.msg)
    BY <2>1 DEF Superseded
  <2>3. job[p].list \in SUBSET Row /\ IsFiniteSet(job[p].list)
    BY DEF JobsOK, Fit, Job
  <2>4. PICK f \in Group(job[p].list, e) : f \notin Superseded(job[p].list)
    BY <2>2, <2>3, NewestLeft
  <2>5. CASE \A r \in Superseded(job[p].list) : r.msg # f.msg
    BY <2>4, <2>5 DEF Spares
  <2>6. ASSUME NEW r \in Superseded(job[p].list), r.msg = f.msg
        PROVE  ListedTwice(job[p].list, f.msg)
    <3>1. r \in job[p].list /\ f \in job[p].list /\ r # f
      BY <2>4 DEF Superseded, Group
    <3> QED BY <2>6, <3>1 DEF ListedTwice
  <2> QED BY <2>4, <2>5, <2>6
<1> QED BY <1>1, <1>2, <1>3, PTL DEF Spec
=============================================================================
