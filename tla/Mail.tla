-------------------------------- MODULE Mail --------------------------------
(***************************************************************************)
(* Mailboxes: internal/mail and the mg mail commands over it.  A mailbox   *)
(* is a directory with tmp/, new/, cur/ and archive/; a message is a file  *)
(* named by its id, and the directory it is in is its state.  There is no  *)
(* lock.  Every action is one system call or one directory listing of one  *)
(* command.                                                                *)
(***************************************************************************)
EXTENDS Naturals, FiniteSets

CONSTANTS
    Proc,            \* processes running mg mail
    None,            \* no process, mailbox, message or name
    Spelling,        \* mailbox names as they can be typed or stand in a From
    Box,             \* the names among them a directory can have
    Canonical,       \* canonicalAgent, from spellings to mailboxes
    Items,           \* mailboxes that a work item is named for
    Made,            \* the mailboxes there are to begin with
    Msg,             \* messages, one for each delivery that is attempted
    Ids,             \* what mintMsgID can return, in order; two mints may agree
    FromOf,          \* the From field of a message
    SubjectOf,       \* its Subject
    DateOf,          \* its Date, 0 when it does not parse
    Generators,      \* the senders a reclaim is asked to sweep
    Cutoff,          \* Now - OlderThan
    Keep,            \* copies a reclaim keeps of each subject
    MaxAttempts,     \* maxDeliveryAttempts
    MaxDup,          \* bound on the .dupN suffixes
    MaxCrashes,      \* bound on the processes that die
    MaxCommands,     \* bound on the commands that are run
    Allowed          \* the commands of each process

Commands == {"send", "reply", "read", "archive", "list", "reclaim", "register",
             "migrate"}

ASSUME MailAssumption ==
    /\ IsFiniteSet(Proc) /\ None \notin Proc \cup Spelling \cup Msg \cup Ids
    /\ Ids \subseteq Nat
    /\ Box \subseteq Spelling /\ Canonical \in [Spelling -> Box] /\ Items \cup Made \subseteq Box
    /\ FromOf \in [Msg -> Spelling] /\ DateOf \in [Msg -> Nat]
    /\ Generators \subseteq Spelling /\ Cutoff \in Nat /\ Keep \in Nat \ {0}
    /\ MaxAttempts \in Nat \ {0} /\ MaxDup \in Nat /\ MaxCrashes \in Nat
    /\ MaxCommands \in Nat
    /\ Allowed \in [Proc -> SUBSET Commands]

VARIABLES
    dirs,            \* the directories there are, as <<box, dir>>
    files,           \* the message files
    record,          \* who registered each mailbox
    pc, job,         \* the next step of each process and what it works on
    sent,            \* history: the id each message was delivered under
    late,            \* history: delivered to a mailbox being merged away
    taken,           \* history: in a tmp file that a sender took for its own
    crashes, begun
vars == <<dirs, files, record, pc, job, sent, late, taken, crashes, begun>>

Dirs == {"tmp", "new", "cur", "archive"}
Name == [id : Ids, dup : 0 .. MaxDup]
File == [box : Box, dir : Dirs, name : Name, msg : Msg]

At(b, d) == {f \in files : f.box = b /\ f.dir = d}
Entry(b, d, n) == {f \in At(b, d) : f.name = n}
Stored == {f.msg : f \in {g \in files : g.dir # "tmp"}}
Exists(b) == \E d \in Dirs : <<b, d>> \in dirs
HasDir(b, d) == <<b, d>> \in dirs
Delivered == {m \in Msg : sent[m] # None}
Unclaimed == {m \in Msg : /\ sent[m] = None
                          /\ \A p \in Proc : job[p].msg # m
                          /\ \A f \in files : f.msg # m}

Nothing == [cmd |-> "none", box |-> None, to |-> None, name |-> None, msg |-> None,
            id |-> None, dir |-> None, vouch |-> FALSE, tries |-> 0,
            list |-> {}, todo |-> {}, was |-> {}]

Goto(p, step, j) ==
    /\ pc' = [pc EXCEPT ![p] = step]
    /\ job' = [job EXCEPT ![p] = j]
Finish(p) == Goto(p, "idle", Nothing)
OnDisk == <<dirs, files, record, sent, late, taken, crashes>>
Begun == begun < MaxCommands /\ begun' = begun + 1 /\ UNCHANGED OnDisk
Elsewhere == <<dirs, record, sent, late, taken, crashes, begun>>

\* rename(2): what had the new name is gone
Moved(f, b, d, n) ==
    files' = (files \ ({f} \cup Entry(b, d, n)))
             \cup {[box |-> b, dir |-> d, name |-> n, msg |-> f.msg]}

\* EnsureMaildir
Maildir(b) == {<<b, "tmp">>, <<b, "new">>, <<b, "cur">>}

(***************************************************************************)
(* mg mail send and reply.  A recipient nothing on disk knows about is     *)
(* refused before anything is written.                                     *)
(***************************************************************************)
Addressable(b, create) == create \/ Exists(b) \/ b \in Items

Send(p) ==
    /\ pc[p] = "idle" /\ "send" \in Allowed[p]
    /\ \E s \in Spelling, create \in BOOLEAN, m \in Unclaimed :
         /\ Addressable(Canonical[s], create)
         /\ Goto(p, "ensure",
                 [Nothing EXCEPT !.cmd = "send", !.box = Canonical[s], !.msg = m,
                                 !.vouch = create /\ ~Exists(Canonical[s])])
    /\ Begun

\* reply peeks at the original, answers its From, and keeps the original's
\* place for afterwards
Reply(p) ==
    /\ pc[p] = "idle" /\ "reply" \in Allowed[p]
    /\ \E o \in {f \in files : f.dir \in {"new", "cur"}}, create \in BOOLEAN,
          m \in Unclaimed :
         LET b == Canonical[FromOf[o.msg]] IN
         /\ Addressable(b, create)
         /\ Goto(p, "ensure",
                 [Nothing EXCEPT !.cmd = "reply", !.box = b, !.msg = m, !.to = o.box,
                                 !.name = o.name, !.vouch = create /\ ~Exists(b)])
    /\ Begun

Ensure(p) ==
    /\ pc[p] = "ensure"
    /\ dirs' = dirs \cup Maildir(job[p].box)
    /\ Goto(p, "open", job[p])
    /\ UNCHANGED <<files, record, sent, late, taken, crashes, begun>>

Plain(id) == [id |-> id, dup |-> 0]

\* the attempt after the last is made too
CollideOnceMore(p) ==
    IF job[p].tries = MaxAttempts THEN Finish(p)
    ELSE Goto(p, "open", [job[p] EXCEPT !.tries = @ + 1, !.id = None])

\* a collision costs an attempt; the last one fails the send
Collide(p) ==
    IF job[p].tries + 1 = MaxAttempts THEN Finish(p)
    ELSE Goto(p, "open", [job[p] EXCEPT !.tries = @ + 1, !.id = None])

\* a fresh id is minted for the attempt, and tmp/ is opened O_EXCL
OpenTmp(p) ==
    /\ pc[p] = "open"
    /\ \E id \in Ids :
         LET b == job[p].box
             tmp == [box |-> b, dir |-> "tmp", name |-> Plain(id), msg |-> job[p].msg]
         IN \/ /\ ~HasDir(b, "tmp")
               /\ Finish(p) /\ UNCHANGED files
            \/ /\ HasDir(b, "tmp") /\ Entry(b, "tmp", Plain(id)) # {}
               /\ Collide(p) /\ UNCHANGED files
            \/ /\ HasDir(b, "tmp") /\ Entry(b, "tmp", Plain(id)) = {}
               /\ files' = files \cup {tmp}
               /\ Goto(p, "link", [job[p] EXCEPT !.id = id])
    /\ UNCHANGED Elsewhere

Tmp(p) == Entry(job[p].box, "tmp", Plain(job[p].id))
\* a merge may remove a tmp file, and another sender with the same id make it anew
Others(p) == {f.msg : f \in Tmp(p)} \ {job[p].msg}
Merging(b) == \E q \in Proc : job[q].cmd = "migrate" /\ job[q].box = b

\* delivery by rename(2), which replaces what has the name
LinkByRename(p) ==
    /\ pc[p] = "link"
    /\ \/ Tmp(p) = {} /\ UNCHANGED <<files, sent>> /\ Finish(p)
       \/ \E f \in Tmp(p) : /\ Moved(f, job[p].box, "new", f.name)
                            /\ sent' = [sent EXCEPT ![job[p].msg] = job[p].id]
                            /\ Goto(p, "unlink", job[p])
    /\ UNCHANGED <<dirs, record, late, taken, crashes, begun>>

\* link(2) refuses a name that is taken; the tmp file is removed either way
Link(p) ==
    /\ pc[p] = "link"
    /\ LET b == job[p].box  n == Plain(job[p].id) IN
       \/ /\ Tmp(p) = {} \/ ~HasDir(b, "new")
          /\ files' = files \ Tmp(p)
          /\ Finish(p) /\ UNCHANGED <<sent, late>>
       \/ /\ Tmp(p) # {} /\ HasDir(b, "new") /\ Entry(b, "new", n) # {}
          /\ files' = files \ Tmp(p)
          /\ Collide(p) /\ UNCHANGED <<sent, late>>
       \/ /\ Tmp(p) # {} /\ HasDir(b, "new") /\ Entry(b, "new", n) = {}
          /\ files' = files \cup {[f EXCEPT !.dir = "new"] : f \in Tmp(p)}
          /\ sent' = [sent EXCEPT ![job[p].msg] = job[p].id]
          /\ late' = IF Merging(b) THEN late \cup {job[p].msg} ELSE late
          /\ Goto(p, "unlink", job[p])
    /\ taken' = taken \cup Others(p)
    /\ UNCHANGED <<dirs, record, crashes, begun>>

\* reply marks the original read only once its answer is delivered
AfterSend(p) ==
    IF job[p].cmd = "reply"
    THEN Goto(p, "new", [Nothing EXCEPT !.cmd = "read", !.box = job[p].to, !.name = job[p].name])
    ELSE Finish(p)

RemoveTmp(p) ==
    /\ pc[p] = "unlink"
    /\ files' = files \ Tmp(p)
    /\ taken' = taken \cup Others(p)
    /\ IF job[p].vouch THEN Goto(p, "registered", job[p]) ELSE AfterSend(p)
    /\ UNCHANGED <<dirs, record, sent, late, crashes, begun>>

(***************************************************************************)
(* mg mail register, and the record --create leaves.                       *)
(***************************************************************************)
\* a stray with a prefix is refused: registering it would mint its twin
Register(p) ==
    /\ pc[p] = "idle" /\ "register" \in Allowed[p]
    /\ \E s \in Spelling :
         /\ s = Canonical[s] \/ ~(s \in Box /\ Exists(s))
         /\ Goto(p, "registered", [Nothing EXCEPT !.cmd = "register", !.box = Canonical[s]])
    /\ Begun

\* a merge registers the mailbox it moved the mail to
Named(p) == IF job[p].cmd = "migrate" THEN job[p].to ELSE job[p].box
AfterRecord(p) == IF job[p].cmd = "migrate" THEN Goto(p, "removeall", job[p]) ELSE AfterSend(p)

IsRegistered(p) ==
    /\ pc[p] = "registered"
    /\ IF record[Named(p)] # None
       THEN AfterRecord(p) /\ UNCHANGED dirs
       ELSE Goto(p, "record", job[p]) /\ dirs' = dirs \cup Maildir(Named(p))
    /\ UNCHANGED <<files, record, sent, late, taken, crashes, begun>>

\* the record is linked into place: first come, first recorded
LinkRecord(p) ==
    /\ pc[p] = "record"
    /\ LET b == Named(p) IN
       \/ /\ ~HasDir(b, "tmp")
          /\ Finish(p) /\ UNCHANGED record
       \/ /\ HasDir(b, "tmp") /\ record[b] # None
          /\ AfterRecord(p) /\ UNCHANGED record
       \/ /\ HasDir(b, "tmp") /\ record[b] = None
          /\ record' = [record EXCEPT ![b] = p]
          /\ AfterRecord(p)
    /\ UNCHANGED <<dirs, files, sent, late, taken, crashes, begun>>

(***************************************************************************)
(* mg mail read and archive, of a message that was seen in a listing.      *)
(***************************************************************************)
Address(p, cmd, step) ==
    /\ pc[p] = "idle" /\ cmd \in Allowed[p]
    /\ \E f \in files :
         /\ f.dir # "tmp" /\ f.box \in {Canonical[s] : s \in Spelling}
         /\ Goto(p, step, [Nothing EXCEPT !.cmd = cmd, !.box = f.box, !.name = f.name])
    /\ Begun
Read(p) == Address(p, "read", "new")
Archive(p) == Address(p, "archive", "statcur")

Here(p, d) == Entry(job[p].box, d, job[p].name)

\* what is not in new/ is looked for in cur/, and shown again or not found
ReadNew(p) ==
    /\ pc[p] = "new"
    /\ IF Here(p, "new") # {} THEN Goto(p, "mark", job[p]) ELSE Finish(p)
    /\ UNCHANGED <<OnDisk, begun>>

MarkRead(p) ==
    /\ pc[p] = "mark"
    /\ dirs' = dirs \cup {<<job[p].box, "cur">>}
    /\ \/ Here(p, "new") = {} /\ UNCHANGED files
       \/ \E f \in Here(p, "new") : Moved(f, job[p].box, "cur", f.name)
    /\ Finish(p)
    /\ UNCHANGED <<record, sent, late, taken, crashes, begun>>

\* archive and reclaim look in cur/ first, then in new/
Found(p, j, d) == Goto(p, IF j.cmd = "archive" THEN "move" ELSE "dest",
                       [j EXCEPT !.dir = d, !.to = j.box])

LookInCur(p, j) ==
    IF Entry(j.box, "cur", j.name) # {} THEN Found(p, j, "cur") ELSE Goto(p, "statnew", j)

StatCur(p) ==
    /\ pc[p] = "statcur"
    /\ LookInCur(p, job[p])
    /\ UNCHANGED <<OnDisk, begun>>

StatNew(p) ==
    /\ pc[p] = "statnew"
    /\ CASE Here(p, "new") # {} -> Found(p, job[p], "new")
         [] Here(p, "new") = {} /\ job[p].cmd = "archive" -> Finish(p)
         [] OTHER -> Goto(p, "take", [job[p] EXCEPT !.name = None])
    /\ UNCHANGED <<OnDisk, begun>>

(***************************************************************************)
(* Listings: new/ and then cur/.                                           *)
(***************************************************************************)
List(p) ==
    /\ pc[p] = "idle" /\ "list" \in Allowed[p]
    /\ \E b \in Box : Exists(b) /\ Goto(p, "listnew", [Nothing EXCEPT !.cmd = "list", !.box = b])
    /\ Begun

\* a sender with a mailbox of its own is refused
Reclaim(p) ==
    /\ pc[p] = "idle" /\ "reclaim" \in Allowed[p]
    /\ \A g \in Generators : ~Exists(Canonical[g])
    /\ \E b \in Box : Exists(b) /\ Goto(p, "listnew", [Nothing EXCEPT !.cmd = "reclaim", !.box = b])
    /\ Begun

Rows(b, d) == {[name |-> f.name, msg |-> f.msg, dir |-> d] : f \in At(b, d)}
Active(b) == {f.msg : f \in At(b, "new") \cup At(b, "cur")}

ListCurFirst == <<"cur", "new">>

ListOrder == <<"new", "cur">>

ListNew(p) ==
    /\ pc[p] = "listnew"
    /\ Goto(p, "listcur", [job[p] EXCEPT !.list = Rows(job[p].box, ListOrder[1]),
                                         !.was = Active(job[p].box)])
    /\ UNCHANGED <<OnDisk, begun>>

(***************************************************************************)
(* Reclaim: of each subject all but the newest Keep rows, if they are old. *)
(***************************************************************************)
\* the sender predicate: the From field, normalized on both sides
keep(m) == Canonical[FromOf[m]] \in {Canonical[g] : g \in Generators}

Before(e, f) ==
    \/ DateOf[e.msg] < DateOf[f.msg]
    \/ /\ DateOf[e.msg] = DateOf[f.msg]
       /\ \/ e.name.id < f.name.id
          \/ /\ e.name.id = f.name.id
             /\ e.name.dup < f.name.dup \/ (e.name.dup = f.name.dup /\ e.dir = "new" /\ f.dir = "cur")

Group(rows, e) == {f \in rows : keep(f.msg) /\ SubjectOf[f.msg] = SubjectOf[e.msg]}

\* the copy that is kept is counted among those before it
SupersededByItself(rows) ==
    {e \in rows : /\ keep(e.msg) /\ DateOf[e.msg] # 0 /\ DateOf[e.msg] < Cutoff
                  /\ Cardinality({f \in Group(rows, e) : f = e \/ Before(e, f)}) >= Keep}

Superseded(rows) ==
    {e \in rows : /\ keep(e.msg)
                  /\ Cardinality({f \in Group(rows, e) : Before(e, f)}) >= Keep
                  /\ DateOf[e.msg] # 0 /\ DateOf[e.msg] < Cutoff}

\* a reclaim goes on with what it listed
ListCur(p) ==
    /\ pc[p] = "listcur"
    /\ LET rows == job[p].list \cup Rows(job[p].box, ListOrder[2]) IN
       IF job[p].cmd = "list" THEN Goto(p, "listed", [job[p] EXCEPT !.list = rows])
       ELSE Goto(p, "take", [job[p] EXCEPT !.list = rows, !.todo = Superseded(rows), !.was = {}])
    /\ UNCHANGED <<OnDisk, begun>>

Listed(p) ==
    /\ pc[p] = "listed"
    /\ Finish(p)
    /\ UNCHANGED <<OnDisk, begun>>

\* the next superseded row, looked for where it may be by now
Take(p) ==
    /\ pc[p] = "take" /\ job[p].cmd = "reclaim"
    /\ \E e \in job[p].todo :
         LookInCur(p, [job[p] EXCEPT !.name = e.name, !.todo = @ \ {e}])
    /\ UNCHANGED <<OnDisk, begun>>

ReclaimEnd(p) ==
    /\ pc[p] = "take" /\ job[p].cmd = "reclaim" /\ job[p].todo = {}
    /\ Finish(p)
    /\ UNCHANGED <<OnDisk, begun>>

\* where a move goes: archive/, or the same directory of the other mailbox
ToDir(p) == IF job[p].cmd = "migrate" THEN job[p].dir ELSE "archive"

\* uniqueDest: the name itself, or the first .dupN that is free
Suffixes(b, d, n) == {k \in n.dup .. MaxDup : Entry(b, d, [n EXCEPT !.dup = k]) = {}}

DestFor(p, n, j) ==
    /\ dirs' = dirs \cup {<<j.to, ToDir(p)>>}
    /\ \E k \in Suffixes(j.to, ToDir(p), n) :
         /\ \A l \in Suffixes(j.to, ToDir(p), n) : k <= l
         /\ Goto(p, "move", [j EXCEPT !.name = n, !.id = k])
    /\ UNCHANGED <<files, record, sent, late, taken, crashes, begun>>

Dest(p) == pc[p] = "dest" /\ DestFor(p, job[p].name, job[p])

\* the rename; a source that is gone ends the command with an error
Move(p) ==
    /\ pc[p] = "move"
    /\ LET n == IF job[p].cmd = "archive" THEN job[p].name
                ELSE [job[p].name EXCEPT !.dup = job[p].id]
       IN \/ /\ Here(p, job[p].dir) = {} \/ (job[p].cmd # "archive" /\ ~HasDir(job[p].to, ToDir(p)))
             /\ Finish(p) /\ UNCHANGED <<dirs, files, late>>
          \/ /\ job[p].cmd = "archive" \/ HasDir(job[p].to, ToDir(p))
             /\ \E f \in Here(p, job[p].dir) :
                  /\ Moved(f, job[p].to, ToDir(p), n)
                  /\ late' = IF job[p].cmd = "migrate" /\ Merging(job[p].to)
                             THEN late \cup {f.msg} ELSE late
             /\ dirs' = dirs \cup {<<job[p].to, ToDir(p)>>}
             /\ IF job[p].cmd = "archive" THEN Finish(p)
                ELSE Goto(p, "take", [job[p] EXCEPT !.name = None, !.id = None])
    /\ UNCHANGED <<record, sent, taken, crashes, begun>>

(***************************************************************************)
(* mg mail migrate: a stray mailbox is merged into its canonical one,      *)
(* directory by directory, and removed.                                    *)
(***************************************************************************)
Migrate(p) ==
    /\ pc[p] = "idle" /\ "migrate" \in Allowed[p]
    /\ \E b \in Box :
         /\ Exists(b) /\ Canonical[b] # b
         /\ Goto(p, "take", [Nothing EXCEPT !.cmd = "migrate", !.box = b,
                                            !.to = Canonical[b], !.dir = "none"])
    /\ Begun

\* cur/ is passed over
NextDirNoCur == [none |-> "new", new |-> "archive", cur |-> "archive"]

NextDir == [none |-> "new", new |-> "cur", cur |-> "archive"]

MergeDir(p) ==
    /\ pc[p] = "take" /\ job[p].cmd = "migrate" /\ job[p].todo = {} /\ job[p].dir # "archive"
    /\ LET d == NextDir[job[p].dir]
           rows == Rows(job[p].box, d)
       IN /\ dirs' = IF rows = {} THEN dirs ELSE dirs \cup {<<job[p].to, d>>}
          /\ Goto(p, "take", [job[p] EXCEPT !.dir = d, !.todo = rows])
    /\ UNCHANGED <<files, record, sent, late, taken, crashes, begun>>

MergeOne(p) ==
    /\ pc[p] = "take" /\ job[p].cmd = "migrate"
    /\ \E e \in job[p].todo : DestFor(p, e.name, [job[p] EXCEPT !.todo = @ \ {e}])

\* all three directories are merged: a registration goes along
Carry(p) ==
    /\ pc[p] = "take" /\ job[p].cmd = "migrate" /\ job[p].todo = {} /\ job[p].dir = "archive"
    /\ IF record[job[p].box] # None
       THEN Goto(p, "registered", job[p])
       ELSE Goto(p, "removeall", job[p])
    /\ UNCHANGED <<OnDisk, begun>>

\* os.RemoveAll, whatever the mailbox holds by now
RemoveAll(p) ==
    /\ pc[p] = "removeall"
    /\ dirs' = {d \in dirs : d[1] # job[p].box}
    /\ files' = {f \in files : f.box # job[p].box}
    /\ record' = [record EXCEPT ![job[p].box] = None]
    /\ late' = late \cup ({f.msg : f \in At(job[p].box, "tmp")} \ Delivered)
    /\ Finish(p)
    /\ UNCHANGED <<sent, taken, crashes, begun>>

Crash(p) ==
    /\ pc[p] # "idle" /\ crashes < MaxCrashes
    /\ crashes' = crashes + 1
    /\ Finish(p)
    /\ UNCHANGED <<dirs, files, record, sent, late, taken, begun>>

-----------------------------------------------------------------------------
Init ==
    /\ dirs = UNION {Maildir(b) : b \in Made}
    /\ files = {} /\ record = [b \in Box |-> None]
    /\ pc = [p \in Proc |-> "idle"] /\ job = [p \in Proc |-> Nothing]
    /\ sent = [m \in Msg |-> None] /\ late = {} /\ taken = {} /\ crashes = 0 /\ begun = 0

Step(p) ==
    \/ Ensure(p) \/ OpenTmp(p) \/ Link(p) \/ RemoveTmp(p)
    \/ IsRegistered(p) \/ LinkRecord(p)
    \/ ReadNew(p) \/ MarkRead(p) \/ StatCur(p) \/ StatNew(p)
    \/ ListNew(p) \/ ListCur(p) \/ Listed(p) \/ Take(p) \/ ReclaimEnd(p)
    \/ Dest(p) \/ Move(p)
    \/ MergeDir(p) \/ MergeOne(p) \/ Carry(p) \/ RemoveAll(p)

Begin(p) ==
    \/ Send(p) \/ Reply(p) \/ Register(p) \/ Read(p) \/ Archive(p)
    \/ List(p) \/ Reclaim(p) \/ Migrate(p)

Next == \E p \in Proc : Begin(p) \/ Step(p) \/ Crash(p)
Spec == Init /\ [][Next]_vars

-----------------------------------------------------------------------------
(***************************************************************************)
(* Properties.                                                             *)
(***************************************************************************)
Opt(S) == S \cup {None}
Row == [name : Name, msg : Msg, dir : Dirs]
Steps == {"idle", "ensure", "open", "link", "unlink", "registered", "record", "new",
          "mark", "statcur", "statnew", "move", "listnew", "listcur", "listed", "take",
          "dest", "removeall"}

\* The type of every variable; beside it, a directory never holds two files
\* of one name.
TypeOK ==
    /\ dirs \subseteq Box \X Dirs /\ files \subseteq File
    /\ record \in [Box -> Opt(Proc)] /\ pc \in [Proc -> Steps]
    /\ \A p \in Proc :
         /\ job[p].cmd \in Commands \cup {"none"}
         /\ job[p].box \in Opt(Box) /\ job[p].to \in Opt(Box)
         /\ job[p].name \in Opt(Name) /\ job[p].msg \in Opt(Msg)
         /\ job[p].tries \in 0 .. MaxAttempts - 1
         /\ job[p].list \subseteq Row /\ job[p].todo \subseteq Row /\ job[p].was \subseteq Msg
    /\ sent \in [Msg -> Opt(Ids)] /\ late \cup taken \subseteq Msg /\ crashes \in 0 .. MaxCrashes
    /\ begun \in 0 .. MaxCommands
    /\ \A f, g \in files : f.box = g.box /\ f.dir = g.dir /\ f.name = g.name => f = g

Twin(m) == \E o \in Delivered \ {m} : sent[o] = sent[m]
Copies(m) == {f \in files : f.msg = m /\ f.dir # "tmp"}

\* A message that was delivered is in exactly one place of one mailbox for
\* good, however readers, archivers, reclaims and merges interleave and
\* wherever they die: deliverOnce, Read, Archive, reclaimOne, MergeMailbox.
\* What can take one is named: another message that was minted the same id,
\* or a merge that was under way during the delivery and removes what it
\* never listed.  Nothing is said of a message whose tmp file was taken for
\* its own by a sender that was minted the same id, and whose own tmp file had
\* gone with a merged mailbox: that may be delivered twice.
DeliveredKept ==
    \A m \in Delivered \ taken :
      /\ Cardinality(Copies(m)) <= 1
      /\ Copies(m) = {} => Twin(m) \/ m \in late

\* Whatever two processes choose the same name for, a link never replaces: no
\* delivery destroys a message that is already there, whatever the ids collide with
\* (mail.go, deliverOnce), and a registration names the first deliberate act: no
\* later one replaces it, and it goes only with its mailbox (registration.go, Register).
KeepStep ==
    /\ \A p \in Proc : OpenTmp(p) \/ Link(p) \/ RemoveTmp(p) => Stored \subseteq Stored'
    /\ \A b \in Box : record[b] # None /\ record'[b] # record[b] =>
         record'[b] = None /\ ~\E d \in Dirs : <<b, d>> \in dirs'
NothingReplaced == [][KeepStep]_vars

\* mg mail list --all and reclaim read new/ and cur/ one after the other
\* (ListAll); no message that was in the mailbox all along is missing, but for
\* one that was taken as above.
ListingComplete ==
    \A p \in Proc : pc[p] = "listed" =>
      (job[p].was \cap Active(job[p].box)) \ taken \subseteq {r.msg : r \in job[p].list}

ListedTwice(rows, m) == \E r, q \in rows : r.msg = m /\ q.msg = m /\ r # q
Sweeping(p) == pc[p] = "take" /\ job[p].cmd = "reclaim"
Spares(p, e) == \E f \in Group(job[p].list, e) :
                  \A r \in Superseded(job[p].list) : r.msg # f.msg

\* "A live pointer always survives in every group" (reclaim.go): of each
\* subject a reclaim leaves at least one message it listed where it is.
GroupNeverEmptied ==
    \A p \in Proc : Sweeping(p) => \A e \in job[p].todo : Spares(p, e)

\* The same of every group in which no message was listed both in new/ and,
\* moved by a reader meanwhile, in cur/.
GroupSpared ==
    \A p \in Proc : Sweeping(p) =>
      \A e \in job[p].todo :
        Spares(p, e) \/ \E f \in Group(job[p].list, e) : ListedTwice(job[p].list, f.msg)
=============================================================================
