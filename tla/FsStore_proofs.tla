---------------------------- MODULE FsStore_proofs ----------------------------
(***************************************************************************)
(* Theorems about the filesystem backend, for any number of processes,     *)
(* holders, partitions and crashes.                                        *)
(***************************************************************************)
EXTENDS FsStore, FiniteSetTheorems, TLAPS

-------------------------------------------------------------------------------
(* The moves a caller may ask for. *)

\* A status is not an archive partition, and both are directories.
LEMMA DirsSplit ==
  /\ Live = {"available", "done", "pending", "shelved", "claimed"}
  /\ Partitions \cap Live = {}
  /\ Dirs = Live \cup Partitions
BY PartitionsAssumption DEF Live, Restorable, Dirs

\* A Transition is between two statuses, and never touches the archive.
LEMMA TransitionShape ==
  ASSUME NEW c \in TransitionCalls
  PROVE  /\ c.expect \in Name /\ c.to \in Name
         /\ c.expect.dir \in Live /\ c.to.dir \in Live
         /\ ~NoReplace(c)
<1>1. c \in [expect : Name, to : Name] /\ <<c.expect.dir, c.to.dir>> \in Lifecycle
  BY CallsAssumption DEF TransitionCalls
<1>2. c.expect.dir \in Live /\ c.to.dir \in Live
  BY <1>1, DirsSplit DEF Lifecycle
<1>. QED BY <1>1, <1>2, DirsSplit DEF NoReplace

\* Archive moves a done item to a partition.
LEMMA ArchiveShape ==
  ASSUME NEW c \in ArchiveCalls
  PROVE  /\ c.expect \in Name /\ c.to \in Name
         /\ c.expect = At("done") /\ c.to.dir \in Partitions
         /\ NoReplace(c)
<1>1. PICK d \in Partitions : c.to = At(d)
  BY DEF ArchiveCalls
<1>2. c.expect = At("done")
  BY DEF ArchiveCalls
<1>. QED BY <1>1, <1>2, DirsSplit DEF NoReplace, Name, At, Unheld

\* Unarchive moves a record out of a partition.
LEMMA UnarchiveShape ==
  ASSUME NEW c \in UnarchiveCalls
  PROVE  /\ c.expect \in Name /\ c.to \in Name
         /\ c.expect.dir \in Partitions /\ c.to.dir \in Restored
         /\ NoReplace(c)
<1>1. PICK d \in Partitions : c.expect = At(d)
  BY DEF UnarchiveCalls
<1>2. PICK r \in Restored : c.to = At(r)
  BY DEF UnarchiveCalls
<1>3. r \in Dirs \ {"claimed"}
  BY CallsAssumption, DirsSplit DEF Restorable
<1>. QED BY <1>1, <1>2, <1>3, DirsSplit DEF NoReplace, Name, At, Unheld

\* Every call is from a name to another name of the record.
LEMMA CallShape == ASSUME NEW c \in Calls PROVE c.expect \in Name /\ c.to \in Name
BY TransitionShape, ArchiveShape, UnarchiveShape DEF Calls

-------------------------------------------------------------------------------
(* Type correctness. *)

\* A record filed and no call made: the types hold.
LEMMA InitTypes == Init => TypeOK
<1>. SUFFICES ASSUME Init PROVE TypeOK OBVIOUS
<1>1. PICK n \in Name : n.dir \in Live /\ names = {n} /\ sides \in {{}, {n.dir}}
  BY DEF Init
<1>2. names \subseteq Name /\ sides \subseteq Dirs
  BY <1>1, DirsSplit
<1>3. crashes \in 0 .. MaxCrashes
  BY CrashesAssumption DEF Init
<1>. QED BY <1>2, <1>3 DEF Init, TypeOK, Steps

\* Every system call keeps the types.
LEMMA NextTypes == TypeOK /\ [Next]_vars => TypeOK'
<1>. SUFFICES ASSUME TypeOK, [Next]_vars PROVE TypeOK' OBVIOUS
<1>. USE DEF TypeOK, Goto, Steps, Answered
<1>1. ASSUME NEW p \in Procs, Ask(p) PROVE TypeOK'
  <2>1. PICK c \in Calls : 
          /\ call' = [call EXCEPT ![p] = c]
          /\ IF c \in UnarchiveCalls
               THEN src' = [src EXCEPT ![p] = c.expect] /\ Goto(p, "lstat_src")
               ELSE src' = src /\ Goto(p, "find")
    BY <1>1 DEF Ask
  <2>2. c.expect \in Name
    BY CallShape
  <2>3. UNCHANGED <<names, sides, beaten, crashes>>
    BY <1>1 DEF Ask
  <2>4. CASE c \in UnarchiveCalls
    BY <2>1, <2>2, <2>3, <2>4
  <2>5. CASE c \notin UnarchiveCalls
    BY <2>1, <2>3, <2>5
  <2>. QED BY <2>4, <2>5
<1>2. ASSUME NEW p \in Procs, Find(p) PROVE TypeOK'
  <2>1. CASE Refuse(p) /\ src' = src
    BY <1>2, <2>1 DEF Find, Refuse
  <2>2. ASSUME NEW n \in Matching(call[p]), src' = [src EXCEPT ![p] = n],
               IF n = call[p].to
                 THEN Goto(p, "moved") /\ beaten' = [beaten EXCEPT ![p] = FALSE]
                 ELSE /\ Goto(p, IF NoReplace(call[p]) THEN "link" ELSE "lstat_dst")
                      /\ beaten' = beaten
        PROVE TypeOK'
    <3>1. n \in Name
      BY DEF Matching
    <3>. QED BY <1>2, <2>2, <3>1, ZenonT(40) DEF Find
  <2>. QED BY <1>2, <2>1, <2>2 DEF Find
<1>3. ASSUME NEW p \in Procs, LstatDst(p) PROVE TypeOK'
  BY <1>3 DEF LstatDst, Refuse
<1>4. ASSUME NEW p \in Procs, Rename(p) PROVE TypeOK'
  <2>1. call[p].to \in Name
    BY <1>4, CallShape DEF Rename
  <2>. QED BY <1>4, <2>1 DEF Rename, RenameTo, Decide, Refuse
<1>5. ASSUME NEW p \in Procs, LstatSrc(p) PROVE TypeOK'
  BY <1>5 DEF LstatSrc, Refuse
<1>6. ASSUME NEW p \in Procs, Link(p) PROVE TypeOK'
  <2>1. call[p].to \in Name
    BY <1>6, CallShape DEF Link
  <2>. QED BY <1>6, <2>1 DEF Link, Refuse
<1>7. ASSUME NEW p \in Procs, Unlink(p) PROVE TypeOK'
  BY <1>7 DEF Unlink, Decide
<1>8. ASSUME NEW p \in Procs, Undo(p) PROVE TypeOK'
  BY <1>8 DEF Undo, Refuse
<1>9. ASSUME NEW p \in Procs, StatSidecar(p) PROVE TypeOK'
  BY <1>9 DEF StatSidecar
<1>10. ASSUME NEW p \in Procs, MoveSidecar(p) PROVE TypeOK'
  <2>1. call[p].to \in Name
    BY <1>10, CallShape DEF MoveSidecar
  <2>2. call[p].to.dir \in Dirs
    BY <2>1, DirsSplit DEF Name, Unheld
  <2>. QED BY <1>10, <2>2 DEF MoveSidecar
<1>11. ASSUME NEW p \in Procs, Return(p) PROVE TypeOK'
  BY <1>11 DEF Return
<1>12. ASSUME NEW p \in Procs, Crash(p) PROVE TypeOK'
  BY <1>12, CrashesAssumption DEF Crash
<1>13. CASE UNCHANGED vars
  BY <1>13 DEF vars
<1>. QED BY <1>1, <1>2, <1>3, <1>4, <1>5, <1>6, <1>7, <1>8, <1>9, <1>10, <1>11,
            <1>12, <1>13 DEF Next, Step

\* Every reachable state is well typed, and a process past its look-up has a
\* source and a call the program issues: no system call is made without them.
THEOREM TypeInvariant == Spec => []TypeOK
BY InitTypes, NextTypes, PTL DEF Spec
-------------------------------------------------------------------------------
(* The record always has a name. *)

\* The counts behind NoNameLost are of finite sets.
NamesCounted == IsFiniteSet(names) /\ NoNameLost

\* There are finitely many processes.
LEMMA LinkedFinite == IsFiniteSet(Linked) /\ IsFiniteSet(Linked')
BY ProcsAssumption, FS_Subset DEF Linked

\* What one directory entry more or less does to the count.
LEMMA OneMore ==
  ASSUME NEW S, IsFiniteSet(S), NEW x, x \notin S
  PROVE  IsFiniteSet(S \cup {x}) /\ Cardinality(S \cup {x}) = Cardinality(S) + 1
BY FS_AddElement

\* ... and one less.
LEMMA OneLess ==
  ASSUME NEW S, IsFiniteSet(S), NEW x
  PROVE  /\ IsFiniteSet(S \ {x})
         /\ Cardinality(S \ {x}) >= Cardinality(S) - 1
         /\ x \in S => Cardinality(S \ {x}) = Cardinality(S) - 1
<1>1. Cardinality(S) \in Nat BY FS_CardinalityType
<1>. QED BY <1>1, FS_RemoveElement

\* A rename keeps the number of names, of whatever inode they are.
LEMMA RenameKeepsCount ==
  ASSUME NEW S, IsFiniteSet(S), NEW n \in S, NEW to
  PROVE  IsFiniteSet(RenameTo(S, n, to)) /\ Cardinality(RenameTo(S, n, to)) = Cardinality(S)
<1>1. CASE to \in S
  BY <1>1 DEF RenameTo
<1>2. CASE to \notin S
  <2>1. IsFiniteSet(S \ {n}) /\ Cardinality(S \ {n}) = Cardinality(S) - 1
    BY OneLess
  <2>2. Cardinality((S \ {n}) \cup {to}) = Cardinality(S \ {n}) + 1 /\ IsFiniteSet((S \ {n}) \cup {to})
    BY <1>2, <2>1, OneMore
  <2>3. Cardinality(S) \in Nat
    BY FS_CardinalityType
  <2>. QED BY <1>2, <2>1, <2>2, <2>3 DEF RenameTo
<1>. QED BY <1>1, <1>2

\* The one name of a record at rest.
LEMMA InitNamesCounted == Init => NamesCounted
<1>. SUFFICES ASSUME Init PROVE NamesCounted OBVIOUS
<1>1. IsFiniteSet(names) /\ Cardinality(names) = 1
  BY FS_Singleton DEF Init
<1>2. Linked = {}
  BY DEF Init, Linked
<1>3. Cardinality(Linked) = 0
  BY <1>2, FS_EmptySet
<1>. QED BY <1>1, <1>3 DEF NamesCounted, NoNameLost

\* Whoever removes a name has put one there, or is no longer counted as linked.
LEMMA NextNamesCounted == TypeOK /\ NamesCounted /\ [Next]_vars => NamesCounted'
<1>. SUFFICES ASSUME TypeOK, NamesCounted, [Next]_vars PROVE NamesCounted'
  OBVIOUS
<1>1. /\ IsFiniteSet(names) /\ Cardinality(names) \in Nat
      /\ IsFiniteSet(Linked) /\ Cardinality(Linked) \in Nat /\ Cardinality(Linked') \in Nat
      /\ Cardinality(names) >= 1 + Cardinality(Linked)
  BY LinkedFinite, FS_CardinalityType DEF NamesCounted, NoNameLost
\* A step that keeps the number of names is harmless if it links nobody.
<1>2. ASSUME IsFiniteSet(names'), Cardinality(names') = Cardinality(names), Linked' \subseteq Linked
      PROVE  NamesCounted'
  <2>1. Cardinality(Linked') <= Cardinality(Linked)
    BY <1>1, <1>2, FS_Subset
  <2>. QED BY <1>1, <1>2, <2>1 DEF NamesCounted, NoNameLost
\* A step that removes a name settles a mover that had linked one.
<1>3. ASSUME NEW p \in Linked, NEW n, names' = names \ {n}, Linked' = Linked \ {p}
      PROVE  NamesCounted'
  <2>1. IsFiniteSet(names') /\ Cardinality(names') >= Cardinality(names) - 1
    BY <1>1, <1>3, OneLess
  <2>2. Cardinality(Linked') = Cardinality(Linked) - 1
    BY <1>1, <1>3, OneLess
  <2>3. Cardinality(names') \in Nat
    BY <2>1, FS_CardinalityType
  <2>. QED BY <1>1, <2>1, <2>2, <2>3 DEF NamesCounted, NoNameLost
<1>. USE DEF Goto, Linked
<1>4. ASSUME NEW p \in Procs, Rename(p) PROVE NamesCounted'
  <2>1. Linked' \subseteq Linked
    BY <1>4 DEF Rename, Decide, Refuse, TypeOK
  <2>2. IsFiniteSet(names') /\ Cardinality(names') = Cardinality(names)
    BY <1>1, <1>4, RenameKeepsCount DEF Rename
  <2>. QED BY <1>2, <2>1, <2>2
<1>5. ASSUME NEW p \in Procs, Link(p) PROVE NamesCounted'
  <2>1. CASE src[p] \in names /\ call[p].to \notin names
    <3>1. IsFiniteSet(names') /\ Cardinality(names') = Cardinality(names) + 1
      <4>1. names' = names \cup {call[p].to}
        BY <1>5, <2>1 DEF Link
      <4>2. /\ IsFiniteSet(names \cup {call[p].to})
            /\ Cardinality(names \cup {call[p].to}) = Cardinality(names) + 1
        BY <1>1, <2>1, OneMore
      <4>. QED BY <4>1, <4>2
    <3>2. p \notin Linked /\ Linked' = Linked \cup {p}
      BY <1>5, <2>1 DEF Link, TypeOK
    <3>3. Cardinality(Linked') = Cardinality(Linked) + 1
      BY <1>1, <3>2, OneMore
    <3>. QED BY <1>1, <3>1, <3>3 DEF NamesCounted, NoNameLost
  <2>2. CASE ~(src[p] \in names /\ call[p].to \notin names)
    <3>1. names' = names /\ Linked' \subseteq Linked
      BY <1>5, <2>2 DEF Link, Refuse, TypeOK
    <3>. QED BY <1>1, <1>2, <3>1
  <2>. QED BY <2>1, <2>2
<1>6. ASSUME NEW p \in Procs, Unlink(p) PROVE NamesCounted'
  <2>1. CASE src[p] \in names
    <3>1. p \in Linked /\ Linked' = Linked \ {p} /\ names' = names \ {src[p]}
      BY <1>6, <2>1 DEF Unlink, Decide, TypeOK
    <3>. QED BY <1>3, <3>1
  <2>2. CASE src[p] \notin names
    <3>1. names' = names /\ Linked' = Linked
      BY <1>6, <2>2 DEF Unlink, TypeOK
    <3>. QED BY <1>1, <1>2, <3>1
  <2>. QED BY <2>1, <2>2
<1>7. ASSUME NEW p \in Procs, Undo(p) PROVE NamesCounted'
  <2>1. p \in Linked /\ Linked' = Linked \ {p} /\ names' = names \ {call[p].to}
    BY <1>7 DEF Undo, Refuse, TypeOK
  <2>. QED BY <1>3, <2>1
\* The other steps leave the names alone and link nothing.
<1>8. ASSUME names' = names, Linked' \subseteq Linked PROVE NamesCounted'
  BY <1>1, <1>2, <1>8
<1>9. ASSUME NEW p \in Procs, 
             Ask(p) \/ Find(p) \/ LstatDst(p) \/ LstatSrc(p) \/ StatSidecar(p) \/ MoveSidecar(p)
               \/ Return(p) \/ Crash(p)
      PROVE  names' = names /\ Linked' \subseteq Linked
  <2>1. CASE Ask(p) BY <2>1 DEF Ask, TypeOK
  <2>2. CASE Find(p) BY <2>2 DEF Find, Refuse, TypeOK
  <2>3. CASE LstatDst(p) BY <2>3 DEF LstatDst, Refuse, TypeOK
  <2>4. CASE LstatSrc(p) BY <2>4 DEF LstatSrc, Refuse, TypeOK
  <2>5. CASE StatSidecar(p) BY <2>5 DEF StatSidecar, TypeOK
  <2>6. CASE MoveSidecar(p) BY <2>6 DEF MoveSidecar, TypeOK
  <2>7. CASE Return(p) BY <2>7 DEF Return, TypeOK
  <2>8. CASE Crash(p) BY <2>8 DEF Crash, TypeOK
  <2>. QED BY <1>9, <2>1, <2>2, <2>3, <2>4, <2>5, <2>6, <2>7, <2>8
<1>10. CASE UNCHANGED vars
  BY <1>8, <1>10 DEF vars
<1>. QED BY <1>4, <1>5, <1>6, <1>7, <1>8, <1>9, <1>10 DEF Next, Step

\* No interleaving of moves, archives, unarchives and crashes leaves the record
\* without a name (MoveNoReplace: "no bytes are lost either way").
THEOREM NameKept == Spec => []NoNameLost
<1>1. Spec => []NamesCounted
  BY TypeInvariant, InitNamesCounted, NextNamesCounted, PTL DEF Spec
<1>2. NamesCounted => NoNameLost
  BY DEF NamesCounted
<1>. QED BY <1>1, <1>2, PTL
-------------------------------------------------------------------------------
(* The source a process holds fits what it asked for. *)

Moving == {"lstat_dst", "rename", "lstat_src", "link", "unlink", "undo"}

\* Transitions rename, the archive links; a source that was found satisfies the
\* expectation, and is not where the record is to go.
SourceFits ==
  \A p \in Procs : 
    /\ pc[p] \in {"lstat_dst", "rename"} => call[p] \in TransitionCalls
    /\ pc[p] \in {"link", "unlink", "undo"} => call[p] \in ArchiveCalls \cup UnarchiveCalls
    /\ pc[p] = "lstat_src" => call[p] \in UnarchiveCalls
    /\ pc[p] \in Moving => Satisfies(src[p], call[p].expect) /\ src[p] # call[p].to

\* No process has a source yet.
LEMMA InitSourceFits == Init => SourceFits
BY DEF Init, SourceFits, Moving

\* A source is what the call expected from the moment it is found.
LEMMA NextSourceFits == TypeOK /\ SourceFits /\ [Next]_vars => SourceFits'
<1>. SUFFICES ASSUME TypeOK, SourceFits, [Next]_vars PROVE SourceFits' OBVIOUS
<1>. USE DEF SourceFits, Moving, TypeOK, Goto
<1>1. ASSUME NEW p \in Procs, Ask(p) PROVE SourceFits'
  <2>1. PICK c \in Calls : 
          /\ call' = [call EXCEPT ![p] = c]
          /\ IF c \in UnarchiveCalls
               THEN src' = [src EXCEPT ![p] = c.expect] /\ Goto(p, "lstat_src")
               ELSE src' = src /\ Goto(p, "find")
    BY <1>1 DEF Ask
  <2>2. CASE c \in UnarchiveCalls
    <3>1. c.expect.dir # c.to.dir
      BY <2>2, UnarchiveShape, CallsAssumption, DirsSplit DEF Restorable
    <3>. QED BY <2>1, <2>2, <3>1 DEF Satisfies
  <2>3. CASE c \notin UnarchiveCalls
    BY <2>1, <2>3
  <2>. QED BY <2>2, <2>3
<1>2. ASSUME NEW p \in Procs, Find(p) PROVE SourceFits'
  <2>1. CASE Refuse(p)
    BY <1>2, <2>1 DEF Find, Refuse
  <2>2. ASSUME NEW n \in Matching(call[p]), src' = [src EXCEPT ![p] = n],
               IF n = call[p].to
                 THEN Goto(p, "moved") /\ beaten' = [beaten EXCEPT ![p] = FALSE]
                 ELSE /\ Goto(p, IF NoReplace(call[p]) THEN "link" ELSE "lstat_dst")
                      /\ beaten' = beaten
        PROVE SourceFits'
    <3>1. Satisfies(n, call[p].expect)
      BY DEF Matching
    <3>2. call' = call
      BY <1>2 DEF Find
    <3>3. CASE n = call[p].to
      BY <2>2, <3>2, <3>3
    <3>4. CASE n # call[p].to /\ NoReplace(call[p])
      <4>1. call[p] \in ArchiveCalls \cup UnarchiveCalls
        BY <1>2, <3>4, TransitionShape DEF Find, Calls
      <4>. QED BY <2>2, <3>1, <3>2, <3>4, <4>1
    <3>5. CASE n # call[p].to /\ ~NoReplace(call[p])
      <4>1. call[p] \in TransitionCalls
        BY <1>2, <3>5, ArchiveShape, UnarchiveShape DEF Find, Calls
      <4>. QED BY <2>2, <3>1, <3>2, <3>5, <4>1
    <3>. QED BY <3>3, <3>4, <3>5
  <2>. QED BY <1>2, <2>1, <2>2 DEF Find
<1>3. ASSUME NEW p \in Procs, LstatDst(p) PROVE SourceFits'
  BY <1>3 DEF LstatDst, Refuse
<1>4. ASSUME NEW p \in Procs, Rename(p) PROVE SourceFits'
  BY <1>4 DEF Rename, Decide, Refuse
<1>5. ASSUME NEW p \in Procs, LstatSrc(p) PROVE SourceFits'
  BY <1>5 DEF LstatSrc, Refuse
<1>6. ASSUME NEW p \in Procs, Link(p) PROVE SourceFits'
  BY <1>6 DEF Link, Refuse
<1>7. ASSUME NEW p \in Procs, Unlink(p) PROVE SourceFits'
  BY <1>7 DEF Unlink, Decide
<1>8. ASSUME NEW p \in Procs, Undo(p) PROVE SourceFits'
  BY <1>8 DEF Undo, Refuse
<1>9. ASSUME NEW p \in Procs, StatSidecar(p) \/ MoveSidecar(p) PROVE SourceFits'
  BY <1>9 DEF StatSidecar, MoveSidecar
<1>10. ASSUME NEW p \in Procs, Return(p) \/ Crash(p) PROVE SourceFits'
  BY <1>10 DEF Return, Crash
<1>11. CASE UNCHANGED vars
  BY <1>11 DEF vars
<1>. QED BY <1>1, <1>2, <1>3, <1>4, <1>5, <1>6, <1>7, <1>8, <1>9, <1>10, <1>11
         DEF Next, Step

-------------------------------------------------------------------------------
(* One status, as long as nothing is brought back from the archive. *)

Single == \A a, b \in LiveNames : a = b

\* How a step changes the live names: not at all, by renaming the one there is,
\* or by unlinking it.
LEMMA LiveStep ==
  ASSUME Restored = {}, TypeOK, SourceFits, Single, [Next]_vars
  PROVE  \/ LiveNames' = LiveNames
         \/ \E p \in Procs : 
              Rename(p) /\ src[p] \in names /\ LiveNames = {src[p]} /\ LiveNames' = {call[p].to}
         \/ \E p \in Procs : 
              Unlink(p) /\ src[p] \in names /\ LiveNames = {src[p]} /\ LiveNames' = {}
<1>. DEFINE Goal == LiveNames' = LiveNames
<1>0. UnarchiveCalls = {}
  BY DEF UnarchiveCalls
<1>. USE DEF LiveNames
<1>1. ASSUME NEW p \in Procs, Rename(p), src[p] \in names
      PROVE  LiveNames = {src[p]} /\ LiveNames' = {call[p].to}
  <2>1. call[p] \in TransitionCalls /\ Satisfies(src[p], call[p].expect) /\ src[p] # call[p].to
    BY <1>1 DEF Rename, SourceFits, Moving
  <2>2. src[p].dir \in Live /\ call[p].to.dir \in Live
    BY <2>1, TransitionShape DEF Satisfies
  <2>3. LiveNames = {src[p]}
    BY <1>1, <2>2 DEF Single
  <2>4. call[p].to \notin names
    BY <2>1, <2>2, <2>3
  <2>5. names' = (names \ {src[p]}) \cup {call[p].to}
    BY <1>1, <2>4 DEF Rename, RenameTo
  <2>. QED BY <2>2, <2>3, <2>5
<1>2. ASSUME NEW p \in Procs, Rename(p), src[p] \notin names PROVE Goal
  BY <1>2 DEF Rename
<1>3. ASSUME NEW p \in Procs, pc[p] \in {"link", "unlink", "undo"}
      PROVE  /\ call[p].to.dir \notin Live
             /\ pc[p] \in {"unlink"} => src[p].dir \in Live
  <2>1. call[p] \in ArchiveCalls /\ Satisfies(src[p], call[p].expect)
    BY <1>0, <1>3 DEF SourceFits, Moving
  <2>2. call[p].to.dir \in Partitions /\ src[p].dir = "done"
    BY <2>1, ArchiveShape DEF Satisfies, At
  <2>. QED BY <2>2, DirsSplit
<1>4. ASSUME NEW p \in Procs, Link(p) PROVE Goal
  <2>1. pc[p] = "link" /\ (names' = names \/ names' = names \cup {call[p].to})
    BY <1>4 DEF Link
  <2>. QED BY <1>3, <2>1
<1>5. ASSUME NEW p \in Procs, Unlink(p), src[p] \in names
      PROVE  LiveNames = {src[p]} /\ LiveNames' = {}
  <2>1. pc[p] = "unlink" /\ names' = names \ {src[p]}
    BY <1>5 DEF Unlink
  <2>2. src[p] \in LiveNames
    BY <1>3, <1>5, <2>1
  <2>. QED BY <2>1, <2>2 DEF Single
<1>6. ASSUME NEW p \in Procs, Unlink(p), src[p] \notin names PROVE Goal
  BY <1>6 DEF Unlink
<1>7. ASSUME NEW p \in Procs, Undo(p) PROVE Goal
  <2>1. pc[p] = "undo" /\ names' = names \ {call[p].to}
    BY <1>7 DEF Undo
  <2>. QED BY <1>3, <2>1
<1>8. ASSUME NEW p \in Procs, 
             Ask(p) \/ Find(p) \/ LstatDst(p) \/ LstatSrc(p) \/ StatSidecar(p) \/ MoveSidecar(p)
               \/ Return(p) \/ Crash(p)
      PROVE  Goal
  BY <1>8 DEF Ask, Find, LstatDst, LstatSrc, StatSidecar, MoveSidecar, Return, Crash
<1>9. CASE UNCHANGED vars
  BY <1>9 DEF vars
<1>. QED BY <1>1, <1>2, <1>4, <1>5, <1>6, <1>7, <1>8, <1>9 DEF Next, Step

\* At most one element: counted, and compared.
LEMMA SingleCounts == Single => OneStatus
<1>. SUFFICES ASSUME Single PROVE OneStatus OBVIOUS
<1>1. CASE LiveNames = {}
  <2>1. Cardinality(LiveNames) = 0
    BY <1>1, FS_EmptySet
  <2>. QED BY <2>1 DEF OneStatus
<1>2. ASSUME NEW n \in LiveNames PROVE OneStatus
  <2>1. LiveNames = {n}
    BY DEF Single
  <2>2. Cardinality({n}) = 1
    BY FS_Singleton
  <2>. QED BY <2>1, <2>2 DEF OneStatus
<1>. QED BY <1>1, <1>2

\* Without unarchive the three invariants hold together.
LEMMA SingleInvariant ==
  ASSUME Restored = {}
  PROVE  Spec => [](TypeOK /\ SourceFits /\ Single)
<1>1. Init => Single
  BY DEF Init, Single, LiveNames
<1>2. TypeOK /\ SourceFits /\ Single /\ [Next]_vars => Single'
  BY LiveStep DEF Single
<1>. QED BY <1>1, <1>2, InitTypes, NextTypes, InitSourceFits, NextSourceFits, PTL DEF Spec

\* Whatever moves race, among any number of processes dying at any point, the
\* record is never in two statuses, as long as nothing unarchives it meanwhile
\* (store.Backend: "exactly one wins").
THEOREM StatusUnique ==
  ASSUME Restored = {}
  PROVE  Spec => []OneStatus
BY SingleInvariant, SingleCounts, PTL
-------------------------------------------------------------------------------
(* The backend keeps its contract. *)

\* A process that nobody has overtaken still holds a name that is there; one that
\* has lost its source has been overtaken; nobody is overtaken outside a call.
Fresh ==
  \A p \in Procs : 
    /\ pc[p] \in {"lstat_dst", "rename", "link", "unlink"} => src[p] \in names \/ beaten[p]
    /\ pc[p] = "undo" => beaten[p]
    /\ ~Undecided(p) => ~beaten[p]

\* A source that is gone was moved by somebody else during the call.
LEMMA NextFresh ==
  ASSUME Restored = {}, TypeOK, SourceFits, Single, Fresh, [Next]_vars
  PROVE  Fresh'
<1>0. UnarchiveCalls = {}
  BY DEF UnarchiveCalls
<1>. USE DEF Fresh, TypeOK, Goto, Undecided, Answered
<1>1. ASSUME NEW p \in Procs, Ask(p) PROVE Fresh'
  BY <1>0, <1>1 DEF Ask
<1>2. ASSUME NEW p \in Procs, Find(p) PROVE Fresh'
  <2>1. CASE Refuse(p)
    BY <1>2, <2>1 DEF Find, Refuse
  <2>2. ASSUME NEW n \in Matching(call[p]), src' = [src EXCEPT ![p] = n],
               IF n = call[p].to
                 THEN Goto(p, "moved") /\ beaten' = [beaten EXCEPT ![p] = FALSE]
                 ELSE /\ Goto(p, IF NoReplace(call[p]) THEN "link" ELSE "lstat_dst")
                      /\ beaten' = beaten
        PROVE Fresh'
    <3>1. n \in names /\ names' = names
      BY <1>2 DEF Find, Matching
    <3>. QED BY <2>2, <3>1
  <2>. QED BY <1>2, <2>1, <2>2 DEF Find
<1>3. ASSUME NEW p \in Procs, LstatDst(p) PROVE Fresh'
  BY <1>3 DEF LstatDst, Refuse
<1>4. ASSUME NEW p \in Procs, Rename(p) PROVE Fresh'
  BY <1>4, ZenonT(40) DEF Rename, Decide, Refuse
<1>5. ASSUME NEW p \in Procs, LstatSrc(p) PROVE Fresh'
  BY <1>0, <1>5 DEF LstatSrc, SourceFits
<1>6. ASSUME NEW p \in Procs, Link(p) PROVE Fresh'
  BY <1>6 DEF Link, Refuse
<1>7. ASSUME NEW p \in Procs, Unlink(p) PROVE Fresh'
  BY <1>7, ZenonT(40) DEF Unlink, Decide
<1>8. ASSUME NEW p \in Procs, Undo(p) PROVE Fresh'
  <2>1. call[p].to.dir \in Partitions
    BY <1>0, <1>8, ArchiveShape DEF Undo, SourceFits
  <2>2. \A q \in Procs : 
          pc[q] \in {"lstat_dst", "rename", "link", "unlink"} => src[q].dir \in Live
    <3>1. At("done").dir \in Live
      BY DirsSplit DEF At
    <3>. QED BY <1>0, <3>1, TransitionShape, ArchiveShape DEF SourceFits, Moving, Satisfies
  <2>3. \A q \in Procs : 
          pc[q] \in {"lstat_dst", "rename", "link", "unlink"} => src[q] # call[p].to
    BY <2>1, <2>2, DirsSplit
  <2>. QED BY <1>8, <2>3 DEF Undo, Refuse
<1>9. ASSUME NEW p \in Procs, StatSidecar(p) \/ MoveSidecar(p) PROVE Fresh'
  BY <1>9 DEF StatSidecar, MoveSidecar
<1>10. ASSUME NEW p \in Procs, Return(p) \/ Crash(p) PROVE Fresh'
  BY <1>10 DEF Return, Crash
<1>11. CASE UNCHANGED vars
  BY <1>11 DEF vars
<1>. QED BY <1>1, <1>2, <1>3, <1>4, <1>5, <1>6, <1>7, <1>8, <1>9, <1>10, <1>11
         DEF Next, Step

\* The states and calls of the contract, as the backend maps to them.
LEMMA StateOfLive == ASSUME NEW n \in Name, n.dir \in Live PROVE StateOf(n) = n
BY DirsSplit DEF StateOf

\* A name is a state of the contract.
LEMMA StateOfShape == ASSUME NEW n \in Name PROVE StateOf(n) \in Contract!State
<1>1. CASE n.dir \in Partitions
  BY <1>1 DEF StateOf, At, Contract!State, Contract!Unheld
<1>2. CASE n.dir \in Live
  BY <1>2, StateOfLive, DirsSplit DEF Name, Unheld, Contract!State, Contract!Unheld
<1>. QED BY <1>1, <1>2, DirsSplit DEF Name, Unheld

\* With one live name the state is that name, and with none it is archived.
LEMMA ItemStateIs ==
  /\ \A n : LiveNames = {n} => ItemState = n
  /\ LiveNames = {} => ItemState = At("archived")
BY DEF ItemState

\* The same of the next state.
LEMMA ItemStateIsNext ==
  /\ \A n : LiveNames' = {n} => ItemState' = n
  /\ LiveNames' = {} => ItemState' = At("archived")
BY DEF ItemState

\* A process in a call has it open, and another one does not.
LEMMA OpenCallIs ==
  ASSUME TypeOK, NEW p \in Procs
  PROVE  /\ Undecided(p) =>
              /\ OpenCalls[p] # Contract!NoCall
              /\ OpenCalls[p] \in Contract!Call
              /\ OpenCalls[p].expect = StateOf(call[p].expect)
              /\ OpenCalls[p].to = StateOf(call[p].to)
         /\ ~Undecided(p) => OpenCalls[p] = Contract!NoCall
<1>1. ASSUME Undecided(p)
      PROVE  StateOf(call[p].expect) \in Contract!State /\ StateOf(call[p].to) \in Contract!State
  BY <1>1, CallShape, StateOfShape DEF TypeOK, Undecided
<1>2. \A s \in Contract!State : s # Contract!NoState
  BY DEF Contract!State, Contract!Unheld, Contract!NoState
<1>. QED BY <1>1, <1>2 DEF OpenCalls, NoCall, NoName, Contract!Call, Contract!NoCall, Contract!NoState

\* What a step does to the calls and answers of the contract: p's own change with
\* its next system call, the others' do not.
LEMMA StepOfOne ==
  ASSUME TypeOK, NEW p \in Procs, NEW step \in Steps, Goto(p, step), call' = call
  PROVE  /\ step \in Answered \cup {"idle"} =>
              /\ OpenCalls' = [OpenCalls EXCEPT ![p] = Contract!NoCall]
              /\ ~Undecided(p) => OpenCalls' = OpenCalls
         /\ step \notin Answered \cup {"idle"} /\ Undecided(p) =>
              OpenCalls' = OpenCalls /\ Answers' = Answers
         /\ step = "refused" => Answers' = [Answers EXCEPT ![p] = "refused"]
         /\ step \in {"stat_sidecar", "move_sidecar", "moved"} =>
              Answers' = [Answers EXCEPT ![p] = "moved"]
<1>1. pc' = [pc EXCEPT ![p] = step] /\ pc \in [Procs -> Steps]
  BY DEF Goto, TypeOK
<1>2. NoCall = Contract!NoCall
  BY DEF NoCall, NoName, Contract!NoCall, Contract!NoState
<1>. QED BY <1>1, <1>2 DEF OpenCalls, Answers, Undecided, Answered, Steps

\* A process that idles has no call open and no answer.
LEMMA StepToIdle ==
  ASSUME TypeOK, NEW p \in Procs, Goto(p, "idle"), call' = [call EXCEPT ![p] = NoCall]
  PROVE  /\ OpenCalls' = [OpenCalls EXCEPT ![p] = Contract!NoCall]
         /\ Answers' = [Answers EXCEPT ![p] = "none"]
         /\ Undecided(p) => Answers' = Answers
         /\ ~Undecided(p) => OpenCalls' = OpenCalls
<1>1. pc' = [pc EXCEPT ![p] = "idle"] /\ pc \in [Procs -> Steps] /\ DOMAIN call = Procs
  BY DEF Goto, TypeOK
<1>2. NoCall = Contract!NoCall
  BY DEF NoCall, NoName, Contract!NoCall, Contract!NoState
<1>. QED BY <1>1, <1>2 DEF OpenCalls, Answers, Undecided, Answered, Steps

Quiet == UNCHANGED <<ItemState, OpenCalls, Answers, beaten>>

\* Every step of the backend is a step of the contract, or one nobody can see.
LEMMA StepRefines ==
  ASSUME Restored = {}, TypeOK, SourceFits, Single, Fresh, [Next]_vars
  PROVE  [Contract!Next]_(Contract!vars)
<1>0. UnarchiveCalls = {}
  BY DEF UnarchiveCalls
<1>. SUFFICES (\E p \in Procs : 
                 \/ Contract!Ask(p) \/ Contract!Grant(p) \/ Contract!Refuse(p)
                 \/ Contract!Return(p) \/ Contract!Abandon(p))
              \/ Quiet
  BY DEF Contract!Next, Contract!vars, Quiet
\* A refusal is one the contract allows.
<1>2. ASSUME NEW p \in Procs, Undecided(p), Refuse(p), call' = call, ItemState' = ItemState,
             \/ ~Contract!Satisfies(ItemState, StateOf(call[p].expect))
             \/ beaten[p]
             \/ StateOf(call[p].to).dir = "archived"
      PROVE  Contract!Refuse(p)
  <2>1. /\ OpenCalls' = [OpenCalls EXCEPT ![p] = Contract!NoCall]
        /\ Answers' = [Answers EXCEPT ![p] = "refused"]
    BY <1>2, StepOfOne DEF Refuse, Answered, Steps
  <2>. QED BY <1>2, <2>1, OpenCallIs DEF Refuse, Contract!Refuse
<1>3. ASSUME NEW p \in Procs, Ask(p) PROVE Contract!Ask(p)
  <2>1. PICK c \in Calls : 
          /\ call' = [call EXCEPT ![p] = c]
          /\ Goto(p, "find")
          /\ src' = src
    BY <1>0, <1>3 DEF Ask
  <2>2. pc[p] = "idle" /\ UNCHANGED <<names, beaten>>
    BY <1>3 DEF Ask
  <2>3. OpenCalls[p] = Contract!NoCall /\ Answers[p] = "none"
    BY <2>2, OpenCallIs DEF Undecided, Answered, Answers
  <2>4. /\ OpenCalls' = [OpenCalls EXCEPT ![p] =
                           [expect |-> StateOf(c.expect), to |-> StateOf(c.to)]]
        /\ Answers' = Answers
    BY <2>1, <2>2 DEF OpenCalls, Answers, Undecided, Answered, Goto, TypeOK
  <2>5. OpenCalls'[p] \in Contract!Call
    <3>1. StateOf(c.expect) \in Contract!State /\ StateOf(c.to) \in Contract!State
      BY CallShape, StateOfShape
    <3>2. OpenCalls'[p] = [expect |-> StateOf(c.expect), to |-> StateOf(c.to)]
      BY <2>4 DEF OpenCalls
    <3>. QED BY <3>1, <3>2 DEF Contract!Call
  <2>6. OpenCalls' = [OpenCalls EXCEPT ![p] = OpenCalls'[p]]
    BY <2>4 DEF OpenCalls
  <2>7. ItemState' = ItemState
    BY <2>2 DEF ItemState, LiveNames
  <2>. QED BY <2>2, <2>3, <2>4, <2>5, <2>6, <2>7 DEF Contract!Ask
<1>4. ASSUME NEW p \in Procs, Return(p) PROVE Contract!Return(p)
  <2>1. pc[p] \in {"refused", "moved"} /\ UNCHANGED <<names, beaten>>
    BY <1>4 DEF Return
  <2>2. Answers[p] # "none" /\ ~Undecided(p)
    BY <2>1 DEF Answers, Answered, Undecided
  <2>3. Answers' = [Answers EXCEPT ![p] = "none"] /\ OpenCalls' = OpenCalls
    BY <1>4, <2>2, StepToIdle DEF Return
  <2>4. ItemState' = ItemState
    BY <2>1 DEF ItemState, LiveNames
  <2>. QED BY <2>1, <2>2, <2>3, <2>4 DEF Contract!Return
<1>5. ASSUME NEW p \in Procs, Crash(p) PROVE Contract!Abandon(p) \/ Contract!Return(p)
  <2>1. /\ pc[p] # "idle" /\ Goto(p, "idle")
        /\ call' = [call EXCEPT ![p] = NoCall] /\ beaten' = [beaten EXCEPT ![p] = FALSE]
        /\ names' = names
    BY <1>5 DEF Crash
  <2>2. ItemState' = ItemState
    BY <2>1 DEF ItemState, LiveNames
  <2>3. CASE Undecided(p)
    BY <2>1, <2>2, <2>3, StepToIdle, OpenCallIs DEF Contract!Abandon
  <2>4. CASE ~Undecided(p)
    <3>1. beaten' = beaten
      BY <2>1, <2>4 DEF Fresh, TypeOK
    <3>2. Answers[p] # "none"
      BY <2>1, <2>4 DEF Undecided, Answers, Answered
    <3>. QED BY <2>1, <2>2, <2>4, <3>1, <3>2, StepToIdle DEF Contract!Return
  <2>. QED BY <2>3, <2>4
<1>6. CASE UNCHANGED vars
  BY <1>6 DEF vars, Quiet, ItemState, LiveNames, OpenCalls, Answers, Undecided
\* Before it is decided, a call that moves no live name is not seen.
<1>7. ASSUME NEW p \in Procs, NEW step \in Steps \ (Answered \cup {"idle"}), Undecided(p),
             Goto(p, step), call' = call, beaten' = beaten, LiveNames' = LiveNames
      PROVE  Quiet
  BY <1>7, StepOfOne DEF Quiet, ItemState
\* The sidecar moves once the call is decided.
<1>8. ASSUME NEW p \in Procs, StatSidecar(p) \/ MoveSidecar(p) PROVE Quiet
  <2>1. PICK step \in {"move_sidecar", "moved"} : Goto(p, step)
    BY <1>8 DEF StatSidecar, MoveSidecar
  <2>2. pc[p] \in {"stat_sidecar", "move_sidecar"} /\ UNCHANGED <<names, call, beaten>>
    BY <1>8 DEF StatSidecar, MoveSidecar
  <2>3. OpenCalls' = OpenCalls
    BY <2>1, <2>2 DEF Goto, TypeOK, OpenCalls, Undecided, Answered
  <2>4. Answers' = Answers
    BY <2>1, <2>2 DEF Goto, TypeOK, Answers, Answered
  <2>. QED BY <2>2, <2>3, <2>4 DEF Quiet, ItemState, LiveNames
<1>9. ASSUME NEW p \in Procs, Find(p)
      PROVE  Contract!Refuse(p) \/ Contract!Grant(p) \/ Quiet
  <2>1. /\ pc[p] = "find" /\ call[p] \in Calls \ UnarchiveCalls
        /\ UNCHANGED <<names, call>>
    BY <1>0, <1>9 DEF Find, TypeOK
  <2>2. Undecided(p) /\ LiveNames' = LiveNames /\ ItemState' = ItemState
    BY <2>1 DEF Undecided, Answered, LiveNames, ItemState
  <2>3. call[p].expect \in Name /\ call[p].expect.dir \in Live
    <3>1. At("done").dir \in Live
      BY DirsSplit DEF At
    <3>. QED BY <2>1, <3>1, TransitionShape, ArchiveShape DEF Calls
  <2>4. Matching(call[p]) \subseteq LiveNames
    BY <2>3 DEF Matching, LiveNames, Satisfies
  <2>5. StateOf(call[p].expect) = call[p].expect
    BY <2>3, StateOfLive
  <2>6. CASE Refuse(p) /\ Cardinality(Matching(call[p])) # 1
    <3>1. Matching(call[p]) = {}
      <4>1. ASSUME NEW n \in Matching(call[p]) PROVE FALSE
        <5>1. Matching(call[p]) = {n}
          BY <2>4 DEF Single
        <5>. QED BY <2>6, <5>1, FS_Singleton
      <4>. QED BY <4>1
    <3>2. ~Contract!Satisfies(ItemState, call[p].expect)
      <4>1. CASE LiveNames = {}
        BY <2>3, <4>1, ItemStateIs, DirsSplit DEF Contract!Satisfies, At
      <4>2. ASSUME NEW n \in LiveNames PROVE ~Contract!Satisfies(ItemState, call[p].expect)
        <5>1. ItemState = n
          BY ItemStateIs DEF Single
        <5>2. n \in names /\ n \notin Matching(call[p])
          BY <3>1 DEF LiveNames
        <5>. QED BY <5>1, <5>2 DEF Contract!Satisfies, Satisfies, Matching
      <4>. QED BY <4>1, <4>2
    <3>. QED BY <1>2, <2>1, <2>2, <2>5, <2>6, <3>2
  <2>7. ASSUME NEW n \in Matching(call[p]), n = call[p].to, Goto(p, "moved"),
               beaten' = [beaten EXCEPT ![p] = FALSE]
        PROVE  Contract!Grant(p)
    <3>1. ItemState = n /\ n \in Name /\ n.dir \in Live
      <4>1. LiveNames = {n}
        BY <2>4 DEF Single
      <4>. QED BY <4>1, ItemStateIs DEF LiveNames, TypeOK
    <3>2. Contract!Satisfies(ItemState, call[p].expect)
      BY <3>1 DEF Matching, Satisfies, Contract!Satisfies
    <3>3. StateOf(call[p].to) = n
      BY <2>7, <3>1, StateOfLive
    <3>4. /\ OpenCalls' = [OpenCalls EXCEPT ![p] = Contract!NoCall]
          /\ Answers' = [Answers EXCEPT ![p] = "moved"]
      BY <2>1, <2>7, StepOfOne DEF Steps, Answered
    <3>. QED BY <2>2, <2>5, <2>7, <3>1, <3>2, <3>3, <3>4, OpenCallIs DEF Contract!Grant
  <2>8. ASSUME Goto(p, IF NoReplace(call[p]) THEN "link" ELSE "lstat_dst"), beaten' = beaten
        PROVE  Quiet
    BY <1>7, <2>1, <2>2, <2>8 DEF Steps, Answered
  <2>. QED BY <1>9, <2>6, <2>7, <2>8 DEF Find
\* A destination that is taken: the live name is no longer the one p found.
<1>10. ASSUME NEW p \in Procs, LstatDst(p) PROVE Contract!Refuse(p) \/ Quiet
  <2>1. pc[p] = "lstat_dst" /\ UNCHANGED <<names, call>>
    BY <1>10 DEF LstatDst
  <2>2. Undecided(p) /\ LiveNames' = LiveNames /\ ItemState' = ItemState
    BY <2>1 DEF Undecided, Answered, LiveNames, ItemState
  <2>3. CASE call[p].to \in names
    <3>1. call[p] \in TransitionCalls /\ Satisfies(src[p], call[p].expect) /\ src[p] # call[p].to
      BY <2>1 DEF SourceFits, Moving
    <3>2. call[p].to \in LiveNames /\ src[p].dir \in Live
      BY <2>3, <3>1, TransitionShape DEF LiveNames, Satisfies
    <3>3. src[p] \notin names
      BY <3>1, <3>2 DEF Single, LiveNames
    <3>4. beaten[p]
      BY <2>1, <3>3 DEF Fresh
    <3>. QED BY <1>2, <1>10, <2>1, <2>2, <2>3, <3>4 DEF LstatDst
  <2>4. CASE call[p].to \notin names
    <3>1. Goto(p, "rename") /\ beaten' = beaten
      BY <1>10, <2>4 DEF LstatDst
    <3>. QED BY <1>7, <2>1, <2>2, <3>1 DEF Steps, Answered
  <2>. QED BY <2>3, <2>4
\* The step that decides a call in p's favour grants it.
<1>11. ASSUME NEW p \in Procs, Undecided(p), NEW step \in {"stat_sidecar", "moved"},
              Decide(p, step), call' = call,
              Contract!Satisfies(ItemState, StateOf(call[p].expect)),
              ItemState' = StateOf(call[p].to), ItemState' # ItemState
       PROVE  Contract!Grant(p)
  <2>1. /\ OpenCalls' = [OpenCalls EXCEPT ![p] = Contract!NoCall]
        /\ Answers' = [Answers EXCEPT ![p] = "moved"]
    BY <1>11, StepOfOne DEF Decide, Steps, Answered
  <2>2. \A q \in Procs : Undecided(q) <=> OpenCalls[q] # Contract!NoCall
    BY OpenCallIs
  <2>3. beaten' = [q \in Procs |-> q # p /\ (beaten[q] \/ OpenCalls[q] # Contract!NoCall)]
    BY <1>11, <2>2 DEF Decide
  <2>. QED BY <1>11, <2>1, <2>3, OpenCallIs DEF Contract!Grant, Contract!Overtake
<1>12. ASSUME NEW p \in Procs, Rename(p) PROVE Contract!Refuse(p) \/ Contract!Grant(p)
  <2>1. pc[p] = "rename" /\ call' = call
    BY <1>12 DEF Rename
  <2>2. Undecided(p)
    BY <2>1 DEF Undecided, Answered
  <2>3. CASE src[p] \notin names
    <3>1. Refuse(p) /\ names' = names
      BY <1>12, <2>3 DEF Rename
    <3>2. beaten[p]
      BY <2>1, <2>3 DEF Fresh
    <3>3. ItemState' = ItemState
      BY <3>1 DEF ItemState, LiveNames
    <3>. QED BY <1>2, <2>1, <2>2, <3>1, <3>2, <3>3
  <2>4. CASE src[p] \in names
    <3>1. /\ call[p] \in TransitionCalls
          /\ Satisfies(src[p], call[p].expect) /\ src[p] # call[p].to
      BY <2>1 DEF SourceFits, Moving
    <3>2. /\ call[p].expect \in Name /\ call[p].expect.dir \in Live
          /\ call[p].to \in Name /\ call[p].to.dir \in Live
      BY <3>1, TransitionShape
    <3>3. LiveNames = {src[p]} /\ LiveNames' = {call[p].to}
      <4>1. src[p] \in LiveNames
        BY <2>4, <3>1, <3>2 DEF LiveNames, Satisfies
      <4>2. LiveNames = {src[p]}
        BY <4>1 DEF Single
      <4>3. call[p].to \notin names
        BY <3>1, <3>2, <4>2 DEF LiveNames
      <4>4. names' = (names \ {src[p]}) \cup {call[p].to}
        BY <1>12, <2>4, <4>3 DEF Rename, RenameTo
      <4>. QED BY <3>2, <4>2, <4>4 DEF LiveNames
    <3>4. ItemState = src[p] /\ ItemState' = call[p].to
      BY <3>3, ItemStateIs, ItemStateIsNext
    <3>5. PICK step \in {"stat_sidecar", "moved"} : Decide(p, step)
      BY <1>12, <2>4 DEF Rename
    <3>6. Contract!Satisfies(ItemState, StateOf(call[p].expect))
      BY <3>1, <3>2, <3>4, StateOfLive DEF Satisfies, Contract!Satisfies
    <3>7. StateOf(call[p].to) = call[p].to
      BY <3>2, StateOfLive
    <3>. QED BY <1>11, <2>1, <2>2, <3>1, <3>4, <3>5, <3>6, <3>7
  <2>. QED BY <2>3, <2>4
\* What the archive's steps are about: a done item and a partition.
<1>13. ASSUME NEW p \in Procs, pc[p] \in {"link", "unlink", "undo"}
       PROVE  /\ Undecided(p)
              /\ call[p].expect = At("done") /\ src[p].dir = "done"
              /\ StateOf(call[p].to) = At("archived")
              /\ call[p].to.dir \notin Live
  <2>1. call[p] \in ArchiveCalls /\ Satisfies(src[p], call[p].expect)
    BY <1>0, <1>13 DEF SourceFits, Moving
  <2>2. Undecided(p)
    BY <1>13 DEF Undecided, Answered
  <2>. QED BY <2>1, <2>2, ArchiveShape, DirsSplit DEF Satisfies, At, StateOf
<1>14. ASSUME NEW p \in Procs, LstatSrc(p) PROVE FALSE
  BY <1>0, <1>14 DEF LstatSrc, SourceFits
<1>15. ASSUME NEW p \in Procs, Link(p) PROVE Contract!Refuse(p) \/ Quiet
  <2>1. pc[p] = "link" /\ call' = call
    BY <1>15 DEF Link
  <2>2. LiveNames' = LiveNames /\ ItemState' = ItemState
    <3>1. names' = names \/ names' = names \cup {call[p].to}
      BY <1>15 DEF Link
    <3>2. LiveNames' = LiveNames
      BY <1>13, <2>1, <3>1 DEF LiveNames
    <3>. QED BY <3>2 DEF ItemState
  <2>3. CASE Goto(p, "unlink") /\ beaten' = beaten
    BY <1>7, <1>13, <2>1, <2>2, <2>3 DEF Steps, Answered
  <2>4. CASE Refuse(p)
    <3>1. StateOf(call[p].to).dir = "archived"
      BY <1>13, <2>1 DEF At
    <3>. QED BY <1>2, <1>13, <2>1, <2>2, <2>4, <3>1
  <2>. QED BY <1>15, <2>3, <2>4 DEF Link
<1>16. ASSUME NEW p \in Procs, Unlink(p) PROVE Contract!Grant(p) \/ Quiet
  <2>1. pc[p] = "unlink" /\ call' = call
    BY <1>16 DEF Unlink
  <2>2. CASE src[p] \in names
    <3>1. names' = names \ {src[p]} /\ Decide(p, "stat_sidecar")
      BY <1>16, <2>2 DEF Unlink
    <3>2. src[p] \in LiveNames
      BY <1>13, <2>1, <2>2, DirsSplit DEF LiveNames
    <3>3. LiveNames = {src[p]} /\ LiveNames' = {}
      BY <3>1, <3>2 DEF Single, LiveNames
    <3>4. ItemState = src[p] /\ ItemState' = At("archived")
      BY <3>3, ItemStateIs, ItemStateIsNext
    <3>5. StateOf(call[p].expect) = At("done")
      <4>1. At("done").dir \notin Partitions
        BY DirsSplit DEF At
      <4>. QED BY <1>13, <2>1, <4>1 DEF StateOf
    <3>6. Contract!Satisfies(ItemState, StateOf(call[p].expect))
      BY <1>13, <2>1, <3>4, <3>5 DEF Contract!Satisfies, At
    <3>7. ItemState' # ItemState
      BY <1>13, <2>1, <3>4 DEF At
    <3>. QED BY <1>11, <1>13, <2>1, <3>1, <3>4, <3>6, <3>7
  <2>3. CASE src[p] \notin names
    <3>1. Goto(p, "undo") /\ beaten' = beaten /\ names' = names
      BY <1>16, <2>3 DEF Unlink
    <3>2. LiveNames' = LiveNames
      BY <3>1 DEF LiveNames
    <3>. QED BY <1>7, <1>13, <2>1, <3>1, <3>2 DEF Steps, Answered
  <2>. QED BY <2>2, <2>3
<1>17. ASSUME NEW p \in Procs, Undo(p) PROVE Contract!Refuse(p)
  <2>1. pc[p] = "undo" /\ call' = call /\ Refuse(p) /\ names' = names \ {call[p].to}
    BY <1>17 DEF Undo
  <2>2. LiveNames' = LiveNames
    BY <1>13, <2>1 DEF LiveNames
  <2>3. ItemState' = ItemState
    BY <2>2 DEF ItemState
  <2>4. StateOf(call[p].to).dir = "archived"
    BY <1>13, <2>1 DEF At
  <2>. QED BY <1>2, <1>13, <2>1, <2>3, <2>4
<1>. QED BY <1>3, <1>4, <1>5, <1>6, <1>8, <1>9, <1>10, <1>12, <1>14, <1>15, <1>16, <1>17
         DEF Next, Step

\* The backend starts as the contract does.
LEMMA InitRefines == Init => Contract!Init
<1>. SUFFICES ASSUME Init PROVE Contract!Init OBVIOUS
<1>1. PICK n \in Name : n.dir \in Live /\ names = {n}
  BY DEF Init
<1>2. LiveNames = {n}
  BY <1>1 DEF LiveNames
<1>3. ItemState \in Contract!State
  BY <1>1, <1>2, ItemStateIs, StateOfLive, StateOfShape
<1>4. NoCall = Contract!NoCall
  BY DEF NoCall, NoName, Contract!NoCall, Contract!NoState
<1>5. /\ OpenCalls = [p \in Procs |-> Contract!NoCall]
      /\ Answers = [p \in Procs |-> "none"]
      /\ beaten = [p \in Procs |-> FALSE]
  BY <1>4 DEF Init, OpenCalls, Answers, Undecided, Answered
<1>. QED BY <1>3, <1>5 DEF Contract!Init

\* The filesystem backend implements the contract of store.Backend, system call
\* by system call: a move is granted at one instant, from a state that satisfied
\* the expectation, and a Transition is refused only to a caller that expected
\* wrongly or was overtaken during its call.  Unarchive is left out: see
\* NotLeftInTwoDirectories.
THEOREM ContractKept ==
  ASSUME Restored = {}
  PROVE  Spec => KeepsContract
<1>1. Init => Fresh
  BY DEF Init, Fresh
<1>2. TypeOK /\ SourceFits /\ Single /\ Fresh /\ [Next]_vars => Fresh'
  BY NextFresh
<1>3. TypeOK /\ SourceFits /\ Single /\ Fresh /\ [Next]_vars => [Contract!Next]_(Contract!vars)
  BY StepRefines
<1>. QED BY <1>1, <1>2, <1>3, SingleInvariant, InitRefines, PTL DEF Spec, KeepsContract, Contract!Spec
-------------------------------------------------------------------------------
(* The result sidecar. *)

\* There is one sidecar at most.
LEMMA OneSidecar == Spec => [](\A a, b \in sides : a = b)
<1>. DEFINE One == \A a, b \in sides : a = b
<1>1. Init => One
  BY DEF Init
<1>2. One /\ [Next]_vars => One'
  <2>. SUFFICES ASSUME One, [Next]_vars PROVE One' OBVIOUS
  <2>1. ASSUME NEW p \in Procs, MoveSidecar(p) PROVE One'
    BY <2>1 DEF MoveSidecar
  <2>2. ASSUME sides' = sides PROVE One'
    BY <2>2
  <2>. QED BY <2>1, <2>2 DEF Next, Step, vars, Ask, Find, LstatDst, Rename, LstatSrc, Link,
                             Unlink, Undo, StatSidecar, Return, Crash
<1>. QED BY <1>1, <1>2, PTL DEF Spec

\* Moves carry a result sidecar and never destroy one, however they overlap and
\* wherever they stop (MoveSidecar).
THEOREM SidecarSurvives == Spec => SidecarKept
<1>1. (\A a, b \in sides : a = b) /\ [Next]_vars
        => [Cardinality(sides') = Cardinality(sides)]_vars
  <2>. SUFFICES ASSUME \A a, b \in sides : a = b, [Next]_vars
                PROVE  Cardinality(sides') = Cardinality(sides) \/ UNCHANGED vars
    OBVIOUS
  <2>1. ASSUME NEW p \in Procs, MoveSidecar(p) PROVE Cardinality(sides') = Cardinality(sides)
    <3>1. CASE src[p].dir \in sides
      <4>1. sides = {src[p].dir} /\ sides' = {call[p].to.dir}
        BY <2>1, <3>1 DEF MoveSidecar
      <4>2. Cardinality({src[p].dir}) = 1 /\ Cardinality({call[p].to.dir}) = 1
        BY FS_Singleton
      <4>. QED BY <4>1, <4>2
    <3>2. CASE src[p].dir \notin sides
      BY <2>1, <3>2 DEF MoveSidecar
    <3>. QED BY <3>1, <3>2
  <2>. QED BY <2>1 DEF Next, Step, vars, Ask, Find, LstatDst, Rename, LstatSrc, Link, Unlink,
                       Undo, StatSidecar, Return, Crash
<1>. QED BY <1>1, OneSidecar, PTL DEF Spec, SidecarKept
===============================================================================
