------------------------------ MODULE MCEdits -------------------------------
(***************************************************************************)
(* An instance of Edits for TLC: two writers and one who archives.         *)
(***************************************************************************)
EXTENDS Edits
CONSTANTS p1, p2, p3, s1, s2, s3
MCProc == {p1, p2, p3}
MCSec == {s1, s2, s3}
MCBytes == [b \in SUBSET MCSec |-> Cardinality(b)]
MCHash == [b \in SUBSET MCSec |-> (IF s1 \in b THEN 1 ELSE 0) + (IF s2 \in b THEN 2 ELSE 0)
                                  + (IF s3 \in b THEN 4 ELSE 0)]
Parts == [p \in MCProc |->
            CASE p = p1 -> {"replace", "append", "take"}
              [] p = p2 -> {"replace", "restore", "take", "assign"}
              [] OTHER -> {"archive", "unarchive"}]
=============================================================================
