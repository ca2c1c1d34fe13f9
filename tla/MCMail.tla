------------------------------- MODULE MCMail -------------------------------
(***************************************************************************)
(* Instances of Mail for TLC: a mailbox x, its stray twin mg_x (which a    *)
(* name with two prefixes still reaches), and a scheduler with none.       *)
(***************************************************************************)
EXTENDS Mail
CONSTANTS p1, p2, p3, x, mg_x, mg_mg_x, scheduler, m1, m2

MCProc == {p1, p2, p3}
MCBox == {x, mg_x, scheduler}
MCSpelling == MCBox \cup {mg_mg_x}
MCCanonical == [s \in MCSpelling |-> IF s = mg_mg_x THEN mg_x ELSE IF s = mg_x THEN x ELSE s]
MCMsg == {m1, m2}
MCFrom == [m \in MCMsg |-> scheduler]
MCSubject == [m \in MCMsg |-> "fire"]
MCDate == [m \in MCMsg |-> IF m = m1 THEN 1 ELSE 2]

\* a sender, a reader who answers, and somebody who cleans up
Parts == [p \in MCProc |->
            CASE p = p1 -> {"send"}
              [] p = p2 -> {"read", "archive", "reply"}
              [] OTHER -> {"list", "register", "reclaim", "migrate"}]
Sweepers == [p \in MCProc |->
            CASE p = p1 -> {"send"}
              [] p = p2 -> {"read"}
              [] OTHER -> {"reclaim"}]
=============================================================================
