------------------------------ MODULE MCFsMoves ------------------------------
\* Instances of FsStore for TLC: who calls, and which moves they ask for.
EXTENDS FsStore, TLC

Symmetry == Permutations(Procs)

\* Claim, re-stamp, give back, complete, reopen.
ClaimMoves ==
  { <<"available", "claimed">>, <<"claimed", "claimed">>, <<"claimed", "available">>,
    <<"claimed", "done">>, <<"done", "claimed">> }

\* Complete and reopen, beside the archive.
DoneMoves == { <<"claimed", "done">>, <<"done", "claimed">> }

\* ... and give back.
ArchiveMoves == { <<"claimed", "done">>, <<"done", "claimed">>, <<"claimed", "available">> }
===============================================================================
