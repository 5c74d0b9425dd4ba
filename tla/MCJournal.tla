------------------------------- MODULE MCJournal -------------------------------
\* Two supervisors that share the file, and one that comes after a crash or a
\* power loss, in whichever order.
EXTENDS SessionJournal, TLC

CONSTANTS s1, s2, s3
Three == {s1, s2, s3}
Symmetry == Permutations(Three)
===============================================================================
