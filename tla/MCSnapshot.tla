----------------------------- MODULE MCSnapshot -----------------------------
\* Two or three pins, a generation that wraps after four publications.
EXTENDS SnapshotGeneration

MCInitial == [p \in Pins |-> FALSE]
=============================================================================
