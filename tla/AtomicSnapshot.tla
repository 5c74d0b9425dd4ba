--------------------------- MODULE AtomicSnapshot ---------------------------
(***************************************************************************)
(* What a generation-guarded block of HAL pins promises its reader: a      *)
(* publication replaces the whole snapshot in one step, and a read that    *)
(* the reader accepts yields the snapshot that is published at that        *)
(* moment, whole.                                                          *)
(***************************************************************************)
CONSTANTS Snapshots,   \* the values a block of pins can hold
          Initial      \* what the pins hold before the first publication

VARIABLES current,     \* the snapshot last published
          held         \* the snapshot the reader acts on

atomicVars == <<current, held>>

AtomicInit == current = Initial /\ held = Initial

Publish == \E s \in Snapshots : current' = s /\ UNCHANGED held

Accept == held' = current /\ UNCHANGED current

AtomicNext == Publish \/ Accept

AtomicSpec == AtomicInit /\ [][AtomicNext]_atomicVars
=============================================================================
