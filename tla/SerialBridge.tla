---------------------------- MODULE SerialBridge ----------------------------
(***************************************************************************)
(* The serial bridge's state (state.rs): what each line of the decoder,    *)
(* each silence, each transport failure and each reset request of the      *)
(* runtime makes of the snapshot that is published on the HAL pins.        *)
(* Of the counters only the dropped packets are kept; the heartbeat, the   *)
(* selectors, the wheel and the evidence of a fault are left out.          *)
(***************************************************************************)
EXTENDS Integers, Sequences

CONSTANTS SequenceModulus,   \* the packet sequence wraps here (2^32)
          CounterModulus,    \* so does the count of dropped packets (2^32)
          PacketTimeout,     \* ticks of silence the link survives
          MaxErrors,         \* bound: quadrature errors of one decoder life
          MaxRequests,       \* bound: reset requests of the runtime
          None

Sequences32 == 0 .. SequenceModulus - 1
Errors == 0 .. MaxErrors
Requests == 0 .. MaxRequests
\* An age no longer counts once it is past the timeout.
Ages == 0 .. PacketTimeout + 1
\* A reset request that is looked at: what the decoder's error count was then.
PendingReset == [request: Requests, errors: Errors, age: Ages]

ASSUME BridgeAssumption ==
  /\ SequenceModulus \in Nat /\ SequenceModulus >= 4 /\ SequenceModulus % 2 = 0
  /\ CounterModulus \in Nat \ {0}
  /\ PacketTimeout \in Nat \ {0}
  /\ MaxErrors \in Nat /\ MaxRequests \in Nat
  /\ None \notin Int /\ None \notin PendingReset

Older(age) == IF age > PacketTimeout THEN age ELSE age + 1

\* What follows a line on the wire. missed (of the model) is the number of
\* packets lost just before this one.
Packets == [kind: {"packet"}, sequence: Sequences32, errors: Errors,
            pressed: BOOLEAN, deadman: BOOLEAN, missed: Nat]
Boot == [kind |-> "boot"]
Garbled == [kind |-> "garbled"]

(***************************************************************************)
(* Snapshot and BridgeState, in one record.  missed (of the model) is what *)
(* dropped should be.                                                      *)
(***************************************************************************)
SafeBridge ==
  [connected |-> FALSE, serialFault |-> TRUE, quadratureFault |-> FALSE,
   pressed |-> TRUE, deadman |-> FALSE, errors |-> 0, ack |-> 0,
   dropped |-> 0, missed |-> 0,
   age |-> None, previous |-> None, previousErrors |-> None, baseline |-> TRUE,
   lastRequest |-> 0, pending |-> None]

\* Zero cancels a request; a request is looked at once.
ObserveFaultReset(b, request) ==
  IF request = 0 THEN [b EXCEPT !.pending = None]
  ELSE IF request = b.lastRequest THEN b
  ELSE [b EXCEPT
          !.lastRequest = request,
          !.pending =
            IF /\ b.age # None /\ b.age <= PacketTimeout
               /\ ~b.baseline /\ b.connected /\ ~b.serialFault
               /\ b.quadratureFault /\ ~b.pressed /\ ~b.deadman
            THEN [request |-> request, errors |-> b.errors, age |-> 0]
            ELSE None]

\* The next packet is a baseline again, whatever ended the link.
Unlinked(b) ==
  [b EXCEPT !.pending = None, !.age = None, !.previous = None,
            !.previousErrors = None, !.baseline = TRUE]

\* Mutant of SafeSnapshot: starts the link over, the decoder's fault included.
FreshSnapshot(b) == [SafeBridge EXCEPT !.dropped = b.dropped, !.missed = b.missed,
                                       !.lastRequest = b.lastRequest]

\* safe_snapshot: the latched quadrature fault outlives the link, the
\* acknowledgement does not.
SafeSnapshot(b) ==
  [Unlinked(b) EXCEPT !.connected = FALSE, !.serialFault = TRUE, !.pressed = TRUE,
                      !.deadman = FALSE, !.ack = 0]

ResetForBoot(b) == [SafeSnapshot(b) EXCEPT !.quadratureFault = FALSE, !.errors = 0]

NoteTransportFault(b) == SafeSnapshot(b)

NoteProtocolError(b) == SafeSnapshot(b)

\* How far the sequence has advanced, in 32 bits; half of them are "back".
Delta(b, p) == (p.sequence - b.previous) % SequenceModulus
OutOfOrder(b, p) ==
  b.previous # None /\ (Delta(b, p) = 0 \/ Delta(b, p) >= SequenceModulus \div 2)

Gap(b, p) == Delta(b, p)                    \* mutant of Dropped: counts the packet itself
Dropped(b, p) == IF Delta(b, p) > 1 THEN Delta(b, p) - 1 ELSE 0

\* The pending reset is answered by the packet that follows it, if nothing
\* has moved since.
ResetAccepted(b, p) ==
  LET reset == b.pending
  IN  /\ reset # None
      /\ ~b.baseline /\ b.connected /\ ~b.serialFault
      /\ ~p.pressed /\ ~p.deadman
      /\ reset.age <= PacketTimeout
      /\ p.errors = reset.errors
      /\ b.previousErrors = reset.errors

QuadratureFault(b, p) ==
  IF b.previousErrors # None /\ p.errors # b.previousErrors THEN TRUE
  ELSE b.quadratureFault /\ ~ResetAccepted(b, p)

AcceptPacket(b, p) ==
  IF OutOfOrder(b, p) THEN NoteProtocolError(b)
  ELSE [b EXCEPT
          !.dropped = IF b.previous = None THEN @ ELSE (@ + Dropped(b, p)) % CounterModulus,
          !.missed = IF b.previous = None THEN @ ELSE (@ + p.missed) % CounterModulus,
          !.pending = None,
          !.ack = IF ResetAccepted(b, p) THEN b.pending.request ELSE @,
          !.connected = TRUE, !.serialFault = FALSE,
          !.quadratureFault = QuadratureFault(b, p),
          !.pressed = p.pressed, !.deadman = p.deadman,
          !.errors = p.errors, !.age = 0, !.previous = p.sequence, !.previousErrors = p.errors,
          !.baseline = FALSE]

AcceptLine(b, line) ==
  IF line = Boot THEN ResetForBoot(b)
  ELSE IF line = Garbled THEN NoteProtocolError(b)
  ELSE AcceptPacket(b, line)

TimedOut(b) == b.age # None /\ b.age > PacketTimeout
TimeoutUnlinksOnly(b) == IF TimedOut(b) THEN Unlinked(b) ELSE b   \* mutant of CheckTimeout
CheckTimeout(b) == IF TimedOut(b) THEN SafeSnapshot(b) ELSE b

\* The clock runs on for the last packet and for a pending reset.
Aged(r) == IF r.age = None THEN r ELSE [r EXCEPT !.age = Older(@)]
Elapsed(b) == [Aged(b) EXCEPT !.pending = IF @ = None THEN None ELSE Aged(@)]
=============================================================================
