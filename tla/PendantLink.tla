----------------------------- MODULE PendantLink -----------------------------
(***************************************************************************)
(* The pendant's serial link, end to end: the decoder's packets, a line    *)
(* that loses and garbles them, the bridge's loop (application/mod.rs) and *)
(* the runtime's side of the decoder reset (runtime.rs).  The runtime      *)
(* reads the bridge's pins as one snapshot (SnapshotGeneration).           *)
(***************************************************************************)
EXTENDS SerialBridge

CONSTANTS WireCapacity,      \* bound: lines under way
          LossWindow         \* bound: packets lost in a row

\* Losses cannot make a sequence look reversed or repeated.
ASSUME LinkAssumption ==
  /\ WireCapacity \in Nat \ {0}
  /\ LossWindow \in Nat /\ LossWindow + 1 < SequenceModulus \div 2

VARIABLES decoder,   \* its sequence and error count, the button, packets lost in a row
          wire,      \* the lines between the decoder and the bridge
          bridge,
          port,      \* the bridge's serial port: "closed" or "open"
          runtime    \* the runtime's decoder reset

vars == <<decoder, wire, bridge, port, runtime>>

(***************************************************************************)
(* The decoder reports every REPORT_INTERVAL_MS, a packet for the interval *)
(* that ends; the wheel may have been misread in it.                       *)
(***************************************************************************)
NewDecoder == [sequence: {0}, errors: {0}, missed: {0}, pressed: BOOLEAN]

Report(misreads) ==
  [decoder EXCEPT !.sequence = (@ + 1) % SequenceModulus, !.errors = @ + misreads]

\* A packet that is put on the wire.
EmitStatus ==
  \E misreads \in 0 .. 1, held \in BOOLEAN :
    /\ ~(held /\ decoder.pressed)      \* either forbids a reset; both say no more
    /\ decoder.errors + misreads <= MaxErrors
    /\ port # "closed" /\ Len(wire) < WireCapacity
    /\ decoder' = [Report(misreads) EXCEPT !.missed = 0]
    /\ wire' = Append(wire,
         [kind |-> "packet", sequence |-> decoder.sequence,
          errors |-> decoder.errors + misreads,
          pressed |-> decoder.pressed, deadman |-> held, missed |-> decoder.missed])
    /\ UNCHANGED <<bridge, port, runtime>>

\* A packet that never arrives. With the port closed nobody counts.
LosePacket ==
  \E misreads \in 0 .. 1 :
    /\ decoder.errors + misreads <= MaxErrors
    /\ decoder.missed < LossWindow
    /\ decoder' = [Report(misreads) EXCEPT !.missed = IF port = "closed" THEN 0 ELSE @ + 1]
    /\ UNCHANGED <<wire, bridge, port, runtime>>

\* A decoder that restarts counts from zero and says so first.
Reboot ==
  /\ Len(wire) < WireCapacity
  /\ decoder' = [decoder EXCEPT !.sequence = 0, !.errors = 0, !.missed = 0]
  /\ wire' = IF port = "closed" THEN wire ELSE Append(wire, Boot)
  /\ UNCHANGED <<bridge, port, runtime>>

TurnButton ==
  /\ decoder' = [decoder EXCEPT !.pressed = ~@]
  /\ UNCHANGED <<wire, bridge, port, runtime>>

\* Noise, or a line cut by the opening of the port.
Garble ==
  /\ \E i \in DOMAIN wire : wire[i] # Garbled /\ wire' = [wire EXCEPT ![i] = Garbled]
  /\ UNCHANGED <<decoder, bridge, port, runtime>>

(***************************************************************************)
(* The bridge's loop: take the reset request, read what has arrived, check *)
(* the age of the last packet, publish.                                    *)
(***************************************************************************)
OpenPort ==
  /\ port = "closed"
  /\ \/ port' = "open" /\ UNCHANGED bridge
     \/ bridge' = NoteTransportFault(bridge) /\ UNCHANGED port
  /\ wire' = <<>>
  /\ UNCHANGED <<decoder, runtime>>

ReadFailure ==
  /\ port = "open"
  /\ bridge' = NoteTransportFault(ObserveFaultReset(bridge, runtime.request))
  /\ port' = "closed" /\ wire' = <<>>
  /\ UNCHANGED <<decoder, runtime>>

\* A pass that reads a line. Nothing can time out in it, so a pass of many
\* lines is as many of these, and what changes between the steps of a pass
\* could as well have changed before it.
ReadLine ==
  /\ port = "open" /\ wire # <<>>
  /\ bridge' = AcceptLine(ObserveFaultReset(bridge, runtime.request), Head(wire))
  /\ wire' = Tail(wire)
  /\ UNCHANGED <<decoder, port, runtime>>

\* A pass that finds nothing, or only part of a line. A silence too long
\* closes the port, and what was under way is lost with it.
ReadNothing ==
  /\ port = "open"
  /\ LET b == ObserveFaultReset(bridge, runtime.request)
     IN  /\ bridge' = CheckTimeout(b)
         /\ IF TimedOut(b) THEN port' = "closed" /\ wire' = <<>> ELSE UNCHANGED <<port, wire>>
  /\ UNCHANGED <<decoder, runtime>>

(***************************************************************************)
(* The runtime: request is its fault-reset-request pin, zero when nothing  *)
(* is pending.                                                             *)
(***************************************************************************)
NewRuntime == [generation |-> 0, request |-> 0]

\* Clear Fault, or AXIS Reset of a retained fault: a new request while the
\* decoder's fault is shown, else none is left pending.
ClearFault ==
  /\ IF bridge.quadratureFault
     THEN /\ runtime.generation < MaxRequests
          /\ runtime' = [generation |-> runtime.generation + 1,
                         request |-> runtime.generation + 1]
     ELSE runtime.request # 0 /\ runtime' = [runtime EXCEPT !.request = 0]
  /\ UNCHANGED <<decoder, wire, bridge, port>>

\* The pending reset is over when the deadman is held, when the bridge has
\* answered it or, in any cycle, because it has waited too long: that timer
\* is the servo thread's own.
EndReset ==
  /\ runtime.request # 0
  /\ runtime' = [runtime EXCEPT !.request = 0]
  /\ UNCHANGED <<decoder, wire, bridge, port>>

Tick ==
  /\ bridge' = Elapsed(bridge)
  /\ UNCHANGED <<decoder, wire, port, runtime>>

Init ==
  /\ decoder \in NewDecoder
  /\ wire = <<>>
  /\ bridge = SafeBridge
  /\ port = "closed"
  /\ runtime = NewRuntime

BridgeLoop == OpenPort \/ ReadLine \/ ReadNothing

Next == \/ EmitStatus \/ LosePacket \/ Reboot \/ TurnButton \/ Garble
        \/ BridgeLoop \/ ReadFailure
        \/ ClearFault \/ EndReset
        \/ Tick

Spec == Init /\ [][Next]_vars

\* The bridge's process is scheduled and the clock runs; nothing is assumed
\* of the decoder, the wire or the runtime.
FairSpec == Spec /\ WF_vars(BridgeLoop) /\ WF_vars(Tick)

(***************************************************************************)
(* Properties.                                                             *)
(***************************************************************************)
\* While the link lasts the dropped-packet counter counts exactly the lost
\* packets, across the wrap of the sequence (accept).
DropsAreCounted == bridge.dropped = bridge.missed

BootRead == wire # <<>> /\ Head(wire) = Boot /\ wire' = Tail(wire)

\* A quadrature fault that is shown ends only with a restart of the decoder,
\* or with a reset the runtime asked for while the port is open: not with a
\* timeout, a garbled line or a reopened port.
QuadratureFaultIsHeld ==
  [][bridge.quadratureFault /\ ~bridge'.quadratureFault =>
       \/ BootRead
       \/ bridge.connected /\ (bridge.pending # None \/ runtime.request # 0)]_vars

\* A pressed E-stop button is reported, or released: by a packet while the
\* link lives, by the safe snapshot when it does not, whatever the decoder,
\* the wire and the port do.
PressIsReported ==
  decoder.pressed ~> (bridge.pressed \/ ~decoder.pressed)
=============================================================================
