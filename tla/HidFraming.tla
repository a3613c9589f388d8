----------------------------- MODULE HidFraming -----------------------------
(***************************************************************************)
(* USB HID framing: wrap_apdu and unwrap_response of cli/src/transport.rs. *)
(* A payload travels in packets of 64 bytes; the first one carries its     *)
(* length, each one a sequence number, the last one is padded.  A process  *)
(* that opens the device may do so while an answer is being transmitted,   *)
(* and packets may be lost, repeated or damaged on their way; the bus keeps *)
(* their order.                                                            *)
(*                                                                         *)
(* Byte k of answer n is the pair <<n, k>>.                                *)
(***************************************************************************)
EXTENDS Integers, Sequences, SequencesExt

CONSTANTS
  FirstCapacity,   \* payload bytes of the first packet (57)
  NextCapacity,    \* payload bytes of the others (59)
  Lengths,         \* lengths of the answers
  MaxAnswers,      \* bound on the answers sent
  MaxFaults        \* bound on the packets that do not arrive as sent

ASSUME CapacityAssumption ==
  /\ FirstCapacity \in Nat \ {0} /\ NextCapacity \in Nat \ {0}
  /\ Lengths \subseteq Nat /\ MaxAnswers \in Nat /\ MaxFaults \in Nat

VARIABLES
  sent,      \* lengths of the answers sent so far
  wire,      \* packets on their way to the process
  reader,    \* unwrap_response: its phase and local variables
  returned,  \* the answers unwrap_response returned
  faults,    \* packets that did not arrive as sent
  aligned    \* no fault, and no process opened between two packets
vars == <<sent, wire, reader, returned, faults, aligned>>

-----------------------------------------------------------------------------
Pad == <<0, 0>>
Padding(n) == [k \in 1..n |-> Pad]

Payload(n, len) == [k \in 1..len |-> <<n, k>>]

(* Packets of a payload: the first always, the others while bytes remain.  *)
PacketCount(len) ==
  1 + (IF len <= FirstCapacity THEN 0
       ELSE (len - FirstCapacity + NextCapacity - 1) \div NextCapacity)

wrap_apdu(payload) ==
  [k \in 1..PacketCount(Len(payload)) |->
     LET capacity == IF k = 1 THEN FirstCapacity ELSE NextCapacity
         offset == IF k = 1 THEN 0 ELSE FirstCapacity + (k - 2) * NextCapacity
         chunk == SubSeq(payload, offset + 1,
                         IF offset + capacity < Len(payload)
                         THEN offset + capacity ELSE Len(payload))
     IN  [sequence |-> k - 1,
          total    |-> IF k = 1 THEN Len(payload) ELSE 0,
          data     |-> chunk \o Padding(capacity - Len(chunk)),
          sound    |-> TRUE]]

(* normalize_hid_packet and validate_frame_header: the packet has the      *)
(* right size, channel and tag, and is the one that is expected next.      *)
AnyOrder(packet, expected) == packet.sound   \* mutant: sequence not looked at
ValidHeader(packet, expected) == packet.sound /\ packet.sequence = expected

NotYetFull(out, total) == Len(out) <= total   \* mutant: one byte too far
MoreToRead(out, total) == Len(out) < total

Idle == [phase |-> "idle", total |-> 0, out |-> <<>>, sequence |-> 0]
Ended(phase) == [Idle EXCEPT !.phase = phase]

-----------------------------------------------------------------------------
Init ==
  /\ sent = <<>> /\ wire = <<>> /\ returned = <<>>
  /\ reader = Idle
  /\ faults = 0 /\ aligned = TRUE

(* The device transmits an answer.                                         *)
Transmit ==
  /\ Len(sent) < MaxAnswers
  /\ \E len \in Lengths :
       /\ sent' = Append(sent, len)
       /\ wire' = wire \o wrap_apdu(Payload(Len(sent) + 1, len))
  /\ UNCHANGED <<reader, returned, faults, aligned>>

(* What unwrap_response does once a packet was taken in.                   *)
Took(out, total, sequence) ==
  IF MoreToRead(out, total)
  THEN /\ reader' = [phase |-> "reading", total |-> total, out |-> out,
                     sequence |-> sequence]
       /\ UNCHANGED returned
  ELSE /\ reader' = Idle
       /\ returned' = Append(returned, SubSeq(out, 1, total))

ReadFirst ==
  /\ reader.phase = "idle" /\ wire # <<>>
  /\ ValidHeader(Head(wire), 0)
  /\ Took(Head(wire).data, Head(wire).total, 1)
  /\ wire' = Tail(wire)
  /\ UNCHANGED <<sent, faults, aligned>>

ReadContinuation ==
  /\ reader.phase = "reading" /\ wire # <<>>
  /\ ValidHeader(Head(wire), reader.sequence)
  /\ Took(reader.out \o Head(wire).data, reader.total, reader.sequence + 1)
  /\ wire' = Tail(wire)
  /\ UNCHANGED <<sent, faults, aligned>>

(* An unexpected packet ends the process.                                  *)
ReadFails ==
  /\ wire # <<>>
  /\ \/ reader.phase = "idle" /\ ~ValidHeader(Head(wire), 0)
     \/ reader.phase = "reading" /\ ~ValidHeader(Head(wire), reader.sequence)
  /\ reader' = Ended("failed")
  /\ wire' = Tail(wire)
  /\ UNCHANGED <<sent, returned, faults, aligned>>

(* So does a read that times out, at the first packet or at a later one.   *)
ReadTimesOut ==
  /\ reader.phase \in {"idle", "reading"} /\ wire = <<>>
  /\ reader' = Ended("timed out")
  /\ UNCHANGED <<sent, wire, returned, faults, aligned>>

(* Another process opens the device: what arrived before is not delivered  *)
(* to it, what is still on the way is.                                     *)
Open ==
  /\ reader.phase \in {"failed", "timed out"}
  /\ \E k \in 0..Len(wire) :
       /\ wire' = SubSeq(wire, k + 1, Len(wire))
       /\ aligned' = (aligned /\ (wire' # <<>> => Head(wire').sequence = 0))
  /\ reader' = Idle
  /\ UNCHANGED <<sent, returned, faults>>

(* A packet is lost, repeated or damaged.                                  *)
Fault ==
  /\ faults < MaxFaults
  /\ \E k \in 1..Len(wire) :
       \/ wire' = RemoveAt(wire, k)
       \/ wire' = InsertAt(wire, k, wire[k])
       \/ wire' = [wire EXCEPT ![k].sound = FALSE]
  /\ faults' = faults + 1 /\ aligned' = FALSE
  /\ UNCHANGED <<sent, reader, returned>>

Next == Transmit \/ ReadFirst \/ ReadContinuation \/ ReadFails \/ ReadTimesOut
        \/ Open \/ Fault

Spec == Init /\ [][Next]_vars

-----------------------------------------------------------------------------
(* Hazard: packets of two answers, of which parts were missed or damaged,  *)
(* are put together.  With at most one packet lost, repeated or damaged,   *)
(* every answer that is returned is one the device sent, from its first to *)
(* its last byte and without padding.                                      *)
AnswersAreWhole ==
  faults <= 1 =>
    \A i \in 1..Len(returned) : \E n \in 1..Len(sent) :
      returned[i] = Payload(n, sent[n])

(* Hazard: the boundary of a packet.  While every packet arrives and each  *)
(* process hears answers from their start, no read ever fails for what it  *)
(* finds: the packet after a complete answer is the first of the next one. *)
NoFailureWithoutFault == aligned => reader.phase # "failed"
=============================================================================
