------------------------------ MODULE Chunking ------------------------------
(***************************************************************************)
(* Reassembly of a payload that the host cuts into APDUs of at most 255    *)
(* bytes: ingest_payload_chunk of ledger-app/src/solana.rs, shared by the  *)
(* sign-message and the load-idl commands.                                 *)
(*                                                                         *)
(* A payload is a sequence of units (bytes, or groups of bytes the parsers *)
(* take as a whole).  P2 is the set of its bits: "extend" (0x01), "more"   *)
(* (0x02) and "reserved" for any of the six others.                        *)
(***************************************************************************)
EXTENDS Integers, Sequences

P2Bits == {"extend", "more", "reserved"}

(* SignMessageContext / LoadIdlContext: the bytes received so far and      *)
(* whether the command still waits for more of them.                       *)
Contexts(Unit) == [payload : Seq(Unit), in_progress : BOOLEAN]

(* SignMessageContext::reset, LoadIdlContext::reset, and both new().       *)
ResetContext == [payload |-> <<>>, in_progress |-> FALSE]

(* Statuses of a chunk: an upload goes on, an upload is whole, or an error *)
(* status word; every error forgets the bytes received so far.             *)
Refused(sw) == [ctx |-> ResetContext, result |-> sw]

(* The first chunk of an upload carries no "extend" bit, all others do.    *)
AnySequence(ctx, p2) == ~ctx.in_progress /\ "extend" \in p2   \* mutant
OutOfSequence(ctx, p2) == ctx.in_progress # ("extend" \in p2)

(* What was received of this upload before the chunk: a first chunk clears *)
(* whatever an earlier upload left behind.                                 *)
NeverCleared(ctx) == ctx.payload   \* mutant: the first chunk clears nothing
Received(ctx) == IF ctx.in_progress THEN ctx.payload ELSE <<>>

(* Mutant: a refused chunk leaves the upload in progress.                  *)
ingest_without_reset(ctx, max_payload_len, p2, data) ==
  IF "reserved" \in p2 \/ OutOfSequence(ctx, p2)
  THEN [ctx |-> ctx, result |-> "WrongP1P2"]
  ELSE [ctx    |-> [payload |-> Received(ctx) \o data, in_progress |-> "more" \in p2],
        result |-> IF "more" \in p2 THEN "incomplete" ELSE "completed"]

ingest_payload_chunk(ctx, max_payload_len, p2, data) ==
  IF "reserved" \in p2 \/ OutOfSequence(ctx, p2)
  THEN Refused("WrongP1P2")
  ELSE IF Len(Received(ctx)) + Len(data) > max_payload_len
  THEN Refused("WrongApduLength")
  ELSE [ctx    |-> [payload     |-> Received(ctx) \o data,
                    in_progress |-> "more" \in p2],
        result |-> IF "more" \in p2 THEN "incomplete" ELSE "completed"]

(* A payload is the concatenation of the pieces when it can be cut at      *)
(* non-decreasing positions into exactly these pieces, in their order.     *)
IsConcat(payload, pieces) ==
  \E cut \in [0..Len(pieces) -> 0..Len(payload)] :
    /\ cut[0] = 0
    /\ cut[Len(pieces)] = Len(payload)
    /\ \A k \in 1..Len(pieces) :
         /\ cut[k-1] <= cut[k]
         /\ pieces[k] = SubSeq(payload, cut[k-1] + 1, cut[k])
=============================================================================
