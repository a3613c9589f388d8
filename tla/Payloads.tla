------------------------------ MODULE Payloads ------------------------------
(***************************************************************************)
(* A command of the tool down to its bytes and up again on the device: the *)
(* text of a derivation path (cli/src/derivation.rs), the payloads and how *)
(* they are cut into APDUs (cli/src/apdu.rs), the parsers of the device    *)
(* (ledger-app/src/solana.rs, idls.rs), the slot in NVM and the answer.    *)
(*                                                                         *)
(* LedgerApp and HostDevice treat paths, attestations and lengths as units *)
(* of a payload; here they are bytes.  Checks of signatures and decisions  *)
(* of the user are an outcome: the device goes on or declines.             *)
(***************************************************************************)
EXTENDS Chunking

Byte == 0..255

CONSTANTS
  Texts,             \* the derivation paths given to the tool
  Messages, Idls,    \* the messages and the IDL files, as bytes
  AttestationLists,  \* the attestations given with an IDL
  ProgramIdOf,       \* the program id of each text that is an IDL
  ChunkSize,         \* u8::MAX
  KeyLength, SignatureLength,
  MaxHostIdl, MaxHostAttestations,         \* u16::MAX, u8::MAX
  MaxSignPayload, MaxLoadIdlPayload, MaxImportedIdl, MaxAttestations,
  MaxRuns            \* bound: processes of the tool

Key == [1..KeyLength -> Byte]
Attestation == [signer : Key, signature : [1..SignatureLength -> Byte]]

FitsU16(n) == n < 65536

(* Lengths fit the one or two bytes that carry them, and the limit of an   *)
(* import payload is no second limit.                                      *)
ASSUME PayloadAssumption ==
  /\ ChunkSize \in Nat \ {0}
  /\ KeyLength \in Nat \ {0} /\ SignatureLength \in Nat \ {0}
  /\ MaxHostIdl \in Nat /\ FitsU16(MaxHostIdl)
  /\ MaxHostAttestations \in Nat /\ MaxHostAttestations < 256
  /\ MaxImportedIdl \in Nat /\ FitsU16(MaxImportedIdl)
  /\ MaxAttestations \in Nat /\ MaxSignPayload \in Nat
  /\ MaxLoadIdlPayload \in Nat
  /\ MaxLoadIdlPayload >=
       4 + MaxAttestations * (KeyLength + SignatureLength) + MaxImportedIdl
  /\ Messages \subseteq Seq(Byte) /\ Idls \subseteq Seq(Byte)
  /\ AttestationLists \subseteq Seq(Attestation)
  /\ ProgramIdOf \in [DOMAIN ProgramIdOf -> Key]

-----------------------------------------------------------------------------
(* Derivation paths.  A text is the sequence of what stands between its    *)
(* slashes: "m", nothing, a number below 2^31 with or without the tick of  *)
(* a hardened segment, or "other" (also a number that is too large).       *)
MaxValue == 2147483647
Segment == [hardened : BOOLEAN, value : 0..MaxValue]
Hardened(n) == [hardened |-> TRUE, value |-> n]

(* trim_start_matches takes every "m/" at the start away.                  *)
Leading(text) ==
  CHOOSE n \in 1..(Len(text) - 1) :
    /\ \A i \in 1..n : text[i].kind = "m"
    /\ n = Len(text) - 1 \/ text[n + 1].kind # "m"
Parts(text) ==
  SelectSeq(SubSeq(text, Leading(text) + 1, Len(text)),
            LAMBDA part : part.kind # "nothing")

NotAPath == <<>>

ParsedLoosely(text) ==   \* mutant: the tick is not looked at
  [k \in 1..Len(Parts(text)) |-> Hardened(Parts(text)[k].value)]
Parsed(text) ==
  [k \in 1..Len(Parts(text)) |->
     [hardened |-> Parts(text)[k].tick = "'", value |-> Parts(text)[k].value]]

ReadableText(text) ==
  /\ Len(text) > 1 /\ text[1].kind = "m"
  /\ Len(Parts(text)) \in 1..5
  /\ \A k \in 1..Len(Parts(text)) :
       Parts(text)[k].kind = "number" /\ Parts(text)[k].value \in 0..MaxValue

parse_derivation_path(text) ==
  IF ReadableText(text)
  THEN LET segments == Parsed(text)
       IN  IF /\ Len(segments) >= 2
              /\ segments[1] = Hardened(44) /\ segments[2] = Hardened(501)
           THEN segments ELSE NotAPath
  ELSE NotAPath

format_derivation_path(segments) ==
  <<[kind |-> "m", tick |-> "", value |-> 0]>>
  \o [k \in DOMAIN segments |->
        [kind  |-> "number", tick |-> IF segments[k].hardened THEN "'" ELSE "",
         value |-> segments[k].value]]

(* u32::to_be_bytes and from_be_bytes; the top bit marks hardened ones.    *)
Shifted(value) == value \div 256
TopByte(segment) ==
  (IF segment.hardened THEN 128 ELSE 0) + Shifted(Shifted(Shifted(segment.value)))
SegmentByte(segment, i) ==
  <<TopByte(segment), Shifted(Shifted(segment.value)) % 256,
    Shifted(segment.value) % 256, segment.value % 256>>[i]

SegmentOf(b1, b2, b3, b4) ==
  [hardened |-> b1 >= 128,
   value    |-> (((b1 % 128) * 256 + b2) * 256 + b3) * 256 + b4]

U16Bytes(n) == <<n \div 256, n % 256>>
U16Of(b1, b2) == b1 * 256 + b2

SegmentBytes(segments) ==
  [i \in 1..(4 * Len(segments)) |->
     SegmentByte(segments[1 + ((i - 1) \div 4)], 1 + ((i - 1) % 4))]
serialize_derivation_path(segments) == <<Len(segments)>> \o SegmentBytes(segments)

(* The device: as many segments as the first byte says, up to ten.         *)
NoPath(sw) == [sw |-> sw, path |-> <<>>, consumed |-> 0]
DevicePath(data) ==
  [k \in 1..data[1] |->
     SegmentOf(data[4 * k - 2], data[4 * k - 1], data[4 * k], data[4 * k + 1])]

device_parse_path(data) ==
  IF data = <<>> THEN NoPath("WrongApduLength")
  ELSE IF data[1] \notin 2..10 THEN NoPath("WrongApduLength")
  ELSE IF Len(data) < 1 + 4 * data[1] THEN NoPath("WrongApduLength")
  ELSE IF DevicePath(data)[1] # Hardened(44) \/ DevicePath(data)[2] # Hardened(501)
  THEN NoPath("WrongApduLength")
  ELSE [sw |-> "Ok", path |-> DevicePath(data), consumed |-> 1 + 4 * data[1]]

-----------------------------------------------------------------------------
(* The payload of sign-message.                                            *)
sign_payload(segments, message) ==
  <<1>> \o (serialize_derivation_path(segments) \o message)

NoSignPayload(sw) == [sw |-> sw, path |-> <<>>, message |-> <<>>]
parse_sign_payload(payload) ==
  IF payload = <<>> THEN NoSignPayload("InvalidData")
  ELSE IF payload[1] # 1 THEN NoSignPayload("InvalidData")
  ELSE LET data   == SubSeq(payload, 2, Len(payload))
           parsed == device_parse_path(data)
       IN  IF parsed.sw # "Ok" THEN NoSignPayload(parsed.sw)
           ELSE IF parsed.consumed = Len(data) THEN NoSignPayload("InvalidData")
           ELSE [sw |-> "Ok", path |-> parsed.path,
                 message |-> SubSeq(data, parsed.consumed + 1, Len(data))]

(* The payload of load-idl.                                                *)
AttestationSize == KeyLength + SignatureLength
AttestationByte(attestation, i) ==
  IF i <= KeyLength THEN attestation.signer[i]
  ELSE attestation.signature[i - KeyLength]
AttestationBytes(attestations) ==
  [i \in 1..(Len(attestations) * AttestationSize) |->
     AttestationByte(attestations[1 + ((i - 1) \div AttestationSize)],
                     1 + ((i - 1) % AttestationSize))]

import_payload(idl, attestations) ==
  (<<1, Len(attestations)>> \o U16Bytes(Len(idl))) \o (AttestationBytes(attestations) \o idl)

NoImport(sw) == [sw |-> sw, attestations |-> <<>>, idl |-> <<>>]
AttestationAt(payload, k) ==
  [signer    |-> [i \in 1..KeyLength |-> payload[4 + (k - 1) * AttestationSize + i]],
   signature |-> [i \in 1..SignatureLength |->
                    payload[4 + (k - 1) * AttestationSize + KeyLength + i]]]

parse_import_payload(payload) ==
  IF Len(payload) < 4 THEN NoImport("InvalidData")
  ELSE IF payload[1] # 1 THEN NoImport("InvalidData")
  ELSE IF payload[2] \notin 1..MaxAttestations THEN NoImport("InvalidData")
  ELSE LET count   == payload[2]
           idl_len == U16Of(payload[3], payload[4])
           start   == 4 + count * AttestationSize
       IN  IF idl_len \notin 1..MaxImportedIdl THEN NoImport("WrongApduLength")
           ELSE IF Len(payload) # start + idl_len THEN NoImport("InvalidData")
           ELSE [sw |-> "Ok",
                 attestations |-> [k \in 1..count |-> AttestationAt(payload, k)],
                 idl |-> SubSeq(payload, start + 1, Len(payload))]

prepare_idl_import(payload) ==
  LET parsed == parse_import_payload(payload)
  IN  IF parsed.sw = "Ok" /\ parsed.idl \notin DOMAIN ProgramIdOf
      THEN NoImport("InvalidData") ELSE parsed

(* The slot: version, length, program id and text, and zeros behind.       *)
HeaderSize == 3 + KeyLength
SlotSize == HeaderSize + MaxImportedIdl
ClearedSlot == [i \in 1..SlotSize |-> 0]
SlotBefore(idl, program_id) ==   \* mutant: the program id follows the text
  LET whole == ((<<1>> \o U16Bytes(Len(idl))) \o idl) \o program_id
  IN  [i \in 1..SlotSize |-> IF i <= Len(whole) THEN whole[i] ELSE 0]
store_imported_idl(idl, program_id) ==
  LET header == (<<1>> \o U16Bytes(Len(idl))) \o program_id
  IN  [i \in 1..SlotSize |->
         IF i <= HeaderSize THEN header[i]
         ELSE IF i <= HeaderSize + Len(idl) THEN idl[i - HeaderSize] ELSE 0]

NothingStored == [program_id |-> <<>>, idl |-> <<>>]
load_imported_idl(image) ==
  LET idl_len == U16Of(image[2], image[3])
      idl     == SubSeq(image, HeaderSize + 1, HeaderSize + idl_len)
  IN  IF image[1] # 1 THEN NothingStored
      ELSE IF idl_len \notin 1..MaxImportedIdl THEN NothingStored
      ELSE IF idl \notin DOMAIN ProgramIdOf THEN NothingStored
      ELSE [program_id |-> SubSeq(image, 4, HeaderSize), idl |-> idl]

(* What load-idl answers, and what the tool reads of it.                   *)
load_idl_response(program_id, count, idl_len) ==
  program_id \o (<<count>> \o U16Bytes(idl_len))
decode_load_idl_response(response) ==
  [program_id   |-> SubSeq(response, 1, KeyLength),
   signer_count |-> response[KeyLength + 1],
   idl_len      |-> U16Of(response[KeyLength + 2], response[KeyLength + 3])]

-----------------------------------------------------------------------------
VARIABLES
  command,   \* what the process was asked for: its kind and arguments
  phase,     \* how far it is, and how it ended
  path,      \* the segments it made of the text
  payload,   \* the payload of its upload
  offset,    \* bytes of it that were sent and taken in
  contexts,  \* the two contexts of the device
  read,      \* what the device made of the whole payload
  slot,      \* the slot of the device
  response,  \* the data of the last answer of the device
  runs       \* processes started so far

vars == <<command, phase, path, payload, offset, contexts, read, slot, response, runs>>

Commands ==
  [ins : {"pubkey"}, text : Texts]
  \cup [ins : {"sign"}, text : Texts, message : Messages]
  \cup [ins : {"load_idl"}, idl : Idls, attestations : AttestationLists]

NoCommand == [ins |-> "none"]
NothingRead == [sw |-> "none"]
Fresh == [ins \in {"sign", "load_idl"} |-> ResetContext]

(* A process starts, also when an earlier one stopped in mid-upload.       *)
Start(cmd) ==
  /\ runs < MaxRuns
  /\ command' = cmd /\ runs' = runs + 1
  /\ payload' = <<>> /\ offset' = 0 /\ read' = NothingRead /\ response' = <<>>
  /\ UNCHANGED <<contexts, slot>>

StartWithPath(cmd) ==
  /\ Start(cmd)
  /\ path' = parse_derivation_path(cmd.text)
  /\ phase' = IF path' = NotAPath THEN "bailed" ELSE "ask_address"

StartImport(cmd) ==
  /\ Start(cmd)
  /\ path' = NotAPath
  /\ phase' = IF \/ cmd.idl = <<>> \/ Len(cmd.idl) > MaxHostIdl
                 \/ Len(cmd.attestations) \notin 1..MaxHostAttestations
              THEN "bailed" ELSE "encode"

(* get-pubkey, which sign-message begins with: any other command of the    *)
(* device ends the uploads.                                                *)
AskAddress ==
  /\ phase = "ask_address"
  /\ contexts' = Fresh
  /\ LET data   == serialize_derivation_path(path)
         parsed == device_parse_path(data)
         accepted == parsed.sw = "Ok" /\ parsed.consumed = Len(data)
     IN  \/ /\ accepted
            /\ read' = IF command.ins = "pubkey" THEN parsed ELSE NothingRead
            /\ phase' = IF command.ins = "pubkey" THEN "finished" ELSE "encode"
         \/ ~accepted /\ phase' = "refused" /\ UNCHANGED read
  /\ UNCHANGED <<command, path, payload, offset, slot, response, runs>>

(* build_sign_message_apdus and build_load_idl_apdus.                      *)
EncodeSign ==
  /\ phase = "encode" /\ command.ins = "sign"
  /\ IF command.message = <<>>
     THEN phase' = "bailed" /\ UNCHANGED payload
     ELSE phase' = "send" /\ payload' = sign_payload(path, command.message)
  /\ UNCHANGED <<command, path, offset, contexts, read, slot, response, runs>>

EncodeImport ==
  /\ phase = "encode" /\ command.ins = "load_idl"
  /\ phase' = "send"
  /\ payload' = import_payload(command.idl, command.attestations)
  /\ UNCHANGED <<command, path, offset, contexts, read, slot, response, runs>>

End == IF offset + ChunkSize <= Len(payload) THEN offset + ChunkSize ELSE Len(payload)

More == End # Len(payload)
LateExtend ==   \* mutant: the second chunk starts an upload as well
  (IF offset > ChunkSize THEN {"extend"} ELSE {}) \cup (IF More THEN {"more"} ELSE {})
ChunkBits ==
  (IF offset # 0 THEN {"extend"} ELSE {}) \cup (IF More THEN {"more"} ELSE {})

ShortPiece ==   \* mutant: a byte falls between two chunks
  SubSeq(payload, offset + 1, IF More THEN End - 1 ELSE End)
Piece == SubSeq(payload, offset + 1, End)

MaxPayload == IF command.ins = "sign" THEN MaxSignPayload ELSE MaxLoadIdlPayload
Ingested ==
  ingest_payload_chunk(contexts[command.ins], MaxPayload, ChunkBits, Piece)

(* A chunk leaves the upload of the other command behind.                  *)
Uploads(ctx) == [Fresh EXCEPT ![command.ins] = ctx]

SendChunk ==
  /\ phase = "send" /\ offset < Len(payload)
  /\ Ingested.result = "incomplete"
  /\ contexts' = Uploads(Ingested.ctx)
  /\ offset' = End
  /\ UNCHANGED <<command, phase, path, payload, read, slot, response, runs>>

RefuseChunk ==
  /\ phase = "send" /\ offset < Len(payload)
  /\ Ingested.result \notin {"incomplete", "completed"}
  /\ contexts' = Uploads(Ingested.ctx)
  /\ phase' = "refused"
  /\ UNCHANGED <<command, path, payload, offset, read, slot, response, runs>>

(* The chunk that completes the upload: the device parses the payload and  *)
(* refuses it, declines, or does what was asked.                           *)
LastChunk ==
  /\ phase = "send" /\ offset < Len(payload)
  /\ Ingested.result = "completed"
  /\ contexts' = Uploads(ResetContext)
  /\ offset' = End
  /\ UNCHANGED <<command, path, payload, runs>>

RefusePayload(parsed) ==
  /\ parsed.sw # "Ok"
  /\ phase' = "refused"
  /\ UNCHANGED <<read, slot, response>>

Decline(parsed) ==
  /\ parsed.sw = "Ok"
  /\ phase' = "declined"
  /\ UNCHANGED <<read, slot, response>>

Sign(parsed) ==
  /\ parsed.sw = "Ok"
  /\ read' = parsed
  /\ phase' = "finished"
  /\ UNCHANGED <<slot, response>>

CompleteSign ==
  /\ LastChunk
  /\ command.ins = "sign"
  /\ LET parsed == parse_sign_payload(Ingested.ctx.payload)
     IN  RefusePayload(parsed) \/ Decline(parsed) \/ Sign(parsed)

Import(parsed) ==
  /\ parsed.sw = "Ok"
  /\ read' = parsed
  /\ slot' = store_imported_idl(parsed.idl, ProgramIdOf[parsed.idl])
  /\ response' = load_idl_response(ProgramIdOf[parsed.idl], Len(parsed.attestations), Len(parsed.idl))
  /\ phase' = "finished"

CompleteImport ==
  /\ LastChunk
  /\ command.ins = "load_idl"
  /\ LET parsed == prepare_idl_import(Ingested.ctx.payload)
     IN  RefusePayload(parsed) \/ Decline(parsed) \/ Import(parsed)

Init ==
  /\ command = NoCommand /\ phase = "idle" /\ path = NotAPath
  /\ payload = <<>> /\ offset = 0 /\ read = NothingRead /\ response = <<>>
  /\ contexts = Fresh /\ slot = ClearedSlot /\ runs = 0

Next ==
  \/ \E cmd \in Commands :
       IF cmd.ins = "load_idl" THEN StartImport(cmd) ELSE StartWithPath(cmd)
  \/ AskAddress \/ EncodeSign \/ EncodeImport
  \/ SendChunk \/ RefuseChunk \/ CompleteSign \/ CompleteImport

Spec == Init /\ [][Next]_vars

-----------------------------------------------------------------------------
(* Hazard: a byte of the payload is lost, repeated or read as part of its  *)
(* neighbour, at the end of a chunk, of a path or of an attestation.  What *)
(* the device derives a key from, shows, signs or stores is the path and   *)
(* the message, or the IDL and the attestations, of the command, and it    *)
(* does not wait for more when the last byte is in.                        *)
DeviceReadsTheCommand ==
  /\ phase = "send" => offset < Len(payload)
  /\ phase = "finished" =>
    CASE command.ins = "pubkey"   -> read.path = path
      [] command.ins = "sign"     -> read.path = path /\ read.message = command.message
      [] command.ins = "load_idl" -> /\ read.attestations = command.attestations
                                     /\ read.idl = command.idl

(* Hazard: the slot is an image of bytes that outlives the app, read back  *)
(* by other code than wrote it, and the tool cuts the answer in its own    *)
(* way.  After an import the slot holds the IDL and its program, whatever  *)
(* was in it before, and the tool prints what it holds.                    *)
AnswerTellsTheSlot ==
  phase = "finished" /\ command.ins = "load_idl" =>
    /\ load_imported_idl(slot) =
         [program_id |-> ProgramIdOf[command.idl], idl |-> command.idl]
    /\ decode_load_idl_response(response) =
         [program_id |-> ProgramIdOf[command.idl],
          signer_count |-> Len(command.attestations), idl_len |-> Len(command.idl)]

(* The limits of the device.                                               *)
Fits ==
  CASE command.ins = "pubkey"   -> TRUE
    [] command.ins = "sign"     -> Len(payload) <= MaxSignPayload
    [] command.ins = "load_idl" -> /\ Len(command.attestations) <= MaxAttestations
                                   /\ Len(command.idl) <= MaxImportedIdl
                                   /\ command.idl \in DOMAIN ProgramIdOf

LeftOver == command.ins = "load_idl" /\ offset = 0 /\ contexts["load_idl"].in_progress

(* Hazard: the flags of a payload that fills its chunks exactly, and the   *)
(* limits of the two sides.  The device refuses only what is beyond its    *)
(* limits, and an import of which a stopped process left the beginning;    *)
(* what the tool sends of any other command is never out of sequence.      *)
RefusedForAReason ==
  [][phase' = "refused" /\ phase # "refused" => ~Fits \/ LeftOver]_vars

(* The numbers of a text, with their ticks, in their order.                *)
Numbers(text) == SelectSeq(text, LAMBDA part : part.kind \notin {"m", "nothing"})
NumbersOf(segments) == Numbers(format_derivation_path(segments))

(* Hazard: a tick or a segment is lost, and the key is another one than    *)
(* the text names.  The tool takes exactly the texts of two to five        *)
(* numbers under m/44'/501', each as it is written, and the path that it   *)
(* prints with the answer is the one it was given.                         *)
PathMeansItsText ==
  phase # "idle" /\ command.ins # "load_idl" =>
    LET numbers == Numbers(command.text)
        named   == /\ Len(command.text) > 1 /\ command.text[1].kind = "m"
                   /\ \A i \in DOMAIN command.text :
                        /\ command.text[i].kind # "other"
                        /\ command.text[i].kind = "m" => \A j \in 1..i : command.text[j].kind = "m"
                   /\ Len(numbers) \in 2..5
                   /\ \A k \in 1..2 : numbers[k].tick = "'" /\ numbers[k].value = <<44, 501>>[k]
    IN  IF named THEN NumbersOf(path) = numbers /\ parse_derivation_path(format_derivation_path(path)) = path
        ELSE phase = "bailed"
=============================================================================
