----------------------------- MODULE LedgerApp -----------------------------
(***************************************************************************)
(* The device: the Solana application of ledger-app/src.  One thread waits *)
(* for an APDU, serves it, and answers it; a command that needs the user   *)
(* blocks in a review screen until the user decides.  The state is         *)
(*   - the two chunk contexts of sample_main, lost when the app stops,     *)
(*   - the imported IDL slot in NVM, which survives,                       *)
(*   - the screen, which holds the local variables of the blocked handler, *)
(*   - exchanges, the history a host observes: every APDU with its answer, *)
(*     and every restart of the app.                                       *)
(*                                                                         *)
(* Cryptography, base58 and the IDL and message parsers are constants that *)
(* say what they accept.                                                   *)
(***************************************************************************)
EXTENDS Chunking, FiniteSets

CONSTANTS
  Paths,              \* encoded derivation paths the parser accepts
  Bytes,              \* any other payload units
  Attestations,       \* encoded (signer, signature) pairs
  AttestationOf,      \* [Attestations -> [signer, message]]: what each one signs
  DomainSeparator,    \* IDL_ATTESTATION_DOMAIN_SEPARATOR
  ProgramOf,          \* IDL texts that parse, each with its program id
  Reviewable,         \* messages the review can show
  BuiltinPrograms,    \* program ids of BUILTIN_IDLS
  Programs,           \* program ids a message may call
  Nano,               \* TRUE on nanosplus and nanox, FALSE on NBGL devices
  MaxSignPayload,     \* MAX_SIGN_PAYLOAD_LENGTH, in units
  MaxLoadIdlPayload,  \* MAX_LOAD_IDL_PAYLOAD_LENGTH, in units
  MaxImportedIdl,     \* MAX_IMPORTED_IDL_BYTES, in units
  MaxAttestations,    \* MAX_IDL_ATTESTATIONS
  Data,               \* APDU data fields the host may send: [ins -> set]
  MaxExchanges        \* bound on the history

Units   == Nat \cup Paths \cup Bytes \cup Attestations
Signers == {AttestationOf[a].signer : a \in Attestations}
Instructions == {"app_config", "pubkey", "pubkey_display", "sign", "load_idl"}

ASSUME ConstantsAssumption ==
  /\ Nano \in BOOLEAN
  /\ MaxSignPayload \in Nat /\ MaxLoadIdlPayload \in Nat
  /\ MaxImportedIdl \in Nat /\ MaxAttestations \in Nat /\ MaxExchanges \in Nat
  /\ BuiltinPrograms \subseteq Programs
  /\ DOMAIN ProgramOf \subseteq Seq(Units)
  /\ \A idl \in DOMAIN ProgramOf : ProgramOf[idl] \in Programs
  /\ \A ins \in Instructions : Data[ins] \subseteq Seq(Units)

VARIABLES sign_context, load_idl_context, imported_idl, screen, exchanges
vars == <<sign_context, load_idl_context, imported_idl, screen, exchanges>>

-----------------------------------------------------------------------------
(* NVM: the slot is empty (version byte 0) or holds one IDL.               *)
NoImport == [version |-> 0, program_id |-> 0, idl |-> <<>>]
UnversionedIdl(prepared) ==   \* mutant: the version byte is not written
  [version |-> 0, program_id |-> prepared.program_id, idl |-> prepared.idl]
CutIdl(prepared) ==           \* mutant: the last unit of the text is lost
  [version |-> 1, program_id |-> prepared.program_id,
   idl |-> SubSeq(prepared.idl, 1, Len(prepared.idl) - 1)]
StoredIdl(prepared) ==
  [version |-> 1, program_id |-> prepared.program_id, idl |-> prepared.idl]

(* load_imported_idl: what the slot offers to the decoder, if anything.    *)
load_imported_idl ==
  IF /\ imported_idl.version = 1
     /\ Len(imported_idl.idl) \in 1..MaxImportedIdl
     /\ imported_idl.idl \in DOMAIN ProgramOf
  THEN {imported_idl}
  ELSE {}

(* Mutant: the imported IDL is searched before the builtin ones.           *)
decode_imported_first(program) ==
  IF \E i \in load_imported_idl : i.program_id = program
  THEN [source |-> "imported", idl |-> imported_idl.idl]
  ELSE [source |-> IF program \in BuiltinPrograms THEN "builtin" ELSE "none", idl |-> <<>>]

(* load_idls and decode_instruction: the IDL that explains an instruction  *)
(* of a program; builtin IDLs come first in the list that is searched.     *)
decode_instruction(program) ==
  IF program \in BuiltinPrograms
  THEN [source |-> "builtin", idl |-> <<>>]
  ELSE IF \E i \in load_imported_idl : i.program_id = program
  THEN [source |-> "imported", idl |-> imported_idl.idl]
  ELSE [source |-> "none", idl |-> <<>>]

-----------------------------------------------------------------------------
(* Parsers.  A parser returns [sw, ...]: "Ok" and the fields, or an error. *)
parse_sign_payload(payload) ==
  LET failed(sw) == [sw |-> sw, path |-> 0, message |-> <<>>]
  IN  IF payload = <<>> THEN failed("InvalidData")
      ELSE IF payload[1] # 1 THEN failed("InvalidData")
      ELSE IF Len(payload) < 2 THEN failed("WrongApduLength")
      ELSE IF payload[2] \notin Paths THEN failed("WrongApduLength")
      ELSE IF Len(payload) < 3 THEN failed("InvalidData")
      ELSE [sw |-> "Ok", path |-> payload[2],
            message |-> SubSeq(payload, 3, Len(payload))]

(* The payload of load-idl: version, attestation count, IDL length, the    *)
(* attestations and the IDL text, with nothing before, between or after.   *)
parse_import_payload(payload) ==
  LET failed(sw) == [sw |-> sw, attestations |-> <<>>, idl |-> <<>>]
  IN  IF Len(payload) < 3 THEN failed("InvalidData")
      ELSE IF payload[1] # 1 THEN failed("InvalidData")
      ELSE IF payload[2] \notin 1..MaxAttestations THEN failed("InvalidData")
      ELSE IF payload[3] \notin 1..MaxImportedIdl THEN failed("WrongApduLength")
      ELSE IF Len(payload) # 3 + payload[2] + payload[3] THEN failed("InvalidData")
      ELSE [sw |-> "Ok",
            attestations |-> SubSeq(payload, 4, 3 + payload[2]),
            idl |-> SubSeq(payload, 4 + payload[2], Len(payload))]

prepare_idl_import(payload) ==
  LET parsed == parse_import_payload(payload)
      readable == parsed.sw = "Ok" /\ parsed.idl \in DOMAIN ProgramOf
  IN  [sw |-> IF parsed.sw = "Ok" /\ ~readable THEN "InvalidData" ELSE parsed.sw,
       attestations |-> parsed.attestations,
       idl |-> parsed.idl,
       program_id |-> IF readable THEN ProgramOf[parsed.idl] ELSE 0]

attestation_message(idl) == <<DomainSeparator>> \o idl

Attests(unit, idl) ==
  unit \in Attestations /\ AttestationOf[unit].message = attestation_message(idl)

(* Mutants: one attestation is enough; the signatures are not looked at.   *)
verify_any(prepared) ==
  \E k \in 1..Len(prepared.attestations) : Attests(prepared.attestations[k], prepared.idl)
verify_none(prepared) == prepared.attestations # <<>>

(* verify_attestations: every attestation of the payload must verify.      *)
verify_attestations(prepared) ==
  \A k \in 1..Len(prepared.attestations) : Attests(prepared.attestations[k], prepared.idl)

-----------------------------------------------------------------------------
(* Screens.  A waiting screen lets the next APDU be served; every other    *)
(* one keeps the thread inside the UI code that draws it.                  *)
Home           == [name |-> "home"]
LeftOver       == [name |-> "left_over"]   \* NBGL: the last review, not redrawn
Settings       == [name |-> "settings"]
ConfirmRemoval == [name |-> "confirm_removal"]

ReviewCutMessage(apdu, parsed) ==   \* mutant: the end is not shown
  [name    |-> "review_message",
   apdu    |-> apdu,
   path    |-> parsed.path,
   message |-> SubSeq(parsed.message, 1, Len(parsed.message) - 1),
   decoded |-> [program \in Programs |-> decode_instruction(program)]]

ReviewMessage(apdu, parsed) ==
  [name    |-> "review_message",
   apdu    |-> apdu,
   path    |-> parsed.path,
   message |-> parsed.message,
   decoded |-> [program \in Programs |-> decode_instruction(program)]]

ReviewImport(apdu, prepared) ==
  [name       |-> "review_idl_import",
   apdu       |-> apdu,
   program_id |-> prepared.program_id,
   signers    |-> [k \in 1..Len(prepared.attestations) |->
                     AttestationOf[prepared.attestations[k]].signer],
   idl        |-> prepared.idl]

ReviewAddress(apdu, path) ==
  [name |-> "review_address", apdu |-> apdu, path |-> path]

Waiting == screen \in {Home, LeftOver}

(* A waiting app with room for one more exchange in the history.           *)
CanServe == Waiting /\ Len(exchanges) < MaxExchanges

(* What the thread shows after it answered: a Nano redraws its menu for    *)
(* every command, an NBGL device only after Ok and Deny.                   *)
HomeAfterOkOnly(sw) ==   \* mutant: a rejection leaves the review on the screen
  IF Nano \/ sw = "Ok" THEN Home ELSE IF Waiting THEN screen ELSE LeftOver
ScreenAfter(sw) ==
  IF Nano \/ sw \in {"Ok", "Deny"} THEN Home
  ELSE IF Waiting THEN screen
  ELSE LeftOver

(* comm.reply: the answer leaves with the data the handler appended.       *)
Answer(apdu, sw, out) ==
  /\ exchanges' = Append(exchanges, [apdu |-> apdu, sw |-> sw, out |-> out])
  /\ screen' = ScreenAfter(sw)

(* An APDU; "whole" is FALSE when its length bytes contradict its length,  *)
(* and comm.get_data fails.                                                *)
Apdu(ins, p2, data) == [ins |-> ins, p2 |-> p2, data |-> data, whole |-> TRUE]
BrokenApdu(ins, p2) == [ins |-> ins, p2 |-> p2, data |-> <<>>, whole |-> FALSE]
BadHeader == BrokenApdu("bad_header", {})
Restarted == BrokenApdu("restart", {})

(* sample_main forgets the upload of every other command it serves.        *)
KeptImport    == UNCHANGED load_idl_context   \* mutant: no reset for sign
ForgetSign    == sign_context' = ResetContext
ForgetLoadIdl == load_idl_context' = ResetContext

KeepOnly(ins) ==
  /\ IF ins = "sign" THEN sign_context' = sign_context ELSE ForgetSign
  /\ IF ins = "load_idl" THEN load_idl_context' = load_idl_context ELSE ForgetLoadIdl

-----------------------------------------------------------------------------
Init ==
  /\ sign_context = ResetContext
  /\ load_idl_context = ResetContext
  /\ imported_idl = NoImport
  /\ screen = Home
  /\ exchanges = <<>>

(* The header is refused while the app waits (Instruction::try_from): the  *)
(* wait does not return and no context is reset.                           *)
RefuseHeader ==
  /\ CanServe
  /\ \E sw \in {"WrongP1P2", "InsNotSupported"} : Answer(BadHeader, sw, <<>>)
  /\ UNCHANGED <<sign_context, load_idl_context, imported_idl>>

(* comm.get_data fails before the handler looks at its own context.        *)
RefuseBrokenApdu ==
  /\ CanServe
  /\ \E ins \in Instructions \ {"app_config"}, p2 \in SUBSET {"extend", "more"} :
       /\ p2 # {} => ins \in {"sign", "load_idl"}
       /\ Answer(BrokenApdu(ins, p2), "WrongApduLength", <<>>)
       /\ KeepOnly(ins)
  /\ UNCHANGED imported_idl

HandleGetAppConfig ==
  /\ CanServe
  /\ Answer(Apdu("app_config", {}, <<>>), "Ok", <<>>)
  /\ KeepOnly("app_config")
  /\ UNCHANGED imported_idl

(* handle_get_pubkey up to its answer or to the address review.            *)
HandleGetPubkey ==
  /\ CanServe
  /\ \E ins \in {"pubkey", "pubkey_display"} : \E data \in Data[ins] :
       LET apdu == Apdu(ins, {}, data)
           path == Len(data) = 1 /\ data[1] \in Paths
       IN  /\ KeepOnly(ins)
           /\ \/ ~path /\ Answer(apdu, "WrongApduLength", <<>>)
              \/ path /\ Answer(apdu, "KeyDeriveFail", <<>>)
              \/ path /\ ins = "pubkey" /\ Answer(apdu, "Ok", data)
              \/ /\ path /\ ins = "pubkey_display"
                 /\ screen' = ReviewAddress(apdu, data[1])
                 /\ UNCHANGED exchanges
  /\ UNCHANGED imported_idl

ApproveAddress ==
  /\ screen.name = "review_address"
  /\ Answer(screen.apdu, "Ok", <<screen.path>>)
  /\ UNCHANGED <<sign_context, load_idl_context, imported_idl>>

RejectAddress ==
  /\ screen.name = "review_address"
  /\ Answer(screen.apdu, "Deny", <<>>)
  /\ UNCHANGED <<sign_context, load_idl_context, imported_idl>>

-----------------------------------------------------------------------------
(* handle_sign_message: what the whole payload of an upload leads to.      *)
(* A message that cannot be reviewed leaves by the `?` of review_message,  *)
(* past every reset of the context.                                        *)
SignPayload(apdu, ctx) ==
  LET parsed == parse_sign_payload(ctx.payload)
  IN  \/ /\ parsed.sw # "Ok"
         /\ Answer(apdu, parsed.sw, <<>>)
         /\ sign_context' = ResetContext
      \/ /\ parsed.sw = "Ok"
         /\ Answer(apdu, "KeyDeriveFail", <<>>)
         /\ sign_context' = ResetContext
      \/ /\ parsed.sw = "Ok" /\ parsed.message \notin Reviewable
         /\ Answer(apdu, "InvalidData", <<>>)
         /\ sign_context' = ctx
      \/ /\ parsed.sw = "Ok" /\ parsed.message \in Reviewable
         /\ Answer(apdu, "CommError", <<>>)   \* its hash cannot be computed
         /\ sign_context' = ctx
      \/ /\ parsed.sw = "Ok" /\ parsed.message \in Reviewable
         /\ screen' = ReviewMessage(apdu, parsed)
         /\ sign_context' = ctx
         /\ UNCHANGED exchanges

HandleSignMessage ==
  /\ CanServe
  /\ \E p2 \in SUBSET {"extend", "more"}, data \in Data["sign"] :
       LET apdu == Apdu("sign", p2, data)
           step == ingest_payload_chunk(sign_context, MaxSignPayload, p2, data)
       IN  \/ /\ step.result = "completed"
              /\ SignPayload(apdu, step.ctx)
           \/ /\ step.result = "incomplete"
              /\ Answer(apdu, "Ok", <<>>)
              /\ sign_context' = step.ctx
           \/ /\ step.result \notin {"completed", "incomplete"}
              /\ Answer(apdu, step.result, <<>>)
              /\ sign_context' = step.ctx
  /\ ForgetLoadIdl
  /\ UNCHANGED imported_idl

(* The user holds both buttons on "Sign" / confirms; the signature of the  *)
(* message under the path is the answer.                                   *)
ApproveMessage ==
  /\ screen.name = "review_message"
  /\ \/ LET parsed == parse_sign_payload(sign_context.payload)
        IN  Answer(screen.apdu, "Ok", <<parsed.path, parsed.message>>)
     \/ \E sw \in {"KeyDeriveFail", "ConditionsNotSatisfied"} :
          Answer(screen.apdu, sw, <<>>)
  /\ sign_context' = ResetContext
  /\ UNCHANGED <<load_idl_context, imported_idl>>

RejectMessage ==
  /\ screen.name = "review_message"
  /\ Answer(screen.apdu, "Deny", <<>>)
  /\ sign_context' = ResetContext
  /\ UNCHANGED <<load_idl_context, imported_idl>>

-----------------------------------------------------------------------------
(* handle_load_idl: prepare, verify, review, in this order.                *)
ImportPayload(apdu, ctx) ==
  LET prepared == prepare_idl_import(ctx.payload)
  IN  \/ /\ prepared.sw # "Ok"
         /\ Answer(apdu, prepared.sw, <<>>)
         /\ load_idl_context' = ResetContext
      \/ /\ prepared.sw = "Ok" /\ ~verify_attestations(prepared)
         /\ Answer(apdu, "InvalidData", <<>>)
         /\ load_idl_context' = ResetContext
      \/ /\ prepared.sw = "Ok" /\ verify_attestations(prepared)
         /\ screen' = ReviewImport(apdu, prepared)
         /\ load_idl_context' = ctx
         /\ UNCHANGED exchanges

HandleLoadIdl ==
  /\ CanServe
  /\ \E p2 \in SUBSET {"extend", "more"}, data \in Data["load_idl"] :
       LET apdu == Apdu("load_idl", p2, data)
           step == ingest_payload_chunk(load_idl_context, MaxLoadIdlPayload, p2, data)
       IN  \/ /\ step.result = "completed"
              /\ ImportPayload(apdu, step.ctx)
           \/ /\ step.result = "incomplete"
              /\ Answer(apdu, "Ok", <<>>)
              /\ load_idl_context' = step.ctx
           \/ /\ step.result \notin {"completed", "incomplete"}
              /\ Answer(apdu, step.result, <<>>)
              /\ load_idl_context' = step.ctx
  /\ ForgetSign
  /\ UNCHANGED imported_idl

(* store_prepared_idl: NVM is written before the answer leaves.  When the  *)
(* power goes in between, the host sees a restart and no answer.           *)
ApproveImport ==
  /\ screen.name = "review_idl_import"
  /\ LET prepared == prepare_idl_import(load_idl_context.payload)
     IN  /\ imported_idl' = StoredIdl(prepared)
         /\ \/ Answer(screen.apdu, "Ok",
                      <<prepared.program_id, Len(prepared.attestations), Len(prepared.idl)>>)
            \/ /\ exchanges' = Append(exchanges, [apdu |-> Restarted, sw |-> "Ok", out |-> <<>>])
               /\ screen' = Home
  /\ load_idl_context' = ResetContext
  /\ UNCHANGED sign_context

RejectImport ==
  /\ screen.name = "review_idl_import"
  /\ Answer(screen.apdu, "Deny", <<>>)
  /\ load_idl_context' = ResetContext
  /\ UNCHANGED <<sign_context, imported_idl>>

-----------------------------------------------------------------------------
(* The menu of a Nano: idl_settings.rs.  No APDU is served while it is     *)
(* open.                                                                   *)
OpenSettings ==
  /\ Nano /\ screen = Home
  /\ screen' = Settings
  /\ UNCHANGED <<sign_context, load_idl_context, imported_idl, exchanges>>

CloseSettings ==
  /\ screen = Settings
  /\ screen' = Home
  /\ UNCHANGED <<sign_context, load_idl_context, imported_idl, exchanges>>

AskRemoval ==
  /\ screen = Settings /\ load_imported_idl # {}
  /\ screen' = ConfirmRemoval
  /\ UNCHANGED <<sign_context, load_idl_context, imported_idl, exchanges>>

ConfirmRemove ==
  /\ screen = ConfirmRemoval
  /\ imported_idl' = NoImport
  /\ screen' = Settings
  /\ UNCHANGED <<sign_context, load_idl_context, exchanges>>

DeclineRemove ==
  /\ screen = ConfirmRemoval
  /\ screen' = Settings
  /\ UNCHANGED <<sign_context, load_idl_context, imported_idl, exchanges>>

(* Quit, a panic, or a loss of power: RAM is lost, NVM stays.              *)
Restart ==
  /\ Len(exchanges) < MaxExchanges
  /\ exchanges' = Append(exchanges, [apdu |-> Restarted, sw |-> "Ok", out |-> <<>>])
  /\ sign_context' = ResetContext
  /\ load_idl_context' = ResetContext
  /\ screen' = Home
  /\ UNCHANGED imported_idl

Serve == RefuseHeader \/ RefuseBrokenApdu \/ HandleGetAppConfig \/ HandleGetPubkey
         \/ HandleSignMessage \/ HandleLoadIdl
Decide == ApproveAddress \/ RejectAddress \/ ApproveMessage \/ RejectMessage
          \/ ApproveImport \/ RejectImport
Menu == OpenSettings \/ CloseSettings \/ AskRemoval \/ ConfirmRemove \/ DeclineRemove

Next == Serve \/ Decide \/ Menu \/ Restart

Spec == Init /\ [][Next]_vars

-----------------------------------------------------------------------------
Apdus == [ins : Instructions \cup {"bad_header", "restart"},
          p2 : SUBSET {"extend", "more"}, data : Seq(Units), whole : BOOLEAN]
ApdusOf(ins) == {apdu \in Apdus : apdu.ins = ins}
StatusWords == {"Ok", "Deny", "InvalidData", "WrongP1P2", "InsNotSupported",
                "WrongApduLength", "KeyDeriveFail", "ConditionsNotSatisfied",
                "CommError"}
Explanations == [source : {"builtin", "imported", "none"}, idl : Seq(Units)]
Outputs == {<<>>}
           \cup {<<path>> : path \in Paths}
           \cup (Paths \X Seq(Units))
           \cup (Programs \X Nat \X Nat)

Screens ==
  {Home, LeftOver, Settings, ConfirmRemoval}
  \cup [name : {"review_address"}, apdu : ApdusOf("pubkey_display"), path : Paths]
  \cup [name : {"review_message"}, apdu : ApdusOf("sign"), path : Paths,
        message : Seq(Units), decoded : [Programs -> Explanations]]
  \cup [name : {"review_idl_import"}, apdu : ApdusOf("load_idl"), program_id : Programs,
        signers : Seq(Signers), idl : Seq(Units)]

(* The types of the variables; the history never outgrows its bound.       *)
TypeOK ==
  /\ sign_context \in Contexts(Units)
  /\ load_idl_context \in Contexts(Units)
  /\ \/ imported_idl = NoImport
     \/ imported_idl \in [version : {1}, program_id : Programs, idl : Seq(Units)]
  /\ screen \in Screens
  /\ exchanges \in Seq([apdu : Apdus, sw : StatusWords, out : Outputs])
  /\ Len(exchanges) <= MaxExchanges

-----------------------------------------------------------------------------
(* Reading the history.  Exchanges j..i are one upload of the command ins: *)
(* they start with a first chunk, go on with chunks that extend it, every  *)
(* one but the last announcing more and answered Ok.  Only APDUs the       *)
(* handler never saw the data of may come in between.                      *)
Unseen(x, ins) == x.apdu.ins = "bad_header" \/ (x.apdu.ins = ins /\ ~x.apdu.whole)
Chunk(x, ins)  == x.apdu.ins = ins /\ x.apdu.whole

Pieces(j, i) == [k \in 1..(i - j + 1) |-> exchanges[j + k - 1].apdu.data]

(* The chunks j..i before the decision on the last one: an unfinished run  *)
(* of chunks, all acknowledged.                                            *)
IsRun(ins, j, i) ==
  /\ Chunk(exchanges[j], ins) /\ "extend" \notin exchanges[j].apdu.p2
  /\ \A k \in (j+1)..i :
       \/ Unseen(exchanges[k], ins)
       \/ Chunk(exchanges[k], ins) /\ "extend" \in exchanges[k].apdu.p2
  /\ \A k \in j..i : Chunk(exchanges[k], ins) =>
       exchanges[k].sw = "Ok" /\ exchanges[k].out = <<>> /\ "more" \in exchanges[k].apdu.p2

IsUpload(ins, j, i, payload) ==
  /\ Chunk(exchanges[i], ins) /\ "more" \notin exchanges[i].apdu.p2
  /\ IF i = j THEN "extend" \notin exchanges[i].apdu.p2
              ELSE IsRun(ins, j, i - 1) /\ "extend" \in exchanges[i].apdu.p2
  /\ IsConcat(payload, Pieces(j, i))

IsSignature(x) == x.apdu.ins = "sign" /\ x.out # <<>>
IsImport(x)    == x.apdu.ins = "load_idl" /\ x.out # <<>>

(* Hazard: lost, duplicated, reordered or interleaved chunks.  Every       *)
(* signature is for the path and the message of one uninterrupted upload:  *)
(* no chunk of an aborted, refused or rejected one ever joins it, and no   *)
(* other command came in between.                                          *)
SignedOneUpload ==
  \A i \in 1..Len(exchanges) : IsSignature(exchanges[i]) =>
    LET signed == exchanges[i].out
    IN  \E j \in 1..i : IsUpload("sign", j, i, <<1, signed[1]>> \o signed[2])

(* The same of an import: the answer names the program of the IDL text     *)
(* that one uninterrupted upload carried, and each of the attestations     *)
(* counted in the answer verifies over that text.                          *)
ImportedOneUpload ==
  \A i \in 1..Len(exchanges) : IsImport(exchanges[i]) =>
    LET count == exchanges[i].out[2]
        size  == exchanges[i].out[3]
    IN  \E j \in 1..i, idl \in DOMAIN ProgramOf, a \in [1..count -> Attestations] :
          /\ ProgramOf[idl] = exchanges[i].out[1] /\ Len(idl) = size
          /\ \A k \in 1..count : Attests(a[k], idl)
          /\ IsUpload("load_idl", j, i, <<1, count, size>> \o a \o idl)

(* Hazard: an upload the host gave up leaves the context in progress, and  *)
(* the first chunk of its retry is refused.  The refusal itself must clear *)
(* the way: no two first chunks of a command in a row are refused.         *)
RetryIsRefusedOnce ==
  \A i \in 1..(Len(exchanges) - 1) : \A ins \in {"sign", "load_idl"} :
    LET refused(x) == /\ Chunk(x, ins) /\ "extend" \notin x.apdu.p2
                      /\ x.sw = "WrongP1P2"
    IN  ~(refused(exchanges[i]) /\ refused(exchanges[i + 1]))

(* Hazard: uploads of the two commands interleave.  sample_main resets the *)
(* other context, so at most one upload is ever held, and a command that   *)
(* is none of the two drops both.                                          *)
AtMostOneUpload ==
  sign_context.payload = <<>> \/ load_idl_context.payload = <<>>

(* What sits in the slot was attested over exactly its text by at least    *)
(* one signer, and its header carries the program id of that text.         *)
SlotAttested ==
  imported_idl # NoImport =>
    /\ imported_idl.idl \in DOMAIN ProgramOf
    /\ imported_idl.program_id = ProgramOf[imported_idl.idl]
    /\ \E a \in Attestations : Attests(a, imported_idl.idl)

(* Hazard: an import for a builtin program shadows the builtin IDL, or an  *)
(* IDL explains a program it was not attested for.                         *)
ReviewTrustsAttestedIdls ==
  screen.name = "review_message" =>
    \A program \in Programs :
      LET explanation == screen.decoded[program]
      IN  /\ program \in BuiltinPrograms => explanation.source = "builtin"
          /\ explanation.source = "imported" =>
               /\ ProgramOf[explanation.idl] = program
               /\ \E a \in Attestations : Attests(a, explanation.idl)

(* Hazard: an NBGL device that fails to sign does not redraw its home      *)
(* screen.  It shows an old review only from such a failure on, and only   *)
(* until the next command that succeeds or is rejected.                    *)
OldScreenHasAReason ==
  screen = LeftOver =>
    \E i \in 1..Len(exchanges) :
      /\ exchanges[i].apdu.ins = "sign"
      /\ exchanges[i].sw \in {"KeyDeriveFail", "ConditionsNotSatisfied"}
      /\ \A k \in i..Len(exchanges) :
           exchanges[k].sw \notin {"Ok", "Deny"} /\ exchanges[k].apdu # Restarted

(* Hazard: state read before the user decides and used after.  While a     *)
(* review is on the screen, it shows what the payload still held by the    *)
(* context parses to, explained by the IDL still in the slot.              *)
MessageReviewIsCurrent ==
  screen.name = "review_message" =>
    LET parsed == parse_sign_payload(sign_context.payload)
    IN  /\ parsed.sw = "Ok"
        /\ screen.path = parsed.path /\ screen.message = parsed.message
        /\ screen.decoded = [program \in Programs |-> decode_instruction(program)]

ImportReviewIsCurrent ==
  screen.name = "review_idl_import" =>
    LET prepared == prepare_idl_import(load_idl_context.payload)
    IN  /\ prepared.sw = "Ok" /\ verify_attestations(prepared)
        /\ screen = ReviewImport(screen.apdu, prepared)

ReviewsAreCurrent ==
  /\ MessageReviewIsCurrent
  /\ ImportReviewIsCurrent
  /\ screen.name \in {"review_address", "review_message", "review_idl_import"} =>
       Len(exchanges) < MaxExchanges

(* The inductive invariant: with the types, what the slot holds was        *)
(* attested and what the screen shows is still what will be used.          *)
IInv == TypeOK /\ SlotAttested /\ ReviewsAreCurrent

(* Hazard: the review is rendered before the user decides and the message  *)
(* is signed after.  A signature leaves the device only from the review,   *)
(* for the path and message on the screen, explained by the IDL that is in *)
(* the slot at that moment.                                                *)
SignsShown ==
  \A i \in (Len(exchanges) + 1)..Len(exchanges') :
    IsSignature(exchanges'[i]) =>
      /\ screen.name = "review_message"
      /\ exchanges'[i].out = <<screen.path, screen.message>>
      /\ screen.decoded = [program \in Programs |-> decode_instruction(program)]
SignsOnlyWhatIsShown == [][SignsShown]_vars

(* Hazard: parse, verify, review and store must come in this order.  The   *)
(* slot changes only to the IDL whose program id and signers are on the    *)
(* screen, all of them having attested it, or to empty after the removal   *)
(* was confirmed.                                                          *)
SlotStep ==
  imported_idl' # imported_idl =>
    \/ /\ screen.name = "review_idl_import"
       /\ imported_idl'.program_id = screen.program_id
       /\ imported_idl'.idl = screen.idl
       /\ \A k \in 1..Len(screen.signers) : \E a \in Attestations :
            AttestationOf[a].signer = screen.signers[k] /\ Attests(a, screen.idl)
    \/ screen = ConfirmRemoval /\ imported_idl' = NoImport
SlotChangesByConsent == [][SlotStep]_vars

(* Hazard: an import that fails half-way.  The answer to load-idl tells    *)
(* the host the truth about the slot: an import is answered for exactly    *)
(* the IDL now stored, any other answer leaves the slot as it was.         *)
ImportAnswered ==
  \A i \in (Len(exchanges) + 1)..Len(exchanges') :
    exchanges'[i].apdu.ins = "load_idl" =>
      IF IsImport(exchanges'[i])
      THEN /\ exchanges'[i].out[1] = imported_idl'.program_id
           /\ exchanges'[i].out[3] = Len(imported_idl'.idl)
      ELSE UNCHANGED imported_idl
ImportAnswerIsTrue == [][ImportAnswered]_vars

-----------------------------------------------------------------------------
(* The refinement of Consent: chunks, contexts, statuses and refused       *)
(* uploads disappear, a screen that waits for the user is a question, and  *)
(* what the host was given is the set of answers that carry data.          *)
Nothing == [ask |-> "nothing"]

QuestionOf(shown) ==
  CASE shown.name = "review_message" ->
         [ask |-> "sign", path |-> shown.path, message |-> shown.message,
          explained |-> [program \in Programs |-> shown.decoded[program].source]]
    [] shown.name = "review_idl_import" ->
         [ask |-> "install", idl |-> shown.idl, signers |-> shown.signers]
    [] shown.name = "review_address" -> [ask |-> "address", path |-> shown.path]
    [] shown.name = "confirm_removal" -> [ask |-> "remove"]
    [] OTHER -> Nothing
Question == QuestionOf(screen)

InstalledIdl ==
  IF imported_idl = NoImport THEN Nothing
  ELSE [ask |-> "installed", program_id |-> imported_idl.program_id,
        idl |-> imported_idl.idl]

Released == {exchanges[i].out : i \in 1..Len(exchanges)} \ {<<>>}

AttestedBy ==
  {pair \in Signers \X DOMAIN ProgramOf :
     \E a \in Attestations : AttestationOf[a].signer = pair[1] /\ Attests(a, pair[2])}

Promise == INSTANCE Consent WITH
  Messages <- Reviewable, question <- Question,
  installed <- InstalledIdl, released <- Released

(* The device keeps the promise: whatever chunks, commands, refusals and   *)
(* restarts arrive, every change a host or the user can observe is one the *)
(* abstract wallet makes.                                                  *)
KeepsPromise == Promise!Spec
=============================================================================
