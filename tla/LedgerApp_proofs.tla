-------------------------- MODULE LedgerApp_proofs --------------------------
(***************************************************************************)
(* Theorems about the device, for every value of its constants: what is    *)
(* true of it at any time, that it implements Consent, and, looking back   *)
(* over its exchanges, that what was signed or imported came in one        *)
(* uninterrupted upload, that a retry is refused at most once, and that an *)
(* old review stays on the screen for a reason.                            *)
(***************************************************************************)
EXTENDS LedgerApp, SequenceParts

(* A chunk leaves a well-formed context, whatever its bits and its data.   *)
LEMMA IngestType ==
  ASSUME NEW ctx \in Contexts(Units), NEW max, NEW p2, NEW data \in Seq(Units)
  PROVE  LET step == ingest_payload_chunk(ctx, max, p2, data)
         IN  /\ step.ctx \in Contexts(Units)
             /\ step.result \in {"completed", "incomplete", "WrongP1P2", "WrongApduLength"}
<1>1. Received(ctx) \in Seq(Units)
  BY DEF Received, Contexts
<1>2. Received(ctx) \o data \in Seq(Units)
  BY <1>1
<1>3. ResetContext \in Contexts(Units)
  BY DEF ResetContext, Contexts
<1> QED
  BY <1>2, <1>3 DEF ingest_payload_chunk, Refused, Contexts

(* What parse_sign_payload accepts is a path and a message.                *)
LEMMA ParseSignType ==
  ASSUME NEW payload \in Seq(Units)
  PROVE  LET parsed == parse_sign_payload(payload)
         IN  /\ parsed.sw \in {"Ok", "InvalidData", "WrongApduLength"}
             /\ parsed.sw = "Ok" => parsed.path \in Paths /\ parsed.message \in Seq(Units)
<1>1. ASSUME ~(Len(payload) < 3) PROVE SubSeq(payload, 3, Len(payload)) \in Seq(Units)
  <2>1. Len(payload) \in Nat /\ \A i \in 3..Len(payload) : payload[i] \in Units
    BY LenProperties
  <2> QED
    BY <2>1, SubSeqProperties
<1> QED
  BY <1>1 DEF parse_sign_payload

(* The attestations of an import payload end before the payload does.      *)
LEMMA Layout ==
  ASSUME NEW size, NEW count, NEW idl_len, NEW M \in Nat, NEW N \in Nat,
         count \in 1..M, idl_len \in 1..N, size = 3 + count + idl_len
  PROVE  count \in Nat \ {0} /\ 3 + count <= size
OBVIOUS

(* What prepare_idl_import accepts: an IDL text that parses, the program   *)
(* it describes, and at least one attestation.                             *)
LEMMA PrepareType ==
  ASSUME NEW payload \in Seq(Units)
  PROVE  LET prepared == prepare_idl_import(payload)
         IN  /\ prepared.sw \in {"Ok", "InvalidData", "WrongApduLength"}
             /\ prepared.sw = "Ok" =>
                  /\ prepared.idl \in DOMAIN ProgramOf
                  /\ prepared.program_id = ProgramOf[prepared.idl]
                  /\ prepared.attestations \in Seq(Units)
                  /\ Len(prepared.attestations) \in Nat \ {0}
<1> DEFINE parsed == parse_import_payload(payload)
<1>1. /\ parsed.sw \in {"Ok", "InvalidData", "WrongApduLength"}
      /\ parsed.sw = "Ok" => /\ parsed.attestations \in Seq(Units)
                             /\ Len(parsed.attestations) \in Nat \ {0}
  <2>1. CASE parsed.sw # "Ok"
    BY <2>1 DEF parse_import_payload
  <2>2. CASE parsed.sw = "Ok"
    <3>1. /\ payload[2] \in 1..MaxAttestations
          /\ payload[3] \in 1..MaxImportedIdl
          /\ Len(payload) = 3 + payload[2] + payload[3]
          /\ parsed.attestations = SubSeq(payload, 4, 3 + payload[2])
      BY <2>2 DEF parse_import_payload
    <3>2. MaxAttestations \in Nat /\ MaxImportedIdl \in Nat /\ Len(payload) \in Nat
      BY ConstantsAssumption, LenProperties
    <3>3. payload[2] \in Nat \ {0} /\ 3 + payload[2] <= Len(payload)
      BY <3>1, <3>2, Layout
    <3>4. \A i \in 4..(3 + payload[2]) : payload[i] \in Units
      BY <3>2, <3>3, LenProperties
    <3>5. /\ SubSeq(payload, 4, 3 + payload[2]) \in Seq(Units)
          /\ Len(SubSeq(payload, 4, 3 + payload[2])) = payload[2]
      BY <3>3, <3>4, SubSeqProperties
    <3> QED
      BY <2>2, <3>1, <3>3, <3>5
  <2> QED
    BY <2>1, <2>2
<1> HIDE DEF parsed
<1> QED
  BY <1>1 DEF prepare_idl_import, parsed

-----------------------------------------------------------------------------
Exchange == [apdu : Apdus, sw : StatusWords, out : Outputs]

(* An answer extends the history by one exchange and shows a waiting       *)
(* screen.                                                                 *)
LEMMA AnswerType ==
  ASSUME TypeOK, Len(exchanges) < MaxExchanges
  PROVE  \A apdu \in Apdus, sw \in StatusWords, out \in Outputs :
           Answer(apdu, sw, out) =>
             /\ exchanges' \in Seq(Exchange)
             /\ Len(exchanges') <= MaxExchanges
             /\ screen' \in {Home, LeftOver}
<1> SUFFICES ASSUME NEW apdu \in Apdus, NEW sw \in StatusWords, NEW out \in Outputs,
                    Answer(apdu, sw, out)
             PROVE  /\ exchanges' \in Seq(Exchange)
                    /\ Len(exchanges') <= MaxExchanges
                    /\ screen' \in {Home, LeftOver}
  OBVIOUS
<1> DEFINE x == [apdu |-> apdu, sw |-> sw, out |-> out]
<1>1. x \in Exchange
  BY DEF Exchange
<1>2. exchanges \in Seq(Exchange) /\ exchanges' = Append(exchanges, x)
  BY DEF TypeOK, Exchange, Answer
<1>3. /\ exchanges' \in Seq(Exchange)
      /\ Len(exchanges') = Len(exchanges) + 1
      /\ Len(exchanges) \in Nat
  <2> HIDE DEF x
  <2> QED
    BY <1>1, <1>2, AppendProperties, LenProperties
<1>4. Len(exchanges') <= MaxExchanges
  BY <1>3, ConstantsAssumption
<1>5. screen' \in {Home, LeftOver}
  BY DEF Answer, ScreenAfter, Waiting
<1> QED
  BY <1>3, <1>4, <1>5

(* Every APDU an action names is one of the APDUs.                         *)
LEMMA ApduType ==
  /\ \A ins \in Instructions, p2 \in SUBSET {"extend", "more"}, data \in Seq(Units) :
       Apdu(ins, p2, data) \in Apdus
  /\ \A ins \in Instructions, p2 \in SUBSET {"extend", "more"} : BrokenApdu(ins, p2) \in Apdus
  /\ BadHeader \in Apdus /\ Restarted \in Apdus
BY DEF Apdus, Apdu, BrokenApdu, BadHeader, Restarted

(* The waiting screens and the menu show no review.                        *)
LEMMA NoReview ==
  ASSUME screen' \in {Home, LeftOver, Settings, ConfirmRemoval}
  PROVE  ReviewsAreCurrent' /\ screen' \in Screens
BY DEF ReviewsAreCurrent, MessageReviewIsCurrent, ImportReviewIsCurrent,
       Home, LeftOver, Settings, ConfirmRemoval, Screens

(* Contexts stay well-formed when all but one are dropped.                 *)
LEMMA KeepOnlyType ==
  ASSUME TypeOK, NEW ins, KeepOnly(ins)
  PROVE  sign_context' \in Contexts(Units) /\ load_idl_context' \in Contexts(Units)
<1>1. sign_context' = sign_context \/ sign_context' = ResetContext
  BY Zenon DEF KeepOnly, ForgetSign
<1>2. load_idl_context' = load_idl_context \/ load_idl_context' = ResetContext
  BY Zenon DEF KeepOnly, ForgetLoadIdl
<1>3. ResetContext \in Contexts(Units)
  BY DEF Contexts, ResetContext
<1> QED
  BY <1>1, <1>2, <1>3 DEF TypeOK

LEMMA ResetType == ResetContext \in Contexts(Units)
BY DEF Contexts, ResetContext

LEMMA InitIInv == Init => IInv
<1> SUFFICES ASSUME Init PROVE IInv
  OBVIOUS
<1>1. TypeOK
  <2>1. exchanges \in Seq(Exchange) /\ Len(exchanges) = 0
    BY EmptySeq DEF Init
  <2>2. Len(exchanges) <= MaxExchanges
    BY <2>1, ConstantsAssumption
  <2> QED
    BY <2>1, <2>2, ResetType DEF Init, TypeOK, Screens, Exchange
<1>2. SlotAttested
  BY DEF Init, SlotAttested
<1>3. ReviewsAreCurrent
  BY DEF Init, ReviewsAreCurrent, MessageReviewIsCurrent, ImportReviewIsCurrent, Home
<1> QED
  BY <1>1, <1>2, <1>3 DEF IInv

-----------------------------------------------------------------------------
(* One lemma per action: each preserves the inductive invariant.           *)

(* An answer that leaves the slot alone.                                   *)
LEMMA AnswerStep ==
  ASSUME IInv, Len(exchanges) < MaxExchanges, UNCHANGED imported_idl,
         sign_context' \in Contexts(Units), load_idl_context' \in Contexts(Units)
  PROVE  \A apdu \in Apdus, sw \in StatusWords, out \in Outputs :
           Answer(apdu, sw, out) => IInv'
<1> SUFFICES ASSUME NEW apdu \in Apdus, NEW sw \in StatusWords, NEW out \in Outputs,
                    Answer(apdu, sw, out)
             PROVE  IInv'
  OBVIOUS
<1>1. /\ exchanges' \in Seq(Exchange)
      /\ Len(exchanges') <= MaxExchanges
      /\ screen' \in {Home, LeftOver}
  BY AnswerType DEF IInv
<1>2. ReviewsAreCurrent' /\ screen' \in Screens
  BY <1>1, NoReview
<1>3. TypeOK'
  BY <1>1, <1>2 DEF IInv, TypeOK, Exchange
<1>4. SlotAttested'
  BY DEF IInv, SlotAttested, Attests, attestation_message
<1> QED
  BY <1>2, <1>3, <1>4 DEF IInv

LEMMA NoOutput == <<>> \in Outputs
BY DEF Outputs

LEMMA RefuseHeaderStep == IInv /\ RefuseHeader => IInv'
<1> SUFFICES ASSUME IInv, RefuseHeader PROVE IInv'
  OBVIOUS
<1>1. PICK sw \in {"WrongP1P2", "InsNotSupported"} : Answer(BadHeader, sw, <<>>)
  BY DEF RefuseHeader
<1>2. sw \in StatusWords
  BY DEF StatusWords
<1>3. /\ sign_context' \in Contexts(Units) /\ load_idl_context' \in Contexts(Units)
      /\ Len(exchanges) < MaxExchanges /\ UNCHANGED imported_idl
  BY DEF RefuseHeader, CanServe, IInv, TypeOK
<1> QED
  BY <1>1, <1>2, <1>3, AnswerStep, ApduType, NoOutput

LEMMA RefuseBrokenApduStep == IInv /\ RefuseBrokenApdu => IInv'
<1> SUFFICES ASSUME IInv, RefuseBrokenApdu PROVE IInv'
  OBVIOUS
<1>1. PICK ins \in Instructions \ {"app_config"}, p2 \in SUBSET {"extend", "more"} :
        Answer(BrokenApdu(ins, p2), "WrongApduLength", <<>>) /\ KeepOnly(ins)
  BY DEF RefuseBrokenApdu
<1>2. BrokenApdu(ins, p2) \in Apdus
  BY ApduType
<1>3. sign_context' \in Contexts(Units) /\ load_idl_context' \in Contexts(Units)
  BY <1>1, KeepOnlyType DEF IInv
<1>4. Len(exchanges) < MaxExchanges /\ UNCHANGED imported_idl
  BY DEF RefuseBrokenApdu, CanServe
<1>5. "WrongApduLength" \in StatusWords
  BY DEF StatusWords
<1> QED
  BY <1>1, <1>2, <1>3, <1>4, <1>5, AnswerStep, NoOutput

LEMMA HandleGetAppConfigStep == IInv /\ HandleGetAppConfig => IInv'
<1> SUFFICES ASSUME IInv, HandleGetAppConfig PROVE IInv'
  OBVIOUS
<1>1. Apdu("app_config", {}, <<>>) \in Apdus
  BY ApduType, EmptySeq DEF Instructions
<1>2. sign_context' \in Contexts(Units) /\ load_idl_context' \in Contexts(Units)
  BY KeepOnlyType DEF HandleGetAppConfig, IInv
<1> QED
  BY <1>1, <1>2, AnswerStep, NoOutput DEF HandleGetAppConfig, CanServe, StatusWords

(* A step that opens a review instead of answering.                        *)
LEMMA ReviewStep ==
  ASSUME IInv, UNCHANGED <<imported_idl, exchanges>>,
         sign_context' \in Contexts(Units), load_idl_context' \in Contexts(Units),
         screen' \in Screens, ReviewsAreCurrent'
  PROVE  IInv'
<1>1. TypeOK'
  BY DEF IInv, TypeOK
<1>2. SlotAttested'
  BY DEF IInv, SlotAttested, Attests, attestation_message
<1> QED
  BY <1>1, <1>2 DEF IInv

(* A public key is answered, refused, or shown for approval first.         *)
PubkeyOutputs == {<<>>} \cup {<<path>> : path \in Paths}

LEMMA PubkeyOutputsAreOutputs == PubkeyOutputs \subseteq Outputs
BY DEF PubkeyOutputs, Outputs

LEMMA HandleGetPubkeyCases ==
  ASSUME IInv, HandleGetPubkey
  PROVE  /\ \/ \E apdu \in Apdus, sw \in StatusWords, out \in PubkeyOutputs :
                 Answer(apdu, sw, out) /\ apdu.ins \in {"pubkey", "pubkey_display"}
            \/ /\ \E apdu \in ApdusOf("pubkey_display"), path \in Paths :
                    screen' = ReviewAddress(apdu, path)
               /\ UNCHANGED exchanges
         /\ sign_context' \in Contexts(Units) /\ load_idl_context' \in Contexts(Units)
         /\ Len(exchanges) < MaxExchanges /\ UNCHANGED imported_idl
<1>1. Len(exchanges) < MaxExchanges /\ UNCHANGED imported_idl
  BY DEF HandleGetPubkey, CanServe
<1> DEFINE apdu(ins, data) == Apdu(ins, {}, data)
           path(data) == Len(data) = 1 /\ data[1] \in Paths
           outcome(ins, data) ==
             \/ ~path(data) /\ Answer(apdu(ins, data), "WrongApduLength", <<>>)
             \/ path(data) /\ Answer(apdu(ins, data), "KeyDeriveFail", <<>>)
             \/ path(data) /\ ins = "pubkey" /\ Answer(apdu(ins, data), "Ok", data)
             \/ /\ path(data) /\ ins = "pubkey_display"
                /\ screen' = ReviewAddress(apdu(ins, data), data[1])
                /\ UNCHANGED exchanges
<1>2. PICK ins \in {"pubkey", "pubkey_display"} :
        \E data \in Data[ins] : KeepOnly(ins) /\ outcome(ins, data)
  BY DEF HandleGetPubkey
<1>3. PICK data \in Data[ins] : KeepOnly(ins) /\ outcome(ins, data)
  BY <1>2
<1>4. sign_context' \in Contexts(Units) /\ load_idl_context' \in Contexts(Units)
  BY <1>3, KeepOnlyType DEF IInv
<1>5. data \in Seq(Units)
  BY ConstantsAssumption DEF Instructions
<1>6. apdu(ins, data) \in Apdus /\ apdu(ins, data).ins = ins
  BY <1>5, ApduType DEF Instructions, Apdu
<1>7. <<>> \in PubkeyOutputs /\ (path(data) => data \in PubkeyOutputs)
  <2>1. path(data) => data = <<data[1]>>
    BY <1>5, LenProperties
  <2> QED
    BY <2>1 DEF PubkeyOutputs
<1>8. {"WrongApduLength", "KeyDeriveFail", "Ok"} \subseteq StatusWords
  BY DEF StatusWords
<1> HIDE DEF apdu
<1>9. CASE \E sw \in {"WrongApduLength", "KeyDeriveFail"} : Answer(apdu(ins, data), sw, <<>>)
  BY <1>1, <1>4, <1>6, <1>7, <1>8, <1>9
<1>10. CASE path(data) /\ Answer(apdu(ins, data), "Ok", data)
  BY <1>1, <1>4, <1>6, <1>7, <1>8, <1>10
<1>11. CASE /\ path(data) /\ ins = "pubkey_display"
            /\ screen' = ReviewAddress(apdu(ins, data), data[1]) /\ UNCHANGED exchanges
  <2>1. apdu(ins, data) \in ApdusOf("pubkey_display")
    BY <1>6, <1>11 DEF ApdusOf
  <2> QED
    BY <1>1, <1>4, <1>11, <2>1
<1> QED
  BY <1>3, <1>9, <1>10, <1>11

LEMMA HandleGetPubkeyStep == IInv /\ HandleGetPubkey => IInv'
<1> SUFFICES ASSUME IInv, HandleGetPubkey PROVE IInv'
  OBVIOUS
<1>1. ASSUME NEW apdu \in ApdusOf("pubkey_display"), NEW path \in Paths,
             screen' = ReviewAddress(apdu, path), UNCHANGED exchanges
      PROVE  IInv'
  <2>1. screen' \in Screens
    BY <1>1 DEF Screens, ReviewAddress
  <2>2. ReviewsAreCurrent'
    BY <1>1, HandleGetPubkeyCases
       DEF ReviewsAreCurrent, MessageReviewIsCurrent, ImportReviewIsCurrent, ReviewAddress
  <2> QED
    BY <1>1, <2>1, <2>2, HandleGetPubkeyCases, ReviewStep
<1> QED
  BY <1>1, HandleGetPubkeyCases, AnswerStep, PubkeyOutputsAreOutputs

(* What a screen in review holds.                                          *)
LEMMA ScreenType ==
  ASSUME TypeOK
  PROVE  /\ screen.name = "review_address" =>
              /\ screen.apdu \in Apdus /\ screen.apdu.ins = "pubkey_display"
              /\ screen.path \in Paths
         /\ screen.name = "review_message" =>
              screen.apdu \in Apdus /\ screen.apdu.ins = "sign"
         /\ screen.name = "review_idl_import" =>
              screen.apdu \in Apdus /\ screen.apdu.ins = "load_idl"
BY DEF TypeOK, ApdusOf, Screens, Home, LeftOver, Settings, ConfirmRemoval

LEMMA AddressStep == IInv /\ (ApproveAddress \/ RejectAddress) => IInv'
<1> SUFFICES ASSUME IInv, ApproveAddress \/ RejectAddress PROVE IInv'
  OBVIOUS
<1>1. /\ screen.name = "review_address" /\ UNCHANGED imported_idl
      /\ sign_context' \in Contexts(Units) /\ load_idl_context' \in Contexts(Units)
  BY DEF ApproveAddress, RejectAddress, IInv, TypeOK
<1>2. Len(exchanges) < MaxExchanges /\ screen.apdu \in Apdus /\ screen.path \in Paths
  BY <1>1, ScreenType DEF IInv, ReviewsAreCurrent
<1>3. <<screen.path>> \in Outputs
  BY <1>2 DEF Outputs
<1> QED
  BY <1>1, <1>2, <1>3, AnswerStep, NoOutput DEF ApproveAddress, RejectAddress, StatusWords

-----------------------------------------------------------------------------
LEMMA ReviewMessageStep ==
  ASSUME IInv, Len(exchanges) < MaxExchanges, UNCHANGED <<imported_idl, exchanges>>,
         NEW ctx \in Contexts(Units), NEW apdu \in ApdusOf("sign"),
         parse_sign_payload(ctx.payload).sw = "Ok",
         screen' = ReviewMessage(apdu, parse_sign_payload(ctx.payload)),
         sign_context' = ctx, load_idl_context' \in Contexts(Units)
  PROVE  IInv'
<1> DEFINE parsed == parse_sign_payload(ctx.payload)
           decoded == [program \in Programs |-> decode_instruction(program)]
<1>1. parsed.path \in Paths /\ parsed.message \in Seq(Units)
  BY ParseSignType DEF Contexts
<1>2. decoded \in [Programs -> Explanations]
  <2>1. ASSUME NEW program \in Programs PROVE decode_instruction(program) \in Explanations
    <3>1. load_imported_idl # {} => imported_idl.idl \in Seq(Units)
      BY ConstantsAssumption DEF load_imported_idl
    <3>2. <<>> \in Seq(Units)
      BY EmptySeq
    <3> QED
      BY <3>1, <3>2 DEF decode_instruction, Explanations
  <2> QED
    BY <2>1
<1>3. screen' = [name |-> "review_message", apdu |-> apdu, path |-> parsed.path,
                 message |-> parsed.message, decoded |-> decoded]
  BY DEF ReviewMessage
<1>4. screen' \in Screens
  <2> HIDE DEF parsed, decoded
  <2> QED
    BY <1>1, <1>2, <1>3 DEF Screens
<1>5. decoded' = decoded
  BY DEF decode_instruction, load_imported_idl
<1>6. MessageReviewIsCurrent'
  BY <1>3, <1>5 DEF MessageReviewIsCurrent
<1>7. ReviewsAreCurrent'
  BY <1>3, <1>6 DEF ReviewsAreCurrent, ImportReviewIsCurrent
<1> QED
  BY <1>4, <1>7, ReviewStep

LEMMA SignPayloadStep ==
  ASSUME IInv, Len(exchanges) < MaxExchanges, UNCHANGED imported_idl,
         NEW ctx \in Contexts(Units), NEW apdu \in ApdusOf("sign"),
         SignPayload(apdu, ctx), load_idl_context' \in Contexts(Units)
  PROVE  IInv'
<1> DEFINE parsed == parse_sign_payload(ctx.payload)
<1>1. parsed.sw \in {"Ok", "InvalidData", "WrongApduLength"}
  BY ParseSignType DEF Contexts
<1>2. sign_context' \in Contexts(Units)
  BY ResetType DEF SignPayload
<1>3. {parsed.sw, "KeyDeriveFail", "InvalidData", "CommError"} \subseteq StatusWords
  BY <1>1 DEF StatusWords
<1>4. CASE \E sw \in {parsed.sw, "KeyDeriveFail", "InvalidData", "CommError"} :
           Answer(apdu, sw, <<>>)
  BY <1>2, <1>3, <1>4, AnswerStep, NoOutput DEF ApdusOf
<1>5. CASE /\ parsed.sw = "Ok" /\ screen' = ReviewMessage(apdu, parsed)
           /\ sign_context' = ctx /\ UNCHANGED exchanges
  BY <1>5, ReviewMessageStep
<1> QED
  BY <1>4, <1>5 DEF SignPayload

(* A chunk is answered without data, or its upload is whole.               *)
LEMMA HandleSignMessageCases ==
  ASSUME IInv, HandleSignMessage
  PROVE  /\ \E apdu \in ApdusOf("sign"), ctx \in Contexts(Units) :
              \/ SignPayload(apdu, ctx)
              \/ /\ \E sw \in StatusWords : Answer(apdu, sw, <<>>)
                 /\ sign_context' = ctx
         /\ Len(exchanges) < MaxExchanges /\ UNCHANGED imported_idl
         /\ load_idl_context' \in Contexts(Units)
<1> DEFINE apdu(p2, data) == Apdu("sign", p2, data)
           step(p2, data) == ingest_payload_chunk(sign_context, MaxSignPayload, p2, data)
           outcome(p2, data) ==
             \/ /\ step(p2, data).result = "completed"
                /\ SignPayload(apdu(p2, data), step(p2, data).ctx)
             \/ /\ step(p2, data).result = "incomplete"
                /\ Answer(apdu(p2, data), "Ok", <<>>)
                /\ sign_context' = step(p2, data).ctx
             \/ /\ step(p2, data).result \notin {"completed", "incomplete"}
                /\ Answer(apdu(p2, data), step(p2, data).result, <<>>)
                /\ sign_context' = step(p2, data).ctx
<1>1. PICK p2 \in SUBSET {"extend", "more"}, data \in Data["sign"] : outcome(p2, data)
  BY DEF HandleSignMessage
<1>2. data \in Seq(Units)
  BY ConstantsAssumption DEF Instructions
<1>3. apdu(p2, data) \in Apdus /\ apdu(p2, data) \in ApdusOf("sign")
  BY <1>2, ApduType DEF Instructions, ApdusOf, Apdu
<1>4. /\ step(p2, data).ctx \in Contexts(Units)
      /\ step(p2, data).result \in {"completed", "incomplete", "WrongP1P2", "WrongApduLength"}
  BY <1>2, IngestType DEF IInv, TypeOK
<1>5. /\ Len(exchanges) < MaxExchanges /\ UNCHANGED imported_idl
      /\ load_idl_context' \in Contexts(Units)
  BY ResetType DEF HandleSignMessage, ForgetLoadIdl, CanServe
<1> HIDE DEF apdu, step
<1>6. CASE /\ \E sw \in {"Ok", "WrongP1P2", "WrongApduLength"} : Answer(apdu(p2, data), sw, <<>>)
           /\ sign_context' = step(p2, data).ctx
  BY <1>3, <1>4, <1>5, <1>6 DEF StatusWords
<1>7. CASE SignPayload(apdu(p2, data), step(p2, data).ctx)
  BY <1>3, <1>4, <1>5, <1>7
<1> QED
  BY <1>1, <1>4, <1>6, <1>7

LEMMA HandleSignMessageStep == IInv /\ HandleSignMessage => IInv'
BY HandleSignMessageCases, SignPayloadStep, AnswerStep, NoOutput DEF ApdusOf

LEMMA ApproveMessageStep == IInv /\ ApproveMessage => IInv'
<1> SUFFICES ASSUME IInv, ApproveMessage PROVE IInv'
  OBVIOUS
<1> DEFINE parsed == parse_sign_payload(sign_context.payload)
<1>1. screen.name = "review_message" /\ UNCHANGED imported_idl
  BY DEF ApproveMessage
<1>2. Len(exchanges) < MaxExchanges /\ screen.apdu \in Apdus
  BY <1>1, ScreenType DEF IInv, ReviewsAreCurrent
<1>3. sign_context' \in Contexts(Units) /\ load_idl_context' \in Contexts(Units)
  BY ResetType DEF ApproveMessage, IInv, TypeOK
<1>4. parsed.path \in Paths /\ parsed.message \in Seq(Units)
  BY <1>1, ParseSignType DEF IInv, TypeOK, Contexts, ReviewsAreCurrent, MessageReviewIsCurrent
<1>5. <<parsed.path, parsed.message>> \in Outputs
  BY <1>4 DEF Outputs
<1>6. CASE Answer(screen.apdu, "Ok", <<parsed.path, parsed.message>>)
  BY <1>1, <1>2, <1>3, <1>5, <1>6, AnswerStep DEF StatusWords
<1>7. CASE \E sw \in {"KeyDeriveFail", "ConditionsNotSatisfied"} : Answer(screen.apdu, sw, <<>>)
  BY <1>1, <1>2, <1>3, <1>7, AnswerStep, NoOutput DEF StatusWords
<1> QED
  BY <1>6, <1>7 DEF ApproveMessage

LEMMA RejectStep == IInv /\ (RejectMessage \/ RejectImport) => IInv'
<1> SUFFICES ASSUME IInv, RejectMessage \/ RejectImport PROVE IInv'
  OBVIOUS
<1>1. /\ screen.name \in {"review_message", "review_idl_import"}
      /\ UNCHANGED imported_idl /\ Answer(screen.apdu, "Deny", <<>>)
      /\ sign_context' \in Contexts(Units) /\ load_idl_context' \in Contexts(Units)
  BY ResetType DEF RejectMessage, RejectImport, IInv, TypeOK
<1>2. Len(exchanges) < MaxExchanges /\ screen.apdu \in Apdus
  BY <1>1, ScreenType DEF IInv, ReviewsAreCurrent
<1> QED
  BY <1>1, <1>2, AnswerStep, NoOutput DEF StatusWords

-----------------------------------------------------------------------------
(* An attestation that verifies has a signer to show.                      *)
LEMMA SignersType ==
  ASSUME NEW payload \in Seq(Units),
         prepare_idl_import(payload).sw = "Ok",
         verify_attestations(prepare_idl_import(payload))
  PROVE  LET prepared == prepare_idl_import(payload)
         IN  /\ \A k \in 1..Len(prepared.attestations) : prepared.attestations[k] \in Attestations
             /\ [k \in 1..Len(prepared.attestations) |->
                   AttestationOf[prepared.attestations[k]].signer] \in Seq(Signers)
             /\ \E a \in Attestations : Attests(a, prepared.idl)
<1> DEFINE prepared == prepare_idl_import(payload)
<1>1. /\ prepared.attestations \in Seq(Units)
      /\ Len(prepared.attestations) \in Nat \ {0}
  BY PrepareType
<1>2. \A k \in 1..Len(prepared.attestations) : Attests(prepared.attestations[k], prepared.idl)
  BY DEF verify_attestations
<1> HIDE DEF prepared
<1>3. \A k \in 1..Len(prepared.attestations) : prepared.attestations[k] \in Attestations
  BY <1>2 DEF Attests
<1>4. 1 \in 1..Len(prepared.attestations)
  BY <1>1
<1>5. \E a \in Attestations : Attests(a, prepared.idl)
  BY <1>2, <1>3, <1>4
<1>6. \A k \in 1..Len(prepared.attestations) :
        AttestationOf[prepared.attestations[k]].signer \in Signers
  BY <1>3 DEF Signers
<1>7. [k \in 1..Len(prepared.attestations) |->
         AttestationOf[prepared.attestations[k]].signer] \in Seq(Signers)
  BY <1>1, <1>6
<1> QED
  BY <1>3, <1>5, <1>7 DEF prepared

LEMMA ReviewImportStep ==
  ASSUME IInv, Len(exchanges) < MaxExchanges, UNCHANGED <<imported_idl, exchanges>>,
         NEW ctx \in Contexts(Units), NEW apdu \in ApdusOf("load_idl"),
         prepare_idl_import(ctx.payload).sw = "Ok",
         verify_attestations(prepare_idl_import(ctx.payload)),
         screen' = ReviewImport(apdu, prepare_idl_import(ctx.payload)),
         load_idl_context' = ctx, sign_context' \in Contexts(Units)
  PROVE  IInv'
<1> DEFINE prepared == prepare_idl_import(ctx.payload)
           signers == [k \in 1..Len(prepared.attestations) |->
                         AttestationOf[prepared.attestations[k]].signer]
<1>1. /\ prepared.program_id \in Programs /\ prepared.idl \in Seq(Units)
      /\ signers \in Seq(Signers)
  BY PrepareType, SignersType, ConstantsAssumption DEF Contexts
<1>2. screen' = [name |-> "review_idl_import", apdu |-> apdu,
                 program_id |-> prepared.program_id, signers |-> signers,
                 idl |-> prepared.idl]
  BY DEF ReviewImport
<1>3. screen' \in Screens /\ screen'.apdu = apdu
  <2> HIDE DEF prepared, signers
  <2> QED
    BY <1>1, <1>2 DEF Screens
<1>4. ImportReviewIsCurrent'
  BY <1>3 DEF ImportReviewIsCurrent
<1>5. ReviewsAreCurrent'
  BY <1>2, <1>4 DEF ReviewsAreCurrent, MessageReviewIsCurrent
<1> QED
  BY <1>3, <1>5, ReviewStep

LEMMA ImportPayloadStep ==
  ASSUME IInv, Len(exchanges) < MaxExchanges, UNCHANGED imported_idl,
         NEW ctx \in Contexts(Units), NEW apdu \in ApdusOf("load_idl"),
         ImportPayload(apdu, ctx), sign_context' \in Contexts(Units)
  PROVE  IInv'
<1> DEFINE prepared == prepare_idl_import(ctx.payload)
<1>1. prepared.sw \in {"Ok", "InvalidData", "WrongApduLength"}
  BY PrepareType DEF Contexts
<1>2. load_idl_context' \in Contexts(Units)
  BY ResetType DEF ImportPayload
<1>3. {prepared.sw, "InvalidData"} \subseteq StatusWords
  BY <1>1 DEF StatusWords
<1>4. CASE \E sw \in {prepared.sw, "InvalidData"} : Answer(apdu, sw, <<>>)
  BY <1>2, <1>3, <1>4, AnswerStep, NoOutput DEF ApdusOf
<1>5. CASE /\ prepared.sw = "Ok" /\ verify_attestations(prepared)
           /\ screen' = ReviewImport(apdu, prepared)
           /\ load_idl_context' = ctx /\ UNCHANGED exchanges
  BY <1>5, ReviewImportStep
<1> QED
  BY <1>4, <1>5 DEF ImportPayload

(* A chunk is answered without data, or its upload is whole.               *)
LEMMA HandleLoadIdlCases ==
  ASSUME IInv, HandleLoadIdl
  PROVE  /\ \E apdu \in ApdusOf("load_idl"), ctx \in Contexts(Units) :
              \/ ImportPayload(apdu, ctx)
              \/ /\ \E sw \in StatusWords : Answer(apdu, sw, <<>>)
                 /\ load_idl_context' = ctx
         /\ Len(exchanges) < MaxExchanges /\ UNCHANGED imported_idl
         /\ sign_context' \in Contexts(Units)
<1> DEFINE apdu(p2, data) == Apdu("load_idl", p2, data)
           step(p2, data) ==
             ingest_payload_chunk(load_idl_context, MaxLoadIdlPayload, p2, data)
           outcome(p2, data) ==
             \/ /\ step(p2, data).result = "completed"
                /\ ImportPayload(apdu(p2, data), step(p2, data).ctx)
             \/ /\ step(p2, data).result = "incomplete"
                /\ Answer(apdu(p2, data), "Ok", <<>>)
                /\ load_idl_context' = step(p2, data).ctx
             \/ /\ step(p2, data).result \notin {"completed", "incomplete"}
                /\ Answer(apdu(p2, data), step(p2, data).result, <<>>)
                /\ load_idl_context' = step(p2, data).ctx
<1>1. PICK p2 \in SUBSET {"extend", "more"}, data \in Data["load_idl"] : outcome(p2, data)
  BY DEF HandleLoadIdl
<1>2. data \in Seq(Units)
  BY ConstantsAssumption DEF Instructions
<1>3. apdu(p2, data) \in Apdus /\ apdu(p2, data) \in ApdusOf("load_idl")
  BY <1>2, ApduType DEF Instructions, ApdusOf, Apdu
<1>4. /\ step(p2, data).ctx \in Contexts(Units)
      /\ step(p2, data).result \in {"completed", "incomplete", "WrongP1P2", "WrongApduLength"}
  BY <1>2, IngestType DEF IInv, TypeOK
<1>5. /\ Len(exchanges) < MaxExchanges /\ UNCHANGED imported_idl
      /\ sign_context' \in Contexts(Units)
  BY ResetType DEF HandleLoadIdl, ForgetSign, CanServe
<1> HIDE DEF apdu, step
<1>6. CASE /\ \E sw \in {"Ok", "WrongP1P2", "WrongApduLength"} : Answer(apdu(p2, data), sw, <<>>)
           /\ load_idl_context' = step(p2, data).ctx
  BY <1>3, <1>4, <1>5, <1>6 DEF StatusWords
<1>7. CASE ImportPayload(apdu(p2, data), step(p2, data).ctx)
  BY <1>3, <1>4, <1>5, <1>7
<1> QED
  BY <1>1, <1>4, <1>6, <1>7

LEMMA HandleLoadIdlStep == IInv /\ HandleLoadIdl => IInv'
BY HandleLoadIdlCases, ImportPayloadStep, AnswerStep, NoOutput DEF ApdusOf

LEMMA ApproveImportStep == IInv /\ ApproveImport => IInv'
<1> SUFFICES ASSUME IInv, ApproveImport PROVE IInv'
  OBVIOUS
<1> DEFINE payload == load_idl_context.payload
           prepared == prepare_idl_import(payload)
           out == <<prepared.program_id, Len(prepared.attestations), Len(prepared.idl)>>
<1>1. screen.name = "review_idl_import"
  BY DEF ApproveImport
<1>2. payload \in Seq(Units) /\ prepared.sw = "Ok" /\ verify_attestations(prepared)
  BY <1>1 DEF IInv, TypeOK, Contexts, ReviewsAreCurrent, ImportReviewIsCurrent
<1>3. /\ prepared.idl \in DOMAIN ProgramOf /\ prepared.idl \in Seq(Units)
      /\ prepared.program_id = ProgramOf[prepared.idl]
      /\ prepared.program_id \in Programs
      /\ Len(prepared.attestations) \in Nat
      /\ \E a \in Attestations : Attests(a, prepared.idl)
  BY <1>2, PrepareType, SignersType, ConstantsAssumption
<1>4. Len(exchanges) < MaxExchanges /\ screen.apdu \in Apdus
  BY <1>1, ScreenType DEF IInv, ReviewsAreCurrent
<1>5. /\ imported_idl' = StoredIdl(prepared)
      /\ \/ Answer(screen.apdu, "Ok", out)
         \/ /\ exchanges' = Append(exchanges, [apdu |-> Restarted, sw |-> "Ok", out |-> <<>>])
            /\ screen' = Home
  BY DEF ApproveImport
<1>6. sign_context' \in Contexts(Units) /\ load_idl_context' \in Contexts(Units)
  BY ResetType DEF ApproveImport, IInv, TypeOK
<1> HIDE DEF prepared, payload
<1>7. out \in Outputs
  BY <1>3, LenProperties DEF Outputs
<1>8. /\ exchanges' \in Seq(Exchange)
      /\ Len(exchanges') <= MaxExchanges
      /\ screen' \in {Home, LeftOver}
  <2>1. CASE Answer(screen.apdu, "Ok", out)
    BY <1>4, <1>7, <2>1, AnswerType DEF IInv, StatusWords
  <2>2. CASE /\ exchanges' = Append(exchanges, [apdu |-> Restarted, sw |-> "Ok", out |-> <<>>])
             /\ screen' = Home
    <3>1. [apdu |-> Restarted, sw |-> "Ok", out |-> <<>>] \in Exchange
      BY ApduType, NoOutput DEF Exchange, StatusWords
    <3>2. exchanges \in Seq(Exchange)
      BY DEF IInv, TypeOK, Exchange
    <3>3. /\ exchanges' \in Seq(Exchange)
          /\ Len(exchanges') = Len(exchanges) + 1
          /\ Len(exchanges) \in Nat
      BY <2>2, <3>1, <3>2, AppendProperties, LenProperties
    <3> QED
      BY <1>4, <2>2, <3>3, ConstantsAssumption
  <2> QED
    BY <1>5, <2>1, <2>2
<1>9. imported_idl' \in [version : {1}, program_id : Programs, idl : Seq(Units)]
  BY <1>3, <1>5 DEF StoredIdl
<1>10. ReviewsAreCurrent' /\ screen' \in Screens
  BY <1>8, NoReview
<1>11. TypeOK'
  BY <1>6, <1>8, <1>9, <1>10 DEF TypeOK, Exchange
<1>12. SlotAttested'
  BY <1>3, <1>5 DEF SlotAttested, StoredIdl, Attests, attestation_message
<1> QED
  BY <1>10, <1>11, <1>12 DEF IInv

LEMMA MenuStep == IInv /\ Menu => IInv'
<1> SUFFICES ASSUME IInv, Menu PROVE IInv'
  OBVIOUS
<1>1. /\ screen' \in {Home, LeftOver, Settings, ConfirmRemoval}
      /\ UNCHANGED <<sign_context, load_idl_context, exchanges>>
      /\ imported_idl' \in {imported_idl, NoImport}
  BY DEF Menu, OpenSettings, CloseSettings, AskRemoval, ConfirmRemove, DeclineRemove
<1>2. ReviewsAreCurrent' /\ screen' \in Screens
  BY <1>1, NoReview
<1>3. TypeOK'
  BY <1>1, <1>2 DEF IInv, TypeOK
<1>4. SlotAttested'
  BY <1>1 DEF IInv, SlotAttested, Attests, attestation_message
<1> QED
  BY <1>2, <1>3, <1>4 DEF IInv

LEMMA RestartStep == IInv /\ Restart => IInv'
<1> SUFFICES ASSUME IInv, Restart PROVE IInv'
  OBVIOUS
<1>1. screen' = Home /\ UNCHANGED imported_idl /\ Len(exchanges) < MaxExchanges
  BY DEF Restart
<1>2. [apdu |-> Restarted, sw |-> "Ok", out |-> <<>>] \in Exchange
  BY ApduType, NoOutput DEF Exchange, StatusWords
<1>3. exchanges \in Seq(Exchange)
  BY DEF IInv, TypeOK, Exchange
<1>4. /\ exchanges' \in Seq(Exchange)
      /\ Len(exchanges') = Len(exchanges) + 1
      /\ Len(exchanges) \in Nat
  BY <1>2, <1>3, AppendProperties, LenProperties DEF Restart
<1>5. Len(exchanges') <= MaxExchanges
  BY <1>1, <1>4, ConstantsAssumption
<1>6. ReviewsAreCurrent' /\ screen' \in Screens
  BY <1>1, NoReview
<1>7. TypeOK'
  BY <1>1, <1>4, <1>5, <1>6, ResetType DEF IInv, TypeOK, Exchange, Restart
<1>8. SlotAttested'
  BY <1>1 DEF IInv, SlotAttested, Attests, attestation_message
<1> QED
  BY <1>6, <1>7, <1>8 DEF IInv

LEMMA NextStep == IInv /\ [Next]_vars => IInv'
<1> SUFFICES ASSUME IInv, [Next]_vars PROVE IInv'
  OBVIOUS
<1>1. CASE Serve
  BY <1>1, RefuseHeaderStep, RefuseBrokenApduStep, HandleGetAppConfigStep,
     HandleGetPubkeyStep, HandleSignMessageStep, HandleLoadIdlStep DEF Serve
<1>2. CASE Decide
  BY <1>2, AddressStep, ApproveMessageStep, RejectStep, ApproveImportStep DEF Decide
<1>3. CASE Menu
  BY <1>3, MenuStep
<1>4. CASE Restart
  BY <1>4, RestartStep
<1>5. CASE UNCHANGED vars
  <2>1. TypeOK'
    BY <1>5 DEF vars, IInv, TypeOK
  <2>2. SlotAttested'
    BY <1>5 DEF vars, IInv, SlotAttested, Attests, attestation_message
  <2>3. MessageReviewIsCurrent'
    BY <1>5 DEF vars, IInv, ReviewsAreCurrent, MessageReviewIsCurrent,
                decode_instruction, load_imported_idl
  <2>4. ImportReviewIsCurrent'
    BY <1>5 DEF vars, IInv, ReviewsAreCurrent, ImportReviewIsCurrent
  <2>5. ReviewsAreCurrent'
    BY <1>5, <2>3, <2>4 DEF vars, IInv, ReviewsAreCurrent
  <2> QED
    BY <2>1, <2>2, <2>5 DEF IInv
<1> QED
  BY <1>1, <1>2, <1>3, <1>4, <1>5 DEF Next

-----------------------------------------------------------------------------
(* IInv holds in every reachable state, for every set of paths, messages,  *)
(* attestations, IDLs and limits, on a Nano and on an NBGL device.         *)
THEOREM Invariance == Spec => []IInv
<1>1. Init => IInv
  BY InitIInv
<1>2. IInv /\ [Next]_vars => IInv'
  BY NextStep
<1> QED
  BY <1>1, <1>2, PTL DEF Spec

(* The state of the device is always well-formed.                          *)
THEOREM TypeCorrect == Spec => []TypeOK
<1>1. IInv => TypeOK
  BY DEF IInv
<1> QED
  BY <1>1, Invariance, PTL

(* The imported slot only ever holds an IDL text that an attestation       *)
(* verifies over, under the program id of that text.                       *)
THEOREM SlotAlwaysAttested == Spec => []SlotAttested
<1>1. IInv => SlotAttested
  BY DEF IInv
<1> QED
  BY <1>1, Invariance, PTL

(* What a review shows stays what the device holds until the user decides. *)
THEOREM ReviewsStayCurrent == Spec => []ReviewsAreCurrent
<1>1. IInv => ReviewsAreCurrent
  BY DEF IInv
<1> QED
  BY <1>1, Invariance, PTL

-----------------------------------------------------------------------------
(* What a review may explain an instruction with.                          *)
THEOREM ReviewsTrustAttestedIdls == Spec => []ReviewTrustsAttestedIdls
<1>1. IInv => ReviewTrustsAttestedIdls
  <2> SUFFICES ASSUME IInv, screen.name = "review_message", NEW program \in Programs
               PROVE  /\ program \in BuiltinPrograms =>
                           screen.decoded[program].source = "builtin"
                      /\ screen.decoded[program].source = "imported" =>
                           /\ ProgramOf[screen.decoded[program].idl] = program
                           /\ \E a \in Attestations :
                                Attests(a, screen.decoded[program].idl)
    BY DEF ReviewTrustsAttestedIdls
  <2>1. screen.decoded[program] = decode_instruction(program)
    BY DEF IInv, ReviewsAreCurrent, MessageReviewIsCurrent
  <2>2. ASSUME decode_instruction(program).source = "imported"
        PROVE  /\ imported_idl # NoImport /\ imported_idl.program_id = program
               /\ decode_instruction(program).idl = imported_idl.idl
    BY <2>2 DEF decode_instruction, load_imported_idl, NoImport
  <2> QED
    BY <2>1, <2>2 DEF IInv, SlotAttested, decode_instruction
<1> QED
  BY <1>1, Invariance, PTL

-----------------------------------------------------------------------------
(* The only new exchange of an answer is the one it appends.               *)
LEMMA AnswerAppends ==
  ASSUME TypeOK
  PROVE  \A apdu \in Apdus, sw \in StatusWords, out \in Outputs :
           Answer(apdu, sw, out) =>
             \A i \in (Len(exchanges) + 1)..Len(exchanges') :
               exchanges'[i] = [apdu |-> apdu, sw |-> sw, out |-> out]
<1> SUFFICES ASSUME NEW apdu \in Apdus, NEW sw \in StatusWords, NEW out \in Outputs,
                    Answer(apdu, sw, out),
                    NEW i \in (Len(exchanges) + 1)..Len(exchanges')
             PROVE  exchanges'[i] = [apdu |-> apdu, sw |-> sw, out |-> out]
  OBVIOUS
<1> DEFINE x == [apdu |-> apdu, sw |-> sw, out |-> out]
<1>1. x \in Exchange /\ exchanges \in Seq(Exchange) /\ exchanges' = Append(exchanges, x)
  BY DEF Exchange, TypeOK, Answer
<1> HIDE DEF x
<1>2. /\ Len(exchanges') = Len(exchanges) + 1 /\ Len(exchanges) \in Nat
      /\ exchanges'[Len(exchanges) + 1] = x
  BY <1>1, AppendProperties, LenProperties
<1>3. i = Len(exchanges) + 1
  BY <1>2
<1> QED
  BY <1>2, <1>3 DEF x

LEMMA SameHistory ==
  ASSUME TypeOK, UNCHANGED exchanges
  PROVE  SignsShown /\ ImportAnswered
<1>1. Len(exchanges) \in Nat
  BY LenProperties DEF TypeOK
<1>2. (Len(exchanges) + 1)..Len(exchanges') = {}
  BY <1>1
<1> QED
  BY <1>2 DEF SignsShown, ImportAnswered

(* What a step can add to the history and do to the slot: nothing, an      *)
(* answer without data or with a public key, or what the user approved.    *)
Quiet(apdu, out) == out = <<>> \/ apdu.ins \in {"pubkey", "pubkey_display"}

StepShape ==
  \/ UNCHANGED exchanges /\ (UNCHANGED imported_idl \/ ConfirmRemove)
  \/ /\ UNCHANGED imported_idl
     /\ \E apdu \in Apdus, sw \in StatusWords, out \in Outputs :
          Answer(apdu, sw, out) /\ Quiet(apdu, out)
  \/ Restart
  \/ ApproveMessage
  \/ ApproveImport

LEMMA ServeShape == IInv /\ Serve => StepShape
<1> SUFFICES ASSUME IInv, Serve PROVE StepShape
  OBVIOUS
<1>1. CASE RefuseHeader
  BY <1>1, ApduType, NoOutput DEF RefuseHeader, StepShape, Quiet, StatusWords
<1>2. CASE RefuseBrokenApdu
  BY <1>2, ApduType, NoOutput DEF RefuseBrokenApdu, StepShape, Quiet, StatusWords
<1>3. CASE HandleGetAppConfig
  BY <1>3, ApduType, NoOutput, EmptySeq DEF HandleGetAppConfig, StepShape, Quiet, StatusWords, Instructions
<1>4. CASE HandleGetPubkey
  BY <1>4, HandleGetPubkeyCases, PubkeyOutputsAreOutputs DEF StepShape, Quiet
<1>5. CASE HandleSignMessage
  <2>1. PICK apdu \in ApdusOf("sign"), ctx \in Contexts(Units) :
          SignPayload(apdu, ctx) \/ \E sw \in StatusWords : Answer(apdu, sw, <<>>)
    BY <1>5, HandleSignMessageCases
  <2>2. parse_sign_payload(ctx.payload).sw \in StatusWords
    BY ParseSignType DEF Contexts, StatusWords
  <2>3. UNCHANGED exchanges \/ \E sw \in StatusWords : Answer(apdu, sw, <<>>)
    BY <2>1, <2>2 DEF SignPayload, StatusWords
  <2> QED
    BY <1>5, <2>3, NoOutput, HandleSignMessageCases DEF StepShape, Quiet, ApdusOf
<1>6. CASE HandleLoadIdl
  <2>1. PICK apdu \in ApdusOf("load_idl"), ctx \in Contexts(Units) :
          ImportPayload(apdu, ctx) \/ \E sw \in StatusWords : Answer(apdu, sw, <<>>)
    BY <1>6, HandleLoadIdlCases
  <2>2. prepare_idl_import(ctx.payload).sw \in StatusWords
    BY PrepareType DEF Contexts, StatusWords
  <2>3. UNCHANGED exchanges \/ \E sw \in StatusWords : Answer(apdu, sw, <<>>)
    BY <2>1, <2>2 DEF ImportPayload, StatusWords
  <2> QED
    BY <1>6, <2>3, NoOutput, HandleLoadIdlCases DEF StepShape, Quiet, ApdusOf
<1> QED
  BY <1>1, <1>2, <1>3, <1>4, <1>5, <1>6 DEF Serve

LEMMA DecideShape == IInv /\ Decide => StepShape
<1> SUFFICES ASSUME IInv, Decide PROVE StepShape
  OBVIOUS
<1>1. CASE ApproveMessage \/ ApproveImport
  BY <1>1 DEF StepShape
<1>2. CASE ApproveAddress
  <2>1. /\ screen.apdu \in Apdus /\ screen.apdu.ins = "pubkey_display"
        /\ screen.path \in Paths
    BY <1>2, ScreenType DEF ApproveAddress, IInv
  <2>2. <<screen.path>> \in Outputs
    BY <2>1 DEF Outputs
  <2> QED
    BY <1>2, <2>1, <2>2 DEF ApproveAddress, StepShape, Quiet, StatusWords
<1>3. CASE RejectAddress \/ RejectMessage \/ RejectImport
  <2>1. screen.apdu \in Apdus
    BY <1>3, ScreenType DEF RejectAddress, RejectMessage, RejectImport, IInv
  <2> QED
    BY <1>3, <2>1, NoOutput
       DEF RejectAddress, RejectMessage, RejectImport, StepShape, Quiet, StatusWords
<1> QED
  BY <1>1, <1>2, <1>3 DEF Decide

LEMMA NextShape == IInv /\ [Next]_vars => StepShape
<1> SUFFICES ASSUME IInv, [Next]_vars PROVE StepShape
  OBVIOUS
<1>1. CASE Menu \/ UNCHANGED vars
  BY <1>1 DEF Menu, OpenSettings, CloseSettings, AskRemoval, ConfirmRemove,
              DeclineRemove, StepShape, vars
<1>2. CASE Restart
  BY <1>2 DEF StepShape
<1> QED
  BY <1>1, <1>2, ServeShape, DecideShape DEF Next

(* The restart a host sees carries no data and belongs to no command.      *)
LEMMA RestartShape ==
  ASSUME TypeOK, exchanges' = Append(exchanges, [apdu |-> Restarted, sw |-> "Ok", out |-> <<>>])
  PROVE  SignsShown /\ ImportAnswered
<1> DEFINE x == [apdu |-> Restarted, sw |-> "Ok", out |-> <<>>]
<1>1. x \in Exchange /\ exchanges \in Seq(Exchange)
  BY ApduType, NoOutput DEF Exchange, StatusWords, TypeOK
<1>2. x.apdu.ins = "restart"
  BY DEF Restarted, BrokenApdu
<1> HIDE DEF x
<1>3. /\ Len(exchanges') = Len(exchanges) + 1 /\ Len(exchanges) \in Nat
      /\ exchanges'[Len(exchanges) + 1] = x
  BY <1>1, AppendProperties, LenProperties DEF x
<1>4. \A i \in (Len(exchanges) + 1)..Len(exchanges') : i = Len(exchanges) + 1
  BY <1>3
<1>5. \A i \in (Len(exchanges) + 1)..Len(exchanges') : exchanges'[i].apdu.ins = "restart"
  BY <1>2, <1>3, <1>4
<1> QED
  BY <1>5 DEF SignsShown, ImportAnswered, IsSignature

(* A quiet answer signs nothing, and none to load-idl tells of an import.  *)
LEMMA QuietShape ==
  ASSUME IInv, UNCHANGED imported_idl,
         NEW apdu \in Apdus, NEW sw \in StatusWords, NEW out \in Outputs,
         Answer(apdu, sw, out), Quiet(apdu, out)
  PROVE  SignsShown /\ ImportAnswered
<1>1. \A i \in (Len(exchanges) + 1)..Len(exchanges') :
        exchanges'[i] = [apdu |-> apdu, sw |-> sw, out |-> out]
  BY AnswerAppends DEF IInv
<1>2. \A i \in (Len(exchanges) + 1)..Len(exchanges') :
        ~IsSignature(exchanges'[i]) /\ ~IsImport(exchanges'[i])
  BY <1>1 DEF Quiet, IsSignature, IsImport
<1> QED
  BY <1>2 DEF SignsShown, ImportAnswered

LEMMA ApproveMessageShape ==
  ASSUME IInv, ApproveMessage
  PROVE  SignsShown /\ ImportAnswered
<1> DEFINE parsed == parse_sign_payload(sign_context.payload)
           shown == [program \in Programs |-> decode_instruction(program)]
<1>1. /\ screen.name = "review_message" /\ UNCHANGED imported_idl
      /\ \/ Answer(screen.apdu, "Ok", <<parsed.path, parsed.message>>)
         \/ \E sw \in {"KeyDeriveFail", "ConditionsNotSatisfied"} : Answer(screen.apdu, sw, <<>>)
  BY DEF ApproveMessage
<1>2. /\ screen.path = parsed.path /\ screen.message = parsed.message
      /\ parsed.sw = "Ok" /\ screen.decoded = shown
  BY <1>1 DEF IInv, ReviewsAreCurrent, MessageReviewIsCurrent
<1>3. parsed.path \in Paths /\ parsed.message \in Seq(Units)
  BY <1>2, ParseSignType DEF IInv, TypeOK, Contexts
<1>4. screen.apdu \in Apdus /\ screen.apdu.ins = "sign"
  BY <1>1, ScreenType DEF IInv
<1> HIDE DEF parsed, shown
<1>5. CASE Answer(screen.apdu, "Ok", <<parsed.path, parsed.message>>)
  <2>1. <<parsed.path, parsed.message>> \in Outputs
    BY <1>3 DEF Outputs
  <2>2. \A i \in (Len(exchanges) + 1)..Len(exchanges') :
          exchanges'[i] = [apdu |-> screen.apdu, sw |-> "Ok",
                           out |-> <<parsed.path, parsed.message>>]
    BY <1>4, <1>5, <2>1, AnswerAppends DEF IInv, StatusWords
  <2>3. SignsShown
    BY <1>1, <1>2, <2>2 DEF SignsShown, shown
  <2>4. ImportAnswered
    BY <1>4, <2>2 DEF ImportAnswered
  <2> QED
    BY <2>3, <2>4
<1>6. CASE \E sw \in {"KeyDeriveFail", "ConditionsNotSatisfied"} : Answer(screen.apdu, sw, <<>>)
  BY <1>1, <1>4, <1>6, NoOutput, QuietShape DEF Quiet, StatusWords
<1> QED
  BY <1>1, <1>5, <1>6

LEMMA ApproveImportShape ==
  ASSUME IInv, ApproveImport
  PROVE  SignsShown /\ ImportAnswered
<1> DEFINE prepared == prepare_idl_import(load_idl_context.payload)
           out == <<prepared.program_id, Len(prepared.attestations), Len(prepared.idl)>>
<1>1. /\ screen.name = "review_idl_import" /\ imported_idl' = StoredIdl(prepared)
      /\ \/ Answer(screen.apdu, "Ok", out)
         \/ exchanges' = Append(exchanges, [apdu |-> Restarted, sw |-> "Ok", out |-> <<>>])
  BY DEF ApproveImport
<1>2. load_idl_context.payload \in Seq(Units) /\ prepared.sw = "Ok"
  BY <1>1 DEF IInv, TypeOK, Contexts, ReviewsAreCurrent, ImportReviewIsCurrent
<1>3. /\ prepared.program_id \in Programs
      /\ prepared.idl \in Seq(Units) /\ Len(prepared.attestations) \in Nat
  BY <1>2, PrepareType, ConstantsAssumption
<1>4. screen.apdu \in Apdus /\ screen.apdu.ins = "load_idl"
  BY <1>1, ScreenType DEF IInv
<1> HIDE DEF prepared
<1>5. CASE Answer(screen.apdu, "Ok", out)
  <2>1. out \in Outputs
    BY <1>3, LenProperties DEF Outputs
  <2>2. \A i \in (Len(exchanges) + 1)..Len(exchanges') :
          exchanges'[i] = [apdu |-> screen.apdu, sw |-> "Ok", out |-> out]
    BY <1>4, <1>5, <2>1, AnswerAppends DEF IInv, StatusWords
  <2>3. out # <<>> /\ out[1] = prepared.program_id /\ out[3] = Len(prepared.idl)
    BY DEF out
  <2>4. imported_idl'.program_id = prepared.program_id /\ imported_idl'.idl = prepared.idl
    BY <1>1 DEF StoredIdl
  <2> HIDE DEF out
  <2> QED
    BY <1>4, <2>2, <2>3, <2>4 DEF SignsShown, ImportAnswered, IsSignature, IsImport
<1>6. CASE exchanges' = Append(exchanges, [apdu |-> Restarted, sw |-> "Ok", out |-> <<>>])
  BY <1>6, RestartShape DEF IInv
<1> QED
  BY <1>1, <1>5, <1>6

LEMMA ShapeHistory ==
  ASSUME IInv, StepShape
  PROVE  SignsShown /\ ImportAnswered
BY SameHistory, RestartShape, QuietShape, ApproveMessageShape, ApproveImportShape
   DEF StepShape, Restart, IInv

(* Every signature is of the path and message on the review screen, under  *)
(* the IDL then in the slot, whatever came before.                         *)
THEOREM SignaturesAreShown == Spec => SignsOnlyWhatIsShown
<1>1. IInv /\ [Next]_vars => SignsShown
  BY NextShape, ShapeHistory
<1> QED
  BY <1>1, Invariance, PTL DEF Spec, SignsOnlyWhatIsShown

(* The answer to load-idl and the slot always agree.                       *)
THEOREM ImportAnswersAreTrue == Spec => ImportAnswerIsTrue
<1>1. IInv /\ [Next]_vars => ImportAnswered
  BY NextShape, ShapeHistory
<1> QED
  BY <1>1, Invariance, PTL DEF Spec, ImportAnswerIsTrue

(* The slot changes only as the user confirmed on the screen.              *)
THEOREM SlotIsConsented == Spec => SlotChangesByConsent
<1>1. IInv /\ [Next]_vars => SlotStep
  <2> SUFFICES ASSUME IInv, [Next]_vars, imported_idl' # imported_idl
               PROVE  SlotStep
    BY DEF SlotStep
  <2>1. ConfirmRemove \/ ApproveImport
    BY NextShape DEF StepShape, Restart, ApproveMessage
  <2>2. CASE ConfirmRemove
    BY <2>2 DEF ConfirmRemove, SlotStep
  <2>3. CASE ApproveImport
    <3> DEFINE prepared == prepare_idl_import(load_idl_context.payload)
    <3>1. /\ screen.name = "review_idl_import"
          /\ imported_idl' = StoredIdl(prepared)
      BY <2>3 DEF ApproveImport
    <3>2. /\ load_idl_context.payload \in Seq(Units)
          /\ prepared.sw = "Ok" /\ verify_attestations(prepared)
          /\ screen = ReviewImport(screen.apdu, prepared)
      BY <3>1 DEF IInv, TypeOK, Contexts, ReviewsAreCurrent, ImportReviewIsCurrent
    <3>3. Len(prepared.attestations) \in Nat
      BY <3>2, PrepareType
    <3> HIDE DEF prepared
    <3>4. /\ screen.program_id = prepared.program_id /\ screen.idl = prepared.idl
          /\ screen.signers = [k \in 1..Len(prepared.attestations) |->
                                 AttestationOf[prepared.attestations[k]].signer]
      BY <3>2 DEF ReviewImport
    <3>5. \A k \in 1..Len(prepared.attestations) :
            Attests(prepared.attestations[k], prepared.idl)
            /\ prepared.attestations[k] \in Attestations
      BY <3>2 DEF verify_attestations, Attests
    <3>6. Len(screen.signers) = Len(prepared.attestations)
      BY <3>3, <3>4
    <3>7. \A k \in 1..Len(screen.signers) : \E a \in Attestations :
            AttestationOf[a].signer = screen.signers[k] /\ Attests(a, screen.idl)
      BY <3>4, <3>5, <3>6
    <3> QED
      BY <3>1, <3>4, <3>7 DEF SlotStep, StoredIdl
  <2> QED
    BY <2>1, <2>2, <2>3
<1> QED
  BY <1>1, Invariance, PTL DEF Spec, SlotChangesByConsent

(* At no time does the device hold bytes of uploads of both commands.      *)
THEOREM OneUploadAtATime == Spec => []AtMostOneUpload
<1>1. Init => AtMostOneUpload
  BY DEF Init, AtMostOneUpload, ResetContext
<1>2. AtMostOneUpload /\ [Next]_vars => AtMostOneUpload'
  <2> SUFFICES ASSUME AtMostOneUpload, [Next]_vars PROVE AtMostOneUpload'
    OBVIOUS
  <2> USE DEF AtMostOneUpload, ResetContext, ForgetSign, ForgetLoadIdl
  <2>1. CASE Serve
    BY <2>1 DEF Serve, RefuseHeader, RefuseBrokenApdu, HandleGetAppConfig, HandleGetPubkey,
                HandleSignMessage, HandleLoadIdl, KeepOnly
  <2>2. CASE Decide
    BY <2>2 DEF Decide, ApproveAddress, RejectAddress, ApproveMessage, RejectMessage,
                ApproveImport, RejectImport
  <2>3. CASE Menu \/ Restart \/ UNCHANGED vars
    BY <2>3 DEF Menu, OpenSettings, CloseSettings, AskRemoval, ConfirmRemove, DeclineRemove,
                Restart, vars
  <2> QED
    BY <2>1, <2>2, <2>3 DEF Next
<1> QED
  BY <1>1, <1>2, PTL DEF Spec

(***************************************************************************)
(* The device implements Consent, for every value of its constants: the    *)
(* initial state maps to one, and every step to a step or to none.         *)
(***************************************************************************)

(* What a review asks for, and that nothing else does.                     *)
Asking == {"review_message", "review_idl_import", "review_address", "confirm_removal"}

(* The question before and after a step is the one of the screen.          *)
LEMMA QuestionIsOf == Question = QuestionOf(screen) /\ Question' = QuestionOf(screen')
BY DEF Question

(* The question of each screen, without its CASE.                          *)
LEMMA QuestionCases ==
  ASSUME NEW shown
  PROVE  /\ shown.name \notin Asking => QuestionOf(shown) = Nothing
         /\ shown.name = "review_message" => QuestionOf(shown) =
              [ask |-> "sign", path |-> shown.path, message |-> shown.message,
               explained |-> [program \in Programs |-> shown.decoded[program].source]]
         /\ shown.name = "review_idl_import" => QuestionOf(shown) =
              [ask |-> "install", idl |-> shown.idl, signers |-> shown.signers]
         /\ shown.name = "review_address" =>
              QuestionOf(shown) = [ask |-> "address", path |-> shown.path]
         /\ shown.name = "confirm_removal" => QuestionOf(shown) = [ask |-> "remove"]
BY DEF QuestionOf, Asking

(* A screen that waits for no decision asks nothing.                       *)
LEMMA WaitingAsksNothing ==
  ASSUME NEW shown \in {Home, LeftOver, Settings}
  PROVE  QuestionOf(shown) = Nothing
BY QuestionCases DEF Home, LeftOver, Settings, Asking

(* A review asks something.                                                *)
LEMMA AskingIsSomething ==
  ASSUME NEW shown, shown.name \in Asking
  PROVE  QuestionOf(shown) # Nothing
<1>1. QuestionOf(shown).ask # "nothing"
  BY QuestionCases DEF Asking
<1> QED
  BY <1>1 DEF Nothing

-----------------------------------------------------------------------------
(* A number of a range that starts at one is positive.                     *)
LEMMA Positive ==
  ASSUME NEW N \in Nat, NEW n \in 1..N
  PROVE  n \in Nat \ {0}
OBVIOUS

(* The two pieces of an import payload have the lengths it announces.      *)
LEMMA PieceLengths ==
  ASSUME NEW S, NEW s \in Seq(S), NEW count \in Nat \ {0}, NEW size \in Nat \ {0},
         Len(s) = 3 + count + size
  PROVE  /\ Len(SubSeq(s, 4, 3 + count)) = count
         /\ Len(SubSeq(s, 4 + count, Len(s))) = size
<1>1. /\ \A i \in 4..(3 + count) : s[i] \in S
      /\ \A i \in (4 + count)..Len(s) : s[i] \in S
  BY LenProperties
<1>2. Len(SubSeq(s, 4, 3 + count)) = (3 + count) - 4 + 1
  BY <1>1, SubSeqProperties
<1>3. Len(SubSeq(s, 4 + count, Len(s))) = Len(s) - (4 + count) + 1
  BY <1>1, SubSeqProperties
<1> QED
  BY <1>2, <1>3

(* What an upload announces of itself is within the limits of the device.  *)
LEMMA PrepareSizes ==
  ASSUME NEW payload \in Seq(Units), prepare_idl_import(payload).sw = "Ok"
  PROVE  LET prepared == prepare_idl_import(payload)
         IN  /\ Len(prepared.attestations) \in 1..MaxAttestations
             /\ Len(prepared.idl) \in 1..MaxImportedIdl
<1> DEFINE parsed == parse_import_payload(payload)
<1>1. parsed.sw = "Ok"
  BY DEF prepare_idl_import
<1>2. /\ payload[2] \in 1..MaxAttestations
      /\ payload[3] \in 1..MaxImportedIdl
      /\ Len(payload) = 3 + payload[2] + payload[3]
      /\ parsed.attestations = SubSeq(payload, 4, 3 + payload[2])
      /\ parsed.idl = SubSeq(payload, 4 + payload[2], Len(payload))
  BY <1>1 DEF parse_import_payload
<1>3. MaxAttestations \in Nat /\ MaxImportedIdl \in Nat
  BY ConstantsAssumption
<1>4. payload[2] \in Nat \ {0} /\ payload[3] \in Nat \ {0}
  BY <1>2, <1>3, Positive
<1>5. /\ Len(SubSeq(payload, 4, 3 + payload[2])) = payload[2]
      /\ Len(SubSeq(payload, 4 + payload[2], Len(payload))) = payload[3]
  <2> DEFINE count == payload[2]
             size  == payload[3]
  <2>1. /\ count \in Nat \ {0} /\ size \in Nat \ {0}
        /\ Len(payload) = 3 + count + size
    BY <1>2, <1>4
  <2> HIDE DEF count, size
  <2>2. /\ Len(SubSeq(payload, 4, 3 + count)) = count
        /\ Len(SubSeq(payload, 4 + count, Len(payload))) = size
    BY <2>1, PieceLengths
  <2> QED
    BY <2>2 DEF count, size
<1>6. Len(parsed.attestations) = payload[2]
  BY <1>2, <1>5
<1>7. Len(parsed.idl) = payload[3]
  BY <1>2, <1>5
<1>8. /\ prepare_idl_import(payload).attestations = parsed.attestations
      /\ prepare_idl_import(payload).idl = parsed.idl
  BY DEF prepare_idl_import
<1> QED
  BY <1>2, <1>6, <1>7, <1>8

(* The slot only ever holds what load_imported_idl does not turn down.     *)
SlotFits == imported_idl # NoImport => Len(imported_idl.idl) \in 1..MaxImportedIdl

RInv == IInv /\ SlotFits

(* Only an import fills the slot, with a text within the limits.           *)
LEMMA SlotFitsStep == RInv /\ [Next]_vars => SlotFits'
<1> SUFFICES ASSUME RInv, [Next]_vars PROVE SlotFits'
  OBVIOUS
<1>1. CASE UNCHANGED imported_idl
  BY <1>1 DEF RInv, SlotFits
<1>2. CASE ConfirmRemove
  BY <1>2 DEF ConfirmRemove, SlotFits
<1>3. CASE ApproveImport
  <2> DEFINE payload == load_idl_context.payload
             prepared == prepare_idl_import(payload)
  <2>1. screen.name = "review_idl_import" /\ imported_idl' = StoredIdl(prepared)
    BY <1>3 DEF ApproveImport
  <2>2. payload \in Seq(Units) /\ prepared.sw = "Ok"
    BY <2>1 DEF RInv, IInv, TypeOK, Contexts, ReviewsAreCurrent, ImportReviewIsCurrent
  <2>3. Len(prepared.idl) \in 1..MaxImportedIdl
    BY <2>2, PrepareSizes
  <2> HIDE DEF prepared
  <2> QED
    BY <2>1, <2>3 DEF SlotFits, StoredIdl
<1> QED
  BY <1>1, <1>2, <1>3, NextShape DEF RInv, StepShape, Restart, ApproveMessage

-----------------------------------------------------------------------------
(* What a new exchange gives to the host.                                  *)
LEMMA AppendReleases ==
  ASSUME TypeOK, NEW x \in Exchange, exchanges' = Append(exchanges, x)
  PROVE  Released' = Released \cup ({x.out} \ {<<>>})
<1>1. exchanges \in Seq(Exchange)
  BY DEF TypeOK, Exchange
<1>2. /\ Len(exchanges') = Len(exchanges) + 1 /\ Len(exchanges) \in Nat
      /\ exchanges'[Len(exchanges) + 1] = x
      /\ \A i \in 1..Len(exchanges) : exchanges'[i] = exchanges[i]
  BY <1>1, AppendProperties, LenProperties
<1>3. 1..Len(exchanges') = 1..Len(exchanges) \cup {Len(exchanges) + 1}
  BY <1>2
<1>4. {exchanges'[i].out : i \in 1..Len(exchanges')} =
        {exchanges[i].out : i \in 1..Len(exchanges)} \cup {x.out}
  BY <1>2, <1>3
<1> QED
  BY <1>4 DEF Released

(* An answer gives the host its data, and takes the question away.         *)
LEMMA AnswerReleases ==
  ASSUME TypeOK, NEW apdu \in Apdus, NEW sw \in StatusWords, NEW out \in Outputs,
         Answer(apdu, sw, out)
  PROVE  /\ Released' = Released \cup ({out} \ {<<>>})
         /\ Question' = Nothing
<1> DEFINE x == [apdu |-> apdu, sw |-> sw, out |-> out]
<1>1. x \in Exchange /\ exchanges' = Append(exchanges, x) /\ x.out = out
  BY DEF Exchange, Answer
<1>2. screen' \in {Home, LeftOver}
  BY DEF Answer, ScreenAfter, Waiting
<1> HIDE DEF x
<1>3. Released' = Released \cup ({out} \ {<<>>})
  BY <1>1, AppendReleases
<1>4. Question' = Nothing
  BY <1>2, QuestionIsOf, WaitingAsksNothing
<1> QED
  BY <1>3, <1>4

(* A step of the abstract wallet, or none.                                 *)
Kept == [Promise!Next]_(Promise!vars)

(* Whatever was asked is withdrawn, and nothing is given.                  *)
LEMMA WithdrawStep ==
  ASSUME Question' = Nothing, UNCHANGED imported_idl, Released' = Released
  PROVE  Kept
<1>1. InstalledIdl' = InstalledIdl
  BY DEF InstalledIdl
<1>2. CASE Question = Nothing
  BY <1>1, <1>2 DEF Kept, Promise!vars
<1>3. CASE Question # Nothing
  <2>1. Promise!Withdraw
    BY <1>1, <1>3 DEF Promise!Withdraw, Promise!Nothing, Nothing
  <2> QED
    BY <2>1 DEF Kept, Promise!Next
<1> QED
  BY <1>2, <1>3

(* An answer without data.                                                 *)
LEMMA EmptyAnswerStep ==
  ASSUME TypeOK, UNCHANGED imported_idl,
         NEW apdu \in Apdus, NEW sw \in StatusWords, Answer(apdu, sw, <<>>)
  PROVE  Kept
BY AnswerReleases, NoOutput, WithdrawStep

(* A restart withdraws the question.                                       *)
LEMMA RestartKeeps == TypeOK /\ Restart => Kept
<1> SUFFICES ASSUME TypeOK, Restart PROVE Kept
  OBVIOUS
<1> DEFINE x == [apdu |-> Restarted, sw |-> "Ok", out |-> <<>>]
<1>1. x \in Exchange /\ exchanges' = Append(exchanges, x) /\ x.out = <<>>
  BY ApduType, NoOutput DEF Exchange, StatusWords, Restart
<1> HIDE DEF x
<1>2. Released' = Released
  BY <1>1, AppendReleases
<1>3. Question' = Nothing
  BY QuestionIsOf, WaitingAsksNothing DEF Restart
<1> QED
  BY <1>2, <1>3, WithdrawStep DEF Restart

(* The menu asks for the removal, and removes.                             *)
LEMMA MenuKeeps == RInv /\ Menu => Kept
<1> SUFFICES ASSUME RInv, Menu PROVE Kept
  OBVIOUS
<1>1. Released' = Released
  BY DEF Menu, OpenSettings, CloseSettings, AskRemoval, ConfirmRemove, DeclineRemove, Released
<1>2. CASE OpenSettings \/ CloseSettings \/ DeclineRemove
  <2>1. screen' \in {Home, Settings} /\ UNCHANGED imported_idl
    BY <1>2 DEF OpenSettings, CloseSettings, DeclineRemove
  <2> QED
    BY <1>1, <2>1, QuestionIsOf, WaitingAsksNothing, WithdrawStep
<1>3. CASE AskRemoval
  <2>1. screen = Settings /\ screen' = ConfirmRemoval /\ imported_idl # NoImport
        /\ UNCHANGED imported_idl
    BY <1>3 DEF AskRemoval, load_imported_idl, NoImport
  <2>2. InstalledIdl # Nothing /\ InstalledIdl' = InstalledIdl
    BY <2>1 DEF InstalledIdl, Nothing
  <2>3. Question = Nothing
    BY <2>1, QuestionIsOf, WaitingAsksNothing
  <2>4. Question' = [ask |-> "remove"]
    BY <2>1, QuestionIsOf, QuestionCases DEF ConfirmRemoval
  <2>5. Promise!AskRemoval
    BY <1>1, <2>2, <2>3, <2>4 DEF Promise!AskRemoval, Promise!Ask, Promise!Nothing, Nothing
  <2> QED
    BY <2>5 DEF Kept, Promise!Next
<1>4. CASE ConfirmRemove
  <2>1. screen = ConfirmRemoval /\ screen' = Settings /\ imported_idl' = NoImport
    BY <1>4 DEF ConfirmRemove
  <2>2. Question.ask = "remove"
    BY <2>1, QuestionIsOf, QuestionCases DEF ConfirmRemoval
  <2>3. Question' = Nothing
    BY <2>1, QuestionIsOf, WaitingAsksNothing
  <2>4. InstalledIdl' = Nothing
    BY <2>1 DEF InstalledIdl
  <2>5. Promise!Remove
    BY <1>1, <2>2, <2>3, <2>4 DEF Promise!Remove, Promise!Nothing, Nothing
  <2> QED
    BY <2>5 DEF Kept, Promise!Next
<1> QED
  BY <1>2, <1>3, <1>4 DEF Menu

-----------------------------------------------------------------------------
(* A handler starts when nothing is asked.                                 *)
LEMMA ServesWhenIdle == CanServe => Question = Nothing
BY QuestionIsOf, WaitingAsksNothing DEF CanServe, Waiting

(* A step that opens a review.                                             *)
LEMMA AskStep ==
  ASSUME UNCHANGED <<imported_idl, exchanges>>
  PROVE  UNCHANGED <<InstalledIdl, Released>>
BY DEF InstalledIdl, Released

(* A public key is given, or the address is asked about first.             *)
LEMMA GetPubkeyKeeps == IInv /\ HandleGetPubkey => Kept
<1> SUFFICES ASSUME IInv, HandleGetPubkey PROVE Kept
  OBVIOUS
<1>1. Question = Nothing /\ UNCHANGED imported_idl
  BY ServesWhenIdle, HandleGetPubkeyCases DEF HandleGetPubkey
<1>2. ASSUME NEW apdu \in Apdus, NEW sw \in StatusWords, NEW path \in Paths,
             Answer(apdu, sw, <<path>>)
      PROVE  Kept
  <2>1. <<path>> \in Outputs /\ <<path>> # <<>>
    BY DEF Outputs
  <2>2. Released' = Released \cup {<<path>>} /\ Question' = Nothing
    BY <1>2, <2>1, AnswerReleases DEF IInv
  <2>3. InstalledIdl' = InstalledIdl
    BY <1>1 DEF InstalledIdl
  <2>4. Promise!GivePubkey
    BY <1>1, <2>2, <2>3 DEF Promise!GivePubkey, Promise!Nothing, Nothing
  <2> QED
    BY <2>4 DEF Kept, Promise!Next
<1>3. ASSUME NEW apdu, NEW path \in Paths, screen' = ReviewAddress(apdu, path),
             UNCHANGED exchanges
      PROVE  Kept
  <2>1. screen'.name = "review_address" /\ screen'.path = path
    BY <1>3 DEF ReviewAddress
  <2>2. Question' = [ask |-> "address", path |-> path]
    BY <2>1, QuestionIsOf, QuestionCases
  <2>3. Promise!AskAddress
    BY <1>1, <1>3, <2>2, AskStep DEF Promise!AskAddress, Promise!Ask, Promise!Nothing, Nothing
  <2> QED
    BY <2>3 DEF Kept, Promise!Next
<1> QED
  BY <1>1, <1>2, <1>3, HandleGetPubkeyCases, EmptyAnswerStep DEF PubkeyOutputs, IInv

(* The address on the screen is given, or withdrawn.                       *)
LEMMA AddressKeeps == IInv /\ (ApproveAddress \/ RejectAddress) => Kept
<1> SUFFICES ASSUME IInv, ApproveAddress \/ RejectAddress PROVE Kept
  OBVIOUS
<1>1. /\ screen.name = "review_address" /\ UNCHANGED imported_idl
      /\ screen.apdu \in Apdus /\ screen.path \in Paths /\ TypeOK
  BY ScreenType DEF ApproveAddress, RejectAddress, IInv
<1>2. CASE RejectAddress
  BY <1>1, <1>2, EmptyAnswerStep DEF RejectAddress, StatusWords
<1>3. CASE ApproveAddress
  <2>1. <<screen.path>> \in Outputs /\ <<screen.path>> # <<>>
    BY <1>1 DEF Outputs
  <2>2. Released' = Released \cup {<<screen.path>>} /\ Question' = Nothing
    <3>1. Answer(screen.apdu, "Ok", <<screen.path>>)
      BY <1>3 DEF ApproveAddress
    <3>2. "Ok" \in StatusWords
      BY DEF StatusWords
    <3>3. /\ Released' = Released \cup ({<<screen.path>>} \ {<<>>})
          /\ Question' = Nothing
      BY <1>1, <2>1, <3>1, <3>2, AnswerReleases
    <3> QED
      BY <2>1, <3>3
  <2>3. InstalledIdl' = InstalledIdl
    BY <1>1 DEF InstalledIdl
  <2>4. Question = [ask |-> "address", path |-> screen.path]
    BY <1>1, QuestionIsOf, QuestionCases
  <2>5. Promise!GiveAddress
    BY <2>2, <2>3, <2>4 DEF Promise!GiveAddress, Promise!Nothing, Nothing
  <2> QED
    BY <2>5 DEF Kept, Promise!Next
<1> QED
  BY <1>2, <1>3

-----------------------------------------------------------------------------
(* The wallet explains a program as the device does.                       *)
LEMMA ExplainedAlike ==
  ASSUME RInv, NEW program \in Programs
  PROVE  Promise!Explained(program) = decode_instruction(program).source
<1>1. CASE imported_idl = NoImport
  <2>1. InstalledIdl = Nothing /\ load_imported_idl = {}
    BY <1>1 DEF InstalledIdl, load_imported_idl, NoImport
  <2> QED
    BY <2>1 DEF Promise!Explained, Promise!Nothing, Nothing, decode_instruction
<1>2. CASE imported_idl # NoImport
  <2>1. load_imported_idl = {imported_idl}
    BY <1>2 DEF RInv, IInv, TypeOK, SlotAttested, SlotFits, load_imported_idl
  <2>2. /\ InstalledIdl.program_id = imported_idl.program_id
        /\ InstalledIdl.ask = "installed"
    BY <1>2 DEF InstalledIdl
  <2>3. InstalledIdl # Nothing
    BY <2>2 DEF Nothing
  <2> QED
    BY <2>1, <2>2, <2>3 DEF Promise!Explained, Promise!Nothing, Nothing, decode_instruction
<1> QED
  BY <1>1, <1>2

(* The review of a message is the question about it.                       *)
LEMMA AskSignatureKeeps ==
  ASSUME RInv, Question = Nothing, UNCHANGED <<imported_idl, exchanges>>,
         NEW apdu, NEW parsed, parsed.path \in Paths, parsed.message \in Reviewable,
         screen' = ReviewMessage(apdu, parsed)
  PROVE  Kept
<1>1. /\ screen'.name = "review_message"
      /\ screen'.path = parsed.path /\ screen'.message = parsed.message
      /\ screen'.decoded = [program \in Programs |-> decode_instruction(program)]
  BY DEF ReviewMessage
<1> DEFINE explained == [program \in Programs |-> Promise!Explained(program)]
<1>2. [program \in Programs |-> screen'.decoded[program].source] = explained
  BY <1>1, ExplainedAlike
<1>3. Question' = [ask |-> "sign", path |-> parsed.path, message |-> parsed.message,
                   explained |-> explained]
  BY <1>1, <1>2, QuestionIsOf, QuestionCases
<1>4. Promise!AskSignature
  BY <1>3, AskStep DEF Promise!AskSignature, Promise!Ask, Promise!Nothing, Nothing
<1> QED
  BY <1>4 DEF Kept, Promise!Next

(* A chunk of a message changes nothing, or brings up the question.        *)
LEMMA HandleSignMessageKeeps == RInv /\ HandleSignMessage => Kept
<1> SUFFICES ASSUME RInv, HandleSignMessage PROVE Kept
  OBVIOUS
<1>1. IInv /\ TypeOK /\ Question = Nothing
  BY ServesWhenIdle DEF HandleSignMessage, RInv, IInv
<1>2. PICK apdu \in ApdusOf("sign"), ctx \in Contexts(Units) :
        SignPayload(apdu, ctx) \/ \E sw \in StatusWords : Answer(apdu, sw, <<>>)
  BY <1>1, HandleSignMessageCases
<1>3. UNCHANGED imported_idl /\ apdu \in Apdus
  BY <1>1, HandleSignMessageCases DEF ApdusOf
<1> DEFINE parsed == parse_sign_payload(ctx.payload)
<1>4. /\ parsed.sw \in StatusWords
      /\ parsed.sw = "Ok" => parsed.path \in Paths
  BY ParseSignType DEF Contexts, StatusWords
<1>5. \/ \E sw \in StatusWords : Answer(apdu, sw, <<>>)
      \/ /\ parsed.sw = "Ok" /\ parsed.message \in Reviewable
         /\ screen' = ReviewMessage(apdu, parsed) /\ UNCHANGED exchanges
  BY <1>2, <1>4 DEF SignPayload, StatusWords
<1> HIDE DEF parsed
<1> QED
  BY <1>1, <1>3, <1>4, <1>5, EmptyAnswerStep, AskSignatureKeeps

(* A signature is given for the message of the question.                   *)
LEMMA ApproveMessageKeeps == IInv /\ ApproveMessage => Kept
<1> SUFFICES ASSUME IInv, ApproveMessage PROVE Kept
  OBVIOUS
<1> DEFINE parsed == parse_sign_payload(sign_context.payload)
<1>1. /\ screen.name = "review_message" /\ UNCHANGED imported_idl /\ TypeOK
      /\ \/ Answer(screen.apdu, "Ok", <<parsed.path, parsed.message>>)
         \/ \E sw \in {"KeyDeriveFail", "ConditionsNotSatisfied"} : Answer(screen.apdu, sw, <<>>)
  BY DEF ApproveMessage, IInv
<1>2. /\ screen.path = parsed.path /\ screen.message = parsed.message /\ parsed.sw = "Ok"
  BY <1>1 DEF IInv, ReviewsAreCurrent, MessageReviewIsCurrent
<1>3. parsed.path \in Paths /\ parsed.message \in Seq(Units)
  BY <1>2, ParseSignType DEF IInv, TypeOK, Contexts
<1>4. screen.apdu \in Apdus
  BY <1>1, ScreenType
<1> HIDE DEF parsed
<1>5. CASE Answer(screen.apdu, "Ok", <<parsed.path, parsed.message>>)
  <2> DEFINE out == <<parsed.path, parsed.message>>
  <2>1. out \in Outputs /\ out # <<>>
    BY <1>3 DEF Outputs
  <2>2. Answer(screen.apdu, "Ok", out)
    BY <1>5
  <2>3. out = <<screen.path, screen.message>>
    BY <1>2
  <2> HIDE DEF out
  <2>4. Released' = Released \cup {out} /\ Question' = Nothing
    <3>1. "Ok" \in StatusWords
      BY DEF StatusWords
    <3>2. Released' = Released \cup ({out} \ {<<>>}) /\ Question' = Nothing
      BY <1>1, <1>4, <2>1, <2>2, <3>1, AnswerReleases
    <3> QED
      BY <2>1, <3>2
  <2>5. InstalledIdl' = InstalledIdl
    BY <1>1 DEF InstalledIdl
  <2>6. /\ Question.ask = "sign"
        /\ Question.path = screen.path /\ Question.message = screen.message
    BY <1>1, QuestionIsOf, QuestionCases
  <2>7. Promise!Sign
    BY <2>3, <2>4, <2>5, <2>6 DEF Promise!Sign, Promise!Nothing, Nothing
  <2> QED
    BY <2>7 DEF Kept, Promise!Next
<1>6. CASE \E sw \in {"KeyDeriveFail", "ConditionsNotSatisfied"} : Answer(screen.apdu, sw, <<>>)
  BY <1>1, <1>4, <1>6, EmptyAnswerStep DEF StatusWords
<1> QED
  BY <1>1, <1>5, <1>6

(* A rejection withdraws the question.                                     *)
LEMMA RejectKeeps == IInv /\ (RejectMessage \/ RejectImport) => Kept
<1> SUFFICES ASSUME IInv, RejectMessage \/ RejectImport PROVE Kept
  OBVIOUS
<1>1. /\ UNCHANGED imported_idl /\ Answer(screen.apdu, "Deny", <<>>)
      /\ TypeOK /\ screen.apdu \in Apdus
  BY ScreenType DEF RejectMessage, RejectImport, IInv
<1> QED
  BY <1>1, EmptyAnswerStep DEF StatusWords

-----------------------------------------------------------------------------
(* Signers on the screen are ones that the abstract wallet may name.       *)
LEMMA SignersAttest ==
  ASSUME NEW payload \in Seq(Units),
         prepare_idl_import(payload).sw = "Ok",
         verify_attestations(prepare_idl_import(payload))
  PROVE  LET prepared == prepare_idl_import(payload)
             signers  == [k \in 1..Len(prepared.attestations) |->
                            AttestationOf[prepared.attestations[k]].signer]
         IN  /\ prepared.idl \in DOMAIN ProgramOf
             /\ prepared.program_id = ProgramOf[prepared.idl]
             /\ Len(prepared.attestations) \in 1..MaxAttestations
             /\ Len(signers) = Len(prepared.attestations)
             /\ \A k \in 1..Len(prepared.attestations) :
                  <<signers[k], prepared.idl>> \in AttestedBy
<1> DEFINE prepared == prepare_idl_import(payload)
           n == Len(prepared.attestations)
           signers == [k \in 1..n |-> AttestationOf[prepared.attestations[k]].signer]
<1>1. /\ prepared.idl \in DOMAIN ProgramOf
      /\ prepared.program_id = ProgramOf[prepared.idl]
      /\ n \in 1..MaxAttestations /\ n \in Nat
  BY PrepareType, PrepareSizes
<1>2. \A k \in 1..n : /\ prepared.attestations[k] \in Attestations
                      /\ Attests(prepared.attestations[k], prepared.idl)
  BY DEF verify_attestations, Attests
<1> HIDE DEF prepared
<1>3. \A k \in 1..n : /\ signers[k] \in Signers
                      /\ \E a \in Attestations : /\ AttestationOf[a].signer = signers[k]
                                                /\ Attests(a, prepared.idl)
  BY <1>2 DEF Signers
<1>4. \A k \in 1..n : <<signers[k], prepared.idl>> \in AttestedBy
  BY <1>1, <1>3 DEF AttestedBy
<1>5. Len(signers) = n
  BY <1>1
<1> QED
  BY <1>1, <1>4, <1>5 DEF prepared

(* The review of an import is the question about it.                       *)
LEMMA AskInstallKeeps ==
  ASSUME Question = Nothing, UNCHANGED <<imported_idl, exchanges>>,
         NEW payload \in Seq(Units), NEW apdu,
         prepare_idl_import(payload).sw = "Ok",
         verify_attestations(prepare_idl_import(payload)),
         screen' = ReviewImport(apdu, prepare_idl_import(payload))
  PROVE  Kept
<1> DEFINE prepared == prepare_idl_import(payload)
           n == Len(prepared.attestations)
           signers == [k \in 1..n |-> AttestationOf[prepared.attestations[k]].signer]
           idl == prepared.idl
<1>1. screen'.name = "review_idl_import" /\ screen'.idl = idl /\ screen'.signers = signers
  BY DEF ReviewImport
<1>2. /\ idl \in DOMAIN ProgramOf /\ n \in 1..MaxAttestations
      /\ \A k \in 1..n : <<signers[k], idl>> \in AttestedBy
  BY SignersAttest
<1>3. DOMAIN signers = 1..n /\ signers = [k \in 1..n |-> signers[k]]
  OBVIOUS
<1> HIDE DEF n, signers, idl
<1>4. \A k \in 1..n : signers[k] \in {pair[1] : pair \in AttestedBy}
  <2> TAKE k \in 1..n
  <2>1. <<signers[k], idl>>[1] = signers[k]
    OBVIOUS
  <2> QED
    BY <1>2, <2>1
<1>5. signers \in [1..n -> {pair[1] : pair \in AttestedBy}]
  BY <1>3, <1>4
<1>6. Question' = [ask |-> "install", idl |-> idl, signers |-> signers]
  BY <1>1, QuestionIsOf, QuestionCases
<1>7. Promise!Ask([ask |-> "install", idl |-> idl, signers |-> signers])
  BY <1>6, AskStep DEF Promise!Ask, Promise!Nothing, Nothing
<1>8. Promise!AskInstall
  BY <1>2, <1>5, <1>7 DEF Promise!AskInstall
<1> QED
  BY <1>8 DEF Kept, Promise!Next

(* A chunk of an import changes nothing, or brings up the question.        *)
LEMMA HandleLoadIdlKeeps == RInv /\ HandleLoadIdl => Kept
<1> SUFFICES ASSUME RInv, HandleLoadIdl PROVE Kept
  OBVIOUS
<1>1. IInv /\ TypeOK /\ Question = Nothing
  BY ServesWhenIdle DEF HandleLoadIdl, RInv, IInv
<1>2. PICK apdu \in ApdusOf("load_idl"), ctx \in Contexts(Units) :
        ImportPayload(apdu, ctx) \/ \E sw \in StatusWords : Answer(apdu, sw, <<>>)
  BY <1>1, HandleLoadIdlCases
<1>3. UNCHANGED imported_idl /\ apdu \in Apdus /\ ctx.payload \in Seq(Units)
  BY <1>1, HandleLoadIdlCases DEF ApdusOf, Contexts
<1> DEFINE prepared == prepare_idl_import(ctx.payload)
<1>4. prepared.sw \in StatusWords
  BY <1>3, PrepareType DEF StatusWords
<1>5. \/ \E sw \in StatusWords : Answer(apdu, sw, <<>>)
      \/ /\ prepared.sw = "Ok" /\ verify_attestations(prepared)
         /\ screen' = ReviewImport(apdu, prepared) /\ UNCHANGED exchanges
  BY <1>2, <1>4 DEF ImportPayload, StatusWords
<1> QED
  BY <1>1, <1>3, <1>5, EmptyAnswerStep, AskInstallKeeps

(* The IDL of the question is installed, answered or not.                  *)
LEMMA ApproveImportKeeps == IInv /\ ApproveImport => Kept
<1> SUFFICES ASSUME IInv, ApproveImport PROVE Kept
  OBVIOUS
<1> DEFINE payload == load_idl_context.payload
           prepared == prepare_idl_import(payload)
           n == Len(prepared.attestations)
           signers == [k \in 1..n |-> AttestationOf[prepared.attestations[k]].signer]
           idl == prepared.idl
           out == <<prepared.program_id, n, Len(idl)>>
           x == [apdu |-> Restarted, sw |-> "Ok", out |-> <<>>]
<1>1. /\ screen.name = "review_idl_import" /\ imported_idl' = StoredIdl(prepared)
      /\ \/ Answer(screen.apdu, "Ok", out)
         \/ exchanges' = Append(exchanges, x) /\ screen' = Home
  BY DEF ApproveImport
<1>2. /\ TypeOK /\ payload \in Seq(Units) /\ prepared.sw = "Ok"
      /\ verify_attestations(prepared) /\ screen = ReviewImport(screen.apdu, prepared)
      /\ screen.apdu \in Apdus
  BY <1>1, ScreenType DEF IInv, TypeOK, Contexts, ReviewsAreCurrent, ImportReviewIsCurrent
<1>3. screen.idl = idl /\ screen.signers = signers
  BY <1>2 DEF ReviewImport
<1>4. /\ prepared.program_id = ProgramOf[idl] /\ Len(signers) = n
      /\ idl \in Seq(Units) /\ prepared.program_id \in Programs /\ n \in Nat
  BY <1>2, SignersAttest, PrepareType, ConstantsAssumption
<1>5. Question = [ask |-> "install", idl |-> idl, signers |-> signers]
  BY <1>1, <1>3, QuestionIsOf, QuestionCases
<1>6. InstalledIdl' = [ask |-> "installed", program_id |-> ProgramOf[idl], idl |-> idl]
  BY <1>1, <1>4 DEF StoredIdl, NoImport, InstalledIdl
<1>7. out \in Outputs /\ out # <<>> /\ out = <<ProgramOf[idl], Len(signers), Len(idl)>>
  BY <1>4, LenProperties DEF Outputs
<1>8. x \in Exchange /\ x.out = <<>>
  BY ApduType, NoOutput DEF Exchange, StatusWords
<1> HIDE DEF payload, prepared, n, signers, idl, out, x
<1>9. /\ Released' = Released \cup {out} \/ Released' = Released
      /\ Question' = Nothing
  <2>1. CASE Answer(screen.apdu, "Ok", out)
    <3>1. Released' = Released \cup ({out} \ {<<>>}) /\ Question' = Nothing
      <4>1. "Ok" \in StatusWords
        BY DEF StatusWords
      <4> QED
        BY <1>2, <1>7, <2>1, <4>1, AnswerReleases
    <3> QED
      BY <1>7, <3>1
  <2>2. CASE exchanges' = Append(exchanges, x) /\ screen' = Home
    <3>1. Released' = Released \cup ({x.out} \ {<<>>})
      BY <1>2, <1>8, <2>2, AppendReleases
    <3>2. Question' = Nothing
      BY <2>2, QuestionIsOf, WaitingAsksNothing
    <3> QED
      BY <1>8, <3>1, <3>2
  <2> QED
    BY <1>1, <2>1, <2>2
<1>10. Question.ask = "install" /\ Question.idl = idl /\ Question.signers = signers
  BY <1>5
<1>11. Promise!Install
  BY <1>6, <1>7, <1>9, <1>10 DEF Promise!Install, Promise!Installed, Promise!Nothing, Nothing
<1> QED
  BY <1>11 DEF Kept, Promise!Next

-----------------------------------------------------------------------------
(* Whatever APDU arrives, the device does what the wallet may do.          *)
LEMMA ServeKeeps == RInv /\ Serve => Kept
<1> SUFFICES ASSUME RInv, Serve PROVE Kept
  OBVIOUS
<1>1. IInv /\ TypeOK
  BY DEF RInv, IInv
<1>2. CASE RefuseHeader
  BY <1>1, <1>2, ApduType, EmptyAnswerStep DEF RefuseHeader, StatusWords
<1>3. CASE RefuseBrokenApdu
  BY <1>1, <1>3, ApduType, EmptyAnswerStep DEF RefuseBrokenApdu, StatusWords
<1>4. CASE HandleGetAppConfig
  BY <1>1, <1>4, ApduType, EmptySeq, EmptyAnswerStep
     DEF HandleGetAppConfig, StatusWords, Instructions
<1> QED
  BY <1>1, <1>2, <1>3, <1>4, GetPubkeyKeeps, HandleSignMessageKeeps, HandleLoadIdlKeeps DEF Serve

(* Every step of the device is a step of the wallet, or none.              *)
LEMMA NextKeeps == RInv /\ [Next]_vars => Kept
<1> SUFFICES ASSUME RInv, [Next]_vars PROVE Kept
  OBVIOUS
<1>1. IInv /\ TypeOK
  BY DEF RInv, IInv
<1>2. CASE UNCHANGED vars
  BY <1>2 DEF vars, Kept, Promise!vars, Question, InstalledIdl, Released
<1>3. CASE Decide
  BY <1>1, <1>3, AddressKeeps, ApproveMessageKeeps, RejectKeeps, ApproveImportKeeps DEF Decide
<1> QED
  BY <1>1, <1>2, <1>3, ServeKeeps, MenuKeeps, RestartKeeps DEF Next

(* The device starts as the wallet does.                                   *)
LEMMA InitKeeps == Init => Promise!Init /\ SlotFits
<1> SUFFICES ASSUME Init PROVE Promise!Init /\ SlotFits
  OBVIOUS
<1>1. Question = Nothing
  BY QuestionIsOf, WaitingAsksNothing DEF Init
<1>2. Released = {}
  BY DEF Init, Released
<1>3. InstalledIdl = Nothing /\ SlotFits
  BY DEF Init, InstalledIdl, SlotFits
<1> QED
  BY <1>1, <1>2, <1>3 DEF Promise!Init, Promise!Nothing, Nothing

(* Whatever chunks, commands, refusals, losses of power and presses come,  *)
(* in any number: the device changes its question, its slot and what the   *)
(* host was given only as the abstract wallet does.                        *)
THEOREM DeviceKeepsPromise == Spec => KeepsPromise
<1>1. Init => RInv /\ Promise!Init
  BY InitIInv, InitKeeps DEF RInv
<1>2. RInv /\ [Next]_vars => RInv'
  BY NextStep, SlotFitsStep DEF RInv
<1>3. RInv /\ [Next]_vars => [Promise!Next]_(Promise!vars)
  BY NextKeeps DEF Kept
<1> QED
  BY <1>1, <1>2, <1>3, PTL DEF Spec, KeepsPromise, Promise!Spec

-----------------------------------------------------------------------------
(* Looking back over the exchanges.                                        *)

(* Nothing is the concatenation of no pieces.                              *)
LEMMA NoPieces == IsConcat(<<>>, <<>>)
<1> DEFINE cut == [k \in 0..0 |-> 0]
<1>1. Len(<<>>) = 0 /\ 1..0 = {}
  BY EmptySeq
<1>2. cut \in [0..0 -> 0..0] /\ cut[0] = 0
  OBVIOUS
<1> HIDE DEF cut
<1>3. \E c \in [0..0 -> 0..0] : c[0] = 0
  BY <1>2
<1> QED
  BY <1>1, <1>3 DEF IsConcat

(* One more piece at the end.                                              *)
LEMMA OneMorePiece ==
  ASSUME NEW S, NEW payload \in Seq(S), NEW pieces \in Seq(Seq(S)), NEW piece \in Seq(S),
         IsConcat(payload, pieces)
  PROVE  IsConcat(payload \o piece, Append(pieces, piece))
<1> DEFINE n == Len(pieces)
           whole == payload \o piece
           all == Append(pieces, piece)
<1>1. PICK cut \in [0..n -> 0..Len(payload)] :
        /\ cut[0] = 0 /\ cut[n] = Len(payload)
        /\ \A k \in 1..n : /\ cut[k-1] <= cut[k]
                           /\ pieces[k] = SubSeq(payload, cut[k-1] + 1, cut[k])
  BY DEF IsConcat
<1>2. /\ n \in Nat /\ Len(all) = n + 1 /\ all[n + 1] = piece
      /\ \A k \in 1..n : all[k] = pieces[k]
  BY AppendProperties, LenProperties
<1>3. /\ whole \in Seq(S) /\ Len(payload) \in Nat /\ Len(piece) \in Nat
      /\ Len(whole) = Len(payload) + Len(piece)
      /\ \A i \in 1..Len(piece) : whole[Len(payload) + i] = piece[i]
  BY ConcatIs
<1> DEFINE longer == [k \in 0..(n + 1) |-> IF k <= n THEN cut[k] ELSE Len(whole)]
<1> HIDE DEF n, whole, all
<1>4. /\ longer \in [0..(n + 1) -> 0..Len(whole)]
      /\ longer[0] = 0 /\ longer[n + 1] = Len(whole)
      /\ \A k \in 0..n : longer[k] = cut[k]
  BY <1>1, <1>2, <1>3
<1> HIDE DEF longer
<1>5. ASSUME NEW k \in 1..n
      PROVE  longer[k-1] <= longer[k] /\ all[k] = SubSeq(whole, longer[k-1] + 1, longer[k])
  <2>1. k - 1 \in 0..n /\ k \in 0..n
    BY <1>2
  <2>2. cut[k-1] \in Nat /\ cut[k] \in 0..Len(payload)
    <3>1. cut[k-1] \in 0..Len(payload) /\ cut[k] \in 0..Len(payload)
      BY <1>1, <2>1
    <3> QED
      BY <1>3, <3>1
  <2>3. SubSeq(whole, cut[k-1] + 1, cut[k]) = SubSeq(payload, cut[k-1] + 1, cut[k])
    BY <2>2, PartOfFirst DEF whole
  <2> QED
    BY <1>1, <1>2, <1>4, <2>1, <2>3
<1>6. /\ longer[n] <= longer[n + 1]
      /\ all[n + 1] = SubSeq(whole, longer[n] + 1, longer[n + 1])
  <2>1. longer[n] = Len(payload) /\ longer[n + 1] = Len(payload) + Len(piece)
    BY <1>1, <1>2, <1>3, <1>4
  <2>2. SubSeq(whole, Len(payload) + 1, Len(payload) + Len(piece)) = piece
    <3> DEFINE m == Len(payload)
    <3>1. /\ m \in Nat /\ m + Len(piece) <= Len(whole)
          /\ \A i \in 1..Len(piece) : whole[m + i] = piece[i]
      BY <1>3
    <3> HIDE DEF m
    <3>2. SubSeq(whole, m + 1, m + Len(piece)) = piece
      BY <1>3, <3>1, PartIs
    <3> QED
      BY <3>2 DEF m
  <2> QED
    BY <1>2, <1>3, <2>1, <2>2
<1>7. \A k \in 1..(n + 1) :
        longer[k-1] <= longer[k] /\ all[k] = SubSeq(whole, longer[k-1] + 1, longer[k])
  <2> TAKE k \in 1..(n + 1)
  <2>1. CASE k \in 1..n
    BY <1>5, <2>1
  <2>2. CASE k = n + 1
    <3>1. k - 1 = n
      BY <1>2, <2>2
    <3> QED
      BY <1>6, <2>2, <3>1
  <2> QED
    BY <1>2, <2>1, <2>2
<1>8. IsConcat(whole, all)
  BY <1>2, <1>4, <1>7 DEF IsConcat
<1> QED
  BY <1>8 DEF whole, all

-----------------------------------------------------------------------------
(* An exchange is added to the history, and what was there stays.          *)
Adds(x) == x \in Exchange /\ exchanges' = Append(exchanges, x)

(* The history with one exchange more.                                     *)
LEMMA AddedExchange ==
  ASSUME TypeOK, NEW x, Adds(x)
  PROVE  /\ Len(exchanges) \in Nat /\ Len(exchanges') = Len(exchanges) + 1
         /\ exchanges \in Seq(Exchange) /\ exchanges' \in Seq(Exchange)
         /\ exchanges'[Len(exchanges) + 1] = x
         /\ \A i \in 1..Len(exchanges) : exchanges'[i] = exchanges[i]
BY AppendProperties, LenProperties DEF TypeOK, Exchange, Adds

(* The data of the exchanges is a sequence of sequences of units.          *)
LEMMA PiecesType ==
  ASSUME TypeOK, NEW j \in Nat \ {0}, NEW i \in Nat, j <= i + 1, i <= Len(exchanges)
  PROVE  /\ Pieces(j, i) \in Seq(Seq(Units)) /\ Len(Pieces(j, i)) = i - j + 1
         /\ \A k \in 1..(i - j + 1) : Pieces(j, i)[k] = exchanges[j + k - 1].apdu.data
<1>1. exchanges \in Seq(Exchange) /\ Len(exchanges) \in Nat
  BY LenProperties DEF TypeOK, Exchange
<1>2. ASSUME NEW k \in 1..(i - j + 1)
      PROVE  exchanges[j + k - 1].apdu.data \in Seq(Units)
  <2>1. j + k - 1 \in 1..Len(exchanges)
    BY <1>1
  <2>2. exchanges[j + k - 1] \in Exchange
    BY <1>1, <2>1, ElementOfSeq
  <2> QED
    BY <2>2 DEF Exchange, Apdus
<1>3. i - j + 1 \in Nat /\ Pieces(j, i) \in [1..(i - j + 1) -> Seq(Units)]
  <2>1. i - j + 1 \in Nat
    OBVIOUS
  <2>2. Pieces(j, i) = [k \in 1..(i - j + 1) |-> exchanges[j + k - 1].apdu.data]
    BY DEF Pieces
  <2> QED
    BY <1>2, <2>1, <2>2
<1>4. Pieces(j, i) \in Seq(Seq(Units)) /\ Len(Pieces(j, i)) = i - j + 1
  <2> DEFINE n == i - j + 1
             pieces == Pieces(j, i)
  <2>1. n \in Nat /\ pieces \in [1..n -> Seq(Units)]
    BY <1>3
  <2> HIDE DEF n, pieces
  <2>2. pieces \in Seq(Seq(Units)) /\ Len(pieces) = n
    BY <2>1, FunctionIsSeq
  <2> QED
    BY <2>2 DEF n, pieces
<1> QED
  BY <1>4 DEF Pieces

(* Pieces of the past stay, and the new exchange adds the last one.        *)
LEMMA PiecesGrow ==
  ASSUME TypeOK, TypeOK', NEW x, Adds(x), NEW n, n = Len(exchanges), NEW j \in 1..(n + 1)
  PROVE  Pieces(j, n + 1)' = Append(Pieces(j, n), x.apdu.data)
<1>1. /\ n \in Nat /\ Len(exchanges') = n + 1 /\ exchanges'[n + 1] = x
      /\ \A i \in 1..n : exchanges'[i] = exchanges[i]
  BY AddedExchange
<1> DEFINE old == Pieces(j, n)
           m == n - j + 1
<1>2. /\ m \in Nat /\ old \in Seq(Seq(Units)) /\ Len(old) = m
      /\ \A k \in 1..m : old[k] = exchanges[j + k - 1].apdu.data
  <2>1. j \in Nat \ {0} /\ j <= n + 1 /\ n <= Len(exchanges) /\ m \in Nat
    BY <1>1
  <2> QED
    BY <1>1, <2>1, PiecesType
<1>3. Pieces(j, n + 1)' = [k \in 1..(m + 1) |-> exchanges'[j + k - 1].apdu.data]
  BY <1>1 DEF Pieces
<1>4. \A k \in 1..m : exchanges'[j + k - 1] = exchanges[j + k - 1]
  BY <1>1
<1>5. j + (m + 1) - 1 = n + 1
  BY <1>1
<1> HIDE DEF old, m
<1>6. x.apdu.data \in Seq(Units)
  BY DEF Adds, Exchange, Apdus
<1>7. /\ Append(old, x.apdu.data) \in Seq(Seq(Units))
      /\ Len(Append(old, x.apdu.data)) = m + 1
      /\ Append(old, x.apdu.data)[m + 1] = x.apdu.data
      /\ \A k \in 1..m : Append(old, x.apdu.data)[k] = old[k]
  BY <1>2, <1>6, AppendProperties
<1>8. \A k \in 1..(m + 1) :
        exchanges'[j + k - 1].apdu.data = Append(old, x.apdu.data)[k]
  <2> TAKE k \in 1..(m + 1)
  <2>1. CASE k \in 1..m
    <3>1. exchanges'[j + k - 1] = exchanges[j + k - 1]
      BY <1>4, <2>1
    <3>2. old[k] = exchanges[j + k - 1].apdu.data
      BY <1>2, <2>1
    <3>3. Append(old, x.apdu.data)[k] = old[k]
      BY <1>7, <2>1
    <3> QED
      BY <3>1, <3>2, <3>3
  <2>2. CASE k = m + 1
    <3>1. exchanges'[j + k - 1] = x
      BY <1>1, <1>5, <2>2
    <3> QED
      BY <1>7, <2>2, <3>1
  <2>3. m \in Nat
    BY <1>2
  <2>4. k \in 1..m \/ k = m + 1
    BY <2>3
  <2> QED
    BY <2>1, <2>2, <2>4
<1>9. Append(old, x.apdu.data) = [k \in 1..(m + 1) |-> Append(old, x.apdu.data)[k]]
  BY <1>2, <1>7, LenProperties
<1> QED
  BY <1>3, <1>8, <1>9 DEF old

-----------------------------------------------------------------------------
(* The two commands that take an upload, and the review each one ends in.  *)
Uploading     == {"sign", "load_idl"}
Context(ins)  == IF ins = "sign" THEN sign_context ELSE load_idl_context
ReviewOf(ins) == IF ins = "sign" THEN "review_message" ELSE "review_idl_import"
Reviews       == {"review_address", "review_message", "review_idl_import"}

RefusedFirst(x, ins) ==
  Chunk(x, ins) /\ "extend" \notin x.apdu.p2 /\ x.sw = "WrongP1P2"

(* What a step does to the upload of a command: nothing; it gives it up;   *)
(* it answers an APDU the handler never saw; it takes one more chunk; it   *)
(* takes the last one and shows the review.                                *)
Keeps(ins) ==
  /\ UNCHANGED exchanges /\ Context(ins)' = Context(ins)
  /\ screen' = screen \/ screen'.name \notin Reviews

GivesUp(ins) ==
  /\ ~Context(ins)'.in_progress /\ screen'.name # ReviewOf(ins)
  /\ \/ UNCHANGED exchanges
     \/ \E x \in Exchange : Adds(x) /\ (RefusedFirst(x, ins) => Context(ins).in_progress)

Overlooks(ins) ==
  /\ \E x \in Exchange : Adds(x) /\ Unseen(x, ins) /\ ~x.apdu.whole /\ x.apdu.data = <<>>
  /\ Context(ins)' = Context(ins) /\ screen'.name \notin Reviews

TakesMore(ins) ==
  /\ \E x \in Exchange :
       /\ Adds(x) /\ Chunk(x, ins) /\ "more" \in x.apdu.p2
       /\ x.sw = "Ok" /\ x.out = <<>>
       /\ Context(ins).in_progress <=> "extend" \in x.apdu.p2
       /\ Context(ins)'.payload = Received(Context(ins)) \o x.apdu.data
  /\ screen'.name \notin Reviews

TakesLast(ins) ==
  /\ UNCHANGED exchanges /\ ~Context(ins)'.in_progress
  /\ screen'.name = ReviewOf(ins) /\ screen'.apdu \in Apdus
  /\ screen'.apdu.ins = ins /\ screen'.apdu.whole /\ "more" \notin screen'.apdu.p2
  /\ Context(ins).in_progress <=> "extend" \in screen'.apdu.p2
  /\ Context(ins)'.payload = Received(Context(ins)) \o screen'.apdu.data

UploadStep(ins) ==
  Keeps(ins) \/ GivesUp(ins) \/ Overlooks(ins) \/ TakesMore(ins) \/ TakesLast(ins)

(* While a review waits for the user, no upload goes on.                   *)
NoRunInReview ==
  screen.name \in Reviews => \A ins \in Uploading : ~Context(ins).in_progress

(* What an upload in progress holds came in one run of chunks.             *)
RunHeld(ins) ==
  Context(ins).in_progress =>
    \E j \in 1..Len(exchanges) :
      /\ IsRun(ins, j, Len(exchanges))
      /\ IsConcat(Context(ins).payload, Pieces(j, Len(exchanges)))

(* A review is of a run of chunks and the last one, not yet answered.      *)
UploadShown(ins) ==
  screen.name = ReviewOf(ins) =>
    /\ screen.apdu.ins = ins /\ screen.apdu.whole /\ "more" \notin screen.apdu.p2
    /\ \E j \in 1..(Len(exchanges) + 1) :
         /\ IF j = Len(exchanges) + 1
            THEN "extend" \notin screen.apdu.p2
            ELSE IsRun(ins, j, Len(exchanges)) /\ "extend" \in screen.apdu.p2
         /\ IsConcat(Context(ins).payload,
                     Append(Pieces(j, Len(exchanges)), screen.apdu.data))

(* A first chunk was not refused while the context still waits for more.   *)
RefusalClears(ins) ==
  Len(exchanges) > 0 /\ RefusedFirst(exchanges[Len(exchanges)], ins) =>
    ~Context(ins).in_progress

RefusedOnce(ins) ==
  \A i \in 1..(Len(exchanges) - 1) :
    ~(RefusedFirst(exchanges[i], ins) /\ RefusedFirst(exchanges[i + 1], ins))

HInv ==
  /\ IInv /\ NoRunInReview
  /\ \A ins \in Uploading :
       RunHeld(ins) /\ UploadShown(ins) /\ RefusalClears(ins) /\ RefusedOnce(ins)

(* The context of either command is well-formed.                           *)
LEMMA ContextType ==
  ASSUME TypeOK, NEW ins \in Uploading
  PROVE  Context(ins) \in Contexts(Units)
BY DEF TypeOK, Context

(* What happened stays: runs and uploads of the past keep being ones.      *)
LEMMA PastStays ==
  ASSUME NEW n \in Nat, \A k \in 1..n : exchanges'[k] = exchanges[k],
         NEW ins, NEW j \in Nat \ {0}, NEW i \in Nat, i <= n
  PROVE  /\ Pieces(j, i)' = Pieces(j, i)
         /\ j <= i => (IsRun(ins, j, i)' <=> IsRun(ins, j, i))
<1>1. \A k \in j..i : exchanges'[k] = exchanges[k]
  OBVIOUS
<1>2. \A k \in 1..(i - j + 1) :
        exchanges'[j + k - 1].apdu.data = exchanges[j + k - 1].apdu.data
  <2> TAKE k \in 1..(i - j + 1)
  <2>1. j + k - 1 \in j..i
    OBVIOUS
  <2> QED
    BY <1>1, <2>1
<1>3. Pieces(j, i)' = Pieces(j, i)
  <2>1. Pieces(j, i)' = [k \in 1..(i - j + 1) |-> exchanges'[j + k - 1].apdu.data]
    BY DEF Pieces
  <2>2. Pieces(j, i) = [k \in 1..(i - j + 1) |-> exchanges[j + k - 1].apdu.data]
    BY DEF Pieces
  <2> QED
    BY <1>2, <2>1, <2>2
<1>4. ASSUME j <= i PROVE IsRun(ins, j, i)' <=> IsRun(ins, j, i)
  <2>1. j \in j..i /\ \A k \in (j + 1)..i : k \in j..i
    BY <1>4
  <2> QED
    BY <1>1, <2>1 DEF IsRun, Chunk, Unseen
<1> QED
  BY <1>3, <1>4

(* A run goes on with an exchange the handler never saw, or a chunk.       *)
LEMMA RunGrows ==
  ASSUME NEW n \in Nat, NEW x, exchanges'[n + 1] = x,
         \A k \in 1..n : exchanges'[k] = exchanges[k],
         NEW ins, NEW j \in 1..n, IsRun(ins, j, n),
         \/ Unseen(x, ins) /\ ~Chunk(x, ins)
         \/ /\ Chunk(x, ins) /\ "extend" \in x.apdu.p2 /\ "more" \in x.apdu.p2
            /\ x.sw = "Ok" /\ x.out = <<>>
  PROVE  IsRun(ins, j, n + 1)'
<1>1. IsRun(ins, j, n)'
  BY PastStays
<1>2. /\ \A k \in (j + 1)..(n + 1) : k \in (j + 1)..n \/ k = n + 1
      /\ \A k \in j..(n + 1) : k \in j..n \/ k = n + 1
  OBVIOUS
<1> QED
  BY <1>1, <1>2 DEF IsRun, Chunk, Unseen

(* The first chunk is a run.                                               *)
LEMMA RunStarts ==
  ASSUME NEW n \in Nat, NEW x, exchanges'[n + 1] = x, NEW ins,
         Chunk(x, ins), "extend" \notin x.apdu.p2, "more" \in x.apdu.p2,
         x.sw = "Ok", x.out = <<>>
  PROVE  IsRun(ins, n + 1, n + 1)'
<1>1. (n + 2)..(n + 1) = {} /\ \A k \in (n + 1)..(n + 1) : k = n + 1
  OBVIOUS
<1> QED
  BY <1>1 DEF IsRun, Chunk

-----------------------------------------------------------------------------
(* What each step does to an upload.                                       *)

(* An answer in words: one exchange more, and a screen without a review.   *)
LEMMA AnswerAdds ==
  ASSUME IInv, Len(exchanges) < MaxExchanges,
         NEW apdu \in Apdus, NEW sw \in StatusWords, NEW out \in Outputs,
         Answer(apdu, sw, out)
  PROVE  /\ [apdu |-> apdu, sw |-> sw, out |-> out] \in Exchange
         /\ Adds([apdu |-> apdu, sw |-> sw, out |-> out])
         /\ screen'.name \notin Reviews
<1>1. [apdu |-> apdu, sw |-> sw, out |-> out] \in Exchange
  BY DEF Exchange
<1>2. screen' \in {Home, LeftOver}
  BY AnswerType DEF IInv
<1> QED
  BY <1>1, <1>2 DEF Adds, Answer, Home, LeftOver, Reviews

(* A review is no review of the other command.                             *)
LEMMA ReviewNames ==
  ASSUME NEW ins \in Uploading
  PROVE  ReviewOf(ins) \in Reviews
BY DEF ReviewOf, Reviews, Uploading

(* Commands that keep only their own context drop the one of an upload.    *)
LEMMA KeepOnlyDrops ==
  ASSUME NEW ins \in Uploading, NEW other, KeepOnly(other)
  PROVE  IF other = ins THEN Context(ins)' = Context(ins) ELSE ~Context(ins)'.in_progress
BY DEF KeepOnly, ForgetSign, ForgetLoadIdl, ResetContext, Context, Uploading

(* A refused header leaves every upload alone.                             *)
LEMMA HeaderUpload ==
  ASSUME IInv, RefuseHeader, NEW ins \in Uploading
  PROVE  Overlooks(ins)
<1>1. PICK sw \in {"WrongP1P2", "InsNotSupported"} : Answer(BadHeader, sw, <<>>)
  BY DEF RefuseHeader
<1>2. sw \in StatusWords /\ BadHeader \in Apdus /\ BadHeader.ins = "bad_header"
      /\ ~BadHeader.whole /\ BadHeader.data = <<>>
  BY ApduType DEF StatusWords, BadHeader, BrokenApdu
<1>3. Context(ins)' = Context(ins) /\ Len(exchanges) < MaxExchanges
  BY DEF RefuseHeader, Context, CanServe
<1> DEFINE x == [apdu |-> BadHeader, sw |-> sw, out |-> <<>>]
<1>4. x \in Exchange /\ Adds(x) /\ screen'.name \notin Reviews
  BY <1>1, <1>2, <1>3, NoOutput, AnswerAdds
<1>5. Unseen(x, ins) /\ ~x.apdu.whole /\ x.apdu.data = <<>>
  BY <1>2 DEF Unseen
<1> HIDE DEF x
<1> QED
  BY <1>3, <1>4, <1>5 DEF Overlooks

(* An APDU that contradicts its length ends the uploads of the others.     *)
LEMMA BrokenUpload ==
  ASSUME IInv, RefuseBrokenApdu, NEW ins \in Uploading
  PROVE  Overlooks(ins) \/ GivesUp(ins)
<1>1. PICK other \in Instructions \ {"app_config"}, p2 \in SUBSET {"extend", "more"} :
        Answer(BrokenApdu(other, p2), "WrongApduLength", <<>>) /\ KeepOnly(other)
  BY DEF RefuseBrokenApdu
<1> DEFINE apdu == BrokenApdu(other, p2)
           x == [apdu |-> apdu, sw |-> "WrongApduLength", out |-> <<>>]
<1>2. /\ apdu \in Apdus /\ apdu.ins = other /\ ~apdu.whole /\ apdu.data = <<>>
      /\ "WrongApduLength" \in StatusWords
  BY ApduType DEF StatusWords, BrokenApdu
<1>3. Len(exchanges) < MaxExchanges
  BY DEF RefuseBrokenApdu, CanServe
<1> HIDE DEF apdu
<1>4. x \in Exchange /\ Adds(x) /\ screen'.name \notin Reviews
  BY <1>1, <1>2, <1>3, NoOutput, AnswerAdds DEF apdu
<1>5. /\ ~RefusedFirst(x, ins) /\ ~x.apdu.whole /\ x.apdu.data = <<>>
      /\ other = ins => Unseen(x, ins)
  BY <1>2 DEF Unseen, Chunk, RefusedFirst
<1> HIDE DEF x
<1>6. CASE other = ins
  BY <1>1, <1>4, <1>5, <1>6, KeepOnlyDrops DEF Overlooks
<1>7. CASE other # ins
  BY <1>1, <1>4, <1>5, <1>7, KeepOnlyDrops, ReviewNames DEF GivesUp
<1> QED
  BY <1>6, <1>7

(* The app configuration ends every upload.                                *)
LEMMA ConfigUpload ==
  ASSUME IInv, HandleGetAppConfig, NEW ins \in Uploading
  PROVE  GivesUp(ins)
<1> DEFINE apdu == Apdu("app_config", {}, <<>>)
           x == [apdu |-> apdu, sw |-> "Ok", out |-> <<>>]
<1>1. /\ Answer(apdu, "Ok", <<>>) /\ KeepOnly("app_config")
      /\ Len(exchanges) < MaxExchanges
  BY DEF HandleGetAppConfig, CanServe
<1>2. apdu \in Apdus /\ "Ok" \in StatusWords /\ "app_config" # ins
  BY ApduType, EmptySeq DEF StatusWords, Instructions, Uploading
<1> HIDE DEF apdu
<1>3. x \in Exchange /\ Adds(x) /\ screen'.name \notin Reviews
  BY <1>1, <1>2, NoOutput, AnswerAdds
<1>4. ~RefusedFirst(x, ins)
  BY DEF RefusedFirst
<1> HIDE DEF x
<1> QED
  BY <1>1, <1>2, <1>3, <1>4, KeepOnlyDrops, ReviewNames DEF GivesUp

(* A public key command ends every upload.                                 *)
LEMMA PubkeyUpload ==
  ASSUME IInv, HandleGetPubkey, NEW ins \in Uploading
  PROVE  GivesUp(ins)
<1>1. PICK other \in {"pubkey", "pubkey_display"} : KeepOnly(other)
  BY DEF HandleGetPubkey
<1>2. ~Context(ins)'.in_progress
  BY <1>1, KeepOnlyDrops DEF Uploading
<1>3. Len(exchanges) < MaxExchanges
  BY DEF HandleGetPubkey, CanServe
<1>4. CASE \E apdu \in Apdus, sw \in StatusWords, out \in PubkeyOutputs :
             Answer(apdu, sw, out) /\ apdu.ins \in {"pubkey", "pubkey_display"}
  <2>1. PICK apdu \in Apdus, sw \in StatusWords, out \in PubkeyOutputs :
          Answer(apdu, sw, out) /\ apdu.ins \in {"pubkey", "pubkey_display"}
    BY <1>4
  <2> DEFINE x == [apdu |-> apdu, sw |-> sw, out |-> out]
  <2>2. x \in Exchange /\ Adds(x) /\ screen'.name \notin Reviews
    BY <1>3, <2>1, AnswerAdds, PubkeyOutputsAreOutputs
  <2>3. ~RefusedFirst(x, ins)
    BY <2>1 DEF RefusedFirst, Chunk, Uploading
  <2> HIDE DEF x
  <2> QED
    BY <1>2, <2>2, <2>3, ReviewNames DEF GivesUp
<1>5. CASE /\ \E apdu \in ApdusOf("pubkey_display"), path \in Paths :
                screen' = ReviewAddress(apdu, path)
           /\ UNCHANGED exchanges
  BY <1>2, <1>5 DEF GivesUp, ReviewAddress, ReviewOf
<1> QED
  BY <1>4, <1>5, HandleGetPubkeyCases

(* What the chunk handler makes of a chunk.                                *)
LEMMA IngestCases ==
  ASSUME NEW ctx \in Contexts(Units), NEW max, NEW p2 \in SUBSET {"extend", "more"}, NEW data
  PROVE  LET step == ingest_payload_chunk(ctx, max, p2, data)
         IN  \/ /\ step.result \in {"WrongP1P2", "WrongApduLength"}
                /\ ~step.ctx.in_progress
                /\ step.result = "WrongP1P2" /\ "extend" \notin p2 => ctx.in_progress
             \/ /\ ctx.in_progress <=> "extend" \in p2
                /\ step.ctx.payload = Received(ctx) \o data
                /\ step.ctx.in_progress <=> "more" \in p2
                /\ step.result = IF "more" \in p2 THEN "incomplete" ELSE "completed"
<1>1. "reserved" \notin p2
  OBVIOUS
<1>2. ctx.in_progress \in BOOLEAN
  BY DEF Contexts
<1>3. CASE OutOfSequence(ctx, p2)
  BY <1>1, <1>2, <1>3 DEF ingest_payload_chunk, Refused, ResetContext, OutOfSequence
<1>4. CASE ~OutOfSequence(ctx, p2) /\ Len(Received(ctx)) + Len(data) > max
  BY <1>1, <1>4 DEF ingest_payload_chunk, Refused, ResetContext
<1>5. CASE ~OutOfSequence(ctx, p2) /\ ~(Len(Received(ctx)) + Len(data) > max)
  BY <1>1, <1>2, <1>5 DEF ingest_payload_chunk, OutOfSequence
<1> QED
  BY <1>3, <1>4, <1>5

(* A chunk is refused, or added to the upload, or ends it.                 *)
LEMMA ChunkUpload ==
  ASSUME IInv, Len(exchanges) < MaxExchanges, NEW ins \in Uploading, NEW max,
         NEW p2 \in SUBSET {"extend", "more"}, NEW data \in Seq(Units),
         NEW step, step = ingest_payload_chunk(Context(ins), max, p2, data),
         NEW apdu, apdu = Apdu(ins, p2, data),
         \/ /\ step.result # "completed" /\ Context(ins)' = step.ctx
            /\ Answer(apdu, IF step.result = "incomplete" THEN "Ok" ELSE step.result, <<>>)
         \/ /\ step.result = "completed" /\ ~Context(ins)'.in_progress
            /\ \E sw \in StatusWords \ {"WrongP1P2"} : Answer(apdu, sw, <<>>)
         \/ /\ step.result = "completed" /\ Context(ins)' = step.ctx
            /\ \E sw \in StatusWords \ {"WrongP1P2"} : Answer(apdu, sw, <<>>)
         \/ /\ step.result = "completed" /\ Context(ins)' = step.ctx
            /\ UNCHANGED exchanges
            /\ screen'.name = ReviewOf(ins) /\ screen'.apdu = apdu
  PROVE  GivesUp(ins) \/ TakesMore(ins) \/ TakesLast(ins)
<1>1. /\ apdu \in Apdus /\ apdu.ins = ins /\ apdu.p2 = p2 /\ apdu.data = data /\ apdu.whole
  BY ApduType DEF Apdu, Uploading, Instructions
<1> DEFINE ctx == Context(ins)
<1>2. ctx \in Contexts(Units)
  BY ContextType DEF IInv
<1>3. \/ /\ step.result \in {"WrongP1P2", "WrongApduLength"}
         /\ ~step.ctx.in_progress
         /\ step.result = "WrongP1P2" /\ "extend" \notin p2 => ctx.in_progress
      \/ /\ ctx.in_progress <=> "extend" \in p2
         /\ step.ctx.payload = Received(ctx) \o data
         /\ step.ctx.in_progress <=> "more" \in p2
         /\ step.result = IF "more" \in p2 THEN "incomplete" ELSE "completed"
  BY <1>2, IngestCases
<1>4. \A sw \in StatusWords : Answer(apdu, sw, <<>>) =>
        /\ [apdu |-> apdu, sw |-> sw, out |-> <<>>] \in Exchange
        /\ Adds([apdu |-> apdu, sw |-> sw, out |-> <<>>])
        /\ screen'.name \notin Reviews
  BY <1>1, NoOutput, AnswerAdds
<1>5. ReviewOf(ins) \in Reviews
  BY ReviewNames
<1>6. CASE /\ \E sw \in StatusWords \ {"WrongP1P2"} : Answer(apdu, sw, <<>>)
           /\ ~Context(ins)'.in_progress
  <2>1. PICK sw \in StatusWords \ {"WrongP1P2"} : Answer(apdu, sw, <<>>)
    BY <1>6
  <2> DEFINE x == [apdu |-> apdu, sw |-> sw, out |-> <<>>]
  <2>2. x \in Exchange /\ Adds(x) /\ screen'.name \notin Reviews
    BY <1>4, <2>1
  <2>3. ~RefusedFirst(x, ins)
    BY <2>1 DEF RefusedFirst
  <2> HIDE DEF x
  <2> QED
    BY <1>5, <1>6, <2>2, <2>3 DEF GivesUp
<1>7. CASE /\ step.result # "completed" /\ Context(ins)' = step.ctx
           /\ Answer(apdu, IF step.result = "incomplete" THEN "Ok" ELSE step.result, <<>>)
  <2>1. CASE step.result = "incomplete"
    <3> DEFINE x == [apdu |-> apdu, sw |-> "Ok", out |-> <<>>]
    <3>1. x \in Exchange /\ Adds(x) /\ screen'.name \notin Reviews
      BY <1>4, <1>7, <2>1 DEF StatusWords
    <3>2. /\ Chunk(x, ins) /\ x.apdu.p2 = p2 /\ x.apdu.data = data
          /\ x.sw = "Ok" /\ x.out = <<>>
      BY <1>1 DEF Chunk
    <3>3. "more" \in p2 /\ (ctx.in_progress <=> "extend" \in p2)
          /\ step.ctx.payload = Received(ctx) \o data
      BY <1>3, <2>1
    <3> HIDE DEF x
    <3> QED
      BY <1>7, <3>1, <3>2, <3>3 DEF TakesMore
  <2>2. CASE step.result # "incomplete"
    <3> DEFINE x == [apdu |-> apdu, sw |-> step.result, out |-> <<>>]
    <3>1. /\ step.result \in {"WrongP1P2", "WrongApduLength"}
          /\ ~step.ctx.in_progress
          /\ step.result = "WrongP1P2" /\ "extend" \notin p2 => ctx.in_progress
      BY <1>3, <1>7, <2>2
    <3>2. x \in Exchange /\ Adds(x) /\ screen'.name \notin Reviews
      BY <1>4, <1>7, <2>2, <3>1 DEF StatusWords
    <3>3. RefusedFirst(x, ins) => ctx.in_progress
      BY <1>1, <3>1 DEF RefusedFirst
    <3> HIDE DEF x
    <3> QED
      BY <1>5, <1>7, <3>1, <3>2, <3>3 DEF GivesUp
  <2> QED
    BY <2>1, <2>2
<1>8. ASSUME step.result = "completed"
      PROVE  /\ ctx.in_progress <=> "extend" \in p2
             /\ step.ctx.payload = Received(ctx) \o data
             /\ ~step.ctx.in_progress /\ "more" \notin p2
  BY <1>3, <1>8
<1>9. CASE /\ step.result = "completed" /\ Context(ins)' = step.ctx /\ UNCHANGED exchanges
           /\ screen'.name = ReviewOf(ins) /\ screen'.apdu = apdu
  BY <1>1, <1>8, <1>9 DEF TakesLast
<1> QED
  BY <1>6, <1>7, <1>8, <1>9

(* The other command gives up its upload.                                  *)
LEMMA OtherGivesUp ==
  ASSUME IInv, NEW ins \in Uploading, ~Context(ins)'.in_progress,
         Len(exchanges) < MaxExchanges,
         \/ UNCHANGED exchanges /\ screen'.name # ReviewOf(ins)
         \/ \E apdu \in Apdus, sw \in StatusWords, out \in Outputs :
              Answer(apdu, sw, out) /\ apdu.ins # ins
  PROVE  GivesUp(ins)
<1>1. CASE \E apdu \in Apdus, sw \in StatusWords, out \in Outputs :
             Answer(apdu, sw, out) /\ apdu.ins # ins
  <2>1. PICK apdu \in Apdus, sw \in StatusWords, out \in Outputs :
          Answer(apdu, sw, out) /\ apdu.ins # ins
    BY <1>1
  <2> DEFINE x == [apdu |-> apdu, sw |-> sw, out |-> out]
  <2>2. x \in Exchange /\ Adds(x) /\ screen'.name \notin Reviews
    BY <2>1, AnswerAdds
  <2>3. ~RefusedFirst(x, ins)
    BY <2>1 DEF RefusedFirst, Chunk
  <2> HIDE DEF x
  <2> QED
    BY <2>2, <2>3, ReviewNames DEF GivesUp
<1>2. CASE UNCHANGED exchanges /\ screen'.name # ReviewOf(ins)
  BY <1>2 DEF GivesUp
<1> QED
  BY <1>1, <1>2

(* What a chunk of a message does to either upload.                        *)
LEMMA SignUpload ==
  ASSUME IInv, HandleSignMessage, NEW ins \in Uploading
  PROVE  GivesUp(ins) \/ TakesMore(ins) \/ TakesLast(ins)
<1> DEFINE apdu(p2, data) == Apdu("sign", p2, data)
           step(p2, data) == ingest_payload_chunk(sign_context, MaxSignPayload, p2, data)
           outcome(p2, data) ==
             \/ /\ step(p2, data).result = "completed"
                /\ SignPayload(apdu(p2, data), step(p2, data).ctx)
             \/ /\ step(p2, data).result = "incomplete"
                /\ Answer(apdu(p2, data), "Ok", <<>>)
                /\ sign_context' = step(p2, data).ctx
             \/ /\ step(p2, data).result \notin {"completed", "incomplete"}
                /\ Answer(apdu(p2, data), step(p2, data).result, <<>>)
                /\ sign_context' = step(p2, data).ctx
<1>1. PICK p2 \in SUBSET {"extend", "more"}, data \in Data["sign"] : outcome(p2, data)
  BY DEF HandleSignMessage
<1>2. data \in Seq(Units)
  BY ConstantsAssumption DEF Instructions
<1>3. Len(exchanges) < MaxExchanges /\ ~load_idl_context'.in_progress
  BY DEF HandleSignMessage, ForgetLoadIdl, ResetContext, CanServe
<1>4. /\ step(p2, data).ctx \in Contexts(Units)
      /\ step(p2, data).result \in {"completed", "incomplete", "WrongP1P2", "WrongApduLength"}
  BY <1>2, IngestType DEF IInv, TypeOK
<1>5. apdu(p2, data) \in Apdus /\ apdu(p2, data).ins = "sign"
  BY <1>2, ApduType DEF Apdu, Instructions
<1> DEFINE the_apdu == apdu(p2, data)
           the_step == step(p2, data)
           parsed == parse_sign_payload(the_step.ctx.payload)
<1>6. parsed.sw \in {"Ok", "InvalidData", "WrongApduLength"}
  BY <1>4, ParseSignType DEF Contexts
<1> HIDE DEF apdu, step
<1>7. \/ /\ the_step.result # "completed" /\ sign_context' = the_step.ctx
         /\ Answer(the_apdu, IF the_step.result = "incomplete" THEN "Ok" ELSE the_step.result, <<>>)
      \/ the_step.result = "completed" /\ SignPayload(the_apdu, the_step.ctx)
  BY <1>1
<1>8. SignPayload(the_apdu, the_step.ctx) =>
        \/ /\ \E sw \in StatusWords \ {"WrongP1P2"} : Answer(the_apdu, sw, <<>>)
           /\ sign_context' = ResetContext \/ sign_context' = the_step.ctx
        \/ /\ sign_context' = the_step.ctx /\ UNCHANGED exchanges
           /\ screen' = ReviewMessage(the_apdu, parsed)
  BY <1>6 DEF SignPayload, StatusWords
<1>9. ReviewMessage(the_apdu, parsed).name = "review_message"
      /\ ReviewMessage(the_apdu, parsed).apdu = the_apdu
  BY DEF ReviewMessage
<1>10. CASE ins = "sign"
  <2>1. /\ Context(ins) = sign_context /\ Context(ins)' = sign_context'
        /\ ReviewOf(ins) = "review_message"
    BY <1>10 DEF Context, ReviewOf
  <2>2. the_step = ingest_payload_chunk(Context(ins), MaxSignPayload, p2, data)
        /\ the_apdu = Apdu(ins, p2, data)
    BY <1>10, <2>1 DEF apdu, step
  <2>3. ~ResetContext.in_progress
    BY DEF ResetContext
  <2> HIDE DEF the_apdu, the_step, parsed
  <2> QED
    BY <1>2, <1>3, <1>7, <1>8, <1>9, <2>1, <2>2, <2>3, ChunkUpload
<1>11. CASE ins = "load_idl"
  <2>1. ~Context(ins)'.in_progress /\ ReviewOf(ins) = "review_idl_import"
    BY <1>3, <1>11 DEF Context, ReviewOf
  <2>2. {IF the_step.result = "incomplete" THEN "Ok" ELSE the_step.result} \subseteq
          StatusWords \cup {"completed"}
    BY <1>4 DEF StatusWords
  <2>3. \/ \E sw \in StatusWords : Answer(the_apdu, sw, <<>>)
        \/ UNCHANGED exchanges /\ screen'.name # ReviewOf(ins)
    BY <1>7, <1>8, <1>9, <2>1, <2>2
  <2> HIDE DEF the_apdu
  <2>4. the_apdu \in Apdus /\ the_apdu.ins # ins
    BY <1>5, <1>11 DEF the_apdu
  <2> QED
    BY <1>3, <2>1, <2>3, <2>4, NoOutput, OtherGivesUp
<1> QED
  BY <1>10, <1>11 DEF Uploading

(* What a chunk of an import does to either upload.                        *)
LEMMA LoadIdlUpload ==
  ASSUME IInv, HandleLoadIdl, NEW ins \in Uploading
  PROVE  GivesUp(ins) \/ TakesMore(ins) \/ TakesLast(ins)
<1> DEFINE apdu(p2, data) == Apdu("load_idl", p2, data)
           step(p2, data) ==
             ingest_payload_chunk(load_idl_context, MaxLoadIdlPayload, p2, data)
           outcome(p2, data) ==
             \/ /\ step(p2, data).result = "completed"
                /\ ImportPayload(apdu(p2, data), step(p2, data).ctx)
             \/ /\ step(p2, data).result = "incomplete"
                /\ Answer(apdu(p2, data), "Ok", <<>>)
                /\ load_idl_context' = step(p2, data).ctx
             \/ /\ step(p2, data).result \notin {"completed", "incomplete"}
                /\ Answer(apdu(p2, data), step(p2, data).result, <<>>)
                /\ load_idl_context' = step(p2, data).ctx
<1>1. PICK p2 \in SUBSET {"extend", "more"}, data \in Data["load_idl"] : outcome(p2, data)
  BY DEF HandleLoadIdl
<1>2. data \in Seq(Units)
  BY ConstantsAssumption DEF Instructions
<1>3. Len(exchanges) < MaxExchanges /\ ~sign_context'.in_progress
  BY DEF HandleLoadIdl, ForgetSign, ResetContext, CanServe
<1>4. /\ step(p2, data).ctx \in Contexts(Units)
      /\ step(p2, data).result \in {"completed", "incomplete", "WrongP1P2", "WrongApduLength"}
  BY <1>2, IngestType DEF IInv, TypeOK
<1>5. apdu(p2, data) \in Apdus /\ apdu(p2, data).ins = "load_idl"
  BY <1>2, ApduType DEF Apdu, Instructions
<1> DEFINE the_apdu == apdu(p2, data)
           the_step == step(p2, data)
           prepared == prepare_idl_import(the_step.ctx.payload)
<1>6. prepared.sw \in {"Ok", "InvalidData", "WrongApduLength"}
  BY <1>4, PrepareType DEF Contexts
<1> HIDE DEF apdu, step
<1>7. \/ /\ the_step.result # "completed" /\ load_idl_context' = the_step.ctx
         /\ Answer(the_apdu, IF the_step.result = "incomplete" THEN "Ok" ELSE the_step.result, <<>>)
      \/ the_step.result = "completed" /\ ImportPayload(the_apdu, the_step.ctx)
  BY <1>1
<1>8. ImportPayload(the_apdu, the_step.ctx) =>
        \/ /\ \E sw \in StatusWords \ {"WrongP1P2"} : Answer(the_apdu, sw, <<>>)
           /\ load_idl_context' = ResetContext
        \/ /\ load_idl_context' = the_step.ctx /\ UNCHANGED exchanges
           /\ screen' = ReviewImport(the_apdu, prepared)
  BY <1>6 DEF ImportPayload, StatusWords
<1>9. ReviewImport(the_apdu, prepared).name = "review_idl_import"
      /\ ReviewImport(the_apdu, prepared).apdu = the_apdu
  BY DEF ReviewImport
<1>10. CASE ins = "load_idl"
  <2>1. /\ Context(ins) = load_idl_context /\ Context(ins)' = load_idl_context'
        /\ ReviewOf(ins) = "review_idl_import"
    BY <1>10 DEF Context, ReviewOf
  <2>2. the_step = ingest_payload_chunk(Context(ins), MaxLoadIdlPayload, p2, data)
        /\ the_apdu = Apdu(ins, p2, data)
    BY <1>10, <2>1 DEF apdu, step
  <2>3. ~ResetContext.in_progress
    BY DEF ResetContext
  <2> HIDE DEF the_apdu, the_step, prepared
  <2> QED
    BY <1>2, <1>3, <1>7, <1>8, <1>9, <2>1, <2>2, <2>3, ChunkUpload
<1>11. CASE ins = "sign"
  <2>1. ~Context(ins)'.in_progress /\ ReviewOf(ins) = "review_message"
    BY <1>3, <1>11 DEF Context, ReviewOf
  <2>2. {IF the_step.result = "incomplete" THEN "Ok" ELSE the_step.result} \subseteq
          StatusWords \cup {"completed"}
    BY <1>4 DEF StatusWords
  <2>3. \/ \E sw \in StatusWords : Answer(the_apdu, sw, <<>>)
        \/ UNCHANGED exchanges /\ screen'.name # ReviewOf(ins)
    BY <1>7, <1>8, <1>9, <2>1, <2>2
  <2> HIDE DEF the_apdu
  <2>4. the_apdu \in Apdus /\ the_apdu.ins # ins
    BY <1>5, <1>11 DEF the_apdu
  <2> QED
    BY <1>3, <2>1, <2>3, <2>4, NoOutput, OtherGivesUp
<1> QED
  BY <1>10, <1>11 DEF Uploading

(* A restart drops every upload.                                           *)
LEMMA RestartedAdds ==
  ASSUME IInv, exchanges' = Append(exchanges, [apdu |-> Restarted, sw |-> "Ok", out |-> <<>>])
  PROVE  \E x \in Exchange : Adds(x) /\ x.sw = "Ok" /\ x.apdu = Restarted
<1>1. [apdu |-> Restarted, sw |-> "Ok", out |-> <<>>] \in Exchange
  BY ApduType, NoOutput DEF Exchange, StatusWords
<1> QED
  BY <1>1 DEF Adds

(* A restart ends every upload.                                            *)
LEMMA RestartUpload ==
  ASSUME IInv, Restart, NEW ins \in Uploading
  PROVE  GivesUp(ins)
<1>1. ~Context(ins)'.in_progress /\ screen'.name # ReviewOf(ins)
  BY DEF Restart, Context, ResetContext, Home, ReviewOf
<1>2. PICK x \in Exchange : Adds(x) /\ x.sw = "Ok"
  BY RestartedAdds DEF Restart
<1>3. ~RefusedFirst(x, ins)
  BY <1>2 DEF RefusedFirst
<1> QED
  BY <1>1, <1>2, <1>3 DEF GivesUp

(* What the user decides: an answer to the APDU of the review, which no    *)
(* decision calls a chunk out of sequence, or an import without an answer. *)
LEMMA DecideCases ==
  ASSUME IInv, Decide
  PROVE  /\ screen.name \in Reviews /\ Len(exchanges) < MaxExchanges
         /\ \/ \E x \in Exchange :
                 /\ Adds(x) /\ x.apdu = screen.apdu /\ x.sw # "WrongP1P2"
                 /\ screen.name # "review_message" => x.sw \in {"Ok", "Deny"}
                 /\ x.sw \in {"Ok", "Deny", "KeyDeriveFail", "ConditionsNotSatisfied"}
            \/ \E x \in Exchange : Adds(x) /\ x.apdu = Restarted /\ x.sw = "Ok"
         /\ screen'.name \notin Reviews
<1>1. screen.name \in Reviews
  BY DEF Decide, ApproveAddress, RejectAddress, ApproveMessage, RejectMessage,
         ApproveImport, RejectImport, Reviews
<1>2. Len(exchanges) < MaxExchanges /\ screen.apdu \in Apdus
  BY <1>1, ScreenType DEF IInv, ReviewsAreCurrent, Reviews
<1>3. ASSUME NEW sw \in {"Ok", "Deny", "KeyDeriveFail", "ConditionsNotSatisfied"},
             NEW out \in Outputs, Answer(screen.apdu, sw, out),
             screen.name # "review_message" => sw \in {"Ok", "Deny"}
      PROVE  /\ \E x \in Exchange :
                  /\ Adds(x) /\ x.apdu = screen.apdu /\ x.sw # "WrongP1P2"
                  /\ screen.name # "review_message" => x.sw \in {"Ok", "Deny"}
                  /\ x.sw \in {"Ok", "Deny", "KeyDeriveFail", "ConditionsNotSatisfied"}
             /\ screen'.name \notin Reviews
  <2>1. sw \in StatusWords
    BY DEF StatusWords
  <2>2. /\ [apdu |-> screen.apdu, sw |-> sw, out |-> out] \in Exchange
        /\ Adds([apdu |-> screen.apdu, sw |-> sw, out |-> out])
        /\ screen'.name \notin Reviews
    BY <1>2, <1>3, <2>1, AnswerAdds
  <2> QED
    BY <1>3, <2>2
<1>4. CASE ApproveAddress
  <2>1. <<screen.path>> \in Outputs /\ Answer(screen.apdu, "Ok", <<screen.path>>)
    BY <1>4, ScreenType DEF ApproveAddress, IInv, Outputs
  <2> QED
    BY <1>1, <1>2, <1>3, <2>1
<1>5. CASE RejectAddress \/ RejectMessage \/ RejectImport
  BY <1>1, <1>2, <1>3, <1>5, NoOutput DEF RejectAddress, RejectMessage, RejectImport
<1>6. CASE ApproveMessage
  <2> DEFINE parsed == parse_sign_payload(sign_context.payload)
  <2>1. /\ screen.name = "review_message"
        /\ \/ Answer(screen.apdu, "Ok", <<parsed.path, parsed.message>>)
           \/ \E sw \in {"KeyDeriveFail", "ConditionsNotSatisfied"} :
                Answer(screen.apdu, sw, <<>>)
    BY <1>6 DEF ApproveMessage
  <2>2. parsed.path \in Paths /\ parsed.message \in Seq(Units)
    BY <2>1, ParseSignType DEF IInv, TypeOK, Contexts, ReviewsAreCurrent, MessageReviewIsCurrent
  <2>3. <<parsed.path, parsed.message>> \in Outputs
    BY <2>2 DEF Outputs
  <2> HIDE DEF parsed
  <2> QED
    BY <1>1, <1>2, <1>3, <2>1, <2>3, NoOutput
<1>7. CASE ApproveImport
  <2> DEFINE prepared == prepare_idl_import(load_idl_context.payload)
             out == <<prepared.program_id, Len(prepared.attestations), Len(prepared.idl)>>
  <2>1. /\ screen.name = "review_idl_import"
        /\ \/ Answer(screen.apdu, "Ok", out)
           \/ /\ exchanges' = Append(exchanges, [apdu |-> Restarted, sw |-> "Ok", out |-> <<>>])
              /\ screen' = Home
    BY <1>7 DEF ApproveImport
  <2>2. /\ prepared.program_id \in Programs /\ prepared.idl \in Seq(Units)
        /\ Len(prepared.attestations) \in Nat
    BY <2>1, PrepareType, ConstantsAssumption
       DEF IInv, TypeOK, Contexts, ReviewsAreCurrent, ImportReviewIsCurrent
  <2> HIDE DEF prepared
  <2>3. out \in Outputs
    BY <2>2, LenProperties DEF Outputs
  <2> HIDE DEF out
  <2>4. Home.name \notin Reviews
    BY DEF Home, Reviews
  <2> QED
    BY <1>1, <1>2, <1>3, <2>1, <2>3, <2>4, RestartedAdds
<1> QED
  BY <1>4, <1>5, <1>6, <1>7 DEF Decide

(* A decision of the user ends the upload of its review.                   *)
LEMMA DecideUpload ==
  ASSUME IInv, NoRunInReview, Decide, NEW ins \in Uploading
  PROVE  GivesUp(ins)
<1>1. ~Context(ins).in_progress
  BY DecideCases DEF NoRunInReview
<1>2. Context(ins)' \in {Context(ins), ResetContext}
  BY DEF Decide, ApproveAddress, RejectAddress, ApproveMessage, RejectMessage,
         ApproveImport, RejectImport, Context
<1>3. ~Context(ins)'.in_progress
  BY <1>1, <1>2 DEF ResetContext
<1>4. PICK x \in Exchange : Adds(x) /\ x.sw # "WrongP1P2"
  BY DecideCases
<1>5. ~RefusedFirst(x, ins)
  BY <1>4 DEF RefusedFirst
<1> QED
  BY <1>3, <1>4, <1>5, DecideCases, ReviewNames DEF GivesUp

(* The menu leaves every upload alone.                                     *)
LEMMA MenuUpload ==
  ASSUME Menu \/ UNCHANGED vars, NEW ins \in Uploading
  PROVE  Keeps(ins)
BY DEF Menu, OpenSettings, CloseSettings, AskRemoval, ConfirmRemove, DeclineRemove,
       Keeps, Context, vars, Home, Settings, ConfirmRemoval, Reviews

(* No step does anything else to an upload.                                *)
LEMMA EveryStepOfAnUpload ==
  ASSUME IInv, NoRunInReview, [Next]_vars, NEW ins \in Uploading
  PROVE  UploadStep(ins)
<1>1. CASE Serve
  BY <1>1, HeaderUpload, BrokenUpload, ConfigUpload, PubkeyUpload, SignUpload, LoadIdlUpload
     DEF Serve, UploadStep
<1> QED
  BY <1>1, DecideUpload, MenuUpload, RestartUpload DEF Next, UploadStep

-----------------------------------------------------------------------------
(* Each part of HInv is kept.                                              *)

(* No upload goes on under a review.                                       *)
LEMMA ReviewsKeep ==
  ASSUME NoRunInReview, \A ins \in Uploading : UploadStep(ins)
  PROVE  NoRunInReview'
<1> SUFFICES ASSUME screen'.name \in Reviews, NEW ins \in Uploading
             PROVE  ~Context(ins)'.in_progress
  BY DEF NoRunInReview
<1> QED
  BY DEF NoRunInReview, UploadStep, Keeps, GivesUp, Overlooks, TakesMore, TakesLast

(* What the next chunk is added to came in a run, or is nothing.           *)
LEMMA HeldBefore ==
  ASSUME TypeOK, NEW ins \in Uploading, RunHeld(ins), NEW n, n = Len(exchanges)
  PROVE  \E j \in 1..(n + 1) :
           /\ IF j = n + 1 THEN ~Context(ins).in_progress
                           ELSE Context(ins).in_progress /\ IsRun(ins, j, n)
           /\ IsConcat(Received(Context(ins)), Pieces(j, n))
<1>1. n \in Nat
  BY LenProperties DEF TypeOK
<1>2. CASE Context(ins).in_progress
  <2>1. PICK j \in 1..n : IsRun(ins, j, n) /\ IsConcat(Context(ins).payload, Pieces(j, n))
    BY <1>2 DEF RunHeld
  <2>2. j \in 1..(n + 1) /\ j # n + 1 /\ Received(Context(ins)) = Context(ins).payload
    BY <1>1, <1>2 DEF Received
  <2> QED
    BY <1>2, <2>1, <2>2
<1>3. CASE ~Context(ins).in_progress
  <2>1. Pieces(n + 1, n) = <<>>
    <3> DEFINE pieces == Pieces(n + 1, n)
    <3>1. n + 1 \in Nat \ {0} /\ n + 1 <= n + 1 /\ n <= Len(exchanges)
      BY <1>1
    <3>2. pieces \in Seq(Seq(Units)) /\ Len(pieces) = n - (n + 1) + 1
      BY <1>1, <3>1, PiecesType
    <3> HIDE DEF pieces
    <3>3. pieces \in Seq(Seq(Units)) /\ Len(pieces) = 0
      BY <1>1, <3>2
    <3>4. pieces = <<>>
      BY <3>3, EmptySeq
    <3> QED
      BY <3>4 DEF pieces
  <2>2. Received(Context(ins)) = <<>> /\ n + 1 \in 1..(n + 1)
    BY <1>1, <1>3 DEF Received
  <2> QED
    BY <1>3, <2>1, <2>2, NoPieces
<1> QED
  BY <1>2, <1>3

(* A sequence of units after nothing more is itself.                       *)
LEMMA NothingMore ==
  ASSUME NEW S, NEW payload \in Seq(S)
  PROVE  payload \o <<>> = payload
BY ConcatProperties, EmptySeq, LenProperties

(* What an upload in progress holds stays a run of chunks.                 *)
LEMMA RunKept ==
  ASSUME TypeOK, TypeOK', NEW ins \in Uploading, RunHeld(ins), UploadStep(ins)
  PROVE  RunHeld(ins)'
<1> SUFFICES ASSUME Context(ins)'.in_progress
             PROVE  \E j \in 1..Len(exchanges') :
                      /\ IsRun(ins, j, Len(exchanges))'
                      /\ IsConcat(Context(ins)'.payload, Pieces(j, Len(exchanges))')
  BY DEF RunHeld
<1> DEFINE ctx == Context(ins)
<1>1. PICK n \in Nat : n = Len(exchanges)
  BY LenProperties DEF TypeOK
<1>2. ctx.payload \in Seq(Units)
  BY ContextType DEF Contexts
<1>3. CASE Keeps(ins)
  <2>1. ctx' = ctx /\ exchanges' = exchanges
    BY <1>3 DEF Keeps
  <2>2. PICK j \in 1..n : IsRun(ins, j, n) /\ IsConcat(ctx.payload, Pieces(j, n))
    BY <1>1, <2>1 DEF RunHeld
  <2>3. IsRun(ins, j, n)' /\ Pieces(j, n)' = Pieces(j, n)
    BY <1>1, <2>1, <2>2, PastStays
  <2>4. Len(exchanges') = n /\ Pieces(j, Len(exchanges))' = Pieces(j, n)
        /\ IsRun(ins, j, Len(exchanges))'
    BY <1>1, <2>1, <2>2, <2>3
  <2> QED
    BY <2>1, <2>2, <2>4
<1>4. CASE Overlooks(ins)
  <2>1. PICK x \in Exchange : Adds(x) /\ Unseen(x, ins) /\ ~x.apdu.whole /\ x.apdu.data = <<>>
    BY <1>4 DEF Overlooks
  <2>2. ctx' = ctx /\ ~Chunk(x, ins)
    BY <1>4, <2>1 DEF Overlooks, Chunk
  <2>3. PICK j \in 1..n : IsRun(ins, j, n) /\ IsConcat(ctx.payload, Pieces(j, n))
    BY <1>1, <2>2 DEF RunHeld
  <2>4. /\ Len(exchanges') = n + 1 /\ exchanges'[n + 1] = x
        /\ \A k \in 1..n : exchanges'[k] = exchanges[k]
    BY <1>1, <2>1, AddedExchange
  <2>5. IsRun(ins, j, n + 1)'
    BY <2>1, <2>2, <2>3, <2>4, RunGrows
  <2>6. j \in 1..(n + 1) /\ Pieces(j, n + 1)' = Append(Pieces(j, n), <<>>)
    <3>1. j \in 1..(n + 1)
      BY <2>3
    <3> QED
      BY <1>1, <2>1, <3>1, PiecesGrow
  <2>7. Pieces(j, n) \in Seq(Seq(Units))
    <3>1. j \in Nat \ {0} /\ j <= n + 1 /\ n <= Len(exchanges)
      BY <1>1
    <3> QED
      BY <3>1, PiecesType
  <2>8. IsConcat(ctx.payload, Pieces(j, n + 1)')
    <3>1. <<>> \in Seq(Units) /\ ctx.payload \o <<>> = ctx.payload
      BY <1>2, NothingMore
    <3>2. IsConcat(ctx.payload \o <<>>, Append(Pieces(j, n), <<>>))
      BY <1>2, <2>3, <2>7, <3>1, OneMorePiece
    <3> QED
      BY <2>6, <3>1, <3>2
  <2> QED
    BY <2>2, <2>4, <2>5, <2>6, <2>8
<1>5. CASE TakesMore(ins)
  <2>1. PICK x \in Exchange :
          /\ Adds(x) /\ Chunk(x, ins) /\ "more" \in x.apdu.p2
          /\ x.sw = "Ok" /\ x.out = <<>>
          /\ ctx.in_progress <=> "extend" \in x.apdu.p2
          /\ ctx'.payload = Received(ctx) \o x.apdu.data
    BY <1>5 DEF TakesMore
  <2>2. PICK j \in 1..(n + 1) :
          /\ IF j = n + 1 THEN ~ctx.in_progress ELSE ctx.in_progress /\ IsRun(ins, j, n)
          /\ IsConcat(Received(ctx), Pieces(j, n))
    BY <1>1, HeldBefore
  <2>3. /\ Len(exchanges') = n + 1 /\ exchanges'[n + 1] = x
        /\ \A k \in 1..n : exchanges'[k] = exchanges[k]
    BY <1>1, <2>1, AddedExchange
  <2>4. IsRun(ins, j, n + 1)'
    <3>1. CASE j = n + 1
      BY <2>1, <2>2, <2>3, <3>1, RunStarts
    <3>2. CASE j # n + 1
      <4>1. j \in 1..n
        BY <1>1, <3>2
      <4> QED
        BY <2>1, <2>2, <2>3, <3>2, <4>1, RunGrows
    <3> QED
      BY <3>1, <3>2
  <2>5. Pieces(j, n + 1)' = Append(Pieces(j, n), x.apdu.data)
    BY <1>1, <2>1, PiecesGrow
  <2>6. /\ Pieces(j, n) \in Seq(Seq(Units)) /\ Received(ctx) \in Seq(Units)
        /\ x.apdu.data \in Seq(Units)
    <3>1. j \in Nat \ {0} /\ j <= n + 1 /\ n <= Len(exchanges)
      BY <1>1
    <3>2. Received(ctx) \in Seq(Units)
      BY <1>2, EmptySeq DEF Received
    <3>3. x.apdu.data \in Seq(Units)
      BY DEF Exchange, Apdus
    <3> QED
      BY <3>1, <3>2, <3>3, PiecesType
  <2>7. IsConcat(Received(ctx) \o x.apdu.data, Append(Pieces(j, n), x.apdu.data))
    BY <2>2, <2>6, OneMorePiece
  <2> QED
    BY <2>1, <2>3, <2>4, <2>5, <2>7
<1>6. CASE GivesUp(ins) \/ TakesLast(ins)
  BY <1>6 DEF GivesUp, TakesLast
<1> QED
  BY <1>3, <1>4, <1>5, <1>6 DEF UploadStep

(* A review stays, or comes to be, of a run of chunks and the last one.    *)
LEMMA ShownKept ==
  ASSUME TypeOK, NEW ins \in Uploading, RunHeld(ins), UploadShown(ins), UploadStep(ins)
  PROVE  UploadShown(ins)'
<1> SUFFICES ASSUME screen'.name = ReviewOf(ins)
             PROVE  /\ screen'.apdu.ins = ins /\ screen'.apdu.whole
                    /\ "more" \notin screen'.apdu.p2
                    /\ \E j \in 1..(Len(exchanges') + 1) :
                         /\ IF j = Len(exchanges') + 1
                            THEN "extend" \notin screen'.apdu.p2
                            ELSE IsRun(ins, j, Len(exchanges))' /\ "extend" \in screen'.apdu.p2
                         /\ IsConcat(Context(ins)'.payload,
                                     Append(Pieces(j, Len(exchanges))', screen'.apdu.data))
  BY DEF UploadShown, ReviewOf
<1> DEFINE ctx == Context(ins)
<1>1. PICK n \in Nat : n = Len(exchanges)
  BY LenProperties DEF TypeOK
<1>2. Keeps(ins) \/ TakesLast(ins)
  BY ReviewNames DEF UploadStep, GivesUp, Overlooks, TakesMore
<1>3. exchanges' = exchanges
  BY <1>2 DEF Keeps, TakesLast
<1>4. ASSUME NEW j \in 1..(n + 1)
      PROVE  /\ Pieces(j, Len(exchanges))' = Pieces(j, n)
             /\ j # n + 1 => (IsRun(ins, j, Len(exchanges))' <=> IsRun(ins, j, n))
  <2>1. /\ j \in Nat \ {0} /\ n <= n /\ (j # n + 1 => j <= n)
        /\ \A k \in 1..n : exchanges'[k] = exchanges[k]
    BY <1>1, <1>3
  <2>2. /\ Pieces(j, n)' = Pieces(j, n)
        /\ j # n + 1 => (IsRun(ins, j, n)' <=> IsRun(ins, j, n))
    BY <2>1, PastStays
  <2>3. Len(exchanges') = n
    BY <1>1, <1>3
  <2>4. /\ Pieces(j, Len(exchanges))' = Pieces(j, n)'
        /\ IsRun(ins, j, Len(exchanges))' <=> IsRun(ins, j, n)'
    BY <2>3
  <2> QED
    BY <2>2, <2>4
<1>5. CASE Keeps(ins)
  <2>1. screen' = screen /\ ctx' = ctx /\ screen.name = ReviewOf(ins)
    BY <1>5, ReviewNames DEF Keeps
  <2>2. /\ screen.apdu.ins = ins /\ screen.apdu.whole /\ "more" \notin screen.apdu.p2
        /\ \E j \in 1..(n + 1) :
             /\ IF j = n + 1
                THEN "extend" \notin screen.apdu.p2
                ELSE IsRun(ins, j, n) /\ "extend" \in screen.apdu.p2
             /\ IsConcat(ctx.payload, Append(Pieces(j, n), screen.apdu.data))
    BY <1>1, <2>1 DEF UploadShown
  <2> QED
    BY <1>1, <1>3, <1>4, <2>1, <2>2
<1>6. CASE TakesLast(ins)
  <2>1. /\ screen'.apdu \in Apdus
        /\ screen'.apdu.ins = ins /\ screen'.apdu.whole /\ "more" \notin screen'.apdu.p2
        /\ ctx.in_progress <=> "extend" \in screen'.apdu.p2
        /\ ctx'.payload = Received(ctx) \o screen'.apdu.data
    BY <1>6 DEF TakesLast
  <2>2. PICK j \in 1..(n + 1) :
          /\ IF j = n + 1 THEN ~ctx.in_progress ELSE ctx.in_progress /\ IsRun(ins, j, n)
          /\ IsConcat(Received(ctx), Pieces(j, n))
    BY <1>1, HeldBefore
  <2>3. /\ Pieces(j, n) \in Seq(Seq(Units)) /\ Received(ctx) \in Seq(Units)
        /\ screen'.apdu.data \in Seq(Units)
    <3>1. j \in Nat \ {0} /\ j <= n + 1 /\ n <= Len(exchanges)
      BY <1>1
    <3>2. Received(ctx) \in Seq(Units)
      BY ContextType, EmptySeq DEF Received, Contexts
    <3>3. screen'.apdu.data \in Seq(Units)
      BY <2>1 DEF Apdus
    <3> QED
      BY <3>1, <3>2, <3>3, PiecesType
  <2>4. IsConcat(Received(ctx) \o screen'.apdu.data, Append(Pieces(j, n), screen'.apdu.data))
    <3> DEFINE data == screen'.apdu.data
               held == Received(ctx)
    <3>1. held \in Seq(Units) /\ data \in Seq(Units) /\ IsConcat(held, Pieces(j, n))
      BY <2>2, <2>3
    <3> HIDE DEF held, data
    <3>2. IsConcat(held \o data, Append(Pieces(j, n), data))
      BY <2>3, <3>1, OneMorePiece
    <3> QED
      BY <3>2 DEF held, data
  <2> HIDE DEF ctx
  <2>5. /\ IF j = Len(exchanges') + 1
           THEN "extend" \notin screen'.apdu.p2
           ELSE IsRun(ins, j, Len(exchanges))' /\ "extend" \in screen'.apdu.p2
        /\ IsConcat(ctx'.payload, Append(Pieces(j, Len(exchanges))', screen'.apdu.data))
    BY <1>1, <1>3, <1>4, <2>1, <2>2, <2>4
  <2> QED
    BY <1>1, <1>3, <2>1, <2>5 DEF ctx
<1> QED
  BY <1>2, <1>5, <1>6

(* A step of an upload adds at most one exchange.  The context changes     *)
(* without one only to end an upload, and a refusal always ends one.       *)
LEMMA UploadStepAdds ==
  ASSUME NEW ins \in Uploading, UploadStep(ins)
  PROVE  \/ /\ UNCHANGED exchanges
            /\ ~Context(ins)'.in_progress \/ Context(ins)' = Context(ins)
         \/ \E x \in Exchange :
              /\ Adds(x)
              /\ RefusedFirst(x, ins) =>
                   Context(ins).in_progress /\ ~Context(ins)'.in_progress
<1>1. CASE Overlooks(ins)
  BY <1>1 DEF Overlooks, RefusedFirst, Chunk
<1>2. CASE TakesMore(ins)
  BY <1>2 DEF TakesMore, RefusedFirst
<1> QED
  BY <1>1, <1>2 DEF UploadStep, Keeps, GivesUp, TakesLast

(* A refused first chunk ends the upload that was in progress.             *)
LEMMA RefusalKept ==
  ASSUME TypeOK, NEW ins \in Uploading, UploadStep(ins), RefusalClears(ins), RefusedOnce(ins)
  PROVE  RefusalClears(ins)' /\ RefusedOnce(ins)'
<1>1. PICK n \in Nat : n = Len(exchanges)
  BY LenProperties DEF TypeOK
<1>2. CASE /\ UNCHANGED exchanges
           /\ ~Context(ins)'.in_progress \/ Context(ins)' = Context(ins)
  BY <1>2 DEF RefusalClears, RefusedOnce, RefusedFirst, Chunk
<1>3. CASE \E x \in Exchange :
             /\ Adds(x)
             /\ RefusedFirst(x, ins) => Context(ins).in_progress /\ ~Context(ins)'.in_progress
  <2>1. PICK x \in Exchange :
          /\ Adds(x)
          /\ RefusedFirst(x, ins) => Context(ins).in_progress /\ ~Context(ins)'.in_progress
    BY <1>3
  <2>2. /\ Len(exchanges') = n + 1 /\ exchanges'[n + 1] = x
        /\ \A k \in 1..n : exchanges'[k] = exchanges[k]
    BY <1>1, <2>1, AddedExchange
  <2>3. RefusalClears(ins)'
    BY <2>1, <2>2 DEF RefusalClears, RefusedFirst, Chunk
  <2>4. ASSUME NEW i \in 1..(Len(exchanges') - 1),
               RefusedFirst(exchanges'[i], ins), RefusedFirst(exchanges'[i + 1], ins)
        PROVE  FALSE
    <3>1. CASE i = n
      <4>1. i + 1 = n + 1 /\ n > 0 /\ n \in 1..n
        BY <2>2, <3>1
      <4>2. RefusedFirst(x, ins) /\ RefusedFirst(exchanges[n], ins)
        BY <2>2, <2>4, <3>1, <4>1
      <4> QED
        BY <1>1, <2>1, <4>1, <4>2 DEF RefusalClears
    <3>2. CASE i # n
      <4>1. i \in 1..(n - 1) /\ i \in 1..n /\ i + 1 \in 1..n
        BY <2>2, <3>2
      <4>2. exchanges'[i] = exchanges[i] /\ exchanges'[i + 1] = exchanges[i + 1]
        BY <2>2, <4>1
      <4> QED
        BY <1>1, <2>4, <4>1, <4>2 DEF RefusedOnce
    <3> QED
      BY <3>1, <3>2
  <2>5. RefusedOnce(ins)'
    BY <2>4 DEF RefusedOnce, RefusedFirst, Chunk
  <2> QED
    BY <2>3, <2>5
<1> QED
  BY <1>2, <1>3, UploadStepAdds

-----------------------------------------------------------------------------
(* HInv holds in every reachable state.                                    *)
LEMMA InitHInv == Init => HInv
<1> SUFFICES ASSUME Init PROVE HInv
  OBVIOUS
<1>1. IInv
  BY InitIInv
<1>2. exchanges = <<>> /\ Len(exchanges) = 0 /\ 1..(Len(exchanges) - 1) = {}
  BY EmptySeq DEF Init
<1>3. \A ins \in Uploading : ~Context(ins).in_progress
  BY DEF Init, Context, ResetContext
<1>4. screen.name \notin Reviews
  BY DEF Init, Home, Reviews
<1> QED
  BY <1>1, <1>2, <1>3, <1>4, ReviewNames
     DEF HInv, NoRunInReview, RunHeld, UploadShown, RefusalClears, RefusedOnce

(* Every step keeps it.                                                    *)
LEMMA NextHInv == HInv /\ [Next]_vars => HInv'
<1> SUFFICES ASSUME HInv, [Next]_vars PROVE HInv'
  OBVIOUS
<1>1. IInv' /\ TypeOK /\ TypeOK'
  BY NextStep DEF HInv, IInv
<1>2. \A ins \in Uploading : UploadStep(ins)
  BY EveryStepOfAnUpload DEF HInv
<1>3. NoRunInReview'
  BY <1>2, ReviewsKeep DEF HInv
<1>4. ASSUME NEW ins \in Uploading
      PROVE  RunHeld(ins)' /\ UploadShown(ins)' /\ RefusalClears(ins)' /\ RefusedOnce(ins)'
  BY <1>1, <1>2, RunKept, ShownKept, RefusalKept DEF HInv
<1> QED
  BY <1>1, <1>3, <1>4 DEF HInv

(* What every upload is made of, for every host and every user.            *)
THEOREM HistoryInvariance == Spec => []HInv
<1>1. Init => HInv
  BY InitHInv
<1>2. HInv /\ [Next]_vars => HInv'
  BY NextHInv
<1> QED
  BY <1>1, <1>2, PTL DEF Spec

(* The first chunk of a retry is refused at most once.                     *)
THEOREM RetriesGoThrough == Spec => []RetryIsRefusedOnce
<1>1. HInv => RetryIsRefusedOnce
  BY DEF HInv, RetryIsRefusedOnce, RefusedOnce, RefusedFirst, Uploading
<1> QED
  BY <1>1, HistoryInvariance, PTL

-----------------------------------------------------------------------------
(* The exchange that answers a review completes an upload of the payload   *)
(* the context holds.                                                      *)
LEMMA AnswerCompletes ==
  ASSUME TypeOK, TypeOK', NEW ins \in Uploading, UploadShown(ins),
         screen.name = ReviewOf(ins), NEW x, Adds(x), x.apdu = screen.apdu,
         NEW n, n = Len(exchanges), NEW payload, payload = Context(ins).payload
  PROVE  \E j \in 1..(n + 1) : IsUpload(ins, j, n + 1, payload)'
<1>1. /\ n \in Nat /\ Len(exchanges') = n + 1 /\ exchanges'[n + 1] = x
      /\ \A k \in 1..n : exchanges'[k] = exchanges[k]
  BY AddedExchange
<1>2. /\ Chunk(x, ins) /\ "more" \notin x.apdu.p2
      /\ \E j \in 1..(n + 1) :
           /\ IF j = n + 1
              THEN "extend" \notin x.apdu.p2
              ELSE IsRun(ins, j, n) /\ "extend" \in x.apdu.p2
           /\ IsConcat(payload, Append(Pieces(j, n), x.apdu.data))
  BY DEF UploadShown, Chunk
<1>3. PICK j \in 1..(n + 1) :
           /\ IF j = n + 1
              THEN "extend" \notin x.apdu.p2
              ELSE IsRun(ins, j, n) /\ "extend" \in x.apdu.p2
           /\ IsConcat(payload, Append(Pieces(j, n), x.apdu.data))
  BY <1>2
<1>4. Pieces(j, n + 1)' = Append(Pieces(j, n), x.apdu.data)
  BY PiecesGrow
<1>5. j # n + 1 => IsRun(ins, j, n)'
  <2> SUFFICES ASSUME j # n + 1 PROVE IsRun(ins, j, n)'
    OBVIOUS
  <2>1. j \in Nat \ {0} /\ n <= n /\ j <= n
    BY <1>1
  <2> QED
    BY <1>1, <1>3, <2>1, PastStays
<1>6. (n + 1) - 1 = n
  BY <1>1
<1>7. Chunk(exchanges[n + 1], ins)'
  BY <1>1, <1>2 DEF Chunk
<1> QED
  BY <1>1, <1>2, <1>3, <1>4, <1>5, <1>6, <1>7 DEF IsUpload

(* Uploads of the past stay.                                               *)
LEMMA PastUploads ==
  ASSUME NEW n \in Nat, \A k \in 1..n : exchanges'[k] = exchanges[k],
         NEW ins, NEW i \in 1..n, NEW j \in 1..i, NEW payload, IsUpload(ins, j, i, payload)
  PROVE  IsUpload(ins, j, i, payload)'
<1>1. j \in Nat \ {0} /\ i \in Nat /\ i <= n /\ i - 1 \in Nat /\ i - 1 <= n
      /\ (i # j => j <= i - 1)
  OBVIOUS
<1>2. Pieces(j, i)' = Pieces(j, i)
  BY <1>1, PastStays
<1>3. i # j => (IsRun(ins, j, i - 1)' <=> IsRun(ins, j, i - 1))
  BY <1>1, PastStays
<1>4. exchanges'[i] = exchanges[i]
  OBVIOUS
<1> QED
  BY <1>2, <1>3, <1>4 DEF IsUpload, Chunk

(* The first two or three units of a payload.                              *)
LEMMA Beginning ==
  ASSUME NEW S, NEW payload \in Seq(S)
  PROVE  /\ Len(payload) >= 2 => SubSeq(payload, 1, 2) = <<payload[1], payload[2]>>
         /\ Len(payload) >= 3 =>
              SubSeq(payload, 1, 3) = <<payload[1], payload[2], payload[3]>>
<1>1. Len(payload) \in Nat /\ \A i \in 1..Len(payload) : payload[i] \in S
  BY LenProperties
<1>2. ASSUME Len(payload) >= 2 PROVE SubSeq(payload, 1, 2) = <<payload[1], payload[2]>>
  <2> DEFINE s == SubSeq(payload, 1, 2)
             t == <<payload[1], payload[2]>>
  <2>1. \A i \in 1..2 : payload[i] \in S
    BY <1>1, <1>2
  <2>2. /\ s \in Seq(S) /\ Len(s) = 2
        /\ \A i \in 1..2 : s[i] = payload[i]
    BY <2>1, SubSeqProperties
  <2>3. /\ t \in Seq(S) /\ Len(t) = 2
        /\ \A i \in 1..2 : t[i] = payload[i]
    BY <2>1
  <2> HIDE DEF s, t
  <2>4. s = t
    BY <2>2, <2>3, SeqEqual
  <2> QED
    BY <2>4 DEF s, t
<1>3. ASSUME Len(payload) >= 3
      PROVE  SubSeq(payload, 1, 3) = <<payload[1], payload[2], payload[3]>>
  <2> DEFINE s == SubSeq(payload, 1, 3)
             t == <<payload[1], payload[2], payload[3]>>
  <2>1. \A i \in 1..3 : payload[i] \in S
    BY <1>1, <1>3
  <2>2. /\ s \in Seq(S) /\ Len(s) = 3
        /\ \A i \in 1..3 : s[i] = payload[i]
    BY <2>1, SubSeqProperties
  <2>3. /\ t \in Seq(S) /\ Len(t) = 3
        /\ \A i \in 1..3 : t[i] = payload[i]
    BY <2>1
  <2> HIDE DEF s, t
  <2>4. s = t
    BY <2>2, <2>3, SeqEqual
  <2> QED
    BY <2>4 DEF s, t
<1> QED
  BY <1>2, <1>3

(* A payload that parses is its version, its path and its message.         *)
LEMMA SignPayloadIs ==
  ASSUME NEW payload \in Seq(Units), NEW parsed, parsed = parse_sign_payload(payload),
         parsed.sw = "Ok"
  PROVE  payload = <<1, parsed.path>> \o parsed.message
<1>1. /\ Len(payload) \in Nat /\ Len(payload) >= 3 /\ payload[1] = 1
      /\ parsed.path = payload[2] /\ parsed.message = SubSeq(payload, 3, Len(payload))
  <2>1. Len(payload) \in Nat
    BY LenProperties
  <2> QED
    BY <2>1 DEF parse_sign_payload
<1>2. SubSeq(payload, 1, 2) = <<1, parsed.path>>
  BY <1>1, Beginning
<1>3. SubSeq(payload, 1, 2) \o SubSeq(payload, 3, Len(payload)) = payload
  <2>1. /\ 1 \in 1..(Len(payload) + 1) /\ 2 \in (1 - 1)..Len(payload)
        /\ Len(payload) \in 2..Len(payload)
    BY <1>1
  <2>2. SubSeq(payload, 1, 2) \o SubSeq(payload, 2 + 1, Len(payload))
          = SubSeq(payload, 1, Len(payload))
    BY <2>1, ConcatAdjacentSubSeq
  <2> QED
    BY <2>2, SubSeqFull
<1> QED
  BY <1>1, <1>2, <1>3

(* An import payload that parses is version, count and length, the         *)
(* attestations and the IDL text.                                          *)
LEMMA ImportPayloadIs ==
  ASSUME NEW payload \in Seq(Units), NEW prepared, prepared = prepare_idl_import(payload),
         prepared.sw = "Ok"
  PROVE  /\ Len(prepared.attestations) \in Nat /\ Len(prepared.idl) \in Nat
         /\ payload = <<1, Len(prepared.attestations), Len(prepared.idl)>>
                      \o prepared.attestations \o prepared.idl
<1>1. /\ payload[2] \in 1..MaxAttestations /\ payload[3] \in 1..MaxImportedIdl
      /\ Len(payload) = 3 + payload[2] + payload[3] /\ payload[1] = 1
      /\ prepared.attestations = SubSeq(payload, 4, 3 + payload[2])
      /\ prepared.idl = SubSeq(payload, 4 + payload[2], Len(payload))
  <2> DEFINE parsed == parse_import_payload(payload)
  <2>1. parsed.sw = "Ok" /\ prepared.attestations = parsed.attestations
        /\ prepared.idl = parsed.idl
    BY DEF prepare_idl_import
  <2> QED
    BY <2>1 DEF parse_import_payload
<1>2. PICK count \in Nat \ {0}, size \in Nat \ {0} : payload[2] = count /\ payload[3] = size
  <2>1. MaxAttestations \in Nat /\ MaxImportedIdl \in Nat
    BY ConstantsAssumption
  <2>2. \A m \in Nat : \A k \in 1..m : k \in Nat \ {0}
    OBVIOUS
  <2>3. payload[2] \in Nat \ {0} /\ payload[3] \in Nat \ {0}
    BY <1>1, <2>1, <2>2
  <2> QED
    BY <2>3
<1>3. Len(payload) = 3 + count + size /\ Len(payload) >= 3
  BY <1>1, <1>2
<1>4. \A i \in 1..Len(payload) : payload[i] \in Units
  BY LenProperties
<1> DEFINE attestations == SubSeq(payload, 4, 3 + count)
           idl == SubSeq(payload, 4 + count, Len(payload))
<1>5. Len(attestations) = count
  <2>1. \A i \in 4..(3 + count) : payload[i] \in Units
    BY <1>3, <1>4
  <2> QED
    BY <2>1, SubSeqProperties
<1>6. Len(idl) = size
  <2>1. \A i \in (4 + count)..Len(payload) : payload[i] \in Units
    BY <1>3, <1>4
  <2> QED
    BY <1>3, <2>1, SubSeqProperties
<1>7. SubSeq(payload, 1, 3) = <<1, count, size>>
  BY <1>1, <1>2, <1>3, Beginning
<1>8. SubSeq(payload, 1, 3) \o attestations = SubSeq(payload, 1, 3 + count)
  <2>1. /\ 1 \in 1..(Len(payload) + 1) /\ 3 \in (1 - 1)..Len(payload)
        /\ 3 + count \in 3..Len(payload)
    BY <1>3
  <2>2. SubSeq(payload, 1, 3) \o SubSeq(payload, 3 + 1, 3 + count)
          = SubSeq(payload, 1, 3 + count)
    BY <2>1, ConcatAdjacentSubSeq
  <2> QED
    BY <2>2
<1>9. SubSeq(payload, 1, 3 + count) \o idl = payload
  <2> DEFINE k == 3 + count
  <2>1. /\ 1 \in 1..(Len(payload) + 1) /\ k \in (1 - 1)..Len(payload)
        /\ Len(payload) \in k..Len(payload) /\ k + 1 = 4 + count
    BY <1>3
  <2> HIDE DEF k
  <2>2. SubSeq(payload, 1, k) \o SubSeq(payload, k + 1, Len(payload))
          = SubSeq(payload, 1, Len(payload))
    BY <2>1, ConcatAdjacentSubSeq
  <2> QED
    BY <2>1, <2>2, SubSeqFull DEF k
<1>10. prepared.attestations = attestations /\ prepared.idl = idl
  BY <1>1, <1>2
<1> HIDE DEF attestations, idl
<1>11. payload = <<1, count, size>> \o attestations \o idl
  BY <1>7, <1>8, <1>9
<1> QED
  BY <1>5, <1>6, <1>10, <1>11

-----------------------------------------------------------------------------
(* A step adds at most one exchange, and one with a signature or an import *)
(* answers the review with what the context holds.                         *)
SignedFrom(x) ==
  LET parsed == parse_sign_payload(sign_context.payload)
  IN  /\ screen.name = "review_message" /\ x.apdu = screen.apdu
      /\ parsed.sw = "Ok" /\ x.out = <<parsed.path, parsed.message>>

ImportedFrom(x) ==
  LET prepared == prepare_idl_import(load_idl_context.payload)
  IN  /\ screen.name = "review_idl_import" /\ x.apdu = screen.apdu
      /\ prepared.sw = "Ok" /\ verify_attestations(prepared)
      /\ x.out = <<prepared.program_id, Len(prepared.attestations), Len(prepared.idl)>>

(* No step adds a signature or an import from anywhere else.               *)
LEMMA WhatIsAdded ==
  ASSUME IInv, [Next]_vars
  PROVE  \/ UNCHANGED exchanges
         \/ \E x \in Exchange :
              /\ Adds(x)
              /\ IsSignature(x) => SignedFrom(x)
              /\ IsImport(x) => ImportedFrom(x)
<1>1. ASSUME NEW x \in Exchange, Adds(x), ~IsSignature(x), ~IsImport(x)
      PROVE  \E y \in Exchange :
               /\ Adds(y)
               /\ IsSignature(y) => SignedFrom(y)
               /\ IsImport(y) => ImportedFrom(y)
  BY <1>1
<1>2. ASSUME NEW apdu \in Apdus, NEW sw \in StatusWords, NEW out \in Outputs,
             Answer(apdu, sw, out)
      PROVE  /\ [apdu |-> apdu, sw |-> sw, out |-> out] \in Exchange
             /\ Adds([apdu |-> apdu, sw |-> sw, out |-> out])
  <2>1. [apdu |-> apdu, sw |-> sw, out |-> out] \in Exchange
    BY DEF Exchange
  <2> QED
    BY <1>2, <2>1 DEF Adds, Answer
<1>3. CASE \E apdu \in Apdus, sw \in StatusWords, out \in Outputs :
             Answer(apdu, sw, out) /\ Quiet(apdu, out)
  <2>1. PICK apdu \in Apdus, sw \in StatusWords, out \in Outputs :
          Answer(apdu, sw, out) /\ Quiet(apdu, out)
    BY <1>3
  <2> DEFINE x == [apdu |-> apdu, sw |-> sw, out |-> out]
  <2>2. x \in Exchange /\ Adds(x)
    BY <1>2, <2>1
  <2>3. ~IsSignature(x) /\ ~IsImport(x)
    BY <2>1 DEF Quiet, IsSignature, IsImport
  <2> HIDE DEF x
  <2> QED
    BY <1>1, <2>2, <2>3
<1>4. CASE exchanges' = Append(exchanges, [apdu |-> Restarted, sw |-> "Ok", out |-> <<>>])
  <2>1. PICK x \in Exchange : Adds(x) /\ x.apdu = Restarted
    BY <1>4, RestartedAdds
  <2>2. ~IsSignature(x) /\ ~IsImport(x)
    BY <2>1 DEF IsSignature, IsImport, Restarted, BrokenApdu
  <2> QED
    BY <1>1, <2>1, <2>2
<1>5. CASE ApproveMessage
  <2> DEFINE parsed == parse_sign_payload(sign_context.payload)
  <2>1. /\ screen.name = "review_message"
        /\ \/ Answer(screen.apdu, "Ok", <<parsed.path, parsed.message>>)
           \/ \E sw \in {"KeyDeriveFail", "ConditionsNotSatisfied"} :
                Answer(screen.apdu, sw, <<>>)
    BY <1>5 DEF ApproveMessage
  <2>2. parsed.sw = "Ok" /\ parsed.path \in Paths /\ parsed.message \in Seq(Units)
    BY <2>1, ParseSignType DEF IInv, TypeOK, Contexts, ReviewsAreCurrent, MessageReviewIsCurrent
  <2>3. screen.apdu \in Apdus /\ screen.apdu.ins = "sign"
    BY <2>1, ScreenType DEF IInv
  <2>4. CASE Answer(screen.apdu, "Ok", <<parsed.path, parsed.message>>)
    <3> DEFINE out == <<parsed.path, parsed.message>>
               x == [apdu |-> screen.apdu, sw |-> "Ok", out |-> out]
    <3>1. out \in Outputs
      BY <2>2 DEF Outputs
    <3>2. x \in Exchange /\ Adds(x)
      BY <1>2, <2>3, <2>4, <3>1 DEF StatusWords
    <3>3. x.apdu = screen.apdu /\ x.out = out
      OBVIOUS
    <3> HIDE DEF x
    <3>4. SignedFrom(x) /\ ~IsImport(x)
      BY <2>1, <2>2, <2>3, <3>3 DEF SignedFrom, IsImport
    <3> QED
      BY <3>2, <3>4
  <2>5. CASE \E sw \in {"KeyDeriveFail", "ConditionsNotSatisfied"} : Answer(screen.apdu, sw, <<>>)
    BY <1>3, <2>3, <2>5, NoOutput DEF Quiet, StatusWords
  <2> QED
    BY <2>1, <2>4, <2>5
<1>6. CASE ApproveImport
  <2> DEFINE prepared == prepare_idl_import(load_idl_context.payload)
             out == <<prepared.program_id, Len(prepared.attestations), Len(prepared.idl)>>
  <2>1. /\ screen.name = "review_idl_import"
        /\ \/ Answer(screen.apdu, "Ok", out)
           \/ exchanges' = Append(exchanges, [apdu |-> Restarted, sw |-> "Ok", out |-> <<>>])
    BY <1>6 DEF ApproveImport
  <2>2. /\ prepared.sw = "Ok" /\ verify_attestations(prepared)
        /\ load_idl_context.payload \in Seq(Units)
    BY <2>1 DEF IInv, TypeOK, Contexts, ReviewsAreCurrent, ImportReviewIsCurrent
  <2>3. /\ prepared.program_id \in Programs /\ prepared.idl \in Seq(Units)
        /\ Len(prepared.attestations) \in Nat
    BY <2>2, PrepareType, ConstantsAssumption
  <2>4. screen.apdu \in Apdus /\ screen.apdu.ins = "load_idl"
    BY <2>1, ScreenType DEF IInv
  <2>5. CASE Answer(screen.apdu, "Ok", out)
    <3> DEFINE x == [apdu |-> screen.apdu, sw |-> "Ok", out |-> out]
    <3> HIDE DEF prepared
    <3>1. out \in Outputs
      BY <2>3, LenProperties DEF Outputs
    <3>2. x \in Exchange /\ Adds(x)
      BY <1>2, <2>4, <2>5, <3>1 DEF StatusWords
    <3>3. x.apdu = screen.apdu /\ x.out = out
      OBVIOUS
    <3> HIDE DEF x
    <3>4. ImportedFrom(x) /\ ~IsSignature(x)
      BY <2>1, <2>2, <2>4, <3>3 DEF ImportedFrom, IsSignature, prepared
    <3> QED
      BY <3>2, <3>4
  <2>6. CASE exchanges' = Append(exchanges, [apdu |-> Restarted, sw |-> "Ok", out |-> <<>>])
    BY <1>4, <2>6
  <2> QED
    BY <2>1, <2>5, <2>6
<1> QED
  BY <1>3, <1>4, <1>5, <1>6, NextShape DEF StepShape, Restart

(* What an import answer says of its upload.                               *)
ImportUpload(i, answer) ==
  \E j \in 1..i, idl \in DOMAIN ProgramOf, a \in [1..(answer[2]) -> Attestations] :
    /\ ProgramOf[idl] = answer[1] /\ Len(idl) = answer[3]
    /\ \A k \in 1..(answer[2]) : Attests(a[k], idl)
    /\ IsUpload("load_idl", j, i, <<1, answer[2], answer[3]>> \o a \o idl)

(* Signatures and imports of the past keep their uploads.                  *)
LEMMA PastSignatures ==
  ASSUME SignedOneUpload, NEW n \in Nat, n = Len(exchanges),
         \A k \in 1..n : exchanges'[k] = exchanges[k],
         NEW i \in 1..n, IsSignature(exchanges'[i]), NEW signed, signed = exchanges'[i].out
  PROVE  \E j \in 1..i : IsUpload("sign", j, i, <<1, signed[1]>> \o signed[2])'
<1>1. exchanges'[i] = exchanges[i]
  OBVIOUS
<1>2. PICK j \in 1..i : IsUpload("sign", j, i, <<1, signed[1]>> \o signed[2])
  BY <1>1 DEF SignedOneUpload
<1> DEFINE payload == <<1, signed[1]>> \o signed[2]
<1> HIDE DEF payload
<1>3. IsUpload("sign", j, i, payload)
  BY <1>2 DEF payload
<1>4. IsUpload("sign", j, i, payload)'
  BY <1>3, PastUploads
<1> QED
  BY <1>4 DEF payload

(* The same of imports.                                                    *)
LEMMA PastImports ==
  ASSUME ImportedOneUpload, NEW n \in Nat, n = Len(exchanges),
         \A k \in 1..n : exchanges'[k] = exchanges[k],
         NEW i \in 1..n, IsImport(exchanges'[i]), NEW answer, answer = exchanges'[i].out
  PROVE  ImportUpload(i, answer)'
<1>1. exchanges'[i] = exchanges[i]
  OBVIOUS
<1>2. ImportUpload(i, answer)
  BY <1>1 DEF ImportedOneUpload, ImportUpload
<1>3. PICK j \in 1..i, idl \in DOMAIN ProgramOf, a \in [1..(answer[2]) -> Attestations] :
        /\ ProgramOf[idl] = answer[1] /\ Len(idl) = answer[3]
        /\ \A k \in 1..(answer[2]) : Attests(a[k], idl)
        /\ IsUpload("load_idl", j, i, <<1, answer[2], answer[3]>> \o a \o idl)
  BY <1>2 DEF ImportUpload
<1> DEFINE payload == <<1, answer[2], answer[3]>> \o a \o idl
<1> HIDE DEF payload
<1>4. IsUpload("load_idl", j, i, payload)
  BY <1>3 DEF payload
<1>5. IsUpload("load_idl", j, i, payload)'
  BY <1>4, PastUploads
<1> QED
  BY <1>3, <1>5 DEF ImportUpload, payload, Attests, attestation_message

(* Every signature is for one uninterrupted upload.                        *)
THEOREM EverySignatureIsOneUpload == Spec => []SignedOneUpload
<1>1. Init => SignedOneUpload
  BY EmptySeq DEF Init, SignedOneUpload
<1>2. HInv /\ HInv' /\ SignedOneUpload /\ [Next]_vars => SignedOneUpload'
  <2> SUFFICES ASSUME HInv, HInv', SignedOneUpload, [Next]_vars PROVE SignedOneUpload'
    OBVIOUS
  <2>1. IInv /\ TypeOK /\ TypeOK' /\ UploadShown("sign")
    BY DEF HInv, IInv, Uploading
  <2>2. CASE UNCHANGED exchanges
    <3>1. PICK n \in Nat : n = Len(exchanges)
      BY <2>1, LenProperties DEF TypeOK
    <3>2. Len(exchanges') = n /\ \A k \in 1..n : exchanges'[k] = exchanges[k]
      BY <2>2, <3>1
    <3>3. ASSUME NEW i \in 1..n, IsSignature(exchanges'[i]),
                 NEW signed, signed = exchanges'[i].out
          PROVE  \E j \in 1..i : IsUpload("sign", j, i, <<1, signed[1]>> \o signed[2])'
      BY <3>1, <3>2, <3>3, PastSignatures
    <3> QED
      BY <3>2, <3>3 DEF SignedOneUpload, IsSignature, IsUpload
  <2>3. CASE \E x \in Exchange : Adds(x) /\ (IsSignature(x) => SignedFrom(x))
    <3>1. PICK x \in Exchange : Adds(x) /\ (IsSignature(x) => SignedFrom(x))
      BY <2>3
    <3>2. PICK n \in Nat : n = Len(exchanges)
      BY <2>1, LenProperties DEF TypeOK
    <3>3. /\ Len(exchanges') = n + 1 /\ exchanges'[n + 1] = x
          /\ \A k \in 1..n : exchanges'[k] = exchanges[k]
      BY <2>1, <3>1, <3>2, AddedExchange
    <3>4. ASSUME NEW i \in 1..(n + 1), IsSignature(exchanges'[i]),
                 NEW signed, signed = exchanges'[i].out
          PROVE  \E j \in 1..i : IsUpload("sign", j, i, <<1, signed[1]>> \o signed[2])'
      <4>1. CASE i \in 1..n
        BY <3>2, <3>3, <3>4, <4>1, PastSignatures
      <4>2. CASE i = n + 1
        <5>1. PICK payload : payload = sign_context.payload
          OBVIOUS
        <5>2. PICK parsed : parsed = parse_sign_payload(payload)
          OBVIOUS
        <5>3. /\ screen.name = "review_message" /\ x.apdu = screen.apdu
              /\ parsed.sw = "Ok" /\ signed = <<parsed.path, parsed.message>>
          BY <3>1, <3>3, <3>4, <4>2, <5>1, <5>2 DEF SignedFrom
        <5>4. payload \in Seq(Units)
          BY <2>1, <5>1 DEF TypeOK, Contexts
        <5>5. payload = <<1, signed[1]>> \o signed[2]
          BY <5>2, <5>3, <5>4, SignPayloadIs
        <5>6. "sign" \in Uploading /\ ReviewOf("sign") = "review_message"
              /\ payload = Context("sign").payload
          BY <5>1 DEF Uploading, ReviewOf, Context
        <5>7. \E j \in 1..(n + 1) : IsUpload("sign", j, n + 1, payload)'
          BY <2>1, <3>1, <3>2, <5>3, <5>6, AnswerCompletes
        <5> QED
          BY <4>2, <5>5, <5>7
      <4> QED
        BY <4>1, <4>2
    <3> QED
      BY <3>3, <3>4 DEF SignedOneUpload, IsSignature, IsUpload
  <2> QED
    BY <2>1, <2>2, <2>3, WhatIsAdded
<1> QED
  BY <1>1, <1>2, HistoryInvariance, PTL DEF Spec

(* Every import is of one uninterrupted upload with its attestations.      *)
THEOREM EveryImportIsOneUpload == Spec => []ImportedOneUpload
<1>1. Init => ImportedOneUpload
  BY EmptySeq DEF Init, ImportedOneUpload
<1>2. HInv /\ HInv' /\ ImportedOneUpload /\ [Next]_vars => ImportedOneUpload'
  <2> SUFFICES ASSUME HInv, HInv', ImportedOneUpload, [Next]_vars PROVE ImportedOneUpload'
    OBVIOUS
  <2>1. IInv /\ TypeOK /\ TypeOK' /\ UploadShown("load_idl")
    BY DEF HInv, IInv, Uploading
  <2>2. CASE UNCHANGED exchanges
    <3>1. PICK n \in Nat : n = Len(exchanges)
      BY <2>1, LenProperties DEF TypeOK
    <3>2. Len(exchanges') = n /\ \A k \in 1..n : exchanges'[k] = exchanges[k]
      BY <2>2, <3>1
    <3>3. ASSUME NEW i \in 1..n, IsImport(exchanges'[i]),
                 NEW answer, answer = exchanges'[i].out
          PROVE  ImportUpload(i, answer)'
      BY <3>1, <3>2, <3>3, PastImports
    <3> QED
      BY <3>2, <3>3 DEF ImportedOneUpload, ImportUpload, IsImport, IsUpload
  <2>3. CASE \E x \in Exchange : Adds(x) /\ (IsImport(x) => ImportedFrom(x))
    <3>1. PICK x \in Exchange : Adds(x) /\ (IsImport(x) => ImportedFrom(x))
      BY <2>3
    <3>2. PICK n \in Nat : n = Len(exchanges)
      BY <2>1, LenProperties DEF TypeOK
    <3>3. /\ Len(exchanges') = n + 1 /\ exchanges'[n + 1] = x
          /\ \A k \in 1..n : exchanges'[k] = exchanges[k]
      BY <2>1, <3>1, <3>2, AddedExchange
    <3>4. ASSUME NEW i \in 1..(n + 1), IsImport(exchanges'[i]),
                 NEW answer, answer = exchanges'[i].out
          PROVE  ImportUpload(i, answer)'
      <4>1. CASE i \in 1..n
        BY <3>2, <3>3, <3>4, <4>1, PastImports
      <4>2. CASE i = n + 1
        <5>1. PICK payload : payload = load_idl_context.payload
          OBVIOUS
        <5>2. PICK prepared : prepared = prepare_idl_import(payload)
          OBVIOUS
        <5>3. /\ screen.name = "review_idl_import" /\ x.apdu = screen.apdu
              /\ prepared.sw = "Ok" /\ verify_attestations(prepared)
              /\ answer = <<prepared.program_id, Len(prepared.attestations), Len(prepared.idl)>>
          BY <3>1, <3>3, <3>4, <4>2, <5>1, <5>2 DEF ImportedFrom
        <5>4. payload \in Seq(Units)
          BY <2>1, <5>1 DEF TypeOK, Contexts
        <5>5. PICK a, idl, count, size :
                /\ a = prepared.attestations /\ idl = prepared.idl
                /\ count = Len(a) /\ size = Len(idl)
          OBVIOUS
        <5>6. /\ count \in Nat /\ payload = <<1, count, size>> \o a \o idl
              /\ answer[1] = prepared.program_id /\ answer[2] = count /\ answer[3] = size
          BY <5>2, <5>3, <5>4, <5>5, ImportPayloadIs
        <5>7. /\ idl \in DOMAIN ProgramOf /\ ProgramOf[idl] = prepared.program_id
              /\ a \in Seq(Units)
          BY <5>2, <5>3, <5>4, <5>5, PrepareType
        <5>8. \A k \in 1..count : Attests(a[k], idl) /\ a[k] \in Attestations
          BY <5>3, <5>5 DEF verify_attestations, Attests
        <5>9. a \in [1..count -> Attestations]
          <6>1. a = [k \in 1..count |-> a[k]]
            BY <5>5, <5>7, LenProperties
          <6> QED
            BY <5>8, <6>1
        <5>10. "load_idl" \in Uploading /\ ReviewOf("load_idl") = "review_idl_import"
               /\ payload = Context("load_idl").payload
          BY <5>1 DEF Uploading, ReviewOf, Context
        <5>11. \E j \in 1..(n + 1) : IsUpload("load_idl", j, n + 1, payload)'
          BY <2>1, <3>1, <3>2, <5>3, <5>10, AnswerCompletes
        <5>12. \A k \in 1..count : Attests(a[k], idl)'
          BY <5>8 DEF Attests, attestation_message
        <5> QED
          BY <4>2, <5>5, <5>6, <5>7, <5>9, <5>11, <5>12 DEF ImportUpload
      <4> QED
        BY <4>1, <4>2
    <3> QED
      BY <3>3, <3>4 DEF ImportedOneUpload, ImportUpload, IsImport, IsUpload
  <2> QED
    BY <2>1, <2>2, <2>3, WhatIsAdded
<1> QED
  BY <1>1, <1>2, HistoryInvariance, PTL DEF Spec

-----------------------------------------------------------------------------
(* How an old review comes to stay on the screen: it was there and a       *)
(* command was refused, or the signing it asked for failed.                *)
StaysOld(x) ==
  /\ x.sw \notin {"Ok", "Deny"} /\ x.apdu # Restarted
  /\ \/ screen = LeftOver
     \/ x.apdu.ins = "sign" /\ x.sw \in {"KeyDeriveFail", "ConditionsNotSatisfied"}

OldScreenStep ==
  screen' = LeftOver =>
    \/ screen = LeftOver /\ UNCHANGED exchanges
    \/ \E x \in Exchange : Adds(x) /\ StaysOld(x)

(* An answer given while the app waited.                                   *)
LEMMA ServedOld ==
  ASSUME Waiting, NEW apdu \in Apdus, NEW sw \in StatusWords, NEW out \in Outputs,
         Answer(apdu, sw, out), apdu.ins # "restart"
  PROVE  OldScreenStep
<1> SUFFICES ASSUME screen' = LeftOver PROVE \E x \in Exchange : Adds(x) /\ StaysOld(x)
  BY DEF OldScreenStep
<1> DEFINE x == [apdu |-> apdu, sw |-> sw, out |-> out]
<1>1. x \in Exchange
  BY DEF Exchange
<1>2. Adds(x)
  BY <1>1 DEF Adds, Answer
<1>3. screen = LeftOver /\ sw \notin {"Ok", "Deny"}
  BY DEF Answer, ScreenAfter, Home, LeftOver
<1>4. x.apdu # Restarted
  BY DEF Restarted, BrokenApdu
<1>5. x.sw = sw
  OBVIOUS
<1> HIDE DEF x
<1>6. StaysOld(x)
  BY <1>3, <1>4, <1>5 DEF StaysOld
<1> QED
  BY <1>1, <1>2, <1>6

(* A command served leaves an old review only where there was one.         *)
LEMMA ServeOld == IInv /\ Serve => OldScreenStep
<1> SUFFICES ASSUME IInv, Serve PROVE OldScreenStep
  OBVIOUS
<1>1. Waiting
  BY DEF Serve, RefuseHeader, RefuseBrokenApdu, HandleGetAppConfig, HandleGetPubkey,
         HandleSignMessage, HandleLoadIdl, CanServe
<1>2. CASE RefuseHeader
  <2>1. BadHeader \in Apdus /\ BadHeader.ins # "restart"
    BY ApduType DEF BadHeader, BrokenApdu
  <2> QED
    BY <1>1, <1>2, <2>1, NoOutput, ServedOld DEF RefuseHeader, StatusWords
<1>3. CASE RefuseBrokenApdu
  <2>1. PICK ins \in Instructions \ {"app_config"}, p2 \in SUBSET {"extend", "more"} :
          Answer(BrokenApdu(ins, p2), "WrongApduLength", <<>>)
    BY <1>3 DEF RefuseBrokenApdu
  <2>2. /\ BrokenApdu(ins, p2) \in Apdus /\ BrokenApdu(ins, p2).ins # "restart"
        /\ "WrongApduLength" \in StatusWords
    BY ApduType DEF BrokenApdu, Instructions, StatusWords
  <2> QED
    BY <1>1, <2>1, <2>2, NoOutput, ServedOld
<1>4. CASE HandleGetAppConfig
  <2>1. /\ Apdu("app_config", {}, <<>>) \in Apdus /\ "Ok" \in StatusWords
        /\ Apdu("app_config", {}, <<>>).ins # "restart"
    BY ApduType, EmptySeq DEF Apdu, Instructions, StatusWords
  <2> QED
    BY <1>1, <1>4, <2>1, NoOutput, ServedOld DEF HandleGetAppConfig
<1>5. CASE HandleGetPubkey
  <2>1. CASE \E apdu \in Apdus, sw \in StatusWords, out \in PubkeyOutputs :
               Answer(apdu, sw, out) /\ apdu.ins \in {"pubkey", "pubkey_display"}
    BY <1>1, <2>1, PubkeyOutputsAreOutputs, ServedOld
  <2>2. CASE \E apdu \in ApdusOf("pubkey_display"), path \in Paths :
               screen' = ReviewAddress(apdu, path)
    BY <2>2 DEF OldScreenStep, ReviewAddress, LeftOver
  <2> QED
    BY <1>5, <2>1, <2>2, HandleGetPubkeyCases
<1>6. CASE HandleSignMessage
  <2>1. PICK apdu \in ApdusOf("sign"), ctx \in Contexts(Units) :
          SignPayload(apdu, ctx) \/ \E sw \in StatusWords : Answer(apdu, sw, <<>>)
    BY <1>6, HandleSignMessageCases
  <2>2. parse_sign_payload(ctx.payload).sw \in StatusWords
    BY ParseSignType DEF Contexts, StatusWords
  <2>3. \/ screen'.name = "review_message"
        \/ \E sw \in StatusWords : Answer(apdu, sw, <<>>)
    BY <2>1, <2>2 DEF SignPayload, StatusWords, ReviewMessage
  <2>4. apdu \in Apdus /\ apdu.ins # "restart"
    BY DEF ApdusOf
  <2>5. screen'.name = "review_message" => OldScreenStep
    BY DEF OldScreenStep, LeftOver
  <2> QED
    BY <1>1, <2>3, <2>4, <2>5, NoOutput, ServedOld
<1>7. CASE HandleLoadIdl
  <2>1. PICK apdu \in ApdusOf("load_idl"), ctx \in Contexts(Units) :
          ImportPayload(apdu, ctx) \/ \E sw \in StatusWords : Answer(apdu, sw, <<>>)
    BY <1>7, HandleLoadIdlCases
  <2>2. prepare_idl_import(ctx.payload).sw \in StatusWords
    BY PrepareType DEF Contexts, StatusWords
  <2>3. \/ screen'.name = "review_idl_import"
        \/ \E sw \in StatusWords : Answer(apdu, sw, <<>>)
    BY <2>1, <2>2 DEF ImportPayload, StatusWords, ReviewImport
  <2>4. apdu \in Apdus /\ apdu.ins # "restart"
    BY DEF ApdusOf
  <2>5. screen'.name = "review_idl_import" => OldScreenStep
    BY DEF OldScreenStep, LeftOver
  <2> QED
    BY <1>1, <2>3, <2>4, <2>5, NoOutput, ServedOld
<1> QED
  BY <1>2, <1>3, <1>4, <1>5, <1>6, <1>7 DEF Serve

(* A decision leaves one only when the signing fails.                      *)
LEMMA DecideOld == IInv /\ Decide => OldScreenStep
<1> SUFFICES ASSUME IInv, Decide, screen' = LeftOver
             PROVE  \E x \in Exchange : Adds(x) /\ StaysOld(x)
  BY DEF OldScreenStep
<1>1. \A apdu, out : ~Answer(apdu, "Ok", out) /\ ~Answer(apdu, "Deny", out)
  BY DEF Answer, ScreenAfter, Home, LeftOver
<1>2. LeftOver # Home
  BY DEF Home, LeftOver
<1>3. PICK sw \in {"KeyDeriveFail", "ConditionsNotSatisfied"} : Answer(screen.apdu, sw, <<>>)
      /\ screen.name = "review_message"
  BY <1>1, <1>2 DEF Decide, ApproveAddress, RejectAddress, ApproveMessage, RejectMessage,
                    ApproveImport, RejectImport
<1>4. screen.apdu \in Apdus /\ screen.apdu.ins = "sign"
  BY <1>3, ScreenType DEF IInv
<1> DEFINE x == [apdu |-> screen.apdu, sw |-> sw, out |-> <<>>]
<1>5. x \in Exchange
  BY <1>4, NoOutput DEF Exchange, StatusWords
<1>6. Adds(x)
  BY <1>3, <1>5 DEF Adds, Answer
<1>7. x.apdu.ins = "sign" /\ x.apdu # Restarted /\ x.sw = sw
  BY <1>4 DEF Restarted, BrokenApdu
<1> HIDE DEF x
<1>8. StaysOld(x)
  BY <1>7 DEF StaysOld
<1> QED
  BY <1>5, <1>6, <1>8

(* No other step leaves an old review on the screen.                       *)
LEMMA EveryOldScreen == IInv /\ [Next]_vars => OldScreenStep
<1> SUFFICES ASSUME IInv, [Next]_vars PROVE OldScreenStep
  OBVIOUS
<1>1. CASE Menu \/ Restart \/ UNCHANGED vars
  BY <1>1 DEF Menu, OpenSettings, CloseSettings, AskRemoval, ConfirmRemove, DeclineRemove,
              Restart, vars, OldScreenStep, Home, Settings, ConfirmRemoval, LeftOver
<1> QED
  BY <1>1, ServeOld, DecideOld DEF Next

(* An old review is on the screen of an NBGL device only since a signing   *)
(* that failed.                                                            *)
THEOREM OldScreensHaveAReason == Spec => []OldScreenHasAReason
<1>1. Init => OldScreenHasAReason
  BY DEF Init, OldScreenHasAReason, Home, LeftOver
<1>2. IInv /\ OldScreenHasAReason /\ [Next]_vars => OldScreenHasAReason'
  <2> SUFFICES ASSUME IInv, OldScreenHasAReason, [Next]_vars, screen' = LeftOver
               PROVE  \E i \in 1..Len(exchanges') :
                        /\ exchanges'[i].apdu.ins = "sign"
                        /\ exchanges'[i].sw \in {"KeyDeriveFail", "ConditionsNotSatisfied"}
                        /\ \A k \in i..Len(exchanges') :
                             /\ exchanges'[k].sw \notin {"Ok", "Deny"}
                             /\ exchanges'[k].apdu # Restarted
    BY DEF OldScreenHasAReason, LeftOver, Restarted, BrokenApdu
  <2>1. CASE screen = LeftOver /\ UNCHANGED exchanges
    BY <2>1 DEF OldScreenHasAReason
  <2>2. CASE \E x \in Exchange : Adds(x) /\ StaysOld(x)
    <3>1. PICK x \in Exchange : Adds(x) /\ StaysOld(x)
      BY <2>2
    <3>2. PICK n \in Nat : n = Len(exchanges)
      BY LenProperties DEF IInv, TypeOK
    <3>3. /\ Len(exchanges') = n + 1 /\ exchanges'[n + 1] = x
          /\ \A k \in 1..n : exchanges'[k] = exchanges[k]
      BY <3>1, <3>2, AddedExchange DEF IInv
    <3>4. CASE screen = LeftOver
      <4>1. PICK i \in 1..n :
              /\ exchanges[i].apdu.ins = "sign"
              /\ exchanges[i].sw \in {"KeyDeriveFail", "ConditionsNotSatisfied"}
              /\ \A k \in i..n :
                   exchanges[k].sw \notin {"Ok", "Deny"} /\ exchanges[k].apdu # Restarted
        BY <3>2, <3>4 DEF OldScreenHasAReason
      <4>2. ASSUME NEW k \in i..(n + 1)
            PROVE  exchanges'[k].sw \notin {"Ok", "Deny"} /\ exchanges'[k].apdu # Restarted
        <5>1. CASE k = n + 1
          BY <3>1, <3>3, <5>1 DEF StaysOld
        <5>2. CASE k # n + 1
          <6>1. k \in i..n /\ k \in 1..n
            BY <5>2
          <6> QED
            BY <3>3, <4>1, <6>1
        <5> QED
          BY <5>1, <5>2
      <4>3. i \in 1..(n + 1) /\ exchanges'[i] = exchanges[i]
        BY <3>3
      <4> QED
        BY <3>3, <4>1, <4>2, <4>3
    <3>5. CASE screen # LeftOver
      <4>1. n + 1 \in 1..(n + 1) /\ \A k \in (n + 1)..(n + 1) : k = n + 1
        OBVIOUS
      <4>2. /\ x.apdu.ins = "sign" /\ x.sw \in {"KeyDeriveFail", "ConditionsNotSatisfied"}
            /\ x.sw \notin {"Ok", "Deny"} /\ x.apdu # Restarted
        BY <3>1, <3>5 DEF StaysOld
      <4> QED
        BY <3>3, <4>1, <4>2
    <3> QED
      BY <3>4, <3>5
  <2> QED
    BY <2>1, <2>2, EveryOldScreen DEF OldScreenStep
<1> QED
  BY <1>1, <1>2, Invariance, PTL DEF Spec
=============================================================================
