--------------------------- MODULE ReviewContent ---------------------------
(***************************************************************************)
(* What the review of a message says: build_sections of app_ui/            *)
(* review_scroller.rs for the Nano devices and review_instruction of       *)
(* app_ui/solana.rs for the NBGL ones.                                     *)
(*                                                                         *)
(* A text is a sequence of units: words that are never confused with one   *)
(* another, digits, bytes in hex.  Base58 and hex are one-to-one and left  *)
(* out.  The SHA-256 of the message, shown last, is left out too: the      *)
(* properties are about what can be read.                                  *)
(***************************************************************************)
EXTENDS TextLines

CONSTANTS
  Wallet,        \* the public key that signs
  ChunkBytes,    \* bytes of raw data shown as one value (16)
  Decodings,     \* [<<program key, data>> -> decoded instruction], partial
  LineWidth,     \* pixels of a line: [style -> width]
  Messages       \* messages to review: [instructions, fee_payer]

-----------------------------------------------------------------------------
(* Accounts, as account_ref of solana-message-light returns them.          *)
Lookup(account) ==
  <<"ALT", IF account.writable THEN "w" ELSE "r", ToString(account.table_index), account.table>>

format_account_ref(account) ==
  IF account.kind = "lookup" THEN Lookup(account)
  ELSE <<IF account.pubkey = Wallet THEN "<wallet>" ELSE account.pubkey>>

(* The fee payer of a message without static accounts.                     *)
NoAccount == [kind |-> "none"]

SignerOnly(account) ==   \* mutant: the writable flag is not shown
  IF account.kind = "lookup" THEN Lookup(account)
  ELSE <<account.pubkey>> \o (IF account.signer THEN <<"S">> ELSE <<>>)

(* On NBGL a static account carries its flags and the wallet is no         *)
(* exception.                                                              *)
format_with_flags(account) ==
  IF account.kind = "lookup" THEN Lookup(account)
  ELSE <<account.pubkey>> \o (IF account.signer THEN <<"S">> ELSE <<>>)
                          \o (IF account.writable THEN <<"W">> ELSE <<>>)

(* format_grouped_u64: decimal digits in groups of three from the right.   *)
format_grouped(digits) ==
  FoldLeftDomain(LAMBDA out, k :
    (IF k > 1 /\ (Len(digits) - k + 1) % 3 = 0 THEN Append(out, "_") ELSE out)
    \o <<digits[k]>>, <<>>, digits)

render_number(number, nano) ==
  (IF number.negative THEN <<"-">> ELSE <<>>)
  \o (IF nano THEN format_grouped(number.digits) ELSE number.digits)

render_key(key, nano) == <<IF nano /\ key = Wallet THEN "<wallet>" ELSE key>>

-----------------------------------------------------------------------------
(* A review is made of styled texts.  flatten is what collect_decoded_     *)
(* field(_lines) pushes for a decoded value: its leaves, under their       *)
(* dotted and indexed names.                                               *)
Styled(style, text) == <<[style |-> style, text |-> text]>>
Named(label, value) == Styled("label", label) \o Styled("value", value)

RECURSIVE flatten(_, _, _)
flatten(label, v, nano) ==
  LET field(k) == flatten(label \o <<".", v.value[k].name>>, v.value[k].value, nano)
      element(k) == flatten(label \o <<"[", ToString(k), "]">>, v.value[k], nano)
      content(k) == flatten(label, v.value[k], nano)
      each(part(_)) == FlattenSeq([k \in DOMAIN v.value |-> part(k)])
  IN  CASE v.kind = "number" -> Named(label, render_number(v.value, nano))
        [] v.kind = "boolean" -> Named(label, <<IF v.value THEN "true" ELSE "false">>)
        [] v.kind = "public_key" -> Named(label, render_key(v.value, nano))
        [] v.kind \in {"bytes", "string"} -> Named(label, v.value)
        [] v.kind = "option" -> IF v.value = <<>> THEN Named(label, <<"none">>) ELSE each(content)
        [] v.kind = "array" -> IF v.value = <<>> THEN Named(label, <<"[]">>) ELSE each(element)
        [] v.kind = "struct" -> IF v.value = <<>> THEN Named(label, <<"{}">>) ELSE each(field)
        [] v.kind = "enum" -> Named(label, <<v.name>>) \o each(field)

(* The decoder is consulted only for a program named by a static account.  *)
DecodedOf(ins) ==
  IF ins.program.kind = "static" /\ <<ins.program.pubkey, ins.data>> \in DOMAIN Decodings
  THEN <<Decodings[<<ins.program.pubkey, ins.data>>]>>
  ELSE <<>>

Program(ins) ==
  IF ins.program.kind = "lookup" THEN Lookup(ins.program) ELSE <<ins.program.pubkey>>

Arguments(decoded, nano) ==
  FlattenSeq([k \in DOMAIN decoded.arguments |->
    flatten(<<decoded.arguments[k].name>>, decoded.arguments[k].value, nano)])

AccountLabel(names, k) ==
  IF k <= Len(names) THEN <<names[k]>> ELSE <<"account", ToString(k)>>

Accounts(ins, names, nano) ==
  FlattenSeq([k \in DOMAIN ins.accounts |->
    Named(AccountLabel(names, k),
          IF nano THEN format_account_ref(ins.accounts[k])
                  ELSE format_with_flags(ins.accounts[k]))])

(* On a Nano an account called feePayer is not repeated in a decoded       *)
(* instruction: the final section shows the fee payer.                     *)
AccountsButFeePayer(ins, names) ==
  FlattenSeq([k \in DOMAIN ins.accounts |->
    IF AccountLabel(names, k) = <<"feePayer">> THEN <<>>
    ELSE Named(AccountLabel(names, k), format_account_ref(ins.accounts[k]))])

Piece(data, k) ==
  SubSeq(data, (k - 1) * ChunkBytes + 1,
         IF k * ChunkBytes < Len(data) THEN k * ChunkBytes ELSE Len(data))
WholeChunks(data) ==   \* mutant: the last, short chunk is lost
  FlattenSeq([k \in 1..(Len(data) \div ChunkBytes) |-> Named(<<"data", ToString(k)>>, Piece(data, k))])
DataChunks(data) ==
  FlattenSeq([k \in 1..((Len(data) + ChunkBytes - 1) \div ChunkBytes) |->
    Named(<<"data", ToString(k)>>, Piece(data, k))])

-----------------------------------------------------------------------------
(* The lines of the styled texts; a header is in the bold font.            *)
Wrapped(texts) ==
  FlattenSeq([k \in DOMAIN texts |->
    LET lines == wrap_text(texts[k].text, LineWidth[texts[k].style], texts[k].style = "header")
    IN  [l \in DOMAIN lines |-> [style |-> texts[k].style, text |-> lines[l]]]])

-----------------------------------------------------------------------------
(* A Nano shows one section per instruction, then the final one.  The      *)
(* counter and the program share a line when both fit.                     *)
DecodedHeader(title, decoded) ==
  LET combined == title \o <<decoded.program_name>>
  IN  (IF PixelWidth(Glyphs(combined), TRUE) <= LineWidth["header"] THEN Styled("header", combined)
       ELSE Styled("header", title) \o Styled("header", <<decoded.program_name>>))
      \o Styled("header", <<decoded.name>>)

NanoSection(m, n) ==
  LET ins == m.instructions[n]
      title == <<ToString(n), "/", ToString(Len(m.instructions))>>
  IN  IF DecodedOf(ins) = <<>>
      THEN Styled("header", title \o Program(ins))
           \o (IF ins.data = <<>> THEN Named(<<"data">>, <<"empty">>)
               ELSE Named(<<"dataLen">>, <<ToString(Len(ins.data)), "bytes">>))
           \o Accounts(ins, <<>>, TRUE)
           \o DataChunks(ins.data)
      ELSE LET decoded == DecodedOf(ins)[1]
           IN  DecodedHeader(title, decoded)
               \o Arguments(decoded, TRUE)
               \o AccountsButFeePayer(ins, decoded.account_names)

FinalSection(m) ==
  Styled("header", <<"FINAL REVIEW">>)
  \o Styled("label", <<"ixs:", ToString(Len(m.instructions))>>)
  \o (IF m.fee_payer = NoAccount THEN <<>>
      ELSE Named(<<"feePayer">>, format_account_ref(m.fee_payer)))

NanoReview(m) ==
  [n \in 1..(Len(m.instructions) + 1) |->
     Wrapped(IF n <= Len(m.instructions) THEN NanoSection(m, n)
             ELSE FinalSection(m))]

(* NBGL shows one list of fields, without the fee payer and without an     *)
(* exception among the accounts; the screen wraps them.                    *)
NbglFields(m, n) ==
  LET ins == m.instructions[n]
      title == Named(<<"Ix">>, <<ToString(n), "/", ToString(Len(m.instructions))>>)
  IN  IF DecodedOf(ins) = <<>>
      THEN title
           \o Named(<<"Program">>, Program(ins))
           \o Named(<<"Data">>, <<ToString(Len(ins.data)), "bytes">>)
           \o Accounts(ins, <<>>, FALSE)
           \o (IF ins.data = <<>> THEN Named(<<"Data">>, <<"empty">>)
               ELSE DataChunks(ins.data))
      ELSE LET decoded == DecodedOf(ins)[1]
           IN  title
               \o Named(<<"Instruction">>, <<decoded.program_name, decoded.name>>)
               \o (IF decoded.arguments = <<>> THEN Named(<<"Arguments">>, <<"none">>)
                   ELSE Arguments(decoded, FALSE))
               \o Accounts(ins, decoded.account_names, FALSE)

NbglReview(m) ==
  FlattenSeq([n \in DOMAIN m.instructions |-> NbglFields(m, n)])


-----------------------------------------------------------------------------
(* Rendering one message.                                                  *)
VARIABLES message, review
vars == <<message, review>>

Init == message \in Messages /\ review = <<>>

Render ==
  /\ review = <<>>
  /\ review' = [nano |-> NanoReview(message), nbgl |-> NbglReview(message)]
  /\ UNCHANGED message

Next == Render
Spec == Init /\ [][Next]_vars

(* What a review is to tell: the program, its decoded arguments or raw     *)
(* data, and its accounts; strings with the glyphs the font has.           *)
Key(account) ==
  IF account.kind = "static" THEN [kind |-> "static", pubkey |-> account.pubkey] ELSE account

ToldValue(v) ==
  IF v.kind = "string" THEN [v EXCEPT !.value = Glyphs(v.value)] ELSE v

Told(ins, account(_, _)) ==
  [what |-> IF DecodedOf(ins) = <<>> THEN <<Key(ins.program), ins.data>>
            ELSE LET decoded == DecodedOf(ins)[1]
                 IN  <<Key(ins.program), decoded.name,
                       [k \in DOMAIN decoded.arguments |->
                          ToldValue(decoded.arguments[k].value)]>>,
   accounts |-> [k \in DOMAIN ins.accounts |-> account(ins, k)]]

(* A Nano leaves out the flags of an account and the accounts called       *)
(* feePayer.                                                               *)
NanoAccount(ins, k) ==
  IF DecodedOf(ins) # <<>> /\ AccountLabel(DecodedOf(ins)[1].account_names, k) = <<"feePayer">>
  THEN [kind |-> "fee_payer"] ELSE Key(ins.accounts[k])
NbglAccount(ins, k) == ins.accounts[k]

ToldByNano(m) ==
  <<Key(m.fee_payer), [n \in DOMAIN m.instructions |-> Told(m.instructions[n], NanoAccount)]>>
ToldByNbgl(m) == [n \in DOMAIN m.instructions |-> Told(m.instructions[n], NbglAccount)]

(* A decoded instruction is shown with the name its IDL has for the        *)
(* program, and not with the program's id.  Nothing keeps two IDLs, of     *)
(* which one may be imported, from having one name: messages whose         *)
(* instructions differ in this way are left out below.                     *)
IdlsNamedAlike(one, other) ==
  \E n \in DOMAIN one.instructions \cap DOMAIN other.instructions :
    LET a == one.instructions[n]
        b == other.instructions[n]
    IN  /\ DecodedOf(a) # <<>> /\ DecodedOf(b) # <<>>
        /\ Key(a.program) # Key(b.program)
        /\ DecodedOf(a)[1].program_name = DecodedOf(b)[1].program_name

NanoReviews == {[shown |-> NanoReview(m), of |-> m] : m \in Messages}
NbglReviews == {[shown |-> NbglReview(m), of |-> m] : m \in Messages}

(* Hazard: two messages that look alike.  When two messages have the same  *)
(* lines on a Nano, and no two programs decoded in them have IDLs of one   *)
(* name, they have the same fee payer, and instruction by instruction the  *)
(* same program id, data or arguments, and accounts.                       *)
NanoReviewTells ==
  review # <<>> =>
    \A other \in NanoReviews :
      other.shown = review.nano /\ ~IdlsNamedAlike(message, other.of)
        => ToldByNano(other.of) = ToldByNano(message)

(* The same of the fields an NBGL device shows, with the flags of every    *)
(* account.                                                                *)
NbglReviewTells ==
  review # <<>> =>
    \A other \in NbglReviews :
      other.shown = review.nbgl /\ ~IdlsNamedAlike(message, other.of)
        => ToldByNbgl(other.of) = ToldByNbgl(message)

(* Hazard: a text that is wider than the screen.  Every text of a section  *)
(* is cut into lines that fit, and can be read off them.                   *)
WrappingKeepsText ==
  \A n \in DOMAIN message.instructions :
    \A k \in DOMAIN NanoSection(message, n) :
      LET styled == NanoSection(message, n)[k]
      IN  KeepsText(styled.text, LineWidth[styled.style], styled.style = "header")
=============================================================================
