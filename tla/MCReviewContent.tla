-------------------------- MODULE MCReviewContent --------------------------
(***************************************************************************)
(* Small messages for ReviewContent: raw instructions with every data of   *)
(* at most three bytes and every account list of at most two, and decoded  *)
(* instructions, one per kind of argument.  Decoded values of one kind of  *)
(* argument have one type, as in an IDL; no option holds an option or a    *)
(* string, for "none" could then be either.                                *)
(***************************************************************************)
EXTENDS ReviewContent

Static(key, signer, writable) ==
  [kind |-> "static", pubkey |-> key, signer |-> signer, writable |-> writable]
Table(index, writable) ==
  [kind |-> "lookup", table |-> "table", table_index |-> index, writable |-> writable]

MCAccounts == {Static("wallet", TRUE, TRUE), Static("other", FALSE, TRUE),
               Static("other", FALSE, FALSE), Table(1, TRUE), Table(1, FALSE)}

Number(negative, digits) ==
  [kind |-> "number", value |-> [negative |-> negative, digits |-> digits]]
Value(kind, value) == [kind |-> kind, value |-> value]
Field(name, value) == [name |-> name, value |-> value]
One == Number(FALSE, <<"1">>)
Two == Number(FALSE, <<"2">>)

(* The arguments an instruction of each name can carry.                    *)
Samples ==
  [number  |-> <<One, Number(TRUE, <<"1">>), Number(FALSE, <<"1", "0", "0", "0">>),
                 Number(FALSE, <<"1", "0", "0">>), Number(FALSE, <<"1", "0", "1", "0">>)>>,
   key     |-> <<Value("public_key", "wallet"), Value("public_key", "other")>>,
   bytes   |-> <<Value("bytes", <<>>), Value("bytes", <<"01">>), Value("bytes", <<"01", "02">>)>>,
   string  |-> <<Value("string", <<>>), Value("string", <<"none">>),
                 Value("string", <<"accent">>), Value("string", <<"umlaut">>)>>,
   option  |-> <<Value("option", <<>>), Value("option", <<One>>), Value("option", <<Two>>)>>,
   array   |-> <<Value("array", <<>>), Value("array", <<One>>), Value("array", <<One, Two>>),
                 Value("array", <<Two, One>>)>>,
   struct  |-> <<Value("struct", <<Field("a", One), Field("b", Value("boolean", TRUE))>>),
                 Value("struct", <<Field("a", One), Field("b", Value("boolean", FALSE))>>),
                 Value("struct", <<Field("a", Two), Field("b", Value("boolean", TRUE))>>)>>,
   enum    |-> <<[kind |-> "enum", name |-> "A", value |-> <<>>],
                 [kind |-> "enum", name |-> "B", value |-> <<Field("x", One)>>],
                 [kind |-> "enum", name |-> "B", value |-> <<Field("x", Two)>>]>>,
   nothing |-> <<>>]

Names == DOMAIN Samples
NoSample == Value("none", <<>>)
Sample(data) ==
  LET numbered == {k \in DOMAIN Samples[data[1]] : ToString(k) = data[2]}
  IN  IF numbered = {} THEN NoSample ELSE Samples[data[1]][CHOOSE k \in numbered : TRUE]

(* Data <<name, k>> of the program decodes to the k-th sample of the name. *)
(* The IDL of a third program has the name of the first one's.             *)
MCDecodings ==
  [pair \in {<<"program", <<name, ToString(k)>>>> : name \in Names, k \in 1..5}
            \cup {<<"program2", <<"nothing", "1">>>>}
            \cup {<<"program3", <<name, "1">>>> : name \in {"nothing", "number"}} |->
     [program_name  |-> IF pair[1] = "program2" THEN "long_name" ELSE "sample",
      name          |-> pair[2][1],
      arguments     |-> SelectSeq(<<Field("arg", Sample(pair[2]))>>, LAMBDA f : f.value # NoSample),
      account_names |-> <<"feePayer", "to">>]]

Raw(program, accounts, data) ==
  [program |-> program, accounts |-> accounts, data |-> data]

RawInstructions ==
  {Raw(program, accounts, data) :
     program \in {Static("raw", FALSE, FALSE), Table(1, FALSE)},
     accounts \in BoundedSeq(MCAccounts, 2),
     data \in BoundedSeq({"01", "02"}, 3)}

DecodedInstructions ==
  {Raw(Static(pair[1], FALSE, FALSE), accounts, pair[2]) :
     accounts \in {<<a, b>> : a \in {Static("wallet", TRUE, TRUE), Static("other", FALSE, TRUE)},
                              b \in MCAccounts},
     pair \in DOMAIN MCDecodings}

Short(program) ==
  {Raw(program, <<>>, data) : data \in BoundedSeq({"01"}, 1)}
Pairs ==
  {<<a, b>> : a, b \in Short(Static("raw", FALSE, FALSE)) \cup Short(Static("other", FALSE, FALSE))}

MCMessages ==
  [instructions : {<<ins>> : ins \in RawInstructions \cup DecodedInstructions},
   fee_payer : {Static("wallet", TRUE, TRUE)}]
  \cup [instructions : Pairs \cup {<<>>},
        fee_payer : {NoAccount, Static("wallet", TRUE, TRUE), Static("other", TRUE, TRUE)}]

(* A line has room for two or three words; keys are wider than others.     *)
Wide == {"wallet", "other", "<wallet>", "long_name"}
MCWidth(u, bold) == (IF u \in Wide THEN 2 ELSE 1) + (IF bold THEN 1 ELSE 0)
MCLineWidth == [header |-> 8, label |-> 3, value |-> 2]
=============================================================================
