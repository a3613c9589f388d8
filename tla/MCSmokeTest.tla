---------------------------- MODULE MCSmokeTest ----------------------------
(***************************************************************************)
(* SmokeTest with a window of three lines.  The reviews are those of the   *)
(* cases, their values shortened.  In the review of ata_create two windows *)
(* one after the other show the same lines.  The title of the import       *)
(* review holds the fragment "Import", and the last words of every section *)
(* are those of its footer: "sign" is there before the Sign screen is.     *)
(***************************************************************************)
EXTENDS SmokeTest

Final == <<"FINAL REVIEW", "feePayer", "<wallet>", "Message SHA-256", "2Qk">>

MCReviewOf ==
  [system_transfer |-> [decoded \in BOOLEAN |->
     <<<<"1/1 system", "transferSol", "amount", "42_000_000_000", "source", "<wallet>">>, Final>>],
   ata_create |-> [decoded \in BOOLEAN |->
     <<<<"1/1", "associated-token", "create", "funder", "<wallet>", "wallet", "8",
         "8", "wallet">>, Final>>],
   sample |-> [decoded \in BOOLEAN |->
     <<IF decoded
       THEN <<"1/1", "sampleOperations", "reviewRequest", "requestIndex", "42", "urgent", "true">>
       ELSE <<"1/1 MemoSq4gqA", "dataLen", "17 bytes", "data1", "21222a">>, Final>>]]

MCImportPages ==
  <<<<"Review", "IDL import">>, <<"programId", "MemoSq4gqA">>, <<"signer1", "BLAkDeYt">>,
    <<"Import">>, <<"Reject">>>>

MCSelected == {<<"system_transfer">>, <<"ata_create">>}

(* What is shown and looked for.                                           *)
LinesOf(pages) == UNION {Range(pages[n]) : n \in DOMAIN pages}
Texts ==
  UNION {LinesOf(MCReviewOf[m][d]) : m \in DOMAIN MCReviewOf, d \in BOOLEAN}
  \cup LinesOf(MCImportPages) \cup Range(HomeScreen) \cup Range(SignScreen)
  \cup UNION UNION Range(ExpectedScreens) \cup MessageHashScreen \cup ImportFragments
  \cup UnknownProgramForbidden \cup {"next", "sign"}

Capitals == "ABCDEFGHIJKLMNOPQRSTUVWXYZ"
Smalls == "abcdefghijklmnopqrstuvwxyz"
NormalOf(c) ==
  CASE c = " " -> ""
    [] \E i \in 1..26 : SubSeq(Capitals, i, i) = c ->
         LET i == CHOOSE i \in 1..26 : SubSeq(Capitals, i, i) = c IN SubSeq(Smalls, i, i)
    [] OTHER -> c
(* The empty text is only there so that TLC computes the others once.      *)
NormalTexts ==
  [text \in Texts |-> FlattenSeq([i \in 1..Len(text) |-> NormalOf(SubSeq(text, i, i))])]
  @@ ("" :> "")
MCNormal == NormalTexts
=============================================================================
