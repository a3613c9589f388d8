----------------------------- MODULE MCPayloads -----------------------------
(***************************************************************************)
(* Payloads with chunks of twelve bytes.  Keys have two bytes, signatures  *)
(* one, and the limits follow: a path and its message fill one or two      *)
(* chunks exactly, or one byte more or less.                               *)
(***************************************************************************)
EXTENDS Payloads, TLC

M == [kind |-> "m", tick |-> "", value |-> 0]
Nothing == [kind |-> "nothing", tick |-> "", value |-> 0]
Other == [kind |-> "other", tick |-> "", value |-> 0]
N(n) == [kind |-> "number", tick |-> "", value |-> n]
H(n) == [kind |-> "number", tick |-> "'", value |-> n]

MCTexts ==
  {<<M, H(44), H(501)>>,
   <<M, H(44), H(501), H(0), H(0)>>,
   <<M, Nothing, H(44), H(501), N(2147483647), Nothing>>,
   <<M, M, H(44), H(501), H(256), N(16777216), H(65535)>>,
   <<M, H(44), H(501), N(0), N(0), N(0), N(0)>>,
   <<M, N(44), H(501), H(0)>>, <<M, H(44), N(501), H(0)>>,
   <<M, H(501), H(44)>>, <<M, H(44)>>, <<M, H(44), H(501), Other>>,
   <<M, H(44), M, H(501)>>, <<H(44), H(501)>>, <<M>>, <<M, M>>, <<M, Nothing>>}

Counted(n) == [i \in 1..n |-> 100 + i]
MCMessages == {Counted(n) : n \in {0, 1, 2, 3, 6, 14, 22, 23}}
MCIdls == {Counted(n) : n \in {0, 1, 2, 3, 6, 7, 9}}

Signed(a, b, c) == [signer |-> <<a, b>>, signature |-> <<c>>]
A == Signed(11, 12, 13)
B == Signed(21, 22, 23)
MCAttestationLists == {<<>>, <<A>>, <<A, B>>, <<A, A, B>>, <<A, A, A, B>>}

(* The text of six bytes is no IDL.                                        *)
MCProgramIdOf ==
  (Counted(1) :> <<31, 32>>) @@ (Counted(2) :> <<33, 34>>) @@ (Counted(3) :> <<31, 32>>)
  @@ (Counted(7) :> <<35, 36>>) @@ (Counted(9) :> <<37, 38>>)
=============================================================================
