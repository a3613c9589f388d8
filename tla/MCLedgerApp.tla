---------------------------- MODULE MCLedgerApp ----------------------------
(***************************************************************************)
(* LedgerApp on small instances.  One unit stands for a whole path, a      *)
(* whole attestation or a piece of message or IDL text; the limits are     *)
(* scaled down with it so that chunks reach and cross them.                *)
(***************************************************************************)
EXTENDS LedgerApp, TLC

CONSTANTS p, m1, m2, t1, t2, good, bare, other, s1, s2, sep, prog, token

MCPaths == {p}
MCBytes == {m1, m2, t1, t2}
MCAttestations == {good, bare, other}

(* good attests <<t1, t2>>; bare signs <<t1>> without the domain           *)
(* separator; other attests the IDL <<t2>> of the builtin token program.   *)
MCAttestationOf ==
  (good  :> [signer |-> s1, message |-> <<sep, t1, t2>>])
  @@ (bare  :> [signer |-> s2, message |-> <<t1>>])
  @@ (other :> [signer |-> s2, message |-> <<sep, t2>>])

MCProgramOf == (<<t1, t2>> :> prog) @@ (<<t1>> :> prog) @@ (<<t2>> :> token)

(* <<m2>> is no message the review can show; with another unit it is.      *)
MCReviewable == {<<m1>>, <<m1, m1>>, <<m2, m1>>}

MCPrograms == {prog, token}
MCBuiltin == {token}

(* Instance 1: uploads of messages, cut and mixed in every way.            *)
SignData ==
  [ins \in Instructions |->
     CASE ins = "sign" -> {<<1, p>>, <<m1>>, <<1, p, m2>>}
       [] ins = "load_idl" -> {<<1, 1>>}
       [] OTHER -> {<<p>>}]

(* Instance 2: uploads of IDLs.                                            *)
IdlData ==
  [ins \in Instructions |->
     CASE ins = "sign" -> {<<1, p, m1>>}
       [] ins = "load_idl" ->
            {<<1, 1, 2, good>>, <<1, 1, 1, bare, t1>>, <<t1, t2>>,
             <<1, 1, 1, other, t2>>, <<1, 2, 2, good, other>>}
       [] OTHER -> {<<>>}]
=============================================================================
