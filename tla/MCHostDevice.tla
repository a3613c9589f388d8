---------------------------- MODULE MCHostDevice ----------------------------
(***************************************************************************)
(* HostDevice with every command of the tool, run a few times.             *)
(***************************************************************************)
EXTENDS HostDevice, TLC

CONSTANTS p, q, m1, m2, t1, t2, good, s1, sep, prog, token

MCPaths == {p, q}
MCBytes == {m1, m2, t1, t2}
MCAttestations == {good}
MCAttestationOf == good :> [signer |-> s1, message |-> <<sep, t1, t2>>]
MCProgramOf == <<t1, t2>> :> prog
MCReviewable == {<<m2, m1>>}
MCPrograms == {prog, token}
MCBuiltin == {token}

(* Every command of the tool; the message and the IDL take two APDUs.      *)
MCCommands ==
  {[ins |-> "app_config"],
   [ins |-> "pubkey", path |-> p],
   [ins |-> "pubkey_display", path |-> q],
   [ins |-> "sign", path |-> p, message |-> <<m2, m1>>],
   [ins |-> "load_idl", attestations |-> <<good>>, idl |-> <<t1, t2>>]}

(* What the commands send, and nothing else.                               *)
HostData ==
  [ins \in Instructions |->
     CASE ins = "sign" -> {<<1, p, m2>>, <<m1>>}
       [] ins = "load_idl" -> {<<1, 1, 2>>, <<good, t1, t2>>}
       [] ins = "app_config" -> {<<>>}
       [] OTHER -> {<<p>>, <<q>>}]
=============================================================================
