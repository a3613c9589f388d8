------------------------------ MODULE Consent ------------------------------
(***************************************************************************)
(* What the device promises, without APDUs, chunks or contexts: it asks    *)
(* one question at a time, releases a signature or installs an IDL only on *)
(* a yes to exactly that, explains messages with the IDL installed when it *)
(* asks, and installs only IDLs that every signer it names has attested.   *)
(***************************************************************************)
EXTENDS Integers, Sequences

CONSTANTS
  Paths, Messages, Programs,
  BuiltinPrograms,
  ProgramOf,       \* IDL texts, each with the program it describes
  AttestedBy,      \* pairs <<signer, idl>>: signer attests the text
  MaxAttestations  \* how many signers one installation can name

VARIABLES
  question,   \* what the user is being asked, or Nothing
  installed,  \* the imported IDL, or Nothing
  released    \* every piece of data the host was given

vars == <<question, installed, released>>

Nothing == [ask |-> "nothing"]

Installed(idl) == [ask |-> "installed", program_id |-> ProgramOf[idl], idl |-> idl]

(* The IDL an instruction of a program is explained with.                  *)
Explained(program) ==
  IF program \in BuiltinPrograms THEN "builtin"
  ELSE IF installed # Nothing /\ installed.program_id = program THEN "imported"
  ELSE "none"

Init == question = Nothing /\ installed = Nothing /\ released = {}

Ask(q) == question = Nothing /\ question' = q /\ UNCHANGED <<installed, released>>

AskSignature ==
  \E path \in Paths, message \in Messages :
    Ask([ask |-> "sign", path |-> path, message |-> message,
         explained |-> [program \in Programs |-> Explained(program)]])

AskInstall ==
  \E idl \in DOMAIN ProgramOf, n \in 1..MaxAttestations :
    \E signers \in [1..n -> {pair[1] : pair \in AttestedBy}] :
      /\ \A k \in 1..n : <<signers[k], idl>> \in AttestedBy
      /\ Ask([ask |-> "install", idl |-> idl, signers |-> signers])

AskAddress == \E path \in Paths : Ask([ask |-> "address", path |-> path])

AskRemoval == installed # Nothing /\ Ask([ask |-> "remove"])

(* A public key needs no consent unless the host asked for its display.    *)
GivePubkey ==
  /\ question = Nothing
  /\ \E path \in Paths : released' = released \cup {<<path>>}
  /\ UNCHANGED <<question, installed>>

(* The user says yes: exactly what was asked takes effect.                 *)
Sign ==
  /\ question.ask = "sign"
  /\ question' = Nothing
  /\ released' = released \cup {<<question.path, question.message>>}
  /\ UNCHANGED installed

GiveAddress ==
  /\ question.ask = "address"
  /\ question' = Nothing
  /\ released' = released \cup {<<question.path>>}
  /\ UNCHANGED installed

(* The IDL is installed, even if the host never learns of it.              *)
Install ==
  /\ question.ask = "install"
  /\ question' = Nothing
  /\ installed' = Installed(question.idl)
  /\ \/ released' = released \cup
          {<<ProgramOf[question.idl], Len(question.signers), Len(question.idl)>>}
     \/ UNCHANGED released

Remove ==
  /\ question.ask = "remove"
  /\ question' = Nothing
  /\ installed' = Nothing
  /\ UNCHANGED released

(* The user says no, the signature fails, or the app stops.                *)
Withdraw ==
  /\ question # Nothing
  /\ question' = Nothing
  /\ UNCHANGED <<installed, released>>

Next == AskSignature \/ AskInstall \/ AskAddress \/ AskRemoval \/ GivePubkey
        \/ Sign \/ GiveAddress \/ Install \/ Remove \/ Withdraw

Spec == Init /\ [][Next]_vars
=============================================================================
