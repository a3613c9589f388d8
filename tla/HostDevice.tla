----------------------------- MODULE HostDevice -----------------------------
(***************************************************************************)
(* The command line tool and the device.  Every command of cli/src/main.rs *)
(* is a process of its own: it opens the device, sends the APDUs of the    *)
(* command one at a time, checks each answer and prints a result, or stops *)
(* at the first thing that is not as expected.  Nothing in an answer says  *)
(* which APDU it answers: a process that gives up (a timeout, Ctrl-C)      *)
(* leaves its APDU on the device, whose answer then reaches the next one.  *)
(*                                                                         *)
(* The device is LedgerApp, which serves the APDUs in the order they came. *)
(***************************************************************************)
EXTENDS LedgerApp

CONSTANTS
  Commands,     \* the commands a user may run
  ChunkUnits,   \* the units of payload in one APDU (255 bytes)
  MaxRuns,      \* bound on the processes started
  MaxRestarts   \* bound on the restarts of the app

VARIABLES
  run,      \* the running command, the number of its APDU under way, and
            \* the commands of earlier processes that had no answer yet when
            \* it started
  runs,     \* how many were started
  inbox,    \* APDUs on their way to the app
  outbox,   \* answers on their way to the running process
  missed,   \* whether an APDU was dropped in the settings while it ran
  printed   \* what the last process printed, with its command, late and missed

hostVars == <<run, runs, inbox, outbox, missed, printed>>
allVars == <<vars, hostVars>>

-----------------------------------------------------------------------------
(* The APDUs of a command.                                                 *)
ChunkBits(k, n) ==
  (IF k > 1 THEN {"extend"} ELSE {}) \cup (IF k < n THEN {"more"} ELSE {})

Chunked(ins, payload) ==
  LET n == (Len(payload) + ChunkUnits - 1) \div ChunkUnits
      end(k) == IF k = n THEN Len(payload) ELSE k * ChunkUnits
  IN  [k \in 1..n |-> Apdu(ins, ChunkBits(k, n),
                           SubSeq(payload, (k - 1) * ChunkUnits + 1, end(k)))]

build_get_pubkey_apdu(cmd) == <<Apdu(cmd.ins, {}, <<cmd.path>>)>>

build_sign_message_apdus(cmd) == Chunked("sign", <<1, cmd.path>> \o cmd.message)

build_load_idl_apdus(cmd) ==
  Chunked("load_idl",
          <<1, Len(cmd.attestations), Len(cmd.idl)>> \o cmd.attestations \o cmd.idl)

SignWithoutPubkey(cmd) ==   \* mutant: the address is not asked for first
  CASE cmd.ins = "app_config" -> <<Apdu("app_config", {}, <<>>)>>
    [] cmd.ins = "sign"       -> build_sign_message_apdus(cmd)
    [] cmd.ins = "load_idl"   -> build_load_idl_apdus(cmd)
    [] OTHER                  -> build_get_pubkey_apdu(cmd)

(* sign-message asks for the address of the path before it sends a chunk.  *)
Requests(cmd) ==
  CASE cmd.ins = "app_config" -> <<Apdu("app_config", {}, <<>>)>>
    [] cmd.ins = "sign"       -> build_get_pubkey_apdu([cmd EXCEPT !.ins = "pubkey"])
                                 \o build_sign_message_apdus(cmd)
    [] cmd.ins = "load_idl"   -> build_load_idl_apdus(cmd)
    [] OTHER                  -> build_get_pubkey_apdu(cmd)

(* The length of the data in a successful answer to the last APDU of a     *)
(* command; the answers to the chunks before it carry none.                *)
FullSize(ins) ==
  CASE ins = "app_config" -> 5
    [] ins = "sign"       -> 64
    [] ins = "load_idl"   -> 35
    [] OTHER              -> 32

SizeOf(x) ==
  IF x.sw = "Ok" /\ (x.out # <<>> \/ x.apdu.ins = "app_config")
  THEN FullSize(x.apdu.ins) ELSE 0

(* What the process checks of an answer: its status and its length.        *)
AnySize(cmd, k, x) == x.sw = "Ok"   \* mutant: the length is not looked at
Accepts(cmd, k, x) ==
  LET ins == Requests(cmd)[k].ins
  IN  /\ x.sw = "Ok"
      /\ SizeOf(x) = IF ins \in {"sign", "load_idl"} /\ k < Len(Requests(cmd))
                     THEN 0 ELSE FullSize(ins)

NoRun == [cmd |-> [ins |-> "none"], next |-> 0, late |-> <<>>]
NoReport == [cmd |-> [ins |-> "none"], out |-> <<>>, late |-> <<>>, missed |-> FALSE]
Running == run # NoRun

Reviewing == screen.name \in {"review_address", "review_message", "review_idl_import"}
Due == (IF Reviewing THEN <<screen.apdu.ins>> ELSE <<>>)
       \o [k \in 1..Len(inbox) |-> inbox[k].ins]

(* What the user may ask for, with the arguments of each command.          *)
CommandTypes ==
  [ins : {"app_config"}]
  \cup [ins : {"pubkey", "pubkey_display"}, path : Units]
  \cup [ins : {"sign"}, path : Units, message : Seq(Units)]
  \cup [ins : {"load_idl"}, attestations : Seq(Units), idl : Seq(Units)]

ASSUME HostAssumption ==
  /\ ChunkUnits \in Nat \ {0}
  /\ Commands \subseteq CommandTypes
  /\ \A cmd \in Commands : \A k \in 1..Len(Requests(cmd)) :
       LET apdu == Requests(cmd)[k]
       IN  apdu.ins # "app_config" => apdu.data \in Data[apdu.ins]

-----------------------------------------------------------------------------
HostInit ==
  /\ Init
  /\ run = NoRun /\ runs = 0
  /\ inbox = <<>> /\ outbox = <<>>
  /\ missed = FALSE /\ printed = NoReport

ShortWrite(apdu) ==   \* mutant: a frame that was not written is not noticed
  inbox' \in {inbox, Append(inbox, apdu)}
Send(apdu) == inbox' = Append(inbox, apdu)

(* A process starts: answers sent before it opened the device are gone.    *)
Start ==
  /\ ~Running /\ runs < MaxRuns
  /\ \E cmd \in Commands :
       /\ run' = [cmd |-> cmd, next |-> 1, late |-> Due]
       /\ Send(Requests(cmd)[1])
  /\ runs' = runs + 1
  /\ outbox' = <<>> /\ missed' = FALSE /\ printed' = NoReport
  /\ UNCHANGED vars

(* The process ends; APDUs it has sent stay with the device.               *)
Stop ==
  /\ run' = NoRun /\ outbox' = <<>> /\ missed' = FALSE
  /\ UNCHANGED <<vars, runs, inbox>>

(* The answer is as expected and there is more to send.                    *)
Proceed ==
  /\ Running /\ outbox # <<>>
  /\ Accepts(run.cmd, run.next, Head(outbox))
  /\ run.next < Len(Requests(run.cmd))
  /\ run' = [run EXCEPT !.next = @ + 1]
  /\ Send(Requests(run.cmd)[run.next + 1])
  /\ outbox' = Tail(outbox)
  /\ UNCHANGED <<vars, runs, missed, printed>>

(* The last answer: its data is printed.                                   *)
Finish ==
  /\ Running /\ outbox # <<>>
  /\ Accepts(run.cmd, run.next, Head(outbox))
  /\ run.next = Len(Requests(run.cmd))
  /\ printed' = [cmd |-> run.cmd, out |-> Head(outbox).out,
                 late |-> run.late, missed |-> missed]
  /\ Stop

(* An error status or unexpected data ends the process.                    *)
Fail ==
  /\ Running /\ outbox # <<>>
  /\ ~Accepts(run.cmd, run.next, Head(outbox))
  /\ Stop
  /\ UNCHANGED printed

(* The read times out, or the user stops the process.                      *)
GiveUp ==
  /\ Running /\ outbox = <<>>
  /\ Stop
  /\ UNCHANGED printed

-----------------------------------------------------------------------------
(* An answer reaches the process that has the device open, or nobody.      *)
Deliver ==
  outbox' = IF Len(exchanges') > Len(exchanges) /\ Running
            THEN Append(outbox, exchanges'[Len(exchanges')]) ELSE outbox

(* The app serves the APDU that came first; the header and the length of   *)
(* every APDU the tool builds are accepted.                                *)
Serves ==
  /\ inbox # <<>>
  /\ \/ Head(inbox).ins = "app_config" /\ HandleGetAppConfig
     \/ Head(inbox).ins \in {"pubkey", "pubkey_display"} /\ HandleGetPubkey
     \/ Head(inbox).ins = "sign" /\ HandleSignMessage
     \/ Head(inbox).ins = "load_idl" /\ HandleLoadIdl
  /\ Head(inbox) = IF Len(exchanges') > Len(exchanges)
                   THEN exchanges'[Len(exchanges')].apdu ELSE screen'.apdu
  /\ inbox' = Tail(inbox)
  /\ Deliver
  /\ UNCHANGED <<run, runs, missed, printed>>

(* An APDU that comes while the thread is in a review, in the settings or  *)
(* in the question before a removal may be dropped.  After a review an     *)
(* answer still comes; after the settings there may be none.               *)
Lose ==
  /\ inbox # <<>> /\ ~Waiting
  /\ inbox' = Tail(inbox)
  /\ missed' = (missed \/ (Running /\ ~Reviewing))
  /\ UNCHANGED <<vars, run, runs, outbox, printed>>

UserDecides ==
  /\ Decide
  /\ exchanges'[Len(exchanges')].apdu # Restarted
  /\ Deliver
  /\ UNCHANGED <<run, runs, inbox, missed, printed>>

UserBrowses == Menu /\ UNCHANGED hostVars

(* The app stops: the device leaves the bus, and with it the process.      *)
Restarts == Cardinality({i \in 1..Len(exchanges) : exchanges[i].apdu = Restarted})

PowerLoss ==
  /\ Restarts < MaxRestarts
  /\ Restart \/ ApproveImport
  /\ exchanges'[Len(exchanges')].apdu = Restarted
  /\ run' = NoRun /\ inbox' = <<>> /\ outbox' = <<>> /\ missed' = FALSE
  /\ UNCHANGED <<runs, printed>>

HostNext == Start \/ Proceed \/ Finish \/ Fail \/ GiveUp
            \/ Serves \/ Lose \/ UserDecides \/ UserBrowses \/ PowerLoss

(* The app serves what it has, the process reads what there is, the user   *)
(* comes to a decision and does not stay in the settings.  Nobody has to   *)
(* give up: no fairness stands behind GiveUp, nor behind Lose.             *)
UserLeaves == CloseSettings /\ UNCHANGED hostVars
UserChooses == (ConfirmRemove \/ DeclineRemove) /\ UNCHANGED hostVars

HostSpec ==
  /\ HostInit /\ [][HostNext]_allVars
  /\ WF_allVars(Proceed \/ Finish \/ Fail)
  /\ SF_allVars(Serves) /\ WF_allVars(UserDecides)
  /\ WF_allVars(UserChooses) /\ SF_allVars(UserLeaves)

-----------------------------------------------------------------------------
Pubkeys == {"pubkey", "pubkey_display"}

(* No answer of these instructions was due when the process started.       *)
NoneDue(late, instructions) == \A k \in 1..Len(late) : late[k] \notin instructions

(* Hazard: a timeout races a late answer.  When a process starts with at   *)
(* most one answer to an earlier one still due, a signature that it prints *)
(* is that of the path and the message of its command: asking for the      *)
(* address first makes sure a late answer meets a check of its length.     *)
SignatureIsForTheCommand ==
  printed.cmd.ins = "sign" /\ Len(printed.late) <= 1 =>
    printed.out = <<printed.cmd.path, printed.cmd.message>>

(* The same of an import of several APDUs, if none was dropped in the      *)
(* settings: a late answer taken for that of a dropped first chunk would   *)
(* let the device add the second chunk to the upload that was given up.    *)
(* An import of a single APDU has no exchange before it: no answer to      *)
(* another import may be due.                                              *)
ImportIsOfTheCommand ==
  /\ printed.cmd.ins = "load_idl"
  /\ \/ /\ Len(Requests(printed.cmd)) > 1
        /\ Len(printed.late) <= 1 /\ ~printed.missed
     \/ Len(Requests(printed.cmd)) = 1 /\ NoneDue(printed.late, {"load_idl"})
  => printed.out = <<ProgramOf[printed.cmd.idl],
                     Len(printed.cmd.attestations), Len(printed.cmd.idl)>>

(* Hazard: get-pubkey sends a single APDU, so nothing before it takes in   *)
(* a late answer.  The length check alone protects it: the address that it *)
(* prints is that of the path asked for, unless an address that an earlier *)
(* process asked for was still due.                                        *)
PubkeyIsForTheCommand ==
  printed.cmd.ins \in Pubkeys /\ NoneDue(printed.late, Pubkeys) =>
    printed.out = <<printed.cmd.path>>

(* What a process prints answers its own command, as far as the lengths    *)
(* can tell answers apart.                                                 *)
PrintedIsForTheCommand ==
  SignatureIsForTheCommand /\ ImportIsOfTheCommand /\ PubkeyIsForTheCommand

(* Hazard: an upload that was given up half-way stays in the context of    *)
(* the app and makes it refuse the first chunk of the next one.  The       *)
(* address that sign-message asks for first clears it, so sign-message is  *)
(* not told that a chunk it sent is out of sequence.  (A late answer to a  *)
(* chunk of an earlier process may say so of that chunk.)                  *)
RefusedForSequence ==
  /\ run.cmd.ins = "sign" /\ Len(run.late) <= 1 /\ ~Running'
  /\ outbox # <<>> /\ Head(outbox).sw = "WrongP1P2" /\ Head(outbox).apdu.ins = "sign"
  /\ Head(outbox).apdu = Requests(run.cmd)[run.next]
SignIsNeverOutOfSequence == [][~RefusedForSequence]_allVars

(* Hazard: a process waits for an answer that nobody will send.  Answers   *)
(* come in the order of the APDUs and may reach another process than the   *)
(* one they are for, yet for a process that runs there is always one on    *)
(* its way, or an APDU or a review that one will come of, unless an APDU   *)
(* was dropped in the settings.                                            *)
NothingDue == Due = <<>> /\ outbox = <<>>
AnswerIsDue == Running /\ ~missed => ~NothingDue

(* Nothing waits for ever: when the user decides, every process ends, even *)
(* if its APDU was dropped in a review or the answer it waits for went to  *)
(* another one.  Only a process an APDU of which was dropped in the        *)
(* settings may be left with nothing on its way to it, and has to wait for *)
(* its timeout.                                                            *)
EveryRunEnds == Running ~> (~Running \/ (missed /\ NothingDue))
=============================================================================
