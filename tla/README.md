# Verification of the Ledger Solana app

TLA+ models of the Solana app for Ledger devices in this repository, of the
command line tool that talks to it and of the parsers both rely on; TLC runs
that check them on small instances; and proofs, checked by TLAPS, of what must
hold for every instance.

The repository calls itself a prototype (`README.md:3`). Its promise is in its
security model (`README.md:147-153`): the host chooses the message, "the device
parses those bytes, decodes bundled or imported program instructions when
available, and signs only after approval"; an imported IDL is stored "only
after the app verifies every attached Ed25519 attestation signature", and before
it is committed "the device shows the `programId` and each attached signer for
explicit user confirmation". The models ask whether the code keeps that promise
under every order of chunks, refusals, restarts, timeouts and buttons.

## 1. Inventory

| Part | Code | State it keeps | Operations |
|---|---|---|---|
| Command loop | `ledger-app/src/main.rs` | the two chunk contexts, in RAM; the screen | serve an APDU, reset the other context, answer, redraw |
| Chunked uploads | `ledger-app/src/solana.rs` | `payload`, `in_progress` per context | take in a chunk, refuse, complete |
| Imported IDL slot | `ledger-app/src/idls.rs` | one versioned slot in NVM, survives restarts | prepare, verify, store, load, clear; search IDLs for a program |
| Menu and settings | `app_ui/menu.rs`, `app_ui/idl_settings.rs` | the page shown | browse, remove the import, quit |
| Reviews | `app_ui/review_scroller.rs`, `app_ui/solana.rs`, `app_ui/address.rs`, `app_ui/idl_import.rs` | section and scroll position | build the texts, wrap, page, ask |
| Command line tool | `cli/src/main.rs`, `apdu.rs` | the exchange under way | five commands, four of which talk to the device |
| Derivation paths | `cli/src/derivation.rs`, `ledger-app/src/solana.rs` | none | read and print a path text, encode it, read it on the device |
| Transports | `cli/src/transport.rs` | the frame under reassembly | frame, reassemble, time out |
| Message parser | `solana-message-light/src/lib.rs` | offsets into the bytes | validate once, iterate later, resolve accounts |
| IDL decoder | `codama-parser/src/lib.rs` | none | read schemas, decode instruction data |
| Integration tests | `app-integration-tests/src/main.rs` | the screens read, the case under way | send APDUs from one thread; poll, press and judge in another |

How they interact. A process of the tool opens the device, cuts its payload into
APDUs of at most 255 bytes and waits for the answer to each one. The app is one
thread: while a review is on the screen it blocks inside the handler, and the
next APDU waits. A handler that completes an upload parses the payload, asks the
decoder for explanations (through the builtin IDLs and the slot), renders a
review, waits for the user, and uses the payload afterwards. The slot is also
cleared from the settings of a Nano, between two APDUs.

What is hard about it:

- the payload signed is put together from chunks of which some may be lost,
  repeated, refused, or belong to an upload that was given up;
- parse, render, decide and use are separate moments over shared contexts and a
  shared slot; error paths leave by `?` past the code that resets a context;
- no answer says which APDU it belongs to: a timeout races a late answer;
- power can go between the write to NVM and the answer;
- the parser validates offsets and counts in one walk and uses them in another;
- the review must tell apart whatever differs, on screens of few lines;
- the integration tests judge an app by polls of its screen and by timeouts, and
  must neither pass a wrong app nor answer one review with the presses meant for
  another.

What makes each part correct is stated as the properties of section 4;
`PROJECT.json` lists the hazards one by one, at their lines.

## 2. The modules and the code

| Module | Models | Composes |
|---|---|---|
| `Chunking` | `ingest_payload_chunk` and both contexts | |
| `LedgerApp` | the device: loop, handlers, slot, menu, screens | `Chunking` |
| `Consent` | what the user is promised (abstract) | refined by `LedgerApp` |
| `HostDevice` | processes of the tool, one after another, and the device | `LedgerApp` |
| `HidFraming` | HID packets between device and process | |
| `ReviewScroller` | buttons and windows of the Nano review | |
| `TextLines` | a text of the Nano review becomes lines | |
| `ReviewContent` | texts of the Nano and the NBGL review | `TextLines` |
| `MessageView` | the message parser and its iterators | |
| `CodamaDecoder` | both ways of reading an IDL, and the decoding of instruction data | |
| `Payloads` | the bytes of a command: path, message, attestations, slot, answer | `Chunking` |
| `SmokeTest` | the integration tests against the app on an emulator | `ReviewScroller` |

`MC*` modules give the constants their small values. Proofs are in
`LedgerApp_proofs` (the device, its uploads, and that it implements `Consent`),
`HostDevice_proofs` (the tool and its device), `ReviewScroller_proofs`,
`SmokeTest_proofs`, `Payloads_proofs`, `HidFraming_proofs` and
`MessageView_proofs`; `SequenceParts` has the lemmas on sequences, and on loops over
them, that they share.

**LedgerApp.** One action is one handler, from the moment `next_event_ui`
returns to the moment the thread answers or blocks in a screen. `screen` stands
for the local variables of the blocked handler: what it rendered and the APDU it
will answer. `sign_context` and `load_idl_context` are the locals of
`sample_main`; `imported_idl` is the NVM slot with its version byte; `exchanges`
is the history a host observes, every APDU with its answer and every restart.
`HandleSignMessage`, `HandleLoadIdl`, `HandleGetPubkey` and `HandleGetAppConfig`
are the handlers; `RefuseHeader` and `RefuseBrokenApdu` are the two ways an APDU
fails before its handler runs, and differ in which contexts survive;
`Approve...`/`Reject...` are the second halves of blocked handlers. A review
that cannot be built leaves through `?` with the context still complete, as the
code does (`ledger-app/src/main.rs:156`). `ScreenAfter` is the difference between
Nano and NBGL: the latter redraws home only after `Ok` and `Deny`. `ApproveImport`
has two outcomes: the answer leaves, or the app stops after the write.
Cryptography, base58 and the parsers of IDL texts are constants that say what
they accept; a path, an attestation or a piece of text is one unit of payload,
and the limits on lengths are scaled with it.

**Consent.** One question at a time; a signature, an address or an installation
only on a yes to exactly that question; an installation only of a text that
every named signer has attested. `KeepsPromise` maps `LedgerApp` to it: chunks,
contexts, status words and refusals vanish, a screen that waits for the user is
the question, and the data of successful answers is what was released.

**HostDevice.** `Start` is a process (`cli/src/main.rs`), `Requests` the APDUs its
command sends, `Accepts` what it checks of an answer: the status, and the length
of the data. `Proceed`, `Finish`, `Fail` and `GiveUp` are the outcomes of one
exchange. A process that gives up leaves its APDU with the device (`inbox`), and
the answer reaches whichever process has the device open. `late` lists the
answers to earlier processes still due when a process starts. `Lose` drops an APDU
that comes while the app is in a screen of the SDK that does not look at the
`Comm`: a review, but also the settings (`idl_settings.rs:24`) and the question
before a removal (`:46`). A review ends with an answer, so something is still on its
way after it; the settings do not, and `missed` remembers that an APDU was dropped
there while the process ran.

**Payloads.** One process after another builds the bytes of its command, cuts them
into chunks and sends these to the device, which collects, parses, stores and
answers them. Here a payload *is* its bytes: `serialize_derivation_path` and
`device_parse_path`, `sign_payload` and `parse_sign_payload`, `import_payload` and
`parse_import_payload`, `store_imported_idl` and `load_imported_idl`,
`load_idl_response` and `decode_load_idl_response` are the two ends of each
encoding, one in `cli/src/apdu.rs` and one in `ledger-app`. The text of a path is
the sequence of its parts between slashes, each with its kind, its number and
its tick. A process may stop anywhere (`Start` of the next one), and what it left
in the contexts stays there. `LedgerApp` takes these encodings as one unit per
path, attestation or piece of text; this module is what justifies it.

**SmokeTest.** `run_speculos_smoke` and `run_review_load_idl` are flows of cases.
The thread of a case that sends the APDUs is `request` (it blocks in the answer)
and `answer`; the main thread is `pc` with the local variables of
`wait_for_screen_change`, `collect_section_screens` and the rest. A poll reads what is on the
screen now, or nothing while it is being drawn; a timeout may run out at any
moment, unless `prompt` says that the emulator keeps up. Presses wait in the emulator
until the app reads them. The app is `ReviewScroller` between two home screens,
with the Sign screen and the import review of the SDK; `fault` is what is wrong
with the app under test.

The reviews and the import pages are constants. `SmokeAssumption` says what the
tests rely on of them, and is checked on the instance of the run: a sample message
has one instruction, so that its review has two sections (the `section < 2` of
`collect_section_screens`); only the message section shows the hash; no window of
a review shows both "Cancel" and "Sign"; something expected of the decoded sample
is on no window of the undecoded one, and the other way round; and only the last
import page shows "Reject". Without any of these the tests would judge by a
screen that does not mean what they take it for.

What is on a screen is what the tests find there, and they look for it loosely
(`main.rs:1181-1222`): in the joined lines or in any of them, without regard to
capitals, blanks or the first character of either text. `fragment_matches` is the
loosest of the sixteen comparisons of variants, which implies the others for
fragments that do not begin with a blank. The constant `Normal` is a text as the
tests compare it; `MCNormal` computes it from the characters. So "Import" is found in
the title "IDL import", "request" in "requestIndex" and "Sign" in every footer that
says "sign", and the assumption is about what *seems* to be there.

**HidFraming.** `wrap_apdu` makes the packets; `ReadFirst` and
`ReadContinuation` are one turn each of the loop of `unwrap_response`; `Open` is
a new process, which gets the packets from any point on. Byte k of answer n is
the pair `<<n, k>>`, so that bytes of different answers never compare equal.
Padding is removed by the length, as in the code, and is a value of its own.

**ReviewScroller.** The loop of `show_review`, one button at a time. `drawn` and
`hurried` are history: what was on the screen, and whether a section was left
while its down arrow was shown.

**ReviewContent.** Texts are sequences of units that cannot be confused with one
another; base58 and hex are one-to-one and left out, numbers, flags, labels,
"<wallet>", grouping of digits, chunks of data and the wrapping are not.
`flatten` is recursive over decoded values, so nothing is proved in this module.
The wrapping, which is not, is in `TextLines`: `PushGlyph` is a turn of the loop of
`wrap_text_with_width`, and the widths of the fonts are a constant.

**MessageView.** `try_new` is one definition over the bytes; the iterators and
`account_ref` read the bytes again from the offsets it kept, as in the code. A
cursor and a view carry the bytes they read, as the code's borrow them.
`Serialize` and `Accounts` are the reference: the wire format and the order of
accounts of Solana, written independently of the parser. Widths are constants:
a shortvec byte carries `GroupBits` bits (7 in the code), `usize` has `WordBits`
bits (32 on the device), a key `KeyLength` bytes (32), and `U8` is the number of
indexes, 256, at which `from_view` starts over (`static_account(index as u8)`,
`solana-message-light/src/lib.rs:436`).

**CodamaDecoder.** An IDL is the tree its JSON stands for. `DecodeWithIndex` is
what the device and `inspect-message` do: selectors first (`IndexSelector`), then
one instruction (`InstructionSchema`) with the defined types it reaches
(`resolve_defined_types`). `DecodeWithSchema` reads the whole IDL. Both end in
`decode_instruction_data_with_types`, whose `decode_type` has one operator per
kind of type that has steps of its own. A result is a value with the bytes after
it, an error, a panic, or "endless" for the turn of a loop that took no bytes.
`Encode` is the reference: what a client that Codama generated writes. Sizes are
scaled: a byte has four values (two hex digits of two), a number of 16 to 64 bits
two bytes, a key two; `MaxReserve` is the room on the heap.

## 3. Running

```sh
tlc -workers 2 -config MCLedgerAppSign.cfg MCLedgerApp   # likewise the others
for m in SequenceParts LedgerApp_proofs HostDevice_proofs ReviewScroller_proofs \
         SmokeTest_proofs Payloads_proofs HidFraming_proofs MessageView_proofs
do tlapm $m.tla; done
```

## 4. What the runs check

**sign_uploads** (an NBGL device, four exchanges, one path, payloads of up to four
units cut in every way). `SignedOneUpload`: every signature is for the path and
message of one uninterrupted run of chunks, whatever was aborted or refused
before. `RetryIsRefusedOnce`: after an upload that was given up, the first chunk
of a retry is refused at most once. `AtMostOneUpload`: one context at most holds
bytes. `SignsOnlyWhatIsShown`: a signature is for the path, message and
explanations on the screen. `OldScreenHasAReason`: an old review stays on the
screen only after a failed signature, until the next command that succeeds or is
rejected. Four exchanges are enough for a complete upload of two chunks after an
aborted one, or around a restart or another command; longer uploads repeat the
middle chunk, which `Received` treats like the second.

**idl_imports** (Nano, three exchanges, three attestations of which one signs
without the domain separator and one attests another IDL, a builtin and an
unknown program). `SlotAttested`, `ReviewTrustsAttestedIdls`,
`SlotChangesByConsent`, `ImportAnswerIsTrue`, `ImportedOneUpload`,
`ReviewsAreCurrent`, and the refinement `KeepsPromise`. Three exchanges fit an
import of two chunks, or two imports, and a review that uses the result;
removal and loss of power come in between without costing any.

**review_scroll** (every review of up to three sections of 1, 2, 3 and 5 lines,
window of 2: shorter than, as long as and longer than the window, by one line
and by more than a window). `EverySectionOpened`, `PatientUserSawAll`, and `ReviewEnds` under fairness.

**review_content** (1461 messages: raw data of up to three bytes with chunks of
two, up to two accounts of five kinds, one decoded argument of every kind, and
two programs whose IDLs have one name).
`NanoReviewTells` and `NbglReviewTells`: messages with equal reviews are equal
in program id, data or arguments, and accounts, unless they differ in programs
whose IDLs have the same name (`IdlsNamedAlike`): these do look alike (section 7). `WrappingKeepsText`: cutting a text
into lines loses nothing. The comparison is between every two messages of the
set, which is why each kind of value has samples chosen to be near each other
(1000, 100, 10_10; the string "none" and an absent option; `[1,2]`, `[2,1]`).

**host_device** (a Nano, three processes of any command, one restart, messages of
one and of two APDUs, an IDL of two). `PrintedIsForTheCommand`: what a process
prints answers its own command (`SignatureIsForTheCommand`,
`ImportIsOfTheCommand`, `PubkeyIsForTheCommand`), and
`SignIsNeverOutOfSequence`, each for a process that starts with at most one
answer still due (imports of a single APDU, which the run has none of, are left
to the theorem). `AnswerIsDue`: no process waits for an answer that nothing is going
to send, unless an APDU was dropped in the settings while it ran. `EveryRunEnds` under
the fairness of section 5: with that exception, in which a process may have
nothing but its timeout, every process ends without one. Three processes
are one that leaves an upload half-way, one that gives up at a review, and one
that must cope with both.

**payloads** (two processes, each stopped anywhere; fifteen texts of a path, and
messages, IDLs and lists of attestations that end at, before and behind the end
of a chunk and the limits of the tool and of the device). `DeviceReadsTheCommand`:
what the device makes of the bytes is the path, message, IDL and attestations of
the command. `AnswerTellsTheSlot`: after an import the slot reads back as the IDL,
whatever was in it before, and the answer says so. `PathMeansItsText`: the tool
takes exactly the texts under m/44'/501' with two to five numbers, as they are
written. `RefusedForAReason`: the device refuses only what exceeds its limits, or
the first chunk of an import after another one was left half-way.

**smoke_test** (the two commands, the first with one builtin sample, reviews of two
sections with a window of three lines, an app that is right or wrong in one of
four ways). `AppDidWhatWasTested`: however slow the emulator is, the app signs
and imports what the cases ask for, in their order, and no press is left for the
home menu. `FaultIsFound`: an app that decodes an unknown program, never decodes,
leaves out the hash or takes a bad attestation does not pass. `TestIsPatient`: when
the emulator keeps up, every line of a readable review is read. `GoodAppPasses`: a
good app passes unless the review was up before the home screen was read, a race
in the tests between the two threads.

**hid_framing** (three answers of 1, 2, 3, 5 or 6 bytes with packets of 2 and 3:
one less than, exactly and one more than one packet, and the same for two).
`AnswersAreWhole` with one lost, repeated or damaged packet and processes that
open at any moment; `NoFailureWithoutFault`.

**message_view** (440 messages of both versions with up to two keys, two
instructions, two table lookups, eight of them with as many keys as an index can
name, scaled to 8, or one more; and their bytes with any one changed, dropped
or inserted, or cut off). `MessagesAreAccepted` and `AcceptedIsSerialized`, both for messages each key of
which has an index (`EachHasAnIndex`; with more keys `from_view` repeats the first
ones), and `AccountsAreSolanas`, which includes that every index an accepted
message uses resolves, however many keys it has. Shortvec bytes carry two bits and words
five, so that a data length of 5 takes two bytes and three bytes are the
longest, with a last byte that can overflow: the same case distinctions as with
7 and 32.

**message_view_wrap** (every count of keys a shortvec can carry, over bytes of at
most two keys; `KeyLength` 2, `WordBits` 4). This run finds a violation, see 8.

**decoder** (one IDL for each of 48 kinds and nestings of types; every data of
up to four bytes after the selector, and the encodings of small values).
`EncodedIsDecoded`: what a client encodes is decoded to what it meant.
`DecodedIsTheData`: encoding what was decoded gives back the data, to the last
byte, so nothing in the data goes unexplained. Four bytes hold two items of the
widest type, or one and the start of another one. The run adds 330 IDLs with
unknown formats and encodings, missing and repeated names, types that refer to
themselves, and selectors that are prefixes of one another or the same, each
with all data of up to four bytes. `IndexAgreesWithSchema`: where the whole IDL
can be read and each instruction has one discriminator, reading lazily decodes,
or refuses, alike.

**decoder_counts** (arrays that announce more items than there is room for). This
run finds a violation, see 8.

Every property of a passing run is shown not to be vacuous by a change of one
definition under which TLC finds it violated (`mutants` in `PROJECT.json`; the
changed definitions are marked "mutant" in the modules and used by nothing else).

## 5. Bounds and fairness

Bounds are named constants in guards: `MaxExchanges`, `MaxRuns`, `MaxRestarts`,
`MaxAnswers`, `MaxFaults`, `MaxDamage`. (`MaxScrolls` and `MaxPages` of `SmokeTest` are
limits of the code itself.) Where bounds stop a system that would go on, the cfg
says `CHECK_DEADLOCK FALSE`; in `idl_imports`, on a Nano, deadlock is checked, since
the menu can always be opened.

- `ReviewScroller!FairSpec`: the user eventually presses both buttons and
  answers the question. The loop blocks on button events and offers nothing else;
  weak fairness is enough because both buttons always do something.
- `HostDevice!HostSpec`: a process with an answer reads it, the app serves what
  has arrived (its thread alternates with the menu, hence strong fairness), the
  user decides a review, and does not stay in the settings for ever. Nothing is
  assumed of `GiveUp`, nor of `Lose`: a timeout is needed only by a process of which an
  APDU was dropped in the settings, and `EveryRunEnds` names it. This relies on
  `cli/src/transport.rs` giving an error, not silence, when the device restarts.

- `SmokeTest!SmokeSpec`: the emulator draws, serves and reads presses, and the main
  thread of the tests goes on, which are loops that wait for nobody. The person
  of a manual review need not press anything.

Safety properties do not rely on fairness.

## 6. What is proved

`LedgerApp_proofs`, from `ConstantsAssumption` (types of the constants) alone,
for every set of paths, bytes, attestations, programs, every limit and both kinds
of device:

- `TypeCorrect`, `SlotAlwaysAttested`, `ReviewsStayCurrent`,
  `ReviewsTrustAttestedIdls`, `OneUploadAtATime` (invariants);
- `SignaturesAreShown`, `ImportAnswersAreTrue`, `SlotIsConsented` (action
  properties).

The invariant is `IInv == TypeOK /\ SlotAttested /\ ReviewsAreCurrent`.
`SlotAttested` alone is not inductive: `ApproveImport` prepares the payload of the
context *again* after the user decided, and stores it without verifying again
(`ledger-app/src/main.rs`, `handle_load_idl`). That it is the payload which was
verified and shown needs `ReviewsAreCurrent`: while a review is on the screen,
the context still parses to what it shows. That in turn holds because every
handler that could change a context is guarded by a waiting screen. The types
are needed for the lengths of the parsed pieces (`Layout`, `PrepareType`). There
is one lemma per action; those with several outcomes go through a `...Cases`
lemma that names them. The action properties follow from the invariant and
`NextShape`, which says which steps extend the history and with what.
`AtMostOneUpload` is inductive by itself.

`DeviceKeepsPromise`, in the same module: the device implements `Consent`.
The mapping needs `RInv == IInv /\ SlotFits`: what is in the slot is within the
limits, so that reading it back (`load_imported_idl`) accepts it, and what the
abstract wallet installs is what the concrete slot holds. Each action is a step
of `Consent` (a question, an answer to it, an installation, a removal, an answer
without a question) or changes none of its variables.

In its second half: `EverySignatureIsOneUpload`, `EveryImportIsOneUpload`,
`RetriesGoThrough`, `OldScreensHaveAReason`, for histories of any length. The
properties look back over `exchanges`; the invariant `HInv` ties the present to it:
a context in progress holds the concatenation of one uninterrupted run of chunks
that ends with the last exchange (`RunHeld`), a review shows such a run and its
last chunk (`UploadShown`), and a refused first chunk has cleared its context
(`RefusalClears`). `UploadStep` classifies what a step does to either upload
(starts it, extends it, ends it, completes it into a review, leaves it alone),
`OneMorePiece` extends a concatenation, and `PastStays` says that runs of the past
stay runs. `OldScreenHasAReason` is inductive with `IInv`.

`ReviewScroller_proofs`, from `ReviewAssumption`, for every review and every
window: `WindowStaysFull`, `NoSectionSkipped`, `ArrowIsTruthful`. The invariant
adds `ReadSoFar`: the sections behind have been opened (and read, unless hurried)
and the current one has been read down to the end of the window.

The same module has `WrappedTextIsWhole`, for every text, both fonts and every width
of the screen: the lines of a text, one after the other, are the text, and a line
is too wide only if one glyph alone is. `WrappingKeepsText` of `review_content` is
its instance for the texts of the messages there. The only hypothesis is that widths
are natural numbers. A turn of the loop keeps `Wraps`: the lines and the current
one are what was pushed so far, `current_width` is the width of the current line,
and every line fits or is one glyph.

`Payloads_proofs`, from `PayloadAssumption` (lengths fit their two bytes, the device
has room for what its limits allow), for every path, message, IDL, list of
attestations, limit and chunk size: `SpecReads`, `SpecAnswers`, `SpecRefusals`. The
invariant says that what was sent is a beginning of the payload of the command,
and that the context of the device holds exactly this beginning. The rest are
round trips: the bytes of a number, a segment, a path, a list of attestations and
the slot, read back, are what was written.

`HidFraming_proofs`, from `CapacityAssumption`, for every size of packets, all
lengths and any number of answers, faults and processes: `AnswersAreReadWhole`,
`ReadsFailOnlyForFaults`. Packets do not say which answer they belong to, so the
invariant `HidInv` gives each one its answer and number (`Of`), and says of
neighbours: with at most one fault, a packet that *looks like* the next one of
the answer before it *is* that packet (`Fits`), on the wire and for the reader; and
without a fault the numbers are those due (`Unbroken`, `IsDue`), and a reader that
is in step finds the first packet of an answer when it is idle (`InStep`). The
first fault turns the strong form into the weak one (`LossKeeps`, `RepeatKeeps`,
`DamageKeeps`), which is why a second one would not be harmless.

`HostDevice_proofs`, from `ConstantsAssumption` and `HostAssumption` (a command has
the arguments of its kind, and the device can be sent its APDUs), for every set of
commands, every size of chunks, any number of processes, restarts and losses, and
both kinds of device: `DeviceIsLedgerApp`, so that all of the above holds behind the tool too;
`PrintedAnswersTheCommand`, `SignStaysInSequence` and `AnAnswerIsDue`. The invariant is
`HostInv == HInv /\ LineInv`. `HInv` is the device's own. `LineInv` describes the
line between the process and the device, for a process that started with at
most one answer due:

- `InLine`: answers waiting, the review on the screen and APDUs waiting are at
  most two, in this order: the process's current APDU (`This`) last, and before it
  at most one other (`Ahead`), which is the late one until the process has its first
  answer, and its own previous APDU afterwards. For sign-message there is none
  from its second chunk on. This is where `late <= 1` is used.
- `Held`: if the context of the process's command is in progress after its chunks
  so far, it holds exactly what these carried (`HeldSoFar`); for sign-message, the
  address it asks for first has cleared the context (`HeldForSign`), so a foreign
  beginning can never be extended, and an empty "Ok" to the current chunk means the
  upload goes on.
- `Shown`, `Answered`: the review of the last chunk is of the whole payload, and so
  is the result in its answer; an answer to a chunk with more to follow is empty.
- `AnswerIsDue`, which is inductive by the parts above: a process sends an APDU
  whenever it reads an answer, the app answers or opens a review for every APDU it
  takes, and an APDU dropped in a review leaves the review.
- `Address`, `Alone`, `Asked`: for the commands of a single APDU, what its review
  shows, and that no other APDU whose answer has the same length is in line.

The argument: a late answer of the right length moves the process on while its own
APDU is still to be served; from then on every answer it reads is its own, but
to the APDU before the one it waits for. The last answer is told apart because
no answer to a chunk, or to a request for an address, has its length.
`SignIsNeverOutOfSequence` speaks of the chunk that the process waits for. With five
or more processes a *late* refusal, of a chunk which a process before sent, can
reach sign-message and end it; its own chunks are never refused so.

`SmokeTest_proofs`, from `SmokeAssumption` and `ReviewAssumption`, for all reviews, builtin
cases, window heights and limits, both commands, every fault, and an emulator of
any speed: `AppDoesWhatIsTested`, `FaultsAreFound`, `TestStaysPatient`. The
invariant `SmokeInv` says, for each place of the main thread, what the app shows and
which presses it has not read:

- `ScreenIsOfTheCase`: what is on the screen is the case under way, which is
  unanswered, and nothing is pending at home.
- `WhileInReview`: every press of both buttons is read or pending. The sections that
  the app has left (`Read`) and the pending presses (`Both`) add up to those
  that the test made (`Pressed`). So at most two are on their way in a review of two
  sections, and when the last one has been read the queue is empty: the presses
  that follow go to the Sign screen. What was collected are windows of this review
  (`CanShow`).
- `WhileDeciding`, `WhileInImport`, `WhileAnswered`: the screen that was read stays
  until the press that follows is read (`Steady`), so "Sign" and "Import" are chosen
  on the screen that was judged. That this is the page that imports follows from the
  press of "left" on the page that rejects, not from the word "Import", which the
  title shows too.
- `LogIsPlanned`: the log is the plan of the flow, up to this case or the one before
  (`PlanOf` by its recurrence, `PlanGrows` by induction over a set).
- `FaultsAreCleared`: a case that went through excludes the fault it is there to find.
  A review without the hash has one section, which never shows it, so
  `CollectedEnough` fails; a review that is decoded, or not, against the
  expectation lacks a fragment (`CollectedWasShown`). How texts are compared is not
  looked into: whatever finds nothing on a blank screen will do, as long as it
  tells apart what `SmokeAssumption` says it does.
- `InStep`: with time to keep up, `count` is the scroller's `scroll_line`, or one
  ahead while a press is on its way. The test leaves a section when the window
  did not change: the next one would differ (`Readable`), so there is none.

There is one lemma per action, with one step per part. `TestIsPatient` needs
`Readable`: two neighbouring windows that look alike end a section too early, which
is so in the code.

`MessageView_proofs`, from `SizesAssumption` and `MessagesAssumption` (`WellFormed`: a
header, indexes and sizes that Solana allows), for every message, every damage
to its bytes, and every width of shortvec bytes, `usize` and keys:

- `TryNewFinds`: what `try_new` accepts is in the bytes where the view says it is
  (`Found`): header, keys and blockhash, a walk over as many instructions as were
  counted that ends where the lookups begin, and a walk over the lookups that
  ends at the last byte and adds up to the loaded accounts.
- `IndexesNameSolanasAccounts` (`AccountsAreSolanas`): the account that `account_ref`
  finds for an index of an accepted message is the one at this place in
  Solana's list (keys, then all loaded writable, then all loaded read-only),
  with its flags. `total_account_count` is the length of that list, which is why
  the one check in `try_new` suffices for every later use.
- `AcceptedBytesAreSerialized`: `KeysAreInTheInput => AcceptedIsSerialized`, for
  messages of at most `U8` keys. The premise is the finding of section 8; it fails only where the product of
  `solana-message-light/src/lib.rs:225` wraps around. Without the premise the bytes
  are not those of the message: its keys are missing from them. (There the code
  panics in `from_view`, where the model's `static_account` is a shorter slice.)
- `EveryMessageIsAccepted` (`MessagesAreAccepted`): every well-formed message, of
  either version, is accepted once serialized, and read as itself if it has at
  most `U8` keys. With the theorem
  before: of all bytes with minimal lengths, `try_new` accepts for a well-formed
  message its serialization and no other bytes whose keys are there.

The invariant `Inv` only ties the view to the bytes it was made of; the work is
in what the definitions compute. They are recursive functions (`Repeat`, `VisitAll`,
`shortvec_value`, `FlattenSeq`), so each loop is first given a run, a function over
`0..n` that satisfies the recurrence (`LoopRun`, `ChosenRun`), and then reasoned about by
induction over a *set* of numbers (`Induction`), which needs no operator as a
parameter. Walks (`InstructionWalks`, `LookupWalks`) are the offsets at which items
start: skipping, iterating and serializing are each shown to follow the same walk.
Backwards (`InstructionAgain` to `SerializedAgain`) the slices of a walk are joined to
the bytes; forwards (`At`, `ShortvecAt`, `PartsAt`) the bytes of a message are split at
its parts, each part is shown to be read as it was written, and the walk they give
is the one that `try_new` takes (`InstructionsForward`, `LookupsForward`).
`FirstLookup` agrees with the walk only if the count of lookups is minimal, which
is why both properties speak of `view.minimal` (section 7).

All properties of the two runs of `LedgerApp`, the safety properties of
`host_device` and of `smoke_test`, those of `hid_framing` and all of `message_view` are
so proved as well as checked. Only model-checked: liveness (`ReviewEnds`,
`EveryRunEnds`, `GoodAppPasses`), `PathMeansItsText` (it speaks of
`SelectSeq`, which is recursive), and `ReviewContent` (apart from the wrapping) and
`CodamaDecoder`, which declare recursive operators.

## 7. Limits of the properties

These are true of the code, and the properties are stated so as not to deny them.

- `get-pubkey` has no exchange before its own: after a timeout it may print the
  address that an earlier `get-pubkey` asked for. The same goes for an import that
  fits into one APDU. No answer names its APDU, and `PubkeyIsForTheCommand` and
  `ImportIsOfTheCommand` leave these cases out.
- In `SmokeTest` a poll reads a whole screen or none; errors of HTTP are left out,
  as is the limit of 80 screens of a review, which the limits per section
  keep out of reach. A manual review is judged by nothing but its answer, and
  `FaultIsFound` leaves such flows out. `Validator` and `MultiFieldReview` of the SDK
  are modelled from how the app uses them.
- In `Payloads` a number is one however it is spelled ("+44", leading zeros), and
  the message is bytes that are not parsed; its limits are scaled with the chunk.
- With several unanswered APDUs left behind in a row (`late > 1`) the check of
  lengths no longer separates answers; four processes are needed to see it.
- `sign-message` prints the public key of its first exchange and does not check
  the signature against it.
- Two lost, repeated or damaged HID packets can splice two answers: sequence
  numbers restart with every answer. One cannot, whenever processes open the device.
- An APDU dropped while the app is in its settings is never answered, and its
  process may have to wait for its timeout. An import of which an APDU was dropped
  there can take the late answer to another one for its own; `ImportIsOfTheCommand`
  claims nothing of it when it has several APDUs and `missed` is set.
- Above 256 keys no index names the others, and `ParsedMessage::from_view` repeats the
  first keys in their place (`solana-message-light/src/lib.rs:436`). Solana has no such
  messages; what is read of them is not claimed to be what was serialized.
- A lookup count whose shortvec is longer than needed makes the lookup iterator
  start at another byte than the validation did
  (`solana-message-light/src/lib.rs:328`). Solana refuses such messages; the
  properties are about minimal ones.
- The Nano review leaves out accounts named `feePayer`
  (`ledger-app/src/app_ui/review_scroller.rs:204`) and the flags of accounts; a
  byte outside the font shows as "?"; an option of an option, or of a string
  "none", is ambiguous; a decoded instruction is shown with the name in the
  IDL and without the program id, on both kinds of device. Nothing keeps an
  imported IDL from having the name of another program's, and then calls of the
  two look alike.
- A fixed option whose item is absent is read as the zero bytes of the item
  without a prefix (`codama-parser/src/lib.rs:1007`), and a tag of zero followed by
  other bytes as absent too: two encodings look alike.
- `fixed_size_of_type` multiplies the size of a `fixedSizeTypeNode` by the size of
  its item (`codama-parser/src/lib.rs:875`), `decode_type` takes just the size: an
  absent zeroable or fixed option around an item wider than a byte takes more
  bytes than a present one (`OneEncoding` excludes both). A zeroable whose item is present but all zero is
  shown as absent, as in Codama.
- An array that takes all the data that is left goes on `while` the data is not
  finished (`codama-parser/src/lib.rs:1062`). An item that takes no bytes, such as a
  struct without fields, does not finish it: with any byte left the loop collects
  values until the memory is full. `CodamaDecoder` models this ("endless"), no run
  has such an item and no property covers it.
- A struct that contains
  itself recurses without end; a boolean wider than a byte and bytes or a string
  inside of a fixed size are always refused. None of the bundled IDLs relies on
  these; an IDL that is imported is vouched for by its signers.
- A string without a length is refused as well; `uiAmountToAmount` of the bundled
  token IDL has one, so that its data is never decoded.

## 8. Findings

`KeysAreInTheInput` (run `message_view_wrap`). `try_new` skips
`static_account_count * PUBKEY_LENGTH` bytes
(`solana-message-light/src/lib.rs:225`). The count comes from the message and the
product is unchecked: in a release build it wraps around, on the 32-bit device
for a count of 2^27, and a message that carries none of its keys is accepted
with that count. `static_account` then returns `None` or other bytes of the
message, and `ParsedMessage::from_view` unwraps it. Other reads past the end are
refused with "unexpected eof" (line 179).

`ShortDataIsRefused` (run `decoder_counts`). An array reserves room for as many
items as the data announces before the first one is read
(`codama-parser/src/lib.rs:1060`, `Vec::with_capacity(fixed_len.unwrap_or(0))`). A
count for which the heap has no room stops the program, where data that is too
short is otherwise refused with "unexpected eof" (line 417).

## 9. Not modelled

- Cryptography, key derivation, hashing, base58, hex: constants or one-to-one.
- Drawing, fonts and layout beyond the width of a line.
- `settings.rs`: boilerplate storage handed to the NBGL home screen
  (`app_ui/menu.rs:97-101`) with no settings to change.
- The Speculos TCP transport: length-prefixed over a stream that keeps order.
  `HostDevice` covers it as a transport whose answers are whole.
- `speculos_ui.rs`: a tool to watch and press by hand. It prints what the emulator
  shows and forwards presses, and decides nothing.
- `inspect-message`: prints a decoding; what it decodes is `CodamaDecoder`'s.
- The layout of the address and import screens, which the SDK does.
- Build scripts and IDL data; they enter as `BuiltinPrograms`.

## 10. Plan

Done in this order: the device core (`Chunking`, `LedgerApp`, `Consent`) with its
runs and proofs; the Nano review (`ReviewScroller` with proofs, `ReviewContent`);
the tool and the transport (`HostDevice`, `HidFraming`); the message parser; the
decoder; the refinement and the history of uploads as theorems; payloads byte by
byte, with proofs; the integration tests; the framing, what the tool prints,
what the message parser accepts, and what a passed integration test says of the
app, as theorems.

Next:

1. `ReviewScroller` composed with `ReviewContent`: every text reaches the screen
   of a patient user.
