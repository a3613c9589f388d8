----------------------------- MODULE SmokeTest -----------------------------
(***************************************************************************)
(* The smoke tests of app-integration-tests/src/main.rs: a program that    *)
(* drives the app in the Speculos emulator.  For each case one thread      *)
(* sends the APDUs and blocks in the answer, while the main thread polls   *)
(* the screen, presses buttons, and decides from what it read whether the  *)
(* case passes.  The two only meet through the app.                        *)
(*                                                                         *)
(* The app is the scroller of ReviewScroller between two home screens,     *)
(* with the Sign screen and the import review of the SDK.  A case is one   *)
(* record, an upload one step: its other chunks change no screen.          *)
(***************************************************************************)
EXTENDS ReviewScroller, SequencesExt

CONSTANTS
  Selected,      \* the sequences of builtin cases that are run first
  ReviewOf,      \* [message -> [whether it is decoded -> the review]]
  ImportPages,   \* the pages of the import review; the last two decide
  Normal,        \* [text -> its characters, in lower case and without blanks]
  MaxScrolls,    \* presses of "right" in a section before the test goes on
  MaxPages       \* presses of "right" in the import review before it fails

VARIABLES
  (* the app *)
  request,       \* the case whose last APDU waits for its answer, if any
  answer,        \* what the blocked thread was given: "none" while it blocks
  cursor,        \* the choice or the page shown by a screen of the SDK
  blank,         \* the screen was cleared and not drawn yet
  presses,       \* buttons the app has not read yet
  imported,      \* whether the IDL of the sample program is in the slot
  log,           \* history: what the app signed and imported
  fault,         \* what is wrong with the app under test, or "none"
  (* the test *)
  flow, k,       \* the cases, and the one under way
  pc,            \* where the main thread is, "passed" or "failed"
  home,          \* home_screen: the screen read before the wait for a review
  current,       \* the last screen it read
  seen,          \* the screens collected in this review
  section,       \* the section it thinks it reads
  count,         \* its presses of "right" there
  prompt         \* whether timeouts only run out when the app stands still

appVars  == <<request, answer, cursor, blank, presses, imported, log>>
testVars == <<flow, k, pc, home, current, seen, section, count>>
smokeVars == <<vars, appVars, testVars, prompt, fault>>

Faults == {"none", "never_decodes", "always_decodes", "hides_hash", "trusts_any_idl"}

-----------------------------------------------------------------------------
(* The cases.  Each one asks for fragments that must be together on some   *)
(* screen of its review, and for some that must be on none.                *)
ExpectedScreens ==
  [system_transfer      |-> {{"1/1", "system", "transferSol"},
                             {"amount", "42_000_000_000"}, {"source", "<wallet>"}},
   compute_budget_limit |-> {{"1/1", "compute-budget", "setComputeUnitLimi"},
                             {"units", "1_400_000"}},
   ata_create           |-> {{"1/1", "associated-token", "create"}, {"funder", "<wallet>"}},
   token_transfer       |-> {{"1/1", "token", "transfer"},
                             {"amount", "42_000_000"}, {"authority", "<wallet>"}},
   sample_generic       |-> {{"dataLen", "17 bytes"}},
   sample_decoded       |-> {{"1/1", "sampleOperations", "reviewRequest"},
                             {"request", "42"}, {"urgent", "true"}}]
MessageHashScreen == {"Message", "256"}
ImportFragments == {"program", "Memo", "signer1", "BLAk"}
UnknownProgramForbidden ==
  {"reviewRequest", "requestIndex", "urgent", "sampleOperations"}

SignCase(message, expected, forbidden, manual) ==
  [kind |-> "sign", message |-> message, manual |-> manual,
   expected |-> expected \cup {MessageHashScreen}, forbidden |-> forbidden]

build_case(name, manual) == SignCase(name, ExpectedScreens[name], {}, manual)

(* The two cases of the imported program sign the same message.            *)
build_imported_sample_case(decoded, manual) ==
  IF decoded
  THEN SignCase("sample", ExpectedScreens["sample_decoded"], {}, manual)
  ELSE SignCase("sample", ExpectedScreens["sample_generic"], UnknownProgramForbidden, manual)

LoadCase(kind, manual) ==
  [kind |-> kind, message |-> "none", manual |-> manual,
   expected |-> {}, forbidden |-> {}]

(* The flows of the two commands.                                          *)
run_imported_idl_flow(manual, manual_load) ==
  <<build_imported_sample_case(FALSE, manual), LoadCase("load_idl", manual_load),
    build_imported_sample_case(TRUE, manual), LoadCase("load_bad_idl", FALSE),
    build_imported_sample_case(TRUE, manual)>>

run_speculos_smoke(names, manual, manual_load) ==
  [n \in DOMAIN names |-> build_case(names[n], manual)]
  \o run_imported_idl_flow(manual, manual_load)

run_review_load_idl == <<LoadCase("load_idl", TRUE), build_imported_sample_case(TRUE, FALSE)>>

Flows ==
  {run_speculos_smoke(names, manual, manual_load) :
     names \in Selected, manual \in BOOLEAN, manual_load \in BOOLEAN}
  \cup {run_review_load_idl}

NoCase == [kind |-> "none"]
Case == flow[k]
Ended == pc \in {"passed", "failed"}

-----------------------------------------------------------------------------
(* What a poll of the screen returns: current_screen keeps the first of    *)
(* equal lines.                                                            *)
HomeScreen == <<"Solana v2", "app is ready">>
SignScreen == <<"Cancel", "Sign">>

Deduplicated(lines) ==
  LET firsts == {i \in DOMAIN lines : \A j \in 1..(i - 1) : lines[j] # lines[i]}
  IN  [n \in 1..Cardinality(firsts) |->
         lines[CHOOSE i \in firsts : Cardinality({j \in firsts : j <= i}) = n]]

WindowAt(review, s, top) ==
  LET n == Len(review[s])
  IN  SubSeq(review[s], top + 1, IF top + VisibleLines < n THEN top + VisibleLines ELSE n)
      \o <<IF s < Len(review) THEN "next" ELSE "sign">>
WindowScreen(review, s, top) == Deduplicated(WindowAt(review, s, top))

Screen ==
  IF blank THEN <<>>
  ELSE CASE step = "review" -> WindowScreen(sections, section_index, scroll_line)
         [] step = "ask"    -> SignScreen
         [] step = "import" -> Deduplicated(ImportPages[cursor])
         [] OTHER           -> HomeScreen

Changed(previous) == Screen # <<>> /\ Screen # previous

(* The variants of a text are with and without its blanks, and with and    *)
(* without its first character.  Some variant of a text holds one of a     *)
(* fragment when the shortest of these, without blanks and without first   *)
(* character, is in the text without blanks: "Import" is found in "IDL     *)
(* import", "request" in "requestIndex".  The fragments have several       *)
(* characters and no blank in front.                                       *)
Within(part, text) ==
  \E n \in 0..(Len(text) - Len(part)) : SubSeq(text, n + 1, n + Len(part)) = part
fragment_matches(text, fragment) == Within(Tail(Normal[fragment]), text)

screen_contains(screen, fragment) ==
  \E text \in {Normal[line] : line \in Range(screen)} : fragment_matches(text, fragment)
screen_contains_all(screen, fragments) ==
  \E joined \in {FlattenSeq([i \in DOMAIN screen |-> Normal[screen[i]]])} :
     \A fragment \in fragments : fragment_matches(joined, fragment)

(* What the tests rely on.  A review has one instruction and the message,  *)
(* only the message section seems to show the hash, and no screen of it    *)
(* looks like the Sign screen.  What is expected of the sample program     *)
(* when it is decoded does not seem to be in the other review, nor the     *)
(* other way round.  Only the last page of the import review seems to      *)
(* reject.                                                                 *)
ShownNowhere(review, fragments) ==
  \A s \in DOMAIN review : \A top \in 0..Len(review[s]) :
     ~screen_contains_all(WindowScreen(review, s, top), fragments)
Tells(review, fragments) ==
  ShownNowhere(review, fragments) /\ ~screen_contains_all(SignScreen, fragments)

ASSUME SmokeAssumption ==
  /\ MaxScrolls \in Nat /\ MaxPages \in Nat
  /\ "sample" \in DOMAIN ReviewOf
  /\ \A names \in Selected : names \in Seq(DOMAIN ExpectedScreens \cap DOMAIN ReviewOf)
  /\ \A message \in DOMAIN ReviewOf : \A decoded \in BOOLEAN :
       LET review == ReviewOf[message][decoded]
       IN  /\ review \in Seq(Seq(STRING)) /\ Len(review) = 2
           /\ ShownNowhere(review, {"Cancel", "Sign"})
           /\ Tells(SubSeq(review, 1, 1), MessageHashScreen)
  /\ \E fragments \in ExpectedScreens["sample_decoded"] :
       Tells(ReviewOf["sample"][FALSE], fragments)
  /\ \E fragments \in ExpectedScreens["sample_generic"] :
       Tells(ReviewOf["sample"][TRUE], fragments)
  /\ Len(ImportPages) \in Nat /\ Len(ImportPages) >= 2
  /\ \A n \in 1..Len(ImportPages) :
       screen_contains(Deduplicated(ImportPages[n]), "Reject") => n = Len(ImportPages)

-----------------------------------------------------------------------------
(* The app.                                                                *)
Redraw == blank' = TRUE
Draw == blank /\ ~Ended /\ blank' = FALSE
        /\ UNCHANGED <<vars, request, answer, cursor, presses, imported, log, testVars>>

AtHome == step \in {"home", "signed", "rejected"} /\ answer = "none"

(* It takes the APDUs of the case and puts up the review, or refuses an    *)
(* IDL whose attestation does not verify.                                  *)
ReviewShown(message) ==
  LET decodes == IF fault = "never_decodes" THEN FALSE
                 ELSE IF fault = "always_decodes" THEN TRUE ELSE imported
      review  == ReviewOf[message][decodes]
  IN  IF fault = "hides_hash" THEN SubSeq(review, 1, 1) ELSE review

OpenReview ==
  /\ request.kind = "sign"
  /\ sections' = ReviewShown(request.message)
  /\ section_index' = 1 /\ scroll_line' = 0 /\ step' = "review"
  /\ drawn' = {1} \X {line \in 1..Len(sections'[1]) : line <= VisibleLines}
  /\ hurried' = FALSE
  /\ cursor' = 1 /\ Redraw
  /\ UNCHANGED <<answer, request>>

OpenImport ==
  /\ \/ request.kind = "load_idl"
     \/ request.kind = "load_bad_idl" /\ fault = "trusts_any_idl"
  /\ step' = "import" /\ cursor' = 1 /\ Redraw
  /\ UNCHANGED <<sections, section_index, scroll_line, drawn, hurried, answer, request>>

RefuseImport ==
  /\ request.kind = "load_bad_idl" /\ fault # "trusts_any_idl"
  /\ answer' = "refused" /\ request' = NoCase
  /\ UNCHANGED <<vars, cursor, blank>>

TakesRequest ==
  /\ ~Ended /\ AtHome /\ ~blank
  /\ OpenReview \/ OpenImport \/ RefuseImport
  /\ UNCHANGED <<presses, imported, log, testVars>>

(* The user's decision: the answer leaves and the home screen comes back.  *)
Decides(outcome) ==
  /\ answer' = outcome /\ request' = NoCase /\ cursor' = 1
  /\ log' = IF outcome = "denied" THEN log
            ELSE Append(log, [done |-> outcome, by |-> request, decoded |-> imported])

(* The sections of a review, which is drawn again after every button.      *)
ScrollerReads(button) ==
  /\ step = "review"
  /\ \/ button = "left" /\ LeftButton
     \/ button = "right" /\ RightButton
     \/ button = "both" /\ BothButtons
     \/ button = "left" /\ ~CanScrollUp /\ UNCHANGED vars
     \/ button = "right" /\ ~CanScrollDown /\ UNCHANGED vars
  /\ UNCHANGED <<request, answer, cursor, imported, log>>

(* Validator::ask of the SDK.                                              *)
ValidatorReads(button) ==
  /\ step = "ask"
  /\ IF button = "both"
     THEN /\ IF SignScreen[cursor] = "Sign"
             THEN Answer("signed") /\ Decides("signed")
             ELSE Answer("rejected") /\ Decides("denied")
     ELSE /\ cursor' = IF button = "right" THEN 2 ELSE 1
          /\ UNCHANGED <<vars, request, answer, log>>
  /\ UNCHANGED imported

(* MultiFieldReview of the SDK: pages, then "Import" and "Reject".         *)
ImportReads(button) ==
  /\ step = "import"
  /\ \/ /\ button = "both" /\ cursor = Len(ImportPages) - 1
        /\ step' = "home" /\ imported' = TRUE /\ Decides("imported")
     \/ /\ button = "both" /\ cursor = Len(ImportPages)
        /\ step' = "home" /\ Decides("denied") /\ UNCHANGED imported
     \/ /\ button = "both" /\ cursor < Len(ImportPages) - 1
        /\ UNCHANGED <<step, request, cursor, answer, imported, log>>
     \/ /\ button # "both"
        /\ cursor' = IF button = "right"
                     THEN IF cursor < Len(ImportPages) THEN cursor + 1 ELSE cursor
                     ELSE IF cursor > 1 THEN cursor - 1 ELSE cursor
        /\ UNCHANGED <<step, request, answer, imported, log>>
  /\ UNCHANGED <<sections, section_index, scroll_line, drawn, hurried>>

ReadsButton ==
  /\ ~Ended /\ ~blank /\ presses # <<>>
  /\ \/ ScrollerReads(Head(presses))
     \/ ValidatorReads(Head(presses))
     \/ ImportReads(Head(presses))
     \/ AtHome /\ UNCHANGED <<vars, request, answer, cursor, imported, log>>
  /\ presses' = Tail(presses)
  /\ Redraw
  /\ UNCHANGED testVars

App == (Draw \/ TakesRequest \/ ReadsButton) /\ UNCHANGED <<prompt, fault>>

-----------------------------------------------------------------------------
(* The test.  Each step of the main thread is one of: a press, a poll that *)
(* found what it waits for, a timeout.                                     *)
Quiet == ~blank /\ presses = <<>> /\ (request = NoCase \/ ~AtHome)
RunsOutAnyTime == TRUE   \* mutant: 900 ms are less than a screen takes
RunsOut == prompt => Quiet

At(here) == pc = here /\ ~Ended

Goto(there) == pc' = there
Keep == UNCHANGED <<vars, appVars, flow, k, home>>
Press(button) ==
  /\ presses' = Append(presses, button)
  /\ UNCHANGED <<vars, request, answer, cursor, blank, imported, log, flow, k, home>>

Fails == Goto("failed") /\ Keep /\ UNCHANGED <<current, seen, section, count>>

(* launch_speculos.                                                        *)
Launch ==
  /\ At("launch")
  /\ LET started == screen_contains(Screen, "Solana v2") /\ screen_contains(Screen, "app is ready")
     IN  \/ started /\ Goto("spawn")
         \/ RunsOut /\ ~started /\ Goto("failed")
  /\ Keep /\ UNCHANGED <<current, seen, section, count>>

(* The thread that talks to the app starts before the home screen is read. *)
Spawn ==
  /\ At("spawn")
  /\ request' = Case
  /\ Goto(IF Case.kind = "load_bad_idl" THEN "wait_refusal" ELSE "sample_home")
  /\ UNCHANGED <<vars, answer, cursor, blank, presses, imported, log,
                 flow, k, home, current, seen, section, count>>

SampleHome ==
  /\ At("sample_home")
  /\ home' = Screen
  /\ Goto("wait_review")
  /\ UNCHANGED <<vars, appVars, flow, k, current, seen, section, count>>

WaitReview ==
  /\ At("wait_review")
  /\ \/ /\ Changed(home)
        /\ current' = Screen /\ seen' = {Screen} /\ section' = 1 /\ count' = 0
        /\ Goto(IF Case.manual THEN "wait_result"
                ELSE IF Case.kind = "sign" THEN "scroll" ELSE "turn_page")
        /\ Keep
     \/ RunsOut /\ ~Changed(home) /\ Fails

(* A wait for a screen other than the current one; the timeout decides     *)
(* between a failure and the end of a section.                             *)
Waits(here, there, timeout) ==
  /\ At(here)
  /\ Keep
  /\ UNCHANGED <<section, count>>
  /\ \/ /\ Changed(current)
        /\ current' = Screen /\ seen' = seen \cup {Screen}
        /\ Goto(there)
     \/ /\ RunsOut /\ ~Changed(current)
        /\ UNCHANGED <<current, seen>>
        /\ Goto(timeout)

Presses(here, button, there) ==
  /\ At(here)
  /\ Press(button)
  /\ Goto(there)
  /\ UNCHANGED <<current, seen, section, count>>

(* collect_section_screens.                                                *)
Scroll ==
  /\ At("scroll")
  /\ IF count < MaxScrolls
     THEN Press("right") /\ count' = count + 1 /\ Goto("wait_scroll")
     ELSE Keep /\ Goto("end_section") /\ UNCHANGED count
  /\ UNCHANGED <<current, seen, section>>
WaitScroll == Waits("wait_scroll", "scroll", "end_section")

(* run_sign_case: two sections, what they must and must not have shown,    *)
(* the Sign screen.                                                        *)
NoCheck(screens) == TRUE   \* mutant: any review will do
CollectedEnough(screens) ==
  /\ \A fragments \in Case.expected : \E screen \in screens : screen_contains_all(screen, fragments)
  /\ \A fragment \in Case.forbidden : \A screen \in screens : ~screen_contains(screen, fragment)

EndSection ==
  /\ At("end_section")
  /\ \/ section < 2 /\ Press("both") /\ Goto("wait_section")
     \/ /\ section = 2
        /\ IF CollectedEnough(seen) THEN Press("both") /\ Goto("wait_sign")
           ELSE Keep /\ Goto("failed")
  /\ UNCHANGED <<current, seen, section, count>>

WaitSection ==
  /\ At("wait_section")
  /\ \/ /\ Changed(current)
        /\ current' = Screen /\ seen' = seen \cup {Screen}
        /\ section' = section + 1 /\ count' = 0
        /\ Goto("scroll") /\ Keep
     \/ RunsOut /\ ~Changed(current) /\ Fails

WaitSign == Waits("wait_sign", "check_sign", "failed")

CheckSign ==
  /\ At("check_sign")
  /\ Goto(IF screen_contains_all(current, {"Cancel", "Sign"}) THEN "choose" ELSE "failed")
  /\ Keep /\ UNCHANGED <<current, seen, section, count>>

ChooseCancel == Presses("choose", "left", "confirm")   \* mutant
Choose == Presses("choose", "right", "confirm")
Confirm == Presses("confirm", "both", "wait_result")

(* collect_load_idl_review_screens: to the page that rejects and one back. *)
TurnPage ==
  /\ At("turn_page")
  /\ IF count > 0 /\ screen_contains(current, "Reject")
     THEN Press("left") /\ Goto("wait_back") /\ UNCHANGED count
     ELSE IF count < MaxPages
     THEN Press("right") /\ count' = count + 1 /\ Goto("wait_page")
     ELSE Keep /\ Goto("failed") /\ UNCHANGED count
  /\ UNCHANGED <<current, seen, section>>
WaitPage == Waits("wait_page", "turn_page", "failed")
WaitBack == Waits("wait_back", "check_import", "failed")

assert_load_idl_review_screens(screens) ==
  \A fragment \in ImportFragments : \E screen \in screens : screen_contains(screen, fragment)

CheckImport ==
  /\ At("check_import")
  /\ IF assert_load_idl_review_screens(seen) /\ screen_contains(current, "Import")
     THEN Press("both") /\ Goto("wait_result")
     ELSE Keep /\ Goto("failed")
  /\ UNCHANGED <<current, seen, section, count>>

(* The answer of the blocked thread: 0x9000 and its data, or an error.     *)
AnyAnswer(outcome) == outcome # "none"   \* mutant: the status is not looked at
Accepted(outcome) == outcome \in {"signed", "imported"}

WaitResult ==
  /\ At("wait_result")
  /\ \/ answer # "none" /\ Goto(IF Accepted(answer) THEN "wait_home" ELSE "failed")
     \/ answer = "none" /\ RunsOut /\ ~Case.manual /\ Goto("failed")
  /\ answer' = "none"
  /\ UNCHANGED <<vars, request, cursor, blank, presses, imported, log,
                 flow, k, home, current, seen, section, count>>

NextCase ==
  IF k < Len(flow) THEN k' = k + 1 /\ Goto("spawn") ELSE k' = k /\ Goto("passed")

WaitHome ==
  /\ At("wait_home")
  /\ \/ screen_contains(Screen, "app is ready") /\ NextCase
     \/ RunsOut /\ ~screen_contains(Screen, "app is ready") /\ Goto("failed") /\ UNCHANGED k
  /\ home' = <<>> /\ current' = <<>> /\ seen' = {} /\ section' = 1 /\ count' = 0
  /\ UNCHANGED <<vars, appVars, flow>>

(* load_idl_expect_status, on the main thread.                             *)
WaitRefusal ==
  /\ At("wait_refusal")
  /\ \/ answer = "refused" /\ NextCase
     \/ answer \notin {"none", "refused"} /\ Goto("failed") /\ UNCHANGED k
     \/ answer = "none" /\ RunsOut /\ Goto("failed") /\ UNCHANGED k
  /\ answer' = "none"
  /\ UNCHANGED <<vars, request, cursor, blank, presses, imported, log,
                 flow, home, current, seen, section, count>>

Test ==
  /\ \/ Launch \/ Spawn \/ SampleHome \/ WaitReview
     \/ Scroll \/ WaitScroll \/ EndSection \/ WaitSection
     \/ WaitSign \/ CheckSign \/ Choose \/ Confirm
     \/ TurnPage \/ WaitPage \/ WaitBack \/ CheckImport
     \/ WaitResult \/ WaitHome \/ WaitRefusal
  /\ UNCHANGED <<prompt, fault>>

(* A manual review: somebody presses the buttons in the emulator's page.   *)
SomebodyPresses ==
  /\ At("wait_result") /\ Case.manual /\ answer = "none"
  /\ presses = <<>> /\ ~blank
  /\ \E button \in {"left", "right", "both"} : Press(button)
  /\ UNCHANGED <<pc, current, seen, section, count, prompt, fault>>

-----------------------------------------------------------------------------
SmokeInit ==
  /\ sections = <<>> /\ section_index = 1 /\ scroll_line = 0
  /\ step = "home" /\ drawn = {} /\ hurried = FALSE
  /\ request = NoCase /\ answer = "none" /\ cursor = 1
  /\ blank = TRUE /\ presses = <<>> /\ imported = FALSE /\ log = <<>>
  /\ flow \in Flows /\ k = 1 /\ pc = "launch"
  /\ home = <<>> /\ current = <<>> /\ seen = {} /\ section = 1 /\ count = 0
  /\ prompt \in BOOLEAN /\ fault \in Faults

SmokeNext == App \/ Test \/ SomebodyPresses

(* The emulator runs on and the test polls on; nobody has to press.        *)
SmokeSpec ==
  SmokeInit /\ [][SmokeNext]_smokeVars
  /\ WF_smokeVars(Draw /\ UNCHANGED <<prompt, fault>>)
  /\ WF_smokeVars(TakesRequest /\ UNCHANGED <<prompt, fault>>)
  /\ WF_smokeVars(ReadsButton /\ UNCHANGED <<prompt, fault>>)
  /\ WF_smokeVars(Test)

-----------------------------------------------------------------------------
(* What the app should have done when the cases of the flow have passed.   *)
ShouldDo(cases, i) ==
  [done |-> IF cases[i].kind = "sign" THEN "signed" ELSE "imported", by |-> cases[i],
   decoded |-> \E j \in 1..(i - 1) : cases[j].kind = "load_idl"]
PlanOf(cases) ==
  LET plan[i \in 0..Len(cases)] ==
        IF i = 0 THEN <<>>
        ELSE IF cases[i].kind = "load_bad_idl" THEN plan[i - 1]
        ELSE Append(plan[i - 1], ShouldDo(cases, i))
  IN  plan
Planned == PlanOf(flow)[Len(flow)]

(* Hazard: the two threads only meet through the app, and presses may come *)
(* late.  However slow the emulator is, the app signs and imports only     *)
(* what the cases ask for, in their order, and all of it when the run has  *)
(* passed: no press of one case ever answers the review of another, the    *)
(* first sample is signed without the imported IDL and the others with it, *)
(* and no press is left for the home menu, where the buttons open the      *)
(* settings and quit the app.                                              *)
NoPressAtHome == presses # <<>> => step \notin {"home", "signed", "rejected"}
AppDidWhatWasTested ==
  /\ NoPressAtHome
  /\ IsPrefix(log, Planned)
  /\ pc = "passed" => log = Planned

(* Hazard: the test passes whatever the app does.  An app that never       *)
(* decodes the sample program, decodes it without an import, leaves out    *)
(* the hash or takes an IDL with a bad signature does not pass the smoke   *)
(* test where no review is manual, however slow the emulator is.           *)
FaultIsFound ==
  /\ pc = "passed"
  /\ \E i \in DOMAIN flow : flow[i].kind = "load_bad_idl"
  /\ \A i \in DOMAIN flow : ~flow[i].manual
  => fault = "none"

(* Two windows of a section that look alike end it for the test, and so    *)
(* does a section longer than MaxScrolls.                                  *)
Readable(review) ==
  \A s \in DOMAIN review :
    /\ Len(review[s]) - VisibleLines <= MaxScrolls
    /\ \A top \in 0..(Len(review[s]) - VisibleLines - 1) :
         WindowScreen(review, s, top) # WindowScreen(review, s, top + 1)

(* Hazard: a section is left with lines never read, and a forbidden line   *)
(* or a wrong value below is not noticed.  When the emulator keeps up, the *)
(* test leaves every section of a readable review at its last line: it is  *)
(* the patient user of ReviewScroller.                                     *)
TestIsPatient ==
  step \in {"review", "ask"} /\ prompt /\ Readable(sections) /\ ~Case.manual => ~hurried

(* Hazard: the thread that sends the APDUs starts before the home screen   *)
(* is read.  If the review is already up it is taken for the home screen,  *)
(* the wait for another one runs out and a good app fails.                 *)
Raced == home \notin {<<>>, HomeScreen}

(* It is the only way: when the emulator keeps up and every review is      *)
(* readable, a run without manual reviews passes, or the race was lost.    *)
Unattended ==
  /\ prompt /\ fault = "none"
  /\ \A i \in DOMAIN flow :
       /\ ~flow[i].manual
       /\ flow[i].kind = "sign" =>
            \A decoded \in BOOLEAN : Readable(ReviewOf[flow[i].message][decoded])
GoodAppPasses == Unattended ~> (pc = "passed" \/ Raced)
=============================================================================
