-------------------------- MODULE SmokeTest_proofs --------------------------
(***************************************************************************)
(* For all reviews the tests can be run with, however slow the emulator    *)
(* is and whatever is wrong with the app: the app signs and imports what   *)
(* the cases ask for, in their order; a fault does not pass; and with time *)
(* to keep up, the test reads every section to its end.                    *)
(***************************************************************************)
EXTENDS SmokeTest, SequenceParts, FiniteSetTheorems

-----------------------------------------------------------------------------
(* The inductive invariant.  What is true where the main thread is, of the *)
(* app and of the presses that it has not read.                            *)
Buttons == {"left", "right", "both"}
Opened == step \in {"review", "ask", "import"}
Places ==
  {"launch", "spawn", "sample_home", "wait_review", "scroll", "wait_scroll",
   "end_section", "wait_section", "wait_sign", "check_sign", "choose", "confirm",
   "turn_page", "wait_page", "wait_back", "check_import", "wait_result",
   "wait_home", "wait_refusal", "passed", "failed"}

SmokeTypeOK ==
  /\ flow \in Flows /\ k \in 1..Len(flow)
  /\ pc \in Places
  /\ step \in {"home", "review", "ask", "import", "signed", "rejected"}
  /\ answer \in {"none", "signed", "imported", "denied", "refused"}
  /\ request \in {NoCase, Case}
  /\ presses \in Seq(Buttons)
  /\ cursor \in Nat /\ section \in Nat /\ count \in Nat
  /\ {blank, imported, hurried, prompt} \subseteq BOOLEAN
  /\ fault \in Faults

(* What is on the screen is of the case under way.                         *)
ScreenIsOfTheCase ==
  /\ Opened => request = Case /\ answer = "none"
  /\ ~Opened => presses = <<>>
  /\ answer # "none" => request = NoCase
  /\ step \in {"review", "ask"} =>
       /\ Case.kind = "sign" /\ sections = ReviewShown(Case.message)
       /\ section_index \in 1..Len(sections)
       /\ scroll_line \in 0..Lines(section_index)
       /\ cursor \in {1, 2}
  /\ step = "review" => cursor = 1
  /\ step = "ask" => section_index = Len(sections)
  /\ step = "import" =>
       /\ cursor \in 1..Len(ImportPages)
       /\ \/ Case.kind = "load_idl"
          \/ Case.kind = "load_bad_idl" /\ fault = "trusts_any_idl"

AtRest == ~Opened /\ request = NoCase /\ answer = "none"

(* The screen that was read stays until the press that follows is read.    *)
Steady(pending) == presses = pending /\ ~blank /\ current = Screen

BeforeReview ==
  /\ pc \in {"launch", "spawn"} => AtRest
  /\ pc = "spawn" => ~blank
  /\ pc \in {"sample_home", "wait_review"} =>
       /\ Case.kind # "load_bad_idl"
       /\ request = Case /\ answer = "none" /\ presses = <<>> /\ step # "ask"
       /\ Opened \/ ~blank
       /\ step = "review" => section_index = 1 /\ scroll_line = 0 /\ ~hurried
       /\ step = "import" => cursor = 1
  /\ pc = "wait_review" => Opened \/ home = HomeScreen

(* Every press of both buttons is read or pending.                         *)
Both(pending) == Cardinality({i \in 1..Len(pending) : pending[i] = "both"})
Pressed ==
  CASE pc \in {"wait_sign", "check_sign"} -> 2
    [] pc = "wait_section" -> section
    [] OTHER -> section - 1
Read == IF step = "ask" THEN Len(sections) ELSE section_index - 1

InReview == pc \in {"scroll", "wait_scroll", "end_section", "wait_section", "wait_sign", "check_sign"}
CanShow(screen) ==
  screen = SignScreen
  \/ \E s \in 1..Len(sections) : \E top \in 0..Lines(s) : screen = WindowScreen(sections, s, top)

WhileInReview ==
  InReview =>
    /\ Case.kind = "sign" /\ ~Case.manual
    /\ step \in {"review", "ask"}
    /\ section \in {1, 2}
    /\ pc = "wait_section" => section = 1
    /\ Read + Both(presses) = Pressed /\ Pressed <= Len(sections)
    /\ \A screen \in seen : CanShow(screen)
    /\ pc \in {"wait_sign", "check_sign"} =>
         /\ section = 2 /\ cursor = 1
         /\ presses # <<>> => presses[Len(presses)] = "both"
    /\ pc = "check_sign" /\ screen_contains_all(current, {"Cancel", "Sign"}) => step = "ask"

WhileDeciding ==
  /\ pc \in {"choose", "confirm"} => Case.kind = "sign" /\ ~Case.manual /\ step = "ask"
  /\ pc = "choose" => presses = <<>> /\ cursor = 1
  /\ pc = "confirm" => (presses = <<"right">> /\ cursor = 1) \/ (presses = <<>> /\ cursor = 2)

InImport == pc \in {"turn_page", "wait_page", "wait_back", "check_import"}
WhileInImport ==
  /\ InImport => Case.kind = "load_idl" /\ ~Case.manual /\ step = "import"
  /\ pc \in {"turn_page", "check_import"} => Steady(<<>>)
  /\ pc = "wait_page" => presses = <<>> \/ Steady(<<"right">>)
  /\ pc = "wait_back" =>
       \/ presses = <<>> /\ cursor = Len(ImportPages) - 1
       \/ Steady(<<"left">>) /\ cursor = Len(ImportPages)
  /\ pc = "check_import" => cursor = Len(ImportPages) - 1

AboutToAnswer ==
  \/ step = "ask" /\ presses = <<"right", "both">> /\ cursor = 1
  \/ step = "ask" /\ presses = <<"both">> /\ cursor = 2
  \/ step = "import" /\ presses = <<"both">> /\ cursor = Len(ImportPages) - 1

WhileAnswered ==
  /\ pc = "wait_result" =>
       /\ Case.kind # "load_bad_idl" /\ answer # "refused"
       /\ Opened \/ answer # "none"
       /\ Case.manual => Len(presses) <= 1
       /\ ~Case.manual /\ Opened => AboutToAnswer
  /\ pc = "wait_home" => AtRest
  /\ pc = "wait_refusal" =>
       /\ Case.kind = "load_bad_idl" /\ presses = <<>>
       /\ \/ request = Case /\ answer = "none" /\ (Opened \/ ~blank)
          \/ /\ request = NoCase /\ answer = "refused" /\ ~Opened /\ ~blank
             /\ fault # "trusts_any_idl"
  /\ pc = "passed" => AtRest /\ k = Len(flow)

(* What the app did so far.                                                *)
Acted ==
  \/ pc \in {"wait_home", "passed"}
  \/ pc = "wait_result" /\ answer \in {"signed", "imported"}
DoneUpTo(n) ==
  /\ log = PlanOf(flow)[n]
  /\ imported = (\E j \in 1..n : flow[j].kind = "load_idl")
LogIsPlanned ==
  \/ pc # "failed" /\ Acted /\ DoneUpTo(k)
  \/ pc # "failed" /\ ~Acted /\ DoneUpTo(k - 1)
  \/ pc = "failed" /\ \E n \in {k - 1, k} : log = PlanOf(flow)[n]

(* What a case that went through says of the app.                          *)
Cleared(case) ==
  /\ case.kind = "load_bad_idl" => fault # "trusts_any_idl"
  /\ case.kind = "sign" /\ ~case.manual =>
       /\ fault # "hides_hash"
       /\ case.message = "sample" /\ ExpectedScreens["sample_decoded"] \subseteq case.expected
            => fault # "never_decodes"
       /\ case.message = "sample" /\ ExpectedScreens["sample_generic"] \subseteq case.expected
            => fault # "always_decodes"
FaultsAreCleared ==
  /\ \A i \in 1..(k - 1) : Cleared(flow[i])
  /\ pc \in {"wait_sign", "check_sign", "choose", "confirm", "wait_result", "wait_home", "passed"}
       => Cleared(Case)

(* With time to keep up, the test knows where the scroller is.             *)
InStep ==
  prompt /\ ~Case.manual /\ Readable(sections) =>
    /\ step \in {"review", "ask"} => ~hurried
    /\ step = "review" =>
         /\ pc = "scroll" => Steady(<<>>) /\ scroll_line = count
         /\ pc = "wait_scroll" =>
              \/ Steady(<<"right">>) /\ scroll_line = count - 1
              \/ /\ presses = <<>> /\ scroll_line = count /\ count >= 1
                 /\ current = WindowScreen(sections, section_index, count - 1)
                 /\ count - 1 + VisibleLines < Lines(section_index)
              \/ /\ presses = <<>> /\ scroll_line = count - 1 /\ ~CanScrollDown
                 /\ current = WindowScreen(sections, section_index, scroll_line)
         /\ pc = "end_section" => Steady(<<>>) /\ ~CanScrollDown
         /\ pc = "wait_section" =>
              \/ Steady(<<"both">>) /\ ~CanScrollDown
              \/ presses = <<>> /\ scroll_line = 0
         /\ pc = "wait_sign" => (Steady(<<"both">>) /\ ~CanScrollDown) \/ presses = <<>>
         /\ pc = "check_sign" => presses = <<>>

SmokeInv ==
  /\ SmokeTypeOK /\ ScreenIsOfTheCase
  /\ BeforeReview /\ WhileInReview /\ WhileDeciding /\ WhileInImport /\ WhileAnswered
  /\ LogIsPlanned /\ FaultsAreCleared /\ InStep

-----------------------------------------------------------------------------
(* What the proofs use of the cases.                                       *)
Kinds == {"sign", "load_idl", "load_bad_idl"}
IsCase(case) ==
  /\ case.kind \in Kinds /\ case.manual \in BOOLEAN
  /\ case.kind = "sign" =>
       case.message \in DOMAIN ReviewOf /\ MessageHashScreen \in case.expected
  /\ case.kind = "load_bad_idl" => ~case.manual

LEMMA SignCaseIs ==
  ASSUME NEW message \in DOMAIN ReviewOf, NEW expected, NEW forbidden, NEW manual \in BOOLEAN
  PROVE  IsCase(SignCase(message, expected, forbidden, manual))
BY DEF SignCase, IsCase, Kinds

LEMMA LoadCaseIs ==
  ASSUME NEW manual \in BOOLEAN
  PROVE  IsCase(LoadCase("load_idl", manual)) /\ IsCase(LoadCase("load_bad_idl", FALSE))
BY DEF LoadCase, IsCase, Kinds

(* The imported cases are the last five of a run of the smoke tests.       *)
HasBothSamples(f, manual) ==
  \E i \in 1..Len(f) : \E j \in 1..Len(f) :
    /\ f[i] = build_imported_sample_case(FALSE, manual)
    /\ f[j] = build_imported_sample_case(TRUE, manual)

LEMMA SmokeFlowIs ==
  ASSUME NEW names \in Selected, NEW manual \in BOOLEAN, NEW manual_load \in BOOLEAN,
         NEW f, f = run_speculos_smoke(names, manual, manual_load)
  PROVE  /\ Len(f) \in Nat \ {0} /\ DOMAIN f = 1..Len(f)
         /\ \A i \in 1..Len(f) : IsCase(f[i])
         /\ HasBothSamples(f, manual)
<1> DEFINE builtin == [n \in DOMAIN names |-> build_case(names[n], manual)]
           import == run_imported_idl_flow(manual, manual_load)
           n == Len(names)
           S == {builtin[i] : i \in 1..n} \cup {import[i] : i \in 1..5}
<1>1. n \in Nat /\ DOMAIN names = 1..n
      /\ \A i \in 1..n : names[i] \in DOMAIN ReviewOf
  BY SmokeAssumption, LenProperties, ElementOfSeq
<1>2. ASSUME NEW i \in 1..n PROVE IsCase(builtin[i])
  <2>1. builtin[i] = build_case(names[i], manual)
    BY <1>1
  <2> QED
    BY <1>1, <2>1, SignCaseIs DEF build_case
<1>3. /\ import[1] = build_imported_sample_case(FALSE, manual)
      /\ import[3] = build_imported_sample_case(TRUE, manual)
      /\ import[2] = LoadCase("load_idl", manual_load)
      /\ import[4] = LoadCase("load_bad_idl", FALSE)
      /\ import[5] = import[3]
      /\ DOMAIN import = 1..5 /\ Len(import) = 5
      /\ import = [i \in 1..5 |-> import[i]]
  BY DEF run_imported_idl_flow
<1>4. \A i \in 1..5 : IsCase(import[i])
  <2>1. "sample" \in DOMAIN ReviewOf
    BY SmokeAssumption
  <2>2. IsCase(import[1]) /\ IsCase(import[3])
    BY <1>3, <2>1, SignCaseIs DEF build_imported_sample_case
  <2>3. IsCase(import[2]) /\ IsCase(import[4])
    BY <1>3, LoadCaseIs
  <2>4. \A i \in 1..5 : i \in {1, 2, 3, 4, 5}
    OBVIOUS
  <2> QED
    BY <1>3, <2>2, <2>3, <2>4
<1>5. f = builtin \o import
  BY DEF run_speculos_smoke
<1> HIDE DEF import
<1>6. import \in Seq(S) /\ Len(import) = 5
  <2>1. import \in [1..5 -> S]
    BY <1>3
  <2> QED
    BY <1>3, <2>1, FunctionIsSeq
<1>7. builtin \in Seq(S) /\ Len(builtin) = n
  <2>1. builtin = [i \in 1..n |-> builtin[i]]
    BY <1>1
  <2> HIDE DEF builtin
  <2>2. builtin \in [1..n -> S]
    BY <2>1
  <2> HIDE DEF n
  <2> QED
    BY <1>1, <2>2, FunctionIsSeq
<1> HIDE DEF builtin, n, S
<1>8. /\ f \in Seq(S) /\ Len(f) = n + 5
      /\ \A i \in 1..n : f[i] = builtin[i]
      /\ \A i \in 1..5 : f[n + i] = import[i]
  <2>1. builtin \in Seq(S) /\ import \in Seq(S)
    BY <1>6, <1>7
  <2>2. /\ builtin \o import \in Seq(S)
        /\ Len(builtin \o import) = Len(builtin) + Len(import)
        /\ \A i \in 1..Len(builtin) : (builtin \o import)[i] = builtin[i]
        /\ \A i \in 1..Len(import) : (builtin \o import)[Len(builtin) + i] = import[i]
    BY ONLY <2>1, ConcatIs
  <2> QED
    BY <1>5, <1>6, <1>7, <2>2
<1>9. Len(f) \in Nat \ {0} /\ DOMAIN f = 1..Len(f)
  BY <1>1, <1>8, LenProperties
<1>10. ASSUME NEW i \in 1..Len(f) PROVE IsCase(f[i])
  <2>1. CASE i \in 1..n
    BY <1>2, <1>8, <2>1
  <2>2. CASE i \notin 1..n
    <3>1. i - n \in 1..5 /\ n + (i - n) = i
      BY <1>1, <1>8, <2>2
    <3> QED
      BY <1>4, <1>8, <3>1
  <2> QED
    BY <2>1, <2>2
<1>11. /\ n + 1 \in 1..Len(f) /\ n + 3 \in 1..Len(f)
       /\ f[n + 1] = import[1] /\ f[n + 3] = import[3]
  BY <1>1, <1>8
<1>12. HasBothSamples(f, manual)
  BY <1>3, <1>11 DEF HasBothSamples
<1> QED
  BY <1>9, <1>10, <1>12

(* The other flow has no refusal.                                          *)
LEMMA ReviewFlowIs ==
  ASSUME NEW f, f = run_review_load_idl
  PROVE  /\ Len(f) = 2 /\ DOMAIN f = 1..Len(f)
         /\ \A i \in 1..Len(f) : IsCase(f[i]) /\ f[i].kind # "load_bad_idl"
<1>1. "sample" \in DOMAIN ReviewOf
  BY SmokeAssumption
<1>2. /\ Len(f) = 2 /\ DOMAIN f = 1..2
      /\ f[1] = LoadCase("load_idl", TRUE) /\ f[2] = build_imported_sample_case(TRUE, FALSE)
  BY DEF run_review_load_idl
<1>3. f[1].kind = "load_idl" /\ f[2].kind = "sign"
  BY <1>2 DEF LoadCase, build_imported_sample_case, SignCase
<1>4. IsCase(f[1]) /\ IsCase(f[2])
  BY <1>1, <1>2, LoadCaseIs, SignCaseIs DEF build_imported_sample_case
<1>5. \A i \in 1..2 : i \in {1, 2}
  OBVIOUS
<1> QED
  BY <1>2, <1>3, <1>4, <1>5

LEMMA FlowIs ==
  ASSUME NEW f \in Flows
  PROVE  /\ Len(f) \in Nat \ {0} /\ DOMAIN f = 1..Len(f)
         /\ \A i \in 1..Len(f) : IsCase(f[i])
<1>1. CASE f = run_review_load_idl
  BY <1>1, ReviewFlowIs
<1>2. CASE f # run_review_load_idl
  <2>1. PICK names \in Selected, manual \in BOOLEAN, manual_load \in BOOLEAN :
               f = run_speculos_smoke(names, manual, manual_load)
    BY <1>2 DEF Flows
  <2> QED
    BY <2>1, SmokeFlowIs
<1> QED
  BY <1>1, <1>2

-----------------------------------------------------------------------------
(* The reviews that the app can show.                                      *)
LEMMA ReviewShownIs ==
  ASSUME fault \in Faults, imported \in BOOLEAN, NEW message \in DOMAIN ReviewOf
  PROVE  LET review == ReviewShown(message)
         IN  /\ review \in Seq(Seq(STRING)) /\ Len(review) \in {1, 2}
             /\ fault # "hides_hash" =>
                  Len(review) = 2 /\ ShownNowhere(review, {"Cancel", "Sign"})
             /\ fault = "hides_hash" =>
                  Len(review) = 1 /\ Tells(review, MessageHashScreen)
             /\ fault = "never_decodes" => review = ReviewOf[message][FALSE]
             /\ fault = "always_decodes" => review = ReviewOf[message][TRUE]
<1> DEFINE decodes == IF fault = "never_decodes" THEN FALSE
                      ELSE IF fault = "always_decodes" THEN TRUE ELSE imported
           review == ReviewOf[message][decodes]
<1>1. decodes \in BOOLEAN
  OBVIOUS
<1>2. /\ review \in Seq(Seq(STRING)) /\ Len(review) = 2
      /\ ShownNowhere(review, {"Cancel", "Sign"})
      /\ Tells(SubSeq(review, 1, 1), MessageHashScreen)
  <2> HIDE DEF decodes
  <2> QED
    BY <1>1, SmokeAssumption
<1>3. ReviewShown(message) = IF fault = "hides_hash" THEN SubSeq(review, 1, 1) ELSE review
  BY DEF ReviewShown
<1>4. fault = "never_decodes" => review = ReviewOf[message][FALSE]
  OBVIOUS
<1>5. fault = "always_decodes" => review = ReviewOf[message][TRUE]
  OBVIOUS
<1> HIDE DEF review, decodes
<1>6. SubSeq(review, 1, 1) \in Seq(Seq(STRING)) /\ Len(SubSeq(review, 1, 1)) = 1
  <2>1. 1 \in Int /\ \A i \in 1..1 : review[i] \in Seq(STRING)
    BY <1>2, ElementOfSeq
  <2> DEFINE one == 1
  <2>2. one \in Int /\ \A i \in one..one : review[i] \in Seq(STRING)
    BY <2>1
  <2> HIDE DEF one
  <2>3. /\ SubSeq(review, one, one) \in Seq(Seq(STRING))
        /\ Len(SubSeq(review, one, one)) = IF one <= one THEN one - one + 1 ELSE 0
    BY ONLY <2>2, SubSeqProperties
  <2> QED
    BY <2>3 DEF one
<1> QED
  BY <1>2, <1>3, <1>4, <1>5, <1>6

(* The first of equal texts is among the firsts.                           *)
Firsts(lines) == {i \in DOMAIN lines : \A j \in 1..(i - 1) : lines[j] # lines[i]}

(* Every window has at least the text of its footer.                       *)
LEMMA WindowNotEmpty ==
  ASSUME NEW review \in Seq(Seq(STRING)), NEW s \in 1..Len(review), NEW top \in Nat
  PROVE  WindowScreen(review, s, top) # <<>>
<1> DEFINE n == Len(review[s])
           m == IF top + VisibleLines < n THEN top + VisibleLines ELSE n
           above == SubSeq(review[s], top + 1, m)
           footer == IF s < Len(review) THEN "next" ELSE "sign"
           lines == WindowAt(review, s, top)
           Texts == STRING \cup {footer}
<1>1. /\ review[s] \in Seq(STRING) /\ n \in Nat
      /\ VisibleLines \in Nat /\ m \in Nat /\ top + 1 \in Int /\ m \in Int
      /\ \A i \in (top + 1)..m : review[s][i] \in STRING
  <2>1. review[s] \in Seq(STRING) /\ n \in Nat /\ VisibleLines \in Nat
    BY ReviewAssumption, ElementOfSeq, LenProperties
  <2>2. m \in Nat /\ m <= n
    BY <2>1
  <2> HIDE DEF n, m
  <2>3. \A i \in (top + 1)..m : i \in 1..n
    BY <2>1, <2>2
  <2> QED
    BY <2>1, <2>2, <2>3, ElementOfSeq DEF n
<1>2. above \in Seq(Texts)
  <2> DEFINE from == top + 1
             whole == review[s]
  <2>1. from \in Int /\ m \in Int /\ \A i \in from..m : whole[i] \in Texts
    BY <1>1
  <2> HIDE DEF from, m, whole, Texts
  <2>2. SubSeq(whole, from, m) \in Seq(Texts)
    BY ONLY <2>1, SubSeqProperties
  <2> QED
    BY <2>2 DEF from, whole
<1>3. <<footer>> \in Seq(Texts) /\ Len(<<footer>>) = 1
  <2>1. footer \in Texts
    OBVIOUS
  <2> HIDE DEF footer, Texts
  <2> QED
    BY <2>1
<1>4. lines = above \o <<footer>>
  BY DEF WindowAt
<1> HIDE DEF above, footer, lines, Texts
<1>5. lines \in Seq(Texts) /\ Len(lines) >= 1 /\ Len(lines) \in Nat
  <2>1. /\ above \o <<footer>> \in Seq(Texts) /\ Len(above) \in Nat
        /\ Len(above \o <<footer>>) = Len(above) + Len(<<footer>>)
    BY ONLY <1>2, <1>3, ConcatIs
  <2> QED
    BY <1>3, <1>4, <2>1
<1>6. 1 \in Firsts(lines)
  BY <1>5, LenProperties DEF Firsts
<1>7. IsFiniteSet(Firsts(lines))
  <2> DEFINE a == 1
             b == Len(lines)
  <2>1. a \in Int /\ b \in Int /\ Firsts(lines) \in SUBSET (a..b)
    BY <1>5, LenProperties DEF Firsts
  <2> HIDE DEF a, b
  <2>2. IsFiniteSet(a..b)
    BY ONLY <2>1, FS_Interval
  <2> QED
    BY ONLY <2>1, <2>2, FS_Subset
<1>8. Cardinality(Firsts(lines)) \in Nat \ {0}
  BY <1>6, <1>7, FS_EmptySet, FS_CardinalityType
<1> DEFINE size == Cardinality(Firsts(lines))
           f == Deduplicated(lines)
<1>9. DOMAIN f = 1..size
  BY DEF Deduplicated, Firsts
<1>10. 1 \in DOMAIN f
  BY <1>8, <1>9
<1> HIDE DEF f
<1>11. f # <<>>
  BY <1>10
<1> QED
  BY <1>11 DEF WindowScreen, lines, f

-----------------------------------------------------------------------------
(* The pending presses.                                                    *)
Boths(pending) == {i \in 1..Len(pending) : pending[i] = "both"}

LEMMA BothsAreFinite ==
  ASSUME NEW pending \in Seq(Buttons)
  PROVE  IsFiniteSet(Boths(pending)) /\ Both(pending) = Cardinality(Boths(pending))
<1> DEFINE a == 1
           b == Len(pending)
<1>1. a \in Int /\ b \in Int /\ Boths(pending) \in SUBSET (a..b)
  BY LenProperties DEF Boths
<1> HIDE DEF a, b
<1>2. IsFiniteSet(a..b)
  BY ONLY <1>1, FS_Interval
<1>3. IsFiniteSet(Boths(pending))
  BY ONLY <1>1, <1>2, FS_Subset
<1> QED
  BY <1>3 DEF Both, Boths

LEMMA BothOfNone == Both(<<>>) = 0
<1>1. Boths(<<>>) = {}
  BY DEF Boths
<1>2. Both(<<>>) = Cardinality(Boths(<<>>))
  BY DEF Both, Boths
<1> QED
  BY <1>1, <1>2, FS_EmptySet

LEMMA BothOfMore ==
  ASSUME NEW pending \in Seq(Buttons), NEW button \in Buttons
  PROVE  /\ Both(pending) \in Nat
         /\ Both(Append(pending, button))
              = IF button = "both" THEN Both(pending) + 1 ELSE Both(pending)
<1> DEFINE more == Append(pending, button)
           n == Len(pending)
<1>1. /\ more \in Seq(Buttons) /\ n \in Nat /\ Len(more) = n + 1 /\ more[n + 1] = button
      /\ \A i \in 1..n : more[i] = pending[i]
  BY AppendProperties, LenProperties
<1>2. IsFiniteSet(Boths(pending)) /\ Both(pending) = Cardinality(Boths(pending))
  BY BothsAreFinite
<1> HIDE DEF more
<1>3. Both(more) = Cardinality(Boths(more))
  BY <1>1, BothsAreFinite
<1>4. Both(pending) \in Nat
  BY <1>2, FS_CardinalityType
<1>5. CASE button = "both"
  <2>1. Boths(more) = Boths(pending) \cup {n + 1} /\ n + 1 \notin Boths(pending)
    BY <1>1, <1>5 DEF Boths
  <2>2. Cardinality(Boths(pending) \cup {n + 1}) = Cardinality(Boths(pending)) + 1
    BY <1>2, <2>1, FS_AddElement
  <2> QED
    BY <1>2, <1>3, <1>4, <1>5, <2>1, <2>2 DEF more
<1>6. CASE button # "both"
  <2>1. Boths(more) = Boths(pending)
    BY <1>1, <1>6 DEF Boths
  <2> QED
    BY <1>2, <1>3, <1>4, <1>6, <2>1 DEF more
<1> QED
  BY <1>5, <1>6

LEMMA BothOfRest ==
  ASSUME NEW pending \in Seq(Buttons), pending # <<>>
  PROVE  /\ Both(Tail(pending)) \in Nat
         /\ Both(pending) = IF Head(pending) = "both" THEN Both(Tail(pending)) + 1
                            ELSE Both(Tail(pending))
<1> DEFINE rest == Tail(pending)
           n == Len(rest)
           moved == {i \in 2..(n + 1) : pending[i] = "both"}
<1>1. /\ rest \in Seq(Buttons) /\ n \in Nat /\ Len(pending) = n + 1
      /\ \A i \in 1..n : rest[i] = pending[i + 1]
      /\ Head(pending) = pending[1]
  BY HeadTailProperties, LenProperties
<1> HIDE DEF rest
<1>2. IsFiniteSet(Boths(rest)) /\ Both(rest) = Cardinality(Boths(rest))
  BY <1>1, BothsAreFinite
<1>3. Both(pending) = Cardinality(Boths(pending))
  BY BothsAreFinite
<1>4. Both(rest) \in Nat
  BY <1>2, FS_CardinalityType
<1>5. IsFiniteSet(moved) /\ Cardinality(moved) = Cardinality(Boths(rest))
  <2> DEFINE f == [i \in Boths(rest) |-> i + 1]
  <2>1. \A i \in Boths(rest) : i \in 1..n /\ i + 1 \in moved
    BY <1>1 DEF Boths
  <2>2. f \in [Boths(rest) -> moved]
    BY <2>1
  <2>3. \A i, j \in Boths(rest) : f[i] = f[j] => i = j
    BY <2>1
  <2>4. \A j \in moved : \E i \in Boths(rest) : f[i] = j
    <3> SUFFICES ASSUME NEW j \in moved
                 PROVE  \E i \in Boths(rest) : f[i] = j
      OBVIOUS
    <3>1. j - 1 \in 1..n /\ (j - 1) + 1 = j
      BY <1>1
    <3>2. j - 1 \in Boths(rest)
      BY <1>1, <3>1 DEF Boths
    <3> QED
      BY <3>1, <3>2
  <2> HIDE DEF f
  <2>5. f \in Bijection(Boths(rest), moved)
    BY ONLY <2>2, <2>3, <2>4 DEF Bijection, Injection, Surjection, IsInjective
  <2>6. ExistsBijection(Boths(rest), moved)
    BY <2>5 DEF ExistsBijection
  <2> QED
    BY <1>2, <2>6, FS_Bijection
<1>6. CASE Head(pending) = "both"
  <2>1. Boths(pending) = moved \cup {1} /\ 1 \notin moved
    BY <1>1, <1>6 DEF Boths
  <2> HIDE DEF moved
  <2>2. Cardinality(moved \cup {1}) = Cardinality(moved) + 1
    BY <1>5, <2>1, FS_AddElement
  <2> QED
    BY <1>2, <1>3, <1>4, <1>5, <1>6, <2>1, <2>2 DEF rest
<1>7. CASE Head(pending) # "both"
  <2>1. Boths(pending) = moved
    BY <1>1, <1>7 DEF Boths
  <2> QED
    BY <1>2, <1>3, <1>4, <1>5, <1>7, <2>1 DEF rest
<1> QED
  BY <1>6, <1>7

(* One press and another are two.                                          *)
LEMMA TwoPresses ==
  ASSUME NEW x \in Buttons, NEW y \in Buttons
  PROVE  Append(<<x>>, y) = <<x, y>>
<1> DEFINE a == <<x>>
           b == Append(a, y)
           c == <<x, y>>
<1>1. a \in Seq(Buttons) /\ Len(a) = 1 /\ a[1] = x
  OBVIOUS
<1>2. c \in Seq(Buttons) /\ Len(c) = 2 /\ c[1] = x /\ c[2] = y
  OBVIOUS
<1> HIDE DEF a, c
<1>3. b \in Seq(Buttons) /\ Len(b) = 2 /\ b[1] = x /\ b[2] = y
  <2>1. a \in Seq(Buttons) /\ y \in Buttons
    BY <1>1
  <2>2. /\ b \in Seq(Buttons) /\ Len(b) = Len(a) + 1 /\ \A i \in 1..Len(a) : b[i] = a[i]
        /\ b[Len(a) + 1] = y
    BY ONLY <2>1, AppendProperties
  <2> QED
    BY <1>1, <2>2
<1> HIDE DEF b
<1>4. \A i \in 1..2 : b[i] = c[i]
  BY <1>2, <1>3
<1>5. b = c
  BY <1>2, <1>3, <1>4, SeqEqual
<1> QED
  BY <1>5 DEF a, b, c

LEMMA LastIsBoth ==
  ASSUME NEW pending \in Seq(Buttons), pending # <<>>, pending[Len(pending)] = "both"
  PROVE  Both(pending) # 0
<1>1. Len(pending) \in Boths(pending)
  BY LenProperties DEF Boths
<1> QED
  BY <1>1, BothsAreFinite, FS_EmptySet

-----------------------------------------------------------------------------
(* The plan of a flow, case by case.                                       *)
Entries(f) == {ShouldDo(f, i) : i \in 1..Len(f)}
Planning(f) ==
  [i \in 1..Len(f) |->
     [plan \in Seq(Entries(f)) |->
        IF f[i].kind = "load_bad_idl" THEN plan ELSE Append(plan, ShouldDo(f, i))]]

LEMMA PlanningIs ==
  ASSUME NEW f, Len(f) \in Nat
  PROVE  /\ <<>> \in Seq(Entries(f))
         /\ Planning(f) \in [1..Len(f) -> [Seq(Entries(f)) -> Seq(Entries(f))]]
         /\ \A i \in 1..Len(f) : \A plan \in Seq(Entries(f)) :
              /\ Planning(f)[i][plan] = IF f[i].kind = "load_bad_idl" THEN plan
                                        ELSE Append(plan, ShouldDo(f, i))
              /\ Append(plan, ShouldDo(f, i)) \in Seq(Entries(f))
<1> DEFINE n == Len(f)
           S == Seq(Entries(f))
           turn(i) == [plan \in S |->
                         IF f[i].kind = "load_bad_idl" THEN plan ELSE Append(plan, ShouldDo(f, i))]
<1>1. <<>> \in S
  OBVIOUS
<1>2. \A i \in 1..n : ShouldDo(f, i) \in Entries(f)
  BY DEF Entries
<1>3. \A i \in 1..n : \A plan \in S : Append(plan, ShouldDo(f, i)) \in S
  BY <1>2, AppendProperties
<1>4. \A i \in 1..n : turn(i) \in [S -> S]
  BY <1>3
<1>5. \A i \in 1..n : \A plan \in S :
        turn(i)[plan] = IF f[i].kind = "load_bad_idl" THEN plan ELSE Append(plan, ShouldDo(f, i))
  OBVIOUS
<1>6. Planning(f) = [i \in 1..n |-> turn(i)]
  BY DEF Planning
<1> HIDE DEF turn, S, n
<1>7. Planning(f) \in [1..n -> [S -> S]] /\ \A i \in 1..n : Planning(f)[i] = turn(i)
  BY ONLY <1>4, <1>6
<1>8. \A i \in 1..n : \A plan \in S :
        Planning(f)[i][plan] = IF f[i].kind = "load_bad_idl" THEN plan
                               ELSE Append(plan, ShouldDo(f, i))
  BY <1>5, <1>7
<1> QED
  BY <1>1, <1>3, <1>7, <1>8 DEF n, S

LEMMA PlanIs ==
  ASSUME NEW f, Len(f) \in Nat
  PROVE  /\ PlanOf(f) \in [0..Len(f) -> Seq(Entries(f))]
         /\ PlanOf(f)[0] = <<>>
         /\ \A i \in 1..Len(f) :
              PlanOf(f)[i] = IF f[i].kind = "load_bad_idl" THEN PlanOf(f)[i - 1]
                             ELSE Append(PlanOf(f)[i - 1], ShouldDo(f, i))
<1> DEFINE n == Len(f)
           S == Seq(Entries(f))
           turns == Planning(f)
           none == <<>>
           Is(g) == g = [i \in 0..n |-> IF i = 0 THEN <<>>
                                        ELSE IF f[i].kind = "load_bad_idl" THEN g[i - 1]
                                        ELSE Append(g[i - 1], ShouldDo(f, i))]
           h == CHOOSE g : Is(g)
<1>1. PlanOf(f) = h
  BY DEF PlanOf
<1>2. /\ n \in Nat /\ none \in S /\ turns \in [1..n -> [S -> S]]
      /\ \A i \in 1..n : \A plan \in S :
           turns[i][plan] = IF f[i].kind = "load_bad_idl" THEN plan
                            ELSE Append(plan, ShouldDo(f, i))
  BY PlanningIs
<1> HIDE DEF n, S, turns
<1>3. LoopRuns(S, turns, none, n) # {}
  <2> HIDE DEF none
  <2> QED
    BY ONLY <1>2, LoopRun
<1>4. PICK g : g \in LoopRuns(S, turns, none, n)
  BY <1>3
<1>5. g \in [0..n -> S] /\ g[0] = <<>> /\ \A i \in 1..n : g[i] = turns[i][g[i - 1]]
  BY <1>4 DEF LoopRuns
<1>6. \A i \in 1..n : g[i] = IF f[i].kind = "load_bad_idl" THEN g[i - 1]
                             ELSE Append(g[i - 1], ShouldDo(f, i))
  <2>1. \A i \in 1..n : i - 1 \in 0..n
    BY <1>2
  <2> QED
    BY <1>2, <1>5, <2>1
<1>7. Is(g)
  <2>1. g = [i \in 0..n |-> g[i]]
    BY <1>5
  <2>2. \A i \in 0..n : g[i] = IF i = 0 THEN <<>>
                               ELSE IF f[i].kind = "load_bad_idl" THEN g[i - 1]
                               ELSE Append(g[i - 1], ShouldDo(f, i))
    <3>1. \A i \in 0..n : i = 0 \/ i \in 1..n
      BY <1>2
    <3>2. g[0] = <<>>
      BY <1>5
    <3> QED
      BY ONLY <1>6, <3>1, <3>2
  <2> QED
    BY ONLY <2>1, <2>2
<1>8. Is(h)
  BY <1>7
<1> HIDE DEF h
<1> DEFINE D == {h[i] : i \in 0..n}
           value(i) == IF i = 0 THEN <<>>
                       ELSE IF f[i].kind = "load_bad_idl" THEN h[i - 1]
                       ELSE Append(h[i - 1], ShouldDo(f, i))
<1>9. h = [i \in 0..n |-> value(i)]
  BY ONLY <1>8
<1>10. h = [i \in 0..n |-> h[i]] /\ \A i \in 0..n : h[i] = value(i)
  <2> HIDE DEF value
  <2> QED
    BY ONLY <1>9
<1>11. h[0] = <<>> /\ \A i \in 1..n : h[i] = IF f[i].kind = "load_bad_idl" THEN h[i - 1]
                                             ELSE Append(h[i - 1], ShouldDo(f, i))
  <2>1. 0 \in 0..n /\ \A i \in 1..n : i \in 0..n /\ i # 0
    BY <1>2
  <2>2. h[0] = value(0) /\ \A i \in 1..n : h[i] = value(i)
    BY ONLY <1>10, <2>1
  <2>3. value(0) = <<>>
    OBVIOUS
  <2>4. \A i \in 1..n : value(i) = IF f[i].kind = "load_bad_idl" THEN h[i - 1]
                                   ELSE Append(h[i - 1], ShouldDo(f, i))
    BY ONLY <2>1
  <2> HIDE DEF value
  <2> QED
    BY ONLY <2>2, <2>3, <2>4
<1> HIDE DEF value
<1>12. \A i \in 0..n : h[i] \in D
  OBVIOUS
<1> HIDE DEF D
<1>13. h \in [0..n -> D]
  BY ONLY <1>10, <1>12
<1>14. h \in LoopRuns(S, turns, none, n)
  <2>1. \A i \in 1..n : h[i - 1] \in S => h[i] = turns[i][h[i - 1]]
    BY <1>2, <1>11
  <2>2. h[0] = none
    BY <1>11
  <2> HIDE DEF none
  <2> QED
    BY ONLY <1>2, <1>13, <2>1, <2>2, ChosenRun
<1>15. h \in [0..n -> S]
  BY <1>14 DEF LoopRuns
<1> QED
  BY <1>1, <1>11, <1>15 DEF n, S

(* What was planned first stays first.                                     *)
LEMMA PlanGrows ==
  ASSUME NEW f, Len(f) \in Nat, NEW i \in 0..Len(f)
  PROVE  IsPrefix(PlanOf(f)[i], PlanOf(f)[Len(f)])
<1> DEFINE n == Len(f)
           p == PlanOf(f)
           S == Entries(f)
           Starts(s, t) == Len(s) <= Len(t) /\ \A j \in 1..Len(s) : s[j] = t[j]
           T == {m \in Nat : i + m <= n => Starts(p[i], p[i + m])}
<1>1. /\ p \in [0..n -> Seq(S)]
      /\ \A j \in 1..n : p[j] = IF f[j].kind = "load_bad_idl" THEN p[j - 1]
                                ELSE Append(p[j - 1], ShouldDo(f, j))
      /\ \A j \in 1..n : ShouldDo(f, j) \in S
  BY PlanIs DEF Entries
<1>2. \A j \in 0..n : p[j] \in Seq(S) /\ Len(p[j]) \in Nat
  BY <1>1, LenProperties
<1> HIDE DEF p, S
<1>3. 0 \in T
  BY <1>2
<1>4. \A m \in Nat : m \in T => m + 1 \in T
  <2> SUFFICES ASSUME NEW m \in Nat, m \in T, i + (m + 1) <= n
               PROVE  Starts(p[i], p[i + (m + 1)])
    OBVIOUS
  <2> DEFINE j == i + (m + 1)
  <2>1. j \in 1..n /\ j - 1 = i + m /\ j - 1 \in 0..n
    OBVIOUS
  <2>2. Starts(p[i], p[j - 1])
    BY <2>1
  <2>3. Starts(p[j - 1], p[j])
    <3> DEFINE s == p[j - 1]
               x == ShouldDo(f, j)
    <3>1. s \in Seq(S) /\ x \in S
      BY <1>1, <1>2, <2>1
    <3>2. p[j] = s \/ p[j] = Append(s, x)
      BY <1>1, <2>1
    <3> HIDE DEF s, x
    <3>3. Len(s) \in Nat /\ Len(Append(s, x)) = Len(s) + 1 /\ \A q \in 1..Len(s) : Append(s, x)[q] = s[q]
      BY <3>1, AppendProperties, LenProperties
    <3>4. ASSUME p[j] = s PROVE Starts(s, p[j])
      BY ONLY <3>3, <3>4
    <3>5. ASSUME p[j] = Append(s, x) PROVE Starts(s, p[j])
      BY ONLY <3>3, <3>5
    <3> QED
      BY <3>2, <3>4, <3>5 DEF s
  <2>4. Len(p[i]) \in Nat /\ Len(p[j - 1]) \in Nat /\ Len(p[j]) \in Nat
    BY <1>2, <2>1
  <2> DEFINE a == p[i]
             b == p[j - 1]
             c == p[j]
  <2>5. Starts(a, b) /\ Starts(b, c) /\ Len(a) \in Nat /\ Len(b) \in Nat /\ Len(c) \in Nat
    BY <2>2, <2>3, <2>4
  <2> HIDE DEF j, a, b, c
  <2>6. Starts(a, c)
    BY ONLY <2>5
  <2>7. Starts(p[i], p[j])
    BY <2>6 DEF a, c
  <2> QED
    BY <2>7 DEF j
<1>5. Starts(p[i], p[n])
  <2> HIDE DEF T
  <2>1. Nat \subseteq T
    BY <1>3, <1>4, Induction
  <2>2. n - i \in T /\ i + (n - i) = n
    BY <2>1
  <2> QED
    BY <2>2 DEF T
<1> DEFINE s == p[i]
           t == p[n]
           zero == 0
<1>6. /\ s \in Seq(S) /\ t \in Seq(S) /\ Len(s) \in Nat /\ zero \in Nat
      /\ zero + Len(s) <= Len(t) /\ \A j \in 1..Len(s) : t[zero + j] = s[j]
  BY <1>2, <1>5
<1> HIDE DEF s, t, zero
<1>7. SubSeq(t, zero + 1, zero + Len(s)) = s
  BY ONLY <1>6, PartIs
<1>8. SubSeq(s, 1, Len(s)) = s
  BY <1>6, WholeIsPart
<1>9. zero + 1 = 1 /\ zero + Len(s) = Len(s)
  BY <1>6 DEF zero
<1> QED
  BY <1>6, <1>7, <1>8, <1>9 DEF IsPrefix, s, t, p

-----------------------------------------------------------------------------
(* What is known of the case and of its review.                            *)
LEMMA CaseNow ==
  ASSUME SmokeTypeOK
  PROVE  /\ IsCase(Case) /\ Len(flow) \in Nat \ {0} /\ k \in 1..Len(flow)
         /\ fault \in Faults /\ imported \in BOOLEAN
<1>1. flow \in Flows /\ k \in 1..Len(flow) /\ fault \in Faults /\ imported \in BOOLEAN
  BY DEF SmokeTypeOK
<1> QED
  BY <1>1, FlowIs DEF Case

LEMMA SectionsNow ==
  ASSUME SmokeTypeOK, ScreenIsOfTheCase, step \in {"review", "ask"}
  PROVE  /\ sections \in Seq(Seq(STRING)) /\ Len(sections) \in {1, 2}
         /\ \A s \in 1..Len(sections) : Lines(s) \in Nat
         /\ section_index \in 1..Len(sections) /\ scroll_line \in 0..Lines(section_index)
         /\ fault # "hides_hash" =>
              Len(sections) = 2 /\ ShownNowhere(sections, {"Cancel", "Sign"})
         /\ fault = "hides_hash" =>
              Len(sections) = 1 /\ Tells(sections, MessageHashScreen)
         /\ fault = "never_decodes" => sections = ReviewOf[Case.message][FALSE]
         /\ fault = "always_decodes" => sections = ReviewOf[Case.message][TRUE]
<1>1. /\ Case.kind = "sign" /\ sections = ReviewShown(Case.message)
      /\ section_index \in 1..Len(sections) /\ scroll_line \in 0..Lines(section_index)
  BY DEF ScreenIsOfTheCase
<1>2. Case.message \in DOMAIN ReviewOf /\ fault \in Faults /\ imported \in BOOLEAN
  BY <1>1, CaseNow DEF IsCase
<1> DEFINE message == Case.message
<1> HIDE DEF message
<1>3. message \in DOMAIN ReviewOf /\ fault \in Faults /\ imported \in BOOLEAN
  BY <1>2 DEF message
<1>4. /\ ReviewShown(message) \in Seq(Seq(STRING)) /\ Len(ReviewShown(message)) \in {1, 2}
      /\ fault # "hides_hash" => /\ Len(ReviewShown(message)) = 2
                                 /\ ShownNowhere(ReviewShown(message), {"Cancel", "Sign"})
      /\ fault = "hides_hash" => /\ Len(ReviewShown(message)) = 1
                                 /\ Tells(ReviewShown(message), MessageHashScreen)
      /\ fault = "never_decodes" => ReviewShown(message) = ReviewOf[message][FALSE]
      /\ fault = "always_decodes" => ReviewShown(message) = ReviewOf[message][TRUE]
  BY ONLY <1>3, ReviewShownIs
<1>5. ReviewShown(message) = sections
  BY <1>1 DEF message
<1>6. sections \in Seq(Seq(STRING))
  BY <1>4, <1>5
<1>7. \A s \in 1..Len(sections) : Lines(s) \in Nat
  BY <1>6, ElementOfSeq, LenProperties DEF Lines
<1> QED
  BY <1>1, <1>4, <1>5, <1>6, <1>7 DEF message

(* What is on the screen when the app stands.                              *)
LEMMA BlankShowsNothing ==
  /\ blank => Screen = <<>>
  /\ \A fragment : ~screen_contains(<<>>, fragment)
<1>1. blank => Screen = <<>>
  BY DEF Screen
<1>2. \A fragment : ~screen_contains(<<>>, fragment)
  <2>1. DOMAIN <<>> = {}
    OBVIOUS
  <2> QED
    BY <2>1 DEF screen_contains, Range
<1> QED
  BY <1>1, <1>2

LEMMA ScreenIs ==
  ASSUME SmokeTypeOK, ScreenIsOfTheCase, ~blank
  PROVE  /\ step = "review" => Screen = WindowScreen(sections, section_index, scroll_line)
         /\ step = "ask" => Screen = SignScreen
         /\ step = "import" => Screen = Deduplicated(ImportPages[cursor])
         /\ ~Opened => Screen = HomeScreen
         /\ step \in {"review", "ask"} => Screen # <<>> /\ CanShow(Screen)
<1>1. /\ step = "review" => Screen = WindowScreen(sections, section_index, scroll_line)
      /\ step = "ask" => Screen = SignScreen
      /\ step = "import" => Screen = Deduplicated(ImportPages[cursor])
      /\ ~Opened => Screen = HomeScreen
  BY DEF Screen, Opened
<1>2. ASSUME step = "review" PROVE Screen # <<>> /\ CanShow(Screen)
  <2>1. /\ sections \in Seq(Seq(STRING)) /\ section_index \in 1..Len(sections)
        /\ scroll_line \in 0..Lines(section_index) /\ Lines(section_index) \in Nat
    BY <1>2, SectionsNow
  <2>2. WindowScreen(sections, section_index, scroll_line) # <<>>
    <3> DEFINE review == sections
               s == section_index
               top == scroll_line
    <3> HIDE DEF review, s, top
    <3>1. review \in Seq(Seq(STRING)) /\ s \in 1..Len(review) /\ top \in Nat
      BY <2>1 DEF review, s, top
    <3>2. WindowScreen(review, s, top) # <<>>
      BY ONLY <3>1, WindowNotEmpty
    <3> QED
      BY <3>2 DEF review, s, top
  <2> QED
    BY <1>1, <1>2, <2>1, <2>2 DEF CanShow
<1>3. ASSUME step = "ask" PROVE Screen # <<>> /\ CanShow(Screen)
  BY <1>1, <1>3 DEF CanShow, SignScreen
<1> QED
  BY <1>1, <1>2, <1>3

(* Only the Sign screen looks like it, unless the hash is hidden.          *)
LEMMA OnlySignLooksLikeSign ==
  ASSUME SmokeTypeOK, ScreenIsOfTheCase, step \in {"review", "ask"}, Len(sections) # 1,
         NEW screen, CanShow(screen), screen # SignScreen
  PROVE  ~screen_contains_all(screen, {"Cancel", "Sign"})
<1>1. ShownNowhere(sections, {"Cancel", "Sign"}) /\ DOMAIN sections = 1..Len(sections)
  BY SectionsNow, LenProperties
<1> QED
  BY <1>1 DEF ShownNowhere, CanShow, Lines

(* A step that leaves the app alone leaves its screen alone.               *)
LEMMA ScreenSame ==
  ASSUME UNCHANGED <<vars, cursor, blank>>
  PROVE  Screen' = Screen
BY DEF vars, Screen, SignScreen, HomeScreen

LEMMA SceneIs ==
  ASSUME UNCHANGED <<vars, request, answer, cursor, presses, imported, log, flow, k, prompt, fault>>
  PROVE  /\ Case' = Case
         /\ ScreenIsOfTheCase => ScreenIsOfTheCase'
         /\ Opened' = Opened /\ AtRest' = AtRest /\ Read' = Read
         /\ Readable(sections)' = Readable(sections) /\ CanScrollDown' = CanScrollDown
         /\ \A screen : CanShow(screen) <=> CanShow(screen)'
<1>1. Case' = Case
  BY DEF Case
<1>2. ScreenIsOfTheCase => ScreenIsOfTheCase'
  BY <1>1 DEF vars, ScreenIsOfTheCase, Opened, ReviewShown, Lines
<1>3. Opened' = Opened /\ AtRest' = AtRest /\ Read' = Read
  BY DEF vars, Opened, AtRest, Read, NoCase
<1>4. Readable(sections)' = Readable(sections) /\ CanScrollDown' = CanScrollDown
  BY DEF vars, Readable, CanScrollDown, Lines
<1>5. \A screen : CanShow(screen) <=> CanShow(screen)'
  BY DEF vars, CanShow, Lines
<1> QED
  BY <1>1, <1>2, <1>3, <1>4, <1>5

LEMMA KeepIs ==
  ASSUME UNCHANGED <<vars, appVars, flow, k, prompt, fault>>
  PROVE  /\ Screen' = Screen /\ Case' = Case
         /\ ScreenIsOfTheCase => ScreenIsOfTheCase'
         /\ Opened' = Opened /\ AtRest' = AtRest /\ Read' = Read
         /\ Readable(sections)' = Readable(sections) /\ CanScrollDown' = CanScrollDown
         /\ \A screen : CanShow(screen) <=> CanShow(screen)'
BY ScreenSame, SceneIs DEF appVars

-----------------------------------------------------------------------------
(* The steps of the main thread that leave the app alone.                  *)
LEMMA LaunchSteps ==
  ASSUME SmokeInv, Launch, UNCHANGED <<prompt, fault>>
  PROVE  SmokeInv'
<1>a. /\ Keep /\ Screen' = Screen /\ Case' = Case /\ (ScreenIsOfTheCase => ScreenIsOfTheCase')
      /\ Opened' = Opened /\ AtRest' = AtRest /\ Read' = Read
      /\ Readable(sections)' = Readable(sections) /\ CanScrollDown' = CanScrollDown
      /\ \A screen : CanShow(screen) <=> CanShow(screen)'
  <2>1. Keep
    BY DEF Launch
  <2> QED
    BY <2>1, KeepIs DEF Keep
<1>b. /\ IsCase(Case) /\ Len(flow) \in Nat \ {0} /\ k \in 1..Len(flow)
      /\ fault \in Faults /\ imported \in BOOLEAN
  BY CaseNow DEF SmokeInv
<1>1. SmokeTypeOK'
  BY DEF SmokeInv, Goto, Keep, vars, appVars, Launch, SmokeTypeOK, Places, Case
<1>2. ScreenIsOfTheCase'
  BY <1>a DEF SmokeInv, ScreenIsOfTheCase
<1>3. BeforeReview'
  <2>1. pc' = "spawn" => ~blank
    BY BlankShowsNothing DEF Launch, Goto
  <2>2. pc = "launch" /\ pc' \in {"spawn", "failed"} /\ (~blank => ~blank')
    BY DEF Launch, At, Goto, Keep, appVars
  <2> QED
    BY <1>a, <2>1, <2>2 DEF SmokeInv, BeforeReview
<1>4. WhileInReview'
  BY DEF Goto, Launch, WhileInReview, InReview
<1>5. WhileDeciding'
  BY DEF Goto, Launch, WhileDeciding
<1>6. WhileInImport'
  BY DEF Goto, Launch, WhileInImport, InImport
<1>7. WhileAnswered'
  BY DEF Goto, Launch, WhileAnswered
<1>8. LogIsPlanned'
  BY DEF SmokeInv, At, Goto, Keep, appVars, Launch, LogIsPlanned, Acted, DoneUpTo
<1>9. FaultsAreCleared'
  BY DEF SmokeInv, Goto, Keep, Launch, FaultsAreCleared, Cleared
<1>10. InStep'
  BY <1>a DEF SmokeInv, At, Launch, BeforeReview, AtRest, Opened, InStep
<1> QED
  BY <1>1, <1>2, <1>3, <1>4, <1>5, <1>6, <1>7, <1>8, <1>9, <1>10 DEF SmokeInv

LEMMA CheckSignSteps ==
  ASSUME SmokeInv, CheckSign, UNCHANGED <<prompt, fault>>
  PROVE  SmokeInv'
<1>a. /\ Keep /\ Screen' = Screen /\ Case' = Case /\ (ScreenIsOfTheCase => ScreenIsOfTheCase')
      /\ Opened' = Opened /\ AtRest' = AtRest /\ Read' = Read
      /\ Readable(sections)' = Readable(sections) /\ CanScrollDown' = CanScrollDown
      /\ \A screen : CanShow(screen) <=> CanShow(screen)'
  <2>1. Keep
    BY DEF CheckSign
  <2> QED
    BY <2>1, KeepIs DEF Keep
<1>b. /\ IsCase(Case) /\ Len(flow) \in Nat \ {0} /\ k \in 1..Len(flow)
      /\ fault \in Faults /\ imported \in BOOLEAN
  BY CaseNow DEF SmokeInv
<1>1. SmokeTypeOK'
  BY DEF SmokeInv, Goto, Keep, vars, appVars, CheckSign, SmokeTypeOK, Places, Case
<1>2. ScreenIsOfTheCase'
  BY <1>a DEF SmokeInv, ScreenIsOfTheCase
<1>3. BeforeReview'
  BY DEF Goto, CheckSign, BeforeReview
<1>4. WhileInReview'
  BY DEF Goto, CheckSign, WhileInReview, InReview
<1>5. WhileDeciding'
  <2>1. SUFFICES ASSUME pc' = "choose"
        PROVE  Case.kind = "sign" /\ ~Case.manual /\ step = "ask" /\ presses = <<>> /\ cursor = 1
    BY <1>a DEF CheckSign, Goto, WhileDeciding, Keep, vars, appVars
  <2>2. /\ pc = "check_sign" /\ WhileInReview /\ presses \in Seq(Buttons) /\ section \in Nat
        /\ step = "ask" /\ Read + Both(presses) = 2 /\ Read = Len(sections) /\ 2 <= Len(sections)
    BY <2>1 DEF CheckSign, At, Goto, SmokeInv, SmokeTypeOK, WhileInReview, InReview, Pressed,
       Read
  <2>3. Len(sections) \in {1, 2} /\ Both(presses) \in Nat
    BY <2>2, SectionsNow, BothOfMore DEF Buttons
  <2>4. Both(presses) = 0
    BY <2>2, <2>3
  <2>5. presses # <<>> => presses[Len(presses)] = "both"
    BY <2>2 DEF WhileInReview, InReview
  <2> QED
    BY <2>2, <2>4, <2>5, LastIsBoth DEF WhileInReview, InReview
<1>6. WhileInImport'
  BY DEF Goto, CheckSign, WhileInImport, InImport
<1>7. WhileAnswered'
  BY DEF Goto, CheckSign, WhileAnswered
<1>8. LogIsPlanned'
  BY DEF SmokeInv, At, Goto, Keep, appVars, CheckSign, LogIsPlanned, Acted, DoneUpTo
<1>9. FaultsAreCleared'
  BY <1>a DEF SmokeInv, At, Keep, CheckSign, FaultsAreCleared, Cleared
<1>10. InStep'
  BY <1>a DEF SmokeInv, Goto, Keep, vars, CheckSign, InStep
<1> QED
  BY <1>1, <1>2, <1>3, <1>4, <1>5, <1>6, <1>7, <1>8, <1>9, <1>10 DEF SmokeInv

LEMMA WaitPageSteps ==
  ASSUME SmokeInv, WaitPage, UNCHANGED <<prompt, fault>>
  PROVE  SmokeInv'
<1>a. /\ Keep /\ Screen' = Screen /\ Case' = Case /\ (ScreenIsOfTheCase => ScreenIsOfTheCase')
      /\ Opened' = Opened /\ AtRest' = AtRest /\ Read' = Read
      /\ Readable(sections)' = Readable(sections) /\ CanScrollDown' = CanScrollDown
      /\ \A screen : CanShow(screen) <=> CanShow(screen)'
  <2>1. Keep
    BY DEF WaitPage, Waits
  <2> QED
    BY <2>1, KeepIs DEF Keep
<1>b. /\ IsCase(Case) /\ Len(flow) \in Nat \ {0} /\ k \in 1..Len(flow)
      /\ fault \in Faults /\ imported \in BOOLEAN
  BY CaseNow DEF SmokeInv
<1>1. SmokeTypeOK'
  BY DEF SmokeInv, Goto, Keep, vars, appVars, WaitPage, Waits, SmokeTypeOK, Places, Case
<1>2. ScreenIsOfTheCase'
  BY <1>a DEF SmokeInv, ScreenIsOfTheCase
<1>3. BeforeReview'
  BY DEF Goto, WaitPage, Waits, BeforeReview
<1>4. WhileInReview'
  BY DEF Goto, WaitPage, Waits, WhileInReview, InReview
<1>5. WhileDeciding'
  BY DEF Goto, WaitPage, Waits, WhileDeciding
<1>6. WhileInImport'
  <2>1. Changed(current) => ~blank /\ current # Screen
    BY BlankShowsNothing DEF Changed
  <2>2. Changed(current) => current' = Screen /\ presses = <<>>
    BY <2>1 DEF WaitPage, Waits, At, SmokeInv, WhileInImport, Steady
  <2> QED
    BY <1>a, <2>1, <2>2 DEF WaitPage, Waits, At, Goto, SmokeInv, WhileInImport, InImport,
       Steady, Keep, vars, appVars
<1>7. WhileAnswered'
  BY DEF Goto, WaitPage, Waits, WhileAnswered
<1>8. LogIsPlanned'
  BY DEF SmokeInv, At, Goto, Keep, appVars, WaitPage, Waits, LogIsPlanned, Acted, DoneUpTo
<1>9. FaultsAreCleared'
  BY DEF SmokeInv, Goto, Keep, WaitPage, Waits, FaultsAreCleared, Cleared
<1>10. InStep'
  BY <1>a DEF SmokeInv, Goto, Keep, vars, WaitPage, Waits, InStep
<1> QED
  BY <1>1, <1>2, <1>3, <1>4, <1>5, <1>6, <1>7, <1>8, <1>9, <1>10 DEF SmokeInv

LEMMA WaitBackSteps ==
  ASSUME SmokeInv, WaitBack, UNCHANGED <<prompt, fault>>
  PROVE  SmokeInv'
<1>a. /\ Keep /\ Screen' = Screen /\ Case' = Case /\ (ScreenIsOfTheCase => ScreenIsOfTheCase')
      /\ Opened' = Opened /\ AtRest' = AtRest /\ Read' = Read
      /\ Readable(sections)' = Readable(sections) /\ CanScrollDown' = CanScrollDown
      /\ \A screen : CanShow(screen) <=> CanShow(screen)'
  <2>1. Keep
    BY DEF WaitBack, Waits
  <2> QED
    BY <2>1, KeepIs DEF Keep
<1>b. /\ IsCase(Case) /\ Len(flow) \in Nat \ {0} /\ k \in 1..Len(flow)
      /\ fault \in Faults /\ imported \in BOOLEAN
  BY CaseNow DEF SmokeInv
<1>1. SmokeTypeOK'
  BY DEF SmokeInv, Goto, Keep, vars, appVars, WaitBack, Waits, SmokeTypeOK, Places, Case
<1>2. ScreenIsOfTheCase'
  BY <1>a DEF SmokeInv, ScreenIsOfTheCase
<1>3. BeforeReview'
  BY DEF Goto, WaitBack, Waits, BeforeReview
<1>4. WhileInReview'
  BY DEF Goto, WaitBack, Waits, WhileInReview, InReview
<1>5. WhileDeciding'
  BY DEF Goto, WaitBack, Waits, WhileDeciding
<1>6. WhileInImport'
  <2>1. Changed(current) => ~blank /\ current # Screen
    BY BlankShowsNothing DEF Changed
  <2>2. Changed(current) => current' = Screen /\ presses = <<>>
    BY <2>1 DEF WaitBack, Waits, At, SmokeInv, WhileInImport, Steady
  <2> QED
    BY <1>a, <2>1, <2>2 DEF WaitBack, Waits, At, Goto, SmokeInv, WhileInImport, InImport,
       Steady, Keep, vars, appVars
<1>7. WhileAnswered'
  BY DEF Goto, WaitBack, Waits, WhileAnswered
<1>8. LogIsPlanned'
  BY DEF SmokeInv, At, Goto, Keep, appVars, WaitBack, Waits, LogIsPlanned, Acted, DoneUpTo
<1>9. FaultsAreCleared'
  BY DEF SmokeInv, Goto, Keep, WaitBack, Waits, FaultsAreCleared, Cleared
<1>10. InStep'
  BY <1>a DEF SmokeInv, Goto, Keep, vars, WaitBack, Waits, InStep
<1> QED
  BY <1>1, <1>2, <1>3, <1>4, <1>5, <1>6, <1>7, <1>8, <1>9, <1>10 DEF SmokeInv

LEMMA WaitScrollSteps ==
  ASSUME SmokeInv, WaitScroll, UNCHANGED <<prompt, fault>>
  PROVE  SmokeInv'
<1>a. /\ Keep /\ Screen' = Screen /\ Case' = Case /\ (ScreenIsOfTheCase => ScreenIsOfTheCase')
      /\ Opened' = Opened /\ AtRest' = AtRest /\ Read' = Read
      /\ Readable(sections)' = Readable(sections) /\ CanScrollDown' = CanScrollDown
      /\ \A screen : CanShow(screen) <=> CanShow(screen)'
  <2>1. Keep
    BY DEF WaitScroll, Waits
  <2> QED
    BY <2>1, KeepIs DEF Keep
<1>b. /\ IsCase(Case) /\ Len(flow) \in Nat \ {0} /\ k \in 1..Len(flow)
      /\ fault \in Faults /\ imported \in BOOLEAN
  BY CaseNow DEF SmokeInv
<1>1. SmokeTypeOK'
  BY DEF SmokeInv, Goto, Keep, vars, appVars, WaitScroll, Waits, SmokeTypeOK, Places, Case
<1>2. ScreenIsOfTheCase'
  BY <1>a DEF SmokeInv, ScreenIsOfTheCase
<1>3. BeforeReview'
  BY DEF Goto, WaitScroll, Waits, BeforeReview
<1>4. WhileInReview'
  <2>1. ASSUME InReview', NEW screen \in seen' PROVE CanShow(screen)'
    <3>1. CASE screen = Screen /\ Changed(current)
      BY <1>a, <3>1, ScreenIs, BlankShowsNothing
         DEF SmokeInv, WaitScroll, Waits, At, InReview, WhileInReview, Changed
    <3>2. CASE screen \in seen
      BY <1>a, <3>2 DEF SmokeInv, WaitScroll, Waits, At, InReview, WhileInReview
    <3> QED
      BY <2>1, <3>1, <3>2 DEF WaitScroll, Waits
  <2> QED
    BY <1>a, <2>1 DEF SmokeInv, At, Goto, WaitScroll, Waits, WhileInReview, InReview,
       Pressed, Keep, vars, appVars
<1>5. WhileDeciding'
  BY DEF Goto, WaitScroll, Waits, WhileDeciding
<1>6. WhileInImport'
  BY DEF Goto, WaitScroll, Waits, WhileInImport, InImport
<1>7. WhileAnswered'
  BY DEF Goto, WaitScroll, Waits, WhileAnswered
<1>8. LogIsPlanned'
  BY DEF SmokeInv, At, Goto, Keep, appVars, WaitScroll, Waits, LogIsPlanned, Acted, DoneUpTo
<1>9. FaultsAreCleared'
  BY DEF SmokeInv, Goto, Keep, WaitScroll, Waits, FaultsAreCleared, Cleared
<1>10. InStep'
  <2>1. SUFFICES ASSUME prompt, ~Case.manual, Readable(sections), step = "review"
        PROVE  /\ ~hurried
               /\ pc' = "scroll" => Steady(<<>>)' /\ scroll_line' = count'
               /\ pc' = "end_section" => Steady(<<>>)' /\ ~CanScrollDown
    BY <1>a DEF WaitScroll, Waits, Goto, SmokeInv, InStep, Keep, vars
  <2>2. /\ ~hurried
        /\ \/ Steady(<<"right">>) /\ scroll_line = count - 1
           \/ /\ presses = <<>> /\ scroll_line = count /\ count >= 1
              /\ current = WindowScreen(sections, section_index, count - 1)
              /\ count - 1 + VisibleLines < Lines(section_index)
           \/ /\ presses = <<>> /\ scroll_line = count - 1 /\ ~CanScrollDown
              /\ current = WindowScreen(sections, section_index, scroll_line)
    BY <2>1 DEF WaitScroll, Waits, At, SmokeInv, InStep
  <2>3. ~blank => Screen = WindowScreen(sections, section_index, scroll_line) /\ Screen # <<>>
    BY <2>1, ScreenIs DEF SmokeInv
  <2>4. CASE Changed(current)
    <3>1. ~blank /\ Screen # current
      BY <2>4, BlankShowsNothing DEF Changed
    <3>2. presses = <<>> /\ scroll_line = count
      BY <2>2, <2>3, <3>1 DEF Steady
    <3>3. pc' = "scroll" /\ current' = Screen /\ count' = count /\ UNCHANGED <<scroll_line, presses, blank>>
      BY <2>4 DEF WaitScroll, Waits, Goto, Keep, vars, appVars
    <3> QED
      BY <1>a, <2>2, <3>1, <3>2, <3>3 DEF Steady
  <2>5. CASE ~Changed(current)
    <3>1. ~blank /\ presses = <<>> /\ pc' = "end_section" /\ UNCHANGED <<current, presses, blank>>
      BY <2>1, <2>5 DEF WaitScroll, Waits, Goto, Keep, appVars, RunsOut, Quiet
    <3>2. Screen = current
      BY <2>3, <2>5, <3>1 DEF Changed
    <3>3. presses # <<"right">>
      BY <3>1
    <3>4. section_index \in DOMAIN sections /\ Lines(section_index) \in Nat /\ count \in Nat
      BY <2>1, SectionsNow, LenProperties DEF SmokeInv, SmokeTypeOK
    <3>5. ASSUME count >= 1, count - 1 + VisibleLines < Lines(section_index)
          PROVE WindowScreen(sections, section_index, count - 1)
                  # WindowScreen(sections, section_index, count)
      <4>1. count - 1 \in 0..(Len(sections[section_index]) - VisibleLines - 1) /\ count - 1 + 1 = count
        BY <3>4, <3>5, ReviewAssumption DEF Lines
      <4> QED
        BY <2>1, <3>4, <4>1 DEF Readable
    <3>6. ~CanScrollDown
      BY <2>2, <2>3, <3>1, <3>2, <3>3, <3>5 DEF Steady
    <3> QED
      BY <1>a, <2>2, <3>1, <3>2, <3>6 DEF Steady
  <2> QED
    BY <2>4, <2>5
<1> QED
  BY <1>1, <1>2, <1>3, <1>4, <1>5, <1>6, <1>7, <1>8, <1>9, <1>10 DEF SmokeInv

LEMMA WaitSectionSteps ==
  ASSUME SmokeInv, WaitSection, UNCHANGED <<prompt, fault>>
  PROVE  SmokeInv'
<1>a. /\ Keep /\ Screen' = Screen /\ Case' = Case /\ (ScreenIsOfTheCase => ScreenIsOfTheCase')
      /\ Opened' = Opened /\ AtRest' = AtRest /\ Read' = Read
      /\ Readable(sections)' = Readable(sections) /\ CanScrollDown' = CanScrollDown
      /\ \A screen : CanShow(screen) <=> CanShow(screen)'
  <2>1. Keep
    BY DEF WaitSection, Fails
  <2> QED
    BY <2>1, KeepIs DEF Keep
<1>b. /\ IsCase(Case) /\ Len(flow) \in Nat \ {0} /\ k \in 1..Len(flow)
      /\ fault \in Faults /\ imported \in BOOLEAN
  BY CaseNow DEF SmokeInv
<1>1. SmokeTypeOK'
  BY DEF SmokeInv, Goto, Keep, vars, appVars, WaitSection, Fails, SmokeTypeOK, Places, Case
<1>2. ScreenIsOfTheCase'
  BY <1>a DEF SmokeInv, ScreenIsOfTheCase
<1>3. BeforeReview'
  BY DEF Goto, WaitSection, Fails, BeforeReview
<1>4. WhileInReview'
  <2>1. ASSUME InReview', NEW screen \in seen' PROVE CanShow(screen)'
    <3>1. CASE screen = Screen /\ Changed(current)
      BY <1>a, <3>1, ScreenIs, BlankShowsNothing
         DEF SmokeInv, WaitSection, At, InReview, WhileInReview, Changed
    <3>2. CASE screen \in seen
      BY <1>a, <3>2 DEF SmokeInv, WaitSection, At, InReview, WhileInReview
    <3> QED
      BY <2>1, <3>1, <3>2 DEF WaitSection, Fails
  <2>2. section = 1 /\ (pc' # "failed" => section' = 2 /\ pc' = "scroll")
    BY DEF SmokeInv, At, Goto, WaitSection, Fails, WhileInReview, InReview
  <2> QED
    BY <1>a, <2>1, <2>2 DEF SmokeInv, At, WaitSection, WhileInReview, InReview, Pressed,
       Keep, vars, appVars
<1>5. WhileDeciding'
  BY DEF Goto, WaitSection, Fails, WhileDeciding
<1>6. WhileInImport'
  BY DEF Goto, WaitSection, Fails, WhileInImport, InImport
<1>7. WhileAnswered'
  BY DEF Goto, WaitSection, Fails, WhileAnswered
<1>8. LogIsPlanned'
  BY DEF SmokeInv, At, Goto, Keep, appVars, WaitSection, Fails, LogIsPlanned, Acted, DoneUpTo
<1>9. FaultsAreCleared'
  BY DEF SmokeInv, Goto, Keep, WaitSection, Fails, FaultsAreCleared, Cleared
<1>10. InStep'
  <2>1. SUFFICES ASSUME prompt, ~Case.manual, Readable(sections), step = "review"
        PROVE  ~hurried /\ (pc' = "scroll" => Steady(<<>>)' /\ scroll_line' = count')
    BY <1>a DEF WaitSection, Fails, Goto, SmokeInv, InStep, Keep, vars
  <2>2. /\ ~hurried
        /\ (Steady(<<"both">>) /\ ~CanScrollDown) \/ (presses = <<>> /\ scroll_line = 0)
    BY <2>1 DEF WaitSection, At, SmokeInv, InStep
  <2>3. CASE Changed(current)
    <3>1. ~blank /\ Screen # current
      BY <2>3, BlankShowsNothing DEF Changed
    <3>2. presses = <<>> /\ scroll_line = 0
      BY <2>2, <3>1 DEF Steady
    <3>3. current' = Screen /\ count' = 0 /\ UNCHANGED <<scroll_line, presses, blank>>
      BY <2>3 DEF WaitSection, Keep, vars, appVars
    <3> QED
      BY <1>a, <2>2, <3>1, <3>2, <3>3 DEF Steady
  <2> QED
    BY <2>2, <2>3 DEF WaitSection, Fails, Goto
<1> QED
  BY <1>1, <1>2, <1>3, <1>4, <1>5, <1>6, <1>7, <1>8, <1>9, <1>10 DEF SmokeInv

LEMMA WaitSignSteps ==
  ASSUME SmokeInv, WaitSign, UNCHANGED <<prompt, fault>>
  PROVE  SmokeInv'
<1>a. /\ Keep /\ Screen' = Screen /\ Case' = Case /\ (ScreenIsOfTheCase => ScreenIsOfTheCase')
      /\ Opened' = Opened /\ AtRest' = AtRest /\ Read' = Read
      /\ Readable(sections)' = Readable(sections) /\ CanScrollDown' = CanScrollDown
      /\ \A screen : CanShow(screen) <=> CanShow(screen)'
  <2>1. Keep
    BY DEF WaitSign, Waits
  <2> QED
    BY <2>1, KeepIs DEF Keep
<1>b. /\ IsCase(Case) /\ Len(flow) \in Nat \ {0} /\ k \in 1..Len(flow)
      /\ fault \in Faults /\ imported \in BOOLEAN
  BY CaseNow DEF SmokeInv
<1>1. SmokeTypeOK'
  BY DEF SmokeInv, Goto, Keep, vars, appVars, WaitSign, Waits, SmokeTypeOK, Places, Case
<1>2. ScreenIsOfTheCase'
  BY <1>a DEF SmokeInv, ScreenIsOfTheCase
<1>3. BeforeReview'
  BY DEF Goto, WaitSign, Waits, BeforeReview
<1>4. WhileInReview'
  <2>1. ASSUME InReview', NEW screen \in seen' PROVE CanShow(screen)'
    <3>1. CASE screen = Screen /\ Changed(current)
      BY <1>a, <3>1, ScreenIs, BlankShowsNothing
         DEF SmokeInv, WaitSign, Waits, At, InReview, WhileInReview, Changed
    <3>2. CASE screen \in seen
      BY <1>a, <3>2 DEF SmokeInv, WaitSign, Waits, At, InReview, WhileInReview
    <3> QED
      BY <2>1, <3>1, <3>2 DEF WaitSign, Waits
  <2>2. /\ Len(sections) # 1 /\ step \in {"review", "ask"}
    BY DEF SmokeInv, SmokeTypeOK, At, WaitSign, Waits, WhileInReview, InReview, Pressed
  <2>3. pc' = "check_sign" /\ screen_contains_all(current', {"Cancel", "Sign"}) => step = "ask"
    <3>1. SUFFICES ASSUME Changed(current), step = "review"
          PROVE  ~screen_contains_all(Screen, {"Cancel", "Sign"})
      BY <2>2 DEF WaitSign, Waits, Goto
    <3>2. CASE Screen # SignScreen
      BY <2>2, <3>1, <3>2, ScreenIs, BlankShowsNothing, OnlySignLooksLikeSign
         DEF SmokeInv, Changed
    <3>3. CASE Screen = SignScreen
      <4>1. ~blank /\ ScreenIsOfTheCase /\ SmokeTypeOK
        BY <3>1, BlankShowsNothing DEF Changed, SmokeInv
      <4>2. Screen = WindowScreen(sections, section_index, scroll_line)
        BY <3>1, <4>1, ScreenIs
      <4>3. /\ ShownNowhere(sections, {"Cancel", "Sign"}) /\ section_index \in DOMAIN sections
            /\ scroll_line \in 0..Len(sections[section_index])
        BY <2>2, <4>1, SectionsNow, LenProperties DEF Lines
      <4> QED
        BY <4>2, <4>3 DEF ShownNowhere
    <3> QED
      BY <3>2, <3>3
  <2> QED
    BY <1>a, <2>1, <2>3 DEF SmokeInv, At, Goto, WaitSign, Waits, WhileInReview, InReview,
       Pressed, Keep, vars, appVars
<1>5. WhileDeciding'
  BY DEF Goto, WaitSign, Waits, WhileDeciding
<1>6. WhileInImport'
  BY DEF Goto, WaitSign, Waits, WhileInImport, InImport
<1>7. WhileAnswered'
  BY DEF Goto, WaitSign, Waits, WhileAnswered
<1>8. LogIsPlanned'
  BY DEF SmokeInv, At, Goto, Keep, appVars, WaitSign, Waits, LogIsPlanned, Acted, DoneUpTo
<1>9. FaultsAreCleared'
  BY <1>a DEF SmokeInv, At, Keep, WaitSign, Waits, FaultsAreCleared, Cleared
<1>10. InStep'
  <2>1. SUFFICES ASSUME prompt, ~Case.manual, Readable(sections), step = "review"
        PROVE  ~hurried /\ (pc' = "check_sign" => presses = <<>>)
    BY <1>a DEF WaitSign, Waits, Goto, SmokeInv, InStep, Keep, vars, appVars
  <2> QED
    BY <2>1, BlankShowsNothing DEF WaitSign, Waits, At, Goto, SmokeInv, InStep, Steady, Changed
<1> QED
  BY <1>1, <1>2, <1>3, <1>4, <1>5, <1>6, <1>7, <1>8, <1>9, <1>10 DEF SmokeInv

LEMMA WaitReviewSteps ==
  ASSUME SmokeInv, WaitReview, UNCHANGED <<prompt, fault>>
  PROVE  SmokeInv'
<1>a. /\ Keep /\ Screen' = Screen /\ Case' = Case /\ (ScreenIsOfTheCase => ScreenIsOfTheCase')
      /\ Opened' = Opened /\ AtRest' = AtRest /\ Read' = Read
      /\ Readable(sections)' = Readable(sections) /\ CanScrollDown' = CanScrollDown
      /\ \A screen : CanShow(screen) <=> CanShow(screen)'
  <2>1. Keep
    BY DEF WaitReview, Fails
  <2> QED
    BY <2>1, KeepIs DEF Keep
<1>b. /\ IsCase(Case) /\ Len(flow) \in Nat \ {0} /\ k \in 1..Len(flow)
      /\ fault \in Faults /\ imported \in BOOLEAN
  BY CaseNow DEF SmokeInv
<1>c. /\ pc = "wait_review" /\ Case.kind # "load_bad_idl" /\ presses = <<>> /\ answer = "none"
      /\ step = "review" => section_index = 1 /\ scroll_line = 0 /\ ~hurried
      /\ step = "review" => Case.kind = "sign"
      /\ step = "import" => Case.kind = "load_idl"
  BY DEF SmokeInv, BeforeReview, WaitReview, At, ScreenIsOfTheCase
<1>d. ASSUME Changed(home)
      PROVE  /\ ~blank /\ Screen # <<>> /\ step \in {"review", "import"}
             /\ step = "review" => CanShow(Screen)
             /\ current' = Screen /\ seen' = {Screen} /\ section' = 1 /\ count' = 0
             /\ pc' = IF Case.manual THEN "wait_result"
                      ELSE IF Case.kind = "sign" THEN "scroll" ELSE "turn_page"
  <2>1. ~blank /\ Screen # <<>> /\ Screen # home
    BY <1>d, BlankShowsNothing DEF Changed
  <2>2. Opened \/ home = HomeScreen
    BY <1>c DEF SmokeInv, BeforeReview
  <2>3. Opened
    BY <2>1, <2>2, ScreenIs DEF SmokeInv
  <2>4. step \in {"review", "import"}
    BY <1>c, <2>3 DEF SmokeInv, BeforeReview, Opened
  <2>5. step = "review" => CanShow(Screen)
    BY <2>1, ScreenIs DEF SmokeInv
  <2> QED
    BY <1>d, <2>1, <2>4, <2>5 DEF WaitReview, Goto
<1>e. ~Changed(home) => pc' = "failed" /\ UNCHANGED <<current, seen, section, count>>
  BY DEF WaitReview, Fails, Goto
<1>1. SmokeTypeOK'
  BY <1>a DEF SmokeInv, Goto, Keep, vars, appVars, WaitReview, Fails, SmokeTypeOK, Places
<1>2. ScreenIsOfTheCase'
  BY <1>a DEF SmokeInv, ScreenIsOfTheCase
<1>3. BeforeReview'
  BY DEF Goto, WaitReview, Fails, BeforeReview
<1>4. WhileInReview'
  <2>1. SUFFICES ASSUME pc' = "scroll", Changed(home) PROVE WhileInReview'
    BY <1>d, <1>e DEF WhileInReview, InReview
  <2>2. step = "review" /\ Case.kind = "sign" /\ ~Case.manual
    BY <1>c, <1>d, <2>1
  <2>3. /\ section_index = 1 /\ Len(sections) \in {1, 2} /\ CanShow(Screen) /\ Both(presses) = 0
    BY <1>c, <1>d, <2>1, <2>2, SectionsNow, BothOfNone DEF SmokeInv
  <2>4. Read = 0 /\ Pressed' = 0
    BY <1>d, <2>1, <2>2, <2>3 DEF Read, Pressed
  <2>5. UNCHANGED <<presses, step, sections>>
    BY <1>a DEF Keep, vars, appVars
  <2>6. \A screen \in seen' : CanShow(screen)'
    BY <1>a, <1>d, <2>1, <2>3
  <2> QED
    BY <1>a, <1>d, <2>1, <2>2, <2>3, <2>4, <2>5, <2>6 DEF WhileInReview
<1>5. WhileDeciding'
  BY DEF Goto, WaitReview, Fails, WhileDeciding
<1>6. WhileInImport'
  BY <1>a, <1>c, <1>d, <1>e DEF Keep, vars, appVars, WhileInImport, InImport, Steady, IsCase,
     Kinds
<1>7. WhileAnswered'
  <2>1. CASE Changed(home)
    BY <1>a, <1>c, <1>d, <2>1 DEF Keep, appVars, WhileAnswered, Opened
  <2>2. CASE ~Changed(home)
    BY <1>e, <2>2 DEF WhileAnswered
  <2> QED
    BY <2>1, <2>2
<1>8. LogIsPlanned'
  <2>1. ~Acted /\ ~Acted' /\ pc # "failed" /\ UNCHANGED <<log, imported, flow, k>>
    BY <1>a, <1>c, <1>d, <1>e DEF Acted, Keep, appVars
  <2> QED
    BY <2>1 DEF SmokeInv, LogIsPlanned, DoneUpTo
<1>9. FaultsAreCleared'
  <2>1. pc' = "wait_result" => Cleared(Case)
    BY <1>c, <1>d, <1>e DEF Cleared
  <2> QED
    BY <1>a, <1>d, <1>e, <2>1 DEF SmokeInv, FaultsAreCleared, Cleared, Keep
<1>10. InStep'
  <2>1. SUFFICES ASSUME step \in {"review", "ask"}, ~Case.manual
        PROVE ~hurried /\ (step = "review" /\ pc' = "scroll" => Steady(<<>>)' /\ scroll_line = count')
    BY <1>a, <1>d, <1>e DEF InStep, Keep, vars
  <2>2. step = "review"
    BY <1>c, <2>1 DEF SmokeInv, BeforeReview
  <2> QED
    BY <1>a, <1>c, <1>d, <1>e, <2>2 DEF Steady, Keep, appVars
<1> QED
  BY <1>1, <1>2, <1>3, <1>4, <1>5, <1>6, <1>7, <1>8, <1>9, <1>10 DEF SmokeInv

LEMMA SampleHomeSteps ==
  ASSUME SmokeInv, SampleHome, UNCHANGED <<prompt, fault>>
  PROVE  SmokeInv'
<1>a. /\ Screen' = Screen /\ Case' = Case /\ (ScreenIsOfTheCase => ScreenIsOfTheCase')
      /\ Opened' = Opened /\ AtRest' = AtRest /\ Read' = Read
      /\ Readable(sections)' = Readable(sections) /\ CanScrollDown' = CanScrollDown
      /\ \A screen : CanShow(screen) <=> CanShow(screen)'
  <2>1. UNCHANGED <<vars, appVars, flow, k>>
    BY DEF SampleHome
  <2> QED
    BY <2>1, KeepIs
<1>b. /\ IsCase(Case) /\ Len(flow) \in Nat \ {0} /\ k \in 1..Len(flow)
      /\ fault \in Faults /\ imported \in BOOLEAN
  BY CaseNow DEF SmokeInv
<1>1. SmokeTypeOK'
  BY DEF SmokeInv, Goto, vars, appVars, SampleHome, SmokeTypeOK, Places, Case
<1>2. ScreenIsOfTheCase'
  BY <1>a DEF SmokeInv, ScreenIsOfTheCase
<1>3. BeforeReview'
  <2>1. ~Opened => Screen = HomeScreen
    BY ScreenIs DEF SmokeInv, SampleHome, At, BeforeReview
  <2> QED
    BY <1>a, <2>1 DEF SmokeInv, At, Goto, SampleHome, BeforeReview, vars, appVars
<1>4. WhileInReview'
  BY DEF Goto, SampleHome, WhileInReview, InReview
<1>5. WhileDeciding'
  BY DEF Goto, SampleHome, WhileDeciding
<1>6. WhileInImport'
  BY DEF Goto, SampleHome, WhileInImport, InImport
<1>7. WhileAnswered'
  BY DEF Goto, SampleHome, WhileAnswered
<1>8. LogIsPlanned'
  BY DEF SmokeInv, At, Goto, appVars, SampleHome, LogIsPlanned, Acted, DoneUpTo
<1>9. FaultsAreCleared'
  BY DEF SmokeInv, Goto, SampleHome, FaultsAreCleared, Cleared
<1>10. InStep'
  BY <1>a DEF SmokeInv, Goto, vars, SampleHome, InStep
<1> QED
  BY <1>1, <1>2, <1>3, <1>4, <1>5, <1>6, <1>7, <1>8, <1>9, <1>10 DEF SmokeInv

LEMMA SpawnSteps ==
  ASSUME SmokeInv, Spawn, UNCHANGED <<prompt, fault>>
  PROVE  SmokeInv'
<1>b. /\ IsCase(Case) /\ Len(flow) \in Nat \ {0} /\ k \in 1..Len(flow)
      /\ fault \in Faults /\ imported \in BOOLEAN
  BY CaseNow DEF SmokeInv
<1>c. /\ pc = "spawn" /\ ~Opened /\ answer = "none" /\ ~blank /\ presses = <<>>
      /\ UNCHANGED <<step, answer, blank, presses, imported, log, flow, k>>
      /\ Case' = Case /\ Opened' = Opened
  BY DEF SmokeInv, Spawn, At, BeforeReview, AtRest, ScreenIsOfTheCase, vars, Case, Opened
<1>1. SmokeTypeOK'
  BY <1>c DEF SmokeInv, Goto, vars, Spawn, SmokeTypeOK, Places
<1>2. ScreenIsOfTheCase'
  BY <1>c DEF ScreenIsOfTheCase, Opened
<1>3. BeforeReview'
  BY <1>c DEF Spawn, Goto, BeforeReview, Opened
<1>4. WhileInReview'
  BY DEF Goto, Spawn, WhileInReview, InReview
<1>5. WhileDeciding'
  BY DEF Goto, Spawn, WhileDeciding
<1>6. WhileInImport'
  BY DEF Goto, Spawn, WhileInImport, InImport
<1>7. WhileAnswered'
  BY <1>c DEF Goto, Spawn, WhileAnswered
<1>8. LogIsPlanned'
  BY <1>c DEF SmokeInv, Goto, Spawn, LogIsPlanned, Acted, DoneUpTo
<1>9. FaultsAreCleared'
  BY DEF SmokeInv, Goto, Spawn, FaultsAreCleared, Cleared
<1>10. InStep'
  BY <1>c DEF SmokeInv, Goto, vars, Spawn, InStep
<1> QED
  BY <1>1, <1>2, <1>3, <1>4, <1>5, <1>6, <1>7, <1>8, <1>9, <1>10 DEF SmokeInv

LEMMA WaitResultSteps ==
  ASSUME SmokeInv, WaitResult, UNCHANGED <<prompt, fault>>
  PROVE  SmokeInv'
<1>b. /\ IsCase(Case) /\ Len(flow) \in Nat \ {0} /\ k \in 1..Len(flow)
      /\ fault \in Faults /\ imported \in BOOLEAN
  BY CaseNow DEF SmokeInv
<1>c. /\ pc = "wait_result" /\ pc' \in {"wait_home", "failed"} /\ answer' = "none"
      /\ pc' = "wait_home" => answer \in {"signed", "imported"} /\ ~Opened /\ request = NoCase
      /\ UNCHANGED <<vars, request, cursor, presses, imported, log, flow, k, prompt, fault>>
      /\ Case' = Case /\ Opened' = Opened
  BY DEF SmokeInv, WaitResult, At, Goto, Accepted, ScreenIsOfTheCase, vars, Case, Opened
<1>1. SmokeTypeOK'
  BY <1>c DEF SmokeInv, vars, WaitResult, SmokeTypeOK, Places
<1>2. ScreenIsOfTheCase'
  BY <1>c DEF SmokeInv, ScreenIsOfTheCase, vars, Lines, ReviewShown
<1>3. BeforeReview'
  BY <1>c DEF BeforeReview
<1>4. WhileInReview'
  BY <1>c DEF WhileInReview, InReview
<1>5. WhileDeciding'
  BY <1>c DEF WhileDeciding
<1>6. WhileInImport'
  BY <1>c DEF WhileInImport, InImport
<1>7. WhileAnswered'
  BY <1>c DEF WhileAnswered, AtRest
<1>8. LogIsPlanned'
  BY <1>c DEF SmokeInv, LogIsPlanned, Acted, DoneUpTo
<1>9. FaultsAreCleared'
  BY <1>c DEF SmokeInv, FaultsAreCleared, Cleared
<1>10. InStep'
  BY <1>c DEF SmokeInv, InStep, Readable, vars
<1> QED
  BY <1>1, <1>2, <1>3, <1>4, <1>5, <1>6, <1>7, <1>8, <1>9, <1>10 DEF SmokeInv

LEMMA WaitHomeSteps ==
  ASSUME SmokeInv, WaitHome, UNCHANGED <<prompt, fault>>
  PROVE  SmokeInv'
<1>b. /\ IsCase(Case) /\ Len(flow) \in Nat \ {0} /\ k \in 1..Len(flow)
      /\ fault \in Faults /\ imported \in BOOLEAN
  BY CaseNow DEF SmokeInv
<1>c. /\ pc = "wait_home" /\ AtRest /\ UNCHANGED <<answer, blank>>
      /\ pc' = "spawn" => ~blank
      /\ UNCHANGED <<vars, request, cursor, presses, imported, log, flow, prompt, fault>>
      /\ Opened' = Opened
      /\ \/ pc' = "failed" /\ k' = k
         \/ pc' = "spawn" /\ k < Len(flow) /\ k' = k + 1
         \/ pc' = "passed" /\ k = Len(flow) /\ k' = k
  <2>1. screen_contains(Screen, "app is ready") => ~blank
    BY BlankShowsNothing
  <2>2. pc = "wait_home" /\ AtRest
    BY DEF SmokeInv, WaitHome, At, WhileAnswered
  <2>3. Opened' = Opened
    BY DEF WaitHome, vars, Opened
  <2>4. /\ UNCHANGED <<vars, request, cursor, presses, imported, log, flow, answer, blank>>
        /\ \/ screen_contains(Screen, "app is ready") /\ NextCase
           \/ pc' = "failed" /\ k' = k
    BY DEF WaitHome, Goto, appVars
  <2>5. \/ pc' = "failed" /\ k' = k
        \/ pc' = "spawn" /\ k < Len(flow) /\ k' = k + 1
        \/ pc' = "passed" /\ k = Len(flow) /\ k' = k
    <3>1. k \in Nat /\ Len(flow) \in Nat /\ k <= Len(flow)
      BY <1>b
    <3>2. NextCase \/ (pc' = "failed" /\ k' = k)
      BY <2>4
    <3> QED
      BY <3>1, <3>2 DEF NextCase, Goto
  <2>6. pc' = "spawn" => screen_contains(Screen, "app is ready")
    BY <2>4
  <2>7. /\ UNCHANGED <<vars, request, cursor, presses, imported, log, flow, prompt, fault>>
        /\ UNCHANGED <<answer, blank>>
    BY <2>4
  <2> QED
    BY <2>1, <2>2, <2>3, <2>5, <2>6, <2>7
<1>1. SmokeTypeOK'
  <2>1. /\ UNCHANGED <<step, answer, presses, cursor, blank, imported, hurried, prompt, fault, flow>>
        /\ request' = NoCase /\ section' = 1 /\ count' = 0 /\ k' \in 1..Len(flow)
        /\ pc' \in Places
    <3>1. UNCHANGED <<step, answer, presses, cursor, blank, imported, hurried, prompt, fault, flow>>
      BY <1>c DEF vars
    <3>2. request' = NoCase /\ section' = 1 /\ count' = 0
      BY <1>c DEF WaitHome, AtRest
    <3>3. k' \in 1..Len(flow) /\ pc' \in Places
      BY <1>b, <1>c DEF Places
    <3> QED
      BY <3>1, <3>2, <3>3
  <2> QED
    BY <2>1 DEF SmokeInv, SmokeTypeOK, NoCase
<1>2. ScreenIsOfTheCase'
  BY <1>c DEF SmokeInv, ScreenIsOfTheCase, AtRest, Opened
<1>3. BeforeReview'
  BY <1>c DEF BeforeReview, AtRest
<1>4. WhileInReview'
  BY <1>c DEF WhileInReview, InReview
<1>5. WhileDeciding'
  BY <1>c DEF WhileDeciding
<1>6. WhileInImport'
  BY <1>c DEF WhileInImport, InImport
<1>7. WhileAnswered'
  BY <1>c DEF WhileAnswered, AtRest
<1>8. LogIsPlanned'
  <2>1. DoneUpTo(k) /\ k + 1 - 1 = k
    BY <1>b, <1>c DEF SmokeInv, LogIsPlanned, Acted
  <2> QED
    BY <1>b, <1>c, <2>1 DEF LogIsPlanned, Acted, DoneUpTo
<1>9. FaultsAreCleared'
  <2>1. \A i \in 1..k : Cleared(flow[i])
    BY <1>b, <1>c DEF SmokeInv, FaultsAreCleared, Case
  <2> QED
    BY <1>b, <1>c, <2>1 DEF FaultsAreCleared, Cleared, Case
<1>10. InStep'
  BY <1>c DEF InStep, AtRest, Opened
<1> QED
  BY <1>1, <1>2, <1>3, <1>4, <1>5, <1>6, <1>7, <1>8, <1>9, <1>10 DEF SmokeInv

LEMMA WaitRefusalSteps ==
  ASSUME SmokeInv, WaitRefusal, UNCHANGED <<prompt, fault>>
  PROVE  SmokeInv'
<1>b. /\ IsCase(Case) /\ Len(flow) \in Nat \ {0} /\ k \in 1..Len(flow)
      /\ fault \in Faults /\ imported \in BOOLEAN
  BY CaseNow DEF SmokeInv
<1>c. /\ pc = "wait_refusal" /\ answer' = "none" /\ UNCHANGED blank
      /\ Case.kind = "load_bad_idl" /\ presses = <<>>
      /\ pc' # "failed" => request = NoCase /\ ~Opened /\ ~blank /\ fault # "trusts_any_idl"
      /\ UNCHANGED <<vars, request, cursor, presses, imported, log, flow, prompt, fault>>
      /\ Opened' = Opened
      /\ \/ pc' = "failed" /\ k' = k
         \/ pc' = "spawn" /\ k < Len(flow) /\ k' = k + 1
         \/ pc' = "passed" /\ k = Len(flow) /\ k' = k
  BY <1>b DEF SmokeInv, WaitRefusal, At, Goto, NextCase, WhileAnswered, vars, Opened, NoCase,
     IsCase, Kinds
<1>1. SmokeTypeOK'
  BY <1>c DEF SmokeInv, vars, WaitRefusal, SmokeTypeOK, Places, Case
<1>2. ScreenIsOfTheCase'
  <2>1. CASE pc' = "failed"
    BY <1>c, <2>1 DEF SmokeInv, ScreenIsOfTheCase, vars, ReviewShown, Case
  <2>2. CASE pc' # "failed"
    BY <1>c, <2>2 DEF ScreenIsOfTheCase, Opened
  <2> QED
    BY <2>1, <2>2
<1>3. BeforeReview'
  BY <1>c DEF BeforeReview, AtRest
<1>4. WhileInReview'
  BY <1>c DEF WhileInReview, InReview
<1>5. WhileDeciding'
  BY <1>c DEF WhileDeciding
<1>6. WhileInImport'
  BY <1>c DEF WhileInImport, InImport
<1>7. WhileAnswered'
  BY <1>c DEF WhileAnswered, AtRest
<1>8. LogIsPlanned'
  <2>1. DoneUpTo(k - 1) /\ ~Acted
    BY <1>c DEF SmokeInv, LogIsPlanned, Acted
  <2>2. PlanOf(flow)[k] = PlanOf(flow)[k - 1]
    BY PlanIs
  <2>3. DoneUpTo(k)
    BY <1>b, <1>c, <2>1, <2>2 DEF DoneUpTo, Case
  <2>4. k + 1 - 1 = k
    BY <1>b
  <2>5. CASE pc' = "failed"
    BY <1>c, <2>1, <2>5 DEF LogIsPlanned, DoneUpTo
  <2> QED
    BY <1>b, <1>c, <2>3, <2>4, <2>5 DEF LogIsPlanned, Acted, DoneUpTo
<1>9. FaultsAreCleared'
  <2>1. pc' # "failed" => Cleared(Case)
    BY <1>c DEF Cleared
  <2> QED
    BY <1>b, <1>c, <2>1 DEF SmokeInv, FaultsAreCleared, Cleared, Case
<1>10. InStep'
  BY <1>c DEF SmokeInv, InStep, Opened, Readable, vars, Case
<1> QED
  BY <1>1, <1>2, <1>3, <1>4, <1>5, <1>6, <1>7, <1>8, <1>9, <1>10 DEF SmokeInv

-----------------------------------------------------------------------------
(* The steps that press a button.                                          *)

LEMMA PressIs ==
  ASSUME SmokeTypeOK, NEW button \in Buttons, Press(button), UNCHANGED <<prompt, fault>>
  PROVE  /\ Screen' = Screen /\ Case' = Case
         /\ Opened /\ ScreenIsOfTheCase => ScreenIsOfTheCase'
         /\ Opened' = Opened /\ Read' = Read
         /\ Readable(sections)' = Readable(sections) /\ CanScrollDown' = CanScrollDown
         /\ \A screen : CanShow(screen) <=> CanShow(screen)'
         /\ presses \in Seq(Buttons) /\ presses' \in Seq(Buttons)
         /\ presses = <<>> => presses' = <<button>>
         /\ presses = <<"right">> => presses' = <<"right", button>>
         /\ presses' # <<>> /\ presses'[Len(presses')] = button
         /\ Both(presses) \in Nat
         /\ Both(presses)' = IF button = "both" THEN Both(presses) + 1 ELSE Both(presses)
<1>1. presses \in Seq(Buttons) /\ presses' = Append(presses, button)
  BY DEF SmokeTypeOK, Press
<1>2. /\ presses' \in Seq(Buttons) /\ presses' # <<>> /\ presses'[Len(presses')] = button
      /\ presses = <<>> => presses' = <<button>>
      /\ presses = <<"right">> => presses' = <<"right", button>>
  <2> DEFINE m == Len(presses)
  <2>1. /\ presses' \in Seq(Buttons) /\ m \in Nat /\ Len(presses') = m + 1 /\ presses'[m + 1] = button
    BY <1>1, AppendProperties, LenProperties
  <2>2. presses' # <<>>
    BY <2>1
  <2>3. presses = <<>> => presses' = <<button>>
    BY <1>1
  <2>4. presses = <<"right">> => presses' = <<"right", button>>
    BY <1>1, TwoPresses
  <2> QED
    BY <2>1, <2>2, <2>3, <2>4
<1>3. /\ Both(presses) \in Nat
      /\ Both(presses)' = IF button = "both" THEN Both(presses) + 1 ELSE Both(presses)
  BY <1>1, BothOfMore
<1>4. Screen' = Screen /\ Case' = Case
  BY ScreenSame DEF Press, Case
<1>5. Opened /\ ScreenIsOfTheCase => ScreenIsOfTheCase'
  BY <1>4 DEF Press, vars, ScreenIsOfTheCase, Opened, ReviewShown, Lines
<1>6. Opened' = Opened /\ Read' = Read
  BY DEF Press, vars, Opened, Read
<1>7. Readable(sections)' = Readable(sections) /\ CanScrollDown' = CanScrollDown
  BY DEF Press, vars, Readable, CanScrollDown, Lines
<1>8. \A screen : CanShow(screen) <=> CanShow(screen)'
  BY DEF Press, vars, CanShow, Lines
<1> QED
  BY <1>1, <1>2, <1>3, <1>4, <1>5, <1>6, <1>7, <1>8

(* What was collected was in a section or on the Sign screen.              *)
LEMMA CollectedWasShown ==
  ASSUME SmokeTypeOK, ScreenIsOfTheCase, step \in {"review", "ask"},
         NEW fragments, NEW screen, CanShow(screen), screen_contains_all(screen, fragments)
  PROVE  ~Tells(sections, fragments)
<1>1. CASE screen = SignScreen
  BY <1>1 DEF Tells
<1>2. CASE screen # SignScreen
  <2>1. DOMAIN sections = 1..Len(sections)
    BY SectionsNow, LenProperties
  <2> QED
    BY <1>2, <2>1 DEF CanShow, Tells, ShownNowhere, Lines
<1> QED
  BY <1>1, <1>2

LEMMA ScrollPressSteps ==
  ASSUME SmokeInv, Scroll, count < MaxScrolls,
         UNCHANGED <<prompt, fault>>
  PROVE  SmokeInv'
<1>a. /\ Screen' = Screen /\ Case' = Case /\ (Opened /\ ScreenIsOfTheCase => ScreenIsOfTheCase')
      /\ Opened' = Opened /\ Read' = Read
      /\ Readable(sections)' = Readable(sections) /\ CanScrollDown' = CanScrollDown
      /\ \A screen : CanShow(screen) <=> CanShow(screen)'
      /\ presses \in Seq(Buttons) /\ presses' \in Seq(Buttons)
      /\ presses = <<>> => presses' = <<"right">>
      /\ presses = <<"right">> => presses' = <<"right", "right">>
      /\ presses' # <<>> /\ presses'[Len(presses')] = "right"
      /\ Both(presses) \in Nat /\ Both(presses)' = Both(presses)
  <2>1. Press("right") /\ "right" \in Buttons /\ SmokeTypeOK
    BY DEF Scroll, Buttons, SmokeInv
  <2> QED
    BY <2>1, PressIs
<1>b. /\ IsCase(Case) /\ Len(flow) \in Nat \ {0} /\ k \in 1..Len(flow)
      /\ fault \in Faults /\ imported \in BOOLEAN
  BY CaseNow DEF SmokeInv
<1>c. /\ pc = "scroll" /\ Press("right") /\ Opened
      /\ UNCHANGED <<vars, request, answer, cursor, blank, imported, log, flow, k, prompt, fault>>
      /\ UNCHANGED <<current, seen, section>> /\ pc' = "wait_scroll"
      /\ answer = "none" /\ step \in {"review", "ask", "import"}
  BY DEF Scroll, At, Goto, Press, SmokeInv, WhileInReview, InReview, ScreenIsOfTheCase, Opened
<1>1. SmokeTypeOK'
  BY <1>a, <1>c DEF SmokeInv, SmokeTypeOK, Places, vars, Scroll
<1>2. ScreenIsOfTheCase'
  BY <1>a, <1>c DEF SmokeInv
<1>3. BeforeReview'
  BY <1>c DEF BeforeReview
<1>4. WhileInReview'
  <2>1. count' = count + 1 /\ UNCHANGED <<step, sections>>
    BY <1>c DEF Scroll, vars
  <2> QED
    BY <1>a, <1>c, <2>1 DEF SmokeInv, WhileInReview, InReview, Pressed
<1>5. WhileDeciding'
  BY <1>c DEF WhileDeciding
<1>6. WhileInImport'
  BY <1>c DEF WhileInImport, InImport
<1>7. WhileAnswered'
  BY <1>c DEF WhileAnswered
<1>8. LogIsPlanned'
  BY <1>c DEF SmokeInv, LogIsPlanned, Acted, DoneUpTo
<1>9. FaultsAreCleared'
  BY <1>c DEF SmokeInv, FaultsAreCleared, Cleared
<1>10. InStep'
  <2>1. count' = count + 1 /\ count \in Nat /\ count + 1 - 1 = count
        /\ UNCHANGED <<step, sections, hurried, scroll_line, blank>>
    BY <1>c DEF Scroll, vars, SmokeInv, SmokeTypeOK
  <2> QED
    BY <1>a, <1>c, <2>1 DEF SmokeInv, InStep, Steady
<1> QED
  BY <1>1, <1>2, <1>3, <1>4, <1>5, <1>6, <1>7, <1>8, <1>9, <1>10 DEF SmokeInv

LEMMA ScrollEndSteps ==
  ASSUME SmokeInv, Scroll, ~(count < MaxScrolls),
         UNCHANGED <<prompt, fault>>
  PROVE  SmokeInv'
<1>a. /\ Keep /\ Screen' = Screen /\ Case' = Case /\ (ScreenIsOfTheCase => ScreenIsOfTheCase')
      /\ Opened' = Opened /\ AtRest' = AtRest /\ Read' = Read
      /\ Readable(sections)' = Readable(sections) /\ CanScrollDown' = CanScrollDown
      /\ \A screen : CanShow(screen) <=> CanShow(screen)'
  <2>1. Keep
    BY DEF Scroll
  <2> QED
    BY <2>1, KeepIs DEF Keep
<1>b. /\ IsCase(Case) /\ Len(flow) \in Nat \ {0} /\ k \in 1..Len(flow)
      /\ fault \in Faults /\ imported \in BOOLEAN
  BY CaseNow DEF SmokeInv
<1>1. SmokeTypeOK'
  BY DEF SmokeInv, Goto, Keep, vars, appVars, Scroll, SmokeTypeOK, Places, Case
<1>2. ScreenIsOfTheCase'
  BY <1>a DEF SmokeInv, ScreenIsOfTheCase
<1>3. BeforeReview'
  BY DEF Goto, Scroll, BeforeReview
<1>4. WhileInReview'
  BY <1>a DEF SmokeInv, At, Goto, Keep, vars, appVars, Scroll, WhileInReview, InReview, Pressed
<1>5. WhileDeciding'
  BY DEF Goto, Scroll, WhileDeciding
<1>6. WhileInImport'
  BY DEF Goto, Scroll, WhileInImport, InImport
<1>7. WhileAnswered'
  BY DEF Goto, Scroll, WhileAnswered
<1>8. LogIsPlanned'
  BY DEF SmokeInv, At, Goto, Keep, appVars, Scroll, LogIsPlanned, Acted, DoneUpTo
<1>9. FaultsAreCleared'
  BY DEF SmokeInv, Goto, Keep, Scroll, FaultsAreCleared, Cleared
<1>10. InStep'
  <2>1. SUFFICES ASSUME prompt, ~Case.manual, Readable(sections), step = "review"
        PROVE  ~hurried /\ Steady(<<>>) /\ ~CanScrollDown
    BY <1>a DEF Scroll, Goto, SmokeInv, InStep, Steady, Keep, vars, appVars
  <2>2. ~hurried /\ Steady(<<>>) /\ scroll_line = count
    BY <2>1 DEF Scroll, At, SmokeInv, InStep
  <2>3. /\ section_index \in DOMAIN sections /\ Lines(section_index) \in Nat
        /\ count \in Nat /\ ~(count < MaxScrolls)
    BY <2>1, SectionsNow, LenProperties DEF SmokeInv, SmokeTypeOK
  <2>4. Lines(section_index) - VisibleLines <= MaxScrolls
    BY <2>1, <2>3 DEF Readable, Lines
  <2> QED
    BY <2>2, <2>3, <2>4, SmokeAssumption, ReviewAssumption DEF CanScrollDown
<1> QED
  BY <1>1, <1>2, <1>3, <1>4, <1>5, <1>6, <1>7, <1>8, <1>9, <1>10 DEF SmokeInv

LEMMA EndFirstSectionSteps ==
  ASSUME SmokeInv, EndSection, section < 2,
         UNCHANGED <<prompt, fault>>
  PROVE  SmokeInv'
<1>a. /\ Screen' = Screen /\ Case' = Case /\ (Opened /\ ScreenIsOfTheCase => ScreenIsOfTheCase')
      /\ Opened' = Opened /\ Read' = Read
      /\ Readable(sections)' = Readable(sections) /\ CanScrollDown' = CanScrollDown
      /\ \A screen : CanShow(screen) <=> CanShow(screen)'
      /\ presses \in Seq(Buttons) /\ presses' \in Seq(Buttons)
      /\ presses = <<>> => presses' = <<"both">>
      /\ presses = <<"right">> => presses' = <<"right", "both">>
      /\ presses' # <<>> /\ presses'[Len(presses')] = "both"
      /\ Both(presses) \in Nat /\ Both(presses)' = Both(presses) + 1
  <2>1. Press("both") /\ "both" \in Buttons /\ SmokeTypeOK
    BY DEF EndSection, Buttons, SmokeInv
  <2> QED
    BY <2>1, PressIs
<1>b. /\ IsCase(Case) /\ Len(flow) \in Nat \ {0} /\ k \in 1..Len(flow)
      /\ fault \in Faults /\ imported \in BOOLEAN
  BY CaseNow DEF SmokeInv
<1>c. /\ pc = "end_section" /\ Press("both") /\ Opened
      /\ UNCHANGED <<vars, request, answer, cursor, blank, imported, log, flow, k, prompt, fault>>
      /\ UNCHANGED <<current, seen, section>> /\ pc' = "wait_section"
      /\ answer = "none" /\ step \in {"review", "ask", "import"}
  BY DEF EndSection, At, Goto, Press, SmokeInv, WhileInReview, InReview, ScreenIsOfTheCase,
     Opened
<1>1. SmokeTypeOK'
  BY <1>a, <1>c DEF SmokeInv, SmokeTypeOK, Places, vars, EndSection
<1>2. ScreenIsOfTheCase'
  BY <1>a, <1>c DEF SmokeInv
<1>3. BeforeReview'
  BY <1>c DEF BeforeReview
<1>4. WhileInReview'
  <2>1. UNCHANGED <<step, sections>>
    BY <1>c DEF vars
  <2>2. section = 1 /\ Read + Both(presses) = 0 /\ step \in {"review", "ask"}
    BY <1>c DEF SmokeInv, WhileInReview, InReview, Pressed
  <2>3. Len(sections) \in {1, 2} /\ Read \in Int
    <3>1. Len(sections) \in {1, 2} /\ section_index \in 1..Len(sections)
      BY <2>2, SectionsNow DEF SmokeInv
    <3> QED
      BY <3>1 DEF Read
  <2>4. Read' + Both(presses)' = 1 /\ Pressed' = 1
    BY <1>a, <1>c, <2>2, <2>3 DEF Pressed
  <2> QED
    <3>1. Case.kind = "sign" /\ ~Case.manual /\ \A screen \in seen' : CanShow(screen)'
      BY <1>a, <1>c DEF SmokeInv, WhileInReview, InReview
    <3>2. section' = 1 /\ Pressed' <= Len(sections')
      BY <1>c, <2>1, <2>2, <2>3, <2>4
    <3> QED
      BY <1>a, <1>c, <2>1, <2>2, <2>4, <3>1, <3>2 DEF WhileInReview
<1>5. WhileDeciding'
  BY <1>c DEF WhileDeciding
<1>6. WhileInImport'
  BY <1>c DEF WhileInImport, InImport
<1>7. WhileAnswered'
  BY <1>c DEF WhileAnswered
<1>8. LogIsPlanned'
  BY <1>c DEF SmokeInv, LogIsPlanned, Acted, DoneUpTo
<1>9. FaultsAreCleared'
  BY <1>c DEF SmokeInv, FaultsAreCleared, Cleared
<1>10. InStep'
  <2>1. UNCHANGED <<step, sections, hurried, scroll_line, blank>>
    BY <1>c DEF vars
  <2> QED
    BY <1>a, <1>c, <2>1 DEF SmokeInv, InStep, Steady
<1> QED
  BY <1>1, <1>2, <1>3, <1>4, <1>5, <1>6, <1>7, <1>8, <1>9, <1>10 DEF SmokeInv

LEMMA EndLastSectionSteps ==
  ASSUME SmokeInv, EndSection, section = 2, CollectedEnough(seen),
         UNCHANGED <<prompt, fault>>
  PROVE  SmokeInv'
<1>a. /\ Screen' = Screen /\ Case' = Case /\ (Opened /\ ScreenIsOfTheCase => ScreenIsOfTheCase')
      /\ Opened' = Opened /\ Read' = Read
      /\ Readable(sections)' = Readable(sections) /\ CanScrollDown' = CanScrollDown
      /\ \A screen : CanShow(screen) <=> CanShow(screen)'
      /\ presses \in Seq(Buttons) /\ presses' \in Seq(Buttons)
      /\ presses = <<>> => presses' = <<"both">>
      /\ presses = <<"right">> => presses' = <<"right", "both">>
      /\ presses' # <<>> /\ presses'[Len(presses')] = "both"
      /\ Both(presses) \in Nat /\ Both(presses)' = Both(presses) + 1
  <2>1. Press("both") /\ "both" \in Buttons /\ SmokeTypeOK
    BY DEF EndSection, Buttons, SmokeInv
  <2> QED
    BY <2>1, PressIs
<1>b. /\ IsCase(Case) /\ Len(flow) \in Nat \ {0} /\ k \in 1..Len(flow)
      /\ fault \in Faults /\ imported \in BOOLEAN
  BY CaseNow DEF SmokeInv
<1>c. /\ pc = "end_section" /\ Press("both") /\ Opened
      /\ UNCHANGED <<vars, request, answer, cursor, blank, imported, log, flow, k, prompt, fault>>
      /\ UNCHANGED <<current, seen, section>> /\ pc' = "wait_sign"
      /\ answer = "none" /\ step \in {"review", "ask", "import"}
  BY DEF EndSection, At, Goto, Press, SmokeInv, WhileInReview, InReview, ScreenIsOfTheCase,
     Opened
<1>d. /\ section = 2 /\ Read + Both(presses) = 1 /\ step \in {"review", "ask"}
      /\ Case.kind = "sign" /\ ~Case.manual /\ (\A screen \in seen : CanShow(screen))
  BY <1>c DEF SmokeInv, WhileInReview, InReview, Pressed
<1>e. ASSUME NEW fragments \in Case.expected
      PROVE ~Tells(sections, fragments)
  <2>1. PICK screen \in seen : screen_contains_all(screen, fragments)
    BY DEF CollectedEnough
  <2> QED
    BY <1>d, <2>1, CollectedWasShown DEF SmokeInv
<1>f. fault # "hides_hash" /\ Len(sections) = 2 /\ step = "review" /\ cursor = 1
  <2>1. MessageHashScreen \in Case.expected
    BY <1>b, <1>d DEF IsCase
  <2>2. fault # "hides_hash" /\ Len(sections) = 2
    BY <1>d, <1>e, <2>1, SectionsNow DEF SmokeInv
  <2> QED
    BY <1>a, <1>d, <2>2 DEF Read, SmokeInv, ScreenIsOfTheCase
<1>1. SmokeTypeOK'
  BY <1>a, <1>c DEF SmokeInv, SmokeTypeOK, Places, vars, EndSection
<1>2. ScreenIsOfTheCase'
  BY <1>a, <1>c DEF SmokeInv
<1>3. BeforeReview'
  BY <1>c DEF BeforeReview
<1>4. WhileInReview'
  <2>1. UNCHANGED <<step, sections, cursor>>
    BY <1>c DEF vars
  <2>2. Read \in Int
    BY <1>f, SectionsNow DEF SmokeInv, Read
  <2>3. Read' + Both(presses)' = 2 /\ Pressed' = 2
    BY <1>a, <1>c, <1>d, <2>2 DEF Pressed
  <2> QED
    <3>1. \A screen \in seen' : CanShow(screen)'
      BY <1>a, <1>c, <1>d
    <3>2. section' = 2 /\ Pressed' <= Len(sections')
      BY <1>c, <1>f, <2>1, <2>3
    <3> QED
      BY <1>a, <1>c, <1>d, <1>f, <2>1, <2>3, <3>1, <3>2 DEF WhileInReview
<1>5. WhileDeciding'
  BY <1>c DEF WhileDeciding
<1>6. WhileInImport'
  BY <1>c DEF WhileInImport, InImport
<1>7. WhileAnswered'
  BY <1>c DEF WhileAnswered
<1>8. LogIsPlanned'
  BY <1>c DEF SmokeInv, LogIsPlanned, Acted, DoneUpTo
<1>9. FaultsAreCleared'
  <2>1. ASSUME Case.message = "sample", ExpectedScreens["sample_decoded"] \subseteq Case.expected
        PROVE  fault # "never_decodes"
    <3>1. PICK fragments \in ExpectedScreens["sample_decoded"] :
                 Tells(ReviewOf["sample"][FALSE], fragments)
      BY SmokeAssumption
    <3> QED
      BY <1>d, <1>e, <2>1, <3>1, SectionsNow DEF SmokeInv
  <2>2. ASSUME Case.message = "sample", ExpectedScreens["sample_generic"] \subseteq Case.expected
        PROVE  fault # "always_decodes"
    <3>1. PICK fragments \in ExpectedScreens["sample_generic"] :
                 Tells(ReviewOf["sample"][TRUE], fragments)
      BY SmokeAssumption
    <3> QED
      BY <1>d, <1>e, <2>2, <3>1, SectionsNow DEF SmokeInv
  <2>3. Cleared(Case)
    BY <1>d, <1>f, <2>1, <2>2 DEF Cleared
  <2> QED
    BY <1>a, <1>c, <2>3 DEF SmokeInv, FaultsAreCleared, Cleared
<1>10. InStep'
  <2>1. UNCHANGED <<step, sections, hurried, scroll_line, blank>>
    BY <1>c DEF vars
  <2> QED
    BY <1>a, <1>c, <2>1 DEF SmokeInv, InStep, Steady
<1> QED
  BY <1>1, <1>2, <1>3, <1>4, <1>5, <1>6, <1>7, <1>8, <1>9, <1>10 DEF SmokeInv

LEMMA EndFailsSteps ==
  ASSUME SmokeInv, EndSection, ~(section < 2), ~CollectedEnough(seen),
         UNCHANGED <<prompt, fault>>
  PROVE  SmokeInv'
<1>a. /\ Keep /\ Screen' = Screen /\ Case' = Case /\ (ScreenIsOfTheCase => ScreenIsOfTheCase')
      /\ Opened' = Opened /\ AtRest' = AtRest /\ Read' = Read
      /\ Readable(sections)' = Readable(sections) /\ CanScrollDown' = CanScrollDown
      /\ \A screen : CanShow(screen) <=> CanShow(screen)'
  <2>1. Keep
    BY DEF EndSection
  <2> QED
    BY <2>1, KeepIs DEF Keep
<1>b. /\ IsCase(Case) /\ Len(flow) \in Nat \ {0} /\ k \in 1..Len(flow)
      /\ fault \in Faults /\ imported \in BOOLEAN
  BY CaseNow DEF SmokeInv
<1>1. SmokeTypeOK'
  BY DEF SmokeInv, Goto, Keep, vars, appVars, EndSection, SmokeTypeOK, Places, Case
<1>2. ScreenIsOfTheCase'
  BY <1>a DEF SmokeInv, ScreenIsOfTheCase
<1>3. BeforeReview'
  BY DEF Goto, EndSection, BeforeReview
<1>4. WhileInReview'
  BY DEF Goto, EndSection, WhileInReview, InReview
<1>5. WhileDeciding'
  BY DEF Goto, EndSection, WhileDeciding
<1>6. WhileInImport'
  BY DEF Goto, EndSection, WhileInImport, InImport
<1>7. WhileAnswered'
  BY DEF Goto, EndSection, WhileAnswered
<1>8. LogIsPlanned'
  BY DEF SmokeInv, Goto, Keep, appVars, EndSection, LogIsPlanned, DoneUpTo
<1>9. FaultsAreCleared'
  BY DEF SmokeInv, Goto, Keep, EndSection, FaultsAreCleared, Cleared
<1>10. InStep'
  BY <1>a DEF SmokeInv, Goto, Keep, vars, EndSection, InStep
<1> QED
  BY <1>1, <1>2, <1>3, <1>4, <1>5, <1>6, <1>7, <1>8, <1>9, <1>10 DEF SmokeInv

LEMMA ChooseSteps ==
  ASSUME SmokeInv, Choose,
         UNCHANGED <<prompt, fault>>
  PROVE  SmokeInv'
<1>a. /\ Screen' = Screen /\ Case' = Case /\ (Opened /\ ScreenIsOfTheCase => ScreenIsOfTheCase')
      /\ Opened' = Opened /\ Read' = Read
      /\ Readable(sections)' = Readable(sections) /\ CanScrollDown' = CanScrollDown
      /\ \A screen : CanShow(screen) <=> CanShow(screen)'
      /\ presses \in Seq(Buttons) /\ presses' \in Seq(Buttons)
      /\ presses = <<>> => presses' = <<"right">>
      /\ presses = <<"right">> => presses' = <<"right", "right">>
      /\ presses' # <<>> /\ presses'[Len(presses')] = "right"
      /\ Both(presses) \in Nat /\ Both(presses)' = Both(presses)
  <2>1. Press("right") /\ "right" \in Buttons /\ SmokeTypeOK
    BY DEF Choose, Presses, Buttons, SmokeInv
  <2> QED
    BY <2>1, PressIs
<1>b. /\ IsCase(Case) /\ Len(flow) \in Nat \ {0} /\ k \in 1..Len(flow)
      /\ fault \in Faults /\ imported \in BOOLEAN
  BY CaseNow DEF SmokeInv
<1>c. /\ pc = "choose" /\ Press("right") /\ Opened
      /\ UNCHANGED <<vars, request, answer, cursor, blank, imported, log, flow, k, prompt, fault>>
      /\ UNCHANGED <<current, seen, section>> /\ pc' = "confirm"
      /\ answer = "none" /\ step \in {"review", "ask", "import"}
  BY DEF Choose, Presses, At, Goto, Press, SmokeInv, WhileDeciding, ScreenIsOfTheCase, Opened
<1>1. SmokeTypeOK'
  BY <1>a, <1>c DEF SmokeInv, SmokeTypeOK, Places, vars, Choose, Presses
<1>2. ScreenIsOfTheCase'
  BY <1>a, <1>c DEF SmokeInv
<1>3. BeforeReview'
  BY <1>c DEF BeforeReview
<1>4. WhileInReview'
  BY <1>c DEF WhileInReview, InReview
<1>5. WhileDeciding'
  BY <1>a, <1>c DEF SmokeInv, WhileDeciding, vars
<1>6. WhileInImport'
  BY <1>c DEF WhileInImport, InImport
<1>7. WhileAnswered'
  BY <1>c DEF WhileAnswered
<1>8. LogIsPlanned'
  BY <1>c DEF SmokeInv, LogIsPlanned, Acted, DoneUpTo
<1>9. FaultsAreCleared'
  BY <1>a, <1>c DEF SmokeInv, FaultsAreCleared, Cleared
<1>10. InStep'
  BY <1>a, <1>c DEF SmokeInv, InStep, vars
<1> QED
  BY <1>1, <1>2, <1>3, <1>4, <1>5, <1>6, <1>7, <1>8, <1>9, <1>10 DEF SmokeInv

LEMMA ConfirmSteps ==
  ASSUME SmokeInv, Confirm,
         UNCHANGED <<prompt, fault>>
  PROVE  SmokeInv'
<1>a. /\ Screen' = Screen /\ Case' = Case /\ (Opened /\ ScreenIsOfTheCase => ScreenIsOfTheCase')
      /\ Opened' = Opened /\ Read' = Read
      /\ Readable(sections)' = Readable(sections) /\ CanScrollDown' = CanScrollDown
      /\ \A screen : CanShow(screen) <=> CanShow(screen)'
      /\ presses \in Seq(Buttons) /\ presses' \in Seq(Buttons)
      /\ presses = <<>> => presses' = <<"both">>
      /\ presses = <<"right">> => presses' = <<"right", "both">>
      /\ presses' # <<>> /\ presses'[Len(presses')] = "both"
      /\ Both(presses) \in Nat /\ Both(presses)' = Both(presses) + 1
  <2>1. Press("both") /\ "both" \in Buttons /\ SmokeTypeOK
    BY DEF Confirm, Presses, Buttons, SmokeInv
  <2> QED
    BY <2>1, PressIs
<1>b. /\ IsCase(Case) /\ Len(flow) \in Nat \ {0} /\ k \in 1..Len(flow)
      /\ fault \in Faults /\ imported \in BOOLEAN
  BY CaseNow DEF SmokeInv
<1>c. /\ pc = "confirm" /\ Press("both") /\ Opened
      /\ UNCHANGED <<vars, request, answer, cursor, blank, imported, log, flow, k, prompt, fault>>
      /\ UNCHANGED <<current, seen, section>> /\ pc' = "wait_result"
      /\ answer = "none" /\ step \in {"review", "ask", "import"}
  BY DEF Confirm, Presses, At, Goto, Press, SmokeInv, WhileDeciding, ScreenIsOfTheCase, Opened
<1>1. SmokeTypeOK'
  BY <1>a, <1>c DEF SmokeInv, SmokeTypeOK, Places, vars, Confirm, Presses
<1>2. ScreenIsOfTheCase'
  BY <1>a, <1>c DEF SmokeInv
<1>3. BeforeReview'
  BY <1>c DEF BeforeReview
<1>4. WhileInReview'
  BY <1>c DEF WhileInReview, InReview
<1>5. WhileDeciding'
  BY <1>c DEF WhileDeciding
<1>6. WhileInImport'
  BY <1>c DEF WhileInImport, InImport
<1>7. WhileAnswered'
  <2>1. /\ Case.kind = "sign" /\ ~Case.manual /\ step = "ask"
        /\ (presses = <<"right">> /\ cursor = 1) \/ (presses = <<>> /\ cursor = 2)
        /\ UNCHANGED <<step, cursor, answer>>
    BY <1>c DEF SmokeInv, WhileDeciding, vars
  <2> QED
    BY <1>a, <1>c, <2>1 DEF WhileAnswered, AboutToAnswer
<1>8. LogIsPlanned'
  BY <1>c DEF SmokeInv, LogIsPlanned, Acted, DoneUpTo
<1>9. FaultsAreCleared'
  BY <1>a, <1>c DEF SmokeInv, FaultsAreCleared, Cleared
<1>10. InStep'
  BY <1>a, <1>c DEF SmokeInv, InStep, vars
<1> QED
  BY <1>1, <1>2, <1>3, <1>4, <1>5, <1>6, <1>7, <1>8, <1>9, <1>10 DEF SmokeInv

LEMMA TurnBackSteps ==
  ASSUME SmokeInv, TurnPage, count > 0 /\ screen_contains(current, "Reject"),
         UNCHANGED <<prompt, fault>>
  PROVE  SmokeInv'
<1>a. /\ Screen' = Screen /\ Case' = Case /\ (Opened /\ ScreenIsOfTheCase => ScreenIsOfTheCase')
      /\ Opened' = Opened /\ Read' = Read
      /\ Readable(sections)' = Readable(sections) /\ CanScrollDown' = CanScrollDown
      /\ \A screen : CanShow(screen) <=> CanShow(screen)'
      /\ presses \in Seq(Buttons) /\ presses' \in Seq(Buttons)
      /\ presses = <<>> => presses' = <<"left">>
      /\ presses = <<"right">> => presses' = <<"right", "left">>
      /\ presses' # <<>> /\ presses'[Len(presses')] = "left"
      /\ Both(presses) \in Nat /\ Both(presses)' = Both(presses)
  <2>1. Press("left") /\ "left" \in Buttons /\ SmokeTypeOK
    BY DEF TurnPage, Buttons, SmokeInv
  <2> QED
    BY <2>1, PressIs
<1>b. /\ IsCase(Case) /\ Len(flow) \in Nat \ {0} /\ k \in 1..Len(flow)
      /\ fault \in Faults /\ imported \in BOOLEAN
  BY CaseNow DEF SmokeInv
<1>c. /\ pc = "turn_page" /\ Press("left") /\ Opened
      /\ UNCHANGED <<vars, request, answer, cursor, blank, imported, log, flow, k, prompt, fault>>
      /\ UNCHANGED <<current, seen, section>> /\ pc' = "wait_back"
      /\ answer = "none" /\ step \in {"review", "ask", "import"}
  BY DEF TurnPage, At, Goto, Press, SmokeInv, WhileInImport, InImport, ScreenIsOfTheCase, Opened
<1>1. SmokeTypeOK'
  BY <1>a, <1>c DEF SmokeInv, SmokeTypeOK, Places, vars, TurnPage
<1>2. ScreenIsOfTheCase'
  BY <1>a, <1>c DEF SmokeInv
<1>3. BeforeReview'
  BY <1>c DEF BeforeReview
<1>4. WhileInReview'
  BY <1>c DEF WhileInReview, InReview
<1>5. WhileDeciding'
  BY <1>c DEF WhileDeciding
<1>6. WhileInImport'
  <2>1. Case.kind = "load_idl" /\ ~Case.manual /\ step = "import" /\ Steady(<<>>)
    BY <1>c DEF SmokeInv, WhileInImport, InImport
  <2>2. cursor \in 1..Len(ImportPages) /\ Screen = Deduplicated(ImportPages[cursor])
    BY <2>1, ScreenIs DEF SmokeInv, ScreenIsOfTheCase, Steady
  <2>3. cursor = Len(ImportPages)
    BY <2>1, <2>2, SmokeAssumption DEF Steady
  <2>4. UNCHANGED <<step, cursor, blank, current>> /\ Screen' = Screen
    BY <1>a, <1>c DEF vars
  <2> QED
    BY <1>a, <1>c, <2>1, <2>3, <2>4 DEF WhileInImport, InImport, Steady
<1>7. WhileAnswered'
  BY <1>c DEF WhileAnswered
<1>8. LogIsPlanned'
  BY <1>c DEF SmokeInv, LogIsPlanned, Acted, DoneUpTo
<1>9. FaultsAreCleared'
  BY <1>c DEF SmokeInv, FaultsAreCleared, Cleared
<1>10. InStep'
  BY <1>a, <1>c DEF SmokeInv, InStep, vars
<1> QED
  BY <1>1, <1>2, <1>3, <1>4, <1>5, <1>6, <1>7, <1>8, <1>9, <1>10 DEF SmokeInv

LEMMA TurnOnSteps ==
  ASSUME SmokeInv, TurnPage, ~(count > 0 /\ screen_contains(current, "Reject")), count < MaxPages,
         UNCHANGED <<prompt, fault>>
  PROVE  SmokeInv'
<1>a. /\ Screen' = Screen /\ Case' = Case /\ (Opened /\ ScreenIsOfTheCase => ScreenIsOfTheCase')
      /\ Opened' = Opened /\ Read' = Read
      /\ Readable(sections)' = Readable(sections) /\ CanScrollDown' = CanScrollDown
      /\ \A screen : CanShow(screen) <=> CanShow(screen)'
      /\ presses \in Seq(Buttons) /\ presses' \in Seq(Buttons)
      /\ presses = <<>> => presses' = <<"right">>
      /\ presses = <<"right">> => presses' = <<"right", "right">>
      /\ presses' # <<>> /\ presses'[Len(presses')] = "right"
      /\ Both(presses) \in Nat /\ Both(presses)' = Both(presses)
  <2>1. Press("right") /\ "right" \in Buttons /\ SmokeTypeOK
    BY DEF TurnPage, Buttons, SmokeInv
  <2> QED
    BY <2>1, PressIs
<1>b. /\ IsCase(Case) /\ Len(flow) \in Nat \ {0} /\ k \in 1..Len(flow)
      /\ fault \in Faults /\ imported \in BOOLEAN
  BY CaseNow DEF SmokeInv
<1>c. /\ pc = "turn_page" /\ Press("right") /\ Opened
      /\ UNCHANGED <<vars, request, answer, cursor, blank, imported, log, flow, k, prompt, fault>>
      /\ UNCHANGED <<current, seen, section>> /\ pc' = "wait_page"
      /\ answer = "none" /\ step \in {"review", "ask", "import"}
  BY DEF TurnPage, At, Goto, Press, SmokeInv, WhileInImport, InImport, ScreenIsOfTheCase, Opened
<1>1. SmokeTypeOK'
  BY <1>a, <1>c DEF SmokeInv, SmokeTypeOK, Places, vars, TurnPage
<1>2. ScreenIsOfTheCase'
  BY <1>a, <1>c DEF SmokeInv
<1>3. BeforeReview'
  BY <1>c DEF BeforeReview
<1>4. WhileInReview'
  BY <1>c DEF WhileInReview, InReview
<1>5. WhileDeciding'
  BY <1>c DEF WhileDeciding
<1>6. WhileInImport'
  BY <1>a, <1>c DEF SmokeInv, WhileInImport, InImport, Steady, vars
<1>7. WhileAnswered'
  BY <1>c DEF WhileAnswered
<1>8. LogIsPlanned'
  BY <1>c DEF SmokeInv, LogIsPlanned, Acted, DoneUpTo
<1>9. FaultsAreCleared'
  BY <1>c DEF SmokeInv, FaultsAreCleared, Cleared
<1>10. InStep'
  BY <1>a, <1>c DEF SmokeInv, InStep, vars
<1> QED
  BY <1>1, <1>2, <1>3, <1>4, <1>5, <1>6, <1>7, <1>8, <1>9, <1>10 DEF SmokeInv

LEMMA TurnFailsSteps ==
  ASSUME SmokeInv, TurnPage, ~(count > 0 /\ screen_contains(current, "Reject")),
         ~(count < MaxPages),
         UNCHANGED <<prompt, fault>>
  PROVE  SmokeInv'
<1>a. /\ Keep /\ Screen' = Screen /\ Case' = Case /\ (ScreenIsOfTheCase => ScreenIsOfTheCase')
      /\ Opened' = Opened /\ AtRest' = AtRest /\ Read' = Read
      /\ Readable(sections)' = Readable(sections) /\ CanScrollDown' = CanScrollDown
      /\ \A screen : CanShow(screen) <=> CanShow(screen)'
  <2>1. Keep
    BY DEF TurnPage
  <2> QED
    BY <2>1, KeepIs DEF Keep
<1>b. /\ IsCase(Case) /\ Len(flow) \in Nat \ {0} /\ k \in 1..Len(flow)
      /\ fault \in Faults /\ imported \in BOOLEAN
  BY CaseNow DEF SmokeInv
<1>1. SmokeTypeOK'
  BY DEF SmokeInv, Goto, Keep, vars, appVars, TurnPage, SmokeTypeOK, Places, Case
<1>2. ScreenIsOfTheCase'
  BY <1>a DEF SmokeInv, TurnPage, ScreenIsOfTheCase
<1>3. BeforeReview'
  BY DEF Goto, TurnPage, BeforeReview
<1>4. WhileInReview'
  BY DEF Goto, TurnPage, WhileInReview, InReview
<1>5. WhileDeciding'
  BY DEF Goto, TurnPage, WhileDeciding
<1>6. WhileInImport'
  BY DEF Goto, TurnPage, WhileInImport, InImport
<1>7. WhileAnswered'
  BY DEF Goto, TurnPage, WhileAnswered
<1>8. LogIsPlanned'
  BY DEF SmokeInv, Goto, Keep, appVars, TurnPage, LogIsPlanned, DoneUpTo
<1>9. FaultsAreCleared'
  BY DEF SmokeInv, Goto, Keep, TurnPage, FaultsAreCleared, Cleared
<1>10. InStep'
  BY <1>a DEF SmokeInv, Goto, Keep, vars, TurnPage, InStep
<1> QED
  BY <1>1, <1>2, <1>3, <1>4, <1>5, <1>6, <1>7, <1>8, <1>9, <1>10 DEF SmokeInv

LEMMA ImportPressSteps ==
  ASSUME SmokeInv, CheckImport,
         assert_load_idl_review_screens(seen) /\ screen_contains(current, "Import"),
         UNCHANGED <<prompt, fault>>
  PROVE  SmokeInv'
<1>a. /\ Screen' = Screen /\ Case' = Case /\ (Opened /\ ScreenIsOfTheCase => ScreenIsOfTheCase')
      /\ Opened' = Opened /\ Read' = Read
      /\ Readable(sections)' = Readable(sections) /\ CanScrollDown' = CanScrollDown
      /\ \A screen : CanShow(screen) <=> CanShow(screen)'
      /\ presses \in Seq(Buttons) /\ presses' \in Seq(Buttons)
      /\ presses = <<>> => presses' = <<"both">>
      /\ presses = <<"right">> => presses' = <<"right", "both">>
      /\ presses' # <<>> /\ presses'[Len(presses')] = "both"
      /\ Both(presses) \in Nat /\ Both(presses)' = Both(presses) + 1
  <2>1. Press("both") /\ "both" \in Buttons /\ SmokeTypeOK
    BY DEF CheckImport, Buttons, SmokeInv
  <2> QED
    BY <2>1, PressIs
<1>b. /\ IsCase(Case) /\ Len(flow) \in Nat \ {0} /\ k \in 1..Len(flow)
      /\ fault \in Faults /\ imported \in BOOLEAN
  BY CaseNow DEF SmokeInv
<1>c. /\ pc = "check_import" /\ Press("both") /\ Opened
      /\ UNCHANGED <<vars, request, answer, cursor, blank, imported, log, flow, k, prompt, fault>>
      /\ UNCHANGED <<current, seen, section>> /\ pc' = "wait_result"
      /\ answer = "none" /\ step \in {"review", "ask", "import"}
  BY DEF CheckImport, At, Goto, Press, SmokeInv, WhileInImport, InImport, ScreenIsOfTheCase,
     Opened
<1>1. SmokeTypeOK'
  BY <1>a, <1>c DEF SmokeInv, SmokeTypeOK, Places, vars, CheckImport
<1>2. ScreenIsOfTheCase'
  BY <1>a, <1>c DEF SmokeInv
<1>3. BeforeReview'
  BY <1>c DEF BeforeReview
<1>4. WhileInReview'
  BY <1>c DEF WhileInReview, InReview
<1>5. WhileDeciding'
  BY <1>c DEF WhileDeciding
<1>6. WhileInImport'
  BY <1>c DEF WhileInImport, InImport
<1>7. WhileAnswered'
  <2>1. /\ Case.kind = "load_idl" /\ ~Case.manual /\ step = "import" /\ Steady(<<>>)
        /\ UNCHANGED <<step, cursor, answer>>
    BY <1>c DEF SmokeInv, WhileInImport, InImport, vars
  <2>2. cursor = Len(ImportPages) - 1
    BY <1>c DEF SmokeInv, WhileInImport
  <2> QED
    BY <1>a, <1>c, <2>1, <2>2 DEF WhileAnswered, AboutToAnswer, Steady
<1>8. LogIsPlanned'
  BY <1>c DEF SmokeInv, LogIsPlanned, Acted, DoneUpTo
<1>9. FaultsAreCleared'
  <2>1. Cleared(Case)
    BY <1>c DEF SmokeInv, WhileInImport, InImport, Cleared
  <2> QED
    BY <1>a, <1>c, <2>1 DEF SmokeInv, FaultsAreCleared, Cleared
<1>10. InStep'
  BY <1>a, <1>c DEF SmokeInv, InStep, vars
<1> QED
  BY <1>1, <1>2, <1>3, <1>4, <1>5, <1>6, <1>7, <1>8, <1>9, <1>10 DEF SmokeInv

LEMMA ImportFailsSteps ==
  ASSUME SmokeInv, CheckImport,
         ~(assert_load_idl_review_screens(seen) /\ screen_contains(current, "Import")),
         UNCHANGED <<prompt, fault>>
  PROVE  SmokeInv'
<1>a. /\ Keep /\ Screen' = Screen /\ Case' = Case /\ (ScreenIsOfTheCase => ScreenIsOfTheCase')
      /\ Opened' = Opened /\ AtRest' = AtRest /\ Read' = Read
      /\ Readable(sections)' = Readable(sections) /\ CanScrollDown' = CanScrollDown
      /\ \A screen : CanShow(screen) <=> CanShow(screen)'
  <2>1. Keep
    BY DEF CheckImport
  <2> QED
    BY <2>1, KeepIs DEF Keep
<1>b. /\ IsCase(Case) /\ Len(flow) \in Nat \ {0} /\ k \in 1..Len(flow)
      /\ fault \in Faults /\ imported \in BOOLEAN
  BY CaseNow DEF SmokeInv
<1>1. SmokeTypeOK'
  BY DEF SmokeInv, Goto, Keep, vars, appVars, CheckImport, SmokeTypeOK, Places, Case
<1>2. ScreenIsOfTheCase'
  BY <1>a DEF SmokeInv, CheckImport, ScreenIsOfTheCase
<1>3. BeforeReview'
  BY DEF Goto, CheckImport, BeforeReview
<1>4. WhileInReview'
  BY DEF Goto, CheckImport, WhileInReview, InReview
<1>5. WhileDeciding'
  BY DEF Goto, CheckImport, WhileDeciding
<1>6. WhileInImport'
  BY DEF Goto, CheckImport, WhileInImport, InImport
<1>7. WhileAnswered'
  BY DEF Goto, CheckImport, WhileAnswered
<1>8. LogIsPlanned'
  BY DEF SmokeInv, Goto, Keep, appVars, CheckImport, LogIsPlanned, DoneUpTo
<1>9. FaultsAreCleared'
  BY DEF SmokeInv, Goto, Keep, CheckImport, FaultsAreCleared, Cleared
<1>10. InStep'
  BY <1>a DEF SmokeInv, Goto, Keep, vars, CheckImport, InStep
<1> QED
  BY <1>1, <1>2, <1>3, <1>4, <1>5, <1>6, <1>7, <1>8, <1>9, <1>10 DEF SmokeInv

-----------------------------------------------------------------------------
(* The steps of the app.                                                   *)
LEMMA DrawSteps ==
  ASSUME SmokeInv, Draw,
         UNCHANGED <<prompt, fault>>
  PROVE  SmokeInv'
<1>a. /\ Case' = Case /\ (ScreenIsOfTheCase => ScreenIsOfTheCase')
      /\ Opened' = Opened /\ AtRest' = AtRest /\ Read' = Read
      /\ Readable(sections)' = Readable(sections) /\ CanScrollDown' = CanScrollDown
      /\ \A screen : CanShow(screen) <=> CanShow(screen)'
  <2>1. UNCHANGED <<vars, request, answer, cursor, presses, imported, log, flow, k>>
    BY DEF Draw, testVars
  <2> QED
    BY <2>1, SceneIs
<1>b. /\ IsCase(Case) /\ Len(flow) \in Nat \ {0} /\ k \in 1..Len(flow)
      /\ fault \in Faults /\ imported \in BOOLEAN
  BY CaseNow DEF SmokeInv
<1>c. /\ blank /\ ~blank' /\ blank' \in BOOLEAN /\ UNCHANGED <<vars, request, answer, cursor, presses, imported, log>>
      /\ UNCHANGED <<pc, home, current, seen, section, count, flow, k, prompt, fault>>
  BY DEF Draw, testVars
<1>1. SmokeTypeOK'
  BY <1>c DEF SmokeInv, vars, Draw, SmokeTypeOK, Case
<1>2. ScreenIsOfTheCase'
  BY <1>a DEF SmokeInv, Draw, ScreenIsOfTheCase
<1>3. BeforeReview'
  BY <1>a, <1>c DEF SmokeInv, vars, Draw, BeforeReview
<1>4. WhileInReview'
  BY <1>a, <1>c DEF SmokeInv, vars, Draw, WhileInReview, InReview, Pressed
<1>5. WhileDeciding'
  BY <1>a, <1>c DEF SmokeInv, vars, Draw, WhileDeciding
<1>6. WhileInImport'
  BY <1>a, <1>c DEF SmokeInv, vars, Draw, WhileInImport, InImport, Steady
<1>7. WhileAnswered'
  BY <1>a, <1>c DEF SmokeInv, vars, Draw, WhileAnswered, AboutToAnswer
<1>8. LogIsPlanned'
  BY <1>c DEF SmokeInv, Draw, LogIsPlanned, Acted, DoneUpTo
<1>9. FaultsAreCleared'
  BY <1>a, <1>c DEF SmokeInv, Draw, FaultsAreCleared, Cleared
<1>10. InStep'
  <2>1. \A pending : ~Steady(pending)
    BY <1>c DEF Steady
  <2> QED
    BY <1>a, <1>c, <2>1 DEF SmokeInv, InStep, vars, Lines
<1> QED
  BY <1>1, <1>2, <1>3, <1>4, <1>5, <1>6, <1>7, <1>8, <1>9, <1>10 DEF SmokeInv

LEMMA OpenReviewSteps ==
  ASSUME SmokeInv, TakesRequest, OpenReview,
         UNCHANGED <<prompt, fault>>
  PROVE  SmokeInv'
<1>b. /\ IsCase(Case) /\ Len(flow) \in Nat \ {0} /\ k \in 1..Len(flow)
      /\ fault \in Faults /\ imported \in BOOLEAN
  BY CaseNow DEF SmokeInv
<1>c. /\ ~Opened /\ presses = <<>> /\ ~blank /\ request = Case /\ answer = "none"
      /\ pc \in {"sample_home", "wait_review", "wait_refusal"}
      /\ UNCHANGED <<presses, imported, log, pc, home, current, seen, section, count, flow, k, prompt, fault>>
      /\ Case' = Case
  <2>1. request # NoCase
    BY DEF OpenReview, NoCase
  <2>2. /\ ~Opened /\ answer = "none" /\ request = Case /\ presses = <<>> /\ ~blank /\ ~Ended
    BY <2>1 DEF TakesRequest, AtHome, Opened, SmokeInv, SmokeTypeOK, ScreenIsOfTheCase
  <2>3. pc \in {"sample_home", "wait_review", "wait_refusal"}
    BY <2>1, <2>2 DEF SmokeInv, SmokeTypeOK, Places, BeforeReview, AtRest, WhileInReview,
       InReview, Opened,
                      WhileDeciding, WhileInImport, InImport, WhileAnswered, Ended
  <2> QED
    BY <2>2, <2>3 DEF TakesRequest, testVars, Case
<1>d. /\ Case.kind = "sign" /\ sections' = ReviewShown(Case.message)'
      /\ 1 \in 1..Len(sections') /\ 0 \in 0..Len(sections'[1])
      /\ section_index' = 1 /\ scroll_line' = 0 /\ step' = "review" /\ hurried' = FALSE
      /\ cursor' = 1 /\ blank' = TRUE /\ UNCHANGED <<answer, request>>
      /\ pc # "wait_refusal"
  <2>1. /\ Case.kind = "sign" /\ sections' = ReviewShown(Case.message)
        /\ section_index' = 1 /\ scroll_line' = 0 /\ step' = "review" /\ hurried' = FALSE
        /\ cursor' = 1 /\ blank' = TRUE /\ UNCHANGED <<answer, request>>
    BY <1>c DEF OpenReview, Redraw
  <2>2. ReviewShown(Case.message)' = ReviewShown(Case.message)
    BY <1>c DEF ReviewShown
  <2> DEFINE message == Case.message
  <2>3. message \in DOMAIN ReviewOf
    BY <1>b, <2>1 DEF IsCase
  <2> HIDE DEF message
  <2>4. /\ ReviewShown(message) \in Seq(Seq(STRING)) /\ Len(ReviewShown(message)) \in {1, 2}
    BY <1>b, <2>3, ReviewShownIs
  <2>5. sections' \in Seq(Seq(STRING)) /\ Len(sections') \in {1, 2}
    BY <2>1, <2>4 DEF message
  <2>6. Len(sections'[1]) \in Nat
    BY <2>5, ElementOfSeq, LenProperties
  <2>7. pc # "wait_refusal"
    BY <2>1 DEF SmokeInv, WhileAnswered
  <2> QED
    BY <2>1, <2>2, <2>5, <2>6, <2>7
<1>1. SmokeTypeOK'
  BY <1>c, <1>d DEF SmokeInv, SmokeTypeOK
<1>2. ScreenIsOfTheCase'
  BY <1>c, <1>d DEF ScreenIsOfTheCase, Lines
<1>3. BeforeReview'
  BY <1>c, <1>d DEF BeforeReview, Opened
<1>4. WhileInReview'
  BY <1>c DEF WhileInReview, InReview
<1>5. WhileDeciding'
  BY <1>c DEF WhileDeciding
<1>6. WhileInImport'
  BY <1>c DEF WhileInImport, InImport
<1>7. WhileAnswered'
  BY <1>c, <1>d DEF WhileAnswered
<1>8. LogIsPlanned'
  <2>1. ~Acted /\ ~Acted' /\ pc # "failed" /\ pc' # "failed"
    BY <1>c DEF Acted
  <2> QED
    BY <1>c, <2>1 DEF SmokeInv, LogIsPlanned, DoneUpTo
<1>9. FaultsAreCleared'
  BY <1>c DEF SmokeInv, FaultsAreCleared, Cleared
<1>10. InStep'
  BY <1>c, <1>d DEF InStep
<1> QED
  BY <1>1, <1>2, <1>3, <1>4, <1>5, <1>6, <1>7, <1>8, <1>9, <1>10 DEF SmokeInv

LEMMA OpenImportSteps ==
  ASSUME SmokeInv, TakesRequest, OpenImport,
         UNCHANGED <<prompt, fault>>
  PROVE  SmokeInv'
<1>b. /\ IsCase(Case) /\ Len(flow) \in Nat \ {0} /\ k \in 1..Len(flow)
      /\ fault \in Faults /\ imported \in BOOLEAN
  BY CaseNow DEF SmokeInv
<1>c. /\ ~Opened /\ presses = <<>> /\ ~blank /\ request = Case /\ answer = "none"
      /\ pc \in {"sample_home", "wait_review", "wait_refusal"}
      /\ UNCHANGED <<presses, imported, log, pc, home, current, seen, section, count, flow, k, prompt, fault>>
      /\ Case' = Case
  <2>1. request # NoCase
    BY DEF OpenImport, NoCase
  <2>2. /\ ~Opened /\ answer = "none" /\ request = Case /\ presses = <<>> /\ ~blank /\ ~Ended
    BY <2>1 DEF TakesRequest, AtHome, Opened, SmokeInv, SmokeTypeOK, ScreenIsOfTheCase
  <2>3. pc \in {"sample_home", "wait_review", "wait_refusal"}
    BY <2>1, <2>2 DEF SmokeInv, SmokeTypeOK, Places, BeforeReview, AtRest, WhileInReview,
       InReview, Opened,
                      WhileDeciding, WhileInImport, InImport, WhileAnswered, Ended
  <2> QED
    BY <2>2, <2>3 DEF TakesRequest, testVars, Case
<1>d. /\ Case.kind = "load_idl" \/ (Case.kind = "load_bad_idl" /\ fault = "trusts_any_idl")
      /\ step' = "import" /\ cursor' = 1 /\ blank' = TRUE /\ UNCHANGED <<answer, request, hurried>>
  BY <1>c DEF OpenImport, Redraw
<1>1. SmokeTypeOK'
  BY <1>c, <1>d DEF SmokeInv, SmokeTypeOK
<1>2. ScreenIsOfTheCase'
  BY <1>c, <1>d, SmokeAssumption DEF ScreenIsOfTheCase
<1>3. BeforeReview'
  BY <1>c, <1>d DEF SmokeInv, BeforeReview, Opened
<1>4. WhileInReview'
  BY <1>c DEF WhileInReview, InReview
<1>5. WhileDeciding'
  BY <1>c DEF WhileDeciding
<1>6. WhileInImport'
  BY <1>c DEF WhileInImport, InImport
<1>7. WhileAnswered'
  BY <1>c, <1>d DEF SmokeInv, WhileAnswered, Opened
<1>8. LogIsPlanned'
  <2>1. ~Acted /\ ~Acted' /\ pc # "failed" /\ pc' # "failed"
    BY <1>c DEF Acted
  <2> QED
    BY <1>c, <2>1 DEF SmokeInv, LogIsPlanned, DoneUpTo
<1>9. FaultsAreCleared'
  BY <1>c DEF SmokeInv, FaultsAreCleared, Cleared
<1>10. InStep'
  BY <1>d DEF InStep
<1> QED
  BY <1>1, <1>2, <1>3, <1>4, <1>5, <1>6, <1>7, <1>8, <1>9, <1>10 DEF SmokeInv

LEMMA RefuseImportSteps ==
  ASSUME SmokeInv, TakesRequest, RefuseImport,
         UNCHANGED <<prompt, fault>>
  PROVE  SmokeInv'
<1>b. /\ IsCase(Case) /\ Len(flow) \in Nat \ {0} /\ k \in 1..Len(flow)
      /\ fault \in Faults /\ imported \in BOOLEAN
  BY CaseNow DEF SmokeInv
<1>c. /\ ~Opened /\ presses = <<>> /\ ~blank /\ request = Case /\ answer = "none"
      /\ pc \in {"sample_home", "wait_review", "wait_refusal"}
      /\ UNCHANGED <<presses, imported, log, pc, home, current, seen, section, count, flow, k, prompt, fault>>
      /\ Case' = Case
  <2>1. request # NoCase
    BY DEF RefuseImport, NoCase
  <2>2. /\ ~Opened /\ answer = "none" /\ request = Case /\ presses = <<>> /\ ~blank /\ ~Ended
    BY <2>1 DEF TakesRequest, AtHome, Opened, SmokeInv, SmokeTypeOK, ScreenIsOfTheCase
  <2>3. pc \in {"sample_home", "wait_review", "wait_refusal"}
    BY <2>1, <2>2 DEF SmokeInv, SmokeTypeOK, Places, BeforeReview, AtRest, WhileInReview,
       InReview, Opened,
                      WhileDeciding, WhileInImport, InImport, WhileAnswered, Ended
  <2> QED
    BY <2>2, <2>3 DEF TakesRequest, testVars, Case
<1>d. /\ Case.kind = "load_bad_idl" /\ fault # "trusts_any_idl"
      /\ answer' = "refused" /\ request' = NoCase /\ UNCHANGED <<cursor, blank, hurried, step>>
      /\ Opened' = Opened /\ pc = "wait_refusal"
  <2>1. /\ Case.kind = "load_bad_idl" /\ fault # "trusts_any_idl"
        /\ answer' = "refused" /\ request' = NoCase /\ UNCHANGED <<cursor, blank, hurried, step>>
    BY <1>c DEF RefuseImport, vars
  <2>2. pc = "wait_refusal"
    BY <1>c, <2>1 DEF SmokeInv, BeforeReview
  <2> QED
    BY <2>1, <2>2 DEF Opened
<1>1. SmokeTypeOK'
  BY <1>c, <1>d DEF SmokeInv, SmokeTypeOK
<1>2. ScreenIsOfTheCase'
  BY <1>c, <1>d DEF ScreenIsOfTheCase, Opened
<1>3. BeforeReview'
  BY <1>c, <1>d DEF BeforeReview
<1>4. WhileInReview'
  BY <1>c DEF WhileInReview, InReview
<1>5. WhileDeciding'
  BY <1>c DEF WhileDeciding
<1>6. WhileInImport'
  BY <1>c DEF WhileInImport, InImport
<1>7. WhileAnswered'
  BY <1>c, <1>d DEF WhileAnswered
<1>8. LogIsPlanned'
  <2>1. ~Acted /\ ~Acted' /\ pc # "failed" /\ pc' # "failed"
    BY <1>c DEF Acted
  <2> QED
    BY <1>c, <2>1 DEF SmokeInv, LogIsPlanned, DoneUpTo
<1>9. FaultsAreCleared'
  BY <1>c DEF SmokeInv, FaultsAreCleared, Cleared
<1>10. InStep'
  BY <1>c, <1>d DEF InStep, Opened
<1> QED
  BY <1>1, <1>2, <1>3, <1>4, <1>5, <1>6, <1>7, <1>8, <1>9, <1>10 DEF SmokeInv

LEMMA SomebodyPressesSteps ==
  ASSUME SmokeInv, SomebodyPresses,
         UNCHANGED <<prompt, fault>>
  PROVE  SmokeInv'
<1>b. /\ IsCase(Case) /\ Len(flow) \in Nat \ {0} /\ k \in 1..Len(flow)
      /\ fault \in Faults /\ imported \in BOOLEAN
  BY CaseNow DEF SmokeInv
<1>c. /\ pc = "wait_result" /\ Case.manual /\ Opened /\ Opened' /\ Case' = Case
      /\ presses' \in Seq(Buttons) /\ Len(presses') <= 1 /\ ScreenIsOfTheCase'
      /\ UNCHANGED <<vars, request, answer, cursor, blank, imported, log, flow, k, home, prompt, fault>>
      /\ UNCHANGED <<pc, current, seen, section, count>>
  <2>1. PICK button \in Buttons : Press(button)
    BY DEF SomebodyPresses, Buttons
  <2>2. pc = "wait_result" /\ Case.manual /\ answer = "none" /\ presses = <<>> /\ UNCHANGED <<prompt, fault>>
    BY DEF SomebodyPresses, At
  <2>3. Opened
    BY <2>2 DEF SmokeInv, WhileAnswered
  <2>4. /\ Opened' = Opened /\ Case' = Case /\ ScreenIsOfTheCase' /\ presses' \in Seq(Buttons)
        /\ presses' = <<button>>
    BY <2>1, <2>2, <2>3, PressIs DEF SmokeInv
  <2>5. Len(presses') <= 1
    BY <2>4
  <2> QED
    BY <2>1, <2>2, <2>3, <2>4, <2>5 DEF SomebodyPresses, Press
<1>1. SmokeTypeOK'
  BY <1>c DEF SmokeInv, SmokeTypeOK, vars
<1>2. ScreenIsOfTheCase'
  BY <1>c
<1>3. BeforeReview'
  BY <1>c DEF BeforeReview
<1>4. WhileInReview'
  BY <1>c DEF WhileInReview, InReview
<1>5. WhileDeciding'
  BY <1>c DEF WhileDeciding
<1>6. WhileInImport'
  BY <1>c DEF WhileInImport, InImport
<1>7. WhileAnswered'
  BY <1>c DEF SmokeInv, WhileAnswered
<1>8. LogIsPlanned'
  BY <1>c DEF SmokeInv, LogIsPlanned, Acted, DoneUpTo
<1>9. FaultsAreCleared'
  BY <1>c DEF SmokeInv, FaultsAreCleared, Cleared
<1>10. InStep'
  BY <1>c DEF InStep
<1> QED
  BY <1>1, <1>2, <1>3, <1>4, <1>5, <1>6, <1>7, <1>8, <1>9, <1>10 DEF SmokeInv

-----------------------------------------------------------------------------
(* The app reads a button.                                                 *)
LEMMA PressesRead ==
  ASSUME SmokeTypeOK, presses # <<>>, presses' = Tail(presses)
  PROVE  /\ Head(presses) \in Buttons /\ presses' \in Seq(Buttons) /\ presses \in Seq(Buttons)
         /\ Both(presses)' \in Nat
         /\ Both(presses) = IF Head(presses) = "both" THEN Both(presses)' + 1 ELSE Both(presses)'
         /\ Len(presses) <= 1 => presses' = <<>>
         /\ Len(presses') <= 1 \/ Len(presses) > 1
         /\ presses = <<"right">> => Head(presses) = "right" /\ presses' = <<>>
         /\ presses = <<"left">> => Head(presses) = "left" /\ presses' = <<>>
         /\ presses = <<"both">> => Head(presses) = "both" /\ presses' = <<>>
         /\ presses = <<"right", "both">> => Head(presses) = "right" /\ presses' = <<"both">>
         /\ presses' # <<>> => presses'[Len(presses')] = presses[Len(presses)]
<1>1. presses \in Seq(Buttons)
  BY DEF SmokeTypeOK
<1>2. /\ Head(presses) \in Buttons /\ presses' \in Seq(Buttons)
      /\ Len(presses') = Len(presses) - 1 /\ Len(presses') \in Nat /\ Len(presses) \in Nat
      /\ \A i \in 1..Len(presses') : presses'[i] = presses[i + 1]
  BY <1>1, HeadTailProperties, LenProperties
<1>3. /\ Both(presses)' \in Nat
      /\ Both(presses) = IF Head(presses) = "both" THEN Both(presses)' + 1 ELSE Both(presses)'
  BY <1>1, BothOfRest
<1>4. Len(presses') = 0 => presses' = <<>>
  BY <1>2, EmptySeq
<1>5. presses = <<"right">> => Head(presses) = "right" /\ presses' = <<>>
  OBVIOUS
<1>6. presses = <<"left">> => Head(presses) = "left" /\ presses' = <<>>
  OBVIOUS
<1>7. presses = <<"both">> => Head(presses) = "both" /\ presses' = <<>>
  OBVIOUS
<1>8. presses = <<"right", "both">> => Head(presses) = "right" /\ presses' = <<"both">>
  OBVIOUS
<1>9. presses' # <<>> => presses'[Len(presses')] = presses[Len(presses)]
  <2>1. presses' # <<>> => Len(presses') \in 1..Len(presses')
    BY <1>2, <1>4
  <2> QED
    BY <1>2, <2>1
<1> QED
  BY <1>1, <1>2, <1>3, <1>4, <1>5, <1>6, <1>7, <1>8, <1>9

LEMMA ReviewReadsSteps ==
  ASSUME SmokeInv, ReadsButton, step = "review", ScrollerReads(Head(presses)),
         UNCHANGED <<prompt, fault>>
  PROVE  SmokeInv'
<1>a. /\ Head(presses) \in Buttons /\ presses' \in Seq(Buttons) /\ presses \in Seq(Buttons)
      /\ Both(presses)' \in Nat
      /\ Both(presses) = IF Head(presses) = "both" THEN Both(presses)' + 1 ELSE Both(presses)'
      /\ Len(presses) <= 1 => presses' = <<>>
      /\ presses = <<"right">> => Head(presses) = "right" /\ presses' = <<>>
      /\ presses = <<"left">> => Head(presses) = "left" /\ presses' = <<>>
      /\ presses = <<"both">> => Head(presses) = "both" /\ presses' = <<>>
      /\ presses = <<"right", "both">> => Head(presses) = "right" /\ presses' = <<"both">>
      /\ presses' # <<>> => presses'[Len(presses')] = presses[Len(presses)]
  BY PressesRead DEF ReadsButton, SmokeInv
<1>b. /\ IsCase(Case) /\ Len(flow) \in Nat \ {0} /\ k \in 1..Len(flow)
      /\ fault \in Faults /\ imported \in BOOLEAN
  BY CaseNow DEF SmokeInv
<1>c. /\ UNCHANGED <<pc, home, current, seen, section, count, flow, k, prompt, fault>> /\ Case' = Case
      /\ presses # <<>> /\ ~Ended /\ ~blank /\ blank' = TRUE
      /\ Opened /\ request = Case /\ answer = "none"
  BY DEF ReadsButton, Redraw, testVars, Case, SmokeInv, ScreenIsOfTheCase
<1>d. /\ UNCHANGED <<request, answer, cursor, imported, log, sections>>
      /\ sections \in Seq(Seq(STRING)) /\ Len(sections) \in {1, 2}
      /\ section_index \in 1..Len(sections) /\ Lines(section_index) \in Nat
      /\ scroll_line \in 0..Lines(section_index)
      /\ Case.kind = "sign" /\ cursor = 1
  <2>1. UNCHANGED sections
    BY DEF ScrollerReads, LeftButton, RightButton, BothButtons, Show, vars
  <2>2. UNCHANGED <<request, answer, cursor, imported, log>>
    BY DEF ScrollerReads
  <2>3. Case.kind = "sign" /\ cursor = 1
    BY DEF SmokeInv, ScreenIsOfTheCase
  <2> QED
    BY <2>1, <2>2, <2>3, SectionsNow DEF SmokeInv
<1>e. ASSUME Head(presses) # "both"
      PROVE  /\ step' = "review" /\ UNCHANGED <<section_index, hurried>>
             /\ scroll_line' \in 0..Lines(section_index)
             /\ Head(presses) = "right" =>
                  scroll_line' = IF CanScrollDown THEN scroll_line + 1 ELSE scroll_line
  <2>1. CASE Head(presses) = "left"
    BY <1>d, <2>1 DEF ScrollerReads, LeftButton, Show, CanScrollUp, vars
  <2>2. CASE Head(presses) = "right"
    BY <1>d, <2>2, ReviewAssumption DEF ScrollerReads, RightButton, Show, CanScrollDown, vars
  <2> QED
    BY <1>a, <1>e, <2>1, <2>2 DEF Buttons
<1>f. ASSUME Head(presses) = "both"
      PROVE  /\ hurried' = (hurried \/ CanScrollDown)
             /\ \/ /\ step' = "review" /\ section_index' = section_index + 1
                   /\ section_index + 1 <= Len(sections) /\ scroll_line' = 0
                \/ /\ step' = "ask" /\ section_index = Len(sections)
                   /\ UNCHANGED <<section_index, scroll_line>>
  <2>1. BothButtons
    BY <1>f DEF ScrollerReads
  <2> QED
    BY <1>d, <2>1 DEF BothButtons, Show, NextSection, FirstLine
<1>g. /\ step' \in {"review", "ask"} /\ hurried' \in BOOLEAN
      /\ section_index' \in 1..Len(sections) /\ scroll_line' \in 0..Len(sections[section_index'])
      /\ step' = "ask" => section_index' = Len(sections)
      /\ Read' = IF Head(presses) = "both" THEN Read + 1 ELSE Read
      /\ Read \in Nat
  <2>1. hurried \in BOOLEAN /\ CanScrollDown \in BOOLEAN
    BY DEF SmokeInv, SmokeTypeOK, CanScrollDown
  <2>2. CASE Head(presses) # "both"
    BY <1>d, <1>e, <2>1, <2>2 DEF Read, Lines
  <2>3. CASE Head(presses) = "both"
    <3>1. \A s \in 1..Len(sections) : Len(sections[s]) \in Nat
      BY SectionsNow
    <3>2. hurried' \in BOOLEAN
      BY <1>f, <2>3
    <3> QED
      BY <1>d, <1>f, <2>3, <3>1, <3>2 DEF Read, Lines
  <2> QED
    BY <2>2, <2>3
<1>h. pc \notin {"sample_home", "wait_review"}
  BY <1>c DEF SmokeInv, BeforeReview
<1>1. SmokeTypeOK'
  BY <1>a, <1>c, <1>d, <1>g DEF SmokeInv, SmokeTypeOK
<1>2. ScreenIsOfTheCase'
  <2>1. sections = ReviewShown(Case.message) /\ ReviewShown(Case.message)' = ReviewShown(Case.message)
    BY <1>c, <1>d DEF SmokeInv, ScreenIsOfTheCase, ReviewShown
  <2> QED
    BY <1>c, <1>d, <1>g, <2>1 DEF ScreenIsOfTheCase, Opened, Lines
<1>3. BeforeReview'
  BY <1>c, <1>h DEF SmokeInv, BeforeReview, AtRest
<1>4. WhileInReview'
  <2>1. SUFFICES ASSUME InReview PROVE WhileInReview'
    BY <1>c DEF WhileInReview, InReview
  <2>2. Read' + Both(presses)' = Read + Both(presses)
    BY <1>a, <1>g
  <2>3. \A screen \in seen' : CanShow(screen)'
    BY <1>c, <1>d, <2>1 DEF SmokeInv, WhileInReview, CanShow, Lines
  <2>4. /\ Case.kind = "sign" /\ ~Case.manual /\ section \in {1, 2}
        /\ pc = "wait_section" => section = 1
        /\ Read + Both(presses) = Pressed /\ Pressed <= Len(sections)
        /\ pc \in {"wait_sign", "check_sign"} =>
             /\ section = 2 /\ cursor = 1
             /\ presses # <<>> => presses[Len(presses)] = "both"
        /\ pc = "check_sign" => ~screen_contains_all(current, {"Cancel", "Sign"})
    BY <2>1 DEF SmokeInv, WhileInReview
  <2>5. Pressed' = Pressed
    BY <1>c DEF Pressed
  <2> QED
    BY <1>a, <1>c, <1>d, <1>g, <2>1, <2>2, <2>3, <2>4, <2>5 DEF WhileInReview
<1>5. WhileDeciding'
  BY <1>c DEF SmokeInv, WhileDeciding
<1>6. WhileInImport'
  BY <1>c DEF SmokeInv, WhileInImport, InImport
<1>7. WhileAnswered'
  <2>1. pc = "wait_result" => Case.manual /\ Len(presses) <= 1
    BY <1>c DEF SmokeInv, WhileAnswered, AboutToAnswer
  <2>2. Len(<<>>) <= 1
    OBVIOUS
  <2> QED
    BY <1>a, <1>c, <1>d, <1>g, <2>1, <2>2 DEF SmokeInv, WhileAnswered, AtRest, Opened
<1>8. LogIsPlanned'
  <2>1. ~Acted /\ ~Acted' /\ pc # "failed" /\ pc' # "failed"
    BY <1>c, <1>d DEF SmokeInv, WhileAnswered, AtRest, Acted, Ended
  <2> QED
    BY <1>c, <1>d, <2>1 DEF SmokeInv, LogIsPlanned, DoneUpTo
<1>9. FaultsAreCleared'
  BY <1>c DEF SmokeInv, FaultsAreCleared, Cleared
<1>10. InStep'
  <2>1. SUFFICES ASSUME prompt, ~Case.manual, Readable(sections) PROVE InStep'
    BY <1>c, <1>d DEF InStep, Readable
  <2>2. pc \in {"wait_scroll", "wait_section", "wait_sign"}
    <3>1. pc \notin {"choose", "confirm", "turn_page", "wait_page", "wait_back", "check_import"}
      BY DEF SmokeInv, WhileDeciding, WhileInImport, InImport
    <3>2. pc \notin {"launch", "spawn", "wait_home", "wait_refusal", "wait_result", "passed", "failed"}
      BY <1>c, <2>1 DEF SmokeInv, BeforeReview, WhileAnswered, AboutToAnswer, AtRest, Ended
    <3>3. pc \notin {"scroll", "end_section", "check_sign"}
      BY <1>c, <2>1 DEF SmokeInv, InStep, Steady
    <3> QED
      BY <1>h, <3>1, <3>2, <3>3 DEF SmokeInv, SmokeTypeOK, Places
  <2>3. ~hurried
    BY <2>1 DEF SmokeInv, InStep
  <2>4. CASE pc = "wait_scroll"
    <3>1. Steady(<<"right">>) /\ scroll_line = count - 1 /\ count \in Nat
      BY <1>c, <2>1, <2>4 DEF SmokeInv, InStep, SmokeTypeOK
    <3>2. /\ Head(presses) = "right" /\ presses' = <<>> /\ step' = "review" /\ ~hurried'
          /\ UNCHANGED section_index
          /\ scroll_line' = IF CanScrollDown THEN scroll_line + 1 ELSE scroll_line
      BY <1>a, <1>e, <2>3, <3>1 DEF Steady
    <3>3. current = WindowScreen(sections, section_index, scroll_line)
      BY <3>1, ScreenIs DEF Steady, SmokeInv
    <3>4. CASE CanScrollDown
      <4>1. /\ scroll_line' = count /\ count >= 1
            /\ count - 1 + VisibleLines < Lines(section_index)
        BY <1>d, <3>1, <3>2, <3>4 DEF CanScrollDown
      <4> QED
        BY <1>c, <1>d, <2>4, <3>1, <3>2, <3>3, <4>1 DEF InStep, Lines
    <3>5. CASE ~CanScrollDown
      <4>1. ~CanScrollDown'
        BY <1>d, <3>2, <3>5 DEF CanScrollDown, Lines
      <4> QED
        BY <1>c, <1>d, <2>4, <3>1, <3>2, <3>3, <3>5, <4>1 DEF InStep
    <3> QED
      BY <3>4, <3>5
  <2>5. CASE pc = "wait_section"
    <3>1. Steady(<<"both">>) /\ ~CanScrollDown
      BY <1>c, <2>1, <2>5 DEF SmokeInv, InStep
    <3>2. Head(presses) = "both" /\ presses' = <<>>
      BY <1>a, <3>1 DEF Steady
    <3> QED
      BY <1>c, <1>f, <2>3, <2>5, <3>1, <3>2 DEF InStep
  <2>6. CASE pc = "wait_sign"
    <3>1. Steady(<<"both">>) /\ ~CanScrollDown
      BY <1>c, <2>1, <2>6 DEF SmokeInv, InStep
    <3>2. Head(presses) = "both" /\ presses' = <<>>
      BY <1>a, <3>1 DEF Steady
    <3> QED
      BY <1>c, <1>f, <2>3, <2>6, <3>1, <3>2 DEF InStep
  <2> QED
    BY <2>2, <2>4, <2>5, <2>6
<1> QED
  BY <1>1, <1>2, <1>3, <1>4, <1>5, <1>6, <1>7, <1>8, <1>9, <1>10 DEF SmokeInv

LEMMA AskReadsSteps ==
  ASSUME SmokeInv, ReadsButton, step = "ask", ValidatorReads(Head(presses)),
         UNCHANGED <<prompt, fault>>
  PROVE  SmokeInv'
<1>a. /\ Head(presses) \in Buttons /\ presses' \in Seq(Buttons) /\ presses \in Seq(Buttons)
      /\ Both(presses)' \in Nat
      /\ Both(presses) = IF Head(presses) = "both" THEN Both(presses)' + 1 ELSE Both(presses)'
      /\ Len(presses) <= 1 => presses' = <<>>
      /\ presses = <<"right">> => Head(presses) = "right" /\ presses' = <<>>
      /\ presses = <<"left">> => Head(presses) = "left" /\ presses' = <<>>
      /\ presses = <<"both">> => Head(presses) = "both" /\ presses' = <<>>
      /\ presses = <<"right", "both">> => Head(presses) = "right" /\ presses' = <<"both">>
      /\ presses' # <<>> => presses'[Len(presses')] = presses[Len(presses)]
  BY PressesRead DEF ReadsButton, SmokeInv
<1>b. /\ IsCase(Case) /\ Len(flow) \in Nat \ {0} /\ k \in 1..Len(flow)
      /\ fault \in Faults /\ imported \in BOOLEAN
  BY CaseNow DEF SmokeInv
<1>c. /\ UNCHANGED <<pc, home, current, seen, section, count, flow, k, prompt, fault>> /\ Case' = Case
      /\ presses # <<>> /\ ~Ended /\ ~blank /\ blank' = TRUE
      /\ Opened /\ request = Case /\ answer = "none"
  BY DEF ReadsButton, Redraw, testVars, Case, SmokeInv, ScreenIsOfTheCase
<1>d. /\ UNCHANGED <<imported, sections, section_index, scroll_line, hurried>>
      /\ Case.kind = "sign" /\ cursor \in {1, 2} /\ cursor' \in {1, 2}
      /\ pc \in {"scroll", "wait_scroll", "end_section", "wait_section", "confirm", "wait_result"}
  <2>1. UNCHANGED <<imported, sections, section_index, scroll_line, hurried>> /\ cursor' \in {1, 2}
    BY DEF ValidatorReads, Answer, Decides, vars
  <2>2. Case.kind = "sign" /\ cursor \in {1, 2}
    BY DEF SmokeInv, ScreenIsOfTheCase
  <2>3. pc \notin {"wait_sign", "check_sign"}
    <3>1. SUFFICES ASSUME pc \in {"wait_sign", "check_sign"} PROVE FALSE
      OBVIOUS
    <3>2. /\ Read + Both(presses) <= Len(sections) /\ Read = Len(sections)
          /\ presses[Len(presses)] = "both"
      BY <1>c, <3>1 DEF SmokeInv, WhileInReview, InReview, Read
    <3>3. Len(sections) \in {1, 2} /\ Both(presses) \in Nat
      BY <1>a, SectionsNow DEF SmokeInv
    <3>4. Both(presses) = 0
      BY <3>2, <3>3
    <3> QED
      BY <1>a, <1>c, <3>2, <3>4, LastIsBoth
  <2>4. pc \notin {"choose", "turn_page", "wait_page", "wait_back", "check_import"}
    BY <1>c DEF SmokeInv, WhileDeciding, WhileInImport, InImport
  <2>5. pc \notin {"launch", "spawn", "sample_home", "wait_review", "wait_home", "wait_refusal", "passed", "failed"}
    BY <1>c DEF SmokeInv, BeforeReview, WhileAnswered, AtRest, Ended
  <2> QED
    BY <2>1, <2>2, <2>3, <2>4, <2>5 DEF SmokeInv, SmokeTypeOK, Places
<1>e. ASSUME Head(presses) # "both"
      PROVE  /\ UNCHANGED <<step, request, answer, log>>
             /\ Head(presses) = "right" => cursor' = 2
  BY <1>e DEF ValidatorReads, vars
<1>f. ASSUME Head(presses) = "both"
      PROVE  /\ pc = "wait_result" /\ request' = NoCase /\ presses' = <<>>
             /\ \/ /\ step' = "signed" /\ answer' = "signed"
                   /\ log' = Append(log, [done |-> "signed", by |-> request, decoded |-> imported])
                \/ step' = "rejected" /\ answer' = "denied" /\ UNCHANGED log
  <2>1. /\ request' = NoCase
        /\ \/ /\ step' = "signed" /\ answer' = "signed"
              /\ log' = Append(log, [done |-> "signed", by |-> request, decoded |-> imported])
           \/ step' = "rejected" /\ answer' = "denied" /\ UNCHANGED log
    BY <1>f DEF ValidatorReads, Answer, Decides
  <2>2. ~InReview
    <3>1. SUFFICES ASSUME InReview PROVE FALSE
      OBVIOUS
    <3>2. Read + Both(presses) <= Len(sections) /\ Read = Len(sections)
      BY <3>1 DEF SmokeInv, WhileInReview, Read
    <3>3. Len(sections) \in {1, 2} /\ Both(presses)' \in Nat /\ Both(presses) = Both(presses)' + 1
      BY <1>a, <1>f, SectionsNow DEF SmokeInv
    <3> QED
      BY <3>2, <3>3
  <2>3. pc # "confirm"
    BY <1>c, <1>f DEF SmokeInv, WhileDeciding
  <2>4. pc = "wait_result"
    BY <1>d, <2>2, <2>3 DEF InReview
  <2>5. presses' = <<>>
    <3>1. CASE Case.manual
      BY <1>a, <2>4, <3>1 DEF SmokeInv, WhileAnswered
    <3>2. CASE ~Case.manual
      BY <1>a, <1>c, <1>f, <2>4, <3>2 DEF SmokeInv, WhileAnswered, AboutToAnswer
    <3> QED
      BY <3>1, <3>2
  <2> QED
    BY <2>1, <2>4, <2>5
<1>1. SmokeTypeOK'
  <2>1. CASE Head(presses) # "both"
    BY <1>a, <1>c, <1>d, <1>e, <2>1 DEF SmokeInv, SmokeTypeOK
  <2>2. CASE Head(presses) = "both"
    BY <1>a, <1>c, <1>d, <1>f, <2>2 DEF SmokeInv, SmokeTypeOK
  <2> QED
    BY <2>1, <2>2
<1>2. ScreenIsOfTheCase'
  <2>1. CASE Head(presses) # "both"
    <3>1. sections = ReviewShown(Case.message) /\ ReviewShown(Case.message)' = ReviewShown(Case.message)
      BY <1>c, <1>d DEF SmokeInv, ScreenIsOfTheCase, ReviewShown
    <3> QED
      BY <1>c, <1>d, <1>e, <2>1, <3>1 DEF SmokeInv, ScreenIsOfTheCase, Opened, Lines
  <2>2. CASE Head(presses) = "both"
    BY <1>f, <2>2 DEF ScreenIsOfTheCase, Opened
  <2> QED
    BY <2>1, <2>2
<1>3. BeforeReview'
  BY <1>c, <1>d DEF BeforeReview
<1>4. WhileInReview'
  <2>1. SUFFICES ASSUME InReview PROVE WhileInReview'
    BY <1>c DEF WhileInReview, InReview
  <2>2. Head(presses) # "both" /\ UNCHANGED step
    BY <1>e, <1>f, <2>1 DEF InReview
  <2>3. Read' = Read /\ Pressed' = Pressed /\ Both(presses)' = Both(presses)
    BY <1>a, <1>c, <1>d, <2>2 DEF Read, Pressed
  <2>4. \A screen \in seen' : CanShow(screen)'
    BY <1>c, <1>d, <2>1 DEF SmokeInv, WhileInReview, CanShow, Lines
  <2> QED
    BY <1>c, <1>d, <2>1, <2>2, <2>3, <2>4 DEF SmokeInv, WhileInReview
<1>5. WhileDeciding'
  <2>1. SUFFICES ASSUME pc = "confirm" PROVE WhileDeciding'
    BY <1>c, <1>d DEF WhileDeciding
  <2>2. Head(presses) = "right" /\ presses' = <<>> /\ ~Case.manual
    BY <1>a, <1>c, <2>1 DEF SmokeInv, WhileDeciding
  <2> QED
    BY <1>c, <1>d, <1>e, <2>1, <2>2 DEF WhileDeciding
<1>6. WhileInImport'
  BY <1>c, <1>d DEF WhileInImport, InImport
<1>7. WhileAnswered'
  <2>1. SUFFICES ASSUME pc = "wait_result" PROVE WhileAnswered'
    BY <1>c, <1>d DEF WhileAnswered
  <2>2. Len(<<>>) <= 1
    OBVIOUS
  <2>3. CASE Head(presses) = "both"
    BY <1>c, <1>d, <1>f, <2>1, <2>2, <2>3 DEF WhileAnswered, Opened
  <2>4. CASE Head(presses) # "both"
    <3>1. Case.manual => Len(presses') <= 1
      BY <1>a, <2>1, <2>2 DEF SmokeInv, WhileAnswered
    <3>2. ~Case.manual => presses' = <<"both">> /\ cursor' = 2 /\ step' = "ask"
      BY <1>a, <1>c, <1>e, <2>1, <2>4 DEF SmokeInv, WhileAnswered, AboutToAnswer
    <3> QED
      BY <1>c, <1>d, <1>e, <2>1, <2>4, <3>1, <3>2 DEF WhileAnswered, AboutToAnswer, Opened
  <2> QED
    BY <2>3, <2>4
<1>8. LogIsPlanned'
  <2>1. DoneUpTo(k - 1) /\ pc # "failed"
    BY <1>c, <1>d DEF SmokeInv, LogIsPlanned, Acted
  <2>2. CASE Head(presses) = "both" /\ step' = "signed"
    <3>1. pc = "wait_result" /\ answer' = "signed"
      BY <1>f, <2>2
    <3>2. log' = Append(log, [done |-> "signed", by |-> request, decoded |-> imported])
      BY <1>f, <2>2
    <3>3. [done |-> "signed", by |-> request, decoded |-> imported] = ShouldDo(flow, k)
      BY <1>c, <1>d, <2>1 DEF ShouldDo, DoneUpTo, Case
    <3>4. PlanOf(flow)[k] = Append(PlanOf(flow)[k - 1], ShouldDo(flow, k))
      BY PlanIs
    <3>5. log' = PlanOf(flow)[k]
      BY <2>1, <3>2, <3>3, <3>4 DEF DoneUpTo
    <3>6. imported = (\E j \in 1..k : flow[j].kind = "load_idl")
      BY <1>b, <1>d, <2>1 DEF DoneUpTo, Case
    <3>7. Acted' /\ pc' # "failed"
      BY <1>c, <3>1 DEF Acted
    <3>8. DoneUpTo(k)'
      BY <1>c, <1>d, <3>5, <3>6 DEF DoneUpTo
    <3> QED
      BY <3>7, <3>8 DEF LogIsPlanned
  <2>3. CASE ~(Head(presses) = "both" /\ step' = "signed")
    <3>1. UNCHANGED log /\ answer' \in {"none", "denied"}
      BY <1>c, <1>e, <1>f, <2>3
    <3>2. ~Acted' /\ pc' # "failed"
      BY <1>c, <1>d, <3>1 DEF Acted
    <3> QED
      BY <1>c, <1>d, <2>1, <3>1, <3>2 DEF LogIsPlanned, DoneUpTo
  <2> QED
    BY <2>2, <2>3
<1>9. FaultsAreCleared'
  BY <1>c DEF SmokeInv, FaultsAreCleared, Cleared
<1>10. InStep'
  <2>1. step' # "review"
    BY <1>e, <1>f
  <2> QED
    BY <1>c, <1>d, <2>1 DEF SmokeInv, InStep, Readable
<1> QED
  BY <1>1, <1>2, <1>3, <1>4, <1>5, <1>6, <1>7, <1>8, <1>9, <1>10 DEF SmokeInv

LEMMA PageReadsSteps ==
  ASSUME SmokeInv, ReadsButton, step = "import", ImportReads(Head(presses)),
         UNCHANGED <<prompt, fault>>
  PROVE  SmokeInv'
<1>a. /\ Head(presses) \in Buttons /\ presses' \in Seq(Buttons) /\ presses \in Seq(Buttons)
      /\ Both(presses)' \in Nat
      /\ Both(presses) = IF Head(presses) = "both" THEN Both(presses)' + 1 ELSE Both(presses)'
      /\ Len(presses) <= 1 => presses' = <<>>
      /\ presses = <<"right">> => Head(presses) = "right" /\ presses' = <<>>
      /\ presses = <<"left">> => Head(presses) = "left" /\ presses' = <<>>
      /\ presses = <<"both">> => Head(presses) = "both" /\ presses' = <<>>
      /\ presses = <<"right", "both">> => Head(presses) = "right" /\ presses' = <<"both">>
      /\ presses' # <<>> => presses'[Len(presses')] = presses[Len(presses)]
  BY PressesRead DEF ReadsButton, SmokeInv
<1>b. /\ IsCase(Case) /\ Len(flow) \in Nat \ {0} /\ k \in 1..Len(flow)
      /\ fault \in Faults /\ imported \in BOOLEAN
  BY CaseNow DEF SmokeInv
<1>c. /\ UNCHANGED <<pc, home, current, seen, section, count, flow, k, prompt, fault>> /\ Case' = Case
      /\ presses # <<>> /\ ~Ended /\ ~blank /\ blank' = TRUE
      /\ Opened /\ request = Case /\ answer = "none"
  BY DEF ReadsButton, Redraw, testVars, Case, SmokeInv, ScreenIsOfTheCase
<1>d. /\ UNCHANGED <<sections, section_index, scroll_line, hurried>>
      /\ Case.kind \in {"load_idl", "load_bad_idl"}
      /\ pc \in {"wait_page", "wait_back", "wait_result"} /\ Case.kind = "load_idl"
      /\ cursor \in 1..Len(ImportPages)
  <2>1. UNCHANGED <<sections, section_index, scroll_line, hurried>>
    BY DEF ImportReads
  <2>2. Case.kind \in {"load_idl", "load_bad_idl"} /\ cursor \in 1..Len(ImportPages)
    BY DEF SmokeInv, ScreenIsOfTheCase
  <2>3. pc \notin {"choose", "confirm", "turn_page", "check_import"} /\ ~InReview
    BY <1>c DEF SmokeInv, WhileDeciding, WhileInImport, WhileInReview, Steady
  <2>4. pc \notin {"launch", "spawn", "sample_home", "wait_review", "wait_home", "wait_refusal", "passed", "failed"}
    BY <1>c DEF SmokeInv, BeforeReview, WhileAnswered, AtRest, Ended
  <2>5. pc \in {"wait_page", "wait_back", "wait_result"}
    BY <2>3, <2>4 DEF SmokeInv, SmokeTypeOK, Places, InReview
  <2>6. Case.kind = "load_idl"
    BY <2>2, <2>5 DEF SmokeInv, WhileInImport, InImport, WhileAnswered
  <2> QED
    BY <2>1, <2>2, <2>5, <2>6
<1>e. \/ /\ step' = "import" /\ cursor' \in 1..Len(ImportPages)
         /\ UNCHANGED <<request, answer, imported, log>>
         /\ Head(presses) # "both" \/ cursor < Len(ImportPages) - 1
      \/ /\ step' = "home" /\ imported' = TRUE /\ answer' = "imported" /\ request' = NoCase
         /\ cursor' = 1 /\ Head(presses) = "both"
         /\ log' = Append(log, [done |-> "imported", by |-> request, decoded |-> imported])
      \/ /\ step' = "home" /\ answer' = "denied" /\ request' = NoCase /\ cursor' = 1
         /\ UNCHANGED <<imported, log>> /\ Head(presses) = "both"
  <2>1. Len(ImportPages) \in Nat
    BY SmokeAssumption
  <2>2. CASE Head(presses) = "both"
    BY <1>d, <2>1, <2>2 DEF ImportReads, Decides
  <2>3. CASE Head(presses) # "both"
    <3>1. /\ UNCHANGED <<step, request, answer, imported, log>>
          /\ cursor' = IF Head(presses) = "right"
                       THEN IF cursor < Len(ImportPages) THEN cursor + 1 ELSE cursor
                       ELSE IF cursor > 1 THEN cursor - 1 ELSE cursor
      BY <2>3 DEF ImportReads
    <3> QED
      BY <1>d, <2>1, <2>3, <3>1
  <2> QED
    BY <2>2, <2>3
<1>f. step' = "home" => pc = "wait_result" /\ presses' = <<>>
  <2>1. SUFFICES ASSUME Head(presses) = "both" PROVE pc = "wait_result" /\ presses' = <<>>
    BY <1>e
  <2>2. pc \notin {"wait_page", "wait_back"}
    BY <1>c, <2>1 DEF SmokeInv, WhileInImport, Steady
  <2>3. pc = "wait_result"
    BY <1>d, <2>2
  <2>4. CASE Case.manual
    BY <1>a, <2>3, <2>4 DEF SmokeInv, WhileAnswered
  <2>5. CASE ~Case.manual
    BY <1>a, <1>c, <2>3, <2>5 DEF SmokeInv, WhileAnswered, AboutToAnswer
  <2> QED
    BY <2>3, <2>4, <2>5
<1>1. SmokeTypeOK'
  <2>1. /\ cursor' \in Nat /\ imported' \in BOOLEAN
        /\ step' \in {"import", "home"} /\ answer' \in {"none", "imported", "denied"}
        /\ request' \in {NoCase, Case}
    <3>1. Len(ImportPages) \in Nat
      BY SmokeAssumption
    <3>2. cursor' \in Nat
      BY <1>e, <3>1
    <3>3. imported' \in BOOLEAN
      BY <1>b, <1>e
    <3>4. /\ step' \in {"import", "home"} /\ answer' \in {"none", "imported", "denied"}
          /\ request' \in {NoCase, Case}
      BY <1>c, <1>e
    <3> QED
      BY <3>2, <3>3, <3>4
  <2> QED
    BY <1>a, <1>c, <1>d, <2>1 DEF SmokeInv, SmokeTypeOK
<1>2. ScreenIsOfTheCase'
  <2>1. CASE step' = "home"
    BY <1>e, <1>f, <2>1 DEF ScreenIsOfTheCase, Opened
  <2>2. CASE step' # "home"
    BY <1>c, <1>d, <1>e, <2>2 DEF ScreenIsOfTheCase, Opened
  <2> QED
    BY <2>1, <2>2
<1>3. BeforeReview'
  BY <1>c, <1>d DEF BeforeReview
<1>4. WhileInReview'
  BY <1>c, <1>d DEF WhileInReview, InReview
<1>5. WhileDeciding'
  BY <1>c, <1>d DEF WhileDeciding
<1>6. WhileInImport'
  <2>1. SUFFICES ASSUME pc \in {"wait_page", "wait_back"} PROVE WhileInImport'
    BY <1>c, <1>d DEF WhileInImport, InImport
  <2>2. presses' = <<>> /\ ~Case.manual
    BY <1>a, <2>1 DEF SmokeInv, WhileInImport, InImport, Steady
  <2>3. step' = "import"
    BY <1>e, <1>f, <2>1
  <2>4. ASSUME pc = "wait_back" PROVE cursor' = Len(ImportPages) - 1
    <3>1. presses = <<"left">> /\ cursor = Len(ImportPages)
      BY <1>c, <2>4 DEF SmokeInv, WhileInImport, Steady
    <3>2. Head(presses) = "left"
      BY <1>a, <3>1
    <3>3. cursor' = IF cursor > 1 THEN cursor - 1 ELSE cursor
      BY <3>2 DEF ImportReads
    <3> QED
      BY <3>1, <3>3, SmokeAssumption
  <2> QED
    BY <1>c, <1>d, <2>1, <2>2, <2>3, <2>4 DEF WhileInImport
<1>7. WhileAnswered'
  <2>1. SUFFICES ASSUME pc = "wait_result" PROVE WhileAnswered'
    BY <1>c, <1>d DEF WhileAnswered
  <2>2. Len(<<>>) <= 1
    OBVIOUS
  <2>3. CASE step' = "home"
    BY <1>c, <1>d, <1>e, <1>f, <2>1, <2>2, <2>3 DEF WhileAnswered, Opened
  <2>4. CASE step' # "home"
    <3>1. Case.manual => Len(presses') <= 1
      BY <1>a, <2>1, <2>2 DEF SmokeInv, WhileAnswered
    <3>2. Head(presses) # "both" \/ cursor < Len(ImportPages) - 1
      BY <1>e, <2>4
    <3>3. Case.manual
      BY <1>c, <2>1, <3>2, SmokeAssumption DEF SmokeInv, WhileAnswered, AboutToAnswer
    <3>4. step' = "import" /\ UNCHANGED answer
      BY <1>e, <2>4
    <3> QED
      BY <1>c, <1>d, <2>1, <3>1, <3>3, <3>4 DEF WhileAnswered, Opened
  <2> QED
    BY <2>3, <2>4
<1>8. LogIsPlanned'
  <2>1. DoneUpTo(k - 1) /\ pc # "failed"
    BY <1>c, <1>d DEF SmokeInv, LogIsPlanned, Acted
  <2>2. CASE answer' = "imported"
    <3>1. pc = "wait_result" /\ imported' = TRUE
      BY <1>c, <1>e, <1>f, <2>2
    <3>2. log' = Append(log, [done |-> "imported", by |-> request, decoded |-> imported])
      BY <1>c, <1>e, <2>2
    <3>3. [done |-> "imported", by |-> request, decoded |-> imported] = ShouldDo(flow, k)
      BY <1>c, <1>d, <2>1 DEF ShouldDo, DoneUpTo, Case
    <3>4. PlanOf(flow)[k] = Append(PlanOf(flow)[k - 1], ShouldDo(flow, k))
      BY PlanIs
    <3>5. log' = PlanOf(flow)[k]
      BY <2>1, <3>2, <3>3, <3>4 DEF DoneUpTo
    <3>6. TRUE = (\E j \in 1..k : flow[j].kind = "load_idl")
      BY <1>b, <1>d DEF Case
    <3>7. Acted' /\ pc' # "failed"
      BY <1>c, <2>2, <3>1 DEF Acted
    <3>8. DoneUpTo(k)'
      BY <1>c, <3>1, <3>5, <3>6 DEF DoneUpTo
    <3> QED
      BY <3>7, <3>8 DEF LogIsPlanned
  <2>3. CASE answer' # "imported"
    <3>1. UNCHANGED <<log, imported>> /\ answer' \in {"none", "denied"}
      BY <1>c, <1>e, <2>3
    <3>2. ~Acted' /\ pc' # "failed"
      BY <1>c, <1>d, <3>1 DEF Acted
    <3> QED
      BY <1>c, <2>1, <3>1, <3>2 DEF LogIsPlanned, DoneUpTo
  <2> QED
    BY <2>2, <2>3
<1>9. FaultsAreCleared'
  BY <1>c DEF SmokeInv, FaultsAreCleared, Cleared
<1>10. InStep'
  <2>1. step' \notin {"review", "ask"}
    BY <1>e
  <2> QED
    BY <2>1 DEF InStep
<1> QED
  BY <1>1, <1>2, <1>3, <1>4, <1>5, <1>6, <1>7, <1>8, <1>9, <1>10 DEF SmokeInv

-----------------------------------------------------------------------------
(* The theorems.                                                           *)
LEMMA StutterSteps ==
  ASSUME SmokeInv, UNCHANGED smokeVars
  PROVE  SmokeInv'
<1>a. /\ Case' = Case /\ (ScreenIsOfTheCase => ScreenIsOfTheCase') /\ Screen' = Screen
      /\ Opened' = Opened /\ AtRest' = AtRest /\ Read' = Read
      /\ Readable(sections)' = Readable(sections) /\ CanScrollDown' = CanScrollDown
      /\ \A screen : CanShow(screen) <=> CanShow(screen)'
  BY SceneIs, ScreenSame DEF smokeVars, appVars, testVars
<1>b. /\ UNCHANGED vars /\ UNCHANGED <<request, answer, cursor, blank, presses, imported, log>>
      /\ UNCHANGED <<flow, k, pc, home, current, seen, section, count, prompt, fault>>
  BY DEF smokeVars, appVars, testVars
<1>1. SmokeTypeOK'
  BY <1>a, <1>b DEF SmokeInv, SmokeTypeOK, vars
<1>2. ScreenIsOfTheCase'
  BY <1>a DEF SmokeInv
<1>3. BeforeReview'
  BY <1>a, <1>b DEF SmokeInv, BeforeReview, vars
<1>4. WhileInReview'
  BY <1>a, <1>b DEF SmokeInv, WhileInReview, InReview, Pressed, vars
<1>5. WhileDeciding'
  BY <1>a, <1>b DEF SmokeInv, WhileDeciding, vars
<1>6. WhileInImport'
  BY <1>a, <1>b DEF SmokeInv, WhileInImport, InImport, Steady, vars
<1>7. WhileAnswered'
  BY <1>a, <1>b DEF SmokeInv, WhileAnswered, AboutToAnswer, vars
<1>8. LogIsPlanned'
  BY <1>b DEF SmokeInv, LogIsPlanned, Acted, DoneUpTo
<1>9. FaultsAreCleared'
  BY <1>a, <1>b DEF SmokeInv, FaultsAreCleared, Cleared
<1>10. InStep'
  BY <1>a, <1>b DEF SmokeInv, InStep, Steady, vars, Lines
<1> QED
  BY <1>1, <1>2, <1>3, <1>4, <1>5, <1>6, <1>7, <1>8, <1>9, <1>10 DEF SmokeInv

LEMMA TestSteps ==
  ASSUME SmokeInv, Test
  PROVE  SmokeInv'
<1> UNCHANGED <<prompt, fault>>
  BY DEF Test
<1>1. CASE Launch
  BY <1>1, LaunchSteps
<1>2. CASE Spawn
  BY <1>2, SpawnSteps
<1>3. CASE SampleHome
  BY <1>3, SampleHomeSteps
<1>4. CASE WaitReview
  BY <1>4, WaitReviewSteps
<1>5. CASE WaitScroll
  BY <1>5, WaitScrollSteps
<1>6. CASE WaitSection
  BY <1>6, WaitSectionSteps
<1>7. CASE WaitSign
  BY <1>7, WaitSignSteps
<1>8. CASE CheckSign
  BY <1>8, CheckSignSteps
<1>9. CASE Choose
  BY <1>9, ChooseSteps
<1>10. CASE Confirm
  BY <1>10, ConfirmSteps
<1>11. CASE WaitPage
  BY <1>11, WaitPageSteps
<1>12. CASE WaitBack
  BY <1>12, WaitBackSteps
<1>13. CASE WaitResult
  BY <1>13, WaitResultSteps
<1>14. CASE WaitHome
  BY <1>14, WaitHomeSteps
<1>15. CASE WaitRefusal
  BY <1>15, WaitRefusalSteps
<1>16. CASE Scroll
  BY <1>16, ScrollPressSteps, ScrollEndSteps
<1>17. CASE EndSection
  <2>1. section < 2 \/ (section = 2 /\ CollectedEnough(seen))
        \/ (~(section < 2) /\ ~CollectedEnough(seen))
    BY <1>17 DEF EndSection
  <2> QED
    BY <1>17, <2>1, EndFirstSectionSteps, EndLastSectionSteps, EndFailsSteps
<1>18. CASE TurnPage
  BY <1>18, TurnBackSteps, TurnOnSteps, TurnFailsSteps
<1>19. CASE CheckImport
  BY <1>19, ImportPressSteps, ImportFailsSteps
<1> QED
  BY <1>1, <1>2, <1>3, <1>4, <1>5, <1>6, <1>7, <1>8, <1>9, <1>10, <1>11, <1>12, <1>13, <1>14,
     <1>15, <1>16, <1>17, <1>18, <1>19 DEF Test

LEMMA AppSteps ==
  ASSUME SmokeInv, App
  PROVE  SmokeInv'
<1> UNCHANGED <<prompt, fault>>
  BY DEF App
<1>1. CASE Draw
  BY <1>1, DrawSteps
<1>2. CASE TakesRequest
  <2>1. OpenReview \/ OpenImport \/ RefuseImport
    BY <1>2 DEF TakesRequest
  <2> QED
    BY <1>2, <2>1, OpenReviewSteps, OpenImportSteps, RefuseImportSteps
<1>3. CASE ReadsButton
  <2>1. step = "review" /\ ScrollerReads(Head(presses)) => SmokeInv'
    BY <1>3, ReviewReadsSteps
  <2>2. step = "ask" /\ ValidatorReads(Head(presses)) => SmokeInv'
    BY <1>3, AskReadsSteps
  <2>3. step = "import" /\ ImportReads(Head(presses)) => SmokeInv'
    BY <1>3, PageReadsSteps
  <2>4. ~AtHome
    BY <1>3 DEF ReadsButton, AtHome, SmokeInv, ScreenIsOfTheCase, Opened
  <2>5. \/ step = "review" /\ ScrollerReads(Head(presses))
        \/ step = "ask" /\ ValidatorReads(Head(presses))
        \/ step = "import" /\ ImportReads(Head(presses))
    BY <1>3, <2>4 DEF ReadsButton, ScrollerReads, ValidatorReads, ImportReads
  <2> QED
    BY <2>1, <2>2, <2>3, <2>5
<1> QED
  BY <1>1, <1>2, <1>3 DEF App

LEMMA InitSmokeInv == SmokeInit => SmokeInv
<1> SUFFICES ASSUME SmokeInit PROVE SmokeInv
  OBVIOUS
<1>1. /\ sections = <<>> /\ step = "home" /\ hurried = FALSE
      /\ request = NoCase /\ answer = "none" /\ cursor = 1
      /\ blank = TRUE /\ presses = <<>> /\ imported = FALSE /\ log = <<>>
      /\ flow \in Flows /\ k = 1 /\ pc = "launch" /\ section = 1 /\ count = 0
      /\ prompt \in BOOLEAN /\ fault \in Faults
  BY DEF SmokeInit
<1>2. Len(flow) \in Nat \ {0}
  BY <1>1, FlowIs
<1>3. SmokeTypeOK
  <2>1. presses \in Seq(Buttons)
    BY <1>1
  <2>2. k \in 1..Len(flow)
    BY <1>1, <1>2
  <2> QED
    BY <1>1, <2>1, <2>2 DEF SmokeTypeOK, Places
<1>4. ScreenIsOfTheCase
  BY <1>1 DEF ScreenIsOfTheCase, Opened
<1>5. BeforeReview
  BY <1>1 DEF BeforeReview, AtRest, Opened
<1>6. WhileInReview /\ WhileDeciding /\ WhileInImport /\ WhileAnswered
  BY <1>1 DEF WhileInReview, InReview, WhileDeciding, WhileInImport, InImport, WhileAnswered
<1>7. LogIsPlanned
  <2>1. PlanOf(flow)[0] = <<>>
    BY <1>2, PlanIs
  <2>2. k - 1 = 0
    BY <1>1
  <2>3. DoneUpTo(0)
    <3>1. ~(\E j \in 1..0 : flow[j].kind = "load_idl")
      OBVIOUS
    <3>2. log = PlanOf(flow)[0] /\ imported = FALSE
      BY <1>1, <2>1
    <3> QED
      BY <3>1, <3>2 DEF DoneUpTo
  <2>4. DoneUpTo(k - 1) /\ ~Acted /\ pc # "failed"
    BY <1>1, <2>2, <2>3 DEF Acted
  <2> QED
    BY <2>4 DEF LogIsPlanned
<1>8. FaultsAreCleared
  BY <1>1 DEF FaultsAreCleared
<1>9. InStep
  BY <1>1 DEF InStep
<1> QED
  BY <1>3, <1>4, <1>5, <1>6, <1>7, <1>8, <1>9 DEF SmokeInv

(* Whatever the emulator and the app under test do, the presses of the     *)
(* main thread and the answers of the blocked thread stay those of the     *)
(* case under way: the inductive invariant.                                *)
THEOREM SmokeInvariance == SmokeSpec => []SmokeInv
<1>1. SmokeInit => SmokeInv
  BY InitSmokeInv
<1>2. SmokeInv /\ [SmokeNext]_smokeVars => SmokeInv'
  <2> SUFFICES ASSUME SmokeInv, [SmokeNext]_smokeVars PROVE SmokeInv'
    OBVIOUS
  <2>1. CASE App
    BY <2>1, AppSteps
  <2>2. CASE Test
    BY <2>2, TestSteps
  <2>3. CASE SomebodyPresses
    BY <2>3, SomebodyPressesSteps DEF SomebodyPresses
  <2>4. CASE UNCHANGED smokeVars
    BY <2>4, StutterSteps
  <2> QED
    BY <2>1, <2>2, <2>3, <2>4 DEF SmokeNext
<1> QED
  BY <1>1, <1>2, PTL DEF SmokeSpec

(* A press is never left for the home menu, and the app signs and imports  *)
(* what the cases before ask for, in their order.                          *)
LEMMA InvDoesWhatWasTested ==
  ASSUME SmokeInv
  PROVE  AppDidWhatWasTested
<1>1. Len(flow) \in Nat \ {0} /\ k \in 1..Len(flow)
  BY CaseNow DEF SmokeInv
<1>2. NoPressAtHome
  BY DEF NoPressAtHome, SmokeInv, ScreenIsOfTheCase, Opened
<1>3. IsPrefix(log, Planned)
  <2>1. PICK n \in {k - 1, k} : log = PlanOf(flow)[n]
    BY DEF SmokeInv, LogIsPlanned, DoneUpTo
  <2>2. n \in 0..Len(flow) /\ Len(flow) \in Nat
    BY <1>1
  <2> QED
    BY <2>1, <2>2, PlanGrows DEF Planned
<1>4. pc = "passed" => log = Planned
  BY DEF SmokeInv, LogIsPlanned, Acted, DoneUpTo, WhileAnswered, Planned
<1> QED
  BY <1>2, <1>3, <1>4 DEF AppDidWhatWasTested

(* Every case of a run that passed was cleared of the fault it is there    *)
(* to find.                                                                *)
LEMMA InvFindsFaults ==
  ASSUME SmokeInv
  PROVE  FaultIsFound
<1> SUFFICES ASSUME pc = "passed", \A i \in DOMAIN flow : ~flow[i].manual,
                    NEW bad \in DOMAIN flow, flow[bad].kind = "load_bad_idl"
             PROVE  fault = "none"
  BY DEF FaultIsFound
<1>1. /\ flow \in Flows /\ k = Len(flow) /\ Len(flow) \in Nat \ {0} /\ DOMAIN flow = 1..Len(flow)
      /\ fault \in Faults
  BY FlowIs DEF SmokeInv, SmokeTypeOK, WhileAnswered
<1>2. \A i \in 1..Len(flow) : Cleared(flow[i])
  <2>1. Cleared(flow[k]) /\ \A i \in 1..(k - 1) : Cleared(flow[i])
    BY DEF SmokeInv, FaultsAreCleared, Case
  <2> QED
    BY <1>1, <2>1
<1>3. flow # run_review_load_idl
  BY <1>1, ReviewFlowIs
<1>4. PICK names \in Selected, manual \in BOOLEAN, manual_load \in BOOLEAN :
             flow = run_speculos_smoke(names, manual, manual_load)
  BY <1>1, <1>3 DEF Flows
<1>5. PICK i \in 1..Len(flow), j \in 1..Len(flow) :
             /\ flow[i] = build_imported_sample_case(FALSE, manual)
             /\ flow[j] = build_imported_sample_case(TRUE, manual)
  <2>1. HasBothSamples(flow, manual)
    BY <1>4, SmokeFlowIs
  <2> QED
    BY <2>1 DEF HasBothSamples
<1>6. fault # "trusts_any_idl"
  BY <1>1, <1>2 DEF Cleared
<1>7. fault # "hides_hash" /\ fault # "always_decodes"
  <2>1. /\ flow[i].kind = "sign" /\ flow[i].message = "sample" /\ ~flow[i].manual
        /\ ExpectedScreens["sample_generic"] \subseteq flow[i].expected
    BY <1>1, <1>5 DEF build_imported_sample_case, SignCase
  <2> QED
    BY <1>2, <2>1 DEF Cleared
<1>8. fault # "never_decodes"
  <2>1. /\ flow[j].kind = "sign" /\ flow[j].message = "sample" /\ ~flow[j].manual
        /\ ExpectedScreens["sample_decoded"] \subseteq flow[j].expected
    BY <1>1, <1>5 DEF build_imported_sample_case, SignCase
  <2> QED
    BY <1>2, <2>1 DEF Cleared
<1> QED
  BY <1>1, <1>6, <1>7, <1>8 DEF Faults

(* For all reviews and however slow the emulator is, the app signs and     *)
(* imports only what the cases ask for, in their order, and all of it when *)
(* the run has passed: no press of a case answers a review of another one. *)
THEOREM AppDoesWhatIsTested == SmokeSpec => []AppDidWhatWasTested
<1>1. SmokeInv => AppDidWhatWasTested
  BY InvDoesWhatWasTested
<1> QED
  BY <1>1, SmokeInvariance, PTL

(* For all reviews that the tests can tell apart, an app with one of the   *)
(* faults does not pass the smoke test where no review is manual.          *)
THEOREM FaultsAreFound == SmokeSpec => []FaultIsFound
<1>1. SmokeInv => FaultIsFound
  BY InvFindsFaults
<1> QED
  BY <1>1, SmokeInvariance, PTL

(* When the emulator keeps up, the test never leaves a section of a        *)
(* readable review before its last line, however long the review.          *)
THEOREM TestStaysPatient == SmokeSpec => []TestIsPatient
<1>1. SmokeInv => TestIsPatient
  BY DEF SmokeInv, InStep, TestIsPatient
<1> QED
  BY <1>1, SmokeInvariance, PTL
=============================================================================
