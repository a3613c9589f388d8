--------------------------- MODULE ReviewScroller ---------------------------
(***************************************************************************)
(* The review of a message on a Nano: show_review of app_ui/               *)
(* review_scroller.rs.  A review is a sequence of sections, a section a    *)
(* sequence of lines; the screen shows a window of VisibleLines of them.   *)
(* Left and right scroll, both buttons go to the next section, and from    *)
(* the last one to the "Sign" screen.  There is no way back to an earlier  *)
(* section and no way to reject before the last one.                       *)
(***************************************************************************)
EXTENDS Integers, Sequences

CONSTANTS Reviews, VisibleLines

ASSUME ReviewAssumption ==
  /\ VisibleLines \in Nat \ {0}
  /\ \A review \in Reviews :
       /\ Len(review) \in Nat \ {0} /\ DOMAIN review = 1..Len(review)
       /\ \A s \in 1..Len(review) : Len(review[s]) \in Nat

VARIABLES
  sections,       \* the review on the screen
  section_index,  \* the section on the screen, from 1
  scroll_line,    \* lines of it above the window
  step,           \* "review", then "ask" on the Sign screen, then the decision
  drawn,          \* history: <<section, line>> pairs that were on the screen
  hurried         \* history: both buttons were pressed under a down arrow

vars == <<sections, section_index, scroll_line, step, drawn, hurried>>

Lines(s) == Len(sections[s])

(* draw_section: what the window shows, and the arrow that offers more.    *)
Window(s, top) == {s} \X {line \in 1..Lines(s) : top < line /\ line <= top + VisibleLines}
ArrowGoneEarly ==   \* mutant: the last line stays below the window
  scroll_line + VisibleLines + 1 < Lines(section_index)
CanScrollDown == scroll_line + VisibleLines < Lines(section_index)
CanScrollUp == scroll_line > 0

Init ==
  /\ sections \in Reviews
  /\ section_index = 1 /\ scroll_line = 0
  /\ step = "review"
  /\ drawn = Window(1, 0)
  /\ hurried = FALSE

(* The next turn of the loop draws the section before it reads a button.   *)
Show(s, top) ==
  /\ section_index' = s /\ scroll_line' = top
  /\ drawn' = drawn \cup Window(s, top)
  /\ UNCHANGED <<sections, step>>

LeftButton ==
  /\ step = "review" /\ CanScrollUp
  /\ Show(section_index, scroll_line - 1)
  /\ UNCHANGED hurried

RightButton ==
  /\ step = "review" /\ CanScrollDown
  /\ Show(section_index, scroll_line + 1)
  /\ UNCHANGED hurried

FirstLine(top) == 0

SkipSection(s) == s + 2     \* mutant: a section is left out
SameSection(s) == s         \* mutant: the index is not advanced
NextSection(s) == s + 1

BothButtons ==
  /\ step = "review"
  /\ hurried' = (hurried \/ CanScrollDown)
  /\ \/ /\ NextSection(section_index) <= Len(sections)
        /\ Show(NextSection(section_index), FirstLine(scroll_line))
     \/ /\ NextSection(section_index) > Len(sections)
        /\ step' = "ask"
        /\ UNCHANGED <<sections, section_index, scroll_line, drawn>>

(* Validator::ask: the user signs or cancels.                              *)
Answer(decision) ==
  /\ step = "ask"
  /\ step' = decision
  /\ UNCHANGED <<sections, section_index, scroll_line, drawn, hurried>>

Next == LeftButton \/ RightButton \/ BothButtons \/ Answer("signed") \/ Answer("rejected")

(* The user goes on: each section is left some time, the question answered.*)
Fairness == WF_vars(BothButtons) /\ WF_vars(Answer("signed") \/ Answer("rejected"))

Spec == Init /\ [][Next]_vars
FairSpec == Spec /\ Fairness

-----------------------------------------------------------------------------
Decided == step \in {"ask", "signed", "rejected"}

(* The lines of a section were on the screen down to line n.               *)
DrawnTo(s, n) == \A line \in 1..Lines(s) : line <= n => <<s, line>> \in drawn

(* The types of the variables.                                             *)
TypeOK ==
  /\ sections \in Reviews
  /\ section_index \in 1..Len(sections)
  /\ scroll_line \in Nat
  /\ step \in {"review", "ask", "signed", "rejected"}
  /\ drawn \subseteq (1..Len(sections)) \X (Nat \ {0})
  /\ hurried \in BOOLEAN

(* Hazard: a window that scrolled past the end of its section, or that     *)
(* kept its place in a shorter one, shows an empty page.  The window is    *)
(* always full when the section fills it, and never scrolled otherwise.    *)
WindowIsFull ==
  \/ scroll_line = 0
  \/ scroll_line + VisibleLines <= Lines(section_index)

(* Hazard: a section that is never shown.  Nobody gets to the question     *)
(* without the first page of every section having been on the screen,      *)
(* however fast the buttons are pressed.                                   *)
EverySectionOpened ==
  Decided => \A s \in 1..Len(sections) : DrawnTo(s, VisibleLines)

(* Hazard: the lines below the window are signed unread.  The down arrow   *)
(* tells the truth: a user who never leaves a section while it is shown    *)
(* has had every line of every section on the screen when asked.           *)
PatientUserSawAll ==
  Decided /\ ~hurried => \A s \in 1..Len(sections) : DrawnTo(s, Lines(s))

(* The inductive invariant: sections behind have been read, the current    *)
(* one down to the end of the window.                                      *)
ReadSoFar ==
  /\ \A s \in 1..section_index : DrawnTo(s, VisibleLines)
  /\ DrawnTo(section_index, scroll_line + VisibleLines)
  /\ ~hurried => \A s \in 1..(section_index - 1) : DrawnTo(s, Lines(s))
  /\ Decided => section_index = Len(sections) /\ (~hurried => ~CanScrollDown)

IInv == TypeOK /\ WindowIsFull /\ ReadSoFar

(* A review comes to a decision when the user keeps going on: the loop     *)
(* never runs out of its sections nor stays in the last one.               *)
ReviewEnds == <>(step \in {"signed", "rejected"})
=============================================================================
