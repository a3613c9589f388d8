----------------------- MODULE ReviewScroller_proofs -----------------------
(***************************************************************************)
(* For every review and every size of the window: a section's window is    *)
(* never past its end, nobody is asked before every section was opened,    *)
(* and a user who follows the down arrow has seen every line.  For every   *)
(* text and every width of the screen: the lines are the whole text.       *)
(***************************************************************************)
EXTENDS ReviewScroller, TextLines, SequenceParts

(* A review has a section, and a section has finitely many lines.          *)
LEMMA ReviewShape ==
  ASSUME NEW review \in Reviews
  PROVE  /\ Len(review) \in Nat \ {0}
         /\ \A s \in 1..Len(review) : Len(review[s]) \in Nat
BY ReviewAssumption

LEMMA InitIInv == Init => IInv
<1> SUFFICES ASSUME Init PROVE IInv
  OBVIOUS
<1> USE ReviewAssumption DEF Init
<1>1. Len(sections) \in Nat \ {0} /\ Lines(1) \in Nat
  BY ReviewShape DEF Lines
<1>2. drawn \subseteq {1} \X (Nat \ {0})
  BY <1>1 DEF Window
<1>3. TypeOK
  <2>1. 1 \in 1..Len(sections)
    BY <1>1
  <2>2. drawn \subseteq (1..Len(sections)) \X (Nat \ {0})
    BY <1>2, <2>1
  <2> QED
    BY <2>1, <2>2 DEF TypeOK
<1>4. WindowIsFull
  BY DEF WindowIsFull
<1>5. DrawnTo(1, VisibleLines)
  BY <1>1 DEF DrawnTo, Window
<1>6. ReadSoFar
  BY <1>1, <1>5 DEF ReadSoFar, Decided
<1> QED
  BY <1>3, <1>4, <1>6 DEF IInv

(* DrawnTo for a given history, to speak of the next state.                *)
Drawn(history, s, n) == \A line \in 1..Lines(s) : line <= n => <<s, line>> \in history

LEMMA DrawnNow == \A s, n : DrawnTo(s, n) <=> Drawn(drawn, s, n)
BY DEF DrawnTo, Drawn

(* ReadSoFar in the next state, from what was drawn of the same review.    *)
LEMMA ReadSoFarNext ==
  ASSUME sections' = sections, step' = "review",
         \A s \in 1..section_index' : Drawn(drawn', s, VisibleLines),
         Drawn(drawn', section_index', scroll_line' + VisibleLines),
         ~hurried' => \A s \in 1..(section_index' - 1) : Drawn(drawn', s, Lines(s))
  PROVE  ReadSoFar'
BY DEF ReadSoFar, Decided, DrawnTo, Drawn, Lines

(* What was drawn stays drawn, and showing a window adds it.               *)
LEMMA ShowStep ==
  ASSUME IInv
  PROVE  \A s \in 1..Len(sections), top \in Nat : Show(s, top) =>
           /\ sections' = sections /\ step' = step
           /\ section_index' = s /\ scroll_line' = top
           /\ drawn' \subseteq (1..Len(sections)) \X (Nat \ {0})
           /\ \A t, n : Drawn(drawn, t, n) => Drawn(drawn', t, n)
           /\ Drawn(drawn, s, top) => Drawn(drawn', s, top + VisibleLines)
<1> SUFFICES ASSUME NEW s \in 1..Len(sections), NEW top \in Nat, Show(s, top)
             PROVE  /\ sections' = sections /\ step' = step
                    /\ section_index' = s /\ scroll_line' = top
                    /\ drawn' \subseteq (1..Len(sections)) \X (Nat \ {0})
                    /\ \A t, n : Drawn(drawn, t, n) => Drawn(drawn', t, n)
                    /\ Drawn(drawn, s, top) => Drawn(drawn', s, top + VisibleLines)
  OBVIOUS
<1> USE ReviewAssumption
<1>1. Lines(s) \in Nat
  BY ReviewShape DEF Lines, IInv, TypeOK
<1>2. /\ sections' = sections /\ step' = step
      /\ section_index' = s /\ scroll_line' = top
      /\ drawn' = drawn \cup Window(s, top)
  BY DEF Show
<1>3. drawn' \subseteq (1..Len(sections)) \X (Nat \ {0})
  <2>1. Window(s, top) \subseteq (1..Len(sections)) \X (Nat \ {0})
    BY <1>1 DEF Window
  <2> QED
    BY <1>2, <2>1 DEF IInv, TypeOK
<1>4. \A t, n : Drawn(drawn, t, n) => Drawn(drawn', t, n)
  BY <1>2 DEF Drawn
<1>5. ASSUME Drawn(drawn, s, top), NEW line \in 1..Lines(s), line <= top + VisibleLines
      PROVE  <<s, line>> \in drawn'
  <2>1. CASE line <= top
    BY <1>2, <1>5, <2>1 DEF Drawn
  <2>2. CASE top < line
    BY <1>1, <1>2, <1>5, <2>2 DEF Window
  <2> QED
    BY <1>1, <1>5, <2>1, <2>2
<1>6. Drawn(drawn, s, top) => Drawn(drawn', s, top + VisibleLines)
  BY <1>5 DEF Drawn
<1> QED
  BY <1>2, <1>3, <1>4, <1>6

(* The invariant as facts about Drawn.                                     *)
LEMMA Facts ==
  ASSUME IInv
  PROVE  /\ section_index \in 1..Len(sections) /\ scroll_line \in Nat
         /\ Len(sections) \in Nat
         /\ \A s \in 1..Len(sections) : Lines(s) \in Nat
         /\ \A s \in 1..section_index : Drawn(drawn, s, VisibleLines)
         /\ Drawn(drawn, section_index, scroll_line + VisibleLines)
         /\ ~hurried => \A s \in 1..(section_index - 1) : Drawn(drawn, s, Lines(s))
BY ReviewShape, DrawnNow DEF IInv, TypeOK, ReadSoFar, Lines

LEMMA ScrollStep ==
  ASSUME IInv, LeftButton \/ RightButton
  PROVE  IInv'
<1> USE ReviewAssumption
<1>1. /\ scroll_line' \in Nat /\ Show(section_index, scroll_line')
      /\ scroll_line' <= scroll_line + VisibleLines
      /\ scroll_line' = 0 \/ scroll_line' + VisibleLines <= Lines(section_index)
  BY Facts DEF LeftButton, RightButton, Show, CanScrollUp, CanScrollDown, IInv, WindowIsFull
<1>2. step = "review" /\ step' = "review" /\ hurried' = hurried
  BY DEF LeftButton, RightButton, Show
<1>3. /\ sections' = sections /\ section_index' = section_index
      /\ drawn' \subseteq (1..Len(sections)) \X (Nat \ {0})
      /\ \A t, n : Drawn(drawn, t, n) => Drawn(drawn', t, n)
      /\ Drawn(drawn, section_index, scroll_line') =>
           Drawn(drawn', section_index, scroll_line' + VisibleLines)
  BY <1>1, Facts, ShowStep
<1>4. Drawn(drawn, section_index, scroll_line')
  BY <1>1, Facts DEF Drawn
<1>5. TypeOK'
  BY <1>1, <1>2, <1>3, Facts DEF IInv, TypeOK
<1>6. WindowIsFull'
  BY <1>1, <1>3 DEF WindowIsFull, Lines
<1>7. /\ \A s \in 1..section_index' : Drawn(drawn', s, VisibleLines)
      /\ ~hurried' => \A s \in 1..(section_index' - 1) : Drawn(drawn', s, Lines(s))
  BY <1>2, <1>3, Facts
<1>8. ReadSoFar'
  BY <1>2, <1>3, <1>4, <1>7, ReadSoFarNext
<1> QED
  BY <1>5, <1>6, <1>8 DEF IInv

(* Leaving a section: it was read to its end, or the user hurried.         *)
LEMMA NextSectionStep ==
  ASSUME IInv, step = "review", hurried' = (hurried \/ CanScrollDown),
         NextSection(section_index) <= Len(sections),
         Show(NextSection(section_index), FirstLine(scroll_line))
  PROVE  IInv'
<1> USE ReviewAssumption
<1>1. section_index + 1 \in 1..Len(sections) /\ Show(section_index + 1, 0)
  BY Facts DEF NextSection, FirstLine
<1>2. /\ sections' = sections /\ section_index' = section_index + 1
      /\ step' = "review" /\ scroll_line' = 0
      /\ drawn' \subseteq (1..Len(sections)) \X (Nat \ {0})
      /\ \A t, n : Drawn(drawn, t, n) => Drawn(drawn', t, n)
      /\ Drawn(drawn, section_index + 1, 0) =>
           Drawn(drawn', section_index + 1, 0 + VisibleLines)
  BY <1>1, Facts, ShowStep
<1>3. Drawn(drawn', section_index', VisibleLines)
  <2>1. Drawn(drawn, section_index + 1, 0)
    BY DEF Drawn
  <2> QED
    BY <1>2, <2>1
<1>4. \A s \in 1..section_index' : Drawn(drawn', s, VisibleLines)
  <2> SUFFICES ASSUME NEW s \in 1..(section_index + 1) PROVE Drawn(drawn', s, VisibleLines)
    BY <1>2
  <2>1. s \in 1..section_index \/ s = section_index'
    BY <1>2, Facts
  <2> QED
    BY <1>2, <1>3, <2>1, Facts
<1>5. ASSUME ~hurried', NEW s \in 1..section_index PROVE Drawn(drawn', s, Lines(s))
  <2>1. ~hurried /\ ~CanScrollDown
    BY <1>5, Zenon DEF IInv, TypeOK
  <2>2. CASE s = section_index
    <3>1. Drawn(drawn, section_index, Lines(section_index))
      BY <2>1, Facts DEF CanScrollDown, Drawn
    <3> QED
      BY <1>2, <2>2, <3>1
  <2>3. CASE s # section_index
    BY <1>2, <2>1, <2>3, Facts
  <2> QED
    BY <2>2, <2>3
<1>6. TypeOK'
  <2>1. hurried' \in BOOLEAN
    BY DEF IInv, TypeOK, CanScrollDown
  <2> QED
    BY <1>1, <1>2, <2>1 DEF IInv, TypeOK
<1>7. WindowIsFull'
  BY <1>2 DEF WindowIsFull
<1>8. ~hurried' => \A s \in 1..(section_index' - 1) : Drawn(drawn', s, Lines(s))
  BY <1>2, <1>5, Facts
<1>9. Drawn(drawn', section_index', scroll_line' + VisibleLines)
  BY <1>2, <1>3
<1>10. ReadSoFar'
  BY <1>2, <1>4, <1>8, <1>9, ReadSoFarNext
<1> QED
  BY <1>6, <1>7, <1>10 DEF IInv

(* The Sign screen and the decision change neither the section nor what    *)
(* was drawn.                                                              *)
LEMMA AskStep ==
  ASSUME IInv, step = "review", hurried' = (hurried \/ CanScrollDown), step' = "ask",
         NextSection(section_index) > Len(sections),
         UNCHANGED <<sections, section_index, scroll_line, drawn>>
  PROVE  IInv'
<1> USE ReviewAssumption
<1>1. section_index = Len(sections)
  BY ReviewShape DEF IInv, TypeOK, NextSection
<1>2. TypeOK'
  BY DEF IInv, TypeOK, CanScrollDown
<1>3. WindowIsFull'
  BY DEF IInv, WindowIsFull, Lines
<1>4. ~hurried' => ~hurried /\ ~CanScrollDown
  BY Zenon DEF IInv, TypeOK
<1>5. CanScrollDown' = CanScrollDown
  BY DEF CanScrollDown, Lines
<1>6. \A s, n : DrawnTo(s, n)' <=> DrawnTo(s, n)
  BY DEF DrawnTo, Lines
<1>7. ReadSoFar'
  BY <1>1, <1>4, <1>5, <1>6 DEF IInv, ReadSoFar, Decided, Lines
<1> QED
  BY <1>2, <1>3, <1>7 DEF IInv

LEMMA StutterStep ==
  ASSUME IInv, UNCHANGED <<sections, section_index, scroll_line, drawn, hurried>>,
         step' = step \/ (step = "ask" /\ step' \in {"signed", "rejected"})
  PROVE  IInv'
BY DEF IInv, TypeOK, WindowIsFull, ReadSoFar, Decided, DrawnTo, Lines, CanScrollDown

(* The inductive invariant holds in every state of every review.           *)
THEOREM Invariance == Spec => []IInv
<1>1. Init => IInv
  BY InitIInv
<1>2. IInv /\ [Next]_vars => IInv'
  <2> SUFFICES ASSUME IInv, [Next]_vars PROVE IInv'
    OBVIOUS
  <2>1. CASE LeftButton \/ RightButton
    BY <2>1, ScrollStep
  <2>2. CASE BothButtons
    BY <2>2, NextSectionStep, AskStep DEF BothButtons
  <2>3. CASE Answer("signed") \/ Answer("rejected")
    BY <2>3, StutterStep DEF Answer
  <2>4. CASE UNCHANGED vars
    BY <2>4, StutterStep DEF vars
  <2> QED
    BY <2>1, <2>2, <2>3, <2>4 DEF Next
<1> QED
  BY <1>1, <1>2, PTL DEF Spec

(* The window of show_review never scrolls past the end of its section.    *)
THEOREM WindowStaysFull == Spec => []WindowIsFull
<1>1. IInv => WindowIsFull
  BY DEF IInv
<1> QED
  BY <1>1, Invariance, PTL

(* The Sign screen is reached only after the first page of every section.  *)
THEOREM NoSectionSkipped == Spec => []EverySectionOpened
<1>1. IInv => EverySectionOpened
  BY DEF IInv, ReadSoFar, EverySectionOpened
<1> QED
  BY <1>1, Invariance, PTL

(* The down arrow of draw_footer tells the truth about what is unread.     *)
THEOREM ArrowIsTruthful == Spec => []PatientUserSawAll
<1>1. IInv => PatientUserSawAll
  <2> SUFFICES ASSUME IInv, Decided, ~hurried, NEW s \in 1..Len(sections)
               PROVE  DrawnTo(s, Lines(s))
    BY DEF PatientUserSawAll
  <2>1. section_index = Len(sections) /\ ~CanScrollDown
    BY DEF IInv, ReadSoFar
  <2>2. Len(sections) \in Nat /\ Lines(section_index) \in Nat /\ scroll_line \in Nat
    BY ReviewShape, ReviewAssumption DEF IInv, TypeOK, Lines
  <2>3. CASE s = section_index
    BY <2>1, <2>2, <2>3, ReviewAssumption DEF CanScrollDown, IInv, ReadSoFar, DrawnTo
  <2>4. CASE s # section_index
    BY <2>1, <2>2, <2>4 DEF IInv, ReadSoFar
  <2> QED
    BY <2>3, <2>4
<1> QED
  BY <1>1, Invariance, PTL

-----------------------------------------------------------------------------
(* The steps of the sum of widths.                                         *)
Adding(glyphs, bold) == [k \in 1..Len(glyphs) |-> [x \in Nat |-> x + Width(glyphs[k], bold)]]

(* The loops below are over glyphs of a set G that have widths.            *)
HaveWidths(G, bold) == \A g \in G : Width(g, bold) \in Nat

LEMMA AddingIs ==
  ASSUME NEW G, NEW bold, HaveWidths(G, bold), NEW t \in Seq(G)
  PROVE  /\ Len(t) \in Nat
         /\ Adding(t, bold) \in [1..Len(t) -> [Nat -> Nat]]
         /\ \A k \in 1..Len(t) : \A x \in Nat : Adding(t, bold)[k][x] = x + Width(t[k], bold)
<1>1. Len(t) \in Nat /\ \A k \in 1..Len(t) : t[k] \in G
  BY LenProperties, ElementOfSeq
<1>2. ASSUME NEW k \in 1..Len(t)
      PROVE  [x \in Nat |-> x + Width(t[k], bold)] \in [Nat -> Nat]
  <2>1. Width(t[k], bold) \in Nat
    BY <1>1 DEF HaveWidths
  <2> QED
    BY <2>1
<1> QED
  BY <1>1, <1>2 DEF Adding

(* The width of a text is the last state of a run of that loop.            *)
LEMMA PixelWidthRun ==
  ASSUME NEW G, NEW bold, HaveWidths(G, bold), NEW t \in Seq(G)
  PROVE  \E f \in LoopRuns(Nat, Adding(t, bold), 0, Len(t)) : PixelWidth(t, bold) = f[Len(t)]
<1> DEFINE n == Len(t)
           steps == Adding(t, bold)
           w(k) == Width(t[k], bold)
           Is(g) == g = [k \in 0..n |-> IF k = 0 THEN 0 ELSE g[k - 1] + w(k)]
           h == CHOOSE g : Is(g)
           zero == 0
           all == Nat
<1>1. /\ n \in Nat /\ steps \in [1..n -> [Nat -> Nat]]
      /\ \A k \in 1..n : \A x \in Nat : steps[k][x] = x + w(k)
  BY AddingIs
<1>2. PixelWidth(t, bold) = h[n]
  BY DEF PixelWidth
<1> HIDE DEF n, steps, w
<1>3. LoopRuns(all, steps, zero, n) # {}
  <2>1. zero \in all /\ n \in Nat /\ steps \in [1..n -> [all -> all]]
    BY <1>1
  <2> HIDE DEF zero, all
  <2> QED
    BY ONLY <2>1, LoopRun
<1>4. PICK f : f \in LoopRuns(all, steps, zero, n)
  BY <1>3
<1>5. f \in [0..n -> Nat] /\ f[0] = 0 /\ \A k \in 1..n : f[k] = steps[k][f[k - 1]]
  BY <1>4 DEF LoopRuns
<1>6. \A k \in 1..n : f[k] = f[k - 1] + w(k)
  <2>1. \A k \in 1..n : k - 1 \in 0..n
    BY <1>1
  <2> QED
    BY <1>1, <1>5, <2>1
<1>7. Is(f)
  <2>1. f = [k \in 0..n |-> f[k]]
    BY <1>5
  <2>2. \A k \in 0..n : f[k] = IF k = 0 THEN 0 ELSE f[k - 1] + w(k)
    BY <1>1, <1>5, <1>6
  <2> QED
    BY ONLY <2>1, <2>2
<1>8. Is(h)
  BY <1>7
<1> HIDE DEF h
<1>9. h \in LoopRuns(all, steps, zero, n)
  <2> DEFINE D == {h[k] : k \in 0..n}
             value(k) == IF k = 0 THEN 0 ELSE h[k - 1] + w(k)
  <2>1. h = [k \in 0..n |-> value(k)]
    BY ONLY <1>8
  <2>2. \A k \in 0..n : h[k] = value(k)
    <3> HIDE DEF value
    <3> QED
      BY ONLY <2>1
  <2>3. h = [k \in 0..n |-> h[k]]
    <3> HIDE DEF value
    <3> QED
      BY ONLY <2>1
  <2>4. \A k \in 0..n : h[k] \in D
    OBVIOUS
  <2>5. h[0] = 0 /\ \A k \in 1..n : h[k] = h[k - 1] + w(k)
    BY <1>1, <2>2
  <2> HIDE DEF D, value
  <2>6. h \in [0..n -> D]
    BY ONLY <2>3, <2>4
  <2>7. \A k \in 1..n : h[k - 1] \in all => h[k] = steps[k][h[k - 1]]
    BY <1>1, <2>5
  <2>8. /\ zero \in all /\ n \in Nat /\ steps \in [1..n -> [all -> all]]
        /\ h \in [0..n -> D] /\ h[0] = zero
        /\ \A k \in 1..n : h[k - 1] \in all => h[k] = steps[k][h[k - 1]]
    BY <1>1, <2>5, <2>6, <2>7
  <2> HIDE DEF zero, all
  <2> QED
    BY ONLY <2>8, ChosenRun
<1> QED
  BY <1>2, <1>9 DEF n, steps, zero, all

(* A text of no glyphs has no width.                                       *)
LEMMA NoWidth ==
  ASSUME NEW bold
  PROVE  PixelWidth(<<>>, bold) = 0
<1> DEFINE none == <<>>
           G == {}
<1>1. HaveWidths(G, bold) /\ none \in Seq(G) /\ Len(none) = 0
  BY EmptySeq DEF HaveWidths
<1> HIDE DEF none, G
<1>2. PICK f \in LoopRuns(Nat, Adding(none, bold), 0, Len(none)) :
             PixelWidth(none, bold) = f[Len(none)]
  BY <1>1, PixelWidthRun
<1>3. f \in LoopRuns(Nat, Adding(none, bold), 0, 0) /\ PixelWidth(none, bold) = f[0]
  BY <1>1, <1>2
<1>4. f[0] = 0
  BY ONLY <1>3 DEF LoopRuns
<1> QED
  BY <1>3, <1>4 DEF none

(* The width of a text by its recurrence.                                  *)
LEMMA PixelWidthIs ==
  ASSUME NEW G, NEW bold, HaveWidths(G, bold), NEW t \in Seq(G), NEW u \in G
  PROVE  /\ PixelWidth(t, bold) \in Nat
         /\ PixelWidth(Append(t, u), bold) = PixelWidth(t, bold) + Width(u, bold)
<1> DEFINE more == Append(t, u)
           n == Len(t)
           m == Len(more)
           a == Adding(t, bold)
           b == Adding(more, bold)
           zero == 0
           all == Nat
<1>1. /\ more \in Seq(G) /\ m = n + 1 /\ n \in Nat /\ m \in Nat /\ n <= m
      /\ more[m] = u /\ \A k \in 1..n : more[k] = t[k] /\ k \in 1..m
  BY AppendProperties, LenProperties
<1>2. PICK f : f \in LoopRuns(Nat, a, 0, n) /\ PixelWidth(t, bold) = f[n]
  BY PixelWidthRun
<1> HIDE DEF more
<1>3. PICK g : g \in LoopRuns(Nat, b, 0, m) /\ PixelWidth(more, bold) = g[m]
  BY <1>1, PixelWidthRun
<1>4. PixelWidth(t, bold) \in Nat
  BY <1>1, <1>2 DEF LoopRuns
<1>6. \A k \in 1..n : a[k] = b[k]
  BY <1>1 DEF Adding
<1>7. \A k \in 0..n : f[k] = g[k]
  <2>1. /\ f \in LoopRuns(all, a, zero, n) /\ g \in LoopRuns(all, b, zero, m)
        /\ m \in Nat /\ n \in Nat /\ n <= m /\ \A k \in 1..n : a[k] = b[k]
    BY <1>1, <1>2, <1>3, <1>6
  <2> HIDE DEF a, b, m, n, zero, all
  <2> QED
    BY ONLY <2>1, SameRuns
<1>8. g[m] = b[m][g[n]] /\ g[n] \in Nat /\ g[n] = f[n]
  <2>1. m \in 1..m /\ m - 1 = n /\ n \in 0..m /\ n \in 0..n
    BY <1>1
  <2>2. g \in [0..m -> Nat] /\ \A k \in 1..m : g[k] = b[k][g[k - 1]]
    BY <1>3 DEF LoopRuns
  <2> QED
    BY <1>7, <2>1, <2>2
<1>9. b[m][g[n]] = g[n] + Width(u, bold)
  <2>1. m \in 1..m
    BY <1>1
  <2>2. \A k \in 1..m : \A x \in Nat : b[k][x] = x + Width(more[k], bold)
    BY <1>1, AddingIs
  <2> QED
    BY <1>1, <1>8, <2>1, <2>2
<1> QED
  BY <1>2, <1>3, <1>4, <1>8, <1>9 DEF more

(* The states of the loop of wrap_text.                                    *)
Wrappings(G) == [lines : Seq(Seq(G)), current : Seq(G), current_width : Nat]

LEMMA PushIs ==
  ASSUME NEW G, NEW bold, HaveWidths(G, bold), NEW max \in Nat,
         NEW s \in Wrappings(G), NEW u \in G
  PROVE  PushGlyph(s, u, max, bold) \in Wrappings(G)
<1>1. Width(u, bold) \in Nat
  BY DEF HaveWidths
<1>2. s.lines \in Seq(Seq(G)) /\ s.current \in Seq(G) /\ s.current_width \in Nat
  BY DEF Wrappings
<1>3. StartLine(s, u, bold) \in Wrappings(G)
  <2>1. Append(s.lines, s.current) \in Seq(Seq(G)) /\ <<u>> \in Seq(G)
    BY <1>2, AppendProperties
  <2> QED
    BY <1>1, <2>1 DEF StartLine, Wrappings
<1>4. Extend(s, u, bold) \in Wrappings(G)
  <2>1. Append(s.current, u) \in Seq(G) /\ s.current_width + Width(u, bold) \in Nat
    BY <1>1, <1>2, AppendProperties
  <2> QED
    BY <1>2, <2>1 DEF Extend, Wrappings
<1> QED
  BY <1>3, <1>4 DEF PushGlyph

(* A line fits, or is one glyph.                                           *)
Fits(line, max, bold) == PixelWidth(line, bold) <= max \/ Len(line) = 1

(* The invariant of the loop: the lines and the current one are the text   *)
(* so far, the width is that of the current line, and all lines fit.       *)
Wraps(s, text, max, bold) ==
  /\ FlattenSeq(s.lines) \o s.current = text
  /\ s.current_width = PixelWidth(s.current, bold)
  /\ \A l \in 1..Len(s.lines) : Fits(s.lines[l], max, bold)
  /\ Fits(s.current, max, bold)

LEMMA PushWraps ==
  ASSUME NEW G, NEW bold, HaveWidths(G, bold), NEW max \in Nat,
         NEW s \in Wrappings(G), NEW u \in G, NEW text, Wraps(s, text, max, bold)
  PROVE  Wraps(PushGlyph(s, u, max, bold), Append(text, u), max, bold)
<1> DEFINE lines == s.lines
           current == s.current
           next == PushGlyph(s, u, max, bold)
           flat == FlattenSeq(lines)
           none == <<>>
<1>1. lines \in Seq(Seq(G)) /\ current \in Seq(G) /\ s.current_width \in Nat
  BY DEF Wrappings
<1>2. flat \in Seq(G) /\ FlattenSeq(Append(lines, current)) = flat \o current
  BY <1>1, FlattenIs
<1>3. Width(u, bold) \in Nat
  BY DEF HaveWidths
<1>4. /\ text = flat \o current /\ s.current_width = PixelWidth(current, bold)
      /\ \A l \in 1..Len(lines) : Fits(lines[l], max, bold)
      /\ Fits(current, max, bold)
  BY DEF Wraps
<1>5. /\ PixelWidth(current, bold) \in Nat
      /\ PixelWidth(Append(current, u), bold) = PixelWidth(current, bold) + Width(u, bold)
  BY <1>1, PixelWidthIs
<1>6. Append(none, u) = <<u>> /\ none \in Seq(G) /\ Len(<<u>>) = 1
  OBVIOUS
<1>7. PixelWidth(<<u>>, bold) = Width(u, bold)
  <2>1. PixelWidth(none, bold) = 0
    BY NoWidth
  <2>2. PixelWidth(Append(none, u), bold) = PixelWidth(none, bold) + Width(u, bold)
    <3>1. none \in Seq(G)
      BY <1>6
    <3> HIDE DEF none
    <3> QED
      BY <3>1, PixelWidthIs
  <2> QED
    BY <1>3, <1>6, <2>1, <2>2
<1>8. Append(text, u) = (flat \o current) \o <<u>>
  <2>1. flat \o current \in Seq(G)
    BY <1>1, <1>2, ConcatIs
  <2> DEFINE whole == flat \o current
  <2> HIDE DEF whole
  <2>2. whole \in Seq(G) /\ text = whole
    BY <1>4, <2>1 DEF whole
  <2>3. Append(whole, u) = whole \o <<u>>
    BY ONLY <2>2, u \in G, AppendIsConcat
  <2> QED
    BY <2>2, <2>3 DEF whole
<1> HIDE DEF flat, lines, current, none
<1>9. CASE current # <<>> /\ s.current_width + Width(u, bold) > max
  <2> DEFINE more == Append(lines, current)
  <2>1. /\ next.lines = more /\ next.current = <<u>>
        /\ next.current_width = Width(u, bold)
    BY <1>9 DEF PushGlyph, StartLine, lines, current
  <2>2. FlattenSeq(more) \o <<u>> = Append(text, u)
    BY <1>2, <1>8 DEF flat
  <2>3. Fits(<<u>>, max, bold)
    BY <1>6 DEF Fits
  <2>4. \A l \in 1..Len(more) : Fits(more[l], max, bold)
    <3>1. /\ Len(lines) \in Nat /\ Len(more) = Len(lines) + 1
          /\ more[Len(lines) + 1] = current
          /\ \A l \in 1..Len(lines) : more[l] = lines[l]
      BY <1>1, AppendProperties, LenProperties
    <3> HIDE DEF more
    <3>2. \A l \in 1..Len(more) : l \in 1..Len(lines) \/ l = Len(lines) + 1
      BY <3>1
    <3> QED
      BY <1>4, <3>1, <3>2
  <2> HIDE DEF next, more
  <2>5. Wraps(next, Append(text, u), max, bold)
    BY <1>7, <2>1, <2>2, <2>3, <2>4 DEF Wraps
  <2> QED
    BY <2>5 DEF next
<1>10. CASE ~(current # <<>> /\ s.current_width + Width(u, bold) > max)
  <2> DEFINE longer == Append(current, u)
  <2>1. /\ next.lines = lines /\ next.current = longer
        /\ next.current_width = s.current_width + Width(u, bold)
    BY <1>10 DEF PushGlyph, Extend, lines, current
  <2>2. flat \o longer = Append(text, u)
    <3>1. flat \in Seq(G) /\ current \in Seq(G) /\ <<u>> \in Seq(G)
      BY <1>1, <1>2, <1>6 DEF flat, none
    <3>2. (flat \o current) \o <<u>> = flat \o (current \o <<u>>)
      BY ONLY <3>1, ConcatAssociative
    <3>3. longer = current \o <<u>>
      BY ONLY <3>1, u \in G, AppendIsConcat
    <3> QED
      BY <1>8, <3>2, <3>3
  <2>3. PixelWidth(longer, bold) = s.current_width + Width(u, bold)
    BY <1>4, <1>5
  <2>4. Fits(longer, max, bold)
    <3>1. CASE current = none
      BY <1>6, <3>1 DEF Fits
    <3>2. CASE current # none
      BY <1>1, <1>3, <1>10, <2>3, <3>2 DEF Fits, none
    <3> QED
      BY <3>1, <3>2
  <2> HIDE DEF next, longer
  <2>5. Wraps(next, Append(text, u), max, bold)
    BY <1>4, <2>1, <2>2, <2>3, <2>4 DEF Wraps, flat
  <2> QED
    BY <2>5 DEF next
<1> QED
  BY <1>9, <1>10

(* The steps of the loop.                                                  *)
Pushing(G, glyphs, max, bold) ==
  [k \in 1..Len(glyphs) |-> [s \in Wrappings(G) |-> PushGlyph(s, glyphs[k], max, bold)]]

(* A state that a run of the loop ends in.                                 *)
LEMMA WrapRun ==
  ASSUME NEW G, NEW bold, HaveWidths(G, bold), NEW max \in Nat, NEW text,
         Glyphs(text) \in Seq(G), Len(text) \in Nat, DOMAIN text = 1..Len(text),
         Len(Glyphs(text)) = Len(text)
  PROVE  \E f \in LoopRuns(Wrappings(G), Pushing(G, Glyphs(text), max, bold), NoLine, Len(text)) :
            wrap_text(text, max, bold)
              = Append(f[Len(text)].lines, f[Len(text)].current)
<1> DEFINE n == Len(text)
           glyphs == Glyphs(text)
           steps == Pushing(G, glyphs, max, bold)
           S == Wrappings(G)
           Is(g) == g = [k \in 0..n |-> IF k = 0 THEN NoLine
                                        ELSE PushGlyph(g[k - 1], Glyph(text[k]), max, bold)]
           h == CHOOSE g : Is(g)
<1>1. wrap_text(text, max, bold) = Append(h[n].lines, h[n].current)
  BY DEF wrap_text
<1>2. n \in Nat /\ Len(glyphs) = n
      /\ \A k \in 1..n : glyphs[k] \in G /\ glyphs[k] = Glyph(text[k])
  <2>1. \A k \in 1..n : glyphs[k] \in G
    BY ElementOfSeq
  <2>2. \A k \in 1..n : glyphs[k] = Glyph(text[k])
    BY DEF Glyphs
  <2> QED
    BY <2>1, <2>2
<1>3. NoLine \in S
  BY EmptySeq DEF NoLine, Wrappings
<1>4. /\ steps \in [1..n -> [S -> S]]
      /\ \A k \in 1..n : \A s \in S : steps[k][s] = PushGlyph(s, Glyph(text[k]), max, bold)
  <2>1. ASSUME NEW k \in 1..n
        PROVE  [s \in S |-> PushGlyph(s, glyphs[k], max, bold)] \in [S -> S]
    BY <1>2, PushIs
  <2> DEFINE turn(k) == [s \in S |-> PushGlyph(s, glyphs[k], max, bold)]
  <2>2. steps = [k \in 1..n |-> turn(k)]
    BY <1>2 DEF Pushing
  <2>3. \A k \in 1..n : turn(k) \in [S -> S]
    BY <2>1
  <2>4. \A k \in 1..n : \A s \in S : turn(k)[s] = PushGlyph(s, glyphs[k], max, bold)
    OBVIOUS
  <2> HIDE DEF S, turn, steps
  <2>5. steps \in [1..n -> [S -> S]] /\ \A k \in 1..n : steps[k] = turn(k)
    BY ONLY <2>2, <2>3
  <2> QED
    BY <1>2, <2>4, <2>5
<1> HIDE DEF n, steps, S
<1>5. LoopRuns(S, steps, NoLine, n) # {}
  BY ONLY <1>2, <1>3, <1>4, LoopRun
<1>6. PICK f : f \in LoopRuns(S, steps, NoLine, n)
  BY <1>5
<1>7. f \in [0..n -> S] /\ f[0] = NoLine /\ \A k \in 1..n : f[k] = steps[k][f[k - 1]]
  BY <1>6 DEF LoopRuns
<1>8. \A k \in 1..n : f[k] = PushGlyph(f[k - 1], Glyph(text[k]), max, bold)
  <2>1. \A k \in 1..n : k - 1 \in 0..n
    BY <1>2
  <2> QED
    BY <1>4, <1>7, <2>1
<1>9. Is(f)
  <2>1. f = [k \in 0..n |-> f[k]]
    BY <1>7
  <2>2. \A k \in 0..n : f[k] = IF k = 0 THEN NoLine
                               ELSE PushGlyph(f[k - 1], Glyph(text[k]), max, bold)
    BY <1>2, <1>7, <1>8
  <2> QED
    BY ONLY <2>1, <2>2
<1>10. Is(h)
  BY <1>9
<1> HIDE DEF h
<1>11. h \in LoopRuns(S, steps, NoLine, n)
  <2> DEFINE D == {h[k] : k \in 0..n}
             value(k) == IF k = 0 THEN NoLine
                         ELSE PushGlyph(h[k - 1], Glyph(text[k]), max, bold)
  <2>1. h = [k \in 0..n |-> value(k)]
    BY ONLY <1>10
  <2>2. \A k \in 0..n : h[k] = value(k)
    <3> HIDE DEF value
    <3> QED
      BY ONLY <2>1
  <2>3. h = [k \in 0..n |-> h[k]]
    <3> HIDE DEF value
    <3> QED
      BY ONLY <2>1
  <2>4. \A k \in 0..n : h[k] \in D
    OBVIOUS
  <2>5. /\ h[0] = NoLine
        /\ \A k \in 1..n : h[k] = PushGlyph(h[k - 1], Glyph(text[k]), max, bold)
    BY <1>2, <2>2
  <2> HIDE DEF D, value
  <2>6. h \in [0..n -> D]
    BY ONLY <2>3, <2>4
  <2>7. \A k \in 1..n : h[k - 1] \in S => h[k] = steps[k][h[k - 1]]
    BY <1>4, <2>5
  <2> QED
    BY ONLY <1>2, <1>3, <1>4, <2>5, <2>6, <2>7, ChosenRun
<1> QED
  BY <1>1, <1>11 DEF n, steps, S

(* The first k of the glyphs.                                              *)
Prefix(glyphs, k) == [i \in 1..k |-> glyphs[i]]

LEMMA PrefixGrows ==
  ASSUME NEW G, NEW glyphs \in Seq(G), NEW k \in Nat, k + 1 <= Len(glyphs)
  PROVE  Prefix(glyphs, k + 1) = Append(Prefix(glyphs, k), glyphs[k + 1])
<1> DEFINE p == Prefix(glyphs, k)
           q == Prefix(glyphs, k + 1)
           r == Append(p, glyphs[k + 1])
<1>1. Len(glyphs) \in Nat /\ \A i \in 1..(k + 1) : glyphs[i] \in G
  BY LenProperties, ElementOfSeq
<1>2. p \in Seq(G) /\ Len(p) = k /\ \A i \in 1..k : p[i] = glyphs[i]
  <2>1. p \in [1..k -> G]
    BY <1>1 DEF Prefix
  <2> QED
    BY <2>1, FunctionIsSeq DEF Prefix
<1>3. q \in Seq(G) /\ Len(q) = k + 1 /\ \A i \in 1..(k + 1) : q[i] = glyphs[i]
  <2>1. q \in [1..(k + 1) -> G] /\ k + 1 \in Nat
    BY <1>1 DEF Prefix
  <2> QED
    BY <2>1, FunctionIsSeq DEF Prefix
<1>4. /\ r \in Seq(G) /\ Len(r) = k + 1 /\ r[k + 1] = glyphs[k + 1]
      /\ \A i \in 1..k : r[i] = glyphs[i]
  <2>1. glyphs[k + 1] \in G
    BY <1>1
  <2> HIDE DEF p
  <2> QED
    BY <1>2, <2>1, AppendProperties
<1>5. \A i \in 1..(k + 1) : i \in 1..k \/ i = k + 1
  OBVIOUS
<1> HIDE DEF p, q, r
<1>6. \A i \in 1..Len(q) : q[i] = r[i]
  BY <1>3, <1>4, <1>5
<1>7. q = r
  BY <1>3, <1>4, <1>6, SeqEqual
<1> QED
  BY <1>7 DEF p, q, r

(* Whatever the font and the width of the screen are, the lines of a text  *)
(* are the text, and a line is too wide only if one glyph alone is.        *)
THEOREM WrappedTextIsWhole ==
  ASSUME NEW Units, NEW bold, \A u \in Units : Width(Glyph(u), bold) \in Nat,
         NEW max \in Nat, NEW text \in Seq(Units)
  PROVE  KeepsText(text, max, bold)
<1> DEFINE G == {Glyph(u) : u \in Units}
           n == Len(text)
           glyphs == Glyphs(text)
<1>1. HaveWidths(G, bold)
  BY DEF HaveWidths
<1>2. n \in Nat /\ DOMAIN text = 1..n /\ \A k \in 1..n : text[k] \in Units
  BY LenProperties, ElementOfSeq
<1>3. glyphs \in Seq(G) /\ Len(glyphs) = n
  <2>1. glyphs = [k \in 1..n |-> Glyph(text[k])]
    BY <1>2 DEF Glyphs
  <2>2. glyphs \in [1..n -> G]
    BY <1>2, <2>1
  <2> HIDE DEF glyphs, G
  <2> QED
    BY <1>2, <2>2, FunctionIsSeq
<1> HIDE DEF G
<1>4. PICK f \in LoopRuns(Wrappings(G), Pushing(G, glyphs, max, bold), NoLine, n) :
             wrap_text(text, max, bold) = Append(f[n].lines, f[n].current)
  BY <1>1, <1>2, <1>3, WrapRun
<1> HIDE DEF n, glyphs
<1>5. /\ f \in [0..n -> Wrappings(G)] /\ f[0] = NoLine
      /\ \A k \in 1..n : f[k] = Pushing(G, glyphs, max, bold)[k][f[k - 1]]
  BY <1>4 DEF LoopRuns
<1>6. ASSUME NEW k \in 1..n
      PROVE  f[k] = PushGlyph(f[k - 1], glyphs[k], max, bold)
  <2>1. k - 1 \in 0..n
    BY <1>2
  <2>2. f[k - 1] \in Wrappings(G)
    BY <1>5, <2>1
  <2>3. Pushing(G, glyphs, max, bold)[k] = [s \in Wrappings(G) |-> PushGlyph(s, glyphs[k], max, bold)]
    BY <1>3 DEF Pushing
  <2> QED
    BY <1>5, <2>2, <2>3
<1> DEFINE T == {k \in Nat : k <= n => Wraps(f[k], Prefix(glyphs, k), max, bold)}
<1>7. 0 \in T
  <2> DEFINE none == <<>>
  <2>1. /\ FlattenSeq(none) = none /\ none \o none = none /\ none \in Seq(G)
        /\ Len(none) = 0 /\ Prefix(glyphs, 0) = none
    <3>1. FlattenSeq(none) = none
      BY DEF FlattenSeq
    <3>2. Prefix(glyphs, 0) = none
      BY DEF Prefix
    <3> QED
      BY <3>1, <3>2
  <2>2. PixelWidth(none, bold) = 0
    BY NoWidth
  <2>3. f[0].lines = none /\ f[0].current = none /\ f[0].current_width = 0
    BY <1>5 DEF NoLine
  <2> HIDE DEF none
  <2>41. Fits(none, max, bold) /\ \A l \in 1..Len(none) : Fits(none[l], max, bold)
    BY <2>1, <2>2 DEF Fits
  <2>4. Wraps(f[0], Prefix(glyphs, 0), max, bold)
    BY <2>1, <2>2, <2>3, <2>41 DEF Wraps
  <2> QED
    BY <2>4
<1>8. \A k \in Nat : k \in T => k + 1 \in T
  <2> SUFFICES ASSUME NEW k \in Nat, k \in T, k + 1 <= n
               PROVE  Wraps(f[k + 1], Prefix(glyphs, k + 1), max, bold)
    OBVIOUS
  <2>1. k <= n /\ k \in 0..n /\ k + 1 \in 1..n /\ (k + 1) - 1 = k
    BY <1>2
  <2>2. Wraps(f[k], Prefix(glyphs, k), max, bold) /\ f[k] \in Wrappings(G)
    BY <1>5, <2>1
  <2>3. f[k + 1] = PushGlyph(f[k], glyphs[k + 1], max, bold)
    BY <1>6, <2>1
  <2>4. glyphs[k + 1] \in G
    BY <1>3, <2>1, ElementOfSeq
  <2>5. Prefix(glyphs, k + 1) = Append(Prefix(glyphs, k), glyphs[k + 1])
    BY <1>3, PrefixGrows
  <2> DEFINE s == f[k]
             u == glyphs[k + 1]
             before == Prefix(glyphs, k)
  <2>6. s \in Wrappings(G) /\ u \in G /\ Wraps(s, before, max, bold)
    BY <2>2, <2>4
  <2> HIDE DEF s, u, before
  <2>7. Wraps(PushGlyph(s, u, max, bold), Append(before, u), max, bold)
    BY <1>1, <2>6, PushWraps
  <2> QED
    BY <2>3, <2>5, <2>7 DEF s, u, before
<1> HIDE DEF T
<1>9. Nat \subseteq T
  BY ONLY <1>7, <1>8, Induction
<1> DEFINE lines == f[n].lines
           current == f[n].current
           wrapped == Append(lines, current)
<1>10. Wraps(f[n], Prefix(glyphs, n), max, bold) /\ f[n] \in Wrappings(G)
  <2>1. n \in T /\ n <= n /\ n \in 0..n
    BY <1>2, <1>9
  <2> QED
    BY <1>5, <2>1 DEF T
<1>11. Prefix(glyphs, n) = glyphs
  BY <1>3 DEF Prefix
<1>12. lines \in Seq(Seq(G)) /\ current \in Seq(G)
  BY <1>10 DEF Wrappings
<1>13. /\ FlattenSeq(lines) \o current = glyphs /\ Fits(current, max, bold)
       /\ \A l \in 1..Len(lines) : Fits(lines[l], max, bold)
  BY <1>10, <1>11 DEF Wraps
<1> HIDE DEF lines, current
<1>14. FlattenSeq(wrapped) = glyphs
  BY <1>12, <1>13, FlattenIs
<1>15. ASSUME NEW l \in DOMAIN wrapped
       PROVE  Fits(wrapped[l], max, bold)
  <2>1. /\ DOMAIN wrapped = 1..(Len(lines) + 1) /\ wrapped[Len(lines) + 1] = current
        /\ Len(lines) \in Nat /\ \A j \in 1..Len(lines) : wrapped[j] = lines[j]
    BY <1>12, AppendProperties, LenProperties
  <2> HIDE DEF wrapped
  <2>2. l \in 1..Len(lines) \/ l = Len(lines) + 1
    BY <2>1
  <2> QED
    BY <1>13, <2>1, <2>2
<1>16. wrap_text(text, max, bold) = wrapped
  BY <1>4 DEF lines, current
<1> HIDE DEF wrapped
<1> QED
  BY <1>14, <1>15, <1>16 DEF KeepsText, Fits, glyphs
=============================================================================
