----------------------------- MODULE TextLines -----------------------------
(***************************************************************************)
(* How a text of the Nano review becomes lines: wrap_text_with_width of    *)
(* app_ui/review_scroller.rs.  A text is a sequence of units, whose widths *)
(* in pixels depend on the font; a unit outside the font is drawn as a     *)
(* question mark.                                                          *)
(***************************************************************************)
EXTENDS Integers, Sequences, SequencesExt

CONSTANTS
  Width(_, _),   \* the width of a unit in pixels, and in the bold font
  Unprintable    \* units outside the fonts, 0x20..0x7f

Glyph(u) == IF u \in Unprintable THEN "?" ELSE u
Glyphs(text) == [k \in DOMAIN text |-> Glyph(text[k])]

PixelWidth(glyphs, bold) ==
  LET sum[k \in 0..Len(glyphs)] == IF k = 0 THEN 0 ELSE sum[k - 1] + Width(glyphs[k], bold)
  IN  sum[Len(glyphs)]

(* One turn of the loop: a glyph that does not fit starts a new line.      *)
NoLine == [lines |-> <<>>, current |-> <<>>, current_width |-> 0]

StartLine(s, glyph, bold) ==
  [lines |-> Append(s.lines, s.current),
   current |-> <<glyph>>, current_width |-> Width(glyph, bold)]
Extend(s, glyph, bold) ==
  [lines |-> s.lines,
   current |-> Append(s.current, glyph), current_width |-> s.current_width + Width(glyph, bold)]

DropGlyph(s, glyph, max, bold) ==   \* mutant: the glyph that does not fit is lost
  IF s.current # <<>> /\ s.current_width + Width(glyph, bold) > max
  THEN [lines |-> Append(s.lines, s.current), current |-> <<>>, current_width |-> 0]
  ELSE Extend(s, glyph, bold)
PushGlyph(s, glyph, max, bold) ==
  IF s.current # <<>> /\ s.current_width + Width(glyph, bold) > max
  THEN StartLine(s, glyph, bold)
  ELSE Extend(s, glyph, bold)

wrap_text(text, max, bold) ==
  LET after[k \in 0..Len(text)] ==
        IF k = 0 THEN NoLine ELSE PushGlyph(after[k - 1], Glyph(text[k]), max, bold)
      end == after[Len(text)]
  IN  Append(end.lines, end.current)

(* Wrapping loses and reorders nothing, and a line is too wide only if one *)
(* glyph alone is.                                                         *)
KeepsText(text, max, bold) ==
  LET lines == wrap_text(text, max, bold)
  IN  /\ FlattenSeq(lines) = Glyphs(text)
      /\ \A l \in DOMAIN lines : PixelWidth(lines[l], bold) <= max \/ Len(lines[l]) = 1
=============================================================================
