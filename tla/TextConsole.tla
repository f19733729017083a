----------------------------- MODULE TextConsole ----------------------------
(***************************************************************************)
(* EFI_SIMPLE_TEXT_OUTPUT (efi/console.rs) on the framebuffer: a cursor, a *)
(* colour attribute, a grid of cells that scrolls, the copy of cursor and  *)
(* attribute that applications read (Mode), and the copy of the            *)
(* framebuffer that the GPU displays.                                      *)
(*                                                                         *)
(* A cell is its background and the glyphs drawn on it: draw_char sets     *)
(* the pixels of a glyph and clears none, so one glyph is drawn over       *)
(* another.  The grid's height is a whole number of cells (600 pixels).    *)
(* The copy of the output on the serial line is left out.                  *)
(***************************************************************************)
EXTENDS Naturals, Sequences, SequencesExt

CONSTANTS
    Cols, Rows,     \* grid_size
    Printable,      \* characters of the font
    Attributes,     \* attributes: each stands for its two colours
    DefaultAttr     \* 0x07

ASSUME TextAssumption ==
    /\ {Cols, Rows} \subseteq Nat \ {0}
    /\ DefaultAttr \in Attributes
    /\ "boot" \notin Attributes
    /\ {"CR", "LF", "BS"} \cap Printable = {}

VARIABLES
    text,       \* CURSOR_COL, CURSOR_ROW, ATTRIBUTE and the framebuffer's cells
    mode,       \* OUT_MODE
    shown,      \* the framebuffer as of the last flush
    page        \* history: the page that is being written

textVars == <<text, mode, shown, page>>

Row == 0..(Rows - 1)
Col == 0..(Cols - 1)

Blank(colour) == [bg |-> colour, ink |-> <<>>]
BlankRow(colour) == [c \in Col |-> Blank(colour)]
BlankScreen(colour) == [r \in Row |-> BlankRow(colour)]

-----------------------------------------------------------------------------
(* Framebuffer::scroll_up by one row of cells.                             *)
ScrollUp(cells, colour) ==
    [r \in Row |-> IF r + 1 \in Row THEN cells[r + 1] ELSE BlankRow(colour)]

(* Mutant of Newline: the last row is taken for one too many. *)
Newline_Early(t) ==
    IF t.row + 2 < Rows THEN [t EXCEPT !.col = 0, !.row = @ + 1]
    ELSE [t EXCEPT !.col = 0, !.row = Rows - 1, !.cells = ScrollUp(@, t.attr)]

Newline(t) ==
    IF t.row + 1 < Rows THEN [t EXCEPT !.col = 0, !.row = @ + 1]
    ELSE [t EXCEPT !.col = 0, !.row = Rows - 1, !.cells = ScrollUp(@, t.attr)]

Drawn(t, ch) ==
    [t EXCEPT !.col = @ + 1,
              !.cells[t.row][t.col].ink = IF ch = " " THEN @ ELSE Append(@, <<ch, t.attr>>)]

(* put_char: a full line is left only when one more character comes.       *)
PutChar(t, ch) == Drawn(IF t.col >= Cols THEN Newline(t) ELSE t, ch)

(* One character of output_string's loop.                                  *)
Output(t, ch) ==
    CASE ch = "CR"          -> [t EXCEPT !.col = 0]
      [] ch = "LF"          -> Newline(t)
      [] ch = "BS"          -> [t EXCEPT !.col = IF @ > 0 THEN @ - 1 ELSE 0]
      [] ch \in Printable   -> PutChar(t, ch)
      [] OTHER              -> t

(* output_string's loop.                                                   *)
Printed(t, s) ==
    LET Out[n \in 0..Len(s)] == IF n = 0 THEN t ELSE Output(Out[n - 1], s[n])
    IN  Out[Len(s)]

(* sync_mode.                                                              *)
Synced(m, t) == [m EXCEPT !.col = t.col, !.row = t.row, !.attr = t.attr]

-----------------------------------------------------------------------------
(* The page: what is written, on a roll of paper of which the screen shows *)
(* Rows lines.  Nothing on it ever moves; the screen does.                 *)
NewPage(colour) ==
    [line |-> 0, col |-> 0, top |-> 0, paper |-> BlankScreen(colour)]

(* The paper comes out in the colour set when it is first reached.         *)
NextLine(p, colour) ==
    LET n == p.line + 1
    IN  [p EXCEPT !.line = n, !.col = 0,
                  !.top = IF n < @ + Rows THEN @ ELSE n - Rows + 1,
                  !.paper = [l \in DOMAIN @ \cup {n} |-> IF l \in DOMAIN @ THEN @[l] ELSE BlankRow(colour)]]

Marked(p, ch, colour) ==
    [p EXCEPT !.col = @ + 1,
              !.paper[p.line][p.col].ink = IF ch = " " THEN @ ELSE Append(@, <<ch, colour>>)]

Typed(p, ch, colour) ==
    CASE ch = "CR"          -> [p EXCEPT !.col = 0]
      [] ch = "LF"          -> NextLine(p, colour)
      [] ch = "BS"          -> [p EXCEPT !.col = IF @ = 0 THEN 0 ELSE @ - 1]
      [] ch \in Printable   -> Marked(IF p.col = Cols THEN NextLine(p, colour) ELSE p, ch, colour)
      [] OTHER              -> p

Written(p, s, colour) ==
    LET Line[n \in 0..Len(s)] == IF n = 0 THEN p ELSE Typed(Line[n - 1], s[n], colour)
    IN  Line[Len(s)]

Window(p) == [r \in Row |-> p.paper[p.top + r]]

-----------------------------------------------------------------------------
(* Operations.                                                             *)

TextInit ==
    /\ text = [col |-> 0, row |-> 0, attr |-> DefaultAttr, cells |-> BlankScreen("boot")]
    /\ mode = [col |-> 0, row |-> 0, attr |-> DefaultAttr, visible |-> TRUE]
    /\ shown = text.cells
    /\ page = NewPage("boot")

(* init, right before an image is started on the screen the boot manager   *)
(* drew: cursor and attribute are reset; Mode and the screen are not.      *)
TextStart ==
    /\ text' = [col |-> 0, row |-> 0, attr |-> DefaultAttr, cells |-> BlankScreen("boot")]
    /\ shown' = text'.cells
    /\ page' = NewPage("boot")
    /\ UNCHANGED mode

(* output_string.                                                          *)
OutputString(s) ==
    /\ text' = Printed(text, s)
    /\ mode' = Synced(mode, text')
    /\ shown' = text'.cells
    /\ page' = Written(page, s, text.attr)

(* Mutant of SetAttribute: Mode is not brought up to date. *)
SetAttribute_NoSync(a) ==
    /\ text' = [text EXCEPT !.attr = a]
    /\ UNCHANGED <<mode, shown, page>>

SetAttribute(a) ==
    /\ text' = [text EXCEPT !.attr = a]
    /\ mode' = Synced(mode, text')
    /\ UNCHANGED <<shown, page>>

(* clear_screen and text_reset.                                            *)
ClearScreen ==
    /\ text' = [text EXCEPT !.col = 0, !.row = 0, !.cells = BlankScreen(text.attr)]
    /\ mode' = Synced(mode, text')
    /\ shown' = text'.cells
    /\ page' = NewPage(text.attr)

(* set_cursor_position, of a position on the grid.                         *)
SetCursorPosition(c, r) ==
    /\ text' = [text EXCEPT !.col = c, !.row = r]
    /\ mode' = Synced(mode, text')
    /\ page' = [page EXCEPT !.col = c, !.line = page.top + r]
    /\ UNCHANGED shown

EnableCursor(v) ==
    /\ mode' = [mode EXCEPT !.visible = v]
    /\ UNCHANGED <<text, shown, page>>

-----------------------------------------------------------------------------
(* The cursor stays on the grid, or just past the end of a full line.      *)
TextTypeOK ==
    /\ text.col \in 0..Cols /\ text.row \in Row /\ text.attr \in Attributes
    /\ DOMAIN text.cells = Row /\ \A r \in Row : DOMAIN text.cells[r] = Col

(* Wrapping, scrolling and cursor moves lose and move nothing: the screen  *)
(* is the window on the page that was written, down to its last line, each *)
(* line on the background that was set when it first came up (console.rs   *)
(* newline, put_char; framebuffer.rs scroll_up).                           *)
ScreenIsWindow ==
    /\ text.cells = Window(page)
    /\ text.row = page.line - page.top /\ text.col = page.col
=============================================================================
