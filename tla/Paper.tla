------------------------------- MODULE Paper -------------------------------
(***************************************************************************)
(* What a terminal promises to whoever reads its screen: it types on an     *)
(* endless sheet of paper, of which the screen shows the last rows. What    *)
(* has left the screen stays as it was; a new row is blank; typing never    *)
(* leaves the margins.                                                      *)
(***************************************************************************)
EXTENDS Integers, Sequences

CONSTANTS
  Sizes,      \* <<lines, columns>> a screen may have
  Glyphs,     \* what can be typed
  Space,      \* an empty cell
  TabWidth    \* distance of the tab stops

VARIABLES
  size,       \* lines and columns of the screen
  paper,      \* the rows so far; columns are numbered from 0
  head        \* where the next glyph goes: <<row, column>>

pvars == <<size, paper, head>>

Width == size[2]
BlankRow == [c \in 0..Width - 1 |-> Space]
TopRow == Len(paper) - size[1] + 1     \* of the screen

Init ==
  /\ size \in Sizes
  /\ paper = [r \in 1..size[1] |-> BlankRow]
  /\ head = <<1, 0>>

\* The head goes to row `r`, column `c`; the sheet ends where it has been.
MoveTo(sheet, r, c) ==
  /\ head' = <<r, c>>
  /\ paper' = IF r > Len(sheet) THEN Append(sheet, BlankRow) ELSE sheet
  /\ UNCHANGED size

Feed == MoveTo(paper, head[1] + 1, head[2])
Return == MoveTo(paper, head[1], 0)

Type(g) ==
  /\ head[1] \in DOMAIN paper /\ head[2] \in 0..Width - 1
  /\ LET typed == [paper EXCEPT ![head[1]][head[2]] = g] IN
     IF head[2] + 1 < Width THEN MoveTo(typed, head[1], head[2] + 1)
                            ELSE MoveTo(typed, head[1] + 1, 0)

\* Back to the margin of the row above, if the screen shows it.
Back ==
  \/ head[2] > 0 /\ MoveTo(paper, head[1], head[2] - 1)
  \/ head[2] <= 0 /\ head[1] > TopRow /\ MoveTo(paper, head[1] - 1, Width - 1)

\* To a tab stop further right, or to the margin.
Tab == \E c \in {TabWidth * n : n \in 0..Width} \cup {Width - 1} :
         /\ c > head[2] \/ c = Width - 1
         /\ c < Width
         /\ MoveTo(paper, head[1], c)

Next == Feed \/ Return \/ Back \/ Tab \/ \E g \in Glyphs : Type(g)

Spec == Init /\ [][Next]_pvars

=============================================================================
