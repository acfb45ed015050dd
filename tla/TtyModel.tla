----------------------------- MODULE TtyModel -----------------------------
(***************************************************************************)
(* The bot's terminal (discord-bot/gridbot/tty_model.py): the character     *)
(* plane that a job in tty mode writes to, the cursor, and the decoding of  *)
(* UTF-8, one byte after the other. One action is one byte of output.       *)
(*                                                                          *)
(* Bytes are told apart as far as write_normal and write_utf8 do: the       *)
(* control characters that do something, the ones that do nothing, ASCII    *)
(* characters, the first bytes of UTF-8 characters by their length,         *)
(* continuation bytes and bytes that occur in no UTF-8 text.                *)
(***************************************************************************)
EXTENDS Integers, Sequences

CONSTANTS
  Sizes,       \* <<lines, columns>>, as users type them in !term: any integers
  Letters,     \* printable characters
  TabWidth,    \* TAB_WIDTH, 8 in the code
  MaxScrolls   \* bound: rows scrolled off the plane

Space == "space"
Replacement == "replacement"     \* U+FFFD
Glyphs == Letters \cup {Replacement}

ASSUME SizesAssumption == Sizes \subseteq Int \X Int
ASSUME LettersAssumption == Letters # {} /\ {Space, Replacement} \cap Letters = {}
ASSUME TabAssumption == TabWidth \in Nat \ {0}
ASSUME ScrollsAssumption == MaxScrolls \in Nat

VARIABLES
  lines, columns,   \* the size of the plane
  plane,            \* char_plane, a sequence of rows
  line, column,     \* cursor_line and cursor_column, counted from 0
  state,            \* TtyState
  utf8,             \* utf8_buffer
  raised,           \* has an IndexError left write
  gone              \* history: the rows that were scrolled off the plane

screen == <<plane, line, column, gone>>
vars == <<lines, columns, plane, line, column, state, utf8, raised, gone>>

Leads == {"lead1", "lead2", "lead3"}     \* followed by that many bytes
Ignored == {"control"}
Bytes == {"BS", "HT", "LF", "VT", "FF", "CR"} \cup Ignored \cup Letters \cup
         Leads \cup {"continuation", "invalid"}

---------------------------------------------------------------------------
(* The screen. A screen is <<plane, line, column, gone>>.                   *)

Row == [c \in 0..columns - 1 |-> Space]

\* `scroll` deletes the first row, appends a blank one and moves the cursor up.
MutantScroll(p, l, c, g) == <<Append(Tail(p), Row), l, c, Append(g, Head(p))>>
Scroll(p, l, c, g) == <<Append(Tail(p), Row), l - 1, c, Append(g, Head(p))>>

LineFeed(p, l, c, g) ==
  IF l + 1 >= lines THEN Scroll(p, l + 1, c, g) ELSE <<p, l + 1, c, g>>

CarriageReturn(p, l, c, g) == <<p, l, 0, g>>

\* Is there a character under the cursor? A negative column occurs only on rows
\* that have no columns at all.
Addressable == line \in 0..Len(plane) - 1 /\ column \in 0..columns - 1

\* put_one_char, when it does not raise. At the margin it wraps.
MutantWraps(c) == c >= columns
Wraps(c) == c + 1 >= columns

PutOneChar(g) ==
  LET p == [plane EXCEPT ![line + 1][column] = g] IN
  IF Wraps(column) THEN LineFeed(p, line, 0, gone) ELSE <<p, line, column + 1, gone>>

MutantBackspace == IF column > 0 THEN <<plane, line, column - 1, gone>>
                   ELSE <<plane, line - 1, columns - 1, gone>>
Backspace ==
  IF column > 0 THEN <<plane, line, column - 1, gone>>
  ELSE IF line > 0 THEN <<plane, line - 1, columns - 1, gone>>
  ELSE screen

NextTab == (column \div TabWidth + 1) * TabWidth
HorizontalTab ==
  <<plane, line, IF NextTab >= columns THEN columns - 1 ELSE NextTab, gone>>

---------------------------------------------------------------------------
(* Steps                                                                    *)

Show(s) ==
  /\ plane' = s[1] /\ line' = s[2] /\ column' = s[3] /\ gone' = s[4]
  /\ UNCHANGED raised

\* put_one_char indexes the plane first of all, and raises if it cannot.
Put(g) ==
  \/ Addressable /\ Show(PutOneChar(g))
  \/ ~Addressable /\ raised' = TRUE /\ UNCHANGED screen

\* A line feed at the end of an empty plane has no row to delete.
Feed ==
  \/ lines > 0 /\ Show(LineFeed(plane, line, column, gone))
  \/ lines <= 0 /\ raised' = TRUE /\ UNCHANGED screen

Control(b) ==
  /\ state = "NORMAL"
  /\ \/ b \in {"LF", "VT", "FF"} /\ Feed
     \/ b = "CR" /\ Show(CarriageReturn(plane, line, column, gone))
     \/ b = "BS" /\ Show(Backspace)
     \/ b = "HT" /\ Show(HorizontalTab)
     \/ b \in Ignored /\ Show(screen)
  /\ UNCHANGED <<state, utf8>>

Ascii(b) ==
  /\ state = "NORMAL" /\ b \in Letters
  /\ Put(b)
  /\ UNCHANGED <<state, utf8>>

\* The first byte of a UTF-8 character is buffered, and says how many follow.
FirstState(b) == CASE b = "lead1" -> "UTF8_ONE"
                   [] b = "lead2" -> "UTF8_TWO"
                   [] b = "lead3" -> "UTF8_THREE"

Utf8First(b) ==
  /\ state = "NORMAL" /\ b \in Leads
  /\ utf8' = Append(utf8, b) /\ state' = FirstState(b)
  /\ Show(screen)

\* Any other byte is an error. utf8_error clears the buffer.
MutantCleared(buf) == buf
Cleared(buf) == <<>>

Utf8Error(b) ==
  /\ state = "NORMAL" /\ b \in {"continuation", "invalid"}
  /\ utf8' = Cleared(Append(utf8, b)) /\ UNCHANGED state
  /\ Put(Replacement)

\* Within a character all that matters of a byte is whether it belongs there.
Follower(b) == IF b = "continuation" THEN b ELSE "invalid"

\* Bytes of a character are buffered unseen until the last one is there.
Utf8Middle(b) ==
  /\ state \in {"UTF8_THREE", "UTF8_TWO"}
  /\ utf8' = Append(utf8, Follower(b))
  /\ state' = IF state = "UTF8_THREE" THEN "UTF8_TWO" ELSE "UTF8_ONE"
  /\ Show(screen)

\* What the buffer decodes to. Continuation bytes may still encode nothing (an
\* overlong form, a surrogate, a number that is too large).
Decodings(buf) ==
  {Replacement} \cup
  (IF \A i \in 2..Len(buf) : buf[i] = "continuation" THEN Letters ELSE {})

\* An IndexError leaves the buffer and the state as they are.
Utf8Last(b) ==
  /\ state = "UTF8_ONE"
  /\ \E g \in Decodings(Append(utf8, Follower(b))) :
       /\ Put(g)
       /\ utf8' = IF raised' /\ g # Replacement THEN Append(utf8, Follower(b)) ELSE <<>>
       /\ state' = IF raised' THEN state ELSE "NORMAL"

---------------------------------------------------------------------------
Init ==
  /\ \E size \in Sizes : lines = size[1] /\ columns = size[2]
  /\ plane = [r \in 1..lines |-> Row]
  /\ line = 0 /\ column = 0
  /\ state = "NORMAL" /\ utf8 = <<>>
  /\ raised = FALSE
  /\ gone = <<>>

\* write_one_char.
WriteOneChar(b) ==
  /\ ~raised
  /\ Control(b) \/ Ascii(b) \/ Utf8First(b) \/ Utf8Error(b) \/ Utf8Middle(b) \/ Utf8Last(b)
  /\ Len(gone') <= MaxScrolls
  /\ UNCHANGED <<lines, columns>>

Next == \E b \in Bytes : WriteOneChar(b)

Spec == Init /\ [][Next]_vars

---------------------------------------------------------------------------
(* Correctness                                                              *)

Proper == lines > 0 /\ columns > 0

\* The plane is rectangular and of glyphs, whatever was written to it.
TypeOK ==
  /\ lines \in Int /\ columns \in Int
  /\ plane \in Seq([0..columns - 1 -> Glyphs \cup {Space}])
  /\ Len(plane) = IF lines > 0 THEN lines ELSE 0
  /\ line \in Nat /\ column \in Int
  /\ state \in {"NORMAL", "UTF8_ONE", "UTF8_TWO", "UTF8_THREE"}
  /\ utf8 \in Seq(Bytes)
  /\ raised \in BOOLEAN
  /\ gone \in Seq([0..columns - 1 -> Glyphs \cup {Space}])

\* Every sequence of bytes leaves the cursor on the plane, so that no output
\* makes write raise an IndexError, which would cost the bot its link to the
\* broker; only a size that has no cell at all can.
NeverRaises == Proper => Addressable /\ ~raised

\* The bytes buffered are those of the character that the state says is
\* incomplete: a malformed sequence costs what it announced and no more.
Expected(lead) == CASE lead = "lead1" -> 2 [] lead = "lead2" -> 3 [] lead = "lead3" -> 4
Missing == CASE state = "NORMAL" -> 0 [] state = "UTF8_ONE" -> 1
             [] state = "UTF8_TWO" -> 2 [] state = "UTF8_THREE" -> 3
BufferMatchesState ==
  ~raised => IF state = "NORMAL" THEN utf8 = <<>>
             ELSE /\ utf8 # <<>> /\ utf8[1] \in Leads
                  /\ Len(utf8) + Missing = Expected(utf8[1])

\* What the terminal shows is the end of what was ever typed: the rows that are
\* gone and the plane together are an endless sheet (module Paper), so wrapping
\* and scrolling neither lose, double nor displace what was written. A screen
\* without cells shows nothing.
Blank == [r \in 1..lines |-> Row]
Sheet == INSTANCE Paper WITH
  size <- <<lines, columns>>,
  paper <- IF Proper THEN gone \o plane ELSE Blank,
  head <- IF Proper THEN <<Len(gone) + line + 1, column>> ELSE <<1, 0>>

KeepsPaper == Sheet!Spec

=============================================================================
