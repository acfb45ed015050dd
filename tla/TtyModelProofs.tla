--------------------------- MODULE TtyModelProofs ---------------------------
(***************************************************************************)
(* The terminal of module TtyModel, for every size of the screen, every     *)
(* distance of the tab stops and everything a job may write: it is well     *)
(* typed, no output makes write raise an exception, and malformed UTF-8     *)
(* costs what it announced.                                                 *)
(***************************************************************************)
EXTENDS TtyModel, TLAPS

USE SizesAssumption, TabAssumption

Rows == [0..columns - 1 -> Glyphs \cup {Space}]
Height == IF lines > 0 THEN lines ELSE 0

SizeOK == lines \in Int /\ columns \in Int
Inv == TypeOK /\ NeverRaises

\* What every operation on the screen keeps.
Fits(s) ==
  /\ s[1] \in Seq(Rows) /\ Len(s[1]) = Height
  /\ s[2] \in Nat /\ s[3] \in Int
  /\ s[4] \in Seq(Rows)
  /\ Proper => s[2] \in 0..lines - 1 /\ s[3] \in 0..columns - 1

LEMMA BlankRowType == SizeOK => Row \in Rows
BY DEF SizeOK, Row, Rows

LEMMA TypeIsFits == Inv <=>
  /\ SizeOK /\ Fits(screen)
  /\ state \in {"NORMAL", "UTF8_ONE", "UTF8_TWO", "UTF8_THREE"}
  /\ utf8 \in Seq(Bytes) /\ raised \in BOOLEAN
  /\ Proper => ~raised
BY DEF Inv, TypeOK, NeverRaises, SizeOK, Fits, screen, Rows, Height, Proper, Addressable

LEMMA ScrollFits ==
  ASSUME SizeOK, lines > 0, NEW p \in Seq(Rows), Len(p) = Height, NEW l \in Nat, l > 0,
         NEW c \in Int, NEW g \in Seq(Rows),
         Proper => l \in 1..lines /\ c \in 0..columns - 1
  PROVE  Fits(Scroll(p, l, c, g))
<1>1. p # <<>> /\ Head(p) \in Rows /\ Tail(p) \in Seq(Rows) /\ Len(Tail(p)) = Height - 1
  BY DEF SizeOK, Height
<1>2. Append(Tail(p), Row) \in Seq(Rows) /\ Len(Append(Tail(p), Row)) = Height
  BY <1>1, BlankRowType DEF SizeOK, Height
<1>3. Append(g, Head(p)) \in Seq(Rows)
  BY <1>1
<1> QED
  BY <1>2, <1>3 DEF Fits, Scroll, SizeOK

LEMMA LineFeedFits ==
  ASSUME SizeOK, lines > 0, NEW p \in Seq(Rows), Len(p) = Height, NEW l \in Nat,
         NEW c \in Int, NEW g \in Seq(Rows),
         Proper => l \in 0..lines - 1 /\ c \in 0..columns - 1
  PROVE  Fits(LineFeed(p, l, c, g))
<1>1. CASE l + 1 >= lines
  BY <1>1, ScrollFits DEF LineFeed, SizeOK
<1>2. CASE ~(l + 1 >= lines)
  BY <1>2 DEF LineFeed, Fits, SizeOK
<1> QED
  BY <1>1, <1>2

LEMMA PutFits ==
  ASSUME Inv, NEW g \in Glyphs, Addressable
  PROVE  Fits(PutOneChar(g))
<1> DEFINE p == [plane EXCEPT ![line + 1][column] = g]
<1>1. Proper /\ SizeOK /\ line + 1 \in 1..Len(plane) /\ column \in 0..columns - 1
  BY DEF Inv, TypeOK, Addressable, Proper, SizeOK
<1>2. plane \in Seq(Rows) /\ Len(plane) = Height /\ plane[line + 1] \in Rows
  BY <1>1 DEF Inv, TypeOK, Rows, Height
<1>3. [plane[line + 1] EXCEPT ![column] = g] \in Rows
  BY <1>1, <1>2 DEF Rows
<1>4. p \in Seq(Rows) /\ Len(p) = Height
  BY <1>1, <1>2, <1>3
<1>5. CASE Wraps(column)
  <2>1. line \in Nat /\ gone \in Seq(Rows) /\ line \in 0..lines - 1 /\ 0 \in 0..columns - 1 /\ lines > 0
    BY <1>1, <1>2 DEF Inv, TypeOK, Rows, Proper, SizeOK, Height
  <2> HIDE DEF p
  <2>2. Fits(LineFeed(p, line, 0, gone))
    BY <1>1, <1>4, <2>1, LineFeedFits
  <2> USE DEF p
  <2> QED
    BY <1>5, <2>2 DEF PutOneChar
<1>6. CASE ~Wraps(column)
  BY <1>1, <1>4, <1>6 DEF PutOneChar, Wraps, Fits, Proper, Inv, TypeOK, Rows, SizeOK, Height
<1> QED
  BY <1>5, <1>6

LEMMA BackspaceFits == ASSUME Inv PROVE Fits(Backspace)
BY TypeIsFits DEF Fits, screen, Backspace, SizeOK, Proper

\* The next tab stop is to the right, and at most that many stops from the margin.
LEMMA TabStops ==
  ASSUME NEW c \in Nat
  PROVE  /\ c \div TabWidth + 1 \in 1..c + 1
         /\ (c \div TabWidth + 1) * TabWidth \in Nat
         /\ (c \div TabWidth + 1) * TabWidth > c
<1> DEFINE q == c \div TabWidth
           r == c % TabWidth
<1>1. q \in Nat /\ r \in 0..TabWidth - 1 /\ c = TabWidth * q + r
  OBVIOUS
<1>2. ASSUME NEW n \in Nat, NEW t \in Nat \ {0} PROVE t * n >= n /\ t * n \in Nat
  OBVIOUS
<1> HIDE DEF q, r
<1>3. q \in 0..c
  BY <1>1, <1>2
<1>4. (q + 1) * TabWidth = TabWidth * q + TabWidth
  BY <1>3
<1>5. TabWidth * q \in Nat
  BY <1>1, <1>2
<1>6. q + 1 \in 1..c + 1 /\ (q + 1) * TabWidth \in Nat /\ (q + 1) * TabWidth > c
  BY <1>1, <1>3, <1>4, <1>5
<1> QED
  BY <1>6 DEF q

LEMMA TabFits == ASSUME Inv PROVE Fits(HorizontalTab)
<1>1. SizeOK /\ Fits(screen) /\ column \in Int
  BY TypeIsFits DEF Fits, screen
<1>2. NextTab \in Int
  BY <1>1 DEF NextTab
<1>3. ASSUME Proper PROVE NextTab \in Nat
  <2>1. column \in Nat
    BY <1>1, <1>3 DEF Fits, screen, SizeOK
  <2> QED
    BY <2>1, TabStops DEF NextTab
<1> QED
  BY <1>1, <1>2, <1>3 DEF Fits, screen, HorizontalTab, SizeOK, Proper

---------------------------------------------------------------------------
(* Steps                                                                    *)

SameSize == UNCHANGED <<lines, columns>>

\* What a step does to the screen.
ScreenOK == SizeOK /\ Fits(screen) /\ raised \in BOOLEAN /\ (Proper => ~raised)

LEMMA ShowKeeps ==
  ASSUME Inv, NEW s, Fits(s), Show(s), SameSize
  PROVE  ScreenOK'
BY DEF Show, SameSize, ScreenOK, SizeOK, Fits, screen, Rows, Height, Proper, Inv, TypeOK, NeverRaises

LEMMA PutKeeps ==
  ASSUME Inv, NEW g \in Glyphs, Put(g), SameSize
  PROVE  ScreenOK'
<1>1. CASE Addressable /\ Show(PutOneChar(g))
  BY <1>1, PutFits, ShowKeeps
<1>2. CASE ~Addressable /\ raised' = TRUE /\ UNCHANGED screen
  BY <1>2, TypeIsFits DEF ScreenOK, SameSize, SizeOK, Fits, screen, Rows, Height, Proper, Inv, NeverRaises
<1> QED
  BY <1>1, <1>2 DEF Put

LEMMA FeedKeeps ==
  ASSUME Inv, Feed, SameSize
  PROVE  ScreenOK'
<1>1. SizeOK /\ Fits(screen)
  BY TypeIsFits
<1>2. CASE lines > 0 /\ Show(LineFeed(plane, line, column, gone))
  <2>1. Fits(LineFeed(plane, line, column, gone))
    BY <1>1, <1>2, LineFeedFits DEF Fits, screen
  <2> QED
    BY <1>2, <2>1, ShowKeeps
<1>3. CASE lines <= 0 /\ raised' = TRUE /\ UNCHANGED screen
  BY <1>1, <1>3 DEF ScreenOK, SameSize, SizeOK, Fits, screen, Rows, Height, Proper
<1> QED
  BY <1>2, <1>3 DEF Feed

LEMMA ControlKeeps ==
  ASSUME Inv, NEW b, Control(b), SameSize
  PROVE  ScreenOK'
<1>1. CASE Feed
  BY <1>1, FeedKeeps
<1>2. CASE Show(CarriageReturn(plane, line, column, gone))
  <2>1. Fits(CarriageReturn(plane, line, column, gone))
    BY TypeIsFits DEF Fits, screen, CarriageReturn, Proper, SizeOK
  <2> QED
    BY <1>2, <2>1, ShowKeeps
<1>3. CASE Show(Backspace)
  BY <1>3, BackspaceFits, ShowKeeps
<1>4. CASE Show(HorizontalTab)
  BY <1>4, TabFits, ShowKeeps
<1>5. CASE Show(screen)
  BY <1>5, TypeIsFits, ShowKeeps
<1> QED
  BY <1>1, <1>2, <1>3, <1>4, <1>5 DEF Control

LEMMA GlyphsAre == Letters \subseteq Glyphs /\ Replacement \in Glyphs
BY DEF Glyphs

LEMMA StepKeepsScreen ==
  ASSUME Inv, NEW b \in Bytes, WriteOneChar(b)
  PROVE  ScreenOK'
<1> SameSize
  BY DEF WriteOneChar, SameSize
<1>1. CASE Control(b)
  BY <1>1, ControlKeeps
<1>2. CASE Ascii(b)
  BY <1>2, PutKeeps, GlyphsAre DEF Ascii
<1>3. CASE Utf8First(b)
  BY <1>3, TypeIsFits, ShowKeeps DEF Utf8First
<1>4. CASE Utf8Error(b)
  BY <1>4, PutKeeps, GlyphsAre DEF Utf8Error
<1>5. CASE Utf8Middle(b)
  BY <1>5, TypeIsFits, ShowKeeps DEF Utf8Middle
<1>6. CASE Utf8Last(b)
  <2>1. PICK g \in Glyphs : Put(g)
    BY <1>6, GlyphsAre DEF Utf8Last, Decodings
  <2> QED
    BY <2>1, PutKeeps
<1> QED
  BY <1>1, <1>2, <1>3, <1>4, <1>5, <1>6 DEF WriteOneChar

\* The decoder.
DecoderOK ==
  /\ state \in {"NORMAL", "UTF8_ONE", "UTF8_TWO", "UTF8_THREE"}
  /\ utf8 \in Seq(Bytes)

LEMMA BytesAre == Leads \subseteq Bytes /\ {"continuation", "invalid"} \subseteq Bytes
BY DEF Bytes

LEMMA StepKeepsDecoder ==
  ASSUME DecoderOK, NEW b \in Bytes, WriteOneChar(b)
  PROVE  DecoderOK'
<1>1. Follower(b) \in Bytes
  BY BytesAre DEF Follower
<1>2. CASE Control(b) \/ Ascii(b)
  BY <1>2 DEF Control, Ascii, DecoderOK
<1>3. CASE Utf8First(b)
  BY <1>3 DEF Utf8First, DecoderOK, FirstState, Leads
<1>4. CASE Utf8Error(b)
  BY <1>4 DEF Utf8Error, DecoderOK, Cleared
<1>5. CASE Utf8Middle(b)
  BY <1>1, <1>5 DEF Utf8Middle, DecoderOK
<1>6. CASE Utf8Last(b)
  BY <1>1, <1>6 DEF Utf8Last, DecoderOK
<1> QED
  BY <1>2, <1>3, <1>4, <1>5, <1>6 DEF WriteOneChar

LEMMA InvIs == Inv <=> ScreenOK /\ DecoderOK
BY TypeIsFits DEF ScreenOK, DecoderOK

LEMMA InvIsNext == Inv' <=> (ScreenOK /\ DecoderOK)'
BY InvIs, PTL

LEMMA InitInv == Init => Inv
<1> SUFFICES ASSUME Init PROVE Inv
  OBVIOUS
<1>1. SizeOK
  BY DEF Init, SizeOK
<1>2. Row \in Rows
  BY <1>1, BlankRowType
<1>3. Height \in Nat /\ 1..lines = 1..Height
  BY <1>1 DEF Height, SizeOK
<1>4. plane = [r \in 1..Height |-> Row]
  BY <1>3 DEF Init
<1>5. plane \in Seq(Rows) /\ Len(plane) = Height
  BY <1>2, <1>3, <1>4
<1>6. <<>> \in Seq(Rows) /\ <<>> \in Seq(Bytes)
  OBVIOUS
<1>7. Fits(screen)
  <2>1. line = 0 /\ column = 0 /\ gone = <<>>
    BY DEF Init
  <2>2. Proper => 0 \in 0..lines - 1 /\ 0 \in 0..columns - 1
    BY <1>1 DEF SizeOK, Proper
  <2> QED
    BY <1>5, <1>6, <2>1, <2>2 DEF Fits, screen
<1> QED
  BY <1>1, <1>6, <1>7, TypeIsFits DEF Init

LEMMA NextInv == Inv /\ [Next]_vars => Inv'
<1> SUFFICES ASSUME Inv, [Next]_vars PROVE Inv'
  OBVIOUS
<1>1. ASSUME NEW b \in Bytes, WriteOneChar(b) PROVE Inv'
  BY <1>1, InvIs, InvIsNext, StepKeepsScreen, StepKeepsDecoder
<1>2. CASE UNCHANGED vars
  <2>1. Fits(screen)' <=> Fits(screen)
    BY <1>2 DEF vars, Fits, screen, Rows, Height, Proper
  <2>2. (ScreenOK /\ DecoderOK)'
    BY <1>2, <2>1, InvIs DEF vars, ScreenOK, SizeOK, DecoderOK, Proper
  <2> QED
    BY <2>2, InvIsNext
<1> QED
  BY <1>1, <1>2 DEF Next

LEMMA Invariance == Spec => []Inv
BY InitInv, NextInv, PTL DEF Spec

\* The plane keeps its shape and the cursor its types, for every size of the
\* screen, those without a cell included.
THEOREM TtyTypeCorrect == Spec => []TypeOK
BY Invariance, PTL DEF Inv

\* On a screen that has a cell, no output ever makes tty_model.py's write raise.
THEOREM OutputNeverRaises == Spec => []NeverRaises
BY Invariance, PTL DEF Inv

---------------------------------------------------------------------------
(* Malformed UTF-8                                                          *)

LEMMA InitBuffer == Init => BufferMatchesState
BY DEF Init, BufferMatchesState

LEMMA StepKeepsBuffer ==
  ASSUME DecoderOK, BufferMatchesState, NEW b \in Bytes, WriteOneChar(b)
  PROVE  BufferMatchesState'
<1> ~raised /\ utf8 \in Seq(Bytes)
  BY DEF WriteOneChar, DecoderOK
<1>1. CASE Control(b) \/ Ascii(b)
  BY <1>1 DEF Control, Ascii, BufferMatchesState
<1>2. CASE Utf8First(b)
  BY <1>2 DEF Utf8First, BufferMatchesState, FirstState, Leads, Expected, Missing
<1>3. CASE Utf8Error(b)
  BY <1>3 DEF Utf8Error, BufferMatchesState, Cleared
<1>4. CASE Utf8Middle(b)
  <2>1. Follower(b) \in Bytes
    BY BytesAre DEF Follower
  <2>2. utf8' # <<>> /\ utf8'[1] = utf8[1] /\ Len(utf8') = Len(utf8) + 1
    BY <1>4, <2>1 DEF Utf8Middle, BufferMatchesState
  <2> QED
    BY <1>4, <2>2 DEF Utf8Middle, BufferMatchesState, Expected, Missing, Leads
<1>5. CASE Utf8Last(b)
  BY <1>5 DEF Utf8Last, BufferMatchesState
<1> QED
  BY <1>1, <1>2, <1>3, <1>4, <1>5 DEF WriteOneChar

LEMMA NextBuffer == DecoderOK /\ BufferMatchesState /\ [Next]_vars => BufferMatchesState'
<1> SUFFICES ASSUME DecoderOK, BufferMatchesState, [Next]_vars PROVE BufferMatchesState'
  OBVIOUS
<1>1. CASE Next
  BY <1>1, StepKeepsBuffer DEF Next
<1>2. CASE UNCHANGED vars
  BY <1>2 DEF vars, BufferMatchesState, Missing
<1> QED
  BY <1>1, <1>2

\* An incomplete character in the buffer is the one that the state says, so a
\* malformed sequence costs no more bytes than its first byte announced.
THEOREM MalformedIsContained == Spec => []BufferMatchesState
<1>1. Inv => DecoderOK
  BY InvIs
<1> QED
  BY <1>1, Invariance, InitBuffer, NextBuffer, PTL DEF Spec

---------------------------------------------------------------------------
(* The endless sheet                                                        *)

LEMMA ScrolledPaper ==
  ASSUME NEW S, NEW p \in Seq(S), p # <<>>, NEW g \in Seq(S), NEW r \in S
  PROVE  Append(g, Head(p)) \o Append(Tail(p), r) = Append(g \o p, r)
<1> DEFINE L == Append(g, Head(p)) \o Append(Tail(p), r)
           R == Append(g \o p, r)
<1>1. Len(p) > 0 /\ Head(p) \in S /\ Tail(p) \in Seq(S) /\ Len(Tail(p)) = Len(p) - 1
  OBVIOUS
<1>2. L \in Seq(S) /\ R \in Seq(S) /\ Len(L) = Len(g) + Len(p) + 1 /\ Len(R) = Len(g) + Len(p) + 1
  BY <1>1
<1>3. ASSUME NEW i \in 1..Len(g) + Len(p) + 1 PROVE L[i] = R[i]
  <2>1. CASE i <= Len(g)
    BY <1>1, <2>1
  <2>2. CASE i = Len(g) + 1
    BY <1>1, <2>2
  <2>3. CASE i > Len(g) + 1 /\ i <= Len(g) + Len(p)
    BY <1>1, <2>3
  <2>4. CASE i = Len(g) + Len(p) + 1
    BY <1>1, <2>4
  <2> QED
    BY <2>1, <2>2, <2>3, <2>4
<1> HIDE DEF L, R
<1>4. L = R
  BY <1>2, <1>3
<1> QED
  BY <1>4 DEF L, R

\* The glyph x in row l and column c.
Typed(p, l, c, x) == [p EXCEPT ![l][c] = x]

LEMMA TypedPaper ==
  ASSUME SizeOK, NEW p \in Seq(Rows), NEW g \in Seq(Rows), NEW l \in 1..Len(p),
         NEW c \in 0..columns - 1, NEW x \in Glyphs
  PROVE  Typed(g \o p, Len(g) + l, c, x) = g \o Typed(p, l, c, x)
<1> DEFINE q == [p EXCEPT ![l][c] = x]
           L == [g \o p EXCEPT ![Len(g) + l][c] = x]
           R == g \o q
<1>1. p[l] \in Rows /\ [p[l] EXCEPT ![c] = x] \in Rows
  BY DEF Rows
<1>2. q \in Seq(Rows) /\ Len(q) = Len(p)
  BY <1>1
<1>3. R \in Seq(Rows) /\ Len(R) = Len(g) + Len(p)
  BY <1>2
<1>4. (g \o p)[Len(g) + l] = p[l]
  OBVIOUS
<1>5. L \in Seq(Rows) /\ Len(L) = Len(g) + Len(p)
  BY <1>1, <1>4
<1>6. ASSUME NEW i \in 1..Len(g) + Len(p) PROVE L[i] = R[i]
  <2>0. DOMAIN (g \o p) = 1..Len(g) + Len(p)
    OBVIOUS
  <2>4. i # Len(g) + l => L[i] = (g \o p)[i]
    BY <2>0
  <2>1. CASE i <= Len(g)
    BY <1>2, <2>1, <2>4
  <2>2. CASE i = Len(g) + l
    <3>1. L[i] = [p[l] EXCEPT ![c] = x]
      BY <1>4, <2>2
    <3>2. R[i] = q[l] /\ q[l] = [p[l] EXCEPT ![c] = x]
      BY <1>2, <2>2
    <3> QED
      BY <3>1, <3>2
  <2>3. CASE i > Len(g) /\ i # Len(g) + l
    <3>1. L[i] = (g \o p)[i] /\ (g \o p)[i] = p[i - Len(g)]
      BY <2>3, <2>4
    <3>2. R[i] = q[i - Len(g)]
      BY <1>2, <2>3
    <3>3. q[i - Len(g)] = p[i - Len(g)]
      BY <2>3
    <3> QED
      BY <3>1, <3>2, <3>3
  <2> QED
    BY <2>1, <2>2, <2>3
<1> HIDE DEF L, R
<1>7. L = R
  BY <1>3, <1>5, <1>6
<1> QED
  BY <1>7 DEF L, R, q, Typed

ThePaper == IF Proper THEN gone \o plane ELSE Blank
TheHead == IF Proper THEN <<Len(gone) + line + 1, column>> ELSE <<1, 0>>

LEMMA MoveToIs ==
  ASSUME Proper, SameSize, NEW sheet, NEW r, NEW c
  PROVE  Sheet!MoveTo(sheet, r, c) <=>
           /\ TheHead' = <<r, c>>
           /\ ThePaper' = IF r > Len(sheet) THEN Append(sheet, Row) ELSE sheet
<1>1. UNCHANGED <<lines, columns>>
  BY DEF SameSize
<1>2. Sheet!BlankRow = Row
  BY DEF Sheet!BlankRow, Sheet!Width, Row
<1> QED
  BY <1>1, <1>2 DEF Sheet!MoveTo, TheHead, ThePaper

LEMMA ShownPaper ==
  ASSUME Proper, SameSize, NEW p, NEW l, NEW c, NEW g, Show(<<p, l, c, g>>)
  PROVE  ThePaper' = g \o p /\ TheHead' = <<Len(g) + l + 1, c>>
BY DEF SameSize, Proper, Show, ThePaper, TheHead

\* What is known of a proper screen.
LEMMA ProperScreen ==
  ASSUME Inv, Proper
  PROVE  /\ lines \in Nat /\ columns \in Nat /\ lines > 0 /\ columns > 0
         /\ plane \in Seq(Rows) /\ Len(plane) = lines /\ gone \in Seq(Rows)
         /\ line \in 0..lines - 1 /\ column \in 0..columns - 1
         /\ gone \o plane \in Seq(Rows) /\ Len(gone \o plane) = Len(gone) + lines
         /\ Row \in Rows
<1>1. SizeOK /\ Fits(screen)
  BY TypeIsFits
<1>2. /\ lines \in Nat /\ columns \in Nat /\ lines > 0 /\ columns > 0
      /\ plane \in Seq(Rows) /\ Len(plane) = lines /\ gone \in Seq(Rows)
      /\ line \in 0..lines - 1 /\ column \in 0..columns - 1
  BY <1>1 DEF SizeOK, Fits, screen, Proper, Height
<1> QED
  BY <1>1, <1>2, BlankRowType

LEMMA FeedMoves ==
  ASSUME Inv, Proper, SameSize, NEW p \in Seq(Rows), Len(p) = lines, NEW l \in 0..lines - 1,
         NEW c, Show(LineFeed(p, l, c, gone))
  PROVE  Sheet!MoveTo(gone \o p, Len(gone) + l + 2, c)
<1>1. lines \in Nat /\ lines > 0 /\ gone \in Seq(Rows) /\ Row \in Rows
  BY ProperScreen
<1>2. Len(gone \o p) = Len(gone) + lines /\ Len(gone) \in Nat
  BY <1>1
<1>3. CASE l + 1 >= lines
  <2>1. Show(<<Append(Tail(p), Row), l, c, Append(gone, Head(p))>>)
    BY <1>1, <1>3 DEF LineFeed, Scroll
  <2>2. ThePaper' = Append(gone, Head(p)) \o Append(Tail(p), Row)
        /\ TheHead' = <<Len(Append(gone, Head(p))) + l + 1, c>>
    BY <2>1, ShownPaper
  <2>3. Append(gone, Head(p)) \o Append(Tail(p), Row) = Append(gone \o p, Row)
    <3>1. p # <<>>
      BY <1>1
    <3> QED
      BY <1>1, <3>1, ScrolledPaper
  <2>4. Len(Append(gone, Head(p))) + l + 1 = Len(gone) + l + 2
    BY <1>1
  <2>5. Len(gone) + l + 2 > Len(gone \o p)
    BY <1>1, <1>2, <1>3
  <2> QED
    BY <2>2, <2>3, <2>4, <2>5, MoveToIs
<1>4. CASE ~(l + 1 >= lines)
  <2>1. Show(<<p, l + 1, c, gone>>)
    BY <1>4 DEF LineFeed
  <2>2. ThePaper' = gone \o p /\ TheHead' = <<Len(gone) + (l + 1) + 1, c>>
    BY <2>1, ShownPaper
  <2>3. Len(gone) + (l + 1) + 1 = Len(gone) + l + 2 /\ ~(Len(gone) + l + 2 > Len(gone \o p))
    BY <1>1, <1>2, <1>4
  <2> QED
    BY <2>2, <2>3, MoveToIs
<1> QED
  BY <1>3, <1>4

\* The head stays on the sheet.
LEMMA ShowMoves ==
  ASSUME Inv, Proper, SameSize, NEW l \in 0..lines - 1, NEW c,
         NEW p \in Seq(Rows), Len(p) = lines, Show(<<p, l, c, gone>>)
  PROVE  Sheet!MoveTo(gone \o p, Len(gone) + l + 1, c)
<1>1. lines \in Nat /\ gone \in Seq(Rows)
  BY ProperScreen
<1>2. Len(gone \o p) = Len(gone) + lines /\ ~(Len(gone) + l + 1 > Len(gone \o p))
  BY <1>1
<1>3. ThePaper' = gone \o p /\ TheHead' = <<Len(gone) + l + 1, c>>
  BY ShownPaper
<1> QED
  BY <1>2, <1>3, MoveToIs

LEMMA FeedIsFeed ==
  ASSUME Inv, Proper, SameSize, Feed
  PROVE  Sheet!Feed
<1>1. Show(LineFeed(plane, line, column, gone)) /\ lines \in Nat
  BY ProperScreen DEF Feed
<1>2. Sheet!MoveTo(gone \o plane, Len(gone) + line + 2, column)
  BY <1>1, FeedMoves, ProperScreen
<1>3. Len(gone) + line + 2 = (Len(gone) + line + 1) + 1
  BY ProperScreen
<1> QED
  BY <1>2, <1>3 DEF Sheet!Feed

LEMMA ReturnIsReturn ==
  ASSUME Inv, Proper, SameSize, Show(CarriageReturn(plane, line, column, gone))
  PROVE  Sheet!Return
<1>1. Sheet!MoveTo(gone \o plane, Len(gone) + line + 1, 0)
  BY ShowMoves, ProperScreen DEF CarriageReturn
<1> QED
  BY <1>1 DEF Sheet!Return

LEMMA BackIsBack ==
  ASSUME Inv, Proper, SameSize, Show(Backspace)
  PROVE  Sheet!Back \/ Show(screen)
<1>1. CASE column > 0
  <2>1. Sheet!MoveTo(gone \o plane, Len(gone) + line + 1, column - 1)
    BY <1>1, ShowMoves, ProperScreen DEF Backspace
  <2> QED
    BY <1>1, <2>1 DEF Sheet!Back
<1>2. CASE ~(column > 0) /\ line > 0
  <2>1. Show(<<plane, line - 1, columns - 1, gone>>) /\ line - 1 \in 0..lines - 1
    BY <1>2, ProperScreen DEF Backspace
  <2>2. Sheet!MoveTo(gone \o plane, Len(gone) + (line - 1) + 1, columns - 1)
    BY <2>1, ShowMoves, ProperScreen
  <2>3. Len(gone) + (line - 1) + 1 = (Len(gone) + line + 1) - 1
    BY ProperScreen
  <2>4. Sheet!TopRow = Len(gone) + 1 /\ Len(gone) + line + 1 > Len(gone) + 1
    BY <1>2, ProperScreen DEF Sheet!TopRow
  <2>5. column <= 0
    BY <1>2, ProperScreen
  <2> QED
    BY <2>2, <2>3, <2>4, <2>5 DEF Sheet!Back, Sheet!Width
<1>3. CASE ~(column > 0) /\ ~(line > 0)
  BY <1>3 DEF Backspace
<1> QED
  BY <1>1, <1>2, <1>3

LEMMA TabIsTab ==
  ASSUME Inv, Proper, SameSize, Show(HorizontalTab)
  PROVE  Sheet!Tab
<1> DEFINE n == column \div TabWidth + 1
           stop == IF NextTab >= columns THEN columns - 1 ELSE NextTab
<1>1. column \in Nat /\ columns \in Nat /\ column < columns /\ columns > 0
  BY ProperScreen
<1>2. n \in 1..column + 1 /\ n * TabWidth \in Nat /\ n * TabWidth > column
  BY <1>1, TabStops
<1>3. NextTab = n * TabWidth /\ n * TabWidth = TabWidth * n /\ n \in 0..columns
  BY <1>1, <1>2 DEF NextTab
<1>4. Sheet!MoveTo(gone \o plane, Len(gone) + line + 1, stop)
  BY ShowMoves, ProperScreen DEF HorizontalTab
<1> HIDE DEF n
<1>5. /\ stop \in {TabWidth * i : i \in 0..columns} \cup {columns - 1}
      /\ stop > column \/ stop = columns - 1
      /\ stop < columns
  BY <1>1, <1>2, <1>3
<1> HIDE DEF stop
<1> QED
  BY <1>4, <1>5 DEF Sheet!Tab, Sheet!Width

LEMMA PutIsType ==
  ASSUME Inv, Proper, SameSize, NEW g \in Glyphs, Put(g)
  PROVE  Sheet!Type(g)
<1> DEFINE p == [plane EXCEPT ![line + 1][column] = g]
           h == Len(gone) + line + 1
<1>1. Show(PutOneChar(g))
  BY DEF Put, Inv, NeverRaises
<1>2. line + 1 \in 1..Len(plane) /\ plane[line + 1] \in Rows
  BY ProperScreen
<1>3. [plane[line + 1] EXCEPT ![column] = g] \in Rows
  BY <1>2 DEF Rows
<1>4. p \in Seq(Rows) /\ Len(p) = lines
  BY <1>2, <1>3, ProperScreen
<1>5. [gone \o plane EXCEPT ![Len(gone) + (line + 1)][column] = g] = gone \o p
  <2>1. SizeOK /\ plane \in Seq(Rows) /\ gone \in Seq(Rows) /\ column \in 0..columns - 1
    BY ProperScreen, TypeIsFits
  <2>2. Typed(gone \o plane, Len(gone) + (line + 1), column, g) = gone \o Typed(plane, line + 1, column, g)
    BY <1>2, <2>1, TypedPaper
  <2> QED
    BY <2>2 DEF Typed
<1>6. h = Len(gone) + (line + 1) /\ h \in DOMAIN (gone \o plane) /\ column \in 0..columns - 1
  BY ProperScreen
<1> HIDE DEF p
<1>7. CASE Wraps(column)
  <2>1. Show(LineFeed(p, line, 0, gone))
    BY <1>1, <1>7 DEF PutOneChar, p
  <2>2. Sheet!MoveTo(gone \o p, Len(gone) + line + 2, 0)
    BY <1>4, <2>1, FeedMoves, ProperScreen
  <2>3. Len(gone) + line + 2 = h + 1 /\ ~(column + 1 < columns)
    BY <1>7, ProperScreen DEF Wraps
  <2> QED
    BY <1>5, <1>6, <2>2, <2>3 DEF Sheet!Type, Sheet!Width
<1>8. CASE ~Wraps(column)
  <2>1. Show(<<p, line, column + 1, gone>>)
    BY <1>1, <1>8 DEF PutOneChar, p
  <2>2. Sheet!MoveTo(gone \o p, h, column + 1)
    BY <1>4, <2>1, ShowMoves, ProperScreen
  <2>3. column + 1 < columns
    BY <1>8, ProperScreen DEF Wraps
  <2> QED
    BY <1>5, <1>6, <2>2, <2>3 DEF Sheet!Type, Sheet!Width
<1> QED
  BY <1>7, <1>8

LEMMA ShowNothing ==
  ASSUME Proper, SameSize, Show(screen)
  PROVE  UNCHANGED Sheet!pvars
BY DEF SameSize, Show, screen, Sheet!pvars, Proper

LEMMA StepKeepsPaper ==
  ASSUME Inv, NEW b \in Bytes, WriteOneChar(b)
  PROVE  [Sheet!Next]_(Sheet!pvars)
<1>1. SameSize
  BY DEF WriteOneChar, SameSize
<1>2. CASE ~Proper
  BY <1>1, <1>2 DEF SameSize, Proper, Sheet!pvars, Blank, Row
<1>3. ASSUME Proper, NEW g \in Glyphs, Put(g) PROVE Sheet!Next
  BY <1>1, <1>3, PutIsType DEF Sheet!Next
<1>4. CASE Proper /\ Control(b)
  BY <1>1, <1>4, FeedIsFeed, ReturnIsReturn, BackIsBack, TabIsTab, ShowNothing DEF Control, Sheet!Next
<1>5. CASE Proper /\ (Ascii(b) \/ Utf8Error(b))
  BY <1>3, <1>5, GlyphsAre DEF Ascii, Utf8Error
<1>6. CASE Proper /\ (Utf8First(b) \/ Utf8Middle(b))
  BY <1>1, <1>6, ShowNothing DEF Utf8First, Utf8Middle
<1>7. CASE Proper /\ Utf8Last(b)
  BY <1>3, <1>7, GlyphsAre DEF Utf8Last, Decodings
<1> QED
  BY <1>2, <1>4, <1>5, <1>6, <1>7 DEF WriteOneChar

LEMMA InitPaper == Init => Sheet!Init
<1> SUFFICES ASSUME Init PROVE Sheet!Init
  OBVIOUS
<1>1. <<lines, columns>> \in Sizes /\ lines \in Int /\ columns \in Int
  BY DEF Init
<1>2. plane = Blank /\ gone = <<>> /\ line = 0 /\ column = 0
  BY DEF Init, Blank
<1>3. Sheet!BlankRow = Row
  BY DEF Sheet!BlankRow, Sheet!Width, Row
<1>4. CASE Proper
  <2>1. plane \in Seq(Rows)
    BY <1>4, InitInv, ProperScreen
  <2>2. gone \o plane = plane /\ Len(gone) = 0
    BY <1>2, <2>1
  <2> QED
    BY <1>1, <1>2, <1>3, <1>4, <2>2 DEF Sheet!Init, Blank
<1>5. CASE ~Proper
  BY <1>1, <1>3, <1>5 DEF Sheet!Init, Blank
<1> QED
  BY <1>4, <1>5

\* The screen is the end of an endless sheet that was typed on: for every size
\* and every output, tty_model.py's wrapping and scrolling lose, double and
\* displace nothing.
THEOREM PaperIsKept == Spec => KeepsPaper
<1>1. Inv /\ [Next]_vars => [Sheet!Next]_(Sheet!pvars)
  <2> SUFFICES ASSUME Inv, [Next]_vars PROVE [Sheet!Next]_(Sheet!pvars)
    OBVIOUS
  <2>1. CASE Next
    BY <2>1, StepKeepsPaper DEF Next
  <2>2. CASE UNCHANGED vars
    BY <2>2 DEF vars, Sheet!pvars, Proper, Blank, Row
  <2> QED
    BY <2>1, <2>2
<1> QED
  BY <1>1, Invariance, InitPaper, PTL DEF Spec, KeepsPaper, Sheet!Spec

=============================================================================
