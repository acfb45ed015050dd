------------------------ MODULE OutputHandlerProofs ------------------------
(***************************************************************************)
(* Output handlers, for every limit of a message, every size of a terminal  *)
(* and any amount of output: the terminal of a handler is that of module    *)
(* TtyModel, a job that has stopped leaves the table, and the user has all  *)
(* of its output.                                                           *)
(***************************************************************************)
EXTENDS OutputHandler, TtyModelProofs

USE LimitAssumption, FramesAssumption

---------------------------------------------------------------------------
(* The terminal                                                             *)

LEMMA HandlerMovesTerminal == [HandlerNext]_hvars => [Next]_vars
<1> SUFFICES ASSUME [HandlerNext]_hvars PROVE [Next]_vars
  OBVIOUS
<1>1. ASSUME UNCHANGED terminal PROVE [Next]_vars
  BY <1>1 DEF terminal, screen, vars
<1>2. CASE Output
  <2>1. CASE \E output \in {"text", "space"} : WriteToPipe(output)
    BY <1>1, <2>1 DEF WriteToPipe
  <2>2. CASE \E b \in Bytes : WriteToPty(b)
    BY <2>2 DEF WriteToPty, Next
  <2> QED
    BY <1>2, <2>1, <2>2 DEF Output
<1>3. CASE ReceiveStopped \/ Abandon
  BY <1>1, <1>3 DEF ReceiveStopped, Abandon, Stop
<1>4. CASE WriteReturns
  BY <1>1, <1>4 DEF WriteReturns
<1>5. ASSUME NEW t \in Tasks, EditAnswered(t) \/ UploadAnswered(t) \/ Attached(t) \/ StopReturns(t)
      PROVE  [Next]_vars
  BY <1>1, <1>5 DEF EditAnswered, UploadAnswered, Attached, StopReturns
<1>6. CASE UNCHANGED hvars
  BY <1>1, <1>6 DEF hvars
<1> QED
  BY <1>2, <1>3, <1>4, <1>5, <1>6 DEF HandlerNext

LEMMA HandlerImplementsTerminal == HandlerSpec => Spec
<1>1. HandlerInit => Init
  BY DEF HandlerInit
<1> QED
  BY <1>1, HandlerMovesTerminal, PTL DEF HandlerSpec, Spec

\* No output of a job makes its handler raise, unless the terminal has no cell.
THEOREM HandlerNeverRaises == HandlerSpec => []NeverRaises
BY HandlerImplementsTerminal, OutputNeverRaises, PTL

---------------------------------------------------------------------------
(* Types                                                                    *)

Outputs == {"text", "space"}

LEMMA ContentTypes ==
  /\ \A form \in {"none", "promise", "empty", "status"}, error \in BOOLEAN :
       Bare(form, error) \in Contents
  /\ \A output \in Seq(Outputs) : Running(output) \in Contents
  /\ \A output \in Seq(Outputs), frame \in StoppedFrames : Final(output, frame) \in Contents
  /\ Running(Rendered) \in Contents
  /\ \A frame \in StoppedFrames : Final(Rendered, frame) \in Contents
  /\ \A content \in Contents : Aged(content) \in Contents
<1> DEFINE Shown == {"text", "space", "current", "old"}
<1>1. \A output \in Seq(Outputs) : output \in Seq(Shown)
  BY DEF Outputs
<1>2. <<>> \in Seq(Shown) /\ Rendered \in Seq(Shown)
  BY DEF Rendered
<1>3. ASSUME NEW content \in Contents PROVE Aged(content) \in Contents
  <2>1. content.output \in Seq(Shown)
    BY DEF Contents
  <2>2. [i \in DOMAIN content.output |-> "old"] \in Seq(Shown)
    BY <2>1
  <2> QED
    BY <2>2 DEF Aged, Contents
<1> QED
  BY <1>1, <1>2, <1>3 DEF Bare, Running, Final, Contents

LEMMA TasksAre == Mqtt \in Tasks /\ Abandoner \in Tasks /\ Mqtt # Abandoner
                  /\ \A t \in Tasks : t = Mqtt \/ t = Abandoner
BY DEF Tasks, Mqtt, Abandoner

TasksOK ==
  /\ at \in [Tasks -> {"idle", "write", "attach", "finish", "done"}]
  /\ call \in [Tasks -> {"none", "pending", "ok", "failed"}]
  /\ draft \in [Tasks -> Contents]

RestOK ==
  /\ kind \in {"pipe", "pty"} /\ listed \in BOOLEAN
  /\ buffer \in Seq(Outputs) /\ pos \in 0..Len(buffer)
  /\ willAttach \in BOOLEAN /\ (willAttach => kind = "pipe")
  /\ message \in Contents
  /\ attachments \subseteq Seq(Outputs)
  /\ written \in Seq(Outputs)
  /\ ended \in BOOLEAN /\ overlapped \in BOOLEAN

LEMMA TypeSplit == HandlerTypeOK <=> TasksOK /\ RestOK
BY DEF HandlerTypeOK, TasksOK, RestOK, Outputs

LEMMA AwaitType ==
  ASSUME TasksOK, NEW t \in Tasks, NEW place \in {"write", "attach", "finish"},
         NEW content \in Contents, Await(t, place, content)
  PROVE  TasksOK'
BY DEF Await, TasksOK

LEMMA BufferedType ==
  ASSUME RestOK, NEW output \in Outputs
  PROVE  /\ Buffered(output) \in Seq(Outputs)
         /\ pos + 1 \in 0..Len(Buffered(output))
         /\ Append(written, output) \in Seq(Outputs)
<1>1. CASE pos = Len(buffer)
  BY <1>1 DEF RestOK, Buffered
<1>2. CASE pos # Len(buffer)
  <2>1. pos + 1 \in 1..Len(buffer)
    BY <1>2 DEF RestOK
  <2>2. [buffer EXCEPT ![pos + 1] = output] \in Seq(Outputs)
        /\ Len([buffer EXCEPT ![pos + 1] = output]) = Len(buffer)
    BY <2>1 DEF RestOK
  <2>3. Buffered(output) = [buffer EXCEPT ![pos + 1] = output]
    BY <1>2 DEF Buffered
  <2> QED
    BY <2>1, <2>2, <2>3 DEF RestOK
<1> QED
  BY <1>1, <1>2

LEMMA PipeType ==
  ASSUME HandlerTypeOK, NEW output \in Outputs, WriteToPipe(output),
         UNCHANGED <<kind, listed, attachments, ended>>, overlapped' \in BOOLEAN
  PROVE  HandlerTypeOK'
<1> TasksOK /\ RestOK
  BY TypeSplit
<1>1. RestOK'
  BY BufferedType DEF WriteToPipe, RestOK
<1>2. Running(buffer') \in Contents /\ Bare("promise", FALSE) \in Contents
  BY <1>1, ContentTypes DEF RestOK
<1>3. TasksOK'
  <2>1. CASE UNCHANGED tasks
    BY <2>1 DEF TasksOK, tasks
  <2> QED
    BY <1>2, <2>1, AwaitType, TasksAre DEF WriteToPipe
<1> QED
  BY <1>1, <1>3 DEF HandlerTypeOK, TasksOK, RestOK, Outputs

LEMMA PtyType ==
  ASSUME HandlerTypeOK, NEW b \in Bytes, WriteToPty(b),
         UNCHANGED <<kind, listed, attachments, ended>>, overlapped' \in BOOLEAN
  PROVE  HandlerTypeOK'
<1> TasksOK /\ RestOK
  BY TypeSplit
<1>1. RestOK'
  BY ContentTypes DEF WriteToPty, RestOK
<1>2. TasksOK'
  <2>1. CASE UNCHANGED tasks
    BY <2>1 DEF TasksOK, tasks
  <2>2. CASE /\ at' = [at EXCEPT ![Mqtt] = "write"]
             /\ call' = [call EXCEPT ![Mqtt] = "pending"]
             /\ draft' = [t \in Tasks |-> IF t = Mqtt THEN Running(Rendered) ELSE Aged(draft[t])]
    BY <2>2, ContentTypes, TasksAre DEF TasksOK
  <2> QED
    BY <2>1, <2>2 DEF WriteToPty
<1> QED
  BY <1>1, <1>2 DEF HandlerTypeOK, TasksOK, RestOK, Outputs

\* What Stop does to a task.
LEMMA StopAwaits ==
  ASSUME HandlerTypeOK, NEW t \in Tasks, Stop(t)
  PROVE  \E place \in {"attach", "finish"}, content \in Contents : Await(t, place, content)
<1>1. CASE Attach(t)
  BY <1>1, ContentTypes DEF Attach
<1>2. ASSUME NEW frame \in StoppedFrames, Finish(t, frame)
      PROVE  \E content \in Contents : Await(t, "finish", content)
  <2>1. buffer \in Seq(Outputs)
    BY DEF HandlerTypeOK, Outputs
  <2>2. Final(Rendered, frame) \in Contents /\ Final(buffer, frame) \in Contents
        /\ Bare("empty", FALSE) \in Contents /\ Bare("status", FALSE) \in Contents
    BY <2>1, ContentTypes
  <2> QED
    BY <1>2, <2>2 DEF Finish
<1> QED
  BY <1>1, <1>2 DEF Stop

LEMMA StopType ==
  ASSUME HandlerTypeOK, NEW t \in Tasks, Stop(t), ended' \in BOOLEAN
  PROVE  HandlerTypeOK'
<1> TasksOK /\ RestOK
  BY TypeSplit
<1>1. TasksOK'
  BY StopAwaits, AwaitType
<1>2. pos' \in 0..Len(buffer) /\ willAttach' \in BOOLEAN /\ (willAttach' => kind = "pipe")
  <2>1. CASE Attach(t) /\ willAttach
    BY <2>1 DEF Attach, RestOK
  <2>2. ASSUME NEW frame \in StoppedFrames, Finish(t, frame), UNCHANGED pos
        PROVE  pos' \in 0..Len(buffer) /\ willAttach' \in BOOLEAN /\ (willAttach' => kind = "pipe")
    BY <2>2 DEF Finish, Backpedals, RestOK
  <2> QED
    BY <2>1, <2>2 DEF Stop
<1>3. RestOK'
  BY <1>2 DEF Stop, RestOK
<1> QED
  BY <1>1, <1>3 DEF HandlerTypeOK, TasksOK, RestOK, Outputs

LEMMA UploadType ==
  ASSUME RestOK, NEW start \in 0..Len(buffer)
  PROVE  Upload(start) \in Seq(Outputs)
BY DEF RestOK, Upload

LEMMA AnswersType ==
  ASSUME HandlerTypeOK, NEW t \in Tasks,
         EditAnswered(t) \/ UploadAnswered(t) \/ Attached(t) \/ StopReturns(t)
  PROVE  HandlerTypeOK'
<1> TasksOK /\ RestOK
  BY TypeSplit
<1>1. CASE EditAnswered(t)
  BY <1>1 DEF EditAnswered, HandlerTypeOK, history
<1>2. CASE UploadAnswered(t)
  <2>1. attachments' \subseteq Seq(Outputs) /\ pos' \in 0..Len(buffer)
    BY <1>2, UploadType DEF UploadAnswered, RestOK
  <2>2. call' \in [Tasks -> {"none", "pending", "ok", "failed"}]
    BY <1>2 DEF UploadAnswered, TasksOK
  <2> QED
    BY <1>2, <2>1, <2>2 DEF UploadAnswered, HandlerTypeOK, history, Outputs
<1>3. CASE Attached(t)
  <2>1. Status(t) \in Contents
    BY ContentTypes DEF Status
  <2>2. TasksOK'
    BY <1>3, <2>1, AwaitType DEF Attached
  <2> QED
    BY <1>3, <2>2 DEF Attached, HandlerTypeOK, TasksOK, history
<1>4. CASE StopReturns(t)
  BY <1>4 DEF StopReturns, HandlerTypeOK, history
<1> QED
  BY <1>1, <1>2, <1>3, <1>4

LEMMA HandlerTypeStep == HandlerTypeOK /\ [HandlerNext]_hvars => HandlerTypeOK'
<1> SUFFICES ASSUME HandlerTypeOK, [HandlerNext]_hvars PROVE HandlerTypeOK'
  OBVIOUS
<1>1. CASE Output
  <2>1. overlapped' \in BOOLEAN /\ UNCHANGED <<kind, listed, attachments, ended>>
    BY <1>1 DEF Output, HandlerTypeOK, Working
  <2> QED
    BY <1>1, <2>1, PipeType, PtyType DEF Output, Outputs
<1>2. CASE ReceiveStopped \/ Abandon
  BY <1>2, StopType, TasksAre DEF ReceiveStopped, Abandon, HandlerTypeOK
<1>3. CASE WriteReturns
  BY <1>3, TasksAre DEF WriteReturns, HandlerTypeOK, history
<1>4. ASSUME NEW t \in Tasks, EditAnswered(t) \/ UploadAnswered(t) \/ Attached(t) \/ StopReturns(t)
      PROVE  HandlerTypeOK'
  BY <1>4, AnswersType
<1>5. CASE UNCHANGED hvars
  BY <1>5 DEF hvars, tasks, history, HandlerTypeOK
<1> QED
  BY <1>1, <1>2, <1>3, <1>4, <1>5 DEF HandlerNext

LEMMA HandlerTypeInit == HandlerInit => HandlerTypeOK
<1>1. <<>> \in Seq(Outputs) /\ Len(<<>>) = 0
  OBVIOUS
<1>2. Bare("none", FALSE) \in Contents
  BY ContentTypes
<1>3. HandlerInit => TasksOK
  BY <1>2 DEF HandlerInit, TasksOK
<1>4. ASSUME HandlerInit PROVE RestOK
  <2>1. buffer = <<>> /\ pos = 0 /\ written = <<>> /\ attachments = {} /\ message = Bare("none", FALSE)
    BY <1>4 DEF HandlerInit
  <2>2. pos \in 0..Len(buffer) /\ buffer \in Seq(Outputs) /\ written \in Seq(Outputs)
    BY <1>1, <2>1
  <2> QED
    BY <1>2, <1>4, <2>1, <2>2 DEF HandlerInit, RestOK
<1> QED
  BY <1>3, <1>4, TypeSplit

\* Every state of a handler and of the tasks at work on it is well typed; only a
\* handler of a job on pipes ever attaches.
THEOREM HandlerTypeCorrect == HandlerSpec => []HandlerTypeOK
BY HandlerTypeInit, HandlerTypeStep, PTL DEF HandlerSpec

---------------------------------------------------------------------------
(* The end of a job, and delivery                                           *)

\* May the final edit of a terminal be too long?
Oversized == kind = "pty" /\ \E frame \in StoppedFrames : frame + ScreenLength > MessageLimit

\* Only such an edit is too long or fails; the MQTT task shows no output after
\* the end of the job.
EndInv ==
  /\ \A t \in Tasks : at[t] = "attach" => kind = "pipe"
  /\ \A t \in Tasks : at[t] = "finish" /\ (TooLong(draft[t]) \/ call[t] = "failed") => Oversized
  /\ \A t \in Tasks : Working(t) => call[t] # "none"
  /\ at[Abandoner] # "write"
  /\ ended => at[Mqtt] # "write"
  /\ StoppedJobsLeave
  /\ at[Abandoner] = "done" => ~listed \/ Oversized

\* What a content must be for its job to leave the table.
Due(content) ==
  IF kind = "pty" THEN content.output = Rendered
  ELSE \/ written \in attachments \cup {content.output}
       \/ content.error \/ ~Visible(written) \/ InTheGap(written)

\* A task that works alone finds all output in the buffer.
AloneInv ==
  /\ \A t, u \in Tasks : Working(t) /\ Working(u) => t = u
  /\ ~listed => Due(message) /\ \A t \in Tasks : ~Working(t)
  /\ buffer = written
  /\ listed /\ (\A t \in Tasks : at[t] \notin {"attach", "finish"}) => pos = Len(buffer)
  /\ ~willAttach => RunningFrame + Len(buffer) <= MessageLimit \/ buffer = <<>>
  /\ \A t \in Tasks : at[t] = "attach" =>
       /\ call[t] = "pending" => pos = 0
       /\ call[t] = "ok" => written \in attachments
  /\ \A t \in Tasks : at[t] = "finish" =>
       /\ Due(draft[t])
       /\ call[t] = "ok" => message = draft[t]

PtyKeepsNothing == kind = "pty" => buffer = <<>> /\ pos = 0 /\ ~willAttach

HandlerInv ==
  /\ SizeOK /\ HandlerTypeOK /\ PtyKeepsNothing /\ EndInv
  /\ ~overlapped => AloneInv

LEMMA AloneDelivers == HandlerInv => OutputIsDelivered
BY DEF HandlerInv, AloneInv, Due, OutputIsDelivered

LEMMA SameHandler == [HandlerNext]_hvars => UNCHANGED <<lines, columns, kind>>
<1> SUFFICES ASSUME [HandlerNext]_hvars PROVE UNCHANGED <<lines, columns, kind>>
  OBVIOUS
<1>1. CASE Output
  BY <1>1 DEF Output, WriteToPipe, WriteToPty, WriteOneChar, terminal
<1>2. CASE ReceiveStopped \/ Abandon
  BY <1>2 DEF ReceiveStopped, Abandon, Stop, terminal
<1>3. CASE WriteReturns
  BY <1>3 DEF WriteReturns, terminal
<1>4. ASSUME NEW t \in Tasks, EditAnswered(t) \/ UploadAnswered(t) \/ Attached(t) \/ StopReturns(t)
      PROVE  UNCHANGED <<lines, columns, kind>>
  BY <1>4 DEF EditAnswered, UploadAnswered, Attached, StopReturns, terminal
<1>5. CASE UNCHANGED hvars
  BY <1>5 DEF hvars, terminal
<1> QED
  BY <1>1, <1>2, <1>3, <1>4, <1>5 DEF HandlerNext

LEMMA ScreenLengthType == SizeOK => ScreenLength \in Int
<1> SUFFICES ASSUME SizeOK PROVE ScreenLength \in Int
  OBVIOUS
<1>1. lines \in Int /\ Columns \in Int
  BY DEF SizeOK, Columns
<1>2. lines * Columns \in Int
  BY <1>1
<1> QED
  BY <1>1, <1>2 DEF ScreenLength

\* A content without output is too long only where the screen is anyway.
LEMMA BareFits ==
  ASSUME SizeOK, HandlerTypeOK, NEW form, NEW error, TooLong(Bare(form, error))
  PROVE  Oversized
<1>1. kind = "pty" /\ ScreenLength > MessageLimit
  BY ScreenLengthType DEF TooLong, Length, Bare, HandlerTypeOK
<1>2. PICK frame \in StoppedFrames : TRUE
  OBVIOUS
<1>3. frame + ScreenLength > MessageLimit
  BY <1>1, <1>2, ScreenLengthType
<1> QED
  BY <1>1, <1>3 DEF Oversized

\* The final edit that a task makes when there is nothing to attach.
LEMMA FinishAwaits ==
  ASSUME SizeOK, HandlerTypeOK, NEW t \in Tasks, NEW frame \in StoppedFrames, Finish(t, frame), ~willAttach
  PROVE  \E content \in Contents :
           /\ Await(t, "finish", content)
           /\ TooLong(content) => Oversized
           /\ AloneInv => Due(content)
<1> DEFINE content == IF kind = "pty" THEN Final(Rendered, frame)
                      ELSE IF Visible(buffer) THEN Final(buffer, frame) ELSE Bare("empty", FALSE)
<1>0. buffer \in Seq(Outputs) /\ kind \in {"pipe", "pty"} /\ Len(buffer) \in Nat
  BY DEF HandlerTypeOK, Outputs
<1>1. content \in Contents
  BY <1>0, ContentTypes
<1>2. Bare("status", FALSE) \in Contents
  BY ContentTypes
<1>3. CASE Backpedals(content)
  <2>1. Await(t, "finish", Bare("status", FALSE))
    BY <1>3 DEF Finish
  <2>2. TooLong(Bare("status", FALSE)) => Oversized
    BY BareFits
  <2>3. kind = "pipe" /\ TooLong(content)
    BY <1>3 DEF Backpedals
  <2>4. content = Final(buffer, frame) /\ Visible(buffer)
    BY <2>3, BareFits DEF Oversized
  <2>5. frame + Len(buffer) > MessageLimit /\ buffer # <<>>
    <3>1. Length(Final(buffer, frame)) = frame + Len(buffer)
      BY <2>3 DEF Length, Final
    <3>2. ~Visible(<<>>)
      BY DEF Visible
    <3> QED
      BY <1>0, <2>3, <2>4, <3>1, <3>2 DEF TooLong
  <2>6. AloneInv => InTheGap(written)
    BY <2>5 DEF AloneInv, InTheGap
  <2> QED
    BY <1>2, <2>1, <2>2, <2>3, <2>6 DEF Due
<1>4. CASE ~Backpedals(content)
  <2>1. Await(t, "finish", content)
    BY <1>4 DEF Finish
  <2>2. TooLong(content) => Oversized
    <3>1. CASE kind = "pty"
      BY <3>1 DEF TooLong, Length, Final, Oversized
    <3>2. CASE kind # "pty"
      BY <1>0, <1>4, <3>2 DEF Backpedals
    <3> QED
      BY <3>1, <3>2
  <2>3. AloneInv => Due(content)
    BY DEF AloneInv, Due, Final, Bare
  <2> QED
    BY <1>1, <2>1, <2>2, <2>3
<1> QED
  BY <1>3, <1>4

LEMMA PtyStep == HandlerTypeOK /\ PtyKeepsNothing /\ EndInv /\ [HandlerNext]_hvars => PtyKeepsNothing'
<1> SUFFICES ASSUME HandlerTypeOK, PtyKeepsNothing, EndInv, [HandlerNext]_hvars, kind' = "pty"
             PROVE  PtyKeepsNothing'
  BY DEF PtyKeepsNothing
<1>0. kind = "pty" /\ buffer = <<>> /\ pos = 0 /\ ~willAttach
  BY SameHandler DEF PtyKeepsNothing
<1>1. CASE Output
  BY <1>0, <1>1 DEF Output, WriteToPipe, WriteToPty, PtyKeepsNothing
<1>2. ASSUME NEW t \in Tasks, Stop(t) PROVE PtyKeepsNothing'
  <2>1. PICK frame \in StoppedFrames : Finish(t, frame)
    BY <1>0, <1>2 DEF Stop
  <2>2. UNCHANGED willAttach
    BY <1>0, <2>1 DEF Finish, Backpedals
  <2> QED
    BY <1>0, <1>2, <2>2 DEF Stop, PtyKeepsNothing
<1>3. CASE ReceiveStopped \/ Abandon
  BY <1>2, <1>3, TasksAre DEF ReceiveStopped, Abandon
<1>4. CASE WriteReturns
  BY <1>0, <1>4 DEF WriteReturns, PtyKeepsNothing
<1>5. ASSUME NEW t \in Tasks, EditAnswered(t) \/ UploadAnswered(t) \/ Attached(t) \/ StopReturns(t)
      PROVE  PtyKeepsNothing'
  BY <1>0, <1>5 DEF EditAnswered, UploadAnswered, Attached, StopReturns, PtyKeepsNothing, EndInv
<1>6. CASE UNCHANGED hvars
  BY <1>0, <1>6 DEF hvars, PtyKeepsNothing
<1> QED
  BY <1>1, <1>3, <1>4, <1>5, <1>6 DEF HandlerNext

SameKind == UNCHANGED <<lines, columns, kind>>

LEMMA SameLength ==
  SameKind => (Oversized' <=> Oversized) /\ ScreenLength' = ScreenLength
BY DEF SameKind, Oversized, ScreenLength, Columns

\* The invariant about the end of a job as one about each task.
EndOf(t) ==
  /\ at[t] = "attach" => kind = "pipe"
  /\ at[t] = "finish" /\ (TooLong(draft[t]) \/ call[t] = "failed") => Oversized
  /\ Working(t) => call[t] # "none"
EndTasks == \A t \in Tasks : EndOf(t)
EndRest ==
  /\ at[Abandoner] # "write"
  /\ ended => at[Mqtt] # "write"
  /\ ended /\ at[Mqtt] = "idle" => ~listed \/ Oversized
  /\ at[Abandoner] = "done" => ~listed \/ Oversized

LEMMA EndSplit == EndInv <=> (\A t \in Tasks : EndOf(t)) /\ EndRest
BY DEF EndInv, EndOf, EndRest, StoppedJobsLeave, Oversized

LEMMA EndSplitNext == EndInv' <=> (\A t \in Tasks : EndOf(t)') /\ EndRest'
<1>1. EndInv <=> EndTasks /\ EndRest
  BY EndSplit DEF EndTasks
<1>2. EndInv' <=> EndTasks' /\ EndRest'
  BY <1>1, PTL
<1> QED
  BY <1>2 DEF EndTasks

\* A task that the step leaves alone.
LEMMA OthersEnd ==
  ASSUME HandlerTypeOK, SameKind, NEW t \in Tasks, EndOf(t),
         at'[t] = at[t], call'[t] = call[t], draft'[t] = draft[t]
  PROVE  EndOf(t)'
BY SameLength DEF SameKind, EndOf, TooLong, Length, Working

LEMMA AwaitEnd ==
  ASSUME HandlerTypeOK, SameKind, EndInv, NEW t \in Tasks, NEW place \in {"attach", "finish"},
         NEW content \in Contents, Await(t, place, content),
         place = "attach" => kind = "pipe",
         TooLong(content) => Oversized,
         listed' = listed, t = Mqtt \/ ended' = ended
  PROVE  EndInv'
<1> EndRest /\ \A u \in Tasks : EndOf(u)
  BY EndSplit
<1>1. at'[t] = place /\ call'[t] = "pending" /\ draft'[t] = content
  BY DEF Await, HandlerTypeOK
<1>2. ASSUME NEW u \in Tasks, u # t PROVE at'[u] = at[u] /\ call'[u] = call[u] /\ draft'[u] = draft[u]
  BY <1>2 DEF Await, HandlerTypeOK
<1>3. EndOf(t)'
  BY <1>1, SameLength DEF SameKind, EndOf, TooLong, Length, Working
<1>4. ASSUME NEW u \in Tasks PROVE EndOf(u)'
  BY <1>2, <1>3, <1>4, OthersEnd
<1>5. EndRest'
  BY <1>1, <1>2, TasksAre, SameLength DEF EndRest
<1> QED
  BY <1>4, <1>5, EndSplitNext

LEMMA OutputEnd ==
  ASSUME HandlerTypeOK, SameKind, EndInv, Output
  PROVE  EndInv'
<1> EndRest /\ \A u \in Tasks : EndOf(u)
  BY EndSplit
<1>1. at[Mqtt] = "idle" /\ ~ended /\ ended' = ended /\ listed' = listed
  BY DEF Output, Receives
<1>2. CASE UNCHANGED tasks
  <2>1. ASSUME NEW u \in Tasks PROVE EndOf(u)'
    BY <1>2, OthersEnd DEF tasks
  <2>2. EndRest'
    BY <1>1, <1>2, SameLength DEF tasks, EndRest
  <2> QED
    BY <2>1, <2>2, EndSplitNext
<1>3. ASSUME at' = [at EXCEPT ![Mqtt] = "write"], call' = [call EXCEPT ![Mqtt] = "pending"],
             EndOf(Abandoner)'
      PROVE  EndInv'
  <2>1. at'[Mqtt] = "write" /\ call'[Mqtt] = "pending" /\ at'[Abandoner] = at[Abandoner]
    BY <1>3, TasksAre DEF HandlerTypeOK
  <2>2. EndOf(Mqtt)'
    BY <2>1 DEF EndOf
  <2>3. EndRest'
    BY <1>1, <2>1, SameLength DEF EndRest
  <2> QED
    BY <1>3, <2>2, <2>3, TasksAre, EndSplitNext
<1>4. ASSUME NEW content, Await(Mqtt, "write", content) PROVE EndInv'
  <2>1. at'[Abandoner] = at[Abandoner] /\ call'[Abandoner] = call[Abandoner]
        /\ draft'[Abandoner] = draft[Abandoner]
    BY <1>4, TasksAre DEF Await, HandlerTypeOK
  <2>2. EndOf(Abandoner)'
    BY <2>1, TasksAre, OthersEnd
  <2> QED
    BY <1>3, <1>4, <2>2 DEF Await
<1>5. ASSUME NEW output, WriteToPipe(output) PROVE EndInv'
  BY <1>2, <1>4, <1>5 DEF WriteToPipe
<1>6. ASSUME NEW b \in Bytes, WriteToPty(b), ~raised' PROVE EndInv'
  <2>1. /\ at' = [at EXCEPT ![Mqtt] = "write"] /\ call' = [call EXCEPT ![Mqtt] = "pending"]
        /\ draft' = [t \in Tasks |-> IF t = Mqtt THEN Running(Rendered) ELSE Aged(draft[t])]
        /\ kind = "pty"
    BY <1>6 DEF WriteToPty
  <2>2. /\ at'[Abandoner] = at[Abandoner] /\ call'[Abandoner] = call[Abandoner]
        /\ draft'[Abandoner] = Aged(draft[Abandoner])
    BY <2>1, TasksAre DEF HandlerTypeOK
  <2>3. draft'[Abandoner].frame = draft[Abandoner].frame
    BY <2>2, TasksAre DEF Aged, HandlerTypeOK, Contents
  <2>4. EndOf(Abandoner)'
    BY <2>1, <2>2, <2>3, TasksAre, SameLength DEF SameKind, EndOf, TooLong, Length, Working
  <2> QED
    BY <1>3, <2>1, <2>4
<1>7. ASSUME NEW b \in Bytes, WriteToPty(b), raised' PROVE EndInv'
  BY <1>2, <1>7 DEF WriteToPty
<1> QED
  BY <1>5, <1>6, <1>7 DEF Output

LEMMA StopEnd ==
  ASSUME SizeOK, HandlerTypeOK, SameKind, EndInv, NEW t \in Tasks, Stop(t),
         t = Mqtt \/ ended' = ended
  PROVE  EndInv'
<1>1. listed' = listed
  BY DEF Stop
<1>2. CASE willAttach /\ Attach(t)
  <2>1. kind = "pipe"
    BY <1>2 DEF HandlerTypeOK
  <2>2. Bare("status", FALSE) \in Contents /\ (TooLong(Bare("status", FALSE)) => Oversized)
    BY ContentTypes, BareFits
  <2> QED
    BY <1>1, <1>2, <2>1, <2>2, AwaitEnd DEF Attach
<1>3. ASSUME ~willAttach, NEW frame \in StoppedFrames, Finish(t, frame) PROVE EndInv'
  <2>1. PICK content \in Contents : Await(t, "finish", content) /\ (TooLong(content) => Oversized)
    BY <1>3, FinishAwaits
  <2> QED
    BY <1>1, <2>1, AwaitEnd
<1> QED
  BY <1>2, <1>3 DEF Stop

LEMMA AnswersEnd ==
  ASSUME SizeOK, HandlerTypeOK, SameKind, EndInv, NEW t \in Tasks,
         EditAnswered(t) \/ UploadAnswered(t) \/ Attached(t) \/ StopReturns(t)
  PROVE  EndInv'
<1> EndRest /\ \A u \in Tasks : EndOf(u)
  BY EndSplit
<1>1. CASE Attached(t)
  <2>1. Status(t) \in Contents /\ (TooLong(Status(t)) => Oversized)
    BY ContentTypes, BareFits DEF Status
  <2> QED
    BY <1>1, <2>1, AwaitEnd DEF Attached, history
<1>2. CASE EditAnswered(t) \/ UploadAnswered(t)
  <2>1. /\ UNCHANGED <<at, draft, listed, ended>>
        /\ call' \in {[call EXCEPT ![t] = "ok"], [call EXCEPT ![t] = "failed"]}
        /\ at[t] # "attach" /\ call'[t] = "failed" => TooLong(draft[t])
    BY <1>2 DEF EditAnswered, UploadAnswered, history, HandlerTypeOK
  <2>2. ASSUME NEW u \in Tasks PROVE EndOf(u)'
    <3>1. CASE u = t
      <4>1. call'[t] \in {"ok", "failed"}
        BY <2>1 DEF HandlerTypeOK
      <4> QED
        BY <2>1, <3>1, <4>1, SameLength DEF SameKind, EndOf, TooLong, Length, Working
    <3>2. CASE u # t
      BY <2>1, <3>2, OthersEnd DEF HandlerTypeOK
    <3> QED
      BY <3>1, <3>2
  <2>3. EndRest'
    BY <2>1, SameLength DEF EndRest
  <2> QED
    BY <2>2, <2>3, EndSplitNext
<1>3. CASE StopReturns(t)
  <2>1. /\ at[t] = "finish" /\ listed' = (listed /\ call[t] = "failed")
        /\ UNCHANGED <<draft, ended>>
        /\ at' = [at EXCEPT ![t] = IF t = Mqtt THEN "idle" ELSE "done"]
        /\ call' = [call EXCEPT ![t] = "none"]
    BY <1>3 DEF StopReturns, history
  <2>2. listed' => listed /\ Oversized
    BY <2>1 DEF EndOf
  <2>3. ASSUME NEW u \in Tasks PROVE EndOf(u)'
    <3>1. CASE u = t
      BY <2>1, <3>1, TasksAre DEF EndOf, HandlerTypeOK, Working
    <3>2. CASE u # t
      BY <2>1, <3>2, OthersEnd DEF HandlerTypeOK
    <3> QED
      BY <3>1, <3>2
  <2>4. /\ at'[t] = IF t = Mqtt THEN "idle" ELSE "done"
        /\ \A u \in Tasks : u # t => at'[u] = at[u]
    BY <2>1 DEF HandlerTypeOK
  <2>5. EndRest'
    BY <2>1, <2>2, <2>4, TasksAre, SameLength DEF EndRest
  <2> QED
    BY <2>3, <2>5, EndSplitNext
<1> QED
  BY <1>1, <1>2, <1>3

LEMMA EndStep == SizeOK /\ HandlerTypeOK /\ EndInv /\ [HandlerNext]_hvars => EndInv'
<1> SUFFICES ASSUME SizeOK, HandlerTypeOK, EndInv, [HandlerNext]_hvars PROVE EndInv'
  OBVIOUS
<1> EndRest /\ \A u \in Tasks : EndOf(u)
  BY EndSplit
<1>0. SameKind
  BY SameHandler DEF SameKind
<1>1. CASE Output
  BY <1>0, <1>1, OutputEnd
<1>2. CASE ReceiveStopped \/ Abandon
  BY <1>0, <1>2, StopEnd, TasksAre DEF ReceiveStopped, Abandon
<1>3. CASE WriteReturns
  <2>1. /\ at[Mqtt] = "write" /\ UNCHANGED <<draft, listed, ended>>
        /\ at' = [at EXCEPT ![Mqtt] = "idle"] /\ call' = [call EXCEPT ![Mqtt] = "none"]
    BY <1>3 DEF WriteReturns, history
  <2>2. /\ at'[Mqtt] = "idle" /\ ~ended
        /\ at'[Abandoner] = at[Abandoner] /\ call'[Abandoner] = call[Abandoner]
    BY <2>1, TasksAre DEF HandlerTypeOK, EndRest
  <2>3. EndOf(Mqtt)' /\ EndOf(Abandoner)'
    BY <1>0, <2>1, <2>2, TasksAre, OthersEnd DEF EndOf, Working
  <2>4. EndRest'
    BY <1>0, <2>1, <2>2, SameLength DEF EndRest
  <2> QED
    BY <2>3, <2>4, TasksAre, EndSplitNext
<1>4. ASSUME NEW t \in Tasks, EditAnswered(t) \/ UploadAnswered(t) \/ Attached(t) \/ StopReturns(t)
      PROVE  EndInv'
  BY <1>0, <1>4, AnswersEnd
<1>5. CASE UNCHANGED hvars
  <2>1. UNCHANGED <<at, call, draft, listed, ended>>
    BY <1>5 DEF hvars, tasks, history
  <2>2. \A u \in Tasks : EndOf(u)'
    BY <1>0, <2>1, OthersEnd
  <2>3. EndRest'
    BY <1>0, <2>1, SameLength DEF EndRest
  <2> QED
    BY <2>2, <2>3, EndSplitNext
<1> QED
  BY <1>1, <1>2, <1>3, <1>4, <1>5 DEF HandlerNext

LEMMA Overlaps == [HandlerNext]_hvars => (overlapped => overlapped')
<1> SUFFICES ASSUME [HandlerNext]_hvars, overlapped PROVE overlapped'
  OBVIOUS
<1>1. CASE Output \/ ReceiveStopped \/ Abandon
  BY <1>1 DEF Output, ReceiveStopped, Abandon, Stop
<1>2. CASE WriteReturns
  BY <1>2 DEF WriteReturns, history
<1>3. ASSUME NEW t \in Tasks, EditAnswered(t) \/ UploadAnswered(t) \/ Attached(t) \/ StopReturns(t)
      PROVE  overlapped'
  BY <1>3 DEF EditAnswered, UploadAnswered, Attached, StopReturns, history
<1>4. CASE UNCHANGED hvars
  BY <1>4 DEF hvars, history
<1> QED
  BY <1>1, <1>2, <1>3, <1>4 DEF HandlerNext

\* AloneInv as one about each task.
AloneOf(t) ==
  /\ at[t] = "attach" => /\ call[t] = "pending" => pos = 0
                         /\ call[t] = "ok" => written \in attachments
  /\ at[t] = "finish" => Due(draft[t]) /\ (call[t] = "ok" => message = draft[t])
AloneTasks == \A t \in Tasks : AloneOf(t)
AtMostOne == \A t, u \in Tasks : Working(t) /\ Working(u) => t = u
Left == ~listed => Due(message) /\ \A t \in Tasks : ~Working(t)
AtTheEnd == listed /\ (\A t \in Tasks : at[t] \notin {"attach", "finish"}) => pos = Len(buffer)
HasRoom == ~willAttach => RunningFrame + Len(buffer) <= MessageLimit \/ buffer = <<>>

LEMMA AloneSplit == AloneInv <=> AloneTasks /\ AtMostOne /\ Left /\ buffer = written /\ AtTheEnd /\ HasRoom
BY DEF AloneInv, AloneTasks, AloneOf, AtMostOne, Left, AtTheEnd, HasRoom

AllThere == buffer = written
LEMMA AloneSplitNext ==
  AloneInv' <=> AloneTasks' /\ AtMostOne' /\ Left' /\ buffer' = written' /\ AtTheEnd' /\ HasRoom'
<1>1. AloneInv <=> AloneTasks /\ AtMostOne /\ Left /\ AllThere /\ AtTheEnd /\ HasRoom
  BY AloneSplit DEF AllThere
<1>2. AloneInv' <=> AloneTasks' /\ AtMostOne' /\ Left' /\ AllThere' /\ AtTheEnd' /\ HasRoom'
  BY <1>1, PTL
<1> QED
  BY <1>2 DEF AllThere

\* A task that begins, alone.
LEMMA OneBegins ==
  ASSUME HandlerTypeOK, NEW t \in Tasks, \A u \in Tasks : ~Working(u),
         NEW place \in {"write", "attach", "finish"}, at' = [at EXCEPT ![t] = place]
  PROVE  /\ at'[t] = place /\ AtMostOne'
         /\ \A u \in Tasks : u # t => at'[u] = at[u] /\ ~Working(u)'
BY DEF HandlerTypeOK, AtMostOne, Working

LEMMA OutputAlone ==
  ASSUME HandlerTypeOK, SameKind, PtyKeepsNothing, AloneInv, Output, ~overlapped'
  PROVE  AloneInv'
<1>1. at[Mqtt] = "idle" /\ listed /\ listed' /\ ~Working(Abandoner)
  BY DEF Output, Receives
<1>2. \A u \in Tasks : ~Working(u)
  BY <1>1, TasksAre DEF Working
<1>3. buffer = written /\ pos = Len(buffer) /\ HasRoom
  BY <1>1, <1>2, AloneSplit DEF AtTheEnd, Working
<1>4. Left'
  BY <1>1 DEF Left
<1>5. ASSUME at' = [at EXCEPT ![Mqtt] = "write"] PROVE AloneTasks' /\ AtMostOne'
  <2>1. at'[Mqtt] = "write" /\ AtMostOne' /\ \A u \in Tasks : u # Mqtt => ~Working(u)'
    BY <1>2, <1>5, TasksAre, OneBegins
  <2> QED
    BY <2>1 DEF AloneTasks, AloneOf, Working
<1>6. ASSUME UNCHANGED at PROVE AloneTasks' /\ AtMostOne'
  BY <1>2, <1>6 DEF AloneTasks, AloneOf, AtMostOne, Working
<1>7. ASSUME NEW output \in Outputs, WriteToPipe(output) PROVE AloneInv'
  <2>1. buffer' = Append(buffer, output) /\ written' = Append(written, output) /\ pos' = pos + 1
    BY <1>3, <1>7 DEF WriteToPipe, Buffered
  <2>2. buffer' = written' /\ AtTheEnd'
    BY <1>3, <2>1 DEF AtTheEnd, HandlerTypeOK, Outputs
  <2>3. kind = "pipe" /\ kind' = "pipe"
    BY <1>7 DEF WriteToPipe, SameKind
  <2>4. HasRoom'
    <3>1. Length(Running(buffer')) = RunningFrame + Len(buffer')
      BY <2>3 DEF Length, Running
    <3>2. Len(buffer') \in Nat
      BY <2>1 DEF HandlerTypeOK, Outputs
    <3>3. CASE willAttach /\ UNCHANGED <<willAttach, tasks>>
      BY <3>3 DEF HasRoom
    <3>4. CASE willAttach' = TRUE
      BY <3>4 DEF HasRoom
    <3>5. CASE ~TooLong(Running(buffer'))
      BY <3>1, <3>2, <3>5 DEF HasRoom, TooLong
    <3> QED
      BY <1>7, <3>3, <3>4, <3>5 DEF WriteToPipe
  <2>5. AloneTasks' /\ AtMostOne'
    BY <1>5, <1>6, <1>7 DEF WriteToPipe, Await, tasks
  <2> QED
    BY <1>4, <2>2, <2>4, <2>5, AloneSplitNext
<1>8. ASSUME NEW b \in Bytes, WriteToPty(b) PROVE AloneInv'
  <2>1. UNCHANGED <<buffer, pos, willAttach, written>>
    BY <1>8 DEF WriteToPty
  <2>2. buffer' = written' /\ AtTheEnd' /\ HasRoom'
    BY <1>3, <2>1 DEF AtTheEnd, HasRoom
  <2>3. AloneTasks' /\ AtMostOne'
    BY <1>5, <1>6, <1>8 DEF WriteToPty, tasks
  <2> QED
    BY <1>4, <2>2, <2>3, AloneSplitNext
<1> QED
  BY <1>7, <1>8 DEF Output, Outputs

LEMMA StopAlone ==
  ASSUME SizeOK, HandlerTypeOK, SameKind, AloneInv, NEW t \in Tasks, at[t] = "idle", listed,
         Stop(t), ~overlapped'
  PROVE  AloneInv'
<1>1. \A u \in Tasks : ~Working(u)
  BY DEF Stop, Working
<1>2. buffer' = written' /\ listed' /\ HasRoom
      /\ UNCHANGED <<kind, buffer, written, attachments, message>>
  BY AloneSplit DEF Stop
<1>3. Left'
  BY <1>2 DEF Left
<1>4. ASSUME NEW place \in {"attach", "finish"}, NEW content \in Contents, Await(t, place, content),
             place = "attach" => pos' = 0, place = "finish" => Due(content), HasRoom'
      PROVE  AloneInv'
  <2>1. at'[t] = place /\ AtMostOne' /\ \A u \in Tasks : u # t => ~Working(u)'
    BY <1>1, <1>4, OneBegins DEF Await
  <2>2. call'[t] = "pending" /\ draft'[t] = content
    BY <1>4 DEF Await, HandlerTypeOK
  <2>3. place = "finish" => Due(draft[t])'
    BY <1>2, <1>4, <2>2 DEF Due, InTheGap
  <2>4. AloneOf(t)'
    BY <1>4, <2>1, <2>2, <2>3 DEF AloneOf
  <2>5. AloneTasks'
    BY <2>1, <2>4 DEF AloneTasks, AloneOf, Working
  <2>6. AtTheEnd'
    BY <2>1 DEF AtTheEnd
  <2> QED
    BY <1>2, <1>3, <1>4, <2>1, <2>5, <2>6, AloneSplitNext
<1>5. CASE willAttach /\ Attach(t)
  BY <1>2, <1>4, <1>5, ContentTypes DEF Attach, HasRoom
<1>6. ASSUME ~willAttach, NEW frame \in StoppedFrames, Finish(t, frame) PROVE AloneInv'
  <2>1. PICK content \in Contents : Await(t, "finish", content) /\ Due(content)
    BY <1>6, FinishAwaits
  <2>2. HasRoom'
    BY <1>2, <1>6 DEF HasRoom
  <2> QED
    BY <1>4, <2>1, <2>2
<1> QED
  BY <1>5, <1>6 DEF Stop

\* While a task works alone no other one has anything to keep.
LEMMA AloneAtWork ==
  ASSUME AloneInv, NEW t \in Tasks, Working(t)
  PROVE  listed /\ AloneOf(t) /\ buffer = written /\ HasRoom /\ \A u \in Tasks : u # t => ~Working(u)
BY AloneSplit DEF AloneTasks, AtMostOne, Left

LEMMA AnswersAlone ==
  ASSUME SizeOK, HandlerTypeOK, SameKind, PtyKeepsNothing, EndInv, AloneInv, NEW t \in Tasks,
         EditAnswered(t) \/ UploadAnswered(t) \/ Attached(t) \/ StopReturns(t)
  PROVE  AloneInv'
<1>0. Working(t) /\ at[t] \in {"write", "attach", "finish"} /\ call[t] \in {"pending", "ok", "failed"}
  BY DEF EditAnswered, UploadAnswered, Attached, StopReturns, Working, HandlerTypeOK, EndInv
<1>1. listed /\ AloneOf(t) /\ buffer = written /\ HasRoom /\ \A u \in Tasks : u # t => ~Working(u)
  BY <1>0, AloneAtWork
<1>2. UNCHANGED <<kind, buffer, willAttach, written>> /\ HasRoom' /\ buffer' = written'
  BY <1>1 DEF EditAnswered, UploadAnswered, Attached, StopReturns, history, HasRoom
<1>3. ASSUME AloneOf(t)', \A u \in Tasks : u # t => at'[u] = at[u], Left', AtTheEnd'
      PROVE  AloneInv'
  <2>1. \A u \in Tasks : u # t => ~Working(u)'
    BY <1>1, <1>3 DEF Working
  <2>2. AloneTasks' /\ AtMostOne'
    BY <1>3, <2>1 DEF AloneTasks, AloneOf, AtMostOne, Working
  <2> QED
    BY <1>2, <1>3, <2>2, AloneSplitNext
<1>4. CASE EditAnswered(t)
  <2>1. /\ UNCHANGED <<at, draft, listed, pos, attachments>>
        /\ call'[t] = "ok" => message' = draft[t]
        /\ at[t] # "attach"
    BY <1>4 DEF EditAnswered, history, HandlerTypeOK
  <2>2. AloneOf(t)'
    BY <1>1, <1>2, <2>1 DEF AloneOf, Due, InTheGap
  <2>3. Left'
    BY <1>1, <2>1 DEF Left
  <2>4. AtTheEnd'
    BY <1>2, <2>1, AloneSplit DEF AtTheEnd
  <2> QED
    BY <1>3, <2>1, <2>2, <2>3, <2>4
<1>5. CASE UploadAnswered(t)
  <2>1. at[t] = "attach" /\ call[t] = "pending" /\ UNCHANGED <<at, listed>>
    BY <1>5 DEF UploadAnswered, history
  <2>2. pos = 0 /\ \A start \in {0, pos} : Upload(start) = written
    <3>1. pos = 0
      BY <1>1, <2>1 DEF AloneOf
    <3>2. SubSeq(buffer, 1, Len(buffer)) = buffer
      BY DEF HandlerTypeOK
    <3> QED
      BY <1>1, <3>1, <3>2 DEF Upload
  <2>3. call'[t] = "failed" \/ (call'[t] = "ok" /\ written \in attachments')
    BY <1>5, <2>2 DEF UploadAnswered, HandlerTypeOK
  <2>4. AloneOf(t)' /\ AtTheEnd'
    BY <1>2, <2>1, <2>3 DEF AloneOf, AtTheEnd
  <2>5. Left'
    BY <1>1, <2>1 DEF Left
  <2> QED
    BY <1>3, <2>1, <2>4, <2>5
<1>6. CASE Attached(t)
  <2>1. /\ at[t] = "attach" /\ call[t] # "pending" /\ UNCHANGED <<attachments, listed>>
        /\ Await(t, "finish", Status(t))
    BY <1>6 DEF Attached, history
  <2>2. /\ at'[t] = "finish" /\ call'[t] = "pending" /\ draft'[t] = Status(t)
        /\ \A u \in Tasks : u # t => at'[u] = at[u]
    BY <2>1 DEF Await, HandlerTypeOK
  <2>3. kind = "pipe"
    BY <2>1 DEF EndInv
  <2>4. written \in attachments \/ Status(t).error
    BY <1>0, <1>1, <2>1 DEF AloneOf, Status, Bare
  <2>5. Due(draft[t])'
    BY <1>2, <2>1, <2>2, <2>3, <2>4 DEF Due
  <2>6. AloneOf(t)' /\ AtTheEnd'
    BY <2>2, <2>5 DEF AloneOf, AtTheEnd
  <2>7. Left'
    BY <1>1, <2>1 DEF Left
  <2> QED
    BY <1>3, <2>2, <2>6, <2>7
<1>7. CASE StopReturns(t)
  <2>1. /\ at[t] = "finish" /\ call[t] \in {"ok", "failed"} /\ UNCHANGED <<pos, message, attachments>>
        /\ listed' <=> call[t] = "failed"
    BY <1>0, <1>1, <1>7 DEF StopReturns, history
  <2>2. /\ at'[t] \in {"idle", "done"}
        /\ \A u \in Tasks : u # t => at'[u] = at[u]
    BY <1>7 DEF StopReturns, HandlerTypeOK
  <2>3. AloneOf(t)' /\ \A u \in Tasks : ~Working(u)'
    BY <1>1, <2>2 DEF AloneOf, Working
  <2>4. Left'
    BY <1>1, <1>2, <2>1, <2>3 DEF Left, AloneOf, Due, InTheGap
  <2>5. AtTheEnd'
    <3>1. listed' => kind = "pty"
      BY <2>1 DEF EndInv, Oversized
    <3>2. listed' => buffer = <<>> /\ pos = 0
      BY <3>1 DEF PtyKeepsNothing
    <3> QED
      BY <1>2, <2>1, <3>2 DEF AtTheEnd
  <2> QED
    BY <1>3, <2>2, <2>3, <2>4, <2>5
<1> QED
  BY <1>4, <1>5, <1>6, <1>7

LEMMA AloneStep ==
  SizeOK /\ HandlerTypeOK /\ PtyKeepsNothing /\ EndInv /\ AloneInv /\ [HandlerNext]_hvars /\ ~overlapped'
    => AloneInv'
<1> SUFFICES ASSUME SizeOK, HandlerTypeOK, PtyKeepsNothing, EndInv, AloneInv, [HandlerNext]_hvars,
                    ~overlapped'
             PROVE  AloneInv'
  OBVIOUS
<1>0. SameKind
  BY SameHandler DEF SameKind
<1>1. CASE Output
  BY <1>0, <1>1, OutputAlone
<1>2. CASE ReceiveStopped
  BY <1>0, <1>2, StopAlone, TasksAre DEF ReceiveStopped, Receives
<1>3. CASE Abandon
  BY <1>0, <1>3, StopAlone, TasksAre DEF Abandon
<1>4. CASE WriteReturns
  <2>1. /\ at[Mqtt] = "write" /\ at' = [at EXCEPT ![Mqtt] = "idle"]
        /\ UNCHANGED <<kind, listed, buffer, pos, willAttach, draft, message, attachments, written>>
    BY <1>4 DEF WriteReturns, history
  <2>2. listed /\ buffer = written /\ HasRoom /\ \A u \in Tasks : u # Mqtt => ~Working(u)
    BY <2>1, TasksAre, AloneAtWork DEF Working
  <2>3. at'[Mqtt] = "idle" /\ \A u \in Tasks : u # Mqtt => at'[u] = at[u]
    BY <2>1, TasksAre DEF HandlerTypeOK
  <2>4. \A u \in Tasks : ~Working(u)' /\ at[u] \notin {"attach", "finish"}
    BY <2>1, <2>2, <2>3 DEF Working
  <2>5. AloneTasks' /\ AtMostOne' /\ Left' /\ HasRoom'
    BY <2>1, <2>2, <2>4 DEF AloneTasks, AloneOf, AtMostOne, Left, HasRoom, Working
  <2>6. AtTheEnd'
    BY <2>1, <2>2, <2>4, AloneSplit DEF AtTheEnd
  <2> QED
    BY <2>1, <2>2, <2>5, <2>6, AloneSplitNext
<1>5. ASSUME NEW t \in Tasks, EditAnswered(t) \/ UploadAnswered(t) \/ Attached(t) \/ StopReturns(t)
      PROVE  AloneInv'
  BY <1>0, <1>5, AnswersAlone
<1>6. CASE UNCHANGED hvars
  <2>1. UNCHANGED <<kind, listed, buffer, pos, willAttach, at, call, draft, message, attachments, written>>
    BY <1>6 DEF hvars, tasks, history
  <2> QED
    BY <2>1 DEF AloneInv, Due, InTheGap, Working
<1> QED
  BY <1>1, <1>2, <1>3, <1>4, <1>5, <1>6 DEF HandlerNext

LEMMA HandlerInvInit == HandlerInit => HandlerInv
<1> SUFFICES ASSUME HandlerInit PROVE HandlerInv
  OBVIOUS
<1>1. SizeOK /\ HandlerTypeOK
  BY HandlerTypeInit, InitInv, TypeIsFits DEF HandlerInit
<1>2. /\ buffer = <<>> /\ pos = 0 /\ ~willAttach /\ written = <<>> /\ listed /\ ~ended
      /\ \A t \in Tasks : at[t] = "idle"
  BY DEF HandlerInit
<1>3. PtyKeepsNothing
  BY <1>2 DEF PtyKeepsNothing
<1>4. EndInv
  BY <1>2, TasksAre DEF EndInv, StoppedJobsLeave, Working
<1>5. AloneInv
  BY <1>2 DEF AloneInv, Working
<1> QED
  BY <1>1, <1>3, <1>4, <1>5 DEF HandlerInv

LEMMA HandlerInvStep == HandlerInv /\ [HandlerNext]_hvars => HandlerInv'
<1> SUFFICES ASSUME HandlerInv, [HandlerNext]_hvars PROVE HandlerInv'
  OBVIOUS
<1>1. SizeOK'
  BY SameHandler DEF HandlerInv, SizeOK
<1>2. HandlerTypeOK' /\ PtyKeepsNothing' /\ EndInv'
  BY HandlerTypeStep, PtyStep, EndStep DEF HandlerInv
<1>3. ~overlapped' => AloneInv'
  BY Overlaps, AloneStep DEF HandlerInv
<1> QED
  BY <1>1, <1>2, <1>3 DEF HandlerInv

LEMMA HandlerInvariance == HandlerSpec => []HandlerInv
BY HandlerInvInit, HandlerInvStep, PTL DEF HandlerSpec

\* Whatever the limit of a message and the size of a terminal, a job has left the
\* table by the time the MQTT task is done with its end, unless its screen is
\* too large for the final edit.
THEOREM StoppedJobsDoLeave == HandlerSpec => []StoppedJobsLeave
BY HandlerInvariance, PTL DEF HandlerInv, EndInv

\* Whatever the limit of a message, the amount of output and its course, the user
\* has all output of a job that has left the table: shown, attached or known to
\* be missing, but for output in the gap and tasks that overlapped.
THEOREM OutputIsAlwaysDelivered == HandlerSpec => []OutputIsDelivered
BY HandlerInvariance, AloneDelivers, PTL

=============================================================================
