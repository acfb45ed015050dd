--------------------------- MODULE OutputHandler ---------------------------
(***************************************************************************)
(* The output handler of one job (discord-bot/gridbot/entity.py): what the  *)
(* user of a job gets to see of its output. A "pipe" handler keeps output   *)
(* in a buffer and shows all of it in the job's Discord message while that  *)
(* has room; else it attaches the buffer to the message in the end. A "pty" *)
(* handler shows the screen of a terminal (module TtyModel).                *)
(*                                                                          *)
(* Two tasks work on it: the MQTT task, for the output and the end of the   *)
(* job, and an admin's abandon command. A call of Discord that a task       *)
(* awaits is answered in a step of its own, and the task resumes later. The *)
(* calls that fail are uploads, and edits with content that is too long;    *)
(* all other failures are the business of module BotJobs.                   *)
(***************************************************************************)
EXTENDS TtyModel

CONSTANTS
  MessageLimit,   \* MESSAGE_LIMIT, 2000 in the code
  RunningFrame,   \* length of what surrounds output in an edit of a running job
  StoppedFrames,  \* and in the final edit, where it depends on the status
  MaxOutputs      \* bound: outputs of a job on pipes

ASSUME LimitAssumption == MessageLimit \in Nat /\ RunningFrame \in Nat /\ MaxOutputs \in Nat
ASSUME FramesAssumption == StoppedFrames # {} /\ StoppedFrames \subseteq Nat

VARIABLES
  kind,         \* class of the handler: "pipe" or "pty"
  listed,       \* is the job in the job table
  buffer, pos,  \* output_buffer of a pipe handler and its position; one element is
                \* one output, and a pty handler's, which nobody reads, is left out
  willAttach,   \* will_attach
  at, call,     \* of each task: its await and its call of Discord, as in BotJobs
  draft,        \* of each task: the content it edits the message to
  message,      \* the content of the job's message
  attachments,  \* what was attached to it
  written,      \* history: the outputs of a job on pipes
  ended,        \* history: has the MQTT task handled the end of the job
  overlapped    \* history: has either task begun while the other was at work

terminal == <<lines, columns, screen, state, utf8, raised>>
tasks == <<at, call, draft>>
history == <<written, ended, overlapped>>
hvars == <<terminal, kind, listed, buffer, pos, willAttach, tasks, message, attachments, history>>

Mqtt == "mqtt"
Abandoner == "abandon"
Tasks == {Mqtt, Abandoner}
Working(t) == at[t] \in {"write", "attach", "finish"}

---------------------------------------------------------------------------
(* The content of messages                                                  *)

\* A content without output fits in any message, so only its form is kept.
Bare(form, error) == [form |-> form, output |-> <<>>, frame |-> 0, error |-> error]
Running(output) == [form |-> "running", output |-> output, frame |-> RunningFrame, error |-> FALSE]
Final(output, frame) == [form |-> "final", output |-> output, frame |-> frame, error |-> FALSE]

\* `render` joins the rows by newlines. All that is kept of a screen is whether
\* it is the current one.
Columns == IF columns > 0 THEN columns ELSE 0
ScreenLength == IF lines > 0 THEN lines * Columns + lines - 1 ELSE 0
Rendered == <<"current">>
Aged(content) == [content EXCEPT !.output = [i \in DOMAIN @ |-> "old"]]

Length(content) == content.frame + (IF kind = "pty" THEN ScreenLength ELSE Len(content.output))
TooLong(content) == Length(content) > MessageLimit

Visible(outputs) == \E i \in DOMAIN outputs : outputs[i] # "space"

---------------------------------------------------------------------------
(* Output                                                                   *)

\* Job.write, of the MQTT task: a job in the table and not stopped yet.
Receives == at[Mqtt] = "idle" /\ listed /\ ~ended

Await(t, place, content) ==
  /\ at' = [at EXCEPT ![t] = place]
  /\ call' = [call EXCEPT ![t] = "pending"]
  /\ draft' = [draft EXCEPT ![t] = content]

\* A BytesIO is written at its position.
MutantBuffered(output) == IF pos = Len(buffer) THEN <<output>> ELSE [buffer EXCEPT ![pos + 1] = output]
Buffered(output) ==
  IF pos = Len(buffer) THEN Append(buffer, output) ELSE [buffer EXCEPT ![pos + 1] = output]

\* From the moment when the buffer is too long to be shown, it is only kept.
WriteToPipe(output) ==
  /\ kind = "pipe" /\ Len(written) < MaxOutputs
  /\ buffer' = Buffered(output) /\ pos' = pos + 1
  /\ written' = Append(written, output)
  /\ \/ willAttach /\ UNCHANGED <<willAttach, tasks>>
     \/ ~willAttach /\ TooLong(Running(buffer'))
        /\ willAttach' = TRUE /\ Await(Mqtt, "write", Bare("promise", FALSE))
     \/ ~willAttach /\ ~TooLong(Running(buffer'))
        /\ UNCHANGED willAttach /\ Await(Mqtt, "write", Running(buffer'))
  /\ UNCHANGED <<terminal, message>>

\* One byte goes to the terminal; screens shown before become old ones. An
\* exception leaves the task, which goes back to its messages in the end.
WriteToPty(b) ==
  /\ kind = "pty"
  /\ WriteOneChar(b)
  /\ message' = Aged(message)
  /\ \/ raised' /\ UNCHANGED tasks
     \/ /\ ~raised'
        /\ at' = [at EXCEPT ![Mqtt] = "write"]
        /\ call' = [call EXCEPT ![Mqtt] = "pending"]
        /\ draft' = [t \in Tasks |-> IF t = Mqtt THEN Running(Rendered) ELSE Aged(draft[t])]
  /\ UNCHANGED <<buffer, pos, willAttach, written>>

Output ==
  /\ Receives
  /\ (\E output \in {"text", "space"} : WriteToPipe(output)) \/ (\E b \in Bytes : WriteToPty(b))
  /\ overlapped' = (overlapped \/ Working(Abandoner))
  /\ UNCHANGED <<kind, listed, attachments, ended>>

---------------------------------------------------------------------------
(* OutputHandler.stopped, as the MQTT task or the abandon command calls it   *)

\* update_message_stopped, where output has room for the status or else, when
\* that makes it too long, is left out ("backpedal").
MutantBackpedals(content) == FALSE
Backpedals(content) == kind = "pipe" /\ TooLong(content)

Finish(t, frame) ==
  LET content == IF kind = "pty" THEN Final(Rendered, frame)
                 ELSE IF Visible(buffer) THEN Final(buffer, frame) ELSE Bare("empty", FALSE) IN
  IF Backpedals(content)
    THEN willAttach' = TRUE /\ Await(t, "finish", Bare("status", FALSE))
    ELSE UNCHANGED willAttach /\ Await(t, "finish", content)

\* `seek(0)`, and the upload of the buffer is under way.
Attach(t) == pos' = 0 /\ Await(t, "attach", Bare("status", FALSE)) /\ UNCHANGED willAttach

Stop(t) ==
  /\ \/ willAttach /\ Attach(t)
     \/ ~willAttach /\ (\E frame \in StoppedFrames : Finish(t, frame)) /\ UNCHANGED pos
  /\ overlapped' = (overlapped \/ \E u \in Tasks \ {t} : Working(u))
  /\ UNCHANGED <<terminal, kind, listed, buffer, message, attachments, written>>

ReceiveStopped == Receives /\ Stop(Mqtt) /\ ended' = TRUE

\* Bound: the job is abandoned once.
Abandon == at[Abandoner] = "idle" /\ listed /\ Stop(Abandoner) /\ UNCHANGED ended

---------------------------------------------------------------------------
(* Discord answers, and tasks resume                                        *)

\* An edit fails if its content is too long.
EditAnswered(t) ==
  /\ at[t] \in {"write", "finish"} /\ call[t] = "pending"
  /\ \/ TooLong(draft[t]) /\ call' = [call EXCEPT ![t] = "failed"] /\ UNCHANGED message
     \/ ~TooLong(draft[t]) /\ call' = [call EXCEPT ![t] = "ok"] /\ message' = draft[t]
  /\ UNCHANGED <<terminal, kind, listed, buffer, pos, willAttach, at, draft, attachments, history>>

\* An upload reads the buffer from its position, or from the start when it is
\* tried again, to the end.
Upload(start) == SubSeq(buffer, start + 1, Len(buffer))

UploadAnswered(t) ==
  /\ at[t] = "attach" /\ call[t] = "pending"
  /\ \/ /\ call' = [call EXCEPT ![t] = "ok"]
        /\ \E start \in {0, pos} : attachments' = attachments \cup {Upload(start)}
        /\ pos' = Len(buffer)
     \/ /\ call' = [call EXCEPT ![t] = "failed"]
        /\ pos' \in {pos, Len(buffer)}
        /\ UNCHANGED attachments
  /\ UNCHANGED <<terminal, kind, listed, buffer, willAttach, at, draft, message, history>>

WriteReturns ==
  /\ at[Mqtt] = "write" /\ call[Mqtt] # "pending"
  /\ at' = [at EXCEPT ![Mqtt] = "idle"] /\ call' = [call EXCEPT ![Mqtt] = "none"]
  /\ UNCHANGED <<terminal, kind, listed, buffer, pos, willAttach, draft, message, attachments, history>>

\* The status tells of an upload that failed.
MutantStatus(t) == Bare("status", FALSE)
Status(t) == Bare("status", call[t] = "failed")

Attached(t) ==
  /\ at[t] = "attach" /\ call[t] # "pending"
  /\ Await(t, "finish", Status(t))
  /\ UNCHANGED <<terminal, kind, listed, buffer, pos, willAttach, message, attachments, history>>

\* The job is deleted from the table, unless the edit raised; when somebody else
\* has deleted it that is a KeyError. A task that raised has no more to do here.
StopReturns(t) ==
  /\ at[t] = "finish" /\ call[t] # "pending"
  /\ listed' = (listed /\ call[t] = "failed")
  /\ at' = [at EXCEPT ![t] = IF t = Mqtt THEN "idle" ELSE "done"]
  /\ call' = [call EXCEPT ![t] = "none"]
  /\ UNCHANGED <<terminal, kind, buffer, pos, willAttach, draft, message, attachments, history>>

---------------------------------------------------------------------------
HandlerInit ==
  /\ Init
  /\ kind \in {"pipe", "pty"} /\ listed = TRUE
  /\ kind = "pipe" => <<lines, columns>> = CHOOSE size \in Sizes : TRUE   \* it has no terminal
  /\ buffer = <<>> /\ pos = 0 /\ willAttach = FALSE
  /\ at = [t \in Tasks |-> "idle"] /\ call = [t \in Tasks |-> "none"]
  /\ draft = [t \in Tasks |-> Bare("none", FALSE)]
  /\ message = Bare("none", FALSE) /\ attachments = {}
  /\ written = <<>> /\ ended = FALSE /\ overlapped = FALSE

HandlerNext ==
  \/ Output \/ ReceiveStopped \/ Abandon \/ WriteReturns
  \/ \E t \in Tasks : EditAnswered(t) \/ UploadAnswered(t) \/ Attached(t) \/ StopReturns(t)

HandlerSpec == HandlerInit /\ [][HandlerNext]_hvars

---------------------------------------------------------------------------
(* Correctness                                                              *)

Contents == [form : {"none", "running", "promise", "final", "empty", "status"},
             output : Seq({"text", "space", "current", "old"}),
             frame : Nat, error : BOOLEAN]

HandlerTypeOK ==
  /\ kind \in {"pipe", "pty"} /\ listed \in BOOLEAN
  /\ buffer \in Seq({"text", "space"}) /\ pos \in 0..Len(buffer)
  /\ willAttach \in BOOLEAN /\ (willAttach => kind = "pipe")
  /\ at \in [Tasks -> {"idle", "write", "attach", "finish", "done"}]
  /\ call \in [Tasks -> {"none", "pending", "ok", "failed"}]
  /\ draft \in [Tasks -> Contents] /\ message \in Contents
  /\ attachments \subseteq Seq({"text", "space"})
  /\ written \in Seq({"text", "space"})
  /\ ended \in BOOLEAN /\ overlapped \in BOOLEAN

\* Output that fits while the job runs and no longer with a status: the final
\* edit sets will_attach, but the attachment's turn is over.
InTheGap(outputs) ==
  /\ RunningFrame + Len(outputs) <= MessageLimit
  /\ \E frame \in StoppedFrames : frame + Len(outputs) > MessageLimit

\* When a job leaves the table its user has all of its output, in the message
\* or attached to it, or was told that the upload failed, or there is nothing
\* to see; a terminal's last screen is shown. That holds for jobs that end and
\* for abandoned ones, and when a handler switches to an attachment half way;
\* not in the gap, or when the abandon command and the MQTT task overlap: each
\* may undo the other's edit or move the position of the buffer.
OutputIsDelivered ==
  ~listed /\ ~overlapped =>
    IF kind = "pty" THEN Proper => message.output = Rendered
    ELSE \/ written \in attachments \cup {message.output}
         \/ message.error \/ ~Visible(written) \/ InTheGap(written)

\* A job has left the table by the time the MQTT task is done with its end: no
\* output is so long that the final edit fails, except a terminal's, whose screen
\* is shown whatever its size.
StoppedJobsLeave ==
  ended /\ at[Mqtt] = "idle" =>
    ~listed \/ (kind = "pty" /\ \E frame \in StoppedFrames : frame + ScreenLength > MessageLimit)

---------------------------------------------------------------------------
(* What the code says, and the program does not do                          *)

\* "The `will_attach` attribute can be set in this method; doing so will cause
\* the output buffer to be attached" (update_message_stopped).
AttachedWhenDue == ~listed /\ willAttach /\ ~overlapped => attachments # {} \/ message.error

=============================================================================
