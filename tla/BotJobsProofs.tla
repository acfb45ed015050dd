-------------------------- MODULE BotJobsProofs --------------------------
(***************************************************************************)
(* Type correctness and safety of BotJobs, for any number of jobs and      *)
(* nodes, and whatever Discord and the broker do.                          *)
(***************************************************************************)
EXTENDS BotJobs, TLAPS

USE MaxJidAssumption DEF Jids, Mqtt, Submitter, Cleaner, Abandoner

\* The part of TypeOK that is about jobs, and the part about tasks.
JobsTypeOK ==
  /\ lastJid \in 0..MaxJid
  /\ jobTable \subseteq 1..lastJid
  /\ target \in [Jids -> Nodes]
  /\ started \in [Jids -> BOOLEAN]
  /\ open \in [Jids -> BOOLEAN]
  /\ handler \in [Jids -> {"pipe", "pty", "full"}]
  /\ text \in [Jids -> {"news", "final", "overwritten"}]

TasksTypeOK ==
  /\ at \in [Tasks -> Places]
  /\ call \in [Tasks -> {"none", "pending", "ok", "failed"}]

CursorsTypeOK == cur \in {0} \cup 1..lastJid /\ lost \subseteq 1..lastJid

LEMMA BotTypeSplit == TypeOK <=> JobsTypeOK /\ TasksTypeOK /\ CursorsTypeOK
BY DEF TypeOK, JobsTypeOK, TasksTypeOK, CursorsTypeOK

\* Going on to another await, raising and stopping keep tasks well typed.
LEMMA GoType ==
  ASSUME TasksTypeOK, NEW t \in Tasks, NEW place \in Places, Go(t, place)
  PROVE  TasksTypeOK'
BY DEF Go, TasksTypeOK

LEMMA PlacesExist ==
  /\ {"idle", "sleep", "down", "dead"} \subseteq Places
  /\ {"publish", "kill", "notify", "attach", "callback", "complain"} \subseteq Places
  /\ {"startup", "reject", "write", "finish", "apologise", "give_up"} \subseteq Places
BY DEF Places, Calls, Edits, Posts, Publishes

LEMMA TasksExist ==
  /\ Mqtt \in Tasks
  /\ \A j \in Jids : Submitter(j) \in Tasks /\ Cleaner(j) \in Tasks /\ Abandoner(j) \in Tasks
BY DEF Tasks

LEMMA RaiseType ==
  ASSUME TasksTypeOK, CursorsTypeOK, NEW t \in Tasks, NEW exception, Raise(t, exception),
         lastJid' = lastJid
  PROVE  TasksTypeOK' /\ CursorsTypeOK'
<1>1. CursorsTypeOK'
  BY DEF Raise, CursorsTypeOK
<1>2. \E place \in {"idle", "down", "complain"} : Go(t, place)
  BY DEF Raise
<1> QED
  BY <1>1, <1>2, GoType, PlacesExist

LEMMA StopType ==
  ASSUME TasksTypeOK, CursorsTypeOK, NEW t \in Tasks, NEW j,
         t = Mqtt => j \in {0} \cup 1..lastJid,
         NEW missed \in SUBSET (1..lastJid), Stop(t, j, missed), lastJid' = lastJid
  PROVE  TasksTypeOK' /\ CursorsTypeOK'
<1>1. CASE Raise(t, "value_error")
  BY <1>1, RaiseType
<1>2. CASE /\ cur' = (IF t = Mqtt THEN j ELSE cur) /\ lost' = missed
           /\ \E place \in {"attach", "finish", "notify"} : Go(t, place)
  BY <1>2, GoType, PlacesExist DEF CursorsTypeOK
<1> QED
  BY <1>1, <1>2 DEF Stop, Flush

\* The commands of users keep the type invariant.
LEMMA CommandsType ==
  ASSUME JobsTypeOK, TasksTypeOK, CursorsTypeOK, Commands
  PROVE  JobsTypeOK' /\ TasksTypeOK' /\ CursorsTypeOK'
<1>1. ASSUME NEW n \in Nodes, NEW kind \in {"pipe", "pty"}, Submit(n, kind)
      PROVE  JobsTypeOK' /\ TasksTypeOK' /\ CursorsTypeOK'
  <2>1. NextJid \in Jids /\ lastJid' = NextJid
    BY <1>1 DEF Submit, NextJid, JobsTypeOK
  <2>2. JobsTypeOK'
    BY <1>1, <2>1 DEF Submit, JobsTypeOK, NextJid
  <2>3. TasksTypeOK'
    BY <1>1, <2>1, GoType, PlacesExist, TasksExist DEF Submit
  <2>4. CursorsTypeOK'
    BY <1>1 DEF Submit, CursorsTypeOK, JobsTypeOK
  <2> QED
    BY <2>2, <2>3, <2>4
<1>2. ASSUME NEW j \in Jids, Abandon(j) PROVE JobsTypeOK' /\ TasksTypeOK' /\ CursorsTypeOK'
  <2>1. JobsTypeOK' /\ lastJid' = lastJid
    BY <1>2 DEF Abandon, jobs, JobsTypeOK
  <2>2. Abandoner(j) \in Tasks /\ Abandoner(j) # Mqtt /\ lost \in SUBSET (1..lastJid)
    BY TasksExist DEF CursorsTypeOK
  <2> QED
    BY <1>2, <2>1, <2>2, StopType DEF Abandon
<1> QED
  BY <1>1, <1>2 DEF Commands

\* The arrival of a message keeps the type invariant.
LEMMA MessagesType ==
  ASSUME JobsTypeOK, TasksTypeOK, CursorsTypeOK, Messages
  PROVE  JobsTypeOK' /\ TasksTypeOK' /\ CursorsTypeOK'
<1>1. ASSUME NEW j \in Jids, ReceiveStartup(j) \/ ReceiveReject(j) \/ ReceiveOutput(j)
      PROVE  JobsTypeOK' /\ TasksTypeOK' /\ CursorsTypeOK'
  <2>1. j \in 1..lastJid /\ lastJid' = lastJid
    BY <1>1 DEF ReceiveStartup, ReceiveReject, ReceiveOutput, Receives, jobs, JobsTypeOK
  <2>2. JobsTypeOK'
    BY <1>1 DEF ReceiveStartup, ReceiveReject, ReceiveOutput, jobs, JobsTypeOK
  <2>3. TasksTypeOK'
    BY <1>1, GoType, PlacesExist, TasksExist DEF ReceiveStartup, ReceiveReject, ReceiveOutput
  <2>4. CursorsTypeOK'
    BY <1>1, <2>1 DEF ReceiveStartup, ReceiveReject, ReceiveOutput, CursorsTypeOK
  <2> QED
    BY <2>2, <2>3, <2>4
<1>2. ASSUME NEW j \in Jids, ReceiveStopped(j) PROVE JobsTypeOK' /\ TasksTypeOK' /\ CursorsTypeOK'
  <2>1. j \in 1..lastJid /\ JobsTypeOK' /\ lastJid' = lastJid /\ Stop(Mqtt, j, {})
    BY <1>2 DEF ReceiveStopped, Receives, jobs, JobsTypeOK
  <2> QED
    BY <2>1, StopType, TasksExist
<1>3. ASSUME NEW n \in Nodes, NEW known \in SUBSET Jids, ReceiveRollCall(n, known)
      PROVE  JobsTypeOK' /\ TasksTypeOK' /\ CursorsTypeOK'
  <2>1. JobsTypeOK' /\ lastJid' = lastJid
    BY <1>3 DEF ReceiveRollCall, jobs, JobsTypeOK
  <2>2. PICK bad \in SUBSET (1..lastJid) : \E j \in bad : Stop(Mqtt, j, bad)
    BY <1>3 DEF ReceiveRollCall, JobsTypeOK
  <2> QED
    BY <2>1, <2>2, StopType, TasksExist
<1> QED
  BY <1>1, <1>2, <1>3 DEF Messages

\* So does a task that goes on with Job.stopped.
LEMMA StopResumesType ==
  ASSUME JobsTypeOK, TasksTypeOK, CursorsTypeOK, NEW t \in Tasks, StopResumes(t)
  PROVE  JobsTypeOK' /\ TasksTypeOK' /\ CursorsTypeOK'
<1>1. lastJid' = lastJid
  BY DEF StopResumes, Notified, Attached, Finished, NotFinished, Killed, jobs
<1>2. JobsTypeOK'
  BY DEF StopResumes, Notified, Attached, Finished, NotFinished, Killed, jobs, JobsTypeOK,
         Deleted
<1>3. lost \in SUBSET (1..lastJid) /\ (t = Mqtt => Subject(t) \in {0} \cup 1..lastJid)
  BY DEF CursorsTypeOK, Subject
<1>4. CASE Notified(t)
  <2>1. Stop(t, Subject(t), lost) \/ Raise(t, "discord")
    BY <1>4 DEF Notified, Stop
  <2> QED
    BY <1>1, <1>2, <1>3, <2>1, StopType, RaiseType
<1>5. CASE Attached(t)
  BY <1>1, <1>2, <1>5, GoType, PlacesExist DEF Attached, CursorsTypeOK
<1>6. CASE Finished(t)
  <2>1. CASE Raise(t, "key_error")
    BY <1>1, <1>2, <2>1, RaiseType
  <2>2. CASE NextMessage
    BY <1>1, <1>2, <2>2, GoType, PlacesExist, TasksExist DEF NextMessage, CursorsTypeOK
  <2>3. CASE UNCHANGED <<cur, lost>> /\ \E place \in {"kill", "callback"} : Go(t, place)
    BY <1>1, <1>2, <2>3, GoType, PlacesExist DEF CursorsTypeOK
  <2> QED
    BY <1>6, <2>1, <2>2, <2>3 DEF Finished
<1>7. CASE NotFinished(t)
  BY <1>1, <1>2, <1>7, RaiseType DEF NotFinished, FinalEditFails
<1>8. CASE Killed(t)
  <2>1. CASE UNCHANGED <<cur, lost>> /\ Go(t, "idle")
    BY <1>1, <1>2, <2>1, GoType, PlacesExist DEF CursorsTypeOK
  <2>2. CASE NextMessage
    BY <1>1, <1>2, <2>2, GoType, PlacesExist, TasksExist DEF NextMessage, CursorsTypeOK
  <2>3. CASE Raise(t, "mqtt")
    BY <1>1, <1>2, <2>3, RaiseType
  <2>4. CASE \E j \in lost \ {cur} : Stop(t, j, lost \ {cur})
    <3>1. PICK j \in lost \ {cur} : Stop(t, j, lost \ {cur})
      BY <2>4
    <3>2. j \in 1..lastJid /\ lost \ {cur} \in SUBSET (1..lastJid)
      BY <1>3
    <3> QED
      BY <1>1, <1>2, <3>1, <3>2, StopType
  <2> QED
    BY <1>8, <2>1, <2>2, <2>3, <2>4 DEF Killed
<1> QED
  BY <1>4, <1>5, <1>6, <1>7, <1>8 DEF StopResumes

\* So does the MQTT task when it resumes.
LEMMA MqttType ==
  ASSUME JobsTypeOK, TasksTypeOK, CursorsTypeOK, MqttResumes \/ LinkLost
  PROVE  JobsTypeOK' /\ TasksTypeOK' /\ CursorsTypeOK'
<1>1. CASE StopResumes(Mqtt)
  BY <1>1, StopResumesType, TasksExist
<1>2. CASE StartupShown \/ RejectShown \/ OutputShown \/ EditRaises \/ CalledBack
  <2>1. lastJid' = lastJid /\ JobsTypeOK'
    BY <1>2 DEF StartupShown, RejectShown, OutputShown, EditRaises, CalledBack, jobs,
                JobsTypeOK, Deleted
  <2>2. CASE NextMessage
    BY <2>1, <2>2, GoType, PlacesExist, TasksExist DEF NextMessage, CursorsTypeOK
  <2>3. CASE \E exception : Raise(Mqtt, exception)
    BY <2>1, <2>3, RaiseType, TasksExist
  <2> QED
    BY <1>2, <2>2, <2>3 DEF StartupShown, RejectShown, OutputShown, EditRaises, CalledBack
<1>3. CASE Reconnect \/ Complained \/ LinkLost
  BY <1>3, GoType, PlacesExist, TasksExist
  DEF Reconnect, Complained, LinkLost, jobs, JobsTypeOK, CursorsTypeOK
<1> QED
  BY <1>1, <1>2, <1>3 DEF MqttResumes

\* So do the tasks of a job.
LEMMA JobTaskType ==
  ASSUME JobsTypeOK, TasksTypeOK, CursorsTypeOK, NEW j \in Jids, JobTaskResumes(j)
  PROVE  JobsTypeOK' /\ TasksTypeOK' /\ CursorsTypeOK'
<1>1. CASE StopResumes(Abandoner(j))
  BY <1>1, StopResumesType, TasksExist
<1>2. CASE Submitted(j)
  <2>1. TasksTypeOK'
    BY <1>2, PlacesExist, TasksExist DEF Submitted, TasksTypeOK, Watch
  <2> QED
    BY <1>2, <2>1 DEF Submitted, jobs, JobsTypeOK, CursorsTypeOK
<1>3. CASE NotSubmitted(j) \/ Apologised(j) \/ CleanerWakes(j) \/ CleanerGivesUp(j)
  <2>1. TasksTypeOK'
    BY <1>3, GoType, PlacesExist, TasksExist
    DEF NotSubmitted, Apologised, CleanerWakes, CleanerGivesUp
  <2>2. JobsTypeOK' /\ CursorsTypeOK'
    BY <1>3 DEF NotSubmitted, Apologised, CleanerWakes, CleanerGivesUp, jobs, JobsTypeOK,
                CursorsTypeOK, Deleted
  <2> QED
    BY <2>1, <2>2
<1> QED
  BY <1>1, <1>2, <1>3 DEF JobTaskResumes

\* So do the answers of Discord and the broker.
LEMMA AnswersType ==
  ASSUME JobsTypeOK, TasksTypeOK, CursorsTypeOK, NEW t \in Tasks, Answers(t)
  PROVE  JobsTypeOK' /\ TasksTypeOK' /\ CursorsTypeOK'
<1>1. TasksTypeOK'
  BY DEF Answers, DiscordAnswers, BrokerAnswers, TasksTypeOK
<1>2. CursorsTypeOK'
  BY DEF Answers, DiscordAnswers, BrokerAnswers, CursorsTypeOK, jobs
<1>3. JobsTypeOK'
  BY DEF Answers, DiscordAnswers, BrokerAnswers, JobsTypeOK, jobs, TextOf
<1> QED
  BY <1>1, <1>2, <1>3

BotTyped == JobsTypeOK /\ TasksTypeOK /\ CursorsTypeOK

LEMMA BotTypedStep == BotTyped /\ [Next]_vars => BotTyped'
<1> SUFFICES ASSUME JobsTypeOK, TasksTypeOK, CursorsTypeOK, [Next]_vars
             PROVE  JobsTypeOK' /\ TasksTypeOK' /\ CursorsTypeOK'
  BY DEF BotTyped
<1>1. CASE UNCHANGED vars
  BY <1>1 DEF vars, JobsTypeOK, TasksTypeOK, CursorsTypeOK
<1> QED
  BY <1>1, CommandsType, MessagesType, MqttType, JobTaskType, AnswersType DEF Next

LEMMA BotTypeStep == TypeOK /\ [Next]_vars => TypeOK'
<1>1. TypeOK <=> BotTyped
  BY BotTypeSplit DEF BotTyped
<1> QED
  BY <1>1, BotTypedStep, PTL

LEMMA BotTypeInit == Init => TypeOK
BY BotTypeSplit, PlacesExist DEF Init, JobsTypeOK, TasksTypeOK, CursorsTypeOK

\* The bot's job table, its tasks and what they wait for are always well typed:
\* no job id beyond the last one issued is ever in the table or handled.
THEOREM BotTypeCorrect == Spec => []TypeOK
BY BotTypeInit, BotTypeStep, PTL DEF Spec

---------------------------------------------------------------------------
(* Safety                                                                  *)

\* An entry of the table has its buffer open.
LEMMA TableStep ==
  ASSUME JobsTypeOK, TableIsOpen, [Next]_vars
  PROVE  TableIsOpen'
<1>1. CASE UNCHANGED <<jobTable, open>>
  BY <1>1 DEF TableIsOpen
<1>2. ASSUME NEW n \in Nodes, NEW kind \in {"pipe", "pty"}, Submit(n, kind)
      PROVE  TableIsOpen'
  BY <1>2 DEF Submit, NextJid, JobsTypeOK, TableIsOpen
<1>3. CASE open' = open /\ jobTable' \subseteq jobTable
  BY <1>3 DEF TableIsOpen
<1>4. ASSUME NEW t \in Tasks, Finished(t) PROVE TableIsOpen'
  <2>1. \A j \in Jids : j # Subject(t) => open'[j] = open[j]
    BY <1>4 DEF Finished, JobsTypeOK
  <2>2. jobTable' \subseteq jobTable /\ Subject(t) \notin jobTable'
    BY <1>4 DEF Finished, Deleted
  <2> QED
    BY <2>1, <2>2 DEF JobsTypeOK, TableIsOpen
<1>5. CASE Commands
  BY <1>1, <1>2, <1>5 DEF Commands, Abandon, jobs
<1>6. CASE Messages
  BY <1>1, <1>6 DEF Messages, ReceiveStartup, ReceiveReject, ReceiveOutput, ReceiveStopped,
                    ReceiveRollCall, jobs
<1>7. ASSUME NEW t \in Tasks, StopResumes(t) PROVE TableIsOpen'
  BY <1>1, <1>4, <1>7 DEF StopResumes, Notified, Attached, NotFinished, Killed, jobs
<1>8. CASE MqttResumes \/ LinkLost
  BY <1>1, <1>3, <1>7, <1>8, TasksExist
  DEF MqttResumes, LinkLost, StartupShown, RejectShown, OutputShown, EditRaises, CalledBack,
      Reconnect, Complained, Deleted, jobs
<1>9. ASSUME NEW j \in Jids, JobTaskResumes(j) PROVE TableIsOpen'
  BY <1>1, <1>3, <1>7, <1>9, TasksExist
  DEF JobTaskResumes, Submitted, NotSubmitted, Apologised, CleanerWakes, CleanerGivesUp,
      Deleted, jobs
<1>10. ASSUME NEW t \in Tasks, Answers(t) PROVE TableIsOpen'
  BY <1>1, <1>10 DEF Answers, DiscordAnswers, BrokerAnswers, jobs
<1> QED
  BY <1>1, <1>5, <1>6, <1>8, <1>9, <1>10 DEF Next, vars

\* No output that arrives for a job of the table meets a closed buffer, however
\* the tasks that stop, reject, clean or abandon jobs race.
THEOREM TableStaysOpen == Spec => []TableIsOpen
<1>1. Init => TableIsOpen
  BY DEF Init, TableIsOpen
<1>2. TypeOK /\ TableIsOpen /\ [Next]_vars => TableIsOpen'
  BY TableStep, BotTypeSplit
<1> QED
  BY <1>1, <1>2, BotTypeCorrect, PTL DEF Spec

\* A task whose final edit succeeded has made the message of its job show it.
FinalEdits == {"reject", "finish", "give_up"}
EditsShow ==
  \A t \in Tasks : at[t] \in FinalEdits /\ call[t] = "ok" /\ Subject(t) \in Jids
                     => text[Subject(t)] # "news"

\* What every step but an answer does to EditsShow's variables: a task that
\* moves has no answer yet, the others stay with their job.
Moves ==
  /\ text' = text
  /\ \A t \in Tasks : \/ call'[t] # "ok"
                      \/ at'[t] = at[t] /\ call'[t] = call[t] /\ Subject(t)' = Subject(t)

LEMMA MovesKeepEdits == EditsShow /\ Moves => EditsShow'
BY DEF EditsShow, Moves

LEMMA GoMoves ==
  ASSUME TasksTypeOK, NEW t \in Tasks, NEW place \in Places, Go(t, place), text' = text,
         t # Mqtt => cur' = cur
  PROVE  Moves
BY DEF Go, Moves, TasksTypeOK, Subject

LEMMA RaiseMoves ==
  ASSUME TasksTypeOK, NEW t \in Tasks, NEW exception, Raise(t, exception), text' = text
  PROVE  Moves
<1>1. \E place \in {"idle", "down", "complain"} : Go(t, place)
  BY DEF Raise
<1>2. t # Mqtt => cur' = cur
  BY DEF Raise
<1> QED
  BY <1>1, <1>2, GoMoves, PlacesExist

LEMMA NextMessageMoves == ASSUME TasksTypeOK, NextMessage, text' = text PROVE Moves
BY GoMoves, PlacesExist, TasksExist DEF NextMessage

LEMMA StopMoves ==
  ASSUME TasksTypeOK, NEW t \in Tasks, NEW j, NEW missed, Stop(t, j, missed), text' = text
  PROVE  Moves
<1>1. CASE Raise(t, "value_error")
  BY <1>1, RaiseMoves
<1>2. CASE /\ cur' = (IF t = Mqtt THEN j ELSE cur)
           /\ \E place \in {"attach", "finish", "notify"} : Go(t, place)
  BY <1>2, GoMoves, PlacesExist
<1> QED
  BY <1>1, <1>2 DEF Stop, Flush

LEMMA StopResumesMoves ==
  ASSUME TasksTypeOK, NEW t \in Tasks, StopResumes(t)
  PROVE  Moves
<1>1. text' = text
  BY DEF StopResumes, Notified, Attached, Finished, NotFinished, Killed
<1>2. CASE Notified(t)
  <2>1. Stop(t, Subject(t), lost) \/ Raise(t, "discord")
    BY <1>2 DEF Notified, Stop
  <2> QED
    BY <1>1, <2>1, StopMoves, RaiseMoves
<1>3. CASE Attached(t)
  BY <1>1, <1>3, GoMoves, PlacesExist DEF Attached
<1>4. CASE Finished(t) \/ NotFinished(t)
  <2>1. \/ \E exception : Raise(t, exception)
        \/ NextMessage
        \/ cur' = cur /\ \E place \in {"kill", "callback"} : Go(t, place)
    BY <1>4 DEF Finished, NotFinished, FinalEditFails
  <2> QED
    BY <1>1, <2>1, RaiseMoves, NextMessageMoves, GoMoves, PlacesExist
<1>5. CASE Killed(t)
  <2>1. \/ Go(t, "idle") /\ cur' = cur
        \/ NextMessage
        \/ Raise(t, "mqtt")
        \/ \E j \in lost \ {cur} : Stop(t, j, lost \ {cur})
    BY <1>5 DEF Killed
  <2> QED
    BY <1>1, <2>1, RaiseMoves, NextMessageMoves, GoMoves, StopMoves, PlacesExist
<1> QED
  BY <1>2, <1>3, <1>4, <1>5 DEF StopResumes

LEMMA EditsStep ==
  ASSUME JobsTypeOK, TasksTypeOK, CursorsTypeOK, EditsShow, [Next]_vars
  PROVE  EditsShow'
<1>1. CASE UNCHANGED vars
  BY <1>1 DEF vars, EditsShow, Subject
<1>2. CASE Commands
  <2>1. ASSUME NEW n \in Nodes, NEW kind \in {"pipe", "pty"}, Submit(n, kind) PROVE Moves
    <3>1. NextJid \in Jids
      BY <2>1 DEF Submit, NextJid, JobsTypeOK
    <3> QED
      BY <2>1, <3>1, GoMoves, PlacesExist, TasksExist DEF Submit
  <2>2. ASSUME NEW j \in Jids, Abandon(j) PROVE Moves
    BY <2>2, StopMoves, TasksExist DEF Abandon
  <2> QED
    BY <1>2, <2>1, <2>2, MovesKeepEdits DEF Commands
<1>3. CASE Messages
  <2>1. ASSUME NEW j \in Jids, ReceiveStartup(j) \/ ReceiveReject(j) \/ ReceiveOutput(j)
        PROVE  Moves
    BY <2>1, GoMoves, PlacesExist, TasksExist DEF ReceiveStartup, ReceiveReject, ReceiveOutput
  <2>2. ASSUME NEW j \in Jids, ReceiveStopped(j) PROVE Moves
    BY <2>2, StopMoves, TasksExist DEF ReceiveStopped
  <2>3. ASSUME NEW n \in Nodes, NEW known \in SUBSET Jids, ReceiveRollCall(n, known)
        PROVE  Moves
    <3>1. text' = text /\ \E bad, j : Stop(Mqtt, j, bad)
      BY <2>3 DEF ReceiveRollCall
    <3> QED
      BY <3>1, StopMoves, TasksExist
  <2> QED
    BY <1>3, <2>1, <2>2, <2>3, MovesKeepEdits DEF Messages
<1>4. CASE MqttResumes \/ LinkLost
  <2>1. text' = text
    BY <1>4 DEF MqttResumes, LinkLost, StartupShown, RejectShown, OutputShown, EditRaises,
                CalledBack, Reconnect, Complained, StopResumes, Notified, Attached, Finished,
                NotFinished, Killed
  <2>2. \/ StopResumes(Mqtt)
        \/ NextMessage
        \/ \E exception : Raise(Mqtt, exception)
        \/ \E place \in {"idle", "down", "dead"} : Go(Mqtt, place)
    BY <1>4 DEF MqttResumes, LinkLost, StartupShown, RejectShown, OutputShown, EditRaises,
                CalledBack, Reconnect, Complained
  <2>3. Moves
    BY <2>1, <2>2, StopResumesMoves, NextMessageMoves, RaiseMoves, GoMoves, PlacesExist,
       TasksExist
  <2> QED
    BY <2>3, MovesKeepEdits
<1>5. ASSUME NEW j \in Jids, JobTaskResumes(j) PROVE EditsShow'
  <2>1. CASE StopResumes(Abandoner(j))
    BY <2>1, StopResumesMoves, MovesKeepEdits, TasksExist
  <2>2. CASE Submitted(j)
    <3>1. text' = text /\ cur' = cur /\ call'[Submitter(j)] = "none"
      BY <2>2, TasksExist DEF Submitted, TasksTypeOK
    <3>2. at'[Cleaner(j)] \notin FinalEdits
      BY <2>2, TasksExist DEF Submitted, TasksTypeOK, Watch, FinalEdits
    <3>3. \A t \in Tasks \ {Submitter(j), Cleaner(j)} : at'[t] = at[t] /\ call'[t] = call[t]
      BY <2>2, TasksExist DEF Submitted, TasksTypeOK
    <3>4. \A t \in Tasks : Subject(t)' = Subject(t)
      BY <3>1 DEF Subject
    <3> QED
      BY <3>1, <3>2, <3>3, <3>4 DEF EditsShow
  <2>3. CASE NotSubmitted(j) \/ Apologised(j)
    <3>1. text' = text /\ cur' = cur
      BY <2>3 DEF NotSubmitted, Apologised
    <3>2. Go(Submitter(j), "apologise") \/ Go(Submitter(j), "dead")
      BY <2>3 DEF NotSubmitted, Apologised
    <3> QED
      BY <3>1, <3>2, GoMoves, MovesKeepEdits, TasksExist, PlacesExist
  <2>4. CASE CleanerWakes(j) \/ CleanerGivesUp(j)
    <3>1. text' = text /\ cur' = cur
      BY <2>4 DEF CleanerWakes, CleanerGivesUp
    <3>2. PICK place \in {"idle", "give_up", "dead"} : Go(Cleaner(j), place)
      <4>1. CASE CleanerWakes(j)
        <5>1. CASE started[j]
          BY <4>1, <5>1 DEF CleanerWakes
        <5>2. CASE ~started[j]
          BY <4>1, <5>2 DEF CleanerWakes
        <5> QED
          BY <5>1, <5>2
      <4>2. CASE CleanerGivesUp(j)
        <5>1. CASE call[Cleaner(j)] = "ok"
          BY <4>2, <5>1 DEF CleanerGivesUp
        <5>2. CASE call[Cleaner(j)] # "ok"
          BY <4>2, <5>2 DEF CleanerGivesUp
        <5> QED
          BY <5>1, <5>2
      <4> QED
        BY <2>4, <4>1, <4>2
    <3> QED
      BY <3>1, <3>2, GoMoves, MovesKeepEdits, TasksExist, PlacesExist
  <2> QED
    BY <1>5, <2>1, <2>2, <2>3, <2>4 DEF JobTaskResumes
<1>6. ASSUME NEW u \in Tasks, Answers(u) PROVE EditsShow'
  <2>1. CASE BrokerAnswers(u)
    BY <2>1 DEF BrokerAnswers, EditsShow, Subject, TasksTypeOK, FinalEdits, Publishes
  <2>2. CASE DiscordAnswers(u)
    <3>1. at' = at /\ cur' = cur /\ \A t \in Tasks : Subject(t)' = Subject(t)
      BY <2>2 DEF DiscordAnswers, Subject
    <3>2. \A j \in Jids : text[j] # "news" => text'[j] # "news"
      BY <2>2 DEF DiscordAnswers, TextOf, JobsTypeOK
    <3>3. \A t \in Tasks \ {u} : call'[t] = call[t]
      BY <2>2 DEF DiscordAnswers, TasksTypeOK
    <3>4. call'[u] = "ok" /\ at[u] \in FinalEdits /\ Subject(u) \in Jids
            => text'[Subject(u)] # "news"
      BY <2>2 DEF DiscordAnswers, TextOf, JobsTypeOK, TasksTypeOK, FinalEdits, Edits
    <3> QED
      BY <3>1, <3>2, <3>3, <3>4 DEF EditsShow
  <2> QED
    BY <1>6, <2>1, <2>2 DEF Answers
<1> QED
  BY <1>1, <1>2, <1>3, <1>4, <1>5, <1>6 DEF Next

\* A job leaves the table only after an edit of its message that tells its end
\* has succeeded, and no later edit hides that this has happened.
LEMMA ToldStep ==
  ASSUME JobsTypeOK, TasksTypeOK, CursorsTypeOK, EditsShow, NobodyIsLeftInTheDark,
         [Next]_vars
  PROVE  NobodyIsLeftInTheDark'
<1>1. ASSUME UNCHANGED <<jobTable, lastJid, text>> PROVE NobodyIsLeftInTheDark'
  BY <1>1 DEF NobodyIsLeftInTheDark
<1>2. ASSUME NEW t \in Tasks, at[t] \in FinalEdits, call[t] = "ok", lastJid' = lastJid,
             text' = text, jobTable' = jobTable \ {Subject(t)}
      PROVE  NobodyIsLeftInTheDark'
  <2>1. \A j \in 1..lastJid : j = Subject(t) => text[j] # "news"
    BY <1>2 DEF EditsShow, JobsTypeOK
  <2> QED
    BY <1>2, <2>1 DEF NobodyIsLeftInTheDark
<1>3. CASE Commands
  <2>1. ASSUME NEW n \in Nodes, NEW kind \in {"pipe", "pty"}, Submit(n, kind)
        PROVE  NobodyIsLeftInTheDark'
    BY <2>1 DEF Submit, NextJid, JobsTypeOK, NobodyIsLeftInTheDark
  <2> QED
    BY <1>1, <1>3, <2>1 DEF Commands, Abandon, jobs
<1>4. CASE Messages
  BY <1>1, <1>4 DEF Messages, ReceiveStartup, ReceiveReject, ReceiveOutput, ReceiveStopped,
                    ReceiveRollCall, jobs
<1>5. ASSUME NEW t \in Tasks, StopResumes(t) PROVE NobodyIsLeftInTheDark'
  <2>1. CASE Finished(t)
    BY <1>1, <1>2, <2>1 DEF Finished, Resumes, FinalEdits, Deleted
  <2> QED
    BY <1>1, <1>5, <2>1 DEF StopResumes, Notified, Attached, NotFinished, Killed, jobs
<1>6. CASE MqttResumes \/ LinkLost
  <2>1. CASE RejectShown
    <3>1. cur = Subject(Mqtt)
      BY DEF Subject
    <3> QED
      BY <1>1, <1>2, <2>1, <3>1, TasksExist DEF RejectShown, Resumes, FinalEdits, Deleted
  <2> QED
    BY <1>1, <1>5, <1>6, <2>1, TasksExist
    DEF MqttResumes, LinkLost, StartupShown, OutputShown, EditRaises, CalledBack, Reconnect,
        Complained, jobs
<1>7. ASSUME NEW j \in Jids, JobTaskResumes(j) PROVE NobodyIsLeftInTheDark'
  <2>1. CASE CleanerGivesUp(j)
    <3>1. Subject(Cleaner(j)) = j
      BY DEF Subject
    <3> QED
      BY <1>1, <1>2, <2>1, <3>1, TasksExist DEF CleanerGivesUp, GaveUp, FinalEdits, Deleted
  <2> QED
    BY <1>1, <1>5, <1>7, <2>1, TasksExist
    DEF JobTaskResumes, Submitted, NotSubmitted, Apologised, CleanerWakes, jobs
<1>8. ASSUME NEW t \in Tasks, Answers(t) PROVE NobodyIsLeftInTheDark'
  <2>1. jobTable' = jobTable /\ lastJid' = lastJid
    BY <1>8 DEF Answers, DiscordAnswers, BrokerAnswers, jobs
  <2>2. \A j \in Jids : text[j] # "news" => text'[j] # "news"
    BY <1>8 DEF Answers, DiscordAnswers, BrokerAnswers, TextOf, JobsTypeOK
  <2> QED
    BY <2>1, <2>2 DEF NobodyIsLeftInTheDark, JobsTypeOK
<1> QED
  BY <1>1, <1>3, <1>4, <1>6, <1>7, <1>8 DEF Next, vars

\* Whatever calls of Discord fail, and whichever of its tasks removes a job, the
\* user was told before the bot forgets the job.
THEOREM EverybodyIsTold == Spec => []NobodyIsLeftInTheDark
<1> DEFINE Told == EditsShow /\ NobodyIsLeftInTheDark
<1>1. Init => Told
  BY DEF Init, EditsShow, NobodyIsLeftInTheDark
<1>2. TypeOK /\ Told /\ [Next]_vars => Told'
  BY EditsStep, ToldStep, BotTypeSplit
<1>3. Told => NobodyIsLeftInTheDark
  OBVIOUS
<1> HIDE DEF Told
<1> QED
  BY <1>1, <1>2, <1>3, BotTypeCorrect, PTL DEF Spec

=============================================================================
