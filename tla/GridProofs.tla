----------------------------- MODULE GridProofs -----------------------------
(***************************************************************************)
(* The bot of the grid is the bot of module BotJobs, for any number of      *)
(* jobs, any bound on messages and whatever faults: what holds of that one  *)
(* while nodes may say anything holds in the grid. The rest is about the    *)
(* two together: what the bot's steps leave alone, that a job is delivered  *)
(* once, that what the bot was told is so, and that no job is unaccounted   *)
(* for.                                                                     *)
(***************************************************************************)
EXTENDS Grid, BotJobsProofs

USE HostAssumption

LEMMA JobsAreJids == ASSUME TypeOK PROVE jobTable \subseteq Jids
<1>1. lastJid \in 0..MaxJid /\ jobTable \subseteq 1..lastJid
  BY DEF TypeOK
<1>2. 1..lastJid \subseteq Jids
  BY <1>1, MaxJidAssumption DEF Jids
<1> QED
  BY <1>1, <1>2

\* What the bot receives, it receives in BotJobs.
LEMMA ReceiveIsMessage ==
  ASSUME TypeOK, NEW msg, Receive(msg)
  PROVE  [Next]_vars
<1> DEFINE heard == msg.jids \cap jobTable
           bad == {j \in jobTable : target[j] = Host} \ Known(msg)
<1>0. heard \subseteq Jids
  BY JobsAreJids
<1>1. CASE \E j \in heard : ReceiveStartup(j) \/ ReceiveReject(j) \/ ReceiveOutput(j) \/ ReceiveStopped(j)
  BY <1>0, <1>1 DEF Next, Messages
<1>2. CASE ReceiveRollCall(Host, Known(msg))
  <2> DEFINE known == Known(msg) \cap Jids
  <2>1. {j \in jobTable : target[j] = Host} \ known = bad
    BY JobsAreJids
  <2>2. ReceiveRollCall(Host, known)
    BY <1>2, <2>1 DEF ReceiveRollCall
  <2>3. known \in SUBSET Jids
    OBVIOUS
  <2> QED
    BY <2>2, <2>3 DEF Next, Messages
<1>3. CASE UNCHANGED vars
  BY <1>3
<1> QED
  BY <1>1, <1>2, <1>3 DEF Receive

LEMMA GridStepIsBotStep ==
  ASSUME TypeOK, [GridNext]_gvars
  PROVE  [Next]_vars
<1>1. CASE BotStep
  <2>1. ASSUME NEW kind \in Kinds, Submit(Host, kind) PROVE Next
    BY <2>1 DEF Next, Commands
  <2>2. CASE BotTask
    BY <2>1, <2>2 DEF BotTask, Next, Commands, Answers
  <2>3. ASSUME NEW j \in Jids, JobTask(j) PROVE Next
    BY <2>3 DEF JobTask, Next
  <2> QED
    BY <1>1, <2>2, <2>3 DEF BotStep
<1>2. CASE HandleMessage
  BY <1>2, ReceiveIsMessage DEF HandleMessage
<1>3. CASE NodeStep
  BY <1>3 DEF NodeStep, HandleMail, JobRuns, NodeLeaves, NodeReturns
<1>4. CASE RollCall
  BY <1>4 DEF RollCall
<1>5. ASSUME NEW t \in Tasks, PublishAnswered(t) PROVE Next
  BY <1>5 DEF PublishAnswered, Next, Answers
<1>6. CASE UNCHANGED gvars
  BY <1>6 DEF gvars
<1> QED
  BY <1>1, <1>2, <1>3, <1>4, <1>5, <1>6 DEF GridNext

\* The grid implements the bot of module BotJobs.
THEOREM GridImplementsBot == GridSpec => Spec
<1>1. GridInit => Init
  BY DEF GridInit
<1> QED
  BY <1>1, BotTypeInit, GridStepIsBotStep, BotTypeStep, PTL DEF GridSpec, Spec

\* With nodes that follow their contract, links that fail and kills and roll calls
\* under way, an entry of the table has its buffer open.
THEOREM GridTableStaysOpen == GridSpec => []TableIsOpen
BY GridImplementsBot, TableStaysOpen, PTL

\* And a job leaves the table only once its message says why.
THEOREM GridEverybodyIsTold == GridSpec => []NobodyIsLeftInTheDark
BY GridImplementsBot, EverybodyIsTold, PTL

---------------------------------------------------------------------------
(* What a step of the bot does to what the grid depends on                  *)

USE DEF Mqtt, Submitter, Cleaner, Abandoner

\* The submission of a job has not been answered yet, or is still to come.
Fresh(j) == j > lastJid \/ Resumes(Submitter(j), "publish", "pending")
Killing(t) == Resumes(t, "kill", "pending")
KillPending(j) == \E t \in Tasks : Killing(t) /\ Subject(t) = j

\* Only submitters submit, and only tasks that stop a job kill it; the MQTT task has a job to
\* stop when it stops one.
Stoppers == {Mqtt} \cup {Abandoner(j) : j \in Jids}
Roles == /\ \A t \in Tasks : at[t] = "publish" => \E j \in 1..lastJid : t = Submitter(j)
         /\ \A t \in Tasks : at[t] = "kill" => t \in Stoppers
Stopping == {"notify", "attach", "finish", "kill"}
HasJob == at[Mqtt] \in Stopping => cur \in Jids

\* No task begins to submit, and the kills that wait for an answer wait on.
Onward ==
  /\ lastJid' = lastJid
  /\ \A t \in Tasks : /\ at'[t] = "kill" => at[t] = "kill" \/ t \in Stoppers
                      /\ at'[t] = "publish" => at[t] = "publish"
                      /\ Resumes(t, "publish", "pending")' => Resumes(t, "publish", "pending")
                      /\ Killing(t) => Killing(t)' /\ Subject(t)' = Subject(t)

LEMMA GoOnward ==
  ASSUME TasksTypeOK, NEW t \in Tasks, NEW place \in Places \ {"publish"}, Go(t, place),
         place = "kill" => t \in Stoppers,
         ~Killing(t), lastJid' = lastJid, t # Mqtt => cur' = cur
  PROVE  Onward
<1>1. at'[t] = place /\ \A u \in Tasks \ {t} : at'[u] = at[u] /\ call'[u] = call[u]
  BY DEF Go, TasksTypeOK
<1>2. \A u \in Tasks \ {t} : u # Mqtt \/ cur' = cur
  OBVIOUS
<1>3. \A u \in Tasks \ {t} : Subject(u)' = Subject(u)
  BY <1>2 DEF Subject
<1> QED
  BY <1>1, <1>3 DEF Onward, Killing, Resumes

LEMMA RaiseOnward ==
  ASSUME TasksTypeOK, NEW t \in Tasks, NEW exception, Raise(t, exception), ~Killing(t),
         lastJid' = lastJid
  PROVE  Onward
<1>1. \E place \in {"idle", "down", "complain"} : Go(t, place)
  BY DEF Raise
<1>2. t # Mqtt => cur' = cur
  BY DEF Raise
<1> QED
  BY <1>1, <1>2, GoOnward, PlacesExist

LEMMA StopOnward ==
  ASSUME TasksTypeOK, NEW t \in Tasks, NEW j, NEW missed, Stop(t, j, missed), ~Killing(t),
         lastJid' = lastJid
  PROVE  Onward
<1>1. CASE Raise(t, "value_error")
  BY <1>1, RaiseOnward
<1>2. CASE /\ cur' = (IF t = Mqtt THEN j ELSE cur)
           /\ \E place \in {"attach", "finish", "notify"} : Go(t, place)
  BY <1>2, GoOnward, PlacesExist
<1> QED
  BY <1>1, <1>2 DEF Stop, Flush

LEMMA StopResumesOnward ==
  ASSUME TasksTypeOK, NEW t \in Stoppers, StopResumes(t)
  PROVE  Onward
<1>0. t \in Tasks
  BY TasksExist DEF Stoppers
<1>1. lastJid' = lastJid /\ ~Killing(t)
  BY DEF StopResumes, Notified, Attached, Finished, NotFinished, Killed, Killing, Resumes, jobs
<1>2. CASE Notified(t)
  <2>1. Stop(t, Subject(t), lost) \/ Raise(t, "discord")
    BY <1>2 DEF Notified, Stop
  <2> QED
    BY <1>0, <1>1, <2>1, StopOnward, RaiseOnward
<1>3. CASE Attached(t)
  BY <1>0, <1>1, <1>3, GoOnward, PlacesExist DEF Attached
<1>4. CASE Finished(t) \/ NotFinished(t)
  <2>1. \/ \E exception : Raise(t, exception)
        \/ t = Mqtt /\ Go(Mqtt, "idle")
        \/ cur' = cur /\ \E place \in {"kill", "callback"} : Go(t, place)
    BY <1>4 DEF Finished, NotFinished, FinalEditFails, NextMessage, Abandoning
  <2> QED
    BY <1>0, <1>1, <2>1, RaiseOnward, GoOnward, PlacesExist
<1>5. CASE Killed(t)
  <2>1. \/ t # Mqtt /\ Go(t, "idle") /\ cur' = cur
        \/ t = Mqtt /\ Go(t, "idle")
        \/ Raise(t, "mqtt")
        \/ \E j \in lost \ {cur} : Stop(t, j, lost \ {cur})
    BY <1>5 DEF Killed, NextMessage
  <2> QED
    BY <1>0, <1>1, <2>1, RaiseOnward, GoOnward, StopOnward, PlacesExist
<1> QED
  BY <1>2, <1>3, <1>4, <1>5 DEF StopResumes

\* Every step of the bot but a submission and the answer of a publish goes on so.
LEMMA MqttOnward ==
  ASSUME TasksTypeOK, MqttResumes \/ LinkLost
  PROVE  Onward
<1>1. CASE StopResumes(Mqtt)
  BY <1>1, StopResumesOnward DEF Stoppers
<1>2. ASSUME ~StopResumes(Mqtt) PROVE Onward
  <2>1. lastJid' = lastJid /\ ~Killing(Mqtt)
    BY <1>2 DEF MqttResumes, LinkLost, StartupShown, RejectShown, OutputShown, EditRaises,
                CalledBack, Reconnect, Complained, Resumes, Killing, jobs
  <2>2. \/ Go(Mqtt, "idle")
        \/ \E exception : Raise(Mqtt, exception)
        \/ \E place \in {"down", "dead"} : Go(Mqtt, place)
    BY <1>2 DEF MqttResumes, LinkLost, StartupShown, RejectShown, OutputShown, EditRaises,
                CalledBack, Reconnect, Complained, NextMessage
  <2> QED
    BY <2>1, <2>2, GoOnward, RaiseOnward, PlacesExist, TasksExist
<1> QED
  BY <1>1, <1>2

LEMMA JobTaskOnward ==
  ASSUME TasksTypeOK, Roles, NEW j \in Jids, JobTaskResumes(j)
  PROVE  Onward
<1>1. CASE StopResumes(Abandoner(j))
  BY <1>1, StopResumesOnward DEF Stoppers
<1>2. CASE Submitted(j)
  <2>1. /\ at'[Submitter(j)] = "idle" /\ at'[Cleaner(j)] = "sleep"
        /\ \A u \in Tasks \ {Submitter(j), Cleaner(j)} : at'[u] = at[u]
        /\ \A u \in Tasks \ {Submitter(j)} : call'[u] = call[u]
    BY <1>2, TasksExist DEF Submitted, TasksTypeOK, Watch
  <2>2. lastJid' = lastJid /\ \A u \in Tasks : Subject(u)' = Subject(u)
    BY <1>2 DEF Submitted, jobs, Subject
  <2>3. ~Killing(Submitter(j))
    BY <1>2 DEF Submitted, Resumes, Killing
  <2>4. ~Killing(Cleaner(j))
    BY TasksExist DEF Roles, Killing, Resumes, Stoppers
  <2> QED
    BY <2>1, <2>2, <2>3, <2>4, TasksExist DEF Onward, Killing, Resumes
<1>3. CASE NotSubmitted(j) \/ Apologised(j)
  <2>1. /\ lastJid' = lastJid /\ cur' = cur /\ ~Killing(Submitter(j))
        /\ Go(Submitter(j), "apologise") \/ Go(Submitter(j), "dead")
    BY <1>3 DEF NotSubmitted, Apologised, jobs, Resumes, Killing
  <2> QED
    BY <2>1, GoOnward, PlacesExist, TasksExist
<1>4. CASE CleanerWakes(j) \/ CleanerGivesUp(j)
  <2>1. /\ lastJid' = lastJid /\ cur' = cur /\ ~Killing(Cleaner(j))
        /\ \E place \in {"idle", "give_up", "dead"} : Go(Cleaner(j), place)
    BY <1>4 DEF CleanerWakes, CleanerGivesUp, jobs, Resumes, Killing
  <2> QED
    BY <2>1, GoOnward, PlacesExist, TasksExist
<1> QED
  BY <1>1, <1>2, <1>3, <1>4 DEF JobTaskResumes

\* What is fresh stays so until a step that is not Onward makes it otherwise;
\* nothing becomes fresh again.
LEMMA OnwardFacts ==
  ASSUME TypeOK, Onward
  PROVE  /\ \A j \in Jids : Fresh(j)' => Fresh(j)
         /\ \A j \in Jids : KillPending(j) => KillPending(j)'
         /\ Roles => Roles'
<1>1. \A j \in Jids : Fresh(j)' => Fresh(j)
  BY TasksExist DEF Onward, Fresh
<1>2. \A j \in Jids : KillPending(j) => KillPending(j)'
  BY DEF Onward, KillPending
<1>3. Roles => Roles'
  BY DEF Onward, Roles
<1> QED
  BY <1>1, <1>2, <1>3

LEMMA SubmitFacts ==
  ASSUME TypeOK, Roles, NEW n, NEW kind, Submit(n, kind)
  PROVE  /\ \A j \in Jids : Fresh(j)' => Fresh(j)
         /\ \A j \in Jids : KillPending(j) => KillPending(j)'
         /\ Roles'
         /\ lastJid' = lastJid + 1 /\ jobTable' = jobTable \cup {lastJid + 1}
<1>1. /\ NextJid \in Jids /\ NextJid = lastJid + 1 /\ lastJid \in Nat
      /\ lastJid' = lastJid + 1 /\ cur' = cur
      /\ jobTable' = jobTable \cup {lastJid + 1}
  BY MaxJidAssumption DEF Submit, NextJid, TypeOK, Jids
<1>2. \A t \in Tasks : Subject(t)' = Subject(t)
  BY <1>1 DEF Subject
<1>3. /\ at'[Submitter(NextJid)] = "publish"
      /\ \A t \in Tasks \ {Submitter(NextJid)} : at'[t] = at[t] /\ call'[t] = call[t]
  BY <1>1, TasksExist DEF Submit, Go, TypeOK
<1>4. ASSUME NEW j \in Jids, Fresh(j)' PROVE Fresh(j)
  <2>1. CASE j = NextJid
    BY <1>1, <2>1 DEF Fresh
  <2>2. CASE j # NextJid
    <3>1. Submitter(j) \in Tasks \ {Submitter(NextJid)}
      BY <2>2, TasksExist
    <3>2. j > lastJid' => j > lastJid
      BY <1>1 DEF Jids
    <3> QED
      BY <1>3, <1>4, <3>1, <3>2 DEF Fresh, Resumes
  <2> QED
    BY <2>1, <2>2
<1>5. ~Killing(Submitter(NextJid))
  BY <1>1, TasksExist DEF Roles, Stoppers, Killing, Resumes
<1>6. \A j \in Jids : KillPending(j) => KillPending(j)'
  BY <1>2, <1>3, <1>5 DEF KillPending, Killing, Resumes
<1>7. Roles'
  BY <1>1, <1>3 DEF Roles
<1> QED
  BY <1>1, <1>4, <1>6, <1>7

\* What the MQTT task has heard of a job's start, and whether it works on its end.
Heard(j) == started[j] \/ (at[Mqtt] \in {"startup", "reject"} /\ cur = j)
Ending(j) == /\ cur = j
             /\ \/ at[Mqtt] = "reject"
                \/ lost = {} /\ at[Mqtt] \in Stopping \ {"kill"}

\* A step that hears nothing new from the node.
Deaf == /\ \A j \in Jids : (Heard(j)' => Heard(j)) /\ (Ending(j)' => Ending(j))
        /\ lost' \subseteq lost
        /\ lost' = {} \/ started' = started
        /\ HasJob'

LEMMA OthersAreDeaf ==
  ASSUME HasJob, started' = started, cur' = cur, lost' = lost, at'[Mqtt] = at[Mqtt]
  PROVE  Deaf
BY DEF Deaf, Heard, Ending, HasJob

\* The MQTT task goes on to a place where it neither shows a start nor an end.
LEMMA LeavingIsDeaf ==
  ASSUME TypeOK, NEW place, place \notin Stopping \cup {"startup", "reject"}, Go(Mqtt, place),
         \A j \in Jids : started'[j] => Heard(j),
         lost' \subseteq lost, lost' = {} \/ started' = started
  PROVE  Deaf
<1>1. at'[Mqtt] = place
  BY TasksExist DEF Go, TypeOK
<1> QED
  BY <1>1 DEF Deaf, Heard, Ending, HasJob, Stopping

LEMMA RaisingIsDeaf ==
  ASSUME TypeOK, NEW exception, Raise(Mqtt, exception),
         \A j \in Jids : started'[j] => Heard(j)
  PROVE  Deaf
<1>1. lost' = {} /\ \E place \in {"down", "complain"} : Go(Mqtt, place)
  BY DEF Raise
<1> QED
  BY <1>1, LeavingIsDeaf DEF Stopping

\* Job.stopped goes on about the job it is about, or about another lost one.
LEMMA StoppingIsDeaf ==
  ASSUME TypeOK, NEW j \in Jids, NEW missed \in SUBSET lost, Stop(Mqtt, j, missed),
         started' = started, missed = {} => Ending(j)
  PROVE  Deaf
<1>1. \A i \in Jids : started'[i] => Heard(i)
  BY DEF Heard
<1>2. CASE Raise(Mqtt, "value_error")
  BY <1>1, <1>2, RaisingIsDeaf
<1>3. CASE /\ cur' = j /\ lost' = missed
           /\ \E place \in {"attach", "finish", "notify"} : Go(Mqtt, place)
  <2>1. at'[Mqtt] \in {"attach", "finish", "notify"}
    BY <1>3, TasksExist DEF Go, TypeOK
  <2> QED
    BY <1>3, <2>1 DEF Deaf, Heard, Ending, HasJob, Stopping
<1> QED
  BY <1>2, <1>3 DEF Stop, Flush

LEMMA MqttStopIsDeaf ==
  ASSUME TypeOK, HasJob, StopResumes(Mqtt)
  PROVE  Deaf
<1>1. started' = started /\ \A i \in Jids : started'[i] => Heard(i)
  BY DEF StopResumes, Notified, Attached, Finished, NotFinished, Killed, jobs, Heard
<1>2. cur \in Jids
  BY DEF StopResumes, Notified, Attached, Finished, NotFinished, Killed, Resumes, HasJob, Stopping
<1>3. Subject(Mqtt) = cur
  BY DEF Subject
<1>4. CASE Notified(Mqtt)
  <2>1. Stop(Mqtt, cur, lost) \/ Raise(Mqtt, "discord")
    BY <1>3, <1>4 DEF Notified, Stop
  <2>2. lost = {} => Ending(cur)
    BY <1>4 DEF Notified, Ending, Stopping
  <2> QED
    BY <1>1, <1>2, <2>1, <2>2, StoppingIsDeaf, RaisingIsDeaf
<1>5. CASE Attached(Mqtt)
  <2>1. /\ at[Mqtt] = "attach" /\ at'[Mqtt] = "finish"
        /\ cur' = cur /\ lost' = lost
    BY <1>5, TasksExist DEF Attached, Go, TypeOK
  <2> QED
    BY <1>1, <1>2, <2>1 DEF Deaf, Heard, Ending, HasJob, Stopping
<1>6. CASE Finished(Mqtt)
  <2>1. CASE \E exception : Raise(Mqtt, exception)
    BY <1>1, <2>1, RaisingIsDeaf
  <2>2. CASE lost' = {} /\ Go(Mqtt, "idle")
    BY <1>1, <2>2, LeavingIsDeaf DEF Stopping
  <2>3. CASE UNCHANGED <<cur, lost>> /\ Go(Mqtt, "callback")
    BY <1>1, <2>3, LeavingIsDeaf DEF Stopping
  <2>4. CASE UNCHANGED <<cur, lost>> /\ Go(Mqtt, "kill")
    <3>1. at'[Mqtt] = "kill"
      BY <2>4, TasksExist DEF Go, TypeOK
    <3> QED
      BY <1>1, <1>2, <2>4, <3>1 DEF Deaf, Heard, Ending, HasJob, Stopping
  <2> QED
    BY <1>6, <2>1, <2>2, <2>3, <2>4 DEF Finished, NextMessage
<1>7. CASE NotFinished(Mqtt)
  BY <1>1, <1>7, RaisingIsDeaf DEF NotFinished, FinalEditFails
<1>8. CASE Killed(Mqtt)
  <2>1. \/ \E exception : Raise(Mqtt, exception)
        \/ lost' = {} /\ Go(Mqtt, "idle")
        \/ \E j \in lost \ {cur} : Stop(Mqtt, j, lost \ {cur})
    BY <1>8 DEF Killed, NextMessage
  <2>2. lost \subseteq Jids /\ \A j \in lost \ {cur} : lost \ {cur} # {}
    BY MaxJidAssumption DEF TypeOK, Jids
  <2> QED
    BY <1>1, <2>1, <2>2, RaisingIsDeaf, LeavingIsDeaf, StoppingIsDeaf DEF Stopping
<1> QED
  BY <1>4, <1>5, <1>6, <1>7, <1>8 DEF StopResumes

LEMMA MqttIsDeaf ==
  ASSUME TypeOK, HasJob, MqttResumes \/ LinkLost
  PROVE  Deaf
<1>1. CASE StartupShown \/ RejectShown
  <2>1. \A j \in Jids : started'[j] => Heard(j)
    BY <1>1 DEF StartupShown, RejectShown, Resumes, Heard, TypeOK
  <2>2. \/ \E exception : Raise(Mqtt, exception)
        \/ lost' = {} /\ Go(Mqtt, "idle")
    BY <1>1 DEF StartupShown, RejectShown, NextMessage
  <2> QED
    BY <2>1, <2>2, RaisingIsDeaf, LeavingIsDeaf DEF Stopping
<1>2. CASE OutputShown \/ EditRaises \/ CalledBack \/ Reconnect \/ Complained \/ LinkLost
  <2>1. started' = started
    BY <1>2 DEF OutputShown, EditRaises, CalledBack, Reconnect, Complained, LinkLost, jobs
  <2>2. \/ \E exception : Raise(Mqtt, exception)
        \/ /\ lost' \subseteq lost
           /\ \E place \in {"idle", "down", "dead"} : Go(Mqtt, place)
    BY <1>2 DEF OutputShown, EditRaises, CalledBack, Reconnect, Complained, LinkLost, NextMessage
  <2> QED
    BY <2>1, <2>2, RaisingIsDeaf, LeavingIsDeaf DEF Stopping, Heard
<1> QED
  BY <1>1, <1>2, MqttStopIsDeaf DEF MqttResumes

\* What the MQTT task learns from a message.
Starts(msg, j) == msg.kind \in {"startup", "reject"} /\ j \in msg.jids
Ends(msg, j) == msg.kind \in {"stopped", "reject"} /\ j \in msg.jids
Hears(msg) ==
  /\ \A j \in Jids : /\ Heard(j)' => Heard(j) \/ Starts(msg, j)
                     /\ Ending(j)' => Ending(j) \/ Ends(msg, j)
  /\ lost' \subseteq lost \/ (msg.kind = "roll_call" /\ lost' \cap msg.jids = {})
  /\ HasJob'

Shows(msg, j) == \/ ReceiveStartup(j) /\ msg.kind = "startup"
                 \/ ReceiveReject(j) /\ msg.kind = "reject"
                 \/ ReceiveOutput(j)

LEMMA ReceiveHears ==
  ASSUME TypeOK, HasJob, at[Mqtt] = "idle", NEW msg, Receive(msg)
  PROVE  Hears(msg) /\ Onward /\ UNCHANGED <<started, jobTable>>
<1> DEFINE bad == {j \in jobTable : target[j] = Host} \ msg.jids
<1>1. TasksTypeOK /\ Mqtt \in Tasks /\ ~Killing(Mqtt)
  BY BotTypeSplit, TasksExist DEF Killing, Resumes
<1>2. jobTable \subseteq Jids
  BY JobsAreJids
<1>3. UNCHANGED <<started, jobTable>> /\ lastJid' = lastJid
  BY DEF Receive, ReceiveStartup, ReceiveReject, ReceiveOutput, ReceiveStopped, ReceiveRollCall,
         jobs, vars
<1>4. ASSUME NEW j \in msg.jids \cap jobTable, Shows(msg, j)
      PROVE  Hears(msg) /\ Onward
  <2>1. PICK place \in {"startup", "reject", "write"} :
          /\ Go(Mqtt, place) /\ cur' = j /\ lost' = lost
          /\ place # "write" => place = msg.kind
    BY <1>4 DEF Shows, ReceiveStartup, ReceiveReject, ReceiveOutput
  <2>2. at'[Mqtt] = place
    BY <1>1, <2>1 DEF Go, TasksTypeOK
  <2>3. Onward
    BY <1>1, <1>3, <2>1, GoOnward, PlacesExist
  <2> QED
    BY <1>3, <2>1, <2>2, <2>3 DEF Hears, Heard, Ending, Starts, Ends, HasJob, Stopping
<1>5. ASSUME NEW j \in Jids, NEW missed, Stop(Mqtt, j, missed), at[Mqtt] = "idle",
             \/ missed = {} /\ Ends(msg, j)
             \/ missed # {} /\ msg.kind = "roll_call" /\ missed \cap msg.jids = {}
      PROVE  Hears(msg) /\ Onward
  <2>1. CASE Raise(Mqtt, "value_error")
    <3>1. Deaf
      BY <1>3, <2>1, RaisingIsDeaf DEF Heard
    <3>2. Onward
      BY <1>1, <1>3, <2>1, RaiseOnward
    <3> QED
      BY <3>1, <3>2 DEF Deaf, Hears
  <2>2. CASE /\ cur' = j /\ lost' = missed
             /\ \E place \in {"attach", "finish", "notify"} : Go(Mqtt, place)
    <3>1. at'[Mqtt] \in {"attach", "finish", "notify"}
      BY <1>1, <2>2 DEF Go, TasksTypeOK
    <3>2. Onward
      BY <1>1, <1>3, <2>2, GoOnward, PlacesExist
    <3> QED
      BY <1>3, <1>5, <2>2, <3>1, <3>2 DEF Hears, Heard, Ending, HasJob, Stopping
  <2> QED
    BY <1>5, <2>1, <2>2 DEF Stop, Flush
<1>6. ASSUME NEW j \in msg.jids \cap jobTable, ReceiveStopped(j), msg.kind = "stopped"
      PROVE  Hears(msg) /\ Onward
  <2>1. Stop(Mqtt, j, {}) /\ Ends(msg, j)
    BY <1>6 DEF ReceiveStopped, Ends
  <2> QED
    BY <1>2, <1>5, <2>1
<1>7. ASSUME ReceiveRollCall(Host, Known(msg)), msg.kind = "roll_call"
      PROVE  Hears(msg) /\ Onward
  <2>1. PICK j \in bad : Stop(Mqtt, j, bad)
    BY <1>7 DEF ReceiveRollCall, Known
  <2>2. bad # {} /\ bad \cap msg.jids = {} /\ j \in Jids
    BY <1>2
  <2> HIDE DEF bad
  <2> QED
    BY <1>5, <1>7, <2>1, <2>2
<1>8. CASE UNCHANGED vars
  BY <1>8 DEF vars, Hears, Heard, Ending, HasJob, Onward, Resumes, Killing, Subject
<1>9. \/ \E j \in msg.jids \cap jobTable : Shows(msg, j)
      \/ \E j \in msg.jids \cap jobTable : ReceiveStopped(j) /\ msg.kind = "stopped"
      \/ ReceiveRollCall(Host, Known(msg)) /\ msg.kind = "roll_call"
      \/ UNCHANGED vars
  BY ZenonT(30) DEF Receive, Shows
<1>10. Hears(msg) /\ Onward
  <2>1. CASE \E j \in msg.jids \cap jobTable : Shows(msg, j)
    BY <1>4, <2>1
  <2>2. CASE \E j \in msg.jids \cap jobTable : ReceiveStopped(j) /\ msg.kind = "stopped"
    BY <1>6, <2>2
  <2> QED
    BY <1>7, <1>8, <1>9, <2>1, <2>2
<1> QED
  BY <1>3, <1>10

\* How a job comes to leave the table: it ends, its kill is being published, or
\* its cleaner took it.
Departs ==
  /\ cleaned \subseteq cleaned'
  /\ \A j \in 1..lastJid' : \/ j \in jobTable'
                            \/ j \in 1..lastJid \ jobTable
                            \/ Ending(j) \/ KillPending(j)' \/ j \in cleaned'

LEMMA StopDeparts ==
  ASSUME TypeOK, NEW t \in Stoppers, StopResumes(t), NEW j \in jobTable \ jobTable'
  PROVE  Ending(j) \/ KillPending(j)'
<1>1. Finished(t) /\ j = Subject(t) /\ t \in Tasks
  BY TasksExist DEF StopResumes, Notified, Attached, Finished, NotFinished, Killed, jobs, Deleted,
                    Stoppers
<1>2. CASE Abandoning(t)
  <2>1. Go(t, "kill") /\ cur' = cur
    BY <1>1, <1>2 DEF Finished
  <2>2. Killing(t)' /\ Subject(t)' = j
    BY <1>1, <2>1 DEF Go, Killing, Resumes, Subject, TypeOK, Calls, Publishes
  <2> QED
    BY <1>1, <2>2 DEF KillPending
<1>3. CASE ~Abandoning(t)
  BY <1>1, <1>3 DEF Abandoning, Finished, Resumes, Ending, Stopping, Subject
<1> QED
  BY <1>2, <1>3

\* The steps of the bot that are neither a message nor the answer of a publish.
LEMMA BotStepFacts ==
  ASSUME TypeOK, Roles, HasJob, BotTask \/ \E j \in Jids : JobTask(j)
  PROVE  /\ Deaf /\ Departs /\ Roles'
         /\ \A j \in Jids : (Fresh(j)' => Fresh(j)) /\ (KillPending(j) => KillPending(j)')
<1>1. TasksTypeOK /\ lastJid \in Nat
  BY BotTypeSplit DEF TypeOK
<1>2. ASSUME NEW j \in Jids, JobTask(j) PROVE Deaf /\ Departs /\ Onward
  <2>1. Onward
    BY <1>1, <1>2, JobTaskOnward DEF JobTask
  <2>2. Deaf
    <3>1. StopResumes(Abandoner(j)) => UNCHANGED <<started, cur, lost>> /\ at'[Mqtt] = at[Mqtt]
      BY TasksExist DEF StopResumes, Notified, Attached, Finished, NotFinished, Killed, Raise, Flush,
                        Go, jobs, TypeOK, FinalEditFails, Abandoning
    <3>2. UNCHANGED <<started, cur, lost>> /\ at'[Mqtt] = at[Mqtt]
      BY <1>2, <3>1, TasksExist
      DEF JobTask, JobTaskResumes, Submitted, NotSubmitted, Apologised, CleanerWakes, CleanerGivesUp,
          Go, jobs, TypeOK
    <3> QED
      BY <3>2, OthersAreDeaf
  <2>3. \A i \in jobTable \ jobTable' : Ending(i) \/ KillPending(i)' \/ i \in cleaned'
    <3>1. CASE StopResumes(Abandoner(j))
      BY <3>1, StopDeparts DEF Stoppers
    <3>2. CASE CleanerGivesUp(j)
      <4>1. jobTable' # jobTable => /\ at[Cleaner(j)] = "give_up" /\ at'[Cleaner(j)] = "idle"
                                    /\ jobTable' = jobTable \ {j}
        BY <3>2, TasksExist DEF CleanerGivesUp, GaveUp, Deleted, Go, TypeOK
      <4> QED
        BY <1>2, <4>1 DEF JobTask
    <3> QED
      BY <1>2, <3>1, <3>2
      DEF JobTask, JobTaskResumes, Submitted, NotSubmitted, Apologised, CleanerWakes, jobs
  <2> QED
    BY <1>2, <2>1, <2>2, <2>3 DEF Departs, JobTask, Onward
<1>3. ASSUME NEW kind \in Kinds, Submit(Host, kind), cleaned' = cleaned PROVE Deaf /\ Departs
  <2>1. at'[Mqtt] = at[Mqtt] /\ UNCHANGED <<started, cur, lost>>
    BY <1>3, TasksExist, MaxJidAssumption DEF Submit, Go, TypeOK
  <2> QED
    BY <1>1, <1>3, <2>1, OthersAreDeaf, SubmitFacts DEF Departs
<1>4. ASSUME NEW j \in Jids, Abandon(j), cleaned' = cleaned PROVE Deaf /\ Departs /\ Onward
  <2>1. Abandoner(j) \in Tasks /\ ~Killing(Abandoner(j)) /\ Stop(Abandoner(j), j, lost)
        /\ UNCHANGED <<started, jobTable, lastJid>>
    BY <1>4, TasksExist DEF Abandon, Killing, Resumes, jobs
  <2>2. at'[Mqtt] = at[Mqtt] /\ UNCHANGED <<cur, lost>>
    BY <2>1, TasksExist DEF Stop, Flush, Raise, Go, TypeOK
  <2>3. Onward
    BY <1>1, <2>1, StopOnward
  <2> QED
    BY <1>4, <2>1, <2>2, <2>3, OthersAreDeaf DEF Departs
<1>5. ASSUME LinkLost \/ MqttResumes, cleaned' = cleaned PROVE Deaf /\ Departs /\ Onward
  <2>1. Onward /\ Deaf
    BY <1>1, <1>5, MqttOnward, MqttIsDeaf
  <2>2. \A i \in jobTable \ jobTable' : Ending(i) \/ KillPending(i)'
    <3>1. CASE StopResumes(Mqtt)
      BY <3>1, StopDeparts DEF Stoppers
    <3>2. CASE RejectShown
      BY <3>2 DEF RejectShown, Resumes, Deleted, Ending
    <3> QED
      BY <1>5, <3>1, <3>2 DEF LinkLost, MqttResumes, StartupShown, OutputShown, EditRaises,
                              CalledBack, Reconnect, Complained, jobs
  <2> QED
    BY <1>5, <2>1, <2>2 DEF Departs, Onward
<1>6. ASSUME NEW t \in Tasks, DiscordAnswers(t), cleaned' = cleaned PROVE Deaf /\ Departs /\ Onward
  <2>1. /\ UNCHANGED <<started, cur, lost, jobTable, lastJid, at>>
        /\ \A u \in Tasks \ {t} : call'[u] = call[u]
        /\ at[t] \notin {"publish", "kill"}
    BY <1>6 DEF DiscordAnswers, TypeOK, Edits, Posts
  <2>2. Onward
    BY <2>1 DEF Onward, Killing, Resumes, Subject
  <2> QED
    BY <1>6, <2>1, <2>2, OthersAreDeaf DEF Departs
<1> QED
  BY <1>2, <1>3, <1>4, <1>5, <1>6, OnwardFacts, SubmitFacts DEF BotTask

---------------------------------------------------------------------------
(* What the grid's variables hold                                           *)

Mails == [op : {"submit", "kill", "roll_call"}, jid : 0..MaxJid]
Msgs == [kind : {"startup", "reject", "output", "stopped", "roll_call"}, jids : SUBSET Jids]
Addressed == \A i \in DOMAIN toNode : toNode[i].op # "roll_call" => toNode[i].jid \in Jids
Holds ==
  /\ running \subseteq Jids /\ doomed \subseteq running /\ nodeUp \in BOOLEAN
  /\ toNode \in Seq(Mails) /\ toBot \in Seq(Msgs)
  /\ loop \in {"on", "ended"}
  /\ unkilled \subseteq Jids /\ cleaned \subseteq Jids
GridTyped == TypeOK /\ Holds /\ Roles /\ HasJob /\ Addressed

LEMMA AppendFacts ==
  ASSUME NEW S, NEW s \in Seq(S), NEW x \in S
  PROVE  /\ Append(s, x) \in Seq(S) /\ s \o <<x>> = Append(s, x)
         /\ DOMAIN s \subseteq Nat \ {0} /\ Len(s) + 1 \in Nat
         /\ DOMAIN Append(s, x) = DOMAIN s \cup {Len(s) + 1}
         /\ \A i \in DOMAIN s : i < Len(s) + 1 /\ Append(s, x)[i] = s[i]
         /\ Append(s, x)[Len(s) + 1] = x
OBVIOUS

LEMMA TailFacts ==
  ASSUME NEW S, NEW s \in Seq(S), s # <<>>
  PROVE  /\ Tail(s) \in Seq(S)
         /\ DOMAIN s \subseteq Nat \ {0} /\ DOMAIN Tail(s) \subseteq Nat \ {0}
         /\ 1 \in DOMAIN s /\ Head(s) = s[1] /\ s[1] \in S
         /\ \A i \in DOMAIN Tail(s) : i + 1 \in DOMAIN s /\ Tail(s)[i] = s[i + 1]
         /\ \A i \in DOMAIN s \ {1} : i - 1 \in DOMAIN Tail(s) /\ Tail(s)[i - 1] = s[i]
OBVIOUS

LEMMA EmptyFacts == \A S : <<>> \in Seq(S) /\ DOMAIN <<>> = {}
OBVIOUS

\* Which job a publish is about.
LEMMA MailsAreAddressed ==
  ASSUME TypeOK, Roles, HasJob, NEW t \in Tasks, at[t] \in Publishes
  PROVE  /\ Subject(t) \in Jids
         /\ at[t] = "publish" => Subject(t) \in 1..lastJid /\ t = Submitter(Subject(t))
         /\ at[t] = "kill" => t \in Stoppers
<1>1. CASE at[t] = "publish"
  <2>1. PICK j \in 1..lastJid : t = Submitter(j)
    BY <1>1 DEF Roles
  <2>2. 1..lastJid \subseteq Jids
    BY MaxJidAssumption DEF TypeOK, Jids
  <2> QED
    BY <1>1, <2>1, <2>2 DEF Subject
<1>2. CASE at[t] = "kill"
  BY <1>2 DEF Roles, Stoppers, HasJob, Stopping, Subject
<1> QED
  BY <1>1, <1>2 DEF Publishes

\* The step of the answer of a publish.
LEMMA PublishFacts ==
  ASSUME GridTyped, NEW t \in Tasks, PublishAnswered(t)
  PROVE  /\ Deaf /\ Roles'
         /\ UNCHANGED <<started, jobTable, lastJid, lost, cur, toBot, node, loop, cleaned>>
         /\ \A j \in Jids : Fresh(j)' => Fresh(j)
         /\ \A u \in Tasks \ {t} : Killing(u) => Killing(u)' /\ Subject(u)' = Subject(u)
         /\ at[t] \in Publishes /\ call[t] = "pending" /\ call'[t] # "pending"
<1>1. UNCHANGED <<started, jobTable, lastJid, lost, cur, at, toBot, node, loop, cleaned>>
  BY DEF PublishAnswered, BrokerAnswers, jobs, node
<1>2. /\ at[t] \in Publishes /\ call[t] = "pending"
      /\ \E answer \in {"ok", "failed"} : call' = [call EXCEPT ![t] = answer]
  BY DEF PublishAnswered, BrokerAnswers
<1>3. call'[t] # "pending" /\ \A u \in Tasks \ {t} : call'[u] = call[u]
  BY <1>2 DEF GridTyped, Holds, TypeOK
<1>4. Deaf
  BY <1>1, OthersAreDeaf DEF GridTyped
<1>5. Roles'
  BY <1>1 DEF GridTyped, Roles
<1>6. \A j \in Jids : Fresh(j)' => Fresh(j)
  BY <1>1, <1>3, TasksExist DEF Fresh, Resumes
<1>7. \A u \in Tasks \ {t} : Killing(u) => Killing(u)' /\ Subject(u)' = Subject(u)
  BY <1>1, <1>3 DEF Killing, Resumes, Subject
<1> QED
  BY <1>1, <1>2, <1>3, <1>4, <1>5, <1>6, <1>7

\* Messages of the bot that are under way to the node.
PostsMail(mail) == toNode' = toNode \/ toNode' = Append(toNode, mail)

LEMMA PublishPosts ==
  ASSUME GridTyped, NEW t \in Tasks, PublishAnswered(t)
  PROVE  \E mail \in Mails :
           /\ mail.jid \in Jids /\ mail.jid = Subject(t)
           /\ mail.op = (IF at[t] = "publish" THEN "submit" ELSE "kill")
           /\ PostsMail(mail)
<1> DEFINE mail == Mail(IF at[t] = "publish" THEN "submit" ELSE "kill", Subject(t))
<1>1. Subject(t) \in Jids
  BY PublishFacts, MailsAreAddressed DEF GridTyped, Holds
<1>2. mail \in Mails /\ mail.jid = Subject(t) /\ mail.op = IF at[t] = "publish" THEN "submit" ELSE "kill"
  BY <1>1, MaxJidAssumption DEF Mail, Mails, Jids
<1>3. toNode \in Seq(Mails)
  BY DEF GridTyped, Holds
<1>4. MailOf(t) = <<mail>>
  BY DEF MailOf
<1>5. toNode \o MailOf(t) = Append(toNode, mail)
  BY <1>2, <1>3, <1>4, AppendFacts
<1>6. PostsMail(mail)
  BY <1>5 DEF PublishAnswered, Reaches, PostsMail
<1> QED
  BY <1>1, <1>2, <1>6

\* What a step of the bot, a message it handles, and a step of the node do to the
\* messages under way to the bot: they are there still, but for the first one, or are
\* lost, or there is one more.
Kept == \A k \in DOMAIN toBot' : k \in DOMAIN toBot /\ toBot'[k] = toBot[k]
Dropped == \A k \in DOMAIN toBot' : k + 1 \in DOMAIN toBot /\ toBot'[k] = toBot[k + 1]
PostsMsg(msg) == toBot' = toBot \/ toBot' = Append(toBot, msg)

LEMMA LeftFacts ==
  ASSUME Holds, NEW rest, rest = toBot \/ (toBot # <<>> /\ rest = Tail(toBot)), Left(rest)
  PROVE  /\ toBot' \in Seq(Msgs)
         /\ rest = toBot => Kept
         /\ toBot # <<>> /\ rest = Tail(toBot) => Dropped
<1>1. toBot \in Seq(Msgs)
  BY DEF Holds
<1>2. toBot' = rest \/ toBot' = <<>>
  BY DEF Left
<1>3. CASE toBot' = <<>>
  BY <1>3, EmptyFacts DEF Kept, Dropped
<1>4. CASE toBot' = rest /\ toBot # <<>> /\ rest = Tail(toBot)
  <2>1. Tail(toBot) # toBot
    BY <1>1, <1>4
  <2> QED
    BY <1>1, <1>4, <2>1, TailFacts DEF Dropped
<1>5. CASE toBot' = rest /\ rest = toBot
  <2>1. toBot # <<>> => Tail(toBot) # toBot
    BY <1>1
  <2> QED
    BY <1>1, <1>5, <2>1 DEF Kept
<1> QED
  BY <1>2, <1>3, <1>4, <1>5

LEMMA ReportFacts ==
  ASSUME Holds, NEW kind \in {"startup", "reject", "output", "stopped", "roll_call"},
         NEW jids \in SUBSET Jids, Report(kind, jids)
  PROVE  PostsMsg(Msg(kind, jids)) /\ Msg(kind, jids) \in Msgs /\ toBot' \in Seq(Msgs)
<1>1. Msg(kind, jids) \in Msgs
  BY DEF Msg, Msgs
<1>2. toBot \in Seq(Msgs)
  BY DEF Holds
<1>3. PostsMsg(Msg(kind, jids))
  BY DEF Report, PostsMsg
<1> QED
  BY <1>1, <1>2, <1>3, AppendFacts DEF PostsMsg

\* The mail the node handles.
LEMMA MailFacts ==
  ASSUME GridTyped, HandleMail
  PROVE  /\ Head(toNode) \in Mails /\ toNode' = Tail(toNode) /\ toNode # <<>> /\ nodeUp
         /\ UNCHANGED <<vars, nodeUp, loop, cleaned>>
         /\ \E j \in Jids :
              \/ Head(toNode) = Mail("submit", j) /\ HandleSubmit(j)
              \/ Head(toNode) = Mail("kill", j) /\ HandleKill(j)
              \/ /\ Head(toNode).op = "roll_call" /\ Report("roll_call", running)
                 /\ UNCHANGED <<running, doomed, unkilled>>
<1> DEFINE mail == Head(toNode)
<1>1. toNode \in Seq(Mails) /\ Addressed
  BY DEF GridTyped, Holds
<1>2. toNode # <<>> /\ toNode' = Tail(toNode) /\ nodeUp /\ UNCHANGED <<vars, nodeUp, loop, cleaned>>
  BY DEF HandleMail
<1>3. mail \in Mails /\ (mail.op # "roll_call" => mail.jid \in Jids)
  BY <1>1, <1>2, TailFacts DEF Addressed
<1>4. mail = Mail(mail.op, mail.jid)
  BY <1>3 DEF Mail, Mails
<1>5. \/ mail.op = "submit" /\ HandleSubmit(mail.jid)
      \/ mail.op = "kill" /\ HandleKill(mail.jid)
      \/ /\ mail.op = "roll_call" /\ Report("roll_call", running)
         /\ UNCHANGED <<running, doomed, unkilled>>
  BY DEF HandleMail
<1>6. 1 \in Jids
  BY MaxJidAssumption DEF Jids
<1> QED
  BY <1>2, <1>3, <1>4, <1>5, <1>6

\* A mail more keeps the mails well typed and addressed.
LEMMA PostsMailType ==
  ASSUME toNode \in Seq(Mails), Addressed, NEW mail \in Mails,
         mail.op # "roll_call" => mail.jid \in Jids, PostsMail(mail)
  PROVE  toNode' \in Seq(Mails) /\ Addressed'
<1>1. CASE toNode' = Append(toNode, mail)
  BY <1>1, AppendFacts DEF Addressed
<1> QED
  BY <1>1 DEF PostsMail, Addressed

LEMMA RollCallFacts ==
  ASSUME RollCall
  PROVE  /\ \E mail \in Mails : mail.op = "roll_call" /\ PostsMail(mail)
         /\ loop' \in {loop, "ended"}
         /\ UNCHANGED <<vars, node, toBot, unkilled, cleaned>>
<1>1. Mail("roll_call", 0) \in Mails /\ Mail("roll_call", 0).op = "roll_call"
  BY MaxJidAssumption DEF Mail, Mails
<1>2. loop' \in {loop, "ended"} /\ UNCHANGED <<vars, node, toBot, unkilled, cleaned>>
  BY DEF RollCall
<1>3. PostsMail(Mail("roll_call", 0))
  BY DEF RollCall, PostsMail, Reaches
<1> QED
  BY <1>1, <1>2, <1>3

LEMMA GridTypeStep ==
  ASSUME GridTyped, [GridNext]_gvars
  PROVE  GridTyped'
<1>1. TypeOK'
  BY GridStepIsBotStep, BotTypeStep DEF GridTyped, Holds
<1>2. toNode \in Seq(Mails) /\ toBot \in Seq(Msgs)
  BY DEF GridTyped, Holds
<1>3. CASE BotStep
  <2>1. toBot' \in Seq(Msgs)
    BY <1>3, LeftFacts DEF BotStep, GridTyped
  <2>2. Roles' /\ HasJob' /\ UNCHANGED <<node, toNode, loop, unkilled>>
    BY <1>3, BotStepFacts DEF BotStep, GridTyped, Holds, Deaf
  <2>3. cleaned' \subseteq Jids
    BY <1>3 DEF BotStep, BotTask, JobTask, GridTyped, Holds
  <2> QED
    BY <1>1, <2>1, <2>2, <2>3 DEF GridTyped, Holds, Addressed, node
<1>4. CASE HandleMessage
  <2>1. toBot' \in Seq(Msgs)
    BY <1>4, LeftFacts DEF HandleMessage, GridTyped
  <2>2. Roles' /\ HasJob' /\ UNCHANGED <<node, toNode, loop, unkilled, cleaned>>
    BY <1>4, ReceiveHears, OnwardFacts DEF HandleMessage, GridTyped, Holds, Hears
  <2> QED
    BY <1>1, <2>1, <2>2 DEF GridTyped, Holds, Addressed, node
<1>5. ASSUME NEW t \in Tasks, PublishAnswered(t) PROVE GridTyped'
  <2>1. /\ Roles' /\ HasJob' /\ UNCHANGED <<node, toBot, loop, cleaned>>
    BY <1>5, PublishFacts DEF Deaf
  <2>2. toNode' \in Seq(Mails) /\ Addressed'
    BY <1>2, <1>5, PublishPosts, PostsMailType DEF GridTyped
  <2>3. unkilled' \subseteq Jids
    BY <1>5, PublishFacts, MailsAreAddressed DEF PublishAnswered, GridTyped, Holds
  <2> QED
    BY <1>1, <2>1, <2>2, <2>3 DEF GridTyped, Holds, node
<1>6. CASE UNCHANGED vars /\ (RollCall \/ NodeStep \/ UNCHANGED gvars)
  <2>1. Roles' /\ HasJob'
    BY <1>6 DEF GridTyped, vars, Roles, HasJob
  <2>2. CASE RollCall
    <3>1. toNode' \in Seq(Mails) /\ Addressed'
      BY <1>2, <2>2, RollCallFacts, PostsMailType DEF GridTyped
    <3> QED
      BY <1>1, <2>1, <2>2, <3>1, RollCallFacts DEF GridTyped, Holds, node
  <2>3. CASE HandleMail
    <3>0. toNode' = Tail(toNode) /\ toNode # <<>>
      BY <2>3, MailFacts
    <3>1. toNode' \in Seq(Mails)
      BY <1>2, <3>0, TailFacts
    <3>2. Addressed'
      BY <1>2, <2>3, MailFacts, TailFacts DEF Addressed, GridTyped
    <3>3. PICK j \in Jids :
            \/ HandleSubmit(j) \/ HandleKill(j)
            \/ Report("roll_call", running) /\ UNCHANGED <<running, doomed, unkilled>>
      BY <2>3, MailFacts
    <3>4. {j} \in SUBSET Jids /\ running \in SUBSET Jids
      BY DEF GridTyped, Holds
    <3>5. toBot' \in Seq(Msgs)
      BY <1>2, <3>3, <3>4, ReportFacts DEF HandleSubmit, HandleKill, GridTyped
    <3>6. running' \subseteq Jids /\ doomed' \subseteq running' /\ unkilled' \subseteq Jids
      BY <3>3 DEF HandleSubmit, HandleKill, Found, GridTyped, Holds
    <3> QED
      BY <1>1, <2>1, <2>3, <3>1, <3>2, <3>5, <3>6, MailFacts DEF GridTyped, Holds
  <2>4. ASSUME NEW j \in Jids, JobRuns(j) PROVE GridTyped'
    <3>1. toBot' \in Seq(Msgs)
      BY <2>4, ReportFacts DEF JobRuns, GridTyped
    <3>2. running' \subseteq Jids /\ doomed' \subseteq running'
      BY <2>4 DEF JobRuns, GridTyped, Holds
    <3> QED
      BY <1>1, <2>1, <2>4, <3>1, <3>2 DEF JobRuns, GridTyped, Holds, Addressed
  <2>5. CASE NodeLeaves \/ NodeReturns \/ UNCHANGED gvars
    BY <1>1, <1>2, <2>1, <2>5, EmptyFacts
    DEF NodeLeaves, NodeReturns, gvars, node, GridTyped, Holds, Addressed
  <2> QED
    BY <1>6, <2>2, <2>3, <2>4, <2>5 DEF NodeStep
<1>7. RollCall \/ NodeStep \/ UNCHANGED gvars => UNCHANGED vars
  BY DEF RollCall, NodeStep, HandleMail, JobRuns, NodeLeaves, NodeReturns, gvars
<1> QED
  BY <1>3, <1>4, <1>5, <1>6, <1>7 DEF GridNext

LEMMA GridTypeInit == GridInit => GridTyped
<1> SUFFICES ASSUME GridInit PROVE GridTyped
  OBVIOUS
<1>1. TypeOK
  BY BotTypeInit DEF GridInit
<1>2. \A t \in Tasks : at[t] = "idle"
  BY DEF GridInit, Init
<1>3. Roles /\ HasJob
  BY <1>2, TasksExist DEF Roles, HasJob, Stopping
<1> QED
  BY <1>1, <1>3, EmptyFacts DEF GridInit, GridTyped, Holds, Addressed

\* The grid's variables are always well typed: no mail or message is about a job
\* that was never issued, and what the node has doomed it runs.
THEOREM GridTypeCorrect == GridSpec => []GridTypeOK
<1>1. GridTyped /\ [GridNext]_gvars => GridTyped'
  BY GridTypeStep
<1>2. GridTyped => GridTypeOK
  BY DEF GridTyped, Holds, GridTypeOK, Mails, Msgs
<1> QED
  BY <1>1, <1>2, GridTypeInit, PTL DEF GridSpec

---------------------------------------------------------------------------
(* A job reaches the node at most once                                      *)

Sent(j) == \E i \in DOMAIN toNode : toNode[i] = Mail("submit", j)
Undelivered(j) == Fresh(j) \/ Sent(j)
Over(j) == ~Undelivered(j) /\ j \notin running

Once(j) == \A i, k \in DOMAIN toNode :
             toNode[i] = Mail("submit", j) /\ toNode[k] = Mail("submit", j) => i = k
SubmitOnce == \A j \in Jids : Once(j) /\ (Fresh(j) => ~Sent(j))

\* A job does not run before it was delivered, and what was delivered stays so.
Delivers ==
  \A j \in Jids : /\ Undelivered(j)' => Undelivered(j)
                  /\ j \in running' => j \in running \/ (Undelivered(j) /\ ~Undelivered(j)')

LEMMA MailsDiffer ==
  /\ \A i, j : Mail("submit", i) = Mail("submit", j) => i = j
  /\ \A i, j : Mail("kill", i) = Mail("kill", j) => i = j
  /\ \A i, j : Mail("submit", i) # Mail("kill", j)
  /\ \A i, op : Mail(op, i).op = op /\ Mail(op, i).jid = i
BY DEF Mail

LEMMA PostsOnce ==
  ASSUME GridTyped, SubmitOnce, NEW mail \in Mails, PostsMail(mail), running' = running,
         \A j \in Jids : Fresh(j)' => Fresh(j),
         mail.op = "submit" => Fresh(mail.jid) /\ ~Fresh(mail.jid)'
  PROVE  SubmitOnce' /\ Delivers
<1>1. toNode \in Seq(Mails)
  BY DEF GridTyped, Holds
<1>2. CASE toNode' = toNode
  BY <1>2 DEF SubmitOnce, Once, Delivers, Undelivered, Sent
<1>3. CASE toNode' = Append(toNode, mail)
  <2>1. /\ DOMAIN toNode' = DOMAIN toNode \cup {Len(toNode) + 1}
        /\ \A i \in DOMAIN toNode : toNode'[i] = toNode[i]
        /\ toNode'[Len(toNode) + 1] = mail
    BY <1>1, <1>3, AppendFacts
  <2>2. ASSUME NEW j \in Jids, mail # Mail("submit", j)
        PROVE  (Sent(j)' <=> Sent(j)) /\ (Once(j) => Once(j)')
    BY <2>1, <2>2 DEF Sent, Once
  <2>3. ASSUME NEW j \in Jids, mail = Mail("submit", j)
        PROVE  Once(j)' /\ Undelivered(j) /\ ~Fresh(j)'
    <3>1. Fresh(j) /\ ~Fresh(j)'
      BY <2>3, MailsDiffer
    <3>2. ~Sent(j)
      BY <3>1 DEF SubmitOnce
    <3> QED
      BY <2>1, <3>1, <3>2 DEF Sent, Once, Undelivered
  <2> QED
    BY <2>2, <2>3 DEF SubmitOnce, Delivers, Undelivered
<1> QED
  BY <1>2, <1>3 DEF PostsMail

\* What the node takes is delivered, once.
LEMMA MailTaken ==
  ASSUME GridTyped, HandleMail
  PROVE  /\ 1 \in DOMAIN toNode /\ Head(toNode) = toNode[1] /\ DOMAIN toNode \subseteq Nat \ {0}
         /\ DOMAIN toNode' \subseteq Nat \ {0}
         /\ \A i \in DOMAIN toNode' : i + 1 \in DOMAIN toNode /\ toNode'[i] = toNode[i + 1]
         /\ \A i \in DOMAIN toNode \ {1} : i - 1 \in DOMAIN toNode' /\ toNode'[i - 1] = toNode[i]
         /\ \A j : Fresh(j)' <=> Fresh(j)
<1>1. toNode \in Seq(Mails) /\ toNode' = Tail(toNode) /\ toNode # <<>>
  BY MailFacts DEF GridTyped, Holds
<1>2. \A j : Fresh(j)' <=> Fresh(j)
  BY MailFacts DEF Fresh, Resumes, vars
<1> QED
  BY <1>1, <1>2, TailFacts

LEMMA SubmissionTaken ==
  ASSUME GridTyped, SubmitOnce, HandleMail, NEW j \in Jids, Head(toNode) = Mail("submit", j)
  PROVE  Undelivered(j) /\ ~Undelivered(j)'
<1>1. Sent(j) /\ Once(j) /\ ~Fresh(j)
  BY MailTaken DEF Sent, SubmitOnce
<1>2. \A i \in DOMAIN toNode' : i + 1 # 1
  BY MailTaken
<1>3. ~Sent(j)'
  BY <1>1, <1>2, MailTaken DEF Sent, Once
<1> QED
  BY <1>1, <1>3, MailTaken DEF Undelivered

LEMMA TakesOnce ==
  ASSUME GridTyped, SubmitOnce, HandleMail
  PROVE  SubmitOnce' /\ Delivers
<1>1. \A j \in Jids : Sent(j)' => Sent(j)
  BY MailTaken DEF Sent
<1>2. ASSUME NEW j \in Jids, Once(j) PROVE Once(j)'
  <2>1. \A i, k \in DOMAIN toNode' : i + 1 = k + 1 => i = k
    BY MailTaken
  <2> QED
    BY <1>2, <2>1, MailTaken DEF Once
<1>3. \A j \in running' \ running : Head(toNode) = Mail("submit", j)
  BY MailFacts DEF HandleSubmit, HandleKill
<1> QED
  BY <1>1, <1>2, <1>3, MailTaken, SubmissionTaken DEF SubmitOnce, Delivers, Undelivered

LEMMA DeliveryStep ==
  ASSUME GridTyped, SubmitOnce, [GridNext]_gvars
  PROVE  SubmitOnce' /\ Delivers
<1>1. CASE BotStep
  <2>1. (\A j \in Jids : Fresh(j)' => Fresh(j)) /\ UNCHANGED <<toNode, running>>
    BY <1>1, BotStepFacts DEF BotStep, GridTyped, node
  <2> QED
    BY <2>1 DEF SubmitOnce, Once, Delivers, Undelivered, Sent
<1>2. CASE HandleMessage
  <2>1. (\A j \in Jids : Fresh(j)' => Fresh(j)) /\ UNCHANGED <<toNode, running>>
    BY <1>2, ReceiveHears, OnwardFacts DEF HandleMessage, GridTyped, node
  <2> QED
    BY <2>1 DEF SubmitOnce, Once, Delivers, Undelivered, Sent
<1>3. ASSUME NEW t \in Tasks, PublishAnswered(t) PROVE SubmitOnce' /\ Delivers
  <2>1. /\ \A j \in Jids : Fresh(j)' => Fresh(j)
        /\ running' = running /\ lastJid' = lastJid
        /\ at[t] \in Publishes /\ call[t] = "pending" /\ call'[t] # "pending"
    BY <1>3, PublishFacts DEF node
  <2>2. PICK mail \in Mails : /\ mail.jid = Subject(t) /\ PostsMail(mail)
                              /\ mail.op = (IF at[t] = "publish" THEN "submit" ELSE "kill")
    BY <1>3, PublishPosts
  <2>3. ASSUME mail.op = "submit" PROVE Fresh(mail.jid) /\ ~Fresh(mail.jid)'
    <3>1. Subject(t) \in 1..lastJid /\ t = Submitter(Subject(t)) /\ at[t] = "publish"
      BY <2>1, <2>2, <2>3, MailsAreAddressed DEF GridTyped
    <3>2. ~(Subject(t) > lastJid)
      BY <3>1 DEF GridTyped, TypeOK
    <3> QED
      BY <2>1, <2>2, <3>1, <3>2 DEF Fresh, Resumes
  <2> QED
    BY <2>1, <2>2, <2>3, PostsOnce
<1>4. CASE RollCall
  BY <1>4, RollCallFacts, PostsOnce DEF vars, node, Fresh, Resumes
<1>5. CASE HandleMail
  BY <1>5, TakesOnce
<1>6. CASE (\E j \in Jids : JobRuns(j)) \/ NodeLeaves \/ NodeReturns \/ UNCHANGED gvars
  <2>1. /\ running' \subseteq running /\ UNCHANGED vars
        /\ toNode' = toNode \/ toNode' = <<>>
    BY <1>6 DEF JobRuns, NodeLeaves, NodeReturns, gvars, node
  <2>2. \A j \in Jids : Fresh(j)' <=> Fresh(j)
    BY <2>1 DEF Fresh, Resumes, vars
  <2> QED
    BY <2>1, <2>2, EmptyFacts DEF SubmitOnce, Once, Delivers, Undelivered, Sent
<1> QED
  BY <1>1, <1>2, <1>3, <1>4, <1>5, <1>6 DEF GridNext, NodeStep

---------------------------------------------------------------------------
(* What the bot was told, and what was so at the time                       *)

\* Of the messages before the i-th, some say that the job started or was refused.
Told(j, i) == \E k \in DOMAIN toBot : k < i /\ Starts(toBot[k], j)
Announced(j) == \E k \in DOMAIN toBot : Starts(toBot[k], j)
Ended(j) == \E k \in DOMAIN toBot : Ends(toBot[k], j)

NotYet == \A j \in Jids : Undelivered(j) => j \notin running /\ ~Heard(j) /\ ~Announced(j)

\* A roll call that the node answered after it had said that a job started says of
\* that job what was so then, and the job cannot have started since.
RollCalls ==
  \A j \in Jids, i \in DOMAIN toBot :
    toBot[i].kind = "roll_call" /\ j \notin toBot[i].jids /\ (Heard(j) \/ Told(j, i))
      => j \notin running
Endings == \A j \in Jids : Ending(j) \/ Ended(j) => Over(j)
News == NotYet /\ RollCalls /\ Endings /\ RollCallSparesStarted

LEMMA NewsOfBot ==
  ASSUME GridTyped, News, Delivers, running' = running, Deaf, Kept
  PROVE  News'
<1>1. lost \subseteq Jids
  BY MaxJidAssumption DEF GridTyped, TypeOK, Jids
<1>2. \A k \in DOMAIN toBot' : k \in DOMAIN toBot /\ toBot'[k] = toBot[k]
  BY DEF Kept
<1>3. \A j \in Jids : /\ Announced(j)' => Announced(j)
                      /\ Ended(j)' => Ended(j)
                      /\ \A i \in DOMAIN toBot : Told(j, i)' => Told(j, i)
  BY <1>2 DEF Announced, Ended, Told, Starts, Ends
<1>4. NotYet'
  BY <1>3 DEF News, NotYet, Delivers, Deaf
<1>5. RollCalls'
  BY <1>2, <1>3 DEF News, RollCalls, Deaf
<1>6. Endings'
  BY <1>3 DEF News, Endings, Delivers, Deaf, Over
<1>7. RollCallSparesStarted'
  BY <1>1 DEF News, RollCallSparesStarted, Deaf
<1> QED
  BY <1>4, <1>5, <1>6, <1>7 DEF News

LEMMA NewsHandled ==
  ASSUME GridTyped, News, Delivers, HandleMessage
  PROVE  News'
<1> DEFINE msg == Head(toBot)
<1>1. toBot \in Seq(Msgs) /\ toBot # <<>> /\ lost' \subseteq Jids
  BY GridTypeStep, MaxJidAssumption DEF GridTyped, Holds, TypeOK, Jids, HandleMessage, GridNext
<1>2. Hears(msg) /\ started' = started /\ running' = running
  BY ReceiveHears DEF HandleMessage, GridTyped, node
<1>3. Dropped
  BY <1>1, LeftFacts DEF HandleMessage, GridTyped
<1>4. 1 \in DOMAIN toBot /\ msg = toBot[1] /\ DOMAIN toBot \subseteq Nat \ {0}
  BY <1>1, TailFacts
<1>5. DOMAIN toBot' \subseteq Nat \ {0}
  BY <1>1, GridTypeStep DEF GridTyped, Holds, HandleMessage, GridNext
<1>6. \A k \in DOMAIN toBot' : k + 1 \in DOMAIN toBot /\ toBot'[k] = toBot[k + 1] /\ 1 < k + 1
  BY <1>3, <1>5 DEF Dropped
<1> HIDE DEF msg
<1>7. \A j \in Jids : /\ Announced(j)' => Announced(j)
                      /\ Ended(j)' => Ended(j)
                      /\ Starts(msg, j) => Announced(j)
                      /\ Ends(msg, j) => Ended(j)
  BY <1>4, <1>6 DEF Announced, Ended, Starts, Ends
<1>8. ASSUME NEW j \in Jids, NEW i \in DOMAIN toBot'
      PROVE  /\ Told(j, i)' => Told(j, i + 1)
             /\ Starts(msg, j) => Told(j, i + 1)
  <2>1. \A k \in DOMAIN toBot' : k < i => k + 1 < i + 1
    BY <1>5
  <2> QED
    BY <1>4, <1>6, <2>1 DEF Told, Starts
<1>9. NotYet'
  BY <1>2, <1>7 DEF News, NotYet, Delivers, Hears
<1>10. RollCalls'
  BY <1>2, <1>6, <1>8 DEF News, RollCalls, Hears
<1>11. Endings'
  BY <1>2, <1>7 DEF News, Endings, Delivers, Hears, Over
<1>12. RollCallSparesStarted'
  BY <1>1, <1>2, <1>4 DEF News, RollCallSparesStarted, RollCalls, Hears, Heard
<1> QED
  BY <1>9, <1>10, <1>11, <1>12 DEF News

\* The node says something.
LEMMA NewsReported ==
  ASSUME GridTyped, News, Delivers, UNCHANGED vars, running' \subseteq Jids,
         NEW msg \in Msgs, PostsMsg(msg),
         msg.kind = "roll_call" => running' = msg.jids,
         \A j \in Jids : Starts(msg, j) => ~Undelivered(j)',
         \A j \in Jids : Ends(msg, j) => Over(j)'
  PROVE  News'
<1>1. toBot \in Seq(Msgs) /\ lost \subseteq Jids
  BY MaxJidAssumption DEF GridTyped, Holds, TypeOK, Jids
<1>2. \A j : (Heard(j)' <=> Heard(j)) /\ (Ending(j)' <=> Ending(j))
  BY DEF vars, Heard, Ending
<1>3. /\ \A k \in DOMAIN toBot' : \/ k \in DOMAIN toBot /\ toBot'[k] = toBot[k]
                                  \/ /\ toBot'[k] = msg
                                     /\ \A i \in DOMAIN toBot : i < k
      /\ DOMAIN toBot' \subseteq Nat /\ DOMAIN toBot \subseteq Nat
  BY <1>1, AppendFacts DEF PostsMsg
<1>4. \A j \in Jids : /\ Announced(j)' => Announced(j) \/ Starts(msg, j)
                      /\ Ended(j)' => Ended(j) \/ Ends(msg, j)
  BY <1>3 DEF Announced, Ended, Starts, Ends
<1>5. \A j \in Jids, i \in DOMAIN toBot : Told(j, i)' => Told(j, i)
  BY <1>3 DEF Told, Starts
<1>6. \A j \in running' \ running : ~Heard(j) /\ ~Announced(j) /\ ~started[j]
  BY DEF News, NotYet, Delivers, Heard
<1>7. NotYet'
  BY <1>2, <1>4 DEF News, NotYet, Delivers
<1>8. ASSUME NEW j \in Jids, NEW i \in DOMAIN toBot',
             toBot'[i].kind = "roll_call", j \notin toBot'[i].jids, Heard(j) \/ Told(j, i)'
      PROVE  j \notin running'
  <2>1. CASE i \in DOMAIN toBot /\ toBot'[i] = toBot[i]
    <3>1. Heard(j) \/ Told(j, i)
      BY <1>5, <1>8, <2>1
    <3>2. j \notin running
      BY <1>8, <2>1, <3>1 DEF News, RollCalls
    <3>3. Heard(j) \/ Announced(j)
      BY <3>1 DEF Told, Announced
    <3> QED
      BY <1>6, <3>2, <3>3
  <2>2. CASE toBot'[i] = msg
    BY <1>8, <2>2
  <2> QED
    BY <1>3, <2>1, <2>2
<1>9. RollCalls'
  BY <1>2, <1>8 DEF RollCalls
<1>10. Endings'
  BY <1>2, <1>4 DEF News, Endings, Delivers, Over
<1>11. RollCallSparesStarted'
  BY <1>1, <1>6 DEF News, RollCallSparesStarted, vars
<1> QED
  BY <1>7, <1>9, <1>10, <1>11 DEF News

LEMMA NewsOfNode ==
  ASSUME GridTyped, SubmitOnce, News, HandleMail \/ \E j \in Jids : JobRuns(j)
  PROVE  News'
<1>1. Delivers /\ UNCHANGED vars /\ running' \subseteq Jids
  BY DeliveryStep, GridTypeStep DEF GridNext, NodeStep, HandleMail, JobRuns, GridTyped, Holds
<1>2. running \in SUBSET Jids
  BY DEF GridTyped, Holds
<1>3. ASSUME NEW kind \in {"startup", "reject", "output", "stopped", "roll_call"},
             NEW jids \in SUBSET Jids, Report(kind, jids) \/ toBot' = toBot,
             kind = "roll_call" => running' = jids,
             kind \in {"startup", "reject"} => \A j \in jids : ~Undelivered(j)',
             kind \in {"reject", "stopped"} => \A j \in jids : Over(j)'
      PROVE  News'
  <2>1. PostsMsg(Msg(kind, jids)) /\ Msg(kind, jids) \in Msgs
    BY <1>3, ReportFacts DEF GridTyped, PostsMsg, Msg, Msgs
  <2>2. Msg(kind, jids).kind = kind /\ Msg(kind, jids).jids = jids
    BY DEF Msg
  <2> QED
    BY <1>1, <1>3, <2>1, <2>2, NewsReported DEF Starts, Ends
<1>4. ASSUME NEW j \in Jids, HandleMail, Head(toNode) = Mail("submit", j), HandleSubmit(j)
      PROVE  News'
  <2>1. ~Undelivered(j)' /\ j \notin running
    BY <1>4, SubmissionTaken DEF News, NotYet
  <2>2. CASE Report("startup", {j})
    BY <1>3, <2>1, <2>2
  <2>3. CASE running' = running /\ Report("reject", {j})
    BY <1>3, <2>1, <2>3 DEF Over
  <2> QED
    BY <1>4, <2>2, <2>3 DEF HandleSubmit
<1>5. ASSUME NEW j \in Jids, HandleKill(j) PROVE News'
  BY <1>3, <1>5 DEF HandleKill
<1>6. ASSUME Report("roll_call", running), running' = running PROVE News'
  BY <1>2, <1>3, <1>6
<1>7. ASSUME NEW j \in Jids, JobRuns(j) PROVE News'
  <2>1. ~Undelivered(j)'
    BY <1>1, <1>7 DEF JobRuns, News, NotYet, Delivers
  <2>2. CASE Report("output", {j})
    BY <1>3, <2>2
  <2>3. CASE Report("stopped", {j}) /\ running' = running \ {j}
    BY <1>3, <2>1, <2>3 DEF Over
  <2> QED
    BY <1>7, <2>2, <2>3 DEF JobRuns
<1> QED
  BY <1>4, <1>5, <1>6, <1>7, MailFacts

LEMMA NewsStep ==
  ASSUME GridTyped, SubmitOnce, News, [GridNext]_gvars
  PROVE  News'
<1>1. Delivers
  BY DeliveryStep
<1>2. CASE BotStep
  <2>1. Deaf /\ Kept /\ running' = running
    BY <1>2, BotStepFacts, LeftFacts DEF BotStep, GridTyped, node
  <2> QED
    BY <1>1, <2>1, NewsOfBot
<1>3. CASE HandleMessage
  BY <1>1, <1>3, NewsHandled
<1>4. ASSUME NEW t \in Tasks, PublishAnswered(t) PROVE News'
  BY <1>1, <1>4, PublishFacts, NewsOfBot DEF Kept, node
<1>5. CASE HandleMail \/ \E j \in Jids : JobRuns(j)
  BY <1>5, NewsOfNode
<1>6. CASE RollCall \/ NodeLeaves \/ NodeReturns \/ UNCHANGED gvars
  <2>1. UNCHANGED vars /\ toBot' = toBot /\ running' \subseteq Jids
    BY <1>6 DEF RollCall, NodeLeaves, NodeReturns, gvars, node, GridTyped, Holds
  <2>2. Msg("output", {}) \in Msgs /\ Msg("output", {}).kind = "output"
    BY DEF Msg, Msgs
  <2> QED
    BY <1>1, <2>1, <2>2, NewsReported DEF PostsMsg, Starts, Ends
<1> QED
  BY <1>2, <1>3, <1>4, <1>5, <1>6 DEF GridNext, NodeStep

---------------------------------------------------------------------------
(* Every job that was submitted is accounted for                            *)

\* The kill of a job is on its way, and no submission of it is behind.
KillSent(j) ==
  /\ ~Fresh(j)
  /\ \E k \in DOMAIN toNode :
       /\ toNode[k] = Mail("kill", j)
       /\ \A i \in DOMAIN toNode : toNode[i] = Mail("submit", j) => i < k
AccountedFor(j) == \/ j \in jobTable \cup unkilled \cup cleaned \cup doomed
                   \/ Over(j) \/ KillPending(j) \/ KillSent(j)
Accounts == \A j \in 1..lastJid : AccountedFor(j)
NodeDown == ~nodeUp => running = {} /\ toNode = <<>>
GridInv == SubmitOnce /\ News /\ Accounts /\ NodeDown

LEMMA IssuedAreJids == ASSUME TypeOK PROVE 1..lastJid \subseteq Jids
BY MaxJidAssumption DEF TypeOK, Jids

LEMMA OverStays ==
  ASSUME Delivers, NEW j \in Jids, Over(j)
  PROVE  Over(j)'
BY DEF Delivers, Over

LEMMA KillSentStays ==
  ASSUME GridTyped, NEW mail \in Mails, PostsMail(mail), NEW j, KillSent(j), ~Fresh(j)',
         mail # Mail("submit", j)
  PROVE  KillSent(j)'
<1>1. toNode \in Seq(Mails)
  BY DEF GridTyped, Holds
<1>2. CASE toNode' = Append(toNode, mail)
  <2>1. /\ DOMAIN toNode' = DOMAIN toNode \cup {Len(toNode) + 1}
        /\ \A i \in DOMAIN toNode : toNode'[i] = toNode[i]
        /\ toNode'[Len(toNode) + 1] = mail
    BY <1>1, <1>2, AppendFacts
  <2> QED
    BY <2>1 DEF KillSent
<1> QED
  BY <1>2 DEF PostsMail, KillSent

\* The bot's steps: a job that leaves the table is over or being killed, or its
\* cleaner took it.
LEMMA AccountsOfBot ==
  ASSUME GridTyped, News, Accounts, Delivers,
         \A j \in Jids : (Fresh(j)' => Fresh(j)) /\ (KillPending(j) => KillPending(j)'),
         UNCHANGED <<node, toNode, unkilled>>, Departs, lastJid' \in 0..MaxJid
  PROVE  Accounts'
<1> SUFFICES ASSUME NEW j \in 1..lastJid' PROVE AccountedFor(j)'
  BY DEF Accounts
<1>1. j \in Jids
  BY MaxJidAssumption DEF Jids
<1>2. KillSent(j) => KillSent(j)'
  BY <1>1 DEF KillSent
<1>3. Over(j) => Over(j)'
  BY <1>1, OverStays
<1>4. Ending(j) => Over(j)
  BY <1>1 DEF News, Endings
<1>5. CASE j \in 1..lastJid \ jobTable
  BY <1>1, <1>2, <1>3, <1>5 DEF Accounts, AccountedFor, Departs, node
<1> QED
  BY <1>3, <1>4, <1>5 DEF Departs, AccountedFor

\* The answer of a publish: a kill goes to the node behind the submission of its
\* job, or is lost.
LEMMA AccountsPublished ==
  ASSUME GridTyped, GridInv, Delivers, NEW t \in Tasks, PublishAnswered(t)
  PROVE  Accounts'
<1>1. PICK mail \in Mails : /\ mail.jid = Subject(t) /\ PostsMail(mail)
                            /\ mail.op = (IF at[t] = "publish" THEN "submit" ELSE "kill")
  BY PublishPosts
<1>2. /\ UNCHANGED <<jobTable, lastJid, cleaned, doomed, running, nodeUp>>
      /\ unkilled \subseteq unkilled'
      /\ at[t] \in Publishes /\ call[t] = "pending"
      /\ \A j \in Jids : Fresh(j)' => Fresh(j)
  BY PublishFacts DEF node, PublishAnswered
<1> SUFFICES ASSUME NEW j \in 1..lastJid PROVE AccountedFor(j)'
  BY <1>2 DEF Accounts
<1>3. j \in Jids /\ ~(j > lastJid)
  BY IssuedAreJids DEF GridTyped, TypeOK
<1>4. ASSUME KillSent(j) PROVE KillSent(j)'
  <2>1. mail # Mail("submit", j)
    <3> SUFFICES ASSUME mail = Mail("submit", j) PROVE FALSE
      OBVIOUS
    <3>1. at[t] = "publish" /\ Subject(t) = j
      BY <1>1, MailsDiffer
    <3>2. Fresh(j)
      BY <1>2, <3>1, MailsAreAddressed DEF GridTyped, Fresh, Resumes
    <3> QED
      BY <1>4, <3>2 DEF KillSent
  <2> QED
    BY <1>1, <1>2, <1>3, <1>4, <2>1, KillSentStays DEF KillSent
<1>5. ASSUME KillPending(j) PROVE KillPending(j)' \/ KillSent(j)' \/ Over(j)' \/ j \in unkilled'
  <2>1. PICK u \in Tasks : Killing(u) /\ Subject(u) = j
    BY <1>5 DEF KillPending
  <2>2. CASE u # t
    BY <2>1, <2>2, PublishFacts DEF KillPending
  <2>3. CASE u = t
    <3>1. at[t] = "kill" /\ Subject(t) = j
      BY <2>1, <2>3 DEF Killing, Resumes
    <3>2. ~Fresh(j) /\ ~Fresh(j)'
      BY <1>2, <1>3, <3>1 DEF PublishAnswered, InOrder, Fresh
    <3>3. CASE target[Subject(t)] = Host /\ Reaches(MailOf(t)) /\ nodeUp
      <4>1. toNode \in Seq(Mails)
        BY DEF GridTyped, Holds
      <4>2. MailOf(t) = <<Mail("kill", j)>> /\ Mail("kill", j) \in Mails
        BY <1>3, <3>1, MaxJidAssumption DEF MailOf, Mail, Mails, Jids
      <4>3. toNode' = Append(toNode, Mail("kill", j))
        BY <3>3, <4>1, <4>2, AppendFacts DEF Reaches
      <4>4. /\ DOMAIN toNode' = DOMAIN toNode \cup {Len(toNode) + 1}
            /\ \A i \in DOMAIN toNode : i < Len(toNode) + 1 /\ toNode'[i] = toNode[i]
            /\ toNode'[Len(toNode) + 1] = Mail("kill", j)
        BY <4>1, <4>2, <4>3, AppendFacts
      <4> QED
        BY <3>2, <4>4, MailsDiffer DEF KillSent
    <3>4. CASE ~nodeUp
      <4>1. Over(j)
        BY <3>2, <3>4, EmptyFacts DEF GridInv, NodeDown, Over, Undelivered, Sent
      <4> QED
        BY <1>3, <4>1, OverStays
    <3>5. CASE unkilled' = unkilled \cup {j}
      BY <3>5
    <3> QED
      BY <3>1, <3>3, <3>4, <3>5 DEF PublishAnswered
  <2> QED
    BY <2>2, <2>3
<1>6. Over(j) => Over(j)'
  BY <1>3, OverStays
<1> QED
  BY <1>2, <1>4, <1>5, <1>6 DEF GridInv, Accounts, AccountedFor

\* The node: a kill that it finds dooms its job, and one that comes too late finds
\* a job that is over.
LEMMA AccountsOfMail ==
  ASSUME GridTyped, GridInv, Delivers, HandleMail
  PROVE  Accounts'
<1>1. UNCHANGED <<vars, nodeUp, cleaned>> /\ unkilled \subseteq unkilled' /\ doomed \subseteq doomed'
  BY MailFacts DEF HandleSubmit, HandleKill
<1> SUFFICES ASSUME NEW j \in 1..lastJid PROVE AccountedFor(j)'
  BY <1>1 DEF Accounts, vars
<1>2. j \in Jids /\ jobTable' = jobTable
  BY <1>1, IssuedAreJids DEF GridTyped, vars
<1>3. KillPending(j) => KillPending(j)'
  BY <1>1 DEF KillPending, Killing, Resumes, Subject, vars
<1>4. Over(j) => Over(j)'
  BY <1>2, OverStays
<1>5. ASSUME KillSent(j) PROVE KillSent(j)' \/ Over(j)' \/ j \in doomed' \cup unkilled'
  <2>1. PICK k \in DOMAIN toNode :
          /\ toNode[k] = Mail("kill", j)
          /\ \A i \in DOMAIN toNode : toNode[i] = Mail("submit", j) => i < k
    BY <1>5 DEF KillSent
  <2>2. CASE k = 1
    <3>1. Head(toNode) = Mail("kill", j)
      BY <2>1, <2>2, MailTaken
    <3>2. HandleKill(j)
      BY <3>1, MailFacts, MailsDiffer
    <3>3. ~Sent(j)
      BY <2>1, <2>2, MailTaken DEF Sent
    <3>4. CASE j \in running
      BY <3>2, <3>4 DEF HandleKill, Found
    <3>5. CASE j \notin running
      BY <1>4, <1>5, <3>3, <3>5 DEF Over, Undelivered, KillSent
    <3> QED
      BY <3>4, <3>5
  <2>3. CASE k # 1
    <3>1. k - 1 \in DOMAIN toNode' /\ toNode'[k - 1] = Mail("kill", j)
      BY <2>1, <2>3, MailTaken
    <3>2. \A i \in DOMAIN toNode' : i + 1 < k => i < k - 1
      BY MailTaken
    <3> QED
      BY <1>5, <2>1, <3>1, <3>2, MailTaken DEF KillSent
  <2> QED
    BY <2>2, <2>3
<1> QED
  BY <1>1, <1>2, <1>3, <1>4, <1>5 DEF GridInv, Accounts, AccountedFor

LEMMA AccountsOfNode ==
  ASSUME GridTyped, GridInv, Delivers, (\E j \in Jids : JobRuns(j)) \/ NodeLeaves
  PROVE  Accounts'
<1>1. UNCHANGED <<vars, cleaned, unkilled>>
  BY DEF JobRuns, NodeLeaves
<1> SUFFICES ASSUME NEW j \in 1..lastJid PROVE AccountedFor(j)'
  BY <1>1 DEF Accounts, vars
<1>2. j \in Jids /\ jobTable' = jobTable
  BY <1>1, IssuedAreJids DEF GridTyped, vars
<1>3. KillPending(j) => KillPending(j)'
  BY <1>1 DEF KillPending, Killing, Resumes, Subject, vars
<1>4. Over(j) => Over(j)'
  BY <1>2, OverStays
<1>5. ~Fresh(j) => ~Fresh(j)'
  BY <1>1 DEF Fresh, Resumes, vars
<1>6. ASSUME j \in doomed PROVE j \in doomed' \/ Over(j)'
  <2>1. j \in running /\ ~Undelivered(j)
    BY <1>2, <1>6 DEF GridTyped, Holds, GridInv, News, NotYet
  <2>2. ~Undelivered(j)'
    BY <1>2, <2>1 DEF Delivers
  <2> QED
    BY <1>6, <2>1, <2>2 DEF JobRuns, NodeLeaves, Over
<1>7. KillSent(j) => KillSent(j)' \/ Over(j)'
  <2>1. CASE \E i \in Jids : JobRuns(i)
    BY <1>5, <2>1 DEF JobRuns, KillSent
  <2>2. CASE NodeLeaves
    BY <1>5, <2>2, EmptyFacts DEF NodeLeaves, KillSent, Over, Undelivered, Sent
  <2> QED
    BY <2>1, <2>2
<1> QED
  BY <1>1, <1>2, <1>3, <1>4, <1>6, <1>7 DEF GridInv, Accounts, AccountedFor

LEMMA GridInvStep ==
  ASSUME GridTyped, GridInv, [GridNext]_gvars
  PROVE  GridInv'
<1>1. SubmitOnce' /\ Delivers /\ News'
  BY DeliveryStep, NewsStep DEF GridInv
<1>2. GridTyped'
  BY GridTypeStep
<1>3. CASE BotStep
  <2>1. Departs /\ \A j \in Jids : (Fresh(j)' => Fresh(j)) /\ (KillPending(j) => KillPending(j)')
    BY <1>3, BotStepFacts DEF BotStep, GridTyped
  <2> QED
    BY <1>1, <1>2, <1>3, <2>1, AccountsOfBot
    DEF BotStep, GridInv, GridTyped, TypeOK, NodeDown, node
<1>4. CASE HandleMessage
  <2>1. Onward /\ UNCHANGED <<jobTable, cleaned>>
    BY <1>4, ReceiveHears DEF HandleMessage, GridTyped
  <2>2. Departs /\ \A j \in Jids : (Fresh(j)' => Fresh(j)) /\ (KillPending(j) => KillPending(j)')
    BY <2>1, OnwardFacts DEF Departs, Onward, GridTyped
  <2> QED
    BY <1>1, <1>2, <1>4, <2>2, AccountsOfBot
    DEF HandleMessage, GridInv, GridTyped, TypeOK, NodeDown, node
<1>5. ASSUME NEW t \in Tasks, PublishAnswered(t) PROVE GridInv'
  <2>1. NodeDown'
    BY <1>5 DEF PublishAnswered, Reaches, GridInv, NodeDown, node
  <2> QED
    BY <1>1, <1>5, <2>1, AccountsPublished DEF GridInv
<1>6. CASE RollCall
  <2>1. PICK mail \in Mails : mail.op = "roll_call" /\ PostsMail(mail)
    BY <1>6, RollCallFacts
  <2>2. \A j \in Jids : KillSent(j) => KillSent(j)'
    BY <1>6, <2>1, KillSentStays, MailsDiffer, RollCallFacts DEF vars, KillSent, Fresh, Resumes
  <2>3. \A j \in Jids : KillPending(j) => KillPending(j)'
    BY <1>6 DEF RollCall, KillPending, Killing, Resumes, Subject, vars
  <2>4. Accounts'
    BY <1>1, <1>6, <2>2, <2>3, OverStays, IssuedAreJids, RollCallFacts
    DEF GridInv, GridTyped, Accounts, AccountedFor, vars, node
  <2>5. NodeDown'
    BY <1>6 DEF RollCall, Reaches, GridInv, NodeDown, node
  <2> QED
    BY <1>1, <2>4, <2>5 DEF GridInv
<1>7. CASE HandleMail
  <2>1. NodeDown'
    BY <1>7 DEF HandleMail, NodeDown
  <2> QED
    BY <1>1, <1>7, <2>1, AccountsOfMail DEF GridInv
<1>8. CASE (\E j \in Jids : JobRuns(j)) \/ NodeLeaves
  <2>1. NodeDown'
    BY <1>8 DEF JobRuns, NodeLeaves, GridInv, NodeDown
  <2> QED
    BY <1>1, <1>8, <2>1, AccountsOfNode DEF GridInv
<1>9. CASE NodeReturns \/ UNCHANGED gvars
  <2>1. UNCHANGED <<vars, running, doomed, toNode, unkilled, cleaned>> /\ (nodeUp' \/ nodeUp' = nodeUp)
    BY <1>9 DEF NodeReturns, gvars, node
  <2>2. Accounts' /\ NodeDown'
    BY <2>1 DEF GridInv, NodeDown, Accounts, AccountedFor, Over, Undelivered, Sent, Fresh, KillPending,
                KillSent, Killing, Resumes, Subject, vars
  <2> QED
    BY <1>1, <2>2 DEF GridInv
<1> QED
  BY <1>3, <1>4, <1>5, <1>6, <1>7, <1>8, <1>9 DEF GridNext, NodeStep

LEMMA GridInvInit == GridInit => GridInv
<1> SUFFICES ASSUME GridInit PROVE GridInv
  OBVIOUS
<1>1. /\ toNode = <<>> /\ toBot = <<>> /\ running = {} /\ nodeUp
      /\ lastJid = 0 /\ lost = {} /\ \A j \in Jids : ~started[j]
      /\ at[Mqtt] = "idle"
  BY TasksExist DEF GridInit, Init
<1>2. DOMAIN toNode = {} /\ DOMAIN toBot = {} /\ 1..lastJid = {}
  BY <1>1, EmptyFacts
<1>3. SubmitOnce
  BY <1>2 DEF SubmitOnce, Once, Sent
<1>4. News
  BY <1>1, <1>2 DEF News, NotYet, RollCalls, Endings, RollCallSparesStarted, Heard, Ending, Ended,
                    Announced, Stopping
<1> QED
  BY <1>1, <1>2, <1>3, <1>4 DEF GridInv, Accounts, NodeDown

LEMMA GridInvCorrect == GridSpec => [](GridTyped /\ GridInv)
<1>1. GridTyped /\ GridInv /\ [GridNext]_gvars => (GridTyped /\ GridInv)'
  BY GridTypeStep, GridInvStep
<1> QED
  BY <1>1, GridTypeInit, GridInvInit, PTL DEF GridSpec

\* Whatever kills and submissions are on their way, and whichever the broker or a node
\* that goes loses: a job that runs and is not in the table was abandoned, and dies or
\* its kill is still to come or went wrong, or it started after its cleaner gave it up.
THEOREM NoOrphansRun == GridSpec => []NoOrphans
<1>1. ASSUME GridTyped, GridInv PROVE NoOrphans
  <2> SUFFICES ASSUME NEW j \in running \ jobTable
               PROVE  j \in doomed \cup unkilled \cup cleaned \/ BeingKilled(j)
    BY DEF NoOrphans
  <2>1. j \in Jids /\ ~Undelivered(j)
    BY <1>1 DEF GridTyped, Holds, GridInv, News, NotYet
  <2>2. j \in 1..lastJid
    BY <1>1, <2>1, MaxJidAssumption DEF Undelivered, Fresh, Jids, GridTyped, TypeOK
  <2>3. j \in unkilled \cup cleaned \cup doomed \/ KillPending(j) \/ KillSent(j)
    BY <1>1, <2>2 DEF GridInv, Accounts, AccountedFor, Over
  <2> QED
    BY <2>3 DEF KillPending, Killing, KillSent, BeingKilled
<1> QED
  BY <1>1, GridInvCorrect, PTL

\* However messages and roll calls race, a roll call costs no job its place that is
\* known to have started and still runs: the node answered it after it had said that
\* the job started, and a job that did not run then never runs again.
THEOREM StartedAreSpared == GridSpec => []RollCallSparesStarted
<1>1. GridInv => RollCallSparesStarted
  BY DEF GridInv, News
<1> QED
  BY <1>1, GridInvCorrect, PTL

\* A submission whose publish failed may have arrived, and is never repeated: a job
\* starts at most once, and one that is over stays so.
THEOREM SubmissionsAreNotRepeated == GridSpec => JobsStartOnce
<1> DEFINE NotRepeated == \A j \in 1..lastJid : ~BeingSubmitted(j) \/ j \in running
                      => ~BeingSubmitted(j)' /\ (j \in running' => j \in running)
<1>1. GridTyped /\ GridInv /\ [GridNext]_gvars => [NotRepeated]_gvars
  <2> SUFFICES ASSUME GridTyped, GridInv, [GridNext]_gvars,
                      NEW j \in 1..lastJid, ~BeingSubmitted(j) \/ j \in running
               PROVE  ~BeingSubmitted(j)' /\ (j \in running' => j \in running)
    OBVIOUS
  <2>1. j \in Jids /\ ~(j > lastJid)
    BY IssuedAreJids DEF GridTyped, TypeOK
  <2>2. ~Undelivered(j)
    BY <2>1 DEF BeingSubmitted, Undelivered, Fresh, Sent, GridInv, News, NotYet
  <2>3. ~Undelivered(j)' /\ (j \in running' => j \in running)
    BY <2>1, <2>2, DeliveryStep DEF GridInv, Delivers
  <2> QED
    BY <2>3 DEF BeingSubmitted, Undelivered, Fresh, Sent
<1> HIDE DEF NotRepeated
<1>2. GridSpec => [][NotRepeated]_gvars
  BY <1>1, GridInvCorrect, PTL DEF GridSpec
<1> USE DEF NotRepeated
<1> QED
  BY <1>2 DEF JobsStartOnce

=============================================================================
