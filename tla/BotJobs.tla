----------------------------- MODULE BotJobs -----------------------------
(***************************************************************************)
(* The Discord bot's job table (discord-bot/gridbot/entity.py) and the      *)
(* asyncio tasks that work on it (gridbot.py, grid_cmd.py): the MQTT task,  *)
(* which handles one message at a time, and for each job the command that   *)
(* submits it, the task that cleans it up when it does not start, and an    *)
(* admin's abandon command.                                                 *)
(*                                                                          *)
(* One action is what a task does between two awaits. At an await of        *)
(* Discord or of the broker the call of the task is pending until it is     *)
(* answered, which is a step of its own; the task resumes later still, and  *)
(* the other tasks run in between. Any message about any job may arrive at  *)
(* any time, as nodes crash, restart and reuse job ids.                     *)
(***************************************************************************)
EXTENDS Integers

CONSTANTS
  Nodes,    \* names of the nodes
  MaxJid,   \* bound: jobs submitted during one life of the bot
  Abandonable, \* bound: jobs that an admin abandons, each by one command at a time
  Faults    \* who lets the bot down: "discord" fails calls, "broker" the link

ASSUME NodesAssumption == Nodes # {}
ASSUME MaxJidAssumption == MaxJid \in Nat \ {0}
ASSUME AbandonableAssumption == Abandonable \subseteq Nat
ASSUME FaultsAssumption == Faults \subseteq {"discord", "broker"}

VARIABLES
  lastJid,   \* JobTable._last_jid
  jobTable,  \* the keys of JobTable._table
  target,    \* Job.target_node
  started,   \* Job.started
  open,      \* is the job's output_buffer open
  handler,   \* "pipe" or "pty" handler; "full" is a pipe handler that will attach
  text,      \* does the job's Discord message show "news", its "final" form, or has
             \* the final form been "overwritten"
  at,        \* where each task is: the await it has reached
  call,      \* its call of Discord or the broker: "none" or pending, ok, failed
  cur,       \* the job whose message the MQTT task handles, or 0
  lost       \* bad_jobs of on_roll_call_reply that are not abandoned yet

jobs == <<lastJid, jobTable, target, started, open, handler>>
vars == <<lastJid, jobTable, target, started, open, handler, text, at, call, cur, lost>>

Jids == 1..MaxJid
Mqtt == <<"mqtt", 0>>
Submitter(j) == <<"submit", j>>
Cleaner(j) == <<"clean", j>>
Abandoner(j) == <<"abandon", j>>
Tasks == {Mqtt} \cup ({"submit", "clean", "abandon"} \X Jids)

Edits == {"startup", "reject", "write", "finish", "apologise", "give_up"}
Posts == {"notify", "attach", "callback", "complain"}
Publishes == {"publish", "kill"}
Calls == Edits \cup Posts \cup Publishes
Places == Calls \cup {"idle", "sleep", "down", "dead"}

---------------------------------------------------------------------------
Subject(t) == IF t = Mqtt THEN cur ELSE t[2]

\* Is the task stopping its job because it is abandoned? The MQTT task is when
\* it works through the jobs that a roll call missed.
Abandoning(t) == t = Mqtt => lost # {}

\* What the edit that a task waits for makes of a message: a reject, the final
\* edit of stopped and the cleaner's edit say how the job ended.
TextOf(t) == IF text[Subject(t)] # "news" THEN "overwritten"
             ELSE IF at[t] \in {"reject", "finish", "give_up"} THEN "final" ELSE "news"

\* The task runs on to `place`, where it may await a call.
Go(t, place) ==
  /\ at' = [at EXCEPT ![t] = place]
  /\ call' = [call EXCEPT ![t] = IF place \in Calls THEN "pending" ELSE "none"]

Resumes(t, place, answer) == at[t] = place /\ call[t] = answer

\* The MQTT task is done with a message.
NextMessage == Go(Mqtt, "idle") /\ cur' = 0 /\ lost' = {}

\* An exception leaves a task. In the MQTT task it drops the link, and unless
\* it is one of Discord or MQTT the bot complains in the target channel, if
\* it has one.
Raise(t, exception) ==
  /\ IF t = Mqtt THEN cur' = 0 /\ lost' = {} ELSE UNCHANGED <<cur, lost>>
  /\ IF t # Mqtt THEN Go(t, "idle")
     ELSE IF exception \in {"discord", "mqtt"} THEN Go(t, "down")
     ELSE Go(t, "complain") \/ Go(t, "down")

---------------------------------------------------------------------------
(* What Discord and the broker answer                                       *)

LinkUp == at[Mqtt] \notin {"complain", "down", "dead"}

\* A call of Discord succeeds, or fails when "discord" is among the faults; an
\* edit that succeeds replaces the text of the message.
DiscordAnswers(t) ==
  /\ at[t] \in Edits \cup Posts /\ call[t] = "pending"
  /\ \/ /\ call' = [call EXCEPT ![t] = "ok"]
        /\ text' = IF at[t] \in Edits THEN [text EXCEPT ![Subject(t)] = TextOf(t)] ELSE text
     \/ /\ "discord" \in Faults
        /\ call' = [call EXCEPT ![t] = "failed"]
        /\ UNCHANGED text
  /\ UNCHANGED <<lastJid, jobTable, target, started, open, handler, at, cur, lost>>

\* A publish is confirmed, or fails because the link is down or times out.
BrokerAnswers(t) ==
  /\ at[t] \in Publishes /\ call[t] = "pending"
  /\ \/ LinkUp /\ call' = [call EXCEPT ![t] = "ok"]
     \/ /\ ~LinkUp \/ "broker" \in Faults
        /\ call' = [call EXCEPT ![t] = "failed"]
  /\ UNCHANGED <<jobs, text, at, cur, lost>>

---------------------------------------------------------------------------
(* Submitting a job                                                         *)

MutantNextJid == lastJid
NextJid == lastJid + 1

\* submit_job from the moment the reply is posted: the job enters the table and
\* its publication is awaited.
Submit(n, kind) ==
  /\ lastJid < MaxJid
  /\ lastJid' = lastJid + 1
  /\ jobTable' = jobTable \cup {NextJid}
  /\ target' = [target EXCEPT ![NextJid] = n]
  /\ handler' = [handler EXCEPT ![NextJid] = kind]
  /\ open' = [open EXCEPT ![NextJid] = TRUE]
  /\ Go(Submitter(NextJid), "publish")
  /\ UNCHANGED <<started, text, cur, lost>>

MutantWatch == "idle"
Watch == "sleep"

\* The submission is confirmed, and the cleaner is scheduled.
Submitted(j) ==
  /\ Resumes(Submitter(j), "publish", "ok")
  /\ at' = [at EXCEPT ![Submitter(j)] = "idle", ![Cleaner(j)] = Watch]
  /\ call' = [call EXCEPT ![Submitter(j)] = "none"]
  /\ UNCHANGED <<jobs, cur, lost, text>>

MutantNotSubmitted(j) == Resumes(Submitter(j), "publish", "failed") /\ Go(Submitter(j), "publish")
                         /\ UNCHANGED <<jobs, cur, lost, text>>

\* The submission fails: the user is told, the job stays in the table.
NotSubmitted(j) ==
  /\ Resumes(Submitter(j), "publish", "failed")
  /\ Go(Submitter(j), "apologise")
  /\ UNCHANGED <<jobs, cur, lost, text>>

Apologised(j) ==
  /\ at[Submitter(j)] = "apologise" /\ call[Submitter(j)] # "pending"
  /\ Go(Submitter(j), "dead")
  /\ UNCHANGED <<jobs, cur, lost, text>>

---------------------------------------------------------------------------
(* clean_if_unstarted                                                       *)

\* delete_job of a job that is in the table; of any other it is a KeyError.
MutantDeleted(j) == jobTable
Deleted(j) == jobTable \ {j}

CleanerWakes(j) ==
  /\ at[Cleaner(j)] = "sleep"
  /\ Go(Cleaner(j), IF started[j] THEN "idle" ELSE "give_up")
  /\ UNCHANGED <<jobs, cur, lost, text>>

MutantGaveUp(j) == TRUE
GaveUp(j) == call[Cleaner(j)] = "ok"

CleanerGivesUp(j) ==
  /\ at[Cleaner(j)] = "give_up" /\ call[Cleaner(j)] # "pending"
  /\ Go(Cleaner(j), IF call[Cleaner(j)] = "ok" THEN "idle" ELSE "dead")
  /\ jobTable' = IF GaveUp(j) THEN Deleted(j) ELSE jobTable
  /\ UNCHANGED <<lastJid, target, started, open, handler, cur, lost, text>>

---------------------------------------------------------------------------
(* The MQTT task: job/<jid>/startup, reject, stdout and stderr              *)

\* A message about a job in the table; one about any other is ignored.
Receives(j) == at[Mqtt] = "idle" /\ j \in jobTable

ReceiveStartup(j) ==
  /\ Receives(j)
  /\ Go(Mqtt, "startup") /\ cur' = j
  /\ UNCHANGED <<jobs, lost, text>>

StartupShown ==
  /\ Resumes(Mqtt, "startup", "ok")
  /\ started' = [started EXCEPT ![cur] = TRUE]
  /\ NextMessage
  /\ UNCHANGED <<lastJid, jobTable, target, open, handler, text>>

ReceiveReject(j) ==
  /\ Receives(j)
  /\ Go(Mqtt, "reject") /\ cur' = j
  /\ UNCHANGED <<jobs, lost, text>>

RejectShown ==
  /\ Resumes(Mqtt, "reject", "ok")
  /\ started' = [started EXCEPT ![cur] = TRUE]
  /\ IF cur \in jobTable
       THEN jobTable' = Deleted(cur) /\ NextMessage
       ELSE UNCHANGED jobTable /\ Raise(Mqtt, "key_error")
  /\ UNCHANGED <<lastJid, target, open, handler, text>>

\* Output goes to the buffer, which is open (TableIsOpen), and is shown, until a
\* pipe job has too much of it; from then on it is only kept for the attachment.
ReceiveOutput(j) ==
  /\ Receives(j) /\ open[j]
  /\ handler[j] # "full"
  /\ handler' \in {handler} \cup (IF handler[j] = "pipe"
                                    THEN {[handler EXCEPT ![j] = "full"]} ELSE {})
  /\ Go(Mqtt, "write") /\ cur' = j
  /\ UNCHANGED <<lastJid, jobTable, target, started, open, lost, text>>

OutputShown ==
  /\ Resumes(Mqtt, "write", "ok")
  /\ NextMessage
  /\ UNCHANGED <<jobs, text>>

\* An edit of the MQTT task raises.
EditRaises ==
  /\ at[Mqtt] \in {"startup", "reject", "write"} /\ call[Mqtt] = "failed"
  /\ Raise(Mqtt, "discord")
  /\ UNCHANGED <<jobs, text>>

---------------------------------------------------------------------------
(* Job.stopped, which the MQTT task runs for job/<jid>/stopped and for jobs  *)
(* that a roll call missed, and the abandon command for a job of its choice  *)

\* OutputHandler.stopped up to its first await. A pipe handler reads the
\* buffer, which somebody may have closed in the meantime. `missed` is what is
\* left of the jobs a roll call missed.
Flush(t, j, missed) ==
  \/ handler[j] # "pty" /\ ~open[j] /\ Raise(t, "value_error")
  \/ /\ handler[j] = "pty" \/ open[j]
     /\ Go(t, IF handler[j] = "full" THEN "attach" ELSE "finish")
     /\ cur' = (IF t = Mqtt THEN j ELSE cur) /\ lost' = missed

\* The user of a job that ran for long is notified first.
Stop(t, j, missed) ==
  \/ Flush(t, j, missed)
  \/ Go(t, "notify") /\ cur' = (IF t = Mqtt THEN j ELSE cur) /\ lost' = missed

ReceiveStopped(j) ==
  /\ Receives(j)
  /\ Stop(Mqtt, j, {})
  /\ UNCHANGED <<jobs, text>>

\* The abandon command.
Abandon(j) ==
  /\ j \in Abandonable /\ at[Abandoner(j)] = "idle" /\ j \in jobTable
  /\ Stop(Abandoner(j), j, lost)
  /\ UNCHANGED <<jobs, text>>

\* on_roll_call_reply: node n says that it runs the jobs in `known`; the others
\* that the table has for n are abandoned, one after the other.
ReceiveRollCall(n, known) ==
  /\ at[Mqtt] = "idle"
  /\ LET bad == {j \in jobTable : target[j] = n} \ known IN
     \E j \in bad : Stop(Mqtt, j, bad)
  /\ UNCHANGED <<jobs, text>>

Notified(t) ==
  /\ at[t] = "notify" /\ call[t] # "pending"
  /\ IF call[t] = "ok" THEN Flush(t, Subject(t), lost) ELSE Raise(t, "discord")
  /\ UNCHANGED <<jobs, text>>

\* Whether the upload succeeds or fails, the final edit follows.
Attached(t) ==
  /\ at[t] = "attach" /\ call[t] # "pending"
  /\ Go(t, "finish")
  /\ UNCHANGED <<jobs, cur, lost, text>>

\* The job leaves the table; then an abandoned one is killed on its node, and
\* one that stopped by itself may have a callback (the one there is, that of a
\* download, awaits nothing when the job was abandoned).
Finished(t) ==
  /\ Resumes(t, "finish", "ok")
  /\ open' = [open EXCEPT ![Subject(t)] = FALSE]
  /\ \/ /\ Subject(t) \notin jobTable
        /\ Raise(t, "key_error")
        /\ UNCHANGED jobTable
     \/ /\ Subject(t) \in jobTable
        /\ jobTable' = Deleted(Subject(t))
        /\ \/ /\ Abandoning(t)
              /\ Go(t, "kill")
              /\ UNCHANGED <<cur, lost>>
           \/ /\ ~Abandoning(t)
              /\ NextMessage \/ (Go(t, "callback") /\ UNCHANGED <<cur, lost>>)
  /\ UNCHANGED <<lastJid, target, started, handler, text>>

MutantFinalEditFails(t) == Go(t, "finish") /\ UNCHANGED <<cur, lost>>
FinalEditFails(t) == Raise(t, "discord")

NotFinished(t) ==
  /\ Resumes(t, "finish", "failed")
  /\ FinalEditFails(t)
  /\ UNCHANGED <<jobs, text>>

CalledBack ==
  /\ at[Mqtt] = "callback" /\ call[Mqtt] # "pending"
  /\ IF call[Mqtt] = "ok" THEN NextMessage
     ELSE \E exception \in {"discord", "client_error"} : Raise(Mqtt, exception)
  /\ UNCHANGED <<jobs, text>>

\* The kill is published, or not; the MQTT task goes on to the next missed job.
Killed(t) ==
  /\ at[t] = "kill" /\ call[t] # "pending"
  /\ IF t # Mqtt THEN Go(t, "idle") /\ UNCHANGED <<cur, lost>>
     ELSE \/ call[t] = "failed" /\ Raise(t, "mqtt")
          \/ call[t] = "ok" /\ lost = {cur} /\ NextMessage
          \/ call[t] = "ok" /\ \E j \in lost \ {cur} : Stop(t, j, lost \ {cur})
  /\ UNCHANGED <<jobs, text>>

---------------------------------------------------------------------------
(* The link to the broker                                                   *)

\* The iterator over the messages finds the link lost.
LinkLost ==
  /\ "broker" \in Faults /\ at[Mqtt] = "idle"
  /\ Go(Mqtt, "down")
  /\ UNCHANGED <<jobs, cur, lost, text>>

Reconnect ==
  /\ at[Mqtt] = "down"
  /\ Go(Mqtt, "idle")
  /\ UNCHANGED <<jobs, cur, lost, text>>

\* An exception in the handler of an exception ends the task.
Complained ==
  /\ at[Mqtt] = "complain" /\ call[Mqtt] # "pending"
  /\ Go(Mqtt, IF call[Mqtt] = "ok" THEN "down" ELSE "dead")
  /\ UNCHANGED <<jobs, cur, lost, text>>

---------------------------------------------------------------------------
(* The specification                                                        *)

Init ==
  /\ lastJid = 0
  /\ jobTable = {}
  /\ \E n \in Nodes : target = [j \in Jids |-> n]
  /\ started = [j \in Jids |-> FALSE]
  /\ open = [j \in Jids |-> FALSE]
  /\ handler = [j \in Jids |-> "pipe"]
  /\ text = [j \in Jids |-> "news"]
  /\ at = [t \in Tasks |-> "idle"]
  /\ call = [t \in Tasks |-> "none"]
  /\ cur = 0
  /\ lost = {}

Commands ==
  \/ \E n \in Nodes, kind \in {"pipe", "pty"} : Submit(n, kind)
  \/ \E j \in Jids : Abandon(j)

Messages ==
  \/ \E j \in Jids : \/ ReceiveStartup(j) \/ ReceiveReject(j)
                     \/ ReceiveOutput(j) \/ ReceiveStopped(j)
  \/ \E n \in Nodes, known \in SUBSET Jids : ReceiveRollCall(n, known)

\* What a task does when its call was answered or its sleep is over.
StopResumes(t) == Notified(t) \/ Attached(t) \/ Finished(t) \/ NotFinished(t) \/ Killed(t)
MqttResumes == \/ StartupShown \/ RejectShown \/ OutputShown \/ EditRaises
               \/ CalledBack \/ Reconnect \/ Complained \/ StopResumes(Mqtt)
JobTaskResumes(j) == \/ Submitted(j) \/ NotSubmitted(j) \/ Apologised(j)
                     \/ CleanerWakes(j) \/ CleanerGivesUp(j)
                     \/ StopResumes(Abandoner(j))
Answers(t) == DiscordAnswers(t) \/ BrokerAnswers(t)

Next ==
  \/ Commands
  \/ Messages
  \/ LinkLost
  \/ MqttResumes
  \/ \E j \in Jids : JobTaskResumes(j)
  \/ \E t \in Tasks : Answers(t)

\* asyncio runs whatever task is ready, in the order in which they became so;
\* discord.py and aiomqtt give up on a call after a while.
Fairness ==
  /\ WF_vars(MqttResumes)
  /\ \A j \in Jids : /\ WF_vars(Submitted(j) \/ NotSubmitted(j) \/ Apologised(j))
                     /\ WF_vars(CleanerWakes(j) \/ CleanerGivesUp(j))
                     /\ WF_vars(StopResumes(Abandoner(j)))
  /\ \A t \in Tasks : WF_vars(Answers(t))

Spec == Init /\ [][Next]_vars
FairSpec == Spec /\ Fairness

---------------------------------------------------------------------------
(* Correctness                                                              *)

TypeOK ==
  /\ lastJid \in 0..MaxJid
  /\ jobTable \subseteq 1..lastJid
  /\ target \in [Jids -> Nodes]
  /\ started \in [Jids -> BOOLEAN]
  /\ open \in [Jids -> BOOLEAN]
  /\ handler \in [Jids -> {"pipe", "pty", "full"}]
  /\ text \in [Jids -> {"news", "final", "overwritten"}]
  /\ at \in [Tasks -> Places]
  /\ call \in [Tasks -> {"none", "pending", "ok", "failed"}]
  /\ cur \in {0} \cup 1..lastJid
  /\ lost \subseteq 1..lastJid

\* However the tasks that stop, reject or clean a job race, an entry of the
\* table has its buffer open, so that on_mqtt, which looks the job up before
\* it writes, never loses output to a closed buffer.
TableIsOpen == \A j \in jobTable : open[j]

\* A job leaves the table only once its message was edited to say why, even if
\* calls of Discord fail: delete_job always comes after the edit succeeded.
NobodyIsLeftInTheDark == \A j \in 1..lastJid : j \in jobTable \/ text[j] # "news"

\* The MQTT task takes the next message, or reconnects, whatever its handler
\* runs into; it ends only when its last resort, the complaint, fails.
HandlerReturns == at[Mqtt] \notin {"idle", "down", "dead"} ~> at[Mqtt] \in {"idle", "down", "dead"}

\* A job that was submitted starts or leaves the table in the end, although its
\* node may never answer, unless submitting or cleaning it met a failed call.
JobsSettle ==
  \A j \in Jids : j \in jobTable ~> \/ started[j] \/ j \notin jobTable
                                    \/ at[Submitter(j)] = "dead" \/ at[Cleaner(j)] = "dead"

---------------------------------------------------------------------------
(* What the code or its comments say, and the program does not do           *)

\* clean_if_unstarted is to "terminate jobs that did not start in a reasonable
\* amount of time": it never removes a job that has started.
CleanerSparesStarted ==
  [][\A j \in Jids : j \in jobTable /\ started[j] /\ CleanerGivesUp(j) => j \in jobTable']_vars

\* update_message_stopped edits "the message to its final form once the job is
\* complete": what it then shows is shown for good.
FinalIsFinal == \A j \in Jids : text[j] # "overwritten"

=============================================================================
