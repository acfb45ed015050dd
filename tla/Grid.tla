-------------------------------- MODULE Grid --------------------------------
(***************************************************************************)
(* The bot of module BotJobs and a node together. The node is what module   *)
(* NodeContract promises of it, and NodeJobs keeps: which jobs it runs, and *)
(* what it publishes about them. The broker between the two passes messages *)
(* on in order and loses them when the receiver has no link. What remains   *)
(* of the bot is the hourly roll call (grid_cmd.py) and what its tasks      *)
(* publish.                                                                 *)
(***************************************************************************)
EXTENDS BotJobs, Sequences, FiniteSets

CONSTANTS
  Host,       \* the node
  Kinds,      \* bound: handlers of jobs, "pipe" or "pty"
  MAX_JOBS,   \* how many jobs it runs at a time
  MaxMail,    \* bound: messages under way to the node, kills aside
  MaxInbox    \* bound: messages under way to the bot

ASSUME HostAssumption == Host \in Nodes /\ Kinds \subseteq {"pipe", "pty"}
ASSUME SeatsAssumption == MAX_JOBS \in Nat \ {0}
ASSUME BoundsAssumption == MaxMail \in Nat /\ MaxInbox \in Nat

VARIABLES
  running,   \* the jobs the node runs, the seats of NodeContract
  doomed,    \* those that were killed
  nodeUp,    \* is there a node server, with a link
  toNode,    \* messages under way to the node
  toBot,     \* messages under way to the bot
  loop,      \* auto_roll_call: "on", or "ended" by an exception
  unkilled,  \* history: jobs whose kill was lost or had no effect
  cleaned    \* history: jobs that their cleaners took from the table

node == <<running, doomed, nodeUp>>
gvars == <<vars, node, toNode, toBot, loop, unkilled, cleaned>>

Mail(op, j) == [op |-> op, jid |-> j]
Msg(kind, jids) == [kind |-> kind, jids |-> jids]

---------------------------------------------------------------------------
(* What the bot publishes                                                   *)

Reaches(mails) == toNode' = IF nodeUp THEN toNode \o mails ELSE toNode
HasRoom == Len(toNode) < MaxMail

\* The job goes to its node, and the kill of an abandoned job after it.
MutantMailOf(t) == IF at[t] = "publish" THEN <<Mail("submit", Subject(t))>> ELSE <<>>
MailOf(t) == <<Mail(IF at[t] = "publish" THEN "submit" ELSE "kill", Subject(t))>>

\* A client publishes in order: no kill overtakes its job's submission.
InOrder(t) == at[t] = "kill" => ~Resumes(Submitter(Subject(t)), "publish", "pending")

\* A publish that fails may have arrived all the same.
PublishAnswered(t) ==
  /\ InOrder(t) /\ BrokerAnswers(t)
  /\ \/ /\ target[Subject(t)] = Host /\ LinkUp
        /\ at[t] = "kill" \/ HasRoom
        /\ Reaches(MailOf(t))
        /\ UNCHANGED unkilled
     \/ /\ target[Subject(t)] # Host \/ call'[t] = "failed"
        /\ unkilled' = IF at[t] = "kill" THEN unkilled \cup {Subject(t)} ELSE unkilled
        /\ UNCHANGED toNode
  /\ UNCHANGED <<node, toBot, loop, cleaned>>

\* The hourly loop and the rollcall command publish; an MqttError ends the loop.
\* Bound: one roll call at a time.
RollCall ==
  /\ \A i \in DOMAIN toNode : toNode[i].op # "roll_call"
  /\ \A i \in DOMAIN toBot : toBot[i].kind # "roll_call"
  /\ \/ LinkUp /\ HasRoom /\ Reaches(<<Mail("roll_call", 0)>>) /\ UNCHANGED loop
     \/ /\ loop = "on" /\ (~LinkUp \/ "broker" \in Faults)
        /\ loop' = "ended"
        /\ UNCHANGED toNode
  /\ UNCHANGED <<vars, node, toBot, unkilled, cleaned>>

---------------------------------------------------------------------------
(* What the bot receives                                                    *)

\* What is under way to the bot, `rest` being what it has not taken, may be lost
\* with its link.
Left(rest) == toBot' \in {rest} \cup (IF LinkUp /\ ~LinkUp' THEN {<<>>} ELSE {})

\* The node's jobs as the bot knows them from a roll call.
MutantAllKnown(msg) == Jids
MutantNoneKnown(msg) == {}
Known(msg) == msg.jids

\* on_mqtt. Nothing happens to a job that is not in the table, to output that a
\* handler only keeps, or when a roll call misses no job.
Receive(msg) ==
  LET heard == msg.jids \cap jobTable
      bad == {j \in jobTable : target[j] = Host} \ Known(msg) IN
  \/ msg.kind = "startup" /\ \E j \in heard : ReceiveStartup(j)
  \/ msg.kind = "reject" /\ \E j \in heard : ReceiveReject(j)
  \/ msg.kind = "output" /\ \E j \in heard : ReceiveOutput(j)
  \/ msg.kind = "stopped" /\ \E j \in heard : ReceiveStopped(j)
  \/ msg.kind = "roll_call" /\ ReceiveRollCall(Host, Known(msg))
  \/ /\ IF msg.kind = "roll_call" THEN bad = {}
        ELSE heard = {} \/ (msg.kind = "output" /\ \A j \in heard : handler[j] = "full")
     /\ UNCHANGED vars

HandleMessage ==
  /\ at[Mqtt] = "idle" /\ toBot # <<>>
  /\ Receive(Head(toBot))
  /\ Left(Tail(toBot))
  /\ UNCHANGED <<node, toNode, loop, unkilled, cleaned>>

---------------------------------------------------------------------------
(* Other steps of the bot                                                   *)

BotTask ==
  /\ \/ \E kind \in Kinds : Submit(Host, kind)
     \/ \E j \in Jids : Abandon(j)
     \/ LinkLost \/ MqttResumes
     \/ \E t \in Tasks : DiscordAnswers(t)
  /\ UNCHANGED cleaned

JobTask(j) ==
  /\ JobTaskResumes(j)
  /\ cleaned' = IF at[Cleaner(j)] = "give_up" /\ at'[Cleaner(j)] = "idle" THEN cleaned \cup {j}
                                                                         ELSE cleaned

BotStep ==
  /\ BotTask \/ \E j \in Jids : JobTask(j)
  /\ Left(toBot)
  /\ UNCHANGED <<node, toNode, loop, unkilled>>

---------------------------------------------------------------------------
(* The node                                                                 *)

Report(kind, jids) ==
  /\ Len(toBot) < MaxInbox
  /\ toBot' = IF LinkUp THEN Append(toBot, Msg(kind, jids)) ELSE toBot

\* A submission is accepted or refused.
HandleSubmit(j) ==
  /\ \/ Cardinality(running) < MAX_JOBS /\ running' = running \cup {j} /\ Report("startup", {j})
     \/ UNCHANGED running /\ Report("reject", {j})
  /\ UNCHANGED <<doomed, unkilled>>

MutantFound(j) == {j}
Found(j) == running \cap {j}

\* A kill dooms its job or, when its processes cannot be signalled, has no effect.
HandleKill(j) ==
  /\ \/ doomed' = doomed \cup Found(j) /\ UNCHANGED unkilled
     \/ unkilled' = unkilled \cup {j} /\ UNCHANGED doomed
  /\ UNCHANGED <<running, toBot>>

HandleMail ==
  /\ nodeUp /\ toNode # <<>> /\ toNode' = Tail(toNode)
  /\ LET mail == Head(toNode) IN
     \/ mail.op = "submit" /\ HandleSubmit(mail.jid)
     \/ mail.op = "kill" /\ HandleKill(mail.jid)
     \/ mail.op = "roll_call" /\ Report("roll_call", running) /\ UNCHANGED <<running, doomed, unkilled>>
  /\ UNCHANGED <<vars, nodeUp, loop, cleaned>>

\* A job writes, or ends by itself or because it was killed.
JobRuns(j) ==
  /\ j \in running
  /\ \/ Report("output", {j}) /\ UNCHANGED <<running, doomed>>
     \/ Report("stopped", {j}) /\ running' = running \ {j} /\ doomed' = doomed \ {j}
  /\ UNCHANGED <<vars, nodeUp, toNode, loop, unkilled, cleaned>>

\* The server goes, and what was under way to it is lost; another one comes.
NodeLeaves ==
  /\ nodeUp /\ nodeUp' = FALSE
  /\ running' = {} /\ doomed' = {} /\ toNode' = <<>>
  /\ UNCHANGED <<vars, toBot, loop, unkilled, cleaned>>

NodeReturns ==
  /\ ~nodeUp /\ nodeUp' = TRUE
  /\ UNCHANGED <<vars, running, doomed, toNode, toBot, loop, unkilled, cleaned>>

---------------------------------------------------------------------------
GridInit ==
  /\ Init
  /\ running = {} /\ doomed = {} /\ nodeUp = TRUE
  /\ toNode = <<>> /\ toBot = <<>>
  /\ loop = "on"
  /\ unkilled = {} /\ cleaned = {}

NodeStep == HandleMail \/ (\E j \in Jids : JobRuns(j)) \/ NodeLeaves \/ NodeReturns

GridNext ==
  \/ BotStep \/ HandleMessage \/ NodeStep \/ RollCall
  \/ \E t \in Tasks : PublishAnswered(t)

GridSpec == GridInit /\ [][GridNext]_gvars

\* asyncio resumes the MQTT task, calls are answered, the node handles its
\* messages (the bound on those to the bot aside), and every hour has its end.
GridFairness ==
  /\ WF_gvars(MqttResumes /\ BotStep)
  /\ WF_gvars(HandleMessage)
  /\ SF_gvars(HandleMail)
  /\ WF_gvars(RollCall /\ loop' = "on")
  /\ WF_gvars(PublishAnswered(Mqtt))
  /\ WF_gvars(DiscordAnswers(Mqtt) /\ BotStep)
  /\ \A j \in Jids : SF_gvars(PublishAnswered(Submitter(j)))

FairGridSpec == GridSpec /\ GridFairness

---------------------------------------------------------------------------
(* Correctness                                                              *)

GridTypeOK ==
  /\ TypeOK
  /\ running \subseteq Jids /\ doomed \subseteq running /\ nodeUp \in BOOLEAN
  /\ toNode \in Seq([op : {"submit", "kill", "roll_call"}, jid : 0..MaxJid])
  /\ toBot \in Seq([kind : {"startup", "reject", "output", "stopped", "roll_call"},
                    jids : SUBSET Jids])
  /\ loop \in {"on", "ended"}
  /\ unkilled \subseteq Jids /\ cleaned \subseteq Jids

\* Is a kill of the job being published, or on its way to the node?
BeingKilled(j) ==
  \/ \E t \in Tasks : Resumes(t, "kill", "pending") /\ Subject(t) = j
  \/ \E i \in DOMAIN toNode : toNode[i] = Mail("kill", j)

\* Nobody can see or stop a job that runs and is not in the table: that happens
\* only to jobs that were abandoned, which die or whose kill is on its way or went
\* wrong, and to those that started after their cleaner had given up on them.
NoOrphans ==
  \A j \in running \ jobTable : j \in doomed \cup unkilled \cup cleaned \/ BeingKilled(j)

\* A job starts at most once, though a publish that fails may have arrived: once it
\* has started, or no submission of it is left, nothing submits it again.
BeingSubmitted(j) ==
  \/ Resumes(Submitter(j), "publish", "pending")
  \/ \E i \in DOMAIN toNode : toNode[i] = Mail("submit", j)
JobsStartOnce ==
  [][\A j \in 1..lastJid :
       ~BeingSubmitted(j) \/ j \in running
         => ~BeingSubmitted(j)' /\ (j \in running' => j \in running)]_gvars

\* A roll call never costs a job its place that is known to have started and
\* still runs, as the table is compared to what the node said after it had said
\* that the job started.
RollCallSparesStarted == \A j \in lost : started[j] => j \notin running

\* A job that was lost leaves the table in the end, provided that the node and
\* the bot stay connected and no publish has ended the hourly loop.
Lost(j) ==
  /\ j \in jobTable \ running
  /\ ~Resumes(Submitter(j), "publish", "pending")
  /\ \A i \in DOMAIN toNode : toNode[i] # Mail("submit", j)
LostJobsLeave ==
  <>[](LinkUp /\ nodeUp /\ loop = "on") => \A j \in Jids : Lost(j) ~> j \notin jobTable

=============================================================================
