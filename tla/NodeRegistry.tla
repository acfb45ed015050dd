---------------------------- MODULE NodeRegistry ----------------------------
(***************************************************************************)
(* The bot's table of nodes (discord-bot/gridbot/entity.py), the MQTT task  *)
(* that keeps it (gridbot.py) and the commands that use it (grid_cmd.py,    *)
(* gridbot.py, xfer.py): how a user's job finds its node, and how an admin  *)
(* ejects one. The nodes and the broker are those of module NodeLink.       *)
(*                                                                          *)
(* The handlers of node topics change the table before they await anything, *)
(* so a call of Discord that fails them is a link that is lost later on.    *)
(* submit_job does await between the choice of a node and its use.          *)
(***************************************************************************)
EXTENDS NodeLink

CONSTANTS
  Users,        \* who gives commands
  Targets,      \* what users type for the name of a node
  Alike,        \* nodes whose names equal a target but for upper and lower case
  Begins,       \* nodes whose names begin with a target
  HasChannel    \* is a target channel configured

None == "none"

ASSUME TargetsAssumption ==
  /\ Alike \in [Targets -> SUBSET Nodes] /\ Begins \in [Targets -> SUBSET Nodes]
ASSUME ChannelAssumption == HasChannel \in BOOLEAN
ASSUME NoneAssumption == None \notin Nodes

VARIABLES
  mqtt,       \* the MQTT task: its link is "down", "connected", "subscribed", "up"
  nodeTable,  \* NodeTable._table: "absent", a "node" or an "ejected" stub
  lastPick,   \* NodeTable._locus
  locus,      \* UserPrefs._locus of each user
  ask,        \* of each user, the submission that awaits its reply: the node object
              \* it goes to, and whether that node was ejected since
  barred      \* history: nodes that were ejected and have not left since

bvars == <<mqtt, nodeTable, lastPick, locus, ask, barred>>
vars == <<lvars, bvars>>

NoAsk == [node |-> None, class |-> "absent", late |-> FALSE]
Asks == [node : Nodes, class : {"node", "ejected"}, late : BOOLEAN]

Present == {n \in Nodes : nodeTable[n] # "absent"}
Accepting == {n \in Present : nodeTable[n] = "node"}     \* can_accept_jobs

---------------------------------------------------------------------------
(* The MQTT task and its link                                               *)

\* A publish of the bot: it reaches the nodes in `ns` that are there.
CanPublish == mqtt # "down"
Publish(ns, topic) ==
  /\ \A n \in ns : Len(mail[n]) < MaxMail
  /\ mail' = Mailed(mail, ns, topic)

Dial ==
  /\ mqtt = "down" /\ mqtt' = "connected"
  /\ UNCHANGED <<lvars, nodeTable, lastPick, locus, ask, barred>>

Subscribe ==
  /\ mqtt = "connected" /\ mqtt' = "subscribed" /\ listening' = TRUE
  /\ UNCHANGED <<link, wire, session, mail, inbox, missed, nodeTable, lastPick, locus, ask, barred>>

\* ping_grid: who is there?
MutantPinged == {}
Pinged == Nodes
PingGrid ==
  /\ mqtt = "subscribed" /\ mqtt' = "up"
  /\ Publish(Pinged, "ping")
  /\ UNCHANGED <<link, wire, session, listening, inbox, missed, nodeTable, lastPick, locus, ask, barred>>

\* The link is lost, or an exception drops it. The messages received before may
\* still be in the client's queue afterwards.
Drop(left) ==
  /\ mqtt' = "down" /\ listening' = FALSE
  /\ \/ inbox' = left /\ UNCHANGED missed
     \/ inbox' = <<>> /\ missed' = missed \cup {left[i].node : i \in {j \in DOMAIN left : left[j].kind # "announce"}}

LoseLink ==
  /\ mqtt # "down"
  /\ Drop(inbox)
  /\ UNCHANGED <<link, wire, session, mail, nodeTable, lastPick, locus, ask, barred>>

\* node_seen: an entry that is there stays, whatever its class.
MutantSeen(n) == "node"
Seen(n) == IF n \in Present THEN nodeTable[n] ELSE "node"

\* node_gone.
MutantGone(n) == nodeTable[n]
Gone(n) == "absent"

\* An announcement goes to the target channel; without one the handler raises.
HandleMessage ==
  /\ mqtt = "up" /\ inbox # <<>>
  /\ LET msg == Head(inbox) IN
     \/ /\ msg.kind = "connect"
        /\ nodeTable' = [nodeTable EXCEPT ![msg.node] = Seen(msg.node)]
        /\ inbox' = Tail(inbox)
        /\ UNCHANGED <<mqtt, listening, missed, barred>>
     \/ /\ msg.kind = "disconnect"
        /\ nodeTable' = [nodeTable EXCEPT ![msg.node] = Gone(msg.node)]
        /\ inbox' = Tail(inbox)
        /\ barred' = barred \ {msg.node}
        /\ UNCHANGED <<mqtt, listening, missed>>
     \/ /\ msg.kind = "announce"
        /\ IF HasChannel THEN inbox' = Tail(inbox) /\ UNCHANGED <<mqtt, listening, missed>>
                         ELSE Drop(Tail(inbox))
        /\ UNCHANGED <<nodeTable, barred>>
  /\ UNCHANGED <<link, wire, session, mail, lastPick, locus, ask>>

---------------------------------------------------------------------------
(* Submitting a job: commands, replies, uploads and downloads               *)

\* The pick is kept by name.
MutantPicked(n) == nodeTable[n]
Picked(n) == n

\* submit_job up to its first await: the user's locus, then the last node that
\* was picked, then any that accepts jobs.
Choose(u) ==
  /\ ask[u] = NoAsk
  /\ \E n \in Present :
       /\ \/ n = locus[u] /\ UNCHANGED lastPick
          \/ locus[u] \notin Present /\ n = lastPick /\ UNCHANGED lastPick
          \/ locus[u] \notin Present /\ lastPick \notin Present /\ n \in Accepting /\ lastPick' = Picked(n)
       /\ ask' = [ask EXCEPT ![u] = [node |-> n, class |-> nodeTable[n], late |-> FALSE]]
  /\ UNCHANGED <<lvars, mqtt, nodeTable, locus, barred>>

\* The reply is posted. Node.submit_job publishes the job; EjectedNode's takes
\* fewer parameters than it is called with, and raises.
Submit(u) ==
  /\ ask[u] # NoAsk
  /\ ask' = [ask EXCEPT ![u] = NoAsk]
  /\ IF ask[u].class = "node" /\ CanPublish THEN Publish({ask[u].node}, "submit") ELSE UNCHANGED mail
  /\ UNCHANGED <<link, wire, session, listening, inbox, missed, mqtt, nodeTable, lastPick, locus, barred>>

\* The reply cannot be posted.
NoReply(u) ==
  /\ ask[u] # NoAsk /\ ask' = [ask EXCEPT ![u] = NoAsk]
  /\ UNCHANGED <<lvars, mqtt, nodeTable, lastPick, locus, barred>>

---------------------------------------------------------------------------
(* Commands about nodes. Each acts if its target fits one node.             *)

NodesByName(target) ==
  IF target \in Present THEN {target}
  ELSE IF Alike[target] \cap Present # {} THEN Alike[target] \cap Present
  ELSE Begins[target] \cap Present

SetLocus(u, target) ==
  /\ \E n \in Nodes : NodesByName(target) = {n} /\ locus' = [locus EXCEPT ![u] = n]
  /\ UNCHANGED <<lvars, mqtt, nodeTable, lastPick, ask, barred>>

Reload(target) ==
  /\ CanPublish
  /\ \E n \in Nodes : NodesByName(target) = {n} /\ Publish({n}, "reload")
  /\ UNCHANGED <<link, wire, session, listening, inbox, missed, bvars>>

\* The stub is in the table before the publish, which may fail.
Eject(target) ==
  /\ \E n \in Nodes :
       /\ NodesByName(target) = {n}
       /\ nodeTable' = [nodeTable EXCEPT ![n] = "ejected"]
       /\ barred' = barred \cup {n}
       /\ IF CanPublish THEN Publish({n}, "exit") ELSE UNCHANGED mail
       /\ ask' = [u \in Users |-> IF ask[u].node = n THEN [ask[u] EXCEPT !.late = TRUE] ELSE ask[u]]
  /\ UNCHANGED <<link, wire, session, listening, inbox, missed, mqtt, lastPick, locus>>

---------------------------------------------------------------------------
Init ==
  /\ LinkInit
  /\ mqtt = "down"
  /\ nodeTable = [n \in Nodes |-> "absent"]
  /\ lastPick = None
  /\ locus = [u \in Users |-> None]
  /\ ask = [u \in Users |-> NoAsk]
  /\ barred = {}

MqttTask == Dial \/ Subscribe \/ PingGrid \/ HandleMessage
Commands ==
  \/ \E u \in Users : Choose(u) \/ Submit(u) \/ NoReply(u)
  \/ \E target \in Targets : Reload(target) \/ Eject(target) \/ \E u \in Users : SetLocus(u, target)
Grid == \E n \in Nodes : (NodeServer(n) \/ Broker(n) \/ Misfortune(n)) /\ UNCHANGED bvars

Next == MqttTask \/ LoseLink \/ Commands \/ Grid

\* The bot and the servers run on, and a node that has lost its link gets it back;
\* nobody has to start a server. The broker serves its clients in turn, so that
\* none is held up for good when others fill the bot's inbox.
Fairness ==
  /\ WF_vars(MqttTask)
  /\ \A n \in Nodes : /\ WF_vars((Reconnect(n) \/ HandleMail(n)) /\ UNCHANGED bvars)
                      /\ SF_vars(Broker(n) /\ UNCHANGED bvars)

Spec == Init /\ [][Next]_vars
FairSpec == Spec /\ Fairness

---------------------------------------------------------------------------
(* Correctness                                                              *)

TypeOK ==
  /\ LinkTypeOK
  /\ mqtt \in {"down", "connected", "subscribed", "up"}
  /\ listening <=> mqtt \in {"subscribed", "up"}
  /\ nodeTable \in [Nodes -> {"absent", "node", "ejected"}]
  /\ lastPick \in Nodes \cup {None}
  /\ locus \in [Users -> Nodes \cup {None}]
  /\ ask \in [Users -> Asks \cup {NoAsk}]
  /\ barred \subseteq Nodes

\* The news of a node's coming and going that the bot has yet to handle.
Pending(n) == {i \in DOMAIN inbox : inbox[i].node = n /\ inbox[i].kind # "announce"}

\* The table lists the nodes that have announced themselves and are not gone,
\* through every loss of link, takeover of a session, farewell and will, apart
\* from news that is under way or was missed while the bot had no link.
TableIsCurrent ==
  \A n \in Nodes : Pending(n) = {} /\ n \notin missed =>
                     (n \in Present <=> "announced" \in session[n])

\* A node that has announced itself is subscribed to its topics: a job is never
\* lost because its node was listed too early.
ListedNodesListen == \A n \in Nodes : "announced" \in session[n] => "subscribed" \in session[n]

\* A job on its way to a node that is ejected was given to it before the
\* ejection: whatever is published or announced, an ejected node is not let back
\* in before it was seen to leave.
NoJobsForEjected ==
  \A u \in Users : ask[u].class = "node" /\ ask[u].node \in barred => ask[u].late

\* A node that stays on its link is listed in the end if the bot stays on its own,
\* although its announcements may have been missed before: the ping brings them
\* in.
NodesGetListed ==
  \A n \in Nodes : <>[](mqtt = "up" /\ Current(n)) => <>[](n \in Present)

=============================================================================
