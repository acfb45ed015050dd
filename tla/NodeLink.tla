------------------------------ MODULE NodeLink ------------------------------
(***************************************************************************)
(* The links of the nodes to the MQTT broker (node-server/src/mqtt.c), and  *)
(* what the broker makes of them for the bot: a node connects, subscribes,  *)
(* announces itself when the broker has accepted it and whenever it is      *)
(* pinged, and says farewell before it exits. The broker passes these on in *)
(* order; for a connection that ends without a farewell it publishes the    *)
(* node's will, which reads the same as the farewell. Sessions are clean:   *)
(* what nobody is there to receive is lost.                                 *)
(*                                                                          *)
(* The bot's side is in module NodeRegistry.                                *)
(***************************************************************************)
EXTENDS Integers, Sequences, FiniteSets

CONSTANTS
  Nodes,     \* names of the nodes, which are their client ids
  MaxWire,   \* bound: packets under way from a node when it adds another
  MaxMail,   \* bound: messages under way to a node
  MaxInbox   \* bound: node topics under way to the bot

ASSUME NodesAssumption == Nodes # {}
ASSUME BoundsAssumption == MaxWire \in Nat /\ MaxMail \in Nat /\ MaxInbox \in Nat

VARIABLES
  link,     \* of a node: "off" without a server, "broken", or "on"
  wire,     \* packets of the node's connection that the broker has not handled
  session,  \* what the broker knows of a client: "open", "subscribed", "announced"
  mail,     \* what the broker has sent to a node and it has not handled
  listening,  \* is the bot subscribed to node/#
  inbox,    \* what the bot has not handled
  missed    \* history: nodes whose last coming or going the bot was not told of

lvars == <<link, wire, session, mail, listening, inbox, missed>>

Packets == {"CONNECT", "SUBSCRIBE", "DISCONNECT", "announce", "farewell", "notice"}
Mails == {"CONNACK", "ping", "exit", "reload", "submit"}
News == [kind : {"connect", "disconnect", "announce"}, node : Nodes]

---------------------------------------------------------------------------
(* What the broker passes on                                                *)

\* Does the session belong to the connection that the node uses now? If so, what
\* is published to the node's topics reaches it, once it has subscribed.
Current(n) == link[n] = "on" /\ session[n] # {} /\ "CONNECT" \notin {wire[n][i] : i \in DOMAIN wire[n]}
Reachable(n) == Current(n) /\ "subscribed" \in session[n]
Mailed(boxes, ns, topic) ==
  [n \in Nodes |-> IF n \in ns /\ Reachable(n) THEN Append(boxes[n], topic) ELSE boxes[n]]

\* A message on node/#, for the bot. The bound delays it.
ToBot(kind, n) ==
  IF listening
    THEN /\ Len(inbox) < MaxInbox
         /\ inbox' = Append(inbox, [kind |-> kind, node |-> n])
         /\ missed' = IF kind = "announce" THEN missed ELSE missed \ {n}
    ELSE /\ missed' = IF kind = "announce" THEN missed ELSE missed \cup {n}
         /\ UNCHANGED inbox

---------------------------------------------------------------------------
(* The node server                                                          *)

\* gm_connect_mqtt and attempt_reconnect send the subscriptions at once; the
\* announcement waits for the broker's answer. Packets of the last connection
\* that the broker had not handled die with it.
MutantGreeting == <<"CONNECT">>
Greeting == <<"CONNECT", "SUBSCRIBE">>

Connect(n) ==
  /\ link' = [link EXCEPT ![n] = "on"]
  /\ wire' = [wire EXCEPT ![n] = Greeting]
  /\ UNCHANGED <<session, mail, listening, inbox, missed>>

Start(n) == link[n] = "off" /\ Connect(n)

\* attempt_reconnect retries whatever the error is.
Reconnect(n) == link[n] = "broken" /\ Connect(n)

Sends(n, packets) == wire' = [wire EXCEPT ![n] = @ \o packets]

\* gm_announce, when the broker has accepted the node and for a ping.
Announce(n) ==
  /\ Head(mail[n]) \in {"CONNACK", "ping"}
  /\ Len(wire[n]) < MaxWire
  /\ Sends(n, <<"announce">>)
  /\ mail' = [mail EXCEPT ![n] = Tail(@)]
  /\ UNCHANGED link

\* gm_disconnect, before the server exits or executes itself anew (Start).
Leave(n) ==
  /\ Sends(n, <<"farewell", "DISCONNECT">>)
  /\ link' = [link EXCEPT ![n] = "off"]
  /\ mail' = [mail EXCEPT ![n] = <<>>]

\* A submit starts a job, or not; a server with jobs refuses to reload.
HandleMail(n) ==
  /\ link[n] = "on" /\ mail[n] # <<>>
  /\ \/ Announce(n)
     \/ Head(mail[n]) \in {"exit", "reload"} /\ Leave(n)
     \/ /\ Head(mail[n]) \in {"reload", "submit"}
        /\ Len(wire[n]) < MaxWire
        /\ Sends(n, IF Head(mail[n]) = "reload" THEN <<"notice">> ELSE <<>>)
        /\ mail' = [mail EXCEPT ![n] = Tail(@)]
        /\ UNCHANGED link
  /\ UNCHANGED <<session, listening, inbox, missed>>

\* The operator interrupts the server.
Interrupt(n) ==
  /\ link[n] = "on"
  /\ Leave(n)
  /\ UNCHANGED <<session, listening, inbox, missed>>

\* The link is lost, or the server crashes, with any of its last packets.
Lost(n, state) ==
  /\ link[n] # "off" /\ link[n] # state
  /\ link' = [link EXCEPT ![n] = state]
  /\ \E k \in 0..Len(wire[n]) : wire' = [wire EXCEPT ![n] = SubSeq(@, 1, k)]
  /\ mail' = [mail EXCEPT ![n] = <<>>]
  /\ UNCHANGED <<session, listening, inbox, missed>>

LinkLost(n) == Lost(n, "broken")
Crash(n) == Lost(n, "off")

---------------------------------------------------------------------------
(* The broker                                                               *)

\* A client id that connects again takes its old session over, and the will of
\* the connection that it loses is published.
TakeConnect(n) ==
  /\ IF session[n] = {} THEN UNCHANGED <<inbox, missed>> ELSE ToBot("disconnect", n)
  /\ session' = [session EXCEPT ![n] = {"open"}]
  /\ mail' = [mail EXCEPT ![n] = IF link[n] = "on" THEN <<"CONNACK">> ELSE <<>>]

\* A packet of a connection.
TakePacket(n) ==
  /\ wire[n] # <<>>
  /\ wire' = [wire EXCEPT ![n] = Tail(@)]
  /\ LET packet == Head(wire[n]) IN
     \/ packet = "CONNECT" /\ TakeConnect(n)
     \/ /\ packet = "SUBSCRIBE"
        /\ session' = [session EXCEPT ![n] = @ \cup {"subscribed"}]
        /\ UNCHANGED <<mail, inbox, missed>>
     \/ /\ packet = "announce" /\ ToBot("connect", n)
        /\ session' = [session EXCEPT ![n] = @ \cup {"announced"}]
        /\ UNCHANGED mail
     \/ /\ packet = "farewell" /\ ToBot("disconnect", n)
        /\ session' = [session EXCEPT ![n] = @ \ {"announced"}]
        /\ UNCHANGED mail
     \/ /\ packet = "DISCONNECT"
        /\ session' = [session EXCEPT ![n] = {}]
        /\ UNCHANGED <<mail, inbox, missed>>
     \/ packet = "notice" /\ ToBot("announce", n) /\ UNCHANGED <<session, mail>>
  /\ UNCHANGED <<link, listening>>

\* A connection that ended without a DISCONNECT is noticed.
NoticeLoss(n) ==
  /\ link[n] # "on" /\ session[n] # {} /\ wire[n] = <<>>
  /\ ToBot("disconnect", n)
  /\ session' = [session EXCEPT ![n] = {}]
  /\ UNCHANGED <<link, wire, mail, listening>>

---------------------------------------------------------------------------
LinkInit ==
  /\ link = [n \in Nodes |-> "off"]
  /\ wire = [n \in Nodes |-> <<>>]
  /\ session = [n \in Nodes |-> {}]
  /\ mail = [n \in Nodes |-> <<>>]
  /\ listening = FALSE
  /\ inbox = <<>>
  /\ missed = {}

NodeServer(n) == Start(n) \/ Reconnect(n) \/ HandleMail(n)
Broker(n) == TakePacket(n) \/ NoticeLoss(n)
Misfortune(n) == Interrupt(n) \/ LinkLost(n) \/ Crash(n)

LinkTypeOK ==
  /\ link \in [Nodes -> {"off", "broken", "on"}]
  /\ wire \in [Nodes -> Seq(Packets)]
  /\ session \in [Nodes -> SUBSET {"open", "subscribed", "announced"}]
  /\ mail \in [Nodes -> Seq(Mails)]
  /\ listening \in BOOLEAN
  /\ inbox \in Seq(News)
  /\ missed \subseteq Nodes

=============================================================================
