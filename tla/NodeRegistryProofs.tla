------------------------- MODULE NodeRegistryProofs -------------------------
(***************************************************************************)
(* The table of nodes, for any nodes, users and targets and any bounds on   *)
(* what is under way: nodes that have announced themselves listen to their  *)
(* topics, the table is up to date but for news that is under way or was    *)
(* missed, and an ejected node gets no job.                                 *)
(***************************************************************************)
EXTENDS NodeRegistry, TLAPS

USE NodesAssumption, NoneAssumption

---------------------------------------------------------------------------
(* A node and its connection: link, wire, session and mail                  *)

Has(w, packet) == \E i \in 1..Len(w) : w[i] = packet
Subscribed(w, s) == "subscribed" \in s /\ ~Has(w, "CONNECT")

\* A connection opens with its CONNECT and closes with a farewell and its
\* DISCONNECT. On a link the subscription follows the CONNECT; it comes before every
\* announcement and before the broker sends anything.
InOrder(w) ==
  /\ \A i \in 2..Len(w) : w[i] # "CONNECT"
  /\ \A i \in 1..Len(w) : w[i] = "DISCONNECT" => i = Len(w)
  /\ \A i \in 2..Len(w) : w[i] = "DISCONNECT" => w[i - 1] = "farewell"
Opened(l, w) ==
  l = "on" => /\ ~Has(w, "DISCONNECT")
              /\ Len(w) > 0 /\ w[1] = "CONNECT" => Len(w) > 1 /\ w[2] = "SUBSCRIBE"
Covered(w, s) ==
  \A i \in 1..Len(w) :
    w[i] = "announce" => (\E j \in 1..(i - 1) : w[j] = "SUBSCRIBE") \/ Subscribed(w, s)
Sent(l, w, s, m) ==
  /\ l # "on" => m = <<>>
  /\ l = "on" /\ m # <<>> => Has(w, "SUBSCRIBE") \/ Subscribed(w, s)
Farewelled(w, s) ==
  /\ "announced" \in s => "subscribed" \in s
  /\ Len(w) > 0 /\ w[1] = "DISCONNECT" => "announced" \notin s

LinkOK(l, w, s, m) ==
  InOrder(w) /\ Opened(l, w) /\ Covered(w, s) /\ Sent(l, w, s, m) /\ Farewelled(w, s)

LEMMA ConnectOK ==
  ASSUME NEW s, "announced" \in s => "subscribed" \in s
  PROVE  LinkOK("on", Greeting, s, <<>>)
BY DEF LinkOK, InOrder, Opened, Covered, Sent, Farewelled, Has, Subscribed, Greeting

LEMMA SendOK ==
  ASSUME NEW w \in Seq(Packets), NEW s, NEW m \in Seq(Mails), m # <<>>,
         LinkOK("on", w, s, m),
         NEW p \in {"announce", "notice"}
  PROVE  LinkOK("on", w \o <<p>>, s, Tail(m))
<1> DEFINE v == w \o <<p>>
<1>1. /\ v \in Seq(Packets) /\ Len(v) = Len(w) + 1
      /\ \A i \in 1..Len(w) : v[i] = w[i]
      /\ v[Len(w) + 1] = p
  BY DEF Packets
<1>2. Has(w, "SUBSCRIBE") \/ Subscribed(w, s)
  BY DEF LinkOK, Sent
<1> HIDE DEF v
<1>3. ~Has(w, "CONNECT") => ~Has(v, "CONNECT")
  BY <1>1 DEF Has
<1>4. Has(w, "SUBSCRIBE") => \E j \in 1..Len(w) : v[j] = "SUBSCRIBE"
  BY <1>1 DEF Has
<1>5. Subscribed(w, s) => Subscribed(v, s)
  BY <1>3 DEF Subscribed
<1>6. InOrder(v)
  BY <1>1 DEF LinkOK, InOrder, Opened, Has
<1>7. Opened("on", v)
  <2>1. ~Has(v, "DISCONNECT")
    BY <1>1 DEF LinkOK, Opened, Has
  <2>2. ASSUME Len(v) > 0, v[1] = "CONNECT" PROVE Len(v) > 1 /\ v[2] = "SUBSCRIBE"
    <3>1. Len(w) > 0 /\ w[1] = "CONNECT"
      BY <1>1, <1>2, <2>2 DEF Has, Subscribed, LinkOK, InOrder
    <3> QED
      BY <1>1, <3>1 DEF LinkOK, Opened
  <2> QED
    BY <2>1, <2>2 DEF Opened
<1>8. Covered(v, s)
  <2> SUFFICES ASSUME NEW i \in 1..Len(v), v[i] = "announce"
               PROVE  (\E j \in 1..(i - 1) : v[j] = "SUBSCRIBE") \/ Subscribed(v, s)
    BY DEF Covered
  <2>1. CASE i \in 1..Len(w)
    <3>1. w[i] = "announce"
      BY <1>1, <2>1
    <3>2. (\E j \in 1..(i - 1) : w[j] = "SUBSCRIBE") \/ Subscribed(w, s)
      BY <2>1, <3>1 DEF LinkOK, Covered
    <3> QED
      BY <1>1, <1>5, <2>1, <3>2
  <2>2. CASE i = Len(w) + 1
    BY <1>2, <1>4, <1>5, <2>2
  <2> QED
    BY <1>1, <2>1, <2>2
<1>9. Sent("on", v, s, Tail(m)) /\ Farewelled(v, s)
  BY <1>1, <1>2, <1>4, <1>5 DEF LinkOK, Sent, Farewelled, Opened, Has
<1> QED
  BY <1>6, <1>7, <1>8, <1>9 DEF LinkOK, v

LEMMA TakeMailOK ==
  ASSUME NEW w, NEW s, NEW m \in Seq(Mails), m # <<>>, LinkOK("on", w, s, m)
  PROVE  LinkOK("on", w, s, Tail(m))
BY DEF LinkOK, Sent

LEMMA AddMailOK ==
  ASSUME NEW w, NEW s, NEW m \in Seq(Mails), NEW topic, LinkOK("on", w, s, m), Subscribed(w, s)
  PROVE  LinkOK("on", w, s, Append(m, topic))
BY DEF LinkOK, Sent

LEMMA LeaveOK ==
  ASSUME NEW w \in Seq(Packets), NEW s, NEW m, LinkOK("on", w, s, m)
  PROVE  LinkOK("off", w \o <<"farewell", "DISCONNECT">>, s, <<>>)
<1> DEFINE v == w \o <<"farewell", "DISCONNECT">>
<1>1. /\ v \in Seq(Packets) /\ Len(v) = Len(w) + 2
      /\ \A i \in 1..Len(w) : v[i] = w[i]
      /\ v[Len(w) + 1] = "farewell" /\ v[Len(w) + 2] = "DISCONNECT"
  BY DEF Packets
<1> HIDE DEF v
<1>2. ~Has(w, "CONNECT") => ~Has(v, "CONNECT")
  BY <1>1 DEF Has
<1>3. Subscribed(w, s) => Subscribed(v, s)
  BY <1>2 DEF Subscribed
<1>4. InOrder(v)
  <2>1. \A i \in 1..Len(v) : v[i] = "DISCONNECT" => i = Len(w) + 2
    BY <1>1 DEF LinkOK, Opened, Has
  <2>2. \A i \in 2..Len(v) : v[i] # "CONNECT"
    BY <1>1 DEF LinkOK, InOrder
  <2> QED
    BY <1>1, <2>1, <2>2 DEF InOrder
<1>5. Covered(v, s)
  <2> SUFFICES ASSUME NEW i \in 1..Len(v), v[i] = "announce"
               PROVE  (\E j \in 1..(i - 1) : v[j] = "SUBSCRIBE") \/ Subscribed(v, s)
    BY DEF Covered
  <2>1. i \in 1..Len(w) /\ w[i] = "announce"
    BY <1>1
  <2>2. (\E j \in 1..(i - 1) : w[j] = "SUBSCRIBE") \/ Subscribed(w, s)
    BY <2>1 DEF LinkOK, Covered
  <2> QED
    BY <1>1, <1>3, <2>1, <2>2
<1>6. Farewelled(v, s)
  BY <1>1 DEF LinkOK, Farewelled, Opened, Has
<1> QED
  BY <1>4, <1>5, <1>6 DEF LinkOK, Opened, Sent, v

LEMMA LoseOK ==
  ASSUME NEW w \in Seq(Packets), NEW s, NEW m, NEW l, NEW l2, l2 # "on", l # "off",
         LinkOK(l, w, s, m), NEW k \in 0..Len(w)
  PROVE  LinkOK(l2, SubSeq(w, 1, k), s, <<>>)
<1> DEFINE v == SubSeq(w, 1, k)
<1>1. v \in Seq(Packets) /\ Len(v) = k /\ \A i \in 1..k : v[i] = w[i]
  OBVIOUS
<1> HIDE DEF v
<1>2. Subscribed(w, s) => Subscribed(v, s)
  BY <1>1 DEF Has, Subscribed
<1>3. InOrder(v)
  BY <1>1 DEF LinkOK, InOrder
<1>4. Covered(v, s)
  <2> SUFFICES ASSUME NEW i \in 1..Len(v), v[i] = "announce"
               PROVE  (\E j \in 1..(i - 1) : v[j] = "SUBSCRIBE") \/ Subscribed(v, s)
    BY DEF Covered
  <2>1. (\E j \in 1..(i - 1) : w[j] = "SUBSCRIBE") \/ Subscribed(w, s)
    BY <1>1 DEF LinkOK, Covered
  <2> QED
    BY <1>1, <1>2, <2>1
<1>5. Farewelled(v, s)
  BY <1>1 DEF LinkOK, Farewelled
<1> QED
  BY <1>3, <1>4, <1>5 DEF LinkOK, Opened, Sent, v

\* What the broker makes of a session when it takes a packet.
After(s, packet) ==
  CASE packet = "CONNECT" -> {"open"}
    [] packet = "SUBSCRIBE" -> s \cup {"subscribed"}
    [] packet = "announce" -> s \cup {"announced"}
    [] packet = "farewell" -> s \ {"announced"}
    [] packet = "DISCONNECT" -> {}
    [] packet = "notice" -> s

Answer(l, m, packet) == IF packet = "CONNECT" THEN (IF l = "on" THEN <<"CONNACK">> ELSE <<>>) ELSE m

LEMMA TakePacketOK ==
  ASSUME NEW w \in Seq(Packets), w # <<>>, NEW s, NEW m, NEW l, LinkOK(l, w, s, m)
  PROVE  LinkOK(l, Tail(w), After(s, Head(w)), Answer(l, m, Head(w)))
<1> DEFINE v == Tail(w)
           p == Head(w)
           t == After(s, p)
<1>1. /\ v \in Seq(Packets) /\ Len(w) \in Nat /\ Len(w) > 0 /\ Len(v) = Len(w) - 1
      /\ \A i \in 1..Len(v) : v[i] = w[i + 1]
      /\ p = w[1] /\ p \in Packets
  OBVIOUS
<1>2. /\ p = "CONNECT" => t = {"open"}
      /\ p = "SUBSCRIBE" => t = s \cup {"subscribed"}
      /\ p = "announce" => t = s \cup {"announced"}
      /\ p = "farewell" => t = s \ {"announced"}
      /\ p = "DISCONNECT" => t = {}
      /\ p = "notice" => t = s
  BY <1>1 DEF After, Packets
<1> HIDE DEF v, p, t
<1>3. ~Has(v, "CONNECT")
  BY <1>1 DEF LinkOK, InOrder, Has
<1>4. p \in {"announce", "farewell", "notice"} /\ "subscribed" \in s => Subscribed(v, t)
  BY <1>2, <1>3 DEF Subscribed
<1>5. p = "SUBSCRIBE" => Subscribed(v, t)
  BY <1>2, <1>3 DEF Subscribed
<1>6. p = "DISCONNECT" => Len(v) = 0
  <2>1. 1 \in 1..Len(w) /\ (w[1] = "DISCONNECT" => 1 = Len(w))
    BY <1>1 DEF LinkOK, InOrder
  <2> QED
    BY <1>1, <2>1
<1>7. InOrder(v)
  BY <1>1, <1>3 DEF LinkOK, InOrder, Has
<1>8. Opened(l, v)
  BY <1>1, <1>3 DEF LinkOK, Opened, Has
<1>9. Covered(v, t)
  <2> SUFFICES ASSUME NEW i \in 1..Len(v), v[i] = "announce"
               PROVE  (\E j \in 1..(i - 1) : v[j] = "SUBSCRIBE") \/ Subscribed(v, t)
    BY DEF Covered
  <2>1. i + 1 \in 1..Len(w) /\ w[i + 1] = "announce" /\ p # "DISCONNECT"
    BY <1>1, <1>6
  <2>2. (\E j \in 1..i : w[j] = "SUBSCRIBE") \/ Subscribed(w, s)
    BY <1>1, <2>1 DEF LinkOK, Covered
  <2>3. CASE Subscribed(w, s)
    <3>1. "subscribed" \in s /\ p # "CONNECT"
      BY <1>1, <2>3 DEF Subscribed, Has
    <3> QED
      BY <1>1, <1>4, <1>5, <2>1, <3>1 DEF Packets
  <2>4. ASSUME NEW j \in 1..i, w[j] = "SUBSCRIBE"
        PROVE  (\E k \in 1..(i - 1) : v[k] = "SUBSCRIBE") \/ Subscribed(v, t)
    <3>1. CASE j = 1
      BY <1>1, <1>5, <2>4, <3>1
    <3>2. CASE j > 1
      <4>1. j - 1 \in 1..(i - 1) /\ v[j - 1] = "SUBSCRIBE"
        BY <1>1, <2>4, <3>2
      <4> QED
        BY <4>1
    <3> QED
      BY <3>1, <3>2
  <2> QED
    BY <2>2, <2>3, <2>4
<1>10. Sent(l, v, t, Answer(l, m, p))
  <2>1. ASSUME l = "on", p = "CONNECT" PROVE Has(v, "SUBSCRIBE")
    <3>1. Len(w) > 1 /\ w[2] = "SUBSCRIBE"
      BY <1>1, <2>1 DEF LinkOK, Opened
    <3>2. 1 \in 1..Len(v) /\ v[1] = "SUBSCRIBE"
      BY <1>1, <3>1
    <3> QED
      BY <3>2 DEF Has
  <2>2. ASSUME l = "on", p # "CONNECT", m # <<>> PROVE Has(v, "SUBSCRIBE") \/ Subscribed(v, t)
    <3>1. p # "DISCONNECT"
      BY <1>1, <2>2 DEF LinkOK, Opened, Has
    <3>2. Has(w, "SUBSCRIBE") \/ Subscribed(w, s)
      BY <2>2 DEF LinkOK, Sent
    <3>3. CASE Subscribed(w, s)
      BY <1>1, <1>4, <1>5, <2>2, <3>1, <3>3 DEF Packets, Subscribed
    <3>4. ASSUME NEW j \in 1..Len(w), w[j] = "SUBSCRIBE"
          PROVE  Has(v, "SUBSCRIBE") \/ Subscribed(v, t)
      <4>1. CASE j = 1
        BY <1>1, <1>5, <3>4, <4>1
      <4>2. CASE j > 1
        <5>1. j - 1 \in 1..Len(v) /\ v[j - 1] = "SUBSCRIBE"
          BY <1>1, <3>4, <4>2
        <5> QED
          BY <5>1 DEF Has
      <4> QED
        BY <4>1, <4>2
    <3> QED
      BY <3>2, <3>3, <3>4 DEF Has
  <2>3. l # "on" => Answer(l, m, p) = <<>>
    BY DEF LinkOK, Sent, Answer
  <2>4. Answer(l, m, p) # <<>> => p = "CONNECT" \/ m # <<>>
    BY DEF Answer
  <2> QED
    BY <2>1, <2>2, <2>3, <2>4 DEF Sent
<1>11. Farewelled(v, t)
  <2>1. "announced" \in s => "subscribed" \in s
    BY DEF LinkOK, Farewelled
  <2>2. ASSUME p = "announce" PROVE "subscribed" \in s
    <3>1. 1 \in 1..Len(w) /\ w[1] = "announce" /\ 1..(1 - 1) = {}
      BY <1>1, <2>2
    <3> QED
      BY <3>1 DEF LinkOK, Covered, Subscribed
  <2>3. ASSUME Len(v) > 0, v[1] = "DISCONNECT" PROVE p = "farewell"
    <3>1. 2 \in 2..Len(w) /\ w[2] = "DISCONNECT"
      BY <1>1, <2>3
    <3>2. w[2 - 1] = "farewell"
      BY <3>1 DEF LinkOK, InOrder
    <3> QED
      BY <1>1, <3>2
  <2> QED
    BY <1>1, <1>2, <2>1, <2>2, <2>3 DEF Farewelled, Packets
<1> QED
  BY <1>7, <1>8, <1>9, <1>10, <1>11 DEF LinkOK, v, p, t

---------------------------------------------------------------------------
(* A node and the bot: what the table and the news under way say of it      *)

IsNews(msg, n) == msg.node = n /\ msg.kind # "announce"
NoNews(b, n) == \A i \in 1..Len(b) : ~IsNews(b[i], n)
Latest(b, n, i) == IsNews(b[i], n) /\ \A j \in (i + 1)..Len(b) : ~IsNews(b[j], n)

\* With no news of the node under way it is in the table if it has announced
\* itself; else the latest news tells whether it has.
Told(n, b, present, s) ==
  /\ NoNews(b, n) => (n \in present <=> "announced" \in s)
  /\ \A i \in 1..Len(b) : Latest(b, n, i) => (b[i].kind = "connect" <=> "announced" \in s)

LEMMA AppendedNews ==
  ASSUME NEW b \in Seq(News), NEW msg \in News, NEW n, NEW present, NEW t,
         IsNews(msg, n), msg.kind = "connect" <=> "announced" \in t
  PROVE  Told(n, Append(b, msg), present, t)
<1> DEFINE c == Append(b, msg)
<1>1. Len(c) = Len(b) + 1 /\ c[Len(b) + 1] = msg /\ Len(b) \in Nat
  OBVIOUS
<1> HIDE DEF c
<1>2. ~NoNews(c, n)
  BY <1>1 DEF NoNews
<1>3. ASSUME NEW i \in 1..Len(c), Latest(c, n, i) PROVE i = Len(b) + 1
  BY <1>1, <1>3 DEF Latest
<1> QED
  BY <1>1, <1>2, <1>3 DEF Told, c

LEMMA AppendedOther ==
  ASSUME NEW b \in Seq(News), NEW msg \in News, NEW n, NEW present, NEW s,
         ~IsNews(msg, n), Told(n, b, present, s)
  PROVE  Told(n, Append(b, msg), present, s)
<1> DEFINE c == Append(b, msg)
<1>1. /\ Len(c) = Len(b) + 1 /\ c[Len(b) + 1] = msg /\ Len(b) \in Nat
      /\ \A i \in 1..Len(b) : c[i] = b[i]
  OBVIOUS
<1> HIDE DEF c
<1>2. NoNews(c, n) => NoNews(b, n)
  BY <1>1 DEF NoNews
<1>3. ASSUME NEW i \in 1..Len(c), Latest(c, n, i)
      PROVE  i \in 1..Len(b) /\ c[i] = b[i] /\ Latest(b, n, i)
  BY <1>1, <1>3 DEF Latest
<1> QED
  BY <1>2, <1>3 DEF Told, c

LEMMA HandledNews ==
  ASSUME NEW b \in Seq(News), b # <<>>, NEW n, NEW present, NEW after, NEW s,
         IsNews(Head(b), n), Told(n, b, present, s),
         n \in after <=> Head(b).kind = "connect"
  PROVE  Told(n, Tail(b), after, s)
<1> DEFINE c == Tail(b)
<1>1. /\ Len(b) \in Nat \ {0} /\ Len(c) = Len(b) - 1 /\ Head(b) = b[1]
      /\ \A i \in 1..Len(c) : c[i] = b[i + 1]
  OBVIOUS
<1> HIDE DEF c
<1>2. ASSUME NoNews(c, n) PROVE Latest(b, n, 1)
  <2>1. ASSUME NEW j \in 2..Len(b) PROVE ~IsNews(b[j], n)
    <3>1. j - 1 \in 1..Len(c) /\ c[j - 1] = b[j]
      BY <1>1
    <3> QED
      BY <1>2, <3>1 DEF NoNews
  <2> QED
    BY <1>1, <2>1 DEF Latest
<1>3. ASSUME NEW i \in 1..Len(c), Latest(c, n, i)
      PROVE  i + 1 \in 1..Len(b) /\ c[i] = b[i + 1] /\ Latest(b, n, i + 1)
  <2>1. ASSUME NEW j \in (i + 1 + 1)..Len(b) PROVE ~IsNews(b[j], n)
    <3>1. j - 1 \in (i + 1)..Len(c) /\ c[j - 1] = b[j]
      BY <1>1
    <3> QED
      BY <1>3, <3>1 DEF Latest
  <2> QED
    BY <1>1, <1>3, <2>1 DEF Latest
<1> QED
  BY <1>1, <1>2, <1>3 DEF Told, c

LEMMA HandledOther ==
  ASSUME NEW b \in Seq(News), b # <<>>, NEW n, NEW present, NEW after, NEW s,
         ~IsNews(Head(b), n), Told(n, b, present, s), n \in after <=> n \in present
  PROVE  Told(n, Tail(b), after, s)
<1> DEFINE c == Tail(b)
<1>1. /\ Len(b) \in Nat \ {0} /\ Len(c) = Len(b) - 1 /\ Head(b) = b[1]
      /\ \A i \in 1..Len(c) : c[i] = b[i + 1]
  OBVIOUS
<1> HIDE DEF c
<1>2. ASSUME NoNews(c, n) PROVE NoNews(b, n)
  <2>1. ASSUME NEW j \in 2..Len(b) PROVE ~IsNews(b[j], n)
    <3>1. j - 1 \in 1..Len(c) /\ c[j - 1] = b[j]
      BY <1>1
    <3> QED
      BY <1>2, <3>1 DEF NoNews
  <2> QED
    BY <1>1, <2>1 DEF NoNews
<1>3. ASSUME NEW i \in 1..Len(c), Latest(c, n, i)
      PROVE  i + 1 \in 1..Len(b) /\ c[i] = b[i + 1] /\ Latest(b, n, i + 1)
  <2>1. ASSUME NEW j \in (i + 1 + 1)..Len(b) PROVE ~IsNews(b[j], n)
    <3>1. j - 1 \in (i + 1)..Len(c) /\ c[j - 1] = b[j]
      BY <1>1
    <3> QED
      BY <1>3, <3>1 DEF Latest
  <2> QED
    BY <1>1, <1>3, <2>1 DEF Latest
<1> QED
  BY <1>2, <1>3 DEF Told, c

\* What is dropped held no news of the node.
LEMMA DroppedOther ==
  ASSUME NEW b \in Seq(News), NEW n, NEW present, NEW s,
         n \notin {b[i].node : i \in {j \in DOMAIN b : b[j].kind # "announce"}},
         Told(n, b, present, s)
  PROVE  Told(n, <<>>, present, s)
<1>1. NoNews(b, n)
  BY DEF NoNews, IsNews
<1> QED
  BY <1>1 DEF Told

---------------------------------------------------------------------------
(* Types                                                                    *)

LEMMA ToBotTyped ==
  ASSUME TypeOK, NEW n \in Nodes, NEW kind \in {"connect", "disconnect", "announce"}, ToBot(kind, n)
  PROVE  inbox' \in Seq(News) /\ missed' \subseteq Nodes
<1>1. [kind |-> kind, node |-> n] \in News
  BY DEF News
<1>2. inbox \in Seq(News) /\ missed \subseteq Nodes
  BY DEF TypeOK, LinkTypeOK
<1> QED
  BY <1>1, <1>2 DEF ToBot

LEMMA PublishTyped ==
  ASSUME TypeOK, NEW ns, NEW topic \in Mails, Publish(ns, topic)
  PROVE  mail' \in [Nodes -> Seq(Mails)]
BY DEF TypeOK, LinkTypeOK, Publish, Mailed

LEMMA SendsTyped ==
  ASSUME TypeOK, NEW n \in Nodes, NEW packets \in Seq(Packets), Sends(n, packets)
  PROVE  wire' \in [Nodes -> Seq(Packets)]
BY DEF TypeOK, LinkTypeOK, Sends

LEMMA LeaveTyped ==
  ASSUME TypeOK, NEW n \in Nodes, Leave(n)
  PROVE  /\ link' \in [Nodes -> {"off", "broken", "on"}]
         /\ wire' \in [Nodes -> Seq(Packets)]
         /\ mail' \in [Nodes -> Seq(Mails)]
<1>1. <<"farewell", "DISCONNECT">> \in Seq(Packets)
  BY DEF Packets
<1>2. wire' \in [Nodes -> Seq(Packets)]
  BY <1>1, SendsTyped DEF Leave
<1>3. <<>> \in Seq(Mails)
  OBVIOUS
<1>4. link' = [link EXCEPT ![n] = "off"] /\ mail' = [mail EXCEPT ![n] = <<>>]
  BY DEF Leave
<1>5. link \in [Nodes -> {"off", "broken", "on"}] /\ mail \in [Nodes -> Seq(Mails)]
  BY DEF TypeOK, LinkTypeOK
<1> QED
  BY <1>2, <1>3, <1>4, <1>5

LEMMA DropTyped ==
  ASSUME TypeOK, NEW left \in Seq(News), Drop(left)
  PROVE  inbox' \in Seq(News) /\ missed' \subseteq Nodes /\ mqtt' = "down" /\ listening' = FALSE
<1>1. {left[i].node : i \in {j \in DOMAIN left : left[j].kind # "announce"}} \subseteq Nodes
  <2>1. DOMAIN left = 1..Len(left) /\ \A i \in 1..Len(left) : left[i] \in News
    OBVIOUS
  <2>2. \A msg \in News : msg.node \in Nodes
    BY DEF News
  <2> QED
    BY <2>1, <2>2
<1>2. <<>> \in Seq(News) /\ missed \subseteq Nodes
  BY DEF TypeOK, LinkTypeOK
<1> QED
  BY <1>1, <1>2 DEF Drop

LEMMA NodeTypeStep ==
  ASSUME TypeOK, NEW n \in Nodes, NodeServer(n) \/ Misfortune(n)
  PROVE  LinkTypeOK' /\ listening' = listening
<1> USE DEF TypeOK, LinkTypeOK
<1>1. CASE Start(n) \/ Reconnect(n)
  <2>1. Greeting \in Seq(Packets)
    BY DEF Greeting, Packets
  <2>2. Connect(n)
    BY <1>1 DEF Start, Reconnect
  <2> QED
    BY <2>1, <2>2 DEF Connect
<1>2. CASE HandleMail(n)
  <2>1. CASE Leave(n)
    BY <1>2, <2>1, LeaveTyped DEF HandleMail
  <2>2. ASSUME NEW packets \in Seq(Packets), Sends(n, packets),
               mail' = [mail EXCEPT ![n] = Tail(@)], UNCHANGED link
        PROVE  LinkTypeOK' /\ listening' = listening
    <3>1. wire' \in [Nodes -> Seq(Packets)]
      BY <2>2, SendsTyped
    <3>2. mail' \in [Nodes -> Seq(Mails)]
      BY <1>2, <2>2 DEF HandleMail
    <3> QED
      BY <1>2, <2>2, <3>1, <3>2 DEF HandleMail
  <2>3. <<"announce">> \in Seq(Packets) /\ <<"notice">> \in Seq(Packets) /\ <<>> \in Seq(Packets)
    BY DEF Packets
  <2> QED
    BY <1>2, <2>1, <2>2, <2>3 DEF HandleMail, Announce
<1>3. CASE Interrupt(n)
  BY <1>3, LeaveTyped DEF Interrupt
<1>4. ASSUME NEW state \in {"off", "broken"}, Lost(n, state)
      PROVE  LinkTypeOK' /\ listening' = listening
  BY <1>4 DEF Lost
<1> QED
  BY <1>1, <1>2, <1>3, <1>4 DEF NodeServer, Misfortune, LinkLost, Crash

LEMMA SessionTyped ==
  ASSUME TypeOK, NEW n \in Nodes, NEW t \in SUBSET {"open", "subscribed", "announced"},
         session' = [session EXCEPT ![n] = t]
  PROVE  session' \in [Nodes -> SUBSET {"open", "subscribed", "announced"}]
BY DEF TypeOK, LinkTypeOK

LEMMA BrokerTypeStep ==
  ASSUME TypeOK, NEW n \in Nodes, Broker(n)
  PROVE  LinkTypeOK' /\ listening' = listening
<1> DEFINE Sessions == [Nodes -> SUBSET {"open", "subscribed", "announced"}]
<1>1. /\ wire \in [Nodes -> Seq(Packets)] /\ mail \in [Nodes -> Seq(Mails)]
      /\ session \in Sessions /\ link \in [Nodes -> {"off", "broken", "on"}]
      /\ inbox \in Seq(News) /\ missed \subseteq Nodes /\ listening \in BOOLEAN
  BY DEF TypeOK, LinkTypeOK
<1>2. session[n] \in SUBSET {"open", "subscribed", "announced"}
  BY <1>1
<1>3. ASSUME NEW kind \in {"connect", "disconnect", "announce"}, ToBot(kind, n)
      PROVE  inbox' \in Seq(News) /\ missed' \subseteq Nodes
  BY <1>3, ToBotTyped
<1>4. CASE TakePacket(n)
  <2>1. wire' \in [Nodes -> Seq(Packets)]
    BY <1>1, <1>4 DEF TakePacket
  <2>2. CASE TakeConnect(n)
    <3>1. session' \in Sessions
      BY <2>2, SessionTyped DEF TakeConnect
    <3>2. <<"CONNACK">> \in Seq(Mails) /\ <<>> \in Seq(Mails)
      BY DEF Mails
    <3>3. mail' \in [Nodes -> Seq(Mails)]
      BY <1>1, <2>2, <3>2 DEF TakeConnect
    <3>4. inbox' \in Seq(News) /\ missed' \subseteq Nodes
      BY <1>1, <1>3, <2>2 DEF TakeConnect
    <3> QED
      BY <1>1, <1>4, <2>1, <3>1, <3>3, <3>4 DEF TakePacket, LinkTypeOK
  <2>3. ASSUME \/ session' = [session EXCEPT ![n] = @ \cup {"subscribed"}]
               \/ session' = [session EXCEPT ![n] = @ \cup {"announced"}]
               \/ session' = [session EXCEPT ![n] = @ \ {"announced"}]
               \/ session' = [session EXCEPT ![n] = {}]
               \/ UNCHANGED session,
               \/ \E kind \in {"connect", "disconnect", "announce"} : ToBot(kind, n)
               \/ UNCHANGED <<inbox, missed>>,
               UNCHANGED mail
        PROVE  LinkTypeOK' /\ listening' = listening
    <3>1. session' \in Sessions
      BY <1>1, <1>2, <2>3, SessionTyped
    <3>2. inbox' \in Seq(News) /\ missed' \subseteq Nodes
      BY <1>1, <1>3, <2>3
    <3> QED
      BY <1>1, <1>4, <2>1, <2>3, <3>1, <3>2 DEF TakePacket, LinkTypeOK
  <2> QED
    BY <1>4, <2>2, <2>3 DEF TakePacket
<1>5. CASE NoticeLoss(n)
  <2>1. session' \in Sessions
    BY <1>5, SessionTyped DEF NoticeLoss
  <2> QED
    BY <1>1, <1>3, <1>5, <2>1 DEF NoticeLoss, LinkTypeOK
<1> QED
  BY <1>4, <1>5 DEF Broker

LEMMA TypeStep == ASSUME TypeOK, [Next]_vars PROVE TypeOK'
<1> USE DEF TypeOK
<1>1. CASE Dial
  BY <1>1 DEF Dial, lvars, LinkTypeOK
<1>2. CASE Subscribe
  BY <1>2 DEF Subscribe, LinkTypeOK
<1>3. CASE PingGrid
  <2>1. mail' \in [Nodes -> Seq(Mails)]
    BY <1>3, PublishTyped DEF PingGrid, Mails
  <2> QED
    BY <1>3, <2>1 DEF PingGrid, LinkTypeOK
<1>4. CASE HandleMessage
  <2> DEFINE msg == Head(inbox)
  <2>1. msg \in News /\ Tail(inbox) \in Seq(News) /\ mqtt = "up"
    BY <1>4 DEF HandleMessage, LinkTypeOK
  <2> HIDE DEF msg
  <2>2. Drop(Tail(inbox)) => inbox' \in Seq(News) /\ missed' \subseteq Nodes
                             /\ mqtt' = "down" /\ listening' = FALSE
    BY <2>1, DropTyped
  <2>3. /\ inbox' \in Seq(News) /\ missed' \subseteq Nodes
        /\ mqtt' \in {"down", "connected", "subscribed", "up"} /\ listening' \in BOOLEAN
        /\ listening' <=> mqtt' \in {"subscribed", "up"}
    BY <1>4, <2>1, <2>2 DEF HandleMessage, LinkTypeOK
  <2>4. nodeTable' \in [Nodes -> {"absent", "node", "ejected"}] /\ barred' \subseteq Nodes
    BY <1>4, <2>1 DEF HandleMessage, Seen, Gone, News, msg
  <2>5. UNCHANGED <<link, wire, session, mail, lastPick, locus, ask>>
    BY <1>4 DEF HandleMessage
  <2> QED
    BY <2>3, <2>4, <2>5 DEF LinkTypeOK
<1>5. CASE LoseLink
  <2>1. inbox \in Seq(News)
    BY DEF LinkTypeOK
  <2>2. inbox' \in Seq(News) /\ missed' \subseteq Nodes /\ mqtt' = "down" /\ listening' = FALSE
    BY <1>5, <2>1, DropTyped DEF LoseLink
  <2> QED
    BY <1>5, <2>2 DEF LoseLink, LinkTypeOK
<1>6. ASSUME NEW u \in Users, Choose(u) PROVE TypeOK'
  <2>1. PICK n \in Present : /\ lastPick' \in {lastPick, Picked(n)}
                             /\ ask' = [ask EXCEPT ![u] = [node |-> n, class |-> nodeTable[n], late |-> FALSE]]
    BY <1>6 DEF Choose
  <2>2. [node |-> n, class |-> nodeTable[n], late |-> FALSE] \in Asks
    BY DEF Asks, Present
  <2>3. lastPick' \in Nodes \cup {None}
    BY <2>1 DEF Picked, Present
  <2> QED
    BY <1>6, <2>1, <2>2, <2>3 DEF Choose, lvars, LinkTypeOK
<1>7. ASSUME NEW u \in Users, Submit(u) PROVE TypeOK'
  <2>1. mail' \in [Nodes -> Seq(Mails)]
    BY <1>7, PublishTyped DEF Submit, Mails, LinkTypeOK
  <2> QED
    BY <1>7, <2>1 DEF Submit, LinkTypeOK
<1>8. ASSUME NEW u \in Users, NoReply(u) PROVE TypeOK'
  BY <1>8 DEF NoReply, lvars, LinkTypeOK
<1>9. ASSUME NEW target \in Targets, Reload(target) PROVE TypeOK'
  <2>1. mail' \in [Nodes -> Seq(Mails)]
    BY <1>9, PublishTyped DEF Reload, Mails
  <2> QED
    BY <1>9, <2>1 DEF Reload, bvars, LinkTypeOK
<1>10. ASSUME NEW target \in Targets, Eject(target) PROVE TypeOK'
  <2>1. mail' \in [Nodes -> Seq(Mails)]
    BY <1>10, PublishTyped DEF Eject, Mails, LinkTypeOK
  <2>2. PICK n \in Nodes :
          /\ nodeTable' = [nodeTable EXCEPT ![n] = "ejected"]
          /\ barred' = barred \cup {n}
          /\ ask' = [u \in Users |-> IF ask[u].node = n THEN [ask[u] EXCEPT !.late = TRUE] ELSE ask[u]]
    BY <1>10 DEF Eject
  <2>3. ask' \in [Users -> Asks \cup {NoAsk}]
    <3>1. \A a \in Asks : [a EXCEPT !.late = TRUE] \in Asks
      BY DEF Asks
    <3>2. NoAsk.node # n
      BY DEF NoAsk
    <3> QED
      BY <2>2, <3>1, <3>2
  <2> QED
    BY <1>10, <2>1, <2>2, <2>3 DEF Eject, LinkTypeOK
<1>11. ASSUME NEW u \in Users, NEW target \in Targets, SetLocus(u, target) PROVE TypeOK'
  BY <1>11 DEF SetLocus, lvars, LinkTypeOK
<1>12. CASE Grid
  BY <1>12, NodeTypeStep, BrokerTypeStep DEF Grid, bvars
<1>13. CASE UNCHANGED vars
  BY <1>13 DEF vars, lvars, bvars, LinkTypeOK
<1> QED
  BY <1>1, <1>2, <1>3, <1>4, <1>5, <1>6, <1>7, <1>8, <1>9, <1>10, <1>11, <1>12, <1>13
  DEF Next, MqttTask, Commands

LEMMA TypeInit == Init => TypeOK
<1>1. <<>> \in Seq(Packets) /\ <<>> \in Seq(Mails) /\ <<>> \in Seq(News)
  OBVIOUS
<1>2. ASSUME LinkInit PROVE LinkTypeOK
  <2>1. wire \in [Nodes -> Seq(Packets)]
    BY <1>1, <1>2 DEF LinkInit
  <2>2. mail \in [Nodes -> Seq(Mails)]
    BY <1>1, <1>2 DEF LinkInit
  <2>3. session \in [Nodes -> SUBSET {"open", "subscribed", "announced"}]
    BY <1>2 DEF LinkInit
  <2>4. inbox \in Seq(News)
    BY <1>1, <1>2 DEF LinkInit
  <2> QED
    BY <1>2, <2>1, <2>2, <2>3, <2>4 DEF LinkInit, LinkTypeOK
<1> QED
  BY <1>2 DEF Init, LinkInit, TypeOK

\* The table, the links and what is under way have their types.
THEOREM RegistryTypeCorrect == Spec => []TypeOK
BY TypeInit, TypeStep, PTL DEF Spec

---------------------------------------------------------------------------
(* The connections of the nodes                                             *)

LinkInv == \A n \in Nodes : LinkOK(link[n], wire[n], session[n], mail[n])

\* What the bot publishes goes to nodes that are subscribed.
LEMMA PublishLink ==
  ASSUME TypeOK, LinkInv, NEW ns, NEW topic \in Mails, Publish(ns, topic),
         UNCHANGED <<link, wire, session>>
  PROVE  LinkInv'
<1> SUFFICES ASSUME NEW n \in Nodes PROVE LinkOK(link[n], wire[n], session[n], mail'[n])
  BY DEF LinkInv
<1>1. LinkOK(link[n], wire[n], session[n], mail[n])
  BY DEF LinkInv
<1>2. wire[n] \in Seq(Packets) /\ mail[n] \in Seq(Mails)
  BY DEF TypeOK, LinkTypeOK
<1>3. CASE n \in ns /\ Reachable(n)
  <2>1. link[n] = "on" /\ Subscribed(wire[n], session[n])
    BY <1>2, <1>3 DEF Reachable, Current, Subscribed, Has
  <2>2. mail'[n] = Append(mail[n], topic)
    BY <1>3 DEF Publish, Mailed
  <2> QED
    BY <1>1, <1>2, <2>1, <2>2, AddMailOK
<1>4. CASE ~(n \in ns /\ Reachable(n))
  <2>1. mail'[n] = mail[n]
    BY <1>4 DEF Publish, Mailed
  <2> QED
    BY <1>1, <2>1
<1> QED
  BY <1>3, <1>4

\* A step of one node's connection.
LEMMA OneLink ==
  ASSUME LinkInv, NEW n \in Nodes,
         LinkOK(link'[n], wire'[n], session'[n], mail'[n]),
         \A m \in Nodes \ {n} : /\ link'[m] = link[m] /\ wire'[m] = wire[m]
                                /\ session'[m] = session[m] /\ mail'[m] = mail[m]
  PROVE  LinkInv'
<1> SUFFICES ASSUME NEW m \in Nodes PROVE LinkOK(link'[m], wire'[m], session'[m], mail'[m])
  BY DEF LinkInv
<1>1. CASE m = n
  BY <1>1
<1>2. CASE m # n
  BY <1>2 DEF LinkInv
<1> QED
  BY <1>1, <1>2

LEMMA NodeLinkStep ==
  ASSUME TypeOK, LinkInv, NEW n \in Nodes, NodeServer(n) \/ Misfortune(n)
  PROVE  LinkInv'
<1>1. /\ wire \in [Nodes -> Seq(Packets)] /\ mail \in [Nodes -> Seq(Mails)]
      /\ session \in [Nodes -> SUBSET {"open", "subscribed", "announced"}]
      /\ link \in [Nodes -> {"off", "broken", "on"}]
  BY DEF TypeOK, LinkTypeOK
<1>2. LinkOK(link[n], wire[n], session[n], mail[n])
  BY DEF LinkInv
<1>3. CASE Start(n) \/ Reconnect(n)
  <2>1. Connect(n) /\ link[n] # "on"
    BY <1>3 DEF Start, Reconnect
  <2>2. "announced" \in session[n] => "subscribed" \in session[n]
    BY <1>2 DEF LinkOK, Farewelled
  <2>3. mail[n] = <<>>
    BY <1>2, <2>1 DEF LinkOK, Sent
  <2>4. LinkOK("on", Greeting, session[n], <<>>)
    BY <2>2, ConnectOK
  <2>5. link'[n] = "on" /\ wire'[n] = Greeting /\ session'[n] = session[n] /\ mail'[n] = <<>>
    BY <1>1, <2>1, <2>3 DEF Connect
  <2>6. LinkOK(link'[n], wire'[n], session'[n], mail'[n])
    BY <2>4, <2>5
  <2>7. \A m \in Nodes \ {n} : /\ link'[m] = link[m] /\ wire'[m] = wire[m]
                               /\ session'[m] = session[m] /\ mail'[m] = mail[m]
    BY <1>1, <2>1 DEF Connect
  <2> QED
    BY <2>6, <2>7, OneLink
<1>4. ASSUME Leave(n), link[n] = "on", UNCHANGED session PROVE LinkInv'
  <2>1. LinkOK("off", wire[n] \o <<"farewell", "DISCONNECT">>, session[n], <<>>)
    BY <1>1, <1>2, <1>4, LeaveOK
  <2>2. /\ link'[n] = "off" /\ mail'[n] = <<>> /\ session'[n] = session[n]
        /\ wire'[n] = wire[n] \o <<"farewell", "DISCONNECT">>
    BY <1>1, <1>4 DEF Leave, Sends
  <2>3. LinkOK(link'[n], wire'[n], session'[n], mail'[n])
    BY <2>1, <2>2
  <2>4. \A m \in Nodes \ {n} : /\ link'[m] = link[m] /\ wire'[m] = wire[m]
                               /\ session'[m] = session[m] /\ mail'[m] = mail[m]
    BY <1>1, <1>4 DEF Leave, Sends
  <2> QED
    BY <2>3, <2>4, OneLink
<1>5. CASE HandleMail(n)
  <2>1. link[n] = "on" /\ mail[n] # <<>> /\ UNCHANGED session
    BY <1>5 DEF HandleMail
  <2>2. mail[n] \in Seq(Mails) /\ wire[n] \in Seq(Packets)
    BY <1>1
  <2>3. ASSUME NEW packets, LinkOK("on", wire[n] \o packets, session[n], Tail(mail[n])),
               Sends(n, packets), mail' = [mail EXCEPT ![n] = Tail(@)], UNCHANGED link
        PROVE  LinkInv'
    <3>1. /\ link'[n] = "on" /\ mail'[n] = Tail(mail[n]) /\ session'[n] = session[n]
          /\ wire'[n] = wire[n] \o packets
      BY <1>1, <2>1, <2>3 DEF Sends
    <3>2. LinkOK(link'[n], wire'[n], session'[n], mail'[n])
      BY <2>3, <3>1
    <3>3. \A m \in Nodes \ {n} : /\ link'[m] = link[m] /\ wire'[m] = wire[m]
                                 /\ session'[m] = session[m] /\ mail'[m] = mail[m]
      BY <1>1, <2>1, <2>3 DEF Sends
    <3> QED
      BY <3>2, <3>3, OneLink
  <2>4. \A p \in {"announce", "notice"} : LinkOK("on", wire[n] \o <<p>>, session[n], Tail(mail[n]))
    BY <1>2, <2>1, <2>2, SendOK
  <2>5. LinkOK("on", wire[n] \o <<>>, session[n], Tail(mail[n]))
    <3>1. wire[n] \o <<>> = wire[n]
      BY <2>2
    <3>2. LinkOK("on", wire[n], session[n], Tail(mail[n]))
      BY <1>2, <2>1, <2>2, TakeMailOK
    <3> QED
      BY <3>1, <3>2
  <2> QED
    BY <1>4, <1>5, <2>1, <2>3, <2>4, <2>5 DEF HandleMail, Announce
<1>6. CASE Interrupt(n)
  BY <1>4, <1>6 DEF Interrupt
<1>7. ASSUME NEW state \in {"off", "broken"}, Lost(n, state) PROVE LinkInv'
  <2>1. PICK k \in 0..Len(wire[n]) : wire' = [wire EXCEPT ![n] = SubSeq(@, 1, k)]
    BY <1>7 DEF Lost
  <2>2. LinkOK(state, SubSeq(wire[n], 1, k), session[n], <<>>)
    BY <1>1, <1>2, <1>7, LoseOK DEF Lost
  <2>3. /\ link'[n] = state /\ mail'[n] = <<>> /\ session'[n] = session[n]
        /\ wire'[n] = SubSeq(wire[n], 1, k)
    BY <1>1, <1>7, <2>1 DEF Lost
  <2>4. LinkOK(link'[n], wire'[n], session'[n], mail'[n])
    BY <2>2, <2>3
  <2>5. \A m \in Nodes \ {n} : /\ link'[m] = link[m] /\ wire'[m] = wire[m]
                               /\ session'[m] = session[m] /\ mail'[m] = mail[m]
    BY <1>1, <1>7, <2>1 DEF Lost
  <2> QED
    BY <2>4, <2>5, OneLink
<1> QED
  BY <1>3, <1>5, <1>6, <1>7 DEF NodeServer, Misfortune, LinkLost, Crash

\* The broker's step, by the packet.
LEMMA TakenPacket ==
  ASSUME TypeOK, LinkInv, NEW n \in Nodes, TakePacket(n)
  PROVE  /\ wire[n] # <<>> /\ wire' = [wire EXCEPT ![n] = Tail(@)]
         /\ session' = [session EXCEPT ![n] = After(session[n], Head(wire[n]))]
         /\ mail' = [mail EXCEPT ![n] = Answer(link[n], mail[n], Head(wire[n]))]
<1>1. session = [session EXCEPT ![n] = session[n]] /\ mail = [mail EXCEPT ![n] = mail[n]]
  BY DEF TypeOK, LinkTypeOK
<1> QED
  BY <1>1 DEF TakePacket, TakeConnect, After, Answer

LEMMA BrokerLinkStep ==
  ASSUME TypeOK, LinkInv, NEW n \in Nodes, Broker(n)
  PROVE  LinkInv'
<1>1. /\ wire \in [Nodes -> Seq(Packets)] /\ mail \in [Nodes -> Seq(Mails)]
      /\ session \in [Nodes -> SUBSET {"open", "subscribed", "announced"}]
  BY DEF TypeOK, LinkTypeOK
<1>2. LinkOK(link[n], wire[n], session[n], mail[n])
  BY DEF LinkInv
<1>3. CASE TakePacket(n)
  <2> DEFINE p == Head(wire[n])
  <2>1. LinkOK(link[n], Tail(wire[n]), After(session[n], p), Answer(link[n], mail[n], p))
    BY <1>1, <1>2, <1>3, TakenPacket, TakePacketOK
  <2>2. /\ link' = link /\ wire' = [wire EXCEPT ![n] = Tail(@)]
        /\ session' = [session EXCEPT ![n] = After(session[n], p)]
        /\ mail' = [mail EXCEPT ![n] = Answer(link[n], mail[n], p)]
    BY <1>3, TakenPacket DEF TakePacket
  <2> HIDE DEF p
  <2>3. /\ link'[n] = link[n] /\ wire'[n] = Tail(wire[n])
        /\ session'[n] = After(session[n], p) /\ mail'[n] = Answer(link[n], mail[n], p)
    BY <1>1, <2>2
  <2>4. LinkOK(link'[n], wire'[n], session'[n], mail'[n])
    BY <2>1, <2>3
  <2>5. \A m \in Nodes \ {n} : /\ link'[m] = link[m] /\ wire'[m] = wire[m]
                               /\ session'[m] = session[m] /\ mail'[m] = mail[m]
    BY <1>1, <2>2
  <2> QED
    BY <2>4, <2>5, OneLink
<1>4. CASE NoticeLoss(n)
  <2>1. LinkOK(link[n], wire[n], {}, mail[n])
    BY <1>2, <1>4 DEF NoticeLoss, LinkOK, Covered, Sent, Farewelled, Has
  <2>2. /\ link'[n] = link[n] /\ wire'[n] = wire[n] /\ session'[n] = {} /\ mail'[n] = mail[n]
    BY <1>1, <1>4 DEF NoticeLoss
  <2>3. LinkOK(link'[n], wire'[n], session'[n], mail'[n])
    BY <2>1, <2>2
  <2>4. \A m \in Nodes \ {n} : /\ link'[m] = link[m] /\ wire'[m] = wire[m]
                               /\ session'[m] = session[m] /\ mail'[m] = mail[m]
    BY <1>1, <1>4 DEF NoticeLoss
  <2> QED
    BY <2>3, <2>4, OneLink
<1> QED
  BY <1>3, <1>4 DEF Broker

LEMMA LinkStep == ASSUME TypeOK, LinkInv, [Next]_vars PROVE LinkInv'
<1>1. ASSUME UNCHANGED <<link, wire, session, mail>> PROVE LinkInv'
  BY <1>1 DEF LinkInv
<1>2. CASE PingGrid
  BY <1>2, PublishLink DEF PingGrid, Mails
<1>3. ASSUME NEW u \in Users, Submit(u) PROVE LinkInv'
  BY <1>1, <1>3, PublishLink DEF Submit, Mails
<1>4. ASSUME NEW target \in Targets, Reload(target) PROVE LinkInv'
  BY <1>4, PublishLink DEF Reload, Mails
<1>5. ASSUME NEW target \in Targets, Eject(target) PROVE LinkInv'
  BY <1>1, <1>5, PublishLink DEF Eject, Mails
<1>6. CASE Grid
  BY <1>6, NodeLinkStep, BrokerLinkStep DEF Grid
<1>7. CASE Dial \/ Subscribe \/ HandleMessage \/ LoseLink
  BY <1>1, <1>7 DEF Dial, Subscribe, HandleMessage, LoseLink, lvars
<1>8. ASSUME NEW u \in Users, NEW target \in Targets,
             Choose(u) \/ NoReply(u) \/ SetLocus(u, target)
      PROVE  LinkInv'
  BY <1>1, <1>8 DEF Choose, NoReply, SetLocus, lvars
<1>9. ASSUME NEW u \in Users, Choose(u) \/ NoReply(u) PROVE LinkInv'
  BY <1>1, <1>9 DEF Choose, NoReply, lvars
<1>10. CASE UNCHANGED vars
  BY <1>1, <1>10 DEF vars, lvars
<1> QED
  BY <1>2, <1>3, <1>4, <1>5, <1>6, <1>7, <1>8, <1>9, <1>10 DEF Next, MqttTask, Commands

LEMMA LinkInitInv == Init => LinkInv
<1>1. LinkOK("off", <<>>, {}, <<>>)
  BY DEF LinkOK, InOrder, Opened, Covered, Sent, Farewelled
<1> QED
  BY <1>1 DEF Init, LinkInit, LinkInv

LEMMA LinkIsOK == Spec => []LinkInv
BY LinkInitInv, LinkStep, RegistryTypeCorrect, PTL DEF Spec

\* A node is subscribed when it is announced, whatever was lost on the way: a job
\* is not lost because its node was listed too early.
THEOREM AnnouncedNodesListen == Spec => []ListedNodesListen
<1>1. LinkInv => ListedNodesListen
  BY DEF LinkInv, LinkOK, Farewelled, ListedNodesListen
<1> QED
  BY <1>1, LinkIsOK, PTL

---------------------------------------------------------------------------
(* Ejection                                                                 *)

EjectedInv == (\A n \in barred : nodeTable[n] = "ejected") /\ NoJobsForEjected

LEMMA EjectedStep == ASSUME TypeOK, EjectedInv, [Next]_vars PROVE EjectedInv'
<1> USE DEF EjectedInv, NoJobsForEjected
<1>1. ASSUME UNCHANGED <<nodeTable, ask, barred>> PROVE EjectedInv'
  BY <1>1
<1>2. CASE HandleMessage
  <2>1. UNCHANGED ask
    BY <1>2 DEF HandleMessage
  <2>2. nodeTable \in [Nodes -> {"absent", "node", "ejected"}] /\ barred \subseteq Nodes
    BY DEF TypeOK
  <2> QED
    BY <1>2, <2>1, <2>2 DEF HandleMessage, Seen, Gone, Present
<1>3. ASSUME NEW u \in Users, Choose(u) PROVE EjectedInv'
  <2>1. PICK n \in Nodes : ask' = [ask EXCEPT ![u] = [node |-> n, class |-> nodeTable[n], late |-> FALSE]]
    BY <1>3 DEF Choose, Present
  <2> QED
    BY <1>3, <2>1 DEF Choose, TypeOK
<1>4. ASSUME NEW u \in Users, Submit(u) \/ NoReply(u) PROVE EjectedInv'
  <2>1. ask' = [ask EXCEPT ![u] = NoAsk] /\ UNCHANGED <<nodeTable, barred>>
    BY <1>4 DEF Submit, NoReply
  <2> QED
    BY <2>1 DEF TypeOK, NoAsk
<1>5. ASSUME NEW target \in Targets, Eject(target) PROVE EjectedInv'
  <2>1. PICK n \in Nodes :
          /\ nodeTable' = [nodeTable EXCEPT ![n] = "ejected"]
          /\ barred' = barred \cup {n}
          /\ ask' = [u \in Users |-> IF ask[u].node = n THEN [ask[u] EXCEPT !.late = TRUE] ELSE ask[u]]
    BY <1>5 DEF Eject
  <2>2. \A m \in barred' : nodeTable'[m] = "ejected"
    BY <2>1 DEF TypeOK
  <2>3. ASSUME NEW u \in Users, ask'[u].class = "node", ask'[u].node \in barred' PROVE ask'[u].late
    <3>1. ask[u] \in Asks \cup {NoAsk}
      BY DEF TypeOK
    <3>2. CASE ask[u].node = n
      <4>1. ask'[u] = [ask[u] EXCEPT !.late = TRUE]
        BY <2>1, <3>2
      <4> QED
        BY <3>1, <4>1 DEF Asks, NoAsk
    <3>3. CASE ask[u].node # n
      BY <2>1, <2>3, <3>3
    <3> QED
      BY <3>2, <3>3
  <2> QED
    BY <2>2, <2>3
<1>6. CASE Dial \/ Subscribe \/ PingGrid \/ LoseLink
  BY <1>1, <1>6 DEF Dial, Subscribe, PingGrid, LoseLink
<1>7. ASSUME NEW target \in Targets, Reload(target) PROVE EjectedInv'
  BY <1>1, <1>7 DEF Reload, bvars
<1>8. ASSUME NEW u \in Users, NEW target \in Targets, SetLocus(u, target) PROVE EjectedInv'
  BY <1>1, <1>8 DEF SetLocus
<1>9. CASE Grid
  BY <1>1, <1>9 DEF Grid, bvars
<1>10. CASE UNCHANGED vars
  BY <1>1, <1>10 DEF vars, bvars
<1> QED
  BY <1>2, <1>3, <1>4, <1>5, <1>6, <1>7, <1>8, <1>9, <1>10 DEF Next, MqttTask, Commands

\* A node object that accepts jobs was never picked while its node was ejected.
THEOREM EjectedNodesGetNoJobs == Spec => []NoJobsForEjected
<1>1. Init => EjectedInv
  BY DEF Init, EjectedInv, NoJobsForEjected, NoAsk
<1>2. EjectedInv => NoJobsForEjected
  BY DEF EjectedInv
<1> QED
  BY <1>1, <1>2, EjectedStep, RegistryTypeCorrect, PTL DEF Spec

---------------------------------------------------------------------------
(* The table                                                                *)

NewsInv == \A n \in Nodes \ missed : Told(n, inbox, Present, session[n])

\* News of a node reaches the bot, or is missed.
LEMMA NewsArrives ==
  ASSUME TypeOK, NewsInv, NEW n \in Nodes, NEW kind \in {"connect", "disconnect"}, ToBot(kind, n),
         UNCHANGED nodeTable, NEW t, session' = [session EXCEPT ![n] = t],
         kind = "connect" <=> "announced" \in t
  PROVE  NewsInv'
<1> DEFINE msg == [kind |-> kind, node |-> n]
<1>1. msg \in News /\ inbox \in Seq(News) /\ IsNews(msg, n) /\ (msg.kind = "connect" <=> "announced" \in t)
  BY DEF News, IsNews, TypeOK, LinkTypeOK
<1>2. session'[n] = t /\ \A m \in Nodes \ {n} : session'[m] = session[m]
  BY DEF TypeOK, LinkTypeOK
<1>3. Present' = Present
  BY DEF Present
<1> SUFFICES ASSUME NEW m \in Nodes \ missed' PROVE Told(m, inbox', Present, session'[m])
  BY <1>3 DEF NewsInv
<1>4. CASE listening
  <2>1. inbox' = Append(inbox, msg) /\ missed' = missed \ {n}
    BY <1>4 DEF ToBot
  <2>2. CASE m = n
    <3>1. Told(n, Append(inbox, msg), Present, t)
      BY <1>1, AppendedNews
    <3> QED
      BY <1>2, <2>1, <2>2, <3>1
  <2>3. CASE m # n
    <3>1. ~IsNews(msg, m) /\ Told(m, inbox, Present, session[m])
      BY <2>1, <2>3 DEF IsNews, NewsInv
    <3>2. Told(m, Append(inbox, msg), Present, session[m])
      BY <1>1, <3>1, AppendedOther
    <3> QED
      BY <1>2, <2>1, <2>3, <3>2
  <2> QED
    BY <2>2, <2>3
<1>5. CASE ~listening
  <2>1. inbox' = inbox /\ missed' = missed \cup {n}
    BY <1>5 DEF ToBot
  <2> QED
    BY <1>2, <2>1 DEF NewsInv
<1> QED
  BY <1>4, <1>5

\* Anything else on node/# says nothing of who is there.
LEMMA NoticeArrives ==
  ASSUME TypeOK, NewsInv, NEW n \in Nodes, ToBot("announce", n), UNCHANGED <<nodeTable, session>>
  PROVE  NewsInv'
<1> DEFINE msg == [kind |-> "announce", node |-> n]
<1>1. msg \in News /\ inbox \in Seq(News) /\ \A m : ~IsNews(msg, m)
  BY DEF News, IsNews, TypeOK, LinkTypeOK
<1>2. missed' = missed /\ inbox' \in {inbox, Append(inbox, msg)} /\ Present' = Present
  BY DEF ToBot, Present
<1> HIDE DEF msg
<1> SUFFICES ASSUME NEW m \in Nodes \ missed PROVE Told(m, inbox', Present, session[m])
  BY <1>2 DEF NewsInv
<1>3. Told(m, inbox, Present, session[m])
  BY DEF NewsInv
<1>4. Told(m, Append(inbox, msg), Present, session[m])
  BY <1>1, <1>3, AppendedOther
<1> QED
  BY <1>2, <1>3, <1>4

\* The session changes, but not whether the node has announced itself.
LEMMA SessionMoves ==
  ASSUME TypeOK, NewsInv, NEW n \in Nodes, NEW t, session' = [session EXCEPT ![n] = t],
         "announced" \in t <=> "announced" \in session[n],
         UNCHANGED <<inbox, missed, nodeTable>>
  PROVE  NewsInv'
<1>1. \A m \in Nodes : "announced" \in session'[m] <=> "announced" \in session[m]
  BY DEF TypeOK, LinkTypeOK
<1>2. Present' = Present
  BY DEF Present
<1> QED
  BY <1>1, <1>2 DEF NewsInv, Told

LEMMA LinkDrops ==
  ASSUME NEW left \in Seq(News), \A n \in Nodes \ missed : Told(n, left, Present, session[n]),
         Drop(left), UNCHANGED <<nodeTable, session>>
  PROVE  NewsInv'
<1>1. Present' = Present
  BY DEF Present
<1>2. CASE inbox' = left /\ UNCHANGED missed
  BY <1>1, <1>2 DEF NewsInv
<1>3. CASE inbox' = <<>> /\ missed' = missed \cup {left[i].node : i \in {j \in DOMAIN left : left[j].kind # "announce"}}
  <2>1. \A n \in Nodes \ missed' : Told(n, <<>>, Present, session[n])
    BY <1>3, DroppedOther
  <2> QED
    BY <1>1, <1>3, <2>1 DEF NewsInv
<1> QED
  BY <1>2, <1>3 DEF Drop

LEMMA HandledMessage == ASSUME TypeOK, NewsInv, HandleMessage PROVE NewsInv'
<1> DEFINE msg == Head(inbox)
<1>1. inbox \in Seq(News) /\ inbox # <<>> /\ msg \in News /\ Tail(inbox) \in Seq(News) /\ UNCHANGED session
  BY DEF HandleMessage, TypeOK, LinkTypeOK
<1>2. CASE msg.kind \in {"connect", "disconnect"}
  <2>1. inbox' = Tail(inbox) /\ missed' = missed
    BY <1>2 DEF HandleMessage
  <2>2. /\ msg.node \in Nodes
        /\ msg.node \in Present' <=> msg.kind = "connect"
        /\ \A n \in Nodes \ {msg.node} : n \in Present' <=> n \in Present
    BY <1>1, <1>2 DEF HandleMessage, TypeOK, News, Present, Seen, Gone
  <2> SUFFICES ASSUME NEW n \in Nodes \ missed PROVE Told(n, Tail(inbox), Present', session[n])
    BY <1>1, <2>1 DEF NewsInv
  <2>3. Told(n, inbox, Present, session[n])
    BY DEF NewsInv
  <2>4. CASE n = msg.node
    <3>1. IsNews(msg, n) /\ (n \in Present' <=> msg.kind = "connect")
      BY <1>2, <2>2, <2>4 DEF IsNews
    <3> QED
      BY <1>1, <2>3, <3>1, HandledNews
  <2>5. CASE n # msg.node
    <3>1. ~IsNews(msg, n) /\ (n \in Present' <=> n \in Present)
      BY <2>2, <2>5 DEF IsNews
    <3> QED
      BY <1>1, <2>3, <3>1, HandledOther
  <2> QED
    BY <2>4, <2>5
<1>3. CASE msg.kind = "announce"
  <2>1. UNCHANGED nodeTable /\ Present' = Present
    BY <1>3 DEF HandleMessage, Present
  <2>2. \A n \in Nodes \ missed : Told(n, Tail(inbox), Present, session[n])
    <3> SUFFICES ASSUME NEW n \in Nodes \ missed PROVE Told(n, Tail(inbox), Present, session[n])
      OBVIOUS
    <3>1. Told(n, inbox, Present, session[n]) /\ ~IsNews(msg, n)
      BY <1>3 DEF NewsInv, IsNews
    <3> QED
      BY <1>1, <3>1, HandledOther
  <2>3. CASE inbox' = Tail(inbox) /\ UNCHANGED missed
    BY <1>1, <2>1, <2>2, <2>3 DEF NewsInv
  <2>4. CASE Drop(Tail(inbox))
    BY <1>1, <2>1, <2>2, <2>4, LinkDrops
  <2> QED
    BY <1>3, <2>3, <2>4 DEF HandleMessage
<1> QED
  BY <1>1, <1>2, <1>3 DEF News

LEMMA BrokerNewsStep ==
  ASSUME TypeOK, LinkInv, NewsInv, NEW n \in Nodes, Broker(n), UNCHANGED nodeTable
  PROVE  NewsInv'
<1>1. session \in [Nodes -> SUBSET {"open", "subscribed", "announced"}] /\ wire[n] \in Seq(Packets)
  BY DEF TypeOK, LinkTypeOK
<1>2. CASE NoticeLoss(n)
  BY <1>2, NewsArrives DEF NoticeLoss
<1>3. CASE TakePacket(n) /\ Head(wire[n]) = "CONNECT"
  <2>1. TakeConnect(n)
    BY <1>3 DEF TakePacket
  <2>2. CASE session[n] = {}
    <3>1. session' = [session EXCEPT ![n] = {"open"}] /\ UNCHANGED <<inbox, missed>>
      BY <2>1, <2>2 DEF TakeConnect
    <3> QED
      BY <2>2, <3>1, SessionMoves
  <2>3. CASE session[n] # {}
    <3>1. session' = [session EXCEPT ![n] = {"open"}] /\ ToBot("disconnect", n)
      BY <2>1, <2>3 DEF TakeConnect
    <3> QED
      BY <3>1, NewsArrives
  <2> QED
    BY <2>2, <2>3
<1>4. CASE TakePacket(n) /\ Head(wire[n]) = "SUBSCRIBE"
  <2>1. session' = [session EXCEPT ![n] = session[n] \cup {"subscribed"}] /\ UNCHANGED <<inbox, missed>>
    BY <1>4 DEF TakePacket
  <2> QED
    BY <2>1, SessionMoves
<1>5. CASE TakePacket(n) /\ Head(wire[n]) = "announce"
  <2>1. session' = [session EXCEPT ![n] = session[n] \cup {"announced"}] /\ ToBot("connect", n)
    BY <1>5 DEF TakePacket
  <2> QED
    BY <2>1, NewsArrives
<1>6. CASE TakePacket(n) /\ Head(wire[n]) = "farewell"
  <2>1. session' = [session EXCEPT ![n] = session[n] \ {"announced"}] /\ ToBot("disconnect", n)
    BY <1>6 DEF TakePacket
  <2> QED
    BY <2>1, NewsArrives
<1>7. CASE TakePacket(n) /\ Head(wire[n]) = "DISCONNECT"
  <2>1. session' = [session EXCEPT ![n] = {}] /\ UNCHANGED <<inbox, missed>> /\ wire[n] # <<>>
    BY <1>7 DEF TakePacket
  <2>2. "announced" \notin session[n]
    BY <1>1, <1>7, <2>1 DEF LinkInv, LinkOK, Farewelled
  <2> QED
    BY <2>1, <2>2, SessionMoves
<1>8. CASE TakePacket(n) /\ Head(wire[n]) = "notice"
  BY <1>8, NoticeArrives DEF TakePacket
<1> QED
  BY <1>2, <1>3, <1>4, <1>5, <1>6, <1>7, <1>8 DEF Broker, TakePacket

LEMMA NewsStep == ASSUME TypeOK, LinkInv, NewsInv, [Next]_vars PROVE NewsInv'
<1>1. ASSUME UNCHANGED <<inbox, missed, session>>, Present' = Present PROVE NewsInv'
  BY <1>1 DEF NewsInv
<1>2. ASSUME UNCHANGED <<inbox, missed, session, nodeTable>> PROVE NewsInv'
  BY <1>1, <1>2 DEF Present
<1>3. CASE HandleMessage
  BY <1>3, HandledMessage
<1>4. CASE LoseLink
  <2>1. inbox \in Seq(News) /\ \A n \in Nodes \ missed : Told(n, inbox, Present, session[n])
    BY DEF TypeOK, LinkTypeOK, NewsInv
  <2> QED
    BY <1>4, <2>1, LinkDrops DEF LoseLink
<1>5. ASSUME NEW n \in Nodes, NodeServer(n) \/ Misfortune(n), UNCHANGED bvars PROVE NewsInv'
  BY <1>2, <1>5
  DEF NodeServer, Misfortune, Start, Reconnect, Connect, HandleMail, Interrupt, LinkLost, Crash, Lost, bvars
<1>6. ASSUME NEW n \in Nodes, Broker(n), UNCHANGED bvars PROVE NewsInv'
  BY <1>6, BrokerNewsStep DEF bvars
<1>7. ASSUME NEW target \in Targets, Eject(target) PROVE NewsInv'
  <2>1. PICK n \in Nodes : NodesByName(target) = {n} /\ nodeTable' = [nodeTable EXCEPT ![n] = "ejected"]
    BY <1>7 DEF Eject
  <2>2. n \in Present
    BY <2>1 DEF NodesByName
  <2>3. Present' = Present
    BY <2>1, <2>2 DEF Present, TypeOK
  <2> QED
    BY <1>1, <1>7, <2>3 DEF Eject
<1>8. CASE Dial \/ Subscribe \/ PingGrid
  BY <1>2, <1>8 DEF Dial, Subscribe, PingGrid, lvars
<1>9. ASSUME NEW u \in Users, Choose(u) \/ Submit(u) \/ NoReply(u) PROVE NewsInv'
  BY <1>2, <1>9 DEF Choose, Submit, NoReply, lvars
<1>10. ASSUME NEW target \in Targets, Reload(target) PROVE NewsInv'
  BY <1>2, <1>10 DEF Reload, bvars
<1>11. ASSUME NEW u \in Users, NEW target \in Targets, SetLocus(u, target) PROVE NewsInv'
  BY <1>2, <1>11 DEF SetLocus, lvars
<1>12. CASE UNCHANGED vars
  BY <1>2, <1>12 DEF vars, lvars, bvars
<1> QED
  BY <1>3, <1>4, <1>5, <1>6, <1>7, <1>8, <1>9, <1>10, <1>11, <1>12 DEF Next, MqttTask, Commands, Grid

LEMMA NewsInit == Init => NewsInv
BY DEF Init, LinkInit, NewsInv, Told, NoNews, Present

\* Apart from news under way or missed, the table lists who has announced itself.
THEOREM TableStaysCurrent == Spec => []TableIsCurrent
<1>1. TypeOK /\ NewsInv => TableIsCurrent
  <2> SUFFICES ASSUME TypeOK, NewsInv, NEW n \in Nodes, Pending(n) = {}, n \notin missed
               PROVE  n \in Present <=> "announced" \in session[n]
    BY DEF TableIsCurrent
  <2>1. NoNews(inbox, n)
    BY DEF TypeOK, LinkTypeOK, NoNews, IsNews, Pending
  <2> QED
    BY <2>1 DEF NewsInv, Told
<1> QED
  BY <1>1, NewsInit, NewsStep, LinkIsOK, RegistryTypeCorrect, PTL DEF Spec

=============================================================================
