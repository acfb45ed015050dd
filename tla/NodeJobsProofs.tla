-------------------------- MODULE NodeJobsProofs --------------------------
(***************************************************************************)
(* Type correctness of NodeJobs, and the safety of its children and script *)
(* files, for every number of slots, process ids and descriptors.          *)
(***************************************************************************)
EXTENDS NodeJobs, TLAPS

USE DEF Slots, Outputs, Closed, Leaked, NoFd, NoPid, Stray

Entry == [running : BOOLEAN, job_id : Nat, job_pid : Pids \cup {NoPid},
          tty : BOOLEAN, job_stdin : Fds \cup {NoFd},
          job_stdout : Fds \cup {NoFd}, job_stderr : Fds \cup {NoFd}]

\* The kernel's half of the type invariant, and the server's.
OsTypeOK ==
  /\ proc \in [Pids -> {"free", "forked", "session", "zombie", "foreign"}]
  /\ bg \in [Pids -> BOOLEAN]
  /\ holders \in [Chans -> SUBSET (Procs \cup {Unopened})]
  /\ heirs \in [Slots -> SUBSET Procs]
  /\ unread \in [Chans -> 0..MaxUnread]
  /\ inq \in [Slots -> 0..MaxUnread]

ServerTypeOK ==
  /\ pc \in {<<"mqtt", 0>>, <<"down", 0>>}
             \cup ({"poll", "check", "collect", "write"} \X Slots)
  /\ table \in [Slots -> Entry]
  /\ ofile \in [Fds -> Chans \cup {Closed, Leaked}]
  /\ jidCounter \in Nat
  /\ pub \in Seq([kind : MessageKinds, jids : SUBSET Nat])
  /\ scripts \subseteq Slots \cup {Stray}

LEMMA TypeSplit == TypeOK <=> OsTypeOK /\ ServerTypeOK
BY DEF TypeOK, OsTypeOK, ServerTypeOK, Entry

\* A process death leaves the kernel's variables well typed.
LEMMA PerishType ==
  ASSUME OsTypeOK, NEW D, Perish(D)
  PROVE  /\ proc' \in [Pids -> {"free", "forked", "session", "zombie", "foreign"}]
         /\ bg' \in [Pids -> BOOLEAN]
         /\ holders' \in [Chans -> SUBSET (Procs \cup {Unopened})]
         /\ heirs' \in [Slots -> SUBSET Procs]
BY DEF OsTypeOK, Perish

\* Messages are well typed.
LEMMA MessageType ==
  ASSUME NEW kind \in MessageKinds, NEW jids \in SUBSET Nat
  PROVE  <<Message(kind, jids)>> \in Seq([kind : MessageKinds, jids : SUBSET Nat])
BY DEF Message

\* The environment keeps the type invariant.
LEMMA EnvironmentType == OsTypeOK /\ ServerTypeOK /\ Environment => (OsTypeOK /\ ServerTypeOK)'
<1> SUFFICES ASSUME OsTypeOK, ServerTypeOK, Environment PROVE (OsTypeOK /\ ServerTypeOK)'
  OBVIOUS
<1>1. ASSUME Unheard PROVE ServerTypeOK'
  BY <1>1 DEF Unheard, ServerTypeOK
<1>2. ASSUME NEW p \in Pids, Setsid(p) PROVE (OsTypeOK /\ ServerTypeOK)'
  BY <1>1, <1>2 DEF Setsid, OsTypeOK
<1>3. ASSUME NEW p \in Pids, ForkBackground(p) PROVE (OsTypeOK /\ ServerTypeOK)'
  BY <1>1, <1>3 DEF ForkBackground, OsTypeOK, Background, Procs
<1>4. ASSUME NEW p \in Pids, ForeignStarts(p) PROVE (OsTypeOK /\ ServerTypeOK)'
  BY <1>1, <1>4 DEF ForeignStarts, OsTypeOK
<1>5. ASSUME NEW p \in Pids, ForeignExits(p) PROVE (OsTypeOK /\ ServerTypeOK)'
  BY <1>1, <1>5 DEF ForeignExits, OsTypeOK
<1>6. ASSUME NEW s \in Slots, OpenReplica(s) PROVE (OsTypeOK /\ ServerTypeOK)'
  <2>1. table[s].job_pid \in Pids
    BY <1>6 DEF OpenReplica, ServerTypeOK, Entry
  <2>2. Leader(table[s].job_pid) \in Procs
    BY <2>1 DEF Leader, Procs
  <2> QED
    BY <1>1, <1>6, <2>2 DEF OpenReplica, OsTypeOK
<1>7. ASSUME NEW s \in Slots, ReadStdin(s) PROVE (OsTypeOK /\ ServerTypeOK)'
  <2>1. inq[s] - 1 \in 0..MaxUnread
    BY <1>7, BoundsAssumption DEF ReadStdin, OsTypeOK
  <2>2. inq' \in [Slots -> 0..MaxUnread]
    BY <1>7, <2>1 DEF ReadStdin, OsTypeOK
  <2> QED
    BY <1>1, <1>7, <2>2 DEF ReadStdin, OsTypeOK
<1>8. ASSUME NEW c \in Chans, WriteOutput(c) PROVE (OsTypeOK /\ ServerTypeOK)'
  <2>1. unread[c] + 1 \in 0..MaxUnread
    BY <1>8, BoundsAssumption DEF WriteOutput, OsTypeOK
  <2>2. unread' \in [Chans -> 0..MaxUnread]
    BY <1>8, <2>1 DEF WriteOutput, OsTypeOK
  <2> QED
    BY <1>1, <1>8, <2>2 DEF WriteOutput, OsTypeOK
<1>9. ASSUME NEW c \in Chans, NEW x \in Procs, CloseChannel(c, x)
      PROVE (OsTypeOK /\ ServerTypeOK)'
  BY <1>1, <1>9 DEF CloseChannel, OsTypeOK
<1>10. ASSUME NEW x \in Procs, ProcessExits(x) PROVE (OsTypeOK /\ ServerTypeOK)'
  BY <1>1, <1>10, PerishType DEF ProcessExits, OsTypeOK
<1> QED
  BY <1>2, <1>3, <1>4, <1>5, <1>6, <1>7, <1>8, <1>9, <1>10 DEF Environment

\* Statuses and announcements are well typed.
Pubs == Seq([kind : MessageKinds, jids : SUBSET Nat])

LEMMA StatusType == ASSUME NEW kind \in MessageKinds, NEW j \in Nat
                    PROVE  Status(kind, j) \in Pubs
BY MessageType DEF Status, Pubs

LEMMA KnownPubs == /\ <<>> \in Pubs
                   /\ Announce \in Pubs
                   /\ Farewell \in Pubs
BY MessageType DEF Announce, Farewell, Pubs, MessageKinds

LEMMA EntryOfEmpty == EmptyJob \in Entry
BY DEF EmptyJob, Entry

LEMMA EntryUpdates ==
  ASSUME NEW e \in Entry
  PROVE  /\ [e EXCEPT !.job_stdin = NoFd] \in Entry
         /\ [e EXCEPT !.job_pid = NoPid, !.job_stdin = NoFd] \in Entry
         /\ \A o, r \in Fds \cup {NoFd} :
              [e EXCEPT !.job_stdout = o, !.job_stderr = r] \in Entry
BY DEF Entry

LEMMA TwoPubs == ASSUME NEW a \in Pubs, NEW b \in Pubs PROVE a \o b \in Pubs
BY DEF Pubs

\* Descriptors that spawn_job ends up with were free, and differ.
LEMMA WiringsAreFree ==
  ASSUME NEW tty \in BOOLEAN, NEW fds \in Wirings(tty)
  PROVE  /\ fds.out \in FreeFds /\ fds.in \in FreeFds
         /\ fds.err \in FreeFds \cup {NoFd}
         /\ tty <=> fds.err = NoFd
         /\ fds.out # fds.in /\ fds.out # fds.err /\ fds.in # fds.err
<1>1. /\ NoFd \notin FreeFds
      /\ \A n : NthFree(n) \subseteq FreeFds
      /\ \A f, m, n : f \in NthFree(m) /\ f \in NthFree(n) => m = n
  BY FdsAssumption DEF FreeFds, NthFree
<1>2. CASE tty
  <2>1. PICK m \in NthFree(0), d \in NthFree(1) : fds = [out |-> m, err |-> NoFd, in |-> d]
    BY <1>2 DEF Wirings
  <2> QED
    BY <1>1, <1>2, <2>1
<1>3. CASE ~tty
  <2>1. PICK r \in NthFree(0), e \in NthFree(2), w \in NthFree(5) :
          fds = [out |-> r, err |-> e, in |-> w]
    BY <1>3 DEF Wirings
  <2> QED
    BY <1>1, <1>3, <2>1
<1> QED
  BY <1>2, <1>3

LEMMA FreeAreFds == FreeFds \subseteq Fds
BY DEF FreeFds

\* Submitting a job keeps the type invariant.
LEMMA SubmitType ==
  ASSUME OsTypeOK, ServerTypeOK, NEW j \in Nat, NEW tty \in BOOLEAN, NEW before \in Pubs,
         SubmitJob(j, tty, before), jidCounter' \in Nat
  PROVE  (OsTypeOK /\ ServerTypeOK)'
<1>1. /\ before \o Status("reject", j) \in Pubs
      /\ before \o Status("startup", j) \in Pubs
  BY StatusType DEF Pubs, MessageKinds
<1>2. CASE NoScript(j, before)
  BY <1>1, <1>2 DEF NoScript, os, OsTypeOK, ServerTypeOK, Pubs
<1>3. CASE NoSlot(j, before)
  BY <1>1, <1>3 DEF NoSlot, os, OsTypeOK, ServerTypeOK, Pubs
<1>4. CASE NoTransport(j, tty, before)
  BY <1>1, <1>4 DEF NoTransport, os, OsTypeOK, ServerTypeOK, Pubs
<1>5. CASE NoFork(j, tty, before)
  BY <1>1, <1>5 DEF NoFork, os, OsTypeOK, ServerTypeOK, Pubs
<1>6. CASE Spawned(j, tty, before)
  <2>1. PICK s \in EmptySlot, p \in FreePids, fds \in Wirings(tty) :
          /\ table' = [table EXCEPT ![s] = Entered(j, tty, p, fds)]
          /\ ofile' = Wired(s, fds)
          /\ proc' = [proc EXCEPT ![p] = "forked"]
          /\ holders' = [c \in Chans |->
               IF c[1] # s THEN holders[c]
               ELSE IF ~tty THEN {Leader(p)}
               ELSE IF c[2] = "out" THEN {Unopened} ELSE {}]
          /\ heirs' = [t \in Slots |->
               IF t = s THEN IF tty THEN {Leader(p)} ELSE {}
               ELSE IF Active(t) /\ table[t].job_stdin # NoFd THEN heirs[t] \cup {Leader(p)}
               ELSE heirs[t]]
          /\ unread' = [c \in Chans |-> IF c[1] = s THEN 0 ELSE unread[c]]
          /\ inq' = [inq EXCEPT ![s] = 0]
          /\ scripts' = scripts \cup {s}
    BY <1>6, ZenonT(60) DEF Spawned
  <2>2. s \in Slots /\ p \in Pids
    BY DEF EmptySlot, First, FreePids
  <2>3. /\ fds.out \in Fds /\ fds.in \in Fds /\ fds.err \in Fds \cup {NoFd}
    BY WiringsAreFree, FreeAreFds
  <2>4. Entered(j, tty, p, fds) \in Entry
    BY <2>2, <2>3 DEF Entry, Entered
  <2>5. table' \in [Slots -> Entry]
    BY <2>1, <2>2, <2>4 DEF ServerTypeOK
  <2>6. Leader(p) \in Procs /\ \A ch \in {"in", "out", "err"} : <<s, ch>> \in Chans
    BY <2>2 DEF Leader, Procs, Chans
  <2>7. ofile' \in [Fds -> Chans \cup {Closed, Leaked}]
    BY <2>1, <2>6 DEF ServerTypeOK, Wired
  <2>8. OsTypeOK'
    <3>1. /\ proc' \in [Pids -> {"free", "forked", "session", "zombie", "foreign"}]
          /\ bg' \in [Pids -> BOOLEAN]
      <4>1. bg' = bg
        BY <1>6 DEF Spawned
      <4> QED
        BY <2>1, <2>2, <4>1 DEF OsTypeOK
    <3>2. holders' \in [Chans -> SUBSET (Procs \cup {Unopened})]
      BY <2>1, <2>6 DEF OsTypeOK
    <3>3. heirs' \in [Slots -> SUBSET Procs]
      BY <2>1, <2>6 DEF OsTypeOK
    <3>4. unread' \in [Chans -> 0..MaxUnread] /\ inq' \in [Slots -> 0..MaxUnread]
      BY <2>1, <2>2, BoundsAssumption DEF OsTypeOK
    <3> QED
      BY <3>1, <3>2, <3>3, <3>4 DEF OsTypeOK
  <2>9. pc' = pc /\ pub' = before \o Status("startup", j)
    BY <1>6 DEF Spawned
  <2> QED
    BY <1>1, <2>1, <2>2, <2>5, <2>7, <2>8, <2>9 DEF ServerTypeOK, Pubs
<1> QED
  BY <1>2, <1>3, <1>4, <1>5, <1>6 DEF SubmitJob

LEMMA OnSubmitJobType ==
  ASSUME OsTypeOK, ServerTypeOK, NEW jid \in Jids, NEW payload \in Payloads,
         OnSubmitJob(jid, payload)
  PROVE  (OsTypeOK /\ ServerTypeOK)'
<1>1. jid \in Nat /\ jidCounter \in Nat /\ jidCounter' \in Nat
  BY JidsAssumption DEF OnSubmitJob, ServerTypeOK
<1>2. payload \in PayloadKinds /\ payload # "script_tty_noterm"
  BY InputsAssumption DEF OnSubmitJob
<1>3. PICK tty \in TtyWanted(payload) :
        SubmitJob(IF jid = 0 THEN jidCounter ELSE jid, tty, Objection(payload, jid))
  BY DEF OnSubmitJob
<1>4. tty \in BOOLEAN
  BY <1>2, <1>3 DEF TtyWanted, PayloadKinds
<1>5. Objection(payload, jid) \in Pubs
  BY <1>1, StatusType, KnownPubs DEF Objection, MessageKinds
<1> QED
  BY <1>1, <1>3, <1>4, <1>5, SubmitType

\* Commands about jobs keep the type invariant.
LEMMA CommandType ==
  ASSUME OsTypeOK, ServerTypeOK, NEW j \in Nat,
         StdinWrite(j) \/ StdinEof(j) \/ Signal(j)
  PROVE  (OsTypeOK /\ ServerTypeOK)'
<1>1. CASE StdinWrite(j)
  <2>1. UNCHANGED <<table, ofile, jidCounter, scripts, proc, bg, holders, heirs, unread>>
    BY <1>1 DEF StdinWrite
  <2>2. \A s \in Listening(j) : s \in Slots /\ StdinOf(s) \in Slots
    <3>1. ASSUME NEW s \in Listening(j) PROVE ofile[table[s].job_stdin] \in Chans
      BY <3>1 DEF Listening
    <3> QED
      BY <3>1 DEF Listening, JobWithJid, First, StdinOf, Chans
  <2>3. CASE StdinRefused(j)
    BY <2>1, <2>3, KnownPubs DEF StdinRefused, OsTypeOK, ServerTypeOK, Pubs
  <2>4. CASE StdinTaken(j)
    BY <2>1, <2>2, <2>4, KnownPubs, BoundsAssumption
    DEF StdinTaken, OsTypeOK, ServerTypeOK, Pubs
  <2>5. CASE StdinFull(j)
    <3>1. pub' \in Pubs /\ inq' = inq
      BY <2>5, KnownPubs DEF StdinFull
    <3>2. pc' = pc \/ \E s \in Slots : pc' = <<"write", s>>
      BY <2>2, <2>5 DEF StdinFull
    <3> QED
      BY <2>1, <3>1, <3>2 DEF OsTypeOK, ServerTypeOK, Pubs
  <2> QED
    BY <1>1, <2>3, <2>4, <2>5 DEF StdinWrite
<1>2. CASE StdinEof(j)
  <2>1. /\ UNCHANGED <<pc, jidCounter, scripts, proc, bg, holders, heirs, unread, inq>>
        /\ pub' \in Pubs
    BY <1>2, KnownPubs DEF StdinEof, os
  <2>2. /\ table' \in [Slots -> Entry]
        /\ ofile' \in [Fds -> Chans \cup {Closed, Leaked}]
    <3>1. CASE UNCHANGED <<table, ofile>>
      BY <3>1 DEF ServerTypeOK
    <3>2. ASSUME NEW s \in Slots,
                 ofile' = [ofile EXCEPT ![table[s].job_stdin] = Closed],
                 table' = [table EXCEPT ![s] = AfterEof(s)]
          PROVE  /\ table' \in [Slots -> Entry]
                 /\ ofile' \in [Fds -> Chans \cup {Closed, Leaked}]
      <4>1. AfterEof(s) \in Entry
        BY EntryUpdates DEF AfterEof, ServerTypeOK
      <4> QED
        BY <3>2, <4>1 DEF ServerTypeOK
    <3> QED
      BY <1>2, <3>1, <3>2 DEF StdinEof, JobWithJid, First
  <2> QED
    BY <2>1, <2>2 DEF OsTypeOK, ServerTypeOK, Pubs
<1>3. CASE Signal(j)
  <2>1. /\ UNCHANGED <<pc, table, ofile, jidCounter, scripts, unread, inq>>
        /\ pub' \in Pubs
        /\ UNCHANGED <<proc, bg, holders, heirs>> \/ \E D : Perish(D)
    BY <1>3, KnownPubs DEF Signal, os
  <2> QED
    BY <2>1, PerishType DEF OsTypeOK, ServerTypeOK, Pubs
<1> QED
  BY <1>1, <1>2, <1>3

\* The end of the server leaves well-typed variables behind.
LEMMA GoneType ==
  ASSUME OsTypeOK, ServerTypeOK, Gone, pub' \in Pubs
  PROVE  (OsTypeOK /\ ServerTypeOK)'
BY EntryOfEmpty, JidsAssumption, BoundsAssumption
DEF Gone, OsTypeOK, ServerTypeOK, Pubs

\* Every message that arrives is handled without breaking the type invariant.
LEMMA RouteType == OsTypeOK /\ ServerTypeOK /\ RouteMessage => (OsTypeOK /\ ServerTypeOK)'
<1> SUFFICES ASSUME OsTypeOK, ServerTypeOK, RouteMessage PROVE (OsTypeOK /\ ServerTypeOK)'
  OBVIOUS
<1>1. CASE \E j \in Jids, payload \in Payloads : OnSubmitJob(j, payload)
  BY <1>1, OnSubmitJobType
<1>2. CASE \E j \in Jids : StdinWrite(j) \/ StdinEof(j) \/ Signal(j)
  BY <1>2, CommandType, JidsAssumption
<1>3. CASE TtyWithoutTerm \/ Exit
  BY <1>3, GoneType, KnownPubs DEF TtyWithoutTerm, Exit
<1>4. CASE Scram
  BY <1>4, PerishType, KnownPubs DEF Scram, OsTypeOK, ServerTypeOK, Pubs
<1>5. CASE Reload
  <2>1. UNCHANGED <<pc, proc, bg, holders, heirs, unread, inq>> /\ pub' \in Pubs
    BY <1>5, KnownPubs DEF Reload, os
  <2>2. /\ table' \in [Slots -> Entry]
        /\ ofile' \in [Fds -> Chans \cup {Closed, Leaked}]
        /\ jidCounter' \in Nat
        /\ scripts' \subseteq Slots \cup {Stray}
    BY <1>5, EntryOfEmpty, JidsAssumption DEF Reload, ServerTypeOK
  <2> QED
    BY <2>1, <2>2 DEF OsTypeOK, ServerTypeOK, Pubs
<1>6. CASE Ping \/ RollCall
  <2>1. \A s \in Slots : table[s].job_id \in Nat
    BY DEF ServerTypeOK, Entry
  <2>2. pub' \in Pubs
    BY <1>6, <2>1, MessageType DEF Ping, RollCall, ActiveJids, MessageKinds, Pubs
  <2> QED
    BY <1>6, <2>2 DEF Ping, RollCall, os, OsTypeOK, ServerTypeOK, Pubs
<1> QED
  BY <1>1, <1>2, <1>3, <1>4, <1>5, <1>6 DEF RouteMessage

\* So does the pass over the job table.
LEMMA LoopType == OsTypeOK /\ ServerTypeOK /\ ServerLoop => (OsTypeOK /\ ServerTypeOK)'
<1> SUFFICES ASSUME OsTypeOK, ServerTypeOK, ServerLoop PROVE (OsTypeOK /\ ServerTypeOK)'
  OBVIOUS
<1> DEFINE Places == {<<"mqtt", 0>>, <<"down", 0>>}
                     \cup ({"poll", "check", "collect", "write"} \X Slots)
<1>1. \A i \in Nat \ {0} : Visit(i) \subseteq Places
  BY JobsAssumption DEF Visit, First
<1>2. CASE EndMqtt
  BY <1>1, <1>2, KnownPubs DEF EndMqtt, os, OsTypeOK, ServerTypeOK, Pubs
<1>3. ASSUME NEW s \in Slots, PollJobOutput(s) PROVE (OsTypeOK /\ ServerTypeOK)'
  <2>1. UNCHANGED <<jidCounter, scripts, proc, bg, holders, heirs, inq>>
        /\ pc' \in Places
    BY <1>3 DEF PollJobOutput
  <2>2. table[s].job_id \in Nat
    BY DEF ServerTypeOK, Entry
  <2>3. pub' \in Pubs
    <3>1. \A fd : Heard(s, fd) \in Pubs
      BY <2>2, StatusType, KnownPubs DEF Heard, MessageKinds
    <3> QED
      BY <1>3, <3>1, TwoPubs DEF PollJobOutput
  <2>4. unread' \in [Chans -> 0..MaxUnread]
    <3>1. \A c \in Readable(s) : c \in Chans /\ unread[c] > 0
      BY DEF Readable, Polled
    <3> QED
      BY <1>3, <3>1, BoundsAssumption DEF PollJobOutput, OsTypeOK
  <2>5. table' \in [Slots -> Entry]
    <3>1. /\ table[s] \in Entry
          /\ \A fd \in Fds \cup {NoFd} : Kept(s, fd) \in Fds \cup {NoFd}
          /\ table[s].job_stdout \in Fds \cup {NoFd} /\ table[s].job_stderr \in Fds \cup {NoFd}
      BY DEF ServerTypeOK, Entry, Kept
    <3>2. AfterPoll(s) \in Entry
      BY <3>1, EntryUpdates DEF AfterPoll
    <3> QED
      BY <1>3, <3>2 DEF PollJobOutput, ServerTypeOK
  <2>6. ofile' \in [Fds -> Chans \cup {Closed, Leaked}]
    BY <1>3 DEF PollJobOutput, ServerTypeOK
  <2> QED
    BY <2>1, <2>3, <2>4, <2>5, <2>6 DEF OsTypeOK, ServerTypeOK, Pubs
<1>4. ASSUME NEW s \in Slots, CheckJobSubprocess(s) PROVE (OsTypeOK /\ ServerTypeOK)'
  <2>1. /\ UNCHANGED <<jidCounter, scripts, bg, holders, heirs, unread, inq>>
        /\ pc' \in Places /\ pub' \in Pubs
    BY <1>4, KnownPubs DEF CheckJobSubprocess
  <2>2. /\ table' \in [Slots -> Entry]
        /\ ofile' \in [Fds -> Chans \cup {Closed, Leaked}]
        /\ proc' \in [Pids -> {"free", "forked", "session", "zombie", "foreign"}]
    <3>1. AfterWait(s) \in Entry
      BY EntryUpdates DEF AfterWait, ServerTypeOK
    <3>2. table[s].job_pid \in Pids \cup {NoPid}
      BY DEF ServerTypeOK, Entry
    <3>3. CASE UNCHANGED <<table, ofile, proc>>
      BY <3>3 DEF OsTypeOK, ServerTypeOK
    <3>4. CASE /\ table' = [table EXCEPT ![s] = AfterWait(s)]
               /\ ofile' = [f \in Fds |-> IF f = table[s].job_stdin THEN Closed ELSE ofile[f]]
               /\ proc' = [proc EXCEPT ![table[s].job_pid] =
                             IF @ = "zombie" THEN "free" ELSE @]
      BY <3>1, <3>2, <3>4 DEF OsTypeOK, ServerTypeOK
    <3> QED
      BY <1>4, <3>3, <3>4 DEF CheckJobSubprocess
  <2> QED
    BY <2>1, <2>2 DEF OsTypeOK, ServerTypeOK, Pubs
<1>5. ASSUME NEW s \in Slots, CollectJob(s) PROVE (OsTypeOK /\ ServerTypeOK)'
  <2>1. /\ pc' \in Places
    BY <1>1, <1>5 DEF CollectJob
  <2>2. table[s].job_id \in Nat
    BY DEF ServerTypeOK, Entry
  <2>3. pub' \in Pubs
    BY <1>5, <2>2, StatusType, KnownPubs DEF CollectJob, MessageKinds
  <2>4. table' \in [Slots -> Entry]
    BY <1>5, EntryOfEmpty DEF CollectJob, ServerTypeOK
  <2> QED
    BY <1>5, <2>1, <2>3, <2>4 DEF CollectJob, os, OsTypeOK, ServerTypeOK, Pubs
<1> QED
  BY <1>2, <1>3, <1>4, <1>5 DEF ServerLoop

\* Variables hold values of their types in every reachable state.
THEOREM TypeCorrect == Spec => []TypeOK
<1>1. Init => OsTypeOK /\ ServerTypeOK
  BY KnownPubs, EntryOfEmpty, JidsAssumption, BoundsAssumption
  DEF Init, OsTypeOK, ServerTypeOK, Pubs
<1>2. (OsTypeOK /\ ServerTypeOK) /\ [Next]_vars => (OsTypeOK /\ ServerTypeOK)'
  <2> SUFFICES ASSUME OsTypeOK, ServerTypeOK, [Next]_vars PROVE (OsTypeOK /\ ServerTypeOK)'
    OBVIOUS
  <2>1. CASE RouteMessage
    BY <2>1, RouteType
  <2>2. CASE ServerLoop
    BY <2>2, LoopType
  <2>3. CASE Environment
    BY <2>3, EnvironmentType
  <2>4. CASE \E s \in Slots : StdinUnblocked(s)
    <3>1. /\ UNCHANGED <<table, ofile, jidCounter, scripts, proc, bg, holders, heirs, unread>>
          /\ pc' = <<"mqtt", 0>> /\ pub' \in Pubs
      BY <2>4, KnownPubs DEF StdinUnblocked
    <3>2. inq' \in [Slots -> 0..MaxUnread]
      BY <2>4, BoundsAssumption DEF StdinUnblocked, OsTypeOK
    <3> QED
      BY <3>1, <3>2 DEF OsTypeOK, ServerTypeOK, Pubs
  <2>5. CASE ServerStops
    BY <2>5, GoneType, KnownPubs DEF ServerStops, Interrupt, Die
  <2>6. CASE Start
    BY <2>6, MessageType DEF Start, os, OsTypeOK, ServerTypeOK, MessageKinds
  <2>7. CASE UNCHANGED vars
    BY <2>7 DEF vars, OsTypeOK, ServerTypeOK
  <2> QED
    BY <2>1, <2>2, <2>3, <2>4, <2>5, <2>6, <2>7 DEF Next
<1> QED
  BY <1>1, <1>2, TypeSplit, PTL DEF Spec

---------------------------------------------------------------------------
(* Children                                                                *)

\* A death only turns processes in a session of their own into zombies, so it
\* takes no child of the server away and adds none.
LEMMA PerishKeepsOurs ==
  ASSUME OsTypeOK, NEW P \in SUBSET Pids, NEW D \in SUBSET Members(P), Perish(D)
  PROVE  \A p \in Pids : Ours(p)' <=> Ours(p)
BY DEF OsTypeOK, Perish, Members, Ours, Leader, Background

\* ChildrenTracked is a statement about the process ids of the table, which
\* entries are active, and which processes are ours.
LEMMA ChildrenSame ==
  ASSUME ChildrenTracked,
         \A s \in Slots : /\ table'[s].job_pid = table[s].job_pid
                          /\ table'[s].running = table[s].running,
         \A p \in Pids : Ours(p)' <=> Ours(p),
         ServerTypeOK
  PROVE  ChildrenTracked'
<1>1. \A s \in Slots : table[s].job_pid \in Pids \cup {NoPid}
  BY DEF ServerTypeOK, Entry
<1> QED
  BY <1>1 DEF ChildrenTracked, Active

\* In the next state entry t is active and names a child of the server.
TrackedNext(t) == /\ table'[t].running
                  /\ proc'[table'[t].job_pid] \in {"forked", "session", "zombie"}

LEMMA TrackedIsActive ==
  ASSUME \A t \in Slots : table'[t].job_pid # NoPid => TrackedNext(t),
         \A q \in Pids : Ours(q)' => \E t \in Slots : table'[t].job_pid = q,
         \A t, u \in Slots : table'[t].job_pid = table'[u].job_pid /\ t # u
                              => table'[t].job_pid = NoPid
  PROVE  ChildrenTracked'
BY DEF ChildrenTracked, TrackedNext, Active, Ours

LEMMA SubmitChildren ==
  ASSUME OsTypeOK, ServerTypeOK, ChildrenTracked,
         NEW j, NEW tty \in BOOLEAN, NEW before, SubmitJob(j, tty, before)
  PROVE  ChildrenTracked'
<1>1. CASE NoScript(j, before) \/ NoSlot(j, before) \/ NoTransport(j, tty, before)
           \/ NoFork(j, tty, before)
  BY <1>1, ChildrenSame DEF NoScript, NoSlot, NoTransport, NoFork, os, Ours
<1>2. CASE Spawned(j, tty, before)
  <2>1. PICK s \in EmptySlot, p \in FreePids, fds \in Wirings(tty) :
          /\ table' = [table EXCEPT ![s] = Entered(j, tty, p, fds)]
          /\ proc' = [proc EXCEPT ![p] = "forked"]
    BY <1>2 DEF Spawned
  <2>2. s \in Slots /\ p \in Pids /\ ~Active(s) /\ ~Ours(p) /\ p # NoPid
    BY PidsAssumption DEF EmptySlot, First, FreePids, Ours
  <2>3. /\ table'[s].job_pid = p /\ table'[s].running
        /\ \A t \in Slots \ {s} : table'[t] = table[t]
        /\ \A q \in Pids : Ours(q)' <=> (Ours(q) \/ q = p)
    BY <2>1, <2>2 DEF OsTypeOK, ServerTypeOK, Ours, Entered
  <2>4. table[s].job_pid = NoPid /\ \A t \in Slots : table[t].job_pid # p
    BY <2>2 DEF ChildrenTracked
  <2>5. \A t \in Slots : table[t].job_pid \in Pids \cup {NoPid}
    BY DEF ServerTypeOK, Entry
  <2>6. \A t \in Slots : table'[t].job_pid # NoPid => TrackedNext(t)
    BY <2>1, <2>2, <2>3, <2>5 DEF ChildrenTracked, Active, Ours, OsTypeOK, TrackedNext
  <2>7. \A q \in Pids : Ours(q)' => \E t \in Slots : table'[t].job_pid = q
    <3> SUFFICES ASSUME NEW q \in Pids, Ours(q)' PROVE \E t \in Slots : table'[t].job_pid = q
      OBVIOUS
    <3>1. CASE q = p
      BY <2>2, <2>3, <3>1
    <3>2. CASE q # p
      <4>1. PICK t \in Slots : table[t].job_pid = q
        BY <2>3, <3>2 DEF ChildrenTracked
      <4>2. t # s
        BY <2>4, <4>1, PidsAssumption
      <4> QED
        BY <2>3, <4>1, <4>2
    <3> QED
      BY <3>1, <3>2
  <2>8. \A t, u \in Slots : table'[t].job_pid = table'[u].job_pid /\ t # u
                            => table'[t].job_pid = NoPid
    BY <2>2, <2>3, <2>4 DEF ChildrenTracked
  <2> QED
    BY <2>6, <2>7, <2>8, TrackedIsActive
<1> QED
  BY <1>1, <1>2 DEF SubmitJob

\* With every entry empty and no child of ours there is nothing to track.
LEMMA ChildrenNone ==
  ASSUME table' = [s \in Slots |-> EmptyJob], \A p \in Pids : ~Ours(p)'
  PROVE  ChildrenTracked'
BY DEF EmptyJob, ChildrenTracked

LEMMA GoneChildren == ASSUME OsTypeOK, Gone PROVE ChildrenTracked'
BY ChildrenNone DEF Gone, OsTypeOK, Ours

LEMMA RouteChildren ==
  ASSUME OsTypeOK, ServerTypeOK, ChildrenTracked, RouteMessage
  PROVE  ChildrenTracked'
<1>1. ASSUME NEW jid \in Jids, NEW payload \in Payloads, OnSubmitJob(jid, payload)
      PROVE ChildrenTracked'
  <2>1. payload \in PayloadKinds /\ payload # "script_tty_noterm"
    BY <1>1, InputsAssumption DEF OnSubmitJob
  <2>2. PICK tty \in TtyWanted(payload) : \E j, before : SubmitJob(j, tty, before)
    BY <1>1 DEF OnSubmitJob
  <2>3. tty \in BOOLEAN
    BY <2>1 DEF TtyWanted, PayloadKinds
  <2> QED
    BY <2>2, <2>3, SubmitChildren
<1>2. ASSUME NEW j \in Jids, StdinWrite(j) PROVE ChildrenTracked'
  BY <1>2, ChildrenSame DEF StdinWrite, Ours
<1>3. ASSUME NEW j \in Jids, StdinEof(j) PROVE ChildrenTracked'
  <2>1. proc' = proc
    BY <1>3 DEF StdinEof, os
  <2>2. \A s \in Slots : /\ table'[s].job_pid = table[s].job_pid
                         /\ table'[s].running = table[s].running
    <3>1. CASE UNCHANGED table
      BY <3>1
    <3>2. ASSUME NEW t \in Slots, table' = [table EXCEPT ![t] = AfterEof(t)]
          PROVE \A s \in Slots : /\ table'[s].job_pid = table[s].job_pid
                                 /\ table'[s].running = table[s].running
      BY <3>2 DEF AfterEof, ServerTypeOK, Entry
    <3> QED
      BY <1>3, <3>1, <3>2 DEF StdinEof, JobWithJid, First
  <2> QED
    BY <2>1, <2>2, ChildrenSame DEF Ours
<1>4. ASSUME NEW j \in Jids, Signal(j) PROVE ChildrenTracked'
  <2>1. table' = table
    BY <1>4 DEF Signal
  <2>2. CASE UNCHANGED os
    BY <2>1, <2>2, ChildrenSame DEF os, Ours
  <2>3. ASSUME NEW P, NEW D, P \subseteq {table[s].job_pid : s \in JobWithJid(j)} \ {NoPid},
               D \in {{}, Members(P)}, Perish(D)
        PROVE ChildrenTracked'
    <3>1. P \in SUBSET Pids
      BY <2>3 DEF JobWithJid, First, ServerTypeOK, Entry
    <3>2. D \in SUBSET Members(P)
      BY <2>3
    <3> QED
      BY <2>1, <2>3, <3>1, <3>2, PerishKeepsOurs, ChildrenSame
  <2> QED
    BY <1>4, <2>2, <2>3 DEF Signal
<1>5. CASE Scram
  <2>1. table' = table
    BY <1>5 DEF Scram
  <2>2. KillJob({s \in Slots : Active(s)}) \in SUBSET Pids
    BY DEF KillJob, ServerTypeOK, Entry
  <2> QED
    BY <1>5, <2>1, <2>2, PerishKeepsOurs, ChildrenSame DEF Scram
<1>6. CASE Reload
  <2>1. proc' = proc
    BY <1>6 DEF Reload, os
  <2>2. CASE UNCHANGED table
    BY <2>1, <2>2, ChildrenSame DEF Ours
  <2>3. CASE (\A s \in Slots : ~Active(s)) /\ table' = [s \in Slots |-> EmptyJob]
    <3>1. \A p \in Pids : ~Ours(p)
      BY <2>3, PidsAssumption DEF ChildrenTracked
    <3> QED
      BY <2>1, <2>3, <3>1, ChildrenNone DEF Ours
  <2> QED
    BY <1>6, <2>2, <2>3 DEF Reload
<1>7. CASE TtyWithoutTerm \/ Exit
  BY <1>7, GoneChildren DEF TtyWithoutTerm, Exit
<1>8. CASE Ping \/ RollCall
  BY <1>8, ChildrenSame DEF Ping, RollCall, os, Ours
<1> QED
  BY <1>1, <1>2, <1>3, <1>4, <1>5, <1>6, <1>7, <1>8 DEF RouteMessage

LEMMA LoopChildren ==
  ASSUME OsTypeOK, ServerTypeOK, ChildrenTracked, ServerLoop
  PROVE  ChildrenTracked'
<1>1. CASE EndMqtt
  BY <1>1, ChildrenSame DEF EndMqtt, os, Ours
<1>2. ASSUME NEW s \in Slots, PollJobOutput(s) PROVE ChildrenTracked'
  <2>1. proc' = proc
    BY <1>2 DEF PollJobOutput
  <2>2. \A t \in Slots : /\ table'[t].job_pid = table[t].job_pid
                         /\ table'[t].running = table[t].running
    BY <1>2 DEF PollJobOutput, AfterPoll, ServerTypeOK, Entry
  <2> QED
    BY <2>1, <2>2, ChildrenSame DEF Ours
<1>3. ASSUME NEW s \in Slots, CheckJobSubprocess(s) PROVE ChildrenTracked'
  <2> DEFINE p == table[s].job_pid
  <2>1. CASE UNCHANGED <<table, proc>>
    BY <2>1, ChildrenSame DEF Ours
  <2>2. CASE /\ p # NoPid /\ proc[p] \notin {"forked", "session"}
             /\ proc' = [proc EXCEPT ![p] = IF @ = "zombie" THEN "free" ELSE @]
             /\ table' = [table EXCEPT ![s] = AfterWait(s)]
    <3>1. p \in Pids /\ Ours(p)
      BY <2>2 DEF ChildrenTracked, ServerTypeOK, Entry
    <3>2. proc[p] = "zombie" /\ \A q \in Pids : Ours(q)' <=> Ours(q) /\ q # p
      BY <2>2, <3>1 DEF Ours, OsTypeOK
    <3>3. /\ table'[s].job_pid = NoPid
          /\ \A t \in Slots \ {s} : table'[t] = table[t]
      BY <2>2 DEF AfterWait, ServerTypeOK, Entry
    <3>4. \A t \in Slots \ {s} : table[t].job_pid # p
      BY <2>2 DEF ChildrenTracked
    <3>5. \A t \in Slots : table[t].job_pid \in Pids \cup {NoPid}
      BY DEF ServerTypeOK, Entry
    <3>6. \A t \in Slots : table'[t].job_pid # NoPid => TrackedNext(t)
      BY <2>2, <3>1, <3>3, <3>4, <3>5 DEF ChildrenTracked, Active, Ours, OsTypeOK, TrackedNext
    <3>7. \A q \in Pids : Ours(q)' => \E t \in Slots : table'[t].job_pid = q
      <4> SUFFICES ASSUME NEW q \in Pids, Ours(q)' PROVE \E t \in Slots : table'[t].job_pid = q
        OBVIOUS
      <4>1. PICK t \in Slots : table[t].job_pid = q
        BY <3>2 DEF ChildrenTracked
      <4>2. t # s
        BY <3>2, <4>1
      <4> QED
        BY <3>3, <4>1, <4>2
    <3>8. \A t, u \in Slots : table'[t].job_pid = table'[u].job_pid /\ t # u
                              => table'[t].job_pid = NoPid
      BY <3>3 DEF ChildrenTracked
    <3> QED
      BY <3>6, <3>7, <3>8, TrackedIsActive
  <2> QED
    BY <1>3, <2>1, <2>2 DEF CheckJobSubprocess
<1>4. ASSUME NEW s \in Slots, CollectJob(s) PROVE ChildrenTracked'
  <2>1. proc' = proc
    BY <1>4 DEF CollectJob, os
  <2>2. CASE UNCHANGED table
    BY <2>1, <2>2, ChildrenSame DEF Ours
  <2>3. CASE JobDead(s) /\ table' = [table EXCEPT ![s] = EmptyJob]
    <3>1. /\ table[s].job_pid = NoPid /\ table'[s].job_pid = NoPid
          /\ \A t \in Slots \ {s} : table'[t] = table[t]
      BY <2>3 DEF JobDead, EmptyJob, ServerTypeOK
    <3>2. \A t \in Slots : table'[t].job_pid = table[t].job_pid
      BY <3>1
    <3>3. \A p \in Pids : Ours(p)' <=> Ours(p)
      BY <2>1 DEF Ours
    <3>4. \A t \in Slots : table[t].job_pid \in Pids \cup {NoPid}
      BY DEF ServerTypeOK, Entry
    <3>5. \A t \in Slots : table'[t].job_pid # NoPid => TrackedNext(t)
      BY <2>1, <3>1, <3>4 DEF ChildrenTracked, Active, Ours, TrackedNext
    <3>6. \A p \in Pids : Ours(p)' => \E t \in Slots : table'[t].job_pid = p
      BY <3>2, <3>3 DEF ChildrenTracked
    <3>7. \A t, u \in Slots : table'[t].job_pid = table'[u].job_pid /\ t # u
                              => table'[t].job_pid = NoPid
      BY <3>2 DEF ChildrenTracked
    <3> QED
      BY <3>5, <3>6, <3>7, TrackedIsActive
  <2> QED
    BY <1>4, <2>2, <2>3 DEF CollectJob
<1> QED
  BY <1>1, <1>2, <1>3, <1>4 DEF ServerLoop

LEMMA EnvironmentChildren ==
  ASSUME OsTypeOK, ServerTypeOK, ChildrenTracked, Environment
  PROVE  ChildrenTracked'
<1>1. table' = table
  BY DEF Environment, Setsid, ForkBackground, ForeignStarts, ForeignExits, OpenReplica,
         ReadStdin, WriteOutput, CloseChannel, ProcessExits, Unheard
<1>2. \A p \in Pids : Ours(p)' <=> Ours(p)
  <2>1. CASE UNCHANGED proc
    BY <2>1 DEF Ours
  <2>2. ASSUME NEW q \in Pids, Setsid(q) \/ ForeignStarts(q) \/ ForeignExits(q)
        PROVE \A p \in Pids : Ours(p)' <=> Ours(p)
    BY <2>2 DEF Setsid, ForeignStarts, ForeignExits, FreePids, Ours, OsTypeOK
  <2>3. ASSUME NEW x \in Procs, ProcessExits(x)
        PROVE \A p \in Pids : Ours(p)' <=> Ours(p)
    BY <2>3, PerishKeepsOurs DEF ProcessExits
  <2> QED
    BY <2>1, <2>2, <2>3 DEF Environment, ForkBackground, OpenReplica, ReadStdin, WriteOutput,
                            CloseChannel
<1> QED
  BY <1>1, <1>2, ChildrenSame

\* Every process id in the job table names a child of the server that has not
\* been waited for, and every such child is in the table, so that the server
\* signals nothing but its own jobs and leaves no zombie behind.
THEOREM ChildrenAreTracked == Spec => []ChildrenTracked
<1>1. Init => ChildrenTracked
  BY DEF Init, EmptyJob, ChildrenTracked, Ours
<1>2. TypeOK /\ ChildrenTracked /\ [Next]_vars => ChildrenTracked'
  <2> SUFFICES ASSUME OsTypeOK, ServerTypeOK, ChildrenTracked, [Next]_vars
               PROVE  ChildrenTracked'
    BY TypeSplit
  <2>1. CASE RouteMessage
    BY <2>1, RouteChildren
  <2>2. CASE ServerLoop
    BY <2>2, LoopChildren
  <2>3. CASE Environment
    BY <2>3, EnvironmentChildren
  <2>4. CASE ServerStops
    BY <2>4, GoneChildren DEF ServerStops, Interrupt, Die
  <2>5. CASE (\E s \in Slots : StdinUnblocked(s)) \/ Start \/ UNCHANGED vars
    BY <2>5, ChildrenSame DEF StdinUnblocked, Start, os, vars, Ours
  <2> QED
    BY <2>1, <2>2, <2>3, <2>4, <2>5 DEF Next
<1> QED
  BY <1>1, <1>2, TypeCorrect, PTL DEF Spec

---------------------------------------------------------------------------
(* Scripts                                                                 *)

\* No step but a submit, a wait and a collection touches the flag.
LEMMA RunningKept ==
  ASSUME ServerTypeOK, NEW t \in Slots
  PROVE  /\ AfterEof(t).running = table[t].running
         /\ AfterPoll(t).running = table[t].running
         /\ AfterWait(t).running = table[t].running
BY DEF AfterEof, AfterPoll, AfterWait, ServerTypeOK, Entry

LEMMA ScriptsSame ==
  ASSUME ScriptsMatchJobs,
         \A s \in Slots : /\ table'[s].running = table[s].running
                          /\ s \in scripts' <=> s \in scripts
  PROVE  ScriptsMatchJobs'
BY DEF ScriptsMatchJobs, Active

\* With every entry empty no slot has a script; what is left on disk is stray.
LEMMA ScriptsNone ==
  ASSUME table' = [s \in Slots |-> EmptyJob], scripts' \subseteq {Stray}
  PROVE  ScriptsMatchJobs'
BY DEF ScriptsMatchJobs, Active, EmptyJob

LEMMA GoneScripts == ASSUME Gone PROVE ScriptsMatchJobs'
BY ScriptsNone DEF Gone

LEMMA SubmitScripts ==
  ASSUME ServerTypeOK, ScriptsMatchJobs,
         NEW j, NEW tty, NEW before, SubmitJob(j, tty, before)
  PROVE  ScriptsMatchJobs'
<1>1. CASE NoScript(j, before) \/ NoSlot(j, before) \/ NoTransport(j, tty, before)
           \/ NoFork(j, tty, before)
  <2>1. table' = table /\ scripts \subseteq scripts' /\ scripts' \subseteq scripts \cup {Stray}
    BY <1>1 DEF NoScript, NoSlot, NoTransport, NoFork
  <2> QED
    BY <2>1, ScriptsSame
<1>2. CASE Spawned(j, tty, before)
  <2>1. PICK s \in EmptySlot : /\ \E e : e.running /\ table' = [table EXCEPT ![s] = e]
                               /\ scripts' = scripts \cup {s}
    BY <1>2 DEF Spawned, Entered
  <2>2. s \in Slots /\ table'[s].running /\ \A t \in Slots \ {s} : table'[t] = table[t]
    BY <2>1 DEF EmptySlot, First, ServerTypeOK
  <2> QED
    BY <2>1, <2>2 DEF ScriptsMatchJobs, Active
<1> QED
  BY <1>1, <1>2 DEF SubmitJob

LEMMA RouteScripts ==
  ASSUME ServerTypeOK, ScriptsMatchJobs, RouteMessage
  PROVE  ScriptsMatchJobs'
<1>1. ASSUME NEW jid \in Jids, NEW payload \in Payloads, OnSubmitJob(jid, payload)
      PROVE  ScriptsMatchJobs'
  <2>1. \E j, tty, before : SubmitJob(j, tty, before)
    BY <1>1 DEF OnSubmitJob
  <2> QED
    BY <2>1, SubmitScripts
<1>2. ASSUME NEW j \in Jids, StdinEof(j) PROVE ScriptsMatchJobs'
  <2>1. table' = table \/ \E t \in Slots : table' = [table EXCEPT ![t] = AfterEof(t)]
    BY <1>2 DEF StdinEof, JobWithJid, First
  <2>2. \A s \in Slots : table'[s].running = table[s].running
    BY <2>1, RunningKept DEF ServerTypeOK
  <2> QED
    BY <1>2, <2>2, ScriptsSame DEF StdinEof
<1>3. CASE Reload
  <2>1. CASE UNCHANGED <<table, scripts>>
    BY <2>1, ScriptsSame
  <2>2. CASE table' = [s \in Slots |-> EmptyJob] /\ scripts' = IF scripts = {} THEN {} ELSE {Stray}
    BY <2>2, ScriptsNone
  <2> QED
    BY <1>3, <2>1, <2>2 DEF Reload
<1>4. CASE TtyWithoutTerm \/ Exit
  BY <1>4, GoneScripts DEF TtyWithoutTerm, Exit
<1>5. ASSUME UNCHANGED <<table, scripts>> PROVE ScriptsMatchJobs'
  BY <1>5, ScriptsSame
<1> QED
  BY <1>1, <1>2, <1>3, <1>4, <1>5
  DEF RouteMessage, StdinWrite, Signal, Scram, Ping, RollCall

LEMMA LoopScripts ==
  ASSUME ServerTypeOK, ScriptsMatchJobs, ServerLoop
  PROVE  ScriptsMatchJobs'
<1>1. ASSUME NEW s \in Slots, PollJobOutput(s) \/ CheckJobSubprocess(s)
      PROVE  ScriptsMatchJobs'
  <2>1. \/ table' = table
        \/ table' = [table EXCEPT ![s] = AfterPoll(s)]
        \/ table' = [table EXCEPT ![s] = AfterWait(s)]
    BY <1>1 DEF PollJobOutput, CheckJobSubprocess
  <2>2. scripts' = scripts
    BY <1>1 DEF PollJobOutput, CheckJobSubprocess
  <2>3. \A t \in Slots : table'[t].running = table[t].running
    BY <2>1, RunningKept DEF ServerTypeOK
  <2> QED
    BY <2>2, <2>3, ScriptsSame
<1>2. ASSUME NEW s \in Slots, CollectJob(s) PROVE ScriptsMatchJobs'
  <2>1. CASE JobDead(s)
    <3>1. table' = [table EXCEPT ![s] = EmptyJob] /\ scripts' = scripts \ {s}
      BY <1>2, <2>1 DEF CollectJob, Unlinked
    <3>2. ~table'[s].running /\ \A t \in Slots \ {s} : table'[t] = table[t]
      BY <3>1 DEF EmptyJob, ServerTypeOK
    <3> QED
      BY <3>1, <3>2 DEF ScriptsMatchJobs, Active
  <2>2. CASE ~JobDead(s)
    BY <1>2, <2>2, ScriptsSame DEF CollectJob, Unlinked
  <2> QED
    BY <2>1, <2>2
<1> QED
  BY <1>1, <1>2, ScriptsSame DEF ServerLoop, EndMqtt

\* An active job has its script on disk, and a job that is over has none: no
\* failure of a submit, no reload and no order of the ends of output and process
\* unlinks the script of a job that runs or forgets one that does not.
THEOREM ScriptsAreMatched == Spec => []ScriptsMatchJobs
<1>1. Init => ScriptsMatchJobs
  BY DEF Init, EmptyJob, ScriptsMatchJobs, Active
<1>2. TypeOK /\ ScriptsMatchJobs /\ [Next]_vars => ScriptsMatchJobs'
  <2> SUFFICES ASSUME ServerTypeOK, ScriptsMatchJobs, [Next]_vars PROVE ScriptsMatchJobs'
    BY TypeSplit
  <2>1. CASE Environment
    <3>1. UNCHANGED <<table, scripts>>
      BY <2>1 DEF Environment, Setsid, ForkBackground, ForeignStarts, ForeignExits,
                  OpenReplica, ReadStdin, WriteOutput, CloseChannel, ProcessExits, Unheard
    <3> QED
      BY <3>1, ScriptsSame
  <2>2. CASE ServerStops
    BY <2>2, GoneScripts DEF ServerStops, Interrupt, Die
  <2>3. CASE (\E s \in Slots : StdinUnblocked(s)) \/ Start \/ UNCHANGED vars
    BY <2>3, ScriptsSame DEF StdinUnblocked, Start, vars
  <2> QED
    BY <2>1, <2>2, <2>3, RouteScripts, LoopScripts DEF Next
<1> QED
  BY <1>1, <1>2, TypeCorrect, PTL DEF Spec

=============================================================================
