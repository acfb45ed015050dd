-------------------------- MODULE NodeJobsContract --------------------------
(***************************************************************************)
(* NodeJobs implements NodeContract: for every number of slots, process    *)
(* ids, descriptors and job ids, whatever processes do and system calls    *)
(* fail, the jobs and messages of the server are those of the contract.    *)
(***************************************************************************)
EXTENDS NodeJobsOutput

---------------------------------------------------------------------------
(* Where the server is, and the ids it makes up                            *)

\* The entry that the pass over the table is at has not become inactive since
\* Visit chose it, and fewer ids are made up than the bound allows.
Placed ==
  /\ pc[1] \in {"poll", "check", "collect"} => Active(pc[2])
  /\ jidCounter \in FirstMadeUp..(FirstMadeUp + MaxMadeUp)

LEMMA VisitIsPlaced ==
  ASSUME NEW i \in Nat \ {0}, NEW q \in Visit(i)
  PROVE  q = <<"mqtt", 0>> \/ \E s \in Slots : q = <<"poll", s>> /\ Active(s) /\ s >= i
<1> DEFINE ahead == First({s \in i..MAX_JOBS : Active(s)})
<1>1. \A s \in ahead : s \in Slots /\ Active(s) /\ s >= i
  BY JobsAssumption DEF First, Slots
<1>2. q = <<"mqtt", 0>> \/ \E s \in ahead : q = <<"poll", s>>
  BY DEF Visit
<1> QED
  BY <1>1, <1>2

LEMMA AtMqtt ==
  ASSUME pc' = <<"mqtt", 0>> \/ pc' = <<"down", 0>> \/ \E s : pc' = <<"write", s>>,
         jidCounter' \in FirstMadeUp..(FirstMadeUp + MaxMadeUp)
  PROVE  Placed'
BY DEF Placed

LEMMA SamePlace ==
  ASSUME Placed, UNCHANGED <<pc, table, jidCounter>> PROVE Placed'
BY DEF Placed, Active

LEMMA CountersAre == FirstMadeUp \in FirstMadeUp..(FirstMadeUp + MaxMadeUp)
BY JidsAssumption, BoundsAssumption

LEMMA RoutePlaced == ASSUME ServerTypeOK, Placed, RouteMessage PROVE Placed'
<1> USE JidsAssumption, BoundsAssumption
<1>1. ASSUME NEW jid \in Jids, NEW payload \in Payloads, OnSubmitJob(jid, payload) PROVE Placed'
  <2>1. \E j, tty, before : SubmitJob(j, tty, before)
    BY <1>1 DEF OnSubmitJob
  <2>2. pc' = pc
    BY <2>1 DEF SubmitJob, NoScript, NoSlot, NoTransport, NoFork, Spawned
  <2>3. jidCounter' \in FirstMadeUp..(FirstMadeUp + MaxMadeUp)
    BY <1>1 DEF OnSubmitJob, Placed
  <2> QED
    BY <1>1, <2>2, <2>3, AtMqtt DEF OnSubmitJob, InMqtt
<1>2. ASSUME NEW j \in Jids, StdinWrite(j) PROVE Placed'
  <2>1. pc' = pc \/ \E s : pc' = <<"write", s>>
    BY <1>2 DEF StdinWrite, StdinRefused, StdinTaken, StdinFull
  <2>2. pc = <<"mqtt", 0>> /\ jidCounter' = jidCounter
    BY <1>2 DEF StdinWrite, InMqtt
  <2> QED
    BY <2>1, <2>2, AtMqtt DEF Placed
<1>3. ASSUME NEW j \in Jids, StdinEof(j) \/ Signal(j) PROVE Placed'
  BY <1>3, AtMqtt DEF StdinEof, Signal, InMqtt, Placed
<1>4. CASE Scram \/ Ping \/ RollCall
  BY <1>4, AtMqtt DEF Scram, Ping, RollCall, InMqtt, Placed
<1>5. CASE Reload
  BY <1>5, AtMqtt, CountersAre DEF Reload, InMqtt, Placed
<1>6. CASE TtyWithoutTerm \/ Exit
  BY <1>6, AtMqtt, CountersAre DEF TtyWithoutTerm, Exit, Gone
<1> QED
  BY <1>1, <1>2, <1>3, <1>4, <1>5, <1>6 DEF RouteMessage

LEMMA LoopPlaced == ASSUME ServerTypeOK, Placed, ServerLoop PROVE Placed'
<1>1. CASE EndMqtt
  BY <1>1, VisitIsPlaced DEF EndMqtt, Placed, Active
<1>2. ASSUME NEW s \in Slots, PollJobOutput(s) \/ CheckJobSubprocess(s) PROVE Placed'
  <2>1. \/ table' = table
        \/ table' = [table EXCEPT ![s] = AfterPoll(s)]
        \/ table' = [table EXCEPT ![s] = AfterWait(s)]
    BY <1>2 DEF PollJobOutput, CheckJobSubprocess
  <2>2. table'[s].running = table[s].running
    BY <2>1, RunningKept DEF ServerTypeOK
  <2>3. /\ pc \in {<<"poll", s>>, <<"check", s>>} /\ pc' \in {<<"check", s>>, <<"collect", s>>}
        /\ jidCounter' = jidCounter
    BY <1>2 DEF PollJobOutput, CheckJobSubprocess
  <2> QED
    BY <2>2, <2>3 DEF Placed, Active
<1>3. ASSUME NEW s \in Slots, CollectJob(s) PROVE Placed'
  <2>1. pc' = <<"mqtt", 0>> \/ \E t \in Slots \ {s} : pc' = <<"poll", t>> /\ Active(t)
    <3>1. s + 1 \in Nat \ {0} /\ pc' \in Visit(s + 1) /\ ~ s >= s + 1
      BY <1>3 DEF CollectJob, Slots
    <3> QED
      BY <3>1, VisitIsPlaced
  <2>2. \A t \in Slots \ {s} : table'[t] = table[t]
    BY <1>3 DEF CollectJob, ServerTypeOK
  <2>3. jidCounter' = jidCounter
    BY <1>3 DEF CollectJob
  <2> QED
    BY <2>1, <2>2, <2>3 DEF Placed, Active
<1> QED
  BY <1>1, <1>2, <1>3 DEF ServerLoop

LEMMA PlacesArePlaced == Spec => []Placed
<1>1. Init => Placed
  BY CountersAre DEF Init, Placed
<1>2. TypeOK /\ Placed /\ [Next]_vars => Placed'
  <2> SUFFICES ASSUME ServerTypeOK, Placed, [Next]_vars PROVE Placed'
    BY TypeSplit
  <2>1. CASE Environment
    <3>1. UNCHANGED <<pc, table, jidCounter>>
      BY <2>1 DEF Environment, Setsid, ForkBackground, ForeignStarts, ForeignExits,
                  OpenReplica, ReadStdin, WriteOutput, CloseChannel, ProcessExits, Unheard
    <3> QED
      BY <3>1, SamePlace
  <2>2. CASE ServerStops
    BY <2>2, AtMqtt, CountersAre DEF ServerStops, Interrupt, Die, Gone
  <2>3. CASE (\E s \in Slots : StdinUnblocked(s)) \/ Start
    BY <2>3, AtMqtt DEF StdinUnblocked, Start, Placed
  <2>4. CASE UNCHANGED vars
    BY <2>4, SamePlace DEF vars
  <2> QED
    BY <2>1, <2>2, <2>3, <2>4, RoutePlaced, LoopPlaced DEF Next
<1> QED
  BY <1>1, <1>2, TypeCorrect, PTL DEF Spec

---------------------------------------------------------------------------
(* The steps of the contract                                               *)

Seat(s) == IF Active(s) THEN table[s].job_id ELSE -1
Owing(s) == unread[<<s, "out">>] + unread[<<s, "err">>]
Seats == [s \in Slots |-> Seat(s)]
Owings == [s \in Slots |-> Owing(s)]

LEMMA JobsHaveIds ==
  ASSUME ServerTypeOK, NEW s \in Slots
  PROVE  Seat(s) = -1 <=> ~Active(s)
BY DEF ServerTypeOK, Entry, Seat

LEMMA OwingIsNat == ASSUME OsTypeOK, NEW s \in Slots PROVE Owing(s) \in Nat
<1>1. <<s, "out">> \in Chans /\ <<s, "err">> \in Chans
  BY DEF Chans
<1> QED
  BY <1>1, BoundsAssumption DEF OsTypeOK, Owing

\* An entry without an active job owes no output.
LEMMA InactiveOwesNothing ==
  ASSUME ServerTypeOK, DescriptorsOwned, ClosedIsDrained, NEW s \in Slots, ~Active(s)
  PROVE  Owing(s) = 0
<1>1. \A ch \in Outputs : FdOf(s, ch) = NoFd
  BY DEF DescriptorsOwned, Outputs
<1>2. \A ch \in Outputs : unread[<<s, ch>>] = 0
  BY <1>1 DEF ClosedIsDrained
<1> QED
  BY <1>2 DEF Owing, Outputs

\* What a step must do to be one of the contract's, in this module's words.
LEMMA ReportStep ==
  ASSUME Seats' = Seats, Owings' = Owings,
         \/ pub' \in {<<>>, Announce, <<Message("connect", {})>>}
         \/ pub' = <<Message("roll_call", ActiveJids)>> /\ ServerTypeOK
  PROVE  Contract!Next
<1>1. ServerTypeOK => ActiveJids = {Seats[s] : s \in {t \in Slots : Seats[t] # -1}}
  BY JobsHaveIds DEF ActiveJids, Seats, Seat
<1>2. Contract!Report
  BY <1>1 DEF Contract!Report, Contract!Msg, Contract!Slots, Contract!NoJob, Slots,
              Message, Announce, Seats, Owings, Seat, Owing
<1> QED
  BY <1>2 DEF Contract!Next

LEMMA RefuseStep ==
  ASSUME Seats' = Seats, Owings' = Owings, NEW j \in JobIds, pub' = Status("reject", j)
  PROVE  Contract!Next
<1>1. Contract!Refuse(j)
  BY DEF Contract!Refuse, Contract!Msg, Status, Message, Seats, Owings, Seat, Owing
<1> QED
  BY <1>1 DEF Contract!Next

LEMMA AcceptStep ==
  ASSUME NEW s \in Slots, NEW j \in JobIds, ~Active(s),
         Seats' = [Seats EXCEPT ![s] = j], Owings' = Owings, pub' = Status("startup", j)
  PROVE  Contract!Next
<1>1. Contract!Accept(s, j)
  BY DEF Contract!Accept, Contract!Msg, Contract!NoJob, Status, Message, Seats, Owings, Seat, Owing
<1> QED
  BY <1>1 DEF Contract!Next, Contract!Slots, Slots

LEMMA WriteStep ==
  ASSUME NEW s \in Slots, ServerTypeOK, Active(s),
         Seats' = Seats, Owings' = [Owings EXCEPT ![s] = @ + 1], pub' = <<>>
  PROVE  Contract!Next
<1>1. Seats[s] # -1
  BY JobsHaveIds DEF Seats
<1>2. Contract!Write(s)
  BY <1>1 DEF Contract!Write, Contract!NoJob, Seats, Owings, Seat, Owing
<1> QED
  BY <1>2 DEF Contract!Next, Contract!Slots, Slots

LEMMA DeliverStep ==
  ASSUME NEW s \in Slots, ServerTypeOK, Active(s), NEW n \in 1..2, Owing(s) >= n,
         Seats' = Seats, Owings' = [Owings EXCEPT ![s] = @ - n],
         pub' = [i \in 1..n |-> Message("output", {table[s].job_id})]
  PROVE  Contract!Next
<1>1. Seats[s] # -1 /\ Seats[s] = table[s].job_id /\ Owings[s] >= n
  BY JobsHaveIds DEF Seats, Seat, Owings
<1>2. Contract!Deliver(s)
  BY <1>1 DEF Contract!Deliver, Contract!NoJob, Contract!Msg, Message, Seats, Owings, Seat, Owing
<1> QED
  BY <1>2 DEF Contract!Next, Contract!Slots, Slots

LEMMA StopStep ==
  ASSUME NEW s \in Slots, ServerTypeOK, Active(s), Owing(s) = 0,
         Seats' = [Seats EXCEPT ![s] = -1], Owings' = Owings,
         pub' = Status("stopped", table[s].job_id)
  PROVE  Contract!Next
<1>1. Seats[s] # -1 /\ Seats[s] = table[s].job_id /\ Owings[s] = 0
  BY JobsHaveIds DEF Seats, Seat, Owings
<1>2. Contract!Stop(s)
  BY <1>1 DEF Contract!Stop, Contract!NoJob, Contract!Msg, Status, Message, Seats, Owings, Seat, Owing
<1> QED
  BY <1>2 DEF Contract!Next, Contract!Slots, Slots

LEMMA LeaveStep ==
  ASSUME \A s \in Slots : Seat(s)' = -1 /\ Owing(s)' = 0, pub' \in {<<>>, Farewell}
  PROVE  Contract!Next
<1>1. Contract!Leave
  BY DEF Contract!Leave, Contract!NoJob, Contract!Msg, Contract!Slots, Slots, Farewell, Message,
         Seat, Owing
<1> QED
  BY <1>1 DEF Contract!Next

---------------------------------------------------------------------------
(* Every step of the server is a step of the contract                      *)

Safe == OsTypeOK /\ ServerTypeOK /\ DescriptorsOwned /\ ClosedIsDrained /\ Placed

\* A payload that is rejected for want of a script is submitted all the same
\* (RejectIsFinal), which no step of the contract does.
Wellformed == "malformed" \notin Payloads

\* Entries whose job and id stay leave the seats alone, unread output that
\* stays leaves what is owed alone.
LEMMA SameSeats ==
  ASSUME \A s \in Slots : /\ table'[s].running = table[s].running
                          /\ table'[s].job_id = table[s].job_id
  PROVE  Seats' = Seats
BY DEF Seats, Seat, Active

LEMMA SameOwings == ASSUME UNCHANGED unread PROVE Owings' = Owings
BY DEF Owings, Owing

LEMMA FrameSteps == ASSUME UNCHANGED <<table, unread>> PROVE Seats' = Seats /\ Owings' = Owings
BY SameSeats, SameOwings

\* The handlers and passes that keep or close what they find of an entry.
LEMMA EntryFrame ==
  ASSUME ServerTypeOK, NEW s \in Slots,
         table' \in {table, [table EXCEPT ![s] = AfterEof(s)],
                     [table EXCEPT ![s] = AfterPoll(s)], [table EXCEPT ![s] = AfterWait(s)]}
  PROVE  Seats' = Seats
<1>1. \A e \in {AfterEof(s), AfterPoll(s), AfterWait(s)} :
        e.running = table[s].running /\ e.job_id = table[s].job_id
  BY DEF ServerTypeOK, Entry, AfterEof, AfterPoll, AfterWait
<1>2. \/ table' = table
      \/ \E e \in {AfterEof(s), AfterPoll(s), AfterWait(s)} : table' = [table EXCEPT ![s] = e]
  OBVIOUS
<1>3. \A t \in Slots : /\ table'[t].running = table[t].running
                       /\ table'[t].job_id = table[t].job_id
  BY <1>1, <1>2 DEF ServerTypeOK
<1> QED
  BY <1>3, SameSeats

LEMMA GoneLeaves == ASSUME Gone, pub' \in {<<>>, Farewell} PROVE Contract!Next
<1>1. \A s \in Slots : Seat(s)' = -1
  BY DEF Gone, Seat, Active, EmptyJob
<1>2. \A s \in Slots : Owing(s)' = 0
  BY DEF Gone, Owing, Chans
<1> QED
  BY <1>1, <1>2, LeaveStep

LEMMA NothingBefore ==
  ASSUME NEW kind, NEW j PROVE <<>> \o Status(kind, j) = Status(kind, j)
BY DEF Status

LEMMA SpawnAccepts ==
  ASSUME Safe, NEW j \in JobIds, NEW tty, Spawned(j, tty, <<>>)
  PROVE  Contract!Next
<1>1. PICK s \in EmptySlot, p \in FreePids, fds \in Wirings(tty) :
        /\ table' = [table EXCEPT ![s] = Entered(j, tty, p, fds)]
        /\ unread' = [c \in Chans |-> IF c[1] = s THEN 0 ELSE unread[c]]
  BY ZenonT(60) DEF Spawned
<1>2. s \in Slots /\ ~Active(s)
  BY DEF EmptySlot, First
<1>3. Seats' = [Seats EXCEPT ![s] = j]
  <2>1. /\ table'[s].running = TRUE /\ table'[s].job_id = j
        /\ \A t \in Slots \ {s} : table'[t] = table[t]
    BY <1>1, <1>2 DEF Safe, ServerTypeOK, Entered
  <2> QED
    BY <1>2, <2>1 DEF Seats, Seat, Active
<1>4. Owings' = Owings
  <2>1. \A t \in Slots, ch \in {"out", "err"} :
          /\ <<t, ch>> \in Chans
          /\ unread'[<<t, ch>>] = IF t = s THEN 0 ELSE unread[<<t, ch>>]
    BY <1>1 DEF Chans
  <2>2. Owing(s)' = 0 /\ \A t \in Slots \ {s} : Owing(t)' = Owing(t)
    BY <1>2, <2>1 DEF Owing
  <2>3. Owing(s) = 0
    BY <1>2, InactiveOwesNothing DEF Safe
  <2> QED
    BY <2>2, <2>3 DEF Owings
<1>5. pub' = Status("startup", j)
  BY NothingBefore DEF Spawned
<1> QED
  BY <1>2, <1>3, <1>4, <1>5, AcceptStep

LEMMA SubmitKeepsContract ==
  ASSUME Safe, NEW j \in JobIds, NEW tty, SubmitJob(j, tty, <<>>)
  PROVE  Contract!Next
<1>1. CASE NoScript(j, <<>>) \/ NoSlot(j, <<>>) \/ NoTransport(j, tty, <<>>)
           \/ NoFork(j, tty, <<>>)
  <2>1. UNCHANGED <<table, unread>> /\ pub' = Status("reject", j)
    BY <1>1, NothingBefore DEF NoScript, NoSlot, NoTransport, NoFork, os
  <2> QED
    BY <2>1, FrameSteps, RefuseStep
<1> QED
  BY <1>1, SpawnAccepts DEF SubmitJob

LEMMA RouteKeepsContract ==
  ASSUME Wellformed, Safe, RouteMessage PROVE Contract!Next
<1>1. ASSUME NEW jid \in Jids, NEW payload \in Payloads, OnSubmitJob(jid, payload)
      PROVE  Contract!Next
  <2> DEFINE j == IF jid = 0 THEN jidCounter ELSE jid
  <2>1. j \in JobIds
    BY <1>1, JidsAssumption, BoundsAssumption DEF OnSubmitJob, JobIds, Safe, Placed
  <2>2. \E tty : SubmitJob(j, tty, <<>>)
    BY <1>1 DEF OnSubmitJob, Objection, Wellformed
  <2> HIDE DEF j
  <2> QED
    BY <2>1, <2>2, SubmitKeepsContract
<1>2. ASSUME NEW j \in Jids, StdinWrite(j) \/ Signal(j) PROVE Contract!Next
  <2>1. UNCHANGED <<table, unread>> /\ pub' \in {<<>>, Announce}
    BY <1>2 DEF StdinWrite, StdinRefused, StdinTaken, StdinFull, Signal, os
  <2> QED
    BY <2>1, FrameSteps, ReportStep
<1>3. ASSUME NEW j \in Jids, StdinEof(j) PROVE Contract!Next
  <2>1. unread' = unread /\ pub' \in {<<>>, Announce}
    BY <1>3 DEF StdinEof, os
  <2>2. UNCHANGED table \/ \E s \in Slots : table' = [table EXCEPT ![s] = AfterEof(s)]
    BY <1>3 DEF StdinEof, JobWithJid, First
  <2>3. Seats' = Seats
    BY <2>2, EntryFrame, SameSeats DEF Safe
  <2> QED
    BY <2>1, <2>3, SameOwings, ReportStep
<1>4. CASE Scram \/ Ping \/ RollCall
  <2>1. /\ UNCHANGED <<table, unread>>
        /\ pub' \in {<<>>, <<Message("connect", {})>>, <<Message("roll_call", ActiveJids)>>}
    BY <1>4 DEF Scram, Ping, RollCall, os
  <2> QED
    BY <2>1, FrameSteps, ReportStep DEF Safe
<1>5. CASE Reload
  <2>1. unread' = unread
    BY <1>5 DEF Reload, os
  <2>2. CASE \E s \in Slots : Active(s)
    BY <1>5, <2>1, <2>2, FrameSteps, ReportStep DEF Reload
  <2>3. CASE \A s \in Slots : ~Active(s)
    <3>1. pub' = Farewell /\ \A s \in Slots : table'[s] = EmptyJob
      BY <1>5, <2>3 DEF Reload
    <3>2. \A s \in Slots : Seat(s)' = -1
      BY <3>1 DEF Seat, Active, EmptyJob
    <3>3. \A s \in Slots : Owing(s)' = 0
      BY <2>1, <2>3, InactiveOwesNothing DEF Safe, Owing
    <3> QED
      BY <3>1, <3>2, <3>3, LeaveStep
  <2> QED
    BY <2>2, <2>3
<1>6. CASE TtyWithoutTerm \/ Exit
  BY <1>6, GoneLeaves DEF TtyWithoutTerm, Exit
<1> QED
  BY <1>1, <1>2, <1>3, <1>4, <1>5, <1>6 DEF RouteMessage

\* What one poll of an entry that is being watched reads and publishes.
LEMMA PollDelivers ==
  ASSUME Safe, NEW s \in Slots, PollJobOutput(s) PROVE Contract!Next
<1> DEFINE m == Message("output", {table[s].job_id})
           out == <<s, "out">> \in Readable(s)
           err == <<s, "err">> \in Readable(s)
<1>1. Active(s)
  BY DEF PollJobOutput, Safe, Placed
<1>2. Seats' = Seats
  <2>1. table' = [table EXCEPT ![s] = AfterPoll(s)]
    BY DEF PollJobOutput
  <2> QED
    BY <2>1, EntryFrame DEF Safe
<1>3. /\ table[s].job_stdout # NoFd => ofile[table[s].job_stdout] = <<s, "out">>
      /\ table[s].job_stderr # NoFd => ofile[table[s].job_stderr] = <<s, "err">>
  <2>1. FdOf(s, "out") = table[s].job_stdout /\ FdOf(s, "err") = table[s].job_stderr
    BY DEF FdOf
  <2> QED
    BY <2>1 DEF Safe, DescriptorsOwned
<1>4. Polled(s) \subseteq {<<s, "out">>, <<s, "err">>}
  BY <1>3 DEF Polled
<1>5. /\ out => table[s].job_stdout # NoFd
      /\ err => table[s].job_stderr # NoFd
  BY <1>3 DEF Readable, Polled
<1>6. /\ Heard(s, table[s].job_stdout) = IF out THEN <<m>> ELSE <<>>
      /\ Heard(s, table[s].job_stderr) = IF err THEN <<m>> ELSE <<>>
  BY <1>3, <1>5 DEF Heard, Status
<1>7. /\ out => unread[<<s, "out">>] > 0
      /\ err => unread[<<s, "err">>] > 0
  BY DEF Readable
<1>8. /\ unread'[<<s, "out">>] = IF out THEN unread[<<s, "out">>] - 1 ELSE unread[<<s, "out">>]
      /\ unread'[<<s, "err">>] = IF err THEN unread[<<s, "err">>] - 1 ELSE unread[<<s, "err">>]
  BY DEF PollJobOutput, Chans
<1>9. /\ unread[<<s, "out">>] \in Nat /\ unread[<<s, "err">>] \in Nat
  BY BoundsAssumption DEF Safe, OsTypeOK, Chans
<1>10. \A t \in Slots \ {s} : Owing(t)' = Owing(t)
  BY <1>4 DEF PollJobOutput, Chans, Readable, Owing
<1>11. pub' = Heard(s, table[s].job_stdout) \o Heard(s, table[s].job_stderr)
  BY DEF PollJobOutput
<1>12. ASSUME NEW n \in 0..2, Owing(s)' = Owing(s) - n
       PROVE  Owings' = [Owings EXCEPT ![s] = @ - n]
  BY <1>10, <1>12 DEF Owings
<1> HIDE DEF m, out, err
<1>13. CASE out /\ err
  <2>1. Owing(s)' = Owing(s) - 2 /\ Owing(s) >= 2
    BY <1>7, <1>8, <1>9, <1>13 DEF Owing
  <2>2. pub' = [i \in 1..2 |-> m]
    BY <1>6, <1>11, <1>13
  <2> QED
    BY <1>1, <1>2, <1>12, <2>1, <2>2, DeliverStep DEF Safe, m
<1>14. CASE (out /\ ~err) \/ (~out /\ err)
  <2>1. Owing(s)' = Owing(s) - 1 /\ Owing(s) >= 1
    BY <1>7, <1>8, <1>9, <1>14 DEF Owing
  <2>2. pub' = [i \in 1..1 |-> m]
    BY <1>6, <1>11, <1>14
  <2> QED
    BY <1>1, <1>2, <1>12, <2>1, <2>2, DeliverStep DEF Safe, m
<1>15. CASE ~out /\ ~err
  <2>1. Owings' = Owings
    BY <1>8, <1>10, <1>15 DEF Owings, Owing
  <2>2. pub' = <<>>
    BY <1>6, <1>11, <1>15
  <2> QED
    BY <1>2, <2>1, <2>2, ReportStep
<1> QED
  BY <1>13, <1>14, <1>15 DEF out, err

LEMMA LoopKeepsContract == ASSUME Safe, ServerLoop PROVE Contract!Next
<1>1. CASE EndMqtt
  BY <1>1, FrameSteps, ReportStep DEF EndMqtt, os
<1>2. ASSUME NEW s \in Slots, CheckJobSubprocess(s) PROVE Contract!Next
  <2>1. unread' = unread /\ pub' = <<>>
    BY <1>2 DEF CheckJobSubprocess
  <2>2. table' = table \/ table' = [table EXCEPT ![s] = AfterWait(s)]
    BY <1>2 DEF CheckJobSubprocess
  <2>3. Seats' = Seats
    BY <2>2, EntryFrame, SameSeats DEF Safe
  <2> QED
    BY <2>1, <2>3, SameOwings, ReportStep
<1>3. ASSUME NEW s \in Slots, CollectJob(s) PROVE Contract!Next
  <2>1. unread' = unread
    BY <1>3 DEF CollectJob, os
  <2>2. CASE ~JobDead(s)
    BY <1>3, <2>1, <2>2, FrameSteps, ReportStep DEF CollectJob
  <2>3. CASE JobDead(s)
    <3>1. /\ table' = [table EXCEPT ![s] = EmptyJob] /\ Active(s)
          /\ pub' = Status("stopped", table[s].job_id)
      BY <1>3, <2>3 DEF CollectJob, Safe, Placed
    <3>2. Seats' = [Seats EXCEPT ![s] = -1]
      <4>1. ~table'[s].running /\ \A t \in Slots \ {s} : table'[t] = table[t]
        BY <3>1 DEF Safe, ServerTypeOK, EmptyJob
      <4> QED
        BY <4>1 DEF Seats, Seat, Active
    <3>3. Owing(s) = 0
      <4>1. \A ch \in Outputs : FdOf(s, ch) = NoFd
        BY <2>3 DEF JobDead, FdOf, Outputs
      <4>2. \A ch \in Outputs : unread[<<s, ch>>] = 0
        BY <4>1 DEF Safe, ClosedIsDrained
      <4> QED
        BY <4>2 DEF Owing, Outputs
    <3> QED
      BY <2>1, <3>1, <3>2, <3>3, SameOwings, StopStep DEF Safe
  <2> QED
    BY <2>2, <2>3
<1> QED
  BY <1>1, <1>2, <1>3, PollDelivers DEF ServerLoop

LEMMA EnvironmentKeepsContract == ASSUME Safe, Environment PROVE Contract!Next
<1>1. ASSUME NEW c \in Chans, WriteOutput(c) PROVE Contract!Next
  <2>1. PICK s \in Slots, ch \in Outputs : c = <<s, ch>>
    BY <1>1, ChansAre DEF WriteOutput, Outputs
  <2>2. Active(s)
    <3>1. FdOf(s, ch) # NoFd
      BY <1>1, <2>1 DEF WriteOutput, Safe, ClosedIsDrained
    <3> QED
      BY <3>1 DEF Safe, DescriptorsOwned, Outputs
  <2>3. /\ unread'[<<s, ch>>] = unread[<<s, ch>>] + 1
        /\ \A d \in Chans \ {<<s, ch>>} : unread'[d] = unread[d]
    BY <1>1, <2>1 DEF WriteOutput, Safe, OsTypeOK
  <2>4. Owing(s)' = Owing(s) + 1 /\ \A t \in Slots \ {s} : Owing(t)' = Owing(t)
    <3>1. \A t \in Slots, d \in Outputs : <<t, d>> \in Chans
      BY DEF Chans, Outputs
    <3>2. unread[<<s, "out">>] \in Nat /\ unread[<<s, "err">>] \in Nat
      BY <3>1, BoundsAssumption DEF Safe, OsTypeOK, Outputs
    <3> QED
      BY <2>3, <3>1, <3>2 DEF Owing, Outputs
  <2>5. Owings' = [Owings EXCEPT ![s] = @ + 1]
    BY <2>4 DEF Owings
  <2>6. UNCHANGED table /\ pub' = <<>>
    BY <1>1 DEF WriteOutput, Unheard
  <2> QED
    BY <2>2, <2>5, <2>6, SameSeats, WriteStep DEF Safe
<1>2. ASSUME UNCHANGED <<table, unread>>, pub' = <<>> PROVE Contract!Next
  BY <1>2, FrameSteps, ReportStep
<1> QED
  BY <1>1, <1>2
  DEF Environment, Setsid, ForkBackground, ForeignStarts, ForeignExits, OpenReplica,
      ReadStdin, CloseChannel, ProcessExits, Unheard

\* As long as every payload has a script, a node keeps NodeContract: a job that
\* was accepted is announced by one "startup", all of its output follows in
\* turn, one "stopped" ends it after the last of it, and a refused one is only
\* ever heard of as "reject" (submit_job, poll_job_output, collect_job).
THEOREM ContractIsKept == ASSUME Wellformed PROVE Spec => KeepsContract
<1>1. Init => Contract!Init
  <2>1. Init => \A s \in Slots : ~Active(s) /\ Owing(s) = 0
    BY DEF Init, Active, EmptyJob, Owing, Chans
  <2> QED
    BY <2>1 DEF Init, Contract!Init, Contract!Slots, Contract!NoJob, Slots, Owing
<1>2. Safe /\ [Next]_vars => [Contract!Next]_(Contract!cvars)
  <2> SUFFICES ASSUME Safe, [Next]_vars PROVE [Contract!Next]_(Contract!cvars)
    OBVIOUS
  <2>1. CASE ServerStops
    BY <2>1, GoneLeaves DEF ServerStops, Interrupt, Die
  <2>2. CASE (\E s \in Slots : StdinUnblocked(s)) \/ Start
    <3>1. /\ UNCHANGED <<table, unread>>
          /\ pub' \in {<<>>, Announce, <<Message("connect", {})>>}
      BY <2>2 DEF StdinUnblocked, Start, os
    <3> QED
      BY <3>1, FrameSteps, ReportStep
  <2>3. CASE UNCHANGED vars
    BY <2>3 DEF vars, Contract!cvars, Active
  <2> QED
    BY <2>1, <2>2, <2>3, RouteKeepsContract, LoopKeepsContract, EnvironmentKeepsContract DEF Next
<1>3. Spec => []Safe
  BY TypeCorrect, TypeSplit, DescriptorsAreOwned, ClosedStaysDrained,
     PlacesArePlaced, PTL DEF Safe
<1> QED
  BY <1>1, <1>2, <1>3, PTL DEF Spec, KeepsContract, Contract!Spec

=============================================================================
