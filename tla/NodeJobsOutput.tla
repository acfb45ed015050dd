-------------------------- MODULE NodeJobsOutput --------------------------
(***************************************************************************)
(* The safety theorems of NodeJobs about descriptors and output.           *)
(***************************************************************************)
EXTENDS NodeJobsProofs

---------------------------------------------------------------------------
(* Descriptors                                                             *)

Names == {"in", "out", "err"}
USE DEF Names, NoFd, NoPid, Closed, Leaked, Outputs
FdIn(entry, ch) == CASE ch = "in" -> entry.job_stdin
                     [] ch = "out" -> entry.job_stdout
                     [] ch = "err" -> entry.job_stderr

\* DescriptorsOwned of a job table and a descriptor table.
Owned(tab, files) ==
  /\ \A s \in Slots, ch \in Names :
       FdIn(tab[s], ch) # NoFd => tab[s].running /\ files[FdIn(tab[s], ch)] = <<s, ch>>
  /\ \A f \in Fds : \A s \in Slots, ch \in Names :
       files[f] = <<s, ch>> => FdIn(tab[s], ch) = f

LEMMA ChansAre ==
  /\ \A c : c \in Chans <=> \E s \in Slots, ch \in Names : c = <<s, ch>>
  /\ \A s, ch : <<s, ch>>[1] = s /\ <<s, ch>>[2] = ch
BY DEF Chans

LEMMA OwnedIsOwned == DescriptorsOwned <=> Owned(table, ofile)
<1>1. \A s, ch : FdOf(s, ch) = FdIn(table[s], ch)
  BY DEF FdOf, FdIn
<1>2. (\A f \in Fds : ofile[f] \in Chans => FdOf(ofile[f][1], ofile[f][2]) = f)
        <=> \A f \in Fds : \A s \in Slots, ch \in Names :
              ofile[f] = <<s, ch>> => FdIn(table[s], ch) = f
  BY <1>1, ChansAre
<1> QED
  BY <1>1, <1>2 DEF DescriptorsOwned, Owned, Active

LEMMA OwnedIsOwnedNext == DescriptorsOwned' <=> Owned(table', ofile')
<1>1. \A s, ch : FdOf(s, ch)' = FdIn(table'[s], ch)
  BY DEF FdOf, FdIn
<1>2. (\A f \in Fds : ofile'[f] \in Chans
                       => LET t == ofile'[f][1] ch == ofile'[f][2] IN FdIn(table'[t], ch) = f)
        <=> \A f \in Fds : \A s \in Slots, ch \in Names :
              ofile'[f] = <<s, ch>> => FdIn(table'[s], ch) = f
  BY ChansAre
<1>3. (\A f \in Fds : ofile[f] \in Chans => FdOf(ofile[f][1], ofile[f][2]) = f)'
        <=> \A f \in Fds : ofile'[f] \in Chans
              => LET t == ofile'[f][1] ch == ofile'[f][2] IN FdIn(table'[t], ch) = f
  BY DEF FdOf, FdIn
<1> QED
  BY <1>1, <1>2, <1>3 DEF DescriptorsOwned, Owned, Active

LEMMA FdInType == ASSUME ServerTypeOK
                  PROVE  \A s \in Slots, ch \in Names : FdIn(table[s], ch) \in Fds \cup {NoFd}
BY DEF ServerTypeOK, Entry, FdIn, Names

\* The three descriptors of an entry.
LEMMA ThreeFds ==
  ASSUME NEW e
  PROVE  FdIn(e, "in") = e.job_stdin /\ FdIn(e, "out") = e.job_stdout
         /\ FdIn(e, "err") = e.job_stderr
BY DEF FdIn

\* Owned does not depend on the other fields of an entry.
LEMMA OwnedSame ==
  ASSUME ServerTypeOK, Owned(table, ofile), ofile' = ofile,
         \A s \in Slots : /\ table'[s].running = table[s].running
                          /\ \A ch \in Names : FdIn(table'[s], ch) = FdIn(table[s], ch)
  PROVE  Owned(table', ofile')
BY DEF Owned

\* Free descriptors may leak.
LEMMA LeakKeepsOwned ==
  ASSUME ServerTypeOK, Owned(table, ofile), table' = table, NEW F \in SUBSET FreeFds,
         ofile' = [f \in Fds |-> IF f \in F THEN Leaked ELSE ofile[f]]
  PROVE  Owned(table', ofile')
<1>1. \A f \in F : f \in Fds /\ ofile[f] = Closed
  BY DEF FreeFds
<1>2. \A s \in Slots, ch \in Names : FdIn(table[s], ch) \notin F
  <2> SUFFICES ASSUME NEW s \in Slots, NEW ch \in Names, FdIn(table[s], ch) \in F PROVE FALSE
    OBVIOUS
  <2>1. FdIn(table[s], ch) # NoFd /\ ofile[FdIn(table[s], ch)] = Closed
    BY <1>1, FdsAssumption
  <2> QED
    BY <2>1 DEF Owned
<1>3. \A s \in Slots, ch \in Names : FdIn(table[s], ch) # NoFd =>
        table[s].running /\ ofile'[FdIn(table[s], ch)] = <<s, ch>>
  <2> SUFFICES ASSUME NEW s \in Slots, NEW ch \in Names, FdIn(table[s], ch) # NoFd
               PROVE  table[s].running /\ ofile'[FdIn(table[s], ch)] = <<s, ch>>
    OBVIOUS
  <2>1. FdIn(table[s], ch) \in Fds \ F /\ ofile[FdIn(table[s], ch)] = <<s, ch>>
    BY <1>2, FdInType DEF Owned
  <2> QED
    BY <2>1 DEF Owned
<1>4. \A f \in Fds : \A s \in Slots, ch \in Names :
        ofile'[f] = <<s, ch>> => FdIn(table[s], ch) = f
  BY DEF Owned
<1> QED
  BY <1>3, <1>4 DEF Owned

\* An entry may close some of its descriptors, if it forgets them.
LEMMA CloseKeepsOwned ==
  ASSUME ServerTypeOK, Owned(table, ofile),
         NEW s \in Slots, NEW e, table' = [table EXCEPT ![s] = e],
         e.running = table[s].running,
         NEW F \in SUBSET Fds,
         \A f \in F : \E ch \in Names : f = FdIn(table[s], ch),
         \A ch \in Names : FdIn(e, ch) = IF FdIn(table[s], ch) \in F THEN NoFd
                                         ELSE FdIn(table[s], ch),
         ofile' = [f \in Fds |-> IF f \in F THEN Closed ELSE ofile[f]]
  PROVE  Owned(table', ofile')
<1>1. table'[s] = e /\ \A t \in Slots \ {s} : table'[t] = table[t]
  BY DEF ServerTypeOK
<1>2. NoFd \notin F
  BY FdsAssumption
<1>3. \A f \in F : \E ch \in Names : ofile[f] = <<s, ch>>
  <2> SUFFICES ASSUME NEW f \in F PROVE \E ch \in Names : ofile[f] = <<s, ch>>
    OBVIOUS
  <2>1. PICK ch \in Names : f = FdIn(table[s], ch)
    OBVIOUS
  <2> QED
    BY <1>2, <2>1 DEF Owned
<1>4. \A t \in Slots \ {s}, ch \in Names : FdIn(table[t], ch) \notin F
  <2> SUFFICES ASSUME NEW t \in Slots \ {s}, NEW ch \in Names, FdIn(table[t], ch) \in F
               PROVE  FALSE
    OBVIOUS
  <2>1. ofile[FdIn(table[t], ch)] = <<t, ch>>
    BY <1>2 DEF Owned
  <2> QED
    BY <1>3, <2>1
<1>5. \A t \in Slots, ch \in Names :
        FdIn(table'[t], ch) = IF FdIn(table[t], ch) \in F THEN NoFd ELSE FdIn(table[t], ch)
  BY <1>1, <1>4
<1>6. \A t \in Slots : table'[t].running = table[t].running
  BY <1>1
<1>7. \A t \in Slots, ch \in Names : FdIn(table'[t], ch) # NoFd =>
        table'[t].running /\ ofile'[FdIn(table'[t], ch)] = <<t, ch>>
  <2> SUFFICES ASSUME NEW t \in Slots, NEW ch \in Names, FdIn(table'[t], ch) # NoFd
               PROVE  table'[t].running /\ ofile'[FdIn(table'[t], ch)] = <<t, ch>>
    OBVIOUS
  <2>1. /\ FdIn(table'[t], ch) = FdIn(table[t], ch) /\ FdIn(table[t], ch) \notin F
        /\ FdIn(table[t], ch) \in Fds
    BY <1>5, FdInType
  <2>2. table[t].running /\ ofile[FdIn(table[t], ch)] = <<t, ch>>
    BY <2>1 DEF Owned
  <2> QED
    BY <1>6, <2>1, <2>2
<1>8. \A f \in Fds : \A t \in Slots, ch \in Names :
        ofile'[f] = <<t, ch>> => FdIn(table'[t], ch) = f
  BY <1>5 DEF Owned
<1> QED
  BY <1>7, <1>8 DEF Owned

\* With nothing active and nothing open there is nothing to own.
LEMMA NothingOwned ==
  ASSUME table' = [s \in Slots |-> EmptyJob], \A f \in Fds : ofile'[f] \in {Closed, Leaked}
  PROVE  Owned(table', ofile') /\ ReapedHasNoStdin'
<1>1. \A s \in Slots : table'[s] = EmptyJob
  OBVIOUS
<1>2. \A ch \in Names : FdIn(EmptyJob, ch) = NoFd
  BY DEF FdIn, EmptyJob, Names
<1> QED
  BY <1>1, <1>2 DEF Owned, ReapedHasNoStdin, EmptyJob

\* What a step does to table and ofile keeps Owned and ReapedHasNoStdin.
OwnedNext == Owned(table', ofile') /\ ReapedHasNoStdin'

LEMMA UnchangedOwned ==
  ASSUME Owned(table, ofile), ReapedHasNoStdin, UNCHANGED <<table, ofile>> PROVE OwnedNext
BY DEF OwnedNext, ReapedHasNoStdin

\* A new entry takes descriptors that were free.
LEMMA SpawnOwned ==
  ASSUME ServerTypeOK, Owned(table, ofile), ReapedHasNoStdin,
         NEW j, NEW tty \in BOOLEAN, NEW s \in Slots, ~Active(s),
         NEW p \in Pids, NEW fds \in Wirings(tty),
         table' = [table EXCEPT ![s] = Entered(j, tty, p, fds)], ofile' = Wired(s, fds)
  PROVE  OwnedNext
<1> DEFINE new == Entered(j, tty, p, fds)
<1>1. /\ table'[s] = new /\ table'[s].running
      /\ \A t \in Slots \ {s} : table'[t] = table[t]
  BY DEF ServerTypeOK, Entered
<1>2. FdIn(new, "in") = fds.in /\ FdIn(new, "out") = fds.out /\ FdIn(new, "err") = fds.err
  BY DEF FdIn, Entered
<1>3. /\ fds.out \in Fds /\ fds.in \in Fds /\ fds.err \in Fds \cup {NoFd}
      /\ fds.out # fds.in /\ fds.out # fds.err /\ fds.in # fds.err
      /\ \A f \in {fds.out, fds.in, fds.err} \cap Fds : ofile[f] = Closed
  BY WiringsAreFree, FdsAssumption DEF FreeFds
<1>4. \A t \in Slots \ {s}, ch \in Names :
        FdIn(table[t], ch) # NoFd => FdIn(table[t], ch) \in Fds \ {fds.out, fds.in, fds.err}
  <2> SUFFICES ASSUME NEW t \in Slots \ {s}, NEW ch \in Names, FdIn(table[t], ch) # NoFd
               PROVE  FdIn(table[t], ch) \in Fds \ {fds.out, fds.in, fds.err}
    OBVIOUS
  <2>1. FdIn(table[t], ch) \in Fds /\ ofile[FdIn(table[t], ch)] = <<t, ch>>
    BY FdInType DEF Owned
  <2> QED
    BY <1>3, <2>1
<1>5. /\ ofile'[fds.in] = <<s, "in">> /\ ofile'[fds.out] = <<s, "out">>
      /\ fds.err # NoFd => ofile'[fds.err] = <<s, "err">>
      /\ \A f \in Fds \ {fds.out, fds.in, fds.err} : ofile'[f] = ofile[f]
  BY <1>3 DEF Wired
<1>6. \A t \in Slots, ch \in Names : FdIn(table'[t], ch) # NoFd =>
        table'[t].running /\ ofile'[FdIn(table'[t], ch)] = <<t, ch>>
  <2> SUFFICES ASSUME NEW t \in Slots, NEW ch \in Names, FdIn(table'[t], ch) # NoFd
               PROVE  table'[t].running /\ ofile'[FdIn(table'[t], ch)] = <<t, ch>>
    OBVIOUS
  <2>1. CASE t = s
    <3> HIDE DEF new
    <3>1. FdIn(new, ch) # NoFd => ofile'[FdIn(new, ch)] = <<s, ch>>
      BY <1>2, <1>5
    <3> QED
      BY <1>1, <2>1, <3>1
  <2>2. CASE t # s
    <3>1. /\ FdIn(table[t], ch) \in Fds \ {fds.out, fds.in, fds.err}
          /\ table[t].running /\ ofile[FdIn(table[t], ch)] = <<t, ch>>
      BY <1>1, <1>4, <2>2 DEF Owned
    <3>2. table'[t] = table[t] /\ ofile'[FdIn(table[t], ch)] = ofile[FdIn(table[t], ch)]
      BY <1>1, <1>5, <2>2, <3>1
    <3> QED
      BY <3>1, <3>2
  <2> QED
    BY <2>1, <2>2
<1>7. \A f \in Fds : \A t \in Slots, ch \in Names :
        ofile'[f] = <<t, ch>> => FdIn(table'[t], ch) = f
  <2> SUFFICES ASSUME NEW f \in Fds, NEW t \in Slots, NEW ch \in Names, ofile'[f] = <<t, ch>>
               PROVE  FdIn(table'[t], ch) = f
    OBVIOUS
  <2>1. CASE f \in {fds.out, fds.in, fds.err}
    <3> HIDE DEF new
    <3>1. \E c \in Names : f = FdIn(new, c) /\ ofile'[f] = <<s, c>>
      BY <1>2, <1>5, <2>1, FdsAssumption
    <3> QED
      BY <1>1, <3>1
  <2>2. CASE f \notin {fds.out, fds.in, fds.err}
    <3>1. ofile[f] = <<t, ch>>
      BY <1>5, <2>2
    <3>2. FdIn(table[t], ch) = f
      BY <3>1 DEF Owned
    <3>3. t # s
      <4>1. FdIn(table[t], ch) # NoFd
        BY <3>2, FdsAssumption
      <4> QED
        BY <4>1 DEF Owned, Active
    <3> QED
      BY <1>1, <3>2, <3>3
  <2> QED
    BY <2>1, <2>2
<1>8. ReapedHasNoStdin'
  BY <1>1, PidsAssumption DEF ReapedHasNoStdin, Entered
<1> QED
  BY <1>6, <1>7, <1>8 DEF OwnedNext, Owned

LEMMA SubmitOwned ==
  ASSUME ServerTypeOK, Owned(table, ofile), ReapedHasNoStdin,
         NEW j, NEW tty \in BOOLEAN, NEW before, SubmitJob(j, tty, before)
  PROVE  OwnedNext
<1>1. CASE NoScript(j, before) \/ NoSlot(j, before)
  BY <1>1, UnchangedOwned DEF NoScript, NoSlot
<1>2. CASE NoTransport(j, tty, before) \/ NoFork(j, tty, before)
  <2>1. table' = table
    BY <1>2 DEF NoTransport, NoFork
  <2>2. \E F \in SUBSET FreeFds :
          ofile' = [f \in Fds |-> IF f \in F THEN Leaked ELSE ofile[f]]
    <3>1. CASE NoTransport(j, tty, before)
      BY <3>1 DEF NoTransport, Dropped
    <3>2. CASE NoFork(j, tty, before)
      <4>1. PICK fds \in Wirings(tty) :
              ofile' = [f \in Fds |-> IF tty /\ f = fds.in THEN Leaked ELSE ofile[f]]
        BY <3>2 DEF NoFork
      <4>2. {f \in FreeFds : tty /\ f = fds.in} \in SUBSET FreeFds /\ fds.in \in FreeFds
        BY WiringsAreFree
      <4>3. ofile' = [f \in Fds |-> IF f \in {g \in FreeFds : tty /\ g = fds.in}
                                       THEN Leaked ELSE ofile[f]]
        BY <4>1, <4>2
      <4> QED
        BY <4>2, <4>3
    <3> QED
      BY <1>2, <3>1, <3>2
  <2> QED
    BY <2>1, <2>2, LeakKeepsOwned DEF OwnedNext, ReapedHasNoStdin
<1>3. CASE Spawned(j, tty, before)
  <2>1. \A s \in EmptySlot : s \in Slots /\ ~Active(s)
    BY DEF EmptySlot, First
  <2>2. FreePids \subseteq Pids
    BY DEF FreePids
  <2>3. PICK s \in EmptySlot, p \in FreePids, fds \in Wirings(tty) :
          table' = [table EXCEPT ![s] = Entered(j, tty, p, fds)] /\ ofile' = Wired(s, fds)
    BY <1>3, ZenonT(60) DEF Spawned
  <2> QED
    <3>1. s \in Slots /\ ~Active(s) /\ p \in Pids
      BY <2>1, <2>2
    <3> QED
      BY <2>3, <3>1, SpawnOwned
<1> QED
  BY <1>1, <1>2, <1>3 DEF SubmitJob

LEMMA RouteOwned ==
  ASSUME ServerTypeOK, Owned(table, ofile), ReapedHasNoStdin, RouteMessage
  PROVE  OwnedNext
<1>1. ASSUME NEW jid \in Jids, NEW payload \in Payloads, OnSubmitJob(jid, payload)
      PROVE  OwnedNext
  <2>1. payload \in PayloadKinds /\ payload # "script_tty_noterm"
    BY <1>1, InputsAssumption DEF OnSubmitJob
  <2>2. PICK tty \in TtyWanted(payload) : \E j, before : SubmitJob(j, tty, before)
    BY <1>1 DEF OnSubmitJob
  <2>3. tty \in BOOLEAN
    BY <2>1 DEF TtyWanted, PayloadKinds
  <2> QED
    BY <2>2, <2>3, SubmitOwned
<1>2. ASSUME NEW j \in Jids, StdinEof(j) PROVE OwnedNext
  <2>1. CASE UNCHANGED <<table, ofile>>
    BY <2>1, UnchangedOwned
  <2>2. ASSUME NEW s \in Slots, table[s].job_stdin # NoFd,
               ofile' = [ofile EXCEPT ![table[s].job_stdin] = Closed],
               table' = [table EXCEPT ![s] = AfterEof(s)]
        PROVE  OwnedNext
    <3> DEFINE fd == table[s].job_stdin
    <3>1. /\ FdIn(AfterEof(s), "in") = NoFd
          /\ FdIn(AfterEof(s), "out") = FdIn(table[s], "out")
          /\ FdIn(AfterEof(s), "err") = FdIn(table[s], "err")
          /\ FdIn(table[s], "in") = fd
          /\ AfterEof(s).running = table[s].running
          /\ AfterEof(s).job_pid = table[s].job_pid /\ AfterEof(s).job_stdin = NoFd
      BY DEF AfterEof, FdIn, ServerTypeOK, Entry
    <3>2. fd \in Fds /\ ofile[fd] = <<s, "in">>
      BY <2>2, <3>1, FdInType DEF Owned
    <3>3. FdIn(table[s], "out") # fd /\ FdIn(table[s], "err") # fd
      BY <2>2, <3>2 DEF Owned
    <3>4. ofile' = [f \in Fds |-> IF f \in {fd} THEN Closed ELSE ofile[f]]
      BY <2>2, <3>2 DEF ServerTypeOK
    <3>5. Owned(table', ofile')
      <4> HIDE DEF fd
      <4>1. \A ch \in Names : FdIn(AfterEof(s), ch) =
              IF FdIn(table[s], ch) \in {fd} THEN NoFd ELSE FdIn(table[s], ch)
        <5>1. ASSUME NEW ch \in Outputs
              PROVE  FdIn(AfterEof(s), ch) = FdIn(table[s], ch) /\ FdIn(table[s], ch) # fd
          BY <3>1, <3>3
        <5> QED
          BY <3>1, <5>1
      <4>2. \A f \in {fd} : \E ch \in Names : f = FdIn(table[s], ch)
        BY <3>1
      <4> DEFINE F == {fd}
      <4>3. /\ F \in SUBSET Fds
            /\ \A f \in F : \E ch \in Names : f = FdIn(table[s], ch)
            /\ \A ch \in Names : FdIn(AfterEof(s), ch) =
                 IF FdIn(table[s], ch) \in F THEN NoFd ELSE FdIn(table[s], ch)
            /\ ofile' = [f \in Fds |-> IF f \in F THEN Closed ELSE ofile[f]]
        BY <3>2, <3>4, <4>1, <4>2
      <4> HIDE DEF F
      <4> QED
        BY <2>2, <3>1, <4>3, CloseKeepsOwned
    <3>6. ReapedHasNoStdin'
      BY <2>2, <3>1 DEF ReapedHasNoStdin, ServerTypeOK
    <3> QED
      BY <3>5, <3>6 DEF OwnedNext
  <2> QED
    BY <1>2, <2>1, <2>2 DEF StdinEof, JobWithJid, First
<1>3. CASE Reload
  <2>1. CASE UNCHANGED <<table, ofile>>
    BY <2>1, UnchangedOwned
  <2>2. CASE /\ table' = [s \in Slots |-> EmptyJob]
             /\ ofile' = [f \in Fds |-> IF ofile[f] = Closed THEN Closed ELSE Leaked]
    BY <2>2, NothingOwned DEF OwnedNext
  <2> QED
    BY <1>3, <2>1, <2>2 DEF Reload
<1>4. CASE TtyWithoutTerm \/ Exit
  BY <1>4, NothingOwned DEF TtyWithoutTerm, Exit, Gone, OwnedNext
<1>5. ASSUME NEW j \in Jids, StdinWrite(j) \/ Signal(j) PROVE OwnedNext
  BY <1>5, UnchangedOwned DEF StdinWrite, Signal
<1>6. CASE Scram \/ Ping \/ RollCall
  BY <1>6, UnchangedOwned DEF Scram, Ping, RollCall
<1> QED
  BY <1>1, <1>2, <1>3, <1>4, <1>5, <1>6 DEF RouteMessage

\* What a poll closes is among the entry's own outputs, and at its end.
EndedFds(s) == {f \in {table[s].job_stdout, table[s].job_stderr} \cap Fds : ofile[f] \in Ended(s)}

LEMMA EndedFdsAre ==
  ASSUME ServerTypeOK, Owned(table, ofile), NEW s \in Slots
  PROVE  /\ FdIn(table[s], "in") \notin EndedFds(s)
         /\ FdIn(AfterPoll(s), "in") = FdIn(table[s], "in")
         /\ \A ch \in Outputs :
              /\ FdIn(AfterPoll(s), ch) = IF FdIn(table[s], ch) \in EndedFds(s) THEN NoFd
                                          ELSE FdIn(table[s], ch)
              /\ FdIn(table[s], ch) \in EndedFds(s) => <<s, ch>> \in Ended(s)
         /\ AfterPoll(s).running = table[s].running
         /\ AfterPoll(s).job_pid = table[s].job_pid
         /\ AfterPoll(s).job_stdin = table[s].job_stdin
<1>1. /\ FdIn(table[s], "in") = table[s].job_stdin
      /\ FdIn(table[s], "out") = table[s].job_stdout
      /\ FdIn(table[s], "err") = table[s].job_stderr
      /\ FdIn(AfterPoll(s), "in") = table[s].job_stdin
      /\ FdIn(AfterPoll(s), "out") = Kept(s, table[s].job_stdout)
      /\ FdIn(AfterPoll(s), "err") = Kept(s, table[s].job_stderr)
      /\ AfterPoll(s).running = table[s].running
      /\ AfterPoll(s).job_pid = table[s].job_pid
      /\ AfterPoll(s).job_stdin = table[s].job_stdin
  BY DEF FdIn, AfterPoll, ServerTypeOK, Entry
<1>2. \A ch \in Names : FdIn(table[s], ch) \in Fds => ofile[FdIn(table[s], ch)] = <<s, ch>>
  BY FdsAssumption DEF Owned
<1>3. \A ch \in Names : FdIn(table[s], ch) \in Fds \/ FdIn(table[s], ch) = NoFd
  BY FdInType
<1>4. NoFd \notin Fds
  BY FdsAssumption
<1>5. FdIn(table[s], "in") \notin EndedFds(s)
  <2> SUFFICES ASSUME FdIn(table[s], "in") \in EndedFds(s) PROVE FALSE
    OBVIOUS
  <2>1. FdIn(table[s], "in") \in Fds
        /\ \E ch \in Outputs : FdIn(table[s], "in") = FdIn(table[s], ch)
    BY <1>1 DEF EndedFds
  <2>2. \E ch \in Outputs : <<s, "in">> = <<s, ch>>
    BY <1>2, <2>1
  <2> QED
    BY <2>2
<1>6. \A ch \in Outputs : FdIn(table[s], ch) \in EndedFds(s) => <<s, ch>> \in Ended(s)
  BY <1>2 DEF EndedFds
<1>7. \A ch \in Outputs : Kept(s, FdIn(table[s], ch)) =
        IF FdIn(table[s], ch) \in EndedFds(s) THEN NoFd ELSE FdIn(table[s], ch)
  BY <1>1, <1>3, <1>4 DEF Kept, EndedFds
<1> QED
  BY <1>1, <1>5, <1>6, <1>7

LEMMA LoopOwned ==
  ASSUME ServerTypeOK, Owned(table, ofile), ReapedHasNoStdin, ServerLoop
  PROVE  OwnedNext
<1>1. CASE EndMqtt
  BY <1>1, UnchangedOwned DEF EndMqtt
<1>2. ASSUME NEW s \in Slots, PollJobOutput(s) PROVE OwnedNext
  <2> DEFINE F == EndedFds(s)
  <2>1. /\ F \in SUBSET Fds
        /\ ofile' = [f \in Fds |-> IF f \in F THEN Closed ELSE ofile[f]]
    BY <1>2 DEF PollJobOutput, EndedFds
  <2>2. \A f \in F : \E ch \in Names : f = FdIn(table[s], ch)
    BY ThreeFds DEF EndedFds
  <2>3. \A ch \in Names : FdIn(AfterPoll(s), ch) =
          IF FdIn(table[s], ch) \in F THEN NoFd ELSE FdIn(table[s], ch)
    <3>1. \A ch \in Names : ch = "in" \/ ch \in Outputs
      OBVIOUS
    <3> QED
      BY <3>1, EndedFdsAre
  <2>4. /\ table' = [table EXCEPT ![s] = AfterPoll(s)]
        /\ AfterPoll(s).running = table[s].running
        /\ AfterPoll(s).job_pid = table[s].job_pid
        /\ AfterPoll(s).job_stdin = table[s].job_stdin
    BY <1>2, EndedFdsAre DEF PollJobOutput
  <2>5. ReapedHasNoStdin'
    BY <2>4 DEF ReapedHasNoStdin, ServerTypeOK
  <2> HIDE DEF F
  <2>6. Owned(table', ofile')
    BY <2>1, <2>2, <2>3, <2>4, CloseKeepsOwned
  <2> QED
    BY <2>5, <2>6 DEF OwnedNext
<1>3. ASSUME NEW s \in Slots, CheckJobSubprocess(s) PROVE OwnedNext
  <2> DEFINE fd == table[s].job_stdin
             F == {fd} \cap Fds
  <2>1. CASE UNCHANGED <<table, ofile>>
    BY <2>1, UnchangedOwned
  <2>2. CASE /\ table' = [table EXCEPT ![s] = AfterWait(s)]
             /\ ofile' = [f \in Fds |-> IF f = fd THEN Closed ELSE ofile[f]]
    <3>1. /\ FdIn(AfterWait(s), "in") = NoFd /\ FdIn(table[s], "in") = fd
          /\ \A ch \in Outputs : FdIn(AfterWait(s), ch) = FdIn(table[s], ch)
          /\ AfterWait(s).running = table[s].running
          /\ AfterWait(s).job_stdin = NoFd
      BY DEF AfterWait, FdIn, ServerTypeOK, Entry
    <3>2. fd \in Fds => ofile[fd] = <<s, "in">>
      BY <3>1, FdsAssumption DEF Owned
    <3>3. \A ch \in Outputs : FdIn(table[s], ch) \notin F
      <4> SUFFICES ASSUME NEW ch \in Outputs, FdIn(table[s], ch) \in F PROVE FALSE
        OBVIOUS
      <4>1. FdIn(table[s], ch) = fd /\ fd \in Fds /\ fd # NoFd
        BY FdsAssumption
      <4>2. ofile[fd] = <<s, ch>>
        BY <4>1 DEF Owned
      <4> QED
        BY <3>2, <4>1, <4>2
    <3>4. \A ch \in Names : FdIn(AfterWait(s), ch) =
            IF FdIn(table[s], ch) \in F THEN NoFd ELSE FdIn(table[s], ch)
      <4>1. FdIn(table[s], "in") \in F \/ FdIn(table[s], "in") = NoFd
        BY <3>1, FdInType
      <4>2. \A ch \in Names : ch = "in" \/ ch \in Outputs
        OBVIOUS
      <4> HIDE DEF F, fd
      <4> QED
        BY <3>1, <3>3, <4>1, <4>2
    <3>5. /\ F \in SUBSET Fds
          /\ ofile' = [f \in Fds |-> IF f \in F THEN Closed ELSE ofile[f]]
          /\ \A f \in F : \E ch \in Names : f = FdIn(table[s], ch)
      BY <2>2, <3>1
    <3>6. ReapedHasNoStdin'
      BY <2>2, <3>1 DEF ReapedHasNoStdin, ServerTypeOK
    <3> HIDE DEF F
    <3>7. Owned(table', ofile')
      BY <2>2, <3>1, <3>4, <3>5, CloseKeepsOwned
    <3> QED
      BY <3>6, <3>7 DEF OwnedNext
  <2> QED
    BY <1>3, <2>1, <2>2 DEF CheckJobSubprocess
<1>4. ASSUME NEW s \in Slots, CollectJob(s) PROVE OwnedNext
  <2>1. CASE UNCHANGED <<table, ofile>>
    BY <2>1, UnchangedOwned
  <2>2. CASE JobDead(s) /\ table' = [table EXCEPT ![s] = EmptyJob] /\ ofile' = ofile
    <3>1. \A ch \in Names : FdIn(table[s], ch) = NoFd
      BY <2>2, ThreeFds DEF JobDead, ReapedHasNoStdin
    <3>2. \A ch \in Names : FdIn(EmptyJob, ch) = NoFd
      BY DEF FdIn, EmptyJob
    <3>3. table'[s] = EmptyJob /\ \A t \in Slots \ {s} : table'[t] = table[t]
      BY <2>2 DEF ServerTypeOK
    <3>4. \A t \in Slots, ch \in Names : FdIn(table'[t], ch) = FdIn(table[t], ch)
      BY <3>1, <3>2, <3>3
    <3>5. \A t \in Slots, ch \in Names :
            FdIn(table[t], ch) # NoFd => table'[t].running = table[t].running
      BY <3>1, <3>3
    <3>6. Owned(table', ofile')
      <4>1. \A t \in Slots, ch \in Names : FdIn(table'[t], ch) # NoFd =>
              table'[t].running /\ ofile'[FdIn(table'[t], ch)] = <<t, ch>>
        <5> SUFFICES ASSUME NEW t \in Slots, NEW ch \in Names, FdIn(table'[t], ch) # NoFd
                     PROVE  table'[t].running /\ ofile'[FdIn(table'[t], ch)] = <<t, ch>>
          OBVIOUS
        <5>1. FdIn(table[t], ch) = FdIn(table'[t], ch) /\ table'[t].running = table[t].running
          BY <3>4, <3>5
        <5>2. table[t].running /\ ofile[FdIn(table[t], ch)] = <<t, ch>>
          BY <5>1 DEF Owned
        <5> QED
          BY <2>2, <5>1, <5>2
      <4>2. \A f \in Fds : \A t \in Slots, ch \in Names :
              ofile'[f] = <<t, ch>> => FdIn(table'[t], ch) = f
        BY <2>2, <3>4 DEF Owned
      <4> QED
        BY <4>1, <4>2 DEF Owned
    <3>7. ReapedHasNoStdin'
      BY <3>3 DEF ReapedHasNoStdin, EmptyJob
    <3> QED
      BY <3>6, <3>7 DEF OwnedNext
  <2> QED
    BY <1>4, <2>1, <2>2 DEF CollectJob, os
<1> QED
  BY <1>1, <1>2, <1>3, <1>4 DEF ServerLoop

LEMMA StepOwned ==
  ASSUME ServerTypeOK, Owned(table, ofile), ReapedHasNoStdin, [Next]_vars
  PROVE  OwnedNext
<1>1. CASE ServerStops
  BY <1>1, NothingOwned DEF ServerStops, Interrupt, Die, Gone, OwnedNext
<1>2. CASE Environment
  <2>1. UNCHANGED <<table, ofile>>
    BY <1>2 DEF Environment, Setsid, ForkBackground, ForeignStarts, ForeignExits, OpenReplica,
                ReadStdin, WriteOutput, CloseChannel, ProcessExits, Unheard
  <2> QED
    BY <2>1, UnchangedOwned
<1>3. CASE (\E s \in Slots : StdinUnblocked(s)) \/ Start \/ UNCHANGED vars
  BY <1>3, UnchangedOwned DEF StdinUnblocked, Start, vars
<1> QED
  BY <1>1, <1>2, <1>3, RouteOwned, LoopOwned DEF Next

\* A field of the job table that is not -1 is open on the entry's own channel,
\* and what is open on a channel is named by an active entry: no handler closes,
\* reads or writes a number that was recycled, and a job that is collected
\* leaves none of its descriptors behind.
THEOREM DescriptorsAreOwned == Spec => [](DescriptorsOwned /\ ReapedHasNoStdin)
<1>1. Init => DescriptorsOwned /\ ReapedHasNoStdin
  <2> SUFFICES ASSUME Init PROVE DescriptorsOwned /\ ReapedHasNoStdin
    OBVIOUS
  <2>1. \A s \in Slots : table[s] = EmptyJob
    BY DEF Init
  <2>2. \A ch \in Names : FdIn(EmptyJob, ch) = NoFd
    BY DEF FdIn, EmptyJob
  <2>3. \A f \in Fds : ofile[f] = Closed
    BY DEF Init
  <2> QED
    BY <2>1, <2>2, <2>3, OwnedIsOwned DEF Owned, ReapedHasNoStdin, EmptyJob
<1>2. TypeOK /\ (DescriptorsOwned /\ ReapedHasNoStdin) /\ [Next]_vars
        => (DescriptorsOwned /\ ReapedHasNoStdin)'
  BY StepOwned, OwnedIsOwned, OwnedIsOwnedNext, TypeSplit DEF OwnedNext
<1> QED
  BY <1>1, <1>2, TypeCorrect, PTL DEF Spec

---------------------------------------------------------------------------
(* Output                                                                  *)

\* Nothing is in a channel and nobody can write to it, in this state and the next.
Dry(c) == unread[c] = 0 /\ holders[c] = {}
DryNext(c) == unread'[c] = 0 /\ holders'[c] = {}

LEMMA DrainedIs == ClosedIsDrained <=> \A s \in Slots, ch \in Outputs :
                                         FdIn(table[s], ch) = NoFd => Dry(<<s, ch>>)
BY DEF ClosedIsDrained, FdOf, FdIn, Dry

LEMMA DrainedIsNext ==
  ASSUME \A s \in Slots, ch \in Outputs : FdIn(table'[s], ch) = NoFd => DryNext(<<s, ch>>)
  PROVE  ClosedIsDrained'
BY DEF ClosedIsDrained, FdOf, FdIn, DryNext

\* A step that keeps the outputs' descriptors and makes no channel wet.
LEMMA DrainedSame ==
  ASSUME ClosedIsDrained,
         \A s \in Slots, ch \in Outputs : FdIn(table'[s], ch) = FdIn(table[s], ch),
         \A s \in Slots, ch \in Outputs : Dry(<<s, ch>>) => DryNext(<<s, ch>>)
  PROVE  ClosedIsDrained'
BY DrainedIs, DrainedIsNext

LEMMA DrainedFrame ==
  ASSUME ClosedIsDrained, UNCHANGED <<table, unread, holders>> PROVE ClosedIsDrained'
BY DEF ClosedIsDrained, FdOf

\* Deaths only close.
LEMMA PerishDrained ==
  ASSUME ClosedIsDrained, NEW D, Perish(D), UNCHANGED <<table, unread>> PROVE ClosedIsDrained'
<1>1. \A c \in Chans : holders[c] = {} => holders'[c] = {}
  BY DEF Perish
<1>2. \A s \in Slots, ch \in Outputs : <<s, ch>> \in Chans
  BY DEF Chans
<1> QED
  BY <1>1, <1>2, DrainedSame DEF Dry, DryNext

LEMMA GoneDrained == ASSUME Gone PROVE ClosedIsDrained'
<1>1. \A c \in Chans : DryNext(c)
  BY DEF Gone, DryNext
<1> QED
  BY <1>1, DrainedIsNext DEF Chans

LEMMA SpawnDrained ==
  ASSUME ServerTypeOK, ClosedIsDrained, NEW j, NEW tty \in BOOLEAN, NEW before,
         Spawned(j, tty, before)
  PROVE  ClosedIsDrained'
<1>1. PICK s \in EmptySlot, p \in FreePids, fds \in Wirings(tty) :
        /\ table' = [table EXCEPT ![s] = Entered(j, tty, p, fds)]
        /\ holders' = [c \in Chans |->
             IF c[1] # s THEN holders[c]
             ELSE IF ~tty THEN {Leader(p)}
             ELSE IF c[2] = "out" THEN {Unopened} ELSE {}]
        /\ unread' = [c \in Chans |-> IF c[1] = s THEN 0 ELSE unread[c]]
  BY ZenonT(60) DEF Spawned
<1>2. s \in Slots
  BY DEF EmptySlot, First
<1>3. /\ FdIn(table'[s], "out") = fds.out /\ FdIn(table'[s], "err") = fds.err
      /\ \A t \in Slots \ {s} : table'[t] = table[t]
  BY <1>1, <1>2 DEF FdIn, Entered, ServerTypeOK
<1>4. fds.out # NoFd /\ (fds.err = NoFd => tty)
  BY WiringsAreFree, FdsAssumption DEF FreeFds
<1>5. \A t \in Slots, ch \in Outputs : <<t, ch>> \in Chans
  BY DEF Chans
<1>6. fds.err = NoFd => DryNext(<<s, "err">>)
  BY <1>1, <1>2, <1>4, <1>5 DEF DryNext
<1>7. \A t \in Slots \ {s}, ch \in Outputs : Dry(<<t, ch>>) => DryNext(<<t, ch>>)
  BY <1>1, <1>5 DEF Dry, DryNext
<1>8. \A t \in Slots, ch \in Outputs : FdIn(table'[t], ch) = NoFd => DryNext(<<t, ch>>)
  <2> SUFFICES ASSUME NEW t \in Slots, NEW ch \in Outputs, FdIn(table'[t], ch) = NoFd
               PROVE  DryNext(<<t, ch>>)
    OBVIOUS
  <2>1. CASE t = s
    BY <1>3, <1>4, <1>6, <2>1
  <2>2. CASE t # s
    BY <1>3, <1>7, <2>2, DrainedIs
  <2> QED
    BY <2>1, <2>2
<1> QED
  BY <1>8, DrainedIsNext

LEMMA RouteDrained ==
  ASSUME ServerTypeOK, DescriptorsOwned, ClosedIsDrained, RouteMessage
  PROVE  ClosedIsDrained'
<1>1. ASSUME NEW jid \in Jids, NEW payload \in Payloads, OnSubmitJob(jid, payload)
      PROVE  ClosedIsDrained'
  <2>1. payload \in PayloadKinds /\ payload # "script_tty_noterm"
    BY <1>1, InputsAssumption DEF OnSubmitJob
  <2>2. PICK tty \in TtyWanted(payload) : \E j, before : SubmitJob(j, tty, before)
    BY <1>1 DEF OnSubmitJob
  <2>3. tty \in BOOLEAN
    BY <2>1 DEF TtyWanted, PayloadKinds
  <2>4. ASSUME NEW j, NEW before, SubmitJob(j, tty, before) PROVE ClosedIsDrained'
    <3>1. CASE NoScript(j, before) \/ NoSlot(j, before) \/ NoTransport(j, tty, before)
               \/ NoFork(j, tty, before)
      BY <3>1, DrainedFrame DEF NoScript, NoSlot, NoTransport, NoFork, os
    <3> QED
      BY <2>3, <2>4, <3>1, SpawnDrained DEF SubmitJob
  <2> QED
    BY <2>2, <2>4
<1>2. ASSUME NEW j \in Jids, StdinEof(j) PROVE ClosedIsDrained'
  <2>1. UNCHANGED <<unread, holders>>
    BY <1>2 DEF StdinEof, os
  <2>2. ASSUME NEW s \in Slots, table' = [table EXCEPT ![s] = AfterEof(s)]
        PROVE  ClosedIsDrained'
    <3>1. \A t \in Slots, ch \in Outputs : FdIn(table'[t], ch) = FdIn(table[t], ch)
      BY <2>2 DEF FdIn, AfterEof, ServerTypeOK, Entry
    <3> QED
      BY <2>1, <3>1, DrainedSame DEF Dry, DryNext
  <2> QED
    BY <1>2, <2>1, <2>2, DrainedFrame DEF StdinEof, JobWithJid, First
<1>3. CASE Reload
  <2>1. UNCHANGED <<unread, holders>>
    BY <1>3 DEF Reload, os
  <2>2. CASE \A s \in Slots : ~Active(s)
    <3>1. \A s \in Slots, ch \in Outputs : FdIn(table[s], ch) = NoFd
      BY <2>2, OwnedIsOwned DEF Owned, Active
    <3> QED
      BY <2>1, <3>1, DrainedIs, DrainedIsNext DEF Dry, DryNext
  <2> QED
    BY <1>3, <2>1, <2>2, DrainedFrame DEF Reload
<1>4. CASE TtyWithoutTerm \/ Exit
  BY <1>4, GoneDrained DEF TtyWithoutTerm, Exit
<1>5. ASSUME NEW j \in Jids, StdinWrite(j) PROVE ClosedIsDrained'
  BY <1>5, DrainedFrame DEF StdinWrite
<1>6. ASSUME NEW j \in Jids, Signal(j) PROVE ClosedIsDrained'
  BY <1>6, DrainedFrame, PerishDrained DEF Signal, os
<1>7. CASE Scram \/ Ping \/ RollCall
  BY <1>7, DrainedFrame, PerishDrained DEF Scram, Ping, RollCall, os
<1> QED
  BY <1>1, <1>2, <1>3, <1>4, <1>5, <1>6, <1>7 DEF RouteMessage

LEMMA LoopDrained ==
  ASSUME OsTypeOK, ServerTypeOK, DescriptorsOwned, ClosedIsDrained, ServerLoop
  PROVE  ClosedIsDrained'
<1>1. CASE EndMqtt
  BY <1>1, DrainedFrame DEF EndMqtt, os
<1>2. ASSUME NEW s \in Slots, PollJobOutput(s) PROVE ClosedIsDrained'
  <2>1. /\ table'[s] = AfterPoll(s) /\ \A t \in Slots \ {s} : table'[t] = table[t]
        /\ holders' = holders
        /\ unread' = [c \in Chans |-> IF c \in Readable(s) THEN unread[c] - 1 ELSE unread[c]]
    BY <1>2 DEF PollJobOutput, ServerTypeOK
  <2>2. \A c \in Chans : Dry(c) => DryNext(c)
    BY <2>1 DEF Readable, Dry, DryNext
  <2>3. \A t \in Slots, ch \in Outputs : <<t, ch>> \in Chans
    BY DEF Chans
  <2>4. \A t \in Slots, ch \in Outputs : FdIn(table'[t], ch) = NoFd => DryNext(<<t, ch>>)
    <3> SUFFICES ASSUME NEW t \in Slots, NEW ch \in Outputs, FdIn(table'[t], ch) = NoFd
                 PROVE  Dry(<<t, ch>>)
      BY <2>2, <2>3
    <3>1. CASE FdIn(table[t], ch) = NoFd
      BY <3>1, DrainedIs
    <3>2. CASE t = s /\ FdIn(table[s], ch) \in EndedFds(s)
      <4>1. <<s, ch>> \in Ended(s)
        BY <3>2, OwnedIsOwned, EndedFdsAre
      <4> QED
        BY <3>2, <4>1 DEF Ended, Dry
    <3>3. t = s \/ FdIn(table[t], ch) = NoFd
      BY <2>1
    <3>4. FdIn(table[s], ch) \in EndedFds(s) \/ FdIn(AfterPoll(s), ch) = FdIn(table[s], ch)
      BY OwnedIsOwned, EndedFdsAre
    <3> QED
      BY <2>1, <3>1, <3>2, <3>3, <3>4
  <2> QED
    BY <2>4, DrainedIsNext
<1>3. ASSUME NEW s \in Slots, CheckJobSubprocess(s) PROVE ClosedIsDrained'
  <2>1. UNCHANGED <<unread, holders>>
    BY <1>3 DEF CheckJobSubprocess
  <2>2. ASSUME table' = [table EXCEPT ![s] = AfterWait(s)] PROVE ClosedIsDrained'
    <3>1. \A t \in Slots, ch \in Outputs : FdIn(table'[t], ch) = FdIn(table[t], ch)
      BY <2>2 DEF FdIn, AfterWait, ServerTypeOK, Entry
    <3> QED
      BY <2>1, <3>1, DrainedSame DEF Dry, DryNext
  <2> QED
    BY <1>3, <2>1, <2>2, DrainedFrame DEF CheckJobSubprocess
<1>4. ASSUME NEW s \in Slots, CollectJob(s) PROVE ClosedIsDrained'
  <2>1. UNCHANGED <<unread, holders>>
    BY <1>4 DEF CollectJob, os
  <2>2. ASSUME JobDead(s), table' = [table EXCEPT ![s] = EmptyJob] PROVE ClosedIsDrained'
    <3>1. \A ch \in Outputs : FdIn(table[s], ch) = NoFd /\ FdIn(EmptyJob, ch) = NoFd
      BY <2>2 DEF JobDead, FdIn, EmptyJob
    <3>2. table'[s] = EmptyJob /\ \A t \in Slots \ {s} : table'[t] = table[t]
      BY <2>2 DEF ServerTypeOK
    <3>3. \A t \in Slots, ch \in Outputs : FdIn(table'[t], ch) = FdIn(table[t], ch)
      BY <3>1, <3>2
    <3> QED
      BY <2>1, <3>3, DrainedSame DEF Dry, DryNext
  <2> QED
    BY <1>4, <2>1, <2>2, DrainedFrame DEF CollectJob
<1> QED
  BY <1>1, <1>2, <1>3, <1>4 DEF ServerLoop

LEMMA EnvironmentDrained ==
  ASSUME OsTypeOK, ClosedIsDrained, Environment PROVE ClosedIsDrained'
<1>1. table' = table
  BY DEF Environment, Setsid, ForkBackground, ForeignStarts, ForeignExits, OpenReplica,
         ReadStdin, WriteOutput, CloseChannel, ProcessExits, Unheard
<1>2. \A s \in Slots, ch \in Outputs : <<s, ch>> \in Chans
  BY DEF Chans
<1>3. ASSUME NEW s \in Slots, OpenReplica(s) PROVE ClosedIsDrained'
  <2>1. \A c \in Chans : c[2] \in Outputs /\ holders[c] = {} => holders'[c] = {}
    BY <1>3 DEF OpenReplica, OsTypeOK
  <2>2. unread' = unread
    BY <1>3 DEF OpenReplica
  <2> QED
    BY <1>1, <1>2, <2>1, <2>2, DrainedSame DEF Dry, DryNext
<1>4. ASSUME NEW c \in Chans, WriteOutput(c) PROVE ClosedIsDrained'
  <2>1. \A d \in Chans : holders[d] = {} => unread'[d] = unread[d] /\ holders'[d] = {}
    BY <1>4 DEF WriteOutput, OsTypeOK
  <2> QED
    BY <1>1, <1>2, <2>1, DrainedSame DEF Dry, DryNext
<1>5. ASSUME NEW c \in Chans, NEW x \in Procs, CloseChannel(c, x) PROVE ClosedIsDrained'
  <2>1. unread' = unread /\ \A d \in Chans : holders[d] = {} => holders'[d] = {}
    BY <1>5 DEF CloseChannel, OsTypeOK
  <2> QED
    BY <1>1, <1>2, <2>1, DrainedSame DEF Dry, DryNext
<1>6. ASSUME NEW p \in Pids, ForkBackground(p) PROVE ClosedIsDrained'
  <2>1. unread' = unread /\ \A d \in Chans : holders[d] = {} => holders'[d] = {}
    BY <1>6 DEF ForkBackground
  <2> QED
    BY <1>1, <1>2, <2>1, DrainedSame DEF Dry, DryNext
<1>7. ASSUME NEW x \in Procs, ProcessExits(x) PROVE ClosedIsDrained'
  BY <1>1, <1>7, PerishDrained DEF ProcessExits
<1>8. ASSUME UNCHANGED <<holders, unread>> PROVE ClosedIsDrained'
  BY <1>1, <1>8, DrainedFrame
<1> QED
  BY <1>3, <1>4, <1>5, <1>6, <1>7, <1>8
  DEF Environment, Setsid, ForeignStarts, ForeignExits, ReadStdin

LEMMA StepDrained ==
  ASSUME OsTypeOK, ServerTypeOK, DescriptorsOwned, ClosedIsDrained, [Next]_vars
  PROVE  ClosedIsDrained'
<1>1. CASE ServerStops
  BY <1>1, GoneDrained DEF ServerStops, Interrupt, Die
<1>2. CASE (\E s \in Slots : StdinUnblocked(s)) \/ Start \/ UNCHANGED vars
  BY <1>2, DrainedFrame DEF StdinUnblocked, Start, os, vars
<1> QED
  BY <1>1, <1>2, RouteDrained, LoopDrained, EnvironmentDrained DEF Next

\* The only step of a running server that gives up an entry is collect_job's:
\* a reload looks at the table first and gives up none.
LEMMA OnlyCollected ==
  ASSUME ServerTypeOK, [Next]_vars, NEW s \in Slots, Active(s), ~Active(s)',
         pc' # <<"down", 0>>
  PROVE  JobDead(s)
<1>1. table'[s].running # table[s].running
  BY DEF Active
<1>2. CASE ServerLoop
  <2>1. ASSUME NEW t \in Slots, CollectJob(t) PROVE JobDead(s)
    BY <1>1, <2>1 DEF CollectJob, ServerTypeOK
  <2>2. ASSUME NEW t \in Slots, PollJobOutput(t) \/ CheckJobSubprocess(t) PROVE FALSE
    <3>1. \/ table' = table
          \/ table' = [table EXCEPT ![t] = AfterPoll(t)]
          \/ table' = [table EXCEPT ![t] = AfterWait(t)]
      BY <2>2 DEF PollJobOutput, CheckJobSubprocess
    <3> QED
      BY <1>1, <3>1, RunningKept DEF ServerTypeOK
  <2> QED
    BY <1>1, <1>2, <2>1, <2>2 DEF ServerLoop, EndMqtt
<1>3. CASE RouteMessage
  <2>1. ASSUME NEW j, NEW tty, NEW before, SubmitJob(j, tty, before) PROVE FALSE
    <3>1. CASE Spawned(j, tty, before)
      <4>1. PICK t \in EmptySlot, p \in FreePids, fds \in Wirings(tty) :
              /\ table' = [table EXCEPT ![t] = Entered(j, tty, p, fds)]
              /\ ofile' = Wired(t, fds)
        BY <3>1, ZenonT(60) DEF Spawned
      <4> QED
        BY <4>1 DEF EmptySlot, First, Active, ServerTypeOK
    <3> QED
      BY <1>1, <2>1, <3>1 DEF SubmitJob, NoScript, NoSlot, NoTransport, NoFork
  <2>2. ASSUME NEW jid \in Jids, NEW payload \in Payloads, OnSubmitJob(jid, payload) PROVE FALSE
    BY <2>1, <2>2 DEF OnSubmitJob
  <2>3. ASSUME NEW j \in Jids, StdinEof(j) PROVE FALSE
    <3>1. table' = table \/ \E t \in Slots : table' = [table EXCEPT ![t] = AfterEof(t)]
      BY <2>3 DEF StdinEof, JobWithJid, First
    <3> QED
      BY <1>1, <3>1, RunningKept DEF ServerTypeOK
  <2>4. CASE TtyWithoutTerm \/ Exit
    BY <2>4 DEF TtyWithoutTerm, Exit, Gone
  <2>5. CASE Reload
    BY <1>1, <2>5 DEF Reload, Active
  <2> QED
    BY <1>1, <1>3, <2>2, <2>3, <2>4, <2>5
    DEF RouteMessage, StdinWrite, Signal, Scram, Ping, RollCall
<1>4. CASE Environment
  <2>1. table' = table
    BY <1>4 DEF Environment, Setsid, ForkBackground, ForeignStarts, ForeignExits, OpenReplica,
                ReadStdin, WriteOutput, CloseChannel, ProcessExits, Unheard
  <2> QED
    BY <1>1, <2>1
<1> QED
  BY <1>1, <1>2, <1>3, <1>4
  DEF Next, ServerStops, Interrupt, Die, Gone, StdinUnblocked, Start, vars

\* A channel that the entry has closed, or never had, is empty and has no writer.
LEMMA ClosedStaysDrained == Spec => []ClosedIsDrained
<1>1. Init => ClosedIsDrained
  BY DEF Init, ClosedIsDrained, Chans
<1>2. (TypeOK /\ DescriptorsOwned) /\ ClosedIsDrained /\ [Next]_vars => ClosedIsDrained'
  BY StepDrained, TypeSplit
<1> QED
  BY <1>1, <1>2, TypeCorrect, DescriptorsAreOwned, PTL DEF Spec

\* A running server publishes "stopped" and frees the entry only when the job's
\* leader was reaped and each output is empty and has no writer left.
THEOREM OutputIsDrained == Spec => DrainedBeforeStopped
<1> DEFINE Drains == \A s \in Slots : Active(s) /\ ~Active(s)' /\ pc' # <<"down", 0>> =>
                       /\ table[s].job_pid = NoPid
                       /\ \A ch \in Outputs : unread[<<s, ch>>] = 0 /\ holders[<<s, ch>>] = {}
<1>1. TypeOK /\ ClosedIsDrained /\ [Next]_vars => [Drains]_vars
  <2> SUFFICES ASSUME ServerTypeOK, ClosedIsDrained, [Next]_vars PROVE Drains
    BY TypeSplit
  <2> SUFFICES ASSUME NEW s \in Slots, Active(s), ~Active(s)', pc' # <<"down", 0>>
               PROVE  /\ table[s].job_pid = NoPid
                      /\ \A ch \in Outputs : unread[<<s, ch>>] = 0 /\ holders[<<s, ch>>] = {}
    OBVIOUS
  <2>1. JobDead(s)
    BY OnlyCollected
  <2>2. \A ch \in Outputs : FdIn(table[s], ch) = NoFd
    BY <2>1, ThreeFds DEF JobDead
  <2> QED
    BY <2>1, <2>2, DrainedIs DEF JobDead, Dry
<1> HIDE DEF Drains
<1>2. Spec => [][Drains]_vars
  BY <1>1, TypeCorrect, ClosedStaysDrained, PTL DEF Spec
<1> USE DEF Drains
<1> QED
  BY <1>2 DEF DrainedBeforeStopped

=============================================================================
