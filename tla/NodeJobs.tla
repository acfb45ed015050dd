---------------------------- MODULE NodeJobs ----------------------------
(***************************************************************************)
(* The node server: its job table (node-server/src/jobs.c), the decoding   *)
(* and routing of the commands that reach it (controller.c), and its       *)
(* single-threaded main loop (gm-node.c), together with the part of the    *)
(* operating system the job table depends on: process ids and process      *)
(* groups, file descriptors, pipes and pseudo-terminals.                   *)
(*                                                                         *)
(* The server alternates between one MQTT event and a pass over the job    *)
(* table. `pc` says where it is; job processes and the kernel take steps   *)
(* between any two steps of the server.                                    *)
(***************************************************************************)
EXTENDS Integers, FiniteSets, Sequences

CONSTANTS
  MAX_JOBS,      \* slots of the job table (gm-node-config.h)
  Pids,          \* process ids the kernel may hand out
  Fds,           \* file descriptor numbers the server may hold open
  Jids,          \* job ids that occur in submit, stdin, eof and signal topics
  Payloads,      \* kinds of submit payload that arrive
  Topics,        \* the topics that arrive, as gm_route_message tells them apart
  Failures,      \* the system calls of a submit that may fail for want of resources
  Habits,        \* what processes do beside reading, writing and exiting
  FirstMadeUp,   \* first job id made up for a submit that carries jid 0 (777)
  MaxMadeUp,     \* bound: job ids made up per life of the server
  MaxUnread      \* capacity of a pipe or terminal queue, in buffer-sized chunks

NoPid == 0
NoFd == -1

\* What a submit payload decodes to: JSON with a script; the same with a tty
\* object, with or without a string "term"; JSON without a script; not JSON.
PayloadKinds ==
  {"script", "script_tty", "script_tty_noterm", "malformed", "legacy"}

TopicKinds ==
  {"submit", "stdin", "eof", "signal", "scram", "exit", "reload", "ping", "roll_call"}

FailureKinds == {"mkstemp", "transport", "fork"}
HabitKinds == {"background", "close", "foreign"}

ASSUME JobsAssumption == MAX_JOBS \in Nat \ {0}
ASSUME PidsAssumption == NoPid \notin Pids
ASSUME FdsAssumption == Fds \subseteq Nat
ASSUME JidsAssumption == Jids \subseteq Nat /\ FirstMadeUp \in Nat \ {0}
ASSUME InputsAssumption == Payloads \subseteq PayloadKinds /\ Topics \subseteq TopicKinds
ASSUME KernelAssumption == Failures \subseteq FailureKinds /\ Habits \subseteq HabitKinds
ASSUME BoundsAssumption == MaxMadeUp \in Nat /\ MaxUnread \in Nat \ {0}

VARIABLES
  pc,          \* what the server's thread does next: <<what, slot>>
  table,       \* job_table
  ofile,       \* the server's descriptor table: what each number is open on
  jidCounter,  \* jid_counter of on_submit_job
  pub,         \* the messages the last step handed to mosquitto_publish
  scripts,     \* script files on disk: the slot that owns one, or Stray
  proc,        \* kernel: what each process id names
  bg,          \* kernel: does the group of that id have a background member
  holders,     \* kernel: the processes that hold the job's end of a channel
  heirs,       \* kernel: processes that inherited the server's end of stdin
  unread,      \* kernel: chunks of output the server has not read
  inq          \* kernel: chunks of stdin the job has not read

server == <<pc, table, ofile, jidCounter, pub, scripts>>
os == <<proc, bg, holders, heirs, unread, inq>>
vars == <<pc, table, ofile, jidCounter, pub, scripts, proc, bg, holders, heirs,
          unread, inq>>

---------------------------------------------------------------------------
Slots == 1..MAX_JOBS
Outputs == {"out", "err"}
Chans == Slots \X {"in", "out", "err"}
Closed == <<0, "closed">>
Leaked == <<0, "leaked">>        \* open, but no variable of the server names it
Stray == 0                       \* a script file that no job will unlink

\* Processes of a job: its leader (the shell that was exec'd) and the
\* background processes that stay in its process group.
Procs == Pids \X {"leader", "bg"}
Leader(p) == <<p, "leader">>
Background(p) == <<p, "bg">>
\* The replica end of a pty before the child has opened it. Linux reports no
\* hangup on the master until the replica has been opened and closed again.
Unopened == <<NoPid, "unopened">>

\* struct job without exit_stat, on_write and stdout_sent. An inactive entry
\* is meaningless (jobs.c:451); here it is always the one init_job makes.
EmptyJob == [running |-> FALSE, job_id |-> 0, job_pid |-> NoPid, tty |-> FALSE,
             job_stdin |-> NoFd, job_stdout |-> NoFd, job_stderr |-> NoFd]

Active(s) == table[s].running
\* The first of a set of slots, as a set: what job_with_jid and
\* empty_job_slot return, {} standing for NULL.
First(S) == {s \in S : \A t \in S : s <= t}
JobWithJid(j) == First({s \in Slots : Active(s) /\ table[s].job_id = j})
EmptySlot == First({s \in Slots : ~Active(s)})

MessageKinds == {"startup", "reject", "stopped", "output", "roll_call", "announce",
                 "connect", "disconnect"}
Message(kind, jids) == [kind |-> kind, jids |-> jids]
Status(kind, j) == <<Message(kind, {j})>>
Announce == <<Message("announce", {})>>

FreeFds == {f \in Fds : ofile[f] = Closed}
\* POSIX hands out the lowest numbers. The free number with n free ones below
\* it, as a set that is empty when there is none.
NthFree(n) == {f \in FreeFds : Cardinality({g \in FreeFds : g < f}) = n}
FreePids == {p \in Pids : proc[p] = "free" /\ ~bg[p]}

InMqtt == pc = <<"mqtt", 0>>
Up == pc # <<"down", 0>>

---------------------------------------------------------------------------
(* Signals and process death                                               *)

\* The terminals that hang up because their session leader is in D.
HungUp(D) == {s \in Slots : /\ Active(s) /\ table[s].tty
                            /\ Leader(table[s].job_pid) \in D
                            /\ Unopened \notin holders[<<s, "out">>]}

\* The processes in D die: the kernel closes what they hold, and a leader
\* stays behind as a zombie until the server waits for it.
Perish(D) ==
  /\ proc' = [p \in Pids |-> IF Leader(p) \in D THEN "zombie" ELSE proc[p]]
  /\ bg' = [p \in Pids |-> bg[p] /\ Background(p) \notin D]
  /\ holders' = [c \in Chans |-> IF c[1] \in HungUp(D) THEN {} ELSE holders[c] \ D]
  /\ heirs' = [s \in Slots |-> heirs[s] \ D]

\* The living members of the process groups named by P. A child that has not
\* called setsid yet is still in the server's own group.
Members(P) == {Leader(p) : p \in {q \in P : proc[q] = "session"}}
              \cup {Background(p) : p \in {q \in P : bg[q]}}

---------------------------------------------------------------------------
(* Submitting a job                                                        *)

\* Values ttyspec.set can have when submit_job reads it: on_submit_job leaves
\* it uninitialised when it did not find a script in a JSON object.
TtyWanted(payload) == CASE payload = "script" -> {FALSE}
                        [] payload = "script_tty" -> {TRUE}
                        [] payload \in {"malformed", "legacy"} -> BOOLEAN

\* The descriptors spawn_job keeps, as a function from the job's channels: it
\* creates both ends of stdout, of stderr and of stdin in that order, or a pty
\* master (stdout) and its duplicate (stdin).
Wirings(tty) ==
  IF tty
    THEN {[out |-> m, err |-> NoFd, in |-> d] : m \in NthFree(0), d \in NthFree(1)}
    ELSE {[out |-> r, err |-> e, in |-> w] :
            r \in NthFree(0), e \in NthFree(2), w \in NthFree(5)}

\* The descriptors the server is left with when transport creation stops
\* after n pipes: nothing names them once init_job has run on the slot again.
Dropped(n) == {f \in FreeFds : Cardinality({g \in FreeFds : g < f}) < 2 * n}

\* mkstemp failed, or the job table is full: job_rm_temp is not reached, so in
\* the second case the script stays on disk.
NoScript(j, before) ==
  /\ "mkstemp" \in Failures
  /\ pub' = before \o Status("reject", j)
  /\ UNCHANGED <<pc, table, ofile, scripts, os>>

NoSlot(j, before) ==
  /\ EmptySlot = {}
  /\ scripts' = scripts \cup {Stray}
  /\ pub' = before \o Status("reject", j)
  /\ UNCHANGED <<pc, table, ofile, os>>

\* pipe() or posix_openpt failed, always so when the numbers run out; the
\* pipes made before are never closed.
NoTransport(j, tty, before) ==
  /\ EmptySlot # {}
  /\ \E n \in 0..2 :
       /\ tty => n = 0
       /\ "transport" \in Failures \/ Cardinality(FreeFds) < 2 * n + 2
       /\ 2 * n <= Cardinality(FreeFds)
       /\ ofile' = [f \in Fds |-> IF f \in Dropped(n) THEN Leaked ELSE ofile[f]]
  /\ pub' = before \o Status("reject", j)
  /\ UNCHANGED <<pc, table, scripts, os>>

\* fork failed: init_job forgets temp_path before job_rm_temp looks at it, and
\* the duplicate of a pty master is not among the descriptors closed.
NoFork(j, tty, before) ==
  /\ "fork" \in Failures /\ EmptySlot # {}
  /\ \E fds \in Wirings(tty) :
       ofile' = [f \in Fds |-> IF tty /\ f = fds.in THEN Leaked ELSE ofile[f]]
  /\ scripts' = scripts \cup {Stray}
  /\ pub' = before \o Status("reject", j)
  /\ UNCHANGED <<pc, table, os>>

\* The entry of a new job, and the server's descriptor table with it.
Entered(j, tty, p, fds) ==
  [running |-> TRUE, job_id |-> j, job_pid |-> p, tty |-> tty,
   job_stdin |-> fds.in, job_stdout |-> fds.out, job_stderr |-> fds.err]
Wired(s, fds) == [f \in Fds |-> CASE f = fds.out -> <<s, "out">>
                                 [] f = fds.err -> <<s, "err">>
                                 [] f = fds.in -> <<s, "in">>
                                 [] OTHER -> ofile[f]]

\* fork succeeded. The child holds the job's ends of its own channels and,
\* nothing being close-on-exec, the server's end of every open stdin.
Spawned(j, tty, before) ==
  \E s \in EmptySlot :
  /\ \E p \in FreePids, fds \in Wirings(tty) :
       /\ table' = [table EXCEPT ![s] = Entered(j, tty, p, fds)]
       /\ ofile' = Wired(s, fds)
       /\ proc' = [proc EXCEPT ![p] = "forked"]
       /\ holders' = [c \in Chans |->
            IF c[1] # s THEN holders[c]
            ELSE IF ~tty THEN {Leader(p)}
            ELSE IF c[2] = "out" THEN {Unopened} ELSE {}]
       /\ heirs' = [t \in Slots |->
            IF t = s THEN IF tty THEN {Leader(p)} ELSE {}
            ELSE IF Active(t) /\ table[t].job_stdin # NoFd THEN heirs[t] \cup {Leader(p)}
            ELSE heirs[t]]
  /\ unread' = [c \in Chans |-> IF c[1] = s THEN 0 ELSE unread[c]]
  /\ inq' = [inq EXCEPT ![s] = 0]
  /\ scripts' = scripts \cup {s}
  /\ pub' = before \o Status("startup", j)
  /\ UNCHANGED <<pc, bg>>

SubmitJob(j, tty, before) ==
  \/ NoScript(j, before)
  \/ NoSlot(j, before)
  \/ NoTransport(j, tty, before)
  \/ NoFork(j, tty, before)
  \/ Spawned(j, tty, before)

\* A payload without a script is rejected and submitted all the same.
Objection(payload, j) == IF payload = "malformed" THEN Status("reject", j) ELSE <<>>

OnSubmitJob(jid, payload) ==
  /\ InMqtt /\ payload # "script_tty_noterm"
  /\ jid = 0 => jidCounter < FirstMadeUp + MaxMadeUp
  /\ jidCounter' = IF jid = 0 THEN jidCounter + 1 ELSE jidCounter
  /\ \E tty \in TtyWanted(payload) :
       SubmitJob(IF jid = 0 THEN jidCounter ELSE jid, tty, Objection(payload, jid))

---------------------------------------------------------------------------
(* Commands about a job that is already there                              *)

\* Where a write to the job's stdin can go: its descriptor is open, on the
\* channel it names, and some process can still read from that. Otherwise
\* job_stdin_write fails with ESRCH, EBADF, EPIPE or EIO.
Listening(j) == {s \in JobWithJid(j) :
  LET fd == table[s].job_stdin IN
  /\ fd # NoFd
  /\ ofile[fd] \in Chans
  /\ holders[ofile[fd]] # {}}
StdinOf(s) == ofile[table[s].job_stdin][1]

StdinRefused(j) ==
  /\ Listening(j) = {}
  /\ pub' = Announce
  /\ UNCHANGED <<pc, inq>>

MutantNoRoom(j) ==
  /\ \E s \in Listening(j) : inq' = [inq EXCEPT ![StdinOf(s)] = @ + 1]
  /\ pub' = <<>>
  /\ UNCHANGED pc

StdinTaken(j) ==
  /\ \E s \in Listening(j) :
       /\ inq[StdinOf(s)] < MaxUnread
       /\ inq' = [inq EXCEPT ![StdinOf(s)] = @ + 1]
  /\ pub' = <<>>
  /\ UNCHANGED pc

\* No room: a pipe is non-blocking and says EAGAIN, a pty master blocks.
StdinFull(j) ==
  /\ \E s \in Listening(j) :
       /\ inq[StdinOf(s)] = MaxUnread
       /\ IF table[s].tty THEN pc' = <<"write", StdinOf(s)>> /\ pub' = <<>>
                          ELSE pc' = pc /\ pub' = Announce
  /\ UNCHANGED inq

\* The topic <node>/stdin/<jid>.
StdinWrite(j) ==
  /\ InMqtt
  /\ StdinRefused(j) \/ StdinTaken(j) \/ StdinFull(j)
  /\ UNCHANGED <<table, ofile, jidCounter, scripts, proc, bg, holders, heirs, unread>>

\* The blocked write goes on: there is room again, or nobody is left to read.
StdinUnblocked(s) ==
  /\ pc = <<"write", s>> /\ pc' = <<"mqtt", 0>>
  /\ \/ /\ holders[<<s, "in">>] # {} /\ inq[s] < MaxUnread
        /\ inq' = [inq EXCEPT ![s] = @ + 1]
        /\ pub' = <<>>
     \/ /\ holders[<<s, "in">>] = {}
        /\ pub' = Announce
        /\ UNCHANGED inq
  /\ UNCHANGED <<table, ofile, jidCounter, scripts, proc, bg, holders, heirs, unread>>

\* What job_stdin_eof leaves of the entry.
AfterEof(s) == [table[s] EXCEPT !.job_stdin = NoFd]

\* The topic <node>/eof/<jid>.
StdinEof(j) ==
  /\ InMqtt
  /\ LET open == {s \in JobWithJid(j) : table[s].job_stdin # NoFd} IN
     \/ /\ open = {}
        /\ pub' = Announce
        /\ UNCHANGED <<table, ofile>>
     \/ \E s \in open :
          /\ ofile' = [ofile EXCEPT ![table[s].job_stdin] = Closed]
          /\ table' = [table EXCEPT ![s] = AfterEof(s)]
          /\ pub' = <<>>
  /\ UNCHANGED <<pc, jidCounter, scripts, os>>

\* The topic <node>/signal/<jid>/<signum>. killpg finds a group once the
\* child has called setsid; the group may ignore the signal or die of it.
Signal(j) ==
  /\ InMqtt
  /\ LET groups == {table[s].job_pid : s \in JobWithJid(j)} \ {NoPid}
         present == {p \in groups : proc[p] \notin {"forked", "free"}}
     IN \/ /\ present = {}
           /\ pub' = Announce
           /\ UNCHANGED os
        \/ /\ present # {}
           /\ pub' = <<>>
           /\ \E D \in {{}, Members(present)} : Perish(D)
           /\ UNCHANGED <<unread, inq>>
  /\ UNCHANGED <<pc, table, ofile, jidCounter, scripts>>

\* The topics <node>/scram and grid/scram: kill_job for every active entry,
\* which does nothing once the leader was reaped (job_pid is 0), or while the
\* child still shares the server's process group.
KillJob(S) == {table[s].job_pid : s \in S} \ {NoPid}
Scram ==
  /\ InMqtt
  /\ Perish(Members(KillJob({s \in Slots : Active(s)})))
  /\ pub' = <<>>
  /\ UNCHANGED <<pc, table, ofile, jidCounter, scripts, unread, inq>>

\* grid/roll_call and grid/ping.
MutantAllEntries == {table[s].job_id : s \in Slots}
ActiveJids == {table[s].job_id : s \in {t \in Slots : Active(t)}}

RollCall ==
  /\ InMqtt
  /\ pub' = <<Message("roll_call", ActiveJids)>>
  /\ UNCHANGED <<pc, table, ofile, jidCounter, scripts, os>>

Ping ==
  /\ InMqtt
  /\ pub' = <<Message("connect", {})>>
  /\ UNCHANGED <<pc, table, ofile, jidCounter, scripts, os>>

---------------------------------------------------------------------------
(* The end of the server, and its return                                   *)

\* The process is gone: its memory and descriptors with it. Jobs it still had
\* run on as somebody else's children; zombies are reaped by init.
Gone ==
  /\ table' = [s \in Slots |-> EmptyJob]
  /\ ofile' = [f \in Fds |-> Closed]
  /\ proc' = [p \in Pids |-> IF proc[p] \in {"forked", "session"} \/ bg[p] THEN "foreign"
                              ELSE IF proc[p] = "zombie" THEN "free" ELSE proc[p]]
  /\ bg' = [p \in Pids |-> FALSE]
  /\ holders' = [c \in Chans |-> {}]
  /\ heirs' = [s \in Slots |-> {}]
  /\ unread' = [c \in Chans |-> 0]
  /\ inq' = [s \in Slots |-> 0]
  /\ scripts' = IF scripts = {} THEN {} ELSE {Stray}
  /\ jidCounter' = FirstMadeUp
  /\ pc' = <<"down", 0>>

Farewell == <<Message("disconnect", {})>>

\* The topic <node>/exit; SIGINT, whose handler runs the same gm_shutdown
\* between any two steps; dying of anything else, a fatal error or the kernel;
\* and a tty object without a term, which makes strncpy read a null pointer.
Exit == InMqtt /\ Gone /\ pub' = Farewell
Interrupt == Up /\ Gone /\ pub' = Farewell
Die == Up /\ Gone /\ pub' = <<>>
TtyWithoutTerm == InMqtt /\ "script_tty_noterm" \in Payloads /\ Gone /\ pub' = <<>>

\* The topic <node>/reload: the server replaces its own image and starts
\* afresh; descriptors it has open stay open and are forgotten.
Reload ==
  /\ InMqtt
  /\ \/ /\ \E s \in Slots : Active(s)
        /\ pub' = Announce
        /\ UNCHANGED <<table, ofile, jidCounter, scripts>>
     \/ /\ \A s \in Slots : ~Active(s)
        /\ table' = [s \in Slots |-> EmptyJob]
        /\ ofile' = [f \in Fds |-> IF ofile[f] = Closed THEN Closed ELSE Leaked]
        /\ jidCounter' = FirstMadeUp
        /\ scripts' = IF scripts = {} THEN {} ELSE {Stray}
        /\ pub' = Farewell
  /\ UNCHANGED <<pc, os>>

\* main up to the event loop; the node announces itself once it is connected.
Start ==
  /\ pc = <<"down", 0>> /\ pc' = <<"mqtt", 0>>
  /\ pub' = <<Message("connect", {})>>
  /\ UNCHANGED <<table, ofile, jidCounter, scripts, os>>

---------------------------------------------------------------------------
(* The pass over the job table                                             *)

\* The main loop is about to look at the first active entry from i on, or
\* goes back to MQTT when there is none.
Visit(i) == LET ahead == First({s \in i..MAX_JOBS : Active(s)}) IN
            IF ahead = {} THEN {<<"mqtt", 0>>} ELSE {<<"poll", s>> : s \in ahead}

EndMqtt ==
  /\ InMqtt
  /\ pc' \in Visit(1)
  /\ pub' = <<>>
  /\ UNCHANGED <<table, ofile, jidCounter, scripts, os>>

\* The output channels the entry's descriptors are open on, those with
\* something to read (POLLIN) and those at their end (POLLHUP).
Polled(s) == {c \in Chans : \E fd \in {table[s].job_stdout, table[s].job_stderr} \ {NoFd} :
                               ofile[fd] = c}
MutantReadAnyway(s) == Polled(s)
Readable(s) == {c \in Polled(s) : unread[c] > 0}
MutantHangupFirst(s) == {c \in Polled(s) : holders[c] = {}}
MutantStdoutOnly(s) == {c \in Polled(s) : c[2] = "out" /\ unread[c] = 0 /\ holders[c] = {}}
Ended(s) == {c \in Polled(s) : unread[c] = 0 /\ holders[c] = {}}

\* The descriptor that close_job_fd leaves in a field of the entry.
MutantFdStays(s, fd) == fd
Kept(s, fd) == IF fd # NoFd /\ ofile[fd] \in Ended(s) THEN NoFd ELSE fd

AfterPoll(s) == [table[s] EXCEPT !.job_stdout = Kept(s, @), !.job_stderr = Kept(s, @)]

Heard(s, fd) == IF fd # NoFd /\ ofile[fd] \in Readable(s)
                  THEN Status("output", table[s].job_id) ELSE <<>>

\* poll_job_output: one poll, then for stdout and for stderr one buffer is read
\* and published, or the descriptor is closed at end of file.
PollJobOutput(s) ==
  /\ pc = <<"poll", s>> /\ pc' = <<"check", s>>
  /\ unread' = [c \in Chans |-> IF c \in Readable(s) THEN unread[c] - 1 ELSE unread[c]]
  /\ pub' = Heard(s, table[s].job_stdout) \o Heard(s, table[s].job_stderr)
  /\ table' = [table EXCEPT ![s] = AfterPoll(s)]
  /\ ofile' = [f \in Fds |->
                IF f \in {table[s].job_stdout, table[s].job_stderr} /\ ofile[f] \in Ended(s)
                  THEN Closed ELSE ofile[f]]
  /\ UNCHANGED <<jidCounter, scripts, proc, bg, holders, heirs, inq>>

\* What check_job_subprocess leaves of an entry whose child is gone.
MutantPidStays(s) == [table[s] EXCEPT !.job_stdin = NoFd]
AfterWait(s) == [table[s] EXCEPT !.job_pid = NoPid, !.job_stdin = NoFd]

\* check_job_subprocess: waitpid says 0 while the child lives.
CheckJobSubprocess(s) ==
  /\ pc = <<"check", s>> /\ pc' = <<"collect", s>>
  /\ LET p == table[s].job_pid IN
     IF p = NoPid \/ proc[p] \in {"forked", "session"}
       THEN UNCHANGED <<table, ofile, proc>>
       ELSE /\ proc' = [proc EXCEPT ![p] = IF @ = "zombie" THEN "free" ELSE @]
            /\ table' = [table EXCEPT ![s] = AfterWait(s)]
            /\ ofile' = [f \in Fds |-> IF f = table[s].job_stdin THEN Closed ELSE ofile[f]]
  /\ pub' = <<>>
  /\ UNCHANGED <<jidCounter, scripts, bg, holders, heirs, unread, inq>>

MutantStderrForgotten(s) == table[s].job_pid = NoPid /\ table[s].job_stdout = NoFd
JobDead(s) == /\ table[s].job_pid = NoPid
              /\ table[s].job_stdout = NoFd
              /\ table[s].job_stderr = NoFd

\* job_rm_temp, as collect_job calls it.
MutantUnlinkEarly(s) == {s}
MutantUnlinkNever(s) == {}
Unlinked(s) == IF JobDead(s) THEN {s} ELSE {}

\* collect_job: the entry becomes inactive, and thereby meaningless.
CollectJob(s) ==
  /\ pc = <<"collect", s>> /\ pc' \in Visit(s + 1)
  /\ IF JobDead(s)
       THEN /\ table' = [table EXCEPT ![s] = EmptyJob]
            /\ pub' = Status("stopped", table[s].job_id)
       ELSE UNCHANGED table /\ pub' = <<>>
  /\ scripts' = scripts \ Unlinked(s)
  /\ UNCHANGED <<ofile, jidCounter, os>>

---------------------------------------------------------------------------
(* Job processes and the kernel                                            *)

Unheard == pub' = <<>> /\ UNCHANGED <<pc, table, ofile, jidCounter, scripts>>

\* The child enters its own session and process group.
Setsid(p) ==
  /\ proc[p] = "forked"
  /\ proc' = [proc EXCEPT ![p] = "session"]
  /\ Unheard /\ UNCHANGED <<bg, holders, heirs, unread, inq>>

\* The child of a pty job opens the replica, which becomes its terminal.
OpenReplica(s) ==
  /\ Active(s) /\ Unopened \in holders[<<s, "out">>]
  /\ table[s].job_pid # NoPid /\ proc[table[s].job_pid] = "session"
  /\ holders' = [holders EXCEPT ![<<s, "out">>] = {Leader(table[s].job_pid)},
                                ![<<s, "in">>] = {Leader(table[s].job_pid)}]
  /\ Unheard /\ UNCHANGED <<proc, bg, heirs, unread, inq>>

WriteOutput(c) ==
  /\ c[2] \in Outputs /\ holders[c] \ {Unopened} # {} /\ unread[c] < MaxUnread
  /\ unread' = [unread EXCEPT ![c] = @ + 1]
  /\ Unheard /\ UNCHANGED <<proc, bg, holders, heirs, inq>>

ReadStdin(s) ==
  /\ holders[<<s, "in">>] # {} /\ inq[s] > 0
  /\ inq' = [inq EXCEPT ![s] = @ - 1]
  /\ Unheard /\ UNCHANGED <<proc, bg, holders, heirs, unread>>

\* A process closes every descriptor it has on a channel.
CloseChannel(c, x) ==
  /\ "close" \in Habits
  /\ x \in holders[c] \ {Unopened}
  /\ holders' = [holders EXCEPT ![c] = @ \ {x}]
  /\ Unheard /\ UNCHANGED <<proc, bg, heirs, unread, inq>>

\* The shell starts a background process, which inherits what it holds.
ForkBackground(p) ==
  /\ "background" \in Habits
  /\ proc[p] = "session" /\ ~bg[p]
  /\ bg' = [bg EXCEPT ![p] = TRUE]
  /\ holders' = [c \in Chans |-> IF Leader(p) \in holders[c]
                                   THEN holders[c] \cup {Background(p)} ELSE holders[c]]
  /\ heirs' = [s \in Slots |-> IF Leader(p) \in heirs[s]
                                  THEN heirs[s] \cup {Background(p)} ELSE heirs[s]]
  /\ Unheard /\ UNCHANGED <<proc, unread, inq>>

\* A process of a job ends by itself.
ProcessExits(x) ==
  /\ x \in Members(Pids)
  /\ Perish({x})
  /\ Unheard /\ UNCHANGED <<unread, inq>>

\* Processes that have nothing to do with the server come and go, and take any
\* id that neither a process nor a process group bears.
ForeignStarts(p) ==
  /\ "foreign" \in Habits
  /\ p \in FreePids
  /\ proc' = [proc EXCEPT ![p] = "foreign"]
  /\ Unheard /\ UNCHANGED <<bg, holders, heirs, unread, inq>>

ForeignExits(p) ==
  /\ proc[p] = "foreign"
  /\ proc' = [proc EXCEPT ![p] = "free"]
  /\ Unheard /\ UNCHANGED <<bg, holders, heirs, unread, inq>>

---------------------------------------------------------------------------
(* The specification                                                       *)

Init ==
  /\ pc = <<"mqtt", 0>>
  /\ table = [s \in Slots |-> EmptyJob]
  /\ ofile = [f \in Fds |-> Closed]
  /\ jidCounter = FirstMadeUp
  /\ pub = <<>>
  /\ scripts = {}
  /\ proc = [p \in Pids |-> "free"]
  /\ bg = [p \in Pids |-> FALSE]
  /\ holders = [c \in Chans |-> {}]
  /\ heirs = [s \in Slots |-> {}]
  /\ unread = [c \in Chans |-> 0]
  /\ inq = [s \in Slots |-> 0]

\* gm_route_message, for the topics that arrive.
RouteMessage ==
  \/ "submit" \in Topics /\ \E j \in Jids, payload \in Payloads : OnSubmitJob(j, payload)
  \/ "submit" \in Topics /\ TtyWithoutTerm
  \/ "stdin" \in Topics /\ \E j \in Jids : StdinWrite(j)
  \/ "eof" \in Topics /\ \E j \in Jids : StdinEof(j)
  \/ "signal" \in Topics /\ \E j \in Jids : Signal(j)
  \/ "scram" \in Topics /\ Scram
  \/ "reload" \in Topics /\ Reload
  \/ "exit" \in Topics /\ Exit
  \/ "ping" \in Topics /\ Ping
  \/ "roll_call" \in Topics /\ RollCall

\* do_job_events, step by step, and the way into it.
ServerLoop ==
  \/ EndMqtt
  \/ \E s \in Slots : PollJobOutput(s) \/ CheckJobSubprocess(s) \/ CollectJob(s)

\* The server may stop at any time when "exit" is among the topics.
ServerStops == "exit" \in Topics /\ (Interrupt \/ Die)

Environment ==
  \/ \E p \in Pids : \/ Setsid(p) \/ ForkBackground(p)
                     \/ ForeignStarts(p) \/ ForeignExits(p)
  \/ \E s \in Slots : OpenReplica(s) \/ ReadStdin(s)
  \/ \E c \in Chans : WriteOutput(c) \/ \E x \in Procs : CloseChannel(c, x)
  \/ \E x \in Procs : ProcessExits(x)

Next ==
  \/ RouteMessage
  \/ ServerLoop
  \/ \E s \in Slots : StdinUnblocked(s)
  \/ ServerStops
  \/ Start
  \/ Environment

Spec == Init /\ [][Next]_vars

\* The main loop is a thread that keeps running, and mosquitto_loop_read hands
\* over finitely many messages before it returns.
FairSpec == Spec /\ WF_vars(ServerLoop)

---------------------------------------------------------------------------
(* Correctness                                                             *)

TypeOK ==
  /\ pc \in {<<"mqtt", 0>>, <<"down", 0>>}
             \cup ({"poll", "check", "collect", "write"} \X Slots)
  /\ table \in [Slots -> [running : BOOLEAN, job_id : Nat, job_pid : Pids \cup {NoPid},
                          tty : BOOLEAN, job_stdin : Fds \cup {NoFd},
                          job_stdout : Fds \cup {NoFd}, job_stderr : Fds \cup {NoFd}]]
  /\ ofile \in [Fds -> Chans \cup {Closed, Leaked}]
  /\ jidCounter \in Nat
  /\ pub \in Seq([kind : MessageKinds, jids : SUBSET Nat])
  /\ scripts \subseteq Slots \cup {Stray}
  /\ proc \in [Pids -> {"free", "forked", "session", "zombie", "foreign"}]
  /\ bg \in [Pids -> BOOLEAN]
  /\ holders \in [Chans -> SUBSET (Procs \cup {Unopened})]
  /\ heirs \in [Slots -> SUBSET Procs]
  /\ unread \in [Chans -> 0..MaxUnread]
  /\ inq \in [Slots -> 0..MaxUnread]

\* An entry that has a process id names a child the server has not waited for,
\* and every such child is named by exactly one entry. So no signal reaches a
\* process that took over a recycled id (job_signal, kill_job), no zombie is
\* left unreaped (check_job_subprocess), and a reload, which looks only at
\* jobs_running, leaves no child behind.
Ours(p) == proc[p] \in {"forked", "session", "zombie"}
ChildrenTracked ==
  /\ \A s \in Slots : table[s].job_pid # NoPid => Active(s) /\ Ours(table[s].job_pid)
  /\ \A p \in Pids : Ours(p) => \E s \in Slots : table[s].job_pid = p
  /\ \A s, t \in Slots : table[s].job_pid = table[t].job_pid /\ s # t
                           => table[s].job_pid = NoPid

\* Descriptor numbers are recycled as soon as they are closed, and each is
\* closed in a handler of its own (job_stdin_eof, check_job_subprocess,
\* close_job_fd): a field that is not -1 is open on the entry's own channel,
\* and every channel that is open is named by the field of an active entry.
FdOf(s, ch) == CASE ch = "in" -> table[s].job_stdin
                 [] ch = "out" -> table[s].job_stdout
                 [] ch = "err" -> table[s].job_stderr
DescriptorsOwned ==
  /\ \A s \in Slots, ch \in {"in", "out", "err"} :
       FdOf(s, ch) # NoFd => Active(s) /\ ofile[FdOf(s, ch)] = <<s, ch>>
  /\ \A f \in Fds : ofile[f] \in Chans => FdOf(ofile[f][1], ofile[f][2]) = f

\* What makes DescriptorsOwned and DrainedBeforeStopped inductive. Once the leader is reaped the
\* server's end of stdin is closed; and a channel that the entry has closed, or
\* never had, holds no output and has nobody left to produce any.
ReapedHasNoStdin ==
  \A s \in Slots : table[s].job_pid = NoPid => table[s].job_stdin = NoFd
ClosedIsDrained ==
  \A s \in Slots, ch \in Outputs :
    FdOf(s, ch) = NoFd => unread[<<s, ch>>] = 0 /\ holders[<<s, ch>>] = {}

\* An active job still has its script on disk, which its shell reads as it
\* goes, and a job that is over has none: submit_job writes the file before it
\* has a slot, and collect_job unlinks it.
ScriptsMatchJobs == \A s \in Slots : Active(s) <=> s \in scripts

\* A running server gives up an entry only when the job's leader was reaped,
\* nothing is left to read, and nobody is left who could write more, so that
\* no output is ever published after "stopped" or lost.
DrainedBeforeStopped ==
  [][\A s \in Slots : Active(s) /\ ~Active(s)' /\ pc' # <<"down", 0>> =>
       /\ table[s].job_pid = NoPid
       /\ \A ch \in Outputs : unread[<<s, ch>>] = 0 /\ holders[<<s, ch>>] = {}]_vars

\* The jobs and messages of the server are those NodeContract allows: no
\* output before "startup" or after "stopped", no chunk of it lost or
\* published twice, no "reject" for a job that runs.
JobIds == (Jids \ {0}) \cup FirstMadeUp..(FirstMadeUp + MaxMadeUp)
Contract == INSTANCE NodeContract WITH
  seat <- [s \in Slots |-> IF Active(s) THEN table[s].job_id ELSE -1],
  pending <- [s \in Slots |-> unread[<<s, "out">>] + unread[<<s, "err">>]]
KeepsContract == Contract!Spec

\* A job whose leader is gone and whose outputs nobody holds is collected,
\* unless the server's only thread is stuck writing to another job's terminal.
Finished(s) == /\ Active(s)
               /\ table[s].job_pid # NoPid => proc[table[s].job_pid] = "zombie"
               /\ \A ch \in Outputs : holders[<<s, ch>>] = {}
JobsCollected == \A s \in Slots : Finished(s) ~> (~Active(s) \/ pc[1] = "write")

---------------------------------------------------------------------------
(* What the code or its comments say, and the program does not do          *)

\* on_submit_job calls the rejection of a payload without a script `reject`: a
\* submit that was rejected starts nothing. (controller.c:165)
RejectIsFinal == ~ \E i, k \in DOMAIN pub : pub[i].kind = "reject" /\ pub[k].kind = "startup"

\* "Killing the pgroup should be sufficient to clean the job table as the
\* processes dying would eventually close stdio and trigger waitpid" (the
\* comment in job_scram): after a scram nobody holds a job's outputs.
ScramSuffices ==
  [][Scram => \A s \in Slots, ch \in Outputs : Active(s) => holders'[<<s, ch>>] = {}]_vars

\* The bot's !eof is to "Close a job's stdin, like Ctrl-D does": once the node
\* has closed it, nobody is left who could still write to the job's stdin.
EofIsEof ==
  \A s \in Slots : Active(s) /\ table[s].job_pid # NoPid /\ table[s].job_stdin = NoFd
                    => heirs[s] = {}

=============================================================================
