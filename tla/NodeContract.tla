-------------------------- MODULE NodeContract --------------------------
(***************************************************************************)
(* What a node promises to whoever follows the topics job/<jid>/... and     *)
(* node/...: a job that was accepted is announced by one "startup", its     *)
(* output follows, nothing of it missing, and one "stopped" ends it; a job  *)
(* that was refused is only ever heard of as "reject"; a roll call names    *)
(* the jobs that run; and no more than MAX_JOBS run at a time. A node that  *)
(* leaves forgets its jobs.                                                 *)
(***************************************************************************)
EXTENDS Integers, Sequences

CONSTANTS
  MAX_JOBS,  \* how many jobs a node runs at a time
  JobIds     \* job ids a job may run under

VARIABLES
  seat,      \* the job id that runs in each slot, or NoJob
  pending,   \* chunks of its output not published yet
  pub        \* the messages published by the last step

cvars == <<seat, pending, pub>>

NoJob == -1
Slots == 1..MAX_JOBS
Msg(kind, jids) == [kind |-> kind, jids |-> jids]

Init ==
  /\ seat = [s \in Slots |-> NoJob]
  /\ pending = [s \in Slots |-> 0]
  /\ pub = <<>>

Accept(s, j) ==
  /\ seat[s] = NoJob
  /\ seat' = [seat EXCEPT ![s] = j]
  /\ pub' = <<Msg("startup", {j})>>
  /\ UNCHANGED pending

Refuse(j) ==
  /\ pub' = <<Msg("reject", {j})>>
  /\ UNCHANGED <<seat, pending>>

\* The job writes.
Write(s) ==
  /\ seat[s] # NoJob
  /\ pending' = [pending EXCEPT ![s] = @ + 1]
  /\ pub' = <<>>
  /\ UNCHANGED seat

\* The node publishes one chunk from stdout, from stderr or from each.
Deliver(s) ==
  /\ seat[s] # NoJob
  /\ \E n \in 1..2 :
       /\ pending[s] >= n
       /\ pending' = [pending EXCEPT ![s] = @ - n]
       /\ pub' = [i \in 1..n |-> Msg("output", {seat[s]})]
  /\ UNCHANGED seat

Stop(s) ==
  /\ seat[s] # NoJob /\ pending[s] = 0
  /\ seat' = [seat EXCEPT ![s] = NoJob]
  /\ pub' = <<Msg("stopped", {seat[s]})>>
  /\ UNCHANGED pending

\* Messages about the node itself, and steps that nobody hears.
Report ==
  /\ pub' \in {<<>>, <<Msg("announce", {})>>, <<Msg("connect", {})>>,
               <<Msg("roll_call", {seat[s] : s \in {t \in Slots : seat[t] # NoJob}})>>}
  /\ UNCHANGED <<seat, pending>>

Leave ==
  /\ seat' = [s \in Slots |-> NoJob]
  /\ pending' = [s \in Slots |-> 0]
  /\ pub' \in {<<>>, <<Msg("disconnect", {})>>}

Next ==
  \/ \E s \in Slots : \/ \E j \in JobIds : Accept(s, j)
                      \/ Write(s) \/ Deliver(s) \/ Stop(s)
  \/ \E j \in JobIds : Refuse(j)
  \/ Report
  \/ Leave

Spec == Init /\ [][Next]_cvars

=============================================================================
