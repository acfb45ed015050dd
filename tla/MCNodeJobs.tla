---------------------------- MODULE MCNodeJobs ----------------------------
(* Constants of the small instances of NodeJobs that TLC explores.         *)
EXTENDS NodeJobs, TLC

CONSTANTS p1, p2     \* process ids

TwoPids == {p1, p2}
OnePid == {p1}
AnyPid == Permutations({p1, p2})

\* A second job needs six numbers beside the three of the first while it is
\* being spawned; with fewer than six, no pipe job can start at all.
NineFds == 1..9
SixFds == 1..6

=============================================================================
