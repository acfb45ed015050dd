---------------------------- MODULE MCBotJobs ----------------------------
(* Constants of the small instances of BotJobs that TLC explores.          *)
EXTENDS BotJobs

CONSTANTS n1, n2     \* names of nodes

TwoNodes == {n1, n2}
OneNode == {n1}

=============================================================================
