------------------------------ MODULE MCGrid ------------------------------
(* Constants of the small grid that TLC explores.                          *)
EXTENDS Grid

HostOnly == {Host}

=============================================================================
