--------------------------- MODULE MCNodeRegistry ---------------------------
(* Constants of the small grid that TLC explores.                          *)
EXTENDS NodeRegistry

\* The only node is "spam"; "spa" is short for it.
SpamOnly == {"spam"}
Typed == {"spam", "spa"}
NoneAlike == [t \in Typed |-> {}]
SpamBegins == [t \in Typed |-> {"spam"}]

=============================================================================
