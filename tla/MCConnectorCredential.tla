------------------------ MODULE MCConnectorCredential ------------------------
(* Two connections, so that pairings overlap and a session is replaced, and *)
(* one protected request whose answer can come after a new pairing.         *)
EXTENDS ConnectorCredential, TLC

CONSTANTS c1, c2, r1

MCConnections == {c1, c2}
MCRequests == {r1}
MCSymmetry == Permutations(MCConnections)
=============================================================================
