------------------------------ MODULE MCAccounts ------------------------------
(* Two accounts, two requests at once, two servers and a limit of one.      *)
EXTENDS Accounts, TLC

Symmetry == Permutations(Ids) \cup Permutations(Tasks) \cup Permutations(Names)
                \cup Permutations(Servers)

=============================================================================
