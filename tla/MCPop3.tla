------------------------------- MODULE MCPop3 -------------------------------
(* Pop3 for TLC: three clients, of which two have room, and one good password*)
EXTENDS Pop3

CONSTANTS p1, p2, p3

ThreeClients == {p1, p2, p3}
MCUsernames == {"user"}
MCPasswords == {"right", "wrong"}
MCCredentials == {<<"user", "right">>}
MCSizes == {1, 2}
Symmetry == Permutations(Clients)
=============================================================================
