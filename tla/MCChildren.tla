----------------------------- MODULE MCChildren -----------------------------
(* Children with a sender, a session that retrieves and one that deletes.    *)
EXTENDS Children

CONSTANTS c1, s1, s2

OneSender == {c1}
TwoSessions == {s1, s2}
RetrAndQuit == [s \in Sessions |-> IF s = s1 THEN {"retr"} ELSE {"quit"}]
OneOfReader == [importer |-> 0, reader |-> 1]
=============================================================================
