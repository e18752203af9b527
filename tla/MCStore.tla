------------------------------- MODULE MCStore ------------------------------
(* Store for TLC: connections are interchangeable, and so are sessions. *)
EXTENDS Store

CONSTANTS c1, c2, s1, s2

OneConn == {c1}
TwoConns == {c1, c2}
OneSession == {s1}
TwoSessions == {s1, s2}
None == {}

NoMail == <<>>
EmptyMail == <<0>>
OneMail == <<1>>
TwoMails == <<1, 1>>

\* An imported message, alone and together with one that is yet to come.
TwoRequests == {{1}, {1, 2}}
CrossRequests == {{1}, {2, 3}}

Symmetry == {[x \in Conns \cup Sessions |-> IF x \in Conns THEN p[x] ELSE q[x]] :
                p \in Permutations(Conns), q \in Permutations(Sessions)}
=============================================================================
