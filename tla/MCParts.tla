------------------------------ MODULE MCParts -------------------------------
(* Parts for TLC. *)
EXTENDS Parts

CONSTANTS a, b

TwoSessions == {a, b}

(* MailboxIndex, with IDs of up to four digits: Sizes and MaxOctets let the  *)
(* octet count reach its limit; the requests are single messages, neighbours *)
(* and everything.                                                           *)
MCSizes == {0, 2}
MCRequests == {{i} : i \in 1 .. MaxID} \cup {{i, i + 1} : i \in 1 .. MaxID - 1}
                \cup {1 .. MaxID}

(* CatFile: a message of two octets, an empty tree, and a name that is not   *)
(* there.                                                                    *)
MCSpecs == {"mail", "dir", "gone"}
MCRepository == "mail" :> [kind |-> "blob", size |-> 2] @@ "dir" :> [kind |-> "tree", size |-> 0]

(* DirCache: three commits; the second changes one directory, the third has  *)
(* the same tree in both.                                                    *)
MCCommits == {"a" :> "t" @@ "b" :> "u", "a" :> "v" @@ "b" :> "u", "a" :> "u" @@ "b" :> "u"}

(* DataStream: lines of dots, of a dot and more, empty ones and ones at the  *)
(* limit; the imported messages end without LF, or in a dot alone.           *)
MCContents == {<<>>, <<".">>, <<".", ".">>, <<"x">>, <<".", "x">>, <<"x", "CR">>, <<"x", "x", "x">>}
MCImported == {<<>>, <<".">>, <<"x", "CR", "LF", "CR", "LF", ".", "LF", "x">>,
               <<"x", "LF", "LF", ".", "CR", "LF">>}

(* TlsCert: a host and its parent domain; a certificate, a renewal that is   *)
(* valid later, with a new key, one with the old key, and one for other      *)
(* names.                                                                    *)
MCCandidates == <<"mx.example.net", "example.net">>
MCCertificates == {[key |-> "k1", from |-> 0, until |-> 2, covers |-> TRUE],
                   [key |-> "k2", from |-> 1, until |-> 3, covers |-> TRUE],
                   [key |-> "k1", from |-> 0, until |-> 3, covers |-> TRUE],
                   [key |-> "k1", from |-> 0, until |-> 3, covers |-> FALSE]}

(* Children: a sender and a session with all its commands; each idle timer   *)
(* may have a callback that waits.                                           *)
MCSender == {a}
MCSession == {b}
MCPurposes == [s \in MCSession |-> {"list", "retr", "quit"}]
MCCallbacks == [importer |-> 1, reader |-> 1]
=============================================================================
