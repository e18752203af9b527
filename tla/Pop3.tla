-------------------------------- MODULE Pop3 --------------------------------
(***************************************************************************)
(* The POP3 server (internal/pop3): one maildrop, sessions that each keep  *)
(* the snapshot of their login, and deletions that are only marks until    *)
(* QUIT hands them to DeleteAs.  Other sessions delete, and mail arrives,  *)
(* between any two commands.                                               *)
(*                                                                         *)
(* A command that only answers (CAPA, NOOP, STAT, LIST, UIDL, RETR, TOP, or *)
(* any that is refused with -ERR) changes no state and has no action; what *)
(* it answers is an operator.  What DeleteAs does inside is in Store; here *)
(* it takes effect in one step, as Maildrop says, and may answer an error  *)
(* before or after that step.                                              *)
(***************************************************************************)
EXTENDS Mailbox

CONSTANTS
    Clients,            \* connections, each used again after it was closed
    Usernames,          \* arguments of USER
    Passwords,          \* arguments of PASS
    Credentials,        \* the pairs authenticate accepts; none if not configured
    Sizes,              \* sizes of the messages that arrive
    MaxConnections,     \* capacity of the channel Server.connections
    MaxAuthFailures

ASSUME LimitsAssumption ==
    MaxConnections \in Nat \ {0} /\ MaxAuthFailures \in Nat \ {0}

ASSUME SizesAssumption == Sizes \subseteq Nat

VARIABLES
    state,          \* the state file of HEAD
    tree,           \* the message files of HEAD
    connections,    \* tokens in the channel Server.connections
    session,        \* the local variables of each serveConn
    \* What clients have seen and asked for.
    rank,           \* per client: the messages that were live at its login, in order
    wanted,         \* per client: the IDs it has marked
    asked,          \* IDs some client had marked when it sent QUIT
    confirmed       \* IDs that were marked when QUIT was answered with +OK

mailbox == <<state, tree>>
ghosts == <<rank, wanted, asked, confirmed>>
vars == <<mailbox, connections, session, ghosts>>

noSnapshot ==
    [LastID |-> 0, TotalOctets |-> 0, MessageCount |-> 0, index |-> buildDirectoryIndex(<<>>),
     tree |-> {}]

\* Store.Snapshot: the index and a commit, which nothing changes any more.
Snapshot ==
    [LastID |-> state.LastID, TotalOctets |-> state.TotalOctets,
     MessageCount |-> messageCount(state),
     index |-> buildDirectoryIndex(state.Directories), tree |-> tree]

\* st: "closed", "open", or inside QUIT "update" and then "updated".
newSession ==
    [st |-> "closed", username |-> "", authenticated |-> FALSE, snapshot |-> noSnapshot,
     deleted |-> <<>>, deletedOctets |-> 0, authFailures |-> 0]

ready(c) == session[c].st = "open" /\ session[c].authenticated

\* messageID, and that the message is not marked.
available(c, number) ==
    /\ number \in 1 .. session[c].snapshot.MessageCount
    /\ number \notin DOMAIN session[c].deleted

-----------------------------------------------------------------------------
\* Serve: a connection gets a token, or is closed at once if there is none.
Accept(c) ==
    /\ session[c].st = "closed"
    /\ connections < MaxConnections
    /\ connections' = connections + 1
    /\ session' = [session EXCEPT ![c].st = "open"]
    /\ UNCHANGED <<mailbox, ghosts>>

\* Mutant: the token is not given back.
closedKeepingToken(c) ==
    /\ session' = [session EXCEPT ![c] = newSession]
    /\ rank' = [rank EXCEPT ![c] = <<>>]
    /\ wanted' = [wanted EXCEPT ![c] = {}]
    /\ UNCHANGED connections

\* serveConn returns: its variables are gone, and the deferred calls close the
\* connection and give the token back.
closed(c) ==
    /\ session' = [session EXCEPT ![c] = newSession]
    /\ connections' = connections - 1
    /\ rank' = [rank EXCEPT ![c] = <<>>]
    /\ wanted' = [wanted EXCEPT ![c] = {}]

USER(c, username) ==
    /\ session[c].st = "open"
    /\ ~session[c].authenticated /\ username # ""
    /\ session' = [session EXCEPT ![c].username = username]
    /\ UNCHANGED <<mailbox, connections, ghosts>>

authenticate(username, password) == <<username, password>> \in Credentials

PASS(c, password) ==
    /\ session[c].st = "open"
    /\ ~session[c].authenticated /\ session[c].username # ""
    /\ authenticate(session[c].username, password)
    /\ session' = [session EXCEPT ![c].authenticated = TRUE,
                                  ![c].snapshot = Snapshot]
    /\ rank' = [rank EXCEPT ![c] = sorted({messageFromPath(name) : name \in tree}, byID)]
    /\ UNCHANGED <<mailbox, connections, wanted, asked, confirmed>>

\* A wrong password.
PASSFails(c, password) ==
    /\ session[c].st = "open"
    /\ ~session[c].authenticated /\ session[c].username # ""
    /\ ~authenticate(session[c].username, password)
    /\ session[c].authFailures + 1 < MaxAuthFailures
    /\ session' = [session EXCEPT ![c].username = "", ![c].authFailures = @ + 1]
    /\ UNCHANGED <<mailbox, connections, ghosts>>

\* The last wrong password that is allowed.
PASSCloses(c, password) ==
    /\ session[c].st = "open"
    /\ ~session[c].authenticated /\ session[c].username # ""
    /\ ~authenticate(session[c].username, password)
    /\ session[c].authFailures + 1 >= MaxAuthFailures
    /\ closed(c)
    /\ UNCHANGED <<mailbox, asked, confirmed>>

\* The message LIST, UIDL, RETR and TOP answer, and DELE marks.
lookup(c, number) == Lookup(session[c].snapshot.tree, session[c].snapshot.index, number)

\* What LIST and UIDL answer without an argument: numbers and messages.
rows(c) ==
    LET snapshot == session[c].snapshot
        messages == ListAt(snapshot.tree, snapshot.index, snapshot.LastID)
    IN  {<<number, messages[number]>> :
            number \in DOMAIN messages \ DOMAIN session[c].deleted}

\* What STAT answers.
stat(c) ==
    <<session[c].snapshot.MessageCount - Cardinality(DOMAIN session[c].deleted),
      session[c].snapshot.TotalOctets - session[c].deletedOctets>>

\* The map deleted with one entry more.
marking(deleted, number, id) ==
    [k \in DOMAIN deleted \cup {number} |-> IF k = number THEN id ELSE deleted[k]]

DELE(c, number) ==
    /\ ready(c) /\ available(c, number)
    /\ LET message == lookup(c, number)
       IN  session' = [session EXCEPT
                ![c].deleted = marking(@, number, message.ID),
                ![c].deletedOctets = @ + message.Size]
    /\ wanted' = [wanted EXCEPT ![c] = @ \cup {rank[c][number].ID}]
    /\ UNCHANGED <<mailbox, connections, rank, asked, confirmed>>

\* Mutant: RSET looks at the maildrop again.
RSETRefreshing(c) ==
    /\ ready(c)
    /\ session' = [session EXCEPT ![c].deleted = <<>>, ![c].deletedOctets = 0,
                                  ![c].snapshot = Snapshot]
    /\ wanted' = [wanted EXCEPT ![c] = {}]
    /\ UNCHANGED <<mailbox, connections, rank, asked, confirmed>>

RSET(c) ==
    /\ ready(c)
    /\ session' = [session EXCEPT ![c].deleted = <<>>, ![c].deletedOctets = 0]
    /\ wanted' = [wanted EXCEPT ![c] = {}]
    /\ UNCHANGED <<mailbox, connections, rank, asked, confirmed>>

\* QUIT with nothing to delete.
QUIT(c) ==
    /\ session[c].st = "open"
    /\ ~session[c].authenticated \/ session[c].deleted = <<>>
    /\ closed(c)
    /\ UNCHANGED <<mailbox, asked, confirmed>>

\* QUIT calls DeleteAs.
QUITDeletes(c) ==
    /\ ready(c)
    /\ session[c].deleted # <<>>
    /\ session' = [session EXCEPT ![c].st = "update"]
    /\ asked' = asked \cup wanted[c]
    /\ UNCHANGED <<mailbox, connections, rank, wanted, confirmed>>

\* Mutant: what to remove is looked up in the session's own snapshot.
markedAtLogin(c) == {lookup(c, number) : number \in DOMAIN session[c].deleted}

\* DeleteAs takes effect: the marked messages that are still there leave HEAD.
marked(c) ==
    LET index == buildDirectoryIndex(state.Directories)
    IN  UNION {messageByID(tree, index, state.LastID, id) : id \in Range(session[c].deleted)}

Update(c) ==
    /\ session[c].st = "update"
    /\ canDelete(state, marked(c))
    /\ tree' = tree \ pathsOf(marked(c))
    /\ state' = deleteState(state, marked(c))
    /\ session' = [session EXCEPT ![c].st = "updated"]
    /\ UNCHANGED <<connections, ghosts>>

QUITDone(c) ==
    /\ session[c].st = "updated"
    /\ closed(c)
    /\ confirmed' = confirmed \cup wanted[c]
    /\ UNCHANGED <<mailbox, asked>>

\* DeleteAs answered an error, and what it did is not known.
QUITFails(c) ==
    /\ session[c].st \in {"update", "updated"}
    /\ closed(c)
    /\ UNCHANGED <<mailbox, asked, confirmed>>

\* Mutant: a lost connection is taken for QUIT.
DisconnectDeletes(c) ==
    /\ ready(c)
    /\ session' = [session EXCEPT ![c].st = "update"]
    /\ UNCHANGED <<mailbox, connections, ghosts>>

\* The client goes away, is idle for too long or sends an overlong command, or
\* an answer cannot be written or read from the archive to its end.
Disconnect(c) ==
    /\ session[c].st = "open"
    /\ closed(c)
    /\ UNCHANGED <<mailbox, asked, confirmed>>

\* A message arrives.
Deliver(size) ==
    /\ canPublish(state, size)
    /\ tree' = tree \cup {messagePath(state.LastID + 1, size)}
    /\ state' = publishState(state, size)
    /\ UNCHANGED <<connections, session, ghosts>>

Init ==
    /\ state = emptyMailboxState
    /\ tree = {}
    /\ connections = 0
    /\ session = [c \in Clients |-> newSession]
    /\ rank = [c \in Clients |-> <<>>]
    /\ wanted = [c \in Clients |-> {}]
    /\ asked = {}
    /\ confirmed = {}

ClientNext(c) ==
    \/ Accept(c)
    \/ \E username \in Usernames : USER(c, username)
    \/ \E password \in Passwords : PASS(c, password)
    \/ \E password \in Passwords : PASSFails(c, password)
    \/ \E password \in Passwords : PASSCloses(c, password)
    \/ \E number \in 1 .. MaxID : DELE(c, number)
    \/ RSET(c)
    \/ QUIT(c)
    \/ QUITDeletes(c)
    \/ Update(c)
    \/ QUITDone(c)
    \/ QUITFails(c)
    \/ Disconnect(c)

Next ==
    \/ \E c \in Clients : ClientNext(c)
    \/ \E size \in Sizes : Deliver(size)

Spec == Init /\ [][Next]_vars

-----------------------------------------------------------------------------
(* Properties *)

\* Server.connections has a token for each open connection and never more than
\* its capacity, on every way out of serveConn: no path keeps one for good and
\* none gives back two.
TokenPerConnection ==
    /\ connections = Cardinality({c \in Clients : session[c].st # "closed"})
    /\ connections <= MaxConnections

\* The numbers of a session mean, to its end, the messages that were live at
\* its login, in order of their IDs, whatever arrives or is deleted meanwhile:
\* for one message (RETR, DELE) as in the listings.  STAT, which subtracts the
\* marked messages from the counts of the login, never goes below zero and is
\* the count and the size of what LIST shows.
SessionSeesLogin ==
    \A c \in Clients : ready(c) =>
        LET listed == {row[2] : row \in rows(c)}
        IN  /\ [number \in 1 .. session[c].snapshot.MessageCount |-> lookup(c, number)] = rank[c]
            /\ rows(c) = {<<number, rank[c][number]>> :
                            number \in DOMAIN rank[c] \ DOMAIN session[c].deleted}
            /\ stat(c) = <<Cardinality(listed), octetsOf(listed)>>

\* A message that arrived leaves the maildrop only if a client had marked it,
\* had not sent RSET since, and sent QUIT: a lost connection deletes nothing,
\* and a stale number deletes no other message.  And QUIT answers +OK only when
\* every marked message has left the maildrop, also if another session was
\* faster; they do not come back.
DeletedAsAsked ==
    LET live == {messageFromPath(name).ID : name \in tree}
    IN  /\ (1 .. state.LastID) \ live \subseteq asked
        /\ live \cap confirmed = {}

\* QUIT's update is never refused because of what other sessions deleted or
\* delivered since the login.
UpdateIsPossible ==
    \A c \in Clients : session[c].st = "update" => canDelete(state, marked(c))
=============================================================================
