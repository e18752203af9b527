-------------------------------- MODULE Smtp --------------------------------
(***************************************************************************)
(* The SMTP server (internal/smtp): sessions that collect an envelope      *)
(* command by command, may turn to TLS in between, and hand a message to   *)
(* the archive in three calls: Stage while the client is still sending,    *)
(* then the policy's decision, then Publish.                               *)
(*                                                                         *)
(* A client may send commands ahead of the answers, so there is a queue of *)
(* commands that serveConn has not read.  Addresses and host names are     *)
(* stood for by the command that brought them: its place in the log of the *)
(* commands the connection has executed.  A command that is refused        *)
(* (malformed, out of order, or a recipient the policy or the domain list  *)
(* refuses) changes nothing but the queue.                                 *)
(*                                                                         *)
(* The archive is external here: a number of messages that may be staged   *)
(* at once stands for the daily budget, and Publish may fail before or     *)
(* after the message is in HEAD.  Both are detailed in Store.              *)
(***************************************************************************)
EXTENDS Integers, Sequences, FiniteSets, SequencesExt

CONSTANTS
    Conns,              \* connections, each used once
    MaxConnections,     \* capacity of the channel Server.connections
    MaxRecipients,
    TLSConfigured,      \* Server.tlsConfig is not nil
    MaxStaged,          \* messages the budget admits at once
    MaxPipelined,       \* bound: commands a client sends ahead
    MaxCommands         \* bound: commands a connection executes

ASSUME LimitsAssumption ==
    /\ MaxConnections \in Nat \ {0}
    /\ MaxRecipients \in Nat \ {0}
    /\ MaxStaged \in Nat \ {0}
    /\ TLSConfigured \in BOOLEAN

VARIABLES
    connections,    \* tokens in the channel Server.connections
    session,        \* the local variables of each serveConn
    input,          \* what the client has sent and serveConn has not read
    staged,         \* connections that have a staged message and its reservation
    \* What happened.
    log,            \* the commands each connection has executed
    stored          \* messages in HEAD

vars == <<connections, session, input, staged, log, stored>>

Verbs == {"EHLO", "STARTTLS", "MAIL", "RCPT", "DATA", "RSET", "QUIT"}

noTransaction == [from |-> 0, recipients |-> <<>>]

\* st: "closed", "open", or inside DATA "stage", "receive", "policy", "publish".
\* A place in the log that is 0 is a value that is not there.
newSession == [st |-> "closed", helo |-> 0, encrypted |-> FALSE, tx |-> noTransaction]

started(c) == session[c].tx.from # 0
greeted(c) == session[c].helo # 0

-----------------------------------------------------------------------------
\* Serve: a connection gets a token, or 421.
Accept(c) ==
    /\ session[c].st = "closed"
    /\ log[c] = <<>>
    /\ connections < MaxConnections
    /\ connections' = connections + 1
    /\ session' = [session EXCEPT ![c].st = "open"]
    /\ UNCHANGED <<input, staged, log, stored>>

\* serveConn returns: the deferred calls close the connection and give the
\* token back.
closed(c) ==
    /\ session' = [session EXCEPT ![c] = newSession]
    /\ input' = [input EXCEPT ![c] = <<>>]
    /\ connections' = connections - 1

\* The client sends a command, over TLS if the session has turned to it.
Send(c, verb) ==
    /\ session[c].st = "open"
    /\ Len(input[c]) < MaxPipelined
    /\ Len(log[c]) + Len(input[c]) < MaxCommands
    /\ input' = [input EXCEPT ![c] = Append(@, [verb |-> verb, tls |-> session[c].encrypted])]
    /\ UNCHANGED <<connections, session, staged, log, stored>>

\* serveConn reads and executes the next command, which gets this place.
next(c) == Len(log[c]) + 1

execute(c, verb) ==
    /\ session[c].st = "open"
    /\ input[c] # <<>> /\ Head(input[c]).verb = verb
    /\ log' = [log EXCEPT ![c] = Append(@, Head(input[c]))]

taken(c) == input' = [input EXCEPT ![c] = Tail(@)]

\* Mutant: the transaction goes on.
EHLOKeeping(c) ==
    /\ execute(c, "EHLO") /\ taken(c)
    /\ session' = [session EXCEPT ![c].helo = next(c)]
    /\ UNCHANGED <<connections, staged, stored>>

EHLO(c) ==
    /\ execute(c, "EHLO") /\ taken(c)
    /\ session' = [session EXCEPT ![c].helo = next(c), ![c].tx = noTransaction]
    /\ UNCHANGED <<connections, staged, stored>>

\* Mutant: the old reader, with what it has buffered, is used on.
STARTTLSKeepingInput(c) ==
    /\ execute(c, "STARTTLS") /\ taken(c)
    /\ TLSConfigured /\ ~session[c].encrypted
    /\ session' = [session EXCEPT ![c].helo = 0, ![c].encrypted = TRUE,
                                  ![c].tx = noTransaction]
    /\ UNCHANGED <<connections, staged, stored>>

\* The new reader does not have what the old one had buffered, and the TLS
\* handshake fails on plaintext that was not buffered yet (Disconnect).
STARTTLS(c) ==
    /\ execute(c, "STARTTLS")
    /\ TLSConfigured /\ ~session[c].encrypted
    /\ input' = [input EXCEPT ![c] = <<>>]
    /\ session' = [session EXCEPT ![c].helo = 0, ![c].encrypted = TRUE,
                                  ![c].tx = noTransaction]
    /\ UNCHANGED <<connections, staged, stored>>

MAIL(c) ==
    /\ execute(c, "MAIL") /\ taken(c)
    /\ greeted(c)
    /\ session' = [session EXCEPT ![c].tx = [from |-> next(c), recipients |-> <<>>]]
    /\ UNCHANGED <<connections, staged, stored>>

RCPT(c) ==
    /\ execute(c, "RCPT") /\ taken(c)
    /\ started(c)
    /\ Len(session[c].tx.recipients) < MaxRecipients
    /\ session' = [session EXCEPT ![c].tx.recipients = Append(@, next(c))]
    /\ UNCHANGED <<connections, staged, stored>>

RSET(c) ==
    /\ execute(c, "RSET") /\ taken(c)
    /\ session' = [session EXCEPT ![c].tx = noTransaction]
    /\ UNCHANGED <<connections, staged, stored>>

QUIT(c) ==
    /\ execute(c, "QUIT")
    /\ closed(c)
    /\ UNCHANGED <<staged, stored>>

\* A command that is answered with 4xx or 5xx and leaves the session as it is.
Refuse(c) ==
    /\ session[c].st = "open"
    /\ input[c] # <<>> /\ Head(input[c]).verb \notin {"RSET", "QUIT"}
    /\ taken(c)
    /\ UNCHANGED <<connections, session, staged, log, stored>>

\* The client goes away or is idle, or sends a line that is too long.
Disconnect(c) ==
    /\ session[c].st = "open"
    /\ closed(c)
    /\ UNCHANGED <<staged, log, stored>>

-----------------------------------------------------------------------------
\* CheckReceive: the budget admits one more message, and the disk is sound.
CheckReceive == Cardinality(staged) < MaxStaged

\* DATA, up to the answer 354.
DATA(c) ==
    /\ execute(c, "DATA") /\ taken(c)
    /\ session[c].tx.recipients # <<>>
    /\ CheckReceive
    /\ session' = [session EXCEPT ![c].st = "stage"]
    /\ UNCHANGED <<connections, staged, stored>>

\* Stage reserves for the message.
Stage(c) ==
    /\ session[c].st = "stage"
    /\ Cardinality(staged) < MaxStaged
    /\ staged' = staged \cup {c}
    /\ session' = [session EXCEPT ![c].st = "receive"]
    /\ UNCHANGED <<connections, input, log, stored>>

\* Stage answers an error, having discarded what it had: the budget, the size
\* or a line's length is exceeded, the disk failed, or the client did.  The
\* rest of the message may still be coming, so the connection is closed.
StageFails(c) ==
    /\ session[c].st \in {"stage", "receive"}
    /\ staged' = staged \ {c}
    /\ closed(c)
    /\ UNCHANGED <<log, stored>>

\* The line with the dot has come, and the file is synced.
StageDone(c) ==
    /\ session[c].st = "receive"
    /\ session' = [session EXCEPT ![c].st = "policy"]
    /\ UNCHANGED <<connections, input, staged, log, stored>>

\* What is delivered: the headers deliveryHeaders writes from the session, and
\* the place of the DATA command.
message(c) ==
    [conn |-> c, helo |-> session[c].helo, from |-> session[c].tx.from,
     recipients |-> session[c].tx.recipients, encrypted |-> session[c].encrypted,
     data |-> Len(log[c])]

PolicyAccepts(c) ==
    /\ session[c].st = "policy"
    /\ session' = [session EXCEPT ![c].st = "publish"]
    /\ UNCHANGED <<connections, input, staged, log, stored>>

\* Mutant: the staged message is not discarded.
PolicyRefusesKeeping(c) ==
    /\ session[c].st = "policy"
    /\ session' = [session EXCEPT ![c].st = "open", ![c].tx = noTransaction]
    /\ UNCHANGED <<connections, input, staged, log, stored>>

\* The policy refuses, for good or for now, or it panics.
PolicyRefuses(c) ==
    /\ session[c].st = "policy"
    /\ staged' = staged \ {c}
    /\ session' = [session EXCEPT ![c].st = "open", ![c].tx = noTransaction]
    /\ UNCHANGED <<connections, input, log, stored>>

\* Publish succeeds; the archive takes the staged message over.
Publish(c) ==
    /\ session[c].st = "publish"
    /\ stored' = stored \cup {message(c)}
    /\ staged' = staged \ {c}
    /\ session' = [session EXCEPT ![c].st = "open", ![c].tx = noTransaction]
    /\ UNCHANGED <<connections, input, log>>

\* Mutant: the message is tried again and again.
PublishFailsRetrying(c) ==
    /\ session[c].st = "publish"
    /\ session' = [session EXCEPT ![c].st = "policy"]
    /\ UNCHANGED <<connections, input, staged, log, stored>>

\* Publish answers an error, and the message is in HEAD or is not.
PublishFails(c) ==
    /\ session[c].st = "publish"
    /\ stored' \in {stored, stored \cup {message(c)}}
    /\ staged' = staged \ {c}
    /\ closed(c)
    /\ UNCHANGED log

Init ==
    /\ connections = 0
    /\ session = [c \in Conns |-> newSession]
    /\ input = [c \in Conns |-> <<>>]
    /\ staged = {}
    /\ log = [c \in Conns |-> <<>>]
    /\ stored = {}

CommandNext(c) ==
    \/ EHLO(c)
    \/ STARTTLS(c)
    \/ MAIL(c)
    \/ RCPT(c)
    \/ DATA(c)
    \/ RSET(c)
    \/ QUIT(c)
    \/ Refuse(c)

DeliveryNext(c) ==
    \/ Stage(c)
    \/ StageFails(c)
    \/ StageDone(c)
    \/ PolicyAccepts(c)
    \/ PolicyRefuses(c)
    \/ Publish(c)
    \/ PublishFails(c)

Next == \E c \in Conns :
    \/ Accept(c)
    \/ \E verb \in Verbs : Send(c, verb)
    \/ CommandNext(c)
    \/ DeliveryNext(c)
    \/ Disconnect(c)

Spec == Init /\ [][Next]_vars

(***************************************************************************)
(* Fairness: serveConn sets a deadline before it reads a command and does  *)
(* not move it while DATA is read, so a client cannot keep Stage reading;  *)
(* policies and Publish return.                                            *)
(***************************************************************************)
Fairness == \A c \in Conns : WF_vars(DeliveryNext(c))

FairSpec == Spec /\ Fairness

-----------------------------------------------------------------------------
(* Properties *)

\* The last command with one of these verbs before place k, or 0.
lastOf(c, verbs, k) ==
    Max({i \in 1 .. k - 1 : log[c][i].verb \in verbs} \cup {0})

\* A delivered message has the envelope of one transaction: the sender of the
\* last MAIL, every recipient accepted after it and no other, the name of the
\* last EHLO, and nothing that was said before an EHLO, RSET, STARTTLS or an
\* earlier message.
EnvelopeIsTransaction ==
    \A m \in stored :
        LET from == lastOf(m.conn, {"MAIL"}, m.data)
        IN  /\ m.from = from
            /\ from > lastOf(m.conn, {"EHLO", "RSET", "STARTTLS", "DATA"}, m.data)
            /\ Range(m.recipients) = {i \in from + 1 .. m.data - 1 : log[m.conn][i].verb = "RCPT"}
            /\ \A i, j \in DOMAIN m.recipients : i < j => m.recipients[i] < m.recipients[j]
            /\ m.helo = lastOf(m.conn, {"EHLO"}, m.data)
            /\ m.helo > lastOf(m.conn, {"STARTTLS"}, m.data)

\* What the headers and the policy are told about TLS is true of every command
\* of the envelope: nothing that came in plaintext, even buffered before the
\* handshake, is executed as if it had come over TLS.
EnvelopeIsOfChannel ==
    \A m \in stored : \A i \in {m.helo, m.from, m.data} \cup Range(m.recipients) :
        log[m.conn][i].tls = m.encrypted

\* Every way out of DATA publishes or discards the staged message, so that its
\* reservation is not lost for the day, and every way out of serveConn gives one
\* token back: what is staged belongs to a connection that is delivering it, and
\* Server.connections has a token for each open connection, up to its capacity.
NothingIsLeaked ==
    /\ \A c \in staged : session[c].st \in {"receive", "policy", "publish"}
    /\ connections = Cardinality({c \in Conns : session[c].st # "closed"})
    /\ connections <= MaxConnections

\* A message that is being received is accepted or refused in the end, and its
\* reservation is given up.
DataEnds ==
    \A c \in Conns : session[c].st \notin {"open", "closed"} ~> session[c].st \in {"open", "closed"}
=============================================================================
