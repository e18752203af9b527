------------------------------ MODULE CatFile -------------------------------
(***************************************************************************)
(* The reader (internal/archive/read.go): one git cat-file child answers   *)
(* all requests for trees and messages over one pipe.  A request for the   *)
(* contents of an object leases the pipe, under readMu, until its caller   *)
(* closes it; each operation on the pipe has a watchdog that kills the     *)
(* child when it takes too long.  The pipe is a sequence of tokens: header *)
(* lines, octets of objects, and the newline that ends an object.          *)
(*                                                                         *)
(* A child that cannot be started changes nothing and has no action.  When *)
(* the child is closed for idleness is in Children.                        *)
(***************************************************************************)
EXTENDS Integers, Sequences, SequencesExt

CONSTANTS
    Readers,        \* POP3 sessions that call the archive
    Specs,          \* object names that are asked for
    Repository,     \* the objects there are: name to kind and size
    None            \* readMu is not locked

VARIABLES
    readMu,     \* who holds the lock
    reader,     \* Store.reader: its child, what that has yet to write, and the pipe
    watch,      \* the watchdog of the operation under way: "off", "on" or "fired"
    call        \* the operation of each session

vars == <<readMu, reader, watch, call>>

Kinds == {"blob", "tree"}

noReader == [st |-> "none", pending |-> <<>>, output |-> <<>>]

\* The octets of an object, and what the child writes in answer to a request.
contents(spec) == [i \in 1 .. Repository[spec].size |-> <<"octet", spec, i>>]

answer(command, spec) ==
    IF spec \notin DOMAIN Repository THEN <<<<"missing", spec>>>>
    ELSE <<<<"header", spec>>>>
            \o (IF command = "info" THEN <<>> ELSE contents(spec) \o <<<<"newline">>>>)

\* st: "idle", "query", "leased" between two reads, "read", or "close".
\* The other fields are of the last request; of is the object it was answered
\* with, and result, of a call that ended, is "ok", "missing" or "failed".
newCall(command, spec, kind) ==
    [st |-> "query", command |-> command, spec |-> spec, kind |-> kind, of |-> spec,
     remaining |-> 0, got |-> <<>>, result |-> "ok"]

Init ==
    /\ readMu = None
    /\ reader = noReader
    /\ watch = "off"
    /\ call = [r \in Readers |-> [st |-> "idle", result |-> "failed"]]

-----------------------------------------------------------------------------
(* The child, and the watchdog that kills it. *)

ChildWrites ==
    /\ reader.st = "running" /\ reader.pending # <<>>
    /\ reader' = [reader EXCEPT !.output = Append(@, Head(reader.pending)),
                                !.pending = Tail(@)]
    /\ UNCHANGED <<readMu, watch, call>>

\* What it has written stays in the pipe.
ChildDies ==
    /\ reader.st = "running"
    /\ reader' = [reader EXCEPT !.st = "died", !.pending = <<>>]
    /\ UNCHANGED <<readMu, watch, call>>

\* Mutant: the timeout is noted, and the child is left alone.
WatchdogKeeping ==
    /\ watch = "on"
    /\ watch' = "fired"
    /\ UNCHANGED <<readMu, reader, call>>

\* watchGit: the timer may fire until the operation has ended, even when the
\* operation has all it needs.
Watchdog ==
    /\ watch = "on"
    /\ watch' = "fired"
    /\ reader' = [reader EXCEPT !.st = "killed", !.pending = <<>>]
    /\ UNCHANGED <<readMu, call>>

-----------------------------------------------------------------------------
(* Calls.  An operation under watch blocks until it has a token or the end.  *)

atEnd == reader.output = <<>> /\ reader.st \in {"died", "killed"}

taken == [reader EXCEPT !.output = Tail(@)]

\* The call ends and readMu is unlocked; the reader is what the argument says.
returns(r, result, process) ==
    /\ call' = [call EXCEPT ![r].st = "idle", ![r].result = result]
    /\ readMu' = None
    /\ watch' = "off"
    /\ reader' = process

\* abortReaderLocked
aborts(r) == returns(r, "failed", noReader)

\* readerLocked takes the child there is, or starts one; then the request is
\* written.
Query(r, command, spec, kind) ==
    /\ call[r].st = "idle"
    /\ readMu = None
    /\ readMu' = r
    /\ reader' = IF reader.st = "none"
                 THEN [st |-> "running", pending |-> answer(command, spec), output |-> <<>>]
                 ELSE IF reader.st = "running"
                 THEN [reader EXCEPT !.pending = @ \o answer(command, spec)]
                 ELSE reader
    /\ watch' = "on"
    /\ call' = [call EXCEPT ![r] = newCall(command, spec, kind)]

\* The line that queryObjectInner reads is a header of the kind it expects.
validHeader(r) ==
    LET line == Head(reader.output)
    IN  line[1] = "header" /\ Repository[line[2]].kind = call[r].kind

\* objectInfo answers.
Info(r) ==
    /\ call[r].st = "query" /\ call[r].command = "info" /\ watch = "on"
    /\ reader.output # <<>> /\ validHeader(r)
    /\ call' = [call EXCEPT ![r].st = "idle", ![r].of = Head(reader.output)[2]]
    /\ readMu' = None
    /\ watch' = "off"
    /\ reader' = taken

\* readObject answers a blobReader, which keeps readMu.
Open(r) ==
    /\ call[r].st = "query" /\ call[r].command = "contents" /\ watch = "on"
    /\ reader.output # <<>> /\ validHeader(r)
    /\ LET of == Head(reader.output)[2]
       IN  call' = [call EXCEPT ![r].st = "leased", ![r].of = of,
                                ![r].remaining = Repository[of].size]
    /\ watch' = "off"
    /\ reader' = taken
    /\ UNCHANGED readMu

\* ErrNoSuchMessage keeps the reader, also when it is joined with ErrGitTimeout.
Missing(r) ==
    /\ call[r].st = "query"
    /\ reader.output # <<>> /\ Head(reader.output) = <<"missing", call[r].spec>>
    /\ returns(r, "missing", taken)

\* Any other line, the end of the output, or a timeout.
QueryFails(r) ==
    /\ call[r].st = "query"
    /\ \/ atEnd
       \/ /\ reader.output # <<>>
          /\ Head(reader.output) # <<"missing", call[r].spec>>
          /\ ~validHeader(r) \/ watch = "fired"
    /\ aborts(r)

\* blobReader.Read
Read(r) ==
    /\ call[r].st = "leased" /\ call[r].remaining > 0
    /\ call' = [call EXCEPT ![r].st = "read"]
    /\ watch' = "on"
    /\ UNCHANGED <<readMu, reader>>

\* The octet is counted, also if the timeout makes Read answer an error with it;
\* its caller then does not read on.
ReadDone(r) ==
    /\ call[r].st = "read"
    /\ reader.output # <<>>
    /\ call' = [call EXCEPT ![r].st = IF watch = "fired" THEN "failed" ELSE "leased",
                            ![r].got = Append(@, Head(reader.output)),
                            ![r].remaining = @ - 1]
    /\ watch' = "off"
    /\ reader' = taken
    /\ UNCHANGED readMu

ReadFails(r) ==
    /\ call[r].st = "read"
    /\ atEnd
    /\ call' = [call EXCEPT ![r].st = "failed"]
    /\ watch' = "off"
    /\ UNCHANGED <<readMu, reader>>

\* Close, after the last octet, an error, or as soon as the caller likes.
Close(r) ==
    /\ call[r].st \in {"leased", "failed"}
    /\ call' = [call EXCEPT ![r].st = "close"]
    /\ watch' = "on"
    /\ UNCHANGED <<readMu, reader>>

CloseDrains(r) ==
    /\ call[r].st = "close" /\ call[r].remaining > 0
    /\ reader.output # <<>>
    /\ call' = [call EXCEPT ![r].remaining = @ - 1]
    /\ reader' = taken
    /\ UNCHANGED <<readMu, watch>>

\* Mutant: an object that was read to its end is not followed by anything.
CloseDoneShort(r) ==
    /\ call[r].st = "close" /\ call[r].remaining = 0
    /\ watch = "on"
    /\ returns(r, "ok", reader)

CloseDone(r) ==
    /\ call[r].st = "close" /\ call[r].remaining = 0
    /\ reader.output # <<>> /\ Head(reader.output) = <<"newline">>
    /\ watch = "on"
    /\ returns(r, "ok", taken)

CloseFails(r) ==
    /\ call[r].st = "close"
    /\ \/ atEnd
       \/ /\ call[r].remaining = 0 /\ reader.output # <<>>
          /\ Head(reader.output) # <<"newline">> \/ watch = "fired"
    /\ aborts(r)

\* closeReaderLocked, called when the reader is idle, by Maintain and by Close.
CloseReader ==
    /\ readMu = None
    /\ reader.st # "none"
    /\ reader' = noReader
    /\ UNCHANGED <<readMu, watch, call>>

\* What a session does once it has a child to talk to.
Operation(r) ==
    \/ Info(r)
    \/ Open(r)
    \/ Missing(r)
    \/ QueryFails(r)
    \/ ReadDone(r)
    \/ ReadFails(r)
    \/ CloseDrains(r)
    \/ CloseDone(r)
    \/ CloseFails(r)

Next ==
    \/ ChildWrites
    \/ ChildDies
    \/ Watchdog
    \/ CloseReader
    \/ \E r \in Readers :
          \/ \E command \in {"info", "contents"}, spec \in Specs, kind \in Kinds :
                Query(r, command, spec, kind)
          \/ Operation(r)
          \/ Read(r)
          \/ Close(r)

Spec == Init /\ [][Next]_vars

(***************************************************************************)
(* Fairness: goroutines run, and timers fire.  Nothing is assumed of the   *)
(* child, which may stall, nor of callers that hold a lease.               *)
(***************************************************************************)
Fairness == WF_vars(Watchdog) /\ \A r \in Readers : WF_vars(Operation(r))

FairSpec == Spec /\ Fairness

-----------------------------------------------------------------------------
(* Properties *)

\* Every session gets the answer to its own request: the octets it reads are
\* those of the object it named, in order and to the end, and what is called
\* missing is not there.  For that the pipe must be at a header boundary
\* whenever readMu is free, whatever was read, drained, refused or cut short.
AnswersAreMine ==
    /\ \A r \in Readers :
          /\ call[r].st \in {"leased", "read"} =>
                /\ call[r].of = call[r].spec
                /\ call[r].got \o SubSeq(contents(call[r].spec), Len(call[r].got) + 1,
                                         Len(call[r].got) + call[r].remaining)
                     = contents(call[r].spec)
          /\ (call[r].st = "idle" /\ call[r].result = "ok") => call[r].of = call[r].spec
          /\ (call[r].st = "idle" /\ call[r].result = "missing") =>
                call[r].spec \notin DOMAIN Repository
    /\ readMu = None => reader.pending = <<>> /\ reader.output = <<>>

\* A child that stalls blocks no operation for good: the watchdog ends it, and
\* what it does at the end of the pipe gives the caller an answer.
OperationsEnd ==
    \A r \in Readers : call[r].st \in {"query", "read", "close"}
                          ~> call[r].st \notin {"query", "read", "close"}

\* A child that the watchdog killed is not kept for the next request: "reader
\* did not restart" in the test of timeouts.
KilledIsReclaimed == readMu = None => reader.st # "killed"
=============================================================================
