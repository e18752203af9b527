------------------------------ MODULE Children ------------------------------
(***************************************************************************)
(* Who may use the two Git children, and when they end: the three locks of *)
(* the Store, the idle timers of fast-import and cat-file, maintenance,    *)
(* which closes both, and the shutdown of the program.                     *)
(*                                                                         *)
(* The child importer belongs to gitMu, the child reader to readMu; mu is  *)
(* the writers' lock on the state.  What is written and read is in Store   *)
(* and CatFile.  An idle timer's callback carries the generation of its    *)
(* arming; only whether that is still the current one matters, and that is *)
(* what is kept of it.                                                     *)
(***************************************************************************)
EXTENDS Integers, FiniteSets

CONSTANTS
    Senders,                        \* SMTP connections that publish
    Sessions,                       \* POP3 sessions that list, retrieve and delete
    None,                           \* a lock that is free
    maintenanceCommitThreshold,
    Purposes,                       \* bound: the commands that each session gives
    Stopped,                        \* bound: is the program told to stop?
    MaxCallbacks                    \* bound: callbacks of each timer that wait for its lock

ASSUME ThresholdAssumption == maintenanceCommitThreshold \in Nat \ {0}

VARIABLES
    lock,           \* the holder of each lock
    child,          \* is the child running?
    timer,          \* is the idle timer armed?
    callbacks,      \* callbacks of timers that have fired and wait for the lock
    closer,         \* the callback that holds the lock and closes the child
    pc,             \* what each sender and session is doing
    moved,          \* per session: HEAD is no longer the one it has resolved with
    closed,         \* Store.closed (importer), Store.readClosed (reader)
    importError,    \* the importer is refused for good
    failure,        \* the store is poisoned
    maintenance,    \* where RunMaintenance is
    alarm,          \* the timer of RunMaintenance is set
    requested,      \* the channel maintenanceRequests is full
    commits,        \* commitsSinceMaintenance, up to the threshold
    maintained,     \* lastMaintenanceHead is headID
    main            \* where main is: "serving", "stopping", "writer", "reader", "closed"

store == <<closed, importError, failure>>
upkeep == <<maintenance, alarm, requested, commits, maintained>>
idling == <<timer, callbacks, closer>>
vars == <<lock, child, idling, pc, moved, store, upkeep, main>>

Kinds == {"importer", "reader"}
lockOf == [importer |-> "gitMu", reader |-> "readMu"]
Actors == Senders \cup Sessions

Init ==
    /\ lock = [l \in {"mu", "gitMu", "readMu"} |-> None]
    /\ child = [k \in Kinds |-> FALSE]
    /\ timer = [k \in Kinds |-> FALSE]
    /\ callbacks = [k \in Kinds |-> {}]
    /\ closer = [k \in Kinds |-> {}]
    /\ pc = [a \in Actors |-> "idle"]
    /\ moved = [s \in Sessions |-> FALSE]
    /\ closed = [k \in Kinds |-> FALSE]
    /\ importError = FALSE
    /\ failure = FALSE
    /\ maintenance = "sleep"
    /\ alarm = TRUE
    /\ requested = FALSE
    /\ commits = 0
    /\ maintained = FALSE
    /\ main = "serving"

free(l) == lock[l] = None
cancelled == main # "serving"

-----------------------------------------------------------------------------
(* Idle timers.  A callback is current until the generation is counted up,   *)
(* and unused until the child is used again; the code knows the first only.  *)

outdated(waiting) == {[cb EXCEPT !.current = FALSE] : cb \in waiting}

\* The start of importerLocked and readerLocked, which every use passes.
used(k) ==
    /\ timer' = [timer EXCEPT ![k] = FALSE]
    /\ callbacks' = [callbacks EXCEPT ![k] = {[cb EXCEPT !.unused = FALSE] : cb \in outdated(@)}]

\* armIdleLocked and armReadIdleLocked, for a child that is running or is not.
arm(k, running) ==
    /\ timer' = [timer EXCEPT ![k] = running]
    /\ callbacks' = [callbacks EXCEPT ![k] = IF running THEN outdated(@) ELSE @]

Fire(k) ==
    /\ timer[k]
    /\ Cardinality(callbacks[k]) < MaxCallbacks[k]
    /\ timer' = [timer EXCEPT ![k] = FALSE]
    /\ callbacks' = [callbacks EXCEPT ![k] = @ \cup {[current |-> TRUE, unused |-> TRUE]}]
    /\ UNCHANGED <<lock, child, closer, pc, moved, store, upkeep, main>>

\* Mutant: the generation is not looked at.
IdleCallbackAlways(k, cb) ==
    /\ cb \in callbacks[k]
    /\ free(lockOf[k])
    /\ callbacks' = [callbacks EXCEPT ![k] = @ \ {cb}]
    /\ lock' = [lock EXCEPT ![lockOf[k]] = k]
    /\ closer' = [closer EXCEPT ![k] = {cb}]
    /\ child' = [child EXCEPT ![k] = FALSE]
    /\ UNCHANGED <<timer, pc, moved, store, upkeep, main>>

\* The callback gets the lock.  If it is current and there is a child, it closes
\* the child's input and waits for its end, which IdleClosed stands for.
IdleCallback(k, cb) ==
    /\ cb \in callbacks[k]
    /\ free(lockOf[k])
    /\ callbacks' = [callbacks EXCEPT ![k] = @ \ {cb}]
    /\ IF cb.current /\ child[k]
       THEN /\ lock' = [lock EXCEPT ![lockOf[k]] = k]
            /\ closer' = [closer EXCEPT ![k] = {cb}]
            /\ child' = [child EXCEPT ![k] = FALSE]
       ELSE UNCHANGED <<lock, closer, child>>
    /\ UNCHANGED <<timer, pc, moved, store, upkeep, main>>

\* A failed close of the importer is kept as importError.
IdleClosed(k) ==
    /\ closer[k] # {}
    /\ closer' = [closer EXCEPT ![k] = {}]
    /\ lock' = [lock EXCEPT ![lockOf[k]] = None]
    /\ importError' \in IF k = "importer" THEN {importError, TRUE} ELSE {importError}
    /\ UNCHANGED <<child, timer, callbacks, pc, moved, closed, failure, upkeep, main>>

-----------------------------------------------------------------------------
(* Writers: Publish, and DeleteAs after it has resolved its request. *)

Publish(c) ==
    /\ pc[c] = "idle"
    /\ pc' = [pc EXCEPT ![c] = "waitMu"]
    /\ UNCHANGED <<lock, child, idling, moved, store, upkeep, main>>

\* DeleteAs lets mu go and resolves again if HEAD has moved; a poisoned store
\* refuses both.
LockMu(a) ==
    /\ pc[a] = "waitMu"
    /\ free("mu")
    /\ IF a \in Sessions /\ moved[a]
       THEN pc' = [pc EXCEPT ![a] = "quit"] /\ UNCHANGED lock
       ELSE IF failure
       THEN pc' = [pc EXCEPT ![a] = "idle"] /\ UNCHANGED lock
       ELSE pc' = [pc EXCEPT ![a] = "waitGit"] /\ lock' = [lock EXCEPT !["mu"] = a]
    /\ moved' = [s \in Sessions |-> IF s = a THEN FALSE ELSE moved[s]]
    /\ UNCHANGED <<child, idling, store, upkeep, main>>

\* There is nothing left to delete, or a check refuses what there is to write.
GivesUp(a) ==
    /\ pc[a] = "waitMu"
    /\ free("mu")
    /\ a \in Sessions => ~moved[a]
    /\ pc' = [pc EXCEPT ![a] = "idle"]
    /\ UNCHANGED <<lock, child, idling, moved, store, upkeep, main>>

\* Publish cannot write the receipt: the store is poisoned.
ReceiptFails(c) ==
    /\ pc[c] = "waitMu"
    /\ free("mu") /\ ~failure
    /\ failure' = TRUE
    /\ pc' = [pc EXCEPT ![c] = "idle"]
    /\ UNCHANGED <<lock, child, idling, moved, closed, importError, upkeep, main>>

\* commitChanges takes the importer there is, or starts one.
LockGit(a) ==
    /\ pc[a] = "waitGit"
    /\ free("gitMu")
    /\ ~closed["importer"] /\ ~importError
    /\ lock' = [lock EXCEPT !["gitMu"] = a]
    /\ child' = [child EXCEPT !["importer"] = TRUE]
    /\ used("importer")
    /\ pc' = [pc EXCEPT ![a] = "commit"]
    /\ UNCHANGED <<closer, moved, store, upkeep, main>>

\* There is no importer: closed, refused for good, or it cannot be started.
NoImporter(a) ==
    /\ pc[a] = "waitGit"
    /\ free("gitMu")
    /\ ~child["importer"]
    /\ used("importer")
    /\ lock' = [lock EXCEPT !["mu"] = None]
    /\ pc' = [pc EXCEPT ![a] = "idle"]
    /\ UNCHANGED <<child, closer, moved, store, upkeep, main>>

\* HEAD was moved from outside: the importer is not looked at, but its idle time
\* starts again.
HeadChanged(a) ==
    /\ pc[a] = "waitGit"
    /\ free("gitMu")
    /\ arm("importer", child["importer"])
    /\ lock' = [lock EXCEPT !["mu"] = None]
    /\ pc' = [pc EXCEPT ![a] = "idle"]
    /\ UNCHANGED <<child, closer, moved, store, upkeep, main>>

\* The commit is in HEAD; a request for maintenance that finds the channel full
\* is dropped.
Committed(a) ==
    /\ pc[a] = "commit"
    /\ commits' = IF commits < maintenanceCommitThreshold THEN commits + 1 ELSE commits
    /\ requested' = (requested \/ commits' = maintenanceCommitThreshold)
    /\ maintained' = FALSE
    /\ moved' = [s \in Sessions |-> pc[s] \in {"quit", "resolving", "waitMu"}]
    /\ arm("importer", TRUE)
    /\ lock' = [lock EXCEPT !["gitMu"] = None, !["mu"] = None]
    /\ pc' = [pc EXCEPT ![a] = "idle"]
    /\ UNCHANGED <<child, closer, store, maintenance, alarm, main>>

\* abortImporterLocked, also after the watchdog's timeout.
CommitFails(a) ==
    /\ pc[a] = "commit"
    /\ child' = [child EXCEPT !["importer"] = FALSE]
    /\ importError' = TRUE
    /\ failure' = TRUE
    /\ arm("importer", FALSE)
    /\ lock' = [lock EXCEPT !["gitMu"] = None, !["mu"] = None]
    /\ pc' = [pc EXCEPT ![a] = "idle"]
    /\ UNCHANGED <<closer, moved, closed, upkeep, main>>

-----------------------------------------------------------------------------
(* Sessions: "list" and "quit" read directories, "retr" leases the reader. *)

\* Mutant: DeleteAs resolves under the state lock.
AskUnderMu(s, purpose) ==
    /\ pc[s] = "idle"
    /\ purpose = "quit" => free("mu")
    /\ pc' = [pc EXCEPT ![s] = purpose]
    /\ moved' = [moved EXCEPT ![s] = FALSE]
    /\ lock' = IF purpose = "quit" THEN [lock EXCEPT !["mu"] = s] ELSE lock
    /\ UNCHANGED <<child, idling, store, upkeep, main>>

\* A command starts; QUIT takes its Snapshot, under mu.
Ask(s, purpose) ==
    /\ pc[s] = "idle"
    /\ purpose = "quit" => free("mu")
    /\ pc' = [pc EXCEPT ![s] = purpose]
    /\ moved' = [moved EXCEPT ![s] = FALSE]
    /\ UNCHANGED <<lock, child, idling, store, upkeep, main>>

\* The state of a session that holds readMu for a purpose, and the one after.
query == [list |-> "listing", retr |-> "opening", quit |-> "resolving"]
answered == [listing |-> "idle", opening |-> "leased", resolving |-> "waitMu"]

\* Mutant: a closed archive starts a new reader.
LockReadClosed(s) ==
    /\ pc[s] \in DOMAIN query
    /\ free("readMu")
    /\ used("reader")
    /\ lock' = [lock EXCEPT !["readMu"] = s]
    /\ child' = [child EXCEPT !["reader"] = TRUE]
    /\ pc' = [pc EXCEPT ![s] = query[@]]
    /\ UNCHANGED <<closer, moved, store, upkeep, main>>

LockRead(s) ==
    /\ pc[s] \in DOMAIN query
    /\ free("readMu")
    /\ ~closed["reader"]
    /\ used("reader")
    /\ lock' = [lock EXCEPT !["readMu"] = s]
    /\ child' = [child EXCEPT !["reader"] = TRUE]
    /\ pc' = [pc EXCEPT ![s] = query[@]]
    /\ UNCHANGED <<closer, moved, store, upkeep, main>>

\* There is no reader: the archive is closed, or cat-file cannot be started.
NoReader(s) ==
    /\ pc[s] \in DOMAIN query
    /\ free("readMu")
    /\ ~child["reader"]
    /\ used("reader")
    /\ pc' = [pc EXCEPT ![s] = "idle"]
    /\ UNCHANGED <<lock, child, closer, moved, store, upkeep, main>>

Answered(s) ==
    /\ pc[s] \in DOMAIN answered
    /\ pc' = [pc EXCEPT ![s] = answered[@]]
    /\ IF pc[s] = "opening"
       THEN UNCHANGED <<lock, timer, callbacks>>
       ELSE arm("reader", TRUE) /\ lock' = [lock EXCEPT !["readMu"] = None]
    /\ UNCHANGED <<child, closer, moved, store, upkeep, main>>

\* abortReaderLocked, also after the watchdog's timeout.
aborted(s) ==
    /\ pc' = [pc EXCEPT ![s] = "idle"]
    /\ child' = [child EXCEPT !["reader"] = FALSE]
    /\ arm("reader", FALSE)
    /\ lock' = [lock EXCEPT !["readMu"] = None]
    /\ UNCHANGED <<closer, moved, store, upkeep, main>>

QueryFails(s) == pc[s] \in DOMAIN answered /\ aborted(s)

\* The message is sent, or its client is given up: blobReader.Close.
CloseLease(s) ==
    /\ pc[s] = "leased"
    /\ \/ aborted(s)
       \/ /\ pc' = [pc EXCEPT ![s] = "idle"]
          /\ arm("reader", TRUE)
          /\ lock' = [lock EXCEPT !["readMu"] = None]
          /\ UNCHANGED <<child, closer, moved, store, upkeep, main>>

-----------------------------------------------------------------------------
(* Maintenance.  It never waits for a lock. *)

release(held) == lock' = [l \in DOMAIN lock |-> IF l \in held THEN None ELSE lock[l]]

\* Mutant: only success sets the timer again.
sleepsUnset == maintenance' = (IF cancelled THEN "done" ELSE "sleep") /\ UNCHANGED alarm

\* Maintain has returned: RunMaintenance ends, or sets its timer again, for a
\* time that depends on the outcome.
sleeps == maintenance' = (IF cancelled THEN "done" ELSE "sleep") /\ alarm' = TRUE

MaintenanceStops ==
    /\ maintenance = "sleep" /\ cancelled
    /\ maintenance' = "done"
    /\ UNCHANGED <<lock, child, idling, pc, moved, store, alarm, requested, commits,
                   maintained, main>>

\* The timer or a request wakes RunMaintenance; select takes either.
Wake ==
    /\ maintenance = "sleep"
    /\ \/ alarm /\ alarm' = FALSE /\ UNCHANGED requested
       \/ requested /\ requested' = FALSE /\ UNCHANGED alarm
    /\ maintenance' = "tryRead"
    /\ UNCHANGED <<lock, child, idling, pc, moved, store, commits, maintained, main>>

\* Each TryLock: the next one is tried, or all that are held are let go.
next == [tryRead |-> "tryMu", tryMu |-> "tryGit", tryGit |-> "check"]
tries == [tryRead |-> "readMu", tryMu |-> "mu", tryGit |-> "gitMu"]
holds == [tryRead |-> {}, tryMu |-> {"readMu"}, tryGit |-> {"readMu", "mu"}]

TryLock ==
    /\ maintenance \in DOMAIN tries
    /\ free(tries[maintenance])
    /\ lock' = [lock EXCEPT ![tries[maintenance]] = "maintenance"]
    /\ maintenance' = next[maintenance]
    /\ UNCHANGED <<child, idling, pc, moved, store, alarm, requested, commits, maintained, main>>

\* Mutant: the locks that were taken are not let go.
BusyKeeping ==
    /\ maintenance \in DOMAIN tries
    /\ ~free(tries[maintenance])
    /\ sleeps
    /\ UNCHANGED <<lock, child, idling, pc, moved, store, requested, commits, maintained, main>>

Busy ==
    /\ maintenance \in DOMAIN tries
    /\ ~free(tries[maintenance])
    /\ release(holds[maintenance])
    /\ sleeps
    /\ UNCHANGED <<child, idling, pc, moved, store, requested, commits, maintained, main>>

needed == ~closed["importer"] /\ ~closed["reader"] /\ ~failure /\ ~maintained /\ ~cancelled

\* The archive is closed, poisoned or already maintained.
NotNeeded ==
    /\ maintenance = "check" /\ ~needed
    /\ release(DOMAIN lock)
    /\ sleeps
    /\ UNCHANGED <<child, idling, pc, moved, store, requested, commits, maintained, main>>

\* Both timers are stopped and their generations counted up.
bothStopped ==
    /\ timer' = [k \in Kinds |-> FALSE]
    /\ callbacks' = [k \in Kinds |-> outdated(callbacks[k])]

\* Both children are closed.
Collect ==
    /\ maintenance = "check" /\ needed
    /\ bothStopped
    /\ child' = [k \in Kinds |-> FALSE]
    /\ maintenance' = "gc"
    /\ UNCHANGED <<lock, closer, pc, moved, store, alarm, requested, commits, maintained, main>>

\* The importer did not end well, which poisons the store; the reader is left.
ImporterFails ==
    /\ maintenance = "check" /\ needed /\ child["importer"]
    /\ bothStopped
    /\ child' = [child EXCEPT !["importer"] = FALSE]
    /\ importError' = TRUE
    /\ failure' = TRUE
    /\ release(DOMAIN lock)
    /\ sleeps
    /\ UNCHANGED <<closer, pc, moved, closed, requested, commits, maintained, main>>

Collected ==
    /\ maintenance = "gc"
    /\ maintained' = TRUE
    /\ commits' = 0
    /\ release(DOMAIN lock)
    /\ sleeps
    /\ UNCHANGED <<child, idling, pc, moved, store, requested, main>>

\* The reader did not end well, or gc failed, was cancelled or took too long.
CollectFails ==
    /\ maintenance = "gc"
    /\ release(DOMAIN lock)
    /\ sleeps
    /\ UNCHANGED <<child, idling, pc, moved, store, requested, commits, maintained, main>>

-----------------------------------------------------------------------------
(* The end of main: the deferred calls, last first. *)

Signal ==
    /\ Stopped
    /\ main = "serving"
    /\ main' = "stopping"
    /\ UNCHANGED <<lock, child, idling, pc, moved, store, upkeep>>

MaintenanceDone ==
    /\ main = "stopping" /\ maintenance = "done"
    /\ main' = "writer"
    /\ UNCHANGED <<lock, child, idling, pc, moved, store, upkeep>>

\* Close, first for the importer, then for the reader.
Close(k) ==
    /\ main = IF k = "importer" THEN "writer" ELSE "reader"
    /\ free(lockOf[k])
    /\ closed' = [closed EXCEPT ![k] = TRUE]
    /\ timer' = [timer EXCEPT ![k] = FALSE]
    /\ callbacks' = [callbacks EXCEPT ![k] = outdated(@)]
    /\ child' = [child EXCEPT ![k] = FALSE]
    /\ main' = IF k = "importer" THEN "reader" ELSE "closed"
    /\ UNCHANGED <<lock, closer, pc, moved, importError, failure, upkeep>>

-----------------------------------------------------------------------------
Acquire(a) ==
    \/ LockMu(a) \/ GivesUp(a)
    \/ a \in Senders /\ ReceiptFails(a)
    \/ LockGit(a) \/ NoImporter(a) \/ HeadChanged(a)
    \/ a \in Sessions /\ (LockRead(a) \/ NoReader(a))

Work(a) ==
    \/ Committed(a) \/ CommitFails(a)
    \/ a \in Sessions /\ (Answered(a) \/ QueryFails(a))

Maintain ==
    \/ MaintenanceStops
    \/ Wake
    \/ TryLock
    \/ Busy
    \/ NotNeeded
    \/ Collect
    \/ ImporterFails
    \/ Collected
    \/ CollectFails

Next ==
    \/ \E k \in Kinds :
          \/ Fire(k)
          \/ \E cb \in callbacks[k] : IdleCallback(k, cb)
          \/ IdleClosed(k)
          \/ Close(k)
    \/ \E a \in Actors : Acquire(a) \/ Work(a)
    \/ \E c \in Senders : Publish(c)
    \/ \E s \in Sessions : (\E purpose \in Purposes[s] : Ask(s, purpose)) \/ CloseLease(s)
    \/ Maintain
    \/ Signal
    \/ MaintenanceDone

Spec == Init /\ [][Next]_vars

(***************************************************************************)
(* Fairness.  Goroutines run, timers fire, and the watchdog ends every     *)
(* operation on a child and gc.  sync.Mutex hands a lock to a goroutine    *)
(* that has waited for long, so one that is free again and again is got:   *)
(* strong fairness.  Nothing makes a client take its mail, and so nothing  *)
(* ends a lease.                                                           *)
(***************************************************************************)
Fairness ==
    /\ \A a \in Actors : SF_vars(Acquire(a)) /\ WF_vars(Work(a))
    /\ \A k \in Kinds : WF_vars(IdleClosed(k)) /\ SF_vars(Close(k))
    /\ WF_vars(Maintain)
    /\ WF_vars(MaintenanceDone)

FairSpec == Spec /\ Fairness

-----------------------------------------------------------------------------
(* Properties *)

\* A client that never takes its mail, and sessions that wait for the reader
\* behind it, do not keep a message from being published.
WritersGetOn == \A c \in Senders : pc[c] # "idle" ~> pc[c] = "idle"

\* A child that nobody uses is closed after its idle time: its timer is armed,
\* or a callback that will pass the check waits for the lock.
IdleChildEnds ==
    \A k \in Kinds : child[k] /\ free(lockOf[k]) =>
        timer[k] \/ \E cb \in callbacks[k] : cb.current

\* A child that is closed for idleness has not been used since its timer was
\* armed: a callback that was already waiting for the lock lets it live.  And no
\* child is left without a timer, however its last use ended, unless the store
\* is poisoned.
IdleTimersWork ==
    /\ \A k \in Kinds : \A cb \in closer[k] : cb.unused
    /\ failure \/ IdleChildEnds

\* Once Close has dealt with a child, no session or connection that is still
\* served starts it again: main leaves no child behind when it returns.
NoChildAfterClose == \A k \in Kinds : closed[k] => ~child[k]

\* Maintenance does not give up because it met a busy archive: when nobody uses
\* the archive any more, HEAD is maintained in the end, unless gc keeps failing
\* or the store is poisoned or closing.
MaintenanceHappens ==
    (<>[](\A a \in Actors : pc[a] = "idle") /\ <>[][~CollectFails]_vars)
        => <>[](maintained \/ failure \/ cancelled)

\* A signal ends the program, if no client keeps its lease for good: main waits
\* for maintenance and then for both locks, while connections go on using the
\* archive.
ShutdownEnds ==
    (\A s \in Sessions : []<>(pc[s] # "leased")) => (cancelled ~> main = "closed")
=============================================================================
