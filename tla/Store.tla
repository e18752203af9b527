-------------------------------- MODULE Store -------------------------------
(***************************************************************************)
(* The archive of picomx (internal/archive): SMTP connections stage and    *)
(* publish messages, POP3 sessions delete them, and every change is one    *)
(* commit of a bare Git repository written by a fast-import child process. *)
(* A receipt file beside the repository limits what is accepted per day.   *)
(*                                                                         *)
(* Store.mu is held from the first step of a commit to its last, so there  *)
(* is at most one transaction; it is free when txn.phase is "none".  The   *)
(* steps that do not need mu (the clock, the idle timer of the importer, a *)
(* crash, a commit somebody else makes) come between any two of them.      *)
(*                                                                         *)
(* A call that answers an error and changes nothing is a stuttering step   *)
(* and has no action.                                                      *)
(***************************************************************************)
EXTENDS Mailbox

CONSTANTS
    Conns,                  \* SMTP connections
    Sessions,               \* POP3 sessions that end with deletions
    Requests,               \* the sets of IDs a session may delete
    Imported,               \* sizes of the messages in the first commit
    MaxDailyBytes,          \* Options.MaxDailyBytes
    minimumReceiptCharge,   \* what the smallest message costs
    MaxMessage,             \* bound: octets of a message
    MaxDay,                 \* bound: the last day of the clock
    MaxOutside,             \* bound: commits made by other programs
    RollbackInPublish,      \* may the clock be set back while Publish runs?
    CutBetweenCommands      \* may a crash cut the stream to fast-import
                            \* between two of its commands?

ASSUME ConnsAssumption == Conns \cap Sessions = {}
ASSUME FiniteAssumption == IsFiniteSet(Conns)
ASSUME RequestsAssumption == Requests \subseteq SUBSET (1 .. MaxID)
ASSUME ImportedAssumption ==
    Imported \in Seq(0 .. MaxMessage) /\ Len(Imported) <= MaxID
ASSUME BudgetAssumption ==
    /\ MaxDailyBytes \in Nat
    /\ minimumReceiptCharge \in Nat \ {0}
    /\ MaxMessage \in Nat
    /\ MaxDay \in Nat
    /\ MaxOutside \in Nat
    /\ RollbackInPublish \in BOOLEAN
    /\ CutBetweenCommands \in BOOLEAN

VARIABLES
    \* On disk.
    commits,        \* the history of HEAD, oldest first; HEAD is the last
    receiptFile,    \* the receipt file as any process reads it
    receiptSynced,  \* the receipt file as it is after a loss of power
    orphan,         \* the transaction a fast-import that outlived picomx holds
    \* In the picomx process.
    up,             \* the process runs
    state,          \* Store.state
    headID,         \* Store.headID, an index into commits
    failure,        \* Store.failure is set: nothing is written any more
    importer,       \* Store.importer: "none", "running", or "refused" once
                    \* Store.importError or Store.closed is set
    receipt,        \* Store.receipt
    reservedBytes,  \* Store.reservedBytes
    staged,         \* the StagedMessage of each connection
    deletion,       \* the call of DeleteAs of each session
    txn,            \* the transaction that holds mu
    \* Around it.
    day,            \* the UTC day the clock shows
    outside,        \* the commits other programs have made
    \* What clients were told, and what HEAD has received.
    acked,          \* files of messages accepted with 250
    requested,      \* the sets of IDs some session asked to delete
    confirmed,      \* IDs whose deletion was answered with +OK
    published       \* per day of the receipt: the charge of published mail

disk    == <<commits, receiptFile, receiptSynced, orphan>>
memory  == <<state, headID, failure, importer, receipt, reservedBytes>>
calls   == <<staged, deletion, txn>>
clients == <<acked, requested, confirmed>>
vars    == <<disk, up, memory, calls, day, outside, clients, published>>

Days == 0 .. MaxDay
Writers == Conns \cup Sessions

\* No receipt has been written yet: a day before the first.
NoReceipt == [Day |-> -1, ChargedBytes |-> 0]

NoMessageStaged == [st |-> "idle", reserved |-> 0, size |-> 0]

NoDeletion ==
    [st |-> "idle", ids |-> {}, commit |-> 0, state |-> emptyMailboxState, messages |-> {}]

\* A transaction: the arguments of commitChanges and, for a message, the day
\* and the octets it was charged for.
NoTransaction ==
    [phase |-> "none", who |-> "none", parent |-> 0, state |-> emptyMailboxState,
     changes |-> {}, removals |-> {}, Day |-> 0, bytes |-> 0]

head == Len(commits)
treeAt(commit) == commits[commit].tree
muFree == txn.phase = "none"

-----------------------------------------------------------------------------
(* quota.go *)

\* Mutant: a clock that was set back starts a new budget.
receiptUsageResets ==
    IF receipt.Day = day THEN receipt ELSE [Day |-> day, ChargedBytes |-> 0]

\* receiptUsageLocked: a clock that was set back does not reset the budget.
receiptUsage ==
    IF receipt.Day >= day THEN receipt ELSE [Day |-> day, ChargedBytes |-> 0]

\* Mutant: what other connections have reserved does not count.
canReserveAlone(extra) == receiptUsage.ChargedBytes + extra <= MaxDailyBytes

canReserve(extra) ==
    LET used == receiptUsage.ChargedBytes
    IN  /\ used <= MaxDailyBytes
        /\ reservedBytes <= MaxDailyBytes - used
        /\ extra <= MaxDailyBytes - used - reservedBytes

\* Stage, up to the first read: the smallest charge is reserved.
Stage(c) ==
    /\ up /\ muFree /\ ~failure
    /\ staged[c].st = "idle"
    /\ canReserve(minimumReceiptCharge)
    /\ reservedBytes' = reservedBytes + minimumReceiptCharge
    /\ staged' = [staged EXCEPT ![c] =
                    [st |-> "staging", reserved |-> minimumReceiptCharge, size |-> 0]]
    /\ UNCHANGED <<disk, up, state, headID, failure, importer, receipt, deletion, txn,
                   day, outside, clients, published>>

\* What a message of this many octets is charged.
chargeOf(octets) ==
    IF octets < minimumReceiptCharge THEN minimumReceiptCharge ELSE octets

\* quotaReader.Read: n more octets arrive, and are reserved.
QuotaRead(c, n) ==
    /\ up /\ muFree
    /\ staged[c].st = "staging"
    /\ staged[c].size + n <= MaxMessage
    /\ LET charge == chargeOf(staged[c].size + n)
           extra == charge - staged[c].reserved
       IN  /\ canReserve(extra)
           /\ reservedBytes' = reservedBytes + extra
           /\ staged' = [staged EXCEPT ![c] =
                [st |-> "staging", reserved |-> charge, size |-> staged[c].size + n]]
    /\ UNCHANGED <<disk, up, state, headID, failure, importer, receipt, deletion, txn,
                   day, outside, clients, published>>

\* The end of Stage: the file is complete and synced.
StageDone(c) ==
    /\ up
    /\ staged[c].st = "staging"
    /\ staged' = [staged EXCEPT ![c].st = "staged"]
    /\ UNCHANGED <<disk, up, memory, deletion, txn, day, outside, clients, published>>

\* Discard: by Stage itself when the budget, the connection or the disk fails
\* it, and by the connection when policy or Publish refuses the message.
Discard(c) ==
    /\ up /\ muFree
    /\ staged[c].st \in {"staging", "staged"}
    /\ reservedBytes' = reservedBytes - staged[c].reserved
    /\ staged' = [staged EXCEPT ![c] = NoMessageStaged]
    /\ UNCHANGED <<disk, up, state, headID, failure, importer, receipt, deletion, txn,
                   day, outside, clients, published>>

-----------------------------------------------------------------------------
(* Publish, store.go *)

\* The checks of Publish, and what it is going to commit.
PublishStart(c) ==
    /\ up /\ muFree /\ ~failure
    /\ staged[c].st = "staged"
    /\ canReserve(0)
    /\ canPublish(state, staged[c].size)
    /\ staged' = [staged EXCEPT ![c].st = "publishing"]
    /\ txn' = [NoTransaction EXCEPT
                 !.phase = "charge", !.who = c, !.parent = headID,
                 !.state = publishState(state, staged[c].size),
                 !.changes = {messagePath(state.LastID + 1, staged[c].size)}]
    /\ UNCHANGED <<disk, up, memory, deletion, day, outside, clients, published>>

\* writeReceipt up to the rename.  The clock is read for the second time.
WriteReceipt(c) ==
    /\ up /\ txn.phase = "charge" /\ txn.who = c
    /\ receiptFile' = [receiptUsage EXCEPT !.ChargedBytes = @ + staged[c].reserved]
    /\ txn' = [txn EXCEPT !.phase = "sync"]
    /\ UNCHANGED <<commits, receiptSynced, orphan, up, memory, staged, deletion, day,
                   outside, clients, published>>

\* Mutants: the directory is not synced; the reservation is kept.
SyncReceiptSkipped(c) ==
    /\ up /\ txn.phase = "sync" /\ txn.who = c
    /\ receipt' = receiptFile
    /\ reservedBytes' = reservedBytes - staged[c].reserved
    /\ staged' = [staged EXCEPT ![c].reserved = 0]
    /\ txn' = [txn EXCEPT !.phase = "commit", !.Day = receiptFile.Day,
                          !.bytes = staged[c].reserved]
    /\ UNCHANGED <<disk, up, state, headID, failure, importer, deletion, day, outside,
                   clients, published>>

SyncReceiptKeeping(c) ==
    /\ up /\ txn.phase = "sync" /\ txn.who = c
    /\ receiptSynced' = receiptFile
    /\ receipt' = receiptFile
    /\ reservedBytes' = reservedBytes - staged[c].reserved
    /\ txn' = [txn EXCEPT !.phase = "commit", !.Day = receiptFile.Day,
                          !.bytes = staged[c].reserved]
    /\ UNCHANGED <<commits, receiptFile, orphan, up, state, headID, failure, importer,
                   staged, deletion, day, outside, clients, published>>

\* The directory is synced: the charge is durable, and the reservation that
\* stood for it is given up.
SyncReceipt(c) ==
    /\ up /\ txn.phase = "sync" /\ txn.who = c
    /\ receiptSynced' = receiptFile
    /\ receipt' = receiptFile
    /\ reservedBytes' = reservedBytes - staged[c].reserved
    /\ staged' = [staged EXCEPT ![c].reserved = 0]
    /\ txn' = [txn EXCEPT !.phase = "commit", !.Day = receiptFile.Day,
                          !.bytes = staged[c].reserved]
    /\ UNCHANGED <<commits, receiptFile, orphan, up, state, headID, failure, importer,
                   deletion, day, outside, clients, published>>

\* Mutant: the reservation is given back here, and by Discard again.
ReceiptFailsReleasing(c) ==
    /\ up /\ txn.phase \in {"charge", "sync"} /\ txn.who = c
    /\ failure' = TRUE
    /\ reservedBytes' = reservedBytes - staged[c].reserved
    /\ staged' = [staged EXCEPT ![c].st = "staged"]
    /\ txn' = NoTransaction
    /\ UNCHANGED <<disk, up, state, headID, importer, receipt, deletion, day, outside,
                   clients, published>>

\* writeReceipt answers an error, before or after the rename.  Nothing is
\* written any more until picomx is started again.
ReceiptFails(c) ==
    /\ up /\ txn.phase \in {"charge", "sync"} /\ txn.who = c
    /\ failure' = TRUE
    /\ staged' = [staged EXCEPT ![c].st = "staged"]
    /\ txn' = NoTransaction
    /\ UNCHANGED <<disk, up, state, headID, importer, receipt, reservedBytes, deletion,
                   day, outside, clients, published>>

-----------------------------------------------------------------------------
(* commitChanges, import.go; the caller's return is part of its last step. *)

\* The call that holds the transaction returns.
returned ==
    /\ txn' = NoTransaction
    /\ staged' = [c \in Conns |-> IF c = txn.who THEN NoMessageStaged ELSE staged[c]]
    /\ deletion' = [s \in Sessions |-> IF s = txn.who THEN NoDeletion ELSE deletion[s]]

\* HEAD is still what picomx wrote last, and there is an importer.
StartImport ==
    /\ up /\ txn.phase = "commit"
    /\ ~failure
    /\ head = headID
    /\ importer # "refused"
    /\ importer' = "running"
    /\ txn' = [txn EXCEPT !.phase = "import"]
    /\ UNCHANGED <<disk, up, state, headID, failure, receipt, reservedBytes, staged,
                   deletion, day, outside, clients, published>>

\* HEAD was changed by someone else or cannot be read, or there is no importer
\* and none can be started: an error that does not poison the store.
RefuseCommit ==
    /\ up /\ txn.phase = "commit"
    /\ returned
    /\ UNCHANGED <<disk, up, memory, day, outside, clients, published>>

\* Mutant: the removals are not written.
commitWithoutRemovals(t) ==
    [parent |-> t.parent, state |-> t.state, tree |-> treeAt(t.parent) \cup t.changes]

commitOf(t) ==
    [parent |-> t.parent, state |-> t.state,
     tree |-> (treeAt(t.parent) \cup t.changes) \ t.removals]

\* Mutant: the branch is moved by force.
forcedUpdate(commit) == commits' = Append(commits, commit)

\* Git moves the branch to a commit only if it descends from where it is.
fastForward(commit) ==
    /\ head = commit.parent
    /\ commits' = Append(commits, commit)

\* fast-import reads the whole stream, and its checkpoint moves HEAD.
Checkpoint ==
    /\ up /\ txn.phase = "import"
    /\ fastForward(commitOf(txn))
    /\ published' = [published EXCEPT ![txn.Day] = @ + txn.bytes]
    /\ txn' = [txn EXCEPT !.phase = "landed"]
    /\ UNCHANGED <<receiptFile, receiptSynced, orphan, up, memory, staged, deletion, day,
                   outside, clients>>

\* The checkpoint only warned: the branch was locked, or had moved.
CheckpointSkipped ==
    /\ up /\ txn.phase = "import"
    /\ txn' = [txn EXCEPT !.phase = "skipped"]
    /\ UNCHANGED <<disk, up, memory, staged, deletion, day, outside, clients, published>>

\* Mutant: the answer to the checkpoint is trusted, and HEAD is not read.
verifiedByProgress == txn.phase \in {"landed", "skipped"}

\* HEAD is the commit that was sent: the in-memory state follows it, and the
\* caller is told so.
verified == txn.phase = "landed" /\ head = txn.parent + 1

\* Mutant: the in-memory state is left behind.
CommitDoneStale ==
    /\ up /\ verified
    /\ headID' = head
    /\ acked' = acked \cup txn.changes
    /\ confirmed' = confirmed \cup (IF txn.who \in Sessions THEN deletion[txn.who].ids ELSE {})
    /\ returned
    /\ UNCHANGED <<disk, up, state, failure, importer, receipt, reservedBytes, day, outside,
                   requested, published>>

CommitDone ==
    /\ up /\ verified
    /\ headID' = head
    /\ state' = txn.state
    /\ acked' = acked \cup txn.changes
    /\ confirmed' = confirmed \cup (IF txn.who \in Sessions THEN deletion[txn.who].ids ELSE {})
    /\ returned
    /\ UNCHANGED <<disk, up, failure, importer, receipt, reservedBytes, day, outside, requested,
                   published>>

\* A broken pipe, a bad answer, the watchdog, or a HEAD that is not the commit:
\* the importer is killed and the store poisoned.  A watchdog that fires while
\* HEAD is verified does so after headID was set; state is left behind.
ImportFails ==
    /\ up /\ txn.phase \in {"import", "landed", "skipped"}
    /\ failure' = TRUE
    /\ importer' = "refused"
    /\ headID' \in {headID} \cup (IF verified THEN {head} ELSE {})
    /\ returned
    /\ UNCHANGED <<disk, up, state, receipt, reservedBytes, day, outside, clients,
                   published>>

\* gitMu is free: commitChanges holds it while it talks to the importer.
gitMuFree == txn.phase \notin {"import", "landed", "skipped"}

\* The idle timer closes the importer: it takes gitMu but not mu.  The close may
\* fail, which sets importError.
IdleClose ==
    /\ up /\ gitMuFree
    /\ importer = "running"
    /\ importer' \in {"none", "refused"}
    /\ UNCHANGED <<disk, up, state, headID, failure, receipt, reservedBytes, calls, day,
                   outside, clients, published>>

\* Store.Close, at the end of main, while connections may still be served.
Close ==
    /\ up /\ gitMuFree
    /\ importer' = "refused"
    /\ UNCHANGED <<disk, up, state, headID, failure, receipt, reservedBytes, calls, day,
                   outside, clients, published>>

\* Maintain closes the importer before it repacks the objects; here, unlike in
\* the idle timer, a close that fails poisons the store.
Maintain ==
    /\ up /\ muFree /\ ~failure
    /\ importer = "running"
    /\ \/ importer' = "none" /\ UNCHANGED failure
       \/ importer' = "refused" /\ failure' = TRUE
    /\ UNCHANGED <<disk, up, state, headID, receipt, reservedBytes, calls, day, outside,
                   clients, published>>

-----------------------------------------------------------------------------
(* DeleteAs, mailbox.go *)

DeleteAs(s, ids) ==
    /\ up
    /\ deletion[s].st = "idle"
    /\ deletion' = [deletion EXCEPT ![s] = [NoDeletion EXCEPT !.st = "snapshot", !.ids = ids]]
    /\ requested' = requested \cup {ids}
    /\ UNCHANGED <<disk, up, memory, staged, txn, day, outside, acked, confirmed, published>>

Snapshot(s) ==
    /\ up /\ muFree
    /\ deletion[s].st = "snapshot"
    /\ deletion' = [deletion EXCEPT ![s].st = "resolve", ![s].commit = headID,
                                    ![s].state = state]
    /\ UNCHANGED <<disk, up, memory, staged, txn, day, outside, clients, published>>

\* The files of the messages that the snapshot still has, read without mu.  An
\* ID that was never given out fails the whole call; a directory that is not in
\* the tree has no such message.
Resolve(s) ==
    /\ up
    /\ deletion[s].st = "resolve"
    /\ deletion[s].ids \subseteq 1 .. deletion[s].state.LastID
    /\ LET index == buildDirectoryIndex(deletion[s].state.Directories)
           tree == treeAt(deletion[s].commit)
       IN  /\ \A leaf \in Range(index.leaves) : \A id \in deletion[s].ids :
                leaf.path = leafDirectory[id] /\ filesIn(tree, leaf.path) # {}
                    => readable(tree, leaf)
           /\ deletion' = [deletion EXCEPT ![s].st = "lock", ![s].messages =
                UNION {messageByID(tree, index, deletion[s].state.LastID, id) :
                           id \in deletion[s].ids}]
    /\ UNCHANGED <<disk, up, memory, staged, txn, day, outside, clients, published>>

\* ErrNoSuchMessage for an ID beyond LastID, a listing that does not match its
\* count, or an error of the reader.
ResolveFails(s) ==
    /\ up
    /\ deletion[s].st = "resolve"
    /\ deletion' = [deletion EXCEPT ![s] = NoDeletion]
    /\ UNCHANGED <<disk, up, memory, staged, txn, day, outside, clients, published>>

\* Mutant: the retry resolves against the old snapshot again.
RetryOldSnapshot(s) ==
    /\ up /\ muFree
    /\ deletion[s].st = "lock"
    /\ headID # deletion[s].commit
    /\ deletion' = [deletion EXCEPT ![s].st = "resolve"]
    /\ UNCHANGED <<disk, up, memory, staged, txn, day, outside, clients, published>>

\* With mu again: another writer has moved HEAD since the snapshot.
Retry(s) ==
    /\ up /\ muFree
    /\ deletion[s].st = "lock"
    /\ headID # deletion[s].commit
    /\ deletion' = [deletion EXCEPT ![s].st = "snapshot"]
    /\ UNCHANGED <<disk, up, memory, staged, txn, day, outside, clients, published>>

\* deleteLocked, up to commitChanges.
DeleteStart(s) ==
    /\ up /\ muFree
    /\ deletion[s].st = "lock"
    /\ headID = deletion[s].commit
    /\ ~failure
    /\ deletion[s].messages # {}
    /\ canDelete(state, deletion[s].messages)
    /\ deletion' = [deletion EXCEPT ![s].st = "committing"]
    /\ txn' = [NoTransaction EXCEPT
                 !.phase = "commit", !.who = s, !.parent = headID,
                 !.state = deleteState(state, deletion[s].messages),
                 !.removals = pathsOf(deletion[s].messages)]
    /\ UNCHANGED <<disk, up, memory, staged, day, outside, clients, published>>

\* deleteLocked with nothing left to remove: success without a commit.
DeleteNothing(s) ==
    /\ up /\ muFree
    /\ deletion[s].st = "lock"
    /\ headID = deletion[s].commit
    /\ ~failure
    /\ deletion[s].messages = {}
    /\ confirmed' = confirmed \cup deletion[s].ids
    /\ deletion' = [deletion EXCEPT ![s] = NoDeletion]
    /\ UNCHANGED <<disk, up, memory, staged, txn, day, outside, acked, requested, published>>

\* deleteLocked answers an error before it commits anything.
DeleteRefused(s) ==
    /\ up /\ muFree
    /\ deletion[s].st = "lock"
    /\ headID = deletion[s].commit
    /\ ~(~failure /\ canDelete(state, deletion[s].messages))
    /\ deletion' = [deletion EXCEPT ![s] = NoDeletion]
    /\ UNCHANGED <<disk, up, memory, staged, txn, day, outside, clients, published>>

-----------------------------------------------------------------------------
(* Stops, starts and the outside world *)

\* What a fast-import that loses picomx takes for the transaction at the end of
\* its input.  If it is still reading: nothing if the stream ends inside a
\* command, all of it, or, if the stream ends between two commands, the changes
\* it has read.  The state file comes before the removals, and before or after
\* the message.  After a checkpoint that was skipped it still has all of it, and
\* tries again.
leftovers ==
    {NoTransaction}
    \cup {t \in {txn} : t.phase \in {"import", "skipped"}}
    \cup (IF txn.phase # "import" \/ ~CutBetweenCommands THEN {}
          ELSE {[txn EXCEPT !.changes = {}, !.removals = read] :
                    read \in SUBSET txn.removals}
               \cup {[txn EXCEPT !.state = commits[txn.parent].state, !.changes = read,
                                 !.removals = {}] : read \in SUBSET txn.changes})

\* The process ends: a crash, a kill, or the end of main after Store.Close.
\* The machine may lose what was not synced.  Of two fast-imports that are left
\* behind only one can still move HEAD, so one is kept.
Crash ==
    /\ up
    /\ up' = FALSE
    /\ orphan' \in {orphan} \cup leftovers
    /\ receiptFile' \in {receiptFile, receiptSynced}
    /\ state' = emptyMailboxState
    /\ headID' = 0
    /\ failure' = FALSE
    /\ importer' = "none"
    /\ receipt' = NoReceipt
    /\ reservedBytes' = 0
    /\ staged' = [c \in Conns |-> NoMessageStaged]
    /\ deletion' = [s \in Sessions |-> NoDeletion]
    /\ txn' = NoTransaction
    /\ UNCHANGED <<commits, receiptSynced, day, outside, clients, published>>

\* The fast-import that was left behind reaches the end of its input and moves
\* HEAD if it still can.
OrphanEOF ==
    /\ orphan.parent # 0
    /\ orphan' = NoTransaction
    /\ \/ /\ fastForward(commitOf(orphan))
          /\ published' = [published EXCEPT ![orphan.Day] = @ + orphan.bytes]
       \/ UNCHANGED <<commits, published>>
    /\ UNCHANGED <<receiptFile, receiptSynced, up, memory, calls, day, outside, clients>>

\* Mutant: a start waits for the fast-import that the last one left behind.
StartAlone ==
    /\ ~up
    /\ orphan = NoTransaction
    /\ validState(commits[head].state)
    /\ up' = TRUE
    /\ state' = commits[head].state
    /\ headID' = head
    /\ receipt' = receiptFile
    /\ UNCHANGED <<disk, failure, importer, reservedBytes, calls, day, outside, clients,
                   published>>

\* initializeGit with an existing HEAD, and loadReceipt.
Start ==
    /\ ~up
    /\ validState(commits[head].state)
    /\ up' = TRUE
    /\ state' = commits[head].state
    /\ headID' = head
    /\ receipt' = receiptFile
    /\ UNCHANGED <<disk, failure, importer, reservedBytes, calls, day, outside, clients,
                   published>>

\* Another program commits to the repository without touching the mail.
OutsideCommit ==
    /\ outside < MaxOutside
    /\ outside' = outside + 1
    /\ fastForward([commits[head] EXCEPT !.parent = head])
    /\ UNCHANGED <<receiptFile, receiptSynced, orphan, up, memory, calls, day, clients,
                   published>>

\* Midnight passes, or the clock is set forward or back by a day.
Tick ==
    /\ \/ day < MaxDay /\ day' = day + 1
       \/ /\ day > 0 /\ day' = day - 1
          /\ RollbackInPublish \/ txn.phase # "charge"
    /\ UNCHANGED <<disk, up, memory, calls, outside, clients, published>>

-----------------------------------------------------------------------------
\* The commit initializeGit made of the messages it found at the first start.
initialOctets == MapThenSumSet(LAMBDA id : Imported[id], DOMAIN Imported)
initialDirectories ==
    FoldSet(LAMBDA id, counts : add(counts, leafDirectory[id]), <<>>, DOMAIN Imported)
initialState ==
    [LastID |-> Len(Imported), TotalOctets |-> initialOctets,
     Directories |-> initialDirectories]
initialTree == {messagePath(id, Imported[id]) : id \in DOMAIN Imported}

Init ==
    /\ commits = <<[parent |-> 0, state |-> initialState, tree |-> initialTree]>>
    /\ receiptFile = NoReceipt
    /\ receiptSynced = NoReceipt
    /\ orphan = NoTransaction
    /\ up = TRUE
    /\ state = initialState
    /\ headID = 1
    /\ failure = FALSE
    /\ importer = "running"
    /\ receipt = NoReceipt
    /\ reservedBytes = 0
    /\ staged = [c \in Conns |-> NoMessageStaged]
    /\ deletion = [s \in Sessions |-> NoDeletion]
    /\ txn = NoTransaction
    /\ day = 0
    /\ outside = 0
    /\ acked = initialTree
    /\ requested = {}
    /\ confirmed = {}
    /\ published = [d \in Days |-> 0]

ConnNext(c) ==
    \/ Stage(c)
    \/ \E n \in 1 .. MaxMessage : QuotaRead(c, n)
    \/ StageDone(c)
    \/ Discard(c)
    \/ PublishStart(c)
    \/ WriteReceipt(c)
    \/ SyncReceipt(c)
    \/ ReceiptFails(c)

SessionNext(s) ==
    \/ \E ids \in Requests : DeleteAs(s, ids)
    \/ Snapshot(s)
    \/ Resolve(s)
    \/ ResolveFails(s)
    \/ Retry(s)
    \/ DeleteStart(s)
    \/ DeleteNothing(s)
    \/ DeleteRefused(s)

CommitNext ==
    \/ StartImport
    \/ RefuseCommit
    \/ Checkpoint
    \/ CheckpointSkipped
    \/ CommitDone
    \/ ImportFails

EnvironmentNext ==
    \/ IdleClose
    \/ Close
    \/ Maintain
    \/ Crash
    \/ OrphanEOF
    \/ Start
    \/ OutsideCommit
    \/ Tick

Next ==
    \/ \E c \in Conns : ConnNext(c)
    \/ \E s \in Sessions : SessionNext(s)
    \/ CommitNext
    \/ EnvironmentNext

Spec == Init /\ [][Next]_vars

(***************************************************************************)
(* Fairness: a call that has started goes on.  The steps inside a          *)
(* transaction end because every Git operation has a watchdog; a mutex is  *)
(* handed to a waiter in the end (sync.Mutex turns to handing over after a *)
(* millisecond), so waiting for mu is strongly fair.  No fairness is       *)
(* assumed of clients, of the clock or of failures; picomx is started      *)
(* again after it stopped (Restart= in its systemd unit).                  *)
(***************************************************************************)
Fairness ==
    /\ \A c \in Conns : WF_vars(ReceiptFails(c) \/ WriteReceipt(c) \/ SyncReceipt(c))
    /\ WF_vars(CommitNext)
    /\ \A s \in Sessions :
          /\ SF_vars(Snapshot(s))
          /\ WF_vars(ResolveFails(s) \/ Resolve(s))
          /\ SF_vars(Retry(s) \/ DeleteStart(s) \/ DeleteNothing(s) \/ DeleteRefused(s))
    /\ WF_vars(Start)

FairSpec == Spec /\ Fairness

-----------------------------------------------------------------------------
(* Properties *)

Receipts == [Day : Days \cup {-1}, ChargedBytes : Nat]
Phases == {"none", "charge", "sync", "commit", "import", "landed", "skipped"}

StagedMessages ==
    [st : {"idle", "staging", "staged", "publishing"}, reserved : Nat, size : Nat]

validTransaction(t) ==
    /\ DOMAIN t = DOMAIN NoTransaction
    /\ t.phase \in Phases
    /\ t.parent \in 0 .. head
    /\ t.state.LastID \in 0 .. MaxID
    /\ t.Day \in Days
    /\ t.bytes \in Nat

\* The variables are typed, mu is only held while picomx runs, headID names a
\* commit, and the uint64 reservedBytes never goes below zero.
TypeOK ==
    /\ commits \in Seq(ToSet(commits)) /\ head > 0
    /\ \A i \in 1 .. head : commits[i].state.LastID \in 0 .. MaxID
    /\ receiptFile \in Receipts /\ receiptSynced \in Receipts /\ receipt \in Receipts
    /\ validTransaction(orphan) /\ validTransaction(txn)
    /\ txn.phase # "none" => up /\ txn.parent # 0
    /\ up \in BOOLEAN /\ failure \in BOOLEAN
    /\ headID \in 0 .. head /\ (up => headID # 0)
    /\ state.LastID \in 0 .. MaxID
    /\ importer \in {"none", "running", "refused"}
    /\ reservedBytes \in Nat
    /\ staged \in [Conns -> StagedMessages]
    /\ day \in Days
    /\ outside \in 0 .. MaxOutside
    /\ published \in [Days -> Nat]

\* An ID is the one a message file is named after.
idOf(name) == messageFromPath(name).ID

\* A message that was answered with 250 is in HEAD until a session asks to
\* delete it, whatever fails, crashes or is retried (Publish verifies HEAD
\* before it answers).
AckedIsDurable ==
    \A name \in acked : name \in treeAt(head) \/ idOf(name) \in UNION requested

\* A message whose deletion was answered with +OK is not in HEAD any more and
\* does not come back, after a restart either.
DeletedStaysDeleted ==
    \A name \in treeAt(head) : idOf(name) \notin confirmed

\* Every commit is whole: its state file decodes and has the count, the octets
\* and an upper bound of the IDs of its tree.  This is what makes "start from
\* HEAD" a recovery.
CommitsAreWhole ==
    \A i \in DOMAIN commits :
        LET messages == {messageFromPath(name) : name \in commits[i].tree}
        IN  /\ validState(commits[i].state)
            /\ messageCount(commits[i].state) = Cardinality(messages)
            /\ commits[i].state.TotalOctets = octetsOf(messages)
            /\ \A m \in messages : m.ID \in 1 .. commits[i].state.LastID

\* An ID (the POP3 unique-id) that was given out names that message only: a
\* later commit has, up to an earlier commit's LastID, only files of it.
IDsAreNotReused ==
    \A j \in DOMAIN commits : \A i \in 1 .. j - 1 :
        \A name \in commits[j].tree :
            idOf(name) <= commits[i].state.LastID => name \in commits[i].tree

\* Every commit has the one before it as its parent: none of them was built on
\* a HEAD that had moved, by another program or by an importer left behind.
HistoryIsLinear == \A i \in DOMAIN commits : commits[i].parent = i - 1

\* Snapshot "shares the immutable directory-count index and a committed Git
\* tree": whenever mu is free, Store.state is the state file of headID.
StateIsHeadID == (up /\ muFree) => state = commits[headID].state

\* No snapshot mixes two commits.  Its counts are those of headID or, in a
\* poisoned store only, of the commit before it; and then a directory of headID
\* that passes the count check of its readers is the one that was counted.
SnapshotNeverMixes ==
    (up /\ muFree) =>
        \E i \in {headID - 1, headID} \cap DOMAIN commits :
            /\ state = commits[i].state
            /\ i = headID \/ failure
            /\ \A leaf \in Range(buildDirectoryIndex(commits[i].state.Directories).leaves) :
                  readable(treeAt(headID), leaf) =>
                      filesIn(treeAt(headID), leaf.path) = filesIn(treeAt(i), leaf.path)

\* The reservation of all connections together is reservedBytes: none is lost
\* on an error path and none is given back twice.
ReservedIsSum ==
    reservedBytes = SumFunction([c \in Conns |-> staged[c].reserved])

\* The octets published on a day, small messages counted with the minimum
\* charge, stay within the budget, across restarts and clock changes.
BudgetRespected == \A d \in Days : published[d] <= MaxDailyBytes

\* The durable receipt covers what was published on its day, and later days
\* have published nothing: no crash loses a charge for mail that is visible.
PublishedIsCharged ==
    /\ \A d \in Days : d > receiptSynced.Day => published[d] = 0
    /\ receiptSynced.Day >= 0 => published[receiptSynced.Day] <= receiptSynced.ChargedBytes

\* Receipt q records what r records, and perhaps more.
notBefore(q, r) ==
    \/ q.Day > r.Day
    \/ q.Day = r.Day /\ q.ChargedBytes >= r.ChargedBytes

\* The most that may have been published on a day, by the durable receipt.
cap(d) ==
    IF d < receiptSynced.Day THEN MaxDailyBytes
    ELSE IF d = receiptSynced.Day THEN receiptSynced.ChargedBytes
    ELSE 0

chargeOn(t, d) == IF t.Day = d THEN t.bytes ELSE 0

\* What a transaction has been charged for and may still publish.
pending(d) ==
    chargeOn(orphan, d)
    + (IF txn.phase \in {"commit", "import", "skipped"} THEN chargeOn(txn, d) ELSE 0)

\* Every octet that is or may yet be published is under a durable charge.
Covered == \A d \in Days : published[d] + pending(d) <= cap(d)

\* No receipt that picomx may read exceeds the budget or falls behind the
\* durable one.
ReceiptsInOrder ==
    /\ \A r \in {receiptSynced, receiptFile, receipt} : r.ChargedBytes <= MaxDailyBytes
    /\ notBefore(receiptFile, receiptSynced)
    /\ up => notBefore(receipt, receiptSynced)

\* A message that passed Publish's check still fits when it is charged, and
\* the charge that was written comes on top of the durable one.
StillFits ==
    \A c \in Conns : txn.who = c =>
        /\ txn.phase = "charge" =>
              receiptUsage.ChargedBytes + staged[c].reserved <= MaxDailyBytes
        /\ txn.phase = "sync" =>
              /\ staged[c].reserved <= receiptFile.ChargedBytes
              /\ notBefore([receiptFile EXCEPT !.ChargedBytes = @ - staged[c].reserved],
                           receiptSynced)

\* Why the budget holds: what Publish has charged, what an importer may still
\* publish and what HEAD has never add up to more than the durable receipt.
ChargeInv == Covered /\ ReceiptsInOrder /\ StillFits

\* A charge is never given back: while its day is recorded, the durable charge
\* only grows, and the recorded day does not go back with the clock.
ReceiptOnlyGrows ==
    [][\/ receiptSynced'.Day > receiptSynced.Day
       \/ /\ receiptSynced'.Day = receiptSynced.Day
          /\ receiptSynced'.ChargedBytes >= receiptSynced.ChargedBytes]_vars

\* Store does what Maildrop promises: HEAD is the mailbox, each commit is one
\* delivery or one whole deletion, and success is reported of what is in HEAD.
messagesIn(files) ==
    {m \in [ID : 1 .. MaxID, Size : 0 .. MaxMessage] : messagePath(m.ID, m.Size) \in files}

maildrop == INSTANCE Maildrop WITH
    mail <- messagesIn(treeAt(head)),
    lastID <- commits[head].state.LastID,
    acked <- messagesIn(acked),
    Sizes <- 0 .. MaxMessage

ImplementsMaildrop == maildrop!Spec

\* DeleteAs returns, though it must retry when other writers are faster, and
\* Publish returns and lets mu go, whatever fails in between.
CallsReturn ==
    /\ \A s \in Sessions : deletion[s].st # "idle" ~> deletion[s].st = "idle"
    /\ \A c \in Conns : staged[c].st = "publishing" ~> staged[c].st # "publishing"

\* Whatever stopped picomx, it starts again from HEAD and the receipt file.
StartSucceeds == ~up ~> up
=============================================================================
