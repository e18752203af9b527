# A TLA+ verification of picomx

picomx is a small mail exchanger written in Go: it receives mail by SMTP, keeps it in
a bare Git repository, and serves it by POP3. This directory holds TLA+ models of
its core, the configurations that check them with TLC, and theorems about them that
TLAPS proves. Every definition is translated from the code under `src/`; the
comments of the modules name the functions, and `PROJECT.json` maps each definition to
its lines.

## 1. The system

| Part | Code | State it keeps | Operations |
|---|---|---|---|
| Message IDs and paths | `internal/archive/idpath.go`, `tree.go` | none | path of an ID, the parser of message paths, order of paths |
| Directory counts and index | `directories.go` | counts per directory, cumulative index | add, remove, validate, select by number, find by ID |
| Mailbox and state file | `state.go`, `mailbox.go`, `read.go` | `LastID`, `TotalOctets`, `Directories` | Snapshot, Lookup, ListAt, messageByID, DeleteAs |
| Store | `store.go`, `import.go`, `git.go` | HEAD, `headID`, `state`, `failure`, the fast-import child | Stage, Publish, Discard, commit, idle close, Close, start |
| Daily budget | `quota.go` | `reservedBytes`, the receipt file | reserve while reading, charge, give back, reload |
| POP3 server | `internal/pop3/server.go` | per session: snapshot, marks, counters | USER, PASS, DELE, RSET, QUIT and the commands that answer |
| SMTP server | `internal/smtp/server.go` | per connection: greeting, transaction, TLS | EHLO, STARTTLS, MAIL, RCPT, DATA, RSET, QUIT |
| Git reader | `read.go` | the cat-file child, its lease | object, tree and message reading |
| Directory cache | `cache.go` | 64 listings, recency | get, put |
| Maintenance | `maintenance.go` | last maintained HEAD, requests | Maintain, RunMaintenance |
| Watchdog | `deadline.go` | one timer per operation | kill the process group |
| Legacy import, tail recovery | `git.go`, `recovery.go` | the old file archive | first start |
| Certificates | `internal/tlscert` | current certificate and its hash | load, reload |
| Receiving policy | `internal/config/policy.go` | none | decide on a message |
| systemd sockets, `cmd/` | `internal/systemd`, `cmd/` | none | start |

How they interact:

- SMTP connections call `CheckReceive`, `Stage` (which pulls the octets of DATA through
  the budget's reader while the client sends them), then the policy, then `Publish`.
- POP3 sessions take a `Snapshot` at PASS, read from that commit until the end, and call
  `DeleteAs` at QUIT.
- `Publish` and `DeleteAs` both go through `commitChanges`: under `Store.mu` they hand one
  commit to the fast-import child under `gitMu`, wait for its progress line and compare HEAD.
- Readers hold `readMu` for as long as a message is being sent. `DeleteAs` therefore
  resolves paths *without* `mu`, and takes a new snapshot if HEAD moved in the meantime.
- Idle timers close the two children; maintenance closes both and runs `git gc`.
- The only durable state is the Git repository and the receipt file: two separate
  writes for every message.

What is hard here: the two durable writes of a receipt; a child process that outlives
its parent and publishes at the end of its input; answers that are lost after the
effect; resolution without the lock; budgets shared by connections that are still
streaming; clocks; numbering that rests on counts only; and error paths, of which each
has to give back what it holds. The list, with lines and the properties that cover
each, is under `hazards` in `PROJECT.json`.

What makes each part correct:

- *Paths*: a name is parsed to an ID exactly if it is that ID's path.
- *Counts and index*: they describe the tree, after any sequence of changes, and find
  the messages in ID order.
- *Store*: what was answered with 250 is there until someone deletes it; what was
  confirmed as deleted does not come back; every commit is whole, extends the one before
  it, and gives no ID out again; calls return and a stopped program starts again.
- *Budget*: no day publishes more than its budget; visible mail has a durable charge.
- *POP3*: numbers are those of the login; exactly what was marked and confirmed goes.
- *SMTP*: the envelope is that of one transaction on one channel; nothing is leaked.
- *Messages*: what is sent is what is stored is what is retrieved.
- *Git reader and cache*: a request gets the answer to itself, at its own commit; none
  blocks for good; a dead child is replaced.
- *Locks, timers, maintenance, shutdown*: nobody waits for a slow client who need not;
  idle children end and others do not; maintenance happens; a signal ends the program.
- *First start*: the old archive is imported once and whole, or not at all.
- *Certificates*: in the end the newest pair that matches is served.

## 2. The modules

```
IDPath ── Directories ── Mailbox ──┬── MailboxIndex
              │                    ├── Store ── MCStore        Maildrop (abstract)
              └── PathWalk         └── Pop3 ── MCPop3          Smtp ── MCSmtp

Children (who uses the two Git children)     CatFile (one reader's pipe)   DirCache
FirstStart (before Store's first commit)     DataStream (octets of DATA, RETR, TOP)   TlsCert
  Children ── MCChildren   CatFile ── MCCatFile
  Parts: MailboxIndex, PathWalk and an instance of each of these ── MCParts

Proofs:  Mailbox ── MailboxProofs ──┬── TreeProofs ──┬── PartsProofs, StreamProofs (with Parts)
                                    │                ├── Pop3Proofs (with Pop3)
                                    └── StoreProofs ─┴── CommitProofs
         (StoreProofs with Store)                                          Smtp ── SmtpProofs
```

**IDPath, Directories, Mailbox** have no state of their own. They are `idpath.go`,
`directories.go` and the pure parts of `state.go`, `mailbox.go`, `read.go` as functions.
A path is a sequence of numbers (the depth, then the digits); the radix (1024 in
the code) and the largest ID (`math.MaxUint64`) are constants, so that all depths and the end
of the ID space lie within reach. String order of the padded hexadecimal components is
numeric order of digits. A tree is the set of its file names; a name carries ID and
size, as in the code.

**MailboxIndex** drives these operators by any sequence of receipts and deletions, with no
failures. **PathWalk** enumerates every path instead, valid or not.

**Store** is the centre. On disk it has the history of HEAD (`commits`), the receipt file as
processes see it and as a loss of power leaves it, and the transaction a fast-import that
outlived picomx still holds (`orphan`). In memory it has the fields of `Store`, a `StagedMessage`
per connection, the progress of `DeleteAs` per session, and the transaction that
holds `mu`. The commit is taken in steps, because everything that does not need `mu` can
come between them:

| Actions | Code |
|---|---|
| `Stage`, `QuotaRead`, `StageDone`, `Discard` | `Stage`, `quotaReader.Read`, `Discard` |
| `PublishStart`, `WriteReceipt`, `SyncReceipt`, `ReceiptFails` | `Publish` up to the durable receipt |
| `StartImport`, `RefuseCommit`, `Checkpoint`, `CheckpointSkipped`, `CommitDone`, `ImportFails` | `commitChanges`, `importCommitLocked` |
| `DeleteAs`, `Snapshot`, `Resolve`, `ResolveFails`, `Retry`, `DeleteStart`, `DeleteNothing`, `DeleteRefused` | `DeleteAs`, `deleteLocked` |
| `IdleClose`, `Close`, `Maintain` | the idle callback, `Close`, `Maintain` |
| `Crash`, `OrphanEOF`, `Start` | end of the process, of its child, and `Open` |
| `OutsideCommit`, `Tick` | another Git client, the clock |

`acked`, `requested`, `confirmed` and `published` are history: what clients were told and what HEAD
received. A call that answers an error and changes nothing is a stuttering step.

**Maildrop** is the abstract specification: a mailbox that delivers, removes and reports
success, without Git, locks or crashes. `Store` implements it (`ImplementsMaildrop`), with the
tree of HEAD as the mailbox.

**Pop3** has the local variables of every `serveConn`, the snapshot a session works on, and the
channel of connection tokens. The store it works on is healthy: what a poisoned one shows its readers is in `Store`. `DeleteAs` is one step here, and may report an error
before or after it took effect, which is what `Store` shows of it.

**Smtp** has the local variables of every `serveConn` and the queue of commands a client has
sent ahead. Addresses are stood for by the place of the command that brought them, so
that "whose recipient is this" can be asked. The archive is external to this module: a
number of messages that can be staged at once stands for the budget.

**CatFile** is the pipe of the cat-file child, token by token: headers, octets and terminators. A
session queries, leases the pipe for a message, reads, and closes, early or not; the
child may stall or die between two tokens, and the watchdog's timer may fire until the very end
of an operation, also when that has all it needs.

**Children** is the level above it and above `Store`: the locks `mu`, `gitMu` and `readMu`, the two
children as running or not, their idle timers, `Maintain` with its three `TryLock`s,
`RunMaintenance` with its timer and its channel, and the deferred calls at the end of `main`. Of what
is committed only "HEAD has moved since I resolved" is left. A callback of a timer carries its
generation; since generations are only compared for equality with the latest, the model
keeps whether it is still the latest, and besides, for the property, whether the child was used
since.

**DirCache** is `Store.directory` with the LRU in front of it, split at the two reads. A tree's object ID
names its content, and a listing depends on the path as well, so the third commit of the instance has
the same tree in two directories.

**FirstStart** is `initializeGit` on an archive of files, some of which may be missing, step by step, with what a loss of power takes back and
a fast-import that outlives picomx. `Store` begins where it ends.

**DataStream** follows a message octet by octet: `dataReader` and its limits, with clients that stuff dots and
end lines in CRLF or LF and connections that are cut anywhere; and `streamMessage` for RETR and TOP,
also for messages of the old archive that do not end in LF. The expected result is stated
on lines, not with the code's loop.

**TlsCert** is the manager and the two files in each candidate directory, written one at a time by
whoever renews the certificate.

Each operator whose comment begins with *Mutant* is a defect of the kind the
definition below it could have had. Nothing uses it; it serves to show that the
properties would notice (`mutants` in `PROJECT.json`).

## 3. What TLC checks

| Run | Shows | Properties |
|---|---|---|
| `parts` | the parts that share no state, see below | `StateDescribesTree`, `ReadersFindLive`, `PathNamesOneID`, `LeavesHoldIDs`, `AnswersAreMine`, `OperationsEnd`, `ListingIsOfCommit`, `RecentIsCached`, `ImportIsLegacy`, `MailIsUnchanged`, `NewestServed`, `IdleTimersWork`, `NoChildAfterClose` |
| `store_budget` | the budget, with two connections at its limit, crashes and clock changes | `TypeOK`, `ReservedIsSum`, `BudgetRespected`, `PublishedIsCharged`, `ChargeInv`, `ReceiptOnlyGrows` |
| `store_delete` | one receiver and two deleting sessions keep Maildrop's promises, and no snapshot lists messages of two commits | `AckedIsDurable`, `DeletedStaysDeleted`, `SnapshotNeverMixes`, `ImplementsMaildrop` |
| `store_outside` | the history stays sound with another Git client and importers left behind; calls return, and picomx starts again | `CommitsAreWhole`, `IDsAreNotReused`, `HistoryIsLinear`, `CallsReturn`, `StartSucceeds` |
| `store_clock_rollback` | *violation*, see section 6 | `BudgetRespected` |
| `store_cut_stream` | *violation*, see section 6 | `CommitsAreWhole` |
| `store_poisoned` | *violation*, see section 6 | `StateIsHeadID` |
| `pop3_sessions` | three clients, two tokens, mail arriving | `TokenPerConnection`, `SessionSeesLogin`, `DeletedAsAsked`, `UpdateIsPossible` |
| `smtp` | one pipelining connection, two transactions, STARTTLS between; or two connections, room for one message, failures everywhere | `EnvelopeIsTransaction`, `EnvelopeIsOfChannel`, `NothingIsLeaked`, `DataEnds` |
| `children` | publishing behind a client that never takes its mail; maintenance and shutdown against receiving, reading and deleting | `WritersGetOn`, `MaintenanceHappens`, `ShutdownEnds` |
| `cat_file_timeout` | *violation*, see section 6 | `KilledIsReclaimed` |
| `first_start_interrupted` | *violation*, see section 6 | `RestartImports` |

`parts` (module **Parts**, with values from **MCParts**) is one run over seven modules and a second instance of `Children`. They share no
state, so their interleavings tell nothing: the variable `part` chooses one of them, every behaviour is
one of that module's own, and the others stay as they started. A property of one part holds in
the run exactly if it holds of that part alone. In it:

| Part | Shows |
|---|---|
| `MailboxIndex` | counts, numbering, listing and lookup by ID agree with the tree after any sequence of receipts and deletions, and no deletion of live mail is refused |
| `PathWalk` | the parsers accept exactly the paths of IDs, and the directories that hold them |
| `CatFile` | two sessions, one pipe, a child that stalls or dies, early closes, timeouts |
| `DirCache` | two sessions at three commits share a cache that is too small |
| `FirstStart` | every small file archive, also with a file missing, crashes between any two steps, a lost HEAD |
| `DataStream` | dots, empty, unended and overlong lines, cut connections, TOP's limits |
| `TlsCert` | files replaced between the two reads, a parent domain, validity to come |
| `Children` | the idle timers of both children against every use of them |

### Bounds

- *Radix 2 and MaxID 8* (`MailboxIndex`, `PathWalk`): IDs of one to four digits, hence leaves of four depths, with
  every message deletable alone or with its successor; the ID space ends inside a directory, as 2^64 - 1 does in the
  code; one component too large and one level too deep are tried. `MaxOctets` is 2 and sizes are 0 and 2, so
  the octet counter reaches its limit and refuses.
- *Budget 4, minimum charge 2, messages up to 3 octets, days 0 and 1* (`store_budget`): two small
  messages fit, a small and a large one do not; midnight can come at every step, and the
  clock can be set back outside Publish.
- *`store_delete`*: one imported message and one to come; the requests are the first alone and both,
  so two sessions overlap and a request can name an ID that does not exist yet. The messages have no octets
  (`EmptyMail`, `MaxMessage` 0), since sizes are the business of `store_budget`.
- *`store_poisoned`*: one imported message, one receiver and one session are enough for the counterexample.
- *`store_outside`*: one foreign commit is enough to invalidate any check; two imported messages and one to come,
  in two directories.
- *`smtp`* has two instances of the module with bounds of their own, and every behaviour is one of either (`instance`, in **MCSmtp**): one
  connection with `MaxPipelined` 2 and `MaxCommands` 9, for EHLO, MAIL, two RCPT, DATA and a second transaction; and two connections with
  four commands each, which is one delivery. Both together in one behaviour would be far too many.
- *CatFile*: a message of two octets, an empty tree and a name that is not there: an object can be
  closed before, between and after its octets, and each answer can be asked for as the wrong kind.
- *`children`* leaves out LIST and the importer's idle timer (`Purposes`, `MaxCallbacks`)
  and has two sessions, one that leases the reader and one that deletes and queues
  behind it. The instance in `parts` has all commands with one session and one
  callback of each timer waiting for its lock; a second one would be outdated as well. The maintenance threshold is one commit.
- *DirCache*: capacity 2 and five different keys.
- *FirstStart*: up to three messages, of which the state file may not know two (one is recovered, two are
  refused), whose sizes have changed since (`Cuts`), or of which one has no file (`MaxMissing`: the last one counted,
  one before it, one behind it, or the only one); three crashes interrupt an import and two restarts.
- *DataStream*: lines of at most 4 octets with their end, so that a doubled dot or the CR that is added reaches the
  limit, three lines, and 9 octets in all, so that the whole can be too large.
- *TlsCert*: four writes are a pair in each directory, or one pair and its replacement, key and chain in either order.
- The counters that are only bounded for TLC (`MaxDay`, `MaxOutside`, `MaxMessage`, `MaxPipelined`, `MaxCommands`,
  `MaxCallbacks`, `MaxCrashes`, `MaxMissing`, `MaxLines`, `MaxTime`, `MaxWrites`)
  are named in the modules, and bound guards, not the state space.

Connections, sessions and POP3 clients are interchangeable; symmetry is used in the runs
without liveness. Deadlock is checked in `Store`, `Pop3` and `Children`. `MailboxIndex` and `PathWalk` stop when the ID
space or the paths are used up, `DataStream` follows one message, and connections of `Smtp` are used once, so deadlock
checking is off in `parts` and in `smtp`.

### Fairness

- *Steps inside a transaction* are weakly fair: each Git operation has a watchdog of 30 seconds
  that kills the process group (`deadline.go`), so it ends, perhaps with an error.
- *Waiting for `mu`* is strongly fair: `sync.Mutex` hands over to a waiter after a millisecond.
- *Start* is weakly fair: the unit has `Restart=on-failure` (`deploy/systemd/picomx.service`).
- *Smtp*: the steps of a delivery are weakly fair, since the deadline is set before the command
  (`smtp/server.go:174`) and not moved while DATA is read.
- *CatFile*: goroutines run and the watchdog's timer fires; nothing is assumed of the child.
- *Children*: waiting for a lock is strongly fair as above; operations on a child, `gc` and closing are weakly
  fair because of the watchdog. Nothing ends a lease; `ShutdownEnds` alone supposes that no client keeps one for good,
  as POP3's write deadline, set once for a whole message (`pop3/server.go:491`), makes sure.
- *FirstStart*: a start runs to its end and is repeated; *TlsCert*: the reload loop runs on.
- Nothing is assumed of clients, of failures or of the clock.

The number of messages is bounded in every instance, so `CallsReturn` shows that a retry
leads on once other writers pause; that `DeleteAs` returns although others *always*
commit first is not claimed, nor does the code ensure it.

### Assumptions about the outside

- Git makes committed objects and refs durable (`core.fsync=committed` is set by the code), and
  fast-import updates HEAD only by fast-forward.
- The receipt file is lost at a loss of power between its rename and the sync of its directory,
  or kept; both are tried.
- `CutBetweenCommands` and `RollbackInPublish` are false except in the two runs that are about them.

## 4. What TLAPS proves

Everything in this section holds for every radix, ID space, number of connections, sessions and commits,
every budget and every message size, not only for the instances of section 3.

| Theorem | Statement |
|---|---|
| `StoreProofs!TypeCorrect` | `Spec => []TypeOK` |
| `StoreProofs!ReservedHolds` | `Spec => []ReservedIsSum` |
| `StoreProofs!ChargeHolds` | `~RollbackInPublish /\ Spec => []ChargeInv` |
| `StoreProofs!BudgetHolds` | `... => []BudgetRespected` |
| `StoreProofs!ChargedHolds` | `... => []PublishedIsCharged` |
| `StoreProofs!ReceiptGrows` | `... => ReceiptOnlyGrows` |
| `StoreProofs!LinearHolds` | `Spec => []HistoryIsLinear` |
| `StoreProofs!AckedHolds` | `Spec => []AckedIsDurable` |
| `CommitProofs!SnapshotHolds` | `~CutBetweenCommands /\ Spec => []SnapshotNeverMixes` |
| `CommitProofs!WholeHolds` | `~CutBetweenCommands /\ Spec => []CommitsAreWhole` |
| `CommitProofs!NotReusedHolds` | `... => []IDsAreNotReused` |
| `CommitProofs!DeletedHolds` | `... => []DeletedStaysDeleted` |
| `CommitProofs!Implements` | `... => ImplementsMaildrop` |
| `CommitProofs!PromisesHold` | `maildrop!Spec => [](AcceptedStays /\ DeletedStays)`, both of `maildrop` |
| `CommitProofs!PromisesKept` | `~CutBetweenCommands /\ Spec => [](AcceptedStays /\ DeletedStays)`, both of `maildrop` |
| `PartsProofs!PathNamesHolds` | `WalkSpec => []PathNamesOneID` |
| `PartsProofs!LeavesHoldHolds` | `WalkSpec => []LeavesHoldIDs` |
| `PartsProofs!StateDescribesHolds` | `MailboxIndex`'s `Spec => []StateDescribesTree` |
| `PartsProofs!ReadersFindHolds` | `MailboxIndex`'s `Spec => []ReadersFindLive` |
| `PartsProofs!AnswersHold` | `CatFile`'s `Spec => []AnswersAreMine` |
| `PartsProofs!ListingHolds`, `RecentHolds` | `DirCache`'s `Spec => []ListingIsOfCommit`, `[]RecentIsCached` |
| `PartsProofs!ImportHolds` | `FirstStart`'s `Spec => []ImportIsLegacy` |
| `PartsProofs!NoChildHolds`, `IdleTimersHold` | `Children`'s `Spec => []NoChildAfterClose`, `[]IdleTimersWork` |
| `StreamProofs!MailHolds` | `DataStream`'s `Spec => []MailIsUnchanged` |
| `SmtpProofs!EnvelopeHolds` | `Spec => []EnvelopeIsTransaction` |
| `SmtpProofs!ChannelHolds` | `Spec => []EnvelopeIsOfChannel` |
| `SmtpProofs!LeakHolds` | `Spec => []NothingIsLeaked` |
| `Pop3Proofs!LoginHolds` | `Spec => []SessionSeesLogin` |
| `Pop3Proofs!AskedHolds` | `Spec => []DeletedAsAsked` |
| `Pop3Proofs!UpdateHolds` | `Spec => []UpdateIsPossible` |
| `Pop3Proofs!TokenHolds` | `Spec => []TokenPerConnection` |

**Induction over data.** The induction theorems of the library take an operator, which the provers cannot
instantiate. `MailboxProofs` therefore begins with forms of them that take a *set*: the library's theorem that the finite
subsets of a set are well-founded gives `MinimalSubset`, and from it come `FiniteInduction` (a family of finite
sets that has the empty one and is closed under adding an element has them all), `LeastNumber`, `NumberInduction`, and
`RecursionExists` (a recursion along a rank has a solution). With them follows what the model's
recursive functions and the folds of the community modules compute: `DigitsRecursion`, `SumFacts` (a fold over a finite set
is zero on the empty set and grows by one element's value, in any order), `ParseAppend`, `ParseInverse`.

**Trees and state files** (`TreeProofs`). `StateOf(state, tree)` says that a tree holds files of distinct IDs up to
`LastID`, each under its own path, and that the state has the octets of the tree and, for every directory, how many files are below it.
The lemmas say that this is enough and stays so:

- `StateReceipt` and `StateRemoval`: what `publishState` and `deleteState` make of a state describes the tree with one
  message more, or any set of messages less; so neither `add` nor `remove` ever fails on a whole commit;
- the counts of a tree are what `validateDirectoryCounts` accepts: every parent's is the sum of its children's;
- the leaves in string order of their paths are in numeric order of their IDs, and so the concatenated listings are in ID order;
- the cumulative counts of the index are the numbers of the first messages of each leaf, and therefore `LookupFinds`,
  `ListAtFinds` and `ResolveFinds`.

`sort.Slice` is modelled by what it returns; that there is such an order of every finite set is proved too.

**Paths, counts, readers** (`PartsProofs`, first part). `PathNamesOneID` and `LeavesHoldIDs` need only that the path is a sequence of
numbers (`PathInv`); `IndexInv` is `StateOf` of the two variables of `MailboxIndex`, and both its properties follow from it.

**Types and sums.** `reservedBytes` is a `uint64` from which the code subtracts on five paths. That it stays
in `Nat` is not inductive by itself: it needs that `reservedBytes` is the *sum* of the reservations
and that a connection that is idle or already charged has none. `IsSum(r, total)` says the former by a
function on all subsets of `Conns`; `TypeInv == TypeOK /\ IsSum /\ PhaseInv` is the inductive invariant. That `IsSum` is the
fold of `ReservedIsSum` is a later lemma, for which `Conns` must be finite (`FiniteAssumption`).

**Budget.** `BudgetRespected` speaks of what HEAD has, while the code only watches the receipt. The
invariant in between is `ChargeInv`:

- `Covered`: what HEAD has published on a day, plus what the running transaction *and* a surviving
  fast-import may still publish, is covered by the durable receipt;
- `ReceiptsInOrder`: the three copies of the receipt (memory, file, durable) are within the budget, and
  none is behind the durable one, so a restart from either file loses nothing;
- `StillFits`: what passed Publish's check still fits when it is charged.

`StillFits` is what fails if the clock is set back between the check and the charge; hence the
assumption `~RollbackInPublish`, and hence the violation in section 6. `ChargeInv` is also an invariant of
`store_budget`, and with `TypeInv` it is inductive. `BudgetHolds`, `ChargedHolds` and `ReceiptGrows` follow from it.

**History.** `HistoryInv` ties four things together: the commits are a chain; the state in memory is that of `headID`, unless the store is poisoned;
a transaction at work was planned on `headID`; and one that has landed is the very next commit. The last part is what
makes `CommitDone` right although another importer may have moved HEAD on since. `DurableInv` adds to `AckedIsDurable` that
whatever may still be published, by the transaction or by an orphan, removes only what someone has asked to delete.
Both hold even when the stream is cut between two commands.

**Commits.** `WholeInv` needs `~CutBetweenCommands`; `store_cut_stream` shows that the theorems are false without. Its parts:

- `CommitsInv`: every commit is whole (`StateOf`, and no message above the limit); a later one never has a lower `LastID`, and up to the
  earlier one's `LastID` it has only files of that one (`Follows`); what was confirmed as deleted is gone;
- `PlannedInv`: the commit that the transaction or the orphan may make delivers one message under the next ID or removes
  what one request names (`Delivers`, `Removes`), on the commit it was planned on;
- `ResolvedInv`: what `DeleteAs` has resolved without the lock is what its commit has of the request;
- `RemovalInv`: a removal that landed is that of the session which waits for it.

- `LapseInv`: the state in memory is that of `headID`; or the store is poisoned and it is that of the commit before, from which
  `headID` differs by one message delivered or by messages removed. So a directory of either commit has a subset of the files that it has in
  the other (`SameListing`), and equal counts mean equal listings: what a reader is shown in a poisoned store is right, or it is refused.

A commit of another program (`OutsideCommit`) is covered, since it leaves the mail alone.
`IDsAreNotReused` follows from `Follows`, `SnapshotNeverMixes` from `LapseInv`, and `Implements` step by step: each action of `Store` maps to
a step of `Maildrop` (`MapsDeliver`, ...) or leaves the mailbox, the acknowledgements and the confirmations as they are.
`maildrop` is Maildrop with the mail in HEAD for its mailbox. Its promises follow from its own actions with the invariant that nothing in the
mailbox and nothing that was confirmed has an ID that is still to come (`PromisesHold`); with `Implements` they hold of the archive (`PromisesKept`).

**The shared reader.** `ReaderInv`: if nobody holds `readMu` the pipe is empty; otherwise what is in the pipe and what the child has
yet to write is the rest of the holder's answer (`Comes`, `Expected`), cut short if the child is gone, and what the holder has
read so far is what comes before that rest. Each way to end a call must show that nothing is left, or drop the child.

**The cache.** `CacheInv`: the list is the first `Capacity` keys of the list of *all* uses, moved to the front alike; the map has just
these keys, and each key's value is what its path and tree name. That evicting first and moving later gives the same
as moving first and evicting later (`NewestMoved`) is the core of it.

**The first start.** `IsLegacy` says of a commit what `ImportIsLegacy` does: it is everything up to the first gap. `ImportInv`: a start that has
passed `recoverMailboxTail` has a state that ends at a gap, and no less than its file counts; once all sizes are added up, what it is about to import
is legacy; so is a commit that a killed import may still publish; and as long as HEAD is unborn, none was published and forgotten
(a lost HEAD leaves `objects`, which stops the start). That the tail is looked for *behind* the last one counted, and the files *before* it only
when their sizes are added up, is why both checks are needed: neither alone excludes a gap.

**The Git children.** `ChildrenInv` has three parts that need each other. `LockHolders`: whoever works on a child holds its lock;
that includes `Maintain`, which got it by `TryLock`, and a callback between its check and the end of the child.
`CallbacksKnow`: a callback that passes the check for its generation was made after the last use. And a child that
nobody works on has its timer or such a callback, unless something has failed. Maintenance that holds the lock does not
count as work: it only tries, and goes on without a change when it does not get the other lock; were it counted, its return
would leave a child of which nothing is known.

**The octets of a message** (`StreamProofs`). `split` reads octets one by one, as `bufio` does up to each LF: what it has are whole lines and the
rest. By induction over the octets, what follows whole lines is split as it would be alone (`LinesConcat`), a cut sequence has the first of the lines and all
of them only if nothing is cut (`LinesPrefix`), and taking off the first line leaves the others (`FirstTaken`). Of one line: `unstuff` undoes the
client's doubled dot, a doubled dot is never the end mark, and `canonicalDataLine` gives back the content with CRLF (`SentLine`). Then two invariants:

- `DataInv`: while DATA is read there is an r such that what dataReader has handed on is the headers and the first r lines of the client, and the lines on
  the wire are its next ones, with the end of the text behind all of them. So the end can only be read when r is all, and a cut connection has lost it or nothing.
- `RespInv`: while a message is streamed there is a q such that the response has its first q lines with doubled dots, except that the end of an unended last
  line comes with the end mark, and what is left to read are the others; `bodyLines` counts from the first empty line. So the end mark is the first
  line of the response that equals it, and what comes before is what TOP asks for.

**SMTP.** The properties compare a delivered message with the log of the commands that were executed. `ConnInv` describes the local
variables of `serveConn` by places in that log: the greeting is the place of the last EHLO, with no STARTTLS after it and all commands since on
the present channel; the envelope is the last MAIL and all accepted RCPTs since, in order, with nothing in between that ends a transaction.
Nothing is unread from before STARTTLS: all input waiting is on the present channel. `Delivered` says the same of a message that was stored,
and since the log only grows (`DeliveredKept`) it stays so. That there is a last EHLO and a last MAIL to speak of is `HasLasts`.
`LeakInv` counts: as many tokens are taken as connections are open, and only a connection within a delivery has a message staged.

**POP3.** `PopInv` ties sessions to a mailbox that others change. `StateOf`: the state file describes the tree, from which `TreeProofs` gives what
listings and lookups return. `SeesLogin`: the snapshot of a session is the mailbox of its login, so that message number n is the n-th ID of then, also
after deliveries and other sessions' deletions; IDs are at most today's `LastID`. `IsMarks`: the marked numbers are distinct messages of that login,
they are what the client wants deleted, and the octets add up. After QUIT the wanted IDs have been asked for; once the update is done
they are gone; all that is gone was asked for; and what was confirmed is gone for good, because IDs only grow. `UpdateIsPossible` follows as
every marked ID that still has a file has it under the path and size that `deleteState` will look for (`MarkedFinds`).

**Assumptions.** Those named in the modules, which TLC evaluates in every run: constants are naturals and the radix is at least 2;
connections and sessions are disjoint, and connections finitely many; requests and the imported mail are within the ID space; message
sizes are naturals and connection limits positive; whoever can hold a mutex (senders, sessions, the two idle callbacks, maintenance) is told
apart from the others and from the value that stands for an unlocked one; a POP3 session lists, retrieves or quits; the content of
a line is a sequence of octets without LF (with one it would be two lines), imported messages are sequences of any octets, and TOP asks for a natural number.

**Only model-checked:** liveness (`CallsReturn`, `StartSucceeds`, `DataEnds`, `WritersGetOn`, `MaintenanceHappens`, `ShutdownEnds`, `OperationsEnd`,
`NewestServed`), which needs fairness and ENABLED.

## 5. What is not modelled

- *The transfer of a receipt* that an older version kept in the state file, and a daily budget that is changed between
  two starts: `MaxDailyBytes` is a constant.
- *Warnings about certificates* that end soon: logging. *Syntax of hostnames*: fixed at the start.
- *Policy rules and address syntax*: a choice between accepting and refusing in `Smtp`.
- *JSON and raw tree decoding, systemd sockets, flags, logging*: input and output only.

## 6. Findings

1. `store_clock_rollback`. `Publish` checks the budget with one reading of the clock (`store.go:211`) and charges with
   another (`store.go:245`). If the clock is set back over midnight between them, the charge is added to
   the recorded day, beyond its budget, by at most one message. The charge is still durable
   before the mail is visible.
2. `store_cut_stream`. A commit is written to fast-import command by command (`import.go:250-296`). If picomx dies in between,
   the child lives on in its own process group (`git.go:26`), sees the end of its input and publishes
   the half it has: a message without its state, or a state without its removals. The comments
   and the design document say that a commit is atomic, and the next start trusts HEAD.
3. `store_poisoned`. `headID` is set inside the operation that the watchdog supervises (`import.go:324`), `state` after it
   (`store.go:257`, `mailbox.go:194`). If the watchdog fires in between, for instance while rev-parse verifies HEAD
   (`import.go:317`), the store is poisoned with `headID` at the new commit and the counts of the old one, and `Snapshot`, which
   does not look at `failure`, hands out both as one. Readers of the directory that has changed are told "directory listing
   does not match count" until the next start. `SnapshotNeverMixes` is what remains true: they are refused, never shown a
   message under another's number.
4. `cat_file_timeout`. The watchdog may fire just as cat-file says that an object is missing. The child is killed, but
   the joined error still contains `ErrNoSuchMessage` (`deadline.go:39`), and `objectInfo` and `readObject` keep the dead
   reader (`read.go:125`, `read.go:147`); a timeout of `blobReader.Read` (`read.go:184`) followed by a Close that finds the rest
   in the pipe does the same. The next read fails, the one after it works.
5. `first_start_interrupted`. A first start that is cut short while fast-import writes leaves a file under `objects`, and
   `requireUninitializedArchive` (`git.go:199-227`) refuses every later start. The mail is still in its files;
   the README says that a restart is enough.

Two remarks without a run. `Maintain` stops both idle timers and returns when the importer cannot be closed
(`maintenance.go:53-57`): the reader stays, without a timer, until it is used again or the program ends, while
the design document says that an idle child is closed after 30 seconds (`docs/design.md:96`). This is why `IdleTimersWork` excepts
a poisoned store. And a line of DATA is limited to 1000 octets *as sent* (`server.go:524`), so a line at the limit
that begins with a dot is refused for its doubled dot.

## 7. Plan

Done so far: the modules above, which cover every part that keeps state, and the theorems of section 4, which state every
safety invariant that the passing runs check. What could follow is a budget that is lowered between two starts:
`ReceiptsInOrder` would have to allow for a receipt above it.
