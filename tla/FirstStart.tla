----------------------------- MODULE FirstStart -----------------------------
(***************************************************************************)
(* The first start on an archive of plain files (initializeGit in          *)
(* internal/archive/git.go, recovery.go, state.go): git init, the recovery *)
(* of a message the state file does not know yet, and the commit that      *)
(* imports all messages.  picomx may be killed, or the machine lose its    *)
(* power, between any two steps, and HEAD may be lost later.  Later starts *)
(* are in Store.                                                           *)
(*                                                                         *)
(* fast-import is as in Store: it may outlive picomx and publish a commit  *)
(* that it has read to its end.                                            *)
(***************************************************************************)
EXTENDS Integers, Sequences, SequencesExt, FiniteSetsExt

CONSTANTS
    Sizes,          \* sizes of the messages in the old archive
    MaxMail,        \* bound: messages the old archive ever had
    MaxMissing,     \* bound: messages whose files are not there
    MaxLag,         \* bound: messages the state file does not know
    Cuts,           \* bound: octets that the files have lost since they were counted
    MaxCrashes,     \* bound: crashes
    None

VARIABLES
    mail,           \* the files of the old archive: the size of each ID that has one
    stateFile,      \* the file "state"; none is read as one that counts nothing
    stateSynced,    \* what is left of it if the power fails
    gitHEAD,        \* the file "HEAD": "none", "written" or "synced"
    objects,        \* is there any file under objects, refs or logs?
    head,           \* the commit of the branch, or None
    orphan,         \* the commit a fast-import may publish after a crash, or None
    pc,             \* where initializeGit is
    state,          \* its variable state
    crashes,
    imports         \* the commits that were made from the old archive

files == <<stateFile, stateSynced>>
repository == <<gitHEAD, objects, head>>
vars == <<mail, files, repository, orphan, pc, state, crashes, imports>>

octetsOf(sizes, n) == MapThenSumSet(LAMBDA id : sizes[id], (1 .. n) \cap DOMAIN sizes)
octets(n) == octetsOf(mail, n)

\* The state file of an archive whose messages up to n are counted.
stateOf(n) == [LastID |-> n, TotalOctets |-> octets(n)]

\* The old program wrote a message first and the state file after it, so that
\* one message may be missing there; or the state file is from a backup, or an
\* accident has cut or removed files.
Init ==
    /\ \E n \in 0 .. MaxMail : \E missing \in SUBSET (1 .. n) :
          /\ Cardinality(missing) <= MaxMissing
          /\ mail \in [(1 .. n) \ missing -> Sizes]
          /\ \/ \E counted \in 1 .. n, cut \in Cuts :
                   /\ n - counted <= MaxLag
                   /\ stateFile = [stateOf(counted) EXCEPT !.TotalOctets = @ + cut]
             \/ n <= MaxLag /\ stateFile = stateOf(0)
    /\ stateSynced = stateFile
    /\ gitHEAD = "none"
    /\ objects = FALSE
    /\ head = None
    /\ orphan = None
    /\ pc = "down"
    /\ state = None
    /\ crashes = 0
    /\ imports = <<>>

-----------------------------------------------------------------------------
Start ==
    /\ pc = "down"
    /\ pc' = IF gitHEAD = "none" THEN "new" ELSE "head"
    /\ UNCHANGED <<mail, files, repository, orphan, state, crashes, imports>>

requireUninitializedArchive == ~objects

\* git init
InitGit ==
    /\ pc = "new" /\ requireUninitializedArchive
    /\ gitHEAD' = "written"
    /\ pc' = "init"
    /\ UNCHANGED <<mail, files, objects, head, orphan, state, crashes, imports>>

SyncRoot ==
    /\ pc = "init"
    /\ gitHEAD' = "synced"
    /\ pc' = "head"
    /\ UNCHANGED <<mail, files, objects, head, orphan, state, crashes, imports>>

\* HEAD names a commit: its state is taken.
Serve ==
    /\ pc = "head" /\ head # None
    /\ state' = [LastID |-> head.LastID, TotalOctets |-> head.TotalOctets]
    /\ pc' = "served"
    /\ UNCHANGED <<mail, files, repository, orphan, crashes, imports>>

\* HEAD is unborn: the old archive is imported.  readMailboxState
ReadState ==
    /\ pc = "head" /\ head = None /\ requireUninitializedArchive
    /\ state' = stateFile
    /\ pc' = "tail"
    /\ UNCHANGED <<mail, files, repository, orphan, crashes, imports>>

\* recoverMailboxTail answers no error: the last message counted is there, and
\* the state trails by one message at the most.
recoverable ==
    /\ state.LastID = 0 \/ state.LastID \in DOMAIN mail
    /\ ~({state.LastID + 1, state.LastID + 2} \subseteq DOMAIN mail)

\* Every message is there, and their sizes add up.
collectable ==
    /\ 1 .. state.LastID \subseteq DOMAIN mail
    /\ octets(state.LastID) = state.TotalOctets

Refuse ==
    /\ \/ pc = "new" /\ ~requireUninitializedArchive
       \/ pc = "head" /\ head = None /\ ~requireUninitializedArchive
       \/ pc = "tail" /\ ~recoverable
       \/ pc = "collect" /\ ~collectable
    /\ pc' = "down"
    /\ UNCHANGED <<mail, files, repository, orphan, state, crashes, imports>>

\* Mutant: a message behind the last one counted is not looked for.
recoverNothing == state

\* What recoverMailboxTail makes of the state it is given.
recoverMailboxTail ==
    IF state.LastID + 1 \notin DOMAIN mail THEN state
    ELSE [LastID |-> state.LastID + 1,
          TotalOctets |-> state.TotalOctets + mail[state.LastID + 1]]

\* The state file is as it should be, or a new one takes its place.
RecoverTail ==
    /\ pc = "tail" /\ recoverable
    /\ state' = recoverMailboxTail
    /\ IF state' = state
       THEN pc' = "collect" /\ UNCHANGED stateFile
       ELSE pc' = "sync" /\ stateFile' = state'
    /\ UNCHANGED <<mail, stateSynced, repository, orphan, crashes, imports>>

SyncState ==
    /\ pc = "sync"
    /\ stateSynced' = stateFile
    /\ pc' = "collect"
    /\ UNCHANGED <<mail, stateFile, repository, orphan, state, crashes, imports>>

\* The commit of the messages up to LastID, under their new names.
importCommit ==
    [LastID |-> state.LastID, TotalOctets |-> state.TotalOctets,
     tree |-> {<<id, mail[id]>> : id \in 1 .. state.LastID}]

\* commitChanges, after the sizes were added up: fast-import begins to write.
StartImport ==
    /\ pc = "collect" /\ collectable /\ head = None
    /\ objects' = TRUE
    /\ pc' = "import"
    /\ UNCHANGED <<mail, files, gitHEAD, head, orphan, state, crashes, imports>>

\* A fast-import of an earlier start was faster.
HeadChanged ==
    /\ pc = "collect" /\ head # None
    /\ pc' = "down"
    /\ UNCHANGED <<mail, files, repository, orphan, state, crashes, imports>>

Checkpoint ==
    /\ pc = "import" /\ head = None
    /\ head' = importCommit
    /\ imports' = Append(imports, importCommit)
    /\ pc' = "served"
    /\ UNCHANGED <<mail, files, gitHEAD, objects, orphan, state, crashes>>

\* fast-import is killed after an error, or leaves a ref alone that another one
\* has created; what it has written is left.
ImportFails ==
    /\ pc = "import"
    /\ pc' = "down"
    /\ UNCHANGED <<mail, files, repository, orphan, state, crashes, imports>>

-----------------------------------------------------------------------------
\* picomx is killed, and a fast-import that lives on may not have written
\* anything yet; or the power fails, and what was not synced may be gone.
Crash ==
    /\ pc # "down" /\ crashes < MaxCrashes
    /\ crashes' = crashes + 1
    /\ \/ /\ orphan' \in IF pc = "import" THEN {orphan, importCommit} ELSE {orphan}
          /\ UNCHANGED <<files, gitHEAD>>
       \/ /\ orphan' = None
          /\ stateFile' \in {stateFile, stateSynced}
          /\ stateSynced' = stateFile'
          /\ gitHEAD' \in IF gitHEAD = "written" THEN {"none", "synced"} ELSE {gitHEAD}
    /\ objects' \in IF pc = "import" /\ head = None THEN {TRUE, FALSE} ELSE {objects}
    /\ pc' = "down"
    /\ UNCHANGED <<mail, head, state, imports>>

\* A fast-import that was left behind ends.
OrphanEOF ==
    /\ orphan # None
    /\ orphan' = None
    /\ IF head = None
       THEN head' = orphan /\ objects' = TRUE /\ imports' = Append(imports, orphan)
       ELSE UNCHANGED <<head, objects, imports>>
    /\ UNCHANGED <<mail, files, gitHEAD, pc, state, crashes>>

\* Later, HEAD or the branch is lost by an accident.
LoseHEAD ==
    /\ pc = "down" /\ head # None /\ orphan = None
    /\ \/ gitHEAD' = "none" /\ UNCHANGED head
       \/ head' = None /\ UNCHANGED gitHEAD
    /\ UNCHANGED <<mail, files, objects, orphan, pc, state, crashes, imports>>

\* picomx is stopped.
Stop ==
    /\ pc = "served"
    /\ pc' = "down"
    /\ UNCHANGED <<mail, files, repository, orphan, state, crashes, imports>>

Starting ==
    \/ Start
    \/ InitGit
    \/ SyncRoot
    \/ Serve
    \/ ReadState
    \/ Refuse
    \/ RecoverTail
    \/ SyncState
    \/ StartImport
    \/ HeadChanged
    \/ Checkpoint

Next ==
    \/ Starting
    \/ ImportFails
    \/ Crash
    \/ OrphanEOF
    \/ LoseHEAD
    \/ Stop

Spec == Init /\ [][Next]_vars

\* picomx is started again whenever it is down, and a start runs to its end.
FairSpec == Spec /\ WF_vars(Starting)

-----------------------------------------------------------------------------
(* Properties *)

\* The old archive is imported once, and up to the first message that is not
\* there: the first commit has every message before that one and their octets,
\* wherever earlier starts were interrupted and whatever files are missing, and
\* none that the state file counts is left out; a lost HEAD does not bring the
\* archive back over later commits.
ImportIsLegacy ==
    /\ Len(imports) <= 1
    /\ \A commit \in Range(imports) :
          /\ 1 .. commit.LastID \subseteq DOMAIN mail /\ commit.LastID + 1 \notin DOMAIN mail
          /\ commit.tree = {<<id, mail[id]>> : id \in 1 .. commit.LastID}
          /\ commit.TotalOctets = octets(commit.LastID)
          /\ stateFile.LastID <= commit.LastID

\* A first start that was interrupted is completed by a later one: after a
\* failed transaction, it is enough to start again.
RestartImports == (crashes > 0 /\ imports = <<>>) ~> imports # <<>>
=============================================================================
