------------------------------- MODULE Parts --------------------------------
(***************************************************************************)
(* The parts of the program that share no state with each other, in one    *)
(* specification: every behaviour is a behaviour of one part, while the    *)
(* others stay as they were at the start.  MailboxIndex and PathWalk,      *)
(* whose recursive functions TLC does not evaluate in an instance, are     *)
(* extended; Init, Next and vars are those of MailboxIndex.                *)
(***************************************************************************)
EXTENDS MailboxIndex, PathWalk

CONSTANTS
    None,
    Readers, Specs, Repository,                             \* CatFile
    CacheSessions, Capacity, Commits,                       \* DirCache
    Contents, MaxLine, MaxBytes, MaxLines, Limits, Imported,\* DataStream
    Candidates, Certificates, Keys, MaxTime, MaxWrites,     \* TlsCert
    MailSizes, MaxMail, MaxMissing, MaxLag, Cuts, MaxCrashes,  \* FirstStart
    Senders, Sessions, maintenanceCommitThreshold,          \* Children
    Purposes, Stopped, MaxCallbacks

ASSUME CapacityAssumption == Capacity \in Nat
ASSUME ReadersAssumption == None \notin Readers
ASSUME LocksAssumption ==
    {None, "maintenance", "importer", "reader"} \cap (Senders \cup Sessions) = {}
ASSUME PurposesAssumption == \A s \in Sessions : Purposes[s] \subseteq {"list", "retr", "quit"}
ASSUME NoneAssumption == None \notin {"maintenance", "importer", "reader"}
ASSUME ContentsAssumption == \A content \in Contents : content \in Seq(Range(content) \ {"LF"})
ASSUME ImportedAssumption == \A message \in Imported : message \in Seq(Range(message))
ASSUME TopAssumption == Limits \subseteq Nat /\ None \notin Nat
ASSUME RepositoryAssumption == \A spec \in DOMAIN Repository : Repository[spec].size \in Nat

VARIABLES
    part,                                                   \* the part that moves
    readMu, reader, watch, call,                            \* CatFile
    entries, recency, listing, uses,                        \* DirCache
    sent, wire, conn, data, stored, resp,                   \* DataStream
    chain, key, now, writes, current, loading,              \* TlsCert
    mail, stateFile, stateSynced, gitHEAD, objects, head,   \* FirstStart
    orphan, startPC, startState, crashes, imports,
    lock, child, timer, callbacks, closer, pc, moved,       \* Children
    closed, importError, failure, maintenance, alarm,
    requested, commits, maintained, main

-----------------------------------------------------------------------------
Reading == INSTANCE CatFile

Caching == INSTANCE DirCache WITH Sessions <- CacheSessions

Streaming == INSTANCE DataStream

Serving == INSTANCE TlsCert

Importing == INSTANCE FirstStart WITH pc <- startPC, state <- startState, Sizes <- MailSizes

Idling == INSTANCE Children

-----------------------------------------------------------------------------
readingVars == <<readMu, reader, watch, call>>
cachingVars == <<entries, recency, listing, uses>>
streamingVars == <<sent, wire, conn, data, stored, resp>>
servingVars == <<chain, key, now, writes, current, loading>>
importingVars == <<mail, stateFile, stateSynced, gitHEAD, objects, head, orphan, startPC,
                   startState, crashes, imports>>
idlingVars == <<lock, child, timer, callbacks, closer, pc, moved, closed, importError, failure,
                maintenance, alarm, requested, commits, maintained, main>>

\* DataStream and FirstStart start in many ways: in a behaviour of another part
\* their variables have no value.
PartsInit ==
    /\ part \in {"MailboxIndex", "PathWalk", "CatFile", "DirCache", "DataStream", "TlsCert", "FirstStart",
                 "Children"}
    /\ Init /\ WalkInit
    /\ Reading!Init
    /\ Caching!Init
    /\ Serving!Init
    /\ Idling!Init
    /\ IF part = "DataStream" THEN Streaming!Init
       ELSE /\ sent = None /\ wire = None /\ conn = None
            /\ data = None /\ stored = None /\ resp = None
    /\ IF part = "FirstStart" THEN Importing!Init
       ELSE /\ mail = None /\ stateFile = None /\ stateSynced = None /\ gitHEAD = None
            /\ objects = None /\ head = None /\ orphan = None /\ startPC = None
            /\ startState = None /\ crashes = None /\ imports = None

MailboxIndexNext ==
    /\ part = "MailboxIndex" /\ Next
    /\ UNCHANGED <<part, path, readingVars, cachingVars, streamingVars, servingVars, importingVars, idlingVars>>

PathWalkNext ==
    /\ part = "PathWalk" /\ Walk
    /\ UNCHANGED <<part, vars, readingVars, cachingVars, streamingVars, servingVars, importingVars, idlingVars>>

CatFileNext ==
    /\ part = "CatFile" /\ Reading!Next
    /\ UNCHANGED <<part, vars, path, cachingVars, streamingVars, servingVars, importingVars, idlingVars>>

DirCacheNext ==
    /\ part = "DirCache" /\ Caching!Next
    /\ UNCHANGED <<part, vars, path, readingVars, streamingVars, servingVars, importingVars, idlingVars>>

DataStreamNext ==
    /\ part = "DataStream" /\ Streaming!Next
    /\ UNCHANGED <<part, vars, path, readingVars, cachingVars, servingVars, importingVars, idlingVars>>

TlsCertNext ==
    /\ part = "TlsCert" /\ Serving!Next
    /\ UNCHANGED <<part, vars, path, readingVars, cachingVars, streamingVars, importingVars, idlingVars>>

FirstStartNext ==
    /\ part = "FirstStart" /\ Importing!Next
    /\ UNCHANGED <<part, vars, path, readingVars, cachingVars, streamingVars, servingVars, idlingVars>>

ChildrenNext ==
    /\ part = "Children" /\ Idling!Next
    /\ UNCHANGED <<part, vars, path, readingVars, cachingVars, streamingVars, servingVars, importingVars>>

PartsNext ==
    \/ MailboxIndexNext
    \/ PathWalkNext
    \/ CatFileNext
    \/ DirCacheNext
    \/ DataStreamNext
    \/ TlsCertNext
    \/ FirstStartNext
    \/ ChildrenNext

partsVars == <<part, vars, path, readingVars, cachingVars, streamingVars, servingVars, importingVars, idlingVars>>

\* The fairness of the parts that have some; the certificate's reload loop runs
\* in its own behaviours.
PartsSpec ==
    /\ PartsInit /\ [][PartsNext]_partsVars
    /\ Reading!Fairness
    /\ WF_servingVars(part = "TlsCert" /\ Serving!Reload)

-----------------------------------------------------------------------------
(* Properties: those of the parts; those of MailboxIndex and PathWalk stand there. *)

\* Every session gets the answer to its own request from the shared reader.
AnswersAreMine == Reading!AnswersAreMine

\* A child that stalls blocks no operation on the reader for good.
OperationsEnd == Reading!OperationsEnd

\* The directory cache answers with the listing at the session's own commit.
ListingIsOfCommit == Caching!ListingIsOfCommit

\* The directory cache holds the directories that were used last.
RecentIsCached == Caching!RecentIsCached

\* Neither dataReader nor streamMessage changes a message.
MailIsUnchanged == part = "DataStream" => Streaming!MailIsUnchanged

\* Once the files are left alone, the pair on disk is served.
NewestServed == Serving!NewestServed

\* initializeGit imports the file archive once, up to its first gap.
ImportIsLegacy == part = "FirstStart" => Importing!ImportIsLegacy

\* Idle timers close what is idle, and nothing else.
IdleTimersWork == Idling!IdleTimersWork

\* Close leaves no Git child behind.
NoChildAfterClose == Idling!NoChildAfterClose
=============================================================================
