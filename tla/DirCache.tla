------------------------------ MODULE DirCache ------------------------------
(***************************************************************************)
(* Store.directory and the cache in front of it (internal/archive/tree.go, *)
(* cache.go).  Sessions at different commits list directories; between the *)
(* steps of one, which asks for the tree's object ID, looks in the cache,  *)
(* reads the tree and puts its listing into the cache, others do theirs.   *)
(*                                                                         *)
(* An object ID names the content of a directory, and the file names in it *)
(* give only the last digit of the message IDs; the rest is in the path.   *)
(* So one tree may be in two directories, with different messages.         *)
(***************************************************************************)
EXTENDS Integers, Sequences, SequencesExt

CONSTANTS
    Sessions,
    Capacity,       \* directoryCacheCapacity
    Commits,        \* what each commit has: directory path to object ID of its tree
    None            \* no directory is being listed

VARIABLES
    entries,    \* directoryCache.entries and the messages of its elements
    recency,    \* directoryCache.recency: keys, the last used one first
    listing,    \* per session: the directory being listed
    uses        \* all keys that were ever got or put, the last used one first

vars == <<entries, recency, listing, uses>>

\* Store.directory parses a tree: what the messages are depends on both.
messagesOf(path, tree) == <<"messages", path, tree>>

Init ==
    /\ entries = <<>>
    /\ recency = <<>>
    /\ listing = [s \in Sessions |-> None]
    /\ uses = <<>>

\* container/list: MoveToFront of an element, or PushFront of a new one.
front(keys, key) == <<key>> \o RemoveFirst(keys, key)

step(s, st) == listing[s] # None /\ listing[s].st = st

\* Mutant: the key is the path.
keyOfPath(path, tree) == [path |-> path, tree |-> "any"]

\* directoryKey
directoryKey(path, tree) == [path |-> path, tree |-> tree]

\* objectInfo answers the object ID of the directory in the session's commit.
Info(s, commit, path) ==
    /\ listing[s] = None \/ step(s, "done")
    /\ path \in DOMAIN commit
    /\ listing' = [listing EXCEPT ![s] =
            [st |-> "info", commit |-> commit, path |-> path, tree |-> commit[path],
             messages |-> None]]
    /\ UNCHANGED <<entries, recency, uses>>

\* Mutant: a hit does not count as a use.
GetKeeping(s) ==
    /\ step(s, "info")
    /\ LET key == directoryKey(listing[s].path, listing[s].tree)
       IN  /\ key \in DOMAIN entries
           /\ uses' = front(uses, key)
           /\ listing' = [listing EXCEPT ![s].st = "done", ![s].messages = entries[key]]
    /\ UNCHANGED <<entries, recency>>

\* directoryCache.get, a hit.
Get(s) ==
    /\ step(s, "info")
    /\ LET key == directoryKey(listing[s].path, listing[s].tree)
       IN  /\ key \in DOMAIN entries
           /\ recency' = front(recency, key)
           /\ uses' = front(uses, key)
           /\ listing' = [listing EXCEPT ![s].st = "done", ![s].messages = entries[key]]
    /\ UNCHANGED entries

\* A miss: the tree is read, under another lease of the reader, by object ID.
Miss(s) ==
    /\ step(s, "info")
    /\ directoryKey(listing[s].path, listing[s].tree) \notin DOMAIN entries
    /\ listing' = [listing EXCEPT ![s].st = "read",
                                  ![s].messages = messagesOf(listing[s].path, listing[s].tree)]
    /\ UNCHANGED <<entries, recency, uses>>

\* directoryCache.put.  Another session may have put the same key meanwhile; a
\* new key pushes the one out that was not used for longest.
Put(s) ==
    /\ step(s, "read")
    /\ LET key == directoryKey(listing[s].path, listing[s].tree)
           pushed == front(recency, key)
           kept == SubSeq(pushed, 1, IF Len(pushed) > Capacity THEN Capacity ELSE Len(pushed))
       IN  /\ recency' = kept
           /\ entries' = [k \in Range(kept) |->
                            IF k = key THEN listing[s].messages ELSE entries[k]]
           /\ uses' = front(uses, key)
    /\ listing' = [listing EXCEPT ![s].st = "done"]

\* The reader answers an error, to the first request or to the second.
Fails(s) ==
    /\ step(s, "info") \/ step(s, "read")
    /\ listing' = [listing EXCEPT ![s] = None]
    /\ UNCHANGED <<entries, recency, uses>>

Next == \E s \in Sessions :
    \/ \E commit \in Commits : \E path \in DOMAIN commit : Info(s, commit, path)
    \/ Get(s)
    \/ Miss(s)
    \/ Put(s)
    \/ Fails(s)

Spec == Init /\ [][Next]_vars

-----------------------------------------------------------------------------
(* Properties *)

\* A listing is that of the directory in the commit of the session's login,
\* whichever session, at whichever commit, has filled the cache.
ListingIsOfCommit ==
    \A s \in Sessions : step(s, "done") =>
        listing[s].messages = messagesOf(listing[s].path, listing[s].commit[listing[s].path])

\* The cache holds the Capacity keys that were used last and no others, in its
\* map as in its list, however hits, misses and double misses interleave: it
\* neither grows nor throws out a directory that is in use.
RecentIsCached ==
    /\ DOMAIN entries = Range(recency)
    /\ recency = SubSeq(uses, 1, IF Len(uses) > Capacity THEN Capacity ELSE Len(uses))
=============================================================================
