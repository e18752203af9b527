---------------------------- MODULE MailboxIndex ----------------------------
(***************************************************************************)
(* One mailbox under any sequence of receipts and deletions, with no       *)
(* failures: does the metadata the state file keeps always describe the    *)
(* tree, and do the readers that use it find exactly the live messages?    *)
(* The interleavings and failures of the same two writers are in Store.    *)
(***************************************************************************)
EXTENDS Mailbox

CONSTANTS
    Sizes,      \* the message sizes that are tried
    Requests    \* the sets of IDs a deletion may name

ASSUME SizesAssumption == Sizes \subseteq Nat

VARIABLES
    state,  \* Store.state, and the committed file "state"
    tree    \* the message files of the commit

vars == <<state, tree>>

Init == state = emptyMailboxState /\ tree = {}

\* Publish, seen from the mailbox.
Receive(size) ==
    /\ canPublish(state, size)
    /\ tree' = tree \cup {messagePath(state.LastID + 1, size)}
    /\ state' = publishState(state, size)

\* What DeleteAs resolves a request to: the messages that are still there.
resolve(ids) ==
    LET index == buildDirectoryIndex(state.Directories)
    IN  UNION {messageByID(tree, index, state.LastID, id) : id \in ids}

\* DeleteAs and deleteLocked, seen from the mailbox.  A request that names an
\* ID that was never given out is refused as a whole.
Delete(ids) ==
    /\ ids \subseteq 1 .. state.LastID
    /\ LET messages == resolve(ids)
       IN  /\ messages # {}
           /\ canDelete(state, messages)
           /\ tree' = tree \ pathsOf(messages)
           /\ state' = deleteState(state, messages)

Next ==
    \/ \E size \in Sizes : Receive(size)
    \/ \E ids \in Requests : Delete(ids)

Spec == Init /\ [][Next]_vars

-----------------------------------------------------------------------------
\* The messages in the tree, by ascending ID: what every reader should see.
liveMessages == sorted({messageFromPath(name) : name \in tree}, byID)

\* The state that Publish or deleteLocked commits is one that decodeMailboxState
\* accepts at the next start, with the count and the octets of the tree, and no
\* reader meets a listing that does not match its count or an ID that was not
\* given out.  A directory that became empty must leave the counts with all its
\* ancestors: every reader calls anything else a corrupt repository, and
\* deleteLocked, which checks the counts it is about to commit, would refuse to
\* delete live messages.
StateDescribesTree ==
    /\ validState(state)
    /\ messageCount(state) = Cardinality(tree)
    /\ state.TotalOctets = octetsOf({messageFromPath(name) : name \in tree})
    /\ \A leaf \in Range(buildDirectoryIndex(state.Directories).leaves) :
          /\ readable(tree, leaf)
          /\ \A name \in filesIn(tree, leaf.path) : messageFromPath(name).ID <= state.LastID
    /\ \A ids \in Requests : ids \subseteq 1 .. state.LastID => canDelete(state, resolve(ids))

\* Lookup(n) answers the n-th live message in ID order, ListAt lists all of them
\* in that order, and messageByID finds an ID if and only if it is live, although
\* they know only cumulative counts per directory, string order of the paths and
\* bounded listings, and IDs of different depth lie in different directories.
ReadersFindLive ==
    LET index == buildDirectoryIndex(state.Directories)
        live == liveMessages
    IN  /\ \A number \in 1 .. Len(live) : Lookup(tree, index, number) = live[number]
        /\ ListAt(tree, index, state.LastID) = live
        /\ \A id \in 1 .. MaxID :
              messageByID(tree, index, state.LastID, id) = {m \in Range(live) : m.ID = id}
=============================================================================
