------------------------------- MODULE Mailbox ------------------------------
(***************************************************************************)
(* The mailbox a Git commit holds (internal/archive/mailbox.go, state.go,  *)
(* tree.go): a tree, which is a set of message files, and beside it the    *)
(* file "state", which has the last ID given out, the octets of all live   *)
(* messages and the number of live messages per directory.  These are the  *)
(* pure parts of the operations: what a reader finds and what a writer     *)
(* would commit next.                                                      *)
(***************************************************************************)
EXTENDS Directories

CONSTANT MaxOctets  \* math.MaxUint64: the largest TotalOctets

ASSUME MaxOctetsAssumption == MaxOctets \in Nat

emptyMailboxState == [LastID |-> 0, TotalOctets |-> 0, Directories |-> <<>>]

messageCount(state) ==
    MapThenSumSet(LAMBDA leaf : state.Directories[leaf], leavesOf(state.Directories))

\* decodeMailboxState answers no error for this committed state.
validState(state) ==
    /\ validCounts(state.Directories, state.LastID)
    /\ messageCount(state) = 0 => state.TotalOctets = 0

(***************************************************************************)
(* Readers.                                                                *)
(***************************************************************************)
byID(a, b) == a.ID < b.ID

filesIn(tree, path) == {name \in tree : Front(name.path) = path}

\* Mutant: the listing is not compared with its count.
readableUncounted(tree, leaf) ==
    LET names == filesIn(tree, leaf.path)
    IN  /\ \A name \in names : messageFromPath(name) # NoMessage
        /\ \A a, b \in names : messageFromPath(a).ID = messageFromPath(b).ID => a = b

\* Store.directory answers no error (every file name parses, and no ID is there
\* twice), and the listing is as long as its callers expect.
readable(tree, leaf) ==
    LET names == filesIn(tree, leaf.path)
    IN  /\ \A name \in names : messageFromPath(name) # NoMessage
        /\ \A a, b \in names : messageFromPath(a).ID = messageFromPath(b).ID => a = b
        /\ Cardinality(names) = leaf.count

directory(tree, path) ==
    sorted({messageFromPath(name) : name \in filesIn(tree, path)}, byID)

\* Lookup, for a number in 1 .. index.total.
Lookup(tree, index, number) ==
    LET selected == selectLeaf(index, number)
    IN  directory(tree, selected.leaf.path)[selected.offset + 1]

\* Mutant: the last ID that was given out is taken for one that was not.
messageByOldID(tree, index, lastID, id) ==
    {m \in UNION {Range(directory(tree, leaf.path)) : leaf \in Range(index.leaves)} :
        id < lastID /\ m.ID = id}

\* messageByID: the message with this ID, in a set, or the empty set for
\* ErrNoSuchMessage.
messageByID(tree, index, lastID, id) ==
    {m \in UNION {Range(directory(tree, leaf.path)) :
                    leaf \in {l \in Range(index.leaves) : l.path = leafDirectory[id]}} :
        id \in 1 .. lastID /\ m.ID = id}

\* ListAt: the messages in the order in which they are visited.  An ID that was
\* not given out ends the listing.
ListAt(tree, index, lastID) ==
    LET messages ==
            FlattenSeq([i \in DOMAIN index.leaves |-> directory(tree, index.leaves[i].path)])
        unallocated == {i \in DOMAIN messages : messages[i].ID > lastID}
    IN  IF unallocated = {} THEN messages
        ELSE SubSeq(messages, 1, Min(unallocated) - 1)

(***************************************************************************)
(* Writers.                                                                *)
(***************************************************************************)
\* The state Publish commits for the next message.
publishState(state, size) ==
    [LastID      |-> state.LastID + 1,
     TotalOctets |-> state.TotalOctets + size,
     Directories |-> add(state.Directories, leafDirectory[state.LastID + 1])]

\* Publish's checks on the mailbox: the ID space, the octet count, the index.
canPublish(state, size) ==
    /\ state.LastID # MaxID
    /\ size <= MaxOctets - state.TotalOctets
    /\ LET next == publishState(state, size)
       IN  validCounts(next.Directories, next.LastID)

\* The files deleteLocked removes, and the state it commits.
pathsOf(messages) == {messagePath(m.ID, m.Size) : m \in messages}

octetsOf(messages) == MapThenSumSet(LAMBDA m : m.Size, messages)

removeAll(counts, messages) ==
    FoldSet(LAMBDA m, rest : remove(rest, leafDirectory[m.ID]), counts, messages)

\* Mutants: the octets of what is removed stay counted; IDs are taken back.
deleteStateKeepingOctets(state, messages) ==
    [state EXCEPT !.Directories = removeAll(state.Directories, messages)]

deleteStateReusingIDs(state, messages) ==
    [LastID      |-> state.LastID - Cardinality(messages),
     TotalOctets |-> state.TotalOctets - octetsOf(messages),
     Directories |-> removeAll(state.Directories, messages)]

deleteState(state, messages) ==
    [LastID      |-> state.LastID,
     TotalOctets |-> state.TotalOctets - octetsOf(messages),
     Directories |-> removeAll(state.Directories, messages)]

\* deleteLocked's checks: no size and no count underflows, the index is valid.
canDelete(state, messages) ==
    /\ octetsOf(messages) <= state.TotalOctets
    /\ \A p \in UNION {ancestors(leafDirectory[m.ID]) : m \in messages} :
          Cardinality({m \in messages : p \in ancestors(leafDirectory[m.ID])})
             <= countOf(state.Directories, p)
    /\ validCounts(deleteState(state, messages).Directories, state.LastID)
=============================================================================
