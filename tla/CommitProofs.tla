---------------------------- MODULE CommitProofs ----------------------------
(***************************************************************************)
(* What the commits of HEAD are, as long as the stream to fast-import is   *)
(* never cut between two commands: every commit is whole, the next one     *)
(* delivers one message or removes what one request names, and no ID comes *)
(* back.  From this follows that Store implements Maildrop, and from that  *)
(* that it keeps Maildrop's promises.                                      *)
(***************************************************************************)
EXTENDS StoreProofs, TreeProofs

\* A state file describes a tree, whose messages keep to the limit.
Describes(st, tree) ==
    /\ StateOf(st, tree)
    /\ \A m \in messagesOf(tree) : m.Size <= MaxMessage

\* A commit whose state file describes its tree.
Whole(commit) == Describes(commit.state, commit.tree)

\* The files of a tree that a request names.
namedFiles(tree, ids) == {name \in tree : idOf(name) \in ids}

\* A transaction that delivers one message under the next ID, or removes all
\* that a set of IDs names, on top of commit base.
Delivers(t, base) ==
    /\ t.state.LastID = base.state.LastID + 1
    /\ t.removals = {}
    /\ \E size \in 0 .. MaxMessage : t.changes = {messagePath(base.state.LastID + 1, size)}

\* A transaction that removes what a set of IDs names.
Removes(t, base, ids) ==
    /\ t.state.LastID = base.state.LastID
    /\ t.changes = {}
    /\ t.removals = namedFiles(base.tree, ids)

\* What a transaction on top of base will leave: whole, and one of the two.
Planned(t, base, requests) ==
    /\ Describes(t.state, (base.tree \cup t.changes) \ t.removals)
    /\ \/ Delivers(t, base)
       \/ \E ids \in requests : Removes(t, base, ids)

\* A later commit gives out only higher IDs: up to the last ID of the earlier
\* one it has only files of the earlier one.
Follows(earlier, later) ==
    /\ earlier.state.LastID <= later.state.LastID
    /\ \A name \in later.tree : idOf(name) <= earlier.state.LastID => name \in earlier.tree

\* What a call of DeleteAs knows of its snapshot.
Resolved(d, history) ==
    /\ d.st \in {"resolve", "lock"} =>
          d.commit \in 1 .. Len(history) /\ d.state = history[d.commit].state
    /\ d.st = "lock" =>
          /\ d.ids \subseteq 1 .. d.state.LastID
          /\ d.messages = messagesOf(namedFiles(history[d.commit].tree, d.ids))

\* The commits so far.
CommitsInv ==
    /\ \A i \in 1 .. head : Whole(commits[i])
    /\ \A j \in 1 .. head : \A i \in 1 .. j : Follows(commits[i], commits[j])
    /\ confirmed \subseteq 1 .. commits[head].state.LastID
    /\ DeletedStaysDeleted

\* The commit that picomx works on, and the one an importer left behind holds.
PlannedInv ==
    /\ txn.phase # "none" => Planned(txn, commits[txn.parent], requested)
    /\ orphan.parent # 0 => Planned(orphan, commits[orphan.parent], requested)

\* The calls of DeleteAs.  In a poisoned store a snapshot may lag behind its
\* commit; none of its calls commits anything.
ResolvedInv == failure \/ \A s \in Sessions : Resolved(deletion[s], commits)

\* The transaction of a call of DeleteAs removes what the call names.
RemovalInv ==
    \A s \in Sessions : (txn.phase # "none" /\ txn.who = s) =>
        /\ deletion[s].st = "committing"
        /\ deletion[s].ids \subseteq 1 .. commits[txn.parent].state.LastID
        /\ Removes(txn, commits[txn.parent], deletion[s].ids)

\* A staged message is no longer than the limit.
SizesInv == \A c \in Conns : staged[c].size <= MaxMessage

\* The inductive invariant.
WholeInv == CommitsInv /\ PlannedInv /\ ResolvedInv /\ RemovalInv /\ SizesInv

-----------------------------------------------------------------------------
(* What the two writers plan is whole again. *)

\* A receipt's state describes the tree with the new message.
LEMMA ReceiptWhole ==
    ASSUME NEW st, NEW tree, Describes(st, tree), st.LastID # MaxID, NEW size \in 0 .. MaxMessage
    PROVE  Describes(publishState(st, size), tree \cup {messagePath(st.LastID + 1, size)})
<1> DEFINE more == tree \cup {messagePath(st.LastID + 1, size)}
<1>1. size \in Nat /\ StateOf(st, tree)
  BY BudgetAssumption DEF Describes
<1>2. /\ StateOf(publishState(st, size), more)
      /\ messagesOf(more) = messagesOf(tree) \cup {[ID |-> st.LastID + 1, Size |-> size]}
  BY <1>1, StateReceipt
<1>3. \A m \in messagesOf(more) : m.Size <= MaxMessage
  BY <1>2 DEF Describes
<1> QED
  BY <1>2, <1>3 DEF Describes

\* A deletion's state describes the tree without what was named, and its files
\* are those.
LEMMA RemovalWhole ==
    ASSUME NEW st, NEW tree, Describes(st, tree), NEW ids
    PROVE  LET part == namedFiles(tree, ids)
           IN  /\ pathsOf(messagesOf(part)) = part
               /\ Describes(deleteState(st, messagesOf(part)), tree \ part)
<1> DEFINE part == namedFiles(tree, ids)
<1>1. part \in SUBSET tree /\ StateOf(st, tree)
  BY DEF namedFiles, Describes
<1> HIDE DEF part
<1>2. pathsOf(messagesOf(part)) = part /\ StateOf(deleteState(st, messagesOf(part)), tree \ part)
  BY <1>1, StateRemoval
<1>3. \A m \in messagesOf(tree \ part) : m.Size <= MaxMessage
  BY DEF Describes, messagesOf
<1>4. Describes(deleteState(st, messagesOf(part)), tree \ part)
  BY <1>2, <1>3 DEF Describes
<1> QED
  BY <1>2, <1>4 DEF part

\* What is planned on a commit follows it.
LEMMA PlannedFollows ==
    ASSUME NEW base, Whole(base), NEW t, NEW requests, Planned(t, base, requests),
           NEW later, later.state = t.state, later.tree = (base.tree \cup t.changes) \ t.removals
    PROVE  Whole(later) /\ Follows(base, later)
<1>1. Whole(later)
  BY DEF Planned, Whole
<1>2. base.state.LastID \in 0 .. MaxID /\ t.state.LastID \in 0 .. MaxID
  BY DEF Whole, Describes, StateOf, Planned
<1>3. CASE Delivers(t, base)
  <2>1. PICK size \in 0 .. MaxMessage : t.changes = {messagePath(base.state.LastID + 1, size)}
    BY <1>3 DEF Delivers
  <2> DEFINE id == base.state.LastID + 1
  <2>2. t.state.LastID = id /\ id \in 1 .. MaxID /\ id \in 1 .. id /\ id \in 0 .. MaxID /\ size \in Nat
    BY <1>2, <1>3, MaxIDAssumption, BudgetAssumption DEF Delivers
  <2>3. idOf(messagePath(id, size)) = id
    BY <2>2, MessageInverse DEF idOf
  <2>4. \A name \in later.tree : name \in base.tree \/ name = messagePath(id, size)
    BY <2>1
  <2>5. ~(id <= base.state.LastID) /\ base.state.LastID <= t.state.LastID
    BY <1>2, <2>2
  <2> HIDE DEF id
  <2> QED
    BY <1>1, <2>3, <2>4, <2>5 DEF Follows
<1>4. ASSUME NEW ids \in requests, Removes(t, base, ids) PROVE Follows(base, later)
  BY <1>2, <1>4 DEF Removes, Follows
<1> QED
  BY <1>1, <1>3, <1>4 DEF Planned

-----------------------------------------------------------------------------
(* What a step leaves of the invariant. *)

\* The history only grows.
Grown ==
    /\ head \in Nat /\ head' \in Nat /\ head' >= head
    /\ \A i \in 1 .. head : commits'[i] = commits[i]

\* A step leaves the commits alone or adds one.
LEMMA GrownHistory ==
    ASSUME TypeInv
    PROVE  /\ UNCHANGED commits => Grown
           /\ \A commit : fastForward(commit) => Grown
<1>1. head \in Nat
  BY DEF TypeInv, TypeOK, head
<1>2. UNCHANGED commits => Grown
  BY <1>1 DEF Grown, head
<1>3. ASSUME NEW commit, fastForward(commit) PROVE Grown
  <2>1. head' = head + 1 /\ \A i \in 1 .. head : commits'[i] = commits[i]
    BY <1>3, AppendFacts DEF TypeInv, TypeOK, fastForward, head
  <2> QED
    BY <1>1, <2>1 DEF Grown
<1> QED
  BY <1>2, <1>3

\* HEAD does not move.
LEMMA CommitsKept ==
    ASSUME CommitsInv, UNCHANGED <<commits, confirmed>>
    PROVE  CommitsInv'
<1>1. head' = head
  BY DEF head
<1>2. DeletedStaysDeleted'
  BY <1>1 DEF CommitsInv, DeletedStaysDeleted, treeAt
<1> QED
  BY <1>1, <1>2 DEF CommitsInv

\* The next commit.
LEMMA CommitsExtended ==
    ASSUME TypeInv, CommitsInv, NEW commit, fastForward(commit), UNCHANGED confirmed,
           Whole(commit), Follows(commits[head], commit)
    PROVE  CommitsInv'
<1>1. /\ head \in Nat /\ head > 0 /\ head' = head + 1
      /\ \A i \in 1 .. head : commits'[i] = commits[i]
      /\ commits'[head + 1] = commit
  BY AppendFacts DEF TypeInv, TypeOK, fastForward, head
<1>2. \A i \in 1 .. head + 1 : i \in 1 .. head \/ i = head + 1
  BY <1>1
<1>3. \A i \in 1 .. head' : Whole(commits'[i])
  BY <1>1, <1>2 DEF CommitsInv
<1>4. ASSUME NEW i \in 1 .. head PROVE Follows(commits[i], commit)
  <2>1. Follows(commits[i], commits[head]) /\ head \in 1 .. head
    BY <1>1 DEF CommitsInv
  <2>2. /\ commits[i].state.LastID \in Nat
        /\ commits[head].state.LastID \in Nat
        /\ commit.state.LastID \in Nat
    BY <2>1 DEF CommitsInv, Whole, Describes, StateOf
  <2>3. commits[i].state.LastID <= commit.state.LastID
    BY <2>1, <2>2 DEF Follows
  <2>4. ASSUME NEW name \in commit.tree, idOf(name) <= commits[i].state.LastID
        PROVE  name \in commits[i].tree
    <3>1. idOf(name) \in Int
      BY TreeFacts DEF Whole, Describes, StateOf, IsFile, idOf
    <3>2. commits[i].state.LastID <= commits[head].state.LastID
      BY <2>1 DEF Follows
    <3>3. idOf(name) <= commits[head].state.LastID
      <4> DEFINE x == idOf(name)
                 y == commits[i].state.LastID
                 z == commits[head].state.LastID
      <4>1. x \in Int /\ y \in Int /\ z \in Int /\ x <= y /\ y <= z
        BY <2>2, <2>4, <3>1, <3>2
      <4> HIDE DEF x, y, z
      <4>2. x <= z
        BY <4>1
      <4> QED
        BY <4>2 DEF x, z
    <3> QED
      BY <2>1, <2>4, <3>3 DEF Follows
  <2> QED
    BY <2>3, <2>4 DEF Follows
<1>5. Follows(commit, commit)
  BY DEF Follows, Whole, Describes, StateOf
<1>6. \A j \in 1 .. head' : \A i \in 1 .. j : Follows(commits'[i], commits'[j])
  <2> SUFFICES ASSUME NEW j \in 1 .. head', NEW i \in 1 .. j
               PROVE  Follows(commits'[i], commits'[j])
    OBVIOUS
  <2>1. CASE j \in 1 .. head
    <3>1. i \in 1 .. head
      BY <1>1, <2>1
    <3> QED
      BY <1>1, <2>1, <3>1 DEF CommitsInv
  <2>2. CASE j = head + 1 /\ i \in 1 .. head
    BY <1>1, <1>4, <2>2
  <2>3. CASE j = head + 1 /\ i = head + 1
    BY <1>1, <1>5, <2>3
  <2> QED
    BY <1>1, <1>2, <2>1, <2>2, <2>3
<1>7. confirmed' \subseteq 1 .. commits'[head'].state.LastID
  <2>1. commits[head].state.LastID <= commit.state.LastID /\ commits[head].state.LastID \in Nat
        /\ commit.state.LastID \in Nat
    BY <1>1 DEF CommitsInv, Follows, Whole, Describes, StateOf
  <2> QED
    BY <1>1, <2>1 DEF CommitsInv
<1>8. DeletedStaysDeleted'
  <2> SUFFICES ASSUME NEW name \in commit.tree, idOf(name) \in confirmed PROVE FALSE
    BY <1>1 DEF DeletedStaysDeleted, treeAt
  <2>1. idOf(name) <= commits[head].state.LastID
    <3>1. commits[head].state.LastID \in Nat
      BY <1>1 DEF CommitsInv, Whole, Describes, StateOf
    <3>2. idOf(name) \in 1 .. commits[head].state.LastID
      BY DEF CommitsInv
    <3> QED
      BY <3>1, <3>2
  <2>2. name \in commits[head].tree
    BY <2>1 DEF Follows
  <2> QED
    BY <2>2 DEF CommitsInv, DeletedStaysDeleted, treeAt
<1> QED
  BY <1>3, <1>6, <1>7, <1>8 DEF CommitsInv

\* A plan depends on the transaction's content and on its parent only.
LEMMA PlannedSame ==
    ASSUME NEW t, NEW u, content(t) = content(u), NEW base, NEW q, NEW r, q \subseteq r,
           Planned(t, base, q)
    PROVE  Planned(u, base, r)
<1>1. t.state = u.state /\ t.changes = u.changes /\ t.removals = u.removals
  BY DEF content
<1> QED
  BY <1>1 DEF Planned, Delivers, Removes

\* HEAD has moved, and more may have been requested.
LEMMA PlannedKept ==
    ASSUME TypeInv, PlannedInv, Grown, requested \subseteq requested',
           \/ txn'.phase = "none"
           \/ /\ txn.phase # "none" /\ content(txn') = content(txn),
           orphan' = orphan \/ orphan'.parent = 0
    PROVE  PlannedInv'
<1>1. /\ txn.phase # "none" => txn.parent \in 1 .. head
      /\ orphan.parent # 0 => orphan.parent \in 1 .. head
  BY DEF TypeInv, TypeOK, validTransaction, Grown
<1>2. txn'.phase # "none" => Planned(txn', commits'[txn'.parent], requested')
  <2> SUFFICES ASSUME txn'.phase # "none" PROVE Planned(txn', commits'[txn'.parent], requested')
    OBVIOUS
  <2>1. txn.phase # "none" /\ content(txn) = content(txn')
    OBVIOUS
  <2>2. txn'.parent = txn.parent /\ commits'[txn.parent] = commits[txn.parent]
    BY <1>1, <2>1 DEF content, Grown
  <2>3. Planned(txn, commits[txn.parent], requested)
    BY <2>1 DEF PlannedInv
  <2> QED
    BY <2>1, <2>2, <2>3, PlannedSame
<1>3. orphan'.parent # 0 => Planned(orphan', commits'[orphan'.parent], requested')
  <2> SUFFICES ASSUME orphan'.parent # 0 PROVE Planned(orphan', commits'[orphan'.parent], requested')
    OBVIOUS
  <2>1. orphan' = orphan /\ orphan.parent # 0
    OBVIOUS
  <2>2. commits'[orphan.parent] = commits[orphan.parent]
    BY <1>1, <2>1 DEF Grown
  <2>3. Planned(orphan, commits[orphan.parent], requested)
    BY <2>1 DEF PlannedInv
  <2>4. content(orphan) = content(orphan)
    OBVIOUS
  <2> QED
    BY <2>1, <2>2, <2>3, <2>4, PlannedSame
<1> QED
  BY <1>2, <1>3 DEF PlannedInv

\* A call's snapshot is still there when the history has grown.
LEMMA ResolvedSame ==
    ASSUME TypeInv, Grown, NEW d, Resolved(d, commits)
    PROVE  Resolved(d, commits')
<1>1. Len(commits) \in Nat /\ Len(commits') \in Nat /\ Len(commits') >= Len(commits)
      /\ \A i \in 1 .. Len(commits) : commits'[i] = commits[i]
  BY DEF Grown, head
<1>2. CASE d.st \in {"resolve", "lock"}
  <2>1. d.commit \in 1 .. Len(commits') /\ commits'[d.commit] = commits[d.commit]
    BY <1>1, <1>2 DEF Resolved
  <2> QED
    BY <1>2, <2>1 DEF Resolved
<1>3. CASE d.st \notin {"resolve", "lock"}
  BY <1>3 DEF Resolved
<1> QED
  BY <1>2, <1>3

\* A call that goes on knows its snapshot, unless the store is poisoned.
CallsGoOn ==
    \/ failure'
    \/ \A s \in Sessions : \/ deletion'[s] = deletion[s] /\ failure' = failure
                           \/ Resolved(deletion'[s], commits)

\* The same for all calls.
LEMMA ResolvedKept ==
    ASSUME TypeInv, ResolvedInv, Grown, CallsGoOn
    PROVE  ResolvedInv'
<1>1. ASSUME ~failure', NEW s \in Sessions PROVE Resolved(deletion'[s], commits')
  <2>1. Resolved(deletion'[s], commits)
    BY <1>1 DEF ResolvedInv, CallsGoOn
  <2> QED
    BY <2>1, ResolvedSame
<1> QED
  BY <1>1 DEF ResolvedInv

\* The deletion at work is the same, on a longer history.
LEMMA RemovalKept ==
    ASSUME TypeInv, RemovalInv, Grown,
           \/ txn'.phase = "none"
           \/ /\ txn.phase # "none" /\ content(txn') = content(txn) /\ txn'.who = txn.who
              /\ \A s \in Sessions : s = txn.who => deletion'[s] = deletion[s]
    PROVE  RemovalInv'
<1> SUFFICES ASSUME NEW s \in Sessions, txn'.phase # "none", txn'.who = s
             PROVE  /\ deletion'[s].st = "committing"
                    /\ deletion'[s].ids \subseteq 1 .. commits'[txn'.parent].state.LastID
                    /\ Removes(txn', commits'[txn'.parent], deletion'[s].ids)
  BY DEF RemovalInv
<1>1. /\ txn.phase # "none" /\ txn.who = s /\ deletion'[s] = deletion[s]
      /\ txn'.parent = txn.parent /\ txn'.state = txn.state
      /\ txn'.changes = txn.changes /\ txn'.removals = txn.removals
  BY DEF content
<1>2. commits'[txn.parent] = commits[txn.parent]
  BY <1>1 DEF TypeInv, TypeOK, validTransaction, Grown
<1>3. /\ deletion[s].st = "committing"
      /\ deletion[s].ids \subseteq 1 .. commits[txn.parent].state.LastID
      /\ Removes(txn, commits[txn.parent], deletion[s].ids)
  BY <1>1 DEF RemovalInv
<1> QED
  BY <1>1, <1>2, <1>3 DEF Removes

\* Steps that move no commit: the transaction goes on or ends, calls go on.
LEMMA WholeKept ==
    ASSUME TypeInv, WholeInv, UNCHANGED <<commits, confirmed, orphan>>,
           requested \subseteq requested', SizesInv', CallsGoOn,
           \/ txn'.phase = "none"
           \/ /\ txn.phase # "none" /\ content(txn') = content(txn) /\ txn'.who = txn.who
              /\ \A s \in Sessions : s = txn.who => deletion'[s] = deletion[s]
    PROVE  WholeInv'
<1>1. Grown
  BY GrownHistory
<1>2. CommitsInv'
  BY CommitsKept DEF WholeInv
<1>3. PlannedInv'
  BY <1>1, PlannedKept DEF WholeInv
<1>4. ResolvedInv'
  BY <1>1, ResolvedKept DEF WholeInv
<1>5. RemovalInv'
  BY <1>1, RemovalKept DEF WholeInv
<1> QED
  BY <1>2, <1>3, <1>4, <1>5 DEF WholeInv

\* Steps that add a commit and tell no one.
LEMMA WholeExtended ==
    ASSUME TypeInv, WholeInv, NEW commit, fastForward(commit),
           Whole(commit), Follows(commits[head], commit),
           UNCHANGED <<confirmed, requested, staged, deletion, failure>>,
           orphan' = orphan \/ orphan'.parent = 0,
           content(txn') = content(txn), txn'.who = txn.who,
           txn'.phase = "none" <=> txn.phase = "none"
    PROVE  WholeInv'
<1>1. Grown
  BY GrownHistory
<1>2. CommitsInv'
  BY CommitsExtended DEF WholeInv
<1>3. PlannedInv'
  BY <1>1, PlannedKept DEF WholeInv
<1>4. ResolvedInv'
  BY <1>1, ResolvedKept DEF WholeInv, CallsGoOn
<1>5. RemovalInv'
  BY <1>1, RemovalKept DEF WholeInv
<1>6. SizesInv'
  BY DEF WholeInv, SizesInv
<1> QED
  BY <1>2, <1>3, <1>4, <1>5, <1>6 DEF WholeInv

\* A transaction that becomes a commit.
LEMMA WholeCommit ==
    ASSUME TypeInv, WholeInv, NEW t, t.parent \in 1 .. head, fastForward(commitOf(t)),
           Planned(t, commits[t.parent], requested)
    PROVE  Whole(commitOf(t)) /\ Follows(commits[head], commitOf(t))
<1> DEFINE commit == commitOf(t)
           base == commits[head]
<1>1. /\ commit.state = t.state /\ commit.parent = t.parent
      /\ commit.tree = (commits[t.parent].tree \cup t.changes) \ t.removals
  BY DEF commitOf, treeAt
<1>2. head = t.parent
  BY <1>1 DEF fastForward
<1>3. Whole(base)
  BY <1>2 DEF WholeInv, CommitsInv
<1> HIDE DEF commit, base
<1>4. /\ Planned(t, base, requested) /\ commit.state = t.state
      /\ commit.tree = (base.tree \cup t.changes) \ t.removals
  BY <1>1, <1>2 DEF base
<1>5. Whole(commit) /\ Follows(base, commit)
  BY <1>3, <1>4, PlannedFollows
<1> QED
  BY <1>5 DEF commit, base

\* No call of DeleteAs has a snapshot that it does not know.
LEMMA NothingResolved == Resolved(NoDeletion, commits)
BY DEF Resolved, NoDeletion

\* The steps of SMTP connections.
LEMMA ConnWhole ==
    ASSUME TypeInv, HistoryInv, WholeInv, NEW c \in Conns, ConnNext(c)
    PROVE  WholeInv'
<1> USE DEF disk, memory, calls, clients
<1>1. /\ DOMAIN txn = DOMAIN NoTransaction
      /\ DOMAIN NoTransaction =
            {"phase", "who", "parent", "state", "changes", "removals", "Day", "bytes"}
      /\ NoTransaction.phase = "none" /\ NoTransaction.changes = {} /\ NoTransaction.removals = {}
  BY TransactionFields DEF NoTransaction
<1>2. /\ staged \in [Conns -> [st : {"idle", "staging", "staged", "publishing"},
                               reserved : Nat, size : Nat]]
      /\ MaxMessage \in Nat /\ SizesInv
  BY BudgetAssumption DEF TypeInv, TypeOK, StagedMessages, WholeInv
<1>3. ASSUME UNCHANGED <<commits, confirmed, orphan, requested, deletion, failure, txn>>,
             SizesInv'
      PROVE  WholeInv'
  <2>1. content(txn') = content(txn) /\ CallsGoOn
    BY <1>3 DEF CallsGoOn
  <2> QED
    BY <1>3, <2>1, WholeKept
<1>4. ASSUME NEW d, d.size <= MaxMessage, staged' = [staged EXCEPT ![c] = d] PROVE SizesInv'
  BY <1>2, <1>4 DEF SizesInv
<1>5. CASE Stage(c)
  <2> DEFINE d == [st |-> "staging", reserved |-> minimumReceiptCharge, size |-> 0]
  <2>1. staged' = [staged EXCEPT ![c] = d] /\ d.size <= MaxMessage
    BY <1>2, <1>5 DEF Stage
  <2> HIDE DEF d
  <2>2. SizesInv'
    BY <1>4, <2>1
  <2> QED
    BY <1>3, <1>5, <2>2 DEF Stage
<1>6. ASSUME NEW n \in 1 .. MaxMessage, QuotaRead(c, n) PROVE WholeInv'
  <2> DEFINE d == [st |-> "staging", reserved |-> chargeOf(staged[c].size + n),
                   size |-> staged[c].size + n]
  <2>1. staged' = [staged EXCEPT ![c] = d] /\ d.size <= MaxMessage
    BY <1>6 DEF QuotaRead
  <2> HIDE DEF d
  <2>2. SizesInv'
    BY <1>4, <2>1
  <2> QED
    BY <1>3, <1>6, <2>2 DEF QuotaRead
<1>7. ASSUME NEW st, staged' = [staged EXCEPT ![c].st = st] PROVE SizesInv'
  BY <1>2, <1>7 DEF SizesInv
<1>8. CASE StageDone(c)
  BY <1>3, <1>7, <1>8 DEF StageDone
<1>9. CASE Discard(c)
  <2>1. NoMessageStaged.size <= MaxMessage
    BY <1>2 DEF NoMessageStaged
  <2>2. SizesInv'
    BY <1>4, <1>9, <2>1 DEF Discard
  <2> QED
    BY <1>3, <1>9, <2>2 DEF Discard
<1>10. CASE WriteReceipt(c)
  <2>1. content(txn') = content(txn) /\ txn'.who = txn.who /\ txn.phase # "none"
        /\ UNCHANGED <<commits, confirmed, orphan, requested, deletion, staged>> /\ CallsGoOn
    BY <1>1, <1>10 DEF WriteReceipt, content, CallsGoOn
  <2>2. SizesInv'
    BY <1>2, <2>1 DEF SizesInv
  <2> QED
    BY <2>1, <2>2, WholeKept
<1>11. CASE SyncReceipt(c)
  <2>1. content(txn') = content(txn) /\ txn'.who = txn.who /\ txn.phase # "none"
        /\ UNCHANGED <<commits, confirmed, orphan, requested, deletion>> /\ CallsGoOn
    BY <1>1, <1>11 DEF SyncReceipt, content, CallsGoOn
  <2>2. SizesInv'
    BY <1>2, <1>11 DEF SizesInv, SyncReceipt
  <2> QED
    BY <2>1, <2>2, WholeKept
<1>12. CASE ReceiptFails(c)
  <2>1. txn'.phase = "none" /\ UNCHANGED <<commits, confirmed, orphan, requested, deletion>>
        /\ CallsGoOn
    BY <1>1, <1>12 DEF ReceiptFails, CallsGoOn
  <2>2. SizesInv'
    BY <1>7, <1>12 DEF ReceiptFails
  <2> QED
    BY <2>1, <2>2, WholeKept
<1>13. CASE PublishStart(c)
  <2> DEFINE size == staged[c].size
  <2>1. /\ UNCHANGED <<commits, confirmed, orphan, requested, deletion, failure>> /\ up
        /\ ~failure /\ txn'.who = c /\ txn'.parent = headID /\ txn'.removals = {}
        /\ txn'.state = publishState(state, size)
        /\ txn'.changes = {messagePath(state.LastID + 1, size)}
        /\ state.LastID # MaxID
    BY <1>1, <1>13 DEF PublishStart, canPublish
  <2>2. size \in 0 .. MaxMessage
    BY <1>2 DEF SizesInv
  <2> DEFINE base == commits[headID]
  <2>3. headID \in 1 .. head /\ state = base.state /\ Whole(base)
    BY <2>1 DEF TypeInv, TypeOK, HistoryInv, WholeInv, CommitsInv, head
  <2>4. commits' = commits /\ commits'[txn'.parent] = base
    BY <2>1
  <2>5. Describes(publishState(state, size), base.tree \cup {messagePath(state.LastID + 1, size)})
    <3> HIDE DEF size, base
    <3> QED
      BY <2>1, <2>2, <2>3, ReceiptWhole DEF Whole
  <2>6. Delivers(txn', base)
    BY <2>1, <2>2, <2>3 DEF Delivers, publishState
  <2>7. Planned(txn', base, requested')
    <3>1. (base.tree \cup txn'.changes) \ txn'.removals
             = base.tree \cup {messagePath(state.LastID + 1, size)}
      BY <2>1
    <3> QED
      BY <2>1, <2>5, <2>6, <3>1 DEF Planned
  <2>8. PlannedInv'
    <3>1. orphan'.parent # 0 => Planned(orphan', commits'[orphan'.parent], requested')
      BY <2>1 DEF WholeInv, PlannedInv
    <3> QED
      BY <2>4, <2>7, <3>1 DEF PlannedInv
  <2>9. RemovalInv'
    BY <2>1, ConnsAssumption DEF RemovalInv
  <2>10. CommitsInv'
    BY <2>1, CommitsKept DEF WholeInv
  <2>11. ResolvedInv'
    BY <2>1 DEF WholeInv, ResolvedInv
  <2>12. SizesInv'
    BY <1>7, <1>13 DEF PublishStart
  <2> QED
    BY <2>8, <2>9, <2>10, <2>11, <2>12 DEF WholeInv
<1> QED
  BY <1>5, <1>6, <1>8, <1>9, <1>10, <1>11, <1>12, <1>13 DEF ConnNext

\* The steps of POP3 sessions.
LEMMA SessionWhole ==
    ASSUME TypeInv, HistoryInv, DeletionInv, WholeInv, NEW s \in Sessions, SessionNext(s)
    PROVE  WholeInv'
<1> USE DEF disk, memory, calls, clients
<1>1. /\ DOMAIN deletion = Sessions
      /\ DOMAIN deletion[s] = {"st", "ids", "commit", "state", "messages"}
      /\ DOMAIN NoDeletion = {"st", "ids", "commit", "state", "messages"}
  BY DEF DeletionInv, NoDeletion
<1>2. ASSUME UNCHANGED <<commits, confirmed, orphan, staged, failure, txn>>,
             requested \subseteq requested', deletion[s].st # "committing",
             NEW d, deletion' = [deletion EXCEPT ![s] = d], failure \/ Resolved(d, commits)
      PROVE  WholeInv'
  <2>1. SizesInv'
    BY <1>2 DEF SizesInv, WholeInv
  <2>2. CallsGoOn
    BY <1>1, <1>2 DEF CallsGoOn
  <2>3. txn.phase # "none" =>
            \A r \in Sessions : r = txn.who => deletion'[r] = deletion[r]
    BY <1>1, <1>2 DEF WholeInv, RemovalInv
  <2>4. content(txn') = content(txn) /\ txn'.who = txn.who
    BY <1>2
  <2> QED
    BY <1>2, <2>1, <2>2, <2>3, <2>4, WholeKept
<1>3. ASSUME NEW ids \in Requests, DeleteAs(s, ids) PROVE WholeInv'
  <2> DEFINE d == [NoDeletion EXCEPT !.st = "snapshot", !.ids = ids]
  <2>1. d.st = "snapshot"
    BY <1>1
  <2>2. deletion' = [deletion EXCEPT ![s] = d] /\ requested \subseteq requested'
        /\ deletion[s].st = "idle"
        /\ UNCHANGED <<commits, confirmed, orphan, staged, failure, txn>>
    BY <1>3 DEF DeleteAs
  <2> HIDE DEF d
  <2>3. Resolved(d, commits)
    BY <2>1 DEF Resolved
  <2> QED
    BY <1>2, <2>2, <2>3
<1>4. CASE Snapshot(s)
  <2> DEFINE d == [deletion[s] EXCEPT !.st = "resolve", !.commit = headID, !.state = state]
  <2>1. d.st = "resolve" /\ d.commit = headID /\ d.state = state
    BY <1>1
  <2>2. deletion' = [deletion EXCEPT ![s] = d] /\ deletion[s].st = "snapshot" /\ up
        /\ UNCHANGED <<commits, confirmed, orphan, staged, failure, txn, requested>>
    BY <1>1, <1>4 DEF Snapshot
  <2>3. headID \in 1 .. Len(commits) /\ (failure \/ state = commits[headID].state)
    BY <2>2 DEF TypeInv, TypeOK, head, HistoryInv
  <2> HIDE DEF d
  <2>4. failure \/ Resolved(d, commits)
    BY <2>1, <2>3 DEF Resolved
  <2> QED
    BY <1>2, <2>2, <2>4
<1>5. CASE Resolve(s)
  <2> DEFINE commit == deletion[s].commit
             tree == commits[commit].tree
             ids == deletion[s].ids
             st == deletion[s].state
             index == buildDirectoryIndex(st.Directories)
             found(id) == messageByID(tree, index, st.LastID, id)
             messages == UNION {found(id) : id \in ids}
             d == [deletion[s] EXCEPT !.st = "lock", !.messages = messages]
  <2>1. deletion' = [deletion EXCEPT ![s] = d] /\ deletion[s].st = "resolve"
        /\ ids \subseteq 1 .. st.LastID
        /\ UNCHANGED <<commits, confirmed, orphan, staged, failure, txn, requested>>
    BY <1>1, <1>5 DEF Resolve, treeAt
  <2>2. CASE failure
    <3> HIDE DEF d
    <3> QED
      BY <1>2, <2>1, <2>2
  <2>3. CASE ~failure
    <3>1. commit \in 1 .. Len(commits) /\ st = commits[commit].state
      BY <2>1, <2>3 DEF WholeInv, ResolvedInv, Resolved
    <3>2. st.LastID \in 0 .. MaxID /\ IsTree(tree, st.LastID) /\ st.Directories = countsOf(tree)
      BY <3>1 DEF WholeInv, CommitsInv, Whole, Describes, StateOf, head
    <3>3. /\ d.st = "lock" /\ d.ids = ids /\ d.messages = messages
          /\ d.commit = commit /\ d.state = st
      <4> HIDE DEF messages
      <4> QED
        BY <1>1
    <3> HIDE DEF st, tree, commit
    <3>4. ASSUME NEW id \in ids PROVE found(id) = {m \in messagesOf(tree) : m.ID = id}
      <4>1. id \in 1 .. MaxID
        BY <2>1, <3>2, MaxIDAssumption
      <4> HIDE DEF ids
      <4> QED
        BY <3>2, <4>1, MessageByIDFinds
    <3> HIDE DEF found, ids
    <3>5. messages = {m \in messagesOf(tree) : m.ID \in ids}
      BY <3>4
    <3>6. messages = messagesOf(namedFiles(tree, ids))
      BY <3>5 DEF messagesOf, namedFiles, idOf
    <3> HIDE DEF messages, d
    <3>7. Resolved(d, commits)
      BY <2>1, <3>1, <3>3, <3>6 DEF Resolved, tree
    <3> QED
      BY <1>2, <2>1, <3>7
  <2> QED
    BY <2>2, <2>3
<1>6. CASE ResolveFails(s) \/ DeleteRefused(s)
  <2>1. deletion' = [deletion EXCEPT ![s] = NoDeletion] /\ deletion[s].st # "committing"
        /\ UNCHANGED <<commits, confirmed, orphan, staged, failure, txn, requested>>
    BY <1>6 DEF ResolveFails, DeleteRefused
  <2> QED
    BY <1>2, <2>1, NothingResolved
<1>7. CASE Retry(s)
  <2> DEFINE d == [deletion[s] EXCEPT !.st = "snapshot"]
  <2>1. d.st = "snapshot"
    BY <1>1
  <2>2. deletion' = [deletion EXCEPT ![s] = d] /\ deletion[s].st = "lock"
        /\ UNCHANGED <<commits, confirmed, orphan, staged, failure, txn, requested>>
    BY <1>1, <1>7 DEF Retry
  <2> HIDE DEF d
  <2>3. Resolved(d, commits)
    BY <2>1 DEF Resolved
  <2> QED
    BY <1>2, <2>2, <2>3
\* What a session at "lock" knows when no one else has moved HEAD.
<1>8. ASSUME deletion[s].st = "lock", up, ~failure, headID = deletion[s].commit
      PROVE  /\ headID \in 1 .. head /\ state = commits[headID].state /\ Whole(commits[headID])
             /\ deletion[s].ids \subseteq 1 .. state.LastID
             /\ deletion[s].messages = messagesOf(namedFiles(commits[headID].tree, deletion[s].ids))
  BY <1>8 DEF TypeInv, TypeOK, HistoryInv, WholeInv, CommitsInv, ResolvedInv, Resolved, head
<1>9. CASE DeleteNothing(s)
  <2> DEFINE ids == deletion[s].ids
             base == commits[headID]
  <2>1. /\ deletion' = [deletion EXCEPT ![s] = NoDeletion] /\ deletion[s].st = "lock"
        /\ UNCHANGED <<commits, orphan, staged, failure, txn, requested>>
        /\ confirmed' = confirmed \cup ids /\ deletion[s].messages = {}
        /\ txn.phase = "none" /\ txn'.phase = "none"
    BY <1>9 DEF DeleteNothing, muFree
  <2>2. /\ headID \in 1 .. head /\ ids \subseteq 1 .. base.state.LastID
        /\ messagesOf(namedFiles(base.tree, ids)) = {}
    BY <1>8, <1>9 DEF DeleteNothing
  <2>3. namedFiles(base.tree, ids) = {}
    BY <2>2 DEF messagesOf
  <2>4. Follows(base, commits[head]) /\ head \in 1 .. head
    <3>1. head \in 1 .. head
      BY DEF TypeInv, TypeOK, head
    <3> QED
      BY <2>2, <3>1 DEF WholeInv, CommitsInv
  <2>5. base.state.LastID \in Nat /\ commits[head].state.LastID \in Nat
        /\ base.state.LastID <= commits[head].state.LastID
    BY <2>2, <2>4 DEF WholeInv, CommitsInv, Whole, Describes, StateOf, Follows
  <2>6. ids \subseteq 1 .. commits[head].state.LastID
    <3> HIDE DEF ids
    <3> QED
      BY <2>2, <2>5
  <2>7. ASSUME NEW name \in commits[head].tree, idOf(name) \in ids PROVE FALSE
    <3>1. idOf(name) <= base.state.LastID
      <4>1. idOf(name) \in 1 .. base.state.LastID
        BY <2>2, <2>7
      <4> QED
        BY <2>5, <4>1
    <3>2. name \in base.tree
      BY <2>4, <3>1 DEF Follows
    <3> QED
      BY <2>3, <2>7, <3>2 DEF namedFiles
  <2>8. CommitsInv'
    <3>1. head' = head /\ commits' = commits
      BY <2>1 DEF head
    <3>2. DeletedStaysDeleted'
      BY <2>1, <2>7, <3>1 DEF WholeInv, CommitsInv, DeletedStaysDeleted, treeAt
    <3>3. confirmed' \subseteq 1 .. commits'[head'].state.LastID
      BY <2>1, <2>6, <3>1 DEF WholeInv, CommitsInv
    <3> QED
      BY <3>1, <3>2, <3>3 DEF WholeInv, CommitsInv
  <2>9. Grown
    BY <2>1, GrownHistory
  <2>10. PlannedInv'
    BY <2>1, <2>9, PlannedKept DEF WholeInv
  <2>11. ResolvedInv'
    BY <1>1, <2>1, <2>9, ResolvedKept, NothingResolved DEF WholeInv, CallsGoOn
  <2>12. RemovalInv'
    BY <2>1 DEF RemovalInv
  <2>13. SizesInv'
    BY <2>1 DEF WholeInv, SizesInv
  <2> QED
    BY <2>8, <2>10, <2>11, <2>12, <2>13 DEF WholeInv
<1>10. CASE DeleteStart(s)
  <2> DEFINE ids == deletion[s].ids
             base == commits[headID]
             part == namedFiles(base.tree, ids)
             d == [deletion[s] EXCEPT !.st = "committing"]
  <2>1. /\ DOMAIN NoTransaction =
              {"phase", "who", "parent", "state", "changes", "removals", "Day", "bytes"}
        /\ NoTransaction.changes = {}
    BY TransactionFields DEF NoTransaction
  <2>2. /\ deletion' = [deletion EXCEPT ![s] = d] /\ deletion[s].st = "lock"
        /\ UNCHANGED <<commits, orphan, staged, failure, confirmed, requested>>
        /\ txn'.phase = "commit" /\ txn'.who = s /\ txn'.parent = headID /\ txn'.changes = {}
        /\ txn'.state = deleteState(state, deletion[s].messages)
        /\ txn'.removals = pathsOf(deletion[s].messages)
    BY <1>1, <1>10, <2>1 DEF DeleteStart
  <2>3. /\ headID \in 1 .. head /\ state = base.state /\ Whole(base)
        /\ ids \subseteq 1 .. base.state.LastID
        /\ deletion[s].messages = messagesOf(part)
    BY <1>8, <1>10 DEF DeleteStart
  <2>4. d.st = "committing" /\ d.ids = ids
    BY <1>1
  <2>5. ids \in requested
    BY <2>2 DEF DeletionInv
  <2> HIDE DEF d
  <2>6. deletion'[s] = d /\ commits' = commits /\ commits'[txn'.parent] = base
    BY <1>1, <2>2
  <2>7. Describes(deleteState(state, messagesOf(part)), base.tree \ part)
        /\ pathsOf(messagesOf(part)) = part
    <3> HIDE DEF ids, base
    <3> QED
      BY <2>3, RemovalWhole DEF Whole
  <2>8. txn'.removals = part /\ txn'.state = deleteState(state, messagesOf(part))
    BY <2>2, <2>3, <2>7
  <2>9. txn'.state.LastID = base.state.LastID
    BY <2>3, <2>8 DEF deleteState
  <2>10. Removes(txn', base, ids)
    BY <2>2, <2>8, <2>9 DEF Removes
  <2>11. Planned(txn', base, requested')
    <3>1. (base.tree \cup txn'.changes) \ txn'.removals = base.tree \ part
      BY <2>2, <2>8
    <3>2. Describes(txn'.state, (base.tree \cup txn'.changes) \ txn'.removals)
      BY <2>7, <2>8, <3>1
    <3>3. ids \in requested'
      BY <2>2, <2>5
    <3> HIDE DEF base, ids
    <3> QED
      BY <2>10, <3>2, <3>3 DEF Planned
  <2>12. PlannedInv'
    <3>1. orphan'.parent # 0 => Planned(orphan', commits'[orphan'.parent], requested')
      BY <2>2 DEF WholeInv, PlannedInv
    <3> QED
      BY <2>6, <2>11, <3>1 DEF PlannedInv
  <2>13. RemovalInv'
    <3>1. /\ deletion'[s].st = "committing"
          /\ deletion'[s].ids \subseteq 1 .. commits'[txn'.parent].state.LastID
          /\ Removes(txn', commits'[txn'.parent], deletion'[s].ids)
      BY <2>3, <2>4, <2>6, <2>10
    <3> QED
      BY <2>2, <3>1 DEF RemovalInv
  <2>14. CommitsInv'
    BY <2>2, CommitsKept DEF WholeInv
  <2>15. ResolvedInv'
    <3>1. Resolved(d, commits)
      BY <2>4 DEF Resolved
    <3>2. Grown
      BY <2>2, GrownHistory
    <3> QED
      BY <1>1, <2>2, <3>1, <3>2, ResolvedKept DEF WholeInv, CallsGoOn
  <2>16. SizesInv'
    BY <2>2 DEF WholeInv, SizesInv
  <2> QED
    BY <2>12, <2>13, <2>14, <2>15, <2>16 DEF WholeInv
<1> QED
  BY <1>3, <1>4, <1>5, <1>6, <1>7, <1>9, <1>10 DEF SessionNext

\* The steps of commitChanges.
LEMMA CommitWhole ==
    ASSUME TypeInv, HistoryInv, WholeInv, CommitNext
    PROVE  WholeInv'
<1> USE DEF disk, memory, calls, clients
<1>1. /\ DOMAIN txn = DOMAIN NoTransaction
      /\ DOMAIN NoTransaction =
            {"phase", "who", "parent", "state", "changes", "removals", "Day", "bytes"}
      /\ NoTransaction.phase = "none"
  BY TransactionFields DEF NoTransaction
<1>2. txn.phase # "none" => txn.parent \in 1 .. head
  BY DEF TypeInv, TypeOK, validTransaction, head
\* The return of the call that holds the transaction.
<1>3. ASSUME returned, failure' \/ UNCHANGED failure
      PROVE  txn'.phase = "none" /\ SizesInv' /\ CallsGoOn
  <2>1. NoMessageStaged.size <= MaxMessage
    BY BudgetAssumption DEF NoMessageStaged
  <2>2. SizesInv'
    BY <1>3, <2>1 DEF returned, SizesInv, WholeInv
  <2> QED
    BY <1>1, <1>3, <2>2, NothingResolved DEF returned, CallsGoOn
<1>4. ASSUME UNCHANGED <<commits, confirmed, orphan, requested, deletion, staged, failure>>,
             txn.phase # "none", content(txn') = content(txn), txn'.who = txn.who
      PROVE  WholeInv'
  <2>1. SizesInv' /\ CallsGoOn
    BY <1>4 DEF SizesInv, WholeInv, CallsGoOn
  <2> QED
    BY <1>4, <2>1, WholeKept
<1>5. CASE StartImport
  BY <1>1, <1>4, <1>5 DEF StartImport, content
<1>6. CASE CheckpointSkipped
  BY <1>1, <1>4, <1>6 DEF CheckpointSkipped, content
<1>7. CASE RefuseCommit \/ ImportFails
  <2>1. returned /\ UNCHANGED <<commits, confirmed, orphan, requested>>
        /\ (failure' \/ UNCHANGED failure)
    BY <1>7 DEF RefuseCommit, ImportFails
  <2> QED
    BY <1>3, <2>1, WholeKept
<1>8. CASE Checkpoint
  <2> DEFINE commit == commitOf(txn)
  <2>1. /\ fastForward(commit) /\ txn.phase = "import" /\ txn'.phase = "landed"
        /\ content(txn') = content(txn) /\ txn'.who = txn.who
        /\ UNCHANGED <<confirmed, orphan, requested, deletion, staged, failure>>
    BY <1>1, <1>8 DEF Checkpoint, content
  <2>2. Whole(commit) /\ Follows(commits[head], commit)
    BY <1>2, <2>1, WholeCommit DEF WholeInv, PlannedInv
  <2> HIDE DEF commit
  <2> QED
    BY <2>1, <2>2, WholeExtended
<1>9. CASE CommitDone
  <2> DEFINE base == commits[txn.parent]
  <2>1. /\ returned /\ UNCHANGED <<commits, orphan, requested, failure>>
        /\ txn.phase = "landed" /\ head = txn.parent + 1
        /\ confirmed' = confirmed \cup
              (IF txn.who \in Sessions THEN deletion[txn.who].ids ELSE {})
    BY <1>9 DEF CommitDone, verified
  <2>2. SizesInv' /\ txn'.phase = "none" /\ CallsGoOn
    BY <1>3, <2>1
  <2>3. /\ txn.parent \in 1 .. head
        /\ commits[head].state = txn.state
        /\ commits[head].tree = (base.tree \cup txn.changes) \ txn.removals
    BY <1>2, <2>1 DEF HistoryInv, commitOf, treeAt
  <2>4. ASSUME NEW s \in Sessions, txn.who = s
        PROVE  /\ deletion[s].ids \subseteq 1 .. commits[head].state.LastID
               /\ \A name \in commits[head].tree : idOf(name) \notin deletion[s].ids
    <3>1. /\ deletion[s].ids \subseteq 1 .. base.state.LastID
          /\ Removes(txn, base, deletion[s].ids)
      BY <2>1, <2>4 DEF WholeInv, RemovalInv
    <3> QED
      BY <2>3, <3>1 DEF Removes, namedFiles
  <2>5. CommitsInv'
    <3>1. head' = head /\ commits' = commits
      BY <2>1 DEF head
    <3>2. DeletedStaysDeleted'
      BY <2>1, <2>4, <3>1 DEF WholeInv, CommitsInv, DeletedStaysDeleted, treeAt
    <3>3. confirmed' \subseteq 1 .. commits'[head'].state.LastID
      BY <2>1, <2>4, <3>1 DEF WholeInv, CommitsInv
    <3> QED
      BY <3>1, <3>2, <3>3 DEF WholeInv, CommitsInv
  <2>6. Grown
    BY <2>1, GrownHistory
  <2>7. PlannedInv'
    BY <2>1, <2>2, <2>6, PlannedKept DEF WholeInv
  <2>8. ResolvedInv'
    BY <2>2, <2>6, ResolvedKept DEF WholeInv
  <2>9. RemovalInv'
    BY <2>2 DEF RemovalInv
  <2> QED
    BY <2>2, <2>5, <2>7, <2>8, <2>9 DEF WholeInv
<1> QED
  BY <1>5, <1>6, <1>7, <1>8, <1>9 DEF CommitNext

\* Stops, starts and the outside world; here the stream must not be cut.
LEMMA EnvironmentWhole ==
    ASSUME ~CutBetweenCommands, TypeInv, HistoryInv, WholeInv, EnvironmentNext
    PROVE  WholeInv'
<1> USE DEF disk, memory, calls, clients
<1>1. /\ NoTransaction.phase = "none" /\ NoTransaction.parent = 0
      /\ txn.phase # "none" => txn.parent \in 1 .. head
      /\ orphan.parent # 0 => orphan.parent \in 1 .. head
      /\ head \in 1 .. head
  BY DEF NoTransaction, TypeInv, TypeOK, validTransaction, head
<1>2. SizesInv
  BY DEF WholeInv
<1>3. CASE IdleClose \/ Close \/ Maintain \/ Tick \/ Start
  <2>1. UNCHANGED <<commits, confirmed, orphan, requested, deletion, staged, txn>>
    BY <1>3 DEF IdleClose, Close, Maintain, Tick, Start
  <2>2. SizesInv' /\ content(txn') = content(txn) /\ txn'.who = txn.who
    BY <1>2, <2>1 DEF SizesInv
  <2>3. CallsGoOn
    BY <1>3, <2>1 DEF IdleClose, Close, Maintain, Tick, Start, CallsGoOn
  <2> QED
    BY <2>1, <2>2, <2>3, WholeKept
<1>4. CASE Crash
  <2>1. /\ UNCHANGED <<commits, confirmed, requested>>
        /\ txn' = NoTransaction /\ orphan' \in {orphan} \cup leftovers
        /\ staged' = [c \in Conns |-> NoMessageStaged]
        /\ deletion' = [s \in Sessions |-> NoDeletion]
    BY <1>4 DEF Crash
  <2>2. Grown
    BY <2>1, GrownHistory
  <2>3. CommitsInv'
    BY <2>1, CommitsKept DEF WholeInv
  <2>4. orphan' = orphan \/ orphan' = NoTransaction \/ (orphan' = txn /\ txn.phase # "none")
    BY <2>1 DEF leftovers
  <2>5. PlannedInv'
    <3>1. CASE orphan' = orphan \/ orphan' = NoTransaction
      BY <1>1, <2>1, <2>2, <3>1, PlannedKept DEF WholeInv
    <3>2. CASE orphan' = txn /\ txn.phase # "none"
      <4>1. Planned(txn, commits[txn.parent], requested)
        BY <3>2 DEF WholeInv, PlannedInv
      <4> QED
        BY <1>1, <2>1, <3>2, <4>1 DEF PlannedInv
    <3> QED
      BY <2>4, <3>1, <3>2
  <2>6. ResolvedInv'
    BY <2>1, <2>2, ResolvedKept, NothingResolved DEF WholeInv, CallsGoOn
  <2>7. RemovalInv'
    BY <1>1, <2>1 DEF RemovalInv
  <2>8. SizesInv'
    BY <2>1, BudgetAssumption DEF SizesInv, NoMessageStaged
  <2> QED
    BY <2>3, <2>5, <2>6, <2>7, <2>8 DEF WholeInv
<1>5. CASE OrphanEOF
  <2>1. /\ UNCHANGED <<txn, staged, deletion, failure, confirmed, requested>>
        /\ orphan' = NoTransaction /\ orphan.parent # 0
    BY <1>5 DEF OrphanEOF
  <2>2. content(txn') = content(txn) /\ txn'.who = txn.who /\ orphan'.parent = 0
    BY <1>1, <2>1
  <2>3. CASE UNCHANGED commits
    <3>1. Grown
      BY <2>3, GrownHistory
    <3>2. CommitsInv'
      BY <2>1, <2>3, CommitsKept DEF WholeInv
    <3>3. PlannedInv'
      BY <2>1, <2>2, <3>1, PlannedKept DEF WholeInv
    <3>4. ResolvedInv' /\ RemovalInv' /\ SizesInv'
      BY <2>1, <2>3 DEF WholeInv, ResolvedInv, RemovalInv, SizesInv
    <3> QED
      BY <3>2, <3>3, <3>4 DEF WholeInv
  <2>4. CASE fastForward(commitOf(orphan))
    <3> DEFINE commit == commitOf(orphan)
    <3>1. Whole(commit) /\ Follows(commits[head], commit)
      BY <1>1, <2>1, <2>4, WholeCommit DEF WholeInv, PlannedInv
    <3> HIDE DEF commit
    <3>2. fastForward(commit)
      BY <2>4 DEF commit
    <3> QED
      BY <2>1, <2>2, <3>1, <3>2, WholeExtended
  <2> QED
    BY <1>5, <2>3, <2>4 DEF OrphanEOF
<1>6. CASE OutsideCommit
  <2> DEFINE commit == [commits[head] EXCEPT !.parent = head]
  <2>1. /\ UNCHANGED <<txn, orphan, staged, deletion, failure, confirmed, requested>>
        /\ fastForward(commit)
    BY <1>6 DEF OutsideCommit
  <2>2. commit.tree = commits[head].tree /\ commit.state = commits[head].state
    BY <1>1 DEF HistoryInv, CommitFields
  <2> HIDE DEF commit
  <2>3. Whole(commit) /\ Follows(commits[head], commit)
    BY <1>1, <2>2 DEF WholeInv, CommitsInv, Whole, Describes, StateOf, Follows
  <2>4. content(txn') = content(txn) /\ txn'.who = txn.who
    BY <2>1
  <2> QED
    BY <2>1, <2>3, <2>4, WholeExtended
<1> QED
  BY <1>3, <1>4, <1>5, <1>6 DEF EnvironmentNext

\* Every step keeps the invariant.
LEMMA WholeNext ==
    ASSUME ~CutBetweenCommands, TypeInv, HistoryInv, DeletionInv, WholeInv, [Next]_vars
    PROVE  WholeInv'
<1>1. CASE UNCHANGED vars
  <2>1. UNCHANGED <<commits, confirmed, orphan, requested, deletion, staged, failure, txn>>
    BY <1>1 DEF vars, disk, memory, calls, clients
  <2>2. SizesInv' /\ content(txn') = content(txn) /\ txn'.who = txn.who /\ CallsGoOn
    BY <2>1 DEF SizesInv, WholeInv, CallsGoOn
  <2> QED
    BY <2>1, <2>2, WholeKept
<1> QED
  BY <1>1, ConnWhole, SessionWhole, CommitWhole, EnvironmentWhole DEF Next

-----------------------------------------------------------------------------
(* The first commit, which initializeGit made of the messages it found. *)

\* The files that were imported, and initialDirectories as a function on the
\* subsets of their IDs.
filesOf(ids) == {messagePath(id, Imported[id]) : id \in ids}

AddSteps(p, D) ==
    \A s \in SUBSET D :
        p[s] = IF s = {} THEN <<>> ELSE add(p[s \ {some(s)}], leafDirectory[some(s)])

AddRecursive(p, D) ==
    p = [s \in SUBSET D |->
            IF s = {} THEN <<>> ELSE add(p[s \ {some(s)}], leafDirectory[some(s)])]

\* There is only one such function.
LEMMA AddUnique ==
    ASSUME NEW D, IsFiniteSet(D), NEW p, AddSteps(p, D), NEW q, AddSteps(q, D)
    PROVE  p[D] = q[D]
<1> SUFFICES ASSUME p[D] # q[D] PROVE FALSE
  OBVIOUS
<1> DEFINE F == {s \in SUBSET D : p[s] # q[s]}
<1>1. F \subseteq FiniteSubsetsOf(D) /\ F # {}
  BY FS_Subset DEF FiniteSubsetsOf
<1>2. PICK s \in F : \A t \in F : t \subseteq s => t = s
  <2> HIDE DEF F
  <2> QED
    BY <1>1, MinimalSubset
<1>3. s \in SUBSET D /\ p[s] # q[s] /\ s # {}
  BY DEF AddSteps
<1>4. some(s) \in s
  BY <1>3, SomeIsElement
<1>5. s \ {some(s)} \notin F
  BY <1>2, <1>4
<1>6. p[s \ {some(s)}] = q[s \ {some(s)}]
  BY <1>3, <1>5
<1> HIDE DEF F
<1> QED
  BY <1>3, <1>6 DEF AddSteps

\* What was imported are messages with IDs from 1 on.
LEMMA ImportedFacts ==
    /\ DOMAIN Imported = 1 .. Len(Imported) /\ Len(Imported) \in 0 .. MaxID
    /\ IsFiniteSet(DOMAIN Imported)
    /\ \A id \in DOMAIN Imported :
          /\ id \in 1 .. MaxID /\ Imported[id] \in 0 .. MaxMessage /\ Imported[id] \in Nat
          /\ messageFromPath(messagePath(id, Imported[id])) = [ID |-> id, Size |-> Imported[id]]
          /\ leafOf(messagePath(id, Imported[id])) = leafDirectory[id]
<1>1. Imported \in Seq(0 .. MaxMessage) /\ Len(Imported) <= MaxID /\ MaxID \in Nat /\ MaxMessage \in Nat
  BY ImportedAssumption, MaxIDAssumption, BudgetAssumption
<1>2. DOMAIN Imported = 1 .. Len(Imported) /\ Len(Imported) \in 0 .. MaxID
  BY <1>1
<1>3. IsFiniteSet(DOMAIN Imported)
  BY <1>2, FS_Interval
<1>4. ASSUME NEW id \in DOMAIN Imported
      PROVE  id \in 1 .. MaxID /\ Imported[id] \in 0 .. MaxMessage /\ Imported[id] \in Nat
  BY <1>1, <1>2
<1>5. ASSUME NEW id \in DOMAIN Imported
      PROVE  /\ messageFromPath(messagePath(id, Imported[id])) = [ID |-> id, Size |-> Imported[id]]
             /\ leafOf(messagePath(id, Imported[id])) = leafDirectory[id]
  <2>1. MaxID \in 0 .. MaxID
    BY <1>1
  <2> QED
    BY <1>4, <2>1, FileFacts
<1> QED
  BY <1>2, <1>3, <1>4, <1>5

\* Their files are a tree,
LEMMA InitialTree ==
    /\ IsTree(initialTree, Len(Imported))
    /\ \A m \in messagesOf(initialTree) : m.Size <= MaxMessage
<1>1. initialTree = filesOf(DOMAIN Imported)
  BY DEF initialTree, filesOf
<1>2. IsFiniteSet(initialTree)
  <2> DEFINE g == [id \in DOMAIN Imported |-> messagePath(id, Imported[id])]
  <2>1. g \in Surjection(DOMAIN Imported, initialTree)
    BY DEF Surjection, initialTree
  <2> HIDE DEF g
  <2> QED
    BY <2>1, ImportedFacts, FS_Surjection
<1>3. \A name \in initialTree : \E id \in DOMAIN Imported :
          /\ name = messagePath(id, Imported[id])
          /\ messageFromPath(name) = [ID |-> id, Size |-> Imported[id]]
  BY ImportedFacts DEF initialTree
<1>4. \A name \in initialTree :
          \E id \in 1 .. Len(Imported) : \E size \in Nat : name = messagePath(id, size)
  BY <1>3, ImportedFacts
<1>5. \A a, b \in initialTree : messageFromPath(a).ID = messageFromPath(b).ID => a = b
  <2> SUFFICES ASSUME NEW a \in initialTree, NEW b \in initialTree,
                      messageFromPath(a).ID = messageFromPath(b).ID
               PROVE  a = b
    OBVIOUS
  <2>1. PICK i \in DOMAIN Imported : a = messagePath(i, Imported[i])
                                     /\ messageFromPath(a) = [ID |-> i, Size |-> Imported[i]]
    BY <1>3
  <2>2. PICK j \in DOMAIN Imported : b = messagePath(j, Imported[j])
                                     /\ messageFromPath(b) = [ID |-> j, Size |-> Imported[j]]
    BY <1>3
  <2> QED
    BY <2>1, <2>2
<1>6. ASSUME NEW m \in messagesOf(initialTree) PROVE m.Size <= MaxMessage
  <2>1. PICK id \in DOMAIN Imported : m = [ID |-> id, Size |-> Imported[id]]
    BY <1>3 DEF messagesOf
  <2>2. m.Size \in 0 .. MaxMessage
    BY <2>1, ImportedFacts
  <2> QED
    BY <2>2, BudgetAssumption
<1> QED
  BY <1>2, <1>4, <1>5, <1>6 DEF IsTree

\* whose directory counts are those of the first state,
LEMMA InitialDirectories == initialDirectories = countsOf(initialTree)
<1> DEFINE D == DOMAIN Imported
           f == [s \in SUBSET D |-> countsOf(filesOf(s))]
<1>1. IsFiniteSet(D)
  BY ImportedFacts
<1>2. countsOf({}) = <<>>
  <2>1. directoriesOf({}) = {}
    BY DEF directoriesOf
  <2> QED
    BY <2>1 DEF countsOf
<1>3. AddSteps(f, D)
  <2> SUFFICES ASSUME NEW s \in SUBSET D
               PROVE  f[s] = IF s = {} THEN <<>>
                             ELSE add(f[s \ {some(s)}], leafDirectory[some(s)])
    BY DEF AddSteps
  <2>1. CASE s = {}
    <3>1. filesOf(s) = {}
      BY <2>1 DEF filesOf
    <3> QED
      BY <1>2, <2>1, <3>1
  <2>2. CASE s # {}
    <3> DEFINE x == some(s)
               r == s \ {x}
               name == messagePath(x, Imported[x])
               rest == filesOf(r)
    <3>1. x \in s /\ x \in D /\ r \in SUBSET D
      BY <2>2, SomeIsElement
    <3>2. leafOf(name) = leafDirectory[x] /\ messageFromPath(name).ID = x
      BY <3>1, ImportedFacts
    <3>3. name \notin rest
      <4> SUFFICES ASSUME NEW y \in r, name = messagePath(y, Imported[y]) PROVE FALSE
        BY DEF filesOf
      <4>1. y \in D
        BY <3>1
      <4>2. messageFromPath(name).ID = y
        BY <4>1, ImportedFacts
      <4> QED
        BY <3>2, <4>2
    <3>4. filesOf(s) = rest \cup {name}
      BY <3>1 DEF filesOf
    <3>5. IsFiniteSet(rest)
      <4>1. rest \subseteq initialTree
        BY <3>1 DEF filesOf, initialTree
      <4> QED
        BY <4>1, InitialTree, FS_Subset DEF IsTree
    <3>6. add(countsOf(rest), leafOf(name)) = countsOf(rest \cup {name})
      <4> HIDE DEF rest, name
      <4> QED
        BY <3>3, <3>5, CountsAdd
    <3>7. f[r] = countsOf(rest) /\ f[s] = countsOf(filesOf(s))
      BY <3>1
    <3> QED
      BY <2>2, <3>2, <3>4, <3>6, <3>7
  <2> QED
    BY <2>1, <2>2
<1>4. f = [s \in SUBSET D |-> f[s]]
  OBVIOUS
<1>5. f[D] = countsOf(initialTree)
  BY DEF filesOf, initialTree
<1>6. initialDirectories = FoldSet(LAMBDA id, counts : add(counts, leafDirectory[id]), <<>>, D)
  BY DEF initialDirectories
<1> HIDE DEF f, D
<1>7. AddRecursive(f, D)
  BY <1>3, <1>4 DEF AddRecursive, AddSteps
<1> DEFINE q == CHOOSE q : AddRecursive(q, D)
<1>8. AddRecursive(q, D)
  BY <1>7
<1>9. initialDirectories = q[D]
  BY <1>6 DEF FoldSet, MapThenFoldSet, AddRecursive, some
<1> HIDE DEF q
<1>10. AddSteps(q, D)
  BY <1>8 DEF AddRecursive, AddSteps
<1>11. q[D] = f[D]
  BY <1>1, <1>3, <1>10, AddUnique
<1> QED
  BY <1>5, <1>9, <1>11

\* and so are the octets.
LEMMA InitialOctets == initialOctets = octetsOf(messagesOf(initialTree))
<1> DEFINE D == DOMAIN Imported
           M(s) == messagesOf(filesOf(s))
           F == {s \in SUBSET D : octetsOf(M(s)) = SumFunctionOnSet(Imported, s)}
<1>1. IsFiniteSet(D) /\ \A id \in D : Imported[id] \in Nat
  BY ImportedFacts
<1>2. initialOctets = SumFunctionOnSet(Imported, D)
  BY DEF initialOctets, MapThenSumSet, SumFunctionOnSet, FoldFunctionOnSet
<1>3. ASSUME NEW s \in SUBSET D
      PROVE  M(s) = {[ID |-> id, Size |-> Imported[id]] : id \in s}
  BY ImportedFacts DEF messagesOf, filesOf
<1>4. ASSUME NEW s \in SUBSET D PROVE HaveSizes(M(s)) /\ IsFiniteSet(s)
  <2> DEFINE N == {[ID |-> id, Size |-> Imported[id]] : id \in s}
             g == [id \in s |-> [ID |-> id, Size |-> Imported[id]]]
  <2>1. IsFiniteSet(s)
    BY <1>1, FS_Subset
  <2>2. g \in Surjection(s, N)
    BY DEF Surjection
  <2>3. \A m \in N : m.Size \in Nat
    BY <1>1
  <2> HIDE DEF g, N
  <2>4. HaveSizes(N)
    BY <2>1, <2>2, <2>3, FS_Surjection DEF HaveSizes
  <2> QED
    BY <1>3, <2>1, <2>4 DEF N
<1>5. {} \in F
  <2>1. M({}) = {}
    BY <1>3
  <2>2. octetsOf({}) = 0
    BY <1>4, <2>1, OctetsFacts
  <2>3. SumFunctionOnSet(Imported, {}) = 0
    BY SumFacts, FS_EmptySet
  <2> QED
    BY <2>1, <2>2, <2>3
<1>6. ASSUME NEW s \in SUBSET D, NEW x \in D \ s, s \in F PROVE s \cup {x} \in F
  <2> DEFINE t == s \cup {x}
             m == [ID |-> x, Size |-> Imported[x]]
  <2>1. t \in SUBSET D /\ x \in t /\ t \ {x} = s
    OBVIOUS
  <2>2. M(t) \ {m} = M(s) /\ m \in M(t)
    <3>1. M(t) = {[ID |-> id, Size |-> Imported[id]] : id \in t}
      BY <1>3, <2>1
    <3>2. M(s) = {[ID |-> id, Size |-> Imported[id]] : id \in s}
      BY <1>3
    <3> HIDE DEF M
    <3> QED
      BY <3>1, <3>2
  <2> HIDE DEF M, t
  <2>3. octetsOf(M(t)) = m.Size + octetsOf(M(t) \ {m})
    BY <1>4, <2>1, <2>2, OctetsFacts
  <2>4. SumFunctionOnSet(Imported, t) = Imported[x] + SumFunctionOnSet(Imported, t \ {x})
    BY <1>1, <1>4, <2>1, SumFacts
  <2>5. octetsOf(M(t)) = SumFunctionOnSet(Imported, t)
    BY <1>6, <2>1, <2>2, <2>3, <2>4
  <2> QED
    BY <2>1, <2>5 DEF t
<1> HIDE DEF F
<1>7. D \in F
  <2> HIDE DEF D
  <2> QED
    BY <1>1, <1>5, <1>6, FiniteInduction
<1>8. M(D) = messagesOf(initialTree)
  BY DEF filesOf, initialTree
<1> QED
  BY <1>2, <1>7, <1>8 DEF F

\* The first commit is whole.
LEMMA WholeInit == Init => WholeInv
<1> SUFFICES ASSUME Init PROVE WholeInv
  OBVIOUS
<1>1. /\ head = 1 /\ commits[1] = [parent |-> 0, state |-> initialState, tree |-> initialTree]
      /\ txn = NoTransaction /\ orphan = NoTransaction /\ confirmed = {}
      /\ deletion = [s \in Sessions |-> NoDeletion]
      /\ staged = [c \in Conns |-> NoMessageStaged]
  BY DEF Init, head
<1>2. /\ initialState.LastID = Len(Imported) /\ initialState.TotalOctets = initialOctets
      /\ initialState.Directories = initialDirectories
  BY DEF initialState
<1>3. Describes(initialState, initialTree)
  BY <1>2, ImportedFacts, InitialTree, InitialDirectories, InitialOctets DEF Describes, StateOf
<1>4. Whole(commits[1])
  BY <1>1, <1>3 DEF Whole
<1>5. Follows(commits[1], commits[1])
  BY <1>4 DEF Follows, Whole, Describes, StateOf
<1>6. CommitsInv
  <2>1. \A i \in 1 .. head : i = 1
    BY <1>1
  <2>2. \A j \in 1 .. head : \A i \in 1 .. j : i = 1 /\ j = 1
    BY <1>1
  <2>3. DeletedStaysDeleted
    BY <1>1 DEF DeletedStaysDeleted
  <2> QED
    BY <1>1, <1>4, <1>5, <2>1, <2>2, <2>3 DEF CommitsInv
<1>7. PlannedInv /\ RemovalInv
  BY <1>1 DEF PlannedInv, RemovalInv, NoTransaction
<1>8. ResolvedInv
  BY <1>1, NothingResolved DEF ResolvedInv
<1>9. SizesInv
  BY <1>1, BudgetAssumption DEF SizesInv, NoMessageStaged
<1> QED
  BY <1>6, <1>7, <1>8, <1>9 DEF WholeInv

-----------------------------------------------------------------------------
(* What follows for the commits of HEAD. *)

\* The invariant with those it rests on.
LEMMA WholeAlways ==
    ASSUME ~CutBetweenCommands
    PROVE  Spec => [](TypeInv /\ HistoryInv /\ DurableInv /\ WholeInv)
<1>1. DurableInv => DeletionInv
  BY DEF DurableInv
<1>2. TypeInv /\ HistoryInv /\ DurableInv /\ WholeInv /\ [Next]_vars => WholeInv'
  BY <1>1, WholeNext
<1> QED
  BY TypeInvInit, NextType, HistoryInit, HistoryNext, DurableInit, DurableNext, WholeInit,
     <1>2, PTL DEF Spec

\* The commits are numbered from 1 to head.
LEMMA CommitIndices == ASSUME TypeInv PROVE DOMAIN commits = 1 .. head /\ head \in Nat \ {0}
BY DEF TypeInv, TypeOK, head

\* A message whose deletion was confirmed with +OK is not in HEAD and never
\* comes back, through restarts, retries and importers that outlive picomx.
THEOREM DeletedHolds ==
    ASSUME ~CutBetweenCommands PROVE Spec => []DeletedStaysDeleted
<1>1. WholeInv => DeletedStaysDeleted
  BY DEF WholeInv, CommitsInv
<1> QED
  BY WholeAlways, <1>1, PTL

\* No later commit gives an ID to another message: a POP3 unique-id is unique.
THEOREM NotReusedHolds ==
    ASSUME ~CutBetweenCommands PROVE Spec => []IDsAreNotReused
<1>1. TypeInv /\ WholeInv => IDsAreNotReused
  <2> SUFFICES ASSUME TypeInv, WholeInv, NEW j \in DOMAIN commits, NEW i \in 1 .. j - 1
               PROVE  \A name \in commits[j].tree :
                         idOf(name) <= commits[i].state.LastID => name \in commits[i].tree
    BY DEF IDsAreNotReused
  <2>1. j \in 1 .. head /\ i \in 1 .. j
    BY CommitIndices
  <2> QED
    BY <2>1 DEF WholeInv, CommitsInv, Follows
<1> QED
  BY WholeAlways, <1>1, PTL

\* Every commit's state file decodes and describes the commit's own tree, so a
\* start from whatever HEAD is finds counts, octets and IDs that are right.
THEOREM WholeHolds ==
    ASSUME ~CutBetweenCommands PROVE Spec => []CommitsAreWhole
<1>1. TypeInv /\ WholeInv => CommitsAreWhole
  <2> SUFFICES ASSUME TypeInv, WholeInv, NEW i \in DOMAIN commits
               PROVE  LET messages == {messageFromPath(name) : name \in commits[i].tree}
                      IN  /\ validState(commits[i].state)
                          /\ messageCount(commits[i].state) = Cardinality(messages)
                          /\ commits[i].state.TotalOctets = octetsOf(messages)
                          /\ \A m \in messages : m.ID \in 1 .. commits[i].state.LastID
    BY DEF CommitsAreWhole
  <2>1. i \in 1 .. head
    BY CommitIndices
  <2>2. Describes(commits[i].state, commits[i].tree)
    BY <2>1 DEF WholeInv, CommitsInv, Whole
  <2> DEFINE st == commits[i].state
             tree == commits[i].tree
  <2>3. StateOf(st, tree) /\ st.TotalOctets = octetsOf(messagesOf(tree))
    BY <2>2 DEF Describes, StateOf
  <2> HIDE DEF st, tree
  <2>4. /\ validState(st)
        /\ messageCount(st) = Cardinality(messagesOf(tree))
        /\ st.TotalOctets = octetsOf(messagesOf(tree))
        /\ \A m \in messagesOf(tree) : m.ID \in 1 .. st.LastID
    BY <2>3, StateIsValid
  <2> QED
    BY <2>4 DEF st, tree, messagesOf
<1> QED
  BY WholeAlways, <1>1, PTL

-----------------------------------------------------------------------------
(* What a snapshot has. *)

\* One commit only adds files or only removes files.
Nested(i, j) == treeAt(i) \subseteq treeAt(j) \/ treeAt(j) \subseteq treeAt(i)

\* The state in memory is that of headID.  In a poisoned store it may be that of
\* the commit before it.
LapseInv ==
    up => \/ state = commits[headID].state
          \/ /\ failure /\ headID - 1 \in 1 .. head
             /\ state = commits[headID - 1].state
             /\ Nested(headID - 1, headID)

\* The history grows and what is in memory stays.
LEMMA LapseKept ==
    ASSUME TypeInv, LapseInv, Grown, UNCHANGED <<up, state, headID>>, failure => failure'
    PROVE  LapseInv'
<1> SUFFICES ASSUME up PROVE LapseInv'
  BY DEF LapseInv
<1>1. headID \in 1 .. head
  BY DEF TypeInv, TypeOK, Grown
<1>2. \A i \in 1 .. head : commits'[i] = commits[i] /\ treeAt(i)' = treeAt(i) /\ i \in 1 .. head'
  BY DEF Grown, treeAt
<1>3. CASE state = commits[headID].state
  BY <1>1, <1>2, <1>3 DEF LapseInv
<1>4. CASE ~(state = commits[headID].state)
  <2>1. /\ failure /\ headID - 1 \in 1 .. head /\ state = commits[headID - 1].state
        /\ Nested(headID - 1, headID)
    BY <1>4 DEF LapseInv
  <2>2. Nested(headID - 1, headID)'
    BY <1>1, <1>2, <2>1 DEF Nested
  <2> QED
    BY <1>2, <2>1, <2>2 DEF LapseInv
<1> QED
  BY <1>3, <1>4

LEMMA LapseNext ==
    ASSUME TypeInv, HistoryInv, DurableInv, HistoryInv', LapseInv, [Next]_vars
    PROVE  LapseInv'
<1> USE DEF disk, memory, calls, clients
<1>1. UNCHANGED commits => Grown
  BY GrownHistory
<1>2. ASSUME NEW commit, fastForward(commit) PROVE Grown
  BY <1>2, GrownHistory
<1>3. ASSUME NEW c \in Conns, ConnNext(c) PROVE LapseInv'
  <2>1. UNCHANGED <<commits, up, state, headID>> /\ (failure => failure')
    BY <1>3 DEF ConnNext, Stage, QuotaRead, StageDone, Discard, PublishStart, WriteReceipt,
                SyncReceipt, ReceiptFails
  <2> QED
    BY <1>1, <2>1, LapseKept
<1>4. ASSUME NEW s \in Sessions, SessionNext(s) PROVE LapseInv'
  <2>1. UNCHANGED <<commits, up, state, headID, failure>>
    BY <1>4 DEF SessionNext, DeleteAs, Snapshot, Resolve, ResolveFails, Retry, DeleteStart,
                DeleteNothing, DeleteRefused
  <2> QED
    BY <1>1, <2>1, LapseKept
<1>5. CASE CommitNext
  <2>1. CASE StartImport \/ RefuseCommit \/ CheckpointSkipped
    BY <1>1, <2>1, LapseKept DEF StartImport, RefuseCommit, CheckpointSkipped
  <2>2. CASE Checkpoint
    <3>1. fastForward(commitOf(txn)) /\ UNCHANGED <<up, state, headID, failure>>
      BY <2>2 DEF Checkpoint
    <3> QED
      BY <1>2, <3>1, LapseKept
  <2>3. CASE CommitDone
    <3>1. txn.phase # "none" /\ UNCHANGED failure
      BY <2>3 DEF CommitDone, verified
    <3>2. ~failure'
      BY <3>1 DEF HistoryInv
    <3> QED
      BY <3>2 DEF HistoryInv, LapseInv
  <2>4. CASE ImportFails /\ headID' = headID
    BY <1>1, <2>4, LapseKept DEF ImportFails
  \* The watchdog fires between the assignment of headID and the return.
  <2>5. CASE ImportFails /\ headID' # headID
    <3>1. /\ verified /\ headID' = head /\ failure' /\ up
          /\ UNCHANGED <<commits, up, state>>
      BY <2>5 DEF ImportFails
    <3>2. /\ txn.phase = "landed" /\ head = txn.parent + 1 /\ txn.parent = headID /\ ~failure
          /\ commits[head] = commitOf(txn) /\ state = commits[headID].state
      BY <3>1 DEF verified, HistoryInv
    <3>3. head' = head /\ headID \in 1 .. head /\ headID' - 1 = headID
      BY <3>1, <3>2 DEF head, TypeInv, TypeOK
    <3>4. treeAt(head) = (treeAt(headID) \cup txn.changes) \ txn.removals
      BY <3>2 DEF commitOf, treeAt
    <3>5. treeAt(headID) \subseteq treeAt(head) \/ treeAt(head) \subseteq treeAt(headID)
      BY <3>4 DEF DurableInv
    <3>6. Nested(headID - 1, headID)'
      BY <3>1, <3>3, <3>5 DEF Nested, treeAt
    <3> QED
      BY <3>1, <3>2, <3>3, <3>6 DEF LapseInv
  <2> QED
    BY <1>5, <2>1, <2>2, <2>3, <2>4, <2>5 DEF CommitNext
<1>6. CASE EnvironmentNext
  <2>1. CASE IdleClose \/ Close \/ Maintain \/ Tick
    <3>1. UNCHANGED <<commits, up, state, headID>> /\ (failure => failure')
      BY <2>1 DEF IdleClose, Close, Maintain, Tick
    <3> QED
      BY <1>1, <3>1, LapseKept
  <2>2. CASE Crash
    BY <2>2 DEF Crash, LapseInv
  <2>3. CASE Start
    BY <2>3 DEF Start, LapseInv, head
  <2>4. CASE OrphanEOF \/ OutsideCommit
    <3>1. UNCHANGED <<up, state, headID, failure>>
      BY <2>4 DEF OrphanEOF, OutsideCommit
    <3>2. UNCHANGED commits \/ \E commit : fastForward(commit)
      BY <2>4 DEF OrphanEOF, OutsideCommit
    <3>3. Grown
      BY <1>1, <1>2, <3>2
    <3> QED
      BY <3>1, <3>3, LapseKept
  <2> QED
    BY <1>6, <2>1, <2>2, <2>3, <2>4 DEF EnvironmentNext
<1>7. CASE UNCHANGED vars
  BY <1>1, <1>7, LapseKept DEF vars
<1> QED
  BY <1>3, <1>4, <1>5, <1>6, <1>7 DEF Next

\* A listing is as long as its count says, in whichever of two nested trees it
\* is: then it is the same listing.
LEMMA SameListing ==
    ASSUME NEW st, NEW tree, StateOf(st, tree), NEW other, IsFiniteSet(other),
           tree \subseteq other \/ other \subseteq tree,
           NEW leaf \in Range(buildDirectoryIndex(st.Directories).leaves),
           readable(other, leaf)
    PROVE  filesIn(other, leaf.path) = filesIn(tree, leaf.path)
<1>1. /\ IsFiniteSet(tree) /\ IsTree(tree, st.LastID) /\ st.LastID \in 0 .. MaxID
      /\ st.Directories = countsOf(tree)
  BY DEF StateOf, IsTree
<1>2. /\ leavesOf(countsOf(tree)) \in SUBSET Seq(Nat) /\ IsFiniteSet(leavesOf(countsOf(tree)))
      /\ \A p \in leavesOf(countsOf(tree)) : countsOf(tree)[p] = Cardinality(filesIn(tree, p))
  BY <1>1, LeavesOfTree
<1>3. leaf.path \in leavesOf(countsOf(tree)) /\ leaf.count = countsOf(tree)[leaf.path]
  BY <1>1, <1>2, IndexLeaves
<1>4. Cardinality(filesIn(other, leaf.path)) = Cardinality(filesIn(tree, leaf.path))
  BY <1>2, <1>3 DEF readable
<1> DEFINE A == filesIn(tree, leaf.path)
           B == filesIn(other, leaf.path)
<1>5. A \subseteq tree /\ B \subseteq other /\ (A \subseteq B \/ B \subseteq A)
  BY DEF filesIn
<1>6. IsFiniteSet(A) /\ IsFiniteSet(B)
  BY <1>1, <1>5, FS_Subset
<1> HIDE DEF A, B
<1>7. Cardinality(B) = Cardinality(A)
  BY <1>4 DEF A, B
<1>8. A = B
  <2>1. CASE A \in SUBSET B
    BY <1>6, <1>7, <2>1, FS_Subset
  <2>2. CASE B \in SUBSET A
    BY <1>6, <1>7, <2>2, FS_Subset
  <2> QED
    BY <1>5, <2>1, <2>2
<1> QED
  BY <1>8 DEF A, B

\* A reader never gets the counts of one commit and the listing of another,
\* although a late watchdog can leave headID ahead of the state in memory: then
\* the store is poisoned, state is that of the commit before, and every
\* directory that the commit between them changed fails its count check.
THEOREM SnapshotHolds ==
    ASSUME ~CutBetweenCommands PROVE Spec => []SnapshotNeverMixes
<1>1. Init => LapseInv
  BY DEF Init, LapseInv
<1>2. TypeInv /\ HistoryInv /\ DurableInv /\ LapseInv /\ [Next]_vars => LapseInv'
  BY HistoryNext, LapseNext
<1>3. TypeInv /\ WholeInv /\ LapseInv => SnapshotNeverMixes
  <2> SUFFICES ASSUME TypeInv, WholeInv, LapseInv, up
               PROVE  \E i \in {headID - 1, headID} \cap DOMAIN commits :
                        /\ state = commits[i].state
                        /\ i = headID \/ failure
                        /\ \A leaf \in Range(buildDirectoryIndex(commits[i].state.Directories).leaves) :
                              readable(treeAt(headID), leaf) =>
                                filesIn(treeAt(headID), leaf.path) = filesIn(treeAt(i), leaf.path)
    BY DEF SnapshotNeverMixes
  <2>1. headID \in 1 .. head /\ DOMAIN commits = 1 .. head
    BY CommitIndices DEF TypeInv, TypeOK
  <2>2. CASE state = commits[headID].state
    BY <2>1, <2>2
  <2>3. CASE ~(state = commits[headID].state)
    <3> DEFINE i == headID - 1
    <3>1. failure /\ i \in 1 .. head /\ state = commits[i].state /\ Nested(i, headID)
      BY <2>3 DEF LapseInv
    <3>2. ASSUME NEW j \in 1 .. head
          PROVE  StateOf(commits[j].state, treeAt(j)) /\ IsFiniteSet(treeAt(j))
      BY DEF WholeInv, CommitsInv, Whole, Describes, StateOf, IsTree, treeAt
    <3>3. StateOf(commits[i].state, treeAt(i)) /\ IsFiniteSet(treeAt(headID))
          /\ (treeAt(i) \subseteq treeAt(headID) \/ treeAt(headID) \subseteq treeAt(i))
      BY <2>1, <3>1, <3>2 DEF Nested
    <3>4. \A leaf \in Range(buildDirectoryIndex(commits[i].state.Directories).leaves) :
             readable(treeAt(headID), leaf) =>
               filesIn(treeAt(headID), leaf.path) = filesIn(treeAt(i), leaf.path)
      BY <3>3, SameListing
    <3> QED
      BY <2>1, <3>1, <3>4
  <2> QED
    BY <2>2, <2>3
<1> QED
  BY WholeAlways, <1>1, <1>2, <1>3, PTL DEF Spec

-----------------------------------------------------------------------------
(* Store implements Maildrop. *)

\* The messages Maildrop knows.
Messages == [ID : 1 .. MaxID, Size : 0 .. MaxMessage]

\* messagesIn is messageFromPath of the files, and distributes over changes.
LEMMA MessageOfFile ==
    ASSUME NEW m \in Messages
    PROVE  /\ messageFromPath(messagePath(m.ID, m.Size)) = m
           /\ idOf(messagePath(m.ID, m.Size)) = m.ID
<1>1. m.ID \in 1 .. MaxID /\ m.Size \in Nat /\ m = [ID |-> m.ID, Size |-> m.Size]
  BY BudgetAssumption DEF Messages
<1>2. messageFromPath(messagePath(m.ID, m.Size)) = [ID |-> m.ID, Size |-> m.Size]
  BY <1>1, MessageInverse
<1> QED
  BY <1>1, <1>2 DEF idOf

\* One more file is one more message.
LEMMA MessagesGrow ==
    ASSUME NEW files, NEW id \in 1 .. MaxID, NEW size \in 0 .. MaxMessage
    PROVE  messagesIn(files \cup {messagePath(id, size)})
              = messagesIn(files) \cup {[ID |-> id, Size |-> size]}
<1> DEFINE n == [ID |-> id, Size |-> size]
<1>1. n \in Messages /\ n.ID = id /\ n.Size = size
  BY DEF Messages
<1>2. ASSUME NEW m \in Messages, messagePath(m.ID, m.Size) = messagePath(id, size) PROVE m = n
  BY <1>1, <1>2, MessageOfFile
<1> HIDE DEF n
<1> QED
  BY <1>1, <1>2 DEF messagesIn, Messages, n

\* Without the files a request names, the messages it names are gone,
LEMMA MessagesShrink ==
    ASSUME NEW tree, NEW ids
    PROVE  messagesIn(tree \ namedFiles(tree, ids))
              = messagesIn(tree) \ {m \in messagesIn(tree) : m.ID \in ids}
BY MessageOfFile DEF messagesIn, Messages, namedFiles

\* and none is left if there is no such file.
LEMMA NoneNamed ==
    ASSUME NEW tree, NEW ids, namedFiles(tree, ids) = {}
    PROVE  {m \in messagesIn(tree) : m.ID \in ids} = {}
BY MessageOfFile DEF messagesIn, Messages, namedFiles

\* The first commit is a mailbox that was filled before the first client came.
LEMMA MapsInit == Init => maildrop!Init
<1> SUFFICES ASSUME Init PROVE maildrop!Init
  OBVIOUS
<1>1. /\ head = 1 /\ commits[1].state = initialState /\ treeAt(head) = initialTree
      /\ acked = initialTree /\ requested = {} /\ confirmed = {}
  BY DEF Init, head, treeAt
<1>2. initialState.LastID = Len(Imported) /\ Len(Imported) \in 0 .. MaxID
  BY ImportedFacts DEF initialState
<1>3. ASSUME NEW m \in messagesIn(initialTree) PROVE m.ID \in 1 .. Len(Imported)
  <2>1. m \in Messages /\ messagePath(m.ID, m.Size) \in initialTree
    BY DEF messagesIn, Messages
  <2>2. IsFile(messagePath(m.ID, m.Size), Len(Imported))
    BY <1>2, <2>1, InitialTree, TreeFacts
  <2> QED
    BY <2>1, <2>2, MessageOfFile DEF IsFile
<1> QED
  BY <1>1, <1>2, <1>3 DEF maildrop!Init

\* A commit that was planned is one delivery or one whole deletion.
LEMMA MapsCommit ==
    ASSUME TypeInv, WholeInv, NEW t, fastForward(commitOf(t)),
           Planned(t, commits[t.parent], requested), UNCHANGED <<acked, requested, confirmed>>
    PROVE  maildrop!Next
<1> DEFINE base == commits[head]
<1>1. /\ head \in Nat /\ head' = head + 1 /\ head = t.parent
      /\ commits'[head'] = commitOf(t) /\ treeAt(head) = base.tree
  BY AppendFacts DEF TypeInv, TypeOK, fastForward, head, commitOf, treeAt
<1>2. /\ treeAt(head)' = (base.tree \cup t.changes) \ t.removals
      /\ commits'[head'].state.LastID = t.state.LastID
  BY <1>1 DEF treeAt, commitOf
<1>3. Planned(t, base, requested)
  BY <1>1
<1>4. /\ base.state.LastID \in 0 .. MaxID /\ t.state.LastID \in 0 .. MaxID
  BY <1>1, <1>3, CommitIndices DEF WholeInv, CommitsInv, Whole, Describes, StateOf, Planned
<1>5. messagesIn(acked)' = messagesIn(acked)
  BY DEF messagesIn
<1> HIDE DEF base
<1>6. CASE Delivers(t, base)
  <2>1. PICK size \in 0 .. MaxMessage : t.changes = {messagePath(base.state.LastID + 1, size)}
    BY <1>6 DEF Delivers
  <2> DEFINE id == base.state.LastID + 1
  <2>2. t.state.LastID = id /\ id \in 1 .. MaxID /\ t.removals = {} /\ base.state.LastID < MaxID
    BY <1>4, <1>6, MaxIDAssumption DEF Delivers
  <2>3. treeAt(head)' = base.tree \cup {messagePath(id, size)}
    BY <1>2, <2>1, <2>2
  <2> HIDE DEF id
  <2>4. messagesIn(treeAt(head))' = messagesIn(treeAt(head)) \cup {[ID |-> id, Size |-> size]}
    BY <1>1, <2>2, <2>3, MessagesGrow DEF messagesIn
  <2>5. maildrop!Deliver
    BY <1>1, <1>2, <1>5, <2>2, <2>4 DEF maildrop!Deliver, base, id
  <2> QED
    BY <2>5 DEF maildrop!Next
<1>7. ASSUME NEW ids \in requested, Removes(t, base, ids) PROVE maildrop!Next
  <2>1. treeAt(head)' = base.tree \ namedFiles(base.tree, ids)
    BY <1>2, <1>7 DEF Removes
  <2>2. messagesIn(treeAt(head))'
          = messagesIn(treeAt(head)) \ {m \in messagesIn(treeAt(head)) : m.ID \in ids}
    BY <1>1, <2>1, MessagesShrink DEF messagesIn
  <2>3. commits'[head'].state.LastID = commits[head].state.LastID
    BY <1>2, <1>7 DEF Removes, base
  <2>4. maildrop!Remove
    BY <1>5, <2>2, <2>3 DEF maildrop!Remove, maildrop!named
  <2> QED
    BY <2>4 DEF maildrop!Next
<1> QED
  BY <1>3, <1>6, <1>7 DEF Planned

\* Steps that move neither HEAD nor what clients were told are not seen.
LEMMA MapsNothing ==
    ASSUME UNCHANGED <<commits, acked, requested, confirmed>>
    PROVE  UNCHANGED maildrop!vars
<1>1. head' = head /\ treeAt(head)' = treeAt(head)
  BY DEF head, treeAt
<1>2. messagesIn(treeAt(head))' = messagesIn(treeAt(head)) /\ messagesIn(acked)' = messagesIn(acked)
  BY <1>1 DEF messagesIn
<1> QED
  BY <1>1, <1>2 DEF maildrop!vars

\* A deletion is confirmed when some commit has none of its messages: no later
\* one has them.
LEMMA MapsConfirm ==
    ASSUME TypeInv, WholeInv, NEW i \in 1 .. head, NEW ids \in requested,
           ids \subseteq 1 .. commits[i].state.LastID, namedFiles(commits[i].tree, ids) = {},
           confirmed' = confirmed \cup ids, UNCHANGED <<commits, acked, requested>>
    PROVE  maildrop!Next
<1> DEFINE tree == treeAt(head)
<1>1. head' = head /\ treeAt(head)' = tree
  BY DEF head, treeAt
<1>2. messagesIn(treeAt(head))' = messagesIn(tree) /\ messagesIn(acked)' = messagesIn(acked)
  BY <1>1 DEF messagesIn
<1>3. Follows(commits[i], commits[head])
  <2>1. head \in 1 .. head /\ i \in 1 .. head
    BY CommitIndices
  <2> QED
    BY <2>1 DEF WholeInv, CommitsInv
<1>4. /\ commits[i].state.LastID \in 0 .. MaxID /\ commits[head].state.LastID \in 0 .. MaxID
      /\ commits[i].state.LastID <= commits[head].state.LastID
  BY <1>3, CommitIndices DEF WholeInv, CommitsInv, Whole, Describes, StateOf, Follows
<1>5. ids \subseteq 1 .. commits[head].state.LastID
  BY <1>4
<1>6. namedFiles(tree, ids) = {}
  <2> SUFFICES ASSUME NEW name \in tree, idOf(name) \in ids PROVE FALSE
    BY DEF namedFiles
  <2>1. idOf(name) <= commits[i].state.LastID
    <3>1. idOf(name) \in 1 .. commits[i].state.LastID
      OBVIOUS
    <3> QED
      BY <1>4, <3>1
  <2>2. name \in commits[i].tree
    BY <1>3, <2>1 DEF Follows, treeAt
  <2> QED
    BY <2>2 DEF namedFiles
<1>7. {m \in messagesIn(tree) : m.ID \in ids} = {}
  BY <1>6, NoneNamed
<1>8. maildrop!Confirm
  BY <1>1, <1>2, <1>5, <1>7 DEF maildrop!Confirm, maildrop!named
<1> QED
  BY <1>8 DEF maildrop!Next

\* The answer of a commit: 250 for the message it has, +OK for the messages it
\* has not.
LEMMA MapsCommitDone ==
    ASSUME TypeInv, HistoryInv, DeletionInv, WholeInv, CommitDone
    PROVE  [maildrop!Next]_maildrop!vars
<1> USE DEF disk, memory, calls, clients
<1>1. /\ txn.phase = "landed" /\ head = txn.parent + 1
      /\ acked' = acked \cup txn.changes
      /\ confirmed' = confirmed \cup (IF txn.who \in Sessions THEN deletion[txn.who].ids ELSE {})
      /\ UNCHANGED <<commits, requested>>
  BY DEF CommitDone, verified
<1> DEFINE base == commits[txn.parent]
<1>2. /\ txn.parent \in 1 .. head /\ head \in 1 .. head
      /\ commits[head].tree = (base.tree \cup txn.changes) \ txn.removals
      /\ commits[head].state = txn.state
  <2>1. txn.parent \in 0 .. head /\ txn.parent # 0
    BY <1>1 DEF TypeInv, TypeOK, validTransaction
  <2>2. commits[head] = commitOf(txn)
    BY <1>1 DEF HistoryInv
  <2> QED
    BY <2>1, <2>2, CommitIndices DEF commitOf, treeAt
<1>3. Planned(txn, base, requested)
  BY <1>1 DEF WholeInv, PlannedInv
<1>4. base.state.LastID \in 0 .. MaxID /\ txn.state.LastID \in 0 .. MaxID
  BY <1>2, <1>3 DEF WholeInv, CommitsInv, Whole, Describes, StateOf, Planned
<1>5. CASE txn.who \in Sessions
  <2> DEFINE s == txn.who
             ids == deletion[s].ids
  <2>1. /\ deletion[s].st = "committing" /\ ids \subseteq 1 .. base.state.LastID
        /\ Removes(txn, base, ids)
    BY <1>1, <1>5 DEF WholeInv, RemovalInv
  <2>2. ids \in requested
    BY <1>5, <2>1 DEF DeletionInv
  <2>3. txn.state.LastID = base.state.LastID /\ txn.changes = {}
        /\ txn.removals = namedFiles(base.tree, ids)
    BY <2>1 DEF Removes
  <2>4. namedFiles(commits[head].tree, ids) = {}
    BY <1>2, <2>3 DEF namedFiles
  <2>5. ids \subseteq 1 .. commits[head].state.LastID /\ UNCHANGED acked
        /\ confirmed' = confirmed \cup ids
    BY <1>1, <1>2, <1>5, <2>1, <2>3
  <2> HIDE DEF ids
  <2> QED
    BY <1>1, <1>2, <2>2, <2>4, <2>5, MapsConfirm
<1>6. CASE txn.who \notin Sessions /\ Delivers(txn, base)
  <2>1. PICK size \in 0 .. MaxMessage : txn.changes = {messagePath(base.state.LastID + 1, size)}
    BY <1>6 DEF Delivers
  <2> DEFINE id == base.state.LastID + 1
             m == [ID |-> id, Size |-> size]
             name == messagePath(id, size)
  <2>2. id \in 1 .. MaxID /\ txn.removals = {} /\ m \in Messages /\ m.ID = id /\ m.Size = size
    BY <1>4, <1>6, MaxIDAssumption DEF Delivers, Messages
  <2>3. name \in treeAt(head) /\ acked' = acked \cup {name} /\ UNCHANGED confirmed
    BY <1>1, <1>2, <1>6, <2>1, <2>2 DEF treeAt
  <2>4. m \in messagesIn(treeAt(head))
    BY <2>2, <2>3 DEF messagesIn, Messages
  <2> HIDE DEF id
  <2>5. messagesIn(acked)' = messagesIn(acked) \cup {m}
    BY <2>2, <2>3, MessagesGrow DEF messagesIn
  <2>6. head' = head /\ treeAt(head)' = treeAt(head)
    BY <1>1 DEF head, treeAt
  <2>7. messagesIn(treeAt(head))' = messagesIn(treeAt(head))
    BY <2>6 DEF messagesIn
  <2> HIDE DEF m
  <2>8. maildrop!Accept
    BY <1>1, <2>3, <2>4, <2>5, <2>6, <2>7 DEF maildrop!Accept
  <2> QED
    BY <2>8 DEF maildrop!Next
<1>7. ASSUME txn.who \notin Sessions, NEW ids \in requested, Removes(txn, base, ids)
      PROVE  UNCHANGED maildrop!vars
  BY <1>1, <1>7, MapsNothing DEF Removes
<1> QED
  BY <1>3, <1>5, <1>6, <1>7 DEF Planned

\* Every step of Store is a step of Maildrop or none.
LEMMA MapsNext ==
    ASSUME TypeInv, HistoryInv, DeletionInv, WholeInv, [Next]_vars
    PROVE  [maildrop!Next]_maildrop!vars
<1> USE DEF disk, memory, calls, clients
<1>1. CASE UNCHANGED vars
  BY <1>1, MapsNothing DEF vars
<1>2. ASSUME NEW c \in Conns, ConnNext(c) PROVE UNCHANGED maildrop!vars
  BY <1>2, MapsNothing DEF ConnNext, Stage, QuotaRead, StageDone, Discard, PublishStart,
     WriteReceipt, SyncReceipt, ReceiptFails
<1>3. ASSUME NEW s \in Sessions, SessionNext(s) PROVE [maildrop!Next]_maildrop!vars
  <2>1. ASSUME NEW ids \in Requests, DeleteAs(s, ids) PROVE maildrop!Next
    <3>1. requested' = requested \cup {ids} /\ UNCHANGED <<commits, acked, confirmed>>
      BY <2>1 DEF DeleteAs
    <3>2. head' = head /\ treeAt(head)' = treeAt(head)
      BY <3>1 DEF head, treeAt
    <3>3. messagesIn(treeAt(head))' = messagesIn(treeAt(head))
          /\ messagesIn(acked)' = messagesIn(acked)
      BY <3>1, <3>2 DEF messagesIn
    <3>4. maildrop!Request
      BY <3>1, <3>2, <3>3 DEF maildrop!Request
    <3> QED
      BY <3>4 DEF maildrop!Next
  <2>2. CASE DeleteNothing(s)
    <3> DEFINE d == deletion[s]
               ids == d.ids
    <3>1. /\ d.st = "lock" /\ d.messages = {} /\ confirmed' = confirmed \cup ids
          /\ ~failure /\ UNCHANGED <<commits, acked, requested>>
      BY <2>2 DEF DeleteNothing
    <3>2. Resolved(d, commits) /\ ids \in requested
      BY <3>1 DEF WholeInv, ResolvedInv, DeletionInv
    <3>3. /\ d.commit \in 1 .. head /\ d.state = commits[d.commit].state
          /\ ids \subseteq 1 .. commits[d.commit].state.LastID
          /\ messagesOf(namedFiles(commits[d.commit].tree, ids)) = {}
      BY <3>1, <3>2 DEF Resolved, head
    <3>4. namedFiles(commits[d.commit].tree, ids) = {}
      BY <3>3 DEF messagesOf
    <3> HIDE DEF ids, d
    <3> QED
      BY <3>1, <3>2, <3>3, <3>4, MapsConfirm
  <2>3. CASE Snapshot(s) \/ Resolve(s) \/ ResolveFails(s) \/ Retry(s) \/ DeleteStart(s)
             \/ DeleteRefused(s)
    BY <2>3, MapsNothing DEF Snapshot, Resolve, ResolveFails, Retry, DeleteStart, DeleteRefused
  <2> QED
    BY <1>3, <2>1, <2>2, <2>3 DEF SessionNext
<1>4. CASE CommitNext
  <2>1. CASE StartImport \/ RefuseCommit \/ CheckpointSkipped \/ ImportFails
    BY <2>1, MapsNothing DEF StartImport, RefuseCommit, CheckpointSkipped, ImportFails
  <2>2. CASE Checkpoint
    <3>1. /\ txn.phase = "import" /\ fastForward(commitOf(txn))
          /\ UNCHANGED <<acked, requested, confirmed>>
      BY <2>2 DEF Checkpoint
    <3>2. Planned(txn, commits[txn.parent], requested)
      BY <3>1 DEF WholeInv, PlannedInv
    <3> QED
      BY <3>1, <3>2, MapsCommit
  <2> QED
    BY <1>4, <2>1, <2>2, MapsCommitDone DEF CommitNext
<1>5. CASE EnvironmentNext
  <2>1. CASE IdleClose \/ Close \/ Maintain \/ Crash \/ Start \/ Tick
    BY <2>1, MapsNothing DEF IdleClose, Close, Maintain, Crash, Start, Tick
  <2>2. CASE OrphanEOF
    <3>1. orphan.parent # 0 /\ UNCHANGED <<acked, requested, confirmed>>
          /\ (fastForward(commitOf(orphan)) \/ UNCHANGED commits)
      BY <2>2 DEF OrphanEOF
    <3>2. Planned(orphan, commits[orphan.parent], requested)
      BY <3>1 DEF WholeInv, PlannedInv
    <3> QED
      BY <3>1, <3>2, MapsCommit, MapsNothing
  <2>3. CASE OutsideCommit
    <3> DEFINE commit == [commits[head] EXCEPT !.parent = head]
    <3>1. fastForward(commit) /\ UNCHANGED <<acked, requested, confirmed>>
      BY <2>3 DEF OutsideCommit
    <3>2. commit.state = commits[head].state /\ commit.tree = commits[head].tree
      BY CommitIndices DEF HistoryInv, CommitFields
    <3>3. head' = head + 1 /\ commits'[head + 1] = commit
      <4> HIDE DEF commit
      <4> QED
        BY <3>1, AppendFacts DEF TypeInv, TypeOK, fastForward, head
    <3>4. treeAt(head)' = treeAt(head) /\ commits'[head'].state = commits[head].state
      BY <3>2, <3>3 DEF treeAt
    <3>5. messagesIn(treeAt(head))' = messagesIn(treeAt(head))
          /\ messagesIn(acked)' = messagesIn(acked)
      BY <3>1, <3>4 DEF messagesIn
    <3> QED
      BY <3>1, <3>4, <3>5 DEF maildrop!vars
  <2> QED
    BY <1>5, <2>1, <2>2, <2>3 DEF EnvironmentNext
<1> QED
  BY <1>1, <1>2, <1>3, <1>4, <1>5 DEF Next

\* The archive keeps Maildrop's promise: HEAD is the mailbox, each commit of a
\* receipt or a deletion changes it by one message or one whole request, and
\* 250 and +OK are answered only of what HEAD then has and has not.
THEOREM Implements ==
    ASSUME ~CutBetweenCommands PROVE Spec => ImplementsMaildrop
<1>1. DurableInv => DeletionInv
  BY DEF DurableInv
<1>2. TypeInv /\ HistoryInv /\ DurableInv /\ WholeInv /\ [Next]_vars
        => [maildrop!Next]_maildrop!vars
  BY <1>1, MapsNext
<1> QED
  BY WholeAlways, MapsInit, <1>2, PTL DEF Spec, ImplementsMaildrop, maildrop!Spec

-----------------------------------------------------------------------------
(* What Maildrop's actions give its clients. *)

\* IDs are given out once: nothing in the mailbox, and nothing whose deletion
\* was confirmed, has an ID that is still to come.
IDsAreOld ==
    LET lastID == commits[head].state.LastID
    IN  /\ lastID \in Nat
        /\ \A m \in messagesIn(treeAt(head)) : m.ID \in 1 .. lastID
        /\ confirmed \subseteq 1 .. lastID

Promises == IDsAreOld /\ maildrop!AcceptedStays /\ maildrop!DeletedStays

\* Maildrop's promises hold at first,
LEMMA PromisesInit == maildrop!Init => Promises
BY DEF maildrop!Init, Promises, IDsAreOld, maildrop!AcceptedStays, maildrop!DeletedStays,
   maildrop!named

\* and each of its actions keeps them.
LEMMA PromisesNext == Promises /\ [maildrop!Next]_maildrop!vars => Promises'
<1> SUFFICES ASSUME Promises, [maildrop!Next]_maildrop!vars PROVE Promises'
  OBVIOUS
<1> DEFINE mail == messagesIn(treeAt(head))
           lastID == commits[head].state.LastID
           accepted == messagesIn(acked)
<1>0. /\ lastID \in Nat
      /\ \A m \in mail : m.ID \in 1 .. lastID
      /\ confirmed \subseteq 1 .. lastID
      /\ \A m \in accepted : m \in mail \/ m.ID \in UNION requested
      /\ {m \in mail : m.ID \in confirmed} = {}
  BY DEF Promises, IDsAreOld, maildrop!AcceptedStays, maildrop!DeletedStays, maildrop!named
<1>1. SUFFICES
        /\ lastID' \in Nat
        /\ \A m \in mail' : m.ID \in 1 .. lastID'
        /\ confirmed' \subseteq 1 .. lastID'
        /\ \A m \in accepted' : m \in mail' \/ m.ID \in UNION requested'
        /\ {m \in mail' : m.ID \in confirmed'} = {}
  BY Zenon DEF Promises, IDsAreOld, maildrop!AcceptedStays, maildrop!DeletedStays, maildrop!named
<1>2. CASE maildrop!Deliver
  <2>1. PICK size \in 0 .. MaxMessage : mail' = mail \cup {[ID |-> lastID + 1, Size |-> size]}
    BY <1>2 DEF maildrop!Deliver
  <2>2. lastID' = lastID + 1 /\ accepted' = accepted /\ requested' = requested /\ confirmed' = confirmed
    BY <1>2 DEF maildrop!Deliver
  <2> HIDE DEF mail, lastID, accepted
  <2>3. \A m \in mail' : m.ID \in 1 .. lastID'
    BY <1>0, <2>1, <2>2
  <2>4. {m \in mail' : m.ID \in confirmed'} = {}
    BY <1>0, <2>1, <2>2
  <2> QED
    BY <1>0, <2>1, <2>2, <2>3, <2>4
<1>3. CASE maildrop!Accept
  <2>1. PICK m \in mail : accepted' = accepted \cup {m}
    BY <1>3 DEF maildrop!Accept
  <2>2. mail' = mail /\ lastID' = lastID /\ requested' = requested /\ confirmed' = confirmed
    BY <1>3 DEF maildrop!Accept
  <2> HIDE DEF mail, lastID, accepted
  <2> QED
    BY <1>0, <2>1, <2>2
<1>4. CASE maildrop!Request
  <2>1. PICK ids : requested' = requested \cup {ids}
    BY <1>4 DEF maildrop!Request
  <2>2. mail' = mail /\ lastID' = lastID /\ accepted' = accepted /\ confirmed' = confirmed
    BY <1>4 DEF maildrop!Request
  <2> HIDE DEF mail, lastID, accepted
  <2> QED
    BY <1>0, <2>1, <2>2
<1>5. CASE maildrop!Remove
  <2>1. PICK ids \in requested : mail' = mail \ {m \in mail : m.ID \in ids}
    BY <1>5 DEF maildrop!Remove, maildrop!named
  <2>2. lastID' = lastID /\ accepted' = accepted /\ requested' = requested /\ confirmed' = confirmed
    BY <1>5 DEF maildrop!Remove
  <2> HIDE DEF mail, lastID, accepted
  <2> QED
    BY <1>0, <2>1, <2>2
<1>6. CASE maildrop!Confirm
  <2>1. PICK ids \in requested : /\ ids \subseteq 1 .. lastID
                                 /\ {m \in mail : m.ID \in ids} = {}
                                 /\ confirmed' = confirmed \cup ids
    BY <1>6 DEF maildrop!Confirm, maildrop!named
  <2>2. mail' = mail /\ lastID' = lastID /\ accepted' = accepted /\ requested' = requested
    BY <1>6 DEF maildrop!Confirm
  <2> HIDE DEF mail, lastID, accepted
  <2> QED
    BY <1>0, <2>1, <2>2
<1>7. CASE UNCHANGED maildrop!vars
  <2>1. /\ mail' = mail /\ lastID' = lastID /\ accepted' = accepted
        /\ requested' = requested /\ confirmed' = confirmed
    BY <1>7 DEF maildrop!vars
  <2> HIDE DEF mail, lastID, accepted
  <2> QED
    BY <1>0, <2>1
<1> QED
  BY <1>2, <1>3, <1>4, <1>5, <1>6, <1>7 DEF maildrop!Next

\* What an implementation of Maildrop gives its clients: accepted mail stays
\* until a deletion that names it is asked for (the 250 of SMTP), and mail
\* whose deletion was confirmed is gone for good (the +OK of QUIT).
THEOREM PromisesHold == maildrop!Spec => [](maildrop!AcceptedStays /\ maildrop!DeletedStays)
<1>1. Promises => maildrop!AcceptedStays /\ maildrop!DeletedStays
  BY DEF Promises
<1> QED
  BY PromisesInit, PromisesNext, <1>1, PTL DEF maildrop!Spec

\* The archive keeps these promises, as it implements Maildrop.
THEOREM PromisesKept ==
    ASSUME ~CutBetweenCommands
    PROVE  Spec => [](maildrop!AcceptedStays /\ maildrop!DeletedStays)
BY Implements, PromisesHold, PTL DEF ImplementsMaildrop
=============================================================================
