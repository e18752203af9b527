----------------------------- MODULE Pop3Proofs -----------------------------
(***************************************************************************)
(* Theorems about Pop3, for any number of clients, messages and sessions   *)
(* that follow one another: a session sees the maildrop of its login, what *)
(* leaves the maildrop was marked and confirmed by QUIT, QUIT is never     *)
(* refused for what others did, and tokens are not lost.                   *)
(***************************************************************************)
EXTENDS Pop3, TreeProofs

(***************************************************************************)
(* The numbers of a login: the messages of its tree in ID order.           *)
(***************************************************************************)

\* Every message of the tree has one number.
LEMMA NumbersFacts ==
    ASSUME NEW lastID \in 0 .. MaxID, NEW t, IsTree(t, lastID)
    PROVE  /\ listed(t) \in Seq(messagesOf(t)) /\ Cardinality(t) \in Nat
           /\ Len(listed(t)) = Cardinality(t) /\ Range(listed(t)) = messagesOf(t)
           /\ \A i, j \in 1 .. Cardinality(t) : listed(t)[i] = listed(t)[j] => i = j
           /\ \A i \in 1 .. Cardinality(t) : listed(t)[i] \in messagesOf(t)
           /\ HaveSizes(messagesOf(t)) /\ Cardinality(messagesOf(t)) = Cardinality(t)
           /\ \A m \in messagesOf(t) : m.ID \in 1 .. lastID
           /\ \A a, b \in messagesOf(t) : a.ID = b.ID => a = b
<1> DEFINE M == messagesOf(t)
           q == sorted(M, byID)
           n == Cardinality(M)
<1>1. t \in SUBSET t
  OBVIOUS
<1>2. IsMessages(M) /\ n = Cardinality(t)
  BY <1>1, MessagesOfPart
<1>3. \A m \in M : m.ID \in 1 .. lastID /\ m.Size \in Nat
  BY TreeFacts DEF messagesOf, IsFile
<1>4. listed(t) = q
  BY DEF listed
<1> HIDE DEF M, q
<1>5. /\ n \in Nat /\ q \in Seq(M) /\ Len(q) = n /\ Range(q) = M
      /\ IsOrder(idOrder(M), M) /\ IsSorting(q, M, idOrder(M))
  BY <1>2, SortedFacts DEF q, n
<1>6. \A i \in 1 .. n : q[i] \in M
  BY <1>5
<1>7. ASSUME NEW i \in 1 .. n, NEW j \in 1 .. n, i < j PROVE q[i] # q[j]
  <2>1. <<q[i], q[j]>> \in idOrder(M)
    BY <1>5, <1>7 DEF IsSorting, n
  <2>2. \A x \in M : <<x, x>> \notin idOrder(M)
    BY <1>5 DEF IsOrder
  <2> QED
    BY <1>6, <2>1, <2>2
<1>8. \A i, j \in 1 .. n : q[i] = q[j] => i = j
  <2> SUFFICES ASSUME NEW i \in 1 .. n, NEW j \in 1 .. n, q[i] = q[j], i # j PROVE FALSE
    OBVIOUS
  <2>1. i < j \/ j < i
    BY <1>5
  <2> QED
    BY <1>7, <2>1
<1>9. HaveSizes(M)
  BY <1>2, <1>3 DEF HaveSizes, IsMessages
<1>10. \A a, b \in M : a.ID = b.ID => a = b
  BY <1>2 DEF IsMessages
<1> HIDE DEF n
<1> QED
  BY <1>2, <1>3, <1>4, <1>5, <1>6, <1>8, <1>9, <1>10 DEF M, n

\* The messages with these numbers.
numbered(t, numbers) == {listed(t)[number] : number \in numbers}

\* There are as many as there are numbers.
LEMMA NumberedFacts ==
    ASSUME NEW lastID \in 0 .. MaxID, NEW t, IsTree(t, lastID),
           NEW numbers \in SUBSET (1 .. Cardinality(t))
    PROVE  /\ numbered(t, numbers) \subseteq messagesOf(t)
           /\ IsFiniteSet(numbers) /\ Cardinality(numbers) \in Nat
           /\ Cardinality(numbered(t, numbers)) = Cardinality(numbers)
<1> DEFINE q == listed(t)
           T == numbered(t, numbers)
           f == [number \in numbers |-> q[number]]
<1>1. /\ Cardinality(t) \in Nat
      /\ \A i, j \in 1 .. Cardinality(t) : q[i] = q[j] => i = j
      /\ \A i \in 1 .. Cardinality(t) : q[i] \in messagesOf(t)
  BY NumbersFacts
<1>2. T = {q[number] : number \in numbers}
  BY DEF numbered
<1>3. IsFiniteSet(numbers) /\ Cardinality(numbers) \in Nat
  <2>1. IsFiniteSet(1 .. Cardinality(t))
    BY <1>1, FS_Interval
  <2>2. IsFiniteSet(numbers)
    BY <2>1, FS_Subset
  <2> QED
    BY <2>2, FS_CardinalityType
<1> HIDE DEF q, T
<1>4. f \in [numbers -> T] /\ \A m \in T : \E number \in numbers : f[number] = m
  BY <1>2
<1>5. \A i, j \in numbers : f[i] = f[j] => i = j
  BY <1>1
<1> HIDE DEF f
<1>6. f \in Bijection(numbers, T)
  BY <1>4, <1>5 DEF Bijection, Injection, Surjection, IsInjective
<1>7. Cardinality(T) = Cardinality(numbers)
  <2>1. ExistsBijection(numbers, T)
    BY <1>6 DEF ExistsBijection
  <2> QED
    BY <1>3, <2>1, FS_Bijection
<1>8. T \subseteq messagesOf(t)
  BY <1>1, <1>2
<1> QED
  BY <1>3, <1>7, <1>8 DEF T

(***************************************************************************)
(* The marks of a session: a message ID for every marked number, their     *)
(* octets, and the IDs that the client asked for.                          *)
(***************************************************************************)
IsMarks(deleted, octets, ids, t) ==
    /\ DOMAIN deleted \subseteq 1 .. Cardinality(t)
    /\ deleted = [number \in DOMAIN deleted |-> listed(t)[number].ID]
    /\ octets = octetsOf(numbered(t, DOMAIN deleted))
    /\ ids = {m.ID : m \in numbered(t, DOMAIN deleted)}

\* Nothing is marked at first, and after RSET.
LEMMA NoMarks ==
    ASSUME NEW t
    PROVE  IsMarks(<<>>, 0, {}, t)
<1>1. DOMAIN <<>> = {} /\ <<>> = [number \in {} |-> listed(t)[number].ID]
  OBVIOUS
<1>2. numbered(t, {}) = {}
  BY DEF numbered
<1>3. HaveSizes({})
  BY FS_EmptySet DEF HaveSizes
<1>4. octetsOf({}) = 0
  BY <1>3, OctetsFacts
<1> QED
  BY <1>1, <1>2, <1>4 DEF IsMarks

\* DELE marks one message more.
LEMMA MoreMarks ==
    ASSUME NEW lastID \in 0 .. MaxID, NEW t, IsTree(t, lastID),
           NEW deleted, NEW octets, NEW ids, IsMarks(deleted, octets, ids, t),
           NEW number \in 1 .. Cardinality(t), number \notin DOMAIN deleted
    PROVE  LET m == listed(t)[number]
           IN  IsMarks(marking(deleted, number, m.ID), octets + m.Size, ids \cup {m.ID}, t)
<1> DEFINE m == listed(t)[number]
           D == DOMAIN deleted
           more == marking(deleted, number, m.ID)
<1>1. D \subseteq 1 .. Cardinality(t) /\ deleted = [k \in D |-> listed(t)[k].ID]
  BY DEF IsMarks
<1>2. more = [k \in D \cup {number} |-> IF k = number THEN m.ID ELSE deleted[k]]
  BY DEF marking
<1>3. more = [k \in D \cup {number} |-> listed(t)[k].ID] /\ DOMAIN more = D \cup {number}
  BY <1>1, <1>2
<1>4. numbered(t, D \cup {number}) = numbered(t, D) \cup {m}
  BY DEF numbered
<1>5. m \notin numbered(t, D)
  <2>1. \A i, j \in 1 .. Cardinality(t) : listed(t)[i] = listed(t)[j] => i = j
    BY NumbersFacts
  <2> QED
    BY <1>1, <2>1 DEF numbered
<1>6. D \cup {number} \in SUBSET (1 .. Cardinality(t))
  BY <1>1
<1> HIDE DEF more, D
<1>7. numbered(t, D \cup {number}) \subseteq messagesOf(t)
  BY <1>6, NumberedFacts
<1>8. HaveSizes(messagesOf(t))
  BY NumbersFacts
<1>9. octetsOf(numbered(t, D) \cup {m}) = octetsOf(numbered(t, D)) + m.Size
  <2> DEFINE T == numbered(t, D)
  <2>1. HaveSizes(T \cup {m})
    BY <1>4, <1>7, <1>8, FS_Subset DEF HaveSizes
  <2>2. HaveSizes(T)
    BY <2>1, FS_Subset DEF HaveSizes
  <2>3. (T \cup {m}) \ {m} = T /\ m \in T \cup {m}
    BY <1>5
  <2> HIDE DEF T, m
  <2>4. octetsOf(T \cup {m}) = m.Size + octetsOf((T \cup {m}) \ {m})
    BY <2>1, <2>3, OctetsFacts
  <2>5. octetsOf(T) \in Nat /\ m.Size \in Nat
    BY <2>1, <2>2, OctetsFacts DEF HaveSizes
  <2>6. octetsOf((T \cup {m}) \ {m}) = octetsOf(T)
    BY <2>3
  <2>7. octetsOf(T \cup {m}) = m.Size + octetsOf(T)
    BY <2>4, <2>6
  <2>8. octetsOf(T \cup {m}) = octetsOf(T) + m.Size
    BY <2>5, <2>7
  <2> QED
    BY <2>8 DEF T
<1>10. octets = octetsOf(numbered(t, D)) /\ ids = {x.ID : x \in numbered(t, D)}
  BY DEF IsMarks, D
<1>11. octets + m.Size = octetsOf(numbered(t, DOMAIN more))
  BY <1>3, <1>4, <1>9, <1>10
<1>12. ids \cup {m.ID} = {x.ID : x \in numbered(t, DOMAIN more)}
  BY <1>3, <1>4, <1>10
<1>13. DOMAIN more \subseteq 1 .. Cardinality(t) /\ more = [k \in DOMAIN more |-> listed(t)[k].ID]
  BY <1>3, <1>6
<1> HIDE DEF m
<1>14. IsMarks(more, octets + m.Size, ids \cup {m.ID}, t)
  BY <1>11, <1>12, <1>13 DEF IsMarks, m
<1> QED
  BY <1>14 DEF more, m

(***************************************************************************)
(* What a session sees: the tree of its login.                             *)
(***************************************************************************)
SeesLogin(snapshot, numbers, lastID) ==
    /\ lastID \in 0 .. MaxID /\ IsTree(snapshot.tree, lastID)
    /\ snapshot.LastID \in 0 .. MaxID /\ IsTree(snapshot.tree, snapshot.LastID)
    /\ snapshot.index = buildDirectoryIndex(countsOf(snapshot.tree))
    /\ snapshot.MessageCount = Cardinality(snapshot.tree)
    /\ snapshot.TotalOctets = octetsOf(messagesOf(snapshot.tree))
    /\ numbers = listed(snapshot.tree)

\* PASS takes the snapshot of the maildrop as it is.
LEMMA LoginSees ==
    ASSUME StateOf(state, tree)
    PROVE  SeesLogin(Snapshot, sorted({messageFromPath(name) : name \in tree}, byID), state.LastID)
<1> DEFINE sn == Snapshot
<1>1. /\ sn.LastID = state.LastID /\ sn.TotalOctets = state.TotalOctets /\ sn.MessageCount = messageCount(state)
      /\ sn.index = buildDirectoryIndex(state.Directories) /\ sn.tree = tree
  BY DEF Snapshot
<1>2. /\ state.LastID \in 0 .. MaxID /\ IsTree(tree, state.LastID)
      /\ state.Directories = countsOf(tree) /\ state.TotalOctets = octetsOf(messagesOf(tree))
  BY DEF StateOf
<1>3. messageCount(state) = Cardinality(tree)
  BY <1>2, StateIsValid, NumbersFacts
<1>4. sorted({messageFromPath(name) : name \in tree}, byID) = listed(tree)
  BY DEF listed, messagesOf
<1> HIDE DEF sn
<1>5. SeesLogin(sn, listed(tree), state.LastID)
  BY <1>1, <1>2, <1>3 DEF SeesLogin
<1> QED
  BY <1>4, <1>5 DEF sn

\* What Lookup and ListAt find by a snapshot.
LEMMA SnapshotFinds ==
    ASSUME NEW snapshot, NEW numbers, NEW lastID, SeesLogin(snapshot, numbers, lastID)
    PROVE  /\ \A number \in 1 .. Cardinality(snapshot.tree) :
                 Lookup(snapshot.tree, snapshot.index, number) = numbers[number]
           /\ ListAt(snapshot.tree, snapshot.index, snapshot.LastID) = numbers
<1> DEFINE t == snapshot.tree
           index == snapshot.index
<1>1. /\ lastID \in 0 .. MaxID /\ IsTree(t, lastID) /\ numbers = listed(t)
      /\ snapshot.LastID \in 0 .. MaxID /\ IsTree(t, snapshot.LastID)
      /\ index = buildDirectoryIndex(countsOf(t))
  BY DEF SeesLogin
<1> HIDE DEF t, index
<1>2. \E paths, n : IsListing(t, paths, n) /\ index.leaves = Leaves(t, paths, n)
  BY <1>1, IndexOfTree
<1>3. \A number \in 1 .. Cardinality(t) : Lookup(t, index, number) = listed(t)[number]
  BY <1>1, <1>2, LookupFinds
<1>4. ListAt(t, index, snapshot.LastID) = listed(t)
  BY <1>1, <1>2, ListAtFinds
<1> QED
  BY <1>1, <1>3, <1>4 DEF t, index

-----------------------------------------------------------------------------
(* The invariant. *)

\* The IDs in the maildrop.
LiveIDs == {messageFromPath(name).ID : name \in tree}

\* The fields of a session.
IsSession(s) ==
    s = [st |-> s.st, username |-> s.username, authenticated |-> s.authenticated,
         snapshot |-> s.snapshot, deleted |-> s.deleted, deletedOctets |-> s.deletedOctets,
         authFailures |-> s.authFailures]

\* A session s, its numbers and the IDs it wants to have deleted, when live are
\* the IDs in the maildrop and requests those that some QUIT has named.
SessionInv(s, numbers, ids, lastID, live, requests) ==
    /\ IsSession(s)
    /\ s.st \in {"closed", "open", "update", "updated"} /\ s.authenticated \in BOOLEAN
    /\ s.authenticated = FALSE =>
          s.st \in {"closed", "open"} /\ s.deleted = <<>> /\ s.deletedOctets = 0 /\ ids = {}
    /\ s.authenticated = TRUE =>
          /\ SeesLogin(s.snapshot, numbers, lastID)
          /\ IsMarks(s.deleted, s.deletedOctets, ids, s.snapshot.tree)
    /\ s.st \in {"update", "updated"} => ids \subseteq requests
    /\ s.st = "updated" => ids \cap live = {}

\* The inductive invariant: the state file describes the tree, every session sees
\* its login, what is gone was asked for, and what was confirmed is gone.
PopInv ==
    /\ StateOf(state, tree)
    /\ session = [c \in Clients |-> session[c]] /\ rank = [c \in Clients |-> rank[c]]
    /\ wanted = [c \in Clients |-> wanted[c]]
    /\ \A c \in Clients :
          SessionInv(session[c], rank[c], wanted[c], state.LastID, LiveIDs, asked)
    /\ (1 .. state.LastID) \ LiveIDs \subseteq asked
    /\ confirmed \cap LiveIDs = {} /\ confirmed \subseteq 1 .. state.LastID

\* What a session wants to have deleted are IDs of its login.
LEMMA WantedIDs ==
    ASSUME NEW s, NEW numbers, NEW ids, NEW lastID, NEW live, NEW requests,
           SessionInv(s, numbers, ids, lastID, live, requests), lastID \in 0 .. MaxID
    PROVE  /\ ids \subseteq 1 .. lastID
           /\ s.authenticated = TRUE => Range(s.deleted) = ids
<1>1. CASE s.authenticated = FALSE
  BY <1>1 DEF SessionInv
<1>2. CASE s.authenticated = TRUE
  <2> DEFINE t == s.snapshot.tree
             deleted == s.deleted
             D == DOMAIN deleted
  <2>1. SeesLogin(s.snapshot, numbers, lastID) /\ IsMarks(deleted, s.deletedOctets, ids, t)
    BY <1>2 DEF SessionInv
  <2>2. IsTree(t, lastID)
    BY <2>1 DEF SeesLogin
  <2>3. /\ D \subseteq 1 .. Cardinality(t) /\ deleted = [k \in D |-> listed(t)[k].ID]
        /\ ids = {m.ID : m \in numbered(t, D)}
    BY <2>1 DEF IsMarks
  <2> HIDE DEF t, deleted
  <2>4. D \in SUBSET (1 .. Cardinality(t))
    BY <2>3
  <2> HIDE DEF D
  <2>5. numbered(t, D) \subseteq messagesOf(t) /\ \A m \in messagesOf(t) : m.ID \in 1 .. lastID
    BY <2>2, <2>4, NumberedFacts, NumbersFacts
  <2>6. ids = {listed(t)[k].ID : k \in D}
    BY <2>3 DEF numbered
  <2>7. Range(deleted) = ids
    <3>1. DOMAIN deleted = D /\ \A k \in D : deleted[k] = listed(t)[k].ID
      BY <2>3
    <3> QED
      BY <2>6, <3>1 DEF Range
  <2> QED
    BY <2>3, <2>5, <2>7 DEF deleted
<1> QED
  BY <1>1, <1>2 DEF SessionInv

\* What other clients do, and mail that arrives, does not touch a session.
LEMMA SessionKept ==
    ASSUME NEW s, NEW numbers, NEW ids, NEW lastID \in 0 .. MaxID, NEW live, NEW requests,
           SessionInv(s, numbers, ids, lastID, live, requests),
           NEW last \in 0 .. MaxID, lastID <= last,
           NEW now, now \cap (1 .. lastID) \subseteq live, NEW more, requests \subseteq more
    PROVE  SessionInv(s, numbers, ids, last, now, more)
<1>1. ids \subseteq 1 .. lastID
  BY WantedIDs
<1>2. ASSUME SeesLogin(s.snapshot, numbers, lastID) PROVE SeesLogin(s.snapshot, numbers, last)
  <2> DEFINE t == s.snapshot.tree
  <2>1. IsTree(t, lastID)
    BY <1>2 DEF SeesLogin
  <2>2. \A id \in 1 .. lastID : id \in 1 .. last
    OBVIOUS
  <2> HIDE DEF t
  <2>3. IsTree(t, last)
    BY <2>1, <2>2 DEF IsTree
  <2> QED
    BY <1>2, <2>3 DEF SeesLogin, t
<1>3. s.st = "updated" => ids \cap now = {}
  BY <1>1 DEF SessionInv
<1> QED
  BY <1>2, <1>3 DEF SessionInv

\* Sessions that differ from s in some fields.
LEMMA OtherState ==
    ASSUME NEW s, IsSession(s), NEW st, NEW new, new = [s EXCEPT !.st = st]
    PROVE  /\ IsSession(new) /\ new.st = st /\ new.authenticated = s.authenticated
           /\ new.snapshot = s.snapshot /\ new.deleted = s.deleted
           /\ new.deletedOctets = s.deletedOctets
BY DEF IsSession

\* The same for its name.
LEMMA OtherName ==
    ASSUME NEW s, IsSession(s), NEW username, NEW new, new = [s EXCEPT !.username = username]
    PROVE  /\ IsSession(new) /\ new.st = s.st /\ new.authenticated = s.authenticated
           /\ new.snapshot = s.snapshot /\ new.deleted = s.deleted
           /\ new.deletedOctets = s.deletedOctets
BY DEF IsSession

\* The session of a client that is not connected.
LEMMA NewSession ==
    ASSUME NEW numbers, NEW lastID, NEW live, NEW requests
    PROVE  SessionInv(newSession, numbers, {}, lastID, live, requests)
BY DEF SessionInv, IsSession, newSession

\* A step of one client.
LEMMA OneClient ==
    ASSUME PopInv, NEW c \in Clients, NEW new, NEW numbers, NEW ids,
           session' = [session EXCEPT ![c] = new], rank' = [rank EXCEPT ![c] = numbers],
           wanted' = [wanted EXCEPT ![c] = ids],
           StateOf(state, tree)', state'.LastID = state.LastID, LiveIDs' \subseteq LiveIDs,
           asked \subseteq asked', (1 .. state.LastID) \ LiveIDs' \subseteq asked',
           confirmed' \cap LiveIDs' = {}, confirmed' \subseteq 1 .. state.LastID,
           SessionInv(new, numbers, ids, state.LastID, LiveIDs', asked')
    PROVE  PopInv'
<1>1. /\ session = [x \in Clients |-> session[x]] /\ rank = [x \in Clients |-> rank[x]]
      /\ wanted = [x \in Clients |-> wanted[x]] /\ state.LastID \in 0 .. MaxID
  BY DEF PopInv, StateOf
<1>2. /\ session' = [x \in Clients |-> session'[x]] /\ session'[c] = new
      /\ \A x \in Clients : x # c => session'[x] = session[x]
  BY <1>1
<1>3. /\ rank' = [x \in Clients |-> rank'[x]] /\ rank'[c] = numbers
      /\ \A x \in Clients : x # c => rank'[x] = rank[x]
  BY <1>1
<1>4. /\ wanted' = [x \in Clients |-> wanted'[x]] /\ wanted'[c] = ids
      /\ \A x \in Clients : x # c => wanted'[x] = wanted[x]
  BY <1>1
<1>5. ASSUME NEW x \in Clients
      PROVE  SessionInv(session'[x], rank'[x], wanted'[x], state.LastID, LiveIDs', asked')
  <2>1. CASE x = c
    BY <1>2, <1>3, <1>4, <2>1
  <2>2. CASE x # c
    <3>1. SessionInv(session[x], rank[x], wanted[x], state.LastID, LiveIDs, asked)
      BY DEF PopInv
    <3>2. LiveIDs' \cap (1 .. state.LastID) \subseteq LiveIDs /\ state.LastID <= state.LastID
      BY <1>1
    <3>3. SessionInv(session[x], rank[x], wanted[x], state.LastID, LiveIDs', asked')
      BY <1>1, <3>1, <3>2, SessionKept
    <3> QED
      BY <1>2, <1>3, <1>4, <2>2, <3>3
  <2> QED
    BY <2>1, <2>2
<1> QED
  BY <1>2, <1>3, <1>4, <1>5 DEF PopInv

\* A step of one client that leaves the maildrop alone.
LEMMA OneSession ==
    ASSUME PopInv, NEW c \in Clients, NEW new, NEW numbers, NEW ids,
           session' = [session EXCEPT ![c] = new], rank' = [rank EXCEPT ![c] = numbers],
           wanted' = [wanted EXCEPT ![c] = ids], state' = state, tree' = tree,
           asked \subseteq asked', confirmed' \cap LiveIDs = {},
           confirmed' \subseteq 1 .. state.LastID,
           SessionInv(new, numbers, ids, state.LastID, LiveIDs, asked')
    PROVE  PopInv'
<1>1. StateOf(state, tree)' /\ LiveIDs' = LiveIDs /\ (1 .. state.LastID) \ LiveIDs \subseteq asked'
  BY DEF PopInv, LiveIDs
<1>2. LiveIDs' \subseteq LiveIDs /\ state'.LastID = state.LastID
  BY <1>1
<1>3. /\ confirmed' \cap LiveIDs' = {} /\ (1 .. state.LastID) \ LiveIDs' \subseteq asked'
      /\ SessionInv(new, numbers, ids, state.LastID, LiveIDs', asked')
  BY <1>1
<1> QED
  BY <1>1, <1>2, <1>3, OneClient

\* A client's values.
LEMMA ClientFacts ==
    ASSUME PopInv, NEW c \in Clients
    PROVE  /\ SessionInv(session[c], rank[c], wanted[c], state.LastID, LiveIDs, asked)
           /\ IsSession(session[c]) /\ session[c].authenticated \in BOOLEAN
           /\ session = [session EXCEPT ![c] = session[c]]
           /\ rank = [rank EXCEPT ![c] = rank[c]] /\ wanted = [wanted EXCEPT ![c] = wanted[c]]
           /\ confirmed \cap LiveIDs = {} /\ confirmed \subseteq 1 .. state.LastID
<1>1. SessionInv(session[c], rank[c], wanted[c], state.LastID, LiveIDs, asked)
  BY DEF PopInv
<1>2. IsSession(session[c]) /\ session[c].authenticated \in BOOLEAN
  BY <1>1 DEF SessionInv
<1>3. /\ session = [x \in Clients |-> session[x]] /\ rank = [x \in Clients |-> rank[x]]
      /\ wanted = [x \in Clients |-> wanted[x]]
  BY DEF PopInv
<1>4. session = [session EXCEPT ![c] = session[c]]
  BY <1>3
<1>5. rank = [rank EXCEPT ![c] = rank[c]] /\ wanted = [wanted EXCEPT ![c] = wanted[c]]
  BY <1>3
<1> QED
  BY <1>1, <1>2, <1>4, <1>5 DEF PopInv

-----------------------------------------------------------------------------
(* The steps. *)

\* A connection is accepted; USER; a wrong password.
LEMMA NameSteps ==
    ASSUME PopInv, NEW c \in Clients,
           \/ Accept(c)
           \/ \E username \in Usernames : USER(c, username)
           \/ \E password \in Passwords : PASSFails(c, password)
    PROVE  PopInv'
<1> DEFINE s == session[c]
<1>1. SessionInv(s, rank[c], wanted[c], state.LastID, LiveIDs, asked) /\ IsSession(s)
  BY ClientFacts
<1>2. PICK new : /\ session' = [session EXCEPT ![c] = new]
                 /\ IsSession(new) /\ new.st = "open" /\ new.authenticated = s.authenticated
                 /\ new.snapshot = s.snapshot /\ new.deleted = s.deleted
                 /\ new.deletedOctets = s.deletedOctets
  <2>1. CASE Accept(c)
    <3> DEFINE new == [s EXCEPT !.st = "open"]
    <3>1. session' = [session EXCEPT ![c] = new]
      BY <2>1 DEF Accept
    <3> HIDE DEF s
    <3>2. /\ IsSession(new) /\ new.st = "open" /\ new.authenticated = s.authenticated
          /\ new.snapshot = s.snapshot /\ new.deleted = s.deleted
          /\ new.deletedOctets = s.deletedOctets
      BY <1>1, OtherState
    <3> QED
      BY <3>1, <3>2
  <2>2. ASSUME NEW username \in Usernames, USER(c, username)
        PROVE  \E new : /\ session' = [session EXCEPT ![c] = new]
                        /\ IsSession(new) /\ new.st = "open" /\ new.authenticated = s.authenticated
                        /\ new.snapshot = s.snapshot /\ new.deleted = s.deleted
                        /\ new.deletedOctets = s.deletedOctets
    <3> DEFINE new == [s EXCEPT !.username = username]
    <3>1. session' = [session EXCEPT ![c] = new] /\ s.st = "open"
      BY <2>2 DEF USER
    <3> HIDE DEF s
    <3>2. /\ IsSession(new) /\ new.st = s.st /\ new.authenticated = s.authenticated
          /\ new.snapshot = s.snapshot /\ new.deleted = s.deleted
          /\ new.deletedOctets = s.deletedOctets
      BY <1>1, OtherName
    <3> QED
      BY <3>1, <3>2
  <2>3. ASSUME NEW password \in Passwords, PASSFails(c, password)
        PROVE  \E new : /\ session' = [session EXCEPT ![c] = new]
                        /\ IsSession(new) /\ new.st = "open" /\ new.authenticated = s.authenticated
                        /\ new.snapshot = s.snapshot /\ new.deleted = s.deleted
                        /\ new.deletedOctets = s.deletedOctets
    <3> DEFINE new == [s EXCEPT !.username = "", !.authFailures = s.authFailures + 1]
    <3>1. session' = [session EXCEPT ![c] = new] /\ s.st = "open"
      BY <2>3 DEF PASSFails
    <3> DEFINE failures == s.authFailures + 1
    <3>3. new = [s EXCEPT !.username = "", !.authFailures = failures]
      OBVIOUS
    <3> HIDE DEF s, new, failures
    <3>2. /\ IsSession(new) /\ new.st = s.st /\ new.authenticated = s.authenticated
          /\ new.snapshot = s.snapshot /\ new.deleted = s.deleted
          /\ new.deletedOctets = s.deletedOctets
      BY <1>1, <3>3 DEF IsSession
    <3> QED
      BY <3>1, <3>2
  <2> QED
    BY <2>1, <2>2, <2>3
<1>3. /\ state' = state /\ tree' = tree /\ asked' = asked /\ confirmed' = confirmed
      /\ rank' = rank /\ wanted' = wanted
  BY DEF Accept, USER, PASSFails, mailbox, ghosts
<1>4. SessionInv(new, rank[c], wanted[c], state.LastID, LiveIDs, asked)
  BY <1>1, <1>2 DEF SessionInv
<1>5. /\ rank' = [rank EXCEPT ![c] = rank[c]] /\ wanted' = [wanted EXCEPT ![c] = wanted[c]]
      /\ confirmed' \cap LiveIDs = {} /\ confirmed' \subseteq 1 .. state.LastID
      /\ asked \subseteq asked'
  BY <1>3, ClientFacts
<1>6. SessionInv(new, rank[c], wanted[c], state.LastID, LiveIDs, asked')
  BY <1>3, <1>4
<1>7. /\ session' = [session EXCEPT ![c] = new] /\ state' = state /\ tree' = tree
  BY <1>2, <1>3
<1> HIDE DEF s
<1> QED
  BY <1>5, <1>6, <1>7, OneSession

\* PASS: the session sees the maildrop as it is.
LEMMA PASSStep ==
    ASSUME PopInv, NEW c \in Clients, NEW password \in Passwords, PASS(c, password)
    PROVE  PopInv'
<1> DEFINE s == session[c]
           numbers == sorted({messageFromPath(name) : name \in tree}, byID)
           new == [s EXCEPT !.authenticated = TRUE, !.snapshot = Snapshot]
<1>1. SessionInv(s, rank[c], wanted[c], state.LastID, LiveIDs, asked) /\ IsSession(s)
  BY ClientFacts
<1>2. /\ session' = [session EXCEPT ![c] = new] /\ rank' = [rank EXCEPT ![c] = numbers]
      /\ s.st = "open" /\ ~s.authenticated
      /\ state' = state /\ tree' = tree /\ asked' = asked /\ confirmed' = confirmed
      /\ wanted' = wanted
  BY DEF PASS, mailbox
<1>3. SeesLogin(Snapshot, numbers, state.LastID)
  BY LoginSees DEF PopInv
<1>9. new = [s EXCEPT !.authenticated = TRUE, !.snapshot = Snapshot]
  OBVIOUS
<1> HIDE DEF numbers, s, new
<1>4. /\ IsSession(new) /\ new.st = s.st /\ new.authenticated = TRUE
      /\ new.snapshot = Snapshot /\ new.deleted = s.deleted
      /\ new.deletedOctets = s.deletedOctets
  BY <1>1, <1>9 DEF IsSession
<1>5. s.deleted = <<>> /\ s.deletedOctets = 0 /\ wanted[c] = {}
  BY <1>1, <1>2 DEF SessionInv
<1> HIDE DEF new
<1>6. IsMarks(new.deleted, new.deletedOctets, wanted[c], new.snapshot.tree)
  BY <1>4, <1>5, NoMarks
<1>7. SessionInv(new, numbers, wanted[c], state.LastID, LiveIDs, asked')
  BY <1>2, <1>3, <1>4, <1>6 DEF SessionInv
<1>8. /\ wanted' = [wanted EXCEPT ![c] = wanted[c]]
      /\ confirmed' \cap LiveIDs = {} /\ confirmed' \subseteq 1 .. state.LastID
      /\ asked \subseteq asked'
  BY <1>2, ClientFacts
<1> QED
  BY <1>2, <1>7, <1>8, OneSession

\* DELE marks one message, RSET takes all marks back.
LEMMA MarkSteps ==
    ASSUME PopInv, NEW c \in Clients, RSET(c) \/ \E number \in 1 .. MaxID : DELE(c, number)
    PROVE  PopInv'
<1> DEFINE s == session[c]
           t == s.snapshot.tree
<1>1. SessionInv(s, rank[c], wanted[c], state.LastID, LiveIDs, asked) /\ IsSession(s)
      /\ rank = [rank EXCEPT ![c] = rank[c]]
      /\ confirmed \cap LiveIDs = {} /\ confirmed \subseteq 1 .. state.LastID
  BY ClientFacts
<1>2. /\ s.st = "open" /\ s.authenticated
      /\ state' = state /\ tree' = tree /\ asked' = asked /\ confirmed' = confirmed
      /\ rank' = rank
  BY DEF RSET, DELE, ready, mailbox
<1>3. /\ SeesLogin(s.snapshot, rank[c], state.LastID)
      /\ IsMarks(s.deleted, s.deletedOctets, wanted[c], t) /\ s.authenticated = TRUE
  BY <1>1, <1>2 DEF SessionInv
<1>4. PICK deleted, octets, ids :
         /\ session' = [session EXCEPT ![c] = [s EXCEPT !.deleted = deleted, !.deletedOctets = octets]]
         /\ wanted' = [wanted EXCEPT ![c] = ids] /\ IsMarks(deleted, octets, ids, t)
  <2>1. CASE RSET(c)
    <3>1. /\ session' = [session EXCEPT ![c] = [s EXCEPT !.deleted = <<>>, !.deletedOctets = 0]]
          /\ wanted' = [wanted EXCEPT ![c] = {}]
      BY <2>1 DEF RSET
    <3> QED
      BY <3>1, NoMarks
  <2>2. ASSUME NEW number \in 1 .. MaxID, DELE(c, number)
        PROVE  \E deleted, octets, ids :
                  /\ session' = [session EXCEPT ![c] = [s EXCEPT !.deleted = deleted,
                                                                 !.deletedOctets = octets]]
                  /\ wanted' = [wanted EXCEPT ![c] = ids] /\ IsMarks(deleted, octets, ids, t)
    <3> DEFINE m == listed(t)[number]
               deleted == marking(s.deleted, number, m.ID)
               octets == s.deletedOctets + m.Size
               ids == wanted[c] \cup {m.ID}
    <3>1. /\ number \in 1 .. Cardinality(t) /\ number \notin DOMAIN s.deleted
      BY <1>3, <2>2 DEF DELE, available, SeesLogin
    <3>2. rank[c][number] = m /\ state.LastID \in 0 .. MaxID /\ IsTree(t, state.LastID)
      BY <1>3 DEF SeesLogin
    <3>3. lookup(c, number) = m
      BY <1>3, <3>1, <3>2, SnapshotFinds DEF lookup
    <3>4. session' = [session EXCEPT ![c] = [s EXCEPT !.deleted = deleted,
                                                      !.deletedOctets = octets]]
      <4>1. session' = [session EXCEPT
                  ![c].deleted = marking(@, number, lookup(c, number).ID),
                  ![c].deletedOctets = @ + lookup(c, number).Size]
        BY <2>2 DEF DELE
      <4> HIDE DEF m
      <4>2. session' = [session EXCEPT ![c].deleted = marking(@, number, m.ID),
                                       ![c].deletedOctets = @ + m.Size]
        BY <3>3, <4>1
      <4> QED
        BY <4>2
    <3>5. wanted' = [wanted EXCEPT ![c] = ids]
      BY <2>2, <3>2 DEF DELE
    <3>6. IsMarks(deleted, octets, ids, t)
      BY <1>3, <3>1, <3>2, MoreMarks
    <3> HIDE DEF deleted, octets, ids
    <3> QED
      BY <3>4, <3>5, <3>6
  <2> QED
    BY <2>1, <2>2
<1> DEFINE new == [s EXCEPT !.deleted = deleted, !.deletedOctets = octets]
<1>5. /\ IsSession(new) /\ new.st = s.st /\ new.authenticated = s.authenticated
      /\ new.snapshot = s.snapshot /\ new.deleted = deleted
      /\ new.deletedOctets = octets
  <2>1. new = [s EXCEPT !.deleted = deleted, !.deletedOctets = octets]
    OBVIOUS
  <2> HIDE DEF new, s
  <2> QED
    BY <1>1, <2>1 DEF IsSession
<1>6. session' = [session EXCEPT ![c] = new]
  BY <1>4
<1> HIDE DEF new
<1>7. SessionInv(new, rank[c], ids, state.LastID, LiveIDs, asked')
  BY <1>2, <1>3, <1>4, <1>5 DEF SessionInv
<1> HIDE DEF s, t
<1>8. rank' = [rank EXCEPT ![c] = rank[c]] /\ asked \subseteq asked'
  BY <1>1, <1>2
<1>9. confirmed' \cap LiveIDs = {} /\ confirmed' \subseteq 1 .. state.LastID
  BY <1>1, <1>2
<1>10. state' = state /\ tree' = tree /\ wanted' = [wanted EXCEPT ![c] = ids]
  BY <1>2, <1>4
<1> QED
  BY <1>6, <1>7, <1>8, <1>9, <1>10, OneSession

\* The ways out of serveConn; what QUIT confirms is gone.
LEMMA ClosingSteps ==
    ASSUME PopInv, NEW c \in Clients,
           \/ \E password \in Passwords : PASSCloses(c, password)
           \/ QUIT(c) \/ QUITDone(c) \/ QUITFails(c) \/ Disconnect(c)
    PROVE  PopInv'
<1>1. /\ SessionInv(session[c], rank[c], wanted[c], state.LastID, LiveIDs, asked)
      /\ confirmed \cap LiveIDs = {} /\ confirmed \subseteq 1 .. state.LastID
      /\ state.LastID \in 0 .. MaxID
  BY ClientFacts DEF PopInv, StateOf
<1>2. /\ session' = [session EXCEPT ![c] = newSession] /\ rank' = [rank EXCEPT ![c] = <<>>]
      /\ wanted' = [wanted EXCEPT ![c] = {}] /\ state' = state /\ tree' = tree /\ asked' = asked
  BY DEF PASSCloses, QUIT, QUITDone, QUITFails, Disconnect, closed, mailbox
<1>3. SessionInv(newSession, <<>>, {}, state.LastID, LiveIDs, asked')
  BY NewSession
<1>4. confirmed' \cap LiveIDs = {} /\ confirmed' \subseteq 1 .. state.LastID
  <2>1. CASE QUITDone(c)
    <3>1. session[c].st = "updated" /\ confirmed' = confirmed \cup wanted[c]
      BY <2>1 DEF QUITDone
    <3>2. wanted[c] \cap LiveIDs = {} /\ wanted[c] \subseteq 1 .. state.LastID
      BY <1>1, <3>1, WantedIDs DEF SessionInv
    <3> QED
      BY <1>1, <3>1, <3>2
  <2>2. CASE confirmed' = confirmed
    BY <1>1, <2>2
  <2> QED
    BY <2>1, <2>2 DEF PASSCloses, QUIT, QUITFails, Disconnect
<1>5. asked \subseteq asked'
  BY <1>2
<1> QED
  BY <1>2, <1>3, <1>4, <1>5, OneSession

\* QUIT asks for the deletion of what is marked.
LEMMA QUITDeletesStep ==
    ASSUME PopInv, NEW c \in Clients, QUITDeletes(c)
    PROVE  PopInv'
<1> DEFINE s == session[c]
           new == [s EXCEPT !.st = "update"]
<1>1. /\ SessionInv(s, rank[c], wanted[c], state.LastID, LiveIDs, asked) /\ IsSession(s)
      /\ rank = [rank EXCEPT ![c] = rank[c]] /\ wanted = [wanted EXCEPT ![c] = wanted[c]]
      /\ confirmed \cap LiveIDs = {} /\ confirmed \subseteq 1 .. state.LastID
  BY ClientFacts
<1>2. /\ session' = [session EXCEPT ![c] = new] /\ asked' = asked \cup wanted[c]
      /\ state' = state /\ tree' = tree /\ confirmed' = confirmed
      /\ rank' = rank /\ wanted' = wanted /\ s.authenticated
  BY DEF QUITDeletes, ready, mailbox
<1> HIDE DEF s
<1>3. /\ IsSession(new) /\ new.st = "update" /\ new.authenticated = s.authenticated
      /\ new.snapshot = s.snapshot /\ new.deleted = s.deleted
      /\ new.deletedOctets = s.deletedOctets
  BY <1>1, OtherState
<1> HIDE DEF new
<1>4. SessionInv(new, rank[c], wanted[c], state.LastID, LiveIDs, asked')
  BY <1>1, <1>2, <1>3 DEF SessionInv
<1>5. /\ rank' = [rank EXCEPT ![c] = rank[c]] /\ wanted' = [wanted EXCEPT ![c] = wanted[c]]
      /\ asked \subseteq asked' /\ confirmed' \cap LiveIDs = {}
      /\ confirmed' \subseteq 1 .. state.LastID
  BY <1>1, <1>2
<1> QED
  BY <1>2, <1>4, <1>5, OneSession

\* The files that a session has marked, and that are still there.
markedFiles(c) == {name \in tree : messageFromPath(name).ID \in wanted[c]}

\* DeleteAs resolves the marks to just their messages.
LEMMA MarkedFinds ==
    ASSUME PopInv, NEW c \in Clients, session[c].st = "update"
    PROVE  marked(c) = messagesOf(markedFiles(c)) /\ canDelete(state, marked(c))
<1> DEFINE index == buildDirectoryIndex(state.Directories)
           found(id) == messageByID(tree, index, state.LastID, id)
           ids == Range(session[c].deleted)
<1>1. /\ state.LastID \in 0 .. MaxID /\ IsTree(tree, state.LastID) /\ StateOf(state, tree)
      /\ state.Directories = countsOf(tree)
  BY DEF PopInv, StateOf
<1>2. ids = wanted[c] /\ wanted[c] \subseteq 1 .. state.LastID
  <2>1. SessionInv(session[c], rank[c], wanted[c], state.LastID, LiveIDs, asked)
    BY ClientFacts
  <2>2. session[c].authenticated = TRUE
    BY <2>1 DEF SessionInv
  <2> QED
    BY <1>1, <2>1, <2>2, WantedIDs
<1>3. marked(c) = UNION {found(id) : id \in ids}
  BY DEF marked
<1> HIDE DEF ids
<1>4. ASSUME NEW id \in ids PROVE found(id) = {m \in messagesOf(tree) : m.ID = id}
  <2>1. id \in 1 .. MaxID
    BY <1>1, <1>2, MaxIDAssumption
  <2> QED
    BY <1>1, <2>1, MessageByIDFinds
<1> HIDE DEF found
<1>5. marked(c) = messagesOf(markedFiles(c))
  BY <1>2, <1>3, <1>4 DEF messagesOf, markedFiles
<1>6. markedFiles(c) \in SUBSET tree
  BY DEF markedFiles
<1>7. canDelete(state, messagesOf(markedFiles(c)))
  BY <1>1, <1>6, StateAllows
<1> QED
  BY <1>5, <1>7

\* DeleteAs takes effect.
LEMMA UpdateStep ==
    ASSUME PopInv, NEW c \in Clients, Update(c)
    PROVE  PopInv'
<1> DEFINE s == session[c]
           new == [s EXCEPT !.st = "updated"]
           files == markedFiles(c)
<1>1. /\ SessionInv(s, rank[c], wanted[c], state.LastID, LiveIDs, asked) /\ IsSession(s)
      /\ rank = [rank EXCEPT ![c] = rank[c]] /\ wanted = [wanted EXCEPT ![c] = wanted[c]]
      /\ confirmed \cap LiveIDs = {} /\ confirmed \subseteq 1 .. state.LastID
  BY ClientFacts
<1>2. /\ session' = [session EXCEPT ![c] = new] /\ s.st = "update"
      /\ tree' = tree \ pathsOf(marked(c)) /\ state' = deleteState(state, marked(c))
      /\ asked' = asked /\ confirmed' = confirmed /\ rank' = rank /\ wanted' = wanted
  BY DEF Update, ghosts
<1>3. marked(c) = messagesOf(files)
  BY <1>2, MarkedFinds
<1>4. files \in SUBSET tree
  BY DEF markedFiles
<1> HIDE DEF files
<1>5. pathsOf(messagesOf(files)) = files /\ StateOf(deleteState(state, messagesOf(files)), tree \ files)
  BY <1>4, StateRemoval DEF PopInv
<1>6. tree' = tree \ files /\ StateOf(state, tree)' /\ state'.LastID = state.LastID
  BY <1>2, <1>3, <1>5 DEF deleteState
<1>7. LiveIDs' = LiveIDs \ wanted[c]
  BY <1>6 DEF LiveIDs, files, markedFiles
<1> HIDE DEF s
<1>8. /\ IsSession(new) /\ new.st = "updated" /\ new.authenticated = s.authenticated
      /\ new.snapshot = s.snapshot /\ new.deleted = s.deleted
      /\ new.deletedOctets = s.deletedOctets
  BY <1>1, OtherState
<1> HIDE DEF new
<1>9. SessionInv(new, rank[c], wanted[c], state.LastID, LiveIDs', asked')
  BY <1>1, <1>2, <1>7, <1>8 DEF SessionInv
<1>10. (1 .. state.LastID) \ LiveIDs' \subseteq asked'
  <2>1. wanted[c] \subseteq asked
    BY <1>1, <1>2 DEF SessionInv
  <2> QED
    BY <1>2, <1>7, <2>1 DEF PopInv
<1>11. /\ rank' = [rank EXCEPT ![c] = rank[c]] /\ wanted' = [wanted EXCEPT ![c] = wanted[c]]
       /\ asked \subseteq asked' /\ confirmed' \cap LiveIDs' = {}
       /\ confirmed' \subseteq 1 .. state.LastID /\ LiveIDs' \subseteq LiveIDs
  BY <1>1, <1>2, <1>7
<1> QED
  BY <1>2, <1>6, <1>9, <1>10, <1>11, OneClient

\* A message arrives.
LEMMA DeliverStep ==
    ASSUME PopInv, NEW size \in Sizes, Deliver(size)
    PROVE  PopInv'
<1> DEFINE id == state.LastID + 1
           more == tree \cup {messagePath(id, size)}
<1>1. /\ tree' = more /\ state' = publishState(state, size) /\ state.LastID # MaxID
      /\ session' = session /\ rank' = rank /\ wanted' = wanted
      /\ asked' = asked /\ confirmed' = confirmed /\ size \in Nat
  BY SizesAssumption DEF Deliver, canPublish, ghosts
<1>2. /\ StateOf(publishState(state, size), more)
      /\ messagesOf(more) = messagesOf(tree) \cup {[ID |-> id, Size |-> size]}
  BY <1>1, StateReceipt DEF PopInv
<1>3. StateOf(state, tree)' /\ state'.LastID = id
  BY <1>1, <1>2 DEF publishState
<1>4. state.LastID \in 0 .. MaxID /\ id \in 0 .. MaxID /\ state.LastID <= id
  <2>1. state.LastID \in 0 .. MaxID
    BY DEF PopInv, StateOf
  <2> QED
    BY <1>1, <2>1, MaxIDAssumption
<1>5. LiveIDs' = LiveIDs \cup {id}
  <2>1. LiveIDs = {m.ID : m \in messagesOf(tree)} /\ LiveIDs' = {m.ID : m \in messagesOf(tree')}
    BY DEF LiveIDs, messagesOf
  <2> DEFINE arrived == [ID |-> id, Size |-> size]
  <2>3. messagesOf(more) = messagesOf(tree) \cup {arrived} /\ arrived.ID = id
    BY <1>2
  <2> HIDE DEF id, more, arrived
  <2>2. {m.ID : m \in messagesOf(more)} = {m.ID : m \in messagesOf(tree)} \cup {id}
    BY <2>3
  <2> QED
    BY <1>1, <2>1, <2>2
<1>6. id \notin 1 .. state.LastID /\ 1 .. id = (1 .. state.LastID) \cup {id}
  BY <1>4
<1> HIDE DEF id, more
<1>7. ASSUME NEW c \in Clients
      PROVE  SessionInv(session[c], rank[c], wanted[c], id, LiveIDs', asked)
  <2>1. SessionInv(session[c], rank[c], wanted[c], state.LastID, LiveIDs, asked)
    BY ClientFacts
  <2>2. LiveIDs' \cap (1 .. state.LastID) \subseteq LiveIDs
    BY <1>5, <1>6
  <2> QED
    BY <1>4, <2>1, <2>2, SessionKept
<1>8. (1 .. id) \ LiveIDs' \subseteq asked
  BY <1>5, <1>6 DEF PopInv
<1>9. confirmed \cap LiveIDs' = {} /\ confirmed \subseteq 1 .. id
  BY <1>5, <1>6 DEF PopInv
<1>10. /\ session = [c \in Clients |-> session[c]] /\ rank = [c \in Clients |-> rank[c]]
       /\ wanted = [c \in Clients |-> wanted[c]]
  BY DEF PopInv
<1>11. \A c \in Clients :
          SessionInv(session'[c], rank'[c], wanted'[c], state'.LastID, LiveIDs', asked')
  BY <1>1, <1>3, <1>7
<1> QED
  BY <1>1, <1>3, <1>8, <1>9, <1>10, <1>11 DEF PopInv

\* The invariant is true at first, and every step keeps it.
LEMMA PopAlways == Spec => []PopInv
<1>1. Init => PopInv
  <2> SUFFICES ASSUME Init PROVE PopInv
    OBVIOUS
  <2>1. StateOf(state, tree) /\ LiveIDs = {} /\ state.LastID = 0
    BY StateOfNothing DEF Init, LiveIDs, emptyMailboxState
  <2>2. /\ session = [c \in Clients |-> session[c]] /\ rank = [c \in Clients |-> rank[c]]
        /\ wanted = [c \in Clients |-> wanted[c]] /\ confirmed = {}
    BY DEF Init
  <2>3. ASSUME NEW c \in Clients
        PROVE  SessionInv(session[c], rank[c], wanted[c], state.LastID, LiveIDs, asked)
    <3>1. session[c] = newSession /\ wanted[c] = {}
      BY DEF Init
    <3> QED
      BY <3>1, NewSession
  <2> QED
    BY <2>1, <2>2, <2>3 DEF PopInv
<1>2. PopInv /\ [Next]_vars => PopInv'
  <2> SUFFICES ASSUME PopInv, [Next]_vars PROVE PopInv'
    OBVIOUS
  <2>1. CASE UNCHANGED vars
    <3>1. /\ state' = state /\ tree' = tree /\ session' = session /\ rank' = rank
          /\ wanted' = wanted /\ asked' = asked /\ confirmed' = confirmed
      BY <2>1 DEF vars, mailbox, ghosts
    <3> QED
      BY <3>1 DEF PopInv, LiveIDs
  <2>2. ASSUME NEW c \in Clients, ClientNext(c) PROVE PopInv'
    BY <2>2, NameSteps, PASSStep, MarkSteps, ClosingSteps, QUITDeletesStep, UpdateStep
    DEF ClientNext
  <2>3. ASSUME NEW size \in Sizes, Deliver(size) PROVE PopInv'
    BY <2>3, DeliverStep
  <2> QED
    BY <2>1, <2>2, <2>3 DEF Next
<1> QED
  BY <1>1, <1>2, PTL DEF Spec

-----------------------------------------------------------------------------
(* The theorems about sessions and the maildrop. *)

\* What is gone was marked, not taken back, and its session ended with QUIT; what
\* QUIT confirmed is gone.
THEOREM AskedHolds == Spec => []DeletedAsAsked
<1>1. PopInv => DeletedAsAsked
  BY DEF PopInv, DeletedAsAsked, LiveIDs
<1> QED
  BY <1>1, PopAlways, PTL

\* QUIT's update finds a state file from which its messages can be taken.
THEOREM UpdateHolds == Spec => []UpdateIsPossible
<1>1. PopInv => UpdateIsPossible
  <2> SUFFICES ASSUME PopInv, NEW c \in Clients, session[c].st = "update"
               PROVE  canDelete(state, marked(c))
    BY DEF UpdateIsPossible
  <2> QED
    BY MarkedFinds
<1> QED
  BY <1>1, PopAlways, PTL

\* What a session answers, when it has logged in with tree t.
LEMMA Answers ==
    ASSUME PopInv, NEW c \in Clients, ready(c)
    PROVE  LET listing == {row[2] : row \in rows(c)}
           IN  /\ [number \in 1 .. session[c].snapshot.MessageCount |-> lookup(c, number)] = rank[c]
               /\ rows(c) = {<<number, rank[c][number]>> :
                               number \in DOMAIN rank[c] \ DOMAIN session[c].deleted}
               /\ stat(c) = <<Cardinality(listing), octetsOf(listing)>>
<1> DEFINE s == session[c]
           sn == s.snapshot
           t == sn.tree
           n == Cardinality(t)
           q == listed(t)
           D == DOMAIN s.deleted
           M == messagesOf(t)
           T == numbered(t, D)
           listing == {row[2] : row \in rows(c)}
<1>1. SeesLogin(sn, rank[c], state.LastID) /\ IsMarks(s.deleted, s.deletedOctets, wanted[c], t)
  <2>1. SessionInv(s, rank[c], wanted[c], state.LastID, LiveIDs, asked)
    BY ClientFacts
  <2> QED
    BY <2>1 DEF SessionInv, ready
<1>2. /\ state.LastID \in 0 .. MaxID /\ IsTree(t, state.LastID) /\ rank[c] = q
      /\ sn.MessageCount = n /\ sn.TotalOctets = octetsOf(M)
  BY <1>1 DEF SeesLogin
<1>3. D \subseteq 1 .. n /\ s.deletedOctets = octetsOf(T)
  BY <1>1 DEF IsMarks
<1>4. /\ \A number \in 1 .. n : Lookup(t, sn.index, number) = q[number]
      /\ ListAt(t, sn.index, sn.LastID) = q
  BY <1>1, <1>2, SnapshotFinds
<1>5. /\ q \in Seq(M) /\ n \in Nat /\ Len(q) = n /\ Range(q) = M
      /\ \A i, j \in 1 .. n : q[i] = q[j] => i = j
      /\ HaveSizes(M) /\ Cardinality(M) = n
  BY <1>2, NumbersFacts
<1>6. \A number \in 1 .. n : lookup(c, number) = q[number]
  BY <1>4 DEF lookup
<1>7. rows(c) = {<<number, q[number]>> : number \in DOMAIN q \ D}
  BY <1>4 DEF rows
<1>8. D \in SUBSET (1 .. n)
  BY <1>3
<1> HIDE DEF t, D
<1>9. /\ T \subseteq M /\ Cardinality(T) = Cardinality(D)
  BY <1>2, <1>8, NumberedFacts
<1>10. T = {q[number] : number \in D}
  BY DEF numbered
<1> HIDE DEF q, T, M, n
<1>11. DOMAIN q = 1 .. n /\ q = [number \in 1 .. n |-> q[number]]
  BY <1>5
<1>12. listing = {q[number] : number \in (1 .. n) \ D}
  <2> DEFINE left == (1 .. n) \ D
  <2>1. rows(c) = {<<number, q[number]>> : number \in left}
    BY <1>7, <1>11
  <2> HIDE DEF left
  <2>2. \A number \in left : <<number, q[number]>>[2] = q[number]
    OBVIOUS
  <2>3. \A m : m \in listing <=> \E row \in rows(c) : m = row[2]
    OBVIOUS
  <2> HIDE DEF listing
  <2>4. ASSUME NEW m PROVE m \in listing <=> \E number \in left : m = q[number]
    <3>1. ASSUME m \in listing PROVE \E number \in left : m = q[number]
      <4>1. PICK row \in rows(c) : m = row[2]
        BY <2>3, <3>1
      <4>2. PICK number \in left : row = <<number, q[number]>>
        BY <2>1
      <4> QED
        BY <4>1, <4>2
    <3>2. ASSUME NEW number \in left, m = q[number] PROVE m \in listing
      <4>1. <<number, q[number]>> \in rows(c)
        BY <2>1
      <4> QED
        BY <2>2, <2>3, <3>2, <4>1
    <3> QED
      BY <3>1, <3>2
  <2>5. listing = {q[number] : number \in left}
    BY <2>4
  <2> QED
    BY <2>5 DEF left
<1> HIDE DEF listing
<1>13. listing = M \ T
  <2>1. M = {q[number] : number \in 1 .. n}
    BY <1>5, <1>11 DEF Range
  <2> QED
    BY <1>5, <1>8, <1>10, <1>12, <2>1
<1>14. octetsOf(listing) = octetsOf(M) - octetsOf(T)
  BY <1>5, <1>9, <1>13, OctetsDifference
<1>15. Cardinality(listing) = n - Cardinality(D)
  <2>1. IsFiniteSet(M)
    BY <1>5 DEF HaveSizes
  <2>2. M \cap T = T
    BY <1>9
  <2>3. Cardinality(M \ T) = Cardinality(M) - Cardinality(M \cap T)
    BY <2>1, FS_Subset, FS_Difference, <1>9
  <2> QED
    BY <1>5, <1>9, <1>13, <2>2, <2>3
<1>16. stat(c) = <<n - Cardinality(D), octetsOf(M) - octetsOf(T)>>
  BY <1>2, <1>3 DEF stat, D
<1>17. stat(c) = <<Cardinality(listing), octetsOf(listing)>>
  BY <1>14, <1>15, <1>16
<1>18. rows(c) = {<<number, rank[c][number]>> : number \in DOMAIN rank[c] \ D}
  BY <1>2, <1>7
<1>19. [number \in 1 .. sn.MessageCount |-> lookup(c, number)] = rank[c]
  BY <1>2, <1>6, <1>11
<1> QED
  BY <1>17, <1>18, <1>19 DEF D, listing

\* The numbers of a session mean the messages of its login, for one message and in
\* the listings, and STAT counts what LIST shows.
THEOREM LoginHolds == Spec => []SessionSeesLogin
<1>1. PopInv => SessionSeesLogin
  <2> SUFFICES ASSUME PopInv, NEW c \in Clients, ready(c)
               PROVE  LET shown == {row[2] : row \in rows(c)}
                      IN  /\ [number \in 1 .. session[c].snapshot.MessageCount |->
                                lookup(c, number)] = rank[c]
                          /\ rows(c) = {<<number, rank[c][number]>> :
                                          number \in DOMAIN rank[c] \ DOMAIN session[c].deleted}
                          /\ stat(c) = <<Cardinality(shown), octetsOf(shown)>>
    BY Zenon DEF SessionSeesLogin
  <2> QED
    BY Answers
<1> QED
  BY <1>1, PopAlways, PTL

-----------------------------------------------------------------------------
(* Tokens. *)

\* The connections that serveConn runs for.
OpenClients == {c \in Clients : session[c].st # "closed"}

\* As many tokens are out as connections are open.
TokenInv ==
    /\ session = [c \in Clients |-> session[c]]
    /\ IsFiniteSet(OpenClients) /\ connections = Cardinality(OpenClients)
    /\ connections <= MaxConnections

\* The steps of a connection that stays open.
LEMMA TokenKept ==
    ASSUME TokenInv, NEW c \in Clients, NEW new, session' = [session EXCEPT ![c] = new],
           new.st # "closed", session[c].st # "closed", connections' = connections
    PROVE  TokenInv'
<1>1. /\ session' = [x \in Clients |-> session'[x]] /\ session'[c] = new
      /\ \A x \in Clients : x # c => session'[x] = session[x]
  BY DEF TokenInv
<1>2. OpenClients' = OpenClients
  BY <1>1 DEF OpenClients
<1> QED
  BY <1>1, <1>2 DEF TokenInv

\* A connection gets a token.
LEMMA TokenTaken ==
    ASSUME PopInv, TokenInv, NEW c \in Clients, Accept(c)
    PROVE  TokenInv'
<1> DEFINE new == [session[c] EXCEPT !.st = "open"]
<1>1. /\ session' = [session EXCEPT ![c] = new] /\ session[c].st = "closed"
      /\ connections' = connections + 1 /\ connections < MaxConnections
  BY DEF Accept
<1>2. new.st = "open"
  <2>1. IsSession(session[c])
    BY ClientFacts
  <2> QED
    BY <2>1 DEF IsSession
<1> HIDE DEF new
<1>3. /\ session' = [x \in Clients |-> session'[x]] /\ session'[c].st # "closed"
      /\ \A x \in Clients : x # c => session'[x] = session[x]
  BY <1>1, <1>2 DEF TokenInv
<1>4. OpenClients' = OpenClients \cup {c} /\ c \notin OpenClients
  BY <1>1, <1>3 DEF OpenClients
<1>5. IsFiniteSet(OpenClients') /\ Cardinality(OpenClients') = Cardinality(OpenClients) + 1
  BY <1>4, FS_AddElement DEF TokenInv
<1>6. Cardinality(OpenClients) \in Nat
  BY FS_CardinalityType DEF TokenInv
<1>7. connections' = Cardinality(OpenClients') /\ connections' <= MaxConnections
  BY <1>1, <1>5, <1>6, LimitsAssumption DEF TokenInv
<1> QED
  BY <1>3, <1>5, <1>7 DEF TokenInv

\* A connection gives its token back.
LEMMA TokenBack ==
    ASSUME TokenInv, NEW c \in Clients, closed(c), session[c].st # "closed"
    PROVE  TokenInv'
<1>1. /\ session' = [session EXCEPT ![c] = newSession] /\ connections' = connections - 1
  BY DEF closed
<1>2. /\ session' = [x \in Clients |-> session'[x]] /\ session'[c].st = "closed"
      /\ \A x \in Clients : x # c => session'[x] = session[x]
  BY <1>1 DEF TokenInv, newSession
<1>3. OpenClients' = OpenClients \ {c} /\ c \in OpenClients
  BY <1>2 DEF OpenClients
<1>4. IsFiniteSet(OpenClients') /\ Cardinality(OpenClients') = Cardinality(OpenClients) - 1
  BY <1>3, FS_RemoveElement DEF TokenInv
<1>5. Cardinality(OpenClients) \in Nat
  BY FS_CardinalityType DEF TokenInv
<1>6. connections' = Cardinality(OpenClients') /\ connections' <= MaxConnections
  BY <1>1, <1>4, <1>5, LimitsAssumption DEF TokenInv
<1> QED
  BY <1>2, <1>4, <1>6 DEF TokenInv

\* Commands, and the update: the connection stays open.
LEMMA TokenCommands ==
    ASSUME PopInv, TokenInv, NEW c \in Clients,
           \/ \E username \in Usernames : USER(c, username)
           \/ \E password \in Passwords : PASS(c, password) \/ PASSFails(c, password)
           \/ \E number \in 1 .. MaxID : DELE(c, number)
           \/ RSET(c) \/ QUITDeletes(c) \/ Update(c)
    PROVE  TokenInv'
<1> DEFINE s == session[c]
<1>1. IsSession(s) /\ session = [session EXCEPT ![c] = s]
  BY ClientFacts
<1>2. s.st # "closed" /\ connections' = connections
  BY DEF USER, PASS, PASSFails, DELE, RSET, QUITDeletes, Update, ready
<1>3. PICK new : session' = [session EXCEPT ![c] = new] /\ new.st # "closed"
  <2>1. ASSUME NEW username \in Usernames, USER(c, username)
        PROVE  \E new : session' = [session EXCEPT ![c] = new] /\ new.st # "closed"
    <3>1. session' = [session EXCEPT ![c] = [s EXCEPT !.username = username]]
      BY <2>1 DEF USER
    <3>2. [s EXCEPT !.username = username].st = s.st
      BY <1>1 DEF IsSession
    <3> QED
      BY <1>2, <3>1, <3>2
  <2>2. ASSUME NEW password \in Passwords, PASS(c, password)
        PROVE  \E new : session' = [session EXCEPT ![c] = new] /\ new.st # "closed"
    <3> DEFINE new == [s EXCEPT !.authenticated = TRUE, !.snapshot = Snapshot]
    <3>1. session' = [session EXCEPT ![c] = new]
      BY <2>2 DEF PASS
    <3>2. new.st = s.st
      BY <1>1 DEF IsSession
    <3> QED
      BY <1>2, <3>1, <3>2
  <2>3. ASSUME NEW password \in Passwords, PASSFails(c, password)
        PROVE  \E new : session' = [session EXCEPT ![c] = new] /\ new.st # "closed"
    <3> DEFINE new == [s EXCEPT !.username = "", !.authFailures = s.authFailures + 1]
    <3>1. session' = [session EXCEPT ![c] = new]
      BY <2>3 DEF PASSFails
    <3>2. new.st = s.st
      BY <1>1 DEF IsSession
    <3> QED
      BY <1>2, <3>1, <3>2
  <2>4. ASSUME RSET(c) \/ \E number \in 1 .. MaxID : DELE(c, number)
        PROVE  \E new : session' = [session EXCEPT ![c] = new] /\ new.st # "closed"
    <3>1. PICK deleted, octets :
             session' = [session EXCEPT ![c] = [s EXCEPT !.deleted = deleted,
                                                         !.deletedOctets = octets]]
      <4>1. CASE RSET(c)
        BY <4>1 DEF RSET
      <4>2. ASSUME NEW number \in 1 .. MaxID, DELE(c, number)
            PROVE  \E deleted, octets :
                      session' = [session EXCEPT ![c] = [s EXCEPT !.deleted = deleted,
                                                                  !.deletedOctets = octets]]
        <5> DEFINE deleted == marking(s.deleted, number, lookup(c, number).ID)
                   octets == s.deletedOctets + lookup(c, number).Size
        <5>1. session' = [session EXCEPT ![c] = [s EXCEPT !.deleted = deleted,
                                                          !.deletedOctets = octets]]
          BY <4>2 DEF DELE
        <5> HIDE DEF deleted, octets
        <5> QED
          BY <5>1
      <4> QED
        BY <2>4, <4>1, <4>2
    <3>2. [s EXCEPT !.deleted = deleted, !.deletedOctets = octets].st = s.st
      BY <1>1 DEF IsSession
    <3> QED
      BY <1>2, <3>1, <3>2
  <2>5. ASSUME QUITDeletes(c) \/ Update(c)
        PROVE  \E new : session' = [session EXCEPT ![c] = new] /\ new.st # "closed"
    <3>1. PICK st \in {"update", "updated"} : session' = [session EXCEPT ![c] = [s EXCEPT !.st = st]]
      BY <2>5 DEF QUITDeletes, Update
    <3>2. [s EXCEPT !.st = st].st = st
      BY <1>1 DEF IsSession
    <3> QED
      BY <3>1, <3>2
  <2> QED
    BY <2>1, <2>2, <2>3, <2>4, <2>5
<1> HIDE DEF s
<1> QED
  BY <1>2, <1>3, TokenKept DEF s

\* The invariant is true at first, and every step keeps it.
LEMMA TokenAlways == Spec => []TokenInv
<1>1. Init => TokenInv
  <2> SUFFICES ASSUME Init PROVE TokenInv
    OBVIOUS
  <2>1. OpenClients = {} /\ session = [c \in Clients |-> session[c]] /\ connections = 0
    BY DEF Init, OpenClients, newSession
  <2>2. IsFiniteSet(OpenClients) /\ Cardinality(OpenClients) = 0
    BY <2>1, FS_EmptySet
  <2> QED
    BY <2>1, <2>2, LimitsAssumption DEF TokenInv
<1>2. PopInv /\ TokenInv /\ [Next]_vars => TokenInv'
  <2> SUFFICES ASSUME PopInv, TokenInv, [Next]_vars PROVE TokenInv'
    OBVIOUS
  <2>1. CASE UNCHANGED vars
    BY <2>1 DEF vars, TokenInv, OpenClients
  <2>2. ASSUME NEW c \in Clients, ClientNext(c) PROVE TokenInv'
    <3>1. CASE \/ \E password \in Passwords : PASSCloses(c, password)
               \/ QUIT(c) \/ QUITDone(c) \/ QUITFails(c) \/ Disconnect(c)
      <4>1. closed(c) /\ session[c].st # "closed"
        BY <3>1 DEF PASSCloses, QUIT, QUITDone, QUITFails, Disconnect
      <4> QED
        BY <4>1, TokenBack
    <3>2. CASE Accept(c)
      BY <3>2, TokenTaken
    <3> QED
      BY <2>2, <3>1, <3>2, TokenCommands DEF ClientNext
  <2>3. ASSUME NEW size \in Sizes, Deliver(size) PROVE TokenInv'
    BY <2>3 DEF Deliver, TokenInv, OpenClients
  <2> QED
    BY <2>1, <2>2, <2>3 DEF Next
<1> QED
  BY <1>1, <1>2, PopAlways, PTL DEF Spec

\* Every way out of serveConn gives one token back.
THEOREM TokenHolds == Spec => []TokenPerConnection
<1>1. TokenInv => TokenPerConnection
  BY DEF TokenInv, TokenPerConnection, OpenClients
<1> QED
  BY <1>1, TokenAlways, PTL
=============================================================================
