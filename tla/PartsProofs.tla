----------------------------- MODULE PartsProofs ----------------------------
(***************************************************************************)
(* The parts for every value of their constants: paths and leaf            *)
(* directories name what they should (PathWalk); under any sequence of     *)
(* receipts and deletions the state file describes the tree, and readers   *)
(* find the messages there are (MailboxIndex); the shared Git reader       *)
(* answers every session's own request (CatFile); the directory cache      *)
(* answers for the commit that was asked for and keeps what was used last  *)
(* (DirCache); the first start imports the old archive once and up to its  *)
(* first gap (FirstStart); the Git children end when they are idle or      *)
(* closed, and not before (Children).                                      *)
(***************************************************************************)
EXTENDS Parts, TreeProofs

-----------------------------------------------------------------------------
(* Paths. *)

\* Only sequences of numbers are walked through.
PathInv == path \in Seq(Nat)

\* The walk stays there.
LEMMA PathType == WalkSpec => []PathInv
<1> USE DEF PathInv
<1>1. WalkInit => PathInv
  BY DEF WalkInit
<1>2. PathInv /\ [Walk]_path => PathInv'
  <2> SUFFICES ASSUME path \in Seq(Nat), [Walk]_path PROVE path' \in Seq(Nat)
    OBVIOUS
  <2>1. CASE UNCHANGED path
    BY <2>1
  <2>2. ASSUME NEW digit \in 0 .. (IF MaxDepth < Radix THEN Radix ELSE MaxDepth + 1),
               Descend(digit)
        PROVE  path' \in Seq(Nat)
    <3>1. digit \in Nat
      BY RadixAssumption
    <3> QED
      BY <2>2, <3>1 DEF Descend
  <2> QED
    BY <2>1, <2>2 DEF Walk
<1> HIDE DEF PathInv
<1> QED
  BY <1>1, <1>2, PTL DEF WalkSpec

\* Whatever names stand in a tree, a path that parses is the path of the ID it
\* parses to, and an ID has no other path (messageIDFromPath).
THEOREM PathNamesHolds == WalkSpec => []PathNamesOneID
<1>1. PathInv => PathNamesOneID
  <2> SUFFICES ASSUME path \in Seq(Nat) PROVE PathNamesOneID
    BY DEF PathInv
  <2> DEFINE id == messageIDFromPath(path)
  <2>1. ASSUME id # ParseError PROVE id \in 1 .. MaxID /\ messageRelativePath[id] = path
    <3> DEFINE parsed == parseDigits(Tail(path))
    <3>1. /\ id = parsed /\ ~(Len(path) < 2) /\ parsed # ParseError /\ parsed # 0
          /\ messageRelativePath[parsed] = path
      BY <2>1 DEF messageIDFromPath
    <3>2. Len(path) \in Nat
      OBVIOUS
    <3>3. Tail(path) \in Seq(Nat)
      <4>1. path # <<>>
        BY <3>1, <3>2
      <4> QED
        BY <4>1
    <3>4. parsed \in ParseValues
      BY <3>3, ParseAppend
    <3> QED
      BY <3>1, <3>4, MaxIDAssumption DEF ParseValues
  <2>2. \A other \in 1 .. MaxID : messageRelativePath[other] = path => id = other
    BY PathInverse
  <2> HIDE DEF id
  <2>3. /\ id # ParseError => id \in 1 .. MaxID /\ messageRelativePath[id] = path
        /\ \A other \in 1 .. MaxID : messageRelativePath[other] = path => id = other
    BY <2>1, <2>2
  <2> QED
    BY <2>3 DEF PathNamesOneID, id
<1> QED
  BY PathType, <1>1, PTL

\* Division by the radix takes the last digit off again.
LEMMA LastDigit ==
    ASSUME NEW q \in Nat, NEW r \in 0 .. Radix - 1
    PROVE  /\ q * Radix + r \in Nat
           /\ (q * Radix + r) \div Radix = q
           /\ (q * Radix + r) % Radix = r
<1> DEFINE n == q * Radix + r
           p == n \div Radix
           s == n % Radix
<1>1. Radix \in Nat /\ Radix > 1 /\ r \in Nat /\ r < Radix
  BY RadixAssumption
<1>2. n \in Nat
  BY <1>1
<1>3. p \in Nat /\ s \in 0 .. Radix - 1 /\ n = p * Radix + s
  BY <1>2, Division
<1>4. s \in Nat /\ s < Radix
  BY <1>1, <1>3
<1>5. q * Radix + r = p * Radix + s
  BY <1>3
<1> HIDE DEF p, s, n
<1>6. ASSUME p < q PROVE FALSE
  <2>1. p + 1 <= q
    BY <1>3, <1>6
  <2>2. (p + 1) * Radix <= q * Radix
    BY <1>1, <1>3, <2>1
  <2>3. (p + 1) * Radix = p * Radix + Radix
    BY <1>1, <1>3
  <2>4. p * Radix \in Nat /\ q * Radix \in Nat
    BY <1>1, <1>3
  <2> QED
    BY <1>1, <1>4, <1>5, <2>2, <2>3, <2>4
<1>7. ASSUME q < p PROVE FALSE
  <2>1. q + 1 <= p
    BY <1>3, <1>7
  <2>2. (q + 1) * Radix <= p * Radix
    BY <1>1, <1>3, <2>1
  <2>3. (q + 1) * Radix = q * Radix + Radix
    BY <1>1, <1>3
  <2>4. p * Radix \in Nat /\ q * Radix \in Nat
    BY <1>1, <1>3
  <2> QED
    BY <1>1, <1>4, <1>5, <2>2, <2>3, <2>4
<1>8. p = q
  BY <1>3, <1>6, <1>7
<1>9. s = r
  <2>1. p * Radix = q * Radix /\ q * Radix \in Nat
    BY <1>1, <1>8
  <2> QED
    BY <1>1, <1>4, <1>5, <2>1
<1> QED
  BY <1>2, <1>8, <1>9 DEF n, p, s

\* A number that was parsed without a leading zero has just these digits.
Spelled(ds) ==
    (ds # <<>> /\ ds[1] # 0 /\ parseDigits(ds) # ParseError) =>
        parseDigits(ds) \in Nat \ {0} /\ digits[parseDigits(ds)] = ds

\* One more digit,
LEMMA SpelledNext ==
    ASSUME NEW ds \in Seq(Nat), NEW last \in Nat, ds = <<>> \/ Spelled(ds)
    PROVE  Spelled(Append(ds, last))
<1> DEFINE e == Append(ds, last)
           q == parseDigits(ds)
<1> SUFFICES ASSUME e[1] # 0, parseDigits(e) # ParseError
             PROVE  parseDigits(e) \in Nat \ {0} /\ digits[parseDigits(e)] = e
  BY DEF Spelled
<1>1. q \in ParseValues /\ (ds = <<>> => q = 0) /\ parseDigits(e) = parseStep(q, last)
  BY ParseAppend
<1>2. q # ParseError /\ last < Radix /\ parseDigits(e) = q * Radix + last
  BY <1>1, RadixAssumption DEF parseStep
<1>3. q \in Nat /\ last \in 0 .. Radix - 1
  BY <1>1, <1>2, RadixAssumption, MaxIDAssumption DEF ParseValues
<1>4. /\ parseDigits(e) \in Nat /\ parseDigits(e) \div Radix = q
      /\ parseDigits(e) % Radix = last
  BY <1>2, <1>3, LastDigit
<1>5. CASE ds = <<>>
  <2>1. e[1] = last /\ q = 0 /\ digits[0] = ds
    BY <1>1, <1>5, DigitsRecursion
  <2>2. parseDigits(e) # 0
    BY <1>2, <1>3, <2>1, RadixAssumption
  <2> HIDE DEF e, q
  <2> QED
    BY <1>4, <2>1, <2>2, DigitsRecursion DEF e
<1>6. CASE ds # <<>>
  <2>1. e[1] = ds[1]
    <3>1. Len(ds) >= 1 /\ Len(ds) \in Nat
      BY <1>6
    <3> QED
      BY <3>1, AppendProperties
  <2>2. q # 0 /\ digits[q] = ds
    BY <1>2, <1>6, <2>1 DEF Spelled
  <2>3. parseDigits(e) # 0
    <3>1. q * Radix >= 1
      BY <1>3, <2>2, RadixAssumption
    <3>2. q * Radix \in Nat
      BY <1>3, RadixAssumption
    <3> QED
      BY <1>2, <1>3, <3>1, <3>2
  <2> HIDE DEF e, q
  <2> QED
    BY <1>4, <2>2, <2>3, DigitsRecursion DEF e
<1> QED
  BY <1>5, <1>6

\* and so any number of them.
LEMMA DigitsOfParse == \A ds \in Seq(Nat) : Spelled(ds)
<1> DEFINE S == {n \in Nat : \A ds \in Seq(Nat) : Len(ds) = n => Spelled(ds)}
<1>1. ASSUME NEW n \in Nat, \A m \in 0 .. n - 1 : m \in S PROVE n \in S
  <2> SUFFICES ASSUME NEW ds \in Seq(Nat), Len(ds) = n, ds # <<>> PROVE Spelled(ds)
    BY DEF Spelled
  <2> DEFINE front == SubSeq(ds, 1, n - 1)
             last == ds[n]
  <2>1. n \in Nat \ {0}
    OBVIOUS
  <2>2. /\ front \in Seq(Nat) /\ Len(front) = n - 1
        /\ \A i \in 1 .. n - 1 : front[i] = ds[i]
    BY <2>1, PrefixFacts
  <2>3. last \in Nat
    BY <2>1
  <2> HIDE DEF front
  <2>4. ds = Append(front, last)
    BY <2>1, <2>2, <2>3, AppendProperties
  <2>5. Spelled(front)
    <3>1. n - 1 \in 0 .. n - 1
      BY <2>1
    <3> QED
      BY <1>1, <2>2, <3>1
  <2> HIDE DEF last
  <2> QED
    BY <2>2, <2>3, <2>4, <2>5, SpelledNext
<1>2. S = Nat
  <2>1. S \in SUBSET Nat
    OBVIOUS
  <2> HIDE DEF S
  <2> QED
    BY <1>1, <2>1, NumberInduction
<1> QED
  BY <1>2

\* A leaf without more than its depth has the IDs of one digit.
LEMMA ShortestLeaf == 1 \in 1 .. MaxID /\ leafDirectory[1] = <<1>>
<1>1. 1 \in 1 .. MaxID /\ 1 \in Nat \ {0}
  BY RadixAssumption, MaxIDAssumption
<1>2. 1 \div Radix = 0
  <2>1. 0 * Radix + 1 = 1 /\ 1 \in 0 .. Radix - 1 /\ 0 \in Nat
    BY RadixAssumption
  <2> QED
    BY <2>1, LastDigit
<1>3. digits[0] = <<>> /\ Len(digits[1]) = Len(digits[0]) + 1
  BY <1>1, <1>2, LeafFacts, DigitsRecursion
<1>4. leafDirectory[1] = <<Len(digits[1])>> \o digits[0]
  BY <1>1, <1>2, LeafFacts
<1> QED
  BY <1>1, <1>3, <1>4

\* In a longer leaf is the ID with its digits and a zero.
LEMMA LongerLeaf ==
    ASSUME NEW p \in Seq(Nat), Len(p) > 1, validDirectory(p), isLeaf(p)
    PROVE  \E id \in 1 .. MaxID : leafDirectory[id] = p
<1> DEFINE ds == Tail(p)
           q == parseDigits(ds)
           id == q * Radix
<1>1. Len(p) \in Nat /\ p # <<>> /\ p[1] = Len(p)
  BY DEF isLeaf
<1>2. ds \in Seq(Nat) /\ Len(ds) = Len(p) - 1 /\ ds[1] = p[2] /\ p = <<p[1]>> \o ds
  BY <1>1
<1>3. p[2] # 0 /\ q # ParseError /\ q <= MaxID \div Radix
  BY DEF validDirectory
<1> HIDE DEF ds
<1>4. q \in Nat \ {0} /\ digits[q] = ds
  <2>1. Len(ds) >= 1
    BY <1>1, <1>2
  <2>2. ds # <<>>
    BY <2>1, EmptySeq
  <2> QED
    BY <1>2, <1>3, <2>2, DigitsOfParse DEF Spelled
<1> HIDE DEF q
<1>5. id \in 1 .. MaxID
  <2> DEFINE m == MaxID \div Radix
             r == MaxID % Radix
  <2>1. m \in Nat /\ r \in 0 .. Radix - 1 /\ MaxID = m * Radix + r /\ MaxID \in Nat
    BY Division, MaxIDAssumption
  <2>2. q <= m
    BY <1>3
  <2> HIDE DEF m, r
  <2>3. r \in Nat /\ Radix \in Nat /\ Radix > 1
    BY <2>1, RadixAssumption
  <2>4. q * Radix <= m * Radix /\ q * Radix \in Nat /\ m * Radix \in Nat
    BY <1>4, <2>1, <2>2, <2>3
  <2>5. q * Radix >= 1
    BY <1>4, <2>3
  <2> QED
    BY <2>1, <2>3, <2>4, <2>5
<1>6. id \div Radix = q
  <2>1. 0 \in 0 .. Radix - 1 /\ q * Radix + 0 = id
    BY <1>4, RadixAssumption
  <2> QED
    BY <1>4, <2>1, LastDigit
<1> HIDE DEF id
<1>7. leafDirectory[id] = <<Len(digits[id])>> \o ds /\ Len(digits[id]) = Len(ds) + 1
  BY <1>4, <1>5, <1>6, LeafFacts
<1>8. Len(digits[id]) = p[1]
  BY <1>1, <1>2, <1>7
<1> QED
  BY <1>2, <1>5, <1>7, <1>8

\* The directories that validDirectory takes for leaves are those in which some
\* ID is filed, for every radix and up to the last ID.
THEOREM LeavesHoldHolds == WalkSpec => []LeavesHoldIDs
<1>1. PathInv => LeavesHoldIDs
  <2> SUFFICES ASSUME path \in Seq(Nat), path # <<>>
               PROVE  (validDirectory(path) /\ isLeaf(path))
                         <=> (\E id \in 1 .. MaxID : leafDirectory[id] = path)
    BY DEF LeavesHoldIDs, PathInv
  <2>1. ASSUME NEW id \in 1 .. MaxID, leafDirectory[id] = path
        PROVE  validDirectory(path) /\ isLeaf(path)
    BY <2>1, LeafIsAncestor, DirectoryOfMessage
  <2>2. ASSUME validDirectory(path), isLeaf(path)
        PROVE  \E id \in 1 .. MaxID : leafDirectory[id] = path
    <3>1. CASE Len(path) > 1
      BY <2>2, <3>1, LongerLeaf
    <3>2. CASE ~(Len(path) > 1)
      <4>1. Len(path) = 1
        <5> DEFINE n == Len(path)
        <5>1. n \in Nat \ {0} /\ ~(n > 1)
          BY <3>2, EmptySeq
        <5> HIDE DEF n
        <5>2. n = 1
          BY <5>1
        <5> QED
          BY <5>2 DEF n
      <4>2. path[1] = 1
        BY <2>2, <4>1 DEF isLeaf
      <4>3. path = <<1>>
        BY <4>1, <4>2
      <4> QED
        BY <4>3, ShortestLeaf
    <3> QED
      BY <3>1, <3>2
  <2> QED
    BY <2>1, <2>2
<1> QED
  BY PathType, <1>1, PTL

-----------------------------------------------------------------------------
(* The state file under any sequence of receipts and deletions. *)

\* The inductive invariant: the state in memory describes the tree.
IndexInv == StateOf(state, tree)

\* The files a request names.
requestedFiles(ids) == {name \in tree : messageFromPath(name).ID \in ids}

\* DeleteAs resolves a request to the messages of just those files.
LEMMA ResolveFinds ==
    ASSUME IndexInv, NEW ids, ids \subseteq 1 .. state.LastID
    PROVE  resolve(ids) = messagesOf(requestedFiles(ids))
<1> DEFINE index == buildDirectoryIndex(state.Directories)
           found(id) == messageByID(tree, index, state.LastID, id)
<1>1. /\ state.LastID \in 0 .. MaxID /\ IsTree(tree, state.LastID)
      /\ state.Directories = countsOf(tree)
  BY DEF IndexInv, StateOf
<1>2. ASSUME NEW id \in ids PROVE found(id) = {m \in messagesOf(tree) : m.ID = id}
  <2>1. id \in 1 .. MaxID
    BY <1>1, MaxIDAssumption
  <2> QED
    BY <1>1, <2>1, MessageByIDFinds
<1>3. resolve(ids) = UNION {found(id) : id \in ids}
  BY DEF resolve
<1> HIDE DEF found
<1> QED
  BY <1>2, <1>3 DEF messagesOf, requestedFiles

\* Receipts and deletions keep it.
LEMMA IndexAlways == Spec => []IndexInv
<1>1. Init => IndexInv
  BY StateOfNothing DEF Init, IndexInv
<1>2. IndexInv /\ [Next]_vars => IndexInv'
  <2> SUFFICES ASSUME IndexInv, [Next]_vars PROVE IndexInv'
    OBVIOUS
  <2>1. CASE UNCHANGED vars
    BY <2>1 DEF IndexInv, vars
  <2>2. ASSUME NEW size \in Sizes, Receive(size) PROVE IndexInv'
    <3>1. size \in Nat /\ state.LastID # MaxID
      BY <2>2, SizesAssumption DEF Receive, canPublish
    <3>2. StateOf(publishState(state, size), tree \cup {messagePath(state.LastID + 1, size)})
      BY <3>1, StateReceipt DEF IndexInv
    <3> QED
      BY <2>2, <3>2 DEF Receive, IndexInv
  <2>3. ASSUME NEW ids \in Requests, Delete(ids) PROVE IndexInv'
    <3> DEFINE named == requestedFiles(ids)
    <3>1. named \in SUBSET tree
      BY DEF requestedFiles
    <3>2. resolve(ids) = messagesOf(named)
      BY <2>3, ResolveFinds DEF Delete
    <3> HIDE DEF named
    <3>3. tree' = tree \ pathsOf(messagesOf(named)) /\ state' = deleteState(state, messagesOf(named))
      BY <2>3, <3>2 DEF Delete
    <3>4. pathsOf(messagesOf(named)) = named
          /\ StateOf(deleteState(state, messagesOf(named)), tree \ named)
      BY <3>1, StateRemoval DEF IndexInv
    <3> QED
      BY <3>3, <3>4 DEF IndexInv
  <2> QED
    BY <2>1, <2>2, <2>3 DEF Next
<1> QED
  BY <1>1, <1>2, PTL DEF Spec

\* After any receipts and deletions the state file decodes, counts what is in
\* the tree, makes every listing readable and lets every deletion of live
\* messages through: deleteLocked never refuses what its own commits led to.
THEOREM StateDescribesHolds == Spec => []StateDescribesTree
<1>1. IndexInv => StateDescribesTree
  <2> SUFFICES ASSUME IndexInv PROVE StateDescribesTree
    OBVIOUS
  <2>1. StateOf(state, tree)
    BY DEF IndexInv
  <2>2. /\ validState(state)
        /\ messageCount(state) = Cardinality(messagesOf(tree))
    BY <2>1, StateIsValid
  <2>3. Cardinality(messagesOf(tree)) = Cardinality(tree)
    <3>1. tree \in SUBSET tree
      OBVIOUS
    <3> QED
      BY <2>1, <3>1, FilesAndMessages DEF StateOf
  <2>4. state.TotalOctets = octetsOf({messageFromPath(name) : name \in tree})
    BY <2>1 DEF StateOf, messagesOf
  <2>5. \A leaf \in Range(buildDirectoryIndex(state.Directories).leaves) :
            /\ readable(tree, leaf)
            /\ \A name \in filesIn(tree, leaf.path) : messageFromPath(name).ID <= state.LastID
    BY <2>1, StateReadable
  <2>6. ASSUME NEW ids \in Requests, ids \subseteq 1 .. state.LastID
        PROVE  canDelete(state, resolve(ids))
    <3>1. requestedFiles(ids) \in SUBSET tree /\ resolve(ids) = messagesOf(requestedFiles(ids))
      BY <2>6, ResolveFinds DEF requestedFiles
    <3> QED
      BY <2>1, <3>1, StateAllows
  <2> QED
    BY <2>2, <2>3, <2>4, <2>5, <2>6 DEF StateDescribesTree
<1> QED
  BY IndexAlways, <1>1, PTL

\* Lookup, ListAt and messageByID find the live messages after any receipts and
\* deletions: cumulative counts of leaves in string order lead to the place in ID
\* order, because all IDs of an earlier leaf are smaller (LeafOrder).
THEOREM ReadersFindHolds == Spec => []ReadersFindLive
<1>1. IndexInv => ReadersFindLive
  <2> SUFFICES ASSUME IndexInv PROVE ReadersFindLive
    OBVIOUS
  <2> DEFINE index == buildDirectoryIndex(state.Directories)
             M == messagesOf(tree)
  <2>1. /\ state.LastID \in 0 .. MaxID /\ IsTree(tree, state.LastID)
        /\ state.Directories = countsOf(tree)
    BY DEF IndexInv, StateOf
  <2>2. \E paths, n : IsListing(tree, paths, n) /\ index.leaves = Leaves(tree, paths, n)
    BY <2>1, IndexOfTree
  <2>3. liveMessages = listed(tree)
    BY DEF liveMessages, listed, messagesOf
  <2>4. /\ Len(listed(tree)) = Cardinality(tree) /\ Range(listed(tree)) = M
    <3>1. tree \in SUBSET tree
      OBVIOUS
    <3>2. IsMessages(M) /\ Cardinality(M) = Cardinality(tree)
      BY <2>1, <3>1, MessagesOfPart
    <3> HIDE DEF M
    <3>3. Len(sorted(M, byID)) = Cardinality(M) /\ Range(sorted(M, byID)) = M
      BY <3>2, SortedFacts
    <3> QED
      BY <3>2, <3>3 DEF listed, M
  <2>5. \A id \in 1 .. MaxID :
            messageByID(tree, index, state.LastID, id) = {m \in M : m.ID = id}
    BY <2>1, MessageByIDFinds
  <2> HIDE DEF index, M
  <2>6. \A number \in 1 .. Cardinality(tree) : Lookup(tree, index, number) = listed(tree)[number]
    BY <2>1, <2>2, LookupFinds
  <2>7. ListAt(tree, index, state.LastID) = listed(tree)
    BY <2>1, <2>2, ListAtFinds
  <2> QED
    BY <2>3, <2>4, <2>5, <2>6, <2>7 DEF ReadersFindLive, index
<1> QED
  BY IndexAlways, <1>1, PTL

-----------------------------------------------------------------------------
(* The shared reader. *)

\* The tokens that stand in the pipe.
Tokens ==
    ({"missing", "header"} \X Specs) \cup {<<"newline">>}
        \cup {<<"octet", spec, i>> : spec \in Specs, i \in Nat}

\* What is in the pipe and what the child has yet to write are the answer that
\* is expected, or a part of it from its start if the child is gone.
Comes(output, pending, st, expected) ==
    /\ output \in Seq(Tokens) /\ pending \in Seq(Tokens)
    /\ Len(output) + Len(pending) <= Len(expected)
    /\ st = "running" => Len(output) + Len(pending) = Len(expected)
    /\ st # "running" => pending = <<>>
    /\ \A i \in 1 .. Len(output) : output[i] = expected[i]
    /\ \A i \in 1 .. Len(pending) : pending[i] = expected[Len(output) + i]

\* Nothing was written yet, or never will be.
LEMMA ComesAtFirst ==
    ASSUME NEW expected \in Seq(Tokens), NEW st
    PROVE  /\ Comes(<<>>, expected, "running", expected)
           /\ st # "running" => Comes(<<>>, <<>>, st, expected)
<1>1. <<>> \in Seq(Tokens) /\ Len(<<>>) = 0 /\ Len(expected) \in Nat
  BY EmptySeq
<1>2. \A i \in 1 .. Len(expected) : Len(<<>>) + i = i
  BY <1>1
<1>3. \A i \in 1 .. Len(<<>>) : FALSE
  BY <1>1
<1>4. Comes(<<>>, expected, "running", expected)
  BY <1>1, <1>2, <1>3 DEF Comes
<1>5. st # "running" => Comes(<<>>, <<>>, st, expected)
  BY <1>1, <1>3 DEF Comes
<1> QED
  BY <1>4, <1>5

\* The child writes.
LEMMA ComesWritten ==
    ASSUME NEW output, NEW pending, NEW expected \in Seq(Tokens),
           Comes(output, pending, "running", expected), pending # <<>>
    PROVE  Comes(Append(output, Head(pending)), Tail(pending), "running", expected)
<1> DEFINE o == Append(output, Head(pending))
           p == Tail(pending)
<1>1. /\ output \in Seq(Tokens) /\ pending \in Seq(Tokens)
      /\ Len(output) + Len(pending) = Len(expected)
      /\ \A i \in 1 .. Len(output) : output[i] = expected[i]
      /\ \A i \in 1 .. Len(pending) : pending[i] = expected[Len(output) + i]
  BY DEF Comes
<1>2. Len(output) \in Nat /\ Len(pending) \in Nat /\ Len(pending) # 0 /\ Len(expected) \in Nat
  BY <1>1
<1>3. /\ Head(pending) = pending[1] /\ pending[1] \in Tokens
      /\ o \in Seq(Tokens) /\ Len(o) = Len(output) + 1
      /\ p \in Seq(Tokens) /\ Len(p) = Len(pending) - 1
      /\ \A i \in 1 .. Len(p) : p[i] = pending[i + 1]
      /\ \A i \in 1 .. Len(output) : o[i] = output[i]
      /\ o[Len(output) + 1] = pending[1]
  BY <1>1, <1>2
<1> HIDE DEF o, p
<1>4. ASSUME NEW i \in 1 .. Len(o) PROVE o[i] = expected[i]
  <2>1. CASE i \in 1 .. Len(output)
    BY <1>1, <1>3, <2>1
  <2>2. CASE i = Len(output) + 1
    <3>1. 1 \in 1 .. Len(pending)
      BY <1>2
    <3> QED
      BY <1>1, <1>3, <2>2, <3>1
  <2>3. Len(o) = Len(output) + 1
    BY <1>3
  <2> QED
    BY <1>2, <2>1, <2>2, <2>3
<1>5. ASSUME NEW i \in 1 .. Len(p) PROVE p[i] = expected[Len(o) + i]
  <2>1. i + 1 \in 1 .. Len(pending) /\ Len(output) + (i + 1) = Len(o) + i
    BY <1>2, <1>3
  <2> QED
    BY <1>1, <1>3, <2>1
<1>6. Len(o) + Len(p) = Len(expected)
  <2>1. /\ Len(o) = Len(output) + 1 /\ Len(p) = Len(pending) - 1
        /\ Len(output) + Len(pending) = Len(expected)
    BY <1>1, <1>3
  <2> QED
    BY <1>2, <2>1
<1>7. Comes(o, p, "running", expected)
  BY <1>2, <1>3, <1>4, <1>5, <1>6 DEF Comes
<1> QED
  BY <1>7 DEF o, p

\* The child dies.
LEMMA ComesKilled ==
    ASSUME NEW output, NEW pending, NEW st, NEW expected \in Seq(Tokens),
           NEW later, later # "running", Comes(output, pending, st, expected)
    PROVE  Comes(output, <<>>, later, expected)
BY DEF Comes

\* A token is taken out of the pipe.
LEMMA ComesTaken ==
    ASSUME NEW output, NEW pending, NEW st, NEW expected \in Seq(Tokens),
           Comes(output, pending, st, expected), output # <<>>
    PROVE  /\ Head(output) = expected[1] /\ expected # <<>>
           /\ Comes(Tail(output), pending, st, Tail(expected))
<1> DEFINE o == Tail(output)
           e == Tail(expected)
<1>1. /\ output \in Seq(Tokens) /\ pending \in Seq(Tokens)
      /\ Len(output) + Len(pending) <= Len(expected)
      /\ \A i \in 1 .. Len(output) : output[i] = expected[i]
      /\ \A i \in 1 .. Len(pending) : pending[i] = expected[Len(output) + i]
      /\ st = "running" => Len(output) + Len(pending) = Len(expected)
      /\ st # "running" => pending = <<>>
  BY DEF Comes
<1>2. Len(output) \in Nat \ {0} /\ Len(pending) \in Nat /\ Len(expected) \in Nat \ {0}
  BY <1>1
<1>3. expected # <<>>
  BY <1>2
<1>4. /\ Head(output) = output[1]
      /\ o \in Seq(Tokens) /\ Len(o) = Len(output) - 1
      /\ e \in Seq(Tokens) /\ Len(e) = Len(expected) - 1
      /\ \A i \in 1 .. Len(o) : o[i] = output[i + 1]
      /\ \A i \in 1 .. Len(e) : e[i] = expected[i + 1]
  BY <1>1, <1>2, <1>3
<1> HIDE DEF o, e
<1>5. ASSUME NEW i \in 1 .. Len(o) PROVE o[i] = e[i]
  <2>1. i + 1 \in 1 .. Len(output) /\ i \in 1 .. Len(e)
    BY <1>1, <1>2, <1>4
  <2> QED
    BY <1>1, <1>4, <2>1
<1>6. ASSUME NEW i \in 1 .. Len(pending) PROVE pending[i] = e[Len(o) + i]
  <2>1. Len(o) + i \in 1 .. Len(e) /\ (Len(o) + i) + 1 = Len(output) + i
    BY <1>1, <1>2, <1>4
  <2>2. e[Len(o) + i] = expected[(Len(o) + i) + 1]
    BY <1>4, <2>1
  <2> QED
    BY <1>1, <2>1, <2>2
<1>7. /\ Len(o) + Len(pending) <= Len(e)
      /\ st = "running" => Len(o) + Len(pending) = Len(e)
  BY <1>1, <1>2, <1>4
<1>8. Comes(o, pending, st, e)
  BY <1>1, <1>4, <1>5, <1>6, <1>7 DEF Comes
<1>9. output[1] = expected[1]
  BY <1>1, <1>2
<1> QED
  BY <1>3, <1>4, <1>8, <1>9 DEF o, e

\* A request whose answer was taken leaves the pipe empty.
LEMMA ComesNothing ==
    ASSUME NEW output, NEW pending, NEW st,
           Comes(output, pending, st, <<>>)
    PROVE  output = <<>> /\ pending = <<>>
<1>1. output \in Seq(Tokens) /\ pending \in Seq(Tokens) /\ Len(output) + Len(pending) <= 0
  BY DEF Comes
<1>2. Len(output) = 0 /\ Len(pending) = 0
  BY <1>1
<1> QED
  BY <1>1, <1>2

\* The tokens that follow the header once all octets but the last n were read.
Lease(spec, n) ==
    [i \in 1 .. n + 1 |-> IF i = n + 1 THEN <<"newline">>
                          ELSE <<"octet", spec, Repository[spec].size - n + i>>]

\* The last n octets,
LEMMA LeaseFacts ==
    ASSUME NEW spec \in Specs, spec \in DOMAIN Repository,
           NEW n \in 0 .. Repository[spec].size
    PROVE  /\ Lease(spec, n) \in Seq(Tokens) /\ Lease(spec, n) # <<>>
           /\ n = 0 => Lease(spec, n)[1] = <<"newline">> /\ Tail(Lease(spec, n)) = <<>>
           /\ n > 0 => /\ Lease(spec, n)[1] = <<"octet", spec, Repository[spec].size - n + 1>>
                       /\ Tail(Lease(spec, n)) = Lease(spec, n - 1)
<1> DEFINE size == Repository[spec].size
           l == Lease(spec, n)
<1>1. size \in Nat /\ n \in Nat /\ n <= size
  BY RepositoryAssumption
<1> HIDE DEF size
<1>2. ASSUME NEW i \in 1 .. n + 1
      PROVE  (IF i = n + 1 THEN <<"newline">> ELSE <<"octet", spec, size - n + i>>) \in Tokens
  <2>1. size - n + i \in Nat
    BY <1>1
  <2> QED
    BY <2>1 DEF Tokens
<1>3. l \in [1 .. n + 1 -> Tokens]
  BY <1>2 DEF Lease, size
<1>4. l \in Seq(Tokens) /\ Len(l) = n + 1
  BY <1>1, <1>3
<1>5. \A i \in 1 .. n + 1 :
        l[i] = IF i = n + 1 THEN <<"newline">> ELSE <<"octet", spec, size - n + i>>
  BY DEF Lease, size
<1>6. l # <<>>
  BY <1>1, <1>4
<1>7. /\ Tail(l) \in Seq(Tokens) /\ Len(Tail(l)) = n
      /\ \A i \in 1 .. n : Tail(l)[i] = l[i + 1]
  BY <1>1, <1>4, <1>6
<1> HIDE DEF l
<1>8. ASSUME n = 0 PROVE l[1] = <<"newline">> /\ Tail(l) = <<>>
  <2>1. 1 \in 1 .. n + 1 /\ 1 = n + 1
    BY <1>8
  <2>2. Tail(l) \in Seq(Tokens) /\ Len(Tail(l)) = 0
    BY <1>7, <1>8
  <2>3. l[1] = <<"newline">>
    BY <1>5, <2>1
  <2>4. Tail(l) = <<>>
    BY <2>2, EmptySeq
  <2> QED
    BY <2>3, <2>4
<1>9. ASSUME n > 0
      PROVE  l[1] = <<"octet", spec, size - n + 1>> /\ Tail(l) = Lease(spec, n - 1)
  <2> DEFINE m == Lease(spec, n - 1)
             t == Tail(l)
  <2>1. n - 1 \in Nat /\ (n - 1) + 1 = n
    BY <1>1, <1>9
  <2>2. m = [i \in 1 .. n |-> IF i = n THEN <<"newline">>
                              ELSE <<"octet", spec, size - (n - 1) + i>>]
    BY <2>1 DEF Lease, size
  <2>3. ASSUME NEW i \in 1 .. n PROVE t[i] = m[i]
    <3>1. i + 1 \in 1 .. n + 1 /\ (i + 1 = n + 1 <=> i = n)
          /\ size - n + (i + 1) = size - (n - 1) + i
      BY <1>1
    <3>2. t[i] = l[i + 1]
      BY <1>7
    <3>3. l[i + 1] = IF i = n THEN <<"newline">> ELSE <<"octet", spec, size - (n - 1) + i>>
      BY <1>5, <3>1
    <3> QED
      BY <2>2, <3>2, <3>3
  <2>4. m \in Seq(Tokens) /\ Len(m) = n
    <3>1. ASSUME NEW i \in 1 .. n
          PROVE  (IF i = n THEN <<"newline">> ELSE <<"octet", spec, size - (n - 1) + i>>) \in Tokens
      <4>1. size - (n - 1) + i \in Nat
        BY <1>1
      <4> QED
        BY <4>1 DEF Tokens
    <3>2. m \in [1 .. n -> Tokens]
      BY <2>2, <3>1
    <3> QED
      BY <1>1, <3>2
  <2> HIDE DEF m, t
  <2>5. t = m
    BY <1>7, <2>3, <2>4, SeqEqual DEF t
  <2>6. 1 \in 1 .. n + 1 /\ 1 # n + 1
    BY <1>1, <1>9
  <2> QED
    BY <1>5, <2>5, <2>6 DEF m, t
<1> QED
  BY <1>4, <1>6, <1>8, <1>9 DEF size, l

\* The answer to a request,
LEMMA AnswerFacts ==
    ASSUME NEW spec \in Specs, NEW command \in {"info", "contents"}
    PROVE  LET answer == Reading!answer(command, spec)
           IN  /\ answer \in Seq(Tokens) /\ answer # <<>>
               /\ spec \notin DOMAIN Repository =>
                     answer[1] = <<"missing", spec>> /\ Tail(answer) = <<>>
               /\ spec \in DOMAIN Repository =>
                     /\ answer[1] = <<"header", spec>>
                     /\ command = "info" => Tail(answer) = <<>>
                     /\ command = "contents" => Tail(answer) = Lease(spec, Repository[spec].size)
<1> DEFINE answer == Reading!answer(command, spec)
           size == Repository[spec].size
<1>1. CASE spec \notin DOMAIN Repository
  <2>1. answer = <<<<"missing", spec>>>> /\ <<"missing", spec>> \in Tokens
    BY <1>1 DEF Reading!answer, Tokens
  <2> QED
    BY <1>1, <2>1
<1>2. ASSUME spec \in DOMAIN Repository, command = "info"
      PROVE  /\ answer \in Seq(Tokens) /\ answer # <<>>
             /\ answer[1] = <<"header", spec>> /\ Tail(answer) = <<>>
  <2>1. answer = <<<<"header", spec>>>> \o <<>> /\ <<"header", spec>> \in Tokens
    BY <1>2 DEF Reading!answer, Tokens
  <2>2. answer = <<<<"header", spec>>>>
    BY <2>1
  <2> QED
    BY <2>1, <2>2
<1>3. ASSUME spec \in DOMAIN Repository, command = "contents"
      PROVE  /\ answer \in Seq(Tokens) /\ answer # <<>>
             /\ answer[1] = <<"header", spec>> /\ Tail(answer) = Lease(spec, size)
  <2> DEFINE octets == Reading!contents(spec)
             header == <<<<"header", spec>>>>
             newline == <<<<"newline">>>>
             lease == Lease(spec, size)
             rest == octets \o newline
  <2>1. size \in Nat
    BY <1>3, RepositoryAssumption
  <2>2. octets = [i \in 1 .. size |-> <<"octet", spec, i>>]
    BY DEF Reading!contents
  <2>3. \A i \in 1 .. size : <<"octet", spec, i>> \in Tokens
    BY <2>1 DEF Tokens
  <2>4. octets \in [1 .. size -> Tokens]
    BY <2>2, <2>3
  <2>5. octets \in Seq(Tokens) /\ Len(octets) = size
    BY <2>1, <2>4
  <2>6. header \in Seq(Tokens) /\ Len(header) = 1 /\ header[1] = <<"header", spec>>
        /\ newline \in Seq(Tokens) /\ Len(newline) = 1 /\ newline[1] = <<"newline">>
    BY DEF Tokens
  <2>7. answer = header \o rest
    BY <1>3 DEF Reading!answer
  <2> HIDE DEF octets, header, newline
  <2>8. /\ rest \in Seq(Tokens) /\ Len(rest) = size + 1
        /\ \A i \in 1 .. size : rest[i] = octets[i]
        /\ rest[size + 1] = <<"newline">>
    <3>1. /\ rest \in Seq(Tokens) /\ Len(rest) = Len(octets) + Len(newline)
          /\ \A i \in 1 .. Len(octets) + Len(newline) :
                rest[i] = IF i <= Len(octets) THEN octets[i] ELSE newline[i - Len(octets)]
      BY <2>5, <2>6, ConcatProperties
    <3> HIDE DEF rest
    <3>2. /\ rest \in Seq(Tokens) /\ Len(rest) = size + 1
          /\ \A i \in 1 .. size + 1 : rest[i] = IF i <= size THEN octets[i] ELSE newline[i - size]
      BY <2>5, <2>6, <3>1
    <3> HIDE DEF size
    <3>3. \A i \in 1 .. size : rest[i] = octets[i]
      BY <2>1, <3>2
    <3>4. size + 1 \in 1 .. size + 1 /\ ~(size + 1 <= size) /\ (size + 1) - size = 1
      BY <2>1
    <3>5. rest[size + 1] = newline[1]
      BY <3>2, <3>4
    <3> QED
      BY <2>6, <3>2, <3>3, <3>5
  <2> HIDE DEF rest, answer
  <2>9. /\ answer \in Seq(Tokens) /\ Len(answer) = size + 2 /\ answer[1] = <<"header", spec>>
        /\ \A i \in 1 .. size + 1 : answer[i + 1] = rest[i]
    <3> HIDE DEF size
    <3>1. /\ answer \in Seq(Tokens) /\ Len(answer) = Len(header) + Len(rest)
          /\ \A i \in 1 .. Len(header) + Len(rest) :
                answer[i] = IF i <= Len(header) THEN header[i] ELSE rest[i - Len(header)]
      BY <2>6, <2>7, <2>8, ConcatProperties
    <3>2. /\ Len(answer) = 1 + (size + 1)
          /\ \A i \in 1 .. 1 + (size + 1) : answer[i] = IF i <= 1 THEN header[i] ELSE rest[i - 1]
      BY <2>6, <2>8, <3>1
    <3>3. 1 \in 1 .. 1 + (size + 1) /\ 1 + (size + 1) = size + 2
      BY <2>1
    <3>4. answer[1] = header[1]
      BY <3>2, <3>3
    <3>5. ASSUME NEW i \in 1 .. size + 1 PROVE answer[i + 1] = rest[i]
      <4>1. i + 1 \in 1 .. 1 + (size + 1) /\ ~(i + 1 <= 1) /\ (i + 1) - 1 = i
        BY <2>1
      <4> QED
        BY <3>2, <4>1
    <3> QED
      BY <2>6, <3>1, <3>2, <3>3, <3>4, <3>5
  <2>10. answer # <<>>
    BY <2>1, <2>9
  <2>11. /\ Tail(answer) \in Seq(Tokens) /\ Len(Tail(answer)) = size + 1
         /\ \A i \in 1 .. size + 1 : Tail(answer)[i] = answer[i + 1]
    BY <2>1, <2>9, <2>10
  <2> DEFINE t == Tail(answer)
  <2>12. lease = [i \in 1 .. size + 1 |-> IF i = size + 1 THEN <<"newline">>
                                          ELSE <<"octet", spec, size - size + i>>]
    BY DEF Lease
  <2> HIDE DEF size, lease
  <2>13. ASSUME NEW i \in 1 .. size + 1 PROVE t[i] = lease[i]
    <3>1. t[i] = rest[i] /\ size - size + i = i /\ (i # size + 1 => i \in 1 .. size)
      BY <2>1, <2>9, <2>11
    <3>2. rest[i] = IF i = size + 1 THEN <<"newline">> ELSE <<"octet", spec, i>>
      BY <2>2, <2>8, <3>1 DEF octets
    <3> QED
      BY <2>12, <3>1, <3>2
  <2>14. lease \in Seq(Tokens) /\ Len(lease) = size + 1
    <3>1. \A i \in 1 .. size + 1 : lease[i] \in Tokens
      <4>1. \A i \in 1 .. size + 1 : t[i] \in Tokens
        BY <2>11
      <4> QED
        BY <2>13, <4>1
    <3>2. lease \in [1 .. size + 1 -> Tokens]
      BY <2>12, <3>1
    <3>3. size + 1 \in Nat
      BY <2>1
    <3> HIDE DEF t
    <3> QED
      BY <3>2, <3>3
  <2>15. t = lease
    <3>1. t \in Seq(Tokens) /\ Len(t) = Len(lease)
      BY <2>11, <2>14
    <3> HIDE DEF t
    <3> QED
      BY <2>13, <2>14, <3>1, SeqEqual
  <2> QED
    BY <2>9, <2>10, <2>15 DEF t, lease, size
<1> HIDE DEF answer, size
<1> QED
  BY <1>1, <1>2, <1>3 DEF answer, size

\* The calls that are under way.
BusyCalls ==
    [st : {"query", "leased", "read", "failed", "close"}, command : {"info", "contents"},
     spec : Specs, kind : Reading!Kinds, of : Specs, remaining : Nat, got : Seq(Tokens),
     result : {"ok"}]

\* What the answer of a call that ended says is so.
IsIdle(c) ==
    /\ c.st = "idle"
    /\ c.result = "ok" => c.of = c.spec
    /\ c.result = "missing" => c.spec \notin DOMAIN Repository

\* What the holder of the lock has read is what comes before the rest.
IsRead(got, spec, n) ==
    n \in Nat /\ Len(got) = n /\ \A i \in 1 .. n : got[i] = <<"octet", spec, i>>

\* A lease is for the object that was asked for.
IsLease(c) ==
    /\ c.command = "contents" /\ c.of = c.spec /\ c.spec \in DOMAIN Repository
    /\ c.remaining \in 0 .. Repository[c.spec].size
    /\ c.st = "read" => c.remaining > 0
    /\ c.st \in {"leased", "read"} =>
          IsRead(c.got, c.spec, Repository[c.spec].size - c.remaining)

\* What its holder has yet to see of the pipe.
Expected(c) ==
    IF c.st = "query" THEN Reading!answer(c.command, c.spec) ELSE Lease(c.spec, c.remaining)

\* What is in the pipe is the rest of the answer to the holder of the lock.
IsHolder(c, process) ==
    /\ c \in BusyCalls
    /\ c.st = "query" => c.of = c.spec /\ c.got = <<>>
    /\ c.st # "query" => IsLease(c)
    /\ Comes(process.output, process.pending, process.st, Expected(c))

\* The child and its pipe.
Processes ==
    [st : {"none", "running", "died", "killed"}, pending : Seq(Tokens), output : Seq(Tokens)]

\* The inductive invariant of the reader: the lock's holder is in step with the
\* pipe, and the pipe is empty when nobody holds the lock.
ReaderInv ==
    /\ reader \in Processes
    /\ call = [r \in Readers |-> call[r]]
    /\ \A r \in Readers : r # readMu => IsIdle(call[r])
    /\ readMu = None => reader.pending = <<>> /\ reader.output = <<>>
    /\ readMu # None => readMu \in Readers /\ IsHolder(call[readMu], reader)

\* What the holder expects is made of tokens.
LEMMA ExpectedType ==
    ASSUME NEW c, NEW process, IsHolder(c, process)
    PROVE  Expected(c) \in Seq(Tokens)
<1>1. c.spec \in Specs /\ c.command \in {"info", "contents"}
  BY DEF IsHolder, BusyCalls
<1>2. CASE c.st = "query"
  <2>1. Reading!answer(c.command, c.spec) \in Seq(Tokens)
    BY <1>1, AnswerFacts
  <2> QED
    BY <1>2, <2>1 DEF Expected
<1>3. CASE c.st # "query"
  <2>1. c.spec \in DOMAIN Repository /\ c.remaining \in 0 .. Repository[c.spec].size
    BY <1>3 DEF IsHolder, IsLease
  <2>2. Lease(c.spec, c.remaining) \in Seq(Tokens)
    BY <1>1, <2>1, LeaseFacts
  <2> QED
    BY <1>3, <2>2 DEF Expected
<1> QED
  BY <1>2, <1>3

\* Another process: the holder's view of the pipe is all that matters.
LEMMA HolderKept ==
    ASSUME NEW c, NEW process, NEW later, IsHolder(c, process),
           Comes(later.output, later.pending, later.st, Expected(c))
    PROVE  IsHolder(c, later)
BY DEF IsHolder

\* The first token in the pipe, and the pipe without it.
LEMMA HolderTakes ==
    ASSUME NEW c, NEW process \in Processes, IsHolder(c, process), process.output # <<>>
    PROVE  LET later == [process EXCEPT !.output = Tail(@)]
           IN  /\ later \in Processes /\ Head(process.output) = Expected(c)[1]
               /\ Comes(later.output, later.pending, later.st, Tail(Expected(c)))
<1> DEFINE later == [process EXCEPT !.output = Tail(@)]
           expected == Expected(c)
<1>1. /\ process.output \in Seq(Tokens) /\ process.pending \in Seq(Tokens)
      /\ process.st \in {"none", "running", "died", "killed"}
  BY DEF Processes
<1>2. Tail(process.output) \in Seq(Tokens)
  BY <1>1
<1>3. /\ later \in Processes /\ later.output = Tail(process.output)
      /\ later.pending = process.pending /\ later.st = process.st
  BY <1>2 DEF Processes
<1>4. Comes(process.output, process.pending, process.st, expected)
  BY DEF IsHolder
<1>5. expected \in Seq(Tokens)
  BY ExpectedType
<1> HIDE DEF later, expected
<1>6. /\ Head(process.output) = expected[1]
      /\ Comes(Tail(process.output), process.pending, process.st, Tail(expected))
  BY <1>4, <1>5, ComesTaken
<1>7. Comes(later.output, later.pending, later.st, Tail(expected))
  BY <1>3, <1>6
<1>8. /\ later \in Processes /\ Head(process.output) = expected[1]
      /\ Comes(later.output, later.pending, later.st, Tail(expected))
  BY <1>3, <1>6, <1>7
<1> QED
  BY <1>8 DEF later, expected
\* A session that is in a call holds the lock.
LEMMA CallerHolds ==
    ASSUME ReaderInv, NEW r \in Readers, call[r].st # "idle"
    PROVE  readMu = r /\ IsHolder(call[r], reader) /\ reader \in Processes
<1>1. readMu = r
  BY DEF ReaderInv, IsIdle
<1>2. readMu # None
  BY <1>1, ReadersAssumption
<1> QED
  BY <1>1, <1>2 DEF ReaderInv

\* A call that ends,
LEMMA Released ==
    ASSUME ReaderInv, NEW r \in Readers, readMu = r, NEW c, IsIdle(c),
           call' = [call EXCEPT ![r] = c], readMu' = None,
           reader' \in Processes, reader'.pending = <<>>, reader'.output = <<>>
    PROVE  ReaderInv'
<1>1. call = [x \in Readers |-> call[x]]
  BY DEF ReaderInv
<1>2. call' = [x \in Readers |-> call'[x]] /\ call'[r] = c
      /\ \A x \in Readers : x # r => call'[x] = call[x]
  BY <1>1
<1>3. ASSUME NEW x \in Readers PROVE IsIdle(call'[x])
  <2>1. CASE x = r
    BY <1>2, <2>1
  <2>2. CASE x # r
    <3>1. IsIdle(call[x])
      BY <2>2 DEF ReaderInv
    <3> QED
      BY <1>2, <2>2, <3>1
  <2> QED
    BY <2>1, <2>2
<1> QED
  BY <1>2, <1>3 DEF ReaderInv

\* and one that goes on.
LEMMA Held ==
    ASSUME ReaderInv, NEW r \in Readers, readMu \in {r, None}, NEW c,
           call' = [call EXCEPT ![r] = c], readMu' = r,
           reader' \in Processes, IsHolder(c, reader')
    PROVE  ReaderInv'
<1>1. call = [x \in Readers |-> call[x]]
  BY DEF ReaderInv
<1>2. call' = [x \in Readers |-> call'[x]] /\ call'[r] = c
      /\ \A x \in Readers : x # r => call'[x] = call[x]
  BY <1>1
<1>3. ASSUME NEW x \in Readers, x # readMu' PROVE IsIdle(call'[x])
  <2>1. x # r /\ x # None
    BY <1>3, ReadersAssumption
  <2>2. IsIdle(call[x])
    BY <2>1 DEF ReaderInv
  <2> QED
    BY <1>2, <2>1, <2>2
<1>4. readMu' # None /\ readMu' \in Readers /\ IsHolder(call'[readMu'], reader')
  BY <1>2, ReadersAssumption
<1> QED
  BY <1>2, <1>3, <1>4 DEF ReaderInv

\* The process that is dropped.
LEMMA NoReader ==
    /\ Reading!noReader \in Processes
    /\ Reading!noReader.pending = <<>> /\ Reading!noReader.output = <<>>
BY DEF Reading!noReader, Processes

\* An error: the call ends, and its process with it.
LEMMA Aborted ==
    ASSUME ReaderInv, NEW r \in Readers, call[r].st # "idle", Reading!aborts(r)
    PROVE  ReaderInv'
<1> DEFINE c == [call[r] EXCEPT !.st = "idle", !.result = "failed"]
<1>1. readMu = r /\ call[r] \in BusyCalls
  BY CallerHolds DEF IsHolder
<1>2. IsIdle(c)
  BY <1>1 DEF IsIdle, BusyCalls
<1>3. call' = [call EXCEPT ![r] = c] /\ readMu' = None /\ reader' = Reading!noReader
  BY DEF Reading!aborts, Reading!returns
<1> QED
  BY <1>1, <1>2, <1>3, NoReader, Released

\* A header is that of the object asked for.
LEMMA HeaderIsMine ==
    ASSUME NEW c, NEW process \in Processes, IsHolder(c, process), c.st = "query",
           process.output # <<>>
    PROVE  /\ c.spec \in DOMAIN Repository => Head(process.output) = <<"header", c.spec>>
           /\ c.spec \notin DOMAIN Repository => Head(process.output) = <<"missing", c.spec>>
<1>1. c.spec \in Specs /\ c.command \in {"info", "contents"}
  BY DEF IsHolder, BusyCalls
<1>2. Head(process.output) = Reading!answer(c.command, c.spec)[1]
  BY HolderTakes DEF Expected
<1> QED
  BY <1>1, <1>2, AnswerFacts

\* The end of the answer leaves nothing in the pipe.
LEMMA NothingLeft ==
    ASSUME NEW c, NEW process \in Processes, IsHolder(c, process), process.output # <<>>,
           Tail(Expected(c)) = <<>>
    PROVE  LET later == [process EXCEPT !.output = Tail(@)]
           IN  later \in Processes /\ later.pending = <<>> /\ later.output = <<>>
<1> DEFINE later == [process EXCEPT !.output = Tail(@)]
<1>1. later \in Processes /\ Comes(later.output, later.pending, later.st, <<>>)
  BY HolderTakes
<1> HIDE DEF later
<1>2. later \in Processes /\ later.pending = <<>> /\ later.output = <<>>
  BY <1>1, ComesNothing
<1> QED
  BY <1>2 DEF later

\* objectInfo and readObject.
LEMMA QueryAnswered ==
    ASSUME ReaderInv, NEW r \in Readers,
           Reading!Info(r) \/ Reading!Open(r) \/ Reading!Missing(r)
    PROVE  ReaderInv'
<1> DEFINE k == call[r]
           later == [reader EXCEPT !.output = Tail(@)]
<1>1. k.st = "query" /\ reader.output # <<>>
  BY DEF Reading!Info, Reading!Open, Reading!Missing
<1>2. readMu = r /\ IsHolder(k, reader) /\ reader \in Processes
  BY <1>1, CallerHolds
<1>3. k \in BusyCalls /\ k.of = k.spec /\ k.got = <<>>
  BY <1>1, <1>2 DEF IsHolder
<1>4. k.spec \in Specs /\ k.command \in {"info", "contents"} /\ k.result = "ok"
  BY <1>3 DEF BusyCalls
<1>5. /\ k.spec \in DOMAIN Repository => Head(reader.output) = <<"header", k.spec>>
      /\ k.spec \notin DOMAIN Repository => Head(reader.output) = <<"missing", k.spec>>
  BY <1>1, <1>2, HeaderIsMine
<1>6. Expected(k) = Reading!answer(k.command, k.spec)
  BY <1>1 DEF Expected
<1>7. ASSUME Reading!validHeader(r)
      PROVE  /\ k.spec \in DOMAIN Repository /\ Head(reader.output)[2] = k.spec
  <2>1. Head(reader.output)[1] = "header"
    BY <1>7 DEF Reading!validHeader
  <2>2. <<"missing", k.spec>>[1] # "header"
    OBVIOUS
  <2>3. k.spec \in DOMAIN Repository
    BY <1>5, <2>1, <2>2
  <2> QED
    BY <1>5, <2>3
<1>8. CASE Reading!Info(r)
  <2> DEFINE c == [k EXCEPT !.st = "idle", !.of = Head(reader.output)[2]]
  <2>1. k.command = "info" /\ Reading!validHeader(r)
    BY <1>8 DEF Reading!Info
  <2>2. Tail(Expected(k)) = <<>>
    BY <1>4, <1>6, <1>7, <2>1, AnswerFacts
  <2>3. later \in Processes /\ later.pending = <<>> /\ later.output = <<>>
    BY <1>1, <1>2, <2>2, NothingLeft
  <2>4. IsIdle(c)
    <3>1. c.st = "idle" /\ c.result = "ok" /\ c.of = Head(reader.output)[2] /\ c.spec = k.spec
      BY <1>3, <1>4 DEF BusyCalls
    <3> QED
      BY <1>7, <2>1, <3>1 DEF IsIdle
  <2>5. call' = [call EXCEPT ![r] = c] /\ readMu' = None /\ reader' = later
    BY <1>8 DEF Reading!Info, Reading!taken
  <2> HIDE DEF c, later, k
  <2> QED
    BY <1>2, <2>3, <2>4, <2>5, Released
<1>9. CASE Reading!Missing(r)
  <2> DEFINE c == [k EXCEPT !.st = "idle", !.result = "missing"]
  <2>1. Head(reader.output) = <<"missing", k.spec>>
    BY <1>9 DEF Reading!Missing
  <2>2. <<"missing", k.spec>> # <<"header", k.spec>>
    OBVIOUS
  <2>3. k.spec \notin DOMAIN Repository
    BY <1>5, <2>1, <2>2
  <2>4. Tail(Expected(k)) = <<>>
    BY <1>4, <1>6, <2>3, AnswerFacts
  <2>5. later \in Processes /\ later.pending = <<>> /\ later.output = <<>>
    BY <1>1, <1>2, <2>4, NothingLeft
  <2>6. IsIdle(c)
    <3>1. c.st = "idle" /\ c.result = "missing" /\ c.spec = k.spec
      BY <1>3, <1>4 DEF BusyCalls
    <3> QED
      BY <2>3, <3>1 DEF IsIdle
  <2>7. call' = [call EXCEPT ![r] = c] /\ readMu' = None /\ reader' = later
    BY <1>9 DEF Reading!Missing, Reading!returns, Reading!taken
  <2> HIDE DEF c, later, k
  <2> QED
    BY <1>2, <2>5, <2>6, <2>7, Released
<1>10. CASE Reading!Open(r)
  <2> DEFINE of == Head(reader.output)[2]
             size == Repository[k.spec].size
             c == [k EXCEPT !.st = "leased", !.of = of, !.remaining = Repository[of].size]
  <2>1. k.command = "contents" /\ Reading!validHeader(r)
    BY <1>10 DEF Reading!Open
  <2>2. k.spec \in DOMAIN Repository /\ of = k.spec
    BY <1>7, <2>1
  <2>3. size \in Nat
    BY <2>2, RepositoryAssumption
  <2>4. Tail(Expected(k)) = Lease(k.spec, size)
    BY <1>4, <1>6, <2>1, <2>2, AnswerFacts
  <2>5. /\ c \in BusyCalls /\ c.st = "leased" /\ c.command = "contents" /\ c.of = k.spec
        /\ c.spec = k.spec /\ c.remaining = size /\ c.got = <<>>
    BY <1>3, <1>4, <2>1, <2>2, <2>3 DEF BusyCalls
  <2>6. later \in Processes /\ Comes(later.output, later.pending, later.st, Lease(k.spec, size))
    BY <1>1, <1>2, <2>4, HolderTakes
  <2>7. call' = [call EXCEPT ![r] = c] /\ readMu' = r /\ reader' = later
    BY <1>2, <1>10 DEF Reading!Open, Reading!taken
  <2> HIDE DEF c, later, k, size, of
  <2>8. IsRead(c.got, c.spec, 0) /\ size - size = 0 /\ size \in 0 .. size
    BY <2>3, <2>5 DEF IsRead
  <2>9. size = Repository[c.spec].size
    BY <2>5 DEF size
  <2>10. IsLease(c)
    BY <2>2, <2>3, <2>5, <2>8, <2>9 DEF IsLease
  <2>11. Expected(c) = Lease(k.spec, size)
    BY <2>5 DEF Expected
  <2>12. IsHolder(c, later)
    BY <2>5, <2>6, <2>10, <2>11 DEF IsHolder
  <2> QED
    BY <1>2, <2>6, <2>7, <2>12, Held
<1> QED
  BY <1>8, <1>9, <1>10
\* A request is written: the pipe was empty.
LEMMA QuerySent ==
    ASSUME ReaderInv, NEW r \in Readers, NEW command \in {"info", "contents"},
           NEW spec \in Specs, NEW kind \in Reading!Kinds, Reading!Query(r, command, spec, kind)
    PROVE  ReaderInv'
<1> DEFINE c == Reading!newCall(command, spec, kind)
           answer == Reading!answer(command, spec)
<1>1. reader \in Processes /\ reader.pending = <<>> /\ reader.output = <<>> /\ readMu = None
  BY DEF ReaderInv, Reading!Query
<1>2. reader.st \in {"none", "running", "died", "killed"} /\ reader.pending \in Seq(Tokens)
  BY <1>1 DEF Processes
<1>3. answer \in Seq(Tokens)
  BY AnswerFacts
<1>4. <<>> \o answer = answer
  BY <1>3, ConcatEmptySeq
<1>5. /\ c \in BusyCalls /\ c.st = "query" /\ c.of = c.spec /\ c.got = <<>>
      /\ c.command = command /\ c.spec = spec
  BY DEF Reading!newCall, BusyCalls
<1>6. Expected(c) = answer
  BY <1>5 DEF Expected
<1>7. /\ call' = [call EXCEPT ![r] = c] /\ readMu' = r
      /\ reader' = IF reader.st = "none"
                   THEN [st |-> "running", pending |-> answer, output |-> <<>>]
                   ELSE IF reader.st = "running"
                   THEN [reader EXCEPT !.pending = @ \o answer]
                   ELSE reader
  BY DEF Reading!Query
<1> HIDE DEF c, answer
<1>8. /\ reader' \in Processes /\ reader'.output = <<>>
      /\ reader'.st = "running" => reader'.pending = answer
      /\ reader'.st # "running" => reader'.pending = <<>>
  <2>1. CASE reader.st = "none"
    BY <1>3, <1>7, <2>1 DEF Processes
  <2>2. CASE reader.st = "running"
    <3>1. reader' = [reader EXCEPT !.pending = answer]
      BY <1>1, <1>4, <1>7, <2>2
    <3> QED
      BY <1>1, <1>3, <2>2, <3>1 DEF Processes
  <2>3. CASE reader.st \in {"died", "killed"}
    BY <1>1, <1>7, <2>3
  <2> QED
    BY <1>2, <2>1, <2>2, <2>3
<1>9. Comes(reader'.output, reader'.pending, reader'.st, answer)
  <2>1. CASE reader'.st = "running"
    BY <1>3, <1>8, <2>1, ComesAtFirst
  <2>2. CASE reader'.st # "running"
    BY <1>3, <1>8, <2>2, ComesAtFirst
  <2> QED
    BY <2>1, <2>2
<1>10. IsHolder(c, reader')
  BY <1>5, <1>6, <1>9 DEF IsHolder
<1> QED
  BY <1>1, <1>7, <1>8, <1>10, Held

\* The holder goes on without a token.
LEMMA Unread ==
    ASSUME ReaderInv, NEW r \in Readers,
           Reading!Read(r) \/ Reading!ReadFails(r) \/ Reading!Close(r)
    PROVE  ReaderInv'
<1> DEFINE k == call[r]
<1>1. k.st \in {"leased", "failed", "read"} /\ (Reading!Read(r) => k.st = "leased" /\ k.remaining > 0)
  BY DEF Reading!Read, Reading!ReadFails, Reading!Close
<1>2. readMu = r /\ IsHolder(k, reader) /\ reader \in Processes
  BY <1>1, CallerHolds
<1>3. k \in BusyCalls /\ IsLease(k) /\ Comes(reader.output, reader.pending, reader.st, Expected(k))
  BY <1>1, <1>2 DEF IsHolder
<1>4. PICK st \in {"read", "failed", "close"} :
        /\ call' = [call EXCEPT ![r] = [k EXCEPT !.st = st]]
        /\ readMu' = readMu /\ reader' = reader /\ (st = "read" => Reading!Read(r))
  BY DEF Reading!Read, Reading!ReadFails, Reading!Close
<1> DEFINE c == [k EXCEPT !.st = st]
<1>5. /\ c \in BusyCalls /\ c.st = st /\ c.command = k.command /\ c.of = k.of /\ c.spec = k.spec
      /\ c.remaining = k.remaining /\ c.got = k.got
  BY <1>3 DEF BusyCalls
<1>6. call' = [call EXCEPT ![r] = c]
  BY <1>4
<1> HIDE DEF c, k
<1>7. IsLease(c)
  BY <1>1, <1>3, <1>4, <1>5 DEF IsLease
<1>8. Expected(c) = Expected(k)
  BY <1>1, <1>5 DEF Expected
<1>9. IsHolder(c, reader')
  BY <1>3, <1>4, <1>5, <1>7, <1>8 DEF IsHolder
<1> QED
  BY <1>2, <1>4, <1>6, <1>9, Held

\* One more octet is read in order.
LEMMA ReadNext ==
    ASSUME NEW got \in Seq(Tokens), NEW spec, NEW n, NEW token, IsRead(got, spec, n),
           token = <<"octet", spec, n + 1>>
    PROVE  IsRead(Append(got, token), spec, n + 1)
<1> DEFINE g == Append(got, token)
<1>1. n \in Nat /\ Len(got) = n /\ \A i \in 1 .. n : got[i] = <<"octet", spec, i>>
  BY DEF IsRead
<1>2. Len(g) = n + 1 /\ g[n + 1] = token /\ \A i \in 1 .. n : g[i] = got[i]
  BY <1>1
<1> HIDE DEF g
<1>3. ASSUME NEW i \in 1 .. n + 1 PROVE g[i] = <<"octet", spec, i>>
  <2>1. CASE i \in 1 .. n
    BY <1>1, <1>2, <2>1
  <2>2. CASE i = n + 1
    BY <1>2, <2>2
  <2> QED
    BY <1>1, <2>1, <2>2
<1>4. IsRead(g, spec, n + 1)
  BY <1>1, <1>2, <1>3 DEF IsRead
<1> QED
  BY <1>4 DEF g

\* An octet is read, or drained by Close.
LEMMA OctetTaken ==
    ASSUME ReaderInv, NEW r \in Readers, Reading!ReadDone(r) \/ Reading!CloseDrains(r)
    PROVE  ReaderInv'
<1> DEFINE k == call[r]
           later == [reader EXCEPT !.output = Tail(@)]
           size == Repository[k.spec].size
           token == Head(reader.output)
<1>1. /\ k.st \in {"read", "close"} /\ reader.output # <<>>
      /\ Reading!ReadDone(r) => k.st = "read"
      /\ Reading!CloseDrains(r) => k.st = "close" /\ k.remaining > 0
  BY DEF Reading!ReadDone, Reading!CloseDrains
<1>2. readMu = r /\ IsHolder(k, reader) /\ reader \in Processes
  BY <1>1, CallerHolds
<1>3. k \in BusyCalls /\ IsLease(k)
  BY <1>1, <1>2 DEF IsHolder
<1>4. /\ k.spec \in Specs /\ k.spec \in DOMAIN Repository /\ k.remaining \in 0 .. size
      /\ k.remaining > 0 /\ size \in Nat /\ k.got \in Seq(Tokens)
      /\ k.command = "contents" /\ k.of = k.spec
  BY <1>1, <1>3, RepositoryAssumption DEF IsLease, BusyCalls
<1>5. Expected(k) = Lease(k.spec, k.remaining)
  BY <1>1 DEF Expected
<1>6. /\ Lease(k.spec, k.remaining)[1] = <<"octet", k.spec, size - k.remaining + 1>>
      /\ Tail(Lease(k.spec, k.remaining)) = Lease(k.spec, k.remaining - 1)
  BY <1>4, LeaseFacts
<1>7. /\ later \in Processes /\ token = <<"octet", k.spec, size - k.remaining + 1>>
      /\ Comes(later.output, later.pending, later.st, Lease(k.spec, k.remaining - 1))
  BY <1>1, <1>2, <1>5, <1>6, HolderTakes
<1>8. k.remaining - 1 \in Nat /\ k.remaining - 1 \in 0 .. size
      /\ size - (k.remaining - 1) = (size - k.remaining) + 1
  BY <1>4
<1>9. token \in Tokens
  <2> DEFINE m == size - k.remaining + 1
  <2>1. m \in Nat
    BY <1>4
  <2>2. token = <<"octet", k.spec, m>>
    BY <1>7
  <2> HIDE DEF m, token, k
  <2> QED
    BY <1>4, <2>1, <2>2 DEF Tokens
<1>10. CASE Reading!CloseDrains(r)
  <2> DEFINE c == [k EXCEPT !.remaining = @ - 1]
  <2>1. /\ c \in BusyCalls /\ c.st = "close" /\ c.command = "contents" /\ c.of = k.spec
        /\ c.spec = k.spec /\ c.remaining = k.remaining - 1
    BY <1>1, <1>3, <1>4, <1>8, <1>10 DEF BusyCalls
  <2>2. call' = [call EXCEPT ![r] = c] /\ readMu' = r /\ reader' = later
    BY <1>2, <1>10 DEF Reading!CloseDrains, Reading!taken
  <2>3. size = Repository[c.spec].size
    BY <2>1
  <2> HIDE DEF c, k, later, size
  <2>4. IsLease(c)
    BY <1>4, <1>8, <2>1, <2>3 DEF IsLease
  <2>5. Expected(c) = Lease(k.spec, k.remaining - 1)
    BY <2>1 DEF Expected
  <2>6. IsHolder(c, later)
    BY <1>7, <2>1, <2>4, <2>5 DEF IsHolder
  <2> QED
    BY <1>2, <1>7, <2>2, <2>6, Held
<1>11. CASE Reading!ReadDone(r)
  <2>1. PICK st \in {"failed", "leased"} :
          /\ call' = [call EXCEPT ![r] = [k EXCEPT !.st = st, !.got = Append(@, token),
                                                   !.remaining = @ - 1]]
          /\ readMu' = r /\ reader' = later
    BY <1>2, <1>11 DEF Reading!ReadDone, Reading!taken
  <2> DEFINE c == [k EXCEPT !.st = st, !.got = Append(@, token), !.remaining = @ - 1]
  <2>2. Append(k.got, token) \in Seq(Tokens)
    BY <1>4, <1>9
  <2>3. /\ c \in BusyCalls /\ c.st = st /\ c.command = "contents" /\ c.of = k.spec
        /\ c.spec = k.spec /\ c.remaining = k.remaining - 1 /\ c.got = Append(k.got, token)
    BY <1>3, <1>4, <1>8, <2>2 DEF BusyCalls
  <2>4. size = Repository[c.spec].size
    BY <2>3
  <2>5. call' = [call EXCEPT ![r] = c]
    BY <2>1
  <2>6. IsRead(k.got, k.spec, size - k.remaining)
    BY <1>1, <1>3, <1>11 DEF IsLease
  <2> HIDE DEF c, k, later, size, token
  <2>7. IsRead(Append(k.got, token), k.spec, (size - k.remaining) + 1)
    BY <1>4, <1>7, <2>6, ReadNext
  <2>8. IsLease(c)
    BY <1>4, <1>8, <2>3, <2>4, <2>7 DEF IsLease
  <2>9. Expected(c) = Lease(k.spec, k.remaining - 1)
    BY <2>3 DEF Expected
  <2>10. IsHolder(c, later)
    BY <1>7, <2>3, <2>8, <2>9 DEF IsHolder
  <2> QED
    BY <1>2, <1>7, <2>1, <2>5, <2>10, Held
<1> QED
  BY <1>10, <1>11

\* Close takes the newline and leaves an empty pipe.
LEMMA Closed ==
    ASSUME ReaderInv, NEW r \in Readers, Reading!CloseDone(r)
    PROVE  ReaderInv'
<1> DEFINE k == call[r]
           later == [reader EXCEPT !.output = Tail(@)]
           c == [k EXCEPT !.st = "idle", !.result = "ok"]
<1>1. k.st = "close" /\ k.remaining = 0 /\ reader.output # <<>>
  BY DEF Reading!CloseDone
<1>2. readMu = r /\ IsHolder(k, reader) /\ reader \in Processes
  BY <1>1, CallerHolds
<1>3. k \in BusyCalls /\ IsLease(k)
  BY <1>1, <1>2 DEF IsHolder
<1>4. /\ k.spec \in Specs /\ k.spec \in DOMAIN Repository /\ k.of = k.spec
      /\ 0 \in 0 .. Repository[k.spec].size
  BY <1>1, <1>3 DEF IsLease, BusyCalls
<1>5. Expected(k) = Lease(k.spec, 0)
  BY <1>1 DEF Expected
<1>6. Tail(Expected(k)) = <<>>
  BY <1>4, <1>5, LeaseFacts
<1>7. later \in Processes /\ later.pending = <<>> /\ later.output = <<>>
  BY <1>1, <1>2, <1>6, NothingLeft
<1>8. IsIdle(c)
  BY <1>3, <1>4 DEF IsIdle, BusyCalls
<1>9. call' = [call EXCEPT ![r] = c] /\ readMu' = None /\ reader' = later
  BY DEF Reading!CloseDone, Reading!returns, Reading!taken
<1> HIDE DEF k, later, c
<1> QED
  BY <1>2, <1>7, <1>8, <1>9, Released

\* The child writes, dies or is killed, or is closed while nobody reads.
LEMMA ChildSteps ==
    ASSUME ReaderInv,
           \/ Reading!ChildWrites \/ Reading!ChildDies \/ Reading!Watchdog \/ Reading!CloseReader
    PROVE  ReaderInv'
<1>1. reader \in Processes
  BY DEF ReaderInv
<1>2. reader.output \in Seq(Tokens) /\ reader.pending \in Seq(Tokens)
  BY <1>1 DEF Processes
<1>3. CASE Reading!CloseReader
  <2>1. UNCHANGED <<readMu, call>> /\ readMu = None /\ reader' = Reading!noReader
    BY <1>3 DEF Reading!CloseReader
  <2> QED
    BY <2>1, NoReader DEF ReaderInv
<1>4. CASE Reading!ChildDies \/ Reading!Watchdog
  <2>1. PICK st \in {"died", "killed"} :
          UNCHANGED <<readMu, call>> /\ reader' = [reader EXCEPT !.st = st, !.pending = <<>>]
    BY <1>4 DEF Reading!ChildDies, Reading!Watchdog
  <2>2. /\ reader' \in Processes /\ reader'.st = st /\ reader'.st # "running"
        /\ reader'.pending = <<>> /\ reader'.output = reader.output
    <3> DEFINE states == {"none", "running", "died", "killed"}
    <3>1. <<>> \in Seq(Tokens) /\ st \in states /\ st # "running"
      BY EmptySeq
    <3>2. /\ reader = [st |-> reader.st, pending |-> reader.pending, output |-> reader.output]
      BY <1>1 DEF Processes
    <3> HIDE DEF states
    <3>3. reader' = [st |-> st, pending |-> <<>>, output |-> reader.output]
      BY <2>1, <3>2
    <3>4. reader' \in [st : states, pending : Seq(Tokens), output : Seq(Tokens)]
      BY <1>2, <3>1, <3>3
    <3> QED
      BY <3>1, <3>3, <3>4 DEF Processes, states
  <2>3. ASSUME readMu # None PROVE IsHolder(call[readMu], reader')
    <3> DEFINE k == call[readMu]
    <3>1. IsHolder(k, reader) /\ Comes(reader.output, reader.pending, reader.st, Expected(k))
      BY <2>3 DEF ReaderInv, IsHolder
    <3>2. Expected(k) \in Seq(Tokens)
      BY <3>1, ExpectedType
    <3> HIDE DEF k
    <3>3. Comes(reader'.output, reader'.pending, reader'.st, Expected(k))
      BY <2>2, <3>1, <3>2, ComesKilled
    <3>4. IsHolder(k, reader')
      BY <3>1, <3>3, HolderKept
    <3> QED
      BY <3>4 DEF k
  <2> QED
    BY <2>1, <2>2, <2>3 DEF ReaderInv
<1>5. CASE Reading!ChildWrites
  <2>1. /\ UNCHANGED <<readMu, call>> /\ reader.st = "running" /\ reader.pending # <<>>
        /\ reader' = [reader EXCEPT !.output = Append(@, Head(reader.pending)),
                                    !.pending = Tail(@)]
    BY <1>5 DEF Reading!ChildWrites
  <2>2. Append(reader.output, Head(reader.pending)) \in Seq(Tokens) /\ Tail(reader.pending) \in Seq(Tokens)
    BY <1>2, <2>1
  <2>3. /\ reader' \in Processes /\ reader'.st = "running"
        /\ reader'.pending = Tail(reader.pending)
        /\ reader'.output = Append(reader.output, Head(reader.pending))
    BY <1>1, <2>1, <2>2 DEF Processes
  <2>4. readMu # None
    BY <2>1 DEF ReaderInv
  <2> DEFINE k == call[readMu]
  <2>5. IsHolder(k, reader) /\ Comes(reader.output, reader.pending, reader.st, Expected(k))
    BY <2>4 DEF ReaderInv, IsHolder
  <2>6. Expected(k) \in Seq(Tokens)
    BY <2>5, ExpectedType
  <2> HIDE DEF k
  <2>7. Comes(reader'.output, reader'.pending, reader'.st, Expected(k))
    BY <2>1, <2>3, <2>5, <2>6, ComesWritten
  <2>8. IsHolder(k, reader')
    BY <2>5, <2>7, HolderKept
  <2> QED
    BY <2>1, <2>3, <2>4, <2>8 DEF ReaderInv, k
<1> QED
  BY <1>3, <1>4, <1>5

\* The reader's invariant holds.
LEMMA ReaderAlways == Reading!Spec => []ReaderInv
<1>1. Reading!Init => ReaderInv
  <2> SUFFICES ASSUME Reading!Init PROVE ReaderInv
    OBVIOUS
  <2>1. /\ readMu = None /\ reader = Reading!noReader
        /\ call = [r \in Readers |-> [st |-> "idle", result |-> "failed"]]
    BY DEF Reading!Init
  <2>2. \A r \in Readers : IsIdle(call[r])
    BY <2>1 DEF IsIdle
  <2> QED
    BY <2>1, <2>2, NoReader DEF ReaderInv
<1>2. ReaderInv /\ [Reading!Next]_Reading!vars => ReaderInv'
  <2> SUFFICES ASSUME ReaderInv, [Reading!Next]_Reading!vars PROVE ReaderInv'
    OBVIOUS
  <2>1. CASE UNCHANGED Reading!vars
    BY <2>1 DEF Reading!vars, ReaderInv
  <2>2. CASE \/ Reading!ChildWrites \/ Reading!ChildDies \/ Reading!Watchdog \/ Reading!CloseReader
    BY <2>2, ChildSteps
  <2>3. ASSUME NEW r \in Readers, NEW command \in {"info", "contents"}, NEW spec \in Specs,
               NEW kind \in Reading!Kinds, Reading!Query(r, command, spec, kind)
        PROVE  ReaderInv'
    BY <2>3, QuerySent
  <2>4. ASSUME NEW r \in Readers, Reading!Read(r) \/ Reading!Close(r) PROVE ReaderInv'
    BY <2>4, Unread
  <2>5. ASSUME NEW r \in Readers, Reading!Operation(r) PROVE ReaderInv'
    <3>1. CASE Reading!QueryFails(r) \/ Reading!CloseFails(r)
      <4>1. call[r].st # "idle" /\ Reading!aborts(r)
        BY <3>1 DEF Reading!QueryFails, Reading!CloseFails
      <4> QED
        BY <4>1, Aborted
    <3>2. CASE Reading!Info(r) \/ Reading!Open(r) \/ Reading!Missing(r)
      BY <3>2, QueryAnswered
    <3>3. CASE Reading!ReadDone(r) \/ Reading!CloseDrains(r)
      BY <3>3, OctetTaken
    <3>4. CASE Reading!ReadFails(r)
      BY <3>4, Unread
    <3>5. CASE Reading!CloseDone(r)
      BY <3>5, Closed
    <3> QED
      BY <2>5, <3>1, <3>2, <3>3, <3>4, <3>5 DEF Reading!Operation
  <2> QED
    BY <2>1, <2>2, <2>3, <2>4, <2>5 DEF Reading!Next
<1> QED
  BY <1>1, <1>2, PTL DEF Reading!Spec

\* What was read and the rest are the whole.
LEMMA ReadWhole ==
    ASSUME NEW spec \in Specs, NEW got \in Seq(Tokens), NEW n, IsRead(got, spec, n),
           spec \in DOMAIN Repository, n \in 0 .. Repository[spec].size
    PROVE  got \o SubSeq(Reading!contents(spec), Len(got) + 1, Repository[spec].size)
             = Reading!contents(spec)
<1> DEFINE size == Repository[spec].size
           whole == Reading!contents(spec)
           rest == SubSeq(whole, n + 1, size)
           both == got \o rest
<1>1. size \in Nat /\ n \in Nat /\ Len(got) = n /\ \A i \in 1 .. n : got[i] = <<"octet", spec, i>>
  BY RepositoryAssumption DEF IsRead
<1>2. whole = [i \in 1 .. size |-> <<"octet", spec, i>>]
  BY DEF Reading!contents
<1>3. \A i \in 1 .. size : <<"octet", spec, i>> \in Tokens
  BY <1>1 DEF Tokens
<1>4. whole \in [1 .. size -> Tokens]
  BY <1>2, <1>3
<1> HIDE DEF size, whole
<1>5. whole \in Seq(Tokens) /\ Len(whole) = size
  BY <1>1, <1>4
<1>6. n + 1 \in Int /\ size \in Int /\ \A i \in n + 1 .. size : whole[i] \in Tokens
  BY <1>1, <1>4
<1>7. /\ rest \in Seq(Tokens) /\ Len(rest) = IF n + 1 <= size THEN size - (n + 1) + 1 ELSE 0
      /\ \A i \in 1 .. size - (n + 1) + 1 : rest[i] = whole[(n + 1) + i - 1]
  BY <1>6, SubSeqProperties
<1> HIDE DEF rest
<1>8. Len(rest) = size - n /\ n <= size
  BY <1>1, <1>7 DEF size
<1>9. /\ both \in Seq(Tokens) /\ Len(both) = Len(got) + Len(rest)
      /\ \A i \in 1 .. Len(got) + Len(rest) :
            both[i] = IF i <= Len(got) THEN got[i] ELSE rest[i - Len(got)]
  BY <1>7, ConcatProperties
<1> HIDE DEF both
<1>10. n + (size - n) = size
  BY <1>1
<1>11. Len(both) = size /\ \A i \in 1 .. size : both[i] = IF i <= n THEN got[i] ELSE rest[i - n]
  BY <1>1, <1>8, <1>9, <1>10
<1>12. ASSUME NEW i \in 1 .. size PROVE both[i] = whole[i]
  <2>1. CASE i <= n
    <3>1. i \in 1 .. n
      BY <1>1, <2>1
    <3>2. both[i] = got[i] /\ got[i] = <<"octet", spec, i>>
      BY <1>1, <1>11, <2>1, <3>1
    <3> QED
      BY <1>2, <3>2
  <2>2. CASE ~(i <= n)
    <3>1. i - n \in 1 .. size - (n + 1) + 1 /\ (n + 1) + (i - n) - 1 = i
      BY <1>1, <1>8, <2>2
    <3>2. rest[i - n] = whole[(n + 1) + (i - n) - 1]
      BY <1>7, <3>1
    <3> QED
      BY <1>11, <2>2, <3>1, <3>2
  <2> QED
    BY <2>1, <2>2
<1>13. both = whole
  BY <1>5, <1>9, <1>11, <1>12, SeqEqual
<1> QED
  BY <1>1, <1>13 DEF both, rest, whole, size

\* Whatever is read, drained, refused or cut short, every session gets the
\* answer to its own request (readObject, blobReader).
THEOREM AnswersHold == Reading!Spec => []AnswersAreMine
<1>1. ReaderInv => AnswersAreMine
  <2> SUFFICES ASSUME ReaderInv PROVE Reading!AnswersAreMine
    BY DEF AnswersAreMine
  <2>1. ASSUME NEW r \in Readers, call[r].st \in {"leased", "read"}
        PROVE  /\ call[r].of = call[r].spec
               /\ call[r].got \o SubSeq(Reading!contents(call[r].spec), Len(call[r].got) + 1,
                                        Len(call[r].got) + call[r].remaining)
                    = Reading!contents(call[r].spec)
    <3> DEFINE k == call[r]
               size == Repository[k.spec].size
    <3>1. k \in BusyCalls /\ IsLease(k)
      BY <2>1, CallerHolds DEF IsHolder
    <3>2. /\ k.spec \in Specs /\ k.got \in Seq(Tokens) /\ k.of = k.spec
          /\ k.spec \in DOMAIN Repository /\ k.remaining \in 0 .. size
          /\ IsRead(k.got, k.spec, size - k.remaining)
      BY <2>1, <3>1 DEF BusyCalls, IsLease
    <3>3. size \in Nat
      BY <3>2, RepositoryAssumption
    <3>4. size - k.remaining \in 0 .. size /\ Len(k.got) = size - k.remaining
      BY <3>2, <3>3 DEF IsRead
    <3>5. Len(k.got) + k.remaining = size
      BY <3>2, <3>3, <3>4
    <3>6. k.got \o SubSeq(Reading!contents(k.spec), Len(k.got) + 1, size)
            = Reading!contents(k.spec)
      BY <3>2, <3>4, ReadWhole
    <3> QED
      BY <3>2, <3>5, <3>6, Zenon
  <2>2. ASSUME NEW r \in Readers, call[r].st = "idle"
        PROVE  IsIdle(call[r])
    <3>1. CASE readMu = r
      <4>1. r # None
        BY ReadersAssumption
      <4>2. call[r] \in BusyCalls
        BY <3>1, <4>1 DEF ReaderInv, IsHolder
      <4> QED
        BY <2>2, <4>2 DEF BusyCalls
    <3>2. CASE readMu # r
      BY <3>2 DEF ReaderInv
    <3> QED
      BY <3>1, <3>2
  <2>3. readMu = None => reader.pending = <<>> /\ reader.output = <<>>
    BY DEF ReaderInv
  <2>4. ASSUME NEW r \in Readers
        PROVE  /\ (call[r].st = "idle" /\ call[r].result = "ok") => call[r].of = call[r].spec
               /\ (call[r].st = "idle" /\ call[r].result = "missing") =>
                     call[r].spec \notin DOMAIN Repository
    BY <2>2 DEF IsIdle
  <2> QED
    BY <2>1, <2>3, <2>4, Zenon DEF Reading!AnswersAreMine
<1> QED
  BY ReaderAlways, <1>1, PTL

-----------------------------------------------------------------------------
(* The directory cache. *)

\* No key stands in the list twice.
NoDuplicates(s) == \A i, j \in 1 .. Len(s) : s[i] = s[j] => i = j

\* Where e is in s, or behind its end.
IsPlace(p, s, e) ==
    /\ p \in 1 .. Len(s) + 1
    /\ p <= Len(s) => s[p] = e
    /\ p = Len(s) + 1 => \A i \in 1 .. Len(s) : s[i] # e

\* f is s with e moved to its front from place p.
IsMoved(f, s, e, p) ==
    /\ Len(f) = (IF p <= Len(s) THEN Len(s) ELSE Len(s) + 1)
    /\ \A i \in 1 .. Len(f) : f[i] = IF i = 1 THEN e ELSE IF i <= p THEN s[i - 1] ELSE s[i]

\* MoveToFront and PushFront.
LEMMA FrontFacts ==
    ASSUME NEW K, NEW s \in Seq(K), NoDuplicates(s), NEW e \in K
    PROVE  /\ Caching!front(s, e) \in Seq(K)
           /\ \E p : IsPlace(p, s, e)
           /\ \A p : IsPlace(p, s, e) => IsMoved(Caching!front(s, e), s, e, p)
<1> DEFINE n == Len(s)
           places == {i \in 1 .. Len(s) : s[i] = e}
           x == Caching!Min(places)
           f == Caching!front(s, e)
<1>1. n \in Nat /\ DOMAIN s = 1 .. n /\ \A i \in 1 .. n : s[i] \in K
  OBVIOUS
<1>0. f = <<e>> \o Caching!RemoveFirst(s, e)
  BY DEF Caching!front
<1>2. <<e>> \in Seq(K) /\ Len(<<e>>) = 1 /\ <<e>>[1] = e
  OBVIOUS
<1>3. CASE places = {}
  <2>1. f = <<e>> \o s
    <3>1. Caching!RemoveFirst(s, e) = s
      BY <1>3 DEF Caching!RemoveFirst
    <3> HIDE DEF f
    <3> QED
      BY <1>0, <3>1, Zenon
  <2>2. f \in Seq(K) /\ Len(f) = n + 1 /\ \A i \in 1 .. n + 1 : f[i] = IF i <= 1 THEN <<e>>[i] ELSE s[i - 1]
    BY <1>1, <1>2, <2>1, ConcatProperties
  <2> HIDE DEF f
  <2>3. \A i \in 1 .. n : s[i] # e
    BY <1>1, <1>3
  <2> HIDE DEF places
  <2>4. IsPlace(n + 1, s, e)
    BY <1>1, <2>3 DEF IsPlace
  <2>5. ASSUME NEW p, IsPlace(p, s, e) PROVE IsMoved(f, s, e, p)
    <3>1. p = n + 1
      BY <1>1, <2>3, <2>5 DEF IsPlace
    <3>2. ~(p <= n)
      BY <1>1, <3>1
    <3>3. \A i \in 1 .. n + 1 : f[i] = IF i = 1 THEN e ELSE IF i <= n + 1 THEN s[i - 1] ELSE s[i]
      BY <1>1, <1>2, <2>2
    <3> HIDE DEF n
    <3> QED
      BY <2>2, <3>1, <3>2, <3>3 DEF IsMoved, n
  <2> QED
    BY <2>2, <2>4, <2>5 DEF f
<1>4. CASE places # {}
  <2>1. x \in 1 .. n /\ s[x] = e
    <3>1. places \in SUBSET Nat
      BY <1>1
    <3>2. x \in places
      <4> HIDE DEF places
      <4> QED
        BY <1>4, <3>1, LeastNumber DEF Caching!Min
    <3> QED
      BY <3>2
  <2>2. f = <<e>> \o Caching!RemoveAt(s, x)
    <3>1. Caching!RemoveFirst(s, e) = Caching!RemoveAt(s, x)
      BY <1>4 DEF Caching!RemoveFirst, Caching!SelectInSeq
    <3> HIDE DEF f, x
    <3> QED
      BY <1>0, <3>1, Zenon
  <2> HIDE DEF x, f, places
  <2> DEFINE a == SubSeq(s, 1, x - 1)
             b == SubSeq(s, x + 1, n)
             r == a \o b
  <2>3. a \in Seq(K) /\ Len(a) = x - 1 /\ \A i \in 1 .. x - 1 : a[i] = s[i]
    BY <1>1, <2>1
  <2>4. b \in Seq(K) /\ Len(b) = n - x /\ \A i \in 1 .. n - x : b[i] = s[x + i]
    <3>1. x + 1 \in 1 .. n + 1 /\ \A i \in x + 1 .. n : i \in 1 .. n
      BY <1>1, <2>1
    <3>2. /\ b \in Seq(K) /\ Len(b) = (IF x + 1 <= n THEN n - (x + 1) + 1 ELSE 0)
          /\ \A i \in 1 .. n - (x + 1) + 1 : b[i] = s[(x + 1) + i - 1]
      BY <1>1, <3>1, SubSeqProperties
    <3> HIDE DEF b, n
    <3>3. n - (x + 1) + 1 = n - x /\ (x + 1 > n => n - x = 0)
      BY <1>1, <2>1
    <3>4. Len(b) = n - x
      BY <1>1, <2>1, <3>2, <3>3
    <3>5. ASSUME NEW i \in 1 .. n - x PROVE b[i] = s[x + i]
      <4>1. i \in 1 .. n - (x + 1) + 1 /\ (x + 1) + i - 1 = x + i
        BY <1>1, <2>1
      <4> QED
        BY <3>2, <4>1
    <3> QED
      BY <3>2, <3>4, <3>5
  <2> HIDE DEF a, b, n
  <2>5. r \in Seq(K) /\ Len(r) = Len(a) + Len(b)
        /\ \A i \in 1 .. Len(a) + Len(b) : r[i] = IF i <= Len(a) THEN a[i] ELSE b[i - Len(a)]
    BY <2>3, <2>4, ConcatProperties
  <2>6. Len(r) = n - 1
    BY <1>1, <2>1, <2>3, <2>4, <2>5
  <2>7. ASSUME NEW i \in 1 .. n - 1 PROVE r[i] = IF i < x THEN s[i] ELSE s[i + 1]
    <3>0. i \in 1 .. Len(a) + Len(b)
      BY <1>1, <2>1, <2>3, <2>4
    <3>1. CASE i < x
      <4>1. i <= Len(a) /\ i \in 1 .. x - 1
        BY <1>1, <2>1, <2>3, <3>1
      <4> QED
        BY <2>3, <2>5, <3>0, <3>1, <4>1
    <3>2. CASE ~(i < x)
      <4>1. ~(i <= Len(a)) /\ i - Len(a) \in 1 .. n - x /\ x + (i - Len(a)) = i + 1
        BY <1>1, <2>1, <2>3, <3>2
      <4> QED
        BY <2>4, <2>5, <3>0, <3>2, <4>1
    <3> QED
      BY <3>1, <3>2
  <2>8. f = <<e>> \o r
    BY <2>2 DEF Caching!RemoveAt, a, b, n
  <2> HIDE DEF r
  <2>9. /\ f \in Seq(K) /\ Len(f) = n
        /\ \A i \in 1 .. n : f[i] = IF i <= 1 THEN <<e>>[i] ELSE r[i - 1]
    <3>1. /\ f \in Seq(K) /\ Len(f) = 1 + Len(r)
          /\ \A i \in 1 .. 1 + Len(r) : f[i] = IF i <= 1 THEN <<e>>[i] ELSE r[i - 1]
      BY <1>2, <2>5, <2>8, ConcatProperties
    <3>2. 1 + Len(r) = n
      BY <1>1, <2>6
    <3> QED
      BY <3>1, <3>2
  <2>10. IsPlace(x, s, e)
    <3>1. x # n + 1 /\ x \in 1 .. n + 1
      BY <1>1, <2>1
    <3> QED
      BY <2>1, <3>1 DEF IsPlace, n
  <2>11. ASSUME NEW p, IsPlace(p, s, e) PROVE IsMoved(f, s, e, p)
    <3>1. p \in 1 .. n
      <4>1. p \in 1 .. n + 1 /\ p # n + 1
        BY <2>1, <2>11 DEF IsPlace, n
      <4> QED
        BY <1>1, <4>1
    <3>2. s[p] = e
      BY <1>1, <2>11, <3>1 DEF IsPlace, n
    <3>3. p = x
      BY <2>1, <3>1, <3>2 DEF NoDuplicates, n
    <3>4. ASSUME NEW i \in 1 .. n
          PROVE  f[i] = IF i = 1 THEN e ELSE IF i <= x THEN s[i - 1] ELSE s[i]
      <4>1. CASE i = 1
        BY <1>2, <2>9, <4>1
      <4>2. CASE i # 1
        <5>1. i - 1 \in 1 .. n - 1 /\ ~(i <= 1) /\ (i - 1 < x <=> i <= x) /\ (i - 1) + 1 = i
          BY <1>1, <2>1, <4>2
        <5>2. f[i] = r[i - 1]
          BY <2>9, <5>1
        <5>3. r[i - 1] = IF i - 1 < x THEN s[i - 1] ELSE s[(i - 1) + 1]
          BY <2>7, <5>1
        <5> QED
          BY <4>2, <5>1, <5>2, <5>3
      <4> QED
        BY <4>1, <4>2
    <3>5. p <= n
      BY <1>1, <3>1
    <3> QED
      BY <2>9, <3>3, <3>4, <3>5 DEF IsMoved, n
  <2> QED
    BY <2>9, <2>10, <2>11 DEF f
<1> QED
  BY <1>3, <1>4

\* The first Capacity elements, as far as there are so many.
newest(s) == SubSeq(s, 1, IF Len(s) > Capacity THEN Capacity ELSE Len(s))

\* How many those are.
kept(s) == IF Len(s) > Capacity THEN Capacity ELSE Len(s)

\* The newest are the list up to there.
LEMMA NewestFacts ==
    ASSUME NEW K, NEW s \in Seq(K)
    PROVE  /\ newest(s) \in Seq(K) /\ Len(newest(s)) = kept(s) /\ kept(s) \in 0 .. Len(s)
           /\ \A i \in 1 .. kept(s) : newest(s)[i] = s[i]
           /\ kept(s) <= Capacity
<1>1. kept(s) \in 0 .. Len(s) /\ kept(s) <= Capacity /\ newest(s) = SubSeq(s, 1, kept(s))
  BY CapacityAssumption DEF kept, newest
<1> QED
  BY <1>1, PrefixFacts

\* What is not in the cache does not matter to what will be: moving a key to the
\* front of the newest keys, and of all of them, keeps the same.
LEMMA NewestMoved ==
    ASSUME NEW K, NEW s \in Seq(K), NoDuplicates(s), NEW e \in K
    PROVE  newest(Caching!front(newest(s), e)) = newest(Caching!front(s, e))
<1> DEFINE n == Len(s)
           t == newest(s)
           m == kept(s)
           f == Caching!front(s, e)
           g == Caching!front(t, e)
<1>1. n \in Nat /\ Capacity \in Nat
  BY CapacityAssumption
<1>2. /\ t \in Seq(K) /\ Len(t) = m /\ m \in 0 .. n /\ m <= Capacity
      /\ \A i \in 1 .. m : t[i] = s[i]
  BY NewestFacts
<1>3. m = IF n > Capacity THEN Capacity ELSE n
  BY DEF kept
<1> HIDE DEF t, m
<1>4. NoDuplicates(t)
  <2>1. \A i \in 1 .. m : i \in 1 .. n
    BY <1>1, <1>2
  <2> QED
    BY <1>2, <2>1 DEF NoDuplicates
<1>5. f \in Seq(K) /\ g \in Seq(K)
  BY <1>2, <1>4, FrontFacts
<1>6. PICK p : IsPlace(p, s, e)
  BY FrontFacts
<1>7. IsMoved(f, s, e, p)
  BY <1>6, FrontFacts
<1> DEFINE q == IF p <= m THEN p ELSE m + 1
<1>8. p \in 1 .. n + 1 /\ (p <= n => s[p] = e) /\ (p = n + 1 => \A i \in 1 .. n : s[i] # e)
  BY <1>6 DEF IsPlace
<1>9. IsPlace(q, t, e)
  <2>1. CASE p <= m
    <3>1. q = p /\ p \in 1 .. m /\ p <= n /\ p # m + 1 /\ p \in 1 .. m + 1
      BY <1>1, <1>2, <1>8, <2>1
    <3> QED
      BY <1>2, <1>8, <3>1 DEF IsPlace
  <2>2. CASE ~(p <= m)
    <3>1. q = m + 1 /\ m + 1 \in 1 .. m + 1 /\ ~(m + 1 <= m)
      BY <1>1, <1>2, <2>2
    <3>2. ASSUME NEW i \in 1 .. m PROVE t[i] # e
      <4>1. i \in 1 .. n /\ i # p
        BY <1>1, <1>2, <1>8, <2>2
      <4>2. CASE p = n + 1
        BY <1>2, <1>8, <4>1, <4>2
      <4>3. CASE p # n + 1
        <5>1. p \in 1 .. n /\ p <= n
          BY <1>1, <1>8, <4>3
        <5> QED
          BY <1>2, <1>8, <4>1, <5>1 DEF NoDuplicates
      <4> QED
        BY <4>2, <4>3
    <3> QED
      BY <1>2, <3>1, <3>2 DEF IsPlace
  <2> QED
    BY <2>1, <2>2
<1>10. IsMoved(g, t, e, q)
  BY <1>2, <1>4, <1>9, FrontFacts
<1> HIDE DEF f, g, n
<1>11. /\ Len(f) = (IF p <= n THEN n ELSE n + 1)
       /\ \A i \in 1 .. Len(f) : f[i] = IF i = 1 THEN e ELSE IF i <= p THEN s[i - 1] ELSE s[i]
  BY <1>7 DEF IsMoved, n
<1>12. /\ Len(g) = (IF q <= m THEN m ELSE m + 1)
       /\ \A i \in 1 .. Len(g) : g[i] = IF i = 1 THEN e ELSE IF i <= q THEN t[i - 1] ELSE t[i]
  BY <1>2, <1>10 DEF IsMoved
<1>13. kept(g) = kept(f)
  <2>1. CASE p <= m
    BY <1>1, <1>2, <1>3, <1>8, <1>11, <1>12, <2>1 DEF kept
  <2>2. CASE ~(p <= m)
    BY <1>1, <1>2, <1>3, <1>8, <1>11, <1>12, <2>2 DEF kept
  <2> QED
    BY <2>1, <2>2
<1>14. /\ newest(f) \in Seq(K) /\ Len(newest(f)) = kept(f) /\ kept(f) \in 0 .. Len(f)
       /\ newest(g) \in Seq(K) /\ Len(newest(g)) = kept(g) /\ kept(g) \in 0 .. Len(g)
       /\ \A i \in 1 .. kept(f) : newest(f)[i] = f[i]
       /\ \A i \in 1 .. kept(g) : newest(g)[i] = g[i]
       /\ kept(f) <= Capacity
  BY <1>5, NewestFacts
<1>15. ASSUME NEW i \in 1 .. kept(f) PROVE f[i] = g[i]
  <2>0. Len(f) \in Nat /\ Len(g) \in Nat /\ i \in Nat /\ i >= 1 /\ i <= Len(f) /\ i <= Len(g) /\ i <= Capacity
    BY <1>1, <1>5, <1>13, <1>14
  <2>1. i \in 1 .. Len(f) /\ i \in 1 .. Len(g)
    BY <2>0
  <2>2. CASE i = 1
    BY <1>11, <1>12, <2>1, <2>2
  <2>3. CASE i # 1 /\ i <= q
    <3>1. i <= p /\ i - 1 \in 1 .. m
      BY <1>1, <1>2, <1>8, <2>0, <2>3
    <3> QED
      BY <1>2, <1>11, <1>12, <2>1, <2>3, <3>1
  <2>4. CASE i # 1 /\ ~(i <= q)
    <3>1. ~(i <= p) /\ i \in 1 .. m
      BY <1>1, <1>2, <1>3, <1>8, <1>11, <1>12, <2>0, <2>4
    <3> QED
      BY <1>2, <1>11, <1>12, <2>1, <2>4, <3>1
  <2> QED
    BY <2>2, <2>3, <2>4
<1>16. newest(f) = newest(g)
  BY <1>13, <1>14, <1>15
<1> QED
  BY <1>16 DEF f, g, t

\* Is e in the list?
hasKey(s, e) == \E j \in 1 .. Len(s) : s[j] = e

\* The keys of f are those of s, and perhaps e.
onlyKeys(f, s, e) == \A i \in 1 .. Len(f) : f[i] = e \/ hasKey(s, f[i])

\* A move loses no key.
sameKeys(f, s) == Len(f) = Len(s) /\ \A j \in 1 .. Len(s) : hasKey(f, s[j])

\* The keys of a sequence after a move.
LEMMA FrontKeys ==
    ASSUME NEW K, NEW s \in Seq(K), NoDuplicates(s), NEW e \in K
    PROVE  /\ NoDuplicates(Caching!front(s, e))
           /\ onlyKeys(Caching!front(s, e), s, e)
           /\ hasKey(s, e) => sameKeys(Caching!front(s, e), s)
<1> DEFINE n == Len(s)
           f == Caching!front(s, e)
<1>1. n \in Nat
  OBVIOUS
<1>2. PICK p : IsPlace(p, s, e)
  BY FrontFacts
<1>3. IsMoved(f, s, e, p)
  BY <1>2, FrontFacts
<1>4. p \in 1 .. n + 1 /\ (p <= n => s[p] = e) /\ (p = n + 1 => \A i \in 1 .. n : s[i] # e)
  BY <1>2 DEF IsPlace
<1> HIDE DEF f
<1>5. /\ Len(f) = (IF p <= n THEN n ELSE n + 1)
      /\ \A i \in 1 .. Len(f) : f[i] = IF i = 1 THEN e ELSE IF i <= p THEN s[i - 1] ELSE s[i]
  BY <1>3 DEF IsMoved
<1>6. \A i, j \in 1 .. n : s[i] = s[j] => i = j
  BY DEF NoDuplicates
<1> HIDE DEF n
<1>7. Len(f) \in Nat
  BY <1>1, <1>5
\* Where an element of the result, other than the first, was.
<1> DEFINE from(i) == IF i <= p THEN i - 1 ELSE i
<1>8. ASSUME NEW i \in 1 .. Len(f), i # 1
      PROVE  from(i) \in 1 .. n /\ f[i] = s[from(i)] /\ from(i) # p
  <2>1. from(i) \in 1 .. n /\ from(i) # p
    BY <1>1, <1>4, <1>5, <1>7, <1>8
  <2>2. f[i] = s[from(i)]
    BY <1>5, <1>8
  <2> QED
    BY <2>1, <2>2
<1>9. \A j \in 1 .. n : j # p => s[j] # e
  <2>1. CASE p = n + 1
    BY <1>4, <2>1
  <2>2. CASE p # n + 1
    <3>1. p \in 1 .. n /\ p <= n
      BY <1>1, <1>4, <2>2
    <3> QED
      BY <1>4, <1>6, <3>1
  <2> QED
    BY <2>1, <2>2
<1>10. ASSUME NEW i \in 1 .. Len(f), NEW j \in 1 .. Len(f), f[i] = f[j] PROVE i = j
  <2>1. 1 \in 1 .. Len(f) /\ f[1] = e
    <3>1. 1 \in 1 .. Len(f)
      BY <1>1, <1>4, <1>5
    <3> QED
      BY <1>5, <3>1
  <2>2. CASE i = 1 \/ j = 1
    BY <1>8, <1>9, <1>10, <2>1, <2>2
  <2>3. CASE i # 1 /\ j # 1
    <3>1. from(i) = from(j)
      <4>1. from(i) \in 1 .. n /\ from(j) \in 1 .. n /\ s[from(i)] = s[from(j)]
        BY <1>8, <1>10, <2>3
      <4> HIDE DEF from
      <4> QED
        BY <1>6, <4>1
    <3> QED
      BY <1>1, <1>4, <1>7, <3>1
  <2> QED
    BY <2>2, <2>3
<1>11. \A i \in 1 .. Len(f) : f[i] = e \/ \E j \in 1 .. n : f[i] = s[j]
  <2>1. \A i \in 1 .. Len(f) : i = 1 => f[i] = e
    BY <1>5
  <2> HIDE DEF from
  <2> QED
    BY <1>8, <2>1
<1>12. ASSUME \E j \in 1 .. n : s[j] = e
       PROVE  Len(f) = n /\ \A j \in 1 .. n : \E i \in 1 .. n : f[i] = s[j]
  <2>1. p <= n /\ s[p] = e /\ p \in 1 .. n
    BY <1>1, <1>4, <1>12
  <2>2. Len(f) = n
    BY <1>5, <2>1
  <2>3. ASSUME NEW j \in 1 .. n PROVE \E i \in 1 .. n : f[i] = s[j]
    <3>1. CASE j = p
      <4>1. 1 \in 1 .. n
        BY <1>1, <2>1
      <4>2. f[1] = e
        BY <1>5, <2>2, <4>1
      <4> QED
        BY <2>1, <3>1, <4>1, <4>2
    <3>2. CASE j < p
      <4>1. j + 1 \in 1 .. n /\ j + 1 <= p /\ j + 1 # 1 /\ (j + 1) - 1 = j
        BY <1>1, <2>1, <3>2
      <4>2. f[j + 1] = s[j]
        BY <1>5, <2>2, <4>1
      <4> QED
        BY <4>1, <4>2
    <3>3. CASE j > p
      <4>1. ~(j <= p) /\ j # 1
        BY <1>1, <2>1, <3>3
      <4>2. f[j] = s[j]
        BY <1>5, <2>2, <4>1
      <4> QED
        BY <4>2
    <3> QED
      BY <1>1, <2>1, <3>1, <3>2, <3>3
  <2> QED
    BY <2>2, <2>3
<1>13. NoDuplicates(f)
  BY <1>10 DEF NoDuplicates
<1>14. onlyKeys(f, s, e)
  BY <1>11 DEF onlyKeys, hasKey, n
<1>15. hasKey(s, e) => sameKeys(f, s)
  BY <1>12 DEF hasKey, sameKeys, n
<1> QED
  BY <1>13, <1>14, <1>15 DEF f

\* The directories of all commits.
CacheKeys == UNION {{Caching!directoryKey(p, c[p]) : p \in DOMAIN c} : c \in Commits}

\* A session asks for a directory of its commit, and has its messages if any.
IsRequest(l) ==
    /\ DOMAIN l = {"st", "commit", "path", "tree", "messages"}
    /\ l.commit \in Commits /\ l.path \in DOMAIN l.commit /\ l.tree = l.commit[l.path]
    /\ l.st \in {"read", "done"} => l.messages = Caching!messagesOf(l.path, l.tree)

\* The inductive invariant of the cache: the list is the newest part of all uses,
\* and the map has its keys and what each of them names.
CacheInv ==
    /\ listing = [s \in CacheSessions |-> listing[s]]
    /\ \A s \in CacheSessions : listing[s] # None => IsRequest(listing[s])
    /\ uses \in Seq(CacheKeys) /\ NoDuplicates(uses)
    /\ recency = newest(uses)
    /\ DOMAIN entries = Caching!Range(recency)
    /\ \A k \in DOMAIN entries : entries[k] = Caching!messagesOf(k.path, k.tree)

\* A use of a key that is cached reorders the list.
LEMMA CacheHit ==
    ASSUME uses \in Seq(CacheKeys), NoDuplicates(uses), recency = newest(uses),
           NEW key0 \in CacheKeys, key0 \in Caching!Range(recency)
    PROVE  /\ Caching!front(uses, key0) \in Seq(CacheKeys)
           /\ NoDuplicates(Caching!front(uses, key0))
           /\ Caching!front(recency, key0) = newest(Caching!front(uses, key0))
           /\ Caching!Range(Caching!front(recency, key0)) = Caching!Range(recency)
<1> DEFINE K == CacheKeys
           f == Caching!front(recency, key0)
           m == Len(recency)
<1>1. Caching!front(uses, key0) \in Seq(K) /\ NoDuplicates(Caching!front(uses, key0))
  BY FrontFacts, FrontKeys
<1>2. /\ recency \in Seq(K) /\ m = kept(uses) /\ kept(uses) \in 0 .. Len(uses) /\ m <= Capacity
      /\ \A i \in 1 .. kept(uses) : recency[i] = uses[i]
  BY NewestFacts
<1>3. m \in Nat /\ Len(uses) \in Nat /\ DOMAIN recency = 1 .. m
  BY <1>2
<1>4. NoDuplicates(recency)
  <2>1. \A i \in 1 .. m : i \in 1 .. Len(uses)
    BY <1>2, <1>3
  <2> QED
    BY <1>2, <2>1 DEF NoDuplicates
<1>5. \E j \in 1 .. m : recency[j] = key0
  BY <1>3 DEF Caching!Range
<1>6. f \in Seq(K) /\ onlyKeys(f, recency, key0) /\ sameKeys(f, recency)
  <2>1. hasKey(recency, key0)
    BY <1>5 DEF hasKey
  <2> QED
    BY <1>2, <1>4, <2>1, FrontFacts, FrontKeys
<1> HIDE DEF f
<1>7. newest(f) = newest(Caching!front(uses, key0))
  BY NewestMoved DEF f
<1>8. newest(f) = f
  <2>1. kept(f) = m
    BY <1>2, <1>3, <1>6, CapacityAssumption DEF kept, sameKeys
  <2>2. newest(f) \in Seq(K) /\ Len(newest(f)) = m /\ \A i \in 1 .. m : newest(f)[i] = f[i]
    BY <1>6, <2>1, NewestFacts
  <2>3. Len(f) = m
    BY <1>6 DEF sameKeys
  <2> QED
    BY <1>6, <2>2, <2>3
<1>9. Caching!Range(f) = Caching!Range(recency)
  <2>1. Len(f) = m
    BY <1>6 DEF sameKeys
  <2>2. DOMAIN f = 1 .. m
    BY <1>6, <2>1
  <2>3. \A i \in 1 .. m : \E j \in 1 .. m : f[i] = recency[j]
    BY <1>5, <1>6, <2>1 DEF onlyKeys, hasKey
  <2>4. \A j \in 1 .. m : \E i \in 1 .. m : f[i] = recency[j]
    BY <1>6, <2>1 DEF sameKeys, hasKey
  <2>5. /\ Caching!Range(f) = {f[i] : i \in 1 .. m}
        /\ Caching!Range(recency) = {recency[j] : j \in 1 .. m}
    BY <1>3, <2>2 DEF Caching!Range
  <2>6. {f[i] : i \in 1 .. m} \subseteq {recency[j] : j \in 1 .. m}
    <3> SUFFICES ASSUME NEW i \in 1 .. m PROVE \E j \in 1 .. m : f[i] = recency[j]
      OBVIOUS
    <3> QED
      BY <2>3
  <2>7. {recency[j] : j \in 1 .. m} \subseteq {f[i] : i \in 1 .. m}
    <3> SUFFICES ASSUME NEW j \in 1 .. m PROVE \E i \in 1 .. m : f[i] = recency[j]
      OBVIOUS
    <3> QED
      BY <2>4
  <2> QED
    BY <2>5, <2>6, <2>7, Zenon
<1> QED
  BY <1>1, <1>7, <1>8, <1>9 DEF f

\* A key that is put into the cache comes first, and nothing else is new.
LEMMA CachePut ==
    ASSUME uses \in Seq(CacheKeys), NoDuplicates(uses), recency = newest(uses),
           NEW key0 \in CacheKeys
    PROVE  /\ Caching!front(uses, key0) \in Seq(CacheKeys)
           /\ NoDuplicates(Caching!front(uses, key0))
           /\ newest(Caching!front(recency, key0)) = newest(Caching!front(uses, key0))
           /\ \A k \in Caching!Range(newest(Caching!front(recency, key0))) :
                 k = key0 \/ k \in Caching!Range(recency)
<1> DEFINE K == CacheKeys
           f == Caching!front(recency, key0)
           m == Len(recency)
<1>1. Caching!front(uses, key0) \in Seq(K) /\ NoDuplicates(Caching!front(uses, key0))
  BY FrontFacts, FrontKeys
<1>2. /\ recency \in Seq(K) /\ m = kept(uses) /\ kept(uses) \in 0 .. Len(uses)
      /\ \A i \in 1 .. kept(uses) : recency[i] = uses[i]
  BY NewestFacts
<1>3. m \in Nat /\ Len(uses) \in Nat /\ DOMAIN recency = 1 .. m
  BY <1>2
<1>4. NoDuplicates(recency)
  <2>1. \A i \in 1 .. m : i \in 1 .. Len(uses)
    BY <1>2, <1>3
  <2> QED
    BY <1>2, <2>1 DEF NoDuplicates
<1>5. f \in Seq(K) /\ onlyKeys(f, recency, key0)
  BY <1>2, <1>4, FrontFacts, FrontKeys
<1> HIDE DEF f
<1>6. newest(f) = newest(Caching!front(uses, key0))
  BY NewestMoved DEF f
<1>7. ASSUME NEW k \in Caching!Range(newest(f)) PROVE k = key0 \/ k \in Caching!Range(recency)
  <2>1. /\ newest(f) \in Seq(K) /\ Len(newest(f)) = kept(f) /\ kept(f) \in 0 .. Len(f)
        /\ \A i \in 1 .. kept(f) : newest(f)[i] = f[i]
    BY <1>5, NewestFacts
  <2>2. DOMAIN newest(f) = 1 .. kept(f) /\ Len(f) \in Nat
    BY <1>5, <2>1
  <2>3. PICK i \in 1 .. kept(f) : k = newest(f)[i]
    BY <2>2 DEF Caching!Range
  <2>4. i \in 1 .. Len(f) /\ k = f[i]
    BY <2>1, <2>2, <2>3
  <2> QED
    BY <1>3, <1>5, <2>4 DEF Caching!Range, onlyKeys, hasKey
<1> QED
  BY <1>1, <1>6, <1>7 DEF f

\* The cache's invariant holds.
LEMMA CacheAlways == Caching!Spec => []CacheInv
<1>1. Caching!Init => CacheInv
  <2> SUFFICES ASSUME Caching!Init PROVE CacheInv
    OBVIOUS
  <2>1. /\ entries = <<>> /\ recency = <<>> /\ uses = <<>>
        /\ listing = [s \in CacheSessions |-> None]
    BY DEF Caching!Init
  <2>2. uses \in Seq(CacheKeys) /\ Len(uses) = 0
    BY <2>1
  <2>3. newest(uses) = <<>>
    BY <2>2, NewestFacts, EmptySeq DEF kept, newest
  <2>4. NoDuplicates(uses)
    BY <2>2 DEF NoDuplicates
  <2>5. DOMAIN entries = {} /\ Caching!Range(recency) = {}
    BY <2>1 DEF Caching!Range
  <2> QED
    BY <2>1, <2>2, <2>3, <2>4, <2>5 DEF CacheInv
<1>2. CacheInv /\ [Caching!Next]_Caching!vars => CacheInv'
  <2> SUFFICES ASSUME CacheInv, [Caching!Next]_Caching!vars PROVE CacheInv'
    OBVIOUS
  <2>0. CASE UNCHANGED Caching!vars
    <3>1. UNCHANGED <<entries, recency, listing, uses>>
      BY <2>0 DEF Caching!vars
    <3> QED
      BY <3>1 DEF CacheInv
  <2> SUFFICES ASSUME NEW s \in CacheSessions,
                      \/ \E commit \in Commits : \E p \in DOMAIN commit : Caching!Info(s, commit, p)
                      \/ Caching!Get(s) \/ Caching!Miss(s) \/ Caching!Put(s) \/ Caching!Fails(s)
               PROVE  CacheInv'
    BY <2>0 DEF Caching!Next
  <2> DEFINE l == listing[s]
             k0 == Caching!directoryKey(l.path, l.tree)
  <2>1. /\ listing = [r \in CacheSessions |-> listing[r]]
        /\ \A r \in CacheSessions : listing[r] # None => IsRequest(listing[r])
    BY DEF CacheInv
  <2>2. ASSUME l # None PROVE k0 \in CacheKeys /\ IsRequest(l)
    BY <2>1, <2>2 DEF IsRequest, CacheKeys
  <2>3. ASSUME NEW new, listing' = [listing EXCEPT ![s] = new], new # None => IsRequest(new)
        PROVE  /\ listing' = [r \in CacheSessions |-> listing'[r]]
               /\ \A r \in CacheSessions : listing'[r] # None => IsRequest(listing'[r])
    BY <2>1, <2>3
  <2>4. ASSUME NEW commit \in Commits, NEW p \in DOMAIN commit, Caching!Info(s, commit, p)
        PROVE  CacheInv'
    <3> DEFINE new == [st |-> "info", commit |-> commit, path |-> p, tree |-> commit[p],
                       messages |-> None]
    <3>1. listing' = [listing EXCEPT ![s] = new] /\ UNCHANGED <<entries, recency, uses>>
      BY <2>4 DEF Caching!Info
    <3>2. IsRequest(new)
      BY DEF IsRequest
    <3> HIDE DEF new
    <3> QED
      BY <2>3, <3>1, <3>2 DEF CacheInv
  <2>5. CASE Caching!Get(s)
    <3> DEFINE new == [l EXCEPT !.st = "done", !.messages = entries[k0]]
    <3>1. /\ l # None /\ k0 \in DOMAIN entries
          /\ recency' = Caching!front(recency, k0) /\ uses' = Caching!front(uses, k0)
          /\ listing' = [listing EXCEPT ![s].st = "done", ![s].messages = entries[k0]]
          /\ entries' = entries
      BY <2>5 DEF Caching!Get, Caching!step
    <3>2. listing' = [listing EXCEPT ![s] = new]
      BY <2>1, <3>1
    <3>3. entries[k0] = Caching!messagesOf(l.path, l.tree)
      BY <3>1 DEF CacheInv, Caching!directoryKey
    <3>4. IsRequest(new)
      BY <2>2, <3>1, <3>3 DEF IsRequest
    <3> HIDE DEF new, k0, l
    <3>5. /\ uses' \in Seq(CacheKeys) /\ NoDuplicates(uses') /\ recency' = newest(uses')
          /\ Caching!Range(recency') = Caching!Range(recency)
      BY <2>2, <3>1, CacheHit DEF CacheInv
    <3> QED
      BY <2>3, <3>1, <3>2, <3>4, <3>5 DEF CacheInv, newest
  <2>6. CASE Caching!Miss(s)
    <3> DEFINE new == [l EXCEPT !.st = "read", !.messages = Caching!messagesOf(l.path, l.tree)]
    <3>1. /\ l # None
          /\ listing' = [listing EXCEPT ![s].st = "read",
                                        ![s].messages = Caching!messagesOf(l.path, l.tree)]
          /\ UNCHANGED <<entries, recency, uses>>
      BY <2>6 DEF Caching!Miss, Caching!step
    <3>2. listing' = [listing EXCEPT ![s] = new]
      BY <2>1, <3>1
    <3>3. IsRequest(new)
      BY <2>2, <3>1 DEF IsRequest
    <3> HIDE DEF new, l
    <3> QED
      BY <2>3, <3>1, <3>2, <3>3 DEF CacheInv
  <2>7. CASE Caching!Put(s)
    <3> DEFINE new == [l EXCEPT !.st = "done"]
               pushed == Caching!front(recency, k0)
               left == newest(pushed)
    <3>1. /\ l # None /\ l.st = "read"
          /\ recency' = left
          /\ entries' = [k \in Caching!Range(left) |->
                            IF k = k0 THEN l.messages ELSE entries[k]]
          /\ uses' = Caching!front(uses, k0)
          /\ listing' = [listing EXCEPT ![s].st = "done"]
      BY <2>7 DEF Caching!Put, Caching!step, newest
    <3>2. listing' = [listing EXCEPT ![s] = new]
      BY <2>1, <3>1
    <3>3. l.messages = Caching!messagesOf(l.path, l.tree)
      BY <2>2, <3>1 DEF IsRequest
    <3>4. IsRequest(new)
      BY <2>2, <3>1, <3>3 DEF IsRequest
    <3>5. k0.path = l.path /\ k0.tree = l.tree
      BY DEF Caching!directoryKey
    <3> HIDE DEF new, k0, l
    <3>6. /\ uses' \in Seq(CacheKeys) /\ NoDuplicates(uses') /\ recency' = newest(uses')
          /\ \A k \in Caching!Range(left) : k = k0 \/ k \in Caching!Range(recency)
      BY <2>2, <3>1, CachePut DEF CacheInv
    <3> HIDE DEF left
    <3>7. DOMAIN entries' = Caching!Range(recency')
      BY <3>1
    <3>8. \A k \in DOMAIN entries' : entries'[k] = Caching!messagesOf(k.path, k.tree)
      BY <3>1, <3>3, <3>5, <3>6 DEF CacheInv
    <3> QED
      BY <2>3, <3>2, <3>4, <3>6, <3>7, <3>8 DEF CacheInv, newest
  <2>8. CASE Caching!Fails(s)
    <3>1. listing' = [listing EXCEPT ![s] = None] /\ UNCHANGED <<entries, recency, uses>>
      BY <2>8 DEF Caching!Fails
    <3> QED
      BY <2>3, <3>1 DEF CacheInv
  <2> QED
    BY <2>4, <2>5, <2>6, <2>7, <2>8
<1> QED
  BY <1>1, <1>2, PTL DEF Caching!Spec

\* A session that lists a directory gets the messages of its own commit, whoever
\* has put them into the cache and whatever else was put there since
\* (readDirectory, cacheDirectory).
THEOREM ListingHolds == Caching!Spec => []ListingIsOfCommit
<1>1. CacheInv => ListingIsOfCommit
  BY DEF CacheInv, IsRequest, ListingIsOfCommit, Caching!ListingIsOfCommit, Caching!step
<1> QED
  BY CacheAlways, <1>1, PTL

\* The cache holds the Capacity directories that were used last, in that order,
\* and nothing else: list and map agree (directoryCache).
THEOREM RecentHolds == Caching!Spec => []RecentIsCached
<1>1. CacheInv => RecentIsCached
  BY DEF CacheInv, RecentIsCached, Caching!RecentIsCached, newest
<1> QED
  BY CacheAlways, <1>1, PTL

-----------------------------------------------------------------------------
(* The first start. *)

\* The state file counts no more than n messages.
AtMost(n) == stateFile.LastID <= n

\* A commit of the old archive up to its first gap.
IsLegacy(c) ==
    /\ c = [LastID |-> c.LastID, TotalOctets |-> c.TotalOctets, tree |-> c.tree]
    /\ c.LastID \in Nat /\ AtMost(c.LastID)
    /\ 1 .. c.LastID \subseteq DOMAIN mail /\ c.LastID + 1 \notin DOMAIN mail
    /\ c.tree = {<<id, mail[id]>> : id \in 1 .. c.LastID}
    /\ c.TotalOctets = Importing!octets(c.LastID)

\* The state file counts messages, and what a loss of power leaves of it counts
\* no more of them.
FilesInv ==
    /\ stateFile.LastID \in Nat /\ stateSynced.LastID \in Nat
    /\ stateSynced.LastID <= stateFile.LastID

\* The state initializeGit works with: as it was read, then with the message
\* behind it.
StartInv ==
    /\ startPC = "tail" =>
          startState.LastID \in Nat /\ startState.LastID = stateFile.LastID
    /\ startPC \in {"sync", "collect", "import"} =>
          /\ startState.LastID \in Nat /\ AtMost(startState.LastID)
          /\ startState.LastID + 1 \notin DOMAIN mail
    /\ startPC = "import" => objects /\ Importing!collectable

\* The commits that were made, and the one that is still to be published.
CommitInv ==
    /\ orphan # None => IsLegacy(orphan)
    /\ imports = <<>> \/ (imports = <<imports[1]>> /\ IsLegacy(imports[1]))
    /\ imports # <<>> => objects
    /\ startPC \in {"tail", "sync", "collect", "import"} /\ head = None => imports = <<>>
    /\ orphan # None /\ head = None => imports = <<>>

\* The inductive invariant of the first start: wherever it was interrupted, the
\* state file counts no message too many, and a commit that was written or is
\* still to be published is that of the archive up to its first gap.
ImportInv == FilesInv /\ StartInv /\ CommitInv

\* There is only one.
LEMMA OneLegacy ==
    ASSUME NEW c, IsLegacy(c), NEW d, IsLegacy(d) PROVE c = d
<1>1. c.LastID \in Nat /\ d.LastID \in Nat
  BY DEF IsLegacy
<1>2. ~(c.LastID < d.LastID)
  <2>1. c.LastID < d.LastID => c.LastID + 1 \in 1 .. d.LastID
    BY <1>1
  <2> QED
    BY <2>1 DEF IsLegacy
<1>3. ~(d.LastID < c.LastID)
  <2>1. d.LastID < c.LastID => d.LastID + 1 \in 1 .. c.LastID
    BY <1>1
  <2> QED
    BY <2>1 DEF IsLegacy
<1>4. c.LastID = d.LastID
  BY <1>1, <1>2, <1>3
<1>5. c.tree = d.tree /\ c.TotalOctets = d.TotalOctets
  BY <1>4 DEF IsLegacy
<1> QED
  BY <1>4, <1>5 DEF IsLegacy

\* A state file that counts no more than before makes no commit less.
LEMMA LegacyKept ==
    ASSUME UNCHANGED mail, FilesInv,
           stateFile'.LastID \in Nat /\ stateFile'.LastID <= stateFile.LastID
    PROVE  /\ \A n \in Nat : AtMost(n) => AtMost(n)'
           /\ \A c : IsLegacy(c) => IsLegacy(c)'
<1>1. \A n \in Nat : AtMost(n) => AtMost(n)'
  BY DEF AtMost, FilesInv
<1>2. \A n : Importing!octets(n)' = Importing!octets(n)
  BY DEF Importing!octets
<1> QED
  BY <1>1, <1>2 DEF IsLegacy

\* Steps that leave the files, the state and the commits alone.
LEMMA ImportKept ==
    ASSUME ImportInv, UNCHANGED <<mail, stateFile, stateSynced, objects, head, orphan, imports>>,
           \/ startPC' \notin {"tail", "sync", "collect", "import"}
           \/ startPC' = startPC /\ startState' = startState
    PROVE  ImportInv'
<1>1. /\ \A n \in Nat : AtMost(n) => AtMost(n)'
      /\ \A c : IsLegacy(c) => IsLegacy(c)'
  BY LegacyKept DEF ImportInv, FilesInv
<1>2. FilesInv'
  BY DEF ImportInv, FilesInv
<1>3. \A n : Importing!octets(n)' = Importing!octets(n)
  BY DEF Importing!octets
<1>4. StartInv'
  BY <1>1, <1>3 DEF ImportInv, StartInv, Importing!collectable
<1>5. CommitInv'
  BY <1>1 DEF ImportInv, CommitInv
<1> QED
  BY <1>2, <1>4, <1>5 DEF ImportInv

\* The commit that is made is such a commit.
LEMMA ImportLegacy ==
    ASSUME ImportInv, startPC = "import" PROVE IsLegacy(Importing!importCommit)
<1>1. /\ startState.LastID \in Nat /\ AtMost(startState.LastID)
      /\ startState.LastID + 1 \notin DOMAIN mail /\ Importing!collectable
  BY DEF ImportInv, StartInv
<1> QED
  BY <1>1 DEF IsLegacy, Importing!importCommit, Importing!collectable

\* recoverMailboxTail.
LEMMA RecoverKept ==
    ASSUME ImportInv, Importing!RecoverTail PROVE ImportInv'
<1> USE DEF Importing!files, Importing!repository
<1> DEFINE n == startState.LastID
<1>1. /\ startPC = "tail" /\ Importing!recoverable
      /\ startState' = Importing!recoverMailboxTail
      /\ IF startState' = startState
         THEN startPC' = "collect" /\ UNCHANGED stateFile
         ELSE startPC' = "sync" /\ stateFile' = startState'
      /\ UNCHANGED <<mail, stateSynced, objects, head, orphan, imports>>
  BY DEF Importing!RecoverTail
<1>2. n \in Nat /\ n = stateFile.LastID
  BY <1>1 DEF ImportInv, StartInv
<1>3. CASE n + 1 \notin DOMAIN mail
  <2>1. startState' = startState /\ startPC' = "collect" /\ UNCHANGED stateFile
    BY <1>1, <1>3 DEF Importing!recoverMailboxTail
  <2>2. FilesInv'
    BY <1>1, <2>1 DEF ImportInv, FilesInv
  <2>3. StartInv'
    BY <1>1, <1>2, <1>3, <2>1 DEF StartInv, AtMost
  <2>4. \A c : IsLegacy(c) => IsLegacy(c)'
    BY <1>1, <2>1, LegacyKept DEF ImportInv, FilesInv
  <2>5. CommitInv'
    BY <1>1, <2>1, <2>4 DEF ImportInv, CommitInv
  <2> QED
    BY <2>2, <2>3, <2>5 DEF ImportInv
<1>4. CASE n + 1 \in DOMAIN mail
  <2>1. startState' = [LastID |-> n + 1, TotalOctets |-> startState.TotalOctets + mail[n + 1]]
    BY <1>1, <1>4 DEF Importing!recoverMailboxTail
  <2>2. startState'.LastID = n + 1 /\ startState' # startState
    BY <1>2, <2>1
  <2>3. startPC' = "sync" /\ stateFile' = startState'
    BY <1>1, <2>2
  <2>4. n + 2 \notin DOMAIN mail
    BY <1>1, <1>4 DEF Importing!recoverable
  <2>5. stateSynced'.LastID \in Nat /\ stateSynced'.LastID <= n
    BY <1>1, <1>2 DEF ImportInv, FilesInv
  <2>6. stateFile'.LastID = n + 1
    BY <2>2, <2>3
  <2>7. FilesInv'
    BY <1>1, <1>2, <2>5, <2>6 DEF FilesInv
  <2>8. StartInv'
    <3>1. startState'.LastID \in Nat /\ startState'.LastID + 1 = n + 2
      BY <1>2, <2>2
    <3>2. AtMost(startState.LastID)'
      BY <1>2, <2>2, <2>6 DEF AtMost
    <3> QED
      BY <1>1, <2>3, <2>4, <3>1, <3>2 DEF StartInv
  <2>9. ASSUME NEW c, IsLegacy(c) PROVE IsLegacy(c)'
    <3>1. c.LastID \in Nat /\ n <= c.LastID /\ n # c.LastID
      BY <1>2, <1>4, <2>9 DEF IsLegacy, AtMost
    <3>2. AtMost(c.LastID)'
      BY <1>2, <2>6, <3>1 DEF AtMost
    <3>3. Importing!octets(c.LastID)' = Importing!octets(c.LastID)
      BY <1>1 DEF Importing!octets
    <3> QED
      BY <1>1, <2>9, <3>2, <3>3 DEF IsLegacy
  <2>10. CommitInv'
    BY <1>1, <2>3, <2>9 DEF ImportInv, CommitInv
  <2> QED
    BY <2>7, <2>8, <2>10 DEF ImportInv
<1> QED
  BY <1>3, <1>4

\* A kill or a loss of power.
LEMMA CrashKept ==
    ASSUME ImportInv, Importing!Crash PROVE ImportInv'
<1> USE DEF Importing!files, Importing!repository
<1>1. /\ UNCHANGED <<mail, head, startState, imports>> /\ startPC' = "down"
      /\ orphan' \in {orphan, None} \/ (startPC = "import" /\ orphan' = Importing!importCommit)
      /\ \/ UNCHANGED <<stateFile, stateSynced>>
         \/ stateFile' \in {stateFile, stateSynced} /\ stateSynced' = stateFile'
      /\ objects' = objects \/ (startPC = "import" /\ head = None)
  BY DEF Importing!Crash
<1>2. FilesInv'
  BY <1>1 DEF ImportInv, FilesInv
<1>3. stateFile'.LastID \in Nat /\ stateFile'.LastID <= stateFile.LastID
  BY <1>1 DEF ImportInv, FilesInv
<1>4. \A c : IsLegacy(c) => IsLegacy(c)'
  BY <1>1, <1>3, LegacyKept DEF ImportInv
<1>5. StartInv'
  BY <1>1 DEF StartInv
<1>6. startPC = "import" => IsLegacy(Importing!importCommit)
  BY ImportLegacy
<1>7. CommitInv'
  <2>1. orphan' # None => IsLegacy(orphan)'
    BY <1>1, <1>4, <1>6 DEF ImportInv, CommitInv
  <2>2. orphan' # None /\ head' = None => imports' = <<>>
    BY <1>1 DEF ImportInv, CommitInv
  <2>3. imports' # <<>> => objects'
    <3>1. /\ imports # <<>> => objects
          /\ startPC = "import" /\ head = None => imports = <<>>
      BY DEF ImportInv, CommitInv
    <3>2. CASE objects' = objects
      BY <1>1, <3>1, <3>2
    <3>3. CASE startPC = "import" /\ head = None
      BY <1>1, <3>1, <3>3
    <3> QED
      BY <1>1, <3>2, <3>3
  <2>4. imports' = <<>> \/ (imports' = <<imports'[1]>> /\ IsLegacy(imports[1])')
    BY <1>1, <1>4 DEF ImportInv, CommitInv
  <2> QED
    BY <1>1, <2>1, <2>2, <2>3, <2>4 DEF CommitInv
<1> QED
  BY <1>2, <1>5, <1>7 DEF ImportInv

\* HEAD moves to the first commit.
LEMMA FirstCommit ==
    ASSUME ImportInv, UNCHANGED <<mail, stateFile, stateSynced, startState>>,
           NEW commit, IsLegacy(commit), imports = <<>>, head' = commit,
           imports' = Append(imports, commit), objects',
           \/ startPC' = "served" /\ orphan' = orphan
           \/ startPC' = startPC /\ orphan' = None /\ commit # None
    PROVE  ImportInv'
<1>1. /\ \A n \in Nat : AtMost(n) => AtMost(n)'
      /\ \A c : IsLegacy(c) => IsLegacy(c)'
  BY LegacyKept DEF ImportInv, FilesInv
<1>2. FilesInv'
  BY DEF ImportInv, FilesInv
<1>3. \A n : Importing!octets(n)' = Importing!octets(n)
  BY DEF Importing!octets
<1>4. StartInv'
  BY <1>1, <1>3 DEF ImportInv, StartInv, Importing!collectable
<1>5. imports' = <<commit>> /\ imports'[1] = commit
  OBVIOUS
<1>6. orphan' # None => head' # None
  BY OneLegacy DEF ImportInv, CommitInv
<1>7. CommitInv'
  BY <1>1, <1>5, <1>6 DEF ImportInv, CommitInv
<1> QED
  BY <1>2, <1>4, <1>7 DEF ImportInv

\* The first start's invariant holds.
LEMMA ImportAlways == Importing!Spec => []ImportInv
<1>1. Importing!Init => ImportInv
  <2> SUFFICES ASSUME Importing!Init PROVE ImportInv
    OBVIOUS
  <2>1. PICK n \in 0 .. MaxMail :
           \/ \E counted \in 1 .. n, cut \in Cuts :
                 stateFile = [Importing!stateOf(counted) EXCEPT !.TotalOctets = @ + cut]
           \/ stateFile = Importing!stateOf(0)
    BY DEF Importing!Init
  <2>2. stateFile.LastID \in Nat
    <3>1. CASE stateFile = Importing!stateOf(0)
      BY <3>1 DEF Importing!stateOf
    <3>2. ASSUME NEW counted \in 1 .. n, NEW cut \in Cuts,
                 stateFile = [Importing!stateOf(counted) EXCEPT !.TotalOctets = @ + cut]
          PROVE  stateFile.LastID \in Nat
      BY <3>2 DEF Importing!stateOf
    <3> QED
      BY <2>1, <3>1, <3>2
  <2>3. stateSynced = stateFile /\ orphan = None /\ startPC = "down" /\ imports = <<>>
    BY DEF Importing!Init
  <2>4. FilesInv
    BY <2>2, <2>3 DEF FilesInv
  <2> QED
    BY <2>3, <2>4 DEF ImportInv, StartInv, CommitInv
<1>2. ImportInv /\ [Importing!Next]_Importing!vars => ImportInv'
  <2> SUFFICES ASSUME ImportInv, [Importing!Next]_Importing!vars PROVE ImportInv'
    OBVIOUS
  <2> USE DEF Importing!files, Importing!repository
  <2>1. CASE UNCHANGED Importing!vars
    BY <2>1, ImportKept DEF Importing!vars
  <2>2. CASE Importing!Start \/ Importing!InitGit \/ Importing!SyncRoot \/ Importing!Serve
    <3>1. /\ UNCHANGED <<mail, stateFile, stateSynced, objects, head, orphan, imports>>
          /\ startPC' \in {"new", "head", "init", "served"}
      BY <2>2 DEF Importing!Start, Importing!InitGit, Importing!SyncRoot, Importing!Serve
    <3> QED
      BY <3>1, ImportKept
  <2>3. CASE Importing!ReadState
    <3>1. /\ UNCHANGED <<mail, stateFile, stateSynced, objects, head, orphan, imports>>
          /\ startPC' = "tail" /\ ~objects /\ startState' = stateFile
      BY <2>3 DEF Importing!ReadState, Importing!requireUninitializedArchive
    <3>2. FilesInv' /\ StartInv'
      BY <3>1 DEF ImportInv, FilesInv, StartInv
    <3>3. \A c : IsLegacy(c) => IsLegacy(c)'
      BY <3>1, LegacyKept DEF ImportInv, FilesInv
    <3>4. CommitInv'
      BY <3>1, <3>3 DEF ImportInv, CommitInv
    <3> QED
      BY <3>2, <3>4 DEF ImportInv
  <2>4. CASE Importing!Refuse \/ Importing!HeadChanged \/ Importing!ImportFails \/ Importing!Stop
    <3>1. /\ UNCHANGED <<mail, stateFile, stateSynced, objects, head, orphan, imports>>
          /\ startPC' = "down"
      BY <2>4 DEF Importing!Refuse, Importing!HeadChanged, Importing!ImportFails, Importing!Stop
    <3> QED
      BY <3>1, ImportKept
  <2>5. CASE Importing!SyncState
    <3>1. /\ UNCHANGED <<mail, stateFile, objects, head, orphan, startState, imports>>
          /\ stateSynced' = stateFile /\ startPC = "sync" /\ startPC' = "collect"
      BY <2>5 DEF Importing!SyncState
    <3>2. FilesInv'
      BY <3>1 DEF ImportInv, FilesInv
    <3>3. StartInv'
      BY <3>1 DEF ImportInv, StartInv, AtMost
    <3>4. \A c : IsLegacy(c) => IsLegacy(c)'
      BY <3>1, LegacyKept DEF ImportInv, FilesInv
    <3>5. CommitInv'
      BY <3>1, <3>4 DEF ImportInv, CommitInv
    <3> QED
      BY <3>2, <3>3, <3>5 DEF ImportInv
  <2>6. CASE Importing!StartImport
    <3>1. /\ UNCHANGED <<mail, stateFile, stateSynced, head, orphan, startState, imports>>
          /\ objects' = TRUE /\ startPC = "collect" /\ startPC' = "import" /\ head = None
          /\ Importing!collectable
      BY <2>6 DEF Importing!StartImport
    <3>2. Importing!collectable'
      BY <3>1 DEF Importing!collectable, Importing!octets
    <3>3. FilesInv'
      BY <3>1 DEF ImportInv, FilesInv
    <3>4. StartInv'
      BY <3>1, <3>2 DEF ImportInv, StartInv, AtMost
    <3>5. \A c : IsLegacy(c) => IsLegacy(c)'
      BY <3>1, LegacyKept DEF ImportInv, FilesInv
    <3>6. CommitInv'
      BY <3>1, <3>5 DEF ImportInv, CommitInv
    <3> QED
      BY <3>3, <3>4, <3>6 DEF ImportInv
  <2>7. CASE Importing!Checkpoint
    <3>1. /\ UNCHANGED <<mail, stateFile, stateSynced, objects, orphan, startState>>
          /\ startPC = "import" /\ head = None /\ head' = Importing!importCommit
          /\ imports' = Append(imports, Importing!importCommit) /\ startPC' = "served"
      BY <2>7 DEF Importing!Checkpoint
    <3>2. imports = <<>> /\ objects
      BY <3>1 DEF ImportInv, StartInv, CommitInv
    <3>3. IsLegacy(Importing!importCommit)
      BY <3>1, ImportLegacy
    <3> QED
      BY <3>1, <3>2, <3>3, FirstCommit
  <2>8. CASE Importing!OrphanEOF
    <3>1. /\ UNCHANGED <<mail, stateFile, stateSynced, startPC, startState>>
          /\ orphan # None /\ orphan' = None
      BY <2>8 DEF Importing!OrphanEOF
    <3>2. CASE head = None
      <4>1. head' = orphan /\ objects' = TRUE /\ imports' = Append(imports, orphan)
        BY <2>8, <3>2 DEF Importing!OrphanEOF
      <4>2. imports = <<>> /\ IsLegacy(orphan)
        BY <3>1, <3>2 DEF ImportInv, CommitInv
      <4> QED
        BY <3>1, <4>1, <4>2, FirstCommit
    <3>3. CASE head # None
      <4>1. UNCHANGED <<head, objects, imports>>
        BY <2>8, <3>3 DEF Importing!OrphanEOF
      <4>2. FilesInv'
        BY <3>1 DEF ImportInv, FilesInv
      <4>3. StartInv'
        BY <3>1, <4>1 DEF ImportInv, StartInv, AtMost, Importing!collectable, Importing!octets
      <4>4. \A c : IsLegacy(c) => IsLegacy(c)'
        BY <3>1, LegacyKept DEF ImportInv, FilesInv
      <4>5. CommitInv'
        BY <3>1, <3>3, <4>1, <4>4 DEF ImportInv, CommitInv
      <4> QED
        BY <4>2, <4>3, <4>5 DEF ImportInv
    <3> QED
      BY <3>2, <3>3
  <2>9. CASE Importing!LoseHEAD
    <3>1. /\ UNCHANGED <<mail, stateFile, stateSynced, objects, orphan, startPC, startState, imports>>
          /\ startPC = "down" /\ orphan = None
      BY <2>9 DEF Importing!LoseHEAD
    <3>2. FilesInv' /\ StartInv'
      BY <3>1 DEF ImportInv, FilesInv, StartInv
    <3>3. \A c : IsLegacy(c) => IsLegacy(c)'
      BY <3>1, LegacyKept DEF ImportInv, FilesInv
    <3>4. CommitInv'
      BY <3>1, <3>3 DEF ImportInv, CommitInv
    <3> QED
      BY <3>2, <3>4 DEF ImportInv
  <2> QED
    BY <2>1, <2>2, <2>3, <2>4, <2>5, <2>6, <2>7, <2>8, <2>9, RecoverKept, CrashKept
       DEF Importing!Next, Importing!Starting
<1> QED
  BY <1>1, <1>2, PTL DEF Importing!Spec

\* The old archive is imported at most once, whole up to its first gap and never
\* short of what the state file counts, whatever start was interrupted where
\* and whatever files are missing (initializeGit, recoverMailboxTail).
THEOREM ImportHolds == Importing!Spec => []ImportIsLegacy
<1>1. ImportInv => ImportIsLegacy
  <2> SUFFICES ASSUME ImportInv PROVE Importing!ImportIsLegacy
    BY DEF ImportIsLegacy
  <2>1. CASE imports = <<>>
    <3>1. Len(imports) <= 1 /\ Importing!Range(imports) = {}
      BY <2>1 DEF Importing!Range
    <3> QED
      BY <3>1 DEF Importing!ImportIsLegacy
  <2>2. CASE imports = <<imports[1]>> /\ IsLegacy(imports[1])
    <3> DEFINE w == imports[1]
    <3>1. IsLegacy(w) /\ imports = <<w>>
      BY <2>2
    <3> HIDE DEF w
    <3>2. Len(imports) = 1 /\ Importing!Range(imports) = {w}
      BY <3>1 DEF Importing!Range
    <3> QED
      BY <3>1, <3>2 DEF Importing!ImportIsLegacy, IsLegacy, AtMost
  <2> QED
    BY <2>1, <2>2 DEF ImportInv, CommitInv
<1> QED
  BY ImportAlways, <1>1, PTL

-----------------------------------------------------------------------------
(* The Git children and who may use them. *)

\* Callbacks that wait for a lock.
Callbacks == [current : BOOLEAN, unused : BOOLEAN]

\* What the locks and the children are.
ChildTypes ==
    /\ lock = [l \in {"mu", "gitMu", "readMu"} |-> lock[l]]
    /\ pc = [x \in Senders \cup Sessions |-> pc[x]]
    /\ child \in [Idling!Kinds -> BOOLEAN] /\ closed \in [Idling!Kinds -> BOOLEAN]
    /\ timer \in [Idling!Kinds -> BOOLEAN]
    /\ callbacks \in [Idling!Kinds -> SUBSET Callbacks]
    /\ closer \in [Idling!Kinds -> SUBSET Callbacks]
    /\ failure \in BOOLEAN

\* Whoever works on a child holds its lock.
LockHolders ==
    /\ \A x \in Senders \cup Sessions :
          /\ pc[x] = "commit" => lock["gitMu"] = x
          /\ pc[x] \in {"listing", "opening", "resolving", "leased"} => lock["readMu"] = x
    /\ maintenance \in {"tryMu", "tryGit", "check", "gc"} => lock["readMu"] = "maintenance"
    /\ maintenance \in {"check", "gc"} => lock["gitMu"] = "maintenance"
    /\ maintenance = "gc" => \A k \in Idling!Kinds : ~child[k]
    /\ \A k \in Idling!Kinds : closer[k] # {} => lock[Idling!lockOf[k]] = k /\ ~child[k]

\* A callback that passes the check comes from the time after the last use.
CallbacksKnow ==
    /\ \A k \in Idling!Kinds : \A cb \in callbacks[k] : cb.current => cb.unused
    /\ \A k \in Idling!Kinds : \A cb \in closer[k] : cb.unused

\* The child will be looked at: by the timer or by a callback that it has started.
WillEnd(k) == timer[k] \/ \E cb \in callbacks[k] : cb.current

\* Nobody works on the child; maintenance, which only tries, does not count.
Unused(k) == lock[Idling!lockOf[k]] \in {None, "maintenance"}

\* The inductive invariant.
ChildrenInv ==
    /\ ChildTypes /\ LockHolders /\ CallbacksKnow
    /\ \A k \in Idling!Kinds : closed[k] => ~child[k]
    /\ failure \/ \A k \in Idling!Kinds : child[k] /\ Unused(k) => WillEnd(k)

\* Outdated callbacks are none that pass the check.
LEMMA OutdatedFacts ==
    ASSUME NEW waiting \in SUBSET Callbacks
    PROVE  /\ Idling!outdated(waiting) \in SUBSET Callbacks
           /\ \A cb \in Idling!outdated(waiting) : ~cb.current
           /\ {[cb EXCEPT !.unused = FALSE] : cb \in Idling!outdated(waiting)} \in SUBSET Callbacks
           /\ \A cb \in {[x EXCEPT !.unused = FALSE] : x \in Idling!outdated(waiting)} : ~cb.current
BY DEF Callbacks, Idling!outdated

\* What a use of a child does to its timer.
LEMMA UsedFacts ==
    ASSUME ChildrenInv, NEW k \in Idling!Kinds, Idling!used(k)
    PROVE  /\ timer' \in [Idling!Kinds -> BOOLEAN]
           /\ callbacks' \in [Idling!Kinds -> SUBSET Callbacks]
           /\ \A cb \in callbacks'[k] : ~cb.current
           /\ \A j \in Idling!Kinds : j # k => timer'[j] = timer[j] /\ callbacks'[j] = callbacks[j]
<1> DEFINE fresh == {[cb EXCEPT !.unused = FALSE] : cb \in Idling!outdated(callbacks[k])}
<1>1. /\ timer \in [Idling!Kinds -> BOOLEAN] /\ callbacks \in [Idling!Kinds -> SUBSET Callbacks]
      /\ callbacks[k] \in SUBSET Callbacks
  BY DEF ChildrenInv, ChildTypes
<1>2. timer' = [timer EXCEPT ![k] = FALSE] /\ callbacks' = [callbacks EXCEPT ![k] = fresh]
  BY DEF Idling!used
<1>3. fresh \in SUBSET Callbacks /\ \A cb \in fresh : ~cb.current
  BY <1>1, OutdatedFacts
<1> HIDE DEF fresh
<1> QED
  BY <1>1, <1>2, <1>3

\* What arming does, for a child that runs or does not.
LEMMA ArmFacts ==
    ASSUME ChildrenInv, NEW k \in Idling!Kinds, NEW running \in BOOLEAN, Idling!arm(k, running)
    PROVE  /\ timer' \in [Idling!Kinds -> BOOLEAN] /\ timer'[k] = running
           /\ callbacks' \in [Idling!Kinds -> SUBSET Callbacks]
           /\ \A cb \in callbacks'[k] : cb.current => cb.unused
           /\ \A j \in Idling!Kinds : j # k => timer'[j] = timer[j] /\ callbacks'[j] = callbacks[j]
<1> DEFINE fresh == IF running THEN Idling!outdated(callbacks[k]) ELSE callbacks[k]
<1>1. /\ timer \in [Idling!Kinds -> BOOLEAN] /\ callbacks \in [Idling!Kinds -> SUBSET Callbacks]
      /\ callbacks[k] \in SUBSET Callbacks /\ \A cb \in callbacks[k] : cb.current => cb.unused
  BY DEF ChildrenInv, ChildTypes, CallbacksKnow
<1>2. timer' = [timer EXCEPT ![k] = running] /\ callbacks' = [callbacks EXCEPT ![k] = fresh]
  BY DEF Idling!arm
<1>3. fresh \in SUBSET Callbacks /\ \A cb \in fresh : cb.current => cb.unused
  BY <1>1, OutdatedFacts
<1> HIDE DEF fresh
<1> QED
  BY <1>1, <1>2, <1>3

\* Steps that touch no child, no timer and none of the children's locks.
LEMMA QuietSteps ==
    ASSUME ChildrenInv,
           lock' = [l \in {"mu", "gitMu", "readMu"} |-> lock'[l]],
           lock'["gitMu"] = lock["gitMu"], lock'["readMu"] = lock["readMu"],
           UNCHANGED <<child, timer, callbacks, closer, closed>>,
           failure' = failure \/ failure' = TRUE,
           pc' = [x \in Senders \cup Sessions |-> pc'[x]],
           \A x \in Senders \cup Sessions :
               pc'[x] = pc[x] \/ pc'[x] \notin {"commit", "listing", "opening", "resolving", "leased"},
           maintenance' = maintenance \/ maintenance' \notin {"tryMu", "tryGit", "check", "gc"}
    PROVE  ChildrenInv'
<1>1. ChildTypes'
  BY DEF ChildrenInv, ChildTypes
<1>2. LockHolders'
  BY DEF ChildrenInv, LockHolders, Idling!Kinds, Idling!lockOf
<1>3. CallbacksKnow'
  BY DEF ChildrenInv, CallbacksKnow
<1>4. \A k \in Idling!Kinds : Unused(k)' = Unused(k) /\ WillEnd(k)' = WillEnd(k)
  BY DEF Unused, WillEnd, Idling!Kinds, Idling!lockOf
<1> QED
  BY <1>1, <1>2, <1>3, <1>4 DEF ChildrenInv


\* In state st of an actor it works on child k.
WorksOn(st, k) ==
    st \in (IF k = "importer" THEN {"commit"} ELSE {"listing", "opening", "resolving", "leased"})

\* An actor's step with a child that is free or its own.
LEMMA HoldersKept ==
    ASSUME ChildrenInv, NEW k \in Idling!Kinds, NEW x \in Senders \cup Sessions, NEW st,
           pc' = [pc EXCEPT ![x] = st], maintenance' = maintenance, closer' = closer,
           \A j \in Idling!Kinds : j # k => /\ child'[j] = child[j] /\ ~WorksOn(st, j)
                                            /\ lock'[Idling!lockOf[j]] = lock[Idling!lockOf[j]],
           lock[Idling!lockOf[k]] \in {None, x}, lock'[Idling!lockOf[k]] \in {None, x},
           WorksOn(st, k) => lock'[Idling!lockOf[k]] = x
    PROVE  LockHolders' /\ pc' = [y \in Senders \cup Sessions |-> pc'[y]]
<1>1. /\ pc' = [y \in Senders \cup Sessions |-> pc'[y]] /\ pc'[x] = st
      /\ \A y \in Senders \cup Sessions : y # x => pc'[y] = pc[y]
  BY DEF ChildrenInv, ChildTypes
<1>2. x \notin {None, "maintenance", "importer", "reader"}
  BY LocksAssumption
<1>3. lock[Idling!lockOf[k]] \notin {"maintenance", "importer", "reader"}
  BY <1>2, NoneAssumption
<1>4. LockHolders
  BY DEF ChildrenInv
<1>5. LockHolders'
  <2>1. CASE k = "importer"
    <3>1. /\ child'["reader"] = child["reader"] /\ lock'["readMu"] = lock["readMu"]
          /\ st \notin {"listing", "opening", "resolving", "leased"}
          /\ lock["gitMu"] \in {None, x} /\ lock'["gitMu"] \in {None, x}
          /\ st = "commit" => lock'["gitMu"] = x
      BY <2>1 DEF Idling!Kinds, Idling!lockOf, WorksOn
    <3>2. lock["gitMu"] \notin {"maintenance", "importer", "reader"}
      BY <1>3, <2>1 DEF Idling!lockOf
    <3>3. \A y \in Senders \cup Sessions : y # x => pc[y] # "commit"
      BY <1>2, <1>4, <3>1, LocksAssumption DEF LockHolders
    <3>4. maintenance \notin {"check", "gc"} /\ closer["importer"] = {}
      BY <1>4, <3>2 DEF LockHolders, Idling!Kinds, Idling!lockOf
    <3> QED
      BY <1>1, <1>4, <3>1, <3>3, <3>4 DEF LockHolders, Idling!Kinds, Idling!lockOf
  <2>2. CASE k = "reader"
    <3>1. /\ child'["importer"] = child["importer"] /\ lock'["gitMu"] = lock["gitMu"]
          /\ st # "commit" /\ lock["readMu"] \in {None, x} /\ lock'["readMu"] \in {None, x}
          /\ st \in {"listing", "opening", "resolving", "leased"} => lock'["readMu"] = x
      BY <2>2 DEF Idling!Kinds, Idling!lockOf, WorksOn
    <3>2. lock["readMu"] \notin {"maintenance", "importer", "reader"}
      BY <1>3, <2>2 DEF Idling!lockOf
    <3>3. \A y \in Senders \cup Sessions :
             y # x => pc[y] \notin {"listing", "opening", "resolving", "leased"}
      BY <1>2, <1>4, <3>1, LocksAssumption DEF LockHolders
    <3>4. maintenance \notin {"tryMu", "tryGit", "check", "gc"} /\ closer["reader"] = {}
      BY <1>4, <3>2 DEF LockHolders, Idling!Kinds, Idling!lockOf
    <3> QED
      BY <1>1, <1>4, <3>1, <3>3, <3>4 DEF LockHolders, Idling!Kinds, Idling!lockOf
  <2> QED
    BY <2>1, <2>2 DEF Idling!Kinds
<1> QED
  BY <1>1, <1>5

\* A step that is about one child.
LEMMA OneChild ==
    ASSUME ChildrenInv, NEW k \in Idling!Kinds, LockHolders',
           pc' = [y \in Senders \cup Sessions |-> pc'[y]],
           lock' = [l \in {"mu", "gitMu", "readMu"} |-> lock'[l]],
           child' \in [Idling!Kinds -> BOOLEAN], closed' \in [Idling!Kinds -> BOOLEAN],
           timer' \in [Idling!Kinds -> BOOLEAN],
           callbacks' \in [Idling!Kinds -> SUBSET Callbacks],
           closer' \in [Idling!Kinds -> SUBSET Callbacks], failure' \in BOOLEAN,
           \A j \in Idling!Kinds : j # k =>
               /\ child'[j] = child[j] /\ timer'[j] = timer[j] /\ callbacks'[j] = callbacks[j]
               /\ closer'[j] = closer[j] /\ closed'[j] = closed[j]
               /\ lock'[Idling!lockOf[j]] = lock[Idling!lockOf[j]],
           \A cb \in callbacks'[k] : cb.current => cb.unused,
           \A cb \in closer'[k] : cb.unused,
           closed'[k] => ~child'[k], failure => failure',
           failure' \/ (child'[k] /\ Unused(k)' => WillEnd(k)')
    PROVE  ChildrenInv'
<1>1. ChildTypes'
  BY DEF ChildTypes
<1>2. CallbacksKnow'
  BY DEF ChildrenInv, CallbacksKnow
<1>3. \A j \in Idling!Kinds : closed'[j] => ~child'[j]
  BY DEF ChildrenInv
<1>4. \A j \in Idling!Kinds : j # k => Unused(j)' = Unused(j) /\ WillEnd(j)' = WillEnd(j)
  BY DEF Unused, WillEnd
<1>5. failure' \/ \A j \in Idling!Kinds : child'[j] /\ Unused(j)' => WillEnd(j)'
  BY <1>4 DEF ChildrenInv
<1> QED
  BY <1>1, <1>2, <1>3, <1>5 DEF ChildrenInv

\* The locks and the children as they are now.
LEMMA ChildFacts ==
    ASSUME ChildrenInv
    PROVE  /\ lock = [l \in {"mu", "gitMu", "readMu"} |-> lock[l]]
           /\ pc = [x \in Senders \cup Sessions |-> pc[x]]
           /\ child \in [Idling!Kinds -> BOOLEAN] /\ closed \in [Idling!Kinds -> BOOLEAN]
           /\ timer \in [Idling!Kinds -> BOOLEAN]
           /\ callbacks \in [Idling!Kinds -> SUBSET Callbacks]
           /\ closer \in [Idling!Kinds -> SUBSET Callbacks] /\ failure \in BOOLEAN
           /\ \A k \in Idling!Kinds : \A cb \in callbacks[k] : cb.current => cb.unused
           /\ \A k \in Idling!Kinds : \A cb \in closer[k] : cb.unused
           /\ \A k \in Idling!Kinds : closed[k] => ~child[k]
BY DEF ChildrenInv, ChildTypes, CallbacksKnow

\* A child is taken, and started if it has to be.
LEMMA ChildTaken ==
    ASSUME ChildrenInv, NEW x \in Senders \cup Sessions,
           Idling!LockGit(x) \/ (x \in Sessions /\ Idling!LockRead(x))
    PROVE  ChildrenInv'
<1>1. PICK k \in Idling!Kinds, st \in {"commit", "listing", "opening", "resolving"} :
         /\ lock[Idling!lockOf[k]] = None /\ ~closed[k] /\ Idling!used(k)
         /\ lock' = [lock EXCEPT ![Idling!lockOf[k]] = x] /\ child' = [child EXCEPT ![k] = TRUE]
         /\ pc' = [pc EXCEPT ![x] = st] /\ \A j \in Idling!Kinds : j # k => ~WorksOn(st, j)
         /\ UNCHANGED <<closer, closed, failure, maintenance>>
  <2>1. CASE Idling!LockGit(x)
    BY <2>1 DEF Idling!LockGit, Idling!free, Idling!lockOf, Idling!Kinds, Idling!store, Idling!upkeep, WorksOn
  <2>2. CASE Idling!LockRead(x)
    <3>1. Idling!query[pc[x]] \in {"listing", "opening", "resolving"}
      BY <2>2 DEF Idling!LockRead, Idling!query
    <3> QED
      BY <2>2, <3>1 DEF Idling!LockRead, Idling!free, Idling!lockOf, Idling!Kinds, Idling!store,
         Idling!upkeep, WorksOn
  <2> QED
    BY <2>1, <2>2
<1>2. /\ \A j \in Idling!Kinds : Idling!lockOf[j] \in {"gitMu", "readMu"}
      /\ \A j \in Idling!Kinds : j # k => Idling!lockOf[j] # Idling!lockOf[k]
  BY DEF Idling!lockOf, Idling!Kinds
<1>3. /\ lock' = [l \in {"mu", "gitMu", "readMu"} |-> lock'[l]]
      /\ lock'[Idling!lockOf[k]] = x
      /\ \A j \in Idling!Kinds : j # k => lock'[Idling!lockOf[j]] = lock[Idling!lockOf[j]]
  BY <1>1, <1>2, ChildFacts
<1>4. /\ child' \in [Idling!Kinds -> BOOLEAN]
      /\ \A j \in Idling!Kinds : j # k => child'[j] = child[j]
  BY <1>1, ChildFacts
<1>5. LockHolders' /\ pc' = [y \in Senders \cup Sessions |-> pc'[y]]
  BY <1>1, <1>3, <1>4, HoldersKept
<1>6. ~Unused(k)'
  BY <1>3, LocksAssumption DEF Unused
<1>7. /\ timer' \in [Idling!Kinds -> BOOLEAN] /\ callbacks' \in [Idling!Kinds -> SUBSET Callbacks]
      /\ \A cb \in callbacks'[k] : ~cb.current
      /\ \A j \in Idling!Kinds : j # k => timer'[j] = timer[j] /\ callbacks'[j] = callbacks[j]
  BY <1>1, UsedFacts
<1> QED
  BY <1>1, <1>3, <1>4, <1>5, <1>6, <1>7, ChildFacts, OneChild

\* There is no child to be had.
LEMMA ChildRefused ==
    ASSUME ChildrenInv, NEW x \in Senders \cup Sessions,
           Idling!NoImporter(x) \/ (x \in Sessions /\ Idling!NoReader(x))
    PROVE  ChildrenInv'
<1>1. PICK k \in Idling!Kinds :
         /\ lock[Idling!lockOf[k]] = None /\ ~child[k] /\ Idling!used(k)
         /\ lock' = lock \/ lock' = [lock EXCEPT !["mu"] = None]
         /\ pc' = [pc EXCEPT ![x] = "idle"]
         /\ UNCHANGED <<child, closer, closed, failure, maintenance>>
  BY DEF Idling!NoImporter, Idling!NoReader, Idling!free, Idling!lockOf, Idling!Kinds,
     Idling!store, Idling!upkeep
<1>2. \A j \in Idling!Kinds : Idling!lockOf[j] \in {"gitMu", "readMu"}
  BY DEF Idling!lockOf, Idling!Kinds
<1>3. /\ lock' = [l \in {"mu", "gitMu", "readMu"} |-> lock'[l]]
      /\ \A j \in Idling!Kinds : lock'[Idling!lockOf[j]] = lock[Idling!lockOf[j]]
  BY <1>1, <1>2, ChildFacts
<1>4. \A j \in Idling!Kinds : ~WorksOn("idle", j)
  BY DEF WorksOn
<1>5. LockHolders' /\ pc' = [y \in Senders \cup Sessions |-> pc'[y]]
  BY <1>1, <1>3, <1>4, HoldersKept
<1>7. /\ timer' \in [Idling!Kinds -> BOOLEAN] /\ callbacks' \in [Idling!Kinds -> SUBSET Callbacks]
      /\ \A cb \in callbacks'[k] : ~cb.current
      /\ \A j \in Idling!Kinds : j # k => timer'[j] = timer[j] /\ callbacks'[j] = callbacks[j]
  BY <1>1, UsedFacts
<1>8. \A j \in Idling!Kinds : j # k =>
         /\ child'[j] = child[j] /\ timer'[j] = timer[j] /\ callbacks'[j] = callbacks[j]
         /\ closer'[j] = closer[j] /\ closed'[j] = closed[j]
         /\ lock'[Idling!lockOf[j]] = lock[Idling!lockOf[j]]
  BY <1>1, <1>3, <1>7
<1>9. /\ child' \in [Idling!Kinds -> BOOLEAN] /\ closed' \in [Idling!Kinds -> BOOLEAN]
      /\ closer' \in [Idling!Kinds -> SUBSET Callbacks]
      /\ \A cb \in closer'[k] : cb.unused
      /\ ~child'[k]
  BY <1>1, ChildFacts
<1>10. failure' \in BOOLEAN
  BY <1>1, ChildFacts
<1>11. failure => failure'
  BY <1>1
<1> QED
  BY <1>3, <1>5, <1>7, <1>8, <1>9, <1>10, <1>11, OneChild


\* The locks of the two children.
LEMMA LockNames ==
    /\ \A j \in Idling!Kinds : Idling!lockOf[j] \in {"gitMu", "readMu"}
    /\ \A j, k \in Idling!Kinds : j # k => Idling!lockOf[j] # Idling!lockOf[k]
    /\ Idling!lockOf["importer"] = "gitMu" /\ Idling!lockOf["reader"] = "readMu"
    /\ Idling!Kinds = {"importer", "reader"}
BY DEF Idling!lockOf, Idling!Kinds

\* A child's lock is let go, with the timer set if the child is still there.
LEMMA LetGo ==
    ASSUME ChildrenInv, NEW x \in Senders \cup Sessions, NEW k \in Idling!Kinds,
           Idling!arm(k, TRUE) \/ (Idling!arm(k, FALSE) /\ ~child'[k]),
           lock[Idling!lockOf[k]] \in {None, x}, lock'[Idling!lockOf[k]] = None,
           lock' = [l \in {"mu", "gitMu", "readMu"} |-> lock'[l]],
           \A j \in Idling!Kinds : j # k => lock'[Idling!lockOf[j]] = lock[Idling!lockOf[j]],
           child' = child \/ child' = [child EXCEPT ![k] = FALSE],
           pc' = [pc EXCEPT ![x] = "idle"] \/ pc' = [pc EXCEPT ![x] = "waitMu"],
           failure' = failure \/ failure' = TRUE,
           closer' = closer, closed' = closed, maintenance' = maintenance
    PROVE  ChildrenInv'
<1>10. failure' \in BOOLEAN
  BY ChildFacts
<1>11. failure => failure'
  OBVIOUS
<1>1. /\ child' \in [Idling!Kinds -> BOOLEAN] /\ (child'[k] => child[k])
      /\ \A j \in Idling!Kinds : j # k => child'[j] = child[j]
  BY ChildFacts
<1>2. \A j \in Idling!Kinds : ~WorksOn("idle", j) /\ ~WorksOn("waitMu", j)
  BY DEF WorksOn
<1>3. LockHolders' /\ pc' = [y \in Senders \cup Sessions |-> pc'[y]]
  BY <1>1, <1>2, HoldersKept
<1>4. /\ timer' \in [Idling!Kinds -> BOOLEAN] /\ (child'[k] => timer'[k])
      /\ callbacks' \in [Idling!Kinds -> SUBSET Callbacks]
      /\ \A cb \in callbacks'[k] : cb.current => cb.unused
      /\ \A j \in Idling!Kinds : j # k => timer'[j] = timer[j] /\ callbacks'[j] = callbacks[j]
  BY ArmFacts
<1>5. child'[k] => WillEnd(k)'
  BY <1>4 DEF WillEnd
<1>6. failure' \/ (child'[k] /\ Unused(k)' => WillEnd(k)')
  BY <1>5
<1>7. /\ closed' \in [Idling!Kinds -> BOOLEAN] /\ (closed'[k] => ~child'[k])
      /\ closer' \in [Idling!Kinds -> SUBSET Callbacks] /\ \A cb \in closer'[k] : cb.unused
  BY <1>1, ChildFacts
<1>8. \A j \in Idling!Kinds : j # k =>
         /\ child'[j] = child[j] /\ timer'[j] = timer[j] /\ callbacks'[j] = callbacks[j]
         /\ closer'[j] = closer[j] /\ closed'[j] = closed[j]
         /\ lock'[Idling!lockOf[j]] = lock[Idling!lockOf[j]]
  BY <1>1, <1>4
<1> QED
  BY <1>10, <1>11, <1>1, <1>3, <1>4, <1>6, <1>7, <1>8, OneChild

\* A commit is made, fails, or is not tried; a query is answered or fails; a lease
\* ends.
LEMMA ChildReturned ==
    ASSUME ChildrenInv, NEW x \in Senders \cup Sessions,
           \/ Idling!HeadChanged(x) \/ Idling!Committed(x) \/ Idling!CommitFails(x)
           \/ x \in Sessions /\ (Idling!Answered(x) \/ Idling!QueryFails(x) \/ Idling!CloseLease(x))
    PROVE  ChildrenInv'
<1> USE DEF Idling!store, Idling!upkeep, Idling!free
<1>1. /\ pc[x] = "commit" => lock["gitMu"] = x
      /\ pc[x] \in {"listing", "opening", "resolving", "leased"} => lock["readMu"] = x
  BY DEF ChildrenInv, LockHolders
<1>2. /\ lock = [l \in {"mu", "gitMu", "readMu"} |-> lock[l]]
      /\ child \in [Idling!Kinds -> BOOLEAN] /\ failure \in BOOLEAN
  BY ChildFacts
<1>3. CASE Idling!HeadChanged(x) \/ Idling!Committed(x)
  <2>1. /\ Idling!arm("importer", TRUE) \/ (Idling!arm("importer", FALSE) /\ ~child["importer"])
        /\ lock["gitMu"] \in {None, x}
        /\ \/ lock["gitMu"] = None /\ lock' = [lock EXCEPT !["mu"] = None]
           \/ lock' = [lock EXCEPT !["gitMu"] = None, !["mu"] = None]
        /\ pc' = [pc EXCEPT ![x] = "idle"]
        /\ UNCHANGED <<child, closer, closed, failure, maintenance>>
    <3>1. CASE Idling!HeadChanged(x)
      <4>1. child["importer"] = TRUE \/ child["importer"] = FALSE
        BY <1>2, LockNames
      <4>2. Idling!arm("importer", child["importer"])
        BY <3>1 DEF Idling!HeadChanged
      <4>3. Idling!arm("importer", TRUE) \/ (Idling!arm("importer", FALSE) /\ ~child["importer"])
        BY <4>1, <4>2
      <4> QED
        BY <3>1, <4>3 DEF Idling!HeadChanged
    <3>2. CASE Idling!Committed(x)
      BY <1>1, <1>2, <3>2 DEF Idling!Committed
    <3> QED
      BY <1>3, <3>1, <3>2
  <2>2. /\ lock' = [l \in {"mu", "gitMu", "readMu"} |-> lock'[l]] /\ lock'["gitMu"] = None
        /\ lock'["readMu"] = lock["readMu"]
    BY <1>2, <2>1
  <2> DEFINE k == "importer"
  <2>3. k \in Idling!Kinds /\ Idling!lockOf[k] = "gitMu"
        /\ \A j \in Idling!Kinds : j # k => Idling!lockOf[j] = "readMu"
    BY LockNames
  <2>4. Idling!arm(k, TRUE) \/ (Idling!arm(k, FALSE) /\ ~child'[k])
    BY <2>1
  <2> HIDE DEF k
  <2>5. lock[Idling!lockOf[k]] \in {None, x} /\ lock'[Idling!lockOf[k]] = None
    BY <2>1, <2>2, <2>3
  <2>6. \A j \in Idling!Kinds : j # k => lock'[Idling!lockOf[j]] = lock[Idling!lockOf[j]]
    BY <2>2, <2>3
  <2>7. child' = child /\ failure' = failure /\ closer' = closer /\ closed' = closed /\ maintenance' = maintenance
    BY <2>1
  <2>8. pc' = [pc EXCEPT ![x] = "idle"] /\ k \in Idling!Kinds /\ lock' = [l \in {"mu", "gitMu", "readMu"} |-> lock'[l]]
    BY <2>1, <2>2, <2>3
  <2> QED
    BY <2>4, <2>5, <2>6, <2>7, <2>8, LetGo
<1>4. CASE Idling!CommitFails(x)
  <2>1. /\ Idling!arm("importer", FALSE) /\ pc[x] = "commit"
        /\ lock' = [lock EXCEPT !["gitMu"] = None, !["mu"] = None]
        /\ child' = [child EXCEPT !["importer"] = FALSE] /\ failure' = TRUE
        /\ pc' = [pc EXCEPT ![x] = "idle"]
        /\ UNCHANGED <<closer, closed, maintenance>>
    BY <1>4 DEF Idling!CommitFails
  <2>2. /\ lock' = [l \in {"mu", "gitMu", "readMu"} |-> lock'[l]] /\ lock'["gitMu"] = None
        /\ lock'["readMu"] = lock["readMu"]
    BY <1>2, <2>1
  <2> DEFINE k == "importer"
  <2>3. k \in Idling!Kinds /\ Idling!lockOf[k] = "gitMu"
        /\ \A j \in Idling!Kinds : j # k => Idling!lockOf[j] = "readMu"
    BY LockNames
  <2>4. /\ Idling!arm(k, FALSE) /\ ~child'[k]
        /\ child' = [child EXCEPT ![k] = FALSE] /\ lock["gitMu"] = x
    BY <1>1, <1>2, <2>1, LockNames
  <2> HIDE DEF k
  <2>5. lock[Idling!lockOf[k]] \in {None, x} /\ lock'[Idling!lockOf[k]] = None
    BY <2>2, <2>3, <2>4
  <2>6. \A j \in Idling!Kinds : j # k => lock'[Idling!lockOf[j]] = lock[Idling!lockOf[j]]
    BY <2>2, <2>3
  <2>7. failure' = TRUE /\ closer' = closer /\ closed' = closed /\ maintenance' = maintenance
    BY <2>1
  <2>8. k \in Idling!Kinds /\ lock' = [l \in {"mu", "gitMu", "readMu"} |-> lock'[l]]
    BY <2>2, <2>3
  <2> QED
    BY <2>1, <2>4, <2>5, <2>6, <2>7, <2>8, LetGo
<1>5. CASE Idling!Answered(x) /\ pc[x] = "opening"
  <2>1. /\ pc' = [pc EXCEPT ![x] = "leased"]
        /\ UNCHANGED <<lock, timer, callbacks, child, closer, closed, failure, maintenance>>
    BY <1>5 DEF Idling!Answered, Idling!answered
  <2> DEFINE k == "reader"
  <2>2. k \in Idling!Kinds /\ lock[Idling!lockOf[k]] = x
        /\ \A j \in Idling!Kinds : j # k => ~WorksOn("leased", j)
    BY <1>1, <1>5, LockNames DEF WorksOn
  <2> HIDE DEF k
  <2>3. LockHolders' /\ pc' = [y \in Senders \cup Sessions |-> pc'[y]]
    BY <2>1, <2>2, HoldersKept
  <2>4. failure \/ (child[k] /\ Unused(k) => WillEnd(k))
    BY <2>2 DEF ChildrenInv
  <2>5. failure' \/ (child'[k] /\ Unused(k)' => WillEnd(k)')
    BY <2>1, <2>4 DEF Unused, WillEnd
  <2>6. \A j \in Idling!Kinds :
           /\ child'[j] = child[j] /\ timer'[j] = timer[j] /\ callbacks'[j] = callbacks[j]
           /\ closer'[j] = closer[j] /\ closed'[j] = closed[j]
           /\ lock'[Idling!lockOf[j]] = lock[Idling!lockOf[j]]
    BY <2>1
  <2>7. /\ lock' = [l \in {"mu", "gitMu", "readMu"} |-> lock'[l]]
        /\ child' \in [Idling!Kinds -> BOOLEAN] /\ closed' \in [Idling!Kinds -> BOOLEAN]
        /\ timer' \in [Idling!Kinds -> BOOLEAN] /\ callbacks' \in [Idling!Kinds -> SUBSET Callbacks]
        /\ closer' \in [Idling!Kinds -> SUBSET Callbacks]
        /\ \A cb \in callbacks'[k] : cb.current => cb.unused
        /\ \A cb \in closer'[k] : cb.unused
        /\ closed'[k] => ~child'[k]
    BY <2>1, <2>2, ChildFacts
  <2>8. failure' \in BOOLEAN
    BY <1>2, <2>1
  <2>9. failure => failure'
    BY <2>1
  <2> QED
    BY <2>2, <2>3, <2>5, <2>6, <2>7, <2>8, <2>9, OneChild
<1>6. CASE \/ Idling!Answered(x) /\ pc[x] # "opening"
           \/ Idling!QueryFails(x) \/ Idling!CloseLease(x)
  <2>1. /\ \/ Idling!arm("reader", TRUE) /\ child' = child
           \/ Idling!arm("reader", FALSE) /\ child' = [child EXCEPT !["reader"] = FALSE]
        /\ pc[x] \in {"listing", "opening", "resolving", "leased"}
        /\ lock' = [lock EXCEPT !["readMu"] = None]
        /\ pc' = [pc EXCEPT ![x] = "idle"] \/ pc' = [pc EXCEPT ![x] = "waitMu"]
        /\ UNCHANGED <<closer, closed, failure, maintenance>>
    <3>1. CASE Idling!Answered(x) /\ pc[x] # "opening"
      <4>1. pc[x] \in {"listing", "resolving"} /\ pc' = [pc EXCEPT ![x] = Idling!answered[pc[x]]]
        BY <3>1 DEF Idling!Answered, Idling!answered
      <4>2. Idling!answered[pc[x]] \in {"idle", "waitMu"}
        BY <4>1 DEF Idling!answered
      <4>3. /\ Idling!arm("reader", TRUE) /\ child' = child /\ lock' = [lock EXCEPT !["readMu"] = None]
            /\ UNCHANGED <<closer, closed, failure, maintenance>>
        BY <3>1 DEF Idling!Answered
      <4> QED
        BY <4>1, <4>2, <4>3
    <3>2. CASE Idling!QueryFails(x)
      BY <3>2 DEF Idling!QueryFails, Idling!answered, Idling!aborted
    <3>3. CASE Idling!CloseLease(x)
      BY <3>3 DEF Idling!CloseLease, Idling!aborted
    <3> QED
      BY <1>6, <3>1, <3>2, <3>3
  <2>2. /\ lock' = [l \in {"mu", "gitMu", "readMu"} |-> lock'[l]] /\ lock'["readMu"] = None
        /\ lock'["gitMu"] = lock["gitMu"] /\ lock["readMu"] = x
    BY <1>1, <1>2, <2>1
  <2> DEFINE k == "reader"
  <2>3. k \in Idling!Kinds /\ Idling!lockOf[k] = "readMu"
        /\ \A j \in Idling!Kinds : j # k => Idling!lockOf[j] = "gitMu"
    BY LockNames
  <2>4. /\ Idling!arm(k, TRUE) \/ (Idling!arm(k, FALSE) /\ ~child'[k])
        /\ child' = child \/ child' = [child EXCEPT ![k] = FALSE]
    BY <1>2, <2>1, <2>3
  <2> HIDE DEF k
  <2>5. lock[Idling!lockOf[k]] \in {None, x} /\ lock'[Idling!lockOf[k]] = None
    BY <2>1, <2>2, <2>3
  <2>6. \A j \in Idling!Kinds : j # k => lock'[Idling!lockOf[j]] = lock[Idling!lockOf[j]]
    BY <2>2, <2>3
  <2>7. failure' = failure /\ closer' = closer /\ closed' = closed /\ maintenance' = maintenance
    BY <2>1
  <2>8. k \in Idling!Kinds /\ lock' = [l \in {"mu", "gitMu", "readMu"} |-> lock'[l]]
    BY <2>2, <2>3
  <2> QED
    BY <2>1, <2>4, <2>5, <2>6, <2>7, <2>8, LetGo
<1> QED
  BY <1>3, <1>4, <1>5, <1>6

\* What idle callbacks and Close do with a child's lock.
LEMMA ClosersKept ==
    ASSUME ChildrenInv, NEW k \in Idling!Kinds, pc' = pc, maintenance' = maintenance,
           \A j \in Idling!Kinds : j # k => /\ child'[j] = child[j] /\ closer'[j] = closer[j]
                                            /\ lock'[Idling!lockOf[j]] = lock[Idling!lockOf[j]],
           lock'[Idling!lockOf[k]] = lock[Idling!lockOf[k]]
               \/ lock[Idling!lockOf[k]] \in {None, k},
           child'[k] => child[k],
           closer'[k] # {} => lock'[Idling!lockOf[k]] = k /\ ~child'[k]
    PROVE  LockHolders'
<1>1. LockHolders
  BY DEF ChildrenInv
<1>2. \A y \in Senders \cup Sessions : y \notin {None, "maintenance", "importer", "reader"}
  BY LocksAssumption
<1>3. \A j \in Idling!Kinds : child'[j] => child[j]
  OBVIOUS
<1>4. CASE k = "importer"
  <2>1. /\ closer'["reader"] = closer["reader"] /\ lock'["readMu"] = lock["readMu"]
        /\ child'["reader"] = child["reader"]
        /\ lock'["gitMu"] = lock["gitMu"] \/ lock["gitMu"] \in {None, "importer"}
        /\ closer'["importer"] # {} => lock'["gitMu"] = "importer" /\ ~child'["importer"]
    BY <1>4, LockNames
  <2>2. /\ \A x \in Senders \cup Sessions : pc[x] = "commit" => lock'["gitMu"] = x
        /\ maintenance \in {"check", "gc"} => lock'["gitMu"] = "maintenance"
    BY <1>1, <1>2, <2>1, NoneAssumption DEF LockHolders
  <2> QED
    BY <1>1, <1>3, <2>1, <2>2 DEF LockHolders, Idling!Kinds, Idling!lockOf
<1>5. CASE k = "reader"
  <2>1. /\ closer'["importer"] = closer["importer"] /\ lock'["gitMu"] = lock["gitMu"]
        /\ child'["importer"] = child["importer"]
        /\ lock'["readMu"] = lock["readMu"] \/ lock["readMu"] \in {None, "reader"}
        /\ closer'["reader"] # {} => lock'["readMu"] = "reader" /\ ~child'["reader"]
    BY <1>5, LockNames
  <2>2. /\ \A x \in Senders \cup Sessions :
              pc[x] \in {"listing", "opening", "resolving", "leased"} => lock'["readMu"] = x
        /\ maintenance \in {"tryMu", "tryGit", "check", "gc"} => lock'["readMu"] = "maintenance"
    BY <1>1, <1>2, <2>1, NoneAssumption DEF LockHolders
  <2> QED
    BY <1>1, <1>3, <2>1, <2>2 DEF LockHolders, Idling!Kinds, Idling!lockOf
<1> QED
  BY <1>4, <1>5, LockNames

\* The timer fires.
LEMMA TimerFires ==
    ASSUME ChildrenInv, NEW k \in Idling!Kinds, Idling!Fire(k)
    PROVE  ChildrenInv'
<1> DEFINE fresh == callbacks[k] \cup {[current |-> TRUE, unused |-> TRUE]}
<1>1. /\ timer' = [timer EXCEPT ![k] = FALSE] /\ callbacks' = [callbacks EXCEPT ![k] = fresh]
      /\ lock' = lock /\ child' = child /\ closer' = closer /\ pc' = pc /\ closed' = closed
      /\ maintenance' = maintenance /\ failure' = failure
  BY DEF Idling!Fire, Idling!store, Idling!upkeep
<1>2. /\ fresh \in SUBSET Callbacks /\ \E cb \in fresh : cb.current
      /\ \A cb \in fresh : cb.current => cb.unused
  <2> DEFINE cb0 == [current |-> TRUE, unused |-> TRUE]
  <2>1. callbacks[k] \in SUBSET Callbacks /\ \A cb \in callbacks[k] : cb.current => cb.unused
    BY ChildFacts
  <2>2. cb0 \in Callbacks /\ cb0.current /\ cb0.unused /\ fresh = callbacks[k] \cup {cb0}
    BY DEF Callbacks
  <2> HIDE DEF cb0, fresh
  <2> QED
    BY <2>1, <2>2
<1> HIDE DEF fresh
<1>3. /\ timer' \in [Idling!Kinds -> BOOLEAN] /\ callbacks' \in [Idling!Kinds -> SUBSET Callbacks]
      /\ callbacks'[k] = fresh
      /\ \A j \in Idling!Kinds : j # k => timer'[j] = timer[j] /\ callbacks'[j] = callbacks[j]
  BY <1>1, <1>2, ChildFacts
<1>4. LockHolders' /\ pc' = [y \in Senders \cup Sessions |-> pc'[y]]
  BY <1>1, ChildFacts DEF ChildrenInv, LockHolders
<1>5. failure' \/ (child'[k] /\ Unused(k)' => WillEnd(k)')
  BY <1>2, <1>3 DEF WillEnd
<1>6. \A j \in Idling!Kinds : j # k =>
         /\ child'[j] = child[j] /\ timer'[j] = timer[j] /\ callbacks'[j] = callbacks[j]
         /\ closer'[j] = closer[j] /\ closed'[j] = closed[j]
         /\ lock'[Idling!lockOf[j]] = lock[Idling!lockOf[j]]
  BY <1>1, <1>3
<1>7. /\ lock' = [l \in {"mu", "gitMu", "readMu"} |-> lock'[l]]
      /\ child' \in [Idling!Kinds -> BOOLEAN] /\ closed' \in [Idling!Kinds -> BOOLEAN]
      /\ closer' \in [Idling!Kinds -> SUBSET Callbacks]
      /\ \A cb \in closer'[k] : cb.unused
      /\ closed'[k] => ~child'[k]
  BY <1>1, ChildFacts
<1>8. \A cb \in callbacks'[k] : cb.current => cb.unused
  BY <1>2, <1>3
<1>9. failure' \in BOOLEAN
  BY <1>1, ChildFacts
<1>10. failure => failure'
  BY <1>1
<1> QED
  BY <1>3, <1>4, <1>5, <1>6, <1>7, <1>8, <1>9, <1>10, OneChild

\* A callback takes the lock and closes the child; the child has ended.
LEMMA CallbackCloses ==
    ASSUME ChildrenInv, NEW k \in Idling!Kinds,
           \/ \E cb \in callbacks[k] : cb.current /\ child[k] /\ Idling!IdleCallback(k, cb)
           \/ Idling!IdleClosed(k)
    PROVE  ChildrenInv'
<1>1. PICK waiting \in SUBSET callbacks[k], closing \in SUBSET callbacks[k], holder \in {None, k} :
         /\ \A cb \in closing : cb.current
         /\ callbacks' = [callbacks EXCEPT ![k] = waiting]
         /\ closer' = [closer EXCEPT ![k] = closing]
         /\ lock' = [lock EXCEPT ![Idling!lockOf[k]] = holder] /\ lock[Idling!lockOf[k]] \in {None, k}
         /\ closing # {} => holder = k
         /\ timer' = timer /\ closed' = closed
         /\ child' = [child EXCEPT ![k] = FALSE]
         /\ pc' = pc /\ failure' = failure /\ maintenance' = maintenance
  <2>1. CASE \E cb \in callbacks[k] : cb.current /\ child[k] /\ Idling!IdleCallback(k, cb)
    <3>1. PICK cb \in callbacks[k] : cb.current /\ child[k] /\ Idling!IdleCallback(k, cb)
      BY <2>1
    <3> DEFINE waiting == callbacks[k] \ {cb}
               closing == {cb}
    <3>2. /\ waiting \in SUBSET callbacks[k] /\ closing \in SUBSET callbacks[k]
          /\ \A x \in closing : x.current
          /\ callbacks' = [callbacks EXCEPT ![k] = waiting]
          /\ closer' = [closer EXCEPT ![k] = closing]
          /\ lock' = [lock EXCEPT ![Idling!lockOf[k]] = k] /\ lock[Idling!lockOf[k]] = None
          /\ timer' = timer /\ closed' = closed
          /\ child' = [child EXCEPT ![k] = FALSE]
          /\ pc' = pc /\ failure' = failure /\ maintenance' = maintenance
      BY <3>1 DEF Idling!IdleCallback, Idling!free, Idling!store, Idling!upkeep
    <3> HIDE DEF waiting, closing
    <3> QED
      BY <3>2
  <2>2. CASE Idling!IdleClosed(k)
    <3> DEFINE waiting == callbacks[k]
               closing == {}
    <3>1. lock[Idling!lockOf[k]] = k /\ child[k] = FALSE /\ child = [y \in Idling!Kinds |-> child[y]]
      BY <2>2, ChildFacts DEF ChildrenInv, LockHolders, Idling!IdleClosed
    <3>2. child = [child EXCEPT ![k] = FALSE]
      BY <3>1
    <3>3. callbacks = [callbacks EXCEPT ![k] = waiting]
      BY ChildFacts
    <3>4. /\ waiting \in SUBSET callbacks[k] /\ closing \in SUBSET callbacks[k]
          /\ \A x \in closing : x.current
          /\ callbacks' = [callbacks EXCEPT ![k] = waiting]
          /\ closer' = [closer EXCEPT ![k] = closing]
          /\ lock' = [lock EXCEPT ![Idling!lockOf[k]] = None]
          /\ timer' = timer /\ closed' = closed
          /\ child' = [child EXCEPT ![k] = FALSE]
          /\ pc' = pc /\ failure' = failure /\ maintenance' = maintenance
      BY <2>2, <3>2, <3>3 DEF Idling!IdleClosed, Idling!upkeep
    <3>5. closing = {}
      OBVIOUS
    <3> HIDE DEF waiting, closing
    <3> QED
      BY <3>1, <3>4, <3>5
  <2> QED
    BY <2>1, <2>2
<1>2. /\ callbacks[k] \in SUBSET Callbacks /\ (\A cb \in callbacks[k] : cb.current => cb.unused)
      /\ closer' \in [Idling!Kinds -> SUBSET Callbacks] /\ closer'[k] = closing
      /\ callbacks' \in [Idling!Kinds -> SUBSET Callbacks] /\ callbacks'[k] = waiting
      /\ child' \in [Idling!Kinds -> BOOLEAN] /\ ~child'[k]
  BY <1>1, ChildFacts
<1>3. /\ lock' = [l \in {"mu", "gitMu", "readMu"} |-> lock'[l]]
      /\ lock'[Idling!lockOf[k]] = holder
      /\ \A j \in Idling!Kinds : j # k => lock'[Idling!lockOf[j]] = lock[Idling!lockOf[j]]
  BY <1>1, ChildFacts, LockNames
<1>4. \A j \in Idling!Kinds : j # k =>
         /\ child'[j] = child[j] /\ timer'[j] = timer[j] /\ callbacks'[j] = callbacks[j]
         /\ closer'[j] = closer[j] /\ closed'[j] = closed[j]
         /\ lock'[Idling!lockOf[j]] = lock[Idling!lockOf[j]]
  BY <1>1, <1>3, ChildFacts
<1>5. LockHolders'
  <2>1. closer'[k] # {} => lock'[Idling!lockOf[k]] = k /\ ~child'[k]
    BY <1>1, <1>2, <1>3
  <2> QED
    BY <1>1, <1>2, <1>4, <2>1, ClosersKept
<1>6. /\ closed' \in [Idling!Kinds -> BOOLEAN] /\ timer' \in [Idling!Kinds -> BOOLEAN]
      /\ pc' = [y \in Senders \cup Sessions |-> pc'[y]]
      /\ \A cb \in callbacks'[k] : cb.current => cb.unused
  BY <1>1, <1>2, ChildFacts
<1>7. \A cb \in closer'[k] : cb.unused
  BY <1>1, <1>2
<1>8. failure' \in BOOLEAN
  BY <1>1, ChildFacts
<1>9. failure => failure'
  BY <1>1
<1> QED
  BY <1>2, <1>3, <1>4, <1>5, <1>6, <1>7, <1>8, <1>9, OneChild

\* A callback comes too late, and does nothing.
LEMMA CallbackLate ==
    ASSUME ChildrenInv, NEW k \in Idling!Kinds, NEW cb \in callbacks[k],
           ~(cb.current /\ child[k]), Idling!IdleCallback(k, cb)
    PROVE  ChildrenInv'
<1> DEFINE waiting == callbacks[k] \ {cb}
<1>1. /\ callbacks' = [callbacks EXCEPT ![k] = waiting] /\ closer' = closer /\ lock' = lock
      /\ timer' = timer /\ closed' = closed /\ child' = child
      /\ pc' = pc /\ failure' = failure /\ maintenance' = maintenance
  BY DEF Idling!IdleCallback, Idling!store, Idling!upkeep
<1>2. /\ waiting \in SUBSET Callbacks /\ (\A x \in waiting : x.current => x.unused)
  BY ChildFacts
<1>3. failure \/ (child[k] /\ Unused(k) => timer[k] \/ \E x \in waiting : x.current)
  BY DEF ChildrenInv, WillEnd
<1> HIDE DEF waiting
<1>4. /\ callbacks' \in [Idling!Kinds -> SUBSET Callbacks] /\ callbacks'[k] = waiting
      /\ \A j \in Idling!Kinds : j # k => callbacks'[j] = callbacks[j]
  BY <1>1, <1>2, ChildFacts
<1>5. failure' \/ (child'[k] /\ Unused(k)' => WillEnd(k)')
  BY <1>1, <1>3, <1>4 DEF Unused, WillEnd
<1>6. LockHolders' /\ pc' = [y \in Senders \cup Sessions |-> pc'[y]]
  BY <1>1, ChildFacts DEF ChildrenInv, LockHolders
<1>7. \A j \in Idling!Kinds : j # k =>
         /\ child'[j] = child[j] /\ timer'[j] = timer[j] /\ callbacks'[j] = callbacks[j]
         /\ closer'[j] = closer[j] /\ closed'[j] = closed[j]
         /\ lock'[Idling!lockOf[j]] = lock[Idling!lockOf[j]]
  BY <1>1, <1>4
<1>8. /\ lock' = [l \in {"mu", "gitMu", "readMu"} |-> lock'[l]]
      /\ child' \in [Idling!Kinds -> BOOLEAN] /\ closed' \in [Idling!Kinds -> BOOLEAN]
      /\ closer' \in [Idling!Kinds -> SUBSET Callbacks] /\ timer' \in [Idling!Kinds -> BOOLEAN]
      /\ \A x \in closer'[k] : x.unused
      /\ closed'[k] => ~child'[k]
  BY <1>1, ChildFacts
<1>9. \A x \in callbacks'[k] : x.current => x.unused
  BY <1>2, <1>4
<1>10. failure' \in BOOLEAN
  BY <1>1, ChildFacts
<1>11. failure => failure'
  BY <1>1
<1> QED
  BY <1>4, <1>5, <1>6, <1>7, <1>8, <1>9, <1>10, <1>11, OneChild

\* Close: there is no child any more, and there will be none.
LEMMA CloseSteps ==
    ASSUME ChildrenInv, NEW k \in Idling!Kinds, Idling!Close(k)
    PROVE  ChildrenInv'
<1> DEFINE fresh == Idling!outdated(callbacks[k])
<1>1. /\ callbacks' = [callbacks EXCEPT ![k] = fresh] /\ closer' = closer /\ lock' = lock
      /\ timer' = [timer EXCEPT ![k] = FALSE] /\ closed' = [closed EXCEPT ![k] = TRUE]
      /\ child' = [child EXCEPT ![k] = FALSE] /\ lock[Idling!lockOf[k]] = None
      /\ pc' = pc /\ failure' = failure /\ maintenance' = maintenance
  BY DEF Idling!Close, Idling!free, Idling!upkeep
<1>2. fresh \in SUBSET Callbacks /\ (\A x \in fresh : x.current => x.unused)
  <2>1. callbacks[k] \in SUBSET Callbacks
    BY ChildFacts
  <2> QED
    BY <2>1, OutdatedFacts
<1> HIDE DEF fresh
<1>3. /\ callbacks' \in [Idling!Kinds -> SUBSET Callbacks] /\ callbacks'[k] = fresh
      /\ child' \in [Idling!Kinds -> BOOLEAN] /\ ~child'[k]
      /\ closed' \in [Idling!Kinds -> BOOLEAN] /\ timer' \in [Idling!Kinds -> BOOLEAN]
  BY <1>1, <1>2, ChildFacts
<1>4. \A j \in Idling!Kinds : j # k =>
         /\ child'[j] = child[j] /\ timer'[j] = timer[j] /\ callbacks'[j] = callbacks[j]
         /\ closer'[j] = closer[j] /\ closed'[j] = closed[j]
         /\ lock'[Idling!lockOf[j]] = lock[Idling!lockOf[j]]
  BY <1>1, ChildFacts
<1>5. closer'[k] # {} => lock'[Idling!lockOf[k]] = k /\ ~child'[k]
  BY <1>1, <1>3 DEF ChildrenInv, LockHolders
<1>6. LockHolders'
  BY <1>1, <1>3, <1>4, <1>5, ClosersKept
<1>7. /\ lock' = [l \in {"mu", "gitMu", "readMu"} |-> lock'[l]]
      /\ closer' \in [Idling!Kinds -> SUBSET Callbacks]
      /\ pc' = [y \in Senders \cup Sessions |-> pc'[y]]
      /\ \A x \in closer'[k] : x.unused
  BY <1>1, ChildFacts
<1>8. \A x \in callbacks'[k] : x.current => x.unused
  BY <1>2, <1>3
<1>9. failure' \in BOOLEAN
  BY <1>1, ChildFacts
<1>10. failure => failure'
  BY <1>1
<1> QED
  BY <1>3, <1>4, <1>6, <1>7, <1>8, <1>9, <1>10, OneChild

\* Maintenance takes locks that are free and lets go those that it holds.
LEMMA MaintenanceTries ==
    ASSUME ChildrenInv, Idling!TryLock \/ Idling!Busy \/ Idling!NotNeeded
                            \/ Idling!Collected \/ Idling!CollectFails
    PROVE  ChildrenInv'
<1> USE DEF Idling!store, Idling!upkeep, Idling!idling, Idling!free
<1>1. /\ UNCHANGED <<child, timer, callbacks, closer, closed, failure>> /\ pc' = pc
  BY DEF Idling!TryLock, Idling!Busy, Idling!NotNeeded, Idling!Collected, Idling!CollectFails
<1>2. /\ lock = [l \in {"mu", "gitMu", "readMu"} |-> lock[l]]
      /\ maintenance \in {"tryMu", "tryGit", "check", "gc"} => lock["readMu"] = "maintenance"
      /\ maintenance \in {"check", "gc"} => lock["gitMu"] = "maintenance"
  BY DEF ChildrenInv, ChildTypes, LockHolders
<1>3. /\ lock' = [l \in {"mu", "gitMu", "readMu"} |-> lock'[l]]
      /\ \A l \in {"gitMu", "readMu"} :
            lock'[l] = lock[l] \/ {lock[l], lock'[l]} \subseteq {None, "maintenance"}
      /\ maintenance' \in {"tryMu", "tryGit", "check", "gc"} => lock'["readMu"] = "maintenance"
      /\ maintenance' \in {"check", "gc"} => lock'["gitMu"] = "maintenance"
      /\ maintenance' # "gc"
  <2>1. CASE Idling!TryLock
    <3>1. CASE maintenance = "tryRead"
      BY <1>2, <2>1, <3>1 DEF Idling!TryLock, Idling!tries, Idling!next
    <3>2. CASE maintenance = "tryMu"
      BY <1>2, <2>1, <3>2 DEF Idling!TryLock, Idling!tries, Idling!next
    <3>3. CASE maintenance = "tryGit"
      BY <1>2, <2>1, <3>3 DEF Idling!TryLock, Idling!tries, Idling!next
    <3> QED
      BY <2>1, <3>1, <3>2, <3>3 DEF Idling!TryLock, Idling!tries
  <2>2. CASE Idling!Busy
    <3>1. maintenance' \in {"done", "sleep"}
      BY <2>2 DEF Idling!Busy, Idling!sleeps
    <3>2. /\ Idling!holds[maintenance] \subseteq {"readMu", "mu"}
          /\ "readMu" \in Idling!holds[maintenance] => lock["readMu"] = "maintenance"
      BY <1>2, <2>2 DEF Idling!Busy, Idling!holds, Idling!tries
    <3>3. lock' = [l \in DOMAIN lock |-> IF l \in Idling!holds[maintenance] THEN None ELSE lock[l]]
      BY <2>2 DEF Idling!Busy, Idling!release
    <3>4. DOMAIN lock = {"mu", "gitMu", "readMu"}
      BY <1>2
    <3>5. lock'["gitMu"] = lock["gitMu"] /\ lock'["readMu"] = IF "readMu" \in Idling!holds[maintenance] THEN None ELSE lock["readMu"]
      BY <3>2, <3>3, <3>4
    <3>6. lock' = [l \in {"mu", "gitMu", "readMu"} |-> lock'[l]]
      BY <3>3, <3>4
    <3> QED
      BY <3>1, <3>2, <3>5, <3>6
  <2>3. CASE Idling!NotNeeded \/ Idling!Collected \/ Idling!CollectFails
    <3>1. maintenance' \in {"done", "sleep"} /\ maintenance \in {"check", "gc"}
      BY <2>3 DEF Idling!NotNeeded, Idling!Collected, Idling!CollectFails, Idling!sleeps
    <3>2. lock' = [l \in DOMAIN lock |-> IF l \in DOMAIN lock THEN None ELSE lock[l]]
      BY <2>3 DEF Idling!NotNeeded, Idling!Collected, Idling!CollectFails, Idling!release
    <3>3. DOMAIN lock = {"mu", "gitMu", "readMu"}
      BY <1>2
    <3> QED
      BY <1>2, <3>1, <3>2, <3>3
  <2> QED
    BY <2>1, <2>2, <2>3
<1>4. ChildTypes'
  BY <1>1, <1>3 DEF ChildrenInv, ChildTypes
<1>5. LockHolders'
  <2>1. LockHolders
    BY DEF ChildrenInv
  <2>2. \A y \in Senders \cup Sessions : y \notin {None, "maintenance", "importer", "reader"}
    BY LocksAssumption
  <2>3. \A x \in Senders \cup Sessions :
           /\ pc'[x] = "commit" => lock'["gitMu"] = x
           /\ pc'[x] \in {"listing", "opening", "resolving", "leased"} => lock'["readMu"] = x
    BY <1>1, <1>3, <2>1, <2>2 DEF LockHolders
  <2>4. \A k \in Idling!Kinds : closer'[k] # {} => lock'[Idling!lockOf[k]] = k /\ ~child'[k]
    BY <1>1, <1>3, <2>1, NoneAssumption DEF LockHolders, Idling!Kinds, Idling!lockOf
  <2> QED
    BY <1>3, <2>3, <2>4 DEF LockHolders
<1>6. CallbacksKnow'
  BY <1>1 DEF ChildrenInv, CallbacksKnow
<1>7. \A k \in Idling!Kinds : Unused(k)' = Unused(k) /\ WillEnd(k)' = WillEnd(k)
  BY <1>1, <1>3, LockNames DEF Unused, WillEnd
<1> QED
  BY <1>1, <1>4, <1>5, <1>6, <1>7 DEF ChildrenInv

\* Maintenance closes both children, or the importer does not end well.
LEMMA MaintenanceCloses ==
    ASSUME ChildrenInv, Idling!Collect \/ Idling!ImporterFails
    PROVE  ChildrenInv'
<1> USE DEF Idling!store, Idling!upkeep
<1>1. /\ lock = [l \in {"mu", "gitMu", "readMu"} |-> lock[l]]
      /\ lock["readMu"] = "maintenance" /\ lock["gitMu"] = "maintenance"
      /\ maintenance = "check"
  BY DEF ChildrenInv, ChildTypes, LockHolders, Idling!Collect, Idling!ImporterFails
<1>2. /\ timer' = [k \in Idling!Kinds |-> FALSE]
      /\ callbacks' = [k \in Idling!Kinds |-> Idling!outdated(callbacks[k])]
      /\ closer' = closer /\ pc' = pc /\ closed' = closed
  BY DEF Idling!Collect, Idling!ImporterFails, Idling!bothStopped
<1>3. /\ timer' \in [Idling!Kinds -> BOOLEAN] /\ callbacks' \in [Idling!Kinds -> SUBSET Callbacks]
      /\ \A k \in Idling!Kinds : \A cb \in callbacks'[k] : ~cb.current
  BY <1>2, ChildFacts, OutdatedFacts
<1>4. CallbacksKnow'
  BY <1>2, <1>3 DEF ChildrenInv, CallbacksKnow
<1>5. \A y \in Senders \cup Sessions : y \notin {None, "maintenance", "importer", "reader"}
  BY LocksAssumption
<1>6. /\ \A x \in Senders \cup Sessions : pc[x] \notin {"commit", "listing", "opening", "resolving", "leased"}
      /\ \A k \in Idling!Kinds : closer[k] = {}
  BY <1>1, <1>5, LockNames DEF ChildrenInv, LockHolders
<1>7. CASE Idling!Collect
  <2>1. /\ child' = [k \in Idling!Kinds |-> FALSE] /\ lock' = lock /\ failure' = failure
        /\ maintenance' = "gc"
    BY <1>7 DEF Idling!Collect
  <2>2. ChildTypes'
    BY <1>2, <1>3, <2>1 DEF ChildrenInv, ChildTypes
  <2>3. LockHolders'
    BY <1>1, <1>2, <1>6, <2>1 DEF LockHolders
  <2>4. \A k \in Idling!Kinds : ~child'[k]
    BY <2>1
  <2> QED
    BY <1>4, <2>2, <2>3, <2>4 DEF ChildrenInv
<1>8. CASE Idling!ImporterFails
  <2>1. /\ child' = [child EXCEPT !["importer"] = FALSE] /\ failure' = TRUE
        /\ maintenance' \in {"sleep", "done"}
        /\ lock' = [l \in DOMAIN lock |-> IF l \in DOMAIN lock THEN None ELSE lock[l]]
    BY <1>8 DEF Idling!ImporterFails, Idling!release, Idling!sleeps
  <2>2. DOMAIN lock = {"mu", "gitMu", "readMu"}
    BY <1>1
  <2>3. lock' = [l \in {"mu", "gitMu", "readMu"} |-> lock'[l]]
    BY <2>1, <2>2
  <2>4. child' \in [Idling!Kinds -> BOOLEAN] /\ \A k \in Idling!Kinds : child'[k] => child[k]
    BY <2>1, ChildFacts
  <2>5. ChildTypes'
    BY <1>2, <1>3, <2>1, <2>3, <2>4 DEF ChildrenInv, ChildTypes
  <2>6. LockHolders'
    BY <1>2, <1>6, <2>1 DEF LockHolders
  <2>7. \A k \in Idling!Kinds : closed'[k] => ~child'[k]
    BY <1>2, <2>4 DEF ChildrenInv
  <2> QED
    BY <1>4, <2>1, <2>5, <2>6, <2>7 DEF ChildrenInv
<1> QED
  BY <1>7, <1>8

\* The steps that do not touch the children.
LEMMA WaitingSteps ==
    ASSUME ChildrenInv,
           \/ \E x \in Senders \cup Sessions : Idling!LockMu(x) \/ Idling!GivesUp(x)
           \/ \E c \in Senders : Idling!Publish(c) \/ Idling!ReceiptFails(c)
           \/ \E s \in Sessions : \E purpose \in Purposes[s] : Idling!Ask(s, purpose)
           \/ Idling!MaintenanceStops \/ Idling!Wake
           \/ Idling!Signal \/ Idling!MaintenanceDone
    PROVE  ChildrenInv'
<1> USE DEF Idling!store, Idling!upkeep, Idling!idling
<1>1. /\ lock = [l \in {"mu", "gitMu", "readMu"} |-> lock[l]]
      /\ pc = [x \in Senders \cup Sessions |-> pc[x]]
  BY ChildFacts
<1>2. UNCHANGED <<child, timer, callbacks, closer, closed>> /\ (failure' = failure \/ failure' = TRUE)
  BY DEF Idling!LockMu, Idling!GivesUp, Idling!Publish, Idling!ReceiptFails, Idling!Ask,
     Idling!MaintenanceStops, Idling!Wake, Idling!Signal, Idling!MaintenanceDone
<1>3. /\ lock' = [l \in {"mu", "gitMu", "readMu"} |-> lock'[l]]
      /\ lock'["gitMu"] = lock["gitMu"] /\ lock'["readMu"] = lock["readMu"]
  <2>1. lock' = lock \/ \E x \in Senders \cup Sessions : lock' = [lock EXCEPT !["mu"] = x]
    BY DEF Idling!LockMu, Idling!GivesUp, Idling!Publish, Idling!ReceiptFails, Idling!Ask, Idling!MaintenanceStops,
       Idling!Wake, Idling!Signal, Idling!MaintenanceDone
  <2> QED
    BY <1>1, <2>1
<1>4. pc' = pc \/ \E x \in Senders \cup Sessions, st \in {"quit", "idle", "waitGit", "waitMu", "list", "retr"} :
                     pc' = [pc EXCEPT ![x] = st]
  BY PurposesAssumption DEF Idling!LockMu, Idling!GivesUp, Idling!Publish, Idling!ReceiptFails, Idling!Ask,
     Idling!MaintenanceStops, Idling!Wake, Idling!Signal, Idling!MaintenanceDone
<1>5. /\ pc' = [x \in Senders \cup Sessions |-> pc'[x]]
      /\ \A x \in Senders \cup Sessions :
            pc'[x] = pc[x] \/ pc'[x] \notin {"commit", "listing", "opening", "resolving", "leased"}
  BY <1>1, <1>4
<1>6. maintenance' = maintenance \/ maintenance' \notin {"tryMu", "tryGit", "check", "gc"}
  BY DEF Idling!LockMu, Idling!GivesUp, Idling!Publish, Idling!ReceiptFails, Idling!Ask, Idling!MaintenanceStops,
     Idling!Wake, Idling!Signal, Idling!MaintenanceDone
<1> QED
  BY <1>2, <1>3, <1>5, <1>6, QuietSteps

\* The invariant is true at first, and every step keeps it.
LEMMA ChildrenAlways == Idling!Spec => []ChildrenInv
<1>1. Idling!Init => ChildrenInv
  <2> SUFFICES ASSUME Idling!Init PROVE ChildrenInv
    OBVIOUS
  <2> USE DEF Idling!Init
  <2>1. ChildTypes
    BY DEF ChildTypes, Idling!Actors
  <2>2. LockHolders
    BY DEF LockHolders, Idling!Actors
  <2>3. CallbacksKnow /\ \A k \in Idling!Kinds : ~child[k] /\ ~closed[k]
    BY DEF CallbacksKnow
  <2> QED
    BY <2>1, <2>2, <2>3 DEF ChildrenInv
<1>2. ChildrenInv /\ [Idling!Next]_Idling!vars => ChildrenInv'
  <2> SUFFICES ASSUME ChildrenInv, [Idling!Next]_Idling!vars PROVE ChildrenInv'
    OBVIOUS
  <2>1. CASE UNCHANGED Idling!vars
    <3>1. UNCHANGED <<lock, child, timer, callbacks, closer, pc, closed, failure, maintenance>>
      BY <2>1 DEF Idling!vars, Idling!store, Idling!upkeep, Idling!idling
    <3> QED
      BY <3>1, ChildFacts, QuietSteps
  <2>2. CASE Idling!Maintain
    BY <2>2, MaintenanceTries, MaintenanceCloses, WaitingSteps DEF Idling!Maintain
  <2>3. ASSUME NEW k \in Idling!Kinds,
               \/ Idling!Fire(k) \/ \E cb \in callbacks[k] : Idling!IdleCallback(k, cb)
               \/ Idling!IdleClosed(k) \/ Idling!Close(k)
        PROVE  ChildrenInv'
    BY <2>3, TimerFires, CallbackCloses, CallbackLate, CloseSteps
  <2>4. ASSUME NEW x \in Senders \cup Sessions, Idling!Acquire(x) \/ Idling!Work(x)
        PROVE  ChildrenInv'
    BY <2>4, WaitingSteps, ChildTaken, ChildRefused, ChildReturned DEF Idling!Acquire, Idling!Work
  <2>5. ASSUME NEW s \in Sessions, Idling!CloseLease(s) PROVE ChildrenInv'
    BY <2>5, ChildReturned
  <2> QED
    BY <2>1, <2>2, <2>3, <2>4, <2>5, WaitingSteps DEF Idling!Next, Idling!Actors
<1> QED
  BY <1>1, <1>2, PTL DEF Idling!Spec

\* No session or connection that is still served starts a child that Close has
\* dealt with (importerLocked, readerLocked).
THEOREM NoChildHolds == Idling!Spec => []NoChildAfterClose
<1>1. ChildrenInv => NoChildAfterClose
  BY DEF ChildrenInv, NoChildAfterClose, Idling!NoChildAfterClose
<1> QED
  BY <1>1, ChildrenAlways, PTL

\* An idle timer closes its child only if it has not been used since, and no
\* child that nobody uses is without one, however its last use ended
\* (armIdleLocked, armReadIdleLocked).
THEOREM IdleTimersHold == Idling!Spec => []IdleTimersWork
<1>1. ChildrenInv => IdleTimersWork
  BY DEF ChildrenInv, IdleTimersWork, Idling!IdleTimersWork, Idling!IdleChildEnds, CallbacksKnow,
     Unused, WillEnd, Idling!free
<1> QED
  BY <1>1, ChildrenAlways, PTL
=============================================================================
