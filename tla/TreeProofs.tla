----------------------------- MODULE TreeProofs -----------------------------
(***************************************************************************)
(* The state file against the tree it lies beside: for every tree of       *)
(* message files, the counts per directory are valid, sum up to the number *)
(* of files and stay right when a message is added or any set is removed;  *)
(* the index built from them lists the leaves in path order, and every     *)
(* message is found in the leaf its ID names.                              *)
(***************************************************************************)
EXTENDS MailboxProofs, SequenceTheorems

(***************************************************************************)
(* Counts.  The state file of a commit counts, for every directory, the    *)
(* files of the tree below it.                                             *)
(***************************************************************************)
leafOf(name) == Front(name.path)

\* The files below a directory, the directories of a tree, and the counts that
\* describe it.
under(tree, p) == {name \in tree : p \in ancestors(leafOf(name))}

directoriesOf(tree) == UNION {ancestors(leafOf(name)) : name \in tree}

countsOf(tree) == [p \in directoriesOf(tree) |-> Cardinality(under(tree, p))]

\* A directory is counted exactly when a file is below it.
LEMMA CountsFacts ==
    ASSUME NEW tree, IsFiniteSet(tree)
    PROVE  /\ DOMAIN countsOf(tree) = directoriesOf(tree)
           /\ \A p : p \in directoriesOf(tree) <=> under(tree, p) # {}
           /\ \A p : IsFiniteSet(under(tree, p)) /\ Cardinality(under(tree, p)) \in Nat
           /\ \A p : Cardinality(under(tree, p)) = 0 <=> under(tree, p) = {}
           /\ \A p \in directoriesOf(tree) : countsOf(tree)[p] = Cardinality(under(tree, p))
           /\ \A p : countOf(countsOf(tree), p) = Cardinality(under(tree, p))
<1>1. DOMAIN countsOf(tree) = directoriesOf(tree)
  BY DEF countsOf
<1>2. \A p : p \in directoriesOf(tree) <=> under(tree, p) # {}
  BY DEF directoriesOf, under
<1>3. ASSUME NEW p PROVE /\ IsFiniteSet(under(tree, p)) /\ Cardinality(under(tree, p)) \in Nat
                         /\ Cardinality(under(tree, p)) = 0 <=> under(tree, p) = {}
  <2>1. under(tree, p) \in SUBSET tree
    BY DEF under
  <2>2. IsFiniteSet(under(tree, p))
    BY <2>1, FS_Subset
  <2> QED
    BY <2>2, FS_CardinalityType, FS_EmptySet
<1>4. \A p \in directoriesOf(tree) : countsOf(tree)[p] = Cardinality(under(tree, p))
  BY DEF countsOf
<1>5. \A p : countOf(countsOf(tree), p) = Cardinality(under(tree, p))
  BY <1>1, <1>2, <1>3, <1>4 DEF countOf
<1> QED
  BY <1>1, <1>2, <1>3, <1>4, <1>5

\* directoryCounts.add counts one more file.
LEMMA CountsAdd ==
    ASSUME NEW tree, IsFiniteSet(tree), NEW name, name \notin tree
    PROVE  add(countsOf(tree), leafOf(name)) = countsOf(tree \cup {name})
<1> DEFINE more == tree \cup {name}
           a == ancestors(leafOf(name))
           c == countsOf(tree)
           f == add(c, leafOf(name))
           g == countsOf(more)
<1>1. IsFiniteSet(more)
  BY FS_AddElement
<1>2. \A p : under(more, p) = IF p \in a THEN under(tree, p) \cup {name} ELSE under(tree, p)
  BY DEF under
<1>3. \A p : Cardinality(under(more, p)) =
              Cardinality(under(tree, p)) + (IF p \in a THEN 1 ELSE 0)
  <2> TAKE p
  <2>1. IsFiniteSet(under(tree, p)) /\ Cardinality(under(tree, p)) \in Nat
    BY CountsFacts
  <2>2. name \notin under(tree, p)
    BY DEF under
  <2>3. Cardinality(under(tree, p) \cup {name}) = Cardinality(under(tree, p)) + 1
    BY <2>1, <2>2, FS_AddElement
  <2>4. CASE p \in a
    BY <1>2, <2>3, <2>4
  <2>5. CASE p \notin a
    <3> HIDE DEF a, more
    <3>1. under(more, p) = under(tree, p)
      BY <1>2, <2>5
    <3>2. Cardinality(under(more, p)) = Cardinality(under(tree, p))
      BY <3>1
    <3> QED
      BY <2>1, <2>5, <3>2
  <2> QED
    BY <2>4, <2>5
<1>4. directoriesOf(more) = directoriesOf(tree) \cup a
  BY DEF directoriesOf
<1>5. f = [p \in directoriesOf(more) |-> countOf(c, p) + (IF p \in a THEN 1 ELSE 0)]
  BY <1>4, CountsFacts DEF add
<1>6. \A p : countOf(c, p) + (IF p \in a THEN 1 ELSE 0) = Cardinality(under(more, p))
  BY <1>3, CountsFacts
<1>7. f = [p \in directoriesOf(more) |-> Cardinality(under(more, p))]
  <2> HIDE DEF f, a, c
  <2> QED
    BY <1>5, <1>6
<1> QED
  BY <1>7 DEF countsOf

\* directoryCounts.remove counts one file less, and drops the directories that
\* have become empty.
LEMMA CountsRemove ==
    ASSUME NEW tree, IsFiniteSet(tree), NEW name \in tree
    PROVE  remove(countsOf(tree), leafOf(name)) = countsOf(tree \ {name})
<1> DEFINE less == tree \ {name}
           a == ancestors(leafOf(name))
           c == countsOf(tree)
           f == remove(c, leafOf(name))
<1>1. IsFiniteSet(less)
  BY FS_RemoveElement
<1>2. \A p : under(less, p) = IF p \in a THEN under(tree, p) \ {name} ELSE under(tree, p)
  BY DEF under
<1>3. \A p : Cardinality(under(less, p)) =
              Cardinality(under(tree, p)) - (IF p \in a THEN 1 ELSE 0)
  <2> TAKE p
  <2>1. IsFiniteSet(under(tree, p)) /\ Cardinality(under(tree, p)) \in Nat
    BY CountsFacts
  <2>2. p \in a => name \in under(tree, p)
    BY DEF under
  <2>3. p \in a => Cardinality(under(tree, p) \ {name}) = Cardinality(under(tree, p)) - 1
    BY <2>1, <2>2, FS_RemoveElement
  <2>4. CASE p \in a
    BY <1>2, <2>3, <2>4
  <2>5. CASE p \notin a
    <3> HIDE DEF a, less
    <3>1. under(less, p) = under(tree, p)
      BY <1>2, <2>5
    <3>2. Cardinality(under(less, p)) = Cardinality(under(tree, p))
      BY <3>1
    <3> QED
      BY <2>1, <2>5, <3>2
  <2> QED
    BY <2>4, <2>5
<1>4. \A p \in directoriesOf(tree) : c[p] = Cardinality(under(tree, p)) /\ c[p] \in Nat
  BY CountsFacts
<1>5. {q \in DOMAIN c : ~(q \in a /\ c[q] = 1)} = directoriesOf(less)
  <2>1. DOMAIN c = directoriesOf(tree)
    BY CountsFacts
  <2>2. directoriesOf(less) \subseteq directoriesOf(tree)
    BY DEF directoriesOf
  <2>3. \A p : p \in directoriesOf(less) <=> Cardinality(under(less, p)) # 0
    BY <1>1, CountsFacts
  <2>4. \A p \in directoriesOf(tree) : Cardinality(under(tree, p)) # 0 /\ Cardinality(under(tree, p)) \in Nat
    BY CountsFacts
  <2>5. ASSUME NEW p \in directoriesOf(tree)
        PROVE  ~(p \in a /\ c[p] = 1) <=> p \in directoriesOf(less)
    <3> HIDE DEF a, c, less
    <3>1. p \in directoriesOf(less) <=> Cardinality(under(less, p)) # 0
      BY <2>3
    <3>2. Cardinality(under(less, p)) = c[p] - (IF p \in a THEN 1 ELSE 0)
      BY <1>3, <1>4
    <3>3. c[p] \in Nat /\ c[p] # 0
      BY <1>4, <2>4
    <3> QED
      BY <3>1, <3>2, <3>3
  <2> HIDE DEF a, c, less
  <2> QED
    BY <2>1, <2>2, <2>5
<1>6. f = [p \in directoriesOf(less) |-> c[p] - (IF p \in a THEN 1 ELSE 0)]
  BY <1>5 DEF remove
<1>7. \A p \in directoriesOf(less) : c[p] - (IF p \in a THEN 1 ELSE 0) = Cardinality(under(less, p))
  <2>1. directoriesOf(less) \subseteq directoriesOf(tree)
    BY DEF directoriesOf
  <2> HIDE DEF a, c, less
  <2> QED
    BY <1>3, <1>4, <2>1
<1>8. f = [p \in directoriesOf(less) |-> Cardinality(under(less, p))]
  <2> HIDE DEF f, a, c
  <2> QED
    BY <1>6, <1>7
<1> QED
  BY <1>8 DEF countsOf

-----------------------------------------------------------------------------
(* Trees. *)

\* The tree of a commit: files of messages, one for an ID.
messagesOf(tree) == {messageFromPath(name) : name \in tree}

IsTree(tree, lastID) ==
    /\ IsFiniteSet(tree)
    /\ \A name \in tree : \E id \in 1 .. lastID : \E size \in Nat : name = messagePath(id, size)
    /\ \A a, b \in tree : messageFromPath(a).ID = messageFromPath(b).ID => a = b

\* What is known of a file in a tree.
IsFile(name, lastID) ==
    /\ messageFromPath(name).ID \in 1 .. lastID
    /\ messageFromPath(name).Size \in Nat
    /\ name = messagePath(messageFromPath(name).ID, messageFromPath(name).Size)
    /\ leafOf(name) = leafDirectory[messageFromPath(name).ID]

\* The path of a message parses back, and lies in the message's leaf.
LEMMA FileFacts ==
    ASSUME NEW lastID \in 0 .. MaxID, NEW id \in 1 .. lastID, NEW size \in Nat
    PROVE  /\ IsFile(messagePath(id, size), lastID)
           /\ messageFromPath(messagePath(id, size)) = [ID |-> id, Size |-> size]
           /\ leafOf(messagePath(id, size)) = leafDirectory[id]
<1>1. id \in 1 .. MaxID
  BY MaxIDAssumption
<1>2. messageFromPath(messagePath(id, size)) = [ID |-> id, Size |-> size]
  BY <1>1, MessageInverse
<1>3. leafOf(messagePath(id, size)) = leafDirectory[id]
  BY <1>1 DEF leafOf, leafDirectory, messagePath
<1> QED
  BY <1>2, <1>3 DEF IsFile

\* Every name in a tree is the file of a message.
LEMMA TreeFacts ==
    ASSUME NEW lastID \in 0 .. MaxID, NEW tree, IsTree(tree, lastID), NEW name \in tree
    PROVE  IsFile(name, lastID)
<1>1. PICK id \in 1 .. lastID : \E size \in Nat : name = messagePath(id, size)
  BY DEF IsTree
<1>2. PICK size \in Nat : name = messagePath(id, size)
  BY <1>1
<1> QED
  BY <1>2, FileFacts

\* A part of a tree is a tree, and so is a tree with one more message.
LEMMA TreePart ==
    ASSUME NEW lastID, NEW tree, IsTree(tree, lastID), NEW part \in SUBSET tree
    PROVE  IsTree(part, lastID)
<1>1. IsFiniteSet(part)
  BY FS_Subset DEF IsTree
<1> QED
  BY <1>1 DEF IsTree

\* The message after the last ID is new, and the tree with it is a tree.
LEMMA TreeMore ==
    ASSUME NEW lastID \in 0 .. MaxID - 1, NEW tree, IsTree(tree, lastID), NEW size \in Nat
    PROVE  /\ messagePath(lastID + 1, size) \notin tree
           /\ IsTree(tree \cup {messagePath(lastID + 1, size)}, lastID + 1)
<1> DEFINE name == messagePath(lastID + 1, size)
           id == lastID + 1
<1>1. lastID \in 0 .. MaxID /\ id \in 0 .. MaxID /\ id \in 1 .. id /\ lastID \in Nat
  BY MaxIDAssumption
<1>2. messageFromPath(name).ID = id
  BY <1>1, FileFacts
<1>3. \A a \in tree : messageFromPath(a).ID \in 1 .. lastID
  BY <1>1, TreeFacts DEF IsFile
<1>4. \A a \in tree : messageFromPath(a).ID # id
  BY <1>1, <1>3
<1>5. IsFiniteSet(tree \cup {name})
  BY FS_AddElement DEF IsTree
<1>6. \A a \in tree \cup {name} : \E i \in 1 .. id : \E n \in Nat : a = messagePath(i, n)
  <2>1. \A i \in 1 .. lastID : i \in 1 .. id
    BY <1>1
  <2> QED
    BY <1>1, <2>1 DEF IsTree
<1>7. \A a, b \in tree \cup {name} : messageFromPath(a).ID = messageFromPath(b).ID => a = b
  <2> HIDE DEF name, id
  <2> QED
    BY <1>2, <1>4 DEF IsTree
<1>8. IsTree(tree \cup {name}, id)
  BY <1>5, <1>6, <1>7 DEF IsTree
<1> QED
  BY <1>2, <1>4, <1>8

\* Files and messages of a tree are one to one.
LEMMA FilesAndMessages ==
    ASSUME NEW lastID \in 0 .. MaxID, NEW tree, IsTree(tree, lastID), NEW part \in SUBSET tree
    PROVE  /\ pathsOf(messagesOf(part)) = part
           /\ IsFiniteSet(messagesOf(part))
           /\ Cardinality(messagesOf(part)) = Cardinality(part)
           /\ messagesOf(part) \subseteq messagesOf(tree)
<1>1. \A name \in part : IsFile(name, lastID)
  BY TreeFacts
<1>2. pathsOf(messagesOf(part)) = part
  BY <1>1 DEF pathsOf, messagesOf, IsFile
<1> DEFINE f == [name \in part |-> messageFromPath(name)]
           M == messagesOf(part)
<1>3. f \in Bijection(part, M)
  <2>1. f \in [part -> M] /\ \A m \in M : \E name \in part : f[name] = m
    BY DEF messagesOf
  <2>2. \A a, b \in part : f[a] = f[b] => a = b
    BY DEF IsTree
  <2> HIDE DEF f, M
  <2> QED
    BY <2>1, <2>2 DEF Bijection, Injection, Surjection, IsInjective
<1>4. IsFiniteSet(part)
  BY FS_Subset DEF IsTree
<1>5. IsFiniteSet(M) /\ Cardinality(M) = Cardinality(part)
  <2>1. ExistsBijection(part, M)
    BY <1>3 DEF ExistsBijection
  <2> HIDE DEF M
  <2> QED
    BY <1>4, <2>1, FS_Bijection
<1> QED
  BY <1>2, <1>5 DEF messagesOf

-----------------------------------------------------------------------------
(* Removal and octets. *)

\* removeAll as a function on the subsets of the messages.
RemoveSteps(p, counts, M) ==
    \A s \in SUBSET M :
        p[s] = IF s = {} THEN counts ELSE remove(p[s \ {some(s)}], leafDirectory[some(s).ID])

RemoveRecursive(p, counts, M) ==
    p = [s \in SUBSET M |->
            IF s = {} THEN counts ELSE remove(p[s \ {some(s)}], leafDirectory[some(s).ID])]

\* There is only one such function.
LEMMA RemoveUnique ==
    ASSUME NEW M, IsFiniteSet(M), NEW counts,
           NEW p, RemoveSteps(p, counts, M), NEW q, RemoveSteps(q, counts, M)
    PROVE  p[M] = q[M]
<1> DEFINE F == {s \in SUBSET M : p[s] # q[s]}
<1> SUFFICES ASSUME F # {} PROVE FALSE
  OBVIOUS
<1>1. F \subseteq FiniteSubsetsOf(M)
  BY FS_Subset DEF FiniteSubsetsOf
<1>2. PICK s \in F : \A t \in F : t \subseteq s => t = s
  <2> HIDE DEF F
  <2> QED
    BY <1>1, MinimalSubset
<1>3. s \in SUBSET M /\ p[s] # q[s] /\ s # {}
  BY DEF RemoveSteps
<1>4. some(s) \in s
  BY <1>3, SomeIsElement
<1>5. s \ {some(s)} \notin F
  BY <1>2, <1>4
<1>6. p[s \ {some(s)}] = q[s \ {some(s)}]
  BY <1>3, <1>5
<1> HIDE DEF F
<1> QED
  BY <1>3, <1>6 DEF RemoveSteps

\* deleteLocked's loop over the messages, in whatever order, leaves the counts
\* of the tree without their files.
LEMMA RemoveAllCounts ==
    ASSUME NEW lastID \in 0 .. MaxID, NEW tree, IsTree(tree, lastID), NEW part \in SUBSET tree
    PROVE  removeAll(countsOf(tree), messagesOf(part)) = countsOf(tree \ part)
<1> DEFINE M == messagesOf(part)
           counts == countsOf(tree)
           f == [s \in SUBSET M |-> countsOf(tree \ pathsOf(s))]
<1>1. IsFiniteSet(M) /\ pathsOf(M) = part
  BY FilesAndMessages
<1>2. ASSUME NEW m \in M
      PROVE  /\ messagePath(m.ID, m.Size) \in part
             /\ leafOf(messagePath(m.ID, m.Size)) = leafDirectory[m.ID]
             /\ messageFromPath(messagePath(m.ID, m.Size)) = m
  <2>1. PICK name \in part : m = messageFromPath(name)
    BY DEF messagesOf
  <2>2. IsFile(name, lastID)
    BY TreeFacts
  <2> QED
    BY <2>1, <2>2 DEF IsFile
<1>3. RemoveSteps(f, counts, M)
  <2> SUFFICES ASSUME NEW s \in SUBSET M
               PROVE  f[s] = IF s = {} THEN counts
                             ELSE remove(f[s \ {some(s)}], leafDirectory[some(s).ID])
    BY DEF RemoveSteps
  <2>1. CASE s = {}
    <3>1. tree \ pathsOf(s) = tree
      BY <2>1 DEF pathsOf
    <3> QED
      BY <2>1, <3>1
  <2>2. CASE s # {}
    <3> DEFINE m == some(s)
               r == s \ {m}
               name == messagePath(m.ID, m.Size)
               rest == tree \ pathsOf(r)
    <3>1. m \in s /\ m \in M /\ r \in SUBSET M
      BY <2>2, SomeIsElement
    <3>2. name \in part /\ leafOf(name) = leafDirectory[m.ID]
      BY <1>2, <3>1
    <3>3. name \notin pathsOf(r)
      <4> SUFFICES ASSUME NEW k \in r, name = messagePath(k.ID, k.Size) PROVE FALSE
        BY DEF pathsOf
      <4>1. messageFromPath(name) = m /\ messageFromPath(name) = k
        BY <1>2, <3>1
      <4> QED
        BY <4>1
    <3>4. pathsOf(s) = pathsOf(r) \cup {name}
      BY <3>1 DEF pathsOf
    <3>5. IsFiniteSet(rest) /\ name \in rest
      <4>1. IsFiniteSet(rest)
        BY FS_Subset DEF IsTree
      <4> QED
        BY <3>2, <3>3, <4>1
    <3>6. remove(countsOf(rest), leafOf(name)) = countsOf(rest \ {name})
      <4> HIDE DEF rest, name
      <4> QED
        BY <3>5, CountsRemove
    <3>7. rest \ {name} = tree \ pathsOf(s)
      BY <3>4
    <3>8. f[r] = countsOf(rest) /\ f[s] = countsOf(tree \ pathsOf(s))
      BY <3>1
    <3> QED
      BY <2>2, <3>2, <3>6, <3>7, <3>8
  <2> QED
    BY <2>1, <2>2
<1>4. f = [s \in SUBSET M |-> f[s]]
  OBVIOUS
<1>5. f[M] = countsOf(tree \ part)
  BY <1>1
<1> HIDE DEF f, M, counts
<1>6. RemoveRecursive(f, counts, M)
  BY <1>3, <1>4 DEF RemoveRecursive, RemoveSteps
<1> DEFINE q == CHOOSE q : RemoveRecursive(q, counts, M)
<1>7. RemoveRecursive(q, counts, M)
  BY <1>6
<1>8. removeAll(counts, M) = q[M]
  BY DEF removeAll, FoldSet, MapThenFoldSet, RemoveRecursive, some
<1> HIDE DEF q
<1>9. RemoveSteps(q, counts, M)
  BY <1>7 DEF RemoveRecursive, RemoveSteps
<1>10. q[M] = f[M]
  BY <1>1, <1>3, <1>9, RemoveUnique
<1> QED
  BY <1>5, <1>8, <1>10 DEF M, counts

(***************************************************************************)
(* Octets.                                                                 *)
(***************************************************************************)
OctetsRecursive(p, M) ==
    p = [s \in SUBSET M |-> IF s = {} THEN 0 ELSE some(s).Size + p[s \ {some(s)}]]

\* Finitely many messages, each with a size.
HaveSizes(M) == IsFiniteSet(M) /\ \A m \in M : m.Size \in Nat

\* octetsOf adds up the sizes,
LEMMA OctetsIsSum ==
    ASSUME NEW U, HaveSizes(U), NEW M \in SUBSET U
    PROVE  octetsOf(M) = SumFunctionOnSet([m \in U |-> m.Size], M)
<1> DEFINE w == [m \in U |-> m.Size]
<1>1. IsFiniteSet(M) /\ \A m \in M : w[m] = m.Size /\ w[m] \in Nat
  BY FS_Subset DEF HaveSizes
<1>2. PICK p \in [SUBSET M -> Nat] : SumRecursive(p, w, M)
  <2> HIDE DEF w
  <2> QED
    BY <1>1, SumExists
<1>3. ASSUME NEW f
      PROVE  [s \in SUBSET M |-> IF s = {} THEN 0 ELSE some(s).Size + f[s \ {some(s)}]]
              = [s \in SUBSET M |-> IF s = {} THEN 0 ELSE w[some(s)] + f[s \ {some(s)}]]
  <2>1. \A s \in SUBSET M : s # {} => w[some(s)] = some(s).Size
    BY <1>1, SomeIsElement
  <2> HIDE DEF w
  <2> QED
    BY <2>1
<1>4. ASSUME NEW f PROVE OctetsRecursive(f, M) <=> SumRecursive(f, w, M)
  BY <1>3 DEF OctetsRecursive, SumRecursive
<1> DEFINE q == CHOOSE q : OctetsRecursive(q, M)
<1> HIDE DEF w
<1>5. OctetsRecursive(q, M)
  BY <1>2, <1>4
<1>6. octetsOf(M) = q[M]
  BY DEF octetsOf, MapThenSumSet, MapThenFoldSet, OctetsRecursive, some
<1> HIDE DEF q
<1>7. SumSteps(q, w, M)
  BY <1>4, <1>5 DEF SumRecursive, SumSteps
<1>8. PICK r \in [SUBSET M -> Nat] : SumSteps(r, w, M) /\ SumFunctionOnSet(w, M) = r[M]
  BY <1>1, SumIsFold
<1>9. q[M] = r[M]
  BY <1>1, <1>7, <1>8, SumUnique
<1> QED
  BY <1>6, <1>8, <1>9 DEF w

\* one message at a time, in any order.
LEMMA OctetsFacts ==
    ASSUME NEW M, HaveSizes(M)
    PROVE  /\ octetsOf(M) \in Nat
           /\ M = {} => octetsOf(M) = 0
           /\ \A m \in M : octetsOf(M) = m.Size + octetsOf(M \ {m})
<1> DEFINE w == [m \in M |-> m.Size]
<1>1. IsFiniteSet(M) /\ \A m \in M : w[m] = m.Size /\ w[m] \in Nat
  BY DEF HaveSizes
<1>2. octetsOf(M) = SumFunctionOnSet(w, M)
  BY OctetsIsSum
<1>3. \A m \in M : octetsOf(M \ {m}) = SumFunctionOnSet(w, M \ {m})
  BY OctetsIsSum
<1> HIDE DEF w
<1>4. /\ SumFunctionOnSet(w, M) \in Nat
      /\ M = {} => SumFunctionOnSet(w, M) = 0
      /\ \A x \in M : SumFunctionOnSet(w, M) = w[x] + SumFunctionOnSet(w, M \ {x})
  BY <1>1, SumFacts
<1> QED
  BY <1>1, <1>2, <1>3, <1>4

\* What is taken away and what is left add up.
LEMMA OctetsDifference ==
    ASSUME NEW M, HaveSizes(M), NEW T \in SUBSET M
    PROVE  octetsOf(T) \in Nat /\ octetsOf(M \ T) = octetsOf(M) - octetsOf(T)
           /\ octetsOf(T) <= octetsOf(M)
<1> DEFINE F == {t \in SUBSET T : octetsOf(M \ t) + octetsOf(t) = octetsOf(M)}
<1>1. \A t \in SUBSET M : HaveSizes(t) /\ HaveSizes(M \ t)
  <2> SUFFICES ASSUME NEW t \in SUBSET M PROVE HaveSizes(t) /\ HaveSizes(M \ t)
    OBVIOUS
  <2>1. IsFiniteSet(t) /\ IsFiniteSet(M \ t)
    BY FS_Subset DEF HaveSizes
  <2> QED
    BY <2>1 DEF HaveSizes
<1>2. \A t \in SUBSET M : octetsOf(t) \in Nat /\ octetsOf(M \ t) \in Nat
  BY <1>1, OctetsFacts
<1>3. {} \in F
  <2>1. octetsOf({}) = 0 /\ M \ {} = M
    BY <1>1, OctetsFacts
  <2>2. octetsOf(M) \in Nat
    BY OctetsFacts
  <2> QED
    BY <2>1, <2>2
<1>4. ASSUME NEW t \in SUBSET T, NEW x \in T \ t, t \in F PROVE t \cup {x} \in F
  <2> DEFINE a == M \ t
             u == t \cup {x}
             b == M \ u
  <2>1. x \in a /\ a \ {x} = b /\ x \in u /\ u \ {x} = t
    OBVIOUS
  <2>2. octetsOf(a) = x.Size + octetsOf(b) /\ octetsOf(u) = x.Size + octetsOf(t)
    <3>1. HaveSizes(a) /\ HaveSizes(u)
      BY <1>1
    <3>2. octetsOf(a) = x.Size + octetsOf(a \ {x})
      <4> HIDE DEF a
      <4> QED
        BY <2>1, <3>1, OctetsFacts
    <3>3. octetsOf(u) = x.Size + octetsOf(u \ {x})
      <4> HIDE DEF u
      <4> QED
        BY <2>1, <3>1, OctetsFacts
    <3> QED
      BY <2>1, <3>2, <3>3
  <2>3. /\ octetsOf(a) \in Nat /\ octetsOf(b) \in Nat /\ octetsOf(t) \in Nat
        /\ octetsOf(u) \in Nat /\ x.Size \in Nat
    BY <1>2 DEF HaveSizes
  <2>4. octetsOf(a) + octetsOf(t) = octetsOf(M)
    BY <1>4
  <2>5. octetsOf(b) + octetsOf(u) = octetsOf(M)
    <3> HIDE DEF a, b, u
    <3> QED
      BY <2>2, <2>3, <2>4
  <2> QED
    BY <2>5
<1>5. T \in F
  <2>1. IsFiniteSet(T)
    BY FS_Subset DEF HaveSizes
  <2> HIDE DEF F
  <2> QED
    BY <1>3, <1>4, <2>1, FiniteInduction
<1>6. octetsOf(M \ T) + octetsOf(T) = octetsOf(M) /\ octetsOf(T) \in Nat /\ octetsOf(M \ T) \in Nat
  BY <1>2, <1>5
<1> QED
  BY <1>6

(***************************************************************************)
(* Sorting.                                                                *)
(***************************************************************************)
IsOrder(R, S) ==
    /\ \A x \in S : <<x, x>> \notin R
    /\ \A x, y, z \in S : <<x, y>> \in R /\ <<y, z>> \in R => <<x, z>> \in R
    /\ \A x, y \in S : x # y => <<x, y>> \in R \/ <<y, x>> \in R

\* The elements below one: its place in the sorted sequence.
below(R, S, x) == {y \in S : <<y, x>> \in R}

\* q lists the elements of S in the order R.
IsSorting(q, S, R) ==
    /\ q = [i \in 1 .. Cardinality(S) |-> q[i]]
    /\ \A i \in 1 .. Cardinality(S) : q[i] \in S
    /\ \A x \in S : \E i \in 1 .. Cardinality(S) : q[i] = x
    /\ \A i, j \in 1 .. Cardinality(S) : i < j => <<q[i], q[j]>> \in R

\* The place of an element is the number of elements before it.
LEMMA RankFacts ==
    ASSUME NEW S, IsFiniteSet(S), NEW R, IsOrder(R, S)
    PROVE  /\ Cardinality(S) \in Nat
           /\ \A x \in S : Cardinality(below(R, S, x)) \in 0 .. Cardinality(S) - 1
           /\ \A x, y \in S : <<y, x>> \in R =>
                  Cardinality(below(R, S, y)) < Cardinality(below(R, S, x))
           /\ \A i \in 1 .. Cardinality(S) :
                  \E x \in S : Cardinality(below(R, S, x)) = i - 1
<1> DEFINE n == Cardinality(S)
           rank(x) == Cardinality(below(R, S, x))
<1>1. \A x \in S : below(R, S, x) \in SUBSET S /\ x \notin below(R, S, x)
  BY DEF below, IsOrder
<1>2. \A x \in S : IsFiniteSet(below(R, S, x)) /\ rank(x) \in Nat
  BY <1>1, FS_Subset, FS_CardinalityType
<1>3. n \in Nat
  BY FS_CardinalityType
<1>4. \A x \in S : rank(x) \in 0 .. n - 1
  <2> SUFFICES ASSUME NEW x \in S PROVE rank(x) \in 0 .. n - 1
    OBVIOUS
  <2>1. rank(x) <= n /\ rank(x) # n
    <3> DEFINE T == below(R, S, x)
    <3>1. T \in SUBSET S /\ T # S
      BY <1>1
    <3> HIDE DEF T
    <3>2. Cardinality(T) <= n /\ Cardinality(T) # n
      BY <3>1, FS_Subset
    <3> QED
      BY <3>2 DEF T
  <2> QED
    BY <1>2, <1>3, <2>1
<1>5. \A x, y \in S : <<y, x>> \in R => rank(y) < rank(x)
  <2> SUFFICES ASSUME NEW x \in S, NEW y \in S, <<y, x>> \in R PROVE rank(y) < rank(x)
    OBVIOUS
  <2> DEFINE A == below(R, S, y)
             B == below(R, S, x)
  <2>1. A \in SUBSET B /\ A # B /\ IsFiniteSet(B)
    <3>1. A \subseteq B
      BY DEF below, IsOrder
    <3>2. y \in B /\ y \notin A
      BY <1>1 DEF below
    <3> QED
      BY <1>2, <3>1, <3>2
  <2>2. rank(x) \in Nat /\ rank(y) \in Nat
    BY <1>2
  <2>3. rank(x) = Cardinality(B) /\ rank(y) = Cardinality(A)
    OBVIOUS
  <2> HIDE DEF A, B, rank
  <2>4. Cardinality(A) <= Cardinality(B) /\ Cardinality(A) # Cardinality(B)
    BY <2>1, FS_Subset
  <2> QED
    BY <2>2, <2>3, <2>4
<1>6. \A x, y \in S : rank(x) = rank(y) => x = y
  <2> SUFFICES ASSUME NEW x \in S, NEW y \in S, rank(x) = rank(y), x # y PROVE FALSE
    OBVIOUS
  <2>1. <<x, y>> \in R \/ <<y, x>> \in R
    BY DEF IsOrder
  <2>2. rank(x) \in Nat /\ rank(y) \in Nat
    BY <1>2
  <2> HIDE DEF rank
  <2>3. rank(x) < rank(y) \/ rank(y) < rank(x)
    BY <1>5, <2>1
  <2> QED
    BY <2>2, <2>3
<1> DEFINE T == 1 .. n
           f == [x \in S |-> rank(x) + 1]
<1>7. IsFiniteSet(T) /\ Cardinality(T) = n
  BY <1>3, FS_Interval
<1>8. f \in Injection(S, T)
  <2>1. f \in [S -> T]
    BY <1>3, <1>4
  <2>2. \A x, y \in S : f[x] = f[y] => x = y
    <3> SUFFICES ASSUME NEW x \in S, NEW y \in S, f[x] = f[y] PROVE x = y
      OBVIOUS
    <3>1. rank(x) + 1 = rank(y) + 1 /\ rank(x) \in Nat /\ rank(y) \in Nat
      BY <1>2
    <3> HIDE DEF rank
    <3> QED
      BY <1>6, <3>1
  <2> HIDE DEF f, T
  <2> QED
    BY <2>1, <2>2 DEF Injection, IsInjective
<1>9. f \in Surjection(S, T)
  <2> HIDE DEF f, T
  <2> QED
    BY <1>7, <1>8, FS_Injection
<1>10. ASSUME NEW i \in 1 .. n PROVE \E x \in S : rank(x) = i - 1
  <2>1. PICK x \in S : f[x] = i
    <3> HIDE DEF f
    <3> QED
      BY <1>9 DEF Surjection
  <2>2. rank(x) + 1 = i /\ rank(x) \in Nat
    BY <1>2, <2>1
  <2>3. rank(x) = i - 1
    <3> HIDE DEF rank
    <3> QED
      BY <2>2
  <2> QED
    BY <2>3
<1> QED
  BY <1>3, <1>4, <1>5, <1>10

\* A sorting by an order has every element once, each behind those below it.
LEMMA SortingFacts ==
    ASSUME NEW S, IsFiniteSet(S), NEW R, IsOrder(R, S), NEW q,
           q = [i \in 1 .. Cardinality(S) |->
                   CHOOSE x \in S : Cardinality(below(R, S, x)) = i - 1]
    PROVE  IsSorting(q, S, R)
<1> DEFINE n == Cardinality(S)
           rank(x) == Cardinality(below(R, S, x))
<1>1. /\ n \in Nat
      /\ \A x \in S : rank(x) \in 0 .. n - 1
      /\ \A x, y \in S : <<y, x>> \in R => rank(y) < rank(x)
      /\ \A i \in 1 .. n : \E x \in S : rank(x) = i - 1
  BY RankFacts
<1>2. \A i \in 1 .. n : q[i] \in S /\ rank(q[i]) = i - 1
  <2> HIDE DEF rank
  <2> SUFFICES ASSUME NEW i \in 1 .. n PROVE q[i] \in S /\ rank(q[i]) = i - 1
    OBVIOUS
  <2>1. q[i] = CHOOSE x \in S : rank(x) = i - 1
    BY DEF rank
  <2> QED
    BY <1>1, <2>1
<1>3. \A x, y \in S : rank(x) = rank(y) => x = y
  <2> SUFFICES ASSUME NEW x \in S, NEW y \in S, rank(x) = rank(y), x # y PROVE FALSE
    OBVIOUS
  <2>1. <<x, y>> \in R \/ <<y, x>> \in R
    BY DEF IsOrder
  <2>2. rank(x) \in Nat /\ rank(y) \in Nat
    BY <1>1
  <2> HIDE DEF rank
  <2>3. rank(x) < rank(y) \/ rank(y) < rank(x)
    BY <1>1, <2>1
  <2> QED
    BY <2>2, <2>3
<1>4. \A x \in S : \E i \in 1 .. n : q[i] = x
  <2> SUFFICES ASSUME NEW x \in S PROVE \E i \in 1 .. n : q[i] = x
    OBVIOUS
  <2> HIDE DEF rank
  <2>1. rank(x) + 1 \in 1 .. n /\ (rank(x) + 1) - 1 = rank(x)
    BY <1>1
  <2> QED
    BY <1>2, <1>3, <2>1
<1>5. \A i, j \in 1 .. n : i < j => <<q[i], q[j]>> \in R
  <2> SUFFICES ASSUME NEW i \in 1 .. n, NEW j \in 1 .. n, i < j PROVE <<q[i], q[j]>> \in R
    OBVIOUS
  <2> HIDE DEF rank
  <2>1. q[i] \in S /\ q[j] \in S /\ rank(q[i]) < rank(q[j])
    BY <1>1, <1>2
  <2>2. rank(q[i]) \in Nat /\ rank(q[j]) \in Nat
    BY <1>1, <2>1
  <2>3. q[i] # q[j]
    <3> SUFFICES ASSUME q[i] = q[j] PROVE FALSE
      OBVIOUS
    <3>1. rank(q[i]) = rank(q[j])
      BY Zenon
    <3> QED
      BY <2>1, <2>2, <3>1
  <2>4. ~(rank(q[j]) < rank(q[i]))
    BY <2>1, <2>2
  <2>5. <<q[j], q[i]>> \notin R
    BY <1>1, <2>1, <2>4
  <2> QED
    BY <2>1, <2>3, <2>5 DEF IsOrder
<1> QED
  BY <1>2, <1>4, <1>5 DEF IsSorting

(***************************************************************************)
(* The order of the paths.                                                 *)
(***************************************************************************)
\* The component at a place of a path, and a number below all of them after
\* its end: string order is then the order of the first difference.
component(p, i) == IF i <= Len(p) THEN p[i] ELSE -1

\* Two paths agree up to component i and differ there.
differAt(p, q, i) ==
    /\ component(p, i) < component(q, i)
    /\ \A j \in 1 .. i - 1 : component(p, j) = component(q, j)

\* Components are numbers; the one behind the last is less than all of them.
LEMMA ComponentType ==
    ASSUME NEW p \in Seq(Nat), NEW i \in Nat \ {0}
    PROVE  component(p, i) \in Int /\ component(p, i) >= -1
                /\ (component(p, i) = -1 <=> i > Len(p))
<1>1. i <= Len(p) => p[i] \in Nat
  OBVIOUS
<1>2. Len(p) \in Nat
  OBVIOUS
<1>3. CASE i <= Len(p)
  BY <1>1, <1>2, <1>3 DEF component
<1>4. CASE ~(i <= Len(p))
  BY <1>2, <1>4 DEF component
<1> QED
  BY <1>3, <1>4

\* pathLess is decided where two paths first differ.
LEMMA PathLessIsFirstDifference ==
    ASSUME NEW p \in Seq(Nat), NEW q \in Seq(Nat)
    PROVE  pathLess(p, q) <=> \E i \in Nat \ {0} : differAt(p, q, i)
<1> DEFINE m == Len(p)
           n == Len(q)
<1>1. m \in Nat /\ n \in Nat
  OBVIOUS
<1>2. ASSUME NEW i \in 1 .. m, i <= n, p[i] < q[i], \A j \in 1 .. i - 1 : p[j] = q[j]
      PROVE  i \in Nat \ {0} /\ differAt(p, q, i)
  <2>1. i \in Nat \ {0}
    BY <1>1
  <2>2. component(p, i) = p[i] /\ component(q, i) = q[i]
    BY <1>1, <1>2 DEF component
  <2>3. \A j \in 1 .. i - 1 : component(p, j) = p[j] /\ component(q, j) = q[j]
    BY <1>1, <1>2 DEF component
  <2> QED
    BY <1>2, <2>1, <2>2, <2>3 DEF differAt
<1>3. ASSUME m < n, SubSeq(q, 1, m) = p
      PROVE  m + 1 \in Nat \ {0} /\ differAt(p, q, m + 1)
  <2>1. \A j \in 1 .. m : p[j] = q[j]
    BY <1>1, <1>3, SubSeqProperties
  <2>2. \A j \in 1 .. (m + 1) - 1 : component(p, j) = component(q, j)
    BY <1>1, <1>3, <2>1 DEF component
  <2>3. component(p, m + 1) = -1
    BY <1>1 DEF component
  <2>4. component(q, m + 1) = q[m + 1] /\ q[m + 1] \in Nat
    BY <1>1, <1>3 DEF component
  <2> QED
    BY <1>1, <2>2, <2>3, <2>4 DEF differAt
<1>4. ASSUME NEW i \in Nat \ {0}, differAt(p, q, i)
      PROVE  pathLess(p, q)
  <2>1. component(p, i) \in Int /\ component(q, i) \in Int /\ component(p, i) >= -1
        /\ component(p, i) < component(q, i)
    BY <1>4, ComponentType DEF differAt
  <2>2. i <= n
    BY <1>1, <2>1 DEF component
  <2>3. \A j \in 1 .. i - 1 : component(q, j) \in Nat /\ component(q, j) = q[j]
    <3> SUFFICES ASSUME NEW j \in 1 .. i - 1 PROVE component(q, j) \in Nat /\ component(q, j) = q[j]
      OBVIOUS
    <3>1. j <= n /\ j \in 1 .. n
      BY <1>1, <2>2
    <3> QED
      BY <3>1 DEF component
  <2>4. \A j \in 1 .. i - 1 : j <= m /\ p[j] = q[j]
    <3> SUFFICES ASSUME NEW j \in 1 .. i - 1 PROVE j <= m /\ p[j] = q[j]
      OBVIOUS
    <3>1. component(p, j) = component(q, j) /\ component(q, j) \in Nat /\ component(q, j) = q[j]
      BY <1>4, <2>3 DEF differAt
    <3>2. j <= m
      BY <1>1, <3>1 DEF component
    <3> QED
      BY <3>1, <3>2 DEF component
  <2>5. CASE i <= m
    <3>1. p[i] < q[i]
      BY <2>1, <2>2, <2>5 DEF component
    <3>2. i \in 1 .. m
      BY <1>1, <2>5
    <3> QED
      BY <2>2, <2>4, <3>1, <3>2 DEF pathLess
  <2>6. CASE ~(i <= m)
    <3>1. m = i - 1
      <4>1. i - 1 = 0 \/ i - 1 \in 1 .. i - 1
        OBVIOUS
      <4>2. i - 1 <= m
        BY <1>1, <2>4, <4>1
      <4> QED
        BY <1>1, <2>6, <4>2
    <3>2. m < n
      BY <1>1, <2>2, <3>1
    <3>3. SubSeq(q, 1, m) = p
      <4> DEFINE r == SubSeq(q, 1, m)
      <4>1. r \in Seq(Nat) /\ Len(r) = m /\ \A j \in 1 .. m : r[j] = q[j]
        BY <1>1, <3>2, SubSeqProperties
      <4> HIDE DEF r
      <4>2. \A j \in 1 .. m : r[j] = p[j]
        BY <2>4, <3>1, <4>1
      <4>3. r = p
        BY <4>1, <4>2, SeqEqual
      <4> QED
        BY <4>3 DEF r
    <3> QED
      BY <3>2, <3>3 DEF pathLess
  <2> QED
    BY <2>5, <2>6
<1>5. ASSUME pathLess(p, q) PROVE \E i \in Nat \ {0} : differAt(p, q, i)
  <2>1. CASE \E i \in 1 .. m : i <= n /\ p[i] < q[i] /\ \A j \in 1 .. i - 1 : p[j] = q[j]
    BY <1>2, <2>1
  <2>2. CASE m < n /\ SubSeq(q, 1, m) = p
    BY <1>3, <2>2
  <2> QED
    BY <1>5, <2>1, <2>2 DEF pathLess
<1> QED
  BY <1>4, <1>5

\* pathLess and byID as relations on a set.
pathOrder(S) == {e \in S \X S : pathLess(e[1], e[2])}

\* The string order of paths is a total order.
LEMMA PathOrder ==
    ASSUME NEW S \in SUBSET Seq(Nat)
    PROVE  IsOrder(pathOrder(S), S)
<1>1. ASSUME NEW p \in Seq(Nat) PROVE ~pathLess(p, p)
  <2>1. ASSUME NEW i \in Nat \ {0} PROVE ~differAt(p, p, i)
    BY ComponentType DEF differAt
  <2> QED
    BY <2>1, PathLessIsFirstDifference
<1>2. ASSUME NEW p \in Seq(Nat), NEW q \in Seq(Nat), NEW r \in Seq(Nat),
             pathLess(p, q), pathLess(q, r)
      PROVE  pathLess(p, r)
  <2>1. PICK i \in Nat \ {0} : differAt(p, q, i)
    BY <1>2, PathLessIsFirstDifference
  <2>2. PICK k \in Nat \ {0} : differAt(q, r, k)
    BY <1>2, PathLessIsFirstDifference
  <2> DEFINE l == IF i <= k THEN i ELSE k
  <2>3. l \in Nat \ {0} /\ l <= i /\ l <= k /\ (l = i \/ l = k)
    OBVIOUS
  <2>4. component(p, l) \in Int /\ component(q, l) \in Int /\ component(r, l) \in Int
    BY <2>3, ComponentType
  <2> HIDE DEF l
  <2>5. \A j \in 1 .. l - 1 : j \in 1 .. i - 1 /\ j \in 1 .. k - 1
    BY <2>3
  <2>6. \A j \in 1 .. l - 1 : component(p, j) = component(r, j)
    BY <2>1, <2>2, <2>5 DEF differAt
  <2>7. component(p, l) = component(q, l) \/ component(p, l) < component(q, l)
    <3>1. l \in 1 .. i - 1 \/ l = i
      BY <2>3
    <3> QED
      BY <2>1, <3>1 DEF differAt
  <2>8. component(q, l) = component(r, l) \/ component(q, l) < component(r, l)
    <3>1. l \in 1 .. k - 1 \/ l = k
      BY <2>3
    <3> QED
      BY <2>2, <3>1 DEF differAt
  <2>9. component(p, l) < component(q, l) \/ component(q, l) < component(r, l)
    BY <2>1, <2>2, <2>3 DEF differAt
  <2>10. component(p, l) < component(r, l)
    BY <2>4, <2>7, <2>8, <2>9
  <2>11. differAt(p, r, l)
    BY <2>6, <2>10 DEF differAt
  <2> QED
    BY <2>3, <2>11, PathLessIsFirstDifference
<1>3. ASSUME NEW p \in Seq(Nat), NEW q \in Seq(Nat), p # q
      PROVE  pathLess(p, q) \/ pathLess(q, p)
  <2> DEFINE T == {i \in Nat \ {0} : component(p, i) # component(q, i)}
  <2>1. T # {}
    <3> SUFFICES ASSUME \A i \in Nat \ {0} : component(p, i) = component(q, i) PROVE FALSE
      OBVIOUS
    <3>1. Len(p) \in Nat /\ Len(q) \in Nat
      OBVIOUS
    <3>2. \A i \in Nat \ {0} : i > Len(p) <=> i > Len(q)
      BY ComponentType
    <3>3. Len(p) = Len(q)
      <4>1. Len(p) + 1 \in Nat \ {0} /\ Len(q) + 1 \in Nat \ {0}
        BY <3>1
      <4> QED
        BY <3>1, <3>2, <4>1
    <3>4. \A i \in 1 .. Len(p) : p[i] = q[i]
      BY <3>1, <3>3 DEF component
    <3> QED
      BY <1>3, <3>3, <3>4, SeqEqual
  <2>2. PICK i \in T : \A j \in T : i <= j
    BY <2>1, LeastNumber
  <2>3. \A j \in 1 .. i - 1 : component(p, j) = component(q, j)
    BY <2>2
  <2>4. component(p, i) \in Int /\ component(q, i) \in Int
    BY ComponentType
  <2>5. component(p, i) < component(q, i) \/ component(q, i) < component(p, i)
    BY <2>4
  <2>6. differAt(p, q, i) \/ differAt(q, p, i)
    BY <2>3, <2>5 DEF differAt
  <2> QED
    BY <2>6, PathLessIsFirstDifference
<1>4. \A p \in S : <<p, p>> \notin pathOrder(S)
  BY <1>1 DEF pathOrder
<1>5. \A p, q, r \in S : <<p, q>> \in pathOrder(S) /\ <<q, r>> \in pathOrder(S)
                            => <<p, r>> \in pathOrder(S)
  BY <1>2 DEF pathOrder
<1>6. \A p, q \in S : p # q => <<p, q>> \in pathOrder(S) \/ <<q, p>> \in pathOrder(S)
  BY <1>3 DEF pathOrder
<1> QED
  BY <1>4, <1>5, <1>6 DEF IsOrder

\* sorted by path: what the index lists.
LEMMA SortedPaths ==
    ASSUME NEW S \in SUBSET Seq(Nat), IsFiniteSet(S)
    PROVE  IsSorting(sorted(S, pathLess), S, pathOrder(S))
<1>1. \A x \in S : below(pathOrder(S), S, x) = {y \in S : pathLess(y, x)}
  BY DEF below, pathOrder
<1>2. sorted(S, pathLess) = [i \in 1 .. Cardinality(S) |->
          CHOOSE x \in S : Cardinality({y \in S : pathLess(y, x)}) = i - 1]
  BY DEF sorted
<1>3. ASSUME NEW i PROVE (CHOOSE x \in S : Cardinality({y \in S : pathLess(y, x)}) = i - 1)
                       = (CHOOSE x \in S : Cardinality(below(pathOrder(S), S, x)) = i - 1)
  BY <1>1
<1>4. sorted(S, pathLess) = [i \in 1 .. Cardinality(S) |->
          CHOOSE x \in S : Cardinality(below(pathOrder(S), S, x)) = i - 1]
  BY <1>2, <1>3
<1> QED
  BY <1>4, PathOrder, SortingFacts

\* The order of IDs on a set of messages.
idOrder(S) == {e \in S \X S : byID(e[1], e[2])}

\* sorted by ID: what a listing and a reader's answer are.
LEMMA SortedMessages ==
    ASSUME NEW S, IsFiniteSet(S), \A a \in S : a.ID \in Nat, \A a, b \in S : a.ID = b.ID => a = b
    PROVE  IsOrder(idOrder(S), S) /\ IsSorting(sorted(S, byID), S, idOrder(S))
<1>1. \A x \in S : below(idOrder(S), S, x) = {y \in S : byID(y, x)}
  BY DEF below, idOrder
<1>2. sorted(S, byID) = [i \in 1 .. Cardinality(S) |->
          CHOOSE x \in S : Cardinality({y \in S : byID(y, x)}) = i - 1]
  BY DEF sorted
<1>3. ASSUME NEW i PROVE (CHOOSE x \in S : Cardinality({y \in S : byID(y, x)}) = i - 1)
                       = (CHOOSE x \in S : Cardinality(below(idOrder(S), S, x)) = i - 1)
  BY <1>1
<1>4. sorted(S, byID) = [i \in 1 .. Cardinality(S) |->
          CHOOSE x \in S : Cardinality(below(idOrder(S), S, x)) = i - 1]
  BY <1>2, <1>3
<1>5. IsOrder(idOrder(S), S)
  BY DEF IsOrder, idOrder, byID
<1> QED
  BY <1>4, <1>5, SortingFacts

(***************************************************************************)
(* Leaves, listings and the index.                                         *)
(***************************************************************************)
LEMMA LeafFacts ==
    ASSUME NEW id \in 1 .. MaxID
    PROVE  /\ id \div Radix \in Nat
           /\ digits[id \div Radix] \in Seq(0 .. Radix - 1)
           /\ leafDirectory[id] = <<Len(digits[id])>> \o digits[id \div Radix]
           /\ leafDirectory[id] \in Seq(Nat)
           /\ Len(leafDirectory[id]) = Len(digits[id])
           /\ Len(digits[id]) \in Nat \ {0}
           /\ Len(digits[id]) = Len(digits[id \div Radix]) + 1
           /\ leafDirectory[id][1] = Len(digits[id])
           /\ Tail(leafDirectory[id]) = digits[id \div Radix]
<1>1. id \in Nat \ {0} /\ id \div Radix \in Nat /\ id % Radix \in 0 .. Radix - 1
  BY Division, MaxIDAssumption
<1> DEFINE d == digits[id \div Radix]
           n == Len(d)
           path == messageRelativePath[id]
           leaf == SubSeq(path, 1, Len(path) - 1)
<1>2. d \in Seq(0 .. Radix - 1) /\ digits[id] = Append(d, id % Radix) /\ digits[id] \in Seq(0 .. Radix - 1)
  BY <1>1, DigitsRecursion
<1>3. path = <<Len(digits[id])>> \o digits[id]
  BY DEF messageRelativePath
<1>4. leafDirectory[id] = leaf
  BY DEF leafDirectory, Front
<1>5. n \in Nat /\ Len(digits[id]) = n + 1 /\ d \in Seq(Nat)
  BY <1>2, RadixAssumption
<1> HIDE DEF d
<1>6. path = <<n + 1>> \o Append(d, id % Radix)
  BY <1>2, <1>3, <1>5
<1>7. path \in Seq(Nat) /\ Len(path) = n + 2
  BY <1>1, <1>5, <1>6
<1>8. path[1] = n + 1 /\ \A i \in 2 .. n + 1 : path[i] = d[i - 1]
  BY <1>5, <1>6
<1> HIDE DEF path
<1>9. leaf \in Seq(Nat) /\ Len(leaf) = n + 1 /\ \A i \in 1 .. n + 1 : leaf[i] = path[i]
  <2>1. 1 \in 1 .. Len(path) /\ n + 1 \in 0 .. Len(path) /\ Len(path) - 1 = n + 1
    BY <1>5, <1>7
  <2> QED
    BY <1>5, <1>7, <2>1, SubSeqProperties
<1> DEFINE r == <<n + 1>> \o d
<1>10. r \in Seq(Nat) /\ Len(r) = n + 1 /\ r[1] = n + 1 /\ \A i \in 2 .. n + 1 : r[i] = d[i - 1]
  BY <1>5
<1>11. Tail(r) = d
  <2>1. Tail(r) \in Seq(Nat) /\ Len(Tail(r)) = n /\ \A i \in 1 .. n : Tail(r)[i] = d[i]
    BY <1>5
  <2> HIDE DEF r
  <2>2. Len(Tail(r)) = Len(d)
    BY <2>1
  <2> QED
    BY <1>5, <2>1, <2>2, SeqEqual
<1> HIDE DEF leaf, r, n
<1>12. leaf = r
  <2>1. \A i \in 1 .. n + 1 : leaf[i] = r[i]
    <3> SUFFICES ASSUME NEW i \in 1 .. n + 1 PROVE leaf[i] = r[i]
      OBVIOUS
    <3>1. i = 1 \/ i \in 2 .. n + 1
      BY <1>5
    <3> QED
      BY <1>8, <1>9, <1>10, <3>1
  <2> QED
    BY <1>9, <1>10, <2>1, SeqEqual
<1>13. Len(digits[id]) \in Nat \ {0}
  BY <1>5 DEF n
<1> QED
  BY <1>1, <1>2, <1>4, <1>5, <1>9, <1>10, <1>11, <1>12, <1>13 DEF d, r, n

\* The only leaf among the directories above a message is its own.
LEMMA LeafAbove ==
    ASSUME NEW id \in 1 .. MaxID, NEW p \in ancestors(leafDirectory[id])
    PROVE  /\ p \in Seq(Nat) /\ Len(p) \in 1 .. Len(digits[id]) /\ p[1] = Len(digits[id])
           /\ p = SubSeq(leafDirectory[id], 1, Len(p))
           /\ isLeaf(p) <=> p = leafDirectory[id]
<1> DEFINE leaf == leafDirectory[id]
           n == Len(digits[id])
<1>1. leaf \in Seq(Nat) /\ Len(leaf) = n /\ leaf[1] = n /\ n \in Nat
  BY LeafFacts
<1> HIDE DEF leaf, n
<1>2. PICK k \in 1 .. n : p = SubSeq(leaf, 1, k)
  BY <1>1 DEF ancestors, leaf
<1>3. p \in Seq(Nat) /\ Len(p) = k /\ \A i \in 1 .. k : p[i] = leaf[i]
  BY <1>1, <1>2, SubSeqProperties
<1>4. p[1] = n
  BY <1>1, <1>2, <1>3
<1>5. isLeaf(p) <=> k = n
  BY <1>3, <1>4 DEF isLeaf
<1>6. k = n => p = leaf
  BY <1>1, <1>2, <1>3, SeqEqual
<1>7. p = leaf => k = n
  BY <1>1, <1>3
<1> QED
  BY <1>1, <1>2, <1>3, <1>4, <1>5, <1>6, <1>7 DEF leaf, n

\* A leaf in the counts is the leaf of a file.
LEMMA LeafIsAncestor ==
    ASSUME NEW id \in 1 .. MaxID
    PROVE  leafDirectory[id] \in ancestors(leafDirectory[id]) /\ isLeaf(leafDirectory[id])
<1> DEFINE leaf == leafDirectory[id]
           n == Len(leaf)
<1>1. leaf \in Seq(Nat) /\ n \in Nat \ {0} /\ leaf[1] = n
  <2>1. leaf \in Seq(Nat) /\ leaf[1] = n /\ n = Len(digits[id \div Radix]) + 1
    BY LeafFacts
  <2>2. Len(digits[id \div Radix]) \in Nat
    BY LeafFacts
  <2> QED
    BY <2>1, <2>2
<1> HIDE DEF leaf
<1>2. SubSeq(leaf, 1, n) = leaf
  <2> DEFINE r == SubSeq(leaf, 1, n)
  <2>1. r \in Seq(Nat) /\ Len(r) = n /\ \A i \in 1 .. n : r[i] = leaf[i]
    BY <1>1, SubSeqProperties
  <2> HIDE DEF r
  <2>2. r = leaf
    BY <1>1, <2>1, SeqEqual
  <2> QED
    BY <2>2 DEF r
<1>3. n \in 1 .. Len(leaf)
  BY <1>1
<1>4. leaf \in ancestors(leaf)
  BY <1>2, <1>3 DEF ancestors
<1> QED
  BY <1>1, <1>4 DEF isLeaf, leaf

\* The leaves of the counts are the leaf directories of the files.
LEMMA LeavesOfTree ==
    ASSUME NEW lastID \in 0 .. MaxID, NEW tree, IsTree(tree, lastID)
    PROVE  /\ leavesOf(countsOf(tree)) = {leafOf(name) : name \in tree}
           /\ leavesOf(countsOf(tree)) \in SUBSET Seq(Nat)
           /\ IsFiniteSet(leavesOf(countsOf(tree)))
           /\ \A p \in leavesOf(countsOf(tree)) :
                 /\ under(tree, p) = filesIn(tree, p)
                 /\ countsOf(tree)[p] = Cardinality(filesIn(tree, p))
                 /\ p \in directoriesOf(tree)
<1>1. ASSUME NEW name \in tree
      PROVE  \E id \in 1 .. MaxID : leafOf(name) = leafDirectory[id]
  <2>1. IsFile(name, lastID)
    BY TreeFacts
  <2>2. messageFromPath(name).ID \in 1 .. MaxID
    BY <2>1, MaxIDAssumption DEF IsFile
  <2> QED
    BY <2>1, <2>2 DEF IsFile
<1>2. IsFiniteSet(tree)
  BY DEF IsTree
<1>3. DOMAIN countsOf(tree) = directoriesOf(tree)
  BY <1>2, CountsFacts
<1>4. ASSUME NEW p, NEW name \in tree
      PROVE  /\ p \in ancestors(leafOf(name)) /\ isLeaf(p) => p = leafOf(name)
             /\ leafOf(name) \in ancestors(leafOf(name)) /\ isLeaf(leafOf(name))
             /\ leafOf(name) \in Seq(Nat)
  <2>1. PICK id \in 1 .. MaxID : leafOf(name) = leafDirectory[id]
    BY <1>1
  <2> QED
    BY <2>1, LeafAbove, LeafIsAncestor, LeafFacts
<1> DEFINE L == {leafOf(name) : name \in tree}
<1>5. leavesOf(countsOf(tree)) = L
  BY <1>3, <1>4 DEF leavesOf, directoriesOf
<1>6. L \in SUBSET Seq(Nat)
  BY <1>4
<1>7. IsFiniteSet(L)
  <2> DEFINE g == [name \in tree |-> leafOf(name)]
  <2>1. L = {g[name] : name \in tree} /\ g \in Surjection(tree, L)
    BY DEF Surjection
  <2> HIDE DEF g, L
  <2> QED
    BY <1>2, <2>1, FS_Surjection
<1>8. ASSUME NEW p \in L
      PROVE  /\ under(tree, p) = filesIn(tree, p)
             /\ p \in directoriesOf(tree)
  <2>1. isLeaf(p) /\ p \in directoriesOf(tree)
    <3>1. PICK name \in tree : p = leafOf(name)
      OBVIOUS
    <3> QED
      BY <1>4, <3>1 DEF directoriesOf
  <2>2. under(tree, p) = {name \in tree : leafOf(name) = p}
    BY <1>4, <2>1 DEF under
  <2>3. filesIn(tree, p) = {name \in tree : leafOf(name) = p}
    BY DEF filesIn, leafOf
  <2> QED
    BY <2>1, <2>2, <2>3
<1>9. \A p \in L : countsOf(tree)[p] = Cardinality(filesIn(tree, p))
  BY <1>2, <1>8, CountsFacts
<1> HIDE DEF L
<1> QED
  BY <1>5, <1>6, <1>7, <1>8, <1>9 DEF L

\* The index lists the leaves, each with its count.
LEMMA IndexLeaves ==
    ASSUME NEW counts, leavesOf(counts) \in SUBSET Seq(Nat), IsFiniteSet(leavesOf(counts))
    PROVE  /\ \A l \in Range(buildDirectoryIndex(counts).leaves) :
                 l.path \in leavesOf(counts) /\ l.count = counts[l.path]
           /\ \A p \in leavesOf(counts) :
                 \E l \in Range(buildDirectoryIndex(counts).leaves) : l.path = p
<1> DEFINE S == leavesOf(counts)
           paths == sorted(S, pathLess)
           leaves == buildDirectoryIndex(counts).leaves
           n == Cardinality(S)
<1>1. /\ \A i \in 1 .. n : paths[i] \in S
      /\ \A x \in S : \E i \in 1 .. n : paths[i] = x
  BY SortedPaths DEF IsSorting
<1>2. n \in Nat /\ Len(paths) = n
  <2>1. n \in Nat
    BY FS_CardinalityType
  <2>2. paths = [i \in 1 .. n |-> paths[i]]
    BY SortedPaths DEF IsSorting
  <2> HIDE DEF paths, n
  <2>3. paths \in Seq({paths[i] : i \in 1 .. n}) /\ DOMAIN paths = 1 .. n
    BY <2>1, <2>2
  <2> QED
    BY <2>1, <2>3
<1>3. DOMAIN leaves = 1 .. n /\ \A i \in 1 .. n : leaves[i].path = paths[i] /\ leaves[i].count = counts[paths[i]]
  BY <1>2 DEF buildDirectoryIndex
<1>4. Range(leaves) = {leaves[i] : i \in 1 .. n}
  BY <1>3 DEF Range
<1> HIDE DEF leaves, n, paths, S
<1> QED
  BY <1>1, <1>3, <1>4 DEF S, leaves

\* The listing of a directory has the messages of its files.
LEMMA ListingFacts ==
    ASSUME NEW lastID \in 0 .. MaxID, NEW tree, IsTree(tree, lastID), NEW p
    PROVE  /\ Range(directory(tree, p)) = messagesOf(filesIn(tree, p))
           /\ DOMAIN directory(tree, p) = 1 .. Cardinality(filesIn(tree, p))
           /\ Cardinality(filesIn(tree, p)) \in Nat
<1> DEFINE part == filesIn(tree, p)
           M == messagesOf(part)
           q == directory(tree, p)
<1>1. part \in SUBSET tree
  BY DEF filesIn
<1>2. IsFiniteSet(M) /\ Cardinality(M) = Cardinality(part)
  BY <1>1, FilesAndMessages
<1>3. \A a \in M : a.ID \in Nat
  BY <1>1, TreeFacts DEF messagesOf, IsFile
<1>4. \A a, b \in M : a.ID = b.ID => a = b
  BY <1>1 DEF messagesOf, IsTree
<1>5. q = sorted(M, byID)
  BY DEF directory, messagesOf
<1> HIDE DEF M, part, q
<1>6. IsSorting(q, M, idOrder(M))
  BY <1>2, <1>3, <1>4, <1>5, SortedMessages
<1>7. DOMAIN q = 1 .. Cardinality(M)
  BY <1>6 DEF IsSorting
<1>8. Range(q) = M
  BY <1>6, <1>7 DEF Range, IsSorting
<1>9. Cardinality(part) \in Nat
  BY <1>2, FS_CardinalityType
<1> QED
  BY <1>2, <1>7, <1>8, <1>9 DEF M, part, q

\* messageByID finds an ID if and only if it is live.
LEMMA MessageByIDFinds ==
    ASSUME NEW lastID \in 0 .. MaxID, NEW tree, IsTree(tree, lastID), NEW id \in 1 .. MaxID
    PROVE  messageByID(tree, buildDirectoryIndex(countsOf(tree)), lastID, id)
              = {m \in messagesOf(tree) : m.ID = id}
<1> DEFINE counts == countsOf(tree)
           index == buildDirectoryIndex(counts)
           found == messageByID(tree, index, lastID, id)
<1>1. \A p : Range(directory(tree, p)) = messagesOf(filesIn(tree, p))
  BY ListingFacts
<1>2. leavesOf(counts) \in SUBSET Seq(Nat) /\ IsFiniteSet(leavesOf(counts))
  BY LeavesOfTree
<1> HIDE DEF counts
<1>3. \A p \in leavesOf(counts) : \E l \in Range(index.leaves) : l.path = p
  BY <1>2, IndexLeaves
<1> HIDE DEF index
<1>4. found = {m \in UNION {messagesOf(filesIn(tree, leaf.path)) :
                    leaf \in {l \in Range(index.leaves) : l.path = leafDirectory[id]}} :
                        id \in 1 .. lastID /\ m.ID = id}
  BY <1>1 DEF messageByID
<1> HIDE DEF found
<1>5. ASSUME NEW m \in found PROVE m \in messagesOf(tree) /\ m.ID = id
  BY <1>4 DEF messagesOf, filesIn
<1>6. ASSUME NEW m \in messagesOf(tree), m.ID = id PROVE m \in found
  <2>1. PICK name \in tree : m = messageFromPath(name)
    BY DEF messagesOf
  <2>2. id \in 1 .. lastID /\ leafOf(name) = leafDirectory[id]
    BY <1>6, <2>1, TreeFacts DEF IsFile
  <2>3. leafDirectory[id] \in leavesOf(counts)
    BY <2>2, LeavesOfTree DEF counts
  <2>4. PICK l \in Range(index.leaves) : l.path = leafDirectory[id]
    BY <1>3, <2>3
  <2>5. m \in messagesOf(filesIn(tree, l.path))
    BY <2>1, <2>2, <2>4 DEF messagesOf, filesIn, leafOf
  <2> QED
    BY <1>4, <1>6, <2>2, <2>4, <2>5
<1> QED
  BY <1>5, <1>6 DEF found, index, counts

(***************************************************************************)
(* The counts of a tree are valid.                                         *)
(***************************************************************************)
LEMMA PrefixFacts ==
    ASSUME NEW V, NEW s \in Seq(V), NEW k \in 0 .. Len(s)
    PROVE  /\ SubSeq(s, 1, k) \in Seq(V)
           /\ Len(SubSeq(s, 1, k)) = k
           /\ \A i \in 1 .. k : SubSeq(s, 1, k)[i] = s[i]
<1>1. k \in Nat /\ k <= Len(s) /\ Len(s) \in Nat
  OBVIOUS
<1>2. \A i \in 1 .. k : s[i] \in V
  BY <1>1
<1> QED
  BY <1>1, <1>2

\* The members of T that g maps to k, and into K.
fibre(g, T, k) == {x \in T : g[x] = k}
\* The elements that g sends into K.
fibres(g, T, K) == {x \in T : g[x] \in K}

\* Counting a set part by part.
LEMMA CountByParts ==
    ASSUME NEW T, IsFiniteSet(T), NEW g, NEW L, IsFiniteSet(L), NEW w,
           \A l \in L : w[l] = Cardinality(fibre(g, T, l))
    PROVE  SumFunctionOnSet(w, L) = Cardinality(fibres(g, T, L))
<1>1. \A K : IsFiniteSet(fibres(g, T, K)) /\ Cardinality(fibres(g, T, K)) \in Nat
  BY FS_Subset, FS_CardinalityType DEF fibres
<1>2. \A k : IsFiniteSet(fibre(g, T, k)) /\ Cardinality(fibre(g, T, k)) \in Nat
  BY FS_Subset, FS_CardinalityType DEF fibre
<1>3. \A l \in L : w[l] \in Nat
  BY <1>2
<1> DEFINE F == {K \in SUBSET L : SumFunctionOnSet(w, K) = Cardinality(fibres(g, T, K))}
<1>4. {} \in F
  <2>1. SumFunctionOnSet(w, {}) = 0
    BY SumFacts, FS_EmptySet
  <2>2. fibres(g, T, {}) = {}
    BY DEF fibres
  <2> QED
    BY <2>1, <2>2, FS_EmptySet
<1>5. ASSUME NEW K \in SUBSET L, NEW x \in L \ K, K \in F PROVE K \cup {x} \in F
  <2> DEFINE J == K \cup {x}
             A == fibres(g, T, K)
             B == fibre(g, T, x)
  <2>1. IsFiniteSet(J) /\ x \in J /\ J \ {x} = K /\ \A y \in J : w[y] \in Nat
    BY <1>3, FS_Subset
  <2> HIDE DEF J
  <2>2. SumFunctionOnSet(w, J) = w[x] + SumFunctionOnSet(w, J \ {x})
    BY <2>1, SumFacts
  <2>3. SumFunctionOnSet(w, J) = w[x] + SumFunctionOnSet(w, K)
    BY <2>1, <2>2
  <2>4. fibres(g, T, J) = A \cup B /\ A \cap B = {}
    BY DEF fibres, fibre, J
  <2>5. IsFiniteSet(A) /\ IsFiniteSet(B) /\ Cardinality(A) \in Nat /\ Cardinality(B) \in Nat
    BY <1>1, <1>2
  <2> HIDE DEF A, B
  <2>6. Cardinality(A \cup B) = Cardinality(A) + Cardinality(B)
    <3>1. Cardinality(A \cup B) = Cardinality(A) + Cardinality(B) - Cardinality(A \cap B)
      BY <2>5, FS_Union
    <3>2. Cardinality(A \cap B) = 0
      BY <2>4, FS_EmptySet
    <3> QED
      BY <2>5, <3>1, <3>2
  <2>7. SumFunctionOnSet(w, K) = Cardinality(A) /\ w[x] = Cardinality(B)
    BY <1>5 DEF A, B
  <2>8. SumFunctionOnSet(w, J) = Cardinality(fibres(g, T, J))
    BY <2>3, <2>4, <2>5, <2>6, <2>7
  <2>9. J \in SUBSET L
    BY DEF J
  <2> QED
    BY <2>8, <2>9 DEF J
<1> HIDE DEF F
<1>6. L \in F
  BY <1>4, <1>5, FiniteInduction
<1> QED
  BY <1>6 DEF F

\* The sum that the code takes over a set of leaves.
LEMMA LeafSum ==
    ASSUME NEW counts, NEW L
    PROVE  MapThenSumSet(LAMBDA leaf : counts[leaf], L) = SumFunctionOnSet(counts, L)
BY DEF MapThenSumSet, SumFunctionOnSet, FoldFunctionOnSet

\* Division by the radix is monotone.
LEMMA DivisionMonotone ==
    ASSUME NEW b \in Nat, NEW a \in 0 .. b
    PROVE  a \div Radix <= b \div Radix
<1> DEFINE p == a \div Radix
           q == b \div Radix
           r == a % Radix
           s == b % Radix
<1>1. /\ p \in Nat /\ r \in 0 .. Radix - 1 /\ a = p * Radix + r
      /\ q \in Nat /\ s \in 0 .. Radix - 1 /\ b = q * Radix + s
      /\ Radix \in Nat /\ Radix > 1
  BY Division, RadixAssumption
<1> HIDE DEF p, q, r, s
<1>2. SUFFICES ASSUME p >= q + 1 PROVE FALSE
  BY <1>1 DEF p, q
<1> DEFINE d == p - (q + 1)
<1>3. d \in Nat /\ p = d + q + 1
  BY <1>1, <1>2
<1> HIDE DEF d
<1>4. p * Radix = d * Radix + q * Radix + Radix /\ d * Radix \in Nat
  BY <1>1, <1>3
<1>5. p * Radix \in Nat /\ q * Radix \in Nat
  BY <1>1
<1> QED
  BY <1>1, <1>4, <1>5

\* A longer ID is a larger one.
LEMMA DepthMonotone ==
    \A b \in Nat : \A a \in 0 .. b : Len(digits[a]) <= Len(digits[b])
<1> DEFINE S == {b \in Nat : \A a \in 0 .. b : Len(digits[a]) <= Len(digits[b])}
<1>1. \A n \in Nat : Len(digits[n]) \in Nat /\ (n # 0 => Len(digits[n]) = Len(digits[n \div Radix]) + 1)
  <2> SUFFICES ASSUME NEW n \in Nat
               PROVE  Len(digits[n]) \in Nat /\ (n # 0 => Len(digits[n]) = Len(digits[n \div Radix]) + 1)
    OBVIOUS
  <2>1. digits[n] \in Seq(0 .. Radix - 1) /\ n \div Radix \in Nat /\ digits[n \div Radix] \in Seq(0 .. Radix - 1)
        /\ n % Radix \in 0 .. Radix - 1
    BY DigitsRecursion, Division
  <2>2. n # 0 => digits[n] = Append(digits[n \div Radix], n % Radix)
    BY DigitsRecursion
  <2> QED
    BY <2>1, <2>2
<1>2. ASSUME NEW b \in Nat, \A m \in 0 .. b - 1 : m \in S PROVE b \in S
  <2> SUFFICES ASSUME NEW a \in 0 .. b PROVE Len(digits[a]) <= Len(digits[b])
    OBVIOUS
  <2>1. CASE a = 0
    <3>1. Len(digits[a]) = 0
      BY <2>1, DigitsRecursion
    <3> QED
      BY <1>1, <3>1
  <2>2. CASE a # 0
    <3> DEFINE p == a \div Radix
               q == b \div Radix
    <3>1. p \in Nat /\ q \in Nat /\ p <= q /\ q < b /\ b # 0 /\ a \in Nat
      BY <2>2, Division, DivisionMonotone
    <3>2. Len(digits[a]) = Len(digits[p]) + 1 /\ Len(digits[b]) = Len(digits[q]) + 1
          /\ Len(digits[p]) \in Nat /\ Len(digits[q]) \in Nat
      BY <1>1, <2>2, <3>1
    <3> HIDE DEF p, q
    <3>3. q \in S /\ p \in 0 .. q
      BY <1>2, <3>1
    <3>4. Len(digits[p]) <= Len(digits[q])
      BY <3>3
    <3> QED
      BY <3>2, <3>4
  <2> QED
    BY <2>1, <2>2
<1> HIDE DEF S
<1>3. S = Nat
  <2>1. S \in SUBSET Nat
    BY DEF S
  <2> QED
    BY <1>2, <2>1, NumberInduction
<1> QED
  BY <1>3 DEF S

\* No ID is written with a leading zero.
LEMMA LeadingDigit == \A n \in Nat \ {0} : Len(digits[n]) >= 1 /\ digits[n][1] # 0
<1> DEFINE S == {n \in Nat : n # 0 => Len(digits[n]) >= 1 /\ digits[n][1] # 0}
<1>1. ASSUME NEW n \in Nat, \A m \in 0 .. n - 1 : m \in S PROVE n \in S
  <2> SUFFICES ASSUME n # 0 PROVE Len(digits[n]) >= 1 /\ digits[n][1] # 0
    OBVIOUS
  <2> DEFINE m == n \div Radix
             d == digits[m]
  <2>1. m \in Nat /\ m < n /\ n % Radix \in 0 .. Radix - 1 /\ n = m * Radix + (n % Radix)
    BY Division
  <2>2. digits[n] = Append(d, n % Radix) /\ d \in Seq(0 .. Radix - 1)
    BY <2>1, DigitsRecursion
  <2>3. CASE m = 0
    <3>1. d = <<>>
      BY <2>3, DigitsRecursion
    <3>2. n % Radix # 0
      <4> HIDE DEF m
      <4> QED
        BY <2>1, <2>3, RadixAssumption
    <3> QED
      BY <2>2, <3>1, <3>2
  <2>4. CASE m # 0
    <3>1. m \in S
      BY <1>1, <2>1
    <3>2. Len(d) >= 1 /\ d[1] # 0
      BY <2>4, <3>1
    <3> HIDE DEF d
    <3>3. Len(digits[n]) = Len(d) + 1 /\ digits[n][1] = d[1]
      BY <2>1, <2>2, <3>2
    <3> QED
      BY <2>2, <3>2, <3>3
  <2> QED
    BY <2>3, <2>4
<1> HIDE DEF S
<1>2. S = Nat
  <2>1. S \in SUBSET Nat
    BY DEF S
  <2> QED
    BY <1>1, <2>1, NumberInduction
<1> QED
  BY <1>2 DEF S

\* The first digits of a number are those of a smaller one.
LEMMA PrefixDigits ==
    \A n \in Nat : \A k \in 0 .. Len(digits[n]) :
        \E m \in 0 .. n : SubSeq(digits[n], 1, k) = digits[m]
<1> DEFINE S == {n \in Nat : \A k \in 0 .. Len(digits[n]) :
                                \E m \in 0 .. n : SubSeq(digits[n], 1, k) = digits[m]}
<1>1. ASSUME NEW n \in Nat, \A m \in 0 .. n - 1 : m \in S PROVE n \in S
  <2> SUFFICES ASSUME NEW k \in 0 .. Len(digits[n])
               PROVE  \E m \in 0 .. n : SubSeq(digits[n], 1, k) = digits[m]
    OBVIOUS
  <2> DEFINE d == digits[n]
  <2>1. d \in Seq(0 .. Radix - 1) /\ Len(d) \in Nat
    BY DigitsRecursion
  <2>2. CASE k = Len(d)
    <3>1. SubSeq(d, 1, k) = d
      <4> HIDE DEF d
      <4> DEFINE r == SubSeq(d, 1, k)
      <4>1. r \in Seq(0 .. Radix - 1) /\ Len(r) = Len(d) /\ \A i \in 1 .. Len(d) : r[i] = d[i]
        <5>1. Len(d) \in 0 .. Len(d)
          BY <2>1
        <5> QED
          BY <2>1, <2>2, <5>1, PrefixFacts
      <4> HIDE DEF r
      <4>2. r = d
        BY <2>1, <4>1, SeqEqual
      <4> QED
        BY <4>2 DEF r
    <3>2. n \in 0 .. n
      OBVIOUS
    <3> QED
      BY <3>1, <3>2
  <2>3. CASE k # Len(d)
    <3> DEFINE q == n \div Radix
               e == digits[q]
    <3>1. n # 0
      <4> SUFFICES ASSUME n = 0 PROVE FALSE
        OBVIOUS
      <4>1. Len(d) = 0
        BY DigitsRecursion
      <4> QED
        BY <2>3, <4>1
    <3>2. q \in Nat /\ q < n /\ n % Radix \in 0 .. Radix - 1
      BY <3>1, Division
    <3>3. d = Append(e, n % Radix) /\ e \in Seq(0 .. Radix - 1)
      BY <3>1, <3>2, DigitsRecursion
    <3>4. k \in 0 .. Len(e) /\ Len(d) = Len(e) + 1 /\ \A i \in 1 .. Len(e) : d[i] = e[i]
      <4> HIDE DEF d, e
      <4>1. Len(d) = Len(e) + 1 /\ \A i \in 1 .. Len(e) : d[i] = e[i]
        BY <3>2, <3>3
      <4>2. k \in 0 .. Len(d)
        BY DEF d
      <4> QED
        BY <2>3, <3>3, <4>1, <4>2
    <3>5. SubSeq(d, 1, k) = SubSeq(e, 1, k)
      <4> HIDE DEF d, e
      <4> DEFINE r == SubSeq(d, 1, k)
                 s == SubSeq(e, 1, k)
      <4>0. Len(e) \in Nat
        BY <3>3
      <4>1. r \in Seq(0 .. Radix - 1) /\ Len(r) = k /\ \A i \in 1 .. k : r[i] = d[i]
        <5>1. k \in 0 .. Len(d)
          BY <3>4, <4>0
        <5> QED
          BY <2>1, <5>1, PrefixFacts
      <4>2. s \in Seq(0 .. Radix - 1) /\ Len(s) = k /\ \A i \in 1 .. k : s[i] = e[i]
        BY <3>3, <3>4, PrefixFacts
      <4> HIDE DEF r, s
      <4>3. \A i \in 1 .. k : r[i] = s[i]
        BY <3>4, <4>0, <4>1, <4>2
      <4>4. r = s
        BY <4>1, <4>2, <4>3, SeqEqual
      <4> QED
        BY <4>4 DEF r, s
    <3>6. q \in S
      <4> HIDE DEF S, q
      <4> QED
        BY <1>1, <3>2
    <3>7. PICK m \in 0 .. q : SubSeq(e, 1, k) = digits[m]
      BY <3>4, <3>6
    <3>8. m \in 0 .. n
      BY <3>2
    <3> QED
      BY <3>5, <3>7, <3>8
  <2> QED
    BY <2>2, <2>3
<1> HIDE DEF S
<1>2. S = Nat
  <2>1. S \in SUBSET Nat
    BY DEF S
  <2> QED
    BY <1>1, <2>1, NumberInduction
<1> QED
  BY <1>2 DEF S

-----------------------------------------------------------------------------
(* Which directories a tree has, and how many files below them. *)

\* The ID a file is named after.
idOfFile(name) == messageFromPath(name).ID

\* Every directory on the way to a message is one that validDirectory accepts.
LEMMA DirectoryOfMessage ==
    ASSUME NEW id \in 1 .. MaxID, NEW p \in ancestors(leafDirectory[id])
    PROVE  validDirectory(p)
<1> DEFINE leaf == leafDirectory[id]
           n == id \div Radix
           d == digits[n]
           k == Len(p)
<1>1. /\ n \in Nat /\ d \in Seq(0 .. Radix - 1) /\ leaf \in Seq(Nat)
      /\ Len(leaf) = Len(d) + 1 /\ Tail(leaf) = d /\ Len(digits[id]) = Len(d) + 1
  BY LeafFacts
<1>2. /\ p \in Seq(Nat) /\ k \in 1 .. Len(digits[id]) /\ p[1] = Len(digits[id])
      /\ p = SubSeq(leaf, 1, k) /\ (isLeaf(p) <=> p = leaf)
  BY LeafAbove
<1>3. Len(d) \in Nat
  BY <1>1
<1>4. MaxID \in Nat /\ id \in 0 .. MaxID /\ id \in Nat \ {0}
  BY MaxIDAssumption
<1>5. Len(digits[id]) \in 1 .. MaxDepth
  <2>1. Len(digits[id]) <= Len(digits[MaxID])
    BY <1>4, DepthMonotone
  <2>2. Len(digits[MaxID]) \in Nat
    BY <1>4, DigitsRecursion
  <2> QED
    BY <1>1, <1>3, <2>1, <2>2 DEF MaxDepth
<1> HIDE DEF leaf, k, d
<1>6. \A i \in 1 .. k : p[i] = leaf[i]
  <2>1. k \in 0 .. Len(leaf)
    BY <1>1, <1>2, <1>3
  <2> QED
    BY <1>1, <1>2, <2>1, PrefixFacts
<1>7. \A i \in 2 .. Len(d) + 1 : leaf[i] = d[i - 1]
  <2>1. \A i \in 1 .. Len(d) : Tail(leaf)[i] = leaf[i + 1]
    BY <1>1, <1>3
  <2>2. \A i \in 2 .. Len(d) + 1 : i - 1 \in 1 .. Len(d) /\ (i - 1) + 1 = i
    BY <1>3
  <2> QED
    BY <1>1, <2>1, <2>2
<1>8. Tail(p) = SubSeq(d, 1, k - 1)
  <2> DEFINE r == Tail(p)
             s == SubSeq(d, 1, k - 1)
  <2>1. k - 1 \in 0 .. Len(d) /\ k - 1 \in Nat /\ k \in Nat
    BY <1>1, <1>2, <1>3
  <2>2. s \in Seq(0 .. Radix - 1) /\ Len(s) = k - 1 /\ \A i \in 1 .. k - 1 : s[i] = d[i]
    BY <1>1, <2>1, PrefixFacts
  <2>3. r \in Seq(Nat) /\ Len(r) = k - 1 /\ \A i \in 1 .. k - 1 : r[i] = p[i + 1]
    BY <1>2, <2>1 DEF k
  <2> HIDE DEF r, s
  <2>4. ASSUME NEW i \in 1 .. k - 1 PROVE r[i] = s[i]
    <3>1. i + 1 \in 1 .. k /\ i + 1 \in 2 .. Len(d) + 1 /\ (i + 1) - 1 = i
      BY <1>3, <2>1
    <3> QED
      BY <1>6, <1>7, <2>2, <2>3, <3>1
  <2>5. s \in Seq(Nat)
    BY <2>2, RadixAssumption
  <2>6. r = s
    BY <2>2, <2>3, <2>4, <2>5, SeqEqual
  <2> QED
    BY <2>6 DEF r, s
<1>9. PICK m \in 0 .. n : Tail(p) = digits[m]
  <2>1. k - 1 \in 0 .. Len(digits[n])
    BY <1>1, <1>2, <1>3 DEF d
  <2>2. \E m \in 0 .. n : SubSeq(digits[n], 1, k - 1) = digits[m]
    BY <1>1, <2>1, PrefixDigits
  <2> QED
    BY <1>8, <2>2 DEF d
<1>10. n <= MaxID \div Radix /\ MaxID \div Radix \in Nat /\ MaxID \div Radix <= MaxID
  <2>1. n <= MaxID \div Radix
    BY <1>4, DivisionMonotone
  <2>2. MaxID \div Radix \in Nat /\ (MaxID # 0 => MaxID \div Radix < MaxID) /\ MaxID # 0
    BY <1>4, Division, RadixAssumption, MaxIDAssumption
  <2> QED
    BY <1>4, <2>1, <2>2
<1> DEFINE prefix == parseDigits(Tail(p))
<1>11. m \in 0 .. MaxID
  BY <1>1, <1>10, MaxIDAssumption
<1>12. prefix = m
  BY <1>9, <1>11, ParseInverse
<1>13. prefix # ParseError
  BY <1>11, <1>12 DEF ParseError
<1>14. isLeaf(p) => prefix <= MaxID \div Radix
  BY <1>1, <1>10, <1>11, <1>12
<1>15. p # <<>>
  BY <1>2 DEF k
<1>16. Len(p) > 1 => p[2] # 0
  <2> SUFFICES ASSUME k > 1 PROVE p[2] # 0
    BY DEF k
  <2>1. Len(d) >= 1 /\ 2 \in 1 .. k /\ 2 \in 2 .. Len(d) + 1
    BY <1>1, <1>2, <1>3
  <2>2. p[2] = d[1]
    <3>1. p[2] = leaf[2] /\ leaf[2] = d[2 - 1]
      BY <1>6, <1>7, <2>1
    <3> QED
      BY <3>1
  <2>3. n # 0
    <3> SUFFICES ASSUME n = 0 PROVE FALSE
      OBVIOUS
    <3>1. d = <<>>
      BY DigitsRecursion DEF d
    <3> QED
      BY <2>1, <3>1
  <2> QED
    BY <1>1, <2>2, <2>3, LeadingDigit DEF d
<1>17. p[1] \in 1 .. MaxDepth /\ Len(p) <= p[1]
  BY <1>2, <1>5 DEF k
<1> QED
  BY <1>13, <1>14, <1>15, <1>16, <1>17 DEF validDirectory

\* Two IDs of one leaf share all digits but the last.
LEMMA SameLeaf ==
    ASSUME NEW a \in 1 .. MaxID, NEW b \in 1 .. MaxID, leafDirectory[a] = leafDirectory[b]
    PROVE  a \div Radix = b \div Radix
<1>1. a \div Radix \in 0 .. MaxID /\ b \div Radix \in 0 .. MaxID
  <2>1. a \in Nat \ {0} /\ b \in Nat \ {0} /\ MaxID \in Nat
    BY MaxIDAssumption
  <2> QED
    BY <2>1, Division
<1>2. digits[a \div Radix] = digits[b \div Radix]
  BY LeafFacts
<1> QED
  BY <1>1, <1>2, ParseInverse

\* A leaf holds at most Radix files, and the first one less: there is no ID 0.
LEMMA LeafSize ==
    ASSUME NEW lastID \in 0 .. MaxID, NEW tree, IsTree(tree, lastID), NEW p
    PROVE  Cardinality(filesIn(tree, p)) <= (IF p = <<1>> THEN Radix - 1 ELSE Radix)
<1> DEFINE T == filesIn(tree, p)
           low == IF p = <<1>> THEN 1 ELSE 0
           D == low .. Radix - 1
           f == [name \in T |-> idOfFile(name) % Radix]
<1>1. ASSUME NEW name \in T
      PROVE  /\ name \in tree /\ idOfFile(name) \in 1 .. MaxID
             /\ leafDirectory[idOfFile(name)] = p
  <2>1. name \in tree /\ leafOf(name) = p
    BY DEF filesIn, leafOf
  <2>2. IsFile(name, lastID)
    BY <2>1, TreeFacts
  <2>3. lastID \in Nat /\ lastID <= MaxID /\ MaxID \in Nat
    BY MaxIDAssumption
  <2> QED
    BY <2>1, <2>2, <2>3 DEF IsFile, idOfFile
<1>2. ASSUME NEW name \in T PROVE idOfFile(name) % Radix \in D
  <2> DEFINE id == idOfFile(name)
  <2>1. id \in 1 .. MaxID /\ leafDirectory[id] = p /\ id \in Nat \ {0}
    BY <1>1, MaxIDAssumption
  <2>2. id % Radix \in 0 .. Radix - 1 /\ id \div Radix \in Nat /\ id = (id \div Radix) * Radix + (id % Radix)
    BY <2>1, Division
  <2> DEFINE shortest == <<1>>
  <2>3. ASSUME p = shortest PROVE id % Radix # 0
    <3>1. Len(p) = 1
      BY <2>3
    <3>2. Len(digits[id \div Radix]) = 0
      <4> DEFINE l == leafDirectory[id]
                 e == digits[id \div Radix]
      <4>1. Len(l) = Len(digits[id]) /\ Len(digits[id]) = Len(e) + 1 /\ e \in Seq(0 .. Radix - 1)
        BY <2>1, LeafFacts
      <4>2. Len(l) = 1
        BY <2>1, <3>1
      <4> HIDE DEF l, e
      <4>3. Len(e) \in Nat
        BY <4>1
      <4>4. Len(e) + 1 = 1
        BY <4>1, <4>2
      <4>5. Len(e) = 0
        BY <4>3, <4>4
      <4> QED
        BY <4>5 DEF e
    <3>3. id \div Radix = 0
      <4> SUFFICES ASSUME id \div Radix # 0 PROVE FALSE
        OBVIOUS
      <4>1. Len(digits[id \div Radix]) >= 1
        BY <2>2, LeadingDigit
      <4> QED
        BY <3>2, <4>1
    <3> DEFINE q == id \div Radix
               r == id % Radix
    <3>4. q = 0 /\ id = q * Radix + r /\ id # 0 /\ Radix \in Nat /\ r \in Nat
      BY <2>1, <2>2, <3>3, RadixAssumption
    <3> HIDE DEF q, r, id
    <3>5. r # 0
      BY <3>4
    <3> QED
      BY <3>5 DEF r
  <2> QED
    BY <2>2, <2>3
<1>3. f \in Injection(T, D)
  <2>1. f \in [T -> D]
    BY <1>2
  <2>2. ASSUME NEW a \in T, NEW b \in T, f[a] = f[b] PROVE a = b
    <3> DEFINE i == idOfFile(a)
               j == idOfFile(b)
    <3>1. /\ i \in 1 .. MaxID /\ j \in 1 .. MaxID /\ i % Radix = j % Radix
          /\ leafDirectory[i] = leafDirectory[j] /\ a \in tree /\ b \in tree
      BY <1>1, <2>2
    <3>2. i \div Radix = j \div Radix
      BY <3>1, SameLeaf
    <3>3. i = (i \div Radix) * Radix + (i % Radix) /\ j = (j \div Radix) * Radix + (j % Radix)
      <4>1. i \in Nat /\ j \in Nat
        BY <3>1, MaxIDAssumption
      <4> QED
        BY <4>1, Division
    <3>4. i = j
      BY <3>1, <3>2, <3>3
    <3> QED
      BY <3>1, <3>4 DEF IsTree, idOfFile
  <2> HIDE DEF f, T, D
  <2> QED
    BY <2>1, <2>2 DEF Injection, IsInjective
<1>4. IsFiniteSet(D) /\ Cardinality(D) = (IF p = <<1>> THEN Radix - 1 ELSE Radix)
  <2>1. CASE p = <<1>>
    <3>1. IsFiniteSet(1 .. Radix - 1) /\ Cardinality(1 .. Radix - 1) = Radix - 1
      BY FS_Interval, RadixAssumption
    <3> QED
      BY <2>1, <3>1
  <2>2. CASE p # <<1>>
    <3>1. IsFiniteSet(0 .. Radix - 1) /\ Cardinality(0 .. Radix - 1) = Radix
      BY FS_Interval, RadixAssumption
    <3> QED
      BY <2>2, <3>1
  <2> QED
    BY <2>1, <2>2
<1> HIDE DEF f, D, T
<1>5. Cardinality(T) <= Cardinality(D)
  BY <1>3, <1>4, FS_Injection
<1> QED
  BY <1>4, <1>5 DEF T

\* There are at most as many files as IDs were given out.
LEMMA TreeSize ==
    ASSUME NEW lastID \in 0 .. MaxID, NEW tree, IsTree(tree, lastID)
    PROVE  Cardinality(tree) \in Nat /\ Cardinality(tree) <= lastID
<1> DEFINE f == [name \in tree |-> idOfFile(name)]
           D == 1 .. lastID
<1>1. f \in Injection(tree, D)
  <2>1. f \in [tree -> D]
    BY TreeFacts DEF IsFile, idOfFile
  <2>2. ASSUME NEW a \in tree, NEW b \in tree, f[a] = f[b] PROVE a = b
    BY <2>2 DEF IsTree, idOfFile
  <2> HIDE DEF f
  <2> QED
    BY <2>1, <2>2 DEF Injection, IsInjective
<1>2. IsFiniteSet(D) /\ Cardinality(D) = lastID
  BY FS_Interval, MaxIDAssumption
<1> HIDE DEF f, D
<1>3. IsFiniteSet(tree) /\ Cardinality(tree) <= Cardinality(D)
  BY <1>1, <1>2, FS_Injection
<1> QED
  BY <1>2, <1>3, FS_CardinalityType

\* The leaves below a directory hold the files below it.
LEMMA LeavesBelow ==
    ASSUME NEW lastID \in 0 .. MaxID, NEW tree, IsTree(tree, lastID), NEW L,
           L \subseteq leavesOf(countsOf(tree))
    PROVE  SumFunctionOnSet(countsOf(tree), L) = Cardinality({name \in tree : leafOf(name) \in L})
<1> DEFINE g == [name \in tree |-> leafOf(name)]
           w == countsOf(tree)
<1>1. IsFiniteSet(tree) /\ IsFiniteSet(L)
  BY LeavesOfTree, FS_Subset DEF IsTree
<1>2. ASSUME NEW l \in L PROVE w[l] = Cardinality(fibre(g, tree, l))
  <2>1. w[l] = Cardinality(filesIn(tree, l))
    BY LeavesOfTree
  <2>2. filesIn(tree, l) = fibre(g, tree, l)
    BY DEF filesIn, fibre, leafOf
  <2> QED
    BY <2>1, <2>2
<1>3. fibres(g, tree, L) = {name \in tree : leafOf(name) \in L}
  BY DEF fibres
<1> HIDE DEF g, w
<1>4. SumFunctionOnSet(w, L) = Cardinality(fibres(g, tree, L))
  BY <1>1, <1>2, CountByParts
<1> QED
  BY <1>3, <1>4 DEF w

\* The counts of a tree are counts that buildDirectoryIndex accepts.
LEMMA TreeCountsValid ==
    ASSUME NEW lastID \in 0 .. MaxID, NEW tree, IsTree(tree, lastID)
    PROVE  /\ validCounts(countsOf(tree), lastID)
           /\ SumFunctionOnSet(countsOf(tree), leavesOf(countsOf(tree))) = Cardinality(tree)
<1> DEFINE counts == countsOf(tree)
           leaves == leavesOf(counts)
<1>1. IsFiniteSet(tree)
  BY DEF IsTree
<1>2. /\ leaves = {leafOf(name) : name \in tree}
      /\ \A p \in leaves : counts[p] = Cardinality(filesIn(tree, p))
  BY LeavesOfTree
<1>3. /\ DOMAIN counts = directoriesOf(tree)
      /\ \A p : p \in directoriesOf(tree) <=> under(tree, p) # {}
      /\ \A p : Cardinality(under(tree, p)) = 0 <=> under(tree, p) = {}
      /\ \A p \in directoriesOf(tree) : counts[p] = Cardinality(under(tree, p))
  BY <1>1, CountsFacts
<1>4. ASSUME NEW name \in tree PROVE \E id \in 1 .. MaxID : leafOf(name) = leafDirectory[id]
  <2>1. IsFile(name, lastID)
    BY TreeFacts
  <2>2. messageFromPath(name).ID \in 1 .. MaxID
    BY <2>1, MaxIDAssumption DEF IsFile
  <2> QED
    BY <2>1, <2>2 DEF IsFile
<1>5. ASSUME NEW p \in DOMAIN counts PROVE validDirectory(p) /\ counts[p] # 0
  <2>1. PICK name \in tree : p \in ancestors(leafOf(name))
    BY <1>3 DEF directoriesOf
  <2>2. PICK id \in 1 .. MaxID : leafOf(name) = leafDirectory[id]
    BY <1>4
  <2>3. validDirectory(p)
    BY <2>1, <2>2, DirectoryOfMessage
  <2> QED
    BY <1>3, <2>3
<1>6. \A leaf \in leaves : counts[leaf] <= (IF leaf = <<1>> THEN Radix - 1 ELSE Radix)
  BY <1>2, LeafSize
<1>7. SumFunctionOnSet(counts, leaves) = Cardinality(tree)
  <2>1. SumFunctionOnSet(counts, leaves) = Cardinality({name \in tree : leafOf(name) \in leaves})
    BY LeavesBelow
  <2>2. {name \in tree : leafOf(name) \in leaves} = tree
    BY <1>2
  <2> QED
    BY <2>1, <2>2
<1>8. MapThenSumSet(LAMBDA leaf : counts[leaf], leaves) = Cardinality(tree)
  <2> HIDE DEF counts, leaves
  <2>1. MapThenSumSet(LAMBDA leaf : counts[leaf], leaves) = SumFunctionOnSet(counts, leaves)
    BY LeafSum
  <2> QED
    BY <1>7, <2>1
<1>9. expectedCounts(counts, leaves) = counts
  <2> DEFINE e == expectedCounts(counts, leaves)
             over(p) == {leaf \in leaves : p \in ancestors(leaf)}
  <2>1. UNION {ancestors(leaf) : leaf \in leaves} = directoriesOf(tree)
    BY <1>2 DEF directoriesOf
  <2>2. e = [p \in directoriesOf(tree) |-> MapThenSumSet(LAMBDA leaf : counts[leaf], over(p))]
    <3> HIDE DEF counts, leaves
    <3> QED
      BY <2>1 DEF expectedCounts
  <2>3. ASSUME NEW p \in directoriesOf(tree)
        PROVE  MapThenSumSet(LAMBDA leaf : counts[leaf], over(p)) = counts[p]
    <3>1. MapThenSumSet(LAMBDA leaf : counts[leaf], over(p)) = SumFunctionOnSet(counts, over(p))
      <4> HIDE DEF counts, over
      <4> QED
        BY LeafSum
    <3>2. over(p) \subseteq leaves
      OBVIOUS
    <3>3. {name \in tree : leafOf(name) \in over(p)} = under(tree, p)
      BY <1>2 DEF under
    <3>4. SumFunctionOnSet(counts, over(p)) = Cardinality({name \in tree : leafOf(name) \in over(p)})
      <4> HIDE DEF over
      <4> QED
        BY <3>2, LeavesBelow
    <3> QED
      BY <1>3, <3>1, <3>3, <3>4
  <2>4. counts = [p \in directoriesOf(tree) |-> counts[p]]
    BY <1>3 DEF countsOf
  <2> HIDE DEF e, counts, over
  <2>5. e = counts
    BY <2>2, <2>3, <2>4
  <2> QED
    BY <2>5 DEF e
<1>10. Cardinality(tree) <= lastID
  BY TreeSize
<1> HIDE DEF counts, leaves
<1>11. validCounts(counts, lastID)
  BY <1>5, <1>6, <1>8, <1>9, <1>10 DEF validCounts, leaves
<1> QED
  BY <1>7, <1>11 DEF counts, leaves

-----------------------------------------------------------------------------
(* The state of a tree. *)

\* A state file that describes a tree: its counts, its octets and a bound of its
\* IDs.
StateOf(st, tree) ==
    /\ st.LastID \in 0 .. MaxID
    /\ IsTree(tree, st.LastID)
    /\ st.Directories = countsOf(tree)
    /\ st.TotalOctets = octetsOf(messagesOf(tree))

\* Such a state decodes.
LEMMA StateIsValid ==
    ASSUME NEW st, NEW tree, StateOf(st, tree)
    PROVE  /\ validState(st)
           /\ messageCount(st) = Cardinality(messagesOf(tree))
           /\ \A m \in messagesOf(tree) : m.ID \in 1 .. st.LastID
<1> DEFINE M == messagesOf(tree)
<1>1. st.LastID \in 0 .. MaxID /\ IsTree(tree, st.LastID) /\ st.Directories = countsOf(tree)
      /\ st.TotalOctets = octetsOf(M)
  BY DEF StateOf
<1>2. IsFiniteSet(M) /\ Cardinality(M) = Cardinality(tree)
  BY <1>1, FilesAndMessages
<1>3. validCounts(st.Directories, st.LastID)
  BY <1>1, TreeCountsValid
<1>4. messageCount(st) = Cardinality(M)
  <2> DEFINE counts == st.Directories
  <2>1. messageCount(st) = MapThenSumSet(LAMBDA leaf : counts[leaf], leavesOf(counts))
    BY DEF messageCount
  <2> HIDE DEF counts
  <2>2. messageCount(st) = SumFunctionOnSet(counts, leavesOf(counts))
    BY <2>1, LeafSum
  <2> QED
    BY <1>1, <1>2, <2>2, TreeCountsValid DEF counts
<1>5. ASSUME NEW m \in M PROVE m.ID \in 1 .. st.LastID /\ m.Size \in Nat
  BY <1>1, TreeFacts DEF messagesOf, IsFile
<1> HIDE DEF M
<1>6. HaveSizes(M)
  BY <1>2, <1>5 DEF HaveSizes
<1>7. Cardinality(M) = 0 => M = {}
  BY <1>2, FS_EmptySet
<1>8. messageCount(st) = 0 => st.TotalOctets = 0
  BY <1>1, <1>4, <1>6, <1>7, OctetsFacts
<1> QED
  BY <1>3, <1>4, <1>5, <1>8 DEF validState, M

\* After a receipt the state describes the tree with the new message.
LEMMA StateReceipt ==
    ASSUME NEW st, NEW tree, StateOf(st, tree), st.LastID # MaxID, NEW size \in Nat
    PROVE  LET more == tree \cup {messagePath(st.LastID + 1, size)}
           IN  /\ StateOf(publishState(st, size), more)
               /\ messagesOf(more) = messagesOf(tree) \cup {[ID |-> st.LastID + 1, Size |-> size]}
<1> DEFINE id == st.LastID + 1
           name == messagePath(id, size)
           m == [ID |-> id, Size |-> size]
           next == publishState(st, size)
           more == tree \cup {name}
<1>1. st.LastID \in 0 .. MaxID - 1 /\ id \in 0 .. MaxID /\ id \in 1 .. id
  BY MaxIDAssumption DEF StateOf
<1>2. IsTree(tree, st.LastID) /\ IsFiniteSet(tree)
  BY DEF StateOf, IsTree
<1>3. name \notin tree /\ IsTree(more, id)
  BY <1>1, <1>2, TreeMore
<1>4. messageFromPath(name) = m /\ leafOf(name) = leafDirectory[id]
  BY <1>1, FileFacts
<1>5. next.LastID = id /\ next.TotalOctets = st.TotalOctets + size
      /\ next.Directories = add(st.Directories, leafDirectory[id])
  BY DEF publishState
<1> HIDE DEF name, next, id
<1>6. next.Directories = countsOf(more)
  BY <1>2, <1>3, <1>4, <1>5, CountsAdd DEF StateOf
<1>7. messagesOf(more) = messagesOf(tree) \cup {m}
  BY <1>4 DEF messagesOf
<1>8. m \notin messagesOf(tree)
  <2> SUFFICES ASSUME NEW other \in tree, messageFromPath(other) = m PROVE FALSE
    BY DEF messagesOf
  <2>1. other \in more /\ name \in more /\ messageFromPath(other).ID = messageFromPath(name).ID
    BY <1>4
  <2> QED
    BY <1>3, <2>1 DEF IsTree
<1>9. HaveSizes(messagesOf(more))
  <2>1. more \in SUBSET more
    OBVIOUS
  <2>2. IsFiniteSet(messagesOf(more))
    BY <1>1, <1>3, <2>1, FilesAndMessages
  <2>3. ASSUME NEW n \in messagesOf(more) PROVE n.Size \in Nat
    BY <1>1, <1>3, TreeFacts DEF messagesOf, IsFile
  <2> QED
    BY <2>2, <2>3 DEF HaveSizes
<1>10. next.TotalOctets = octetsOf(messagesOf(more))
  <2> DEFINE M == messagesOf(tree)
             N == messagesOf(more)
  <2>1. N \ {m} = M /\ m \in N /\ m.Size = size
    BY <1>7, <1>8
  <2>2. st.TotalOctets = octetsOf(M)
    BY DEF StateOf
  <2>3. HaveSizes(M) /\ HaveSizes(N)
    BY <1>7, <1>9, FS_Subset DEF HaveSizes
  <2> HIDE DEF M, N
  <2>4. octetsOf(N) = size + octetsOf(M) /\ octetsOf(M) \in Nat
    BY <2>1, <2>3, OctetsFacts
  <2>5. next.TotalOctets = octetsOf(N)
    BY <1>1, <1>5, <2>2, <2>4
  <2> QED
    BY <2>5 DEF N
<1>11. next.LastID \in 0 .. MaxID /\ IsTree(more, next.LastID)
  BY <1>1, <1>3, <1>5
<1> HIDE DEF more
<1>12. StateOf(next, more)
  BY <1>6, <1>10, <1>11 DEF StateOf
<1> QED
  BY <1>7, <1>12 DEF next, more, name, id, m

\* After a deletion it describes the tree without the files of the messages.
LEMMA StateRemoval ==
    ASSUME NEW st, NEW tree, StateOf(st, tree), NEW part \in SUBSET tree
    PROVE  /\ pathsOf(messagesOf(part)) = part
           /\ StateOf(deleteState(st, messagesOf(part)), tree \ part)
           /\ octetsOf(messagesOf(part)) \in Nat /\ octetsOf(messagesOf(part)) <= st.TotalOctets
<1> DEFINE rest == tree \ part
           M == messagesOf(tree)
           P == messagesOf(part)
           next == deleteState(st, P)
<1>1. st.LastID \in 0 .. MaxID /\ IsTree(tree, st.LastID)
  BY DEF StateOf
<1>2. rest \in SUBSET tree /\ tree \in SUBSET tree
  OBVIOUS
<1>3. pathsOf(P) = part /\ IsFiniteSet(M) /\ P \subseteq M
  BY <1>1, <1>2, FilesAndMessages
<1>4. IsTree(rest, st.LastID)
  BY <1>1, <1>2, TreePart
<1>5. next.LastID = st.LastID /\ next.TotalOctets = st.TotalOctets - octetsOf(P)
      /\ next.Directories = removeAll(st.Directories, P)
  BY DEF deleteState
<1>6. next.Directories = countsOf(rest)
  BY <1>1, <1>2, <1>5, RemoveAllCounts DEF StateOf
<1>7. messagesOf(rest) = M \ P
  BY <1>1, <1>2 DEF messagesOf, IsTree
<1>8. HaveSizes(M)
  BY <1>1, <1>3, TreeFacts DEF messagesOf, IsFile, HaveSizes
<1> HIDE DEF M, P, next
<1>9. octetsOf(M \ P) = octetsOf(M) - octetsOf(P)
  BY <1>3, <1>8, OctetsDifference
<1>10. next.TotalOctets = octetsOf(messagesOf(rest))
  BY <1>5, <1>7, <1>9 DEF StateOf, M
<1>11. HaveSizes(P) /\ HaveSizes(M \ P)
  BY <1>3, <1>8, FS_Subset DEF HaveSizes
<1>12. octetsOf(P) \in Nat /\ octetsOf(M \ P) \in Nat /\ octetsOf(M) \in Nat
  BY <1>8, <1>11, OctetsFacts
<1>13. octetsOf(P) <= st.TotalOctets
  <2>1. st.TotalOctets = octetsOf(M)
    BY DEF StateOf, M
  <2> QED
    BY <1>9, <1>12, <2>1
<1> HIDE DEF rest
<1>14. StateOf(next, rest)
  BY <1>1, <1>4, <1>5, <1>6, <1>10 DEF StateOf
<1> QED
  BY <1>3, <1>12, <1>13, <1>14 DEF rest, next, P

\* deleteLocked's checks pass for whatever messages of the tree it is given.
LEMMA StateAllows ==
    ASSUME NEW st, NEW tree, StateOf(st, tree), NEW part \in SUBSET tree
    PROVE  canDelete(st, messagesOf(part))
<1> DEFINE P == messagesOf(part)
           counts == st.Directories
           through(p) == {m \in P : p \in ancestors(leafDirectory[m.ID])}
<1>1. st.LastID \in 0 .. MaxID /\ IsTree(tree, st.LastID) /\ counts = countsOf(tree)
      /\ IsFiniteSet(tree)
  BY DEF StateOf, IsTree
<1>2. ASSUME NEW p \in UNION {ancestors(leafDirectory[m.ID]) : m \in P}
      PROVE  Cardinality(through(p)) <= countOf(counts, p)
  <2> DEFINE below_p == under(part, p)
  <2>1. \A name \in part : leafOf(name) = leafDirectory[messageFromPath(name).ID]
    BY <1>1, TreeFacts DEF IsFile
  <2>2. through(p) = messagesOf(below_p)
    BY <2>1 DEF messagesOf, under
  <2>3. below_p \in SUBSET tree /\ below_p \subseteq under(tree, p)
    BY DEF under
  <2> HIDE DEF below_p
  <2>4. Cardinality(messagesOf(below_p)) = Cardinality(below_p)
    BY <1>1, <2>3, FilesAndMessages
  <2>5. p \in directoriesOf(tree)
    BY <2>1 DEF directoriesOf, messagesOf
  <2>6. countOf(counts, p) = Cardinality(under(tree, p))
    BY <1>1, <2>5, CountsFacts DEF countOf
  <2>7. IsFiniteSet(under(tree, p))
    BY <1>1, FS_Subset DEF under
  <2>8. Cardinality(below_p) <= Cardinality(under(tree, p))
    BY <2>3, <2>7, FS_Subset
  <2> HIDE DEF through, counts
  <2> QED
    BY <2>2, <2>4, <2>6, <2>8
<1>3. validCounts(deleteState(st, P).Directories, st.LastID)
  <2> DEFINE next == deleteState(st, P)
  <2>1. StateOf(next, tree \ part)
    BY StateRemoval
  <2>2. next.LastID = st.LastID
    BY DEF deleteState
  <2> HIDE DEF next, P
  <2>3. validCounts(next.Directories, next.LastID)
    BY <2>1, StateIsValid DEF validState
  <2> QED
    BY <2>2, <2>3 DEF next
<1>4. octetsOf(P) <= st.TotalOctets
  BY StateRemoval
<1> HIDE DEF P
<1>5. canDelete(st, P)
  BY <1>2, <1>3, <1>4 DEF canDelete
<1> QED
  BY <1>5 DEF P

\* Readers meet no listing that does not match its count.
LEMMA StateReadable ==
    ASSUME NEW st, NEW tree, StateOf(st, tree),
           NEW leaf \in Range(buildDirectoryIndex(st.Directories).leaves)
    PROVE  /\ readable(tree, leaf)
           /\ \A name \in filesIn(tree, leaf.path) : messageFromPath(name).ID <= st.LastID
<1> DEFINE names == filesIn(tree, leaf.path)
           counts == st.Directories
<1>1. st.LastID \in 0 .. MaxID /\ IsTree(tree, st.LastID) /\ counts = countsOf(tree)
  BY DEF StateOf
<1>2. leavesOf(counts) \in SUBSET Seq(Nat) /\ IsFiniteSet(leavesOf(counts))
  BY <1>1, LeavesOfTree
<1>3. leaf.path \in leavesOf(counts) /\ leaf.count = counts[leaf.path]
  <2>1. leaf \in Range(buildDirectoryIndex(counts).leaves)
    OBVIOUS
  <2> HIDE DEF counts
  <2> QED
    BY <1>2, <2>1, IndexLeaves
<1>4. Cardinality(names) = leaf.count
  BY <1>1, <1>3, LeavesOfTree
<1>5. ASSUME NEW name \in names
      PROVE  messageFromPath(name) # NoMessage /\ messageFromPath(name).ID <= st.LastID
  <2>1. name \in tree
    BY DEF filesIn
  <2>2. messageFromPath(name).ID \in 1 .. st.LastID
    BY <1>1, <2>1, TreeFacts DEF IsFile
  <2>3. messageFromPath(name).ID # -1 /\ messageFromPath(name).ID <= st.LastID
    BY <1>1, <2>2
  <2> QED
    BY <2>3 DEF NoMessage, ParseError
<1>6. \A a, b \in names : messageFromPath(a).ID = messageFromPath(b).ID => a = b
  BY <1>1 DEF IsTree, filesIn
<1> HIDE DEF names
<1> QED
  BY <1>4, <1>5, <1>6 DEF readable, names

\* The state of an empty mailbox.
LEMMA StateOfNothing == StateOf(emptyMailboxState, {})
<1>1. messagesOf({}) = {} /\ IsFiniteSet({})
  BY FS_EmptySet DEF messagesOf
<1>2. octetsOf({}) = 0
  <2>1. HaveSizes({})
    BY <1>1 DEF HaveSizes
  <2> QED
    BY <2>1, OctetsFacts
<1>3. directoriesOf({}) = {}
  BY DEF directoriesOf
<1>4. countsOf({}) = <<>>
  <2>1. DOMAIN countsOf({}) = {} /\ countsOf({}) = [p \in {} |-> Cardinality(under({}, p))]
    BY <1>3 DEF countsOf
  <2> QED
    BY <2>1
<1>5. IsTree({}, 0) /\ 0 \in 0 .. MaxID
  BY <1>1, MaxIDAssumption DEF IsTree
<1> QED
  BY <1>1, <1>2, <1>4, <1>5 DEF StateOf, emptyMailboxState

-----------------------------------------------------------------------------
(* IDs and the order of their leaves. *)

\* Two spellings of the same length differ first at j, where d is less.
firstLess(d, e, j) ==
    /\ Len(d) = Len(e)
    /\ d[j] < e[j]
    /\ \A k \in 1 .. j - 1 : d[k] = e[k]

\* Digits of the same number are ordered as the numbers.
LEMMA DigitsLess ==
    \A x \in 0 .. MaxID : \A y \in 0 .. MaxID : \A j \in 1 .. Len(digits[x]) :
        firstLess(digits[x], digits[y], j) => x < y
<1> DEFINE good(x, y, j) == firstLess(digits[x], digits[y], j) => x < y
           S == {x \in Nat : x <= MaxID =>
                    \A y \in 0 .. MaxID : \A j \in 1 .. Len(digits[x]) : good(x, y, j)}
<1>1. MaxID \in Nat /\ Radix \in Nat /\ Radix > 1
  BY MaxIDAssumption, RadixAssumption
<1>2. ASSUME NEW x \in Nat, \A m \in 0 .. x - 1 : m \in S PROVE x \in S
  <2> SUFFICES ASSUME x <= MaxID, NEW y \in 0 .. MaxID, NEW j \in 1 .. Len(digits[x]),
                      firstLess(digits[x], digits[y], j)
               PROVE  x < y
    OBVIOUS
  <2> DEFINE p == x \div Radix
             r == x % Radix
             q == y \div Radix
             s == y % Radix
             d == digits[p]
             e == digits[q]
             n == Len(d)
  <2>0. digits[x] \in Seq(0 .. Radix - 1) /\ digits[y] \in Seq(0 .. Radix - 1) /\ y \in Nat
    BY DigitsRecursion, <1>1
  <2>1. x # 0 /\ y # 0
    <3>1. Len(digits[x]) # 0 /\ Len(digits[y]) # 0
      BY <2>0 DEF firstLess
    <3>2. Len(digits[0]) = 0
      BY DigitsRecursion
    <3> QED
      BY <3>1, <3>2
  <2>2. /\ p \in Nat /\ r \in 0 .. Radix - 1 /\ x = p * Radix + r /\ p < x
        /\ q \in Nat /\ s \in 0 .. Radix - 1 /\ y = q * Radix + s /\ q < y
    BY <2>0, <2>1, Division
  <2>3. /\ digits[x] = Append(d, r) /\ d \in Seq(0 .. Radix - 1)
        /\ digits[y] = Append(e, s) /\ e \in Seq(0 .. Radix - 1)
    BY <2>0, <2>1, <2>2, DigitsRecursion
  <2>4. p \in 0 .. x - 1 /\ p \in 0 .. MaxID /\ q \in 0 .. MaxID
    BY <1>1, <2>0, <2>2
  <2> HIDE DEF p, q, r, s, d, e
  <2>5. /\ n \in Nat /\ Len(e) = n /\ Len(digits[x]) = n + 1 /\ j \in 1 .. n + 1
        /\ \A k \in 1 .. n : digits[x][k] = d[k] /\ digits[y][k] = e[k]
        /\ digits[x][n + 1] = r /\ digits[y][n + 1] = s
    BY <2>3 DEF firstLess
  <2>6. p * Radix \in Nat /\ q * Radix \in Nat
    BY <1>1, <2>2
  <2>7. CASE j = n + 1
    <3>1. \A k \in 1 .. n : d[k] = e[k]
      BY <2>5, <2>7 DEF firstLess
    <3>2. d = e
      BY <2>3, <2>5, <3>1
    <3>3. p = q
      BY <2>4, <3>2, ParseInverse DEF d, e
    <3>4. r < s
      BY <2>5, <2>7 DEF firstLess
    <3>5. p * Radix = q * Radix
      BY <3>3
    <3> QED
      BY <1>1, <2>2, <2>6, <3>4, <3>5
  <2>8. CASE j # n + 1
    <3>1. j \in 1 .. n
      BY <2>5, <2>8
    <3>2. firstLess(d, e, j)
      <4>1. \A k \in 1 .. j - 1 : k \in 1 .. n
        BY <2>5, <3>1
      <4> QED
        BY <2>5, <3>1, <4>1 DEF firstLess
    <3>3. p \in S
      BY <1>2, <2>4
    <3>4. p < q
      BY <2>4, <3>1, <3>2, <3>3 DEF d, e
    <3>5. (p + 1) * Radix <= q * Radix
      BY <1>1, <2>2, <3>4
    <3>6. (p + 1) * Radix = p * Radix + Radix
      BY <1>1, <2>2
    <3> QED
      BY <1>1, <2>2, <2>6, <3>5, <3>6
  <2> QED
    BY <2>7, <2>8
<1>3. S = Nat
  <2>1. S \in SUBSET Nat
    OBVIOUS
  <2> HIDE DEF S
  <2> QED
    BY <1>2, <2>1, NumberInduction
<1> QED
  BY <1>1, <1>3

\* A leaf that comes first has the smaller IDs.
LEMMA LeafOrder ==
    ASSUME NEW a \in 1 .. MaxID, NEW b \in 1 .. MaxID,
           pathLess(leafDirectory[a], leafDirectory[b])
    PROVE  a < b
<1> DEFINE p == leafDirectory[a]
           q == leafDirectory[b]
           x == a \div Radix
           y == b \div Radix
           d == digits[x]
           e == digits[y]
           m == Len(digits[a])
           n == Len(digits[b])
<1>0. MaxID \in Nat /\ a \in Nat /\ b \in Nat /\ a # 0 /\ b # 0 /\ a <= MaxID /\ b <= MaxID
  BY MaxIDAssumption
<1>1. /\ x \in Nat /\ d \in Seq(0 .. Radix - 1) /\ p = <<m>> \o d /\ p \in Seq(Nat)
      /\ Len(p) = m /\ m = Len(d) + 1 /\ m \in Nat /\ p[1] = m
  BY LeafFacts
<1>2. /\ y \in Nat /\ e \in Seq(0 .. Radix - 1) /\ q = <<n>> \o e /\ q \in Seq(Nat)
      /\ Len(q) = n /\ n = Len(e) + 1 /\ n \in Nat /\ q[1] = n
  BY LeafFacts
<1>3. x \in 0 .. MaxID /\ y \in 0 .. MaxID
  <2>1. x < a /\ y < b
    BY <1>0, Division
  <2> HIDE DEF x, y
  <2> QED
    BY <1>0, <1>1, <1>2, <2>1
<1>4. a >= b => m >= n
  <2>1. ASSUME a >= b PROVE m >= n
    <3>1. b \in 0 .. a
      BY <1>0, <2>1
    <3>2. n <= m
      BY <1>0, <3>1, DepthMonotone
    <3> QED
      BY <1>1, <1>2, <3>2
  <2> QED
    BY <2>1
<1>5. a >= b => x >= y
  <2>1. ASSUME a >= b PROVE x >= y
    <3>1. b \in 0 .. a
      BY <1>0, <2>1
    <3>2. y <= x
      BY <1>0, <3>1, DivisionMonotone
    <3> QED
      BY <1>1, <1>2, <3>2
  <2> QED
    BY <2>1
<1>p. pathLess(p, q)
  OBVIOUS
<1> HIDE DEF p, q, x, y, d, e, m, n
<1>6. PICK i \in Nat \ {0} : differAt(p, q, i)
  BY <1>1, <1>2, <1>p, PathLessIsFirstDifference
<1>7. CASE i = 1
  <2>1. component(p, 1) = m /\ component(q, 1) = n
    <3>1. 1 <= Len(p) /\ 1 <= Len(q)
      BY <1>1, <1>2
    <3> QED
      BY <1>1, <1>2, <3>1 DEF component
  <2>2. m < n
    BY <1>6, <1>7, <2>1 DEF differAt
  <2> QED
    BY <1>0, <1>1, <1>2, <1>4, <2>2
<1>8. CASE i # 1
  <2>1. i - 1 \in Nat \ {0} /\ 1 \in 1 .. i - 1
    BY <1>6, <1>8
  <2>2. m = n
    <3>1. component(p, 1) = component(q, 1)
      BY <1>6, <2>1 DEF differAt
    <3>2. 1 <= Len(p) /\ 1 <= Len(q)
      BY <1>1, <1>2
    <3> QED
      BY <1>1, <1>2, <3>1, <3>2 DEF component
  <2>3. i <= m
    <3> SUFFICES ASSUME ~(i <= m) PROVE FALSE
      OBVIOUS
    <3>1. component(p, i) = -1 /\ component(q, i) = -1
      BY <1>1, <1>2, <2>2 DEF component
    <3> QED
      BY <1>6, <3>1 DEF differAt
  <2>4. \A k \in 1 .. i : component(p, k) = p[k] /\ component(q, k) = q[k]
    <3>1. \A k \in 1 .. i : k <= m
      BY <1>1, <1>6, <2>3
    <3> QED
      BY <1>1, <1>2, <2>2, <3>1 DEF component
  <2>5. \A k \in 1 .. Len(d) : p[k + 1] = d[k] /\ q[k + 1] = e[k]
    BY <1>1, <1>2, <2>2
  <2>6. firstLess(d, e, i - 1)
    <3>1. Len(d) = Len(e) /\ Len(d) \in Nat /\ Len(e) \in Nat
      BY <1>1, <1>2, <2>2
    <3>2. i - 1 \in 1 .. Len(d) /\ (i - 1) + 1 = i /\ i \in 1 .. i
      BY <1>1, <1>6, <2>1, <2>3, <3>1
    <3>3. d[i - 1] < e[i - 1]
      BY <1>6, <2>4, <2>5, <3>2 DEF differAt
    <3>4. ASSUME NEW k \in 1 .. (i - 1) - 1 PROVE d[k] = e[k]
      <4>1. k \in 1 .. Len(d) /\ k + 1 \in 1 .. i - 1 /\ k + 1 \in 1 .. i
        BY <1>6, <3>1, <3>2
      <4>2. p[k + 1] = q[k + 1]
        BY <1>6, <2>4, <4>1 DEF differAt
      <4> QED
        BY <2>5, <4>1, <4>2
    <3> QED
      BY <3>1, <3>3, <3>4 DEF firstLess
  <2>7. i - 1 \in 1 .. Len(d)
    BY <1>1, <1>6, <2>1, <2>3
  <2>8. x < y
    BY <1>3, <2>6, <2>7, DigitsLess DEF d, e
  <2> QED
    BY <1>0, <1>1, <1>2, <1>5, <2>8
<1> QED
  BY <1>7, <1>8

-----------------------------------------------------------------------------
(* The cumulative counts of the index. *)

\* The files in the first i of the leaves.
before(tree, paths, i) == {name \in tree : \E j \in 1 .. i : leafOf(name) = paths[j]}

\* What buildDirectoryIndex answers for a tree: its leaves in path order, each
\* with the number of its files and of those up to its end.
Leaves(tree, paths, n) ==
    [i \in 1 .. n |-> [path |-> paths[i], count |-> Cardinality(filesIn(tree, paths[i])),
                       accumulated |-> Cardinality(before(tree, paths, i))]]

\* The leaves of a tree in path order, each once.
IsListing(tree, paths, n) ==
    /\ n \in Nat
    /\ \A i \in 1 .. n : \E name \in tree : leafOf(name) = paths[i]
    /\ \A i, j \in 1 .. n : i < j => pathLess(paths[i], paths[j]) /\ paths[i] # paths[j]
    /\ \A name \in tree : \E i \in 1 .. n : leafOf(name) = paths[i]

\* Leaf by leaf the files are counted.
LEMMA BeforeFacts ==
    ASSUME NEW tree, IsFiniteSet(tree), NEW paths, NEW n, IsListing(tree, paths, n)
    PROVE  /\ before(tree, paths, 0) = {} /\ before(tree, paths, n) = tree
           /\ \A i \in 0 .. n : Cardinality(before(tree, paths, i)) \in Nat
           /\ \A i \in 1 .. n :
                 /\ before(tree, paths, i) = before(tree, paths, i - 1) \cup filesIn(tree, paths[i])
                 /\ before(tree, paths, i - 1) \cap filesIn(tree, paths[i]) = {}
                 /\ Cardinality(filesIn(tree, paths[i])) \in Nat
                 /\ Cardinality(before(tree, paths, i))
                       = Cardinality(before(tree, paths, i - 1)) + Cardinality(filesIn(tree, paths[i]))
<1>1. n \in Nat /\ \A i, j \in 1 .. n : i < j => paths[i] # paths[j]
  BY DEF IsListing
<1>2. before(tree, paths, 0) = {}
  BY DEF before
<1>3. before(tree, paths, n) = tree
  BY DEF before, IsListing
<1>4. \A i : IsFiniteSet(before(tree, paths, i)) /\ Cardinality(before(tree, paths, i)) \in Nat
  BY FS_Subset, FS_CardinalityType DEF before
<1>5. \A p : IsFiniteSet(filesIn(tree, p)) /\ Cardinality(filesIn(tree, p)) \in Nat
  BY FS_Subset, FS_CardinalityType DEF filesIn
<1>6. ASSUME NEW i \in 1 .. n
      PROVE  /\ before(tree, paths, i) = before(tree, paths, i - 1) \cup filesIn(tree, paths[i])
             /\ before(tree, paths, i - 1) \cap filesIn(tree, paths[i]) = {}
             /\ Cardinality(before(tree, paths, i))
                   = Cardinality(before(tree, paths, i - 1)) + Cardinality(filesIn(tree, paths[i]))
  <2> DEFINE A == before(tree, paths, i - 1)
             B == filesIn(tree, paths[i])
  <2>1. \A j \in 1 .. i : j \in 1 .. i - 1 \/ j = i
    BY <1>1
  <2>2. i \in 1 .. i /\ \A j \in 1 .. i - 1 : j \in 1 .. i /\ j \in 1 .. n /\ j < i
    BY <1>1
  <2>3. before(tree, paths, i) = A \cup B
    BY <2>1, <2>2 DEF before, filesIn, leafOf
  <2>4. A \cap B = {}
    BY <1>1, <2>2 DEF before, filesIn, leafOf
  <2>5. IsFiniteSet(A) /\ IsFiniteSet(B)
    BY <1>4, <1>5
  <2> HIDE DEF A, B
  <2>6. Cardinality(A \cup B) = Cardinality(A) + Cardinality(B)
    <3>1. Cardinality(A \cap B) = 0
      BY <2>4, FS_EmptySet
    <3>2. Cardinality(A) \in Nat /\ Cardinality(B) \in Nat
      BY <2>5, FS_CardinalityType
    <3>3. Cardinality(A \cup B) = Cardinality(A) + Cardinality(B) - Cardinality(A \cap B)
      BY <2>5, FS_Union
    <3>4. Cardinality(A) + Cardinality(B) - 0 = Cardinality(A) + Cardinality(B)
      BY <3>2
    <3> QED
      BY <3>1, <3>3, <3>4
  <2> QED
    BY <2>3, <2>4, <2>6 DEF A, B
<1> QED
  BY <1>2, <1>3, <1>4, <1>5, <1>6

\* The recursion of buildDirectoryIndex.
AccumulatedSteps(f, counts, paths, n) ==
    \A i \in 0 .. n : f[i] = IF i = 0 THEN 0 ELSE f[i - 1] + counts[paths[i]]

\* There is only one such function.
LEMMA AccumulatedUnique ==
    ASSUME NEW n \in Nat, NEW counts, NEW paths,
           NEW f, AccumulatedSteps(f, counts, paths, n),
           NEW g, AccumulatedSteps(g, counts, paths, n)
    PROVE  \A i \in 0 .. n : f[i] = g[i]
<1> DEFINE T == {i \in 0 .. n : f[i] # g[i]}
<1> SUFFICES ASSUME T # {} PROVE FALSE
  OBVIOUS
<1>1. T \in SUBSET Nat
  OBVIOUS
<1>2. PICK x \in T : \A y \in T : x <= y
  <2> HIDE DEF T
  <2> QED
    BY <1>1, LeastNumber
<1>3. x \in 0 .. n /\ f[x] # g[x] /\ x \in Nat
  OBVIOUS
<1>4. x # 0
  BY <1>3 DEF AccumulatedSteps
<1>5. x - 1 \in 0 .. n /\ ~(x <= x - 1)
  BY <1>3, <1>4
<1>6. f[x - 1] = g[x - 1]
  BY <1>2, <1>5
<1> HIDE DEF T
<1> QED
  BY <1>3, <1>4, <1>6 DEF AccumulatedSteps

\* The same as buildDirectoryIndex defines it.
AccumulatedRecursive(f, counts, paths) ==
    f = [i \in 0 .. Len(paths) |-> IF i = 0 THEN 0 ELSE f[i - 1] + counts[paths[i]]]

\* The index of a tree.
LEMMA IndexOfTree ==
    ASSUME NEW lastID \in 0 .. MaxID, NEW tree, IsTree(tree, lastID)
    PROVE  \E paths, n :
              /\ IsListing(tree, paths, n)
              /\ buildDirectoryIndex(countsOf(tree)).leaves = Leaves(tree, paths, n)
<1> DEFINE counts == countsOf(tree)
           S == leavesOf(counts)
           paths == sorted(S, pathLess)
           n == Cardinality(S)
           index == buildDirectoryIndex(counts)
<1>1. /\ S \in SUBSET Seq(Nat) /\ IsFiniteSet(S) /\ S = {leafOf(name) : name \in tree}
      /\ \A p \in S : counts[p] = Cardinality(filesIn(tree, p))
  BY LeavesOfTree
<1>2. n \in Nat /\ IsFiniteSet(tree)
  BY <1>1, FS_CardinalityType DEF IsTree
<1>3. IsSorting(paths, S, pathOrder(S)) /\ IsOrder(pathOrder(S), S)
  BY <1>1, SortedPaths, PathOrder
<1> HIDE DEF S, paths, n
<1>4. /\ paths = [i \in 1 .. n |-> paths[i]] /\ Len(paths) = n
      /\ \A i \in 1 .. n : paths[i] \in S
      /\ \A x \in S : \E i \in 1 .. n : paths[i] = x
      /\ \A i, j \in 1 .. n : i < j => <<paths[i], paths[j]>> \in pathOrder(S)
  <2>1. /\ paths = [i \in 1 .. n |-> paths[i]]
        /\ \A i \in 1 .. n : paths[i] \in S
        /\ \A x \in S : \E i \in 1 .. n : paths[i] = x
        /\ \A i, j \in 1 .. n : i < j => <<paths[i], paths[j]>> \in pathOrder(S)
    BY <1>3 DEF IsSorting, n
  <2>2. paths \in Seq({paths[i] : i \in 1 .. n}) /\ DOMAIN paths = 1 .. n
    BY <1>2, <2>1
  <2>3. Len(paths) = n
    BY <1>2, <2>2
  <2> QED
    BY <2>1, <2>3
<1>5. IsListing(tree, paths, n)
  <2>1. ASSUME NEW i \in 1 .. n, NEW j \in 1 .. n, i < j
        PROVE  pathLess(paths[i], paths[j]) /\ paths[i] # paths[j]
    <3>1. <<paths[i], paths[j]>> \in pathOrder(S)
      BY <1>4, <2>1
    <3>2. pathLess(paths[i], paths[j])
      BY <3>1 DEF pathOrder
    <3>3. paths[i] # paths[j]
      BY <1>3, <1>4, <3>1 DEF IsOrder
    <3> QED
      BY <3>2, <3>3
  <2>2. \A i \in 1 .. n : \E name \in tree : leafOf(name) = paths[i]
    BY <1>1, <1>4
  <2>3. \A name \in tree : \E i \in 1 .. n : leafOf(name) = paths[i]
    BY <1>1, <1>4
  <2> QED
    BY <1>2, <2>1, <2>2, <2>3 DEF IsListing
<1> DEFINE f == [i \in 0 .. n |-> Cardinality(before(tree, paths, i))]
           acc == CHOOSE g : AccumulatedRecursive(g, counts, paths)
<1>6. AccumulatedSteps(f, counts, paths, n)
  <2> SUFFICES ASSUME NEW i \in 0 .. n
               PROVE  f[i] = IF i = 0 THEN 0 ELSE f[i - 1] + counts[paths[i]]
    BY DEF AccumulatedSteps
  <2>1. CASE i = 0
    <3>1. f[0] = Cardinality({})
      BY <1>2, <1>5, <2>1, BeforeFacts
    <3> QED
      BY <2>1, <3>1, FS_EmptySet
  <2>2. CASE i # 0
    <3>1. i \in 1 .. n /\ i - 1 \in 0 .. n
      BY <1>2, <2>2
    <3>2. Cardinality(before(tree, paths, i))
            = Cardinality(before(tree, paths, i - 1)) + Cardinality(filesIn(tree, paths[i]))
      BY <1>2, <1>5, <3>1, BeforeFacts
    <3>3. counts[paths[i]] = Cardinality(filesIn(tree, paths[i]))
      BY <1>1, <1>4, <3>1
    <3>4. f[i] = Cardinality(before(tree, paths, i))
          /\ f[i - 1] = Cardinality(before(tree, paths, i - 1))
      BY <3>1
    <3> QED
      BY <2>2, <3>2, <3>3, <3>4
  <2> QED
    BY <2>1, <2>2
<1>7. AccumulatedRecursive(f, counts, paths)
  <2>1. f = [i \in 0 .. n |-> f[i]]
    OBVIOUS
  <2> HIDE DEF f, counts
  <2>2. f = [i \in 0 .. n |-> IF i = 0 THEN 0 ELSE f[i - 1] + counts[paths[i]]]
    BY <1>6, <2>1 DEF AccumulatedSteps
  <2> QED
    BY <1>4, <2>2 DEF AccumulatedRecursive
<1>8. AccumulatedRecursive(acc, counts, paths)
  <2> HIDE DEF f, counts
  <2> QED
    BY <1>7
<1>9. AccumulatedSteps(acc, counts, paths, n)
  <2> HIDE DEF acc, counts
  <2> QED
    BY <1>4, <1>8 DEF AccumulatedRecursive, AccumulatedSteps
<1>10. \A i \in 0 .. n : acc[i] = f[i]
  <2> HIDE DEF acc, counts, f
  <2> QED
    BY <1>2, <1>6, <1>9, AccumulatedUnique
<1>11. index.leaves = [i \in 1 .. Len(paths) |->
                        [path |-> paths[i], count |-> counts[paths[i]], accumulated |-> acc[i]]]
  <2> HIDE DEF counts
  <2> QED
    BY DEF buildDirectoryIndex, AccumulatedRecursive, paths, S
<1> HIDE DEF acc, counts, index
<1>12. ASSUME NEW i \in 1 .. n
       PROVE  /\ counts[paths[i]] = Cardinality(filesIn(tree, paths[i]))
              /\ acc[i] = Cardinality(before(tree, paths, i))
  <2>1. i \in 0 .. n
    BY <1>2
  <2> QED
    BY <1>1, <1>4, <1>10, <2>1
<1>13. index.leaves = Leaves(tree, paths, n)
  BY <1>4, <1>11, <1>12 DEF Leaves
<1> QED
  BY <1>5, <1>13 DEF index, counts

-----------------------------------------------------------------------------
(* Sorting in parts. *)

\* A finite set has one sorting.
LEMMA SortingUnique ==
    ASSUME NEW S, IsFiniteSet(S), NEW R, IsOrder(R, S),
           NEW q, IsSorting(q, S, R), NEW r, IsSorting(r, S, R)
    PROVE  q = r
<1> DEFINE n == Cardinality(S)
           T == {i \in 1 .. n : q[i] # r[i]}
<1>1. n \in Nat
  BY FS_CardinalityType
<1>2. /\ q = [i \in 1 .. n |-> q[i]] /\ r = [i \in 1 .. n |-> r[i]]
      /\ \A i \in 1 .. n : q[i] \in S /\ r[i] \in S
      /\ \A x \in S : \E i \in 1 .. n : q[i] = x
      /\ \A x \in S : \E i \in 1 .. n : r[i] = x
      /\ \A i, j \in 1 .. n : i < j => <<q[i], q[j]>> \in R /\ <<r[i], r[j]>> \in R
  BY DEF IsSorting
<1> HIDE DEF n
<1> SUFFICES ASSUME T # {} PROVE FALSE
  BY <1>2
<1>3. T \in SUBSET Nat
  BY <1>1
<1>4. PICK x \in T : \A y \in T : x <= y
  <2> HIDE DEF T
  <2> QED
    BY <1>3, LeastNumber
<1>5. x \in 1 .. n /\ q[x] # r[x] /\ x \in Nat
  BY <1>3
<1>6. \A y \in 1 .. n : y < x => q[y] = r[y]
  BY <1>1, <1>4, <1>5
<1>7. PICK j \in 1 .. n : r[j] = q[x]
  BY <1>2, <1>5
<1>8. PICK k \in 1 .. n : q[k] = r[x]
  BY <1>2, <1>5
<1> HIDE DEF T
<1>9. ~(j < x) /\ j # x
  BY <1>2, <1>5, <1>6, <1>7 DEF IsOrder
<1>10. ~(k < x) /\ k # x
  BY <1>2, <1>5, <1>6, <1>8 DEF IsOrder
<1>11. x < j /\ x < k
  BY <1>1, <1>5, <1>9, <1>10
<1>12. <<r[x], q[x]>> \in R /\ <<q[x], r[x]>> \in R
  BY <1>2, <1>5, <1>7, <1>8, <1>11
<1> QED
  BY <1>2, <1>5, <1>12 DEF IsOrder

\* Messages that can be put in the order of their IDs.
IsMessages(S) ==
    /\ IsFiniteSet(S)
    /\ \A a \in S : a.ID \in Nat
    /\ \A a, b \in S : a.ID = b.ID => a = b

\* Messages in the order of their IDs: as many as there are, and each one once.
LEMMA SortedFacts ==
    ASSUME NEW S, IsMessages(S)
    PROVE  /\ Cardinality(S) \in Nat
           /\ sorted(S, byID) \in Seq(S) /\ Len(sorted(S, byID)) = Cardinality(S)
           /\ Range(sorted(S, byID)) = S
           /\ IsOrder(idOrder(S), S) /\ IsSorting(sorted(S, byID), S, idOrder(S))
<1> DEFINE q == sorted(S, byID)
           n == Cardinality(S)
<1>1. IsOrder(idOrder(S), S) /\ IsSorting(q, S, idOrder(S))
  BY SortedMessages DEF IsMessages
<1>2. n \in Nat
  BY FS_CardinalityType DEF IsMessages
<1> HIDE DEF q
<1>3. /\ q = [i \in 1 .. n |-> q[i]]
      /\ \A i \in 1 .. n : q[i] \in S
      /\ \A x \in S : \E i \in 1 .. n : q[i] = x
  BY <1>1 DEF IsSorting
<1> HIDE DEF n
<1>4. q \in Seq(S) /\ Len(q) = n
  BY <1>2, <1>3
<1>5. Range(q) = S
  BY <1>3 DEF Range
<1> QED
  BY <1>1, <1>2, <1>4, <1>5 DEF n, q

\* If all messages of one set come before all of another, their lists can be
\* concatenated.
LEMMA SortedConcat ==
    ASSUME NEW P, NEW Q, IsMessages(P), IsMessages(Q), \A a \in P, b \in Q : a.ID < b.ID
    PROVE  /\ IsMessages(P \cup Q)
           /\ sorted(P \cup Q, byID) = sorted(P, byID) \o sorted(Q, byID)
           /\ Cardinality(P \cup Q) = Cardinality(P) + Cardinality(Q)
<1> DEFINE S == P \cup Q
           m == Cardinality(P)
           n == Cardinality(Q)
           p == sorted(P, byID)
           q == sorted(Q, byID)
           r == p \o q
<1>1. \A a \in P, b \in Q : a.ID < b.ID /\ a.ID # b.ID
  BY DEF IsMessages
<1>2. IsMessages(S)
  <2>1. IsFiniteSet(S)
    BY FS_Union DEF IsMessages
  <2>2. \A a \in S : a.ID \in Nat
    BY DEF IsMessages
  <2>3. \A a, b \in S : a.ID = b.ID => a = b
    BY <1>1 DEF IsMessages
  <2> QED
    BY <2>1, <2>2, <2>3 DEF IsMessages
<1>3. m \in Nat /\ n \in Nat
  BY SortedFacts
<1>4. Cardinality(S) = m + n
  <2>1. Cardinality(P \cap Q) = 0
    <3>1. P \cap Q = {}
      BY <1>1
    <3> QED
      BY <3>1, FS_EmptySet
  <2>2. Cardinality(S) = m + n - Cardinality(P \cap Q)
    BY FS_Union DEF IsMessages
  <2>3. m + n - 0 = m + n
    BY <1>3
  <2> QED
    BY <2>1, <2>2, <2>3
<1>5. p \in Seq(P) /\ Len(p) = m /\ IsSorting(p, P, idOrder(P))
  BY SortedFacts
<1>6. q \in Seq(Q) /\ Len(q) = n /\ IsSorting(q, Q, idOrder(Q))
  BY SortedFacts
<1>7. \A i \in 1 .. m : p[i] \in P
  BY <1>5
<1>8. \A i \in 1 .. n : q[i] \in Q
  BY <1>6
<1> HIDE DEF p, q
<1>9. /\ r = [i \in 1 .. m + n |-> r[i]]
      /\ \A i \in 1 .. m : r[i] = p[i]
      /\ \A i \in 1 .. n : r[m + i] = q[i]
  <2>1. p \in Seq(S) /\ q \in Seq(S)
    BY <1>5, <1>6
  <2>2. r \in Seq(S) /\ Len(r) = m + n
    BY <1>5, <1>6, <2>1
  <2>3. \A i \in 1 .. m : r[i] = p[i]
    BY <1>3, <1>5, <1>6, <2>1
  <2>4. \A i \in 1 .. n : r[m + i] = q[i]
    BY <1>3, <1>5, <1>6, <2>1
  <2> HIDE DEF r
  <2>5. r = [i \in 1 .. m + n |-> r[i]]
    <3>1. r = [i \in 1 .. Len(r) |-> r[i]]
      BY <2>2, SeqDef
    <3> QED
      BY <2>2, <3>1
  <2> QED
    BY <2>3, <2>4, <2>5 DEF r
<1> HIDE DEF r, m, n
<1>10. ASSUME NEW i \in 1 .. m + n PROVE i \in 1 .. m \/ \E j \in 1 .. n : i = m + j
  <2>1. CASE i <= m
    BY <1>3, <2>1
  <2>2. CASE ~(i <= m)
    <3>1. i - m \in 1 .. n /\ i = m + (i - m)
      BY <1>3, <2>2
    <3> QED
      BY <3>1
  <2> QED
    BY <2>1, <2>2
<1>11. (\A i \in 1 .. m : i \in 1 .. m + n) /\ \A i \in 1 .. n : m + i \in 1 .. m + n
  BY <1>3
<1>12. \A i \in 1 .. m + n : r[i] \in S
  BY <1>7, <1>8, <1>9, <1>10
<1>13. \A x \in S : \E i \in 1 .. m + n : r[i] = x
  <2>1. ASSUME NEW x \in P PROVE \E i \in 1 .. m + n : r[i] = x
    BY <1>5, <1>9, <1>11 DEF IsSorting, m
  <2>2. ASSUME NEW x \in Q PROVE \E i \in 1 .. m + n : r[i] = x
    <3>1. PICK i \in 1 .. n : q[i] = x
      BY <1>6 DEF IsSorting, n
    <3> QED
      BY <1>9, <1>11, <3>1
  <2> QED
    BY <2>1, <2>2
<1>14. ASSUME NEW i \in 1 .. m + n, NEW j \in 1 .. m + n, i < j PROVE byID(r[i], r[j])
  <2>1. CASE i \in 1 .. m /\ j \in 1 .. m
    <3>1. <<p[i], p[j]>> \in idOrder(P)
      BY <1>5, <1>14, <2>1 DEF IsSorting, m
    <3> QED
      BY <1>9, <2>1, <3>1 DEF idOrder
  <2>2. CASE i \in 1 .. m /\ \E l \in 1 .. n : j = m + l
    BY <1>1, <1>7, <1>8, <1>9, <2>2 DEF byID
  <2>3. ASSUME NEW k \in 1 .. n, i = m + k, NEW l \in 1 .. n, j = m + l PROVE byID(r[i], r[j])
    <3>1. k < l
      BY <1>3, <1>14, <2>3
    <3>2. <<q[k], q[l]>> \in idOrder(Q)
      BY <1>6, <3>1 DEF IsSorting, n
    <3> QED
      BY <1>9, <2>3, <3>2 DEF idOrder
  <2>4. ASSUME NEW k \in 1 .. n, i = m + k, j \in 1 .. m PROVE FALSE
    BY <1>3, <1>14, <2>4
  <2> QED
    BY <1>10, <2>1, <2>2, <2>3, <2>4
<1>15. \A i, j \in 1 .. m + n : i < j => <<r[i], r[j]>> \in idOrder(S)
  BY <1>12, <1>14 DEF idOrder
<1> HIDE DEF S
<1>16. IsSorting(r, S, idOrder(S))
  BY <1>4, <1>9, <1>12, <1>13, <1>15 DEF IsSorting
<1>17. IsSorting(sorted(S, byID), S, idOrder(S)) /\ IsOrder(idOrder(S), S)
  BY <1>2, SortedFacts
<1>18. sorted(S, byID) = r
  BY <1>2, <1>16, <1>17, SortingUnique DEF IsMessages
<1> QED
  BY <1>2, <1>4, <1>18 DEF S, r, m, n, p, q

-----------------------------------------------------------------------------
(* Listings, leaf by leaf. *)

\* The messages of a part of a tree can be put in order.
LEMMA MessagesOfPart ==
    ASSUME NEW lastID \in 0 .. MaxID, NEW tree, IsTree(tree, lastID), NEW part \in SUBSET tree
    PROVE  /\ IsMessages(messagesOf(part))
           /\ Cardinality(messagesOf(part)) = Cardinality(part)
<1>1. IsFiniteSet(messagesOf(part)) /\ Cardinality(messagesOf(part)) = Cardinality(part)
  BY FilesAndMessages
<1>2. \A a \in messagesOf(part) : a.ID \in Nat
  BY TreeFacts DEF messagesOf, IsFile
<1>3. \A a, b \in messagesOf(part) : a.ID = b.ID => a = b
  BY DEF messagesOf, IsTree
<1> QED
  BY <1>1, <1>2, <1>3 DEF IsMessages

\* The messages of some files, as a reader lists them.
listed(part) == sorted(messagesOf(part), byID)

\* One list is two others, one after the other.
joins(s, a, b) == s = a \o b

\* All messages of the one part come before those of the other.
precede(A, B) == \A a \in A, b \in B : messageFromPath(a).ID < messageFromPath(b).ID

\* The list of a part has as many messages as the part has files.
LEMMA ListedFacts ==
    ASSUME NEW lastID \in 0 .. MaxID, NEW tree, IsTree(tree, lastID), NEW part \in SUBSET tree
    PROVE  /\ listed(part) \in Seq(messagesOf(tree))
           /\ Len(listed(part)) = Cardinality(part) /\ Cardinality(part) \in Nat
<1> DEFINE P == messagesOf(part)
<1>1. IsMessages(P) /\ Cardinality(P) = Cardinality(part)
  BY MessagesOfPart
<1>2. P \subseteq messagesOf(tree)
  BY DEF messagesOf
<1> HIDE DEF P
<1>3. /\ sorted(P, byID) \in Seq(P) /\ Len(sorted(P, byID)) = Cardinality(P)
      /\ Cardinality(P) \in Nat
  BY <1>1, SortedFacts
<1>4. sorted(P, byID) \in Seq(messagesOf(tree))
  BY <1>2, <1>3, SeqMonotonic
<1>5. listed(part) = sorted(P, byID)
  BY DEF listed, P
<1> QED
  BY <1>1, <1>3, <1>4, <1>5

\* Two parts of a tree, the one before the other.
LEMMA ListedConcat ==
    ASSUME NEW lastID \in 0 .. MaxID, NEW tree, IsTree(tree, lastID),
           NEW A \in SUBSET tree, NEW B \in SUBSET tree, precede(A, B)
    PROVE  joins(listed(A \cup B), listed(A), listed(B))
<1> DEFINE P == messagesOf(A)
           Q == messagesOf(B)
<1>1. IsMessages(P) /\ IsMessages(Q)
  BY MessagesOfPart
<1>2. messagesOf(A \cup B) = P \cup Q
  BY DEF messagesOf
<1>3. \A a \in P, b \in Q : a.ID < b.ID
  BY DEF messagesOf, precede
<1> HIDE DEF P, Q
<1>4. sorted(P \cup Q, byID) = sorted(P, byID) \o sorted(Q, byID)
  BY <1>1, <1>3, SortedConcat
<1>5. listed(A) = sorted(P, byID) /\ listed(B) = sorted(Q, byID)
  BY DEF listed, P, Q
<1>6. listed(A \cup B) = sorted(P \cup Q, byID)
  BY <1>2 DEF listed
<1> QED
  BY <1>4, <1>5, <1>6 DEF joins

\* The files of the first leaves have smaller IDs than all others.
LEMMA BeforeIsLess ==
    ASSUME NEW lastID \in 0 .. MaxID, NEW tree, IsTree(tree, lastID),
           NEW paths, NEW n, IsListing(tree, paths, n), NEW i \in 0 .. n,
           NEW a \in before(tree, paths, i), NEW b \in tree \ before(tree, paths, i)
    PROVE  messageFromPath(a).ID < messageFromPath(b).ID
<1> DEFINE x == messageFromPath(a).ID
           y == messageFromPath(b).ID
<1>1. n \in Nat /\ i \in Nat /\ i <= n
  BY DEF IsListing
<1>2. PICK j \in 1 .. i : leafOf(a) = paths[j]
  BY DEF before
<1>3. PICK k \in 1 .. n : leafOf(b) = paths[k]
  BY DEF IsListing
<1>4. k \notin 1 .. i
  BY <1>3 DEF before
<1>5. j \in 1 .. n /\ j < k
  BY <1>1, <1>4
<1>6. pathLess(paths[j], paths[k])
  BY <1>5 DEF IsListing
<1>7. a \in tree /\ b \in tree
  BY DEF before
<1>8. x \in 1 .. lastID /\ leafOf(a) = leafDirectory[x]
  BY <1>7, TreeFacts DEF IsFile
<1>9. y \in 1 .. lastID /\ leafOf(b) = leafDirectory[y]
  BY <1>7, TreeFacts DEF IsFile
<1>10. x \in 1 .. MaxID /\ y \in 1 .. MaxID
  BY <1>8, <1>9, MaxIDAssumption
<1> HIDE DEF x, y
<1>11. pathLess(leafDirectory[x], leafDirectory[y])
  BY <1>2, <1>3, <1>6, <1>8, <1>9
<1>12. x < y
  BY <1>10, <1>11, LeafOrder
<1> QED
  BY <1>12 DEF x, y

\* The lists grow by one listing per leaf, and each is the start of the whole.
LEMMA ListedSteps ==
    ASSUME NEW lastID \in 0 .. MaxID, NEW tree, IsTree(tree, lastID),
           NEW paths, NEW n, IsListing(tree, paths, n), NEW i \in 1 .. n
    PROVE  /\ joins(listed(before(tree, paths, i)),
                    listed(before(tree, paths, i - 1)), directory(tree, paths[i]))
           /\ joins(listed(tree),
                    listed(before(tree, paths, i)), listed(tree \ before(tree, paths, i)))
           /\ directory(tree, paths[i]) = listed(filesIn(tree, paths[i]))
<1> DEFINE A == before(tree, paths, i - 1)
           B == filesIn(tree, paths[i])
           C == before(tree, paths, i)
           D == tree \ C
<1>1. n \in Nat /\ i \in 0 .. n /\ i - 1 \in 0 .. n /\ IsFiniteSet(tree)
  BY DEF IsListing, IsTree
<1>2. A \in SUBSET tree /\ B \in SUBSET tree /\ C \in SUBSET tree /\ D \in SUBSET tree
  BY DEF before, filesIn
<1>3. C = A \cup B /\ A \cap B = {} /\ C \cup D = tree
  BY <1>1, <1>2, BeforeFacts
<1>4. B \subseteq tree \ A
  BY <1>2, <1>3
<1>5. precede(A, B)
  BY <1>1, <1>4, BeforeIsLess DEF precede
<1>6. precede(C, D)
  BY <1>1, BeforeIsLess DEF precede
<1>7. directory(tree, paths[i]) = listed(B)
  BY DEF directory, listed, messagesOf
<1> HIDE DEF A, B, C, D
<1>8. joins(listed(A \cup B), listed(A), listed(B))
  BY <1>2, <1>5, ListedConcat
<1>9. joins(listed(C \cup D), listed(C), listed(D))
  BY <1>2, <1>6, ListedConcat
<1> QED
  BY <1>3, <1>7, <1>8, <1>9 DEF A, B, C, D

\* Place k of a leaf's listing is place k after the leaves before it.
LEMMA PlaceInLeaf ==
    ASSUME NEW lastID \in 0 .. MaxID, NEW tree, IsTree(tree, lastID),
           NEW paths, NEW n, IsListing(tree, paths, n), NEW i \in 1 .. n,
           NEW k \in 1 .. Cardinality(filesIn(tree, paths[i]))
    PROVE  directory(tree, paths[i])[k] = listed(tree)[Cardinality(before(tree, paths, i - 1)) + k]
<1> DEFINE A == before(tree, paths, i - 1)
           B == filesIn(tree, paths[i])
           C == before(tree, paths, i)
           D == tree \ C
           place == Cardinality(A) + k
<1>0. n \in Nat /\ i - 1 \in 0 .. n /\ i \in 0 .. n /\ IsFiniteSet(tree)
  BY DEF IsListing, IsTree
<1>1. A \in SUBSET tree /\ B \in SUBSET tree /\ C \in SUBSET tree /\ D \in SUBSET tree
  BY DEF before, filesIn
<1>2. /\ joins(listed(C), listed(A), listed(B)) /\ joins(listed(tree), listed(C), listed(D))
      /\ directory(tree, paths[i]) = listed(B)
  <2> HIDE DEF A, B, C, D
  <2> QED
    BY ListedSteps DEF A, B, C, D
<1>3. Cardinality(C) = Cardinality(A) + Cardinality(B)
  BY <1>0, BeforeFacts
<1> HIDE DEF A, B, C, D
<1>4. \A S \in SUBSET tree : /\ listed(S) \in Seq(messagesOf(tree))
                             /\ Len(listed(S)) = Cardinality(S) /\ Cardinality(S) \in Nat
  BY ListedFacts
<1>5. k \in 1 .. Cardinality(B) /\ k \in Nat
  <2>1. k \in 1 .. Cardinality(B)
    BY DEF B
  <2> QED
    BY <2>1, <1>1, <1>4
<1>6. place \in 1 .. Cardinality(C) /\ place > Cardinality(A) /\ place - Cardinality(A) = k
  BY <1>1, <1>3, <1>4, <1>5
<1> HIDE DEF place
<1>7. listed(C)[place] = listed(B)[k]
  <2>1. /\ listed(A) \in Seq(messagesOf(tree)) /\ listed(B) \in Seq(messagesOf(tree))
        /\ Len(listed(A)) = Cardinality(A) /\ Cardinality(A) \in Nat
        /\ Len(listed(B)) = Cardinality(B) /\ Cardinality(B) \in Nat
    BY <1>1, <1>4
  <2>2. /\ place \in 1 .. Len(listed(A)) + Len(listed(B)) /\ ~(place <= Len(listed(A)))
        /\ place - Len(listed(A)) = k
    BY <1>3, <1>6, <2>1
  <2> QED
    BY <1>2, <2>1, <2>2, ConcatProperties DEF joins
<1>8. listed(tree)[place] = listed(C)[place]
  <2>1. /\ listed(C) \in Seq(messagesOf(tree)) /\ listed(D) \in Seq(messagesOf(tree))
        /\ place \in 1 .. Len(listed(C)) /\ Len(listed(C)) \in Nat /\ Len(listed(D)) \in Nat
    BY <1>1, <1>4, <1>6
  <2>2. place \in 1 .. Len(listed(C)) + Len(listed(D))  /\ place <= Len(listed(C))
    BY <2>1
  <2> QED
    BY <1>2, <2>1, <2>2, ConcatProperties DEF joins
<1> QED
  BY <1>2, <1>7, <1>8 DEF A, place

-----------------------------------------------------------------------------
(* The readers. *)

\* Lookup finds message number number.
LEMMA LookupFinds ==
    ASSUME NEW lastID \in 0 .. MaxID, NEW tree, IsTree(tree, lastID),
           NEW paths, NEW n, IsListing(tree, paths, n),
           NEW index, index.leaves = Leaves(tree, paths, n),
           NEW number \in 1 .. Cardinality(tree)
    PROVE  Lookup(tree, index, number) = listed(tree)[number]
<1> DEFINE acc(i) == Cardinality(before(tree, paths, i))
           count(i) == Cardinality(filesIn(tree, paths[i]))
           ends(i) == acc(i) >= number /\ \A j \in 1 .. i - 1 : acc(j) < number
           position == CHOOSE i \in 1 .. n : ends(i)
<1>0. n \in Nat /\ IsFiniteSet(tree)
  BY DEF IsListing, IsTree
<1>1. /\ before(tree, paths, 0) = {} /\ before(tree, paths, n) = tree
      /\ \A i \in 0 .. n : acc(i) \in Nat
      /\ \A i \in 1 .. n : count(i) \in Nat /\ acc(i) = acc(i - 1) + count(i)
  BY <1>0, BeforeFacts
<1>2. acc(0) = 0 /\ acc(n) = Cardinality(tree) /\ Cardinality(tree) \in Nat /\ number \in Nat
  <2>1. acc(0) = 0 /\ acc(n) = Cardinality(tree)
    BY <1>1, FS_EmptySet
  <2>2. Cardinality(tree) \in Nat
    BY <1>0, FS_CardinalityType
  <2> QED
    BY <2>1, <2>2
<1>3. \A i \in 1 .. n : /\ index.leaves[i].path = paths[i] /\ index.leaves[i].count = count(i)
                        /\ index.leaves[i].accumulated = acc(i)
  BY DEF Leaves
<1>4. Len(index.leaves) = n
  <2>1. Len(Leaves(tree, paths, n)) = n
    BY <1>0 DEF Leaves
  <2> QED
    BY <2>1
<1> HIDE DEF acc, count
<1>5. \E i \in 1 .. n : ends(i)
  <2> DEFINE T == {i \in 0 .. n : acc(i) >= number}
  <2>1. n \in T /\ T \in SUBSET Nat
    BY <1>0, <1>2
  <2>2. PICK i \in T : \A y \in T : i <= y
    <3> HIDE DEF T
    <3> QED
      BY <2>1, LeastNumber
  <2>3. i \in 0 .. n /\ acc(i) >= number
    OBVIOUS
  <2>4. i # 0
    BY <1>2, <2>3
  <2>5. i \in 1 .. n
    BY <1>0, <2>3, <2>4
  <2>6. ASSUME NEW j \in 1 .. i - 1 PROVE acc(j) < number
    <3>1. j \in 0 .. n /\ ~(i <= j)
      BY <1>0, <2>5
    <3>2. ~(acc(j) >= number)
      BY <2>2, <3>1
    <3> QED
      BY <1>1, <1>2, <3>1, <3>2
  <2> QED
    BY <2>3, <2>5, <2>6
<1>6. position \in 1 .. n /\ acc(position) >= number /\ \A j \in 1 .. position - 1 : acc(j) < number
  <2>1. position \in 1 .. n /\ ends(position)
    <3> HIDE DEF ends
    <3> QED
      BY <1>5
  <2> HIDE DEF position
  <2> QED
    BY <2>1
<1>7. selectLeaf(index, number)
        = [leaf |-> index.leaves[position],
           offset |-> number - (index.leaves[position].accumulated - index.leaves[position].count) - 1]
  <2>1. \A i \in 1 .. n :
            (/\ index.leaves[i].accumulated >= number
             /\ \A j \in 1 .. i - 1 : index.leaves[j].accumulated < number) <=> ends(i)
    <3>1. ASSUME NEW i \in 1 .. n PROVE \A j \in 1 .. i - 1 : j \in 1 .. n
      BY <1>0
    <3> QED
      BY <1>3, <3>1
  <2> HIDE DEF ends
  <2>2. position = CHOOSE i \in 1 .. Len(index.leaves) :
                        /\ index.leaves[i].accumulated >= number
                        /\ \A j \in 1 .. i - 1 : index.leaves[j].accumulated < number
    BY <1>4, <2>1
  <2> HIDE DEF position
  <2> QED
    BY <2>2 DEF selectLeaf
<1> HIDE DEF position
<1> DEFINE k == number - acc(position - 1)
<1>8. acc(position - 1) \in Nat /\ acc(position - 1) < number
  <2>1. CASE position = 1
    BY <1>2, <2>1
  <2>2. CASE position # 1
    <3>1. position - 1 \in 1 .. position - 1 /\ position - 1 \in 0 .. n
      BY <1>0, <1>6, <2>2
    <3> QED
      BY <1>1, <1>6, <3>1
  <2> QED
    BY <2>1, <2>2
<1>9. count(position) \in Nat /\ acc(position) = acc(position - 1) + count(position)
  BY <1>1, <1>6
<1>10. k \in 1 .. count(position)
  BY <1>2, <1>6, <1>8, <1>9
<1>11. number - (acc(position) - count(position)) - 1 + 1 = k /\ acc(position - 1) + k = number
  BY <1>2, <1>8, <1>9
<1> HIDE DEF k
<1>12. Lookup(tree, index, number) = directory(tree, paths[position])[k]
  BY <1>3, <1>6, <1>7, <1>11 DEF Lookup
<1>13. directory(tree, paths[position])[k] = listed(tree)[acc(position - 1) + k]
  BY <1>6, <1>10, PlaceInLeaf DEF acc, count
<1> QED
  BY <1>11, <1>12, <1>13

\* The recursion of FlattenSeq.
FlattenSteps(f, seqs, n) ==
    \A i \in 1 .. n : f[i] = IF i = 1 THEN seqs[i] ELSE f[i - 1] \o seqs[i]

\* There is only one such function.
LEMMA FlattenUnique ==
    ASSUME NEW n \in Nat, NEW seqs,
           NEW f, FlattenSteps(f, seqs, n), NEW g, FlattenSteps(g, seqs, n)
    PROVE  \A i \in 1 .. n : f[i] = g[i]
<1> DEFINE T == {i \in 1 .. n : f[i] # g[i]}
<1> SUFFICES ASSUME T # {} PROVE FALSE
  OBVIOUS
<1>1. T \in SUBSET Nat
  OBVIOUS
<1>2. PICK x \in T : \A y \in T : x <= y
  <2> HIDE DEF T
  <2> QED
    BY <1>1, LeastNumber
<1>3. x \in 1 .. n /\ f[x] # g[x] /\ x \in Nat
  OBVIOUS
<1>4. x # 1
  BY <1>3 DEF FlattenSteps
<1>5. x - 1 \in 1 .. n /\ ~(x <= x - 1)
  BY <1>3, <1>4
<1>6. f[x - 1] = g[x - 1]
  BY <1>2, <1>5
<1>7. f[x] = f[x - 1] \o seqs[x] /\ g[x] = g[x - 1] \o seqs[x]
  BY <1>3, <1>4 DEF FlattenSteps
<1> HIDE DEF T
<1> QED
  BY <1>3, <1>6, <1>7, Zenon

\* The same as FlattenSeq defines it.
FlattenRecursive(f, seqs) ==
    f = [i \in 1 .. Len(seqs) |-> IF i = 1 THEN seqs[i] ELSE f[i - 1] \o seqs[i]]

\* ListAt visits the messages in the order of their IDs.
LEMMA ListAtFinds ==
    ASSUME NEW lastID \in 0 .. MaxID, NEW tree, IsTree(tree, lastID),
           NEW paths, NEW n, IsListing(tree, paths, n),
           NEW index, index.leaves = Leaves(tree, paths, n)
    PROVE  ListAt(tree, index, lastID) = listed(tree)
<1> DEFINE seqs == [i \in DOMAIN index.leaves |-> directory(tree, index.leaves[i].path)]
           g == [i \in 1 .. n |-> listed(before(tree, paths, i))]
           f == CHOOSE h : FlattenRecursive(h, seqs)
           q == FlattenSeq(seqs)
<1>0. n \in Nat /\ IsFiniteSet(tree)
  BY DEF IsListing, IsTree
<1>1. before(tree, paths, 0) = {} /\ before(tree, paths, n) = tree
  BY <1>0, BeforeFacts
<1>2. DOMAIN index.leaves = 1 .. n /\ \A i \in 1 .. n : index.leaves[i].path = paths[i]
  BY DEF Leaves
<1>3. seqs = [i \in 1 .. n |-> directory(tree, paths[i])]
  BY <1>2
<1>4. Len(seqs) = n
  BY <1>0, <1>3
<1>5. ListAt(tree, index, lastID) =
          IF {i \in DOMAIN q : q[i].ID > lastID} = {} THEN q
          ELSE SubSeq(q, 1, Min({i \in DOMAIN q : q[i].ID > lastID}) - 1)
  BY DEF ListAt
<1> HIDE DEF seqs
<1>6. ASSUME FlattenSeq(seqs) = listed(tree) PROVE ListAt(tree, index, lastID) = listed(tree)
  <2>1. tree \in SUBSET tree
    OBVIOUS
  <2>2. q \in Seq(messagesOf(tree))
    BY <1>6, <2>1, ListedFacts
  <2>3. \A m \in messagesOf(tree) : m.ID \in 1 .. lastID
    BY TreeFacts DEF messagesOf, IsFile
  <2> HIDE DEF q
  <2>4. \A i \in DOMAIN q : ~(q[i].ID > lastID)
    BY <2>2, <2>3
  <2>5. {i \in DOMAIN q : q[i].ID > lastID} = {}
    BY <2>4
  <2>6. ListAt(tree, index, lastID) = q
    BY <1>5, <2>5
  <2> QED
    BY <1>6, <2>6 DEF q
<1>7. listed({}) = <<>>
  <2>1. messagesOf({}) = {}
    BY DEF messagesOf
  <2>2. IsMessages(messagesOf({}))
    BY <2>1, FS_EmptySet DEF IsMessages
  <2>3. Len(sorted(messagesOf({}), byID)) = Cardinality(messagesOf({}))
        /\ sorted(messagesOf({}), byID) \in Seq(messagesOf({}))
    BY <2>2, SortedFacts
  <2>4. Len(listed({})) = 0 /\ listed({}) \in Seq(messagesOf({}))
    BY <2>1, <2>3, FS_EmptySet DEF listed
  <2> QED
    BY <2>4, EmptySeq
<1>8. CASE n = 0
  <2>1. seqs = <<>>
    BY <1>3, <1>8
  <2>2. FlattenSeq(seqs) = seqs
    BY <1>4, <1>8 DEF FlattenSeq
  <2> QED
    BY <1>1, <1>7, <1>8, <1>6, <2>1, <2>2
<1>9. CASE n # 0
  <2>1. ASSUME NEW i \in 1 .. n
        PROVE  g[i] = IF i = 1 THEN seqs[i] ELSE g[i - 1] \o seqs[i]
    <3>1. joins(g[i], listed(before(tree, paths, i - 1)), seqs[i])
      <4>1. g[i] = listed(before(tree, paths, i)) /\ seqs[i] = directory(tree, paths[i])
        BY <1>3
      <4>2. joins(listed(before(tree, paths, i)),
                  listed(before(tree, paths, i - 1)), directory(tree, paths[i]))
        BY ListedSteps
      <4> QED
        BY <4>1, <4>2
    <3>2. CASE i = 1
      <4>1. joins(g[i], <<>>, seqs[i])
        <5>1. i - 1 = 0
          BY <3>2
        <5>2. listed(before(tree, paths, i - 1)) = <<>>
          BY <1>1, <1>7, <5>1
        <5> QED
          BY <3>1, <5>2
      <4>2. seqs[i] \in Seq(messagesOf(tree))
        <5>1. directory(tree, paths[i]) = listed(filesIn(tree, paths[i]))
          BY ListedSteps
        <5>2. filesIn(tree, paths[i]) \in SUBSET tree
          BY DEF filesIn
        <5> QED
          BY <1>3, <5>1, <5>2, ListedFacts
      <4> HIDE DEF g
      <4> QED
        BY <3>2, <4>1, <4>2, ConcatEmptySeq DEF joins
    <3>3. CASE i # 1
      <4>1. i - 1 \in 1 .. n
        BY <1>0, <3>3
      <4>2. g[i - 1] = listed(before(tree, paths, i - 1))
        BY <4>1
      <4> HIDE DEF g
      <4> QED
        BY <3>1, <3>3, <4>2 DEF joins
    <3> QED
      BY <3>2, <3>3
  <2>2. FlattenSteps(g, seqs, n)
    <3> HIDE DEF g
    <3> QED
      BY <2>1 DEF FlattenSteps
  <2>3. FlattenRecursive(g, seqs)
    BY <1>4, <2>1 DEF FlattenRecursive
  <2>4. FlattenRecursive(f, seqs)
    <3> HIDE DEF g
    <3> QED
      BY <2>3
  <2>5. FlattenSeq(seqs) = f[n]
    <3>1. FlattenSeq(seqs) = (CHOOSE h : h = [i \in 1 .. Len(seqs) |->
                                 IF i = 1 THEN seqs[i] ELSE h[i - 1] \o seqs[i]])[Len(seqs)]
      BY <1>4, <1>9 DEF FlattenSeq
    <3> QED
      BY <1>4, <3>1 DEF FlattenRecursive
  <2> HIDE DEF f
  <2>6. FlattenSteps(f, seqs, n)
    BY <1>4, <2>4 DEF FlattenSteps, FlattenRecursive
  <2>7. f[n] = g[n]
    <3> HIDE DEF g
    <3>1. n \in 1 .. n
      BY <1>0, <1>9
    <3> QED
      BY <1>0, <2>2, <2>6, <3>1, FlattenUnique
  <2>8. g[n] = listed(tree)
    BY <1>0, <1>1, <1>9
  <2> HIDE DEF g
  <2> QED
    BY <1>6, <2>5, <2>7, <2>8
<1> QED
  BY <1>8, <1>9
=============================================================================
