---------------------------- MODULE Directories ----------------------------
(***************************************************************************)
(* The directory counts the mailbox state keeps in place of one entry per  *)
(* message (internal/archive/directories.go), and the index built from     *)
(* them.  A directory is a path without its file name: <<depth, d1, ...>>; *)
(* it is a leaf when it has depth components.  Counts are a function whose *)
(* domain is the set of directories that are present.                      *)
(***************************************************************************)
EXTENDS IDPath

\* The directories add, remove and buildDirectoryIndex walk through from path
\* up to, and without, ".".
ancestors(path) == {SubSeq(path, 1, k) : k \in 1 .. Len(path)}

countOf(counts, path) == IF path \in DOMAIN counts THEN counts[path] ELSE 0

add(counts, path) ==
    [p \in DOMAIN counts \cup ancestors(path) |->
        countOf(counts, p) + (IF p \in ancestors(path) THEN 1 ELSE 0)]

\* Mutant: a directory that became empty stays, with the count 0.
removeKeepingEmpty(counts, path) ==
    [p \in DOMAIN counts |-> counts[p] - (IF p \in ancestors(path) THEN 1 ELSE 0)]

remove(counts, path) ==
    [p \in {q \in DOMAIN counts : ~(q \in ancestors(path) /\ counts[q] = 1)} |->
        counts[p] - (IF p \in ancestors(path) THEN 1 ELSE 0)]

isLeaf(path) == Len(path) = path[1]

\* Mutant: the last leaf of the ID space is refused.
validDirectoryShort(path) ==
    /\ path # <<>>
    /\ path[1] \in 1 .. MaxDepth
    /\ Len(path) <= path[1]
    /\ Len(path) > 1 => path[2] # 0
    /\ LET prefix == parseDigits(Tail(path))
       IN  prefix # ParseError /\ (isLeaf(path) => prefix < MaxID \div Radix)

validDirectory(path) ==
    /\ path # <<>>
    /\ path[1] \in 1 .. MaxDepth
    /\ Len(path) <= path[1]
    /\ Len(path) > 1 => path[2] # 0
    /\ LET prefix == parseDigits(Tail(path))
       IN  /\ prefix # ParseError
           /\ isLeaf(path) => prefix <= MaxID \div Radix

\* Mutant: the order of the digits alone, without the depth before them.
digitsLess(p, q) ==
    \/ \E i \in 2 .. Len(p) :
          i <= Len(q) /\ p[i] < q[i] /\ \A j \in 2 .. i - 1 : p[j] = q[j]
    \/ Len(p) < Len(q) /\ SubSeq(q, 2, Len(p)) = Tail(p)

\* String order of the paths; components have a fixed width, so it is the
\* lexicographic order of the components.
pathLess(p, q) ==
    \/ \E i \in 1 .. Len(p) :
          /\ i <= Len(q)
          /\ p[i] < q[i]
          /\ \A j \in 1 .. i - 1 : p[j] = q[j]
    \/ Len(p) < Len(q) /\ SubSeq(q, 1, Len(p)) = p

leavesOf(counts) == {p \in DOMAIN counts : isLeaf(p)}

\* The directories and the counts that a set of leaves implies.
expectedCounts(counts, leaves) ==
    [p \in UNION {ancestors(leaf) : leaf \in leaves} |->
        MapThenSumSet(LAMBDA leaf : counts[leaf],
                      {leaf \in leaves : p \in ancestors(leaf)})]

\* buildDirectoryIndex answers no error.
validCounts(counts, lastID) ==
    /\ \A p \in DOMAIN counts : validDirectory(p) /\ counts[p] # 0
    /\ LET leaves == leavesOf(counts)
       IN  /\ \A leaf \in leaves :
                counts[leaf] <= (IF leaf = <<1>> THEN Radix - 1 ELSE Radix)
           /\ MapThenSumSet(LAMBDA leaf : counts[leaf], leaves) <= lastID
           /\ expectedCounts(counts, leaves) = counts

\* The index buildDirectoryIndex answers: the leaves in path order, each with
\* the number of messages up to its end.
buildDirectoryIndex(counts) ==
    LET paths == sorted(leavesOf(counts), pathLess)
        accumulated[i \in 0 .. Len(paths)] ==
            IF i = 0 THEN 0 ELSE accumulated[i - 1] + counts[paths[i]]
    IN  [leaves |-> [i \in 1 .. Len(paths) |->
                        [path |-> paths[i], count |-> counts[paths[i]],
                         accumulated |-> accumulated[i]]],
         total |-> accumulated[Len(paths)]]

\* The leaf that holds message number number (of 1 .. index.total) and the
\* zero-based place in its listing: the first leaf that ends at or after it.
selectLeaf(index, number) ==
    LET position == CHOOSE i \in 1 .. Len(index.leaves) :
                        /\ index.leaves[i].accumulated >= number
                        /\ \A j \in 1 .. i - 1 : index.leaves[j].accumulated < number
        leaf == index.leaves[position]
    IN  [leaf |-> leaf, offset |-> number - (leaf.accumulated - leaf.count) - 1]
=============================================================================
