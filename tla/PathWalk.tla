------------------------------ MODULE PathWalk ------------------------------
(***************************************************************************)
(* Every path there is, built component by component, against the two      *)
(* parsers that decide whether a name in the tree or a key of the state    *)
(* file is taken for a message or a directory.                             *)
(***************************************************************************)
EXTENDS Directories

VARIABLE path

WalkInit == path = <<>>

\* The first component is a depth, the others are digits; Radix is the
\* component that is neither, and one level too many is tried as well.
Descend(component) ==
    /\ Len(path) <= MaxDepth
    /\ path = <<>> \/ component <= Radix
    /\ path' = Append(path, component)

Walk == \E component \in 0 .. (IF MaxDepth < Radix THEN Radix ELSE MaxDepth + 1) :
            Descend(component)

WalkSpec == WalkInit /\ [][Walk]_path

-----------------------------------------------------------------------------
\* A path parses if and only if it is the path of an ID in the ID space, and
\* then to that ID: no two names in a tree are the same message, no ID beyond
\* math.MaxUint64 wraps around to a small one, and leading zeros are refused.
PathNamesOneID ==
    LET id == messageIDFromPath(path)
    IN  /\ id # ParseError => id \in 1 .. MaxID /\ messageRelativePath[id] = path
        /\ \A other \in 1 .. MaxID : messageRelativePath[other] = path => id = other

\* validDirectory takes for a leaf exactly the directories in which some ID of
\* the ID space is filed, at the border of the ID space too.
LeavesHoldIDs ==
    path # <<>> =>
        ((validDirectory(path) /\ isLeaf(path))
            <=> (\E id \in 1 .. MaxID : leafDirectory[id] = path))
=============================================================================
