------------------------------- MODULE IDPath -------------------------------
(***************************************************************************)
(* Where a message is filed (internal/archive/idpath.go).  An ID is written*)
(* in base Radix; its path is the number of digits, then the digits, most  *)
(* significant first.  The last digit names the file, the rest its leaf    *)
(* directory, so a directory listing holds at most Radix messages.         *)
(*                                                                         *)
(* A path component is a number here.  The code writes it as fixed-width   *)
(* hexadecimal and refuses any other spelling by comparing the path it     *)
(* parsed with the path it would have written; the value Radix stands for  *)
(* every component that is not such a spelling of a digit.                 *)
(***************************************************************************)
EXTENDS Integers, Sequences, FiniteSets, SequencesExt

CONSTANTS
    Radix,  \* idRadix: entries of a leaf directory (1024 in the code)
    MaxID   \* math.MaxUint64: the largest message ID

ASSUME RadixAssumption == Radix \in Nat /\ Radix > 1
ASSUME MaxIDAssumption == MaxID \in Nat /\ MaxID >= Radix

\* sort.Slice: the elements of S in ascending order.
sorted(S, less(_, _)) ==
    [i \in 1 .. Cardinality(S) |->
        CHOOSE x \in S : Cardinality({y \in S : less(y, x)}) = i - 1]

\* The digits of id, most significant first: the loop that divides by idRadix
\* and the loop that turns its result around.
digits[id \in Nat] ==
    IF id = 0 THEN <<>> ELSE Append(digits[id \div Radix], id % Radix)

\* The longest path: the depth of the largest ID (7 in the code).
MaxDepth == Len(digits[MaxID])

messageRelativePath == [id \in 1 .. MaxID |-> <<Len(digits[id])>> \o digits[id]]

\* What parsing answers instead of a number.
ParseError == -1

\* The number a sequence of components spells, or ParseError when a component
\* is not a digit or the number leaves the ID space.
parseDigits(parts) ==
    FoldLeft(LAMBDA id, digit :
                IF \/ id = ParseError
                   \/ digit >= Radix
                   \/ id > (MaxID - digit) \div Radix
                THEN ParseError
                ELSE id * Radix + digit,
             0, parts)

\* Mutant: the path that was parsed is not compared with the ID's own path.
messageIDFromAnyPath(path) ==
    LET id == parseDigits(Tail(path))
    IN  IF Len(path) >= 2 /\ id # 0 THEN id ELSE ParseError

messageIDFromPath(path) ==
    IF Len(path) < 2 THEN ParseError
    ELSE LET id == parseDigits(Tail(path))
         IN  IF id # ParseError /\ id # 0 /\ messageRelativePath[id] = path
             THEN id ELSE ParseError

\* A message file carries its size in its name.
messagePath(id, size) == [path |-> messageRelativePath[id], size |-> size]

NoMessage == [ID |-> ParseError, Size |-> 0]

messageFromPath(name) ==
    LET id == messageIDFromPath(name.path)
    IN  IF id = ParseError \/ name # messagePath(id, name.size)
        THEN NoMessage ELSE [ID |-> id, Size |-> name.size]

\* filepath.Dir of a message's path.
leafDirectory == [id \in 1 .. MaxID |-> Front(messageRelativePath[id])]
=============================================================================
