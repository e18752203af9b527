---------------------------- MODULE StreamProofs ----------------------------
(***************************************************************************)
(* Mail goes through the program unchanged, whatever its octets are: the   *)
(* lines of a DATA text are the lines of the stored message, and those are *)
(* what a client makes of the response to RETR or TOP (DataStream).        *)
(*                                                                         *)
(* First the lines of an octet sequence, and what the protocols' doubled   *)
(* dots and ends of lines do to one line; then two invariants, one that    *)
(* says what dataReader has handed on and what of the client's text is     *)
(* still on the wire, and one that says how much of the message the        *)
(* response has.                                                           *)
(***************************************************************************)
EXTENDS Parts, TreeProofs

-----------------------------------------------------------------------------
(* The octets of a message, and their lines. *)

CR == "CR"
LF == "LF"
Dot == "."

\* All octets that occur.
Octets == {CR, LF, Dot, "R"} \cup UNION {Range(octets) : octets \in Contents \cup Imported}

\* What has no end of a line.
Text == Seq(Octets \ {LF})

IsLine(l) == \E t \in Text : l = Append(t, LF)

\* Induction on sequences.
LEMMA AppendInduction ==
    ASSUME NEW S, NEW P \in SUBSET Seq(S), <<>> \in P,
           \A s \in Seq(S) : \A x \in S : s \in P => Append(s, x) \in P
    PROVE  P = Seq(S)
<1> DEFINE N == {n \in Nat : \A s \in Seq(S) : Len(s) = n => s \in P}
<1>1. ASSUME NEW n \in Nat, \A m \in 0 .. n - 1 : m \in N PROVE n \in N
  <2> SUFFICES ASSUME NEW s \in Seq(S), Len(s) = n PROVE s \in P
    OBVIOUS
  <2>1. CASE s = <<>>
    BY <2>1
  <2>2. CASE s # <<>>
    <3>1. PICK t \in Seq(S), x \in S : s = Append(t, x)
      BY <2>2, SequenceEmptyOrAppend
    <3>2. Len(t) \in 0 .. n - 1
      BY <3>1
    <3>3. t \in P
      BY <1>1, <3>2
    <3> QED
      BY <3>1, <3>3
  <2> QED
    BY <2>1, <2>2
<1> HIDE DEF N
<1>2. N \in SUBSET Nat
  BY DEF N
<1>3. N = Nat
  BY <1>1, <1>2, NumberInduction
<1>4. ASSUME NEW s \in Seq(S) PROVE s \in P
  <2>1. Len(s) \in N
    BY <1>3
  <2> QED
    BY <2>1 DEF N
<1> QED
  BY <1>4

\* What has been read: whole lines, and a part of one.
Reads == [lines : Seq(Seq(Octets)), rest : Seq(Octets)]

nothingRead == [lines |-> <<>>, rest |-> <<>>]

\* An octet ends the line or goes into the part.
LEMMA TakeOctet ==
    ASSUME NEW r \in Reads, NEW x \in Octets
    PROVE  /\ Streaming!takeOctet(r, x) \in Reads
           /\ x # LF => Streaming!takeOctet(r, x) = [lines |-> r.lines, rest |-> Append(r.rest, x)]
           /\ x = LF => Streaming!takeOctet(r, x)
                            = [lines |-> Append(r.lines, Append(r.rest, LF)), rest |-> <<>>]
<1>1. Append(r.rest, x) \in Seq(Octets) /\ r.lines \in Seq(Seq(Octets)) /\ <<>> \in Seq(Octets)
  BY DEF Reads
<1>2. Append(r.lines, Append(r.rest, x)) \in Seq(Seq(Octets))
  BY <1>1
<1>3. r = [lines |-> r.lines, rest |-> r.rest]
  BY DEF Reads
<1>4. [r EXCEPT !.rest = Append(@, x)] = [lines |-> r.lines, rest |-> Append(r.rest, x)]
  BY <1>3
<1> QED
  BY <1>1, <1>2, <1>4 DEF Streaming!takeOctet, Streaming!LF, LF, Reads

\* f has what the first n octets of o are split into, for each n.
ReadsUpTo(f, o) ==
    /\ f[0] = nothingRead
    /\ \A n \in 1 .. Len(o) : f[n] = Streaming!takeOctet(f[n - 1], o[n])
    /\ \A n \in 0 .. Len(o) : f[n] \in Reads

\* split is what its recursion says.
LEMMA SplitExists ==
    ASSUME NEW o \in Seq(Octets)
    PROVE  \E f : ReadsUpTo(f, o) /\ Streaming!split(o) = f[Len(o)]
<1> DEFINE D == 0 .. Len(o)
           V == Reads
           rank == [n \in D |-> n]
           pred == [n \in D |-> IF n = 0 THEN 0 ELSE n - 1]
           G == [q \in V \X D |-> IF q[2] = 0 THEN nothingRead ELSE Streaming!takeOctet(q[1], o[q[2]])]
           Rec(f) == f = [n \in D |-> IF n = 0 THEN nothingRead
                                      ELSE Streaming!takeOctet(f[n - 1], o[n])]
<1>1. Len(o) \in Nat /\ \A n \in 1 .. Len(o) : o[n] \in Octets
  OBVIOUS
<1>2. Descends(D, rank, pred)
  BY <1>1 DEF Descends
<1>3. nothingRead \in V
  BY DEF nothingRead, Reads
<1>4. G \in [V \X D -> V]
  <2> SUFFICES ASSUME NEW v \in V, NEW n \in D, n # 0
               PROVE  Streaming!takeOctet(v, o[n]) \in V
    BY <1>3
  <2> QED
    BY <1>1, TakeOctet
<1>5. PICK f \in [D -> V] : Recursive(f, D, rank, nothingRead, pred, G)
  <2> HIDE DEF V, G, D, pred, rank
  <2> QED
    BY <1>2, <1>3, <1>4, RecursionExists
<1>6. \A n \in D : f[n] = IF n = 0 THEN nothingRead ELSE Streaming!takeOctet(f[n - 1], o[n])
  <2> SUFFICES ASSUME NEW n \in D
               PROVE  f[n] = IF n = 0 THEN nothingRead ELSE Streaming!takeOctet(f[n - 1], o[n])
    OBVIOUS
  <2>1. f[n] = IF n = 0 THEN nothingRead ELSE G[<<f[pred[n]], n>>]
    BY <1>5 DEF Recursive
  <2>2. n # 0 => pred[n] = n - 1 /\ f[n - 1] \in V
    BY <1>1
  <2>3. n # 0 => G[<<f[n - 1], n>>] = Streaming!takeOctet(f[n - 1], o[n])
    BY <2>2
  <2> HIDE DEF G, V
  <2> QED
    BY <2>1, <2>2, <2>3
<1>7. Rec(f)
  <2> DEFINE g == [n \in D |-> IF n = 0 THEN nothingRead ELSE Streaming!takeOctet(f[n - 1], o[n])]
  <2>1. \A n \in D : f[n] = g[n]
    BY <1>6
  <2>2. f = [n \in D |-> f[n]] /\ g = [n \in D |-> g[n]]
    BY <1>5
  <2>3. f = g
    <3> HIDE DEF g
    <3> QED
      BY <2>1, <2>2
  <2> QED
    BY <2>3
<1> DEFINE h == CHOOSE h : Rec(h)
<1>8. Streaming!split(o) = h[Len(o)]
  BY DEF Streaming!split, nothingRead
<1>9. Rec(h)
  <2> HIDE DEF Rec
  <2> QED
    BY <1>7
<1> HIDE DEF h
<1>10. \A n \in D : h[n] = IF n = 0 THEN nothingRead ELSE Streaming!takeOctet(h[n - 1], o[n])
  BY <1>9
<1> DEFINE B == {n \in Nat : n \in D => h[n] \in Reads}
<1>11. ASSUME NEW n \in Nat, \A m \in 0 .. n - 1 : m \in B PROVE n \in B
  <2> SUFFICES ASSUME n \in D PROVE h[n] \in Reads
    OBVIOUS
  <2>1. CASE n = 0
    BY <1>3, <1>10, <2>1
  <2>2. CASE n # 0
    <3>1. n - 1 \in 0 .. n - 1 /\ n - 1 \in D
      BY <2>2
    <3>2. h[n - 1] \in Reads
      BY <1>11, <3>1
    <3>3. h[n] = Streaming!takeOctet(h[n - 1], o[n]) /\ o[n] \in Octets
      BY <1>1, <1>10, <2>2
    <3> QED
      BY <3>2, <3>3, TakeOctet
  <2> QED
    BY <2>1, <2>2
<1>12. B = Nat
  <2>1. B \in SUBSET Nat
    OBVIOUS
  <2> HIDE DEF B
  <2> QED
    BY <1>11, <2>1, NumberInduction
<1>13. ReadsUpTo(h, o)
  BY <1>1, <1>10, <1>12 DEF ReadsUpTo
<1> QED
  BY <1>8, <1>13

\* Two sequences are split alike as far as they agree.
LEMMA SplitAgrees ==
    ASSUME NEW o \in Seq(Octets), NEW p \in Seq(Octets), Len(o) <= Len(p),
           \A n \in 1 .. Len(o) : o[n] = p[n],
           NEW f, ReadsUpTo(f, o), NEW g, ReadsUpTo(g, p)
    PROVE  \A n \in 0 .. Len(o) : f[n] = g[n]
<1> DEFINE B == {n \in Nat : n <= Len(o) => f[n] = g[n]}
<1>1. ASSUME NEW n \in Nat, \A m \in 0 .. n - 1 : m \in B PROVE n \in B
  <2> SUFFICES ASSUME n <= Len(o) PROVE f[n] = g[n]
    OBVIOUS
  <2>1. CASE n = 0
    BY <2>1 DEF ReadsUpTo
  <2>2. CASE n # 0
    <3>1. n - 1 \in B /\ n \in 1 .. Len(o) /\ n \in 1 .. Len(p)
      BY <1>1, <2>2
    <3> QED
      BY <3>1 DEF ReadsUpTo
  <2> QED
    BY <2>1, <2>2
<1>2. B = Nat
  <2>1. B \in SUBSET Nat
    OBVIOUS
  <2> HIDE DEF B
  <2> QED
    BY <1>1, <2>1, NumberInduction
<1> QED
  BY <1>2

\* split takes one octet after the other.
LEMMA SplitAppend ==
    /\ Streaming!split(<<>>) = nothingRead
    /\ \A o \in Seq(Octets) :
          /\ Streaming!split(o) \in Reads
          /\ \A x \in Octets : Streaming!split(Append(o, x)) = Streaming!takeOctet(Streaming!split(o), x)
<1>1. Streaming!split(<<>>) = nothingRead
  <2>1. <<>> \in Seq(Octets) /\ Len(<<>>) = 0
    OBVIOUS
  <2> QED
    BY <2>1, SplitExists DEF ReadsUpTo
<1>2. ASSUME NEW o \in Seq(Octets) PROVE Streaming!split(o) \in Reads
  BY SplitExists DEF ReadsUpTo
<1>3. ASSUME NEW o \in Seq(Octets), NEW x \in Octets
      PROVE  Streaming!split(Append(o, x)) = Streaming!takeOctet(Streaming!split(o), x)
  <2> DEFINE p == Append(o, x)
             n == Len(o)
  <2>1. /\ p \in Seq(Octets) /\ Len(p) = n + 1 /\ n \in Nat
        /\ \A i \in 1 .. n : o[i] = p[i]
        /\ p[n + 1] = x
    OBVIOUS
  <2>2. PICK f : ReadsUpTo(f, o) /\ Streaming!split(o) = f[n]
    BY SplitExists
  <2> HIDE DEF p
  <2>3. PICK g : ReadsUpTo(g, p) /\ Streaming!split(p) = g[n + 1]
    BY <2>1, SplitExists
  <2>4. f[n] = g[n]
    BY <2>1, <2>2, <2>3, SplitAgrees
  <2>5. g[n + 1] = Streaming!takeOctet(g[n], x)
    BY <2>1, <2>3 DEF ReadsUpTo
  <2> QED
    BY <2>2, <2>3, <2>4, <2>5 DEF p
<1> QED
  BY <1>1, <1>2, <1>3

lines(o) == Streaming!split(o).lines
rest(o) == Streaming!split(o).rest

\* The same, octet by octet, of lines and rest.
LEMMA LinesAppend ==
    /\ lines(<<>>) = <<>> /\ rest(<<>>) = <<>>
    /\ \A o \in Seq(Octets) :
          /\ lines(o) \in Seq(Seq(Octets)) /\ rest(o) \in Seq(Octets)
          /\ \A x \in Octets \ {LF} :
                lines(Append(o, x)) = lines(o) /\ rest(Append(o, x)) = Append(rest(o), x)
          /\ lines(Append(o, LF)) = Append(lines(o), Append(rest(o), LF))
          /\ rest(Append(o, LF)) = <<>>
<1>1. lines(<<>>) = <<>> /\ rest(<<>>) = <<>>
  BY SplitAppend DEF lines, rest, nothingRead
<1>2. ASSUME NEW o \in Seq(Octets)
      PROVE  /\ lines(o) \in Seq(Seq(Octets)) /\ rest(o) \in Seq(Octets)
             /\ \A x \in Octets \ {LF} :
                   lines(Append(o, x)) = lines(o) /\ rest(Append(o, x)) = Append(rest(o), x)
             /\ lines(Append(o, LF)) = Append(lines(o), Append(rest(o), LF))
             /\ rest(Append(o, LF)) = <<>>
  <2> DEFINE r == Streaming!split(o)
  <2>1. r \in Reads
    BY SplitAppend
  <2>2. lines(o) \in Seq(Seq(Octets)) /\ rest(o) \in Seq(Octets)
    BY <2>1 DEF lines, rest, Reads
  <2>3. LF \in Octets
    BY DEF Octets
  <2>4. \A x \in Octets : Streaming!split(Append(o, x)) = Streaming!takeOctet(r, x)
    BY SplitAppend
  <2>5. \A x \in Octets :
            /\ x # LF => Streaming!takeOctet(r, x) = [lines |-> r.lines, rest |-> Append(r.rest, x)]
            /\ x = LF => Streaming!takeOctet(r, x)
                            = [lines |-> Append(r.lines, Append(r.rest, LF)), rest |-> <<>>]
    BY <2>1, TakeOctet
  <2> QED
    BY <2>2, <2>3, <2>4, <2>5 DEF lines, rest
<1> QED
  BY <1>1, <1>2

\* Appending goes through concatenation.
LEMMA ConcatAppend ==
    ASSUME NEW S, NEW a \in Seq(S), NEW b \in Seq(S), NEW x \in S
    PROVE  a \o Append(b, x) = Append(a \o b, x)
<1>1. Append(b, x) = b \o <<x>> /\ Append(a \o b, x) = (a \o b) \o <<x>>
  BY AppendIsConcat
<1>2. <<x>> \in Seq(S)
  OBVIOUS
<1> QED
  BY <1>1, <1>2, ConcatAssociative

\* After whole lines comes what comes alone.
LEMMA LinesConcat ==
    ASSUME NEW a \in Seq(Octets), rest(a) = <<>>, NEW b \in Seq(Octets)
    PROVE  lines(a \o b) = lines(a) \o lines(b) /\ rest(a \o b) = rest(b)
<1> DEFINE P == {c \in Seq(Octets) : lines(a \o c) = lines(a) \o lines(c) /\ rest(a \o c) = rest(c)}
<1>1. <<>> \in P
  <2>1. a \o <<>> = a /\ <<>> \in Seq(Octets)
    OBVIOUS
  <2>2. lines(a) \in Seq(Seq(Octets)) /\ lines(<<>>) = <<>> /\ rest(<<>>) = <<>>
    BY LinesAppend
  <2>3. lines(a) \o <<>> = lines(a)
    BY <2>2
  <2> QED
    BY <2>1, <2>2, <2>3
<1>2. ASSUME NEW c \in Seq(Octets), NEW x \in Octets, c \in P PROVE Append(c, x) \in P
  <2>1. lines(a \o c) = lines(a) \o lines(c) /\ rest(a \o c) = rest(c)
    BY <1>2
  <2>2. a \o Append(c, x) = Append(a \o c, x) /\ a \o c \in Seq(Octets) /\ Append(c, x) \in Seq(Octets)
    BY ConcatAppend
  <2>3. lines(a) \in Seq(Seq(Octets)) /\ lines(c) \in Seq(Seq(Octets)) /\ rest(c) \in Seq(Octets)
    BY LinesAppend
  <2>4. CASE x # LF
    <3>1. /\ lines(Append(c, x)) = lines(c) /\ rest(Append(c, x)) = Append(rest(c), x)
          /\ lines(Append(a \o c, x)) = lines(a \o c)
          /\ rest(Append(a \o c, x)) = Append(rest(a \o c), x)
      BY <2>2, <2>4, LinesAppend
    <3> QED
      BY <2>1, <2>2, <3>1
  <2>5. CASE x = LF
    <3>1. Append(rest(c), LF) \in Seq(Octets)
      BY <2>3, <2>5
    <3>2. lines(a) \o Append(lines(c), Append(rest(c), LF))
              = Append(lines(a) \o lines(c), Append(rest(c), LF))
      BY <2>3, <3>1, ConcatAppend
    <3> QED
      BY <2>1, <2>2, <2>5, <3>2, LinesAppend
  <2> QED
    BY <2>4, <2>5
<1>3. P \in SUBSET Seq(Octets)
  OBVIOUS
<1>4. P = Seq(Octets)
  <2> HIDE DEF P
  <2> QED
    BY <1>1, <1>2, <1>3, AppendInduction
<1> QED
  BY <1>4

\* What has no LF is no line.
LEMMA TextFacts ==
    ASSUME NEW t \in Text
    PROVE  t \in Seq(Octets) /\ lines(t) = <<>> /\ rest(t) = t
<1> DEFINE P == {c \in Text : lines(c) = <<>> /\ rest(c) = c}
<1>1. \A c \in Text : c \in Seq(Octets)
  BY DEF Text
<1>2. <<>> \in P
  BY LinesAppend DEF Text
<1>3. ASSUME NEW c \in Seq(Octets \ {LF}), NEW x \in Octets \ {LF}, c \in P PROVE Append(c, x) \in P
  <2>1. Append(c, x) \in Text /\ c \in Seq(Octets)
    BY <1>1 DEF Text
  <2>2. lines(Append(c, x)) = lines(c) /\ rest(Append(c, x)) = Append(rest(c), x)
    BY <2>1, LinesAppend
  <2> QED
    BY <1>3, <2>1, <2>2
<1>4. P \in SUBSET Seq(Octets \ {LF})
  BY DEF Text
<1>5. P = Seq(Octets \ {LF})
  <2> HIDE DEF P
  <2> QED
    BY <1>2, <1>3, <1>4, AppendInduction
<1> QED
  BY <1>1, <1>5 DEF Text

\* A line alone, and one behind whole lines.
LEMMA LineFacts ==
    ASSUME NEW l, IsLine(l)
    PROVE  /\ l \in Seq(Octets) /\ l # <<>> /\ Last(l) = LF
           /\ lines(l) = <<l>> /\ rest(l) = <<>>
           /\ \A o \in Seq(Octets) : rest(o) = <<>> =>
                 lines(o \o l) = Append(lines(o), l) /\ rest(o \o l) = <<>>
<1>1. PICK t \in Text : l = Append(t, LF)
  BY DEF IsLine
<1>2. t \in Seq(Octets) /\ lines(t) = <<>> /\ rest(t) = t /\ LF \in Octets
  BY TextFacts DEF Octets
<1>3. l \in Seq(Octets) /\ Len(l) = Len(t) + 1 /\ l[Len(t) + 1] = LF
  BY <1>1, <1>2
<1>4. lines(l) = <<l>> /\ rest(l) = <<>>
  <2>1. lines(l) = Append(<<>>, l) /\ rest(l) = <<>>
    BY <1>1, <1>2, LinesAppend
  <2> QED
    BY <2>1
<1>5. ASSUME NEW o \in Seq(Octets), rest(o) = <<>>
      PROVE  lines(o \o l) = Append(lines(o), l) /\ rest(o \o l) = <<>>
  <2>1. lines(o) \in Seq(Seq(Octets))
    BY LinesAppend
  <2>2. Append(lines(o), l) = lines(o) \o <<l>>
    BY <1>3, <2>1, AppendIsConcat
  <2> QED
    BY <1>3, <1>4, <1>5, <2>2, LinesConcat
<1> QED
  BY <1>3, <1>4, <1>5 DEF Last

\* A sequence of octets either has no whole line, or has a first one.
LEMMA FirstLine ==
    ASSUME NEW o \in Seq(Octets)
    PROVE  \/ o \in Text /\ lines(o) = <<>> /\ rest(o) = o
           \/ \E l \in Seq(Octets), b \in Seq(Octets) :
                 /\ IsLine(l) /\ o = l \o b
                 /\ lines(o) = <<l>> \o lines(b) /\ rest(o) = rest(b)
<1> DEFINE first(c) == \E l \in Seq(Octets), b \in Seq(Octets) : IsLine(l) /\ c = l \o b
           P == {c \in Seq(Octets) : c \in Text \/ first(c)}
<1>1. <<>> \in P
  BY DEF Text
<1>2. ASSUME NEW c \in Seq(Octets), NEW x \in Octets, c \in P PROVE Append(c, x) \in P
  <2>1. Append(c, x) \in Seq(Octets)
    OBVIOUS
  <2>2. CASE c \in Text /\ x # LF
    BY <2>1, <2>2 DEF Text
  <2>3. CASE c \in Text /\ x = LF
    <3>1. IsLine(Append(c, x)) /\ Append(c, x) = Append(c, x) \o <<>> /\ <<>> \in Seq(Octets)
      BY <2>1, <2>3 DEF IsLine
    <3> QED
      BY <2>1, <3>1
  <2>4. CASE first(c)
    <3>1. PICK l \in Seq(Octets), b \in Seq(Octets) : IsLine(l) /\ c = l \o b
      BY <2>4
    <3>2. Append(b, x) \in Seq(Octets)
      BY <3>1
    <3>3. l \o Append(b, x) = Append(l \o b, x)
      BY <3>1, ConcatAppend
    <3>4. Append(c, x) = l \o Append(b, x)
      BY <3>1, <3>3
    <3> QED
      BY <2>1, <3>1, <3>2, <3>4
  <2> QED
    BY <1>2, <2>2, <2>3, <2>4
<1>3. P \in SUBSET Seq(Octets)
  OBVIOUS
<1>4. P = Seq(Octets)
  <2> HIDE DEF P
  <2> QED
    BY <1>1, <1>2, <1>3, AppendInduction
<1>5. CASE o \in Text
  BY <1>5, TextFacts
<1>6. CASE first(o)
  <2>1. PICK l \in Seq(Octets), b \in Seq(Octets) : IsLine(l) /\ o = l \o b
    BY <1>6
  <2>2. lines(l) = <<l>> /\ rest(l) = <<>>
    BY <2>1, LineFacts
  <2>3. lines(o) = <<l>> \o lines(b) /\ rest(o) = rest(b)
    BY <2>1, <2>2, LinesConcat
  <2> QED
    BY <2>1, <2>3
<1> QED
  BY <1>4, <1>5, <1>6

\* A part of the octets has the first of the lines; it has all if it ends with
\* the last line.
LEMMA LinesPrefix ==
    ASSUME NEW o \in Seq(Octets), NEW n \in 0 .. Len(o)
    PROVE  LET p == SubSeq(o, 1, n)
           IN  /\ p \in Seq(Octets)
               /\ Len(lines(p)) <= Len(lines(o))
               /\ \A k \in 1 .. Len(lines(p)) : lines(p)[k] = lines(o)[k]
               /\ Len(lines(p)) = Len(lines(o)) /\ rest(o) = <<>> => p = o
<1> DEFINE Begins(c, m) ==
               LET p == SubSeq(c, 1, m)
               IN  /\ Len(lines(p)) <= Len(lines(c))
                   /\ \A k \in 1 .. Len(lines(p)) : lines(p)[k] = lines(c)[k]
                   /\ Len(lines(p)) = Len(lines(c)) /\ rest(c) = <<>> => p = c
           P == {c \in Seq(Octets) : \A m \in 0 .. Len(c) : Begins(c, m)}
<1>1. \A c \in Seq(Octets) : Begins(c, Len(c))
  <2> SUFFICES ASSUME NEW c \in Seq(Octets) PROVE Begins(c, Len(c))
    OBVIOUS
  <2>1. SubSeq(c, 1, Len(c)) = c
    OBVIOUS
  <2>2. Len(lines(c)) \in Nat
    BY LinesAppend
  <2> DEFINE p == SubSeq(c, 1, Len(c))
  <2>3. p = c
    BY <2>1
  <2> HIDE DEF p
  <2>4. /\ Len(lines(p)) <= Len(lines(c))
        /\ \A k \in 1 .. Len(lines(p)) : lines(p)[k] = lines(c)[k]
    BY <2>2, <2>3
  <2> QED
    BY <2>3, <2>4 DEF p
<1>2. <<>> \in P
  <2>1. <<>> \in Seq(Octets) /\ Len(<<>>) = 0 /\ 0 .. 0 = {0}
    OBVIOUS
  <2>2. Begins(<<>>, 0)
    BY <1>1, <2>1
  <2> HIDE DEF Begins
  <2> QED
    BY <2>1, <2>2
<1>3. ASSUME NEW c \in Seq(Octets), NEW x \in Octets, c \in P PROVE Append(c, x) \in P
  <2> DEFINE d == Append(c, x)
  <2>1. d \in Seq(Octets) /\ Len(d) = Len(c) + 1 /\ Len(c) \in Nat
    OBVIOUS
  <2>2. ASSUME NEW m \in 0 .. Len(c) PROVE Begins(d, m)
    <3> DEFINE p == SubSeq(c, 1, m)
    <3>1. SubSeq(d, 1, m) = p /\ p \in Seq(Octets)
      OBVIOUS
    <3>2. Begins(c, m)
      BY <1>3
    <3>3. lines(c) \in Seq(Seq(Octets)) /\ rest(c) \in Seq(Octets) /\ lines(p) \in Seq(Seq(Octets))
      BY <3>1, LinesAppend
    <3>4. CASE x # LF
      <4>1. lines(d) = lines(c) /\ rest(d) = Append(rest(c), x)
        BY <3>4, LinesAppend
      <4>2. rest(d) # <<>>
        BY <3>3, <4>1
      <4> QED
        BY <3>1, <3>2, <4>1, <4>2
    <3>5. CASE x = LF
      <4>1. lines(d) = Append(lines(c), Append(rest(c), LF)) /\ Append(rest(c), LF) \in Seq(Octets)
        BY <3>3, <3>5, LinesAppend
      <4>2. /\ Len(lines(d)) = Len(lines(c)) + 1
            /\ \A k \in 1 .. Len(lines(c)) : lines(d)[k] = lines(c)[k]
        BY <3>3, <4>1
      <4>3. Len(lines(p)) \in Nat /\ Len(lines(c)) \in Nat
        BY <3>3
      <4> HIDE DEF p
      <4>4. /\ Len(lines(p)) <= Len(lines(c))
            /\ \A k \in 1 .. Len(lines(p)) : lines(p)[k] = lines(c)[k]
        BY <3>2 DEF p
      <4>5. /\ Len(lines(p)) < Len(lines(d))
            /\ \A k \in 1 .. Len(lines(p)) : lines(p)[k] = lines(d)[k]
        <5> HIDE DEF d
        <5> QED
          BY <4>2, <4>3, <4>4
      <4>6. Len(lines(d)) \in Nat
        BY <4>2, <4>3
      <4> HIDE DEF d
      <4>7. SubSeq(d, 1, m) = p
        BY <3>1 DEF p
      <4>8. /\ Len(lines(p)) <= Len(lines(d)) /\ Len(lines(p)) # Len(lines(d))
            /\ \A k \in 1 .. Len(lines(p)) : lines(p)[k] = lines(d)[k]
        BY <4>3, <4>5, <4>6
      <4> QED
        BY <4>7, <4>8, Zenon
    <3> QED
      BY <3>4, <3>5
  <2>3. Begins(d, Len(d))
    BY <1>1, <2>1
  <2> HIDE DEF d
  <2>4. \A m \in 0 .. Len(d) : m \in 0 .. Len(c) \/ m = Len(d)
    BY <2>1
  <2>5. \A m \in 0 .. Len(d) : Begins(d, m)
    <3> HIDE DEF Begins
    <3> QED
      BY <2>2, <2>3, <2>4
  <2> QED
    BY <2>1, <2>5 DEF d
<1>4. P \in SUBSET Seq(Octets)
  OBVIOUS
<1>5. P = Seq(Octets)
  <2> HIDE DEF P
  <2> QED
    BY <1>1, <1>2, <1>3, <1>4, AppendInduction
<1>6. Begins(o, n)
  BY <1>5
<1>7. SubSeq(o, 1, n) \in Seq(Octets)
  OBVIOUS
<1> QED
  BY <1>6, <1>7
-----------------------------------------------------------------------------
(* What clients send and get. *)

CRLF == <<CR, LF>>

\* A line on the wire whose content is c.  Without a CR before its LF it has none
\* that would be taken for one.
IsSent(l, c) ==
    \/ l = Streaming!stuff(c) \o CRLF
    \/ l = Streaming!stuff(c) \o <<LF>> /\ ~ (c # <<>> /\ Last(c) = CR)

\* dataReader has read r lines, and what is on the wire are the next ones, and
\* the end of the text behind all of them.
Arriving(r) ==
    /\ r \in 0 .. Len(sent)
    /\ rest(data.out) = <<>> /\ Len(lines(data.out)) = r + 1
    /\ lines(data.out)[1] = Streaming!deliveryHeaders
    /\ \A k \in 1 .. r : lines(data.out)[k + 1] = sent[k] \o CRLF
    /\ Len(lines(wire)) <= Len(sent) + 1 - r
    /\ \A k \in 1 .. Len(lines(wire)) :
          IF r + k <= Len(sent) THEN IsSent(lines(wire)[k], sent[r + k])
          ELSE Streaming!endsData(lines(wire)[k])
    /\ Len(lines(wire)) = Len(sent) + 1 - r => rest(wire) = <<>>
    /\ conn = "open" => Len(lines(wire)) = Len(sent) - r /\ rest(wire) = <<>>

DataInv ==
    /\ sent \in Seq(Contents) /\ wire \in Seq(Octets)
    /\ data = [st |-> data.st, bytesRead |-> data.bytesRead, out |-> data.out]
    /\ data.out \in Seq(Octets)
    /\ stored # None => stored \in Seq(Octets)
    /\ data.st = "reading" => stored = None /\ resp.st = "none" /\ \E r \in Nat : Arriving(r)
    /\ data.st = "done" =>
          /\ lines(stored) = <<Streaming!deliveryHeaders>> \o [k \in DOMAIN sent |-> sent[k] \o CRLF]
          /\ wire = <<>>

\* A message's lines, the last one ended if it is not.
whole == Streaming!wholeLines(stored)

\* The first k lines of which the last is the empty one behind the header.
IsHeader(k) == whole[k] = CRLF /\ \A j \in 1 .. k - 1 : whole[j] # CRLF

\* What has been sent, with the end that the last line may lack.
ended(r) == r.out \o (IF r.lastEndedWithLF = TRUE THEN <<>> ELSE CRLF)

\* streamMessage has sent q lines; the end of the last one, which the message may
\* lack, comes with the end of the response.
Streamed(q) ==
    /\ resp.left \in Seq(Octets) /\ resp.out \in Seq(Octets) /\ resp.limit \in Limits \cup {None}
    /\ q \in 0 .. Len(whole)
    /\ IF resp.lastEndedWithLF = TRUE
       THEN /\ q + Len(lines(resp.left)) = Len(lines(stored)) /\ rest(resp.left) = rest(stored)
            /\ \A k \in 1 .. Len(lines(resp.left)) : lines(resp.left)[k] = lines(stored)[q + k]
       ELSE resp.left = <<>> /\ q = Len(whole)
    /\ rest(ended(resp)) = <<>> /\ Len(lines(ended(resp))) = q
    /\ \A k \in 1 .. q : lines(ended(resp))[k] = Streaming!stuff(whole[k])
    /\ IF resp.inBody = TRUE
       THEN /\ \E k \in 1 .. q : IsHeader(k) /\ resp.bodyLines = q - k
            /\ resp.limit # None => resp.bodyLines <= resp.limit
       ELSE resp.bodyLines = 0 /\ \A k \in 1 .. q : whole[k] # CRLF

RespInv ==
    /\ resp = [st |-> resp.st, limit |-> resp.limit, left |-> resp.left, out |-> resp.out,
               inBody |-> resp.inBody, bodyLines |-> resp.bodyLines,
               lastEndedWithLF |-> resp.lastEndedWithLF]
    /\ resp.inBody \in BOOLEAN /\ resp.lastEndedWithLF \in BOOLEAN
    /\ resp.st \in {"streaming", "done"} => stored # None
    /\ resp.st = "streaming" => \E q \in Nat : Streamed(q)
    /\ resp.st = "done" => Streaming!received(resp.out) = Streaming!top(whole, resp.limit)

\* The octets that matter, and what the constants of DataStream are made of.
LEMMA OctetFacts ==
    /\ CR \in Octets \ {LF} /\ Dot \in Octets \ {LF} /\ LF \in Octets /\ Dot # CR
    /\ CRLF \in Seq(Octets) /\ <<LF>> \in Seq(Octets) /\ Text \subseteq Seq(Octets)
    /\ Streaming!CR = CR /\ Streaming!LF = LF /\ Streaming!Dot = Dot
    /\ \A s : Streaming!Last(s) = Last(s) /\ Streaming!Front(s) = Front(s)
    /\ \A c \in Contents : c \in Text
    /\ \A m \in Imported : m \in Seq(Octets)
<1>1. CR \in Octets \ {LF} /\ Dot \in Octets \ {LF} /\ LF \in Octets /\ Dot # CR
  BY DEF Octets, CR, LF, Dot
<1>2. ASSUME NEW c \in Contents PROVE c \in Text
  <2>1. c \in Seq(Range(c) \ {LF})
    BY ContentsAssumption DEF LF
  <2>2. Range(c) \ {LF} \subseteq Octets \ {LF}
    BY DEF Octets
  <2> QED
    BY <2>1, <2>2, SeqMonotonic DEF Text
<1>3. ASSUME NEW m \in Imported PROVE m \in Seq(Octets)
  <2>1. m \in Seq(Range(m))
    BY ImportedAssumption
  <2>2. Range(m) \subseteq Octets
    BY DEF Octets
  <2> QED
    BY <2>1, <2>2, SeqMonotonic
<1>4. CRLF \in Seq(Octets) /\ <<LF>> \in Seq(Octets)
  BY <1>1 DEF CRLF
<1>5. Text \subseteq Seq(Octets)
  BY TextFacts
<1>6. \A s : Streaming!Last(s) = Last(s) /\ Streaming!Front(s) = Front(s)
  BY DEF Streaming!Last, Last, Streaming!Front, Front
<1> QED
  BY <1>1, <1>2, <1>3, <1>4, <1>5, <1>6 DEF Streaming!CR, Streaming!LF, Streaming!Dot, CR, LF, Dot

\* Ends of lines, as octets that are appended.
LEMMA Ends ==
    ASSUME NEW s \in Seq(Octets)
    PROVE  /\ s \o <<LF>> = Append(s, LF)
           /\ s \o CRLF = Append(Append(s, CR), LF)
           /\ s \o CRLF = (s \o <<CR>>) \o <<LF>>
<1>1. Append(s, CR) \in Seq(Octets) /\ <<CR>> \in Seq(Octets) /\ <<LF>> \in Seq(Octets)
  BY OctetFacts
<1>2. Append(s, CR) = s \o <<CR>> /\ s \o <<LF>> = Append(s, LF)
      /\ Append(Append(s, CR), LF) = Append(s, CR) \o <<LF>>
  BY <1>1, OctetFacts, AppendIsConcat
<1>3. CRLF = <<CR>> \o <<LF>>
  <2>1. CRLF = Append(<<CR>>, LF)
    BY DEF CRLF
  <2> QED
    BY <1>1, <2>1, OctetFacts, AppendIsConcat
<1> QED
  BY <1>1, <1>2, <1>3, ConcatAssociative

\* Text with an end is a line.
LEMMA EndedText ==
    ASSUME NEW t \in Text
    PROVE  IsLine(t \o CRLF) /\ IsLine(t \o <<LF>>)
<1>1. t \in Seq(Octets)
  BY OctetFacts
<1>2. Append(t, CR) \in Text
  BY OctetFacts DEF Text
<1> QED
  BY <1>1, <1>2, Ends DEF IsLine

\* Every line is one, and what is left has none.
LEMMA LinesAreLines ==
    ASSUME NEW o \in Seq(Octets)
    PROVE  /\ rest(o) \in Text
           /\ \A k \in 1 .. Len(lines(o)) : IsLine(lines(o)[k])
           /\ rest(o) = <<>> <=> o = <<>> \/ Last(o) = LF
<1> DEFINE P == {c \in Seq(Octets) : rest(c) \in Text /\ \A k \in 1 .. Len(lines(c)) : IsLine(lines(c)[k])}
<1>1. <<>> \in P
  <2>1. lines(<<>>) = <<>> /\ rest(<<>>) = <<>>
    BY LinesAppend
  <2>2. Len(lines(<<>>)) = 0 /\ <<>> \in Text /\ <<>> \in Seq(Octets)
    BY <2>1 DEF Text
  <2> QED
    BY <2>1, <2>2
<1>2. ASSUME NEW c \in Seq(Octets), NEW x \in Octets, c \in P PROVE Append(c, x) \in P
  <2>1. Append(c, x) \in Seq(Octets) /\ lines(c) \in Seq(Seq(Octets))
    BY LinesAppend
  <2>2. rest(c) \in Text /\ \A k \in 1 .. Len(lines(c)) : IsLine(lines(c)[k])
    BY <1>2
  <2>3. CASE x # LF
    <3>1. lines(Append(c, x)) = lines(c) /\ rest(Append(c, x)) = Append(rest(c), x)
      BY <2>3, LinesAppend
    <3>2. Append(rest(c), x) \in Text
      BY <2>2, <2>3 DEF Text
    <3> QED
      BY <2>1, <2>2, <3>1, <3>2
  <2>4. CASE x = LF
    <3>1. lines(Append(c, x)) = Append(lines(c), Append(rest(c), LF)) /\ rest(Append(c, x)) = <<>>
      BY <2>4, LinesAppend
    <3>2. IsLine(Append(rest(c), LF)) /\ <<>> \in Text
      BY <2>2 DEF IsLine, Text
    <3>4. Append(rest(c), LF) \in Seq(Octets)
      BY <3>2, LineFacts
    <3>3. \A k \in 1 .. Len(lines(Append(c, x))) : IsLine(lines(Append(c, x))[k])
      BY <2>1, <2>2, <3>1, <3>2, <3>4
    <3> QED
      BY <2>1, <3>1, <3>2, <3>3
  <2> QED
    BY <2>3, <2>4
<1>3. P \in SUBSET Seq(Octets)
  OBVIOUS
<1>4. P = Seq(Octets)
  <2> HIDE DEF P
  <2> QED
    BY <1>1, <1>2, <1>3, AppendInduction
<1>5. rest(o) = <<>> <=> o = <<>> \/ Last(o) = LF
  <2>1. CASE o = <<>>
    BY <2>1, LinesAppend
  <2>2. CASE o # <<>>
    <3>1. PICK c \in Seq(Octets), x \in Octets : o = Append(c, x)
      BY <2>2, SequenceEmptyOrAppend
    <3>2. Last(o) = x
      BY <3>1 DEF Last
    <3>3. rest(c) \in Seq(Octets)
      BY LinesAppend
    <3>4. x = LF => rest(o) = <<>>
      BY <3>1, LinesAppend
    <3>5. x # LF => rest(o) = Append(rest(c), x)
      BY <3>1, LinesAppend
    <3>6. Append(rest(c), x) # <<>>
      BY <3>3, AppendProperties
    <3> QED
      BY <2>2, <3>2, <3>4, <3>5, <3>6
  <2> QED
    BY <2>1, <2>2
<1> QED
  BY <1>4, <1>5

\* Lines with a leading dot can be told from the end mark, and the dot comes off.
LEMMA StuffFacts ==
    ASSUME NEW s \in Seq(Octets)
    PROVE  /\ Streaming!stuff(s) \in Seq(Octets)
           /\ s # <<>> => Streaming!stuff(s) # <<>>
           /\ Streaming!stuff(s) # Streaming!EndMark /\ ~ Streaming!endsData(Streaming!stuff(s))
           /\ s = IF Streaming!startsWithDot(Streaming!stuff(s))
                  THEN Tail(Streaming!stuff(s)) ELSE Streaming!stuff(s)
           /\ s \in Text => Streaming!stuff(s) \in Text
           /\ \A e \in Seq(Octets) : s # <<>> \/ ~ Streaming!startsWithDot(e) =>
                 Streaming!stuff(s \o e) = Streaming!stuff(s) \o e
<1> DEFINE d == <<Dot>>
           z == d \o s
<1>1. /\ d \in Seq(Octets) /\ Len(d) = 1 /\ d[1] = Dot /\ Len(s) \in Nat
      /\ z \in Seq(Octets) /\ Len(z) = Len(s) + 1 /\ z[1] = Dot
      /\ \A i \in 1 .. Len(s) : z[i + 1] = s[i]
  BY OctetFacts
<1>2. Streaming!stuff(s) = IF Streaming!startsWithDot(s) THEN z ELSE s
  BY OctetFacts DEF Streaming!stuff
<1>3. Streaming!startsWithDot(s) <=> Len(s) > 0 /\ s[1] = Dot
  BY OctetFacts DEF Streaming!startsWithDot
<1>4. Streaming!startsWithDot(z)
  BY <1>1, OctetFacts DEF Streaming!startsWithDot
<1>5. Tail(z) = s
  BY OctetFacts
<1>6. s \in Text => z \in Text
  BY OctetFacts DEF Text
<1>7. ASSUME NEW y, y \in {Streaming!EndMark, <<Dot, LF>>} PROVE y[1] = Dot /\ Len(y) >= 2 /\ y[2] # Dot
  <2>1. CASE y = <<Dot, LF>>
    BY <2>1 DEF Dot, LF
  <2>2. CASE y = <<Dot, CR, LF>>
    BY <2>2 DEF Dot, CR
  <2> QED
    BY <1>7, <2>1, <2>2, OctetFacts DEF Streaming!EndMark
<1>8. ASSUME NEW y, y \in {Streaming!EndMark, <<Dot, LF>>} PROVE Streaming!stuff(s) # y
  BY <1>1, <1>2, <1>3, <1>7, <1>8
<1>9. ASSUME NEW e \in Seq(Octets), s # <<>> \/ ~ Streaming!startsWithDot(e)
      PROVE  Streaming!stuff(s \o e) = Streaming!stuff(s) \o e
  <2>1. s \o e \in Seq(Octets) /\ Len(s \o e) = Len(s) + Len(e) /\ Len(e) \in Nat
    OBVIOUS
  <2>2. s # <<>> => (s \o e)[1] = s[1] /\ Len(s) > 0
    OBVIOUS
  <2>3. s = <<>> => s \o e = e /\ Len(s) = 0
    OBVIOUS
  <2>4. Streaming!startsWithDot(s \o e) <=> Streaming!startsWithDot(s)
    BY <1>1, <1>3, <1>9, <2>1, <2>2, <2>3, OctetFacts DEF Streaming!startsWithDot
  <2>5. d \o (s \o e) = z \o e
    BY <1>1, ConcatAssociative
  <2>6. Streaming!stuff(s \o e) = IF Streaming!startsWithDot(s \o e) THEN d \o (s \o e) ELSE s \o e
    BY OctetFacts DEF Streaming!stuff
  <2> QED
    BY <1>2, <2>4, <2>5, <2>6
<1>10. Streaming!EndMark = Streaming!EndMark /\ (\A y : Streaming!endsData(y) <=> y \in {Streaming!EndMark, <<Dot, LF>>})
  BY OctetFacts DEF Streaming!endsData
<1>11. s # <<>> => z # <<>>
  BY <1>1
<1> HIDE DEF z
<1> QED
  BY <1>1, <1>2, <1>4, <1>5, <1>6, <1>8, <1>9, <1>10, <1>11

\* dataReader takes off what the client has doubled.
LEMMA Unstuffed ==
    ASSUME NEW s \in Seq(Octets)
    PROVE  Streaming!unstuff(Streaming!stuff(s)) = s
<1> DEFINE z == <<Dot>> \o s
<1>1. /\ Len(s) \in Nat /\ Len(z) = Len(s) + 1 /\ z[1] = Dot
      /\ \A i \in 1 .. Len(s) : z[i + 1] = s[i]
  BY OctetFacts
<1>2. Streaming!stuff(s) = IF Len(s) > 0 /\ s[1] = Dot THEN z ELSE s
  BY OctetFacts DEF Streaming!stuff, Streaming!startsWithDot
<1>3. Tail(z) = s
  BY OctetFacts
<1>4. \A y : Streaming!unstuff(y) = IF Len(y) >= 2 /\ y[1] = Dot /\ y[2] = Dot THEN Tail(y) ELSE y
  BY OctetFacts DEF Streaming!unstuff
<1> HIDE DEF z
<1>5. CASE Len(s) > 0 /\ s[1] = Dot
  <2>1. Len(z) >= 2 /\ z[2] = Dot
    BY <1>1, <1>5
  <2> QED
    BY <1>1, <1>2, <1>3, <1>4, <1>5, <2>1
<1>6. CASE ~ (Len(s) > 0 /\ s[1] = Dot)
  <2>1. ~ (Len(s) >= 2 /\ s[1] = Dot /\ s[2] = Dot)
    BY <1>1, <1>6
  <2> QED
    BY <1>2, <1>4, <1>6, <2>1
<1> QED
  BY <1>5, <1>6

\* An octet that was appended is trimmed.
LEMMA Trimmed ==
    ASSUME NEW s \in Seq(Octets), NEW x \in Octets
    PROVE  Streaming!trimSuffix(Append(s, x), x) = s
<1> DEFINE a == Append(s, x)
<1>1. a \in Seq(Octets) /\ a # <<>> /\ Len(a) = Len(s) + 1 /\ a[Len(s) + 1] = x /\ Len(s) \in Nat
  BY AppendProperties
<1>2. Last(a) = x /\ Front(a) = SubSeq(a, 1, Len(s))
  BY <1>1 DEF Last, Front
<1>3. SubSeq(a, 1, Len(s)) = s
  OBVIOUS
<1> HIDE DEF a
<1>4. Streaming!trimSuffix(a, x) = Front(a)
  BY <1>1, <1>2, OctetFacts DEF Streaming!trimSuffix
<1>5. Front(a) = s
  BY <1>2, <1>3 DEF a
<1> QED
  BY <1>4, <1>5 DEF a

\* What dataReader makes of a client's line.
LEMMA SentLine ==
    ASSUME NEW c \in Text, NEW l, IsSent(l, c)
    PROVE  /\ IsLine(l) /\ ~ Streaming!endsData(l) /\ IsLine(c \o CRLF)
           /\ Streaming!canonicalDataLine(Streaming!unstuff(l)) = c \o CRLF
<1> DEFINE s == Streaming!stuff(c)
<1>1. c \in Seq(Octets) /\ s \in Text /\ s \in Seq(Octets)
  BY OctetFacts, StuffFacts
<1>2. PICK e \in {CRLF, <<LF>>} : l = s \o e /\ (e = <<LF>> => ~ (c # <<>> /\ Last(c) = CR))
  <2>1. CRLF # <<LF>>
    BY DEF CRLF, CR, LF
  <2> QED
    BY <2>1 DEF IsSent
<1>3. e \in Seq(Octets) /\ ~ Streaming!startsWithDot(e)
  <2>1. CRLF[1] = CR /\ <<LF>>[1] = LF
    BY DEF CRLF
  <2> QED
    BY <2>1, OctetFacts DEF Streaming!startsWithDot
<1>4. l = Streaming!stuff(c \o e) /\ c \o e \in Seq(Octets)
  <2>1. Streaming!stuff(c \o e) = Streaming!stuff(c) \o e
    BY <1>1, <1>3, StuffFacts
  <2>2. c \o e \in Seq(Octets)
    BY <1>1, <1>3
  <2> QED
    BY <1>2, <2>1, <2>2
<1>5. IsLine(l) /\ IsLine(c \o CRLF)
  BY <1>1, <1>2, EndedText
<1>6. ~ Streaming!endsData(l) /\ Streaming!unstuff(l) = c \o e
  BY <1>4, StuffFacts, Unstuffed
<1>7. CR \in Octets /\ LF \in Octets /\ Append(c, CR) \in Seq(Octets)
  BY <1>1, OctetFacts
<1>8. Streaming!trimSuffix(Streaming!trimSuffix(c \o e, LF), CR) = c
  <2>1. CASE e = CRLF
    BY <1>1, <1>7, <2>1, Ends, Trimmed
  <2>2. CASE e = <<LF>>
    <3>1. Streaming!trimSuffix(c \o e, LF) = c
      BY <1>1, <1>7, <2>2, Ends, Trimmed
    <3>2. Streaming!trimSuffix(c, CR) = c
      <4>1. ~ (c # <<>> /\ Last(c) = CR)
        BY <1>2, <2>2, Zenon
      <4> QED
        BY <4>1, OctetFacts DEF Streaming!trimSuffix
    <3> QED
      BY <3>1, <3>2
  <2> QED
    BY <2>1, <2>2
<1>9. Streaming!canonicalDataLine(c \o e) = c \o CRLF
  BY <1>8, OctetFacts DEF Streaming!canonicalDataLine, CRLF
<1> QED
  BY <1>5, <1>6, <1>9

\* The first line taken off.
LEMMA FirstTaken ==
    ASSUME NEW o \in Seq(Octets), lines(o) # <<>>
    PROVE  LET l == lines(o)[1]
               b == SubSeq(o, Len(l) + 1, Len(o))
           IN  /\ IsLine(l) /\ l \in Seq(Octets) /\ b \in Seq(Octets) /\ rest(b) = rest(o)
               /\ Len(lines(o)) = Len(lines(b)) + 1 /\ Len(lines(b)) \in Nat
               /\ \A k \in 1 .. Len(lines(b)) : lines(b)[k] = lines(o)[k + 1]
<1>1. PICK l \in Seq(Octets), b \in Seq(Octets) :
          /\ IsLine(l) /\ o = l \o b
          /\ lines(o) = <<l>> \o lines(b) /\ rest(o) = rest(b)
  BY FirstLine
<1>2. lines(b) \in Seq(Seq(Octets))
  BY LinesAppend
<1>3. /\ Len(lines(o)) = Len(lines(b)) + 1 /\ Len(lines(b)) \in Nat /\ lines(o)[1] = l
      /\ \A k \in 1 .. Len(lines(b)) : lines(b)[k] = lines(o)[k + 1]
  BY <1>1, <1>2
<1>4. SubSeq(o, Len(l) + 1, Len(o)) = b
  <2> DEFINE p == SubSeq(o, Len(l) + 1, Len(o))
  <2>1. /\ Len(o) = Len(l) + Len(b) /\ Len(l) \in Nat /\ Len(b) \in Nat
        /\ \A k \in 1 .. Len(b) : o[Len(l) + k] = b[k]
    BY <1>1
  <2>2. p \in Seq(Octets) /\ Len(p) = Len(b) /\ \A k \in 1 .. Len(b) : p[k] = o[Len(l) + k]
    BY <2>1
  <2> HIDE DEF p
  <2>3. \A k \in 1 .. Len(b) : p[k] = b[k]
    BY <2>1, <2>2
  <2>4. p = b
    BY <2>2, <2>3, SeqEqual
  <2> QED
    BY <2>4 DEF p
<1> QED
  BY <1>1, <1>3, <1>4

-----------------------------------------------------------------------------
(* The steps of DATA. *)

\* The client sends a line.
LEMMA LineSent ==
    ASSUME DataInv, NEW c \in Contents, NEW e \in {CRLF, <<LF>>}, Streaming!SendLine(c, e)
    PROVE  DataInv'
<1> DEFINE l == Streaming!stuff(c) \o e
           s == sent
           w == wire
<1>1. PICK r \in Nat : Arriving(r)
  BY DEF DataInv, Streaming!SendLine
<1>2. c \in Text /\ c \in Seq(Octets) /\ Streaming!stuff(c) \in Seq(Octets) /\ e \in Seq(Octets)
  BY OctetFacts, StuffFacts
<1>3. IsSent(l, c)
  <2>1. e = <<LF>> => ~ (c # <<>> /\ Last(c) = CR)
    BY OctetFacts DEF Streaming!SendLine
  <2> QED
    BY <2>1, Zenon DEF IsSent
<1>4. IsLine(l) /\ l \in Seq(Octets)
  BY <1>2, <1>3, SentLine, LineFacts
<1>5. wire' = w \o l /\ w \in Seq(Octets)
  <2>1. w \in Seq(Octets) /\ wire' = (w \o Streaming!stuff(c)) \o e
    BY DEF DataInv, Streaming!SendLine
  <2> QED
    BY <1>2, <2>1, ConcatAssociative
<1>6. /\ sent' = Append(s, c) /\ s \in Seq(Contents) /\ sent' \in Seq(Contents)
      /\ Len(sent') = Len(s) + 1 /\ Len(s) \in Nat /\ sent'[Len(s) + 1] = c
      /\ \A k \in 1 .. Len(s) : sent'[k] = s[k]
  BY DEF DataInv, Streaming!SendLine
<1>0. conn = "open" /\ data.st = "reading" /\ data' = data /\ conn' = conn /\ stored' = stored /\ resp' = resp
  BY DEF Streaming!SendLine
<1> HIDE DEF l
<1>7. /\ conn = "open" /\ rest(w) = <<>> /\ Len(lines(w)) = Len(s) - r /\ r \in 0 .. Len(s)
  BY <1>0, <1>1 DEF Arriving
<1>8. lines(w \o l) = Append(lines(w), l) /\ rest(w \o l) = <<>> /\ lines(w) \in Seq(Seq(Octets))
  BY <1>4, <1>5, <1>7, LineFacts, LinesAppend
<1>9. Arriving(r)'
  <2>1. /\ rest(data'.out) = <<>> /\ Len(lines(data'.out)) = r + 1
        /\ lines(data'.out)[1] = Streaming!deliveryHeaders
        /\ \A k \in 1 .. r : lines(data'.out)[k + 1] = sent'[k] \o CRLF
    <3>1. /\ rest(data.out) = <<>> /\ Len(lines(data.out)) = r + 1
          /\ lines(data.out)[1] = Streaming!deliveryHeaders
          /\ \A k \in 1 .. r : lines(data.out)[k + 1] = s[k] \o CRLF
      BY <1>1 DEF Arriving
    <3>2. \A k \in 1 .. r : sent'[k] = s[k]
      BY <1>6, <1>7
    <3> QED
      BY <1>0, <3>1, <3>2
  <2>2. Len(lines(wire')) = Len(sent') - r /\ rest(wire') = <<>> /\ r \in 0 .. Len(sent')
    <3>1. Len(lines(wire')) = Len(lines(w)) + 1 /\ rest(wire') = <<>>
      BY <1>4, <1>5, <1>8
    <3> QED
      BY <1>6, <1>7, <3>1
  <2>3. \A k \in 1 .. Len(lines(wire')) : r + k <= Len(sent') /\ IsSent(lines(wire')[k], sent'[r + k])
    <3> SUFFICES ASSUME NEW k \in 1 .. Len(lines(wire'))
                 PROVE  r + k <= Len(sent') /\ IsSent(lines(wire')[k], sent'[r + k])
      OBVIOUS
    <3>1. k \in 1 .. (Len(s) - r) + 1 /\ Len(lines(wire')) = (Len(s) - r) + 1
      BY <1>6, <1>7, <2>2
    <3>2. CASE k = (Len(s) - r) + 1
      <4>1. r + k = Len(s) + 1 /\ k = Len(lines(w)) + 1
        BY <1>6, <1>7, <3>2
      <4>2. lines(wire')[k] = l
        BY <1>4, <1>5, <1>8, <4>1
      <4> QED
        BY <1>3, <1>6, <4>1, <4>2
    <3>3. CASE k # (Len(s) - r) + 1
      <4>1. k \in 1 .. Len(lines(w)) /\ r + k \in 1 .. Len(s)
        BY <1>6, <1>7, <3>1, <3>3
      <4>2. IsSent(lines(w)[k], s[r + k])
        BY <1>1, <4>1 DEF Arriving
      <4>3. lines(wire')[k] = lines(w)[k] /\ sent'[r + k] = s[r + k]
        BY <1>4, <1>5, <1>6, <1>8, <4>1
      <4> QED
        BY <1>6, <4>1, <4>2, <4>3
    <3> QED
      BY <3>2, <3>3
  <2>4. Len(sent') \in Nat
    BY <1>6
  <2> QED
    BY <2>1, <2>2, <2>3, <2>4 DEF Arriving
<1>10. wire' \in Seq(Octets)
  BY <1>4, <1>5
<1> QED
  BY <1>0, <1>6, <1>9, <1>10 DEF DataInv

\* Pairs and triples, as SMT does not take them for appended sequences.
LEMMA AppendedTuples ==
    ASSUME NEW x, NEW y, NEW z
    PROVE  Append(<<x>>, y) = <<x, y>> /\ Append(<<x, y>>, z) = <<x, y, z>>
<1> DEFINE S == {x, y, z}
           p == Append(<<x>>, y)
           t == Append(<<x, y>>, z)
<1>1. <<x>> \in Seq(S) /\ p \in Seq(S) /\ <<x, y>> \in Seq(S) /\ t \in Seq(S) /\ <<x, y, z>> \in Seq(S)
  OBVIOUS
<1>2. Len(p) = 2 /\ p[1] = x /\ p[2] = y /\ Len(t) = 3 /\ t[1] = x /\ t[2] = y /\ t[3] = z
  BY <1>1
<1> HIDE DEF p, t
<1>3. p = <<x, y>>
  <2>1. \A k \in 1 .. Len(<<x, y>>) : p[k] = <<x, y>>[k]
    BY <1>2
  <2> QED
    BY <1>1, <1>2, <2>1, SeqEqual
<1>4. t = <<x, y, z>>
  <2>1. \A k \in 1 .. Len(<<x, y, z>>) : t[k] = <<x, y, z>>[k]
    BY <1>2
  <2> QED
    BY <1>1, <1>2, <2>1, SeqEqual
<1> QED
  BY <1>3, <1>4 DEF p, t

\* The client ends its text.
LEMMA EndSent ==
    ASSUME DataInv, NEW e \in {CRLF, <<LF>>}, Streaming!SendEnd(e)
    PROVE  DataInv'
<1> DEFINE l == <<Dot>> \o e
           w == wire
           n == Len(lines(wire))
<1>0. /\ conn = "open" /\ data.st = "reading" /\ conn' = "ended" /\ sent' = sent
      /\ data' = data /\ stored' = stored /\ resp' = resp
  BY DEF Streaming!SendEnd
<1>1. PICK r \in Nat : Arriving(r)
  BY <1>0 DEF DataInv
<1>2. <<Dot>> \in Text /\ <<Dot>> \in Seq(Octets) /\ e \in Seq(Octets)
  <2>1. Dot \in Octets \ {LF}
    BY OctetFacts
  <2>2. <<Dot>> \in Seq(Octets \ {LF})
    BY <2>1
  <2> QED
    BY <2>2, OctetFacts DEF Text
<1>3. IsLine(l) /\ l \in Seq(Octets) /\ Streaming!endsData(l)
  <2>1. IsLine(l)
    BY <1>2, EndedText
  <2>2. <<Dot>> \o <<LF>> = Append(<<Dot>>, LF) /\ <<Dot>> \o CRLF = Append(Append(<<Dot>>, CR), LF)
    BY <1>2, Ends
  <2>3. Append(<<Dot>>, LF) = <<Dot, LF>> /\ Append(Append(<<Dot>>, CR), LF) = <<Dot, CR, LF>>
    BY AppendedTuples
  <2> QED
    BY <2>1, <2>2, <2>3, LineFacts, OctetFacts DEF Streaming!endsData, Streaming!EndMark
<1>5. wire' = w \o l /\ w \in Seq(Octets)
  BY OctetFacts DEF DataInv, Streaming!SendEnd
<1> HIDE DEF l
<1>7. rest(w) = <<>> /\ n = Len(sent) - r /\ r \in 0 .. Len(sent) /\ Len(sent) \in Nat
  BY <1>0, <1>1 DEF Arriving, DataInv
<1>8. /\ lines(wire') = Append(lines(w), l) /\ rest(wire') = <<>> /\ lines(w) \in Seq(Seq(Octets))
  BY <1>3, <1>5, <1>7, LineFacts, LinesAppend
<1>9. /\ Len(lines(wire')) = n + 1 /\ lines(wire')[n + 1] = l
      /\ \A k \in 1 .. n : lines(wire')[k] = lines(w)[k]
  BY <1>3, <1>8
<1>10. Arriving(r)'
  <2>1. /\ rest(data'.out) = <<>> /\ Len(lines(data'.out)) = r + 1
        /\ lines(data'.out)[1] = Streaming!deliveryHeaders
        /\ \A k \in 1 .. r : lines(data'.out)[k + 1] = sent'[k] \o CRLF
    BY <1>0, <1>1 DEF Arriving
  <2>2. \A k \in 1 .. n : r + k <= Len(sent) /\ IsSent(lines(w)[k], sent[r + k])
    BY <1>1, <1>7 DEF Arriving
  <2>3. \A k \in 1 .. n + 1 :
          IF r + k <= Len(sent) THEN IsSent(lines(wire')[k], sent[r + k])
          ELSE Streaming!endsData(lines(wire')[k])
    BY <1>3, <1>7, <1>9, <2>2
  <2>4. conn' # "open"
    BY <1>0
  <2>5. Len(lines(wire')) = Len(sent') + 1 - r /\ r \in 0 .. Len(sent') /\ Len(lines(wire')) <= Len(sent') + 1 - r
    BY <1>0, <1>7, <1>9
  <2>6. \A k \in 1 .. Len(lines(wire')) :
            IF r + k <= Len(sent') THEN IsSent(lines(wire')[k], sent'[r + k])
            ELSE Streaming!endsData(lines(wire')[k])
    BY <1>0, <1>9, <2>3
  <2>7. rest(wire') = <<>>
    BY <1>8
  <2> QED
    BY <2>1, <2>4, <2>5, <2>6, <2>7, Zenon DEF Arriving
<1>11. wire' \in Seq(Octets)
  BY <1>3, <1>5
<1> QED
  BY <1>0, <1>10, <1>11 DEF DataInv

\* Octets are lost with the connection.
LEMMA ConnCut ==
    ASSUME DataInv, Streaming!Cut
    PROVE  DataInv'
<1> DEFINE w == wire
           p == wire'
<1>0. /\ data.st = "reading" /\ conn' = "cut" /\ sent' = sent
      /\ data' = data /\ stored' = stored /\ resp' = resp
  BY DEF Streaming!Cut
<1>1. PICK r \in Nat : Arriving(r)
  BY <1>0 DEF DataInv
<1>2. PICK n \in 0 .. Len(w) : p = SubSeq(w, 1, n)
  BY DEF Streaming!Cut
<1>3. w \in Seq(Octets) /\ sent \in Seq(Contents) /\ Len(sent) \in Nat
  BY DEF DataInv
<1>4. /\ p \in Seq(Octets) /\ Len(lines(p)) <= Len(lines(w))
      /\ \A k \in 1 .. Len(lines(p)) : lines(p)[k] = lines(w)[k]
      /\ Len(lines(p)) = Len(lines(w)) /\ rest(w) = <<>> => p = w
  BY <1>2, <1>3, LinesPrefix
<1>5. Len(lines(p)) \in Nat /\ Len(lines(w)) \in Nat
  BY <1>3, <1>4, LinesAppend
<1> HIDE DEF p
<1>6. Len(lines(w)) <= Len(sent) + 1 - r /\ r \in 0 .. Len(sent)
      /\ (Len(lines(w)) = Len(sent) + 1 - r => rest(w) = <<>>)
      /\ \A k \in 1 .. Len(lines(w)) :
            IF r + k <= Len(sent) THEN IsSent(lines(w)[k], sent[r + k])
            ELSE Streaming!endsData(lines(w)[k])
  BY <1>1 DEF Arriving
<1>7. Len(lines(p)) <= Len(sent) + 1 - r
      /\ (Len(lines(p)) = Len(sent) + 1 - r => rest(p) = <<>>)
  BY <1>3, <1>4, <1>5, <1>6
<1>8. \A k \in 1 .. Len(lines(p)) :
          IF r + k <= Len(sent) THEN IsSent(lines(p)[k], sent[r + k])
          ELSE Streaming!endsData(lines(p)[k])
  <2> SUFFICES ASSUME NEW k \in 1 .. Len(lines(p))
               PROVE  IF r + k <= Len(sent) THEN IsSent(lines(p)[k], sent[r + k])
                      ELSE Streaming!endsData(lines(p)[k])
    OBVIOUS
  <2>1. k \in 1 .. Len(lines(w)) /\ lines(p)[k] = lines(w)[k]
    BY <1>4, <1>5
  <2> QED
    BY <1>6, <2>1
<1>9. Arriving(r)'
  BY <1>0, <1>1, <1>7, <1>8 DEF Arriving, p
<1> QED
  BY <1>0, <1>4, <1>9 DEF DataInv, p

\* What there is to read.
LEMMA NextLine ==
    ASSUME DataInv, NEW r \in Nat, Arriving(r), Streaming!haveLine
    PROVE  /\ Streaming!nextLine = lines(wire)[1] /\ wire \in Seq(Octets) /\ lines(wire) # <<>>
           /\ IF r < Len(sent) THEN IsSent(Streaming!nextLine, sent[r + 1])
              ELSE Streaming!endsData(Streaming!nextLine)
           /\ Len(sent) \in Nat /\ Len(lines(wire)) \in Nat /\ Len(lines(wire)) >= 1
<1>1. wire \in Seq(Octets) /\ Len(sent) \in Nat
  BY DEF DataInv
<1>2. lines(wire) # <<>> /\ Streaming!nextLine = lines(wire)[1]
  BY DEF Streaming!haveLine, Streaming!nextLine, Streaming!linesOf, lines
<1>3. Len(lines(wire)) \in Nat /\ Len(lines(wire)) >= 1
  BY <1>1, <1>2, LinesAppend, EmptySeq
<1>4. IF r + 1 <= Len(sent) THEN IsSent(lines(wire)[1], sent[r + 1]) ELSE Streaming!endsData(lines(wire)[1])
  BY <1>3 DEF Arriving
<1> QED
  BY <1>1, <1>2, <1>3, <1>4

\* The server takes a line.
LEMMA LineRead ==
    ASSUME DataInv, Streaming!ReadLine
    PROVE  DataInv'
<1> DEFINE l == Streaming!nextLine
           w == wire
           b == wire'
           out == data.out
           c(r) == sent[r + 1] \o CRLF
<1>0. /\ data.st = "reading" /\ Streaming!haveLine /\ ~ Streaming!endsData(l)
      /\ conn' = conn /\ sent' = sent /\ stored' = stored /\ resp' = resp
      /\ wire' = SubSeq(w, Len(l) + 1, Len(w))
  BY DEF Streaming!ReadLine, Streaming!restOfWire
<1>1. PICK r \in Nat : Arriving(r)
  BY <1>0 DEF DataInv
<1>2. /\ l = lines(w)[1] /\ w \in Seq(Octets) /\ lines(w) # <<>>
      /\ r < Len(sent) /\ IsSent(l, sent[r + 1]) /\ Len(sent) \in Nat
  BY <1>0, <1>1, NextLine
<1>3. sent[r + 1] \in Text
  <2>1. r + 1 \in 1 .. Len(sent) /\ sent \in Seq(Contents)
    BY <1>2 DEF DataInv
  <2>2. sent[r + 1] \in Contents
    BY <2>1
  <2> QED
    BY <2>2, OctetFacts
<1>4. /\ Streaming!canonicalDataLine(Streaming!unstuff(l)) = c(r) /\ IsLine(c(r))
  BY <1>2, <1>3, SentLine
<1>5. /\ data'.st = "reading" /\ data'.out = out \o c(r) /\ out \in Seq(Octets)
      /\ data' = [st |-> data'.st, bytesRead |-> data'.bytesRead, out |-> data'.out]
  BY <1>0, <1>4 DEF DataInv, Streaming!ReadLine
<1>6. /\ b \in Seq(Octets) /\ rest(b) = rest(w) /\ Len(lines(w)) = Len(lines(b)) + 1
      /\ Len(lines(b)) \in Nat
      /\ \A k \in 1 .. Len(lines(b)) : lines(b)[k] = lines(w)[k + 1]
  BY <1>0, <1>2, FirstTaken
<1>7. /\ rest(out) = <<>> /\ Len(lines(out)) = r + 1 /\ lines(out)[1] = Streaming!deliveryHeaders
      /\ \A k \in 1 .. r : lines(out)[k + 1] = sent[k] \o CRLF
  BY <1>1 DEF Arriving
<1>8. /\ lines(out \o c(r)) = Append(lines(out), c(r)) /\ rest(out \o c(r)) = <<>>
      /\ lines(out) \in Seq(Seq(Octets)) /\ c(r) \in Seq(Octets)
  BY <1>4, <1>5, <1>7, LineFacts, LinesAppend
<1>9. /\ Len(lines(data'.out)) = r + 2 /\ rest(data'.out) = <<>>
      /\ lines(data'.out)[r + 2] = c(r)
      /\ \A k \in 1 .. r + 1 : lines(data'.out)[k] = lines(out)[k]
  <2> DEFINE ls == lines(out)
             x == c(r)
  <2>1. ls \in Seq(Seq(Octets)) /\ x \in Seq(Octets) /\ Len(ls) = r + 1 /\ lines(data'.out) = Append(ls, x)
    BY <1>5, <1>7, <1>8
  <2> HIDE DEF ls, x
  <2>2. /\ Len(Append(ls, x)) = r + 2 /\ Append(ls, x)[r + 2] = x
        /\ \A k \in 1 .. r + 1 : Append(ls, x)[k] = ls[k]
    BY <2>1
  <2> QED
    BY <1>5, <1>8, <2>1, <2>2 DEF ls, x
<1>10. Arriving(r + 1)'
  <2>1. /\ lines(data'.out)[1] = Streaming!deliveryHeaders
        /\ \A k \in 1 .. r + 1 : lines(data'.out)[k + 1] = sent[k] \o CRLF
    <3>1. lines(data'.out)[1] = Streaming!deliveryHeaders
      BY <1>7, <1>9
    <3>2. ASSUME NEW k \in 1 .. r + 1 PROVE lines(data'.out)[k + 1] = sent[k] \o CRLF
      <4>1. CASE k = r + 1
        <5>1. k + 1 = r + 2
          BY <4>1
        <5> QED
          BY <1>9, <4>1, <5>1
      <4>2. CASE k # r + 1
        <5>1. k \in 1 .. r /\ k + 1 \in 1 .. r + 1
          BY <4>2
        <5> QED
          BY <1>7, <1>9, <5>1
      <4> QED
        BY <4>1, <4>2
    <3> QED
      BY <3>1, <3>2
  <2>2. \A k \in 1 .. Len(lines(b)) :
            IF (r + 1) + k <= Len(sent) THEN IsSent(lines(b)[k], sent[(r + 1) + k])
            ELSE Streaming!endsData(lines(b)[k])
    <3> SUFFICES ASSUME NEW k \in 1 .. Len(lines(b))
                 PROVE  IF (r + 1) + k <= Len(sent) THEN IsSent(lines(b)[k], sent[(r + 1) + k])
                        ELSE Streaming!endsData(lines(b)[k])
      OBVIOUS
    <3>1. k + 1 \in 1 .. Len(lines(w)) /\ (r + 1) + k = r + (k + 1)
      BY <1>6
    <3>2. IF r + (k + 1) <= Len(sent) THEN IsSent(lines(w)[k + 1], sent[r + (k + 1)])
          ELSE Streaming!endsData(lines(w)[k + 1])
      BY <1>1, <3>1 DEF Arriving
    <3> QED
      BY <1>6, <3>1, <3>2
  <2>3. /\ Len(lines(b)) <= Len(sent) + 1 - (r + 1)
        /\ Len(lines(b)) = Len(sent) + 1 - (r + 1) => rest(b) = <<>>
        /\ conn = "open" => Len(lines(b)) = Len(sent) - (r + 1) /\ rest(b) = <<>>
    <3>1. /\ r \in 0 .. Len(sent) /\ Len(lines(w)) <= Len(sent) + 1 - r
          /\ Len(lines(w)) = Len(sent) + 1 - r => rest(w) = <<>>
          /\ conn = "open" => Len(lines(w)) = Len(sent) - r /\ rest(w) = <<>>
      BY <1>1 DEF Arriving
    <3> DEFINE n == Len(lines(w))
               m == Len(lines(b))
               s == Len(sent)
    <3>2. n = m + 1 /\ m \in Nat /\ s \in Nat /\ rest(b) = rest(w)
      BY <1>2, <1>6
    <3> HIDE DEF m, n, s
    <3>3. n <= s + 1 - r <=> m <= s + 1 - (r + 1)
      BY <3>2
    <3>4. n = s + 1 - r <=> m = s + 1 - (r + 1)
      BY <3>2
    <3>5. n = s - r <=> m = s - (r + 1)
      BY <3>2
    <3> QED
      BY <3>1, <3>2, <3>3, <3>4, <3>5 DEF m, n, s
  <2>4. r + 1 \in 0 .. Len(sent) /\ (r + 1) + 1 = r + 2
    BY <1>2
  <2> QED
    BY <1>0, <1>9, <2>1, <2>2, <2>3, <2>4 DEF Arriving
<1>11. data'.out \in Seq(Octets)
  BY <1>5, <1>8
<1>12. \E q \in Nat : Arriving(q)'
  BY <1>10
<1> QED
  BY <1>0, <1>5, <1>6, <1>11, <1>12 DEF DataInv

\* The server takes the end: the client's lines are all there, and nothing is left.
LEMMA EndRead ==
    ASSUME DataInv, Streaming!ReadEnd
    PROVE  DataInv'
<1> DEFINE l == Streaming!nextLine
           w == wire
           b == wire'
           n == Len(sent)
           headers == Streaming!deliveryHeaders
           sentLines == [k \in DOMAIN sent |-> sent[k] \o CRLF]
           L == Seq(Octets)
           ls == lines(data.out)
<1>0. /\ data.st = "reading" /\ Streaming!haveLine /\ Streaming!endsData(l)
      /\ sent' = sent /\ stored' = data.out /\ resp' = resp
      /\ wire' = SubSeq(w, Len(l) + 1, Len(w))
  BY DEF Streaming!ReadEnd, Streaming!restOfWire
<1>1. PICK r \in Nat : Arriving(r)
  BY <1>0 DEF DataInv
<1>2. /\ l = lines(w)[1] /\ w \in L /\ lines(w) # <<>> /\ n \in Nat
      /\ Len(lines(w)) \in Nat /\ Len(lines(w)) >= 1
      /\ IF r < n THEN IsSent(l, sent[r + 1]) ELSE TRUE
  BY <1>0, <1>1, NextLine
<1>3. r \in 0 .. n /\ sent \in Seq(Contents)
  BY <1>1 DEF Arriving, DataInv
<1>4. r = n
  <2> SUFFICES ASSUME r < n PROVE FALSE
    BY <1>2, <1>3
  <2>1. r + 1 \in 1 .. Len(sent)
    BY <1>2, <1>3
  <2>2. sent[r + 1] \in Contents
    BY <1>3, <2>1
  <2>3. sent[r + 1] \in Text /\ IsSent(l, sent[r + 1])
    BY <1>2, <2>2, OctetFacts
  <2> QED
    BY <1>0, <2>3, SentLine
<1>5. Len(lines(w)) = 1 /\ rest(w) = <<>>
  <2>1. Len(lines(w)) <= n + 1 - r /\ (Len(lines(w)) = n + 1 - r => rest(w) = <<>>)
    BY <1>1 DEF Arriving
  <2>2. n + 1 - r = 1
    BY <1>2, <1>4
  <2> DEFINE m == Len(lines(w))
  <2>3. m \in Nat /\ m >= 1
    BY <1>2
  <2>4. m <= 1 /\ (m = 1 => rest(w) = <<>>)
    BY <2>1, <2>2, Zenon
  <2> HIDE DEF m
  <2>5. m = 1
    BY <2>3, <2>4
  <2> QED
    BY <2>4, <2>5 DEF m
<1>6. b \in L /\ rest(b) = <<>> /\ Len(lines(b)) = 0
  BY <1>0, <1>2, <1>5, FirstTaken
<1>7. wire' = <<>>
  <2> HIDE DEF b
  <2>1. CASE lines(b) = <<>> /\ rest(b) = b
    BY <1>6, <2>1 DEF b
  <2>2. CASE \E h \in L, t \in L : lines(b) = <<h>> \o lines(t)
    <3>1. PICK h \in L, t \in L : lines(b) = <<h>> \o lines(t)
      BY <2>2
    <3>2. lines(t) \in Seq(L) /\ <<h>> \in Seq(L)
      BY LinesAppend
    <3>3. Len(lines(b)) # 0
      BY <3>1, <3>2
    <3> QED
      BY <1>6, <3>3
  <2> QED
    BY <1>6, <2>1, <2>2, FirstLine
<1>8. /\ Len(ls) = n + 1 /\ ls[1] = headers /\ ls \in Seq(L) /\ data.out \in L
      /\ \A k \in 1 .. n : ls[k + 1] = sent[k] \o CRLF
  BY <1>1, <1>4, LinesAppend DEF Arriving, DataInv
<1> DEFINE q == <<headers>> \o sentLines
<1>9. headers \in L /\ sentLines \in Seq(L) /\ Len(sentLines) = n
      /\ \A k \in 1 .. n : sentLines[k] = sent[k] \o CRLF
  <2>1. headers \in L
    <3>1. 1 \in 1 .. Len(ls)
      BY <1>2, <1>8
    <3> QED
      BY <1>8, <3>1
  <2>2. DOMAIN sent = 1 .. n
    BY <1>3
  <2>3. ASSUME NEW k \in 1 .. n PROVE sent[k] \o CRLF \in L
    <3>1. sent[k] \in Contents
      BY <1>3, <2>3
    <3> QED
      BY <3>1, OctetFacts
  <2>4. sentLines = [k \in 1 .. n |-> sent[k] \o CRLF]
    BY <2>2
  <2>5. [k \in 1 .. n |-> sent[k] \o CRLF] \in Seq(L)
    BY <1>2, <2>3
  <2>6. Len([k \in 1 .. n |-> sent[k] \o CRLF]) = n
    BY <1>2, <2>5
  <2> QED
    BY <2>1, <2>4, <2>5, <2>6
<1> HIDE DEF headers, sentLines, L, ls
<1>10. /\ q \in Seq(L) /\ Len(q) = n + 1 /\ q[1] = headers
       /\ \A k \in 1 .. n : q[k + 1] = sentLines[k]
  BY <1>2, <1>9
<1>11. ls = q
  <2>1. ASSUME NEW k \in 1 .. n + 1 PROVE ls[k] = q[k]
    <3>1. CASE k = 1
      BY <1>8, <1>10, <3>1
    <3>2. CASE k # 1
      <4>1. k - 1 \in 1 .. n /\ k = (k - 1) + 1
        BY <1>2, <3>2
      <4> QED
        BY <1>8, <1>9, <1>10, <4>1
    <3> QED
      BY <3>1, <3>2
  <2> HIDE DEF q
  <2> QED
    BY <1>8, <1>10, <2>1, SeqEqual
<1>12. data' = [data EXCEPT !.st = "done"]
  BY DEF Streaming!ReadEnd
<1>13. /\ data'.st = "done" /\ data'.out = data.out
       /\ data' = [st |-> data'.st, bytesRead |-> data'.bytesRead, out |-> data'.out]
  BY <1>12 DEF DataInv
<1>14. lines(stored') = <<Streaming!deliveryHeaders>> \o [k \in DOMAIN sent' |-> sent'[k] \o CRLF]
  BY <1>0, <1>11 DEF ls, headers, sentLines
<1>15. /\ sent' \in Seq(Contents) /\ wire' \in Seq(Octets) /\ stored' \in Seq(Octets)
       /\ data'.out \in Seq(Octets)
  BY <1>0, <1>3, <1>6, <1>8, <1>13 DEF L, b
<1> QED
  BY <1>7, <1>13, <1>14, <1>15 DEF DataInv

\* RETR and TOP change nothing of DATA.
LEMMA DataKept ==
    ASSUME DataInv, UNCHANGED <<sent, wire, conn, data, stored>>,
           data.st = "reading" => resp'.st = "none"
    PROVE  DataInv'
<1>1. sent' = sent /\ wire' = wire /\ conn' = conn /\ data' = data /\ stored' = stored
  OBVIOUS
<1>2. ASSUME NEW r \in Nat, Arriving(r) PROVE Arriving(r)'
  BY <1>1, <1>2 DEF Arriving
<1>3. data.st = "reading" => \E r \in Nat : Arriving(r)'
  BY <1>2 DEF DataInv
<1>4. /\ sent \in Seq(Contents) /\ wire \in Seq(Octets)
      /\ data = [st |-> data.st, bytesRead |-> data.bytesRead, out |-> data.out]
      /\ data.out \in Seq(Octets)
      /\ stored # None => stored \in Seq(Octets)
      /\ data.st = "reading" => stored = None
      /\ data.st = "done" =>
            /\ lines(stored) = <<Streaming!deliveryHeaders>> \o [k \in DOMAIN sent |-> sent[k] \o CRLF]
            /\ wire = <<>>
  BY DEF DataInv
<1> QED
  BY <1>1, <1>3, <1>4 DEF DataInv

\* dataReader gives up: nothing is stored.
LEMMA ReadFailed ==
    ASSUME DataInv, Streaming!ReadFails
    PROVE  DataInv'
<1>1. /\ sent' = sent /\ wire' = wire /\ stored' = stored
      /\ data' = [data EXCEPT !.st = "failed", !.out = <<>>]
  BY DEF Streaming!ReadFails
<1>2. /\ data'.st = "failed" /\ data'.out = <<>> /\ <<>> \in Seq(Octets)
      /\ data' = [st |-> data'.st, bytesRead |-> data'.bytesRead, out |-> data'.out]
  <2>1. data = [st |-> data.st, bytesRead |-> data.bytesRead, out |-> data.out]
    BY DEF DataInv
  <2>2. data' = [st |-> "failed", bytesRead |-> data.bytesRead, out |-> <<>>]
    BY <1>1, <2>1
  <2> QED
    BY <2>2
<1> QED
  BY <1>1, <1>2 DEF DataInv

\* What has been read and what is to come are always the client's lines.
LEMMA DataHolds == Streaming!Spec => []DataInv
<1>1. Streaming!Init => DataInv
  <2> SUFFICES ASSUME Streaming!Init PROVE DataInv
    OBVIOUS
  <2>1. /\ sent = <<>> /\ wire = <<>> /\ conn = "open" /\ resp = Streaming!noResponse
        /\ resp.st = "none"
    BY DEF Streaming!Init, Streaming!noResponse
  <2>2. sent \in Seq(Contents) /\ wire \in Seq(Octets) /\ Len(sent) = 0
    BY <2>1
  <2>3. CASE data = [st |-> "reading", bytesRead |-> 0, out |-> Streaming!deliveryHeaders] /\ stored = None
    <3> DEFINE h == Streaming!deliveryHeaders
    <3>1. IsLine(h) /\ h \in Seq(Octets)
      <4>1. h = Append(<<"R", CR>>, LF)
        BY OctetFacts, AppendedTuples DEF Streaming!deliveryHeaders
      <4>2. "R" \in Octets \ {LF} /\ CR \in Octets \ {LF}
        BY OctetFacts DEF Octets, LF
      <4>3. <<"R", CR>> \in Text
        BY <4>2 DEF Text
      <4> QED
        BY <4>1, <4>3, LineFacts DEF IsLine
    <3>2. lines(h) = <<h>> /\ rest(h) = <<>>
      BY <3>1, LineFacts
    <3>3. lines(wire) = <<>> /\ rest(wire) = <<>> /\ Len(lines(wire)) = 0
      BY <2>1, LinesAppend
    <3>4. data.st = "reading" /\ data.out = h
      BY <2>3
    <3>5. Len(lines(h)) = 1 /\ lines(h)[1] = h
      BY <3>2
    <3> HIDE DEF h
    <3>6. Arriving(0)
      BY <2>1, <2>2, <3>2, <3>3, <3>4, <3>5 DEF Arriving, h
    <3>7. data = [st |-> data.st, bytesRead |-> data.bytesRead, out |-> data.out]
      BY <2>3
    <3> QED
      BY <2>1, <2>2, <2>3, <3>1, <3>4, <3>6, <3>7 DEF DataInv
  <2>4. CASE data = [st |-> "idle", bytesRead |-> 0, out |-> <<>>] /\ stored \in Imported
    <3>1. data.st = "idle" /\ data.out = <<>> /\ data.out \in Seq(Octets)
          /\ data = [st |-> data.st, bytesRead |-> data.bytesRead, out |-> data.out]
      BY <2>4
    <3>2. stored \in Seq(Octets)
      BY <2>4, OctetFacts
    <3> QED
      BY <2>1, <2>2, <3>1, <3>2 DEF DataInv
  <2> QED
    BY <2>3, <2>4 DEF Streaming!Init
<1>2. ASSUME DataInv, [Streaming!Next]_Streaming!vars PROVE DataInv'
  <2>1. ASSUME NEW content \in Contents, NEW end \in {<<CR, LF>>, <<LF>>}, Streaming!SendLine(content, end)
        PROVE  DataInv'
    BY <1>2, <2>1, LineSent DEF CRLF
  <2>2. ASSUME NEW end \in {<<CR, LF>>, <<LF>>}, Streaming!SendEnd(end) PROVE DataInv'
    BY <1>2, <2>2, EndSent DEF CRLF
  <2>3. CASE Streaming!Cut
    BY <1>2, <2>3, ConnCut
  <2>4. CASE Streaming!ReadLine
    BY <1>2, <2>4, LineRead
  <2>5. CASE Streaming!ReadEnd
    BY <1>2, <2>5, EndRead
  <2>6. CASE Streaming!ReadFails
    BY <1>2, <2>6, ReadFailed
  <2>7. data.st = "reading" => stored = None /\ resp.st = "none"
    BY <1>2 DEF DataInv
  <2>8. ASSUME NEW limit \in Limits \cup {None}, Streaming!Request(limit) PROVE DataInv'
    BY <1>2, <2>7, <2>8, DataKept DEF Streaming!Request
  <2>9. CASE Streaming!StreamLine
    BY <1>2, <2>7, <2>9, DataKept DEF Streaming!StreamLine
  <2>10. CASE Streaming!StreamEnd
    BY <1>2, <2>7, <2>10, DataKept DEF Streaming!StreamEnd
  <2>11. CASE Streaming!StreamFails
    BY <1>2, <2>7, <2>11, DataKept DEF Streaming!StreamFails
  <2>12. CASE UNCHANGED Streaming!vars
    BY <1>2, <2>7, <2>12, DataKept DEF Streaming!vars
  <2>13. Streaming!CR = CR /\ Streaming!LF = LF
    BY OctetFacts
  <2> QED
    BY <1>2, <2>1, <2>2, <2>3, <2>4, <2>5, <2>6, <2>8, <2>9, <2>10, <2>11, <2>12, <2>13, Zenon
    DEF Streaming!Next
<1> QED
  BY <1>1, <1>2, PTL DEF Streaming!Spec

-----------------------------------------------------------------------------
(* The steps of RETR and TOP. *)

\* A message has its whole lines, and perhaps one that is not ended.
LEMMA WholeFacts ==
    ASSUME stored \in Seq(Octets)
    PROVE  /\ whole \in Seq(Seq(Octets)) /\ Len(whole) \in Nat /\ Len(lines(stored)) \in Nat
           /\ rest(stored) = <<>> => whole = lines(stored)
           /\ rest(stored) # <<>> => /\ Len(whole) = Len(lines(stored)) + 1
                                     /\ whole[Len(lines(stored)) + 1] = rest(stored) \o CRLF
           /\ \A k \in 1 .. Len(lines(stored)) : whole[k] = lines(stored)[k]
           /\ Len(lines(stored)) <= Len(whole)
           /\ \A k \in 1 .. Len(whole) : whole[k] \in Seq(Octets)
<1> DEFINE ls == lines(stored)
           u == rest(stored)
<1>1. ls \in Seq(Seq(Octets)) /\ u \in Seq(Octets)
  BY LinesAppend
<1>2. whole = lines(IF stored # <<>> /\ Last(stored) # LF THEN stored \o CRLF ELSE stored)
  <2>1. Streaming!LF = LF /\ <<Streaming!CR, Streaming!LF>> = CRLF /\ Streaming!Last(stored) = Last(stored)
    BY OctetFacts DEF CRLF
  <2> QED
    BY <2>1 DEF whole, Streaming!wholeLines, Streaming!linesOf, lines
<1>3. u = <<>> <=> ~ (stored # <<>> /\ Last(stored) # LF)
  BY LinesAreLines
<1>4. CASE u = <<>>
  <2>1. whole = ls
    BY <1>2, <1>3, <1>4
  <2> HIDE DEF ls, u
  <2> QED
    BY <1>1, <1>4, <2>1 DEF ls, u
<1>5. CASE u # <<>>
  <2> DEFINE t == Append(stored, CR)
  <2>1. CR \in Octets \ {LF} /\ t \in Seq(Octets)
    BY OctetFacts
  <2>2. lines(t) = ls /\ rest(t) = Append(u, CR)
    BY <2>1, LinesAppend
  <2>3. lines(Append(t, LF)) = Append(lines(t), Append(rest(t), LF))
    BY <2>1, LinesAppend
  <2>4. stored \o CRLF = Append(t, LF) /\ u \o CRLF = Append(Append(u, CR), LF)
    BY <1>1, Ends
  <2>5. whole = Append(ls, u \o CRLF) /\ u \o CRLF \in Seq(Octets)
    BY <1>1, <1>2, <1>3, <1>5, <2>2, <2>3, <2>4, OctetFacts
  <2> DEFINE x == u \o CRLF
  <2> HIDE DEF ls, x
  <2>6. /\ whole \in Seq(Seq(Octets)) /\ Len(whole) = Len(ls) + 1 /\ whole[Len(ls) + 1] = x
        /\ \A k \in 1 .. Len(ls) : whole[k] = ls[k]
    BY <1>1, <2>5 DEF x
  <2>7. Len(ls) \in Nat /\ \A k \in 1 .. Len(whole) : whole[k] \in Seq(Octets)
    BY <1>1, <2>6
  <2> QED
    BY <1>5, <2>6, <2>7 DEF ls, x
<1> QED
  BY <1>4, <1>5

\* A line with its dot doubled is a line.
LEMMA StuffedLine ==
    ASSUME NEW l, IsLine(l)
    PROVE  IsLine(Streaming!stuff(l)) /\ l \in Seq(Octets)
<1>1. PICK t \in Text : l = Append(t, LF)
  BY DEF IsLine
<1>2. t \in Seq(Octets) /\ l = t \o <<LF>> /\ <<LF>> \in Seq(Octets)
  BY <1>1, OctetFacts, Ends
<1>3. ~ Streaming!startsWithDot(<<LF>>)
  BY OctetFacts DEF Streaming!startsWithDot
<1>4. Streaming!stuff(l) = Streaming!stuff(t) \o <<LF>> /\ Streaming!stuff(t) \in Text
  BY <1>2, <1>3, StuffFacts
<1> QED
  BY <1>4, EndedText, LineFacts

\* The mark is a line.
LEMMA EndMarkIsLine == IsLine(Streaming!EndMark) /\ Streaming!EndMark \in Seq(Octets)
<1>1. Streaming!EndMark = Append(<<Dot, CR>>, LF)
  BY OctetFacts, AppendedTuples DEF Streaming!EndMark
<1>2. <<Dot, CR>> \in Text
  BY OctetFacts DEF Text
<1> QED
  BY <1>1, <1>2, LineFacts DEF IsLine

\* A response starts.
LEMMA Requested ==
    ASSUME DataInv, NEW limit \in Limits \cup {None}, Streaming!Request(limit)
    PROVE  RespInv'
<1>1. /\ stored # None /\ stored' = stored
      /\ resp' = [st |-> "streaming", limit |-> limit, left |-> stored, out |-> <<>>,
                  inBody |-> FALSE, bodyLines |-> 0, lastEndedWithLF |-> TRUE]
  BY DEF Streaming!Request, Streaming!noResponse
<1>2. stored \in Seq(Octets)
  BY <1>1 DEF DataInv
<1>3. whole' = whole
  BY <1>1 DEF whole
<1>4. Len(whole) \in Nat /\ Len(lines(stored)) \in Nat
  BY <1>2, WholeFacts
<1>5. lines(<<>>) = <<>> /\ rest(<<>>) = <<>> /\ <<>> \o <<>> = <<>> /\ <<>> \in Seq(Octets)
  BY LinesAppend
<1>6. Len(lines(<<>>)) = 0
  BY <1>5
<1>7. /\ resp'.st = "streaming" /\ resp'.limit = limit /\ resp'.left = stored /\ resp'.out = <<>>
      /\ resp'.inBody = FALSE /\ resp'.bodyLines = 0 /\ resp'.lastEndedWithLF = TRUE
  BY <1>1
<1>8. Streamed(0)'
  BY <1>1, <1>2, <1>3, <1>4, <1>5, <1>6, <1>7 DEF Streamed, ended
<1>9. \E q \in Nat : Streamed(q)'
  BY <1>8
<1> QED
  BY <1>1, <1>7, <1>9 DEF RespInv

\* What a line does to the response: the line is the message's next one.
LEMMA NextChunk ==
    ASSUME RespInv, stored \in Seq(Octets), NEW q \in Nat, Streamed(q), Streaming!StreamLine
    PROVE  /\ q + 1 <= Len(whole)
           /\ Streaming!chunk = CRLF <=> whole[q + 1] = CRLF
           /\ resp'.left \in Seq(Octets) /\ resp'.out \in Seq(Octets)
           /\ resp'.lastEndedWithLF \in BOOLEAN
           /\ IF resp'.lastEndedWithLF = TRUE
              THEN /\ q + 1 + Len(lines(resp'.left)) = Len(lines(stored))
                   /\ rest(resp'.left) = rest(stored)
                   /\ \A k \in 1 .. Len(lines(resp'.left)) :
                         lines(resp'.left)[k] = lines(stored)[q + 1 + k]
              ELSE resp'.left = <<>> /\ q + 1 = Len(whole)
           /\ rest(ended(resp')) = <<>>
           /\ lines(ended(resp')) = Append(lines(resp.out), Streaming!stuff(whole[q + 1]))
           /\ rest(resp.out) = <<>> /\ ended(resp) = resp.out
           /\ Streaming!stuff(whole[q + 1]) \in Seq(Octets)
<1> DEFINE u == resp.left
           o == resp.out
           x == whole[q + 1]
           c == Streaming!chunk
           ls == lines(stored)
           L == Seq(Octets)
<1>0. u # <<>> /\ u \in L /\ o \in L
  BY DEF Streaming!StreamLine, Streamed
<1>1. /\ resp.lastEndedWithLF = TRUE /\ q + Len(lines(u)) = Len(ls) /\ rest(u) = rest(stored)
      /\ \A k \in 1 .. Len(lines(u)) : lines(u)[k] = ls[q + k]
  BY <1>0 DEF Streamed
<1>2. ended(resp) = o
  <2>1. o \o <<>> = o
    BY <1>0
  <2> QED
    BY <1>1, <2>1, Zenon DEF ended
<1>3. rest(o) = <<>> /\ lines(o) \in Seq(L) /\ lines(u) \in Seq(L)
  <2>1. rest(ended(resp)) = <<>>
    BY DEF Streamed
  <2> QED
    BY <1>0, <1>2, <2>1, LinesAppend
<1>4. /\ resp'.left = SubSeq(u, Len(c) + 1, Len(u)) /\ resp'.out = o \o Streaming!stuff(c)
      /\ resp'.lastEndedWithLF = (Streaming!Last(c) = Streaming!LF)
  BY DEF Streaming!StreamLine, RespInv
<1>5. resp'.lastEndedWithLF = (Last(c) = LF)
  BY <1>4, OctetFacts
<1>6. c = IF lines(u) # <<>> THEN lines(u)[1] ELSE u
  BY DEF Streaming!chunk, Streaming!linesOf, lines
<1>7. CASE lines(u) # <<>>
  <2> DEFINE b == SubSeq(u, Len(c) + 1, Len(u))
  <2>1. /\ IsLine(c) /\ c \in L /\ b \in L /\ rest(b) = rest(u) /\ c = lines(u)[1]
        /\ Len(lines(u)) = Len(lines(b)) + 1 /\ Len(lines(b)) \in Nat
        /\ \A k \in 1 .. Len(lines(b)) : lines(b)[k] = lines(u)[k + 1]
    BY <1>0, <1>6, <1>7, FirstTaken
  <2>2. resp'.left = b /\ resp'.lastEndedWithLF = TRUE
    BY <1>4, <1>5, <2>1, LineFacts
  <2> HIDE DEF b, c, u
  <2>3. 1 \in 1 .. Len(lines(u)) /\ q + 1 \in 1 .. Len(ls) /\ Len(ls) \in Nat
    BY <1>1, <2>1
  <2>4. q + 1 <= Len(whole) /\ x = ls[q + 1]
    BY <2>3, WholeFacts
  <2>5. c = x
    BY <1>1, <2>1, <2>3, <2>4
  <2>6. q + 1 + Len(lines(b)) = Len(ls)
    BY <1>1, <2>1
  <2>7. \A k \in 1 .. Len(lines(b)) : lines(b)[k] = ls[q + 1 + k]
    <3> SUFFICES ASSUME NEW k \in 1 .. Len(lines(b)) PROVE lines(b)[k] = ls[q + 1 + k]
      OBVIOUS
    <3>1. k + 1 \in 1 .. Len(lines(u)) /\ q + (k + 1) = q + 1 + k
      BY <2>1
    <3> QED
      BY <1>1, <2>1, <3>1
  <2>8. IsLine(Streaming!stuff(c)) /\ Streaming!stuff(c) \in L
    BY <2>1, StuffedLine, LineFacts
  <2>9. lines(o \o Streaming!stuff(c)) = Append(lines(o), Streaming!stuff(c))
        /\ rest(o \o Streaming!stuff(c)) = <<>> /\ o \o Streaming!stuff(c) \in L
    BY <1>0, <1>3, <2>8, LineFacts
  <2>10. ended(resp') = o \o Streaming!stuff(c)
    BY <1>4, <2>2, <2>9 DEF ended
  <2> QED
    BY <1>1, <1>2, <1>3, <1>4, <2>1, <2>2, <2>4, <2>5, <2>6, <2>7, <2>8, <2>9, <2>10, Zenon DEF u, c
<1>8. CASE lines(u) = <<>>
  <2>1. u \in Text /\ rest(u) = u
    <3>1. ASSUME NEW h \in L, NEW t \in L, lines(u) = <<h>> \o lines(t) PROVE FALSE
      <4>1. lines(t) \in Seq(L)
        BY LinesAppend
      <4>2. <<h>> \o lines(t) # <<>>
        BY <4>1
      <4> QED
        BY <1>8, <3>1, <4>2
    <3> QED
      BY <1>0, <3>1, FirstLine
  <2>2. c = u
    BY <1>6, <1>8
  <2>3. rest(stored) = u /\ q = Len(ls)
    BY <1>1, <1>8, <2>1
  <2>4. Len(whole) = q + 1 /\ x = u \o CRLF
    BY <1>0, <2>3, WholeFacts
  <2>5. Last(u) # LF
    BY <1>0, <2>1, LinesAreLines
  <2>6. resp'.lastEndedWithLF = FALSE
    BY <1>5, <2>2, <2>5
  <2>7. resp'.left = <<>>
    BY <1>0, <1>4, <2>2
  <2>8. ~ Streaming!startsWithDot(CRLF) /\ CRLF \in L
    <3>1. CRLF[1] = CR
      BY DEF CRLF
    <3> QED
      BY <3>1, OctetFacts DEF Streaming!startsWithDot
  <2>9. Streaming!stuff(x) = Streaming!stuff(u) \o CRLF /\ Streaming!stuff(u) \in L
    BY <1>0, <2>4, <2>8, StuffFacts
  <2>10. IsLine(x)
    BY <2>1, <2>4, EndedText
  <2>11. IsLine(Streaming!stuff(x)) /\ Streaming!stuff(x) \in L
    BY <2>10, StuffedLine, LineFacts
  <2>12. lines(o \o Streaming!stuff(x)) = Append(lines(o), Streaming!stuff(x))
         /\ rest(o \o Streaming!stuff(x)) = <<>>
    BY <1>0, <1>3, <2>11, LineFacts
  <2>13. ended(resp') = o \o Streaming!stuff(x)
    <3>1. ended(resp') = (o \o Streaming!stuff(u)) \o CRLF
      BY <1>4, <2>2, <2>6 DEF ended
    <3>2. (o \o Streaming!stuff(u)) \o CRLF = o \o (Streaming!stuff(u) \o CRLF)
      <4> DEFINE z == Streaming!stuff(u)
      <4>1. z \in L
        BY <2>9
      <4> HIDE DEF z, o, L
      <4>2. (o \o z) \o CRLF = o \o (z \o CRLF)
        BY <1>0, <2>8, <4>1, ConcatAssociative
      <4> QED
        BY <4>2 DEF z
    <3> QED
      BY <2>9, <3>1, <3>2
  <2>14. c # CRLF /\ x # CRLF
    <3>1. Last(CRLF) = LF
      BY DEF CRLF, Last
    <3>2. Len(x) = Len(u) + 2 /\ Len(CRLF) = 2 /\ Len(u) > 0
      BY <1>0, <2>4 DEF CRLF
    <3>3. x # CRLF
      <4> HIDE DEF x, u
      <4>1. Len(u) \in Nat
        BY <1>0
      <4>2. Len(x) # Len(CRLF)
        BY <3>2, <4>1
      <4> QED
        BY <4>2, Zenon
    <3> QED
      BY <2>2, <2>5, <3>1, <3>3
  <2>15. o \o Streaming!stuff(u) \in L /\ <<>> \in L
    BY <1>0, <2>9
  <2>16. q + 1 <= Len(whole) /\ resp'.lastEndedWithLF # TRUE
    <3>1. q + 1 <= Len(whole)
      BY <2>4
    <3>2. resp'.lastEndedWithLF # TRUE
      BY <2>6, Zenon
    <3> QED
      BY <3>1, <3>2
  <2> QED
    BY <1>2, <1>3, <1>4, <2>2, <2>4, <2>6, <2>7, <2>11, <2>12, <2>13, <2>14, <2>15, <2>16, Zenon
<1> QED
  BY <1>7, <1>8

\* A line is sent.
LEMMA LineStreamed ==
    ASSUME DataInv, RespInv, Streaming!StreamLine
    PROVE  RespInv'
<1> DEFINE c == Streaming!chunk
           W == whole
           out == lines(resp.out)
           e == lines(ended(resp'))
           body == resp.bodyLines
           L == Seq(Octets)
<1>1. resp.st = "streaming" /\ stored' = stored /\ stored # None /\ ~ Streaming!limitReached
  BY DEF Streaming!StreamLine, RespInv
<1>2. PICK q \in Nat : Streamed(q)
  BY <1>1 DEF RespInv
<1>3. stored \in L /\ W' = W
  BY <1>1 DEF DataInv, whole
<1> DEFINE x == W[q + 1]
           y == Streaming!stuff(x)
<1>4. /\ q + 1 <= Len(W)
      /\ c = CRLF <=> x = CRLF
      /\ resp'.left \in L /\ resp'.out \in L
      /\ resp'.lastEndedWithLF \in BOOLEAN
      /\ IF resp'.lastEndedWithLF = TRUE
         THEN /\ q + 1 + Len(lines(resp'.left)) = Len(lines(stored))
              /\ rest(resp'.left) = rest(stored)
              /\ \A k \in 1 .. Len(lines(resp'.left)) :
                    lines(resp'.left)[k] = lines(stored)[q + 1 + k]
         ELSE resp'.left = <<>> /\ q + 1 = Len(W)
      /\ rest(ended(resp')) = <<>> /\ e = Append(out, y)
      /\ rest(resp.out) = <<>> /\ ended(resp) = resp.out /\ y \in L
  BY <1>1, <1>2, <1>3, NextChunk, Zenon
<1>5. Len(W) \in Nat
  BY <1>3, WholeFacts
<1>6. /\ resp.inBody \in BOOLEAN /\ resp.out \in L /\ resp.limit \in Limits \cup {None}
      /\ Len(out) = q /\ \A k \in 1 .. q : out[k] = Streaming!stuff(W[k])
  BY <1>2, <1>4 DEF Streamed, RespInv
<1>7. /\ resp'.st = "streaming" /\ resp'.limit = resp.limit
      /\ resp' = [st |-> resp'.st, limit |-> resp'.limit, left |-> resp'.left, out |-> resp'.out,
                  inBody |-> resp'.inBody, bodyLines |-> resp'.bodyLines,
                  lastEndedWithLF |-> resp'.lastEndedWithLF]
      /\ resp'.inBody = (resp.inBody \/ c = <<Streaming!CR, Streaming!LF>>)
      /\ resp'.bodyLines = IF resp.inBody THEN body + 1 ELSE body
  BY <1>1 DEF Streaming!StreamLine, RespInv
<1>8. resp'.inBody = (resp.inBody \/ x = CRLF) /\ resp'.inBody \in BOOLEAN
  <2>1. <<Streaming!CR, Streaming!LF>> = CRLF
    BY OctetFacts DEF CRLF
  <2>2. resp'.inBody = (resp.inBody \/ c = CRLF)
    BY <1>7, <2>1
  <2>3. resp'.inBody <=> (resp.inBody \/ c = CRLF)
    BY <2>2
  <2> QED
    BY <1>4, <1>6, <2>2, Zenon
<1> HIDE DEF c, W, x, y
<1>9. /\ Len(e) = q + 1
      /\ \A k \in 1 .. q + 1 : e[k] = Streaming!stuff(W[k])
  <2>1. out \in Seq(L) /\ Len(out) = q /\ e = Append(out, y) /\ y \in L
    BY <1>4, <1>6, LinesAppend
  <2> HIDE DEF out, e, L
  <2>2. Len(e) = q + 1 /\ e[q + 1] = y /\ \A k \in 1 .. q : e[k] = out[k]
    BY <2>1
  <2>3. ASSUME NEW k \in 1 .. q + 1 PROVE e[k] = Streaming!stuff(W[k])
    <3>1. CASE k = q + 1
      BY <2>2, <3>1 DEF y, x
    <3>2. CASE k # q + 1
      <4>1. k \in 1 .. q
        BY <3>2
      <4> QED
        BY <1>6, <2>2, <4>1 DEF out
    <3> QED
      BY <3>1, <3>2
  <2> QED
    BY <2>2, <2>3
<1> DEFINE Counted == IF resp'.inBody = TRUE
                      THEN /\ \E k \in 1 .. q + 1 : IsHeader(k) /\ resp'.bodyLines = q + 1 - k
                           /\ resp'.limit # None => resp'.bodyLines <= resp'.limit
                      ELSE resp'.bodyLines = 0 /\ \A k \in 1 .. q + 1 : W[k] # CRLF
<1>10. Counted
  <2>1. CASE resp.inBody = TRUE
    <3>1. PICK k \in 1 .. q : IsHeader(k) /\ body = q - k
      BY <1>2, <2>1 DEF Streamed
    <3>2. resp'.inBody = TRUE /\ resp'.bodyLines = body + 1
      BY <1>7, <1>8, <2>1
    <3>3. k \in 1 .. q + 1 /\ body + 1 = q + 1 - k /\ body \in Nat
      BY <3>1
    <3>4. ASSUME resp.limit # None PROVE body + 1 <= resp.limit
      <4>1. resp.limit \in Nat
        BY <1>6, <3>4, TopAssumption
      <4>2. ~ (body >= resp.limit)
        BY <1>1, <2>1, <3>4 DEF Streaming!limitReached
      <4> QED
        BY <3>3, <4>1, <4>2
    <3> QED
      BY <1>7, <3>1, <3>2, <3>3, <3>4
  <2>2. CASE resp.inBody = FALSE
    <3>1. body = 0 /\ \A k \in 1 .. q : W[k] # CRLF
      BY <1>2, <2>2 DEF Streamed, W
    <3>2. resp'.bodyLines = 0
      BY <1>7, <2>2, <3>1
    <3>3. CASE x = CRLF
      <4>1. resp'.inBody = TRUE
        BY <1>8, <3>3
      <4>2. IsHeader(q + 1) /\ q + 1 \in 1 .. q + 1 /\ (q + 1) - (q + 1) = 0
        <5>1. \A j \in 1 .. (q + 1) - 1 : whole[j] # CRLF
          BY <3>1 DEF W
        <5> QED
          BY <3>3, <5>1 DEF IsHeader, x, W
      <4>3. ASSUME resp.limit # None PROVE 0 <= resp.limit
        <5>1. resp.limit \in Nat
          BY <1>6, <4>3, TopAssumption
        <5> QED
          BY <5>1
      <4> QED
        BY <1>7, <3>2, <4>1, <4>2, <4>3
    <3>4. CASE x # CRLF
      <4>1. resp'.inBody = FALSE
        BY <1>8, <2>2, <3>4
      <4>2. ASSUME NEW k \in 1 .. q + 1 PROVE W[k] # CRLF
        <5>1. k = q + 1 \/ k \in 1 .. q
          OBVIOUS
        <5> QED
          BY <3>1, <3>4, <5>1 DEF x
      <4> QED
        BY <3>2, <4>1, <4>2
    <3> QED
      BY <3>3, <3>4
  <2> QED
    BY <1>6, <2>1, <2>2
<1>11. \A k : IsHeader(k)' <=> IsHeader(k)
  BY <1>3 DEF IsHeader, W
<1>12. Streamed(q + 1)'
  <2>1. q + 1 \in 0 .. Len(W)
    BY <1>4, <1>5
  <2>2. whole' = W /\ stored' = stored
    BY <1>1, <1>3 DEF W
  <2>3. resp'.limit \in Limits \cup {None}
    BY <1>6, <1>7
  <2>4. IF resp'.inBody = TRUE
        THEN /\ \E k \in 1 .. q + 1 : IsHeader(k)' /\ resp'.bodyLines = q + 1 - k
             /\ resp'.limit # None => resp'.bodyLines <= resp'.limit
        ELSE resp'.bodyLines = 0 /\ \A k \in 1 .. q + 1 : whole'[k] # CRLF
    BY <1>10, <1>11, <2>2
  <2>5. \A k \in 1 .. q + 1 : e[k] = Streaming!stuff(whole'[k])
    BY <1>9, <2>2
  <2>6. q + 1 \in 0 .. Len(whole')
    BY <2>1, <2>2
  <2>7. IF resp'.lastEndedWithLF = TRUE
        THEN /\ q + 1 + Len(lines(resp'.left)) = Len(lines(stored'))
             /\ rest(resp'.left) = rest(stored')
             /\ \A k \in 1 .. Len(lines(resp'.left)) :
                   lines(resp'.left)[k] = lines(stored')[q + 1 + k]
        ELSE resp'.left = <<>> /\ q + 1 = Len(whole')
    BY <1>4, <2>2
  <2>8. /\ resp'.left \in L /\ resp'.out \in L /\ rest(ended(resp')) = <<>>
        /\ Len(lines(ended(resp'))) = q + 1
    BY <1>4, <1>9
  <2> QED
    BY <2>3, <2>4, <2>5, <2>6, <2>7, <2>8 DEF Streamed
<1>13. \E p \in Nat : Streamed(p)'
  BY <1>12
<1> QED
  BY <1>1, <1>4, <1>7, <1>8, <1>13 DEF RespInv

\* What a client makes of q lines with doubled dots and the mark.
LEMMA Received ==
    ASSUME NEW o \in Seq(Octets), NEW W \in Seq(Seq(Octets)), NEW q \in 0 .. Len(W),
           Len(lines(o)) = q + 1, lines(o)[q + 1] = Streaming!EndMark,
           \A k \in 1 .. q : lines(o)[k] = Streaming!stuff(W[k])
    PROVE  Streaming!received(o) = SubSeq(W, 1, q)
<1> DEFINE ls == lines(o)
           mark == Streaming!EndMark
           IsEnd(k) == ls[k] = mark /\ \A j \in 1 .. k - 1 : ls[j] # mark
           end == CHOOSE k \in DOMAIN ls : IsEnd(k)
<1>1. ls \in Seq(Seq(Octets)) /\ DOMAIN ls = 1 .. q + 1 /\ q \in Nat /\ Len(W) \in Nat
  BY LinesAppend
<1>2. ASSUME NEW k \in 1 .. q
      PROVE  /\ ls[k] # mark
             /\ W[k] = IF Streaming!startsWithDot(ls[k]) THEN Tail(ls[k]) ELSE ls[k]
  <2>1. W[k] \in Seq(Octets) /\ ls[k] = Streaming!stuff(W[k])
    BY <1>2
  <2> HIDE DEF ls
  <2> QED
    BY <2>1, StuffFacts
<1>3. Streaming!received(o) = [k \in 1 .. (end - 1) |->
          IF Streaming!startsWithDot(ls[k]) THEN Tail(ls[k]) ELSE ls[k]]
  BY Zenon DEF Streaming!received, Streaming!linesOf, lines
<1>4. end = q + 1
  <2>1. ls[q + 1] = mark
    OBVIOUS
  <2> HIDE DEF ls, mark
  <2>2. q + 1 \in DOMAIN ls /\ IsEnd(q + 1)
    BY <1>1, <1>2, <2>1
  <2>3. ASSUME NEW k \in DOMAIN ls, IsEnd(k) PROVE k = q + 1
    <3>1. k \notin 1 .. q
      BY <1>2, <2>3
    <3> QED
      BY <1>1, <3>1
  <2> HIDE DEF IsEnd
  <2>4. end \in DOMAIN ls /\ IsEnd(end)
    BY <2>2, Zenon
  <2> QED
    BY <2>3, <2>4
<1> HIDE DEF ls, end
<1>5. 1 .. (end - 1) = 1 .. q
  BY <1>4
<1>6. [k \in 1 .. q |-> IF Streaming!startsWithDot(ls[k]) THEN Tail(ls[k]) ELSE ls[k]]
      = [k \in 1 .. q |-> W[k]]
  BY <1>2
<1>7. SubSeq(W, 1, q) = [k \in 1 .. q |-> W[k]]
  BY <1>1
<1> QED
  BY <1>3, <1>5, <1>6, <1>7

\* What TOP is about.
LEMMA TopIs ==
    ASSUME NEW W \in Seq(Seq(Octets)), NEW k \in 1 .. Len(W), W[k] = CRLF,
           \A j \in 1 .. k - 1 : W[j] # CRLF, NEW n \in Nat
    PROVE  Streaming!top(W, n) = SubSeq(W, 1, IF k + n >= Len(W) THEN Len(W) ELSE k + n)
<1> DEFINE empty == {i \in DOMAIN W : W[i] = CRLF}
           first == CHOOSE i \in empty : \A j \in empty : i <= j
<1>1. DOMAIN W = 1 .. Len(W) /\ Len(W) \in Nat
  OBVIOUS
<1>2. k \in empty /\ \A j \in empty : k <= j
  <2> SUFFICES ASSUME NEW j \in empty PROVE k <= j
    BY <1>1
  <2>1. j \in 1 .. Len(W) /\ W[j] = CRLF
    BY <1>1
  <2>2. j \notin 1 .. k - 1
    BY <2>1
  <2> QED
    BY <2>1, <2>2
<1>3. \A i \in empty : i \in Nat
  BY <1>1
<1> HIDE DEF empty
<1>4. first = k
  <2>1. first \in empty /\ \A j \in empty : first <= j
    BY <1>2, Zenon
  <2> HIDE DEF first
  <2> QED
    BY <1>2, <1>3, <2>1
<1> HIDE DEF first
<1>5. Streaming!top(W, n) = IF n = None \/ empty = {} \/ first + n >= Len(W) THEN W ELSE SubSeq(W, 1, first + n)
  <2> DEFINE raw == {i \in DOMAIN W : W[i] = <<Streaming!CR, Streaming!LF>>}
  <2>1. <<Streaming!CR, Streaming!LF>> = CRLF
    BY OctetFacts DEF CRLF
  <2>2. raw = empty
    BY <2>1 DEF empty
  <2>3. Streaming!top(W, n) =
           IF n = None \/ raw = {} \/ (CHOOSE i \in raw : \A j \in raw : i <= j) + n >= Len(W)
           THEN W ELSE SubSeq(W, 1, (CHOOSE i \in raw : \A j \in raw : i <= j) + n)
    BY Zenon DEF Streaming!top
  <2> HIDE DEF raw
  <2> QED
    BY <2>2, <2>3, Zenon DEF first
<1>6. n # None /\ empty # {}
  BY <1>2, TopAssumption
<1>7. CASE k + n >= Len(W)
  <2>1. Streaming!top(W, n) = W
    BY <1>4, <1>5, <1>7
  <2>2. W = SubSeq(W, 1, Len(W))
    BY <1>1
  <2> QED
    BY <1>7, <2>1, <2>2
<1>8. CASE ~ (k + n >= Len(W))
  <2>1. Streaming!top(W, n) = SubSeq(W, 1, k + n)
    BY <1>4, <1>5, <1>6, <1>8
  <2> QED
    BY <1>8, <2>1
<1> QED
  BY <1>7, <1>8

\* The response ends, with what was asked for.
LEMMA EndStreamed ==
    ASSUME DataInv, RespInv, Streaming!StreamEnd
    PROVE  RespInv'
<1> DEFINE W == whole
           o == resp'.out
           L == Seq(Octets)
           mark == Streaming!EndMark
           n == resp.limit
<1>1. /\ resp.st = "streaming" /\ stored' = stored /\ stored # None
      /\ resp.left = <<>> \/ Streaming!limitReached
  BY DEF Streaming!StreamEnd, RespInv
<1>2. PICK q \in Nat : Streamed(q)
  BY <1>1 DEF RespInv
<1>3. stored \in L /\ W' = W
  BY <1>1 DEF DataInv, whole
<1>4. /\ W \in Seq(L) /\ Len(W) \in Nat /\ \A k \in 1 .. Len(W) : W[k] \in L
  BY <1>3, WholeFacts
<1>5. /\ q \in 0 .. Len(W) /\ resp.out \in L /\ n \in Limits \cup {None}
      /\ rest(ended(resp)) = <<>> /\ Len(lines(ended(resp))) = q
      /\ \A k \in 1 .. q : lines(ended(resp))[k] = Streaming!stuff(W[k])
  BY <1>2 DEF Streamed
<1>6. /\ resp' = [resp EXCEPT !.st = "done",
            !.out = @ \o (IF resp.lastEndedWithLF THEN <<>> ELSE <<Streaming!CR, Streaming!LF>>)
                    \o mark]
  BY DEF Streaming!StreamEnd
<1>7. /\ resp'.st = "done" /\ resp'.limit = n
      /\ resp' = [st |-> resp'.st, limit |-> resp'.limit, left |-> resp'.left, out |-> resp'.out,
                  inBody |-> resp'.inBody, bodyLines |-> resp'.bodyLines,
                  lastEndedWithLF |-> resp'.lastEndedWithLF]
      /\ resp'.inBody = resp.inBody /\ resp'.lastEndedWithLF = resp.lastEndedWithLF
      /\ resp'.inBody \in BOOLEAN /\ resp'.lastEndedWithLF \in BOOLEAN
  BY <1>6 DEF RespInv
<1>8. o = ended(resp) \o mark /\ ended(resp) \in L
  <2> DEFINE e == IF resp.lastEndedWithLF = TRUE THEN <<>> ELSE CRLF
  <2>1. <<Streaming!CR, Streaming!LF>> = CRLF /\ e \in L
    BY OctetFacts DEF CRLF
  <2>2. o = (resp.out \o (IF resp.lastEndedWithLF THEN <<>> ELSE CRLF)) \o mark
    BY <1>6, <2>1 DEF RespInv
  <2>3. resp.lastEndedWithLF <=> resp.lastEndedWithLF = TRUE
    BY DEF RespInv
  <2>4. ended(resp) = resp.out \o e
    BY DEF ended
  <2>5. o = (resp.out \o e) \o mark
    BY <2>2, <2>3, Zenon
  <2> HIDE DEF e
  <2> QED
    BY <1>5, <2>1, <2>4, <2>5
<1>9. /\ o \in L /\ lines(o) = Append(lines(ended(resp)), mark)
      /\ lines(ended(resp)) \in Seq(L) /\ mark \in L
  BY <1>5, <1>8, EndMarkIsLine, LineFacts, LinesAppend
<1>10. /\ Len(lines(o)) = q + 1 /\ lines(o)[q + 1] = mark
       /\ \A k \in 1 .. q : lines(o)[k] = Streaming!stuff(W[k])
  <2> DEFINE ls == lines(ended(resp))
  <2>1. ls \in Seq(L) /\ Len(ls) = q /\ mark \in L
    BY <1>5, <1>9
  <2> HIDE DEF ls, mark, L
  <2>2. Len(Append(ls, mark)) = q + 1 /\ Append(ls, mark)[q + 1] = mark
        /\ \A k \in 1 .. q : Append(ls, mark)[k] = ls[k]
    BY <2>1
  <2> QED
    BY <1>5, <1>9, <2>2 DEF ls
<1> HIDE DEF W, o
<1>11. Streaming!received(o) = SubSeq(W, 1, q)
  <2>1. q \in 0 .. Len(W) /\ W \in Seq(Seq(Octets)) /\ o \in Seq(Octets)
    BY <1>4, <1>5, <1>9
  <2> QED
    BY <1>10, <2>1, Received
<1>12. Streaming!limitReached \/ q = Len(W)
  <2> SUFFICES ASSUME resp.left = <<>> PROVE q = Len(W)
    BY <1>1
  <2>1. CASE resp.lastEndedWithLF = TRUE
    <3>1. lines(<<>>) = <<>> /\ rest(<<>>) = <<>> /\ Len(lines(<<>>)) = 0
      BY LinesAppend
    <3>2. q + Len(lines(resp.left)) = Len(lines(stored)) /\ rest(resp.left) = rest(stored)
      BY <1>2, <2>1 DEF Streamed
    <3>3. rest(stored) = <<>> /\ q = Len(lines(stored))
      BY <3>1, <3>2
    <3> QED
      BY <1>3, <3>3, WholeFacts DEF W
  <2>2. CASE resp.lastEndedWithLF # TRUE
    BY <1>2, <2>2 DEF Streamed, W
  <2> QED
    BY <2>1, <2>2
<1>13. Streaming!top(W, n) = SubSeq(W, 1, q)
  <2>1. CASE resp.inBody = TRUE /\ n # None
    <3>1. PICK k \in 1 .. q : IsHeader(k) /\ resp.bodyLines = q - k
      BY <1>2, <2>1 DEF Streamed
    <3>2. n \in Nat /\ resp.bodyLines <= n
      BY <1>2, <1>5, <2>1, TopAssumption DEF Streamed
    <3>3. k \in 1 .. Len(W)
      BY <1>4, <1>5
    <3>4. Streaming!top(W, n) = SubSeq(W, 1, IF k + n >= Len(W) THEN Len(W) ELSE k + n)
      BY <1>4, <3>1, <3>2, <3>3, TopIs DEF IsHeader, W
    <3>5. (IF k + n >= Len(W) THEN Len(W) ELSE k + n) = q
      <4>1. CASE Streaming!limitReached
        <5>1. resp.bodyLines >= n
          BY <4>1 DEF Streaming!limitReached
        <5>2. k + n = q
          BY <3>1, <3>2, <5>1
        <5> QED
          BY <1>4, <1>5, <5>2
      <4>2. CASE q = Len(W)
        <5>1. k + n >= Len(W)
          BY <3>1, <3>2, <4>2
        <5> QED
          BY <4>2, <5>1
      <4> QED
        BY <1>12, <4>1, <4>2
    <3> QED
      BY <3>4, <3>5
  <2>2. CASE ~ (resp.inBody = TRUE /\ n # None)
    <3>1. q = Len(W)
      <4>1. ~ Streaming!limitReached
        BY <2>2 DEF Streaming!limitReached, RespInv
      <4> QED
        BY <1>12, <4>1
    <3>2. W = SubSeq(W, 1, Len(W))
      BY <1>4
    <3>3. Streaming!top(W, n) = W
      <4>1. CASE n = None
        BY <4>1 DEF Streaming!top
      <4>2. CASE resp.inBody # TRUE
        <5>1. \A k \in 1 .. q : W[k] # CRLF
          BY <1>2, <4>2 DEF Streamed, W
        <5>2. {i \in DOMAIN W : W[i] = <<Streaming!CR, Streaming!LF>>} = {}
          <6>1. <<Streaming!CR, Streaming!LF>> = CRLF
            BY OctetFacts DEF CRLF
          <6>2. DOMAIN W = 1 .. q
            BY <1>4, <3>1
          <6> QED
            BY <5>1, <6>1, <6>2
        <5> QED
          BY <5>2 DEF Streaming!top
      <4> QED
        BY <2>2, <4>1, <4>2
    <3> QED
      BY <3>1, <3>2, <3>3
  <2> QED
    BY <2>1, <2>2
<1>14. whole' = W
  BY <1>3 DEF W
<1>15. Streaming!received(resp'.out) = Streaming!top(whole', resp'.limit)
  BY <1>7, <1>11, <1>13, <1>14 DEF o
<1> QED
  BY <1>1, <1>7, <1>15 DEF RespInv

\* A response is what it should be so far.
LEMMA RespHolds ==
    ASSUME DataInv, RespInv, [Streaming!Next]_Streaming!vars
    PROVE  RespInv'
<1>1. ASSUME stored' = stored, resp' = resp PROVE RespInv'
  <2>1. whole' = whole
    BY <1>1 DEF whole
  <2>2. ASSUME NEW q \in Nat, Streamed(q) PROVE Streamed(q)'
    BY <1>1, <2>1, <2>2 DEF Streamed, ended, IsHeader
  <2>3. resp.st = "streaming" => \E q \in Nat : Streamed(q)'
    BY <2>2 DEF RespInv
  <2> QED
    BY <1>1, <2>1, <2>3 DEF RespInv
<1>2. ASSUME NEW content \in Contents, NEW end \in {<<Streaming!CR, Streaming!LF>>, <<Streaming!LF>>},
             Streaming!SendLine(content, end)
      PROVE  RespInv'
  BY <1>1, <1>2 DEF Streaming!SendLine
<1>3. ASSUME NEW end \in {<<Streaming!CR, Streaming!LF>>, <<Streaming!LF>>}, Streaming!SendEnd(end)
      PROVE  RespInv'
  BY <1>1, <1>3 DEF Streaming!SendEnd
<1>4. CASE Streaming!Cut
  BY <1>1, <1>4 DEF Streaming!Cut
<1>5. CASE Streaming!ReadLine
  BY <1>1, <1>5 DEF Streaming!ReadLine
<1>6. CASE Streaming!ReadEnd
  <2>1. resp' = resp /\ resp.st = "none"
    BY <1>6 DEF Streaming!ReadEnd, DataInv
  <2> QED
    BY <2>1 DEF RespInv
<1>7. CASE Streaming!ReadFails
  BY <1>1, <1>7 DEF Streaming!ReadFails
<1>8. ASSUME NEW limit \in Limits \cup {None}, Streaming!Request(limit) PROVE RespInv'
  BY <1>8, Requested
<1>9. CASE Streaming!StreamLine
  BY <1>9, LineStreamed
<1>10. CASE Streaming!StreamEnd
  BY <1>10, EndStreamed
<1>11. CASE Streaming!StreamFails
  <2>1. stored' = stored /\ resp' = [resp EXCEPT !.st = "failed"]
    BY <1>11 DEF Streaming!StreamFails
  <2> QED
    BY <2>1 DEF RespInv
<1>12. CASE UNCHANGED Streaming!vars
  BY <1>1, <1>12 DEF Streaming!vars
<1> QED
  BY <1>2, <1>3, <1>4, <1>5, <1>6, <1>7, <1>8, <1>9, <1>10, <1>11, <1>12, Zenon DEF Streaming!Next

\* For every content of the lines and every message of the old archive: what a
\* client sends is stored, and what is stored is what a client gets.
THEOREM MailHolds == Streaming!Spec => []MailIsUnchanged
<1>1. Streaming!Init => RespInv
  <2> SUFFICES ASSUME Streaming!Init PROVE RespInv
    OBVIOUS
  <2>1. resp = Streaming!noResponse
    BY DEF Streaming!Init
  <2>2. /\ resp = [st |-> resp.st, limit |-> resp.limit, left |-> resp.left, out |-> resp.out,
                   inBody |-> resp.inBody, bodyLines |-> resp.bodyLines,
                   lastEndedWithLF |-> resp.lastEndedWithLF]
        /\ resp.inBody \in BOOLEAN /\ resp.lastEndedWithLF \in BOOLEAN /\ resp.st = "none"
    BY <2>1 DEF Streaming!noResponse
  <2> QED
    BY <2>2 DEF RespInv
<1>2. RespInv /\ DataInv /\ [Streaming!Next]_Streaming!vars => RespInv'
  BY RespHolds
<1>3. DataInv /\ RespInv => MailIsUnchanged
  <2>1. <<Streaming!CR, Streaming!LF>> = CRLF
    BY OctetFacts DEF CRLF
  <2>2. Streaming!linesOf(stored) = lines(stored)
    BY DEF Streaming!linesOf, lines
  <2> QED
    BY <2>1, <2>2 DEF MailIsUnchanged, Streaming!MailIsUnchanged, DataInv, RespInv, whole
<1> QED
  BY <1>1, <1>2, <1>3, DataHolds, PTL DEF Streaming!Spec
=============================================================================
