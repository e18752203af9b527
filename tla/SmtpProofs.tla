----------------------------- MODULE SmtpProofs -----------------------------
(***************************************************************************)
(* Theorems about Smtp, for any number of connections and whatever their   *)
(* clients send ahead: envelopes are those of one transaction on one       *)
(* channel, and neither a reservation nor a token is lost.                 *)
(***************************************************************************)
EXTENDS Smtp, SequenceTheorems, FiniteSetTheorems, TLAPS

(***************************************************************************)
(* The log of a connection.                                                *)
(***************************************************************************)
Commands == [verb : Verbs, tls : BOOLEAN]

\* No command from place i to place j of log l has one of these verbs.
Without(l, verbs, i, j) == \A k \in i .. j : l[k].verb \notin verbs

\* n is the place of the last one before place k, or 0.
IsLast(l, verbs, k, n) ==
    /\ n \in 0 .. k - 1
    /\ n # 0 => l[n].verb \in verbs
    /\ Without(l, verbs, n + 1, k - 1)

\* There is such a place.
HasLast(l, verbs, k) == \E n : IsLast(l, verbs, k, n)

\* There is one wherever a command may stand.
HasLasts(l) == \A k \in 1 .. Len(l) + 1 : \A verbs \in SUBSET Verbs : HasLast(l, verbs, k)

\* A longer log has the same commands where it had some.
LEMMA Appended ==
    ASSUME NEW l \in Seq(Commands), NEW x \in Commands
    PROVE  /\ Append(l, x) \in Seq(Commands) /\ Len(Append(l, x)) = Len(l) + 1
           /\ Len(l) \in Nat
           /\ \A i \in 1 .. Len(l) : Append(l, x)[i] = l[i]
           /\ Append(l, x)[Len(l) + 1] = x
OBVIOUS

\* The last command with a verb, in a longer log.
LEMMA LastsAppended ==
    ASSUME NEW l \in Seq(Commands), NEW x \in Commands, HasLasts(l)
    PROVE  HasLasts(Append(l, x))
<1> DEFINE e == Append(l, x)
           n == Len(l)
<1>1. /\ e \in Seq(Commands) /\ Len(e) = n + 1 /\ n \in Nat
      /\ \A i \in 1 .. n : e[i] = l[i]
      /\ e[n + 1] = x
  BY Appended
<1> HIDE DEF e
<1>2. ASSUME NEW k \in 1 .. n + 1, NEW verbs \in SUBSET Verbs PROVE HasLast(e, verbs, k)
  <2>1. PICK p : IsLast(l, verbs, k, p)
    BY <1>2 DEF HasLasts, HasLast, n
  <2>2. p \in 0 .. k - 1 /\ (p # 0 => l[p].verb \in verbs) /\ \A i \in p + 1 .. k - 1 : l[i].verb \notin verbs
    BY <2>1 DEF IsLast, Without
  <2>3. p # 0 => e[p] = l[p]
    BY <1>1, <2>2
  <2>4. \A i \in p + 1 .. k - 1 : e[i] = l[i]
    BY <1>1, <2>2
  <2>5. IsLast(e, verbs, k, p)
    BY <2>2, <2>3, <2>4 DEF IsLast, Without
  <2> QED
    BY <2>5 DEF HasLast
<1>3. ASSUME NEW verbs \in SUBSET Verbs PROVE HasLast(e, verbs, n + 2)
  <2>1. CASE x.verb \in verbs
    <3>1. n + 1 \in 0 .. (n + 2) - 1 /\ e[n + 1].verb \in verbs
      BY <1>1, <2>1
    <3>2. \A i \in (n + 1) + 1 .. (n + 2) - 1 : FALSE
      BY <1>1
    <3>3. IsLast(e, verbs, n + 2, n + 1)
      BY <3>1, <3>2 DEF IsLast, Without
    <3> QED
      BY <3>3 DEF HasLast
  <2>2. CASE x.verb \notin verbs
    <3>1. PICK p : IsLast(e, verbs, n + 1, p)
      <4>1. n + 1 \in 1 .. n + 1
        BY <1>1
      <4> QED
        BY <1>2, <4>1 DEF HasLast
    <3>2. p \in 0 .. (n + 1) - 1 /\ (p # 0 => e[p].verb \in verbs)
          /\ \A i \in p + 1 .. (n + 1) - 1 : e[i].verb \notin verbs
      BY <3>1 DEF IsLast, Without
    <3>3. \A i \in p + 1 .. (n + 2) - 1 : i \in p + 1 .. (n + 1) - 1 \/ i = n + 1
      BY <1>1, <3>2
    <3>4. \A i \in p + 1 .. (n + 2) - 1 : e[i].verb \notin verbs
      BY <1>1, <2>2, <3>2, <3>3
    <3>5. p \in 0 .. (n + 2) - 1
      BY <1>1, <3>2
    <3>6. IsLast(e, verbs, n + 2, p)
      BY <3>2, <3>4, <3>5 DEF IsLast, Without
    <3> QED
      BY <3>6 DEF HasLast
  <2> QED
    BY <2>1, <2>2
<1>4. \A k \in 1 .. Len(e) + 1 : k \in 1 .. n + 1 \/ k = n + 2
  BY <1>1
<1>5. HasLasts(e)
  BY <1>2, <1>3, <1>4 DEF HasLasts
<1> QED
  BY <1>5 DEF e

\* What the property calls the last command.
LEMMA LastIs ==
    ASSUME NEW c, NEW verbs, NEW k \in Nat \ {0}, NEW n, IsLast(log[c], verbs, k, n)
    PROVE  lastOf(c, verbs, k) = n
<1> DEFINE S == {i \in 1 .. k - 1 : log[c][i].verb \in verbs} \cup {0}
<1>1. n \in 0 .. k - 1 /\ (n # 0 => log[c][n].verb \in verbs)
      /\ \A i \in n + 1 .. k - 1 : log[c][i].verb \notin verbs
  BY DEF IsLast, Without
<1>2. n \in S /\ \A y \in S : n >= y /\ y \in Nat
  BY <1>1
<1> HIDE DEF S
<1>3. \A x \in S : (\A y \in S : x >= y) => x = n
  <2> SUFFICES ASSUME NEW x \in S, \A y \in S : x >= y PROVE x = n
    OBVIOUS
  <2>1. x >= n /\ n >= x /\ x \in Nat /\ n \in Nat
    BY <1>2
  <2> QED
    BY <2>1
<1>4. (CHOOSE x \in S : \A y \in S : x >= y) = n
  BY <1>2, <1>3
<1> QED
  BY <1>4 DEF lastOf, Max, S

-----------------------------------------------------------------------------
(* The invariant. *)

\* Inside DATA.
Delivering == {"stage", "receive", "policy", "publish"}

\* The values that sessions have.
SessionStates ==
    [st : {"closed", "open"} \cup Delivering, helo : Nat, encrypted : BOOLEAN,
     tx : [from : Nat, recipients : Seq(Nat)]]

\* Recipients are the places of all RCPT commands between from and k, in order.
IsRecipients(q, l, from, k) ==
    /\ \A i, j \in 1 .. Len(q) : i < j => q[i] < q[j]
    /\ \A i \in 1 .. Len(q) : q[i] \in from + 1 .. k - 1 /\ l[q[i]].verb = "RCPT"
    /\ \A p \in from + 1 .. k - 1 : l[p].verb = "RCPT" => \E i \in 1 .. Len(q) : q[i] = p

\* The client's greeting is the last one, on the present channel, before place k.
Greeting(helo, encrypted, l, k) ==
    /\ helo \in 1 .. k - 1 /\ l[helo].verb = "EHLO"
    /\ Without(l, {"EHLO", "STARTTLS"}, helo + 1, k - 1)
    /\ \A i \in helo .. Len(l) : l[i].tls = encrypted

\* What ends a transaction, or begins another one.
Ends == {"EHLO", "RSET", "STARTTLS", "MAIL", "DATA"}

\* What was collected of a transaction before place k.
Envelope(tx, helo, l, k) ==
    /\ tx.from \in helo + 1 .. k - 1 /\ l[tx.from].verb = "MAIL"
    /\ Without(l, Ends, tx.from + 1, k - 1)
    /\ IsRecipients(tx.recipients, l, tx.from, k)

\* The session s of a connection with log l and what inp waits to be read.
ConnInv(s, l, inp) ==
    /\ s \in SessionStates /\ l \in Seq(Commands) /\ inp \in Seq(Commands)
    /\ \A i \in 1 .. Len(inp) : inp[i].tls = s.encrypted
    /\ s.tx.from = 0 => s.tx.recipients = <<>>
    /\ s.tx.from # 0 => s.helo # 0
    /\ s.st \notin Delivering =>
          /\ s.helo # 0 => Greeting(s.helo, s.encrypted, l, Len(l) + 1)
          /\ s.tx.from # 0 => Envelope(s.tx, s.helo, l, Len(l) + 1)
    /\ s.st \in Delivering =>
          /\ s.tx.from # 0 /\ l[Len(l)].verb = "DATA"
          /\ Greeting(s.helo, s.encrypted, l, Len(l) + 1)
          /\ Envelope(s.tx, s.helo, l, Len(l))

\* A message in HEAD has the envelope that its connection's log has for it.
Delivered(m, l) ==
    /\ m.data \in 1 .. Len(l)
    /\ m.helo \in 1 .. m.data - 1 /\ l[m.helo].verb = "EHLO"
    /\ Without(l, {"EHLO", "STARTTLS"}, m.helo + 1, m.data - 1)
    /\ \A i \in m.helo .. m.data : l[i].tls = m.encrypted
    /\ m.from \in m.helo + 1 .. m.data - 1 /\ l[m.from].verb = "MAIL"
    /\ Without(l, Ends, m.from + 1, m.data - 1)
    /\ m.recipients \in Seq(Nat) /\ IsRecipients(m.recipients, l, m.from, m.data)

\* The inductive invariant of the envelopes.
EnvelopeInv ==
    /\ session = [c \in Conns |-> session[c]] /\ log = [c \in Conns |-> log[c]]
    /\ input = [c \in Conns |-> input[c]]
    /\ \A c \in Conns : ConnInv(session[c], log[c], input[c]) /\ HasLasts(log[c])
    /\ \A m \in stored : m.conn \in Conns /\ Delivered(m, log[m.conn])

\* A longer log still has the messages that were delivered.
LEMMA DeliveredKept ==
    ASSUME NEW m, NEW l \in Seq(Commands), NEW x \in Commands, Delivered(m, l)
    PROVE  Delivered(m, Append(l, x))
<1> DEFINE e == Append(l, x)
           n == Len(l)
           k == m.data
<1>1. /\ Len(e) = n + 1 /\ n \in Nat /\ \A i \in 1 .. n : e[i] = l[i]
  BY Appended
<1>2. /\ k \in 1 .. n /\ m.helo \in 1 .. k - 1 /\ l[m.helo].verb = "EHLO"
      /\ \A i \in m.helo + 1 .. k - 1 : l[i].verb \notin {"EHLO", "STARTTLS"}
      /\ \A i \in m.helo .. k : l[i].tls = m.encrypted
      /\ m.from \in m.helo + 1 .. k - 1 /\ l[m.from].verb = "MAIL"
      /\ \A i \in m.from + 1 .. k - 1 : l[i].verb \notin Ends
      /\ m.recipients \in Seq(Nat) /\ IsRecipients(m.recipients, l, m.from, k)
  BY DEF Delivered, Without
<1> HIDE DEF e, n, k
<1>3. \A i \in 1 .. k : e[i] = l[i]
  BY <1>1, <1>2
<1>4. /\ k \in Nat /\ m.helo \in Nat /\ m.from \in Nat /\ m.helo >= 1 /\ m.from > m.helo
  BY <1>1, <1>2
<1>5. /\ \A i \in m.helo + 1 .. k - 1 : e[i].verb \notin {"EHLO", "STARTTLS"}
      /\ \A i \in m.helo .. k : e[i].tls = m.encrypted
      /\ \A i \in m.from + 1 .. k - 1 : e[i].verb \notin Ends
      /\ e[m.helo].verb = "EHLO" /\ e[m.from].verb = "MAIL"
  <2>1. \A i \in m.helo .. k : i \in 1 .. k
    BY <1>4
  <2>2. \A i \in m.helo + 1 .. k - 1 : i \in 1 .. k
    BY <1>4
  <2>3. \A i \in m.from + 1 .. k - 1 : i \in 1 .. k
    BY <1>4
  <2>4. m.helo \in 1 .. k /\ m.from \in 1 .. k
    BY <1>2, <1>4
  <2> QED
    BY <1>2, <1>3, <2>1, <2>2, <2>3, <2>4
<1>6. IsRecipients(m.recipients, e, m.from, k)
  <2>1. \A i \in m.from + 1 .. k - 1 : e[i] = l[i]
    BY <1>3, <1>4
  <2> QED
    BY <1>2, <2>1 DEF IsRecipients
<1>7. k \in 1 .. Len(e)
  BY <1>1, <1>2
<1>8. Delivered(m, e)
  BY <1>2, <1>5, <1>6, <1>7 DEF Delivered, Without, k
<1> QED
  BY <1>8 DEF e

\* A transaction that is not touched by the next command.
LEMMA EnvelopeKept ==
    ASSUME NEW l \in Seq(Commands), NEW x \in Commands, NEW helo \in Nat, NEW tx,
           tx.from \in Nat, Envelope(tx, helo, l, Len(l) + 1)
    PROVE  /\ Envelope(tx, helo, Append(l, x), Len(l) + 1)
           /\ (x.verb \notin Ends /\ x.verb # "RCPT") =>
                 Envelope(tx, helo, Append(l, x), Len(l) + 2)
           /\ (x.verb = "RCPT" /\ tx.recipients \in Seq(Nat)) =>
                 Envelope([from |-> tx.from, recipients |-> Append(tx.recipients, Len(l) + 1)],
                          helo, Append(l, x), Len(l) + 2)
<1> DEFINE e == Append(l, x)
           n == Len(l)
           f == tx.from
           q == tx.recipients
<1>1. /\ Len(e) = n + 1 /\ n \in Nat /\ e[n + 1] = x /\ \A i \in 1 .. n : e[i] = l[i]
  BY Appended
<1>2. /\ f \in helo + 1 .. (n + 1) - 1 /\ l[f].verb = "MAIL"
      /\ \A i \in f + 1 .. (n + 1) - 1 : l[i].verb \notin Ends
      /\ \A i, j \in 1 .. Len(q) : i < j => q[i] < q[j]
      /\ \A i \in 1 .. Len(q) : q[i] \in f + 1 .. (n + 1) - 1 /\ l[q[i]].verb = "RCPT"
      /\ \A p \in f + 1 .. (n + 1) - 1 : l[p].verb = "RCPT" => \E i \in 1 .. Len(q) : q[i] = p
  BY DEF Envelope, Without, IsRecipients
<1> HIDE DEF e, n, f, q
<1>3. f \in Nat /\ f >= 1 /\ f <= n /\ f > helo
  BY <1>1, <1>2
<1>4. \A i \in f .. (n + 1) - 1 : e[i] = l[i]
  BY <1>1, <1>3
<1>5. e[f].verb = "MAIL" /\ \A i \in f + 1 .. (n + 1) - 1 : e[i].verb \notin Ends
  BY <1>2, <1>3, <1>4, <1>1
<1>6. /\ \A i \in 1 .. Len(q) : q[i] \in f + 1 .. (n + 1) - 1 /\ e[q[i]].verb = "RCPT"
      /\ \A p \in f + 1 .. (n + 1) - 1 : e[p].verb = "RCPT" => \E i \in 1 .. Len(q) : q[i] = p
  <2>1. \A i \in f + 1 .. (n + 1) - 1 : e[i] = l[i]
    BY <1>3, <1>4
  <2> QED
    BY <1>2, <2>1
<1>7. Envelope(tx, helo, e, n + 1)
  BY <1>2, <1>5, <1>6 DEF Envelope, Without, IsRecipients, f, q
<1>8. \A i \in f + 1 .. (n + 2) - 1 : i \in f + 1 .. (n + 1) - 1 \/ i = n + 1
  BY <1>1, <1>3
<1>9. /\ \A i \in f + 1 .. (n + 1) - 1 : i \in f + 1 .. (n + 2) - 1
      /\ f \in helo + 1 .. (n + 2) - 1 /\ n + 1 \in f + 1 .. (n + 2) - 1
  BY <1>1, <1>2, <1>3
<1>10. ASSUME x.verb \notin Ends PROVE \A i \in f + 1 .. (n + 2) - 1 : e[i].verb \notin Ends
  BY <1>1, <1>5, <1>8, <1>10
<1>11. ASSUME x.verb \notin Ends, x.verb # "RCPT" PROVE Envelope(tx, helo, e, n + 2)
  <2>1. /\ \A i \in 1 .. Len(q) : q[i] \in f + 1 .. (n + 2) - 1 /\ e[q[i]].verb = "RCPT"
        /\ \A p \in f + 1 .. (n + 2) - 1 : e[p].verb = "RCPT" => \E i \in 1 .. Len(q) : q[i] = p
    BY <1>1, <1>6, <1>8, <1>9, <1>11
  <2>2. \A i, j \in 1 .. Len(q) : i < j => q[i] < q[j]
    BY <1>2
  <2>3. IsRecipients(q, e, f, n + 2)
    BY <2>1, <2>2 DEF IsRecipients
  <2>4. Without(e, Ends, f + 1, (n + 2) - 1)
    BY <1>10, <1>11 DEF Without
  <2> QED
    BY <1>5, <1>9, <2>3, <2>4 DEF Envelope, f, q
<1>12. ASSUME x.verb = "RCPT", q \in Seq(Nat)
       PROVE  Envelope([from |-> f, recipients |-> Append(q, n + 1)], helo, e, n + 2)
  <2> DEFINE r == Append(q, n + 1)
             t == [from |-> f, recipients |-> r]
             m == Len(q)
  <2>1. /\ m \in Nat /\ Len(r) = m + 1 /\ r[m + 1] = n + 1 /\ \A i \in 1 .. m : r[i] = q[i]
    BY <1>1, <1>12
  <2>2. t.from = f /\ t.recipients = r
    OBVIOUS
  <2> HIDE DEF r, t
  <2>3. \A i \in 1 .. Len(r) : i \in 1 .. m \/ i = m + 1
    BY <2>1
  <2>4. \A i \in 1 .. m : q[i] \in Nat /\ q[i] < n + 1
    BY <1>1, <1>2, <1>3 DEF m
  <2>5. ASSUME NEW i \in 1 .. Len(r), NEW j \in 1 .. Len(r), i < j PROVE r[i] < r[j]
    <3>1. i \in 1 .. m
      BY <2>1, <2>5
    <3>2. CASE j \in 1 .. m
      BY <1>2, <2>1, <2>5, <3>1, <3>2 DEF m
    <3>3. CASE j = m + 1
      BY <2>1, <2>4, <3>1, <3>3
    <3> QED
      BY <2>3, <3>2, <3>3
  <2>6. ASSUME NEW i \in 1 .. Len(r) PROVE r[i] \in f + 1 .. (n + 2) - 1 /\ e[r[i]].verb = "RCPT"
    <3>1. CASE i \in 1 .. m
      BY <1>6, <1>9, <2>1, <3>1 DEF m
    <3>2. CASE i = m + 1
      BY <1>1, <1>9, <1>12, <2>1, <3>2
    <3> QED
      BY <2>3, <3>1, <3>2
  <2>7. ASSUME NEW p \in f + 1 .. (n + 2) - 1, e[p].verb = "RCPT"
        PROVE  \E i \in 1 .. Len(r) : r[i] = p
    <3>1. CASE p \in f + 1 .. (n + 1) - 1
      <4>1. PICK i \in 1 .. m : q[i] = p
        BY <1>6, <2>7, <3>1 DEF m
      <4>2. i \in 1 .. Len(r) /\ r[i] = p
        BY <2>1, <4>1
      <4> QED
        BY <4>2
    <3>2. CASE p = n + 1
      <4>1. m + 1 \in 1 .. Len(r)
        BY <2>1
      <4> QED
        BY <2>1, <3>2, <4>1
    <3> QED
      BY <1>8, <3>1, <3>2
  <2>8. IsRecipients(r, e, f, n + 2)
    BY <2>5, <2>6, <2>7 DEF IsRecipients
  <2>9. Without(e, Ends, f + 1, (n + 2) - 1)
    <3>1. "RCPT" \notin Ends
      BY DEF Ends
    <3> QED
      BY <1>10, <1>12, <3>1 DEF Without
  <2>10. Envelope(t, helo, e, n + 2)
    BY <1>5, <1>9, <2>2, <2>8, <2>9 DEF Envelope
  <2> QED
    BY <2>10 DEF t, r
<1> QED
  BY <1>7, <1>11, <1>12 DEF e, n, f, q

\* The greeting after one more command.
LEMMA GreetingKept ==
    ASSUME NEW l \in Seq(Commands), NEW x \in Commands, NEW helo \in Nat, NEW encrypted,
           Greeting(helo, encrypted, l, Len(l) + 1), x.tls = encrypted,
           x.verb \notin {"EHLO", "STARTTLS"}
    PROVE  Greeting(helo, encrypted, Append(l, x), Len(l) + 2)
<1> DEFINE e == Append(l, x)
           n == Len(l)
<1>1. /\ Len(e) = n + 1 /\ n \in Nat /\ e[n + 1] = x /\ \A i \in 1 .. n : e[i] = l[i]
  BY Appended
<1>2. /\ helo \in 1 .. (n + 1) - 1 /\ l[helo].verb = "EHLO"
      /\ \A i \in helo + 1 .. (n + 1) - 1 : l[i].verb \notin {"EHLO", "STARTTLS"}
      /\ \A i \in helo .. n : l[i].tls = encrypted
  BY DEF Greeting, Without
<1> HIDE DEF e, n
<1>3. /\ \A i \in helo .. n + 1 : (i \in 1 .. n /\ i \in helo .. n) \/ i = n + 1
      /\ \A i \in helo + 1 .. (n + 2) - 1 :
            (i \in 1 .. n /\ i \in helo + 1 .. (n + 1) - 1) \/ i = n + 1
      /\ helo \in 1 .. (n + 2) - 1 /\ helo \in 1 .. n
  BY <1>1, <1>2
<1>4. \A i \in helo .. n + 1 : e[i].tls = encrypted
  BY <1>1, <1>2, <1>3
<1>5. \A i \in helo + 1 .. (n + 2) - 1 : e[i].verb \notin {"EHLO", "STARTTLS"}
  BY <1>1, <1>2, <1>3
<1>6. Greeting(helo, encrypted, e, n + 2)
  BY <1>1, <1>2, <1>3, <1>4, <1>5 DEF Greeting, Without
<1> QED
  BY <1>6 DEF e, n

\* A new greeting.
LEMMA GreetingNew ==
    ASSUME NEW l \in Seq(Commands), NEW x \in Commands, x.verb = "EHLO"
    PROVE  Greeting(Len(l) + 1, x.tls, Append(l, x), Len(l) + 2)
<1> DEFINE e == Append(l, x)
           n == Len(l)
<1>1. /\ Len(e) = n + 1 /\ n \in Nat /\ e[n + 1] = x
  BY Appended
<1> HIDE DEF e, n
<1>2. /\ \A i \in (n + 1) + 1 .. (n + 2) - 1 : FALSE
      /\ \A i \in n + 1 .. n + 1 : i = n + 1
      /\ n + 1 \in 1 .. (n + 2) - 1
  BY <1>1
<1>3. Greeting(n + 1, x.tls, e, n + 2)
  BY <1>1, <1>2 DEF Greeting, Without
<1> QED
  BY <1>3 DEF e, n

\* A new transaction.
LEMMA EnvelopeNew ==
    ASSUME NEW l \in Seq(Commands), NEW x \in Commands, x.verb = "MAIL",
           NEW helo \in 1 .. Len(l)
    PROVE  Envelope([from |-> Len(l) + 1, recipients |-> <<>>], helo, Append(l, x), Len(l) + 2)
<1> DEFINE e == Append(l, x)
           n == Len(l)
           tx == [from |-> n + 1, recipients |-> <<>>]
<1>1. /\ Len(e) = n + 1 /\ n \in Nat /\ e[n + 1] = x
  BY Appended
<1>2. tx.from = n + 1 /\ tx.recipients = <<>> /\ Len(<<>>) = 0
  OBVIOUS
<1> HIDE DEF e, n, tx
<1>3. /\ \A i \in (n + 1) + 1 .. (n + 2) - 1 : FALSE
      /\ n + 1 \in helo + 1 .. (n + 2) - 1
  BY <1>1 DEF n
<1>4. \A i \in 1 .. 0 : FALSE
  OBVIOUS
<1>5. IsRecipients(<<>>, e, n + 1, n + 2)
  BY <1>2, <1>3, <1>4 DEF IsRecipients
<1>6. Envelope(tx, helo, e, n + 2)
  BY <1>1, <1>2, <1>3, <1>5 DEF Envelope, Without
<1> QED
  BY <1>6 DEF e, n, tx

\* A step of one connection.
LEMMA OneConn ==
    ASSUME EnvelopeInv, NEW c \in Conns, NEW s, NEW l, NEW inp,
           session' = [session EXCEPT ![c] = s], log' = [log EXCEPT ![c] = l],
           input' = [input EXCEPT ![c] = inp],
           ConnInv(s, l, inp), l = log[c] \/ \E x \in Commands : l = Append(log[c], x),
           \A m \in stored' : m \in stored \/ (m.conn = c /\ Delivered(m, l))
    PROVE  EnvelopeInv'
<1>1. /\ session = [x \in Conns |-> session[x]] /\ log = [x \in Conns |-> log[x]]
      /\ input = [x \in Conns |-> input[x]]
  BY DEF EnvelopeInv
<1>2. /\ session' = [x \in Conns |-> session'[x]] /\ session'[c] = s
      /\ \A x \in Conns : x # c => session'[x] = session[x]
  BY <1>1
<1>3. /\ log' = [x \in Conns |-> log'[x]] /\ log'[c] = l
      /\ \A x \in Conns : x # c => log'[x] = log[x]
  BY <1>1
<1>4. /\ input' = [x \in Conns |-> input'[x]] /\ input'[c] = inp
      /\ \A x \in Conns : x # c => input'[x] = input[x]
  BY <1>1
<1>5. \A x \in Conns : ConnInv(session[x], log[x], input[x]) /\ HasLasts(log[x])
  BY DEF EnvelopeInv
<1>6. \A m \in stored : m.conn \in Conns /\ Delivered(m, log[m.conn])
  BY DEF EnvelopeInv
<1>7. log[c] \in Seq(Commands)
  BY <1>5 DEF ConnInv
<1>8. HasLasts(l)
  BY <1>5, <1>7, LastsAppended
<1>9. ASSUME NEW x \in Conns
      PROVE  ConnInv(session'[x], log'[x], input'[x]) /\ HasLasts(log'[x])
  BY <1>2, <1>3, <1>4, <1>5, <1>8
<1>10. ASSUME NEW m \in stored' PROVE m.conn \in Conns /\ Delivered(m, log'[m.conn])
  <2>1. CASE m \in stored
    <3>1. m.conn \in Conns /\ Delivered(m, log[m.conn])
      BY <1>6, <2>1
    <3>2. CASE m.conn # c
      BY <1>3, <3>1, <3>2
    <3>3. CASE m.conn = c
      <4>1. Delivered(m, log[c])
        BY <3>1, <3>3
      <4>2. Delivered(m, l)
        <5>1. CASE l = log[c]
          BY <4>1, <5>1
        <5>2. ASSUME NEW x \in Commands, l = Append(log[c], x) PROVE Delivered(m, l)
          <6>1. Delivered(m, Append(log[c], x))
            BY <1>7, <4>1, DeliveredKept
          <6> QED
            BY <5>2, <6>1
        <5> QED
          BY <5>1, <5>2
      <4>3. log'[m.conn] = l
        BY <1>3, <3>3
      <4> QED
        BY <3>3, <4>2, <4>3
    <3> QED
      BY <3>2, <3>3
  <2>2. CASE m.conn = c /\ Delivered(m, l)
    BY <1>3, <2>2
  <2> QED
    BY <2>1, <2>2
<1> QED
  BY <1>2, <1>3, <1>4, <1>9, <1>10 DEF EnvelopeInv

\* A connection's values, and what it reads next.
LEMMA ConnFacts ==
    ASSUME EnvelopeInv, NEW c \in Conns
    PROVE  /\ ConnInv(session[c], log[c], input[c])
           /\ session[c] \in SessionStates /\ log[c] \in Seq(Commands) /\ Len(log[c]) \in Nat
           /\ input[c] \in Seq(Commands)
           /\ session = [session EXCEPT ![c] = session[c]]
           /\ log = [log EXCEPT ![c] = log[c]] /\ input = [input EXCEPT ![c] = input[c]]
<1>1. ConnInv(session[c], log[c], input[c])
  BY DEF EnvelopeInv
<1>2. session[c] \in SessionStates /\ log[c] \in Seq(Commands) /\ input[c] \in Seq(Commands)
  BY <1>1 DEF ConnInv
<1>3. Len(log[c]) \in Nat
  BY <1>2
<1>4. /\ session = [x \in Conns |-> session[x]] /\ log = [x \in Conns |-> log[x]]
      /\ input = [x \in Conns |-> input[x]]
  BY DEF EnvelopeInv
<1>5. session = [session EXCEPT ![c] = session[c]]
  BY <1>4
<1>6. log = [log EXCEPT ![c] = log[c]] /\ input = [input EXCEPT ![c] = input[c]]
  BY <1>4
<1> QED
  BY <1>1, <1>2, <1>3, <1>5, <1>6

\* All input came over the session's channel.
Secured(inp, encrypted) ==
    inp \in Seq(Commands) /\ \A i \in 1 .. Len(inp) : inp[i].tls = encrypted

\* The command that is executed, and what is left to read.
LEMMA Executed ==
    ASSUME EnvelopeInv, NEW c \in Conns, NEW verb, execute(c, verb)
    PROVE  /\ Head(input[c]) \in Commands /\ Head(input[c]).verb = verb
           /\ Head(input[c]).tls = session[c].encrypted
           /\ session[c].st = "open" /\ log' = [log EXCEPT ![c] = Append(log[c], Head(input[c]))]
           /\ Secured(Tail(input[c]), session[c].encrypted)
<1>1. /\ session[c].st = "open" /\ input[c] # <<>> /\ Head(input[c]).verb = verb
      /\ log' = [log EXCEPT ![c] = Append(log[c], Head(input[c]))]
  BY DEF execute
<1>2. input[c] \in Seq(Commands) /\ \A i \in 1 .. Len(input[c]) : input[c][i].tls = session[c].encrypted
  BY ConnFacts DEF ConnInv
<1> DEFINE q == input[c]
<1>3. q \in Seq(Commands) /\ q # <<>> /\ \A i \in 1 .. Len(q) : q[i].tls = session[c].encrypted
  BY <1>1, <1>2
<1> HIDE DEF q
<1>4. /\ Head(q) \in Commands /\ Head(q) = q[1] /\ Len(q) \in Nat /\ Len(q) >= 1
      /\ Tail(q) \in Seq(Commands) /\ Len(Tail(q)) = Len(q) - 1
      /\ \A i \in 1 .. Len(Tail(q)) : Tail(q)[i] = q[i + 1]
  BY <1>3, HeadTailProperties
<1>5. \A i \in 1 .. Len(Tail(q)) : i + 1 \in 1 .. Len(q)
  BY <1>4
<1>6. Head(q).tls = session[c].encrypted
  BY <1>3, <1>4
<1>7. Secured(Tail(q), session[c].encrypted)
  BY <1>3, <1>4, <1>5 DEF Secured
<1> QED
  BY <1>1, <1>4, <1>6, <1>7 DEF q

-----------------------------------------------------------------------------
(* The steps. *)

\* A session that is not inside DATA.
LEMMA OpenInv ==
    ASSUME NEW s \in SessionStates, NEW l \in Seq(Commands), NEW inp, s.st \in {"open", "closed"},
           Secured(inp, s.encrypted),
           s.tx = noTransaction \/ (s.tx.from # 0 /\ s.helo # 0 /\ Envelope(s.tx, s.helo, l, Len(l) + 1)),
           s.helo # 0 => Greeting(s.helo, s.encrypted, l, Len(l) + 1)
    PROVE  ConnInv(s, l, inp)
<1>1. s.st \notin Delivering
  BY DEF Delivering
<1>2. s.tx = noTransaction => s.tx.from = 0 /\ s.tx.recipients = <<>>
  BY DEF noTransaction
<1> QED
  BY <1>1, <1>2 DEF ConnInv, Secured

\* What is known of it.
LEMMA OpenFacts ==
    ASSUME NEW s, NEW l, NEW inp, ConnInv(s, l, inp), s.st \in {"open", "closed"}
    PROVE  /\ Secured(inp, s.encrypted)
           /\ s.helo # 0 => Greeting(s.helo, s.encrypted, l, Len(l) + 1)
           /\ s.tx.from # 0 => s.helo # 0 /\ Envelope(s.tx, s.helo, l, Len(l) + 1)
           /\ s.tx.from = 0 => s.tx = noTransaction
           /\ s.st \notin Delivering
           /\ s.tx.from \in Nat /\ s.tx.recipients \in Seq(Nat) /\ s.helo \in Nat
           /\ s.encrypted \in BOOLEAN
<1>1. s.st \notin Delivering
  BY DEF Delivering
<1>2. s \in SessionStates
  BY DEF ConnInv
<1>3. s.tx = [from |-> s.tx.from, recipients |-> s.tx.recipients]
  BY <1>2 DEF SessionStates
<1>4. s.tx.from = 0 => s.tx = noTransaction
  BY <1>3 DEF ConnInv, noTransaction
<1> QED
  BY <1>1, <1>2, <1>4 DEF ConnInv, Secured, SessionStates

\* A connection that was closed.
LEMMA ClosedInv ==
    ASSUME NEW l \in Seq(Commands)
    PROVE  ConnInv(newSession, l, <<>>)
<1>1. <<>> \in Seq(Nat) /\ <<>> \in Seq(Commands) /\ \A i \in 1 .. Len(<<>>) : FALSE
  BY EmptySeq
<1>2. newSession \in SessionStates /\ newSession.st = "closed" /\ newSession.tx = noTransaction
      /\ newSession.helo = 0
  BY <1>1 DEF newSession, noTransaction, SessionStates
<1>3. Secured(<<>>, newSession.encrypted)
  BY <1>1 DEF Secured
<1> QED
  BY <1>2, <1>3, OpenInv

\* A transaction with other recipients.
LEMMA TransactionState ==
    ASSUME NEW tx \in [from : Nat, recipients : Seq(Nat)], NEW q
    PROVE  [tx EXCEPT !.recipients = q] = [from |-> tx.from, recipients |-> q]
OBVIOUS

\* A session whose transaction has one recipient more.
LEMMA RecipientState ==
    ASSUME NEW s \in SessionStates, NEW p
    PROVE  [s EXCEPT !.tx.recipients = Append(@, p)]
              = [s EXCEPT !.tx = [from |-> s.tx.from, recipients |-> Append(s.tx.recipients, p)]]
<1>1. s.tx \in [from : Nat, recipients : Seq(Nat)]
  BY DEF SessionStates
<1>2. [s.tx EXCEPT !.recipients = Append(s.tx.recipients, p)]
         = [from |-> s.tx.from, recipients |-> Append(s.tx.recipients, p)]
  BY <1>1, TransactionState
<1>3. [s EXCEPT !.tx.recipients = Append(@, p)] = [s EXCEPT !.tx = [s.tx EXCEPT !.recipients = Append(@, p)]]
  BY DEF SessionStates
<1> QED
  BY <1>2, <1>3

\* EHLO, STARTTLS, MAIL, RCPT, RSET.
LEMMA CommandSteps ==
    ASSUME EnvelopeInv, NEW c \in Conns,
           EHLO(c) \/ STARTTLS(c) \/ MAIL(c) \/ RCPT(c) \/ RSET(c)
    PROVE  EnvelopeInv'
<1> DEFINE s == session[c]
           l == log[c]
           n == Len(l)
           x == Head(input[c])
           e == Append(l, x)
           t == Tail(input[c])
<1>1. /\ ConnInv(s, l, input[c]) /\ s \in SessionStates /\ l \in Seq(Commands) /\ n \in Nat
  BY ConnFacts
<1>2. PICK verb \in {"EHLO", "STARTTLS", "MAIL", "RCPT", "RSET"} : execute(c, verb)
  BY DEF EHLO, STARTTLS, MAIL, RCPT, RSET
<1>3. /\ x \in Commands /\ x.verb = verb /\ x.tls = s.encrypted /\ s.st = "open"
      /\ log' = [log EXCEPT ![c] = e] /\ Secured(t, s.encrypted)
  BY <1>2, Executed
<1>4. /\ s.helo # 0 => Greeting(s.helo, s.encrypted, l, n + 1)
      /\ s.tx.from # 0 => s.helo # 0 /\ Envelope(s.tx, s.helo, l, n + 1)
      /\ s.tx.from = 0 => s.tx = noTransaction
      /\ s.tx.from \in Nat /\ s.tx.recipients \in Seq(Nat) /\ s.helo \in Nat
      /\ s.encrypted \in BOOLEAN
  BY <1>1, <1>3, OpenFacts
<1>5. e \in Seq(Commands) /\ Len(e) + 1 = n + 2
  BY <1>1, <1>3, Appended
<1>6. noTransaction \in [from : Nat, recipients : Seq(Nat)]
  BY EmptySeq DEF noTransaction
<1>7. stored' = stored
  BY DEF EHLO, STARTTLS, MAIL, RCPT, RSET
<1>8. ASSUME NEW new, NEW inp, session' = [session EXCEPT ![c] = new],
             input' = [input EXCEPT ![c] = inp], ConnInv(new, e, inp)
      PROVE  EnvelopeInv'
  BY <1>3, <1>7, <1>8, OneConn
<1>9. CASE EHLO(c)
  <2> DEFINE new == [s EXCEPT !.helo = n + 1, !.tx = noTransaction]
  <2>1. /\ session' = [session EXCEPT ![c] = new] /\ input' = [input EXCEPT ![c] = t]
        /\ execute(c, "EHLO")
    BY <1>9 DEF EHLO, taken, next
  <2>2. x.verb = "EHLO"
    BY <2>1, Executed
  <2>3. /\ new \in SessionStates /\ new.st = "open" /\ new.helo = n + 1
        /\ new.encrypted = s.encrypted /\ new.tx = noTransaction
    <3>1. n + 1 \in Nat
      BY <1>1
    <3>2. s \in SessionStates /\ s.st = "open"
      BY <1>1, <1>3
    <3>3. new = [s EXCEPT !.helo = n + 1, !.tx = noTransaction]
      OBVIOUS
    <3> HIDE DEF new, s, n, l, x, e, t
    <3>4. PICK h \in Nat : h = n + 1
      BY <3>1
    <3>5. PICK tx \in [from : Nat, recipients : Seq(Nat)] : tx = noTransaction
      BY <1>6
    <3>6. new = [s EXCEPT !.helo = h, !.tx = tx]
      BY <3>3, <3>4, <3>5, Zenon
    <3>7. /\ new \in SessionStates /\ new.st = s.st /\ new.helo = h
          /\ new.encrypted = s.encrypted /\ new.tx = tx
      BY <3>2, <3>4, <3>5, <3>6 DEF SessionStates
    <3> QED
      BY <3>2, <3>4, <3>5, <3>7, Zenon
  <2> HIDE DEF new, s, t
  <2>4. Greeting(n + 1, s.encrypted, e, n + 2)
    BY <1>1, <1>3, <2>2, GreetingNew
  <2> HIDE DEF l, x, e
  <2>5. ConnInv(new, e, t)
    BY <1>3, <1>5, <2>3, <2>4, OpenInv
  <2> QED
    BY <1>8, <2>1, <2>5
<1>10. CASE STARTTLS(c)
  <2> DEFINE new == [s EXCEPT !.helo = 0, !.encrypted = TRUE, !.tx = noTransaction]
  <2>1. session' = [session EXCEPT ![c] = new] /\ input' = [input EXCEPT ![c] = <<>>]
    BY <1>10 DEF STARTTLS
  <2>2. /\ new \in SessionStates /\ new.st = "open" /\ new.helo = 0 /\ new.tx = noTransaction
    BY <1>1, <1>3, <1>6 DEF SessionStates
  <2> HIDE DEF new, s, t, l, x, e
  <2>3. Secured(<<>>, new.encrypted)
    <3>1. <<>> \in Seq(Commands) /\ \A i \in 1 .. Len(<<>>) : FALSE
      BY EmptySeq
    <3> QED
      BY <3>1 DEF Secured
  <2>4. ConnInv(new, e, <<>>)
    BY <1>5, <2>2, <2>3, OpenInv
  <2> QED
    BY <1>8, <2>1, <2>4
<1>11. CASE MAIL(c)
  <2> DEFINE tx == [from |-> n + 1, recipients |-> <<>>]
             new == [s EXCEPT !.tx = tx]
  <2>1. /\ session' = [session EXCEPT ![c] = new] /\ input' = [input EXCEPT ![c] = t]
        /\ execute(c, "MAIL") /\ s.helo # 0
    BY <1>11 DEF MAIL, taken, next, greeted
  <2>2. x.verb = "MAIL"
    BY <2>1, Executed
  <2>3. tx \in [from : Nat, recipients : Seq(Nat)] /\ tx.from # 0
    BY <1>1, EmptySeq
  <2>4. /\ new \in SessionStates /\ new.st = "open" /\ new.helo = s.helo
        /\ new.encrypted = s.encrypted /\ new.tx = tx
    BY <1>1, <1>3, <2>3 DEF SessionStates
  <2> HIDE DEF new, s, t
  <2>5. Greeting(s.helo, s.encrypted, e, n + 2)
    BY <1>1, <1>3, <1>4, <2>1, <2>2, GreetingKept
  <2>6. s.helo \in 1 .. n
    BY <1>1, <1>4, <2>1 DEF Greeting
  <2>7. Envelope(tx, s.helo, e, n + 2)
    BY <1>1, <1>3, <2>2, <2>6, EnvelopeNew
  <2> HIDE DEF l, x, e, tx
  <2>8. ConnInv(new, e, t)
    BY <1>3, <1>5, <2>1, <2>3, <2>4, <2>5, <2>7, OpenInv
  <2> QED
    BY <1>8, <2>1, <2>8
<1>12. CASE RCPT(c)
  <2> DEFINE tx == [from |-> s.tx.from, recipients |-> Append(s.tx.recipients, n + 1)]
             new == [s EXCEPT !.tx = tx]
  <2>1. /\ session' = [session EXCEPT ![c].tx.recipients = Append(@, n + 1)]
        /\ input' = [input EXCEPT ![c] = t] /\ execute(c, "RCPT") /\ s.tx.from # 0
    BY <1>12 DEF RCPT, taken, next, started
  <2>2. x.verb = "RCPT"
    BY <2>1, Executed
  <2>3. Append(s.tx.recipients, n + 1) \in Seq(Nat)
    BY <1>1, <1>4
  <2>4. tx \in [from : Nat, recipients : Seq(Nat)] /\ tx.from = s.tx.from
    BY <1>4, <2>3
  <2>5. s.tx = [from |-> s.tx.from, recipients |-> s.tx.recipients]
    BY <1>1 DEF SessionStates
  <2>6. [s EXCEPT !.tx.recipients = Append(@, n + 1)] = new
    <3> HIDE DEF s, n
    <3> QED
      BY <1>1, RecipientState
  <2>7. session' = [session EXCEPT ![c] = new]
    <3>1. session' = [session EXCEPT ![c] = [s EXCEPT !.tx.recipients = Append(@, n + 1)]]
      BY <2>1
    <3> HIDE DEF new, s
    <3> QED
      BY <2>6, <3>1, Zenon
  <2>8. /\ new \in SessionStates /\ new.st = "open" /\ new.helo = s.helo
        /\ new.encrypted = s.encrypted /\ new.tx = tx
    BY <1>1, <1>3, <2>4 DEF SessionStates
  <2> HIDE DEF new, s, t
  <2>9. s.helo # 0 /\ Greeting(s.helo, s.encrypted, e, n + 2)
    BY <1>1, <1>3, <1>4, <2>1, <2>2, GreetingKept
  <2>10. Envelope(tx, s.helo, e, n + 2)
    BY <1>1, <1>3, <1>4, <2>1, <2>2, EnvelopeKept
  <2> HIDE DEF l, x, e, tx
  <2>11. ConnInv(new, e, t)
    BY <1>3, <1>5, <2>1, <2>4, <2>8, <2>9, <2>10, OpenInv
  <2> QED
    BY <1>8, <2>1, <2>7, <2>11
<1>13. CASE RSET(c)
  <2> DEFINE new == [s EXCEPT !.tx = noTransaction]
  <2>1. /\ session' = [session EXCEPT ![c] = new] /\ input' = [input EXCEPT ![c] = t]
        /\ execute(c, "RSET")
    BY <1>13 DEF RSET, taken
  <2>2. x.verb = "RSET"
    BY <2>1, Executed
  <2>3. /\ new \in SessionStates /\ new.st = "open" /\ new.helo = s.helo
        /\ new.encrypted = s.encrypted /\ new.tx = noTransaction
    BY <1>1, <1>3, <1>6 DEF SessionStates
  <2> HIDE DEF new, s, t
  <2>4. s.helo # 0 => Greeting(s.helo, s.encrypted, e, n + 2)
    BY <1>1, <1>3, <1>4, <2>2, GreetingKept
  <2> HIDE DEF l, x, e
  <2>5. ConnInv(new, e, t)
    BY <1>3, <1>5, <2>3, <2>4, OpenInv
  <2> QED
    BY <1>8, <2>1, <2>5
<1> QED
  BY <1>9, <1>10, <1>11, <1>12, <1>13
\* A session inside DATA.
LEMMA DeliveringInv ==
    ASSUME NEW s \in SessionStates, NEW l \in Seq(Commands), NEW inp, s.st \in Delivering,
           Secured(inp, s.encrypted), s.tx.from # 0, s.helo # 0, l[Len(l)].verb = "DATA",
           Greeting(s.helo, s.encrypted, l, Len(l) + 1), Envelope(s.tx, s.helo, l, Len(l))
    PROVE  ConnInv(s, l, inp)
BY DEF ConnInv, Secured

\* What is known of it.
LEMMA DeliveringFacts ==
    ASSUME NEW s, NEW l, NEW inp, ConnInv(s, l, inp), s.st \in Delivering
    PROVE  /\ s \in SessionStates /\ l \in Seq(Commands) /\ Secured(inp, s.encrypted)
           /\ s.tx.from # 0 /\ s.helo # 0 /\ l[Len(l)].verb = "DATA"
           /\ Greeting(s.helo, s.encrypted, l, Len(l) + 1) /\ Envelope(s.tx, s.helo, l, Len(l))
BY DEF ConnInv, Secured

\* DATA.
LEMMA DATAStep ==
    ASSUME EnvelopeInv, NEW c \in Conns, DATA(c)
    PROVE  EnvelopeInv'
<1> DEFINE s == session[c]
           l == log[c]
           n == Len(l)
           x == Head(input[c])
           e == Append(l, x)
           t == Tail(input[c])
           new == [s EXCEPT !.st = "stage"]
<1>1. /\ ConnInv(s, l, input[c]) /\ s \in SessionStates /\ l \in Seq(Commands) /\ n \in Nat
  BY ConnFacts
<1>2. /\ execute(c, "DATA") /\ s.tx.recipients # <<>> /\ stored' = stored
      /\ session' = [session EXCEPT ![c] = new] /\ input' = [input EXCEPT ![c] = t]
  BY DEF DATA, taken
<1>3. /\ x \in Commands /\ x.verb = "DATA" /\ x.tls = s.encrypted /\ s.st = "open"
      /\ log' = [log EXCEPT ![c] = e] /\ Secured(t, s.encrypted)
  BY <1>2, Executed
<1>4. /\ s.helo # 0 => Greeting(s.helo, s.encrypted, l, n + 1)
      /\ s.tx.from # 0 => s.helo # 0 /\ Envelope(s.tx, s.helo, l, n + 1)
      /\ s.tx.from = 0 => s.tx = noTransaction
      /\ s.tx.from \in Nat /\ s.helo \in Nat
  BY <1>1, <1>3, OpenFacts
<1>5. s.tx.from # 0
  <2>1. noTransaction.recipients = <<>>
    BY DEF noTransaction
  <2> QED
    BY <1>2, <1>4, <2>1
<1>6. Len(e) = n + 1 /\ e \in Seq(Commands) /\ e[n + 1] = x /\ (n + 1) + 1 = n + 2
  BY <1>1, <1>3, Appended
<1>7. /\ new \in SessionStates /\ new.st = "stage" /\ new.helo = s.helo
      /\ new.encrypted = s.encrypted /\ new.tx = s.tx
  BY <1>1 DEF SessionStates, Delivering
<1> HIDE DEF new, s, t
<1>8. Greeting(s.helo, s.encrypted, e, n + 2)
  BY <1>1, <1>3, <1>4, <1>5, GreetingKept
<1>9. Envelope(s.tx, s.helo, e, n + 1)
  BY <1>1, <1>3, <1>4, <1>5, EnvelopeKept
<1> HIDE DEF l, x, e, n
<1>10. ConnInv(new, e, t)
  <2>1. new.st \in Delivering
    BY <1>7 DEF Delivering
  <2>2. Greeting(new.helo, new.encrypted, e, Len(e) + 1) /\ Envelope(new.tx, new.helo, e, Len(e))
    BY <1>6, <1>7, <1>8, <1>9
  <2>3. /\ Secured(t, new.encrypted) /\ new.tx.from # 0 /\ new.helo # 0
        /\ e[Len(e)].verb = "DATA"
    BY <1>3, <1>4, <1>5, <1>6, <1>7
  <2> QED
    BY <1>6, <1>7, <2>1, <2>2, <2>3, DeliveringInv
<1> QED
  BY <1>2, <1>3, <1>10, OneConn DEF l, e

\* What Publish puts into HEAD.
LEMMA MessageDelivered ==
    ASSUME EnvelopeInv, NEW c \in Conns, session[c].st \in Delivering
    PROVE  message(c).conn = c /\ Delivered(message(c), log[c])
<1> DEFINE s == session[c]
           l == log[c]
           n == Len(l)
           m == message(c)
<1>1. ConnInv(s, l, input[c])
  BY ConnFacts
<1>2. /\ s \in SessionStates /\ l \in Seq(Commands)
      /\ Greeting(s.helo, s.encrypted, l, n + 1) /\ Envelope(s.tx, s.helo, l, n)
  BY <1>1, DeliveringFacts
<1>3. /\ m.conn = c /\ m.helo = s.helo /\ m.from = s.tx.from /\ m.recipients = s.tx.recipients
      /\ m.encrypted = s.encrypted /\ m.data = n
  BY DEF message
<1>4. s.tx.recipients \in Seq(Nat) /\ s.tx.from \in Nat /\ s.helo \in Nat /\ n \in Nat
  BY <1>2 DEF SessionStates
<1> HIDE DEF s, l, n, m
<1>5. /\ s.helo \in 1 .. (n + 1) - 1 /\ l[s.helo].verb = "EHLO"
      /\ \A i \in s.helo + 1 .. (n + 1) - 1 : l[i].verb \notin {"EHLO", "STARTTLS"}
      /\ \A i \in s.helo .. n : l[i].tls = s.encrypted
  BY <1>2 DEF Greeting, Without, n
<1>6. /\ s.tx.from \in s.helo + 1 .. n - 1 /\ l[s.tx.from].verb = "MAIL"
      /\ Without(l, Ends, s.tx.from + 1, n - 1)
      /\ IsRecipients(s.tx.recipients, l, s.tx.from, n)
  BY <1>2 DEF Envelope
<1>7. n \in 1 .. n /\ s.helo \in 1 .. n - 1 /\ \A i \in s.helo + 1 .. n - 1 : i \in s.helo + 1 .. (n + 1) - 1
  BY <1>4, <1>5, <1>6
<1>8. Without(l, {"EHLO", "STARTTLS"}, s.helo + 1, n - 1)
  BY <1>5, <1>7 DEF Without
<1>9. Delivered(m, l)
  BY <1>3, <1>4, <1>5, <1>6, <1>7, <1>8 DEF Delivered, n
<1> QED
  BY <1>3, <1>9 DEF m, l

\* QUIT, and the ways out without it.
LEMMA ClosingSteps ==
    ASSUME EnvelopeInv, NEW c \in Conns,
           QUIT(c) \/ Disconnect(c) \/ StageFails(c) \/ PublishFails(c)
    PROVE  EnvelopeInv'
<1> DEFINE l == log[c]
<1>1. l \in Seq(Commands) /\ log = [log EXCEPT ![c] = l]
  BY ConnFacts
<1>2. session' = [session EXCEPT ![c] = newSession] /\ input' = [input EXCEPT ![c] = <<>>]
  BY DEF QUIT, Disconnect, StageFails, PublishFails, closed
<1>3. \A m \in stored' : m \in stored \/ (m.conn = c /\ Delivered(m, l))
  <2>1. CASE stored' = stored
    BY <2>1
  <2>2. CASE PublishFails(c)
    <3>1. stored' \in {stored, stored \cup {message(c)}} /\ session[c].st \in Delivering
      BY <2>2 DEF PublishFails, Delivering
    <3> QED
      BY <3>1, MessageDelivered
  <2> QED
    BY <2>1, <2>2 DEF QUIT, Disconnect, StageFails
<1>4. CASE QUIT(c)
  <2>1. execute(c, "QUIT") /\ stored' = stored
    BY <1>4 DEF QUIT
  <2>2. PICK x \in Commands : log' = [log EXCEPT ![c] = Append(l, x)]
    BY <2>1, Executed
  <2>3. Append(l, x) \in Seq(Commands)
    BY <1>1, <2>2, Appended
  <2>4. ConnInv(newSession, Append(l, x), <<>>)
    BY <2>3, ClosedInv
  <2>5. \A m \in stored' : m \in stored
    BY <2>1
  <2> QED
    BY <1>2, <2>2, <2>4, <2>5, OneConn
<1>5. CASE log' = log
  <2>1. ConnInv(newSession, l, <<>>)
    BY <1>1, ClosedInv
  <2>2. log' = [log EXCEPT ![c] = l]
    BY <1>1, <1>5
  <2> QED
    BY <1>2, <1>3, <2>1, <2>2, OneConn
<1> QED
  BY <1>4, <1>5 DEF Disconnect, StageFails, PublishFails

\* Input that is longer, and shorter.
LEMMA SecuredInput ==
    ASSUME NEW inp, NEW encrypted, Secured(inp, encrypted)
    PROVE  /\ inp # <<>> => Secured(Tail(inp), encrypted)
           /\ \A x \in Commands : x.tls = encrypted => Secured(Append(inp, x), encrypted)
<1>1. inp \in Seq(Commands) /\ \A i \in 1 .. Len(inp) : inp[i].tls = encrypted
  BY DEF Secured
<1>2. ASSUME inp # <<>> PROVE Secured(Tail(inp), encrypted)
  <2>1. /\ Len(inp) \in Nat /\ Tail(inp) \in Seq(Commands) /\ Len(Tail(inp)) = Len(inp) - 1
        /\ \A i \in 1 .. Len(Tail(inp)) : Tail(inp)[i] = inp[i + 1]
    BY <1>1, <1>2, HeadTailProperties
  <2>2. \A i \in 1 .. Len(Tail(inp)) : i + 1 \in 1 .. Len(inp)
    BY <2>1
  <2> QED
    BY <1>1, <2>1, <2>2 DEF Secured
<1>3. ASSUME NEW x \in Commands, x.tls = encrypted PROVE Secured(Append(inp, x), encrypted)
  <2> DEFINE e == Append(inp, x)
             n == Len(inp)
  <2>1. /\ e \in Seq(Commands) /\ Len(e) = n + 1 /\ n \in Nat
        /\ \A i \in 1 .. n : e[i] = inp[i]
        /\ e[n + 1] = x
    BY <1>1, Appended
  <2> HIDE DEF e
  <2>2. \A i \in 1 .. Len(e) : i \in 1 .. n \/ i = n + 1
    BY <2>1
  <2>3. Secured(e, encrypted)
    BY <1>1, <1>3, <2>1, <2>2 DEF Secured
  <2> QED
    BY <2>3 DEF e
<1> QED
  BY <1>2, <1>3

\* The steps that change nothing but the input.
LEMMA InputSteps ==
    ASSUME EnvelopeInv, NEW c \in Conns, Refuse(c) \/ \E verb \in Verbs : Send(c, verb)
    PROVE  EnvelopeInv'
<1> DEFINE s == session[c]
           l == log[c]
           inp == input[c]
<1>1. /\ ConnInv(s, l, inp) /\ s \in SessionStates /\ l \in Seq(Commands)
      /\ session = [session EXCEPT ![c] = s] /\ log = [log EXCEPT ![c] = l]
  BY ConnFacts
<1>2. session' = session /\ log' = log /\ stored' = stored /\ s.st = "open"
  BY DEF Refuse, Send
<1>3. /\ Secured(inp, s.encrypted)
      /\ s.helo # 0 => Greeting(s.helo, s.encrypted, l, Len(l) + 1)
      /\ s.tx.from # 0 => s.helo # 0 /\ Envelope(s.tx, s.helo, l, Len(l) + 1)
      /\ s.tx.from = 0 => s.tx = noTransaction
      /\ s.encrypted \in BOOLEAN
  BY <1>1, <1>2, OpenFacts
<1>4. PICK new : input' = [input EXCEPT ![c] = new] /\ Secured(new, s.encrypted)
  <2>1. CASE Refuse(c)
    <3>1. input' = [input EXCEPT ![c] = Tail(inp)] /\ inp # <<>>
      BY <2>1 DEF Refuse, taken
    <3> QED
      BY <1>3, <3>1, SecuredInput
  <2>2. ASSUME NEW verb \in Verbs, Send(c, verb)
        PROVE  \E new : input' = [input EXCEPT ![c] = new] /\ Secured(new, s.encrypted)
    <3> DEFINE x == [verb |-> verb, tls |-> s.encrypted]
    <3>1. input' = [input EXCEPT ![c] = Append(inp, x)]
      BY <2>2 DEF Send
    <3>2. x \in Commands /\ x.tls = s.encrypted
      BY <1>3 DEF Commands
    <3> HIDE DEF x
    <3>3. Secured(Append(inp, x), s.encrypted)
      BY <1>3, <3>2, SecuredInput
    <3> QED
      BY <3>1, <3>3
  <2> QED
    BY <2>1, <2>2
<1>5. ConnInv(s, l, new)
  BY <1>1, <1>2, <1>3, <1>4, OpenInv
<1>6. session' = [session EXCEPT ![c] = s] /\ log' = [log EXCEPT ![c] = l]
  BY <1>1, <1>2
<1>7. \A m \in stored' : m \in stored
  BY <1>2
<1> HIDE DEF s, l
<1> QED
  BY <1>4, <1>5, <1>6, <1>7, OneConn DEF l

\* A connection that is accepted had not begun.
LEMMA AcceptStep ==
    ASSUME EnvelopeInv, NEW c \in Conns, Accept(c)
    PROVE  EnvelopeInv'
<1> DEFINE s == session[c]
           l == log[c]
           new == [s EXCEPT !.st = "open"]
<1>1. /\ ConnInv(s, l, input[c]) /\ s \in SessionStates /\ l \in Seq(Commands)
      /\ log = [log EXCEPT ![c] = l] /\ input = [input EXCEPT ![c] = input[c]]
  BY ConnFacts
<1>2. /\ session' = [session EXCEPT ![c] = new] /\ log' = log /\ input' = input
      /\ stored' = stored /\ s.st = "closed"
  BY DEF Accept
<1>3. /\ Secured(input[c], s.encrypted)
      /\ s.helo # 0 => Greeting(s.helo, s.encrypted, l, Len(l) + 1)
      /\ s.tx.from # 0 => s.helo # 0 /\ Envelope(s.tx, s.helo, l, Len(l) + 1)
      /\ s.tx.from = 0 => s.tx = noTransaction
  BY <1>1, <1>2, OpenFacts
<1>4. /\ new \in SessionStates /\ new.st = "open" /\ new.helo = s.helo
      /\ new.encrypted = s.encrypted /\ new.tx = s.tx
  BY <1>1 DEF SessionStates
<1> HIDE DEF new, s
<1>5. ConnInv(new, l, input[c])
  BY <1>1, <1>3, <1>4, OpenInv
<1>6. log' = [log EXCEPT ![c] = l] /\ input' = [input EXCEPT ![c] = input[c]]
  BY <1>1, <1>2
<1>7. \A m \in stored' : m \in stored
  BY <1>2
<1> QED
  BY <1>2, <1>5, <1>6, <1>7, OneConn

\* The steps inside DATA, and those that end it with the connection open.
LEMMA DeliverySteps ==
    ASSUME EnvelopeInv, NEW c \in Conns,
           Stage(c) \/ StageDone(c) \/ PolicyAccepts(c) \/ PolicyRefuses(c) \/ Publish(c)
    PROVE  EnvelopeInv'
<1> DEFINE s == session[c]
           l == log[c]
<1>1. /\ ConnInv(s, l, input[c])
      /\ log = [log EXCEPT ![c] = l] /\ input = [input EXCEPT ![c] = input[c]]
  BY ConnFacts
<1>2. log' = log /\ input' = input /\ s.st \in Delivering
  BY DEF Stage, StageDone, PolicyAccepts, PolicyRefuses, Publish, Delivering
<1>3. /\ s \in SessionStates /\ l \in Seq(Commands) /\ Secured(input[c], s.encrypted)
      /\ s.tx.from # 0 /\ s.helo # 0 /\ l[Len(l)].verb = "DATA"
      /\ Greeting(s.helo, s.encrypted, l, Len(l) + 1) /\ Envelope(s.tx, s.helo, l, Len(l))
  BY <1>1, <1>2, DeliveringFacts
<1>4. log' = [log EXCEPT ![c] = l] /\ input' = [input EXCEPT ![c] = input[c]]
  BY <1>1, <1>2
<1>5. \A m \in stored' : m \in stored \/ (m.conn = c /\ Delivered(m, l))
  BY <1>2, MessageDelivered DEF Stage, StageDone, PolicyAccepts, PolicyRefuses, Publish
<1>6. ASSUME NEW st \in Delivering, session' = [session EXCEPT ![c].st = st]
      PROVE  EnvelopeInv'
  <2> DEFINE new == [s EXCEPT !.st = st]
  <2>1. session' = [session EXCEPT ![c] = new]
    BY <1>6
  <2>2. /\ new \in SessionStates /\ new.st = st /\ new.helo = s.helo
        /\ new.encrypted = s.encrypted /\ new.tx = s.tx
    BY <1>3 DEF SessionStates
  <2> HIDE DEF new, s, l
  <2>3. ConnInv(new, l, input[c])
    BY <1>3, <2>2, DeliveringInv
  <2> QED
    BY <1>4, <1>5, <2>1, <2>3, OneConn DEF l
<1>7. CASE PolicyRefuses(c) \/ Publish(c)
  <2> DEFINE new == [s EXCEPT !.st = "open", !.tx = noTransaction]
  <2>1. session' = [session EXCEPT ![c] = new]
    BY <1>7 DEF PolicyRefuses, Publish
  <2>2. noTransaction \in [from : Nat, recipients : Seq(Nat)]
    BY EmptySeq DEF noTransaction
  <2>3. /\ new \in SessionStates /\ new.st = "open" /\ new.helo = s.helo
        /\ new.encrypted = s.encrypted /\ new.tx = noTransaction
    BY <1>3, <2>2 DEF SessionStates
  <2> HIDE DEF new, s, l
  <2>4. ConnInv(new, l, input[c])
    BY <1>3, <2>3, OpenInv
  <2> QED
    BY <1>4, <1>5, <2>1, <2>4, OneConn DEF l
<1>8. CASE Stage(c) \/ StageDone(c) \/ PolicyAccepts(c)
  <2>1. \E st \in Delivering : session' = [session EXCEPT ![c].st = st]
    BY <1>8 DEF Stage, StageDone, PolicyAccepts, Delivering
  <2> QED
    BY <1>6, <2>1
<1> QED
  BY <1>7, <1>8

\* The invariant is true at first, and every step keeps it.
LEMMA EnvelopeAlways == Spec => []EnvelopeInv
<1>1. Init => EnvelopeInv
  <2> SUFFICES ASSUME Init PROVE EnvelopeInv
    OBVIOUS
  <2>1. <<>> \in Seq(Commands) /\ Len(<<>>) = 0
    BY EmptySeq
  <2>2. HasLasts(<<>>)
    <3>1. \A k \in 1 .. Len(<<>>) + 1 : k = 1
      BY <2>1
    <3>2. \A i \in 0 + 1 .. 1 - 1 : FALSE
      OBVIOUS
    <3>3. 0 \in 0 .. 1 - 1
      OBVIOUS
    <3>4. \A verbs : IsLast(<<>>, verbs, 1, 0)
      BY <3>2, <3>3 DEF IsLast, Without
    <3>5. \A verbs : HasLast(<<>>, verbs, 1)
      BY <3>4 DEF HasLast
    <3> QED
      BY <3>1, <3>5 DEF HasLasts
  <2>3. ConnInv(newSession, <<>>, <<>>)
    BY <2>1, ClosedInv
  <2>4. \A c \in Conns : session[c] = newSession /\ log[c] = <<>> /\ input[c] = <<>>
    BY DEF Init
  <2>5. /\ session = [c \in Conns |-> session[c]] /\ log = [c \in Conns |-> log[c]]
        /\ input = [c \in Conns |-> input[c]] /\ stored = {}
    BY DEF Init
  <2> QED
    BY <2>2, <2>3, <2>4, <2>5 DEF EnvelopeInv
<1>2. EnvelopeInv /\ [Next]_vars => EnvelopeInv'
  <2> SUFFICES ASSUME EnvelopeInv, [Next]_vars PROVE EnvelopeInv'
    OBVIOUS
  <2>1. CASE UNCHANGED vars
    BY <2>1 DEF vars, EnvelopeInv
  <2>2. ASSUME NEW c \in Conns, CommandNext(c) PROVE EnvelopeInv'
    BY <2>2, CommandSteps, DATAStep, ClosingSteps, InputSteps DEF CommandNext
  <2>3. ASSUME NEW c \in Conns, DeliveryNext(c) PROVE EnvelopeInv'
    BY <2>3, DeliverySteps, ClosingSteps DEF DeliveryNext
  <2>4. ASSUME NEW c \in Conns, Accept(c) \/ Disconnect(c) \/ \E verb \in Verbs : Send(c, verb)
        PROVE  EnvelopeInv'
    BY <2>4, AcceptStep, ClosingSteps, InputSteps
  <2> QED
    BY <2>1, <2>2, <2>3, <2>4 DEF Next
<1> QED
  BY <1>1, <1>2, PTL DEF Spec

-----------------------------------------------------------------------------
(* The theorems. *)

\* What was delivered has the envelope of one transaction.
LEMMA DeliveredIsTransaction ==
    ASSUME EnvelopeInv
    PROVE  EnvelopeIsTransaction
<1> SUFFICES ASSUME NEW m \in stored
             PROVE  LET from == lastOf(m.conn, {"MAIL"}, m.data)
                    IN  /\ m.from = from
                        /\ from > lastOf(m.conn, {"EHLO", "RSET", "STARTTLS", "DATA"}, m.data)
                        /\ Range(m.recipients)
                              = {i \in from + 1 .. m.data - 1 : log[m.conn][i].verb = "RCPT"}
                        /\ \A i, j \in DOMAIN m.recipients :
                              i < j => m.recipients[i] < m.recipients[j]
                        /\ m.helo = lastOf(m.conn, {"EHLO"}, m.data)
                        /\ m.helo > lastOf(m.conn, {"STARTTLS"}, m.data)
  BY DEF EnvelopeIsTransaction
<1> DEFINE c == m.conn
           l == log[c]
           k == m.data
           f == m.from
           h == m.helo
           q == m.recipients
<1>1. c \in Conns /\ Delivered(m, l) /\ HasLasts(l) /\ l \in Seq(Commands)
  BY DEF EnvelopeInv, ConnInv
<1>2. /\ k \in 1 .. Len(l)
      /\ h \in 1 .. k - 1 /\ l[h].verb = "EHLO"
      /\ \A i \in h + 1 .. k - 1 : l[i].verb \notin {"EHLO", "STARTTLS"}
      /\ f \in h + 1 .. k - 1 /\ l[f].verb = "MAIL"
      /\ \A i \in f + 1 .. k - 1 : l[i].verb \notin Ends
      /\ q \in Seq(Nat) /\ IsRecipients(q, l, f, k)
  BY <1>1 DEF Delivered, Without
<1> HIDE DEF c, k, f, h, q
<1>3. k \in Nat \ {0} /\ h \in Nat /\ f \in Nat /\ h # 0 /\ f # 0 /\ k \in 1 .. Len(l) + 1
  <2>1. Len(l) \in Nat
    BY <1>1
  <2> QED
    BY <1>2, <2>1
<1>4. ASSUME NEW verbs \in SUBSET Verbs
      PROVE  \E n \in 0 .. k - 1 : lastOf(c, verbs, k) = n /\ (n # 0 => l[n].verb \in verbs)
  <2>1. PICK n : IsLast(l, verbs, k, n)
    BY <1>1, <1>3 DEF HasLasts, HasLast
  <2>2. lastOf(c, verbs, k) = n
    BY <1>3, <2>1, LastIs
  <2> QED
    BY <2>1, <2>2 DEF IsLast
<1>5. lastOf(c, {"MAIL"}, k) = f
  <2>1. f \in 0 .. k - 1 /\ \A i \in f + 1 .. k - 1 : l[i].verb \notin {"MAIL"}
    BY <1>2, <1>3 DEF Ends
  <2>2. IsLast(l, {"MAIL"}, k, f)
    BY <1>2, <2>1 DEF IsLast, Without
  <2> QED
    BY <1>3, <2>2, LastIs
<1>6. lastOf(c, {"EHLO"}, k) = h
  <2>1. h \in 0 .. k - 1 /\ \A i \in h + 1 .. k - 1 : l[i].verb \notin {"EHLO"}
    BY <1>2, <1>3
  <2>2. IsLast(l, {"EHLO"}, k, h)
    BY <1>2, <2>1 DEF IsLast, Without
  <2> QED
    BY <1>3, <2>2, LastIs
<1>7. f > lastOf(c, {"EHLO", "RSET", "STARTTLS", "DATA"}, k)
  <2> DEFINE verbs == {"EHLO", "RSET", "STARTTLS", "DATA"}
  <2>1. verbs \in SUBSET Verbs /\ "MAIL" \notin verbs /\ verbs \subseteq Ends
    BY DEF Verbs, Ends
  <2> HIDE DEF verbs
  <2>2. PICK n \in 0 .. k - 1 : lastOf(c, verbs, k) = n /\ (n # 0 => l[n].verb \in verbs)
    BY <1>4, <2>1
  <2>3. n \notin f + 1 .. k - 1
    BY <1>2, <1>3, <2>1, <2>2
  <2>4. n # f
    BY <1>2, <1>3, <2>1, <2>2
  <2>5. f > n
    BY <1>3, <2>2, <2>3, <2>4
  <2> QED
    BY <2>2, <2>5 DEF verbs
<1>8. h > lastOf(c, {"STARTTLS"}, k)
  <2> DEFINE verbs == {"STARTTLS"}
  <2>1. verbs \in SUBSET Verbs /\ "EHLO" \notin verbs /\ verbs \subseteq {"EHLO", "STARTTLS"}
    BY DEF Verbs
  <2> HIDE DEF verbs
  <2>2. PICK n \in 0 .. k - 1 : lastOf(c, verbs, k) = n /\ (n # 0 => l[n].verb \in verbs)
    BY <1>4, <2>1
  <2>3. n \notin h + 1 .. k - 1
    <3>1. \A i \in h + 1 .. k - 1 : i # 0
      BY <1>3
    <3>2. \A v : v \in verbs => v \in {"EHLO", "STARTTLS"}
      BY <2>1
    <3>3. \A i \in h + 1 .. k - 1 : l[i].verb \notin verbs
      BY <1>2, <3>2
    <3> QED
      BY <2>2, <3>1, <3>3
  <2>4. n # h
    BY <1>2, <1>3, <2>1, <2>2
  <2>5. h > n
    BY <1>3, <2>2, <2>3, <2>4
  <2> QED
    BY <2>2, <2>5 DEF verbs
<1>9. /\ \A i, j \in 1 .. Len(q) : i < j => q[i] < q[j]
      /\ \A i \in 1 .. Len(q) : q[i] \in f + 1 .. k - 1 /\ l[q[i]].verb = "RCPT"
      /\ \A p \in f + 1 .. k - 1 : l[p].verb = "RCPT" => \E i \in 1 .. Len(q) : q[i] = p
      /\ DOMAIN q = 1 .. Len(q)
  BY <1>2 DEF IsRecipients
<1>10. Range(q) = {i \in f + 1 .. k - 1 : l[i].verb = "RCPT"}
  BY <1>9 DEF Range
<1> QED
  BY <1>5, <1>6, <1>7, <1>8, <1>9, <1>10 DEF c, k, f, h, q

\* All that makes up an envelope came over the channel that its headers name.
LEMMA DeliveredIsOfChannel ==
    ASSUME EnvelopeInv
    PROVE  EnvelopeIsOfChannel
<1> SUFFICES ASSUME NEW m \in stored, NEW i \in {m.helo, m.from, m.data} \cup Range(m.recipients)
             PROVE  log[m.conn][i].tls = m.encrypted
  BY DEF EnvelopeIsOfChannel
<1> DEFINE l == log[m.conn]
           k == m.data
           f == m.from
           h == m.helo
           q == m.recipients
<1>1. Delivered(m, l) /\ l \in Seq(Commands)
  BY DEF EnvelopeInv, ConnInv
<1>2. /\ k \in 1 .. Len(l) /\ h \in 1 .. k - 1 /\ f \in h + 1 .. k - 1
      /\ \A j \in h .. k : l[j].tls = m.encrypted
      /\ q \in Seq(Nat) /\ \A j \in 1 .. Len(q) : q[j] \in f + 1 .. k - 1
  BY <1>1 DEF Delivered, IsRecipients
<1>3. i \in {h, f, k} \cup Range(q)
  OBVIOUS
<1>4. DOMAIN q = 1 .. Len(q) /\ Len(l) \in Nat
  BY <1>1, <1>2
<1> HIDE DEF l, k, f, h, q
<1>5. h \in h .. k /\ f \in h .. k /\ k \in h .. k /\ \A j \in f + 1 .. k - 1 : j \in h .. k
  BY <1>2, <1>4
<1>6. \A p \in Range(q) : p \in f + 1 .. k - 1
  BY <1>2, <1>4 DEF Range
<1>7. i \in h .. k
  BY <1>3, <1>5, <1>6
<1>8. l[i].tls = m.encrypted
  BY <1>2, <1>7
<1> QED
  BY <1>8 DEF l

\* A delivered message has the envelope of one transaction: the last MAIL and
\* EHLO, every recipient after it, and nothing from before an EHLO, RSET,
\* STARTTLS or an earlier message, however commands are pipelined.
THEOREM EnvelopeHolds == Spec => []EnvelopeIsTransaction
BY EnvelopeAlways, DeliveredIsTransaction, PTL

\* Nothing that came in plaintext is executed as if it had come over TLS, and
\* what the headers say of the channel is true of all of the envelope.
THEOREM ChannelHolds == Spec => []EnvelopeIsOfChannel
BY EnvelopeAlways, DeliveredIsOfChannel, PTL

-----------------------------------------------------------------------------
(* Reservations and tokens. *)

\* A token for every connection that is open.
OpenConns == {c \in Conns : session[c].st # "closed"}

\* The inductive invariant: what is staged is being delivered, and tokens are
\* those of the open connections, of which there are finitely many.
LeakInv ==
    /\ session = [c \in Conns |-> session[c]]
    /\ staged \subseteq Conns
    /\ \A c \in staged : session[c].st \in {"receive", "policy", "publish"}
    /\ IsFiniteSet(OpenConns) /\ connections = Cardinality(OpenConns)
    /\ connections <= MaxConnections

\* The steps of a connection that goes on.
LEMMA LeakKept ==
    ASSUME LeakInv, NEW c \in Conns, NEW new, session' = [session EXCEPT ![c] = new],
           (new.st = "closed") = (session[c].st = "closed"), connections' = connections,
           \/ staged' = staged \ {c}
           \/ staged' \subseteq staged \cup {c} /\ new.st \in {"receive", "policy", "publish"}
    PROVE  LeakInv'
<1>1. /\ session' = [x \in Conns |-> session'[x]] /\ session'[c] = new
      /\ \A x \in Conns : x # c => session'[x] = session[x]
  BY DEF LeakInv
<1>2. OpenConns' = OpenConns
  BY <1>1 DEF OpenConns
<1>3. \A x \in staged' : x \in Conns /\ session'[x].st \in {"receive", "policy", "publish"}
  BY <1>1 DEF LeakInv
<1> QED
  BY <1>1, <1>2, <1>3 DEF LeakInv

\* A connection is accepted.
LEMMA LeakAccept ==
    ASSUME EnvelopeInv, LeakInv, NEW c \in Conns, Accept(c)
    PROVE  LeakInv'
<1>1. /\ session' = [session EXCEPT ![c].st = "open"] /\ session[c].st = "closed"
      /\ connections' = connections + 1 /\ connections < MaxConnections /\ staged' = staged
  BY DEF Accept
<1>2. /\ session' = [x \in Conns |-> session'[x]]
      /\ \A x \in Conns : x # c => session'[x] = session[x]
  BY <1>1 DEF LeakInv
<1>3. session'[c].st # "closed"
  <2>1. session[c] \in SessionStates
    BY ConnFacts
  <2>2. session'[c] = [session[c] EXCEPT !.st = "open"]
    BY <1>1 DEF LeakInv
  <2> QED
    BY <2>1, <2>2 DEF SessionStates
<1>4. OpenConns' = OpenConns \cup {c} /\ c \notin OpenConns
  BY <1>1, <1>2, <1>3 DEF OpenConns
<1>5. IsFiniteSet(OpenConns') /\ Cardinality(OpenConns') = Cardinality(OpenConns) + 1
  BY <1>4, FS_AddElement DEF LeakInv
<1>6. Cardinality(OpenConns) \in Nat
  BY FS_CardinalityType DEF LeakInv
<1>7. connections' = Cardinality(OpenConns') /\ connections' <= MaxConnections
  BY <1>1, <1>5, <1>6, LimitsAssumption DEF LeakInv
<1>8. \A x \in staged' : x \in Conns /\ session'[x].st \in {"receive", "policy", "publish"}
  BY <1>1, <1>2 DEF LeakInv
<1> QED
  BY <1>2, <1>5, <1>7, <1>8 DEF LeakInv

\* A connection ends.
LEMMA LeakClosed ==
    ASSUME LeakInv, NEW c \in Conns, closed(c), session[c].st # "closed",
           staged' = staged \ {c} \/ (staged' = staged /\ session[c].st = "open")
    PROVE  LeakInv'
<1>1. /\ session' = [session EXCEPT ![c] = newSession] /\ connections' = connections - 1
  BY DEF closed
<1>2. /\ session' = [x \in Conns |-> session'[x]] /\ session'[c].st = "closed"
      /\ \A x \in Conns : x # c => session'[x] = session[x]
  BY <1>1 DEF LeakInv, newSession
<1>3. OpenConns' = OpenConns \ {c} /\ c \in OpenConns
  BY <1>2 DEF OpenConns
<1>4. IsFiniteSet(OpenConns') /\ Cardinality(OpenConns') = Cardinality(OpenConns) - 1
  BY <1>3, FS_RemoveElement DEF LeakInv
<1>5. Cardinality(OpenConns) \in Nat
  BY FS_CardinalityType DEF LeakInv
<1>6. connections' = Cardinality(OpenConns') /\ connections' <= MaxConnections
  BY <1>1, <1>4, <1>5, LimitsAssumption DEF LeakInv
<1>7. \A x \in staged' : x \in Conns /\ session'[x].st \in {"receive", "policy", "publish"}
  BY <1>2 DEF LeakInv
<1> QED
  BY <1>2, <1>4, <1>6, <1>7 DEF LeakInv

\* Commands that the session stays open after, and their refusals.
LEMMA LeakCommands ==
    ASSUME EnvelopeInv, LeakInv, NEW c \in Conns, CommandNext(c), ~QUIT(c)
    PROVE  LeakInv'
<1> DEFINE s == session[c]
<1>1. s \in SessionStates /\ session = [session EXCEPT ![c] = s]
  BY ConnFacts
<1>2. s.st = "open" /\ connections' = connections /\ staged' = staged
  BY DEF CommandNext, EHLO, STARTTLS, MAIL, RCPT, DATA, RSET, Refuse, execute
<1>3. c \notin staged /\ staged' = staged \ {c}
  BY <1>2 DEF LeakInv
<1>4. PICK new : session' = [session EXCEPT ![c] = new] /\ new.st # "closed"
  <2>1. CASE Refuse(c)
    BY <1>1, <1>2, <2>1 DEF Refuse
  <2>2. CASE EHLO(c)
    <3>1. PICK helo : session' = [session EXCEPT ![c] = [s EXCEPT !.helo = helo, !.tx = noTransaction]]
      BY <2>2 DEF EHLO
    <3>2. [s EXCEPT !.helo = helo, !.tx = noTransaction].st = s.st
      BY <1>1 DEF SessionStates
    <3> QED
      BY <1>2, <3>1, <3>2
  <2>3. CASE STARTTLS(c)
    <3> DEFINE new == [s EXCEPT !.helo = 0, !.encrypted = TRUE, !.tx = noTransaction]
    <3>1. session' = [session EXCEPT ![c] = new]
      BY <2>3 DEF STARTTLS
    <3>2. new.st = s.st
      BY <1>1 DEF SessionStates
    <3> QED
      BY <1>2, <3>1, <3>2
  <2>4. CASE MAIL(c) \/ RSET(c)
    <3>1. PICK tx : session' = [session EXCEPT ![c] = [s EXCEPT !.tx = tx]]
      BY <2>4 DEF MAIL, RSET
    <3>2. [s EXCEPT !.tx = tx].st = s.st
      BY <1>1 DEF SessionStates
    <3> QED
      BY <1>2, <3>1, <3>2
  <2>5. CASE RCPT(c)
    <3> DEFINE new == [s EXCEPT !.tx.recipients = Append(@, next(c))]
    <3>1. session' = [session EXCEPT ![c] = new]
      BY <2>5 DEF RCPT
    <3>2. new.st = s.st
      BY <1>1 DEF SessionStates
    <3> QED
      BY <1>2, <3>1, <3>2
  <2>6. CASE DATA(c)
    <3> DEFINE new == [s EXCEPT !.st = "stage"]
    <3>1. session' = [session EXCEPT ![c] = new]
      BY <2>6 DEF DATA
    <3>2. new.st = "stage"
      BY <1>1 DEF SessionStates
    <3> QED
      BY <3>1, <3>2
  <2> QED
    BY <2>1, <2>2, <2>3, <2>4, <2>5, <2>6 DEF CommandNext
<1> HIDE DEF s
<1>5. new.st # "closed" /\ s.st # "closed"
  BY <1>2, <1>4
<1> QED
  BY <1>2, <1>3, <1>4, <1>5, LeakKept DEF s

\* The steps of a delivery that do not close the connection.
LEMMA LeakDelivery ==
    ASSUME EnvelopeInv, LeakInv, NEW c \in Conns, DeliveryNext(c), ~StageFails(c), ~PublishFails(c)
    PROVE  LeakInv'
<1> DEFINE s == session[c]
<1>1. s \in SessionStates
  BY ConnFacts
<1>2. s.st # "closed" /\ connections' = connections
  BY DEF DeliveryNext, Stage, StageDone, PolicyAccepts, PolicyRefuses, Publish
<1>3. CASE Stage(c) \/ StageDone(c) \/ PolicyAccepts(c)
  <2>1. /\ staged' \subseteq staged \cup {c}
        /\ \E st \in {"receive", "policy", "publish"} : session' = [session EXCEPT ![c].st = st]
    BY <1>3 DEF Stage, StageDone, PolicyAccepts
  <2>2. PICK st \in {"receive", "policy", "publish"} : session' = [session EXCEPT ![c].st = st]
    BY <2>1
  <2> DEFINE new == [s EXCEPT !.st = st]
  <2>3. session' = [session EXCEPT ![c] = new]
    BY <2>2
  <2>4. new.st = st
    BY <1>1 DEF SessionStates
  <2>5. new.st \in {"receive", "policy", "publish"} /\ new.st # "closed"
    BY <2>2, <2>4
  <2> HIDE DEF new, s
  <2> QED
    BY <1>2, <2>1, <2>3, <2>5, LeakKept DEF s
<1>4. CASE PolicyRefuses(c) \/ Publish(c)
  <2> DEFINE new == [s EXCEPT !.st = "open", !.tx = noTransaction]
  <2>1. session' = [session EXCEPT ![c] = new] /\ staged' = staged \ {c}
    BY <1>4 DEF PolicyRefuses, Publish
  <2>2. new.st = "open"
    BY <1>1 DEF SessionStates
  <2>3. new.st # "closed"
    BY <2>2
  <2> HIDE DEF new, s
  <2> QED
    BY <1>2, <2>1, <2>3, LeakKept DEF s
<1> QED
  BY <1>3, <1>4 DEF DeliveryNext

\* The invariant is true at first, and every step keeps it.
LEMMA LeakAlways == Spec => []LeakInv
<1>1. Init => LeakInv
  <2> SUFFICES ASSUME Init PROVE LeakInv
    OBVIOUS
  <2>1. OpenConns = {} /\ session = [c \in Conns |-> session[c]] /\ staged = {} /\ connections = 0
    BY DEF Init, OpenConns, newSession
  <2>2. IsFiniteSet(OpenConns) /\ Cardinality(OpenConns) = 0
    BY <2>1, FS_EmptySet
  <2> QED
    BY <2>1, <2>2, LimitsAssumption DEF LeakInv
<1>2. EnvelopeInv /\ LeakInv /\ [Next]_vars => LeakInv'
  <2> SUFFICES ASSUME EnvelopeInv, LeakInv, [Next]_vars PROVE LeakInv'
    OBVIOUS
  <2>1. CASE UNCHANGED vars
    BY <2>1 DEF vars, LeakInv, OpenConns
  <2>2. ASSUME NEW c \in Conns, CommandNext(c) PROVE LeakInv'
    <3>1. CASE QUIT(c)
      <4>1. closed(c) /\ session[c].st = "open" /\ staged' = staged
        BY <3>1 DEF QUIT, execute
      <4> QED
        BY <4>1, LeakClosed
    <3> QED
      BY <2>2, <3>1, LeakCommands
  <2>3. ASSUME NEW c \in Conns, DeliveryNext(c) PROVE LeakInv'
    <3>1. CASE StageFails(c) \/ PublishFails(c)
      <4>1. closed(c) /\ session[c].st # "closed" /\ staged' = staged \ {c}
        BY <3>1 DEF StageFails, PublishFails
      <4> QED
        BY <4>1, LeakClosed
    <3> QED
      BY <2>3, <3>1, LeakDelivery
  <2>4. ASSUME NEW c \in Conns, Accept(c) PROVE LeakInv'
    BY <2>4, LeakAccept
  <2>5. ASSUME NEW c \in Conns, Disconnect(c) PROVE LeakInv'
    <3>1. closed(c) /\ session[c].st = "open" /\ staged' = staged
      BY <2>5 DEF Disconnect
    <3> QED
      BY <3>1, LeakClosed
  <2>6. ASSUME NEW c \in Conns, NEW verb \in Verbs, Send(c, verb) PROVE LeakInv'
    BY <2>6 DEF Send, LeakInv, OpenConns
  <2> QED
    BY <2>1, <2>2, <2>3, <2>4, <2>5, <2>6 DEF Next
<1> QED
  BY <1>1, <1>2, EnvelopeAlways, PTL DEF Spec

\* Every way out of DATA gives up the reservation, and every way out of
\* serveConn gives one token back.
THEOREM LeakHolds == Spec => []NothingIsLeaked
<1>1. LeakInv => NothingIsLeaked
  BY DEF LeakInv, NothingIsLeaked, OpenConns
<1> QED
  BY <1>1, LeakAlways, PTL
=============================================================================
