----------------------------- MODULE StoreProofs ----------------------------
(***************************************************************************)
(* Theorems about Store, for any number of connections and sessions and    *)
(* any budget: type correctness and the sums the budget keeps; the daily   *)
(* budget, of which ChargeInv of Store is an inductive invariant as long   *)
(* as the clock is not set back between the two times Publish reads it;    *)
(* and the history of HEAD, which, whatever fails, crashes or is retried,  *)
(* is linear, in step with the memory of picomx, and keeps every message   *)
(* that was accepted until a session asks to delete it.                    *)
(***************************************************************************)
EXTENDS Store, MailboxProofs

(***************************************************************************)
(* Sums.  reservedBytes is the sum of what the connections have reserved.  *)
(* A sum over a set is a measure: a function on the subsets of Conns that  *)
(* is 0 on the empty set and grows by r[c] when c is added.                *)
(***************************************************************************)
IsMeasure(p, r) ==
    /\ p \in [SUBSET Conns -> Nat]
    /\ p[{}] = 0
    /\ \A S \in SUBSET Conns : \A c \in Conns \ S : p[S \cup {c}] = p[S] + r[c]

IsSum(r, total) == \E p \in [SUBSET Conns -> Nat] : IsMeasure(p, r) /\ p[Conns] = total

reservations == [c \in Conns |-> staged[c].reserved]

\* Nothing reserved adds up to nothing.
LEMMA SumOfNothing == IsSum([c \in Conns |-> 0], 0)
<1> DEFINE p == [S \in SUBSET Conns |-> 0]
<1>1. p \in [SUBSET Conns -> Nat]
  OBVIOUS
<1>2. IsMeasure(p, [c \in Conns |-> 0])
  BY <1>1 DEF IsMeasure
<1>3. p[Conns] = 0
  OBVIOUS
<1> QED
  BY <1>1, <1>2, <1>3 DEF IsSum

\* One connection's reservation is at most the sum.
LEMMA SumBound ==
    ASSUME NEW r \in [Conns -> Nat], NEW total, IsSum(r, total), NEW c \in Conns
    PROVE  total \in Nat /\ r[c] <= total
<1>1. PICK p \in [SUBSET Conns -> Nat] : IsMeasure(p, r) /\ p[Conns] = total
  BY DEF IsSum
<1> DEFINE R == Conns \ {c}
<1>2. R \in SUBSET Conns /\ c \in Conns \ R /\ R \cup {c} = Conns
  OBVIOUS
<1>3. p[Conns] = p[R] + r[c]
  BY <1>1, <1>2 DEF IsMeasure
<1>4. p[R] \in Nat /\ r[c] \in Nat /\ p[Conns] \in Nat
  BY <1>1, <1>2
<1> HIDE DEF R
<1> QED
  BY <1>1, <1>3, <1>4

\* When one connection's reservation changes, so does the sum.
LEMMA SumUpdate ==
    ASSUME NEW r \in [Conns -> Nat], NEW total, IsSum(r, total),
           NEW c \in Conns, NEW v \in Nat
    PROVE  IsSum([r EXCEPT ![c] = v], total - r[c] + v)
<1>1. PICK p \in [SUBSET Conns -> Nat] : IsMeasure(p, r) /\ p[Conns] = total
  BY DEF IsSum
<1> DEFINE q == [S \in SUBSET Conns |-> IF c \in S THEN p[S] - r[c] + v ELSE p[S]]
           s == [r EXCEPT ![c] = v]
<1>2. \A S \in SUBSET Conns : c \in S => p[S] >= r[c]
  <2> TAKE S \in SUBSET Conns
  <2> HAVE c \in S
  <2> DEFINE R == S \ {c}
  <2>1. R \in SUBSET Conns /\ c \in Conns \ R /\ R \cup {c} = S
    OBVIOUS
  <2>2. p[S] = p[R] + r[c]
    BY <1>1, <2>1 DEF IsMeasure
  <2>3. p[R] \in Nat /\ r[c] \in Nat
    BY <2>1
  <2> HIDE DEF R
  <2> QED
    BY <2>2, <2>3
<1>3. q \in [SUBSET Conns -> Nat]
  <2> SUFFICES ASSUME NEW S \in SUBSET Conns
               PROVE  (IF c \in S THEN p[S] - r[c] + v ELSE p[S]) \in Nat
    OBVIOUS
  <2>1. p[S] \in Nat /\ r[c] \in Nat
    OBVIOUS
  <2> QED
    BY <1>2, <2>1
<1>4. \A S \in SUBSET Conns : \A d \in Conns \ S : q[S \cup {d}] = q[S] + s[d]
  <2> TAKE S \in SUBSET Conns
  <2> TAKE d \in Conns \ S
  <2>1. S \cup {d} \in SUBSET Conns
    OBVIOUS
  <2>2. p[S \cup {d}] = p[S] + r[d] /\ p[S] \in Nat /\ r[d] \in Nat /\ r[c] \in Nat
    BY <1>1 DEF IsMeasure
  <2>3. CASE d = c
    BY <2>1, <2>2, <2>3
  <2>4. CASE d # c
    <3>1. s[d] = r[d]
      BY <2>4
    <3>2. c \in S <=> c \in S \cup {d}
      BY <2>4
    <3> QED
      BY <2>1, <2>2, <3>1, <3>2
  <2> QED
    BY <2>3, <2>4
<1>5. q[{}] = 0
  BY <1>1 DEF IsMeasure
<1>6. q[Conns] = total - r[c] + v
  BY <1>1
<1>7. IsMeasure(q, s)
  BY <1>3, <1>4, <1>5 DEF IsMeasure
<1> QED
  BY <1>3, <1>6, <1>7 DEF IsSum

(***************************************************************************)
(* Type correctness.  reservedBytes is a uint64 from which the code        *)
(* subtracts; that it never goes below zero needs that it is the sum of    *)
(* the reservations, and that a reservation is gone when its message is    *)
(* charged.                                                                *)
(***************************************************************************)
Committing == {"commit", "import", "landed", "skipped"}

PhaseInv ==
    /\ \A c \in Conns :
          (staged[c].st = "idle" \/ (txn.phase \in Committing /\ txn.who = c))
              => staged[c].reserved = 0
    /\ txn.phase = "sync" => receiptFile.Day \in Days

TypeInv ==
    /\ TypeOK
    /\ IsSum(reservations, reservedBytes)
    /\ PhaseInv

\* The history is a sequence that grows at its end.
LEMMA AppendFacts ==
    ASSUME NEW q, NEW x, q \in Seq(ToSet(q))
    PROVE  /\ Append(q, x) \in Seq(ToSet(Append(q, x)))
           /\ Len(q) \in Nat
           /\ Len(Append(q, x)) = Len(q) + 1
           /\ \A i \in 1 .. Len(q) : Append(q, x)[i] = q[i]
           /\ Append(q, x)[Len(q) + 1] = x
<1> DEFINE T == ToSet(q) \cup {x}
<1>1. q \in Seq(T) /\ x \in T
  OBVIOUS
<1>2. /\ Len(q) \in Nat
      /\ Append(q, x) \in Seq(T)
      /\ Len(Append(q, x)) = Len(q) + 1
      /\ \A i \in 1 .. Len(q) : Append(q, x)[i] = q[i]
      /\ Append(q, x)[Len(q) + 1] = x
  <2> HIDE DEF T
  <2> QED
    BY <1>1
<1>3. DOMAIN Append(q, x) = 1 .. Len(q) + 1
  BY <1>2
<1>4. \A i \in 1 .. Len(q) + 1 : Append(q, x)[i] \in ToSet(Append(q, x))
  BY <1>3 DEF ToSet
<1>5. Append(q, x) \in Seq(ToSet(Append(q, x)))
  BY <1>2, <1>3, <1>4
<1> QED
  BY <1>2, <1>5

\* The reservations follow an update of one staged message.
LEMMA ReservationUpdate ==
    ASSUME TypeOK, IsSum(reservations, reservedBytes), NEW c \in Conns, NEW v \in Nat,
           staged' \in [Conns -> StagedMessages],
           \A d \in Conns : staged'[d].reserved = IF d = c THEN v ELSE staged[d].reserved,
           reservedBytes' = reservedBytes - staged[c].reserved + v
    PROVE  /\ IsSum(reservations, reservedBytes)'
           /\ reservedBytes' \in Nat
           /\ staged[c].reserved <= reservedBytes
<1>1. reservations \in [Conns -> Nat]
  BY DEF TypeOK, reservations, StagedMessages
<1>2. reservations' = [reservations EXCEPT ![c] = v]
  BY DEF reservations
<1>3. reservations[c] = staged[c].reserved
  BY DEF reservations
<1>4. IsSum([reservations EXCEPT ![c] = v], reservedBytes - reservations[c] + v)
  BY <1>1, SumUpdate
<1>5. reservations[c] <= reservedBytes /\ reservedBytes \in Nat /\ reservations[c] \in Nat
  BY <1>1, SumBound
<1>6. IsSum(reservations', reservedBytes')
  BY <1>2, <1>3, <1>4
<1>7. IsSum(reservations, reservedBytes)'
  BY <1>6
<1> QED
  BY <1>3, <1>5, <1>7

LEMMA TypeInvInit == Init => TypeInv
<1> SUFFICES ASSUME Init PROVE TypeInv
  OBVIOUS
<1> USE DEF Init
<1>1. Len(Imported) \in 0 .. MaxID /\ MaxID \in Nat
  BY ImportedAssumption, MaxIDAssumption
<1>2. commits \in Seq(ToSet(commits)) /\ head = 1 /\ commits[1].state.LastID = Len(Imported)
  BY DEF head, ToSet, initialState
<1>3. Days = 0 .. MaxDay /\ 0 \in Days /\ MaxDay \in Nat /\ MaxOutside \in Nat
  BY BudgetAssumption DEF Days
<1>4. validTransaction(NoTransaction)
  BY <1>1, <1>2, <1>3 DEF validTransaction, NoTransaction, Phases, emptyMailboxState
<1>5. TypeOK
  <2>1. NoReceipt \in Receipts
    BY DEF NoReceipt, Receipts
  <2>2. NoMessageStaged \in StagedMessages
    BY DEF NoMessageStaged, StagedMessages
  <2>3. published \in [Days -> Nat]
    OBVIOUS
  <2>4. NoTransaction.phase = "none"
    BY DEF NoTransaction
  <2>5. state.LastID = Len(Imported)
    BY DEF initialState
  <2>6. \A i \in 1 .. head : commits[i].state.LastID \in 0 .. MaxID
    BY <1>1, <1>2
  <2>7. up \in BOOLEAN /\ failure \in BOOLEAN
    OBVIOUS
  <2>8. headID \in 0 .. head /\ headID # 0
    BY <1>2
  <2>9. staged \in [Conns -> StagedMessages]
    BY <2>2
  <2>10. /\ receiptFile = NoReceipt /\ receiptSynced = NoReceipt /\ receipt = NoReceipt
         /\ txn = NoTransaction /\ orphan = NoTransaction /\ importer = "running"
         /\ reservedBytes = 0 /\ day = 0 /\ outside = 0
    OBVIOUS
  <2> HIDE DEF Init
  <2> QED
    BY <1>1, <1>2, <1>3, <1>4, <2>1, <2>3, <2>4, <2>5, <2>6, <2>7, <2>8, <2>9, <2>10
       DEF TypeOK
<1>6. reservations = [c \in Conns |-> 0]
  BY DEF reservations, NoMessageStaged
<1>7. IsSum(reservations, reservedBytes)
  BY <1>6, SumOfNothing
<1>8. PhaseInv
  BY DEF PhaseInv, NoMessageStaged, NoTransaction
<1> QED
  BY <1>5, <1>7, <1>8 DEF TypeInv

\* Steps that leave every reservation alone keep the sum.
LEMMA ReservationsSame ==
    ASSUME IsSum(reservations, reservedBytes), reservedBytes' = reservedBytes,
           \A c \in Conns : staged'[c].reserved = staged[c].reserved
    PROVE  IsSum(reservations, reservedBytes)'
<1>1. reservations' = reservations
  BY DEF reservations
<1> QED
  BY <1>1

\* The steps of a connection before Publish takes mu for a transaction.
LEMMA StagingType ==
    ASSUME TypeInv, NEW c \in Conns,
           \/ Stage(c)
           \/ \E n \in 1 .. MaxMessage : QuotaRead(c, n)
           \/ StageDone(c)
           \/ Discard(c)
    PROVE  TypeInv'
<1> USE DEF disk, memory, calls, clients
<1>1. /\ TypeOK /\ IsSum(reservations, reservedBytes) /\ PhaseInv
      /\ staged \in [Conns -> StagedMessages]
      /\ minimumReceiptCharge \in Nat /\ MaxMessage \in Nat
  BY BudgetAssumption DEF TypeInv, TypeOK, StagedMessages
<1>2. reservedBytes \in Nat /\ staged[c].reserved \in Nat /\ staged[c].size \in Nat
  BY <1>1 DEF TypeOK, StagedMessages
<1>3. ASSUME NEW m \in StagedMessages, m.st = "idle" => m.reserved = 0, muFree,
             staged' = [staged EXCEPT ![c] = m],
             reservedBytes' = reservedBytes - staged[c].reserved + m.reserved,
             UNCHANGED <<disk, up, state, headID, failure, importer, receipt, txn, day,
                         outside, clients, published>>
      PROVE  TypeInv'
  <2>1. staged' \in [Conns -> StagedMessages] /\ m.reserved \in Nat
    BY <1>1, <1>3 DEF StagedMessages
  <2>2. \A d \in Conns : staged'[d] = IF d = c THEN m ELSE staged[d]
    BY <1>1, <1>3
  <2>3. IsSum(reservations, reservedBytes)' /\ reservedBytes' \in Nat
    BY <1>1, <1>3, <2>1, <2>2, ReservationUpdate DEF StagedMessages
  <2>4. TypeOK'
    BY <1>1, <1>3, <2>1, <2>3 DEF TypeOK, validTransaction, head, StagedMessages
  <2>5. PhaseInv'
    BY <1>1, <1>3, <2>2 DEF PhaseInv, muFree, Committing
  <2> QED
    BY <2>3, <2>4, <2>5 DEF TypeInv
<1>4. CASE Stage(c)
  <2> DEFINE m == [st |-> "staging", reserved |-> minimumReceiptCharge, size |-> 0]
  <2>1. m \in StagedMessages
    BY <1>1 DEF StagedMessages
  <2>2. reservedBytes' = reservedBytes - staged[c].reserved + m.reserved
    BY <1>1, <1>2, <1>4 DEF Stage, PhaseInv
  <2> QED
    BY <1>3, <1>4, <2>1, <2>2 DEF Stage
<1>5. ASSUME NEW n \in 1 .. MaxMessage, QuotaRead(c, n) PROVE TypeInv'
  <2> DEFINE m == [st |-> "staging", reserved |-> chargeOf(staged[c].size + n),
                   size |-> staged[c].size + n]
  <2>1. m \in StagedMessages
    BY <1>1, <1>2 DEF StagedMessages, chargeOf
  <2>2. reservedBytes' = reservedBytes - staged[c].reserved + m.reserved
    BY <1>1, <1>2, <1>5 DEF QuotaRead, chargeOf
  <2> QED
    BY <1>3, <1>5, <2>1, <2>2 DEF QuotaRead
<1>6. CASE StageDone(c)
  <2>1. /\ staged' \in [Conns -> StagedMessages]
        /\ \A d \in Conns : staged'[d].reserved = staged[d].reserved
        /\ \A d \in Conns : staged'[d].st = "idle" => staged[d].st = "idle"
    BY <1>1, <1>6 DEF StageDone, StagedMessages
  <2>2. TypeOK'
    BY <1>1, <1>6, <2>1 DEF StageDone, TypeOK, validTransaction, head, StagedMessages
  <2>3. IsSum(reservations, reservedBytes)'
    BY <1>1, <1>6, <2>1, ReservationsSame DEF StageDone
  <2>4. PhaseInv'
    BY <1>1, <1>6, <2>1 DEF StageDone, PhaseInv
  <2> QED
    BY <2>2, <2>3, <2>4 DEF TypeInv
<1>7. CASE Discard(c)
  <2>1. NoMessageStaged \in StagedMessages /\ NoMessageStaged.reserved = 0
    BY DEF StagedMessages, NoMessageStaged
  <2>2. reservedBytes' = reservedBytes - staged[c].reserved + NoMessageStaged.reserved
    BY <1>2, <1>7, <2>1 DEF Discard
  <2> QED
    BY <1>3, <1>7, <2>1, <2>2 DEF Discard
<1> QED
  BY <1>4, <1>5, <1>6, <1>7

LEMMA NoTransactionType == ASSUME TypeOK PROVE validTransaction(NoTransaction)
<1>1. head \in Nat
  BY DEF TypeOK, head
<1>2. 0 \in Days /\ 0 \in 0 .. MaxID /\ 0 \in 0 .. head
  BY <1>1, MaxIDAssumption, BudgetAssumption DEF Days
<1> QED
  BY <1>2 DEF validTransaction, NoTransaction, Phases, emptyMailboxState

\* The steps of Publish up to the commit.
LEMMA PublishType ==
    ASSUME TypeInv, NEW c \in Conns,
           PublishStart(c) \/ WriteReceipt(c) \/ SyncReceipt(c) \/ ReceiptFails(c)
    PROVE  TypeInv'
<1> USE DEF disk, memory, calls, clients
<1>1. /\ TypeOK /\ IsSum(reservations, reservedBytes) /\ PhaseInv
      /\ staged \in [Conns -> StagedMessages] /\ staged[c] \in StagedMessages
      /\ 0 \in Days
  BY BudgetAssumption DEF TypeInv, TypeOK, Days
<1>2. ASSUME NEW st \in {"staged", "publishing"}, staged' = [staged EXCEPT ![c].st = st],
             reservedBytes' = reservedBytes, txn'.phase \in {"none", "charge"}
      PROVE  /\ staged' \in [Conns -> StagedMessages]
             /\ IsSum(reservations, reservedBytes)'
             /\ PhaseInv'
  <2>1. /\ staged' \in [Conns -> StagedMessages]
        /\ \A d \in Conns : staged'[d].reserved = staged[d].reserved
        /\ \A d \in Conns : staged'[d].st = "idle" => staged[d].st = "idle"
    BY <1>1, <1>2 DEF StagedMessages
  <2>2. IsSum(reservations, reservedBytes)'
    BY <1>1, <1>2, <2>1, ReservationsSame
  <2>3. PhaseInv'
    BY <1>1, <1>2, <2>1 DEF PhaseInv, Committing
  <2> QED
    BY <2>1, <2>2, <2>3
<1>3. CASE PublishStart(c)
  <2>1. /\ txn'.phase = "charge" /\ txn'.parent = headID /\ txn'.Day = 0 /\ txn'.bytes = 0
        /\ txn'.state = publishState(state, staged[c].size)
        /\ DOMAIN txn' = DOMAIN NoTransaction
    BY <1>3 DEF PublishStart, NoTransaction
  <2>2. publishState(state, staged[c].size).LastID \in 0 .. MaxID
    <3>1. state.LastID \in 0 .. MaxID /\ state.LastID # MaxID
      BY <1>1, <1>3 DEF PublishStart, canPublish, TypeOK
    <3> QED
      BY <3>1, MaxIDAssumption DEF publishState
  <2>3. validTransaction(txn)'
    <3>1. headID \in 0 .. head
      BY <1>1 DEF TypeOK
    <3>2. head' = head
      BY <1>3 DEF PublishStart, head
    <3> QED
      BY <1>1, <2>1, <2>2, <3>1, <3>2 DEF validTransaction, Phases
  <2>4. /\ staged' \in [Conns -> StagedMessages]
        /\ IsSum(reservations, reservedBytes)'
        /\ PhaseInv'
    BY <1>2, <1>3, <2>1 DEF PublishStart
  <2>5. TypeOK'
    BY <1>1, <1>3, <2>1, <2>3, <2>4 DEF PublishStart, TypeOK, validTransaction, head
  <2> QED
    BY <2>4, <2>5 DEF TypeInv
<1>4. CASE WriteReceipt(c)
  <2>1. /\ DOMAIN txn' = DOMAIN txn /\ txn'.phase = "sync" /\ txn'.parent = txn.parent
        /\ txn'.state = txn.state /\ txn'.Day = txn.Day /\ txn'.bytes = txn.bytes
    BY <1>1, <1>4 DEF WriteReceipt, TypeOK, validTransaction, NoTransaction
  <2>2. receiptUsage \in Receipts
    BY <1>1 DEF receiptUsage, TypeOK, Receipts
  <2>3. receiptFile' \in Receipts
    BY <1>1, <1>4, <2>2 DEF WriteReceipt, Receipts, StagedMessages
  <2>4. TypeOK'
    BY <1>1, <1>4, <2>1, <2>3 DEF WriteReceipt, TypeOK, validTransaction, head, Phases
  <2>5. IsSum(reservations, reservedBytes)'
    BY <1>1, <1>4, ReservationsSame DEF WriteReceipt
  <2>6. receiptFile'.Day \in Days
    BY <1>1, <1>4 DEF WriteReceipt, receiptUsage, TypeOK, Receipts, Days
  <2>7. PhaseInv'
    BY <1>1, <1>4, <2>1, <2>6 DEF WriteReceipt, PhaseInv, Committing
  <2> QED
    BY <2>4, <2>5, <2>7 DEF TypeInv
<1>5. CASE SyncReceipt(c)
  <2>1. /\ DOMAIN txn' = DOMAIN txn /\ txn'.phase = "commit" /\ txn'.parent = txn.parent
        /\ txn'.state = txn.state /\ txn'.Day = receiptFile.Day
        /\ txn'.bytes = staged[c].reserved /\ txn'.who = c
    BY <1>1, <1>5 DEF SyncReceipt, TypeOK, validTransaction, NoTransaction
  <2>2. /\ \A d \in Conns : staged'[d].reserved = IF d = c THEN 0 ELSE staged[d].reserved
        /\ staged' \in [Conns -> StagedMessages]
    BY <1>1, <1>5 DEF SyncReceipt, StagedMessages
  <2>3. reservedBytes' = reservedBytes - staged[c].reserved + 0
    BY <1>1, <1>5 DEF SyncReceipt, TypeOK, StagedMessages
  <2>4. IsSum(reservations, reservedBytes)' /\ reservedBytes' \in Nat
    BY <1>1, <2>2, <2>3, ReservationUpdate
  <2>5. validTransaction(txn)'
    BY <1>1, <1>5, <2>1
       DEF SyncReceipt, TypeOK, validTransaction, head, Phases, PhaseInv, StagedMessages
  <2>6. TypeOK'
    BY <1>1, <1>5, <2>1, <2>2, <2>4, <2>5 DEF SyncReceipt, TypeOK, validTransaction, head
  <2>7. PhaseInv'
    BY <1>1, <1>5, <2>1, <2>2 DEF SyncReceipt, PhaseInv, StagedMessages
  <2> QED
    BY <2>4, <2>6, <2>7 DEF TypeInv
<1>6. CASE ReceiptFails(c)
  <2>1. txn' = NoTransaction /\ NoTransaction.phase = "none"
    BY <1>6 DEF ReceiptFails, NoTransaction
  <2>2. /\ staged' \in [Conns -> StagedMessages]
        /\ IsSum(reservations, reservedBytes)'
        /\ PhaseInv'
    BY <1>2, <1>6, <2>1 DEF ReceiptFails
  <2>3. validTransaction(NoTransaction)'
    BY <1>1, <1>6, NoTransactionType DEF ReceiptFails, validTransaction, head
  <2>4. TypeOK'
    BY <1>1, <1>6, <2>1, <2>2, <2>3 DEF ReceiptFails, TypeOK, validTransaction, head
  <2> QED
    BY <2>2, <2>4 DEF TypeInv
<1> QED
  BY <1>3, <1>4, <1>5, <1>6

\* A commit at the end of the history leaves the others as they are.
LEMMA HistoryGrows ==
    ASSUME TypeOK, NEW commit, fastForward(commit), commit.state.LastID \in 0 .. MaxID
    PROVE  /\ commits' \in Seq(ToSet(commits'))
           /\ head \in Nat /\ head' = head + 1
           /\ \A i \in 1 .. head' : commits'[i].state.LastID \in 0 .. MaxID
           /\ \A i \in 1 .. head : commits'[i] = commits[i]
<1>1. commits \in Seq(ToSet(commits)) /\ commits' = Append(commits, commit)
  BY DEF TypeOK, fastForward
<1>2. /\ commits' \in Seq(ToSet(commits'))
      /\ Len(commits) \in Nat
      /\ Len(commits') = Len(commits) + 1
      /\ \A i \in 1 .. Len(commits) : commits'[i] = commits[i]
      /\ commits'[Len(commits) + 1] = commit
  BY <1>1, AppendFacts
<1>3. \A i \in 1 .. Len(commits) + 1 : i \in 1 .. Len(commits) \/ i = Len(commits) + 1
  BY <1>2
<1> QED
  BY <1>2, <1>3 DEF TypeOK, head

\* The return from a call that held the transaction.
LEMMA ReturnType ==
    ASSUME TypeInv, returned, txn.phase \in Committing, reservedBytes' = reservedBytes
    PROVE  /\ staged' \in [Conns -> StagedMessages]
           /\ txn' = NoTransaction /\ txn'.phase = "none"
           /\ IsSum(reservations, reservedBytes)'
           /\ PhaseInv'
<1>1. TypeOK /\ IsSum(reservations, reservedBytes) /\ PhaseInv
      /\ staged \in [Conns -> StagedMessages]
  BY DEF TypeInv, TypeOK
<1>2. txn' = NoTransaction /\ txn'.phase = "none"
  BY DEF returned, NoTransaction
<1>3. /\ staged' \in [Conns -> StagedMessages]
      /\ \A c \in Conns : staged'[c] = IF c = txn.who THEN NoMessageStaged ELSE staged[c]
  BY <1>1 DEF returned, StagedMessages, NoMessageStaged
<1>4. \A c \in Conns : staged'[c].reserved = staged[c].reserved
  BY <1>1, <1>3 DEF PhaseInv, NoMessageStaged
<1>5. IsSum(reservations, reservedBytes)'
  BY <1>1, <1>4, ReservationsSame
<1>6. PhaseInv'
  BY <1>1, <1>2, <1>3 DEF PhaseInv, NoMessageStaged, Committing
<1> QED
  BY <1>2, <1>3, <1>5, <1>6

\* The steps of commitChanges.
LEMMA CommitType ==
    ASSUME TypeInv, CommitNext
    PROVE  TypeInv'
<1> USE DEF disk, memory, calls, clients
<1>1. /\ TypeOK /\ IsSum(reservations, reservedBytes) /\ PhaseInv
      /\ staged \in [Conns -> StagedMessages]
      /\ validTransaction(NoTransaction)
  BY NoTransactionType DEF TypeInv, TypeOK
<1>2. ASSUME NEW phase \in Committing, txn' = [txn EXCEPT !.phase = phase],
             txn.phase \in Committing, UNCHANGED <<staged, reservedBytes>>
      PROVE  /\ DOMAIN txn' = DOMAIN txn /\ txn'.phase = phase /\ txn'.parent = txn.parent
             /\ txn'.state = txn.state /\ txn'.Day = txn.Day /\ txn'.bytes = txn.bytes
             /\ IsSum(reservations, reservedBytes)'
             /\ PhaseInv'
  <2>1. /\ DOMAIN txn' = DOMAIN txn /\ txn'.phase = phase /\ txn'.parent = txn.parent
        /\ txn'.state = txn.state /\ txn'.Day = txn.Day /\ txn'.bytes = txn.bytes
        /\ txn'.who = txn.who
    BY <1>1, <1>2 DEF TypeOK, validTransaction, NoTransaction
  <2>2. IsSum(reservations, reservedBytes)'
    BY <1>1, <1>2, ReservationsSame
  <2>3. PhaseInv'
    BY <1>1, <1>2, <2>1 DEF PhaseInv, Committing
  <2> QED
    BY <2>1, <2>2, <2>3
<1>3. CASE StartImport
  <2>1. /\ DOMAIN txn' = DOMAIN txn /\ txn'.phase = "import" /\ txn'.parent = txn.parent
        /\ txn'.state = txn.state /\ txn'.Day = txn.Day /\ txn'.bytes = txn.bytes
        /\ IsSum(reservations, reservedBytes)' /\ PhaseInv'
    BY <1>2, <1>3 DEF StartImport, Committing
  <2>2. TypeOK'
    BY <1>1, <1>3, <2>1 DEF StartImport, TypeOK, validTransaction, head, Phases
  <2> QED
    BY <2>1, <2>2 DEF TypeInv
<1>4. CASE RefuseCommit
  <2>1. /\ staged' \in [Conns -> StagedMessages]
        /\ txn' = NoTransaction /\ txn'.phase = "none"
        /\ IsSum(reservations, reservedBytes)' /\ PhaseInv'
    BY <1>4, ReturnType DEF RefuseCommit, Committing
  <2>2. TypeOK'
    BY <1>1, <1>4, <2>1 DEF RefuseCommit, TypeOK, validTransaction, head
  <2> QED
    BY <2>1, <2>2 DEF TypeInv
<1>5. CASE Checkpoint
  <2>1. /\ DOMAIN txn' = DOMAIN txn /\ txn'.phase = "landed" /\ txn'.parent = txn.parent
        /\ txn'.state = txn.state /\ txn'.Day = txn.Day /\ txn'.bytes = txn.bytes
        /\ IsSum(reservations, reservedBytes)' /\ PhaseInv'
    BY <1>2, <1>5 DEF Checkpoint, Committing
  <2>2. commitOf(txn).state.LastID \in 0 .. MaxID
    BY <1>1 DEF commitOf, TypeOK, validTransaction
  <2>3. /\ commits' \in Seq(ToSet(commits'))
        /\ head \in Nat /\ head' = head + 1
        /\ \A i \in 1 .. head' : commits'[i].state.LastID \in 0 .. MaxID
    BY <1>1, <1>5, <2>2, HistoryGrows DEF Checkpoint
  <2>4. published' \in [Days -> Nat]
    <3>1. txn.Day \in Days /\ txn.bytes \in Nat /\ published \in [Days -> Nat]
      BY <1>1 DEF TypeOK, validTransaction
    <3>2. published' = [published EXCEPT ![txn.Day] = @ + txn.bytes]
      BY <1>5 DEF Checkpoint
    <3>3. published[txn.Day] + txn.bytes \in Nat
      BY <3>1
    <3> QED
      BY <3>1, <3>2, <3>3
  <2>5. validTransaction(orphan)' /\ validTransaction(txn)'
    <3>1. orphan' = orphan
      BY <1>5 DEF Checkpoint
    <3>2. \A n \in 0 .. head : n \in 0 .. head'
      BY <2>3
    <3>3. orphan.parent \in 0 .. head' /\ txn.parent \in 0 .. head'
      BY <1>1, <3>2 DEF TypeOK, validTransaction
    <3>4. validTransaction(orphan)'
      BY <1>1, <3>1, <3>3 DEF TypeOK, validTransaction
    <3>5. validTransaction(txn)'
      BY <1>1, <2>1, <3>3 DEF TypeOK, validTransaction, Phases
    <3> QED
      BY <3>4, <3>5
  <2>6. headID' \in 0 .. head' /\ (up' => headID' # 0) /\ head' > 0
    BY <1>1, <1>5, <2>3 DEF Checkpoint, TypeOK
  <2>7. txn'.phase # "none" => up' /\ txn'.parent # 0
    BY <1>1, <1>5, <2>1 DEF Checkpoint, TypeOK
  <2>8. UNCHANGED <<receiptFile, receiptSynced, receipt, up, failure, state, importer,
                   reservedBytes, staged, day, outside>>
    BY <1>5 DEF Checkpoint
  <2>9. TypeOK'
    BY <1>1, <2>3, <2>4, <2>5, <2>6, <2>7, <2>8 DEF TypeOK
  <2> QED
    BY <2>1, <2>9 DEF TypeInv
<1>6. CASE CheckpointSkipped
  <2>1. /\ DOMAIN txn' = DOMAIN txn /\ txn'.phase = "skipped" /\ txn'.parent = txn.parent
        /\ txn'.state = txn.state /\ txn'.Day = txn.Day /\ txn'.bytes = txn.bytes
        /\ IsSum(reservations, reservedBytes)' /\ PhaseInv'
    BY <1>2, <1>6 DEF CheckpointSkipped, Committing
  <2>2. TypeOK'
    BY <1>1, <1>6, <2>1 DEF CheckpointSkipped, TypeOK, validTransaction, head, Phases
  <2> QED
    BY <2>1, <2>2 DEF TypeInv
<1>7. CASE CommitDone
  <2>1. /\ staged' \in [Conns -> StagedMessages]
        /\ txn' = NoTransaction /\ txn'.phase = "none"
        /\ IsSum(reservations, reservedBytes)' /\ PhaseInv'
    BY <1>7, ReturnType DEF CommitDone, verified, Committing
  <2>2. headID' = head /\ head \in Nat /\ head > 0
    BY <1>1, <1>7 DEF CommitDone, TypeOK, head
  <2>3. /\ UNCHANGED <<commits, receiptFile, receiptSynced, orphan, up, failure, importer,
                       receipt, reservedBytes, day, outside, published>>
        /\ state' = txn.state /\ head' = head
    BY <1>7 DEF CommitDone, head
  <2>4. /\ validTransaction(orphan)' /\ validTransaction(txn)'
        /\ state'.LastID \in 0 .. MaxID
    BY <1>1, <2>1, <2>3 DEF TypeOK, validTransaction
  <2>5. TypeOK'
    BY <1>1, <2>1, <2>2, <2>3, <2>4 DEF TypeOK
  <2> QED
    BY <2>1, <2>5 DEF TypeInv
<1>8. CASE ImportFails
  <2>1. /\ staged' \in [Conns -> StagedMessages]
        /\ txn' = NoTransaction /\ txn'.phase = "none"
        /\ IsSum(reservations, reservedBytes)' /\ PhaseInv'
    BY <1>8, ReturnType DEF ImportFails, Committing
  <2>2. headID' \in 0 .. head /\ headID' # 0
    BY <1>1, <1>8 DEF ImportFails, TypeOK, head
  <2>3. TypeOK'
    BY <1>1, <1>8, <2>1, <2>2 DEF ImportFails, TypeOK, validTransaction, head
  <2> QED
    BY <2>1, <2>3 DEF TypeInv
<1> QED
  BY <1>3, <1>4, <1>5, <1>6, <1>7, <1>8 DEF CommitNext

\* Steps that leave the transaction, the history and the reservations alone.
LEMMA QuietType ==
    ASSUME TypeInv,
           UNCHANGED <<commits, receiptFile, receiptSynced, orphan, up, state, headID,
                       receipt, reservedBytes, staged, txn, published>>,
           importer' \in {"none", "running", "refused"}, failure' \in BOOLEAN,
           day' \in Days, outside' \in 0 .. MaxOutside
    PROVE  TypeInv'
<1>1. TypeOK /\ IsSum(reservations, reservedBytes) /\ PhaseInv
  BY DEF TypeInv
<1>2. TypeOK'
  <2>1. head' = head
    BY DEF head
  <2>2. validTransaction(orphan)' /\ validTransaction(txn)'
    BY <1>1, <2>1 DEF TypeOK, validTransaction
  <2> QED
    BY <1>1, <2>1, <2>2 DEF TypeOK
<1>3. IsSum(reservations, reservedBytes)'
  BY <1>1, ReservationsSame
<1>4. PhaseInv'
  BY <1>1 DEF PhaseInv
<1> QED
  BY <1>2, <1>3, <1>4 DEF TypeInv

\* The steps of DeleteAs.
LEMMA SessionType ==
    ASSUME TypeInv, NEW s \in Sessions, SessionNext(s)
    PROVE  TypeInv'
<1> USE DEF disk, memory, calls, clients
<1>1. TypeOK /\ IsSum(reservations, reservedBytes) /\ PhaseInv
  BY DEF TypeInv
<1>2. /\ importer \in {"none", "running", "refused"} /\ failure \in BOOLEAN
      /\ day \in Days /\ outside \in 0 .. MaxOutside
  BY <1>1 DEF TypeOK
<1>3. ASSUME NEW ids \in Requests, DeleteAs(s, ids) PROVE TypeInv'
  BY <1>2, <1>3, QuietType DEF DeleteAs
<1>4. CASE Snapshot(s)
  BY <1>2, <1>4, QuietType DEF Snapshot
<1>5. CASE Resolve(s)
  BY <1>2, <1>5, QuietType DEF Resolve
<1>6. CASE ResolveFails(s)
  BY <1>2, <1>6, QuietType DEF ResolveFails
<1>7. CASE Retry(s)
  BY <1>2, <1>7, QuietType DEF Retry
<1>8. CASE DeleteNothing(s)
  BY <1>2, <1>8, QuietType DEF DeleteNothing
<1>9. CASE DeleteRefused(s)
  BY <1>2, <1>9, QuietType DEF DeleteRefused
<1>10. CASE DeleteStart(s)
  <2>1. /\ txn'.phase = "commit" /\ txn'.who = s /\ txn'.parent = headID
        /\ txn'.Day = 0 /\ txn'.bytes = 0
        /\ txn'.state = deleteState(state, deletion[s].messages)
        /\ DOMAIN txn' = DOMAIN NoTransaction
    BY <1>10 DEF DeleteStart, NoTransaction
  <2>2. txn'.state.LastID = state.LastID
    BY <2>1 DEF deleteState
  <2>3. 0 \in Days /\ up /\ headID # 0
    BY <1>1, <1>10, BudgetAssumption DEF Days, DeleteStart, TypeOK
  <2>4. validTransaction(txn)'
    <3>1. headID \in 0 .. head /\ state.LastID \in 0 .. MaxID
      BY <1>1 DEF TypeOK
    <3>2. head' = head
      BY <1>10 DEF DeleteStart, head
    <3> QED
      BY <2>1, <2>2, <2>3, <3>1, <3>2 DEF validTransaction, Phases
  <2>5. TypeOK'
    BY <1>1, <1>10, <2>1, <2>3, <2>4 DEF DeleteStart, TypeOK, validTransaction, head
  <2>6. IsSum(reservations, reservedBytes)'
    BY <1>1, <1>10, ReservationsSame DEF DeleteStart
  <2>7. s \notin Conns
    BY ConnsAssumption
  <2>8. PhaseInv'
    BY <1>1, <1>10, <2>1, <2>7 DEF DeleteStart, PhaseInv
  <2> QED
    BY <2>5, <2>6, <2>8 DEF TypeInv
<1> QED
  BY <1>3, <1>4, <1>5, <1>6, <1>7, <1>8, <1>9, <1>10 DEF SessionNext

\* What is left of a transaction after a crash is a transaction.
LEMMA LeftoversType ==
    ASSUME TypeOK, NEW t \in leftovers
    PROVE  /\ validTransaction(t)
           /\ \/ t = NoTransaction
              \/ /\ txn.phase \in {"import", "skipped"}
                 /\ t.Day = txn.Day /\ t.bytes = txn.bytes
<1>1. validTransaction(NoTransaction) /\ validTransaction(txn)
  BY NoTransactionType DEF TypeOK
<1>2. CASE txn.phase # "import"
  BY <1>1, <1>2 DEF leftovers
<1>3. CASE txn.phase = "import"
  <2>1. txn.parent \in 1 .. head
    BY <1>3 DEF TypeOK, validTransaction
  <2>2. commits[txn.parent].state.LastID \in 0 .. MaxID
    BY <2>1 DEF TypeOK
  <2>3. ASSUME NEW read, t = [txn EXCEPT !.changes = {}, !.removals = read]
        PROVE  validTransaction(t) /\ t.Day = txn.Day /\ t.bytes = txn.bytes
    BY <1>1, <2>3 DEF validTransaction, NoTransaction
  <2>4. ASSUME NEW read,
               t = [txn EXCEPT !.state = commits[txn.parent].state, !.changes = read,
                               !.removals = {}]
        PROVE  validTransaction(t) /\ t.Day = txn.Day /\ t.bytes = txn.bytes
    <3>1. /\ DOMAIN t = DOMAIN txn /\ t.phase = txn.phase /\ t.parent = txn.parent
          /\ t.state = commits[txn.parent].state /\ t.Day = txn.Day /\ t.bytes = txn.bytes
      BY <1>1, <2>4 DEF validTransaction, NoTransaction
    <3> QED
      BY <1>1, <2>2, <3>1 DEF validTransaction
  <2>5. \/ t = NoTransaction \/ t = txn
        \/ \E read : t = [txn EXCEPT !.changes = {}, !.removals = read]
        \/ \E read : t = [txn EXCEPT !.state = commits[txn.parent].state, !.changes = read,
                                     !.removals = {}]
    BY <1>3 DEF leftovers
  <2> QED
    BY <1>1, <1>3, <2>3, <2>4, <2>5
<1> QED
  BY <1>2, <1>3

LEMMA CrashType ==
    ASSUME TypeInv, Crash
    PROVE  TypeInv'
<1> USE DEF disk, memory, calls, clients
<1>1. TypeOK /\ validTransaction(NoTransaction)
  BY NoTransactionType DEF TypeInv
<1>2. validTransaction(orphan') /\ commits' = commits
  BY <1>1, LeftoversType DEF Crash, TypeOK
<1>3. validTransaction(orphan)' /\ validTransaction(txn)' /\ txn'.phase = "none"
  BY <1>1, <1>2 DEF Crash, validTransaction, head, NoTransaction
<1>4. receiptFile' \in Receipts /\ receipt' \in Receipts /\ receiptSynced' \in Receipts
  BY <1>1 DEF Crash, TypeOK, NoReceipt, Receipts
<1>5. staged' \in [Conns -> StagedMessages] /\ \A c \in Conns : staged'[c].reserved = 0
  BY DEF Crash, NoMessageStaged, StagedMessages
<1>6. /\ up' = FALSE /\ headID' = 0 /\ failure' = FALSE /\ importer' = "none"
      /\ reservedBytes' = 0 /\ state'.LastID = 0
      /\ UNCHANGED <<day, outside, published>>
  BY DEF Crash, emptyMailboxState
<1>7. headID' \in 0 .. head' /\ head' = head /\ state'.LastID \in 0 .. MaxID
  BY <1>1, <1>2, <1>6, MaxIDAssumption DEF TypeOK, head
<1>8. TypeOK'
  BY <1>1, <1>2, <1>3, <1>4, <1>5, <1>6, <1>7 DEF TypeOK
<1>9. reservations' = [c \in Conns |-> 0]
  BY <1>5 DEF reservations
<1>10. IsSum(reservations', reservedBytes')
  BY <1>6, <1>9, SumOfNothing
<1>11. IsSum(reservations, reservedBytes)'
  BY <1>10
<1>12. PhaseInv'
  BY <1>3, <1>5 DEF PhaseInv
<1> QED
  BY <1>8, <1>11, <1>12 DEF TypeInv

\* A commit that does not come from the transaction at work.
LEMMA GrowthType ==
    ASSUME TypeInv, NEW commit, fastForward(commit), commit.state.LastID \in 0 .. MaxID,
           orphan' \in {orphan, NoTransaction}, outside' \in 0 .. MaxOutside,
           published' \in [Days -> Nat],
           UNCHANGED <<receiptFile, receiptSynced, up, memory, calls, day>>
    PROVE  TypeInv'
<1> USE DEF memory, calls
<1>1. /\ TypeOK /\ IsSum(reservations, reservedBytes) /\ PhaseInv
      /\ validTransaction(NoTransaction)
  BY NoTransactionType DEF TypeInv
<1>2. /\ commits' \in Seq(ToSet(commits'))
      /\ head \in Nat /\ head' = head + 1
      /\ \A i \in 1 .. head' : commits'[i].state.LastID \in 0 .. MaxID
  BY <1>1, HistoryGrows
<1>3. \A n \in 0 .. head : n \in 0 .. head'
  BY <1>2
<1>4. /\ orphan.parent \in 0 .. head' /\ txn.parent \in 0 .. head' /\ headID \in 0 .. head'
      /\ NoTransaction.parent \in 0 .. head'
  BY <1>1, <1>3 DEF TypeOK, validTransaction
<1>5. validTransaction(orphan)' /\ validTransaction(txn)'
  <2>1. CASE orphan' = orphan
    BY <1>1, <1>4, <2>1 DEF TypeOK, validTransaction
  <2>2. CASE orphan' = NoTransaction
    BY <1>1, <1>4, <2>2 DEF TypeOK, validTransaction
  <2> QED
    BY <2>1, <2>2
<1>6. head' > 0
  BY <1>2
<1>7. TypeOK'
  BY <1>1, <1>2, <1>4, <1>5, <1>6 DEF TypeOK
<1>8. IsSum(reservations, reservedBytes)'
  BY <1>1, ReservationsSame
<1>9. PhaseInv'
  BY <1>1 DEF PhaseInv
<1> QED
  BY <1>7, <1>8, <1>9 DEF TypeInv

\* Stops, starts and the outside world.
LEMMA EnvironmentType ==
    ASSUME TypeInv, EnvironmentNext
    PROVE  TypeInv'
<1> USE DEF disk, memory, calls, clients
<1>1. /\ TypeOK /\ IsSum(reservations, reservedBytes) /\ PhaseInv
      /\ validTransaction(NoTransaction)
  BY NoTransactionType DEF TypeInv
<1>2. /\ importer \in {"none", "running", "refused"} /\ day \in Days /\ failure \in BOOLEAN
      /\ outside \in 0 .. MaxOutside /\ MaxOutside \in Nat /\ MaxDay \in Nat
  BY <1>1, BudgetAssumption DEF TypeOK
<1>3. CASE IdleClose
  BY <1>2, <1>3, QuietType DEF IdleClose
<1>9. CASE Close
  BY <1>2, <1>9, QuietType DEF Close
<1>10. CASE Maintain
  BY <1>2, <1>10, QuietType DEF Maintain
<1>4. CASE Crash
  BY <1>4, CrashType
<1>5. CASE OrphanEOF
  <2>1. CASE UNCHANGED <<commits, published>>
    <3>1. TypeOK'
      <4>1. validTransaction(orphan)' /\ validTransaction(txn)'
        BY <1>1, <1>5, <2>1 DEF OrphanEOF, TypeOK, validTransaction, head
      <4> QED
        BY <1>1, <1>5, <2>1, <4>1 DEF OrphanEOF, TypeOK, head
    <3>2. IsSum(reservations, reservedBytes)'
      BY <1>1, <1>5, ReservationsSame DEF OrphanEOF
    <3>3. PhaseInv'
      BY <1>1, <1>5 DEF OrphanEOF, PhaseInv
    <3> QED
      BY <3>1, <3>2, <3>3 DEF TypeInv
  <2>2. CASE /\ fastForward(commitOf(orphan))
             /\ published' = [published EXCEPT ![orphan.Day] = @ + orphan.bytes]
    <3>1. /\ orphan.Day \in Days /\ orphan.bytes \in Nat /\ published \in [Days -> Nat]
          /\ orphan.state.LastID \in 0 .. MaxID
      BY <1>1 DEF TypeOK, validTransaction
    <3>2. published[orphan.Day] + orphan.bytes \in Nat
      BY <3>1
    <3>3. published' \in [Days -> Nat]
      BY <2>2, <3>1, <3>2
    <3>4. commitOf(orphan).state.LastID \in 0 .. MaxID
      BY <3>1 DEF commitOf
    <3> QED
      BY <1>2, <1>5, <2>2, <3>3, <3>4, GrowthType DEF OrphanEOF
  <2> QED
    BY <1>5, <2>1, <2>2 DEF OrphanEOF
<1>6. CASE Start
  <2>1. head \in 1 .. head /\ head \in Nat
    BY <1>1 DEF TypeOK, head
  <2>2. /\ state' = commits[head].state /\ headID' = head /\ up' = TRUE
        /\ receipt' = receiptFile
        /\ UNCHANGED <<commits, receiptFile, receiptSynced, orphan, failure, importer,
                       reservedBytes, staged, txn, day, outside, published>>
    BY <1>6 DEF Start
  <2>3. state'.LastID \in 0 .. MaxID /\ headID' \in 0 .. head /\ headID' # 0
    BY <1>1, <2>1, <2>2 DEF TypeOK
  <2>4. head' = head /\ validTransaction(orphan)' /\ validTransaction(txn)'
    BY <1>1, <2>2 DEF TypeOK, validTransaction, head
  <2>5. TypeOK'
    BY <1>1, <2>2, <2>3, <2>4 DEF TypeOK
  <2>6. IsSum(reservations, reservedBytes)'
    BY <1>1, <2>2, ReservationsSame
  <2>7. PhaseInv'
    BY <1>1, <2>2 DEF PhaseInv
  <2> QED
    BY <2>5, <2>6, <2>7 DEF TypeInv
<1>7. CASE OutsideCommit
  <2> DEFINE commit == [commits[head] EXCEPT !.parent = head]
  <2>1. commits[head].state.LastID \in 0 .. MaxID
    BY <1>1 DEF TypeOK, head
  <2>2. commit.state = commits[head].state
    OBVIOUS
  <2>3. outside' \in 0 .. MaxOutside
    BY <1>2, <1>7 DEF OutsideCommit
  <2>4. published' \in [Days -> Nat]
    BY <1>1, <1>7 DEF OutsideCommit, TypeOK
  <2> QED
    BY <1>7, <2>1, <2>2, <2>3, <2>4, GrowthType DEF OutsideCommit
<1>8. CASE Tick
  <2>1. day' \in Days
    BY <1>2, <1>8 DEF Tick, Days
  <2> QED
    BY <1>2, <1>8, <2>1, QuietType DEF Tick
<1> QED
  BY <1>3, <1>4, <1>5, <1>6, <1>7, <1>8, <1>9, <1>10 DEF EnvironmentNext

LEMMA NextType == TypeInv /\ [Next]_vars => TypeInv'
<1> SUFFICES ASSUME TypeInv, [Next]_vars PROVE TypeInv'
  OBVIOUS
<1>1. ASSUME NEW c \in Conns, ConnNext(c) PROVE TypeInv'
  BY <1>1, StagingType, PublishType DEF ConnNext
<1>2. ASSUME NEW s \in Sessions, SessionNext(s) PROVE TypeInv'
  BY <1>2, SessionType
<1>3. CASE CommitNext
  BY <1>3, CommitType
<1>4. CASE EnvironmentNext
  BY <1>4, EnvironmentType
<1>5. CASE UNCHANGED vars
  BY <1>5, QuietType DEF vars, disk, memory, calls, TypeInv, TypeOK
<1> QED
  BY <1>1, <1>2, <1>3, <1>4, <1>5 DEF Next

\* Every state picomx reaches is well-typed: reservedBytes (a uint64 that
\* Discard and Publish subtract from) does not wrap, transactions refer to
\* commits that exist, no ID exceeds the ID space.
THEOREM TypeCorrect == Spec => []TypeOK
<1>1. Spec => []TypeInv
  BY TypeInvInit, NextType, PTL DEF Spec
<1>2. TypeInv => TypeOK
  BY DEF TypeInv
<1> QED
  BY <1>1, <1>2, PTL

-----------------------------------------------------------------------------
(* The daily budget. *)

\* A day is a number, and so is the one before the first.
LEMMA DaysAreNumbers ==
    \A d \in Days \cup {-1} : d \in Int /\ (d >= 0 => d \in Days)
BY BudgetAssumption DEF Days

\* What the proofs use of TypeInv.
BudgetTyped ==
    /\ receiptSynced.Day \in Days \cup {-1} /\ receiptSynced.ChargedBytes \in Nat
    /\ receiptFile.Day \in Days \cup {-1} /\ receiptFile.ChargedBytes \in Nat
    /\ receipt.Day \in Days \cup {-1} /\ receipt.ChargedBytes \in Nat
    /\ receiptFile \in Receipts
    /\ Days \subseteq Int /\ -1 \notin Days /\ day \in Days
    /\ MaxDailyBytes \in Nat
    /\ published \in [Days -> Nat]
    /\ \A c \in Conns : staged[c].reserved \in Nat
    /\ \A d \in Days : chargeOn(orphan, d) \in Nat /\ chargeOn(txn, d) \in Nat
    /\ \A d \in Days : pending(d) \in Nat /\ cap(d) \in Nat

LEMMA BudgetTypes == TypeInv => BudgetTyped
<1> SUFFICES ASSUME TypeInv PROVE BudgetTyped
  OBVIOUS
<1>1. TypeOK /\ validTransaction(orphan) /\ validTransaction(txn)
  BY DEF TypeInv, TypeOK
<1>2. /\ receiptSynced.Day \in Days \cup {-1} /\ receiptSynced.ChargedBytes \in Nat
      /\ receiptFile.Day \in Days \cup {-1} /\ receiptFile.ChargedBytes \in Nat
      /\ receipt.Day \in Days \cup {-1} /\ receipt.ChargedBytes \in Nat
      /\ receiptFile \in Receipts
  BY <1>1 DEF TypeOK, Receipts
<1>3. Days \subseteq Int /\ -1 \notin Days /\ day \in Days /\ MaxDailyBytes \in Nat
  BY <1>1, BudgetAssumption DEF TypeOK, Days
<1>4. published \in [Days -> Nat] /\ \A c \in Conns : staged[c].reserved \in Nat
  BY <1>1 DEF TypeOK, StagedMessages
<1>5. \A d \in Days : chargeOn(orphan, d) \in Nat /\ chargeOn(txn, d) \in Nat
  BY <1>1 DEF validTransaction, chargeOn
<1>6. \A d \in Days : pending(d) \in Nat /\ cap(d) \in Nat
  BY <1>2, <1>3, <1>5 DEF pending, cap
<1> QED
  BY <1>2, <1>3, <1>4, <1>5, <1>6 DEF BudgetTyped

\* A step that leaves the receipts and the clock alone keeps ChargeInv if it
\* does not add to what is or may be published, and changes no transaction that
\* is being charged.
LEMMA ChargeKept ==
    ASSUME TypeInv, TypeInv', ChargeInv,
           UNCHANGED <<receiptFile, receiptSynced, receipt, day>>, up' => up,
           \A d \in Days : published'[d] + pending(d)' <= published[d] + pending(d),
           \A c \in Conns : (txn'.who = c /\ txn'.phase \in {"charge", "sync"}) =>
               /\ txn.who = c /\ txn.phase = txn'.phase
               /\ staged'[c].reserved = staged[c].reserved
    PROVE  ChargeInv'
<1>1. \A d \in Days : cap(d)' = cap(d)
  BY DEF cap
<1>2. \A d \in Days : /\ published[d] \in Nat /\ pending(d) \in Nat /\ cap(d) \in Nat
                      /\ published'[d] \in Nat /\ (pending(d))' \in Nat
  <2>1. BudgetTyped
    BY BudgetTypes
  <2>2. BudgetTyped'
    BY BudgetTypes, PTL
  <2> QED
    BY <2>1, <2>2 DEF BudgetTyped
<1>3. Covered'
  <2> SUFFICES ASSUME NEW d \in Days PROVE published'[d] + (pending(d))' <= cap(d)'
    BY DEF Covered
  <2>1. published[d] + pending(d) <= cap(d)
    BY DEF ChargeInv, Covered
  <2>2. published'[d] + (pending(d))' <= published[d] + pending(d)
    OBVIOUS
  <2> QED
    BY <1>1, <1>2, <2>1, <2>2
<1>4. ReceiptsInOrder'
  BY DEF ChargeInv, ReceiptsInOrder, notBefore
<1>5. receiptUsage' = receiptUsage
  BY DEF receiptUsage
<1>6. StillFits'
  BY <1>5 DEF ChargeInv, StillFits, notBefore
<1> QED
  BY <1>3, <1>4, <1>6 DEF ChargeInv

LEMMA ChargeInit == Init => ChargeInv
<1> SUFFICES ASSUME Init PROVE ChargeInv
  OBVIOUS
<1>1. TypeInv
  BY TypeInvInit
<1>2. /\ receiptFile = NoReceipt /\ receiptSynced = NoReceipt /\ receipt = NoReceipt
      /\ orphan = NoTransaction /\ txn = NoTransaction /\ published = [d \in Days |-> 0]
  BY DEF Init
<1>3. \A d \in Days : pending(d) = 0
  BY <1>2 DEF pending, chargeOn, NoTransaction
<1>4. Covered
  BY <1>1, <1>2, <1>3, BudgetTypes DEF Covered, BudgetTyped
<1>5. ReceiptsInOrder
  BY <1>2, BudgetAssumption DEF ReceiptsInOrder, NoReceipt, notBefore
<1>6. StillFits
  BY <1>2 DEF StillFits, NoTransaction
<1> QED
  BY <1>4, <1>5, <1>6 DEF ChargeInv

\* Publish: the check, the charge, and the point where it is durable.
LEMMA PublishCharge ==
    ASSUME TypeInv, TypeInv', ChargeInv, NEW c \in Conns,
           PublishStart(c) \/ WriteReceipt(c) \/ SyncReceipt(c) \/ ReceiptFails(c)
    PROVE  ChargeInv'
<1> USE DEF disk, memory, calls, clients
<1>1. BudgetTyped /\ BudgetTyped'
  BY BudgetTypes, PTL
<1>2. /\ DOMAIN txn = DOMAIN NoTransaction
      /\ receiptFile \in Receipts /\ reservedBytes \in Nat /\ staged[c].reserved \in Nat
      /\ staged[c].reserved <= reservedBytes
  <2>1. reservations \in [Conns -> Nat] /\ reservations[c] = staged[c].reserved
    BY DEF TypeInv, TypeOK, reservations, StagedMessages
  <2>2. reservations[c] <= reservedBytes
    BY <2>1, SumBound DEF TypeInv
  <2> QED
    BY <2>1, <2>2 DEF TypeInv, TypeOK, validTransaction
<1>3. CASE PublishStart(c)
  <2>1. /\ txn'.phase = "charge" /\ txn'.who = c /\ txn.phase = "none"
        /\ staged'[c].reserved = staged[c].reserved
        /\ UNCHANGED <<receiptFile, receiptSynced, receipt, day, up, orphan, published>>
    BY <1>3 DEF PublishStart, NoTransaction, muFree, TypeInv, TypeOK, StagedMessages
  <2>2. Covered'
    BY <1>3, <2>1 DEF ChargeInv, Covered, pending, cap, chargeOn
  <2>3. ReceiptsInOrder'
    BY <2>1 DEF ChargeInv, ReceiptsInOrder, notBefore
  <2>4. receiptUsage.ChargedBytes \in Nat /\ receiptUsage' = receiptUsage
    BY <1>1, <2>1 DEF BudgetTyped, receiptUsage
  <2>5. receiptUsage.ChargedBytes + staged[c].reserved <= MaxDailyBytes
    BY <1>1, <1>2, <1>3, <2>4 DEF PublishStart, canReserve, BudgetTyped
  <2>6. StillFits'
    BY <2>1, <2>4, <2>5 DEF StillFits
  <2> QED
    BY <2>2, <2>3, <2>6 DEF ChargeInv
<1>4. CASE WriteReceipt(c)
  <2>1. /\ txn'.phase = "sync" /\ txn'.who = c /\ txn.phase = "charge" /\ txn.who = c
        /\ UNCHANGED <<receiptSynced, receipt, day, up, staged, orphan, published>>
    BY <1>2, <1>4 DEF WriteReceipt, NoTransaction
  <2>2. Covered'
    BY <2>1 DEF ChargeInv, Covered, pending, cap, chargeOn
  <2>3. /\ receiptUsage.ChargedBytes \in Nat /\ receiptUsage.Day \in Days
        /\ DOMAIN receiptUsage = {"Day", "ChargedBytes"}
    <3>1. receipt \in Receipts
      BY DEF TypeInv, TypeOK
    <3>2. receipt.Day >= day => receipt.Day \in Days
      <4>1. receipt.Day \in Days \cup {-1} /\ day \in Days
        BY <1>1 DEF BudgetTyped
      <4> QED
        BY <4>1, BudgetAssumption DEF Days
    <3> QED
      BY <1>1, <3>1, <3>2 DEF BudgetTyped, receiptUsage, Receipts
  <2>4. notBefore(receiptUsage, receiptSynced)
    BY <1>1, <1>4 DEF WriteReceipt, ChargeInv, ReceiptsInOrder, notBefore, receiptUsage,
                      BudgetTyped
  <2>5. /\ receiptFile'.Day = receiptUsage.Day
        /\ receiptFile'.ChargedBytes = receiptUsage.ChargedBytes + staged[c].reserved
    BY <1>4, <2>3 DEF WriteReceipt
  <2>6. receiptFile'.ChargedBytes <= MaxDailyBytes
    BY <2>1, <2>5 DEF ChargeInv, StillFits
  <2>7. notBefore(receiptFile', receiptSynced)
    BY <1>1, <1>2, <2>3, <2>4, <2>5 DEF notBefore, BudgetTyped
  <2>8. ReceiptsInOrder'
    BY <2>1, <2>6, <2>7 DEF ChargeInv, ReceiptsInOrder, notBefore
  <2>9. staged[c].reserved <= receiptFile'.ChargedBytes
    BY <1>2, <2>3, <2>5
  <2>10. notBefore([receiptFile' EXCEPT !.ChargedBytes = @ - staged[c].reserved],
                   receiptSynced)
    <3> DEFINE q == [receiptFile' EXCEPT !.ChargedBytes = @ - staged[c].reserved]
    <3>1. q.Day = receiptFile'.Day /\ q.ChargedBytes = receiptFile'.ChargedBytes - staged[c].reserved
      BY <1>1 DEF BudgetTyped, Receipts
    <3>2. q.ChargedBytes = receiptUsage.ChargedBytes
      BY <1>2, <2>3, <2>5, <3>1
    <3> HIDE DEF q
    <3>3. notBefore(q, receiptSynced)
      BY <2>4, <2>5, <3>1, <3>2 DEF notBefore
    <3> QED
      BY <3>3 DEF q
  <2>11. StillFits'
    BY <2>1, <2>9, <2>10 DEF StillFits, notBefore
  <2> QED
    BY <2>2, <2>8, <2>11 DEF ChargeInv
<1>5. CASE SyncReceipt(c)
  <2>1. /\ txn'.phase = "commit" /\ txn'.who = c /\ txn.phase = "sync" /\ txn.who = c
        /\ txn'.Day = receiptFile.Day /\ txn'.bytes = staged[c].reserved
        /\ receiptSynced' = receiptFile /\ receipt' = receiptFile
        /\ UNCHANGED <<receiptFile, day, up, orphan, published>>
    BY <1>2, <1>5 DEF SyncReceipt, NoTransaction
  <2>2. /\ staged[c].reserved <= receiptFile.ChargedBytes
        /\ \/ receiptFile.Day > receiptSynced.Day
           \/ /\ receiptFile.Day = receiptSynced.Day
              /\ receiptFile.ChargedBytes - staged[c].reserved >= receiptSynced.ChargedBytes
    <3> DEFINE q == [receiptFile EXCEPT !.ChargedBytes = @ - staged[c].reserved]
    <3>1. q.Day = receiptFile.Day /\ q.ChargedBytes = receiptFile.ChargedBytes - staged[c].reserved
      BY <1>2 DEF Receipts
    <3>2. staged[c].reserved <= receiptFile.ChargedBytes /\ notBefore(q, receiptSynced)
      BY <2>1 DEF ChargeInv, StillFits
    <3> HIDE DEF q
    <3> QED
      BY <3>1, <3>2 DEF notBefore
  <2>3. Covered'
    <3> SUFFICES ASSUME NEW d \in Days PROVE published'[d] + (pending(d))' <= cap(d)'
      BY DEF Covered
    <3>1. published[d] + chargeOn(orphan, d) <= cap(d)
      BY <1>1, <2>1 DEF ChargeInv, Covered, pending, BudgetTyped
    <3>2. (pending(d))' = chargeOn(orphan, d)
             + (IF receiptFile.Day = d THEN staged[c].reserved ELSE 0)
      BY <2>1 DEF pending, chargeOn
    <3>3. cap(d) <= MaxDailyBytes
      BY <1>1 DEF ChargeInv, ReceiptsInOrder, cap, BudgetTyped
    <3>4. cap(d)' = IF d < receiptFile.Day THEN MaxDailyBytes
                    ELSE IF d = receiptFile.Day THEN receiptFile.ChargedBytes ELSE 0
      BY <2>1 DEF cap
    <3>5. /\ published[d] \in Nat /\ chargeOn(orphan, d) \in Nat /\ cap(d) \in Nat
          /\ d \in Int /\ receiptFile.Day \in Int /\ receiptSynced.Day \in Int
          /\ receiptFile.ChargedBytes \in Nat /\ receiptSynced.ChargedBytes \in Nat
          /\ MaxDailyBytes \in Nat /\ staged[c].reserved \in Nat /\ published' = published
      <4>1. published \in [Days -> Nat] /\ Days \subseteq Int
        BY <1>1 DEF BudgetTyped
      <4>2. d \in Int /\ receiptFile.Day \in Int /\ receiptSynced.Day \in Int
        BY <1>1, DaysAreNumbers DEF BudgetTyped
      <4>3. published[d] \in Nat /\ chargeOn(orphan, d) \in Nat /\ cap(d) \in Nat
        BY <1>1, <4>1 DEF BudgetTyped
      <4>4. /\ receiptFile.ChargedBytes \in Nat /\ receiptSynced.ChargedBytes \in Nat
            /\ MaxDailyBytes \in Nat
        BY <1>1 DEF BudgetTyped
      <4> QED
        BY <1>2, <2>1, <4>2, <4>3, <4>4
    <3>6. cap(d) = IF d < receiptSynced.Day THEN MaxDailyBytes
                   ELSE IF d = receiptSynced.Day THEN receiptSynced.ChargedBytes ELSE 0
      BY DEF cap
    <3>7. CASE d < receiptFile.Day
      BY <3>1, <3>2, <3>3, <3>4, <3>5, <3>7
    <3>8. CASE d = receiptFile.Day
      BY <2>2, <3>1, <3>2, <3>4, <3>5, <3>6, <3>8
    <3>9. CASE d > receiptFile.Day
      BY <2>2, <3>1, <3>2, <3>4, <3>5, <3>6, <3>9
    <3> QED
      BY <3>5, <3>7, <3>8, <3>9
  <2>4. ReceiptsInOrder'
    BY <1>1, <2>1 DEF ChargeInv, ReceiptsInOrder, notBefore, BudgetTyped
  <2>5. StillFits'
    BY <2>1 DEF StillFits
  <2> QED
    BY <2>3, <2>4, <2>5 DEF ChargeInv
<1>6. CASE ReceiptFails(c)
  <2>1. /\ txn'.phase = "none" /\ txn.phase \in {"charge", "sync"}
        /\ UNCHANGED <<receiptFile, receiptSynced, receipt, day, up, orphan, published>>
    BY <1>6 DEF ReceiptFails, NoTransaction
  <2>2. \A d \in Days : published'[d] + (pending(d))' <= published[d] + pending(d)
    BY <1>1, <2>1 DEF pending, chargeOn, BudgetTyped
  <2> QED
    BY <2>1, <2>2, ChargeKept
<1> QED
  BY <1>3, <1>4, <1>5, <1>6

\* commitChanges: what was pending becomes published, or is given up.
LEMMA CommitCharge ==
    ASSUME TypeInv, TypeInv', ChargeInv, CommitNext
    PROVE  ChargeInv'
<1> USE DEF disk, memory, calls, clients
<1>1. BudgetTyped /\ BudgetTyped' /\ DOMAIN txn = DOMAIN NoTransaction
  BY BudgetTypes, PTL DEF TypeInv, TypeOK, validTransaction
<1>2. ASSUME UNCHANGED <<receiptFile, receiptSynced, receipt, day, up, orphan, published>>,
             txn'.phase \notin {"charge", "sync"},
             txn'.phase \in {"commit", "import", "skipped"} =>
                 /\ txn.phase \in {"commit", "import", "skipped"}
                 /\ txn'.Day = txn.Day /\ txn'.bytes = txn.bytes
      PROVE  ChargeInv'
  <2>1. \A d \in Days : (pending(d))' <= pending(d)
    <3> TAKE d \in Days
    <3>1. chargeOn(orphan, d) \in Nat /\ chargeOn(txn, d) \in Nat
      BY <1>1 DEF BudgetTyped
    <3>2. orphan' = orphan
      BY <1>2
    <3>3. \/ txn'.phase \notin {"commit", "import", "skipped"}
          \/ /\ txn.phase \in {"commit", "import", "skipped"}
             /\ chargeOn(txn', d) = chargeOn(txn, d)
      BY <1>2 DEF chargeOn
    <3> QED
      BY <3>1, <3>2, <3>3 DEF pending
  <2>2. \A d \in Days : published'[d] + (pending(d))' <= published[d] + pending(d)
    BY <1>1, <1>2, <2>1 DEF BudgetTyped
  <2> QED
    BY <1>2, <2>2, ChargeKept
<1>3. CASE StartImport
  <2>1. txn'.phase = "import" /\ txn'.Day = txn.Day /\ txn'.bytes = txn.bytes
    BY <1>1, <1>3 DEF StartImport, NoTransaction
  <2> QED
    BY <1>2, <1>3, <2>1 DEF StartImport
<1>4. CASE RefuseCommit
  BY <1>2, <1>4 DEF RefuseCommit, returned, NoTransaction
<1>5. CASE Checkpoint
  <2>1. txn'.phase = "landed" /\ txn.phase = "import"
    BY <1>1, <1>5 DEF Checkpoint, NoTransaction
  <2>2. txn.Day \in Days /\ txn.bytes \in Nat /\ published \in [Days -> Nat]
    BY DEF TypeInv, TypeOK, validTransaction
  <2>3. \A d \in Days : published'[d] = published[d] + chargeOn(txn, d)
    BY <1>5, <2>2 DEF Checkpoint, chargeOn
  <2>4. \A d \in Days : /\ (pending(d))' = chargeOn(orphan, d)
                         /\ pending(d) = chargeOn(orphan, d) + chargeOn(txn, d)
    BY <1>1, <1>5, <2>1 DEF Checkpoint, pending, chargeOn, BudgetTyped
  <2>5. \A d \in Days : published'[d] + (pending(d))' <= published[d] + pending(d)
    BY <1>1, <2>2, <2>3, <2>4 DEF BudgetTyped
  <2>6. UNCHANGED <<receiptFile, receiptSynced, receipt, day, up>>
    BY <1>5 DEF Checkpoint
  <2> QED
    BY <2>1, <2>5, <2>6, ChargeKept
<1>6. CASE CheckpointSkipped
  <2>1. txn'.phase = "skipped"
    BY <1>1, <1>6 DEF CheckpointSkipped, NoTransaction
  <2> QED
    BY <1>2, <1>6, <2>1 DEF CheckpointSkipped
<1>7. CASE CommitDone
  BY <1>2, <1>7 DEF CommitDone, returned, NoTransaction
<1>8. CASE ImportFails
  BY <1>2, <1>8 DEF ImportFails, returned, NoTransaction
<1> QED
  BY <1>3, <1>4, <1>5, <1>6, <1>7, <1>8 DEF CommitNext

\* A crash leaves a fast-import with the transaction's charge at most, and one
\* of the two receipts; a start reads the receipt file.
LEMMA RestartCharge ==
    ASSUME TypeInv, TypeInv', ChargeInv, Crash \/ OrphanEOF \/ Start
    PROVE  ChargeInv'
<1> USE DEF disk, memory, calls, clients
<1>1. BudgetTyped /\ BudgetTyped'
  BY BudgetTypes, PTL
<1>2. CASE Crash
  <2>1. /\ txn'.phase = "none" /\ up' = FALSE /\ receipt' = NoReceipt
        /\ receiptFile' \in {receiptFile, receiptSynced}
        /\ UNCHANGED <<receiptSynced, published, day>>
    BY <1>2 DEF Crash, NoTransaction
  <2>2. \A d \in Days : chargeOn(NoTransaction, d) = 0
    BY DEF chargeOn, NoTransaction
  <2>3. \A d \in Days : (pending(d))' <= pending(d)
    <3>1. CASE orphan' = orphan
      BY <1>1, <2>1, <3>1 DEF pending, chargeOn, BudgetTyped
    <3>2. CASE orphan' \in leftovers
      <4>1. \/ orphan' = NoTransaction
            \/ /\ txn.phase \in {"import", "skipped"}
               /\ orphan'.Day = txn.Day /\ orphan'.bytes = txn.bytes
        BY <3>2, LeftoversType DEF TypeInv
      <4>2. \A d \in Days : (pending(d))' = chargeOn(orphan', d)
        <5>1. \A d \in Days : (chargeOn(orphan, d))' \in Nat
          BY <1>1 DEF BudgetTyped
        <5>2. \A d \in Days : (pending(d))' = (chargeOn(orphan, d))' + 0
          BY <2>1 DEF pending
        <5>3. \A d \in Days : (chargeOn(orphan, d))' = chargeOn(orphan', d)
          BY DEF chargeOn
        <5> QED
          BY <5>1, <5>2, <5>3
      <4>3. CASE orphan' = NoTransaction
        BY <1>1, <2>2, <4>2, <4>3 DEF BudgetTyped
      <4>4. CASE /\ txn.phase \in {"import", "skipped"}
                 /\ orphan'.Day = txn.Day /\ orphan'.bytes = txn.bytes
        <5>1. \A d \in Days : chargeOn(orphan', d) = chargeOn(txn, d)
          BY <4>4 DEF chargeOn
        <5>2. \A d \in Days : pending(d) = chargeOn(orphan, d) + chargeOn(txn, d)
          BY <4>4 DEF pending
        <5>3. \A d \in Days : chargeOn(orphan, d) \in Nat /\ chargeOn(txn, d) \in Nat
          BY <1>1 DEF BudgetTyped
        <5> QED
          BY <4>2, <5>1, <5>2, <5>3
      <4> QED
        BY <4>1, <4>3, <4>4
    <3> QED
      BY <1>2, <3>1, <3>2 DEF Crash
  <2>4. \A d \in Days : cap(d)' = cap(d)
    BY <2>1 DEF cap
  <2>5. Covered'
    <3> SUFFICES ASSUME NEW d \in Days PROVE published'[d] + (pending(d))' <= cap(d)'
      BY DEF Covered
    <3>1. published[d] + pending(d) <= cap(d) /\ (pending(d))' <= pending(d)
      BY <2>3 DEF ChargeInv, Covered
    <3>2. /\ published[d] \in Nat /\ pending(d) \in Nat /\ (pending(d))' \in Nat
          /\ cap(d) \in Nat
      BY <1>1 DEF BudgetTyped
    <3> QED
      BY <2>1, <2>4, <3>1, <3>2
  <2>6. ReceiptsInOrder'
    BY <1>1, <2>1 DEF ChargeInv, ReceiptsInOrder, notBefore, NoReceipt, BudgetTyped
  <2>7. StillFits'
    BY <2>1 DEF StillFits
  <2> QED
    BY <2>5, <2>6, <2>7 DEF ChargeInv
<1>3. CASE OrphanEOF
  <2>1. /\ orphan' = NoTransaction
        /\ UNCHANGED <<receiptFile, receiptSynced, receipt, day, up, txn, staged>>
    BY <1>3 DEF OrphanEOF
  <2>2. /\ orphan.Day \in Days /\ orphan.bytes \in Nat /\ published \in [Days -> Nat]
    BY DEF TypeInv, TypeOK, validTransaction
  <2>3. \A d \in Days : published'[d] <= published[d] + chargeOn(orphan, d)
    <3>1. CASE published' = published
      BY <1>1, <2>2, <3>1 DEF BudgetTyped
    <3>2. CASE published' = [published EXCEPT ![orphan.Day] = @ + orphan.bytes]
      BY <2>2, <3>2 DEF chargeOn
    <3> QED
      BY <1>3, <3>1, <3>2 DEF OrphanEOF
  <2>4. \A d \in Days : pending(d) = chargeOn(orphan, d) + (pending(d))'
    <3> TAKE d \in Days
    <3>1. chargeOn(orphan, d) \in Nat /\ chargeOn(txn, d) \in Nat
      BY <1>1 DEF BudgetTyped
    <3>2. chargeOn(orphan', d) = 0 /\ txn' = txn
      BY <2>1 DEF chargeOn, NoTransaction
    <3> QED
      BY <3>1, <3>2 DEF pending
  <2>5. \A d \in Days : published'[d] + (pending(d))' <= published[d] + pending(d)
    <3> TAKE d \in Days
    <3>1. /\ published[d] \in Nat /\ published'[d] \in Nat /\ (pending(d))' \in Nat
          /\ chargeOn(orphan, d) \in Nat /\ pending(d) \in Nat
      BY <1>1 DEF BudgetTyped
    <3> QED
      BY <2>3, <2>4, <3>1
  <2> QED
    BY <2>1, <2>5, ChargeKept
<1>4. CASE Start
  <2>1. /\ receipt' = receiptFile /\ ~up
        /\ UNCHANGED <<receiptFile, receiptSynced, published, orphan, txn, day, staged>>
    BY <1>4 DEF Start
  <2>2. txn.phase = "none"
    BY <2>1 DEF TypeInv, TypeOK
  <2>3. Covered'
    BY <2>1 DEF ChargeInv, Covered, pending, cap, chargeOn
  <2>4. ReceiptsInOrder'
    BY <2>1 DEF ChargeInv, ReceiptsInOrder, notBefore
  <2>5. StillFits'
    BY <2>1, <2>2 DEF StillFits
  <2> QED
    BY <2>3, <2>4, <2>5 DEF ChargeInv
<1> QED
  BY <1>2, <1>3, <1>4

\* The other steps leave what is charged alone, but for the clock: Publish's
\* check stays good when the day goes forward, and the day is assumed not to go
\* back before the charge is written.
LEMMA QuietCharge ==
    ASSUME ~RollbackInPublish, TypeInv, TypeInv', ChargeInv, [Next]_vars,
           ~ \E c \in Conns : PublishStart(c) \/ WriteReceipt(c) \/ SyncReceipt(c)
                              \/ ReceiptFails(c),
           ~CommitNext, ~(Crash \/ OrphanEOF \/ Start)
    PROVE  ChargeInv'
<1> USE DEF disk, memory, calls, clients
<1>1. BudgetTyped /\ BudgetTyped'
  BY BudgetTypes, PTL
<1>2. ASSUME UNCHANGED <<receiptFile, receiptSynced, receipt, day, up, orphan, published>>,
             \/ txn'.phase = "none" /\ txn.phase = "none"
             \/ txn' = txn /\ \A c \in Conns : staged'[c].reserved = staged[c].reserved
             \/ txn'.phase = "commit" /\ txn'.bytes = 0
      PROVE  ChargeInv'
  <2>1. \A d \in Days : (pending(d))' <= pending(d)
    <3> TAKE d \in Days
    <3>1. chargeOn(orphan, d) \in Nat /\ chargeOn(txn, d) \in Nat
      BY <1>1 DEF BudgetTyped
    <3>2. orphan' = orphan
      BY <1>2
    <3>3. \/ txn'.phase = "none" /\ txn.phase = "none"
          \/ txn' = txn
          \/ chargeOn(txn', d) = 0
      BY <1>2 DEF chargeOn
    <3> QED
      BY <3>1, <3>2, <3>3 DEF pending
  <2>2. \A d \in Days : published'[d] + (pending(d))' <= published[d] + pending(d)
    BY <1>1, <1>2, <2>1 DEF BudgetTyped
  <2> QED
    BY <1>2, <2>2, ChargeKept
<1>3. ASSUME NEW c \in Conns, ConnNext(c) PROVE ChargeInv'
  <2>1. CASE Stage(c)
    BY <1>2, <2>1 DEF Stage, muFree
  <2>2. ASSUME NEW n \in 1 .. MaxMessage, QuotaRead(c, n) PROVE ChargeInv'
    BY <1>2, <2>2 DEF QuotaRead, muFree
  <2>3. CASE StageDone(c)
    <3>1. \A d \in Conns : staged'[d].reserved = staged[d].reserved
      BY <2>3 DEF StageDone, TypeInv, TypeOK, StagedMessages
    <3> QED
      BY <1>2, <2>3, <3>1 DEF StageDone
  <2>4. CASE Discard(c)
    BY <1>2, <2>4 DEF Discard, muFree
  <2> QED
    BY <1>3, <2>1, <2>2, <2>3, <2>4 DEF ConnNext
<1>4. ASSUME NEW s \in Sessions, SessionNext(s) PROVE ChargeInv'
  <2>1. CASE DeleteStart(s)
    BY <1>2, <2>1 DEF DeleteStart, NoTransaction
  <2>2. ASSUME NEW ids \in Requests, DeleteAs(s, ids) PROVE ChargeInv'
    BY <1>2, <2>2 DEF DeleteAs
  <2>3. CASE Snapshot(s)
    BY <1>2, <2>3 DEF Snapshot
  <2>4. CASE Resolve(s)
    BY <1>2, <2>4 DEF Resolve
  <2>5. CASE ResolveFails(s)
    BY <1>2, <2>5 DEF ResolveFails
  <2>6. CASE Retry(s)
    BY <1>2, <2>6 DEF Retry
  <2>7. CASE DeleteNothing(s)
    BY <1>2, <2>7 DEF DeleteNothing
  <2>8. CASE DeleteRefused(s)
    BY <1>2, <2>8 DEF DeleteRefused
  <2> QED
    BY <1>4, <2>1, <2>2, <2>3, <2>4, <2>5, <2>6, <2>7, <2>8 DEF SessionNext
<1>5. CASE IdleClose \/ Close \/ Maintain
  BY <1>2, <1>5 DEF IdleClose, Close, Maintain
<1>6. CASE OutsideCommit
  BY <1>2, <1>6 DEF OutsideCommit
<1>7. CASE Tick
  <2>1. /\ UNCHANGED <<receiptFile, receiptSynced, receipt, up, orphan, txn, staged, published>>
        /\ day' > day \/ txn.phase # "charge"
    BY <1>1, <1>7, BudgetAssumption DEF Tick, BudgetTyped, Days
  <2>2. Covered'
    BY <2>1 DEF ChargeInv, Covered, pending, cap, chargeOn
  <2>3. ReceiptsInOrder'
    BY <2>1 DEF ChargeInv, ReceiptsInOrder, notBefore
  <2>4. StillFits'
    <3> SUFFICES ASSUME NEW c \in Conns, txn.who = c, txn.phase = "charge"
                 PROVE  receiptUsage'.ChargedBytes + staged[c].reserved <= MaxDailyBytes
      BY <2>1 DEF ChargeInv, StillFits
    <3>1. day' > day /\ day \in Int /\ day' \in Int /\ receipt.Day \in Int
      BY <1>1, <2>1, DaysAreNumbers DEF BudgetTyped
    <3>2. receiptUsage'.ChargedBytes = receiptUsage.ChargedBytes \/ receiptUsage'.ChargedBytes = 0
      BY <2>1, <3>1 DEF receiptUsage
    <3>3. receiptUsage.ChargedBytes + staged[c].reserved <= MaxDailyBytes
      BY DEF ChargeInv, StillFits
    <3>4. /\ receiptUsage.ChargedBytes \in Nat /\ staged[c].reserved \in Nat
          /\ MaxDailyBytes \in Nat
      BY <1>1 DEF BudgetTyped, receiptUsage
    <3> QED
      BY <3>2, <3>3, <3>4
  <2> QED
    BY <2>2, <2>3, <2>4 DEF ChargeInv
<1>8. CASE UNCHANGED vars
  BY <1>2, <1>8 DEF vars
<1> QED
  BY <1>3, <1>4, <1>5, <1>6, <1>7, <1>8 DEF Next, EnvironmentNext

LEMMA NextCharge ==
    ASSUME ~RollbackInPublish
    PROVE  TypeInv /\ ChargeInv /\ [Next]_vars => (TypeInv /\ ChargeInv)'
<1> SUFFICES ASSUME TypeInv, ChargeInv, [Next]_vars PROVE TypeInv' /\ ChargeInv'
  OBVIOUS
<1>1. TypeInv'
  BY NextType
<1>2. ChargeInv'
  BY <1>1, PublishCharge, CommitCharge, RestartCharge, QuietCharge
<1> QED
  BY <1>1, <1>2

\* The inductive invariant.
LEMMA InductiveCharge ==
    ASSUME ~RollbackInPublish
    PROVE  Spec => [](TypeInv /\ ChargeInv)
<1>1. TypeInv /\ ChargeInv /\ [Next]_vars => (TypeInv /\ ChargeInv)'
  BY NextCharge
<1>2. Init => TypeInv /\ ChargeInv
  BY TypeInvInit, ChargeInit
<1> QED
  BY <1>1, <1>2, PTL DEF Spec

\* ChargeInv is an invariant, whatever the budget, the connections, crashes at
\* any step and failed writes: published mail, and mail a fast-import may still
\* publish, is under a durable charge.
THEOREM ChargeHolds ==
    ASSUME ~RollbackInPublish
    PROVE  Spec => []ChargeInv
<1>1. Spec => [](TypeInv /\ ChargeInv)
  BY InductiveCharge
<1> QED
  BY <1>1, PTL

\* No day's published mail exceeds MaxDailyBytes (the budget of quota.go), if
\* the clock is not set back while Publish runs.
THEOREM BudgetHolds ==
    ASSUME ~RollbackInPublish
    PROVE  Spec => []BudgetRespected
<1>1. Spec => [](TypeInv /\ ChargeInv)
  BY InductiveCharge
<1>2. TypeInv /\ ChargeInv => BudgetRespected
  <2> SUFFICES ASSUME TypeInv, ChargeInv, NEW d \in Days PROVE published[d] <= MaxDailyBytes
    BY DEF BudgetRespected
  <2>1. BudgetTyped
    BY BudgetTypes
  <2>2. published[d] \in Nat /\ pending(d) \in Nat /\ cap(d) \in Nat /\ MaxDailyBytes \in Nat
    BY <2>1 DEF BudgetTyped
  <2>3. cap(d) <= MaxDailyBytes
    BY <2>1 DEF ChargeInv, ReceiptsInOrder, cap, BudgetTyped
  <2>4. published[d] + pending(d) <= cap(d)
    BY DEF ChargeInv, Covered
  <2> QED
    BY <2>2, <2>3, <2>4
<1> QED
  BY <1>1, <1>2, PTL

\* The durable receipt covers what was published on its day, and no later day
\* has published anything: writeReceipt comes before commitChanges in Publish,
\* so that a crash between them loses budget and never mail that is not charged.
THEOREM ChargedHolds ==
    ASSUME ~RollbackInPublish
    PROVE  Spec => []PublishedIsCharged
<1>1. Spec => [](TypeInv /\ ChargeInv)
  BY InductiveCharge
<1>2. TypeInv /\ ChargeInv => PublishedIsCharged
  <2> SUFFICES ASSUME TypeInv, ChargeInv PROVE PublishedIsCharged
    OBVIOUS
  <2>1. BudgetTyped
    BY BudgetTypes
  <2>2. \A d \in Days : /\ published[d] \in Nat /\ d \in Int
                         /\ published[d] <= cap(d)
    <3> TAKE d \in Days
    <3>1. published[d] + pending(d) <= cap(d)
      BY DEF ChargeInv, Covered
    <3>2. /\ published[d] \in Nat /\ pending(d) \in Nat /\ cap(d) \in Nat /\ d \in Int
      BY <2>1 DEF BudgetTyped
    <3> QED
      BY <3>1, <3>2
  <2>3. receiptSynced.Day \in Int /\ (receiptSynced.Day >= 0 => receiptSynced.Day \in Days)
    BY <2>1, DaysAreNumbers DEF BudgetTyped
  <2> QED
    BY <2>2, <2>3 DEF PublishedIsCharged, cap
<1> QED
  BY <1>1, <1>2, PTL

\* The durable receipt only grows: neither a crash, a failed write nor a clock
\* that is set back gives budget back.
THEOREM ReceiptGrows ==
    ASSUME ~RollbackInPublish
    PROVE  Spec => ReceiptOnlyGrows
<1> DEFINE Grows == \/ receiptSynced'.Day > receiptSynced.Day
                    \/ /\ receiptSynced'.Day = receiptSynced.Day
                       /\ receiptSynced'.ChargedBytes >= receiptSynced.ChargedBytes
<1>1. Spec => [](TypeInv /\ ChargeInv)
  BY InductiveCharge
<1>2. TypeInv /\ ChargeInv /\ [Next]_vars => [Grows]_vars
  <2> SUFFICES ASSUME TypeInv, ChargeInv, Next PROVE Grows
    OBVIOUS
  <2>1. receiptSynced' = receiptSynced \/ receiptSynced' = receiptFile
    BY DEF Next, ConnNext, SessionNext, CommitNext, EnvironmentNext, Stage, QuotaRead,
           StageDone, Discard, PublishStart, WriteReceipt, SyncReceipt, ReceiptFails,
           DeleteAs, Snapshot, Resolve, ResolveFails, Retry, DeleteStart, DeleteNothing,
           DeleteRefused, StartImport, RefuseCommit, Checkpoint, CheckpointSkipped,
           CommitDone, ImportFails, IdleClose, Close, Maintain, Crash, OrphanEOF, Start, OutsideCommit,
           Tick, disk
  <2>2. /\ receiptSynced.Day \in Int /\ receiptSynced.ChargedBytes \in Nat
        /\ receiptFile.Day \in Int /\ receiptFile.ChargedBytes \in Nat
    BY BudgetTypes, DaysAreNumbers DEF BudgetTyped
  <2> QED
    BY <2>1, <2>2 DEF ChargeInv, ReceiptsInOrder, notBefore
<1> QED
  BY <1>1, <1>2, PTL DEF Spec, ReceiptOnlyGrows

\* A total that adds up over the connections is the sum of the reservations.
LEMMA MeasureIsSum ==
    ASSUME NEW r \in [Conns -> Nat], NEW total, IsSum(r, total)
    PROVE  total = SumFunction(r)
<1>1. PICK p \in [SUBSET Conns -> Nat] : IsMeasure(p, r) /\ p[Conns] = total
  BY DEF IsSum
<1>2. IsFiniteSet(Conns) /\ \A c \in Conns : r[c] \in Nat
  BY FiniteAssumption
<1>3. PICK q \in [SUBSET Conns -> Nat] :
          SumSteps(q, r, Conns) /\ SumFunctionOnSet(r, Conns) = q[Conns]
  BY <1>2, SumIsFold
<1>4. SumSteps(p, r, Conns)
  <2> SUFFICES ASSUME NEW s \in SUBSET Conns
               PROVE  p[s] = IF s = {} THEN 0 ELSE r[some(s)] + p[s \ {some(s)}]
    BY DEF SumSteps
  <2>1. CASE s = {}
    BY <1>1, <2>1 DEF IsMeasure
  <2>2. CASE s # {}
    <3> DEFINE c == some(s)
               R == s \ {c}
    <3>1. c \in s
      BY <2>2, SomeIsElement
    <3>2. R \in SUBSET Conns /\ c \in Conns \ R /\ R \cup {c} = s
      BY <3>1
    <3>3. p[s] = p[R] + r[c]
      BY <1>1, <3>2 DEF IsMeasure
    <3>4. p[R] \in Nat /\ r[c] \in Nat
      BY <3>2
    <3> HIDE DEF R, c
    <3>5. p[s] = r[c] + p[R]
      BY <3>3, <3>4
    <3> QED
      BY <2>2, <3>5 DEF R, c
  <2> QED
    BY <2>1, <2>2
<1>5. p[Conns] = q[Conns]
  BY <1>2, <1>3, <1>4, SumUnique
<1>6. DOMAIN r = Conns
  OBVIOUS
<1> QED
  BY <1>1, <1>3, <1>5, <1>6 DEF SumFunction

\* No reservation is lost on an error path and none is given back twice: what
\* Store.reservedBytes holds is what the connections at work have reserved,
\* through every failure of Stage and Publish and every restart.
THEOREM ReservedHolds == Spec => []ReservedIsSum
<1>1. TypeInv => ReservedIsSum
  <2> SUFFICES ASSUME TypeInv PROVE ReservedIsSum
    OBVIOUS
  <2>1. reservations \in [Conns -> Nat] /\ IsSum(reservations, reservedBytes)
    BY DEF TypeInv, TypeOK, reservations, StagedMessages
  <2>2. reservedBytes = SumFunction(reservations)
    BY <2>1, MeasureIsSum
  <2> QED
    BY <2>2 DEF ReservedIsSum, reservations
<1> QED
  BY TypeInvInit, NextType, <1>1, PTL DEF Spec

-----------------------------------------------------------------------------
(* The history of HEAD. *)

CommitFields == {"parent", "state", "tree"}

\* What a transaction would put into a commit.
content(t) == <<t.parent, t.state, t.changes, t.removals>>

\* The commits are a chain, memory is at one of them unless the store is
\* poisoned, and the transaction at work builds on that one; when it has landed,
\* its commit is the next.
HistoryInv ==
    /\ \A i \in 1 .. head : DOMAIN commits[i] = CommitFields /\ commits[i].parent = i - 1
    /\ up /\ ~failure => state = commits[headID].state
    /\ txn.phase # "none" => ~failure /\ txn.parent = headID
    /\ txn.phase = "landed" =>
          txn.parent + 1 \in 1 .. head /\ commits[txn.parent + 1] = commitOf(txn)

\* Steps that move neither HEAD nor memory, and at most advance or end the
\* transaction, or poison the store when there is none.
LEMMA HistoryKept ==
    ASSUME HistoryInv, UNCHANGED <<commits, up, state, headID>>, failure => failure',
           \/ txn'.phase = "none"
           \/ /\ txn.phase # "none" /\ content(txn') = content(txn)
              /\ failure' = failure
              /\ txn'.phase = "landed" => txn.phase = "landed"
    PROVE  HistoryInv'
<1>1. head' = head /\ \A i : treeAt(i)' = treeAt(i)
  BY DEF head, treeAt
<1>2. CASE txn'.phase = "none"
  BY <1>1, <1>2 DEF HistoryInv
<1>3. CASE /\ txn.phase # "none" /\ content(txn') = content(txn)
           /\ failure' = failure
           /\ txn'.phase = "landed" => txn.phase = "landed"
  <2>1. commitOf(txn)' = commitOf(txn) /\ txn'.parent = txn.parent
    BY <1>1, <1>3 DEF commitOf, content, treeAt
  <2> QED
    BY <1>1, <1>3, <2>1 DEF HistoryInv
<1> QED
  BY <1>2, <1>3

\* A commit is added to the history, and memory stays where it is.
LEMMA HistoryExtended ==
    ASSUME TypeInv, HistoryInv, NEW commit, fastForward(commit),
           DOMAIN commit = CommitFields, commit.state.LastID \in 0 .. MaxID,
           UNCHANGED <<up, state, headID, failure>>, content(txn') = content(txn),
           txn'.phase = "none" <=> txn.phase = "none",
           txn'.phase = "landed" => txn.phase = "landed" \/ commit = commitOf(txn)
    PROVE  HistoryInv'
<1>1. TypeOK
  BY DEF TypeInv
<1>2. /\ head \in Nat /\ head' = head + 1 /\ head = commit.parent
      /\ \A i \in 1 .. head : commits'[i] = commits[i]
  BY <1>1, HistoryGrows DEF fastForward
<1>3. commits'[head + 1] = commit
  BY <1>1, AppendFacts DEF TypeOK, fastForward, head
<1>4. \A i \in 1 .. head + 1 : i \in 1 .. head \/ i = head + 1
  BY <1>2
<1>5. ASSUME NEW i \in 1 .. head' PROVE DOMAIN commits'[i] = CommitFields /\ commits'[i].parent = i - 1
  BY <1>2, <1>3, <1>4 DEF HistoryInv
<1>6. up' /\ ~failure' => state' = commits'[headID'].state
  <2>1. up => headID \in 1 .. head
    BY <1>1, <1>2 DEF TypeOK
  <2> QED
    BY <1>2, <2>1 DEF HistoryInv
<1>7. txn'.phase # "none" => ~failure' /\ txn'.parent = headID'
  BY DEF HistoryInv, content
<1>8. txn'.phase = "landed" =>
          txn'.parent + 1 \in 1 .. head' /\ commits'[txn'.parent + 1] = commitOf(txn)'
  <2> SUFFICES ASSUME txn'.phase = "landed"
               PROVE  txn'.parent + 1 \in 1 .. head' /\ commits'[txn'.parent + 1] = commitOf(txn)'
    OBVIOUS
  <2>1. txn.phase # "none" /\ txn.parent \in 1 .. head /\ txn'.parent = txn.parent
    BY <1>1, <1>2 DEF TypeOK, validTransaction, content
  <2>2. commitOf(txn)' = commitOf(txn)
    BY <1>2, <2>1 DEF commitOf, content, treeAt
  <2>3. CASE txn.phase = "landed"
    BY <1>2, <2>1, <2>2, <2>3 DEF HistoryInv
  <2>4. CASE commit = commitOf(txn)
    <3>1. head = txn.parent
      BY <1>2, <2>4 DEF commitOf
    <3> QED
      BY <1>2, <1>3, <2>1, <2>2, <2>4, <3>1
  <2> QED
    BY <2>3, <2>4
<1> QED
  BY <1>5, <1>6, <1>7, <1>8 DEF HistoryInv

LEMMA HistoryInit == Init => HistoryInv
<1> SUFFICES ASSUME Init PROVE HistoryInv
  OBVIOUS
<1>1. head = 1 /\ commits[1] = [parent |-> 0, state |-> initialState, tree |-> initialTree]
  BY DEF Init, head
<1>2. txn.phase = "none" /\ headID = 1 /\ state = initialState
  BY DEF Init, NoTransaction
<1> QED
  BY <1>1, <1>2 DEF HistoryInv, CommitFields

\* The fields of a transaction that an EXCEPT leaves alone.
LEMMA TransactionFields ==
    ASSUME TypeInv
    PROVE  /\ DOMAIN txn = DOMAIN NoTransaction /\ DOMAIN orphan = DOMAIN NoTransaction
           /\ DOMAIN NoTransaction =
                {"phase", "who", "parent", "state", "changes", "removals", "Day", "bytes"}
BY DEF TypeInv, TypeOK, validTransaction, NoTransaction

LEMMA CommitFieldsOf ==
    ASSUME NEW t PROVE DOMAIN commitOf(t) = CommitFields
BY DEF commitOf, CommitFields

LEMMA HistoryNext == TypeInv /\ HistoryInv /\ [Next]_vars => HistoryInv'
<1> SUFFICES ASSUME TypeInv, HistoryInv, [Next]_vars PROVE HistoryInv'
  OBVIOUS
<1> USE DEF disk, memory, calls, clients
<1>1. DOMAIN txn = DOMAIN NoTransaction
      /\ DOMAIN NoTransaction =
            {"phase", "who", "parent", "state", "changes", "removals", "Day", "bytes"}
  BY TransactionFields
<1>2. NoTransaction.phase = "none"
  BY DEF NoTransaction
<1>3. ASSUME UNCHANGED <<commits, up, state, headID, failure, txn>> PROVE HistoryInv'
  <2>1. CASE txn.phase = "none"
    BY <1>3, <2>1, HistoryKept
  <2>2. CASE txn.phase # "none"
    BY <1>3, <2>2, HistoryKept DEF content
  <2> QED
    BY <2>1, <2>2
<1>4. ASSUME UNCHANGED <<commits, up, state, headID>>, failure => failure', txn' = NoTransaction
      PROVE  HistoryInv'
  BY <1>2, <1>4, HistoryKept
<1>5. ASSUME UNCHANGED <<commits, up, state, headID, failure>>, txn.phase # "none",
             content(txn') = content(txn), txn'.phase # "landed"
      PROVE  HistoryInv'
  BY <1>5, HistoryKept
<1>6. ASSUME NEW c \in Conns, ConnNext(c) PROVE HistoryInv'
  <2>1. CASE Stage(c) \/ StageDone(c) \/ Discard(c)
    BY <1>3, <2>1 DEF Stage, StageDone, Discard
  <2>2. CASE \E n \in 1 .. MaxMessage : QuotaRead(c, n)
    BY <1>3, <2>2 DEF QuotaRead
  <2>3. CASE PublishStart(c)
    <3>1. txn'.phase = "charge" /\ txn'.parent = headID
      BY <1>1, <2>3 DEF PublishStart
    <3>2. UNCHANGED <<commits, up, state, headID, failure>> /\ ~failure
      BY <2>3 DEF PublishStart
    <3> QED
      BY <3>1, <3>2 DEF HistoryInv, head
  <2>4. CASE WriteReceipt(c)
    <3>1. txn.phase = "charge" /\ content(txn') = content(txn) /\ txn'.phase = "sync"
      BY <1>1, <2>4 DEF WriteReceipt, content
    <3> QED
      BY <1>5, <2>4, <3>1 DEF WriteReceipt
  <2>5. CASE SyncReceipt(c)
    <3>1. txn.phase = "sync" /\ content(txn') = content(txn) /\ txn'.phase = "commit"
      BY <1>1, <2>5 DEF SyncReceipt, content
    <3> QED
      BY <1>5, <2>5, <3>1 DEF SyncReceipt
  <2>6. CASE ReceiptFails(c)
    BY <1>4, <2>6 DEF ReceiptFails
  <2> QED
    BY <1>6, <2>1, <2>2, <2>3, <2>4, <2>5, <2>6 DEF ConnNext
<1>7. ASSUME NEW s \in Sessions, SessionNext(s) PROVE HistoryInv'
  <2>1. CASE \E ids \in Requests : DeleteAs(s, ids)
    BY <1>3, <2>1 DEF DeleteAs
  <2>2. CASE Snapshot(s) \/ Resolve(s) \/ ResolveFails(s) \/ Retry(s)
    BY <1>3, <2>2 DEF Snapshot, Resolve, ResolveFails, Retry
  <2>3. CASE DeleteNothing(s) \/ DeleteRefused(s)
    BY <1>3, <2>3 DEF DeleteNothing, DeleteRefused
  <2>4. CASE DeleteStart(s)
    <3>1. txn'.phase = "commit" /\ txn'.parent = headID
      BY <1>1, <2>4 DEF DeleteStart
    <3>2. UNCHANGED <<commits, up, state, headID, failure>> /\ ~failure
      BY <2>4 DEF DeleteStart
    <3> QED
      BY <3>1, <3>2 DEF HistoryInv, head
  <2> QED
    BY <1>7, <2>1, <2>2, <2>3, <2>4 DEF SessionNext
<1>8. CASE CommitNext
  <2>1. CASE StartImport
    <3>1. txn.phase = "commit" /\ content(txn') = content(txn) /\ txn'.phase = "import"
      BY <1>1, <2>1 DEF StartImport, content
    <3> QED
      BY <1>5, <2>1, <3>1 DEF StartImport
  <2>2. CASE RefuseCommit
    BY <1>4, <2>2 DEF RefuseCommit, returned
  <2>3. CASE Checkpoint
    <3>1. txn.phase = "import" /\ content(txn') = content(txn) /\ txn'.phase = "landed"
      BY <1>1, <2>3 DEF Checkpoint, content
    <3>2. commitOf(txn).state.LastID \in 0 .. MaxID
      BY DEF commitOf, TypeInv, TypeOK, validTransaction
    <3> QED
      BY <2>3, <3>1, <3>2, CommitFieldsOf, HistoryExtended DEF Checkpoint
  <2>4. CASE CheckpointSkipped
    <3>1. txn.phase = "import" /\ content(txn') = content(txn) /\ txn'.phase = "skipped"
      BY <1>1, <2>4 DEF CheckpointSkipped, content
    <3> QED
      BY <1>5, <2>4, <3>1 DEF CheckpointSkipped
  <2>5. CASE CommitDone
    <3>1. /\ txn.phase = "landed" /\ head = txn.parent + 1 /\ state' = txn.state /\ headID' = head
          /\ txn'.phase = "none" /\ UNCHANGED <<commits, up>>
      BY <1>2, <2>5 DEF CommitDone, verified, returned
    <3>2. commits[head].state = txn.state
      BY <3>1 DEF HistoryInv, commitOf
    <3> QED
      BY <3>1, <3>2 DEF HistoryInv, head
  <2>6. CASE ImportFails
    <3>1. txn'.phase = "none" /\ failure' /\ UNCHANGED <<commits, up>>
      BY <1>2, <2>6 DEF ImportFails, returned
    <3> QED
      BY <3>1 DEF HistoryInv, head
  <2> QED
    BY <1>8, <2>1, <2>2, <2>3, <2>4, <2>5, <2>6 DEF CommitNext
<1>9. CASE EnvironmentNext
  <2>1. CASE IdleClose \/ Close \/ Tick
    BY <1>3, <2>1 DEF IdleClose, Close, Tick
  <2>2. CASE Crash
    <3>1. up' = FALSE /\ commits' = commits /\ txn'.phase = "none"
      BY <1>2, <2>2 DEF Crash
    <3> QED
      BY <3>1 DEF HistoryInv, head
  <2>3. CASE OrphanEOF
    <3>1. CASE UNCHANGED commits
      BY <1>3, <2>3, <3>1 DEF OrphanEOF
    <3>2. CASE fastForward(commitOf(orphan))
      <4>1. commitOf(orphan).state.LastID \in 0 .. MaxID
        BY DEF commitOf, TypeInv, TypeOK, validTransaction
      <4>2. UNCHANGED <<up, state, headID, failure, txn>>
        BY <2>3 DEF OrphanEOF
      <4>3. content(txn') = content(txn)
        BY <4>2 DEF content
      <4> QED
        BY <3>2, <4>1, <4>2, <4>3, CommitFieldsOf, HistoryExtended
    <3> QED
      BY <2>3, <3>1, <3>2 DEF OrphanEOF
  <2>4. CASE Start
    <3>1. /\ state' = commits[head].state /\ headID' = head
          /\ UNCHANGED <<commits, txn>> /\ ~up
      BY <2>4 DEF Start
    <3>2. txn.phase = "none"
      BY <3>1 DEF TypeInv, TypeOK
    <3> QED
      BY <3>1, <3>2 DEF HistoryInv, head
  <2>5. CASE OutsideCommit
    <3> DEFINE commit == [commits[head] EXCEPT !.parent = head]
    <3>1. head \in 1 .. head
      BY DEF TypeInv, TypeOK, head
    <3>2. DOMAIN commit = CommitFields /\ commit.state.LastID \in 0 .. MaxID
      BY <3>1 DEF HistoryInv, TypeInv, TypeOK, CommitFields
    <3>3. UNCHANGED <<up, state, headID, failure, txn>> /\ fastForward(commit)
      BY <2>5 DEF OutsideCommit
    <3>4. content(txn') = content(txn)
      BY <3>3 DEF content
    <3> HIDE DEF commit
    <3> QED
      BY <3>2, <3>3, <3>4, HistoryExtended
  <2>6. CASE Maintain
    <3>1. txn'.phase = "none" /\ ~failure /\ UNCHANGED <<commits, up, state, headID>>
      BY <2>6 DEF Maintain, muFree
    <3> QED
      BY <3>1, HistoryKept
  <2> QED
    BY <1>9, <2>1, <2>2, <2>3, <2>4, <2>5, <2>6 DEF EnvironmentNext
<1>10. CASE UNCHANGED vars
  BY <1>3, <1>10 DEF vars
<1> QED
  BY <1>6, <1>7, <1>8, <1>9, <1>10 DEF Next

LEMMA HistoryAlways == Spec => [](TypeInv /\ HistoryInv)
BY TypeInvInit, NextType, HistoryInit, HistoryNext, PTL DEF Spec

\* Git's history stays a chain in which each commit was built on the one before
\* it, although an importer that outlived picomx and other programs commit to
\* the same branch.
THEOREM LinearHolds == Spec => []HistoryIsLinear
<1>1. TypeInv /\ HistoryInv => HistoryIsLinear
  <2> SUFFICES ASSUME TypeInv, HistoryInv PROVE HistoryIsLinear
    OBVIOUS
  <2>1. DOMAIN commits = 1 .. head
    BY DEF TypeInv, TypeOK, head
  <2> QED
    BY <2>1 DEF HistoryInv, HistoryIsLinear
<1> QED
  BY HistoryAlways, <1>1, PTL

(***************************************************************************)
(* Accepted mail.                                                          *)
(***************************************************************************)
\* A transaction takes away only what some session asked to delete.
removesRequested(t) == \A name \in t.removals : idOf(name) \in UNION requested

\* DeleteAs works on the IDs it was called with.
DeletionInv ==
    /\ requested \subseteq Requests
    /\ DOMAIN deletion = Sessions
    /\ \A s \in Sessions :
          /\ DOMAIN deletion[s] = {"st", "ids", "commit", "state", "messages"}
          /\ deletion[s].st # "idle" => deletion[s].ids \in requested
          /\ deletion[s].st = "lock" => \A m \in deletion[s].messages : m.ID \in deletion[s].ids

DurableInv ==
    /\ AckedIsDurable
    /\ removesRequested(txn) /\ removesRequested(orphan)
    /\ txn.changes = {} \/ txn.removals = {}
    /\ DeletionInv

\* The steps of other calls.
LEMMA DeletionKept ==
    ASSUME DeletionInv, UNCHANGED requested,
           \/ UNCHANGED deletion
           \/ /\ DOMAIN deletion' = Sessions
              /\ \A s \in Sessions : deletion'[s] \in {deletion[s], NoDeletion}
    PROVE  DeletionInv'
BY DEF DeletionInv, NoDeletion

\* A commit keeps what is accepted, except what its transaction removes.
LEMMA AckedKept ==
    ASSUME TypeInv, AckedIsDurable, NEW commit, fastForward(commit),
           commit.state.LastID \in 0 .. MaxID,
           \A name \in treeAt(head) : name \in commit.tree \/ idOf(name) \in UNION requested,
           UNCHANGED <<acked, requested>>
    PROVE  AckedIsDurable'
<1>1. head' = head + 1 /\ commits'[head + 1] = commit
  BY HistoryGrows, AppendFacts DEF TypeInv, TypeOK, fastForward, head
<1>2. treeAt(head)' = commit.tree
  BY <1>1 DEF treeAt
<1>3. \A name : idOf(name)' = idOf(name)
  OBVIOUS
<1> QED
  BY <1>2, <1>3 DEF AckedIsDurable

LEMMA AckedSame ==
    ASSUME AckedIsDurable, UNCHANGED <<commits, acked>>, requested \subseteq requested'
    PROVE  AckedIsDurable'
<1>1. treeAt(head)' = treeAt(head)
  BY DEF treeAt, head
<1> QED
  BY <1>1 DEF AckedIsDurable

LEMMA DurableInit == Init => DurableInv
<1> SUFFICES ASSUME Init PROVE DurableInv
  OBVIOUS
<1>1. treeAt(head) = initialTree /\ acked = initialTree
  BY DEF Init, treeAt, head
<1>2. AckedIsDurable
  BY <1>1 DEF AckedIsDurable
<1>3. removesRequested(txn) /\ removesRequested(orphan) /\ txn.changes = {}
  BY DEF Init, removesRequested, NoTransaction
<1>4. DeletionInv
  BY DEF Init, DeletionInv, NoDeletion
<1> QED
  BY <1>2, <1>3, <1>4 DEF DurableInv

\* The files of the messages a session resolved are named after their IDs.
LEMMA RemovalsRequested ==
    ASSUME DeletionInv, NEW s \in Sessions, deletion[s].st = "lock"
    PROVE  \A name \in pathsOf(deletion[s].messages) : idOf(name) \in UNION requested
<1> SUFFICES ASSUME NEW m \in deletion[s].messages
             PROVE  idOf(messagePath(m.ID, m.Size)) \in UNION requested
  BY DEF pathsOf
<1>1. m.ID \in deletion[s].ids /\ deletion[s].ids \in requested
  BY DEF DeletionInv
<1>2. m.ID \in 1 .. MaxID
  BY <1>1, RequestsAssumption DEF DeletionInv
<1>3. idOf(messagePath(m.ID, m.Size)) = m.ID
  BY <1>2, MessageInverse DEF idOf
<1> QED
  BY <1>1, <1>3

\* The steps of DeleteAs.
LEMMA DeletionSession ==
    ASSUME DeletionInv, NEW s \in Sessions, SessionNext(s)
    PROVE  DeletionInv'
<1>1. DOMAIN deletion = Sessions
      /\ \A r \in Sessions : DOMAIN deletion[r] = {"st", "ids", "commit", "state", "messages"}
  BY DEF DeletionInv
<1>2. DOMAIN NoDeletion = {"st", "ids", "commit", "state", "messages"} /\ NoDeletion.st = "idle"
  BY DEF NoDeletion
<1>3. ASSUME NEW d, deletion' = [deletion EXCEPT ![s] = d],
             DOMAIN d = {"st", "ids", "commit", "state", "messages"},
             requested \subseteq requested', requested' \subseteq Requests,
             d.st # "idle" => d.ids \in requested',
             d.st = "lock" => \A m \in d.messages : m.ID \in d.ids
      PROVE  DeletionInv'
  BY <1>1, <1>3 DEF DeletionInv
<1>4. requested \subseteq Requests
  BY DEF DeletionInv
<1>5. ASSUME NEW ids \in Requests, DeleteAs(s, ids) PROVE DeletionInv'
  <2> DEFINE d == [NoDeletion EXCEPT !.st = "snapshot", !.ids = ids]
  <2>1. /\ DOMAIN d = {"st", "ids", "commit", "state", "messages"}
        /\ d.st = "snapshot" /\ d.ids = ids
    BY <1>2
  <2>2. deletion' = [deletion EXCEPT ![s] = d] /\ requested' = requested \cup {ids}
    BY <1>5 DEF DeleteAs
  <2> HIDE DEF d
  <2> QED
    BY <1>3, <1>4, <2>1, <2>2
<1>6. CASE Snapshot(s)
  <2> DEFINE d == [deletion[s] EXCEPT !.st = "resolve", !.commit = headID, !.state = state]
  <2>1. /\ DOMAIN d = {"st", "ids", "commit", "state", "messages"}
        /\ d.st = "resolve" /\ d.ids = deletion[s].ids
    BY <1>1
  <2>2. deletion' = [deletion EXCEPT ![s] = d] /\ requested' = requested
    BY <1>1, <1>6 DEF Snapshot, clients
  <2>3. d.ids \in requested
    BY <1>6, <2>1 DEF Snapshot, DeletionInv
  <2> HIDE DEF d
  <2> QED
    BY <1>3, <1>4, <2>1, <2>2, <2>3
<1>7. CASE Resolve(s)
  <2> DEFINE index == buildDirectoryIndex(deletion[s].state.Directories)
             tree == treeAt(deletion[s].commit)
             found(id) == messageByID(tree, index, deletion[s].state.LastID, id)
             messages == UNION {found(id) : id \in deletion[s].ids}
             d == [deletion[s] EXCEPT !.st = "lock", !.messages = messages]
  <2>1. \A m \in messages : m.ID \in deletion[s].ids
    BY DEF messageByID
  <2>2. deletion' = [deletion EXCEPT ![s] = d] /\ requested' = requested
    BY <1>1, <1>7 DEF Resolve, clients
  <2> HIDE DEF messages
  <2>3. /\ DOMAIN d = {"st", "ids", "commit", "state", "messages"}
        /\ d.st = "lock" /\ d.ids = deletion[s].ids /\ d.messages = messages
    BY <1>1
  <2>4. d.ids \in requested
    BY <1>7, <2>3 DEF Resolve, DeletionInv
  <2> HIDE DEF d
  <2> QED
    BY <1>3, <1>4, <2>1, <2>2, <2>3, <2>4
<1>8. CASE ResolveFails(s) \/ DeleteNothing(s) \/ DeleteRefused(s)
  <2>1. deletion' = [deletion EXCEPT ![s] = NoDeletion] /\ requested' = requested
    BY <1>8 DEF ResolveFails, DeleteNothing, DeleteRefused, clients
  <2> QED
    BY <1>2, <1>3, <1>4, <2>1
<1>9. ASSUME NEW st \in {"snapshot", "committing"}, deletion[s].st = "lock",
             deletion' = [deletion EXCEPT ![s].st = st], requested' = requested
      PROVE  DeletionInv'
  <2> DEFINE d == [deletion[s] EXCEPT !.st = st]
  <2>1. /\ DOMAIN d = {"st", "ids", "commit", "state", "messages"}
        /\ d.st = st /\ d.ids = deletion[s].ids
    BY <1>1
  <2>2. deletion' = [deletion EXCEPT ![s] = d]
    BY <1>1, <1>9
  <2>3. d.ids \in requested
    BY <1>9, <2>1 DEF DeletionInv
  <2> HIDE DEF d
  <2> QED
    BY <1>3, <1>4, <1>9, <2>1, <2>2, <2>3
<1>10. CASE Retry(s)
  BY <1>9, <1>10 DEF Retry, clients
<1>11. CASE DeleteStart(s)
  BY <1>9, <1>11 DEF DeleteStart, clients
<1> QED
  BY <1>5, <1>6, <1>7, <1>8, <1>10, <1>11 DEF SessionNext

\* Of a transaction a crash leaves nothing, all, or a part.
LEMMA LeftoversRequested ==
    ASSUME TypeInv, removesRequested(txn), NEW t \in leftovers
    PROVE  removesRequested(t)
<1>1. DOMAIN txn = {"phase", "who", "parent", "state", "changes", "removals", "Day", "bytes"}
  BY TransactionFields
<1>2. removesRequested(NoTransaction)
  BY DEF removesRequested, NoTransaction
<1>3. CASE txn.phase # "import"
  BY <1>2, <1>3 DEF leftovers
<1>4. CASE txn.phase = "import"
  <2>1. \/ t = NoTransaction \/ t = txn
        \/ \E read \in SUBSET txn.removals :
              t = [txn EXCEPT !.changes = {}, !.removals = read]
        \/ \E read : t = [txn EXCEPT !.state = commits[txn.parent].state, !.changes = read,
                                     !.removals = {}]
    BY <1>4 DEF leftovers
  <2>2. ASSUME NEW read \in SUBSET txn.removals,
               t = [txn EXCEPT !.changes = {}, !.removals = read]
        PROVE  removesRequested(t)
    BY <1>1, <2>2 DEF removesRequested
  <2>3. ASSUME NEW read,
               t = [txn EXCEPT !.state = commits[txn.parent].state, !.changes = read,
                               !.removals = {}]
        PROVE  removesRequested(t)
    <3>1. t.removals = {}
      BY <1>1, <2>3
    <3> QED
      BY <3>1 DEF removesRequested
  <2> QED
    BY <1>2, <2>1, <2>2, <2>3
<1> QED
  BY <1>3, <1>4

\* Steps that move HEAD nowhere and tell no client anything.
LEMMA DurableKept ==
    ASSUME DurableInv, UNCHANGED <<commits, orphan, acked, requested>>, DeletionInv',
           txn' = NoTransaction \/ content(txn') = content(txn)
    PROVE  DurableInv'
<1>1. AckedIsDurable'
  BY AckedSame DEF DurableInv
<1>2. /\ removesRequested(txn)' /\ removesRequested(orphan)'
      /\ txn'.changes = {} \/ txn'.removals = {}
  BY DEF DurableInv, removesRequested, content, NoTransaction
<1> QED
  BY <1>1, <1>2 DEF DurableInv

\* A transaction that becomes a commit.
LEMMA DurableCommit ==
    ASSUME TypeInv, DurableInv, NEW t \in {txn, orphan}, fastForward(commitOf(t)),
           UNCHANGED <<acked, requested>>
    PROVE  AckedIsDurable'
<1>1. commitOf(t).state.LastID \in 0 .. MaxID
  BY DEF commitOf, TypeInv, TypeOK, validTransaction
<1>2. removesRequested(t) /\ AckedIsDurable
  BY DEF DurableInv
<1>3. head = t.parent
  BY DEF fastForward, commitOf
<1>4. \A name \in treeAt(head) : name \in commitOf(t).tree \/ idOf(name) \in UNION requested
  BY <1>2, <1>3 DEF commitOf, removesRequested
<1> DEFINE commit == commitOf(t)
<1> HIDE DEF commit
<1>5. /\ fastForward(commit) /\ commit.state.LastID \in 0 .. MaxID
      /\ \A name \in treeAt(head) : name \in commit.tree \/ idOf(name) \in UNION requested
  BY <1>1, <1>4 DEF commit
<1> QED
  BY <1>2, <1>5, AckedKept

LEMMA DurableNext ==
    TypeInv /\ HistoryInv /\ DurableInv /\ [Next]_vars => DurableInv'
<1> SUFFICES ASSUME TypeInv, HistoryInv, DurableInv, [Next]_vars PROVE DurableInv'
  OBVIOUS
<1> USE DEF disk, memory, calls, clients
<1>1. /\ DOMAIN txn = DOMAIN NoTransaction
      /\ DOMAIN NoTransaction =
            {"phase", "who", "parent", "state", "changes", "removals", "Day", "bytes"}
      /\ NoTransaction.changes = {} /\ NoTransaction.removals = {}
  BY TransactionFields DEF NoTransaction
<1>2. DeletionInv /\ AckedIsDurable /\ removesRequested(orphan)
  BY DEF DurableInv
<1>3. ASSUME UNCHANGED <<commits, orphan, acked, requested, deletion>>,
             txn' = NoTransaction \/ content(txn') = content(txn)
      PROVE  DurableInv'
  BY <1>2, <1>3, DeletionKept, DurableKept
<1>4. txn' = txn => content(txn') = content(txn)
  BY DEF content
<1>5. ASSUME NEW c \in Conns, ConnNext(c) PROVE DurableInv'
  <2>1. CASE Stage(c) \/ StageDone(c) \/ Discard(c)
    BY <1>3, <1>4, <2>1 DEF Stage, StageDone, Discard
  <2>2. CASE \E n \in 1 .. MaxMessage : QuotaRead(c, n)
    BY <1>3, <1>4, <2>2 DEF QuotaRead
  <2>3. CASE PublishStart(c)
    <3>1. txn'.removals = {} /\ UNCHANGED <<commits, orphan, acked, requested, deletion>>
      BY <1>1, <2>3 DEF PublishStart
    <3>2. DeletionInv' /\ AckedIsDurable'
      BY <1>2, <3>1, DeletionKept, AckedSame
    <3> QED
      BY <1>2, <3>1, <3>2 DEF DurableInv, removesRequested
  <2>4. CASE WriteReceipt(c)
    <3>1. content(txn') = content(txn)
      BY <1>1, <2>4 DEF WriteReceipt, content
    <3> QED
      BY <1>3, <2>4, <3>1 DEF WriteReceipt
  <2>5. CASE SyncReceipt(c)
    <3>1. content(txn') = content(txn)
      BY <1>1, <2>5 DEF SyncReceipt, content
    <3> QED
      BY <1>3, <2>5, <3>1 DEF SyncReceipt
  <2>6. CASE ReceiptFails(c)
    BY <1>3, <2>6 DEF ReceiptFails
  <2> QED
    BY <1>5, <2>1, <2>2, <2>3, <2>4, <2>5, <2>6 DEF ConnNext
<1>6. ASSUME NEW s \in Sessions, SessionNext(s) PROVE DurableInv'
  <2>1. DeletionInv'
    BY <1>2, <1>6, DeletionSession
  <2>2. CASE Snapshot(s) \/ Resolve(s) \/ ResolveFails(s) \/ Retry(s) \/ DeleteRefused(s)
    BY <1>4, <2>1, <2>2, DurableKept DEF Snapshot, Resolve, ResolveFails, Retry, DeleteRefused
  <2>3. CASE DeleteNothing(s)
    BY <1>4, <2>1, <2>3, DurableKept DEF DeleteNothing
  <2>4. ASSUME NEW ids \in Requests, DeleteAs(s, ids) PROVE DurableInv'
    <3>1. /\ UNCHANGED <<commits, orphan, acked, txn>>
          /\ requested' = requested \cup {ids}
      BY <2>4 DEF DeleteAs
    <3>2. AckedIsDurable'
      BY <1>2, <3>1, AckedSame
    <3> QED
      BY <2>1, <3>1, <3>2 DEF DurableInv, removesRequested
  <2>5. CASE DeleteStart(s)
    <3>1. /\ txn'.removals = pathsOf(deletion[s].messages) /\ txn'.changes = {}
          /\ UNCHANGED <<commits, orphan, acked, requested>>
          /\ deletion[s].st = "lock"
      BY <1>1, <2>5 DEF DeleteStart
    <3>2. AckedIsDurable'
      BY <1>2, <3>1, AckedSame
    <3>3. removesRequested(txn)'
      BY <1>2, <3>1, RemovalsRequested DEF removesRequested
    <3> QED
      BY <1>2, <2>1, <3>1, <3>2, <3>3 DEF DurableInv, removesRequested
  <2> QED
    BY <1>6, <2>2, <2>3, <2>4, <2>5 DEF SessionNext
<1>7. returned => /\ DOMAIN deletion' = Sessions
                  /\ \A s \in Sessions : deletion'[s] \in {deletion[s], NoDeletion}
  BY DEF returned
<1>8. CASE CommitNext
  <2>1. CASE StartImport
    <3>1. content(txn') = content(txn)
      BY <1>1, <2>1 DEF StartImport, content
    <3> QED
      BY <1>3, <2>1, <3>1 DEF StartImport
  <2>2. CASE RefuseCommit \/ ImportFails
    <3>1. UNCHANGED <<commits, orphan, acked, requested>> /\ returned /\ txn' = NoTransaction
      BY <2>2 DEF RefuseCommit, ImportFails, returned
    <3> QED
      BY <1>2, <1>7, <3>1, DeletionKept, DurableKept
  <2>3. CASE Checkpoint
    <3>1. content(txn') = content(txn) /\ UNCHANGED <<orphan, acked, requested, deletion>>
      BY <1>1, <2>3 DEF Checkpoint, content
    <3>2. AckedIsDurable'
      BY <2>3, <3>1, DurableCommit DEF Checkpoint
    <3>3. DeletionInv'
      BY <1>2, <3>1, DeletionKept
    <3> QED
      BY <3>1, <3>2, <3>3 DEF DurableInv, removesRequested, content
  <2>4. CASE CheckpointSkipped
    <3>1. content(txn') = content(txn)
      BY <1>1, <2>4 DEF CheckpointSkipped, content
    <3> QED
      BY <1>3, <2>4, <3>1 DEF CheckpointSkipped
  <2>5. CASE CommitDone
    <3>1. /\ UNCHANGED <<commits, orphan, requested>> /\ returned /\ txn' = NoTransaction
          /\ acked' = acked \cup txn.changes
          /\ txn.phase = "landed" /\ head = txn.parent + 1
      BY <2>5 DEF CommitDone, returned, verified
    <3>2. treeAt(head) = (treeAt(txn.parent) \cup txn.changes) \ txn.removals
      BY <3>1 DEF HistoryInv, commitOf, treeAt
    <3>3. txn.changes \subseteq treeAt(head)
      BY <3>2 DEF DurableInv
    <3>4. AckedIsDurable'
      <4>1. treeAt(head)' = treeAt(head)
        BY <3>1 DEF treeAt, head
      <4> QED
        BY <1>2, <3>1, <3>3, <4>1 DEF AckedIsDurable
    <3>5. DeletionInv'
      BY <1>2, <1>7, <3>1, DeletionKept
    <3> QED
      BY <1>1, <3>1, <3>4, <3>5 DEF DurableInv, removesRequested
  <2> QED
    BY <1>8, <2>1, <2>2, <2>3, <2>4, <2>5 DEF CommitNext
<1>9. CASE EnvironmentNext
  <2>1. CASE IdleClose \/ Close \/ Maintain \/ Tick \/ Start
    BY <1>3, <1>4, <2>1 DEF IdleClose, Close, Maintain, Tick, Start
  <2>2. CASE Crash
    <3>1. /\ UNCHANGED <<commits, acked, requested>> /\ txn' = NoTransaction
          /\ orphan' \in {orphan} \cup leftovers
          /\ deletion' = [s \in Sessions |-> NoDeletion]
      BY <2>2 DEF Crash
    <3>2. AckedIsDurable' /\ DeletionInv'
      BY <1>2, <3>1, AckedSame, DeletionKept
    <3>3. removesRequested(orphan')
      BY <3>1, LeftoversRequested DEF DurableInv
    <3> QED
      BY <1>1, <3>1, <3>2, <3>3 DEF DurableInv, removesRequested
  <2>3. CASE OrphanEOF
    <3>1. UNCHANGED <<txn, acked, requested, deletion>> /\ orphan' = NoTransaction
      BY <2>3 DEF OrphanEOF
    <3>2. AckedIsDurable'
      <4>1. CASE UNCHANGED commits
        BY <1>2, <3>1, <4>1, AckedSame
      <4>2. CASE fastForward(commitOf(orphan))
        BY <3>1, <4>2, DurableCommit
      <4> QED
        BY <2>3, <4>1, <4>2 DEF OrphanEOF
    <3>3. DeletionInv'
      BY <1>2, <3>1, DeletionKept
    <3> QED
      BY <1>1, <3>1, <3>2, <3>3 DEF DurableInv, removesRequested
  <2>4. CASE OutsideCommit
    <3> DEFINE commit == [commits[head] EXCEPT !.parent = head]
    <3>1. UNCHANGED <<txn, orphan, acked, requested, deletion>> /\ fastForward(commit)
      BY <2>4 DEF OutsideCommit
    <3>2. head \in 1 .. head
      BY DEF TypeInv, TypeOK, head
    <3>3. commit.tree = treeAt(head) /\ commit.state.LastID \in 0 .. MaxID
      BY <3>2 DEF HistoryInv, TypeInv, TypeOK, CommitFields, treeAt
    <3> HIDE DEF commit
    <3>4. AckedIsDurable'
      BY <1>2, <3>1, <3>3, AckedKept
    <3>5. DeletionInv'
      BY <1>2, <3>1, DeletionKept
    <3> QED
      BY <3>1, <3>4, <3>5 DEF DurableInv, removesRequested
  <2> QED
    BY <1>9, <2>1, <2>2, <2>3, <2>4 DEF EnvironmentNext
<1>10. CASE UNCHANGED vars
  BY <1>3, <1>4, <1>10 DEF vars
<1> QED
  BY <1>5, <1>6, <1>8, <1>9, <1>10 DEF Next

\* A message that was answered with 250 is in HEAD until a session asks to
\* delete it, whatever fails, crashes, is cut off in the middle of a commit or
\* lands late: no deletion removes a file it was not asked for, and picomx
\* answers only after it has read its own commit back from HEAD.
THEOREM AckedHolds == Spec => []AckedIsDurable
<1>1. DurableInv => AckedIsDurable
  BY DEF DurableInv
<1> QED
  BY HistoryAlways, DurableInit, DurableNext, <1>1, PTL DEF Spec
=============================================================================
