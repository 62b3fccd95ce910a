---------------------------- MODULE WalletProofs ----------------------------
(***************************************************************************)
(* Proofs about Wallet, for every set of users and transfers, every        *)
(* initial balance and every bound.                                        *)
(***************************************************************************)
EXTENDS WalletInvariants, TLAPS

USE TransfersAssumption, BalanceAssumption, AmountsAssumption

\* The idle main thread is well-typed: there is at least one transfer.
LEMMA IdleType == Idle \in [at : MainAt, txn : Transfers, new : Int]
<1>1. PICK t \in Transfers : TRUE
  OBVIOUS
<1>2. (CHOOSE x \in Transfers : TRUE) \in Transfers
  BY <1>1
<1>3. QED
  BY <1>2 DEF Idle, MainAt, Ops, BalanceOps

\* An appended write keeps the queues well-typed.
LEMMA EnqueueType ==
    ASSUME TypeOK, NEW u \in Users, NEW op \in Ops, NEW t \in Transfers,
           NEW b \in Int, Enqueue(u, op, t, b)
    PROVE  queue' \in [Users -> Seq(Write)]
<1>1. [op |-> op, txn |-> t, amount |-> b] \in Write
  BY DEF Write
<1>2. queue[u] \in Seq(Write)
  BY DEF TypeOK
<1>3. Append(queue[u], [op |-> op, txn |-> t, amount |-> b]) \in Seq(Write)
  BY <1>1, <1>2
<1>4. QED
  BY <1>3 DEF TypeOK, Enqueue

\* The parties and the amount of a payment.
LEMMA PaymentType ==
    ASSUME TypeOK, NEW t \in Transfers
    PROVE  From(t) \in Users /\ To(t) \in Users /\ From(t) # To(t) /\ Amount(t) \in Nat
BY DEF TypeOK, Payment, From, To, Amount

\* The main thread goes on to another statement.
LEMMA MainAtType ==
    ASSUME TypeOK, NEW u \in Users, NEW a \in MainAt, main' = [main EXCEPT ![u].at = a]
    PROVE  main' \in [Users -> [at : MainAt, txn : Transfers, new : Int]]
<1>1. main \in [Users -> [at : MainAt, txn : Transfers, new : Int]]
  BY DEF TypeOK
<1>2. [main[u] EXCEPT !.at = a] \in [at : MainAt, txn : Transfers, new : Int]
  BY <1>1
<1>3. main' = [main EXCEPT ![u] = [main[u] EXCEPT !.at = a]]
  OBVIOUS
<1>4. QED
  BY <1>1, <1>2, <1>3

\* ProcessEnds leaves what it resets well-typed.
LEMMA ProcessEndsType ==
    ASSUME TypeOK, NEW u \in Users, ProcessEnds(u)
    PROVE  /\ balance' \in [Users -> Int]
           /\ committed' \in [Transfers -> [Ops -> Nat]]
           /\ asked' \in [Users -> Nat]
           /\ answers' \in [Users -> Seq(Int)]
           /\ listeners' \in [Users -> Seq(SUBSET Transfers)]
           /\ fetches' \in [Transfers -> Nat]
           /\ sessions' \in [Users -> Nat]
           /\ curr_balance' \in [Users -> Int]
           /\ main' \in [Users -> [at : MainAt, txn : Transfers, new : Int]]
           /\ thread' \in [Transfers -> [at : ThreadAt, new : Int]]
           /\ xfer' \in [Transfers -> Payment]
           /\ crashes' \in Nat
<1>1. <<>> \in Seq(Int) /\ <<>> \in Seq(SUBSET Transfers)
  OBVIOUS
<1>2. thread' \in [Transfers -> [at : ThreadAt, new : Int]]
  BY DEF TypeOK, ProcessEnds, ThreadAt
<1>3. main' \in [Users -> [at : MainAt, txn : Transfers, new : Int]]
  BY IdleType DEF TypeOK, ProcessEnds
<1>4. /\ answers' \in [Users -> Seq(Int)]
      /\ listeners' \in [Users -> Seq(SUBSET Transfers)]
  BY <1>1 DEF TypeOK, ProcessEnds
<1>5. /\ asked' \in [Users -> Nat]
      /\ sessions' \in [Users -> Nat]
      /\ curr_balance' \in [Users -> Int]
      /\ crashes' \in Nat
  <2>1. /\ asked' = [asked EXCEPT ![u] = 0]
        /\ sessions' = [sessions EXCEPT ![u] = 0]
        /\ curr_balance' = [curr_balance EXCEPT ![u] = 0]
        /\ crashes' = crashes + 1
    BY DEF ProcessEnds
  <2>2. QED
    BY <2>1 DEF TypeOK
<1>6. fetches' \in [Transfers -> Nat]
  BY DEF TypeOK, ProcessEnds
<1>7. UNCHANGED <<balance, committed, xfer>>
  BY DEF ProcessEnds, server
<1>8. /\ balance' \in [Users -> Int]
      /\ committed' \in [Transfers -> [Ops -> Nat]]
      /\ xfer' \in [Transfers -> Payment]
  BY <1>7 DEF TypeOK
<1>9. QED
  BY <1>2, <1>3, <1>4, <1>5, <1>6, <1>8

LEMMA InitType == Init => TypeOK
<1> SUFFICES ASSUME Init PROVE TypeOK
  OBVIOUS
<1>1. committed \in [Transfers -> [Ops -> Nat]]
  BY DEF Init
<1>2. main \in [Users -> [at : MainAt, txn : Transfers, new : Int]]
  BY IdleType DEF Init
<1>3. thread \in [Transfers -> [at : ThreadAt, new : Int]]
  BY DEF Init, ThreadAt
<1>4. /\ queue \in [Users -> Seq(Write)]
      /\ answers \in [Users -> Seq(Int)]
      /\ listeners \in [Users -> Seq(SUBSET Transfers)]
  BY DEF Init
<1>5. QED
  BY <1>1, <1>2, <1>3, <1>4 DEF Init, TypeOK

LEMMA NextType == TypeOK /\ [Next]_vars => TypeOK'
<1> SUFFICES ASSUME TypeOK, [Next]_vars PROVE TypeOK'
  OBVIOUS
<1> USE DEF server, device, client, app
<1>1. ASSUME NEW u \in Users, SignIn(u) PROVE TypeOK'
  <2>1. /\ sessions' \in [Users -> Nat]
        /\ curr_balance' \in [Users -> Int]
        /\ asked' \in [Users -> Nat]
    BY <1>1 DEF SignIn, TypeOK
  <2>2. QED
    BY <1>1, <2>1 DEF SignIn, TypeOK
<1>2. ASSUME NEW u \in Users, GetBalance(u) PROVE TypeOK'
  <2>0. local[u] \in Int
    BY DEF TypeOK
  <2>1. PICK b \in Int : answers' = [answers EXCEPT ![u] = Append(@, b)]
    <3>1. PICK b \in {local[u]} \cup (IF "balanceLoad" \in Failures THEN {0} ELSE {}) :
             answers' = [answers EXCEPT ![u] = Append(@, b)]
      BY <1>2 DEF GetBalance
    <3>2. b \in Int
      BY <2>0, <3>1
    <3>3. QED
      BY <3>1, <3>2
  <2>2. answers' \in [Users -> Seq(Int)]
    BY <2>1 DEF TypeOK
  <2>3. asked' \in [Users -> Nat]
    BY <1>2 DEF GetBalance, TypeOK
  <2>4. QED
    BY <1>2, <2>2, <2>3 DEF GetBalance, TypeOK
<1>3. ASSUME NEW u \in Users, BalanceLoaded(u) PROVE TypeOK'
  <2>1. /\ Head(answers[u]) \in Int
        /\ Tail(answers[u]) \in Seq(Int)
    BY <1>3 DEF BalanceLoaded, TypeOK
  <2>2. Append(listeners[u], {}) \in Seq(SUBSET Transfers)
    BY DEF TypeOK
  <2>3. QED
    BY <1>3, <2>1, <2>2 DEF BalanceLoaded, TypeOK
<1>4. ASSUME NEW u \in Users, NEW i \in DOMAIN listeners[u], Snapshot(u, i) PROVE TypeOK'
  <2>1. View(u) \in SUBSET Transfers
    BY DEF View
  <2>2. listeners' \in [Users -> Seq(SUBSET Transfers)]
    <3>1. listeners[u] \in Seq(SUBSET Transfers)
      BY DEF TypeOK
    <3>2. [listeners[u] EXCEPT ![i] = View(u)] \in Seq(SUBSET Transfers)
      BY <3>1, <2>1
    <3>3. listeners' = [listeners EXCEPT ![u] = [listeners[u] EXCEPT ![i] = View(u)]]
      BY <1>4 DEF Snapshot, TypeOK
    <3>4. QED
      BY <3>2, <3>3 DEF TypeOK
  <2>3. fetches' \in [Transfers -> Nat]
    <3>1. CASE fetches' = fetches
      BY <3>1 DEF TypeOK
    <3>2. ASSUME NEW t \in Incoming(u, View(u)), fetches' = [fetches EXCEPT ![t] = @ + 1]
          PROVE  fetches' \in [Transfers -> Nat]
      <4>1. t \in Transfers
        BY <3>2, <2>1 DEF Incoming
      <4>2. QED
        BY <3>2, <4>1 DEF TypeOK
    <3>3. QED
      BY <1>4, <3>1, <3>2 DEF Snapshot
  <2>4. QED
    BY <1>4, <2>2, <2>3 DEF Snapshot, TypeOK
<1>5. ASSUME NEW u \in Users, CreditWrite(u) PROVE TypeOK'
  <2>1. main' \in [Users -> [at : MainAt, txn : Transfers, new : Int]]
    BY <1>5, MainAtType DEF CreditWrite, MainAt
  <2>2. curr_balance' \in [Users -> Int]
    BY <1>5 DEF CreditWrite, TypeOK
  <2>3. QED
    BY <1>5, <2>1, <2>2 DEF CreditWrite, TypeOK
<1>6. ASSUME NEW u \in Users, CreditEncode(u) PROVE TypeOK'
  <2>1. [at |-> "credit", txn |-> main[u].txn, new |-> curr_balance[u]]
            \in [at : MainAt, txn : Transfers, new : Int]
    BY DEF TypeOK, MainAt, Ops, BalanceOps
  <2>2. main' \in [Users -> [at : MainAt, txn : Transfers, new : Int]]
    BY <1>6, <2>1 DEF CreditEncode, TypeOK
  <2>3. QED
    BY <1>6, <2>2 DEF CreditEncode, TypeOK
<1>7. ASSUME NEW u \in Users, CreditUpdate(u) PROVE TypeOK'
  <2>1. main[u].txn \in Transfers /\ main[u].new \in Int
    BY DEF TypeOK
  <2>2. queue' \in [Users -> Seq(Write)]
    BY <1>7, <2>1, EnqueueType DEF CreditUpdate, EnqueueBalance, Ops, BalanceOps
  <2>3. QED
    <3>1. main' = [main EXCEPT ![u].at = "received"]
      BY <1>7 DEF CreditUpdate
    <3>2. main' \in [Users -> [at : MainAt, txn : Transfers, new : Int]]
      BY <3>1, MainAtType DEF MainAt, Ops, BalanceOps
    <3>3. QED
      BY <1>7, <2>1, <2>2, <3>2 DEF CreditUpdate, EnqueueBalance, TypeOK
<1>8. ASSUME NEW u \in Users, WriteDocument(u) PROVE TypeOK'
  <2>1. main[u].txn \in Transfers /\ main[u].at \in Ops
    BY <1>8 DEF WriteDocument, After, TypeOK, Ops
  <2>2. queue' \in [Users -> Seq(Write)]
    BY <1>8, <2>1, EnqueueType DEF WriteDocument
  <2>3. After[main[u].at] \in MainAt
    BY <1>8 DEF WriteDocument, After, MainAt, Ops, BalanceOps
  <2>4. QED
    BY <1>8, <2>2, <2>3 DEF WriteDocument, TypeOK
<1>9. ASSUME NEW u \in Users, Commit(u) PROVE TypeOK'
  <2>1. /\ Head(queue[u]) \in Write
        /\ Tail(queue[u]) \in Seq(Write)
    BY <1>9 DEF Commit, TypeOK
  <2>2. committed' \in [Transfers -> [Ops -> Nat]]
    <3>1. PICK w \in Write : committed' = [committed EXCEPT ![w.txn][w.op] = @ + 1]
      BY <1>9, <2>1 DEF Commit
    <3>2. w.txn \in Transfers /\ w.op \in Ops
      BY <3>1 DEF Write
    <3>3. committed[w.txn] \in [Ops -> Nat]
      BY <3>2 DEF TypeOK
    <3>4. [committed[w.txn] EXCEPT ![w.op] = @ + 1] \in [Ops -> Nat]
      BY <3>2, <3>3
    <3>5. committed' = [committed EXCEPT ![w.txn] = [committed[w.txn] EXCEPT ![w.op] = @ + 1]]
      BY <3>1
    <3>6. QED
      BY <3>2, <3>4, <3>5 DEF TypeOK
  <2>3. balance' \in [Users -> Int]
    BY <1>9, <2>1 DEF Commit, TypeOK, Write
  <2>4. QED
    BY <1>9, <2>1, <2>2, <2>3 DEF Commit, TypeOK
<1>10. ASSUME NEW u \in Users, Stops(u) PROVE TypeOK'
  <2>1. CASE Crash(u) \/ ListenerError(u)
    BY <2>1, ProcessEndsType DEF Crash, ListenerError, TypeOK
  <2>2. CASE NewDevice(u)
    <3>1. <<>> \in Seq(Write)
      OBVIOUS
    <3>2. QED
      BY <2>2, <3>1, ProcessEndsType DEF NewDevice, TypeOK
  <2>3. QED
    BY <1>10, <2>1, <2>2 DEF Stops
<1>11. ASSUME NEW t \in Transfers, PayPressed(t) PROVE TypeOK'
  BY <1>11 DEF PayPressed, TypeOK, ThreadAt
<1>12. ASSUME NEW t \in Transfers, PayThread(t) PROVE TypeOK'
  <2>0. From(t) \in Users /\ Amount(t) \in Nat
    BY PaymentType
  <2>1. CASE DebitRead(t)
    <3>1. curr_balance[From(t)] - Amount(t) \in Int
      BY <2>0 DEF TypeOK
    <3>2. PICK a \in {"write", "refused"} : thread' = [thread EXCEPT ![t] =
                [at |-> a, new |-> curr_balance[From(t)] - Amount(t)]]
      BY <2>1 DEF DebitRead
    <3>3. thread' \in [Transfers -> [at : ThreadAt, new : Int]]
      BY <3>1, <3>2 DEF TypeOK, ThreadAt
    <3>4. QED
      BY <2>1, <3>3 DEF DebitRead, TypeOK
  <2>2. CASE DebitWrite(t)
    BY <2>0, <2>2 DEF DebitWrite, TypeOK, ThreadAt
  <2>3. CASE DebitEncode(t)
    BY <2>0, <2>3 DEF DebitEncode, TypeOK, ThreadAt
  <2>4. CASE DebitUpdate(t)
    <3>1. thread[t].new \in Int
      BY DEF TypeOK
    <3>2. queue' \in [Users -> Seq(Write)]
      BY <2>0, <2>4, <3>1, EnqueueType DEF DebitUpdate, EnqueueBalance, Ops, BalanceOps
    <3>3. QED
      BY <2>0, <2>4, <3>1, <3>2 DEF DebitUpdate, EnqueueBalance, TypeOK, ThreadAt
  <2>5. QED
    BY <1>12, <2>1, <2>2, <2>3, <2>4 DEF PayThread
<1>13. ASSUME NEW t \in Transfers, SendKeys(t) PROVE TypeOK'
  <2>0. From(t) \in Users
    BY PaymentType
  <2>1. thread' \in [Transfers -> [at : ThreadAt, new : Int]]
    <3>1. thread' = [thread EXCEPT ![t].at = "done"]
      BY <1>13 DEF SendKeys, SendKeysFetched, SendKeysMissing
    <3>2. QED
      BY <3>1 DEF TypeOK, ThreadAt
  <2>2. main' \in [Users -> [at : MainAt, txn : Transfers, new : Int]]
    <3>1. CASE SendKeysFetched(t)
      <4>1. [at |-> "send", txn |-> t, new |-> 0] \in [at : MainAt, txn : Transfers, new : Int]
        BY DEF MainAt, Ops, BalanceOps
      <4>2. QED
        BY <3>1, <4>1 DEF SendKeysFetched, TypeOK
    <3>2. CASE SendKeysMissing(t)
      BY <3>2 DEF SendKeysMissing, TypeOK
    <3>3. QED
      BY <1>13, <3>1, <3>2 DEF SendKeys
  <2>3. QED
    BY <1>13, <2>1, <2>2 DEF SendKeys, SendKeysFetched, SendKeysMissing, TypeOK
<1>14. ASSUME NEW t \in Transfers, ReceiveKeys(t) PROVE TypeOK'
  <2>0. To(t) \in Users /\ Amount(t) \in Nat
    BY PaymentType
  <2>1. CASE ReceiveKeysFetched(t)
    <3>1. fetches' \in [Transfers -> Nat]
      BY <2>1 DEF ReceiveKeysFetched, TypeOK
    <3>2. curr_balance[To(t)] + Amount(t) \in Int
      BY <2>0 DEF TypeOK
    <3>3. PICK a \in {"write", "received"} : main' = [main EXCEPT ![To(t)] =
                [at |-> a, txn |-> t, new |-> curr_balance[To(t)] + Amount(t)]]
      BY <2>1 DEF ReceiveKeysFetched
    <3>4. main' \in [Users -> [at : MainAt, txn : Transfers, new : Int]]
      BY <2>0, <3>2, <3>3 DEF TypeOK, MainAt, Ops, BalanceOps
    <3>5. QED
      BY <2>1, <3>1, <3>4 DEF ReceiveKeysFetched, TypeOK
  <2>2. CASE ReceiveDropped(t)
    <3>1. fetches' \in [Transfers -> Nat]
      BY <2>2 DEF ReceiveDropped, TypeOK
    <3>2. QED
      BY <2>2, <3>1 DEF ReceiveDropped, TypeOK
  <2>3. QED
    BY <1>14, <2>1, <2>2 DEF ReceiveKeys
<1>15. CASE UNCHANGED vars
  BY <1>15 DEF vars, TypeOK
<1>16. QED
  BY <1>1, <1>2, <1>3, <1>4, <1>5, <1>6, <1>7, <1>8, <1>9, <1>10, <1>11, <1>12,
     <1>13, <1>14, <1>15 DEF Next, SessionNext, MainThread

\* Every reachable state is well-typed.
THEOREM TypeCorrect == Spec => []TypeOK
<1>1. QED
  BY InitType, NextType, PTL DEF Spec

-----------------------------------------------------------------------------
(* What the steps on the queues do, position by position.                  *)

\* The writes of a queue are writes, and its length is a number.
LEMMA QueueType ==
    ASSUME TypeOK, NEW u \in Users
    PROVE  /\ Len(queue[u]) \in Nat
           /\ \A i \in 1..Len(queue[u]) : /\ queue[u][i] \in Write
                                          /\ queue[u][i].op \in Ops
                                          /\ queue[u][i].txn \in Transfers
                                          /\ queue[u][i].amount \in Int
<1>1. queue[u] \in Seq(Write)
  BY DEF TypeOK
<1>2. \A i \in 1..Len(queue[u]) : queue[u][i] \in Write
  BY <1>1
<1>3. QED
  BY <1>1, <1>2 DEF Write

\* A write that is enqueued goes behind the ones that are there.
LEMMA EnqueueFacts ==
    ASSUME TypeOK, NEW u \in Users, NEW op \in Ops, NEW t \in Transfers,
           NEW b \in Int, Enqueue(u, op, t, b)
    PROVE  /\ \A v \in Users : v # u => queue'[v] = queue[v]
           /\ Len(queue'[u]) = Len(queue[u]) + 1
           /\ \A i \in 1..Len(queue[u]) : queue'[u][i] = queue[u][i]
           /\ queue'[u][Len(queue[u]) + 1] = [op |-> op, txn |-> t, amount |-> b]
<1> DEFINE w == [op |-> op, txn |-> t, amount |-> b]
<1>1. queue[u] \in Seq(Write) /\ w \in Write
  BY DEF TypeOK, Write
<1>2. queue' = [queue EXCEPT ![u] = Append(queue[u], w)]
  BY DEF Enqueue
<1>3. queue'[u] = Append(queue[u], w)
  BY <1>2 DEF TypeOK
<1> HIDE DEF w
<1>4. /\ Len(Append(queue[u], w)) = Len(queue[u]) + 1
      /\ \A i \in 1..Len(queue[u]) : Append(queue[u], w)[i] = queue[u][i]
      /\ Append(queue[u], w)[Len(queue[u]) + 1] = w
  BY <1>1
<1>5. QED
  BY <1>2, <1>3, <1>4 DEF TypeOK, w

\* Commit takes the oldest write of one queue and counts it.
LEMMA CommitFacts ==
    ASSUME TypeOK, NEW u \in Users, Commit(u)
    PROVE  /\ Len(queue[u]) >= 1
           /\ \A v \in Users : v # u => queue'[v] = queue[v]
           /\ Len(queue'[u]) = Len(queue[u]) - 1
           /\ \A i \in 1..Len(queue'[u]) : queue'[u][i] = queue[u][i + 1]
           /\ committed'[queue[u][1].txn][queue[u][1].op]
                = committed[queue[u][1].txn][queue[u][1].op] + 1
           /\ \A t \in Transfers, op \in Ops :
                 (t # queue[u][1].txn \/ op # queue[u][1].op)
                     => committed'[t][op] = committed[t][op]
<1>1. queue[u] \in Seq(Write) /\ queue[u] # <<>>
  BY DEF TypeOK, Commit
<1>2. Len(queue[u]) >= 1 /\ Head(queue[u]) = queue[u][1]
  BY <1>1
<1>3. queue' = [queue EXCEPT ![u] = Tail(queue[u])]
  BY DEF Commit
<1>4. queue'[u] = Tail(queue[u])
  BY <1>3 DEF TypeOK
<1>5. /\ Len(Tail(queue[u])) = Len(queue[u]) - 1
      /\ \A i \in 1..(Len(queue[u]) - 1) : Tail(queue[u])[i] = queue[u][i + 1]
  BY <1>1
<1>6. \A v \in Users : v # u => queue'[v] = queue[v]
  BY <1>3 DEF TypeOK
<1> DEFINE w == Head(queue[u])
<1>7. /\ w \in Write
      /\ w = queue[u][1]
      /\ committed' = [committed EXCEPT ![w.txn][w.op] = @ + 1]
  BY <1>1, <1>2 DEF Commit
<1> HIDE DEF w
<1>8. w.txn \in Transfers /\ w.op \in Ops
  BY <1>7 DEF Write
<1>9. /\ committed'[w.txn] = [committed[w.txn] EXCEPT ![w.op] = @ + 1]
      /\ \A t \in Transfers : t # w.txn => committed'[t] = committed[t]
  BY <1>7, <1>8 DEF TypeOK
<1>10. committed[w.txn] \in [Ops -> Nat]
  BY <1>8 DEF TypeOK
<1>11. /\ committed'[w.txn][w.op] = committed[w.txn][w.op] + 1
       /\ \A op \in Ops : op # w.op => committed'[w.txn][op] = committed[w.txn][op]
  BY <1>8, <1>9, <1>10
<1>12. QED
  BY <1>2, <1>4, <1>5, <1>6, <1>7, <1>9, <1>11

\* Where the writes of the queues come from, after an Enqueue and after a
\* Commit.
LEMMA EnqueuePositions ==
    ASSUME TypeOK, NEW u \in Users, NEW op \in Ops, NEW t \in Transfers,
           NEW b \in Int, Enqueue(u, op, t, b),
           NEW v \in Users, NEW i \in 1..Len(queue'[v])
    PROVE  \/ i \in 1..Len(queue[v]) /\ queue'[v][i] = queue[v][i]
           \/ /\ v = u
              /\ i = Len(queue[u]) + 1
              /\ queue'[v][i] = [op |-> op, txn |-> t, amount |-> b]
<1>1. CASE v # u
  <2>1. queue'[v] = queue[v]
    BY <1>1, EnqueueFacts
  <2>2. QED
    BY <2>1
<1>2. CASE v = u
  <2>1. /\ Len(queue[u]) \in Nat
        /\ Len(queue'[u]) = Len(queue[u]) + 1
    BY EnqueueFacts, QueueType
  <2>2. i \in 1..Len(queue[u]) \/ i = Len(queue[u]) + 1
    BY <1>2, <2>1
  <2>3. CASE i \in 1..Len(queue[u])
    BY <1>2, <2>3, EnqueueFacts
  <2>4. CASE i = Len(queue[u]) + 1
    BY <1>2, <2>4, EnqueueFacts
  <2>5. QED
    BY <2>2, <2>3, <2>4
<1>3. QED
  BY <1>1, <1>2

LEMMA CommitPositions ==
    ASSUME TypeOK, NEW u \in Users, Commit(u),
           NEW v \in Users, NEW i \in 1..Len(queue'[v])
    PROVE  \/ /\ v # u
              /\ i \in 1..Len(queue[v])
              /\ queue'[v] = queue[v]
           \/ /\ v = u
              /\ i + 1 \in 1..Len(queue[u])
              /\ queue'[v][i] = queue[u][i + 1]
<1>1. CASE v # u
  <2>1. queue'[v] = queue[v]
    BY <1>1, CommitFacts
  <2>2. QED
    BY <1>1, <2>1
<1>2. CASE v = u
  <2>1. /\ Len(queue[u]) \in Nat
        /\ Len(queue'[u]) = Len(queue[u]) - 1
    BY CommitFacts, QueueType
  <2>2. i + 1 \in 1..Len(queue[u])
    BY <1>2, <2>1
  <2>3. QED
    BY <1>2, <2>2, CommitFacts
<1>3. QED
  BY <1>1, <1>2

\* Commit does not lose a count.
LEMMA CommitGrows ==
    ASSUME TypeOK, NEW u \in Users, Commit(u), NEW t \in Transfers, NEW op \in Ops
    PROVE  committed'[t][op] >= committed[t][op]
<1>1. committed[t][op] \in Nat
  BY DEF TypeOK
<1>2. CASE t = queue[u][1].txn /\ op = queue[u][1].op
  BY <1>1, <1>2, CommitFacts
<1>3. CASE t # queue[u][1].txn \/ op # queue[u][1].op
  BY <1>1, <1>3, CommitFacts
<1>4. QED
  BY <1>2, <1>3

\* No step changes who pays whom.
LEMMA XferFixed == [Next]_vars => xfer' = xfer
BY DEF Next, vars, SessionNext, SignIn, GetBalance, BalanceLoaded, Snapshot, MainThread,
       CreditWrite, CreditEncode, CreditUpdate, WriteDocument, Commit, Stops, Crash,
       ListenerError, NewDevice, ProcessEnds, PayPressed, PayThread, DebitRead, DebitWrite,
       DebitEncode, DebitUpdate, SendKeys, SendKeysFetched, SendKeysMissing, ReceiveKeys,
       ReceiveKeysFetched, ReceiveDropped

\* The steps that touch neither a queue, nor the main thread's position, nor
\* the counts of the server.
LEMMA SessionFrame ==
    ASSUME NEW u \in Users, SessionNext(u)
    PROVE  UNCHANGED <<queue, committed, main, thread, fetches, xfer>>
BY DEF SessionNext, SignIn, GetBalance, BalanceLoaded, server, device, app

\* The only steps that change a queue or a count.
LEMMA QueueSteps ==
    ASSUME [Next]_vars
    PROVE  \/ UNCHANGED <<queue, committed>>
           \/ \E u \in Users : \/ CreditUpdate(u) \/ WriteDocument(u)
                               \/ Commit(u) \/ NewDevice(u)
           \/ \E t \in Transfers : DebitUpdate(t)
<1> USE DEF server, device, client, app
<1>1. CASE UNCHANGED vars
  BY <1>1 DEF vars
<1>2. ASSUME NEW u \in Users, SessionNext(u) PROVE UNCHANGED <<queue, committed>>
  BY <1>2, SessionFrame
<1>3. ASSUME NEW u \in Users, NEW i \in DOMAIN listeners[u], Snapshot(u, i)
      PROVE  UNCHANGED <<queue, committed>>
  BY <1>3 DEF Snapshot
<1>4. ASSUME NEW u \in Users, CreditWrite(u) \/ CreditEncode(u)
      PROVE  UNCHANGED <<queue, committed>>
  BY <1>4 DEF CreditWrite, CreditEncode
<1>5. ASSUME NEW u \in Users, Crash(u) \/ ListenerError(u)
      PROVE  UNCHANGED <<queue, committed>>
  BY <1>5 DEF Crash, ListenerError, ProcessEnds
<1>6. ASSUME NEW t \in Transfers, PayPressed(t) PROVE UNCHANGED <<queue, committed>>
  BY <1>6 DEF PayPressed
<1>7. ASSUME NEW t \in Transfers, DebitRead(t) \/ DebitWrite(t) \/ DebitEncode(t)
      PROVE  UNCHANGED <<queue, committed>>
  BY <1>7 DEF DebitRead, DebitWrite, DebitEncode
<1>8. ASSUME NEW t \in Transfers, SendKeys(t) \/ ReceiveKeys(t)
      PROVE  UNCHANGED <<queue, committed>>
  BY <1>8 DEF SendKeys, SendKeysFetched, SendKeysMissing, ReceiveKeys, ReceiveKeysFetched,
              ReceiveDropped
<1>9. QED
  BY <1>1, <1>2, <1>3, <1>4, <1>5, <1>6, <1>7, <1>8 DEF Next, MainThread, Stops, PayThread

\* The three steps that enqueue a write.
LEMMA CreditUpdateEnqueues ==
    ASSUME TypeOK, NEW u \in Users, CreditUpdate(u)
    PROVE  /\ Enqueue(u, "credit", main[u].txn, main[u].new)
           /\ "credit" \in Ops /\ main[u].txn \in Transfers /\ main[u].new \in Int
           /\ local' = [local EXCEPT ![u] = main[u].new]
           /\ UNCHANGED <<committed, thread>>
BY DEF CreditUpdate, EnqueueBalance, TypeOK, Ops, BalanceOps, server

LEMMA WriteDocumentEnqueues ==
    ASSUME TypeOK, NEW u \in Users, WriteDocument(u)
    PROVE  /\ Enqueue(u, main[u].at, main[u].txn, 0)
           /\ main[u].at \in Ops /\ main[u].txn \in Transfers
           /\ main[u].at \in {"send", "sent", "received", "delete"}
           /\ UNCHANGED <<committed, thread>>
BY DEF WriteDocument, After, TypeOK, Ops, server

LEMMA DebitUpdateEnqueues ==
    ASSUME TypeOK, NEW t \in Transfers, DebitUpdate(t)
    PROVE  /\ Enqueue(From(t), "debit", t, thread[t].new)
           /\ From(t) \in Users /\ "debit" \in Ops /\ thread[t].new \in Int
           /\ local' = [local EXCEPT ![From(t)] = thread[t].new]
           /\ thread[t].at = "update"
           /\ UNCHANGED <<committed, main>>
<1>1. From(t) \in Users /\ thread[t].new \in Int
  BY PaymentType DEF TypeOK
<1>2. QED
  BY <1>1 DEF DebitUpdate, EnqueueBalance, Ops, BalanceOps, server

LEMMA NewDeviceEmpties ==
    ASSUME TypeOK, NEW u \in Users, NewDevice(u)
    PROVE  /\ Len(queue'[u]) = 0
           /\ \A v \in Users : v # u => queue'[v] = queue[v]
           /\ committed' = committed
<1>1. queue' = [queue EXCEPT ![u] = <<>>]
  BY DEF NewDevice
<1>2. queue'[u] = <<>> /\ \A v \in Users : v # u => queue'[v] = queue[v]
  BY <1>1 DEF TypeOK
<1>3. Len(<<>>) = 0
  OBVIOUS
<1>4. QED
  BY <1>2, <1>3 DEF NewDevice, ProcessEnds, server

\* Where an entry of a queue comes from, and that whatever was ahead of it
\* still is, or is on the server.
NewEntry(v, e) ==
    \/ CreditUpdate(v) /\ e = [op |-> "credit", txn |-> main[v].txn, amount |-> main[v].new]
    \/ WriteDocument(v) /\ e = [op |-> main[v].at, txn |-> main[v].txn, amount |-> 0]
    \/ \E t \in Transfers : /\ DebitUpdate(t)
                            /\ From(t) = v
                            /\ e = [op |-> "debit", txn |-> t, amount |-> thread[t].new]

LEMMA NewEntryFields ==
    ASSUME NEW v, NEW e, NewEntry(v, e)
    PROVE  \/ CreditUpdate(v) /\ e.op = "credit" /\ e.txn = main[v].txn /\ e.amount = main[v].new
           \/ WriteDocument(v) /\ e.op = main[v].at /\ e.txn = main[v].txn /\ e.amount = 0
           \/ \E t \in Transfers : /\ DebitUpdate(t)
                                   /\ From(t) = v
                                   /\ e.op = "debit" /\ e.txn = t /\ e.amount = thread[t].new
<1>1. CASE CreditUpdate(v) /\ e = [op |-> "credit", txn |-> main[v].txn, amount |-> main[v].new]
  BY <1>1
<1>2. CASE WriteDocument(v) /\ e = [op |-> main[v].at, txn |-> main[v].txn, amount |-> 0]
  BY <1>2
<1>3. ASSUME NEW t \in Transfers, DebitUpdate(t), From(t) = v,
             e = [op |-> "debit", txn |-> t, amount |-> thread[t].new]
      PROVE  e.op = "debit" /\ e.txn = t /\ e.amount = thread[t].new
  BY <1>3
<1>4. QED
  BY <1>1, <1>2, <1>3 DEF NewEntry

KeptAhead(v, k, i) ==
    \A op \in Ops, t \in Transfers : Before(v, k, op, t) => Before(v, i, op, t)'

HandedAhead(v, i) ==
    \A op \in Ops, t \in Transfers : Handed(v, op, t) => Before(v, i, op, t)'

LEMMA EnqueueOrigin ==
    ASSUME TypeOK, NEW u \in Users, NEW op \in Ops, NEW t \in Transfers,
           NEW b \in Int, Enqueue(u, op, t, b), committed' = committed,
           NEW v \in Users, NEW i \in 1..Len(queue'[v])
    PROVE  \/ /\ i \in 1..Len(queue[v])
              /\ queue'[v][i] = queue[v][i]
              /\ KeptAhead(v, i, i)
           \/ /\ v = u
              /\ queue'[v][i] = [op |-> op, txn |-> t, amount |-> b]
              /\ HandedAhead(v, i)
<1>1. \A j \in 1..Len(queue[v]) : queue'[v][j] = queue[v][j]
  BY EnqueueFacts
<1>2. Len(queue[v]) \in Nat
  BY QueueType
<1>3. CASE i \in 1..Len(queue[v]) /\ queue'[v][i] = queue[v][i]
  <2>1. \A j \in 1..(i - 1) : queue'[v][j] = queue[v][j]
    BY <1>1, <1>2, <1>3
  <2>2. KeptAhead(v, i, i)
    BY <2>1 DEF KeptAhead, Before
  <2>3. QED
    BY <1>3, <2>2
<1>4. CASE /\ v = u
           /\ i = Len(queue[u]) + 1
           /\ queue'[v][i] = [op |-> op, txn |-> t, amount |-> b]
  <2>1. 1..(i - 1) = 1..Len(queue[v])
    BY <1>2, <1>4
  <2>2. HandedAhead(v, i)
    BY <1>1, <2>1 DEF HandedAhead, Handed, Queued, Before
  <2>3. QED
    BY <1>4, <2>2
<1>5. QED
  BY <1>3, <1>4, EnqueuePositions

LEMMA CommitOrigin ==
    ASSUME TypeOK, NEW u \in Users, Commit(u),
           NEW v \in Users, NEW i \in 1..Len(queue'[v])
    PROVE  \E k \in 1..Len(queue[v]) : queue'[v][i] = queue[v][k] /\ KeptAhead(v, k, i)
<1>1. \A op \in Ops, t \in Transfers : committed[t][op] > 0 => committed'[t][op] > 0
  <2>1. \A op \in Ops, t \in Transfers : committed[t][op] \in Nat
    BY DEF TypeOK
  <2>2. \A op \in Ops, t \in Transfers : committed'[t][op] \in Nat
    <3>1. [Next]_vars
      BY DEF Next
    <3>2. TypeOK'
      BY <3>1, NextType
    <3>3. QED
      BY <3>2 DEF TypeOK
  <2>3. \A op \in Ops, t \in Transfers : committed'[t][op] >= committed[t][op]
    BY CommitGrows
  <2>4. QED
    BY <2>1, <2>2, <2>3
<1>2. CASE v # u /\ i \in 1..Len(queue[v]) /\ queue'[v] = queue[v]
  <2>1. KeptAhead(v, i, i)
    BY <1>1, <1>2 DEF KeptAhead, Before
  <2>2. QED
    BY <1>2, <2>1
<1>3. CASE v = u /\ i + 1 \in 1..Len(queue[u]) /\ queue'[v][i] = queue[u][i + 1]
  <2>1. KeptAhead(v, i + 1, i)
    <3> SUFFICES ASSUME NEW op \in Ops, NEW t \in Transfers, Before(v, i + 1, op, t)
                 PROVE  Before(v, i, op, t)'
      BY DEF KeptAhead
    <3>1. CASE committed[t][op] > 0
      BY <1>1, <3>1 DEF Before
    <3>2. ASSUME NEW j \in 1..i, queue[v][j].op = op, queue[v][j].txn = t
          PROVE  Before(v, i, op, t)'
      <4>1. CASE j = 1
        <5>1. committed'[t][op] = committed[t][op] + 1
          BY <1>3, <3>2, <4>1, CommitFacts
        <5>2. committed[t][op] \in Nat
          BY DEF TypeOK
        <5>3. QED
          BY <5>1, <5>2 DEF Before
      <4>2. CASE j # 1
        <5>1. /\ j - 1 \in 1..(i - 1)
              /\ j - 1 \in 1..Len(queue'[v])
              /\ (j - 1) + 1 = j
          <6>1. i \in Nat /\ Len(queue'[v]) \in Nat
            BY <1>3, CommitFacts, QueueType
          <6>2. QED
            BY <4>2, <6>1
        <5>2. queue'[v][j - 1] = queue[v][j]
          BY <1>3, <5>1, CommitFacts
        <5>3. QED
          BY <3>2, <5>1, <5>2 DEF Before
      <4>3. QED
        BY <4>1, <4>2
    <3>3. (i + 1) - 1 = i
      OBVIOUS
    <3>4. QED
      BY <3>1, <3>2, <3>3 DEF Before
  <2>2. QED
    BY <1>3, <2>1
<1>4. QED
  BY <1>2, <1>3, CommitPositions

LEMMA EntryOrigin ==
    ASSUME TypeOK, [Next]_vars, NEW v \in Users, NEW i \in 1..Len(queue'[v])
    PROVE  \/ \E k \in 1..Len(queue[v]) : /\ queue'[v][i] = queue[v][k]
                                          /\ KeptAhead(v, k, i)
           \/ NewEntry(v, queue'[v][i]) /\ HandedAhead(v, i)
<1> DEFINE Old == \E k \in 1..Len(queue[v]) : /\ queue'[v][i] = queue[v][k]
                                              /\ KeptAhead(v, k, i)
<1>1. CASE UNCHANGED <<queue, committed>>
  <2>1. KeptAhead(v, i, i)
    BY <1>1 DEF KeptAhead, Before
  <2>2. QED
    BY <1>1, <2>1
<1>2. ASSUME NEW u \in Users, CreditUpdate(u)
      PROVE  Old \/ (NewEntry(v, queue'[v][i]) /\ HandedAhead(v, i))
  <2>1. \/ Old
        \/ /\ v = u
           /\ queue'[v][i] = [op |-> "credit", txn |-> main[u].txn, amount |-> main[u].new]
           /\ HandedAhead(v, i)
    BY <1>2, CreditUpdateEnqueues, EnqueueOrigin
  <2>2. QED
    BY <1>2, <2>1 DEF NewEntry
<1>3. ASSUME NEW u \in Users, WriteDocument(u)
      PROVE  Old \/ (NewEntry(v, queue'[v][i]) /\ HandedAhead(v, i))
  <2>0. 0 \in Int
    OBVIOUS
  <2>1. \/ Old
        \/ /\ v = u
           /\ queue'[v][i] = [op |-> main[u].at, txn |-> main[u].txn, amount |-> 0]
           /\ HandedAhead(v, i)
    BY <1>3, <2>0, WriteDocumentEnqueues, EnqueueOrigin
  <2>2. QED
    BY <1>3, <2>1 DEF NewEntry
<1>4. ASSUME NEW t \in Transfers, DebitUpdate(t)
      PROVE  Old \/ (NewEntry(v, queue'[v][i]) /\ HandedAhead(v, i))
  <2>1. \/ Old
        \/ /\ v = From(t)
           /\ queue'[v][i] = [op |-> "debit", txn |-> t, amount |-> thread[t].new]
           /\ HandedAhead(v, i)
    BY <1>4, DebitUpdateEnqueues, EnqueueOrigin
  <2>2. QED
    BY <1>4, <2>1 DEF NewEntry
<1>5. ASSUME NEW u \in Users, Commit(u) PROVE Old
  BY <1>5, CommitOrigin
<1>6. ASSUME NEW u \in Users, NewDevice(u) PROVE Old
  <2>1. v # u
    BY <1>6, NewDeviceEmpties
  <2>2. queue'[v] = queue[v] /\ committed' = committed
    BY <1>6, <2>1, NewDeviceEmpties
  <2>3. KeptAhead(v, i, i)
    BY <2>2 DEF KeptAhead, Before
  <2>4. QED
    BY <2>2, <2>3
<1>7. QED
  BY <1>1, <1>2, <1>3, <1>4, <1>5, <1>6, QueueSteps

-----------------------------------------------------------------------------
(* What is committed or handed over stays so.                              *)

LEMMA CommittedKept ==
    ASSUME TypeOK, [Next]_vars, NEW t \in Transfers, NEW op \in Ops
    PROVE  /\ committed[t][op] \in Nat /\ committed'[t][op] \in Nat
           /\ committed'[t][op] >= committed[t][op]
<1>1. committed[t][op] \in Nat
  BY DEF TypeOK
<1>2. committed'[t][op] \in Nat
  <2>1. TypeOK'
    BY NextType
  <2>2. QED
    BY <2>1 DEF TypeOK
<1>3. CASE committed' = committed
  BY <1>1, <1>3
<1>4. ASSUME NEW u \in Users, Commit(u) PROVE committed'[t][op] >= committed[t][op]
  BY <1>4, CommitGrows
<1>5. QED
  BY <1>1, <1>2, <1>3, <1>4, QueueSteps, CreditUpdateEnqueues, WriteDocumentEnqueues,
     DebitUpdateEnqueues, NewDeviceEmpties

\* A count goes up only by committing the first write of a queue.
LEMMA CommittedOrigin ==
    ASSUME TypeOK, [Next]_vars, NEW t \in Transfers, NEW op \in Ops
    PROVE  \/ committed'[t][op] = committed[t][op]
           \/ \E u \in Users : /\ Commit(u)
                               /\ 1 \in 1..Len(queue[u])
                               /\ queue[u][1].op = op /\ queue[u][1].txn = t
                               /\ committed'[t][op] = committed[t][op] + 1
<1>1. ASSUME NEW u \in Users, Commit(u)
      PROVE  \/ committed'[t][op] = committed[t][op]
             \/ /\ 1 \in 1..Len(queue[u])
                /\ queue[u][1].op = op /\ queue[u][1].txn = t
                /\ committed'[t][op] = committed[t][op] + 1
  <2>1. 1 \in 1..Len(queue[u])
    BY <1>1, CommitFacts, QueueType
  <2>2. CASE queue[u][1].op = op /\ queue[u][1].txn = t
    BY <1>1, <2>1, <2>2, CommitFacts
  <2>3. CASE ~(queue[u][1].op = op /\ queue[u][1].txn = t)
    BY <1>1, <2>3, CommitFacts
  <2>4. QED
    BY <2>2, <2>3
<1>2. QED
  BY <1>1, QueueSteps, CreditUpdateEnqueues, WriteDocumentEnqueues,
     DebitUpdateEnqueues, NewDeviceEmpties

LEMMA EnqueuedIsHanded ==
    ASSUME TypeOK, NEW u \in Users, NEW op \in Ops, NEW t \in Transfers,
           NEW b \in Int, Enqueue(u, op, t, b)
    PROVE  Handed(u, op, t)'
<1> DEFINE n == Len(queue[u])
<1>0. n \in Nat
  BY QueueType
<1>1. Len(queue'[u]) = n + 1
  BY EnqueueFacts
<1>2. queue'[u][n + 1] = [op |-> op, txn |-> t, amount |-> b]
  BY EnqueueFacts
<1>3. queue'[u][n + 1].op = op /\ queue'[u][n + 1].txn = t
  BY <1>2
<1>4. n + 1 \in 1..Len(queue'[u])
  BY <1>0, <1>1
<1>5. QED
  BY <1>3, <1>4 DEF Handed, Queued

LEMMA EnqueueKeepsHanded ==
    ASSUME TypeOK, NEW u \in Users, NEW o \in Ops, NEW s \in Transfers,
           NEW b \in Int, Enqueue(u, o, s, b), committed' = committed,
           NEW v \in Users, NEW op \in Ops, NEW t \in Transfers, Handed(v, op, t)
    PROVE  Handed(v, op, t)'
<1>1. CASE committed[t][op] > 0
  BY <1>1 DEF Handed
<1>2. ASSUME NEW j \in 1..Len(queue[v]), queue[v][j].op = op, queue[v][j].txn = t
      PROVE  Handed(v, op, t)'
  <2>1. CASE v = u
    <3>1. Len(queue[u]) \in Nat /\ Len(queue'[u]) = Len(queue[u]) + 1
      BY EnqueueFacts, QueueType
    <3>2. j \in 1..Len(queue[u])
      BY <2>1
    <3>3. j \in 1..Len(queue'[u])
      BY <3>1, <3>2
    <3>4. queue'[u][j] = queue[u][j]
      BY <3>2, EnqueueFacts
    <3>5. QED
      BY <1>2, <2>1, <3>3, <3>4 DEF Handed, Queued
  <2>2. CASE v # u
    <3>1. queue'[v] = queue[v]
      BY <2>2, EnqueueFacts
    <3>2. QED
      BY <1>2, <3>1 DEF Handed, Queued
  <2>3. QED
    BY <2>1, <2>2
<1>3. QED
  BY <1>1, <1>2 DEF Handed, Queued

LEMMA CommitKeepsHanded ==
    ASSUME TypeOK, NEW u \in Users, Commit(u),
           NEW v \in Users, NEW op \in Ops, NEW t \in Transfers, Handed(v, op, t)
    PROVE  Handed(v, op, t)'
<1>0. [Next]_vars
  BY DEF Next
<1>1. CASE committed[t][op] > 0
  BY <1>0, <1>1, CommittedKept DEF Handed
<1>2. ASSUME NEW j \in 1..Len(queue[v]), queue[v][j].op = op, queue[v][j].txn = t
      PROVE  Handed(v, op, t)'
  <2>1. CASE v # u
    <3>1. queue'[v] = queue[v]
      BY <2>1, CommitFacts
    <3>2. QED
      BY <1>2, <3>1 DEF Handed, Queued
  <2>2. CASE v = u /\ j = 1
    <3>1. committed'[t][op] = committed[t][op] + 1
      BY <1>2, <2>2, CommitFacts
    <3>2. QED
      BY <1>0, <3>1, CommittedKept DEF Handed
  <2>3. CASE v = u /\ j # 1
    <3>1. /\ j - 1 \in 1..Len(queue'[u])
          /\ (j - 1) + 1 = j
      BY <2>3, CommitFacts, QueueType
    <3>2. queue'[u][j - 1] = queue[u][j]
      BY <3>1, CommitFacts
    <3>3. QED
      BY <1>2, <2>3, <3>1, <3>2 DEF Handed, Queued
  <2>4. QED
    BY <2>1, <2>2, <2>3
<1>3. QED
  BY <1>1, <1>2 DEF Handed, Queued

\* Only a change of phone loses a write that was handed over.
LEMMA HandedKept ==
    ASSUME TypeOK, [Next]_vars, NEW v \in Users, NEW op \in Ops, NEW t \in Transfers,
           Handed(v, op, t)
    PROVE  Handed(v, op, t)' \/ NewDevice(v)
<1>1. CASE UNCHANGED <<queue, committed>>
  BY <1>1 DEF Handed, Queued
<1>2. ASSUME NEW u \in Users, CreditUpdate(u) PROVE Handed(v, op, t)'
  BY <1>2, CreditUpdateEnqueues, EnqueueKeepsHanded
<1>3. ASSUME NEW u \in Users, WriteDocument(u) PROVE Handed(v, op, t)'
  <2>1. 0 \in Int
    OBVIOUS
  <2>2. QED
    BY <1>3, <2>1, WriteDocumentEnqueues, EnqueueKeepsHanded
<1>4. ASSUME NEW s \in Transfers, DebitUpdate(s) PROVE Handed(v, op, t)'
  BY <1>4, DebitUpdateEnqueues, EnqueueKeepsHanded
<1>5. ASSUME NEW u \in Users, Commit(u) PROVE Handed(v, op, t)'
  BY <1>5, CommitKeepsHanded
<1>6. ASSUME NEW u \in Users, NewDevice(u), u # v PROVE Handed(v, op, t)'
  <2>1. queue'[v] = queue[v] /\ committed' = committed
    BY <1>6, NewDeviceEmpties
  <2>2. QED
    BY <2>1 DEF Handed, Queued
<1>7. QED
  BY <1>1, <1>2, <1>3, <1>4, <1>5, <1>6, QueueSteps

-----------------------------------------------------------------------------
(* What the steps do to the threads.                                       *)

\* The only steps that change what a main thread does.
LEMMA MainSteps ==
    ASSUME [Next]_vars
    PROVE  \/ main' = main
           \/ \E u \in Users : \/ CreditWrite(u) \/ CreditEncode(u) \/ CreditUpdate(u)
                               \/ WriteDocument(u) \/ Stops(u)
           \/ \E t \in Transfers : SendKeysFetched(t) \/ ReceiveKeysFetched(t)
<1> USE DEF server, device, client, app
<1>1. CASE UNCHANGED vars
  BY <1>1 DEF vars
<1>2. ASSUME NEW u \in Users, SessionNext(u) PROVE main' = main
  BY <1>2, SessionFrame
<1>3. ASSUME NEW u \in Users, NEW i \in DOMAIN listeners[u], Snapshot(u, i)
      PROVE  main' = main
  BY <1>3 DEF Snapshot
<1>4. ASSUME NEW u \in Users, Commit(u) PROVE main' = main
  BY <1>4 DEF Commit
<1>5. ASSUME NEW t \in Transfers, PayPressed(t) \/ PayThread(t) PROVE main' = main
  BY <1>5 DEF PayPressed, PayThread, DebitRead, DebitWrite, DebitEncode, DebitUpdate
<1>6. ASSUME NEW t \in Transfers, SendKeysMissing(t) \/ ReceiveDropped(t) PROVE main' = main
  BY <1>6 DEF SendKeysMissing, ReceiveDropped
<1>7. QED
  BY <1>1, <1>2, <1>3, <1>4, <1>5, <1>6 DEF Next, MainThread, SendKeys, ReceiveKeys

\* What changing the position of a main thread or of a payment's thread
\* leaves alone.
LEMMA MainMoves ==
    ASSUME TypeOK, NEW u \in Users, NEW a, main' = [main EXCEPT ![u].at = a]
    PROVE  /\ main'[u].at = a
           /\ main'[u].txn = main[u].txn
           /\ main'[u].new = main[u].new
           /\ \A v \in Users : v # u => main'[v] = main[v]
<1>1. main[u] \in [at : MainAt, txn : Transfers, new : Int]
  BY DEF TypeOK
<1>2. main'[u] = [main[u] EXCEPT !.at = a]
  BY DEF TypeOK
<1>3. \A v \in Users : v # u => main'[v] = main[v]
  BY DEF TypeOK
<1>4. QED
  BY <1>1, <1>2, <1>3

LEMMA ThreadMoves ==
    ASSUME TypeOK, NEW t \in Transfers, NEW a, thread' = [thread EXCEPT ![t].at = a]
    PROVE  /\ thread'[t].at = a
           /\ thread'[t].new = thread[t].new
           /\ \A s \in Transfers : s # t => thread'[s] = thread[s]
<1>1. thread[t] \in [at : ThreadAt, new : Int]
  BY DEF TypeOK
<1>2. thread'[t] = [thread[t] EXCEPT !.at = a]
  BY DEF TypeOK
<1>3. \A s \in Transfers : s # t => thread'[s] = thread[s]
  BY DEF TypeOK
<1>4. QED
  BY <1>1, <1>2, <1>3

\* What each step does to the position of the main thread: the callbacks of
\* the receiver go on from one statement to the next with the same payment.
LEMMA CreditMoves ==
    ASSUME TypeOK, NEW u \in Users, CreditWrite(u) \/ CreditEncode(u) \/ CreditUpdate(u)
    PROVE  /\ main[u].at \in {"write", "encode", "credit"}
           /\ main'[u].txn = main[u].txn
           /\ \A v \in Users : v # u => main'[v] = main[v]
           /\ CreditWrite(u) => main[u].at = "write" /\ main'[u].at = "encode"
           /\ CreditEncode(u) => /\ main[u].at = "encode"
                                 /\ main'[u].at = "credit"
                                 /\ main'[u].new = curr_balance[u]
           /\ CreditUpdate(u) => main[u].at = "credit" /\ main'[u].at = "received"
<1>1. CASE CreditWrite(u)
  BY <1>1, MainMoves DEF CreditWrite, CreditEncode, CreditUpdate
<1>2. CASE CreditEncode(u)
  BY <1>2 DEF CreditWrite, CreditEncode, CreditUpdate, TypeOK
<1>3. CASE CreditUpdate(u)
  BY <1>3, MainMoves DEF CreditWrite, CreditEncode, CreditUpdate
<1>4. QED
  BY <1>1, <1>2, <1>3

LEMMA DocumentMoves ==
    ASSUME TypeOK, NEW u \in Users, WriteDocument(u)
    PROVE  /\ main[u].txn \in Transfers
           /\ main[u].at \in {"send", "sent", "received", "delete"}
           /\ main'[u].txn = main[u].txn
           /\ main[u].at = "send" => main'[u].at = "sent"
           /\ main[u].at = "received" => main'[u].at = "delete"
           /\ main[u].at \in {"sent", "delete"} => main'[u].at = "idle"
           /\ \A v \in Users : v # u => main'[v] = main[v]
<1>1. /\ main[u].txn \in Transfers
      /\ main[u].at \in {"send", "sent", "received", "delete"}
  BY DEF WriteDocument, After, TypeOK
<1>2. main' = [main EXCEPT ![u].at = After[main[u].at]]
  BY DEF WriteDocument
<1>3. /\ main[u].at = "send" => After[main[u].at] = "sent"
      /\ main[u].at = "received" => After[main[u].at] = "delete"
      /\ main[u].at \in {"sent", "delete"} => After[main[u].at] = "idle"
  BY DEF After
<1>4. QED
  BY <1>1, <1>2, <1>3, MainMoves

\* When an app stops its main thread is idle, its key requests are gone, and
\* its pay threads have ended.
LEMMA StopsClears ==
    ASSUME TypeOK, NEW u \in Users, Stops(u)
    PROVE  /\ main'[u].at = "idle"
           /\ \A v \in Users : v # u => main'[v] = main[v]
           /\ \A t \in Transfers :
                 /\ fetches'[t] = 0 \/ fetches'[t] = fetches[t]
                 /\ thread'[t].at = thread[t].at \/ thread'[t].at = "done"
                 /\ thread'[t] # thread[t] => thread[t].at # "none"
                 /\ From(t) = u => thread'[t].at \in {"none", "refused", "done"}
                 /\ From(t) # u => thread'[t] = thread[t]
           /\ committed' = committed
<1>1. ProcessEnds(u)
  BY DEF Stops, Crash, ListenerError, NewDevice
<1>2. main'[u] = Idle /\ \A v \in Users : v # u => main'[v] = main[v]
  BY <1>1 DEF ProcessEnds, TypeOK
<1>3. \A t \in Transfers : fetches'[t] = 0 \/ fetches'[t] = fetches[t]
  BY <1>1 DEF ProcessEnds
<1>4. ASSUME NEW t \in Transfers
      PROVE  /\ thread'[t].at = thread[t].at \/ thread'[t].at = "done"
             /\ thread'[t] # thread[t] => thread[t].at # "none"
             /\ From(t) = u => thread'[t].at \in {"none", "refused", "done"}
             /\ From(t) # u => thread'[t] = thread[t]
  <2>1. CASE From(t) = u /\ thread[t].at \notin {"none", "refused"}
    <3>1. thread'[t] = [thread[t] EXCEPT !.at = "done"]
      BY <1>1, <2>1 DEF ProcessEnds
    <3>2. thread[t] \in [at : ThreadAt, new : Int]
      BY DEF TypeOK
    <3>3. thread'[t].at = "done"
      BY <3>1, <3>2
    <3>4. QED
      BY <2>1, <3>3
  <2>2. CASE ~(From(t) = u /\ thread[t].at \notin {"none", "refused"})
    <3>1. thread'[t] = thread[t]
      BY <1>1, <2>2 DEF ProcessEnds
    <3>2. QED
      BY <2>2, <3>1
  <2>3. QED
    BY <2>1, <2>2
<1>5. QED
  BY <1>1, <1>2, <1>3, <1>4 DEF Idle, ProcessEnds, server

\* The only steps that change a pay thread.
LEMMA ThreadSteps ==
    ASSUME [Next]_vars
    PROVE  \/ thread' = thread
           \/ \E t \in Transfers : PayPressed(t) \/ PayThread(t) \/ SendKeys(t)
           \/ \E u \in Users : Stops(u)
<1> USE DEF server, device, client, app
<1>1. CASE UNCHANGED vars
  BY <1>1 DEF vars
<1>2. ASSUME NEW u \in Users, SessionNext(u) PROVE thread' = thread
  BY <1>2, SessionFrame
<1>3. ASSUME NEW u \in Users, NEW i \in DOMAIN listeners[u], Snapshot(u, i)
      PROVE  thread' = thread
  BY <1>3 DEF Snapshot
<1>4. ASSUME NEW u \in Users, Commit(u) \/ MainThread(u) PROVE thread' = thread
  BY <1>4 DEF Commit, MainThread, CreditWrite, CreditEncode, CreditUpdate, WriteDocument
<1>5. ASSUME NEW t \in Transfers, ReceiveKeys(t) PROVE thread' = thread
  BY <1>5 DEF ReceiveKeys, ReceiveKeysFetched, ReceiveDropped
<1>6. QED
  BY <1>1, <1>2, <1>3, <1>4, <1>5 DEF Next

\* The only steps that change the key requests of the receivers.
LEMMA FetchSteps ==
    ASSUME [Next]_vars
    PROVE  \/ fetches' = fetches
           \/ \E u \in Users : \E i \in DOMAIN listeners[u] : Snapshot(u, i)
           \/ \E t \in Transfers : ReceiveKeys(t)
           \/ \E u \in Users : Stops(u)
<1> USE DEF server, device, client, app
<1>1. CASE UNCHANGED vars
  BY <1>1 DEF vars
<1>2. ASSUME NEW u \in Users, SessionNext(u) PROVE fetches' = fetches
  BY <1>2, SessionFrame
<1>4. ASSUME NEW u \in Users, Commit(u) \/ MainThread(u) PROVE fetches' = fetches
  BY <1>4 DEF Commit, MainThread, CreditWrite, CreditEncode, CreditUpdate, WriteDocument
<1>5. ASSUME NEW t \in Transfers, PayPressed(t) \/ PayThread(t) \/ SendKeys(t)
      PROVE  fetches' = fetches
  BY <1>5 DEF PayPressed, PayThread, DebitRead, DebitWrite, DebitEncode, DebitUpdate,
              SendKeys, SendKeysFetched, SendKeysMissing
<1>6. QED
  BY <1>1, <1>2, <1>4, <1>5 DEF Next

\* Where a main thread is after a step: where it was, idle, one statement
\* further with the same payment, or in a callback that has just started.
LEMMA MainOrigin ==
    ASSUME TypeOK, [Next]_vars, NEW v \in Users
    PROVE  \/ main'[v] = main[v]
           \/ main'[v].at = "idle"
           \/ /\ main'[v].txn = main[v].txn
              /\ \/ main[v].at = "write" /\ main'[v].at = "encode"
                 \/ /\ main[v].at = "encode" /\ main'[v].at = "credit"
                    /\ main'[v].new = curr_balance[v]
                 \/ CreditUpdate(v) /\ main[v].at = "credit" /\ main'[v].at = "received"
                 \/ WriteDocument(v) /\ main[v].at = "received" /\ main'[v].at = "delete"
                 \/ WriteDocument(v) /\ main[v].at = "send" /\ main'[v].at = "sent"
           \/ \E t \in Transfers : /\ SendKeysFetched(t) /\ From(t) = v
                                   /\ main'[v].at = "send" /\ main'[v].txn = t
           \/ \E t \in Transfers : /\ fetches[t] > 0 /\ To(t) = v
                                   /\ main'[v].at \in {"write", "received"}
                                   /\ main'[v].at = "received" => Amount(t) = 0
                                   /\ main'[v].txn = t
                                   /\ main'[v].new = curr_balance[v] + Amount(t)
<1>1. ASSUME NEW u \in Users, CreditWrite(u) \/ CreditEncode(u) \/ CreditUpdate(u), v = u
      PROVE  /\ main'[v].txn = main[v].txn
             /\ \/ main[v].at = "write" /\ main'[v].at = "encode"
                \/ /\ main[v].at = "encode" /\ main'[v].at = "credit"
                   /\ main'[v].new = curr_balance[v]
                \/ CreditUpdate(v) /\ main[v].at = "credit" /\ main'[v].at = "received"
  BY <1>1, CreditMoves
<1>2. ASSUME NEW u \in Users, CreditWrite(u) \/ CreditEncode(u) \/ CreditUpdate(u), v # u
      PROVE  main'[v] = main[v]
  BY <1>2, CreditMoves
<1>3. ASSUME NEW u \in Users, WriteDocument(u), v = u
      PROVE  \/ main'[v].at = "idle"
             \/ /\ main'[v].txn = main[v].txn
                /\ \/ main[v].at = "received" /\ main'[v].at = "delete"
                   \/ main[v].at = "send" /\ main'[v].at = "sent"
  BY <1>3, DocumentMoves
<1>4. ASSUME NEW u \in Users, WriteDocument(u), v # u
      PROVE  main'[v] = main[v]
  BY <1>4, DocumentMoves
<1>5. ASSUME NEW u \in Users, Stops(u)
      PROVE  main'[v].at = "idle" \/ main'[v] = main[v]
  BY <1>5, StopsClears
<1>6. ASSUME NEW t \in Transfers, SendKeysFetched(t)
      PROVE  \/ main'[v] = main[v]
             \/ From(t) = v /\ main'[v].at = "send" /\ main'[v].txn = t
  BY <1>6, PaymentType DEF SendKeysFetched, TypeOK
<1>7. ASSUME NEW t \in Transfers, ReceiveKeysFetched(t)
      PROVE  \/ main'[v] = main[v]
             \/ /\ fetches[t] > 0 /\ To(t) = v
                /\ main'[v].at \in {"write", "received"}
                /\ main'[v].at = "received" => Amount(t) = 0
                /\ main'[v].txn = t
                /\ main'[v].new = curr_balance[v] + Amount(t)
  BY <1>7, PaymentType DEF ReceiveKeysFetched, TypeOK
<1>8. QED
  BY <1>1, <1>2, <1>3, <1>4, <1>5, <1>6, <1>7, MainSteps

\* Where the thread of a payment is after a step.
LEMMA ThreadOrigin ==
    ASSUME TypeOK, [Next]_vars, NEW t \in Transfers
    PROVE  \/ thread'[t] = thread[t]
           \/ PayPressed(t) /\ thread[t].at = "none" /\ thread'[t].at = "read"
           \/ /\ DebitRead(t) /\ thread[t].at = "read"
              /\ thread'[t].at \in {"write", "refused"}
              /\ thread'[t].at = "write" => thread'[t].new >= 0
           \/ DebitWrite(t) /\ thread[t].at = "write" /\ thread'[t].at = "encode"
           \/ /\ DebitEncode(t) /\ thread[t].at = "encode" /\ thread'[t].at = "update"
              /\ thread'[t].new = curr_balance[From(t)]
           \/ DebitUpdate(t) /\ thread[t].at = "update" /\ thread'[t].at = "fetch"
           \/ SendKeys(t) /\ thread[t].at = "fetch" /\ thread'[t].at = "done"
           \/ Stops(From(t)) /\ thread[t].at # "none" /\ thread'[t].at = "done"
<1>1. ASSUME NEW s \in Transfers, PayPressed(s)
      PROVE  \/ thread'[t] = thread[t]
             \/ s = t /\ thread[t].at = "none" /\ thread'[t].at = "read"
  BY <1>1, ThreadMoves DEF PayPressed
<1>2. ASSUME NEW s \in Transfers, DebitRead(s)
      PROVE  \/ thread'[t] = thread[t]
             \/ /\ s = t /\ thread[t].at = "read"
                /\ thread'[t].at \in {"write", "refused"}
                /\ thread'[t].at = "write" => thread'[t].new >= 0
  BY <1>2 DEF DebitRead, TypeOK
<1>3. ASSUME NEW s \in Transfers, DebitWrite(s)
      PROVE  \/ thread'[t] = thread[t]
             \/ s = t /\ thread[t].at = "write" /\ thread'[t].at = "encode"
  BY <1>3, ThreadMoves DEF DebitWrite
<1>4. ASSUME NEW s \in Transfers, DebitEncode(s)
      PROVE  \/ thread'[t] = thread[t]
             \/ /\ s = t /\ thread[t].at = "encode" /\ thread'[t].at = "update"
                /\ thread'[t].new = curr_balance[From(t)]
  BY <1>4 DEF DebitEncode, TypeOK
<1>5. ASSUME NEW s \in Transfers, DebitUpdate(s)
      PROVE  \/ thread'[t] = thread[t]
             \/ s = t /\ thread[t].at = "update" /\ thread'[t].at = "fetch"
  BY <1>5, ThreadMoves DEF DebitUpdate
<1>6. ASSUME NEW s \in Transfers, SendKeys(s)
      PROVE  \/ thread'[t] = thread[t]
             \/ s = t /\ thread[t].at = "fetch" /\ thread'[t].at = "done"
  BY <1>6, ThreadMoves DEF SendKeys, SendKeysFetched, SendKeysMissing
<1>7. ASSUME NEW u \in Users, Stops(u)
      PROVE  \/ thread'[t] = thread[t]
             \/ From(t) = u /\ thread[t].at # "none" /\ thread'[t].at = "done"
  <2>1. /\ thread'[t].at = thread[t].at \/ thread'[t].at = "done"
        /\ thread'[t] # thread[t] => thread[t].at # "none"
        /\ From(t) # u => thread'[t] = thread[t]
        /\ From(t) = u => thread'[t].at \in {"none", "refused", "done"}
    BY <1>7, StopsClears
  <2>2. thread[t].at \in {"none", "refused"} => thread'[t] = thread[t]
    BY <1>7 DEF Stops, Crash, ListenerError, NewDevice, ProcessEnds
  <2>3. QED
    BY <2>1, <2>2
<1>8. QED
  BY <1>1, <1>2, <1>3, <1>4, <1>5, <1>6, <1>7, ThreadSteps DEF PayThread
=============================================================================
