------------------------- MODULE WalletSafetyProofs -------------------------
(***************************************************************************)
(* The inductive invariant of Wallet is one, and the safety properties     *)
(* follow from it.                                                         *)
(***************************************************************************)
EXTENDS WalletProofs

\* Every entry of a queue, and every callback of a main thread, belongs to
\* the user's own side of a payment.
LEMMA OwnedStep == TypeOK /\ Owned /\ [Next]_vars => Owned'
<1> SUFFICES ASSUME TypeOK, Owned, [Next]_vars PROVE Owned'
  OBVIOUS
<1> DEFINE MainOwned(m) ==
        \A v \in Users :
            /\ m[v].at \in {"send", "sent"} => xfer[m[v].txn].from = v
            /\ m[v].at \in Receiving => xfer[m[v].txn].to = v
<1>1. MainOwned(main)
  BY DEF Owned, From, To
<1>2. ASSUME NEW u \in Users, \A v \in Users : v # u => main'[v] = main[v],
             main'[u].at \in {"send", "sent"} => xfer[main'[u].txn].from = u,
             main'[u].at \in Receiving => xfer[main'[u].txn].to = u
      PROVE  MainOwned(main')
  <2> SUFFICES ASSUME NEW v \in Users
               PROVE  /\ main'[v].at \in {"send", "sent"} => xfer[main'[v].txn].from = v
                      /\ main'[v].at \in Receiving => xfer[main'[v].txn].to = v
    OBVIOUS
  <2>1. CASE v = u
    BY <1>2, <2>1
  <2>2. CASE v # u
    BY <1>1, <1>2, <2>2
  <2>3. QED
    BY <2>1, <2>2
<1>3. ASSUME NEW u \in Users,
             \/ CreditWrite(u) \/ CreditEncode(u) \/ CreditUpdate(u)
      PROVE  MainOwned(main')
  <2>1. xfer[main[u].txn].to = u
    BY <1>1, <1>3, CreditMoves DEF Receiving, ReceiverOps
  <2>2. main'[u].at \notin {"send", "sent"}
    BY <1>3, CreditMoves
  <2>3. QED
    BY <1>2, <1>3, <2>1, <2>2, CreditMoves
<1>4. ASSUME NEW u \in Users, WriteDocument(u) PROVE MainOwned(main')
  <2>1. /\ main[u].at \in {"send", "sent"} => xfer[main[u].txn].from = u
        /\ main[u].at \in {"received", "delete"} => xfer[main[u].txn].to = u
    BY <1>1 DEF Receiving, ReceiverOps
  <2>2. /\ main'[u].at \in {"send", "sent"} => xfer[main'[u].txn].from = u
        /\ main'[u].at \in Receiving => xfer[main'[u].txn].to = u
    BY <1>4, <2>1, DocumentMoves DEF Receiving, ReceiverOps
  <2>3. QED
    BY <1>2, <1>4, <2>2, DocumentMoves
<1>5. ASSUME NEW u \in Users, Stops(u) PROVE MainOwned(main')
  <2>1. main' = [main EXCEPT ![u] = Idle]
    BY <1>5 DEF Stops, Crash, ListenerError, NewDevice, ProcessEnds
  <2>2. main'[u].at = "idle" /\ \A v \in Users : v # u => main'[v] = main[v]
    BY <2>1 DEF Idle, TypeOK
  <2>3. QED
    BY <1>2, <2>2 DEF Receiving, ReceiverOps
<1>6. ASSUME NEW t \in Transfers, SendKeysFetched(t) PROVE MainOwned(main')
  <2>1. /\ From(t) \in Users
        /\ main'[From(t)].at = "send"
        /\ main'[From(t)].txn = t
        /\ \A v \in Users : v # From(t) => main'[v] = main[v]
    BY <1>6, PaymentType DEF SendKeysFetched, TypeOK
  <2>2. QED
    BY <1>2, <2>1 DEF From, Receiving, ReceiverOps
<1>7. ASSUME NEW t \in Transfers, ReceiveKeysFetched(t) PROVE MainOwned(main')
  <2>1. /\ To(t) \in Users
        /\ main'[To(t)].at \in {"write", "received"}
        /\ main'[To(t)].txn = t
        /\ \A v \in Users : v # To(t) => main'[v] = main[v]
    BY <1>7, PaymentType DEF ReceiveKeysFetched, TypeOK
  <2>2. QED
    BY <1>2, <2>1 DEF To
<1>8. MainOwned(main')
  <2>1. CASE main' = main
    BY <1>1, <2>1
  <2>2. QED
    BY <1>3, <1>4, <1>5, <1>6, <1>7, <2>1, MainSteps
<1>counts. \A v \in Users : \A i \in 1..Len(queue'[v]) :
         LET w == queue'[v][i] IN
         /\ w.op \in SenderOps => xfer[w.txn].from = v
         /\ w.op \in ReceiverOps => xfer[w.txn].to = v
  <2> SUFFICES ASSUME NEW v \in Users, NEW i \in 1..Len(queue'[v])
               PROVE  LET w == queue'[v][i] IN
                      /\ w.op \in SenderOps => xfer[w.txn].from = v
                      /\ w.op \in ReceiverOps => xfer[w.txn].to = v
    OBVIOUS
  <2>1. ASSUME NEW k \in 1..Len(queue[v]), queue'[v][i] = queue[v][k]
        PROVE  LET w == queue'[v][i] IN
               /\ w.op \in SenderOps => xfer[w.txn].from = v
               /\ w.op \in ReceiverOps => xfer[w.txn].to = v
    BY <2>1 DEF Owned, From, To
  <2>2. CASE NewEntry(v, queue'[v][i])
    <3>1. CASE CreditUpdate(v) /\ queue'[v][i].op = "credit" /\ queue'[v][i].txn = main[v].txn
      <4>1. xfer[main[v].txn].to = v
        BY <1>1, <3>1, CreditMoves DEF Receiving, ReceiverOps
      <4>2. QED
        BY <3>1, <4>1 DEF SenderOps
    <3>2. CASE WriteDocument(v) /\ queue'[v][i].op = main[v].at /\ queue'[v][i].txn = main[v].txn
      <4>1. /\ main[v].at \in {"send", "sent"} => xfer[main[v].txn].from = v
            /\ main[v].at \in {"received", "delete"} => xfer[main[v].txn].to = v
        BY <1>1 DEF Receiving, ReceiverOps
      <4>2. main[v].at \in {"send", "sent", "received", "delete"}
        BY <3>2, DocumentMoves
      <4>3. QED
        BY <3>2, <4>1, <4>2 DEF SenderOps, ReceiverOps
    <3>3. ASSUME NEW t \in Transfers, From(t) = v, queue'[v][i].op = "debit", queue'[v][i].txn = t
          PROVE  LET w == queue'[v][i] IN
                 /\ w.op \in SenderOps => xfer[w.txn].from = v
                 /\ w.op \in ReceiverOps => xfer[w.txn].to = v
      BY <3>3 DEF From, ReceiverOps
    <3>4. QED
      BY <2>2, <3>1, <3>2, <3>3, NewEntryFields
  <2>3. QED
    BY <2>1, <2>2, EntryOrigin
<1>10. QED
  BY <1>8, <1>counts, XferFixed DEF Owned, From, To
-----------------------------------------------------------------------------
(* The receiver acts only on documents the server has.                     *)

\* The payments that the main thread and the queue are about after a step.
LEMMA NextFields ==
    ASSUME TypeOK, [Next]_vars, NEW v \in Users
    PROVE  /\ main'[v].txn \in Transfers
           /\ \A i \in 1..Len(queue'[v]) : queue'[v][i].txn \in Transfers
<1>1. TypeOK'
  BY NextType
<1>2. queue'[v] \in Seq(Write) /\ main'[v] \in [at : MainAt, txn : Transfers, new : Int]
  BY <1>1 DEF TypeOK
<1>3. \A i \in 1..Len(queue'[v]) : queue'[v][i] \in Write
  BY <1>2
<1>4. QED
  BY <1>2, <1>3 DEF Write

LEMMA SentKept ==
    ASSUME TypeOK, [Next]_vars, NEW t \in Transfers, Sent(t)
    PROVE  Sent(t)'
<1>1. "send" \in Ops
  BY DEF Ops
<1>2. QED
  BY <1>1, CommittedKept DEF Sent

\* A listener asks for a key only for a document the server has: a document
\* that is only in the device's own queue is one its user sends.
LEMMA FetchedIsSent ==
    ASSUME TypeOK, Owned, SentFirst, [Next]_vars, NEW t \in Transfers, fetches'[t] > 0
    PROVE  Sent(t)
<1>1. CASE fetches'[t] = fetches[t]
  BY <1>1 DEF SentFirst
<1>2. ASSUME NEW u \in Users, NEW i \in DOMAIN listeners[u], Snapshot(u, i)
      PROVE  fetches'[t] = fetches[t] \/ Sent(t)
  <2>1. fetches'[t] = fetches[t] \/ t \in Incoming(u, View(u))
    BY <1>2 DEF Snapshot, TypeOK
  <2>2. ASSUME t \in Incoming(u, View(u)) PROVE Sent(t)
    <3>1. To(t) = u /\ (Sent(t) \/ Queued(u, "send", t))
      BY <2>2 DEF Incoming, View, Pending
    <3>2. Queued(u, "send", t) => From(t) = u
      BY DEF Queued, Owned, SenderOps
    <3>3. QED
      BY <3>1, <3>2, PaymentType
  <2>3. QED
    BY <2>1, <2>2
<1>3. ASSUME NEW s \in Transfers, ReceiveKeys(s)
      PROVE  fetches'[t] = fetches[t] \/ Sent(t)
  <2>1. fetches'[t] = fetches[t] \/ (s = t /\ fetches[s] > 0)
    BY <1>3 DEF ReceiveKeys, ReceiveKeysFetched, ReceiveDropped, TypeOK
  <2>2. QED
    BY <2>1 DEF SentFirst
<1>4. ASSUME NEW u \in Users, Stops(u)
      PROVE  fetches'[t] = fetches[t]
  <2>1. fetches'[t] = 0 \/ fetches'[t] = fetches[t]
    BY <1>4, StopsClears
  <2>2. QED
    BY <2>1
<1>5. QED
  BY <1>1, <1>2, <1>3, <1>4, FetchSteps

LEMMA SentFirstStep == TypeOK /\ Owned /\ SentFirst /\ [Next]_vars => SentFirst'
<1> SUFFICES ASSUME TypeOK, Owned, SentFirst, [Next]_vars PROVE SentFirst'
  OBVIOUS
<1>1. ASSUME NEW t \in Transfers, (fetches[t] > 0)' PROVE Sent(t)'
  BY <1>1, FetchedIsSent, SentKept
<1>2. ASSUME NEW t \in Transfers, NEW op \in ReceiverOps, (committed[t][op] > 0)'
      PROVE  Sent(t)'
  <2>1. op \in Ops
    BY DEF ReceiverOps, Ops, BalanceOps
  <2>2. CASE committed'[t][op] = committed[t][op]
    BY <1>2, <2>2, SentKept DEF SentFirst
  <2>3. ASSUME NEW u \in Users, 1 \in 1..Len(queue[u]),
               queue[u][1].op = op, queue[u][1].txn = t
        PROVE  Sent(t)
    BY <2>3 DEF SentFirst
  <2>4. QED
    BY <2>1, <2>2, <2>3, CommittedOrigin, SentKept
<1>3. ASSUME NEW v \in Users, NEW t \in Transfers,
             main'[v].at \in Receiving, main'[v].txn = t
      PROVE  Sent(t)'
  <2>1. /\ Receiving = {"write", "encode", "credit", "received", "delete"}
        /\ main[v].at \in Receiving => Sent(main[v].txn)
    BY DEF SentFirst, Receiving, ReceiverOps
  <2>2. \/ main[v].at \in Receiving /\ main[v].txn = t
        \/ fetches[t] > 0
    BY <1>3, <2>1, MainOrigin
  <2>3. Sent(t)
    BY <2>1, <2>2 DEF SentFirst
  <2>4. QED
    BY <2>3, SentKept
<1>4. ASSUME NEW v \in Users, NEW i \in 1..Len(queue'[v]), NEW t \in Transfers,
             queue'[v][i].op \in ReceiverOps, queue'[v][i].txn = t
      PROVE  Sent(t)'
  <2>1. ASSUME NEW k \in 1..Len(queue[v]), queue'[v][i] = queue[v][k]
        PROVE  Sent(t)
    BY <1>4, <2>1 DEF SentFirst
  <2>2. ASSUME NewEntry(v, queue'[v][i]) PROVE Sent(t)
    <3>0. CreditUpdate(v) => main[v].at = "credit"
      BY CreditMoves
    <3>1. main[v].at \in ReceiverOps /\ main[v].txn = t
      BY <1>4, <2>2, <3>0, NewEntryFields DEF ReceiverOps
    <3>2. QED
      BY <3>1 DEF SentFirst, Receiving
  <2>3. Sent(t)
    BY <2>1, <2>2, EntryOrigin
  <2>4. QED
    BY <2>3, SentKept
<1>5. QED
  BY <1>1, <1>2, <1>3, <1>4, NextFields DEF SentFirst, Sent

-----------------------------------------------------------------------------
(* The order of the receiver's writes.                                     *)

LEMMA CreditFirstStep == TypeOK /\ Owned /\ CreditFirst /\ [Next]_vars => CreditFirst'
<1> SUFFICES ASSUME TypeOK, Owned, CreditFirst, [Next]_vars PROVE CreditFirst'
  OBVIOUS
<1>0. /\ "credit" \in Ops /\ "received" \in Ops
      /\ \A t \in Transfers : Amount(t)' = Amount(t)
  BY XferFixed DEF Ops, BalanceOps, Amount
<1>1. ASSUME NEW t \in Transfers, committed'[t]["received"] > 0, Amount(t)' > 0
      PROVE  committed'[t]["credit"] > 0
  <2>1. CASE committed'[t]["received"] = committed[t]["received"]
    BY <1>0, <1>1, <2>1, CommittedKept DEF CreditFirst
  <2>2. ASSUME NEW u \in Users, 1 \in 1..Len(queue[u]),
               queue[u][1].op = "received", queue[u][1].txn = t
        PROVE  committed'[t]["credit"] > 0
    <3>1. Before(u, 1, "credit", t)
      BY <1>0, <1>1, <2>2 DEF CreditFirst
    <3>2. committed[t]["credit"] > 0
      BY <3>1 DEF Before
    <3>3. QED
      BY <1>0, <3>2, CommittedKept
  <2>3. QED
    BY <1>0, <2>1, <2>2, CommittedOrigin
<1>2. ASSUME NEW v \in Users, NEW t \in Transfers,
             main'[v].at = "received", main'[v].txn = t, Amount(t) > 0
      PROVE  Handed(v, "credit", t)'
  <2>1. CASE main'[v] = main[v]
    <3>1. Handed(v, "credit", t)
      BY <1>2, <2>1 DEF CreditFirst
    <3>2. Handed(v, "credit", t)' \/ NewDevice(v)
      BY <1>0, <3>1, HandedKept
    <3>3. ~NewDevice(v)
      BY <1>2, StopsClears DEF Stops
    <3>4. QED
      BY <3>2, <3>3
  <2>2. CASE CreditUpdate(v) /\ main[v].txn = t
    BY <1>0, <2>2, CreditUpdateEnqueues, EnqueuedIsHanded
  <2>3. QED
    BY <1>2, <2>1, <2>2, MainOrigin
<1>3. ASSUME NEW v \in Users, NEW i \in 1..Len(queue'[v]), NEW t \in Transfers,
             queue'[v][i].op = "received", queue'[v][i].txn = t, Amount(t) > 0
      PROVE  Before(v, i, "credit", t)'
  <2>1. ASSUME NEW k \in 1..Len(queue[v]), queue'[v][i] = queue[v][k], KeptAhead(v, k, i)
        PROVE  Before(v, i, "credit", t)'
    <3>1. Before(v, k, "credit", t)
      BY <1>3, <2>1 DEF CreditFirst
    <3>2. QED
      BY <1>0, <2>1, <3>1 DEF KeptAhead
  <2>2. CASE NewEntry(v, queue'[v][i]) /\ HandedAhead(v, i)
    <3>1. main[v].at = "received" /\ main[v].txn = t
      BY <1>3, <2>2, NewEntryFields
    <3>2. Handed(v, "credit", t)
      BY <1>3, <3>1 DEF CreditFirst
    <3>3. QED
      BY <1>0, <2>2, <3>2 DEF HandedAhead
  <2>3. QED
    BY <2>1, <2>2, EntryOrigin
<1>4. \A v \in Users :
         /\ main'[v].at = "received" /\ Amount(main[v].txn)' > 0
               => Handed(v, "credit", main[v].txn)'
         /\ \A i \in 1..Len(queue'[v]) :
               queue'[v][i].op = "received" /\ Amount(queue[v][i].txn)' > 0
                   => Before(v, i, "credit", queue[v][i].txn)'
  <2>1. \A t \in Transfers : Amount(t)' = Amount(t)
    BY <1>0
  <2>2. QED
    BY <1>2, <1>3, <2>1, NextFields DEF Amount, Handed, Queued, Before
<1>5. QED
  BY <1>1, <1>4 DEF CreditFirst

\* The history record is handed over before the deletion.
LEMMA ReceivedFirstStep ==
    TypeOK /\ Owned /\ ReceivedFirst /\ [Next]_vars => ReceivedFirst'
<1> SUFFICES ASSUME TypeOK, Owned, ReceivedFirst, [Next]_vars PROVE ReceivedFirst'
  OBVIOUS
<1>0. "received" \in Ops /\ "delete" \in Ops
  BY DEF Ops
<1>1. ASSUME NEW t \in Transfers, committed'[t]["delete"] > 0
      PROVE  committed'[t]["received"] > 0
  <2>1. CASE committed'[t]["delete"] = committed[t]["delete"]
    BY <1>0, <1>1, <2>1, CommittedKept DEF ReceivedFirst, Deleted
  <2>2. ASSUME NEW u \in Users, 1 \in 1..Len(queue[u]),
               queue[u][1].op = "delete", queue[u][1].txn = t
        PROVE  committed'[t]["received"] > 0
    <3>1. Before(u, 1, "received", t)
      BY <2>2 DEF ReceivedFirst
    <3>2. committed[t]["received"] > 0
      BY <3>1 DEF Before
    <3>3. QED
      BY <1>0, <3>2, CommittedKept
  <2>3. QED
    BY <1>0, <2>1, <2>2, CommittedOrigin
<1>2. ASSUME NEW v \in Users, NEW t \in Transfers, main'[v].at = "delete", main'[v].txn = t
      PROVE  Handed(v, "received", t)'
  <2>1. CASE main'[v] = main[v]
    <3>1. Handed(v, "received", t)
      BY <1>2, <2>1 DEF ReceivedFirst
    <3>2. Handed(v, "received", t)' \/ NewDevice(v)
      BY <1>0, <3>1, HandedKept
    <3>3. ~NewDevice(v)
      BY <1>2, StopsClears DEF Stops
    <3>4. QED
      BY <3>2, <3>3
  <2>2. CASE WriteDocument(v) /\ main[v].at = "received" /\ main[v].txn = t
    <3>1. 0 \in Int
      OBVIOUS
    <3>2. QED
      BY <1>0, <2>2, <3>1, WriteDocumentEnqueues, EnqueuedIsHanded
  <2>3. QED
    BY <1>2, <2>1, <2>2, MainOrigin
<1>3. ASSUME NEW v \in Users, NEW i \in 1..Len(queue'[v]), NEW t \in Transfers,
             queue'[v][i].op = "delete", queue'[v][i].txn = t
      PROVE  Before(v, i, "received", t)'
  <2>1. ASSUME NEW k \in 1..Len(queue[v]), queue'[v][i] = queue[v][k], KeptAhead(v, k, i)
        PROVE  Before(v, i, "received", t)'
    <3>1. Before(v, k, "received", t)
      BY <1>3, <2>1 DEF ReceivedFirst
    <3>2. QED
      BY <1>0, <2>1, <3>1 DEF KeptAhead
  <2>2. CASE NewEntry(v, queue'[v][i]) /\ HandedAhead(v, i)
    <3>1. main[v].at = "delete" /\ main[v].txn = t
      BY <1>3, <2>2, NewEntryFields
    <3>2. Handed(v, "received", t)
      BY <3>1 DEF ReceivedFirst
    <3>3. QED
      BY <1>0, <2>2, <3>2 DEF HandedAhead
  <2>3. QED
    BY <2>1, <2>2, EntryOrigin
<1>4. \A v \in Users :
         /\ main'[v].at = "delete" => Handed(v, "received", main[v].txn)'
         /\ \A i \in 1..Len(queue'[v]) :
               queue'[v][i].op = "delete" => Before(v, i, "received", queue[v][i].txn)'
  BY <1>2, <1>3, NextFields DEF Handed, Queued, Before
<1>5. QED
  BY <1>1, <1>4 DEF ReceivedFirst, Deleted

-----------------------------------------------------------------------------
(* The order of the sender's writes.                                       *)

LEMMA DebitFirstStep == TypeOK /\ Owned /\ DebitFirst /\ [Next]_vars => DebitFirst'
<1> SUFFICES ASSUME TypeOK, Owned, DebitFirst, [Next]_vars PROVE DebitFirst'
  OBVIOUS
<1>0. /\ "debit" \in Ops /\ "send" \in Ops
      /\ \A t \in Transfers : From(t)' = From(t)
  BY XferFixed DEF Ops, BalanceOps, From
<1>1. ASSUME NEW t \in Transfers, NEW u \in Users, From(t) = u, thread'[t].at = "fetch"
      PROVE  Handed(u, "debit", t)'
  <2>1. CASE thread'[t] = thread[t]
    <3>1. Handed(u, "debit", t)
      BY <1>1, <2>1 DEF DebitFirst
    <3>2. Handed(u, "debit", t)' \/ NewDevice(u)
      BY <1>0, <3>1, HandedKept
    <3>3. ~NewDevice(u)
      BY <1>1, StopsClears DEF Stops
    <3>4. QED
      BY <3>2, <3>3
  <2>2. CASE DebitUpdate(t)
    BY <1>0, <1>1, <2>2, DebitUpdateEnqueues, EnqueuedIsHanded
  <2>3. QED
    BY <1>1, <2>1, <2>2, ThreadOrigin
<1>2. ASSUME NEW t \in Transfers, committed'[t]["send"] > 0
      PROVE  committed'[t]["debit"] > 0
  <2>1. CASE committed'[t]["send"] = committed[t]["send"]
    BY <1>0, <1>2, <2>1, CommittedKept DEF DebitFirst, Sent
  <2>2. ASSUME NEW u \in Users, 1 \in 1..Len(queue[u]),
               queue[u][1].op = "send", queue[u][1].txn = t
        PROVE  committed'[t]["debit"] > 0
    <3>1. Before(u, 1, "debit", t)
      BY <2>2 DEF DebitFirst
    <3>2. committed[t]["debit"] > 0
      BY <3>1 DEF Before
    <3>3. QED
      BY <1>0, <3>2, CommittedKept
  <2>3. QED
    BY <1>0, <2>1, <2>2, CommittedOrigin
<1>3. ASSUME NEW v \in Users, NEW t \in Transfers, main'[v].at = "send", main'[v].txn = t
      PROVE  Handed(v, "debit", t)'
  <2>1. Handed(v, "debit", t)
    <3>1. CASE main'[v] = main[v]
      BY <1>3, <3>1 DEF DebitFirst
    <3>2. CASE SendKeysFetched(t) /\ From(t) = v
      BY <3>2 DEF DebitFirst, SendKeysFetched
    <3>3. QED
      BY <1>3, <3>1, <3>2, MainOrigin
  <2>2. Handed(v, "debit", t)' \/ NewDevice(v)
    BY <1>0, <2>1, HandedKept
  <2>3. ~NewDevice(v)
    BY <1>3, StopsClears DEF Stops
  <2>4. QED
    BY <2>2, <2>3
<1>4. ASSUME NEW v \in Users, NEW i \in 1..Len(queue'[v]), NEW t \in Transfers,
             queue'[v][i].op = "send", queue'[v][i].txn = t
      PROVE  Before(v, i, "debit", t)'
  <2>1. ASSUME NEW k \in 1..Len(queue[v]), queue'[v][i] = queue[v][k], KeptAhead(v, k, i)
        PROVE  Before(v, i, "debit", t)'
    <3>1. Before(v, k, "debit", t)
      BY <1>4, <2>1 DEF DebitFirst
    <3>2. QED
      BY <1>0, <2>1, <3>1 DEF KeptAhead
  <2>2. CASE NewEntry(v, queue'[v][i]) /\ HandedAhead(v, i)
    <3>1. main[v].at = "send" /\ main[v].txn = t
      BY <1>4, <2>2, NewEntryFields
    <3>2. Handed(v, "debit", t)
      BY <3>1 DEF DebitFirst
    <3>3. QED
      BY <1>0, <2>2, <3>2 DEF HandedAhead
  <2>3. QED
    BY <2>1, <2>2, EntryOrigin
<1>5. \A v \in Users :
         /\ main'[v].at = "send" => Handed(v, "debit", main[v].txn)'
         /\ \A i \in 1..Len(queue'[v]) :
               queue'[v][i].op = "send" => Before(v, i, "debit", queue[v][i].txn)'
  BY <1>3, <1>4, NextFields DEF Handed, Queued, Before
<1>6. \A t \in Transfers : thread'[t].at = "fetch" => Handed(From(t), "debit", t)'
  BY <1>0, <1>1, PaymentType DEF Handed, Queued
<1>7. QED
  BY <1>2, <1>5, <1>6 DEF DebitFirst, Sent

-----------------------------------------------------------------------------
(* A payment's debit and its document are written once.                    *)

\* Only the sender's thread writes the debit, and only the sender's main
\* thread, in that payment's callback, writes the document.
LEMMA NoneYetKept ==
    ASSUME TypeOK, Owned, [Next]_vars, NEW t \in Transfers, NEW op \in {"debit", "send"},
           NoneYet(t, op)
    PROVE  \/ committed'[t][op] = 0 /\ \A i \in 1..Len(queue'[From(t)]) :
                  ~(queue'[From(t)][i].op = op /\ queue'[From(t)][i].txn = t)
           \/ op = "debit" /\ DebitUpdate(t)
           \/ /\ op = "send" /\ WriteDocument(From(t))
              /\ main[From(t)].at = "send" /\ main[From(t)].txn = t
<1> DEFINE u == From(t)
<1>0. u \in Users /\ op \in Ops /\ op \in SenderOps
  BY PaymentType DEF Ops, BalanceOps, SenderOps
<1>1. /\ committed[t][op] = 0
      /\ \A k \in 1..Len(queue[u]) : ~(queue[u][k].op = op /\ queue[u][k].txn = t)
  BY DEF NoneYet, Queued
<1>2. ASSUME NEW x \in Users, 1 \in 1..Len(queue[x]),
             queue[x][1].op = op, queue[x][1].txn = t
      PROVE  FALSE
  <2>1. u = x
    BY <1>0, <1>2 DEF Owned
  <2>2. QED
    BY <1>1, <1>2, <2>1
<1>3. committed'[t][op] = 0
  BY <1>0, <1>1, <1>2, CommittedOrigin
<1>4. ASSUME NEW i \in 1..Len(queue'[u]), queue'[u][i].op = op, queue'[u][i].txn = t
      PROVE  \/ op = "debit" /\ DebitUpdate(t)
             \/ op = "send" /\ WriteDocument(u) /\ main[u].at = "send" /\ main[u].txn = t
  <2>1. \/ \E k \in 1..Len(queue[u]) : queue'[u][i] = queue[u][k]
        \/ NewEntry(u, queue'[u][i])
    BY <1>0, EntryOrigin
  <2>2. NewEntry(u, queue'[u][i])
    BY <1>1, <1>4, <2>1
  <2>3. WriteDocument(u) => main[u].at \in {"send", "sent", "received", "delete"}
    BY <1>0, DocumentMoves
  <2>4. QED
    BY <1>4, <2>2, <2>3, NewEntryFields
<1>5. QED
  BY <1>3, <1>4

\* Once, with the sender named.
OnceBy(u, t, op) ==
    /\ committed[t][op] <= 1
    /\ committed[t][op] = 1 => ~Queued(u, op, t)
    /\ \A i, j \in 1..Len(queue[u]) :
          (/\ queue[u][i].op = op /\ queue[u][i].txn = t
           /\ queue[u][j].op = op /\ queue[u][j].txn = t) => i = j

LEMMA EnqueueOnce ==
    ASSUME TypeOK, NEW u \in Users, NEW o \in Ops, NEW s \in Transfers, NEW b \in Int,
           Enqueue(u, o, s, b), committed' = committed,
           NEW v \in Users, NEW op \in Ops, NEW t \in Transfers, OnceBy(v, t, op),
           (u = v /\ o = op /\ s = t) => committed[t][op] = 0 /\ ~Queued(v, op, t)
    PROVE  OnceBy(v, t, op)'
<1> DEFINE Matches(e) == e.op = op /\ e.txn = t
<1>0. Len(queue[u]) \in Nat
  BY QueueType
<1>1. CASE v # u
  <2>1. queue'[v] = queue[v]
    BY <1>1, EnqueueFacts
  <2>2. QED
    BY <2>1 DEF OnceBy, Queued
<1>2. ASSUME NEW i \in 1..Len(queue'[u]), Matches(queue'[u][i])
      PROVE  \/ i \in 1..Len(queue[u]) /\ Matches(queue[u][i])
             \/ i = Len(queue[u]) + 1 /\ o = op /\ s = t
  <2>1. \/ i \in 1..Len(queue[u]) /\ queue'[u][i] = queue[u][i]
        \/ /\ i = Len(queue[u]) + 1
           /\ queue'[u][i] = [op |-> o, txn |-> s, amount |-> b]
    BY EnqueuePositions
  <2>2. CASE i \in 1..Len(queue[u]) /\ queue'[u][i] = queue[u][i]
    BY <1>2, <2>2
  <2>3. CASE i = Len(queue[u]) + 1 /\ queue'[u][i] = [op |-> o, txn |-> s, amount |-> b]
    BY <1>2, <2>3
  <2>4. QED
    BY <2>1, <2>2, <2>3
<1>3. CASE v = u /\ o = op /\ s = t
  <2>1. committed[t][op] = 0 /\ \A k \in 1..Len(queue[u]) : ~Matches(queue[u][k])
    BY <1>3 DEF Queued
  <2>2. \A i \in 1..Len(queue'[u]) : Matches(queue'[u][i]) => i = Len(queue[u]) + 1
    BY <1>2, <1>3, <2>1
  <2>3. QED
    BY <1>3, <2>1, <2>2 DEF OnceBy
<1>4. CASE v = u /\ ~(o = op /\ s = t)
  <2>1. \A i \in 1..Len(queue'[u]) :
           Matches(queue'[u][i]) => i \in 1..Len(queue[u]) /\ Matches(queue[u][i])
    BY <1>2, <1>4
  <2>2. QED
    BY <1>4, <2>1 DEF OnceBy, Queued
<1>5. QED
  BY <1>1, <1>3, <1>4

LEMMA CommitOnce ==
    ASSUME TypeOK, NEW u \in Users, Commit(u), NEW v \in Users, NEW op \in Ops,
           NEW t \in Transfers, OnceBy(v, t, op),
           queue[u][1].op = op /\ queue[u][1].txn = t => u = v
    PROVE  OnceBy(v, t, op)'
<1> DEFINE Matches(e) == e.op = op /\ e.txn = t
<1>0. Len(queue[u]) \in Nat /\ committed[t][op] \in Nat /\ 1 \in 1..Len(queue[u])
  <2>1. Len(queue[u]) \in Nat /\ Len(queue[u]) >= 1
    BY QueueType, CommitFacts
  <2>2. committed[t][op] \in Nat
    BY DEF TypeOK
  <2>3. QED
    BY <2>1, <2>2
<1>1. CASE v # u
  <2>1. queue'[v] = queue[v] /\ committed'[t][op] = committed[t][op]
    BY <1>1, CommitFacts
  <2>2. QED
    BY <2>1 DEF OnceBy, Queued
<1>2. ASSUME NEW i \in 1..Len(queue'[u]), Matches(queue'[u][i])
      PROVE  i \in Nat /\ i >= 1 /\ i + 1 \in 1..Len(queue[u]) /\ Matches(queue[u][i + 1])
  <2>1. i \in Nat /\ i >= 1 /\ i + 1 \in 1..Len(queue[u])
    BY <1>0, CommitFacts
  <2>2. QED
    BY <1>2, <2>1, CommitFacts
<1>3. CASE v = u /\ Matches(queue[u][1])
  <2>1. committed[t][op] = 0
    BY <1>0, <1>3 DEF OnceBy, Queued
  <2>2. committed'[t][op] = 1
    BY <1>3, <2>1, CommitFacts
  <2>3. \A i \in 1..Len(queue'[u]) : ~Matches(queue'[u][i])
    <3> SUFFICES ASSUME NEW i \in 1..Len(queue'[u]), Matches(queue'[u][i]) PROVE FALSE
      OBVIOUS
    <3>1. i \in Nat /\ i >= 1 /\ i + 1 \in 1..Len(queue[u]) /\ Matches(queue[u][i + 1])
      BY <1>2
    <3>2. i + 1 = 1
      BY <1>0, <1>3, <3>1 DEF OnceBy
    <3>3. QED
      BY <3>1, <3>2
  <2>4. QED
    BY <1>3, <2>2, <2>3 DEF OnceBy, Queued
<1>4. CASE v = u /\ ~Matches(queue[u][1])
  <2>1. committed'[t][op] = committed[t][op]
    BY <1>4, CommitFacts
  <2>2. Queued(u, op, t)' => Queued(u, op, t)
    BY <1>2 DEF Queued
  <2>3. ASSUME NEW i \in 1..Len(queue'[u]), NEW j \in 1..Len(queue'[u]),
               Matches(queue'[u][i]), Matches(queue'[u][j])
        PROVE  i = j
    <3>1. /\ i \in Nat /\ i + 1 \in 1..Len(queue[u]) /\ Matches(queue[u][i + 1])
          /\ j \in Nat /\ j + 1 \in 1..Len(queue[u]) /\ Matches(queue[u][j + 1])
      BY <1>2, <2>3
    <3>2. i + 1 = j + 1
      BY <1>4, <3>1 DEF OnceBy
    <3>3. QED
      BY <3>1, <3>2
  <2>4. QED
    BY <1>4, <2>1, <2>2, <2>3 DEF OnceBy
<1>5. QED
  BY <1>1, <1>3, <1>4

\* Without a step of the payment itself, what is written once stays so.
LEMMA OnceKept ==
    ASSUME TypeOK, Owned, [Next]_vars, NEW t \in Transfers, NEW op \in {"debit", "send"},
           NEW v \in Users, From(t) = v, OnceBy(v, t, op),
           op = "debit" /\ DebitUpdate(t)
               => committed[t][op] = 0 /\ ~Queued(v, op, t),
           op = "send" /\ WriteDocument(v) /\ main[v].at = "send" /\ main[v].txn = t
               => committed[t][op] = 0 /\ ~Queued(v, op, t)
    PROVE  OnceBy(v, t, op)'
<1>0. op \in Ops /\ op \in SenderOps /\ 0 \in Int
  BY DEF Ops, BalanceOps, SenderOps
<1>1. CASE UNCHANGED <<queue, committed>>
  BY <1>1 DEF OnceBy, Queued
<1>2. ASSUME NEW u \in Users, CreditUpdate(u) PROVE OnceBy(v, t, op)'
  <2>1. /\ Enqueue(u, "credit", main[u].txn, main[u].new) /\ "credit" # op
        /\ "credit" \in Ops /\ main[u].txn \in Transfers /\ main[u].new \in Int
        /\ committed' = committed
    BY <1>2, CreditUpdateEnqueues
  <2>2. QED
    BY <1>0, <2>1, EnqueueOnce
<1>3. ASSUME NEW u \in Users, WriteDocument(u) PROVE OnceBy(v, t, op)'
  <2>1. /\ Enqueue(u, main[u].at, main[u].txn, 0)
        /\ main[u].at \in Ops /\ main[u].txn \in Transfers
        /\ main[u].at # "debit" /\ committed' = committed
    BY <1>3, WriteDocumentEnqueues
  <2>2. u = v /\ main[u].at = op /\ main[u].txn = t
            => committed[t][op] = 0 /\ ~Queued(v, op, t)
    BY <1>3, <2>1
  <2>3. QED
    BY <1>0, <2>1, <2>2, EnqueueOnce
<1>4. ASSUME NEW s \in Transfers, DebitUpdate(s) PROVE OnceBy(v, t, op)'
  <2>1. /\ Enqueue(From(s), "debit", s, thread[s].new)
        /\ From(s) \in Users /\ "debit" \in Ops /\ thread[s].new \in Int
        /\ committed' = committed
    BY <1>4, DebitUpdateEnqueues
  <2>2. op = "debit" /\ s = t => committed[t][op] = 0 /\ ~Queued(v, op, t)
    BY <1>4
  <2>3. QED
    BY <1>0, <2>1, <2>2, EnqueueOnce
<1>5. ASSUME NEW u \in Users, Commit(u) PROVE OnceBy(v, t, op)'
  <2>1. 1 \in 1..Len(queue[u])
    <3>1. Len(queue[u]) \in Nat /\ Len(queue[u]) >= 1
      BY <1>5, QueueType, CommitFacts
    <3>2. QED
      BY <3>1
  <2>2. queue[u][1].op = op /\ queue[u][1].txn = t => u = v
    BY <1>0, <2>1 DEF Owned
  <2>3. QED
    BY <1>0, <1>5, <2>2, CommitOnce
<1>6. ASSUME NEW u \in Users, NewDevice(u) PROVE OnceBy(v, t, op)'
  <2>1. committed' = committed /\ (queue'[v] = queue[v] \/ Len(queue'[v]) = 0)
    BY <1>6, NewDeviceEmpties
  <2>2. CASE queue'[v] = queue[v]
    BY <2>1, <2>2 DEF OnceBy, Queued
  <2>3. CASE Len(queue'[v]) = 0
    BY <2>1, <2>3 DEF OnceBy, Queued
  <2>4. QED
    BY <2>1, <2>2, <2>3
<1>7. QED
  BY <1>1, <1>2, <1>3, <1>4, <1>5, <1>6, QueueSteps

LEMMA WrittenOnceStep == TypeOK /\ Owned /\ WrittenOnce /\ [Next]_vars => WrittenOnce'
<1> SUFFICES ASSUME TypeOK, Owned, WrittenOnce, [Next]_vars PROVE WrittenOnce'
  OBVIOUS
<1> SUFFICES ASSUME NEW t \in Transfers, NEW u \in Users, From(t) = u
             PROVE  /\ thread'[t].at \notin {"fetch", "done"} => NoneYet(t, "debit")'
                    /\ thread'[t].at # "done" => NoneYet(t, "send")'
                    /\ main'[u].at = "send" /\ main'[u].txn = t
                          => NoneYet(t, "send")' /\ thread'[t].at = "done"
                    /\ Once(t, "debit")'
                    /\ Once(t, "send")'
  <2>1. \A t \in Transfers : From(t) \in Users /\ From(t)' = From(t)
    BY PaymentType, XferFixed DEF From
  <2>2. QED
    BY <2>1 DEF WrittenOnce
<1>0. From(t)' = u
  BY XferFixed DEF From
<1>1. ASSUME NEW op \in {"debit", "send"}, NoneYet(t, op),
             ~(op = "debit" /\ DebitUpdate(t)),
             ~(op = "send" /\ WriteDocument(u) /\ main[u].at = "send" /\ main[u].txn = t)
      PROVE  NoneYet(t, op)'
  <2>1. committed'[t][op] = 0 /\ \A i \in 1..Len(queue'[u]) :
            ~(queue'[u][i].op = op /\ queue'[u][i].txn = t)
    BY <1>1, NoneYetKept
  <2>2. QED
    BY <1>0, <2>1 DEF NoneYet, Queued
<1>2. DebitUpdate(t) => thread[t].at = "update" /\ thread'[t].at = "fetch"
  BY ThreadMoves DEF DebitUpdate
<1>3. WriteDocument(u) /\ main[u].at = "send" => main'[u].at = "sent"
  BY DocumentMoves
<1>4. main[u].at = "send" /\ main[u].txn = t => NoneYet(t, "send") /\ thread[t].at = "done"
  BY DEF WrittenOnce
<1>5. thread[t].at = "done" => thread'[t].at = "done"
  BY ThreadOrigin
<1>6. ASSUME thread'[t].at \notin {"fetch", "done"} PROVE NoneYet(t, "debit")'
  <2>1. thread[t].at \notin {"fetch", "done"}
    BY <1>6, ThreadOrigin
  <2>2. NoneYet(t, "debit")
    BY <2>1 DEF WrittenOnce
  <2>3. QED
    BY <1>1, <1>2, <1>6, <2>2
<1>7. ASSUME thread'[t].at # "done" PROVE NoneYet(t, "send")'
  <2>1. thread[t].at # "done"
    BY <1>5, <1>7
  <2>2. NoneYet(t, "send")
    BY <2>1 DEF WrittenOnce
  <2>3. QED
    BY <1>1, <1>4, <2>1, <2>2
<1>8. ASSUME main'[u].at = "send", main'[u].txn = t
      PROVE  NoneYet(t, "send")' /\ thread'[t].at = "done"
  <2>1. CASE main'[u] = main[u]
    <3>1. NoneYet(t, "send") /\ thread[t].at = "done"
      BY <1>4, <1>8, <2>1
    <3>2. ~(WriteDocument(u) /\ main[u].at = "send")
      BY <1>3, <1>8
    <3>3. QED
      BY <1>1, <1>5, <3>1, <3>2
  <2>2. CASE SendKeysFetched(t)
    <3>1. thread[t].at = "fetch" /\ main[u].at = "idle" /\ thread'[t].at = "done"
      BY <2>2, ThreadMoves DEF SendKeysFetched, MainIdle
    <3>2. NoneYet(t, "send")
      BY <3>1 DEF WrittenOnce
    <3>3. QED
      BY <1>1, <3>1, <3>2
  <2>3. QED
    BY <1>8, <2>1, <2>2, MainOrigin
<1>counts. ASSUME NEW op \in {"debit", "send"} PROVE Once(t, op)'
  <2>1. OnceBy(u, t, op)
    BY DEF WrittenOnce, Once, OnceBy
  <2>2. op = "debit" /\ DebitUpdate(t) => committed[t][op] = 0 /\ ~Queued(u, op, t)
    BY <1>2 DEF WrittenOnce, NoneYet
  <2>3. op = "send" /\ WriteDocument(u) /\ main[u].at = "send" /\ main[u].txn = t
            => committed[t][op] = 0 /\ ~Queued(u, op, t)
    BY <1>4 DEF NoneYet
  <2>4. OnceBy(u, t, op)'
    BY <2>1, <2>2, <2>3, OnceKept
  <2>5. QED
    BY <1>0, <2>4 DEF Once, OnceBy, Queued
<1>10. QED
  BY <1>6, <1>7, <1>8, <1>counts

-----------------------------------------------------------------------------
(* No balance goes below zero.                                             *)

\* The only steps that change a balance: on the server, in a local store, in
\* memory, or among the answers that wait.
LEMMA BalanceSteps ==
    [Next]_vars => balance' = balance \/ \E u \in Users : Commit(u)
BY DEF Next, vars, server, SessionNext, SignIn, GetBalance, BalanceLoaded, Snapshot,
       MainThread, CreditWrite, CreditEncode, CreditUpdate, WriteDocument, Stops, Crash,
       ListenerError, NewDevice, ProcessEnds, PayPressed, PayThread, DebitRead, DebitWrite,
       DebitEncode, DebitUpdate, SendKeys, SendKeysFetched, SendKeysMissing, ReceiveKeys,
       ReceiveKeysFetched, ReceiveDropped

LEMMA LocalSteps ==
    [Next]_vars => \/ local' = local
                   \/ \E u \in Users : CreditUpdate(u) \/ NewDevice(u)
                   \/ \E t \in Transfers : DebitUpdate(t)
BY DEF Next, vars, device, SessionNext, SignIn, GetBalance, BalanceLoaded, Snapshot,
       MainThread, CreditWrite, CreditEncode, WriteDocument, Commit, Stops, Crash,
       ListenerError, PayPressed, PayThread, DebitRead, DebitWrite, DebitEncode,
       SendKeys, SendKeysFetched, SendKeysMissing, ReceiveKeys, ReceiveKeysFetched,
       ReceiveDropped

LEMMA MemorySteps ==
    [Next]_vars => \/ curr_balance' = curr_balance
                   \/ \E u \in Users : \/ SignIn(u) \/ BalanceLoaded(u) \/ CreditWrite(u)
                                       \/ Stops(u)
                   \/ \E t \in Transfers : DebitWrite(t)
BY DEF Next, vars, app, SessionNext, GetBalance, Snapshot, MainThread, CreditEncode,
       CreditUpdate, WriteDocument, Commit, PayPressed, PayThread, DebitRead, DebitEncode,
       DebitUpdate, SendKeys, SendKeysFetched, SendKeysMissing, ReceiveKeys,
       ReceiveKeysFetched, ReceiveDropped

LEMMA AnswerSteps ==
    [Next]_vars => \/ answers' = answers
                   \/ \E u \in Users : GetBalance(u) \/ BalanceLoaded(u) \/ Stops(u)
BY DEF Next, vars, client, SessionNext, SignIn, Snapshot, MainThread, CreditWrite,
       CreditEncode, CreditUpdate, WriteDocument, Commit, PayPressed, PayThread, DebitRead,
       DebitWrite, DebitEncode, DebitUpdate, SendKeys, SendKeysFetched, SendKeysMissing,
       ReceiveKeys, ReceiveKeysFetched, ReceiveDropped

LEMMA SolventStep == TypeOK /\ Solvent /\ [Next]_vars => Solvent'
<1> SUFFICES ASSUME TypeOK, Solvent, [Next]_vars PROVE Solvent'
  OBVIOUS
<1> USE DEF Solvent, NoOverdraft
<1>1. ASSUME NEW v \in Users PROVE balance'[v] >= 0
  <2>1. ASSUME NEW u \in Users, Commit(u) PROVE balance'[v] >= 0
    <3>1. queue[u] \in Seq(Write) /\ queue[u] # <<>>
      BY <2>1 DEF Commit, TypeOK
    <3>2. Head(queue[u]) = queue[u][1] /\ 1 \in 1..Len(queue[u])
      BY <3>1
    <3>3. balance' = [balance EXCEPT ![u] = queue[u][1].amount] \/ balance' = balance
      BY <2>1, <3>2 DEF Commit
    <3>4. queue[u][1].amount >= 0
      BY <3>2
    <3>5. QED
      BY <3>3, <3>4 DEF TypeOK
  <2>2. QED
    BY <2>1, BalanceSteps
<1>2. ASSUME NEW v \in Users PROVE local'[v] >= 0
  <2>1. ASSUME NEW u \in Users, NEW b, b >= 0, local' = [local EXCEPT ![u] = b]
        PROVE  local'[v] >= 0
    BY <2>1 DEF TypeOK
  <2>2. ASSUME NEW u \in Users, CreditUpdate(u) PROVE local'[v] >= 0
    <3>1. main[u].new >= 0
      BY <2>2 DEF CreditUpdate
    <3>2. QED
      BY <2>1, <2>2, <3>1, CreditUpdateEnqueues
  <2>3. ASSUME NEW u \in Users, NewDevice(u) PROVE local'[v] >= 0
    BY <2>1, <2>3 DEF NewDevice
  <2>4. ASSUME NEW t \in Transfers, DebitUpdate(t) PROVE local'[v] >= 0
    BY <2>1, <2>4, DebitUpdateEnqueues
  <2>5. QED
    BY <2>2, <2>3, <2>4, LocalSteps
<1>3. ASSUME NEW v \in Users PROVE curr_balance'[v] >= 0
  <2>1. ASSUME NEW u \in Users, NEW b, b >= 0, curr_balance' = [curr_balance EXCEPT ![u] = b]
        PROVE  curr_balance'[v] >= 0
    BY <2>1 DEF TypeOK
  <2>2. ASSUME NEW u \in Users, SignIn(u) \/ Stops(u) PROVE curr_balance'[v] >= 0
    BY <2>1, <2>2 DEF SignIn, Stops, Crash, ListenerError, NewDevice, ProcessEnds
  <2>3. ASSUME NEW u \in Users, BalanceLoaded(u) PROVE curr_balance'[v] >= 0
    <3>1. answers[u] \in Seq(Int) /\ answers[u] # <<>>
      BY <2>3 DEF BalanceLoaded, TypeOK
    <3>2. Head(answers[u]) = answers[u][1] /\ 1 \in 1..Len(answers[u])
      BY <3>1
    <3>3. Head(answers[u]) >= 0
      BY <3>2
    <3>4. QED
      BY <2>1, <2>3, <3>3 DEF BalanceLoaded
  <2>4. ASSUME NEW u \in Users, CreditWrite(u) PROVE curr_balance'[v] >= 0
    BY <2>1, <2>4 DEF CreditWrite
  <2>5. ASSUME NEW t \in Transfers, DebitWrite(t) PROVE curr_balance'[v] >= 0
    BY <2>1, <2>5, PaymentType DEF DebitWrite
  <2>6. QED
    BY <2>2, <2>3, <2>4, <2>5, MemorySteps
<1>4. ASSUME NEW v \in Users, NEW i \in 1..Len(queue'[v]) PROVE queue'[v][i].amount >= 0
  <2>1. ASSUME NewEntry(v, queue'[v][i]) PROVE queue'[v][i].amount >= 0
    <3>1. CreditUpdate(v) => main[v].new >= 0
      BY CreditMoves
    <3>2. \A t \in Transfers : DebitUpdate(t) => thread[t].new >= 0
      BY DebitUpdateEnqueues
    <3>3. QED
      BY <2>1, <3>1, <3>2, NewEntryFields
  <2>2. QED
    BY <2>1, EntryOrigin
<1>5. ASSUME NEW v \in Users, NEW i \in 1..Len(answers'[v]) PROVE answers'[v][i] >= 0
  <2>0. /\ \A u \in Users : answers[u] \in Seq(Int) /\ Len(answers[u]) \in Nat
        /\ local[v] >= 0 /\ local[v] \in Int
    BY DEF TypeOK
  <2>1. ASSUME NEW u \in Users, GetBalance(u) PROVE answers'[v][i] >= 0
    <3>1. PICK b \in {local[u]} \cup (IF "balanceLoad" \in Failures THEN {0} ELSE {}) :
             answers' = [answers EXCEPT ![u] = Append(@, b)]
      BY <2>1 DEF GetBalance
    <3>2. b >= 0 /\ b \in Int
      BY <3>1 DEF TypeOK
    <3>3. CASE u = v
      <4>1. answers'[v] = Append(answers[v], b)
        BY <3>1, <3>3 DEF TypeOK
      <4>2. \/ i \in 1..Len(answers[v]) /\ answers'[v][i] = answers[v][i]
            \/ answers'[v][i] = b
        BY <2>0, <3>2, <4>1
      <4>3. QED
        BY <3>2, <4>2
    <3>4. CASE u # v
      BY <3>1, <3>4 DEF TypeOK
    <3>5. QED
      BY <3>3, <3>4
  <2>2. ASSUME NEW u \in Users, BalanceLoaded(u) PROVE answers'[v][i] >= 0
    <3>1. answers' = [answers EXCEPT ![u] = Tail(@)] /\ answers[u] # <<>>
      BY <2>2 DEF BalanceLoaded
    <3>2. CASE u = v
      <4>1. answers'[v] = Tail(answers[v])
        BY <3>1, <3>2 DEF TypeOK
      <4>0. answers[v] \in Seq(Int) /\ answers[v] # <<>> /\ Len(answers[v]) \in Nat
        BY <2>0, <3>1, <3>2
      <4>2. /\ Len(Tail(answers[v])) = Len(answers[v]) - 1
            /\ \A k \in 1..(Len(answers[v]) - 1) : Tail(answers[v])[k] = answers[v][k + 1]
        BY <4>0
      <4>4. i + 1 \in 1..Len(answers[v]) /\ answers'[v][i] = answers[v][i + 1]
        BY <4>0, <4>1, <4>2
      <4>5. QED
        BY <4>4
    <3>3. CASE u # v
      BY <3>1, <3>3 DEF TypeOK
    <3>4. QED
      BY <3>2, <3>3
  <2>3. ASSUME NEW u \in Users, Stops(u) PROVE answers'[v][i] >= 0
    <3>1. answers' = [answers EXCEPT ![u] = <<>>]
      BY <2>3 DEF Stops, Crash, ListenerError, NewDevice, ProcessEnds
    <3>2. answers'[v] = answers[v] \/ Len(answers'[v]) = 0
      BY <3>1 DEF TypeOK
    <3>3. QED
      BY <3>2
  <2>4. QED
    BY <2>1, <2>2, <2>3, AnswerSteps
<1>6. ASSUME NEW v \in Users, main'[v].at \in {"write", "credit"} PROVE main'[v].new >= 0
  <2>1. curr_balance[v] \in Int /\ curr_balance[v] >= 0
    BY DEF TypeOK
  <2>2. \A t \in Transfers : Amount(t) \in Int /\ Amount(t) >= 0
    BY PaymentType
  <2>3. QED
    BY <1>6, <2>1, <2>2, MainOrigin
<1>7. ASSUME NEW t \in Transfers, thread'[t].at \in {"write", "update"}
      PROVE  thread'[t].new >= 0
  BY <1>7, PaymentType, ThreadOrigin
<1>8. QED
  BY <1>1, <1>2, <1>3, <1>4, <1>5, <1>6, <1>7

-----------------------------------------------------------------------------
(* The invariant and what follows from it.                                 *)

LEMMA InitInvariant == Init => IInv
<1> SUFFICES ASSUME Init PROVE IInv
  OBVIOUS
<1>1. TypeOK
  BY InitType
<1>2. /\ \A u \in Users : Len(queue[u]) = 0 /\ Len(answers[u]) = 0 /\ main[u].at = "idle"
      /\ \A t \in Transfers : /\ thread[t].at = "none" /\ fetches[t] = 0
                              /\ \A op \in Ops : committed[t][op] = 0
  BY DEF Init, Idle
<1>3. \A t \in Transfers : From(t) \in Users
  BY <1>1, PaymentType
<1>4. /\ "debit" \in Ops /\ "credit" \in Ops /\ "send" \in Ops /\ "received" \in Ops
      /\ "delete" \in Ops /\ ReceiverOps \subseteq Ops
  BY DEF Ops, BalanceOps, ReceiverOps
<1>5. Owned /\ SentFirst /\ CreditFirst /\ ReceivedFirst /\ DebitFirst
  BY <1>2, <1>4 DEF Owned, SentFirst, CreditFirst, ReceivedFirst, DebitFirst, Sent, Deleted,
                    Receiving, ReceiverOps
<1>6. WrittenOnce
  BY <1>2, <1>3, <1>4 DEF WrittenOnce, NoneYet, Once, Queued
<1>7. Solvent
  <2>1. \A u \in Users : InitBalance[u] \in Nat
    BY BalanceAssumption
  <2>2. /\ balance = InitBalance /\ local = InitBalance
        /\ \A u \in Users : curr_balance[u] = 0
    BY DEF Init
  <2>3. ASSUME NEW u \in Users
        PROVE  balance[u] >= 0 /\ local[u] >= 0 /\ curr_balance[u] >= 0
    <3>1. balance[u] \in Nat /\ local[u] \in Nat
      BY <2>1, <2>2
    <3>2. curr_balance[u] = 0
      BY <2>2
    <3>3. QED
      BY <3>1, <3>2
  <2>4. QED
    BY <1>2, <2>3 DEF Solvent, NoOverdraft
<1>8. QED
  BY <1>1, <1>5, <1>6, <1>7 DEF IInv

LEMMA NextInvariant == IInv /\ [Next]_vars => IInv'
<1>1. IInv /\ [Next]_vars => TypeOK'
  BY NextType DEF IInv
<1>2. QED
  BY <1>1, OwnedStep, SolventStep, DebitFirstStep, WrittenOnceStep, SentFirstStep,
     CreditFirstStep, ReceivedFirstStep DEF IInv

\* Everything that is true of every reachable state of the money path, for
\* any users, payments, amounts, failures and crashes.
THEOREM InvariantHolds == Spec => []IInv
<1>1. Init => IInv
  BY InitInvariant
<1>2. IInv /\ [Next]_vars => IInv'
  BY NextInvariant
<1>3. QED
  BY <1>1, <1>2, PTL DEF Spec

\* No balance is ever negative: updateBalance checks its own result, and no
\* interleaving of the pay threads with the main thread, crash or late write
\* puts an unchecked value into memory, a queue or the server.
THEOREM Solvency == Spec => []NoOverdraft
<1>1. IInv => NoOverdraft
  BY DEF IInv, Solvent
<1>2. QED
  BY <1>1, InvariantHolds, PTL

\* make_transaction debits before it posts: the server never has a document
\* without exactly one debit of the sender, nor two writes of one document.
THEOREM PaymentOrder == Spec => []PaidBeforeSent
<1>1. IInv => PaidBeforeSent
  <2> SUFFICES ASSUME IInv, NEW t \in Transfers
               PROVE  /\ Sent(t) => committed[t]["debit"] = 1
                      /\ committed[t]["send"] <= 1
    BY DEF PaidBeforeSent
  <2>1. committed[t]["debit"] \in Nat
    BY DEF IInv, TypeOK, Ops, BalanceOps
  <2>2. Sent(t) => committed[t]["debit"] > 0
    BY DEF IInv, DebitFirst
  <2>3. committed[t]["debit"] <= 1 /\ committed[t]["send"] <= 1
    BY DEF IInv, WrittenOnce, Once
  <2>4. QED
    BY <2>1, <2>2, <2>3
<1>2. QED
  BY <1>1, InvariantHolds, PTL

\* updateAccount writes, to the server or to the queue, only for a document
\* that the server has or had.
THEOREM ReceiptsAreOfSent == Spec => []OnlySentReceived
<1>1. IInv => OnlySentReceived
  <2> SUFFICES ASSUME IInv, NEW t \in Transfers, NEW op \in {"credit", "received", "delete"},
                      committed[t][op] > 0 \/ Queued(To(t), op, t)
               PROVE  Sent(t)
    BY DEF OnlySentReceived
  <2>1. op \in ReceiverOps /\ To(t) \in Users
    BY PaymentType DEF ReceiverOps, IInv
  <2>2. QED
    BY <2>1 DEF IInv, SentFirst, Queued
<1>2. QED
  BY <1>1, InvariantHolds, PTL

\* updateAccount credits, records and only then deletes: a document that is
\* gone was booked, whatever stopped the app in between.
THEOREM NothingSwallowed == Spec => []SettledAfterReceipt
<1>1. IInv => SettledAfterReceipt
  BY DEF IInv, ReceivedFirst, CreditFirst, SettledAfterReceipt
<1>2. QED
  BY <1>1, InvariantHolds, PTL

-----------------------------------------------------------------------------
(* Wallet implements TransferLifecycle.                                    *)

\* What the invariant says of the counts of one payment.
Ordered(t) ==
    /\ Sent(t) => committed[t]["debit"] > 0
    /\ Booked(t) => Sent(t)
    /\ committed[t]["received"] > 0 => Booked(t)
    /\ Deleted(t) => Booked(t)

LEMMA Counts == IInv => \A t \in Transfers : Ordered(t)
<1> SUFFICES ASSUME IInv, NEW t \in Transfers PROVE Ordered(t)
  OBVIOUS
<1>2. /\ "debit" \in Ops /\ "received" \in ReceiverOps
      /\ Sent(t) => committed[t]["debit"] > 0
  BY DEF IInv, DebitFirst, Ops, BalanceOps, ReceiverOps
<1>3. committed[t]["received"] > 0 => Sent(t)
  BY <1>2 DEF IInv, SentFirst
<1>4. committed[t]["received"] > 0 => Booked(t)
  BY DEF IInv, CreditFirst, Booked
<1>5. Deleted(t) => committed[t]["received"] > 0
  BY DEF IInv, ReceivedFirst
<1>6. QED
  BY <1>2, <1>3, <1>4, <1>5 DEF Booked, Ordered

LEMMA CountsNext == (IInv => \A t \in Transfers : Ordered(t))'
BY Counts, PTL

\* A step moves the stage of a payment by one or not at all.
LEMMA StageMoves ==
    ASSUME IInv, IInv', [Next]_vars, NEW t \in Transfers
    PROVE  \/ Stage(t)' = Stage(t)
           \/ Stage(t) = "asked" /\ Stage(t)' = "paid"
           \/ Stage(t) = "paid" /\ Stage(t)' = "sent"
           \/ Stage(t) = "sent" /\ Stage(t)' = "received"
           \/ Stage(t) = "received" /\ Stage(t)' = "settled"
<1>0. /\ TypeOK /\ Amount(t)' = Amount(t) /\ Amount(t) \in Nat
      /\ {"debit", "credit", "send", "received", "delete"} \subseteq Ops
  BY XferFixed, PaymentType DEF IInv, Amount, Ops, BalanceOps
<1> DEFINE c == committed[t]
           d == committed'[t]
           New(op) == d[op] # c[op]
<1>counts. \A op \in Ops : c[op] \in Nat
  BY <1>0, CommittedKept
<1>1. \A op \in Ops : /\ c[op] \in Nat /\ d[op] \in Nat
                      /\ d[op] = c[op] \/ d[op] = c[op] + 1
  <2> TAKE op \in Ops
  <2>1. c[op] \in Nat /\ d[op] \in Nat
    BY <1>0, CommittedKept
  <2>2. QED
    BY <1>0, <2>1, CommittedOrigin
<1>2. \A o, p \in Ops : New(o) /\ New(p) => o = p
  <2> TAKE o, p \in Ops
  <2>1. ASSUME NEW u \in Users, Commit(u) PROVE New(o) /\ New(p) => o = p
    BY <1>0, <2>1, CommitFacts
  <2>2. QED
    BY <1>0, <2>1, CommittedOrigin
<1>3. /\ c["send"] > 0 => c["debit"] > 0
      /\ c["received"] > 0 => c["send"] > 0
      /\ c["received"] > 0 /\ Amount(t) > 0 => c["credit"] > 0
      /\ c["delete"] > 0 => c["received"] > 0
  BY Counts DEF Ordered, Sent, Deleted, Booked
<1>4. /\ d["send"] > 0 => d["debit"] > 0
      /\ d["received"] > 0 => d["send"] > 0
      /\ d["received"] > 0 /\ Amount(t) > 0 => d["credit"] > 0
      /\ d["delete"] > 0 => d["received"] > 0
  <2>1. Ordered(t)'
    BY CountsNext
  <2>2. QED
    BY <1>0, <2>1 DEF Ordered, Sent, Deleted, Booked
<1> DEFINE St(m) == IF m["delete"] > 0 THEN "settled"
                    ELSE IF m["received"] > 0 THEN "received"
                    ELSE IF m["send"] > 0 THEN "sent"
                    ELSE IF m["debit"] > 0 THEN "paid" ELSE "asked"
<1>5. Stage(t) = St(c)
  BY <1>0, <1>1, <1>3 DEF Stage, Deleted, Booked, Sent
<1>6. Stage(t)' = St(d)
  BY <1>0, <1>1, <1>4 DEF Stage, Deleted, Booked, Sent
<1> HIDE DEF c, d
<1>7. \/ St(d) = St(c)
      \/ St(c) = "asked" /\ St(d) = "paid"
      \/ St(c) = "paid" /\ St(d) = "sent"
      \/ St(c) = "sent" /\ St(d) = "received"
      \/ St(c) = "received" /\ St(d) = "settled"
  <2> HIDE <1>0
  <2>0. "debit" \in Ops /\ "send" \in Ops /\ "received" \in Ops /\ "delete" \in Ops
    BY <1>0
  <2>2. /\ c["debit"] \in Nat /\ c["send"] \in Nat
        /\ c["received"] \in Nat /\ c["delete"] \in Nat
    BY <2>0, <1>counts
  <2>3. CASE \A op \in Ops : ~New(op)
    <3>1. St(d) = St(c)
      BY <2>0, <2>3
    <3>2. QED
      BY <3>1
  <2>4. ASSUME NEW o \in Ops, New(o)
        PROVE  \/ St(d) = St(c)
               \/ St(c) = "asked" /\ St(d) = "paid"
               \/ St(c) = "paid" /\ St(d) = "sent"
               \/ St(c) = "sent" /\ St(d) = "received"
               \/ St(c) = "received" /\ St(d) = "settled"
    <3>1. \A p \in Ops : p # o => d[p] = c[p]
      BY <1>2, <2>4
    <3>2. CASE o = "debit"
      <4>1. /\ d["debit"] = c["debit"] + 1
            /\ d["send"] = c["send"]
            /\ d["received"] = c["received"]
            /\ d["delete"] = c["delete"]
        BY <1>1, <2>0, <2>4, <3>1, <3>2
      <4>2. QED
        BY <1>3, <1>4, <2>2, <4>1
    <3>3. CASE o = "send"
      <4>1. /\ d["send"] = c["send"] + 1
            /\ d["debit"] = c["debit"]
            /\ d["received"] = c["received"]
            /\ d["delete"] = c["delete"]
        BY <1>1, <2>0, <2>4, <3>1, <3>3
      <4>2. QED
        BY <1>3, <1>4, <2>2, <4>1
    <3>4. CASE o = "received"
      <4>1. /\ d["received"] = c["received"] + 1
            /\ d["debit"] = c["debit"]
            /\ d["send"] = c["send"]
            /\ d["delete"] = c["delete"]
        BY <1>1, <2>0, <2>4, <3>1, <3>4
      <4>2. QED
        BY <1>3, <1>4, <2>2, <4>1
    <3>5. CASE o = "delete"
      <4>1. /\ d["delete"] = c["delete"] + 1
            /\ d["debit"] = c["debit"]
            /\ d["send"] = c["send"]
            /\ d["received"] = c["received"]
        BY <1>1, <2>0, <2>4, <3>1, <3>5
      <4>2. QED
        BY <1>3, <1>4, <2>2, <4>1
    <3>6. CASE o \notin {"debit", "send", "received", "delete"}
      <4>1. St(d) = St(c)
        BY <2>0, <3>1, <3>6
      <4>2. QED
        BY <4>1
    <3>7. QED
      BY <3>2, <3>3, <3>4, <3>5, <3>6
  <2>5. QED
    BY <2>3, <2>4
<1>8. QED
  BY <1>5, <1>6, <1>7

\* Without a new write of the server for it, a payment stays at its stage.
LEMMA StageSame ==
    ASSUME [Next]_vars, TypeOK, NEW t \in Transfers,
           \A op \in Ops : committed'[t][op] = committed[t][op]
    PROVE  Stage(t)' = Stage(t)
<1>1. Amount(t)' = Amount(t)
  BY XferFixed DEF Amount
<1>2. \A op \in {"debit", "credit", "send", "received", "delete"} :
          committed'[t][op] = committed[t][op]
  BY DEF Ops, BalanceOps
<1>3. /\ Sent(t)' = Sent(t) /\ Deleted(t)' = Deleted(t) /\ Booked(t)' = Booked(t)
      /\ committed'[t]["debit"] = committed[t]["debit"]
  BY <1>1, <1>2 DEF Sent, Deleted, Booked
<1>4. QED
  BY <1>3 DEF Stage

LEMMA OneAtATime ==
    ASSUME [Next]_vars, TypeOK, NEW t \in Transfers, NEW s \in Transfers, s # t,
           Stage(t)' # Stage(t)
    PROVE  Stage(s)' = Stage(s)
<1>1. PICK op \in Ops : committed'[t][op] # committed[t][op]
  BY StageSame
<1>2. PICK u \in Users : Commit(u) /\ queue[u][1].txn = t
  BY <1>1, CommittedOrigin
<1>3. \A o \in Ops : committed'[s][o] = committed[s][o]
  BY <1>2, CommitFacts
<1>4. QED
  BY <1>3, StageSame

\* Every step of Wallet is a step of TransferLifecycle for one payment, or
\* leaves every stage: a payment is paid, posted, booked and settled in that
\* order, whatever the threads, the queues and the crashes do.
THEOREM ImplementsLifecycle == Spec => LifecycleSpec
<1> DEFINE stages == [t \in Transfers |-> Stage(t)]
<1>1. Init => Lifecycle!Init
  <2> SUFFICES ASSUME Init, NEW t \in Transfers PROVE Stage(t) = "asked"
    BY DEF Lifecycle!Init
  <2>1. \A op \in {"debit", "send", "received", "delete"} : committed[t][op] = 0
    BY DEF Init, Ops, BalanceOps
  <2>2. QED
    BY <2>1 DEF Stage, Deleted, Booked, Sent
<1>2. IInv /\ IInv' /\ [Next]_vars => [Lifecycle!Next]_stages
  <2> SUFFICES ASSUME IInv, IInv', [Next]_vars PROVE Lifecycle!Next \/ stages' = stages
    BY DEF stages
  <2>1. CASE \A t \in Transfers : Stage(t)' = Stage(t)
    BY <2>1
  <2>2. ASSUME NEW t \in Transfers, Stage(t)' # Stage(t) PROVE Lifecycle!Next
    <3>1. \A s \in Transfers : s # t => Stage(s)' = Stage(s)
      BY <2>2, OneAtATime DEF IInv
    <3>2. stages' = [stages EXCEPT ![t] = Stage(t)']
      BY <3>1
    <3>3. stages[t] = Stage(t)
      OBVIOUS
    <3>4. \/ stages[t] = "asked" /\ stages' = [stages EXCEPT ![t] = "paid"]
          \/ stages[t] = "paid" /\ stages' = [stages EXCEPT ![t] = "sent"]
          \/ stages[t] = "sent" /\ stages' = [stages EXCEPT ![t] = "received"]
          \/ stages[t] = "received" /\ stages' = [stages EXCEPT ![t] = "settled"]
      BY <2>2, <3>2, <3>3, StageMoves
    <3>5. QED
      BY <3>4 DEF Lifecycle!Next, Lifecycle!Pay, Lifecycle!Send, Lifecycle!Receive,
                  Lifecycle!Settle, Lifecycle!Advance
  <2>3. QED
    BY <2>1, <2>2
<1>3. QED
  BY <1>1, <1>2, InvariantHolds, PTL DEF Spec, LifecycleSpec, Lifecycle!Spec
=============================================================================
