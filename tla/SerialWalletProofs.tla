------------------------- MODULE SerialWalletProofs -------------------------
(***************************************************************************)
(* Payments that do not overlap: the wallet is the bank of module Bank and *)
(* its books agree, for any users, payments, amounts and restarts, whether *)
(* or not key requests fail.                                               *)
(***************************************************************************)
EXTENDS SerialWallet, WalletSafetyProofs, FiniteSetTheorems

-----------------------------------------------------------------------------
(* The inductive invariant.                                                *)

\* A phone signs in once: the request for the balance, its answer and the
\* listener are three states of the one session, and the answer is still right.
OneSession ==
    \A u \in Users :
        /\ asked[u] + Len(answers[u]) + Len(listeners[u]) = sessions[u]
        /\ sessions[u] <= 1
        /\ \A i \in 1..Len(answers[u]) : answers[u][i] = local[u]
        /\ hasKey[u]

Working(t) == thread[t].at \notin {"none", "refused", "done"}

\* Nothing is paid or received before the balance is loaded.
LoadedFirst ==
    /\ \A u \in Users : main[u].at # "idle" => Loaded(u)
    /\ \A t \in Transfers : Working(t) => Loaded(From(t))

OnePayment == \A s, t \in Transfers : UnderWay(s) /\ UnderWay(t) => s = t

\* The receiver's listener has shown the document of t; its main thread is in
\* the receipt of t.
Shown(t) == \E i \in 1..Len(listeners[To(t)]) : t \in listeners[To(t)][i]

Busy(t) == main[To(t)].at \in Receiving /\ main[To(t)].txn = t

Untouched(t) == \A op \in ReceiverOps : ~Has(op, t)

\* A document is shown, its keys are requested, its receipt runs and leaves its
\* writes behind, each of them once and in this order.
Received(t) ==
    /\ fetches[t] <= 1
    /\ fetches[t] > 0 => Shown(t) /\ ~Busy(t) /\ Untouched(t)
    /\ Shown(t) => Sent(t)
    /\ Shown(t) /\ ~Has("delete", t)
          => \A i \in 1..Len(listeners[To(t)]) : listeners[To(t)][i] = {t}
    /\ Busy(t) =>
          /\ Shown(t) /\ ~Has("delete", t)
          /\ main[To(t)].at # "delete" => ~Has("received", t)
          /\ main[To(t)].at \in {"write", "encode", "credit"}
                => ~Has("credit", t) /\ Amount(t) > 0
    /\ Has("credit", t) \/ Has("received", t) => Has("delete", t) \/ Busy(t)

OneReceipt == \A t \in Transfers : Received(t)

\* The balance is in memory but not yet in the local store.
Between(u) == \/ main[u].at \in {"encode", "credit"}
              \/ \E t \in Transfers : From(t) = u /\ thread[t].at \in {"encode", "update"}

\* What a thread or a callback carries agrees with memory, and memory with the
\* local store but between the two statements that write them.
InStep ==
    /\ \A u \in Users :
          /\ Loaded(u) /\ ~Between(u) => curr_balance[u] = local[u]
          /\ main[u].at = "write" => main[u].new = curr_balance[u] + Amount(main[u].txn)
          /\ main[u].at = "credit" => main[u].new = curr_balance[u]
    /\ \A t \in Transfers :
          /\ thread[t].at = "write" => thread[t].new = curr_balance[From(t)] - Amount(t)
          /\ thread[t].at = "update" => thread[t].new = curr_balance[From(t)]

\* The local store holds what the last balance in the queue, or else the server
\* says.
LastOf(u) ==
    /\ (\A i \in 1..Len(queue[u]) : queue[u][i].op \notin BalanceOps) => balance[u] = local[u]
    /\ \A i \in 1..Len(queue[u]) :
          (/\ queue[u][i].op \in BalanceOps
           /\ \A j \in 1..Len(queue[u]) : j > i => queue[u][j].op \notin BalanceOps)
          => queue[u][i].amount = local[u]

LastBalance == \A u \in Users : LastOf(u)

SerialInv == /\ OneSession
             /\ LoadedFirst
             /\ OnePayment
             /\ OneReceipt
             /\ InStep
             /\ LastBalance

-----------------------------------------------------------------------------
(* What the steps are.                                                     *)

LEMMA SerialIsNext == [SerialNext]_vars => [Next]_vars
BY DEF SerialNext, Next, SerialStop, SerialPay, Stops

LEMMA SerialKeepsKeys == [SerialNext]_vars => hasKey' = hasKey
<1> USE DEF app
<1>1. CASE UNCHANGED vars
  BY <1>1 DEF vars
<1>2. ASSUME NEW u \in Users,
             SessionNext(u) \/ (\E i \in DOMAIN listeners[u] : Snapshot(u, i)) \/ Commit(u)
      PROVE  hasKey' = hasKey
  BY <1>2 DEF SessionNext, SignIn, GetBalance, BalanceLoaded, Snapshot, Commit
<1>3. ASSUME NEW u \in Users, MainThread(u) \/ SerialStop(u) PROVE hasKey' = hasKey
  BY <1>3 DEF MainThread, CreditWrite, CreditEncode, CreditUpdate, WriteDocument, SerialStop,
              Crash
<1>4. ASSUME NEW t \in Transfers,
             SerialPay(t) \/ PayThread(t) \/ SendKeys(t) \/ ReceiveKeys(t)
      PROVE  hasKey' = hasKey
  BY <1>4 DEF SerialPay, PayPressed, PayThread, DebitRead, DebitWrite, DebitEncode,
              DebitUpdate, SendKeys, SendKeysFetched, SendKeysMissing, ReceiveKeys,
              ReceiveKeysFetched, ReceiveDropped
<1>5. QED
  BY <1>1, <1>2, <1>3, <1>4 DEF SerialNext

\* No phone is replaced.
LEMMA SamePhone ==
    ASSUME TypeOK, OneSession, [SerialNext]_vars, NEW u \in Users
    PROVE  ~NewDevice(u)
<1>1. hasKey' = hasKey /\ hasKey[u]
  BY SerialKeepsKeys DEF OneSession
<1>2. NewDevice(u) => ~hasKey'[u]
  BY DEF NewDevice, TypeOK
<1>3. QED
  BY <1>1, <1>2

\* The receiver's writes: what was handed over stays so, and what is new was
\* written by this step.
LEMMA HasKept ==
    ASSUME TypeOK, OneSession, [SerialNext]_vars, NEW t \in Transfers,
           NEW op \in ReceiverOps, Has(op, t)
    PROVE  Has(op, t)'
<1>1. [Next]_vars /\ To(t) \in Users /\ op \in Ops
  BY SerialIsNext, PaymentType DEF ReceiverOps, Ops, BalanceOps
<1>2. To(t)' = To(t)
  BY <1>1, XferFixed DEF To
<1>3. Handed(To(t), op, t)
  BY DEF Has, Handed
<1>4. ASSUME NEW u \in Users, u = To(t) PROVE Handed(u, op, t)'
  BY <1>1, <1>3, <1>4, HandedKept, SamePhone
<1>5. QED
  BY <1>1, <1>2, <1>4 DEF Has, Handed, Queued

LEMMA HasOrigin ==
    ASSUME TypeOK, Owned, [SerialNext]_vars, NEW t \in Transfers,
           NEW op \in ReceiverOps, Has(op, t)'
    PROVE  \/ Has(op, t)
           \/ CreditUpdate(To(t)) /\ op = "credit" /\ main[To(t)].txn = t
           \/ WriteDocument(To(t)) /\ op = main[To(t)].at /\ main[To(t)].txn = t
<1>1. [Next]_vars /\ To(t) \in Users /\ op \in Ops
  BY SerialIsNext, PaymentType DEF ReceiverOps, Ops, BalanceOps
<1>2. To(t)' = To(t)
  BY <1>1, XferFixed DEF To
<1>3. CASE committed'[t][op] > 0
  <2>1. CASE committed'[t][op] = committed[t][op]
    BY <1>3, <2>1 DEF Has
  <2>2. ASSUME NEW u \in Users, 1 \in 1..Len(queue[u]), queue[u][1].op = op,
               queue[u][1].txn = t
        PROVE  Has(op, t)
    BY <2>2 DEF Owned, Has, Queued
  <2>3. QED
    BY <1>1, <2>1, <2>2, CommittedOrigin
<1>4. ASSUME NEW u \in Users, u = To(t), NEW i \in 1..Len(queue'[u]),
             queue'[u][i].op = op, queue'[u][i].txn = t
      PROVE  \/ Has(op, t)
             \/ CreditUpdate(u) /\ op = "credit" /\ main[u].txn = t
             \/ WriteDocument(u) /\ op = main[u].at /\ main[u].txn = t
  <2>1. CASE \E k \in 1..Len(queue[u]) : queue'[u][i] = queue[u][k]
    BY <1>4, <2>1 DEF Has, Queued
  <2>2. CASE NewEntry(u, queue'[u][i])
    BY <1>4, <2>2, NewEntryFields DEF ReceiverOps
  <2>3. QED
    BY <1>1, <2>1, <2>2, EntryOrigin
<1>5. QED
  BY <1>1, <1>2, <1>3, <1>4 DEF Has, Queued

\* A step that is not in the receipt of t leaves its writes alone.
LEMMA HasSame ==
    ASSUME TypeOK, Owned, OneSession, [SerialNext]_vars, NEW t \in Transfers,
           \/ main'[To(t)] = main[To(t)]
           \/ ~(main[To(t)].at \in {"credit", "received", "delete"} /\ main[To(t)].txn = t)
    PROVE  \A op \in ReceiverOps : Has(op, t)' <=> Has(op, t)
<1>1. To(t) \in Users
  BY PaymentType
<1>2. CreditUpdate(To(t)) =>
          main[To(t)].at = "credit" /\ main'[To(t)].at = "received"
  BY <1>1, CreditMoves
<1>3. WriteDocument(To(t)) => main[To(t)].at \in DOMAIN After /\ main'[To(t)].at # main[To(t)].at
  BY <1>1, DocumentMoves, MainMoves DEF WriteDocument, After
<1>4. ASSUME NEW op \in ReceiverOps, Has(op, t)' PROVE Has(op, t)
  BY <1>2, <1>3, <1>4, HasOrigin DEF ReceiverOps
<1>5. QED
  BY <1>4, HasKept

-----------------------------------------------------------------------------
(* What the invariant says of one state.                                   *)

LEMMA SessionParts ==
    ASSUME TypeOK, OneSession, NEW u \in Users
    PROVE  /\ asked[u] \in Nat /\ Len(answers[u]) \in Nat /\ Len(listeners[u]) \in Nat
           /\ sessions[u] \in Nat /\ sessions[u] <= 1
           /\ asked[u] + Len(answers[u]) + Len(listeners[u]) = sessions[u]
           /\ Loaded(u) <=> Len(listeners[u]) = 1
           /\ Loaded(u) => asked[u] = 0 /\ Len(answers[u]) = 0 /\ sessions[u] = 1
           /\ answers[u] # <<>> => Len(answers[u]) = 1 /\ ~Loaded(u)
<1>1. /\ listeners[u] \in Seq(SUBSET Transfers) /\ answers[u] \in Seq(Int)
      /\ asked[u] \in Nat /\ sessions[u] \in Nat
  BY DEF TypeOK
<1>2. /\ Len(listeners[u]) \in Nat /\ Len(answers[u]) \in Nat
      /\ listeners[u] # <<>> <=> Len(listeners[u]) # 0
      /\ answers[u] # <<>> <=> Len(answers[u]) # 0
  BY <1>1
<1>3. asked[u] + Len(answers[u]) + Len(listeners[u]) = sessions[u] /\ sessions[u] <= 1
  BY DEF OneSession
<1> DEFINE x == asked[u]
           y == Len(answers[u])
           z == Len(listeners[u])
           n == sessions[u]
<1>4. x \in Nat /\ y \in Nat /\ z \in Nat /\ n \in Nat /\ x + y + z = n /\ n <= 1
  BY <1>1, <1>2, <1>3
<1>5. /\ Loaded(u) <=> z # 0
      /\ answers[u] # <<>> <=> y # 0
  BY <1>2 DEF Loaded
<1> HIDE DEF x, y, z, n
<1>6. /\ z # 0 => z = 1 /\ x = 0 /\ y = 0 /\ n = 1
      /\ y # 0 => y = 1 /\ z = 0
  BY <1>4
<1>7. /\ Loaded(u) <=> z = 1
      /\ Loaded(u) => x = 0 /\ y = 0 /\ n = 1
      /\ answers[u] # <<>> => y = 1 /\ ~Loaded(u)
  BY <1>5, <1>6
<1>8. QED
  BY <1>4, <1>7 DEF x, y, z, n

\* A payment is under way from the press of Pay until the server has deleted
\* its document.
LEMMA SentIsDone ==
    ASSUME IInv, NEW t \in Transfers, Sent(t)
    PROVE  thread[t].at = "done"
BY DEF IInv, WrittenOnce, NoneYet, Sent

LEMMA DeletedHas ==
    ASSUME IInv, NEW t \in Transfers
    PROVE  /\ committed[t]["delete"] \in Nat
           /\ ~Has("delete", t) => committed[t]["delete"] = 0
           /\ thread[t].at = "done" /\ ~Has("delete", t) => UnderWay(t) /\ Handling(t)
           /\ Handling(t) => UnderWay(t)
<1>1. committed[t]["delete"] \in Nat
  BY DEF IInv, TypeOK, Ops
<1>2. QED
  BY <1>1 DEF Has, UnderWay, Handling

\* A receipt is of a payment whose thread has ended and which is under way.
LEMMA ReceiptUnderWay ==
    ASSUME IInv, OneReceipt, NEW t \in Transfers, fetches[t] > 0 \/ Busy(t)
    PROVE  Sent(t) /\ thread[t].at = "done" /\ UnderWay(t) /\ Handling(t)
<1>1. Shown(t) /\ ~Has("delete", t)
  BY DEF OneReceipt, Received, Untouched, ReceiverOps
<1>2. Sent(t)
  BY <1>1 DEF OneReceipt, Received
<1>3. QED
  BY <1>1, <1>2, SentIsDone, DeletedHas

LEMMA ReceivingIsBusy ==
    ASSUME IInv, NEW u \in Users, main[u].at \in Receiving
    PROVE  main[u].txn \in Transfers /\ To(main[u].txn) = u /\ Busy(main[u].txn)
BY DEF IInv, TypeOK, Owned, Busy

\* While a thread is at work no other payment is, and nothing is received.
LEMMA WorkingAlone ==
    ASSUME IInv, OnePayment, OneReceipt, NEW t \in Transfers, Working(t)
    PROVE  /\ \A s \in Transfers : s # t => ~Working(s)
           /\ \A s \in Transfers : fetches[s] = 0 /\ ~Busy(s)
           /\ \A u \in Users : main[u].at \notin Receiving
<1>1. UnderWay(t) /\ thread[t].at # "done"
  BY DEF Working, UnderWay
<1>2. \A s \in Transfers : Working(s) => UnderWay(s)
  BY DEF Working, UnderWay
<1>3. \A s \in Transfers : ~(fetches[s] > 0) /\ ~Busy(s)
  BY <1>1, ReceiptUnderWay DEF OnePayment
<1>4. \A s \in Transfers : fetches[s] \in Nat
  BY DEF IInv, TypeOK
<1>5. QED
  BY <1>1, <1>2, <1>3, <1>4, ReceivingIsBusy DEF OnePayment

\* While a payment is received no thread is at work, and no other is received.
LEMMA ReceivingAlone ==
    ASSUME IInv, OnePayment, OneReceipt, NEW t \in Transfers, fetches[t] > 0 \/ Busy(t)
    PROVE  /\ \A s \in Transfers : ~Working(s)
           /\ \A s \in Transfers : s # t => fetches[s] = 0 /\ ~Busy(s)
           /\ \A u \in Users : u # To(t) => main[u].at \notin Receiving
<1>1. UnderWay(t) /\ thread[t].at = "done"
  BY ReceiptUnderWay
<1>2. \A s \in Transfers : Working(s) => UnderWay(s) /\ thread[s].at # "done"
  BY DEF Working, UnderWay
<1>3. \A s \in Transfers : s # t => ~(fetches[s] > 0) /\ ~Busy(s)
  BY <1>1, ReceiptUnderWay DEF OnePayment
<1>4. \A s \in Transfers : fetches[s] \in Nat
  BY DEF IInv, TypeOK
<1>5. \A u \in Users : u # To(t) => main[u].at \notin Receiving
  BY <1>3, ReceivingIsBusy
<1>6. QED
  BY <1>1, <1>2, <1>3, <1>4, <1>5 DEF OnePayment

\* Whatever a listener is shown is under way, and if it is for the listener's
\* user the server has it.
LEMMA ViewUnderWay ==
    ASSUME IInv, NEW u \in Users, NEW t \in Transfers, t \in View(u)
    PROVE  /\ UnderWay(t)
           /\ To(t) = u => Sent(t) /\ ~Has("delete", t)
<1>0. /\ committed[t]["delete"] \in Nat /\ committed[t]["send"] \in Nat
      /\ From(t) \in Users /\ To(t) \in Users /\ From(t) # To(t)
  BY PaymentType DEF IInv, TypeOK, Ops
<1>1. CASE Sent(t) /\ ~Deleted(t)
  <2>1. committed[t]["delete"] = 0 /\ thread[t].at = "done"
    BY <1>0, <1>1, SentIsDone DEF Deleted
  <2>2. QED
    BY <1>1, <2>1 DEF UnderWay, View, Has
<1>2. CASE Queued(u, "send", t)
  <2>1. u = From(t)
    BY <1>2 DEF IInv, Owned, Queued, SenderOps
  <2>2. ~Sent(t)
    <3>1. committed[t]["send"] <= 1 /\ (committed[t]["send"] = 1 => ~Queued(From(t), "send", t))
      BY DEF IInv, WrittenOnce, Once
    <3>2. QED
      BY <1>0, <1>2, <2>1, <3>1 DEF Sent
  <2>3. thread[t].at = "done"
    BY <1>2, <2>1 DEF IInv, WrittenOnce, NoneYet
  <2>4. committed[t]["delete"] = 0
    BY <1>0, <2>2 DEF IInv, SentFirst, ReceiverOps
  <2>5. QED
    BY <1>0, <2>1, <2>3, <2>4 DEF UnderWay
<1>3. QED
  BY <1>1, <1>2 DEF View, Pending

LEMMA ViewOfReceiver ==
    ASSUME IInv, OnePayment, NEW u \in Users, NEW t \in Transfers, To(t) = u
    PROVE  /\ Sent(t) /\ ~Has("delete", t) => View(u) = {t}
           /\ t \in View(u) => View(u) = {t}
<1>1. View(u) \subseteq Transfers
  BY DEF View
<1>2. t \in View(u) => View(u) = {t}
  BY <1>1, ViewUnderWay DEF OnePayment
<1>3. Sent(t) /\ ~Has("delete", t) => t \in View(u)
  BY DeletedHas DEF View, Pending, Deleted, Has
<1>4. QED
  BY <1>2, <1>3

-----------------------------------------------------------------------------
(* Receipts happen once.                                                   *)

LEMMA XferSame ==
    ASSUME [SerialNext]_vars, NEW t \in Transfers
    PROVE  From(t)' = From(t) /\ To(t)' = To(t) /\ Amount(t)' = Amount(t)
BY SerialIsNext, XferFixed DEF From, To, Amount

LEMMA ReceiptKept ==
    ASSUME IInv, OneSession, [SerialNext]_vars, NEW t \in Transfers, Received(t),
           fetches'[t] = fetches[t], listeners'[To(t)] = listeners[To(t)],
           main'[To(t)] = main[To(t)] \/ (~Busy(t) /\ ~Busy(t)')
    PROVE  Received(t)'
<1>1. TypeOK /\ Owned /\ [Next]_vars
  BY SerialIsNext DEF IInv
<1>2. \A op \in ReceiverOps : Has(op, t)' <=> Has(op, t)
  BY <1>1, HasSame DEF Busy, Receiving, ReceiverOps
<1>3. Sent(t) => Sent(t)'
  BY <1>1, SentKept
<1>4. Shown(t)' <=> Shown(t)
  BY XferSame DEF Shown
<1>5. (Untouched(t)' <=> Untouched(t)) /\ (Has("credit", t)' <=> Has("credit", t))
      /\ (Has("received", t)' <=> Has("received", t)) /\ (Has("delete", t)' <=> Has("delete", t))
  BY <1>2 DEF Untouched, ReceiverOps
<1>6. /\ Busy(t)' <=> Busy(t)
      /\ Busy(t) => main'[To(t)].at = main[To(t)].at
  BY XferSame DEF Busy
<1>7. QED
  BY <1>3, <1>4, <1>5, <1>6, XferSame DEF Received

\* A listener shows the document of t when it is the only one under way: for
\* the first time, or no longer.
LEMMA ReceiptSnapshot ==
    ASSUME IInv, OneSession, OnePayment, [SerialNext]_vars, NEW t \in Transfers, Received(t),
           NEW i \in DOMAIN listeners[To(t)], Snapshot(To(t), i)
    PROVE  Received(t)'
<1> DEFINE u == To(t)
<1>1. TypeOK /\ Owned /\ [Next]_vars /\ u \in Users
  BY SerialIsNext, PaymentType DEF IInv
<1>2. /\ main' = main /\ i \in 1..Len(listeners[u]) /\ listeners[u][i] # View(u)
      /\ listeners' = [listeners EXCEPT ![u][i] = View(u)]
  BY DEF Snapshot, app
<1>3. \A op \in ReceiverOps : Has(op, t)' <=> Has(op, t)
  BY <1>1, <1>2, HasSame
<1>4. Len(listeners[u]) = 1 /\ i = 1
  <2>1. listeners[u] # <<>>
    BY <1>2
  <2>2. Len(listeners[u]) = 1
    BY <1>1, <2>1, SessionParts DEF Loaded
  <2>3. QED
    BY <1>2, <2>2
<1>5. /\ Len(listeners'[u]) = 1 /\ listeners'[u][1] = View(u)
  <2>1. listeners[u] \in Seq(SUBSET Transfers) /\ listeners'[u] = [listeners[u] EXCEPT ![i] = View(u)]
    BY <1>1, <1>2 DEF TypeOK
  <2>2. QED
    BY <1>4, <2>1
<1>6. /\ Shown(t) <=> t \in listeners[u][1]
      /\ Shown(t)' <=> t \in View(u)
  BY <1>4, <1>5, XferSame DEF Shown
<1>7. fetches'[t] = fetches[t] \/ (t \in View(u) /\ fetches'[t] = fetches[t] + 1)
  BY DEF Snapshot, Incoming, IInv, TypeOK
<1>8. (Busy(t)' <=> Busy(t)) /\ main'[u].at = main[u].at
  BY <1>2, XferSame DEF Busy
<1>9. fetches[t] \in Nat
  BY <1>1 DEF TypeOK
<1>10. (Untouched(t)' <=> Untouched(t)) /\ (Has("credit", t)' <=> Has("credit", t))
       /\ (Has("received", t)' <=> Has("received", t)) /\ (Has("delete", t)' <=> Has("delete", t))
  BY <1>3 DEF Untouched, ReceiverOps
<1>11. CASE Shown(t) /\ ~Has("delete", t)
  <2>1. listeners[u][1] = {t} /\ Sent(t)
    BY <1>4, <1>11 DEF Received
  <2>2. View(u) = {t}
    BY <1>1, <1>11, <2>1, ViewOfReceiver
  <2>3. QED
    BY <1>2, <1>4, <2>1, <2>2
<1>12. CASE ~Shown(t) /\ t \in View(u)
  <2>1. View(u) = {t} /\ Sent(t) /\ ~Has("delete", t)
    BY <1>1, <1>12, ViewOfReceiver, ViewUnderWay
  <2>2. Sent(t)'
    BY <1>1, <2>1, SentKept
  <2>3. fetches[t] = 0 /\ ~Busy(t) /\ ~Has("credit", t) /\ ~Has("received", t)
    BY <1>9, <1>12, <2>1 DEF Received
  <2>4. Shown(t)' /\ ~Has("delete", t)' /\ ~Busy(t)' /\ Untouched(t)'
    BY <1>6, <1>8, <1>10, <1>12, <2>1, <2>3 DEF Untouched, ReceiverOps
  <2>5. \A k \in 1..Len(listeners'[u]) : listeners'[u][k] = {t}
    BY <1>5, <2>1
  <2>6. fetches'[t] <= 1
    BY <1>7, <2>3
  <2>7. QED
    BY <1>10, <2>2, <2>3, <2>4, <2>5, <2>6, XferSame DEF Received
<1>13. CASE t \notin View(u) /\ (~Shown(t) \/ Has("delete", t))
  <2>1. fetches[t] = 0 /\ ~Busy(t)
    BY <1>9, <1>13 DEF Received, Untouched, ReceiverOps
  <2>2. fetches'[t] = 0 /\ ~Busy(t)' /\ ~Shown(t)'
    BY <1>6, <1>7, <1>8, <1>13, <2>1
  <2>3. QED
    BY <1>10, <2>1, <2>2, XferSame DEF Received
<1>14. CASE Shown(t) /\ Has("delete", t) /\ t \in View(u)
  BY <1>1, <1>14, ViewUnderWay
<1>15. QED
  BY <1>11, <1>12, <1>13, <1>14

LEMMA ReceiptMain ==
    ASSUME IInv, OneSession, [SerialNext]_vars, NEW t \in Transfers, Received(t),
           MainThread(To(t))
    PROVE  Received(t)'
<1> DEFINE u == To(t)
<1>1. TypeOK /\ Owned /\ [Next]_vars /\ u \in Users
  BY SerialIsNext, PaymentType DEF IInv
<1>2. fetches' = fetches /\ listeners' = listeners
  BY DEF MainThread, CreditWrite, CreditEncode, CreditUpdate, WriteDocument, client
<1>3. /\ Shown(t)' <=> Shown(t)
      /\ Sent(t) => Sent(t)'
      /\ main'[u].txn = main[u].txn
  BY <1>1, <1>2, XferSame, SentKept, CreditMoves, DocumentMoves DEF Shown, MainThread
<1>4. \A op \in ReceiverOps : Has(op, t) => Has(op, t)'
  BY <1>1, HasKept
<1>5. CASE main[u].txn # t \/ main[u].at \notin Receiving
  <2>1. ~Busy(t)
    BY <1>5 DEF Busy
  <2>2. main'[u].txn # t \/ main'[u].at \notin Receiving
    <3>1. main[u].at \notin Receiving => main'[u].at \in {"sent", "idle"}
      BY <1>1, CreditMoves, DocumentMoves DEF MainThread, Receiving, ReceiverOps
    <3>2. QED
      BY <1>3, <1>5, <3>1 DEF Receiving, ReceiverOps
  <2>3. ~Busy(t)'
    BY <2>2, XferSame DEF Busy
  <2>4. QED
    BY <1>2, <2>1, <2>3, ReceiptKept
<1>6. CASE main[u].txn = t /\ main[u].at \in Receiving
  <2>0. /\ Busy(t) /\ Shown(t) /\ Sent(t) /\ ~Has("delete", t) /\ fetches[t] = 0
        /\ main[u].at # "delete" => ~Has("received", t)
        /\ main[u].at \in {"write", "encode", "credit"} => ~Has("credit", t) /\ Amount(t) > 0
    <3>1. fetches[t] \in Nat
      BY <1>1 DEF TypeOK
    <3>2. QED
      BY <1>6, <3>1 DEF Busy, Received
  <2>1. CASE (CreditWrite(u) \/ CreditEncode(u)) /\ main[u].at \in {"write", "encode"}
    <3>1. main'[u].at \in {"encode", "credit"}
      BY <1>1, <2>1, CreditMoves
    <3>2. \A op \in ReceiverOps : Has(op, t)' <=> Has(op, t)
      <4>1. main[To(t)].at \notin {"credit", "received", "delete"}
        BY <2>1
      <4>2. QED
        BY <1>1, <4>1, HasSame
    <3>3. Busy(t)'
      BY <1>3, <1>6, <3>1, XferSame DEF Busy, Receiving, ReceiverOps
    <3>4. QED
      BY <1>2, <1>3, <2>0, <2>1, <3>1, <3>2, <3>3, XferSame DEF Received, ReceiverOps
  <2>2. CASE CreditUpdate(u)
    <3>1. main[u].at = "credit" /\ main'[u].at = "received" /\ ~WriteDocument(u)
      BY <1>1, <2>2, CreditMoves DEF WriteDocument, After
    <3>2. \A op \in {"received", "delete"} : ~Has(op, t)'
      <4>1. ASSUME NEW op \in ReceiverOps, op # "credit", Has(op, t)' PROVE Has(op, t)
        BY <1>1, <3>1, <4>1, HasOrigin
      <4>2. QED
        BY <2>0, <3>1, <4>1 DEF ReceiverOps
    <3>3. Busy(t)'
      BY <1>3, <1>6, <3>1, XferSame DEF Busy, Receiving, ReceiverOps
    <3>4. QED
      BY <1>2, <1>3, <2>0, <3>1, <3>2, <3>3, XferSame DEF Received
  <2>3. CASE WriteDocument(u) /\ main[u].at = "received"
    <3>1. main'[u].at = "delete" /\ ~CreditUpdate(u)
      BY <1>1, <2>3, DocumentMoves DEF CreditUpdate
    <3>2. ~Has("delete", t)'
      BY <1>1, <2>0, <2>3, <3>1, HasOrigin DEF ReceiverOps
    <3>3. Busy(t)'
      BY <1>3, <1>6, <3>1, XferSame DEF Busy, Receiving, ReceiverOps
    <3>4. QED
      BY <1>2, <1>3, <2>0, <3>1, <3>2, <3>3, XferSame DEF Received
  <2>4. CASE WriteDocument(u) /\ main[u].at = "delete"
    <3>1. main'[u].at = "idle"
      BY <1>1, <2>4, DocumentMoves
    <3>2. Has("delete", t)'
      <4>1. Enqueue(u, "delete", t, 0) /\ "delete" \in Ops
        BY <1>1, <1>6, <2>4, WriteDocumentEnqueues
      <4>2. ASSUME NEW v \in Users, v = To(t) PROVE Handed(v, "delete", t)'
        BY <1>1, <4>1, <4>2, EnqueuedIsHanded
      <4>3. ASSUME NEW v \in Users, v = To(t), Handed(v, "delete", t)' PROVE Has("delete", t)'
        BY <4>3, XferSame DEF Handed, Has, Queued
      <4>4. QED
        BY <1>1, <4>2, <4>3
    <3>3. ~Busy(t)'
      BY <3>1, XferSame DEF Busy, Receiving, ReceiverOps
    <3>4. QED
      BY <1>2, <1>3, <2>0, <3>2, <3>3, XferSame DEF Received
  <2>5. QED
    BY <1>1, <1>6, <2>1, <2>2, <2>3, <2>4, CreditMoves, DocumentMoves
    DEF MainThread, Receiving, ReceiverOps
<1>7. QED
  BY <1>5, <1>6

LEMMA ReceiptKeys ==
    ASSUME IInv, OneSession, [SerialNext]_vars, NEW t \in Transfers, Received(t),
           ReceiveKeys(t)
    PROVE  Received(t)'
<1> DEFINE u == To(t)
<1>1. TypeOK /\ Owned /\ [Next]_vars /\ u \in Users /\ Amount(t) \in Nat
  BY SerialIsNext, PaymentType DEF IInv
<1>2. /\ fetches[t] > 0 /\ fetches' = [fetches EXCEPT ![t] = @ - 1]
      /\ main[u].at = "idle" /\ listeners' = listeners
  BY DEF ReceiveKeys, ReceiveKeysFetched, ReceiveDropped, MainIdle
<1>3. fetches'[t] = 0
  BY <1>1, <1>2 DEF Received, TypeOK
<1>4. \A op \in ReceiverOps : Has(op, t)' <=> Has(op, t)
  BY <1>1, <1>2, HasSame
<1>5. Shown(t) /\ Shown(t)' /\ Sent(t)' /\ Untouched(t)
  BY <1>1, <1>2, XferSame, SentKept DEF Received, Shown
<1>6. ~Has("credit", t)' /\ ~Has("received", t)' /\ ~Has("delete", t)'
  BY <1>4, <1>5 DEF Untouched, ReceiverOps
<1>7. Busy(t)' /\ main'[u].at \in {"write", "encode", "credit"} => Amount(t) > 0
  <2>1. CASE ReceiveKeysFetched(t)
    <3>1. main'[u].at = IF Amount(t) # 0 THEN "write" ELSE "received"
      BY <1>1, <2>1 DEF ReceiveKeysFetched, TypeOK
    <3>2. QED
      BY <1>1, <3>1
  <2>2. CASE ReceiveDropped(t)
    BY <1>2, <2>2, XferSame DEF ReceiveDropped, app
  <2>3. QED
    BY <2>1, <2>2 DEF ReceiveKeys
<1>8. \A i \in 1..Len(listeners'[u]) : listeners'[u][i] = {t}
  BY <1>2, <1>5 DEF Received, Untouched, ReceiverOps
<1>9. QED
  BY <1>2, <1>3, <1>5, <1>6, <1>7, <1>8, XferSame DEF Received

\* The listener that BalanceLoaded attaches, and a phone that is stopped.
LEMMA ReceiptFresh ==
    ASSUME IInv, OneSession, OneReceipt, [SerialNext]_vars, NEW t \in Transfers,
           BalanceLoaded(To(t)) \/ SerialStop(To(t))
    PROVE  Received(t)'
<1> DEFINE u == To(t)
<1>1. TypeOK /\ Owned /\ [Next]_vars /\ u \in Users /\ Received(t)
  BY SerialIsNext, PaymentType DEF IInv, OneReceipt
<1>2. ~Busy(t) /\ fetches[t] = 0
  <2>0. fetches[t] \in Nat
    BY <1>1 DEF TypeOK
  <2>1. CASE BalanceLoaded(u)
    <3>1. answers[u] # <<>>
      BY <2>1 DEF BalanceLoaded
    <3>2. listeners[u] = <<>>
      BY <1>1, <3>1, SessionParts DEF Loaded
    <3>3. ~Shown(t)
      BY <3>2 DEF Shown
    <3>4. QED
      BY <1>1, <2>0, <3>3 DEF Received
  <2>2. CASE SerialStop(u)
    <3>1. ~Handling(t)
      BY <2>2 DEF SerialStop, AtRest
    <3>2. QED
      BY <2>0, <3>1, ReceiptUnderWay
  <2>3. QED
    BY <2>1, <2>2
<1>3. ~Busy(t)' /\ fetches'[t] = 0 /\ ~Shown(t)'
  <2>1. CASE BalanceLoaded(u)
    <3>1. /\ main' = main /\ fetches' = fetches
          /\ listeners' = [listeners EXCEPT ![u] = Append(@, {})]
          /\ answers[u] # <<>>
      BY <2>1 DEF BalanceLoaded
    <3>2. listeners[u] = <<>>
      BY <1>1, <3>1, SessionParts DEF Loaded
    <3>3. listeners'[u] = <<{}>>
      BY <1>1, <3>1, <3>2 DEF TypeOK
    <3>4. QED
      BY <1>2, <3>1, <3>3, XferSame, SMTT(20) DEF Shown, Busy
  <2>2. CASE SerialStop(u)
    <3>1. ProcessEnds(u)
      BY <2>2 DEF SerialStop, Crash
    <3>2. fetches'[t] = 0 /\ listeners'[u] = <<>> /\ main'[u].at = "idle"
      BY <1>1, <3>1 DEF ProcessEnds, TypeOK, Idle
    <3>3. QED
      BY <3>2, XferSame DEF Shown, Busy, Receiving, ReceiverOps
  <2>3. QED
    BY <2>1, <2>2
<1>4. \A op \in ReceiverOps : Has(op, t)' <=> Has(op, t)
  BY <1>1, <1>2, HasSame DEF Busy, Receiving, ReceiverOps
<1>5. Has("credit", t)' \/ Has("received", t)' => Has("delete", t)'
  BY <1>1, <1>2, <1>4 DEF Received, ReceiverOps
<1>6. QED
  BY <1>3, <1>5 DEF Received

LEMMA ReceiptStep ==
    IInv /\ OneSession /\ OnePayment /\ OneReceipt /\ [SerialNext]_vars => OneReceipt'
<1> SUFFICES ASSUME IInv, OneSession, OnePayment, OneReceipt, [SerialNext]_vars,
                    NEW t \in Transfers
             PROVE  Received(t)'
  BY DEF OneReceipt
<1> USE DEF server, device, client, app
<1>0. TypeOK /\ Received(t) /\ To(t) \in Users
  BY PaymentType DEF IInv, OneReceipt
<1>1. CASE UNCHANGED vars
  BY <1>0, <1>1, ReceiptKept DEF vars
<1>2. ASSUME NEW u \in Users, SessionNext(u) PROVE Received(t)'
  <2>1. fetches' = fetches /\ main' = main
    BY <1>2, SessionFrame
  <2>2. CASE BalanceLoaded(u) /\ u = To(t)
    BY <2>2, ReceiptFresh
  <2>3. CASE BalanceLoaded(u) /\ u # To(t)
    <3>1. listeners'[To(t)] = listeners[To(t)]
      BY <1>0, <2>3 DEF BalanceLoaded, TypeOK
    <3>2. QED
      BY <1>0, <2>1, <3>1, ReceiptKept
  <2>4. CASE SignIn(u) \/ GetBalance(u)
    <3>1. listeners' = listeners
      BY <2>4 DEF SignIn, GetBalance
    <3>2. QED
      BY <1>0, <2>1, <3>1, ReceiptKept
  <2>5. QED
    BY <1>2, <2>2, <2>3, <2>4 DEF SessionNext
<1>3. ASSUME NEW u \in Users, NEW i \in DOMAIN listeners[u], Snapshot(u, i)
      PROVE  Received(t)'
  <2>1. CASE u = To(t)
    BY <1>0, <1>3, <2>1, ReceiptSnapshot
  <2>2. CASE u # To(t)
    <3>1. /\ listeners' = [listeners EXCEPT ![u][i] = View(u)]
          /\ main' = main
          /\ \/ fetches' = fetches
             \/ \E s \in Transfers : To(s) = u /\ fetches' = [fetches EXCEPT ![s] = @ + 1]
      BY <1>3 DEF Snapshot, Incoming, View
    <3>2. listeners'[To(t)] = listeners[To(t)] /\ fetches'[t] = fetches[t]
      BY <1>0, <2>2, <3>1 DEF TypeOK
    <3>3. QED
      BY <1>0, <3>1, <3>2, ReceiptKept
  <2>3. QED
    BY <2>1, <2>2
<1>4. ASSUME NEW u \in Users, MainThread(u) PROVE Received(t)'
  <2>1. CASE u = To(t)
    BY <1>0, <1>4, <2>1, ReceiptMain
  <2>2. CASE u # To(t)
    <3>1. fetches' = fetches /\ listeners' = listeners
      BY <1>4 DEF MainThread, CreditWrite, CreditEncode, CreditUpdate, WriteDocument
    <3>2. main'[To(t)] = main[To(t)]
      BY <1>0, <1>4, <2>2, CreditMoves, DocumentMoves DEF MainThread
    <3>3. QED
      BY <1>0, <3>1, <3>2, ReceiptKept
  <2>3. QED
    BY <2>1, <2>2
<1>5. ASSUME NEW u \in Users, Commit(u) PROVE Received(t)'
  BY <1>0, <1>5, ReceiptKept DEF Commit
<1>6. ASSUME NEW u \in Users, SerialStop(u) PROVE Received(t)'
  <2>1. CASE u = To(t)
    BY <1>6, <2>1, ReceiptFresh
  <2>2. CASE u # To(t)
    <3>1. ProcessEnds(u)
      BY <1>6 DEF SerialStop, Crash
    <3>2. /\ fetches'[t] = fetches[t] /\ listeners'[To(t)] = listeners[To(t)]
          /\ main'[To(t)] = main[To(t)]
      BY <1>0, <2>2, <3>1 DEF ProcessEnds, TypeOK
    <3>3. QED
      BY <1>0, <3>2, ReceiptKept
  <2>3. QED
    BY <2>1, <2>2
<1>7. ASSUME NEW s \in Transfers, SerialPay(s) \/ PayThread(s) PROVE Received(t)'
  <2>1. fetches' = fetches /\ listeners' = listeners /\ main' = main
    BY <1>7 DEF SerialPay, PayPressed, PayThread, DebitRead, DebitWrite, DebitEncode, DebitUpdate
  <2>2. QED
    BY <1>0, <2>1, ReceiptKept
<1>8. ASSUME NEW s \in Transfers, SendKeys(s) PROVE Received(t)'
  <2>1. /\ fetches' = fetches /\ listeners' = listeners /\ main[From(s)].at = "idle"
        /\ \/ main' = main
           \/ main' = [main EXCEPT ![From(s)] = [at |-> "send", txn |-> s, new |-> 0]]
    BY <1>8 DEF SendKeys, SendKeysFetched, SendKeysMissing, MainIdle
  <2>2. main'[To(t)] = main[To(t)] \/ (main[To(t)].at = "idle" /\ main'[To(t)].at = "send")
    <3>1. CASE From(s) = To(t)
      BY <1>0, <2>1, <3>1 DEF TypeOK
    <3>2. CASE From(s) # To(t)
      <4>1. main \in [Users -> [at : MainAt, txn : Transfers, new : Int]]
        BY <1>0 DEF TypeOK
      <4>2. main'[To(t)] = main[To(t)]
        BY <1>0, <2>1, <3>2, <4>1
      <4>3. QED
        BY <4>2
    <3>3. QED
      BY <3>1, <3>2
  <2>3. main'[To(t)] = main[To(t)] \/ (~Busy(t) /\ ~Busy(t)')
    BY <2>2, XferSame DEF Busy, Receiving, ReceiverOps
  <2>4. QED
    BY <1>0, <2>1, <2>3, ReceiptKept
<1>9. ASSUME NEW s \in Transfers, ReceiveKeys(s) PROVE Received(t)'
  <2>1. CASE s = t
    BY <1>0, <1>9, <2>1, ReceiptKeys
  <2>2. CASE s # t
    <3>1. /\ listeners' = listeners /\ fetches' = [fetches EXCEPT ![s] = @ - 1]
          /\ main[To(s)].at = "idle"
          /\ \/ main' = main
             \/ \E m : m.txn = s /\ main' = [main EXCEPT ![To(s)] = m]
      BY <1>9 DEF ReceiveKeys, ReceiveKeysFetched, ReceiveDropped, MainIdle
    <3>2. fetches'[t] = fetches[t]
      BY <1>0, <2>2, <3>1 DEF TypeOK
    <3>3. main'[To(t)] = main[To(t)] \/ (main[To(t)].at = "idle" /\ main'[To(t)].txn = s)
      BY <1>0, <3>1 DEF TypeOK
    <3>4. main'[To(t)] = main[To(t)] \/ (~Busy(t) /\ ~Busy(t)')
      BY <2>2, <3>3, XferSame DEF Busy, Receiving, ReceiverOps
    <3>5. QED
      BY <1>0, <3>1, <3>2, <3>4, ReceiptKept
  <2>3. QED
    BY <2>1, <2>2
<1>10. QED
  BY <1>1, <1>2, <1>3, <1>4, <1>5, <1>6, <1>7, <1>8, <1>9 DEF SerialNext

-----------------------------------------------------------------------------
(* The session, and what is loaded.                                        *)

LEMMA SessionOrigin ==
    ASSUME TypeOK, [SerialNext]_vars, NEW u \in Users
    PROVE  \/ /\ asked'[u] = asked[u] /\ answers'[u] = answers[u]
              /\ sessions'[u] = sessions[u] /\ Len(listeners'[u]) = Len(listeners[u])
           \/ SignIn(u) \/ GetBalance(u) \/ BalanceLoaded(u) \/ SerialStop(u)
<1> DEFINE Kept == /\ asked'[u] = asked[u] /\ answers'[u] = answers[u]
                   /\ sessions'[u] = sessions[u] /\ Len(listeners'[u]) = Len(listeners[u])
<1>1. CASE UNCHANGED <<asked, answers, sessions, listeners>>
  BY <1>1
<1>2. ASSUME NEW v \in Users, SessionNext(v), v # u PROVE Kept
  BY <1>2 DEF SessionNext, SignIn, GetBalance, BalanceLoaded, TypeOK, device, app
<1>3. ASSUME NEW v \in Users, NEW i \in DOMAIN listeners[v], Snapshot(v, i) PROVE Kept
  <2>1. /\ UNCHANGED <<asked, answers, sessions>>
        /\ listeners' = [listeners EXCEPT ![v][i] = View(v)]
    BY <1>3 DEF Snapshot, app
  <2>2. listeners[u] \in Seq(SUBSET Transfers) /\ listeners[v] \in Seq(SUBSET Transfers)
    BY DEF TypeOK
  <2>3. listeners'[u] = listeners[u] \/ listeners'[u] = [listeners[u] EXCEPT ![i] = View(v)]
    BY <2>1 DEF TypeOK
  <2>4. Len(listeners'[u]) = Len(listeners[u])
    BY <2>2, <2>3
  <2>5. QED
    BY <2>1, <2>4
<1>4. ASSUME NEW v \in Users, SerialStop(v), v # u PROVE Kept
  <2>1. ProcessEnds(v)
    BY <1>4 DEF SerialStop, Crash
  <2>2. QED
    BY <1>4, <2>1 DEF ProcessEnds, TypeOK
<1>5. ASSUME NEW v \in Users, MainThread(v) \/ Commit(v)
      PROVE  UNCHANGED <<asked, answers, sessions, listeners>>
  BY <1>5 DEF MainThread, CreditWrite, CreditEncode, CreditUpdate, WriteDocument, Commit,
              client, app
<1>6. ASSUME NEW t \in Transfers, SerialPay(t) \/ PayThread(t) \/ SendKeys(t) \/ ReceiveKeys(t)
      PROVE  UNCHANGED <<asked, answers, sessions, listeners>>
  BY <1>6 DEF SerialPay, PayPressed, PayThread, DebitRead, DebitWrite, DebitEncode, DebitUpdate,
              SendKeys, SendKeysFetched, SendKeysMissing, ReceiveKeys, ReceiveKeysFetched,
              ReceiveDropped, client, app
<1>7. UNCHANGED vars => UNCHANGED <<asked, answers, sessions, listeners>>
  BY DEF vars, client, app
<1>8. QED
  BY <1>1, <1>2, <1>3, <1>4, <1>5, <1>6, <1>7 DEF SerialNext, SessionNext

LEMMA StopClears ==
    ASSUME TypeOK, NEW u \in Users, SerialStop(u)
    PROVE  /\ asked'[u] = 0 /\ answers'[u] = <<>> /\ listeners'[u] = <<>> /\ sessions'[u] = 0
           /\ main'[u].at = "idle" /\ ~Loaded(u)'
           /\ thread' = thread /\ curr_balance'[u] = 0
           /\ UNCHANGED <<local, queue, balance, committed, xfer>>
           /\ \A v \in Users : v # u => /\ main'[v] = main[v]
                                        /\ curr_balance'[v] = curr_balance[v]
                                        /\ listeners'[v] = listeners[v]
<1>1. ProcessEnds(u) /\ AtRest /\ UNCHANGED device
  BY DEF SerialStop, Crash
<1>2. \A t \in Transfers : thread[t].at \in {"none", "refused", "done"}
  BY <1>1 DEF AtRest, Handling
<1>3. thread' = thread
  <2>1. ASSUME NEW t \in Transfers PROVE thread'[t] = thread[t]
    <3>1. thread[t] \in [at : ThreadAt, new : Int]
      BY DEF TypeOK
    <3>2. thread[t].at = "done" => [thread[t] EXCEPT !.at = "done"] = thread[t]
      BY <3>1
    <3>3. QED
      BY <1>1, <1>2, <3>2 DEF ProcessEnds
  <2>2. thread \in [Transfers -> [at : ThreadAt, new : Int]]
    BY DEF TypeOK
  <2>3. thread' = [t \in Transfers |-> thread'[t]]
    BY <1>1 DEF ProcessEnds
  <2>4. QED
    BY <2>1, <2>2, <2>3
<1>4. QED
  BY <1>1, <1>3 DEF ProcessEnds, TypeOK, Idle, Loaded, device, server

LEMMA LoadedKept ==
    ASSUME TypeOK, OneSession, [SerialNext]_vars, NEW u \in Users
    PROVE  /\ Loaded(u) => Loaded(u)' \/ SerialStop(u)
           /\ Loaded(u)' => Loaded(u) \/ BalanceLoaded(u)
<1>1. /\ listeners[u] \in Seq(SUBSET Transfers) /\ listeners'[u] \in Seq(SUBSET Transfers)
  BY SerialIsNext, NextType DEF TypeOK
<1>2. /\ Loaded(u) <=> Len(listeners[u]) # 0
      /\ Loaded(u)' <=> Len(listeners'[u]) # 0
  BY <1>1 DEF Loaded
<1>3. SignIn(u) \/ GetBalance(u) => listeners' = listeners
  BY DEF SignIn, GetBalance
<1>4. BalanceLoaded(u) => Len(listeners'[u]) # 0
  BY <1>1 DEF BalanceLoaded, TypeOK
<1>5. SerialStop(u) => ~Loaded(u)'
  BY StopClears
<1>6. QED
  BY <1>2, <1>3, <1>4, <1>5, SessionOrigin

LEMMA StopAtRest ==
    ASSUME IInv, NEW u \in Users, SerialStop(u), NEW t \in Transfers
    PROVE  ~Working(t)
BY DEF SerialStop, AtRest, Handling, Working

\* A thread begins only where the balance is loaded and nothing is under way.
LEMMA ThreadBegins ==
    ASSUME TypeOK, [SerialNext]_vars, NEW t \in Transfers, thread[t].at = "none",
           thread'[t] # thread[t]
    PROVE  /\ SerialPay(t) /\ thread'[t].at = "read"
           /\ \A s \in Transfers : s # t => thread'[s] = thread[s]
<1>1. [Next]_vars /\ thread' # thread
  BY SerialIsNext
<1>2. ASSUME NEW u \in Users, SessionNext(u) \/ (\E i \in DOMAIN listeners[u] : Snapshot(u, i))
                              \/ MainThread(u) \/ Commit(u)
      PROVE  thread' = thread
  BY <1>2 DEF SessionNext, SignIn, GetBalance, BalanceLoaded, Snapshot, MainThread, CreditWrite,
              CreditEncode, CreditUpdate, WriteDocument, Commit, app
<1>3. ASSUME NEW u \in Users, SerialStop(u) PROVE thread' = thread
  BY <1>3, StopClears
<1>4. ASSUME NEW s \in Transfers, PayThread(s) \/ SendKeys(s) PROVE thread'[t] = thread[t]
  <2>1. s # t
    BY <1>4 DEF PayThread, DebitRead, DebitWrite, DebitEncode, DebitUpdate, SendKeys,
                SendKeysFetched, SendKeysMissing
  <2>2. QED
    BY <1>4, <2>1 DEF PayThread, DebitRead, DebitWrite, DebitEncode, DebitUpdate, SendKeys,
                      SendKeysFetched, SendKeysMissing, TypeOK
<1>5. ASSUME NEW s \in Transfers, ReceiveKeys(s) PROVE thread' = thread
  BY <1>5 DEF ReceiveKeys, ReceiveKeysFetched, ReceiveDropped, app
<1>6. UNCHANGED vars => thread' = thread
  BY DEF vars, app
<1>7. PICK s \in Transfers : SerialPay(s)
  BY <1>1, <1>2, <1>3, <1>4, <1>5, <1>6 DEF SerialNext
<1>8. thread' = [thread EXCEPT ![s].at = "read"]
  BY <1>7 DEF SerialPay, PayPressed
<1>9. QED
  BY <1>7, <1>8, ThreadMoves

LEMMA OneSessionStep ==
    ASSUME AsMeant, IInv, OneSession, LoadedFirst, [SerialNext]_vars
    PROVE  OneSession'
<1> SUFFICES ASSUME NEW u \in Users
             PROVE  /\ asked'[u] + Len(answers'[u]) + Len(listeners'[u]) = sessions'[u]
                    /\ sessions'[u] <= 1
                    /\ \A i \in 1..Len(answers'[u]) : answers'[u][i] = local'[u]
                    /\ hasKey'[u]
  BY DEF OneSession
<1>1. TypeOK /\ [Next]_vars /\ hasKey'[u]
  BY SerialIsNext, SerialKeepsKeys DEF IInv, OneSession
<1>0. /\ asked[u] \in Nat /\ Len(answers[u]) \in Nat /\ Len(listeners[u]) \in Nat
      /\ sessions[u] \in Nat /\ sessions[u] <= 1
      /\ asked[u] + Len(answers[u]) + Len(listeners[u]) = sessions[u]
  BY <1>1, SessionParts
<1>2. Loaded(u) \/ local'[u] = local[u]
  <2>1. CASE local' = local
    BY <2>1
  <2>2. ASSUME NEW v \in Users, CreditUpdate(v) PROVE Loaded(u) \/ local'[u] = local[u]
    <3>1. Loaded(v)
      BY <1>1, <2>2, CreditMoves DEF LoadedFirst
    <3>2. local' = [local EXCEPT ![v] = main[v].new]
      BY <1>1, <2>2, CreditUpdateEnqueues
    <3>3. u # v => local'[u] = local[u]
      BY <1>1, <3>2 DEF TypeOK
    <3>4. QED
      BY <3>1, <3>3
  <2>3. ASSUME NEW t \in Transfers, DebitUpdate(t) PROVE Loaded(u) \/ local'[u] = local[u]
    <3>1. Loaded(From(t))
      BY <2>3 DEF DebitUpdate, LoadedFirst, Working
    <3>2. local' = [local EXCEPT ![From(t)] = thread[t].new]
      BY <1>1, <2>3, DebitUpdateEnqueues
    <3>3. u # From(t) => local'[u] = local[u]
      BY <1>1, <3>2 DEF TypeOK
    <3>4. QED
      BY <3>1, <3>3
  <2>4. QED
    BY <1>1, <2>1, <2>2, <2>3, LocalSteps, SamePhone
<1>3. CASE /\ asked'[u] = asked[u] /\ answers'[u] = answers[u]
           /\ sessions'[u] = sessions[u] /\ Len(listeners'[u]) = Len(listeners[u])
  <2>1. Loaded(u) => Len(answers[u]) = 0
    BY <1>1, SessionParts
  <2>2. \A i \in 1..Len(answers[u]) : answers'[u][i] = local'[u]
    BY <1>2, <1>3, <2>1 DEF OneSession
  <2>3. QED
    BY <1>1, <1>3, <2>2 DEF OneSession
<1>4. CASE SignIn(u)
  <2>1. /\ sessions[u] < 1 /\ sessions'[u] = sessions[u] + 1 /\ asked'[u] = asked[u] + 1
        /\ UNCHANGED <<answers, listeners, local>>
    BY <1>1, <1>4 DEF SignIn, AsMeant, TypeOK, device
  <2>2. \A i \in 1..Len(answers'[u]) : answers'[u][i] = local'[u]
    BY <2>1 DEF OneSession
  <2>3. asked'[u] + Len(answers'[u]) + Len(listeners'[u]) = sessions'[u] /\ sessions'[u] <= 1
    <3>1. /\ asked'[u] = asked[u] + 1 /\ sessions'[u] = sessions[u] + 1 /\ sessions[u] < 1
          /\ Len(answers'[u]) = Len(answers[u]) /\ Len(listeners'[u]) = Len(listeners[u])
      BY <2>1
    <3>2. QED
      BY <1>0, <3>1, SMTT(20)
  <2>4. QED
    BY <1>1, <2>2, <2>3
<1>5. CASE GetBalance(u)
  <2>1. /\ asked[u] > 0 /\ asked'[u] = asked[u] - 1
        /\ answers'[u] = Append(answers[u], local[u])
        /\ UNCHANGED <<sessions, listeners, local>>
    BY <1>1, <1>5 DEF GetBalance, AsMeant, TypeOK, device, app
  <2>2. answers[u] \in Seq(Int) /\ local[u] \in Int
    BY <1>1 DEF TypeOK
  <2>3. Len(answers'[u]) = Len(answers[u]) + 1
    BY <2>1, <2>2
  <2>4. \A i \in 1..Len(answers'[u]) : answers'[u][i] = local[u]
    BY <2>1, <2>2, <2>3 DEF OneSession
  <2>5. asked'[u] + Len(answers'[u]) + Len(listeners'[u]) = sessions'[u] /\ sessions'[u] <= 1
    <3>1. /\ asked'[u] = asked[u] - 1 /\ sessions'[u] = sessions[u]
          /\ Len(listeners'[u]) = Len(listeners[u])
      BY <2>1
    <3>2. asked'[u] + Len(answers'[u]) = asked[u] + Len(answers[u])
      <4>1. asked[u] \in Nat /\ Len(answers[u]) \in Nat /\ asked'[u] = asked[u] - 1
        BY <1>0, <2>1
      <4>2. QED
        BY <2>3, <4>1
    <3>3. QED
      BY <1>0, <3>1, <3>2
  <2>6. \A i \in 1..Len(answers'[u]) : answers'[u][i] = local'[u]
    BY <2>1, <2>4
  <2>7. QED
    BY <1>1, <2>5, <2>6
<1>6. CASE BalanceLoaded(u)
  <2>1. /\ answers[u] # <<>> /\ answers'[u] = Tail(answers[u])
        /\ listeners'[u] = Append(listeners[u], {})
        /\ UNCHANGED <<asked, sessions, local>>
    BY <1>1, <1>6 DEF BalanceLoaded, TypeOK, device
  <2>2. answers[u] \in Seq(Int) /\ listeners[u] \in Seq(SUBSET Transfers)
    BY <1>1 DEF TypeOK
  <2>3. Len(answers[u]) = 1 /\ Len(answers'[u]) = 0
    BY <1>1, <2>1, <2>2, SessionParts
  <2>4. Len(listeners'[u]) = Len(listeners[u]) + 1
    BY <2>1, <2>2
  <2>5. QED
    BY <1>1, <2>1, <2>3, <2>4, SessionParts
<1>7. CASE SerialStop(u)
  BY <1>1, <1>7, StopClears
<1>8. QED
  BY <1>1, <1>3, <1>4, <1>5, <1>6, <1>7, SessionOrigin

LEMMA LoadedFirstStep ==
    ASSUME IInv, OneSession, LoadedFirst, OneReceipt, [SerialNext]_vars
    PROVE  LoadedFirst'
<1>0. TypeOK /\ [Next]_vars
  BY SerialIsNext DEF IInv
<1>1. ASSUME NEW u \in Users, main'[u].at # "idle" PROVE Loaded(u)'
  <2>1. ~SerialStop(u)
    BY <1>0, <1>1, StopClears
  <2>2. CASE main[u].at # "idle"
    BY <1>0, <2>1, <2>2, LoadedKept DEF LoadedFirst
  <2>3. ASSUME NEW t \in Transfers, SendKeysFetched(t), From(t) = u PROVE Loaded(u)'
    <3>1. Working(t)
      BY <2>3 DEF SendKeysFetched, Working
    <3>2. QED
      BY <1>0, <2>1, <2>3, <3>1, LoadedKept DEF LoadedFirst
  <2>4. ASSUME NEW t \in Transfers, fetches[t] > 0, To(t) = u PROVE Loaded(u)'
    <3>1. Shown(t)
      BY <2>4 DEF OneReceipt, Received
    <3>2. Loaded(u)
      BY <2>4, <3>1 DEF Shown, Loaded
    <3>3. QED
      BY <1>0, <2>1, <3>2, LoadedKept
  <2>5. CASE main[u].at = "idle"
    <3>1. CASE main'[u] = main[u]
      BY <1>1, <2>5, <3>1
    <3>2. QED
      BY <1>0, <1>1, <2>3, <2>4, <2>5, <3>1, MainOrigin
  <2>6. QED
    BY <2>2, <2>5
<1>2. ASSUME NEW t \in Transfers, NEW u \in Users, From(t) = u, Working(t)' PROVE Loaded(u)'
  <2>1. CASE Working(t)
    <3>1. ~SerialStop(u)
      BY <2>1, StopAtRest
    <3>2. QED
      BY <1>0, <1>2, <2>1, <3>1, LoadedKept DEF LoadedFirst
  <2>2. CASE ~Working(t)
    <3>1. thread[t].at = "none" /\ thread'[t] # thread[t]
      BY <1>0, <1>2, <2>2, ThreadOrigin DEF Working
    <3>2. SerialPay(t)
      BY <1>0, <3>1, ThreadBegins
    <3>3. Loaded(u) /\ listeners' = listeners
      BY <1>2, <3>2 DEF SerialPay, PayPressed, client
    <3>4. QED
      BY <3>3 DEF Loaded
  <2>3. QED
    BY <2>1, <2>2
<1>3. \A t \in Transfers : From(t)' = From(t) /\ From(t) \in Users
  BY <1>0, XferSame, PaymentType
<1>4. ASSUME NEW t \in Transfers, Working(t)' PROVE Loaded(From(t))'
  BY <1>2, <1>3, <1>4 DEF Loaded
<1>5. QED
  BY <1>1, <1>4 DEF LoadedFirst

LEMMA UnderWayOrigin ==
    ASSUME TypeOK, [SerialNext]_vars, NEW t \in Transfers, UnderWay(t)'
    PROVE  UnderWay(t) \/ SerialPay(t)
<1>1. [Next]_vars /\ "delete" \in Ops
  BY SerialIsNext DEF Ops
<1>2. committed'[t]["delete"] = 0 => committed[t]["delete"] = 0
  BY <1>1, CommittedKept
<1>3. CASE thread[t].at = "none" /\ thread'[t] # thread[t]
  BY <1>3, ThreadBegins
<1>4. CASE thread'[t] = thread[t]
  BY <1>2, <1>4 DEF UnderWay
<1>5. CASE thread[t].at = "refused" /\ thread'[t] # thread[t]
  <2>1. Stops(From(t))
    BY <1>1, <1>5, ThreadOrigin
  <2>2. thread'[t] = thread[t]
    BY <1>5, <2>1 DEF Stops, Crash, ListenerError, NewDevice, ProcessEnds
  <2>3. QED
    BY <1>5, <2>2
<1>6. CASE thread[t].at \notin {"none", "refused"} /\ thread'[t] # thread[t]
  BY <1>1, <1>2, <1>6, ThreadOrigin DEF UnderWay
<1>7. QED
  BY <1>3, <1>4, <1>5, <1>6

LEMMA OnePaymentStep ==
    ASSUME TypeOK, OnePayment, [SerialNext]_vars
    PROVE  OnePayment'
<1> SUFFICES ASSUME NEW s \in Transfers, NEW t \in Transfers, UnderWay(s)', UnderWay(t)'
             PROVE  s = t
  BY DEF OnePayment
<1>1. ASSUME NEW r \in Transfers, SerialPay(r), NEW q \in Transfers, UnderWay(q)'
      PROVE  q = r
  <2>1. ~UnderWay(q)
    BY <1>1 DEF SerialPay, Quiet
  <2>2. SerialPay(q) /\ thread[q].at = "none"
    BY <1>1, <2>1, UnderWayOrigin DEF SerialPay, PayPressed
  <2>3. thread[r].at = "none" /\ thread'[r].at = "read" /\ thread'[q].at = "read"
    BY <1>1, <2>2, ThreadMoves DEF SerialPay, PayPressed
  <2>4. QED
    BY <1>1, <2>2, <2>3, ThreadBegins
<1>2. CASE UnderWay(s) /\ UnderWay(t)
  BY <1>2 DEF OnePayment
<1>3. QED
  BY <1>1, <1>2, UnderWayOrigin

-----------------------------------------------------------------------------
(* Memory, local store and what is carried between them.                   *)

LEMMA SerialMemorySteps ==
    [SerialNext]_vars => \/ curr_balance' = curr_balance
                         \/ \E u \in Users : \/ SignIn(u) \/ BalanceLoaded(u) \/ CreditWrite(u)
                                             \/ SerialStop(u)
                         \/ \E t \in Transfers : DebitWrite(t)
BY DEF SerialNext, vars, app, SessionNext, GetBalance, Snapshot, MainThread, CreditEncode,
       CreditUpdate, WriteDocument, Commit, SerialPay, PayPressed, PayThread, DebitRead,
       DebitEncode, DebitUpdate, SendKeys, SendKeysFetched, SendKeysMissing, ReceiveKeys,
       ReceiveKeysFetched, ReceiveDropped

LEMMA MemoryOrigin ==
    ASSUME TypeOK, [SerialNext]_vars, NEW u \in Users
    PROVE  \/ curr_balance'[u] = curr_balance[u]
           \/ SignIn(u) /\ main'[u].at = "idle"
           \/ BalanceLoaded(u) /\ main'[u].at = "idle"
           \/ /\ CreditWrite(u) /\ curr_balance'[u] = main[u].new
              /\ main[u].at = "write" /\ main'[u].at = "encode"
           \/ SerialStop(u) /\ main'[u].at = "idle"
           \/ \E t \in Transfers : /\ DebitWrite(t) /\ From(t) = u
                                   /\ thread[t].at = "write" /\ thread'[t].at = "encode"
                                   /\ curr_balance'[u] = thread[t].new
<1>1. ASSUME NEW v \in Users, SignIn(v) \/ BalanceLoaded(v)
      PROVE  \/ curr_balance'[u] = curr_balance[u]
             \/ v = u /\ main'[u].at = "idle"
  BY <1>1 DEF SignIn, BalanceLoaded, MainIdle, TypeOK
<1>2. ASSUME NEW v \in Users, CreditWrite(v)
      PROVE  \/ curr_balance'[u] = curr_balance[u]
             \/ /\ v = u /\ curr_balance'[u] = main[u].new
                /\ main[u].at = "write" /\ main'[u].at = "encode"
  BY <1>2, CreditMoves DEF CreditWrite, TypeOK
<1>3. ASSUME NEW v \in Users, SerialStop(v)
      PROVE  curr_balance'[u] = curr_balance[u] \/ (v = u /\ main'[u].at = "idle")
  BY <1>3, StopClears
<1>4. ASSUME NEW t \in Transfers, DebitWrite(t)
      PROVE  \/ curr_balance'[u] = curr_balance[u]
             \/ /\ From(t) = u /\ thread[t].at = "write" /\ thread'[t].at = "encode"
                /\ curr_balance'[u] = thread[t].new
  BY <1>4, PaymentType, ThreadMoves DEF DebitWrite, TypeOK
<1>5. QED
  BY <1>1, <1>2, <1>3, <1>4, SerialMemorySteps

\* Only its own thread writes the balance of a user who pays ...
LEMMA PayerMemory ==
    ASSUME AsMeant, IInv, OneSession, LoadedFirst, OnePayment, OneReceipt, [SerialNext]_vars,
           NEW t \in Transfers, Working(t), thread'[t].at # "encode" \/ thread[t].at # "write"
    PROVE  curr_balance'[From(t)] = curr_balance[From(t)]
<1> DEFINE u == From(t)
<1>1. TypeOK /\ u \in Users /\ Loaded(u)
  BY PaymentType DEF IInv, LoadedFirst
<1>2. sessions[u] = 1 /\ answers[u] = <<>>
  BY <1>1, SessionParts
<1>3. ~SignIn(u) /\ ~BalanceLoaded(u)
  BY <1>2 DEF SignIn, BalanceLoaded, AsMeant
<1>4. /\ main[u].at # "write"
      /\ \A s \in Transfers : s # t => thread[s].at # "write"
  <2>1. main[u].at # "write"
    BY <1>1, WorkingAlone DEF Receiving
  <2>2. ASSUME NEW s \in Transfers, s # t PROVE thread[s].at # "write"
    <3>1. ~Working(s)
      BY <2>2, WorkingAlone
    <3>2. QED
      BY <3>1 DEF Working
  <2>3. QED
    BY <2>1, <2>2
<1>5. ~SerialStop(u)
  BY <1>1, StopAtRest
<1>6. QED
  BY <1>1, <1>3, <1>4, <1>5, MemoryOrigin

\* ... and only its own callback that of a user who is paid.
LEMMA PayeeMemory ==
    ASSUME IInv, OnePayment, OneReceipt, [SerialNext]_vars, NEW u \in Users,
           main[u].at \in Receiving \/ (\E t \in Transfers : To(t) = u /\ fetches[t] > 0),
           main'[u].at \notin {"idle", "encode"}
    PROVE  curr_balance'[u] = curr_balance[u]
<1>1. TypeOK
  BY DEF IInv
<1>2. \A s \in Transfers : ~Working(s)
  BY ReceivingAlone, ReceivingIsBusy
<1>3. \A s \in Transfers : thread[s].at # "write"
  BY <1>2 DEF Working
<1>4. QED
  BY <1>1, <1>3, MemoryOrigin

LEMMA StepOfMain ==
    ASSUME IInv, OnePayment, OneReceipt, InStep, [SerialNext]_vars, NEW u \in Users
    PROVE  /\ main'[u].at = "write" => main'[u].new = curr_balance'[u] + Amount(main'[u].txn)
           /\ main'[u].at = "credit" => main'[u].new = curr_balance'[u]
<1>0. TypeOK /\ [Next]_vars
  BY SerialIsNext DEF IInv
<1> SUFFICES ASSUME main'[u].at \in {"write", "credit"}
             PROVE  /\ main'[u].at = "write"
                          => main'[u].new = curr_balance'[u] + Amount(main'[u].txn)
                    /\ main'[u].at = "credit" => main'[u].new = curr_balance'[u]
  OBVIOUS
<1>1. CASE main'[u] = main[u]
  <2>1. main[u].at \in Receiving
    BY <1>1 DEF Receiving, ReceiverOps
  <2>2. curr_balance'[u] = curr_balance[u]
    BY <2>1, PayeeMemory
  <2>3. QED
    BY <1>1, <2>2 DEF InStep
<1>2. CASE main[u].at = "encode" /\ main'[u].at = "credit" /\ main'[u].new = curr_balance[u]
  BY <1>2, PayeeMemory DEF Receiving
<1>3. ASSUME NEW t \in Transfers, fetches[t] > 0, To(t) = u,
             main'[u].at \in {"write", "received"}, main'[u].txn = t,
             main'[u].new = curr_balance[u] + Amount(t)
      PROVE  main'[u].new = curr_balance'[u] + Amount(main'[u].txn)
  BY <1>3, PayeeMemory
<1>4. QED
  BY <1>0, <1>1, <1>2, <1>3, MainOrigin

LEMMA StepOfThread ==
    ASSUME AsMeant, IInv, OneSession, LoadedFirst, OnePayment, OneReceipt, InStep,
           [SerialNext]_vars, NEW t \in Transfers
    PROVE  /\ thread'[t].at = "write" => thread'[t].new = curr_balance'[From(t)] - Amount(t)
           /\ thread'[t].at = "update" => thread'[t].new = curr_balance'[From(t)]
<1>0. TypeOK /\ [Next]_vars
  BY SerialIsNext DEF IInv
<1> SUFFICES ASSUME thread'[t].at \in {"write", "update"}
             PROVE  /\ thread'[t].at = "write"
                          => thread'[t].new = curr_balance'[From(t)] - Amount(t)
                    /\ thread'[t].at = "update" => thread'[t].new = curr_balance'[From(t)]
  OBVIOUS
<1>1. CASE thread'[t] = thread[t]
  <2>1. curr_balance'[From(t)] = curr_balance[From(t)]
    BY <1>1, PayerMemory DEF Working
  <2>2. QED
    BY <1>1, <2>1 DEF InStep
<1>2. CASE DebitRead(t) /\ thread'[t].at = "write"
  <2>1. thread'[t].new = curr_balance[From(t)] - Amount(t)
    BY <1>0, <1>2 DEF DebitRead, TypeOK
  <2>2. curr_balance' = curr_balance
    BY <1>2 DEF DebitRead
  <2>3. QED
    BY <1>2, <2>1, <2>2
<1>3. CASE thread[t].at = "encode" /\ thread'[t].at = "update"
           /\ thread'[t].new = curr_balance[From(t)]
  BY <1>3, PayerMemory DEF Working
<1>4. QED
  BY <1>0, <1>1, <1>2, <1>3, ThreadOrigin

LEMMA StoppedIsNotLoaded ==
    ASSUME TypeOK, NEW u \in Users, Stops(u)
    PROVE  ~Loaded(u)'
BY DEF Stops, Crash, ListenerError, NewDevice, ProcessEnds, TypeOK, Loaded

\* What is between memory and the local store is written to it, or stays.
LEMMA CreditEnds ==
    ASSUME TypeOK, [SerialNext]_vars, NEW u \in Users, Loaded(u)',
           main[u].at \in {"encode", "credit"}, main'[u].at \notin {"encode", "credit"}
    PROVE  CreditUpdate(u) /\ main[u].at = "credit"
<1>1. main'[u] # main[u] /\ ~Stops(u) /\ [Next]_vars
  BY SerialIsNext, StoppedIsNotLoaded
<1>2. ASSUME NEW v \in Users,
             CreditWrite(v) \/ CreditEncode(v) \/ CreditUpdate(v) \/ WriteDocument(v)
      PROVE  CreditUpdate(u) /\ main[u].at = "credit"
  BY <1>1, <1>2, CreditMoves, DocumentMoves
<1>3. ~ \E v \in Users : Stops(v)
  BY <1>1, StopsClears
<1>4. ASSUME NEW t \in Transfers, SendKeysFetched(t) \/ ReceiveKeysFetched(t) PROVE FALSE
  <2>1. \E v \in Users : \E m : main[v].at = "idle" /\ main' = [main EXCEPT ![v] = m]
    BY <1>4, PaymentType DEF SendKeysFetched, ReceiveKeysFetched, MainIdle
  <2>2. QED
    BY <1>1, <2>1 DEF TypeOK
<1>5. QED
  BY <1>1, <1>2, <1>3, <1>4, MainSteps

LEMMA DebitEnds ==
    ASSUME TypeOK, [SerialNext]_vars, NEW t \in Transfers, NEW u \in Users, From(t) = u,
           Loaded(u)', thread[t].at \in {"encode", "update"},
           thread'[t].at \notin {"encode", "update"}
    PROVE  DebitUpdate(t) /\ thread[t].at = "update"
<1>1. ~Stops(u) /\ [Next]_vars
  BY SerialIsNext, StoppedIsNotLoaded
<1>2. QED
  BY <1>1, ThreadOrigin

LEMMA BetweenNext ==
    ASSUME [SerialNext]_vars, NEW u \in Users
    PROVE  Between(u)' <=> \/ main'[u].at \in {"encode", "credit"}
                           \/ \E t \in Transfers :
                                 From(t) = u /\ thread'[t].at \in {"encode", "update"}
BY XferSame DEF Between

LEMMA LocalOrigin ==
    ASSUME TypeOK, OneSession, [SerialNext]_vars, NEW u \in Users
    PROVE  \/ local'[u] = local[u]
           \/ CreditUpdate(u) /\ main[u].at = "credit" /\ local'[u] = main[u].new
           \/ \E t \in Transfers : /\ DebitUpdate(t) /\ From(t) = u
                                   /\ thread[t].at = "update" /\ local'[u] = thread[t].new
<1>1. ASSUME NEW v \in Users, CreditUpdate(v)
      PROVE  \/ local'[u] = local[u]
             \/ v = u /\ main[u].at = "credit" /\ local'[u] = main[u].new
  <2>1. local' = [local EXCEPT ![v] = main[v].new] /\ main[v].at = "credit"
    BY <1>1, CreditUpdateEnqueues DEF CreditUpdate
  <2>2. QED
    BY <2>1 DEF TypeOK
<1>2. ASSUME NEW t \in Transfers, DebitUpdate(t)
      PROVE  \/ local'[u] = local[u]
             \/ From(t) = u /\ thread[t].at = "update" /\ local'[u] = thread[t].new
  <2>1. local' = [local EXCEPT ![From(t)] = thread[t].new] /\ thread[t].at = "update"
    BY <1>2, DebitUpdateEnqueues DEF DebitUpdate
  <2>2. QED
    BY <2>1 DEF TypeOK
<1>3. QED
  BY <1>1, <1>2, SerialIsNext, LocalSteps, SamePhone

LEMMA AgreeStep ==
    ASSUME AsMeant, IInv, OneSession, LoadedFirst, OnePayment, OneReceipt, InStep,
           [SerialNext]_vars, NEW u \in Users, Loaded(u)', ~Between(u)'
    PROVE  curr_balance'[u] = local'[u]
<1>0. TypeOK /\ ~SerialStop(u)
  BY StopClears DEF IInv
<1>1. /\ main'[u].at \notin {"encode", "credit"}
      /\ \A t \in Transfers : From(t) = u => thread'[t].at \notin {"encode", "update"}
  BY BetweenNext
<1>2. CASE BalanceLoaded(u)
  <2>1. /\ answers[u] # <<>> /\ curr_balance'[u] = Head(answers[u]) /\ local' = local
    BY <1>0, <1>2 DEF BalanceLoaded, TypeOK, device
  <2>2. answers[u] \in Seq(Int) /\ Len(answers[u]) = 1
    BY <1>0, <2>1, SessionParts DEF TypeOK
  <2>3. answers[u][1] = local[u]
    BY <2>2 DEF OneSession
  <2>4. QED
    BY <2>1, <2>2, <2>3
<1>3. CASE ~BalanceLoaded(u)
  <2>1. Loaded(u) /\ sessions[u] = 1
    BY <1>0, <1>3, LoadedKept, SessionParts
  <2>2. ~SignIn(u)
    BY <2>1 DEF SignIn, AsMeant
  <2>3. curr_balance'[u] = curr_balance[u]
    BY <1>0, <1>1, <1>3, <2>2, MemoryOrigin
  <2>4. CASE ~Between(u)
    <3>1. local'[u] = local[u]
      BY <1>0, <2>4, LocalOrigin DEF Between
    <3>2. QED
      BY <2>1, <2>3, <2>4, <3>1 DEF InStep
  <2>5. CASE main[u].at \in {"encode", "credit"}
    <3>1. CreditUpdate(u) /\ main[u].at = "credit"
      BY <1>0, <1>1, <2>5, CreditEnds
    <3>2. local'[u] = main[u].new /\ main[u].new = curr_balance[u]
      BY <1>0, <3>1, CreditUpdateEnqueues DEF TypeOK, InStep
    <3>3. QED
      BY <2>3, <3>2
  <2>6. ASSUME NEW t \in Transfers, From(t) = u, thread[t].at \in {"encode", "update"}
        PROVE  curr_balance'[u] = local'[u]
    <3>1. DebitUpdate(t) /\ thread[t].at = "update"
      BY <1>0, <1>1, <2>6, DebitEnds
    <3>2. local'[u] = thread[t].new /\ thread[t].new = curr_balance[u]
      BY <1>0, <2>6, <3>1, DebitUpdateEnqueues DEF TypeOK, InStep
    <3>3. QED
      BY <2>3, <3>2
  <2>7. QED
    BY <2>4, <2>5, <2>6 DEF Between
<1>4. QED
  BY <1>2, <1>3

LEMMA InStepStep ==
    ASSUME AsMeant, IInv, OneSession, LoadedFirst, OnePayment, OneReceipt, InStep,
           [SerialNext]_vars
    PROVE  InStep'
<1>1. \A t \in Transfers : From(t)' = From(t) /\ Amount(t)' = Amount(t)
  BY XferSame
<1>2. \A u \in Users : main'[u].txn \in Transfers
  BY SerialIsNext, NextFields DEF IInv
<1>3. ASSUME NEW u \in Users
      PROVE  /\ Loaded(u)' /\ ~Between(u)' => curr_balance'[u] = local'[u]
             /\ main'[u].at = "write"
                   => main'[u].new = curr_balance'[u] + Amount(main[u].txn)'
             /\ main'[u].at = "credit" => main'[u].new = curr_balance'[u]
  BY <1>1, <1>2, AgreeStep, StepOfMain
<1>4. QED
  BY <1>1, <1>3, StepOfThread DEF InStep

-----------------------------------------------------------------------------
(* The last balance of the queue.                                          *)

LEMMA BookSteps ==
    [SerialNext]_vars => \/ UNCHANGED <<queue, local, balance>>
                         \/ \E u \in Users : CreditUpdate(u) \/ WriteDocument(u) \/ Commit(u)
                         \/ \E t \in Transfers : DebitUpdate(t)
BY DEF SerialNext, vars, server, device, SessionNext, SignIn, GetBalance, BalanceLoaded, Snapshot,
       MainThread, CreditWrite, CreditEncode, SerialStop, Crash, ProcessEnds, SerialPay,
       PayPressed, PayThread, DebitRead, DebitWrite, DebitEncode, SendKeys, SendKeysFetched,
       SendKeysMissing, ReceiveKeys, ReceiveKeysFetched, ReceiveDropped

LEMMA EnqueueLast ==
    ASSUME TypeOK, NEW v \in Users, NEW op \in Ops, NEW t \in Transfers, NEW b \in Int,
           Enqueue(v, op, t, b), balance' = balance,
           \/ op \in BalanceOps /\ local' = [local EXCEPT ![v] = b]
           \/ op \notin BalanceOps /\ local' = local,
           NEW u \in Users, LastOf(u)
    PROVE  LastOf(u)'
<1> DEFINE n == Len(queue[u])
<1>0. n \in Nat /\ local \in [Users -> Int]
  BY QueueType DEF TypeOK
<1>1. CASE u # v
  <2>1. queue'[u] = queue[u] /\ local'[u] = local[u]
    BY <1>0, <1>1, EnqueueFacts
  <2>2. QED
    BY <2>1 DEF LastOf
<1>2. CASE u = v
  <2>1. /\ Len(queue'[u]) = n + 1
        /\ \A i \in 1..n : queue'[u][i] = queue[u][i]
        /\ queue'[u][n + 1].op = op /\ queue'[u][n + 1].amount = b
    <3>1. /\ Len(queue'[u]) = n + 1
          /\ \A i \in 1..n : queue'[u][i] = queue[u][i]
          /\ queue'[u][n + 1] = [op |-> op, txn |-> t, amount |-> b]
      BY <1>2, EnqueueFacts
    <3>2. QED
      BY <3>1
  <2> HIDE DEF n
  <2>2. CASE op \in BalanceOps /\ local' = [local EXCEPT ![v] = b]
    <3>1. n + 1 \in 1..(n + 1) /\ local'[u] = b
      BY <1>0, <1>2, <2>2
    <3>2. ASSUME NEW i \in 1..(n + 1),
                 \A j \in 1..(n + 1) : j > i => queue'[u][j].op \notin BalanceOps
          PROVE  queue'[u][i].amount = local'[u]
      <4>1. ~(n + 1 > i)
        BY <2>1, <2>2, <3>1, <3>2
      <4>2. i = n + 1
        BY <1>0, <4>1
      <4>3. QED
        BY <2>1, <3>1, <4>2
    <3>3. QED
      BY <2>1, <2>2, <3>1, <3>2 DEF LastOf
  <2>3. CASE op \notin BalanceOps /\ local' = local
    <3>1. \A i \in 1..n : i \in 1..(n + 1)
      BY <1>0
    <3>2. (\A i \in 1..(n + 1) : queue'[u][i].op \notin BalanceOps) => balance'[u] = local'[u]
      BY <2>1, <2>3, <3>1 DEF LastOf, n
    <3>3. ASSUME NEW i \in 1..(n + 1), queue'[u][i].op \in BalanceOps,
                 \A j \in 1..(n + 1) : j > i => queue'[u][j].op \notin BalanceOps
          PROVE  queue'[u][i].amount = local'[u]
      <4>1. i \in 1..n
        BY <1>0, <2>1, <2>3, <3>3
      <4>2. \A j \in 1..n : j > i => queue[u][j].op \notin BalanceOps
        BY <2>1, <3>1, <3>3
      <4>3. QED
        BY <2>1, <2>3, <3>3, <4>1, <4>2 DEF LastOf, n
    <3>4. QED
      BY <2>1, <3>2, <3>3 DEF LastOf
  <2>4. QED
    BY <2>2, <2>3
<1>3. QED
  BY <1>1, <1>2

LEMMA CommitLast ==
    ASSUME TypeOK, NEW v \in Users, Commit(v), NEW u \in Users, LastOf(u)
    PROVE  LastOf(u)'
<1> DEFINE n == Len(queue[u])
<1>0. n \in Nat /\ balance \in [Users -> Int]
  BY QueueType DEF TypeOK
<1>1. /\ local' = local
      /\ balance' = IF queue[v][1].op \in BalanceOps
                    THEN [balance EXCEPT ![v] = queue[v][1].amount] ELSE balance
  <2>1. Head(queue[v]) = queue[v][1]
    BY CommitFacts DEF TypeOK
  <2>2. QED
    BY <2>1 DEF Commit
<1>2. CASE u # v
  <2>1. queue'[u] = queue[u] /\ balance'[u] = balance[u]
    BY <1>0, <1>1, <1>2, CommitFacts
  <2>2. QED
    BY <1>1, <2>1 DEF LastOf
<1>3. CASE u = v
  <2>1. /\ n >= 1 /\ Len(queue'[u]) = n - 1
        /\ \A i \in 1..(n - 1) : queue'[u][i] = queue[u][i + 1]
        /\ balance'[u] = IF queue[u][1].op \in BalanceOps THEN queue[u][1].amount ELSE balance[u]
    BY <1>0, <1>1, <1>3, CommitFacts
  <2> HIDE DEF n
  <2>2. ASSUME \A i \in 1..(n - 1) : queue'[u][i].op \notin BalanceOps
        PROVE  balance'[u] = local'[u]
    <3>1. \A j \in 1..n : j > 1 => queue[u][j].op \notin BalanceOps
      <4>1. ASSUME NEW j \in 1..n, j > 1 PROVE queue[u][j].op \notin BalanceOps
        <5>1. j - 1 \in 1..(n - 1) /\ (j - 1) + 1 = j
          BY <1>0, <4>1
        <5>2. QED
          BY <2>1, <2>2, <5>1
      <4>2. QED
        BY <4>1
    <3>2. 1 \in 1..n
      BY <1>0, <2>1
    <3>3. CASE queue[u][1].op \in BalanceOps
      BY <1>1, <2>1, <3>1, <3>2, <3>3 DEF LastOf, n
    <3>4. CASE queue[u][1].op \notin BalanceOps
      <4>1. \A j \in 1..n : j = 1 \/ j > 1
        BY <1>0
      <4>2. \A j \in 1..n : queue[u][j].op \notin BalanceOps
        BY <3>1, <3>4, <4>1
      <4>3. QED
        BY <1>1, <2>1, <3>4, <4>2 DEF LastOf, n
    <3>5. QED
      BY <3>3, <3>4
  <2>3. ASSUME NEW i \in 1..(n - 1), queue'[u][i].op \in BalanceOps,
               \A j \in 1..(n - 1) : j > i => queue'[u][j].op \notin BalanceOps
        PROVE  queue'[u][i].amount = local'[u]
    <3>1. i + 1 \in 1..n
      BY <1>0
    <3>2. ASSUME NEW j \in 1..n, j > i + 1 PROVE queue[u][j].op \notin BalanceOps
      <4>1. j - 1 \in 1..(n - 1) /\ (j - 1) + 1 = j /\ j - 1 > i
        BY <1>0, <3>2
      <4>2. QED
        BY <2>1, <2>3, <4>1
    <3>3. QED
      BY <1>1, <2>1, <2>3, <3>1, <3>2 DEF LastOf, n
  <2>4. QED
    BY <2>1, <2>2, <2>3 DEF LastOf
<1>4. QED
  BY <1>2, <1>3

LEMMA LastBalanceStep ==
    ASSUME TypeOK, LastBalance, [SerialNext]_vars
    PROVE  LastBalance'
<1> SUFFICES ASSUME NEW u \in Users PROVE LastOf(u)'
  BY DEF LastBalance
<1>0. LastOf(u)
  BY DEF LastBalance
<1>1. CASE UNCHANGED <<queue, local, balance>>
  BY <1>0, <1>1 DEF LastOf
<1>2. ASSUME NEW v \in Users, CreditUpdate(v) PROVE LastOf(u)'
  <2>1. balance' = balance /\ "credit" \in BalanceOps
    BY <1>2 DEF CreditUpdate, server, BalanceOps
  <2>2. QED
    BY <1>0, <1>2, <2>1, CreditUpdateEnqueues, EnqueueLast
<1>3. ASSUME NEW v \in Users, WriteDocument(v) PROVE LastOf(u)'
  <2>1. balance' = balance /\ local' = local /\ main[v].at \notin BalanceOps
    BY <1>3, WriteDocumentEnqueues DEF WriteDocument, server, BalanceOps
  <2>2. QED
    BY <1>0, <1>3, <2>1, WriteDocumentEnqueues, EnqueueLast
<1>4. ASSUME NEW t \in Transfers, DebitUpdate(t) PROVE LastOf(u)'
  <2>1. balance' = balance /\ "debit" \in BalanceOps
    BY <1>4 DEF DebitUpdate, server, BalanceOps
  <2>2. QED
    BY <1>0, <1>4, <2>1, DebitUpdateEnqueues, EnqueueLast
<1>5. QED
  BY <1>0, <1>1, <1>2, <1>3, <1>4, BookSteps, CommitLast

-----------------------------------------------------------------------------
(* The invariant holds.                                                    *)

LEMMA InitSerialInv == Init => SerialInv
<1> SUFFICES ASSUME Init PROVE SerialInv
  OBVIOUS
<1>0. TypeOK
  BY InitType
<1>1. /\ \A u \in Users : /\ Len(queue[u]) = 0 /\ Len(answers[u]) = 0 /\ Len(listeners[u]) = 0
                          /\ main[u].at = "idle" /\ balance[u] = local[u]
                          /\ asked[u] = 0 /\ sessions[u] = 0 /\ hasKey[u] /\ ~Loaded(u)
      /\ \A t \in Transfers : /\ thread[t].at = "none" /\ fetches[t] = 0
                              /\ \A op \in Ops : committed[t][op] = 0
                              /\ To(t) \in Users
  BY <1>0, PaymentType DEF Init, Idle, Loaded
<1>2. OneSession
  <2>1. ASSUME NEW u \in Users
        PROVE  /\ asked[u] + Len(answers[u]) + Len(listeners[u]) = sessions[u]
               /\ sessions[u] <= 1
               /\ \A i \in 1..Len(answers[u]) : answers[u][i] = local[u]
               /\ hasKey[u]
    BY <1>1
  <2>2. QED
    BY <2>1 DEF OneSession
<1>3. LoadedFirst
  BY <1>1 DEF LoadedFirst, Working
<1>4. OnePayment
  BY <1>1 DEF OnePayment, UnderWay
<1>5. OneReceipt
  <2>1. ASSUME NEW t \in Transfers PROVE Received(t)
    <3>1. ~Shown(t) /\ ~Busy(t)
      BY <1>1 DEF Shown, Busy, Receiving, ReceiverOps
    <3>2. ~Has("credit", t) /\ ~Has("received", t)
      BY <1>1 DEF Has, Queued, Ops, BalanceOps
    <3>3. QED
      BY <1>1, <3>1, <3>2 DEF Received
  <2>2. QED
    BY <2>1 DEF OneReceipt
<1>6. InStep
  BY <1>1 DEF InStep
<1>7. LastBalance
  <2>1. ASSUME NEW u \in Users PROVE LastOf(u)
    BY <1>1 DEF LastOf
  <2>2. QED
    BY <2>1 DEF LastBalance
<1>8. QED
  BY <1>2, <1>3, <1>4, <1>5, <1>6, <1>7 DEF SerialInv

LEMMA NextSerialInv ==
    ASSUME AsMeant, IInv, SerialInv, [SerialNext]_vars
    PROVE  IInv' /\ SerialInv'
<1>1. TypeOK /\ IInv'
  BY SerialIsNext, NextInvariant DEF IInv
<1>2. OneSession' /\ LoadedFirst' /\ OnePayment'
  BY <1>1, OneSessionStep, LoadedFirstStep, OnePaymentStep DEF SerialInv
<1>3. OneReceipt' /\ InStep' /\ LastBalance'
  BY <1>1, ReceiptStep, InStepStep, LastBalanceStep DEF SerialInv
<1>4. QED
  BY <1>1, <1>2, <1>3 DEF SerialInv

\* Where payments do not overlap a document is received once, what is in memory
\* is in the local store or on its way there, and the local store is what the
\* server will hold.
THEOREM SerialInvariant ==
    ASSUME AsMeant
    PROVE  SerialSpec => [](IInv /\ SerialInv)
<1>1. Init => IInv /\ SerialInv
  BY InitInvariant, InitSerialInv
<1>2. (IInv /\ SerialInv) /\ [SerialNext]_vars => (IInv /\ SerialInv)'
  BY NextSerialInv
<1>3. QED
  BY <1>1, <1>2, PTL DEF SerialSpec

\* At rest the balance the app shows is the server's: the write that
\* updateBalance queues last carries what memory holds.
THEOREM BalancesAgree ==
    ASSUME AsMeant
    PROVE  SerialSpec => []BooksAgree
<1>1. IInv /\ SerialInv => BooksAgree
  <2> SUFFICES ASSUME IInv, SerialInv, NEW u \in Users, AtRest, Loaded(u), queue[u] = <<>>,
                      MainIdle(u)
               PROVE  curr_balance[u] = balance[u]
    BY DEF BooksAgree
  <2>1. \A t \in Transfers : thread[t].at \in {"none", "refused", "done"}
    BY DEF AtRest, Handling
  <2>2. ~Between(u)
    BY <2>1 DEF Between, MainIdle
  <2>3. curr_balance[u] = local[u]
    BY <2>2 DEF SerialInv, InStep
  <2>4. balance[u] = local[u]
    BY DEF SerialInv, LastBalance, LastOf
  <2>5. QED
    BY <2>3, <2>4
<1>2. QED
  BY <1>1, SerialInvariant, PTL

-----------------------------------------------------------------------------
(* SerialWallet implements Bank.                                           *)

LEMMA LeftOrigin ==
    ASSUME IInv, [SerialNext]_vars, NEW t \in Transfers
    PROVE  Left(t)' <=> Left(t) \/ DebitWrite(t)
<1>0. TypeOK /\ [Next]_vars
  BY SerialIsNext DEF IInv
<1>1. DebitWrite(t) => thread'[t].at = "encode"
  BY <1>0, ThreadMoves DEF DebitWrite
<1>2. Stops(From(t)) => thread'[t] = thread[t]
  <2>1. CASE thread'[t] # thread[t] /\ Stops(From(t))
    <3>1. \E s \in Transfers : PayPressed(s) \/ PayThread(s) \/ SendKeys(s)
      <4>1. ~ \E u \in Users : SerialStop(u)
        BY <1>0, <2>1, StopClears
      <4>2. [SerialNext]_vars /\ thread' # thread
        BY <2>1
      <4>3. QED
        BY <4>1, <4>2 DEF SerialNext, vars, app, SessionNext, SignIn, GetBalance, BalanceLoaded,
                          Snapshot, MainThread, CreditWrite, CreditEncode, CreditUpdate,
                          WriteDocument, Commit, SerialPay, ReceiveKeys, ReceiveKeysFetched,
                          ReceiveDropped
    <3>2. crashes' = crashes
      BY <3>1 DEF PayPressed, PayThread, DebitRead, DebitWrite, DebitEncode, DebitUpdate,
                  SendKeys, SendKeysFetched, SendKeysMissing
    <3>3. crashes' = crashes + 1 /\ crashes \in Nat
      BY <1>0, <2>1 DEF Stops, Crash, ListenerError, NewDevice, ProcessEnds, TypeOK
    <3>4. QED
      BY <3>2, <3>3
  <2>2. QED
    BY <2>1
<1> DEFINE Gone(a) == a \in {"encode", "update", "fetch", "done"}
<1>3. (Left(t) <=> Gone(thread[t].at)) /\ (Left(t)' <=> Gone(thread'[t].at))
  BY DEF Left
<1>4. CASE thread'[t] = thread[t]
  BY <1>1, <1>3, <1>4
<1>5. CASE DebitWrite(t)
  BY <1>1, <1>3, <1>5
<1>6. CASE ~DebitWrite(t) /\ thread'[t] # thread[t]
  <2>1. Gone(thread'[t].at) <=> Gone(thread[t].at)
    BY <1>0, <1>2, <1>6, ThreadOrigin
  <2>2. QED
    BY <1>3, <1>6, <2>1
<1>7. QED
  BY <1>4, <1>5, <1>6

LEMMA ArrivedIsLeft ==
    ASSUME IInv, OneReceipt, NEW t \in Transfers, Arrived(t)
    PROVE  Left(t)
<1>1. Amount(t) \in Nat /\ To(t) \in Users
  BY PaymentType DEF IInv
<1>2. ASSUME NEW op \in ReceiverOps, Has(op, t) PROVE Sent(t)
  <2>1. ASSUME NEW u \in Users, u = To(t), Queued(u, op, t) PROVE Sent(t)
    BY <2>1 DEF Queued, IInv, SentFirst
  <2>2. QED
    BY <1>1, <1>2, <2>1 DEF Has, IInv, SentFirst
<1>3. Busy(t) => Sent(t)
  BY <1>1 DEF Busy, IInv, SentFirst
<1>4. Sent(t)
  BY <1>2, <1>3 DEF Arrived, Busy, Receiving, ReceiverOps
<1>5. QED
  BY <1>4, SentIsDone DEF Left

\* A callback that is at work goes on, and ends only with its last statement or
\* with the process.
LEMMA SerialMainSteps ==
    ASSUME TypeOK, [SerialNext]_vars, NEW u \in Users, main[u].at # "idle"
    PROVE  \/ main'[u] = main[u]
           \/ SerialStop(u)
           \/ /\ main'[u].txn = main[u].txn
              /\ \/ CreditWrite(u) /\ main[u].at = "write" /\ main'[u].at = "encode"
                 \/ CreditEncode(u) /\ main[u].at = "encode" /\ main'[u].at = "credit"
                 \/ CreditUpdate(u) /\ main[u].at = "credit" /\ main'[u].at = "received"
                 \/ WriteDocument(u) /\ main[u].at \in {"send", "sent", "received", "delete"}
<1>1. ASSUME NEW v \in Users, MainThread(v), v # u PROVE main'[u] = main[u]
  BY <1>1, CreditMoves, DocumentMoves DEF MainThread
<1>2. ASSUME NEW v \in Users, SerialStop(v), v # u PROVE main'[u] = main[u]
  BY <1>2, StopClears
<1>3. ASSUME NEW t \in Transfers, SendKeys(t) \/ ReceiveKeys(t) PROVE main'[u] = main[u]
  <2>1. CASE main' = main
    BY <2>1
  <2>2. ASSUME NEW v, NEW m, main[v].at = "idle", main' = [main EXCEPT ![v] = m]
        PROVE  main'[u] = main[u]
    BY <2>2 DEF TypeOK
  <2>3. QED
    BY <1>3, <2>1, <2>2 DEF SendKeys, SendKeysFetched, SendKeysMissing, ReceiveKeys,
       ReceiveKeysFetched, ReceiveDropped, MainIdle, app
<1>4. ASSUME NEW v \in Users,
             SessionNext(v) \/ (\E i \in DOMAIN listeners[v] : Snapshot(v, i)) \/ Commit(v)
      PROVE  main' = main
  BY <1>4 DEF SessionNext, SignIn, GetBalance, BalanceLoaded, Snapshot, Commit, app
<1>5. ASSUME NEW t \in Transfers, SerialPay(t) \/ PayThread(t) PROVE main' = main
  BY <1>5 DEF SerialPay, PayPressed, PayThread, DebitRead, DebitWrite, DebitEncode, DebitUpdate
<1>6. MainThread(u) =>
           /\ main'[u].txn = main[u].txn
           /\ \/ CreditWrite(u) /\ main[u].at = "write" /\ main'[u].at = "encode"
              \/ CreditEncode(u) /\ main[u].at = "encode" /\ main'[u].at = "credit"
              \/ CreditUpdate(u) /\ main[u].at = "credit" /\ main'[u].at = "received"
              \/ WriteDocument(u) /\ main[u].at \in {"send", "sent", "received", "delete"}
  BY CreditMoves, DocumentMoves DEF MainThread
<1>7. UNCHANGED vars => main' = main
  BY DEF vars, app
<1>8. QED
  BY <1>1, <1>2, <1>3, <1>4, <1>5, <1>6, <1>7 DEF SerialNext

\* The step in which a payment arrives.
Arrives(t) ==
    /\ main[To(t)].txn = t
    /\ IF Amount(t) > 0 THEN CreditWrite(To(t))
                        ELSE WriteDocument(To(t)) /\ main[To(t)].at = "received"

LEMMA ArrivedOrigin ==
    ASSUME IInv, OneSession, OneReceipt, [SerialNext]_vars, NEW t \in Transfers
    PROVE  Arrived(t)' <=> Arrived(t) \/ Arrives(t)
<1> DEFINE u == To(t)
<1>0. /\ TypeOK /\ Owned /\ [Next]_vars /\ u \in Users /\ Amount(t) \in Nat
      /\ "credit" \in ReceiverOps /\ "received" \in ReceiverOps
  BY SerialIsNext, PaymentType DEF IInv, ReceiverOps
<1>1. /\ Has("credit", t) => Has("credit", t)'
      /\ Has("received", t) => Has("received", t)'
  BY <1>0, HasKept
<1>2. CASE Amount(t) > 0
  <2>1. /\ Arrived(t) <=> \/ Has("credit", t)
                          \/ main[u].at \in {"encode", "credit"} /\ main[u].txn = t
        /\ Arrived(t)' <=> \/ Has("credit", t)'
                           \/ main'[u].at \in {"encode", "credit"} /\ main'[u].txn = t
        /\ Arrives(t) <=> main[u].txn = t /\ CreditWrite(u)
    BY <1>2, XferSame DEF Arrived, Arrives
  <2>2. Has("credit", t)' => Arrived(t)
    <3>1. CASE CreditUpdate(u) /\ main[u].txn = t
      BY <1>0, <2>1, <3>1, CreditMoves
    <3>2. CASE ~(CreditUpdate(u) /\ main[u].txn = t)
      <4>1. ~(WriteDocument(u) /\ "credit" = main[u].at)
        BY <1>0, DocumentMoves
      <4>2. QED
        BY <1>0, <2>1, <3>2, <4>1, HasOrigin
    <3>3. QED
      BY <3>1, <3>2
  <2>3. main'[u].at \in {"encode", "credit"} /\ main'[u].txn = t => Arrived(t) \/ Arrives(t)
    <3>1. ASSUME main'[u].at \in {"encode", "credit"}, main'[u].txn = t,
                 main[u].at = "write", main'[u].at = "encode", main'[u].txn = main[u].txn
          PROVE  Arrives(t)
      <4>1. CreditWrite(u)
        BY <1>0, <3>1, SerialMainSteps, StopClears
      <4>2. QED
        BY <2>1, <3>1, <4>1
    <3>2. QED
      BY <1>0, <2>1, <3>1, MainOrigin
  <2>4. Arrived(t) => Arrived(t)'
    <3>1. CASE Has("credit", t)
      BY <1>1, <2>1, <3>1
    <3>2. CASE main[u].at \in {"encode", "credit"} /\ main[u].txn = t
      <4>1. CASE main'[u].at = "idle" \/ main'[u].txn # t
        <5>1. Handling(t)
          BY <3>2, ReceiptUnderWay DEF Busy, Receiving, ReceiverOps
        <5>2. ~SerialStop(u)
          BY <5>1 DEF SerialStop, AtRest
        <5>3. QED
          BY <1>0, <3>2, <4>1, <5>2, SerialMainSteps
      <4>2. CASE main'[u].at = "received" /\ CreditUpdate(u)
        <5>1. Enqueue(u, "credit", t, main[u].new) /\ "credit" \in Ops /\ main[u].new \in Int
          BY <1>0, <3>2, <4>2, CreditUpdateEnqueues
        <5>2. ASSUME NEW v \in Users, v = To(t) PROVE Handed(v, "credit", t)'
          BY <1>0, <5>1, <5>2, EnqueuedIsHanded
        <5>3. ASSUME NEW v \in Users, v = To(t), Handed(v, "credit", t)'
              PROVE  Has("credit", t)'
          BY <5>3, XferSame DEF Handed, Has, Queued
        <5>4. QED
          BY <1>0, <2>1, <5>2, <5>3
      <4>3. CASE main'[u].at \in {"encode", "credit"} /\ main'[u].txn = t
        BY <2>1, <4>3
      <4>4. QED
        BY <1>0, <3>2, <4>1, <4>2, <4>3, SerialMainSteps, StopClears
    <3>3. QED
      BY <2>1, <3>1, <3>2
  <2>5. Arrives(t) => Arrived(t)'
    BY <1>0, <2>1, CreditMoves
  <2>6. QED
    BY <2>1, <2>2, <2>3, <2>4, <2>5
<1>3. CASE ~(Amount(t) > 0)
  <2>1. /\ Arrived(t) <=> Has("received", t)
        /\ Arrived(t)' <=> Has("received", t)'
        /\ Arrives(t) <=> main[u].txn = t /\ WriteDocument(u) /\ main[u].at = "received"
    BY <1>3, XferSame DEF Arrived, Arrives
  <2>2. Has("received", t)' => Arrived(t) \/ Arrives(t)
    <3>1. "received" # "credit"
      OBVIOUS
    <3>2. QED
      BY <1>0, <2>1, <3>1, HasOrigin
  <2>3. Arrives(t) => Has("received", t)'
    <3>1. SUFFICES ASSUME main[u].txn = t, WriteDocument(u), main[u].at = "received"
                   PROVE  Has("received", t)'
      BY <2>1
    <3>2. Enqueue(u, "received", t, 0) /\ "received" \in Ops
      BY <1>0, <3>1, WriteDocumentEnqueues
    <3>3. ASSUME NEW v \in Users, v = To(t) PROVE Handed(v, "received", t)'
      BY <1>0, <3>2, <3>3, EnqueuedIsHanded
    <3>4. ASSUME NEW v \in Users, v = To(t), Handed(v, "received", t)'
          PROVE  Has("received", t)'
      BY <3>4, XferSame DEF Handed, Has, Queued
    <3>5. QED
      BY <1>0, <3>3, <3>4
  <2>4. QED
    BY <1>1, <2>1, <2>2, <2>3
<1>4. QED
  BY <1>2, <1>3

LEMMA AccountOrigin ==
    ASSUME AsMeant, IInv, SerialInv, [SerialNext]_vars, NEW u \in Users
    PROVE  \/ Account(u)' = Account(u)
           \/ /\ CreditWrite(u) /\ main[u].at = "write"
              /\ Account(u)' = Account(u) + Amount(main[u].txn)
           \/ \E t \in Transfers : /\ DebitWrite(t) /\ From(t) = u
                                   /\ Account(u)' = Account(u) - Amount(t)
<1>0. TypeOK /\ OneSession /\ LoadedFirst /\ InStep
  BY DEF IInv, SerialInv
<1>1. CASE SerialStop(u)
  <2>1. Account(u)' = local[u]
    BY <1>0, <1>1, StopClears DEF Account
  <2>2. \A t \in Transfers : ~Handling(t)
    BY <1>1 DEF SerialStop, AtRest
  <2>3. main[u].at \notin Receiving
    BY <2>2, ReceivingIsBusy, ReceiptUnderWay DEF SerialInv
  <2>4. ~Between(u)
    BY <2>2, <2>3 DEF Between, Handling, Receiving, ReceiverOps
  <2>5. QED
    BY <1>0, <2>1, <2>4 DEF InStep, Account
<1>2. CASE ~Loaded(u)
  <2>1. main[u].at = "idle" /\ \A t \in Transfers : From(t) = u => ~Working(t)
    BY <1>0, <1>2 DEF LoadedFirst
  <2>2. local'[u] = local[u]
    BY <1>0, <2>1, LocalOrigin DEF Working
  <2>3. CASE BalanceLoaded(u)
    <3>1. /\ answers[u] # <<>> /\ curr_balance'[u] = Head(answers[u])
      BY <1>0, <2>3 DEF BalanceLoaded, TypeOK
    <3>2. answers[u] \in Seq(Int) /\ Len(answers[u]) = 1
      BY <1>0, <3>1, SessionParts DEF TypeOK
    <3>3. curr_balance'[u] = local[u]
      BY <1>0, <3>1, <3>2 DEF OneSession
    <3>4. QED
      BY <1>2, <2>2, <3>3 DEF Account
  <2>4. CASE ~BalanceLoaded(u)
    BY <1>0, <1>2, <2>2, <2>4, LoadedKept DEF Account
  <2>5. QED
    BY <2>3, <2>4
<1>3. CASE Loaded(u) /\ ~SerialStop(u)
  <2>1. Account(u) = curr_balance[u] /\ Account(u)' = curr_balance'[u]
    BY <1>0, <1>3, LoadedKept DEF Account
  <2>2. ~SignIn(u) /\ ~BalanceLoaded(u)
    <3>1. sessions[u] = 1 /\ answers[u] = <<>>
      BY <1>0, <1>3, SessionParts
    <3>2. QED
      BY <3>1 DEF SignIn, BalanceLoaded, AsMeant
  <2>3. ASSUME main[u].at = "write"
        PROVE  main[u].new = curr_balance[u] + Amount(main[u].txn)
    BY <1>0, <2>3 DEF InStep
  <2>4. ASSUME NEW t \in Transfers, thread[t].at = "write"
        PROVE  thread[t].new = curr_balance[From(t)] - Amount(t)
    BY <1>0, <2>4 DEF InStep
  <2>5. QED
    BY <1>0, <1>3, <2>1, <2>2, <2>3, <2>4, MemoryOrigin
<1>4. QED
  BY <1>1, <1>2, <1>3

\* A payment leaves.
LEMMA DebitIsLeave ==
    ASSUME AsMeant, IInv, SerialInv, [SerialNext]_vars, NEW t \in Transfers, DebitWrite(t)
    PROVE  BankOf!Leave(t)
<1>0. TypeOK /\ OnePayment /\ OneReceipt /\ OneSession /\ From(t) \in Users
  BY PaymentType DEF IInv, SerialInv
<1>1. Working(t) /\ thread[t].at = "write" /\ ~Left(t)
  BY DEF DebitWrite, Working, Left
<1>2. /\ \A u \in Users : ~CreditWrite(u) /\ main[u].at # "received"
      /\ \A s \in Transfers : DebitWrite(s) => s = t
  <2>1. ASSUME NEW u \in Users PROVE ~CreditWrite(u) /\ main[u].at # "received"
    <3>1. main[u].at \notin Receiving
      BY <1>0, <1>1, WorkingAlone
    <3>2. QED
      BY <3>1 DEF CreditWrite, Receiving, ReceiverOps
  <2>2. ASSUME NEW s \in Transfers, DebitWrite(s) PROVE s = t
    <3>1. Working(s)
      BY <2>2 DEF DebitWrite, Working
    <3>2. QED
      BY <1>0, <1>1, <3>1, WorkingAlone
  <2>3. QED
    BY <2>1, <2>2
<1>3. \A s \in Transfers : (Arrived(s)' <=> Arrived(s)) /\ (Left(s)' <=> Left(s) \/ s = t)
  <2>1. ASSUME NEW s \in Transfers PROVE ~Arrives(s)
    BY <1>0, <1>2, PaymentType DEF Arrives
  <2>2. ASSUME NEW s \in Transfers PROVE Left(s)' <=> Left(s) \/ s = t
    BY <1>2, LeftOrigin
  <2>3. QED
    BY <1>0, <2>1, <2>2, ArrivedOrigin
<1>4. ~Arrived(t)
  BY <1>0, <1>1, ArrivedIsLeft
<1>5. /\ \A u \in Users : u # From(t) => Account(u)' = Account(u)
      /\ Account(From(t))' = Account(From(t)) - Amount(t)
  <2>1. ASSUME NEW u \in Users PROVE Account(u)' = Account(u) \/
                  (From(t) = u /\ Account(u)' = Account(u) - Amount(t))
    BY <1>2, AccountOrigin
  <2>2. ASSUME NEW u \in Users, u = From(t) PROVE Account(u)' = Account(u) - Amount(t)
    <3>1. Loaded(u) /\ ~SerialStop(u)
      BY <1>1, <2>2, StopAtRest DEF SerialInv, LoadedFirst
    <3>2. Account(u) = curr_balance[u] /\ Account(u)' = curr_balance'[u]
      BY <1>0, <3>1, LoadedKept DEF Account
    <3>3. curr_balance'[u] = thread[t].new
      BY <1>0, <2>2 DEF DebitWrite, TypeOK
    <3>4. thread[t].new = curr_balance[u] - Amount(t)
      BY <1>1, <2>2 DEF SerialInv, InStep
    <3>5. QED
      BY <3>2, <3>3, <3>4
  <2>3. From(t)' = From(t)
    BY XferSame
  <2>4. Account(From(t))' = Account(From(t)) - Amount(t)
    BY <1>0, <2>2, <2>3 DEF Account, Loaded
  <2>5. QED
    BY <2>1, <2>4
<1>6. Account(From(t)) >= Amount(t)
  <2>1. thread[t].new >= 0
    BY <1>1 DEF IInv, Solvent
  <2>2. thread[t].new = curr_balance[From(t)] - Amount(t) /\ Loaded(From(t))
    BY <1>1 DEF SerialInv, InStep, LoadedFirst
  <2>3. curr_balance[From(t)] \in Int /\ Amount(t) \in Nat
    BY <1>0, PaymentType DEF TypeOK
  <2>4. QED
    BY <2>1, <2>2, <2>3 DEF Account
<1>7. xfer' = xfer
  BY SerialIsNext, XferFixed
<1>8. QED
  BY <1>0, <1>1, <1>3, <1>4, <1>5, <1>6, <1>7 DEF BankOf!Leave, From, Amount

\* A payment arrives.
LEMMA ArrivesIsArrive ==
    ASSUME AsMeant, IInv, SerialInv, [SerialNext]_vars, NEW t \in Transfers, Arrives(t)
    PROVE  BankOf!Arrive(t)
<1>0. /\ TypeOK /\ OnePayment /\ OneReceipt /\ OneSession /\ Received(t)
      /\ \A s \in Transfers : To(s) \in Users /\ Amount(s) \in Nat
  BY PaymentType DEF IInv, SerialInv, OneReceipt
<1>1. ASSUME NEW s \in Transfers, Arrives(s)
      PROVE  Busy(s) /\ main[To(s)].at = IF Amount(s) > 0 THEN "write" ELSE "received"
  <2>1. main[To(s)].at = IF Amount(s) > 0 THEN "write" ELSE "received"
    BY <1>1 DEF Arrives, CreditWrite
  <2>2. QED
    BY <1>1, <2>1 DEF Arrives, Busy, Receiving, ReceiverOps
<1>2. Busy(t) /\ thread[t].at = "done"
  BY <1>0, <1>1, ReceiptUnderWay
<1>3. /\ \A s \in Transfers : ~DebitWrite(s)
      /\ \A s \in Transfers : Arrives(s) => s = t
      /\ \A u \in Users : u # To(t) => ~CreditWrite(u)
  <2>1. ASSUME NEW s \in Transfers PROVE ~DebitWrite(s)
    <3>1. ~Working(s)
      BY <1>0, <1>2, ReceivingAlone
    <3>2. QED
      BY <3>1 DEF Working, DebitWrite
  <2>2. ASSUME NEW s \in Transfers, Arrives(s) PROVE s = t
    BY <1>0, <1>1, <1>2, <2>2, ReceivingAlone
  <2>3. ASSUME NEW u \in Users, u # To(t) PROVE ~CreditWrite(u)
    <3>1. main[u].at \notin Receiving
      BY <1>0, <1>2, <2>3, ReceivingAlone
    <3>2. QED
      BY <3>1 DEF CreditWrite, Receiving
  <2>4. QED
    BY <2>1, <2>2, <2>3
<1>4. \A s \in Transfers : (Arrived(s)' <=> Arrived(s) \/ s = t) /\ (Left(s)' <=> Left(s))
  <2>1. ASSUME NEW s \in Transfers PROVE Arrived(s)' <=> Arrived(s) \/ s = t
    BY <1>0, <1>3, ArrivedOrigin
  <2>2. ASSUME NEW s \in Transfers PROVE Left(s)' <=> Left(s)
    BY <1>3, LeftOrigin
  <2>3. QED
    BY <2>1, <2>2
<1>5. Left(t) /\ ~Arrived(t)
  <2>1. Left(t)
    BY <1>2 DEF Left
  <2>2. CASE Amount(t) > 0
    <3>1. main[To(t)].at = "write"
      BY <1>1, <2>2
    <3>2. ~Has("credit", t)
      BY <1>0, <1>2, <3>1 DEF Received
    <3>3. QED
      BY <2>1, <2>2, <3>1, <3>2 DEF Arrived
  <2>3. CASE ~(Amount(t) > 0)
    <3>1. main[To(t)].at = "received"
      BY <1>1, <2>3
    <3>2. ~Has("received", t)
      BY <1>0, <1>2, <3>1 DEF Received
    <3>3. QED
      BY <2>1, <2>3, <3>2 DEF Arrived
  <2>4. QED
    BY <2>2, <2>3
<1>6. /\ \A u \in Users : u # To(t) => Account(u)' = Account(u)
      /\ Account(To(t))' = Account(To(t)) + Amount(t)
  <2>1. ASSUME NEW u \in Users, u # To(t) PROVE Account(u)' = Account(u)
    BY <1>3, <2>1, AccountOrigin
  <2>2. ASSUME NEW u \in Users, u = To(t) PROVE Account(u)' = Account(u) + Amount(t)
    <3>1. Loaded(u) /\ main[u].at \in {"write", "received"} /\ main[u].txn = t
      BY <1>1, <2>2 DEF SerialInv, LoadedFirst, Arrives
    <3>2. ~SerialStop(u)
      BY <1>0, <1>2, ReceiptUnderWay DEF SerialStop, AtRest
    <3>3. Account(u) = curr_balance[u] /\ Account(u)' = curr_balance'[u]
      BY <1>0, <3>1, <3>2, LoadedKept DEF Account
    <3>4. CASE Amount(t) > 0
      <4>1. CreditWrite(u) /\ main[u].at = "write"
        BY <1>1, <2>2, <3>4 DEF Arrives
      <4>2. curr_balance'[u] = main[u].new
        BY <1>0, <4>1 DEF CreditWrite, TypeOK
      <4>3. main[u].new = curr_balance[u] + Amount(t)
        BY <3>1, <4>1 DEF SerialInv, InStep
      <4>4. QED
        BY <3>3, <4>2, <4>3
    <3>5. CASE ~(Amount(t) > 0)
      <4>1. WriteDocument(u) /\ Amount(t) = 0
        BY <1>0, <2>2, <3>5 DEF Arrives
      <4>2. curr_balance' = curr_balance
        BY <4>1 DEF WriteDocument
      <4>3. curr_balance[u] \in Int
        BY <1>0 DEF TypeOK
      <4>4. QED
        BY <3>3, <4>1, <4>2, <4>3
    <3>6. QED
      BY <3>4, <3>5
  <2>3. To(t)' = To(t)
    BY XferSame
  <2>4. Account(To(t))' = Account(To(t)) + Amount(t)
    BY <1>0, <2>2, <2>3 DEF Account, Loaded
  <2>5. QED
    BY <2>1, <2>4
<1>7. xfer' = xfer
  BY SerialIsNext, XferFixed
<1>8. QED
  BY <1>0, <1>4, <1>5, <1>6, <1>7 DEF BankOf!Arrive, To, Amount

LEMMA BankStep ==
    ASSUME AsMeant, IInv, SerialInv, [SerialNext]_vars
    PROVE  \/ BankOf!Next
           \/ /\ \A u \in Users : Account(u)' = Account(u)
              /\ \A t \in Transfers : (Left(t)' <=> Left(t)) /\ (Arrived(t)' <=> Arrived(t))
              /\ xfer' = xfer
<1>1. CASE \E t \in Transfers : DebitWrite(t)
  BY <1>1, DebitIsLeave DEF BankOf!Next
<1>2. CASE \E t \in Transfers : Arrives(t)
  BY <1>2, ArrivesIsArrive DEF BankOf!Next
<1>3. CASE \A t \in Transfers : ~DebitWrite(t) /\ ~Arrives(t)
  <2>1. OneSession /\ OneReceipt
    BY DEF SerialInv
  <2>2. ASSUME NEW u \in Users, CreditWrite(u) PROVE FALSE
    <3>1. main[u].at = "write"
      BY <2>2 DEF CreditWrite
    <3>2. /\ main[u].txn \in Transfers /\ To(main[u].txn) = u /\ Busy(main[u].txn)
      BY <3>1, ReceivingIsBusy DEF Receiving
    <3>3. Amount(main[u].txn) > 0
      BY <2>1, <3>1, <3>2 DEF OneReceipt, Received
    <3>4. QED
      BY <1>3, <2>2, <3>2, <3>3 DEF Arrives
  <2>3. \A u \in Users : Account(u)' = Account(u)
    BY <1>3, <2>2, AccountOrigin
  <2>4. \A t \in Transfers : (Left(t)' <=> Left(t)) /\ (Arrived(t)' <=> Arrived(t))
    BY <1>3, <2>1, LeftOrigin, ArrivedOrigin
  <2>5. QED
    BY <2>3, <2>4, SerialIsNext, XferFixed
<1>4. QED
  BY <1>1, <1>2, <1>3

\* Payments that do not overlap move money as module Bank does: the threads,
\* the two devices' queues and the restarts add nothing to it and lose nothing.
THEOREM ImplementsBank ==
    ASSUME AsMeant
    PROVE  SerialSpec => BankSpec
<1> DEFINE accounts == [u \in Users |-> Account(u)]
           between == {t \in Transfers : Left(t) /\ ~Arrived(t)}
           complete == {t \in Transfers : Arrived(t)}
<1>1. Init => BankOf!Init
  <2> SUFFICES ASSUME Init PROVE BankOf!Init
    OBVIOUS
  <2>1. \A u \in Users : Account(u) = InitBalance[u]
    BY DEF Init, Account, Loaded
  <2>2. accounts = InitBalance
    BY <2>1, BalanceAssumption
  <2>3. \A t \in Transfers : ~Left(t)
    BY DEF Init, Left
  <2>4. \A t \in Transfers : ~Arrived(t)
    <3>1. IInv /\ OneReceipt
      BY InitInvariant, InitSerialInv DEF SerialInv
    <3>2. QED
      BY <2>3, <3>1, ArrivedIsLeft
  <2>5. QED
    BY <2>2, <2>3, <2>4 DEF BankOf!Init
<1>2. IInv /\ SerialInv /\ [SerialNext]_vars
        => [BankOf!Next]_<<accounts, between, complete, xfer>>
  <2> SUFFICES ASSUME IInv, SerialInv, [SerialNext]_vars, ~BankOf!Next
               PROVE  UNCHANGED <<accounts, between, complete, xfer>>
    BY DEF accounts, between, complete
  <2>1. /\ \A u \in Users : Account(u)' = Account(u)
        /\ \A t \in Transfers : (Left(t)' <=> Left(t)) /\ (Arrived(t)' <=> Arrived(t))
        /\ xfer' = xfer
    BY BankStep
  <2>2. accounts' = accounts
    BY <2>1
  <2>3. between' = between /\ complete' = complete
    BY <2>1
  <2>4. QED
    BY <2>1, <2>2, <2>3
<1>3. QED
  BY <1>1, <1>2, SerialInvariant, PTL DEF SerialSpec, BankSpec, BankOf!Spec

-----------------------------------------------------------------------------
(* Sums over a finite set.  What MapThenSumSet computes is a function on   *)
(* the subsets; what holds of a subset once it holds of every smaller one  *)
(* holds of all, or there would be a minimal one of which it does not.     *)

Sum(f, S) == MapThenSumSet(LAMBDA u : f[u], S)

Pick(s) == CHOOSE x \in s : TRUE

Sums(f, S, g) ==
    g = [s \in SUBSET S |-> IF s = {} THEN 0 ELSE f[Pick(s)] + g[s \ {Pick(s)}]]

LEMMA SumIs ==
    ASSUME NEW f, NEW S
    PROVE  Sum(f, S) = (CHOOSE g : Sums(f, S, g))[S]
BY DEF Sum, MapThenSumSet, MapThenFoldSet, Sums, Pick

LEMMA MinimalSet ==
    ASSUME NEW S, IsFiniteSet(S), NEW Bad \in SUBSET SUBSET S, Bad # {}
    PROVE  \E T \in Bad : \A R \in Bad : ~(R \subseteq T /\ R # T)
<1>1. IsWellFoundedOn(StrictSubsetOrdering(S), FiniteSubsetsOf(S))
  BY FS_StrictSubsetOrderingWellFounded
<1>2. FiniteSubsetsOf(S) = SUBSET S
  BY FS_FiniteSubsetsOfFinite
<1>3. \E T \in Bad : \A R \in Bad : <<R, T>> \notin StrictSubsetOrdering(S)
  BY <1>1, <1>2, WFMin
<1>4. QED
  BY <1>3 DEF StrictSubsetOrdering

LEMMA Picked ==
    ASSUME NEW s, s # {}
    PROVE  /\ Pick(s) \in s
           /\ s \ {Pick(s)} \subseteq s /\ s \ {Pick(s)} # s
<1>1. \E x \in s : TRUE
  OBVIOUS
<1>2. Pick(s) \in s
  BY <1>1 DEF Pick
<1>3. QED
  BY <1>2

LEMMA SumsUnique ==
    ASSUME NEW S, IsFiniteSet(S), NEW f, NEW T \in SUBSET S, NEW R \in SUBSET S,
           NEW g, NEW h, Sums(f, T, g), Sums(f, R, h),
           NEW s \in SUBSET T, s \in SUBSET R
    PROVE  g[s] = h[s]
<1> DEFINE Bad == {r \in SUBSET S : r \subseteq T /\ r \subseteq R /\ g[r] # h[r]}
<1> SUFFICES ASSUME s \in Bad PROVE FALSE
  OBVIOUS
<1>1. PICK r \in Bad : \A q \in Bad : ~(q \subseteq r /\ q # r)
  <2>1. Bad \in SUBSET SUBSET S /\ Bad # {}
    OBVIOUS
  <2> HIDE DEF Bad
  <2>2. QED
    BY <2>1, MinimalSet
<1>2. r \in SUBSET T /\ r \in SUBSET R
  OBVIOUS
<1>3. /\ g[r] = IF r = {} THEN 0 ELSE f[Pick(r)] + g[r \ {Pick(r)}]
      /\ h[r] = IF r = {} THEN 0 ELSE f[Pick(r)] + h[r \ {Pick(r)}]
  BY <1>2 DEF Sums
<1>4. r # {}
  BY <1>3
<1>5. r \ {Pick(r)} \notin Bad
  BY <1>1, <1>4, Picked
<1>6. g[r \ {Pick(r)}] = h[r \ {Pick(r)}]
  BY <1>2, <1>5
<1>7. QED
  BY <1>3, <1>6

LEMMA SumsExist ==
    ASSUME NEW S, IsFiniteSet(S), NEW f
    PROVE  \E g : Sums(f, S, g)
<1> DEFINE Bad == {T \in SUBSET S : ~ \E g : Sums(f, T, g)}
<1> SUFFICES ASSUME S \in Bad PROVE FALSE
  OBVIOUS
<1>1. PICK T \in Bad : \A R \in Bad : ~(R \subseteq T /\ R # T)
  <2>1. Bad \in SUBSET SUBSET S /\ Bad # {}
    OBVIOUS
  <2> HIDE DEF Bad
  <2>2. QED
    BY <2>1, MinimalSet
<1> DEFINE G(R) == CHOOSE g : Sums(f, R, g)
           Rest(s) == s \ {Pick(s)}
           h == [s \in SUBSET T |-> IF s = {} THEN 0 ELSE f[Pick(s)] + G(Rest(s))[Rest(s)]]
<1>2. ASSUME NEW s \in SUBSET T, s # {}
      PROVE  Rest(s) \in SUBSET T /\ Sums(f, Rest(s), G(Rest(s)))
  <2>1. Rest(s) \subseteq s /\ Rest(s) # s
    BY <1>2, Picked
  <2>2. Rest(s) \in SUBSET S /\ Rest(s) \subseteq T /\ Rest(s) # T
    BY <1>2, <2>1
  <2>3. \E g : Sums(f, Rest(s), g)
    BY <1>1, <2>2
  <2>4. QED
    BY <2>2, <2>3
<1>3. ASSUME NEW s \in SUBSET T, s # {}
      PROVE  h[Rest(s)] = G(Rest(s))[Rest(s)]
  <2> DEFINE r == Rest(s)
  <2>1. r \in SUBSET T /\ Sums(f, r, G(r))
    BY <1>2, <1>3
  <2>2. /\ h[r] = IF r = {} THEN 0 ELSE f[Pick(r)] + G(Rest(r))[Rest(r)]
        /\ G(r)[r] = IF r = {} THEN 0 ELSE f[Pick(r)] + G(r)[Rest(r)]
    <3>1. h[r] = IF r = {} THEN 0 ELSE f[Pick(r)] + G(Rest(r))[Rest(r)]
      BY <2>1
    <3>2. G(r)[r] = IF r = {} THEN 0 ELSE f[Pick(r)] + G(r)[Rest(r)]
      <4> HIDE DEF G, r
      <4>1. r \in SUBSET r
        OBVIOUS
      <4>2. G(r) = [q \in SUBSET r |-> IF q = {} THEN 0
                                      ELSE f[Pick(q)] + G(r)[q \ {Pick(q)}]]
        BY <2>1 DEF Sums
      <4>3. QED
        BY <4>1, <4>2
    <3>3. QED
      BY <3>1, <3>2
  <2> HIDE DEF h
  <2>3. CASE r = {}
    BY <2>2, <2>3
  <2>4. CASE r # {}
    <3>1. Rest(r) \in SUBSET T /\ Sums(f, Rest(r), G(Rest(r))) /\ Rest(r) \in SUBSET r
      BY <1>2, <2>1, <2>4, Picked
    <3>2. r \in SUBSET S /\ Rest(r) \in SUBSET S
      BY <2>1, <3>1
    <3> HIDE DEF G, Rest, r
    <3>3. G(r)[Rest(r)] = G(Rest(r))[Rest(r)]
      BY <2>1, <3>1, <3>2, SumsUnique
    <3>4. QED
      BY <2>2, <2>4, <3>3 DEF r
  <2>5. QED
    BY <2>3, <2>4
<1>4. Sums(f, T, h)
  <2>1. h = [s \in SUBSET T |-> IF s = {} THEN 0 ELSE f[Pick(s)] + h[Rest(s)]]
    <3>1. \A s \in SUBSET T : s # {} => h[Rest(s)] = G(Rest(s))[Rest(s)]
      BY <1>3
    <3> DEFINE H == h
    <3>2. H = [s \in SUBSET T |-> IF s = {} THEN 0 ELSE f[Pick(s)] + G(Rest(s))[Rest(s)]]
      OBVIOUS
    <3>3. \A s \in SUBSET T : s # {} => H[Rest(s)] = G(Rest(s))[Rest(s)]
      BY <3>1
    <3> HIDE DEF H, G, Rest
    <3>4. H = [s \in SUBSET T |-> IF s = {} THEN 0 ELSE f[Pick(s)] + H[Rest(s)]]
      BY <3>2, <3>3
    <3>5. QED
      BY <3>4 DEF H
  <2> HIDE DEF h
  <2>2. QED
    BY <2>1 DEF Sums
<1>5. QED
  BY <1>4

\* e is f with d more at x.
Raised(f, e, S, x, d) ==
    /\ f \in [S -> Int] /\ x \in S /\ d \in Int
    /\ e[x] = f[x] + d /\ \A y \in S \ {x} : e[y] = f[y]

\* One term more or less changes the sum by as much.
LEMMA SumChange ==
    ASSUME NEW f, NEW e, NEW S, NEW x, NEW d, IsFiniteSet(S), Raised(f, e, S, x, d)
    PROVE  Sum(f, S) \in Int /\ Sum(e, S) = Sum(f, S) + d
<1>0. /\ f \in [S -> Int] /\ x \in S /\ d \in Int
      /\ e[x] = f[x] + d /\ \A y \in S \ {x} : e[y] = f[y]
  BY DEF Raised
<1> DEFINE g == CHOOSE g : Sums(f, S, g)
           h == CHOOSE h : Sums(e, S, h)
<1>1. Sums(f, S, g) /\ Sums(e, S, h)
  <2>1. (\E k : Sums(f, S, k)) /\ (\E k : Sums(e, S, k))
    BY SumsExist
  <2>2. QED
    BY <2>1
<1>2. Sum(f, S) = g[S] /\ Sum(e, S) = h[S]
  BY SumIs
<1> HIDE DEF g, h
<1> DEFINE Right(s) == g[s] \in Int /\ h[s] = IF x \in s THEN g[s] + d ELSE g[s]
           Bad == {s \in SUBSET S : ~Right(s)}
<1>3. Right(S)
  <2> SUFFICES ASSUME S \in Bad PROVE FALSE
    OBVIOUS
  <2>1. PICK T \in Bad : \A R \in Bad : ~(R \subseteq T /\ R # T)
    <3>1. Bad \in SUBSET SUBSET S /\ Bad # {}
      OBVIOUS
    <3> HIDE DEF Bad
    <3>2. QED
      BY <3>1, MinimalSet
  <2>2. T \in SUBSET S /\ ~Right(T)
    BY <2>1
  <2>3. /\ g[T] = IF T = {} THEN 0 ELSE f[Pick(T)] + g[T \ {Pick(T)}]
        /\ h[T] = IF T = {} THEN 0 ELSE e[Pick(T)] + h[T \ {Pick(T)}]
    BY <1>1, <2>2 DEF Sums
  <2>4. T # {}
    <3>1. T = {} => Right(T)
      BY <2>3
    <3>2. QED
      BY <2>2, <3>1
  <2>5. Pick(T) \in T /\ Pick(T) \in S
    BY <2>2, <2>4, Picked
  <2>6. Right(T \ {Pick(T)})
    <3>1. /\ T \ {Pick(T)} \in SUBSET S
          /\ T \ {Pick(T)} \subseteq T /\ T \ {Pick(T)} # T
      BY <2>2, <2>4, Picked
    <3>2. T \ {Pick(T)} \notin Bad
      BY <2>1, <3>1
    <3>3. QED
      BY <3>1, <3>2
  <2>7. CASE Pick(T) = x
    <3>1. /\ g[T] = f[x] + g[T \ {x}] /\ h[T] = (f[x] + d) + h[T \ {x}]
          /\ x \in T /\ x \notin T \ {x} /\ f[x] \in Int
      BY <1>0, <2>3, <2>4, <2>5, <2>7
    <3>2. g[T \ {x}] \in Int /\ h[T \ {x}] = g[T \ {x}]
      BY <2>6, <2>7
    <3>3. g[T] \in Int /\ h[T] = g[T] + d
      BY <1>0, <3>1, <3>2
    <3>4. QED
      BY <2>2, <3>1, <3>3
  <2>8. CASE Pick(T) # x
    <3> DEFINE p == Pick(T)
               r == T \ {p}
    <3>1. /\ g[T] = f[p] + g[r] /\ h[T] = f[p] + h[r]
          /\ f[p] \in Int /\ (x \in T <=> x \in r)
      BY <1>0, <2>3, <2>4, <2>5, <2>8
    <3>2. g[r] \in Int /\ h[r] = IF x \in r THEN g[r] + d ELSE g[r]
      BY <2>6
    <3> HIDE DEF p, r
    <3>3. g[T] \in Int /\ h[T] = IF x \in T THEN g[T] + d ELSE g[T]
      BY <1>0, <3>1, <3>2
    <3>4. QED
      BY <2>2, <3>3
  <2>9. QED
    BY <2>7, <2>8
<1>4. QED
  BY <1>0, <1>2, <1>3

-----------------------------------------------------------------------------
(* Money is conserved.                                                     *)

\* A payment that has left one account and not reached the other.
Moving(t) == Left(t) /\ ~Arrived(t)

accounts == [u \in Users |-> Account(u)]

\* What the accounts hold and what is moving is what they held at the start.
MoneyKept ==
    \/ /\ \A t \in Transfers : ~Moving(t)
       /\ Sum(accounts, Users) = Sum(InitBalance, Users)
    \/ \E t \in Transfers :
          /\ Moving(t)
          /\ Sum(accounts, Users) + Amount(t) = Sum(InitBalance, Users)

LEMMA MovingUnderWay ==
    ASSUME IInv, NEW t \in Transfers, Moving(t)
    PROVE  /\ UnderWay(t)
           /\ queue[To(t)] = <<>> => Handling(t)
<1>1. Deleted(t) => Arrived(t)
  BY DEF IInv, ReceivedFirst, CreditFirst, Arrived, Has
<1>2. committed[t]["delete"] = 0
  BY <1>1, DeletedHas DEF Moving, Deleted
<1>3. queue[To(t)] = <<>> => ~Has("delete", t)
  BY <1>2 DEF Has, Queued
<1>4. QED
  BY <1>2, <1>3 DEF Moving, Left, UnderWay, Handling

LEMMA MovingAlone ==
    ASSUME IInv, SerialInv, NEW s \in Transfers, NEW t \in Transfers, Moving(s), Moving(t)
    PROVE  s = t
BY MovingUnderWay DEF SerialInv, OnePayment

LEMMA AccountsType == TypeOK => accounts \in [Users -> Int]
BY DEF TypeOK, accounts, Account

LEMMA MovingAloneNext ==
    (IInv /\ SerialInv => \A s, t \in Transfers : Moving(s) /\ Moving(t) => s = t)'
<1>1. IInv /\ SerialInv => \A s, t \in Transfers : Moving(s) /\ Moving(t) => s = t
  BY MovingAlone
<1>2. QED
  BY <1>1, PTL

LEMMA BalancesMove ==
    ASSUME IsFiniteSet(Users), accounts \in [Users -> Int], NEW u \in Users, NEW d \in Int,
           accounts' = [accounts EXCEPT ![u] = @ + d]
    PROVE  Sum(accounts, Users) \in Int /\ Sum(accounts', Users) = Sum(accounts, Users) + d
<1>1. Raised(accounts, accounts', Users, u, d)
  BY DEF Raised
<1>2. QED
  BY <1>1, SumChange

LEMMA MoneyKeptStep ==
    ASSUME AsMeant, IsFiniteSet(Users), IInv, SerialInv, IInv', SerialInv',
           [SerialNext]_vars, MoneyKept
    PROVE  MoneyKept'
<1>0. /\ \A t \in Transfers : Amount(t)' = Amount(t) /\ Amount(t) \in Int
                              /\ From(t) \in Users /\ To(t) \in Users
      /\ accounts \in [Users -> Int]
  BY XferSame, PaymentType, AccountsType DEF IInv
<1>1. ASSUME NEW t \in Transfers, BankOf!Leave(t) PROVE MoneyKept'
  <2>1. /\ accounts' = [accounts EXCEPT ![From(t)] = @ + (0 - Amount(t))]
        /\ \A s \in Transfers : Moving(s) => Moving(s)'
        /\ ~Moving(t) /\ Moving(t)'
    <3>1. accounts' = [accounts EXCEPT ![From(t)] = @ - Amount(t)]
      BY <1>1 DEF BankOf!Leave, accounts, From, Amount
    <3>2. accounts[From(t)] \in Int
      BY <1>0
    <3>3. accounts[From(t)] - Amount(t) = accounts[From(t)] + (0 - Amount(t))
      BY <1>0, <3>2
    <3>4. /\ \A s \in Transfers : Moving(s) => Moving(s)'
          /\ ~Moving(t) /\ Moving(t)'
      BY <1>1 DEF BankOf!Leave, Moving
    <3>5. QED
      BY <3>1, <3>3, <3>4
  <2>2. \A s \in Transfers : ~Moving(s)
    BY <2>1, MovingAloneNext
  <2>3. Sum(accounts, Users) = Sum(InitBalance, Users)
    BY <2>2 DEF MoneyKept
  <2>4. Sum(accounts', Users) = Sum(accounts, Users) + (0 - Amount(t))
        /\ Sum(accounts, Users) \in Int
    <3>1. From(t) \in Users /\ 0 - Amount(t) \in Int
      BY <1>0
    <3>2. accounts \in [Users -> Int]
      BY <1>0
    <3>3. accounts' = [accounts EXCEPT ![From(t)] = @ + (0 - Amount(t))]
      BY <2>1
    <3>4. QED
      BY <3>1, <3>2, <3>3, BalancesMove
  <2>5. Sum(accounts', Users) + Amount(t) = Sum(InitBalance, Users)
    BY <1>0, <2>3, <2>4
  <2>6. QED
    BY <1>0, <2>1, <2>5 DEF MoneyKept
<1>2. ASSUME NEW t \in Transfers, BankOf!Arrive(t) PROVE MoneyKept'
  <2>1. /\ accounts' = [accounts EXCEPT ![To(t)] = @ + Amount(t)]
        /\ Moving(t)
        /\ \A s \in Transfers : Moving(s)' <=> Moving(s) /\ s # t
    <3>1. accounts' = [accounts EXCEPT ![To(t)] = @ + Amount(t)]
      BY <1>2 DEF BankOf!Arrive, accounts, To, Amount
    <3>2. Moving(t) /\ \A s \in Transfers : Moving(s)' <=> Moving(s) /\ s # t
      BY <1>2 DEF BankOf!Arrive, Moving
    <3>3. QED
      BY <3>1, <3>2
  <2>2. Sum(accounts, Users) + Amount(t) = Sum(InitBalance, Users)
    BY <2>1, MovingAlone DEF MoneyKept
  <2>3. Sum(accounts', Users) = Sum(accounts, Users) + Amount(t)
    <3>1. To(t) \in Users /\ Amount(t) \in Int
      BY <1>0
    <3>2. accounts \in [Users -> Int]
      BY <1>0
    <3>3. accounts' = [accounts EXCEPT ![To(t)] = @ + Amount(t)]
      BY <2>1
    <3>4. QED
      BY <3>1, <3>2, <3>3, BalancesMove
  <2>4. \A s \in Transfers : ~Moving(s)'
    BY <2>1, MovingAlone
  <2>5. QED
    BY <2>2, <2>3, <2>4 DEF MoneyKept
<1>3. ASSUME \A u \in Users : Account(u)' = Account(u),
             \A t \in Transfers : (Left(t)' <=> Left(t)) /\ (Arrived(t)' <=> Arrived(t))
      PROVE  MoneyKept'
  <2>1. accounts' = accounts
    BY <1>3 DEF accounts
  <2>2. \A t \in Transfers : Moving(t)' <=> Moving(t)
    BY <1>3 DEF Moving
  <2>3. Sum(accounts', Users) = Sum(accounts, Users)
    BY <2>1
  <2>4. QED
    BY <1>0, <2>2, <2>3 DEF MoneyKept
<1>4. QED
  BY <1>1, <1>2, <1>3, BankStep DEF BankOf!Next

LEMMA InitMoneyKept == Init => MoneyKept
<1> SUFFICES ASSUME Init PROVE MoneyKept
  OBVIOUS
<1>1. \A u \in Users : Account(u) = InitBalance[u]
  BY DEF Init, Account, Loaded
<1>2. accounts = InitBalance
  BY <1>1, BalanceAssumption DEF accounts
<1>3. \A t \in Transfers : ~Moving(t)
  BY DEF Init, Moving, Left
<1>4. QED
  BY <1>2, <1>3 DEF MoneyKept

\* With nothing queued and no payment under way the server's balances are the
\* accounts.
LEMMA ServerIsBank ==
    ASSUME IInv, SerialInv, AtRest, \A u \in Users : queue[u] = <<>>
    PROVE  balance = accounts /\ \A t \in Transfers : ~Moving(t)
<1>1. ASSUME NEW u \in Users PROVE balance[u] = Account(u)
  <2>1. \A t \in Transfers : thread[t].at \in {"none", "refused", "done"}
    BY DEF AtRest, Handling
  <2>2. main[u].at \notin Receiving
    BY ReceivingIsBusy, ReceiptUnderWay DEF SerialInv, AtRest
  <2>3. ~Between(u)
    BY <2>1, <2>2 DEF Between, Receiving, ReceiverOps
  <2>4. balance[u] = local[u]
    BY DEF SerialInv, LastBalance, LastOf
  <2>5. QED
    BY <2>3, <2>4 DEF SerialInv, InStep, Account
<1>2. balance = [u \in Users |-> balance[u]]
  BY DEF IInv, TypeOK
<1>3. \A t \in Transfers : ~Moving(t)
  <2>1. ASSUME NEW t \in Transfers, Moving(t) PROVE FALSE
    <3>1. queue[To(t)] = <<>>
      BY PaymentType DEF IInv
    <3>2. QED
      BY <2>1, <3>1, MovingUnderWay DEF AtRest
  <2>2. QED
    BY <2>1
<1>4. balance = accounts
  BY <1>1, <1>2 DEF accounts
<1>5. QED
  BY <1>3, <1>4

\* However often balances are copied between memory, local store, queue and
\* server, payments that do not overlap make no money and lose none.
THEOREM MoneyConserved ==
    ASSUME AsMeant, IsFiniteSet(Users)
    PROVE  SerialSpec => []Conservation
<1>1. Init => MoneyKept
  BY InitMoneyKept
<1>2. IInv /\ SerialInv /\ (IInv /\ SerialInv)' /\ MoneyKept /\ [SerialNext]_vars => MoneyKept'
  BY MoneyKeptStep
<1>3. IInv /\ SerialInv /\ MoneyKept => Conservation
  <2> SUFFICES ASSUME IInv, SerialInv, MoneyKept, AtRest, \A u \in Users : queue[u] = <<>>
               PROVE  Sum(balance, Users) = Sum(InitBalance, Users)
    BY DEF Conservation, Sum
  <2>1. balance = accounts /\ \A t \in Transfers : ~Moving(t)
    BY ServerIsBank
  <2>2. QED
    BY <2>1 DEF MoneyKept
<1>4. QED
  BY <1>1, <1>2, <1>3, SerialInvariant, PTL DEF SerialSpec

=============================================================================
