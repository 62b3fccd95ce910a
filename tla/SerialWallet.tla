---------------------------- MODULE SerialWallet ----------------------------
(***************************************************************************)
(* Wallet when payments do not overlap: a user signs in once, waits for    *)
(* the balance, and pays only when no other payment is under way, on the   *)
(* phones or on the server; an app stops only between payments on the      *)
(* phones.  This is how the app was meant to be used, and here it is the   *)
(* bank of module Bank.  Module WalletClaims shows what happens outside.   *)
(***************************************************************************)
EXTENDS Wallet, FiniteSetsExt

Has(op, t) == committed[t][op] > 0 \/ Queued(To(t), op, t)

\* The receiver's books have the payment, at least on the receiver's device.
Arrived(t) == IF Amount(t) > 0
              THEN \/ Has("credit", t)
                   \/ main[To(t)].at \in {"encode", "credit"} /\ main[To(t)].txn = t
              ELSE Has("received", t)

Left(t) == thread[t].at \in {"encode", "update", "fetch", "done"}

\* From the pay button to the receipt's delete in the sender's queue.
Handling(t) == \/ thread[t].at \notin {"none", "refused", "done"}
               \/ thread[t].at = "done" /\ ~Has("delete", t)

\* ... and until the server has carried out that delete.  Before that a third
\* user's listener still shows the receipt: a payment to that user is taken for
\* an addition to it, and credited again when the delete arrives.
UnderWay(t) == \/ thread[t].at \notin {"none", "refused", "done"}
               \/ thread[t].at = "done" /\ committed[t]["delete"] = 0

AtRest == \A t \in Transfers : ~Handling(t)

Quiet == \A t \in Transfers : ~UnderWay(t)

Loaded(u) == listeners[u] # <<>>

SerialPay(t) ==
    /\ Quiet
    /\ Loaded(From(t))
    /\ PayPressed(t)

SerialStop(u) == AtRest /\ Crash(u)

SerialNext ==
    \/ \E u \in Users : \/ SessionNext(u)
                        \/ \E i \in DOMAIN listeners[u] : Snapshot(u, i)
                        \/ MainThread(u)
                        \/ Commit(u)
                        \/ SerialStop(u)
    \/ \E t \in Transfers : \/ SerialPay(t)
                            \/ PayThread(t)
                            \/ SendKeys(t)
                            \/ ReceiveKeys(t)

SerialSpec == Init /\ [][SerialNext]_vars

\* One sign-in each time the app is started, and a stored balance that can be
\* read.
AsMeant == MaxSignIns = 1 /\ "balanceLoad" \notin Failures

-----------------------------------------------------------------------------
\* What a user owns: the balance in memory once it is loaded, and the local
\* store's before.
Account(u) == IF Loaded(u) THEN curr_balance[u] ELSE local[u]

BankOf == INSTANCE Bank WITH
              account <- [u \in Users |-> Account(u)],
              moving <- {t \in Transfers : Left(t) /\ ~Arrived(t)},
              arrived <- {t \in Transfers : Arrived(t)}

\* Payments that do not overlap move money as the bank does: out of one
\* account once, into the other once, across restarts and sign-ins.
BankSpec == BankOf!Spec

\* Once every queue is empty and no payment is under way, the server's
\* balances add up to what they were: the writes of balances that passed
\* through memory, local store and queue lost and made no money.
Conservation ==
    (AtRest /\ \A u \in Users : queue[u] = <<>>)
        => MapThenSumSet(LAMBDA u : balance[u], Users)
             = MapThenSumSet(LAMBDA u : InitBalance[u], Users)

\* At rest the balance the app shows is the balance the server holds.
BooksAgree ==
    \A u \in Users :
        (AtRest /\ Loaded(u) /\ queue[u] = <<>> /\ MainIdle(u)) => curr_balance[u] = balance[u]
=============================================================================
