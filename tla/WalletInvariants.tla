-------------------------- MODULE WalletInvariants --------------------------
(***************************************************************************)
(* The inductive invariant behind the safety properties of Wallet.  TLC    *)
(* checks it on small instances, WalletProofs proves it inductive.         *)
(***************************************************************************)
EXTENDS Wallet

SenderOps == {"debit", "send", "sent"}
ReceiverOps == {"credit", "received", "delete"}
Receiving == {"write", "encode"} \cup ReceiverOps

\* Each device writes, and its main thread handles, only its user's side of a
\* payment.
Owned ==
    \A u \in Users :
        /\ \A i \in 1..Len(queue[u]) :
              LET w == queue[u][i] IN
              /\ w.op \in SenderOps => From(w.txn) = u
              /\ w.op \in ReceiverOps => To(w.txn) = u
        /\ main[u].at \in {"send", "sent"} => From(main[u].txn) = u
        /\ main[u].at \in Receiving => To(main[u].txn) = u

\* NoOverdraft, and the balances that are on their way into it: what a thread
\* or a callback has computed, and what waits to be loaded.
Solvent ==
    /\ NoOverdraft
    /\ \A u \in Users :
          /\ \A i \in 1..Len(answers[u]) : answers[u][i] >= 0
          /\ main[u].at \in {"write", "credit"} => main[u].new >= 0
    /\ \A t \in Transfers : thread[t].at \in {"write", "update"} => thread[t].new >= 0

\* The server has the write, or the device has it queued before position i.
Before(u, i, op, t) ==
    \/ committed[t][op] > 0
    \/ \E j \in 1..(i - 1) : queue[u][j].op = op /\ queue[u][j].txn = t

Handed(u, op, t) == committed[t][op] > 0 \/ Queued(u, op, t)

\* The sender's side: the debit is handed over before the key is requested,
\* and the queue has it ahead of the document.
DebitFirst ==
    /\ \A t \in Transfers :
          /\ thread[t].at = "fetch" => Handed(From(t), "debit", t)
          /\ Sent(t) => committed[t]["debit"] > 0
    /\ \A u \in Users :
          /\ main[u].at = "send" => Handed(u, "debit", main[u].txn)
          /\ \A i \in 1..Len(queue[u]) :
                queue[u][i].op = "send" => Before(u, i, "debit", queue[u][i].txn)

\* A payment's debit and its document are written once: not at all before
\* its thread gets there, and never twice to the queue or the server.
NoneYet(t, op) == committed[t][op] = 0 /\ ~Queued(From(t), op, t)

Once(t, op) ==
    /\ committed[t][op] <= 1
    /\ committed[t][op] = 1 => ~Queued(From(t), op, t)
    /\ \A i, j \in 1..Len(queue[From(t)]) :
          LET q == queue[From(t)] IN
          (q[i].op = op /\ q[j].op = op /\ q[i].txn = t /\ q[j].txn = t) => i = j

WrittenOnce ==
    \A t \in Transfers :
        /\ thread[t].at \notin {"fetch", "done"} => NoneYet(t, "debit")
        /\ thread[t].at # "done" => NoneYet(t, "send")
        /\ (main[From(t)].at = "send" /\ main[From(t)].txn = t)
              => NoneYet(t, "send") /\ thread[t].at = "done"
        /\ Once(t, "debit")
        /\ Once(t, "send")

\* The receiver's side: whatever is done for a payment, the server holds or
\* held its document.
SentFirst ==
    /\ \A t \in Transfers :
          /\ fetches[t] > 0 => Sent(t)
          /\ \A op \in ReceiverOps : committed[t][op] > 0 => Sent(t)
    /\ \A u \in Users :
          /\ main[u].at \in Receiving => Sent(main[u].txn)
          /\ \A i \in 1..Len(queue[u]) :
                queue[u][i].op \in ReceiverOps => Sent(queue[u][i].txn)

\* The credit, if there is money, is ahead of the history record, and the
\* history record ahead of the deletion.
CreditFirst ==
    /\ \A t \in Transfers :
          committed[t]["received"] > 0 /\ Amount(t) > 0 => committed[t]["credit"] > 0
    /\ \A u \in Users :
          /\ main[u].at = "received" /\ Amount(main[u].txn) > 0
                => Handed(u, "credit", main[u].txn)
          /\ \A i \in 1..Len(queue[u]) :
                queue[u][i].op = "received" /\ Amount(queue[u][i].txn) > 0
                    => Before(u, i, "credit", queue[u][i].txn)

ReceivedFirst ==
    /\ \A t \in Transfers : Deleted(t) => committed[t]["received"] > 0
    /\ \A u \in Users :
          /\ main[u].at = "delete" => Handed(u, "received", main[u].txn)
          /\ \A i \in 1..Len(queue[u]) :
                queue[u][i].op = "delete" => Before(u, i, "received", queue[u][i].txn)

IInv == /\ TypeOK
        /\ Owned
        /\ Solvent
        /\ DebitFirst
        /\ WrittenOnce
        /\ SentFirst
        /\ CreditFirst
        /\ ReceivedFirst
=============================================================================
