------------------------------- MODULE Wallet -------------------------------
(***************************************************************************)
(* Seda's money path: FirebaseHelper (sign-in, stored balance, listener on *)
(* pending transactions) and TransferViewController, over the Firestore    *)
(* client they use.                                                        *)
(*                                                                         *)
(* Every user has one account and one device.  A device runs the app's     *)
(* main thread, on which every Firestore callback and button handler runs, *)
(* and one "balance_queue" thread per press of Pay.  The two kinds of      *)
(* thread share curr_balance without a lock, so each read and each write   *)
(* of it is a step.                                                        *)
(*                                                                         *)
(* Firestore applies a write to the device's local store at once, keeps it *)
(* in a queue that survives a restart, and sends the queue to the server   *)
(* in order.  A device that is offline is one whose Commit, GetBalance and *)
(* key fetches are late or, with the failure enabled, unsuccessful.        *)
(***************************************************************************)
EXTENDS Integers, Sequences

CONSTANTS
    Users,          \* accounts, each with one device
    Transfers,      \* payments that may be made; the id orders the documents
    InitBalance,    \* what each account holds in Firestore at the start
    Amounts,        \* what the amount field of a payment may hold
    MaxSignIns,     \* bound: successful sign-ins of one run of the app
    MaxCrashes,     \* bound: times an app is killed, traps or is reinstalled
    Failures        \* which of PossibleFailures the environment may cause

PossibleFailures == {"balanceLoad", "keyFetch", "listener", "newDevice"}

ASSUME TransfersAssumption == Transfers \subseteq Nat /\ Transfers # {}
ASSUME BalanceAssumption == InitBalance \in [Users -> Nat]
ASSUME AmountsAssumption == Amounts \subseteq Nat
ASSUME BoundsAssumption == MaxSignIns \in Nat /\ MaxCrashes \in Nat
ASSUME FailuresAssumption == Failures \subseteq PossibleFailures

VARIABLES
    \* Firestore, the server
    balance,        \* users/{uid}.balance
    committed,      \* committed[t][op]: writes of that kind applied for t
    \* Firestore, the client library of each device
    queue,          \* writes not yet acknowledged, oldest first; persistent
    local,          \* users/{uid}.balance as the device's local store has it
    asked,          \* balance requests of initialize not answered yet
    answers,        \* answers to them that wait for the main thread
    listeners,      \* the transactions last shown to each attached listener
    fetches,        \* fetches[t]: key requests the receiver of t has out
    \* the app
    sessions,       \* sign-ins completed since the app was started
    curr_balance,   \* FirebaseHelper.shared_instance.curr_balance
    main,           \* the callback the main thread is in the middle of
    thread,         \* the balance_queue thread of each payment
    hasKey,         \* the keychain holds the key friends encrypt for
    \* bookkeeping of the model
    xfer,           \* who pays whom how much
    crashes         \* how many times an app has stopped

server == <<balance, committed>>
device == <<queue, local>>
client == <<asked, answers, listeners, fetches>>
app == <<sessions, curr_balance, main, thread, hasKey>>
vars == <<server, device, client, app, xfer, crashes>>

BalanceOps == {"debit", "credit"}
Ops == BalanceOps \cup {"send", "sent", "received", "delete"}

Payment == {p \in [from : Users, to : Users, amount : Amounts] : p.from # p.to}
Write == [op : Ops, txn : Transfers, amount : Int]
ThreadAt == {"none", "read", "write", "encode", "update", "fetch", "done", "refused"}
MainAt == {"idle", "write", "encode"} \cup (Ops \ {"debit"})

-----------------------------------------------------------------------------
(* Operators on the state.                                                 *)

From(t) == xfer[t].from
To(t) == xfer[t].to
Amount(t) == xfer[t].amount

Sent(t) == committed[t]["send"] > 0
Deleted(t) == committed[t]["delete"] > 0

\* The documents of the transactions collection that still have pending =
\* true: delete() removes a document and nothing sets the field to false.
Pending == {t \in Transfers : Sent(t) /\ ~Deleted(t)}

Queued(u, op, t) == \E i \in 1..Len(queue[u]) :
                        queue[u][i].op = op /\ queue[u][i].txn = t

\* The listener's query, answered from the server's documents with the
\* device's own unacknowledged writes on top.  The listener of a user sees
\* the pending transactions of everybody.
View(u) == {t \in Transfers : /\ t \in Pending \/ Queued(u, "send", t)
                              /\ ~Queued(u, "delete", t)}

MainIdle(u) == main[u].at = "idle"
SignedIn(u) == sessions[u] > 0

\* Mutant of Enqueue: the newest write is sent first.
EnqueueInFront(u, op, t, amount) ==
    queue' = [queue EXCEPT ![u] = <<[op |-> op, txn |-> t, amount |-> amount]>> \o @]

\* addDocument, updateData and delete: the write goes to the end of the queue.
Enqueue(u, op, t, amount) ==
    queue' = [queue EXCEPT ![u] = Append(@, [op |-> op, txn |-> t, amount |-> amount])]

\* Mutant of EnqueueBalance: the local store keeps the old balance.
EnqueueBalanceServerOnly(u, op, t, b) ==
    /\ Enqueue(u, op, t, b)
    /\ UNCHANGED local

\* A write of the balance changes the local store too.
EnqueueBalance(u, op, t, b) ==
    /\ Enqueue(u, op, t, b)
    /\ local' = [local EXCEPT ![u] = b]

-----------------------------------------------------------------------------
TypeOK ==
    /\ balance \in [Users -> Int]
    /\ committed \in [Transfers -> [Ops -> Nat]]
    /\ queue \in [Users -> Seq(Write)]
    /\ local \in [Users -> Int]
    /\ asked \in [Users -> Nat]
    /\ answers \in [Users -> Seq(Int)]
    /\ listeners \in [Users -> Seq(SUBSET Transfers)]
    /\ fetches \in [Transfers -> Nat]
    /\ sessions \in [Users -> Nat]
    /\ curr_balance \in [Users -> Int]
    /\ main \in [Users -> [at : MainAt, txn : Transfers, new : Int]]
    /\ thread \in [Transfers -> [at : ThreadAt, new : Int]]
    /\ hasKey \in [Users -> BOOLEAN]
    /\ xfer \in [Transfers -> Payment]
    /\ crashes \in Nat

Idle == [at |-> "idle", txn |-> CHOOSE t \in Transfers : TRUE, new |-> 0]

Init ==
    /\ balance = InitBalance
    /\ committed = [t \in Transfers |-> [op \in Ops |-> 0]]
    /\ queue = [u \in Users |-> <<>>]
    /\ local = InitBalance
    /\ asked = [u \in Users |-> 0]
    /\ answers = [u \in Users |-> <<>>]
    /\ listeners = [u \in Users |-> <<>>]
    /\ fetches = [t \in Transfers |-> 0]
    /\ sessions = [u \in Users |-> 0]
    /\ curr_balance = [u \in Users |-> 0]
    /\ main = [u \in Users |-> Idle]
    /\ thread = [t \in Transfers |-> [at |-> "none", new |-> 0]]
    /\ hasKey = [u \in Users |-> TRUE]
    /\ xfer \in [Transfers -> Payment]
    /\ crashes = 0

-----------------------------------------------------------------------------
(* Signing in.                                                             *)

\* signIn succeeded: a new shared instance with balance 0, and a request for
\* the stored balance.  The Login button stays enabled while signIn is
\* running, so one run of the app may sign in more than once.
SignIn(u) ==
    /\ MainIdle(u)
    /\ sessions[u] < MaxSignIns
    /\ sessions' = [sessions EXCEPT ![u] = @ + 1]
    /\ curr_balance' = [curr_balance EXCEPT ![u] = 0]
    /\ asked' = [asked EXCEPT ![u] = @ + 1]
    /\ UNCHANGED <<server, device, answers, listeners, fetches, main, thread,
                   hasKey, xfer, crashes>>

\* Mutant of GetBalance: a request may be answered again.
GetBalanceAgain(u) ==
    /\ SignedIn(u)
    /\ asked' = [asked EXCEPT ![u] = @ - 1]
    /\ answers' = [answers EXCEPT ![u] = Append(@, local[u])]
    /\ UNCHANGED <<server, device, listeners, fetches, app, xfer, crashes>>

\* Firestore answers getDocument from the local store.  A request that fails
\* has no document, and the callback then takes 0.
GetBalance(u) ==
    /\ asked[u] > 0
    /\ asked' = [asked EXCEPT ![u] = @ - 1]
    /\ \E b \in {local[u]} \cup (IF "balanceLoad" \in Failures THEN {0} ELSE {}) :
          answers' = [answers EXCEPT ![u] = Append(@, b)]
    /\ UNCHANGED <<server, device, listeners, fetches, app, xfer, crashes>>

\* Mutant of BalanceLoaded: the listener is shown only what comes later.
BalanceLoadedLater(u) ==
    /\ MainIdle(u)
    /\ answers[u] # <<>>
    /\ curr_balance' = [curr_balance EXCEPT ![u] = Head(answers[u])]
    /\ answers' = [answers EXCEPT ![u] = Tail(@)]
    /\ listeners' = [listeners EXCEPT ![u] = Append(@, View(u))]
    /\ UNCHANGED <<server, device, asked, fetches, sessions, main, thread,
                   hasKey, xfer, crashes>>

\* The callback of getDocument: store the balance and attach the listener on
\* pending transactions.
BalanceLoaded(u) ==
    /\ MainIdle(u)
    /\ answers[u] # <<>>
    /\ curr_balance' = [curr_balance EXCEPT ![u] = Head(answers[u])]
    /\ answers' = [answers EXCEPT ![u] = Tail(@)]
    /\ listeners' = [listeners EXCEPT ![u] = Append(@, {})]
    /\ UNCHANGED <<server, device, asked, fetches, sessions, main, thread,
                   hasKey, xfer, crashes>>

-----------------------------------------------------------------------------
(* Paying.                                                                 *)

\* pay_pressed runs on the main thread and hands the payment to a new queue.
\* The button stays enabled until the thread has called back, so two payments
\* may run at once.
PayPressed(t) ==
    /\ MainIdle(From(t))
    /\ SignedIn(From(t))
    /\ thread[t].at = "none"
    /\ thread' = [thread EXCEPT ![t].at = "read"]
    /\ UNCHANGED <<server, device, client, sessions, curr_balance, main, hasKey,
                   xfer, crashes>>

\* Mutants of DebitRead: the check is missing; the sign is not reversed.
DebitReadUnchecked(t) ==
    /\ thread[t].at = "read"
    /\ thread' = [thread EXCEPT ![t] =
           [at |-> "write", new |-> curr_balance[From(t)] - Amount(t)]]
    /\ UNCHANGED <<server, device, client, sessions, curr_balance, main, hasKey,
                   xfer, crashes>>

DebitReadAdds(t) ==
    /\ thread[t].at = "read"
    /\ thread' = [thread EXCEPT ![t] =
           [at |-> "write", new |-> curr_balance[From(t)] + Amount(t)]]
    /\ UNCHANGED <<server, device, client, sessions, curr_balance, main, hasKey,
                   xfer, crashes>>

\* updateBalance(-amount): compute the new balance and check it.
DebitRead(t) ==
    /\ thread[t].at = "read"
    /\ LET new == curr_balance[From(t)] - Amount(t)
       IN  thread' = [thread EXCEPT ![t] =
               [at |-> IF new >= 0 THEN "write" ELSE "refused", new |-> new]]
    /\ UNCHANGED <<server, device, client, sessions, curr_balance, main, hasKey,
                   xfer, crashes>>

DebitWrite(t) ==
    /\ thread[t].at = "write"
    /\ curr_balance' = [curr_balance EXCEPT ![From(t)] = thread[t].new]
    /\ thread' = [thread EXCEPT ![t].at = "encode"]
    /\ UNCHANGED <<server, device, client, sessions, main, hasKey, xfer, crashes>>

\* The argument of updateData reads curr_balance again: it may have changed
\* since DebitWrite, and may change before DebitUpdate.
DebitEncode(t) ==
    /\ thread[t].at = "encode"
    /\ thread' = [thread EXCEPT ![t] =
           [at |-> "update", new |-> curr_balance[From(t)]]]
    /\ UNCHANGED <<server, device, client, sessions, curr_balance, main, hasKey,
                   xfer, crashes>>

DebitUpdate(t) ==
    /\ thread[t].at = "update"
    /\ EnqueueBalance(From(t), "debit", t, thread[t].new)
    /\ thread' = [thread EXCEPT ![t].at = "fetch"]
    /\ UNCHANGED <<server, client, sessions, curr_balance, main, hasKey, xfer,
                   crashes>>

\* Mutant of SendKeysFetched: the document does not wait for the debit.
SendKeysEarly(t) ==
    /\ thread[t].at \in {"update", "fetch"}
    /\ MainIdle(From(t))
    /\ thread' = [thread EXCEPT ![t].at = "done"]
    /\ main' = [main EXCEPT ![From(t)] = [at |-> "send", txn |-> t, new |-> 0]]
    /\ UNCHANGED <<server, device, client, sessions, curr_balance, hasKey, xfer,
                   crashes>>

\* encryptData has the friend's key: its completion handler starts.
SendKeysFetched(t) ==
    /\ thread[t].at = "fetch"
    /\ MainIdle(From(t))
    /\ thread' = [thread EXCEPT ![t].at = "done"]
    /\ main' = [main EXCEPT ![From(t)] = [at |-> "send", txn |-> t, new |-> 0]]
    /\ UNCHANGED <<server, device, client, sessions, curr_balance, hasKey, xfer,
                   crashes>>

\* Mutant of SendKeysMissing: an answer that arrived may be dropped.
SendKeysLost(t) ==
    /\ thread[t].at = "fetch"
    /\ MainIdle(From(t))
    /\ thread' = [thread EXCEPT ![t].at = "done"]
    /\ UNCHANGED <<server, device, client, sessions, curr_balance, main, hasKey,
                   xfer, crashes>>

\* encryptData returns without calling its completion handler.
SendKeysMissing(t) ==
    /\ "keyFetch" \in Failures
    /\ thread[t].at = "fetch"
    /\ MainIdle(From(t))
    /\ thread' = [thread EXCEPT ![t].at = "done"]
    /\ UNCHANGED <<server, device, client, sessions, curr_balance, main, hasKey,
                   xfer, crashes>>

-----------------------------------------------------------------------------
(* Receiving.                                                              *)

\* Mutant of Incoming: the target of the document is not compared.
IncomingAny(u, view) == {t \in view : u \in {From(t), To(t)}}

Incoming(u, view) == {t \in view : To(t) = u}

\* Mutants of Snapshot: the listener is shown the collection once; it is shown
\* a collection that did not change.
SnapshotOnce(u, i) ==
    /\ i \in 1..Len(listeners[u])
    /\ listeners[u][i] = {} /\ View(u) # {}
    /\ listeners' = [listeners EXCEPT ![u][i] = View(u)]
    /\ \/ /\ Incoming(u, View(u)) = {}
          /\ UNCHANGED fetches
       \/ \E t \in Incoming(u, View(u)) :
             /\ \A s \in Incoming(u, View(u)) : t <= s
             /\ fetches' = [fetches EXCEPT ![t] = @ + 1]
    /\ UNCHANGED <<server, device, asked, answers, app, xfer, crashes>>

SnapshotAgain(u, i) ==
    /\ i \in 1..Len(listeners[u])
    /\ listeners' = [listeners EXCEPT ![u][i] = View(u)]
    /\ \E t \in Incoming(u, View(u)) : fetches' = [fetches EXCEPT ![t] = @ + 1]
    /\ UNCHANGED <<server, device, asked, answers, app, xfer, crashes>>

\* A listener is shown the collection whenever it changed.  It starts a key
\* request for the first document that targets the user and returns.  The
\* main thread only passes the documents on, so the step is taken when the
\* client library computes the snapshot.
Snapshot(u, i) ==
    /\ i \in 1..Len(listeners[u])
    /\ listeners[u][i] # View(u)
    /\ listeners' = [listeners EXCEPT ![u][i] = View(u)]
    /\ \/ /\ Incoming(u, View(u)) = {}
          /\ UNCHANGED fetches
       \/ \E t \in Incoming(u, View(u)) :
             /\ \A s \in Incoming(u, View(u)) : t <= s
             /\ fetches' = [fetches EXCEPT ![t] = @ + 1]
    /\ UNCHANGED <<server, device, asked, answers, app, xfer, crashes>>

\* encryptData's completion handler: decrypt, then updateBalance(+amount)
\* computes the new balance (its check cannot fail).  A payment of 0 skips
\* the balance.
ReceiveKeysFetched(t) ==
    LET u == To(t) IN
    /\ fetches[t] > 0
    /\ MainIdle(u)
    /\ hasKey[u]
    /\ fetches' = [fetches EXCEPT ![t] = @ - 1]
    /\ main' = [main EXCEPT ![u] =
           [at |-> IF Amount(t) # 0 THEN "write" ELSE "received",
            txn |-> t,
            new |-> curr_balance[u] + Amount(t)]]
    /\ UNCHANGED <<server, device, asked, answers, listeners, sessions,
                   curr_balance, thread, hasKey, xfer, crashes>>

\* The request fails, or the message cannot be decrypted with the keychain's
\* key: the handler is not called or returns, and nothing tries again.
ReceiveDropped(t) ==
    /\ fetches[t] > 0
    /\ MainIdle(To(t))
    /\ "keyFetch" \in Failures \/ ~hasKey[To(t)]
    /\ fetches' = [fetches EXCEPT ![t] = @ - 1]
    /\ UNCHANGED <<server, device, asked, answers, listeners, app, xfer, crashes>>

CreditWrite(u) ==
    /\ main[u].at = "write"
    /\ curr_balance' = [curr_balance EXCEPT ![u] = main[u].new]
    /\ main' = [main EXCEPT ![u].at = "encode"]
    /\ UNCHANGED <<server, device, client, sessions, thread, hasKey, xfer, crashes>>

CreditEncode(u) ==
    /\ main[u].at = "encode"
    /\ main' = [main EXCEPT ![u] =
           [at |-> "credit", txn |-> main[u].txn, new |-> curr_balance[u]]]
    /\ UNCHANGED <<server, device, client, sessions, curr_balance, thread, hasKey,
                   xfer, crashes>>

\* Mutant of CreditUpdate: the history record is skipped.
CreditUpdateNoHistory(u) ==
    /\ main[u].at = "credit"
    /\ EnqueueBalance(u, "credit", main[u].txn, main[u].new)
    /\ main' = [main EXCEPT ![u].at = "delete"]
    /\ UNCHANGED <<server, client, sessions, curr_balance, thread, hasKey, xfer,
                   crashes>>

CreditUpdate(u) ==
    /\ main[u].at = "credit"
    /\ EnqueueBalance(u, "credit", main[u].txn, main[u].new)
    /\ main' = [main EXCEPT ![u].at = "received"]
    /\ UNCHANGED <<server, client, sessions, curr_balance, thread, hasKey, xfer,
                   crashes>>

-----------------------------------------------------------------------------
(* The document writes of the two completion handlers, statement by         *)
(* statement.                                                              *)

After == [send |-> "sent", sent |-> "idle", received |-> "delete", delete |-> "idle"]

WriteDocument(u) ==
    /\ main[u].at \in DOMAIN After
    /\ Enqueue(u, main[u].at, main[u].txn, 0)
    /\ main' = [main EXCEPT ![u].at = After[main[u].at]]
    /\ UNCHANGED <<server, local, client, sessions, curr_balance, thread, hasKey,
                   xfer, crashes>>

-----------------------------------------------------------------------------
(* The Firestore client and the environment.                               *)

\* Mutant of Commit: the newest write is sent first.
CommitNewest(u) ==
    /\ queue[u] # <<>>
    /\ LET w == queue[u][Len(queue[u])] IN
       /\ balance' = IF w.op \in BalanceOps
                     THEN [balance EXCEPT ![u] = w.amount] ELSE balance
       /\ committed' = [committed EXCEPT ![w.txn][w.op] = @ + 1]
    /\ queue' = [queue EXCEPT ![u] = SubSeq(@, 1, Len(@) - 1)]
    /\ UNCHANGED <<local, client, app, xfer, crashes>>

\* The server applies the oldest write of the device's queue and
\* acknowledges it.
Commit(u) ==
    /\ queue[u] # <<>>
    /\ LET w == Head(queue[u]) IN
       /\ balance' = IF w.op \in BalanceOps
                     THEN [balance EXCEPT ![u] = w.amount] ELSE balance
       /\ committed' = [committed EXCEPT ![w.txn][w.op] = @ + 1]
    /\ queue' = [queue EXCEPT ![u] = Tail(@)]
    /\ UNCHANGED <<local, client, app, xfer, crashes>>

\* What a process loses when it ends: everything but the keychain and
\* Firestore's local store.
ProcessEnds(u) ==
    /\ crashes < MaxCrashes
    /\ crashes' = crashes + 1
    /\ asked' = [asked EXCEPT ![u] = 0]
    /\ answers' = [answers EXCEPT ![u] = <<>>]
    /\ listeners' = [listeners EXCEPT ![u] = <<>>]
    /\ fetches' = [t \in Transfers |-> IF To(t) = u THEN 0 ELSE fetches[t]]
    /\ sessions' = [sessions EXCEPT ![u] = 0]
    /\ curr_balance' = [curr_balance EXCEPT ![u] = 0]
    /\ main' = [main EXCEPT ![u] = Idle]
    /\ thread' = [t \in Transfers |->
           IF From(t) = u /\ thread[t].at \notin {"none", "refused"}
           THEN [thread[t] EXCEPT !.at = "done"] ELSE thread[t]]
    /\ UNCHANGED <<server, xfer>>

\* The app is killed.
Crash(u) ==
    /\ SignedIn(u)
    /\ ProcessEnds(u)
    /\ UNCHANGED <<device, hasKey>>

\* Firestore reports an error to a listener, whose handler leaves a
\* DispatchGroup that was never entered: a trap.
ListenerError(u) ==
    /\ "listener" \in Failures
    /\ listeners[u] # <<>>
    /\ MainIdle(u)
    /\ ProcessEnds(u)
    /\ UNCHANGED <<device, hasKey>>

\* The user moves to another phone: its keychain and local store are empty,
\* and Crypto makes a new key that no friend's document holds.
NewDevice(u) ==
    /\ "newDevice" \in Failures
    /\ ProcessEnds(u)
    /\ queue' = [queue EXCEPT ![u] = <<>>]
    /\ local' = [local EXCEPT ![u] = balance[u]]
    /\ hasKey' = [hasKey EXCEPT ![u] = FALSE]

-----------------------------------------------------------------------------
SessionNext(u) == SignIn(u) \/ GetBalance(u) \/ BalanceLoaded(u)

PayThread(t) ==
    DebitRead(t) \/ DebitWrite(t) \/ DebitEncode(t) \/ DebitUpdate(t)

SendKeys(t) == SendKeysFetched(t) \/ SendKeysMissing(t)

ReceiveKeys(t) == ReceiveKeysFetched(t) \/ ReceiveDropped(t)

MainThread(u) ==
    CreditWrite(u) \/ CreditEncode(u) \/ CreditUpdate(u) \/ WriteDocument(u)

Stops(u) == Crash(u) \/ ListenerError(u) \/ NewDevice(u)

Next ==
    \/ \E u \in Users : \/ SessionNext(u)
                        \/ \E i \in DOMAIN listeners[u] : Snapshot(u, i)
                        \/ MainThread(u)
                        \/ Commit(u)
                        \/ Stops(u)
    \/ \E t \in Transfers : \/ PayPressed(t)
                            \/ PayThread(t)
                            \/ SendKeys(t)
                            \/ ReceiveKeys(t)

Spec == Init /\ [][Next]_vars

\* Threads are scheduled, the main queue is served, and Firestore keeps
\* trying until a request is answered and a write is acknowledged.  What the
\* user does (SignIn, PayPressed) and what stops an app is never forced.
Fairness ==
    /\ \A u \in Users :
          /\ WF_vars(GetBalance(u))
          /\ WF_vars(BalanceLoaded(u))
          /\ WF_vars(MainThread(u))
          /\ WF_vars(SignedIn(u) /\ Commit(u))
          /\ \A i \in 1..MaxSignIns : WF_vars(Snapshot(u, i))
    /\ \A t \in Transfers :
          /\ WF_vars(PayThread(t))
          /\ WF_vars(SendKeys(t))
          /\ WF_vars(ReceiveKeys(t))

FairSpec == Spec /\ Fairness

-----------------------------------------------------------------------------
(* Safety.                                                                 *)

\* No balance is ever negative, in memory, in a queue or on the server:
\* whatever the threads overwrite, each value was checked by updateBalance or
\* is a sum of two that were.
NoOverdraft ==
    /\ \A u \in Users : /\ balance[u] >= 0
                        /\ local[u] >= 0
                        /\ curr_balance[u] >= 0
                        /\ \A i \in 1..Len(queue[u]) : queue[u][i].amount >= 0

\* A transaction document exists only if the sender's debit reached the
\* server first, and each of them was written exactly once, whatever crashed
\* in between: make_transaction debits before it posts and the queue keeps
\* the order.
PaidBeforeSent ==
    \A t \in Transfers : /\ Sent(t) => committed[t]["debit"] = 1
                         /\ committed[t]["send"] <= 1

\* The receiver touches an account or a history only for a transaction
\* the server holds or held: a local view never gives money that was not sent.
OnlySentReceived ==
    \A t \in Transfers :
        (\E op \in {"credit", "received", "delete"} :
            committed[t][op] > 0 \/ Queued(To(t), op, t)) => Sent(t)

\* A document is deleted only after its amount was written to the receiver's
\* account and to the receiver's history: a crash between two statements of
\* the callback may repeat a receipt but never swallows one.
SettledAfterReceipt ==
    \A t \in Transfers :
        Deleted(t) => /\ committed[t]["received"] > 0
                      /\ Amount(t) > 0 => committed[t]["credit"] > 0

\* The stage a payment has reached according to the writes the server holds.
Booked(t) == committed[t]["received"] > 0 /\ (Amount(t) > 0 => committed[t]["credit"] > 0)

Stage(t) ==
    CASE Deleted(t)                              -> "settled"
      [] ~Deleted(t) /\ Booked(t)                -> "received"
      [] ~Deleted(t) /\ ~Booked(t) /\ Sent(t)    -> "sent"
      [] ~Deleted(t) /\ ~Booked(t) /\ ~Sent(t)   ->
             IF committed[t]["debit"] > 0 THEN "paid" ELSE "asked"

Lifecycle == INSTANCE TransferLifecycle
                 WITH stage <- [t \in Transfers |-> Stage(t)]

\* Every payment goes through the stages of TransferLifecycle in order: the
\* client's queue and the order of the statements make each write of the
\* server one step of the abstract specification or none.
LifecycleSpec == Lifecycle!Spec

-----------------------------------------------------------------------------
(* Liveness, under FairSpec.                                               *)

\* A payment whose debit the server has is posted, if no app is stopped:
\* encryptData answers and the queue is sent.
Posted == \A t \in Transfers : committed[t]["debit"] > 0 ~> Sent(t) \/ crashes > 0

\* A payment that was sent is settled if its receiver stays signed in: the
\* handler takes one document per snapshot, and deleting it brings the next
\* snapshot.
Delivered ==
    \A t \in Transfers :
        Sent(t) /\ SignedIn(To(t)) ~> Deleted(t) \/ ~SignedIn(To(t))

=============================================================================
