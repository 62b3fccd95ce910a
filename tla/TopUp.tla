------------------------------- MODULE TopUp -------------------------------
(***************************************************************************)
(* Loading money from a card: PaymentViewController with the screens that  *)
(* lead to it, Stripe's payment intents, and the balance document it       *)
(* shares with FirebaseHelper.                                             *)
(*                                                                         *)
(* One account on one phone.  What FirebaseHelper does to the balance is   *)
(* one step here (its threads are the subject of Wallet); what matters is  *)
(* that it writes from curr_balance in memory, and a top-up from the       *)
(* stored balance.                                                         *)
(***************************************************************************)
EXTENDS Integers, Sequences, FiniteSets

CONSTANTS
    TopUps,         \* payment screens that may be opened
    Entries,        \* what cashToSend may be when one is
    InitBalance,    \* what the account holds at the start
    Updates,        \* amounts updateBalance may be called with
    MaxUpdates,     \* bound: how often it is
    MaxStops,       \* bound: times the app stops
    Events          \* which of PossibleEvents may happen

PossibleEvents == {"secretFails", "declined", "answerLost", "readFails"}

\* cashToSend is nil when the screen is reached from the profile without the
\* amount field, and any text when it is reached through it.
Entry == [kind : {"number", "text", "nil"}, amount : Nat]

ASSUME EntriesAssumption == Entries \subseteq Entry
ASSUME InitAssumption == InitBalance \in Nat
ASSUME UpdatesAssumption == Updates \subseteq Int
ASSUME BoundsAssumption == MaxUpdates \in Nat /\ MaxStops \in Nat
ASSUME EventsAssumption == Events \subseteq PossibleEvents

VARIABLES
    balance,        \* users/{uid}.balance on the server
    queue,          \* values on their way to it, oldest first; persistent
    signedIn,       \* whether the app has been signed in since it started
    curr_balance,   \* FirebaseHelper.shared_instance.curr_balance
    cash,           \* cashToSend of each payment screen
    stage,          \* what each payment screen is doing
    intent,         \* Stripe: how often each payment intent was charged
    adding,         \* addBalance of each top-up, and the balance it has read
    \* bookkeeping of the model
    added,          \* how often each top-up was added to the balance
    ledger,         \* what the account should hold: updates and top-ups
    updates,        \* how often updateBalance was called
    stops,
    calm            \* no top-up has met anything else yet, see BooksAgree

store == <<balance, queue>>
memory == <<signedIn, curr_balance>>
history == <<added, ledger, updates, stops, calm>>
vars == <<store, memory, cash, stage, intent, adding, history>>

Stages == {"none", "asking", "ready", "dead", "confirming", "succeeded", "failed"}
NotAdding == [at |-> "no", read |-> 0]
Reading == [at |-> "reading", read |-> 0]

\* The balance as the device has it.
Local == IF queue = <<>> THEN balance ELSE queue[Len(queue)]

\* STPPaymentHandler.shared() confirms one payment at a time.
InProgress == \E i \in TopUps : stage[i] \in {"confirming", "succeeded", "failed"}

NoneWriting == \A i \in TopUps : adding[i].at # "writing"
NonePaying == ~InProgress /\ \A i \in TopUps : adding[i].at = "no"

TypeOK ==
    /\ balance \in Nat
    /\ queue \in Seq(Nat)
    /\ signedIn \in BOOLEAN
    /\ curr_balance \in Nat
    /\ cash \in [TopUps -> Entries]
    /\ stage \in [TopUps -> Stages]
    /\ intent \in [TopUps -> Nat]
    /\ adding \in [TopUps -> [at : {"no", "reading", "writing"}, read : Nat]]
    /\ added \in [TopUps -> Nat]
    /\ ledger \in Int
    /\ updates \in 0..MaxUpdates
    /\ stops \in 0..MaxStops

Init ==
    /\ balance = InitBalance
    /\ queue = <<>>
    /\ signedIn = FALSE
    /\ curr_balance = 0
    /\ cash \in [TopUps -> Entries]
    /\ stage = [i \in TopUps |-> "none"]
    /\ intent = [i \in TopUps |-> 0]
    /\ adding = [i \in TopUps |-> NotAdding]
    /\ added = [i \in TopUps |-> 0]
    /\ ledger = InitBalance
    /\ updates = 0
    /\ stops = 0
    /\ calm = TRUE

\* The app stops: screens, requests and curr_balance are lost, the queue and
\* what Stripe has done are not.
ProcessEnds ==
    /\ stops < MaxStops
    /\ stops' = stops + 1
    /\ signedIn' = FALSE
    /\ curr_balance' = 0
    /\ stage' = [i \in TopUps |-> IF stage[i] = "none" THEN "none" ELSE "dead"]
    /\ adding' = [i \in TopUps |-> NotAdding]
    /\ calm' = (calm /\ NonePaying)
    /\ UNCHANGED <<store, cash, intent, added, ledger, updates>>

Crash == signedIn /\ ProcessEnds

-----------------------------------------------------------------------------
(* The rest of the app.                                                    *)

SignIn ==
    /\ ~signedIn
    /\ signedIn' = TRUE
    /\ curr_balance' = Local
    /\ UNCHANGED <<store, cash, stage, intent, adding, history>>

\* Mutant of Update: the check is missing.
UpdateUnchecked(a) ==
    /\ signedIn
    /\ updates < MaxUpdates
    /\ curr_balance' = curr_balance + a
    /\ queue' = Append(queue, curr_balance')
    /\ ledger' = ledger + a
    /\ updates' = updates + 1
    /\ calm' = (calm /\ NoneWriting /\ curr_balance = Local)
    /\ UNCHANGED <<balance, signedIn, cash, stage, intent, adding, added, stops>>

\* updateBalance, for a payment (a < 0) or a receipt.
Update(a) ==
    /\ signedIn
    /\ updates < MaxUpdates
    /\ curr_balance + a >= 0
    /\ curr_balance' = curr_balance + a
    /\ queue' = Append(queue, curr_balance')
    /\ ledger' = ledger + a
    /\ updates' = updates + 1
    /\ calm' = (calm /\ NoneWriting /\ curr_balance = Local)
    /\ UNCHANGED <<balance, signedIn, cash, stage, intent, adding, added, stops>>

Commit ==
    /\ queue # <<>>
    /\ balance' = Head(queue)
    /\ queue' = Tail(queue)
    /\ UNCHANGED <<memory, cash, stage, intent, adding, history>>

-----------------------------------------------------------------------------
(* The payment screen.                                                     *)

\* A card was scanned: viewDidLoad asks the backend for a payment intent of
\* the amount.
Open(i) ==
    /\ signedIn
    /\ stage[i] = "none" /\ cash[i].kind # "nil"
    /\ stage' = [stage EXCEPT ![i] = "asking"]
    /\ UNCHANGED <<store, memory, cash, intent, adding, history>>

\* The same without an amount: cashToSend! traps.
OpenWithoutAmount(i) ==
    /\ signedIn
    /\ stage[i] = "none" /\ cash[i].kind = "nil"
    /\ ProcessEnds

\* The secret arrives, or it does not and Pay does nothing from then on.
SecretArrived(i) ==
    /\ stage[i] = "asking"
    /\ stage' = [stage EXCEPT ![i] = "ready"]
    /\ UNCHANGED <<store, memory, cash, intent, adding, history>>

SecretMissing(i) ==
    /\ "secretFails" \in Events
    /\ stage[i] = "asking"
    /\ stage' = [stage EXCEPT ![i] = "dead"]
    /\ UNCHANGED <<store, memory, cash, intent, adding, history>>

\* pay(), from any screen that has its secret, also one that has been paid.
PayPressed(i) ==
    /\ stage[i] = "ready"
    /\ ~InProgress
    /\ stage' = [stage EXCEPT ![i] = "confirming"]
    /\ UNCHANGED <<store, memory, cash, intent, adding, history>>

\* Stripe charges the card for an intent once.
Confirmed(i) ==
    /\ stage[i] = "confirming"
    /\ intent[i] = 0
    /\ stage' = [stage EXCEPT ![i] = "succeeded"]
    /\ intent' = [intent EXCEPT ![i] = @ + 1]
    /\ UNCHANGED <<store, memory, cash, adding, history>>

\* It refuses an intent that was paid, and may refuse a card.
Refused(i) ==
    /\ stage[i] = "confirming"
    /\ intent[i] > 0 \/ "declined" \in Events
    /\ stage' = [stage EXCEPT ![i] = "failed"]
    /\ UNCHANGED <<store, memory, cash, intent, adding, history>>

\* The request times out after Stripe has charged the card.
AnswerLost(i) ==
    /\ "answerLost" \in Events
    /\ stage[i] = "succeeded"
    /\ stage' = [stage EXCEPT ![i] = "failed"]
    /\ calm' = FALSE
    /\ UNCHANGED <<store, memory, cash, intent, adding, added, ledger, updates,
                   stops>>

\* Mutant of PaymentFailed: the case falls through to .succeeded.
PaymentFailedFallsThrough(i) ==
    /\ stage[i] = "failed"
    /\ stage' = [stage EXCEPT ![i] = "ready"]
    /\ adding' = [adding EXCEPT ![i] = Reading]
    /\ UNCHANGED <<store, memory, cash, intent, history>>

\* confirmPayment calls back.  An alert is all that follows a failure; a
\* success starts addBalance.  Either way the screen can be used again.
PaymentFailed(i) ==
    /\ stage[i] = "failed"
    /\ stage' = [stage EXCEPT ![i] = "ready"]
    /\ UNCHANGED <<store, memory, cash, intent, adding, history>>

PaymentSucceeded(i) ==
    /\ stage[i] = "succeeded"
    /\ stage' = [stage EXCEPT ![i] = "ready"]
    /\ adding' = [adding EXCEPT ![i] = Reading]
    /\ UNCHANGED <<store, memory, cash, intent, history>>

\* addBalance's getDocument: the balance is fixed when it is answered.  (The
\* field is there from the day the account is made, so its default of -1 is
\* not taken.)
BalanceRead(i) ==
    /\ adding[i].at = "reading"
    /\ adding' = [adding EXCEPT ![i] = [at |-> "writing", read |-> Local]]
    /\ calm' = (calm /\ NoneWriting /\ cash[i].kind = "number")
    /\ UNCHANGED <<store, memory, cash, stage, intent, added, ledger, updates,
                   stops>>

\* The request fails: an error is printed.
BalanceUnread(i) ==
    /\ "readFails" \in Events
    /\ adding[i].at = "reading"
    /\ adding' = [adding EXCEPT ![i] = NotAdding]
    /\ calm' = FALSE
    /\ UNCHANGED <<store, memory, cash, stage, intent, added, ledger, updates,
                   stops>>

\* Mutant of BalanceAdded: the balance in memory is taken for the stored one.
BalanceAddedToMemory(i) ==
    /\ adding[i].at = "writing"
    /\ cash[i].kind = "number"
    /\ queue' = Append(queue, curr_balance + cash[i].amount)
    /\ adding' = [adding EXCEPT ![i] = NotAdding]
    /\ added' = [added EXCEPT ![i] = @ + 1]
    /\ ledger' = ledger + cash[i].amount
    /\ UNCHANGED <<balance, memory, cash, stage, intent, updates, stops, calm>>

\* Mutant of BalanceAdded: never called, the completion handler was dropped.
BalanceDropped(i) ==
    /\ adding[i].at = "writing"
    /\ cash[i].kind = "number"
    /\ adding' = [adding EXCEPT ![i] = NotAdding]
    /\ UNCHANGED <<store, memory, cash, stage, intent, history>>

\* The callback writes the sum.  curr_balance stays what it was.
BalanceAdded(i) ==
    /\ adding[i].at = "writing"
    /\ cash[i].kind = "number"
    /\ queue' = Append(queue, adding[i].read + cash[i].amount)
    /\ adding' = [adding EXCEPT ![i] = NotAdding]
    /\ added' = [added EXCEPT ![i] = @ + 1]
    /\ ledger' = ledger + cash[i].amount
    /\ UNCHANGED <<balance, memory, cash, stage, intent, updates, stops, calm>>

\* Double(cashToSend)! traps on what is not a number.
AmountTraps(i) ==
    /\ adding[i].at = "writing"
    /\ cash[i].kind = "text"
    /\ ProcessEnds

-----------------------------------------------------------------------------
Start(i) == Open(i) \/ OpenWithoutAmount(i)
Secret(i) == SecretArrived(i) \/ SecretMissing(i)
Stripe(i) == Confirmed(i) \/ Refused(i)
Callback(i) == AnswerLost(i) \/ PaymentFailed(i) \/ PaymentSucceeded(i)
Read(i) == BalanceRead(i) \/ BalanceUnread(i)
Add(i) == BalanceAdded(i) \/ AmountTraps(i)

Next ==
    \/ SignIn \/ Commit \/ Crash
    \/ \E a \in Updates : Update(a)
    \/ \E i \in TopUps : \/ Start(i) \/ Secret(i) \/ PayPressed(i)
                         \/ Stripe(i) \/ Callback(i) \/ Read(i) \/ Add(i)

Spec == Init /\ [][Next]_vars

\* The client sends its queue while the user is signed in, the backend, Stripe
\* and Firestore answer, and callbacks run.  Presses and stops are not forced.
FairSpec ==
    /\ Spec
    /\ WF_vars(signedIn /\ Commit)
    /\ \A i \in TopUps : /\ WF_vars(Secret(i))
                         /\ WF_vars(Stripe(i))
                         /\ WF_vars(Callback(i))
                         /\ WF_vars(Read(i))
                         /\ WF_vars(Add(i))

-----------------------------------------------------------------------------
(* Properties.                                                             *)

\* The card is charged at most once per payment screen, and the balance is
\* raised at most once for it and never without a charge, however often Pay
\* is pressed and whatever answers are lost.
AddedOnce == \A i \in TopUps : intent[i] <= 1 /\ added[i] <= intent[i]

\* "Load more money onto their account" (src/README.md:37): what is stored, once
\* nothing is on its way, is what was loaded, received and paid.
BooksAgree == queue = <<>> => balance = ledger

\* The top-ups have met nothing else: FirebaseHelper wrote only while its balance
\* was the stored one and no top-up was between its read and its write, no two
\* top-ups overlapped there, no answer was lost, no app stopped in between, and
\* the amounts were numbers.
\* As long as this is so the books agree.
BooksAgreeInCalm == calm => BooksAgree

\* As long as this is so a charge ends up in the account: every request on the
\* way from pay's answer to addBalance's write is answered and its callback run.
ChargeAdded == \A i \in TopUps : intent[i] = 1 ~> added[i] = 1 \/ ~calm
=============================================================================
