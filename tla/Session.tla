------------------------------ MODULE Session ------------------------------
(***************************************************************************)
(* The accounts of one phone: registering, signing in, signing out, and    *)
(* what an account leaves behind for the next one.                         *)
(*                                                                         *)
(* FirebaseHelper.shared_instance and Crypto.shared_instance are static    *)
(* variables.  A callback that was registered for one account finds the    *)
(* next account's instances in them if it runs late.  The money path is    *)
(* reduced to what tells accounts apart: a balance is the account whose    *)
(* stored balance it was computed from.  Amounts, threads and the queue of *)
(* writes are the subject of Wallet, the friend requests of Friends.       *)
(*                                                                         *)
(* Those who pay the accounts of this phone are friends of each of them;   *)
(* their phones are external.                                              *)
(***************************************************************************)
EXTENDS Naturals, FiniteSets

CONSTANTS
    Users,      \* the accounts
    Payments,   \* payments others make to them
    To,         \* to whom each payment goes
    MaxSignIns, \* bound: presses of Login and Register
    MaxStops,   \* bound: ends of the process
    Events      \* which of PossibleEvents may happen

PossibleEvents == {"secondPress", "earlySignOut", "signOutThrows", "readFails"}
None == "none"

ASSUME SessionAssumption ==
    /\ None \notin Users
    /\ To \in [Payments -> Users]
    /\ MaxSignIns \in Nat /\ MaxStops \in Nat
    /\ Events \subseteq PossibleEvents

VARIABLES
    accounts,   \* the accounts that exist, with their documents in users
    stored,     \* whose balance users/{uid}.balance was computed from
    pending,    \* the documents in transactions
    auth,       \* Auth.auth().currentUser
    screen,     \* "root" (welcome, login, register) or "home" and above it
    pressed,    \* the account typed at each press of Login or Register
    asked,      \* presses whose answer is out, with the button
    helper,     \* FirebaseHelper.shared_instance: the press it was made at
    crypto,     \* Crypto.shared_instance: whose private key it has
    curr,       \* whose balance curr_balance of each instance is
    loading,    \* instances whose balance request is out
    attached,   \* attached listeners; each is named after its balance request
    self,       \* the instance that attached it
    reg,        \* money_listener of each instance
    seen,       \* what each listener was last called with
    watching,   \* instances with the listener of updateFriends (see Friends)
    keyReqs,    \* receipts whose key request is out: listener and payment
    \* bookkeeping of the model
    credited,   \* the accounts each payment was added to
    recorded,   \* the accounts in whose history it was recorded
    calm,       \* no event of Events has happened yet
    stops

server == <<accounts, stored, pending>>
phone == <<auth, screen, pressed, asked, helper, crypto>>
listening == <<attached, self, reg, seen, watching>>
history == <<credited, recorded, calm, stops>>
vars == <<server, phone, curr, loading, listening, keyReqs, history>>

SignIns == 1..MaxSignIns
Nobody == 0                      \* no instance, no listener
Account(h) == pressed[h]
NotCalled == {"not called"}      \* differs from every set of payments

Init ==
    /\ accounts \in SUBSET Users
    /\ stored = [u \in Users |-> IF u \in accounts THEN u ELSE None]
    /\ pending = {}
    /\ auth = None /\ screen = "root"
    /\ pressed = [i \in SignIns |-> None] /\ asked = {}
    /\ helper = Nobody /\ crypto = None
    /\ curr = [i \in SignIns |-> None] /\ loading = {}
    /\ attached = {} /\ self = [i \in SignIns |-> Nobody]
    /\ reg = [i \in SignIns |-> Nobody]
    /\ seen = [i \in SignIns |-> NotCalled]
    /\ watching = {} /\ keyReqs = {}
    /\ credited = [t \in Payments |-> {}] /\ recorded = [t \in Payments |-> {}]
    /\ calm = TRUE /\ stops = 0

-----------------------------------------------------------------------------
(* Signing in.                                                             *)

\* loginPressed and registerPressed: the button stays enabled.
Press(i, u, button) ==
    /\ screen = "root" /\ pressed[i] = None
    /\ \A j \in 1..i-1 : pressed[j] # None
    /\ pressed' = [pressed EXCEPT ![i] = u]
    /\ asked' = asked \cup {[by |-> i, button |-> button]}
    /\ \/ asked = {} /\ UNCHANGED calm
       \/ asked # {} /\ "secondPress" \in Events /\ calm' = FALSE
    /\ UNCHANGED <<server, auth, screen, helper, crypto, curr, loading,
                   listening, keyReqs, credited, recorded, stops>>

EnterWithoutHelper(i) ==
    /\ auth' = pressed[i] /\ screen' = "home"
    /\ crypto' = pressed[i] /\ helper' = helper
    /\ UNCHANGED <<pending, pressed, curr, loading, listening, keyReqs, history>>

\* Crypto.initialize, createUser and FirebaseHelper.initialize, which asks for
\* the balance.
Enter(i) ==
    /\ auth' = pressed[i] /\ screen' = "home"
    /\ crypto' = pressed[i] /\ helper' = i
    /\ loading' = loading \cup {i}
    /\ UNCHANGED <<pending, pressed, curr, listening, keyReqs, history>>

SignedIn(r) ==
    /\ r \in asked /\ r.button = "login" /\ pressed[r.by] \in accounts
    /\ asked' = asked \ {r}
    /\ Enter(r.by)
    /\ UNCHANGED <<accounts, stored>>

Registered(r) ==
    /\ r \in asked /\ r.button = "register" /\ pressed[r.by] \notin accounts
    /\ asked' = asked \ {r}
    /\ accounts' = accounts \cup {pressed[r.by]}
    /\ stored' = [stored EXCEPT ![pressed[r.by]] = pressed[r.by]]
    /\ Enter(r.by)

\* A wrong password, no such account, an account of that name, no network.
SignInFails(r) ==
    /\ r \in asked
    /\ asked' = asked \ {r}
    /\ UNCHANGED <<server, auth, screen, pressed, helper, crypto, curr, loading,
                   listening, keyReqs, history>>

AttachOwn(i) ==
    /\ attached' = attached \cup {i}
    /\ self' = [self EXCEPT ![i] = helper]
    /\ UNCHANGED <<reg, seen>>

\* updateAccount: the closure keeps the instance it was called on.  The
\* registration goes into the shared instance.
Attach(i) ==
    /\ attached' = attached \cup {i}
    /\ self' = [self EXCEPT ![i] = helper]
    /\ reg' = [reg EXCEPT ![helper] = i]
    /\ UNCHANGED seen

\* The balance of the account that asked for it goes into the shared instance.
BalanceLoaded(i) ==
    /\ i \in loading
    /\ loading' = loading \ {i}
    /\ \/ /\ curr' = [curr EXCEPT ![helper] = stored[Account(i)]]
          /\ UNCHANGED calm
       \/ /\ "readFails" \in Events
          /\ curr' = [curr EXCEPT ![helper] = None]
          /\ calm' = FALSE
    /\ Attach(i)
    /\ watching' = watching \cup {helper}
    /\ UNCHANGED <<server, phone, keyReqs, credited, recorded, stops>>

-----------------------------------------------------------------------------
(* While signed in.                                                        *)

\* Another phone pays.
Post(t) ==
    /\ t \notin pending /\ credited[t] = {}
    /\ pending' = pending \cup {t}
    /\ UNCHANGED <<accounts, stored, phone, curr, loading, listening, keyReqs,
                   history>>

\* The listener takes one document for the account of the shared instance.
Snapshot(l) ==
    /\ l \in attached /\ seen[l] # pending
    /\ seen' = [seen EXCEPT ![l] = pending]
    /\ LET mine == {t \in pending : To[t] = Account(helper)}
       IN  IF mine = {} THEN UNCHANGED keyReqs
           ELSE \E t \in mine :
                   keyReqs' = keyReqs \cup {[by |-> l, of |-> t]}
    /\ UNCHANGED <<server, phone, curr, loading, attached, self, reg,
                   watching, history>>

ReadableByAll(t) == TRUE

\* Only the account a payment was encrypted for can read the amount.
Readable(t) == crypto = To[t]

\* updateBalance of the shared instance.
UpdateStored == [stored EXCEPT ![Account(helper)] = curr[helper]]

DeleteNothing(t) == pending' = pending

\* doc.reference.delete.
Delete(t) == pending' = pending \ {t}

\* The keys are those of the instance that attached the listener, the private
\* key is the shared one, the balance that of the shared instance, the history
\* that of the listener's instance.
KeysFetched(r) ==
    /\ r \in keyReqs
    /\ keyReqs' = keyReqs \ {r}
    /\ IF Readable(r.of)
       THEN /\ stored' = UpdateStored
            /\ Delete(r.of)
            /\ credited' = [credited EXCEPT ![r.of] = @ \cup {Account(helper)}]
            /\ recorded' = [recorded EXCEPT ![r.of] =
                              @ \cup {Account(self[r.by])}]
       ELSE UNCHANGED <<stored, pending, credited, recorded>>
    /\ UNCHANGED <<accounts, phone, curr, loading, listening, calm, stops>>

KeysMissing(r) ==
    /\ r \in keyReqs /\ "readFails" \in Events
    /\ keyReqs' = keyReqs \ {r} /\ calm' = FALSE
    /\ UNCHANGED <<server, phone, curr, loading, listening, credited,
                   recorded, stops>>

\* pay_pressed; a balance of 0 cannot pay.
Pay ==
    /\ screen = "home" /\ curr[helper] # None
    /\ stored' = UpdateStored
    /\ UNCHANGED <<accounts, pending, phone, curr, loading, listening, keyReqs,
                   history>>

-----------------------------------------------------------------------------
(* Signing out and stopping.                                               *)

DetachNothing == attached' = attached

\* detatch_listeners removes the one the shared instance knows of.
Detach == attached' = attached \ {reg[helper]}

\* No answer is out that would come after the user has signed out.
Quiet == asked = {} /\ loading = {} /\ keyReqs = {}

LogOut ==
    /\ screen = "home"
    /\ Detach
    /\ auth' = None /\ screen' = "root"
    /\ \/ Quiet /\ UNCHANGED calm
       \/ ~Quiet /\ "earlySignOut" \in Events /\ calm' = FALSE
    /\ UNCHANGED <<server, pressed, asked, helper, crypto, curr, loading, self,
                   reg, seen, watching, keyReqs, credited, recorded, stops>>

\* signOut throws, and the user stays signed in without a listener.
LogOutThrows ==
    /\ screen = "home" /\ "signOutThrows" \in Events
    /\ Detach
    /\ calm' = FALSE
    /\ UNCHANGED <<server, phone, curr, loading, self, reg, seen, watching,
                   keyReqs, credited, recorded, stops>>

\* Firebase remembers who is signed in, the app starts at the root.
Stop ==
    /\ stops < MaxStops /\ helper # Nobody
    /\ stops' = stops + 1
    /\ screen' = "root" /\ helper' = Nobody /\ crypto' = None
    /\ asked' = {} /\ loading' = {} /\ attached' = {} /\ keyReqs' = {}
    /\ watching' = {}
    /\ UNCHANGED <<server, auth, pressed, curr, self, reg, seen, credited,
                   recorded, calm>>

Answers ==
    \/ \E r \in asked : SignedIn(r) \/ Registered(r) \/ SignInFails(r)
    \/ \E i \in loading : BalanceLoaded(i)
    \/ \E l \in attached : Snapshot(l)
    \/ \E r \in keyReqs : KeysFetched(r) \/ KeysMissing(r)

Next ==
    \/ \E i \in SignIns, u \in Users, b \in {"login", "register"} : Press(i, u, b)
    \/ Answers
    \/ \E t \in Payments : Post(t)
    \/ Pay
    \/ LogOut \/ LogOutThrows
    \/ Stop

Spec == Init /\ [][Next]_vars

\* Firestore answers, and the main thread goes on.
FairSpec == Spec /\ WF_vars(Answers)

-----------------------------------------------------------------------------

TypeOK ==
    /\ accounts \subseteq Users
    /\ stored \in [Users -> Users \cup {None}]
    /\ pending \subseteq Payments
    /\ auth \in Users \cup {None} /\ screen \in {"root", "home"}
    /\ pressed \in [SignIns -> Users \cup {None}]
    /\ asked \subseteq [by : SignIns, button : {"login", "register"}]
    /\ helper \in SignIns \cup {Nobody} /\ crypto \in Users \cup {None}
    /\ curr \in [SignIns -> Users \cup {None}] /\ loading \subseteq SignIns
    /\ attached \subseteq SignIns /\ watching \subseteq SignIns
    /\ self \in [SignIns -> SignIns \cup {Nobody}]
    /\ reg \in [SignIns -> SignIns \cup {Nobody}]
    /\ keyReqs \subseteq [by : SignIns, of : Payments]
    /\ screen = "home" => helper # Nobody

\* A payment is added to the balance of the account it was sent to and to no
\* other, however late the answers of updateAccount and encryptData are and
\* whoever is signed in by then.
CreditsTarget == \A t \in Payments : credited[t] \subseteq {To[t]}

\* updateBalance "takes the previous amount and the new amount to update the"
\* account (FirebaseHelperTransactions.swift:184): an account's stored balance
\* was computed from that account's balance.  The callback of initialize puts
\* the balance of the account that asked into the instance of another.
OwnBalance == \A u \in accounts : stored[u] = u

\* In calm so it was, and what is in an account's history came to that account:
\* the instance a listener was attached by, the one its registration is in and
\* the one its handler finds are the same.
OwnAccountInCalm ==
    calm => OwnBalance /\ \A t \in Payments : recorded[t] \subseteq {To[t]}

\* In calm, signing out leaves nothing running: no listener of the account is
\* attached once nobody is signed in, and never more than one.
NothingLeftBehind ==
    calm => /\ \A l \in attached : helper # Nobody /\ reg[helper] = l
            /\ screen = "root" => attached = {} /\ keyReqs = {}

\* In calm, a payment to the account that is signed in is taken in.
TakenIn ==
    \A t \in Payments :
        (t \in pending /\ screen = "home" /\ auth = To[t])
        ~> (t \notin pending \/ screen = "root" \/ ~calm)
=============================================================================
