--------------------------- MODULE SessionProofs ---------------------------
(* What Session's theorems rest on: the inductive invariant, step by step. *)
EXTENDS Session, TLAPS

\* The statics belong together, and a callback finds them set: the key of the
\* keychain is that of the shared instance, and whatever is out or attached was
\* made while there was an instance.
Statics ==
    /\ helper # Nobody => crypto = Account(helper) /\ Account(helper) \in accounts
    /\ helper = Nobody => loading = {} /\ attached = {} /\ keyReqs = {}
    /\ \A i \in loading : Account(i) \in accounts
    /\ \A l \in attached : self[l] \in SignIns
    /\ \A r \in keyReqs : self[r.by] \in SignIns

\* What the calm keeps in order: at most one answer chain is running, it belongs
\* to the shared instance, and the balance is there before anything uses it.
Order ==
    /\ \A l \in attached : reg[helper] = l /\ self[l] = helper
    /\ screen = "root" => attached = {} /\ loading = {} /\ keyReqs = {}
    /\ screen = "home" => asked = {}
    /\ helper # Nobody => curr[helper] \in {None, Account(helper)}
    /\ \A i \in loading : i = helper /\ attached = {} /\ keyReqs = {}
    /\ \A r \in keyReqs : self[r.by] = helper /\ curr[helper] # None
    /\ attached # {} => curr[helper] # None
    /\ \A t \in Payments : recorded[t] \subseteq {To[t]}
    /\ OwnBalance

\* A press is answered once; until then its instance does not exist.
Fresh ==
    /\ \A r, s \in asked : r.by = s.by => r = s
    /\ calm => \A r, s \in asked : r = s
    /\ \A r \in asked : pressed[r.by] # None /\ curr[r.by] = None /\ r.by # helper
    /\ \A i \in SignIns : pressed[i] = None => curr[i] = None

\* The types of the histories, which TypeOK leaves out.
Shapes ==
    /\ credited \in [Payments -> SUBSET Users]
    /\ recorded \in [Payments -> SUBSET (Users \cup {None})]

\* The inductive invariant: Order only as long as the calm lasts.
IInv == TypeOK /\ Shapes /\ Statics /\ Fresh /\ CreditsTarget /\ (calm => Order)

Answer(r) == SignedIn(r) \/ Registered(r)

USE SessionAssumption DEF SignIns, Nobody, None, Account, IInv

LEMMA Initial == Init => IInv
  <1> SUFFICES ASSUME Init PROVE IInv
    OBVIOUS
  <1> USE DEF Init
  <1>1. TypeOK
    BY DEF TypeOK
  <1>2. Shapes /\ CreditsTarget
    BY DEF Shapes, CreditsTarget
  <1>3. Statics /\ Fresh
    BY DEF Statics, Fresh
  <1>4. Order
    BY DEF Order, OwnBalance
  <1> QED BY <1>1, <1>2, <1>3, <1>4

LEMMA PressKeeps ==
  ASSUME IInv, NEW i \in SignIns, NEW u \in Users, NEW b \in {"login", "register"},
         Press(i, u, b)
  PROVE  IInv'
  <1> USE DEF Press, server, listening
  <1>1. TypeOK' /\ Shapes'
    BY DEF TypeOK, Shapes
  <1>2. Statics'
    BY DEF TypeOK, Statics
  <1>3. Fresh'
    BY DEF TypeOK, Statics, Fresh
  <1>4. CreditsTarget'
    BY DEF CreditsTarget
  <1>5. calm' => Order'
    BY DEF TypeOK, Statics, Order, OwnBalance
  <1> QED BY <1>1, <1>2, <1>3, <1>4, <1>5

LEMMA AnswerKeeps ==
  ASSUME IInv, NEW r \in asked, Answer(r)
  PROVE  IInv'
  <1> DEFINE i == r.by
  <1> USE DEF server, listening, history
  <1>0. /\ r \in [by : SignIns, button : {"login", "register"}] /\ i \in SignIns
        /\ pressed[i] \in Users
    BY DEF TypeOK, Fresh
  <1>a. /\ asked' = asked \ {r} /\ helper' = i /\ crypto' = pressed[i]
        /\ loading' = loading \cup {i} /\ auth' = pressed[i] /\ screen' = "home"
        /\ UNCHANGED <<pending, pressed, curr, attached, self, reg, seen,
                       watching, keyReqs, credited, recorded, calm, stops>>
    BY DEF Answer, SignedIn, Registered, Enter
  <1>b. /\ accounts \subseteq accounts' /\ accounts' \subseteq Users
        /\ pressed[i] \in accounts'
    BY <1>0 DEF Answer, SignedIn, Registered, TypeOK
  <1>c. /\ stored' \in [Users -> Users \cup {None}]
        /\ \A u \in accounts' :
              \/ stored'[u] = u
              \/ u \in accounts /\ stored'[u] = stored[u]
    <2>1. CASE SignedIn(r)
      BY <2>1 DEF SignedIn, TypeOK
    <2>2. CASE Registered(r)
      <3>1. /\ stored \in [Users -> Users \cup {None}] /\ accounts \subseteq Users
            /\ accounts' = accounts \cup {pressed[i]}
            /\ stored' = [stored EXCEPT ![pressed[i]] = pressed[i]]
        BY <2>2 DEF Registered, TypeOK
      <3>2. stored' \in [Users -> Users \cup {None}]
        BY <3>1, <1>0
      <3>3. ASSUME NEW u \in accounts', u # pressed[i]
            PROVE  u \in accounts /\ stored'[u] = stored[u]
        BY <3>1, <3>3, <1>0
      <3>4. stored'[pressed[i]] = pressed[i]
        BY <3>1, <1>0
      <3> QED BY <3>2, <3>3, <3>4
    <2> QED BY <2>1, <2>2 DEF Answer
  <1>1. TypeOK'
    <2>1. asked' \subseteq asked
      BY <1>a
    <2>2. helper' # Nobody
      BY <1>0, <1>a
    <2>3. loading' \subseteq SignIns
      BY <1>0, <1>a DEF TypeOK
    <2> QED BY <1>0, <1>a, <1>b, <1>c, <2>1, <2>2, <2>3 DEF TypeOK
  <1>6. Shapes'
    BY <1>a DEF Shapes
  <1>2. Statics'
    BY <1>0, <1>a, <1>b DEF TypeOK, Statics
  <1>3. Fresh'
    BY <1>0, <1>a DEF TypeOK, Fresh
  <1>4. CreditsTarget'
    BY <1>a DEF CreditsTarget
  <1>5. calm' => Order'
    <2> SUFFICES ASSUME calm' PROVE Order'
      OBVIOUS
    <2>1. Order /\ screen = "root"
      BY <1>a DEF Order, TypeOK
    <2>2. attached' = {} /\ keyReqs' = {} /\ loading' = {i} /\ asked' = {}
      BY <2>1, <1>a DEF Order, Fresh
    <2>3. curr'[helper'] = None
      BY <1>a DEF Fresh
    <2>4. OwnBalance'
      BY <2>1, <1>c DEF Order, OwnBalance
    <2> QED BY <2>1, <2>2, <2>3, <2>4, <1>a DEF Order
  <1> QED BY <1>1, <1>2, <1>3, <1>4, <1>5, <1>6

LEMMA SignInFailsKeeps ==
  ASSUME IInv, NEW r \in asked, SignInFails(r)
  PROVE  IInv'
  BY DEF SignInFails, server, listening, history, TypeOK, Shapes, Statics, Fresh,
         CreditsTarget, Order, OwnBalance

LEMMA BalanceLoadedKeeps ==
  ASSUME IInv, NEW i \in loading, BalanceLoaded(i)
  PROVE  IInv'
  <1> USE DEF BalanceLoaded, Attach, server, phone
  <1>0. /\ i \in SignIns /\ helper \in SignIns
        /\ Account(i) \in accounts /\ stored[Account(i)] \in Users \cup {None}
    BY DEF TypeOK, Statics
  <1>1. TypeOK' /\ Shapes'
    BY <1>0 DEF TypeOK, Shapes
  <1>2. Statics'
    BY <1>0 DEF TypeOK, Statics
  <1>3. Fresh'
    BY <1>0 DEF TypeOK, Statics, Fresh
  <1>4. CreditsTarget'
    BY DEF CreditsTarget
  <1>5. calm' => Order'
    <2> SUFFICES ASSUME calm' PROVE Order'
      OBVIOUS
    <2>1. Order /\ helper = i /\ attached = {} /\ keyReqs = {} /\ loading' = {}
      BY DEF Order
    <2>2. stored[Account(i)] = Account(i) /\ Account(i) \in Users
      BY <2>1, <1>0 DEF Order, OwnBalance, TypeOK
    <2>3. curr'[helper'] = Account(helper')
      BY <2>1, <2>2, <1>0 DEF TypeOK
    <2>4. attached' = {i} /\ reg'[helper'] = i /\ self'[i] = helper'
      BY <2>1, <1>0 DEF TypeOK
    <2>5. screen' # "root"
      BY <2>1 DEF Order
    <2> QED BY <2>1, <2>2, <2>3, <2>4, <2>5 DEF Order, OwnBalance
  <1> QED BY <1>1, <1>2, <1>3, <1>4, <1>5

LEMMA PostKeeps ==
  ASSUME IInv, NEW t \in Payments, Post(t)
  PROVE  IInv'
  BY DEF Post, phone, listening, history, TypeOK, Shapes, Statics, Fresh,
         CreditsTarget, Order, OwnBalance

LEMMA SnapshotKeeps ==
  ASSUME IInv, NEW l \in attached, Snapshot(l)
  PROVE  IInv'
  <1> USE DEF Snapshot, server, phone, history
  <1>0. \A r \in keyReqs' : r \in keyReqs \/ r.by = l
    OBVIOUS
  <1>1. TypeOK' /\ Shapes'
    BY DEF TypeOK, Shapes
  <1>2. Statics'
    BY <1>0 DEF TypeOK, Statics
  <1>3. Fresh' /\ CreditsTarget'
    BY DEF Fresh, CreditsTarget
  <1>4. calm' => Order'
    BY <1>0 DEF TypeOK, Statics, Order, OwnBalance
  <1> QED BY <1>1, <1>2, <1>3, <1>4

\* Where the money goes: the answer is read with the key of the shared instance.
LEMMA KeysFetchedKeeps ==
  ASSUME IInv, NEW r \in keyReqs, KeysFetched(r)
  PROVE  IInv'
  <1> DEFINE a == Account(helper)
             b == Account(self[r.by])
  <1> USE DEF phone, listening
  <1>0. /\ r.of \in Payments /\ helper \in SignIns /\ self[r.by] \in SignIns
        /\ a \in Users /\ b \in Users \cup {None} /\ crypto = a
        /\ curr[helper] \in Users \cup {None}
    BY DEF TypeOK, Statics
  <1>u. /\ keyReqs' = keyReqs \ {r}
        /\ UNCHANGED <<accounts, phone, curr, loading, listening, calm, stops>>
    BY DEF KeysFetched
  <1>r. \/ UNCHANGED <<stored, pending, credited, recorded>>
        \/ /\ To[r.of] = a
           /\ stored' = [stored EXCEPT ![a] = curr[helper]]
           /\ pending' = pending \ {r.of}
           /\ credited' = [credited EXCEPT ![r.of] = @ \cup {a}]
           /\ recorded' = [recorded EXCEPT ![r.of] = @ \cup {b}]
    BY <1>0 DEF KeysFetched, Readable, Delete, UpdateStored
  <1>1. TypeOK'
    BY <1>0, <1>u, <1>r DEF TypeOK
  <1>2. Shapes'
    BY <1>0, <1>r DEF Shapes
  <1>3. Statics' /\ Fresh'
    BY <1>u DEF Statics, Fresh
  <1>4. CreditsTarget'
    <2> SUFFICES ASSUME NEW t \in Payments PROVE credited'[t] \subseteq {To[t]}
      BY DEF CreditsTarget
    <2>1. credited'[t] = credited[t] \/ (t = r.of /\ credited'[t] = credited[t] \cup {a}
                                         /\ To[t] = a)
      BY <1>0, <1>r DEF Shapes
    <2> QED BY <2>1 DEF CreditsTarget
  <1>5. calm' => Order'
    <2> SUFFICES ASSUME calm' PROVE Order'
      OBVIOUS
    <2>1. Order /\ b = a /\ curr[helper] = a
      BY <1>0, <1>u DEF Order
    <2>2. ASSUME NEW t \in Payments PROVE recorded'[t] \subseteq {To[t]}
      <3>1. recorded'[t] = recorded[t] \/ (t = r.of /\ recorded'[t] = recorded[t] \cup {a}
                                           /\ To[t] = a)
        BY <1>0, <1>r, <2>1 DEF Shapes
      <3> QED BY <3>1, <2>1 DEF Order
    <2>3. ASSUME NEW u \in accounts PROVE stored'[u] = u
      <3>1. stored'[u] = stored[u] \/ (u = a /\ stored'[u] = a)
        BY <1>0, <1>r, <2>1 DEF TypeOK
      <3> QED BY <3>1, <2>1 DEF Order, OwnBalance
    <2> QED BY <1>u, <2>1, <2>2, <2>3 DEF Order, OwnBalance
  <1> QED BY <1>1, <1>2, <1>3, <1>4, <1>5

LEMMA KeysMissingKeeps ==
  ASSUME IInv, NEW r \in keyReqs, KeysMissing(r)
  PROVE  IInv'
  BY DEF KeysMissing, server, phone, listening, TypeOK, Shapes, Statics, Fresh,
         CreditsTarget

LEMMA PayKeeps ==
  ASSUME IInv, Pay
  PROVE  IInv'
  <1> USE DEF Pay, UpdateStored, phone, listening, history
  <1>0. helper \in SignIns /\ Account(helper) \in Users
    BY DEF TypeOK, Statics
  <1>1. TypeOK' /\ Shapes' /\ Statics' /\ Fresh' /\ CreditsTarget'
    BY <1>0 DEF TypeOK, Shapes, Statics, Fresh, CreditsTarget
  <1>2. calm' => Order'
    BY <1>0 DEF TypeOK, Statics, Order, OwnBalance
  <1> QED BY <1>1, <1>2

LEMMA LeaveKeeps ==
  ASSUME IInv, LogOut \/ LogOutThrows \/ Stop
  PROVE  IInv'
  <1>1. CASE LogOut
    <2> USE <1>1 DEF LogOut, Detach, server
    <2>1. TypeOK' /\ Shapes' /\ CreditsTarget'
      BY DEF TypeOK, Shapes, CreditsTarget
    <2>3. Statics'
      BY DEF Statics
    <2>4. Fresh'
      BY DEF Fresh
    <2>2. calm' => Order'
      <3> SUFFICES ASSUME calm' PROVE Order'
        OBVIOUS
      <3>1. Order /\ asked = {} /\ loading = {} /\ keyReqs = {} /\ attached' = {}
        BY DEF Order, Quiet
      <3> QED BY <3>1 DEF Order, OwnBalance
    <2> QED BY <2>1, <2>2, <2>3, <2>4
  <1>2. CASE LogOutThrows
    BY <1>2 DEF LogOutThrows, Detach, server, phone, TypeOK, Shapes, Statics,
                Fresh, CreditsTarget
  <1>3. CASE Stop
    BY <1>3 DEF Stop, server, TypeOK, Shapes, Statics, Fresh, CreditsTarget,
                Order, OwnBalance
  <1> QED BY <1>1, <1>2, <1>3

LEMMA StutterKeeps ==
  ASSUME IInv, UNCHANGED vars
  PROVE  IInv'
  BY DEF vars, server, phone, listening, history, TypeOK, Shapes, Statics, Fresh,
         CreditsTarget, Order, OwnBalance

LEMMA StepKeeps == IInv /\ [Next]_vars => IInv'
  BY PressKeeps, AnswerKeeps, SignInFailsKeeps, BalanceLoadedKeeps, PostKeeps,
     SnapshotKeeps, KeysFetchedKeeps, KeysMissingKeeps, PayKeeps, LeaveKeeps,
     StutterKeeps
     DEF Next, Answers, Answer

\* The invariant holds in every state a phone can be in.
THEOREM InvariantHolds == Spec => []IInv
  <1> USE DEF IInv
  <1>1. Init => IInv
    BY Initial
  <1>2. IInv /\ [Next]_vars => IInv'
    BY StepKeeps
  <1> QED BY <1>1, <1>2, PTL DEF Spec

\* Every reachable state is well-typed.
THEOREM SessionTyped == Spec => []TypeOK
  <1>1. IInv => TypeOK
    BY DEF IInv
  <1> QED BY <1>1, InvariantHolds, PTL

\* A payment is never added to another account than the one it was sent to.
THEOREM CreditedToTarget == Spec => []CreditsTarget
  <1>1. IInv => CreditsTarget
    BY DEF IInv
  <1> QED BY <1>1, InvariantHolds, PTL

\* An account's balance is computed from its own, and its history holds what was
\* sent to it, as long as nobody signs out while an answer is out.
THEOREM AccountsApart == Spec => []OwnAccountInCalm
  <1>1. IInv => OwnAccountInCalm
    BY DEF IInv, Order, OwnAccountInCalm
  <1> QED BY <1>1, InvariantHolds, PTL

\* As long as that is so, signing out leaves no listener and no request behind.
THEOREM SignOutIsClean == Spec => []NothingLeftBehind
  <1>1. IInv => NothingLeftBehind
    BY DEF IInv, Order, Statics, NothingLeftBehind
  <1> QED BY <1>1, InvariantHolds, PTL
=============================================================================
