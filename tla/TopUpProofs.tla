---------------------------- MODULE TopUpProofs ----------------------------
(***************************************************************************)
(* Type correctness of TopUp, and that a card is charged and the balance   *)
(* raised at most once for a payment screen, for every set of screens,     *)
(* entries and updates and every bound.                                    *)
(***************************************************************************)
EXTENDS TopUp, TLAPS

-----------------------------------------------------------------------------
(* Typing.                                                                 *)

LEMMA LocalTyped == TypeOK => Local \in Nat
  BY DEF TypeOK, Local

LEMMA CashTyped ==
    ASSUME TypeOK, NEW i \in TopUps
    PROVE  cash[i].amount \in Nat
  BY EntriesAssumption DEF TypeOK, Entry

LEMMA InitTyped == Init => TypeOK
  <1> SUFFICES ASSUME Init
               PROVE  TypeOK
    OBVIOUS
  <1>1. signedIn \in BOOLEAN
    BY Zenon DEF Init
  <1>2. adding \in [TopUps -> [at : {"no", "reading", "writing"}, read : Nat]]
    BY DEF Init, NotAdding
  <1>3. stage \in [TopUps -> Stages]
    BY DEF Init, Stages
  <1> QED
    BY <1>1, <1>2, <1>3, InitAssumption, BoundsAssumption DEF Init, TypeOK

LEMMA EndsTyped == TypeOK /\ ProcessEnds => TypeOK'
  <1> SUFFICES ASSUME TypeOK, ProcessEnds
               PROVE  TypeOK'
    OBVIOUS
  <1>1. signedIn' \in BOOLEAN
    BY Zenon DEF ProcessEnds
  <1>2. adding' \in [TopUps -> [at : {"no", "reading", "writing"}, read : Nat]]
    BY DEF ProcessEnds, NotAdding
  <1>3. stage' \in [TopUps -> Stages]
    BY DEF ProcessEnds, TypeOK, Stages
  <1> QED
    BY <1>1, <1>2, <1>3, BoundsAssumption DEF TypeOK, ProcessEnds, store

\* The rest of the app keeps the types.
LEMMA AppTyped ==
    ASSUME TypeOK, SignIn \/ Commit \/ Crash \/ \E a \in Updates : Update(a)
    PROVE  TypeOK'
  <1>1. CASE SignIn
    BY <1>1, LocalTyped DEF TypeOK, SignIn, store, history
  <1>2. CASE Commit
    BY <1>2 DEF TypeOK, Commit, memory, history
  <1>3. CASE Crash
    BY <1>3, EndsTyped DEF Crash
  <1>4. ASSUME NEW a \in Updates, Update(a)
        PROVE  TypeOK'
    <2>1. a \in Int
      BY UpdatesAssumption
    <2>2. curr_balance' \in Nat /\ queue' = Append(queue, curr_balance')
      BY <1>4, <2>1 DEF Update, TypeOK
    <2>3. queue' \in Seq(Nat)
      BY <2>2 DEF TypeOK
    <2> QED
      BY <1>4, <2>1, <2>2, <2>3, BoundsAssumption DEF TypeOK, Update
  <1> QED
    BY <1>1, <1>2, <1>3, <1>4

\* So do the steps of a payment screen.
LEMMA ScreenTyped ==
    ASSUME TypeOK, NEW i \in TopUps,
           \/ Start(i) \/ Secret(i) \/ PayPressed(i)
           \/ Stripe(i) \/ Callback(i) \/ Read(i) \/ Add(i)
    PROVE  TypeOK'
  <1>1. CASE OpenWithoutAmount(i) \/ AmountTraps(i)
    BY <1>1, EndsTyped DEF OpenWithoutAmount, AmountTraps
  <1>2. CASE Open(i) \/ Secret(i) \/ PayPressed(i)
    BY <1>2 DEF TypeOK, Open, Secret, SecretArrived, SecretMissing, PayPressed,
                Stages, store, memory, history
  <1>3. CASE Confirmed(i)
    BY <1>3 DEF TypeOK, Confirmed, Stages, store, memory, history
  <1>4. CASE Refused(i) \/ AnswerLost(i) \/ PaymentFailed(i)
    BY <1>4 DEF TypeOK, Refused, AnswerLost, PaymentFailed, Stages, store, memory,
                history
  <1>5. CASE PaymentSucceeded(i) \/ BalanceRead(i) \/ BalanceUnread(i)
    <2>1. adding' \in [TopUps -> [at : {"no", "reading", "writing"}, read : Nat]]
      <3>1. PICK r \in [at : {"no", "reading", "writing"}, read : Nat] :
                adding' = [adding EXCEPT ![i] = r]
        <4>1. /\ Reading \in [at : {"no", "reading", "writing"}, read : Nat]
              /\ NotAdding \in [at : {"no", "reading", "writing"}, read : Nat]
          BY DEF Reading, NotAdding
        <4>2. [at |-> "writing", read |-> Local]
                  \in [at : {"no", "reading", "writing"}, read : Nat]
          BY LocalTyped
        <4> QED
          BY <1>5, <4>1, <4>2 DEF PaymentSucceeded, BalanceRead, BalanceUnread
      <3> QED
        BY <3>1 DEF TypeOK
    <2> QED
      BY <1>5, <2>1 DEF TypeOK, PaymentSucceeded, BalanceRead, BalanceUnread, Stages,
                  store, memory, history
  <1>6. CASE BalanceAdded(i)
    <2>1. adding[i].read + cash[i].amount \in Nat
      BY CashTyped DEF TypeOK
    <2>2. queue' \in Seq(Nat)
      BY <1>6, <2>1 DEF BalanceAdded, TypeOK
    <2>3. ledger' \in Int
      BY <1>6, CashTyped DEF BalanceAdded, TypeOK
    <2> QED
      BY <1>6, <2>2, <2>3 DEF TypeOK, BalanceAdded, NotAdding, memory
  <1> QED
    BY <1>1, <1>2, <1>3, <1>4, <1>5, <1>6
       DEF Start, Stripe, Callback, Read, Add

LEMMA NextTyped == TypeOK /\ [Next]_vars => TypeOK'
  <1> SUFFICES ASSUME TypeOK, [Next]_vars
               PROVE  TypeOK'
    OBVIOUS
  <1>1. CASE UNCHANGED vars
    BY <1>1 DEF vars, store, memory, history, TypeOK
  <1> QED
    BY <1>1, AppTyped, ScreenTyped DEF Next

\* Every reachable state of TopUp is well-typed; no balance, stored, on its
\* way or in memory, is negative.
THEOREM TopUpTyped == Spec => []TypeOK
  BY InitTyped, NextTyped, PTL DEF Spec

-----------------------------------------------------------------------------
(* Charged and added once.  Stripe's answer and addBalance are two tokens   *)
(* for one charge: while one is there the sum has not been written, and     *)
(* only a charge makes the first and only the first the second.             *)

OneToken(i) ==
    /\ intent[i] <= 1
    /\ added[i] <= 1
    /\ added[i] = 1 => intent[i] = 1
    /\ stage[i] = "succeeded" =>
           intent[i] = 1 /\ added[i] = 0 /\ adding[i].at = "no"
    /\ adding[i].at # "no" => intent[i] = 1 /\ added[i] = 0

OnceInv == TypeOK /\ \A i \in TopUps : OneToken(i)

LEMMA InitOnce == Init => OnceInv
  BY InitTyped DEF Init, OnceInv, OneToken, NotAdding

\* The app stopped: whatever token there was is lost.
LEMMA EndsOnce ==
    ASSUME OnceInv, ProcessEnds, NEW j \in TopUps
    PROVE  OneToken(j)'
  BY DEF OnceInv, TypeOK, OneToken, ProcessEnds, NotAdding

\* Steps of other screens.
LEMMA OtherScreen ==
    ASSUME OnceInv, NEW j \in TopUps,
           UNCHANGED <<stage[j], intent[j], adding[j], added[j]>>
    PROVE  OneToken(j)'
  BY DEF OnceInv, OneToken

LEMMA NextOnce == OnceInv /\ [Next]_vars => OnceInv'
  <1> SUFFICES ASSUME OnceInv, [Next]_vars, NEW j \in TopUps
               PROVE  OneToken(j)'
    <2>1. TypeOK /\ [Next]_vars => TypeOK'
      BY NextTyped
    <2> QED
      BY <2>1 DEF OnceInv
  <1>1. CASE UNCHANGED vars
    BY <1>1, OtherScreen DEF vars, history
  <1>2. CASE SignIn \/ Commit \/ \E a \in Updates : Update(a)
    BY <1>2, OtherScreen DEF SignIn, Commit, Update, history
  <1>3. CASE Crash
    BY <1>3, EndsOnce DEF Crash
  <1>4. ASSUME NEW i \in TopUps,
               \/ Start(i) \/ Secret(i) \/ PayPressed(i)
               \/ Stripe(i) \/ Callback(i) \/ Read(i) \/ Add(i)
        PROVE  OneToken(j)'
    <2>0. /\ OneToken(j)
          /\ stage \in [TopUps -> Stages] /\ intent \in [TopUps -> Nat]
          /\ added \in [TopUps -> Nat]
          /\ adding \in [TopUps -> [at : {"no", "reading", "writing"}, read : Nat]]
      BY DEF OnceInv, TypeOK
    <2>1. CASE OpenWithoutAmount(i) \/ AmountTraps(i)
      BY <2>1, EndsOnce DEF OpenWithoutAmount, AmountTraps
    <2>2. CASE Open(i) \/ Secret(i) \/ PayPressed(i)
      BY <2>0, <2>2 DEF OneToken, Open, Secret, SecretArrived, SecretMissing,
             PayPressed, history
    <2>3. CASE Confirmed(i)
      <3>1. CASE j = i
        <4>1. intent[i] = 0 /\ intent'[i] = 1 /\ stage'[i] = "succeeded"
          BY <2>0, <2>3 DEF Confirmed
        <4>2. adding[i].at = "no" /\ added[i] = 0
          <5>1. OneToken(i) /\ added[i] \in Nat /\ intent[i] = 0
            BY <2>0, <3>1, <4>1
          <5> QED
            BY <5>1 DEF OneToken
        <4>3. adding' = adding /\ added' = added
          BY <2>3 DEF Confirmed, history
        <4> QED
          BY <3>1, <4>1, <4>2, <4>3 DEF OneToken
      <3>2. CASE j # i
        BY <2>0, <2>3, <3>2 DEF OneToken, Confirmed, history
      <3> QED
        BY <3>1, <3>2
    <2>4. CASE Refused(i) \/ AnswerLost(i) \/ PaymentFailed(i)
      BY <2>0, <2>4 DEF OneToken, Refused, AnswerLost, PaymentFailed, history
    <2>5. CASE PaymentSucceeded(i)
      BY <2>0, <2>5 DEF OneToken, PaymentSucceeded, Reading, history
    <2>6. CASE BalanceRead(i) \/ BalanceUnread(i)
      BY <2>0, <2>6 DEF OneToken, BalanceRead, BalanceUnread, NotAdding, history
    <2>7. CASE BalanceAdded(i)
      BY <2>0, <2>7 DEF OneToken, BalanceAdded, NotAdding
    <2> QED
      BY <1>4, <2>1, <2>2, <2>3, <2>4, <2>5, <2>6, <2>7
         DEF Start, Stripe, Callback, Read, Add
  <1> QED
    BY <1>1, <1>2, <1>3, <1>4 DEF Next

\* A card is charged at most once per payment screen, and the balance raised at
\* most once for it and never without the charge.
THEOREM ChargedAndAddedOnce == Spec => []AddedOnce
  <1>1. OnceInv => AddedOnce
    BY DEF OnceInv, TypeOK, OneToken, AddedOnce
  <1> QED
    BY <1>1, InitOnce, NextOnce, PTL DEF Spec

-----------------------------------------------------------------------------
(* The books in calm.  The device's balance is what was loaded, received    *)
(* and paid; a top-up that has read it is the only one that has, and is     *)
(* about to write the sum.                                                  *)

Writing(i) == adding[i].at = "writing"

CalmBooks ==
    calm => /\ Local = ledger
            /\ \A i \in TopUps : Writing(i) =>
                  /\ adding[i].read = Local
                  /\ \A j \in TopUps : Writing(j) => j = i

BooksInv == TypeOK /\ CalmBooks

\* What a device appends to its queue is its balance from then on.
LEMMA LocalAppended ==
    ASSUME NEW x, queue \in Seq(Nat), x \in Nat, queue' = Append(queue, x)
    PROVE  Local' = x
  BY DEF Local

\* Sending the oldest value does not change the device's balance.
LEMMA LocalCommitted == TypeOK /\ Commit => Local' = Local
  <1> SUFFICES ASSUME TypeOK, Commit
               PROVE  Local' = Local
    OBVIOUS
  <1>1. /\ queue \in Seq(Nat) /\ Len(queue) \in Nat /\ Len(queue) # 0
        /\ queue' = Tail(queue) /\ balance' = Head(queue)
    BY DEF TypeOK, Commit
  <1>2. queue' \in Seq(Nat) /\ Len(queue') = Len(queue) - 1
    BY <1>1
  <1>3. CASE Len(queue) = 1
    <2>1. queue' = <<>> /\ queue # <<>>
      BY <1>1, <1>2, <1>3
    <2> QED
      BY <1>1, <1>3, <2>1 DEF Local
  <1>4. CASE Len(queue) # 1
    <2>0. Len(queue') # 0 /\ Len(<<>>) = 0
      BY <1>1, <1>2, <1>4
    <2>1. queue' # <<>> /\ queue # <<>>
      BY <1>1, <2>0
    <2>2. queue'[Len(queue')] = queue[Len(queue)]
      BY <1>1, <1>2, <1>4
    <2> QED
      BY <2>1, <2>2 DEF Local
  <1> QED
    BY <1>3, <1>4

LEMMA InitBooks == Init => BooksInv
  <1> SUFFICES ASSUME Init
               PROVE  CalmBooks
    BY InitTyped DEF BooksInv
  <1>1. Local = ledger
    BY DEF Init, Local
  <1>2. \A i \in TopUps : ~Writing(i)
    BY DEF Init, Writing, NotAdding
  <1> QED
    BY <1>1, <1>2 DEF CalmBooks

\* The app stopped, in calm only when no top-up was under way.
LEMMA EndsBooks == BooksInv /\ ProcessEnds => CalmBooks'
  <1> SUFFICES ASSUME BooksInv, ProcessEnds, calm'
               PROVE  /\ Local' = ledger'
                      /\ \A i \in TopUps : ~Writing(i)'
    BY DEF CalmBooks
  <1>1. calm
    BY Zenon DEF ProcessEnds
  <1>2. Local' = Local /\ ledger' = ledger
    BY DEF ProcessEnds, store, Local
  <1>3. \A i \in TopUps : adding'[i] = NotAdding
    BY DEF ProcessEnds
  <1> QED
    BY <1>1, <1>2, <1>3 DEF BooksInv, CalmBooks, Writing, NotAdding

\* Steps that neither read nor write a balance.
LEMMA BooksUntouched ==
    ASSUME BooksInv, UNCHANGED <<store, ledger, calm>>,
           \A i \in TopUps : Writing(i)' => adding'[i] = adding[i]
    PROVE  CalmBooks'
  BY DEF BooksInv, CalmBooks, Writing, Local, store

LEMMA NextBooks == BooksInv /\ [Next]_vars => BooksInv'
  <1> SUFFICES ASSUME BooksInv, [Next]_vars
               PROVE  CalmBooks'
    BY NextTyped DEF BooksInv
  <1>0. TypeOK
    BY DEF BooksInv
  <1>1. CASE UNCHANGED vars
    BY <1>1, BooksUntouched DEF vars, history, Writing
  <1>2. CASE SignIn
    BY <1>2, BooksUntouched DEF SignIn, history, Writing
  <1>3. CASE Commit
    BY <1>0, <1>3, LocalCommitted
       DEF BooksInv, CalmBooks, Commit, Writing, history
  <1>4. CASE Crash
    BY <1>4, EndsBooks DEF Crash
  <1>5. ASSUME NEW a \in Updates, Update(a)
        PROVE  CalmBooks'
    <2> SUFFICES ASSUME calm'
                 PROVE  /\ Local' = ledger'
                        /\ \A i \in TopUps : ~Writing(i)'
      BY DEF CalmBooks
    <2>1. calm /\ NoneWriting /\ curr_balance = Local
      BY <1>5, Zenon DEF Update
    <2>2. curr_balance + a \in Nat /\ queue \in Seq(Nat)
      BY <1>0, <1>5, UpdatesAssumption DEF Update, TypeOK
    <2>3. Local' = curr_balance + a
      BY <1>5, <2>2, LocalAppended DEF Update
    <2>4. ledger' = Local + a
      BY <1>5, <2>1 DEF Update, BooksInv, CalmBooks
    <2> QED
      BY <1>5, <2>1, <2>3, <2>4 DEF Update, NoneWriting, Writing
  <1>6. ASSUME NEW i \in TopUps,
               \/ Start(i) \/ Secret(i) \/ PayPressed(i)
               \/ Stripe(i) \/ Callback(i) \/ Read(i) \/ Add(i)
        PROVE  CalmBooks'
    <2>0. adding \in [TopUps -> [at : {"no", "reading", "writing"}, read : Nat]]
      BY <1>0 DEF TypeOK
    <2>1. CASE OpenWithoutAmount(i) \/ AmountTraps(i)
      BY <2>1, EndsBooks DEF OpenWithoutAmount, AmountTraps
    <2>2. CASE Open(i) \/ Secret(i) \/ PayPressed(i) \/ Stripe(i) \/ PaymentFailed(i)
      BY <2>2, BooksUntouched
         DEF Open, Secret, SecretArrived, SecretMissing, PayPressed, Stripe,
             Confirmed, Refused, PaymentFailed, history, Writing
    <2>3. CASE AnswerLost(i) \/ BalanceUnread(i)
      BY <2>3, Zenon DEF AnswerLost, BalanceUnread, CalmBooks
    <2>4. CASE PaymentSucceeded(i)
      BY <2>0, <2>4, BooksUntouched DEF PaymentSucceeded, Reading, history, Writing
    <2>5. CASE BalanceRead(i)
      <3> SUFFICES ASSUME calm'
                   PROVE  /\ Local' = ledger'
                          /\ \A j \in TopUps : Writing(j)' =>
                                j = i /\ adding'[j].read = Local'
        BY DEF CalmBooks
      <3>1. calm /\ NoneWriting
        BY <2>5, Zenon DEF BalanceRead
      <3>2. Local' = Local /\ Local = ledger /\ ledger' = ledger
        BY <2>5, <3>1 DEF BalanceRead, store, Local, BooksInv, CalmBooks
      <3> QED
        BY <2>0, <2>5, <3>1, <3>2 DEF BalanceRead, NoneWriting, Writing
    <2>6. CASE BalanceAdded(i)
      <3> SUFFICES ASSUME calm'
                   PROVE  /\ Local' = ledger'
                          /\ \A j \in TopUps : ~Writing(j)'
        BY DEF CalmBooks
      <3>1. calm /\ Writing(i)
        BY <2>6 DEF BalanceAdded, Writing
      <3>2. adding[i].read = ledger /\ \A j \in TopUps : Writing(j) => j = i
        BY <3>1 DEF BooksInv, CalmBooks
      <3>3. adding[i].read + cash[i].amount \in Nat /\ queue \in Seq(Nat)
        BY <1>0, CashTyped DEF TypeOK
      <3>4. Local' = adding[i].read + cash[i].amount
        BY <2>6, <3>3, LocalAppended DEF BalanceAdded
      <3> QED
        BY <2>0, <2>6, <3>2, <3>4 DEF BalanceAdded, Writing, NotAdding
    <2> QED
      BY <1>6, <2>1, <2>2, <2>3, <2>4, <2>5, <2>6
         DEF Start, Callback, Read, Add
  <1> QED
    BY <1>1, <1>2, <1>3, <1>4, <1>5, <1>6 DEF Next

\* As long as top-ups meet nothing else, what is stored is what was loaded,
\* received and paid: addBalance writes the sum of the balance it has read.
THEOREM BooksAgreeProved == Spec => []BooksAgreeInCalm
  <1>1. BooksInv => BooksAgreeInCalm
    BY DEF BooksInv, CalmBooks, BooksAgreeInCalm, BooksAgree, Local
  <1> QED
    BY <1>1, InitBooks, NextBooks, PTL DEF Spec
=============================================================================
