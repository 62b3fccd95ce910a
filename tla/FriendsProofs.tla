--------------------------- MODULE FriendsProofs ---------------------------
(***************************************************************************)
(* Type correctness of Friends, that nobody gets a friend without consent, *)
(* that answers are final and that friends hold each other's keys, for     *)
(* every set of users and requests and every bound.                        *)
(***************************************************************************)
EXTENDS Friends, FiniteSetTheorems, TLAPS

-----------------------------------------------------------------------------
(* Typing.                                                                 *)

\* What a device sees of the collection are documents.
LEMMA ViewTyped ==
    ASSUME TypeOK, NEW u \in Users
    PROVE  View(u) \in [Requests -> Doc]
  <1> SUFFICES ASSUME NEW r \in Requests
               PROVE  (IF Present(u, r)
                       THEN There(docs[r].named \/ InQueue(u, "setId", r),
                                  IF InQueue(u, "accept", r) THEN key[u]
                                  ELSE docs[r].tkey)
                       ELSE NoDoc) \in Doc
    BY DEF View
  <1>1. docs[r] \in Doc /\ key[u] \in Nat
    BY DEF TypeOK
  <1>2. NoDoc \in Doc
    BY DEF NoDoc, NoKey, Doc
  <1>3. (docs[r].named \/ InQueue(u, "setId", r)) \in BOOLEAN
    OBVIOUS
  <1> QED
    BY <1>1, <1>2, <1>3 DEF There, Doc

\* Appending writes keeps the queues queues of writes.
LEMMA EnqueueTyped ==
    ASSUME TypeOK, NEW u \in Users, NEW ws \in Seq(Write), Enqueue(u, ws)
    PROVE  queue' \in [Users -> Seq(Write)]
  BY DEF TypeOK, Enqueue

\* The documents updateFriends goes through, in order, are answered requests.
LEMMA OrderTyped ==
    ASSUME TypeOK, NEW u \in Users, NEW order \in Ascending(Answered(u))
    PROVE  order \in Seq(Requests) /\ \A i \in DOMAIN order : order[i] \in Answered(u)
  <1>1. Answered(u) \subseteq Requests
    BY DEF Answered
  <1>2. IsFiniteSet(Answered(u))
    BY <1>1, RequestsAssumption, FS_Subset
  <1>3. Cardinality(Answered(u)) \in Nat
    BY <1>2, FS_CardinalityType
  <1>4. order \in [1..Cardinality(Answered(u)) -> Answered(u)]
    BY DEF Ascending
  <1> QED
    BY <1>1, <1>3, <1>4

\* What the listener queues: a friend document per answered request, and the
\* deletions that go astray.
Befriends(u, order) ==
    [i \in DOMAIN order |-> W("befriend", order[i], View(u)[order[i]].tkey)]

Deletions(order) == [i \in DOMAIN order |-> W("deleteUser", order[i], NoKey)]

LEMMA BatchTyped ==
    ASSUME TypeOK, NEW u \in Users, NEW order \in Ascending(Answered(u))
    PROVE  /\ Befriends(u, order) \in Seq(Write)
           /\ Deletions(order) \in Seq(Write)
           /\ Len(Befriends(u, order)) = Len(order)
           /\ Len(Deletions(order)) = Len(order)
           /\ Befriends(u, order) \o Deletions(order) \in Seq(Write)
  <1>1. order \in Seq(Requests) /\ DOMAIN order = 1..Len(order) /\ Len(order) \in Nat
    BY OrderTyped
  <1>2. \A i \in DOMAIN order : W("befriend", order[i], View(u)[order[i]].tkey) \in Write
    <2> TAKE i \in DOMAIN order
    <2>1. order[i] \in Requests
      BY <1>1
    <2>2. View(u)[order[i]].tkey \in Nat
      BY <2>1, ViewTyped DEF Doc
    <2> QED
      BY <2>1, <2>2 DEF W, Write, Ops
  <1>3. \A i \in DOMAIN order : W("deleteUser", order[i], NoKey) \in Write
    BY <1>1 DEF W, Write, Ops, NoKey
  <1>4. Befriends(u, order) \in [1..Len(order) -> Write]
    BY <1>1, <1>2 DEF Befriends
  <1>5. Deletions(order) \in [1..Len(order) -> Write]
    BY <1>1, <1>3 DEF Deletions
  <1>6. Befriends(u, order) \in Seq(Write) /\ Len(Befriends(u, order)) = Len(order)
    BY <1>1, <1>4
  <1>7. Deletions(order) \in Seq(Write) /\ Len(Deletions(order)) = Len(order)
    BY <1>1, <1>5
  <1> QED
    BY <1>6, <1>7

LEMMA InitTyped == Init => TypeOK
  BY DEF Init, TypeOK, NoDoc, Doc, NoKey, Stranger, Closed, NothingSeen, Write

\* A request after a write is a document.
LEMMA DocAfterTyped ==
    ASSUME NEW d \in Doc, NEW w \in Write
    PROVE  DocAfter(d, w) \in Doc
  BY DEF DocAfter, There, Doc, Write, Gone, NoKey

LEMMA PairTyped ==
    ASSUME TypeOK, NEW u \in Users, NEW w \in Write
    PROVE  Pair(u, w) \in [mine : Nat, theirs : Nat]
  BY DEF TypeOK, Pair, Write

LEMMA PartiesTyped ==
    ASSUME TypeOK, NEW r \in Requests
    PROVE  /\ From(r) \in Users /\ To(r) \in Users
           /\ \A u \in Users : Other(r, u) \in Users
  <1>1. request[r] \in Users \X Users
    BY SearchesAssumption DEF TypeOK
  <1> QED
    BY <1>1 DEF From, To, Other

LEMMA ProcessEndsTyped ==
    ASSUME TypeOK, NEW u \in Users, ProcessEnds(u)
    PROVE  /\ session' \in [Users -> {"none", "starting", "listening"}]
           /\ seen' \in [Users -> [Requests -> Doc]]
           /\ screen' \in [Users -> [at : {"closed", "loading", "shown"},
                                     friends : SUBSET Users, rows : SUBSET Requests]]
           /\ press' \in [Requests -> {"none", "lookup", "done"}]
           /\ stops' \in Nat
           /\ UNCHANGED <<docs, friend, skey, request>>
  BY DEF TypeOK, ProcessEnds, Close, Closed, NothingSeen, NoDoc, Doc, NoKey, server

\* Each user's step keeps the types.
LEMMA UserTyped ==
    ASSUME TypeOK, NEW u \in Users,
           \/ SignIn(u) \/ StartListening(u) \/ RequestsSnapshot(u)
           \/ ScreenNext(u) \/ Commit(u) \/ Crash(u) \/ NewDevice(u)
    PROVE  TypeOK'
  <1>1. CASE SignIn(u)
    BY <1>1 DEF TypeOK, SignIn, server
  <1>2. CASE StartListening(u)
    BY <1>2 DEF TypeOK, StartListening, server, NothingSeen, NoDoc, Doc, NoKey
  <1>3. CASE RequestsSnapshot(u)
    <2>1. PICK order \in Ascending(Answered(u)) :
              Enqueue(u, Befriends(u, order) \o Deletions(order))
      BY <1>3 DEF RequestsSnapshot, Befriends, Deletions
    <2>2. queue' \in [Users -> Seq(Write)]
      BY <2>1, BatchTyped, EnqueueTyped
    <2>3. seen' \in [Users -> [Requests -> Doc]]
      BY <1>3, ViewTyped DEF RequestsSnapshot, TypeOK
    <2> QED
      BY <1>3, <2>2, <2>3 DEF TypeOK, RequestsSnapshot, server
  <1>4. CASE ScreenNext(u)
    <2>1. CASE OpenScreen(u)
      BY <2>1 DEF TypeOK, OpenScreen, server, Closed
    <2>2. CASE FriendsLoaded(u)
      <3>1. PICK fs \in SUBSET Users :
                screen' = [screen EXCEPT ![u] =
                               [at |-> "shown", friends |-> fs, rows |-> {}]]
        BY <2>2 DEF FriendsLoaded
      <3> QED
        BY <2>2, <3>1 DEF TypeOK, FriendsLoaded, server
    <2>3. CASE ScreenSnapshot(u)
      <3>1. NewRows(u) \subseteq Requests
        BY DEF NewRows, Offered
      <3>2. screen' \in [Users -> [at : {"closed", "loading", "shown"},
                                   friends : SUBSET Users, rows : SUBSET Requests]]
        <4> DEFINE rows == screen[u].rows \cup NewRows(u)
        <4>1. screen[u] \in [at : {"closed", "loading", "shown"},
                             friends : SUBSET Users, rows : SUBSET Requests]
          BY DEF TypeOK
        <4>2. rows \in SUBSET Requests
          BY <3>1, <4>1
        <4>3. screen' = [screen EXCEPT ![u] = [screen[u] EXCEPT !.rows = rows]]
          BY <2>3 DEF ScreenSnapshot
        <4> HIDE DEF rows
        <4>4. [screen[u] EXCEPT !.rows = rows]
                  \in [at : {"closed", "loading", "shown"},
                       friends : SUBSET Users, rows : SUBSET Requests]
          BY <4>1, <4>2
        <4> QED
          BY <4>3, <4>4 DEF TypeOK
      <3> QED
        BY <2>3, <3>2 DEF TypeOK, ScreenSnapshot, server
    <2>4. CASE CloseScreen(u)
      BY <2>4 DEF TypeOK, CloseScreen, Close, Closed, server
    <2> QED
      BY <1>4, <2>1, <2>2, <2>3, <2>4 DEF ScreenNext
  <1>5. CASE Commit(u)
    <2> DEFINE w == Head(queue[u])
    <2>1. queue[u] \in Seq(Write) /\ queue[u] # <<>>
      BY <1>5 DEF TypeOK, Commit
    <2>2. w \in Write /\ Tail(queue[u]) \in Seq(Write)
      BY <2>1
    <2> HIDE DEF w
    <2>3. docs' = [docs EXCEPT ![w.doc] = DocAfter(@, w)]
      BY <1>5 DEF Commit, w
    <2>4. docs' \in [Requests -> Doc]
      BY <2>2, <2>3, DocAfterTyped DEF TypeOK, Write
    <2>5. Pair(u, w) \in [mine : Nat, theirs : Nat] /\ w.doc \in Requests
      BY <2>2, PairTyped DEF Write
    <2>6. Other(w.doc, u) \in Users
      BY <2>5, PartiesTyped
    <2>7. friend' = friend \/ friend' = [friend EXCEPT ![u][Other(w.doc, u)] = Pair(u, w)]
      BY <1>5 DEF Commit, w
    <2>8. friend' \in [Users -> [Users -> [mine : Nat, theirs : Nat]]]
      <3>1. CASE friend' = friend
        BY <3>1 DEF TypeOK
      <3>2. CASE friend' = [friend EXCEPT ![u][Other(w.doc, u)] = Pair(u, w)]
        <4>1. friend[u] \in [Users -> [mine : Nat, theirs : Nat]]
          BY DEF TypeOK
        <4>2. [friend[u] EXCEPT ![Other(w.doc, u)] = Pair(u, w)]
                  \in [Users -> [mine : Nat, theirs : Nat]]
          BY <4>1, <2>5, <2>6
        <4> QED
          BY <3>2, <4>2 DEF TypeOK
      <3> QED
        BY <2>7, <3>1, <3>2
    <2>9. queue' \in [Users -> Seq(Write)]
      BY <1>5, <2>2 DEF Commit, TypeOK
    <2> QED
      BY <1>5, <2>4, <2>8, <2>9 DEF TypeOK, Commit, app
  <1>6. CASE Crash(u)
    BY <1>6, ProcessEndsTyped DEF TypeOK, Crash
  <1>7. CASE NewDevice(u)
    <2>1. queue' \in [Users -> Seq(Write)]
      BY <1>7 DEF NewDevice, TypeOK
    <2>2. key' \in [Users -> Nat \ {NoKey}]
      BY <1>7 DEF NewDevice, TypeOK, NoKey
    <2> QED
      BY <1>7, <2>1, <2>2, ProcessEndsTyped DEF TypeOK, NewDevice
  <1> QED
    BY <1>1, <1>2, <1>3, <1>4, <1>5, <1>6, <1>7

\* So does each step that is about one row or one press of Add.
LEMMA RequestTyped ==
    ASSUME TypeOK, NEW r \in Requests,
           \/ \E u \in Users : RowNext(u, r)
           \/ AddPressed(r) \/ Found(r) \/ LookupFailed(r)
    PROVE  TypeOK'
  <1>1. ASSUME NEW u \in Users, RowNext(u, r)
        PROVE  TypeOK'
    <2>1. W("accept", r, key[u]) \in Write /\ W("befriend", r, key[u]) \in Write
          /\ W("delete", r, NoKey) \in Write
      BY DEF TypeOK, W, Write, Ops, NoKey
    <2> DEFINE yes == <<W("accept", r, key[u]), W("befriend", r, key[u])>>
               cut == <<W("accept", r, key[u])>>
               no == <<W("delete", r, NoKey)>>
    <2>a. yes \in Seq(Write) /\ cut \in Seq(Write) /\ no \in Seq(Write)
      BY <2>1
    <2>2. CASE Accept(u, r)
      <3>1. queue' \in [Users -> Seq(Write)]
        BY <2>a, <2>2, EnqueueTyped DEF Accept
      <3> QED
        BY <2>2, <3>1 DEF TypeOK, Accept, Close, Closed, server
    <2>3. CASE Reject(u, r)
      <3>1. queue' \in [Users -> Seq(Write)]
        BY <2>a, <2>3, EnqueueTyped DEF Reject
      <3> QED
        BY <2>3, <3>1 DEF TypeOK, Reject, Close, Closed, server
    <2>5. CASE Withdraw(u, r)
      <3>1. queue' \in [Users -> Seq(Write)]
        BY <2>a, <2>5, EnqueueTyped DEF Withdraw
      <3> QED
        BY <2>5, <3>1 DEF TypeOK, Withdraw, Close, Closed, server
    <2>4. CASE KilledInAccept(u, r)
      <3>1. queue' \in [Users -> Seq(Write)]
        BY <2>a, <2>4, EnqueueTyped DEF KilledInAccept
      <3> QED
        BY <2>4, <3>1, ProcessEndsTyped DEF TypeOK, KilledInAccept
    <2> QED
      BY <1>1, <2>2, <2>3, <2>4, <2>5 DEF RowNext
  <1>2. CASE AddPressed(r)
    <2>1. From(r) \in Users /\ key[From(r)] \in Nat
      BY PartiesTyped DEF TypeOK, NoKey
    <2> QED
      BY <1>2, <2>1 DEF TypeOK, AddPressed, server
  <1>3. CASE Found(r)
    <2>1. W("create", r, NoKey) \in Write /\ W("setId", r, NoKey) \in Write
      BY DEF W, Write, Ops, NoKey
    <2>2. queue' \in [Users -> Seq(Write)]
      <3>1. <<W("create", r, NoKey), W("setId", r, NoKey)>> \in Seq(Write)
        BY <2>1
      <3>2. From(r) \in Users
        BY PartiesTyped
      <3> QED
        BY <1>3, <3>1, <3>2, EnqueueTyped DEF Found
    <2> QED
      BY <1>3, <2>2 DEF TypeOK, Found, server
  <1>4. CASE LookupFailed(r)
    BY <1>4 DEF TypeOK, LookupFailed, server
  <1> QED
    BY <1>1, <1>2, <1>3, <1>4

LEMMA NextTyped == TypeOK /\ [Next]_vars => TypeOK'
  <1> SUFFICES ASSUME TypeOK, [Next]_vars
               PROVE  TypeOK'
    OBVIOUS
  <1>1. CASE UNCHANGED vars
    BY <1>1 DEF vars, server, app, TypeOK
  <1>2. CASE Next
    BY <1>2, UserTyped, RequestTyped DEF Next
  <1> QED
    BY <1>1, <1>2

\* Every reachable state of Friends is well-typed, whatever the users, the
\* requests and the bounds.
THEOREM FriendsTyped == Spec => []TypeOK
  BY InitTyped, NextTyped, PTL DEF Spec

-----------------------------------------------------------------------------
(* Consent.  A friend document is written from a queue, and queued by the   *)
(* target's Yes or by the sender's listener, which saw the target's key in  *)
(* the request.  So ConsentInv says of each of these that Yes was pressed.  *)

LEMMA InitConsent == Init => ConsentInv
  BY InitTyped DEF Init, ConsentInv, QueuesJustified, KeysJustified, Consent,
                   IsFriend, NoDoc, Stranger

\* A device sees a target's key only in a request that was accepted.
LEMMA ViewJustified ==
    ASSUME ConsentInv, NEW u \in Users, NEW r \in Requests,
           View(u)[r].tkey # NoKey
    PROVE  r \in accepted
  <1>1. View(u)[r] = IF Present(u, r)
                     THEN There(docs[r].named \/ InQueue(u, "setId", r),
                                IF InQueue(u, "accept", r) THEN key[u]
                                ELSE docs[r].tkey)
                     ELSE NoDoc
    BY DEF View
  <1>2. InQueue(u, "accept", r) \/ docs[r].tkey # NoKey
    BY <1>1 DEF There, NoDoc
  <1>3. CASE InQueue(u, "accept", r)
    BY <1>3 DEF InQueue, ConsentInv, QueuesJustified, YesWrite
  <1>4. CASE docs[r].tkey # NoKey
    BY <1>4 DEF ConsentInv, KeysJustified
  <1> QED
    BY <1>2, <1>3, <1>4

\* Queueing what is justified.
LEMMA EnqueueJustified ==
    ASSUME ConsentInv, NEW u \in Users, NEW ws \in Seq(Write), Enqueue(u, ws),
           accepted \subseteq accepted', request' = request,
           \A i \in 1..Len(ws) : YesWrite(ws[i]) => /\ ws[i].doc \in accepted'
                                                   /\ Involves(ws[i].doc, u)
    PROVE  QueuesJustified'
  <1> SUFFICES ASSUME NEW v \in Users, NEW i \in 1..Len(queue'[v]),
                      YesWrite(queue'[v][i])
               PROVE  /\ queue'[v][i].doc \in accepted'
                      /\ Involves(queue'[v][i].doc, v)
    BY DEF QueuesJustified, YesWrite, Involves, From, To
  <1>1. queue[v] \in Seq(Write)
    BY DEF ConsentInv, TypeOK
  <1>2. queue'[v] = IF v = u THEN queue[v] \o ws ELSE queue[v]
    BY DEF Enqueue, ConsentInv, TypeOK
  <1>3. CASE i \in 1..Len(queue[v])
    <2>1. queue'[v][i] = queue[v][i]
      BY <1>1, <1>2, <1>3
    <2> QED
      BY <2>1, <1>3 DEF ConsentInv, QueuesJustified
  <1>4. CASE i \notin 1..Len(queue[v])
    <2>1. v = u /\ queue'[v] = queue[v] \o ws
      BY <1>2, <1>4
    <2>2. i - Len(queue[v]) \in 1..Len(ws) /\ queue'[v][i] = ws[i - Len(queue[v])]
      BY <1>1, <1>4, <2>1
    <2> QED
      BY <2>1, <2>2
  <1> QED
    BY <1>3, <1>4

\* Steps that leave documents alone.
LEMMA Undisturbed ==
    ASSUME ConsentInv, TypeOK', QueuesJustified',
           UNCHANGED <<docs, friend, request>>, accepted \subseteq accepted'
    PROVE  ConsentInv'
  BY DEF ConsentInv, KeysJustified, Consent, IsFriend, Involves, Other, From, To

\* Steps that leave the queues and the answers alone too.
LEMMA Idle ==
    ASSUME ConsentInv, TypeOK', UNCHANGED <<docs, friend, request, queue, accepted>>
    PROVE  ConsentInv'
  <1>1. QueuesJustified'
    BY DEF ConsentInv, QueuesJustified, Involves, From, To
  <1> QED
    BY <1>1, Undisturbed

\* The listener queues friend documents for the answered requests it sees.
LEMMA SnapshotConsent ==
    ASSUME ConsentInv, TypeOK', NEW u \in Users, RequestsSnapshot(u)
    PROVE  ConsentInv'
  <1>0. TypeOK
    BY DEF ConsentInv
  <1>1. PICK order \in Ascending(Answered(u)) :
            Enqueue(u, Befriends(u, order) \o Deletions(order))
    BY DEF RequestsSnapshot, Befriends, Deletions
  <1> DEFINE bs == Befriends(u, order)
             ds == Deletions(order)
  <1>2. bs \in Seq(Write) /\ ds \in Seq(Write) /\ bs \o ds \in Seq(Write)
        /\ Len(bs) = Len(order) /\ Len(ds) = Len(order)
    BY <1>0, BatchTyped
  <1>3. order \in Seq(Requests) /\ \A i \in DOMAIN order : order[i] \in Answered(u)
    BY <1>0, OrderTyped
  <1>4. \A i \in 1..Len(bs) : bs[i].doc \in accepted /\ Involves(bs[i].doc, u)
    <2> TAKE i \in 1..Len(bs)
    <2>1. i \in DOMAIN order /\ order[i] \in Answered(u) /\ order[i] \in Requests
      BY <1>2, <1>3
    <2>2. bs[i].doc = order[i]
      BY <2>1 DEF Befriends, W
    <2>3. View(u)[order[i]].tkey # NoKey /\ From(order[i]) = u
      BY <2>1 DEF Answered
    <2> QED
      BY <2>1, <2>2, <2>3, ViewJustified DEF Involves
  <1>5. \A i \in 1..Len(ds) : ~YesWrite(ds[i])
    BY <1>2, <1>3 DEF Deletions, W, YesWrite
  <1> HIDE DEF bs, ds
  <1>6. \A i \in 1..Len(bs \o ds) :
            YesWrite((bs \o ds)[i]) => /\ (bs \o ds)[i].doc \in accepted
                                       /\ Involves((bs \o ds)[i].doc, u)
    <2> TAKE i \in 1..Len(bs \o ds)
    <2>1. CASE i \in 1..Len(bs)
      BY <1>2, <1>4, <2>1
    <2>2. CASE i \notin 1..Len(bs)
      <3>1. (bs \o ds)[i] = ds[i - Len(bs)] /\ i - Len(bs) \in 1..Len(ds)
        BY <1>2, <2>2
      <3> QED
        BY <1>5, <3>1
    <2> QED
      BY <2>1, <2>2
  <1>7. UNCHANGED <<docs, friend, request, accepted>>
    BY DEF RequestsSnapshot, server
  <1>8. Enqueue(u, bs \o ds)
    BY <1>1 DEF bs, ds
  <1>9. QueuesJustified'
    BY <1>2, <1>6, <1>7, <1>8, EnqueueJustified
  <1> QED
    BY <1>7, <1>9, Undisturbed

\* Yes, whether or not its second write is made, and No.
LEMMA RowConsent ==
    ASSUME ConsentInv, TypeOK', NEW u \in Users, NEW r \in Requests, RowNext(u, r)
    PROVE  ConsentInv'
  <1>1. W("accept", r, key[u]) \in Write /\ W("befriend", r, key[u]) \in Write
        /\ W("delete", r, NoKey) \in Write
    BY DEF ConsentInv, TypeOK, W, Write, Ops, NoKey
  <1> DEFINE yes == <<W("accept", r, key[u]), W("befriend", r, key[u])>>
             cut == <<W("accept", r, key[u])>>
             no == <<W("delete", r, NoKey)>>
  <1>2. yes \in Seq(Write) /\ cut \in Seq(Write) /\ no \in Seq(Write)
    BY <1>1
  <1>3. UNCHANGED <<docs, friend, request>> /\ accepted \subseteq accepted'
    BY DEF RowNext, Accept, Reject, Withdraw, KilledInAccept, ProcessEnds, server
  <1>4. /\ \A i \in 1..Len(yes) : yes[i].doc = r
        /\ \A i \in 1..Len(cut) : cut[i].doc = r
        /\ \A i \in 1..Len(no) : ~YesWrite(no[i])
    BY DEF W, YesWrite
  <1> HIDE DEF yes, cut, no
  <1>5. CASE Accept(u, r)
    <2>1. r \in accepted' /\ Involves(r, u) /\ Enqueue(u, yes)
      BY <1>5 DEF Accept, Involves, yes
    <2> QED
      BY <1>2, <1>3, <1>4, <2>1, EnqueueJustified, Undisturbed
  <1>6. CASE KilledInAccept(u, r)
    <2>1. r \in accepted' /\ Involves(r, u) /\ Enqueue(u, cut)
      BY <1>6 DEF KilledInAccept, Involves, cut
    <2> QED
      BY <1>2, <1>3, <1>4, <2>1, EnqueueJustified, Undisturbed
  <1>7. CASE Reject(u, r) \/ Withdraw(u, r)
    <2>1. Enqueue(u, no)
      BY <1>7 DEF Reject, Withdraw, no
    <2> QED
      BY <1>2, <1>3, <1>4, <2>1, EnqueueJustified, Undisturbed
  <1> QED
    BY <1>5, <1>6, <1>7 DEF RowNext

\* A request is found and made: no answer is in it.
LEMMA FoundConsent ==
    ASSUME ConsentInv, TypeOK', NEW r \in Requests, Found(r)
    PROVE  ConsentInv'
  <1> DEFINE ws == <<W("create", r, NoKey), W("setId", r, NoKey)>>
  <1>1. From(r) \in Users
    BY PartiesTyped DEF ConsentInv
  <1>2. W("create", r, NoKey) \in Write /\ W("setId", r, NoKey) \in Write
    BY DEF W, Write, Ops, NoKey
  <1>3. ws \in Seq(Write)
    BY <1>2
  <1>4. \A i \in 1..Len(ws) : ~YesWrite(ws[i])
    BY DEF W, YesWrite
  <1>5. Enqueue(From(r), ws) /\ UNCHANGED <<docs, friend, request, accepted>>
    BY DEF Found, server
  <1> HIDE DEF ws
  <1> QED
    BY <1>1, <1>3, <1>4, <1>5, EnqueueJustified, Undisturbed

\* The server takes a justified write.
LEMMA CommitConsent ==
    ASSUME ConsentInv, TypeOK', NEW u \in Users, Commit(u)
    PROVE  ConsentInv'
  <1> DEFINE w == Head(queue[u])
  <1>1. queue[u] \in Seq(Write) /\ queue[u] # <<>> /\ w = queue[u][1]
        /\ 1 \in 1..Len(queue[u])
    BY DEF ConsentInv, TypeOK, Commit
  <1>2. w \in Write
    BY <1>1
  <1>3. YesWrite(w) => w.doc \in accepted /\ Involves(w.doc, u)
    BY <1>1 DEF ConsentInv, QueuesJustified
  <1>4. UNCHANGED <<request, accepted>>
    BY DEF Commit
  <1>5. QueuesJustified'
    <2> SUFFICES ASSUME NEW v \in Users, NEW i \in 1..Len(queue'[v]),
                        YesWrite(queue'[v][i])
                 PROVE  /\ queue'[v][i].doc \in accepted
                        /\ Involves(queue'[v][i].doc, v)
      BY <1>4 DEF QueuesJustified, YesWrite, Involves, From, To
    <2>1. queue'[v] = IF v = u THEN Tail(queue[v]) ELSE queue[v]
      BY DEF Commit, ConsentInv, TypeOK
    <2>2. CASE v = u
      <3>1. i + 1 \in 1..Len(queue[u]) /\ queue'[v][i] = queue[u][i + 1]
        BY <1>1, <2>1, <2>2
      <3> QED
        BY <2>2, <3>1 DEF ConsentInv, QueuesJustified
    <2>3. CASE v # u
      BY <2>1, <2>3 DEF ConsentInv, QueuesJustified
    <2> QED
      BY <2>2, <2>3
  <1> HIDE DEF w
  <1>6. docs' = [docs EXCEPT ![w.doc] = DocAfter(@, w)]
    BY DEF Commit, w
  <1>7. KeysJustified'
    <2> SUFFICES ASSUME NEW r \in Requests, docs'[r].tkey # NoKey
                 PROVE  r \in accepted
      BY <1>4 DEF KeysJustified
    <2>1. CASE r = w.doc
      <3>1. docs'[r] = DocAfter(docs[r], w)
        BY <1>6, <2>1 DEF ConsentInv, TypeOK
      <3>2. w.op = "accept" \/ docs[r].tkey # NoKey
        BY <3>1, <1>2 DEF DocAfter, There, Gone, Write
      <3> QED
        BY <1>3, <2>1, <3>2 DEF YesWrite, ConsentInv, KeysJustified
    <2>2. CASE r # w.doc
      BY <1>6, <2>2 DEF ConsentInv, TypeOK, KeysJustified
    <2> QED
      BY <2>1, <2>2
  <1>8. Consent'
    <2> SUFFICES ASSUME NEW a \in Users, NEW b \in Users, friend'[a][b] # Stranger
                 PROVE  \E r \in accepted : Involves(r, a) /\ Other(r, a) = b
      BY <1>4 DEF Consent, IsFriend, Involves, Other, From, To
    <2>1. CASE friend[a][b] # Stranger
      BY <2>1 DEF ConsentInv, Consent, IsFriend
    <2>2. CASE friend[a][b] = Stranger
      <3>1. w.op = "befriend"
            /\ friend' = [friend EXCEPT ![u][Other(w.doc, u)] = Pair(u, w)]
        BY <2>2 DEF Commit, w
      <3>2. a = u /\ b = Other(w.doc, u)
        <4>1. friend \in [Users -> [Users -> [mine : Nat, theirs : Nat]]]
          BY DEF ConsentInv, TypeOK
        <4>2. friend'[a] = IF a = u THEN [friend[a] EXCEPT ![Other(w.doc, u)] = Pair(u, w)]
                           ELSE friend[a]
          BY <3>1, <4>1
        <4>3. friend[a] \in [Users -> [mine : Nat, theirs : Nat]]
          BY <4>1
        <4> QED
          BY <2>2, <4>2, <4>3
      <3>3. w.doc \in accepted /\ Involves(w.doc, u)
        BY <1>3, <3>1 DEF YesWrite
      <3> QED
        BY <3>2, <3>3
    <2> QED
      BY <2>1, <2>2
  <1> QED
    BY <1>5, <1>7, <1>8 DEF ConsentInv

LEMMA NextConsent == ConsentInv /\ [Next]_vars => ConsentInv'
  <1> SUFFICES ASSUME ConsentInv, [Next]_vars
               PROVE  ConsentInv'
    OBVIOUS
  <1>1. TypeOK'
    BY NextTyped DEF ConsentInv
  <1>2. CASE UNCHANGED vars
    BY <1>1, <1>2, Idle DEF vars, server
  <1>3. ASSUME NEW u \in Users, SignIn(u) \/ StartListening(u) \/ ScreenNext(u) \/ Crash(u)
        PROVE  ConsentInv'
    BY <1>1, <1>3, Idle DEF SignIn, StartListening, ScreenNext, OpenScreen,
           FriendsLoaded, ScreenSnapshot, CloseScreen, Crash, ProcessEnds, server
  <1>4. ASSUME NEW u \in Users, NewDevice(u)
        PROVE  ConsentInv'
    <2>1. UNCHANGED <<docs, friend, request, accepted>>
      BY <1>4 DEF NewDevice, ProcessEnds, server
    <2>2. \A v \in Users : queue'[v] = IF v = u THEN <<>> ELSE queue[v]
      BY <1>4 DEF NewDevice, ConsentInv, TypeOK
    <2>3. QueuesJustified'
      BY <2>1, <2>2 DEF ConsentInv, QueuesJustified, Involves, From, To
    <2> QED
      BY <1>1, <2>1, <2>3, Undisturbed
  <1>5. ASSUME NEW r \in Requests, AddPressed(r) \/ LookupFailed(r)
        PROVE  ConsentInv'
    BY <1>1, <1>5, Idle DEF AddPressed, LookupFailed, server
  <1> QED
    BY <1>1, <1>2, <1>3, <1>4, <1>5, SnapshotConsent, RowConsent, FoundConsent,
       CommitConsent DEF Next

\* Nobody ever has a friend document without a request between the two that
\* its target accepted, whatever is withdrawn, rejected, lost or repeated.
THEOREM NoFriendWithoutConsent == Spec => []Consent
  <1>1. ConsentInv => Consent
    BY DEF ConsentInv
  <1> QED
    BY <1>1, InitConsent, NextConsent, PTL DEF Spec

-----------------------------------------------------------------------------
(* The inductive invariants.                                               *)

\* A write of the given kind for r is queued on u's device before position i.
QueuedBefore(u, op, r, i) ==
    \E j \in DOMAIN queue[u] : j < i /\ queue[u][j].op = op /\ queue[u][j].doc = r

\* A request is made once, by its sender, and what removes it is queued behind
\* that, on the same device, or after it was there.
Made(r) == docs[r].at # "none"

WriteInOrder(u, i) ==
    LET w == queue[u][i]
    IN  /\ w.op = "create" =>
              /\ u = From(w.doc) /\ press[w.doc] = "done" /\ ~Made(w.doc)
              /\ ~QueuedBefore(u, "create", w.doc, i)
        /\ w.op \in {"delete", "accept"} =>
              Made(w.doc) \/ (u = From(w.doc) /\ QueuedBefore(u, "create", w.doc, i))

MadeOnce ==
    /\ \A u \in Users : \A i \in DOMAIN queue[u] : WriteInOrder(u, i)
    /\ \A r \in Requests : press[r] # "done" => ~Made(r)
    /\ \A u \in Users : \A r \in screen[u].rows :
          Made(r) \/ (u = From(r) /\ InQueue(u, "create", r))

\* What the target may answer with, or has queued, is the key it has now, and
\* no other one has been published.
MayAnswer(r) == r \in screen[To(r)].rows \/ InQueue(To(r), "accept", r)

OneKey ==
    /\ \A u \in Users : \A i \in DOMAIN queue[u] :
          queue[u][i].op = "accept" => /\ u = To(queue[u][i].doc)
                                       /\ queue[u][i].key = key[u]
    /\ \A r \in Requests :
          /\ MayAnswer(r) => docs[r].tkey \in {NoKey, key[To(r)]}
          /\ docs[r].tkey # NoKey => docs[r].at = "there"

FinalInv == ConsentInv /\ MadeOnce /\ OneKey

-----------------------------------------------------------------------------
(* How the queues change.                                                  *)

LEMMA InitFinal == Init => FinalInv
  BY InitConsent DEF Init, FinalInv, MadeOnce, OneKey, WriteInOrder, Made,
     MayAnswer, InQueue, NoDoc, Closed, From, To

\* A step after which the user has no row or press that was not there before.
Settled == /\ UNCHANGED <<docs, request, key>>
           /\ \A u \in Users : screen'[u].rows \subseteq screen[u].rows
           /\ \A r \in Requests : press[r] = "done" => press'[r] = "done"

\* The first write a user queues may be about a row; the others make no
\* request and answer none.
MayQueue(u, w) ==
    /\ w.op = "create" => /\ u = From(w.doc) /\ press'[w.doc] = "done"
                          /\ ~Made(w.doc) /\ ~InQueue(u, "create", w.doc)
    /\ w.op \in {"delete", "accept"} => w.doc \in screen[u].rows
    /\ w.op = "accept" => u = To(w.doc) /\ w.key = key[u]

\* What follows in a queue after writes are added.
LEMMA Appended ==
    ASSUME NEW q \in Seq(Write), NEW ws \in Seq(Write)
    PROVE  /\ DOMAIN (q \o ws) = 1..(Len(q) + Len(ws)) /\ Len(q \o ws) = Len(q) + Len(ws)
           /\ \A i \in 1..Len(q) : (q \o ws)[i] = q[i]
           /\ \A i \in 1..(Len(q) + Len(ws)) :
                 i \notin 1..Len(q) => /\ i > Len(q) /\ i - Len(q) \in 1..Len(ws)
                                       /\ (q \o ws)[i] = ws[i - Len(q)]
  <1>1. Len(q) \in Nat /\ Len(ws) \in Nat /\ q \o ws \in Seq(Write)
        /\ Len(q \o ws) = Len(q) + Len(ws)
    OBVIOUS
  <1>2. DOMAIN (q \o ws) = 1..Len(q \o ws)
    BY <1>1
  <1>3. \A i \in 1..Len(q) : (q \o ws)[i] = q[i]
    BY <1>1
  <1>4. \A i \in 1..(Len(q) + Len(ws)) :
                 i \notin 1..Len(q) => (q \o ws)[i] = ws[i - Len(q)]
    BY <1>1
  <1> QED
    BY <1>1, <1>2, <1>3, <1>4

\* A queue after writes are added to it.
LEMMA EnqueueQueue ==
    ASSUME TypeOK, NEW u \in Users, NEW ws \in Seq(Write), Enqueue(u, ws)
    PROVE  /\ \A v \in Users : /\ queue[v] \in Seq(Write) /\ Len(queue[v]) \in Nat
                               /\ DOMAIN queue[v] = 1..Len(queue[v])
           /\ \A v \in Users : DOMAIN queue'[v] = 1..Len(queue'[v]) /\ Len(queue'[v]) \in Nat
           /\ \A v \in Users : \A i \in DOMAIN queue[v] :
                 i \in DOMAIN queue'[v] /\ queue'[v][i] = queue[v][i]
           /\ \A v \in Users : \A i \in DOMAIN queue'[v] :
                 \/ i \in DOMAIN queue[v]
                 \/ /\ v = u /\ i > Len(queue[u]) /\ i - Len(queue[u]) \in 1..Len(ws)
                    /\ queue'[v][i] = ws[i - Len(queue[u])]
           /\ \A v \in Users : \A op, r : InQueue(v, op, r) => InQueue(v, op, r)'
  <1>1. \A v \in Users : queue[v] \in Seq(Write) /\ Len(queue[v]) \in Nat
                         /\ DOMAIN queue[v] = 1..Len(queue[v])
    BY DEF TypeOK
  <1>2. \A v \in Users : queue'[v] = IF v = u THEN queue[v] \o ws ELSE queue[v]
    BY DEF Enqueue, TypeOK
  <1>3. \A v \in Users : DOMAIN queue'[v] = 1..Len(queue'[v]) /\ Len(queue'[v]) \in Nat
    BY <1>1, <1>2
  <1>4. \A v \in Users : \A i \in DOMAIN queue[v] :
            i \in DOMAIN queue'[v] /\ queue'[v][i] = queue[v][i]
    <2> TAKE v \in Users
    <2>1. CASE v = u
      <3>1. queue[u] \in Seq(Write) /\ queue'[v] = queue[u] \o ws
        BY <1>1, <1>2, <2>1
      <3>2. /\ DOMAIN (queue[u] \o ws) = 1..(Len(queue[u]) + Len(ws))
            /\ \A i \in 1..Len(queue[u]) : (queue[u] \o ws)[i] = queue[u][i]
        BY <3>1, Appended
      <3>3. Len(queue[u]) \in Nat /\ Len(ws) \in Nat
        BY <3>1
      <3> QED
        BY <1>1, <2>1, <3>1, <3>2, <3>3
    <2>2. CASE v # u
      BY <1>1, <1>2, <2>2
    <2> QED
      BY <2>1, <2>2
  <1>5. \A v \in Users : \A i \in DOMAIN queue'[v] :
            \/ i \in DOMAIN queue[v]
            \/ /\ v = u /\ i > Len(queue[u]) /\ i - Len(queue[u]) \in 1..Len(ws)
               /\ queue'[v][i] = ws[i - Len(queue[u])]
    <2> TAKE v \in Users
    <2>1. CASE v = u
      <3>1. queue[u] \in Seq(Write) /\ queue'[v] = queue[u] \o ws
        BY <1>1, <1>2, <2>1
      <3>2. DOMAIN queue'[v] = 1..(Len(queue[u]) + Len(ws))
        BY <3>1, Appended
      <3>3. \A i \in 1..(Len(queue[u]) + Len(ws)) :
                 i \notin 1..Len(queue[u]) =>
                     /\ i > Len(queue[u]) /\ i - Len(queue[u]) \in 1..Len(ws)
                     /\ (queue[u] \o ws)[i] = ws[i - Len(queue[u])]
        BY <3>1, Appended
      <3> QED
        BY <1>1, <2>1, <3>1, <3>2, <3>3
    <2>2. CASE v # u
      BY <1>1, <1>2, <2>2
    <2> QED
      BY <2>1, <2>2
  <1>6. \A v \in Users : \A op, r : InQueue(v, op, r) => InQueue(v, op, r)'
    <2> SUFFICES ASSUME NEW v \in Users, NEW op, NEW r, InQueue(v, op, r)
                 PROVE  InQueue(v, op, r)'
      OBVIOUS
    <2>1. PICK i \in 1..Len(queue[v]) : queue[v][i].op = op /\ queue[v][i].doc = r
      BY DEF InQueue
    <2>2. i \in DOMAIN queue'[v] /\ queue'[v][i] = queue[v][i]
      BY <1>1, <1>4
    <2>3. DOMAIN queue'[v] = 1..Len(queue'[v])
      BY <1>1, <1>2
    <2> QED
      BY <2>1, <2>2, <2>3 DEF InQueue
  <1> QED
    BY <1>1, <1>3, <1>4, <1>5, <1>6

\* When the first of the added writes is the only one that makes, answers or
\* removes a request, there is no more to answer than before.
LEMMA EnqueueAnswers ==
    ASSUME TypeOK, Settled, NEW u \in Users, NEW ws \in Seq(Write), Enqueue(u, ws),
           ws # <<>> => MayQueue(u, ws[1]),
           \A i \in 1..Len(ws) : i # 1 => ws[i].op \notin {"create", "accept", "delete"}
    PROVE  /\ \A v \in Users : \A i \in DOMAIN queue'[v] :
                 i \notin DOMAIN queue[v] /\ queue'[v][i].op \in {"create", "accept", "delete"}
                 => v = u /\ i = Len(queue[u]) + 1 /\ queue'[v][i] = ws[1] /\ MayQueue(u, ws[1])
           /\ \A r \in Requests : MayAnswer(r)' => MayAnswer(r)
  <1>1. \A v \in Users : queue[v] \in Seq(Write) /\ Len(queue[v]) \in Nat
                         /\ DOMAIN queue[v] = 1..Len(queue[v])
    BY EnqueueQueue
  <1>2. \A v \in Users : DOMAIN queue'[v] = 1..Len(queue'[v]) /\ Len(queue'[v]) \in Nat
    BY EnqueueQueue
  <1>3. \A v \in Users : \A i \in DOMAIN queue[v] :
            i \in DOMAIN queue'[v] /\ queue'[v][i] = queue[v][i]
    BY EnqueueQueue
  <1>4. \A v \in Users : \A i \in DOMAIN queue'[v] :
            \/ i \in DOMAIN queue[v]
            \/ /\ v = u /\ i > Len(queue[u]) /\ i - Len(queue[u]) \in 1..Len(ws)
               /\ queue'[v][i] = ws[i - Len(queue[u])]
    BY EnqueueQueue
  \* What is new in a queue.
  <1>5. ASSUME NEW v \in Users, NEW i \in DOMAIN queue'[v], i \notin DOMAIN queue[v],
               queue'[v][i].op \in {"create", "accept", "delete"}
        PROVE  v = u /\ i = Len(queue[u]) + 1 /\ queue'[v][i] = ws[1] /\ MayQueue(u, ws[1])
    <2>1. v = u /\ i - Len(queue[u]) \in 1..Len(ws) /\ queue'[v][i] = ws[i - Len(queue[u])]
      BY <1>4, <1>5
    <2>2. i - Len(queue[u]) = 1
      BY <1>5, <2>1
    <2>3. i \in Nat
      <3>1. DOMAIN queue'[v] = 1..Len(queue'[v])
        BY <1>1, <1>2
      <3> QED
        BY <3>1
    <2>4. Len(queue[u]) \in Nat
      BY <1>1
    <2>5. i = Len(queue[u]) + 1
      BY <2>2, <2>3, <2>4
    <2> QED
      BY <2>1, <2>2, <2>5
  <1>6. \A r \in Requests : MayAnswer(r)' => MayAnswer(r)
    <2> SUFFICES ASSUME NEW r \in Requests, MayAnswer(r)'
                 PROVE  MayAnswer(r)
      OBVIOUS
    <2>1. To(r)' = To(r) /\ To(r) \in Users
      BY PartiesTyped DEF Settled, To
    <2>0. CASE r \in screen'[To(r)].rows
      BY <2>0, <2>1 DEF MayAnswer, Settled
    <2> SUFFICES ASSUME r \notin screen'[To(r)].rows
                  PROVE  MayAnswer(r)
      BY <2>0
    <2>5. InQueue(To(r), "accept", r)'
      BY <2>1 DEF MayAnswer
    <2>2. PICK i \in DOMAIN queue'[To(r)] : queue'[To(r)][i].op = "accept"
                                            /\ queue'[To(r)][i].doc = r
      BY <1>1, <1>2, <2>1, <2>5 DEF InQueue
    <2>3. CASE i \in DOMAIN queue[To(r)]
      BY <1>1, <1>3, <2>1, <2>2, <2>3 DEF MayAnswer, InQueue
    <2>4. CASE i \notin DOMAIN queue[To(r)]
      <3>1. To(r) = u /\ queue'[To(r)][i] = ws[1] /\ MayQueue(u, ws[1])
        BY <1>5, <2>1, <2>2, <2>4
      <3> QED
        BY <2>2, <3>1 DEF MayAnswer, MayQueue
    <2> QED
      BY <2>3, <2>4
  <1> QED
    BY <1>5, <1>6

\* Queueing writes of which only the first makes, answers or removes a request.
LEMMA EnqueueFinal ==
    ASSUME FinalInv, Settled, NEW u \in Users, NEW ws \in Seq(Write), Enqueue(u, ws),
           ws # <<>> => MayQueue(u, ws[1]),
           \A i \in 1..Len(ws) : i # 1 => ws[i].op \notin {"create", "accept", "delete"}
    PROVE  MadeOnce' /\ OneKey'
  <1>0. TypeOK
    BY DEF FinalInv, ConsentInv
  <1>1. \A v \in Users : queue[v] \in Seq(Write) /\ Len(queue[v]) \in Nat
                         /\ DOMAIN queue[v] = 1..Len(queue[v])
    BY <1>0, EnqueueQueue
  <1>2. \A v \in Users : DOMAIN queue'[v] = 1..Len(queue'[v]) /\ Len(queue'[v]) \in Nat
    BY <1>0, EnqueueQueue
  <1>3. \A v \in Users : \A i \in DOMAIN queue[v] :
            i \in DOMAIN queue'[v] /\ queue'[v][i] = queue[v][i]
    BY <1>0, EnqueueQueue
  <1>4. \A v \in Users : \A i \in DOMAIN queue'[v] :
            \/ i \in DOMAIN queue[v]
            \/ /\ v = u /\ i > Len(queue[u]) /\ i - Len(queue[u]) \in 1..Len(ws)
               /\ queue'[v][i] = ws[i - Len(queue[u])]
    BY <1>0, EnqueueQueue
  <1>5. \A v \in Users : \A op, r : InQueue(v, op, r) => InQueue(v, op, r)'
    BY <1>0, EnqueueQueue
  <1>6. \A r : Made(r)' <=> Made(r)
    BY DEF Settled, Made
  \* What is new in a queue.
  <1>7. ASSUME NEW v \in Users, NEW i \in DOMAIN queue'[v], i \notin DOMAIN queue[v],
               queue'[v][i].op \in {"create", "accept", "delete"}
        PROVE  v = u /\ i = Len(queue[u]) + 1 /\ queue'[v][i] = ws[1] /\ MayQueue(u, ws[1])
    BY <1>0, <1>7, EnqueueAnswers
  <1>8. ASSUME NEW v \in Users, NEW i \in DOMAIN queue'[v]
        PROVE  WriteInOrder(v, i)'
    <2>1. CASE i \in DOMAIN queue[v]
      <3>1. queue'[v][i] = queue[v][i] /\ WriteInOrder(v, i)
        BY <1>3, <2>1 DEF FinalInv, MadeOnce
      <3>2. \A op, r : QueuedBefore(v, op, r, i)' <=> QueuedBefore(v, op, r, i)
        <4>1. \A j \in DOMAIN queue'[v] : j < i => j \in DOMAIN queue[v]
          BY <1>1, <1>2, <1>4, <2>1
        <4> QED
          BY <1>3, <4>1 DEF QueuedBefore
      <3>3. queue[v][i].doc \in Requests
        <4>1. queue[v][i] \in Write
          BY <1>1, <2>1
        <4> QED
          BY <4>1 DEF Write
      <3>4. From(queue[v][i].doc)' = From(queue[v][i].doc)
        BY <3>1 DEF Settled, From
      <3>5. press[queue[v][i].doc] = "done" => press'[queue[v][i].doc] = "done"
        BY <3>3 DEF Settled
      <3> QED
        BY <1>6, <3>1, <3>2, <3>4, <3>5 DEF WriteInOrder
    <2>2. CASE i \notin DOMAIN queue[v] /\ queue'[v][i].op \in {"create", "accept", "delete"}
      <3>1. v = u /\ i = Len(queue[u]) + 1 /\ queue'[v][i] = ws[1] /\ MayQueue(u, ws[1])
        BY <1>7, <2>2
      <3>2. \A op, r : QueuedBefore(u, op, r, i)' <=> InQueue(u, op, r)
        <4>1. \A j \in DOMAIN queue'[u] : j < i => j \in DOMAIN queue[u]
          BY <1>1, <1>2, <1>4, <3>1
        <4>2. \A j \in DOMAIN queue[u] : j < i
          BY <1>1, <3>1
        <4> QED
          BY <1>1, <1>3, <4>1, <4>2 DEF QueuedBefore, InQueue
      <3>3. From(ws[1].doc)' = From(ws[1].doc)
        BY DEF Settled, From
      <3>4. ws[1].op = "create" => WriteInOrder(v, i)'
        BY <1>6, <3>1, <3>2, <3>3 DEF WriteInOrder, MayQueue
      <3>5. ws[1].op \in {"delete", "accept"} =>
               Made(ws[1].doc) \/ (u = From(ws[1].doc) /\ InQueue(u, "create", ws[1].doc))
        BY <3>1 DEF MayQueue, FinalInv, MadeOnce
      <3>6. ws[1].op \in {"delete", "accept"} => WriteInOrder(v, i)'
        BY <1>6, <3>1, <3>2, <3>3, <3>5 DEF WriteInOrder
      <3> QED
        BY <2>2, <3>1, <3>4, <3>6
    <2>3. CASE queue'[v][i].op \notin {"create", "accept", "delete"}
      BY <2>3 DEF WriteInOrder
    <2> QED
      BY <2>1, <2>2, <2>3
  <1>9. MadeOnce'
    <2>1. \A r \in Requests : press'[r] # "done" => ~Made(r)'
      BY <1>6 DEF Settled, FinalInv, MadeOnce
    <2>2. \A v \in Users : \A r \in screen'[v].rows :
              Made(r)' \/ (v = From(r)' /\ InQueue(v, "create", r)')
      BY <1>5, <1>6 DEF Settled, FinalInv, MadeOnce, From
    <2> QED
      BY <1>8, <2>1, <2>2 DEF MadeOnce
  <1>10. \A r \in Requests : MayAnswer(r)' => MayAnswer(r)
    BY <1>0, EnqueueAnswers
  <1>11. ASSUME NEW v \in Users, NEW i \in DOMAIN queue'[v], queue'[v][i].op = "accept"
         PROVE  v = To(queue'[v][i].doc) /\ queue'[v][i].key = key[v]
    <2>1. CASE i \in DOMAIN queue[v]
      BY <1>3, <1>11, <2>1 DEF FinalInv, OneKey
    <2>2. CASE i \notin DOMAIN queue[v]
      BY <1>7, <1>11, <2>2 DEF MayQueue
    <2> QED
      BY <2>1, <2>2
  <1>12. OneKey'
    <2>1. \A r : To(r)' = To(r)
      BY DEF Settled, To
    <2>2. docs' = docs /\ key' = key
      BY DEF Settled
    <2>3. \A r \in Requests :
              /\ MayAnswer(r)' => docs'[r].tkey \in {NoKey, key'[To(r)']}
              /\ docs'[r].tkey # NoKey => docs'[r].at = "there"
      BY <1>10, <2>1, <2>2 DEF FinalInv, OneKey
    <2>4. \A v \in Users : \A i \in DOMAIN queue'[v] :
              queue'[v][i].op = "accept" => /\ v = request'[queue'[v][i].doc][2]
                                            /\ queue'[v][i].key = key'[v]
      BY <1>11 DEF Settled, To
    <2> QED
      BY <2>3, <2>4 DEF OneKey, To
  <1> QED
    BY <1>9, <1>12

\* Steps that queue nothing.
LEMMA SettledFinal ==
    ASSUME FinalInv, Settled, queue' = queue
    PROVE  MadeOnce' /\ OneKey'
  <1>0. Users # {}
    BY SearchesAssumption
  <1>1. PICK u \in Users : TRUE
    BY <1>0
  <1>2. <<>> \in Seq(Write)
    OBVIOUS
  <1>3. Enqueue(u, <<>>)
    <2>1. queue[u] \o <<>> = queue[u] /\ queue \in [Users -> Seq(Write)]
      BY DEF FinalInv, ConsentInv, TypeOK
    <2>2. queue' = [queue EXCEPT ![u] = queue[u]]
      BY <2>1
    <2> QED
      BY <2>1, <2>2 DEF Enqueue
  <1>4. PICK ws \in Seq(Write) : ws = <<>> /\ Enqueue(u, ws) /\ Len(ws) = 0
    BY <1>2, <1>3
  <1>5. \A i \in 1..Len(ws) : FALSE
    BY <1>4
  <1> QED
    BY <1>4, <1>5, EnqueueFinal

\* The screen's listener makes rows of requests that are there, or that the
\* user's own device is about to make, and that are not answered.
LEMMA ScreenFinal ==
    ASSUME FinalInv, NEW u \in Users, ScreenSnapshot(u)
    PROVE  MadeOnce' /\ OneKey'
  <1>1. TypeOK /\ UNCHANGED <<docs, request, key, queue, press>>
    BY DEF ScreenSnapshot, server, FinalInv, ConsentInv
  <1>2. \A v \in Users : \A r \in screen'[v].rows :
            r \in screen[v].rows \/ (v = u /\ r \in NewRows(u))
    BY <1>1 DEF ScreenSnapshot, TypeOK
  <1>3. ASSUME NEW r \in NewRows(u)
        PROVE  /\ r \in Requests
               /\ Made(r) \/ (u = From(r) /\ InQueue(u, "create", r))
               /\ u = To(r) => docs[r].tkey = NoKey
    <2>1. r \in Requests /\ View(u)[r].at = "there" /\ View(u)[r].tkey = NoKey
      BY <1>3 DEF NewRows, Offered
    <2>2. Present(u, r)
      BY <2>1 DEF View, NoDoc
    <2>3. docs[r].at = "there" => Made(r)
      BY DEF Made
    <2>4. ASSUME InQueue(u, "create", r)
          PROVE  u = From(r)
      <3>1. PICK i \in DOMAIN queue[u] : queue[u][i].op = "create" /\ queue[u][i].doc = r
        BY <1>1, <2>4 DEF InQueue, TypeOK
      <3>2. WriteInOrder(u, i)
        BY DEF FinalInv, MadeOnce
      <3> QED
        BY <3>1, <3>2 DEF WriteInOrder
    <2>5. docs[r].tkey = NoKey
      <3>1. View(u)[r] = There(docs[r].named \/ InQueue(u, "setId", r),
                               IF InQueue(u, "accept", r) THEN key[u] ELSE docs[r].tkey)
        BY <2>1, <2>2 DEF View
      <3>2. (IF InQueue(u, "accept", r) THEN key[u] ELSE docs[r].tkey) = NoKey
        BY <2>1, <3>1 DEF There
      <3>3. key[u] # NoKey
        BY <1>1 DEF TypeOK
      <3> QED
        BY <3>2, <3>3
    <2> QED
      BY <2>1, <2>2, <2>3, <2>4, <2>5 DEF Present
  <1>4. \A v \in Users : \A i \in DOMAIN queue[v] : WriteInOrder(v, i)'
    BY <1>1 DEF FinalInv, MadeOnce, WriteInOrder, Made, QueuedBefore, From
  <1>5. MadeOnce'
    <2>1. \A r \in Requests : press'[r] # "done" => ~Made(r)'
      BY <1>1 DEF FinalInv, MadeOnce, Made
    <2>2. \A v \in Users : \A r \in screen'[v].rows :
              Made(r)' \/ (v = From(r)' /\ InQueue(v, "create", r)')
      BY <1>1, <1>2, <1>3 DEF FinalInv, MadeOnce, Made, From, InQueue
    <2> QED
      BY <1>1, <1>4, <2>1, <2>2 DEF MadeOnce
  <1>6. OneKey'
    <2>1. ASSUME NEW r \in Requests, MayAnswer(r)'
          PROVE  docs[r].tkey \in {NoKey, key[To(r)]}
      <3>1. To(r) \in Users /\ To(r)' = To(r)
        BY <1>1, PartiesTyped DEF To
      <3>2. InQueue(To(r), "accept", r)' <=> InQueue(To(r), "accept", r)
        BY <1>1, <3>1 DEF InQueue
      <3>3. MayAnswer(r) \/ (To(r) = u /\ r \in NewRows(u))
        BY <1>2, <2>1, <3>1, <3>2 DEF MayAnswer
      <3> QED
        BY <1>3, <3>3 DEF FinalInv, OneKey
    <2>2. \A v \in Users : \A i \in DOMAIN queue'[v] :
              queue'[v][i].op = "accept" => /\ v = request'[queue'[v][i].doc][2]
                                            /\ queue'[v][i].key = key'[v]
      BY <1>1 DEF FinalInv, OneKey, To
    <2>3. \A r \in Requests :
              /\ MayAnswer(r)' => docs'[r].tkey \in {NoKey, key'[To(r)']}
              /\ docs'[r].tkey # NoKey => docs'[r].at = "there"
      BY <1>1, <2>1 DEF FinalInv, OneKey, To
    <2> QED
      BY <2>2, <2>3 DEF OneKey, To
  <1> QED
    BY <1>5, <1>6

\* On a new phone nothing is queued, and the user has no row.
LEMMA NewDeviceFinal ==
    ASSUME FinalInv, NEW u \in Users, NewDevice(u)
    PROVE  MadeOnce' /\ OneKey'
  <1>1. TypeOK /\ UNCHANGED <<docs, request>>
    BY DEF NewDevice, ProcessEnds, server, FinalInv, ConsentInv
  <1>2. \A v \in Users : /\ queue'[v] = IF v = u THEN <<>> ELSE queue[v]
                         /\ v # u => key'[v] = key[v]
                         /\ screen'[v].rows = IF v = u THEN {} ELSE screen[v].rows
    BY <1>1 DEF NewDevice, ProcessEnds, Close, Closed, TypeOK
  <1>3. \A r \in Requests : press[r] = "done" => press'[r] = "done"
    BY DEF NewDevice, ProcessEnds
  <1>4. \A r : /\ Made(r)' <=> Made(r)
               /\ From(r)' = From(r) /\ To(r)' = To(r)
    BY <1>1 DEF Made, From, To
  <1>5. \A v \in Users \ {u} : \A op, r : InQueue(v, op, r)' <=> InQueue(v, op, r)
    BY <1>2 DEF InQueue
  <1>6. \A v \in Users \ {u} : \A i \in DOMAIN queue[v] :
            /\ queue[v][i].doc \in Requests
            /\ \A op, r : QueuedBefore(v, op, r, i)' <=> QueuedBefore(v, op, r, i)
    <2> TAKE v \in Users \ {u}
    <2> TAKE i \in DOMAIN queue[v]
    <2>1. queue[v][i] \in Write
      BY <1>1 DEF TypeOK
    <2>2. \A op, r : QueuedBefore(v, op, r, i)' <=> QueuedBefore(v, op, r, i)
      BY <1>2 DEF QueuedBefore
    <2> QED
      BY <2>1, <2>2 DEF Write
  <1>7. MadeOnce'
    <2>1. ASSUME NEW v \in Users, NEW i \in DOMAIN queue'[v]
          PROVE  WriteInOrder(v, i)'
      <3>1. v # u /\ queue'[v] = queue[v] /\ WriteInOrder(v, i)
        BY <1>2, <2>1 DEF FinalInv, MadeOnce
      <3>2. /\ queue[v][i].doc \in Requests
            /\ \A op, r : QueuedBefore(v, op, r, i)' <=> QueuedBefore(v, op, r, i)
        BY <1>6, <3>1
      <3>3. From(queue[v][i].doc)' = From(queue[v][i].doc)
        BY <1>1, <3>1 DEF From
      <3> QED
        BY <1>3, <1>4, <3>1, <3>2, <3>3 DEF WriteInOrder
    <2>2. \A r \in Requests : press'[r] # "done" => ~Made(r)'
      BY <1>3, <1>4 DEF FinalInv, MadeOnce
    <2>3. \A v \in Users : \A r \in screen'[v].rows :
              Made(r)' \/ (v = From(r)' /\ InQueue(v, "create", r)')
      BY <1>2, <1>4, <1>5 DEF FinalInv, MadeOnce
    <2> QED
      BY <2>1, <2>2, <2>3 DEF MadeOnce
  <1>8. OneKey'
    <2>1. ASSUME NEW r \in Requests, MayAnswer(r)'
          PROVE  docs[r].tkey \in {NoKey, key'[To(r)]}
      <3>1. To(r) \in Users /\ To(r)' = To(r)
        BY <1>1, <1>4, PartiesTyped
      <3>2. CASE r \in screen'[To(r)].rows
        BY <1>2, <3>1, <3>2 DEF FinalInv, OneKey, MayAnswer
      <3>3. CASE InQueue(To(r), "accept", r)'
        <4>1. To(r) # u
          BY <1>2, <3>1, <3>3 DEF InQueue
        <4>2. InQueue(To(r), "accept", r)
          BY <1>5, <3>1, <3>3, <4>1
        <4> QED
          BY <1>2, <3>1, <4>1, <4>2 DEF FinalInv, OneKey, MayAnswer
      <3> QED
        BY <2>1, <3>1, <3>2, <3>3 DEF MayAnswer
    <2>2. \A v \in Users : \A i \in DOMAIN queue'[v] :
              queue'[v][i].op = "accept" => /\ v = request'[queue'[v][i].doc][2]
                                            /\ queue'[v][i].key = key'[v]
      <3> SUFFICES ASSUME NEW v \in Users, NEW i \in DOMAIN queue'[v],
                          queue'[v][i].op = "accept"
                   PROVE  /\ v = request'[queue'[v][i].doc][2]
                          /\ queue'[v][i].key = key'[v]
        OBVIOUS
      <3>1. v # u /\ queue'[v] = queue[v] /\ key'[v] = key[v]
        BY <1>2
      <3> QED
        BY <1>1, <3>1 DEF FinalInv, OneKey, To
    <2>3. \A r \in Requests :
              /\ MayAnswer(r)' => docs'[r].tkey \in {NoKey, key'[To(r)']}
              /\ docs'[r].tkey # NoKey => docs'[r].at = "there"
      BY <1>1, <2>1, <1>4 DEF FinalInv, OneKey
    <2> QED
      BY <2>2, <2>3 DEF OneKey, To
  <1> QED
    BY <1>7, <1>8

\* What the server does with the oldest write of a device.
LEMMA CommitWrite ==
    ASSUME FinalInv, NEW u \in Users, Commit(u)
    PROVE  \E w \in Write :
              /\ w = queue[u][1] /\ 1 \in DOMAIN queue[u]
              /\ \A r \in Requests : r # w.doc => docs'[r] = docs[r]
              /\ docs'[w.doc] = DocAfter(docs[w.doc], w)
              /\ w.op = "create" => u = From(w.doc) /\ press[w.doc] = "done" /\ ~Made(w.doc)
              /\ w.op \in {"delete", "accept"} => Made(w.doc)
              /\ w.op = "accept" => /\ u = To(w.doc) /\ w.key = key[u]
                                    /\ MayAnswer(w.doc)
  <1>1. queue[u] \in Seq(Write) /\ queue[u] # <<>> /\ docs \in [Requests -> Doc]
    BY DEF Commit, FinalInv, ConsentInv, TypeOK
  <1>2. PICK w \in Write : w = queue[u][1] /\ 1 \in DOMAIN queue[u] /\ w = Head(queue[u])
                           /\ DOMAIN queue[u] = 1..Len(queue[u])
    BY <1>1
  <1>3. w.doc \in Requests
    BY DEF Write
  <1>4. docs' = [docs EXCEPT ![w.doc] = DocAfter(@, w)]
    BY <1>2 DEF Commit
  <1>5. WriteInOrder(u, 1)
    BY <1>2 DEF FinalInv, MadeOnce
  <1>6. \A op, r : ~QueuedBefore(u, op, r, 1)
    BY <1>1, <1>2 DEF QueuedBefore
  <1>7. w.op = "accept" => u = To(w.doc) /\ w.key = key[u] /\ MayAnswer(w.doc)
    BY <1>2 DEF FinalInv, OneKey, MayAnswer, InQueue
  <1>8. w.op = "create" => u = From(w.doc) /\ press[w.doc] = "done" /\ ~Made(w.doc)
    BY <1>2, <1>5 DEF WriteInOrder
  <1>9. w.op \in {"delete", "accept"} => Made(w.doc)
    BY <1>2, <1>5, <1>6 DEF WriteInOrder
  <1>10. \A r \in Requests : r # w.doc => docs'[r] = docs[r]
    BY <1>1, <1>4
  <1>11. docs'[w.doc] = DocAfter(docs[w.doc], w)
    BY <1>1, <1>3, <1>4
  <1> QED
    BY <1>2, <1>7, <1>8, <1>9, <1>10, <1>11

\* A request stays made; and one that is not made is made by its create only.
LEMMA DocAfterMade ==
    ASSUME NEW d \in Doc, NEW w \in Write
    PROVE  /\ d.at # "none" => DocAfter(d, w).at # "none"
           /\ w.op = "create" => DocAfter(d, w).at # "none"
           /\ d.at = "none" /\ w.op \notin {"create", "delete"} => DocAfter(d, w).at = "none"
           /\ DocAfter(d, w).tkey # NoKey =>
                 \/ DocAfter(d, w).at = "there" /\ w.op = "accept" /\ DocAfter(d, w).tkey = w.key
                 \/ DocAfter(d, w) = d
                 \/ d.at = "there" /\ DocAfter(d, w).at = "there" /\ DocAfter(d, w).tkey = d.tkey
  BY DEF DocAfter, There, Doc, Write, Gone, NoKey

\* The place that a write of v's queue has before the server takes one of u's.
Place(u, v, i) == IF v = u THEN i + 1 ELSE i

\* The queues after the server has taken the oldest write of u's.
LEMMA CommitQueue ==
    ASSUME TypeOK, NEW u \in Users, Commit(u), NEW w, w = queue[u][1]
    PROVE  /\ \A v \in Users : queue[v] \in Seq(Write) /\ queue'[v] \in Seq(Write)
           /\ \A v \in Users : \A i \in DOMAIN queue'[v] :
                 /\ Place(u, v, i) \in DOMAIN queue[v]
                 /\ queue'[v][i] = queue[v][Place(u, v, i)]
           /\ \A v \in Users : \A op, r :
                 /\ InQueue(v, op, r) => InQueue(v, op, r)' \/ (v = u /\ w.op = op /\ w.doc = r)
                 /\ InQueue(v, op, r)' => InQueue(v, op, r)
           /\ \A v \in Users : \A i \in DOMAIN queue'[v] : \A op, r :
                 /\ QueuedBefore(v, op, r, i)' => QueuedBefore(v, op, r, Place(u, v, i))
                 /\ QueuedBefore(v, op, r, Place(u, v, i)) =>
                       QueuedBefore(v, op, r, i)' \/ (v = u /\ w.op = op /\ w.doc = r)
  <1>1. \A v \in Users : queue[v] \in Seq(Write)
    BY DEF TypeOK
  <1>2. \A v \in Users : queue'[v] = IF v = u THEN Tail(queue[u]) ELSE queue[v]
    BY DEF Commit, TypeOK
  <1>3. \A v \in Users : queue'[v] \in Seq(Write)
    BY UserTyped DEF TypeOK
  <1>4. queue[u] # <<>>
    BY DEF Commit
  <1>5. \A v \in Users : \A i \in DOMAIN queue'[v] :
            Place(u, v, i) \in DOMAIN queue[v] /\ queue'[v][i] = queue[v][Place(u, v, i)]
    <2> TAKE v \in Users
    <2>1. CASE v = u
      <3>1. queue[u] \in Seq(Write) /\ queue[u] # <<>> /\ queue'[v] = Tail(queue[u])
        BY <1>4, <1>1, <1>2, <2>1
      <3>2. \A i \in DOMAIN Tail(queue[u]) : i + 1 \in DOMAIN queue[u]
                                             /\ Tail(queue[u])[i] = queue[u][i + 1]
        BY <3>1
      <3> QED
        BY <2>1, <3>1, <3>2 DEF Place
    <2>2. CASE v # u
      BY <1>2, <2>2 DEF Place
    <2> QED
      BY <2>1, <2>2
  <1>6. \A v \in Users : \A j \in DOMAIN queue[v] :
            \/ v = u /\ j = 1
            \/ \E k \in DOMAIN queue'[v] : j = Place(u, v, k)
    <2> TAKE v \in Users
    <2>1. CASE v = u
      <3>1. queue[u] \in Seq(Write) /\ queue[u] # <<>> /\ queue'[v] = Tail(queue[u])
        BY <1>4, <1>1, <1>2, <2>1
      <3>2. \A j \in DOMAIN queue[u] : j = 1 \/ (j - 1 \in DOMAIN Tail(queue[u]) /\ j = (j - 1) + 1)
        BY <3>1
      <3> QED
        BY <2>1, <3>1, <3>2 DEF Place
    <2>2. CASE v # u
      BY <1>2, <2>2 DEF Place
    <2> QED
      BY <2>1, <2>2
  <1>7. ASSUME NEW v \in Users, NEW op, NEW r, InQueue(v, op, r)
         PROVE  InQueue(v, op, r)' \/ (v = u /\ w.op = op /\ w.doc = r)
    <2>1. PICK j \in DOMAIN queue[v] : queue[v][j].op = op /\ queue[v][j].doc = r
      BY <1>1, <1>7 DEF InQueue
    <2>2. CASE v = u /\ j = 1
      BY <2>1, <2>2
    <2>3. ASSUME NEW k \in DOMAIN queue'[v], j = Place(u, v, k)
          PROVE  InQueue(v, op, r)'
      <3>1. queue'[v][k] = queue[v][j]
        BY <1>5, <2>3
      <3>2. queue'[v] \in Seq(Write)
        BY <1>3
      <3> QED
        BY <2>1, <3>1, <3>2 DEF InQueue
    <2> QED
      BY <1>6, <2>2, <2>3
  <1>8. ASSUME NEW v \in Users, NEW op, NEW r, InQueue(v, op, r)'
         PROVE  InQueue(v, op, r)
    <2>1. queue'[v] \in Seq(Write)
      BY <1>3
    <2>2. PICK k \in DOMAIN queue'[v] : queue'[v][k].op = op /\ queue'[v][k].doc = r
      BY <1>8, <2>1 DEF InQueue
    <2>3. Place(u, v, k) \in DOMAIN queue[v] /\ queue[v][Place(u, v, k)] = queue'[v][k]
      BY <1>5
    <2> QED
      BY <1>1, <2>2, <2>3 DEF InQueue
  <1>9. ASSUME NEW v \in Users, NEW i \in DOMAIN queue'[v], NEW op, NEW r,
                QueuedBefore(v, op, r, i)'
         PROVE  QueuedBefore(v, op, r, Place(u, v, i))
    <2>1. PICK k \in DOMAIN queue'[v] : k < i /\ queue'[v][k].op = op /\ queue'[v][k].doc = r
      BY <1>9 DEF QueuedBefore
    <2>2. queue'[v] \in Seq(Write)
      BY <1>3
    <2>3. Place(u, v, k) < Place(u, v, i)
      BY <2>1, <2>2 DEF Place
    <2>4. Place(u, v, k) \in DOMAIN queue[v] /\ queue'[v][k] = queue[v][Place(u, v, k)]
      BY <1>5
    <2> QED
      BY <2>1, <2>3, <2>4 DEF QueuedBefore
  <1>10. ASSUME NEW v \in Users, NEW i \in DOMAIN queue'[v], NEW op, NEW r,
                QueuedBefore(v, op, r, Place(u, v, i))
         PROVE  QueuedBefore(v, op, r, i)' \/ (v = u /\ w.op = op /\ w.doc = r)
    <2>1. PICK k \in DOMAIN queue[v] : /\ k < Place(u, v, i)
                                       /\ queue[v][k].op = op /\ queue[v][k].doc = r
      BY <1>10 DEF QueuedBefore
    <2>2. CASE v = u /\ k = 1
      BY <2>1, <2>2
    <2>3. ASSUME NEW m \in DOMAIN queue'[v], k = Place(u, v, m)
          PROVE  QueuedBefore(v, op, r, i)'
      <3>1. queue'[v] \in Seq(Write)
        BY <1>3
      <3>2. m < i
        BY <1>10, <2>1, <2>3, <3>1 DEF Place
      <3>3. queue'[v][m] = queue[v][k]
        BY <1>5, <2>3
      <3> QED
        BY <2>1, <3>2, <3>3 DEF QueuedBefore
    <2> QED
      BY <1>6, <2>2, <2>3
  <1> QED
    BY <1>1, <1>3, <1>5, <1>7, <1>8, <1>9, <1>10

LEMMA CommitFinal ==
    ASSUME FinalInv, NEW u \in Users, Commit(u)
    PROVE  MadeOnce' /\ OneKey'
  <1>1. TypeOK /\ UNCHANGED <<request, key, press, screen>>
    BY DEF Commit, app, FinalInv, ConsentInv
  <1>2. PICK w \in Write :
              /\ w = queue[u][1] /\ 1 \in DOMAIN queue[u]
              /\ \A r \in Requests : r # w.doc => docs'[r] = docs[r]
              /\ docs'[w.doc] = DocAfter(docs[w.doc], w)
              /\ w.op = "create" => u = From(w.doc) /\ press[w.doc] = "done" /\ ~Made(w.doc)
              /\ w.op \in {"delete", "accept"} => Made(w.doc)
              /\ w.op = "accept" => u = To(w.doc) /\ w.key = key[u] /\ MayAnswer(w.doc)
    BY CommitWrite
  <1>3. w.doc \in Requests /\ docs[w.doc] \in Doc
    BY <1>1 DEF Write, TypeOK
  <1>4. \A v \in Users : queue[v] \in Seq(Write) /\ queue'[v] \in Seq(Write)
    BY <1>1, <1>2, CommitQueue
  <1>5. \A v \in Users : \A i \in DOMAIN queue'[v] :
            /\ Place(u, v, i) \in DOMAIN queue[v]
            /\ queue'[v][i] = queue[v][Place(u, v, i)]
    BY <1>1, <1>2, CommitQueue
  <1>6. \A v \in Users : \A i \in DOMAIN queue'[v] : \A op, r :
            /\ QueuedBefore(v, op, r, i)' => QueuedBefore(v, op, r, Place(u, v, i))
            /\ QueuedBefore(v, op, r, Place(u, v, i)) =>
                  QueuedBefore(v, op, r, i)' \/ (v = u /\ w.op = op /\ w.doc = r)
    BY <1>1, <1>2, CommitQueue
  <1>7. \A r \in Requests : /\ Made(r) => Made(r)'
                            /\ ~Made(r) /\ Made(r)' => r = w.doc /\ w.op = "create"
    <2> TAKE r \in Requests
    <2>1. CASE r # w.doc
      BY <1>2, <2>1 DEF Made
    <2>2. CASE r = w.doc
      BY <1>2, <1>3, <2>2, DocAfterMade DEF Made
    <2> QED
      BY <2>1, <2>2
  <1>8. w.op = "create" => Made(w.doc)'
    BY <1>2, <1>3, DocAfterMade DEF Made
  <1>9. \A v \in Users : \A op, r :
            /\ InQueue(v, op, r) => InQueue(v, op, r)' \/ (v = u /\ w.op = op /\ w.doc = r)
            /\ InQueue(v, op, r)' => InQueue(v, op, r)
    BY <1>1, <1>2, CommitQueue
  <1>10. MadeOnce'
    <2>1. ASSUME NEW v \in Users, NEW i \in DOMAIN queue'[v]
          PROVE  WriteInOrder(v, i)'
      <3>1. PICK j \in DOMAIN queue[v] : j = Place(u, v, i) /\ queue'[v][i] = queue[v][j]
        BY <1>5, <2>1
      <3>2. WriteInOrder(v, j) /\ queue[v][j] \in Write
        BY <1>4 DEF FinalInv, MadeOnce
      <3>3. PICK x \in Write : x = queue[v][j] /\ x = queue'[v][i] /\ x.doc \in Requests
        BY <3>1, <3>2 DEF Write
      <3>4. From(x.doc)' = From(x.doc) /\ press' = press
        BY <1>1 DEF From
      <3>5. \A op, r : QueuedBefore(v, op, r, i)' => QueuedBefore(v, op, r, j)
        BY <1>6, <3>1
      <3>6. \A op, r : QueuedBefore(v, op, r, j) =>
                QueuedBefore(v, op, r, i)' \/ (v = u /\ w.op = op /\ w.doc = r)
        BY <1>6, <3>1
      <3>7. x.op = "create" => /\ v = From(x.doc) /\ press[x.doc] = "done" /\ ~Made(x.doc)
                               /\ ~QueuedBefore(v, "create", x.doc, j)
        BY <3>2, <3>3 DEF WriteInOrder
      <3>8. x.op = "create" => ~Made(x.doc)'
        <4> SUFFICES ASSUME x.op = "create", Made(x.doc)'
                     PROVE  FALSE
          OBVIOUS
        <4>1. x.doc = w.doc /\ w.op = "create" /\ v = u
          BY <1>2, <1>7, <3>3, <3>7
        <4>2. j # 1
          <5>1. i \in Nat /\ i > 0
            <6>1. queue'[v] \in Seq(Write)
              BY <1>4
            <6> QED
              BY <6>1
          <5> QED
            BY <3>1, <4>1, <5>1 DEF Place
        <4>3. 1 < j
          <5>1. DOMAIN queue[v] = 1..Len(queue[v])
            BY <1>4
          <5> QED
            BY <4>2, <5>1
        <4> QED
          BY <1>2, <3>7, <4>1, <4>3 DEF QueuedBefore
      <3>9. x.op \in {"delete", "accept"} =>
                Made(x.doc) \/ (v = From(x.doc) /\ QueuedBefore(v, "create", x.doc, j))
        BY <3>2, <3>3 DEF WriteInOrder
      <3>10. x.op \in {"delete", "accept"} =>
                Made(x.doc)' \/ (v = From(x.doc) /\ QueuedBefore(v, "create", x.doc, i)')
        BY <1>7, <1>8, <3>3, <3>6, <3>9
      <3> QED
        BY <3>3, <3>4, <3>5, <3>7, <3>8, <3>10 DEF WriteInOrder
    <2>2. \A r \in Requests : press'[r] # "done" => ~Made(r)'
      BY <1>1, <1>2, <1>7 DEF FinalInv, MadeOnce
    <2>3. \A v \in Users : \A r \in screen'[v].rows :
              Made(r)' \/ (v = From(r)' /\ InQueue(v, "create", r)')
      <3> SUFFICES ASSUME NEW v \in Users, NEW r \in screen[v].rows
                   PROVE  Made(r)' \/ (v = From(r) /\ InQueue(v, "create", r)')
        BY <1>1 DEF From
      <3>1. r \in Requests
        BY <1>1 DEF TypeOK
      <3>2. Made(r) \/ (v = From(r) /\ InQueue(v, "create", r))
        BY DEF FinalInv, MadeOnce
      <3> QED
        BY <1>7, <1>8, <1>9, <3>1, <3>2
    <2> QED
      BY <2>1, <2>2, <2>3 DEF MadeOnce
  <1>11. OneKey'
    <2>1. \A v \in Users : \A i \in DOMAIN queue'[v] :
              queue'[v][i].op = "accept" => /\ v = request'[queue'[v][i].doc][2]
                                            /\ queue'[v][i].key = key'[v]
      <3> SUFFICES ASSUME NEW v \in Users, NEW i \in DOMAIN queue'[v],
                          queue'[v][i].op = "accept"
                   PROVE  /\ v = request[queue'[v][i].doc][2]
                          /\ queue'[v][i].key = key[v]
        BY <1>1
      <3>1. PICK j \in DOMAIN queue[v] : queue'[v][i] = queue[v][j]
        BY <1>5
      <3> QED
        BY <3>1 DEF FinalInv, OneKey, To
    <2>2. ASSUME NEW r \in Requests
          PROVE  /\ MayAnswer(r)' => docs'[r].tkey \in {NoKey, key[To(r)]}
                 /\ docs'[r].tkey # NoKey => docs'[r].at = "there"
      <3>1. To(r) \in Users /\ To(r)' = To(r)
        BY <1>1, PartiesTyped DEF To
      <3>2. MayAnswer(r)' => MayAnswer(r)
        BY <1>1, <1>9, <3>1 DEF MayAnswer
      <3>3. /\ MayAnswer(r) => docs[r].tkey \in {NoKey, key[To(r)]}
            /\ docs[r].tkey # NoKey => docs[r].at = "there"
        BY DEF FinalInv, OneKey
      <3>4. CASE r # w.doc
        BY <1>2, <3>2, <3>3, <3>4
      <3>5. CASE r = w.doc /\ docs'[r].tkey # NoKey
        <4>1. \/ docs'[r].at = "there" /\ w.op = "accept" /\ docs'[r].tkey = w.key
              \/ docs'[r] = docs[r]
              \/ docs[r].at = "there" /\ docs'[r].at = "there" /\ docs'[r].tkey = docs[r].tkey
          BY <1>2, <1>3, <3>5, DocAfterMade
        <4>2. w.op = "accept" => w.key = key[To(r)]
          BY <1>2, <3>5
        <4> QED
          BY <3>2, <3>3, <4>1, <4>2
      <3>6. CASE docs'[r].tkey = NoKey
        BY <3>6
      <3> QED
        BY <3>4, <3>5, <3>6
    <2>3. \A r \in Requests :
              /\ MayAnswer(r)' => docs'[r].tkey \in {NoKey, key'[To(r)']}
              /\ docs'[r].tkey # NoKey => docs'[r].at = "there"
      BY <1>1, <2>2 DEF To
    <2> QED
      BY <2>1, <2>3 DEF OneKey, To
  <1> QED
    BY <1>10, <1>11

\* The row an answer is about, and what is queued for it.
LEMMA RowFinal ==
    ASSUME FinalInv, NEW u \in Users, NEW r \in Requests, RowNext(u, r)
    PROVE  MadeOnce' /\ OneKey'
  <1>1. TypeOK /\ r \in screen[u].rows
    BY DEF RowNext, Accept, Reject, Withdraw, KilledInAccept, FinalInv, ConsentInv
  <1>2. Settled
    <2>1. UNCHANGED <<docs, request, key>>
      BY DEF RowNext, Accept, Reject, Withdraw, KilledInAccept, ProcessEnds, server
    <2>2. Close(u)
      BY DEF RowNext, Accept, Reject, Withdraw, KilledInAccept, ProcessEnds
    <2>3. \A v \in Users : screen'[v].rows \subseteq screen[v].rows
      BY <1>1, <2>2 DEF Close, Closed, TypeOK
    <2>4. \A s \in Requests : press[s] = "done" => press'[s] = "done"
      BY DEF RowNext, Accept, Reject, Withdraw, KilledInAccept, ProcessEnds
    <2> QED
      BY <2>1, <2>3, <2>4 DEF Settled
  <1>3. W("accept", r, key[u]) \in Write /\ W("befriend", r, key[u]) \in Write
        /\ W("delete", r, NoKey) \in Write
    BY <1>1 DEF TypeOK, W, Write, Ops, NoKey
  <1>4. CASE Accept(u, r)
    <2> DEFINE ws == <<W("accept", r, key[u]), W("befriend", r, key[u])>>
    <2>1. ws \in Seq(Write) /\ Enqueue(u, ws)
      BY <1>3, <1>4 DEF Accept
    <2>2. ws[1] = W("accept", r, key[u]) /\ ws[2] = W("befriend", r, key[u]) /\ Len(ws) = 2
      OBVIOUS
    <2> HIDE DEF ws
    <2>3. MayQueue(u, ws[1])
      BY <1>1, <1>4, <2>2 DEF MayQueue, W, Accept
    <2>4. \A i \in 1..Len(ws) : i # 1 => ws[i].op \notin {"create", "accept", "delete"}
      BY <2>2 DEF W
    <2> QED
      BY <1>2, <2>1, <2>3, <2>4, EnqueueFinal
  <1>5. CASE KilledInAccept(u, r)
    <2> DEFINE ws == <<W("accept", r, key[u])>>
    <2>1. ws \in Seq(Write) /\ Enqueue(u, ws)
      BY <1>3, <1>5 DEF KilledInAccept
    <2>2. ws[1] = W("accept", r, key[u]) /\ Len(ws) = 1
      OBVIOUS
    <2> HIDE DEF ws
    <2>3. MayQueue(u, ws[1])
      BY <1>1, <1>5, <2>2 DEF MayQueue, W, KilledInAccept
    <2> QED
      BY <1>2, <2>1, <2>2, <2>3, EnqueueFinal
  <1>6. CASE Reject(u, r) \/ Withdraw(u, r)
    <2> DEFINE ws == <<W("delete", r, NoKey)>>
    <2>1. ws \in Seq(Write) /\ Enqueue(u, ws)
      BY <1>3, <1>6 DEF Reject, Withdraw
    <2>2. ws[1] = W("delete", r, NoKey) /\ Len(ws) = 1
      OBVIOUS
    <2> HIDE DEF ws
    <2>3. MayQueue(u, ws[1])
      BY <1>1, <2>2 DEF MayQueue, W
    <2> QED
      BY <1>2, <2>1, <2>2, <2>3, EnqueueFinal
  <1> QED
    BY <1>4, <1>5, <1>6 DEF RowNext

\* A request is made when its press ends, so it was not made before.
LEMMA FoundQueues ==
    ASSUME FinalInv, NEW r \in Requests, Found(r)
    PROVE  \E u \in Users, ws \in Seq(Write) :
              /\ Enqueue(u, ws) /\ MayQueue(u, ws[1]) /\ Len(ws) = 2
              /\ ws[1].op = "create" /\ ws[2].op = "setId"
  <1>1. TypeOK /\ press[r] = "lookup" /\ press'[r] = "done"
    BY DEF Found, FinalInv, ConsentInv, TypeOK
  <1> DEFINE u == From(r)
             ws == <<W("create", r, NoKey), W("setId", r, NoKey)>>
  <1>2. u \in Users
    BY <1>1, PartiesTyped
  <1>3. W("create", r, NoKey) \in Write /\ W("setId", r, NoKey) \in Write
    BY DEF W, Write, Ops, NoKey
  <1>4. ws \in Seq(Write) /\ Enqueue(u, ws)
    BY <1>3 DEF Found
  <1>5. ws[1] = W("create", r, NoKey) /\ ws[2] = W("setId", r, NoKey) /\ Len(ws) = 2
    OBVIOUS
  <1>6. ~Made(r)
    BY <1>1 DEF FinalInv, MadeOnce
  <1>7. ~InQueue(u, "create", r)
    <2> SUFFICES ASSUME InQueue(u, "create", r)
                 PROVE  FALSE
      OBVIOUS
    <2>1. PICK i \in DOMAIN queue[u] : queue[u][i].op = "create" /\ queue[u][i].doc = r
      BY <1>1, <1>2 DEF InQueue, TypeOK
    <2>2. WriteInOrder(u, i)
      BY <1>2 DEF FinalInv, MadeOnce
    <2> QED
      BY <1>1, <2>1, <2>2 DEF WriteInOrder
  <1>8. MayQueue(u, W("create", r, NoKey))
    BY <1>1, <1>6, <1>7 DEF MayQueue, W
  <1>9. ws[1].op = "create" /\ ws[2].op = "setId"
    BY <1>5 DEF W
  <1> HIDE DEF ws
  <1> QED
    BY <1>2, <1>4, <1>5, <1>8, <1>9

LEMMA FoundFinal ==
    ASSUME FinalInv, NEW r \in Requests, Found(r)
    PROVE  MadeOnce' /\ OneKey'
  <1>1. TypeOK
    BY DEF FinalInv, ConsentInv
  <1>2. Settled
    BY <1>1 DEF Settled, Found, server, TypeOK
  <1>3. PICK u \in Users, ws \in Seq(Write) :
             /\ Enqueue(u, ws) /\ MayQueue(u, ws[1]) /\ Len(ws) = 2
             /\ ws[1].op = "create" /\ ws[2].op = "setId"
    BY FoundQueues
  <1>4. \A i \in 1..Len(ws) : i # 1 => ws[i].op \notin {"create", "accept", "delete"}
    BY <1>3
  <1> QED
    BY <1>2, <1>3, <1>4, EnqueueFinal

\* The listener queues friend documents and the deletions that go astray.
LEMMA SnapshotQueues ==
    ASSUME FinalInv, NEW u \in Users, RequestsSnapshot(u)
    PROVE  \E ws \in Seq(Write) :
              /\ Enqueue(u, ws)
              /\ \A i \in 1..Len(ws) :
                    \/ ws[i].op = "deleteUser"
                    \/ /\ ws[i].op = "befriend" /\ ws[i].doc \in Answered(u)
                       /\ ws[i].key = View(u)[ws[i].doc].tkey
  <1>1. TypeOK
    BY DEF FinalInv, ConsentInv
  <1>2. PICK order \in Ascending(Answered(u)) :
            Enqueue(u, Befriends(u, order) \o Deletions(order))
    BY DEF RequestsSnapshot, Befriends, Deletions
  <1>3. PICK bs \in Seq(Write) : bs = Befriends(u, order)
    BY <1>1, BatchTyped
  <1>4. PICK ds \in Seq(Write) : ds = Deletions(order)
    BY <1>1, BatchTyped
  <1>5. \A i \in 1..Len(bs) : /\ bs[i].op = "befriend" /\ bs[i].doc \in Answered(u)
                              /\ bs[i].key = View(u)[bs[i].doc].tkey
    <2>1. DOMAIN bs = DOMAIN order
      BY <1>3 DEF Befriends
    <2>2. \A i \in DOMAIN order : order[i] \in Answered(u)
      BY <1>1, OrderTyped
    <2> QED
      BY <1>3, <2>1, <2>2 DEF Befriends, W
  <1>6. \A i \in 1..Len(ds) : ds[i].op = "deleteUser"
    <2>1. DOMAIN ds = DOMAIN order
      BY <1>4 DEF Deletions
    <2> QED
      BY <1>4, <2>1 DEF Deletions, W
  <1>7. PICK ws \in Seq(Write) : ws = bs \o ds
    <2>1. bs \o ds \in Seq(Write)
      BY <1>1, <1>3, <1>4, BatchTyped
    <2> QED
      BY <2>1
  <1>8. \A i \in 1..Len(ws) :
            \/ ws[i].op = "deleteUser"
            \/ /\ ws[i].op = "befriend" /\ ws[i].doc \in Answered(u)
               /\ ws[i].key = View(u)[ws[i].doc].tkey
    <2> TAKE i \in 1..Len(ws)
    <2>1. Len(ws) = Len(bs) + Len(ds)
      BY <1>7
    <2>2. CASE i \in 1..Len(bs)
      <3>1. ws[i] = bs[i]
        BY <1>7, <2>2, Appended
      <3> QED
        BY <1>5, <2>2, <3>1
    <2>3. CASE i \notin 1..Len(bs)
      <3>1. i - Len(bs) \in 1..Len(ds) /\ ws[i] = ds[i - Len(bs)]
        BY <1>7, <2>1, <2>3, Appended
      <3> QED
        BY <1>6, <3>1
    <2> QED
      BY <2>2, <2>3
  <1> QED
    BY <1>2, <1>3, <1>4, <1>7, <1>8

LEMMA SnapshotFinal ==
    ASSUME FinalInv, NEW u \in Users, RequestsSnapshot(u)
    PROVE  MadeOnce' /\ OneKey'
  <1>1. PICK ws \in Seq(Write) :
            Enqueue(u, ws) /\ \A i \in 1..Len(ws) : ws[i].op \in {"befriend", "deleteUser"}
    BY SnapshotQueues
  <1>2. ws # <<>> => MayQueue(u, ws[1])
    <2> SUFFICES ASSUME ws # <<>>
                 PROVE  MayQueue(u, ws[1])
      OBVIOUS
    <2>1. ws[1].op \in {"befriend", "deleteUser"}
      BY <1>1
    <2> QED
      BY <2>1 DEF MayQueue
  <1>3. Settled
    BY DEF Settled, RequestsSnapshot, server
  <1> QED
    BY <1>1, <1>2, <1>3, EnqueueFinal

LEMMA NextFinal == FinalInv /\ [Next]_vars => FinalInv'
  <1> SUFFICES ASSUME FinalInv, [Next]_vars
               PROVE  MadeOnce' /\ OneKey'
    BY NextConsent DEF FinalInv
  <1>0. TypeOK
    BY DEF FinalInv, ConsentInv
  <1>1. CASE UNCHANGED vars
    <2>1. Settled /\ queue' = queue
      BY <1>1 DEF Settled, vars, server, app
    <2> QED
      BY <2>1, SettledFinal
  <1>2. ASSUME NEW u \in Users, SignIn(u) \/ StartListening(u)
        PROVE  MadeOnce' /\ OneKey'
    <2>1. Settled /\ queue' = queue
      BY <1>2 DEF Settled, SignIn, StartListening, server
    <2> QED
      BY <2>1, SettledFinal
  <1>3. ASSUME NEW u \in Users, OpenScreen(u) \/ FriendsLoaded(u) \/ CloseScreen(u) \/ Crash(u)
        PROVE  MadeOnce' /\ OneKey'
    <2>1. UNCHANGED <<docs, request, key, queue>>
      BY <1>3 DEF OpenScreen, FriendsLoaded, CloseScreen, Crash, ProcessEnds, server
    <2>2. \A r \in Requests : press[r] = "done" => press'[r] = "done"
      BY <1>3 DEF OpenScreen, FriendsLoaded, CloseScreen, Crash, ProcessEnds
    <2>3. \A v \in Users : screen'[v].rows \subseteq screen[v].rows
      <3>1. CASE OpenScreen(u)
        BY <1>0, <3>1 DEF OpenScreen, TypeOK
      <3>2. CASE FriendsLoaded(u)
        <4>1. PICK fs \in SUBSET Users :
                  screen' = [screen EXCEPT ![u] = [at |-> "shown", friends |-> fs, rows |-> {}]]
          BY <3>2 DEF FriendsLoaded
        <4> QED
          BY <1>0, <4>1 DEF TypeOK
      <3>3. CASE CloseScreen(u) \/ Crash(u)
        <4>1. Close(u)
          BY <3>3 DEF CloseScreen, Crash, ProcessEnds
        <4> QED
          BY <1>0, <4>1 DEF Close, Closed, TypeOK
      <3> QED
        BY <1>3, <3>1, <3>2, <3>3
    <2> QED
      BY <2>1, <2>2, <2>3, SettledFinal DEF Settled
  <1>4. ASSUME NEW r \in Requests, AddPressed(r) \/ LookupFailed(r)
        PROVE  MadeOnce' /\ OneKey'
    <2>1. Settled /\ queue' = queue
      BY <1>0, <1>4 DEF Settled, AddPressed, LookupFailed, server, TypeOK
    <2> QED
      BY <2>1, SettledFinal
  <1> QED
    BY <1>1, <1>2, <1>3, <1>4, ScreenFinal, NewDeviceFinal, CommitFinal, RowFinal,
       FoundFinal, SnapshotFinal DEF Next, ScreenNext

-----------------------------------------------------------------------------
(* Answers are final.                                                      *)

\* One step of AnswersAreFinal.
Final ==
    \A r \in Requests :
        /\ docs[r].at = "gone" => docs'[r].at = "gone"
        /\ docs[r].tkey # NoKey => docs'[r].tkey = docs[r].tkey \/ docs'[r].at = "gone"

LEMMA StepFinal == FinalInv /\ [Next]_vars => Final
  <1> SUFFICES ASSUME FinalInv, [Next]_vars
               PROVE  Final
    OBVIOUS
  <1>1. CASE docs' = docs
    BY <1>1 DEF Final
  <1>2. ASSUME NEW u \in Users, Commit(u), NEW r \in Requests
        PROVE  /\ docs[r].at = "gone" => docs'[r].at = "gone"
               /\ docs[r].tkey # NoKey =>
                     docs'[r].tkey = docs[r].tkey \/ docs'[r].at = "gone"
    <2>1. PICK w \in Write :
              /\ w = queue[u][1] /\ 1 \in DOMAIN queue[u]
              /\ \A s \in Requests : s # w.doc => docs'[s] = docs[s]
              /\ docs'[w.doc] = DocAfter(docs[w.doc], w)
              /\ w.op = "create" => u = From(w.doc) /\ press[w.doc] = "done" /\ ~Made(w.doc)
              /\ w.op \in {"delete", "accept"} => Made(w.doc)
              /\ w.op = "accept" => u = To(w.doc) /\ w.key = key[u] /\ MayAnswer(w.doc)
      BY <1>2, CommitWrite
    <2>2. /\ MayAnswer(r) => docs[r].tkey \in {NoKey, key[To(r)]}
          /\ docs[r].tkey # NoKey => docs[r].at = "there"
      BY DEF FinalInv, OneKey
    <2>3. CASE r # w.doc
      BY <2>1, <2>3
    <2>4. CASE r = w.doc /\ w.op = "create"
      BY <2>1, <2>2, <2>4 DEF Made
    <2>5. CASE r = w.doc /\ w.op = "accept"
      <3>1. docs'[r] = IF docs[r].at = "there" THEN There(docs[r].named, key[To(r)]) ELSE docs[r]
        BY <2>1, <2>5 DEF DocAfter
      <3> QED
        BY <2>1, <2>2, <2>5, <3>1 DEF There
    <2>6. CASE r = w.doc /\ w.op \notin {"create", "accept"}
      <3>1. \/ docs'[r] = docs[r]
            \/ docs'[r] = Gone
            \/ docs[r].at = "there" /\ docs'[r] = There(TRUE, docs[r].tkey)
        BY <2>1, <2>6 DEF DocAfter
      <3> QED
        BY <3>1 DEF Gone, There
    <2> QED
      BY <2>3, <2>4, <2>5, <2>6
  <1>3. CASE \E u \in Users : Commit(u)
    BY <1>2, <1>3 DEF Final
  <1>4. docs' = docs \/ \E u \in Users : Commit(u)
    BY DEF Next, vars, server, SignIn, StartListening, RequestsSnapshot, ScreenNext,
       OpenScreen, FriendsLoaded, ScreenSnapshot, CloseScreen, RowNext, Accept, Reject,
       Withdraw, KilledInAccept, ProcessEnds, Crash, NewDevice, AddPressed, Found,
       LookupFailed
  <1> QED
    BY <1>1, <1>3, <1>4

\* A removed request stays removed, whatever is still queued for it, and an
\* answered one keeps its answer until it is removed: for any users, requests
\* and bounds.
THEOREM AnswersFinal == Spec => AnswersAreFinal
  <1>1. FinalInv /\ [Next]_vars => [Final]_vars
    BY StepFinal
  <1>2. Spec => [][Final]_vars
    BY <1>1, InitFinal, NextFinal, PTL DEF Spec
  <1> QED
    BY <1>2 DEF AnswersAreFinal, Final

-----------------------------------------------------------------------------
(* Friends hold each other's keys.  Between two users with one accepted     *)
(* request both friend documents go back to it: the target's has the key    *)
(* it published with the request, and so has what the sender queued or      *)
(* wrote, because an answer is final and a new key answers nothing.         *)

\* The two sides of a request between two users.
Pairs == {r \in Requests : From(r) # To(r)}
Between(r, s) == {From(r), To(r)} = {From(s), To(s)}
Sole(r) == r \in accepted /\ \A s \in accepted : Between(r, s) => s = r

OfSender(r) == friend[From(r)][To(r)]
OfTarget(r) == friend[To(r)][From(r)]

\* The target may still write its own document, or publish a key.
Answerable(r) == MayAnswer(r) \/ InQueue(To(r), "befriend", r)
Unanswered(r) == docs[r].at = "there" /\ docs[r].tkey = NoKey
Published(r) == docs[r].tkey = key[To(r)] \/ docs[r].at = "gone"

\* The sender has, or is about to have, k as the target's key.
HeldBySender(r, k) ==
    /\ k # NoKey
    /\ docs[r].tkey = k \/ docs[r].at = "gone"
    /\ Answerable(r) => key[To(r)] = k
    /\ Sole(r) /\ OfTarget(r) # Stranger => OfTarget(r).mine = k

SenderSide(r) ==
    /\ \A i \in DOMAIN queue[From(r)] :
          queue[From(r)][i].op = "befriend" /\ queue[From(r)][i].doc = r
          => HeldBySender(r, queue[From(r)][i].key)
    /\ Sole(r) /\ OfSender(r) # Stranger =>
          OfSender(r).mine = skey[r] /\ HeldBySender(r, OfSender(r).theirs)

TargetSide(r) ==
    /\ \A i \in DOMAIN queue[To(r)] :
          queue[To(r)][i].op = "befriend" /\ queue[To(r)][i].doc = r =>
              /\ queue[To(r)][i].key = key[To(r)]
              /\ Published(r) \/ QueuedBefore(To(r), "accept", r, i)
    /\ Sole(r) /\ OfTarget(r) # Stranger =>
          /\ OfTarget(r).theirs = skey[r] /\ OfTarget(r).mine # NoKey
          /\ docs[r].tkey = OfTarget(r).mine \/ docs[r].at = "gone"

KeysInv ==
    /\ FinalInv
    /\ \A r \in accepted : press[r] = "done"
    /\ \A r \in Pairs : SenderSide(r) /\ TargetSide(r)

\* A sole answer is the one both documents come from.
LEMMA KeysAgreed == KeysInv => KeysAgree
  <1> SUFFICES ASSUME KeysInv, NEW u \in Users, NEW v \in Users, u # v,
                      IsFriend(u, v), IsFriend(v, u),
                      Cardinality({r \in accepted : Involves(r, u) /\ Other(r, u) = v}) = 1
               PROVE  friend[u][v].theirs = friend[v][u].mine
    BY DEF KeysAgree
  <1> DEFINE S == {r \in accepted : Involves(r, u) /\ Other(r, u) = v}
  <1>0. TypeOK /\ accepted \subseteq Requests
    BY DEF KeysInv, FinalInv, ConsentInv, TypeOK
  <1>1. PICK r : S = {r}
    <2>1. IsFiniteSet(S)
      BY <1>0, RequestsAssumption, FS_Subset
    <2> QED
      BY <2>1, FS_Singleton
  <1>2. r \in accepted /\ r \in Requests /\ Involves(r, u) /\ Other(r, u) = v
    BY <1>0, <1>1
  <1>3. r \in Pairs
    BY <1>2 DEF Pairs, Involves, Other
  <1>4. Sole(r)
    <2>1. \A s \in accepted : Between(r, s) => s \in S
      BY <1>2 DEF Between, Involves, Other
    <2> QED
      BY <1>1, <1>2, <2>1 DEF Sole
  <1>5. SenderSide(r) /\ TargetSide(r)
    BY <1>3 DEF KeysInv
  <1>6. CASE u = From(r)
    <2>1. v = To(r) /\ OfSender(r) = friend[u][v] /\ OfTarget(r) = friend[v][u]
      BY <1>2, <1>6 DEF Other, OfSender, OfTarget
    <2> QED
      BY <1>4, <1>5, <2>1 DEF SenderSide, HeldBySender, IsFriend
  <1>7. CASE u # From(r)
    <2>1. u = To(r) /\ v = From(r)
      BY <1>2, <1>7 DEF Other, Involves
    <2>2. OfSender(r) = friend[v][u] /\ OfTarget(r) = friend[u][v]
      BY <2>1 DEF OfSender, OfTarget
    <2> QED
      BY <1>4, <1>5, <2>2 DEF SenderSide, TargetSide, IsFriend
  <1> QED
    BY <1>6, <1>7

\* What a step does to the sender's side of a request.
Queued(r, k) == \E i \in DOMAIN queue[From(r)] :
    queue[From(r)][i].op = "befriend" /\ queue[From(r)][i].doc = r /\ queue[From(r)][i].key = k

SenderStep(r) ==
    /\ request' = request
    /\ r \in accepted => skey'[r] = skey[r]
    /\ Answerable(r)' => /\ key'[To(r)] = key[To(r)]
                         /\ Answerable(r) \/ Unanswered(r)
    /\ Sole(r)' /\ OfTarget(r)' # Stranger =>
          \/ Sole(r) /\ OfTarget(r)' = OfTarget(r)
          \/ InQueue(To(r), "befriend", r) /\ OfTarget(r)'.mine = key[To(r)]
    /\ \A i \in DOMAIN queue'[From(r)] :
          queue'[From(r)][i].op = "befriend" /\ queue'[From(r)][i].doc = r
          => Queued(r, queue'[From(r)][i].key) \/ HeldBySender(r, queue'[From(r)][i].key)
    /\ Sole(r)' /\ OfSender(r)' # Stranger =>
          /\ r \in accepted
          /\ \/ Sole(r) /\ OfSender(r)' = OfSender(r)
             \/ \E k : Queued(r, k) /\ OfSender(r)' = [mine |-> skey[r], theirs |-> k]

LEMMA SenderKept ==
    ASSUME KeysInv, Final, NEW r \in Pairs, SenderStep(r)
    PROVE  SenderSide(r)'
  <1>1. From(r)' = From(r) /\ To(r)' = To(r) /\ r \in Requests
    BY DEF SenderStep, From, To, Pairs
  <1>2. SenderSide(r)
    BY DEF KeysInv
  <1>3. ASSUME NEW k, HeldBySender(r, k)
        PROVE  HeldBySender(r, k)'
    <2>1. docs'[r].tkey = k \/ docs'[r].at = "gone"
      BY <1>1, <1>3 DEF HeldBySender, Final
    <2>2. Answerable(r)' => key'[To(r)] = k
      BY <1>3 DEF SenderStep, HeldBySender, Unanswered
    <2>3. Sole(r)' /\ OfTarget(r)' # Stranger => OfTarget(r)'.mine = k
      BY <1>3 DEF SenderStep, HeldBySender, Answerable
    <2>4. k # NoKey
      BY <1>3 DEF HeldBySender
    <2> QED
      BY <1>1, <2>1, <2>2, <2>3, <2>4 DEF HeldBySender
  <1>4. \A k : Queued(r, k) => HeldBySender(r, k)
    BY <1>2 DEF SenderSide, Queued
  <1>5. \A i \in DOMAIN queue'[From(r)] :
            queue'[From(r)][i].op = "befriend" /\ queue'[From(r)][i].doc = r
            => HeldBySender(r, queue'[From(r)][i].key)
    BY <1>4 DEF SenderStep
  <1>6. ASSUME NEW i \in DOMAIN queue'[From(r)],
               queue'[From(r)][i].op = "befriend", queue'[From(r)][i].doc = r
        PROVE  HeldBySender(r, queue[From(r)][i].key)'
    <2>1. PICK k : k = queue'[From(r)][i].key
      OBVIOUS
    <2>2. HeldBySender(r, k)'
      BY <1>3, <1>5, <1>6, <2>1
    <2> QED
      BY <1>1, <2>1, <2>2 DEF HeldBySender
  <1>7. ASSUME Sole(r)', OfSender(r)' # Stranger
        PROVE  OfSender(r)'.mine = skey'[r] /\ HeldBySender(r, OfSender(r).theirs)'
    <2>1. PICK k : /\ HeldBySender(r, k)
                   /\ OfSender(r)'.mine = skey[r] /\ OfSender(r)'.theirs = k
      <3>1. CASE Sole(r) /\ OfSender(r)' = OfSender(r)
        BY <1>2, <1>7, <3>1 DEF SenderSide
      <3>2. CASE \E k : Queued(r, k) /\ OfSender(r)' = [mine |-> skey[r], theirs |-> k]
        BY <1>4, <3>2
      <3> QED
        BY <1>7, <3>1, <3>2 DEF SenderStep
    <2>2. HeldBySender(r, k)'
      BY <1>3, <2>1
    <2>3. skey'[r] = skey[r]
      BY <1>7 DEF SenderStep
    <2> QED
      BY <2>1, <2>2, <2>3 DEF HeldBySender
  <1> QED
    BY <1>1, <1>6, <1>7 DEF SenderSide

\* What a step does to the target's side of a request.
TargetStep(r) ==
    /\ request' = request
    /\ r \in accepted => skey'[r] = skey[r]
    /\ \A i \in DOMAIN queue'[To(r)] :
          queue'[To(r)][i].op = "befriend" /\ queue'[To(r)][i].doc = r =>
              /\ key'[To(r)] = key[To(r)]
              /\ queue'[To(r)][i].key = key[To(r)]
              /\ \/ Published(r) \/ docs'[r].tkey = key[To(r)] \/ docs'[r].at = "gone"
                 \/ QueuedBefore(To(r), "accept", r, i)'
    /\ Sole(r)' /\ OfTarget(r)' # Stranger =>
          /\ r \in accepted
          /\ \/ Sole(r) /\ OfTarget(r)' = OfTarget(r)
             \/ Published(r) /\ OfTarget(r)' = [mine |-> key[To(r)], theirs |-> skey[r]]

LEMMA TargetKept ==
    ASSUME KeysInv, Final, NEW r \in Pairs, TargetStep(r)
    PROVE  TargetSide(r)'
  <1>1. From(r)' = From(r) /\ To(r)' = To(r) /\ r \in Requests /\ To(r) \in Users
    BY PartiesTyped DEF TargetStep, From, To, Pairs, KeysInv, FinalInv, ConsentInv
  <1>2. TargetSide(r)
    BY DEF KeysInv
  <1>3. key[To(r)] # NoKey
    BY <1>1 DEF KeysInv, FinalInv, ConsentInv, TypeOK
  <1>4. Published(r) => docs'[r].tkey = key[To(r)] \/ docs'[r].at = "gone"
    BY <1>1, <1>3 DEF Published, Final
  <1>5. ASSUME NEW i \in DOMAIN queue'[To(r)],
               queue'[To(r)][i].op = "befriend", queue'[To(r)][i].doc = r
        PROVE  /\ queue'[To(r)][i].key = key'[To(r)]
               /\ Published(r)' \/ QueuedBefore(To(r), "accept", r, i)'
    BY <1>1, <1>4, <1>5 DEF TargetStep, Published
  <1>6. ASSUME Sole(r)', OfTarget(r)' # Stranger
        PROVE  /\ OfTarget(r)'.theirs = skey'[r] /\ OfTarget(r)'.mine # NoKey
               /\ docs'[r].tkey = OfTarget(r)'.mine \/ docs'[r].at = "gone"
    <2>1. skey'[r] = skey[r]
      BY <1>6 DEF TargetStep
    <2>2. CASE Sole(r) /\ OfTarget(r)' = OfTarget(r)
      <3>1. /\ OfTarget(r).theirs = skey[r] /\ OfTarget(r).mine # NoKey
            /\ docs[r].tkey = OfTarget(r).mine \/ docs[r].at = "gone"
        BY <1>2, <1>6, <2>2 DEF TargetSide
      <3> QED
        BY <1>1, <2>1, <2>2, <3>1 DEF Final
    <2>3. CASE Published(r) /\ OfTarget(r)' = [mine |-> key[To(r)], theirs |-> skey[r]]
      BY <1>3, <1>4, <2>1, <2>3
    <2> QED
      BY <1>6, <2>2, <2>3 DEF TargetStep
  <1> QED
    BY <1>1, <1>5, <1>6 DEF TargetSide

\* A user's own document is from before, unless a request was accepted for the
\* first time, and then the two were strangers.
LEMMA SoleBefore ==
    ASSUME KeysInv, UNCHANGED <<request, friend>>, accepted \subseteq accepted',
           NEW r \in Pairs, Sole(r)'
    PROVE  /\ OfSender(r)' = OfSender(r) /\ OfTarget(r)' = OfTarget(r)
           /\ OfSender(r) # Stranger \/ OfTarget(r) # Stranger => Sole(r)
  <1>1. From(r)' = From(r) /\ To(r)' = To(r) /\ r \in Requests
        /\ From(r) \in Users /\ To(r) \in Users
    BY PartiesTyped DEF From, To, Pairs, KeysInv, FinalInv, ConsentInv
  <1>2. OfSender(r)' = OfSender(r) /\ OfTarget(r)' = OfTarget(r)
    BY <1>1 DEF OfSender, OfTarget
  <1>3. \A s \in accepted : Between(r, s) => s = r
    BY <1>1 DEF Sole, Between, From, To
  <1>4. ASSUME NEW a \in Users, NEW b \in Users, friend[a][b] # Stranger,
               {a, b} = {From(r), To(r)}
        PROVE  Sole(r)
    <2>1. PICK s \in accepted : Involves(s, a) /\ Other(s, a) = b
      BY <1>4 DEF KeysInv, FinalInv, ConsentInv, Consent, IsFriend
    <2>2. Between(r, s)
      BY <1>4, <2>1 DEF Between, Involves, Other
    <2> QED
      BY <1>3, <2>1, <2>2 DEF Sole
  <1>5. OfSender(r) # Stranger => Sole(r)
    BY <1>1, <1>4 DEF OfSender
  <1>6. OfTarget(r) # Stranger => Sole(r)
    BY <1>1, <1>4 DEF OfTarget
  <1> QED
    BY <1>2, <1>5, <1>6

\* Both sides after steps that queue nothing and send nothing.
Quiet ==
    /\ UNCHANGED <<docs, friend, request, queue, key, accepted>>
    /\ \A r \in accepted : press'[r] = "done" /\ skey'[r] = skey[r]
    /\ \A r \in Pairs : MayAnswer(r)' => MayAnswer(r) \/ Unanswered(r)

LEMMA QuietKeys ==
    ASSUME KeysInv, FinalInv', Final, Quiet
    PROVE  KeysInv'
  <1>1. accepted \subseteq Requests
    BY DEF KeysInv, FinalInv, ConsentInv, TypeOK
  <1>2. \A r \in accepted' : press'[r] = "done"
    BY DEF Quiet
  <1>3. ASSUME NEW r \in Pairs
        PROVE  SenderSide(r)' /\ TargetSide(r)'
    <2>1. From(r)' = From(r) /\ To(r)' = To(r)
      BY DEF Quiet, From, To
    <2>2. InQueue(To(r), "befriend", r)' <=> InQueue(To(r), "befriend", r)
      BY <2>1 DEF InQueue, Quiet
    <2>3. Answerable(r)' => Answerable(r) \/ Unanswered(r)
      BY <2>1, <2>2 DEF Answerable, Quiet
    <2>4. Sole(r)' => /\ OfSender(r)' = OfSender(r) /\ OfTarget(r)' = OfTarget(r)
                      /\ OfSender(r) # Stranger \/ OfTarget(r) # Stranger => Sole(r)
      BY SoleBefore DEF Quiet
    <2>5. Sole(r) => r \in accepted
      BY DEF Sole
    <2>6. \A i \in DOMAIN queue[From(r)] :
              queue[From(r)][i].op = "befriend" /\ queue[From(r)][i].doc = r
              => Queued(r, queue[From(r)][i].key)
      BY DEF Queued
    <2>7. SenderStep(r)
      BY <2>3, <2>4, <2>5, <2>6 DEF SenderStep, Quiet
    <2>8. \A i \in DOMAIN queue[To(r)] :
              QueuedBefore(To(r), "accept", r, i) => QueuedBefore(To(r), "accept", r, i)'
      BY <2>1 DEF QueuedBefore, Quiet
    <2>9. TargetSide(r)
      BY DEF KeysInv
    <2>10. TargetStep(r)
      BY <2>4, <2>5, <2>8, <2>9 DEF TargetStep, TargetSide, Quiet
    <2> QED
      BY <2>7, <2>10, SenderKept, TargetKept
  <1>4. Pairs' = Pairs
    BY DEF Pairs, Quiet, From, To
  <1>5. \A r \in Pairs' : SenderSide(r)' /\ TargetSide(r)'
    BY <1>3, <1>4
  <1> QED
    BY <1>2, <1>5 DEF KeysInv

\* A new phone has a new key, with which nothing was answered.
LEMMA NewDeviceKeys ==
    ASSUME KeysInv, FinalInv', Final, NEW u \in Users, NewDevice(u)
    PROVE  KeysInv'
  <1>0. TypeOK
    BY DEF KeysInv, FinalInv, ConsentInv
  <1>1. /\ UNCHANGED <<docs, friend, request, accepted, skey>>
        /\ \A v \in Users : /\ queue'[v] = IF v = u THEN <<>> ELSE queue[v]
                            /\ v # u => key'[v] = key[v]
                            /\ screen'[v].rows = IF v = u THEN {} ELSE screen[v].rows
    BY <1>0 DEF NewDevice, ProcessEnds, server, Close, Closed, TypeOK
  <1>2. \A r \in accepted' : press'[r] = "done"
    BY <1>0, <1>1 DEF NewDevice, ProcessEnds, KeysInv, TypeOK
  <1>3. ASSUME NEW r \in Pairs
        PROVE  SenderSide(r)' /\ TargetSide(r)'
    <2>1. From(r)' = From(r) /\ To(r)' = To(r) /\ From(r) \in Users /\ To(r) \in Users
      BY <1>0, <1>1, PartiesTyped DEF From, To, Pairs
    <2>2. Answerable(r)' => To(r) # u /\ Answerable(r)
      BY <1>1, <2>1 DEF Answerable, MayAnswer, InQueue
    <2>4. Sole(r)' => /\ OfSender(r)' = OfSender(r) /\ OfTarget(r)' = OfTarget(r)
                      /\ OfSender(r) # Stranger \/ OfTarget(r) # Stranger => Sole(r)
      BY <1>1, SoleBefore
    <2>5. Sole(r) => r \in accepted
      BY DEF Sole
    <2>6. \A i \in DOMAIN queue'[From(r)] :
              queue'[From(r)][i].op = "befriend" /\ queue'[From(r)][i].doc = r
              => Queued(r, queue'[From(r)][i].key)
      BY <1>1, <2>1 DEF Queued
    <2>7. SenderStep(r)
      BY <1>1, <2>1, <2>2, <2>4, <2>5, <2>6 DEF SenderStep
    <2>8. \A i \in DOMAIN queue'[To(r)] :
              /\ To(r) # u
              /\ QueuedBefore(To(r), "accept", r, i) => QueuedBefore(To(r), "accept", r, i)'
      BY <1>1, <2>1 DEF QueuedBefore
    <2>9. TargetSide(r)
      BY DEF KeysInv
    <2>10. TargetStep(r)
      BY <1>1, <2>1, <2>4, <2>5, <2>8, <2>9 DEF TargetStep, TargetSide
    <2> QED
      BY <2>7, <2>10, SenderKept, TargetKept
  <1>4. Pairs' = Pairs
    BY <1>1 DEF Pairs, From, To
  <1>5. \A r \in Pairs' : SenderSide(r)' /\ TargetSide(r)'
    BY <1>3, <1>4
  <1> QED
    BY <1>2, <1>5 DEF KeysInv

\* What a user may queue about the friend document: as sender a key that is
\* held, as target the current key, behind the answer with it.
MayBefriend(u, ws, i) ==
    LET w == ws[i]
    IN  w.op = "befriend" /\ w.doc \in Pairs =>
           \/ u = From(w.doc) /\ HeldBySender(w.doc, w.key)
           \/ /\ u = To(w.doc) /\ w.key = key[u] /\ MayAnswer(w.doc)
              /\ i = 2 /\ ws[1].op = "accept" /\ ws[1].doc = w.doc

LEMMA EnqueueKeys ==
    ASSUME KeysInv, FinalInv', Final, Settled,
           NEW u \in Users, NEW ws \in Seq(Write), Enqueue(u, ws),
           ws # <<>> => MayQueue(u, ws[1]),
           \A i \in 1..Len(ws) : i # 1 => ws[i].op \notin {"create", "accept", "delete"},
           \A i \in 1..Len(ws) : MayBefriend(u, ws, i),
           friend' = friend, skey' = skey, accepted \subseteq accepted',
           \A r \in accepted' : press'[r] = "done"
    PROVE  KeysInv'
  <1>0. TypeOK
    BY DEF KeysInv, FinalInv, ConsentInv
  <1>1. UNCHANGED <<docs, request, key>>
    BY DEF Settled
  <1>2. \A v \in Users : /\ queue[v] \in Seq(Write) /\ Len(queue[v]) \in Nat
                         /\ DOMAIN queue[v] = 1..Len(queue[v])
    BY <1>0, EnqueueQueue
  <1>3. \A v \in Users : DOMAIN queue'[v] = 1..Len(queue'[v]) /\ Len(queue'[v]) \in Nat
    BY <1>0, EnqueueQueue
  <1>4. \A v \in Users : \A i \in DOMAIN queue[v] :
            i \in DOMAIN queue'[v] /\ queue'[v][i] = queue[v][i]
    BY <1>0, EnqueueQueue
  <1>5. \A v \in Users : \A i \in DOMAIN queue'[v] :
            \/ i \in DOMAIN queue[v]
            \/ /\ v = u /\ i > Len(queue[u]) /\ i - Len(queue[u]) \in 1..Len(ws)
               /\ queue'[v][i] = ws[i - Len(queue[u])]
    BY <1>0, EnqueueQueue
  <1>6. \A r \in Requests : MayAnswer(r)' => MayAnswer(r)
    BY <1>0, EnqueueAnswers
  <1>7. ASSUME NEW r \in Pairs
        PROVE  SenderSide(r)' /\ TargetSide(r)'
    <2>1. From(r)' = From(r) /\ To(r)' = To(r) /\ From(r) \in Users /\ To(r) \in Users
          /\ r \in Requests /\ From(r) # To(r)
      BY <1>0, <1>1, PartiesTyped DEF From, To, Pairs
    \* What is new in the target's queue.
    <2>2. ASSUME NEW i \in DOMAIN queue'[To(r)], i \notin DOMAIN queue[To(r)],
                 queue'[To(r)][i].op = "befriend", queue'[To(r)][i].doc = r
          PROVE  /\ queue'[To(r)][i].key = key[To(r)] /\ MayAnswer(r)
                 /\ QueuedBefore(To(r), "accept", r, i)'
      <3>1. PICK j \in 1..Len(ws) : /\ To(r) = u /\ j = i - Len(queue[u])
                                    /\ queue'[u][i] = ws[j]
        BY <1>5, <2>1, <2>2
      <3>2. MayBefriend(u, ws, j) /\ u # From(r)
        BY <2>1, <3>1
      <3>3. /\ ws[j].key = key[u] /\ MayAnswer(r)
            /\ j = 2 /\ ws[1].op = "accept" /\ ws[1].doc = r
        BY <2>2, <3>1, <3>2 DEF MayBefriend
      <3>4. i \in Nat /\ i = Len(queue[u]) + 2
        BY <1>2, <1>3, <2>1, <3>1, <3>3
      <3>5. Len(queue[u]) + 1 \in DOMAIN queue'[u] /\ Len(queue[u]) + 1 < i
        BY <1>2, <1>3, <2>1, <2>2, <3>1, <3>4
      <3>6. Len(queue[u]) + 1 \notin DOMAIN queue[u]
        BY <1>2
      <3>7. queue'[u][Len(queue[u]) + 1] = ws[Len(queue[u]) + 1 - Len(queue[u])]
        BY <1>5, <3>5, <3>6
      <3>8. Len(queue[u]) + 1 - Len(queue[u]) = 1
        BY <1>2
      <3>9. QueuedBefore(To(r), "accept", r, i)'
        BY <2>1, <3>1, <3>3, <3>5, <3>7, <3>8 DEF QueuedBefore
      <3> QED
        BY <3>1, <3>3, <3>9
    <2>3. Answerable(r)' => Answerable(r)
      <3> SUFFICES ASSUME InQueue(To(r), "befriend", r)', ~InQueue(To(r), "befriend", r)
                   PROVE  MayAnswer(r)
        BY <1>6, <2>1 DEF Answerable
      <3>1. PICK i \in DOMAIN queue'[To(r)] : /\ queue'[To(r)][i].op = "befriend"
                                              /\ queue'[To(r)][i].doc = r
        BY <1>3, <2>1 DEF InQueue
      <3>2. i \notin DOMAIN queue[To(r)]
        BY <1>2, <1>4, <2>1, <3>1 DEF InQueue
      <3> QED
        BY <2>2, <3>1, <3>2
    <2>4. Sole(r)' => /\ OfSender(r)' = OfSender(r) /\ OfTarget(r)' = OfTarget(r)
                      /\ OfSender(r) # Stranger \/ OfTarget(r) # Stranger => Sole(r)
      BY <1>1, SoleBefore
    <2>5. Sole(r) => r \in accepted
      BY DEF Sole
    <2>6. ASSUME NEW i \in DOMAIN queue'[From(r)],
                 queue'[From(r)][i].op = "befriend", queue'[From(r)][i].doc = r
          PROVE  Queued(r, queue'[From(r)][i].key) \/ HeldBySender(r, queue'[From(r)][i].key)
      <3>1. CASE i \in DOMAIN queue[From(r)]
        BY <1>4, <2>1, <2>6, <3>1 DEF Queued
      <3>2. CASE i \notin DOMAIN queue[From(r)]
        <4>1. PICK j \in 1..Len(ws) : From(r) = u /\ queue'[u][i] = ws[j]
          BY <1>5, <2>1, <3>2
        <4>2. MayBefriend(u, ws, j) /\ u # To(r)
          BY <2>1, <4>1
        <4> QED
          BY <2>6, <4>1, <4>2 DEF MayBefriend
      <3> QED
        BY <3>1, <3>2
    <2>7. SenderStep(r)
      BY <1>1, <2>3, <2>4, <2>5, <2>6 DEF SenderStep
    <2>8. ASSUME NEW i \in DOMAIN queue[To(r)], QueuedBefore(To(r), "accept", r, i)
          PROVE  QueuedBefore(To(r), "accept", r, i)'
      BY <1>4, <2>1, <2>8 DEF QueuedBefore
    <2>9. TargetSide(r)
      BY DEF KeysInv
    <2>10. ASSUME NEW i \in DOMAIN queue'[To(r)],
                  queue'[To(r)][i].op = "befriend", queue'[To(r)][i].doc = r
           PROVE  /\ queue'[To(r)][i].key = key[To(r)]
                  /\ Published(r) \/ QueuedBefore(To(r), "accept", r, i)'
      <3>1. CASE i \in DOMAIN queue[To(r)]
        BY <1>4, <2>1, <2>8, <2>9, <2>10, <3>1 DEF TargetSide
      <3>2. CASE i \notin DOMAIN queue[To(r)]
        BY <2>2, <2>10, <3>2
      <3> QED
        BY <3>1, <3>2
    <2>11. TargetStep(r)
      BY <1>1, <2>4, <2>5, <2>10 DEF TargetStep
    <2> QED
      BY <2>7, <2>11, SenderKept, TargetKept
  <1>8. Pairs' = Pairs
    BY <1>1 DEF Pairs, From, To
  <1>9. \A r \in Pairs' : SenderSide(r)' /\ TargetSide(r)'
    BY <1>7, <1>8
  <1> QED
    BY <1>9 DEF KeysInv

\* The server takes a write that a friend document is made of.
LEMMA CommitKeys ==
    ASSUME KeysInv, FinalInv', Final, NEW u \in Users, Commit(u)
    PROVE  KeysInv'
  <1>0. TypeOK /\ FinalInv
    BY DEF KeysInv, FinalInv, ConsentInv
  <1>1. UNCHANGED <<request, key, skey, press, screen, accepted>>
    BY DEF Commit, app
  <1>2. PICK w \in Write :
              /\ w = queue[u][1] /\ 1 \in DOMAIN queue[u]
              /\ docs'[w.doc] = DocAfter(docs[w.doc], w)
              /\ w.op \in {"delete", "accept"} => Made(w.doc)
              /\ w.op = "accept" => u = To(w.doc) /\ w.key = key[u] /\ MayAnswer(w.doc)
    BY <1>0, CommitWrite
  <1>3. w.doc \in Requests /\ w = Head(queue[u]) /\ docs[w.doc] \in Doc
    BY <1>0, <1>2 DEF Write, TypeOK
  <1>4. \A v \in Users : queue[v] \in Seq(Write) /\ queue'[v] \in Seq(Write)
    BY <1>0, <1>2, CommitQueue
  <1>5. \A v \in Users : \A i \in DOMAIN queue'[v] :
            /\ Place(u, v, i) \in DOMAIN queue[v]
            /\ queue'[v][i] = queue[v][Place(u, v, i)]
    BY <1>0, <1>2, CommitQueue
  <1>6. \A v \in Users : \A op, r : InQueue(v, op, r)' => InQueue(v, op, r)
    BY <1>0, <1>2, CommitQueue
  <1>7. \A v \in Users : \A i \in DOMAIN queue'[v] : \A op, r :
            QueuedBefore(v, op, r, Place(u, v, i)) =>
               QueuedBefore(v, op, r, i)' \/ (v = u /\ w.op = op /\ w.doc = r)
    BY <1>0, <1>2, CommitQueue
  <1>8. \/ friend' = friend
        \/ /\ w.op = "befriend" /\ w.doc \in accepted /\ Involves(w.doc, u)
           /\ Other(w.doc, u) \in Users
           /\ friend' = [friend EXCEPT ![u][Other(w.doc, u)] = Pair(u, w)]
    <2>1. w.op = "befriend" => w.doc \in accepted /\ Involves(w.doc, u)
      BY <1>2, <1>4 DEF KeysInv, FinalInv, ConsentInv, QueuesJustified, YesWrite
    <2>2. Other(w.doc, u) \in Users
      BY <1>0, <1>3, PartiesTyped
    <2> QED
      BY <1>3, <2>1, <2>2 DEF Commit
  <1>9. ASSUME NEW r \in Pairs
        PROVE  SenderSide(r)' /\ TargetSide(r)'
    <2>1. From(r)' = From(r) /\ To(r)' = To(r) /\ From(r) \in Users /\ To(r) \in Users
          /\ r \in Requests /\ From(r) # To(r)
      BY <1>0, <1>1, PartiesTyped DEF From, To, Pairs
    <2>2. Sole(r)' <=> Sole(r)
      BY <1>1 DEF Sole, Between, From, To
    <2>3. Answerable(r)' => Answerable(r)
      BY <1>1, <1>6, <2>1 DEF Answerable, MayAnswer
    <2>4. Sole(r) => r \in accepted
      BY DEF Sole
    <2>5. SenderSide(r) /\ TargetSide(r)
      BY DEF KeysInv
    <2>6. ASSUME Sole(r), OfSender(r)' # OfSender(r)
          PROVE  \E k : Queued(r, k) /\ OfSender(r)' = [mine |-> skey[r], theirs |-> k]
      <3>1. /\ w.op = "befriend" /\ w.doc \in accepted /\ Involves(w.doc, u)
            /\ friend' = [friend EXCEPT ![u][Other(w.doc, u)] = Pair(u, w)]
        BY <1>8, <2>1, <2>6 DEF OfSender
      <3>2. u = From(r) /\ Other(w.doc, u) = To(r)
        BY <1>0, <2>1, <2>6, <3>1 DEF OfSender, TypeOK
      <3>3. Between(r, w.doc)
        BY <3>1, <3>2 DEF Between, Involves, Other
      <3>4. w.doc = r
        BY <2>6, <3>1, <3>3 DEF Sole
      <3>5. OfSender(r)' = Pair(u, w)
        BY <1>0, <1>8, <2>1, <3>1, <3>2 DEF OfSender, TypeOK
      <3>6. Queued(r, w.key)
        BY <1>2, <3>1, <3>2, <3>4 DEF Queued
      <3> QED
        BY <3>2, <3>4, <3>5, <3>6 DEF Pair
    <2>7. ASSUME Sole(r), OfTarget(r)' # OfTarget(r)
          PROVE  /\ InQueue(To(r), "befriend", r) /\ Published(r)
                 /\ OfTarget(r)' = [mine |-> key[To(r)], theirs |-> skey[r]]
      <3>1. /\ w.op = "befriend" /\ w.doc \in accepted /\ Involves(w.doc, u)
            /\ friend' = [friend EXCEPT ![u][Other(w.doc, u)] = Pair(u, w)]
        BY <1>8, <2>1, <2>7 DEF OfTarget
      <3>2. u = To(r) /\ Other(w.doc, u) = From(r)
        BY <1>0, <2>1, <2>7, <3>1 DEF OfTarget, TypeOK
      <3>3. Between(r, w.doc)
        BY <3>1, <3>2 DEF Between, Involves, Other
      <3>4. w.doc = r
        BY <2>7, <3>1, <3>3 DEF Sole
      <3>5. OfTarget(r)' = Pair(u, w)
        BY <1>0, <1>8, <2>1, <3>1, <3>2 DEF OfTarget, TypeOK
      <3>6. InQueue(To(r), "befriend", r)
        BY <1>2, <1>4, <2>1, <3>1, <3>2, <3>4 DEF InQueue
      <3>7. ~QueuedBefore(To(r), "accept", r, 1)
        BY <1>4, <2>1 DEF QueuedBefore
      <3>8. w.key = key[To(r)] /\ Published(r)
        BY <1>2, <2>5, <3>1, <3>2, <3>4, <3>7 DEF TargetSide
      <3> QED
        BY <2>1, <3>2, <3>4, <3>5, <3>6, <3>8 DEF Pair
    <2>8. ASSUME NEW i \in DOMAIN queue'[From(r)],
                 queue'[From(r)][i].op = "befriend", queue'[From(r)][i].doc = r
          PROVE  Queued(r, queue'[From(r)][i].key)
      BY <1>5, <2>1, <2>8 DEF Queued
    <2>9. SenderStep(r)
      <3>1. Sole(r)' /\ OfTarget(r)' # Stranger =>
                \/ Sole(r) /\ OfTarget(r)' = OfTarget(r)
                \/ InQueue(To(r), "befriend", r) /\ OfTarget(r)'.mine = key[To(r)]
        BY <2>2, <2>7
      <3>2. Sole(r)' /\ OfSender(r)' # Stranger =>
                /\ r \in accepted
                /\ \/ Sole(r) /\ OfSender(r)' = OfSender(r)
                   \/ \E k : Queued(r, k) /\ OfSender(r)' = [mine |-> skey[r], theirs |-> k]
        BY <2>2, <2>4, <2>6
      <3> QED
        BY <1>1, <2>3, <2>8, <3>1, <3>2 DEF SenderStep
    <2>10. ASSUME NEW i \in DOMAIN queue'[To(r)],
                  queue'[To(r)][i].op = "befriend", queue'[To(r)][i].doc = r
           PROVE  /\ queue'[To(r)][i].key = key[To(r)]
                  /\ \/ Published(r) \/ docs'[r].tkey = key[To(r)] \/ docs'[r].at = "gone"
                     \/ QueuedBefore(To(r), "accept", r, i)'
      <3>1. PICK j \in DOMAIN queue[To(r)] : /\ j = Place(u, To(r), i)
                                             /\ queue'[To(r)][i] = queue[To(r)][j]
        BY <1>5, <2>1
      <3>2. /\ queue[To(r)][j].key = key[To(r)]
            /\ Published(r) \/ QueuedBefore(To(r), "accept", r, j)
        BY <2>5, <2>10, <3>1 DEF TargetSide
      <3>3. ASSUME w.op = "accept", w.doc = r
            PROVE  docs'[r].tkey = key[To(r)] \/ docs'[r].at = "gone"
        <4>1. docs[r].at \in {"there", "gone"}
          BY <1>2, <1>3, <3>3 DEF Made, Doc
        <4> QED
          BY <1>2, <3>3, <4>1 DEF DocAfter, There
      <3>4. QueuedBefore(To(r), "accept", r, j) =>
                QueuedBefore(To(r), "accept", r, i)' \/ (w.op = "accept" /\ w.doc = r)
        BY <1>7, <2>1, <3>1
      <3> QED
        BY <3>1, <3>2, <3>3, <3>4
    <2>11. TargetStep(r)
      <3>1. Sole(r)' /\ OfTarget(r)' # Stranger =>
                /\ r \in accepted
                /\ \/ Sole(r) /\ OfTarget(r)' = OfTarget(r)
                   \/ Published(r) /\ OfTarget(r)' = [mine |-> key[To(r)], theirs |-> skey[r]]
        BY <2>2, <2>4, <2>7
      <3> QED
        BY <1>1, <2>10, <3>1 DEF TargetStep
    <2> QED
      BY <2>9, <2>11, SenderKept, TargetKept
  <1>10. Pairs' = Pairs
    BY <1>1 DEF Pairs, From, To
  <1>11. \A r \in Pairs' : SenderSide(r)' /\ TargetSide(r)'
    BY <1>9, <1>10
  <1> QED
    BY <1>1, <1>11 DEF KeysInv

\* A row is made of a request that is there and not answered.
LEMMA ScreenKeys ==
    ASSUME KeysInv, NEW u \in Users, ScreenSnapshot(u)
    PROVE  Quiet
  <1>0. TypeOK /\ FinalInv
    BY DEF KeysInv, FinalInv, ConsentInv
  <1>1. UNCHANGED <<docs, friend, request, queue, key, accepted, press, skey>>
    BY DEF ScreenSnapshot, server
  <1>2. \A v \in Users : \A r \in screen'[v].rows :
            r \in screen[v].rows \/ (v = u /\ r \in NewRows(u))
    BY <1>0 DEF ScreenSnapshot, TypeOK
  <1>3. ASSUME NEW r \in Pairs, MayAnswer(r)'
        PROVE  MayAnswer(r) \/ Unanswered(r)
    <2>1. From(r) # To(r) /\ To(r) \in Users /\ r \in Requests /\ To(r)' = To(r)
      BY <1>0, <1>1, PartiesTyped DEF Pairs, To
    <2>2. InQueue(To(r), "accept", r)' <=> InQueue(To(r), "accept", r)
      BY <1>1, <2>1 DEF InQueue
    <2>3. MayAnswer(r) \/ (To(r) = u /\ r \in NewRows(u))
      BY <1>2, <1>3, <2>1, <2>2 DEF MayAnswer
    <2>4. ASSUME To(r) = u, r \in NewRows(u), ~InQueue(u, "accept", r)
          PROVE  Unanswered(r)
      <3>1. View(u)[r].at = "there" /\ View(u)[r].tkey = NoKey
        BY <2>4 DEF NewRows, Offered
      <3>2. View(u)[r] = IF Present(u, r)
                         THEN There(docs[r].named \/ InQueue(u, "setId", r), docs[r].tkey)
                         ELSE NoDoc
        BY <2>1, <2>4 DEF View
      <3>3. Present(u, r) /\ docs[r].tkey = NoKey
        BY <3>1, <3>2 DEF NoDoc, There
      <3>4. ~InQueue(u, "create", r)
        <4> SUFFICES ASSUME InQueue(u, "create", r)
                     PROVE  FALSE
          OBVIOUS
        <4>1. PICK i \in DOMAIN queue[u] : queue[u][i].op = "create" /\ queue[u][i].doc = r
          BY <1>0 DEF InQueue, TypeOK
        <4>2. WriteInOrder(u, i)
          BY <1>0 DEF FinalInv, MadeOnce
        <4> QED
          BY <2>1, <2>4, <4>1, <4>2 DEF WriteInOrder
      <3> QED
        BY <3>3, <3>4 DEF Present, Unanswered
    <2> QED
      BY <2>3, <2>4 DEF MayAnswer
  <1>4. \A r \in accepted : press[r] = "done"
    BY DEF KeysInv
  <1> QED
    BY <1>1, <1>3, <1>4 DEF Quiet

\* Yes, with or without its second write, No, and the withdrawal.
LEMMA RowKeys ==
    ASSUME KeysInv, FinalInv', Final, NEW u \in Users, NEW r \in Requests, RowNext(u, r)
    PROVE  KeysInv'
  <1>0. TypeOK /\ FinalInv
    BY DEF KeysInv, FinalInv, ConsentInv
  <1>1. r \in screen[u].rows
    BY DEF RowNext, Accept, Reject, Withdraw, KilledInAccept
  <1>2. \A s \in Requests : press[s] = "done" => press'[s] = "done"
    BY DEF RowNext, Accept, Reject, Withdraw, KilledInAccept, ProcessEnds
  <1>3. Settled /\ friend' = friend /\ skey' = skey
    <2>1. UNCHANGED <<docs, request, key, friend, skey>>
      BY DEF RowNext, Accept, Reject, Withdraw, KilledInAccept, ProcessEnds, server
    <2>2. Close(u)
      BY DEF RowNext, Accept, Reject, Withdraw, KilledInAccept, ProcessEnds
    <2>3. \A v \in Users : screen'[v].rows \subseteq screen[v].rows
      BY <1>0, <2>2 DEF Close, Closed, TypeOK
    <2> QED
      BY <1>2, <2>1, <2>3 DEF Settled
  <1>4. press[r] = "done"
    <2>1. Made(r) \/ (u = From(r) /\ InQueue(u, "create", r))
      BY <1>0, <1>1 DEF FinalInv, MadeOnce
    <2>2. Made(r) => press[r] = "done"
      BY <1>0 DEF FinalInv, MadeOnce
    <2>3. ASSUME InQueue(u, "create", r)
          PROVE  press[r] = "done"
      <3>1. PICK i \in DOMAIN queue[u] : queue[u][i].op = "create" /\ queue[u][i].doc = r
        BY <1>0, <2>3 DEF InQueue, TypeOK
      <3>2. WriteInOrder(u, i)
        BY <1>0 DEF FinalInv, MadeOnce
      <3> QED
        BY <3>1, <3>2 DEF WriteInOrder
    <2> QED
      BY <2>1, <2>2, <2>3
  <1>5. accepted \subseteq accepted' /\ accepted' \subseteq accepted \cup {r}
    BY DEF RowNext, Accept, Reject, Withdraw, KilledInAccept
  <1>6. \A s \in accepted' : press'[s] = "done"
    BY <1>0, <1>2, <1>4, <1>5 DEF KeysInv, TypeOK
  <1>7. W("accept", r, key[u]) \in Write /\ W("befriend", r, key[u]) \in Write
        /\ W("delete", r, NoKey) \in Write
    BY <1>0 DEF TypeOK, W, Write, Ops, NoKey
  <1>8. CASE Accept(u, r)
    <2> DEFINE yes == <<W("accept", r, key[u]), W("befriend", r, key[u])>>
    <2>1. PICK ws \in Seq(Write) :
              /\ Enqueue(u, ws) /\ Len(ws) = 2
              /\ ws[1] = W("accept", r, key[u]) /\ ws[2] = W("befriend", r, key[u])
      <3>1. yes \in Seq(Write) /\ Enqueue(u, yes)
        BY <1>7, <1>8 DEF Accept
      <3>2. Len(yes) = 2 /\ yes[1] = W("accept", r, key[u]) /\ yes[2] = W("befriend", r, key[u])
        OBVIOUS
      <3> HIDE DEF yes
      <3> QED
        BY <3>1, <3>2
    <2>2. MayQueue(u, ws[1])
      BY <1>1, <1>8, <2>1 DEF MayQueue, W, Accept
    <2>3. \A i \in 1..Len(ws) : i # 1 => ws[i].op \notin {"create", "accept", "delete"}
      BY <2>1 DEF W
    <2>4. u = To(r) /\ MayAnswer(r)
      BY <1>1, <1>8 DEF Accept, MayAnswer
    <2>5. ws[1].op = "accept" /\ ws[1].doc = r /\ ws[2].doc = r /\ ws[2].key = key[u]
      BY <2>1 DEF W
    <2>6. \A i \in 1..Len(ws) : MayBefriend(u, ws, i)
      <3> SUFFICES ASSUME NEW i \in 1..Len(ws), ws[i].op = "befriend"
                   PROVE  MayBefriend(u, ws, i)
        BY DEF MayBefriend
      <3>1. i = 2
        BY <2>1, <2>5
      <3> QED
        BY <2>4, <2>5, <3>1 DEF MayBefriend
    <2> QED
      BY <1>3, <1>5, <1>6, <2>1, <2>2, <2>3, <2>6, EnqueueKeys
  <1>9. CASE KilledInAccept(u, r) \/ Reject(u, r) \/ Withdraw(u, r)
    <2> DEFINE cut == <<W("accept", r, key[u])>>
               no == <<W("delete", r, NoKey)>>
    <2>1. PICK ws \in Seq(Write) :
              /\ Enqueue(u, ws) /\ Len(ws) = 1 /\ MayQueue(u, ws[1])
              /\ ws[1].op # "befriend"
      <3>1. CASE KilledInAccept(u, r)
        <4>1. cut \in Seq(Write) /\ Enqueue(u, cut)
          BY <1>7, <3>1 DEF KilledInAccept
        <4>2. Len(cut) = 1 /\ cut[1] = W("accept", r, key[u])
          OBVIOUS
        <4> HIDE DEF cut
        <4>3. MayQueue(u, cut[1]) /\ cut[1].op # "befriend"
          BY <1>1, <3>1, <4>2 DEF MayQueue, W, KilledInAccept
        <4> QED
          BY <4>1, <4>2, <4>3
      <3>2. CASE Reject(u, r) \/ Withdraw(u, r)
        <4>1. no \in Seq(Write) /\ Enqueue(u, no)
          BY <1>7, <3>2 DEF Reject, Withdraw
        <4>2. Len(no) = 1 /\ no[1] = W("delete", r, NoKey)
          OBVIOUS
        <4> HIDE DEF no
        <4>3. MayQueue(u, no[1]) /\ no[1].op # "befriend"
          BY <1>1, <4>2 DEF MayQueue, W
        <4> QED
          BY <4>1, <4>2, <4>3
      <3> QED
        BY <1>9, <3>1, <3>2
    <2>2. \A i \in 1..Len(ws) : i = 1
      BY <2>1
    <2>3. \A i \in 1..Len(ws) : MayBefriend(u, ws, i)
      BY <2>1, <2>2 DEF MayBefriend
    <2> QED
      BY <1>3, <1>5, <1>6, <2>1, <2>2, <2>3, EnqueueKeys
  <1> QED
    BY <1>8, <1>9 DEF RowNext

\* A request that is made befriends nobody.
LEMMA FoundKeys ==
    ASSUME KeysInv, FinalInv', Final, NEW r \in Requests, Found(r)
    PROVE  KeysInv'
  <1>0. TypeOK /\ FinalInv
    BY DEF KeysInv, FinalInv, ConsentInv
  <1>1. /\ UNCHANGED <<docs, friend, request, key, accepted, screen, skey>>
        /\ \A s \in Requests : press[s] = "done" => press'[s] = "done"
    BY <1>0 DEF Found, server, TypeOK
  <1>2. PICK u \in Users, ws \in Seq(Write) :
             /\ Enqueue(u, ws) /\ MayQueue(u, ws[1]) /\ Len(ws) = 2
             /\ ws[1].op = "create" /\ ws[2].op = "setId"
    BY <1>0, FoundQueues
  <1>3. \A i \in 1..Len(ws) : i = 1 \/ i = 2
    BY <1>2
  <1>4. /\ \A i \in 1..Len(ws) : i # 1 => ws[i].op \notin {"create", "accept", "delete"}
        /\ \A i \in 1..Len(ws) : MayBefriend(u, ws, i)
    BY <1>2, <1>3 DEF MayBefriend
  <1>5. Settled
    BY <1>1 DEF Settled
  <1>6. \A s \in accepted' : press'[s] = "done"
    BY <1>0, <1>1 DEF KeysInv, TypeOK
  <1> QED
    BY <1>1, <1>2, <1>4, <1>5, <1>6, EnqueueKeys

\* The sender's listener queues the key it sees, which the request holds and
\* the target's document will hold.
LEMMA SnapshotKeys ==
    ASSUME KeysInv, FinalInv', Final, NEW u \in Users, RequestsSnapshot(u)
    PROVE  KeysInv'
  <1>0. TypeOK /\ FinalInv
    BY DEF KeysInv, FinalInv, ConsentInv
  <1>1. UNCHANGED <<docs, friend, request, key, accepted, screen, skey, press>>
    BY DEF RequestsSnapshot, server
  <1>2. PICK ws \in Seq(Write) :
            /\ Enqueue(u, ws)
            /\ \A i \in 1..Len(ws) :
                  \/ ws[i].op = "deleteUser"
                  \/ /\ ws[i].op = "befriend" /\ ws[i].doc \in Answered(u)
                     /\ ws[i].key = View(u)[ws[i].doc].tkey
    BY <1>0, SnapshotQueues
  <1>3. ASSUME NEW r \in Answered(u), r \in Pairs
        PROVE  u = From(r) /\ HeldBySender(r, View(u)[r].tkey)
    <2>1. /\ r \in Requests /\ From(r) = u /\ From(r) # To(r) /\ To(r) \in Users
          /\ View(u)[r].at = "there" /\ View(u)[r].tkey # NoKey
      BY <1>0, <1>3, PartiesTyped DEF Answered, Pairs
    <2>2. ~InQueue(u, "accept", r)
      <3> SUFFICES ASSUME InQueue(u, "accept", r)
                   PROVE  FALSE
        OBVIOUS
      <3>1. PICK i \in DOMAIN queue[u] : queue[u][i].op = "accept" /\ queue[u][i].doc = r
        BY <1>0 DEF InQueue, TypeOK
      <3> QED
        BY <1>0, <2>1, <3>1 DEF FinalInv, OneKey
    <2>3. View(u)[r] = IF Present(u, r)
                       THEN There(docs[r].named \/ InQueue(u, "setId", r), docs[r].tkey)
                       ELSE NoDoc
      BY <2>1, <2>2 DEF View
    <2>4. View(u)[r].tkey = docs[r].tkey
      BY <2>1, <2>3 DEF NoDoc, There
    <2>5. PICK k : k = docs[r].tkey /\ k # NoKey
      BY <2>1, <2>4
    <2>6. docs[r].at = "there" /\ (MayAnswer(r) => key[To(r)] = k)
      BY <1>0, <2>1, <2>5 DEF FinalInv, OneKey
    <2>7. TargetSide(r)
      BY <1>3 DEF KeysInv
    <2>8. ASSUME InQueue(To(r), "befriend", r)
          PROVE  key[To(r)] = k
      <3>1. PICK i \in DOMAIN queue[To(r)] : /\ queue[To(r)][i].op = "befriend"
                                             /\ queue[To(r)][i].doc = r
        BY <1>0, <2>1, <2>8 DEF InQueue, TypeOK
      <3>2. Published(r) \/ QueuedBefore(To(r), "accept", r, i)
        BY <2>7, <3>1 DEF TargetSide
      <3>3. Published(r) => key[To(r)] = k
        BY <2>5, <2>6 DEF Published
      <3>4. QueuedBefore(To(r), "accept", r, i) => MayAnswer(r)
        BY <1>0, <2>1 DEF QueuedBefore, MayAnswer, InQueue, TypeOK
      <3> QED
        BY <2>6, <3>2, <3>3, <3>4
    <2>9. Sole(r) /\ OfTarget(r) # Stranger => OfTarget(r).mine = k
      BY <2>5, <2>6, <2>7 DEF TargetSide
    <2> QED
      BY <2>1, <2>4, <2>5, <2>6, <2>8, <2>9 DEF HeldBySender, Answerable
  <1>4. \A i \in 1..Len(ws) : MayBefriend(u, ws, i)
    BY <1>2, <1>3 DEF MayBefriend
  <1>5. \A i \in 1..Len(ws) : ws[i].op \in {"befriend", "deleteUser"}
    BY <1>2
  <1>6. ws # <<>> => MayQueue(u, ws[1])
    <2> SUFFICES ASSUME ws # <<>>
                 PROVE  MayQueue(u, ws[1])
      OBVIOUS
    <2>1. ws[1].op \in {"befriend", "deleteUser"}
      BY <1>5
    <2> QED
      BY <2>1 DEF MayQueue
  <1>7. Settled
    BY <1>1 DEF Settled
  <1>8. \A s \in accepted' : press'[s] = "done"
    BY <1>1 DEF KeysInv
  <1> QED
    BY <1>1, <1>2, <1>4, <1>5, <1>6, <1>7, <1>8, EnqueueKeys

LEMMA InitKeys == Init => KeysInv
  <1> SUFFICES ASSUME Init
               PROVE  KeysInv
    OBVIOUS
  <1>1. TypeOK
    BY InitTyped
  <1>2. ASSUME NEW r \in Pairs
        PROVE  SenderSide(r) /\ TargetSide(r)
    <2>1. From(r) \in Users /\ To(r) \in Users
      BY <1>1, PartiesTyped DEF Pairs
    <2>2. queue[From(r)] = <<>> /\ queue[To(r)] = <<>> /\ accepted = {}
      BY <2>1 DEF Init
    <2> QED
      BY <2>2 DEF SenderSide, TargetSide, Sole
  <1>3. \A r \in accepted : press[r] = "done"
    BY DEF Init
  <1> QED
    BY <1>2, <1>3, InitFinal DEF KeysInv

LEMMA NextKeys == KeysInv /\ [Next]_vars => KeysInv'
  <1> SUFFICES ASSUME KeysInv, [Next]_vars
               PROVE  KeysInv'
    OBVIOUS
  <1>0. TypeOK /\ FinalInv /\ FinalInv' /\ Final
    BY NextFinal, StepFinal DEF KeysInv, FinalInv, ConsentInv
  <1>1. CASE UNCHANGED vars
    <2>1. Quiet
      BY <1>1 DEF Quiet, KeysInv, vars, server, app, MayAnswer, InQueue, To
    <2> QED
      BY <1>0, <2>1, QuietKeys
  <1>2. ASSUME NEW u \in Users,
               \/ SignIn(u) \/ StartListening(u)
               \/ OpenScreen(u) \/ FriendsLoaded(u) \/ CloseScreen(u) \/ Crash(u)
        PROVE  KeysInv'
    <2>1. UNCHANGED <<docs, friend, request, queue, key, accepted, skey>>
      BY <1>2 DEF SignIn, StartListening, OpenScreen, FriendsLoaded, CloseScreen, Crash,
                  ProcessEnds, server
    <2>2. \A r \in accepted : press'[r] = "done"
      <3>1. \A r \in Requests : press[r] = "done" => press'[r] = "done"
        BY <1>2 DEF SignIn, StartListening, OpenScreen, FriendsLoaded, CloseScreen, Crash,
                    ProcessEnds
      <3> QED
        BY <1>0, <3>1 DEF KeysInv, TypeOK
    <2>3. \A v \in Users : screen'[v].rows \subseteq screen[v].rows
      <3>1. CASE SignIn(u) \/ StartListening(u)
        BY <3>1 DEF SignIn, StartListening
      <3>2. CASE OpenScreen(u)
        BY <1>0, <3>2 DEF OpenScreen, TypeOK
      <3>3. CASE FriendsLoaded(u)
        <4>1. PICK fs \in SUBSET Users :
                  screen' = [screen EXCEPT ![u] = [at |-> "shown", friends |-> fs, rows |-> {}]]
          BY <3>3 DEF FriendsLoaded
        <4> QED
          BY <1>0, <4>1 DEF TypeOK
      <3>4. CASE CloseScreen(u) \/ Crash(u)
        <4>1. Close(u)
          BY <3>4 DEF CloseScreen, Crash, ProcessEnds
        <4> QED
          BY <1>0, <4>1 DEF Close, Closed, TypeOK
      <3> QED
        BY <1>2, <3>1, <3>2, <3>3, <3>4
    <2>4. ASSUME NEW r \in Pairs, MayAnswer(r)'
          PROVE  MayAnswer(r)
      <3>1. To(r)' = To(r) /\ To(r) \in Users
        BY <1>0, <2>1, PartiesTyped DEF To, Pairs
      <3> QED
        BY <2>1, <2>3, <2>4, <3>1 DEF MayAnswer, InQueue
    <2>5. Quiet
      BY <2>1, <2>2, <2>4 DEF Quiet
    <2> QED
      BY <1>0, <2>5, QuietKeys
  <1>3. ASSUME NEW r \in Requests, AddPressed(r) \/ LookupFailed(r)
        PROVE  KeysInv'
    <2>1. UNCHANGED <<docs, friend, request, queue, key, accepted, screen>>
      BY <1>3 DEF AddPressed, LookupFailed, server
    <2>2. \A s \in accepted : press'[s] = "done" /\ skey'[s] = skey[s]
      BY <1>0, <1>3 DEF AddPressed, LookupFailed, KeysInv, TypeOK
    <2>3. \A s \in Pairs : MayAnswer(s)' => MayAnswer(s)
      BY <2>1 DEF MayAnswer, InQueue, To
    <2>4. Quiet
      BY <2>1, <2>2, <2>3 DEF Quiet
    <2> QED
      BY <1>0, <2>4, QuietKeys
  <1>4. ASSUME NEW u \in Users, ScreenSnapshot(u)
        PROVE  KeysInv'
    BY <1>0, <1>4, ScreenKeys, QuietKeys
  <1> QED
    BY <1>0, <1>1, <1>2, <1>3, <1>4, SnapshotKeys, RowKeys, FoundKeys, CommitKeys,
       NewDeviceKeys DEF Next, ScreenNext

\* As long as one request between two users was accepted, each of them holds
\* the key that the other one published with it, for any users, requests and
\* bounds, whatever is lost, repeated or answered on an old screen.
THEOREM FriendsHoldKeys == Spec => []KeysAgree
  BY InitKeys, NextKeys, KeysAgreed, PTL DEF Spec
=============================================================================
