------------------------------ MODULE Friends ------------------------------
(***************************************************************************)
(* How two users of Seda become friends: FirebaseHelperFriends, the        *)
(* friends screen with its two detail screens, and the Firestore client    *)
(* under them.                                                             *)
(*                                                                         *)
(* A request is a document of friend_requests; a friendship is a pair of   *)
(* documents users/{uid}/friends/{name}, one per side, each with the       *)
(* public keys of both users.  The target of a request writes its own      *)
(* document when it accepts; the sender writes the other one when its      *)
(* listener sees the target's key in the request.                          *)
(*                                                                         *)
(* All of this runs on the main thread, a callback at a time.  Writes      *)
(* behave as in Wallet: visible to their device at once, queued, sent in   *)
(* order.                                                                  *)
(***************************************************************************)
EXTENDS Integers, Sequences, FiniteSets

CONSTANTS
    Users,          \* accounts, each with one device
    Requests,       \* requests that may be made; the id orders the documents
    Searches,       \* pairs <<u, v>>: u may type v's name and press Add
    MaxStops,       \* bound: times an app is killed or a phone replaced
    Events          \* which of PossibleEvents may happen

PossibleEvents == {"withdraw", "lookupFails", "friendsFail", "killedInAccept",
                   "newDevice"}

ASSUME RequestsAssumption == Requests \subseteq Nat /\ IsFiniteSet(Requests)
ASSUME SearchesAssumption == Searches \subseteq Users \X Users /\ Searches # {}
ASSUME StopsAssumption == MaxStops \in Nat
ASSUME EventsAssumption == Events \subseteq PossibleEvents

VARIABLES
    \* Firestore, the server
    docs,           \* friend_requests/{id}
    friend,         \* friend[u][v]: users/{uid of u}/friends/{v}
    \* each device
    queue,          \* writes not yet acknowledged, oldest first; persistent
    session,        \* whether the app is signed in and updateFriends listens
    seen,           \* the collection as the listener of updateFriends last saw it
    screen,         \* the friends screen
    press,          \* how far the press of Add for a request got
    skey,           \* sender_public_key of each request
    key,            \* the generation of the key pair in the keychain
    \* bookkeeping of the model
    request,        \* who asks whom
    accepted,       \* requests whose target pressed Yes
    stops           \* how many times an app has stopped

server == <<docs, friend>>
app == <<session, seen, screen, press>>
vars == <<server, queue, app, skey, key, request, accepted, stops>>

NoKey == 0
NoDoc == [at |-> "none", named |-> FALSE, tkey |-> NoKey]
There(named, k) == [at |-> "there", named |-> named, tkey |-> k]
Gone == [at |-> "gone", named |-> FALSE, tkey |-> NoKey]
Stranger == [mine |-> NoKey, theirs |-> NoKey]
Closed == [at |-> "closed", friends |-> {}, rows |-> {}]

Ops == {"create", "setId", "accept", "delete", "befriend", "deleteUser"}
\* named says that the field docID is there.  pending is not a field of its
\* own: yes_pressed sets it to false in the update that writes tkey,
\* target_public_key.
Doc == [at : {"none", "there", "gone"}, named : BOOLEAN, tkey : Nat]
Write == [op : Ops, doc : Requests, key : Nat]

-----------------------------------------------------------------------------
(* Operators on the state.                                                 *)

From(r) == request[r][1]
To(r) == request[r][2]
Involves(r, u) == u \in {From(r), To(r)}
Other(r, u) == IF From(r) = u THEN To(r) ELSE From(r)

IsFriend(u, v) == friend[u][v] # Stranger

InQueue(u, op, r) == \E i \in 1..Len(queue[u]) :
                         queue[u][i].op = op /\ queue[u][i].doc = r

\* The collection as a device has it: the server's documents with its own
\* unacknowledged writes on top.  A device's queue is lost with its key, so
\* an accept in it carries the key it has now.
Present(u, r) == /\ docs[r].at = "there" \/ InQueue(u, "create", r)
                 /\ ~InQueue(u, "delete", r)

View(u) == [r \in Requests |->
    IF Present(u, r)
    THEN There(docs[r].named \/ InQueue(u, "setId", r),
               IF InQueue(u, "accept", r) THEN key[u] ELSE docs[r].tkey)
    ELSE NoDoc]

W(op, r, k) == [op |-> op, doc |-> r, key |-> k]

Enqueue(u, writes) == queue' = [queue EXCEPT ![u] = @ \o writes]

\* The rows of the friends screen are requests; a row is "received" when the
\* user is its target and "sent" otherwise.
Names(u) == {Other(r, u) : r \in screen[u].rows}

\* Documents that loadFriends makes a row of: complete, pending, and of or
\* for the user.
Offered(u) == {r \in Requests : /\ Involves(r, u)
                                /\ View(u)[r].at = "there"
                                /\ View(u)[r].named
                                /\ View(u)[r].tkey = NoKey}

\* Going through the documents by id, the first with a name that has no row.
NewRows(u) ==
    {r \in Offered(u) :
        /\ Other(r, u) \notin Names(u)
        /\ \A s \in Offered(u) : Other(s, u) = Other(r, u) => r <= s}

\* Mutant of Answered: the target's key is not looked at.
AnsweredAny(u) ==
    {r \in Requests : From(r) = u /\ View(u)[r].at = "there" /\ View(u)[r].named}

\* The user's own requests that have all fields updateFriends asks for.
Answered(u) == {r \in Requests : /\ From(r) = u
                                 /\ View(u)[r].at = "there"
                                 /\ View(u)[r].named
                                 /\ View(u)[r].tkey # NoKey}

\* A set of documents as Firestore lists it.
Ascending(S) == {f \in [1..Cardinality(S) -> S] :
                    \A i, j \in 1..Cardinality(S) : i < j => f[i] < f[j]}

-----------------------------------------------------------------------------
TypeOK ==
    /\ docs \in [Requests -> Doc]
    /\ friend \in [Users -> [Users -> [mine : Nat, theirs : Nat]]]
    /\ queue \in [Users -> Seq(Write)]
    /\ session \in [Users -> {"none", "starting", "listening"}]
    /\ seen \in [Users -> [Requests -> Doc]]
    /\ screen \in [Users -> [at : {"closed", "loading", "shown"},
                             friends : SUBSET Users, rows : SUBSET Requests]]
    /\ press \in [Requests -> {"none", "lookup", "done"}]
    /\ skey \in [Requests -> Nat]
    /\ key \in [Users -> Nat \ {NoKey}]
    /\ request \in [Requests -> Searches]
    /\ accepted \in SUBSET Requests
    /\ stops \in Nat

NothingSeen == [r \in Requests |-> NoDoc]

Init ==
    /\ docs = [r \in Requests |-> NoDoc]
    /\ friend = [u \in Users |-> [v \in Users |-> Stranger]]
    /\ queue = [u \in Users |-> <<>>]
    /\ session = [u \in Users |-> "none"]
    /\ seen = [u \in Users |-> NothingSeen]
    /\ screen = [u \in Users |-> Closed]
    /\ press = [r \in Requests |-> "none"]
    /\ skey = [r \in Requests |-> NoKey]
    /\ key = [u \in Users |-> 1]
    /\ request \in [Requests -> Searches]
    /\ accepted = {}
    /\ stops = 0

-----------------------------------------------------------------------------
(* Signing in, and the listener of updateFriends.                          *)

\* Crypto and FirebaseHelper are initialised; the balance is requested.
SignIn(u) ==
    /\ session[u] = "none"
    /\ session' = [session EXCEPT ![u] = "starting"]
    /\ UNCHANGED <<server, queue, seen, screen, press, skey, key, request,
                   accepted, stops>>

\* Mutant of StartListening: only what comes later is shown.
StartListeningLater(u) ==
    /\ session[u] = "starting"
    /\ session' = [session EXCEPT ![u] = "listening"]
    /\ seen' = [seen EXCEPT ![u] = View(u)]
    /\ UNCHANGED <<server, queue, screen, press, skey, key, request, accepted,
                   stops>>

\* The callback of the balance request attaches the listener.
StartListening(u) ==
    /\ session[u] = "starting"
    /\ session' = [session EXCEPT ![u] = "listening"]
    /\ seen' = [seen EXCEPT ![u] = NothingSeen]
    /\ UNCHANGED <<server, queue, screen, press, skey, key, request, accepted,
                   stops>>

\* The listener is shown the whole collection whenever it changed, and
\* handles every answered request again.  Its deletion of the request goes to
\* a document of users that does not exist; it is dispatched to other threads,
\* which here have it done before the next callback.
RequestsSnapshot(u) ==
    /\ session[u] = "listening"
    /\ View(u) # seen[u]
    /\ seen' = [seen EXCEPT ![u] = View(u)]
    /\ \E order \in Ascending(Answered(u)) :
          Enqueue(u, [i \in DOMAIN order |->
                         W("befriend", order[i], View(u)[order[i]].tkey)] \o
                     [i \in DOMAIN order |-> W("deleteUser", order[i], NoKey)])
    /\ UNCHANGED <<server, session, screen, press, skey, key, request, accepted,
                   stops>>

-----------------------------------------------------------------------------
(* The friends screen.                                                     *)

OpenScreen(u) ==
    /\ session[u] # "none"
    /\ screen[u].at = "closed"
    /\ screen' = [screen EXCEPT ![u] =
                      [at |-> "loading", friends |-> {}, rows |-> {}]]
    /\ UNCHANGED <<server, queue, session, seen, press, skey, key, request,
                   accepted, stops>>

\* getDocuments of viewDidLoad answers: the list of friends is filled, once,
\* and the screen's listener attached, also when the request failed.
FriendsLoaded(u) ==
    LET stored == {v \in Users :
                      \/ IsFriend(u, v)
                      \/ \E r \in Requests : /\ Involves(r, u) /\ Other(r, u) = v
                                             /\ InQueue(u, "befriend", r)}
    IN  /\ screen[u].at = "loading"
        /\ \E fs \in {stored} \cup (IF "friendsFail" \in Events THEN {{}} ELSE {}) :
              screen' = [screen EXCEPT ![u] =
                             [at |-> "shown", friends |-> fs, rows |-> {}]]
        /\ UNCHANGED <<server, queue, session, seen, press, skey, key, request,
                       accepted, stops>>

\* The screen's listener adds rows and never removes one.
ScreenSnapshot(u) ==
    /\ screen[u].at = "shown"
    /\ NewRows(u) # {}
    /\ screen' = [screen EXCEPT ![u].rows = @ \cup NewRows(u)]
    /\ UNCHANGED <<server, queue, session, seen, press, skey, key, request,
                   accepted, stops>>

Close(u) == screen' = [screen EXCEPT ![u] = Closed]

CloseScreen(u) ==
    /\ screen[u].at # "closed"
    /\ Close(u)
    /\ UNCHANGED <<server, queue, session, seen, press, skey, key, request,
                   accepted, stops>>

-----------------------------------------------------------------------------
(* Asking.                                                                 *)

\* add_friend takes the current public key, and goes on unless the name is in
\* the list of friends or among the rows.
AddPressed(r) ==
    LET u == From(r) IN
    /\ press[r] = "none"
    /\ screen[u].at # "closed"
    /\ To(r) \notin screen[u].friends \cup Names(u)
    /\ press' = [press EXCEPT ![r] = "lookup"]
    /\ skey' = [skey EXCEPT ![r] = key[u]]
    /\ UNCHANGED <<server, queue, session, seen, screen, key, request, accepted,
                   stops>>

\* addFriend's getDocuments finds the name: the document is added, and then
\* its own id.  A third write, to a list in the user's document that nothing
\* reads, is left out.
Found(r) ==
    /\ press[r] = "lookup"
    /\ press' = [press EXCEPT ![r] = "done"]
    /\ Enqueue(From(r), <<W("create", r, NoKey), W("setId", r, NoKey)>>)
    /\ UNCHANGED <<server, session, seen, screen, skey, key, request, accepted,
                   stops>>

LookupFailed(r) ==
    /\ "lookupFails" \in Events
    /\ press[r] = "lookup"
    /\ press' = [press EXCEPT ![r] = "done"]
    /\ UNCHANGED <<server, queue, session, seen, screen, skey, key, request,
                   accepted, stops>>

-----------------------------------------------------------------------------
(* Answering.  Each of these is pressed on the detail screen of a row and    *)
(* returns to the profile, which drops the friends screen.                  *)

\* yes_pressed: the request is updated and the own friend document written,
\* whether or not the request is still there.
Accept(u, r) ==
    /\ r \in screen[u].rows /\ To(r) = u
    /\ Enqueue(u, <<W("accept", r, key[u]), W("befriend", r, key[u])>>)
    /\ Close(u)
    /\ accepted' = accepted \cup {r}
    /\ UNCHANGED <<server, session, seen, press, skey, key, request, stops>>

\* no_pressed.
Reject(u, r) ==
    /\ r \in screen[u].rows /\ To(r) = u
    /\ Enqueue(u, <<W("delete", r, NoKey)>>)
    /\ Close(u)
    /\ UNCHANGED <<server, session, seen, press, skey, key, request, accepted,
                   stops>>

\* delete_button.
Withdraw(u, r) ==
    /\ "withdraw" \in Events
    /\ r \in screen[u].rows /\ To(r) # u
    /\ Enqueue(u, <<W("delete", r, NoKey)>>)
    /\ Close(u)
    /\ UNCHANGED <<server, session, seen, press, skey, key, request, accepted,
                   stops>>

-----------------------------------------------------------------------------
(* The Firestore client and the environment.                               *)

\* Mutant of Pair: the sender writes its current key, not the published one.
PairCurrent(u, w) ==
    IF From(w.doc) = u
    THEN [mine |-> key[u], theirs |-> w.key]
    ELSE [mine |-> w.key, theirs |-> skey[w.doc]]

\* user_public_key and friend_public_key of a friend document, written by the
\* target of the request with its own key or by the sender with the target's.
Pair(u, w) ==
    IF From(w.doc) = u
    THEN [mine |-> skey[w.doc], theirs |-> w.key]
    ELSE [mine |-> w.key, theirs |-> skey[w.doc]]

\* Mutant of DocAfter: yes_pressed merges into a document that may be gone.
DocAfterMerge(d, w) ==
    CASE w.op = "create" -> There(FALSE, NoKey)
      [] w.op = "setId"  -> IF d.at = "there" THEN There(TRUE, d.tkey) ELSE d
      [] w.op = "accept" -> There(d.named, w.key)
      [] w.op = "delete" -> Gone
      [] OTHER           -> d

\* A request after a write: updateData is rejected when the document is not
\* there.
DocAfter(d, w) ==
    CASE w.op = "create" -> There(FALSE, NoKey)
      [] w.op = "setId"  -> IF d.at = "there" THEN There(TRUE, d.tkey) ELSE d
      [] w.op = "accept" -> IF d.at = "there" THEN There(d.named, w.key) ELSE d
      [] w.op = "delete" -> Gone
      [] OTHER           -> d

\* The server takes the oldest write of the device's queue, applies or
\* rejects it, and acknowledges it.
Commit(u) ==
    /\ queue[u] # <<>>
    /\ LET w == Head(queue[u]) IN
       /\ docs' = [docs EXCEPT ![w.doc] = DocAfter(@, w)]
       /\ friend' = IF w.op = "befriend"
                    THEN [friend EXCEPT ![u][Other(w.doc, u)] = Pair(u, w)]
                    ELSE friend
    /\ queue' = [queue EXCEPT ![u] = Tail(@)]
    /\ UNCHANGED <<app, skey, key, request, accepted, stops>>

ProcessEnds(u) ==
    /\ session[u] # "none"
    /\ stops < MaxStops
    /\ stops' = stops + 1
    /\ session' = [session EXCEPT ![u] = "none"]
    /\ seen' = [seen EXCEPT ![u] = NothingSeen]
    /\ Close(u)
    /\ press' = [r \in Requests |->
                    IF From(r) = u /\ press[r] = "lookup" THEN "done" ELSE press[r]]
    /\ UNCHANGED <<server, skey, request>>

Crash(u) ==
    /\ ProcessEnds(u)
    /\ UNCHANGED <<queue, key, accepted>>

\* The app is killed between the two writes of yes_pressed.
KilledInAccept(u, r) ==
    /\ "killedInAccept" \in Events
    /\ r \in screen[u].rows /\ To(r) = u
    /\ Enqueue(u, <<W("accept", r, key[u])>>)
    /\ accepted' = accepted \cup {r}
    /\ ProcessEnds(u)
    /\ UNCHANGED key

\* Mutant of NewDevice: no new key is made.
NewDeviceNoKey(u) ==
    /\ "newDevice" \in Events
    /\ ProcessEnds(u)
    /\ queue' = [queue EXCEPT ![u] = <<>>]
    /\ key' = [key EXCEPT ![u] = NoKey]
    /\ UNCHANGED accepted

\* Another phone: no local store, and Crypto makes a new key pair.
NewDevice(u) ==
    /\ "newDevice" \in Events
    /\ ProcessEnds(u)
    /\ queue' = [queue EXCEPT ![u] = <<>>]
    /\ key' = [key EXCEPT ![u] = @ + 1]
    /\ UNCHANGED accepted

-----------------------------------------------------------------------------
ScreenNext(u) ==
    OpenScreen(u) \/ FriendsLoaded(u) \/ ScreenSnapshot(u) \/ CloseScreen(u)

RowNext(u, r) ==
    Accept(u, r) \/ Reject(u, r) \/ Withdraw(u, r) \/ KilledInAccept(u, r)

Next ==
    \/ \E u \in Users : \/ SignIn(u)
                        \/ StartListening(u)
                        \/ RequestsSnapshot(u)
                        \/ ScreenNext(u)
                        \/ \E r \in Requests : RowNext(u, r)
                        \/ Commit(u)
                        \/ Crash(u)
                        \/ NewDevice(u)
    \/ \E r \in Requests : AddPressed(r) \/ Found(r) \/ LookupFailed(r)

Spec == Init /\ [][Next]_vars

\* While an app is signed in, requests are answered, listeners are called and
\* the queue is sent.  What users press is never forced.
Fairness ==
    /\ \A u \in Users : /\ WF_vars(StartListening(u))
                        /\ WF_vars(RequestsSnapshot(u))
                        /\ WF_vars(FriendsLoaded(u))
                        /\ WF_vars(ScreenSnapshot(u))
                        /\ WF_vars(session[u] # "none" /\ Commit(u))
    /\ \A r \in Requests : WF_vars(Found(r) \/ LookupFailed(r))

FairSpec == Spec /\ Fairness

-----------------------------------------------------------------------------
(* Safety.                                                                 *)

\* Nobody gets a friend document unless one of the two asked and the other
\* pressed Yes, whatever was withdrawn, rejected, repeated or lost on the way.
Consent ==
    \A u, v \in Users :
        IsFriend(u, v) => \E r \in accepted : Involves(r, u) /\ Other(r, u) = v

\* The invariant behind Consent: every write that makes a friend or publishes
\* a key, and every published key, goes back to a Yes.
YesWrite(w) == w.op \in {"accept", "befriend"}

QueuesJustified ==
    \A u \in Users : \A i \in 1..Len(queue[u]) :
        YesWrite(queue[u][i]) => /\ queue[u][i].doc \in accepted
                                 /\ Involves(queue[u][i].doc, u)

KeysJustified == \A r \in Requests : docs[r].tkey # NoKey => r \in accepted

ConsentInv == TypeOK /\ QueuesJustified /\ KeysJustified /\ Consent

\* As long as one request between two users was accepted, what both sides
\* wrote about it agrees: each holds the key the other one published with it,
\* also when a phone was replaced in between.  (With two, updateFriends may
\* write the keys of the older one over those of the newer on one side only.)
KeysAgree ==
    \A u, v \in Users :
        /\ u # v /\ IsFriend(u, v) /\ IsFriend(v, u)
        /\ Cardinality({r \in accepted : Involves(r, u) /\ Other(r, u) = v}) = 1
        => friend[u][v].theirs = friend[v][u].mine

\* A removed request never comes back, though its target may accept it later,
\* and an answered one keeps the key it was answered with until it is removed.
AnswersAreFinal ==
    [][\A r \in Requests :
          /\ docs[r].at = "gone" => docs'[r].at = "gone"
          /\ docs[r].tkey # NoKey => docs'[r].tkey = docs[r].tkey \/ docs'[r].at = "gone"]_vars

-----------------------------------------------------------------------------
(* Liveness, under FairSpec.                                               *)

\* The sender of an accepted request gets the friend while signed in:
\* updateFriends is shown the answer, also one that was given while the user
\* was away, unless the request is removed first.
Completed ==
    \A r \in Requests :
        docs[r].tkey # NoKey /\ session[From(r)] = "listening" ~>
            \/ IsFriend(From(r), To(r))
            \/ docs[r].at = "gone"
            \/ session[From(r)] # "listening"

=============================================================================
