--------------------------- MODULE WritePipeline ---------------------------
(***************************************************************************)
(* How the Firestore client of a phone hands the user's writes to the      *)
(* server: the mutation queue on disk (LevelDbMutationQueue, LocalStore),  *)
(* the write pipeline of RemoteStore, the state machine of the write       *)
(* stream (Stream, WriteStream), the gRPC call under it (GrpcStream), and  *)
(* the callbacks of SyncEngine.  Wallet and Friends use the promise made   *)
(* here - each user's writes reach the server in order, and the app is     *)
(* told of the outcome - as their queue[u].                                *)
(*                                                                         *)
(* Everything on the phone runs on one worker queue, so a handler is one   *)
(* action.  The handlers call each other (a reply frees a slot, which      *)
(* sends the next write, which cancels the idle timer ...); each function  *)
(* of the code is an operator from client record to client record here,    *)
(* and an action applies the outermost.  A HARD_ASSERT that would fail     *)
(* sets c.bad: in the app it aborts the process.                           *)
(*                                                                         *)
(* The server and the network are external.  The server takes the requests *)
(* of a stream in order and answers in order; when a stream is gone it     *)
(* takes no more of that stream's requests.  Stream tokens, backoff delays *)
(* and the contents of the writes are left out: no branch depends on them. *)
(***************************************************************************)
EXTENDS Integers, Sequences, FiniteSets

CONSTANTS
    Users,        \* the accounts that sign in on this phone
    FirstUser,    \* the account signed in when the app is first opened
    MaxWrites,    \* bound: batches the app writes, named in the order it does
    MaxPending,   \* kMaxPendingWrites
    Overtaking,   \* whether the failure of a write may overtake unread replies
    MaxFaults     \* bound: broken streams, refused handshakes, failed tokens,
                  \* credential changes and ends of the process, together

ASSUME PipelineAssumption ==
    /\ FirstUser \in Users
    /\ MaxPending \in Nat \ {0}
    /\ Overtaking \in BOOLEAN
    /\ {MaxWrites, MaxFaults} \subseteq Nat

VARIABLES
    queue,      \* the mutation queue of each user, on disk, in batch id order
    user,       \* current_user_ of the sync engine
    nextId,     \* next_batch_id_ of the current mutation queue
    callbacks,  \* mutation_callbacks_: who wrote what under which batch id
    c,          \* RemoteStore and its write stream, see ClientType
    log,        \* the writes the server applied, in order, repeats included
    refused,    \* the writes the server has ever refused
    told,       \* what the callback of each write was given
    author,     \* the authors of the writes made so far, in order
    faults      \* how many there were

vars == <<queue, user, nextId, callbacks, c, log, refused, told, author,
          faults>>

Writes == 1..MaxWrites
Batch == [id : Nat, w : Writes]
Hello == [id |-> 0, w |-> 0]           \* the handshake and its answer
Message == Batch \cup {Hello}
Status == {"ok", "transient", "permanent"}

ClientType ==
    [net    : BOOLEAN,                 \* is_network_enabled_
     stream : {"Initial", "Starting", "Open", "Backoff", "Error"},
     shook  : BOOLEAN,                 \* handshake_complete_
     idle   : BOOLEAN,                 \* idleness_timer_ is running
     asked  : SUBSET {"live", "stale"},\* GetToken calls not yet answered
     pipe   : Seq(Batch),              \* write_pipeline_
     out    : Seq(Message),            \* requests the server has not taken
     in     : Seq(Message),            \* replies the client has not read
     ended  : Status \cup {"no"},      \* status the server ended the call with
     late   : BOOLEAN,                 \* a write failed behind the next reply
     bad    : BOOLEAN]                 \* a HARD_ASSERT has failed

-----------------------------------------------------------------------------
(* The mutation queue on disk.                                             *)

Ids(q) == {q[i].id : i \in DOMAIN q}

\* The number of rows before the first one with a larger id.
Seek(q, id) == Cardinality({i \in DOMAIN q : q[i].id <= id})

\* NextMutationBatchAfterBatchId, n times over.
NextBatches(q, id, n) ==
    LET k == Seek(q, id)
        m == IF Len(q) - k < n THEN Len(q) - k ELSE n
    IN  SubSeq(q, k + 1, k + m)

RemoveBatchBehind(q, id) ==
    LET k == Seek(q, id) IN SubSeq(q, 1, k) \o SubSeq(q, k + 2, Len(q))

RemoveBatch(q, id) ==
    LET k == Seek(q, id) IN SubSeq(q, 1, k - 1) \o SubSeq(q, k + 1, Len(q))

\* LoadNextBatchIdFromDb looks at the rows of every user.
LoadNextBatchId(qs) ==
    LET all == {0} \cup UNION {Ids(qs[u]) : u \in Users}
    IN  1 + CHOOSE m \in all : \A i \in all : i <= m

-----------------------------------------------------------------------------
(* The stream.                                                             *)

Assert(r, holds) == [r EXCEPT !.bad = @ \/ ~holds]

IsStarted(r) == r.stream \in {"Starting", "Open", "Backoff"}

\* RequestCredentials asks for a token each time the stream starts.
StreamStart(r) ==
    IF r.stream = "Error"
    THEN [r EXCEPT !.stream = "Backoff"]
    ELSE [Assert(r, r.stream = "Initial")
            EXCEPT !.stream = "Starting", !.asked = @ \cup {"live"}]

StreamWrite(r, msgs) ==
    IF msgs = <<>> THEN r
    ELSE [Assert(r, r.stream = "Open")
            EXCEPT !.out = @ \o msgs, !.idle = FALSE]

WriteMutations(r, batches) ==
    StreamWrite(Assert(r, batches = <<>> \/ r.shook), batches)

WriteHandshake(r) == StreamWrite(Assert(r, ~r.shook), <<Hello>>)

MarkIdle(r) == IF r.stream = "Open" THEN [r EXCEPT !.idle = TRUE] ELSE r

\* The error is forgiven: the next start does not back off.
InhibitBackoff(r) == [Assert(r, ~IsStarted(r)) EXCEPT !.stream = "Initial"]

-----------------------------------------------------------------------------
(* The write half of RemoteStore.                                          *)

ShouldStart(r) == r.net /\ ~IsStarted(r) /\ r.pipe # <<>>

\* The client after a step from r, whose value TLC computes once this way.
After(r, Step(_)) == CHOOSE s \in {Step(x) : x \in {r}} : TRUE

StartIfNeeded(r) == IF ShouldStart(r) THEN StreamStart(r) ELSE r

LastBatchId(r) == IF r.pipe = <<>> THEN -1 ELSE r.pipe[Len(r.pipe)].id

CanSendEarly(r) == r.stream = "Open"

\* CanWriteMutations.
CanSend(r) == r.stream = "Open" /\ r.shook

\* FillWritePipeline: the loop takes batches off the disk while there is room.
\* A batch is sent at once if the stream is ready, else with the handshake.
FillFrom(r, q) ==
    LET room == IF r.net THEN MaxPending - Len(r.pipe) ELSE 0
        new  == NextBatches(q, LastBatchId(r), room)
        r1   == [r EXCEPT !.pipe = @ \o new]
        r2   == IF CanSend(r) THEN WriteMutations(r1, new) ELSE r1
        r3   == IF r.net /\ r2.pipe = <<>> THEN MarkIdle(r2) ELSE r2
    IN  After(r3, StartIfNeeded)

Fill(r, q) == After(r, LAMBDA x : FillFrom(x, q))

\* HandleWriteError drops the first batch when the status is permanent and
\* the handshake is done: that batch is taken to be the cause.
Rejects(r, status) == status = "permanent" /\ r.pipe # <<>> /\ r.shook

CloseWithoutRestart(r, status, q) ==
    IF Rejects(r, status)
    THEN Fill([InhibitBackoff(r) EXCEPT !.pipe = Tail(@)], q)
    ELSE r

CloseTriesAnother(r, status, q) ==
    IF Rejects(r, status)
    THEN StartIfNeeded(Fill([InhibitBackoff(r) EXCEPT !.pipe = Tail(@)], q))
    ELSE StartIfNeeded([r EXCEPT !.pipe = IF @ = <<>> THEN @
                                          ELSE Append(Tail(@), Head(@))])

\* q is the queue without the rejected batch, if there is one.
OnWriteStreamClose(r, status, q) ==
    LET r1 == IF status = "ok" THEN Assert(r, ~ShouldStart(r)) ELSE r
        r2 == IF Rejects(r1, status)
              THEN Fill([InhibitBackoff(r1) EXCEPT !.pipe = Tail(@)], q)
              ELSE r1
    IN  After(r2, StartIfNeeded)

TokensKept(asked) == asked

\* close_count_ makes the answers of older GetToken calls stale.
Stale(asked) == IF asked = {} THEN {} ELSE {"stale"}

EndKeepsTimer(r) ==
    [r EXCEPT !.out = <<>>, !.in = <<>>, !.ended = "no", !.late = FALSE]

\* The idle timer and the gRPC call are cancelled.
End(r) ==
    [r EXCEPT !.idle = FALSE, !.out = <<>>, !.in = <<>>, !.ended = "no",
              !.late = FALSE]

\* Stream::Close, for a graceful stop and for an error.  The listener is told
\* before handshake_complete_ is reset.
Close(r, status, q) ==
    LET closed == [End(Assert(r, IsStarted(r)))
                     EXCEPT !.asked = Stale(@),
                            !.stream = IF status = "ok" THEN "Initial"
                                                        ELSE "Error"]
    IN  IF status = "ok" /\ ~IsStarted(r)
        THEN r
        ELSE [OnWriteStreamClose(closed, status, q) EXCEPT !.shook = FALSE]

RestartKeepsPipeline(r, qs, qn) ==
    Fill([Close([r EXCEPT !.net = FALSE], "ok", qs) EXCEPT !.net = TRUE], qn)

\* DisableNetworkInternal and EnableNetwork, as HandleCredentialChange calls
\* them: qs is the queue of the user who is leaving, qn the new user's.
RestartStreams(r, qs, qn) ==
    LET stopped == Close([r EXCEPT !.net = FALSE], "ok", qs)
    IN  Fill([stopped EXCEPT !.pipe = <<>>, !.net = TRUE], qn)

\* FirestoreClient::Initialize: RemoteStore as it is made, then Start.
Booted(q) ==
    Fill([net |-> TRUE, stream |-> "Initial", shook |-> FALSE, idle |-> FALSE,
          asked |-> {}, pipe |-> <<>>, out |-> <<>>, in |-> <<>>,
          ended |-> "no", late |-> FALSE, bad |-> FALSE], q)

-----------------------------------------------------------------------------
(* SyncEngine.                                                             *)

NotifiedAll(id, outcome) ==
    [w \in Writes |-> IF \E r \in callbacks : r.u = user /\ r.w = w
                      THEN outcome ELSE told[w]]

\* NotifyUser: the callback registered under this id by the current user.
Notified(id, outcome) ==
    [w \in Writes |-> IF [u |-> user, id |-> id, w |-> w] \in callbacks
                      THEN outcome ELSE told[w]]

CallbacksKept(id) == callbacks

Unregistered(id) == {r \in callbacks : ~(r.u = user /\ r.id = id)}

\* HandleSuccessfulWrite and HandleRejectedWrite: tell the app, drop the batch.
Finished(b, outcome) ==
    /\ told' = Notified(b.id, outcome)
    /\ callbacks' = Unregistered(b.id)
    /\ queue' = [queue EXCEPT ![user] = RemoveBatch(@, b.id)]

-----------------------------------------------------------------------------
(* The app and the worker queue.                                           *)

Outcomes == {"nothing", "ok", "rejected"}

Init ==
    /\ queue = [u \in Users |-> <<>>]
    /\ user = FirstUser
    /\ nextId = 1
    /\ callbacks = {}
    /\ c = Booted(<<>>)
    /\ log = <<>> /\ refused = {} /\ author = <<>>
    /\ told = [w \in Writes |-> "nothing"]
    /\ faults = 0

\* SyncEngine::WriteMutations: the batch is on disk before anything is sent.
Write ==
    LET w == Len(author) + 1
        b == [id |-> nextId, w |-> w]
        q == Append(queue[user], b)
    IN  /\ w \in Writes
        /\ author' = Append(author, user)
        /\ queue' = [queue EXCEPT ![user] = q]
        /\ nextId' = nextId + 1
        /\ callbacks' = IF \E r \in callbacks : r.u = user /\ r.id = b.id
                        THEN callbacks
                        ELSE callbacks \cup {[u |-> user, id |-> b.id, w |-> w]}
        /\ c' = Fill(c, q)
        /\ UNCHANGED <<user, log, refused, told, faults>>

\* ResumeStartWithCredentials.  The call is opened and the handshake written
\* without waiting for the server.
TokenArrives ==
    /\ "live" \in c.asked
    /\ c' = WriteHandshake(
              [Assert(c, c.stream = "Starting")
                 EXCEPT !.stream = "Open", !.asked = @ \ {"live"}])
    /\ UNCHANGED <<queue, user, nextId, callbacks, log, refused, told, author,
                   faults>>

\* The answer to a stream that was closed since is dropped.
StaleTokenArrives ==
    /\ "stale" \in c.asked
    /\ c' = [c EXCEPT !.asked = @ \ {"stale"}]
    /\ UNCHANGED <<queue, user, nextId, callbacks, log, refused, told, author,
                   faults>>

\* The auth service has no token: the stream closes with that error.
TokenFails ==
    /\ "live" \in c.asked /\ faults < MaxFaults
    /\ faults' = faults + 1
    /\ c' = Close([Assert(c, c.stream = "Starting")
                     EXCEPT !.asked = @ \ {"live"}], "transient", queue[user])
    /\ UNCHANGED <<queue, user, nextId, callbacks, log, refused, told, author>>

BackoffElapses ==
    /\ c.stream = "Backoff"
    /\ c' = StreamStart([c EXCEPT !.stream = "Initial"])
    /\ UNCHANGED <<queue, user, nextId, callbacks, log, refused, told, author,
                   faults>>

IdleTimerFires ==
    /\ c.idle
    /\ c' = Close(c, "ok", queue[user])
    /\ UNCHANGED <<queue, user, nextId, callbacks, log, refused, told, author,
                   faults>>

\* The next reply, with the read behind it posted before it is handled: a
\* write that the server's end has made fail is overtaken by one reply only.
Read ==
    [c EXCEPT !.in = Tail(@),
              !.late = @ \/ (c.ended # "no" /\ c.out # <<>>)]

\* The first reply of a stream completes its handshake, and the whole
\* pipeline is sent.
HandshakeCompletes ==
    /\ c.in # <<>> /\ ~c.shook
    /\ c' = WriteMutations([Read EXCEPT !.shook = TRUE], c.pipe)
    /\ UNCHANGED <<queue, user, nextId, callbacks, log, refused, told, author,
                   faults>>

\* OnWriteStreamMutationResult: the reply is taken for the first batch of the
\* pipeline, whichever batch the server sent it for.
WriteAcknowledged ==
    /\ c.in # <<>> /\ c.shook
    /\ IF c.pipe = <<>>
       THEN /\ c' = Assert(Read, FALSE)
            /\ UNCHANGED <<queue, callbacks, told>>
       ELSE LET b == Head(c.pipe)
            IN  /\ Finished(b, "ok")
                /\ c' = Fill([Assert(Read, b.id \in Ids(queue[user]))
                                EXCEPT !.pipe = Tail(@)], queue'[user])
    /\ UNCHANGED <<user, nextId, log, refused, author,
                   faults>>

\* GrpcStream has noticed the end of the call and closes the stream with the
\* status of the server; replies that were not handled are cancelled.
CallEnds ==
    /\ IF Rejects(c, c.ended)
       THEN LET b == Head(c.pipe)
            IN  /\ Finished(b, "rejected")
                /\ c' = Assert(Close(c, c.ended, queue'[user]),
                               b.id \in Ids(queue[user]))
       ELSE /\ c' = Close(c, c.ended, queue[user])
            /\ UNCHANGED <<queue, callbacks, told>>
    /\ UNCHANGED <<user, nextId, log, refused, author,
                   faults>>

\* The read fails, after the last reply.
StreamFinishes == c.ended # "no" /\ c.in = <<>> /\ CallEnds

\* A write fails: OnOperationFailed cancels the replies that wait their turn.
WriteFails == Overtaking /\ c.late /\ c.in # <<>> /\ CallEnds

\* HandleCredentialChange: a new user, or a new token of the same user.
CredentialChanges(u) ==
    /\ faults < MaxFaults
    /\ faults' = faults + 1
    /\ user' = u
    /\ nextId' = IF u # user THEN LoadNextBatchId(queue) ELSE nextId
    /\ c' = RestartStreams(c, queue[user], queue[u])
    /\ UNCHANGED <<queue, callbacks, log, refused, told, author>>

\* The process ends and the app is started again by the same user.
Reboot ==
    /\ faults < MaxFaults
    /\ faults' = faults + 1
    /\ nextId' = LoadNextBatchId(queue)
    /\ callbacks' = {}
    /\ c' = Booted(queue[user])
    /\ UNCHANGED <<queue, user, log, refused, author>>

Crash == Reboot /\ UNCHANGED told

\* HandleSuccessfulWrite tells the app before it removes the batch: the
\* process may end in between.
CrashWhileAcknowledging ==
    /\ c.in # <<>> /\ c.shook /\ c.pipe # <<>>
    /\ Reboot
    /\ told' = Notified(Head(c.pipe).id, "ok")

-----------------------------------------------------------------------------
(* The server and the network.                                             *)

Taking == c.ended = "no" /\ c.out # <<>>

ServerGreets ==
    /\ Taking /\ Head(c.out) = Hello
    /\ c' = [c EXCEPT !.out = Tail(@), !.in = Append(@, Hello)]
    /\ UNCHANGED <<queue, user, nextId, callbacks, log, refused, told, author,
                   faults>>

ServerApplies ==
    /\ Taking /\ Head(c.out) # Hello
    /\ c' = [c EXCEPT !.out = Tail(@), !.in = Append(@, Head(c.out))]
    /\ log' = Append(log, Head(c.out).w)
    /\ UNCHANGED <<queue, user, nextId, callbacks, refused, told, author,
                   faults>>

\* A rule, a precondition or the size of the write speaks against it.
ServerRefuses ==
    /\ Taking /\ Head(c.out) # Hello
    /\ c' = [c EXCEPT !.out = <<>>, !.ended = "permanent"]
    /\ refused' = refused \cup {Head(c.out).w}
    /\ UNCHANGED <<queue, user, nextId, callbacks, log, told, author,
                   faults>>

\* The handshake is refused, or the connection breaks with the replies that
\* have not arrived yet.
ConnectionBreaks ==
    /\ c.stream = "Open" /\ c.ended = "no" /\ faults < MaxFaults
    /\ faults' = faults + 1
    /\ \/ \E k \in 0..Len(c.in) :
            c' = [c EXCEPT !.out = <<>>, !.in = SubSeq(@, 1, k),
                           !.ended = "transient"]
       \/ /\ c.out # <<>> /\ Head(c.out) = Hello
          /\ c' = [c EXCEPT !.out = <<>>, !.ended = "permanent"]
    /\ UNCHANGED <<queue, user, nextId, callbacks, log, refused, told, author>>

Client ==
    \/ TokenArrives \/ StaleTokenArrives \/ BackoffElapses \/ IdleTimerFires
    \/ HandshakeCompletes \/ WriteAcknowledged \/ StreamFinishes

Server == ServerGreets \/ ServerApplies \/ ServerRefuses

Next ==
    \/ Write
    \/ Client
    \/ WriteFails
    \/ TokenFails
    \/ \E u \in Users : CredentialChanges(u)
    \/ Crash \/ CrashWhileAcknowledging
    \/ Server
    \/ ConnectionBreaks

Spec == Init /\ [][Next]_vars

\* The worker queue runs what is due, timers fire, Firebase Auth answers, and
\* a server that is reached takes the requests.
FairSpec == Spec /\ WF_vars(Client \/ Server)

-----------------------------------------------------------------------------
(* What makes the client's state consistent.                               *)

\* Types, and what belongs to an open stream only: replies, requests, the
\* handshake, the idle timer and the end of the call (Stream::Close, MarkIdle).
TypeOK ==
    /\ queue \in [Users -> Seq(Batch)]
    /\ user \in Users /\ nextId \in Nat
    /\ log \in Seq(Writes) /\ refused \subseteq Writes
    /\ author \in Seq(Users) /\ Len(author) <= MaxWrites /\ faults \in Nat
    /\ callbacks \subseteq [u : Users, id : Nat, w : Writes]
    /\ told \in [Writes -> Outcomes]
    /\ c \in ClientType
    /\ c.stream # "Open" =>
          /\ c.in = <<>> /\ c.out = <<>> /\ c.ended = "no"
          /\ ~c.shook /\ ~c.idle /\ ~c.late

\* None of the HARD_ASSERTs of RemoteStore, the stream and the local store
\* aborts the app, whatever order tokens, timers, replies, errors and
\* credential changes come in.
NoAssertFails == ~c.bad

\* The pipeline of RemoteStore is the front of the signed-in user's queue, as
\* much of it as there is room for: no batch of another user, none skipped,
\* none left out.
PipelineIsQueueFront ==
    /\ Len(c.pipe) <= Len(queue[user])
    /\ c.pipe = SubSeq(queue[user], 1, Len(c.pipe))
    /\ Len(c.pipe) = MaxPending \/ c.pipe = queue[user]
    /\ Len(c.pipe) <= MaxPending

\* After the handshake the replies and requests on a stream are those of the
\* pipeline, in its order, while the server is there, and the first reply is
\* always about its first batch: so OnWriteStreamMutationResult, which takes it
\* for that one, is right.
RepliesMatchPipeline ==
    /\ c.shook /\ c.ended = "no" => c.in \o c.out = c.pipe
    /\ c.shook /\ c.in # <<>> => c.pipe # <<>> /\ Head(c.in) = Head(c.pipe)
    /\ ~c.shook => \A i \in DOMAIN c.in : c.in[i] = Hello

Waiting(w) == \E i \in DOMAIN queue[author[w]] : queue[author[w]][i].w = w

\* The server has applied w, and since then nothing its author wrote before it.
InOrder(w) ==
    \E k \in DOMAIN log :
        /\ log[k] = w
        /\ \A m \in DOMAIN log : m > k => ~(log[m] < w /\ author[log[m]] = author[w])

\* A write that is over, and that the server never refused, was applied after
\* everything its author wrote before it: sending again never leaves an older
\* value over a newer one, whatever is lost, overtaken or given up on the way.
OrderKept == \A w \in DOMAIN author : Waiting(w) \/ w \in refused \/ InOrder(w)

\* The app is told of success only for a write the server has applied, although
\* replies, ids and the first place in the pipeline are all that connect the two.
AckedWasApplied ==
    \A w \in Writes : told[w] = "ok" => \E k \in DOMAIN log : log[k] = w

\* A callback waits for a batch that is still queued, under its own id: ids
\* are used again after a restart or a change of user, callbacks never meet
\* another write.
CallbacksAwaitTheirWrite ==
    \A r \in callbacks :
        \E i \in DOMAIN queue[r.u] : queue[r.u][i] = [id |-> r.id, w |-> r.w]

\* The refinement mapping.
Names(q) == [i \in DOMAIN q |-> q[i].w]
Pending == [u \in Users |-> Names(queue[u])]
Unread == IF c.shook THEN Len(c.in) ELSE 0

Abstract ==
    INSTANCE WriteQueue WITH
        pending <- Pending, signedIn <- user, applied <- Unread

\* The write path keeps the promise of WriteQueue: in order, at least once, each
\* user's own writes, and never again once the answer has come back.
Refines == Abstract!Spec
=============================================================================
