-------------------------------- MODULE Chat --------------------------------
(***************************************************************************)
(* Chatting with a friend: ChatViewController, and the screen that opens   *)
(* it (TargetRequestViewController).                                       *)
(*                                                                         *)
(* One phone, one correspondent.  A press of Send runs on a queue of its   *)
(* own: it asks for the keys in the friend document, waits, encrypts with  *)
(* the keys its screen holds, and adds the document.  The table of a       *)
(* screen is filled by its listener, which is never removed, and reloaded  *)
(* by blocks the listener queues; the input field is emptied by a block    *)
(* that the acknowledgement of a message queues.  All blocks run on the    *)
(* main queue, in order; only those of one screen can disturb each other,  *)
(* so there is one main queue per screen here.                             *)
(*                                                                         *)
(* A text is a number, in the order the texts are typed, 0 the empty one.  *)
(* Keys are named after the account in whose friend document they are.     *)
(***************************************************************************)
EXTENDS Integers, Sequences, FiniteSets

CONSTANTS
    Users,          \* the accounts that sign in on this phone
    Screens,        \* chat screens that may be opened, numbered in that order
    MaxPresses,     \* bound: presses of Send
    MaxTexts,       \* bound: texts typed
    MaxSignOuts,    \* bound: sign-outs
    Events          \* which of PossibleEvents may happen; bound: one of them does

PossibleEvents == {"lookupFails", "listenerFails", "busySend", "busySignOut"}
None == "none"

ASSUME ChatAssumption ==
    /\ None \notin Users
    /\ Screens \subseteq Nat
    /\ {MaxPresses, MaxTexts, MaxSignOuts} \subseteq Nat
    /\ Events \subseteq PossibleEvents

VARIABLES
    auth,       \* Auth.auth().currentUser
    helper,     \* the account of FirebaseHelper.shared_instance
    befriended, \* accounts with a friend document for the correspondent
    messages,   \* collection messages, in the order of time
    shown,      \* screens on the navigation stack
    opened,     \* screens opened so far; their listeners are never removed
    failed,     \* screens whose listener has failed
    field,      \* messageText of each screen
    keys,       \* friend_pub_key and my_pub_key of each screen
    count,      \* messages.count of each screen
    rows,       \* the rows its table had when it was last reloaded
    main,       \* blocks on the main queue, by screen
    press,      \* the presses of Send so far
    trapped,    \* a table was asked to scroll to row -1
    \* bookkeeping of the model
    typed,      \* texts typed so far
    lost,       \* texts that were cleared away and never sent
    signOuts,
    calm        \* no event of Events has happened yet

session == <<auth, helper, befriended>>
screens == <<shown, opened>>
table == <<failed, count, rows, trapped>>
history == <<typed, lost, signOuts, calm>>
vars == <<session, messages, screens, field, keys, table, main, press, history>>

Message == [acct : Users, press : Nat, keys : Users \cup {None}]
Stages == {"pressed", "asked", "answered", "encrypted", "sent", "done", "dropped"}
Over == {"done", "dropped"}
Press == [at : Stages, s : Screens, text : Nat, by : Users, friend : BOOLEAN,
          who : Users \cup {None}, keys : Users \cup {None}]
Block == [do : {"snapshot", "error", "reload", "clear"}, n : Nat]

May(event) == event \in Events /\ calm

Do(what) == [do |-> what, n |-> 0]
Snapshot == [do |-> "snapshot", n |-> Len(messages)]

\* A message from before, or one the correspondent has sent.
Earlier(u) == [acct |-> u, press |-> 0, keys |-> u]

Init ==
    /\ auth \in Users /\ helper = auth
    /\ befriended \in SUBSET Users
    /\ messages \in {<<>>, <<Earlier(auth)>>} /\ press = <<>>
    /\ shown = {} /\ opened = {} /\ failed = {}
    /\ field = [s \in Screens |-> 0] /\ keys = [s \in Screens |-> None]
    /\ count = [s \in Screens |-> 0] /\ rows = [s \in Screens |-> 0]
    /\ main = [s \in Screens |-> <<>>]
    /\ trapped = FALSE
    /\ typed = 0 /\ lost = {} /\ signOuts = 0 /\ calm = TRUE

\* A message of this screen is on its way, or its acknowledgement is.
Busy(s) ==
    \/ \E p \in DOMAIN press : press[p].s = s /\ press[p].at \notin Over
    \/ \E i \in DOMAIN main[s] : main[s][i].do = "clear"

Quiet == \A s \in Screens : ~Busy(s) /\ main[s] = <<>>

\* How many of the first n messages are between the correspondent and the
\* account that is signed in.
Mine(n) == Cardinality({i \in 1..n : messages[i].acct = auth})

-----------------------------------------------------------------------------
(* The screen.                                                             *)

\* checkUser pushes a chat screen, again whenever a document of users changes;
\* viewDidLoad attaches the listener, which is called with what there is.
OpenScreen(s) ==
    /\ auth # None /\ s \notin opened /\ shown = {}
    /\ \A r \in Screens : r < s => r \in opened
    /\ shown' = shown \cup {s} /\ opened' = opened \cup {s}
    /\ main' = [main EXCEPT ![s] = Append(@, Snapshot)]
    /\ UNCHANGED <<session, messages, field, keys, table, press, history>>

Top(s) == s \in shown /\ \A r \in shown : r <= s

CloseScreen(s) ==
    /\ Top(s)
    /\ shown' = shown \ {s}
    /\ UNCHANGED <<session, messages, opened, field, keys, table, main, press,
                   history>>

Type(s) ==
    /\ Top(s) /\ typed < MaxTexts
    /\ typed' = typed + 1
    /\ field' = [field EXCEPT ![s] = typed']
    /\ \/ ~Busy(s) /\ UNCHANGED calm
       \/ Busy(s) /\ May("busySend") /\ calm' = FALSE
    /\ UNCHANGED <<session, messages, screens, keys, table, main, press, lost,
                   signOuts>>

-----------------------------------------------------------------------------
(* Sending.                                                                *)

\* sendPressed: the text is taken now, the rest runs elsewhere.  The field
\* keeps its text and the button stays enabled.
SendPressed(s) ==
    /\ Top(s) /\ auth # None /\ Len(press) < MaxPresses
    /\ press' = Append(press,
           [at |-> "pressed", s |-> s, text |-> field[s], by |-> auth,
            friend |-> auth \in befriended, who |-> None, keys |-> None])
    /\ \/ ~Busy(s) /\ UNCHANGED calm
       \/ Busy(s) /\ May("busySend") /\ calm' = FALSE
    /\ UNCHANGED <<session, messages, screens, field, keys, table, main, typed,
                   lost, signOuts>>

\* The friend document that is read is that of the shared instance.
Ask(p) ==
    /\ press[p].at = "pressed"
    /\ press' = [press EXCEPT ![p].at = "asked", ![p].who = helper]
    /\ UNCHANGED <<session, messages, screens, field, keys, table, main, history>>

\* Mutant of Answered: without the keys the group is not left.
NoLeave(p) ==
    /\ press[p].at = "asked"
    /\ press[p].who \in befriended
    /\ press' = [press EXCEPT ![p].at = "answered"]
    /\ keys' = [keys EXCEPT ![press[p].s] = press[p].who]
    /\ UNCHANGED <<session, messages, screens, field, table, main, history>>

\* The document arrives: its keys become those of the screen.  Either way the
\* group is left.
Answered(p) ==
    /\ press[p].at = "asked"
    /\ press' = [press EXCEPT ![p].at = "answered"]
    /\ keys' = IF press[p].who \in befriended
               THEN [keys EXCEPT ![press[p].s] = press[p].who]
               ELSE keys
    /\ UNCHANGED <<session, messages, screens, field, table, main, history>>

\* It does not: the group is left all the same.
Unanswered(p) ==
    /\ May("lookupFails")
    /\ press[p].at = "asked"
    /\ press' = [press EXCEPT ![p].at = "answered"]
    /\ calm' = FALSE
    /\ UNCHANGED <<session, messages, screens, field, keys, table, main, typed,
                   lost, signOuts>>

\* Mutant of Encrypt: group.enter() comes too late for group.wait().
EncryptAtOnce(p) ==
    /\ press[p].at \in {"asked", "answered"}
    /\ press' = [press EXCEPT ![p].at = "encrypted", ![p].keys = keys[press[p].s]]
    /\ UNCHANGED <<session, messages, screens, field, keys, table, main, history>>

\* group.wait() is over: with the keys the screen holds, or as plain text.
Encrypt(p) ==
    /\ press[p].at = "answered"
    /\ press' = [press EXCEPT ![p].at = "encrypted", ![p].keys = keys[press[p].s]]
    /\ UNCHANGED <<session, messages, screens, field, keys, table, main, history>>

\* Every listener hears of a new message.
Posted(m) ==
    /\ messages' = Append(messages, m)
    /\ main' = [s \in Screens |-> IF s \in opened \ failed
                                  THEN Append(main[s], Snapshot') ELSE main[s]]

\* addDocument, in the name of who is signed in by now.
Add(p) ==
    /\ press[p].at = "encrypted"
    /\ IF auth = None
       THEN /\ press' = [press EXCEPT ![p].at = "dropped"]
            /\ UNCHANGED <<messages, main>>
       ELSE /\ press' = [press EXCEPT ![p].at = "sent"]
            /\ Posted([acct |-> auth, press |-> p, keys |-> press[p].keys])
    /\ UNCHANGED <<session, screens, field, keys, table, history>>

\* Mutant of Acked: the field is not cleared.
AckedSilently(p) ==
    /\ press[p].at = "sent"
    /\ press' = [press EXCEPT ![p].at = "done"]
    /\ UNCHANGED <<session, messages, screens, field, keys, table, main, history>>

\* The server has the message.
Acked(p) ==
    /\ press[p].at = "sent"
    /\ press' = [press EXCEPT ![p].at = "done"]
    /\ main' = [main EXCEPT ![press[p].s] = Append(@, Do("clear"))]
    /\ UNCHANGED <<session, messages, screens, field, keys, table, history>>

-----------------------------------------------------------------------------
(* Blocks of the main queue.                                               *)

\* The listener's callback fills the list; a block that reloads the table
\* and scrolls to the last row follows if there is a row (one for each; they
\* do the same).
Filled(s, n) ==
    /\ count' = [count EXCEPT ![s] = Mine(n)]
    /\ main' = [main EXCEPT ![s] = Tail(@) \o IF Mine(n) > 0 THEN <<Do("reload")>>
                                                             ELSE <<>>]
    /\ UNCHANGED <<field, rows, trapped, lost>>

\* The list is emptied and stays so; the table is not told.
Emptied(s) ==
    /\ count' = [count EXCEPT ![s] = 0]
    /\ main' = [main EXCEPT ![s] = Tail(@)]
    /\ UNCHANGED <<field, rows, trapped, lost>>

\* Mutant of Reloaded: the last row is taken for the number of rows.
ReloadedLast(s) ==
    /\ rows' = [rows EXCEPT ![s] = count[s] - 1]
    /\ trapped' = (count[s] = 0)
    /\ main' = [main EXCEPT ![s] = Tail(@)]
    /\ UNCHANGED <<field, count, lost>>

\* scrollToRow traps when there is no row.
Reloaded(s) ==
    /\ rows' = [rows EXCEPT ![s] = count[s]]
    /\ trapped' = (count[s] = 0)
    /\ main' = [main EXCEPT ![s] = Tail(@)]
    /\ UNCHANGED <<field, count, lost>>

SentText(t) == \E i \in DOMAIN messages :
                   messages[i].press > 0 /\ press[messages[i].press].text = t

\* The field is emptied whatever is in it by now.
Cleared(s) ==
    /\ field' = [field EXCEPT ![s] = 0]
    /\ lost' = IF field[s] = 0 \/ SentText(field[s]) THEN lost
               ELSE lost \cup {field[s]}
    /\ main' = [main EXCEPT ![s] = Tail(@)]
    /\ UNCHANGED <<count, rows, trapped>>

Run(s) ==
    /\ main[s] # <<>>
    /\ LET b == Head(main[s])
       IN  \/ b.do = "snapshot" /\ Filled(s, b.n)
           \/ b.do = "error" /\ Emptied(s)
           \/ b.do = "reload" /\ Reloaded(s)
           \/ b.do = "clear" /\ Cleared(s)
    /\ UNCHANGED <<session, messages, screens, keys, failed, press, typed,
                   signOuts, calm>>

\* The listener fails: it is called with the error and never again.
ListenerFails(s) ==
    /\ May("listenerFails") /\ s \in opened \ failed
    /\ failed' = failed \cup {s}
    /\ main' = [main EXCEPT ![s] = Append(@, Do("error"))]
    /\ calm' = FALSE
    /\ UNCHANGED <<session, messages, screens, field, keys, count, rows, trapped,
                   press, typed, lost, signOuts>>

-----------------------------------------------------------------------------
(* The rest of the app.                                                    *)

\* Mutant of ScreensPopped: the next account finds the screen.
ScreensKept == UNCHANGED screens

\* The screens are popped; their listeners and threads go on.
ScreensPopped == shown' = {} /\ UNCHANGED opened

SignOut ==
    /\ auth # None /\ signOuts < MaxSignOuts
    /\ auth' = None /\ signOuts' = signOuts + 1
    /\ ScreensPopped
    /\ \/ Quiet /\ UNCHANGED calm
       \/ ~Quiet /\ May("busySignOut") /\ calm' = FALSE
    /\ UNCHANGED <<helper, befriended, messages, field, keys, table, main, press,
                   typed, lost>>

SignIn(u) ==
    /\ auth = None
    /\ auth' = u /\ helper' = u
    /\ UNCHANGED <<befriended, messages, screens, field, keys, table, main, press,
                   history>>

\* The friend document is written (module Friends).
Befriend(u) ==
    /\ u \notin befriended
    /\ befriended' = befriended \cup {u}
    /\ UNCHANGED <<auth, helper, messages, screens, field, keys, table, main,
                   press, history>>

SendNext(p) ==
    Ask(p) \/ Answered(p) \/ Unanswered(p) \/ Encrypt(p) \/ Add(p)

Next ==
    /\ ~trapped
    /\ \/ \E s \in Screens : \/ OpenScreen(s) \/ CloseScreen(s)
                             \/ Type(s) \/ SendPressed(s)
                             \/ Run(s) \/ ListenerFails(s)
       \/ \E p \in DOMAIN press : SendNext(p) \/ Acked(p)
       \/ SignOut
       \/ \E u \in Users : SignIn(u) \/ Befriend(u)

Spec == Init /\ [][Next]_vars

\* Threads and the main queue are scheduled, and a lookup is answered, with the
\* document or an error.  An acknowledgement may never come.
FairSpec ==
    /\ Spec
    /\ \A p \in 1..MaxPresses :
          WF_vars(~trapped /\ p \in DOMAIN press /\ SendNext(p))
    /\ \A s \in Screens : WF_vars(~trapped /\ Run(s))

-----------------------------------------------------------------------------

TypeOK ==
    /\ auth \in Users \cup {None} /\ helper \in Users
    /\ befriended \subseteq Users
    /\ messages \in Seq(Message) /\ press \in Seq(Press)
    /\ opened \subseteq Screens /\ shown \cup failed \subseteq opened
    /\ field \in [Screens -> Nat] /\ keys \in [Screens -> Users \cup {None}]
    /\ count \in [Screens -> Nat] /\ rows \in [Screens -> Nat]
    /\ main \in [Screens -> Seq(Block)]
    /\ trapped \in BOOLEAN /\ calm \in BOOLEAN
    /\ typed \in Nat /\ lost \subseteq Nat /\ signOuts \in Nat

\* "The chat is encrypted if the people talking have gone through the friending
\* process" (src/README.md:30).  In calm, a message to a friend goes out so, from
\* the account that wrote it and with the keys of that account's friend document,
\* although the keys are fetched while the press is under way and kept in the
\* screen.
SecretBetweenFriends ==
    calm => \A i \in DOMAIN messages :
               LET m == messages[i]
               IN  m.press > 0 =>
                     /\ m.acct = press[m.press].by
                     /\ press[m.press].friend => m.keys = m.acct
                     /\ m.keys \in {None, m.acct}

\* In calm, a text is sent once, and only a text that was sent is cleared away.
TextsKept ==
    calm => /\ lost = {}
            /\ \A p, q \in DOMAIN press :
                  press[p].text = press[q].text /\ press[p].text > 0 => p = q

\* In calm, no table is asked for a row its list does not have: neither by
\* scrolling nor by what it showed when it was last reloaded.
TableInStep == calm => ~trapped /\ \A s \in shown : rows[s] <= count[s]

\* What was sent from a screen is shown there, unless the screen is closed
\* or its listener fails: every way out of the lookup lets the thread go on,
\* and the last block queued for the table finds the message in the list.
Visible(p) ==
    \/ \E i \in DOMAIN messages :
          messages[i].press = p /\ rows[press[p].s] >= Mine(i)
    \/ press[p].s \notin shown \ failed

SentIsShown ==
    \A p \in 1..MaxPresses :
        (p \in DOMAIN press /\ press[p].at = "pressed")
        ~> (p \in DOMAIN press /\ Visible(p)) \/ trapped
=============================================================================
