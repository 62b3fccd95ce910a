----------------------------- MODULE ChatProofs -----------------------------
(***************************************************************************)
(* Type correctness of Chat and its three safety properties, for any       *)
(* accounts, screens and bounds.                                           *)
(***************************************************************************)
EXTENDS Chat, FiniteSetTheorems, TLAPS

-----------------------------------------------------------------------------
(* The inductive invariant.                                                *)

Working(p) == press[p].at \notin Over
Encrypted == {"encrypted", "sent", "done"}
Waiting(s, what) == \E i \in DOMAIN main[s] : main[s][i].do = what

\* The presses of a screen have one author, who is signed in and in the shared
\* instance while one of them is under way; the keys of the screen are theirs.
Authored(p) ==
    LET x == press[p]
    IN  /\ Working(p) \/ x.s \in shown => x.by = auth
        /\ x.s \in opened
        /\ x.friend => x.by \in befriended
        /\ x.at = "asked" => x.who = x.by
        /\ x.at = "answered" /\ x.friend => keys[x.s] = x.by
        /\ x.at \in Encrypted =>
              x.keys \in {None, x.by} /\ (x.friend => x.keys = x.by)

Authors ==
    /\ auth # None => helper = auth
    /\ shown # {} => auth # None
    /\ \A p \in DOMAIN press : Authored(p)
    /\ \A p, q \in DOMAIN press : press[p].s = press[q].s => press[p].by = press[q].by
    /\ \A s \in Screens :
          keys[s] = None \/ \E p \in DOMAIN press : press[p].s = s /\ press[p].by = keys[s]

\* A message that was sent from here is what its press has encrypted.
Sent ==
    \A i \in DOMAIN messages :
        LET m == messages[i]
        IN  m.press > 0 =>
              /\ m.press \in DOMAIN press
              /\ press[m.press].at \in {"sent", "done"}
              /\ m.acct = press[m.press].by
              /\ m.keys = press[m.press].keys

\* A screen waits for one message at a time, whose text is in the field until it
\* is cleared; no other field and no other press has it.
OneAtATime ==
    /\ \A p, q \in DOMAIN press :
          Working(p) /\ Working(q) /\ press[p].s = press[q].s => p = q
    /\ \A p \in DOMAIN press : Working(p) => ~Waiting(press[p].s, "clear")
    /\ \A s \in Screens : \A i, j \in DOMAIN main[s] :
          main[s][i].do = "clear" /\ main[s][j].do = "clear" => i = j

Texted(p) ==
    LET x == press[p]
    IN  /\ x.text <= typed
        /\ x.at # "dropped"
        /\ Working(p) => x.text = field[x.s]
        /\ x.at = "sent" => \E i \in DOMAIN messages : messages[i].press = p
        /\ \A s \in Screens :
              x.text = field[s] /\ field[s] > 0 => x.s = s /\ Busy(s)

Fields ==
    /\ lost = {}
    /\ \A s \in Screens : field[s] <= typed
    /\ \A s, r \in Screens : field[s] = field[r] /\ field[s] > 0 => s = r
    /\ \A s \in Screens : Waiting(s, "clear") => field[s] = 0 \/ SentText(field[s])
    /\ \A p \in DOMAIN press : Texted(p)
    /\ \A p, q \in DOMAIN press :
          press[p].text = press[q].text /\ press[p].text > 0 => p = q

\* The snapshots that wait for a screen grow, and are of the account whose
\* messages the list has: the list grows with them.
Watched(s) == s \in shown \/ Waiting(s, "reload")

Growing(s) ==
    \A i \in DOMAIN main[s] :
        /\ main[s][i].do # "error"
        /\ main[s][i].do = "snapshot" =>
              /\ main[s][i].n <= Len(messages)
              /\ Watched(s) => count[s] <= Mine(main[s][i].n)
              /\ \A j \in DOMAIN main[s] :
                    i < j /\ main[s][j].do = "snapshot" => main[s][i].n <= main[s][j].n

InStep(s) ==
    /\ auth = None \/ s \notin opened => main[s] = <<>>
    /\ s \notin opened => count[s] = 0 /\ rows[s] = 0
    /\ s \in shown => rows[s] <= count[s]
    /\ Waiting(s, "reload") => count[s] > 0
    /\ Watched(s) => count[s] <= Mine(Len(messages))

Rows == ~trapped /\ \A s \in Screens : InStep(s) /\ Growing(s)

Order == Authors /\ Sent /\ OneAtATime /\ Fields /\ Rows

IInv == TypeOK /\ (calm => Order)

-----------------------------------------------------------------------------
(* Typing.                                                                 *)

USE ChatAssumption DEF None

\* How many of the first n messages of a list are an account's.
Those(ms, a, n) == {i \in 1..n : ms[i].acct = a}
Count(ms, a, n) == Cardinality(Those(ms, a, n))

LEMMA CountTyped ==
    ASSUME NEW ms, NEW a, NEW n \in Nat
    PROVE  IsFiniteSet(Those(ms, a, n)) /\ Count(ms, a, n) \in Nat
  <1>1. IsFiniteSet(1..n)
    BY FS_Interval
  <1>2. Those(ms, a, n) \subseteq 1..n
    BY DEF Those
  <1>3. IsFiniteSet(Those(ms, a, n))
    BY <1>1, <1>2, FS_Subset
  <1> QED
    BY <1>3, FS_CardinalityType DEF Count

LEMMA MineTyped ==
    ASSUME NEW n \in Nat
    PROVE  Mine(n) \in Nat
  <1>1. Mine(n) = Count(messages, auth, n)
    BY DEF Mine, Count, Those
  <1> QED
    BY <1>1, CountTyped

LEMMA InitTyped == Init => TypeOK
  <1> SUFFICES ASSUME Init PROVE TypeOK
    OBVIOUS
  <1>1. messages \in Seq(Message)
    <2>1. auth \in Users /\ Earlier(auth) \in Message
      BY DEF Init, Earlier, Message
    <2>2. CASE messages = <<>>
      BY <2>2
    <2>3. CASE messages = <<Earlier(auth)>>
      BY <2>1, <2>3
    <2> QED
      BY <2>2, <2>3 DEF Init
  <1>2. /\ field \in [Screens -> Nat] /\ count \in [Screens -> Nat]
        /\ rows \in [Screens -> Nat] /\ typed \in Nat /\ signOuts \in Nat
    BY DEF Init
  <1>3. press \in Seq(Press) /\ main \in [Screens -> Seq(Block)]
    BY DEF Init
  <1> QED
    BY <1>1, <1>2, <1>3 DEF Init, TypeOK

\* A block taken off the front, and perhaps one put at the end.
LEMMA RunTyped ==
    ASSUME TypeOK, NEW s \in Screens, Run(s)
    PROVE  TypeOK'
  <1> DEFINE b == Head(main[s])
  <1>1. /\ main[s] \in Seq(Block) /\ main[s] # <<>>
        /\ b \in Block /\ Tail(main[s]) \in Seq(Block)
    BY DEF TypeOK, Run
  <1>2. b.n \in Nat
    BY <1>1 DEF Block
  <1>3. UNCHANGED <<auth, helper, befriended, messages, press, shown, opened, keys,
                    failed, typed, signOuts, calm>>
    BY DEF Run, session, screens
  <1>4. CASE Filled(s, b.n)
    <2>1. Do("reload") \in Block
      BY DEF Do, Block
    <2>2. Tail(main[s]) \o (IF Mine(b.n) > 0 THEN <<Do("reload")>> ELSE <<>>)
              \in Seq(Block)
      BY <1>1, <2>1
    <2>3. main' \in [Screens -> Seq(Block)]
      BY <1>4, <2>2 DEF Filled, TypeOK
    <2>4. count' \in [Screens -> Nat]
      BY <1>2, <1>4, MineTyped DEF Filled, TypeOK
    <2> QED
      BY <1>3, <1>4, <2>3, <2>4 DEF Filled, TypeOK
  <1>5. CASE Emptied(s)
    BY <1>1, <1>3, <1>5 DEF Emptied, TypeOK
  <1>6. CASE Reloaded(s)
    BY <1>1, <1>3, <1>6 DEF Reloaded, TypeOK
  <1>7. CASE Cleared(s)
    BY <1>1, <1>3, <1>7 DEF Cleared, TypeOK
  <1> QED
    BY <1>4, <1>5, <1>6, <1>7 DEF Run

LEMMA PressTyped ==
    ASSUME TypeOK
    PROVE  /\ press \in [1..Len(press) -> Press] /\ Len(press) \in Nat
           /\ DOMAIN press = 1..Len(press)
           /\ \A p \in DOMAIN press : press[p] \in Press /\ press[p].s \in Screens
  <1>1. press \in Seq(Press)
    BY DEF TypeOK
  <1>2. press \in [1..Len(press) -> Press] /\ Len(press) \in Nat
    BY <1>1
  <1>3. \A p \in DOMAIN press : press[p] \in Press /\ press[p].s \in Screens
    BY <1>2 DEF Press
  <1> QED
    BY <1>2, <1>3

LEMMA SendTyped ==
    ASSUME TypeOK, NEW p \in DOMAIN press, SendNext(p) \/ Acked(p)
    PROVE  TypeOK'
  <1> USE DEF TypeOK
  <1>1. /\ p \in 1..Len(press) /\ press[p] \in Press /\ press[p].s \in Screens
        /\ press \in [1..Len(press) -> Press] /\ Len(press) \in Nat
    BY PressTyped
  <1>2. ASSUME NEW q \in Press, press' = [press EXCEPT ![p] = q]
        PROVE  press' \in Seq(Press)
    BY <1>1, <1>2
  <1>3. CASE Ask(p)
    <2>1. [press[p] EXCEPT !.at = "asked", !.who = helper] \in Press
      BY <1>1 DEF Press, Stages
    <2> QED
      BY <1>2, <1>3, <2>1 DEF Ask, session, screens, table, history
  <1>4. CASE Answered(p) \/ Unanswered(p)
    <2>1. [press[p] EXCEPT !.at = "answered"] \in Press
      BY <1>1 DEF Press, Stages
    <2>2. press[p].who \in Users \cup {None}
      BY <1>1 DEF Press
    <2>3. press' \in Seq(Press)
      BY <1>2, <1>4, <2>1 DEF Answered, Unanswered
    <2>4. keys' \in [Screens -> Users \cup {None}]
      BY <1>4, <2>2 DEF Answered, Unanswered
    <2> QED
      BY <1>4, <2>3, <2>4 DEF Answered, Unanswered, session, screens, table, history
  <1>5. CASE Encrypt(p)
    <2>1. [press[p] EXCEPT !.at = "encrypted", !.keys = keys[press[p].s]] \in Press
      BY <1>1 DEF Press, Stages
    <2> QED
      BY <1>2, <1>5, <2>1 DEF Encrypt, session, screens, table, history
  <1>6. CASE Add(p) /\ auth = None
    <2>1. [press[p] EXCEPT !.at = "dropped"] \in Press
      BY <1>1 DEF Press, Stages
    <2> QED
      BY <1>2, <1>6, <2>1 DEF Add, session, screens, table, history
  <1>7. CASE Add(p) /\ auth # None
    <2> DEFINE m == [acct |-> auth, press |-> p, keys |-> press[p].keys]
    <2>1. [press[p] EXCEPT !.at = "sent"] \in Press
      BY <1>1 DEF Press, Stages
    <2>2. press' \in Seq(Press)
      BY <1>2, <1>7, <2>1 DEF Add
    <2>3. Posted(m)
      BY <1>7 DEF Add
    <2>4. m \in Message
      BY <1>1, <1>7 DEF Message, Press
    <2>5. messages' \in Seq(Message)
      BY <2>3, <2>4 DEF Posted
    <2>6. Snapshot' \in Block
      BY <2>5 DEF Snapshot, Block
    <2>7. main' \in [Screens -> Seq(Block)]
      BY <2>3, <2>6 DEF Posted
    <2> QED
      BY <1>7, <2>2, <2>5, <2>7 DEF Add, session, screens, table, history
  <1>8. CASE Acked(p)
    <2>1. [press[p] EXCEPT !.at = "done"] \in Press
      BY <1>1 DEF Press, Stages
    <2>2. Do("clear") \in Block
      BY DEF Do, Block
    <2>3. main' \in [Screens -> Seq(Block)]
      BY <1>1, <1>8, <2>2 DEF Acked
    <2> QED
      BY <1>2, <1>8, <2>1, <2>3 DEF Acked, session, screens, table, history
  <1> QED
    BY <1>3, <1>4, <1>5, <1>6, <1>7, <1>8 DEF SendNext

LEMMA StepTyped == TypeOK /\ [Next]_vars => TypeOK'
  <1> SUFFICES ASSUME TypeOK, [Next]_vars PROVE TypeOK'
    OBVIOUS
  <1>1. CASE UNCHANGED vars
    BY <1>1 DEF TypeOK, vars, session, screens, table, history
  <1>2. ASSUME NEW s \in Screens, OpenScreen(s) \/ CloseScreen(s) \/ Type(s)
        PROVE  TypeOK'
    <2>1. CASE OpenScreen(s)
      <3>1. Snapshot \in Block
        BY DEF TypeOK, Snapshot, Block
      <3> QED
        BY <2>1, <3>1 DEF TypeOK, OpenScreen, session, table, history
    <2>2. CASE CloseScreen(s)
      BY <2>2 DEF TypeOK, CloseScreen, session, table, history
    <2>3. CASE Type(s)
      <3>1. typed' \in Nat
        BY <2>3 DEF TypeOK, Type
      <3> QED
        BY <2>3, <3>1 DEF TypeOK, Type, session, screens, table
    <2> QED
      BY <1>2, <2>1, <2>2, <2>3
  <1>3. ASSUME NEW s \in Screens, SendPressed(s)
        PROVE  TypeOK'
    <2>1. [at |-> "pressed", s |-> s, text |-> field[s], by |-> auth,
           friend |-> auth \in befriended, who |-> None, keys |-> None] \in Press
      <3>1. field[s] \in Nat /\ auth \in Users /\ "pressed" \in Stages
        BY <1>3 DEF TypeOK, SendPressed, Stages
      <3>2. (auth \in befriended) \in BOOLEAN /\ None \in Users \cup {None}
        OBVIOUS
      <3> QED
        BY <3>1, <3>2 DEF Press
    <2>2. press' \in Seq(Press)
      BY <1>3, <2>1 DEF TypeOK, SendPressed
    <2> QED
      BY <1>3, <2>2 DEF TypeOK, SendPressed, session, screens, table
  <1>4. ASSUME NEW s \in Screens, ListenerFails(s)
        PROVE  TypeOK'
    <2>1. Do("error") \in Block
      BY DEF Do, Block
    <2>2. main' \in [Screens -> Seq(Block)]
      BY <1>4, <2>1 DEF TypeOK, ListenerFails
    <2>3. shown \cup failed' \subseteq opened
      BY <1>4 DEF TypeOK, ListenerFails
    <2> QED
      BY <1>4, <2>2, <2>3 DEF TypeOK, ListenerFails, session, screens
  <1>5. CASE SignOut
    <2>1. signOuts' \in Nat
      BY <1>5 DEF TypeOK, SignOut
    <2> QED
      BY <1>5, <2>1 DEF TypeOK, SignOut, ScreensPopped, table
  <1>6. ASSUME NEW u \in Users, SignIn(u) \/ Befriend(u)
        PROVE  TypeOK'
    BY <1>6 DEF TypeOK, SignIn, Befriend, screens, table, history
  <1> QED
    BY <1>1, <1>2, <1>3, <1>4, <1>5, <1>6, RunTyped, SendTyped DEF Next

\* Everything in Chat is of its type.
THEOREM ChatTyped == Spec => []TypeOK
  BY InitTyped, StepTyped, PTL DEF Spec

-----------------------------------------------------------------------------
(* Who writes, and with which keys.                                        *)

\* A step of a press leaves the others alone, and its own author and text.
LEMMA Moved ==
    ASSUME TypeOK, NEW p \in DOMAIN press, SendNext(p) \/ Acked(p)
    PROVE  /\ DOMAIN press' = DOMAIN press
           /\ \A q \in DOMAIN press : q # p => press'[q] = press[q]
           /\ \A q \in DOMAIN press :
                 /\ press'[q].s = press[q].s /\ press'[q].by = press[q].by
                 /\ press'[q].text = press[q].text
                 /\ press'[q].friend = press[q].friend
           /\ press[p].at \notin Over
           /\ UNCHANGED <<auth, helper, befriended, shown, opened>>
  <1>1. /\ press \in [1..Len(press) -> Press]
        /\ press[p] \in Press /\ p \in 1..Len(press)
    BY PressTyped
  <1>2. CASE Ask(p)
    BY <1>1, <1>2 DEF Ask, Over, Press, session, screens
  <1>3. CASE Answered(p)
    BY <1>1, <1>3 DEF Answered, Over, Press, session, screens
  <1>4. CASE Unanswered(p)
    BY <1>1, <1>4 DEF Unanswered, Over, Press, session, screens
  <1>5. CASE Encrypt(p)
    BY <1>1, <1>5 DEF Encrypt, Over, Press, session, screens
  <1>6. CASE Add(p)
    <2>1. PICK a \in {"dropped", "sent"} :
              press' = [press EXCEPT ![p].at = a]
      BY <1>6 DEF Add
    <2>2. press[p].at = "encrypted" /\ UNCHANGED <<session, screens>>
      BY <1>6 DEF Add
    <2> QED
      BY <1>1, <2>1, <2>2 DEF Over, Press, session, screens
  <1>7. CASE Acked(p)
    <2>1. /\ press' = [press EXCEPT ![p].at = "done"] /\ press[p].at = "sent"
          /\ UNCHANGED <<session, screens>>
      BY <1>7 DEF Acked
    <2> QED
      BY <1>1, <2>1 DEF Over, Press, session, screens
  <1> QED
    BY <1>2, <1>3, <1>4, <1>5, <1>6, <1>7 DEF SendNext

LEMMA AuthorsStep ==
    ASSUME TypeOK, TypeOK', Authors, calm', Next
    PROVE  Authors'
  <1>1. /\ press \in [1..Len(press) -> Press] /\ Len(press) \in Nat
        /\ DOMAIN press = 1..Len(press)
        /\ \A p \in DOMAIN press : press[p] \in Press /\ press[p].s \in Screens
    BY PressTyped
  <1>2. ASSUME NEW s \in Screens,
               OpenScreen(s) \/ CloseScreen(s) \/ Type(s) \/ Run(s)
        PROVE  Authors'
    <2>1. UNCHANGED <<auth, helper, befriended, press, keys>>
      BY <1>2 DEF OpenScreen, CloseScreen, Type, Run, session
    <2>2. /\ opened \subseteq opened'
          /\ shown' # {} => auth # None
          /\ \A p \in DOMAIN press : press[p].s \in shown' => press[p].s \in shown
      <3>1. CASE OpenScreen(s)
        BY <3>1 DEF OpenScreen, Authors, Authored
      <3>2. CASE CloseScreen(s)
        BY <3>2 DEF CloseScreen, Authors, Authored
      <3>3. CASE Type(s) \/ Run(s)
        BY <3>3 DEF Type, Run, Authors, screens
      <3> QED
        BY <1>2, <3>1, <3>2, <3>3
    <2> QED
      BY <2>1, <2>2 DEF Authors, Authored, Working
  <1>3. ASSUME NEW s \in Screens, SendPressed(s)
        PROVE  Authors'
    <2>9. PICK n \in Nat : n = Len(press) + 1
      BY <1>1
    <2> DEFINE x == [at |-> "pressed", s |-> s, text |-> field[s], by |-> auth,
                     friend |-> auth \in befriended, who |-> None, keys |-> None]
    <2>0. /\ x.at = "pressed" /\ x.s = s /\ x.by = auth
          /\ x.friend => auth \in befriended
      BY Zenon
    <2>10. press' = Append(press, x)
      BY <1>3 DEF SendPressed
    <2> HIDE DEF x
    <2>1. /\ DOMAIN press' = DOMAIN press \cup {n} /\ n \notin DOMAIN press
          /\ \A p \in DOMAIN press : press'[p] = press[p]
          /\ press'[n] = x
      BY <1>1, <2>9, <2>10
    <2>2. s \in shown /\ s \in opened /\ auth # None
      BY <1>3 DEF SendPressed, Top, TypeOK
    <2>3. UNCHANGED <<auth, helper, befriended, shown, opened, keys>>
      BY <1>3 DEF SendPressed, session, screens
    <2>4. \A p \in DOMAIN press : Authored(p)'
      <3> TAKE p \in DOMAIN press
      <3>1. Authored(p) /\ press'[p] = press[p]
        BY <2>1 DEF Authors
      <3> QED
        BY <2>3, <3>1 DEF Authored, Working
    <2>5. Authored(n)'
      <3>1. /\ press'[n].at = "pressed" /\ press'[n].s = s /\ press'[n].by = auth
            /\ press'[n].friend => auth \in befriended
        BY <2>0, <2>1, Zenon
      <3>2. "pressed" \notin Encrypted
        BY DEF Encrypted
      <3> QED
        BY <2>2, <2>3, <3>1, <3>2 DEF Authored
    <2>6. \A p \in DOMAIN press : press[p].s = s => press[p].by = auth
      BY <2>2 DEF Authors, Authored
    <2> QED
      <3>1. press'[n].s = s /\ press'[n].by = auth
        BY <2>0, <2>1
      <3>2. (\A p \in DOMAIN press : Authored(p))'
        BY <2>1, <2>4, <2>5
      <3>3. (\A p, q \in DOMAIN press : press[p].s = press[q].s
                                       => press[p].by = press[q].by)'
        BY <2>1, <2>6, <3>1 DEF Authors
      <3>4. (\A r \in Screens : keys[r] = None \/ \E p \in DOMAIN press :
                press[p].s = r /\ press[p].by = keys[r])'
        BY <2>1, <2>3 DEF Authors
      <3> QED
        BY <2>2, <2>3, <3>2, <3>3, <3>4 DEF Authors
  <1>4. ASSUME NEW p \in DOMAIN press, SendNext(p) \/ Acked(p)
        PROVE  Authors'
    <2>1. /\ DOMAIN press' = DOMAIN press
          /\ \A q \in DOMAIN press : q # p => press'[q] = press[q]
          /\ \A q \in DOMAIN press :
                /\ press'[q].s = press[q].s /\ press'[q].by = press[q].by
                /\ press'[q].friend = press[q].friend
          /\ press[p].at \notin Over
          /\ UNCHANGED <<auth, helper, befriended, shown, opened>>
      BY <1>4, Moved
    <2>2. press[p].by = auth /\ auth # None /\ helper = auth
      BY <1>1, <2>1 DEF Authors, Authored, Working, Press
    <2>3. CASE Ask(p)
      <3>1. press'[p].at = "asked" /\ press'[p].who = helper /\ keys' = keys
        BY <1>1, <2>3 DEF Ask
      <3> QED
        BY <2>1, <2>2, <3>1 DEF Authors, Authored, Working, Over, Encrypted
    <2>4. CASE Answered(p)
      <3>0. press[p].at = "asked" /\ press[p].who = press[p].by
        BY <2>4 DEF Answered, Authors, Authored
      <3>1. /\ press'[p].at = "answered"
            /\ keys' = IF press[p].by \in befriended
                       THEN [keys EXCEPT ![press[p].s] = press[p].by]
                       ELSE keys
        BY <1>1, <2>4, <3>0 DEF Answered
      <3>2. keys \in [Screens -> Users \cup {None}]
        BY DEF TypeOK
      <3> QED
        BY <1>1, <2>1, <2>2, <3>1, <3>2 DEF Authors, Authored, Working, Over, Encrypted
    <2>5. CASE Encrypt(p)
      <3>1. /\ press[p].at = "answered" /\ press'[p].at = "encrypted"
            /\ press'[p].keys = keys[press[p].s] /\ keys' = keys
        BY <1>1, <2>5 DEF Encrypt
      <3>2. keys[press[p].s] \in {None, press[p].by}
        BY <1>1 DEF Authors, Authored
      <3> QED
        BY <2>1, <2>2, <3>1, <3>2 DEF Authors, Authored, Working, Over, Encrypted
    <2>6. CASE Add(p)
      <3>1. /\ press[p].at = "encrypted" /\ press'[p].at = "sent"
            /\ press'[p].keys = press[p].keys /\ keys' = keys
        <4>1. press[p].at = "encrypted" /\ press' = [press EXCEPT ![p].at = "sent"]
          BY <2>2, <2>6 DEF Add
        <4> QED
          BY <1>1, <2>6, <4>1 DEF Add
      <3> QED
        BY <2>1, <2>2, <3>1 DEF Authors, Authored, Working, Over, Encrypted
    <2>7. CASE Acked(p)
      <3>1. /\ press[p].at = "sent" /\ press'[p].at = "done"
            /\ press'[p].keys = press[p].keys /\ keys' = keys
        BY <1>1, <2>7 DEF Acked
      <3> QED
        BY <2>1, <2>2, <3>1 DEF Authors, Authored, Working, Over, Encrypted
    <2> QED
      BY <1>4, <2>3, <2>4, <2>5, <2>6, <2>7 DEF SendNext, Unanswered
  <1>5. CASE SignOut
    <2>1. /\ auth' = None /\ shown' = {} /\ ~\E s \in Screens : Busy(s)
          /\ UNCHANGED <<helper, befriended, press, keys, opened>>
      BY <1>5 DEF SignOut, ScreensPopped, Quiet
    <2>2. \A p \in DOMAIN press : ~Working(p)
      BY <1>1, <2>1 DEF Busy, Working
    <2> QED
      BY <2>1, <2>2 DEF Authors, Authored, Working
  <1>6. ASSUME NEW u \in Users, SignIn(u)
        PROVE  Authors'
    <2>1. /\ auth = None /\ auth' = u /\ helper' = u /\ shown = {}
          /\ UNCHANGED <<befriended, press, keys, opened, shown>>
      BY <1>6 DEF SignIn, Authors, screens
    <2>2. \A p \in DOMAIN press : ~Working(p)
      BY <1>1, <2>1 DEF Authors, Authored, Press
    <2> QED
      BY <2>1, <2>2 DEF Authors, Authored, Working
  <1>7. ASSUME NEW u \in Users, Befriend(u)
        PROVE  Authors'
    BY <1>7 DEF Befriend, Authors, Authored, Working, screens
  <1> QED
    BY <1>2, <1>3, <1>4, <1>5, <1>6, <1>7 DEF Next, ListenerFails

LEMMA SentStep ==
    ASSUME TypeOK, TypeOK', Authors, Sent, calm', Next
    PROVE  Sent'
  <1>1. /\ DOMAIN press = 1..Len(press) /\ Len(press) \in Nat
        /\ press \in [1..Len(press) -> Press]
        /\ messages \in Seq(Message)
        /\ \A i \in DOMAIN messages : messages[i].press \in Nat
    <2>1. messages \in Seq(Message)
      BY DEF TypeOK
    <2>2. \A i \in DOMAIN messages : messages[i].press \in Nat
      <3> TAKE i \in DOMAIN messages
      <3>1. messages[i] \in Message
        BY <2>1
      <3> QED
        BY <3>1 DEF Message
    <2> QED
      BY <2>1, <2>2, PressTyped
  <1>2. ASSUME UNCHANGED messages,
               \A q \in DOMAIN press : q \in DOMAIN press' /\ press'[q] = press[q]
        PROVE  Sent'
    BY <1>1, <1>2 DEF Sent
  <1>3. ASSUME NEW s \in Screens, SendPressed(s)
        PROVE  Sent'
    <2>1. \A q \in DOMAIN press : q \in DOMAIN press' /\ press'[q] = press[q]
      BY <1>1, <1>3 DEF SendPressed
    <2> QED
      BY <1>2, <1>3, <2>1 DEF SendPressed
  <1>4. ASSUME NEW p \in DOMAIN press, SendNext(p) \/ Acked(p)
        PROVE  Sent'
    <2>1. /\ DOMAIN press' = DOMAIN press
          /\ \A q \in DOMAIN press : q # p => press'[q] = press[q]
          /\ press'[p].by = press[p].by
      BY <1>4, Moved
    <2>2. CASE UNCHANGED messages /\ press[p].at \notin {"sent", "done"}
      BY <2>1, <2>2 DEF Sent
    <2>3. CASE Add(p) /\ auth # None
      <3> DEFINE m == [acct |-> auth, press |-> p, keys |-> press[p].keys]
      <3>1. /\ press' = [press EXCEPT ![p].at = "sent"] /\ press[p].at = "encrypted"
            /\ Posted(m)
        BY <2>3 DEF Add
      <3>2. press'[p].at = "sent" /\ press'[p].keys = press[p].keys
        BY <1>1, <3>1
      <3>3. messages' = Append(messages, m)
        BY <3>1 DEF Posted
      <3>4. auth = press[p].by
        BY <3>1 DEF Authors, Authored, Working, Over
      <3>5. ASSUME NEW i \in DOMAIN messages
            PROVE  messages'[i] = messages[i]
        BY <1>1, <3>3
      <3>6. \A i \in DOMAIN messages' :
                i \in DOMAIN messages \/ messages'[i] = m
        BY <1>1, <3>3
      <3>7. ASSUME NEW i \in DOMAIN messages, messages[i].press > 0
            PROVE  messages[i].press # p
        BY <3>1, <3>7 DEF Sent
      <3>8. m.acct = auth /\ m.press = p /\ m.keys = press[p].keys
        OBVIOUS
      <3> HIDE DEF m
      <3> QED
        BY <2>1, <3>2, <3>4, <3>5, <3>6, <3>7, <3>8 DEF Sent
    <2>4. CASE Acked(p)
      <3>1. /\ press' = [press EXCEPT ![p].at = "done"] /\ press[p].at = "sent"
            /\ UNCHANGED messages
        BY <2>4 DEF Acked
      <3>2. press'[p].at = "done" /\ press'[p].keys = press[p].keys
        BY <1>1, <3>1
      <3> QED
        BY <2>1, <3>1, <3>2 DEF Sent
    <2>5. CASE Ask(p) \/ Answered(p) \/ Encrypt(p) \/ (Add(p) /\ auth = None)
      <3>1. UNCHANGED messages /\ press[p].at \notin {"sent", "done"}
        BY <2>5 DEF Ask, Answered, Encrypt, Add
      <3> QED
        BY <2>2, <3>1
    <2> QED
      BY <1>4, <2>3, <2>4, <2>5 DEF SendNext, Unanswered
  <1>5. ASSUME NEW s \in Screens, OpenScreen(s) \/ CloseScreen(s) \/ Type(s) \/ Run(s)
        PROVE  Sent'
    <2>1. UNCHANGED <<messages, press>>
      BY <1>5 DEF OpenScreen, CloseScreen, Type, Run
    <2> QED
      BY <1>2, <2>1
  <1>6. ASSUME SignOut \/ \E u \in Users : SignIn(u) \/ Befriend(u)
        PROVE  Sent'
    <2>1. UNCHANGED <<messages, press>>
      BY <1>6 DEF SignOut, SignIn, Befriend
    <2> QED
      BY <1>2, <2>1
  <1> QED
    BY <1>3, <1>4, <1>5, <1>6 DEF Next, ListenerFails

-----------------------------------------------------------------------------
(* What waits for the main thread.                                         *)

\* A block put at the end of a queue.
LEMMA Appended ==
    ASSUME NEW T, NEW q \in Seq(T), NEW b
    PROVE  /\ DOMAIN Append(q, b) = DOMAIN q \cup {Len(q) + 1}
           /\ \A i \in DOMAIN q : i < Len(q) + 1 /\ Append(q, b)[i] = q[i]
           /\ Append(q, b)[Len(q) + 1] = b
  OBVIOUS

\* Run takes the block at the front; only a snapshot puts one at the end.
LEMMA RunBlocks ==
    ASSUME TypeOK, NEW s \in Screens, Run(s)
    PROVE  /\ \A r \in Screens : r # s => main'[r] = main[r]
           /\ 1 \in DOMAIN main[s] /\ Head(main[s]) = main[s][1]
           /\ \A i \in DOMAIN main[s] : i > 1 =>
                 i - 1 \in DOMAIN main'[s] /\ main'[s][i - 1] = main[s][i]
           /\ \A i \in DOMAIN main'[s] :
                 \/ i + 1 \in DOMAIN main[s] /\ main'[s][i] = main[s][i + 1]
                 \/ /\ i = Len(main[s]) /\ main'[s][i] = Do("reload")
                    /\ main[s][1].do = "snapshot" /\ Mine(main[s][1].n) > 0
  <1> DEFINE q == main[s]
  <1>1. q \in Seq(Block) /\ q # <<>> /\ main \in [Screens -> Seq(Block)]
    BY DEF Run, TypeOK
  <1>2. /\ 1 \in DOMAIN q /\ Head(q) = q[1]
        /\ Tail(q) \in Seq(Block) /\ Len(Tail(q)) = Len(q) - 1
        /\ \A i \in 1..(Len(q) - 1) : Tail(q)[i] = q[i + 1]
        /\ Len(q) \in Nat /\ DOMAIN q = 1..Len(q)
    BY <1>1
  <1>3. CASE main' = [main EXCEPT ![s] = Tail(@)]
    <2>1. main'[s] = Tail(q) /\ \A r \in Screens : r # s => main'[r] = main[r]
      BY <1>1, <1>3
    <2> QED
      BY <1>2, <2>1
  <1>4. CASE /\ main' = [main EXCEPT ![s] = Tail(@) \o <<Do("reload")>>]
             /\ q[1].do = "snapshot" /\ Mine(q[1].n) > 0
    <2>1. /\ main'[s] = Tail(q) \o <<Do("reload")>>
          /\ \A r \in Screens : r # s => main'[r] = main[r]
      BY <1>1, <1>4
    <2>2. /\ DOMAIN main'[s] = 1..Len(q)
          /\ \A i \in 1..(Len(q) - 1) : main'[s][i] = Tail(q)[i]
          /\ main'[s][Len(q)] = Do("reload")
      BY <1>2, <2>1
    <2>3. /\ DOMAIN main'[s] = 1..Len(q)
          /\ \A i \in 1..(Len(q) - 1) : main'[s][i] = q[i + 1]
          /\ main'[s][Len(q)] = Do("reload")
      BY <1>2, <2>2
    <2>4. ASSUME NEW i \in DOMAIN q, i > 1
          PROVE  i - 1 \in DOMAIN main'[s] /\ main'[s][i - 1] = q[i]
      <3>1. i - 1 \in 1..(Len(q) - 1) /\ (i - 1) + 1 = i
        BY <1>2, <2>4
      <3> QED
        BY <1>2, <2>3, <3>1
    <2>5. ASSUME NEW i \in DOMAIN main'[s], i # Len(q)
          PROVE  i + 1 \in DOMAIN q /\ main'[s][i] = q[i + 1]
      BY <1>2, <2>3, <2>5
    <2> QED
      BY <1>2, <1>4, <2>1, <2>3, <2>4, <2>5
  <1>5. CASE q[1].do = "snapshot" /\ Filled(s, q[1].n)
    <2>1. CASE Mine(q[1].n) > 0
      BY <1>4, <1>5, <2>1 DEF Filled
    <2>2. CASE ~(Mine(q[1].n) > 0)
      <3>1. main' = [main EXCEPT ![s] = Tail(@) \o <<>>]
        BY <1>5, <2>2 DEF Filled
      <3>2. Tail(q) \o <<>> = Tail(q)
        BY <1>2
      <3> QED
        BY <1>3, <3>1, <3>2
    <2> QED
      BY <2>1, <2>2
  <1>6. CASE Emptied(s) \/ Reloaded(s) \/ Cleared(s)
    BY <1>3, <1>6 DEF Emptied, Reloaded, Cleared
  <1> QED
    BY <1>2, <1>5, <1>6 DEF Run

\* A block put at the end of the queues of some screens.
Adds(S, b) ==
    \A s \in Screens : main'[s] = IF s \in S THEN Append(main[s], b) ELSE main[s]

LEMMA BlocksAdded ==
    ASSUME TypeOK, NEW S \in SUBSET Screens, NEW b,
           Adds(S, b)
    PROVE  \A s \in Screens :
              /\ \A i \in DOMAIN main[s] :
                    i \in DOMAIN main'[s] /\ main'[s][i] = main[s][i]
              /\ \A i \in DOMAIN main'[s] :
                    \/ i \in DOMAIN main[s]
                    \/ /\ s \in S /\ main'[s][i] = b
                       /\ \A j \in DOMAIN main[s] : j < i
  <1> TAKE s \in Screens
  <1>1. main[s] \in Seq(Block)
    BY DEF TypeOK
  <1>2. CASE s \in S
    <2>1. main'[s] = Append(main[s], b)
      BY <1>2 DEF Adds
    <2>2. /\ DOMAIN Append(main[s], b) = DOMAIN main[s] \cup {Len(main[s]) + 1}
          /\ \A i \in DOMAIN main[s] :
                i < Len(main[s]) + 1 /\ Append(main[s], b)[i] = main[s][i]
          /\ Append(main[s], b)[Len(main[s]) + 1] = b
      BY <1>1, Appended
    <2> QED
      BY <1>2, <2>1, <2>2
  <1>3. CASE s \notin S
    BY <1>3 DEF Adds
  <1> QED
    BY <1>2, <1>3

\* The clearings in the queues, when other blocks are added.
LEMMA ClearsKept ==
    ASSUME TypeOK, NEW S \in SUBSET Screens, NEW b, b.do # "clear",
           Adds(S, b)
    PROVE  /\ \A s \in Screens : Waiting(s, "clear")' <=> Waiting(s, "clear")
           /\ OneAtATime => \A s \in Screens : \A i, j \in DOMAIN main'[s] :
                 main'[s][i].do = "clear" /\ main'[s][j].do = "clear" => i = j
  <1>1. \A s \in Screens :
           /\ \A i \in DOMAIN main[s] :
                 i \in DOMAIN main'[s] /\ main'[s][i] = main[s][i]
           /\ \A i \in DOMAIN main'[s] : i \in DOMAIN main[s] \/ main'[s][i] = b
    <2>1. \A s \in Screens :
              /\ \A i \in DOMAIN main[s] :
                    i \in DOMAIN main'[s] /\ main'[s][i] = main[s][i]
              /\ \A i \in DOMAIN main'[s] :
                    \/ i \in DOMAIN main[s]
                    \/ /\ s \in S /\ main'[s][i] = b
                       /\ \A j \in DOMAIN main[s] : j < i
      BY BlocksAdded
    <2> QED
      BY <2>1
  <1> QED
    BY <1>1 DEF Waiting, OneAtATime

\* A press of Send as one more element of press.
LEMMA Pressing ==
    ASSUME TypeOK, NEW s \in Screens, SendPressed(s)
    PROVE  \E n \in Nat :
              /\ DOMAIN press' = DOMAIN press \cup {n} /\ n \notin DOMAIN press
              /\ \A p \in DOMAIN press : press'[p] = press[p]
              /\ press'[n].at = "pressed" /\ press'[n].s = s
              /\ press'[n].text = field[s]
  <1> DEFINE x == [at |-> "pressed", s |-> s, text |-> field[s], by |-> auth,
                   friend |-> auth \in befriended, who |-> None, keys |-> None]
  <1>1. x.at = "pressed" /\ x.s = s /\ x.text = field[s]
    OBVIOUS
  <1>2. press' = Append(press, x)
    BY DEF SendPressed
  <1>3. press \in Seq(Press)
    BY DEF TypeOK
  <1> HIDE DEF x
  <1>4. /\ DOMAIN press' = DOMAIN press \cup {Len(press) + 1}
        /\ \A p \in DOMAIN press : press'[p] = press[p] /\ p < Len(press) + 1
        /\ press'[Len(press) + 1] = x
    BY <1>2, <1>3, Appended
  <1>5. PICK n \in Nat : n = Len(press) + 1
    BY <1>3
  <1> QED
    BY <1>1, <1>4, <1>5

LEMMA OneAtATimeStep ==
    ASSUME TypeOK, TypeOK', OneAtATime, calm', Next
    PROVE  OneAtATime'
  <1> DEFINE Unique == \A s \in Screens : \A i, j \in DOMAIN main[s] :
                 main[s][i].do = "clear" /\ main[s][j].do = "clear" => i = j
  <1>0. \A p \in DOMAIN press : press[p].s \in Screens
    BY PressTyped
  <1>1. ASSUME NEW S \in SUBSET Screens, NEW b, b.do # "clear",
               Adds(S, b),
               DOMAIN press' = DOMAIN press,
               \A p \in DOMAIN press : press'[p].s = press[p].s,
               \A p \in DOMAIN press : Working(p)' => Working(p)
        PROVE  OneAtATime'
    <2>1. Unique' /\ \A s \in Screens : Waiting(s, "clear")' <=> Waiting(s, "clear")
      BY <1>1, ClearsKept
    <2> QED
      BY <1>0, <1>1, <2>1 DEF OneAtATime
  <1>2. ASSUME NEW s \in Screens, OpenScreen(s)
        PROVE  OneAtATime'
    <2>1. /\ main' = [main EXCEPT ![s] = Append(@, Snapshot)] /\ press' = press
          /\ Snapshot.do = "snapshot" /\ main \in [Screens -> Seq(Block)]
      BY <1>2 DEF OpenScreen, Snapshot, TypeOK
    <2>2. \A r \in Screens :
              main'[r] = IF r \in {s} THEN Append(main[r], Snapshot) ELSE main[r]
      BY <2>1
    <2> QED
      BY <1>1, <2>1, <2>2 DEF Working, Adds
  <1>3. ASSUME UNCHANGED <<main, press>>
        PROVE  OneAtATime'
    BY <1>3 DEF OneAtATime, Working, Waiting
  <1>4. ASSUME NEW s \in Screens, SendPressed(s)
        PROVE  OneAtATime'
    <2>1. PICK n \in Nat :
              /\ DOMAIN press' = DOMAIN press \cup {n} /\ n \notin DOMAIN press
              /\ \A p \in DOMAIN press : press'[p] = press[p]
              /\ press'[n].at = "pressed" /\ press'[n].s = s
      BY <1>4, Pressing
    <2>2. ~Busy(s) /\ main' = main
      BY <1>4 DEF SendPressed
    <2>3. \A p \in DOMAIN press : Working(p) => press[p].s # s
      BY <2>2 DEF Busy, Working
    <2>4. ~Waiting(s, "clear")
      BY <2>2 DEF Busy, Waiting
    <2>5. \A p \in DOMAIN press : Working(p)' <=> Working(p)
      BY <2>1 DEF Working
    <2>6. Unique' /\ \A r \in Screens : Waiting(r, "clear")' <=> Waiting(r, "clear")
      BY <2>2 DEF OneAtATime, Waiting
    <2> QED
      BY <1>0, <2>1, <2>3, <2>4, <2>5, <2>6 DEF OneAtATime
  <1>5. ASSUME NEW p \in DOMAIN press, SendNext(p) \/ Acked(p)
        PROVE  OneAtATime'
    <2>1. /\ DOMAIN press' = DOMAIN press
          /\ \A q \in DOMAIN press : press'[q].s = press[q].s
          /\ \A q \in DOMAIN press : q # p => press'[q] = press[q]
          /\ Working(p)
      BY <1>5, Moved DEF Working
    <2>2. \A q \in DOMAIN press : Working(q)' => Working(q)
      BY <2>1 DEF Working
    <2>3. CASE UNCHANGED main
      <3>1. PICK S \in SUBSET Screens : S = {}
        OBVIOUS
      <3>2. PICK b : b.do # "clear"
        <4>1. Do("reload").do # "clear"
          BY DEF Do
        <4> QED
          BY <4>1
      <3>3. \A r \in Screens :
               main'[r] = IF r \in S THEN Append(main[r], b) ELSE main[r]
        BY <2>3, <3>1
      <3> QED
        BY <1>1, <2>1, <2>2, <3>2, <3>3 DEF Adds
    <2>4. CASE Add(p) /\ auth # None
      <3>1. Posted([acct |-> auth, press |-> p, keys |-> press[p].keys])
        BY <2>4 DEF Add
      <3>2. \A r \in Screens :
               main'[r] = IF r \in opened \ failed THEN Append(main[r], Snapshot')
                                                  ELSE main[r]
        BY <3>1 DEF Posted
      <3>3. opened \ failed \in SUBSET Screens /\ Snapshot'.do # "clear"
        BY DEF TypeOK, Snapshot
      <3>4. PICK b : b = Snapshot'
        OBVIOUS
      <3> QED
        BY <1>1, <2>1, <2>2, <3>2, <3>3, <3>4 DEF Adds
    <2>5. CASE Acked(p)
      <3> DEFINE s == press[p].s
      <3>1. /\ main' = [main EXCEPT ![s] = Append(@, Do("clear"))]
            /\ press' = [press EXCEPT ![p].at = "done"]
        BY <2>5 DEF Acked
      <3>2. /\ press'[p].at = "done" /\ s \in Screens
            /\ main \in [Screens -> Seq(Block)]
        <4>1. press \in [1..Len(press) -> Press] /\ DOMAIN press = 1..Len(press)
          BY PressTyped
        <4> QED
          BY <1>0, <3>1, <4>1 DEF TypeOK
      <3>3. Adds({s}, Do("clear"))
        BY <3>1, <3>2 DEF Adds
      <3>4. \A r \in Screens :
              /\ \A i \in DOMAIN main[r] :
                    i \in DOMAIN main'[r] /\ main'[r][i] = main[r][i]
              /\ \A i \in DOMAIN main'[r] :
                    \/ i \in DOMAIN main[r]
                    \/ /\ r \in {s} /\ main'[r][i] = Do("clear")
                       /\ \A j \in DOMAIN main[r] : j < i
        BY <3>2, <3>3, BlocksAdded
      <3>5. ~Waiting(s, "clear") /\ ~Working(p)'
        BY <2>1, <3>2 DEF OneAtATime, Working, Over
      <3>6. \A q \in DOMAIN press : Working(q)' => Working(q) /\ press[q].s # s
        BY <2>1, <2>2, <3>5 DEF OneAtATime
      <3>7. \A r \in Screens \ {s} : Waiting(r, "clear")' => Waiting(r, "clear")
        BY <3>4 DEF Waiting
      <3>8. Unique'
        <4> SUFFICES ASSUME NEW r \in Screens, NEW i \in DOMAIN main'[r],
                            NEW j \in DOMAIN main'[r],
                            main'[r][i].do = "clear", main'[r][j].do = "clear"
                     PROVE  i = j
          OBVIOUS
        <4>1. CASE r # s
          BY <3>4, <4>1 DEF OneAtATime
        <4>2. CASE r = s
          <5>1. i \notin DOMAIN main[r] /\ j \notin DOMAIN main[r]
            BY <3>4, <3>5, <4>2 DEF Waiting
          <5>2. main'[s] = Append(main[s], Do("clear")) /\ main[s] \in Seq(Block)
            BY <3>2, <3>3 DEF Adds
          <5> QED
            BY <4>2, <5>1, <5>2
        <4> QED
          BY <4>1, <4>2
      <3> HIDE DEF s
      <3> QED
        BY <1>0, <2>1, <3>6, <3>7, <3>8 DEF OneAtATime
    <2>6. CASE Ask(p) \/ Answered(p) \/ Encrypt(p) \/ (Add(p) /\ auth = None)
      <3>1. UNCHANGED main
        BY <2>6 DEF Ask, Answered, Encrypt, Add
      <3> QED
        BY <2>3, <3>1
    <2> QED
      BY <1>5, <2>4, <2>5, <2>6 DEF SendNext, Unanswered
  <1>6. ASSUME NEW s \in Screens, Run(s)
        PROVE  OneAtATime'
    <2>1. /\ \A r \in Screens : r # s => main'[r] = main[r]
          /\ \A i \in DOMAIN main'[s] :
                \/ i + 1 \in DOMAIN main[s] /\ main'[s][i] = main[s][i + 1]
                \/ main'[s][i] = Do("reload")
      BY <1>6, RunBlocks
    <2>2. press' = press /\ main'[s] \in Seq(Block) /\ Do("reload").do # "clear"
      BY <1>6 DEF Run, TypeOK, Do
    <2>3. \A r \in Screens : Waiting(r, "clear")' => Waiting(r, "clear")
      BY <2>1, <2>2 DEF Waiting
    <2>4. Unique'
      <3> SUFFICES ASSUME NEW r \in Screens, NEW i \in DOMAIN main'[r],
                          NEW j \in DOMAIN main'[r],
                          main'[r][i].do = "clear", main'[r][j].do = "clear"
                   PROVE  i = j
        OBVIOUS
      <3>1. CASE r # s
        BY <2>1, <3>1 DEF OneAtATime
      <3>2. CASE r = s
        <4>1. /\ i + 1 \in DOMAIN main[s] /\ main[s][i + 1].do = "clear"
              /\ j + 1 \in DOMAIN main[s] /\ main[s][j + 1].do = "clear"
          BY <2>1, <2>2, <3>2
        <4>2. i + 1 = j + 1 /\ i \in Nat /\ j \in Nat
          BY <2>2, <3>2, <4>1 DEF OneAtATime
        <4> QED
          BY <4>2
      <3> QED
        BY <3>1, <3>2
    <2> QED
      BY <2>2, <2>3, <2>4, <1>0 DEF OneAtATime, Working
  <1>7. ASSUME NEW s \in Screens, CloseScreen(s) \/ Type(s)
        PROVE  OneAtATime'
    BY <1>3, <1>7 DEF CloseScreen, Type
  <1>8. ASSUME SignOut \/ \E u \in Users : SignIn(u) \/ Befriend(u)
        PROVE  OneAtATime'
    BY <1>3, <1>8 DEF SignOut, SignIn, Befriend
  <1> QED
    BY <1>2, <1>4, <1>5, <1>6, <1>7, <1>8 DEF Next, ListenerFails

-----------------------------------------------------------------------------
(* What becomes of a text.                                                 *)

\* What is sent stays so.
LEMMA SentTextKept ==
    ASSUME TypeOK, Sent, NEW t, SentText(t),
           \A p \in DOMAIN press : p \in DOMAIN press' /\ press'[p].text = press[p].text,
           \A i \in DOMAIN messages : i \in DOMAIN messages' /\ messages'[i] = messages[i]
    PROVE  \E i \in DOMAIN messages' :
              messages'[i].press > 0 /\ press'[messages'[i].press].text = t
  <1>1. PICK i \in DOMAIN messages :
            messages[i].press > 0 /\ press[messages[i].press].text = t
    BY DEF SentText
  <1>2. messages[i].press \in DOMAIN press
    BY <1>1 DEF Sent
  <1> QED
    BY <1>1, <1>2

\* Steps that type nothing, press nothing and clear nothing.
LEMMA FieldsKept ==
    ASSUME TypeOK, TypeOK', Fields, UNCHANGED <<field, lost, typed>>,
           DOMAIN press' = DOMAIN press,
           \A p \in DOMAIN press :
              /\ press'[p].s = press[p].s /\ press'[p].text = press[p].text
              /\ Working(p)' => Working(p)
              /\ press'[p].at # "dropped"
              /\ press'[p].at = "sent" =>
                    \E i \in DOMAIN messages' : messages'[i].press = p,
           \A s \in Screens :
              /\ Busy(s) => Busy(s)'
              /\ Waiting(s, "clear")' =>
                    field[s] = 0 \/ SentText(field[s])'
    PROVE  Fields'
  <1>1. \A p \in DOMAIN press : press[p].s \in Screens
    BY PressTyped
  <1>2. ASSUME NEW p \in DOMAIN press
        PROVE  Texted(p)'
    BY <1>2 DEF Fields, Texted
  <1>3. (\A s \in Screens : Waiting(s, "clear") => field[s] = 0 \/ SentText(field[s]))'
    BY DEF SentText
  <1> QED
    BY <1>2, <1>3 DEF Fields

LEMMA FieldsStep ==
    ASSUME TypeOK, TypeOK', Authors, Sent, OneAtATime, Fields, calm', Next
    PROVE  Fields'
  <1>0. /\ press \in [1..Len(press) -> Press] /\ DOMAIN press = 1..Len(press)
        /\ \A p \in DOMAIN press : press[p].s \in Screens /\ p > 0
        /\ Len(press) \in Nat
    BY PressTyped
  <1>1. /\ field \in [Screens -> Nat] /\ typed \in Nat
        /\ \A s \in Screens : field[s] \in Nat
        /\ main \in [Screens -> Seq(Block)]
    BY DEF TypeOK
  <1>2. \A s \in Screens : Busy(s) <=> \/ Waiting(s, "clear")
                                       \/ \E p \in DOMAIN press :
                                             press[p].s = s /\ Working(p)
    BY DEF Busy, Waiting, Working
  <1>3. \A s \in Screens : Busy(s)' <=> \/ Waiting(s, "clear")'
                                        \/ \E p \in DOMAIN press' :
                                              press'[p].s = s /\ Working(p)'
    BY DEF Busy, Waiting, Working
  <1>4. ASSUME UNCHANGED <<field, lost, typed, press, messages>>,
               \A s \in Screens : Waiting(s, "clear")' <=> Waiting(s, "clear")
        PROVE  Fields'
    <2>1. \A s \in Screens : Busy(s) => Busy(s)'
      BY <1>2, <1>3, <1>4 DEF Working
    <2>2. \A s \in Screens : Waiting(s, "clear")' => field[s] = 0 \/ SentText(field[s])'
      BY <1>4 DEF Fields, SentText
    <2>3. \A p \in DOMAIN press :
              /\ Working(p)' => Working(p)
              /\ press'[p].at # "dropped"
              /\ press'[p].at = "sent" =>
                    \E i \in DOMAIN messages' : messages'[i].press = p
      BY <1>4 DEF Fields, Texted, Working
    <2> QED
      BY <1>4, <2>1, <2>2, <2>3, FieldsKept
  <1>5. ASSUME NEW s \in Screens, OpenScreen(s)
        PROVE  Fields'
    <2>1. /\ main' = [main EXCEPT ![s] = Append(@, Snapshot)]
          /\ Snapshot.do # "clear"
          /\ UNCHANGED <<field, lost, typed, press, messages>>
      BY <1>5 DEF OpenScreen, Snapshot, history
    <2>2. PICK S \in SUBSET Screens : S = {s}
      OBVIOUS
    <2>3. PICK b : b = Snapshot
      OBVIOUS
    <2>4. Adds(S, b)
      BY <1>1, <2>1, <2>2, <2>3 DEF Adds
    <2>5. \A r \in Screens : Waiting(r, "clear")' <=> Waiting(r, "clear")
      BY <2>1, <2>3, <2>4, ClearsKept
    <2> QED
      BY <1>4, <2>1, <2>5
  <1>6. ASSUME UNCHANGED <<field, lost, typed, press, messages, main>>
        PROVE  Fields'
    BY <1>4, <1>6 DEF Waiting
  <1>7. ASSUME NEW s \in Screens, CloseScreen(s)
        PROVE  Fields'
    BY <1>6, <1>7 DEF CloseScreen, history
  <1>8. ASSUME SignOut \/ \E u \in Users : SignIn(u) \/ Befriend(u)
        PROVE  Fields'
    BY <1>6, <1>8 DEF SignOut, SignIn, Befriend, history
  <1>9. ASSUME NEW s \in Screens, Type(s)
        PROVE  Fields'
    <2>1. /\ ~Busy(s) /\ typed' = typed + 1
          /\ field' = [field EXCEPT ![s] = typed + 1]
          /\ UNCHANGED <<messages, main, press, lost>>
      BY <1>9 DEF Type
    <2>2. /\ field'[s] = typed + 1
          /\ \A r \in Screens \ {s} : field'[r] = field[r]
      BY <1>1, <2>1
    <2>3. \A r \in Screens : field[r] <= typed
      BY DEF Fields
    <2>4. (\A r \in Screens : field[r] <= typed)'
      BY <1>1, <2>1, <2>2, <2>3
    <2>5. (\A q, r \in Screens : field[q] = field[r] /\ field[q] > 0 => q = r)'
      <3> SUFFICES ASSUME NEW q \in Screens, NEW r \in Screens,
                          field'[q] = field'[r], field'[q] > 0
                   PROVE  q = r
        OBVIOUS
      <3>1. field[q] # typed + 1 /\ field[r] # typed + 1
        BY <1>1, <2>3
      <3> QED
        BY <2>2, <3>1 DEF Fields
    <2>6. \A r \in Screens : Waiting(r, "clear")' => r # s /\ Waiting(r, "clear")
      BY <1>2, <2>1 DEF Waiting
    <2>7. (\A r \in Screens : Waiting(r, "clear") => field[r] = 0 \/ SentText(field[r]))'
      BY <2>1, <2>2, <2>6 DEF Fields, SentText
    <2>8. ASSUME NEW p \in DOMAIN press
          PROVE  Texted(p)'
      <3>1. Texted(p) /\ press[p].text \in Nat
        BY <1>0 DEF Fields, Press
      <3>2. press[p].text <= typed + 1 /\ press[p].text # typed + 1
        BY <1>1, <3>1 DEF Texted
      <3>3. Working(p) => press[p].s # s
        BY <1>2, <2>1
      <3>4. \A r \in Screens : Busy(r) => Busy(r)'
        BY <1>2, <1>3, <2>1 DEF Working, Waiting
      <3> QED
        BY <1>0, <2>1, <2>2, <3>1, <3>2, <3>3, <3>4 DEF Texted, Working
    <2> QED
      BY <2>1, <2>4, <2>5, <2>7, <2>8 DEF Fields
  <1>10. ASSUME NEW s \in Screens, SendPressed(s)
         PROVE  Fields'
    <2>1. PICK n \in Nat :
              /\ DOMAIN press' = DOMAIN press \cup {n} /\ n \notin DOMAIN press
              /\ \A p \in DOMAIN press : press'[p] = press[p]
              /\ press'[n].at = "pressed" /\ press'[n].s = s
              /\ press'[n].text = field[s]
      BY <1>10, Pressing
    <2>2. /\ ~Busy(s)
          /\ UNCHANGED <<messages, main, field, typed, lost>>
      BY <1>10 DEF SendPressed
    <2>3. \A r \in Screens : Busy(r) => Busy(r)'
      BY <1>2, <1>3, <2>1, <2>2 DEF Waiting, Working
    <2>4. \A p \in DOMAIN press : press[p].text # field[s] \/ field[s] = 0
      BY <1>1, <2>2 DEF Fields, Texted
    <2>5. ASSUME NEW p \in DOMAIN press
          PROVE  Texted(p)'
      <3>1. Texted(p) /\ press'[p] = press[p]
        BY <2>1 DEF Fields
      <3> QED
        BY <2>2, <2>3, <3>1 DEF Texted, Working
    <2>6. Busy(s)'
      BY <1>3, <2>1 DEF Working, Over
    <2>7. ASSUME NEW p \in {n}
          PROVE  Texted(p)'
      <3>1. field[s] <= typed
        BY DEF Fields
      <3>2. \A r \in Screens : field[s] = field[r] /\ field[r] > 0 => s = r
        BY DEF Fields
      <3> QED
        BY <2>1, <2>2, <2>6, <2>7, <3>1, <3>2 DEF Texted
    <2>8. \A r \in Screens : Waiting(r, "clear")' => field[r] = 0 \/ SentText(field[r])'
      <3> SUFFICES ASSUME NEW r \in Screens, Waiting(r, "clear")', field[r] # 0
                   PROVE  SentText(field[r])'
        OBVIOUS
      <3>1. PICK t : t = field[r]
        OBVIOUS
      <3>2. SentText(t)
        BY <2>2, <3>1 DEF Fields, Waiting
      <3>3. \E i \in DOMAIN messages' :
              messages'[i].press > 0 /\ press'[messages'[i].press].text = t
        BY <2>1, <2>2, <3>2, SentTextKept
      <3> QED
        BY <2>2, <3>1, <3>3 DEF SentText
    <2>9. (\A p, q \in DOMAIN press :
              press[p].text = press[q].text /\ press[p].text > 0 => p = q)'
      BY <2>1, <2>4 DEF Fields
    <2>10. (\A r \in Screens : Waiting(r, "clear") => field[r] = 0 \/ SentText(field[r]))'
      BY <2>2, <2>8 DEF SentText
    <2> QED
      BY <2>1, <2>2, <2>5, <2>7, <2>9, <2>10 DEF Fields
  <1>11. ASSUME NEW p \in DOMAIN press, SendNext(p) \/ Acked(p)
         PROVE  Fields'
    <2>1. /\ DOMAIN press' = DOMAIN press
          /\ \A q \in DOMAIN press : q # p => press'[q] = press[q]
          /\ \A q \in DOMAIN press :
                press'[q].s = press[q].s /\ press'[q].text = press[q].text
          /\ press[p].at \notin Over
      BY <1>11, Moved
    <2>2. Working(p) /\ \A q \in DOMAIN press : Working(q)' => Working(q)
      BY <2>1 DEF Working
    <2>3. UNCHANGED <<field, lost, typed>>
      BY <1>11 DEF SendNext, Ask, Answered, Unanswered, Encrypt, Add, Acked, history
    <2>4. \A i \in DOMAIN messages : i \in DOMAIN messages' /\ messages'[i] = messages[i]
      <3>1. messages \in Seq(Message)
        BY DEF TypeOK
      <3>2. messages' = messages \/ \E m : messages' = Append(messages, m)
        BY <1>11 DEF SendNext, Ask, Answered, Unanswered, Encrypt, Add, Acked, Posted
      <3> QED
        BY <3>1, <3>2
    <2>5. ASSUME NEW t, SentText(t)
          PROVE  \E i \in DOMAIN messages' :
                    messages'[i].press > 0 /\ press'[messages'[i].press].text = t
      BY <2>1, <2>4, <2>5, SentTextKept
    <2>6. ASSUME press'[p].at \notin Over \cup {"sent"},
                 UNCHANGED main
          PROVE  Fields'
      <3>1. \A s \in Screens : Busy(s) => Busy(s)'
        BY <1>2, <1>3, <2>1, <2>6 DEF Working, Waiting
      <3>2. \A s \in Screens :
               Waiting(s, "clear")' => field[s] = 0 \/ SentText(field[s])'
        BY <2>3, <2>5, <2>6 DEF Fields, Waiting, SentText
      <3>3. \A q \in DOMAIN press :
              /\ press'[q].at # "dropped"
              /\ press'[q].at = "sent" =>
                    \E i \in DOMAIN messages' : messages'[i].press = q
        BY <2>1, <2>4, <2>6 DEF Fields, Texted, Over
      <3> QED
        BY <2>1, <2>2, <2>3, <3>1, <3>2, <3>3, FieldsKept
    <2>7. CASE Add(p)
      <3> DEFINE m == [acct |-> auth, press |-> p, keys |-> press[p].keys]
      <3>0. auth # None
        BY <1>0, <2>2 DEF Authors, Authored, Press
      <3>1. press' = [press EXCEPT ![p].at = "sent"] /\ Posted(m)
        BY <2>7, <3>0 DEF Add
      <3>2. press'[p].at = "sent" /\ m.press = p
        BY <1>0, <3>1
      <3>3. PICK b : b = Snapshot'
        OBVIOUS
      <3>4. PICK S \in SUBSET Screens : S = opened \ failed
        BY DEF TypeOK
      <3>5. Adds(S, b)
        BY <3>1, <3>3, <3>4 DEF Posted, Adds
      <3>6. b.do # "clear"
        BY <3>3 DEF Snapshot
      <3>7. \A r \in Screens : Waiting(r, "clear")' <=> Waiting(r, "clear")
        BY <3>5, <3>6, ClearsKept
      <3>8. \A s \in Screens : Busy(s) => Busy(s)'
        BY <1>2, <1>3, <2>1, <3>2, <3>7 DEF Working, Over
      <3>9. \A s \in Screens :
               Waiting(s, "clear")' => field[s] = 0 \/ SentText(field[s])'
        BY <2>3, <2>5, <3>7 DEF Fields, SentText
      <3>10. \E i \in DOMAIN messages' : messages'[i].press = p
        <4>1. messages' = Append(messages, m) /\ messages \in Seq(Message)
          BY <3>1 DEF Posted, TypeOK
        <4>2. Len(messages) + 1 \in DOMAIN messages' /\ messages'[Len(messages) + 1] = m
          BY <4>1
        <4> QED
          BY <3>2, <4>2
      <3>11. \A q \in DOMAIN press :
              /\ press'[q].at # "dropped"
              /\ press'[q].at = "sent" =>
                    \E i \in DOMAIN messages' : messages'[i].press = q
        BY <2>1, <2>4, <3>2, <3>10 DEF Fields, Texted
      <3> QED
        BY <2>1, <2>2, <2>3, <3>8, <3>9, <3>11, FieldsKept
    <2>8. CASE Acked(p)
      <3>1. PICK s \in Screens : s = press[p].s
        BY <1>0
      <3>2. /\ press' = [press EXCEPT ![p].at = "done"] /\ press[p].at = "sent"
            /\ main' = [main EXCEPT ![s] = Append(@, Do("clear"))]
            /\ messages' = messages
        BY <2>8, <3>1 DEF Acked
      <3>3. press'[p].at = "done"
        BY <1>0, <3>2
      <3>4. main[s] \in Seq(Block) /\ main'[s] = Append(main[s], Do("clear"))
        BY <1>1, <3>2
      <3>5. \A r \in Screens : r # s => main'[r] = main[r]
        BY <1>1, <3>2
      <3>6. /\ DOMAIN Append(main[s], Do("clear")) = DOMAIN main[s] \cup {Len(main[s]) + 1}
            /\ Append(main[s], Do("clear"))[Len(main[s]) + 1] = Do("clear")
        BY <3>4, Appended
      <3>7. Waiting(s, "clear")'
        BY <3>4, <3>6 DEF Waiting, Do
      <3>8. \A r \in Screens : r # s => (Waiting(r, "clear")' <=> Waiting(r, "clear"))
        BY <3>5 DEF Waiting
      <3>9. \A r \in Screens : Busy(r) => Busy(r)'
        BY <1>2, <1>3, <2>1, <3>1, <3>7, <3>8 DEF Working
      <3>10. field[s] = press[p].text
        BY <2>2, <3>1 DEF Fields, Texted
      <3>11. \E i \in DOMAIN messages : messages[i].press = p
        BY <3>2 DEF Fields, Texted
      <3>12. SentText(field[s])
        BY <1>0, <3>10, <3>11 DEF SentText
      <3>13. \A r \in Screens :
               Waiting(r, "clear")' => field[r] = 0 \/ SentText(field[r])'
        BY <2>3, <2>5, <3>8, <3>12 DEF Fields, SentText
      <3>14. \A q \in DOMAIN press :
              /\ press'[q].at # "dropped"
              /\ press'[q].at = "sent" =>
                    \E i \in DOMAIN messages' : messages'[i].press = q
        BY <2>1, <3>2, <3>3 DEF Fields, Texted
      <3> QED
        BY <2>1, <2>2, <2>3, <3>9, <3>13, <3>14, FieldsKept
    <2>9. CASE Ask(p) \/ Answered(p) \/ Encrypt(p)
      <3>1. PICK a \in {"asked", "answered", "encrypted"} : press'[p].at = a
        <4>1. ASSUME NEW x, press' = [press EXCEPT ![p] = x]
              PROVE  press'[p] = x
          BY <1>0, <4>1
        <4>2. CASE Ask(p)
          BY <4>1, <4>2 DEF Ask
        <4>3. CASE Answered(p)
          BY <1>0, <4>3 DEF Answered
        <4>4. CASE Encrypt(p)
          BY <1>0, <4>4 DEF Encrypt
        <4> QED
          BY <2>9, <4>2, <4>3, <4>4
      <3>2. UNCHANGED main
        BY <2>9 DEF Ask, Answered, Encrypt
      <3> QED
        BY <2>6, <3>1, <3>2 DEF Over
    <2> QED
      BY <1>11, <2>7, <2>8, <2>9 DEF SendNext, Unanswered
  <1>12. ASSUME NEW s \in Screens, Run(s)
         PROVE  Fields'
    <2>1. /\ \A r \in Screens : r # s => main'[r] = main[r]
          /\ 1 \in DOMAIN main[s] /\ Head(main[s]) = main[s][1]
          /\ \A i \in DOMAIN main[s] : i > 1 =>
                i - 1 \in DOMAIN main'[s] /\ main'[s][i - 1] = main[s][i]
          /\ \A i \in DOMAIN main'[s] :
                \/ i + 1 \in DOMAIN main[s] /\ main'[s][i] = main[s][i + 1]
                \/ main'[s][i] = Do("reload")
      BY <1>12, RunBlocks
    <2>2. UNCHANGED <<messages, press, typed>> /\ Do("reload").do # "clear"
      BY <1>12 DEF Run, Do
    <2>3. DOMAIN main[s] = 1..Len(main[s]) /\ Len(main[s]) \in Nat
      BY <1>1
    <2>4. \A r \in Screens : Waiting(r, "clear")' => Waiting(r, "clear")
      BY <2>1, <2>2 DEF Waiting
    <2>5. CASE main[s][1].do # "clear"
      <3>1. Waiting(s, "clear") => Waiting(s, "clear")'
        BY <2>1, <2>3, <2>5 DEF Waiting
      <3>2. \A r \in Screens : Waiting(r, "clear")' <=> Waiting(r, "clear")
        BY <2>1, <2>4, <3>1 DEF Waiting
      <3>3. UNCHANGED <<field, lost>>
        BY <1>12, <2>1, <2>5 DEF Run, Filled, Emptied, Reloaded, Cleared
      <3> QED
        BY <1>4, <2>2, <3>2, <3>3
    <2>6. CASE main[s][1].do = "clear"
      <3>1. Cleared(s)
        BY <1>12, <2>1, <2>6 DEF Run
      <3>2. Waiting(s, "clear")
        BY <2>1, <2>6 DEF Waiting
      <3>3. /\ field'[s] = 0 /\ \A r \in Screens \ {s} : field'[r] = field[r]
            /\ lost' = lost
        BY <1>1, <3>1, <3>2 DEF Cleared, Fields
      <3>4. \A q \in DOMAIN press : press[q].s = s => ~Working(q)
        BY <3>2 DEF OneAtATime
      <3>5. \A r \in Screens \ {s} : Busy(r) => Busy(r)'
        BY <1>2, <1>3, <2>1, <2>2 DEF Working, Waiting
      <3>6. ASSUME NEW q \in DOMAIN press
            PROVE  Texted(q)'
        <4>1. Texted(q)
          BY DEF Fields
        <4>2. Working(q) => press[q].text = field'[press[q].s]
          BY <1>0, <3>3, <3>4, <4>1 DEF Texted
        <4>3. ASSUME NEW r \in Screens, press[q].text = field'[r], field'[r] > 0
              PROVE  press[q].s = r /\ Busy(r)'
          <5>1. r # s
            BY <3>3, <4>3
          <5> QED
            BY <3>3, <3>5, <4>1, <4>3, <5>1 DEF Texted
        <4> QED
          BY <2>2, <4>1, <4>2, <4>3 DEF Texted, Working
      <3>7. (\A r \in Screens : Waiting(r, "clear") => field[r] = 0 \/ SentText(field[r]))'
        BY <2>2, <2>4, <3>3 DEF Fields, SentText
      <3>8. (\A r \in Screens : field[r] <= typed)'
        BY <1>1, <2>2, <3>3 DEF Fields
      <3>9. (\A q, r \in Screens : field[q] = field[r] /\ field[q] > 0 => q = r)'
        <4> SUFFICES ASSUME NEW q \in Screens, NEW r \in Screens,
                            field'[q] = field'[r], field'[q] > 0
                     PROVE  q = r
          OBVIOUS
        <4>1. q # s /\ r # s
          BY <3>3
        <4>2. field[q] = field[r] /\ field[q] > 0
          BY <3>3, <4>1
        <4> QED
          BY <4>2 DEF Fields
      <3> QED
        BY <2>2, <3>3, <3>6, <3>7, <3>8, <3>9 DEF Fields
    <2> QED
      BY <2>5, <2>6
  <1> QED
    BY <1>5, <1>7, <1>8, <1>9, <1>10, <1>11, <1>12 DEF Next, ListenerFails

-----------------------------------------------------------------------------
(* The table.                                                              *)

\* The more messages one looks at, the more are the account's.
LEMMA CountGrows ==
    ASSUME NEW ms, NEW a, NEW n \in Nat, NEW m \in Nat, n <= m
    PROVE  Count(ms, a, n) <= Count(ms, a, m)
  <1>1. IsFiniteSet(Those(ms, a, m))
    BY CountTyped
  <1>2. Those(ms, a, n) \subseteq Those(ms, a, m)
    BY DEF Those
  <1> QED
    BY <1>1, <1>2, FS_Subset DEF Count

\* Messages that come later do not change what the first n are.
LEMMA MineKept ==
    ASSUME auth' = auth, NEW n \in Nat,
           \A i \in 1..n : messages'[i] = messages[i]
    PROVE  Mine(n)' = Mine(n)
  <1>1. {i \in 1..n : messages'[i].acct = auth'} = {i \in 1..n : messages[i].acct = auth}
    OBVIOUS
  <1> QED
    BY <1>1 DEF Mine

\* Steps that add a snapshot of all there is, or a clearing, and touch no list.
LEMMA RowsKept ==
    ASSUME TypeOK, TypeOK', Rows, NEW S \in SUBSET Screens, NEW b,
           Adds(S, b),
           b.do \in {"snapshot", "clear"}, b.do = "snapshot" => b.n = Len(messages'),
           auth' = auth, S # {} => auth # None, S \cup opened \subseteq opened',
           \A i \in DOMAIN messages : i \in DOMAIN messages' /\ messages'[i] = messages[i],
           \A s \in shown' : s \in shown \/ s \notin opened,
           UNCHANGED <<count, rows, trapped>>
    PROVE  Rows'
  <1> SUFFICES ASSUME NEW s \in Screens PROVE InStep(s)' /\ Growing(s)'
    BY DEF Rows
  <1>1. /\ \A i \in DOMAIN main[s] :
              i \in DOMAIN main'[s] /\ main'[s][i] = main[s][i]
        /\ \A i \in DOMAIN main'[s] :
              \/ i \in DOMAIN main[s]
              \/ /\ s \in S /\ main'[s][i] = b
                 /\ \A j \in DOMAIN main[s] : j < i
    <2>1. \A r \in Screens :
              /\ \A i \in DOMAIN main[r] :
                    i \in DOMAIN main'[r] /\ main'[r][i] = main[r][i]
              /\ \A i \in DOMAIN main'[r] :
                    \/ i \in DOMAIN main[r]
                    \/ /\ r \in S /\ main'[r][i] = b
                       /\ \A j \in DOMAIN main[r] : j < i
      BY BlocksAdded
    <2> QED
      BY <2>1
  <1>2. InStep(s) /\ Growing(s)
    BY DEF Rows
  <1>3. /\ messages \in Seq(Message) /\ messages' \in Seq(Message)
        /\ main[s] \in Seq(Block) /\ main'[s] \in Seq(Block)
        /\ count[s] \in Nat
    BY DEF TypeOK
  <1>4. PICK n \in Nat : n = Len(messages)
    BY <1>3
  <1>5. PICK m \in Nat : m = Len(messages')
    BY <1>3
  <1>6. DOMAIN messages = 1..n /\ DOMAIN messages' = 1..m
    BY <1>3, <1>4, <1>5
  <1>7. n <= m
    <2>1. CASE n = 0
      BY <2>1
    <2>2. CASE n > 0
      <3>1. n \in 1..n
        BY <2>2
      <3>2. n \in 1..m
        BY <1>6, <3>1
      <3> QED
        BY <3>2
    <2> QED
      BY <2>1, <2>2
  <1>8. ASSUME NEW k \in Nat, k <= n
        PROVE  /\ Mine(k) \in Nat /\ Mine(k)' = Mine(k)
               /\ Mine(m)' \in Nat /\ Mine(k)' <= Mine(m)'
    <2>1. \A i \in 1..k : messages'[i] = messages[i]
      BY <1>6, <1>8
    <2>2. Mine(k)' = Mine(k)
      BY <2>1, MineKept
    <2>3. Mine(m)' = Count(messages', auth', m) /\ Mine(k)' = Count(messages', auth', k)
      BY DEF Mine, Count, Those
    <2>4. k <= m
      BY <1>7, <1>8
    <2>5. Mine(k)' <= Mine(m)'
      BY <2>3, <2>4, CountGrows
    <2>6. Mine(m)' \in Nat /\ Mine(k) \in Nat
      BY <2>3, CountTyped, MineTyped
    <2> QED
      BY <2>2, <2>5, <2>6
  <1>9. Waiting(s, "reload")' <=> Waiting(s, "reload")
    BY <1>1 DEF Waiting
  <1>10. Watched(s)' => Watched(s) \/ count[s] = 0
    BY <1>2, <1>9 DEF Watched, InStep
  <1>11. Watched(s)' => count[s] <= Mine(m)'
    <2>1. Watched(s) => count[s] <= Mine(n)
      BY <1>2, <1>4 DEF InStep
    <2> QED
      BY <1>3, <1>8, <1>10, <2>1
  <1>12. InStep(s)'
    <2>1. auth' = None \/ s \notin opened' => main'[s] = <<>>
      BY <1>2 DEF InStep, Adds
    <2>2. Watched(s)' => count'[s] <= Mine(Len(messages))'
      BY <1>5, <1>11
    <2> QED
      BY <1>2, <1>9, <2>1, <2>2 DEF InStep
  <1>13. ASSUME NEW i \in DOMAIN main'[s]
         PROVE  /\ main'[s][i].do # "error"
                /\ main'[s][i].do = "snapshot" =>
                      /\ main'[s][i].n <= m
                      /\ \A k \in Nat : k = main'[s][i].n =>
                            (Watched(s)' => count[s] <= Mine(k)')
                      /\ \A j \in DOMAIN main'[s] :
                            i < j /\ main'[s][j].do = "snapshot"
                            => main'[s][i].n <= main'[s][j].n
    <2>1. main'[s][i] \in Block /\ i \in Nat
      BY <1>3
    <2>2. CASE i \in DOMAIN main[s]
      <3>1. /\ main'[s][i] = main[s][i] /\ main[s][i].do # "error"
            /\ main[s][i].do = "snapshot" =>
                  /\ main[s][i].n <= n
                  /\ Watched(s) => count[s] <= Mine(main[s][i].n)
        BY <1>1, <1>2, <1>4, <2>2 DEF Growing
      <3>2. PICK k \in Nat : k = main[s][i].n
        BY <2>1, <3>1 DEF Block
      <3>3. ASSUME k <= n, Watched(s) => count[s] <= Mine(k), Watched(s)'
            PROVE  count[s] <= Mine(k)'
        BY <1>3, <1>8, <1>10, <3>3
      <3>4. ASSUME NEW j \in DOMAIN main'[s], i < j, main'[s][j].do = "snapshot",
                   main'[s][i].do = "snapshot"
            PROVE  main'[s][i].n <= main'[s][j].n
        <4>1. CASE j \in DOMAIN main[s]
          BY <1>1, <1>2, <2>2, <3>1, <3>4, <4>1 DEF Growing
        <4>2. CASE j \notin DOMAIN main[s]
          <5>1. main'[s][j] = b /\ b.n = m
            BY <1>1, <1>5, <3>4, <4>2
          <5> QED
            BY <1>7, <3>1, <3>2, <3>4, <5>1
        <4> QED
          BY <4>1, <4>2
      <3> QED
        BY <1>7, <3>1, <3>2, <3>3, <3>4
    <2>3. CASE i \notin DOMAIN main[s]
      <3>1. main'[s][i] = b /\ \A j \in DOMAIN main[s] : j < i
        BY <1>1, <2>3
      <3>2. b.do = "snapshot" => b.n = m
        BY <1>5
      <3>3. ASSUME NEW j \in DOMAIN main'[s], i < j
            PROVE  main'[s][j] = b
        <4>1. j \notin DOMAIN main[s]
          BY <1>3, <2>1, <3>1, <3>3
        <4> QED
          BY <1>1, <4>1
      <3> QED
        BY <1>11, <3>1, <3>2, <3>3
    <2> QED
      BY <2>2, <2>3
  <1>14. Growing(s)'
    <2>1. \A i \in DOMAIN main'[s] : main'[s][i].n \in Nat
      <3> TAKE i \in DOMAIN main'[s]
      <3>1. main'[s][i] \in Block
        BY <1>3
      <3> QED
        BY <3>1 DEF Block
    <2> QED
      BY <1>5, <1>13, <2>1 DEF Growing, Mine
  <1> QED
    BY <1>12, <1>14

\* The block at the front has run on a screen.
LEMMA RunInStep ==
    ASSUME TypeOK, TypeOK', Rows, NEW s \in Screens, Run(s)
    PROVE  InStep(s)' /\ Growing(s)' /\ ~trapped'
  <1>1. /\ 1 \in DOMAIN main[s] /\ Head(main[s]) = main[s][1]
        /\ \A i \in DOMAIN main[s] : i > 1 =>
              i - 1 \in DOMAIN main'[s] /\ main'[s][i - 1] = main[s][i]
        /\ \A i \in DOMAIN main'[s] :
              \/ i + 1 \in DOMAIN main[s] /\ main'[s][i] = main[s][i + 1]
              \/ /\ i = Len(main[s]) /\ main'[s][i] = Do("reload")
                 /\ main[s][1].do = "snapshot" /\ Mine(main[s][1].n) > 0
    BY RunBlocks
  <1>2. /\ ~trapped /\ InStep(s) /\ Growing(s)
    BY DEF Rows
  <1>3. /\ UNCHANGED <<auth, messages, shown, opened>>
        /\ auth # None /\ s \in opened
    <2>1. UNCHANGED <<auth, messages, shown, opened>> /\ main[s] # <<>>
      BY DEF Run, session, screens
    <2> QED
      BY <1>2, <2>1 DEF InStep
  <1>4. /\ main[s] \in Seq(Block) /\ main'[s] \in Seq(Block)
        /\ count \in [Screens -> Nat] /\ rows \in [Screens -> Nat]
        /\ \A i \in DOMAIN main[s] : main[s][i] \in Block /\ i \in Nat
        /\ \A i \in DOMAIN main'[s] : main'[s][i] \in Block /\ i \in Nat
    <2>1. main[s] \in Seq(Block) /\ main'[s] \in Seq(Block)
      BY DEF TypeOK
    <2>2. \A i \in DOMAIN main[s] : main[s][i] \in Block /\ i \in Nat
      BY <2>1
    <2>3. \A i \in DOMAIN main'[s] : main'[s][i] \in Block /\ i \in Nat
      BY <2>1
    <2> QED
      BY <2>1, <2>2, <2>3 DEF TypeOK
  <1>5. \A i \in DOMAIN main[s] : main[s][i].n \in Nat
    BY <1>4 DEF Block
  <1>6. \A k \in Nat : Mine(k) \in Nat /\ Mine(k)' = Mine(k)
    BY <1>3, MineTyped DEF Mine
  <1>7. \A k, m \in Nat : k <= m => Mine(k) <= Mine(m)
    <2>1. \A k : Mine(k) = Count(messages, auth, k)
      BY DEF Mine, Count, Those
    <2> QED
      BY <2>1, CountGrows
  <1>8. Mine(Len(messages))' = Mine(Len(messages))
    BY <1>3 DEF Mine
  <1>9. Do("reload").do = "reload"
    BY DEF Do
  \* The blocks that are left are in the order they were.
  <1>10. ASSUME NEW i \in DOMAIN main'[s], main'[s][i].do = "snapshot"
         PROVE  /\ i + 1 \in DOMAIN main[s] /\ main'[s][i] = main[s][i + 1]
                /\ main'[s][i].n <= Len(messages) /\ main'[s][i].n \in Nat
                /\ \A j \in DOMAIN main'[s] :
                      i < j /\ main'[s][j].do = "snapshot"
                      => main'[s][i].n <= main'[s][j].n
    <2>1. i + 1 \in DOMAIN main[s] /\ main'[s][i] = main[s][i + 1]
      BY <1>1, <1>9, <1>10
    <2>2. ASSUME NEW j \in DOMAIN main'[s], i < j, main'[s][j].do = "snapshot"
          PROVE  main'[s][i].n <= main'[s][j].n
      <3>1. j + 1 \in DOMAIN main[s] /\ main'[s][j] = main[s][j + 1]
        BY <1>1, <1>9, <2>2
      <3>2. i + 1 < j + 1
        BY <1>4, <2>2
      <3> QED
        BY <1>2, <1>10, <2>1, <2>2, <3>1, <3>2 DEF Growing
    <2> QED
      BY <1>2, <1>5, <1>10, <2>1, <2>2 DEF Growing
  <1>11. \A i \in DOMAIN main'[s] : main'[s][i].do # "error"
    BY <1>1, <1>2, <1>9 DEF Growing
  <1>12. CASE main[s][1].do = "snapshot"
    <2>1. PICK n \in Nat : n = main[s][1].n
      BY <1>1, <1>5
    <2>2. /\ count' = [count EXCEPT ![s] = Mine(n)]
          /\ UNCHANGED <<rows, trapped>>
      BY <1>1, <1>12, <2>1 DEF Run, Filled
    <2>3. count'[s] = Mine(n)
      BY <1>4, <2>2
    <2>4. /\ n <= Len(messages)
          /\ Watched(s) => count[s] <= Mine(n)
          /\ \A j \in DOMAIN main[s] : 1 < j /\ main[s][j].do = "snapshot"
                                       => n <= main[s][j].n
      BY <1>1, <1>2, <1>12, <2>1 DEF Growing
    <2>5. Waiting(s, "reload")' => Mine(n) > 0
      <3>1. Waiting(s, "reload")' => Waiting(s, "reload") \/ Mine(n) > 0
        BY <1>1, <2>1 DEF Waiting
      <3>2. Waiting(s, "reload") => count[s] > 0 /\ Watched(s)
        BY <1>2 DEF InStep, Watched
      <3> QED
        BY <1>4, <1>6, <2>4, <3>1, <3>2
    <2>6. Mine(n) <= Mine(Len(messages))
      <3>1. Len(messages) \in Nat
        BY DEF TypeOK
      <3> QED
        BY <1>7, <2>4, <3>1
    <2>7. s \in shown => rows[s] <= Mine(n)
      BY <1>2, <1>4, <1>6, <2>4 DEF InStep, Watched
    <2>8. InStep(s)'
      BY <1>3, <1>8, <2>2, <2>3, <2>5, <2>6, <2>7 DEF InStep
    <2>9. ASSUME NEW i \in DOMAIN main'[s], main'[s][i].do = "snapshot"
          PROVE  \A k \in Nat : k = main'[s][i].n => count'[s] <= Mine(k)'
      <3>1. i + 1 \in DOMAIN main[s] /\ main'[s][i] = main[s][i + 1] /\ 1 < i + 1
        BY <1>1, <1>4, <1>10, <2>9
      <3>2. n <= main'[s][i].n
        BY <2>4, <2>9, <3>1
      <3> QED
        BY <1>6, <1>7, <2>3, <3>2
    <2>10. Growing(s)'
      BY <1>3, <1>10, <1>11, <2>9 DEF Growing, Mine
    <2> QED
      BY <1>2, <2>2, <2>8, <2>10
  <1>13. CASE main[s][1].do \in {"reload", "clear"}
    <2>1. /\ count' = count
          /\ \/ UNCHANGED <<rows, trapped>>
             \/ /\ Waiting(s, "reload")
                /\ rows' = [rows EXCEPT ![s] = count[s]]
                /\ trapped' = (count[s] = 0)
      <3>1. CASE Reloaded(s) /\ main[s][1].do = "reload"
        BY <1>1, <3>1 DEF Reloaded, Waiting
      <3>2. CASE Cleared(s)
        BY <3>2 DEF Cleared
      <3> QED
        BY <1>1, <1>13, <3>1, <3>2 DEF Run
    <2>2. Waiting(s, "reload")' => Waiting(s, "reload")
      BY <1>1, <1>13 DEF Waiting
    <2>3. Watched(s)' => Watched(s)
      BY <1>3, <2>2 DEF Watched
    <2>4. count[s] \in Nat /\ (Waiting(s, "reload") => count[s] > 0)
      BY <1>2, <1>4 DEF InStep
    <2>5. ~trapped'
      <3>1. CASE UNCHANGED trapped
        BY <1>2, <3>1
      <3>2. CASE Waiting(s, "reload") /\ trapped' = (count[s] = 0)
        <4>1. count[s] # 0
          BY <2>4, <3>2
        <4> QED
          BY <3>2, <4>1, Zenon
      <3> QED
        BY <2>1, <3>1, <3>2
    <2>6. rows'[s] = rows[s] \/ rows'[s] = count[s]
      BY <1>4, <2>1
    <2>7. InStep(s)'
      BY <1>2, <1>3, <1>8, <2>1, <2>2, <2>3, <2>4, <2>6 DEF InStep
    <2>8. ASSUME NEW i \in DOMAIN main'[s], main'[s][i].do = "snapshot", Watched(s)'
          PROVE  \A k \in Nat : k = main'[s][i].n => count'[s] <= Mine(k)'
      BY <1>2, <1>6, <1>10, <2>1, <2>3, <2>8 DEF Growing
    <2>9. Growing(s)'
      BY <1>3, <1>10, <1>11, <2>8 DEF Growing, Mine
    <2> QED
      BY <2>5, <2>7, <2>9
  <1> QED
    <2>1. main[s][1].do \in {"snapshot", "error", "reload", "clear"}
      BY <1>1, <1>4 DEF Block
    <2>2. main[s][1].do # "error"
      BY <1>1, <1>2 DEF Growing
    <2> QED
      BY <1>12, <1>13, <2>1, <2>2

LEMMA RowsStep ==
    ASSUME TypeOK, TypeOK', Authors, Fields, Rows, calm', Next
    PROVE  Rows'
  <1>1. ASSUME NEW s \in Screens, Run(s)
        PROVE  Rows'
    <2>1. InStep(s)' /\ Growing(s)' /\ ~trapped'
      BY <1>1, RunInStep
    <2>2. \A r \in Screens : r # s => main'[r] = main[r]
      BY <1>1, RunBlocks
    <2>3. /\ UNCHANGED <<auth, messages, shown, opened>>
          /\ \A r \in Screens : r # s => count'[r] = count[r] /\ rows'[r] = rows[r]
      <3>1. count \in [Screens -> Nat] /\ rows \in [Screens -> Nat]
        BY DEF TypeOK
      <3>2. UNCHANGED <<auth, messages, shown, opened>>
        BY <1>1 DEF Run, session, screens
      <3>3. CASE \E n : Filled(s, n)
        BY <3>1, <3>2, <3>3 DEF Filled
      <3>4. CASE Emptied(s) \/ Reloaded(s) \/ Cleared(s)
        BY <3>1, <3>2, <3>4 DEF Emptied, Reloaded, Cleared
      <3> QED
        BY <1>1, <3>3, <3>4 DEF Run
    <2>4. ASSUME NEW r \in Screens, r # s
          PROVE  InStep(r)' /\ Growing(r)'
      <3>1. InStep(r) /\ Growing(r)
        BY DEF Rows
      <3>2. Waiting(r, "reload")' <=> Waiting(r, "reload")
        BY <2>2, <2>4 DEF Waiting
      <3>3. Watched(r)' <=> Watched(r)
        BY <2>3, <3>2 DEF Watched
      <3>4. InStep(r)'
        BY <2>2, <2>3, <2>4, <3>1, <3>2, <3>3 DEF InStep, Mine
      <3>5. Growing(r)'
        BY <2>2, <2>3, <2>4, <3>1, <3>3 DEF Growing, Mine
      <3> QED
        BY <3>4, <3>5
    <2> QED
      BY <2>1, <2>4 DEF Rows
  <1>2. ASSUME UNCHANGED <<main, auth, opened, messages, count, rows, trapped>>,
               shown' \subseteq shown
        PROVE  Rows'
    <2>1. \A s \in Screens : Watched(s)' => Watched(s)
      BY <1>2 DEF Watched, Waiting
    <2>2. ASSUME NEW s \in Screens
          PROVE  InStep(s)' /\ Growing(s)'
      <3>1. InStep(s) /\ Growing(s)
        BY DEF Rows
      <3>2. InStep(s)'
        BY <1>2, <2>1, <3>1 DEF InStep, Mine, Waiting
      <3>3. Growing(s)'
        BY <1>2, <2>1, <3>1 DEF Growing, Mine
      <3> QED
        BY <3>2, <3>3
    <2> QED
      BY <1>2, <2>2 DEF Rows
  <1>3. ASSUME NEW s \in Screens, OpenScreen(s)
        PROVE  Rows'
    <2>1. PICK S \in SUBSET Screens : S = {s}
      OBVIOUS
    <2>2. PICK b : b = Snapshot
      OBVIOUS
    <2>3. /\ main' = [main EXCEPT ![s] = Append(@, Snapshot)]
          /\ main \in [Screens -> Seq(Block)]
      BY <1>3 DEF OpenScreen, TypeOK
    <2>4. \A r \in Screens :
              main'[r] = IF r \in S THEN Append(main[r], b) ELSE main[r]
      BY <2>1, <2>2, <2>3
    <2>5. /\ auth # None /\ s \notin opened
          /\ shown' = shown \cup {s} /\ opened' = opened \cup {s}
          /\ UNCHANGED <<auth, messages, count, rows, trapped>>
      BY <1>3 DEF OpenScreen, session, table
    <2>6. b.do = "snapshot" /\ b.n = Len(messages')
      BY <2>2, <2>5 DEF Snapshot
    <2> QED
      BY <2>1, <2>4, <2>5, <2>6, RowsKept DEF Adds
  <1>4. ASSUME NEW p \in DOMAIN press, SendNext(p) \/ Acked(p)
        PROVE  Rows'
    <2>1. press[p].at \notin Over /\ UNCHANGED <<auth, helper, shown, opened>>
      BY <1>4, Moved
    <2>2. /\ auth # None /\ press[p].s \in opened /\ press[p].s \in Screens
      <3>1. press[p] \in Press
        BY PressTyped
      <3> QED
        BY <2>1, <3>1 DEF Authors, Authored, Working, Press
    <2>3. CASE Add(p)
      <3> DEFINE m == [acct |-> auth, press |-> p, keys |-> press[p].keys]
      <3>1. Posted(m) /\ UNCHANGED table
        BY <2>2, <2>3 DEF Add
      <3>2. \A i \in DOMAIN messages : i \in DOMAIN messages' /\ messages'[i] = messages[i]
        <4>1. messages' = Append(messages, m) /\ messages \in Seq(Message)
          BY <3>1 DEF Posted, TypeOK
        <4> HIDE DEF m
        <4> QED
          BY <4>1
      <3>3. PICK b : b = Snapshot'
        OBVIOUS
      <3>4. PICK S \in SUBSET Screens : S = opened \ failed
        BY DEF TypeOK
      <3>5. Adds(S, b)
        BY <3>1, <3>3, <3>4 DEF Posted, Adds
      <3>6. b.do = "snapshot" /\ b.n = Len(messages')
        BY <3>3 DEF Snapshot
      <3>7. /\ auth' = auth /\ S \cup opened \subseteq opened'
            /\ \A s \in shown' : s \in shown
            /\ UNCHANGED <<count, rows, trapped>>
        BY <2>1, <3>1, <3>4 DEF table
      <3> QED
        BY <2>2, <3>2, <3>5, <3>6, <3>7, RowsKept
    <2>4. CASE Acked(p)
      <3>1. PICK s \in Screens : s = press[p].s
        BY <2>2
      <3>2. /\ main' = [main EXCEPT ![s] = Append(@, Do("clear"))]
            /\ messages' = messages /\ UNCHANGED table
            /\ main \in [Screens -> Seq(Block)]
        BY <2>4, <3>1 DEF Acked, TypeOK
      <3>3. PICK S \in SUBSET Screens : S = {s}
        OBVIOUS
      <3>4. PICK b : b = Do("clear")
        OBVIOUS
      <3>5. \A r \in Screens :
               main'[r] = IF r \in S THEN Append(main[r], b) ELSE main[r]
        BY <3>2, <3>3, <3>4
      <3>6. b.do = "clear"
        BY <3>4 DEF Do
      <3>7. /\ auth' = auth /\ S \cup opened \subseteq opened'
            /\ \A r \in shown' : r \in shown
            /\ UNCHANGED <<count, rows, trapped>>
        BY <2>1, <2>2, <3>1, <3>2, <3>3 DEF table
      <3> QED
        BY <2>2, <3>2, <3>5, <3>6, <3>7, RowsKept DEF Adds
    <2>5. CASE Ask(p) \/ Answered(p) \/ Encrypt(p)
      <3>1. UNCHANGED <<main, messages, count, rows, trapped>>
        BY <2>5 DEF Ask, Answered, Encrypt, table
      <3> QED
        BY <1>2, <2>1, <3>1
    <2> QED
      BY <1>4, <2>3, <2>4, <2>5 DEF SendNext, Unanswered
  <1>5. ASSUME NEW s \in Screens, CloseScreen(s) \/ Type(s) \/ SendPressed(s)
        PROVE  Rows'
    <2>1. UNCHANGED <<main, auth, opened, messages, count, rows, trapped>>
      BY <1>5 DEF CloseScreen, Type, SendPressed, session, screens, table
    <2>2. shown' \subseteq shown
      BY <1>5 DEF CloseScreen, Type, SendPressed, screens
    <2> QED
      BY <1>2, <2>1, <2>2
  <1>6. ASSUME NEW u \in Users, Befriend(u)
        PROVE  Rows'
    <2>1. UNCHANGED <<main, auth, opened, messages, count, rows, trapped, shown>>
      BY <1>6 DEF Befriend, screens, table
    <2> QED
      BY <1>2, <2>1
  \* Between two accounts nothing is shown and nothing waits.
  <1>7. ASSUME shown' = {}, \A s \in Screens : main'[s] = <<>>,
               UNCHANGED <<opened, count, rows, trapped>>
        PROVE  Rows'
    <2>1. \A s \in Screens : ~Watched(s)' /\ ~Waiting(s, "reload")'
      BY <1>7 DEF Watched, Waiting
    <2>2. ASSUME NEW s \in Screens
          PROVE  Growing(s)'
      <3>1. DOMAIN main'[s] = {}
        <4>1. main'[s] = <<>>
          BY <1>7
        <4> QED
          BY <4>1
      <3> QED
        BY <3>1 DEF Growing
    <2>3. \A s \in Screens : InStep(s)'
      BY <1>7, <2>1 DEF Rows, InStep
    <2> QED
      BY <1>7, <2>2, <2>3 DEF Rows
  <1>8. CASE SignOut
    <2>1. /\ shown' = {} /\ Quiet
          /\ UNCHANGED <<opened, count, rows, trapped, main>>
      BY <1>8 DEF SignOut, ScreensPopped, table
    <2> QED
      BY <1>7, <2>1 DEF Quiet
  <1>9. ASSUME NEW u \in Users, SignIn(u)
        PROVE  Rows'
    <2>1. /\ auth = None /\ shown' = shown
          /\ UNCHANGED <<opened, count, rows, trapped, main>>
      BY <1>9 DEF SignIn, screens, table
    <2>2. shown = {} /\ \A s \in Screens : main[s] = <<>>
      BY <2>1 DEF Authors, Rows, InStep
    <2> QED
      BY <1>7, <2>1, <2>2
  <1> QED
    BY <1>1, <1>3, <1>4, <1>5, <1>6, <1>8, <1>9 DEF Next, ListenerFails

-----------------------------------------------------------------------------
(* The theorems.                                                           *)

LEMMA InitOrder == Init => Order
  <1> SUFFICES ASSUME Init PROVE Order
    OBVIOUS
  <1>1. /\ press = <<>> /\ DOMAIN press = {} /\ shown = {} /\ opened = {}
        /\ helper = auth /\ lost = {} /\ typed = 0 /\ trapped = FALSE
        /\ \A s \in Screens : /\ field[s] = 0 /\ keys[s] = None /\ count[s] = 0
                              /\ rows[s] = 0 /\ main[s] = <<>>
    BY DEF Init
  <1>2. \A s \in Screens : DOMAIN main[s] = {}
    BY <1>1
  <1>3. \A s \in Screens : \A w : ~Waiting(s, w)
    BY <1>2 DEF Waiting
  <1>4. Authors
    BY <1>1 DEF Authors, Init
  <1>5. Sent
    BY DEF Init, Sent, Earlier
  <1>6. OneAtATime
    BY <1>1, <1>2 DEF OneAtATime
  <1>7. Fields
    <2>1. \A s \in Screens : field[s] <= typed /\ ~(field[s] > 0)
      BY <1>1
    <2> QED
      BY <1>1, <1>3, <2>1 DEF Fields
  <1>8. Rows
    BY <1>1, <1>2, <1>3 DEF Rows, InStep, Growing, Watched
  <1> QED
    BY <1>4, <1>5, <1>6, <1>7, <1>8 DEF Order

LEMMA StepKeepsInvariant == IInv /\ [Next]_vars => IInv'
  <1> SUFFICES ASSUME IInv, [Next]_vars PROVE IInv'
    OBVIOUS
  <1>1. TypeOK /\ TypeOK'
    BY StepTyped DEF IInv
  <1>2. CASE UNCHANGED vars
    <2>1. Order' <=> Order
      BY <1>2 DEF vars, session, screens, table, history, Order, Authors, Authored,
                  Sent, OneAtATime, Fields, Texted, Rows, InStep, Growing, Working,
                  Waiting, Watched, Busy, SentText, Mine
    <2> QED
      BY <1>1, <1>2, <2>1 DEF IInv, vars, history
  <1>3. CASE Next /\ calm'
    <2>1. calm
      BY <1>3 DEF Next, SendNext, OpenScreen, CloseScreen, Type, SendPressed, Run,
                  ListenerFails, Ask, Answered, Unanswered, Encrypt, Add, Acked,
                  SignOut, SignIn, Befriend, history, May
    <2>2. Authors /\ Sent /\ OneAtATime /\ Fields /\ Rows
      BY <2>1 DEF IInv, Order
    <2>3. Authors' /\ Sent' /\ OneAtATime' /\ Fields' /\ Rows'
      BY <1>1, <1>3, <2>2, AuthorsStep, SentStep, OneAtATimeStep, FieldsStep, RowsStep
    <2> QED
      BY <1>1, <2>3 DEF IInv, Order
  <1> QED
    BY <1>1, <1>2, <1>3 DEF IInv

LEMMA InvariantHolds == Spec => []IInv
  <1>1. Init => IInv
    BY InitTyped, InitOrder DEF IInv
  <1> QED
    BY <1>1, StepKeepsInvariant, PTL DEF Spec

\* In calm, a message to a friend is encrypted, by the account that wrote it and
\* with the keys of that account's friend document.
THEOREM FriendsWriteInSecret == Spec => []SecretBetweenFriends
  <1>1. IInv => SecretBetweenFriends
    BY DEF IInv, Order, Authors, Authored, Sent, SecretBetweenFriends, Encrypted
  <1> QED
    BY <1>1, InvariantHolds, PTL

\* In calm, every text is sent at most once, and none is cleared away before it
\* is sent.
THEOREM NoTextLost == Spec => []TextsKept
  <1>1. IInv => TextsKept
    BY DEF IInv, Order, Fields, TextsKept
  <1> QED
    BY <1>1, InvariantHolds, PTL

\* In calm, no row is asked for that the list of messages does not have.
THEOREM TableFollowsList == Spec => []TableInStep
  <1>1. IInv => TableInStep
    <2>1. TypeOK => shown \subseteq Screens
      BY DEF TypeOK
    <2> QED
      BY <2>1 DEF IInv, Order, Rows, InStep, TableInStep
  <1> QED
    BY <1>1, InvariantHolds, PTL
=============================================================================
