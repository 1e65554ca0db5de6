---------------------------- MODULE SessionProofs ----------------------------
(***************************************************************************)
(* Theorems about Session, for any accounts, requests, posts and menus:    *)
(* type correctness, and why the session follows the current user however  *)
(* answers, posts and gestures are interleaved.                            *)
(***************************************************************************)
EXTENDS Session, SequenceTheorems, TLAPS

Task == {Notify, [do |-> "created"]} \cup [do : {"first"}, listener : Nat]

Listener == [called : BOOLEAN, saw : Accounts \cup {NoUser}]

TypeInv == TypeOK /\ main \in Seq(Task) /\ listeners \in Seq(Listener)

Added == 1 .. Len(listeners)

FirstFor(i) ==
  \E k \in 1 .. Len(main) : main[k].do = "first" /\ main[k].listener = i

Notified == \E k \in 1 .. Len(main) : main[k].do = "notify"

SawCurrent(i) == listeners[i].called /\ listeners[i].saw = Uid(currentUser)

(* A listener that was not called yet will be.                             *)
FirstCallsPending == \A i \in Added : ~listeners[i].called => FirstFor(i)

(* A change of user that a listener has not seen is still to be announced. *)
ChangesPending == Notified \/ \A i \in Added : listeners[i].called => SawCurrent(i)

(* A listener that put a user into the session remembers that it did, and  *)
(* only accounts are remembered: an account just created is new to all.    *)
SessionWasSeen ==
  session # NoUser =>
    \E i \in Added : listeners[i].called /\ listeners[i].saw = Uid(session)

SeenExist ==
  /\ \A i \in Added : listeners[i].saw # NoUser => accounts[listeners[i].saw] # "none"
  /\ currentUser # NoUser => accounts[Uid(currentUser)] # "none"

(* Once every listener has seen the current user, so has the session.      *)
SeenIsShown ==
  listeners # <<>> /\ (\A i \in Added : SawCurrent(i)) =>
    \/ Uid(session) = Uid(currentUser)
    \/ raced /\ session = NoUser

FreshIsShown ==
  fresh => session = currentUser \/ \E i \in Added : ~listeners[i].called

ListenersInv ==
  /\ FirstCallsPending
  /\ ChangesPending
  /\ SessionWasSeen
  /\ SeenExist
  /\ SeenIsShown
  /\ FreshIsShown

SessionInv == TypeInv /\ ListenersInv

-----------------------------------------------------------------------------
LEMMA UidOfUser ==
  /\ Uid(NoUser) = NoUser
  /\ \A user \in User : Uid(user) = user.uid /\ Uid(user) \in Accounts
                        /\ user # NoUser /\ Uid(user) # NoUser
BY AccountsAssumption DEF Uid, User

LEMMA TasksApart ==
  /\ Notify \in Task /\ Notify.do = "notify"
  /\ [do |-> "created"] \in Task /\ [do |-> "created"].do = "created"
  /\ \A l \in Nat : /\ [do |-> "first", listener |-> l] \in Task
                    /\ [do |-> "first", listener |-> l].do = "first"
                    /\ [do |-> "first", listener |-> l].listener = l
BY DEF Task, Notify

(* A post goes behind the tasks that are there.                            *)
MainGrows ==
  /\ Len(main) <= Len(main')
  /\ \A k \in 1 .. Len(main) : main'[k] = main[k]

LEMMA PostGrows ==
  ASSUME TypeInv, NEW task \in Task, main' = Append(main, task)
  PROVE  /\ main' \in Seq(Task) /\ MainGrows
         /\ Len(main) \in Nat /\ Len(main') = Len(main) + 1
         /\ main'[Len(main) + 1] = task
BY AppendProperties, LenProperties DEF TypeInv, MainGrows

LEMMA GrowthKeepsPending ==
  ASSUME TypeInv, MainGrows, main' \in Seq(Task), UNCHANGED listeners
  PROVE  /\ FirstCallsPending => FirstCallsPending'
         /\ Notified => Notified'
<1>1. Len(main) \in Nat /\ Len(main') \in Nat
  BY LenProperties DEF TypeInv
<1>2. \A k \in 1 .. Len(main) : k \in 1 .. Len(main') /\ main'[k] = main[k]
  BY <1>1 DEF MainGrows
<1>3. \A i : FirstFor(i) => FirstFor(i)'
  BY <1>2 DEF FirstFor
<1>4. Notified => Notified'
  BY <1>2 DEF Notified
<1>5. Added' = Added
  BY DEF Added
<1>6. QED
  BY <1>3, <1>4, <1>5 DEF FirstCallsPending

(* A call of listeners leaves a record of what each saw.                   *)
LEMMA CalledSeen ==
  ASSUME TypeInv, NEW which \in SUBSET Added, Called(which)
  PROVE  /\ listeners' \in Seq(Listener) /\ Len(listeners') = Len(listeners)
         /\ Added' = Added
         /\ \A i \in Added : listeners'[i] = IF i \in which THEN Seen ELSE listeners[i]
         /\ listeners' # <<>> => listeners # <<>>
<1>1. Uid(currentUser) \in Accounts \cup {NoUser}
  BY UidOfUser DEF TypeInv, TypeOK
<1>2. Seen \in Listener
  BY <1>1 DEF Seen, Listener
<1>3. Len(listeners) \in Nat /\ \A i \in Added : listeners[i] \in Listener
  BY LenProperties, ElementOfSeq DEF TypeInv, Added
<1>4. listeners' \in [1 .. Len(listeners) -> Listener]
  BY <1>2, <1>3 DEF Called, Added
<1>5. listeners' \in Seq(Listener) /\ Len(listeners') = Len(listeners)
  BY <1>3, <1>4, SeqDef, LenProperties
<1>6. listeners = <<>> => listeners' = <<>>
  BY <1>3, <1>5, EmptySeq DEF TypeInv
<1>7. QED
  BY <1>3, <1>5, <1>6 DEF Called, Added

(* What the first task of the main queue is, and does.                     *)
LEMMA RunMainCases ==
  ASSUME TypeInv, RunMain
  PROVE  /\ main # <<>> /\ main' \in Seq(Task) /\ Len(main') = Len(main) - 1
         /\ Len(main) \in Nat
         /\ \A k \in 1 .. Len(main') : main'[k] = main[k + 1]
         /\ UNCHANGED <<accounts, currentUser, signIns, signUps, page, fresh, raced>>
         /\ \/ /\ main[1].do = "notify"
               /\ Called(Added) /\ UNCHANGED <<changes, reauths>>
            \/ /\ main[1].do = "first" /\ main[1].listener \in Added
               /\ Called({main[1].listener}) /\ UNCHANGED <<changes, reauths>>
            \/ main[1].do = "created" /\ Created
<1>1. main # <<>> /\ main' = Tail(main)
  BY DEF RunMain
<1>2. /\ Tail(main) \in Seq(Task) /\ Len(Tail(main)) = Len(main) - 1
      /\ Len(main) \in Nat /\ Head(main) = main[1] /\ 1 \in 1 .. Len(main)
      /\ \A k \in 1 .. Len(Tail(main)) : Tail(main)[k] = main[k + 1]
  BY <1>1, HeadTailProperties, LenProperties, EmptySeq DEF TypeInv
<1>3. \/ main[1] \in {Notify, [do |-> "created"]}
      \/ main[1] \in [do : {"first"}, listener : Added]
  BY <1>2 DEF TypeInv, TypeOK, Added
<1>4. \/ main[1].do = "notify" \/ main[1].do = "created"
      \/ main[1].do = "first" /\ main[1].listener \in Added
  BY <1>3, TasksApart
<1>5. \/ main[1].do = "notify" /\ Called(Added) /\ UNCHANGED <<changes, reauths>>
      \/ main[1].do = "first" /\ Called({main[1].listener})
           /\ UNCHANGED <<changes, reauths>>
      \/ main[1].do = "created" /\ Created
  BY <1>2, <1>4 DEF RunMain, Added
<1>6. QED
  BY <1>1, <1>2, <1>4, <1>5 DEF RunMain

-----------------------------------------------------------------------------
(* The typing of what a step leaves of the queues, from what it adds.      *)
LEMMA QueuesTyped ==
  ASSUME TypeInv, MainGrows, main' \in Seq(Task), Len(main') <= MaxPosted,
         UNCHANGED listeners,
         \A k \in 1 .. Len(main') :
           k > Len(main) => main'[k] \in {Notify, [do |-> "created"]}
  PROVE  \A k \in 1 .. Len(main') :
           \/ main'[k] \in {Notify, [do |-> "created"]}
           \/ main'[k] \in [do : {"first"}, listener : 1 .. Len(listeners')]
<1>1. Len(main) \in Nat /\ Len(main') \in Nat
  BY LenProperties DEF TypeInv
<1>2. QED
  BY <1>1 DEF MainGrows, TypeInv, TypeOK

LEMMA OrphanedTyped ==
  ASSUME TypeInv
  PROVE  Orphaned \subseteq Change /\ \A c \in Orphaned : ~c.current
<1>1. ASSUME NEW d \in Orphaned PROVE d \in Change /\ ~d.current
  <2>1. PICK c \in changes : d = [c EXCEPT !.current = FALSE]
    BY DEF Orphaned
  <2>2. c \in Change
    BY DEF TypeInv, TypeOK
  <2>3. QED
    BY <2>1, <2>2 DEF Change
<1>2. QED
  BY <1>1

(* The current user changes, and that is posted.                           *)
LEMMA PostedTyped ==
  ASSUME TypeInv, main' = Append(main, Notify), Len(main) < MaxPosted,
         currentUser' \in User \cup {NoUser},
         changes' \subseteq Change, \A c \in changes' : c.current => Uid(currentUser') = c.uid,
         accounts' \in [Accounts -> {"none", "plain", "named"}],
         signIns' \in [Accounts -> 0 .. MaxAsked],
         signUps' \in [Accounts -> 0 .. MaxAsked],
         reauths' \subseteq Accounts, session' \in User \cup {NoUser},
         fresh' \in BOOLEAN, raced' \in BOOLEAN, UNCHANGED <<listeners, page>>
  PROVE  TypeInv'
<1>1. /\ main' \in Seq(Task) /\ MainGrows /\ Len(main) \in Nat
      /\ Len(main') = Len(main) + 1 /\ main'[Len(main) + 1] = Notify
  BY TasksApart, PostGrows
<1>2. Len(main') <= MaxPosted
  BY <1>1, BoundsAssumption
<1>3. \A k \in 1 .. Len(main') : k > Len(main) => main'[k] = Notify
  BY <1>1
<1>4. \A k \in 1 .. Len(main') :
        \/ main'[k] \in {Notify, [do |-> "created"]}
        \/ main'[k] \in [do : {"first"}, listener : 1 .. Len(listeners')]
  BY <1>1, <1>2, <1>3, QueuesTyped
<1>5. QED
  BY <1>1, <1>2, <1>4 DEF TypeInv, TypeOK

(* Neither queue changes.                                                  *)
LEMMA UnpostedTyped ==
  ASSUME TypeInv, UNCHANGED <<main, listeners>>,
         currentUser' \in User \cup {NoUser},
         changes' \subseteq Change, \A c \in changes' : c.current => Uid(currentUser') = c.uid,
         accounts' \in [Accounts -> {"none", "plain", "named"}],
         signIns' \in [Accounts -> 0 .. MaxAsked],
         signUps' \in [Accounts -> 0 .. MaxAsked],
         reauths' \subseteq Accounts, session' \in User \cup {NoUser},
         page' \in {"home", "menu", "account"},
         fresh' \in BOOLEAN, raced' \in BOOLEAN
  PROVE  TypeInv'
BY DEF TypeInv, TypeOK

LEMMA InitTyped == Init => TypeInv
<1> SUFFICES ASSUME Init PROVE TypeInv
  OBVIOUS
<1>1. /\ main = <<>> /\ listeners = <<>> /\ Len(main) = 0 /\ Len(listeners) = 0
      /\ main \in Seq(Task) /\ listeners \in Seq(Listener)
  BY EmptySeq DEF Init
<1>2. /\ signIns \in [Accounts -> 0 .. MaxAsked]
      /\ signUps \in [Accounts -> 0 .. MaxAsked]
      /\ Len(main) <= MaxPosted /\ Len(listeners) <= MaxListeners
  BY <1>1, BoundsAssumption DEF Init
<1>3. /\ changes = {} /\ reauths = {} /\ session = NoUser /\ page = "home"
      /\ fresh \in BOOLEAN /\ raced \in BOOLEAN
  BY DEF Init
<1>4. /\ accounts \in [Accounts -> {"none", "plain", "named"}]
      /\ currentUser \in User \cup {NoUser}
  BY DEF Init
<1>5. QED
  BY <1>1, <1>2, <1>3, <1>4 DEF TypeInv, TypeOK

LEMMA RelaunchTyped ==
  ASSUME TypeInv, Relaunch PROVE TypeInv'
<1>1. /\ main' = <<>> /\ listeners' = <<>> /\ Len(main') = 0 /\ Len(listeners') = 0
      /\ main' \in Seq(Task) /\ listeners' \in Seq(Listener)
  BY EmptySeq DEF Relaunch
<1>2. /\ signIns' \in [Accounts -> 0 .. MaxAsked]
      /\ signUps' \in [Accounts -> 0 .. MaxAsked]
      /\ Len(main') <= MaxPosted /\ Len(listeners') <= MaxListeners
  BY <1>1, BoundsAssumption DEF Relaunch
<1>3. /\ changes' = {} /\ reauths' = {} /\ session' = NoUser /\ page' = "home"
      /\ fresh' \in BOOLEAN /\ raced' \in BOOLEAN
  BY DEF Relaunch
<1>4. /\ accounts' \in [Accounts -> {"none", "plain", "named"}]
      /\ currentUser' \in User \cup {NoUser}
  BY DEF Relaunch, TypeInv, TypeOK
<1>5. QED
  BY <1>1, <1>2, <1>3, <1>4 DEF TypeInv, TypeOK

LEMMA AnswerTyped ==
  ASSUME TypeInv, NEW u \in Accounts,
         \/ SignInAnswered(u) \/ SignInFails(u) \/ SignUpAnswered(u)
         \/ \E created \in BOOLEAN : SignUpFails(u, created)
         \/ \E posted \in BOOLEAN : Reauthenticated(u, posted)
  PROVE  TypeInv'
<1>1. CASE SignInAnswered(u)
  <2>1. currentUser' \in User /\ changes' = Orphaned
    BY <1>1 DEF SignInAnswered, User
  <2>2. signIns' \in [Accounts -> 0 .. MaxAsked] /\ raced' \in BOOLEAN
    BY <1>1, BoundsAssumption DEF SignInAnswered, TypeInv, TypeOK
  <2>3. QED
    BY <1>1, <2>1, <2>2, OrphanedTyped, PostedTyped
       DEF SignInAnswered, TypeInv, TypeOK
<1>2. CASE SignInFails(u)
  <2>1. signIns' \in [Accounts -> 0 .. MaxAsked]
    BY <1>2, BoundsAssumption DEF SignInFails, TypeInv, TypeOK
  <2>2. QED
    BY <1>2, <2>1, UnpostedTyped DEF SignInFails, TypeInv, TypeOK
<1>3. CASE SignUpAnswered(u)
  <2>1. /\ currentUser' \in User /\ changes' = Orphaned
        /\ accounts' \in [Accounts -> {"none", "plain", "named"}]
        /\ signUps' \in [Accounts -> 0 .. MaxAsked]
    BY <1>3, BoundsAssumption DEF SignUpAnswered, User, TypeInv, TypeOK
  <2> DEFINE posts == <<Notify, [do |-> "created"]>>
  <2>2. /\ posts \in Seq(Task) /\ Len(posts) = 2
        /\ posts[1] = Notify /\ posts[2] = [do |-> "created"]
    BY TasksApart
  <2>3. main' = main \o posts /\ Len(main) + 1 < MaxPosted
    BY <1>3 DEF SignUpAnswered
  <2> HIDE DEF posts
  <2>4. Len(main) \in Nat
    BY LenProperties DEF TypeInv
  <2>5. /\ main' \in Seq(Task) /\ Len(main') = Len(main) + 2
        /\ \A k \in 1 .. Len(main) + 2 :
             main'[k] = IF k <= Len(main) THEN main[k] ELSE posts[k - Len(main)]
    <3>1. /\ main' \in Seq(Task) /\ Len(main') = Len(main) + Len(posts)
          /\ \A k \in 1 .. Len(main) + Len(posts) :
               main'[k] = IF k <= Len(main) THEN main[k] ELSE posts[k - Len(main)]
      BY <2>2, <2>3, ConcatProperties DEF TypeInv
    <3>2. QED
      BY <2>2, <3>1
  <2>6. MainGrows /\ Len(main') <= MaxPosted
    BY <2>3, <2>4, <2>5, BoundsAssumption DEF MainGrows
  <2>7. ASSUME NEW k \in 1 .. Len(main'), k > Len(main)
        PROVE  main'[k] \in {Notify, [do |-> "created"]}
    <3>1. k - Len(main) \in {1, 2} /\ main'[k] = posts[k - Len(main)]
      BY <2>4, <2>5, <2>7
    <3>2. QED
      BY <3>1, <2>2
  <2>8. UNCHANGED <<signIns, reauths, listeners, session, page, raced>> /\ fresh' = FALSE
    BY <1>3 DEF SignUpAnswered
  <2>9. \A k \in 1 .. Len(main') :
          \/ main'[k] \in {Notify, [do |-> "created"]}
          \/ main'[k] \in [do : {"first"}, listener : 1 .. Len(listeners')]
    BY <2>5, <2>6, <2>7, <2>8, QueuesTyped
  <2>10. QED
    BY <2>1, <2>5, <2>6, <2>8, <2>9, OrphanedTyped DEF TypeInv, TypeOK
<1>4. ASSUME NEW created \in BOOLEAN, SignUpFails(u, created) PROVE TypeInv'
  <2>1. /\ signUps' \in [Accounts -> 0 .. MaxAsked]
        /\ accounts' \in [Accounts -> {"none", "plain", "named"}]
    BY <1>4, BoundsAssumption DEF SignUpFails, TypeInv, TypeOK
  <2>2. QED
    BY <1>4, <2>1, UnpostedTyped DEF SignUpFails, TypeInv, TypeOK
<1>5. ASSUME NEW posted \in BOOLEAN, Reauthenticated(u, posted) PROVE TypeInv'
  <2>1. CASE posted
    BY <1>5, <2>1, PostedTyped DEF Reauthenticated, TypeInv, TypeOK
  <2>2. CASE ~posted
    BY <1>5, <2>2, UnpostedTyped DEF Reauthenticated, TypeInv, TypeOK
  <2>3. QED
    BY <2>1, <2>2
<1>6. QED
  BY <1>1, <1>2, <1>3, <1>4, <1>5

LEMMA ChangeTyped ==
  ASSUME TypeInv, NEW c \in changes,
         ChangeApplied(c) \/ ChangeAnswered(c) \/ ChangeFails(c) \/ TokenRejected(c)
  PROVE  TypeInv'
<1>1. c \in Change /\ c.uid \in Accounts /\ (c.current => Uid(currentUser) = c.uid)
  BY DEF TypeInv, TypeOK, Change
<1>2. CASE ChangeApplied(c)
  <2>1. /\ [c EXCEPT !.applied = TRUE] \in Change
        /\ [c EXCEPT !.applied = TRUE].current = c.current
        /\ [c EXCEPT !.applied = TRUE].uid = c.uid
    BY <1>1 DEF Change
  <2>2. /\ changes' \subseteq Change
        /\ \A d \in changes' : d.current => Uid(currentUser') = d.uid
    BY <1>1, <1>2, <2>1 DEF ChangeApplied, TypeInv, TypeOK
  <2>3. accounts' \in [Accounts -> {"none", "plain", "named"}]
    BY <1>1, <1>2 DEF ChangeApplied, TypeInv, TypeOK
  <2>4. QED
    BY <1>2, <2>2, <2>3, UnpostedTyped DEF ChangeApplied, TypeInv, TypeOK
<1>3. CASE ChangeAnswered(c)
  <2>1. currentUser' \in User \cup {NoUser} /\ Uid(currentUser') = Uid(currentUser)
    <3>1. CASE c.current
      <4>1. currentUser \in User
        BY <1>1, <3>1, UidOfUser, AccountsAssumption DEF TypeInv, TypeOK
      <4>2. /\ currentUser' \in User /\ currentUser'.uid = currentUser.uid
        BY <1>3, <3>1, <4>1 DEF ChangeAnswered, User
      <4>3. QED
        BY <4>1, <4>2, UidOfUser
    <3>2. CASE ~c.current
      BY <1>3, <3>2 DEF ChangeAnswered, TypeInv, TypeOK
    <3>3. QED
      BY <3>1, <3>2
  <2>2. fresh' \in BOOLEAN
    BY <1>3 DEF ChangeAnswered
  <2>3. /\ changes' \subseteq Change
        /\ \A d \in changes' : d.current => Uid(currentUser') = d.uid
    BY <1>3, <2>1 DEF ChangeAnswered, TypeInv, TypeOK
  <2>4. QED
    BY <1>3, <2>1, <2>2, <2>3, UnpostedTyped DEF ChangeAnswered, TypeInv, TypeOK
<1>4. CASE ChangeFails(c)
  BY <1>4, UnpostedTyped DEF ChangeFails, TypeInv, TypeOK
<1>5. CASE TokenRejected(c)
  BY <1>5, OrphanedTyped, PostedTyped DEF TokenRejected, TypeInv, TypeOK
<1>6. QED
  BY <1>2, <1>3, <1>4, <1>5

LEMMA RunMainTyped ==
  ASSUME TypeInv, RunMain PROVE TypeInv'
<1>1. /\ main' \in Seq(Task) /\ Len(main') = Len(main) - 1 /\ Len(main) \in Nat
      /\ \A k \in 1 .. Len(main') : main'[k] = main[k + 1]
      /\ UNCHANGED <<accounts, currentUser, signIns, signUps, page, fresh, raced>>
  BY RunMainCases
<1>2. /\ listeners' \in Seq(Listener) /\ Len(listeners') = Len(listeners)
      /\ session' \in User \cup {NoUser} /\ changes' \subseteq Change
      /\ \A c \in changes' : c.current => Uid(currentUser) = c.uid
      /\ reauths' \subseteq Accounts
  <2>1. ASSUME NEW which \in SUBSET Added, Called(which), UNCHANGED <<changes, reauths>>
        PROVE  /\ listeners' \in Seq(Listener) /\ Len(listeners') = Len(listeners)
               /\ session' \in User \cup {NoUser} /\ changes' \subseteq Change
               /\ \A c \in changes' : c.current => Uid(currentUser) = c.uid
               /\ reauths' \subseteq Accounts
    BY <2>1, CalledSeen DEF Called, TypeInv, TypeOK
  <2>2. CASE Created
    <3>1. CASE currentUser = NoUser
      BY <2>2, <3>1 DEF Created, TypeInv, TypeOK
    <3>2. CASE currentUser # NoUser
      <4>1. currentUser.uid \in Accounts /\ Uid(currentUser) = currentUser.uid
        BY <3>2, UidOfUser DEF TypeInv, TypeOK
      <4>2. [uid |-> currentUser.uid, current |-> TRUE, applied |-> FALSE] \in Change
        BY <4>1 DEF Change
      <4>3. /\ changes' = changes \cup {[uid |-> currentUser.uid, current |-> TRUE,
                                         applied |-> FALSE]}
            /\ reauths' = reauths \cup {currentUser.uid}
            /\ UNCHANGED <<listeners, session>>
        BY <2>2, <3>2 DEF Created
      <4>4. changes' \subseteq Change /\ reauths' \subseteq Accounts
        BY <4>1, <4>2, <4>3 DEF TypeInv, TypeOK
      <4>5. \A c \in changes' : c.current => Uid(currentUser) = c.uid
        BY <4>1, <4>3 DEF TypeInv, TypeOK
      <4>6. QED
        BY <4>3, <4>4, <4>5 DEF TypeInv, TypeOK
    <3>3. QED
      BY <3>1, <3>2
  <2>3. QED
    BY <2>1, <2>2, RunMainCases
<1>3. Len(main') <= MaxPosted
  BY <1>1, BoundsAssumption DEF TypeInv, TypeOK
<1>4. \A k \in 1 .. Len(main') :
        \/ main'[k] \in {Notify, [do |-> "created"]}
        \/ main'[k] \in [do : {"first"}, listener : 1 .. Len(listeners')]
  <2> SUFFICES ASSUME NEW k \in 1 .. Len(main')
               PROVE  \/ main'[k] \in {Notify, [do |-> "created"]}
                      \/ main'[k] \in [do : {"first"}, listener : 1 .. Len(listeners')]
    OBVIOUS
  <2>1. k + 1 \in 1 .. Len(main) /\ main'[k] = main[k + 1]
    BY <1>1
  <2>2. QED
    BY <1>2, <2>1 DEF TypeInv, TypeOK
<1>5. \A i \in 1 .. Len(listeners') : listeners'[i] \in Listener
  BY <1>2, ElementOfSeq
<1>6. QED
  BY <1>1, <1>2, <1>3, <1>4, <1>5 DEF TypeInv, TypeOK, Listener

(* A menu that appears adds a listener, and its first call to the queue.   *)
LEMMA ListenAdds ==
  ASSUME TypeInv, Listen
  PROVE  /\ Len(listeners) \in Nat /\ Len(listeners') = Len(listeners) + 1
         /\ listeners' \in Seq(Listener) /\ main' \in Seq(Task) /\ MainGrows
         /\ \A i \in Added : listeners'[i] = listeners[i]
         /\ listeners'[Len(listeners) + 1] = [called |-> FALSE, saw |-> NoUser]
         /\ Len(main) \in Nat /\ Len(main') = Len(main) + 1
         /\ main'[Len(main) + 1]
             = [do |-> "first", listener |-> Len(listeners) + 1]
<1>1. [called |-> FALSE, saw |-> NoUser] \in Listener
  BY DEF Listener
<1>2. /\ Len(listeners) \in Nat /\ Len(listeners') = Len(listeners) + 1
      /\ listeners' \in Seq(Listener)
      /\ \A i \in Added : listeners'[i] = listeners[i]
      /\ listeners'[Len(listeners) + 1] = [called |-> FALSE, saw |-> NoUser]
  BY <1>1, AppendProperties, LenProperties DEF Listen, TypeInv, Added
<1>3. main' = Append(main, [do |-> "first", listener |-> Len(listeners) + 1])
  BY <1>2 DEF Listen
<1>4. [do |-> "first", listener |-> Len(listeners) + 1] \in Task
  BY <1>2, TasksApart
<1>5. QED
  BY <1>2, <1>3, <1>4, PostGrows

LEMMA OpenMenuTyped ==
  ASSUME TypeInv, OpenMenu PROVE TypeInv'
<1>1. Listen
  BY DEF OpenMenu
<1>2. Len(listeners') <= MaxListeners /\ Len(main') <= MaxPosted
  BY <1>1, ListenAdds, BoundsAssumption DEF Listen
<1>3. \A k \in 1 .. Len(main') :
        \/ main'[k] \in {Notify, [do |-> "created"]}
        \/ main'[k] \in [do : {"first"}, listener : 1 .. Len(listeners')]
  <2> SUFFICES ASSUME NEW k \in 1 .. Len(main')
               PROVE  \/ main'[k] \in {Notify, [do |-> "created"]}
                      \/ main'[k] \in [do : {"first"}, listener : 1 .. Len(listeners')]
    OBVIOUS
  <2>1. CASE k = Len(main) + 1
    BY <1>1, <2>1, ListenAdds
  <2>2. CASE k # Len(main) + 1
    <3>1. k \in 1 .. Len(main) /\ main'[k] = main[k]
      BY <1>1, <2>2, ListenAdds DEF MainGrows
    <3>2. 1 .. Len(listeners) \subseteq 1 .. Len(listeners')
      BY <1>1, ListenAdds
    <3>3. QED
      BY <3>1, <3>2 DEF TypeInv, TypeOK
  <2>3. QED
    BY <2>1, <2>2
<1>4. \A i \in 1 .. Len(listeners') : listeners'[i] \in Listener
  BY <1>1, ListenAdds, ElementOfSeq
<1>5. listeners' \in Seq(Listener) /\ main' \in Seq(Task)
  BY <1>1, ListenAdds
<1>6. QED
  BY <1>1, <1>2, <1>3, <1>4, <1>5
     DEF OpenMenu, Listen, auth, network, TypeInv, TypeOK, Listener

LEMMA UserStepTyped ==
  ASSUME TypeInv, UserStep PROVE TypeInv'
<1>1. CASE CloseMenu
  BY <1>1, UnpostedTyped DEF CloseMenu, auth, network, TypeInv, TypeOK
<1>2. CASE TapLogin
  BY <1>2, UnpostedTyped DEF TapLogin, auth, network, TypeInv, TypeOK
<1>3. CASE TapTraps
  BY <1>3, RelaunchTyped DEF TapTraps
<1>4. CASE SignOut
  <2>1. fresh' \in BOOLEAN
    BY <1>4 DEF SignOut
  <2>2. CASE currentUser = NoUser
    BY <1>4, <2>1, <2>2, OrphanedTyped, UnpostedTyped DEF SignOut, TypeInv, TypeOK
  <2>3. CASE currentUser # NoUser
    BY <1>4, <2>1, <2>3, OrphanedTyped, PostedTyped DEF SignOut, TypeInv, TypeOK
  <2>4. QED
    BY <2>2, <2>3
<1>5. ASSUME NEW u \in Accounts, PressSignIn(u) \/ PressSignUp(u) PROVE TypeInv'
  <2>1. /\ signIns' \in [Accounts -> 0 .. MaxAsked]
        /\ signUps' \in [Accounts -> 0 .. MaxAsked]
        /\ page' \in {"home", "menu", "account"}
    BY <1>5, BoundsAssumption
       DEF PressSignIn, PressSignUp, PageAfterPress, TypeInv, TypeOK
  <2>2. UNCHANGED <<accounts, currentUser, changes, reauths, main, listeners,
                    session, fresh, raced>>
    BY <1>5 DEF PressSignIn, PressSignUp
  <2>3. QED
    BY <2>1, <2>2, UnpostedTyped DEF TypeInv, TypeOK
<1>6. QED
  BY <1>1, <1>2, <1>3, <1>4, <1>5, OpenMenuTyped DEF UserStep

THEOREM TypeInvInvariant == Spec => []TypeInv
<1>1. TypeInv /\ [Next]_vars => TypeInv'
  <2> SUFFICES ASSUME TypeInv, [Next]_vars PROVE TypeInv'
    OBVIOUS
  <2>1. CASE Next
    BY <2>1, AnswerTyped, ChangeTyped, RunMainTyped, UserStepTyped, RelaunchTyped
       DEF Next, AuthStep
  <2>2. CASE UNCHANGED vars
    BY <2>2 DEF vars, network, TypeInv, TypeOK
  <2>3. QED
    BY <2>1, <2>2
<1>2. QED
  BY InitTyped, <1>1, PTL DEF Spec

-----------------------------------------------------------------------------
(* A step that leaves the listeners, the session and the account of the    *)
(* current user alone; accounts do not go away.                            *)
LEMMA QuietStep ==
  ASSUME SessionInv, MainGrows, main' \in Seq(Task),
         UNCHANGED <<listeners, session, raced>>,
         Uid(currentUser') = Uid(currentUser), currentUser' \in User \cup {NoUser},
         \A u \in Accounts : accounts[u] # "none" => accounts'[u] # "none",
         fresh' => fresh /\ currentUser' = currentUser
  PROVE  ListenersInv'
<1> USE DEF SessionInv, ListenersInv
<1>1. FirstCallsPending' /\ (Notified => Notified')
  BY GrowthKeepsPending
<1>2. ChangesPending'
  BY <1>1 DEF ChangesPending, SawCurrent, Added
<1>3. SessionWasSeen'
  BY DEF SessionWasSeen, Added
<1>4. SeenExist'
  <2>1. \A i \in Added : listeners[i].saw \in Accounts \cup {NoUser}
    BY DEF TypeInv, TypeOK, Added
  <2>2. currentUser' # NoUser => currentUser # NoUser /\ Uid(currentUser) \in Accounts
    BY UidOfUser DEF TypeInv, TypeOK
  <2>3. QED
    BY <2>1, <2>2 DEF SeenExist, Added
<1>5. SeenIsShown'
  BY DEF SeenIsShown, SawCurrent, Added
<1>6. FreshIsShown'
  BY DEF FreshIsShown, Added
<1>7. QED
  BY <1>1, <1>2, <1>3, <1>4, <1>5, <1>6

(* The current user changes to one that exists, which is posted: what the  *)
(* session holds, and who takes the new user for seen, is all that counts. *)
LEMMA PostedStep ==
  ASSUME SessionInv, MainGrows, main' \in Seq(Task), UNCHANGED listeners,
         \E k \in 1 .. Len(main') : main'[k] = Notify,
         \A u \in Accounts : accounts[u] # "none" => accounts'[u] # "none",
         currentUser' # NoUser => accounts'[Uid(currentUser')] # "none",
         session' \in {session, NoUser}, fresh' = FALSE, SeenIsShown'
  PROVE  ListenersInv'
<1> USE DEF SessionInv, ListenersInv
<1>1. FirstCallsPending'
  BY GrowthKeepsPending
<1>2. ChangesPending'
  BY TasksApart DEF ChangesPending, Notified
<1>3. SessionWasSeen'
  BY DEF SessionWasSeen, Added
<1>4. SeenExist'
  <2>1. \A i \in Added : listeners[i].saw \in Accounts \cup {NoUser}
    BY DEF TypeInv, TypeOK, Added
  <2>2. QED
    BY <2>1 DEF SeenExist, Added
<1>5. QED
  BY <1>1, <1>2, <1>3, <1>4 DEF FreshIsShown

(* A list of listeners that is not empty has a first.                      *)
LEMMA SomeListener ==
  ASSUME TypeInv, listeners # <<>> PROVE 1 \in Added
BY LenProperties, EmptySeq DEF TypeInv, Added

LEMMA InitListeners == Init => SessionInv
<1> SUFFICES ASSUME Init PROVE SessionInv
  OBVIOUS
<1>1. Added = {}
  BY DEF Init, Added
<1>2. QED
  BY <1>1, InitTyped
     DEF Init, SessionInv, ListenersInv, FirstCallsPending, ChangesPending,
         SessionWasSeen, SeenExist, SeenIsShown, FreshIsShown

LEMMA RelaunchListeners ==
  ASSUME SessionInv, Relaunch PROVE ListenersInv'
<1>1. Added' = {}
  BY DEF Relaunch, Added
<1>2. QED
  BY <1>1 DEF Relaunch, SessionInv, ListenersInv, FirstCallsPending, ChangesPending,
              SessionWasSeen, SeenExist, SeenIsShown, FreshIsShown

(* An answer that logs someone in.                                         *)
LEMMA SignInListeners ==
  ASSUME SessionInv, NEW u \in Accounts, SignInAnswered(u) PROVE ListenersInv'
<1> USE DEF SessionInv, ListenersInv
<1>1. /\ main' \in Seq(Task) /\ MainGrows /\ Len(main) + 1 \in 1 .. Len(main')
      /\ main'[Len(main) + 1] = Notify
  BY TasksApart, PostGrows DEF SignInAnswered
<1>2. currentUser' \in User /\ Uid(currentUser') = u /\ accounts' = accounts
      /\ accounts[u] # "none"
  <2>1. currentUser' \in User /\ currentUser'.uid = u
    BY DEF SignInAnswered, User
  <2>2. QED
    BY <2>1, UidOfUser DEF SignInAnswered
<1>3. UNCHANGED <<listeners, session>> /\ fresh' = FALSE
  BY DEF SignInAnswered
<1>4. SeenIsShown'
  <2> SUFFICES ASSUME listeners # <<>>,
                      \A i \in Added : listeners[i].called /\ listeners[i].saw = u
               PROVE  Uid(session) = u \/ (raced' /\ session = NoUser)
    BY <1>2, <1>3 DEF SeenIsShown, SawCurrent, Added
  <2>1. CASE session = NoUser
    BY <2>1 DEF SignInAnswered, Added
  <2>2. CASE session # NoUser
    BY <2>2 DEF SessionWasSeen
  <2>3. QED
    BY <2>1, <2>2
<1>5. QED
  BY <1>1, <1>2, <1>3, <1>4, PostedStep

(* An account just created was seen by no listener.                        *)
LEMMA SignUpListeners ==
  ASSUME SessionInv, TypeInv', NEW u \in Accounts, SignUpAnswered(u)
  PROVE  ListenersInv'
<1> USE DEF SessionInv, ListenersInv
<1> DEFINE posts == <<Notify, [do |-> "created"]>>
<1>1. posts \in Seq(Task) /\ Len(posts) = 2 /\ posts[1] = Notify
  BY TasksApart
<1>2. main' = main \o posts
  BY DEF SignUpAnswered
<1> HIDE DEF posts
<1>3. Len(main) \in Nat /\ main \in Seq(Task)
  BY LenProperties DEF TypeInv
<1>4. /\ Len(main') = Len(main) + Len(posts)
      /\ \A k \in 1 .. Len(main) + Len(posts) :
           main'[k] = IF k <= Len(main) THEN main[k] ELSE posts[k - Len(main)]
  BY <1>1, <1>2, <1>3, ConcatProperties
<1>5. /\ Len(main) + 1 \in 1 .. Len(main') /\ main'[Len(main) + 1] = Notify
      /\ main' \in Seq(Task) /\ MainGrows
  <2>1. /\ Len(main') = Len(main) + 2
        /\ Len(main) + 1 \in 1 .. Len(main') /\ Len(main) <= Len(main')
        /\ ~(Len(main) + 1 <= Len(main)) /\ (Len(main) + 1) - Len(main) = 1
    BY <1>1, <1>3, <1>4
  <2>2. main'[Len(main) + 1] = Notify
    <3>1. Len(main) + 1 \in 1 .. Len(main) + Len(posts)
      BY <1>4, <2>1
    <3>2. main'[Len(main) + 1] = posts[(Len(main) + 1) - Len(main)]
      BY <1>4, <2>1, <3>1
    <3>3. QED
      BY <1>1, <2>1, <3>2
  <2>3. \A k \in 1 .. Len(main) : main'[k] = main[k]
    BY <1>1, <1>3, <1>4
  <2>4. main' \in Seq(Task)
    BY DEF TypeInv
  <2>5. QED
    BY <2>1, <2>2, <2>3, <2>4 DEF MainGrows
<1>6. currentUser' \in User /\ Uid(currentUser') = u /\ accounts[u] = "none"
  <2>1. currentUser' \in User /\ currentUser'.uid = u
    BY DEF SignUpAnswered, User
  <2>2. QED
    BY <2>1, UidOfUser DEF SignUpAnswered
<1>7. /\ accounts'[u] # "none"
      /\ \A v \in Accounts : accounts[v] # "none" => accounts'[v] # "none"
  BY DEF SignUpAnswered, TypeInv, TypeOK
<1>8. UNCHANGED <<listeners, session, raced>> /\ fresh' = FALSE
  BY DEF SignUpAnswered
<1>9. SeenIsShown'
  <2> SUFFICES ASSUME listeners # <<>>, \A i \in Added : listeners[i].saw = u
               PROVE  FALSE
    BY <1>6, <1>8 DEF SeenIsShown, SawCurrent, Added
  <2>1. listeners[1].saw = u
    BY SomeListener
  <2>2. u # NoUser
    BY AccountsAssumption
  <2>3. QED
    BY <1>6, <2>1, <2>2, SomeListener DEF SeenExist
<1>10. QED
  BY <1>5, <1>6, <1>7, <1>8, <1>9, PostedStep

(* Whoever is logged out, the session is empty or some listener has seen   *)
(* its user, who is not nobody.                                            *)
LEMMA LoggedOutListeners ==
  ASSUME SessionInv, main' = Append(main, Notify), currentUser' = NoUser,
         session' \in {session, NoUser}, fresh' = FALSE,
         UNCHANGED <<accounts, listeners, raced>>
  PROVE  ListenersInv'
<1> USE DEF SessionInv, ListenersInv
<1>1. /\ main' \in Seq(Task) /\ MainGrows /\ Len(main) + 1 \in 1 .. Len(main')
      /\ main'[Len(main) + 1] = Notify
  BY TasksApart, PostGrows
<1>2. SeenIsShown'
  <2> SUFFICES ASSUME \A i \in Added : listeners[i].saw = NoUser
               PROVE  session' = NoUser
    BY UidOfUser DEF SeenIsShown, SawCurrent, Added
  <2>1. session # NoUser => Uid(session) # NoUser
    BY UidOfUser DEF TypeInv, TypeOK
  <2>2. QED
    BY <2>1 DEF SessionWasSeen
<1>3. QED
  BY <1>1, <1>2, PostedStep

LEMMA AuthStepListeners ==
  ASSUME SessionInv, TypeInv', AuthStep PROVE ListenersInv'
<1> USE DEF SessionInv
<1>1. main' = main => MainGrows /\ main' \in Seq(Task)
  BY LenProperties DEF MainGrows, TypeInv
<1>2. main' \in Seq(Task) /\ currentUser' \in User \cup {NoUser}
  BY DEF TypeInv, TypeOK
<1>3. ASSUME NEW u \in Accounts, SignInFails(u) PROVE ListenersInv'
  BY <1>1, <1>2, <1>3, QuietStep DEF SignInFails
<1>4. ASSUME NEW u \in Accounts, NEW created \in BOOLEAN, SignUpFails(u, created)
      PROVE  ListenersInv'
  <2>1. \A v \in Accounts : accounts[v] # "none" => accounts'[v] # "none"
    BY <1>4 DEF SignUpFails, TypeInv, TypeOK
  <2>2. QED
    BY <1>1, <1>2, <1>4, <2>1, QuietStep DEF SignUpFails
<1>5. ASSUME NEW u \in Accounts, NEW posted \in BOOLEAN, Reauthenticated(u, posted)
      PROVE  ListenersInv'
  <2>1. MainGrows
    BY <1>1, <1>5, TasksApart, PostGrows DEF Reauthenticated
  <2>2. QED
    BY <1>2, <1>5, <2>1, QuietStep DEF Reauthenticated
<1>6. ASSUME NEW c \in changes, ChangeApplied(c) PROVE ListenersInv'
  <2>1. \A v \in Accounts : accounts[v] # "none" => accounts'[v] # "none"
    BY <1>6 DEF ChangeApplied, TypeInv, TypeOK
  <2>2. QED
    BY <1>1, <1>2, <1>6, <2>1, QuietStep DEF ChangeApplied
<1>7. ASSUME NEW c \in changes, ChangeAnswered(c) PROVE ListenersInv'
  <2>1. Uid(currentUser') = Uid(currentUser)
    <3>1. CASE c.current
      <4>1. c.uid \in Accounts /\ Uid(currentUser) = c.uid
        BY <1>7, <3>1 DEF TypeInv, TypeOK, Change
      <4>2. currentUser \in User
        BY <4>1, UidOfUser, AccountsAssumption DEF TypeInv, TypeOK
      <4>3. currentUser' \in User /\ currentUser'.uid = currentUser.uid
        BY <1>7, <3>1, <4>2 DEF ChangeAnswered, User
      <4>4. QED
        BY <4>2, <4>3, UidOfUser
    <3>2. CASE ~c.current
      BY <1>7, <3>2 DEF ChangeAnswered
    <3>3. QED
      BY <3>1, <3>2
  <2>2. fresh' => fresh /\ currentUser' = currentUser
    BY <1>7 DEF ChangeAnswered
  <2>3. QED
    BY <1>1, <1>2, <1>7, <2>1, <2>2, QuietStep DEF ChangeAnswered
<1>8. ASSUME NEW c \in changes, ChangeFails(c) PROVE ListenersInv'
  BY <1>1, <1>2, <1>8, QuietStep DEF ChangeFails
<1>9. ASSUME NEW c \in changes, TokenRejected(c) PROVE ListenersInv'
  BY <1>9, LoggedOutListeners DEF TokenRejected
<1>10. QED
  BY <1>3, <1>4, <1>5, <1>6, <1>7, <1>8, <1>9, SignInListeners, SignUpListeners
     DEF AuthStep

-----------------------------------------------------------------------------
(* The block of listen() runs for some listeners: for all of them, or for  *)
(* the one whose first call it is.                                         *)
LEMMA CalledListeners ==
  ASSUME SessionInv, RunMain, NEW which \in SUBSET Added, Called(which),
         \A i \in Added : i \notin which => main[1].listener # i \/ main[1].do # "first",
         main[1].do = "notify" => which = Added
  PROVE  ListenersInv'
<1> USE DEF SessionInv, ListenersInv
<1>1. /\ Len(main) \in Nat /\ Len(main') = Len(main) - 1
      /\ \A k \in 1 .. Len(main') : main'[k] = main[k + 1]
      /\ UNCHANGED <<accounts, currentUser, fresh, raced>>
  BY RunMainCases
<1>2. /\ Added' = Added /\ (listeners' # <<>> => listeners # <<>>)
      /\ \A i \in Added :
           listeners'[i] = IF i \in which THEN Seen ELSE listeners[i]
  BY CalledSeen
<1>3. Seen.called /\ Seen.saw = Uid(currentUser)
  BY DEF Seen
<1>4. \A k \in 1 .. Len(main) : k # 1 => k - 1 \in 1 .. Len(main') /\ main'[k - 1] = main[k]
  <2> SUFFICES ASSUME NEW k \in 1 .. Len(main), k # 1
               PROVE  k - 1 \in 1 .. Len(main') /\ main'[k - 1] = main[k]
    OBVIOUS
  <2>1. k - 1 \in 1 .. Len(main') /\ (k - 1) + 1 = k
    BY <1>1
  <2>2. QED
    BY <1>1, <2>1
<1>5. FirstCallsPending'
  <2> SUFFICES ASSUME NEW i \in Added, ~listeners'[i].called PROVE FirstFor(i)'
    BY <1>2 DEF FirstCallsPending
  <2>1. i \notin which /\ ~listeners[i].called
    BY <1>2, <1>3
  <2>2. PICK k \in 1 .. Len(main) : main[k].do = "first" /\ main[k].listener = i
    BY <2>1 DEF FirstCallsPending, FirstFor
  <2>3. k # 1
    BY <2>1, <2>2
  <2>4. QED
    BY <1>4, <2>2, <2>3 DEF FirstFor
<1>6. ChangesPending'
  <2>1. CASE which = Added
    BY <1>1, <1>2, <1>3, <2>1 DEF ChangesPending, SawCurrent
  <2>2. CASE main[1].do # "notify"
    <3>1. Notified => Notified'
      BY <1>4, <2>2 DEF Notified
    <3>2. QED
      BY <1>1, <1>2, <1>3, <3>1 DEF ChangesPending, SawCurrent
  <2>3. QED
    BY <2>1, <2>2
<1>7. SeenExist'
  BY <1>1, <1>2, <1>3, UidOfUser DEF SeenExist
<1>8. CASE \E i \in which : Calls(listeners[i])
  <2>1. session' = currentUser
    BY <1>8 DEF Called
  <2>2. PICK i \in Added : listeners'[i] = Seen
    BY <1>2, <1>8
  <2>3. SessionWasSeen'
    BY <1>2, <1>3, <2>1, <2>2 DEF SessionWasSeen
  <2>4. SeenIsShown' /\ FreshIsShown'
    BY <1>1, <2>1 DEF SeenIsShown, FreshIsShown
  <2>5. QED
    BY <1>5, <1>6, <1>7, <2>3, <2>4
<1>9. CASE ~\E i \in which : Calls(listeners[i])
  <2>1. session' = session
    BY <1>9 DEF Called
  <2>2. \A i \in which : listeners[i].called /\ listeners[i].saw = Uid(currentUser)
    BY <1>9 DEF Calls
  <2>3. \A i \in Added : /\ listeners'[i].called = listeners[i].called
                         /\ listeners'[i].saw = listeners[i].saw
    <3>1. \A i \in Added : listeners[i].called \in BOOLEAN
      BY DEF TypeInv, TypeOK, Added
    <3>2. QED
      BY <1>2, <1>3, <2>2, <3>1
  <2>4. SessionWasSeen'
    BY <1>2, <2>1, <2>3 DEF SessionWasSeen
  <2>5. SeenIsShown'
    BY <1>1, <1>2, <2>1, <2>3 DEF SeenIsShown, SawCurrent
  <2>6. FreshIsShown'
    BY <1>1, <1>2, <2>1, <2>3 DEF FreshIsShown
  <2>7. QED
    BY <1>5, <1>6, <1>7, <2>4, <2>5, <2>6
<1>10. QED
  BY <1>8, <1>9

LEMMA RunMainListeners ==
  ASSUME SessionInv, RunMain PROVE ListenersInv'
<1> USE DEF SessionInv
<1>1. CASE main[1].do = "notify" /\ Called(Added)
  BY <1>1, CalledListeners
<1>2. CASE /\ main[1].do = "first" /\ main[1].listener \in Added
           /\ Called({main[1].listener})
  BY <1>2, CalledListeners
<1>3. CASE main[1].do = "created" /\ Created
  <2>1. /\ Len(main) \in Nat /\ Len(main') = Len(main) - 1
        /\ \A k \in 1 .. Len(main') : main'[k] = main[k + 1]
        /\ UNCHANGED <<accounts, currentUser, fresh, raced, listeners, session>>
    BY <1>3, RunMainCases DEF Created
  <2>2. \A k \in 1 .. Len(main) : main[k].do # "created"
          => \E j \in 1 .. Len(main') : main'[j] = main[k]
    <3> SUFFICES ASSUME NEW k \in 1 .. Len(main), main[k].do # "created"
                 PROVE  \E j \in 1 .. Len(main') : main'[j] = main[k]
      OBVIOUS
    <3>1. k # 1
      BY <1>3
    <3>2. k - 1 \in 1 .. Len(main') /\ (k - 1) + 1 = k
      BY <2>1, <3>1
    <3>3. QED
      BY <2>1, <3>2
  <2>3. FirstCallsPending'
    <3> SUFFICES ASSUME NEW i \in Added, ~listeners[i].called PROVE FirstFor(i)'
      BY <2>1 DEF FirstCallsPending, Added
    <3>1. PICK k \in 1 .. Len(main) : main[k].do = "first" /\ main[k].listener = i
      BY DEF ListenersInv, FirstCallsPending, FirstFor
    <3>2. QED
      BY <2>2, <3>1 DEF FirstFor
  <2>4. ChangesPending'
    BY <2>1, <2>2 DEF ListenersInv, ChangesPending, Notified, SawCurrent, Added
  <2>5. QED
    BY <2>1, <2>3, <2>4 DEF ListenersInv, SessionWasSeen, SeenExist, SeenIsShown,
                            FreshIsShown, SawCurrent, Added
<1>4. QED
  BY <1>1, <1>2, <1>3, RunMainCases

LEMMA OpenMenuListeners ==
  ASSUME SessionInv, OpenMenu PROVE ListenersInv'
<1> USE DEF SessionInv, ListenersInv
<1> DEFINE n == Len(listeners) + 1
<1>1. /\ Listen /\ UNCHANGED <<accounts, currentUser, session>>
  BY DEF OpenMenu, auth
<1>2. /\ Len(listeners) \in Nat /\ Len(listeners') = n /\ n \in Added'
      /\ \A i \in Added : listeners'[i] = listeners[i]
      /\ listeners'[n].saw = NoUser /\ ~listeners'[n].called
      /\ Added' = Added \cup {n}
  BY <1>1, ListenAdds DEF Added
<1>3. /\ Len(main) + 1 \in 1 .. Len(main') /\ main' \in Seq(Task) /\ MainGrows
      /\ main'[Len(main) + 1].do = "first" /\ main'[Len(main) + 1].listener = n
      /\ \A k \in 1 .. Len(main) : k \in 1 .. Len(main') /\ main'[k] = main[k]
  BY <1>1, ListenAdds DEF MainGrows
<1> HIDE DEF n
<1>4. FirstCallsPending'
  BY <1>2, <1>3 DEF FirstCallsPending, FirstFor
<1>5. ChangesPending'
  BY <1>1, <1>2, <1>3 DEF ChangesPending, Notified, SawCurrent
<1>6. SessionWasSeen' /\ SeenExist'
  BY <1>1, <1>2 DEF SessionWasSeen, SeenExist
<1>7. SeenIsShown' /\ FreshIsShown'
  BY <1>2 DEF SeenIsShown, FreshIsShown, SawCurrent
<1>8. QED
  BY <1>4, <1>5, <1>6, <1>7

LEMMA UserStepListeners ==
  ASSUME SessionInv, TypeInv', UserStep PROVE ListenersInv'
<1> USE DEF SessionInv
<1>1. main' = main => MainGrows /\ main' \in Seq(Task)
  BY LenProperties DEF MainGrows, TypeInv
<1>2. currentUser \in User \cup {NoUser}
  BY DEF TypeInv, TypeOK
<1>3. CASE CloseMenu
  BY <1>1, <1>2, <1>3, QuietStep DEF CloseMenu, auth
<1>4. CASE TapLogin
  BY <1>1, <1>2, <1>4, QuietStep DEF TapLogin, auth
<1>5. CASE TapTraps
  BY <1>5, RelaunchListeners DEF TapTraps
<1>6. CASE SignOut
  <2>1. CASE currentUser # NoUser
    BY <1>6, <2>1, LoggedOutListeners DEF SignOut
  <2>2. CASE currentUser = NoUser
    <3>1. /\ UNCHANGED <<accounts, currentUser, main, listeners, raced>>
          /\ session' = NoUser /\ fresh' = fresh
      BY <1>6, <2>2 DEF SignOut, TypeInv, TypeOK
    <3>2. QED
      BY <2>2, <3>1
         DEF ListenersInv, FirstCallsPending, FirstFor, ChangesPending, Notified,
             SawCurrent, SessionWasSeen, SeenExist, SeenIsShown, FreshIsShown, Added
  <2>3. QED
    BY <2>1, <2>2
<1>7. ASSUME NEW u \in Accounts, PressSignIn(u) \/ PressSignUp(u)
      PROVE  ListenersInv'
  BY <1>1, <1>2, <1>7, QuietStep DEF PressSignIn, PressSignUp
<1>8. QED
  BY <1>3, <1>4, <1>5, <1>6, <1>7, OpenMenuListeners DEF UserStep

THEOREM SessionInvInvariant == Spec => []SessionInv
<1>1. SessionInv /\ TypeInv' /\ [Next]_vars => SessionInv'
  <2> SUFFICES ASSUME SessionInv, TypeInv', [Next]_vars PROVE ListenersInv'
    BY DEF SessionInv
  <2>1. CASE Next
    BY <2>1, AuthStepListeners, RunMainListeners, UserStepListeners,
       RelaunchListeners DEF Next
  <2>2. CASE UNCHANGED vars
    BY <2>2 DEF vars, SessionInv, ListenersInv, FirstCallsPending, FirstFor,
                ChangesPending, Notified, SawCurrent, SessionWasSeen, SeenExist,
                SeenIsShown, FreshIsShown, Added
  <2>3. QED
    BY <2>1, <2>2
<1>2. QED
  BY InitListeners, TypeInvInvariant, <1>1, PTL DEF Spec

-----------------------------------------------------------------------------
(* Users, requests and posts keep their types, and no object of the past   *)
(* is taken for Auth's current one.                                        *)
THEOREM TypeCorrect == Spec => []TypeOK
<1>1. TypeInv => TypeOK
  BY DEF TypeInv
<1>2. QED
  BY TypeInvInvariant, <1>1, PTL

LEMMA EmptyMainHasNoTask ==
  ASSUME main = <<>>
  PROVE  ~Notified /\ \A i : ~FirstFor(i)
BY DEF Notified, FirstFor

(* With the main queue empty the published session is the account Auth is  *)
(* signed in to, but for the log-in that overtakes a log-out's post.       *)
THEOREM SessionAlwaysFollowsAuth == Spec => []SessionFollowsAuth
<1>1. SessionInv => SessionFollowsAuth
  BY EmptyMainHasNoTask
     DEF SessionInv, ListenersInv, FirstCallsPending, ChangesPending, SeenIsShown,
         SessionFollowsAuth
<1>2. QED
  BY SessionInvInvariant, <1>1, PTL

(* The listener that each appearance of the menu adds makes the session    *)
(* the current user itself.                                                *)
THEOREM FreshMenuAlwaysShowsUser == Spec => []FreshMenuShowsUser
<1>1. SessionInv => FreshMenuShowsUser
  BY EmptyMainHasNoTask
     DEF SessionInv, ListenersInv, FirstCallsPending, FreshIsShown,
         FreshMenuShowsUser
<1>2. QED
  BY SessionInvInvariant, <1>1, PTL
=============================================================================
