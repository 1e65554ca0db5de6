------------------------------- MODULE Session -------------------------------
(***************************************************************************)
(* Who is signed in, and who the program believes is: the menu             *)
(* (MenuView.swift), the pages that sign in and up (LoginView.swift,       *)
(* RegisterView.swift), the session they read (SessionStore.swift), and    *)
(* what the program relies on of Firebase Auth (FIRAuth.m, FIRUser.m).     *)
(*                                                                         *)
(* Auth answers requests on a queue of its own, changes its current user   *)
(* there, and posts that to the main queue.  Listeners run on the main     *)
(* queue, between the user's gestures, and read the current user of that   *)
(* moment.  A user is known by an account; of the name chosen when signing *)
(* up only matters whether it is known.                                    *)
(***************************************************************************)
EXTENDS Integers, Sequences, FiniteSets, SequencesExt

CONSTANTS Accounts,
          NoUser,
          MaxAsked,      \* bound: requests of a kind for one account under way
          MaxPosted,     \* bound: tasks on the main queue
          MaxListeners   \* bound: appearances of the menu

ASSUME BoundsAssumption ==
  MaxAsked \in Nat /\ MaxPosted \in Nat /\ MaxListeners \in Nat

VARIABLES
  accounts,    \* the server's: "none", "plain" (no name yet) or "named"
  currentUser, \* Auth's, which outlives the process: NoUser or [uid, named]
  signIns,     \* signIns[u]: requests to sign in as u, not answered
  signUps,     \* signUps[u]: requests to create u, not answered
  changes,     \* changes of profile not answered: [uid, current, applied]
  reauths,     \* accounts whose re-authentication is not answered
  main,        \* tasks Auth has put on the main queue
  listeners,   \* a listener's first call is made or not, and what it saw
  session,     \* the published session: NoUser or [uid, named]
  page,        \* "home", "menu", or "account": a page that signs in or up
  fresh,       \* history: a listener was added since Auth last changed
  raced        \* history: signed in again before the log-out was announced

network == <<signIns, signUps, changes, reauths>>
auth    == <<accounts, currentUser, network>>
vars    == <<accounts, currentUser, network, main, listeners, session, page,
             fresh, raced>>

User == [uid : Accounts, named : BOOLEAN]

(* Nobody is neither an account nor a user object.                         *)
ASSUME AccountsAssumption == NoUser \notin Accounts /\ NoUser \notin User

Change == [uid     : Accounts,
           current : BOOLEAN,   \* the user object is still Auth's current one
           applied : BOOLEAN]   \* the server has made the change

Uid(user) == IF user = NoUser THEN NoUser ELSE user.uid

Notify == [do |-> "notify"]

Init ==
  /\ accounts \in [Accounts -> {"none", "named"}]
  /\ currentUser = NoUser
  /\ signIns = [u \in Accounts |-> 0]
  /\ signUps = [u \in Accounts |-> 0]
  /\ changes = {}
  /\ reauths = {}
  /\ main = <<>>
  /\ listeners = <<>>
  /\ session = NoUser
  /\ page = "home"
  /\ fresh = FALSE
  /\ raced = FALSE

(* The process ends and is started again; the keychain keeps the user.     *)
Relaunch ==
  /\ signIns' = [u \in Accounts |-> 0]
  /\ signUps' = [u \in Accounts |-> 0]
  /\ changes' = {}
  /\ reauths' = {}
  /\ main' = <<>>
  /\ listeners' = <<>>
  /\ session' = NoUser
  /\ page' = "home"
  /\ fresh' = FALSE
  /\ raced' = FALSE
  /\ UNCHANGED <<accounts, currentUser>>

-----------------------------------------------------------------------------
(* Auth.  Every change of the current user makes the objects before it     *)
(* objects of the past, and is posted.                                     *)
Orphaned == {[c EXCEPT !.current = FALSE] : c \in changes}

(* Slip: a log-in is not posted.                                           *)
SignInAnswered_Silent(u) ==
  /\ signIns[u] > 0
  /\ accounts[u] # "none"
  /\ Len(main) < MaxPosted
  /\ signIns' = [signIns EXCEPT ![u] = @ - 1]
  /\ currentUser' = [uid |-> u, named |-> accounts[u] = "named"]
  /\ changes' = Orphaned
  /\ fresh' = FALSE
  /\ UNCHANGED <<accounts, signUps, reauths, main, listeners, session, page,
                 raced>>

SignInAnswered(u) ==
  /\ signIns[u] > 0
  /\ accounts[u] # "none"
  /\ Len(main) < MaxPosted
  /\ signIns' = [signIns EXCEPT ![u] = @ - 1]
  /\ currentUser' = [uid |-> u, named |-> accounts[u] = "named"]
  /\ changes' = Orphaned
  /\ main' = Append(main, Notify)
  /\ fresh' = FALSE
  /\ raced' = \/ raced
               \/ /\ session = NoUser /\ listeners # <<>>
                  /\ \A i \in 1 .. Len(listeners) :
                       listeners[i].called /\ listeners[i].saw = u
  /\ UNCHANGED <<accounts, signUps, reauths, listeners, session, page>>

SignInFails(u) ==
  /\ signIns[u] > 0
  /\ signIns' = [signIns EXCEPT ![u] = @ - 1]
  /\ UNCHANGED <<accounts, currentUser, signUps, changes, reauths, main,
                 listeners, session, page, fresh, raced>>

(* The completion handler of createUser() follows the post.                *)
SignUpAnswered(u) ==
  /\ signUps[u] > 0
  /\ accounts[u] = "none"
  /\ Len(main) + 1 < MaxPosted
  /\ signUps' = [signUps EXCEPT ![u] = @ - 1]
  /\ accounts' = [accounts EXCEPT ![u] = "plain"]
  /\ currentUser' = [uid |-> u, named |-> FALSE]
  /\ changes' = Orphaned
  /\ main' = main \o <<Notify, [do |-> "created"]>>
  /\ fresh' = FALSE
  /\ UNCHANGED <<signIns, reauths, listeners, session, page, raced>>

(* An error: the account exists, or the answer is lost on the way back.    *)
SignUpFails(u, created) ==
  /\ signUps[u] > 0
  /\ signUps' = [signUps EXCEPT ![u] = @ - 1]
  /\ accounts' = [accounts EXCEPT ![u] = IF created /\ @ = "none" THEN "plain" ELSE @]
  /\ UNCHANGED <<currentUser, signIns, changes, reauths, main, listeners,
                 session, page, fresh, raced>>

(* The re-authentication renews the token of its user: if that is still    *)
(* the current one it is posted, and no listener sees another user.        *)
Reauthenticated(u, posted) ==
  /\ u \in reauths
  /\ reauths' = reauths \ {u}
  /\ posted => Uid(currentUser) = u /\ Len(main) < MaxPosted
  /\ main' = IF posted THEN Append(main, Notify) ELSE main
  /\ UNCHANGED <<accounts, currentUser, signIns, signUps, changes, listeners,
                 session, page, fresh, raced>>

ChangeApplied(c) ==
  /\ c \in changes /\ ~c.applied
  /\ accounts' = [accounts EXCEPT ![c.uid] = "named"]
  /\ changes' = (changes \ {c}) \cup {[c EXCEPT !.applied = TRUE]}
  /\ UNCHANGED <<currentUser, signIns, signUps, reauths, main, listeners,
                 session, page, fresh, raced>>

(* The answer names the user object the change was asked for.  No token    *)
(* changes, so nothing is posted.                                          *)
ChangeAnswered(c) ==
  /\ c \in changes /\ c.applied
  /\ changes' = changes \ {c}
  /\ currentUser' = IF c.current THEN [currentUser EXCEPT !.named = TRUE]
                                 ELSE currentUser
  /\ fresh' = (fresh /\ currentUser' = currentUser)
  /\ UNCHANGED <<accounts, signIns, signUps, reauths, main, listeners, session,
                 page, raced>>

ChangeFails(c) ==
  /\ c \in changes
  /\ changes' = changes \ {c}
  /\ UNCHANGED <<accounts, currentUser, signIns, signUps, reauths, main,
                 listeners, session, page, fresh, raced>>

(* The server takes the token for invalid: Auth signs out the user the     *)
(* change was for, if it is the current one.                               *)
TokenRejected(c) ==
  /\ c \in changes /\ c.current
  /\ Len(main) < MaxPosted
  /\ changes' = Orphaned \ {[c EXCEPT !.current = FALSE]}
  /\ currentUser' = NoUser
  /\ main' = Append(main, Notify)
  /\ fresh' = FALSE
  /\ UNCHANGED <<accounts, signIns, signUps, reauths, listeners, session, page,
                 raced>>

-----------------------------------------------------------------------------
(* The main queue.  A listener is called the first time, and then whenever *)
(* it sees another account than the time before.                           *)
Calls(l) == ~l.called \/ l.saw # Uid(currentUser)

Seen == [called |-> TRUE, saw |-> Uid(currentUser)]

(* Slip: the listener does nothing when there is no user.                  *)
Called_IgnoresNobody(which) ==
  /\ listeners' = [i \in 1 .. Len(listeners) |->
                     IF i \in which THEN Seen ELSE listeners[i]]
  /\ session' = IF (\E i \in which : Calls(listeners[i])) /\ currentUser # NoUser
                THEN currentUser ELSE session

(* The block of listen(): the session becomes the user of this moment.     *)
Called(which) ==
  /\ listeners' = [i \in 1 .. Len(listeners) |->
                     IF i \in which THEN Seen ELSE listeners[i]]
  /\ session' = IF \E i \in which : Calls(listeners[i])
                THEN currentUser ELSE session

(* createUser()'s handler: whoever is the current user by now is           *)
(* re-authenticated and, without waiting for that, named.                  *)
Created ==
  /\ IF currentUser = NoUser
     THEN UNCHANGED <<changes, reauths>>
     ELSE /\ changes' = changes \cup {[uid     |-> currentUser.uid,
                                       current |-> TRUE,
                                       applied |-> FALSE]}
          /\ reauths' = reauths \cup {currentUser.uid}
  /\ UNCHANGED <<listeners, session>>

RunMain ==
  /\ main # <<>>
  /\ main' = Tail(main)
  /\ LET task == Head(main)
     IN  CASE task.do = "notify" ->
                Called(1 .. Len(listeners)) /\ UNCHANGED <<changes, reauths>>
           [] task.do = "first" ->
                Called({task.listener}) /\ UNCHANGED <<changes, reauths>>
           [] task.do = "created" -> Created
  /\ UNCHANGED <<accounts, currentUser, signIns, signUps, page, fresh, raced>>

-----------------------------------------------------------------------------
(* Slip: a second listener is taken for superfluous.                       *)
Listen_Once ==
  IF listeners = <<>>
  THEN /\ Len(main) < MaxPosted
       /\ listeners' = <<[called |-> FALSE, saw |-> NoUser]>>
       /\ main' = Append(main, [do |-> "first", listener |-> 1])
       /\ fresh' = TRUE
       /\ raced' = FALSE
  ELSE /\ fresh' = TRUE
       /\ raced' = FALSE
       /\ UNCHANGED <<listeners, main>>

(* listen(): the handle of the listener before is forgotten, and it stays. *)
Listen ==
  /\ Len(listeners) < MaxListeners
  /\ Len(main) < MaxPosted
  /\ listeners' = Append(listeners, [called |-> FALSE, saw |-> NoUser])
  /\ main' = Append(main, [do |-> "first", listener |-> Len(listeners')])
  /\ fresh' = TRUE
  /\ raced' = FALSE

(* The menu appears when it is opened, and when a page over it is left.    *)
OpenMenu ==
  /\ page \in {"home", "account"}
  /\ page' = "menu"
  /\ Listen
  /\ UNCHANGED <<auth, session>>

CloseMenu ==
  /\ page = "menu"
  /\ page' = "home"
  /\ UNCHANGED <<auth, main, listeners, session, fresh, raced>>

(* "Login" leads to a page for nobody.  For a user who has a name it shows *)
(* the name, which changes nothing; without one it ends the program.       *)
TapLogin ==
  /\ page = "menu" /\ session = NoUser
  /\ page' = "account"
  /\ UNCHANGED <<auth, main, listeners, session, fresh, raced>>

TapTraps ==
  /\ page = "menu" /\ session # NoUser
  /\ ~session.named
  /\ Relaunch

(* Slip: the user object stays current for the requests made with it.      *)
SignOut_KeepsObject ==
  /\ page = "menu"
  /\ currentUser # NoUser => Len(main) < MaxPosted
  /\ currentUser' = NoUser
  /\ main' = IF currentUser # NoUser THEN Append(main, Notify) ELSE main
  /\ session' = NoUser
  /\ fresh' = (fresh /\ currentUser = NoUser)
  /\ UNCHANGED <<accounts, network, listeners, page, raced>>

(* "Log out": the session is cleared before Auth's listeners hear of it.   *)
SignOut ==
  /\ page = "menu"
  /\ currentUser # NoUser => Len(main) < MaxPosted
  /\ currentUser' = NoUser
  /\ changes' = Orphaned
  /\ main' = IF currentUser # NoUser THEN Append(main, Notify) ELSE main
  /\ session' = NoUser
  /\ fresh' = (fresh /\ currentUser = NoUser)
  /\ UNCHANGED <<accounts, signIns, signUps, reauths, listeners, page, raced>>

(* SIGN IN and SIGN UP: with the request made, the session is read at      *)
(* once.  The page closes if there is one, which an earlier press has to   *)
(* thank for; else it stays, and may be used again.                        *)
PageAfterPress == page' = IF session # NoUser THEN "home" ELSE "account"

PressSignIn(u) ==
  /\ page = "account"
  /\ signIns[u] < MaxAsked
  /\ signIns' = [signIns EXCEPT ![u] = @ + 1]
  /\ PageAfterPress
  /\ UNCHANGED <<accounts, currentUser, signUps, changes, reauths, main,
                 listeners, session, fresh, raced>>

PressSignUp(u) ==
  /\ page = "account"
  /\ signUps[u] < MaxAsked
  /\ signUps' = [signUps EXCEPT ![u] = @ + 1]
  /\ PageAfterPress
  /\ UNCHANGED <<accounts, currentUser, signIns, changes, reauths, main,
                 listeners, session, fresh, raced>>

-----------------------------------------------------------------------------
AuthStep ==
  \/ \E u \in Accounts : \/ SignInAnswered(u)
                         \/ SignInFails(u)
                         \/ SignUpAnswered(u)
                         \/ \E created \in BOOLEAN : SignUpFails(u, created)
                         \/ \E posted \in BOOLEAN : Reauthenticated(u, posted)
  \/ \E c \in changes : \/ ChangeApplied(c)
                        \/ ChangeAnswered(c)
                        \/ ChangeFails(c)
                        \/ TokenRejected(c)

UserStep ==
  \/ OpenMenu
  \/ CloseMenu
  \/ TapLogin
  \/ TapTraps
  \/ SignOut
  \/ \E u \in Accounts : PressSignIn(u) \/ PressSignUp(u)

Next == AuthStep \/ RunMain \/ UserStep \/ Relaunch

Spec == Init /\ [][Next]_vars

(* The main queue is served as long as the process lives.                  *)
FairSpec == Spec /\ WF_vars(RunMain)

-----------------------------------------------------------------------------
(* Every field has a value of its kind; a first call is for a listener     *)
(* that has been added, and at most one change is for the current object   *)
(* of an account.                                                          *)
TypeOK ==
  /\ accounts \in [Accounts -> {"none", "plain", "named"}]
  /\ currentUser \in User \cup {NoUser}
  /\ signIns \in [Accounts -> 0 .. MaxAsked]
  /\ signUps \in [Accounts -> 0 .. MaxAsked]
  /\ changes \subseteq Change
  /\ \A c \in changes : c.current => Uid(currentUser) = c.uid
  /\ reauths \subseteq Accounts
  /\ Len(main) <= MaxPosted
  /\ \A i \in 1 .. Len(main) :
       \/ main[i] \in {Notify, [do |-> "created"]}
       \/ main[i] \in [do : {"first"}, listener : 1 .. Len(listeners)]
  /\ Len(listeners) <= MaxListeners
  /\ \A i \in 1 .. Len(listeners) :
       listeners[i] \in [called : BOOLEAN, saw : Accounts \cup {NoUser}]
  /\ session \in User \cup {NoUser}
  /\ page \in {"home", "menu", "account"}
  /\ fresh \in BOOLEAN /\ raced \in BOOLEAN

(* With nothing left on the main queue, and a menu opened once, the        *)
(* session is the account Auth is signed in to.  There is one exception:   *)
(* an answer signs the same user in again before the log-out has been      *)
(* announced; every listener then takes the user for one it has seen, and  *)
(* the session stays empty (signOut() clears it by hand).                  *)
SessionFollowsAuth ==
  main = <<>> /\ listeners # <<>> =>
    \/ Uid(session) = Uid(currentUser)
    \/ raced /\ session = NoUser

(* The listener each appearance of the menu adds mends all that: nothing   *)
(* having changed since, the session is the current user, name included.   *)
(* A tap on "Login" (displayName!, MenuView.swift:57) is then as safe as   *)
(* the user object is.                                                     *)
FreshMenuShowsUser == main = <<>> /\ fresh => session = currentUser

(* Whoever is signed in is shown to be, sooner or later, by a program      *)
(* whose menu has been opened, unless that is undone or the exception      *)
(* above is met: no post of Auth is lost on the way.                       *)
SignInIsShown ==
  \A u \in Accounts :
    (listeners # <<>> /\ Uid(currentUser) = u)
      ~> (listeners = <<>> \/ Uid(currentUser) # u \/ raced \/ Uid(session) = u)
=============================================================================
