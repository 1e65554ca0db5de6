--------------------------- MODULE FormValidation ---------------------------
(***************************************************************************)
(* The forms of the pages that sign in and up: what is typed, what has     *)
(* been judged of it, and whether the button is enabled                    *)
(* (LoginUserViewModel.swift, RegisterUserViewModel.swift,                 *)
(* PasswordStrength.swift).                                                *)
(*                                                                         *)
(* Every edit of a field starts its timer again (debounce); when it runs   *)
(* out the text of that moment is judged.  A view model subscribes twice   *)
(* to each field, for the button and for the message at the field: both    *)
(* timers are started by the same edits and run out together, in one step  *)
(* of this module.  How long a timer takes is left open.                   *)
(***************************************************************************)
EXTENDS Integers, FiniteSets

CONSTANTS Names, Emails, Passwords,   \* texts that can be typed
          ValidEmails, Strong,        \* those the patterns accept
          Empty                       \* the empty text

ASSUME PatternsAssumption ==
  /\ ValidEmails \subseteq Emails /\ Strong \subseteq Passwords
  /\ Empty \notin Names \cup Emails \cup Passwords

VARIABLES
  form,     \* "login" or "register"
  text,     \* text[f]: what field f shows
  due,      \* fields whose timer runs
  seen,     \* seen[f]: the text of f judged last
  against,  \* the password the confirmation was last compared with
  verdicts, \* verdicts[f]: how many there were, counted up to two
  combined, \* combinations of verdicts so far, counted up to two
  isValid,  \* the button is enabled
  error     \* error[f]: a message is shown at f

vars == <<form, text, due, seen, against, verdicts, combined, isValid, error>>

Fields == IF form = "login"
          THEN {"email", "password"}
          ELSE {"username", "email", "password", "confirmPassword"}

AllFields == {"username", "email", "password", "confirmPassword"}

Typeable == [username |-> Names, email |-> Emails,
             password |-> Passwords, confirmPassword |-> Passwords]

Texts(f) == {Empty} \cup Typeable[f]

(* A new view model: the empty texts are published as it subscribes.       *)
Start ==
  [text     |-> [f \in AllFields |-> Empty],
   seen     |-> [f \in AllFields |-> Empty],
   verdicts |-> [f \in AllFields |-> 0],
   error    |-> [f \in AllFields |-> FALSE]]

Init ==
  /\ form \in {"login", "register"}
  /\ text = Start.text
  /\ due = Fields
  /\ seen = Start.seen
  /\ against = Empty
  /\ verdicts = Start.verdicts
  /\ combined = 0
  /\ isValid = FALSE
  /\ error = Start.error

-----------------------------------------------------------------------------
(* No error for text t of f, while the password is the one given.          *)
Accepted(f, t, password) ==
  /\ f \in {"username", "confirmPassword"} => t # Empty
  /\ f = "email" => t \in ValidEmails
  /\ f = "confirmPassword" => t = password
  /\ f = "password" => IF form = "login" THEN t # Empty ELSE t \in Strong

(* removeDuplicates() stands before the timer of the password, and after   *)
(* those of the name and the email; the confirmation has none.             *)
Passes(f, t) == f = "password" => t # text[f]

Emits(f) ==
  f \in {"username", "email"} => verdicts[f] = 0 \/ text[f] # seen[f]

UpToTwo(n) == IF n < 2 THEN n + 1 ELSE 2

(* Slip: text that passes no test stops the timer.                         *)
Type_StopsTimer(f, t) ==
  /\ f \in Fields
  /\ text' = [text EXCEPT ![f] = t]
  /\ due' = IF t = Empty THEN due \ {f} ELSE due \cup {f}
  /\ UNCHANGED <<form, seen, against, verdicts, combined, isValid, error>>

Type(f, t) ==
  /\ f \in Fields
  /\ text' = [text EXCEPT ![f] = t]
  /\ due' = IF Passes(f, t) THEN due \cup {f} ELSE due
  /\ UNCHANGED <<form, seen, against, verdicts, combined, isValid, error>>

(* Slip: a verdict waits for the next one before it is used.               *)
Combine_Late ==
  IF \A f \in Fields : verdicts'[f] > 0
  THEN /\ combined' = UpToTwo(combined)
       /\ isValid' = IF combined = 0 THEN isValid
                     ELSE \A f \in Fields : Accepted(f, seen[f], against)
  ELSE UNCHANGED <<combined, isValid>>

(* The verdicts are combined when every field has one, at every verdict;   *)
(* the first combination is dropped.                                       *)
Combine ==
  IF \A f \in Fields : verdicts'[f] > 0
  THEN /\ combined' = UpToTwo(combined)
       /\ isValid' = IF combined = 0 THEN isValid
                     ELSE \A f \in Fields : Accepted(f, seen'[f], against')
  ELSE UNCHANGED <<combined, isValid>>

(* Slip: a message stays until the field is judged wrong again.            *)
ShowError_Stays(f) ==
  error' = IF verdicts[f] = 0 \/ Accepted(f, seen'[f], against') THEN error
           ELSE [error EXCEPT ![f] = TRUE]

(* The message at a field follows its verdicts, the first one dropped.     *)
ShowError(f) ==
  error' = IF verdicts[f] = 0 THEN error
           ELSE [error EXCEPT ![f] = ~Accepted(f, seen'[f], against')]

TimerRunsOut(f) ==
  /\ f \in due
  /\ due' = due \ {f}
  /\ IF Emits(f)
     THEN /\ seen' = [seen EXCEPT ![f] = text[f]]
          /\ against' = IF f = "confirmPassword" THEN text["password"] ELSE against
          /\ verdicts' = [verdicts EXCEPT ![f] = UpToTwo(@)]
          /\ Combine
          /\ ShowError(f)
     ELSE UNCHANGED <<seen, against, verdicts, combined, isValid, error>>
  /\ UNCHANGED <<form, text>>

(* Slip: the view model of the other page is made.                         *)
DrawnAgain_OtherFields ==
  /\ text' = Start.text
  /\ due' = AllFields
  /\ seen' = Start.seen
  /\ against' = Empty
  /\ verdicts' = Start.verdicts
  /\ combined' = 0
  /\ isValid' = FALSE
  /\ error' = Start.error
  /\ UNCHANGED form

(* The page is drawn again from the menu below it, as when the session     *)
(* changes: it makes a view model of its own each time, and starts anew.   *)
DrawnAgain ==
  /\ text' = Start.text
  /\ due' = Fields
  /\ seen' = Start.seen
  /\ against' = Empty
  /\ verdicts' = Start.verdicts
  /\ combined' = 0
  /\ isValid' = FALSE
  /\ error' = Start.error
  /\ UNCHANGED form

RunLoop == \E f \in Fields : TimerRunsOut(f)

Next ==
  \/ \E f \in Fields : \E t \in Texts(f) : Type(f, t)
  \/ RunLoop
  \/ DrawnAgain

(* While a timer runs, some timer comes to its end.                        *)
Spec == Init /\ [][Next]_vars /\ WF_vars(RunLoop)

-----------------------------------------------------------------------------
TypeOK ==
  /\ form \in {"login", "register"}
  /\ \A f \in AllFields : text[f] \in Texts(f) /\ seen[f] \in Texts(f)
  /\ due \subseteq Fields
  /\ against \in Texts("password")
  /\ verdicts \in [AllFields -> 0 .. 2]
  /\ combined \in 0 .. 2
  /\ isValid \in BOOLEAN
  /\ error \in [AllFields -> BOOLEAN]

(* What the button sends while it is enabled has been accepted, field by   *)
(* field, or was edited within the last half second (its timer runs).      *)
(* One thing is not looked at again: a password changed after its          *)
(* confirmation was typed (RegisterUserViewModel.swift:125).               *)
OpenFormWasGood ==
  isValid =>
    \A f \in Fields : \/ f \in due
                      \/ Accepted(f, text[f], against)

(* A form that stays shut says why, once it is quiet: a message is shown   *)
(* at some field.  The exceptions are what the dropped firsts hide: a      *)
(* field never judged but once, or a form never combined but once.  And    *)
(* no message stands at a field that was last accepted.                    *)
ShutFormSaysWhy ==
  /\ due = {} /\ ~isValid =>
       \/ combined < 2
       \/ \E f \in Fields : error[f]
       \/ \E f \in Fields : verdicts[f] = 1 /\ ~Accepted(f, seen[f], against)
  /\ \A f \in Fields : error[f] => ~Accepted(f, seen[f], against)

(* A form filled in well and then left alone opens.  It does not when      *)
(* only the dropped first combination saw it, being filled in before       *)
(* anything was judged, or when the confirmation was last compared with    *)
(* another password.                                                       *)
FilledIn == \A f \in Fields : Accepted(f, text[f], text["password"])

LeftAlone == <>[][RunLoop]_vars

FilledFormOpens ==
  LeftAlone /\ <>[]FilledIn =>
    <>[](\/ isValid
         \/ combined < 2
         \/ form = "register" /\ against # text["password"])
=============================================================================
