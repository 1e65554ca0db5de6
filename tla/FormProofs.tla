----------------------------- MODULE FormProofs -----------------------------
(***************************************************************************)
(* Proofs about the forms of module FormValidation, for every set of texts *)
(* and whatever the patterns accept.                                       *)
(***************************************************************************)
EXTENDS FormValidation, TLAPS

AnyText == {Empty} \cup Names \cup Emails \cup Passwords

(* A field's verdict is about its text, unless its timer runs.             *)
JudgedOrDue == \A f \in Fields : f \in due \/ seen[f] = text[f]

(* The button follows the verdicts from the second combination on, and     *)
(* there is a combination only when every field has a verdict.             *)
ButtonFollows ==
  /\ combined > 0 => \A f \in Fields : verdicts[f] > 0
  /\ isValid <=> combined = 2 /\ \A f \in Fields : Accepted(f, seen[f], against)

(* A message follows the verdicts of its field, from the second one on.    *)
MessagesFollow ==
  \A f \in Fields : error[f] <=> verdicts[f] = 2 /\ ~Accepted(f, seen[f], against)

Typed ==
  /\ TypeOK
  /\ text \in [AllFields -> AnyText]
  /\ seen \in [AllFields -> AnyText]

FormInv == Typed /\ JudgedOrDue /\ ButtonFollows /\ MessagesFollow

-----------------------------------------------------------------------------
(* Only the confirmation is judged by the password it is given.            *)
LEMMA OthersIgnorePassword ==
  ASSUME NEW f, f # "confirmPassword", NEW t, NEW p, NEW q
  PROVE  Accepted(f, t, p) <=> Accepted(f, t, q)
BY DEF Accepted

LEMMA FieldsAreFields == Fields \subseteq AllFields
BY DEF Fields, AllFields

LEMMA TextsAreTexts ==
  \A f \in AllFields : Empty \in Texts(f) /\ Texts(f) \subseteq AnyText
BY DEF Texts, Typeable, AllFields, AnyText

(* The values a view model starts from: empty texts, no verdict, no message. *)
LEMMA StartTyped ==
  /\ Start.text \in [AllFields -> AnyText] /\ Start.seen \in [AllFields -> AnyText]
  /\ \A f \in AllFields : Start.text[f] \in Texts(f) /\ Start.seen[f] \in Texts(f)
  /\ Start.verdicts \in [AllFields -> 0 .. 2]
  /\ Start.error \in [AllFields -> BOOLEAN]
  /\ \A f \in AllFields : Start.verdicts[f] = 0 /\ Start.error[f] = FALSE
  /\ Empty \in Texts("password")
<1>1. \A f \in AllFields : Empty \in Texts(f)
  BY TextsAreTexts
<1>2. Empty \in Texts("password")
  BY <1>1 DEF AllFields
<1>3. Empty \in AnyText
  BY DEF AnyText
<1> QED BY <1>1, <1>2, <1>3 DEF Start

(* A view model that is new, or made anew.                                 *)
LEMMA NewViewModel ==
  ASSUME form \in {"login", "register"},
         text = Start.text, due = Fields, seen = Start.seen, against = Empty,
         verdicts = Start.verdicts, combined = 0, isValid = FALSE,
         error = Start.error
  PROVE  FormInv
<1>1. Typed
  <2>1. text \in [AllFields -> AnyText] /\ seen \in [AllFields -> AnyText]
    BY StartTyped
  <2>2. \A f \in AllFields : text[f] \in Texts(f) /\ seen[f] \in Texts(f)
    BY StartTyped
  <2>3. due \subseteq Fields /\ against \in Texts("password")
    BY StartTyped
  <2>4. verdicts \in [AllFields -> 0 .. 2] /\ error \in [AllFields -> BOOLEAN]
    BY StartTyped
  <2>5. combined \in 0 .. 2
    OBVIOUS
  <2>6. isValid \in BOOLEAN
    BY Zenon
  <2> QED BY <2>1, <2>2, <2>3, <2>4, <2>5, <2>6 DEF Typed, TypeOK
<1>2. JudgedOrDue
  BY DEF JudgedOrDue
<1>3. ButtonFollows
  BY DEF ButtonFollows
<1>4. MessagesFollow
  BY StartTyped, FieldsAreFields DEF MessagesFollow
<1> QED BY <1>1, <1>2, <1>3, <1>4 DEF FormInv

LEMMA FormInit == Init => FormInv
BY NewViewModel DEF Init

LEMMA DrawnAgainKeepsFormInv == FormInv /\ DrawnAgain => FormInv'
<1> SUFFICES ASSUME FormInv, DrawnAgain PROVE FormInv'
  OBVIOUS
<1> USE DEF DrawnAgain
<1>f. form' \in {"login", "register"} /\ Fields' = Fields /\ form' = form
  BY DEF FormInv, Typed, TypeOK, Fields
<1>t. \A f : Texts(f)' = Texts(f)
  BY DEF Texts
<1>1. Typed'
  <2>1. /\ text' \in [AllFields -> AnyText] /\ seen' \in [AllFields -> AnyText]
        /\ \A f \in AllFields : text'[f] \in Texts(f) /\ seen'[f] \in Texts(f)
        /\ due' \subseteq Fields /\ against' \in Texts("password")
        /\ verdicts' \in [AllFields -> 0 .. 2] /\ error' \in [AllFields -> BOOLEAN]
        /\ combined' \in 0 .. 2
    BY StartTyped
  <2>2. isValid' \in BOOLEAN
    BY Zenon
  <2> QED BY <1>f, <1>t, <2>1, <2>2 DEF Typed, TypeOK
<1>2. JudgedOrDue'
  BY <1>f DEF JudgedOrDue
<1>3. ButtonFollows'
  BY DEF ButtonFollows
<1>4. MessagesFollow'
  BY <1>f, StartTyped, FieldsAreFields DEF MessagesFollow
<1> QED BY <1>1, <1>2, <1>3, <1>4 DEF FormInv

-----------------------------------------------------------------------------
LEMMA TypeKeepsFormInv ==
  ASSUME FormInv, NEW f \in Fields, NEW t \in Texts(f), Type(f, t)
  PROVE  FormInv'
<1> USE FieldsAreFields DEF FormInv
<1>f. Fields' = Fields
  BY DEF Type, Fields
<1>1. Typed'
  <2>1. text' \in [AllFields -> AnyText]
    BY TextsAreTexts DEF Type, Typed
  <2>2. \A g \in AllFields : text'[g] \in Texts(g)
    BY DEF Type, Typed, TypeOK
  <2>3. due' \subseteq Fields
    BY DEF Type, Typed, TypeOK
  <2> QED BY <1>f, <2>1, <2>2, <2>3 DEF Type, Typed, TypeOK, Texts
<1>2. JudgedOrDue'
  BY <1>f DEF Type, Typed, Passes, JudgedOrDue
<1>3. ButtonFollows'
  BY <1>f DEF Type, ButtonFollows, Accepted
<1>4. MessagesFollow'
  BY <1>f DEF Type, MessagesFollow, Accepted
<1> QED BY <1>1, <1>2, <1>3, <1>4

LEMMA TimerKeepsFormInv ==
  ASSUME FormInv, NEW f \in Fields, TimerRunsOut(f)
  PROVE  FormInv'
<1> USE FieldsAreFields DEF FormInv
<1>f. form' = form /\ Fields' = Fields /\ text' = text /\ due' = due \ {f}
  BY DEF TimerRunsOut, Fields
<1>1. CASE ~Emits(f)
  <2>0. /\ UNCHANGED <<seen, against, verdicts, combined, isValid, error>>
        /\ seen[f] = text[f]
    BY <1>1 DEF TimerRunsOut, Emits
  <2>1. Typed'
    BY <2>0, <1>f DEF Typed, TypeOK, Texts
  <2>2. JudgedOrDue'
    BY <2>0, <1>f DEF JudgedOrDue
  <2>3. ButtonFollows' /\ MessagesFollow'
    BY <2>0, <1>f DEF ButtonFollows, MessagesFollow, Accepted
  <2> QED BY <2>1, <2>2, <2>3
<1>2. CASE Emits(f)
  <2>0. /\ seen' = [seen EXCEPT ![f] = text[f]]
        /\ against' = IF f = "confirmPassword" THEN text["password"] ELSE against
        /\ verdicts' = [verdicts EXCEPT ![f] = UpToTwo(@)]
        /\ Combine
        /\ ShowError(f)
    BY <1>2 DEF TimerRunsOut
  <2>v. /\ verdicts \in [AllFields -> 0 .. 2]
        /\ verdicts' \in [AllFields -> 0 .. 2]
        /\ verdicts'[f] > 0
        /\ \A g \in AllFields : verdicts'[g] >= verdicts[g]
        /\ \A g \in AllFields \ {f} : verdicts'[g] = verdicts[g]
        /\ verdicts'[f] = 2 <=> verdicts[f] > 0
    BY <2>0 DEF Typed, TypeOK, UpToTwo
  <2>c. combined \in 0 .. 2 /\ isValid \in BOOLEAN
    BY DEF Typed, TypeOK
  <2>d. combined' \in 0 .. 2 /\ isValid' \in BOOLEAN
    <3>1. combined' \in {combined, UpToTwo(combined)}
      BY <2>0 DEF Combine
    <3>2. isValid' \in BOOLEAN
      BY <2>0, <2>c, Zenon DEF Combine
    <3> QED BY <3>1, <3>2, <2>c DEF UpToTwo
  <2>s. \A g \in AllFields : seen'[g] = IF g = f THEN text[f] ELSE seen[g]
    BY <2>0 DEF Typed
  <2>a. \A g \in AllFields \ {f} :
          Accepted(g, seen'[g], against') <=> Accepted(g, seen[g], against)
    BY <2>0, <2>s, OthersIgnorePassword
  <2>1. Typed'
    <3>1. seen' \in [AllFields -> AnyText]
      BY <2>0 DEF Typed
    <3>2. \A g \in AllFields : seen'[g] \in Texts(g)
      BY <2>s DEF Typed, TypeOK
    <3>3. against' \in Texts("password")
      BY <2>0 DEF Typed, TypeOK, AllFields
    <3>4. error' \in [AllFields -> BOOLEAN]
      BY <2>0 DEF ShowError, Typed, TypeOK
    <3> QED BY <1>f, <2>v, <2>d, <3>1, <3>2, <3>3, <3>4 DEF Typed, TypeOK, Texts
  <2>2. JudgedOrDue'
    BY <1>f, <2>s DEF JudgedOrDue
  <2>3. ButtonFollows'
    <3>1. CASE \A g \in Fields : verdicts'[g] > 0
      <4>1. /\ combined' = UpToTwo(combined)
            /\ isValid' = IF combined = 0 THEN isValid
                          ELSE \A g \in Fields : Accepted(g, seen'[g], against')
        BY <2>0, <3>1 DEF Combine
      <4>2. combined' = 2 <=> combined # 0
        BY <4>1, <2>c DEF UpToTwo
      <4>3. isValid' <=> combined' = 2 /\ \A g \in Fields : Accepted(g, seen'[g], against')
        <5>1. CASE combined = 0
          BY <5>1, <4>1, <4>2 DEF ButtonFollows
        <5>2. CASE combined # 0
          BY <5>2, <4>1, <4>2
        <5> QED BY <5>1, <5>2
      <4> QED BY <1>f, <3>1, <4>3 DEF ButtonFollows, Accepted
    <3>2. CASE ~ \A g \in Fields : verdicts'[g] > 0
      <4>1. combined' = combined /\ isValid' = isValid
        BY <2>0, <3>2 DEF Combine
      <4>2. ~ (combined > 0)
        BY <3>2, <2>v DEF ButtonFollows
      <4> QED BY <4>1, <4>2, <2>c DEF ButtonFollows
    <3> QED BY <3>1, <3>2
  <2>4. MessagesFollow'
    <3>1. error'[f] <=> verdicts'[f] = 2 /\ ~Accepted(f, seen'[f], against')
      <4>1. CASE verdicts[f] = 0
        BY <4>1, <2>0, <2>v DEF ShowError, MessagesFollow
      <4>2. CASE verdicts[f] # 0
        <5>1. error' = [error EXCEPT ![f] = ~Accepted(f, seen'[f], against')]
          BY <4>2, <2>0 DEF ShowError
        <5>2. error'[f] <=> ~Accepted(f, seen'[f], against')
          BY <5>1 DEF Typed, TypeOK
        <5> QED BY <4>2, <5>2, <2>v
      <4> QED BY <4>1, <4>2
    <3>2. \A g \in Fields \ {f} : error'[g] = error[g]
      BY <2>0 DEF ShowError, Typed, TypeOK
    <3>3. \A g \in Fields :
            error'[g] <=> verdicts'[g] = 2 /\ ~Accepted(g, seen'[g], against')
      BY <3>1, <3>2, <2>a, <2>v DEF MessagesFollow
    <3> QED BY <1>f, <3>3 DEF MessagesFollow, Accepted
  <2> QED BY <2>1, <2>2, <2>3, <2>4
<1> QED BY <1>1, <1>2

-----------------------------------------------------------------------------
(* The invariant behind the others: verdicts are about the texts shown or  *)
(* their timer runs, and button and messages follow the verdicts.          *)
THEOREM FormInvInvariant == Spec => []FormInv
<1>1. Init => FormInv
  BY FormInit
<1>2. FormInv /\ [Next]_vars => FormInv'
  <2> SUFFICES ASSUME FormInv, [Next]_vars PROVE FormInv'
    OBVIOUS
  <2>1. CASE \E f \in Fields : \E t \in Texts(f) : Type(f, t)
    BY <2>1, TypeKeepsFormInv
  <2>2. CASE RunLoop
    BY <2>2, TimerKeepsFormInv DEF RunLoop
  <2>3. CASE DrawnAgain
    BY <2>3, DrawnAgainKeepsFormInv
  <2>4. CASE UNCHANGED vars
    BY <2>4 DEF vars, FormInv, Typed, TypeOK, JudgedOrDue, ButtonFollows,
                MessagesFollow, Fields, Texts, Accepted
  <2> QED BY <2>1, <2>2, <2>3, <2>4 DEF Next
<1> QED BY <1>1, <1>2, PTL DEF Spec

(* Every field has a value of its kind, in both forms.                     *)
THEOREM FormTypeCorrect == Spec => []TypeOK
<1>1. FormInv => TypeOK
  BY DEF FormInv, Typed
<1> QED BY <1>1, FormInvInvariant, PTL

(* What an enabled button sends was accepted, or edited within the last    *)
(* half second, the confirmation by the password it was compared with.     *)
THEOREM OpenFormsWereGood == Spec => []OpenFormWasGood
<1>1. FormInv => OpenFormWasGood
  BY DEF FormInv, JudgedOrDue, ButtonFollows, OpenFormWasGood
<1> QED BY <1>1, FormInvInvariant, PTL

(* A quiet form that stays shut shows why, or the dropped first verdicts   *)
(* hide it; and no message stands where the text was accepted.             *)
THEOREM ShutFormsSayWhy == Spec => []ShutFormSaysWhy
<1>1. FormInv => ShutFormSaysWhy
  <2> SUFFICES ASSUME FormInv PROVE ShutFormSaysWhy
    OBVIOUS
  <2>1. \A f \in Fields : error[f] => ~Accepted(f, seen[f], against)
    BY DEF FormInv, MessagesFollow
  <2>2. ASSUME ~isValid, ~(combined < 2)
        PROVE  \E f \in Fields :
                 \/ error[f]
                 \/ verdicts[f] = 1 /\ ~Accepted(f, seen[f], against)
    <3>1. combined = 2
      BY <2>2 DEF FormInv, Typed, TypeOK
    <3>2. PICK f \in Fields : ~Accepted(f, seen[f], against)
      BY <2>2, <3>1 DEF FormInv, ButtonFollows
    <3>3. verdicts[f] \in {1, 2}
      BY <3>1, FieldsAreFields DEF FormInv, ButtonFollows, Typed, TypeOK
    <3> QED BY <3>2, <3>3 DEF FormInv, MessagesFollow
  <2> QED BY <2>1, <2>2 DEF ShutFormSaysWhy
<1> QED BY <1>1, FormInvInvariant, PTL
=============================================================================
