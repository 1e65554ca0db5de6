--------------------------- MODULE ChecklistProofs ---------------------------
(***************************************************************************)
(* Theorems about Checklist, for any programs, requirements, files and     *)
(* number of requests: type correctness with the legality of every card    *)
(* shown or saved, and the exactness of the lists no late answer reached.  *)
(***************************************************************************)
EXTENDS Checklist, CardsProofs, FiniteSetTheorems

LegalFile == [facultyName : Faculties \cup {NoName},
              majorName   : Programs \cup {NoName},
              cards       : Seq(LegalCards)]

ScalarsTyped ==
  /\ screen \in {"root", "checklist"}
  /\ sourceType \in {0, 1}
  /\ facultyName \in Faculties \cup {NoName}
  /\ majorName \in Programs \cup {NoName}
  /\ fileName \in Files \cup {NoName}
  /\ changed \in BOOLEAN
  /\ fileContent \subseteq Files
  /\ selected \in {SELECT_ALL, SELECT_CHECK, SELECT_UNCHECK}
  /\ showDialog \in BOOLEAN
  /\ dialogType \in {0, 1}
  /\ mixed \in BOOLEAN
  /\ showDialog => screen = "checklist"

ListsLegal == cards \in Seq(LegalCards) /\ storedCards \in Seq(LegalCards)

DiskLegal == disk \in [Files -> LegalFile \cup {Absent}]

(* A request is made while there is room for it among those left behind.   *)
RequestsBounded ==
  /\ waiting \in Programs \cup {NoName}
  /\ late \in [Programs -> 0 .. MaxPending]
  /\ waiting # NoName => screen = "checklist" /\ late[waiting] < MaxPending

TypeInv == ScalarsTyped /\ ListsLegal /\ DiskLegal /\ RequestsBounded

-----------------------------------------------------------------------------
LEMMA LegalFileIsThere ==
  ASSUME NEW x \in LegalFile
  PROVE  x # Absent
<1>1. ASSUME NEW s \in Seq(LegalCards) PROVE s \in Seq(Card)
  <2>1. LegalCards \subseteq Card
    BY DEF LegalCards
  <2>2. QED
    BY <2>1, SeqMonotonic
<1>2. QED
  BY <1>1, NamesAssumption DEF LegalFile

LEMMA ListingIsFiles ==
  ASSUME NEW d PROVE Listing(d) \subseteq Files
BY FilesAssumption DEF Listing

(* Appending the cards of a document keeps both lists legal.               *)
LEMMA AddCardsLegal ==
  ASSUME ListsLegal, NEW p \in Programs, AddCards(p)
  PROVE  ListsLegal'
<1>1. FreshCards(Reqs[p]) \in Seq(LegalCards)
  BY ProgramsAssumption, FreshCardsProperties
<1>2. storedCards' \in Seq(LegalCards)
  BY <1>1, ConcatProperties DEF ListsLegal, AddCards
<1>3. cards' \in Seq(LegalCards)
  BY <1>2, ConcatProperties DEF ListsLegal, AddCards
<1>4. QED
  BY <1>2, <1>3 DEF ListsLegal

LEMMA InitTyped == Init => TypeInv
<1> SUFFICES ASSUME Init PROVE TypeInv
  OBVIOUS
<1>1. ScalarsTyped
  BY DEF Init, ScalarsTyped, SELECT_ALL
<1>2. ListsLegal
  BY EmptySeq DEF Init, ListsLegal
<1>3. DiskLegal
  BY DEF Init, DiskLegal
<1>4. RequestsBounded
  BY BoundsAssumption DEF Init, RequestsBounded, NoRequests
<1>5. QED
  BY <1>1, <1>2, <1>3, <1>4 DEF TypeInv

LEMMA RelaunchTyped ==
  ASSUME TypeInv, Relaunch PROVE TypeInv'
<1>1. ScalarsTyped'
  BY ListingIsFiles DEF Relaunch, ScalarsTyped, ViewReset, SELECT_ALL
<1>2. ListsLegal'
  BY EmptySeq DEF Relaunch, ListsLegal
<1>3. DiskLegal'
  BY DEF TypeInv, Relaunch, DiskLegal
<1>4. RequestsBounded'
  BY BoundsAssumption DEF Relaunch, RequestsBounded, NoRequests
<1>5. QED
  BY <1>1, <1>2, <1>3, <1>4 DEF TypeInv

LEMMA GoBackTyped ==
  ASSUME TypeInv, GoBack, DiskLegal' PROVE TypeInv'
<1>1. ScalarsTyped'
  BY ListingIsFiles DEF TypeInv, GoBack, ScalarsTyped, ViewReset, SELECT_ALL
<1>2. ListsLegal'
  BY DEF TypeInv, GoBack, ListsLegal
<1>3. RequestsBounded'
  <2>1. ASSUME NEW p \in Programs
        PROVE  late[p] + (IF p = waiting THEN 1 ELSE 0) \in 0 .. MaxPending
    BY BoundsAssumption, NamesAssumption DEF TypeInv, RequestsBounded
  <2>2. LeftBehind \in [Programs -> 0 .. MaxPending]
    BY <2>1 DEF LeftBehind
  <2>3. QED
    BY <2>2 DEF GoBack, RequestsBounded
<1>4. QED
  BY <1>1, <1>2, <1>3 DEF TypeInv

LEMMA HomeStepTyped ==
  ASSUME TypeInv, HomeStep PROVE TypeInv'
<1> USE DEF TypeInv
<1>1. ASSUME NEW f \in Faculties, NEW p \in Programs \cup {NoName},
             ChooseProgram(f, p)
      PROVE  TypeInv'
  BY <1>1 DEF ChooseProgram, ScalarsTyped, ListsLegal, DiskLegal,
              RequestsBounded, view, requests
<1>2. ASSUME NEW f \in Files, ChooseFile(f) PROVE TypeInv'
  BY <1>2 DEF ChooseFile, ScalarsTyped, ListsLegal, DiskLegal,
              RequestsBounded, view, requests
<1>3. CASE Create
  <2>1. ListsLegal'
    BY <1>3, EmptySeq DEF Create, ResetCard, ListsLegal
  <2>2. ScalarsTyped' /\ DiskLegal'
    BY <1>3 DEF Create, ScalarsTyped, DiskLegal, names, view
  <2>3. RequestsBounded'
    BY <1>3 DEF Create, ScalarsTyped, RequestsBounded, names
  <2>4. QED
    BY <2>1, <2>2, <2>3
<1>4. CASE LoadFound
  <2>1. disk[fileName] \in LegalFile
    BY <1>4 DEF LoadFound, ScalarsTyped, DiskLegal
  <2>2. ListsLegal'
    BY <1>4, <2>1, ReadBackProperties DEF LoadFound, ListsLegal, LegalFile
  <2>3. ScalarsTyped'
    BY <1>4, <2>1 DEF LoadFound, ScalarsTyped, LegalFile, view
  <2>4. DiskLegal' /\ RequestsBounded'
    BY <1>4 DEF LoadFound, DiskLegal, RequestsBounded, requests
  <2>5. QED
    BY <2>2, <2>3, <2>4
<1>5. CASE LoadMissing
  <2>1. ListsLegal'
    BY <1>5, EmptySeq DEF LoadMissing, ResetCard, ListsLegal
  <2>2. QED
    BY <1>5, <2>1 DEF LoadMissing, ScalarsTyped, DiskLegal, RequestsBounded,
                      names, view, requests
<1>6. CASE LoadTraps
  BY <1>6, RelaunchTyped DEF LoadTraps
<1>7. QED
  BY <1>1, <1>2, <1>3, <1>4, <1>5, <1>6 DEF HomeStep

LEMMA DatabaseStepTyped ==
  ASSUME TypeInv, DatabaseStep PROVE TypeInv'
<1> USE DEF TypeInv
<1>1. ASSUME NEW found \in BOOLEAN, Answer(found) PROVE TypeInv'
  <2>1. waiting \in Programs
    BY <1>1 DEF Answer, RequestsBounded
  <2>2. ListsLegal'
    BY <1>1, <2>1, AddCardsLegal DEF Answer, ListsLegal
  <2>3. QED
    BY <1>1, <2>2 DEF Answer, ScalarsTyped, DiskLegal, RequestsBounded,
                      names, view
<1>2. ASSUME NEW p \in Programs, NEW found \in BOOLEAN, LateAnswer(p, found)
      PROVE  TypeInv'
  <2>1. ListsLegal'
    BY <1>2, AddCardsLegal DEF LateAnswer, ListsLegal
  <2>2. ScalarsTyped' /\ DiskLegal'
    BY <1>2 DEF LateAnswer, ScalarsTyped, DiskLegal, names, view
  <2>3. RequestsBounded'
    BY <1>2, BoundsAssumption DEF LateAnswer, RequestsBounded
  <2>4. QED
    BY <2>1, <2>2, <2>3
<1>3. QED
  BY <1>1, <1>2 DEF DatabaseStep

(* A tap or a comment changes one card of the list, and keeps it legal; an *)
(* index outside of the list changes none.                                 *)
LEMMA UpdateKeepsList ==
  ASSUME NEW S, NEW s \in Seq(S), NEW i, NEW e, i \in 1 .. Len(s) => e \in S
  PROVE  /\ [s EXCEPT ![i] = e] \in Seq(S)
         /\ Len([s EXCEPT ![i] = e]) = Len(s)
         /\ \A j \in 1 .. Len(s) :
              [s EXCEPT ![i] = e][j] = IF j = i THEN e ELSE s[j]
<1>1. CASE i \in 1 .. Len(s)
  BY <1>1, ExceptSeq
<1>2. CASE i \notin 1 .. Len(s)
  <2>1. s \in [1 .. Len(s) -> S]
    BY LenProperties
  <2>2. [s EXCEPT ![i] = e] = s
    BY <1>2, <2>1
  <2>3. QED
    BY <1>2, <2>2
<1>3. QED
  BY <1>1, <1>2

LEMMA ChecklistStepTyped ==
  ASSUME TypeInv, ChecklistStep PROVE TypeInv'
<1> USE DEF TypeInv
<1>1. ASSUME NEW r \in Rows, NEW box \in Boxes(cards[Row(r)].req), Tap(r, box)
      PROVE  TypeInv'
  <2> DEFINE i == Row(r)
             c == CheckboxSelected(cards[i], box)
  <2>1. i \in 1 .. Len(cards) => c \in LegalCards
    <3>1. SUFFICES ASSUME i \in 1 .. Len(cards) PROVE c \in LegalCards
      OBVIOUS
    <3>2. cards[i] \in LegalCards
      BY <3>1, ElementOfSeq DEF ListsLegal
    <3>3. ~DivisionTraps(cards[i])
      BY <1>1 DEF Tap
    <3>4. QED
      BY <3>2, <3>3, TapKeepsCardLegal
  <2>2. cards' = [cards EXCEPT ![i] = c]
    BY <1>1 DEF Tap
  <2>3. cards' \in Seq(LegalCards)
    <3> HIDE DEF i, c
    <3>1. QED
      BY <2>1, <2>2, UpdateKeepsList DEF ListsLegal
  <2>4. QED
    BY <1>1, <2>3 DEF Tap, ScalarsTyped, ListsLegal, DiskLegal,
                      RequestsBounded, names, view, requests
<1>2. ASSUME NEW r \in Rows, TapTraps(r) PROVE TypeInv'
  BY <1>2, RelaunchTyped DEF TapTraps
<1>3. ASSUME NEW r \in Rows, NEW t \in Comments, EditComment(r, t)
      PROVE  TypeInv'
  <2> DEFINE i == Row(r)
             c == [cards[i] EXCEPT !.comment = t]
  <2>1. i \in 1 .. Len(cards) => c \in LegalCards
    BY ElementOfSeq, CommentKeepsCardLegal DEF ListsLegal
  <2>2. cards' = [cards EXCEPT ![i] = c]
    BY <1>3 DEF EditComment
  <2>3. cards' \in Seq(LegalCards)
    <3> HIDE DEF i, c
    <3>1. QED
      BY <2>1, <2>2, UpdateKeepsList DEF ListsLegal
  <2>4. QED
    BY <1>3, <2>3 DEF EditComment, ScalarsTyped, ListsLegal, DiskLegal,
                      RequestsBounded, names, view, requests
<1>4. ASSUME NEW tab \in {SELECT_ALL, SELECT_CHECK, SELECT_UNCHECK},
             SelectTab(tab)
      PROVE  TypeInv'
  BY <1>4 DEF SelectTab, ScalarsTyped, ListsLegal, DiskLegal,
              RequestsBounded, names, requests
<1>5. ASSUME NEW type \in {0, 1}, OpenDialog(type) PROVE TypeInv'
  BY <1>5 DEF OpenDialog, ScalarsTyped, ListsLegal, DiskLegal,
              RequestsBounded, names, requests
<1>6. CASE DismissDialog
  BY <1>6 DEF DismissDialog, ScalarsTyped, ListsLegal, DiskLegal,
              RequestsBounded, names, requests
<1>7. ASSUME NEW name \in Files, NEW written \in BOOLEAN, Save(name, written)
      PROVE  TypeInv'
  <2> DEFINE f == IF fileName = NoName THEN name ELSE fileName
             save == [facultyName |-> facultyName, majorName |-> majorName,
                      cards |-> cards]
  <2>1. f \in Files /\ save \in LegalFile
    BY DEF ScalarsTyped, ListsLegal, LegalFile
  <2>2. SaveModel(f, written)
    BY <1>7 DEF Save
  <2>3. DiskLegal'
    <3> HIDE DEF f
    <3>1. QED
      BY <2>1, <2>2 DEF SaveModel, DiskLegal
  <2>4. ScalarsTyped'
    <3> HIDE DEF f
    <3>1. QED
      BY <1>7, <2>1, <2>2 DEF Save, SaveModel, ScalarsTyped
  <2>5. ListsLegal' /\ RequestsBounded'
    BY <1>7 DEF Save, ListsLegal, RequestsBounded, requests
  <2>6. QED
    BY <2>3, <2>4, <2>5
<1>8. ASSUME NEW removed \in BOOLEAN, Delete(removed) PROVE TypeInv'
  <2>1. DiskLegal'
    BY <1>8 DEF Delete, DiskLegal
  <2>2. QED
    BY <1>8, <2>1, GoBackTyped DEF Delete
<1>9. CASE SwipeBack
  <2>1. DiskLegal'
    BY <1>9 DEF SwipeBack, DiskLegal
  <2>2. QED
    BY <1>9, <2>1, GoBackTyped DEF SwipeBack
<1>10. QED
  BY <1>1, <1>2, <1>3, <1>4, <1>5, <1>6, <1>7, <1>8, <1>9 DEF ChecklistStep

THEOREM TypeInvInvariant == Spec => []TypeInv
<1>1. TypeInv /\ [Next]_vars => TypeInv'
  <2> SUFFICES ASSUME TypeInv, [Next]_vars PROVE TypeInv'
    OBVIOUS
  <2>1. CASE Next
    BY <2>1, HomeStepTyped, DatabaseStepTyped, ChecklistStepTyped,
       RelaunchTyped DEF Next
  <2>2. CASE UNCHANGED vars
    BY <2>2 DEF vars, names, view, requests, TypeInv, ScalarsTyped,
                ListsLegal, DiskLegal, RequestsBounded
  <2>3. QED
    BY <2>1, <2>2
<1>2. QED
  BY InitTyped, <1>1, PTL DEF Spec

LEMMA LegalListIsList ==
  ASSUME NEW s \in Seq(LegalCards)
  PROVE  s \in Seq(Card) /\ \A i \in 1 .. Len(s) : LegalCard(s[i])
<1>1. LegalCards \subseteq Card
  BY DEF LegalCards
<1>2. s \in Seq(Card)
  BY <1>1, SeqMonotonic
<1>3. ASSUME NEW i \in 1 .. Len(s) PROVE LegalCard(s[i])
  BY ElementOfSeq DEF LegalCards
<1>4. QED
  BY <1>2, <1>3

(* Model's fields, the views' states and the files keep their types.       *)
THEOREM TypeCorrect == Spec => []TypeOK
<1>1. TypeInv => TypeOK
  <2> SUFFICES ASSUME TypeInv PROVE TypeOK
    OBVIOUS
  <2>1. cards \in Seq(Card) /\ storedCards \in Seq(Card)
    BY LegalListIsList DEF TypeInv, ListsLegal
  <2>2. LegalFile \subseteq SaveFile
    BY LegalListIsList DEF LegalFile, SaveFile
  <2>3. disk \in [Files -> SaveFile \cup {Absent}]
    BY <2>2 DEF TypeInv, DiskLegal
  <2>4. QED
    BY <2>1, <2>3 DEF TypeInv, ScalarsTyped, RequestsBounded, TypeOK
<1>2. QED
  BY TypeInvInvariant, <1>1, PTL

(* checkboxSelected() and getCollection() never leave a card, shown or     *)
(* saved, whose ticks, limit and progress disagree.                        *)
THEOREM ChecksAlwaysLegal == Spec => []ChecksLegal
<1>1. TypeInv => ChecksLegal
  <2> SUFFICES ASSUME TypeInv PROVE ChecksLegal
    OBVIOUS
  <2>1. \A i \in 1 .. Len(cards) : LegalCard(cards[i])
    BY LegalListIsList DEF TypeInv, ListsLegal
  <2>2. ASSUME NEW f \in Files PROVE SavedCards(f) \in Seq(LegalCards)
    <3>1. disk[f] \in LegalFile \cup {Absent}
      BY DEF TypeInv, DiskLegal
    <3>2. QED
      BY <3>1, EmptySeq DEF SavedCards, LegalFile
  <2>3. \A f \in Files :
          \A i \in 1 .. Len(SavedCards(f)) : LegalCard(SavedCards(f)[i])
    BY <2>2, LegalListIsList
  <2>4. QED
    BY <2>1, <2>3 DEF ChecksLegal
<1>2. QED
  BY TypeInvInvariant, <1>1, PTL

(* The CHECKED tab of filteredCards is exact: the truncated percentage is  *)
(* 100 for the finished cards only.                                        *)
THEOREM TabsAlwaysExact == Spec => []TabsAreExact
<1>1. TypeInv => TabsAreExact
  <2> SUFFICES ASSUME TypeInv, NEW i \in 1 .. Len(cards), cards[i].req.num > 0
               PROVE  cards[i].progress = 100
                        <=> Len(cards[i].checkedBoxes) = cards[i].req.num
    BY DEF TabsAreExact
  <2> DEFINE c == cards[i]
             n == Len(c.checkedBoxes)
  <2>1. c \in Card /\ LegalCard(c)
    BY LegalListIsList, ElementOfSeq DEF TypeInv, ListsLegal
  <2>2. c.req.num \in Nat \ {0}
    BY <2>1, RequirementsAssumption DEF Card
  <2>3. n \in Nat
    BY <2>1, LenProperties DEF Card
  <2>4. n <= c.req.num /\ c.progress = Percent(n, c.req.num)
    BY <2>1, <2>2 DEF LegalCard
  <2>5. QED
    <3> HIDE DEF c, n
    <3>1. c.progress = 100 <=> n = c.req.num
      BY <2>2, <2>3, <2>4, PercentProperties
    <3>2. QED
      BY <3>1 DEF c, n
<1>2. QED
  BY TypeInvInvariant, <1>1, PTL

-----------------------------------------------------------------------------
(* Why a list is exact while no late answer has reached it: until its own  *)
(* answer arrives it is empty, and so is storedCards; from then on only    *)
(* ticks and comments change it, which keep the ids and requirements.      *)
Numbered == \A i \in 1 .. Len(cards) : cards[i].id = i - 1

EmptyWhileWaiting ==
  waiting # NoName =>
    /\ sourceType = 0
    /\ majorName = waiting
    /\ ~mixed => cards = <<>> /\ storedCards = <<>>

ExactInv ==
  /\ screen = "root" => ~mixed
  /\ EmptyWhileWaiting
  /\ screen = "checklist" /\ ~mixed => Numbered
  /\ CreatedListExact

LEMMA RequirementOfEmpty == Requirement(<<>>) = <<>>
BY DEF Requirement

(* The first cards that an empty list receives are those of the document.  *)
LEMMA FirstAnswerExact ==
  ASSUME cards = <<>>, storedCards = <<>>, NEW p \in Programs, AddCards(p)
  PROVE  Requirement(cards') = Reqs[p] /\ Numbered'
<1> DEFINE new == FreshCards(Reqs[p])
<1>1. Reqs[p] \in Seq(Requirements)
  BY ProgramsAssumption
<1>2. /\ new \in Seq(LegalCards) /\ Len(new) = Len(Reqs[p])
      /\ \A i \in 1 .. Len(Reqs[p]) : new[i].id = i - 1 /\ new[i].req = Reqs[p][i]
  BY <1>1, FreshCardsProperties
<1>3. cards' = new
  <2> HIDE DEF new
  <2>1. storedCards' = <<>> \o new /\ cards' = <<>> \o storedCards'
    BY DEF AddCards, new
  <2>2. QED
    BY <1>2, <2>1, ConcatEmptySeq
<1>4. Requirement(new) = Reqs[p]
  <2> HIDE DEF new
  <2>1. Requirement(new) = [i \in 1 .. Len(Reqs[p]) |-> Reqs[p][i]]
    BY <1>2 DEF Requirement
  <2>2. Reqs[p] \in [1 .. Len(Reqs[p]) -> Requirements]
    BY <1>1, LenProperties
  <2>3. QED
    BY <2>1, <2>2
<1>5. QED
  BY <1>2, <1>3, <1>4 DEF Numbered

(* Replacing one card by one of the same id and requirement.               *)
LEMMA UpdateKeepsExact ==
  ASSUME ListsLegal, Numbered, NEW i, NEW c,
         i \in 1 .. Len(cards) =>
           c \in LegalCards /\ c.id = cards[i].id /\ c.req = cards[i].req,
         cards' = [cards EXCEPT ![i] = c]
  PROVE  Numbered' /\ Requirement(cards') = Requirement(cards)
<1>1. /\ Len(cards') = Len(cards)
      /\ \A j \in 1 .. Len(cards) : cards'[j] = IF j = i THEN c ELSE cards[j]
  BY UpdateKeepsList DEF ListsLegal
<1>2. \A j \in 1 .. Len(cards) :
        cards'[j].id = cards[j].id /\ cards'[j].req = cards[j].req
  BY <1>1
<1>3. QED
  BY <1>1, <1>2 DEF Numbered, Requirement

LEMMA HomeStepExact ==
  ASSUME TypeInv, ExactInv, HomeStep PROVE ExactInv'
<1> USE DEF ExactInv
<1>1. ASSUME NEW f \in Faculties, NEW p \in Programs \cup {NoName},
             ChooseProgram(f, p)
      PROVE  ExactInv'
  BY <1>1 DEF ChooseProgram, CreatedListExact, EmptyWhileWaiting, requests,
              TypeInv, RequestsBounded
<1>2. ASSUME NEW f \in Files, ChooseFile(f) PROVE ExactInv'
  BY <1>2 DEF ChooseFile, CreatedListExact, EmptyWhileWaiting, requests,
              TypeInv, RequestsBounded
<1>3. CASE Create
  BY <1>3, RequirementOfEmpty
     DEF Create, ResetCard, CreatedListExact, EmptyWhileWaiting, Numbered, names
<1>4. CASE LoadFound
  <2>1. disk[fileName] \in LegalFile
    BY <1>4 DEF LoadFound, TypeInv, ScalarsTyped, DiskLegal
  <2>2. Numbered'
    BY <1>4, <2>1, ReadBackProperties DEF LoadFound, Numbered, LegalFile
  <2>3. QED
    BY <1>4, <2>2 DEF LoadFound, CreatedListExact, EmptyWhileWaiting, requests,
                      TypeInv, RequestsBounded
<1>5. CASE LoadMissing
  BY <1>5 DEF LoadMissing, ResetCard, CreatedListExact, EmptyWhileWaiting,
              Numbered, requests, TypeInv, RequestsBounded
<1>6. CASE LoadTraps
  BY <1>6 DEF LoadTraps, Relaunch, CreatedListExact, EmptyWhileWaiting
<1>7. QED
  BY <1>1, <1>2, <1>3, <1>4, <1>5, <1>6 DEF HomeStep

LEMMA DatabaseStepExact ==
  ASSUME TypeInv, ExactInv, DatabaseStep PROVE ExactInv'
<1> USE DEF ExactInv
<1>1. ASSUME NEW found \in BOOLEAN, Answer(found) PROVE ExactInv'
  <2>1. waiting \in Programs /\ majorName = waiting
    BY <1>1 DEF Answer, TypeInv, RequestsBounded, EmptyWhileWaiting
  <2>2. CASE found /\ ~mixed
    <3>1. Requirement(cards') = Reqs[majorName] /\ Numbered'
      BY <1>1, <2>1, <2>2, FirstAnswerExact DEF Answer, EmptyWhileWaiting
    <3>2. QED
      BY <1>1, <2>2, <3>1
         DEF Answer, CreatedListExact, EmptyWhileWaiting, names
  <2>3. CASE ~found
    BY <1>1, <2>3 DEF Answer, CreatedListExact, EmptyWhileWaiting, Numbered, names
  <2>4. CASE mixed
    BY <1>1, <2>4 DEF Answer, CreatedListExact, EmptyWhileWaiting, names
  <2>5. QED
    BY <2>2, <2>3, <2>4
<1>2. ASSUME NEW p \in Programs, NEW found \in BOOLEAN, LateAnswer(p, found)
      PROVE  ExactInv'
  <2>1. CASE found /\ screen = "checklist"
    BY <1>2, <2>1 DEF LateAnswer, CreatedListExact, EmptyWhileWaiting, names
  <2>2. CASE ~found
    BY <1>2, <2>2 DEF LateAnswer, CreatedListExact, EmptyWhileWaiting, Numbered,
                      names
  <2>3. CASE screen # "checklist"
    BY <1>2, <2>3 DEF LateAnswer, CreatedListExact, EmptyWhileWaiting, names,
                      TypeInv, ScalarsTyped, RequestsBounded
  <2>4. QED
    BY <2>1, <2>2, <2>3
<1>3. QED
  BY <1>1, <1>2 DEF DatabaseStep

LEMMA ChecklistStepExact ==
  ASSUME TypeInv, ExactInv, ChecklistStep PROVE ExactInv'
<1> USE DEF ExactInv
<1>1. ASSUME NEW i, NEW c, Touchable,
             i \in 1 .. Len(cards) =>
               c \in LegalCards /\ c.id = cards[i].id /\ c.req = cards[i].req,
             cards' = [cards EXCEPT ![i] = c],
             UNCHANGED <<screen, sourceType, names, storedCards, requests, mixed>>
      PROVE  ExactInv'
  <2>1. screen = "checklist" /\ ~mixed
          => Numbered' /\ Requirement(cards') = Requirement(cards)
    BY <1>1, UpdateKeepsExact DEF TypeInv
  <2>2. cards = <<>> => cards' = <<>>
    BY <1>1
  <2>3. QED
    BY <1>1, <2>1, <2>2 DEF CreatedListExact, EmptyWhileWaiting, names, requests,
                            Touchable
<1>2. ASSUME NEW r \in Rows, NEW box \in Boxes(cards[Row(r)].req), Tap(r, box)
      PROVE  ExactInv'
  <2> DEFINE i == Row(r)
             c == CheckboxSelected(cards[i], box)
  <2>1. i \in 1 .. Len(cards) =>
          c \in LegalCards /\ c.id = cards[i].id /\ c.req = cards[i].req
    <3>1. SUFFICES ASSUME i \in 1 .. Len(cards)
                   PROVE  c \in LegalCards /\ c.id = cards[i].id
                          /\ c.req = cards[i].req
      OBVIOUS
    <3>2. cards[i] \in LegalCards
      BY <3>1, ElementOfSeq DEF TypeInv, ListsLegal
    <3>3. ~DivisionTraps(cards[i])
      BY <1>2 DEF Tap
    <3>4. QED
      BY <3>2, <3>3, TapKeepsCardLegal
  <2>2. /\ Touchable /\ cards' = [cards EXCEPT ![i] = c]
        /\ UNCHANGED <<screen, sourceType, names, storedCards, requests, mixed>>
    BY <1>2 DEF Tap
  <2>3. QED
    <3> HIDE DEF i, c
    <3>1. QED
      BY <1>1, <2>1, <2>2
<1>3. ASSUME NEW r \in Rows, TapTraps(r) PROVE ExactInv'
  BY <1>3 DEF TapTraps, Relaunch, CreatedListExact, EmptyWhileWaiting
<1>4. ASSUME NEW r \in Rows, NEW t \in Comments, EditComment(r, t)
      PROVE  ExactInv'
  <2> DEFINE i == Row(r)
             c == [cards[i] EXCEPT !.comment = t]
  <2>1. i \in 1 .. Len(cards) =>
          c \in LegalCards /\ c.id = cards[i].id /\ c.req = cards[i].req
    BY ElementOfSeq, CommentKeepsCardLegal DEF TypeInv, ListsLegal
  <2>2. /\ Touchable /\ cards' = [cards EXCEPT ![i] = c]
        /\ UNCHANGED <<screen, sourceType, names, storedCards, requests, mixed>>
    BY <1>4 DEF EditComment
  <2>3. QED
    <3> HIDE DEF i, c
    <3>1. QED
      BY <1>1, <2>1, <2>2
<1>5. ASSUME NEW tab \in {SELECT_ALL, SELECT_CHECK, SELECT_UNCHECK},
             SelectTab(tab)
      PROVE  ExactInv'
  BY <1>5 DEF SelectTab, CreatedListExact, EmptyWhileWaiting, Numbered, names,
              requests
<1>6. ASSUME NEW type \in {0, 1}, OpenDialog(type) PROVE ExactInv'
  BY <1>6 DEF OpenDialog, CreatedListExact, EmptyWhileWaiting, Numbered, names,
              requests
<1>7. CASE DismissDialog
  BY <1>7 DEF DismissDialog, CreatedListExact, EmptyWhileWaiting, Numbered, names,
              requests
<1>8. ASSUME NEW name \in Files, NEW written \in BOOLEAN, Save(name, written)
      PROVE  ExactInv'
  BY <1>8 DEF Save, CreatedListExact, EmptyWhileWaiting, Numbered, requests
<1>9. ASSUME GoBack PROVE ExactInv'
  BY <1>9 DEF GoBack, CreatedListExact, EmptyWhileWaiting
<1>10. QED
  BY <1>2, <1>3, <1>4, <1>5, <1>6, <1>7, <1>8, <1>9
     DEF ChecklistStep, Delete, SwipeBack

THEOREM ExactInvInvariant == Spec => []ExactInv
<1>1. Init => ExactInv
  BY DEF Init, ExactInv, EmptyWhileWaiting, CreatedListExact
<1>2. TypeInv /\ ExactInv /\ [Next]_vars => ExactInv'
  <2> SUFFICES ASSUME TypeInv, ExactInv, [Next]_vars PROVE ExactInv'
    OBVIOUS
  <2>1. CASE Next
    <3>1. CASE Relaunch
      BY <3>1 DEF Relaunch, ExactInv, CreatedListExact, EmptyWhileWaiting
    <3>2. QED
      BY <2>1, <3>1, HomeStepExact, DatabaseStepExact, ChecklistStepExact DEF Next
  <2>2. CASE UNCHANGED vars
    BY <2>2 DEF vars, names, view, requests, ExactInv, EmptyWhileWaiting,
                Numbered, CreatedListExact
  <2>3. QED
    BY <2>1, <2>2
<1>3. QED
  BY TypeInvInvariant, <1>1, <1>2, PTL DEF Spec

(* A created checklist that no late answer has reached is the list of its  *)
(* program, or empty: resetCard() clears what getDocument()'s handler adds *)
(* to, however the earlier lists were left.                                *)
THEOREM CreatedListsExact == Spec => []CreatedListExact
<1>1. ExactInv => CreatedListExact
  BY DEF ExactInv
<1>2. QED
  BY ExactInvInvariant, <1>1, PTL

(* In such a list, and in a list read from a file, firstIndex(where:)      *)
(* finds for every row its own card.                                       *)
THEOREM RowsAlwaysShowTheirCard == Spec => []RowsShowTheirCard
<1>1. TypeInv /\ ExactInv => RowsShowTheirCard
  <2> SUFFICES ASSUME TypeInv, ExactInv, screen = "checklist", ~mixed,
                      NEW i \in 1 .. Len(cards)
               PROVE  FirstIndex(cards, cards[i].id) = i
    BY DEF RowsShowTheirCard
  <2>1. cards \in Seq(Card)
    BY LegalListIsList DEF TypeInv, ListsLegal
  <2>2. \A j \in 1 .. Len(cards) : cards[j].id = j - 1
    BY DEF ExactInv, Numbered
  <2>3. QED
    BY <2>1, <2>2, FirstIndexIsPosition
<1>2. QED
  BY TypeInvInvariant, ExactInvInvariant, <1>1, PTL

-----------------------------------------------------------------------------
(* saveModel() and deleteFile(), the only writers of save files here, are  *)
(* reached through the dialog, and touch the one file it is about.         *)
THEOREM FilesOnlyByDialog == Spec => FilesChangeByDialog
<1>1. TypeInv /\ [Next]_vars => [FileStep]_vars
  <2> SUFFICES ASSUME TypeInv, Next PROVE FileStep
    OBVIOUS
  <2>1. ASSUME disk' = disk PROVE FileStep
    BY <2>1 DEF FileStep
  <2>2. ASSUME NEW name \in Files, NEW written \in BOOLEAN, Save(name, written)
        PROVE  FileStep
    <3> DEFINE f == IF fileName = NoName THEN name ELSE fileName
               save == [facultyName |-> facultyName, majorName |-> majorName,
                        cards |-> cards]
    <3>1. /\ screen = "checklist" /\ showDialog
          /\ fileName \in {f, NoName} /\ fileName' = f /\ f \in Files
      BY <2>2 DEF Save, SaveModel, TypeInv, ScalarsTyped
    <3>2. save \in LegalFile /\ save.cards = cards /\ save.majorName = majorName
      BY DEF TypeInv, ScalarsTyped, ListsLegal, LegalFile
    <3>3. save # Absent
      BY <3>2, LegalFileIsThere
    <3>4. disk' \in {disk, [disk EXCEPT ![f] = save]}
      BY <2>2 DEF Save, SaveModel
    <3>5. ASSUME NEW g \in Files, disk'[g] # disk[g]
          PROVE  g = f /\ disk'[g] = save /\ \A h \in Files \ {g} : disk'[h] = disk[h]
      <4> HIDE DEF f, save
      <4>1. QED
        BY <3>4, <3>5 DEF TypeInv, DiskLegal
    <3>6. QED
      <4> HIDE DEF f, save
      <4>1. QED
        BY <3>1, <3>2, <3>3, <3>5 DEF FileStep
  <2>3. ASSUME NEW removed \in BOOLEAN, Delete(removed) PROVE FileStep
    <3>1. screen = "checklist" /\ showDialog /\ screen' = "root"
      BY <2>3 DEF Delete, GoBack, TypeInv, ScalarsTyped
    <3>2. CASE fileName # NoName /\ removed
      <4>1. fileName \in Files /\ disk' = [disk EXCEPT ![fileName] = Absent]
        BY <2>3, <3>2 DEF Delete, TypeInv, ScalarsTyped
      <4>2. ASSUME NEW f \in Files, disk'[f] # disk[f]
            PROVE  /\ fileName = f /\ disk'[f] = Absent
                   /\ \A g \in Files \ {f} : disk'[g] = disk[g]
        BY <4>1, <4>2 DEF TypeInv, DiskLegal
      <4>3. QED
        BY <3>1, <4>2 DEF FileStep
    <3>3. CASE ~(fileName # NoName /\ removed)
      BY <2>1, <2>3, <3>3 DEF Delete
    <3>4. QED
      BY <3>2, <3>3
  <2>4. CASE HomeStep \/ DatabaseStep \/ Relaunch
    <3>1. disk' = disk
      BY <2>4 DEF HomeStep, ChooseProgram, ChooseFile, Create, LoadFound,
                  LoadMissing, LoadTraps, DatabaseStep, Answer, LateAnswer,
                  Relaunch
    <3>2. QED
      BY <2>1, <3>1
  <2>5. CASE ChecklistStep
    <3>1. \/ disk' = disk
          \/ \E name \in Files, written \in BOOLEAN : Save(name, written)
          \/ \E removed \in BOOLEAN : Delete(removed)
      BY <2>5 DEF ChecklistStep, Tap, TapTraps, EditComment, SelectTab,
                  OpenDialog, DismissDialog, SwipeBack, Relaunch
    <3>2. QED
      BY <2>1, <2>2, <2>3, <3>1
  <2>6. QED
    BY <2>4, <2>5 DEF Next
<1>2. QED
  BY TypeInvInvariant, <1>1, PTL DEF Spec, FilesChangeByDialog

-----------------------------------------------------------------------------
(* What any step may do to the listing of the files: an onAppear of the    *)
(* home screen makes it anew, and nothing changes the files under it.      *)
LEMMA ListingStep ==
  ASSUME TypeInv, Next
  PROVE  \/ screen' = "checklist"
         \/ fileContent' = Listing(disk')
         \/ screen = "root" /\ UNCHANGED <<fileContent, disk>>
<1>1. ASSUME Relaunch PROVE fileContent' = Listing(disk')
  BY <1>1 DEF Relaunch
<1>2. CASE HomeStep
  BY <1>1, <1>2 DEF HomeStep, ChooseProgram, ChooseFile, Create, LoadFound,
                    LoadMissing, LoadTraps
<1>3. CASE DatabaseStep
  BY <1>3 DEF DatabaseStep, Answer, LateAnswer, TypeInv, ScalarsTyped
<1>4. CASE ChecklistStep
  <2>1. ASSUME GoBack PROVE fileContent' = Listing(disk')
    BY <2>1 DEF GoBack
  <2>2. QED
    BY <1>1, <1>4, <2>1
       DEF ChecklistStep, Tap, TapTraps, EditComment, SelectTab, OpenDialog,
           DismissDialog, Save, Delete, SwipeBack, Touchable, TypeInv, ScalarsTyped
<1>5. QED
  BY <1>1, <1>2, <1>3, <1>4 DEF Next

(* fetchContent(type: 3) runs at each appearance of the home screen, after *)
(* the deletion that may have led there: LOAD is offered what there is.    *)
THEOREM ListingAlwaysFresh == Spec => []ListingIsFresh
<1>1. Init => ListingIsFresh
  BY DEF Init, ListingIsFresh, Listing
<1>2. TypeInv /\ ListingIsFresh /\ [Next]_vars => ListingIsFresh'
  <2>1. CASE Next
    BY <2>1, ListingStep DEF ListingIsFresh
  <2>2. CASE UNCHANGED vars
    BY <2>2 DEF vars, ListingIsFresh
  <2>3. QED
    BY <2>1, <2>2
<1>3. QED
  BY TypeInvInvariant, <1>1, <1>2, PTL DEF Spec

-----------------------------------------------------------------------------
(* Why ticks without a file are flagged: what answers add to a created     *)
(* list is not ticked, for nothing but answers fills storedCards there; a  *)
(* tap sets the flag, and saving, which clears it, gives the list a name.  *)
StoredUnticked == screen = "checklist" /\ sourceType = 0 => ~Ticked(storedCards)

FlagInv == StoredUnticked /\ UnsavedTicksFlagged

LEMMA TickedConcat ==
  ASSUME NEW s \in Seq(LegalCards), NEW t \in Seq(LegalCards)
  PROVE  Ticked(s \o t) => Ticked(s) \/ Ticked(t)
<1> SUFFICES ASSUME NEW i \in 1 .. Len(s \o t), (s \o t)[i].checkedBoxes # <<>>
             PROVE  Ticked(s) \/ Ticked(t)
  BY DEF Ticked
<1>1. /\ Len(s) \in Nat /\ Len(t) \in Nat /\ i \in 1 .. Len(s) + Len(t)
      /\ (s \o t)[i] = IF i <= Len(s) THEN s[i] ELSE t[i - Len(s)]
  BY ConcatProperties, LenProperties
<1>2. CASE i <= Len(s)
  BY <1>1, <1>2 DEF Ticked
<1>3. CASE ~(i <= Len(s))
  <2>1. i - Len(s) \in 1 .. Len(t)
    BY <1>1, <1>3
  <2>2. QED
    BY <1>1, <1>3, <2>1 DEF Ticked
<1>4. QED
  BY <1>2, <1>3

(* An answer ticks nothing in a list whose stored cards are not ticked.    *)
LEMMA AddCardsUnticked ==
  ASSUME ListsLegal, ~Ticked(storedCards), NEW p \in Programs, AddCards(p)
  PROVE  ~Ticked(storedCards') /\ (Ticked(cards') => Ticked(cards))
<1> DEFINE new == FreshCards(Reqs[p])
<1>1. Reqs[p] \in Seq(Requirements)
  BY ProgramsAssumption
<1>2. /\ new \in Seq(LegalCards) /\ Len(new) = Len(Reqs[p])
      /\ \A i \in 1 .. Len(Reqs[p]) : new[i].checkedBoxes = <<>>
  BY <1>1, FreshCardsProperties
<1> HIDE DEF new
<1>3. ~Ticked(new)
  BY <1>2 DEF Ticked
<1>4. storedCards' = storedCards \o new /\ cards' = cards \o storedCards'
  BY DEF AddCards, new
<1>5. ~Ticked(storedCards')
  BY <1>2, <1>3, <1>4, TickedConcat DEF ListsLegal
<1>6. ListsLegal'
  BY AddCardsLegal
<1>7. QED
  BY <1>4, <1>5, <1>6, TickedConcat DEF ListsLegal

LEMMA HomeStepFlagged ==
  ASSUME TypeInv, FlagInv, HomeStep PROVE FlagInv'
<1>1. CASE Create
  BY <1>1 DEF Create, ResetCard, FlagInv, StoredUnticked, UnsavedTicksFlagged, Ticked
<1>2. CASE LoadFound \/ LoadMissing
  BY <1>2 DEF LoadFound, LoadMissing, FlagInv, StoredUnticked, UnsavedTicksFlagged
<1>3. ASSUME screen' = "root" PROVE FlagInv'
  BY <1>3 DEF FlagInv, StoredUnticked, UnsavedTicksFlagged
<1>4. QED
  BY <1>1, <1>2, <1>3
     DEF HomeStep, ChooseProgram, ChooseFile, LoadTraps, Relaunch

LEMMA DatabaseStepFlagged ==
  ASSUME TypeInv, FlagInv, DatabaseStep PROVE FlagInv'
<1>1. PICK p \in Programs :
        /\ AddCards(p) \/ UNCHANGED <<storedCards, cards>>
        /\ UNCHANGED <<screen, sourceType, fileName, changed>>
  <2>1. ASSUME NEW found \in BOOLEAN, Answer(found)
        PROVE  /\ waiting \in Programs
               /\ AddCards(waiting) \/ UNCHANGED <<storedCards, cards>>
               /\ UNCHANGED <<screen, sourceType, fileName, changed>>
    BY <2>1 DEF Answer, names, TypeInv, RequestsBounded
  <2>2. ASSUME NEW p \in Programs, NEW found \in BOOLEAN, LateAnswer(p, found)
        PROVE  /\ AddCards(p) \/ UNCHANGED <<storedCards, cards>>
               /\ UNCHANGED <<screen, sourceType, fileName, changed>>
    BY <2>2 DEF LateAnswer, names
  <2>3. QED
    BY <2>1, <2>2 DEF DatabaseStep
<1>2. CASE UNCHANGED <<storedCards, cards>>
  BY <1>1, <1>2 DEF FlagInv, StoredUnticked, UnsavedTicksFlagged
<1>3. CASE AddCards(p)
  <2> SUFFICES ASSUME screen' = "checklist", sourceType' = 0 PROVE FlagInv'
    BY DEF FlagInv, StoredUnticked, UnsavedTicksFlagged
  <2>1. ~Ticked(storedCards)
    BY <1>1 DEF FlagInv, StoredUnticked
  <2>2. ~Ticked(storedCards') /\ (Ticked(cards') => Ticked(cards))
    BY <1>3, <2>1, AddCardsUnticked DEF TypeInv
  <2>3. QED
    BY <1>1, <2>2 DEF FlagInv, StoredUnticked, UnsavedTicksFlagged
<1>4. QED
  BY <1>1, <1>2, <1>3

LEMMA ChecklistStepFlagged ==
  ASSUME TypeInv, FlagInv, ChecklistStep PROVE FlagInv'
<1> USE DEF FlagInv, StoredUnticked, UnsavedTicksFlagged
<1>1. ASSUME NEW r \in Rows, NEW box \in Boxes(cards[Row(r)].req), Tap(r, box)
      PROVE  FlagInv'
  BY <1>1 DEF Tap
<1>2. ASSUME NEW r \in Rows, NEW t \in Comments, EditComment(r, t)
      PROVE  FlagInv'
  <2> DEFINE i == Row(r)
             c == [cards[i] EXCEPT !.comment = t]
  <2>1. i \in 1 .. Len(cards) =>
          c \in LegalCards /\ c.checkedBoxes = cards[i].checkedBoxes
    BY ElementOfSeq, CommentKeepsCardLegal DEF TypeInv, ListsLegal
  <2>2. /\ cards' = [cards EXCEPT ![i] = c]
        /\ UNCHANGED <<screen, sourceType, fileName, changed, storedCards>>
    BY <1>2 DEF EditComment, names
  <2> HIDE DEF i, c
  <2>3. /\ Len(cards') = Len(cards)
        /\ \A j \in 1 .. Len(cards) : cards'[j] = IF j = i THEN c ELSE cards[j]
    BY <2>1, <2>2, UpdateKeepsList DEF TypeInv, ListsLegal
  <2>4. Ticked(cards') => Ticked(cards)
    BY <2>1, <2>3 DEF Ticked
  <2>5. QED
    BY <2>2, <2>4
<1>3. ASSUME NEW name \in Files, NEW written \in BOOLEAN, Save(name, written)
      PROVE  FlagInv'
  <2>1. fileName' # NoName
    BY <1>3, NamesAssumption DEF Save, SaveModel
  <2>2. QED
    BY <1>3, <2>1 DEF Save
<1>4. ASSUME screen' = "root" PROVE FlagInv'
  BY <1>4
<1>5. ASSUME UNCHANGED <<screen, sourceType, names, changed, storedCards, cards>>
      PROVE  FlagInv'
  BY <1>5 DEF names
<1>6. QED
  BY <1>1, <1>2, <1>3, <1>4, <1>5
     DEF ChecklistStep, TapTraps, Relaunch, SelectTab, OpenDialog, DismissDialog,
         Delete, SwipeBack, GoBack

(* showAlert() and the back button rely on changed: a created list without *)
(* a file never bears ticks that it does not confess.                      *)
THEOREM UnsavedTicksAlwaysFlagged == Spec => []UnsavedTicksFlagged
<1>1. Init => FlagInv
  BY DEF Init, FlagInv, StoredUnticked, UnsavedTicksFlagged
<1>2. TypeInv /\ FlagInv /\ [Next]_vars => FlagInv'
  <2> SUFFICES ASSUME TypeInv, FlagInv, [Next]_vars PROVE FlagInv'
    OBVIOUS
  <2>1. CASE Relaunch
    BY <2>1 DEF Relaunch, FlagInv, StoredUnticked, UnsavedTicksFlagged
  <2>2. CASE UNCHANGED vars
    BY <2>2 DEF vars, names, FlagInv, StoredUnticked, UnsavedTicksFlagged
  <2>3. QED
    BY <2>1, <2>2, HomeStepFlagged, DatabaseStepFlagged, ChecklistStepFlagged
       DEF Next
<1>3. FlagInv => UnsavedTicksFlagged
  BY DEF FlagInv
<1>4. QED
  BY TypeInvInvariant, <1>1, <1>2, <1>3, PTL DEF Spec

-----------------------------------------------------------------------------
(* What a step may do to the cards of a list that stays open: nothing, add *)
(* cards at its end, tick a box of one card, or write its comment.         *)
CardsGrow == \E more \in Seq(LegalCards) : cards' = cards \o more

CardTicked(i) ==
  \E box \in Boxes(cards[i].req) :
    /\ ~DivisionTraps(cards[i])
    /\ cards' = [cards EXCEPT ![i] = CheckboxSelected(cards[i], box)]

CardCommented(i) ==
  \E t \in Comments : cards' = [cards EXCEPT ![i] = [cards[i] EXCEPT !.comment = t]]

LEMMA UpdateOutside ==
  ASSUME NEW s \in Seq(LegalCards), NEW i, i \notin 1 .. Len(s), NEW e
  PROVE  [s EXCEPT ![i] = e] = s
<1>1. s \in [1 .. Len(s) -> LegalCards]
  BY LenProperties
<1>2. QED
  BY <1>1

LEMMA OpenListStep ==
  ASSUME TypeInv, Next, screen = "checklist", screen' = "checklist"
  PROVE  \/ cards' = cards
         \/ CardsGrow
         \/ \E i \in 1 .. Len(cards) : CardTicked(i) \/ CardCommented(i)
<1>1. ~HomeStep /\ ~Relaunch
  BY DEF HomeStep, ChooseProgram, ChooseFile, Create, LoadFound, LoadMissing,
         LoadTraps, Relaunch
<1>2. CASE DatabaseStep
  <2>1. ASSUME NEW p \in Programs, AddCards(p) PROVE CardsGrow
    <3>1. ListsLegal'
      BY <2>1, AddCardsLegal DEF TypeInv
    <3>2. QED
      BY <2>1, <3>1 DEF AddCards, CardsGrow, ListsLegal
  <2>2. QED
    BY <1>2, <2>1 DEF DatabaseStep, Answer, LateAnswer, TypeInv, RequestsBounded
<1>3. CASE ChecklistStep
  <2>1. ASSUME NEW r \in Rows, NEW box \in Boxes(cards[Row(r)].req), Tap(r, box)
        PROVE  cards' = cards \/ \E i \in 1 .. Len(cards) : CardTicked(i)
    <3> DEFINE i == Row(r)
               c == CheckboxSelected(cards[i], box)
    <3>1. ~DivisionTraps(cards[i]) /\ cards' = [cards EXCEPT ![i] = c]
      BY <2>1 DEF Tap
    <3>2. CASE i \in 1 .. Len(cards)
      BY <3>1, <3>2 DEF CardTicked
    <3>3. CASE i \notin 1 .. Len(cards)
      <4> HIDE DEF i, c
      <4>1. QED
        BY <3>1, <3>3, UpdateOutside DEF TypeInv, ListsLegal
    <3>4. QED
      BY <3>2, <3>3
  <2>2. ASSUME NEW r \in Rows, NEW t \in Comments, EditComment(r, t)
        PROVE  cards' = cards \/ \E i \in 1 .. Len(cards) : CardCommented(i)
    <3> DEFINE i == Row(r)
               c == [cards[i] EXCEPT !.comment = t]
    <3>1. cards' = [cards EXCEPT ![i] = c]
      BY <2>2 DEF EditComment
    <3>2. CASE i \in 1 .. Len(cards)
      BY <3>1, <3>2 DEF CardCommented
    <3>3. CASE i \notin 1 .. Len(cards)
      <4> HIDE DEF i, c
      <4>1. QED
        BY <3>1, <3>3, UpdateOutside DEF TypeInv, ListsLegal
    <3>4. QED
      BY <3>2, <3>3
  <2>3. QED
    BY <1>1, <1>3, <2>1, <2>2
       DEF ChecklistStep, TapTraps, SelectTab, OpenDialog, DismissDialog, Save,
           Delete, SwipeBack, GoBack
<1>4. QED
  BY <1>1, <1>2, <1>3 DEF Next

LEMMA GrowthIsPrefix ==
  ASSUME TypeInv, cards' = cards \/ CardsGrow
  PROVE  IsPrefix(cards, cards') /\ \A i \in 1 .. Len(cards) : cards'[i] = cards[i]
<1>1. cards \in Seq(LegalCards) /\ Len(cards) \in Nat
  BY LenProperties DEF TypeInv, ListsLegal
<1>2. CASE cards' = cards
  BY <1>1, <1>2, PrefixByPlaces
<1>3. ASSUME NEW more \in Seq(LegalCards), cards' = cards \o more
      PROVE  IsPrefix(cards, cards') /\ \A i \in 1 .. Len(cards) : cards'[i] = cards[i]
  <2>1. Len(more) \in Nat
    BY LenProperties
  <2>2. /\ cards' \in Seq(LegalCards) /\ Len(cards') = Len(cards) + Len(more)
        /\ \A i \in 1 .. Len(cards) + Len(more) :
             cards'[i] = IF i <= Len(cards) THEN cards[i] ELSE more[i - Len(cards)]
    BY <1>1, <1>3, ConcatProperties
  <2>3. \A i \in 1 .. Len(cards) : cards'[i] = cards[i]
    BY <1>1, <2>1, <2>2
  <2>4. Len(cards) <= Len(cards')
    BY <1>1, <2>1, <2>2
  <2>5. QED
    BY <1>1, <2>2, <2>3, <2>4, PrefixByPlaces
<1>4. QED
  BY <1>2, <1>3 DEF CardsGrow

(* The card that was ticked or commented, and those that were not.         *)
LEMMA OneCardChanges ==
  ASSUME TypeInv, NEW i \in 1 .. Len(cards), CardTicked(i) \/ CardCommented(i)
  PROVE  /\ Len(cards') = Len(cards) /\ cards' \in Seq(LegalCards)
         /\ \A j \in 1 .. Len(cards) : j # i => cards'[j] = cards[j]
         /\ cards'[i].req = cards[i].req
         /\ \/ cards'[i].checkedBoxes = cards[i].checkedBoxes
            \/ \E box \in Boxes(cards[i].req) :
                 /\ ~DivisionTraps(cards[i])
                 /\ cards'[i].checkedBoxes = ToggledBoxes(cards[i], box)
<1>1. cards[i] \in LegalCards /\ cards \in Seq(LegalCards)
  BY ElementOfSeq DEF TypeInv, ListsLegal
<1>2. PICK c \in LegalCards :
        /\ cards' = [cards EXCEPT ![i] = c]
        /\ c.req = cards[i].req
        /\ \/ c.checkedBoxes = cards[i].checkedBoxes
           \/ \E box \in Boxes(cards[i].req) :
                /\ ~DivisionTraps(cards[i])
                /\ c.checkedBoxes = ToggledBoxes(cards[i], box)
  <2>1. CASE CardTicked(i)
    BY <1>1, <2>1, TapKeepsCardLegal DEF CardTicked
  <2>2. CASE CardCommented(i)
    <3>1. PICK t \in Comments : cards' = [cards EXCEPT ![i].comment = t]
      BY <2>2 DEF CardCommented
    <3>2. PICK c : c = [cards[i] EXCEPT !.comment = t]
      OBVIOUS
    <3>3. /\ c \in LegalCards /\ c.req = cards[i].req
          /\ c.checkedBoxes = cards[i].checkedBoxes
      BY <1>1, <3>2, CommentKeepsCardLegal
    <3>4. cards' = [cards EXCEPT ![i] = c]
      BY <3>1, <3>2
    <3>5. QED
      BY <3>3, <3>4
  <2>3. QED
    BY <2>1, <2>2
<1>3. /\ cards' \in Seq(LegalCards) /\ Len(cards') = Len(cards)
      /\ \A j \in 1 .. Len(cards) : cards'[j] = IF j = i THEN c ELSE cards[j]
  BY <1>1, <1>2, UpdateKeepsList
<1>4. QED
  BY <1>2, <1>3

(* getDocument()'s handler adds at the end of the open list whatever it    *)
(* adds, and a tap or a comment touches one card.                          *)
THEOREM CardsAlwaysSurvive == Spec => CardsSurvive
<1> DEFINE Kept == \/ IsPrefix(cards, cards')
                   \/ /\ Len(cards') = Len(cards)
                      /\ Requirement(cards') = Requirement(cards)
                      /\ Cardinality({i \in 1 .. Len(cards) : cards[i] # cards'[i]}) = 1
<1>1. TypeInv /\ [Next]_vars
        => [screen = "checklist" /\ screen' = "checklist" => Kept]_vars
  <2> SUFFICES ASSUME TypeInv, Next, screen = "checklist", screen' = "checklist"
               PROVE  Kept
    OBVIOUS
  <2>1. CASE cards' = cards \/ CardsGrow
    BY <2>1, GrowthIsPrefix
  <2>2. ASSUME NEW i \in 1 .. Len(cards), CardTicked(i) \/ CardCommented(i)
        PROVE  Kept
    <3>1. /\ Len(cards') = Len(cards) /\ cards' \in Seq(LegalCards)
          /\ \A j \in 1 .. Len(cards) : j # i => cards'[j] = cards[j]
          /\ cards'[i].req = cards[i].req
      BY <2>2, OneCardChanges
    <3>2. CASE cards'[i] = cards[i]
      <4>1. \A j \in 1 .. Len(cards) : cards[j] = cards'[j]
        BY <3>1, <3>2
      <4>2. cards \in Seq(LegalCards) /\ Len(cards) <= Len(cards')
        BY <3>1, LenProperties DEF TypeInv, ListsLegal
      <4>3. QED
        BY <3>1, <4>1, <4>2, PrefixByPlaces
    <3>3. CASE cards'[i] # cards[i]
      <4>1. {j \in 1 .. Len(cards) : cards[j] # cards'[j]} = {i}
        BY <3>1, <3>3
      <4>2. Cardinality({i}) = 1
        BY FS_Singleton
      <4>3. \A j \in 1 .. Len(cards) : cards'[j].req = cards[j].req
        BY <3>1
      <4>4. Requirement(cards') = Requirement(cards)
        BY <3>1, <4>3 DEF Requirement
      <4>5. QED
        BY <3>1, <4>1, <4>2, <4>4
    <3>4. QED
      BY <3>2, <3>3
  <2>3. QED
    BY <2>1, <2>2, OpenListStep
<1>2. QED
  BY TypeInvInvariant, <1>1, PTL DEF Spec, CardsSurvive

(* checkboxSelected() on a full card releases the box ticked longest ago;  *)
(* no other step, on any card, releases a box that was not tapped.         *)
THEOREM OldestAlwaysGivesWay == Spec => OldestGivesWay
<1> DEFINE Ordered(i) ==
             LET was == cards[i].checkedBoxes
                 is  == cards'[i].checkedBoxes
             IN  \/ is = was
                 \/ Len(is) = Len(was) + 1 /\ IsPrefix(was, is)
                 \/ Len(is) + 1 = Len(was) /\ ToSet(is) \subseteq ToSet(was)
                 \/ /\ Len(was) = cards[i].req.num
                    /\ Len(is) = Len(was)
                    /\ IsPrefix(Tail(was), is)
                    /\ is[Len(is)] \notin ToSet(was)
<1>1. TypeInv /\ [Next]_vars
        => [screen = "checklist" /\ screen' = "checklist"
              => \A i \in 1 .. Len(cards) : Ordered(i)]_vars
  <2> SUFFICES ASSUME TypeInv, Next, screen = "checklist", screen' = "checklist",
                      NEW i \in 1 .. Len(cards)
               PROVE  Ordered(i)
    OBVIOUS
  <2>1. CASE cards' = cards \/ CardsGrow
    BY <2>1, GrowthIsPrefix
  <2>2. ASSUME NEW k \in 1 .. Len(cards), CardTicked(k) \/ CardCommented(k)
        PROVE  Ordered(i)
    <3>1. CASE cards'[i].checkedBoxes = cards[i].checkedBoxes
      BY <3>1
    <3>2. ASSUME NEW box \in Boxes(cards[i].req), ~DivisionTraps(cards[i]),
                 cards'[i].checkedBoxes = ToggledBoxes(cards[i], box)
          PROVE  Ordered(i)
      <4>1. cards[i] \in LegalCards
        BY ElementOfSeq DEF TypeInv, ListsLegal
      <4>2. QED
        BY <3>2, <4>1, TapGivesWay DEF Releases, Adds, PushesOut
    <3>3. QED
      BY <2>2, <3>1, <3>2, OneCardChanges
  <2>3. QED
    BY <2>1, <2>2, OpenListStep
<1>2. QED
  BY TypeInvInvariant, <1>1, PTL DEF Spec, OldestGivesWay
=============================================================================
