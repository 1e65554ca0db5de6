---------------------------- MODULE PromiseProofs ----------------------------
(***************************************************************************)
(* Checklist implements DegreeChecklist, for any programs, requirements,   *)
(* files and number of requests.  What is seen of the steps is computed    *)
(* for lists of cards first; then every step of the program is mapped to   *)
(* the one the user was promised, or to none.                              *)
(***************************************************************************)
EXTENDS ChecklistRefinement, ChecklistProofs

-----------------------------------------------------------------------------
(* What is seen of a list of cards.                                        *)
LEMMA EntriesTyped ==
  ASSUME NEW cs \in Seq(LegalCards)
  PROVE  /\ Entries(cs) \in Seq(Entry)
         /\ Len(Entries(cs)) = Len(cs)
         /\ \A i \in 1 .. Len(cs) : Entries(cs)[i] = EntryOf(cs[i])
<1>1. Len(cs) \in Nat
  BY LenProperties
<1>2. ASSUME NEW i \in 1 .. Len(cs) PROVE EntryOf(cs[i]) \in Entry
  <2>1. cs[i] \in LegalCards
    BY ElementOfSeq
  <2>2. QED
    BY <2>1 DEF LegalCards, Card, EntryOf, Entry
<1> HIDE DEF Entry
<1>3. [i \in 1 .. Len(cs) |-> EntryOf(cs[i])] \in Seq(Entry)
  BY <1>1, <1>2, IsASeq
<1>4. QED
  BY <1>1, <1>3 DEF Entries

LEMMA EntriesOfEmpty == Entries(<<>>) = <<>>
BY DEF Entries

LEMMA EntriesOfFresh ==
  ASSUME NEW p \in Programs
  PROVE  Entries(FreshCards(Reqs[p])) = Promise!Filled(p)
<1>1. Reqs[p] \in Seq(Requirements)
  BY ProgramsAssumption
<1>2. PICK new : new = FreshCards(Reqs[p])
  OBVIOUS
<1>3. /\ Len(new) = Len(Reqs[p])
      /\ \A i \in 1 .. Len(Reqs[p]) : /\ new[i].req = Reqs[p][i]
                                      /\ new[i].checkedBoxes = <<>>
                                      /\ new[i].comment = NoComment
  BY <1>1, <1>2, FreshCardsProperties
<1>4. \A i \in 1 .. Len(Reqs[p]) : EntryOf(new[i]) = Promise!Entry(Reqs[p][i])
  BY <1>3 DEF EntryOf, Promise!Entry
<1>5. QED
  BY <1>2, <1>3, <1>4 DEF Entries, Promise!Filled

LEMMA EntriesOfReadBack ==
  ASSUME NEW saved \in Seq(LegalCards)
  PROVE  Entries(ReadBack(saved)) = Promise!Reread(Entries(saved))
<1>1. PICK read : read = ReadBack(saved)
  OBVIOUS
<1>2. /\ Len(read) = Len(saved)
      /\ \A i \in 1 .. Len(saved) :
           /\ read[i].req = saved[i].req
           /\ read[i].checkedBoxes = saved[i].checkedBoxes
           /\ read[i].comment = BeforeMark[saved[i].comment]
  BY <1>1, ReadBackProperties
<1>3. PICK list : list = Entries(saved)
  OBVIOUS
<1>4. Len(list) = Len(saved) /\ \A i \in 1 .. Len(saved) : list[i] = EntryOf(saved[i])
  BY <1>3, EntriesTyped
<1>5. ASSUME NEW i \in 1 .. Len(saved)
      PROVE  EntryOf(read[i]) = [list[i] EXCEPT !.comment = BeforeMark[@]]
  <2>1. list[i] = EntryOf(saved[i])
    BY <1>4
  <2>2. EntryOf(read[i]) = [req     |-> saved[i].req,
                            ticks   |-> saved[i].checkedBoxes,
                            comment |-> BeforeMark[saved[i].comment]]
    BY <1>2 DEF EntryOf
  <2>3. QED
    BY <2>1, <2>2 DEF EntryOf
<1>6. QED
  BY <1>1, <1>2, <1>3, <1>4, <1>5 DEF Entries, Promise!Reread

LEMMA EntriesOfUpdate ==
  ASSUME NEW cs \in Seq(LegalCards), NEW i \in 1 .. Len(cs), NEW c \in LegalCards
  PROVE  Entries([cs EXCEPT ![i] = c]) = [Entries(cs) EXCEPT ![i] = EntryOf(c)]
<1>1. PICK ds : ds = [cs EXCEPT ![i] = c]
  OBVIOUS
<1>2. /\ Len(ds) = Len(cs)
      /\ \A j \in 1 .. Len(cs) : ds[j] = IF j = i THEN c ELSE cs[j]
  BY <1>1, ExceptSeq
<1>3. \A j \in 1 .. Len(cs) :
        EntryOf(ds[j]) = IF j = i THEN EntryOf(c) ELSE EntryOf(cs[j])
  BY <1>2
<1>4. QED
  BY <1>1, <1>2, <1>3 DEF Entries

-----------------------------------------------------------------------------
(* Of a full list and one more, the latest are all but the first.          *)
LEMMA LatestIsTail ==
  ASSUME NEW T, NEW m \in Seq(T), NEW n \in Nat, Len(m) = n + 1
  PROVE  Promise!Latest(m, n) = Tail(m)
<1>1. Len(m) - n + 1 = 2 /\ Len(m) > n /\ Len(m) \in Nat /\ m # <<>>
  BY EmptySeq
<1>2. Promise!Latest(m, n) = SubSeq(m, 2, Len(m))
  BY <1>1 DEF Promise!Latest
<1>3. QED
  BY <1>1, <1>2, TailIsSubSeq

LEMMA LatestIsAll ==
  ASSUME NEW T, NEW m \in Seq(T), NEW n \in Nat, Len(m) <= n
  PROVE  Promise!Latest(m, n) = m
<1>1. Len(m) \in Nat /\ ~(Len(m) > n)
  BY LenProperties
<1>2. Promise!Latest(m, n) = SubSeq(m, 1, Len(m))
  BY <1>1 DEF Promise!Latest
<1>3. /\ \A i \in 1 .. Len(m) : m[i] \in T
      /\ 1 \in Int /\ Len(m) \in Int
  BY <1>1, ElementOfSeq
<1>4. PICK a : a = SubSeq(m, 1, Len(m))
  OBVIOUS
<1>5. /\ a \in Seq(T) /\ Len(a) = (IF 1 <= Len(m) THEN Len(m) - 1 + 1 ELSE 0)
      /\ \A i \in 1 .. Len(m) - 1 + 1 : a[i] = m[1 + i - 1]
  BY <1>3, <1>4, SubSeqProperties
<1>6. Len(a) = Len(m) /\ \A i \in 1 .. Len(m) : a[i] = m[i]
  BY <1>1, <1>5
<1>7. a = m
  BY <1>5, <1>6, SeqEqual
<1>8. QED
  BY <1>2, <1>4, <1>7

(* RemoveFirst takes a tick out and keeps the order of the others.         *)
LEMMA ReleasedIsRemoved ==
  ASSUME NEW T, NEW s \in Seq(T), NEW e, Injective(s), e \in ToSet(s)
  PROVE  Promise!Released(s, e) = RemoveFirst(s, e)
<1>1. PICK k \in 1 .. Len(s) :
        /\ s[k] = e
        /\ RemoveFirst(s, e)
            = [i \in 1 .. (Len(s) - 1) |-> IF i < k THEN s[i] ELSE s[i + 1]]
  BY RemoveFirstKeepsOrder
<1>2. Len(s) \in Nat
  BY LenProperties
<1>3. \A i \in 1 .. (Len(s) - 1) : (\E j \in 1 .. i : s[j] = e) <=> ~(i < k)
  BY <1>1, <1>2 DEF Injective
<1>4. QED
  BY <1>1, <1>3 DEF Promise!Released

(* checkboxSelected() keeps the latest num of the ticks.                   *)
LEMMA TapIsTick ==
  ASSUME NEW c \in LegalCards, NEW box \in Boxes(c.req), ~DivisionTraps(c)
  PROVE  EntryOf(CheckboxSelected(c, box)) = Promise!Ticked(EntryOf(c), box)
<1> DEFINE s == c.checkedBoxes
           n == c.req.num
           m == Append(s, box)
           T == Boxes(c.req)
<1>1. /\ s \in Seq(T) /\ Injective(s) /\ Len(s) <= n /\ n \in Nat
  BY RequirementsAssumption DEF LegalCards, LegalCard, Card, Injective
<1>2. /\ m \in Seq(T) /\ Len(m) = Len(s) + 1 /\ Len(s) \in Nat
  BY <1>1, AppendProperties, LenProperties
<1>3. ToggledBoxes(c, box) = IF box \in ToSet(s) THEN Promise!Released(s, box)
                                                 ELSE Promise!Latest(m, n)
  <2>1. CASE box \in ToSet(s)
    <3> HIDE DEF T
    <3>1. Promise!Released(s, box) = RemoveFirst(s, box)
      BY <1>1, <2>1, ReleasedIsRemoved
    <3>2. QED
      BY <2>1, <3>1 DEF ToggledBoxes
  <2>2. CASE box \notin ToSet(s) /\ Len(m) > n
    <3>1. ToggledBoxes(c, box) = Tail(m)
      BY <2>2 DEF ToggledBoxes
    <3> HIDE DEF m, T
    <3>2. Len(m) = n + 1
      BY <1>1, <1>2, <2>2
    <3>3. QED
      BY <1>1, <1>2, <2>2, <3>1, <3>2, LatestIsTail
  <2>3. CASE box \notin ToSet(s) /\ ~(Len(m) > n)
    <3>1. ToggledBoxes(c, box) = m
      BY <2>3 DEF ToggledBoxes
    <3> HIDE DEF m, T
    <3>2. Len(m) <= n
      BY <1>1, <1>2, <2>3
    <3>3. QED
      BY <1>1, <1>2, <2>3, <3>1, <3>2, LatestIsAll
  <2>4. QED
    BY <2>1, <2>2, <2>3
<1>4. PICK t : t = ToggledBoxes(c, box)
  OBVIOUS
<1>5. /\ CheckboxSelected(c, box).checkedBoxes = t
      /\ CheckboxSelected(c, box).req = c.req
      /\ CheckboxSelected(c, box).comment = c.comment
  BY <1>4, TapKeepsCardLegal
<1>6. EntryOf(CheckboxSelected(c, box)) = [EntryOf(c) EXCEPT !.ticks = t]
  BY <1>5 DEF EntryOf
<1>7. t = IF box \in ToSet(EntryOf(c).ticks)
          THEN Promise!Released(EntryOf(c).ticks, box)
          ELSE Promise!Latest(Append(EntryOf(c).ticks, box), EntryOf(c).req.num)
  BY <1>3, <1>4 DEF EntryOf
<1>8. Promise!ToSet(EntryOf(c).ticks) = ToSet(EntryOf(c).ticks)
  BY DEF Promise!ToSet, ToSet
<1>9. QED
  BY <1>6, <1>7, <1>8 DEF Promise!Ticked

-----------------------------------------------------------------------------
(* What is seen of the state: nothing of the home screen; of an open list  *)
(* no answer to an earlier one has reached, all the user was promised.     *)
PromiseStep == Promise!Next \/ UNCHANGED Promise!vars

FileSeen(x) == [program |-> x.majorName, list |-> Entries(x.cards)]

LEMMA OpenListSeen ==
  ASSUME TypeInv, screen = "checklist", ~mixed
  PROVE  /\ OpenList = [program |-> majorName, asked |-> waiting,
                        name    |-> fileName,  list  |-> Entries(cards)]
         /\ Promise!IsList
<1>1. OpenList = [program |-> majorName, asked |-> waiting,
                  name    |-> fileName,  list  |-> Entries(cards)]
  BY DEF OpenList
<1>2. Entries(cards) \in Seq(Entry)
  BY EntriesTyped DEF TypeInv, ListsLegal
<1>3. OpenList \in [program : Programs \cup {NoName},
                    asked   : Programs \cup {NoName},
                    name    : Files \cup {NoName},
                    list    : Seq(Entry)]
  BY <1>1, <1>2 DEF TypeInv, ScalarsTyped, RequestsBounded
<1>4. QED
  BY <1>1, <1>3, StatesAssumption DEF Promise!IsList

LEMMA FileListsSeen ==
  ASSUME TypeInv, NEW f \in Files
  PROVE  /\ disk[f] = Absent => FileLists[f] = Absent
         /\ disk[f] # Absent => /\ disk[f] \in LegalFile
                                /\ FileLists[f] = FileSeen(disk[f])
                                /\ FileLists[f] # Absent
<1>1. disk[f] \in LegalFile \cup {Absent}
  BY DEF TypeInv, DiskLegal
<1>2. FileLists[f] = IF disk[f] = Absent THEN Absent ELSE FileSeen(disk[f])
  BY DEF FileLists, FileSeen
<1>3. ASSUME disk[f] # Absent PROVE FileSeen(disk[f]) # Absent
  <2>1. disk[f] \in LegalFile
    BY <1>1, <1>3
  <2>2. Entries(disk[f].cards) \in Seq(Entry)
    BY <2>1, EntriesTyped DEF LegalFile
  <2>3. FileSeen(disk[f]) \in [program : Programs \cup {NoName}, list : Seq(Entry)]
    BY <2>1, <2>2 DEF FileSeen, LegalFile
  <2>4. QED
    BY <2>3, StatesAssumption
<1>4. QED
  BY <1>1, <1>2, <1>3

LEMMA FilesUnseen == disk' = disk => FileLists' = FileLists
BY DEF FileLists

(* A step the user does not see.                                           *)
LEMMA Unseen ==
  ASSUME disk' = disk,
         \/ screen = "root" /\ screen' = "root"
         \/ screen' = "checklist" /\ screen = "checklist" /\ mixed /\ mixed'
         \/ UNCHANGED <<screen, mixed, majorName, waiting, fileName, cards>>
  PROVE  PromiseStep
<1>1. OpenList' = OpenList
  BY DEF OpenList
<1>2. QED
  BY <1>1, FilesUnseen DEF PromiseStep, Promise!vars

(* Leaving a list, lost or not.                                            *)
LEMMA Leaves ==
  ASSUME TypeInv, screen = "checklist", screen' = "root", disk' = disk
  PROVE  PromiseStep
<1>1. OpenList # Closed
  <2>1. CASE mixed
    BY <2>1, StatesAssumption DEF OpenList
  <2>2. CASE ~mixed
    BY <2>2, OpenListSeen DEF Promise!IsList
  <2>3. QED
    BY <2>1, <2>2
<1>2. OpenList' = Closed
  BY DEF OpenList
<1>3. Promise!Close
  BY <1>1, <1>2, FilesUnseen DEF Promise!Close
<1>4. QED
  BY <1>3 DEF PromiseStep, Promise!Next

LEMMA RelaunchPromised ==
  ASSUME TypeInv, Relaunch PROVE PromiseStep
<1>1. screen' = "root" /\ disk' = disk /\ screen \in {"root", "checklist"}
  BY DEF Relaunch, TypeInv, ScalarsTyped
<1>2. QED
  BY <1>1, Unseen, Leaves

-----------------------------------------------------------------------------
LEMMA CreatePromised ==
  ASSUME TypeInv, ExactInv, Create PROVE PromiseStep
<1>1. /\ screen = "root" /\ screen' = "checklist" /\ ~mixed'
      /\ majorName' = majorName /\ waiting' = majorName /\ fileName' = fileName
      /\ cards' = <<>> /\ disk' = disk
      /\ majorName \in Programs /\ fileName \in Files \cup {NoName}
  BY DEF Create, ResetCard, names, ExactInv, TypeInv, ScalarsTyped
<1>2. OpenList = Closed
  BY <1>1 DEF OpenList
<1>3. OpenList' = [program |-> majorName, asked |-> majorName,
                   name    |-> fileName,  list  |-> <<>>]
  BY <1>1, EntriesOfEmpty DEF OpenList
<1>4. Promise!Create(majorName, fileName)
  BY <1>1, <1>2, <1>3, FilesUnseen DEF Promise!Create
<1>5. QED
  BY <1>1, <1>4 DEF PromiseStep, Promise!Next

LEMMA LoadFoundPromised ==
  ASSUME TypeInv, ExactInv, LoadFound PROVE PromiseStep
<1>1. PICK x : x = disk[fileName]
  OBVIOUS
<1>2. /\ screen = "root" /\ screen' = "checklist" /\ ~mixed'
      /\ waiting' = NoName /\ fileName' = fileName
      /\ majorName' = x.majorName /\ cards' = ReadBack(x.cards)
      /\ disk' = disk /\ fileName \in Files /\ x # Absent
  BY <1>1 DEF LoadFound, requests, ExactInv, TypeInv, ScalarsTyped, RequestsBounded
<1>3. x \in LegalFile /\ FileLists[fileName] = FileSeen(x)
      /\ FileLists[fileName] # Absent
  BY <1>1, <1>2, FileListsSeen
<1>4. Entries(cards') = Promise!Reread(Entries(x.cards))
  BY <1>2, <1>3, EntriesOfReadBack DEF LegalFile
<1>5. OpenList = Closed
  BY <1>2 DEF OpenList
<1>6. OpenList' = [program |-> x.majorName, asked |-> NoName, name |-> fileName,
                   list    |-> Promise!Reread(Entries(x.cards))]
  BY <1>2, <1>4 DEF OpenList
<1>7. /\ FileLists[fileName].program = x.majorName
      /\ FileLists[fileName].list = Entries(x.cards)
  BY <1>3 DEF FileSeen
<1>8. Promise!Load(fileName)
  BY <1>2, <1>3, <1>5, <1>6, <1>7, FilesUnseen DEF Promise!Load
<1>9. QED
  BY <1>2, <1>8 DEF PromiseStep, Promise!Next

LEMMA LoadMissingPromised ==
  ASSUME TypeInv, ExactInv, LoadMissing PROVE PromiseStep
<1>1. /\ screen = "root" /\ screen' = "checklist" /\ ~mixed'
      /\ waiting' = NoName /\ fileName' = fileName /\ majorName' = majorName
      /\ cards' = <<>> /\ disk' = disk /\ fileName \in Files
      /\ disk[fileName] = Absent /\ majorName \in Programs \cup {NoName}
  BY DEF LoadMissing, ResetCard, names, requests, ExactInv, TypeInv,
         ScalarsTyped, RequestsBounded
<1>2. FileLists[fileName] = Absent
  BY <1>1, FileListsSeen
<1>3. OpenList = Closed
  BY <1>1 DEF OpenList
<1>4. OpenList' = [program |-> majorName, asked |-> NoName, name |-> fileName,
                   list    |-> <<>>]
  BY <1>1, EntriesOfEmpty DEF OpenList
<1>5. Promise!LoadNothing(fileName, majorName)
  BY <1>1, <1>2, <1>3, <1>4, FilesUnseen DEF Promise!LoadNothing
<1>6. QED
  BY <1>1, <1>5 DEF PromiseStep, Promise!Next

LEMMA HomeStepPromised ==
  ASSUME TypeInv, ExactInv, HomeStep PROVE PromiseStep
<1>1. ASSUME NEW f \in Faculties, NEW p \in Programs \cup {NoName},
             ChooseProgram(f, p)
      PROVE  PromiseStep
  BY <1>1, Unseen DEF ChooseProgram
<1>2. ASSUME NEW f \in Files, ChooseFile(f) PROVE PromiseStep
  BY <1>2, Unseen DEF ChooseFile
<1>3. CASE LoadTraps
  BY <1>3, RelaunchPromised DEF LoadTraps
<1>4. QED
  BY <1>1, <1>2, <1>3, CreatePromised, LoadFoundPromised, LoadMissingPromised
     DEF HomeStep

-----------------------------------------------------------------------------
(* The answer to the open list fills it at once, and with nothing else: it *)
(* was empty, and so was storedCards.                                      *)
LEMMA AnswerPromised ==
  ASSUME TypeInv, ExactInv, NEW found \in BOOLEAN, Answer(found)
  PROVE  PromiseStep
<1>1. /\ screen = "checklist" /\ waiting # NoName /\ waiting \in Programs
      /\ screen' = "checklist" /\ mixed' = mixed /\ waiting' = NoName
      /\ majorName' = majorName /\ fileName' = fileName /\ disk' = disk
  BY DEF Answer, names, TypeInv, RequestsBounded
<1>2. CASE mixed
  BY <1>1, <1>2, Unseen
<1>3. CASE ~mixed
  <2>1. /\ OpenList = [program |-> majorName, asked |-> waiting,
                       name    |-> fileName,  list  |-> Entries(cards)]
        /\ Promise!IsList
    BY <1>1, <1>3, OpenListSeen
  <2>2. OpenList' = [program |-> majorName, asked |-> NoName,
                     name    |-> fileName,  list  |-> Entries(cards')]
    BY <1>1, <1>3 DEF OpenList
  <2>3. CASE found
    <3>1. cards = <<>> /\ storedCards = <<>> /\ AddCards(waiting)
      BY <1>1, <1>3, <2>3 DEF ExactInv, EmptyWhileWaiting, Answer
    <3>2. FreshCards(Reqs[waiting]) \in Seq(LegalCards)
      BY <1>1, ProgramsAssumption, FreshCardsProperties
    <3>3. cards' = FreshCards(Reqs[waiting])
      <4>1. PICK new : new = FreshCards(Reqs[waiting])
        OBVIOUS
      <4>2. storedCards' = <<>> \o new /\ cards' = <<>> \o storedCards'
        BY <3>1, <4>1 DEF AddCards
      <4>3. QED
        BY <3>2, <4>1, <4>2, ConcatEmptySeq
    <3>4. Entries(cards') = Promise!Filled(waiting)
      BY <1>1, <3>3, EntriesOfFresh
    <3>5. OpenList' = [OpenList EXCEPT !.asked = NoName,
                                       !.list = Promise!Filled(OpenList.asked)]
      <4>1. OpenList.asked = waiting
        BY <2>1
      <4>2. PICK list, filled : list = Entries(cards) /\ filled = Promise!Filled(waiting)
        OBVIOUS
      <4>3. /\ OpenList  = [program |-> majorName, asked |-> waiting,
                            name    |-> fileName,  list  |-> list]
            /\ OpenList' = [program |-> majorName, asked |-> NoName,
                            name    |-> fileName,  list  |-> filled]
        BY <2>1, <2>2, <3>4, <4>2
      <4>4. PICK o : o = [OpenList EXCEPT !.asked = NoName]
        OBVIOUS
      <4>5. OpenList' = [o EXCEPT !.list = filled]
        <5>1. o = [program |-> majorName, asked |-> NoName,
                   name    |-> fileName,  list  |-> list]
          BY <4>3, <4>4
        <5>2. QED
          BY <4>3, <5>1
      <4>6. OpenList' = [OpenList EXCEPT !.asked = NoName, !.list = filled]
        BY <4>4, <4>5
      <4>7. QED
        BY <4>1, <4>2, <4>6
    <3>6. Promise!Fill
      BY <1>1, <2>1, <3>5, FilesUnseen DEF Promise!Fill
    <3>7. QED
      BY <3>6 DEF PromiseStep, Promise!Next
  <2>4. CASE ~found
    <3>1. cards' = cards
      BY <2>4 DEF Answer
    <3>2. OpenList' = [OpenList EXCEPT !.asked = NoName]
      BY <2>1, <2>2, <3>1
    <3>3. Promise!StayEmpty
      BY <1>1, <2>1, <3>2, FilesUnseen DEF Promise!StayEmpty
    <3>4. QED
      BY <3>3 DEF PromiseStep, Promise!Next
  <2>5. QED
    BY <2>3, <2>4
<1>4. QED
  BY <1>2, <1>3

LEMMA LateAnswerPromised ==
  ASSUME TypeInv, ExactInv, NEW p \in Programs, NEW found \in BOOLEAN,
         LateAnswer(p, found)
  PROVE  PromiseStep
<1>1. /\ screen' = screen /\ disk' = disk /\ screen \in {"root", "checklist"}
      /\ mixed' = (mixed \/ (found /\ screen = "checklist"))
      /\ mixed \in BOOLEAN
      /\ UNCHANGED <<majorName, waiting, fileName>>
      /\ ~found => cards' = cards
  BY DEF LateAnswer, names, TypeInv, ScalarsTyped
<1>2. CASE screen = "root" \/ mixed \/ ~found
  BY <1>1, <1>2, Unseen
<1>3. CASE screen = "checklist" /\ ~mixed /\ found
  <2>1. Promise!IsList
    BY <1>3, OpenListSeen
  <2>2. OpenList' = Lost
    BY <1>1, <1>3 DEF OpenList
  <2>3. Promise!Lose
    BY <1>1, <2>1, <2>2, FilesUnseen DEF Promise!Lose
  <2>4. QED
    BY <2>3 DEF PromiseStep, Promise!Next
<1>4. QED
  BY <1>1, <1>2, <1>3

LEMMA DatabaseStepPromised ==
  ASSUME TypeInv, ExactInv, DatabaseStep PROVE PromiseStep
BY AnswerPromised, LateAnswerPromised DEF DatabaseStep

-----------------------------------------------------------------------------
(* A tap or a comment on one card of a list that is not lost.              *)
LEMMA OneEntryChanges ==
  ASSUME TypeInv, screen = "checklist", ~mixed,
         NEW i \in 1 .. Len(cards), NEW c \in LegalCards,
         cards' = [cards EXCEPT ![i] = c],
         UNCHANGED <<screen, mixed, majorName, waiting, fileName, disk>>
  PROVE  /\ Promise!IsList
         /\ i \in 1 .. Len(OpenList.list)
         /\ OpenList.list[i] = EntryOf(cards[i])
         /\ OpenList' = [OpenList EXCEPT !.list[i] = EntryOf(c)]
         /\ FileLists' = FileLists
<1>1. PICK list : list = Entries(cards)
  OBVIOUS
<1>2. cards \in Seq(LegalCards)
  BY DEF TypeInv, ListsLegal
<1>3. /\ OpenList = [program |-> majorName, asked |-> waiting,
                     name    |-> fileName,  list  |-> list]
      /\ Promise!IsList
  BY <1>1, OpenListSeen
<1>4. Len(list) = Len(cards) /\ list[i] = EntryOf(cards[i])
  BY <1>1, <1>2, EntriesTyped
<1>5. Entries(cards') = [list EXCEPT ![i] = EntryOf(c)]
  BY <1>1, <1>2, EntriesOfUpdate
<1>6. OpenList' = [program |-> majorName, asked |-> waiting,
                   name    |-> fileName,  list  |-> [list EXCEPT ![i] = EntryOf(c)]]
  BY <1>5 DEF OpenList
<1>7. OpenList' = [OpenList EXCEPT !.list[i] = EntryOf(c)]
  BY <1>3, <1>6
<1>8. QED
  BY <1>3, <1>4, <1>7, FilesUnseen

LEMMA TapPromised ==
  ASSUME TypeInv, NEW r \in Rows, NEW box \in Boxes(cards[Row(r)].req),
         Tap(r, box)
  PROVE  PromiseStep
<1>1. PICK i : i = Row(r)
  OBVIOUS
<1>2. /\ screen = "checklist" /\ ~DivisionTraps(cards[i])
      /\ cards' = [cards EXCEPT ![i] = CheckboxSelected(cards[i], box)]
      /\ UNCHANGED <<screen, mixed, majorName, waiting, fileName, disk>>
      /\ box \in Boxes(cards[i].req) /\ cards \in Seq(LegalCards)
  BY <1>1 DEF Tap, Touchable, names, requests, TypeInv, ListsLegal
<1>3. CASE mixed
  BY <1>2, <1>3, Unseen
<1>4. CASE i \notin 1 .. Len(cards)
  <2>1. PICK c : c = CheckboxSelected(cards[i], box)
    OBVIOUS
  <2>2. cards' = cards
    BY <1>2, <1>4, <2>1, UpdateOutside
  <2>3. QED
    BY <1>2, <2>2, Unseen
<1>5. CASE ~mixed /\ i \in 1 .. Len(cards)
  <2>1. cards[i] \in LegalCards
    BY <1>2, <1>5, ElementOfSeq
  <2>2. PICK c : c = CheckboxSelected(cards[i], box)
    OBVIOUS
  <2>3. c \in LegalCards /\ EntryOf(c) = Promise!Ticked(EntryOf(cards[i]), box)
    BY <1>2, <2>1, <2>2, TapKeepsCardLegal, TapIsTick
  <2>4. /\ Promise!IsList
        /\ i \in 1 .. Len(OpenList.list)
        /\ OpenList.list[i] = EntryOf(cards[i])
        /\ OpenList' = [OpenList EXCEPT !.list[i] = EntryOf(c)]
        /\ FileLists' = FileLists
    BY <1>2, <1>5, <2>2, <2>3, OneEntryChanges
  <2>5. OpenList.list[i].req = cards[i].req
    BY <2>4 DEF EntryOf
  <2>6. OpenList.list[i].req.num > 0
    <3>1. cards[i].req.num \in Nat /\ cards[i].req.num # 0
      BY <1>2, <2>1, RequirementsAssumption DEF LegalCards, Card, DivisionTraps
    <3>2. QED
      BY <2>5, <3>1
  <2>7. Promise!Tick(i, box)
    BY <2>3, <2>4, <2>6 DEF Promise!Tick
  <2>8. box \in 0 .. (OpenList.list[i].req.items - 1)
    BY <1>2, <2>5 DEF Boxes
  <2>9. QED
    BY <2>4, <2>7, <2>8 DEF PromiseStep, Promise!Next
<1>6. QED
  BY <1>3, <1>4, <1>5

LEMMA EditCommentPromised ==
  ASSUME TypeInv, NEW r \in Rows, NEW t \in Comments, EditComment(r, t)
  PROVE  PromiseStep
<1>1. PICK i : i = Row(r)
  OBVIOUS
<1>2. /\ screen = "checklist"
      /\ cards' = [cards EXCEPT ![i].comment = t]
      /\ UNCHANGED <<screen, mixed, majorName, waiting, fileName, disk>>
      /\ cards \in Seq(LegalCards)
  BY <1>1 DEF EditComment, Touchable, names, requests, TypeInv, ListsLegal
<1>3. PICK c : c = [cards[i] EXCEPT !.comment = t]
  OBVIOUS
<1>4. cards' = [cards EXCEPT ![i] = c]
  BY <1>2, <1>3
<1>5. CASE mixed
  BY <1>2, <1>5, Unseen
<1>6. CASE i \notin 1 .. Len(cards)
  <2>1. cards' = cards
    BY <1>2, <1>4, <1>6, UpdateOutside
  <2>2. QED
    BY <1>2, <2>1, Unseen
<1>7. CASE ~mixed /\ i \in 1 .. Len(cards)
  <2>1. cards[i] \in LegalCards
    BY <1>2, <1>7, ElementOfSeq
  <2>2. /\ c \in LegalCards /\ c.req = cards[i].req
        /\ c.checkedBoxes = cards[i].checkedBoxes /\ c.comment = t
    BY <1>3, <2>1, CommentKeepsCardLegal
  <2>3. /\ Promise!IsList
        /\ i \in 1 .. Len(OpenList.list)
        /\ OpenList.list[i] = EntryOf(cards[i])
        /\ OpenList' = [OpenList EXCEPT !.list[i] = EntryOf(c)]
        /\ FileLists' = FileLists
    BY <1>2, <1>4, <1>7, <2>2, OneEntryChanges
  <2>4. EntryOf(c) = [EntryOf(cards[i]) EXCEPT !.comment = t]
    BY <2>2 DEF EntryOf
  <2>5. OpenList' = [OpenList EXCEPT !.list[i].comment = t]
    BY <2>3, <2>4
  <2>6. Promise!Annotate(i, t)
    BY <2>3, <2>5 DEF Promise!Annotate
  <2>7. QED
    BY <2>3, <2>6 DEF PromiseStep, Promise!Next
<1>8. QED
  BY <1>5, <1>6, <1>7

-----------------------------------------------------------------------------
(* What is seen of the documents directory when one file changes.          *)
LEMMA WriteSeen ==
  ASSUME TypeInv, NEW f \in Files, NEW x, x # Absent,
         disk' = [disk EXCEPT ![f] = x]
  PROVE  FileLists' = [FileLists EXCEPT ![f] = FileSeen(x)]
<1>1. disk \in [Files -> LegalFile \cup {Absent}]
  BY DEF TypeInv, DiskLegal
<1>2. \A g \in Files : disk'[g] = IF g = f THEN x ELSE disk[g]
  BY <1>1
<1>3. FileLists = [g \in Files |-> IF disk[g] = Absent THEN Absent
                                                       ELSE FileSeen(disk[g])]
  BY DEF FileLists, FileSeen
<1>4. FileLists' = [g \in Files |-> IF disk'[g] = Absent THEN Absent
                                                         ELSE FileSeen(disk'[g])]
  BY DEF FileLists, FileSeen
<1>5. QED
  BY <1>2, <1>3, <1>4

LEMMA RemovalSeen ==
  ASSUME TypeInv, NEW f \in Files, disk' = [disk EXCEPT ![f] = Absent]
  PROVE  FileLists' = [FileLists EXCEPT ![f] = Absent]
<1>1. disk \in [Files -> LegalFile \cup {Absent}]
  BY DEF TypeInv, DiskLegal
<1>2. \A g \in Files : disk'[g] = IF g = f THEN Absent ELSE disk[g]
  BY <1>1
<1>3. QED
  BY <1>2 DEF FileLists

(* The open list as a file, whatever its name.                             *)
LEMMA SavePromised ==
  ASSUME TypeInv, NEW typed \in Files, NEW written \in BOOLEAN,
         Save(typed, written)
  PROVE  PromiseStep
<1>1. PICK f : f = IF fileName = NoName THEN typed ELSE fileName
  OBVIOUS
<1>2. PICK x : x = [facultyName |-> facultyName, majorName |-> majorName,
                    cards       |-> cards]
  OBVIOUS
<1>3. /\ screen = "checklist" /\ screen' = "checklist"
      /\ f \in Files /\ fileName \in {f, NoName}
      /\ disk' = (IF written THEN [disk EXCEPT ![f] = x] ELSE disk)
      /\ fileName' = f
      /\ UNCHANGED <<mixed, majorName, waiting, cards>>
  BY <1>1, <1>2 DEF Save, SaveModel, requests, TypeInv, ScalarsTyped
<1>4. x \in LegalFile
  BY <1>2 DEF LegalFile, TypeInv, ScalarsTyped, ListsLegal
<1>5. x # Absent
  BY <1>4, LegalFileIsThere
<1>6. FileLists' = IF written THEN [FileLists EXCEPT ![f] = FileSeen(x)]
                              ELSE FileLists
  BY <1>3, <1>5, WriteSeen, FilesUnseen
<1>7. CASE mixed
  <2>1. OpenList = Lost /\ OpenList' = Lost
    BY <1>3, <1>7 DEF OpenList
  <2>2. \A g \in Files \ {f} : FileLists'[g] = FileLists[g]
    BY <1>6
  <2>3. Promise!Damage
    BY <1>3, <2>1, <2>2 DEF Promise!Damage
  <2>4. QED
    BY <2>3 DEF PromiseStep, Promise!Next
<1>8. CASE ~mixed
  <2>1. /\ OpenList = [program |-> majorName, asked |-> waiting,
                       name    |-> fileName,  list  |-> Entries(cards)]
        /\ Promise!IsList
    BY <1>3, <1>8, OpenListSeen
  <2>2. OpenList' = [program |-> majorName, asked |-> waiting,
                     name    |-> f,         list  |-> Entries(cards)]
    BY <1>3, <1>8 DEF OpenList
  <2>3. OpenList' = [OpenList EXCEPT !.name = f] /\ OpenList.name = fileName
    BY <2>1, <2>2
  <2>4. FileSeen(x) = [program |-> OpenList.program, list |-> OpenList.list]
    BY <1>2, <2>1 DEF FileSeen
  <2>5. Promise!Save(f)
    BY <1>3, <1>6, <2>1, <2>3, <2>4 DEF Promise!Save
  <2>6. QED
    BY <1>3, <2>5 DEF PromiseStep, Promise!Next
<1>9. QED
  BY <1>7, <1>8

LEMMA DeletePromised ==
  ASSUME TypeInv, NEW removed \in BOOLEAN, Delete(removed)
  PROVE  PromiseStep
<1>1. screen = "checklist" /\ screen' = "root"
  BY DEF Delete, GoBack, TypeInv, ScalarsTyped
<1>2. CASE fileName # NoName /\ removed
  <2>1. fileName \in Files /\ disk' = [disk EXCEPT ![fileName] = Absent]
    BY <1>2 DEF Delete, TypeInv, ScalarsTyped
  <2>2. FileLists' = [FileLists EXCEPT ![fileName] = Absent]
    BY <2>1, RemovalSeen
  <2>3. OpenList' = Closed
    BY <1>1 DEF OpenList
  <2>4. CASE mixed
    <3>1. OpenList = Lost
      BY <1>1, <2>4 DEF OpenList
    <3>2. Promise!Damage
      BY <2>1, <2>2, <2>3, <3>1 DEF Promise!Damage
    <3>3. QED
      BY <3>2 DEF PromiseStep, Promise!Next
  <2>5. CASE ~mixed
    <3>1. Promise!IsList /\ OpenList.name = fileName
      BY <1>1, <2>5, OpenListSeen
    <3>2. Promise!Discard
      BY <1>2, <2>2, <2>3, <3>1 DEF Promise!Discard
    <3>3. QED
      BY <3>2 DEF PromiseStep, Promise!Next
  <2>6. QED
    BY <2>4, <2>5
<1>3. CASE ~(fileName # NoName /\ removed)
  BY <1>1, <1>3, Leaves DEF Delete
<1>4. QED
  BY <1>2, <1>3

LEMMA ChecklistStepPromised ==
  ASSUME TypeInv, ChecklistStep PROVE PromiseStep
<1>1. ASSUME NEW r \in Rows, TapTraps(r) PROVE PromiseStep
  BY <1>1, RelaunchPromised DEF TapTraps
<1>2. ASSUME NEW tab \in {SELECT_ALL, SELECT_CHECK, SELECT_UNCHECK},
             SelectTab(tab)
      PROVE  PromiseStep
  BY <1>2, Unseen DEF SelectTab, names, requests
<1>3. ASSUME NEW type \in {0, 1}, OpenDialog(type) PROVE PromiseStep
  BY <1>3, Unseen DEF OpenDialog, names, requests
<1>4. CASE DismissDialog
  BY <1>4, Unseen DEF DismissDialog, names, requests
<1>5. CASE SwipeBack
  BY <1>5, Leaves DEF SwipeBack, GoBack
<1>6. QED
  BY <1>1, <1>2, <1>3, <1>4, <1>5, TapPromised, EditCommentPromised,
     SavePromised, DeletePromised
     DEF ChecklistStep

(* Whatever the requests, their late answers, the failures and restarts,   *)
(* Model and its views do what DegreeChecklist promises and nothing else.  *)
THEOREM ChecklistKeepsPromise == Spec => KeepsPromise
<1>1. Init => Promise!Init
  BY DEF Init, Promise!Init, OpenList, FileLists
<1>2. TypeInv /\ ExactInv /\ [Next]_vars => [Promise!Next]_Promise!vars
  <2> SUFFICES ASSUME TypeInv, ExactInv, [Next]_vars PROVE PromiseStep
    BY DEF PromiseStep
  <2>1. CASE UNCHANGED vars
    BY <2>1, Unseen DEF vars, names, requests
  <2>2. QED
    BY <2>1, HomeStepPromised, DatabaseStepPromised, ChecklistStepPromised,
       RelaunchPromised
       DEF Next
<1>3. QED
  BY TypeInvInvariant, ExactInvInvariant, <1>1, <1>2, PTL
     DEF Spec, KeepsPromise, Promise!Spec
=============================================================================
