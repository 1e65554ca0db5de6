------------------------------ MODULE Checklist ------------------------------
(***************************************************************************)
(* One user of WatsPLAN going back and forth between the home screen       *)
(* (ContentView.swift) and a degree checklist (CheckListView.swift), with  *)
(* the shared Model (Model.swift) behind both and the save files on disk.  *)
(*                                                                         *)
(* A checklist is created from the database, whose answer arrives whenever *)
(* it likes, even after the user has gone back and opened another list, or *)
(* loaded from a save file, which is read at once.  The document of a      *)
(* program is named by its major and its option; a program stands for that *)
(* name, and majorName for "major | option".                               *)
(***************************************************************************)
EXTENDS Cards

CONSTANTS Faculties, Programs, Files,
          Reqs,        \* Reqs[p]: the requirements of program p, in order
          ListedAs,    \* ListedAs[f]: file f's name up to its first "."
          NoName,      \* the empty string, as a faculty, program or file
          Absent,      \* what the disk holds under a name never saved
          MaxPending,  \* bound: requests the database has not answered
          MaxSaved     \* bound: cards in a list that is saved

ASSUME ProgramsAssumption == Reqs \in [Programs -> Seq(Requirements)]

ASSUME FilesAssumption == ListedAs \in [Files -> Files]

ASSUME NamesAssumption ==
  /\ NoName \notin Faculties \cup Programs \cup Files
  /\ Absent \notin [facultyName : Faculties \cup {NoName},
                    majorName   : Programs \cup {NoName},
                    cards       : Seq(Card)]

ASSUME BoundsAssumption == MaxPending \in Nat /\ MaxSaved \in Nat

VARIABLES
  screen,       \* "root" or "checklist": the view on top of the navigation
  sourceType,   \* 0: the checklist is created; 1: loaded from a file
  facultyName, majorName, fileName, changed,   \* Model's fields
  storedCards, cards,                          \* Model's lists of cards
  fileContent,  \* Model's listing of the save files
  selected,     \* the tab of the checklist: ALL, CHECKED or UNCHECKED
  showDialog,
  dialogType,   \* 0: save; 1: delete
  waiting,      \* the program the open checklist has asked for, or NoName
  late,         \* late[p]: requests for p by checklists since left
  disk,         \* the save files
  mixed         \* history: an answer to an earlier checklist has reached
                \* the open one

names    == <<facultyName, majorName, fileName>>
view     == <<selected, showDialog, dialogType>>
requests == <<waiting, late>>
vars     == <<screen, sourceType, names, changed, storedCards, cards,
              fileContent, view, requests, disk, mixed>>

SaveFile == [facultyName : Faculties \cup {NoName},
             majorName   : Programs \cup {NoName},
             cards       : Seq(Card)]

(* The names fetchContent(type: 3) lists: each up to its first ".".        *)
Listing(d) == {ListedAs[f] : f \in {g \in Files : d[g] # Absent}}

NoRequests == [p \in Programs |-> 0]

(* Requests of checklists already left, the open one's included.           *)
LeftBehind ==
  [p \in Programs |-> late[p] + (IF p = waiting THEN 1 ELSE 0)]

(* Nothing of a checklist but what the Model holds outlives its view.      *)
ViewReset ==
  /\ selected' = SELECT_ALL
  /\ showDialog' = FALSE
  /\ dialogType' = 0

Init ==
  /\ screen = "root"
  /\ sourceType = 0
  /\ facultyName = NoName /\ majorName = NoName /\ fileName = NoName
  /\ changed = FALSE
  /\ storedCards = <<>>
  /\ cards = <<>>
  /\ fileContent = {}
  /\ selected = SELECT_ALL
  /\ showDialog = FALSE
  /\ dialogType = 0
  /\ waiting = NoName
  /\ late = NoRequests
  /\ disk = [f \in Files |-> Absent]
  /\ mixed = FALSE

(* The process ends and is started again: only the files remain.           *)
Relaunch ==
  /\ screen' = "root"
  /\ sourceType' = 0
  /\ facultyName' = NoName /\ majorName' = NoName /\ fileName' = NoName
  /\ changed' = FALSE
  /\ storedCards' = <<>>
  /\ cards' = <<>>
  /\ fileContent' = Listing(disk)
  /\ ViewReset
  /\ waiting' = NoName
  /\ late' = NoRequests
  /\ mixed' = FALSE
  /\ UNCHANGED disk

-----------------------------------------------------------------------------
(* The home screen.  The pickers set the names; a faculty comes first.     *)
ChooseProgram(f, p) ==
  /\ screen = "root"
  /\ facultyName' = f
  /\ majorName' = p
  /\ UNCHANGED <<screen, sourceType, fileName, changed, storedCards, cards,
                 fileContent, view, requests, disk, mixed>>

ChooseFile(f) ==
  /\ screen = "root"
  /\ f \in fileContent
  /\ fileName' = f
  /\ UNCHANGED <<screen, sourceType, facultyName, majorName, changed,
                 storedCards, cards, fileContent, view, requests, disk, mixed>>

(* Slip: only the list shown is cleared.                                   *)
ResetCard_KeepsStored == cards' = <<>> /\ UNCHANGED storedCards

(* resetCard(), the first thing getCollection() does.                      *)
ResetCard == storedCards' = <<>> /\ cards' = <<>>

(* CREATE pushes a checklist, whose onAppear asks the database.  A file    *)
(* chosen before stays chosen.                                             *)
Create ==
  /\ screen = "root"
  /\ facultyName # NoName
  /\ majorName # NoName
  /\ late[majorName] < MaxPending
  /\ screen' = "checklist"
  /\ sourceType' = 0
  /\ ResetCard
  /\ waiting' = majorName
  /\ UNCHANGED <<names, changed, fileContent, view, late, disk, mixed>>

(* Slip: the program of the file is not taken over.                        *)
LoadFound_KeepsProgram ==
  /\ screen = "root"
  /\ fileName # NoName
  /\ disk[fileName] # Absent
  /\ disk[fileName].facultyName # NoName
  /\ screen' = "checklist"
  /\ sourceType' = 1
  /\ facultyName' = disk[fileName].facultyName
  /\ storedCards' = ReadBack(disk[fileName].cards)
  /\ cards' = storedCards'
  /\ UNCHANGED <<majorName, fileName, changed, fileContent, view, requests,
                 disk, mixed>>

(* LOAD pushes a checklist, whose onAppear reads the file.                 *)
LoadFound ==
  /\ screen = "root"
  /\ fileName # NoName
  /\ disk[fileName] # Absent
  /\ disk[fileName].facultyName # NoName
  /\ screen' = "checklist"
  /\ sourceType' = 1
  /\ facultyName' = disk[fileName].facultyName
  /\ majorName' = disk[fileName].majorName
  /\ storedCards' = ReadBack(disk[fileName].cards)
  /\ cards' = storedCards'
  /\ UNCHANGED <<fileName, changed, fileContent, view, requests, disk, mixed>>

(* A name that is not on disk: the exception is printed, the list stays    *)
(* empty and the checklist is shown all the same.                          *)
LoadMissing ==
  /\ screen = "root"
  /\ fileName # NoName
  /\ disk[fileName] = Absent
  /\ screen' = "checklist"
  /\ sourceType' = 1
  /\ ResetCard
  /\ UNCHANGED <<names, changed, fileContent, view, requests, disk, mixed>>

(* The empty faculty of a file is a blank line, which split() drops: the   *)
(* lines that follow are one too early and an index is out of range.       *)
LoadTraps ==
  /\ screen = "root"
  /\ fileName # NoName
  /\ disk[fileName] # Absent
  /\ disk[fileName].facultyName = NoName
  /\ Relaunch

-----------------------------------------------------------------------------
(* Slip: the answer is stored, and not shown.                              *)
AddCards_NotShown(p) ==
  /\ storedCards' = storedCards \o FreshCards(Reqs[p])
  /\ UNCHANGED cards

(* The completion handler of getDocument(): it knows nothing of the view   *)
(* that asked, and adds all of storedCards to whatever list is there.      *)
AddCards(p) ==
  /\ storedCards' = storedCards \o FreshCards(Reqs[p])
  /\ cards' = cards \o storedCards'

Answer(found) ==
  /\ waiting # NoName
  /\ IF found THEN AddCards(waiting) ELSE UNCHANGED <<storedCards, cards>>
  /\ waiting' = NoName
  /\ UNCHANGED <<screen, sourceType, names, changed, fileContent, view,
                 late, disk, mixed>>

LateAnswer(p, found) ==
  /\ late[p] > 0
  /\ IF found THEN AddCards(p) ELSE UNCHANGED <<storedCards, cards>>
  /\ late' = [late EXCEPT ![p] = @ - 1]
  /\ mixed' = (mixed \/ (found /\ screen = "checklist"))
  /\ UNCHANGED <<screen, sourceType, names, changed, fileContent, view,
                 waiting, disk>>

-----------------------------------------------------------------------------
(* The checklist.  Its rows are disabled while a dialog is shown.          *)
Touchable == screen = "checklist" /\ ~showDialog

Row(r) == FirstIndex(cards, FilteredCards(cards, selected)[r].id)

Rows == 1 .. Len(FilteredCards(cards, selected))

(* Slips: every card of the id is ticked; the list is not marked changed.  *)
Tap_EveryCardOfId(r, box) ==
  /\ Touchable
  /\ box \in Boxes(cards[Row(r)].req)
  /\ ~DivisionTraps(cards[Row(r)])
  /\ cards' = [i \in 1 .. Len(cards) |->
                 IF cards[i].id = cards[Row(r)].id
                 THEN CheckboxSelected(cards[i], box) ELSE cards[i]]
  /\ changed' = TRUE
  /\ UNCHANGED <<screen, sourceType, names, storedCards, fileContent, view,
                 requests, disk, mixed>>

Tap_Unflagged(r, box) ==
  /\ Touchable
  /\ box \in Boxes(cards[Row(r)].req)
  /\ ~DivisionTraps(cards[Row(r)])
  /\ cards' = [cards EXCEPT ![Row(r)] = CheckboxSelected(@, box)]
  /\ UNCHANGED <<screen, sourceType, names, changed, storedCards, fileContent,
                 view, requests, disk, mixed>>

Tap(r, box) ==
  /\ Touchable
  /\ box \in Boxes(cards[Row(r)].req)
  /\ ~DivisionTraps(cards[Row(r)])
  /\ cards' = [cards EXCEPT ![Row(r)] = CheckboxSelected(@, box)]
  /\ changed' = TRUE
  /\ UNCHANGED <<screen, sourceType, names, storedCards, fileContent, view,
                 requests, disk, mixed>>

TapTraps(r) ==
  /\ Touchable
  /\ DivisionTraps(cards[Row(r)])
  /\ Relaunch

(* The comment field: a card that asks for one course has none.            *)
EditComment(r, c) ==
  /\ Touchable
  /\ cards[Row(r)].req.num # 1
  /\ cards' = [cards EXCEPT ![Row(r)].comment = c]
  /\ UNCHANGED <<screen, sourceType, names, changed, storedCards,
                 fileContent, view, requests, disk, mixed>>

SelectTab(tab) ==
  /\ Touchable
  /\ selected' = tab
  /\ UNCHANGED <<screen, sourceType, names, changed, storedCards, cards,
                 fileContent, showDialog, dialogType, requests, disk, mixed>>

(* The floating buttons: they are not disabled by a dialog already shown.  *)
OpenDialog(type) ==
  /\ screen = "checklist"
  /\ dialogType' = type
  /\ showDialog' = TRUE
  /\ UNCHANGED <<screen, sourceType, names, changed, storedCards, cards,
                 fileContent, selected, requests, disk, mixed>>

(* NO, and YES to a new save without a name.                               *)
DismissDialog ==
  /\ showDialog
  /\ showDialog' = FALSE
  /\ UNCHANGED <<screen, sourceType, names, changed, storedCards, cards,
                 fileContent, selected, dialogType, requests, disk, mixed>>

(* Slip: the list does not take the name it was saved under.               *)
SaveModel_Nameless(name, written) ==
  /\ disk' = IF written
             THEN [disk EXCEPT ![name] = [facultyName |-> facultyName,
                                          majorName   |-> majorName,
                                          cards       |-> cards]]
             ELSE disk
  /\ changed' = FALSE
  /\ UNCHANGED fileName

(* saveModel(name).  A write that fails is printed and otherwise taken for *)
(* one that went through.                                                  *)
SaveModel(name, written) ==
  /\ disk' = IF written
             THEN [disk EXCEPT ![name] = [facultyName |-> facultyName,
                                          majorName   |-> majorName,
                                          cards       |-> cards]]
             ELSE disk
  /\ changed' = FALSE
  /\ fileName' = name

(* Slip: the name typed counts for a list that has one, too.               *)
Save_TypedCounts(typed, written) ==
  /\ showDialog
  /\ dialogType = 0
  /\ Len(cards) <= MaxSaved
  /\ SaveModel(typed, written)
  /\ showDialog' = FALSE
  /\ UNCHANGED <<screen, sourceType, facultyName, majorName, storedCards,
                 cards, fileContent, selected, dialogType, requests, mixed>>

(* YES in the save dialog: the name typed counts only for a new save.      *)
Save(typed, written) ==
  /\ showDialog
  /\ dialogType = 0
  /\ Len(cards) <= MaxSaved
  /\ SaveModel(IF fileName = NoName THEN typed ELSE fileName, written)
  /\ showDialog' = FALSE
  /\ UNCHANGED <<screen, sourceType, facultyName, majorName, storedCards,
                 cards, fileContent, selected, dialogType, requests, mixed>>

(* Slip: the files are listed before the deletion that led here.           *)
GoBack_ListsTooSoon ==
  /\ screen' = "root"
  /\ sourceType' = 0
  /\ facultyName' = NoName /\ majorName' = NoName /\ fileName' = NoName
  /\ fileContent' = Listing(disk)
  /\ ViewReset
  /\ waiting' = NoName
  /\ late' = LeftBehind
  /\ mixed' = FALSE
  /\ UNCHANGED <<changed, storedCards, cards>>

(* Back on the home screen: resetName(), and the home screen's onAppear,   *)
(* which clears the program and lists the files again.                     *)
GoBack ==
  /\ screen' = "root"
  /\ sourceType' = 0
  /\ facultyName' = NoName /\ majorName' = NoName /\ fileName' = NoName
  /\ fileContent' = Listing(disk')
  /\ ViewReset
  /\ waiting' = NoName
  /\ late' = LeftBehind
  /\ mixed' = FALSE
  /\ UNCHANGED <<changed, storedCards, cards>>

(* YES in the delete dialog: the file goes, if there is one, and the view  *)
(* with it.                                                                *)
Delete(removed) ==
  /\ showDialog
  /\ dialogType = 1
  /\ disk' = IF fileName # NoName /\ removed
             THEN [disk EXCEPT ![fileName] = Absent]
             ELSE disk
  /\ GoBack

SwipeBack ==
  /\ screen = "checklist"
  /\ UNCHANGED disk
  /\ GoBack

-----------------------------------------------------------------------------
HomeStep ==
  \/ \E f \in Faculties, p \in Programs \cup {NoName} : ChooseProgram(f, p)
  \/ \E f \in Files : ChooseFile(f)
  \/ Create
  \/ LoadFound
  \/ LoadMissing
  \/ LoadTraps

DatabaseStep ==
  \/ \E found \in BOOLEAN : Answer(found)
  \/ \E p \in Programs, found \in BOOLEAN : LateAnswer(p, found)

ChecklistStep ==
  \/ \E r \in Rows : \/ \E box \in Boxes(cards[Row(r)].req) : Tap(r, box)
                     \/ TapTraps(r)
                     \/ \E c \in Comments : EditComment(r, c)
  \/ \E tab \in {SELECT_ALL, SELECT_CHECK, SELECT_UNCHECK} : SelectTab(tab)
  \/ \E type \in {0, 1} : OpenDialog(type)
  \/ DismissDialog
  \/ \E name \in Files, written \in BOOLEAN : Save(name, written)
  \/ \E removed \in BOOLEAN : Delete(removed)
  \/ SwipeBack

Next == HomeStep \/ DatabaseStep \/ ChecklistStep \/ Relaunch

Spec == Init /\ [][Next]_vars

(* With the server at hand and the program in the database, the request of *)
(* the open checklist is answered with a document.                         *)
OnlineNext ==
  \/ HomeStep
  \/ Answer(TRUE)
  \/ \E p \in Programs, found \in BOOLEAN : LateAnswer(p, found)
  \/ ChecklistStep
  \/ Relaunch

OnlineSpec == Init /\ [][OnlineNext]_vars /\ WF_vars(Answer(TRUE))

-----------------------------------------------------------------------------
(* Every field has a value of its kind; names, lists and requests agree    *)
(* with the screen they belong to.                                         *)
TypeOK ==
  /\ screen \in {"root", "checklist"}
  /\ sourceType \in {0, 1}
  /\ facultyName \in Faculties \cup {NoName}
  /\ majorName \in Programs \cup {NoName}
  /\ fileName \in Files \cup {NoName}
  /\ changed \in BOOLEAN
  /\ storedCards \in Seq(Card)
  /\ cards \in Seq(Card)
  /\ fileContent \subseteq Files
  /\ selected \in {SELECT_ALL, SELECT_CHECK, SELECT_UNCHECK}
  /\ showDialog \in BOOLEAN
  /\ dialogType \in {0, 1}
  /\ waiting \in Programs \cup {NoName}
  /\ late \in [Programs -> 0 .. MaxPending]
  /\ disk \in [Files -> SaveFile \cup {Absent}]
  /\ mixed \in BOOLEAN

SavedCards(f) == IF disk[f] = Absent THEN <<>> ELSE disk[f].cards

(* Whatever the order of ticks, late answers, saves, loads and restarts, a *)
(* card shown or saved has no box ticked twice, none it does not offer,    *)
(* never more than num of them, and a progress that is exactly their       *)
(* share: checkboxSelected() and getCollection().                          *)
ChecksLegal ==
  /\ \A i \in 1 .. Len(cards) : LegalCard(cards[i])
  /\ \A f \in Files :
       \A i \in 1 .. Len(SavedCards(f)) : LegalCard(SavedCards(f)[i])

(* The CHECKED tab shows a card exactly when all its num boxes are ticked: *)
(* filteredCards compares a stored percentage, truncated by a division,    *)
(* with 100.                                                               *)
TabsAreExact ==
  \A i \in 1 .. Len(cards) :
    cards[i].req.num > 0 =>
      (cards[i].progress = 100 <=> Len(cards[i].checkedBoxes) = cards[i].req.num)

(* A checklist no late answer has reached shows the requirements of its    *)
(* program, once and in order, or is still empty: what an earlier list     *)
(* left in cards or storedCards is never in it.                            *)
CreatedListExact ==
  screen = "checklist" /\ sourceType = 0 /\ ~mixed =>
    Requirement(cards) \in {<<>>, Reqs[majorName]}

(* In such a list every row is the row of its own card: the row found by   *)
(* id (ListItemView's argument) is where the card stands, so a tap ticks   *)
(* the card it is on.                                                      *)
RowsShowTheirCard ==
  screen = "checklist" /\ ~mixed =>
    \A i \in 1 .. Len(cards) : FirstIndex(cards, cards[i].id) = i

(* A created checklist with ticks and no save file yet is flagged as       *)
(* changed, whatever was saved, left or opened before it.                  *)
UnsavedTicksFlagged ==
  screen = "checklist" /\ sourceType = 0 /\ fileName = NoName /\ Ticked(cards)
    => changed

(* While a checklist is open an answer may add cards at its end, and       *)
(* changes none it shows; no step ticks the boxes of two cards.            *)
CardsSurvive ==
  [][screen = "checklist" /\ screen' = "checklist" =>
       \/ IsPrefix(cards, cards')
       \/ /\ Len(cards') = Len(cards)
          /\ Requirement(cards') = Requirement(cards)
          /\ Cardinality({i \in 1 .. Len(cards) : cards[i] # cards'[i]}) = 1]_vars

(* A tap on a full card releases the box ticked longest ago and no other;  *)
(* any other tap adds or releases the one box that was tapped.             *)
OldestGivesWay ==
  [][screen = "checklist" /\ screen' = "checklist" =>
       \A i \in 1 .. Len(cards) :
         LET was == cards[i].checkedBoxes
             is  == cards'[i].checkedBoxes
         IN  \/ is = was
             \/ Len(is) = Len(was) + 1 /\ IsPrefix(was, is)
             \/ Len(is) + 1 = Len(was) /\ ToSet(is) \subseteq ToSet(was)
             \/ /\ Len(was) = cards[i].req.num
                /\ Len(is) = Len(was)
                /\ IsPrefix(Tail(was), is)
                /\ is[Len(is)] \notin ToSet(was)]_vars

(* A save file is written or removed only by a YES in the dialog of an     *)
(* open checklist.  It is removed only under the name the checklist bears, *)
(* and then the list is left; it is written only under that name, or under *)
(* a name typed for a list that bore none; other files stay as they are.   *)
FileStep ==
  \A f \in Files : disk'[f] # disk[f] =>
    /\ screen = "checklist" /\ showDialog
    /\ IF disk'[f] = Absent
       THEN fileName = f /\ screen' = "root"
       ELSE /\ fileName \in {f, NoName}
            /\ fileName' = f
            /\ disk'[f].cards = cards
            /\ disk'[f].majorName = majorName
    /\ \A g \in Files \ {f} : disk'[g] = disk[g]

FilesChangeByDialog == [][FileStep]_vars

(* What the user picks a file from, and what LOAD then reads, is never     *)
(* older than the disk: on the home screen the listing is the files there. *)
ListingIsFresh == screen = "root" => fileContent = Listing(disk)

(* README.md:11: select your program, "then jump to your customized degree *)
(* checklist": the list of a program holds that program's requirements and *)
(* nothing else.                                                           *)
OnlySelectedProgram ==
  screen = "checklist" /\ sourceType = 0 =>
    Requirement(cards) \in {<<>>, Reqs[majorName]}

(* README.md:11: "load existing local data, then jump to your customized   *)
(* degree checklist": LOAD on a file that is listed shows the cards saved  *)
(* under that name.                                                        *)
ListedFilesLoad ==
  [][screen = "root" /\ fileName # NoName /\ screen' = "checklist" /\ sourceType' = 1
       => \E f \in Files : /\ disk[f] # Absent
                           /\ ListedAs[f] = fileName
                           /\ Requirement(cards') = Requirement(disk[f].cards)]_vars

(* README.md:11, with the database at hand: a checklist that is created    *)
(* shows the requirements of its program sooner or later, one after the    *)
(* other and whatever late answers add around them, unless it is left.     *)
Shows(p) ==
  \E i \in 0 .. Len(cards) :
    IsPrefix(Reqs[p], SubSeq(Requirement(cards), i + 1, Len(cards)))

ListArrives ==
  \A p \in Programs :
    (screen = "checklist" /\ sourceType = 0 /\ majorName = p)
      ~> (screen = "root" \/ Shows(p))
=============================================================================
