-------------------------------- MODULE Picker --------------------------------
(***************************************************************************)
(* Choosing a faculty, a program, an option and a save file on the home    *)
(* screen (ContentView.swift), with the listings that Model.fetchContent() *)
(* keeps up to date.  Every call of fetchContent() for a listing of the    *)
(* database adds a snapshot listener that nothing removes: it fires when   *)
(* its answer comes and again whenever the collection changes, whatever    *)
(* has been chosen since.                                                  *)
(*                                                                         *)
(* The checklists and the pages behind the menu are seen from the home     *)
(* screen only: they are opened, and the user comes back.                  *)
(***************************************************************************)
EXTENDS Integers, FiniteSets

CONSTANTS Faculties,
          Majors,    \* Majors[f]: the programs of faculty f
          Options,   \* Options[m]: the options of program m
          Saves,     \* names of save files
          NoOption,  \* the entry "!Just click CREATE button if no option"
          NoName     \* the empty string

AllMajors  == UNION {Majors[f] : f \in Faculties}
AllOptions == UNION {Options[m] : m \in AllMajors}

ASSUME ListingsAssumption ==
  /\ DOMAIN Majors = Faculties
  /\ DOMAIN Options = AllMajors
  /\ NoName \notin Faculties \cup AllMajors \cup AllOptions \cup Saves

VARIABLES
  screen,       \* "home", "checklist", or a "page" opened from the menu
  showMenu, showPicker, pickerType,          \* ContentView's state
  facultyName, majorName, optionName, fileName,  \* Model's fields
  oldF, oldM,   \* what was chosen when the picker last appeared
  fContent, mContent, oContent, fileContent, \* Model's listings
  listeners,    \* <<type, collection>>: listeners added since launch
  trapped       \* an exception of the database has ended the program

names    == <<facultyName, majorName, optionName, fileName>>
olds     == <<oldF, oldM>>
listings == <<fContent, mContent, oContent, fileContent>>
panels   == <<showMenu, showPicker, pickerType>>
vars     == <<screen, panels, names, olds, listings, listeners, trapped>>

Init ==
  /\ screen = "home"
  /\ showMenu = FALSE /\ showPicker = FALSE /\ pickerType = 0
  /\ facultyName = NoName /\ majorName = NoName
  /\ optionName = NoName /\ fileName = NoName
  /\ oldF = NoName /\ oldM = NoName
  /\ fContent = {} /\ mContent = {} /\ oContent = {}
  /\ fileContent \in SUBSET Saves
  /\ listeners = {<<0, NoName>>}
  /\ trapped = FALSE

OnHome == screen = "home" /\ ~trapped

(* The main view is disabled under the menu and under the picker.          *)
MainEnabled == OnHome /\ ~showMenu /\ ~showPicker

Visible(shown, type, f, m) ==
  /\ shown
  /\ \/ type \in {0, 3}
     \/ type = 1 /\ f # NoName
     \/ type = 2 /\ f # NoName /\ m # NoName

PickerVisible == Visible(showPicker, pickerType, facultyName, majorName)

Listing(type) == CASE type = 0 -> fContent
                   [] type = 1 -> mContent
                   [] type = 2 -> oContent
                   [] type = 3 -> fileContent

(* Slip: the bindings of program and option are swapped.                   *)
Choose_Swapped(type, name) ==
  /\ facultyName' = IF type = 0 THEN name ELSE facultyName
  /\ majorName'   = IF type = 2 THEN name ELSE majorName
  /\ optionName'  = IF type = 1 THEN name ELSE optionName
  /\ fileName'    = IF type = 3 THEN name ELSE fileName

(* The wheel writes through a binding to the name its type is about.       *)
Choose(type, name) ==
  /\ facultyName' = IF type = 0 THEN name ELSE facultyName
  /\ majorName'   = IF type = 1 THEN name ELSE majorName
  /\ optionName'  = IF type = 2 THEN name ELSE optionName
  /\ fileName'    = IF type = 3 THEN name ELSE fileName

(* The picker's onAppear: it remembers what is chosen, and takes a name    *)
(* that has no alternative, a faculty's excepted.                          *)
PickerAppears(type) ==
  /\ oldF' = facultyName
  /\ oldM' = majorName
  /\ IF type # 0 /\ Cardinality(Listing(type)) = 1
     THEN \E name \in Listing(type) : Choose(type, name)
     ELSE UNCHANGED names

-----------------------------------------------------------------------------
(* Slip: a program or an option is asked for at any time.                  *)
PressButton_AnyTime(type) ==
  /\ MainEnabled
  /\ pickerType' = type
  /\ showPicker' = TRUE
  /\ IF Visible(TRUE, type, facultyName, majorName)
     THEN PickerAppears(type)
     ELSE UNCHANGED <<olds, names>>
  /\ UNCHANGED <<screen, showMenu, listings, listeners, trapped>>

(* A button of the main view brings up its picker; a program asks for a    *)
(* faculty first, an option for a program.                                 *)
PressButton(type) ==
  /\ MainEnabled
  /\ type = 1 => facultyName # NoName
  /\ type = 2 => majorName # NoName
  /\ pickerType' = type
  /\ showPicker' = TRUE
  /\ IF Visible(TRUE, type, facultyName, majorName)
     THEN PickerAppears(type)
     ELSE UNCHANGED <<olds, names>>
  /\ UNCHANGED <<screen, showMenu, listings, listeners, trapped>>

Scroll(name) ==
  /\ OnHome /\ PickerVisible
  /\ name \in Listing(pickerType)
  /\ Choose(pickerType, name)
  /\ UNCHANGED <<screen, panels, olds, listings, listeners, trapped>>

(* refresh(): listings are asked for what has changed since the picker     *)
(* appeared.  A new faculty clears the option; the database rejects the    *)
(* path of a collection without a name.                                    *)
Refresh ==
  LET newF == facultyName # oldF /\ facultyName # NoName
      newM == majorName # oldM /\ facultyName # NoName
      bad  == newM /\ majorName = NoName
  IN  /\ listeners' = listeners
           \cup (IF newF THEN {<<1, facultyName>>} ELSE {})
           \cup (IF newM /\ ~bad THEN {<<2, majorName>>} ELSE {})
      /\ optionName' = IF newF THEN NoName ELSE optionName
      /\ trapped' = bad
      /\ UNCHANGED <<facultyName, majorName, fileName>>

Confirm ==
  /\ OnHome /\ PickerVisible
  /\ Refresh
  /\ showPicker' = FALSE
  /\ UNCHANGED <<screen, showMenu, pickerType, olds, listings>>

(* A drag down does the same, wherever it starts, with or without picker.  *)
DragDown ==
  /\ OnHome
  /\ Refresh
  /\ showPicker' = FALSE
  /\ UNCHANGED <<screen, showMenu, pickerType, olds, listings>>

DragSideways(right) ==
  /\ OnHome
  /\ showMenu' = right
  /\ UNCHANGED <<screen, showPicker, pickerType, names, olds, listings,
                 listeners, trapped>>

-----------------------------------------------------------------------------
(* fetchContent(type: 0) and (type: 3), in the home screen's onAppear.     *)
FetchFacultiesAndFiles ==
  /\ listeners' = listeners \cup {<<0, NoName>>}
  /\ fileContent' \in SUBSET Saves

OpenPage ==
  /\ OnHome /\ showMenu
  /\ screen' = "page"
  /\ UNCHANGED <<panels, names, olds, listings, listeners, trapped>>

(* Slip: the home screen's onAppear does not clear the option.             *)
ReturnFromPage_KeepsOption(closed, again) ==
  /\ screen = "page" /\ ~trapped
  /\ screen' = "home"
  /\ showMenu' = (showMenu /\ ~closed)
  /\ FetchFacultiesAndFiles
  /\ again => Visible(showPicker, pickerType, facultyName, NoName)
  /\ oldF' = IF again THEN facultyName ELSE oldF
  /\ oldM' \in IF again THEN {majorName, NoName} ELSE {oldM}
  /\ \E only \in IF again /\ Cardinality(Listing(pickerType)) = 1
                 THEN Listing(pickerType) ELSE {NoName} :
       /\ majorName' = IF pickerType = 1 THEN only ELSE NoName
       /\ fileName' = IF pickerType = 3 /\ only # NoName THEN only ELSE fileName
  /\ UNCHANGED <<facultyName, optionName, showPicker, pickerType, fContent,
                 mContent, oContent, trapped>>

(* Back from a page, which may close the menu.  The program is cleared,    *)
(* the faculty is not.  A picker left open may appear anew, before or      *)
(* after the home screen does.                                             *)
ReturnFromPage(closed, again) ==
  /\ screen = "page" /\ ~trapped
  /\ screen' = "home"
  /\ showMenu' = (showMenu /\ ~closed)
  /\ FetchFacultiesAndFiles
  /\ optionName' = NoName
  /\ again => Visible(showPicker, pickerType, facultyName, NoName)
  /\ oldF' = IF again THEN facultyName ELSE oldF
  /\ oldM' \in IF again THEN {majorName, NoName} ELSE {oldM}
  /\ \E only \in IF again /\ Cardinality(Listing(pickerType)) = 1
                 THEN Listing(pickerType) ELSE {NoName} :
       /\ majorName' = IF pickerType = 1 THEN only ELSE NoName
       /\ fileName' = IF pickerType = 3 /\ only # NoName THEN only ELSE fileName
  /\ UNCHANGED <<facultyName, showPicker, pickerType, fContent, mContent,
                 oContent, trapped>>

(* CREATE: the entry that stands for no option is taken as none, and the   *)
(* document of the program and its option is asked for.                    *)
OpenCreated ==
  /\ MainEnabled
  /\ facultyName # NoName /\ majorName # NoName
  /\ screen' = "checklist"
  /\ optionName' = IF optionName = NoOption THEN NoName ELSE optionName
  /\ UNCHANGED <<panels, facultyName, majorName, fileName, olds, listings,
                 listeners, trapped>>

(* LOAD: the names become those in the file, or stay if it cannot be read; *)
(* nothing reads them before they are cleared on the way back.             *)
OpenLoaded ==
  /\ MainEnabled
  /\ fileName # NoName
  /\ screen' = "checklist"
  /\ UNCHANGED <<panels, names, olds, listings, listeners, trapped>>

(* Back from a checklist: resetName(), then the home screen's onAppear.    *)
ReturnFromChecklist ==
  /\ screen = "checklist" /\ ~trapped
  /\ screen' = "home"
  /\ facultyName' = NoName /\ majorName' = NoName
  /\ optionName' = NoName /\ fileName' = NoName
  /\ mContent' = {} /\ oContent' = {}
  /\ FetchFacultiesAndFiles
  /\ UNCHANGED <<panels, olds, fContent, trapped>>

(* Slip: the option is cleared when the programs come, not when they are   *)
(* asked for.                                                              *)
Snapshot_ClearsOption(l) ==
  /\ ~trapped
  /\ l \in listeners
  /\ fContent' = IF l[1] = 0 THEN Faculties ELSE fContent
  /\ mContent' = IF l[1] = 1 THEN Majors[l[2]] ELSE mContent
  /\ oContent' = IF l[1] = 2 THEN Options[l[2]] ELSE oContent
  /\ optionName' = IF l[1] = 1 THEN NoName ELSE optionName
  /\ UNCHANGED <<screen, panels, facultyName, majorName, fileName, olds,
                 fileContent, listeners, trapped>>

(* A listener fires: its listing replaces the one shown, whoever asked.    *)
Snapshot(l) ==
  /\ ~trapped
  /\ l \in listeners
  /\ fContent' = IF l[1] = 0 THEN Faculties ELSE fContent
  /\ mContent' = IF l[1] = 1 THEN Majors[l[2]] ELSE mContent
  /\ oContent' = IF l[1] = 2 THEN Options[l[2]] ELSE oContent
  /\ UNCHANGED <<screen, panels, names, olds, fileContent, listeners, trapped>>

Relaunch ==
  /\ screen' = "home"
  /\ showMenu' = FALSE /\ showPicker' = FALSE /\ pickerType' = 0
  /\ facultyName' = NoName /\ majorName' = NoName
  /\ optionName' = NoName /\ fileName' = NoName
  /\ oldF' = NoName /\ oldM' = NoName
  /\ fContent' = {} /\ mContent' = {} /\ oContent' = {}
  /\ fileContent' \in SUBSET Saves
  /\ listeners' = {<<0, NoName>>}
  /\ trapped' = FALSE

HomeStep ==
  \/ \E type \in 0 .. 3 : PressButton(type)
  \/ \E name \in Listing(pickerType) : Scroll(name)
  \/ Confirm
  \/ DragDown
  \/ \E right \in BOOLEAN : DragSideways(right)

AwayStep ==
  \/ OpenPage
  \/ \E closed, again \in BOOLEAN : ReturnFromPage(closed, again)
  \/ OpenCreated
  \/ OpenLoaded
  \/ ReturnFromChecklist

Next == \/ HomeStep
        \/ AwayStep
        \/ \E l \in listeners : Snapshot(l)
        \/ Relaunch

Spec == Init /\ [][Next]_vars

-----------------------------------------------------------------------------
(* Every name, old choice and listing is of its kind: a binding of the     *)
(* picker or a listener that outlives the choice it was added for never    *)
(* puts an option where a program belongs, or a program among the          *)
(* faculties.                                                              *)
TypeOK ==
  /\ screen \in {"home", "checklist", "page"}
  /\ showMenu \in BOOLEAN /\ showPicker \in BOOLEAN /\ pickerType \in 0 .. 3
  /\ facultyName \in Faculties \cup {NoName}
  /\ majorName \in AllMajors \cup {NoName}
  /\ optionName \in AllOptions \cup {NoName}
  /\ fileName \in Saves \cup {NoName}
  /\ oldF \in Faculties \cup {NoName} /\ oldM \in AllMajors \cup {NoName}
  /\ fContent \subseteq Faculties /\ mContent \subseteq AllMajors
  /\ oContent \subseteq AllOptions /\ fileContent \subseteq Saves
  /\ listeners \subseteq {<<0, NoName>>} \cup ({1} \X Faculties)
                          \cup ({2} \X AllMajors)
  /\ trapped \in BOOLEAN

(* Names are chosen from the top down, whatever is opened, left or dragged *)
(* in between: an option without a program, or a program without a         *)
(* faculty, would let CREATE save a list under no faculty.                 *)
NamesTopDown ==
  /\ optionName # NoName => majorName # NoName
  /\ majorName # NoName => facultyName # NoName

(* Once the picker is away a chosen option is safe: refresh(), which any   *)
(* drag down calls again, finds no new faculty and does not clear it.      *)
OptionSurvivesDrags ==
  [][screen = "home" /\ ~showPicker /\ optionName # NoName /\ optionName' = NoName
       => screen' = "checklist" \/ facultyName' = NoName]_vars

(* The main view is disabled while showPicker holds.  Only an option's     *)
(* picker can lose its place on the screen while it does, and only when a  *)
(* page opened over it has cleared the program.                            *)
OnlyOptionPickerVanishes ==
  screen = "home" /\ showPicker /\ ~PickerVisible =>
    pickerType = 2 /\ majorName = NoName

(* FIRFirestore.mm:187: "Paths must not contain // in them": no listing is *)
(* asked of the database under an empty name.                              *)
PathsAreValid == ~trapped

(* README.md:11: "Select your program and option ... then jump to your     *)
(* customized degree checklist": the option CREATE asks for is one of the  *)
(* program it asks for.                                                    *)
OptionOfProgram ==
  [][screen = "home" /\ screen' = "checklist" /\ OpenCreated =>
       optionName' \in Options[majorName'] \cup {NoName}]_vars
=============================================================================
