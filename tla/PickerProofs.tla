----------------------------- MODULE PickerProofs -----------------------------
(***************************************************************************)
(* Theorems about Picker, for any faculties, programs, options and files:  *)
(* what may be chosen, in which order, and what a drag leaves alone.       *)
(***************************************************************************)
EXTENDS Picker, TLAPS

(* With the order of the names, what the pickers rest on: a picker that    *)
(* asks for a program or an option has a faculty under it; none is left    *)
(* open behind a checklist, which clears the faculty; and once no picker   *)
(* is shown, an option belongs to the faculty the last picker remembered.  *)
PickerHasFaculty ==
  showPicker /\ pickerType \in {1, 2} => facultyName # NoName

NoPickerBehindChecklist == screen = "checklist" => ~showPicker

OptionRemembersFaculty ==
  ~showPicker /\ optionName # NoName => facultyName = oldF

PickerInv ==
  /\ TypeOK
  /\ NamesTopDown
  /\ PickerHasFaculty
  /\ NoPickerBehindChecklist
  /\ OptionRemembersFaculty

-----------------------------------------------------------------------------
LEMMA NoNameIsNone ==
  /\ NoName \notin Faculties /\ NoName \notin AllMajors
  /\ NoName \notin AllOptions /\ NoName \notin Saves
BY ListingsAssumption

(* A listing holds names of its kind only, none of them empty.             *)
LEMMA ListingTyped ==
  ASSUME TypeOK, NEW type \in 0 .. 3, NEW name \in Listing(type)
  PROVE  /\ name # NoName
         /\ type = 0 => name \in Faculties
         /\ type = 1 => name \in AllMajors
         /\ type = 2 => name \in AllOptions
         /\ type = 3 => name \in Saves
<1>1. /\ type = 0 => name \in Faculties
      /\ type = 1 => name \in AllMajors
      /\ type = 2 => name \in AllOptions
      /\ type = 3 => name \in Saves
  BY DEF TypeOK, Listing
<1>2. QED
  BY <1>1, NoNameIsNone

(* A name of the listing the picker shows goes where it belongs.           *)
LEMMA ChooseTyped ==
  ASSUME TypeOK, NEW type \in 0 .. 3, NEW name \in Listing(type),
         Choose(type, name)
  PROVE  /\ facultyName' \in Faculties \cup {NoName}
         /\ majorName' \in AllMajors \cup {NoName}
         /\ optionName' \in AllOptions \cup {NoName}
         /\ fileName' \in Saves \cup {NoName}
BY ListingTyped DEF TypeOK, Choose

LEMMA ChooseInOrder ==
  ASSUME TypeOK, NamesTopDown, NEW type \in 0 .. 3, NEW name \in Listing(type),
         Choose(type, name), Visible(TRUE, type, facultyName, majorName)
  PROVE  NamesTopDown' /\ (facultyName # NoName => facultyName' # NoName)
BY ListingTyped DEF NamesTopDown, Choose, Visible

-----------------------------------------------------------------------------
LEMMA InitInv == Init => PickerInv
<1> SUFFICES ASSUME Init PROVE PickerInv
  OBVIOUS
<1>1. /\ pickerType \in 0 .. 3
      /\ fContent \subseteq Faculties /\ mContent \subseteq AllMajors
      /\ oContent \subseteq AllOptions /\ fileContent \subseteq Saves
  BY DEF Init
<1>2. listeners \subseteq {<<0, NoName>>} \cup ({1} \X Faculties)
                             \cup ({2} \X AllMajors)
  BY DEF Init
<1>3. TypeOK
  BY <1>1, <1>2, Zenon DEF Init, TypeOK
<1>4. QED
  BY <1>3 DEF Init, PickerInv, NamesTopDown, PickerHasFaculty,
              NoPickerBehindChecklist, OptionRemembersFaculty

LEMMA RelaunchInv == Relaunch => PickerInv'
<1> SUFFICES ASSUME Relaunch PROVE PickerInv'
  OBVIOUS
<1>1. /\ pickerType' \in 0 .. 3
      /\ fContent' \subseteq Faculties /\ mContent' \subseteq AllMajors
      /\ oContent' \subseteq AllOptions /\ fileContent' \subseteq Saves
  BY DEF Relaunch
<1>2. listeners' \subseteq {<<0, NoName>>} \cup ({1} \X Faculties)
                             \cup ({2} \X AllMajors)
  BY DEF Relaunch
<1>3. TypeOK'
  BY <1>1, <1>2, Zenon DEF Relaunch, TypeOK
<1>4. QED
  BY <1>3 DEF Relaunch, PickerInv, NamesTopDown, PickerHasFaculty,
              NoPickerBehindChecklist, OptionRemembersFaculty

LEMMA PressButtonInv ==
  ASSUME PickerInv, NEW type \in 0 .. 3, PressButton(type)
  PROVE  PickerInv'
<1> USE DEF PickerInv
<1>1. /\ showPicker' /\ pickerType' = type /\ screen' = screen
      /\ screen = "home" /\ UNCHANGED <<showMenu, listings, listeners, trapped>>
  BY DEF PressButton, MainEnabled, OnHome
<1>2. /\ facultyName' \in Faculties \cup {NoName}
      /\ majorName' \in AllMajors \cup {NoName}
      /\ optionName' \in AllOptions \cup {NoName}
      /\ fileName' \in Saves \cup {NoName}
      /\ oldF' \in Faculties \cup {NoName} /\ oldM' \in AllMajors \cup {NoName}
      /\ NamesTopDown'
      /\ facultyName # NoName => facultyName' # NoName
  <2>1. CASE UNCHANGED names /\ olds' \in {olds, <<facultyName, majorName>>}
    BY <2>1 DEF TypeOK, names, olds, NamesTopDown
  <2>2. CASE /\ Visible(TRUE, type, facultyName, majorName)
             /\ olds' = <<facultyName, majorName>>
             /\ \E name \in Listing(type) : Choose(type, name)
    BY <2>2, ChooseTyped, ChooseInOrder DEF TypeOK, olds
  <2>3. QED
    BY <2>1, <2>2 DEF PressButton, PickerAppears, olds
<1>3. TypeOK'
  BY <1>1, <1>2 DEF TypeOK, listings
<1>4. type \in {1, 2} => facultyName # NoName
  BY DEF PressButton, NamesTopDown
<1>5. QED
  BY <1>1, <1>2, <1>3, <1>4
     DEF PickerHasFaculty, NoPickerBehindChecklist, OptionRemembersFaculty

LEMMA ScrollInv ==
  ASSUME PickerInv, NEW name \in Listing(pickerType), Scroll(name)
  PROVE  PickerInv'
<1> USE DEF PickerInv
<1>1. /\ Choose(pickerType, name) /\ showPicker
      /\ Visible(TRUE, pickerType, facultyName, majorName)
      /\ UNCHANGED <<screen, panels, olds, listings, listeners, trapped>>
  BY DEF Scroll, PickerVisible, Visible, TypeOK
<1>2. pickerType \in 0 .. 3
  BY DEF TypeOK
<1>3. TypeOK'
  BY <1>1, <1>2, ChooseTyped DEF TypeOK, panels, olds, listings
<1>4. NamesTopDown' /\ (facultyName # NoName => facultyName' # NoName)
  BY <1>1, <1>2, ChooseInOrder
<1>5. QED
  BY <1>1, <1>3, <1>4
     DEF panels, olds, PickerHasFaculty, NoPickerBehindChecklist,
         OptionRemembersFaculty

(* refresh() clears the option of a faculty that is not the one            *)
(* remembered: what is left then is not cleared by the next one.           *)
LEMMA RefreshInv ==
  ASSUME PickerInv, Refresh, showPicker' = FALSE, screen = "home",
         UNCHANGED <<screen, showMenu, pickerType, olds, listings>>
  PROVE  PickerInv'
<1> USE DEF PickerInv
<1>1. /\ UNCHANGED <<facultyName, majorName, fileName, oldF, oldM>>
      /\ optionName' \in {optionName, NoName}
      /\ facultyName # oldF /\ facultyName # NoName => optionName' = NoName
  BY DEF Refresh, olds
<1>2. listeners' \subseteq listeners \cup ({1} \X Faculties) \cup ({2} \X AllMajors)
      /\ trapped' \in BOOLEAN
  BY DEF Refresh, TypeOK
<1>3. TypeOK'
  BY <1>1, <1>2 DEF TypeOK, listings
<1>4. QED
  BY <1>1, <1>3 DEF NamesTopDown, PickerHasFaculty, NoPickerBehindChecklist,
                    OptionRemembersFaculty

LEMMA HomeStepInv ==
  ASSUME PickerInv, HomeStep PROVE PickerInv'
<1>1. CASE Confirm \/ DragDown
  BY <1>1, RefreshInv DEF Confirm, DragDown, OnHome
<1>2. ASSUME NEW right \in BOOLEAN, DragSideways(right) PROVE PickerInv'
  BY <1>2 DEF DragSideways, PickerInv, TypeOK, names, olds, listings,
              NamesTopDown, PickerHasFaculty, NoPickerBehindChecklist,
              OptionRemembersFaculty
<1>3. QED
  BY <1>1, <1>2, PressButtonInv, ScrollInv DEF HomeStep

-----------------------------------------------------------------------------
(* The home screen's onAppear clears the program: what a picker that       *)
(* appears anew may take in its stead is a program under a faculty.        *)
LEMMA ReturnFromPageInv ==
  ASSUME PickerInv, NEW closed \in BOOLEAN, NEW again \in BOOLEAN,
         ReturnFromPage(closed, again)
  PROVE  PickerInv'
<1> USE DEF PickerInv
<1>1. /\ UNCHANGED <<facultyName, showPicker, pickerType, fContent, mContent,
                     oContent, trapped>>
      /\ screen' = "home" /\ showMenu' \in BOOLEAN /\ optionName' = NoName
      /\ listeners' = listeners \cup {<<0, NoName>>}
      /\ fileContent' \subseteq Saves
  BY DEF ReturnFromPage, FetchFacultiesAndFiles
<1>2. oldF' \in {oldF, facultyName} /\ oldM' \in {oldM, majorName, NoName}
  BY DEF ReturnFromPage
<1>3. PICK only \in IF again /\ Cardinality(Listing(pickerType)) = 1
                    THEN Listing(pickerType) ELSE {NoName} :
        /\ majorName' = IF pickerType = 1 THEN only ELSE NoName
        /\ fileName' = IF pickerType = 3 /\ only # NoName THEN only ELSE fileName
  BY DEF ReturnFromPage
<1>4. only \in Listing(pickerType) \/ only = NoName
  BY <1>3
<1>5. /\ majorName' \in AllMajors \cup {NoName}
      /\ fileName' \in Saves \cup {NoName}
  BY <1>3, <1>4, ListingTyped DEF TypeOK
<1>6. TypeOK'
  BY <1>1, <1>2, <1>5 DEF TypeOK
<1>7. majorName' # NoName => facultyName # NoName
  <2>1. majorName' # NoName => again /\ pickerType = 1
    BY <1>3
  <2>2. again /\ pickerType = 1 => facultyName # NoName
    BY DEF ReturnFromPage, Visible
  <2>3. QED
    BY <2>1, <2>2
<1>8. QED
  BY <1>1, <1>6, <1>7 DEF NamesTopDown, PickerHasFaculty,
                          NoPickerBehindChecklist, OptionRemembersFaculty

LEMMA AwayStepInv ==
  ASSUME PickerInv, AwayStep PROVE PickerInv'
<1> USE DEF PickerInv, NamesTopDown, PickerHasFaculty, NoPickerBehindChecklist,
            OptionRemembersFaculty
<1>1. CASE OpenPage
  BY <1>1 DEF OpenPage, OnHome, TypeOK, panels, names, olds, listings
<1>2. CASE OpenCreated
  BY <1>2 DEF OpenCreated, MainEnabled, TypeOK, panels, olds, listings
<1>3. CASE OpenLoaded
  BY <1>3 DEF OpenLoaded, MainEnabled, TypeOK, panels, names, olds, listings
<1>4. CASE ReturnFromChecklist
  BY <1>4 DEF ReturnFromChecklist, FetchFacultiesAndFiles, TypeOK, panels, olds
<1>5. QED
  BY <1>1, <1>2, <1>3, <1>4, ReturnFromPageInv DEF AwayStep

(* A listener that outlives the choice it was added for changes a listing, *)
(* of its own kind.                                                        *)
LEMMA SnapshotInv ==
  ASSUME PickerInv, NEW l \in listeners, Snapshot(l)
  PROVE  PickerInv'
<1> USE DEF PickerInv
<1>1. /\ l[1] = 1 => l[2] \in Faculties
      /\ l[1] = 2 => l[2] \in AllMajors
  BY DEF TypeOK
<1>2. /\ l[1] = 1 => Majors[l[2]] \subseteq AllMajors
      /\ l[1] = 2 => Options[l[2]] \subseteq AllOptions
  BY <1>1 DEF AllMajors, AllOptions
<1>3. TypeOK'
  BY <1>2 DEF Snapshot, TypeOK, panels, names, olds
<1>4. QED
  BY <1>3 DEF Snapshot, panels, names, olds, NamesTopDown, PickerHasFaculty,
              NoPickerBehindChecklist, OptionRemembersFaculty

THEOREM PickerInvInvariant == Spec => []PickerInv
<1>1. PickerInv /\ [Next]_vars => PickerInv'
  <2> SUFFICES ASSUME PickerInv, [Next]_vars PROVE PickerInv'
    OBVIOUS
  <2>1. CASE Next
    BY <2>1, HomeStepInv, AwayStepInv, SnapshotInv, RelaunchInv DEF Next
  <2>2. CASE UNCHANGED vars
    BY <2>2 DEF vars, panels, names, olds, listings, PickerInv, TypeOK,
                NamesTopDown, PickerHasFaculty, NoPickerBehindChecklist,
                OptionRemembersFaculty
  <2>3. QED
    BY <2>1, <2>2
<1>2. QED
  BY InitInv, <1>1, PTL DEF Spec

-----------------------------------------------------------------------------
(* The picker's bindings and fetchContent()'s listeners keep every name    *)
(* and listing of its kind.                                                *)
THEOREM TypeCorrect == Spec => []TypeOK
<1>1. PickerInv => TypeOK
  BY DEF PickerInv
<1>2. QED
  BY PickerInvInvariant, <1>1, PTL

(* No gesture, page or answer leaves an option without its program, or a   *)
(* program without its faculty, for CREATE to save under.                  *)
THEOREM NamesAlwaysTopDown == Spec => []NamesTopDown
<1>1. PickerInv => NamesTopDown
  BY DEF PickerInv
<1>2. QED
  BY PickerInvInvariant, <1>1, PTL

(* showPicker disables the main view while no picker is seen in one case   *)
(* only: a page opened over an option's picker has cleared the program.    *)
THEOREM OthersNeverVanish == Spec => []OnlyOptionPickerVanishes
<1>1. PickerInv => OnlyOptionPickerVanishes
  BY DEF PickerInv, TypeOK, PickerHasFaculty, OnlyOptionPickerVanishes,
         PickerVisible, Visible
<1>2. QED
  BY PickerInvInvariant, <1>1, PTL

(* refresh() runs at every drag down; once the picker is away none of them *)
(* clears the option.                                                      *)
THEOREM DragsSpareOption == Spec => OptionSurvivesDrags
<1> DEFINE Spared == screen = "home" /\ ~showPicker /\ optionName # NoName
                       /\ optionName' = NoName
                     => screen' = "checklist" \/ facultyName' = NoName
<1>1. PickerInv /\ [Next]_vars => [Spared]_vars
  <2> SUFFICES ASSUME PickerInv, Next, screen = "home", ~showPicker,
                      optionName # NoName, optionName' = NoName
               PROVE  screen' = "checklist" \/ facultyName' = NoName
    OBVIOUS
  <2>1. CASE HomeStep
    <3>1. ASSUME NEW type \in 0 .. 3, PressButton(type) PROVE FALSE
      <4>1. \/ UNCHANGED names
            \/ \E name \in Listing(type) : Choose(type, name)
        BY <3>1 DEF PressButton, PickerAppears
      <4>2. QED
        BY <4>1, ListingTyped DEF names, Choose, PickerInv
    <3>2. ASSUME Refresh PROVE FALSE
      BY <3>2 DEF Refresh, PickerInv, OptionRemembersFaculty, NamesTopDown
    <3>3. QED
      BY <2>1, <3>1, <3>2 DEF HomeStep, Scroll, PickerVisible, Visible, Confirm,
                              DragDown, DragSideways, names
  <2>2. CASE AwayStep
    BY <2>2 DEF AwayStep, OpenPage, names, ReturnFromPage, OpenCreated,
                OpenLoaded, ReturnFromChecklist
  <2>3. CASE Relaunch
    BY <2>3 DEF Relaunch
  <2>4. ASSUME NEW l \in listeners, Snapshot(l) PROVE FALSE
    BY <2>4 DEF Snapshot, names
  <2>5. QED
    BY <2>1, <2>2, <2>3, <2>4 DEF Next
<1>2. QED
  BY PickerInvInvariant, <1>1, PTL DEF Spec, OptionSurvivesDrags
=============================================================================
