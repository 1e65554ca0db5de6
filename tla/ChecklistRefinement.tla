------------------------- MODULE ChecklistRefinement -------------------------
(***************************************************************************)
(* Checklist keeps what DegreeChecklist promises.  What the user sees of   *)
(* the Model, the views and the documents directory is one open list and   *)
(* the files; ids, percentages, tabs, dialogs, requests of lists already   *)
(* left and the home screen are not seen.                                  *)
(***************************************************************************)
EXTENDS Checklist

CONSTANTS Closed, Lost

(* What is seen of a card.                                                 *)
Entry == [req : Requirements, ticks : Seq(Nat), comment : Comments]

ASSUME StatesAssumption ==
  /\ Closed # Lost
  /\ {Closed, Lost} \cap [program : Programs \cup {NoName},
                          asked   : Programs \cup {NoName},
                          name    : Files \cup {NoName},
                          list    : Seq(Entry)] = {}
  /\ Absent \notin [program : Programs \cup {NoName}, list : Seq(Entry)]

EntryOf(card) == [req     |-> card.req,
                  ticks   |-> card.checkedBoxes,
                  comment |-> card.comment]

Entries(list) == [i \in 1 .. Len(list) |-> EntryOf(list[i])]

OpenList ==
  IF screen = "root" THEN Closed
  ELSE IF mixed THEN Lost
  ELSE [program |-> majorName, asked |-> waiting, name |-> fileName,
        list    |-> Entries(cards)]

FileLists ==
  [f \in Files |-> IF disk[f] = Absent THEN Absent
                   ELSE [program |-> disk[f].majorName,
                         list    |-> Entries(disk[f].cards)]]

Promise == INSTANCE DegreeChecklist WITH open <- OpenList, files <- FileLists

(* Every step the program takes is one its user was promised, or none the  *)
(* user sees: a created list holds exactly the requirements of its program *)
(* and a loaded one exactly what was saved; ticks give way in order; saves *)
(* and deletions are about the list's own file.  Once the answer to an     *)
(* earlier list (getDocument()'s handler) reaches the open one it is lost. *)
KeepsPromise == Promise!Spec
=============================================================================
