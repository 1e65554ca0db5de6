--------------------------- MODULE DegreeChecklist ---------------------------
(***************************************************************************)
(* What a degree checklist promises its user, whatever goes on behind it.  *)
(* At most one list is open.  It is created for a program, and then filled *)
(* at once with exactly the requirements of that program, or loaded from a *)
(* file.  Each entry keeps the latest of its ticks, as many as the         *)
(* requirement asks for.  A file holds the list that was saved in it last. *)
(*                                                                         *)
(* An open list may be lost: the requirements of another program, asked    *)
(* for earlier, are added to it.  Of a list that is lost nothing is        *)
(* promised, but that it damages no more than one file with each save, and *)
(* that leaving it ends the matter.                                        *)
(***************************************************************************)
EXTENDS Integers, Sequences, SequencesExt

CONSTANTS Programs, Files, Reqs, Comments, NoComment, BeforeMark, NoName,
          Absent,   \* no file under a name
          Closed,   \* no list is open
          Lost      \* the open list is lost

VARIABLES
  open,    \* the open list with its program, the program asked for and not
           \* answered yet, and the name of its file; or Closed, or Lost
  files    \* files[f]: a list with its program, or Absent

vars == <<open, files>>

Entry(req) == [req |-> req, ticks |-> <<>>, comment |-> NoComment]

Filled(p) == [i \in 1 .. Len(Reqs[p]) |-> Entry(Reqs[p][i])]

Latest(ticks, n) ==
  SubSeq(ticks, IF Len(ticks) > n THEN Len(ticks) - n + 1 ELSE 1, Len(ticks))

(* The ticks but that of box, the others in their order.                   *)
Released(ticks, box) ==
  [i \in 1 .. Len(ticks) - 1 |->
     IF \E k \in 1 .. i : ticks[k] = box THEN ticks[i + 1] ELSE ticks[i]]

(* Ticks stand in the order they were made in.                             *)
Ticked(entry, box) ==
  [entry EXCEPT !.ticks = IF box \in ToSet(@)
                          THEN Released(@, box)
                          ELSE Latest(Append(@, box), entry.req.num)]

Reread(list) ==
  [i \in 1 .. Len(list) |-> [list[i] EXCEPT !.comment = BeforeMark[@]]]

IsList == open \notin {Closed, Lost}

Init ==
  /\ open = Closed
  /\ files = [f \in Files |-> Absent]

-----------------------------------------------------------------------------
Create(p, name) ==
  /\ open = Closed
  /\ open' = [program |-> p, asked |-> p, name |-> name, list |-> <<>>]
  /\ UNCHANGED files

Fill ==
  /\ IsList /\ open.asked # NoName
  /\ open' = [open EXCEPT !.asked = NoName, !.list = Filled(open.asked)]
  /\ UNCHANGED files

(* The database knows nothing of the program, or is out of reach.          *)
StayEmpty ==
  /\ IsList /\ open.asked # NoName
  /\ open' = [open EXCEPT !.asked = NoName]
  /\ UNCHANGED files

Load(f) ==
  /\ open = Closed
  /\ files[f] # Absent
  /\ open' = [program |-> files[f].program, asked |-> NoName, name |-> f,
              list    |-> Reread(files[f].list)]
  /\ UNCHANGED files

(* A file that is not there: an empty list, of the program chosen last.    *)
LoadNothing(f, p) ==
  /\ open = Closed
  /\ files[f] = Absent
  /\ open' = [program |-> p, asked |-> NoName, name |-> f, list |-> <<>>]
  /\ UNCHANGED files

Tick(i, box) ==
  /\ IsList
  /\ open.list[i].req.num > 0
  /\ open' = [open EXCEPT !.list[i] = Ticked(@, box)]
  /\ UNCHANGED files

Annotate(i, c) ==
  /\ IsList
  /\ open' = [open EXCEPT !.list[i].comment = c]
  /\ UNCHANGED files

(* A list keeps its name once it has one; the write itself may fail.       *)
Save(f) ==
  /\ IsList
  /\ open.name \in {f, NoName}
  /\ open' = [open EXCEPT !.name = f]
  /\ \/ files' = [files EXCEPT ![f] = [program |-> open.program,
                                       list    |-> open.list]]
     \/ UNCHANGED files

Close ==
  /\ open # Closed
  /\ open' = Closed
  /\ UNCHANGED files

Discard ==
  /\ IsList /\ open.name # NoName
  /\ open' = Closed
  /\ files' = [files EXCEPT ![open.name] = Absent]

-----------------------------------------------------------------------------
Lose ==
  /\ IsList
  /\ open' = Lost
  /\ UNCHANGED files

Damage ==
  /\ open = Lost
  /\ open' \in {Lost, Closed}
  /\ \E f \in Files : \A g \in Files \ {f} : files'[g] = files[g]

-----------------------------------------------------------------------------
Next ==
  \/ \E p \in Programs, name \in Files \cup {NoName} : Create(p, name)
  \/ Fill
  \/ StayEmpty
  \/ \E f \in Files : Load(f) \/ Save(f)
  \/ \E f \in Files, p \in Programs \cup {NoName} : LoadNothing(f, p)
  \/ IsList /\ \E i \in 1 .. Len(open.list) :
       \/ \E box \in 0 .. open.list[i].req.items - 1 : Tick(i, box)
       \/ \E c \in Comments : Annotate(i, c)
  \/ Close
  \/ Discard
  \/ Lose
  \/ Damage

Spec == Init /\ [][Next]_vars
=============================================================================
