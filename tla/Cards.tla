-------------------------------- MODULE Cards --------------------------------
(***************************************************************************)
(* The cards of a degree checklist (Card.swift) and the operations the     *)
(* views perform on them: ticking a box (CheckBoxView.swift), filtering    *)
(* the list by progress (CheckListView.swift), building cards from the     *)
(* requirements of a program and reading them back from a save file        *)
(* (Model.swift).                                                          *)
(*                                                                         *)
(* An operator whose name has a suffix, as in FreshCards_SameId, is not    *)
(* the code's: it is FreshCards with a slip that is easily made, and some  *)
(* property that holds of FreshCards fails with it in its place.           *)
(*                                                                         *)
(* A requirement is what a card keeps for its whole life: its text, how    *)
(* many of its courses must be taken, and how many courses it offers.      *)
(***************************************************************************)
EXTENDS Integers, Sequences, FiniteSets, SequencesExt

CONSTANTS Requirements,  \* the requirements of the database, as records
                         \* [text, num, items], items being their number
          Comments,      \* what a user may type in a comment field
          NoComment,     \* the empty comment
          BeforeMark     \* BeforeMark[c]: the part of c before its first "?"

ASSUME RequirementsAssumption ==
  \A r \in Requirements : r.num \in Nat /\ r.items \in Nat \ {0}

ASSUME CommentsAssumption ==
  /\ NoComment \in Comments
  /\ BeforeMark \in [Comments -> Comments]

SELECT_ALL     == 0
SELECT_CHECK   == 1
SELECT_UNCHECK == 2

(* Text, num and items never change after a card is built: they travel     *)
(* together as the card's requirement.  Boxes are numbered from 0.         *)
Card == [id           : Nat,
         req          : Requirements,
         checkedBoxes : Seq(Nat),
         progress     : Nat,
         comment      : Comments]

Boxes(req) == 0 .. (req.items - 1)

NewCard(id, req) ==
  [id |-> id, req |-> req, checkedBoxes |-> <<>>, progress |-> 0,
   comment |-> NoComment]

(* Slip: the counter of ids is not advanced.                               *)
FreshCards_SameId(reqs) == [i \in 1 .. Len(reqs) |-> NewCard(0, reqs[i])]

(* The cards an answer of the database adds: one per requirement, in order.*)
FreshCards(reqs) == [i \in 1 .. Len(reqs) |-> NewCard(i - 1, reqs[i])]

(* The cards of a save file as they are read back: each takes the number   *)
(* of its line as its id, and a comment loses what follows a "?".          *)
ReadBack(saved) ==
  [i \in 1 .. Len(saved) |->
     [saved[i] EXCEPT !.id = i - 1, !.comment = BeforeMark[@]]]

(* Slips: one box too many is kept; the box ticked last gives way instead  *)
(* of the oldest; a box is remembered by its number less one.              *)
ToggledBoxes_OneTooMany(card, box) ==
  IF box \in ToSet(card.checkedBoxes)
  THEN RemoveFirst(card.checkedBoxes, box)
  ELSE LET more == Append(card.checkedBoxes, box)
       IN  IF Len(more) > card.req.num + 1 THEN Tail(more) ELSE more

ToggledBoxes_NewestGivesWay(card, box) ==
  IF box \in ToSet(card.checkedBoxes)
  THEN RemoveFirst(card.checkedBoxes, box)
  ELSE IF Len(card.checkedBoxes) >= card.req.num
       THEN Append(Front(card.checkedBoxes), box)
       ELSE Append(card.checkedBoxes, box)

ToggledBoxes_LessOne(card, box) ==
  IF box \in ToSet(card.checkedBoxes)
  THEN RemoveFirst(card.checkedBoxes, box)
  ELSE LET more == Append(card.checkedBoxes, box - 1)
       IN  IF Len(more) > card.req.num THEN Tail(more) ELSE more

(* Ticking a box.  A box already ticked is released; a further one is put  *)
(* at the end, and pushes out the oldest when there are more than num.     *)
ToggledBoxes(card, box) ==
  IF box \in ToSet(card.checkedBoxes)
  THEN RemoveFirst(card.checkedBoxes, box)
  ELSE LET more == Append(card.checkedBoxes, box)
       IN  IF Len(more) > card.req.num THEN Tail(more) ELSE more

Percent(count, num) == (count * 100) \div num

(* Slip: progress counts the boxes there were before the tap.              *)
CheckboxSelected_OldCount(card, box) ==
  [card EXCEPT !.checkedBoxes = ToggledBoxes(card, box),
               !.progress = Percent(Len(card.checkedBoxes), card.req.num)]

CheckboxSelected(card, box) ==
  LET boxes == ToggledBoxes(card, box)
  IN  [card EXCEPT !.checkedBoxes = boxes,
                   !.progress = Percent(Len(boxes), card.req.num)]

(* The division in checkboxSelected() stops the program when num is 0.     *)
DivisionTraps(card) == card.req.num = 0

(* The row of the first card with this id, as firstIndex(where:) gives it. *)
FirstIndex(cards, id) == SelectInSeq(cards, LAMBDA c : c.id = id)

FilteredCards(cards, selected) ==
  CASE selected = SELECT_ALL     -> cards
    [] selected = SELECT_CHECK   -> SelectSeq(cards, LAMBDA c : c.progress = 100)
    [] selected = SELECT_UNCHECK -> SelectSeq(cards, LAMBDA c : c.progress # 100)

-----------------------------------------------------------------------------
(* What the numbers of a card must say of each other: a box is ticked at   *)
(* most once, no more than num are ticked, and progress is their share.    *)
LegalCard(c) ==
  /\ c.checkedBoxes \in Seq(Boxes(c.req))
  /\ \A i, j \in 1 .. Len(c.checkedBoxes) :
       c.checkedBoxes[i] = c.checkedBoxes[j] => i = j
  /\ Len(c.checkedBoxes) <= c.req.num
  /\ c.progress = IF c.req.num = 0 THEN 0
                  ELSE Percent(Len(c.checkedBoxes), c.req.num)

Requirement(cards) == [i \in 1 .. Len(cards) |-> cards[i].req]

Ticked(cards) == \E i \in 1 .. Len(cards) : cards[i].checkedBoxes # <<>>
=============================================================================
