----------------------------- MODULE SaveFormat -----------------------------
(***************************************************************************)
(* The text of a save file: how saveModel() writes a checklist and how     *)
(* getCollection() reads it back (Model.swift).                            *)
(*                                                                         *)
(* A text is a sequence of words, of numbers and of the separators the     *)
(* format uses; a number is its digits.  Nothing is escaped: a separator   *)
(* typed in a comment, or part of a name of the database, is one when read *)
(* back.                                                                   *)
(***************************************************************************)
EXTENDS Integers, Sequences, FiniteSets, SequencesExt

CONSTANTS Words,     \* words and separators
          Programs,  \* of the database: [faculty, major, option, reqs], texts
          Comments,  \* texts a user may type
          NoFile,
          MaxSaved   \* bound: saves of a run

Word(w)    == <<"word", w>>
Numeral(n) == <<"number", n>>

Newline   == Word("\n")
Mark      == Word("?")
Bar       == Word("|")
Space     == Word(" ")
Semicolon == Word(";")

Symbol == ({"word"} \X Words) \cup ({"number"} \X Nat)
Text   == Seq(Symbol)

ASSUME WordsAssumption == {"\n", "?", "|", " ", ";", "false"} \subseteq Words

(* One more symbol of a text: a separator opens a new piece.               *)
Extend(pieces, x, sep) ==
  IF x = sep THEN Append(pieces, <<>>)
  ELSE [pieces EXCEPT ![Len(pieces)] = Append(@, x)]

(* The pieces of a text between separators, empty ones included, as        *)
(* components(separatedBy:) gives them; split() leaves the empty ones out. *)
Split(t, sep) ==
  LET upTo[n \in 0 .. Len(t)] ==
        IF n = 0 THEN << <<>> >> ELSE Extend(upTo[n - 1], t[n], sep)
  IN  upTo[Len(t)]

AddNonEmpty(pieces, p) == IF p = <<>> THEN pieces ELSE Append(pieces, p)

NonEmpty(pieces) ==
  LET upTo[n \in 0 .. Len(pieces)] ==
        IF n = 0 THEN <<>> ELSE AddNonEmpty(upTo[n - 1], pieces[n])
  IN  upTo[Len(pieces)]

Concat(texts) ==
  LET upTo[n \in 0 .. Len(texts)] ==
        IF n = 0 THEN <<>> ELSE upTo[n - 1] \o texts[n]
  IN  upTo[Len(texts)]

(* Slip: a space follows the separator of items, for looks.                *)
Join_Spaced(pieces, sep) ==
  LET between == IF sep = Semicolon THEN <<sep, Space>> ELSE <<sep>>
  IN  Concat([k \in 1 .. Len(pieces) |->
                IF k = 1 THEN pieces[k] ELSE between \o pieces[k]])

Join(pieces, sep) ==
  Concat([k \in 1 .. Len(pieces) |->
            IF k = 1 THEN pieces[k] ELSE <<sep>> \o pieces[k]])

Holds(t, sep) == sep \in ToSet(t)

(* String(n), and Int(t) where it succeeds.                                *)
Digits(n) == <<Numeral(n)>>
IsNumber(t) == Len(t) = 1 /\ t[1][1] = "number"
Number(t) == t[1][2]

(* Texts that the format can hold in each place.                           *)
Line == Seq(Symbol \ {Newline})
Name == Seq(Symbol \ {Newline, Bar})
Item == Seq(Symbol \ {Newline, Semicolon})

ASSUME ProgramsAssumption ==
  \A p \in Programs :
    /\ p.faculty \in Line /\ p.major \in Name /\ p.option \in Name
    /\ p.reqs \in Seq(Line)
    /\ \A r \in ToSet(p.reqs) : Len(Split(r, Semicolon)) > 2

ASSUME CommentsAssumption == Comments \subseteq Line

ASSUME NoFileAssumption == NoFile \notin Text

ASSUME BoundsAssumption == MaxSaved \in Nat

VARIABLES
  list,   \* the checklist the Model holds: names and cards
  file,   \* the text on disk
  saved,  \* history: the checklist that was written there
  saves   \* saves so far

vars == <<list, file, saved, saves>>

NoList == [faculty |-> <<>>, major |-> <<>>, option |-> <<>>, cards |-> <<>>]

Init ==
  /\ list = NoList
  /\ file = NoFile
  /\ saved = NoList
  /\ saves = 0

-----------------------------------------------------------------------------
(* A requirement is "text;num;item;item...": without a third part the     *)
(* range of the items traps.                                               *)
NewCard(requirement) ==
  LET parts == Split(requirement, Semicolon)
  IN  [text     |-> parts[1],
       boxes    |-> <<>>,
       num      |-> IF IsNumber(parts[2]) THEN Number(parts[2]) ELSE 0,
       progress |-> 0,
       items    |-> SubSeq(parts, 3, Len(parts)),
       comment  |-> <<>>]

Answer(p) == [i \in 1 .. Len(p.reqs) |-> NewCard(p.reqs[i])]

CardLine(c) ==
  Join(<<c.text, <<Word("false")>>,
         Join([i \in 1 .. Len(c.boxes) |-> Digits(c.boxes[i])], Semicolon),
         Digits(c.num), Digits(c.progress),
         Join(c.items, Semicolon), c.comment>>, Mark)

WrittenLines(l) ==
  <<l.faculty, l.major \o <<Space, Bar, Space>> \o l.option>>
    \o [i \in 1 .. Len(l.cards) |-> CardLine(l.cards[i])]

Written(l) ==
  LET lines == WrittenLines(l)
  IN  Concat([k \in 1 .. Len(lines) |-> lines[k] \o <<Newline>>])

-----------------------------------------------------------------------------
(* Slip: only the lines of the names are told apart.                       *)
Lines_TwoNames(t) ==
  LET lines == NonEmpty(Split(t, Newline))
  IN  IF Len(lines) <= 3 THEN lines
      ELSE SubSeq(lines, 1, 2) \o <<Join(SubSeq(lines, 3, Len(lines)), Newline)>>

Lines(t) == NonEmpty(Split(t, Newline))

Names(line) == NonEmpty(Split(line, Bar))

(* Slip: empty fields are left out, as everywhere else.                    *)
Fields_Omitted(line) == NonEmpty(Split(line, Mark))

Fields(line) == Split(line, Mark)

BoxTexts(field) == NonEmpty(Split(field, Semicolon))

(* No index is out of range, and Int(), unwrapped by "!", gets numbers.    *)
LineReads(line) ==
  LET fields == Fields(line)
  IN  /\ Len(fields) >= 7
      /\ IsNumber(fields[4]) /\ IsNumber(fields[5])
      /\ \A b \in ToSet(BoxTexts(fields[3])) : IsNumber(b)

Reads(t) ==
  LET lines == Lines(t)
  IN  /\ Len(lines) >= 2
      /\ Len(Names(lines[2])) >= 2
      /\ \A i \in 3 .. Len(lines) : LineReads(lines[i])

(* Slip: the two numbers are taken in the wrong order.                     *)
ReadCard_Swapped(line) ==
  LET fields == Fields(line)
      boxes  == BoxTexts(fields[3])
  IN  [text     |-> fields[1],
       boxes    |-> [i \in 1 .. Len(boxes) |-> Number(boxes[i])],
       num      |-> Number(fields[5]),
       progress |-> Number(fields[4]),
       items    |-> NonEmpty(Split(fields[6], Semicolon)),
       comment  |-> fields[7]]

ReadCard(line) ==
  LET fields == Fields(line)
      boxes  == BoxTexts(fields[3])
  IN  [text     |-> fields[1],
       boxes    |-> [i \in 1 .. Len(boxes) |-> Number(boxes[i])],
       num      |-> Number(fields[4]),
       progress |-> Number(fields[5]),
       items    |-> NonEmpty(Split(fields[6], Semicolon)),
       comment  |-> fields[7]]

(* The spaces around the bar stay with the names, but for an option that   *)
(* is nothing else.                                                        *)
Read(t) ==
  LET lines == Lines(t)
      names == Names(lines[2])
  IN  [faculty |-> lines[1],
       major   |-> names[1],
       option  |-> IF names[2] = <<Space>> THEN <<>> ELSE names[2],
       cards   |-> [i \in 1 .. Len(lines) - 2 |-> ReadCard(lines[i + 2])]]

-----------------------------------------------------------------------------
AsReq(c) == [text |-> c.text, num |-> c.num, items |-> Len(c.items)]

(* The cards of this module are those of module Cards, whose texts are     *)
(* values and whose items are counted.                                     *)
C == INSTANCE Cards WITH
       Requirements <- {AsReq(NewCard(r)) : r \in UNION {ToSet(p.reqs) : p \in Programs}},
       NoComment    <- <<>>,
       BeforeMark   <- [t \in Comments |-> Split(t, Mark)[1]]

AsCard(c, id) == [id |-> id, req |-> AsReq(c), checkedBoxes |-> c.boxes,
                  progress |-> c.progress, comment |-> c.comment]

-----------------------------------------------------------------------------
(* CREATE, answered or not.                                                *)
Create(p, answered) ==
  /\ list' = [faculty |-> p.faculty, major |-> p.major, option |-> p.option,
              cards |-> IF answered THEN Answer(p) ELSE <<>>]
  /\ UNCHANGED <<file, saved, saves>>

(* LOAD of a name that is not on disk, with no program chosen: the names   *)
(* are those of a Model that was left or is new.  An answer asked for by a *)
(* list that was left may come in.                                         *)
OpenMissing ==
  /\ list' = NoList
  /\ UNCHANGED <<file, saved, saves>>

LateAnswer(p) ==
  /\ list = NoList
  /\ list' = [list EXCEPT !.cards = Answer(p)]
  /\ UNCHANGED <<file, saved, saves>>

Tap(i, box) ==
  LET c == list.cards[i]
      after == C!CheckboxSelected(AsCard(c, i - 1), box)
  IN  /\ ~C!DivisionTraps(AsCard(c, i - 1))
      /\ list' = [list EXCEPT !.cards[i].boxes = after.checkedBoxes,
                              !.cards[i].progress = after.progress]
      /\ UNCHANGED <<file, saved, saves>>

EditComment(i, comment) ==
  /\ list' = [list EXCEPT !.cards[i].comment = comment]
  /\ UNCHANGED <<file, saved, saves>>

Save ==
  /\ saves < MaxSaved
  /\ saves' = saves + 1
  /\ file' = Written(list)
  /\ saved' = list
  /\ UNCHANGED list

Load ==
  /\ file # NoFile
  /\ Reads(file)
  /\ list' = Read(file)
  /\ UNCHANGED <<file, saved, saves>>

(* The program ends; the next launch has a new Model.                      *)
LoadTraps ==
  /\ file # NoFile
  /\ ~Reads(file)
  /\ list' = NoList
  /\ UNCHANGED <<file, saved, saves>>

Next ==
  \/ \E p \in Programs : \/ \E answered \in BOOLEAN : Create(p, answered)
                         \/ LateAnswer(p)
  \/ OpenMissing
  \/ \E i \in 1 .. Len(list.cards) :
       \/ \E box \in 0 .. Len(list.cards[i].items) - 1 : Tap(i, box)
       \/ \E comment \in Comments : EditComment(i, comment)
  \/ Save
  \/ Load
  \/ LoadTraps

Spec == Init /\ [][Next]_vars

-----------------------------------------------------------------------------
SavedCard == [text : Line, boxes : Seq(Nat), num : Nat, progress : Nat,
              items : Seq(Item), comment : Line]

SavedList == [faculty : Line, major : Name, option : Name, cards : Seq(SavedCard)]

(* The list, what was saved and the file are well-formed: no text of a     *)
(* list spans lines, no major and no option holds the bar between them, no *)
(* item the separator of items.                                            *)
TypeOK ==
  /\ list \in SavedList
  /\ saved \in SavedList
  /\ file \in Text \cup {NoFile}
  /\ saves \in 0 .. MaxSaved
  /\ (file = NoFile) <=> (saves = 0)

(* No question mark where the file has none of its own but in a comment.   *)
Plain(l) ==
  /\ l.faculty # <<>>
  /\ \A c \in ToSet(l.cards) :
       \A t \in {c.text} \cup ToSet(c.items) : ~Holds(t, Mark)

(* The names as they come back: the major takes a space after it, and the  *)
(* option, but for an empty one, a space before it.                        *)
MajorBack(major) == major \o <<Space>>
OptionBack(option) == IF option = <<>> THEN <<>> ELSE <<Space>> \o option

(* A plain list is loaded as it was saved: the names but for one space     *)
(* each (an empty option stays empty), the items but for empty ones, the   *)
(* comments up to their first question mark.  With no empty item this is   *)
(* what Cards!ReadBack says of a card.                                     *)
LoadsBackAsSaved ==
  [][Load /\ Plain(saved) =>
       list' = [faculty |-> saved.faculty,
                major   |-> MajorBack(saved.major),
                option  |-> OptionBack(saved.option),
                cards   |-> [i \in 1 .. Len(saved.cards) |->
                               [saved.cards[i] EXCEPT
                                  !.items   = NonEmpty(@),
                                  !.comment = Split(@, Mark)[1]]]]]_vars

(* A file ends the program that loads it only if it was saved with an      *)
(* empty faculty, or with a question mark in the text of a card.           *)
OnlyOddFilesTrap ==
  file # NoFile /\ ~Reads(file) =>
    saved.faculty = <<>> \/ \E c \in ToSet(saved.cards) : Holds(c.text, Mark)

(* What saving takes away it takes once: whatever file can be loaded,      *)
(* the list it gives can be saved and loaded again, with the same cards    *)
(* and, but for one space each, the same names.                            *)
FilesSettle ==
  file # NoFile /\ Reads(file) =>
    LET once == Read(file)
    IN  /\ Reads(Written(once))
        /\ Read(Written(once)) = [once EXCEPT !.major  = MajorBack(@),
                                              !.option = OptionBack(@)]
=============================================================================
