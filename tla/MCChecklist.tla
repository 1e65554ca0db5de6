----------------------------- MODULE MCChecklist -----------------------------
(* Small instances of Checklist: requirements, programs, names and files.  *)
EXTENDS ChecklistRefinement

CONSTANTS pA, pB, fX, fY, math

Req(text, num, items) == [text |-> text, num |-> num, items |-> items]

\* Two boxes out of three, and one out of one.
Deep  == Req("deep", 2, 3)
Single == Req("single", 1, 1)
Broken == Req("broken", 0, 1)   \* "num" is not a number in the database

MCRequirements == {Deep, Single, Broken}

ListReqs   == [p \in Programs |-> IF p = pA THEN <<Deep>> ELSE <<Single, Single>>]
TinyReqs   == [p \in Programs |-> IF p = pA THEN <<Single, Single>> ELSE <<Single>>]
BrokenReqs == [p \in Programs |-> IF p = pA THEN <<Broken>> ELSE <<Single>>]

\* "x.old" is listed as "x"; with one file, it is listed as itself.
DottedFiles == [f \in Files |-> fX]
PlainFiles  == [f \in Files |-> f]

\* "?why" is read back as the empty comment.
MCBeforeMark == [c \in Comments |-> ""]
MCNoComments == [c \in Comments |-> c]
=============================================================================
