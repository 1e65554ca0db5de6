\* An online database and two programs, one with a requirement without a number;
\* two files, one with a dotted name; a comment that is cut when read back.
SPECIFICATION OnlineSpec
CONSTANTS
  pA = pA
  pB = pB
  fX = fX
  fY = fY
  math = math
  NoName = NoName
  Absent = Absent
  Closed = Closed
  Lost = Lost
  Faculties = {math}
  Programs = {pA, pB}
  Files = {fX, fY}
  Comments = {"", "?why"}
  NoComment = ""
  MaxPending = 1
  MaxSaved = 2
  Requirements <- MCRequirements
  Reqs <- BrokenReqs
  ListedAs <- DottedFiles
  BeforeMark <- MCBeforeMark
INVARIANTS TypeOK UnsavedTicksFlagged 
PROPERTIES  KeepsPromise ListArrives
