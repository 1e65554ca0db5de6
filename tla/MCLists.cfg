\* Two programs, one file: ticks, saves, loads, restarts, and answers that
\* come after their list was left.
SPECIFICATION Spec
CONSTANTS
  pA = pA
  pB = pB
  fX = fX
  fY = fY
  math = math
  NoName = NoName
  Absent = Absent
  Closed = Closed
  Lost = Lost
  Faculties = {math}
  Programs = {pA, pB}
  Files = {fX}
  Comments = {""}
  NoComment = ""
  MaxPending = 1
  MaxSaved = 2
  Requirements <- MCRequirements
  Reqs <- ListReqs
  ListedAs <- PlainFiles
  BeforeMark <- MCNoComments
INVARIANTS ChecksLegal TabsAreExact CreatedListExact RowsShowTheirCard
PROPERTIES CardsSurvive OldestGivesWay KeepsPromise
