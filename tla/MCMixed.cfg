\* README.md:11 against answers that come late.
SPECIFICATION Spec
CONSTANTS
  pA = pA
  pB = pB
  fX = fX
  fY = fY
  math = math
  NoName = NoName
  Absent = Absent
  Closed = Closed
  Lost = Lost
  Faculties = {math}
  Programs = {pA, pB}
  Files = {fX}
  Comments = {""}
  NoComment = ""
  MaxPending = 1
  MaxSaved = 3
  Requirements <- MCRequirements
  Reqs <- TinyReqs
  ListedAs <- PlainFiles
  BeforeMark <- MCNoComments
INVARIANTS OnlySelectedProgram
