\* README.md:11 against file names with a dot.
SPECIFICATION Spec
CONSTANTS
  pA = pA
  pB = pB
  fX = fX
  fY = fY
  math = math
  NoName = NoName
  Absent = Absent
  Closed = Closed
  Lost = Lost
  Faculties = {math}
  Programs = {pA}
  Files = {fX, fY}
  Comments = {"", "?why"}
  NoComment = ""
  MaxPending = 1
  MaxSaved = 2
  Requirements <- MCRequirements
  Reqs <- BrokenReqs
  ListedAs <- DottedFiles
  BeforeMark <- MCBeforeMark
PROPERTIES ListedFilesLoad
