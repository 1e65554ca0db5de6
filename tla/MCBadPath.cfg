\* FIRFirestore.mm:187 against a program cleared behind the picker.
SPECIFICATION Spec
CONSTANTS
  math = math
  arts = arts
  cs = cs
  stat = stat
  hist = hist
  bioinf = bioinf
  none = none
  x = x
  NoName = NoName
  Faculties = {math, arts}
  Saves = {x}
  NoOption = none
  Majors <- MCMajors
  Options <- MCOptions
INVARIANTS PathsAreValid
