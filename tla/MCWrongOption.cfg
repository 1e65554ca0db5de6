\* README.md:11 against a program changed after its option.
SPECIFICATION Spec
CONSTANTS
  math = math
  arts = arts
  cs = cs
  stat = stat
  hist = hist
  bioinf = bioinf
  none = none
  x = x
  NoName = NoName
  Faculties = {math, arts}
  Saves = {x}
  NoOption = none
  Majors <- MCMajors
  Options <- MCOptions
PROPERTIES OptionOfProgram
