\* Two faculties, three programs, two options, one save file.
SPECIFICATION Spec
CONSTANTS
  math = math
  arts = arts
  cs = cs
  stat = stat
  hist = hist
  bioinf = bioinf
  none = none
  x = x
  NoName = NoName
  Faculties = {math, arts}
  Saves = {x}
  NoOption = none
  Majors <- MCMajors
  Options <- MCOptions
INVARIANTS TypeOK NamesTopDown OnlyOptionPickerVanishes
PROPERTIES OptionSurvivesDrags
