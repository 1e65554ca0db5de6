\* Four programs, three comments, three saves.
SPECIFICATION Spec
CONSTANTS
  NoFile = NoFile
  Words <- MCWords
  Programs <- MCPrograms
  Comments <- MCComments
  MaxSaved = 3
INVARIANTS TypeOK  FilesSettle
PROPERTIES LoadsBackAsSaved
