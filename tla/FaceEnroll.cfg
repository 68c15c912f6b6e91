\* Two people with three pictures each, five and ten in the code.
CONSTANTS
  Persons = {0, 1}
  ConfirmTimes = 3
  SaveNumber = 2
  Pictures = 6
  NoFace = NoFace
  Absent = Absent
SPECIFICATION Spec
INVARIANTS
  TypeOK
  SamplesAccounted
  GoodCardsEnroll
