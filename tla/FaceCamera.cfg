\* Two samples make a face and one face fills the list, five and seven in the
\* code; three commands and restarts, so that an enrolment can meet another one
\* or a clearing of the list after either of the starting lists.
CONSTANTS
  Driver = Driver
  Nobody = Nobody
  Persons = {Driver}
  ConfirmTimes = 2
  SaveNumber = 1
  StartLists <- MCStartLists
  MaxEvents = 3
SPECIFICATION FairSpec
INVARIANTS
  TypeOK
  EnrollmentIsRequested
  AnswerIsRegistered
PROPERTIES
  AnswerComes
  AnswerIsWithdrawn
