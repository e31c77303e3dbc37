SPECIFICATION Spec
CONSTANTS
  Absent = Absent
  Asks <- MCAsks
  Answers <- MCAnswers
  Listings <- MCListings
  Contexts = {4, 8}
INVARIANTS
  SameMessage
  VerdictIsTheModels
  ClientIsAnswered
  AsksWhatWasAsked
