SPECIFICATION Spec
CONSTANTS
  MaxFiles = 3
  Workers = {1, 2, 4}
INVARIANTS
  TypeOK
  ResultsAreThoseOfTheFiles
PROPERTIES
  CallsEnd
