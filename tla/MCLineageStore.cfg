SPECIFICATION Spec
CONSTANTS
  p1 = p1
  p2 = p2
  w1 = w1
  w2 = w2
  Writers <- MCWriters
  Warehouses <- MCWarehouses
  Changes <- MCChanges
  ChangeLists <- MCChangeLists
  MaxSaves = 2
SYMMETRY MCSymmetry
INVARIANTS
  TypeOK
  NumbersAreDense
  ChangesHaveVersions
  UncontendedSaveIsWhole
  WriterNumbersIncrease
