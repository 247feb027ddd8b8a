CONSTANTS
  R = 3
  C = 3
  Labels <- MCLabels
SPECIFICATION Spec
CONSTRAINT StackBound
INVARIANTS
  TypeOK
  FillComplete
  RegionsSound
  RecursionDepthBound
  RenderedBoundaries
  AnnotatedOnce
PROPERTIES
  LabelerRefinesSpec
CHECK_DEADLOCK FALSE
