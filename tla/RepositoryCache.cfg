SPECIFICATION Spec
CONSTANTS
  i1 = i1
  i2 = i2
  i3 = i3
  Indexes = {i1, i2, i3}
  Signed = {i1, i2}
  NoFile = NoFile
  NoGen = NoGen
  MaxFaults = 2
INVARIANTS
  ReportedIsCurrent
PROPERTIES
  PointerMovesToVerified
  LastGenerationSurvives
  LoadFindsSurvivor
  JobsEnd
