SPECIFICATION Spec
CONSTANTS
  a1 = a1
  vh = vh
  Order <- MCOrder
  VanaHub = vh
  default = default
  solo = solo
  Words = {default, solo}
  Names <- MCNames
  DefaultName <- MCDefault
  NoFile = NoFile
  MaxProfiles = 2
  MaxName = 2
  MaxCrashes = 2
INVARIANTS
  TypeOK
  DocumentSound
  InstalledEverywhere
  AutoLoadsInstalled
PROPERTIES
  StartKeepsDocument
