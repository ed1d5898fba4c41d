SPECIFICATION ScanSpec
CONSTANTS
  Characters <- InstanceCharacters
  Sources <- InstanceSources
  Letters = {"i", "o"}
  Digits = {"0"}
  Words <- InstanceWords
  MaxLiteralTokens = 4
  MaxTokens = 5
CHECK_DEADLOCK FALSE
INVARIANTS
  MasksTheLiterals
  MalformedIsTrue
  ReportsTheWords
