SPECIFICATION FairSpec
CONSTANTS
  Databases = {"d1", "d2", "d3"}
  Aliases = {"a1", "a2"}
  Composites = {"q1"}
  DbNames = {"n1", "n2"}
  AliasNames = {"l1"}
  CompNames = {"c1"}
  Dotted = {"l1"}
  Retained = {"a2"}
  Importing = {"d3"}
  Casts <- Scenes
  KeepVolumes = FALSE
  MaxChanges = 3
  MaxAge = 3
PROPERTIES Implements NamesSettle
CHECK_DEADLOCK FALSE
