SPECIFICATION Spec
CONSTANTS
  Modules <- ThreeModules
  Names <- OneName
  Programs <- AllPrograms
  MaxAliases = 1
INVARIANTS
  TypeOK
  DependenciesFirst
  FailuresExplained
  ExportsAvailable
