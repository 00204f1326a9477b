SPECIFICATION FairSpec
CONSTANTS
  def = def
  zero = zero
  NPages = 3
  ParamPages <- MCParamPages
  Values <- MCValues
  Default = def
  Zero = zero
  NoImage = NoImage
  Envs <- EveryFault
INVARIANTS
  TypeOK
  HealthyFlagMeansUsableChip
PROPERTIES
  SaveSuccessMeansStored
  BootEndsOnWholeConfiguration
  LoadAndSaveEnd
  ImplementsAtomicStore
