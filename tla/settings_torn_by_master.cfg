SPECIFICATION Spec
CONSTANTS
  def = def
  zero = zero
  NPages = 3
  ParamPages <- MCParamPages
  Values <- MCValues
  Default = def
  Zero = zero
  NoImage = NoImage
  Envs <- OnlyMaster
PROPERTIES
  SaveSuccessMeansUsable
