SPECIFICATION Spec
CONSTANTS
  None = None
  Torn = Torn
  Names = {"quick", "slot"}
  Versions = {1, 2}
  Bundles <- MCBundles
  Olds <- MCUpgrade
  MayFail = {"asidesync"}
  MaxUnsynced = 2
PROPERTIES
  Transactional
