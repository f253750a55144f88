SPECIFICATION Spec
CONSTANTS
  bible = bible
  Builders = {b1, b2}
  Order <- OnePack
  Texts = {x, y}
  NoText = NoText
  MaxVersion = 3
  MaxFile = 3
  MaxImport = 3
  MaxLoss = 1
  NoPack = NoPack
  NoFile = NoFile
SYMMETRY Symmetry
INVARIANTS PacksInv VersionsOK BuildConverges FilesWholeAlone LatestTwoServed
