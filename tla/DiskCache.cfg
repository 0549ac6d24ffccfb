CONSTANTS
  Slot = {s1, s2}
  Image = {i1, i2}
  NoImage = NoImage
  Data = {0, 1}
  Zero = 0
  Units = 3
  BlockUnits = 2
  Blocks = 2
  MaxCount = 2
  ValidSize = {3}
  FileSize = {0, 3}
  SharedImages = FALSE
SPECIFICATION SafeSpec
SYMMETRY Symmetry
INVARIANTS TypeOK CacheCoherent SizeCurrent
PROPERTIES ImplementsStore
