CONSTANTS
  CTX_DEPTH = 1
  COLUMN_DEPTH = 2
  AddrMod = 4
  Epochs = {0, 1}
  PixelCounts = {0, 3}
  Descriptor <- MCDescriptor
  NoDescriptor = NoDescriptor
  CorruptTags <- MCCorruptTags
SPECIFICATION Spec
INVARIANTS CollectorSafe
PROPERTIES OrderSpec
