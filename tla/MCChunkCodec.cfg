CONSTANTS
  MaxFilters = 2
  ExtHeader = 2
  MinHeader = 1
  IntSize = 1
  MinBuffer = 4
  MaxTypesize = 2
  K32 = 8
  MinDict = 1
  MaxDict = 1
  DictShare = 4
  MinSamples = 1
  SampleFraction = 1
  FloatSizes = {2}
  CParams <- AllCParams
  DParams <- AllDParams
  Sources <- AllSources
  DestSizes = {7, 10, 14}
  Specials <- AllSpecials
  ItemCounts = {1, 3}
  MaxMasked = 1
SPECIFICATION Spec
INVARIANTS ChunkTiled CompressSucceeds 
