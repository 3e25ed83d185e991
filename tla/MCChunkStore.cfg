SPECIFICATION Spec
CONSTANTS
  Storages = {"memory", "cframe", "file", "sframe"}
  Chunks <- SomeChunks
  Fills <- SomeFills
  Overhead = 1
  Page = 3
  MaxChunks = 3
  MaxPayload = 6
  MaxId = 3
  Avoid = {"short_append", "special_uneven", "reorder_uneven", "recompress_uneven",
           "large_id", "loaded_reorder"}
INVARIANTS
  SizesHonest
  LayoutSound
  TotalsExact
 
VIEW View
