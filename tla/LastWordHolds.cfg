SPECIFICATION Spec
CONSTANTS
  CommandLines <- CommandLinesDef
  Vocalities <- VocalitiesDef
  MemoryKinds = {"usable", "bootloader_reclaimable", "acpi_reclaimable"}
  Lengths = {2, 6}
  Gaps = {0, 2}
  MaxEntries = 4
  HeapSize = 4
  PageSize = 2
  PageCount = 3
  HeaderLen = 1
  Word = 1024
  PlainMap <- PlainMapDef
  Attempts = 3
  MaxKeys = 2
  Functions = {"none", "ahci", "vendor specific", "nvm", "display controller"}
  NFunctions = 3
  Slack = 1
  Half = 4
  Halves = {0, 2}
  Hhdm = 5
  Null = null
INVARIANT LastWordHolds
