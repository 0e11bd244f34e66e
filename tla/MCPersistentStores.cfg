\* Updates, blobs and NDEF messages, with losses of power.
SPECIFICATION StoresSpec
CONSTANTS
  Units = {"a", "b"}
  Files <- MCFiles
  Factory <- MCFactory
  BUF_SIZE = 2
  BIN_SIZE = 3
  NvsTasks = {"t1", "t2"}
  Names = {"n"}
  Contents = {"x", "y"}
  MaxSize = 2
  MEMORY = 320
  Enda1 = 15
  Packages = {3}
  Jsons = {130}
  MaxRecords = 3
  MaxMessages = 2
  MaxFaults = 1
INVARIANTS
  BootIsComplete
  WriteIsDurable
  ReadsBack
