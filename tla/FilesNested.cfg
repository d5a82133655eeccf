SPECIFICATION SafetySpec
CONSTANTS
  FILESYSTEM_BLOCKSIZE = 2
  MAX_FILENAME_LENGTH = 2
  MAX_NUM_FDT_ENTRIES = 3
  Depth = 2
  fileDirectory <- Directory
  inodes <- Inodes
  blocks <- Disk
  Filenames <- AllFilenames
  StdinName <- Stdin
  StdoutName <- Stdout
  Fds <- Nested
  Sizes <- ReadSizes
  Lines <- Typed
PROPERTIES
  ImplementsStreams
