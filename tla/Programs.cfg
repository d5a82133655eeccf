SPECIFICATION ProgramsSpec
CONSTANTS
  FILESYSTEM_BLOCKSIZE = 2
  MAX_FILENAME_LENGTH = 2
  MAX_NUM_FDT_ENTRIES = 8
  Depth = 3
  fileDirectory <- MCDirectory
  inodes <- MCInodes
  blocks <- MCBlocks
  StdinName <- Stdin
  StdoutName <- Stdout
  Filenames <- NoNames
  Fds <- NoNames
  Sizes <- NoNames
  Lines <- MCLines
  FNAME_SIZE = 2
  ARG_SIZE = 3
  ELF = "ELF"
  Residue <- MCResidue
  None = None
  ProgramOf <- MCProgramOf
  BUFSIZE = 5
  SBUFSIZE = 3
  ExitWord <- WordX
  Dot <- NameDot
  RtcName <- NameRtc
  ShellName <- NameShell
  HelloName <- NameHello
  Frames <- MCFrames
  Maxima <- MCMaxima
  WAIT = 1
  LASTWAIT = 2
  COLS = 4
  OFFSET = 2
  StackBytes <- MCStack
  Commands <- MCCommands
  Statuses <- MCStatuses
INVARIANTS
  GetsOwnArgs BuffersHold OutputIsAnswer GrepPrintsMatches SyserrPasses ShellTells
PROPERTY
  ProgramsEnd
