\* Every function of Algorithms, each with its own small inputs.
SPECIFICATION Spec
CONSTANTS
  WORD = 6
  Constants <- MCConstants
  MAX_CONSTANTS = 3
  MAX_CONSTANT_NAME = 4
  Behind <- MCBehind
  Texts <- MCTexts
  PATH_MAX = 12
  MAX_DIR_DEPTH = 7
  Mounts <- MCMounts
  PathNames <- MCPathNames
  MAX_MOUNTS = 2
  BLOCK_SIZE = 2048
  Tries = 1024
  Roms <- MCRoms
  CFs <- MCCards
  Memory = {3, 10}
  MAX_ARGS = 4
  DumpWindow = 20
  Sessions <- MCSessions
  Rates <- MCRates
  ROM_BITS = 3
  ADDRESS_LINES = 3
  LANE_BITS = 4
  DBRA = 4
  Boards <- MCBoards
  Lines <- MCLines
  WORD_BITS = 4
  TEXT_BUF_WORDS = 3
  CHUNK_MAX = 2
  TAB = 2
  Drawings <- MCDrawings
  Layouts <- MCLayouts
  Real = 901
  UserErrno = 902
  Pid = 2
  Programs <- MCPrograms
  Crashes <- MCCrashes
  SBCs <- MCSBCs
  PAGES = 3
  PAGE_ROWS = 2
  PANEL_WIDTH = 4
  NIBBLE = 2
  COLUMN_OFFSET = 3
  Panels <- MCPanels
  Maps <- MCMaps
  Elfs <- MCElfs
  Dates <- MCDates
  Listings <- MCListings
  TOP = 63
  num_instructions_to_list = 3
  Clocks <- MCClocks
  Files <- MCFiles
  Computers <- MCComputers
  Diagnoses <- MCDiagnoses
  Games <- MCGames
  PartitionTables <- MCPartitionTables
INVARIANTS
  NamedRight
  EvaluatesRight
  PathsResolve
  MountsWhatIsThere
  LinesObeyed
  StartsSound
  NumbersReadBack
  ScreenShowsText
  ChipSetAsAsked
  TrapsServed
  MapsTranslate
\* A function returns once.
CHECK_DEADLOCK FALSE
