SPECIFICATION DrawSpec
CONSTANTS
  COLS = 2
  ROWS = 2
  FNT_W = 4
  FONT_H = 1
  Glyph <- Shapes
  Colors = {2}
  Corners <- Corner
  BANK = 12
  BANKS = 6
  Windows0 = {0, 5}
  DRAWS = 2
  VideoCalm <- VideoWindows
  DIGIT = 3
  TIMEOUT = 2
  SLOWEST = 2
  Starts = {1, 5}
  WAIT = 2
  ACCESSES = 2
  WAITS = 1
  ClockCalm <- ClockWindows
  XMAX = 4
  YMAX = 3
  Moves <- Signeds
  Buttons = {8, 9}
  PACKETS = 3
  MouseCalm <- MouseWindows
  DEPTH = 11
  SECTOR_SIZE = 2
  DSECTS = 2
  DSIDES = 1
  TRACKS = 2
  BLOCKS = 4
  LONGEST = 5
  WORD = 65536
  ErrorCodes = {2304, 32768}
  REQUESTS = 2
  DriverCalm <- DriverWindows
  SCREEN_WIDTH = 4
  SCREEN_HEIGHT = 3
  Letters = {97, 98}
  CAPACITY = 8
  PIECE = 2
  Files <- FirstFiles
  KEYS = 4
  EditorCalm <- EditorWindows
  MAX_COUNT = 4
  Typable = {97, 98}
  STROKES = 8
  LINE = 13
  PARTS = 2
  BYTE = 256
  TokStr = 8
  Typed <- Lines
  Scripts <- FirstScripts
  DefaultSettings <- Image
  COMMANDS = 4
  CliCalm <- CliWindows
PROPERTY DrawCharEnds
CHECK_DEADLOCK FALSE
