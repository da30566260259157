CONSTANTS
  Zero = Zero
  English = English
  Neutral = Neutral
  Tables <- MCTables
  Fallbacks <- MCFallbacks
  Fold <- MCFold
  Devices <- MCDevices
  Paths <- MCPaths
  Keys <- MCKeys
  Roots <- MCRoots
  LastDrive = 3
  MaxId = 4
  Statements = 2
  Office = Office
  Microsoft = Microsoft
  Products = {Office, Suite}
  Companies = {Microsoft, Acme}
  Versions = {v1}
  Empty = Empty
  None = None
  Volume = Volume
  VOLUME = VOLUME
  One = One
  Nil = Nil
  Cd = Cd
  File = File
  Separator = Separator
  Registry = Registry
  Machine = Machine
  User = User
  Key = Key
  HKLM = HKLM
  HKCU = HKCU
  Threads = {t1, t2, t3}
SPECIFICATION PartsSpec
INVARIANTS
  DescribesProgram
  ConvertedRightly
  ReadyToRecord
  LibraryHeldRight
  LogFaithful
CHECK_DEADLOCK FALSE
