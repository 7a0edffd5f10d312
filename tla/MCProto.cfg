CONSTANTS
  Words = {"data", "db", "0", "00"}
  Numeral <- MCNumeral
  Decimal <- MCDecimal
  None = None
  StoredKeys <- MCStoredKeys
  Numbers <- MCNumbers
  Width = 256
  MaxTokens = 10
  MaxDuration = 6
  Octet = 4
  NoMessage = NoMessage
  Incomplete = Incomplete
  Invalid = Invalid
  MaxOctets = 6
  Lengths = {0, 1, 2, 4, 15, 16, 18}
  Unset = Unset
  Names <- MCNames
  Files <- MCFiles
  DefaultSocket = "default"
  Bin <- MCBin
  Exports <- MCExports
  Arguments = {"default", "argument"}
  Replies <- MCReplies
  MaxPrograms = 4
  MaxExports = 2
SPECIFICATION Spec
INVARIANTS RoundTrip DocumentedFormIsCanonical DurationExact RequestFramed ResponseFramed DecodersAgree
           UsersEntriesKept AskedWhereWaited
CHECK_DEADLOCK FALSE
