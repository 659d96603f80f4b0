SPECIFICATION Spec
CONSTANTS
  Numbers <- MCNumbers
  MaxWords = 6
  RATE_LIMIT_DEFAULT = 2
  RATE_LIMIT_POWER = 1
INVARIANTS
  TypeOK
  OkMeansSent
  LastSettingWins
  ChecksumHolds
  WarmerIsNotColder
