SPECIFICATION LadderSpec
CONSTANTS
  Tokens = {t1}
  NoToken = NoToken
  Signals = {"heartbeat", "correlation"}
  Weight <- MCWeight
  Readings <- MCReadings
  MinContrib = 90
  Decay = 50
  Greylist = 40
  Hold = 70
  Block = 90
  PassScore = 35
  MinSignals = 2
  MinSamples = 2
  MaxAttempts = 1
  MaxNotices = 1
  MaxRounds = 4
PROPERTY OnlyLate
