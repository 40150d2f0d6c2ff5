SPECIFICATION LineSpec
CONSTANTS
  Count = 4
  Scale = 20
  Alpha = 7
  ContrastTh = 120
  StrengthTh = 260
  Driven <- OneWheel
  Base <- BaseSpeeds
  LineKp = 18
  LineKd = 2
  LineDen = 200
  TurnLimit = 400
  LostDiff = 2
  MinPulse = 0
  Offset <- Offsets
  Slope <- Slopes
  SlopeDen = 10000
  Kp = 80
  Ki = 5
  Den = 100
  CorrectionLimit = 2
  OutLimit = 500
  Delay = 2
  Speeds <- MeasuredSpeeds
  Streak = 7
INVARIANTS
  SeekRemembersSide
  BothWheelsForward
  IntegralEarned
