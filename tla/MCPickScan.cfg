CONSTANTS
  r1 = r1  r2 = r2  r3 = r3  imgA = imgA  imgB = imgB
  Runner <- MCRunner
  Position <- MCPosition
  Image = {imgA, imgB}
  ImageOf <- MCImageOf
  AnyImage = AnyImage
  NoReading = NoReading
  NoHealth = NoHealth
  BadHealth = BadHealth
  NoRunner = NoRunner
  Missing = Missing
  Junk = Junk
  HealthFile <- MCHealthFile
SPECIFICATION Spec
CHECK_DEADLOCK FALSE
INVARIANTS ScanFindsPick NeverOntoSickHost CoolestReporterWins
