SPECIFICATION FanFairSpec
CONSTANTS
  Temps = {1, 5, 7}
  HddTemps = {6}
  Full = 2
  Startup = 2
  High = 6
  SpinAt = 1
  Loops = 1
  Losable = {"cpu_temperature", "ready"}
  Missing = Missing
  Soc <- SmallSoc
  Hdd <- SmallHdd
  OVERHEATING_COUNT = 2
PROPERTIES StopsOnlyWhenCool  FailsafeWorks PowersOff
