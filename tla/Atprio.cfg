CONSTANTS
  PrioMin <- Mins
  PrioMax <- Maxs
  Runs = {a1, a2}
  Shell = Shell
  Jobs <- SomeJobs
  Settings <- SomeSettings
SPECIFICATION AtprioSpec
INVARIANT AtprioInv
PROPERTY AdjustsExactly
