SPECIFICATION Spec
CONSTANTS
  p1 = p1
  p2 = p2
  prA = prA
  prB = prB
  NoProvider = NoProvider
  NoPid = NoPid
  NoLine = NoLine
  Provider <- OneProvider
  Pid <- TwoSlots
  MaxFailures = 1
  Lines <- Silent
  Sleeps <- SomeSleeps
  Failures <- ManyFailures
  StartFaults = FALSE
  StuckPipe = FALSE
  MayStop = TRUE
  MayCrash = FALSE
INVARIANTS
  StopKillsTheChild
