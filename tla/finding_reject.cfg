SPECIFICATION Spec
CONSTANTS
  p1 = p1
  p2 = p2
  prA = prA
  prB = prB
  NoProvider = NoProvider
  NoPid = NoPid
  NoLine = NoLine
  Provider <- TwoProviders
  Pid <- TwoSlots
  MaxFailures = 1
  Lines <- OnlyDefinitive
  Sleeps <- SomeSleeps
  Failures <- ManyFailures
  StartFaults = FALSE
  StuckPipe = FALSE
  MayStop = FALSE
  MayCrash = FALSE
PROPERTIES
  RejectsItsOwn
