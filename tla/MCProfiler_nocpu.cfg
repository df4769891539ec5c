CONSTANTS
  h1 = h1
  h2 = h2
  u1 = u1
  u2 = u2
  None = None
  Default = Default
  Cpu = Cpu
  Coll = Coll
  Loop = Loop
  Off = Off
  Bg = Bg
  Ext = Ext
  Setters <- TheSetters
  Collectors <- TheCollectors
  Handlers <- OneHandler
  Users <- OneUser
  Waits <- OneUser
  ExtUses = FALSE
  CpuEnabled = FALSE
  MayStop = FALSE
  PromptStop = FALSE
SPECIFICATION FairSpec
PROPERTY FlushReturns
