CONSTANTS
  h1 = h1
  h2 = h2
  u1 = u1
  u2 = u2
  None = None
  Default = Default
  Cpu = Cpu
  Coll = Coll
  Loop = Loop
  Off = Off
  Bg = Bg
  Ext = Ext
  Setters <- TheSetters
  Collectors <- TheCollectors
  Handlers <- TwoHandlers
  Users <- TwoUsers
  Waits <- OneUser
  ExtUses = TRUE
  CpuEnabled = TRUE
  MayStop = TRUE
  PromptStop = TRUE
SYMMETRY AlikeHandlers
SPECIFICATION Spec
INVARIANT SameCollector
INVARIANT NoForgottenSetter
INVARIANT OneProfilePerUpload
INVARIANT ForegroundDelivered
INVARIANT FlushUploadsCpu
INVARIANT StoppedIsQuiet
