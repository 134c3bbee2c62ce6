SPECIFICATION Spec
CONSTANTS
  Shapes = "all"
  Regs = 12
  NumRegs = 12
  NodeId = 0
  StaticMaxId = 1
  MaxRuns = 2
  Programs <- ProgramsDef
  Fields <- FieldsDef
  Link <- LinkDef
  RuleLink <- RuleLinkDef
  Linear <- LinearDef
  TuplesOf <- TuplesOfDef
  Copies <- CopiesDef
INVARIANTS DecodersAgree RelocatedOnce AssertsHold HeldWithinCount
PROPERTY CallsReturn
