\* All but clear_interrupt; results arrive whole or short of their last bytes.
SPECIFICATION FairMultiSpec
CONSTANTS
  Settings <- NoClearSettings
  Data <- SomeData
  Cuts <- WholeOrCut
  MaxAsked = 2
INVARIANT RequestsTellSettings
INVARIANT ResultsAsSent
PROPERTY ReadsEnd
