\* All settings, clear_interrupt included.
SPECIFICATION FairMultiSpec
CONSTANTS
  Settings <- AnySettings
  Data <- SomeData
  Cuts <- WholeOrCut
  MaxAsked = 2
INVARIANT RequestsTellSettings
