\* Everything may go wrong, and answers may come late.
SPECIFICATION FairSpec
CONSTANTS
  DEFAULT = DEFAULT
  SWITCH_SPI_CHANNEL = SWITCH_SPI_CHANNEL
  MULTI_RESULTS_SWITCH = MULTI_RESULTS_SWITCH
  MULTI_RESULTS_GET = MULTI_RESULTS_GET
  Command = {DEFAULT, SWITCH_SPI_CHANNEL, MULTI_RESULTS_SWITCH, MULTI_RESULTS_GET, REG_READ}
  RequestCommand = {DEFAULT, MULTI_RESULTS_GET}
  Lossy = TRUE
  Faults = {"open", "setup", "recv", "send", "close", "frame"}
  Prompt = FALSE
  MaxResults = 1
  RecvAttempts = 2
  SendAttempts = 3
  MaxConnects = 2
  MaxCalls = 4
INVARIANT TypeOK
INVARIANT LifeCycle
INVARIANT Routing
INVARIANT RoutedByKind
INVARIANT WriteOnOpen
PROPERTY CallsReturn
