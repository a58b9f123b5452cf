\* Nothing is lost, but answers may come late.
SPECIFICATION Spec
CONSTANTS
  DEFAULT = DEFAULT
  SWITCH_SPI_CHANNEL = SWITCH_SPI_CHANNEL
  MULTI_RESULTS_SWITCH = MULTI_RESULTS_SWITCH
  MULTI_RESULTS_GET = MULTI_RESULTS_GET
  Command = {DEFAULT, SWITCH_SPI_CHANNEL, MULTI_RESULTS_SWITCH, MULTI_RESULTS_GET, REG_READ}
  RequestCommand = {REG_READ}
  Lossy = FALSE
  Faults = {}
  Prompt = FALSE
  MaxResults = 1
  RecvAttempts = 2
  SendAttempts = 3
  MaxConnects = 1
  MaxCalls = 4
INVARIANT FreshResponse
