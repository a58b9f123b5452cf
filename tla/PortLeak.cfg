\* The read, the setting up or the closing of the port may fail.
SPECIFICATION Spec
CONSTANTS
  DEFAULT = DEFAULT
  SWITCH_SPI_CHANNEL = SWITCH_SPI_CHANNEL
  MULTI_RESULTS_SWITCH = MULTI_RESULTS_SWITCH
  MULTI_RESULTS_GET = MULTI_RESULTS_GET
  Command = {DEFAULT, SWITCH_SPI_CHANNEL, MULTI_RESULTS_SWITCH, MULTI_RESULTS_GET, REG_READ}
  RequestCommand = {REG_READ}
  Lossy = FALSE
  Faults = {"recv", "setup", "close"}
  Prompt = FALSE
  MaxResults = 1
  RecvAttempts = 2
  SendAttempts = 3
  MaxConnects = 1
  MaxCalls = 3
INVARIANT PortReleased
