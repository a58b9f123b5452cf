\* A line that may lose packets, a device that answers in time, no fault.
SPECIFICATION LiveSpec
CONSTANTS
  DEFAULT = DEFAULT
  SWITCH_SPI_CHANNEL = SWITCH_SPI_CHANNEL
  MULTI_RESULTS_SWITCH = MULTI_RESULTS_SWITCH
  MULTI_RESULTS_GET = MULTI_RESULTS_GET
  Command = {DEFAULT, SWITCH_SPI_CHANNEL, MULTI_RESULTS_SWITCH, MULTI_RESULTS_GET, REG_READ}
  RequestCommand = {DEFAULT, REG_READ}
  Lossy = TRUE
  Faults = {"open"}
  Prompt = TRUE
  MaxResults = 2
  RecvAttempts = 3
  SendAttempts = 3
  MaxConnects = 1
  MaxCalls = 5
INVARIANT FreshResponse
INVARIANT StopDrains
INVARIANT PortReleased
PROPERTY IsExchange
 
