\* Nothing goes wrong; the caller connects a second time.
SPECIFICATION Spec
CONSTANTS
  DEFAULT = DEFAULT
  SWITCH_SPI_CHANNEL = SWITCH_SPI_CHANNEL
  MULTI_RESULTS_SWITCH = MULTI_RESULTS_SWITCH
  MULTI_RESULTS_GET = MULTI_RESULTS_GET
  Command = {DEFAULT, SWITCH_SPI_CHANNEL, MULTI_RESULTS_SWITCH, MULTI_RESULTS_GET, REG_READ}
  RequestCommand = {REG_READ}
  Lossy = FALSE
  Faults = {}
  Prompt = TRUE
  MaxResults = 1
  RecvAttempts = 2
  SendAttempts = 3
  MaxConnects = 2
  MaxCalls = 4
INVARIANT ReconnectWorks
