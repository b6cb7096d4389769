CONSTANTS
  Vaa = {"intent1", "intent2", "hello", "foreign", "garbage"}
  Route <- MCRoute
  Worker = {w1, w2}
  Idle = Idle
  TTL = 2
  MaxTime = 3
  MaxDeliveries = 3
SPECIFICATION RelayerSpec
INVARIANTS RelayerTypeOK OneGoroutinePerVaa SuppressedWasAccepted StoppedIsQuiet
PROPERTIES NoRepeatWithinTTL AttemptsRunOut ShutdownCompletes
