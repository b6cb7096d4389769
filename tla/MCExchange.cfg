CONSTANT N = 2
SPECIFICATION Spec
CHECK_DEADLOCK FALSE
INVARIANTS TypeOK FindsItsPeer NothingLeftAfterSuccess
PROPERTIES ImplementsPromise LoopAdvances ExchangeEnds
