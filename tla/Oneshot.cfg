CONSTANT AfterReady = {}
SPECIFICATION RemoteSpec
INVARIANTS MessageAccounted NoLostWakeUp RemoteCorrect
PROPERTY HalvesHearOfTheEnd
CHECK_DEADLOCK FALSE
