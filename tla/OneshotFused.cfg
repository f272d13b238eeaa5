CONSTANT AfterReady = {"is_terminated"}
SPECIFICATION Spec
INVARIANT ResultsAgree
CHECK_DEADLOCK FALSE
