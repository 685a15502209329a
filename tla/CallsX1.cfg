SPECIFICATION CallsSpec
CONSTANT Retries = 1
INVARIANT X1CallsAreSent
CHECK_DEADLOCK FALSE
