SPECIFICATION Spec
CONSTANT Contents <- MCContents
INVARIANTS TypeOK BodyAsSent ClosedOnce ErrorIsTheHosts
CHECK_DEADLOCK FALSE
