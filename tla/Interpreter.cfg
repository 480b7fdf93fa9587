CONSTANT Systems <- MCSystems
SPECIFICATION MCSpec
INVARIANTS TypeOK ExpandedAgainAfterCollision CountsSchedules CountsSteps
PROPERTIES ImplementsSearch Termination
CHECK_DEADLOCK FALSE
