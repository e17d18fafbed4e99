CONSTANTS MaxTag = 2 MaxFailures = 0
SPECIFICATION ReleaseFairSpec
PROPERTY AppliedIsServed
CHECK_DEADLOCK FALSE
