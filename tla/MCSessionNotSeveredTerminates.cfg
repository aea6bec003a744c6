SPECIFICATION FairSpec
CONSTANT MaxStatements = 2
PROPERTY SeveredTerminates
CHECK_DEADLOCK FALSE
