SPECIFICATION FairSpec
PROPERTY SessionExpires
CHECK_DEADLOCK FALSE
