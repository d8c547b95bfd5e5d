SPECIFICATION FairSpec
\* the process may exit, after which nothing happens
CHECK_DEADLOCK FALSE
INVARIANT StopsOnlyWhenAsked
PROPERTY SignalEndsService
