SPECIFICATION FairSpec
CONSTANTS
    Fd = {1, 2}
    NoFd = NoFd
    Used = {"write", "read"}
    Listeners <- MCListeners
    MaxWatched = 2
INVARIANT WriteListedOnce
INVARIANT WrittenOncePerPass
 
PROPERTY ReadyIsServed
PROPERTY StopEnds
