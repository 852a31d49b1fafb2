SPECIFICATION FairSpec
CONSTANTS
    MaxSend = 2
    PeerData = 1
    MaxWnd = 2
    TCP_MAX_RTX = 1
    MaxPkts = 4
    MaxRto = 2
    IdleTimeout = TRUE
    OtherFlows = TRUE
INVARIANTS
    TimerLinkExclusive
    DestroyedIsUnlinked
    FinAfterAllData
    RtoIsImplemented
    ClosedIsComplete
    WaitingCloseIsServed
    FlushableFromHead
PROPERTIES
    RcvNxtMonotone
    TimeWaitEnds
    FinIsSent
CHECK_DEADLOCK FALSE
