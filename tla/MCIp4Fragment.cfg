\* Two datagrams of one socket over a lossy, duplicating, reordering wire.
CONSTANTS
    Lengths <- MCLengths
    LinkPayload = 2
    Alignment = 2
    IdSpace = 2
    MaxSends = 2
    MaxPacketSize = 7
    MaxFragmentCount = 2
    Timeout = 1
    MaxTime = 2
    IpHeader = IpHeader
SPECIFICATION Spec
INVARIANT TypeOK
INVARIANT FragmentCountMatches
INVARIANT StoredFragmentsFaithful
PROPERTY DatagramService
\* A socket closed before it sent anything leaves nothing to receive once
\* the clock bound is reached: the system has stopped.
CHECK_DEADLOCK FALSE
