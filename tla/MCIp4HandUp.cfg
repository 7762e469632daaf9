\* Reproduces the hand-up of the last fragment instead of the reassembled
\* packet (ip4.c:1612): ReceiveContext->Packet is never switched.
CONSTANTS
    Lengths <- MCLengths
    LinkPayload = 2
    Alignment = 2
    IdSpace = 2
    MaxSends = 1
    MaxPacketSize = 7
    MaxFragmentCount = 2
    Timeout = 1
    MaxTime = 2
    IpHeader = IpHeader
SPECIFICATION Spec
INVARIANT HandedUpIsSent
CHECK_DEADLOCK FALSE
