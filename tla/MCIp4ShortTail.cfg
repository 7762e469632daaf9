\* One datagram whose final fragment is shorter than the alignment, over a
\* wire that duplicates: the tail is joined to its own stored copy.
CONSTANTS
    Lengths <- ShortTailLengths
    LinkPayload = 2
    Alignment = 2
    IdSpace = 2
    MaxSends = 1
    MaxPacketSize = 7
    MaxFragmentCount = 2
    Timeout = 1
    MaxTime = 2
    IpHeader = IpHeader
SPECIFICATION Spec
PROPERTY DatagramService
CHECK_DEADLOCK FALSE
