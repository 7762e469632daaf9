--------------------------- MODULE MCIp4Fragment ---------------------------
EXTENDS Ip4Fragment, TLC

\* Byte lengths standing for: a datagram that fits the link, one cut into
\* three fragments, and one whose reassembly passes IP4_MAX_PACKET_SIZE.
MCLengths == {2, 6, 8}

\* A datagram whose last fragment is shorter than the alignment.
ShortTailLengths == {5}

=============================================================================
