---------------------------- MODULE Ip4Fragment ----------------------------
(***************************************************************************)
(* IPv4 fragmentation and reassembly (drivers/net/netcore/ipv4/ip4.c).    *)
(*                                                                         *)
(* One socket sends datagrams through NetpIp4Send, which cuts a datagram  *)
(* longer than the link's payload into fragments of an aligned length.    *)
(* The wire keeps every packet ever sent and may deliver any of them, any *)
(* number of times and in any order, or never: loss, duplication and     *)
(* reordering.  NetpIp4ProcessReceivedData takes one packet; a fragment   *)
(* goes through NetpIp4ProcessPacketFragment, which runs entirely under   *)
(* NetIp4FragmentedPacketLock and so is one step here, including the lazy *)
(* purge of expired packet nodes it starts with.                          *)
(*                                                                         *)
(* Data are abstracted to labels: byte i of the k-th datagram sent is     *)
(* <<k, i>>, so a payload that is spliced, truncated or misplaced is a    *)
(* different sequence.  The tree key (protocol, addresses,                *)
(* identification) is reduced to the identification: there is one flow.  *)
(***************************************************************************)
EXTENDS Integers, Sequences, SequencesExt, FiniteSetsExt, Functions

CONSTANTS
    Lengths,            \* payload lengths (bytes) a datagram may have
    LinkPayload,        \* MaxPacketSize - HeaderSize - FooterSize of the link
    Alignment,          \* IP4_FRAGMENT_ALIGNMENT (8 in the code)
    IdSpace,            \* number of identifications (2^16 in the code)
    MaxSends,           \* bound on SendPacketCount
    MaxPacketSize,      \* IP4_MAX_PACKET_SIZE
    MaxFragmentCount,   \* IP4_MAX_FRAGMENT_COUNT
    Timeout,            \* IP4_FRAGMENT_TIMEOUT, in ticks
    MaxTime,            \* bound on the time counter
    IpHeader            \* the bytes of an IPv4 header, as one label

VARIABLES
    sendCount,  \* Socket->SendPacketCount
    sent,       \* payloads handed to NetpIp4Send
    wire,       \* every packet sent: [id, off (8-byte units), mf, data]
    node,       \* NetIp4FragmentedPacketTree: id -> [entries, timeout]
    fragCount,  \* NetIp4FragmentCount
    now,        \* HlQueryTimeCounter
    closed,     \* NetpIp4Close has run for the socket
    processed,  \* payloads of the Packet NetpIp4ProcessReceivedData hands up
    handedUp    \* payloads of ReceiveContext->Packet when the protocol runs

vars == <<sendCount, sent, wire, node, fragCount, now, closed, processed,
          handedUp>>

Payload(k, len) == [i \in 1 .. len |-> <<k, i>>]

\* ALIGN_RANGE_DOWN(MaxFragmentLength, IP4_FRAGMENT_ALIGNMENT).
MaxFragmentLength == LinkPayload - (LinkPayload % Alignment)

\* The fragmenting loop of NetpIp4Send, from BytesCompleted = done.
RECURSIVE FragmentsFrom(_, _, _)
FragmentsFrom(id, data, done) ==
    LET remaining == Len(data) - done
        length == IF MaxFragmentLength > remaining THEN remaining
                                                   ELSE MaxFragmentLength
    IN  IF remaining = 0 THEN {}
        ELSE {[id |-> id, off |-> done \div Alignment,
               mf |-> length # remaining,
               data |-> SubSeq(data, done + 1, done + length)]}
             \cup FragmentsFrom(id, data, done + length)

\* NetpIp4Send for a one-packet list.  A failed buffer allocation returns
\* before the list is sent and before SendPacketCount moves: no change.
Send(len) ==
    /\ ~closed
    /\ sendCount < MaxSends
    /\ LET id == sendCount % IdSpace
           d == Payload(sendCount, len)
       IN  /\ wire' = wire \cup
                 IF len > LinkPayload
                 THEN FragmentsFrom(id, d, 0)
                 ELSE {[id |-> id, off |-> 0, mf |-> FALSE, data |-> d]}
           /\ sent' = sent \cup {d}
    /\ sendCount' = sendCount + 1
    /\ UNCHANGED <<node, fragCount, now, closed, processed, handedUp>>

\* The entries held by the packet nodes with identifications in ids.
Stored(n, ids) == MapThenSumSet(LAMBDA k : Len(n[k].entries), ids)

\* NetpIp4RemoveFragmentedPackets(NULL): the nodes whose Timeout has not
\* passed survive; NetpIp4DestroyFragmentedPacketNode drops the count.
Live == Restrict(node, {k \in DOMAIN node : node[k].timeout > now})
LiveCount == fragCount - Stored(node, DOMAIN node \ DOMAIN Live)

\* The search loop: NextEntry is the first entry with a greater offset,
\* PreviousEntry the one before it (or the last).
NextIdx(es, p) == SelectInSeq(es, LAMBDA e : e.off > p.off)
PrevIdx(es, nx) == IF nx = 0 THEN Len(es) ELSE nx - 1

\* Offset + IP4_CONVERT_BYTES_TO_OFFSET(Length).
EndOf(e) == e.off + Len(e.data) \div Alignment

JoinPrevious(es, pv, p) == pv # 0 /\ EndOf(es[pv]) = p.off
OverlapsPrevious(es, pv, p) == pv # 0 /\ EndOf(es[pv]) > p.off

\* StartingOffset, and the bytes TotalLength counts before the next check.
Joined(es, pv, p) ==
    IF JoinPrevious(es, pv, p)
    THEN [off |-> es[pv].off, data |-> es[pv].data \o p.data]
    ELSE [off |-> p.off, data |-> p.data]

JoinNext(es, nx, f) == nx # 0 /\ EndOf(f) = es[nx].off
OverlapsNext(es, nx, f) == nx # 0 /\ EndOf(f) > es[nx].off

\* Mutant: the last mark taken from the fragment's own flag only.
MergedLastFromFlag(es, nx, f, p) ==
    [off |-> f.off, last |-> ~p.mf,
     data |-> f.data \o (IF JoinNext(es, nx, f) THEN es[nx].data ELSE << >>)]

\* The entry the fragment and its joined neighbours become (2852-2946).
Merged(es, nx, f, p) ==
    LET jn == JoinNext(es, nx, f)
    IN  [off |-> f.off,
         last |-> (jn /\ es[nx].last) \/ ~p.mf,
         data |-> f.data \o (IF jn THEN es[nx].data ELSE << >>)]

\* Mutants: the counter dropped for both joins always, or for the previous
\* entry only.
GoneAlwaysBoth(jp, jn) == 2
GoneIgnoresNext(jp, jn) == IF jp THEN 1 ELSE 0

\* The entries freed by the joins (3018-3028).
Gone(jp, jn) == (IF jp THEN 1 ELSE 0) + (IF jn THEN 1 ELSE 0)

\* The list after the insert after PreviousEntry and the joined removals.
Inserted(es, pv, nx, jp, jn, m) ==
    LET lo == IF jp THEN pv ELSE pv + 1
        hi == IF jn THEN nx ELSE pv
    IN  SubSeq(es, 1, lo - 1) \o << m >> \o SubSeq(es, hi + 1, Len(es))

\* Mutant: completion tested on the last mark alone.
CompletesIgnoringStart(m) == m.last

\* The packet completes when it is last and starts at offset zero.
Completes(m) == m.last /\ m.off = 0

\* NetpIp4CreateFragmentedPacketNode inserts an empty node into the tree.
Tree(p, live) ==
    IF p.id \in DOMAIN live THEN live
    ELSE (p.id :> [entries |-> << >>, timeout |-> now + Timeout]) @@ live

\* The tail of NetpIp4ProcessReceivedData: the local Packet is pkt, while
\* ReceiveContext->Packet, which the protocols read, holds ctx.
HandUp(pkt, ctx) ==
    /\ processed' = processed \cup {pkt}
    /\ handedUp' = handedUp \cup {ctx}

\* The allocation that fails in a call, if any: the packet node, or the
\* fragment entry or completed packet buffer.  The first failure returns.
Failures == {"none", "node", "buffer"}

\* The node is found or created; the fragment is placed, joined, dropped, or
\* completes the packet.  A failed allocation leaves the tree as it is,
\* with the node just created still in it.
Reassemble(p, fail, live, count) ==
    LET tree == Tree(p, live)
        es == tree[p.id].entries
        nx == NextIdx(es, p)
        pv == PrevIdx(es, nx)
        jp == JoinPrevious(es, pv, p)
        f == Joined(es, pv, p)
        jn == JoinNext(es, nx, f)
        m == Merged(es, nx, f, p)
        overlaps == OverlapsPrevious(es, pv, p) \/ OverlapsNext(es, nx, f)
        tooLarge == Len(m.data) > MaxPacketSize
    IN  \/ /\ overlaps
           /\ node' = tree
           /\ fragCount' = count
           /\ UNCHANGED <<processed, handedUp>>
        \/ /\ ~overlaps /\ tooLarge
           /\ node' = Restrict(tree, DOMAIN tree \ {p.id})
           /\ fragCount' = count - Len(es)
           /\ UNCHANGED <<processed, handedUp>>
        \/ /\ ~overlaps /\ ~tooLarge /\ fail = "buffer"
           /\ node' = tree
           /\ fragCount' = count
           /\ UNCHANGED <<processed, handedUp>>
        \/ /\ ~overlaps /\ ~tooLarge /\ fail = "none" /\ Completes(m)
           /\ node' = Restrict(tree, DOMAIN tree \ {p.id})
           /\ fragCount' = count - Len(es)
           /\ HandUp(m.data, << IpHeader >> \o p.data)
        \/ /\ ~overlaps /\ ~tooLarge /\ fail = "none" /\ ~Completes(m)
           /\ node' = [tree EXCEPT ![p.id].entries =
                                       Inserted(es, pv, nx, jp, jn, m)]
           /\ fragCount' = count + 1 - Gone(jp, jn)
           /\ UNCHANGED <<processed, handedUp>>

\* NetpIp4ProcessPacketFragment, under NetIp4FragmentedPacketLock.
ProcessPacketFragment(p, fail) ==
    LET live == Live
        count == LiveCount
    IN  \/ /\ count > MaxFragmentCount
           /\ node' = live
           /\ fragCount' = count
           /\ UNCHANGED <<processed, handedUp>>
        \/ /\ count <= MaxFragmentCount
           /\ p.id \notin DOMAIN live /\ fail = "node"
           /\ node' = live
           /\ fragCount' = count
           /\ UNCHANGED <<processed, handedUp>>
        \/ /\ count <= MaxFragmentCount
           /\ p.id \in DOMAIN live \/ fail # "node"
           /\ Reassemble(p, fail, live, count)

\* NetpIp4ProcessReceivedData for a packet from the wire.  The sender never
\* sets Don't Fragment, so the drop at 1601 is not reached.
ProcessReceivedData(p, fail) ==
    /\ p \in wire
    /\ \/ /\ p.mf \/ p.off # 0
          /\ ProcessPacketFragment(p, fail)
       \/ /\ ~p.mf /\ p.off = 0 /\ fail = "none"
          /\ HandUp(p.data, p.data)
          /\ UNCHANGED <<node, fragCount>>
    /\ UNCHANGED <<sendCount, sent, wire, now, closed>>

\* NetpIp4Close: NetpIp4RemoveFragmentedPackets(Socket) destroys every node
\* of the socket's flow.
Close ==
    /\ ~closed
    /\ closed' = TRUE
    /\ node' = [k \in {} |-> node[k]]
    /\ fragCount' = fragCount - Stored(node, DOMAIN node)
    /\ UNCHANGED <<sendCount, sent, wire, now, processed, handedUp>>

Tick ==
    /\ now < MaxTime
    /\ now' = now + 1
    /\ UNCHANGED <<sendCount, sent, wire, node, fragCount, closed, processed,
                   handedUp>>

Init ==
    /\ sendCount = 0
    /\ sent = {}
    /\ wire = {}
    /\ node = [k \in {} |-> << >>]
    /\ fragCount = 0
    /\ now = 0
    /\ closed = FALSE
    /\ processed = {}
    /\ handedUp = {}

Next ==
    \/ \E len \in Lengths : Send(len)
    \/ \E p \in wire, fail \in Failures : ProcessReceivedData(p, fail)
    \/ Close
    \/ Tick

Spec == Init /\ [][Next]_vars

-----------------------------------------------------------------------------
(* Properties *)

Packets == [id : 0 .. IdSpace - 1, off : Nat, mf : BOOLEAN, data : Seq(Nat \X Nat)]

TypeOK ==
    /\ sendCount \in 0 .. MaxSends
    /\ wire \subseteq Packets
    /\ DOMAIN node \subseteq 0 .. IdSpace - 1
    /\ fragCount \in Nat
    /\ now \in 0 .. MaxTime
    /\ closed \in BOOLEAN

\* NetIp4FragmentCount equals the entries stored in the tree, through the
\* join frees, the destroy of a completed, oversized or expired packet
\* node, and the socket close.
FragmentCountMatches == fragCount = Stored(node, DOMAIN node)

\* Entry e holds the bytes of datagram d from its offset on, and is marked
\* last exactly when it reaches the end of d.
IsSliceOf(e, d) ==
    LET from == e.off * Alignment
    IN  /\ from + Len(e.data) <= Len(d)
        /\ e.data = SubSeq(d, from + 1, from + Len(e.data))
        /\ e.last = (from + Len(e.data) = Len(d))

\* Whatever the loss, duplication and order of fragments, each packet node
\* holds pieces of one sent datagram, each at its own offset and with the
\* right last mark, in increasing order and with a gap between neighbours
\* (adjacent pieces are always joined by NetpIp4ProcessPacketFragment).
StoredFragmentsFaithful ==
    \A k \in DOMAIN node :
        LET es == node[k].entries
        IN  /\ \E d \in sent : \A i \in 1 .. Len(es) : IsSliceOf(es[i], d)
            /\ \A i \in 1 .. Len(es) - 1 :
                  EndOf(es[i]) < es[i + 1].off

\* The IPv4 layer implements the datagram service: every packet that
\* NetpIp4ProcessReceivedData hands up (whole or reassembled) is a datagram
\* some NetpIp4Send sent, unchanged.
Service == INSTANCE Ip4Service WITH sent <- sent, received <- processed
DatagramService == Service!Spec

\* What the protocols above read, ReceiveContext->Packet, is a sent
\* datagram.  After reassembly (1612) only the local Packet is switched to
\* the reassembled buffer.
HandedUpIsSent == handedUp \subseteq sent

=============================================================================
