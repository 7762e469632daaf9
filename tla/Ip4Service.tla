---------------------------- MODULE Ip4Service ----------------------------
(***************************************************************************)
(* What the IPv4 layer promises the protocols above it: a datagram that   *)
(* is handed up is one that some socket sent, whole.  Datagrams may be    *)
(* lost, duplicated or reordered, so nothing is promised about which ones *)
(* arrive, how often or in what order.  A datagram is an opaque value     *)
(* (its payload); the layer never invents or splices one.                 *)
(***************************************************************************)
EXTENDS FiniteSets

VARIABLES
    sent,       \* the payloads handed to the IPv4 layer for sending
    received    \* the payloads the IPv4 layer has handed up on receipt

vars == <<sent, received>>

Init ==
    /\ sent = {}
    /\ received = {}

\* One new payload is sent.
Send ==
    /\ sent \subseteq sent'
    /\ Cardinality(sent' \ sent) = 1
    /\ UNCHANGED received

\* A payload is handed up; it must be one that was sent.
Receive ==
    /\ received \subseteq received'
    /\ Cardinality(received' \ received) = 1
    /\ received' \subseteq sent
    /\ UNCHANGED sent

Next == Send \/ Receive

Spec == Init /\ [][Next]_vars

=============================================================================
