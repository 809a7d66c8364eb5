------------------------------ MODULE Channel -------------------------------
(***************************************************************************)
(* What the rest of the system assumes of one direction of a TcpSocket: a  *)
(* queue of whole messages.  They arrive once, unaltered and in the order  *)
(* in which they were sent, until the connection breaks; then the ones     *)
(* that are still under way are lost.                                      *)
(***************************************************************************)
EXTENDS Naturals, Sequences

CONSTANT Payloads   \* encoded messages

VARIABLES
    sent,           \* messages senders began to send
    delivered,      \* messages handed to the receiver
    broken          \* nothing more will be delivered

channelVars == <<sent, delivered, broken>>

ChannelInit == sent = <<>> /\ delivered = <<>> /\ broken = FALSE

\* A sender begins.
Accept(p) ==
    /\ sent' = Append(sent, p)
    /\ UNCHANGED <<delivered, broken>>

\* The next message arrives.
Deliver ==
    /\ ~broken
    /\ Len(delivered) < Len(sent)
    /\ delivered' = Append(delivered, sent[Len(delivered) + 1])
    /\ UNCHANGED <<sent, broken>>

Break == broken' = TRUE /\ UNCHANGED <<sent, delivered>>

ChannelNext == (\E p \in Payloads : Accept(p)) \/ Deliver \/ Break

ChannelSpec == ChannelInit /\ [][ChannelNext]_channelVars

=============================================================================
