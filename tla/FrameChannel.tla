---------------------------- MODULE FrameChannel ----------------------------
(***************************************************************************)
(* What stomp_sever expects of a connection: the frames a peer sends are   *)
(* handed to on_data_rx one by one, whole and in their order, until the    *)
(* connection is down.  A channel that is no longer intact promises        *)
(* nothing but to leave alone what was delivered.                          *)
(***************************************************************************)
EXTENDS Naturals, Sequences, SequencesExt

CONSTANT Payloads  \* what a frame carries
VARIABLES sent, delivered, up, intact
channel == <<sent, delivered, up, intact>>

ChannelInit == sent = <<>> /\ delivered = <<>> /\ up = TRUE /\ intact = TRUE

Send(p) ==
  /\ sent' = Append(sent, p)
  /\ UNCHANGED <<delivered, up, intact>>

Deliver ==
  /\ up /\ intact /\ Len(delivered) < Len(sent)
  /\ delivered' = Append(delivered, sent[Len(delivered) + 1])
  /\ UNCHANGED <<sent, up, intact>>

GoDown ==
  /\ up /\ ~up'
  /\ UNCHANGED <<sent, delivered, intact>>

Garble ==
  /\ up /\ ~intact'
  /\ IsPrefix(delivered, delivered')
  /\ UNCHANGED sent

ChannelNext == (\E p \in Payloads : Send(p)) \/ Deliver \/ GoDown \/ Garble
ChannelSpec == ChannelInit /\ [][ChannelNext]_channel
=============================================================================
