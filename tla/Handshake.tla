----------------------------- MODULE Handshake ------------------------------
(***************************************************************************)
(* What an endpoint decides when it has the parameters of its peer: the     *)
(* role it takes, and whether the early data it sent stands (the traces     *)
(* core.handshake.*, ext.role.* and compat.* of tools/build_traces.py).     *)
(*                                                                         *)
(* A configuration says of an endpoint: ack, it announces zmux_pipe_ack, as *)
(* zmux endpoints do and plain QMux peers do not; role, the zmux_role it    *)
(* sends, [kind, nonce] with kind "none" if it sends none; early, it may    *)
(* send early data; room, what its limits leave for early data ("none" for  *)
(* no bidirectional streams, "below" the floor, or "floor").                *)
(***************************************************************************)
EXTENDS Integers, FiniteSets

Opposite(r) == IF r = "initiator" THEN "responder" ELSE "initiator"

\* Faulty variant: a role left to the peer falls back to the transport role.
ResolveAuto(own, peer, transport) ==
  CASE own.kind = "auto" \/ own.kind = "none" -> transport
    [] OTHER -> own.kind

(* The role of an endpoint whose transport role is transport, or "conflict". *)
(* Roles are negotiated only if both sent one.                               *)
Resolve(own, peer, transport) ==
  IF "none" \in {own.kind, peer.kind}
  THEN IF own.kind = Opposite(transport) THEN "conflict" ELSE transport
  ELSE CASE own.kind = "auto" /\ peer.kind = "auto" ->
              IF own.nonce = peer.nonce THEN "conflict"
              ELSE IF own.nonce > peer.nonce THEN "initiator" ELSE "responder"
         [] own.kind = "auto" /\ peer.kind # "auto" -> Opposite(peer.kind)
         [] own.kind # "auto" /\ peer.kind = "auto" -> own.kind
         [] OTHER -> IF own.kind = peer.kind THEN "conflict" ELSE own.kind

\* Acknowledgement is in use if both endpoints announced it.
AckInUse(own, peer) == own.ack /\ peer.ack

\* An endpoint whose role depends on the peer sends no early data.
MayBeEarly(own, transport) == own.early /\ own.role.kind \in {"none", transport}

\* The peer stops at the fence, or at the first STREAM frame.
EarlyRejected(own, peer) == ~AckInUse(own, peer) \/ peer.room = "none"

(* The errors an endpoint finds in the parameters of its peer; which of      *)
(* several it reports is left open.                                          *)
Objections(own, peer, transport, early) ==
  {code \in {"ZMUX_ROLE_CONFLICT", "EARLY_DATA_REJECTED", "TRANSPORT_PARAMETER_ERROR"} :
     CASE code = "ZMUX_ROLE_CONFLICT" -> Resolve(own.role, peer.role, transport) = "conflict"
       [] code = "EARLY_DATA_REJECTED" -> early /\ EarlyRejected(own, peer)
       [] OTHER -> early /\ ~EarlyRejected(own, peer) /\ peer.room = "below"}

\* The code of the CONNECTION_CLOSE an error is announced with.
Wire(code) == CASE code = "EARLY_DATA_REJECTED" -> "NO_ERROR"
                [] code = "IDLE_TIMEOUT" -> "ZMUX_IDLE_TIMEOUT"
                [] OTHER -> code
=============================================================================
