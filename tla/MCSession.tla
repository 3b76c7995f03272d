----------------------------- MODULE MCSession ------------------------------
(***************************************************************************)
(* Instances of Session for TLC.  A zmux endpoint, a plain peer, and pairs   *)
(* of configurations for every outcome of the handshake.                     *)
(***************************************************************************)
EXTENDS Session

Role(kind, nonce) == [kind |-> kind, nonce |-> nonce]
NoRole == Role("none", 0)

Zmux == [ack |-> TRUE, role |-> NoRole, early |-> FALSE, room |-> "floor",
         idle |-> 5, keepAlive |-> 4, app |-> {}]
Quiet == [Zmux EXCEPT !.idle = 6, !.keepAlive = 0]
Plain == [Quiet EXCEPT !.ack = FALSE, !.room = "below"]
Early == [Zmux EXCEPT !.early = TRUE, !.keepAlive = 0]
As(kind, nonce) == [Quiet EXCEPT !.role = Role(kind, nonce)]

Handshakes ==
  {<<Early, Quiet>>, <<Early, Plain>>, <<Early, [Quiet EXCEPT !.room = "none"]>>,
   <<Early, [Quiet EXCEPT !.room = "below"]>>,
   <<As("auto", 1), As("auto", 2)>>, <<As("auto", 1), As("auto", 1)>>,
   <<As("auto", 1), As("initiator", 0)>>, <<As("responder", 0), As("auto", 1)>>,
   <<As("responder", 0), Quiet>>, <<As("initiator", 0), As("initiator", 0)>>}

Does(c, app) == [c EXCEPT !.app = app]

Sessions ==
  {<<Does(Zmux, {"data"}), Does(Quiet, {"ping"})>>,
   <<Does(Zmux, {"ping"}), Does(Quiet, {"ping"})>>,
   <<Does(Zmux, {}), Does(Zmux, {"data"})>>,
   <<Does(Zmux, {"data", "close"}), Does(Quiet, {"close"})>>,
   <<Does(Quiet, {"data"}), Does(Quiet, {"data", "close"})>>,
   <<Does(Plain, {"data"}), Does(Zmux, {"ping"})>>,
   <<Does(Zmux, {}), Does(Plain, {"data", "close"})>>}

Endless(c) == [c EXCEPT !.idle = 0]

\* Sessions without an idle timeout.
Unlimited ==
  {<<Endless(Does(Zmux, {"data"})), Endless(Does(Quiet, {"ping", "close"}))>>,
   <<Endless(Does(Plain, {"data"})), Endless(Does(Zmux, {}))>>}

MCConfigs == Handshakes \union Sessions \union Unlimited
=============================================================================
