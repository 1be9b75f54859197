-------------------------- MODULE MCPacketChannel --------------------------
(* Instances of PacketChannel small enough for TLC. *)
EXTENDS PacketChannel, TLC

CONSTANTS client, server

(* Both ends start just below the wrap of the sequence space; the client   *)
(* sends more than its ledger holds and may be reset at any moment.        *)
NearWrap == (client :> 10) @@ (server :> 11)
LongVersusShort == (client :> 4) @@ (server :> 1)
OneReset == (client :> 1) @@ (server :> 0)
=============================================================================
