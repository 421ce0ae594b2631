--------------------------- MODULE MCOutboundPool ---------------------------
(* Two pools that share members, in different orders. *)
EXTENDS OutboundPool, TLC
MCOutbounds == "p" :> <<"a", "b">> @@ "q" :> <<"b", "a">>
=============================================================================
