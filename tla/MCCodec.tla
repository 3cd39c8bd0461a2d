------------------------------ MODULE MCCodec ------------------------------
(* Two goroutines of the dialer that share its cipher, and one that answers. *)
EXTENDS Codec, TLC
MCEndOf == ("c1" :> "cli") @@ ("c2" :> "cli") @@ ("s" :> "ser")
=============================================================================
