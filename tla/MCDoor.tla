-------------------------------- MODULE MCDoor --------------------------------
(* Two gates whose clocks are one unit apart, two puzzles, two submissions. *)
EXTENDS Door, TLC

MCAhead == "g1" :> 0 @@ "g2" :> 1
===============================================================================
