-------------------------------- MODULE MCPs2 --------------------------------
(* The keyboard for TLC: see MCPs2.cfg.                                    *)
EXTENDS Ps2
=============================================================================
