--------------------------- MODULE MCBlindSystem ---------------------------
(* TLC instance of BlindSystem; the periods are in MCBlindSystem.cfg. *)
EXTENDS BlindSystem
=============================================================================
