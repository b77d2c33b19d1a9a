--------------------------- MODULE MCRemoteLight ---------------------------
(* TLC instance of RemoteLight; the bounds are in MCRemoteLight.cfg. *)
EXTENDS RemoteLight
=============================================================================
