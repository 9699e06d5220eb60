-------------------------------- MODULE MCLab --------------------------------
(***************************************************************************)
(* The laboratory has no parameters: three labs, ten commands of Setup in  *)
(* each, one failure of any kind or several.                               *)
(***************************************************************************)
EXTENDS Lab
=============================================================================
