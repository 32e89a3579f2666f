---------------------------- MODULE MCNktPlayer ----------------------------
(***************************************************************************)
(* The song of MCNktSingle, a volume that a GM device has and an MT-32     *)
(* refuses (the default is one that both have), and a balance off the      *)
(* centre.                                                                 *)
(***************************************************************************)
EXTENDS MCNktSingle, NktPlayer

MCVolumes  == {120}
MCBalances == {90}
=============================================================================
