------------------------------ MODULE MCNktFile ------------------------------
(***************************************************************************)
(* Songs of one and two tracks with blocks of up to three cells, some with *)
(* no data.  The disk has room for the largest file, or for any smaller    *)
(* number of cells.                                                        *)
(***************************************************************************)
EXTENDS NktFile

MCSizes == [events : 2..3, data : {0, 2, 3}]
MCSongs == {<<a>> : a \in MCSizes} \cup {<<a, b>> : a \in MCSizes, b \in MCSizes}
=============================================================================
