------------------------------- MODULE MCFts -------------------------------
(* Three records: a full buffer and a rest, exactly a buffer, one packet;  *)
(* two of them; and a single one for the instance with late answers.       *)
EXTENDS Fts

MCSizes    == <<5, 3, 1>>
MCTwoSizes == <<5, 3>>
MCOneSize  == <<3>>
=============================================================================
