--------------------------- MODULE MCUserPrograms ---------------------------
(* Two children, and one program that makes any call. *)
EXTENDS UserPrograms
CONSTANTS m, c, d, f
MCChildren == <<c, d>>
MCBuffers  == {<<>>, <<0, 1>>}
MCNames    == {"output"}
=============================================================================
