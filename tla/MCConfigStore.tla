--------------------------- MODULE MCConfigStore ---------------------------
(***************************************************************************)
(* Model-checking instance of ConfigStore: configs are model values, c0   *)
(* being the default.  One writer checks crash atomicity of a single       *)
(* store(); two writers check concurrent calls of store().                 *)
(***************************************************************************)
EXTENDS ConfigStore

CONSTANTS w1, w2, c0, c1, c2

OneWriter == {w1}
TwoWriters == {w1, w2}
MCValues == {c0, c1, c2}
=============================================================================
