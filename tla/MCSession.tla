----------------------------- MODULE MCSession -----------------------------
(***************************************************************************)
(* Model-checking instance of Session.  Two stream ids and two worker      *)
(* slots let a closed stream's worker still drain while its id is reused; *)
(* a mailbox of 1 (2 for the run without a timeout) and a single permit  *)
(* make full mailboxes, a waiting connection factory and a permit kept by *)
(* a detached cursor task reachable;                                       *)
(* a store of one SQL text is full after one StoreSql.                     *)
(***************************************************************************)
EXTENDS Session

CONSTANTS s1, s2, k1, q1, q2

MCStreamIds == {s1, s2}
MCCursorIds == {k1}
MCSqlIds == {q1, q2}
=============================================================================
