------------------------------- MODULE MCEdge -------------------------------
(***************************************************************************)
(* A small instance of Edge for TLC: a good token under each key, and one  *)
(* for each thing that can be wrong.                                       *)
(***************************************************************************)
EXTENDS Edge

CONSTANTS k1, k2

Good(k) ==
  [kid |-> k, signer |-> k, alg |-> TRUE, claims |-> TRUE, sub |-> "alice", tenant_id |-> "t1"]
AllTokens ==
  {Good(k1), Good(k2),
   [Good(k1) EXCEPT !.kid = NoKid], [Good(k1) EXCEPT !.signer = k2],
   [Good(k1) EXCEPT !.alg = FALSE], [Good(k1) EXCEPT !.claims = FALSE],
   [Good(k1) EXCEPT !.tenant_id = ""]}

=============================================================================
