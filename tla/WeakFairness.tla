---------------------------- MODULE WeakFairness ----------------------------
(***************************************************************************)
(* Weak fairness with the guard of the action written out.  The provers do *)
(* not know ENABLED, which is all that WF_v(A) needs besides: where G is   *)
(* the condition under which a step of A that changes v is possible,       *)
(* WeaklyFair(G, A, v) is WF_v(A).                                         *)
(***************************************************************************)
WeaklyFair(G, A, v) == <>[]G => []<><<A>>_v
=============================================================================
