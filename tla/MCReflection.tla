---------------------------- MODULE MCReflection ----------------------------
(***************************************************************************)
(* Small instances of Reflection: two passes over two incidents of two     *)
(* types, in two weeks of one year, and one reviewer.                      *)
(***************************************************************************)
EXTENDS Reflection, TLC

CONSTANTS i1, i2, airquality, thermal, p1, p2, w1, w2

MCTypeOf == (i1 :> airquality) @@ (i2 :> thermal)
MCYearOf == [w \in Weeks |-> 2026]

(* The incidents are exchanged together with their types. *)
Swap == (i1 :> i2) @@ (i2 :> i1) @@ (airquality :> thermal) @@ (thermal :> airquality)
Symmetry == Permutations({p1, p2}) \cup Permutations({w1, w2}) \cup {Swap}
=============================================================================
