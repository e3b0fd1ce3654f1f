-------------------------- MODULE MCDoubleRatchet --------------------------
(***************************************************************************)
(* Bounds for model checking DoubleRatchet.  Three chains of Alice with a  *)
(* skipped message each overflow a key buffer of two chains; they take six *)
(* messages of hers and two of Bob's in between.                           *)
(***************************************************************************)
EXTENDS DoubleRatchet

SendsFew == [p \in Party |-> 4]

SendsMany == [p \in Party |-> IF p = Alice THEN 6 ELSE 4]
=============================================================================
