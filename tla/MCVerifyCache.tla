--------------------------- MODULE MCVerifyCache ---------------------------
(***************************************************************************)
(* Four tokens: a JWT, an opaque token that outlives the cap, one whose    *)
(* provider does not say when it expires, and one minted for some other    *)
(* service.                                                                *)
(***************************************************************************)
EXTENDS VerifyCache, TLC

CONSTANTS signed, opaque, silent, foreign

Expiries == [t \in Token |-> IF t = silent THEN None ELSE IF t = opaque THEN 3 ELSE 2]
Symmetry == Permutations(Request)
=============================================================================
