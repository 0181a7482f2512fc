--------------------------- MODULE MC_HeaderEdits ---------------------------
(* Model-checking instance of HeaderEdits: one ordinary field X, the       *)
(* protected Received (R) and a name isValidHeaderName rejects (B).        *)
EXTENDS HeaderEdits

CONSTANTS X, R, B

\* X holds up to two values; Received holds one; B, not a field name, none.
MCMessages ==
  {m \in [Fields -> BoundedSeq(Values, 2)] :
     /\ m[B] = <<>>
     /\ m[R] = <<"a">>}
=============================================================================
