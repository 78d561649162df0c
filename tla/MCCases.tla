-------------------------------- MODULE MCCases --------------------------------
(* Instances of the operations cases for TLC. *)
EXTENDS CasesProperties, TLC

CONSTANTS c1, c2, l1, l2, e1, e2, k1

Symmetry == Permutations({c1, c2}) \cup Permutations({l1, l2}) \cup Permutations({e1, e2})

Handled == \E c \in Case : version[c] > 1
FormOpen == \E k \in Form : formCase[k] # NoCase

\* A bound: no edit begins once a case is handled, a form is open or an edit has
\* written over another one, and the last is not followed by the others; one case is
\* handled, and recipes come then; one approval is pending, and none then.
InTurn ==
  /\ raced \/ Handled \/ FormOpen => \A r \in Edit : editPhase[r] = "idle"
  /\ Handled \/ FormOpen => ~raced /\ asks = {}
  /\ Handled \/ known = {}
  /\ \A c, d \in Case : version[c] > 1 /\ version[d] > 1 => c = d
  /\ Cardinality(asks) <= 1
=============================================================================
