---------------------------- MODULE MCCircuitBreaker ---------------------------
(* A small instance of CircuitBreaker for TLC: a host that is enrolled by  *)
(* default, with one path that may get a circuit of its own, and a host    *)
(* that is not guarded.                                                    *)
EXTENDS CircuitBreaker

CONSTANTS root, sub, none, subscribe, generate, portal

MCTargets == {subscribe, generate, portal}
MCKeys == {root, sub}
MCExact == [r \in MCTargets |-> IF r = subscribe THEN sub ELSE none]
MCCovers == [k \in MCKeys |-> IF k = root THEN {subscribe, generate} ELSE {subscribe}]
MCDefaultKey == [r \in MCTargets |-> IF r = portal THEN none ELSE root]

===============================================================================
