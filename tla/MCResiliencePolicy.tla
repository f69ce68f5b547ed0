------------------------- MODULE MCResiliencePolicy -------------------------
(* An instance of ResiliencePolicy for TLC: three callers over one slot,   *)
(* so that two can wait at once, a threshold two attempts reach and one    *)
(* half-open probe.                                                        *)
EXTENDS ResiliencePolicy
=============================================================================
