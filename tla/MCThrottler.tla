---------------------------- MODULE MCThrottler ----------------------------
(* Instances of Throttler for TLC.                                         *)
EXTENDS Throttler, TLC

OneAccount == { << "acct" >> }
NoAction == {}
OneAction == { << "Get" >> }

(* A token every two units of time, one at most saved up; and a bucket     *)
(* that never lets a request through.                                      *)
Slow == [interval |-> 2, burst |-> 1]
Closed == [interval |-> 1, burst |-> 0]

NoOverride == [a \in {} |-> Slow]
GetClosed == << "Get" >> :> Closed

Symmetry == Permutations(Requests) \cup Permutations(Limiters)
=============================================================================
