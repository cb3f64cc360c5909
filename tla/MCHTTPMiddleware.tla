-------------------------- MODULE MCHTTPMiddleware --------------------------
(* Two requests at once, "long" with a handler of several calls, the other *)
(* with one that only returns or panics.  The kinds pair the ways in which *)
(* a request may differ.                                                   *)
EXTENDS HTTPMiddleware

MCKinds ==
    { [untraced |-> FALSE, length |-> 2, http1 |-> TRUE, head |-> FALSE],
      [untraced |-> FALSE, length |-> -1, http1 |-> FALSE, head |-> FALSE],
      [untraced |-> TRUE, length |-> 0, http1 |-> TRUE, head |-> TRUE] }

MCMaxCalls == [r \in Requests |-> IF r = "long" THEN 3 ELSE 0]
=============================================================================
