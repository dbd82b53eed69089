------------------------------ MODULE MCOmciCC ------------------------------
(* Instances of OmciCC for TLC: which transaction identifier each request  *)
(* has.                                                                     *)
EXTENDS OmciCC, TLC

CONSTANTS h1, l1, l2, w1, n1, v1

\* Every request has an identifier of its own.
DistinctTids == [r \in Requests |->
  CASE r = h1 -> 101 [] r = l1 -> 1 [] r = l2 -> 2
    [] r = w1 -> 3 [] r = v1 -> 4 [] OTHER -> 5]

\* The low priority requests share one identifier, as after a wrap of the
\* counter onto an outstanding request.
SharedTids == [r \in Requests |-> IF r \in HighPrio THEN 101 ELSE 1]

\* How many retries the requests have.
NoRetry        == [r \in Requests |-> 0]
OneRetry       == [r \in Requests |-> 1]
OnlyLowRetries == [r \in Requests |-> IF r \in HighPrio THEN 0 ELSE 1]
=============================================================================
