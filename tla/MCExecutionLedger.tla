------------------------- MODULE MCExecutionLedger -------------------------
(* Instances of ExecutionLedger for TLC. *)
EXTENDS LedgerRefinement, TLC

CONSTANTS e1, e2, e3, w1, w2, o1, o2, s1, a1

\* A policy that retries once, also when the outcome is unknown, and one that
\* never retries.
RetryOnce == [maxAttempts |-> 2, delays |-> <<1>>, retryOnUnknown |-> TRUE]
NoRetry == [maxAttempts |-> 1, delays |-> <<>>, retryOnUnknown |-> FALSE]
MCPolicies == {RetryOnce, NoRetry}
JustRetryOnce == {RetryOnce}
JustNoRetry == {NoRetry}

\* The records of idle slots and requests name an arbitrary execution, which no
\* action reads; so permuting the executions is sound.
Symmetry == Permutations(Executions) \cup Permutations(Workers) \cup Permutations(Operators)
=============================================================================
