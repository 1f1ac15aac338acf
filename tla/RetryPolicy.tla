---------------------------- MODULE RetryPolicy ----------------------------
(***************************************************************************)
(* The retry decision of src/orchestrator/exec/retry.py.  A policy is a    *)
(* record [max_retries, retryable_codes]; the delay between attempts is    *)
(* wall-clock time and is left out.                                        *)
(***************************************************************************)
EXTENDS Integers

\* The value of a step's `retries` field when the step has none.
NoRetries == -1

\* Exit codes both factories make retryable (subprocess failure, timeout).
DefaultRetryable == {1, 124}

\* RetryPolicy.for_provider: retry 1 and 124 up to max_retries times.
ForProvider(max_retries) ==
    [max_retries |-> max_retries, retryable_codes |-> DefaultRetryable]

\* RetryPolicy.for_command: no retries unless a truthy `retries` config is
\* given (an integer or the `max` of a map; 0 and an absent field are falsy).
ForCommand(retries_config) ==
    IF retries_config \in {NoRetries, 0}
    THEN [max_retries |-> 0, retryable_codes |-> {}]
    ELSE [max_retries |-> retries_config, retryable_codes |-> DefaultRetryable]

\* Mutant of ShouldRetry: retries left while attempt <= max_retries.
ShouldRetryInclusive(policy, exit_code, attempt) ==
    /\ attempt <= policy.max_retries
    /\ exit_code \in policy.retryable_codes

\* RetryPolicy.should_retry: attempt is the 0-based number of the attempt
\* that just finished.
ShouldRetry(policy, exit_code, attempt) ==
    /\ attempt < policy.max_retries
    /\ exit_code \in policy.retryable_codes

=============================================================================
