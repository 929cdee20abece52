-------------------------------- MODULE Retry --------------------------------
(***************************************************************************)
(* doWithRetry under Embedder.Embed: one HTTP request to an embedding      *)
(* provider, tried again after a transport error, a 429 or a 5xx, with     *)
(* exponential backoff or the wait the provider asked for.                 *)
(***************************************************************************)
EXTENDS Integers

CONSTANTS
    MaxRetries,     \* retryPolicy.maxRetries
    Base,           \* retryPolicy.base
    RetryAfters     \* the waits a provider asks for (0: it names none)

ASSUME RetryAssumption ==
    /\ MaxRetries \in Nat
    /\ Base \in Nat \ {0}
    /\ RetryAfters \subseteq Nat

VARIABLES
    attempt,    \* attempts made so far
    wait,       \* what the last answer asked for, 0 for the backoff
    slept,      \* how long the last sleep was
    failure,    \* how the last attempt failed, with its Retry-After
    request     \* where the request is

retry == <<attempt, wait, slept, failure, request>>

NoFailure == [kind |-> "none", after |-> 0]
Failures == {[kind |-> "transport", after |-> 0]}
              \cup {[kind |-> "busy", after |-> a] : a \in RetryAfters}

RetryTypeOK ==
    /\ attempt \in 0 .. MaxRetries + 1
    /\ wait \in RetryAfters \cup {0}
    /\ slept \in {0} \cup RetryAfters \cup {Base * 2 ^ i : i \in 0 .. MaxRetries - 1}
    /\ failure \in Failures \cup {NoFailure}
    /\ request \in {"idle", "send", "sleep", "ok", "error"}

RetryInit ==
    /\ attempt = 0
    /\ wait = 0
    /\ slept = 0
    /\ failure = NoFailure
    /\ request = "idle"

Renewed(at) ==
    /\ request' = at
    /\ attempt' = 0
    /\ wait' = 0
    /\ slept' = 0
    /\ failure' = NoFailure

StartRequest == Renewed("send")

\* The response is handed back: an answer, or a status the caller reports.
Respond ==
    /\ request = "send"
    /\ attempt' = attempt + 1
    /\ request' \in {"ok", "error"}
    /\ UNCHANGED <<wait, slept, failure>>

\* Base doubled for every retry before this one.
Backoff == Base * 2 ^ (attempt - 1)

\* Mutant: a transport error leaves the wait of an earlier answer standing.
StaleWait(f) == IF f.kind = "busy" THEN f.after ELSE wait

\* How long to wait after a failure: what its own answer asked for, if any.
WaitAfter(f) == f.after

\* A failure worth a retry, or the last one.
AttemptFails(f) ==
    /\ request = "send"
    /\ attempt' = attempt + 1
    /\ failure' = f
    /\ wait' = WaitAfter(f)
    /\ request' = IF attempt < MaxRetries THEN "sleep" ELSE "error"
    /\ UNCHANGED slept

Sleep ==
    /\ request = "sleep"
    /\ slept' = IF wait <= 0 THEN Backoff ELSE wait
    /\ request' = "send"
    /\ UNCHANGED <<attempt, wait, failure>>

\* A cancelled context ends a sleep, or the request itself.
CancelRequest ==
    /\ request \in {"send", "sleep"}
    /\ request' = "error"
    /\ UNCHANGED <<attempt, wait, slept, failure>>

RetryStep == Respond \/ Sleep \/ \E f \in Failures : AttemptFails(f)

-----------------------------------------------------------------------------
\* A retry waits for what the failure right before it asked for, and for its
\* place in the backoff when that failure asked for nothing, so a Retry-After
\* is honoured once and never carried over a transport error; and there are
\* at most MaxRetries of them (retry.go:41-80).
RetryWaitsAsAsked ==
    request = "send" /\ attempt > 0 =>
        /\ attempt <= MaxRetries
        /\ slept = IF failure.kind = "busy" /\ failure.after > 0 THEN failure.after
                   ELSE Base * 2 ^ (attempt - 1)
=============================================================================
