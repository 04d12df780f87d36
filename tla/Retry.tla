------------------------------- MODULE Retry --------------------------------
(***************************************************************************)
(* Retrying calls that leave the process (app/core/retry.py), as the       *)
(* vector store client uses it (ChromaVectorStore._invoke).  A backoff is  *)
(* a pause of unspecified length.                                          *)
(***************************************************************************)
EXTENDS Naturals

CONSTANTS
    retry_attempts \* settings.resilience.retry_attempts

ASSUME RetryAssumption == retry_attempts \in Nat \ {0}

(* How a call of the store can fail: it cannot be reached, or answers that *)
(* the request will not do.                                                *)
StoreErrors == {"outage", "rejection"}

AppErrors == {"ConfigurationError", "NotFoundError", "ValidationError", "DependencyError"}

TRANSIENT_ERRORS == {"DependencyError", "ConnectionError", "TimeoutError", "OSError"}

(* An application error other than DependencyError is wrong in itself.     *)
is_transient(error) ==
    IF error \in AppErrors THEN error = "DependencyError" ELSE error \in TRANSIENT_ERRORS

(* ChromaVectorStore._invoke: whatever the client raises is wrapped before *)
(* with_retry sees it.                                                     *)
Wrapped(error) == "DependencyError"

(* with_retry: whether the error of this attempt is the caller's. *)
Reraises(attempt, error) == attempt >= retry_attempts \/ ~is_transient(error)

(* A claim the code does not keep: "Rejections are not retried" (README.md *)
(* and the docstring of _invoke).  Wrapped, a rejection is as transient as *)
(* anything else.                                                          *)
RejectionsAreNotRetried ==
    \A attempt \in 1 .. retry_attempts : Reraises(attempt, Wrapped("rejection"))
=============================================================================
