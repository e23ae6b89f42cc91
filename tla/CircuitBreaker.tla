--------------------------- MODULE CircuitBreaker ---------------------------
(***************************************************************************)
(* The circuit breaker of a platform, shared by all the threads that       *)
(* validate a token of that platform.                                      *)
(*                                                                         *)
(* The breaker holds no lock.  CPython 3.11, which the service runs on,    *)
(* switches threads when a call is made or returns, so the attribute       *)
(* accesses between two calls are one step here: the wrapper up to its     *)
(* call of time.time(), the wrapper after it, record_failure() up to its   *)
(* call of time.time(), record_failure() after it, and reset().            *)
(*                                                                         *)
(* last_failure_time is kept as the time passed since then, and a clock    *)
(* that a thread has read as what it is compared with afterwards.  The code*)
(* only asks whether a difference of times has reached recovery_timeout,   *)
(* and whether the count of failures has reached failure_threshold, so     *)
(* both stop there.                                                        *)
(***************************************************************************)
EXTENDS Naturals

CONSTANTS
    Threads,           \* the threads that call the decorated function
    FailureThreshold,  \* 5 failures
    RecoveryTimeout,   \* 60 seconds, in units of time
    None               \* no last failure

ASSUME BreakerAssumption ==
    /\ FailureThreshold \in Nat \ {0} /\ RecoveryTimeout \in Nat \ {0}
    /\ None \notin Nat

VARIABLES
    state,         \* "closed", "open" or "half-open"
    failureCount,  \* failures since the last reset
    sinceFailure,  \* time since last_failure_time
    pc,            \* pc[t]: what thread t is doing, or how its call ended
    reading        \* reading[t]: the clock that t read last: in record_failure
                   \* the time since then, in the wrapper that between
                   \* last_failure_time and then

breakerVars == <<state, failureCount, sinceFailure, pc, reading>>

Ages  == 0 .. RecoveryTimeout
Ended == {"returned", "raised", "refused", "crashed"}
Rest  == {"idle"} \cup Ended

Older(age) == IF age = RecoveryTimeout THEN age ELSE age + 1
OneMore(n) == IF n = FailureThreshold THEN n ELSE n + 1

BreakerTypeOK ==
    /\ state \in {"closed", "open", "half-open"}
    /\ failureCount \in 0 .. FailureThreshold
    /\ sinceFailure \in Ages \cup {None}
    /\ pc \in [Threads -> Rest \cup {"judging", "running", "recording"}]
    /\ reading \in [Threads -> Ages]

BreakerInit ==
    /\ state = "closed"
    /\ failureCount = 0
    /\ sinceFailure = None
    /\ pc = [t \in Threads |-> "idle"]
    /\ reading = [t \in Threads |-> 0]

Move(t, place) == pc' = [pc EXCEPT ![t] = place]

-----------------------------------------------------------------------------
(* The wrapper.                                                            *)

(* A clock that t read and needs no more.                                  *)
Forget(t) == reading' = [reading EXCEPT ![t] = 0]

(* A call finds the breaker closed or half-open, and runs the function.    *)
CallClosed(t) ==
    /\ pc[t] \in Rest /\ state # "open"
    /\ Move(t, "running")
    /\ UNCHANGED <<state, failureCount, sinceFailure, reading>>

(* It finds the breaker open and reads the clock, to compare the times;    *)
(* without a last failure (which cannot be: OpenIsEarned) it would try the *)
(* service.                                                                *)
CallOpen(t) ==
    /\ pc[t] \in Rest /\ state = "open"
    /\ IF sinceFailure # None
       THEN /\ Move(t, "judging") /\ UNCHANGED state
            /\ reading' = [reading EXCEPT ![t] = sinceFailure]
       ELSE Move(t, "running") /\ state' = "half-open" /\ UNCHANGED reading
    /\ UNCHANGED <<failureCount, sinceFailure>>

(* Mutant: the refusal is itself recorded as a failure.                    *)
RefuseAndRecord(t) ==
    /\ pc[t] = "judging" /\ sinceFailure # None /\ reading[t] < RecoveryTimeout
    /\ sinceFailure' = 0
    /\ Move(t, "refused") /\ Forget(t)
    /\ UNCHANGED <<state, failureCount>>

(* last_failure_time is read again and taken from the clock that was read: *)
(* it was recent then, and the call is refused.                            *)
Refuse(t) ==
    /\ pc[t] = "judging" /\ sinceFailure # None /\ reading[t] < RecoveryTimeout
    /\ Move(t, "refused") /\ Forget(t)
    /\ UNCHANGED <<state, failureCount, sinceFailure>>

(* The recovery timeout has passed: this call tries the service.           *)
Probe(t) ==
    /\ pc[t] = "judging" /\ sinceFailure # None /\ reading[t] = RecoveryTimeout
    /\ state' = "half-open"
    /\ Move(t, "running") /\ Forget(t)
    /\ UNCHANGED <<failureCount, sinceFailure>>

(* It has become None since: the subtraction raises TypeError.             *)
Crash(t) ==
    /\ pc[t] = "judging" /\ sinceFailure = None
    /\ Move(t, "crashed") /\ Forget(t)
    /\ UNCHANGED <<state, failureCount, sinceFailure>>

(* Mutant: reset() forgets the state.                                      *)
ReturnStillOpen(t) ==
    /\ pc[t] = "running"
    /\ failureCount' = 0
    /\ sinceFailure' = None
    /\ Move(t, "returned")
    /\ UNCHANGED <<state, reading>>

(* The function returns: reset().                                          *)
Return(t) ==
    /\ pc[t] = "running"
    /\ failureCount' = 0
    /\ sinceFailure' = None
    /\ state' = "closed"
    /\ Move(t, "returned")
    /\ UNCHANGED reading

(* The function raises: record_failure() counts, and reads the clock.      *)
Raise(t) ==
    /\ pc[t] = "running"
    /\ failureCount' = OneMore(failureCount)
    /\ Move(t, "recording") /\ Forget(t)
    /\ UNCHANGED <<state, sinceFailure>>

(* The time that t read becomes last_failure_time.  Whoever has read the   *)
(* clock to compare it is before that time or soon after it, or, when t has*)
(* been kept from storing it for so long, may be late enough to try.       *)
Date(t) ==
    /\ sinceFailure' = reading[t]
    /\ \E late \in SUBSET {u \in Threads : pc[u] = "judging"} :
          /\ late = {} \/ reading[t] = RecoveryTimeout
          /\ reading' = [u \in Threads |->
                            IF u \in late THEN RecoveryTimeout
                            ELSE IF pc[u] = "judging" \/ u = t THEN 0
                            ELSE reading[u]]

(* Mutant: only a closed breaker is opened.                                *)
RecordWhenClosed(t) ==
    /\ pc[t] = "recording"
    /\ Date(t)
    /\ state' = IF state = "closed" /\ failureCount >= FailureThreshold THEN "open" ELSE state
    /\ Move(t, "raised")
    /\ UNCHANGED failureCount

(* record_failure() stores the time it read and opens the breaker if the   *)
(* count, as it is now, has reached the threshold.                         *)
Record(t) ==
    /\ pc[t] = "recording"
    /\ Date(t)
    /\ state' = IF failureCount >= FailureThreshold THEN "open" ELSE state
    /\ Move(t, "raised")
    /\ UNCHANGED failureCount

-----------------------------------------------------------------------------
BreakerTick ==
    /\ sinceFailure' = IF sinceFailure = None THEN None ELSE Older(sinceFailure)
    /\ reading' = [t \in Threads |-> IF pc[t] = "recording" THEN Older(reading[t])
                                                             ELSE reading[t]]
    /\ UNCHANGED <<state, failureCount, pc>>

Call(t)  == CallClosed(t) \/ CallOpen(t)
Judge(t) == Refuse(t) \/ Probe(t) \/ Crash(t)

BreakerNext ==
    \/ BreakerTick
    \/ \E t \in Threads : Call(t) \/ Judge(t) \/ Return(t) \/ Raise(t) \/ Record(t)

(* Threads that are in the breaker go on, and time passes.  Nobody has to  *)
(* call, and the function need not end.                                    *)
BreakerFairness ==
    /\ WF_breakerVars(BreakerTick)
    /\ \A t \in Threads : WF_breakerVars(Judge(t)) /\ WF_breakerVars(Record(t))

BreakerSpec == BreakerInit /\ [][BreakerNext]_breakerVars /\ BreakerFairness

-----------------------------------------------------------------------------
(* Properties.                                                             *)

(* An open breaker has counted its failures and knows when the last one    *)
(* was: no success that ends meanwhile leaves it open with its count or    *)
(* its date taken away, which would have the next call let through and the *)
(* failure of that call forgotten.                                         *)
OpenIsEarned == state = "open" => failureCount = FailureThreshold /\ sinceFailure # None

(* A breaker that has counted up to the threshold is open, or somebody it  *)
(* let in is still under way and will open or reset it: whoever fails last *)
(* opens it.  Two threads that fail at once may store their times in the   *)
(* wrong order, but the opening is not lost, and no failed probe leaves    *)
(* the breaker half-open for everyone.                                     *)
FailuresOpen ==
    failureCount = FailureThreshold /\ state # "open" =>
        \E t \in Threads : pc[t] \in {"running", "recording"}

(* Callers that keep finding the breaker open find it let one of them      *)
(* through in the end: neither their refusals nor the failures of calls    *)
(* that were under way put the recovery off for ever.                      *)
OpenGivesWay ==
    []<>(\E t \in Threads : pc[t] = "judging") => []<>(state # "open")
=============================================================================
