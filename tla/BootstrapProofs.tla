-------------------------- MODULE BootstrapProofs --------------------------
(* Proofs about CircuitBreaker, for any threads, threshold and recovery    *)
(* timeout, and about Bootstrap, which uses it, for any requests, policies,*)
(* page size and number of attempts.                                       *)
EXTENDS Bootstrap, TLAPS

-----------------------------------------------------------------------------
(* The breaker.  Fairness plays no part in what is proved of it, so that   *)
(* the requests of Bootstrap need only take its steps to inherit it all.   *)
BreakerSafety == BreakerInit /\ [][BreakerNext]_breakerVars

(* An age stays within its bound, and so does the count.                   *)
LEMMA OlderType ==
    ASSUME NEW age \in Ages
    PROVE  Older(age) \in Ages
BY BreakerAssumption DEF Older, Ages

LEMMA OneMoreType ==
    ASSUME NEW n \in 0 .. FailureThreshold
    PROVE  OneMore(n) \in 0 .. FailureThreshold
BY BreakerAssumption DEF OneMore

(* Its attributes and the threads' places keep their types at every step.  *)
LEMMA BreakerTypes == BreakerTypeOK /\ [BreakerNext]_breakerVars => BreakerTypeOK'
<1> SUFFICES ASSUME BreakerTypeOK, [BreakerNext]_breakerVars PROVE BreakerTypeOK'
  OBVIOUS
<1> USE BreakerAssumption DEF BreakerTypeOK, Move
<1>1. ASSUME NEW t \in Threads, Call(t) PROVE BreakerTypeOK'
  BY <1>1 DEF Call, CallClosed, CallOpen
<1>2. ASSUME NEW t \in Threads, Judge(t) PROVE BreakerTypeOK'
  BY <1>2 DEF Judge, Refuse, Probe, Crash, Forget, Ages, Rest, Ended
<1>3. ASSUME NEW t \in Threads, Return(t) PROVE BreakerTypeOK'
  BY <1>3 DEF Return, Rest, Ended
<1>4. ASSUME NEW t \in Threads, Raise(t) PROVE BreakerTypeOK'
  BY <1>4, OneMoreType DEF Raise, Forget, Ages
<1>5. ASSUME NEW t \in Threads, Record(t) PROVE BreakerTypeOK'
  <2>1. Date(t)
    BY <1>5 DEF Record
  <2>2. reading' \in [Threads -> Ages] /\ sinceFailure' \in Ages
    BY <2>1 DEF Date, Ages
  <2>3. QED
    BY <1>5, <2>2 DEF Record, Rest, Ended
<1>6. CASE BreakerTick
  <2>1. sinceFailure' \in Ages \cup {None}
    BY <1>6, OlderType DEF BreakerTick
  <2>2. reading' \in [Threads -> Ages]
    BY <1>6, OlderType DEF BreakerTick
  <2>3. QED
    BY <1>6, <2>1, <2>2 DEF BreakerTick
<1>7. CASE UNCHANGED breakerVars
  BY <1>7 DEF breakerVars
<1>8. QED
  BY <1>1, <1>2, <1>3, <1>4, <1>5, <1>6, <1>7 DEF BreakerNext

LEMMA BreakerTypesInit == BreakerInit => BreakerTypeOK
BY BreakerAssumption DEF BreakerInit, BreakerTypeOK, Rest, Ages

(* Type correctness: whatever the threads do, the breaker's attributes and *)
(* the threads' places are of their types.                                 *)
THEOREM BreakerTypeInvariant == BreakerSafety => []BreakerTypeOK
BY BreakerTypesInit, BreakerTypes, PTL DEF BreakerSafety

(* An open breaker has its count and its date, however a success and the   *)
(* two steps of a failure interleave.                                      *)
THEOREM OpenIsAlwaysEarned == BreakerSafety => []OpenIsEarned
<1>1. BreakerInit => OpenIsEarned
  BY DEF BreakerInit, OpenIsEarned
<1>2. BreakerTypeOK /\ OpenIsEarned /\ [BreakerNext]_breakerVars => OpenIsEarned'
  <2> SUFFICES ASSUME BreakerTypeOK, OpenIsEarned, [BreakerNext]_breakerVars PROVE OpenIsEarned'
    OBVIOUS
  <2> USE BreakerAssumption DEF BreakerTypeOK, OpenIsEarned
  <2>1. ASSUME NEW t \in Threads, Call(t) PROVE OpenIsEarned'
    BY <2>1 DEF Call, CallClosed, CallOpen
  <2>2. ASSUME NEW t \in Threads, Judge(t) PROVE OpenIsEarned'
    BY <2>2 DEF Judge, Refuse, Probe, Crash
  <2>3. ASSUME NEW t \in Threads, Return(t) PROVE OpenIsEarned'
    BY <2>3 DEF Return
  <2>4. ASSUME NEW t \in Threads, Raise(t) PROVE OpenIsEarned'
    BY <2>4 DEF Raise, OneMore
  <2>5. ASSUME NEW t \in Threads, Record(t) PROVE OpenIsEarned'
    <3>1. sinceFailure' # None
      BY <2>5 DEF Record, Date, Ages
    <3>2. QED
      BY <2>5, <3>1 DEF Record
  <2>6. CASE BreakerTick
    <3>1. sinceFailure # None => sinceFailure' # None
      BY <2>6, OlderType DEF BreakerTick, Ages
    <3>2. QED
      BY <2>6, <3>1 DEF BreakerTick
  <2>7. CASE UNCHANGED breakerVars
    BY <2>7 DEF breakerVars
  <2>8. QED
    BY <2>1, <2>2, <2>3, <2>4, <2>5, <2>6, <2>7 DEF BreakerNext
<1>3. QED
  BY <1>1, <1>2, BreakerTypeInvariant, PTL DEF BreakerSafety

(* A breaker at its threshold is open, or will be decided by a thread that *)
(* is in it: no opening is lost between two threads.                       *)
THEOREM NoOpeningIsLost == BreakerSafety => []FailuresOpen
<1> DEFINE Inside(t) == pc[t] \in {"running", "recording"}
<1>1. BreakerInit => FailuresOpen
  BY BreakerAssumption DEF BreakerInit, FailuresOpen
<1>2. BreakerTypeOK /\ FailuresOpen /\ [BreakerNext]_breakerVars => FailuresOpen'
  <2> SUFFICES ASSUME BreakerTypeOK, FailuresOpen, [BreakerNext]_breakerVars,
                      failureCount' = FailureThreshold, state' # "open"
               PROVE  \E t \in Threads : Inside(t)'
    BY DEF FailuresOpen
  <2> USE BreakerAssumption DEF BreakerTypeOK, Move
  <2>1. ASSUME NEW t \in Threads, CallClosed(t) \/ Probe(t) \/ Raise(t)
        PROVE  Inside(t)'
    BY <2>1 DEF CallClosed, Probe, Raise
  <2>2. ASSUME NEW t \in Threads, CallOpen(t) \/ Refuse(t) \/ Crash(t)
        PROVE  \E u \in Threads : Inside(u)'
    <3> SUFFICES ASSUME ~Inside(t)'
                 PROVE  \E u \in Threads : Inside(u)'
      OBVIOUS
    <3>1. failureCount = FailureThreshold /\ state # "open"
      BY <2>2 DEF CallOpen, Refuse, Crash
    <3>2. PICK u \in Threads : Inside(u)
      BY <3>1 DEF FailuresOpen
    <3>3. pc[t] \notin {"running", "recording"}
      BY <2>2 DEF CallOpen, Refuse, Crash, Rest, Ended
    <3>4. Inside(u)'
      BY <2>2, <3>2, <3>3 DEF CallOpen, Refuse, Crash
    <3>5. QED
      BY <3>4
  <2>3. ASSUME NEW t \in Threads, Return(t) PROVE FALSE
    BY <2>3 DEF Return
  <2>4. ASSUME NEW t \in Threads, Record(t) PROVE FALSE
    BY <2>4 DEF Record
  <2>5. CASE BreakerTick \/ UNCHANGED breakerVars
    BY <2>5 DEF BreakerTick, breakerVars, FailuresOpen
  <2>6. QED
    BY <2>1, <2>2, <2>3, <2>4, <2>5 DEF BreakerNext, Call, Judge
<1>3. QED
  BY <1>1, <1>2, BreakerTypeInvariant, PTL DEF BreakerSafety

-----------------------------------------------------------------------------
(* What a request has shown once it is past the validation, and once it    *)
(* has a policy.                                                           *)
Validated(r) ==
    /\ token[r] # BadToken
    /\ platform[r] = "cloud" => pc[r] = "returned"

Permitted(r) == Validated(r) /\ found[r] \in Rows /\ IsFor(found[r], r)

RequestsInOrder ==
    \A r \in Requests :
        /\ step[r] = "lookup" => Validated(r)
        /\ step[r] = "create" => Permitted(r)

AgentsInOrder ==
    /\ \A a \in agents : a.request \in Requests /\ step[a.request] = "answered"
    /\ AgentsArePermitted

Places ==
    /\ step \in [Requests -> {"idle", "validate", "lookup", "create", "answered"}]
    /\ platform \in [Requests -> Platforms \cup {None}]
    /\ found \in [Requests -> Rows \cup {None}]
    /\ pc \in [Requests -> Rest \cup {"judging", "running", "recording"}]
    /\ policies \subseteq Rows

Inv == Places /\ RequestsInOrder /\ AgentsInOrder

(* A step that moves one request, and keeps what it has shown, keeps the   *)
(* others in order, and the agents.                                        *)
LEMMA OthersKeep ==
    ASSUME Inv, Places', NEW r \in Requests,
           step[r] # "answered",
           UNCHANGED <<token, agents>>,
           \A q \in Requests \ {r} :
               /\ step'[q] = step[q] /\ platform'[q] = platform[q]
               /\ found'[q] = found[q] /\ pc'[q] = pc[q],
           step'[r] = "lookup" => Validated(r)',
           step'[r] = "create" => Permitted(r)'
    PROVE  Inv'
<1> USE DEF Validated, Permitted, IsFor
<1>1. RequestsInOrder'
  BY DEF Inv, RequestsInOrder
<1>2. AgentsInOrder'
  <2>1. \A a \in agents : a.request \in Requests \ {r}
    BY DEF Inv, AgentsInOrder
  <2>2. QED
    BY <2>1 DEF Inv, AgentsInOrder, AgentsArePermitted
<1>3. QED
  BY <1>1, <1>2 DEF Inv

LEMMA InvInit == Init => Inv
BY DEF Init, Inv, Places, RequestsInOrder, AgentsInOrder, AgentsArePermitted,
       BreakerInit, Rest, Requests

LEMMA InvStep == Inv /\ [Next]_vars => Inv'
<1> SUFFICES ASSUME Inv, [Next]_vars PROVE Inv'
  OBVIOUS
<1> USE DEF Goto, Answer, requestVars, breakerVars
<1>1. CASE CreatePolicy \/ UpdatePolicy \/ DeletePolicy
  BY <1>1 DEF CreatePolicy, UpdatePolicy, DeletePolicy, Inv, Places, RequestsInOrder,
              AgentsInOrder, AgentsArePermitted, Validated, Permitted, IsFor
<1>2. ASSUME NEW r \in Requests, BootstrapElsewhere(r) PROVE Inv'
  <2>1. Places'
    BY <1>2 DEF BootstrapElsewhere, Inv, Places
  <2>2. QED
    BY <1>2, <2>1, OthersKeep DEF BootstrapElsewhere, Inv, Places
<1>3. ASSUME NEW r \in Requests, ValidateDocker(r) PROVE Inv'
  <2>1. Places'
    BY <1>3 DEF ValidateDocker, Inv, Places, Platforms
  <2>2. /\ platform'[r] = "docker" /\ step[r] = "idle" /\ step'[r] # "create"
        /\ step'[r] = "lookup" => token'[r] # BadToken
    BY <1>3 DEF ValidateDocker, Inv, Places
  <2>3. QED
    BY <1>3, <2>1, <2>2, OthersKeep DEF ValidateDocker, Inv, Places, Validated
<1>4. ASSUME NEW r \in Requests, EnterValidator(r) PROVE Inv'
  <2>1. Places'
    BY <1>4 DEF EnterValidator, Call, CallClosed, CallOpen,
                Move, Rest, Inv, Places, Platforms
  <2>2. \A q \in Requests \ {r} : pc'[q] = pc[q]
    BY <1>4 DEF EnterValidator, Call, CallClosed, CallOpen,
                Move, Inv, Places
  <2>3. QED
    BY <1>4, <2>1, <2>2, OthersKeep DEF EnterValidator, Inv, Places
<1>5. ASSUME NEW r \in Requests, PassBreaker(r) PROVE Inv'
  <2>1. /\ pc' \in [Requests -> Rest \cup {"judging", "running", "recording"}]
        /\ \A q \in Requests \ {r} : pc'[q] = pc[q]
    BY <1>5 DEF PassBreaker, Judge, Refuse, Probe, Crash,
                Move, Rest, Ended, Inv, Places
  <2>2. Places'
    BY <1>5, <2>1 DEF PassBreaker, Inv, Places
  <2>3. QED
    BY <1>5, <2>1, <2>2, OthersKeep DEF PassBreaker, Inv, Places
<1>6. ASSUME NEW r \in Requests, Retry(r) PROVE Inv'
  <2>1. Places'
    BY <1>6 DEF Retry, Inv, Places
  <2>2. QED
    BY <1>6, <2>1, OthersKeep DEF Retry, AttemptFails, Inv, Places
<1>7. ASSUME NEW r \in Requests, GiveUp(r) PROVE Inv'
  <2>1. Places' /\ \A q \in Requests \ {r} : pc'[q] = pc[q]
    BY <1>7 DEF GiveUp, Raise, Move, Inv, Places
  <2>2. QED
    BY <1>7, <2>1, OthersKeep DEF GiveUp, AttemptFails, Inv, Places
<1>8. ASSUME NEW r \in Requests, ReportFailure(r) PROVE Inv'
  <2>1. Places' /\ \A q \in Requests \ {r} : pc'[q] = pc[q]
    BY <1>8 DEF ReportFailure, Record, Move, Rest, Ended,
                Inv, Places
  <2>2. QED
    BY <1>8, <2>1, OthersKeep DEF ReportFailure, Inv, Places
<1>9. ASSUME NEW r \in Requests, AttemptSucceeds(r) PROVE Inv'
  <2>1. Places' /\ \A q \in Requests \ {r} : pc'[q] = pc[q]
    BY <1>9 DEF AttemptSucceeds, Return, Move, Rest, Ended,
                Inv, Places
  <2>2. Validated(r)'
    BY <1>9 DEF AttemptSucceeds, Return, Move, Inv, Places, Validated
  <2>3. QED
    BY <1>9, <2>1, <2>2, OthersKeep DEF AttemptSucceeds, Inv, Places
<1>10. ASSUME NEW r \in Requests, FindMatchingPolicy(r) PROVE Inv'
  <2>1. Places'
    BY <1>10 DEF FindMatchingPolicy, Pages, Inv, Places
  <2>2. Validated(r)
    BY <1>10 DEF FindMatchingPolicy, Inv, RequestsInOrder
  <2>3. step'[r] = "create" => Permitted(r)'
    <3>1. step'[r] = "create" => found'[r] \in Rows /\ IsFor(found'[r], r)
      BY <1>10 DEF FindMatchingPolicy, Pages, Inv, Places, IsFor
    <3>2. QED
      BY <1>10, <2>2, <3>1 DEF FindMatchingPolicy, Permitted, Validated, IsFor
  <2>4. step'[r] # "lookup"
    BY <1>10 DEF FindMatchingPolicy, Inv, Places
  <2>5. QED
    BY <1>10, <2>1, <2>3, <2>4, OthersKeep DEF FindMatchingPolicy, Inv, Places
<1>11. ASSUME NEW r \in Requests, CreateAgent(r) PROVE Inv'
  <2>1. Places' /\ step'[r] = "answered"
    BY <1>11 DEF CreateAgent, Inv, Places
  <2>2. RequestsInOrder'
    BY <1>11, <2>1 DEF CreateAgent, Inv, Places, RequestsInOrder, Validated, Permitted, IsFor
  <2>3. Permitted(r)
    BY <1>11 DEF CreateAgent, Inv, RequestsInOrder
  <2>4. UNCHANGED <<token, platform, found, pc>>
    BY <1>11 DEF CreateAgent
  <2>5. \A a \in agents : a.request \in Requests \ {r}
    BY <1>11 DEF CreateAgent, Inv, AgentsInOrder
  <2>6. \A q \in Requests \ {r} : step'[q] = step[q]
    BY <1>11 DEF CreateAgent, Inv, Places
  <2> DEFINE row == [request |-> r, name |-> found[r].name]
  <2>7. row.request = r /\ row.name = found[r].name
    OBVIOUS
  <2> HIDE DEF row
  <2>8. \A a \in agents' : a \in agents \/ a = row
    BY <1>11 DEF CreateAgent, row
  <2>9. \A a \in agents' : a.request \in Requests /\ step'[a.request] = "answered"
    BY <2>1, <2>5, <2>6, <2>7, <2>8 DEF Inv, AgentsInOrder
  <2>10. AgentsArePermitted'
    <3> SUFFICES ASSUME NEW a \in agents'
                 PROVE  /\ token'[a.request] # BadToken
                        /\ platform'[a.request] = "cloud" => pc'[a.request] = "returned"
                        /\ found'[a.request].platform = platform'[a.request]
                        /\ found'[a.request].selector = token'[a.request]
                        /\ a.name = found'[a.request].name
      BY DEF AgentsArePermitted, IsFor
    <3>1. CASE a \in agents
      BY <2>4, <3>1 DEF Inv, AgentsInOrder, AgentsArePermitted, IsFor
    <3>2. CASE a = row
      BY <2>3, <2>4, <2>7, <3>2 DEF Permitted, Validated, IsFor
    <3>3. QED
      BY <2>8, <3>1, <3>2
  <2>11. QED
    BY <2>1, <2>2, <2>9, <2>10 DEF Inv, AgentsInOrder
<1>12. CASE Tick \/ UNCHANGED vars
  BY <1>12 DEF Tick, BreakerTick, vars, Inv, Places, RequestsInOrder, AgentsInOrder,
               AgentsArePermitted, Validated, Permitted, IsFor
<1>13. QED
  BY <1>1, <1>2, <1>3, <1>4, <1>5, <1>6, <1>7, <1>8, <1>9, <1>10, <1>11, <1>12
     DEF Next, Serve

(* No agent without an attested identity and a policy for exactly that     *)
(* identity, however requests and changes of the policies interleave.      *)
THEOREM AgentsAreAlwaysPermitted == Spec => []AgentsArePermitted
<1>1. Inv => AgentsArePermitted
  BY DEF Inv, AgentsInOrder
<1>2. QED
  BY <1>1, InvInit, InvStep, PTL DEF Spec

-----------------------------------------------------------------------------
(* The requests use the breaker as CircuitBreaker specifies it: every step *)
(* is a step of the breaker or leaves it alone.                            *)
LEMMA StepsOfTheBreaker == [Next]_vars => [BreakerNext]_breakerVars
<1> SUFFICES ASSUME [Next]_vars
             PROVE  BreakerNext \/ UNCHANGED breakerVars
  BY DEF breakerVars
<1>1. CASE CreatePolicy \/ UpdatePolicy \/ DeletePolicy
  BY <1>1 DEF CreatePolicy, UpdatePolicy, DeletePolicy
<1>2. ASSUME NEW r \in Requests,
             BootstrapElsewhere(r) \/ ValidateDocker(r) \/ Retry(r)
                 \/ FindMatchingPolicy(r) \/ CreateAgent(r)
      PROVE  UNCHANGED breakerVars
  BY <1>2 DEF BootstrapElsewhere, ValidateDocker, Retry, FindMatchingPolicy, CreateAgent
<1>3. ASSUME NEW r \in Requests,
             EnterValidator(r) \/ PassBreaker(r) \/ GiveUp(r) \/ ReportFailure(r)
                 \/ AttemptSucceeds(r)
      PROVE  BreakerNext
  BY <1>3 DEF EnterValidator, PassBreaker, GiveUp, ReportFailure, AttemptSucceeds,
              BreakerNext, Requests
<1>4. CASE Tick
  BY <1>4 DEF Tick, BreakerNext
<1>5. CASE UNCHANGED vars
  BY <1>5 DEF vars, breakerVars
<1>6. QED
  BY <1>1, <1>2, <1>3, <1>4, <1>5 DEF Next, Serve

(* What the requests do to the breaker is what the breaker is specified to *)
(* do.                                                                     *)
THEOREM UsesTheBreaker == Spec => BreakerSafety
<1>1. Init => BreakerInit
  BY DEF Init
<1>2. QED
  BY <1>1, StepsOfTheBreaker, PTL DEF Spec, BreakerSafety

(* So no retry, refusal or late failure of the requests loses the failures *)
(* an open breaker was opened for, nor an opening that is due.             *)
THEOREM BreakerHoldsForRequests == Spec => [](OpenIsEarned /\ FailuresOpen)
BY UsesTheBreaker, OpenIsAlwaysEarned, NoOpeningIsLost, PTL

-----------------------------------------------------------------------------
(* The other types that Places leaves out.                                 *)
Tables ==
    /\ agents \subseteq [request : Requests, name : Names]
    /\ token \in [Requests -> Verdicts]
    /\ tries \in [Requests -> 0 .. Attempts - 1]
    /\ reply \in [Requests -> Replies]

LEMMA OneMoreAttempt ==
    ASSUME NEW n \in Nat, NEW k \in 0 .. n - 1, k + 1 < n
    PROVE  k + 1 \in 0 .. n - 1
OBVIOUS

LEMMA TablesStep == Inv /\ Tables /\ [Next]_vars => Tables'
<1> SUFFICES ASSUME Inv, Tables, [Next]_vars PROVE Tables'
  OBVIOUS
<1> USE DEF Tables, Goto, Answer, Replies, requestVars
<1>1. CASE CreatePolicy \/ UpdatePolicy \/ DeletePolicy \/ Tick \/ UNCHANGED vars
  BY <1>1 DEF CreatePolicy, UpdatePolicy, DeletePolicy, Tick, vars
<1>2. ASSUME NEW r \in Requests,
             \/ BootstrapElsewhere(r) \/ ValidateDocker(r) \/ EnterValidator(r)
             \/ PassBreaker(r) \/ GiveUp(r) \/ ReportFailure(r) \/ AttemptSucceeds(r)
             \/ FindMatchingPolicy(r)
      PROVE  Tables'
  BY <1>2 DEF BootstrapElsewhere, ValidateDocker, EnterValidator, PassBreaker, GiveUp,
              ReportFailure, AttemptSucceeds, FindMatchingPolicy
<1>3. ASSUME NEW r \in Requests, Retry(r) PROVE Tables'
  <2>1. tries[r] + 1 \in 0 .. Attempts - 1
    <3>1. tries[r] + 1 < Attempts
      BY <1>3 DEF Retry
    <3>2. tries[r] \in 0 .. Attempts - 1 /\ Attempts \in Nat
      BY BootstrapAssumption DEF BootstrapAssumption
    <3>3. QED
      BY <3>1, <3>2, OneMoreAttempt
  <2>2. tries' = [tries EXCEPT ![r] = tries[r] + 1] /\ UNCHANGED <<agents, token, reply>>
    BY <1>3 DEF Retry
  <2>3. tries' \in [Requests -> 0 .. Attempts - 1]
    BY <2>1, <2>2
  <2>4. QED
    BY <2>2, <2>3
<1>4. ASSUME NEW r \in Requests, CreateAgent(r) PROVE Tables'
  <2>1. found[r] \in Rows
    BY <1>4 DEF CreateAgent, Inv, RequestsInOrder, Permitted
  <2>2. [request |-> r, name |-> found[r].name] \in [request : Requests, name : Names]
    BY <2>1 DEF Rows
  <2>3. QED
    BY <1>4, <2>2 DEF CreateAgent
<1>5. QED
  BY <1>1, <1>2, <1>3, <1>4 DEF Next, Serve

(* Policies, agents and requests keep their types: an agent has the name   *)
(* of a policy, and no validator is tried more often than it may be.       *)
THEOREM TypeInvariant == Spec => []TypeOK
<1>1. Init => Inv /\ Tables /\ BreakerTypeOK
  BY InvInit, BootstrapAssumption, BreakerTypesInit
     DEF BootstrapAssumption, Init, Tables, Replies, BreakerInit, BreakerTypeOK,
         Ages, Rest
<1>2. Inv /\ Tables /\ BreakerTypeOK => TypeOK
  BY DEF Inv, Places, Tables, TypeOK
<1>3. QED
  BY <1>1, <1>2, InvStep, TablesStep, BreakerTypes, StepsOfTheBreaker, PTL DEF Spec
=============================================================================
