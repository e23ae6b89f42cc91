----------------------------- MODULE Bootstrap -----------------------------
(***************************************************************************)
(* Bootstrap of agents: a workload shows a token of its platform, and an   *)
(* agent is created for it under the attestation policy of that identity.  *)
(*                                                                         *)
(* A request validates the token, looks for a policy, and creates the      *)
(* agent, in three steps that other requests and the administrator's       *)
(* changes of the policies come between.  "cloud" is AWS or Azure, whose   *)
(* validators sit behind a circuit breaker (CircuitBreaker); the validator *)
(* of Docker has none.  Of the token only the verdict of the platform      *)
(* counts: the selector it attests, or that it is no good.  (For AWS the   *)
(* code asks for the identity of the service's own credentials, so there   *)
(* every token attests the same one.)                                      *)
(***************************************************************************)
EXTENDS CircuitBreaker, FiniteSets

CONSTANTS
    Ids,               \* the ids of attestation policies
    Selectors,         \* what identifies a workload on its platform
    Names,             \* the names policies give to agents
    BadToken,          \* the verdict on a token that is no good
    PageSize,          \* 100: the policies that one SELECT reads
    Attempts           \* of a validator: 3 for AWS, 1 for Azure

ASSUME BootstrapAssumption ==
    /\ BadToken \notin Selectors
    /\ PageSize \in Nat \ {0} /\ Attempts \in Nat \ {0}

VARIABLES
    policies,  \* the table attestation_policies
    agents,    \* the rows of agents that bootstraps have created
    step,      \* step[r]: how far request r is
    platform,  \* platform[r]: the endpoint r is for
    token,     \* token[r]: what the platform says of its token
    tries,     \* tries[r]: attempts of the validator that have failed
    found,     \* found[r]: the policy r has been given
    reply      \* reply[r]: the answer

requestVars == <<step, platform, token, tries, found, reply>>
vars == <<policies, agents, requestVars, breakerVars>>

(* Requests POST /auth/bootstrap/... or /bootstrap/attest; each is served  *)
(* by a thread of its own, which is a thread of the breaker.               *)
Requests == Threads

Verdicts == Selectors \cup {BadToken}
Platforms == {"cloud", "docker"}
Rows == [id : Ids, platform : Platforms, selector : Selectors, name : Names]
Replies == {"none", "bad request", "error", "no policy"}

TypeOK ==
    /\ policies \subseteq Rows
    /\ agents \subseteq [request : Requests, name : Names]
    /\ step \in [Requests -> {"idle", "validate", "lookup", "create", "answered"}]
    /\ platform \in [Requests -> Platforms \cup {None}]
    /\ token \in [Requests -> Verdicts]
    /\ tries \in [Requests -> 0 .. Attempts - 1]
    /\ found \in [Requests -> Rows \cup {None}]
    /\ reply \in [Requests -> Replies]
    /\ BreakerTypeOK

Init ==
    /\ policies = {} /\ agents = {}
    /\ step = [r \in Requests |-> "idle"]
    /\ platform = [r \in Requests |-> None]
    /\ token \in [Requests -> Verdicts]
    /\ tries = [r \in Requests |-> 0]
    /\ found = [r \in Requests |-> None]
    /\ reply = [r \in Requests |-> "none"]
    /\ BreakerInit

Goto(r, place) == step' = [step EXCEPT ![r] = place] /\ UNCHANGED reply

Answer(r, answer) ==
    /\ step' = [step EXCEPT ![r] = "answered"]
    /\ reply' = [reply EXCEPT ![r] = answer]

-----------------------------------------------------------------------------
(* The administrator.                                                      *)

(* A selector is unique in the table; a write that repeats one is undone.  *)
Distinct(rows) == \A p, q \in rows : p.selector = q.selector => p = q

CreatePolicy ==
    /\ \E p \in Rows : /\ \A q \in policies : q.id # p.id
                       /\ Distinct(policies \cup {p})
                       /\ policies' = policies \cup {p}
    /\ UNCHANGED <<agents, requestVars, breakerVars>>

(* An update may set any of the columns.                                   *)
UpdatePolicy ==
    /\ \E p \in policies, q \in Rows :
           /\ q.id = p.id
           /\ Distinct((policies \ {p}) \cup {q})
           /\ policies' = (policies \ {p}) \cup {q}
    /\ UNCHANGED <<agents, requestVars, breakerVars>>

DeletePolicy ==
    /\ \E p \in policies : policies' = policies \ {p}
    /\ UNCHANGED <<agents, requestVars, breakerVars>>

-----------------------------------------------------------------------------
(* Validation of the token.                                                *)

(* /bootstrap/kubernetes reads a field "token" of a schema whose field is  *)
(* "sat": AttributeError, answered 500.  /bootstrap/attest verifies a GCP  *)
(* token and then offers the hexadecimal public key to a schema that wants *)
(* base64 of 32 bytes: ValueError, answered 400.                           *)
BootstrapElsewhere(r) ==
    /\ step[r] = "idle"
    /\ \E answer \in {"error", "bad request"} : Answer(r, answer)
    /\ UNCHANGED <<policies, agents, platform, token, tries, found, breakerVars>>

(* validate_docker_container_token raises only ValueError: for the token,  *)
(* or when the daemon of Docker does not answer.                           *)
ValidateDocker(r) ==
    /\ step[r] = "idle"
    /\ platform' = [platform EXCEPT ![r] = "docker"]
    /\ \/ token[r] # BadToken /\ Goto(r, "lookup")
       \/ Answer(r, "bad request")
    /\ UNCHANGED <<policies, agents, token, tries, found, breakerVars>>

(* A cloud validator is called through its breaker.                        *)
EnterValidator(r) ==
    /\ step[r] = "idle"
    /\ platform' = [platform EXCEPT ![r] = "cloud"]
    /\ Goto(r, "validate")
    /\ Call(r)
    /\ UNCHANGED <<policies, agents, token, tries, found>>

(* The breaker, having been open, refuses the call or tries the service.   *)
PassBreaker(r) ==
    /\ step[r] = "validate"
    /\ Judge(r)
    /\ IF pc'[r] = "running" THEN UNCHANGED <<step, reply>> ELSE Answer(r, "error")
    /\ UNCHANGED <<policies, agents, platform, token, tries, found>>

(* An attempt of the validator may fail whatever the token: the platform's *)
(* service may be down.                                                    *)
AttemptFails(r) == step[r] = "validate" /\ pc[r] = "running"

(* Mutant: one attempt too many.                                           *)
RetryOnceMore(r) ==
    /\ AttemptFails(r)
    /\ tries[r] + 1 <= Attempts
    /\ tries' = [tries EXCEPT ![r] = @ + 1]
    /\ UNCHANGED <<policies, agents, step, platform, token, found, reply, breakerVars>>

(* Mutant: the attempts are not counted.                                   *)
RetryForever(r) ==
    /\ AttemptFails(r)
    /\ UNCHANGED <<policies, agents, requestVars, breakerVars>>

(* It is tried again, after a pause; the last failure goes to the breaker. *)
Retry(r) ==
    /\ AttemptFails(r)
    /\ tries[r] + 1 < Attempts
    /\ tries' = [tries EXCEPT ![r] = @ + 1]
    /\ UNCHANGED <<policies, agents, step, platform, token, found, reply, breakerVars>>

GiveUp(r) ==
    /\ AttemptFails(r)
    /\ tries[r] + 1 = Attempts
    /\ Raise(r)
    /\ UNCHANGED <<policies, agents, requestVars>>

ReportFailure(r) ==
    /\ step[r] = "validate"
    /\ Record(r)
    /\ Answer(r, "error")
    /\ UNCHANGED <<policies, agents, platform, token, tries, found>>

(* Mutant: the breaker is not reset.                                       *)
AttemptSucceedsUnseen(r) ==
    /\ step[r] = "validate" /\ token[r] # BadToken
    /\ pc[r] = "running" /\ pc' = [pc EXCEPT ![r] = "returned"]
    /\ Goto(r, "lookup")
    /\ UNCHANGED <<policies, agents, platform, token, tries, found,
                   state, failureCount, sinceFailure, reading>>

AttemptSucceeds(r) ==
    /\ step[r] = "validate" /\ token[r] # BadToken
    /\ Return(r)
    /\ Goto(r, "lookup")
    /\ UNCHANGED <<policies, agents, platform, token, tries, found>>

-----------------------------------------------------------------------------
(* The policy and the agent.                                               *)

(* The rows that a SELECT with a LIMIT and no order may read.              *)
Pages == {page \in SUBSET policies :
              Cardinality(page) = IF Cardinality(policies) <= PageSize
                                  THEN Cardinality(policies) ELSE PageSize}

IsFor(p, r) == p.platform = platform[r] /\ p.selector = token[r]

(* Mutant: the platform of the policy is not compared.                     *)
FindPolicyOfAnyPlatform(r) ==
    /\ step[r] = "lookup"
    /\ \E page \in Pages \cup {{}} :
           \/ \E p \in page : /\ p.selector = token[r]
                              /\ found' = [found EXCEPT ![r] = p]
                              /\ Goto(r, "create")
           \/ /\ \A p \in page : p.selector # token[r]
              /\ Answer(r, "no policy")
              /\ UNCHANGED found
    /\ UNCHANGED <<policies, agents, platform, token, tries, breakerVars>>

(* find_matching_policy: get_multi gives one page, or [] when the database *)
(* fails.                                                                  *)
FindMatchingPolicy(r) ==
    /\ step[r] = "lookup"
    /\ \E page \in Pages \cup {{}} :
           \/ \E p \in page : /\ IsFor(p, r)
                              /\ found' = [found EXCEPT ![r] = p]
                              /\ Goto(r, "create")
           \/ /\ \A p \in page : ~IsFor(p, r)
              /\ Answer(r, "no policy")
              /\ UNCHANGED found
    /\ UNCHANGED <<policies, agents, platform, token, tries, breakerVars>>

(* create_agent commits a row with a key made for it, or fails.  Either    *)
(* way the answer is 400: after the commit the response is built from a    *)
(* class of another schema, which wants the field private_key.             *)
CreateAgent(r) ==
    /\ step[r] = "create"
    /\ \/ agents' = agents \cup {[request |-> r, name |-> found[r].name]}
       \/ UNCHANGED agents
    /\ Answer(r, "bad request")
    /\ UNCHANGED <<policies, platform, token, tries, found, breakerVars>>

-----------------------------------------------------------------------------
Tick == BreakerTick /\ UNCHANGED <<policies, agents, requestVars>>

Serve(r) ==
    \/ PassBreaker(r) \/ Retry(r) \/ GiveUp(r) \/ ReportFailure(r) \/ AttemptSucceeds(r)
    \/ FindMatchingPolicy(r) \/ CreateAgent(r)

Next ==
    \/ CreatePolicy \/ UpdatePolicy \/ DeletePolicy
    \/ \E r \in Requests :
           BootstrapElsewhere(r) \/ ValidateDocker(r) \/ EnterValidator(r) \/ Serve(r)
    \/ Tick

(* A handler that has begun goes on: the calls of a validator time out.    *)
Fairness == WF_vars(Tick) /\ \A r \in Requests : WF_vars(Serve(r))

Spec == Init /\ [][Next]_vars /\ Fairness

-----------------------------------------------------------------------------
(* Properties.                                                             *)

(* An agent is created only for a workload whose platform attested it,     *)
(* through a call its breaker let in and that succeeded, and under the     *)
(* name of a policy for exactly that platform and that identity, whatever  *)
(* the administrator changed meanwhile.                                    *)
AgentsArePermitted ==
    \A a \in agents :
        LET r == a.request IN
        /\ token[r] # BadToken
        /\ platform[r] = "cloud" => pc[r] = "returned"
        /\ IsFor(found[r], r) /\ a.name = found[r].name

(* A request that has begun is answered, breaker, retries and all.         *)
EveryRequestIsAnswered == \A r \in Requests : step[r] # "idle" ~> step[r] = "answered"

(* What the requests do to the breaker between them is what the breaker is *)
(* specified to do.                                                        *)
ImplementsBreaker == BreakerSpec
=============================================================================
