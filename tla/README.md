# DeepSecure in TLA+

DeepSecure gives AI agents identities and short-lived credentials.  This directory
specifies the parts of it where several requests, two stores, several processes or
the clock meet, model-checks them with TLC on small instances, and proves the most
important properties with TLAPS for every instance.

## The system

| Part | Where | State it keeps | Operations |
|---|---|---|---|
| Control plane | `src/deeptrail-control/app` | one PostgreSQL database: agents, policies, nonces, secrets (`share_1`), credentials, attestation policies; in memory: replay detector, rate limiter, circuit breakers | FastAPI handlers, each in a thread with a database session of its own |
| Gateway | `src/deeptrail-gateway/app` | Redis: `share_2:<name>` with a time to live of 24 hours; in memory: an HTTP client and its connections | middlewares JWT validation → policy enforcement → secret injection, then the proxy; internal endpoints for shares |
| SDK and command line | `src/deepsecure` | identities in the keyring and in files, an access token per client object, a delegation manager per process, a revocation file per user | calls to both services |

How they interact:

* The SDK registers an agent with the control plane, asks it for a nonce, signs
  it, and receives a JWT whose scope is put together from the agent's policies.
* The SDK sends requests to the gateway with this JWT.  The gateway validates it
  on its own, decides on the domain and the method, fetches `share_1` of a secret
  from the control plane, combines it with `share_2` from Redis, writes the result
  in the `Authorization` header, and forwards the request.
* The control plane sends `share_2` to the gateway when a secret is stored, asks
  for it when a secret is read, and deletes it when a secret is deleted.
* An agent without a key presents the token of its platform, and the control plane
  makes an agent of it, if an attestation policy says so.
* An agent with a JWT has a macaroon minted for another agent by the control
  plane; the SDK also makes, extends and verifies macaroons of its own, without
  any service, and passes them on as JWT claims.

What is hard in it: the two halves of a secret lie in two stores that no
transaction spans; handlers interleave between their queries and calls; calls time
out and are carried out all the same; shares expire and rows do not; tokens
outlive the policies, and the status, they were made from; the guards of the
bootstrap are shared by all threads; the gateway follows redirects nobody has
judged; the threads of an SDK client share one access token, its processes one
keyring and one revocation file; macaroons outlive the key they are signed with.
`PROJECT.json` lists each of these hazards at its line, with the properties that
would catch it going wrong.

### Components, and what makes each correct

| Component | Correct when | State here |
|---|---|---|
| split-key vault, share store, injection | a secret that is served was stored under this name and committed, or is garbage because another store of the name came between; a deleted one is gone; halves are separated only by the causes the code cannot avoid; every request ends | modelled but for listings and for operations nothing calls; checked, proved |
| registry, policies, login, tokens | a token is earned by the agent's key with a fresh nonce of its own; what policies withdraw stops within a token's life | modelled, checked, proved |
| gateway: middlewares, pipeline, HTTP client | only what is admissible reaches a target; a request that is refused has reached nobody; credentials go to the domain that was asked for and no further; every request is answered | modelled, checked, proved |
| gateway: security filters | a client gets no more, and no less, than its limit and burst | modelled, checked, proved (nothing installs them) |
| circuit breaker | no opening is lost or half undone, and an open breaker recovers | modelled, checked, proved |
| replay detector, rate limiter | attempts are rationed, a token passes once within the detector's memory | modelled, checked, proved |
| bootstrap of agents | an agent only for an attested identity and a policy for exactly that one; requests are answered | modelled for AWS, Azure and Docker, the other two as far as they get; checked, proved |
| delegation in the SDK | a chain only ever narrows; chains are descents, also across processes and restarts | modelled, checked, proved |
| macaroons of the control plane | only who has a token gets one | who may have one; nothing in the repository reads them |
| SDK: agents, identities, environment | no agent without a key but where something failed; no second agent of a name that was found | modelled, checked, proved |
| SDK: access tokens | a client with one thread and one agent sends that agent's token, and a fresh one | modelled, checked, proved |
| SDK: credentials, revocation list, rotation | what is revoked stays so on file; the keyring has the keys the control plane knows | modelled, checked, proved |
| credentials of the control plane | | no operation of it takes effect; not modelled |
| command line, integrations, operator's calls | each comes to a call of the SDK | modelled by that; placeholders left out |
| JIT engine | | nothing constructs it; not modelled |
| logging, sanitising and security-header middleware | | not installed, could not run; not modelled |
| schemas, migrations, configuration, audit log, examples | | declarations and scripts; not modelled |

## The modules

| Module | What it is |
|---|---|
| `SplitKeySecrets` | the vault of the control plane and the share store of the gateway, with the faults around them |
| `SecretVault` | the abstract register per name that clients are promised; `SplitKeySecrets` implements it |
| `AgentAuth` | registry, policies, challenge and login, and the calls that carry a token |
| `CircuitBreaker` | the breaker of a platform and the threads in it |
| `SecurityValidator` | the checks of a Kubernetes token, over the tables of the rate limiter and the replay detector |
| `Bootstrap` | extends `CircuitBreaker` with the requests that create agents, and the attestation policies; its requests are the threads of the breaker |
| `GatewayPipeline` | a request on its way through middlewares, validator, connection pool, redirects, answer |
| `ProxyContract` | what agents and targets are promised of a proxy; `GatewayPipeline` implements it |
| `SecurityFilters` | the filters of the gateway, with the rate limiter and its burst tokens |
| `Delegation` | macaroons, the delegation managers of several processes, and claims between them |
| `EnvironmentDetector` | on which platform a process of the SDK takes itself to be: a pure function of the signals |
| `SdkClient` | agents, identities and access tokens in the SDK: threads of processes over one keyring; it uses `EnvironmentDetector` |
| `SdkVault` | extends `SdkClient` with revocation, local verification and rotation |
| `SdkCalls` | extends `SdkVault` with the operator's calls, shorthands, integrations and commands |

For TLC there are `MCSplitKeySecrets`, `MCAgentAuth`, `MCSecurityValidator`,
`MCGatewayPipeline`, `MCSecurityFilters`, `MCDelegation` and `MCSdk`;
`CircuitBreaker` and `Bootstrap` are small enough to be checked as they are.  The
proofs are in `SplitKeySecretsProofs`, `AgentAuthProofs`, `BootstrapProofs` (which
has those about `CircuitBreaker` too), `SecurityValidatorProofs`,
`GatewayPipelineProofs`, `DelegationProofs`, `SecurityFiltersProofs` and
`SdkProofs` (about `SdkCalls`, and so about everything it extends).

### SplitKeySecrets

State and code:

| Variable | In the code |
|---|---|
| `row` | table `secrets`, `share_1` under a unique name (`models/credential.py`) |
| `share` | Redis key `share_2:<name>` (`share_storage.py`) |
| `wire`, `reply` | the HTTP call of a store or a delete to the gateway, and its answer |
| `pc`, `name`, `found`, `picked`, `result`, `got` | the local variables and the outcome of a handler |
| `stored`, `committed`, `lapsed` | histories for the properties |

A share is identified by the store request that made it: `split_secret` draws a
new polynomial (and prime) each time, so shares recombine only with shares of the
same split.  Shares of two splits give bytes that mostly do not decode as UTF-8
(500, or no injection) and sometimes do: `Recombined` lets a read end in either
way, with `Nil` or with `Garbage`.  `SecretVault` has the garbage too, where a
client has to reckon with it: its `Garble` needs another store of the same name.

One action is one step between two accesses to a store.  `create_secret` is
`StoreBegin` (split, send), `StoreAcknowledged | StoreRefused | StoreCallLost`,
then `StoreCommit | StoreDuplicate`.  `delete_secret` is `DeleteBegin |
DeleteUnknown`, the three ends of its call, `DeleteSelect | DeleteVanished` and
`DeleteErase`, which deletes by primary key as SQLAlchemy does.  A read and an
injection take `share_1`, then `share_2`.  The gateway handles a call in one step,
since its Redis client is synchronous.

Faults, each switched on by a member of `Faults`:

* `network`: a call is refused, lost or times out, and may be carried out later;
* `redis`: Redis refuses, or carries out and its answer is lost;
* `database`: a query fails, or a COMMIT succeeds and the connection is lost;
* `crash`: the process of a handler dies;
* `expiry`: Redis drops a share.

Assumed of the outside: primary keys of PostgreSQL are not reused (SQLite would
reuse the last one), and the READ COMMITTED default of the engine.

### AgentAuth

| Variable | In the code |
|---|---|
| `key`, `status` | table `agents` |
| `policies` | table `policies`: id, agent, effect, actions |
| `nonces` | table `nonces`, with `expires_at` |
| `pc`, `who`, `shown`, `signer` | a running `login_for_access_token` and the request it serves |
| `scope`, `exp` | the claims of the JWT it returned |
| `outcome`, `carried`, `dest`, `at` | a call with a token, at the gateway or at `/delegate` |
| `now` | the clock |
| `issued`, `spent`, `tardy`, `granted` | histories for the properties |

The login is taken apart at its queries: `LoginBegin` (the agent), `LoginSelect |
LoginUnusable` and `LoginConsume` (the two statements of `get_and_delete`),
`LoginForged | LoginGrant` (signature, policies, token).  The rest are handlers
with a single write.  The status is modelled because handlers write it; no
decision reads it, as in the code.  A signature is the key that made it.  An
action is a member of `Actions`; those of `Domains` are the ones of the form
`domain:...`, the only ones a decision of the gateway on a domain depends on.
Methods, which the gateway checks in the same way, are in `GatewayPipeline`.

### CircuitBreaker

| Variable | In the code |
|---|---|
| `state`, `failureCount` | the attributes of the same name |
| `sinceFailure` | `time.time() - last_failure_time`, `None` where that is |
| `pc`, `reading` | a thread in the wrapper, and the clock it has read: for `record_failure` the time since then, for a judgement the difference it will find |

The breaker has no lock, so what is one step depends on where the interpreter
switches threads.  The service runs on CPython 3.11
(`deeptrail-control/Dockerfile`), which does so at calls, returns and backward
jumps, and not between attribute accesses.  The wrapper is therefore cut at
`time.time()`: `CallClosed | CallOpen` is what comes before, `Refuse | Probe |
Crash` after it, by the clock as it was read at the switch and by
`last_failure_time` as it is then (a failure that is recorded in between moves the
difference, `Date`); the end of a call is `Return` (`reset`) or `Raise` and
`Record` (`record_failure` before and after its `time.time()`).  Counts and ages
stop at the threshold and at the timeout: the code asks of them only whether they
have reached it.

### SecurityValidator

| Variable | In the code |
|---|---|
| `attempts` | `RateLimiter.attempts` |
| `usedTokens` | `ReplayDetector.used_tokens` |
| `pc`, `token`, `client`, `outcome` | a running `validate_kubernetes_sat`, and the identifier it is counted under |
| `now` | the clock |
| `granted`, `admitted`, `evicted` | histories for the properties |

Each table has a lock, and what is done under it is one action: `IsRateLimited`
and `IsReplay`, each in two rounds (`Limit1`, `Replay1` before Google's
verification, `Limit2`, `Replay2` after it).  The endpoint reads a field the
request does not have and ends before it gets here (`BootstrapElsewhere` in
`Bootstrap`); the module is about the service's own interface, which the next
correction of the endpoint would put into use.

### Bootstrap

| Variable | In the code |
|---|---|
| `policies` | table `attestation_policies` |
| `agents` | the rows of `agents` that bootstraps made |
| `step`, `platform`, `token`, `found`, `reply` | a running `bootstrap_..._agent` |
| `tries` | `attempt` in `with_retry` |
| `state`, `failureCount`, `sinceFailure`, `pc`, `reading` | the breaker of the platform, from `CircuitBreaker` |

`EnterValidator` and `PassBreaker` are the wrapper of the breaker, `Retry`,
`GiveUp` and `AttemptSucceeds` the attempts in it, `ReportFailure` the failure
that leaves it; `FindMatchingPolicy` reads one page of the table, `CreateAgent`
commits.  AWS and Azure differ in the number of attempts (`Attempts`), since the
validator of Azure raises nothing of what its retry looks for; each has a breaker
of its own, and one of them is modelled.  A token is what its platform says of it.
(The AWS validator asks for the identity of the service's own credentials,
whatever the token.)

### GatewayPipeline and ProxyContract

| Variable | In the code |
|---|---|
| `mode` | the enforcement mode of `PolicyEnforcementMiddleware`, fixed at start |
| `query` | the request as the agent sent it: path, token, target, method, length, media, secret |
| `pc`, `auth`, `to`, `hops` | where it is, its `Authorization` header, its next origin, the redirects so far (httpx) |
| `reply` | the answer and who gave it |
| `expired` | tokens past their `exp` |
| `got`, `unmet` | what targets have received; requests whose secret could not be put together |

The gateway is one event loop, so an action lies between two awaits.
`ValidateJwt`, `EnforcePolicy` and `InjectNothing | InjectSecret | InjectionFails`
are the three middlewares in the order of `main.py`; `HandleProxyRequest` and
`HandleStreaming` the validator and the handler; `Send`, `CannotConnect`,
`TimeOut`, `Break`, `Follow`, `CannotFollow` and `Relay` what httpx may do.
Tokens expire meanwhile (`Expire`).  What becomes of the two halves of a secret
while they are fetched is in `SplitKeySecrets`; here a secret can be put together
or not.  The rewriting of the agent's other headers is left out, and so are health
endpoints and the display of the configuration, which change nothing.

`ProxyContract` knows no middlewares: a request is asked, received by targets if
it is admissible, and closed.  The mapping takes answers for what they say
(`PhaseOf`).

### SecurityFilters

| Variable | In the code |
|---|---|
| `clients` | the attribute of the same name: the requests of a client |
| `burstTokens`, `lastRefill` | the attributes of the same meaning |
| `violations` | the attribute of the same name |
| `outcome`, `judged`, `now` | the verdict on a request, the request, the clock |
| `admitted` | history: what the limiter let through, and whether it cost a token |

`filter_request` awaits nothing, so that one action judges one request, in the
order of the code: address, rate, size, content.  Of a request the model keeps
what the filters would find in it.

### Delegation

| Variable | In the code |
|---|---|
| `run` | how often a process has started: each start draws a root key |
| `held`, `chains` | macaroons in memory, `delegation_chains` |
| `current`, `links` | the loop of `create_delegation_chain` |
| `tokens`, `claims` | what has left a process, as serialised macaroons and as JWT claims |
| `made`, `ancestors` | histories: every macaroon, and what it was delegated from |

A signature is the key it was made with, since nothing in the code changes a
macaroon after it is signed.  A link of a chain is an action (`BeginChain`,
`AddLink`, `EndChain`), as a link without what it needs raises after the ones
before it have been made.  `Restart` loses a process's memory and its key.  A root
may be made with any caveats (`InitialCaveats`), a depth among them.

### SdkClient, SdkVault, SdkCalls, EnvironmentDetector

| Variable | In the code |
|---|---|
| `agents` | the agents of the control plane, at its interface |
| `keyring` | private keys in the system keyring |
| `access`, `expires` | `_access_token`, `_token_expires_at` of a client |
| `ask`, `pc`, `chain`, `held`, `looked`, `sent` | a call: what it is, where it is, the identity providers left, what it was answered, when it looked at the token, what it sent |
| `memory`, `file`, `buffer` | `_revoked_ids`, the revocation file, what a save is about to write |
| `identity` | identity files |
| `listed`, `mishaps`, `shared`, `behind`, `disturbed` | histories for the properties |

A thread is switched anywhere, so a step lies between two requests, accesses to
the keyring or file, or writes of an attribute that other threads read: the expiry
of a token is set before the token (`SetExpiry`, `SetToken`), a save empties the
file, takes the set, and writes (`OpenList`, `DumpList`, `FlushList`), and so does
a rotation with an identity file (`ReadIdentity`, `EmptyIdentity`, `Rotate`, or
`RotationFails`).  A platform's endpoint names the agent it registers after a
policy (`PolicyNames`).  An agent is deleted with a token of its own
(`DeleteAgent`), or, by an `AgentClient` that has no client above it, with none
(`DeleteAgentUnauthenticated`, `Erase`).  A call of the SDK is the path it takes
through these steps, chosen by its `kind`; `SdkCalls` says of every other entry
point (operator's calls, shorthands, integrations, commands) which kind it comes
to.  Requests fail, answers are lost, keyrings refuse or cannot be read, processes
crash.  `EnvironmentDetector` adds up the weights of a host's signals as the code
does, in twentieths.

## What is checked

| Run | Module, instance | Shows |
|---|---|---|
| `split_safety` | 2 names, 2 stores, 1 delete, 1 read, 1 injection, all faults | `TypeOK`, `RowHasItsShareStored`, `ServedValueIsExplained`, `DeleteIsFinal`, `UndisturbedPairIsWhole`, `ImplementsVault` |
| `split_live` | 1 name, 1 store, 2 deletes, 1 read, 1 injection; network, redis, crash, expiry | `RequestsEnd`, `DeletedShareLeaves` |
| `split_update` | 1 name, 2 stores, no fault | violates `StoreUpdates` |
| `auth_login` | 2 agents, 2 keys, 1 nonce, 2 logins, 1 policy, 2 domains, 1 call | `TypeOK`, `TokenIsEarned`, `ReplayFails`, `RevocationIsBounded` |
| `auth_single_use` | 1 agent, 1 nonce, 2 logins | violates `NoncesAreSingleUse` |
| `breaker_safety` | 3 threads, threshold 2, timeout 2 | `OpenIsEarned`, `FailuresOpen`, `OpenGivesWay` |
| `guard_safety` | 3 requests of 2 identifiers, 3 tokens, 3 attempts, a table of 1, 3 units of time | `TypeOK`, `AttemptsAreRationed`, `TokensPassOnce`, `TableIsBounded` |
| `bootstrap_flow` | 2 requests, 2 policies on pages of 1, 2 attempts, threshold 1, timeout 1 | `TypeOK`, `AgentsArePermitted`, `ImplementsBreaker`, `EveryRequestIsAnswered` |
| `gateway` | 2 requests over 1 connection, every mode, 2 good tokens and a forged one, 5 origins in 2 domains, 1 redirect | `TypeOK`, `TokenLeavesForWantOfSecret`, `ImplementsContract`, `EveryRequestIsAnswered` |
| `filters` | 5 requests of 2 clients, a limit and a burst of 1, a window of 2, 6 units of time | `TypeOK`, `WindowIsRationed`, `LimitIsEarned` |
| `delegation` | 2 processes, 1 restart, 3 macaroons, 2 claims, 1 unit of time, roots with a depth of 2 and without | `RootSetsTheDepth`, `DelegationNarrows`, `ChainsAreDescents` |
| `sdk` | 2 threads of one process, which may revoke the same credential, 1 of another, 2 agents, lists of 2, 4 hosts | `TypeOK`, `OrphansAreExplained`, `NamesAreFound`, `FreshIfAlone`, `OwnTokenIfAlone`, `RevocationsSurvive`, `KeysAreTheirAgents` |

The bounds.  Every conflict in the vault is between at most two writers of one
name and one reader, and a third party only matters as "another name", so two
stores, one or two deletes, a read, an injection and two names contain every kind
of conflict.  A login conflicts with one other login over one nonce, or presents
the other agent's nonce.  Lifetimes are one unit of time and the clock stops at
`MaxTime`: a token or nonce can be made, be valid, and be past its end while a
policy goes at each of those moments.  A single policy can be created, changed in
effect, actions and agent, deleted and created again. In the breaker one thread
probes while a second fails late and a third is refused; a threshold of two tells
a first failure from the last.  In the validator three requests make six attempts
for a limit of three, one token is forgotten for want of space when the other
comes, and the clock passes the window and the memory.  In the bootstrap two
policies do not fit on a page, and the breaker opens, lets through and is reset
between two requests. In the gateway requests do not meet but in the pool, so one
may ask everything the pipeline tells apart and the other competes with it for the
one connection; one redirect is followed and a second is one too many; it may go
to the same origin, to the https of the same host, to another domain, to a blocked
origin and to a scheme that is not spoken.  In the filters five requests exceed
the limit and the burst of one of two clients, and the clock passes the window and
the time in which tokens come back. Of three macaroons a third can descend from a
first through a second, or two from one, and calls at the depths 0, 2 and 3 are
judged on both sides of what a root lays down, 2 or, without a caveat, 1; a claim
made before a restart comes in after it.  In the SDK three calls are enough for
two threads that share a token, or a revocation, while another process uses the
same registry and keyring, or saves the same list, and a list of two cuts off the
third agent.

The theorems hold without these bounds.  The bounds inside actions are `MaxTime`
(`Tick` of `AgentAuth`, `SecurityValidator`, `SecurityFilters`, `Delegation`,
`SdkClient`), and `MaxMacaroons`, `MaxClaims` and `MaxRuns` of `Delegation`.

But for the breaker, whose threads come again, requests are finite, so the systems
stop: the runs do not check for deadlock; `RequestsEnd` and the two
`EveryRequestIsAnswered` say instead that none stops half-way.  The modules of the
SDK state no liveness: a process may die at any time, and nothing in the SDK
starts again by itself.

### Fairness

* `split_live`: a handler that has begun is scheduled again, and its call ends:
  `httpx.Client()` has a timeout of five seconds.  Redis honours `SETEX`. Nothing
  obliges a client to send a request, the network to deliver one, or anything to
  crash.
* `breaker_safety`: a thread that has found the breaker open, or has failed, is
  scheduled again, and time passes; nobody has to call, and a call need not end.
* `bootstrap_flow`: a handler that has begun is scheduled again: the calls of
  boto3 and requests time out, the retries are counted.
* `gateway`: a coroutine that has begun is resumed, and each of its awaits ends:
  the client is made with timeouts for the pool, the connection and the answer
  (`http_client.py:54-59`).  Weak fairness of one request's steps together is
  enough: the code obliges no target to answer, and the timeout is one of the
  steps.

### Where documentation and code part

Two runs expect a violation of what the documentation says:

* *Store or update* (`vault.py:58`) does not update: it replaces the share, then
  fails on the unique name, and leaves a secret that cannot be read.
* *Single-use challenge nonce* (`auth.py:31`) can be used by two logins at once.

The models also show, as cases of their actions and without a run of their own:

* *Returns the active agent object* (`deps.py:93`) returns inactive ones too, and
  inactive agents log in.
* *ExternalServiceError: If AWS STS calls fail* (`bootstrap_service.py:294`): a
  `TypeError` is possible too, from reading `last_failure_time` twice (`Crash` of
  `CircuitBreaker`).
* *Reassembles the original secret* (`vault.py:109-110`) fails whenever the two
  stores hold halves of different splits (`Reassemble`).
* *Also deletes the corresponding share* (`vault.py:226`) is best effort
  (`DeleteCallLost`).
* An agent without policies gets the scope `*` (`ScopeOf`), where the test of a
  stand-in (`test_policy_jwt_integration.py:240`) expects an empty one.
* A token is checked twice for replay by the one request that shows it (`Replay1`,
  `Replay2`), and the second check refuses it.  *Client-based* throttling
  (`CHANGELOG.md:276`) gets no address from the endpoint, so that all clients
  share one identifier.
* *Bootstrap response with agent identity and keys* (`bootstrap_service.py:1071`)
  cannot be built, after the agent has been committed (`CreateAgent`):
  `schemas.BootstrapResponse` is the class of another module.
* *If no matching policy exists* (`bootstrap_service.py:726`) is said when there
  is none on one page of a hundred, or when the query failed
  (`FindMatchingPolicy`).
* The breaker *for external service calls* (`retry_utils.py:20`) also counts the
  refusals of bad tokens (`AttemptFails`), and a call may be refused as *OPEN*
  after the breaker has closed (`Refuse`).
* The proxy *streams responses back to clients* (`proxy.py:30`) in no case:
  whatever it would stream ends with 500, since `client.stream` cannot be awaited
  (`HandleStreaming`).  An answer that came encoded, with a length, is broken off
  (`Relay`).
* The gateway loads no list of allowed domains and no range of internal addresses,
  although `block_internal_ips` is on (`ClientRefuses`), and the client follows
  redirects that nothing validates (`Follow`).
* The command detector of the filters looks for braces, and the headers are
  searched as a JSON object: with the default filters every request is a violation
  (`PatternViolations`), where the tests (`test_security_filters.py:254-267`)
  expect one to be allowed.  Tokens come back only as whole ones of the time since
  the last look, and that time starts anew even when it was too short for one
  (`RefillTime`).
* `create_delegation_chain` is for *workflows like A → B → C*
  (`client.py:589`), a depth is *the current
  delegation depth of a macaroon* (`delegation.py:365`), and a test expects
  `delegation_depth:2` after two links (`test_sdk_delegation_methods.py:167-169`).
  But a depth caveat is kept when a macaroon is delegated again, and the depth is
  read from the first of them (`DepthOf`): two links below a root without one it is
  still 1, and a verifier that counts the links refuses the third agent.  What
  holds instead is `RootSetsTheDepth`.
* `delegate_access`, for which an agent *must possess a valid macaroon*
  (`client.py:500`), always starts from a new root
  (`DelegateAccess`); a chain's `from_agent_id` is ignored after its first link
  (`AddLink`).
* The SDK's `request` through the gateway, and the OpenAI and Anthropic
  integrations on it, pass an argument httpx does not know (`Deliver`, kind
  `proxy`).  Whatever needs an API token fails in every client (`Tokenless`).
  `update_agent` is answered 422.
* An access token belongs to the client, not to the agent: a client that acts for
  two agents sends the token of whichever logged in last (`Deliver`;
  `OwnTokenIfAlone` says when it does not).
* A rotation changes an identity file that nobody reads, and neither the keyring
  nor the control plane (`Rotate`).  `revoke_credential` answers that it is done
  also if the list could not be saved (`SaveFails`), and a process that starts
  during another's save starts with an empty list (`Restart`).
* Deleting an agent without a token *shouldn't happen* (`agent_client.py:342`); it
  does with `Client.agents` and with the client of the module, and the control
  plane asks for none (`Erase`).
* `agent delete` announces that it will *permanently delete its local keys*
  (`commands/agent.py:166`), which stay in the keyring (`DeleteAgent`).
* A *confidence* is *0.0 to 1.0* (`environment_detector.py:28`) but for the local
  platform, which gets up to 1.2 (`DetectLocal`); a Kubernetes platform without a
  token is taken to be able to bootstrap (`DetectKubernetes`).

Every property of a passing run has a mutant of the code, defined before the
definition it replaces, that the run refutes.

## What is proved

All theorems are about `Spec` for any sets of requests, names, agents, policies,
nonces, calls, threads, targets, processes and caveats, and any lifetimes and
limits, under the named assumptions on the constants of each module (sets that are
disjoint, limits that are numbers, `Star` is no domain).

`SplitKeySecretsProofs`.  The properties are not inductive.  `Inv` adds: a split
is stored before it is committed (`SplitsInOrder`); both stores file a split under
the name it was made for (`FiledByName`); handlers remember only what was
committed under their name (`MemoryIsOfCommits`); who has got garbage has found
one split, and the gateway has held another's share of the name
(`GarbageIsMixed`); a handler that is in the middle has seen what it needs
(`HandlersInOrder`); the row a delete saw first is the one it selects or is gone
(`FoundIsPickedOrGone`), which is what makes `DeleteIsFinal` inductive; and every
share once stored is still there or one of three things has come between
(`StoredShareIsAccountedFor`), from which `UndisturbedPairIsWhole` follows.
`Refinement` shows that each step is a step of `SecretVault` or changes nothing of
it: a store takes effect at its COMMIT, a delete at its DELETE if its row is still
there, and a read when it has both halves.  A read of halves that do not belong
together is a `Garble`, which has to show the other store of the name.

`AgentAuthProofs`.  `Inv` adds: no two rows have one nonce and no row is for a
spent one (`NoncesInOrder`); a login that passed the SELECT had a nonce of its
agent, and past the DELETE has spent it (`LoginsInOrder`); a tardy login can no
longer pass (`TardyIsLate`); the history of grants is up to date (`GrantsNoted`);
a token dies at most one lifetime after its domains were last granted
(`TokensAreBounded`); and a call that was let through carried a token
(`CallsCarryTokens`).

`SecurityValidatorProofs`.  The properties speak of histories, and the proofs
relate these to the tables.  `WellFormed`: a malformed token gets no further than
the first check.  `GrantsAreKept`: every grant that is still within the window is
in the limiter's table; a lemma on the cardinality of a set with one more element
does the counting.  `AdmittedAreKept`: what was admitted is in the detector's
table, too old, or evicted.

`BootstrapProofs` begins with the breaker alone, under any threads (`BreakerNext`
without fairness).  With `BreakerTypeOK` both its properties are inductive as they
stand.  `OpenIsEarned` survives since whoever fails counts before it opens, and
`reset` takes all three attributes back in one step.  `FailuresOpen` survives
since only a thread that was let in leaves the breaker at its threshold, and its
last step opens it or resets it.  Of the bootstrap, `Inv` adds what a request has
shown at each step of its way, and that agents belong to answered requests, whose
token, platform and policy no longer change.  `UsesTheBreaker` shows that each
step is one of the breaker or leaves its variables alone; `BreakerHoldsForRequests`
puts the two together.

For the types and the bound of the table there is less to add: `Places`,
`BreakerTypes` and the policies of `BootstrapProofs` are types of what is left of
a request at each step, and `TableStaysBounded` needs that a finite table stays
finite.

`GatewayPipelineProofs`.  `TokenLeavesForWantOfSecret` looks at what targets have
received, which no step of the middlewares touches, so the invariant follows a
request on its way.  `AskedFor`: it has what it came with until something replaces
it. `LetThrough`: past the first middleware it has a good token, past the second
the policy allows it or the mode does not ask, and past the validator it is
`Admissible`. `Headed`: what its header carries, and that a header that is left
goes to the domain asked for. `Counted`: nothing has been received of a request
before the pool, and a waiting one has been received with each hop at most once.
From these `Refinement` shows `ImplementsContract`: sending is `Receive`, every
answer is a `Close` of one kind, and the rest stutters.

`DelegationProofs`.  `Inv` speaks of the family of all macaroons ever made:
identifiers are counted up (`Numbered`), a child has every caveat of each of its
ancestors (`Narrowing`), and a delegation puts its depth behind the caveats of its
parent, so that the first depth of a root stays the first, and holds
(`DepthIsGiven`, `InvDepth`).  `Held` says that what a process works on has a
chain; `Chained`, that the chains known and those in claims are descents. The
lemmas `RootJoins` and `ChildJoins` add one macaroon to a family and serve every
operation that makes one.  A chain out of claims is believed without a signature;
it is right because claims are only made from chains that are.

`SecurityFiltersProofs`.  `Kept`: what the limiter remembers of a client is what
it let through for it, and nothing within the window is forgotten.  With it
`LimitIsEarned` is a step property.  `WindowIsRationed` counts two kinds of
requests.  Those that cost nothing were all in the table when the last of them
came (`UnpaidAreRationed`).  Those that cost a token are covered by
`TokensComeBack`: from any moment on, the tokens paid and the tokens left come to
no more than the burst and what the time up to the last refill, and one second
more, brings back.  It is inductive since a refill rounds down: the lemmas
`DivisionBelow` to `RefillIsRated` are the arithmetic of that, for any window,
burst and minute.

`SdkProofs`.  However many entry points `SdkCalls` has, a call starts in one of 22
ways (`Starts`) and goes on by the steps of `Step` and `ListStep` (`NextSteps`).
`Base` has the types, what kind of call can be where (`InPlace`), and what a login
has in its hands (`LoginInOrder`).  On it rest three invariants, none of which
needs another:

* `AgentsInOrder`: an agent has the key it was made with, and so has the keyring;
  an agent without a key in it is held by its call, or explained; a call that is
  about to create an agent, or has, found none of the name (which needs that a
  list shorter than its limit is complete, `ListingsAreComplete`).
* `TokensInOrder`: a process that never had two calls at once remembers the expiry
  of the token it remembers, except between the two assignments, and then its one
  call holds the token; a call that is about to send has looked at that token.
  Without the assumption the pair may belong to two tokens, which the code allows.
* `ListInOrder`: while nothing was disturbed, at most one save is under way, and
  what all processes remember and all calls have revoked is on file, or with that
  save, or yet to be saved (`Covers`).

`Aside`, `Calm` and `Unlisted` say what a step must not touch for each of them, so
that most steps need no proof of their own.  An attempt to prove a stronger
`RevocationsSurvive`, without `Pending`, fails for a reason: who revokes what
another thread is just revoking is answered before that one has saved.

The assumptions on the constants of the SDK: the agents known at first and the
credentials on file at first are finitely many; agents made later have other
identifiers (the control plane draws UUIDs); a token outlives the margin; `None` is
neither an agent, nor a token, nor a call.

Only model-checked: `RequestsEnd`, `DeletedShareLeaves`, `OpenGivesWay`, both
`EveryRequestIsAnswered` and the fairness in `ImplementsBreaker`: liveness under
fairness is out of the prover's reach.  Every invariant and every action property
that a run checks is a theorem.  `EnvironmentDetector` is checked as a part of
`sdk`, over four hosts; the proofs of the SDK hold whatever it recommends.

## What is not modelled

The mathematics of Shamir's scheme, Ed25519, HMAC and JWT, and the verification of
tokens by Google, AWS and Azure, which are libraries: shares, signatures,
macaroons and tokens are taken by what identifies them.  The authentication
between the two services by a fixed token: every internal call has it.  Listing
endpoints, which change nothing, and names, descriptions and resources of
policies, which no decision reads.

What is not reached or cannot run: the JIT engine, which nothing constructs and
which expects another form of the record of a share; `extend_share_ttl`,
`list_shares` and `get_share_info`, which no endpoint calls; the logging,
sanitising and security-header middlewares, which are commented out of the stack
(`main.py:117-122`) and fail when they are installed; the credentials of the
control plane, where issuing reads a column that does not exist (500), revoking
and verifying then find nothing, and the notice of a rotation is answered 204 and
changes nothing.  What that means for the SDK is in `SdkVault`. `PROJECT.json`
says of every component what is left out of it and why.

Five hazards have no property, since the code promises nothing there, and a
property would only say that it does what it does.  An inactive agent logs in and
delegates: `AgentAuth` has the status, and no decision that reads it.  Only a page
of policies is looked at (`bootstrap_service.py:749`, `FindMatchingPolicy`).  The
key of a bootstrapped agent is lost each time (`CreateAgent`).  An expiry is set
before its token, and another thread may look in between (`SetExpiry`).  A
platform's agent is registered anew at every attempt (`Attest`).

Some properties of the SDK are promises under a condition, which names what the
code does not handle.  `OrphansAreExplained` is about the way on which nothing
fails; a lost answer, a refusing keyring or a crash leave an agent without a key.
`NamesAreFound` is about agents that were there at the listing; two calls that
look at once both create the agent.  `FreshIfAlone` and `OwnTokenIfAlone` are
about calls that do not overlap, and `RevocationsSurvive` about saves that neither
overlap nor break off; otherwise a token may be stale or another agent's, and a
revocation may be lost.

## Plan

Done, in this order: the vault, its register and proofs; logins and tokens; the
breaker, the guards and the bootstrap; the gateway pipeline and its contract;
delegation; the SDK and its proofs; the filters and theirs.  Left:

1. `AgentAuth`'s tokens and `SplitKeySecrets` under `GatewayPipeline`, as one
   composition in place of `Expire` and `InjectionFails`.
2. What a host's signals make of the chain of providers: that no provider is asked
   twice but by the second try, for every host.
