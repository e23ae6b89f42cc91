-------------------------- MODULE GatewayPipeline --------------------------
(***************************************************************************)
(* A request on its way through the gateway: the three middlewares, the    *)
(* validator, the HTTP client with its pool of connections, the redirects  *)
(* that the client follows, and the answer.                                *)
(*                                                                         *)
(* The gateway is one event loop, so what lies between two awaits is one   *)
(* step.  Meanwhile tokens expire.  What becomes of the two halves of a    *)
(* secret is the subject of SplitKeySecrets: here the secret can be put    *)
(* together or not.  The names "/proxy" and X-Target-Base-URL, which the   *)
(* middlewares hard-code, are the ones the routes are configured with.     *)
(***************************************************************************)
EXTENDS Naturals, FiniteSets

CONSTANTS
    Requests,
    Asks,            \* Asks[r]: what r may ask: [path, token, target, method,
                     \* length, media, secret]
    Genuine,         \* tokens with a good signature
    Permissions,     \* Permissions[t]: the domains and methods in the scope of t
    Methods,         \* the methods of the route
    DefaultDomains,  \* those of the built-in list
    DomainOf,        \* DomainOf[o]: the domain of the origin o
    Blocked,         \* origins that match a blocked pattern
    NotHttp,         \* origins with a scheme other than http and https
    Upgrades,        \* pairs of an http origin and its https origin
    DefaultSecret,   \* DefaultSecret[d]: the secret of domain d, or None
    Secrets,
    StreamAbove,     \* 1 MB
    MaxSize,         \* 10 MB
    MaxRedirects,    \* 5
    PoolSize,        \* 200 connections
    None,            \* no token, no target, no secret
    Unparsable,      \* a target that urlparse raises for
    Relative         \* a target without a scheme or a host

Origins == DOMAIN DomainOf
Domains == {DomainOf[o] : o \in Origins}
Queries == UNION {Asks[r] : r \in Requests}

ASSUME GatewayAssumption ==
    /\ Queries \subseteq [path : {"proxy", "elsewhere"}, token : DOMAIN Permissions \cup {None},
                          target : Origins \cup {None, Unparsable, Relative},
                          method : Methods, length : Nat,
                          media : {"plain", "stream"}, secret : Secrets \cup {None}]
    /\ Genuine \subseteq DOMAIN Permissions
    /\ Permissions \in [DOMAIN Permissions -> SUBSET (Domains \cup Methods)]
    /\ Domains \cap Methods = {}
    /\ DomainOf \in [Origins -> Domains]
    /\ DefaultDomains \subseteq Domains
    /\ Blocked \subseteq Origins /\ NotHttp \subseteq Origins
    /\ \A u \in Upgrades : u \in Origins \X Origins /\ DomainOf[u[1]] = DomainOf[u[2]]
    /\ DefaultSecret \in [Domains -> Secrets \cup {None}]
    /\ None \notin Origins \cup DOMAIN Permissions \cup Secrets \cup Queries
    /\ Secrets \cap DOMAIN Permissions = {}
    /\ {None, Unparsable, Relative} \cap Origins = {}
    /\ Unparsable # Relative /\ None \notin {Unparsable, Relative}
    /\ StreamAbove \in Nat /\ MaxSize \in Nat /\ MaxRedirects \in Nat

VARIABLES
    mode,     \* the enforcement mode, fixed when the gateway starts
    query,    \* query[r]: what r asks, None before it does
    pc,       \* pc[r]: where r is
    auth,     \* auth[r]: what its Authorization header carries
    to,       \* to[r]: the origin it goes to next
    hops,     \* hops[r]: the redirects it has followed
    reply,    \* reply[r]: who has answered it and how
    expired,  \* the tokens that have expired
    got,      \* what targets have received
    unmet     \* history: requests whose secret could not be put together

requestVars == <<query, pc, auth, to, hops, reply>>
vars == <<mode, requestVars, expired, got, unmet>>

Modes  == {"strict", "permissive", "disabled"}
Places == {"idle", "jwt", "policy", "inject", "proxy", "connect", "wait", "done"}
Unanswered == [by |-> "none", code |-> 0]

Init ==
    /\ mode \in Modes
    /\ query = [r \in Requests |-> None]
    /\ pc = [r \in Requests |-> "idle"]
    /\ auth = [r \in Requests |-> None]
    /\ to = [r \in Requests |-> None]
    /\ hops = [r \in Requests |-> 0]
    /\ reply = [r \in Requests |-> Unanswered]
    /\ expired = {} /\ got = {} /\ unmet = {}

Goto(r, place) == pc' = [pc EXCEPT ![r] = place]

(* The answer; nothing of the request is kept.                             *)
Reply(r, by, code) ==
    /\ Goto(r, "done")
    /\ reply' = [reply EXCEPT ![r] = [by |-> by, code |-> code]]
    /\ auth' = [auth EXCEPT ![r] = None]
    /\ to' = [to EXCEPT ![r] = None]
    /\ hops' = [hops EXCEPT ![r] = 0]
    /\ UNCHANGED <<mode, query, expired, got, unmet>>

(* The exception handlers and the middlewares: an answer of the gateway's. *)
Refuse(r, code) == Reply(r, "gateway", code)

Pass(r, place) ==
    /\ Goto(r, place)
    /\ UNCHANGED <<mode, query, auth, to, hops, reply, expired, got, unmet>>

-----------------------------------------------------------------------------
(* The middlewares.                                                        *)

(* A request comes in; the middlewares let go what is not for the proxy.   *)
Arrive(r, q) ==
    /\ pc[r] = "idle"
    /\ query' = [query EXCEPT ![r] = q]
    /\ auth' = [auth EXCEPT ![r] = q.token]
    /\ to' = [to EXCEPT ![r] = q.target]
    /\ Goto(r, "jwt")
    /\ UNCHANGED <<mode, hops, reply, expired, got, unmet>>

(* catch_all, for what no other route takes.                               *)
CatchAll(r) ==
    /\ pc[r] = "jwt" /\ query[r].path = "elsewhere"
    /\ Refuse(r, 404)

(* _validate_jwt_token: signature and times.                               *)
Valid(token) == token \in Genuine \ expired

(* JWTValidationMiddleware.dispatch                                        *)
ValidateJwt(r) ==
    /\ pc[r] = "jwt" /\ query[r].path = "proxy"
    /\ IF Valid(query[r].token) THEN Pass(r, "policy") ELSE Refuse(r, 401)

(* _get_allowed_domains, _get_allowed_methods: an empty list stands for    *)
(* the built-in one.                                                       *)
AllowedDomains(token) ==
    LET listed == Permissions[token] \cap Domains
    IN  IF listed = {} THEN DefaultDomains ELSE listed

AllowedMethods(token) ==
    LET listed == Permissions[token] \cap Methods
    IN  IF listed = {} THEN Methods ELSE listed

(* _enforce_policy; a relative target has the domain "".                   *)
PolicyAllows(q) ==
    /\ q.target \in Origins
    /\ DomainOf[q.target] \in AllowedDomains(q.token)
    /\ q.method \in AllowedMethods(q.token)

(* Mutant: an error lets the request pass in every mode, unjudged.         *)
EnforceUnlessPermissive(r) ==
    /\ pc[r] = "policy"
    /\ \/ mode # "strict" /\ Pass(r, "inject")
       \/ /\ mode = "strict"
          /\ IF PolicyAllows(query[r]) THEN Pass(r, "inject") ELSE Refuse(r, 403)

(* Mutant: an error is handled in strict mode only.                        *)
EnforceUncaught(r) ==
    /\ pc[r] = "policy"
    /\ \/ mode = "disabled" /\ Pass(r, "inject")
       \/ mode # "disabled" /\ query[r].target = None /\ Refuse(r, 400)
       \/ mode = "strict" /\ query[r].target = Unparsable /\ Refuse(r, 500)
       \/ /\ mode # "disabled" /\ query[r].target \notin {None, Unparsable}
          /\ IF PolicyAllows(query[r]) THEN Pass(r, "inject") ELSE Refuse(r, 403)

(* PolicyEnforcementMiddleware.dispatch                                    *)
EnforcePolicy(r) ==
    /\ pc[r] = "policy"
    /\ \/ mode = "disabled" /\ Pass(r, "inject")
       \/ mode # "disabled" /\ query[r].target = None /\ Refuse(r, 400)
       \/ mode = "strict" /\ query[r].target = Unparsable /\ Refuse(r, 500)
       \/ mode = "permissive" /\ query[r].target = Unparsable /\ Pass(r, "inject")
       \/ /\ mode # "disabled" /\ query[r].target \notin {None, Unparsable}
          /\ IF PolicyAllows(query[r]) THEN Pass(r, "inject") ELSE Refuse(r, 403)

(* _inject_secrets: the name in the request, or the one of the domain.     *)
SecretName(q) ==
    IF q.target \notin Origins \cup {Relative} THEN None
    ELSE IF q.secret # None THEN q.secret
    ELSE IF q.target \in Origins THEN DefaultSecret[DomainOf[q.target]] ELSE None

(* SecretInjectionMiddleware.dispatch, where there is nothing to inject.   *)
InjectNothing(r) ==
    /\ pc[r] = "inject" /\ SecretName(query[r]) = None
    /\ Pass(r, "proxy")

(* _inject_bearer_token: the Authorization header is replaced.             *)
Inject(r, secret) == auth' = [auth EXCEPT ![r] = secret]

(* _reassemble_secret                                                      *)
InjectSecret(r) ==
    /\ pc[r] = "inject" /\ SecretName(query[r]) # None
    /\ Inject(r, SecretName(query[r]))
    /\ Goto(r, "proxy")
    /\ UNCHANGED <<mode, query, to, hops, reply, expired, got, unmet>>

(* Mutant: injection is given up although nothing is amiss.                *)
InjectionGivenUp(r) ==
    /\ pc[r] = "inject" /\ SecretName(query[r]) # None
    /\ Goto(r, "proxy")
    /\ UNCHANGED <<mode, query, auth, to, hops, reply, expired, got, unmet>>

(* A half is missing or cannot be fetched: the request goes on as it came. *)
InjectionFails(r) ==
    /\ pc[r] = "inject" /\ SecretName(query[r]) # None
    /\ unmet' = unmet \cup {r}
    /\ Goto(r, "proxy")
    /\ UNCHANGED <<mode, query, auth, to, hops, reply, expired, got>>

-----------------------------------------------------------------------------
(* The proxy handler.                                                      *)

(* validate_headers, ProxyRequestInfo: a target with a scheme and a host.  *)
NoTarget(q) == q.target \notin Origins

(* _compile_blocked_patterns: what a target must not contain.              *)
IsBlocked(q) == q.target \in Blocked

(* validate_content_size: by the header, whatever the body is.             *)
TooLarge(q) == q.length > MaxSize

(* validate_request: its checks in their order; 0 if there is no objection.*)
Objection(q) == IF NoTarget(q) THEN 400 ELSE IF IsBlocked(q) THEN 403
                ELSE IF TooLarge(q) THEN 413 ELSE 0

(* _should_stream_response                                                 *)
Streams(q) == q.length > StreamAbove \/ q.media = "stream"

(* _validate_target_url: no list of domains and no range of addresses is   *)
(* ever loaded, so that the scheme alone decides.                          *)
ClientRefuses(q) == q.target \in NotHttp

(* handle_proxy_request: the checks of the validator, then of the client.  *)
HandleProxyRequest(r) ==
    /\ pc[r] = "proxy" /\ ~Streams(query[r])
    /\ LET q == query[r]
       IN  IF Objection(q) # 0 THEN Refuse(r, Objection(q))
           ELSE IF ClientRefuses(q) THEN Refuse(r, 403)
           ELSE Pass(r, "connect")

(* _handle_streaming_response awaits what cannot be awaited, before        *)
(* anything is sent.                                                       *)
HandleStreaming(r) ==
    /\ pc[r] = "proxy" /\ Streams(query[r])
    /\ LET q == query[r]
       IN  Refuse(r, IF Objection(q) # 0 THEN Objection(q)
                     ELSE IF ClientRefuses(q) THEN 403 ELSE 500)

(* The pool of the client: a request holds a connection while it waits.    *)
ConnectionFree == Cardinality({r \in Requests : pc[r] = "wait"}) < PoolSize

(* _prepare_headers: of what identifies the agent, Authorization is kept.  *)
Prepared(r, o) == [request |-> r, origin |-> o, auth |-> auth[r], hop |-> hops[r]]

(* proxy_request: the request reaches its target.                          *)
Send(r) ==
    /\ pc[r] = "connect" /\ ConnectionFree
    /\ got' = got \cup {Prepared(r, to[r])}
    /\ Goto(r, "wait")
    /\ UNCHANGED <<mode, query, auth, to, hops, reply, expired, unmet>>

(* ConnectError: nobody there.                                             *)
CannotConnect(r) ==
    /\ pc[r] = "connect" /\ ConnectionFree
    /\ Refuse(r, 502)

(* TimeoutException: of the pool, of the connection or of the answer.      *)
TimeOut(r) == pc[r] \in {"connect", "wait"} /\ Refuse(r, 504)

(* Any other exception of httpx: the connection breaks.                    *)
Break(r) == pc[r] = "wait" /\ Refuse(r, 500)

(* The client follows a redirect to any origin; it drops the Authorization *)
(* when the origin changes, unless it is to the https of the same host.    *)
Keeps(from, next) == from = next \/ <<from, next>> \in Upgrades

(* Mutant: one redirect too many.                                          *)
FollowOneMore(r, o) ==
    /\ pc[r] = "wait" /\ o \notin NotHttp /\ hops[r] <= MaxRedirects
    /\ hops' = [hops EXCEPT ![r] = @ + 1]
    /\ auth' = [auth EXCEPT ![r] = IF Keeps(to[r], o) THEN @ ELSE None]
    /\ to' = [to EXCEPT ![r] = o]
    /\ Goto(r, "connect")
    /\ UNCHANGED <<mode, query, reply, expired, got, unmet>>

Follow(r, o) ==
    /\ pc[r] = "wait" /\ o \notin NotHttp /\ hops[r] < MaxRedirects
    /\ hops' = [hops EXCEPT ![r] = @ + 1]
    /\ auth' = [auth EXCEPT ![r] = IF Keeps(to[r], o) THEN @ ELSE None]
    /\ to' = [to EXCEPT ![r] = o]
    /\ Goto(r, "connect")
    /\ UNCHANGED <<mode, query, reply, expired, got, unmet>>

(* A redirect to a scheme the client does not speak, or one too many.      *)
CannotFollow(r, o) ==
    /\ pc[r] = "wait" /\ (o \in NotHttp \/ hops[r] = MaxRedirects)
    /\ Refuse(r, 500)

(* validate_response_headers: httpx has decoded the body; the header that  *)
(* says so is dropped and the Content-Length of the encoded body is not,   *)
(* so that the server breaks off an answer that came encoded with a length.*)
Forwardable(encoded) == ~encoded

(* _handle_regular_response                                                *)
Relay(r, encoded) ==
    /\ pc[r] = "wait"
    /\ IF Forwardable(encoded) THEN Reply(r, "target", 200) ELSE Reply(r, "server", 0)

-----------------------------------------------------------------------------
(* What goes on meanwhile.                                                 *)

Expire(t) ==
    /\ t \notin expired /\ expired' = expired \cup {t}
    /\ UNCHANGED <<mode, requestVars, got, unmet>>

Serve(r) ==
    \/ CatchAll(r) \/ ValidateJwt(r) \/ EnforcePolicy(r)
    \/ InjectNothing(r) \/ InjectSecret(r) \/ InjectionFails(r)
    \/ HandleProxyRequest(r) \/ HandleStreaming(r)
    \/ Send(r) \/ CannotConnect(r) \/ TimeOut(r) \/ Break(r)
    \/ \E o \in Origins : Follow(r, o) \/ CannotFollow(r, o)
    \/ \E encoded \in BOOLEAN : Relay(r, encoded)

Next ==
    \/ \E r \in Requests : Serve(r) \/ \E q \in Asks[r] : Arrive(r, q)
    \/ \E t \in Genuine : Expire(t)

Spec == Init /\ [][Next]_vars

(* A coroutine that has begun is resumed, and each of its awaits ends: the *)
(* client has a timeout for the pool, the connection and the answer.       *)
Fairness == \A r \in Requests : WF_vars(Serve(r))

FairSpec == Spec /\ Fairness

-----------------------------------------------------------------------------
(* Properties.                                                             *)

TypeOK ==
    /\ mode \in Modes
    /\ query \in [Requests -> Queries \cup {None}]
    /\ pc \in [Requests -> Places]
    /\ auth \in [Requests -> DOMAIN Permissions \cup Secrets \cup {None}]
    /\ to \in [Requests -> Origins \cup {None, Unparsable, Relative}]
    /\ hops \in [Requests -> 0 .. MaxRedirects]
    /\ reply \in [Requests -> [by : {"none", "gateway", "target", "server"},
                               code : {0, 200, 400, 401, 403, 404, 413, 500, 502, 504}]]
    /\ expired \subseteq Genuine
    /\ got \subseteq [request : Requests, origin : Origins,
                      auth : DOMAIN Permissions \cup Secrets \cup {None},
                      hop : 0 .. MaxRedirects]
    /\ unmet \subseteq Requests

(* The first target gets the agent's own token in the place of the secret  *)
(* that is to be injected only if the secret could not be put together.    *)
TokenLeavesForWantOfSecret ==
    \A g \in got :
        g.auth = query[g.request].token /\ SecretName(query[g.request]) # None
            => g.request \in unmet

(* Every request is answered, though connections, targets and redirects    *)
(* fail it, and others hold the connections.                               *)
EveryRequestIsAnswered ==
    \A r \in Requests : pc[r] # "idle" ~> pc[r] = "done"

(* What the gateway refuses in its own name, by the code of its answer.    *)
PhaseOf(r) ==
    IF pc[r] = "idle" THEN "idle"
    ELSE IF pc[r] # "done" THEN "open"
    ELSE IF reply[r].by = "target" THEN "answered"
    ELSE IF reply[r].by = "gateway" /\ reply[r].code \in {400, 401, 403, 404, 413}
         THEN "refused" ELSE "failed"

(* What may reach a target, in which mode, and with which credentials.     *)
Admissible ==
    {x \in Modes \X Queries :
        /\ x[2].path = "proxy" /\ x[2].token \in Genuine
        /\ x[2].target \in Origins \ (Blocked \cup NotHttp)
        /\ x[1] # "disabled" =>
              /\ DomainOf[x[2].target] \in AllowedDomains(x[2].token)
              /\ x[2].method \in AllowedMethods(x[2].token)}

Entitled == [q \in Queries |-> {q.token, SecretName(q)}]

Contract == INSTANCE ProxyContract WITH
    setting <- mode,
    asked   <- query,
    phase   <- [r \in Requests |-> PhaseOf(r)]

(* Through middlewares, failures and redirects, the gateway keeps what     *)
(* ProxyContract promises: nothing inadmissible reaches a target, what the *)
(* gateway refuses has reached nobody, and the credentials of a request    *)
(* reach only the domain it was for.                                       *)
ImplementsContract == Contract!Spec
=============================================================================
