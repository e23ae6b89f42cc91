-------------------------- MODULE SecurityFilters --------------------------
(***************************************************************************)
(* The security filters the gateway has in stock (its main module does not *)
(* install them): addresses, the rate limiter with its burst tokens, sizes *)
(* and suspicious content.                                                 *)
(*                                                                         *)
(* filter_request awaits nothing, so that each request is judged in one    *)
(* step; what meets here is the clock and the tables of the limiter.  Of a *)
(* request the model keeps the marks that the filters would find in it.    *)
(***************************************************************************)
EXTENDS Naturals, FiniteSets

CONSTANTS
    Requests,
    Addresses,        \* what may stand for a client
    Invalid,          \* of these, what is no address
    BlockedRanges,    \* the addresses in blocked_ip_ranges
    AllowedRanges,    \* the addresses in allowed_ip_ranges, if there are any
    Queries,          \* requests: [path, forwarded, real, host, method, size,
                      \* marks, inBody]
    Detectors,        \* the kinds of patterns that are looked for
    Limit,            \* rate_limit_requests
    Window,           \* rate_limit_window, in units of time
    Burst,            \* rate_limit_burst
    Second, Minute,   \* in units of time
    MaxSize,          \* max_request_size
    MaxTime,          \* bound on the clock
    None

HeaderMarks  == {"excessive_headers", "missing_required_header", "blocked_header",
                 "oversized_header"}
UrlMarks     == {"oversized_url", "blocked_file_extension"}
PatternMarks == {"xss_attempt", "sql_injection_attempt", "command_injection_attempt",
                 "path_traversal_attempt"}
Marks        == HeaderMarks \cup UrlMarks \cup PatternMarks
OtherMarks   == {"blocked_ip", "rate_limit_exceeded", "oversized_request"}

(* Every severity is critical, high or medium.                             *)
Critical == {"sql_injection_attempt", "command_injection_attempt"}
High     == {"missing_required_header", "blocked_header", "blocked_file_extension",
             "xss_attempt", "path_traversal_attempt", "blocked_ip"}

ASSUME FilterAssumption ==
    /\ Queries \subseteq [path : {"health", "other"}, forwarded : Addresses \cup {None},
                          real : Addresses \cup {None}, host : Addresses,
                          method : {"GET", "POST"}, size : Nat,
                          marks : SUBSET Marks, inBody : SUBSET PatternMarks]
    /\ Invalid \subseteq Addresses /\ BlockedRanges \subseteq Addresses
    /\ AllowedRanges \subseteq Addresses /\ Detectors \subseteq PatternMarks
    /\ Limit \in Nat /\ Window \in Nat /\ Burst \in Nat /\ Second \in Nat
    /\ Minute \in Nat \ {0} /\ MaxSize \in Nat /\ MaxTime \in Nat
    /\ None \notin Addresses

VARIABLES
    now,         \* the clock
    clients,     \* clients[c]: the requests of c that the limiter remembers
    burstTokens, \* burstTokens[c]
    lastRefill,  \* lastRefill[c]: when these were last looked at, 0 before
    violations,  \* what has been recorded: [request, type]
    outcome,     \* outcome[r]: what became of r
    judged,      \* judged[r]: what was asked, None before
    admitted     \* history: what the limiter let through

vars == <<now, clients, burstTokens, lastRefill, violations, outcome, judged, admitted>>

Outcomes == {"none", "skipped", "allowed", "denied", "limited", "too_large", "violation"}
Entries  == [request : Requests, client : Addresses, at : Nat, paid : BOOLEAN]

Init ==
    /\ now = 1
    /\ clients = [c \in Addresses |-> {}]
    /\ burstTokens = [c \in Addresses |-> Burst]
    /\ lastRefill = [c \in Addresses |-> 0]
    /\ violations = {}
    /\ outcome = [r \in Requests |-> "none"]
    /\ judged = [r \in Requests |-> None]
    /\ admitted = {}

(* get_client_ip: the first address that a header names, or the peer's.    *)
ClientOf(q) ==
    IF q.forwarded # None THEN q.forwarded
    ELSE IF q.real # None THEN q.real ELSE q.host

(* is_ip_blocked: a list of allowed addresses overrides the blocked ones.  *)
IsBlocked(c) ==
    \/ c \in Invalid
    \/ AllowedRanges # {} /\ c \notin AllowedRanges
    \/ AllowedRanges = {} /\ c \in BlockedRanges

(* The body, which the middleware reads for some methods only.             *)
Body(q)     == IF q.method = "POST" THEN q.inBody ELSE {}
BodySize(q) == IF q.method = "POST" THEN q.size ELSE 0

(* validate_headers, validate_url                                          *)
HeaderViolations(q) == q.marks \cap HeaderMarks
UrlViolations(q)    == q.marks \cap UrlMarks

(* detect_malicious_patterns.  The headers are searched as a JSON object,  *)
(* and braces are among the patterns of the command detector.              *)
PatternViolations(q) ==
    (q.marks \cup Body(q) \cup {"command_injection_attempt"}) \cap Detectors

Violations(q) == HeaderViolations(q) \cup UrlViolations(q) \cup PatternViolations(q)

-----------------------------------------------------------------------------
(* RateLimiter.is_allowed: old requests are forgotten, tokens are added    *)
(* when more than a second has gone, and the clock of the refill starts    *)
(* anew even when the time was too short for a token.                      *)

Since(c) == IF lastRefill[c] = 0 THEN 0 ELSE now - lastRefill[c]
Smaller(m, n) == IF m < n THEN m ELSE n

(* Mutant: nothing is forgotten.                                           *)
RecentAll(c) == clients[c]

Recent(c) == {e \in clients[c] : now <= e.at + Window}

(* Mutant: the tokens are not capped.                                      *)
RefilledUncapped(c) ==
    IF Since(c) > Second THEN burstTokens[c] + (Since(c) * Burst) \div Minute
    ELSE burstTokens[c]

Refilled(c) ==
    IF Since(c) > Second
    THEN Smaller(Burst, burstTokens[c] + (Since(c) * Burst) \div Minute)
    ELSE burstTokens[c]

(* Mutant: the clock of the refill is never set again.                     *)
RefillTimeFirst(c) == IF lastRefill[c] = 0 THEN now ELSE lastRefill[c]

RefillTime(c) ==
    IF lastRefill[c] = 0 \/ Since(c) > Second THEN now ELSE lastRefill[c]

Admit(r, c) ==
    /\ Cardinality(Recent(c)) < Limit \/ Refilled(c) > 0
    /\ LET paid  == Cardinality(Recent(c)) >= Limit
           entry == [request |-> r, client |-> c, at |-> now, paid |-> paid]
       IN  /\ clients' = [clients EXCEPT ![c] = Recent(c) \cup {entry}]
           /\ admitted' = admitted \cup {entry}
           /\ burstTokens' = [burstTokens EXCEPT ![c] =
                                 IF paid THEN Refilled(c) - 1 ELSE Refilled(c)]
    /\ lastRefill' = [lastRefill EXCEPT ![c] = RefillTime(c)]

Reject(c) ==
    /\ Cardinality(Recent(c)) >= Limit /\ Refilled(c) = 0
    /\ clients' = [clients EXCEPT ![c] = Recent(c)]
    /\ burstTokens' = [burstTokens EXCEPT ![c] = 0]
    /\ lastRefill' = [lastRefill EXCEPT ![c] = RefillTime(c)]
    /\ UNCHANGED admitted

-----------------------------------------------------------------------------
(* filter_request, by its outcome.                                         *)

Judge(r, q, verdict, types) ==
    /\ outcome' = [outcome EXCEPT ![r] = verdict]
    /\ judged' = [judged EXCEPT ![r] = q]
    /\ violations' = violations \cup [request : {r}, type : types]
    /\ UNCHANGED now

(* dispatch: the health endpoints are let through unfiltered.              *)
Skip(r, q) ==
    /\ outcome[r] = "none" /\ q.path = "health"
    /\ Judge(r, q, "skipped", {})
    /\ UNCHANGED <<clients, burstTokens, lastRefill, admitted>>

ComesIn(r, q) == outcome[r] = "none" /\ q.path # "health"

FilterIp(r, q) ==
    /\ ComesIn(r, q) /\ IsBlocked(ClientOf(q))
    /\ Judge(r, q, "denied", {"blocked_ip"})
    /\ UNCHANGED <<clients, burstTokens, lastRefill, admitted>>

FilterRate(r, q) ==
    /\ ComesIn(r, q) /\ ~IsBlocked(ClientOf(q))
    /\ Reject(ClientOf(q))
    /\ Judge(r, q, "limited", {"rate_limit_exceeded"})

(* The rest is counted by the limiter, whatever becomes of it.             *)
FilterSize(r, q) ==
    /\ ComesIn(r, q) /\ ~IsBlocked(ClientOf(q)) /\ BodySize(q) > MaxSize
    /\ Admit(r, ClientOf(q))
    /\ Judge(r, q, "too_large", {"oversized_request"})

FilterContent(r, q) ==
    /\ ComesIn(r, q) /\ ~IsBlocked(ClientOf(q)) /\ BodySize(q) <= MaxSize
    /\ Violations(q) \cap (Critical \cup High) # {}
    /\ Admit(r, ClientOf(q))
    /\ Judge(r, q, "violation", Violations(q))

(* Medium violations are recorded, and the request goes on.                *)
Allow(r, q) ==
    /\ ComesIn(r, q) /\ ~IsBlocked(ClientOf(q)) /\ BodySize(q) <= MaxSize
    /\ Violations(q) \cap (Critical \cup High) = {}
    /\ Admit(r, ClientOf(q))
    /\ Judge(r, q, "allowed", Violations(q))

Tick ==
    /\ now < MaxTime /\ now' = now + 1
    /\ UNCHANGED <<clients, burstTokens, lastRefill, violations, outcome, judged, admitted>>

Next ==
    \/ \E r \in Requests, q \in Queries :
          Skip(r, q) \/ FilterIp(r, q) \/ FilterRate(r, q) \/ FilterSize(r, q)
          \/ FilterContent(r, q) \/ Allow(r, q)
    \/ Tick

Spec == Init /\ [][Next]_vars

-----------------------------------------------------------------------------
(* Properties.                                                             *)

TypeOK ==
    /\ now \in Nat
    /\ clients \in [Addresses -> SUBSET Entries]
    /\ burstTokens \in [Addresses -> 0 .. Burst]
    /\ lastRefill \in [Addresses -> Nat]
    /\ violations \subseteq [request : Requests, type : Marks \cup OtherMarks]
    /\ outcome \in [Requests -> Outcomes]
    /\ judged \in [Requests -> Queries \cup {None}]
    /\ admitted \subseteq Entries

InWindow(c) == {e \in admitted : e.client = c /\ now <= e.at + Window}

(* In any window a client gets Limit requests for nothing, and with those  *)
(* that cost it a token no more than its limit, its burst, and the tokens  *)
(* that come back in that time.                                            *)
WindowIsRationed ==
    \A c \in Addresses :
        /\ Cardinality({e \in InWindow(c) : ~e.paid}) <= Limit
        /\ Cardinality(InWindow(c)) <= Limit + Burst + ((Window + Second) * Burst) \div Minute

(* A client is limited only after as many requests in the window before as *)
(* the limit allows.                                                       *)
LimitIsEarned ==
    [][\A r \in Requests :
          outcome[r] = "none" /\ outcome'[r] = "limited" =>
              Cardinality(InWindow(ClientOf(judged'[r]))) >= Limit]_vars
=============================================================================
