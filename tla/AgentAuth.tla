----------------------------- MODULE AgentAuth -----------------------------
(***************************************************************************)
(* Agents, their challenge-response login, their policies and the use of   *)
(* their tokens.                                                           *)
(*                                                                         *)
(* An agent is registered with a public key, asks for a nonce, signs it    *)
(* and exchanges it for a JWT whose scope is put together from its "allow" *)
(* policies at that moment.  The gateway and the control plane then accept *)
(* the token on its signature and its expiry alone.                        *)
(*                                                                         *)
(* A login is a synchronous handler in a thread of its own with a database *)
(* session of its own, so logins interleave between their queries.  A row  *)
(* written under a unique constraint is one step.  Time is counted in      *)
(* units in which a handler between two of its queries takes none.         *)
(***************************************************************************)
EXTENDS Naturals

CONSTANTS
    Agents,          \* the ids of agents
    Keys,            \* Ed25519 key pairs
    Policies,        \* the ids of policies
    Nonces,          \* uuid4 values
    Logins,          \* requests POST /auth/token
    Calls,           \* requests that carry a token
    Actions,         \* what a policy allows; in a token, the scope
    ActionLists,     \* the lists of actions that policies are given
    Star,            \* the action "*"
    Domains,         \* the actions "domain:..."
    DefaultDomains,  \* those of the gateway's built-in list
    Nil,             \* no key, no agent, no nonce
    NonceLife,       \* 5 minutes, in units of time
    TokenLife,       \* 30 minutes, in units of time
    MaxTime          \* bound on the clock

ASSUME AuthAssumption ==
    /\ Star \in Actions /\ Star \notin Domains
    /\ ActionLists \subseteq SUBSET Actions
    /\ DefaultDomains \subseteq Domains /\ Domains \subseteq Actions
    /\ Nil \notin Agents \cup Keys \cup Nonces
    /\ NonceLife \in Nat /\ TokenLife \in Nat /\ MaxTime \in Nat

VARIABLES
    now,       \* the clock
    key,       \* key[a]: the public key of a, Nil before a is registered
    status,    \* status[a]: "active" or "inactive"
    policies,  \* the table of policies
    nonces,    \* the table of nonces
    pc,        \* pc[l]: the next step of login l
    who,       \* who[l]: the agent l says it is
    shown,     \* shown[l]: the nonce l presents
    signer,    \* signer[l]: the key that signed that nonce
    scope,     \* scope[l]: the scope of the token of l
    exp,       \* exp[l]: when the token of l expires
    outcome,   \* outcome[c]: what became of call c
    carried,   \* carried[c]: the login whose token c carries
    dest,      \* dest[c]: the domain c is for
    at,        \* at[c]: when c was let through
    issued,    \* history: the nonces ever made
    spent,     \* history: the nonces a login has deleted
    tardy,     \* history: logins that began with a spent or expired nonce
    granted    \* history: granted[<<a, d>>]: when a policy last allowed d to a

agentVars == <<key, status>>
loginVars == <<pc, who, shown, signer, scope, exp>>
callVars  == <<outcome, carried, dest, at>>
vars == <<now, agentVars, policies, nonces, loginVars, callVars,
          issued, spent, tardy, granted>>

Effects  == {"allow", "deny"}
Statuses == {"active", "inactive"}
Steps    == {"idle", "select", "consume", "verify", "granted", "refused"}
Outcomes == {"none", "forwarded", "delegated", "unauthorized", "forbidden"}
NonceRow  == [nonce : Nonces, agent : Agents, expires : Nat]
PolicyRow == [id : Policies, agent : Agents, effect : Effects,
              actions : ActionLists]

Init ==
    /\ now = 1
    /\ key = [a \in Agents |-> Nil]
    /\ status = [a \in Agents |-> "active"]
    /\ policies = {} /\ nonces = {}
    /\ pc = [l \in Logins |-> "idle"]
    /\ who = [l \in Logins |-> Nil]
    /\ shown = [l \in Logins |-> Nil]
    /\ signer = [l \in Logins |-> Nil]
    /\ scope = [l \in Logins |-> {}]
    /\ exp = [l \in Logins |-> 0]
    /\ outcome = [c \in Calls |-> "none"]
    /\ carried = [c \in Calls |-> Nil]
    /\ dest = [c \in Calls |-> Nil]
    /\ at = [c \in Calls |-> 0]
    /\ issued = {} /\ spent = {} /\ tardy = {}
    /\ granted = [x \in Agents \X Domains |-> 0]

Registered(a) == key[a] # Nil

-----------------------------------------------------------------------------
(* The registry of agents.                                                 *)

(* register_agent: the id and the key must be new, or 409.                 *)
Register(a, k) ==
    /\ ~Registered(a) /\ \A b \in Agents : key[b] # k
    /\ key' = [key EXCEPT ![a] = k]
    /\ UNCHANGED <<now, status, policies, nonces, loginVars, callVars,
                   issued, spent, tardy, granted>>

(* delete_agent and update_agent; nothing but the status changes, and a    *)
(* deleted agent keeps its row, its key and its policies.                  *)
SetStatus(a, s) ==
    /\ Registered(a) /\ status[a] # s
    /\ status' = [status EXCEPT ![a] = s]
    /\ UNCHANGED <<now, key, policies, nonces, loginVars, callVars,
                   issued, spent, tardy, granted>>

-----------------------------------------------------------------------------
(* The policies.                                                           *)

Grants(rows) ==
    {x \in Agents \X Domains :
        \E p \in rows : p.agent = x[1] /\ p.effect = "allow" /\ x[2] \in p.actions}

(* History: what these rows grant is granted at this time.                 *)
NoteGrants(rows, time) ==
    granted' = [x \in Agents \X Domains |->
                   IF x \in Grants(rows) THEN time ELSE granted[x]]

PolicyChange(rows) ==
    /\ policies' = rows
    /\ NoteGrants(rows, now)
    /\ UNCHANGED <<now, agentVars, nonces, loginVars, callVars,
                   issued, spent, tardy>>

CreatePolicy(row) ==
    /\ Registered(row.agent) /\ \A p \in policies : p.id # row.id
    /\ PolicyChange(policies \cup {row})

(* The fields of the request replace those of the row; agent_id is a       *)
(* foreign key.                                                            *)
UpdatePolicy(old, row) ==
    /\ old \in policies /\ row.id = old.id /\ Registered(row.agent)
    /\ PolicyChange((policies \ {old}) \cup {row})

DeletePolicy(p) ==
    /\ p \in policies
    /\ PolicyChange(policies \ {p})

-----------------------------------------------------------------------------
(* Challenge and login.                                                    *)

(* Mutant: the row is not tied to the agent.                               *)
ChallengeOfNobody(a, n) ==
    /\ Registered(a) /\ \A r \in issued : r.nonce # n
    /\ LET row == [nonce |-> n, agent |-> Nil, expires |-> now + NonceLife]
       IN  nonces' = nonces \cup {row} /\ issued' = issued \cup {row}
    /\ UNCHANGED <<now, agentVars, policies, loginVars, callVars, spent, tardy,
                   granted>>

(* request_challenge: a fresh nonce, for whoever asks.                     *)
Challenge(a, n) ==
    /\ Registered(a) /\ \A r \in issued : r.nonce # n
    /\ LET row == [nonce |-> n, agent |-> a, expires |-> now + NonceLife]
       IN  nonces' = nonces \cup {row} /\ issued' = issued \cup {row}
    /\ UNCHANGED <<now, agentVars, policies, loginVars, callVars, spent, tardy,
                   granted>>

(* The token request arrives; 404 for an agent that is not registered.     *)
LoginBegin(l, a, n, k) ==
    /\ pc[l] = "idle" /\ Registered(a)
    /\ pc' = [pc EXCEPT ![l] = "select"]
    /\ who' = [who EXCEPT ![l] = a]
    /\ shown' = [shown EXCEPT ![l] = n]
    /\ signer' = [signer EXCEPT ![l] = k]
    /\ tardy' = IF n \in spent \/ \E r \in issued : r.nonce = n /\ r.expires <= now
                THEN tardy \cup {l} ELSE tardy
    /\ UNCHANGED <<now, agentVars, policies, nonces, scope, exp, callVars,
                   issued, spent, granted>>

Goto(l, step) ==
    /\ pc' = [pc EXCEPT ![l] = step]
    /\ UNCHANGED <<now, agentVars, policies, who, shown, signer, callVars,
                   issued, tardy, granted>>

(* Mutant: the SELECT does not compare the agent.                          *)
UsableByAnyone(l) == \E r \in nonces : r.nonce = shown[l] /\ r.expires > now

(* get_and_delete, its SELECT: this nonce, of this agent, not expired.     *)
Usable(l) ==
    \E r \in nonces :
        r.nonce = shown[l] /\ r.agent = who[l] /\ r.expires > now

LoginSelect(l) ==
    /\ pc[l] = "select" /\ Usable(l)
    /\ Goto(l, "consume")
    /\ UNCHANGED <<nonces, scope, exp, spent>>

(* 400: "Invalid, expired, or already used nonce."                         *)
LoginUnusable(l) ==
    /\ pc[l] = "select" /\ ~Usable(l)
    /\ Goto(l, "refused")
    /\ UNCHANGED <<nonces, scope, exp, spent>>

(* Mutant: the DELETE is not committed.                                    *)
LoginForgetsToConsume(l) ==
    /\ pc[l] = "consume"
    /\ Goto(l, "verify")
    /\ spent' = spent \cup {shown[l]}
    /\ UNCHANGED <<nonces, scope, exp>>

(* get_and_delete, its DELETE and COMMIT.  When another session has deleted*)
(* the row meanwhile, no row matches, SQLAlchemy warns, and it goes on.    *)
LoginConsume(l) ==
    /\ pc[l] = "consume"
    /\ nonces' = {r \in nonces : r.nonce # shown[l]}
    /\ spent' = spent \cup {shown[l]}
    /\ Goto(l, "verify")
    /\ UNCHANGED <<scope, exp>>

(* verify_signature, with the key of the agent.                            *)
Verified(l) == signer[l] = key[who[l]]

(* 401: "Invalid signature"; the nonce stays consumed.                     *)
LoginForged(l) ==
    /\ pc[l] = "verify" /\ ~Verified(l)
    /\ Goto(l, "refused")
    /\ UNCHANGED <<nonces, scope, exp, spent>>

(* Mutant: a policy grants whatever its effect.                            *)
ScopeOfAnyEffect(a) ==
    LET allowed == UNION {p.actions : p \in {q \in policies : q.agent = a}}
    IN  IF allowed = {} THEN {Star} ELSE allowed

(* The actions of the "allow" policies of a, or everything if there are    *)
(* none.                                                                   *)
ScopeOf(a) ==
    LET allowed == UNION {p.actions : p \in
                       {q \in policies : q.agent = a /\ q.effect = "allow"}}
    IN  IF allowed = {} THEN {Star} ELSE allowed

(* create_access_token, with the scope of the policies just read.          *)
LoginGrant(l) ==
    /\ pc[l] = "verify" /\ Verified(l)
    /\ scope' = [scope EXCEPT ![l] = ScopeOf(who[l])]
    /\ exp' = [exp EXCEPT ![l] = now + TokenLife]
    /\ Goto(l, "granted")
    /\ UNCHANGED <<nonces, spent>>

(* The process dies or the database fails; nothing uncommitted remains.    *)
LoginFails(l) ==
    /\ pc[l] \in {"select", "consume", "verify"}
    /\ Goto(l, "refused")
    /\ UNCHANGED <<nonces, scope, exp, spent>>

Login(l) ==
    \/ \E a \in Agents, n \in Nonces, k \in Keys : LoginBegin(l, a, n, k)
    \/ LoginSelect(l) \/ LoginUnusable(l) \/ LoginConsume(l)
    \/ LoginForged(l) \/ LoginGrant(l) \/ LoginFails(l)

-----------------------------------------------------------------------------
(* Calls that carry a token.                                               *)

(* Mutant: jwt.decode is called with verify_exp off.                       *)
ValidForever(l) == pc[l] = "granted"

(* jwt.decode: the token was signed by create_access_token and exp is not  *)
(* yet past.                                                               *)
Valid(l) == pc[l] = "granted" /\ now <= exp[l]

(* The gateway's list of domains for a scope.                              *)
AllowedDomains(s) ==
    IF s \cap Domains = {} THEN DefaultDomains ELSE s \cap Domains

Answer(c, l, d, result) ==
    /\ outcome[c] = "none" /\ pc[l] = "granted"
    /\ outcome' = [outcome EXCEPT ![c] = result]
    /\ carried' = [carried EXCEPT ![c] = l]
    /\ dest' = [dest EXCEPT ![c] = d]
    /\ at' = [at EXCEPT ![c] = now]
    /\ UNCHANGED <<now, agentVars, policies, nonces, loginVars,
                   issued, spent, tardy, granted>>

(* JWTValidationMiddleware, PolicyEnforcementMiddleware: 401, 403, or on.  *)
Proxy(c, l, d) ==
    \/ ~Valid(l) /\ Answer(c, l, d, "unauthorized")
    \/ Valid(l) /\ d \notin AllowedDomains(scope[l]) /\ Answer(c, l, d, "forbidden")
    \/ Valid(l) /\ d \in AllowedDomains(scope[l]) /\ Answer(c, l, d, "forwarded")

(* delegate_access, behind get_current_active_agent.                       *)
Delegate(c, l) ==
    \/ ~Valid(l) /\ Answer(c, l, Nil, "unauthorized")
    \/ Valid(l) /\ Answer(c, l, Nil, "delegated")

Tick ==
    /\ now < MaxTime
    /\ now' = now + 1
    /\ NoteGrants(policies, now + 1)
    /\ UNCHANGED <<agentVars, policies, nonces, loginVars, callVars,
                   issued, spent, tardy>>

Next ==
    \/ \E a \in Agents, k \in Keys : Register(a, k)
    \/ \E a \in Agents, s \in Statuses : SetStatus(a, s)
    \/ \E row \in PolicyRow : CreatePolicy(row)
    \/ \E old \in policies, row \in PolicyRow : UpdatePolicy(old, row)
    \/ \E p \in policies : DeletePolicy(p)
    \/ \E a \in Agents, n \in Nonces : Challenge(a, n)
    \/ \E l \in Logins : Login(l)
    \/ \E c \in Calls, l \in Logins : Delegate(c, l) \/ \E d \in Domains : Proxy(c, l, d)
    \/ Tick

Spec == Init /\ [][Next]_vars

-----------------------------------------------------------------------------
(* Properties.                                                             *)

(* Every variable keeps to the values the handlers and the tables have.    *)
TypeOK ==
    /\ now \in Nat
    /\ key \in [Agents -> Keys \cup {Nil}]
    /\ status \in [Agents -> Statuses]
    /\ policies \subseteq PolicyRow
    /\ nonces \subseteq NonceRow
    /\ pc \in [Logins -> Steps]
    /\ who \in [Logins -> Agents \cup {Nil}]
    /\ shown \in [Logins -> Nonces \cup {Nil}]
    /\ signer \in [Logins -> Keys \cup {Nil}]
    /\ scope \in [Logins -> SUBSET Actions]
    /\ exp \in [Logins -> Nat]
    /\ outcome \in [Calls -> Outcomes]
    /\ carried \in [Calls -> Logins \cup {Nil}]
    /\ dest \in [Calls -> Domains \cup {Nil}]
    /\ at \in [Calls -> Nat]
    /\ issued \subseteq NonceRow
    /\ spent \subseteq Nonces
    /\ tardy \subseteq Logins
    /\ granted \in [Agents \X Domains -> Nat]

(* A token of an agent was given for a nonce that was made for this very   *)
(* agent, signed with the key it is registered with, and the nonce is used *)
(* up, however logins of several agents interleave over the nonces.        *)
TokenIsEarned ==
    \A l \in Logins : pc[l] = "granted" =>
        /\ Registered(who[l]) /\ signer[l] = key[who[l]]
        /\ \E r \in issued : r.nonce = shown[l] /\ r.agent = who[l]
        /\ \A r \in nonces : r.nonce # shown[l]

(* A login that begins after its nonce has expired, or after any other     *)
(* login, successful or not, has deleted it, gets no token.                *)
ReplayFails == \A l \in tardy : pc[l] # "granted"

(* What the gateway lets an agent reach beyond the default domains, an     *)
(* "allow" policy of this agent has named within the life of a token: a    *)
(* policy that is changed or deleted stops working after that time.        *)
RevocationIsBounded ==
    \A c \in Calls :
        outcome[c] = "forwarded" /\ dest[c] \notin DefaultDomains =>
            LET last == granted[<<who[carried[c]], dest[c]>>]
            IN  last # 0 /\ at[c] <= last + TokenLife

-----------------------------------------------------------------------------
(* What the documentation says, and the code does not do.                  *)

(* request_challenge makes a "single-use challenge nonce" (auth.py:31), and*)
(* get_and_delete "deletes it to prevent reuse" (crud_nonce.py:26).        *)
NoncesAreSingleUse ==
    \A l, m \in Logins :
        pc[l] = "granted" /\ pc[m] = "granted" /\ shown[l] = shown[m] => l = m
=============================================================================
