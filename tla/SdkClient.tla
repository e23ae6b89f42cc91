----------------------------- MODULE SdkClient -----------------------------
(***************************************************************************)
(* The Python SDK on one host: the calls that threads of its processes     *)
(* make to create, find, authenticate and delete agents.  A process has    *)
(* one client, whose access token its threads share; all processes share   *)
(* the system keyring; the control plane keeps the agents.                 *)
(*                                                                         *)
(* A step lies between two of: a request, a keyring access, a write of an  *)
(* attribute that other threads read.  Requests and the keyring may fail,  *)
(* the answer of a request that was carried out may be lost, and a process *)
(* may crash; the calls that were then under way are counted as mishaps,   *)
(* but for a keyring that cannot be read, which is taken for one that does *)
(* not have the key.                                                       *)
(*                                                                         *)
(* The control plane is taken at its interface: it may answer a platform's *)
(* token with a new agent and its key.  That it always breaks off after it *)
(* has registered the agent (module Bootstrap) is then the case in which   *)
(* the answer is lost.                                                     *)
(***************************************************************************)
EXTENDS EnvironmentDetector, Sequences

CONSTANTS
    Calls, Processes,
    ProcessOf,      \* ProcessOf[c]: the process of the thread that makes c
    Asks,           \* Asks[c]: what c may be: [kind, on, opt]
    Known,          \* Known[a]: the name of agent a, created earlier on this host
    Hosts,          \* the hosts a process may find itself on, by their signals
    PolicyNames,    \* the names that attestation policies give to agents
    ListLimit,      \* 500 agents in a list
    Lifetime,       \* of an access token
    Margin,         \* 10 seconds
    MaxTime,        \* bound on the clock
    None

Platforms == {"kubernetes", "aws", "azure", "docker"}

(* Agents made by a call: by create_agent_unauthenticated, or by a         *)
(* platform's endpoint, at a place of the chain of providers.              *)
New(c) == <<c, "new">>
Made   == {New(c) : c \in Calls} \cup (Calls \X Platforms \X Nat)
Ids    == DOMAIN Known \cup Made
Tokens == [agent : Ids, until : Nat]

(* Identifiers of agents are not used twice.                               *)
ASSUME SdkAssumption ==
    /\ ProcessOf \in [Calls -> Processes]
    /\ ListLimit \in Nat \ {0} /\ Margin \in Nat /\ Lifetime \in Nat /\ Margin < Lifetime
    /\ MaxTime \in Nat \ {0}
    /\ IsFiniteSet(DOMAIN Known) /\ \A a \in DOMAIN Known : a \notin Made
    /\ None \notin Ids /\ None \notin Tokens
    /\ \A c \in Calls : None \notin Asks[c]

VARIABLES
    now,
    agents,     \* control plane: agents[a] = [name, key, status]
    keyring,    \* keyring[a]: the private key of a
    access,     \* access[p]: _access_token, or None
    expires,    \* expires[p]: _token_expires_at, 0 for None
    ask,        \* ask[c]: what c is, None before it starts
    pc,         \* pc[c]: where c is
    chain,      \* chain[c]: the identity providers it has still to ask
    held,       \* held[c]: the agent or the token it was just answered
    looked,     \* looked[c]: when it looked at the access token, or began
    sent,       \* sent[c]: the token it sent
    listed,     \* history: the agents there were when c listed them
    mishaps,    \* history: calls that met a failure
    shared      \* history: processes with two calls under way at once

callVars == <<ask, pc, chain, held, looked, sent, listed, mishaps, shared>>
vars == <<now, agents, keyring, access, expires, callVars>>

Over == {"done", "failed"}
Running(p) == {c \in Calls : ProcessOf[c] = p /\ pc[c] \notin {"idle"} \cup Over}

Init ==
    /\ now = 1
    /\ agents = [a \in DOMAIN Known |-> [name |-> Known[a], key |-> a, status |-> "active"]]
    /\ keyring = [a \in DOMAIN Known |-> a]
    /\ access = [p \in Processes |-> None]
    /\ expires = [p \in Processes |-> 0]
    /\ ask = [c \in Calls |-> None]
    /\ pc = [c \in Calls |-> "idle"]
    /\ chain = [c \in Calls |-> <<>>]
    /\ held = [c \in Calls |-> None]
    /\ looked = [c \in Calls |-> 0]
    /\ sent = [c \in Calls |-> None]
    /\ listed = [c \in Calls |-> {}]
    /\ mishaps = {} /\ shared = {}

Goto(c, place) == pc' = [pc EXCEPT ![c] = place]

(* c goes on or ends; nothing else changes.                                *)
Move(c, place) ==
    /\ Goto(c, place)
    /\ UNCHANGED <<now, agents, keyring, access, expires, ask, chain, held, looked, sent, listed,
                   mishaps, shared>>

(* c meets a failure.                                                      *)
Mishap(c, place) ==
    /\ Goto(c, place)
    /\ mishaps' = mishaps \cup {c}
    /\ UNCHANGED <<now, agents, keyring, access, expires, ask, chain, held, looked, sent, listed,
                   shared>>

-----------------------------------------------------------------------------
(* The calls: each operation of the SDK and where it begins.               *)

(* Whether a platform's provider finds itself at home, which is not what   *)
(* the detector goes by.                                                   *)
AtHome(platform, host) ==
    CASE platform = "kubernetes" -> "k8s token" \in host
      [] platform = "aws"        -> {"AWS_REGION", "AWS_EXECUTION_ENV"} \cap host # {}
      [] platform = "azure"      -> "Azure IMDS" \in host
      [] platform = "docker"     ->
             {"/.dockerenv", "cgroup docker", "cgroup containerd"} \cap host # {}

(* _create_intelligent_provider_chain: the recommended provider first, the *)
(* keyring last.  Providers that are not at home have no part in it.       *)
Only(platform, chosen, host) ==
    IF platform \in chosen /\ AtHome(platform, host) THEN <<platform>> ELSE <<>>

InOrder(chosen, host) ==
    Only("kubernetes", chosen, host) \o Only("aws", chosen, host)
        \o Only("azure", chosen, host) \o Only("docker", chosen, host)

ProviderChain(recommended, host) ==
    InOrder(recommended, host) \o InOrder(Platforms \ recommended, host) \o <<"keyring">>

(* get_identity_with_auto_bootstrap asks the recommended provider again.   *)
SecondTry(recommended, host) == InOrder(recommended, host)

(* The host is settled when it is first asked about: no more than the      *)
(* chain is ever taken from it.  A DeepSecure object asks no detector.     *)
Detect(c, kind) ==
    \E host \in Hosts :
        \E recommended \in IF kind = "session" THEN {{}} ELSE RecommendedBootstrapMethods(host) :
            chain' = [chain EXCEPT ![c] =
                ProviderChain(recommended, host)
                    \o (IF kind = "auto" THEN SecondTry(recommended, host) ELSE <<>>)]

Begin(c, kind, place) ==
    /\ pc[c] = "idle"
    /\ \E q \in Asks[c] :
          /\ q.kind = kind
          /\ ask' = [ask EXCEPT ![c] = q]
    /\ Goto(c, place)
    /\ IF place = "lookup" THEN Detect(c, kind) ELSE UNCHANGED chain
    /\ looked' = [looked EXCEPT ![c] = IF place = "challenge" THEN now ELSE 0]
    /\ shared' = IF Running(ProcessOf[c]) = {} THEN shared ELSE shared \cup {ProcessOf[c]}
    /\ UNCHANGED <<now, agents, keyring, access, expires, held, sent, listed, mishaps>>

(* Client.agent, get_agent: find the agent of a name, or create it.        *)
Agent(c) == Begin(c, "find", "list")

(* AgentClient.create                                                      *)
Create(c) == Begin(c, "create", "post")

(* What Client asks with an access token.                                  *)
GetSecret(c)    == Begin(c, "request", "check")
DeleteSecret(c) == Begin(c, "request", "check")
ListSecrets(c)  == Begin(c, "request", "check")

(* GatewayClient.request and the integrations that are built on it.        *)
Proxy(c) == Begin(c, "proxy", "check")

(* Client.authenticate, login                                              *)
Authenticate(c) == Begin(c, "login", "lookup")

(* VaultClient.issue_credential                                            *)
IssueCredential(c) == Begin(c, "issue", "lookup")

(* IdentityManager.get_identity and get_identity_with_auto_bootstrap, of   *)
(* the manager that an AgentClient made.                                   *)
GetIdentity(c)                  == Begin(c, "lookup", "lookup")
GetIdentityWithAutoBootstrap(c) == Begin(c, "auto", "lookup")

(* AgentClient.update_agent                                                *)
UpdateAgent(c) == Begin(c, "update", "check")

(* Mutant: an agent is deleted with the token there is.                    *)
DeleteWithCachedToken(c) == Begin(c, "delete", "check")

(* AgentClient.delete_agent, which logs in as the agent first, or, if no   *)
(* Client made the AgentClient, asks without any token.                    *)
DeleteAgent(c)                == Begin(c, "delete", "challenge")
DeleteAgentUnauthenticated(c) == Begin(c, "discard", "erase")

(* What BaseClient._request is asked to do without an access token it      *)
(* refuses, as no client ever has an API token: also what is asked with a  *)
(* delegation token instead of an access token.                            *)
Tokenless(c) == Begin(c, "tokenless", "failed")

-----------------------------------------------------------------------------
(* Finding and creating agents.                                            *)

(* Mutant: agents that have been deleted are left out.                     *)
ListingsOfActive ==
    {S \in SUBSET {a \in DOMAIN agents : agents[a].status = "active"} :
        \A a \in DOMAIN agents :
            agents[a].status = "active" /\ Cardinality(DOMAIN agents) <= ListLimit => a \in S}

(* What list_agents may answer: ListLimit of the agents, in no order, the  *)
(* inactive ones among them.                                               *)
Listings ==
    {S \in SUBSET DOMAIN agents :
        Cardinality(S) = IF Cardinality(DOMAIN agents) < ListLimit
                         THEN Cardinality(DOMAIN agents) ELSE ListLimit}

(* get_by_name: the list and the search in it.                             *)
GetByName(c) ==
    /\ pc[c] = "list"
    /\ listed' = [listed EXCEPT ![c] = DOMAIN agents]
    /\ \E S \in Listings :
          Goto(c, IF \E a \in S : agents[a].name = ask[c].on THEN "done"
                  ELSE IF ask[c].opt THEN "post" ELSE "failed")
    /\ UNCHANGED <<now, agents, keyring, access, expires, ask, chain, held, looked, sent,
                   mishaps, shared>>

Put(f, x, y) == [z \in DOMAIN f \cup {x} |-> IF z = x THEN y ELSE f[z]]

(* A new agent, of an identifier that was not given before.                *)
Registered(a, name) ==
    /\ a \notin DOMAIN agents
    /\ agents' = Put(agents, a, [name |-> name, key |-> a, status |-> "active"])

(* create_agent_unauthenticated, for a key pair made just before: the      *)
(* answer carries the identifier of the agent.                             *)
CreateAgent(c) ==
    /\ pc[c] = "post"
    /\ Registered(New(c), ask[c].on)
    /\ \E answered \in BOOLEAN :
          /\ Goto(c, IF answered THEN "keep" ELSE "failed")
          /\ held' = [held EXCEPT ![c] = IF answered THEN New(c) ELSE None]
          /\ mishaps' = IF answered THEN mishaps ELSE mishaps \cup {c}
    /\ UNCHANGED <<now, keyring, access, expires, ask, chain, looked, sent, listed, shared>>

(* Mutant: get_by_name keeps no key.                                       *)
StoreNoKey(c) ==
    /\ pc[c] = "keep"
    /\ Goto(c, "done")
    /\ held' = [held EXCEPT ![c] = None]
    /\ UNCHANGED <<now, agents, keyring, access, expires, ask, chain, looked, sent, listed,
                   mishaps, shared>>

(* store_private_key_directly                                              *)
StorePrivateKey(c) ==
    /\ pc[c] = "keep"
    /\ keyring' = Put(keyring, held[c], held[c])
    /\ held' = [held EXCEPT ![c] = None]
    /\ Goto(c, "done")
    /\ UNCHANGED <<now, agents, access, expires, ask, chain, looked, sent, listed, mishaps, shared>>

-----------------------------------------------------------------------------
(* Identities: the chain of providers.                                     *)

(* An identity was found, for the agent asked for or for another.          *)
Found(c) == CASE ask[c].kind \in {"login", "session"} -> "challenge"
              [] ask[c].kind = "issue" -> "check"
              [] OTHER -> "done"

(* No identity from this provider: the next one, if there is one.          *)
AskNext(c) ==
    /\ chain' = [chain EXCEPT ![c] = Tail(@)]
    /\ pc' = [pc EXCEPT ![c] = IF Len(chain[c]) = 1 THEN "failed" ELSE "lookup"]

(* KeyringIdentityProvider.get_identity: a key that is there is found,     *)
(* unless the keyring cannot be read.                                      *)
KeyringIdentity(c) ==
    /\ pc[c] = "lookup" /\ Head(chain[c]) = "keyring"
    /\ \/ ask[c].on \in DOMAIN keyring /\ Goto(c, Found(c)) /\ UNCHANGED chain
       \/ AskNext(c)
    /\ UNCHANGED <<now, agents, keyring, access, expires, ask, held, looked, sent, listed,
                   mishaps, shared>>

(* A platform's provider presents a token of the platform to the control   *)
(* plane, which registers an agent of its own making, by the name of the   *)
(* policy that matches.  Only the client of an AgentClient understands the *)
(* answer; with another the provider stops at an error, and the chain goes *)
(* on.                                                                     *)
Attest(c, platform, answered) ==
    /\ pc[c] = "lookup" /\ Head(chain[c]) = platform
    /\ LET a == <<c, platform, Len(chain[c])>>
       IN  /\ \E name \in PolicyNames : Registered(a, name)
           /\ IF answered /\ ask[c].kind \in {"lookup", "auto"}
              THEN Goto(c, "claim") /\ held' = [held EXCEPT ![c] = a] /\ UNCHANGED chain
              ELSE AskNext(c) /\ UNCHANGED held
    /\ mishaps' = IF answered THEN mishaps ELSE mishaps \cup {c}
    /\ UNCHANGED <<now, keyring, access, expires, ask, looked, sent, listed, shared>>

(* No token, no policy, a spent token, no control plane: the next one.     *)
AttestRefused(c, platform) ==
    /\ pc[c] = "lookup" /\ Head(chain[c]) = platform
    /\ AskNext(c)
    /\ UNCHANGED <<now, agents, keyring, access, expires, ask, held, looked, sent, listed,
                   mishaps, shared>>

PostKubernetes(c) == \E answered \in BOOLEAN : Attest(c, "kubernetes", answered)
PostAws(c)        == \E answered \in BOOLEAN : Attest(c, "aws", answered)
PostAzure(c)      == \E answered \in BOOLEAN : Attest(c, "azure", answered)
PostDocker(c)     == \E answered \in BOOLEAN : Attest(c, "docker", answered)

KubernetesIdentity(c) == PostKubernetes(c) \/ AttestRefused(c, "kubernetes")
AwsIdentity(c)        == PostAws(c) \/ AttestRefused(c, "aws")
AzureIdentity(c)      == PostAzure(c) \/ AttestRefused(c, "azure")
DockerIdentity(c)     == PostDocker(c) \/ AttestRefused(c, "docker")

(* AgentClient.bootstrap_*: the key of the answer goes into the keyring,   *)
(* from where the provider takes it again, if it can.                      *)
Claim(c, platform) ==
    /\ pc[c] = "claim" /\ held[c][2] = platform
    /\ keyring' = Put(keyring, held[c], held[c])
    /\ held' = [held EXCEPT ![c] = None]
    /\ \/ Goto(c, Found(c)) /\ UNCHANGED chain
       \/ AskNext(c)
    /\ UNCHANGED <<now, agents, access, expires, ask, looked, sent, listed, mishaps, shared>>

BootstrapKubernetes(c) == Claim(c, "kubernetes")
BootstrapAws(c)        == Claim(c, "aws")
BootstrapAzure(c)      == Claim(c, "azure")
BootstrapDocker(c)     == Claim(c, "docker")

(* The keyring refuses the key: the agent is created and nobody has it.    *)
KeyringFails(c) ==
    /\ pc[c] \in {"keep", "claim"}
    /\ held' = [held EXCEPT ![c] = None]
    /\ mishaps' = mishaps \cup {c}
    /\ IF pc[c] = "keep" THEN Goto(c, "failed") /\ UNCHANGED chain ELSE AskNext(c)
    /\ UNCHANGED <<now, agents, keyring, access, expires, ask, looked, sent, listed, shared>>

-----------------------------------------------------------------------------
(* Access tokens.                                                          *)

(* Mutant: a token is used until it has expired.                           *)
StaleWithoutMargin(p) == access[p] = None \/ expires[p] = 0 \/ expires[p] <= now

(* Mutant: only the expiry is looked at.                                   *)
StaleByExpiry(p) == expires[p] <= now + Margin

(* _authenticated_request: whether it logs in first.                       *)
Stale(p) == access[p] = None \/ expires[p] = 0 \/ expires[p] <= now + Margin

CheckToken(c) ==
    /\ pc[c] = "check"
    /\ Goto(c, IF Stale(ProcessOf[c]) THEN "challenge" ELSE "send")
    /\ looked' = [looked EXCEPT ![c] = now]
    /\ UNCHANGED <<now, agents, keyring, access, expires, ask, chain, held, sent, listed,
                   mishaps, shared>>

(* get_access_token: the challenge, and the key to answer it with.         *)
Challenge(c) ==
    /\ pc[c] = "challenge"
    /\ Move(c, IF ask[c].on \in DOMAIN agents /\ ask[c].on \in DOMAIN keyring
               THEN "token" ELSE "failed")

(* The control plane gives a token to who has the agent's key, be the      *)
(* agent active or not.                                                    *)
GetToken(c) ==
    /\ pc[c] = "token"
    /\ IF keyring[ask[c].on] = agents[ask[c].on].key
       THEN /\ held' = [held EXCEPT ![c] = [agent |-> ask[c].on, until |-> now + Lifetime]]
            /\ Goto(c, "expiry")
       ELSE /\ Goto(c, "failed")
            /\ UNCHANGED held
    /\ UNCHANGED <<now, agents, keyring, access, expires, ask, chain, looked, sent, listed,
                   mishaps, shared>>

(* The two attributes are set one after the other.                         *)
SetExpiry(c) ==
    /\ pc[c] = "expiry"
    /\ expires' = [expires EXCEPT ![ProcessOf[c]] = held[c].until]
    /\ Goto(c, "assign")
    /\ UNCHANGED <<now, agents, keyring, access, ask, chain, held, looked, sent, listed, mishaps,
                   shared>>

SetToken(c) ==
    /\ pc[c] = "assign"
    /\ access' = [access EXCEPT ![ProcessOf[c]] = held[c]]
    /\ held' = [held EXCEPT ![c] = None]
    /\ Goto(c, IF ask[c].kind \in {"login", "session"} THEN "done" ELSE "send")
    /\ UNCHANGED <<now, agents, keyring, expires, ask, chain, looked, sent, listed, mishaps,
                   shared>>

(* An agent is deleted: it stays, inactive.                                *)
Deactivate(c) ==
    /\ agents' = [agents EXCEPT ![ask[c].on].status = "inactive"]
    /\ \E answered \in BOOLEAN :
          /\ Goto(c, IF answered THEN "done" ELSE "failed")
          /\ mishaps' = IF answered THEN mishaps ELSE mishaps \cup {c}

(* The request goes out with the token the client then has.  What is asked *)
(* of the vault or of an agent's record with an agent's token is refused,  *)
(* and GatewayClient passes an argument httpx does not know.               *)
Deliver(c) ==
    /\ pc[c] = "send"
    /\ sent' = IF ask[c].kind = "proxy" THEN sent ELSE [sent EXCEPT ![c] = access[ProcessOf[c]]]
    /\ IF ask[c].kind = "delete" /\ ask[c].on \in DOMAIN agents
       THEN Deactivate(c)
       ELSE /\ Goto(c, IF ask[c].kind = "request" THEN "done" ELSE "failed")
            /\ UNCHANGED <<agents, mishaps>>
    /\ UNCHANGED <<now, keyring, access, expires, ask, chain, held, looked, listed, shared>>

(* The control plane asks for no token when an agent is deleted.           *)
Erase(c) ==
    /\ pc[c] = "erase"
    /\ IF ask[c].on \in DOMAIN agents
       THEN Deactivate(c)
       ELSE Goto(c, "failed") /\ UNCHANGED <<agents, mishaps>>
    /\ UNCHANGED <<now, keyring, access, expires, ask, chain, held, looked, sent, listed, shared>>

-----------------------------------------------------------------------------
(* What goes wrong, and the clock.                                         *)

(* A request that does not arrive, or whose answer nothing depends on.     *)
RequestFails(c) ==
    /\ pc[c] \in {"list", "post", "challenge", "token", "send", "erase"}
    /\ Mishap(c, "failed")

(* A process crashes and starts again.                                     *)
Crash(p) ==
    /\ Running(p) # {}
    /\ pc' = [c \in Calls |-> IF c \in Running(p) THEN "failed" ELSE pc[c]]
    /\ held' = [c \in Calls |-> IF c \in Running(p) THEN None ELSE held[c]]
    /\ mishaps' = mishaps \cup Running(p)
    /\ access' = [access EXCEPT ![p] = None]
    /\ expires' = [expires EXCEPT ![p] = 0]
    /\ UNCHANGED <<now, agents, keyring, ask, chain, looked, sent, listed, shared>>

(* Time matters only while there are tokens.                               *)
Tick ==
    /\ now < MaxTime
    /\ \E p \in Processes : expires[p] # 0
    /\ now' = now + 1
    /\ UNCHANGED <<agents, keyring, access, expires, callVars>>

StartCall(c) ==
    \/ Agent(c) \/ Create(c) \/ GetSecret(c) \/ DeleteSecret(c) \/ ListSecrets(c) \/ Proxy(c)
    \/ Authenticate(c) \/ IssueCredential(c) \/ GetIdentity(c)
    \/ GetIdentityWithAutoBootstrap(c) \/ UpdateAgent(c) \/ DeleteAgent(c)
    \/ DeleteAgentUnauthenticated(c) \/ Tokenless(c)

Step(c) ==
    \/ GetByName(c) \/ CreateAgent(c) \/ StorePrivateKey(c) \/ KeyringFails(c)
    \/ KeyringIdentity(c)
    \/ KubernetesIdentity(c) \/ AwsIdentity(c) \/ AzureIdentity(c) \/ DockerIdentity(c)
    \/ BootstrapKubernetes(c) \/ BootstrapAws(c) \/ BootstrapAzure(c) \/ BootstrapDocker(c)
    \/ CheckToken(c) \/ Challenge(c) \/ GetToken(c)
    \/ SetExpiry(c) \/ SetToken(c) \/ Deliver(c) \/ Erase(c) \/ RequestFails(c)

ClientNext == \E c \in Calls : StartCall(c) \/ Step(c)

-----------------------------------------------------------------------------
(* Properties.                                                             *)

ClientTypeOK ==
    /\ now \in 1 .. MaxTime
    /\ DOMAIN Known \subseteq DOMAIN agents /\ DOMAIN agents \subseteq Ids
    /\ \A a \in DOMAIN agents : agents[a].status \in {"active", "inactive"}
    /\ DOMAIN keyring \subseteq Ids
    /\ \A p \in Processes :
          /\ access[p] = None \/ access[p].agent \in DOMAIN agents
          /\ expires[p] \in 0 .. MaxTime + Lifetime
    /\ \A c \in Calls :
          /\ ask[c] \in Asks[c] \cup {None}
          /\ (pc[c] = "idle") = (ask[c] = None)
          /\ pc[c] = "lookup" => chain[c] # <<>>
          /\ pc[c] \in {"expiry", "assign"} => held[c].agent = ask[c].on
          /\ pc[c] = "send" => access[ProcessOf[c]] # None

(* An agent whose key is in no keyring, so that nobody can ever log in as  *)
(* it, comes from a call that is still under way, that met a failure, or   *)
(* that had a platform's provider work with a client it cannot use.        *)
OrphansAreExplained ==
    \A a \in DOMAIN agents \ DOMAIN keyring :
        LET c == a[1]
        IN  \/ pc[c] \notin Over
            \/ c \in mishaps
            \/ a[2] # "new" /\ ask[c].kind \notin {"lookup", "auto"}

(* Finding an agent by its name creates no second agent of that name, even *)
(* when the first has been deleted, if the first was there when the agents *)
(* were listed and they were no more than a list holds.                    *)
NamesAreFound ==
    \A c \in Calls :
        New(c) \in DOMAIN agents /\ ask[c].kind = "find" =>
            \A a \in listed[c] :
                agents[a].name = ask[c].on => Cardinality(listed[c]) > ListLimit

(* A thread that has its client to itself sends tokens that were good for  *)
(* at least the margin when it looked.                                     *)
FreshIfAlone ==
    \A c \in Calls :
        sent[c] # None /\ ProcessOf[c] \notin shared
            => sent[c].until > looked[c] + Margin

(* An agent is deleted with its own token, and a process that acts for one *)
(* agent only uses that agent's token, if its calls do not overlap.        *)
OwnTokenIfAlone ==
    \A c \in Calls :
        /\ sent[c] # None /\ ProcessOf[c] \notin shared
        /\ \/ ask[c].kind = "delete"
           \/ \A d \in Calls : ProcessOf[d] = ProcessOf[c] /\ ask[d] # None
                    => ask[d].on = ask[c].on
        => sent[c].agent = ask[c].on

=============================================================================
