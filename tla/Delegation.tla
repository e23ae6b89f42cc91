----------------------------- MODULE Delegation -----------------------------
(***************************************************************************)
(* Delegation in the SDK: macaroons, the delegation manager of a process,  *)
(* the client's operations on them, and the JWT claims that carry them to  *)
(* other processes.                                                        *)
(*                                                                         *)
(* A macaroon is [id, key, agent, caveats].  "key" is the root key that it *)
(* is signed with; nothing changes a macaroon after it is signed, so that  *)
(* a signature is right under a key if and only if that is the key.  The   *)
(* caveat on the agent, of which there is one, is kept apart as "agent".   *)
(* A root key is [process, run]: each process draws its own when it starts *)
(* and keeps everything in memory.                                         *)
(***************************************************************************)
EXTENDS Integers, Sequences, FiniteSets

CONSTANTS
    Processes, Agents,
    Resources,      \* what a context or a caveat may name
    Covers,         \* Covers[r]: the resources whose names begin with r
    Actions, Addresses,
    Restrictions,   \* what may be delegated: [to, resource, actions, ttl,
                    \* address, uses]
    InitialCaveats, \* sequences of caveats that a root may get
    Contexts,       \* what a verifier may know of a request: [agent,
                    \* resource, action, address, uses, depth]
    MaxMacaroons,   \* bound on the macaroons made
    MaxClaims,      \* bound on the macaroons turned into claims
    MaxRuns,        \* bound on the starts of a process
    MaxTime,        \* bound on the clock
    None

CaveatTypes == {"time_before", "time_after", "resource_prefix", "action_limit",
                "ip_address", "request_count", "delegation_depth"}

(* A caveat with a value of its kind.                                      *)
ProperCaveat(c) ==
    /\ c = [type |-> c.type, value |-> c.value]
    /\ c.type \in CaveatTypes
    /\ c.type \in {"time_before", "time_after"} => c.value \in Int
    /\ c.type \in {"request_count", "delegation_depth"} => c.value \in Nat
    /\ c.type = "resource_prefix" => c.value \in Resources
    /\ c.type = "action_limit" => c.value \subseteq Actions
    /\ c.type = "ip_address" => c.value \in Addresses

ASSUME DelegationAssumption ==
    /\ Covers \in [Resources -> SUBSET Resources]
    /\ Restrictions \subseteq [to : Agents, resource : Resources \cup {None},
                               actions : SUBSET Actions, ttl : Int,
                               address : Addresses \cup {None}, uses : Nat \cup {None}]
    /\ \A s \in InitialCaveats :
          /\ s \in Seq({s[i] : i \in DOMAIN s})
          /\ \A i \in DOMAIN s : ProperCaveat(s[i])
    /\ Contexts \subseteq [agent : Agents, resource : Resources, action : Actions,
                           address : Addresses, uses : Nat, depth : Nat]
    /\ None \notin Resources \cup Addresses \cup Nat
    /\ MaxMacaroons \in Nat /\ MaxClaims \in Nat /\ MaxRuns \in Nat /\ MaxTime \in Nat

Keys == [process : Processes, run : Nat]

VARIABLES
    now,
    run,        \* run[p]: how often p has been started again
    held,       \* held[p]: the macaroons in the memory of p
    chains,     \* chains[p]: delegation_chains, from identifiers to chains
    current,    \* current[p]: the last macaroon of the chain p is making
    links,      \* links[p]: delegation_tokens of that chain, by agent
    tokens,     \* what the client has returned, wherever it has gone
    claims,     \* JWT claims, wherever they have gone
    made,       \* history: every macaroon
    ancestors   \* history: ancestors[i]: what macaroon i was delegated from

processVars == <<run, held, chains, current, links>>
vars == <<now, processVars, tokens, claims, made, ancestors>>

Nobody == [a \in {} |-> None]

Init ==
    /\ now = 0
    /\ run = [p \in Processes |-> 0]
    /\ held = [p \in Processes |-> {}]
    /\ chains = [p \in Processes |-> Nobody]
    /\ current = [p \in Processes |-> None]
    /\ links = [p \in Processes |-> Nobody]
    /\ tokens = {} /\ claims = {} /\ made = {}
    /\ ancestors = Nobody

RootKey(p) == [process |-> p, run |-> run[p]]

(* f with f[x] set to y, where x may be new.                               *)
Put(f, x, y) == [z \in DOMAIN f \cup {x} |-> IF z = x THEN y ELSE f[z]]

-----------------------------------------------------------------------------
(* Caveats.                                                                *)

CaveatOf(type, value) == [type |-> type, value |-> value]

(* Caveat.to_string, from_string: a caveat that is not given is left out.  *)
Given(type, value) == IF value = None THEN <<>> ELSE <<CaveatOf(type, value)>>

(* _verify_caveat.  The counts are the verifier's own.                     *)
CaveatHolds(c, context, time) ==
    CASE c.type = "time_before"      -> time < c.value
      [] c.type = "time_after"       -> time > c.value
      [] c.type = "resource_prefix"  -> context.resource \in Covers[c.value]
      [] c.type = "action_limit"     -> context.action \in c.value
      [] c.type = "ip_address"       -> context.address = c.value
      [] c.type = "request_count"    -> context.uses <= c.value
      [] c.type = "delegation_depth" -> context.depth <= c.value

AllHold(caveats, context, time) ==
    \A i \in DOMAIN caveats : CaveatHolds(caveats[i], context, time)

(* Macaroon.verify                                                         *)
Verifies(m, key, context, time) ==
    /\ m.key = key
    /\ m.agent = context.agent
    /\ AllHold(m.caveats, context, time)

Depths(m) == {i \in DOMAIN m.caveats : m.caveats[i].type = "delegation_depth"}

(* _get_delegation_depth: the first of its kind.                           *)
DepthOf(m) ==
    IF Depths(m) = {} THEN 0
    ELSE m.caveats[CHOOSE i \in Depths(m) : \A j \in Depths(m) : i <= j].value

(* What delegate_access and create_delegation_chain make of a restriction. *)
CaveatsFor(r) ==
    Given("resource_prefix", r.resource)
    \o Given("action_limit", IF r.actions = {} THEN None ELSE r.actions)
    \o <<CaveatOf("time_before", now + r.ttl)>>
    \o Given("ip_address", r.address)
    \o Given("request_count", r.uses)

-----------------------------------------------------------------------------
(* DelegationManager.                                                      *)

NextId == Cardinality(made) + 1

(* create_root_macaroon                                                    *)
RootFor(p, i, agent, initial) ==
    [id |-> i, key |-> RootKey(p), agent |-> agent, caveats |-> initial]

(* Mutant: the caveats on time do not go from parent to child.             *)
DelegatedAfresh(p, i, parent, agent, more) ==
    [id |-> i, key |-> RootKey(p), agent |-> agent,
     caveats |-> SelectSeq(parent.caveats, LAMBDA c : c.type # "time_before")
                     \o <<CaveatOf("delegation_depth", DepthOf(parent) + 1)>> \o more]

(* Mutant: a new depth takes the place of the parent's.                    *)
DelegatedDeeper(p, i, parent, agent, more) ==
    [id |-> i, key |-> RootKey(p), agent |-> agent,
     caveats |-> SelectSeq(parent.caveats, LAMBDA c : c.type # "delegation_depth")
                     \o <<CaveatOf("delegation_depth", DepthOf(parent) + 1)>> \o more]

(* delegate_macaroon: the parent's caveats, the depth, and what is added.  *)
Delegated(p, i, parent, agent, more) ==
    [id |-> i, key |-> RootKey(p), agent |-> agent,
     caveats |-> parent.caveats
                     \o <<CaveatOf("delegation_depth", DepthOf(parent) + 1)>> \o more]

(* Mutant: a chain is what the parent's would have been.                   *)
ChainForgotten(known, parent, i) == <<parent.id, i>>

ChainFor(known, parent, i) ==
    (IF parent.id \in DOMAIN known THEN known[parent.id] ELSE <<parent.id>>) \o <<i>>

(* get_delegation_chain                                                    *)
ChainAt(p, i) == IF i \in DOMAIN chains[p] THEN chains[p][i] ELSE <<>>

Descent(parent) == ancestors[parent.id] \cup {parent}

CreateRootMacaroon(p, agent, initial) ==
    /\ Cardinality(made) < MaxMacaroons
    /\ LET m == RootFor(p, NextId, agent, initial)
       IN  /\ held' = [held EXCEPT ![p] = @ \cup {m}]
           /\ made' = made \cup {m}
           /\ chains' = [chains EXCEPT ![p] = Put(@, m.id, <<m.id>>)]
           /\ ancestors' = Put(ancestors, m.id, {})
    /\ UNCHANGED <<now, run, current, links, tokens, claims>>

(* The manager makes a macaroon; where it goes is up to the caller.        *)
Make(p, parent, agent, more) ==
    LET m == Delegated(p, NextId, parent, agent, more)
    IN  /\ held' = [held EXCEPT ![p] = @ \cup {m}]
        /\ made' = made \cup {m}
        /\ chains' = [chains EXCEPT ![p] = Put(@, m.id, ChainFor(@, parent, m.id))]
        /\ ancestors' = Put(ancestors, m.id, Descent(parent))

DelegateMacaroon(p, parent, r) ==
    /\ Cardinality(made) < MaxMacaroons
    /\ Make(p, parent, r.to, CaveatsFor(r))
    /\ UNCHANGED <<now, run, current, links, tokens, claims>>

(* macaroon_to_jwt_claims, with the chain that p knows.                    *)
ToClaims(p, m) ==
    /\ Cardinality(claims) < MaxClaims
    /\ claims' = claims \cup {[macaroon |-> m, chain |-> ChainAt(p, m.id)]}
    /\ UNCHANGED <<now, processVars, tokens, made, ancestors>>

(* jwt_claims_to_macaroon: no signature is looked at; a chain that p does  *)
(* not know is taken from the claims.                                      *)
FromClaims(p, c) ==
    /\ held' = [held EXCEPT ![p] = @ \cup {c.macaroon}]
    /\ chains' = [chains EXCEPT ![p] =
                     IF c.macaroon.id \in DOMAIN @ THEN @ ELSE Put(@, c.macaroon.id, c.chain)]
    /\ UNCHANGED <<now, run, current, links, tokens, claims, made, ancestors>>

-----------------------------------------------------------------------------
(* The client.                                                             *)

(* Macaroon.deserialize, which checks the signature.                       *)
Deserializes(m, key) == m.key = key

(* delegate_access.  No macaroon of the delegator is ever found, so that   *)
(* each delegation starts from a new root (_get_agent_macaroon).           *)
DelegateAccess(p, delegator, r) ==
    /\ Cardinality(made) + 1 < MaxMacaroons
    /\ r.actions # {} /\ r.ttl > 0
    /\ LET root  == RootFor(p, NextId, delegator, <<>>)
           child == Delegated(p, NextId + 1, root, r.to, CaveatsFor(r))
           known == Put(chains[p], root.id, <<root.id>>)
       IN  /\ held' = [held EXCEPT ![p] = @ \cup {root, child}]
           /\ made' = made \cup {root, child}
           /\ chains' = [chains EXCEPT ![p] = Put(known, child.id, ChainFor(known, root, child.id))]
           /\ ancestors' = Put(Put(ancestors, root.id, {}), child.id, {root})
           /\ tokens' = tokens \cup {child}
    /\ UNCHANGED <<now, run, current, links, claims>>

(* create_delegation_chain: a root for the first link only.                *)
BeginChain(p, agent) ==
    /\ current[p] = None /\ Cardinality(made) < MaxMacaroons
    /\ LET root == RootFor(p, NextId, agent, <<>>)
       IN  /\ held' = [held EXCEPT ![p] = @ \cup {root}]
           /\ made' = made \cup {root}
           /\ chains' = [chains EXCEPT ![p] = Put(@, root.id, <<root.id>>)]
           /\ ancestors' = Put(ancestors, root.id, {})
           /\ current' = [current EXCEPT ![p] = root]
           /\ links' = [links EXCEPT ![p] = Nobody]
    /\ UNCHANGED <<now, run, tokens, claims>>

(* One link: the macaroon before is the parent, whoever "from" names, and  *)
(* an agent that is named twice keeps the later token.                     *)
AddLink(p, r) ==
    /\ current[p] # None /\ Cardinality(made) < MaxMacaroons
    /\ Make(p, current[p], r.to, CaveatsFor(r))
    /\ LET m == Delegated(p, NextId, current[p], r.to, CaveatsFor(r))
       IN  /\ current' = [current EXCEPT ![p] = m]
           /\ links' = [links EXCEPT ![p] = Put(@, r.to, m)]
    /\ UNCHANGED <<now, run, tokens, claims>>

(* The tokens are returned together, or none of them if a link is without  *)
(* what it needs; the macaroons stay.                                      *)
EndChain(p, complete) ==
    /\ current[p] # None
    /\ current' = [current EXCEPT ![p] = None]
    /\ links' = [links EXCEPT ![p] = Nobody]
    /\ tokens' = IF complete THEN tokens \cup {links[p][a] : a \in DOMAIN links[p]} ELSE tokens
    /\ UNCHANGED <<now, run, held, chains, claims, made, ancestors>>

(* verify_delegation: what p honours changes nothing in it.                *)
Honours(p, m, context) ==
    /\ Deserializes(m, RootKey(p))
    /\ Verifies(m, RootKey(p), context, now)

-----------------------------------------------------------------------------

(* A process ends and starts again, with a new key and nothing else.       *)
Restart(p) ==
    /\ run[p] < MaxRuns
    /\ run' = [run EXCEPT ![p] = @ + 1]
    /\ held' = [held EXCEPT ![p] = {}]
    /\ chains' = [chains EXCEPT ![p] = Nobody]
    /\ current' = [current EXCEPT ![p] = None]
    /\ links' = [links EXCEPT ![p] = Nobody]
    /\ UNCHANGED <<now, tokens, claims, made, ancestors>>

Tick ==
    /\ now < MaxTime /\ now' = now + 1
    /\ UNCHANGED <<processVars, tokens, claims, made, ancestors>>

Manager(p) ==
    \/ \E a \in Agents, s \in InitialCaveats : CreateRootMacaroon(p, a, s)
    \/ \E m \in held[p] : ToClaims(p, m) \/ \E r \in Restrictions : DelegateMacaroon(p, m, r)
    \/ \E c \in claims : FromClaims(p, c)

Client(p) ==
    \/ \E a \in Agents, r \in Restrictions : DelegateAccess(p, a, r)
    \/ \E a \in Agents : BeginChain(p, a)
    \/ \E r \in Restrictions : AddLink(p, r)
    \/ \E complete \in BOOLEAN : EndChain(p, complete)

Next ==
    \/ \E p \in Processes : Manager(p) \/ Client(p) \/ Restart(p)
    \/ Tick

Spec == Init /\ [][Next]_vars

-----------------------------------------------------------------------------
(* Properties.                                                             *)

ElementsOf(s) == {s[i] : i \in DOMAIN s}

TypeOK ==
    /\ now \in Nat
    /\ run \in [Processes -> Nat]
    /\ held \in [Processes -> SUBSET made]
    /\ current \in [Processes -> made \cup {None}]
    /\ \A p \in Processes : DOMAIN chains[p] \subseteq {m.id : m \in made}
    /\ \A p \in Processes : \A a \in DOMAIN links[p] : links[p][a] \in made
    /\ tokens \subseteq made
    /\ \A c \in claims : c.macaroon \in made
    /\ \A m \in made :
          /\ m.id \in Nat /\ m.key \in Keys /\ m.agent \in Agents
          /\ \A i \in DOMAIN m.caveats : ProperCaveat(m.caveats[i])

(* Whatever a process honours a macaroon for, each macaroon it descends    *)
(* from would now allow to its own agent: delegation can only add          *)
(* restrictions, through chains, claims and other processes.               *)
DelegationNarrows ==
    \A p \in Processes, m \in made, x \in Contexts :
        Honours(p, m, x) => \A parent \in ancestors[m.id] : AllHold(parent.caveats, x, now)

(* However long its chain has become, a macaroon is honoured no deeper than*)
(* its root has laid down: at most as many links as the depth caveat that  *)
(* the root was made with, or one, if it was made without.                 *)
RootSetsTheDepth ==
    \A p \in Processes, m \in made, x \in Contexts :
        Honours(p, m, x) =>
            \A root \in ancestors[m.id] :
                ancestors[root.id] = {} =>
                    x.depth <= IF Depths(root) = {} THEN 1 ELSE DepthOf(root)

(* The chain that a process knows of a macaroon is its descent, from the   *)
(* root on, also when the chain came in with claims and though a process   *)
(* forgets all of them when it starts again.                               *)
ChainsAreDescents ==
    \A p \in Processes : \A i \in DOMAIN chains[p] :
        LET chain == chains[p][i]
        IN  /\ ElementsOf(chain) = {m.id : m \in ancestors[i]} \cup {i}
            /\ \A j, k \in DOMAIN chain : j < k => chain[j] < chain[k]
=============================================================================
