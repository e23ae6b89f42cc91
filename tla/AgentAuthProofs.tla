-------------------------- MODULE AgentAuthProofs --------------------------
(* Proofs about AgentAuth, for any sets of agents, policies, logins and    *)
(* calls and any lifetimes.                                                *)
EXTENDS AgentAuth, TLAPS

-----------------------------------------------------------------------------
(* The inductive invariant.                                                *)

Passed == {"consume", "verify", "granted"}

(* The nonces: no two rows for one value, and none for one that is spent.  *)
NoncesInOrder ==
    /\ nonces \subseteq issued
    /\ \A r, s \in issued : r.nonce = s.nonce => r = s
    /\ \A r \in nonces : r.nonce \notin spent
    /\ \A n \in spent : \E r \in issued : r.nonce = n

(* How far a login is tells what it has shown.                             *)
LoginsInOrder ==
    \A l \in Logins :
        /\ pc[l] # "idle" => who[l] \in Agents /\ Registered(who[l])
        /\ pc[l] \in Passed =>
               \E r \in issued : r.nonce = shown[l] /\ r.agent = who[l]
        /\ pc[l] \in {"verify", "granted"} => shown[l] \in spent
        /\ pc[l] = "granted" => signer[l] = key[who[l]]

(* A tardy login has not passed the SELECT, and never will.                *)
TardyIsLate ==
    \A l \in tardy :
        /\ pc[l] # "idle" /\ pc[l] \notin Passed
        /\ shown[l] \in spent \/ \E r \in issued : r.nonce = shown[l] /\ r.expires <= now

(* The history of grants is up to date.                                    *)
GrantsNoted ==
    /\ now >= 1
    /\ \A x \in Agents \X Domains : granted[x] <= now
    /\ \A x \in Grants(policies) : granted[x] = now

(* A token dies one lifetime after its last domain was granted.            *)
TokensAreBounded ==
    \A l \in Logins : pc[l] = "granted" =>
        \A d \in scope[l] \cap Domains :
            /\ granted[<<who[l], d>>] # 0
            /\ exp[l] <= granted[<<who[l], d>>] + TokenLife

(* A call that was let through carries a token.                            *)
CallsCarryTokens ==
    \A c \in Calls : outcome[c] = "forwarded" =>
        /\ carried[c] \in Logins /\ pc[carried[c]] = "granted"
        /\ dest[c] \in Domains

Inv ==
    /\ TypeOK
    /\ NoncesInOrder
    /\ LoginsInOrder
    /\ TardyIsLate
    /\ GrantsNoted
    /\ TokensAreBounded
    /\ CallsCarryTokens
    /\ RevocationIsBounded

-----------------------------------------------------------------------------

(* A scope is made of actions, and of domains only where a policy says so. *)
LEMMA ScopeIsGranted ==
    ASSUME TypeOK, NEW a \in Agents
    PROVE  /\ ScopeOf(a) \in SUBSET Actions
           /\ \A d \in ScopeOf(a) \cap Domains : <<a, d>> \in Grants(policies)
<1> DEFINE allowed == UNION {p.actions : p \in
                          {q \in policies : q.agent = a /\ q.effect = "allow"}}
<1>1. ScopeOf(a) = IF allowed = {} THEN {Star} ELSE allowed
  BY DEF ScopeOf
<1>2. \A d \in allowed : \E p \in policies :
          p.agent = a /\ p.effect = "allow" /\ d \in p.actions
  OBVIOUS
<1>3. allowed \subseteq Actions
  BY <1>2, AuthAssumption DEF TypeOK, PolicyRow
<1> HIDE DEF allowed
<1>4. ScopeOf(a) \in SUBSET Actions
  BY <1>1, <1>3, AuthAssumption
<1>5. ASSUME NEW d \in ScopeOf(a) \cap Domains PROVE <<a, d>> \in Grants(policies)
  <2>1. d \in allowed
    BY <1>1, <1>5, AuthAssumption
  <2> QED BY <2>1, <1>2 DEF Grants
<1> QED BY <1>4, <1>5

(* Each of the three handlers of policies writes rows of the table's type. *)
LEMMA PolicyStep ==
    ASSUME TypeOK,
           \/ \E row \in PolicyRow : CreatePolicy(row)
           \/ \E old \in policies, row \in PolicyRow : UpdatePolicy(old, row)
           \/ \E p \in policies : DeletePolicy(p)
    PROVE  \E rows \in SUBSET PolicyRow : PolicyChange(rows)
<1>1. ASSUME NEW row \in PolicyRow, CreatePolicy(row)
      PROVE  \E rows \in SUBSET PolicyRow : PolicyChange(rows)
  BY <1>1 DEF CreatePolicy, TypeOK
<1>2. ASSUME NEW old \in policies, NEW row \in PolicyRow, UpdatePolicy(old, row)
      PROVE  \E rows \in SUBSET PolicyRow : PolicyChange(rows)
  BY <1>2 DEF UpdatePolicy, TypeOK
<1>3. ASSUME NEW p \in policies, DeletePolicy(p)
      PROVE  \E rows \in SUBSET PolicyRow : PolicyChange(rows)
  BY <1>3 DEF DeletePolicy, TypeOK
<1> QED BY <1>1, <1>2, <1>3

-----------------------------------------------------------------------------

(* Every step keeps the types.                                             *)
LEMMA TypeKept == TypeOK /\ LoginsInOrder /\ [Next]_vars => TypeOK'
<1> SUFFICES ASSUME TypeOK, LoginsInOrder, [Next]_vars PROVE TypeOK'
  OBVIOUS
<1> USE AuthAssumption
    DEF TypeOK, Goto, Answer, NoteGrants, PolicyChange, agentVars, loginVars,
        callVars, Steps, Outcomes, NonceRow
<1>1. ASSUME NEW a \in Agents, NEW k \in Keys, Register(a, k) PROVE TypeOK'
  BY <1>1 DEF Register
<1>2. ASSUME NEW a \in Agents, NEW s \in Statuses, SetStatus(a, s) PROVE TypeOK'
  BY <1>2 DEF SetStatus
<1>3. ASSUME NEW rows \in SUBSET PolicyRow, PolicyChange(rows) PROVE TypeOK'
  BY <1>3
<1>4. ASSUME NEW a \in Agents, NEW n \in Nonces, Challenge(a, n) PROVE TypeOK'
  BY <1>4 DEF Challenge
<1>5. ASSUME NEW l \in Logins, Login(l) PROVE TypeOK'
  <2>1. ASSUME NEW a \in Agents, NEW n \in Nonces, NEW k \in Keys,
               LoginBegin(l, a, n, k)
        PROVE  TypeOK'
    BY <2>1 DEF LoginBegin
  <2>2. CASE LoginSelect(l) BY <2>2 DEF LoginSelect
  <2>3. CASE LoginUnusable(l) BY <2>3 DEF LoginUnusable
  <2>4. CASE LoginConsume(l)
    <3>1. shown[l] \in Nonces
      BY <2>4 DEF LoginConsume, LoginsInOrder, Passed
    <3> QED BY <2>4, <3>1 DEF LoginConsume
  <2>5. CASE LoginForged(l) BY <2>5 DEF LoginForged
  <2>6. CASE LoginGrant(l) 
    <3>1. ScopeOf(who[l]) \in SUBSET Actions
      <4>1. who[l] \in Agents
        BY <2>6 DEF LoginGrant, LoginsInOrder
      <4> QED BY <4>1, ScopeIsGranted
    <3> QED BY <2>6, <3>1 DEF LoginGrant
  <2>7. CASE LoginFails(l) BY <2>7 DEF LoginFails
  <2> QED BY <1>5, <2>1, <2>2, <2>3, <2>4, <2>5, <2>6, <2>7 DEF Login
<1>6. ASSUME NEW c \in Calls, NEW l \in Logins, NEW d \in Domains, Proxy(c, l, d)
      PROVE  TypeOK'
  BY <1>6 DEF Proxy
<1>7. ASSUME NEW c \in Calls, NEW l \in Logins, Delegate(c, l) PROVE TypeOK'
  BY <1>7 DEF Delegate
<1>8. CASE Tick
  BY <1>8 DEF Tick
<1>9. CASE UNCHANGED vars
  BY <1>9 DEF vars
<1> QED
  BY <1>1, <1>2, <1>3, <1>4, <1>5, <1>6, <1>7, <1>8, <1>9, PolicyStep DEF Next

(* Every step keeps the order among nonces and within logins.              *)
LEMMA LoginsKept == Inv /\ [Next]_vars => NoncesInOrder' /\ LoginsInOrder' /\ TardyIsLate'
<1> SUFFICES ASSUME Inv, [Next]_vars PROVE NoncesInOrder' /\ LoginsInOrder' /\ TardyIsLate'
  OBVIOUS
<1>0. TypeOK'
  BY TypeKept DEF Inv
<1> DEFINE Goal == NoncesInOrder' /\ LoginsInOrder' /\ TardyIsLate'
<1> USE AuthAssumption
    DEF Inv, TypeOK, NoncesInOrder, LoginsInOrder, TardyIsLate, Registered,
        Passed, NonceRow, agentVars, loginVars, callVars
<1>1. ASSUME NEW a \in Agents, NEW k \in Keys, Register(a, k) PROVE Goal
  BY <1>0, <1>1 DEF Register
<1>2. ASSUME NEW a \in Agents, NEW s \in Statuses, SetStatus(a, s) PROVE Goal
  BY <1>0, <1>2 DEF SetStatus
<1>3. ASSUME NEW rows \in SUBSET PolicyRow, PolicyChange(rows) PROVE Goal
  BY <1>0, <1>3 DEF PolicyChange, NoteGrants
<1>4. ASSUME NEW a \in Agents, NEW n \in Nonces, Challenge(a, n) PROVE Goal
  BY <1>0, <1>4 DEF Challenge
<1>5. ASSUME NEW l \in Logins, Login(l) PROVE Goal
  <2>1. ASSUME NEW a \in Agents, NEW n \in Nonces, NEW k \in Keys,
               LoginBegin(l, a, n, k)
        PROVE  Goal
    BY <1>0, <2>1 DEF LoginBegin
  <2>2. CASE LoginSelect(l) BY <1>0, <2>2 DEF LoginSelect, Goto, Usable
  <2>3. CASE LoginUnusable(l) BY <1>0, <2>3 DEF LoginUnusable, Goto
  <2>4. CASE LoginConsume(l) BY <1>0, <2>4 DEF LoginConsume, Goto
  <2>5. CASE LoginForged(l) BY <1>0, <2>5 DEF LoginForged, Goto
  <2>6. CASE LoginGrant(l) BY <1>0, <2>6 DEF LoginGrant, Goto, Verified
  <2>7. CASE LoginFails(l) BY <1>0, <2>7 DEF LoginFails, Goto
  <2> QED BY <1>5, <2>1, <2>2, <2>3, <2>4, <2>5, <2>6, <2>7 DEF Login
<1>6. ASSUME NEW c \in Calls, NEW l \in Logins, NEW d \in Domains, Proxy(c, l, d)
      PROVE  Goal
  BY <1>0, <1>6 DEF Proxy, Answer, Valid, AllowedDomains
<1>7. ASSUME NEW c \in Calls, NEW l \in Logins, Delegate(c, l) PROVE Goal
  BY <1>0, <1>7 DEF Delegate, Answer
<1>8. CASE Tick
  BY <1>0, <1>8 DEF Tick, NoteGrants
<1>9. CASE UNCHANGED vars
  BY <1>0, <1>9 DEF vars
<1> HIDE DEF Goal
<1> QED
  BY <1>1, <1>2, <1>3, <1>4, <1>5, <1>6, <1>7, <1>8, <1>9, PolicyStep
  DEF Next, Goal

(* Every step keeps the bound that policies set on tokens.                 *)
LEMMA GrantsKept == Inv /\ [Next]_vars => GrantsNoted' /\ TokensAreBounded'
<1> SUFFICES ASSUME Inv, [Next]_vars PROVE GrantsNoted' /\ TokensAreBounded'
  OBVIOUS
<1>0. TypeOK'
  BY TypeKept DEF Inv
<1> DEFINE Goal == GrantsNoted' /\ TokensAreBounded'
<1> USE AuthAssumption
    DEF Inv, TypeOK, GrantsNoted, Grants, TokensAreBounded, LoginsInOrder,
        agentVars, loginVars, callVars
<1>1. ASSUME NEW a \in Agents, NEW k \in Keys, Register(a, k) PROVE Goal
  BY <1>0, <1>1 DEF Register
<1>2. ASSUME NEW a \in Agents, NEW s \in Statuses, SetStatus(a, s) PROVE Goal
  BY <1>0, <1>2 DEF SetStatus
<1>3. ASSUME NEW rows \in SUBSET PolicyRow, PolicyChange(rows) PROVE Goal
  BY <1>0, <1>3 DEF PolicyChange, NoteGrants
<1>4. ASSUME NEW a \in Agents, NEW n \in Nonces, Challenge(a, n) PROVE Goal
  BY <1>0, <1>4 DEF Challenge
<1>5. ASSUME NEW l \in Logins, Login(l) PROVE Goal
  <2>1. ASSUME NEW a \in Agents, NEW n \in Nonces, NEW k \in Keys,
               LoginBegin(l, a, n, k)
        PROVE  Goal
    BY <1>0, <2>1 DEF LoginBegin
  <2>2. CASE LoginSelect(l) BY <1>0, <2>2 DEF LoginSelect, Goto, Usable
  <2>3. CASE LoginUnusable(l) BY <1>0, <2>3 DEF LoginUnusable, Goto
  <2>4. CASE LoginConsume(l) BY <1>0, <2>4 DEF LoginConsume, Goto
  <2>5. CASE LoginForged(l) BY <1>0, <2>5 DEF LoginForged, Goto
  <2>6. CASE LoginGrant(l)
    <3>1. \A d \in ScopeOf(who[l]) \cap Domains : granted[<<who[l], d>>] = now
      <4>1. who[l] \in Agents
        BY <2>6 DEF LoginGrant
      <4> QED BY <4>1, ScopeIsGranted
    <3>2. GrantsNoted'
      BY <1>0, <2>6 DEF LoginGrant, Goto
    <3>3. TokensAreBounded'
      BY <1>0, <2>6, <3>1 DEF LoginGrant, Goto
    <3> QED BY <3>2, <3>3
  <2>7. CASE LoginFails(l) BY <1>0, <2>7 DEF LoginFails, Goto
  <2> QED BY <1>5, <2>1, <2>2, <2>3, <2>4, <2>5, <2>6, <2>7 DEF Login
<1>6. ASSUME NEW c \in Calls, NEW l \in Logins, NEW d \in Domains, Proxy(c, l, d)
      PROVE  Goal
  BY <1>0, <1>6 DEF Proxy, Answer, Valid, AllowedDomains
<1>7. ASSUME NEW c \in Calls, NEW l \in Logins, Delegate(c, l) PROVE Goal
  BY <1>0, <1>7 DEF Delegate, Answer
<1>8. CASE Tick
  BY <1>0, <1>8 DEF Tick, NoteGrants
<1>9. CASE UNCHANGED vars
  BY <1>0, <1>9 DEF vars
<1> HIDE DEF Goal
<1> QED
  BY <1>1, <1>2, <1>3, <1>4, <1>5, <1>6, <1>7, <1>8, <1>9, PolicyStep
  DEF Next, Goal

(* Every step keeps the bound that tokens set on calls.                    *)
LEMMA CallsKept == Inv /\ [Next]_vars => CallsCarryTokens' /\ RevocationIsBounded'
<1> SUFFICES ASSUME Inv, [Next]_vars PROVE CallsCarryTokens' /\ RevocationIsBounded'
  OBVIOUS
<1>0. TypeOK'
  BY TypeKept DEF Inv
<1> DEFINE Goal == CallsCarryTokens' /\ RevocationIsBounded'
<1> USE AuthAssumption
    DEF Inv, TypeOK, GrantsNoted, TokensAreBounded, CallsCarryTokens,
        RevocationIsBounded, LoginsInOrder, agentVars, loginVars, callVars
<1>a. ASSUME UNCHANGED <<pc, who, outcome, carried, dest, at>>,
             \A x \in Agents \X Domains : granted[x] # 0 =>
                 granted'[x] # 0 /\ granted[x] <= granted'[x]
      PROVE  Goal
  <2>1. CallsCarryTokens'
    BY <1>a
  <2>2. ASSUME NEW c \in Calls, outcome[c] = "forwarded", dest[c] \notin DefaultDomains
        PROVE  LET x == <<who[carried[c]], dest[c]>>
               IN  granted'[x] # 0 /\ at[c] <= granted'[x] + TokenLife
    <3> DEFINE x == <<who[carried[c]], dest[c]>>
    <3>1. x \in Agents \X Domains
      BY <2>2
    <3>2. granted[x] # 0 /\ at[c] <= granted[x] + TokenLife
      BY <2>2
    <3>3. granted[x] \in Nat /\ granted'[x] \in Nat /\ at[c] \in Nat
      BY <1>0, <2>2, <3>1
    <3> QED BY <1>a, <3>1, <3>2, <3>3
  <2> QED BY <1>a, <2>1, <2>2
<1>b. ASSUME NEW c \in Calls, NEW l \in Logins, NEW d \in Domains \cup {Nil},
             NEW result \in Outcomes \ {"forwarded"}, Answer(c, l, d, result)
      PROVE  Goal
  <2>1. outcome'[c] # "forwarded" /\ UNCHANGED <<pc, who, granted>>
    BY <1>b DEF Answer
  <2>2. \A b \in Calls \ {c} : /\ outcome'[b] = outcome[b] /\ carried'[b] = carried[b]
                              /\ dest'[b] = dest[b] /\ at'[b] = at[b]
    BY <1>b DEF Answer
  <2> QED BY <1>0, <2>1, <2>2
<1>1. ASSUME NEW a \in Agents, NEW k \in Keys, Register(a, k) PROVE Goal
  BY <1>0, <1>1 DEF Register
<1>2. ASSUME NEW a \in Agents, NEW s \in Statuses, SetStatus(a, s) PROVE Goal
  BY <1>0, <1>2 DEF SetStatus
<1>3. ASSUME NEW rows \in SUBSET PolicyRow, PolicyChange(rows) PROVE Goal
  <2>1. \A x \in Agents \X Domains : granted[x] # 0 =>
            granted'[x] # 0 /\ granted[x] <= granted'[x]
    BY <1>0, <1>3 DEF PolicyChange, NoteGrants
  <2> QED BY <1>3, <1>a, <2>1 DEF PolicyChange
<1>4. ASSUME NEW a \in Agents, NEW n \in Nonces, Challenge(a, n) PROVE Goal
  BY <1>0, <1>4 DEF Challenge
<1>5. ASSUME NEW l \in Logins, Login(l) PROVE Goal
  <2>1. ASSUME NEW a \in Agents, NEW n \in Nonces, NEW k \in Keys,
               LoginBegin(l, a, n, k)
        PROVE  Goal
    BY <1>0, <2>1 DEF LoginBegin
  <2>2. CASE LoginSelect(l) BY <1>0, <2>2 DEF LoginSelect, Goto, Usable
  <2>3. CASE LoginUnusable(l) BY <1>0, <2>3 DEF LoginUnusable, Goto
  <2>4. CASE LoginConsume(l) BY <1>0, <2>4 DEF LoginConsume, Goto
  <2>5. CASE LoginForged(l) BY <1>0, <2>5 DEF LoginForged, Goto
  <2>6. CASE LoginGrant(l) BY <1>0, <2>6 DEF LoginGrant, Goto, Verified
  <2>7. CASE LoginFails(l) BY <1>0, <2>7 DEF LoginFails, Goto
  <2> QED BY <1>5, <2>1, <2>2, <2>3, <2>4, <2>5, <2>6, <2>7 DEF Login
<1>6. ASSUME NEW c \in Calls, NEW l \in Logins, NEW d \in Domains, Proxy(c, l, d)
      PROVE  Goal
  <2>1. ASSUME Valid(l), d \in AllowedDomains(scope[l]), Answer(c, l, d, "forwarded")
        PROVE  Goal
    <3>1. CallsCarryTokens'
      BY <2>1 DEF Answer
    <3>2. ASSUME d \notin DefaultDomains
          PROVE  /\ granted[<<who[l], d>>] # 0
                 /\ now <= granted[<<who[l], d>>] + TokenLife
      <4>1. d \in scope[l] \cap Domains
        BY <2>1, <3>2 DEF AllowedDomains
      <4>2. <<who[l], d>> \in Agents \X Domains
        BY <2>1 DEF Valid
      <4> QED BY <2>1, <4>1, <4>2 DEF Valid
    <3>3. /\ outcome'[c] = "forwarded" /\ carried'[c] = l /\ dest'[c] = d
          /\ at'[c] = now /\ UNCHANGED <<pc, who, granted>>
      BY <2>1 DEF Answer
    <3>4. \A b \in Calls \ {c} : /\ outcome'[b] = outcome[b] /\ carried'[b] = carried[b]
                                /\ dest'[b] = dest[b] /\ at'[b] = at[b]
      BY <2>1 DEF Answer
    <3>5. RevocationIsBounded'
      BY <3>2, <3>3, <3>4
    <3> QED BY <3>1, <3>5
  <2> QED BY <1>6, <1>b, <2>1 DEF Proxy, Outcomes
<1>7. ASSUME NEW c \in Calls, NEW l \in Logins, Delegate(c, l) PROVE Goal
  BY <1>7, <1>b DEF Delegate, Outcomes
<1>8. CASE Tick
  <2>1. \A x \in Agents \X Domains : granted[x] # 0 =>
            granted'[x] # 0 /\ granted[x] <= granted'[x]
    BY <1>0, <1>8 DEF Tick, NoteGrants
  <2> QED BY <1>8, <1>a, <2>1 DEF Tick
<1>9. CASE UNCHANGED vars
  BY <1>0, <1>9 DEF vars
<1> HIDE DEF Goal
<1> QED
  BY <1>1, <1>2, <1>3, <1>4, <1>5, <1>6, <1>7, <1>8, <1>9, PolicyStep
  DEF Next, Goal

-----------------------------------------------------------------------------
(* The theorems.                                                           *)

(* No agent is registered, so nothing is there at first.                   *)
LEMMA InitInvariant == Init => Inv
BY AuthAssumption
DEF Init, Inv, TypeOK, NoncesInOrder, LoginsInOrder, TardyIsLate, GrantsNoted,
    Grants, TokensAreBounded, CallsCarryTokens, RevocationIsBounded, Registered,
    Passed, Statuses, Steps, Outcomes

LEMMA InvariantHolds == Spec => []Inv
<1>1. Inv /\ [Next]_vars => Inv'
  BY TypeKept, LoginsKept, GrantsKept, CallsKept DEF Inv
<1> QED BY <1>1, InitInvariant, PTL DEF Spec

(* Every variable keeps its type, whatever the sets of agents, policies,   *)
(* logins and calls: a login only ever works on a registered agent, and    *)
(* only nonces that were issued are spent.                                 *)
THEOREM TypeInvariant == Spec => []TypeOK
BY InvariantHolds, PTL DEF Inv

(* get_and_delete and verify_signature: a token was given for a nonce of   *)
(* its own agent, signed with the registered key, and the nonce is gone.   *)
THEOREM TokensAreEarned == Spec => []TokenIsEarned
<1>1. Inv => TokenIsEarned
  BY DEF Inv, NoncesInOrder, LoginsInOrder, TokenIsEarned, Passed, Registered
<1> QED BY <1>1, InvariantHolds, PTL

(* get_and_delete: a login that begins after its nonce expired or was      *)
(* deleted gets no token, however many logins are under way.               *)
THEOREM ReplaysFail == Spec => []ReplayFails
<1>1. Inv => ReplayFails
  BY DEF Inv, TardyIsLate, ReplayFails, Passed
<1> QED BY <1>1, InvariantHolds, PTL

(* The scope and the expiry of tokens: a domain that policies no longer    *)
(* allow is out of the agent's reach after one lifetime of a token.        *)
THEOREM RevocationsAreBounded == Spec => []RevocationIsBounded
BY InvariantHolds, PTL DEF Inv
=============================================================================
