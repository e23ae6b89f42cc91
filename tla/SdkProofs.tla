----------------------------- MODULE SdkProofs -----------------------------
(* Proofs about the SDK, for any calls, processes, agents, hosts and any   *)
(* lifetime and margin of tokens: keys and agents, tokens, and the list of *)
(* revoked credentials, for all the calls SdkCalls knows.                  *)
EXTENDS SdkCalls, FiniteSetTheorems, SequenceTheorems, TLAPS

-----------------------------------------------------------------------------
(* The steps.  Whatever a call is, it starts with Begin, as a kind and at  *)
(* a place of its own.                                                     *)

Starts ==
    {<<"find", "list">>, <<"create", "post">>, <<"request", "check">>, <<"proxy", "check">>,
     <<"update", "check">>, <<"delete", "challenge">>, <<"discard", "erase">>,
     <<"tokenless", "failed">>, <<"login", "lookup">>, <<"issue", "lookup">>,
     <<"lookup", "lookup">>, <<"auto", "lookup">>, <<"session", "lookup">>,
     <<"session", "challenge">>, <<"administer", "request">>, <<"inquire", "request">>,
     <<"vouch", "done">>, <<"declined", "done">>, <<"cleanup", "failed">>,
     <<"revoke", "revoke">>, <<"verify", "judge">>, <<"rotate", "rotate">>}

Starting(c) == \E s \in Starts : Begin(c, s[1], s[2])

(* Steps that leave the vault's variables alone, and those that may not.   *)
PlainStep(c) == Starting(c) \/ Step(c) \/ Answered(c) \/ Refused(c)

ListStep(c) ==
    \/ AddRevoked(c) \/ OpenList(c) \/ DumpList(c) \/ FlushList(c) \/ SaveFails(c)
    \/ JudgeLocal(c) \/ ReadIdentity(c) \/ EmptyIdentity(c) \/ Rotate(c) \/ RotationFails(c)

LEMMA ClientStarts ==
    ASSUME NEW c, StartCall(c)
    PROVE  Starting(c)
  BY DEF StartCall, Starting, Starts, Agent, Create, GetSecret, DeleteSecret, ListSecrets, Proxy,
         Authenticate, IssueCredential, GetIdentity, GetIdentityWithAutoBootstrap, UpdateAgent,
         DeleteAgent, DeleteAgentUnauthenticated, Tokenless

LEMMA OperatorStarts ==
    ASSUME NEW c, OperatorCall(c) \/ HopelessCall(c)
    PROVE  Starting(c)
  <1>1. Administer(c) \/ Inquire(c) \/ Tokenless(c) => Starting(c)
    BY DEF Administer, Inquire, Tokenless, Starting, Starts
  <1> QED
    BY <1>1
       DEF OperatorCall, StoreSecretDirect, GetSecretDirect, DeleteSecretDirect,
           ListSecretsDirect, GetSecretAdmin, CreatePolicy, ListPolicies, GetPolicyByName,
           GetPolicy, DeletePolicy, ListAgents, HopelessCall, RawAgentCalls, StoreSecret,
           RegisterAgent, DescribeAgent, StoreSecretOfVault, ListSecretsAdmin,
           AttestationPolicies

LEMMA ShorthandStarts ==
    ASSUME NEW c, Shorthand(c)
    PROVE  Starting(c)
  BY DEF Shorthand, GatewayVerb, OpenAIIntegration, AnthropicMessage, AnthropicCountTokens,
         AnthropicComplete, AgentIssuesCredential, AgentGetsSecret, AgentRequests,
         DeepSecureAuthenticate, Proxy, Tokenless, GetSecret, Starting, Starts

LEMMA CommandStarts ==
    ASSUME NEW c, Command(c)
    PROVE  Starting(c)
  <1>1. Administer(c) \/ Tokenless(c) \/ Create(c) \/ DeleteAgent(c) \/ Declined(c)
            \/ CommandAgentCleanup(c) => Starting(c)
    BY DEF Administer, Tokenless, Create, DeleteAgent, Declined, CommandAgentCleanup, Starting,
           Starts
  <1> QED
    BY <1>1
       DEF Command, CommandAgentCreate, CommandAgentList, CommandAgentDescribe,
           CommandAgentDelete, CommandVaultStore, CommandVaultGetSecret, CommandVaultDelete,
           CommandVaultList, CommandPolicyCreate, CommandPolicyList, CommandPolicyGet,
           CommandPolicyDelete, CommandAttestationCreate, CommandAttestationList,
           CommandAttestationGet, CommandAttestationUpdate, CommandAttestationDelete,
           CommandAttestationValidate, StoreSecretDirect, GetSecretDirect, DeleteSecretDirect,
           ListSecretsDirect, CreatePolicy, ListPolicies, GetPolicy, DeletePolicy, ListAgents,
           StoreSecret, DescribeAgent, AttestationPolicies

LEMMA CredentialsStart ==
    ASSUME NEW c, RevokeCredential(c) \/ VerifyLocal(c) \/ RotateCredential(c)
                      \/ CredentialsNamespace(c)
    PROVE  Starting(c) /\ UNCHANGED vaultVars
  BY DEF RevokeCredential, VerifyLocal, RotateCredential, CredentialsNamespace, IssueAlias,
         VerifyAlias, RevokeAlias, IssueCredential, Starting, Starts

LEMMA NextSteps ==
    ASSUME Next
    PROVE  \/ Tick /\ UNCHANGED vaultVars
           \/ \E p \in Processes : Restart(p)
           \/ \E c \in Calls : (PlainStep(c) /\ UNCHANGED vaultVars) \/ ListStep(c)
  <1>1. CASE VaultNext
    BY <1>1, ClientStarts, CredentialsStart
       DEF VaultNext, ClientNext, VaultStep, PlainStep, ListStep
  <1>2. CASE \E c \in Calls :
                /\ \/ OperatorCall(c) \/ HopelessCall(c) \/ Shorthand(c) \/ Command(c)
                   \/ Answered(c) \/ Refused(c)
                /\ UNCHANGED vaultVars
    BY <1>2, OperatorStarts, ShorthandStarts, CommandStarts DEF PlainStep
  <1>3. CASE \E c \in Calls : CredentialsNamespace(c)
    BY <1>3, CredentialsStart DEF PlainStep
  <1> QED
    BY <1>1, <1>2, <1>3 DEF Next

-----------------------------------------------------------------------------
(* What calls do to the functions of the model.                            *)

(* A chain of providers is a sequence, and ends with the keyring.          *)
Providers == Platforms \cup {"keyring"}

LEMMA InOrderType ==
    ASSUME NEW chosen, NEW host
    PROVE  InOrder(chosen, host) \in Seq(Providers)
  <1> DEFINE one(p) == Only(p, chosen, host)
  <1>1. /\ one("kubernetes") \in Seq(Providers) /\ one("aws") \in Seq(Providers)
        /\ one("azure") \in Seq(Providers) /\ one("docker") \in Seq(Providers)
    <2>1. ASSUME NEW p \in Platforms PROVE Only(p, chosen, host) \in Seq(Providers)
      <3>1. Only(p, chosen, host) = <<p>> \/ Only(p, chosen, host) = <<>>
        BY DEF Only
      <3>2. <<p>> \in Seq(Providers) /\ <<>> \in Seq(Providers)
        BY DEF Providers
      <3> QED
        BY <3>1, <3>2
    <2> QED
      BY <2>1 DEF Platforms
  <1>2. InOrder(chosen, host) =
            one("kubernetes") \o one("aws") \o one("azure") \o one("docker")
    BY DEF InOrder
  <1> HIDE DEF one
  <1>3. one("kubernetes") \o one("aws") \in Seq(Providers)
    BY <1>1, ConcatProperties
  <1>4. one("kubernetes") \o one("aws") \o one("azure") \in Seq(Providers)
    BY <1>1, <1>3, ConcatProperties
  <1> QED
    BY <1>1, <1>2, <1>4, ConcatProperties

LEMMA ProviderChainType ==
    ASSUME NEW recommended, NEW host
    PROVE  /\ ProviderChain(recommended, host) \in Seq(Providers)
           /\ Len(ProviderChain(recommended, host)) > 0
  <1> DEFINE before == InOrder(recommended, host) \o InOrder(Platforms \ recommended, host)
  <1>1. before \in Seq(Providers) /\ Len(before) \in Nat
    BY InOrderType, ConcatProperties, LenProperties
  <1>2. <<"keyring">> \in Seq(Providers) /\ Len(<<"keyring">>) = 1
    BY DEF Providers
  <1>3. ProviderChain(recommended, host) = before \o <<"keyring">>
    BY DEF ProviderChain
  <1> HIDE DEF before
  <1> QED
    BY <1>1, <1>2, <1>3, ConcatProperties

LEMMA DetectType ==
    ASSUME NEW c \in Calls, NEW kind, Detect(c, kind), chain \in [Calls -> Seq(Providers)]
    PROVE  /\ chain' \in [Calls -> Seq(Providers)] /\ chain'[c] # <<>>
           /\ \A d \in Calls \ {c} : chain'[d] = chain[d]
  <1>1. PICK host \in Hosts : \E recommended \in IF kind = "session" THEN {{}}
                                       ELSE RecommendedBootstrapMethods(host) :
            chain' = [chain EXCEPT ![c] = ProviderChain(recommended, host)
                        \o (IF kind = "auto" THEN SecondTry(recommended, host) ELSE <<>>)]
    BY DEF Detect
  <1>2. PICK recommended :
            chain' = [chain EXCEPT ![c] = ProviderChain(recommended, host)
                        \o (IF kind = "auto" THEN SecondTry(recommended, host) ELSE <<>>)]
    BY <1>1
  <1> DEFINE first  == ProviderChain(recommended, host)
             second == IF kind = "auto" THEN SecondTry(recommended, host) ELSE <<>>
  <1>3. first \in Seq(Providers) /\ Len(first) > 0 /\ Len(first) \in Nat
    BY ProviderChainType, LenProperties
  <1>4. second \in Seq(Providers) /\ Len(second) \in Nat
    BY InOrderType, LenProperties DEF SecondTry
  <1>5. first \o second \in Seq(Providers) /\ Len(first \o second) > 0
    <2> HIDE DEF first, second
    <2> QED
      BY <1>3, <1>4, ConcatProperties
  <1>6. first \o second # <<>>
    BY <1>5
  <1>7. chain' = [chain EXCEPT ![c] = first \o second]
    BY <1>2
  <1> HIDE DEF first, second
  <1> QED
    BY <1>5, <1>6, <1>7

-----------------------------------------------------------------------------
(* Where calls are, and what they hold there.                              *)

Places == {"idle", "list", "post", "keep", "lookup", "claim", "check", "challenge", "token",
           "expiry", "assign", "send", "erase", "revoke", "open", "dump", "flush", "judge",
           "rotate", "truncate", "rewrite", "request", "done", "failed"}

Asked == (UNION {Asks[c] : c \in Calls}) \cup {None}
Names == {Known[a] : a \in DOMAIN Known} \cup PolicyNames \cup {q.on : q \in Asked}
Rows  == [name : Names, key : Ids, status : {"active", "inactive"}]

(* The types, but for what is at home in one of the parts below.           *)
Shapes ==
    /\ now \in 1 .. MaxTime
    /\ agents \in [DOMAIN agents -> Rows] /\ DOMAIN agents \subseteq Ids
    /\ keyring \in [DOMAIN keyring -> Ids]
    /\ access \in [Processes -> Tokens \cup {None}]
    /\ expires \in [Processes -> 0 .. MaxTime + Lifetime]
    /\ pc \in [Calls -> Places]
    /\ chain \in [Calls -> Seq(Providers)]
    /\ held \in [Calls -> Ids \cup Tokens \cup {None}]
    /\ looked \in [Calls -> 0 .. now]
    /\ sent \in [Calls -> Tokens \cup {None}]
    /\ listed \in [Calls -> SUBSET Ids]
    /\ ask \in [Calls -> Asked]
    /\ \A c \in Calls : ask[c] \in Asks[c] \cup {None}
    /\ mishaps \subseteq Calls /\ shared \subseteq Processes

RevokePlaces == {"revoke", "open", "dump", "flush", "done", "failed"}

(* What a call is asked to do confines where it can be.                    *)
InPlace(c) ==
    /\ (pc[c] = "idle") = (ask[c] = None)
    /\ pc[c] \in {"lookup", "claim"} => chain[c] # <<>>
    /\ pc[c] \in {"keep", "claim"} => held[c] \in DOMAIN agents
    /\ pc[c] = "check" => ask[c].kind # "delete"
    /\ ask[c] # None /\ ask[c].kind = "revoke"
           => pc[c] \in RevokePlaces

-----------------------------------------------------------------------------
(* Agents and keys.                                                        *)

(* An agent that a call has yet to put the key of into the keyring.        *)
Holding(c, a) == pc[c] \in {"keep", "claim"} /\ held[c] = a

KeysInOrder ==
    /\ DOMAIN keyring \subseteq DOMAIN agents
    /\ DOMAIN Known \subseteq DOMAIN keyring
    /\ \A a \in DOMAIN agents : agents[a].key = a
    /\ \A a \in DOMAIN keyring : keyring[a] = a

OrphansInOrder ==
    \A a \in DOMAIN agents \ DOMAIN keyring :
        /\ a[1] \in Calls /\ pc[a[1]] # "idle"
        /\ \/ Holding(a[1], a) \/ a[1] \in mishaps
           \/ a[2] # "new" /\ ask[a[1]].kind \notin {"lookup", "auto"}

NotListed(c) ==
    \A a \in listed[c] : agents[a].name = ask[c].on => Cardinality(listed[c]) > ListLimit

NamesInOrder ==
    /\ IsFiniteSet(DOMAIN agents)
    /\ \A c \in Calls :
          /\ listed[c] \subseteq DOMAIN agents
          /\ New(c) \in DOMAIN agents => pc[c] \notin {"idle", "list", "post"}
          /\ ask[c] # None /\ ask[c].kind = "find"
                 /\ (pc[c] = "post" \/ New(c) \in DOMAIN agents) => NotListed(c)

AgentsInOrder == KeysInOrder /\ OrphansInOrder /\ NamesInOrder

-----------------------------------------------------------------------------
(* Tokens.                                                                 *)

(* A login is for the agent asked for; the token it got lasts longer than  *)
(* the margin from when the call looked.                                   *)
LoginInOrder(c) ==
    /\ pc[c] = "token" => ask[c].on \in DOMAIN agents \cap DOMAIN keyring
    /\ pc[c] \in {"expiry", "assign"} =>
          /\ held[c] \in Tokens /\ held[c].agent = ask[c].on
          /\ held[c].agent \in DOMAIN agents
          /\ looked[c] + Margin < held[c].until /\ held[c].until <= MaxTime + Lifetime

(* The token of a process is one that a call of it logged in for.          *)
TokensAreAskedFor ==
    \A p \in Processes : access[p] # None =>
        /\ access[p].agent \in DOMAIN agents
        /\ \E d \in Calls : ProcessOf[d] = p /\ ask[d] # None /\ ask[d].on = access[p].agent

(* A process whose calls never overlap: the two attributes belong together *)
(* but in between their assignments, and a request goes out with the token *)
(* its call has looked at or has just been given.                          *)
AloneInOrder(p) ==
    /\ \A c, d \in Running(p) : c = d
    /\ access[p] # None /\ (\A c \in Running(p) : pc[c] # "assign")
           => expires[p] = access[p].until
    /\ \A c \in Running(p) :
          /\ pc[c] = "assign" => expires[p] = held[c].until
          /\ pc[c] = "send" =>
                /\ access[p] # None /\ looked[c] + Margin < access[p].until
                /\ ask[c].kind = "delete" => access[p].agent = ask[c].on

(* What a call has sent, and that there is something to send.              *)
SentInOrder(c) ==
    /\ pc[c] = "send" => access[ProcessOf[c]] # None
    /\ sent[c] # None => pc[c] \in Over
    /\ sent[c] # None /\ ProcessOf[c] \notin shared =>
          /\ looked[c] + Margin < sent[c].until
          /\ \/ ask[c].kind = "delete"
             \/ \A d \in Calls : ProcessOf[d] = ProcessOf[c] /\ ask[d] # None
                    => ask[d].on = ask[c].on
             => sent[c].agent = ask[c].on

TokensInOrder ==
    /\ TokensAreAskedFor
    /\ \A c \in Calls : SentInOrder(c)
    /\ \A p \in Processes \ shared : AloneInOrder(p)

-----------------------------------------------------------------------------
(* Revocations.                                                            *)

ListTypes ==
    /\ DOMAIN memory = Processes
    /\ DOMAIN identity = OnFile /\ DOMAIN buffer = Calls
    /\ \A p \in Processes : IsFiniteSet(memory[p])
    /\ \A c \in Calls : IsFiniteSet(buffer[c])
    /\ IsFiniteSet(file)
    /\ behind \subseteq Processes /\ disturbed \in BOOLEAN
    /\ \A c \in Calls :
          /\ pc[c] \in {"open", "dump"} => ask[c].on \in memory[ProcessOf[c]]
          /\ pc[c] = "flush" => ask[c].on \in buffer[c]

(* What will be on file when the save under way, if any, is over: the      *)
(* save of call c.                                                         *)
Saved(c) == IF pc[c] = "dump" THEN memory[ProcessOf[c]] ELSE buffer[c]

(* All that processes remember, and all that calls have revoked, is in S   *)
(* or is yet to be saved.                                                  *)
Covers(S) ==
    /\ \A p \in Processes : memory[p] \subseteq S \cup Pending(p)
    /\ \A c \in Calls : pc[c] = "done" /\ ask[c].kind = "revoke"
           => ask[c].on \in S \cup Pending(ProcessOf[c])

SavesInOrder ==
    /\ \A c, d \in Saving : c = d
    /\ Saving = {} => Covers(file) /\ \A p \in Processes \ behind : file \subseteq memory[p]
    /\ \A c \in Saving :
          /\ file = {} /\ Covers(Saved(c)) /\ Saved(c) \subseteq memory[ProcessOf[c]]
          /\ Processes \ behind = {ProcessOf[c]}

ListInOrder == ListTypes /\ (disturbed \/ SavesInOrder)

-----------------------------------------------------------------------------
(* Shapes and places.                                                      *)

Base == Shapes /\ \A c \in Calls : InPlace(c) /\ LoginInOrder(c)

LEMMA BaseInit == SdkInit => Base
  <1> SUFFICES ASSUME SdkInit PROVE Base
    OBVIOUS
  <1> USE SdkAssumption DEF SdkAssumption, SdkInit, Init
  <1>1. Shapes
    <2>1. agents \in [DOMAIN agents -> Rows] /\ DOMAIN agents \subseteq Ids
      BY DEF Rows, Names, Ids
    <2>2. keyring \in [DOMAIN keyring -> Ids]
      BY DEF Ids
    <2>3. chain \in [Calls -> Seq(Providers)]
      BY EmptySeq
    <2>4. /\ now \in 1 .. MaxTime
          /\ expires \in [Processes -> 0 .. MaxTime + Lifetime]
          /\ looked \in [Calls -> 0 .. now]
      OBVIOUS
    <2>5. /\ access \in [Processes -> Tokens \cup {None}]
          /\ sent \in [Calls -> Tokens \cup {None}]
          /\ pc \in [Calls -> Places]
      BY DEF Places
    <2>6. /\ listed \in [Calls -> SUBSET Ids] /\ held \in [Calls -> Ids \cup Tokens \cup {None}]
          /\ mishaps \subseteq Calls /\ shared \subseteq Processes
      OBVIOUS
    <2>7. /\ ask \in [Calls -> Asked]
          /\ \A c \in Calls : ask[c] \in Asks[c] \cup {None}
      <3>1. None \in Asked
        BY DEF Asked
      <3> HIDE DEF Asked
      <3> QED
        BY <3>1
    <2> QED
      BY <2>1, <2>2, <2>3, <2>4, <2>5, <2>6, <2>7 DEF Shapes
  <1>2. \A c \in Calls : InPlace(c) /\ LoginInOrder(c)
    BY DEF InPlace, LoginInOrder
  <1> QED
    BY <1>1, <1>2 DEF Base

(* A step of a call keeps what holds of the others.                        *)
LEMMA OthersKeepBase ==
    ASSUME Base, NEW c \in Calls, Shapes',
           DOMAIN agents \subseteq DOMAIN agents', DOMAIN keyring \subseteq DOMAIN keyring',
           \A d \in Calls \ {c} :
               /\ pc'[d] = pc[d] /\ ask'[d] = ask[d] /\ held'[d] = held[d]
               /\ looked'[d] = looked[d] /\ chain'[d] = chain[d],
           InPlace(c)', LoginInOrder(c)'
    PROVE  Base'
  <1>1. ASSUME NEW d \in Calls \ {c} PROVE InPlace(d)' /\ LoginInOrder(d)'
    <2>1. InPlace(d) /\ LoginInOrder(d)
      BY DEF Base
    <2>2. InPlace(d)'
      BY <2>1 DEF InPlace
    <2>3. LoginInOrder(d)'
      BY <2>1 DEF LoginInOrder
    <2> QED
      BY <2>2, <2>3
  <1> QED
    BY <1>1 DEF Base

(* The same for a step that moves the call, and no more.                   *)
LEMMA MoveKeepsBase ==
    ASSUME Base, NEW c \in Calls, pc[c] # "idle",
           NEW place \in Places \ {"idle", "lookup", "keep", "claim", "check", "token",
                                   "expiry", "assign"},
           pc' = [pc EXCEPT ![c] = place],
           place \in RevokePlaces \/ pc[c] \notin RevokePlaces,
           mishaps' \in SUBSET Calls,
           UNCHANGED <<now, agents, keyring, access, expires, ask, chain, held, looked, sent,
                       listed, shared>>
    PROVE  Base'
  <1>1. Shapes'
    BY DEF Base, Shapes
  <1>2. InPlace(c)' /\ LoginInOrder(c)'
    BY DEF Base, Shapes, InPlace, LoginInOrder, RevokePlaces
  <1> QED
    BY <1>1, <1>2, OthersKeepBase DEF Base, Shapes

LEMMA StartKeepsBase ==
    ASSUME Base, NEW c \in Calls, NEW s \in Starts, Begin(c, s[1], s[2])
    PROVE  Base'
  <1> DEFINE kind  == s[1]
             place == s[2]
  <1>1. /\ place \in Places \ {"idle", "keep", "claim", "token", "expiry", "assign"}
        /\ place = "check" => kind # "delete"
        /\ kind = "revoke" => place \in RevokePlaces
    BY DEF Starts, Places, RevokePlaces
  <1> HIDE DEF kind, place
  <1>2. /\ pc[c] = "idle" /\ pc' = [pc EXCEPT ![c] = place]
        /\ looked' = [looked EXCEPT ![c] = IF place = "challenge" THEN now ELSE 0]
        /\ UNCHANGED <<now, agents, keyring, access, expires, held, sent, listed, mishaps>>
        /\ IF place = "lookup" THEN Detect(c, kind) ELSE UNCHANGED chain
        /\ shared' = shared \/ shared' = shared \cup {ProcessOf[c]}
    BY DEF Begin, Goto, kind, place
  <1>3. PICK q \in Asks[c] : q.kind = kind /\ ask' = [ask EXCEPT ![c] = q]
    BY DEF Begin, kind
  <1>4. q # None
    BY <1>3, SdkAssumption DEF SdkAssumption
  <1>5. /\ chain' \in [Calls -> Seq(Providers)]
        /\ place = "lookup" => chain'[c] # <<>>
        /\ \A d \in Calls \ {c} : chain'[d] = chain[d]
    BY <1>2, DetectType DEF Base, Shapes
  <1>6. Shapes'
    <2>1. shared' \subseteq Processes
      <3>1. ProcessOf[c] \in Processes /\ shared \subseteq Processes
        BY SdkAssumption DEF SdkAssumption, Base, Shapes
      <3> QED
        BY <1>2, <3>1
    <2>2. looked' \in [Calls -> 0 .. now]
      BY <1>2, SdkAssumption DEF SdkAssumption, Base, Shapes
    <2>3. ask' \in [Calls -> Asked] /\ \A d \in Calls : ask'[d] \in Asks[d] \cup {None}
      BY <1>3 DEF Base, Shapes, Asked
    <2>4. pc' \in [Calls -> Places]
      BY <1>1, <1>2 DEF Base, Shapes
    <2> QED
      BY <1>2, <1>5, <2>1, <2>2, <2>3, <2>4 DEF Base, Shapes
  <1>7. InPlace(c)' /\ LoginInOrder(c)'
    <2>1. pc'[c] = place /\ ask'[c] = q
      BY <1>2, <1>3 DEF Base, Shapes
    <2> QED
      BY <1>1, <1>3, <1>4, <1>5, <2>1 DEF InPlace, LoginInOrder
  <1>8. \A d \in Calls \ {c} :
               /\ pc'[d] = pc[d] /\ ask'[d] = ask[d] /\ held'[d] = held[d]
               /\ looked'[d] = looked[d]
    BY <1>2, <1>3 DEF Base, Shapes
  <1> QED
    BY <1>2, <1>5, <1>6, <1>7, <1>8, OthersKeepBase

LEMMA AskNextType ==
    ASSUME Base, NEW c \in Calls, pc[c] \in {"lookup", "claim"}, AskNext(c)
    PROVE  /\ chain' \in [Calls -> Seq(Providers)] /\ pc' \in [Calls -> Places]
           /\ pc'[c] \in {"lookup", "failed"}
           /\ pc'[c] = "lookup" => chain'[c] # <<>>
           /\ \A d \in Calls \ {c} : pc'[d] = pc[d] /\ chain'[d] = chain[d]
  <1>1. chain[c] \in Seq(Providers) /\ chain[c] # <<>>
    BY DEF Base, Shapes, InPlace
  <1>2. /\ Tail(chain[c]) \in Seq(Providers)
        /\ Len(chain[c]) # 1 => Tail(chain[c]) # <<>>
    <2>1. Tail(chain[c]) \in Seq(Providers) /\ Len(Tail(chain[c])) = Len(chain[c]) - 1
      BY <1>1, HeadTailProperties
    <2>2. Len(chain[c]) \in Nat
      BY <1>1, LenProperties
    <2>3. Len(<<>>) = 0
      BY EmptySeq
    <2>4. ASSUME Tail(chain[c]) = <<>> PROVE Len(Tail(chain[c])) = 0
      BY <2>3, <2>4
    <2> QED
      BY <2>1, <2>2, <2>4
  <1>3. /\ chain' = [chain EXCEPT ![c] = Tail(chain[c])]
        /\ pc' = [pc EXCEPT ![c] = IF Len(chain[c]) = 1 THEN "failed" ELSE "lookup"]
    BY DEF AskNext
  <1>4. chain \in [Calls -> Seq(Providers)] /\ pc \in [Calls -> Places]
    BY DEF Base, Shapes
  <1>5. chain' \in [Calls -> Seq(Providers)] /\ chain'[c] = Tail(chain[c])
    BY <1>2, <1>3, <1>4
  <1>6. /\ pc' \in [Calls -> Places]
        /\ pc'[c] = IF Len(chain[c]) = 1 THEN "failed" ELSE "lookup"
    BY <1>3, <1>4 DEF Places
  <1> QED
    BY <1>2, <1>3, <1>4, <1>5, <1>6

LEMMA RegisteredType ==
    ASSUME Base, NEW a \in Made, NEW name \in Names, Registered(a, name)
    PROVE  /\ agents' \in [DOMAIN agents' -> Rows]
           /\ DOMAIN agents' = DOMAIN agents \cup {a} /\ DOMAIN agents' \subseteq Ids
           /\ agents'[a] = [name |-> name, key |-> a, status |-> "active"]
           /\ \A b \in DOMAIN agents \ {a} : agents'[b] = agents[b]
  <1>1. [name |-> name, key |-> a, status |-> "active"] \in Rows /\ a \in Ids
    BY DEF Rows, Ids
  <1>2. agents \in [DOMAIN agents -> Rows] /\ DOMAIN agents \subseteq Ids
    BY DEF Base, Shapes
  <1>3. agents' = Put(agents, a, [name |-> name, key |-> a, status |-> "active"])
    BY DEF Registered
  <1> DEFINE row == [name |-> name, key |-> a, status |-> "active"]
  <1> HIDE DEF row
  <1>4. /\ DOMAIN agents' = DOMAIN agents \cup {a} /\ agents'[a] = row
        /\ \A b \in DOMAIN agents \ {a} : agents'[b] = agents[b]
        /\ agents' \in [DOMAIN agents' -> Rows]
    <2>1. agents' = [z \in DOMAIN agents \cup {a} |-> IF z = a THEN row ELSE agents[z]]
      BY <1>3 DEF Put, row
    <2>2. row \in Rows
      BY <1>1 DEF row
    <2> QED
      BY <1>2, <2>1, <2>2
  <1> QED
    BY <1>1, <1>2, <1>4 DEF row

LEMMA NamesOfAsks ==
    ASSUME Base, NEW c \in Calls
    PROVE  ask[c].on \in Names
  BY DEF Base, Shapes, Names

LEMMA FindingKeepsBase ==
    ASSUME Base, NEW c \in Calls,
           GetByName(c) \/ CreateAgent(c) \/ StorePrivateKey(c) \/ KeyringFails(c)
    PROVE  Base'
  <1>1. CASE GetByName(c)
    <2>1. /\ pc[c] = "list" /\ listed' = [listed EXCEPT ![c] = DOMAIN agents]
          /\ UNCHANGED <<now, agents, keyring, access, expires, ask, chain, held, looked, sent,
                         mishaps, shared>>
          /\ \E place \in {"done", "post", "failed"} : pc' = [pc EXCEPT ![c] = place]
      BY <1>1 DEF GetByName, Goto
    <2>2. Shapes'
      BY <2>1 DEF Base, Shapes, Places
    <2>3. InPlace(c)' /\ LoginInOrder(c)'
      BY <2>1 DEF Base, Shapes, InPlace, LoginInOrder, RevokePlaces
    <2> QED
      BY <2>1, <2>2, <2>3, OthersKeepBase DEF Base, Shapes
  <1>2. CASE CreateAgent(c)
    <2>1. PICK answered \in BOOLEAN :
              /\ pc' = [pc EXCEPT ![c] = IF answered THEN "keep" ELSE "failed"]
              /\ held' = [held EXCEPT ![c] = IF answered THEN New(c) ELSE None]
              /\ mishaps' = IF answered THEN mishaps ELSE mishaps \cup {c}
      BY <1>2 DEF CreateAgent, Goto
    <2>2. /\ pc[c] = "post" /\ Registered(New(c), ask[c].on)
          /\ UNCHANGED <<now, keyring, access, expires, ask, chain, looked, sent, listed, shared>>
      BY <1>2 DEF CreateAgent
    <2>3. New(c) \in Made /\ New(c) \in Ids
      BY DEF Made, Ids
    <2>4. /\ agents' \in [DOMAIN agents' -> Rows] /\ New(c) \in DOMAIN agents'
          /\ DOMAIN agents \subseteq DOMAIN agents' /\ DOMAIN agents' \subseteq Ids
      BY <2>2, <2>3, RegisteredType, NamesOfAsks
    <2>5. Shapes'
      BY <2>1, <2>2, <2>3, <2>4 DEF Base, Shapes, Places
    <2>6. InPlace(c)' /\ LoginInOrder(c)'
      BY <2>1, <2>2, <2>4 DEF Base, Shapes, InPlace, LoginInOrder, RevokePlaces
    <2> QED
      BY <2>1, <2>2, <2>4, <2>5, <2>6, OthersKeepBase DEF Base, Shapes
  <1>3. CASE StorePrivateKey(c)
    <2>1. /\ pc[c] = "keep" /\ keyring' = Put(keyring, held[c], held[c])
          /\ held' = [held EXCEPT ![c] = None] /\ pc' = [pc EXCEPT ![c] = "done"]
          /\ UNCHANGED <<now, agents, access, expires, ask, chain, looked, sent, listed,
                         mishaps, shared>>
      BY <1>3 DEF StorePrivateKey, Goto
    <2>2. held[c] \in DOMAIN agents /\ held[c] \in Ids
      BY <2>1 DEF Base, Shapes, InPlace
    <2>3. keyring' \in [DOMAIN keyring' -> Ids] /\ DOMAIN keyring \subseteq DOMAIN keyring'
      BY <2>1, <2>2 DEF Base, Shapes, Put
    <2>4. Shapes'
      BY <2>1, <2>3 DEF Base, Shapes, Places
    <2>5. InPlace(c)' /\ LoginInOrder(c)'
      BY <2>1 DEF Base, Shapes, InPlace, LoginInOrder, RevokePlaces
    <2> QED
      BY <2>1, <2>3, <2>4, <2>5, OthersKeepBase DEF Base, Shapes
  <1>4. CASE KeyringFails(c)
    <2>1. /\ pc[c] \in {"keep", "claim"} /\ held' = [held EXCEPT ![c] = None]
          /\ mishaps' = mishaps \cup {c}
          /\ UNCHANGED <<now, agents, keyring, access, expires, ask, looked, sent, listed, shared>>
          /\ (pc' = [pc EXCEPT ![c] = "failed"] /\ UNCHANGED chain)
                \/ (pc[c] = "claim" /\ AskNext(c))
      BY <1>4 DEF KeyringFails, Goto
    <2>2. /\ chain' \in [Calls -> Seq(Providers)] /\ pc' \in [Calls -> Places]
          /\ pc'[c] \in {"lookup", "failed"}
          /\ pc'[c] = "lookup" => chain'[c] # <<>> /\ pc[c] = "claim"
          /\ \A d \in Calls \ {c} : pc'[d] = pc[d] /\ chain'[d] = chain[d]
      BY <2>1, AskNextType DEF Base, Shapes, Places
    <2>3. Shapes'
      BY <2>1, <2>2 DEF Base, Shapes
    <2>4. InPlace(c)' /\ LoginInOrder(c)'
      BY <2>1, <2>2 DEF Base, Shapes, InPlace, LoginInOrder, RevokePlaces
    <2> QED
      BY <2>1, <2>2, <2>3, <2>4, OthersKeepBase DEF Base, Shapes
  <1> QED
    BY <1>1, <1>2, <1>3, <1>4

LEMMA IdentityKeepsBase ==
    ASSUME Base, NEW c \in Calls, NEW platform \in Platforms,
           \/ KeyringIdentity(c) \/ AttestRefused(c, platform) \/ Claim(c, platform)
           \/ \E answered \in BOOLEAN : Attest(c, platform, answered)
    PROVE  Base'
  <1>f. Found(c) \in {"challenge", "check", "done"} /\ (Found(c) = "check" => ask[c].kind = "issue")
    BY DEF Found
  <1>1. CASE KeyringIdentity(c) \/ AttestRefused(c, platform)
    <2>1. /\ pc[c] = "lookup"
          /\ UNCHANGED <<now, agents, keyring, access, expires, ask, held, looked, sent, listed,
                         mishaps, shared>>
          /\ (pc' = [pc EXCEPT ![c] = Found(c)] /\ UNCHANGED chain) \/ AskNext(c)
      BY <1>1 DEF KeyringIdentity, AttestRefused, Goto
    <2>2. /\ chain' \in [Calls -> Seq(Providers)] /\ pc' \in [Calls -> Places]
          /\ pc'[c] \in {"lookup", "failed", Found(c)}
          /\ pc'[c] = "lookup" => chain'[c] # <<>>
          /\ \A d \in Calls \ {c} : pc'[d] = pc[d] /\ chain'[d] = chain[d]
      BY <2>1, <1>f, AskNextType DEF Base, Shapes, Places
    <2>3. Shapes'
      BY <2>1, <2>2 DEF Base, Shapes
    <2>4. InPlace(c)' /\ LoginInOrder(c)'
      BY <2>1, <2>2, <1>f DEF Base, Shapes, InPlace, LoginInOrder, RevokePlaces
    <2> QED
      BY <2>1, <2>2, <2>3, <2>4, OthersKeepBase DEF Base, Shapes
  <1>2. CASE Claim(c, platform)
    <2>1. /\ pc[c] = "claim" /\ keyring' = Put(keyring, held[c], held[c])
          /\ held' = [held EXCEPT ![c] = None]
          /\ UNCHANGED <<now, agents, access, expires, ask, looked, sent, listed, mishaps,
                         shared>>
          /\ (pc' = [pc EXCEPT ![c] = Found(c)] /\ UNCHANGED chain) \/ AskNext(c)
      BY <1>2 DEF Claim, Goto
    <2>2. held[c] \in DOMAIN agents /\ held[c] \in Ids
      BY <2>1 DEF Base, Shapes, InPlace
    <2>3. keyring' \in [DOMAIN keyring' -> Ids] /\ DOMAIN keyring \subseteq DOMAIN keyring'
      BY <2>1, <2>2 DEF Base, Shapes, Put
    <2>4. /\ chain' \in [Calls -> Seq(Providers)] /\ pc' \in [Calls -> Places]
          /\ pc'[c] \in {"lookup", "failed", Found(c)}
          /\ pc'[c] = "lookup" => chain'[c] # <<>>
          /\ \A d \in Calls \ {c} : pc'[d] = pc[d] /\ chain'[d] = chain[d]
      BY <2>1, <1>f, AskNextType DEF Base, Shapes, Places
    <2>5. Shapes'
      BY <2>1, <2>3, <2>4 DEF Base, Shapes
    <2>6. InPlace(c)' /\ LoginInOrder(c)'
      BY <2>1, <2>4, <1>f DEF Base, Shapes, InPlace, LoginInOrder, RevokePlaces
    <2> QED
      BY <2>1, <2>3, <2>4, <2>5, <2>6, OthersKeepBase DEF Base, Shapes
  <1>3. ASSUME NEW answered \in BOOLEAN, Attest(c, platform, answered) PROVE Base'
    <2> DEFINE a == <<c, platform, Len(chain[c])>>
    <2>1. /\ pc[c] = "lookup" /\ \E name \in PolicyNames : Registered(a, name)
          /\ mishaps' = IF answered THEN mishaps ELSE mishaps \cup {c}
          /\ UNCHANGED <<now, keyring, access, expires, ask, looked, sent, listed, shared>>
          /\ \/ /\ pc' = [pc EXCEPT ![c] = "claim"]
                /\ held' = [held EXCEPT ![c] = a] /\ UNCHANGED chain
             \/ AskNext(c) /\ UNCHANGED held
      BY <1>3 DEF Attest, Goto
    <2>2. a \in Made /\ a \in Ids /\ chain[c] # <<>>
      <3>1. chain[c] \in Seq(Providers) /\ chain[c] # <<>>
        BY <2>1 DEF Base, Shapes, InPlace
      <3>2. Len(chain[c]) \in Nat
        BY <3>1, LenProperties
      <3> QED
        BY <3>1, <3>2 DEF Made, Ids
    <2> HIDE DEF a
    <2>3. /\ agents' \in [DOMAIN agents' -> Rows] /\ a \in DOMAIN agents'
          /\ DOMAIN agents \subseteq DOMAIN agents' /\ DOMAIN agents' \subseteq Ids
      <3>1. PICK name \in PolicyNames : Registered(a, name)
        BY <2>1
      <3>2. name \in Names
        BY DEF Names
      <3> QED
        BY <2>2, <3>1, <3>2, RegisteredType
    <2>4. /\ chain' \in [Calls -> Seq(Providers)] /\ pc' \in [Calls -> Places]
          /\ pc'[c] \in {"lookup", "failed", "claim"}
          /\ pc'[c] \in {"lookup", "claim"} => chain'[c] # <<>>
          /\ pc'[c] = "claim" => held'[c] = a
          /\ held' \in [Calls -> Ids \cup Tokens \cup {None}]
          /\ \A d \in Calls \ {c} : pc'[d] = pc[d] /\ chain'[d] = chain[d] /\ held'[d] = held[d]
      <3>1. CASE AskNext(c) /\ UNCHANGED held
        BY <2>1, <3>1, AskNextType DEF Base, Shapes
      <3>2. CASE /\ pc' = [pc EXCEPT ![c] = "claim"]
                 /\ held' = [held EXCEPT ![c] = a] /\ UNCHANGED chain
        BY <2>2, <3>2 DEF Base, Shapes, Places
      <3> QED
        BY <2>1, <3>1, <3>2
    <2>5. Shapes'
      BY <2>1, <2>3, <2>4 DEF Base, Shapes
    <2>6. InPlace(c)' /\ LoginInOrder(c)'
      BY <2>1, <2>3, <2>4 DEF Base, Shapes, InPlace, LoginInOrder, RevokePlaces
    <2> QED
      BY <2>1, <2>3, <2>4, <2>5, <2>6, OthersKeepBase DEF Base, Shapes
  <1> QED
    BY <1>1, <1>2, <1>3

LEMMA TokensKeepBase ==
    ASSUME Base, NEW c \in Calls,
           \/ CheckToken(c) \/ Challenge(c) \/ GetToken(c) \/ SetExpiry(c) \/ SetToken(c)
           \/ Deliver(c) \/ Erase(c) \/ RequestFails(c)
    PROVE  Base'
  <1> USE SdkAssumption DEF SdkAssumption
  <1>1. CASE CheckToken(c)
    <2>1. /\ pc[c] = "check" /\ looked' = [looked EXCEPT ![c] = now]
          /\ \E place \in {"challenge", "send"} : pc' = [pc EXCEPT ![c] = place]
          /\ UNCHANGED <<now, agents, keyring, access, expires, ask, chain, held, sent, listed,
                         mishaps, shared>>
      BY <1>1 DEF CheckToken, Goto
    <2>2. Shapes'
      BY <2>1 DEF Base, Shapes, Places
    <2>3. InPlace(c)' /\ LoginInOrder(c)'
      BY <2>1 DEF Base, Shapes, InPlace, LoginInOrder, RevokePlaces
    <2> QED
      BY <2>1, <2>2, <2>3, OthersKeepBase DEF Base, Shapes
  <1>2. CASE Challenge(c)
    <2>1. /\ pc[c] = "challenge"
          /\ UNCHANGED <<now, agents, keyring, access, expires, ask, chain, held, looked, sent,
                         listed, mishaps, shared>>
          /\ \E place \in {"token", "failed"} :
                /\ pc' = [pc EXCEPT ![c] = place]
                /\ place = "token" => ask[c].on \in DOMAIN agents /\ ask[c].on \in DOMAIN keyring
      BY <1>2 DEF Challenge, Move, Goto
    <2>2. Shapes'
      BY <2>1 DEF Base, Shapes, Places
    <2>3. InPlace(c)' /\ LoginInOrder(c)'
      BY <2>1 DEF Base, Shapes, InPlace, LoginInOrder, RevokePlaces
    <2> QED
      BY <2>1, <2>2, <2>3, OthersKeepBase DEF Base, Shapes
  <1>3. CASE GetToken(c)
    <2> DEFINE token == [agent |-> ask[c].on, until |-> now + Lifetime]
    <2>1. /\ pc[c] = "token"
          /\ UNCHANGED <<now, agents, keyring, access, expires, ask, chain, looked, sent, listed,
                         mishaps, shared>>
          /\ \/ held' = [held EXCEPT ![c] = token] /\ pc' = [pc EXCEPT ![c] = "expiry"]
             \/ held' = held /\ pc' = [pc EXCEPT ![c] = "failed"]
      BY <1>3 DEF GetToken, Goto
    <2>2. /\ ask[c].on \in DOMAIN agents /\ now \in 1 .. MaxTime /\ looked[c] \in 0 .. now
          /\ DOMAIN agents \subseteq Ids
      BY <2>1 DEF Base, Shapes, LoginInOrder
    <2>3. /\ token \in Tokens /\ token.agent = ask[c].on
          /\ looked[c] + Margin < token.until /\ token.until <= MaxTime + Lifetime
      BY <2>2 DEF Tokens
    <2> HIDE DEF token
    <2>4. Shapes'
      <3>1. held' \in [Calls -> Ids \cup Tokens \cup {None}]
        BY <2>1, <2>3 DEF Base, Shapes
      <3>2. pc' \in [Calls -> Places]
        BY <2>1 DEF Base, Shapes, Places
      <3> QED
        BY <2>1, <3>1, <3>2 DEF Base, Shapes
    <2>5. InPlace(c)' /\ LoginInOrder(c)'
      BY <2>1, <2>2, <2>3 DEF Base, Shapes, InPlace, LoginInOrder, RevokePlaces
    <2> QED
      BY <2>1, <2>4, <2>5, OthersKeepBase DEF Base, Shapes
  <1>4. CASE SetExpiry(c)
    <2>1. /\ pc[c] = "expiry" /\ pc' = [pc EXCEPT ![c] = "assign"]
          /\ expires' = [expires EXCEPT ![ProcessOf[c]] = held[c].until]
          /\ UNCHANGED <<now, agents, keyring, access, ask, chain, held, looked, sent, listed,
                         mishaps, shared>>
      BY <1>4 DEF SetExpiry, Goto
    <2>2. held[c].until \in 0 .. MaxTime + Lifetime
      BY <2>1 DEF Base, LoginInOrder, Tokens
    <2>3. Shapes'
      <3>1. expires' \in [Processes -> 0 .. MaxTime + Lifetime]
        BY <2>1, <2>2 DEF Base, Shapes
      <3>2. pc' \in [Calls -> Places]
        BY <2>1 DEF Base, Shapes, Places
      <3> QED
        BY <2>1, <3>1, <3>2 DEF Base, Shapes
    <2>4. InPlace(c)' /\ LoginInOrder(c)'
      BY <2>1 DEF Base, Shapes, InPlace, LoginInOrder, RevokePlaces
    <2> QED
      BY <2>1, <2>3, <2>4, OthersKeepBase DEF Base, Shapes
  <1>5. CASE SetToken(c)
    <2>1. /\ pc[c] = "assign" /\ held' = [held EXCEPT ![c] = None]
          /\ access' = [access EXCEPT ![ProcessOf[c]] = held[c]]
          /\ \E place \in {"done", "send"} : pc' = [pc EXCEPT ![c] = place]
          /\ UNCHANGED <<now, agents, keyring, expires, ask, chain, looked, sent, listed,
                         mishaps, shared>>
      BY <1>5 DEF SetToken, Goto
    <2>2. held[c] \in Tokens
      BY <2>1 DEF Base, LoginInOrder
    <2>3. Shapes'
      BY <2>1, <2>2 DEF Base, Shapes, Places
    <2>4. InPlace(c)' /\ LoginInOrder(c)'
      BY <2>1 DEF Base, Shapes, InPlace, LoginInOrder, RevokePlaces
    <2> QED
      BY <2>1, <2>3, <2>4, OthersKeepBase DEF Base, Shapes
  <1>6. CASE Deliver(c) \/ Erase(c)
    <2>1. /\ pc[c] \in {"send", "erase"}
          /\ sent' = sent \/ sent' = [sent EXCEPT ![c] = access[ProcessOf[c]]]
          /\ \E place \in {"done", "failed"} : pc' = [pc EXCEPT ![c] = place]
          /\ mishaps' = mishaps \/ mishaps' = mishaps \cup {c}
          /\ \/ agents' = agents
             \/ /\ ask[c].on \in DOMAIN agents
                /\ agents' = [agents EXCEPT ![ask[c].on].status = "inactive"]
          /\ UNCHANGED <<now, keyring, access, expires, ask, chain, held, looked, listed, shared>>
      BY <1>6 DEF Deliver, Erase, Deactivate, Goto
    <2>2. agents' \in [DOMAIN agents' -> Rows] /\ DOMAIN agents' = DOMAIN agents
      <3>1. agents \in [DOMAIN agents -> Rows]
        BY DEF Base, Shapes
      <3>2. CASE agents' = [agents EXCEPT ![ask[c].on].status = "inactive"]
                     /\ ask[c].on \in DOMAIN agents
        BY <3>1, <3>2 DEF Rows
      <3> QED
        BY <2>1, <3>1, <3>2
    <2>3. sent' \in [Calls -> Tokens \cup {None}] /\ pc' \in [Calls -> Places]
      BY <2>1 DEF Base, Shapes, Places
    <2>4. Shapes'
      BY <2>1, <2>2, <2>3 DEF Base, Shapes
    <2>5. InPlace(c)' /\ LoginInOrder(c)'
      BY <2>1, <2>2 DEF Base, Shapes, InPlace, LoginInOrder, RevokePlaces
    <2> QED
      BY <2>1, <2>2, <2>4, <2>5, OthersKeepBase DEF Base, Shapes
  <1>7. CASE RequestFails(c)
    <2>1. /\ pc[c] \in {"list", "post", "challenge", "token", "send", "erase"}
          /\ pc' = [pc EXCEPT ![c] = "failed"] /\ mishaps' = mishaps \cup {c}
          /\ UNCHANGED <<now, agents, keyring, access, expires, ask, chain, held, looked, sent,
                         listed, shared>>
      BY <1>7 DEF RequestFails, Mishap, Goto
    <2>2. mishaps' \in SUBSET Calls
      BY <2>1 DEF Base, Shapes
    <2> QED
      BY <2>1, <2>2, MoveKeepsBase DEF RevokePlaces, Places
  <1> QED
    BY <1>1, <1>2, <1>3, <1>4, <1>5, <1>6, <1>7

LEMMA PlainKeepsBase ==
    ASSUME Base, NEW c \in Calls, PlainStep(c)
    PROVE  Base'
  <1>1. CASE Starting(c)
    BY <1>1, StartKeepsBase DEF Starting
  <1>2. CASE Step(c)
    <2>1. "kubernetes" \in Platforms /\ "aws" \in Platforms /\ "azure" \in Platforms
          /\ "docker" \in Platforms
      BY DEF Platforms
    <2> QED
      BY <1>2, <2>1, FindingKeepsBase, IdentityKeepsBase, TokensKeepBase
         DEF Step, KubernetesIdentity, AwsIdentity, AzureIdentity, DockerIdentity,
             PostKubernetes, PostAws, PostAzure, PostDocker, BootstrapKubernetes, BootstrapAws,
             BootstrapAzure, BootstrapDocker
  <1>3. CASE Answered(c) \/ Refused(c)
    <2>1. /\ pc[c] = "request" /\ mishaps' \in SUBSET Calls
          /\ \E place \in {"done", "failed"} : pc' = [pc EXCEPT ![c] = place]
          /\ UNCHANGED <<now, agents, keyring, access, expires, ask, chain, held, looked, sent,
                         listed, shared>>
      BY <1>3 DEF Answered, Refused, Move, Mishap, Goto, Base, Shapes
    <2> QED
      BY <2>1, MoveKeepsBase DEF RevokePlaces, Places
  <1> QED
    BY <1>1, <1>2, <1>3 DEF PlainStep

LEMMA ListKeepsBase ==
    ASSUME Base, NEW c \in Calls, ListStep(c)
    PROVE  Base'
  <1>1. CASE ~ JudgeLocal(c)
    <2>1. /\ pc[c] \in {"revoke", "open", "dump", "flush", "rotate", "truncate", "rewrite"}
          /\ mishaps' \in SUBSET Calls
          /\ \E place \in {"done", "failed", "open", "dump", "flush", "truncate", "rewrite"} :
                /\ pc' = [pc EXCEPT ![c] = place]
                /\ place \in {"truncate", "rewrite"} => pc[c] \in {"rotate", "truncate"}
          /\ UNCHANGED <<now, agents, keyring, access, expires, ask, chain, held, looked, sent,
                         listed, shared>>
      BY <1>1 DEF ListStep, AddRevoked, OpenList, DumpList, FlushList, SaveFails, ReadIdentity,
                  EmptyIdentity, Rotate, RotationFails, vaultVars, Move, Mishap, Goto, Base,
                  Shapes
    <2> QED
      BY <2>1, MoveKeepsBase DEF RevokePlaces, Places
  <1>2. CASE JudgeLocal(c)
    <2>1. /\ pc[c] = "judge"
          /\ \/ pc' = [pc EXCEPT ![c] = "failed"] /\ UNCHANGED chain
             \/ pc' = [pc EXCEPT ![c] = "lookup"] /\ Detect(c, ask[c].kind)
          /\ UNCHANGED <<now, agents, keyring, access, expires, ask, held, looked, sent, listed,
                         mishaps, shared>>
      BY <1>2 DEF JudgeLocal, Goto
    <2>2. /\ chain' \in [Calls -> Seq(Providers)]
          /\ pc' \in [Calls -> Places] /\ pc'[c] \in {"failed", "lookup"}
          /\ pc'[c] = "lookup" => chain'[c] # <<>>
          /\ \A d \in Calls \ {c} : chain'[d] = chain[d] /\ pc'[d] = pc[d]
      BY <2>1, DetectType DEF Base, Shapes, Places
    <2>3. Shapes'
      BY <2>1, <2>2 DEF Base, Shapes
    <2>4. InPlace(c)' /\ LoginInOrder(c)'
      BY <2>1, <2>2 DEF Base, Shapes, InPlace, LoginInOrder, RevokePlaces
    <2> QED
      BY <2>1, <2>2, <2>3, <2>4, OthersKeepBase DEF Base, Shapes
  <1> QED
    BY <1>1, <1>2

LEMMA CrashKeepsBase ==
    ASSUME Base, NEW p \in Processes, Crash(p)
    PROVE  Base'
  <1>1. /\ pc' = [c \in Calls |-> IF c \in Running(p) THEN "failed" ELSE pc[c]]
        /\ held' = [c \in Calls |-> IF c \in Running(p) THEN None ELSE held[c]]
        /\ mishaps' = mishaps \cup Running(p)
        /\ access' = [access EXCEPT ![p] = None]
        /\ expires' = [expires EXCEPT ![p] = 0]
        /\ UNCHANGED <<now, agents, keyring, ask, chain, looked, sent, listed, shared>>
    BY DEF Crash
  <1>2. Running(p) \subseteq Calls /\ \A c \in Running(p) : pc[c] # "idle"
    BY DEF Running
  <1>3. Shapes'
    BY <1>1, <1>2, SdkAssumption DEF Base, Shapes, Places, SdkAssumption
  <1>4. ASSUME NEW c \in Calls PROVE InPlace(c)' /\ LoginInOrder(c)'
    <2>1. CASE c \in Running(p)
      BY <1>1, <1>2, <2>1 DEF Base, InPlace, LoginInOrder, RevokePlaces
    <2>2. CASE c \notin Running(p)
      BY <1>1, <2>2 DEF Base, InPlace, LoginInOrder
    <2> QED
      BY <2>1, <2>2
  <1> QED
    BY <1>3, <1>4 DEF Base

LEMMA BaseStep ==
    ASSUME Base, [Next]_allVars
    PROVE  Base'
  <1>1. CASE Next
    <2>1. CASE Tick
      <3>1. /\ now' = now + 1 /\ now < MaxTime
            /\ UNCHANGED <<agents, keyring, access, expires, callVars>>
        BY <2>1 DEF Tick
      <3>2. Shapes'
        BY <3>1, SdkAssumption DEF Base, Shapes, callVars, SdkAssumption
      <3>3. \A c \in Calls : InPlace(c)' /\ LoginInOrder(c)'
        BY <3>1 DEF Base, InPlace, LoginInOrder, callVars
      <3> QED
        BY <3>2, <3>3 DEF Base
    <2> QED
      BY <1>1, <2>1, NextSteps, PlainKeepsBase, ListKeepsBase, CrashKeepsBase DEF Restart
  <1>2. CASE UNCHANGED allVars
    <2>1. UNCHANGED <<now, agents, keyring, access, expires, ask, pc, chain, held, looked, sent,
                      listed, mishaps, shared>>
      BY <1>2 DEF allVars, vars, callVars
    <2>2. Shapes'
      BY <2>1 DEF Base, Shapes
    <2>3. \A c \in Calls : InPlace(c)' /\ LoginInOrder(c)'
      BY <2>1 DEF Base, InPlace, LoginInOrder
    <2> QED
      BY <2>2, <2>3 DEF Base
  <1> QED
    BY <1>1, <1>2

-----------------------------------------------------------------------------
(* Agents and keys.                                                        *)

LEMMA AgentsInit == SdkInit => AgentsInOrder
  <1> SUFFICES ASSUME SdkInit PROVE AgentsInOrder
    OBVIOUS
  <1> USE DEF SdkInit, Init
  <1>1. IsFiniteSet(DOMAIN Known) /\ \A a \in DOMAIN Known : a \notin Made
    BY SdkAssumption DEF SdkAssumption
  <1>2. /\ DOMAIN agents = DOMAIN Known /\ DOMAIN keyring = DOMAIN Known
        /\ \A a \in DOMAIN Known : agents[a].key = a /\ keyring[a] = a
    OBVIOUS
  <1>3. \A c \in Calls : New(c) \notin DOMAIN agents
    BY <1>1, <1>2 DEF Made
  <1>4. NamesInOrder
    BY <1>1, <1>2, <1>3 DEF NamesInOrder
  <1> QED
    BY <1>2, <1>4 DEF AgentsInOrder, KeysInOrder, OrphansInOrder

(* A step of c that has nothing to do with agents and keys.                *)
Aside(c) ==
    /\ UNCHANGED <<agents, keyring, ask, listed>>
    /\ mishaps \subseteq mishaps'
    /\ pc[c] \notin {"idle", "keep", "claim"}
    /\ pc'[c] \notin {"idle", "list", "post", "keep", "claim"}
    /\ \A d \in Calls \ {c} : pc'[d] = pc[d] /\ held'[d] = held[d]

LEMMA AsideKeepsAgents ==
    ASSUME AgentsInOrder, NEW c \in Calls, Aside(c)
    PROVE  AgentsInOrder'
  <1>1. KeysInOrder'
    BY DEF AgentsInOrder, KeysInOrder, Aside
  <1>2. OrphansInOrder'
    BY DEF AgentsInOrder, OrphansInOrder, Holding, Aside
  <1>3. NamesInOrder'
    BY DEF AgentsInOrder, NamesInOrder, NotListed, Aside
  <1> QED
    BY <1>1, <1>2, <1>3 DEF AgentsInOrder

(* Most steps are of that kind.                                            *)
LEMMA MovesAreAside ==
    ASSUME Base, NEW c \in Calls, UNCHANGED <<agents, keyring, ask, listed>>,
           mishaps' = mishaps \/ mishaps' = mishaps \cup {c},
           pc[c] \notin {"idle", "keep", "claim"},
           held' = held \/ (\E h : held' = [held EXCEPT ![c] = h]),
           NEW place, pc' = [pc EXCEPT ![c] = place],
           place \notin {"idle", "list", "post", "keep", "claim"}
    PROVE  Aside(c)
  BY DEF Aside, Base, Shapes

LEMMA AsideSteps ==
    ASSUME Base, NEW c \in Calls,
           \/ KeyringIdentity(c) \/ \E platform \in Platforms : AttestRefused(c, platform)
           \/ CheckToken(c) \/ Challenge(c) \/ GetToken(c) \/ SetExpiry(c) \/ SetToken(c)
           \/ RequestFails(c) \/ Answered(c) \/ Refused(c) \/ ListStep(c)
    PROVE  Aside(c)
  <1> USE DEF Goto, Move, Mishap
  <1>1. CASE AskNext(c) /\ pc[c] = "lookup"
                /\ UNCHANGED <<agents, keyring, ask, listed, mishaps, held>>
    BY <1>1, AskNextType DEF Aside
  <1>2. CASE KeyringIdentity(c)
    <2>1. CASE Goto(c, Found(c))
      <3>1. Found(c) \in {"challenge", "check", "done"}
        BY DEF Found
      <3> QED
        BY <1>2, <2>1, <3>1, MovesAreAside DEF KeyringIdentity
    <2>2. CASE AskNext(c)
      BY <1>1, <1>2, <2>2 DEF KeyringIdentity
    <2> QED
      BY <1>2, <2>1, <2>2 DEF KeyringIdentity
  <1>3. CASE \E platform \in Platforms : AttestRefused(c, platform)
    BY <1>1, <1>3 DEF AttestRefused
  <1>4. CASE CheckToken(c)
    BY <1>4, MovesAreAside DEF CheckToken
  <1>5. CASE Challenge(c)
    BY <1>5, MovesAreAside DEF Challenge
  <1>6. CASE GetToken(c)
    BY <1>6, MovesAreAside DEF GetToken
  <1>7. CASE SetExpiry(c) \/ SetToken(c)
    BY <1>7, MovesAreAside DEF SetExpiry, SetToken
  <1>8. CASE RequestFails(c) \/ Answered(c) \/ Refused(c)
    BY <1>8, MovesAreAside DEF RequestFails, Answered, Refused
  <1>9. CASE ListStep(c)
    <2>1. CASE AddRevoked(c) \/ OpenList(c) \/ DumpList(c) \/ FlushList(c) \/ SaveFails(c)
      BY <2>1, MovesAreAside DEF AddRevoked, OpenList, DumpList, FlushList, SaveFails
    <2>2. CASE \/ JudgeLocal(c) \/ ReadIdentity(c) \/ EmptyIdentity(c) \/ Rotate(c)
               \/ RotationFails(c)
      BY <2>2, MovesAreAside
         DEF JudgeLocal, ReadIdentity, EmptyIdentity, Rotate, RotationFails
    <2> QED
      BY <1>9, <2>1, <2>2 DEF ListStep
  <1> QED
    BY <1>2, <1>3, <1>4, <1>5, <1>6, <1>7, <1>8, <1>9

LEMMA StartKeepsAgents ==
    ASSUME Base, AgentsInOrder, NEW c \in Calls, NEW s \in Starts, Begin(c, s[1], s[2])
    PROVE  AgentsInOrder'
  <1>1. PICK q \in Asks[c] : q.kind = s[1] /\ ask' = [ask EXCEPT ![c] = q]
    BY DEF Begin
  <1>2. /\ pc[c] = "idle" /\ pc' = [pc EXCEPT ![c] = s[2]]
        /\ UNCHANGED <<agents, keyring, held, listed, mishaps>>
    BY DEF Begin, Goto
  <1>3. s[2] \notin {"idle", "keep", "claim"} /\ (s[2] = "post" => s[1] # "find")
    BY DEF Starts
  <1>4. /\ pc'[c] = s[2] /\ ask'[c] = q
        /\ \A d \in Calls \ {c} : pc'[d] = pc[d] /\ ask'[d] = ask[d]
    BY <1>1, <1>2 DEF Base, Shapes
  <1>5. KeysInOrder'
    BY <1>2 DEF AgentsInOrder, KeysInOrder
  <1>6. OrphansInOrder'
    BY <1>2, <1>3, <1>4 DEF AgentsInOrder, OrphansInOrder, Holding
  <1>7. NamesInOrder'
    BY <1>1, <1>2, <1>3, <1>4 DEF AgentsInOrder, NamesInOrder, NotListed
  <1> QED
    BY <1>5, <1>6, <1>7 DEF AgentsInOrder

(* A list of all agents there are misses none.                             *)
LEMMA ListingsAreComplete ==
    ASSUME IsFiniteSet(DOMAIN agents), NEW S \in Listings,
           ~ (Cardinality(DOMAIN agents) > ListLimit)
    PROVE  S = DOMAIN agents
  <1>1. /\ S \subseteq DOMAIN agents
        /\ Cardinality(S) = IF Cardinality(DOMAIN agents) < ListLimit
                            THEN Cardinality(DOMAIN agents) ELSE ListLimit
    BY DEF Listings
  <1>2. Cardinality(DOMAIN agents) \in Nat
    BY FS_CardinalityType
  <1>3. Cardinality(S) = Cardinality(DOMAIN agents)
    BY <1>1, <1>2, SdkAssumption DEF SdkAssumption
  <1> QED
    BY <1>1, <1>3, FS_Subset

LEMMA ListKeepsAgents ==
    ASSUME Base, AgentsInOrder, NEW c \in Calls, GetByName(c)
    PROVE  AgentsInOrder'
  <1>1. /\ pc[c] = "list" /\ listed' = [listed EXCEPT ![c] = DOMAIN agents]
        /\ UNCHANGED <<agents, keyring, ask, held, mishaps>>
    BY DEF GetByName
  <1>2. PICK S \in Listings :
            Goto(c, IF \E a \in S : agents[a].name = ask[c].on THEN "done"
                    ELSE IF ask[c].opt THEN "post" ELSE "failed")
    BY DEF GetByName
  <1>3. /\ listed'[c] = DOMAIN agents /\ pc'[c] \in {"done", "post", "failed"}
        /\ pc'[c] = "post" => \A a \in S : agents[a].name # ask[c].on
        /\ \A d \in Calls \ {c} : pc'[d] = pc[d] /\ listed'[d] = listed[d]
    BY <1>1, <1>2 DEF Goto, Base, Shapes
  <1>4. KeysInOrder'
    BY <1>1 DEF AgentsInOrder, KeysInOrder
  <1>5. OrphansInOrder'
    BY <1>1, <1>3 DEF AgentsInOrder, OrphansInOrder, Holding
  <1>6. NamesInOrder'
    <2>1. IsFiniteSet(DOMAIN agents) /\ New(c) \notin DOMAIN agents
      BY <1>1 DEF AgentsInOrder, NamesInOrder
    <2>2. pc'[c] = "post" => NotListed(c)'
      <3>1. CASE Cardinality(DOMAIN agents) > ListLimit
        BY <1>1, <1>3, <3>1 DEF NotListed
      <3>2. CASE ~ (Cardinality(DOMAIN agents) > ListLimit)
        <4>1. S = DOMAIN agents
          BY <2>1, <3>2, ListingsAreComplete
        <4> QED
          BY <1>1, <1>3, <4>1 DEF NotListed
      <3> QED
        BY <3>1, <3>2
    <2> QED
      BY <1>1, <1>3, <2>1, <2>2 DEF AgentsInOrder, NamesInOrder, NotListed
  <1> QED
    BY <1>4, <1>5, <1>6 DEF AgentsInOrder

(* Two calls make different agents, and so do a call and a platform.       *)
LEMMA NewProperties ==
    ASSUME NEW c
    PROVE  /\ New(c)[1] = c /\ New(c)[2] = "new" /\ \A d : New(d) = New(c) => d = c
           /\ New(c) \notin Calls \X Platforms \X Nat
  <1>1. \A a \in Calls \X Platforms \X Nat : a[2] \in Platforms
    OBVIOUS
  <1> QED
    BY <1>1 DEF New, Platforms

LEMMA CreateKeepsAgents ==
    ASSUME Base, AgentsInOrder, NEW c \in Calls, CreateAgent(c)
    PROVE  AgentsInOrder'
  <1> DEFINE a == New(c)
  <1>1. /\ pc[c] = "post" /\ Registered(a, ask[c].on) /\ UNCHANGED <<keyring, ask, listed>>
    BY DEF CreateAgent
  <1>2. PICK answered \in BOOLEAN :
            /\ pc' = [pc EXCEPT ![c] = IF answered THEN "keep" ELSE "failed"]
            /\ held' = [held EXCEPT ![c] = IF answered THEN New(c) ELSE None]
            /\ mishaps' = IF answered THEN mishaps ELSE mishaps \cup {c}
    BY DEF CreateAgent, Goto
  <1>3. /\ a \notin DOMAIN agents /\ IsFiniteSet(DOMAIN agents)
        /\ ask[c] # None /\ (ask[c].kind = "find" => NotListed(c))
    BY <1>1 DEF AgentsInOrder, NamesInOrder, Base, InPlace
  <1>4. /\ DOMAIN agents' = DOMAIN agents \cup {a} /\ agents'[a].key = a
        /\ \A b \in DOMAIN agents : agents'[b] = agents[b]
    <2>1. a \in Made
      BY DEF Made
    <2>2. ask[c].on \in Names
      BY NamesOfAsks
    <2> HIDE DEF a
    <2>3. /\ DOMAIN agents' = DOMAIN agents \cup {a}
          /\ agents'[a] = [name |-> ask[c].on, key |-> a, status |-> "active"]
          /\ \A b \in DOMAIN agents \ {a} : agents'[b] = agents[b]
      BY <1>1, <2>1, <2>2, RegisteredType
    <2> QED
      BY <1>3, <2>3
  <1>5. /\ (pc'[c] = "keep" /\ held'[c] = a) \/ (pc'[c] = "failed" /\ c \in mishaps')
        /\ mishaps \subseteq mishaps'
        /\ \A d \in Calls \ {c} : pc'[d] = pc[d] /\ held'[d] = held[d]
    BY <1>2 DEF Base, Shapes
  <1>6. /\ a[1] = c /\ a[2] = "new" /\ \A d \in Calls : New(d) = a => d = c
        /\ a \notin Calls \X Platforms \X Nat
    BY NewProperties
  <1>7. KeysInOrder'
    BY <1>1, <1>4 DEF AgentsInOrder, KeysInOrder
  <1>8. OrphansInOrder'
    <2>1. OrphansInOrder
      BY DEF AgentsInOrder
    <2> HIDE DEF a
    <2>2. ASSUME NEW b \in DOMAIN agents' \ DOMAIN keyring', b # a
          PROVE  /\ b[1] \in Calls /\ pc'[b[1]] # "idle"
                 /\ \/ Holding(b[1], b)' \/ b[1] \in mishaps'
                    \/ b[2] # "new" /\ ask'[b[1]].kind \notin {"lookup", "auto"}
      BY <1>1, <1>4, <1>5, <2>1, <2>2 DEF OrphansInOrder, Holding
    <2>3. /\ a[1] \in Calls /\ pc'[a[1]] # "idle"
          /\ Holding(a[1], a)' \/ a[1] \in mishaps'
      BY <1>5, <1>6 DEF Holding
    <2> QED
      BY <2>2, <2>3 DEF OrphansInOrder
  <1>9. NamesInOrder'
    <2>1. IsFiniteSet(DOMAIN agents')
      BY <1>3, <1>4, FS_AddElement
    <2>2. NamesInOrder
      BY DEF AgentsInOrder
    <2> HIDE DEF a
    <2>3. ASSUME NEW d \in Calls
          PROVE  /\ listed'[d] \subseteq DOMAIN agents'
                 /\ New(d) \in DOMAIN agents' => pc'[d] \notin {"idle", "list", "post"}
                 /\ NotListed(d) => NotListed(d)'
      BY <1>1, <1>4, <1>5, <1>6, <2>2 DEF NamesInOrder, NotListed
    <2>4. ASSUME NEW d \in Calls, ask'[d] # None, ask'[d].kind = "find",
                 pc'[d] = "post" \/ New(d) \in DOMAIN agents'
          PROVE  NotListed(d)
      BY <1>1, <1>3, <1>4, <1>5, <1>6, <2>2, <2>4 DEF NamesInOrder
    <2> QED
      BY <2>1, <2>3, <2>4 DEF NamesInOrder
  <1> QED
    BY <1>7, <1>8, <1>9 DEF AgentsInOrder

(* Keys that are put into the keyring.                                     *)
LEMMA KeepingKeepsAgents ==
    ASSUME Base, AgentsInOrder, NEW c \in Calls,
           StorePrivateKey(c) \/ \E platform : Claim(c, platform)
    PROVE  AgentsInOrder'
  <1>1. /\ pc[c] \in {"keep", "claim"} /\ keyring' = Put(keyring, held[c], held[c])
        /\ UNCHANGED <<agents, ask, listed, mishaps>>
        /\ held' = [held EXCEPT ![c] = None]
        /\ \/ \E place \in {"challenge", "check", "done"} : pc' = [pc EXCEPT ![c] = place]
           \/ pc[c] = "claim" /\ AskNext(c)
    BY DEF StorePrivateKey, Claim, Goto, Found
  <1>2. held[c] \in DOMAIN agents
    BY <1>1 DEF Base, InPlace
  <1>3. /\ DOMAIN keyring' = DOMAIN keyring \cup {held[c]} /\ keyring'[held[c]] = held[c]
        /\ \A a \in DOMAIN keyring \ {held[c]} : keyring'[a] = keyring[a]
    BY <1>1 DEF Put
  <1>4. /\ pc'[c] \in {"challenge", "check", "done", "lookup", "failed"}
        /\ \A d \in Calls \ {c} : pc'[d] = pc[d] /\ held'[d] = held[d]
    BY <1>1, AskNextType DEF Base, Shapes
  <1>5. KeysInOrder'
    BY <1>1, <1>2, <1>3 DEF AgentsInOrder, KeysInOrder
  <1>6. OrphansInOrder'
    BY <1>1, <1>3, <1>4 DEF AgentsInOrder, OrphansInOrder, Holding
  <1>7. NamesInOrder'
    BY <1>1, <1>4 DEF AgentsInOrder, NamesInOrder, NotListed
  <1> QED
    BY <1>5, <1>6, <1>7 DEF AgentsInOrder

LEMMA KeyringFailsKeepsAgents ==
    ASSUME Base, AgentsInOrder, NEW c \in Calls, KeyringFails(c)
    PROVE  AgentsInOrder'
  <1>1. /\ pc[c] \in {"keep", "claim"} /\ mishaps' = mishaps \cup {c}
        /\ held' = [held EXCEPT ![c] = None] /\ UNCHANGED <<agents, keyring, ask, listed>>
        /\ pc' = [pc EXCEPT ![c] = "failed"] \/ (pc[c] = "claim" /\ AskNext(c))
    BY DEF KeyringFails, Goto
  <1>2. /\ pc'[c] \in {"lookup", "failed"}
        /\ \A d \in Calls \ {c} : pc'[d] = pc[d] /\ held'[d] = held[d]
    BY <1>1, AskNextType DEF Base, Shapes
  <1>3. KeysInOrder'
    BY <1>1 DEF AgentsInOrder, KeysInOrder
  <1>4. OrphansInOrder'
    BY <1>1, <1>2 DEF AgentsInOrder, OrphansInOrder, Holding
  <1>5. NamesInOrder'
    BY <1>1, <1>2 DEF AgentsInOrder, NamesInOrder, NotListed
  <1> QED
    BY <1>3, <1>4, <1>5 DEF AgentsInOrder

LEMMA AttestKeepsAgents ==
    ASSUME Base, AgentsInOrder, NEW c \in Calls, NEW platform \in Platforms,
           NEW answered \in BOOLEAN, Attest(c, platform, answered)
    PROVE  AgentsInOrder'
  <1> DEFINE a == <<c, platform, Len(chain[c])>>
  <1>1. /\ pc[c] = "lookup" /\ UNCHANGED <<keyring, ask, listed>>
        /\ a \notin DOMAIN agents /\ \E name \in PolicyNames : Registered(a, name)
        /\ mishaps' = IF answered THEN mishaps ELSE mishaps \cup {c}
        /\ \/ pc' = [pc EXCEPT ![c] = "claim"] /\ held' = [held EXCEPT ![c] = a]
           \/ /\ AskNext(c) /\ UNCHANGED held
              /\ ~answered \/ ask[c].kind \notin {"lookup", "auto"}
    BY DEF Attest, Registered, Goto
  <1>2. a \in Calls \X Platforms \X Nat /\ a[1] = c /\ a[2] # "new"
    <2>1. Len(chain[c]) \in Nat
      BY LenProperties DEF Base, Shapes
    <2> QED
      BY <2>1 DEF Platforms
  <1> HIDE DEF a
  <1>3. /\ DOMAIN agents' = DOMAIN agents \cup {a} /\ agents'[a].key = a
        /\ \A b \in DOMAIN agents : agents'[b] = agents[b]
    <2>1. PICK name \in PolicyNames : Registered(a, name)
      BY <1>1
    <2>2. a \in Made /\ name \in Names
      BY <1>2 DEF Made, Names
    <2>3. /\ DOMAIN agents' = DOMAIN agents \cup {a}
          /\ agents'[a] = [name |-> name, key |-> a, status |-> "active"]
          /\ \A b \in DOMAIN agents \ {a} : agents'[b] = agents[b]
      BY <2>1, <2>2, RegisteredType
    <2> QED
      BY <1>1, <2>3
  <1>4. /\ mishaps \subseteq mishaps' /\ pc'[c] \in {"claim", "lookup", "failed"}
        /\ \/ pc'[c] = "claim" /\ held'[c] = a
           \/ c \in mishaps' \/ ask[c].kind \notin {"lookup", "auto"}
        /\ \A d \in Calls \ {c} : pc'[d] = pc[d] /\ held'[d] = held[d]
    <2>1. CASE pc' = [pc EXCEPT ![c] = "claim"] /\ held' = [held EXCEPT ![c] = a]
      BY <1>1, <2>1 DEF Base, Shapes
    <2>2. CASE /\ AskNext(c) /\ UNCHANGED held
               /\ ~answered \/ ask[c].kind \notin {"lookup", "auto"}
      BY <1>1, <2>2, AskNextType
    <2> QED
      BY <1>1, <2>1, <2>2
  <1>5. KeysInOrder'
    BY <1>1, <1>3 DEF AgentsInOrder, KeysInOrder
  <1>6. OrphansInOrder'
    <2>1. ASSUME NEW b \in DOMAIN agents' \ DOMAIN keyring', b # a
          PROVE  /\ b[1] \in Calls /\ pc'[b[1]] # "idle"
                 /\ \/ Holding(b[1], b)' \/ b[1] \in mishaps'
                    \/ b[2] # "new" /\ ask'[b[1]].kind \notin {"lookup", "auto"}
      BY <1>1, <1>3, <1>4, <2>1 DEF AgentsInOrder, OrphansInOrder, Holding
    <2>2. /\ pc'[c] # "idle"
          /\ \/ pc'[c] = "claim" /\ held'[c] = a
             \/ c \in mishaps'
             \/ a[2] # "new" /\ ask'[c].kind \notin {"lookup", "auto"}
      BY <1>1, <1>2, <1>4
    <2>3. /\ a[1] \in Calls /\ pc'[a[1]] # "idle"
          /\ \/ (pc'[a[1]] \in {"keep", "claim"} /\ held'[a[1]] = a) \/ a[1] \in mishaps'
             \/ a[2] # "new" /\ ask'[a[1]].kind \notin {"lookup", "auto"}
      BY <1>2, <2>2
    <2> QED
      BY <2>1, <2>3 DEF OrphansInOrder, Holding
  <1>7. NamesInOrder'
    <2>1. NamesInOrder
      BY DEF AgentsInOrder
    <2>2. IsFiniteSet(DOMAIN agents')
      BY <1>3, <2>1, FS_AddElement DEF NamesInOrder
    <2>3. \A d \in Calls : New(d) # a
      BY <1>2, NewProperties
    <2>4. ASSUME NEW d \in Calls
          PROVE  /\ listed'[d] \subseteq DOMAIN agents'
                 /\ New(d) \in DOMAIN agents' => pc'[d] \notin {"idle", "list", "post"}
                 /\ NotListed(d) => NotListed(d)'
      BY <1>1, <1>3, <1>4, <2>1, <2>3 DEF NamesInOrder, NotListed
    <2>5. ASSUME NEW d \in Calls, ask'[d] # None, ask'[d].kind = "find",
                 pc'[d] = "post" \/ New(d) \in DOMAIN agents'
          PROVE  NotListed(d)
      BY <1>1, <1>3, <1>4, <2>1, <2>3, <2>5 DEF NamesInOrder
    <2> QED
      BY <2>2, <2>4, <2>5 DEF NamesInOrder
  <1> QED
    BY <1>5, <1>6, <1>7 DEF AgentsInOrder

LEMMA DeliverKeepsAgents ==
    ASSUME Base, AgentsInOrder, NEW c \in Calls, Deliver(c) \/ Erase(c)
    PROVE  AgentsInOrder'
  <1>1. /\ pc[c] \in {"send", "erase"} /\ UNCHANGED <<keyring, ask, held, listed>>
        /\ \E place \in {"done", "failed"} : pc' = [pc EXCEPT ![c] = place]
        /\ mishaps' = mishaps \/ mishaps' = mishaps \cup {c}
        /\ \/ agents' = agents
           \/ /\ ask[c].on \in DOMAIN agents
              /\ agents' = [agents EXCEPT ![ask[c].on].status = "inactive"]
    BY DEF Deliver, Erase, Deactivate, Goto
  <1>2. /\ DOMAIN agents' = DOMAIN agents
        /\ \A a \in DOMAIN agents :
              agents'[a].name = agents[a].name /\ agents'[a].key = agents[a].key
    <2>1. agents \in [DOMAIN agents -> Rows]
      BY DEF Base, Shapes
    <2>2. CASE agents' = [agents EXCEPT ![ask[c].on].status = "inactive"]
                   /\ ask[c].on \in DOMAIN agents
      BY <2>1, <2>2 DEF Rows
    <2> QED
      BY <1>1, <2>1, <2>2
  <1>3. /\ pc'[c] \in {"done", "failed"} /\ mishaps \subseteq mishaps'
        /\ \A d \in Calls \ {c} : pc'[d] = pc[d]
    BY <1>1 DEF Base, Shapes
  <1>4. KeysInOrder'
    BY <1>1, <1>2 DEF AgentsInOrder, KeysInOrder
  <1>5. OrphansInOrder'
    BY <1>1, <1>2, <1>3 DEF AgentsInOrder, OrphansInOrder, Holding
  <1>6. NamesInOrder'
    BY <1>1, <1>2, <1>3 DEF AgentsInOrder, NamesInOrder, NotListed
  <1> QED
    BY <1>4, <1>5, <1>6 DEF AgentsInOrder

LEMMA PlainKeepsAgents ==
    ASSUME Base, AgentsInOrder, NEW c \in Calls, PlainStep(c)
    PROVE  AgentsInOrder'
  <1>1. CASE Starting(c)
    BY <1>1, StartKeepsAgents DEF Starting
  <1>2. CASE Step(c)
    <2>1. "kubernetes" \in Platforms /\ "aws" \in Platforms /\ "azure" \in Platforms
          /\ "docker" \in Platforms
      BY DEF Platforms
    <2>2. CASE GetByName(c) \/ CreateAgent(c) \/ StorePrivateKey(c) \/ KeyringFails(c)
                  \/ Deliver(c) \/ Erase(c)
      BY <2>2, ListKeepsAgents, CreateKeepsAgents, KeepingKeepsAgents,
         KeyringFailsKeepsAgents, DeliverKeepsAgents
    <2>3. CASE KubernetesIdentity(c) \/ AwsIdentity(c) \/ AzureIdentity(c) \/ DockerIdentity(c)
      BY <2>1, <2>3, AttestKeepsAgents, AsideSteps, AsideKeepsAgents
         DEF KubernetesIdentity, AwsIdentity, AzureIdentity, DockerIdentity,
             PostKubernetes, PostAws, PostAzure, PostDocker
    <2>4. CASE \/ BootstrapKubernetes(c) \/ BootstrapAws(c) \/ BootstrapAzure(c)
               \/ BootstrapDocker(c)
      BY <2>4, KeepingKeepsAgents
         DEF BootstrapKubernetes, BootstrapAws, BootstrapAzure, BootstrapDocker
    <2>5. CASE \/ KeyringIdentity(c) \/ CheckToken(c) \/ Challenge(c) \/ GetToken(c)
               \/ SetExpiry(c) \/ SetToken(c) \/ RequestFails(c)
      BY <2>5, AsideSteps, AsideKeepsAgents
    <2> QED
      BY <1>2, <2>2, <2>3, <2>4, <2>5 DEF Step
  <1>3. CASE Answered(c) \/ Refused(c)
    BY <1>3, AsideSteps, AsideKeepsAgents
  <1> QED
    BY <1>1, <1>2, <1>3 DEF PlainStep

LEMMA CrashKeepsAgents ==
    ASSUME Base, AgentsInOrder, NEW p \in Processes, Crash(p)
    PROVE  AgentsInOrder'
  <1>1. /\ pc' = [c \in Calls |-> IF c \in Running(p) THEN "failed" ELSE pc[c]]
        /\ held' = [c \in Calls |-> IF c \in Running(p) THEN None ELSE held[c]]
        /\ mishaps' = mishaps \cup Running(p)
        /\ UNCHANGED <<agents, keyring, ask, listed>>
    BY DEF Crash
  <1>2. KeysInOrder'
    BY <1>1 DEF AgentsInOrder, KeysInOrder
  <1>3. OrphansInOrder'
    BY <1>1 DEF AgentsInOrder, OrphansInOrder, Holding
  <1>4. NamesInOrder'
    BY <1>1 DEF AgentsInOrder, NamesInOrder, NotListed
  <1> QED
    BY <1>2, <1>3, <1>4 DEF AgentsInOrder

LEMMA AgentsStep ==
    ASSUME Base, AgentsInOrder, [Next]_allVars
    PROVE  AgentsInOrder'
  <1>1. CASE Tick \/ UNCHANGED allVars
    <2>1. UNCHANGED <<agents, keyring, ask, pc, held, listed, mishaps>>
      BY <1>1 DEF Tick, allVars, vars, callVars
    <2> QED
      BY <2>1 DEF AgentsInOrder, KeysInOrder, OrphansInOrder, Holding, NamesInOrder, NotListed
  <1>2. CASE Next /\ ~Tick
    BY <1>2, NextSteps, PlainKeepsAgents, AsideSteps, AsideKeepsAgents, CrashKeepsAgents
       DEF Restart
  <1> QED
    BY <1>1, <1>2

-----------------------------------------------------------------------------
(* Tokens.                                                                 *)

LEMMA TokensInit == SdkInit => TokensInOrder
  <1> SUFFICES ASSUME SdkInit PROVE TokensInOrder
    OBVIOUS
  <1>1. /\ \A p \in Processes : access[p] = None
        /\ \A c \in Calls : pc[c] = "idle" /\ sent[c] = None
    BY DEF SdkInit, Init
  <1>2. \A p \in Processes : Running(p) = {}
    BY <1>1 DEF Running
  <1>3. \A p \in Processes : AloneInOrder(p)
    BY <1>1, <1>2 DEF AloneInOrder
  <1> QED
    BY <1>1, <1>3 DEF TokensInOrder, TokensAreAskedFor, SentInOrder

(* A step of c disturbs neither what other calls have sent ...             *)
LEMMA OthersKeepSent ==
    ASSUME NEW c \in Calls, NEW d \in Calls \ {c}, SentInOrder(d),
           \A e \in Calls : ask[e] # None => ask'[e] = ask[e],
           pc'[d] = pc[d], ask'[d] = ask[d], looked'[d] = looked[d], sent'[d] = sent[d],
           access[ProcessOf[d]] # None => access'[ProcessOf[d]] # None,
           shared \subseteq shared'
    PROVE  SentInOrder(d)'
  <1>1. /\ pc'[d] = "send" => access'[ProcessOf[d]] # None
        /\ sent'[d] # None => pc'[d] \in Over
    BY DEF SentInOrder
  <1>2. ASSUME sent'[d] # None, ProcessOf[d] \notin shared'
        PROVE  /\ looked'[d] + Margin < sent'[d].until
               /\ \/ ask'[d].kind = "delete"
                  \/ \A e \in Calls : ProcessOf[e] = ProcessOf[d] /\ ask'[e] # None
                         => ask'[e].on = ask'[d].on
                  => sent'[d].agent = ask'[d].on
    BY <1>2 DEF SentInOrder
  <1> QED
    BY <1>1, <1>2 DEF SentInOrder

(* ... nor the processes it does not belong to.                            *)
LEMMA OthersStayAlone ==
    ASSUME NEW c \in Calls, NEW p \in Processes, ProcessOf[c] # p, AloneInOrder(p),
           access'[p] = access[p], expires'[p] = expires[p],
           \A d \in Calls \ {c} : /\ pc'[d] = pc[d] /\ held'[d] = held[d]
                                  /\ looked'[d] = looked[d] /\ ask'[d] = ask[d]
    PROVE  AloneInOrder(p)'
  <1>1. Running(p)' = Running(p) /\ \A d \in Running(p) : d \in Calls \ {c}
    BY DEF Running
  <1> QED
    BY <1>1 DEF AloneInOrder

(* A step of c that has nothing to do with tokens that are in use.         *)
Calm(c) ==
    /\ UNCHANGED <<access, expires, ask, looked, sent, shared>>
    /\ DOMAIN agents \subseteq DOMAIN agents'
    /\ pc[c] \notin {"idle", "assign"} \cup Over
    /\ pc'[c] \notin {"idle", "assign", "send"}
    /\ \A d \in Calls \ {c} : pc'[d] = pc[d] /\ held'[d] = held[d]

LEMMA CalmKeepsTokens ==
    ASSUME TokensInOrder, NEW c \in Calls, Calm(c)
    PROVE  TokensInOrder'
  <1>1. TokensAreAskedFor'
    BY DEF TokensInOrder, TokensAreAskedFor, Calm
  <1>2. \A d \in Calls \ {c} : SentInOrder(d)'
    BY OthersKeepSent DEF TokensInOrder, Calm
  <1>3. SentInOrder(c)'
    BY DEF TokensInOrder, SentInOrder, Calm
  <1>4. ASSUME NEW p \in Processes \ shared PROVE AloneInOrder(p)'
    <2>1. AloneInOrder(p)
      BY DEF TokensInOrder
    <2>2. CASE ProcessOf[c] # p
      BY <2>1, <2>2, OthersStayAlone DEF Calm
    <2>3. CASE ProcessOf[c] = p
      <3>1. c \in Running(p) /\ pc[c] # "assign"
        BY <2>3 DEF Calm, Running
      <3>2. Running(p)' \subseteq Running(p)
        BY <3>1 DEF Calm, Running
      <3>3. Running(p) = {c}
        BY <2>1, <3>1 DEF AloneInOrder
      <3>4. access[p] # None => expires[p] = access[p].until
        BY <2>1, <3>1, <3>3 DEF AloneInOrder
      <3> QED
        BY <3>2, <3>3, <3>4 DEF Calm, AloneInOrder
    <2> QED
      BY <2>2, <2>3
  <1> QED
    BY <1>1, <1>2, <1>3, <1>4 DEF TokensInOrder, Calm

LEMMA MovesAreCalm ==
    ASSUME Base, NEW c \in Calls, UNCHANGED <<access, expires, ask, looked, sent, shared>>,
           DOMAIN agents \subseteq DOMAIN agents',
           pc[c] \notin {"idle", "assign", "done", "failed"},
           held' = held \/ (\E h : held' = [held EXCEPT ![c] = h]),
           NEW place, pc' = [pc EXCEPT ![c] = place], place \notin {"idle", "assign", "send"}
    PROVE  Calm(c)
  BY DEF Calm, Base, Shapes, Over

LEMMA AskNextIsCalm ==
    ASSUME Base, NEW c \in Calls, UNCHANGED <<access, expires, ask, looked, sent, shared>>,
           DOMAIN agents \subseteq DOMAIN agents', pc[c] \in {"lookup", "claim"}, AskNext(c),
           held' = held \/ (\E h : held' = [held EXCEPT ![c] = h])
    PROVE  Calm(c)
  <1>1. \A d \in Calls \ {c} : held'[d] = held[d]
    BY DEF Base, Shapes
  <1> QED
    BY <1>1, AskNextType DEF Calm, Over

LEMMA CalmSteps ==
    ASSUME Base, NEW c \in Calls,
           \/ GetByName(c) \/ CreateAgent(c) \/ StorePrivateKey(c) \/ KeyringFails(c)
           \/ KeyringIdentity(c)
           \/ \E platform \in Platforms :
                 \/ AttestRefused(c, platform) \/ Claim(c, platform)
                 \/ \E answered \in BOOLEAN : Attest(c, platform, answered)
           \/ Challenge(c) \/ GetToken(c) \/ Erase(c) \/ RequestFails(c) \/ Answered(c)
           \/ Refused(c) \/ ListStep(c)
    PROVE  Calm(c)
  <1> USE DEF Goto, Move, Mishap
  <1>1. Found(c) \in {"challenge", "check", "done"}
    BY DEF Found
  <1>2. CASE GetByName(c)
    BY <1>2, MovesAreCalm DEF GetByName
  <1>3. CASE CreateAgent(c)
    BY <1>3, MovesAreCalm DEF CreateAgent, Registered, Put
  <1>4. CASE StorePrivateKey(c)
    BY <1>4, MovesAreCalm DEF StorePrivateKey
  <1>5. CASE KeyringFails(c)
    BY <1>5, MovesAreCalm, AskNextIsCalm DEF KeyringFails
  <1>6. CASE KeyringIdentity(c)
    BY <1>1, <1>6, MovesAreCalm, AskNextIsCalm DEF KeyringIdentity
  <1>7. ASSUME NEW platform \in Platforms,
               AttestRefused(c, platform) \/ Claim(c, platform)
        PROVE  Calm(c)
    BY <1>1, <1>7, MovesAreCalm, AskNextIsCalm DEF AttestRefused, Claim
  <1>8. ASSUME NEW platform \in Platforms, NEW answered \in BOOLEAN,
               Attest(c, platform, answered)
        PROVE  Calm(c)
    BY <1>8, MovesAreCalm, AskNextIsCalm DEF Attest, Registered, Put
  <1>9. CASE Challenge(c)
    BY <1>9, MovesAreCalm DEF Challenge
  <1>10. CASE GetToken(c)
    BY <1>10, MovesAreCalm DEF GetToken
  <1>11. CASE RequestFails(c) \/ Answered(c) \/ Refused(c)
    BY <1>11, MovesAreCalm DEF RequestFails, Answered, Refused
  <1>12. CASE ListStep(c)
    <2>1. CASE AddRevoked(c) \/ OpenList(c) \/ DumpList(c) \/ FlushList(c) \/ SaveFails(c)
      BY <2>1, MovesAreCalm DEF AddRevoked, OpenList, DumpList, FlushList, SaveFails
    <2>2. CASE \/ JudgeLocal(c) \/ ReadIdentity(c) \/ EmptyIdentity(c) \/ Rotate(c)
               \/ RotationFails(c)
      BY <2>2, MovesAreCalm
         DEF JudgeLocal, ReadIdentity, EmptyIdentity, Rotate, RotationFails
    <2> QED
      BY <1>12, <2>1, <2>2 DEF ListStep
  <1>13. CASE Erase(c)
    BY <1>13, MovesAreCalm DEF Erase, Deactivate
  <1> QED
    BY <1>2, <1>3, <1>4, <1>5, <1>6, <1>7, <1>8, <1>9, <1>10, <1>11, <1>12, <1>13

LEMMA StartKeepsTokens ==
    ASSUME Base, TokensInOrder, NEW c \in Calls, NEW s \in Starts, Begin(c, s[1], s[2])
    PROVE  TokensInOrder'
  <1>1. PICK q \in Asks[c] : q.kind = s[1] /\ ask' = [ask EXCEPT ![c] = q]
    BY DEF Begin
  <1>2. /\ pc[c] = "idle" /\ pc' = [pc EXCEPT ![c] = s[2]]
        /\ looked' = [looked EXCEPT ![c] = IF s[2] = "challenge" THEN now ELSE 0]
        /\ shared' = IF Running(ProcessOf[c]) = {} THEN shared ELSE shared \cup {ProcessOf[c]}
        /\ UNCHANGED <<agents, access, expires, held, sent>>
    BY DEF Begin, Goto
  <1>3. s[2] \notin {"idle", "assign", "send"}
    BY DEF Starts
  <1>4. /\ pc'[c] = s[2] /\ ask[c] = None /\ sent[c] = None
        /\ shared \subseteq shared'
        /\ \A d \in Calls \ {c} : pc'[d] = pc[d] /\ ask'[d] = ask[d] /\ looked'[d] = looked[d]
    BY <1>1, <1>2 DEF Base, Shapes, InPlace, TokensInOrder, SentInOrder, Over
  <1>5. TokensAreAskedFor'
    BY <1>2, <1>4 DEF TokensInOrder, TokensAreAskedFor
  <1>6. \A d \in Calls \ {c} : SentInOrder(d)'
    BY <1>2, <1>4, OthersKeepSent DEF TokensInOrder
  <1>7. SentInOrder(c)'
    BY <1>2, <1>3, <1>4 DEF SentInOrder
  <1>8. ASSUME NEW p \in Processes \ shared' PROVE AloneInOrder(p)'
    <2>1. AloneInOrder(p)
      BY <1>4 DEF TokensInOrder
    <2>2. CASE ProcessOf[c] # p
      BY <1>2, <1>4, <2>1, <2>2, OthersStayAlone
    <2>3. CASE ProcessOf[c] = p
      <3>1. Running(p) = {}
        BY <1>2, <2>3
      <3>2. Running(p)' \subseteq {c}
        BY <1>4, <3>1 DEF Running
      <3>3. access[p] # None => expires[p] = access[p].until
        BY <2>1, <3>1 DEF AloneInOrder
      <3> QED
        BY <1>2, <1>3, <1>4, <3>2, <3>3 DEF AloneInOrder
    <2> QED
      BY <2>2, <2>3
  <1> QED
    BY <1>5, <1>6, <1>7, <1>8 DEF TokensInOrder

LEMMA CheckKeepsTokens ==
    ASSUME Base, TokensInOrder, NEW c \in Calls, CheckToken(c)
    PROVE  TokensInOrder'
  <1> DEFINE p == ProcessOf[c]
  <1>1. /\ pc[c] = "check" /\ looked' = [looked EXCEPT ![c] = now]
        /\ pc' = [pc EXCEPT ![c] = IF Stale(p) THEN "challenge" ELSE "send"]
        /\ UNCHANGED <<agents, access, expires, ask, held, sent, shared>>
    BY DEF CheckToken, Goto
  <1>2. /\ pc'[c] \in {"challenge", "send"} /\ looked'[c] = now /\ sent[c] = None
        /\ pc'[c] = "send" => ~Stale(p)
        /\ \A d \in Calls \ {c} : pc'[d] = pc[d] /\ looked'[d] = looked[d]
    BY <1>1 DEF Base, Shapes, TokensInOrder, SentInOrder, Over
  <1>3. p \in Processes /\ c \in Running(p)
    BY <1>1, SdkAssumption DEF SdkAssumption, Running, Over
  <1>4. TokensAreAskedFor'
    BY <1>1 DEF TokensInOrder, TokensAreAskedFor
  <1>5. \A d \in Calls \ {c} : SentInOrder(d)'
    BY <1>1, <1>2, OthersKeepSent DEF TokensInOrder
  <1>6. SentInOrder(c)'
    BY <1>1, <1>2 DEF SentInOrder, Stale
  <1>7. ASSUME NEW r \in Processes \ shared PROVE AloneInOrder(r)'
    <2>1. AloneInOrder(r)
      BY DEF TokensInOrder
    <2>2. CASE r # p
      BY <1>1, <1>2, <2>1, <2>2, OthersStayAlone
    <2>3. CASE r = p
      <3>1. Running(p) = {c} /\ Running(p)' = {c}
        BY <1>2, <1>3, <2>1, <2>3 DEF AloneInOrder, Running, Over
      <3>2. access[p] # None => expires[p] = access[p].until
        BY <1>1, <2>1, <2>3, <3>1 DEF AloneInOrder
      <3>3. pc'[c] = "send" =>
                access[p] # None /\ ~(access[p].until <= now + Margin)
        BY <1>2, <3>2 DEF Stale
      <3>4. access[p] # None => access[p].until \in Nat
        BY <1>3 DEF Base, Shapes, Tokens
      <3>5. now \in Nat /\ Margin \in Nat
        BY SdkAssumption DEF Base, Shapes, SdkAssumption
      <3>6. pc'[c] = "send" => access[p] # None /\ now + Margin < access[p].until
        BY <3>3, <3>4, <3>5
      <3>7. ask[c].kind # "delete"
        BY <1>1 DEF Base, InPlace
      <3> QED
        BY <1>1, <1>2, <2>3, <3>1, <3>2, <3>6, <3>7 DEF AloneInOrder
    <2> QED
      BY <2>2, <2>3
  <1> QED
    BY <1>1, <1>4, <1>5, <1>6, <1>7 DEF TokensInOrder

LEMMA ExpiryKeepsTokens ==
    ASSUME Base, TokensInOrder, NEW c \in Calls, SetExpiry(c)
    PROVE  TokensInOrder'
  <1> DEFINE p == ProcessOf[c]
  <1>1. /\ pc[c] = "expiry" /\ pc' = [pc EXCEPT ![c] = "assign"]
        /\ expires' = [expires EXCEPT ![p] = held[c].until]
        /\ UNCHANGED <<agents, access, ask, looked, held, sent, shared>>
    BY DEF SetExpiry, Goto
  <1>2. /\ p \in Processes /\ c \in Running(p) /\ expires'[p] = held[c].until
        /\ pc'[c] = "assign" /\ sent[c] = None
        /\ \A d \in Calls \ {c} : pc'[d] = pc[d]
        /\ \A r \in Processes \ {p} : expires'[r] = expires[r]
    BY <1>1, SdkAssumption DEF SdkAssumption, Base, Shapes, TokensInOrder, SentInOrder, Running,
                              Over
  <1>3. TokensAreAskedFor'
    BY <1>1 DEF TokensInOrder, TokensAreAskedFor
  <1>4. \A d \in Calls \ {c} : SentInOrder(d)'
    BY <1>1, <1>2, OthersKeepSent DEF TokensInOrder
  <1>5. SentInOrder(c)'
    BY <1>1, <1>2 DEF SentInOrder
  <1>6. ASSUME NEW r \in Processes \ shared PROVE AloneInOrder(r)'
    <2>1. AloneInOrder(r)
      BY DEF TokensInOrder
    <2>2. CASE r # p
      BY <1>1, <1>2, <2>1, <2>2, OthersStayAlone
    <2>3. CASE r = p
      <3>1. Running(p) = {c} /\ Running(p)' = {c}
        BY <1>2, <2>1, <2>3 DEF AloneInOrder, Running, Over
      <3> QED
        BY <1>1, <1>2, <2>3, <3>1 DEF AloneInOrder
    <2> QED
      BY <2>2, <2>3
  <1> QED
    BY <1>1, <1>3, <1>4, <1>5, <1>6 DEF TokensInOrder

LEMMA AssignKeepsTokens ==
    ASSUME Base, TokensInOrder, NEW c \in Calls, SetToken(c)
    PROVE  TokensInOrder'
  <1> DEFINE p == ProcessOf[c]
  <1>1. /\ pc[c] = "assign" /\ held' = [held EXCEPT ![c] = None]
        /\ access' = [access EXCEPT ![p] = held[c]]
        /\ \E place \in {"done", "send"} : pc' = [pc EXCEPT ![c] = place]
        /\ UNCHANGED <<agents, expires, ask, looked, sent, shared>>
    BY DEF SetToken, Goto
  <1>2. /\ held[c] \in Tokens /\ held[c].agent = ask[c].on /\ held[c].agent \in DOMAIN agents
        /\ looked[c] + Margin < held[c].until /\ held[c] # None /\ ask[c] # None
    BY <1>1, SdkAssumption DEF SdkAssumption, Base, LoginInOrder, InPlace
  <1>3. /\ p \in Processes /\ c \in Running(p) /\ access'[p] = held[c]
        /\ pc'[c] \in {"done", "send"} /\ sent[c] = None
        /\ \A d \in Calls \ {c} : pc'[d] = pc[d] /\ held'[d] = held[d]
        /\ \A r \in Processes \ {p} : access'[r] = access[r]
    BY <1>1, SdkAssumption DEF SdkAssumption, Base, Shapes, TokensInOrder, SentInOrder, Running,
                              Over
  <1>4. TokensAreAskedFor'
    BY <1>1, <1>2, <1>3 DEF TokensInOrder, TokensAreAskedFor
  <1>5. \A d \in Calls \ {c} : SentInOrder(d)'
    <2>1. \A d \in Calls : access[ProcessOf[d]] # None => access'[ProcessOf[d]] # None
      BY <1>2, <1>3, SdkAssumption DEF SdkAssumption
    <2> QED
      BY <1>1, <1>3, <2>1, OthersKeepSent DEF TokensInOrder
  <1>6. SentInOrder(c)'
    BY <1>1, <1>2, <1>3 DEF SentInOrder
  <1>7. ASSUME NEW r \in Processes \ shared PROVE AloneInOrder(r)'
    <2>1. AloneInOrder(r)
      BY DEF TokensInOrder
    <2>2. CASE r # p
      BY <1>1, <1>3, <2>1, <2>2, OthersStayAlone
    <2>3. CASE r = p
      <3>1. Running(p) = {c} /\ Running(p)' \subseteq {c}
        BY <1>3, <2>1, <2>3 DEF AloneInOrder, Running, Over
      <3>2. expires[p] = held[c].until
        BY <1>1, <1>3, <2>1, <2>3 DEF AloneInOrder
      <3> QED
        BY <1>1, <1>2, <1>3, <2>3, <3>1, <3>2 DEF AloneInOrder
    <2> QED
      BY <2>2, <2>3
  <1> QED
    BY <1>1, <1>4, <1>5, <1>6, <1>7 DEF TokensInOrder

LEMMA DeliverKeepsTokens ==
    ASSUME Base, TokensInOrder, NEW c \in Calls, Deliver(c)
    PROVE  TokensInOrder'
  <1> DEFINE p == ProcessOf[c]
  <1>1. /\ pc[c] = "send" /\ UNCHANGED <<access, expires, ask, held, looked, shared>>
        /\ \E place \in {"done", "failed"} : pc' = [pc EXCEPT ![c] = place]
        /\ sent' = sent \/ sent' = [sent EXCEPT ![c] = access[p]]
        /\ DOMAIN agents' = DOMAIN agents
    BY DEF Deliver, Deactivate, Goto
  <1>2. /\ p \in Processes /\ c \in Running(p) /\ pc'[c] \in Over
        /\ sent[c] = None /\ sent'[c] \in {None, access[p]} /\ access[p] # None
        /\ \A d \in Calls \ {c} : pc'[d] = pc[d] /\ sent'[d] = sent[d]
    BY <1>1, SdkAssumption DEF SdkAssumption, Base, Shapes, TokensInOrder, SentInOrder, Running,
                              Over
  <1>3. TokensAreAskedFor'
    BY <1>1 DEF TokensInOrder, TokensAreAskedFor
  <1>4. \A d \in Calls \ {c} : SentInOrder(d)'
    BY <1>1, <1>2, OthersKeepSent DEF TokensInOrder
  <1>5. SentInOrder(c)'
    <2>1. ASSUME p \notin shared
          PROVE  /\ looked[c] + Margin < access[p].until
                 /\ ask[c].kind = "delete" => access[p].agent = ask[c].on
      BY <1>1, <1>2, <2>1 DEF TokensInOrder, AloneInOrder
    <2>2. PICK d \in Calls : ProcessOf[d] = p /\ ask[d] # None /\ ask[d].on = access[p].agent
      BY <1>2 DEF TokensInOrder, TokensAreAskedFor
    <2>3. pc'[c] # "send"
      BY <1>2 DEF Over
    <2> QED
      BY <1>1, <1>2, <2>1, <2>2, <2>3 DEF SentInOrder
  <1>6. ASSUME NEW r \in Processes \ shared PROVE AloneInOrder(r)'
    <2>1. AloneInOrder(r)
      BY DEF TokensInOrder
    <2>2. CASE r # p
      BY <1>1, <1>2, <2>1, <2>2, OthersStayAlone
    <2>3. CASE r = p
      <3>1. Running(p) = {c} /\ Running(p)' = {}
        BY <1>2, <2>1, <2>3 DEF AloneInOrder, Running
      <3>2. access[p] # None => expires[p] = access[p].until
        BY <1>1, <2>1, <2>3, <3>1 DEF AloneInOrder
      <3> QED
        BY <1>1, <2>3, <3>1, <3>2 DEF AloneInOrder
    <2> QED
      BY <2>2, <2>3
  <1> QED
    BY <1>1, <1>3, <1>4, <1>5, <1>6 DEF TokensInOrder

LEMMA CrashKeepsTokens ==
    ASSUME Base, TokensInOrder, NEW p \in Processes, Crash(p)
    PROVE  TokensInOrder'
  <1>1. /\ pc' = [c \in Calls |-> IF c \in Running(p) THEN "failed" ELSE pc[c]]
        /\ held' = [c \in Calls |-> IF c \in Running(p) THEN None ELSE held[c]]
        /\ access' = [access EXCEPT ![p] = None]
        /\ expires' = [expires EXCEPT ![p] = 0]
        /\ UNCHANGED <<agents, ask, looked, sent, shared>>
    BY DEF Crash
  <1>2. /\ access'[p] = None
        /\ \A r \in Processes \ {p} : access'[r] = access[r] /\ expires'[r] = expires[r]
    BY <1>1 DEF Base, Shapes
  <1>3. Running(p)' = {} /\ \A r \in Processes \ {p} : Running(r)' = Running(r)
    BY <1>1 DEF Running, Over
  <1>4. TokensAreAskedFor'
    BY <1>1, <1>2 DEF TokensInOrder, TokensAreAskedFor
  <1>5. ASSUME NEW c \in Calls PROVE SentInOrder(c)'
    <2>1. SentInOrder(c) /\ ProcessOf[c] \in Processes
      BY SdkAssumption DEF SdkAssumption, TokensInOrder
    <2>2. pc'[c] = "send" => access'[ProcessOf[c]] # None
      <3>1. ASSUME ProcessOf[c] = p PROVE pc'[c] # "send"
        BY <1>1, <3>1 DEF Running, Over
      <3> QED
        BY <1>1, <1>2, <2>1, <3>1 DEF SentInOrder
    <2>3. sent'[c] # None => pc'[c] \in Over
      BY <1>1, <2>1 DEF SentInOrder, Running
    <2> QED
      BY <1>1, <2>1, <2>2, <2>3 DEF SentInOrder
  <1>6. ASSUME NEW r \in Processes \ shared PROVE AloneInOrder(r)'
    <2>1. CASE r = p
      BY <1>2, <1>3, <2>1 DEF AloneInOrder
    <2>2. CASE r # p
      <3>1. \A c \in Running(r) : pc'[c] = pc[c] /\ held'[c] = held[c]
        BY <1>1, <2>2 DEF Running
      <3>2. AloneInOrder(r) /\ Running(r)' = Running(r)
        BY <1>3, <2>2 DEF TokensInOrder
      <3>3. access'[r] = access[r] /\ expires'[r] = expires[r]
        BY <1>2, <2>2
      <3>4. ask' = ask /\ looked' = looked
        BY <1>1
      <3> QED
        BY <3>1, <3>2, <3>3, <3>4 DEF AloneInOrder
    <2> QED
      BY <2>1, <2>2
  <1> QED
    BY <1>1, <1>4, <1>5, <1>6 DEF TokensInOrder

LEMMA PlainKeepsTokens ==
    ASSUME Base, TokensInOrder, NEW c \in Calls, PlainStep(c)
    PROVE  TokensInOrder'
  <1>1. CASE Starting(c)
    BY <1>1, StartKeepsTokens DEF Starting
  <1>2. CASE Step(c)
    <2>1. "kubernetes" \in Platforms /\ "aws" \in Platforms /\ "azure" \in Platforms
          /\ "docker" \in Platforms
      BY DEF Platforms
    <2>2. CASE CheckToken(c) \/ SetExpiry(c) \/ SetToken(c) \/ Deliver(c)
      BY <2>2, CheckKeepsTokens, ExpiryKeepsTokens, AssignKeepsTokens, DeliverKeepsTokens
    <2>3. CASE KubernetesIdentity(c) \/ AwsIdentity(c) \/ AzureIdentity(c) \/ DockerIdentity(c)
      BY <2>1, <2>3, CalmSteps, CalmKeepsTokens
         DEF KubernetesIdentity, AwsIdentity, AzureIdentity, DockerIdentity,
             PostKubernetes, PostAws, PostAzure, PostDocker
    <2>4. CASE \/ BootstrapKubernetes(c) \/ BootstrapAws(c) \/ BootstrapAzure(c)
               \/ BootstrapDocker(c)
      BY <2>1, <2>4, CalmSteps, CalmKeepsTokens
         DEF BootstrapKubernetes, BootstrapAws, BootstrapAzure, BootstrapDocker
    <2>5. CASE \/ GetByName(c) \/ CreateAgent(c) \/ StorePrivateKey(c) \/ KeyringFails(c)
               \/ KeyringIdentity(c) \/ Challenge(c) \/ GetToken(c) \/ Erase(c)
               \/ RequestFails(c)
      BY <2>5, CalmSteps, CalmKeepsTokens
    <2> QED
      BY <1>2, <2>2, <2>3, <2>4, <2>5 DEF Step
  <1>3. CASE Answered(c) \/ Refused(c)
    BY <1>3, CalmSteps, CalmKeepsTokens
  <1> QED
    BY <1>1, <1>2, <1>3 DEF PlainStep

LEMMA TokensStep ==
    ASSUME Base, TokensInOrder, [Next]_allVars
    PROVE  TokensInOrder'
  <1>1. CASE Tick \/ UNCHANGED allVars
    <2>1. UNCHANGED <<agents, access, expires, ask, pc, held, looked, sent, shared>>
      BY <1>1 DEF Tick, allVars, vars, callVars
    <2> QED
      BY <2>1 DEF TokensInOrder, TokensAreAskedFor, SentInOrder, AloneInOrder, Running
  <1>2. CASE Next /\ ~Tick
    BY <1>2, NextSteps, PlainKeepsTokens, CalmSteps, CalmKeepsTokens, CrashKeepsTokens
       DEF Restart
  <1> QED
    BY <1>1, <1>2

-----------------------------------------------------------------------------
(* Revocations.                                                            *)

LEMMA ListInit == SdkInit => ListInOrder
  <1> SUFFICES ASSUME SdkInit PROVE ListInOrder
    OBVIOUS
  <1>1. /\ memory = [p \in Processes |-> Revoked] /\ file = Revoked
        /\ buffer = [c \in Calls |-> {}] /\ identity = [a \in OnFile |-> a]
        /\ behind = {} /\ disturbed = FALSE /\ pc = [c \in Calls |-> "idle"]
    BY DEF SdkInit, Init, VaultInit
  <1>2. IsFiniteSet(Revoked) /\ IsFiniteSet({})
    BY VaultAssumption, FS_EmptySet DEF VaultAssumption
  <1>3. ListTypes
    BY <1>1, <1>2 DEF ListTypes
  <1>4. Saving = {}
    BY <1>1 DEF Saving
  <1>5. Covers(file) /\ \A p \in Processes : file \subseteq memory[p]
    BY <1>1 DEF Covers
  <1> QED
    BY <1>3, <1>4, <1>5 DEF ListInOrder, SavesInOrder

(* A step of c that has nothing to do with the list.                       *)
Unlisted(c) ==
    /\ UNCHANGED <<memory, file, buffer, behind, disturbed>> /\ DOMAIN identity' = DOMAIN identity
    /\ pc[c] \notin {"open", "dump", "flush"} /\ pc'[c] \notin {"open", "dump", "flush"}
    /\ pc'[c] = "done" => ask'[c].kind # "revoke"
    /\ \A d \in Calls \ {c} : pc'[d] = pc[d] /\ ask'[d] = ask[d]

LEMMA UnlistedKeepsList ==
    ASSUME ListInOrder, NEW c \in Calls, Unlisted(c)
    PROVE  ListInOrder'
  <1>1. ListTypes'
    BY DEF ListInOrder, ListTypes, Unlisted
  <1>2. Saving' = Saving /\ \A p : Pending(p)' = Pending(p)
    BY DEF Saving, Pending, Unlisted
  <1>3. ASSUME NEW S PROVE Covers(S) => Covers(S)'
    BY <1>2 DEF Covers, Unlisted
  <1>4. \A d \in Saving : Saved(d)' = Saved(d)
    BY DEF Saved, Saving, Unlisted
  <1>5. ASSUME SavesInOrder PROVE SavesInOrder'
    <2>1. UNCHANGED <<memory, file, behind>>
      BY DEF Unlisted
    <2>2. Saving = {} => Covers(file)'
      BY <1>3, <1>5, <2>1 DEF SavesInOrder
    <2>3. \A d \in Saving : Covers(Saved(d))'
      <3> SUFFICES ASSUME NEW d \in Saving PROVE Covers(Saved(d))'
        OBVIOUS
      <3>1. Covers(Saved(d)) /\ Saved(d)' = Saved(d)
        BY <1>4, <1>5 DEF SavesInOrder
      <3> HIDE DEF Saved
      <3> QED
        BY <1>2, <3>1 DEF Covers, Unlisted
    <2> QED
      BY <1>2, <1>4, <1>5, <2>1, <2>2, <2>3 DEF SavesInOrder
  <1> QED
    BY <1>1, <1>5 DEF ListInOrder, Unlisted

LEMMA PlainIsUnlisted ==
    ASSUME Base, NEW c \in Calls, PlainStep(c), UNCHANGED vaultVars
    PROVE  Unlisted(c)
  <1>1. UNCHANGED <<memory, file, buffer, behind, disturbed>> /\ DOMAIN identity' = DOMAIN identity
    BY DEF vaultVars
  <1>2. ASSUME NEW s \in Starts, Begin(c, s[1], s[2]) PROVE Unlisted(c)
    <2>1. PICK q \in Asks[c] : q.kind = s[1] /\ ask' = [ask EXCEPT ![c] = q]
      BY <1>2 DEF Begin
    <2>2. pc[c] = "idle" /\ pc' = [pc EXCEPT ![c] = s[2]]
      BY <1>2 DEF Begin, Goto
    <2>3. s[2] \notin {"open", "dump", "flush"} /\ (s[2] = "done" => s[1] # "revoke")
      BY DEF Starts
    <2> QED
      BY <1>1, <2>1, <2>2, <2>3 DEF Unlisted, Base, Shapes
  <1>3. ASSUME UNCHANGED ask, pc[c] \notin RevokePlaces \cup {"idle"},
               pc'[c] \notin {"open", "dump", "flush"},
               \A d \in Calls \ {c} : pc'[d] = pc[d]
        PROVE  Unlisted(c)
    BY <1>1, <1>3 DEF Unlisted, Base, InPlace, RevokePlaces
  <1>4. CASE CheckToken(c) \/ SetExpiry(c) \/ SetToken(c) \/ Deliver(c)
    <2>1. /\ UNCHANGED ask /\ pc[c] \in {"check", "expiry", "assign", "send"}
          /\ \E place \in {"challenge", "send", "assign", "done", "failed"} :
                pc' = [pc EXCEPT ![c] = place]
      BY <1>4 DEF CheckToken, SetExpiry, SetToken, Deliver, Deactivate, Goto
    <2> QED
      BY <1>3, <2>1 DEF RevokePlaces, Base, Shapes
  <1>5. ASSUME Calm(c), pc[c] \notin RevokePlaces, pc'[c] \notin {"open", "dump", "flush"}
        PROVE  Unlisted(c)
    BY <1>3, <1>5 DEF Calm
  <1>6. ASSUME NEW platform \in Platforms,
               \/ AttestRefused(c, platform) \/ Claim(c, platform)
               \/ \E answered \in BOOLEAN : Attest(c, platform, answered)
        PROVE  Unlisted(c)
    <2>1. Calm(c)
      BY <1>6, CalmSteps
    <2>2. pc[c] \in {"lookup", "claim"}
      BY <1>6 DEF AttestRefused, Claim, Attest
    <2>3. pc'[c] \notin {"open", "dump", "flush"}
      BY <1>6, <2>2, AskNextType DEF AttestRefused, Claim, Attest, Goto, Found, Base, Shapes
    <2> QED
      BY <1>5, <2>1, <2>2, <2>3 DEF RevokePlaces
  <1>7. CASE \/ GetByName(c) \/ CreateAgent(c) \/ StorePrivateKey(c) \/ KeyringFails(c)
             \/ KeyringIdentity(c) \/ Challenge(c) \/ GetToken(c) \/ Erase(c)
             \/ RequestFails(c) \/ Answered(c) \/ Refused(c)
    <2>1. Calm(c)
      BY <1>7, CalmSteps
    <2>2. pc[c] \notin RevokePlaces
      BY <1>7 DEF GetByName, CreateAgent, StorePrivateKey, KeyringFails, KeyringIdentity,
                  Challenge, GetToken, Erase, RequestFails, Answered, Refused, RevokePlaces
    <2>3. pc'[c] \notin {"open", "dump", "flush"}
      <3>1. CASE KeyringFails(c) \/ KeyringIdentity(c)
        BY <3>1, AskNextType DEF KeyringFails, KeyringIdentity, Goto, Found, Base, Shapes
      <3>2. CASE \/ GetByName(c) \/ CreateAgent(c) \/ StorePrivateKey(c)
                 \/ Challenge(c) \/ GetToken(c) \/ Erase(c) \/ RequestFails(c) \/ Answered(c)
                 \/ Refused(c)
        <4>1. \E place \in {"done", "post", "failed", "keep", "token", "expiry"} :
                  pc' = [pc EXCEPT ![c] = place]
          BY <3>2 DEF GetByName, CreateAgent, StorePrivateKey, Challenge, GetToken,
                      Erase, Deactivate, RequestFails, Answered, Refused, Goto, Move, Mishap
        <4> QED
          BY <4>1 DEF Base, Shapes
      <3> QED
        BY <1>7, <3>1, <3>2
    <2> QED
      BY <1>5, <2>1, <2>2, <2>3
  <1>8. "kubernetes" \in Platforms /\ "aws" \in Platforms /\ "azure" \in Platforms
        /\ "docker" \in Platforms
    BY DEF Platforms
  <1>9. CASE Step(c)
    BY <1>4, <1>6, <1>7, <1>8, <1>9
       DEF Step, KubernetesIdentity, AwsIdentity, AzureIdentity, DockerIdentity,
           PostKubernetes, PostAws, PostAzure, PostDocker, BootstrapKubernetes, BootstrapAws,
           BootstrapAzure, BootstrapDocker
  <1> QED
    BY <1>2, <1>7, <1>9 DEF PlainStep, Starting

LEMMA AddKeepsList ==
    ASSUME Base, ListInOrder, NEW c \in Calls, AddRevoked(c)
    PROVE  ListInOrder'
  <1> DEFINE p == ProcessOf[c]
             new == ask[c].on
  <1>1. /\ pc[c] = "revoke" /\ UNCHANGED <<ask, file, buffer, identity, behind, disturbed>>
        /\ \/ pc' = [pc EXCEPT ![c] = "failed"] /\ memory' = memory
           \/ /\ pc' = [pc EXCEPT ![c] = IF new \in memory[p] THEN "done" ELSE "open"]
              /\ memory' = [memory EXCEPT ![p] = @ \cup {new}]
    BY DEF AddRevoked, Move, Goto
  <1>2. p \in Processes /\ pc \in [Calls -> Places]
    BY SdkAssumption DEF SdkAssumption, Base, Shapes
  <1>3. CASE pc' = [pc EXCEPT ![c] = "failed"] /\ memory' = memory
    BY <1>1, <1>2, <1>3, UnlistedKeepsList DEF Unlisted
  <1>4. CASE /\ pc' = [pc EXCEPT ![c] = IF new \in memory[p] THEN "done" ELSE "open"]
             /\ memory' = [memory EXCEPT ![p] = @ \cup {new}]
    <2>1. ListTypes
      BY DEF ListInOrder
    <2>2. /\ memory'[p] = memory[p] \cup {new} /\ DOMAIN memory' = Processes
          /\ \A q \in Processes \ {p} : memory'[q] = memory[q]
          /\ pc'[c] = IF new \in memory[p] THEN "done" ELSE "open"
          /\ \A d \in Calls \ {c} : pc'[d] = pc[d]
      BY <1>2, <1>4, <2>1 DEF ListTypes
    <2>3. \A q \in Processes : memory[q] \subseteq memory'[q]
      BY <2>2
    <2> HIDE DEF p, new
    <2>4. ListTypes'
      <3>1. \A q \in Processes : IsFiniteSet(memory'[q])
        BY <2>1, <2>2, FS_AddElement DEF ListTypes
      <3>2. \A d \in Calls : pc'[d] \in {"open", "dump"} => ask'[d].on \in memory'[ProcessOf[d]]
        <4>1. \A d \in Calls : ProcessOf[d] \in Processes
          BY SdkAssumption DEF SdkAssumption
        <4> QED
          BY <1>1, <2>1, <2>2, <2>3, <4>1 DEF ListTypes, p, new
      <3>3. \A d \in Calls : pc'[d] = "flush" => ask'[d].on \in buffer'[d]
        BY <1>1, <2>1, <2>2 DEF ListTypes
      <3> QED
        BY <1>1, <2>1, <2>2, <3>1, <3>2, <3>3 DEF ListTypes
    <2>5. Saving' = Saving
      BY <1>1, <2>2 DEF Saving
    <2>6. /\ \A q \in Processes : Pending(q) \subseteq Pending(q)'
          /\ pc'[c] = "open" => new \in Pending(p)'
      BY <1>1, <2>2 DEF Pending, p, new
    <2>7. ASSUME NEW S, NEW T, S \subseteq T, Covers(S)
          PROVE  /\ \A q \in Processes : memory'[q] \subseteq T \cup Pending(q)'
                 /\ \A d \in Calls : pc'[d] = "done" /\ ask'[d].kind = "revoke"
                        => ask'[d].on \in T \cup Pending(ProcessOf[d])'
      <3>1. \A q \in Processes : memory[q] \subseteq S \cup Pending(q)
        BY <2>7 DEF Covers
      <3>2. new \in T \cup Pending(p)'
        BY <1>2, <2>2, <2>6, <2>7, <3>1
      <3>3. \A q \in Processes : memory'[q] \subseteq T \cup Pending(q)'
        BY <2>2, <2>6, <2>7, <3>1, <3>2
      <3>4. ASSUME NEW d \in Calls, pc'[d] = "done", ask'[d].kind = "revoke"
            PROVE  ask'[d].on \in T \cup Pending(ProcessOf[d])'
        <4>1. CASE d = c
          BY <1>1, <3>2, <4>1 DEF p, new
        <4>2. CASE d # c
          <5>1. ask[d].on \in S \cup Pending(ProcessOf[d]) /\ ask'[d] = ask[d]
            BY <1>1, <2>2, <2>7, <3>4, <4>2 DEF Covers
          <5>2. ProcessOf[d] \in Processes
            BY SdkAssumption DEF SdkAssumption
          <5> QED
            BY <2>6, <2>7, <5>1, <5>2
        <4> QED
          BY <4>1, <4>2
      <3> QED
        BY <3>3, <3>4
    <2>8. ASSUME SavesInOrder PROVE SavesInOrder'
      <3>1. Saving = {} =>
                Covers(file)' /\ \A q \in Processes \ behind : file \subseteq memory'[q]
        <4>1. ASSUME Saving = {} PROVE Covers(file)'
          <5>1. Covers(file) /\ file' = file
            BY <1>1, <2>8, <4>1 DEF SavesInOrder
          <5>2. /\ \A q \in Processes : memory'[q] \subseteq file \cup Pending(q)'
                /\ \A d \in Calls : pc'[d] = "done" /\ ask'[d].kind = "revoke"
                       => ask'[d].on \in file \cup Pending(ProcessOf[d])'
            BY <2>7, <5>1
          <5> QED
            BY <5>1, <5>2 DEF Covers
        <4> QED
          BY <2>3, <2>8, <4>1 DEF SavesInOrder
      <3>2. ASSUME NEW d \in Saving
            PROVE  Covers(Saved(d))' /\ Saved(d)' \subseteq memory'[ProcessOf[d]]
        <4>1. d \in Calls /\ d # c /\ ProcessOf[d] \in Processes
          BY <1>1, SdkAssumption DEF SdkAssumption, Saving
        <4>2. Saved(d) \subseteq Saved(d)' /\ Saved(d)' \subseteq memory'[ProcessOf[d]]
          BY <1>1, <2>2, <2>3, <2>8, <4>1 DEF SavesInOrder, Saved
        <4>3. Covers(Saved(d))
          BY <2>8 DEF SavesInOrder
        <4> HIDE DEF Saved
        <4> QED
          BY <2>7, <4>2, <4>3 DEF Covers
      <3> QED
        BY <1>1, <2>5, <2>8, <3>1, <3>2 DEF SavesInOrder
    <2> QED
      BY <1>1, <2>4, <2>8 DEF ListInOrder
  <1> QED
    BY <1>1, <1>3, <1>4

(* What only opens, takes or writes the list.                              *)
LEMMA OpenKeepsList ==
    ASSUME Base, ListInOrder, NEW c \in Calls, OpenList(c)
    PROVE  ListInOrder'
  <1> DEFINE p == ProcessOf[c]
  <1>1. /\ pc[c] = "open" /\ pc' = [pc EXCEPT ![c] = "dump"] /\ file' = {}
        /\ disturbed' = (disturbed \/ Saving # {} \/ p \in behind)
        /\ behind' = behind \cup (Processes \ {p})
        /\ UNCHANGED <<ask, memory, buffer, identity>>
    BY DEF OpenList, Move, Goto
  <1>2. /\ p \in Processes /\ pc'[c] = "dump" /\ \A d \in Calls \ {c} : pc'[d] = pc[d]
        /\ \A d \in Calls : ProcessOf[d] \in Processes
    BY <1>1, SdkAssumption DEF SdkAssumption, Base, Shapes
  <1>3. ListTypes
    BY DEF ListInOrder
  <1>4. ListTypes'
    <2>1. IsFiniteSet(file')
      BY <1>1, FS_EmptySet
    <2>2. disturbed' \in BOOLEAN
      BY <1>1
    <2>3. behind' \subseteq Processes
      BY <1>1, <1>3 DEF ListTypes
    <2>4. /\ \A d \in Calls : pc'[d] \in {"open", "dump"} => ask'[d].on \in memory'[ProcessOf[d]]
          /\ \A d \in Calls : pc'[d] = "flush" => ask'[d].on \in buffer'[d]
      BY <1>1, <1>2, <1>3 DEF ListTypes
    <2> QED
      BY <1>1, <1>3, <2>1, <2>2, <2>3, <2>4 DEF ListTypes
  <1>5. ASSUME ~disturbed' PROVE SavesInOrder'
    <2>1. SavesInOrder /\ Saving = {} /\ p \notin behind
      BY <1>1, <1>3, <1>5 DEF ListInOrder, ListTypes
    <2>2. Covers(file) /\ file \subseteq memory[p]
      BY <1>2, <2>1 DEF SavesInOrder
    <2>3. Saving' = {c}
      BY <1>2, <2>1 DEF Saving
    <2>4. /\ \A q \in Processes : Pending(q) \subseteq Pending(q)' \cup memory[p]
      BY <1>1, <1>2, <1>3 DEF Pending, ListTypes
    <2>5. Saved(c)' = memory[p]
      BY <1>1, <1>2 DEF Saved
    <2>6. /\ \A q \in Processes : memory'[q] \subseteq memory[p] \cup Pending(q)'
          /\ \A d \in Calls : pc'[d] = "done" /\ ask'[d].kind = "revoke"
                 => ask'[d].on \in memory[p] \cup Pending(ProcessOf[d])'
      BY <1>1, <1>2, <2>2, <2>4 DEF Covers
    <2>7. Covers(Saved(c))'
      <3> HIDE DEF Saved
      <3> QED
        BY <2>5, <2>6 DEF Covers
    <2>8. Processes \ behind' = {p}
      BY <1>1, <1>2, <2>1
    <2> QED
      BY <1>1, <2>3, <2>5, <2>7, <2>8 DEF SavesInOrder
  <1> QED
    BY <1>4, <1>5 DEF ListInOrder

LEMMA DumpKeepsList ==
    ASSUME Base, ListInOrder, NEW c \in Calls, DumpList(c)
    PROVE  ListInOrder'
  <1>1. /\ pc[c] = "dump" /\ pc' = [pc EXCEPT ![c] = "flush"]
        /\ buffer' = [buffer EXCEPT ![c] = memory[ProcessOf[c]]]
        /\ UNCHANGED <<ask, memory, file, identity, behind, disturbed>>
    BY DEF DumpList, Move, Goto
  <1>2. ListTypes /\ ProcessOf[c] \in Processes
    BY SdkAssumption DEF SdkAssumption, ListInOrder
  <1>3. /\ pc'[c] = "flush" /\ buffer'[c] = memory[ProcessOf[c]]
        /\ \A d \in Calls \ {c} : pc'[d] = pc[d] /\ buffer'[d] = buffer[d]
    BY <1>1, <1>2 DEF Base, Shapes, ListTypes
  <1>4. ListTypes'
    BY <1>1, <1>2, <1>3 DEF ListTypes
  <1>5. ASSUME SavesInOrder PROVE SavesInOrder'
    <2>1. Saving' = Saving /\ c \in Saving
      BY <1>1, <1>3 DEF Saving
    <2>2. \A d \in Saving : d = c
      BY <1>5, <2>1 DEF SavesInOrder
    <2>3. \A q \in Processes : Pending(q)' = Pending(q)
      BY <1>1, <1>3 DEF Pending
    <2>4. Saved(c)' = Saved(c)
      BY <1>1, <1>3 DEF Saved
    <2>5. Covers(Saved(c))'
      <3>1. Covers(Saved(c)) /\ \A d \in Calls : ProcessOf[d] \in Processes
        BY <1>5, <2>1, SdkAssumption DEF SdkAssumption, SavesInOrder
      <3> HIDE DEF Saved
      <3> QED
        BY <1>1, <1>3, <2>3, <2>4, <3>1 DEF Covers
    <2> QED
      BY <1>1, <1>5, <2>1, <2>2, <2>4, <2>5 DEF SavesInOrder
  <1> QED
    BY <1>1, <1>4, <1>5 DEF ListInOrder

LEMMA FlushKeepsList ==
    ASSUME Base, ListInOrder, NEW c \in Calls, FlushList(c)
    PROVE  ListInOrder'
  <1>1. /\ pc[c] = "flush" /\ pc' = [pc EXCEPT ![c] = "done"]
        /\ file' = IF Cardinality(file) > Cardinality(buffer[c]) THEN {} ELSE buffer[c]
        /\ buffer' = [buffer EXCEPT ![c] = {}]
        /\ UNCHANGED <<ask, memory, identity, behind, disturbed>>
    BY DEF FlushList, Move, Goto
  <1>2. ListTypes /\ \A d \in Calls : ProcessOf[d] \in Processes
    BY SdkAssumption DEF SdkAssumption, ListInOrder
  <1>3. /\ pc'[c] = "done" /\ buffer'[c] = {} /\ IsFiniteSet({})
        /\ \A d \in Calls \ {c} : pc'[d] = pc[d] /\ buffer'[d] = buffer[d]
    BY <1>1, <1>2, FS_EmptySet DEF Base, Shapes, ListTypes
  <1>4. ListTypes'
    <2>1. IsFiniteSet(file') /\ \A d \in Calls : IsFiniteSet(buffer'[d])
      BY <1>1, <1>2, <1>3 DEF ListTypes
    <2> QED
      BY <1>1, <1>2, <1>3, <2>1 DEF ListTypes
  <1>5. ASSUME SavesInOrder PROVE SavesInOrder'
    <2>1. c \in Saving /\ Saving' = Saving \ {c}
      BY <1>1, <1>3 DEF Saving
    <2>2. Saving' = {}
      BY <1>5, <2>1 DEF SavesInOrder
    <2>3. /\ file = {} /\ Covers(buffer[c]) /\ buffer[c] \subseteq memory[ProcessOf[c]]
          /\ Processes \ behind = {ProcessOf[c]}
      BY <1>1, <1>5, <2>1 DEF SavesInOrder, Saved
    <2>4. file' = buffer[c]
      <3>1. Cardinality({}) = 0 /\ Cardinality(buffer[c]) \in Nat
        BY <1>2, FS_EmptySet, FS_CardinalityType DEF ListTypes
      <3> QED
        BY <1>1, <2>3, <3>1
    <2>5. \A q \in Processes : Pending(q)' = Pending(q)
      BY <1>1, <1>3 DEF Pending
    <2>6. ask[c].on \in buffer[c]
      BY <1>1, <1>2 DEF ListTypes
    <2>7. Covers(file)'
      BY <1>1, <1>2, <1>3, <2>3, <2>4, <2>5, <2>6 DEF Covers
    <2> QED
      BY <1>1, <2>2, <2>3, <2>4, <2>7 DEF SavesInOrder
  <1> QED
    BY <1>1, <1>4, <1>5 DEF ListInOrder

LEMMA FailureKeepsList ==
    ASSUME Base, ListInOrder, NEW c \in Calls, SaveFails(c)
    PROVE  ListInOrder'
  <1>1. /\ pc' = [pc EXCEPT ![c] = "done"] /\ buffer' = [buffer EXCEPT ![c] = {}]
        /\ disturbed' = TRUE /\ UNCHANGED <<ask, memory, file, identity, behind>>
    BY DEF SaveFails, Mishap, Goto
  <1>2. ListTypes /\ IsFiniteSet({})
    BY FS_EmptySet DEF ListInOrder
  <1>3. /\ pc'[c] = "done" /\ buffer'[c] = {} /\ DOMAIN buffer' = Calls
        /\ \A d \in Calls \ {c} : pc'[d] = pc[d] /\ buffer'[d] = buffer[d]
    BY <1>1, <1>2 DEF Base, Shapes, ListTypes
  <1>4. ListTypes'
    BY <1>1, <1>2, <1>3 DEF ListTypes
  <1> QED
    BY <1>1, <1>4 DEF ListInOrder

LEMMA ListKeepsList ==
    ASSUME Base, ListInOrder, NEW c \in Calls, ListStep(c)
    PROVE  ListInOrder'
  <1>1. CASE \/ JudgeLocal(c) \/ ReadIdentity(c) \/ EmptyIdentity(c) \/ Rotate(c)
             \/ RotationFails(c)
    <2>1. /\ pc[c] \in {"judge", "rotate", "truncate", "rewrite"}
          /\ \E place \in {"failed", "lookup", "truncate", "rewrite", "done"} :
                pc' = [pc EXCEPT ![c] = place]
          /\ UNCHANGED <<ask, memory, file, buffer, behind, disturbed>>
          /\ DOMAIN identity' = DOMAIN identity
      BY <1>1
         DEF JudgeLocal, ReadIdentity, EmptyIdentity, Rotate, RotationFails, Move, Mishap, Goto,
             vaultVars
    <2>2. ask[c].kind # "revoke"
      BY <2>1 DEF Base, InPlace, RevokePlaces
    <2>3. /\ pc'[c] \notin {"open", "dump", "flush"}
          /\ \A d \in Calls \ {c} : pc'[d] = pc[d]
      BY <2>1 DEF Base, Shapes
    <2> QED
      BY <2>1, <2>2, <2>3, UnlistedKeepsList DEF Unlisted
  <1> QED
    BY <1>1, AddKeepsList, OpenKeepsList, DumpKeepsList, FlushKeepsList, FailureKeepsList
       DEF ListStep

LEMMA RestartKeepsList ==
    ASSUME Base, ListInOrder, NEW p \in Processes, Restart(p)
    PROVE  ListInOrder'
  <1>1. /\ pc' = [c \in Calls |-> IF c \in Running(p) THEN "failed" ELSE pc[c]]
        /\ memory' = [memory EXCEPT ![p] = file]
        /\ buffer' = [c \in Calls |-> IF c \in Running(p) THEN {} ELSE buffer[c]]
        /\ disturbed' = (disturbed \/ Saving \cap Running(p) # {} \/ Pending(p) # {})
        /\ behind' = IF Saving \subseteq Running(p) THEN behind \ {p} ELSE behind \cup {p}
        /\ UNCHANGED <<ask, file, identity>>
    BY DEF Restart, Crash, Loaded
  <1>2. ListTypes /\ \A d \in Calls : ProcessOf[d] \in Processes
    BY SdkAssumption DEF SdkAssumption, ListInOrder
  <1>3. /\ memory'[p] = file /\ DOMAIN memory' = Processes
        /\ \A q \in Processes \ {p} : memory'[q] = memory[q]
    BY <1>1, <1>2 DEF ListTypes
  <1>4. ASSUME NEW c \in Calls, pc'[c] \in {"open", "dump", "flush", "done"}
        PROVE  /\ pc'[c] = pc[c] /\ c \notin Running(p) /\ buffer'[c] = buffer[c]
               /\ pc[c] # "done" => ProcessOf[c] # p
    BY <1>1, <1>4 DEF Running, Over
  <1>5. ListTypes'
    <2>1. /\ \A q \in Processes : IsFiniteSet(memory'[q])
          /\ \A c \in Calls : IsFiniteSet(buffer'[c])
      BY <1>1, <1>2, <1>3, FS_EmptySet DEF ListTypes
    <2>2. behind' \subseteq Processes /\ disturbed' \in BOOLEAN
      BY <1>1, <1>2 DEF ListTypes
    <2>3. \A c \in Calls :
              /\ pc'[c] \in {"open", "dump"} => ask'[c].on \in memory'[ProcessOf[c]]
              /\ pc'[c] = "flush" => ask'[c].on \in buffer'[c]
      BY <1>1, <1>2, <1>3, <1>4 DEF ListTypes
    <2> QED
      BY <1>1, <1>2, <1>3, <2>1, <2>2, <2>3 DEF ListTypes
  <1>6. ASSUME ~disturbed' PROVE SavesInOrder'
    <2>1. SavesInOrder /\ Saving \cap Running(p) = {} /\ Pending(p) = {}
      BY <1>1, <1>2, <1>6 DEF ListInOrder, ListTypes
    <2>2. Saving' = Saving
      BY <1>1, <2>1 DEF Saving
    <2>3. \A q \in Processes : Pending(q)' = Pending(q)
      <3>1. Pending(p)' = {}
        BY <1>4, <2>1 DEF Pending
      <3>2. ASSUME NEW q \in Processes, q # p PROVE Pending(q)' = Pending(q)
        BY <1>1, <3>2 DEF Pending, Running
      <3> QED
        BY <2>1, <3>1, <3>2
    <2>4. ASSUME NEW S, file \subseteq S, Covers(S)
          PROVE  /\ \A q \in Processes : memory'[q] \subseteq S \cup Pending(q)'
                 /\ \A d \in Calls : pc'[d] = "done" /\ ask'[d].kind = "revoke"
                        => ask'[d].on \in S \cup Pending(ProcessOf[d])'
      BY <1>1, <1>2, <1>3, <1>4, <2>3, <2>4 DEF Covers
    <2>5. CASE Saving = {}
      <3>1. Covers(file)'
        BY <1>1, <2>1, <2>4, <2>5 DEF SavesInOrder, Covers
      <3>2. \A q \in Processes \ behind' : file \subseteq memory'[q]
        BY <1>1, <1>3, <2>1, <2>5 DEF SavesInOrder
      <3> QED
        BY <1>1, <2>2, <2>5, <3>1, <3>2 DEF SavesInOrder
    <2>6. ASSUME NEW c \in Saving
          PROVE  /\ file = {} /\ Covers(Saved(c))' /\ Saved(c)' \subseteq memory'[ProcessOf[c]]
                 /\ Processes \ behind' = {ProcessOf[c]}
      <3>1. c \in Calls /\ c \notin Running(p) /\ ProcessOf[c] # p
        BY <2>1 DEF Saving, Running, Over
      <3>2. /\ file = {} /\ Covers(Saved(c)) /\ Saved(c) \subseteq memory[ProcessOf[c]]
            /\ Processes \ behind = {ProcessOf[c]}
        BY <2>1 DEF SavesInOrder
      <3>3. Saved(c)' = Saved(c) /\ memory'[ProcessOf[c]] = memory[ProcessOf[c]]
        BY <1>1, <1>2, <1>3, <3>1 DEF Saved
      <3>4. Covers(Saved(c))'
        <4> HIDE DEF Saved
        <4> QED
          BY <2>4, <3>2, <3>3 DEF Covers
      <3>5. behind' = behind \cup {p}
        BY <1>1, <2>1
      <3>6. Processes \ behind' = {ProcessOf[c]}
        BY <3>1, <3>2, <3>5
      <3> QED
        BY <3>2, <3>3, <3>4, <3>6
    <2> QED
      BY <1>1, <2>1, <2>2, <2>5, <2>6 DEF SavesInOrder
  <1> QED
    BY <1>5, <1>6 DEF ListInOrder

LEMMA ListStepKeeps ==
    ASSUME Base, ListInOrder, [Next]_allVars
    PROVE  ListInOrder'
  <1>1. CASE (Tick /\ UNCHANGED vaultVars) \/ UNCHANGED allVars
    <2>1. UNCHANGED <<ask, pc, memory, file, buffer, identity, behind, disturbed>>
      BY <1>1 DEF Tick, allVars, vars, callVars, vaultVars
    <2> QED
      BY <2>1 DEF ListInOrder, ListTypes, SavesInOrder, Saving, Covers, Pending, Saved
  <1>2. CASE Next
    BY <1>1, <1>2, NextSteps, PlainIsUnlisted, UnlistedKeepsList, ListKeepsList,
       RestartKeepsList
  <1> QED
    BY <1>1, <1>2

-----------------------------------------------------------------------------
LEMMA BaseAlways == Spec => []Base
  BY BaseInit, BaseStep, PTL DEF Spec

LEMMA AgentsAlways == Spec => []AgentsInOrder
  <1>1. [](Base) /\ SdkInit /\ [][Next]_allVars => []AgentsInOrder
    BY AgentsInit, AgentsStep, PTL
  <1> QED
    BY <1>1, BaseAlways, PTL DEF Spec

LEMMA TokensAlways == Spec => []TokensInOrder
  <1>1. [](Base) /\ SdkInit /\ [][Next]_allVars => []TokensInOrder
    BY TokensInit, TokensStep, PTL
  <1> QED
    BY <1>1, BaseAlways, PTL DEF Spec

LEMMA ListAlways == Spec => []ListInOrder
  <1>1. [](Base) /\ SdkInit /\ [][Next]_allVars => []ListInOrder
    BY ListInit, ListStepKeeps, PTL
  <1> QED
    BY <1>1, BaseAlways, PTL DEF Spec

(* The state of the SDK has its types; the process of a call that sends    *)
(* has a token, and the agent of each token exists.                        *)
THEOREM TypeInvariant == Spec => []TypeOK
  <1>1. Base /\ AgentsInOrder /\ TokensInOrder /\ ListInOrder => TypeOK
    <2> SUFFICES ASSUME Base, AgentsInOrder, TokensInOrder, ListInOrder PROVE TypeOK
      OBVIOUS
    <2>1. /\ now \in 1 .. MaxTime /\ DOMAIN agents \subseteq Ids
          /\ \A p \in Processes : expires[p] \in 0 .. MaxTime + Lifetime
          /\ \A c \in Calls : ask[c] \in Asks[c] \cup {None}
      BY DEF Base, Shapes
    <2>2. \A a \in DOMAIN agents : agents[a].status \in {"active", "inactive"}
      BY DEF Base, Shapes, Rows
    <2>3. DOMAIN keyring \subseteq Ids /\ DOMAIN Known \subseteq DOMAIN agents
      BY <2>1 DEF AgentsInOrder, KeysInOrder
    <2>4. \A p \in Processes : access[p] = None \/ access[p].agent \in DOMAIN agents
      BY DEF TokensInOrder, TokensAreAskedFor
    <2>5. \A c \in Calls :
              /\ (pc[c] = "idle") = (ask[c] = None)
              /\ pc[c] = "lookup" => chain[c] # <<>>
              /\ pc[c] \in {"expiry", "assign"} => held[c].agent = ask[c].on
      BY DEF Base, InPlace, LoginInOrder
    <2>6. \A c \in Calls : pc[c] = "send" => access[ProcessOf[c]] # None
      BY DEF TokensInOrder, SentInOrder
    <2>7. ClientTypeOK
      BY <2>1, <2>2, <2>3, <2>4, <2>5, <2>6 DEF ClientTypeOK
    <2> QED
      BY <2>7 DEF TypeOK, ListInOrder, ListTypes
  <1> QED
    BY <1>1, BaseAlways, AgentsAlways, TokensAlways, ListAlways, PTL

(* Whatever is rotated, and whatever fails, every key in the keyring is    *)
(* the one by which the control plane knows its agent.                     *)
THEOREM KeysStayWithTheirAgents == Spec => []KeysAreTheirAgents
  <1>1. AgentsInOrder => KeysAreTheirAgents
    BY DEF AgentsInOrder, KeysInOrder, KeysAreTheirAgents
  <1> QED
    BY <1>1, AgentsAlways, PTL

(* An agent whose key is in no keyring comes from a call that is under     *)
(* way, that met a failure, or that had a platform's provider work with a  *)
(* client it cannot use: the code loses no key otherwise.                  *)
THEOREM NoKeyIsLostUnexplained == Spec => []OrphansAreExplained
  <1>1. AgentsInOrder => OrphansAreExplained
    BY DEF AgentsInOrder, OrphansInOrder, OrphansAreExplained, Holding, Over
  <1> QED
    BY <1>1, AgentsAlways, PTL

(* Client.agent does not create a second agent of a name that was there    *)
(* when it listed them, up to the length of a list.                        *)
THEOREM NamesAreFoundFirst == Spec => []NamesAreFound
  <1>1. Base /\ AgentsInOrder => NamesAreFound
    <2> SUFFICES ASSUME Base, AgentsInOrder, NEW c \in Calls,
                        New(c) \in DOMAIN agents, ask[c].kind = "find"
                 PROVE  \A a \in listed[c] :
                            agents[a].name = ask[c].on => Cardinality(listed[c]) > ListLimit
      BY DEF NamesAreFound
    <2>1. ask[c] # None
      BY DEF Base, InPlace, AgentsInOrder, NamesInOrder
    <2> QED
      BY <2>1 DEF AgentsInOrder, NamesInOrder, NotListed
  <1> QED
    BY <1>1, BaseAlways, AgentsAlways, PTL

(* A thread that has its client to itself sends no token that was good for *)
(* less than the margin when it looked: the expiry a client remembers is   *)
(* the one of the token it remembers, except between two assignments.      *)
THEOREM TokensAreFreshAlone == Spec => []FreshIfAlone
  <1>1. Base /\ TokensInOrder => FreshIfAlone
    <2> SUFFICES ASSUME Base, TokensInOrder, NEW c \in Calls,
                        sent[c] # None, ProcessOf[c] \notin shared
                 PROVE  sent[c].until > looked[c] + Margin
      BY DEF FreshIfAlone
    <2>1. looked[c] + Margin < sent[c].until
      BY DEF TokensInOrder, SentInOrder
    <2>2. sent[c].until \in Nat /\ looked[c] \in Nat /\ Margin \in Nat
      BY SdkAssumption DEF SdkAssumption, Base, Shapes, Tokens
    <2> QED
      BY <2>1, <2>2
  <1> QED
    BY <1>1, BaseAlways, TokensAlways, PTL

(* An agent is deleted with its own token, and a process that acts for one *)
(* agent only uses that agent's token, if its calls do not overlap.        *)
THEOREM TokensAreTheirAgentsAlone == Spec => []OwnTokenIfAlone
  <1>1. TokensInOrder => OwnTokenIfAlone
    BY DEF TokensInOrder, SentInOrder, OwnTokenIfAlone
  <1> QED
    BY <1>1, TokensAlways, PTL

(* A credential that a call has revoked is on file, or about to be put     *)
(* there, unless saves overlapped or broke off or a process saved that had *)
(* read the file before the last save of another was over.                 *)
THEOREM RevocationsStay == Spec => []RevocationsSurvive
  <1>1. ListInOrder => RevocationsSurvive
    BY DEF ListInOrder, SavesInOrder, Covers, RevocationsSurvive
  <1> QED
    BY <1>1, ListAlways, PTL
=============================================================================
