------------------------------ MODULE SdkCalls ------------------------------
(***************************************************************************)
(* The rest of the SDK's surface, by what it comes to: the calls of an     *)
(* operator, which take the operator's token and are one request; those    *)
(* that no client can make; the shorthands, integrations and resources;    *)
(* and the commands of the command line, each in a process of its own.     *)
(*                                                                         *)
(* What the requests of an operator do to secrets and policies is in       *)
(* SplitKeySecrets and AgentAuth.                                          *)
(***************************************************************************)
EXTENDS SdkVault

(* One request, with the operator's token, that may be refused.            *)
Administer(c) == Begin(c, "administer", "request")

(* The same, but a failure is taken for "there is none".                   *)
Inquire(c) == Begin(c, "inquire", "request")

Answered(c) ==
    /\ pc[c] = "request"
    /\ Move(c, "done")

Refused(c) ==
    /\ pc[c] = "request"
    /\ Mishap(c, IF ask[c].kind = "inquire" THEN "done" ELSE "failed")

-----------------------------------------------------------------------------
(* Client: secrets as an operator handles them.                            *)

StoreSecretDirect(c)  == Administer(c)
GetSecretDirect(c)    == Administer(c)
DeleteSecretDirect(c) == Administer(c)
ListSecretsDirect(c)  == Administer(c)

(* VaultClient.get_secret_admin                                            *)
GetSecretAdmin(c) == Inquire(c)

(* PolicyClient                                                            *)
CreatePolicy(c)    == Administer(c)
ListPolicies(c)    == Administer(c)
GetPolicyByName(c) == Inquire(c)
GetPolicy(c)       == Administer(c)
DeletePolicy(c)    == Administer(c)

(* AgentClient.list_agents, which needs no token.                          *)
ListAgents(c) == Administer(c)

OperatorCall(c) ==
    \/ StoreSecretDirect(c) \/ GetSecretDirect(c) \/ DeleteSecretDirect(c) \/ ListSecretsDirect(c)
    \/ GetSecretAdmin(c) \/ CreatePolicy(c) \/ ListPolicies(c) \/ GetPolicyByName(c)
    \/ GetPolicy(c) \/ DeletePolicy(c) \/ ListAgents(c)

-----------------------------------------------------------------------------
(* What no client can do, for want of an API token.                        *)

RawAgentCalls(c)       == Tokenless(c)    \* Client.list_agents, _*_agent_backend
StoreSecret(c)         == Tokenless(c)    \* Client
RegisterAgent(c)       == Tokenless(c)    \* AgentClient
DescribeAgent(c)       == Tokenless(c)
StoreSecretOfVault(c)  == Tokenless(c)    \* VaultClient
ListSecretsAdmin(c)    == Tokenless(c)
AttestationPolicies(c) == Tokenless(c)    \* PolicyClient.*_attestation_policy

HopelessCall(c) ==
    \/ RawAgentCalls(c) \/ StoreSecret(c) \/ RegisterAgent(c) \/ DescribeAgent(c)
    \/ StoreSecretOfVault(c) \/ ListSecretsAdmin(c) \/ AttestationPolicies(c)

-----------------------------------------------------------------------------
(* Shorthands.                                                             *)

(* VaultClient.verify looks at nothing.                                    *)
VerifyAlias(c) == Begin(c, "vouch", "done")
IssueAlias(c)  == IssueCredential(c)
RevokeAlias(c) == RevokeCredential(c)

(* Client.credentials                                                      *)
CredentialsNamespace(c) ==
    \/ IssueAlias(c) /\ UNCHANGED vaultVars
    \/ VerifyAlias(c) /\ UNCHANGED vaultVars
    \/ RevokeAlias(c)

(* The verbs of GatewayClient, and the integrations, which use them.       *)
GatewayVerb(c)          == Proxy(c)
OpenAIIntegration(c)    == GatewayVerb(c)
AnthropicMessage(c)     == GatewayVerb(c)
AnthropicCountTokens(c) == GatewayVerb(c)
AnthropicComplete(c)    == GatewayVerb(c)

(* A resources.Agent asks its client, in whose place it has an AgentClient *)
(* and, for credentials, an attribute that an AgentClient does not have.   *)
AgentIssuesCredential(c) == Tokenless(c)
AgentGetsSecret(c)       == GetSecret(c)
AgentRequests(c)         == GatewayVerb(c)

(* DeepSecure: it logs in when it is made, with the identity it is given   *)
(* or the one that its fixed chain of providers finds.                     *)
DeepSecureAuthenticate(c) ==
    \/ Begin(c, "session", "lookup")
    \/ Begin(c, "session", "challenge")

Shorthand(c) ==
    \/ GatewayVerb(c) \/ OpenAIIntegration(c) \/ AnthropicMessage(c) \/ AnthropicCountTokens(c)
    \/ AnthropicComplete(c) \/ AgentIssuesCredential(c) \/ AgentGetsSecret(c) \/ AgentRequests(c)
    \/ DeepSecureAuthenticate(c)

-----------------------------------------------------------------------------
(* The command line.                                                       *)

(* An operator who is asked whether to go on may answer no.                *)
Declined(c) == Begin(c, "declined", "done")

CommandAgentCreate(c)   == Create(c)
CommandAgentList(c)     == ListAgents(c)
CommandAgentDescribe(c) == DescribeAgent(c)
CommandAgentDelete(c)   == DeleteAgent(c) \/ Declined(c)

(* It takes the keys of the answer for the agents: it always fails.        *)
CommandAgentCleanup(c) == Begin(c, "cleanup", "failed")

(* For an agent, without a target, or for everybody.                       *)
CommandVaultStore(c)     == StoreSecret(c) \/ Tokenless(c) \/ StoreSecretDirect(c)
CommandVaultGetSecret(c) == GetSecretDirect(c)
CommandVaultDelete(c)    == DeleteSecretDirect(c) \/ Declined(c)
CommandVaultList(c)      == ListSecretsDirect(c)

CommandPolicyCreate(c) == CreatePolicy(c)
CommandPolicyList(c)   == ListPolicies(c)
CommandPolicyGet(c)    == GetPolicy(c)
CommandPolicyDelete(c) == DeletePolicy(c)

(* policy attestation ...; an update of nothing is over at once.           *)
CommandAttestationCreate(c)   == AttestationPolicies(c)
CommandAttestationList(c)     == AttestationPolicies(c)
CommandAttestationGet(c)      == AttestationPolicies(c)
CommandAttestationUpdate(c)   == AttestationPolicies(c) \/ Declined(c)
CommandAttestationDelete(c)   == AttestationPolicies(c)
CommandAttestationValidate(c) == AttestationPolicies(c)

Command(c) ==
    \/ CommandAgentCreate(c) \/ CommandAgentList(c) \/ CommandAgentDescribe(c)
    \/ CommandAgentDelete(c) \/ CommandAgentCleanup(c)
    \/ CommandVaultStore(c) \/ CommandVaultGetSecret(c) \/ CommandVaultDelete(c)
    \/ CommandVaultList(c)
    \/ CommandPolicyCreate(c) \/ CommandPolicyList(c) \/ CommandPolicyGet(c)
    \/ CommandPolicyDelete(c)
    \/ CommandAttestationCreate(c) \/ CommandAttestationList(c) \/ CommandAttestationGet(c)
    \/ CommandAttestationUpdate(c) \/ CommandAttestationDelete(c)
    \/ CommandAttestationValidate(c)

-----------------------------------------------------------------------------
Next ==
    \/ VaultNext
    \/ \E c \in Calls :
          /\ \/ OperatorCall(c) \/ HopelessCall(c) \/ Shorthand(c) \/ Command(c)
             \/ Answered(c) \/ Refused(c)
          /\ UNCHANGED vaultVars
    \/ \E c \in Calls : CredentialsNamespace(c)

SdkInit == Init /\ VaultInit

Spec == SdkInit /\ [][Next]_allVars
=============================================================================
