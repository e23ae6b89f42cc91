------------------------------ MODULE SdkVault ------------------------------
(***************************************************************************)
(* The SDK with its credentials: the list of revoked credentials, which    *)
(* each process reads from a file when it starts and writes back whole,    *)
(* and the identity files that a rotation rewrites.                        *)
(*                                                                         *)
(* The control plane has never issued a credential (it reads a column of   *)
(* the agent that does not exist), so there is nothing of the vault's to   *)
(* keep there.                                                             *)
(***************************************************************************)
EXTENDS SdkClient

CONSTANTS Revoked,    \* the credentials on file at first
          OnFile      \* the agents that have an identity file

ASSUME VaultAssumption == IsFiniteSet(Revoked)

VARIABLES
    memory,     \* memory[p]: _revoked_ids
    file,       \* the credentials on file; {} also if it cannot be read
    buffer,     \* buffer[c]: what c is about to write
    identity,   \* identity[a]: the key in a's identity file, None if it has none
    behind,     \* history: processes that loaded the file before its last save ended
    disturbed   \* history: saves overlapped, broke off, or came from behind

vaultVars == <<memory, file, buffer, identity, behind, disturbed>>
allVars   == <<vars, vaultVars>>

VaultInit ==
    /\ memory = [p \in Processes |-> Revoked]
    /\ file = Revoked
    /\ buffer = [c \in Calls |-> {}]
    /\ identity = [a \in OnFile |-> a]
    /\ behind = {} /\ disturbed = FALSE

Saving == {c \in Calls : pc[c] \in {"dump", "flush"}}

(* The credentials that p has in memory and is about to save.              *)
Pending(p) == {ask[c].on : c \in {d \in Calls : ProcessOf[d] = p /\ pc[d] = "open"}}

-----------------------------------------------------------------------------
(* Revocation.                                                             *)

(* VaultClient.revoke_credential                                           *)
RevokeCredential(c) ==
    /\ Begin(c, "revoke", "revoke")
    /\ UNCHANGED vaultVars

(* Unless told to stay local it reads an attribute that the client does    *)
(* not have.  The credential is added to the set, unless it is there.      *)
AddRevoked(c) ==
    /\ pc[c] = "revoke"
    /\ LET p == ProcessOf[c]
       IN  IF ~ask[c].opt THEN Move(c, "failed") /\ UNCHANGED memory
           ELSE /\ Move(c, IF ask[c].on \in memory[p] THEN "done" ELSE "open")
                /\ memory' = [memory EXCEPT ![p] = @ \cup {ask[c].on}]
    /\ UNCHANGED <<file, buffer, identity, behind, disturbed>>

(* _save_revocation_list: the file is emptied, the set taken, and written  *)
(* when the file is closed.                                                *)
OpenList(c) ==
    /\ pc[c] = "open"
    /\ Move(c, "dump")
    /\ file' = {}
    /\ disturbed' = (disturbed \/ Saving # {} \/ ProcessOf[c] \in behind)
    /\ behind' = behind \cup (Processes \ {ProcessOf[c]})
    /\ UNCHANGED <<memory, buffer, identity>>

(* Mutant: only the new credential is written.                             *)
DumpNewest(c) ==
    /\ pc[c] = "dump"
    /\ Move(c, "flush")
    /\ buffer' = [buffer EXCEPT ![c] = {ask[c].on}]
    /\ UNCHANGED <<memory, file, identity, behind, disturbed>>

DumpList(c) ==
    /\ pc[c] = "dump"
    /\ Move(c, "flush")
    /\ buffer' = [buffer EXCEPT ![c] = memory[ProcessOf[c]]]
    /\ UNCHANGED <<memory, file, identity, behind, disturbed>>

(* Written over a longer list, the remains of that make it unreadable.     *)
FlushList(c) ==
    /\ pc[c] = "flush"
    /\ Move(c, "done")
    /\ file' = IF Cardinality(file) > Cardinality(buffer[c]) THEN {} ELSE buffer[c]
    /\ buffer' = [buffer EXCEPT ![c] = {}]
    /\ UNCHANGED <<memory, identity, behind, disturbed>>

(* IOError: a warning, and the revocation counts as done.                  *)
SaveFails(c) ==
    /\ pc[c] \in {"open", "flush"}
    /\ Mishap(c, "done")
    /\ buffer' = [buffer EXCEPT ![c] = {}]
    /\ disturbed' = TRUE
    /\ UNCHANGED <<memory, file, identity, behind>>

(* verify_local_credential: what it makes of a credential that is not      *)
(* revoked depends on the identity it then looks up.                       *)
VerifyLocal(c) ==
    /\ Begin(c, "verify", "judge")
    /\ UNCHANGED vaultVars

JudgeLocal(c) ==
    /\ pc[c] = "judge"
    /\ Goto(c, IF ask[c].on \in memory[ProcessOf[c]] THEN "failed" ELSE "lookup")
    /\ IF ask[c].on \in memory[ProcessOf[c]] THEN UNCHANGED chain ELSE Detect(c, ask[c].kind)
    /\ UNCHANGED <<now, agents, keyring, access, expires, ask, held, looked, sent, listed,
                   mishaps, shared, vaultVars>>

-----------------------------------------------------------------------------
(* Rotation of identities.                                                 *)

RotateCredential(c) ==
    /\ Begin(c, "rotate", "rotate")
    /\ UNCHANGED vaultVars

(* rotate_credential reads the identity file, if it can, opens it to be    *)
(* rewritten, which empties it, and writes it.                             *)
ReadIdentity(c) ==
    /\ pc[c] = "rotate"
    /\ Move(c, IF ask[c].on \in DOMAIN identity /\ identity[ask[c].on] # None
               THEN "truncate" ELSE "failed")
    /\ UNCHANGED vaultVars

EmptyIdentity(c) ==
    /\ pc[c] = "truncate"
    /\ Move(c, "rewrite")
    /\ identity' = [identity EXCEPT ![ask[c].on] = None]
    /\ UNCHANGED <<memory, file, buffer, behind, disturbed>>

(* Mutant: the rotated key replaces the one in the keyring.                *)
RotateInKeyring(c) ==
    /\ pc[c] = "rewrite"
    /\ identity' = [identity EXCEPT ![ask[c].on] = New(c)]
    /\ keyring' = [keyring EXCEPT ![ask[c].on] = New(c)]
    /\ Goto(c, IF ask[c].opt THEN "done" ELSE "failed")
    /\ UNCHANGED <<now, agents, access, expires, ask, chain, held, looked, sent, listed,
                   mishaps, shared, memory, file, buffer, behind, disturbed>>

(* A new key is written where nothing else of the SDK looks for one.       *)
(* Unless told to stay local it then reads the attribute that the client   *)
(* does not have, so that the control plane is never told.                 *)
Rotate(c) ==
    /\ pc[c] = "rewrite"
    /\ identity' = [identity EXCEPT ![ask[c].on] = New(c)]
    /\ Move(c, IF ask[c].opt THEN "done" ELSE "failed")
    /\ UNCHANGED <<memory, file, buffer, behind, disturbed>>

(* IOError: an empty file stays empty.                                     *)
RotationFails(c) ==
    /\ pc[c] \in {"truncate", "rewrite"}
    /\ Mishap(c, "failed")
    /\ UNCHANGED vaultVars

-----------------------------------------------------------------------------
(* _load_revocation_list                                                   *)
Loaded == file

(* A process crashes and starts again.                                     *)
Restart(p) ==
    /\ Crash(p)
    /\ memory' = [memory EXCEPT ![p] = Loaded]
    /\ buffer' = [c \in Calls |-> IF c \in Running(p) THEN {} ELSE buffer[c]]
    /\ disturbed' = (disturbed \/ Saving \cap Running(p) # {} \/ Pending(p) # {})
    /\ behind' = IF Saving \subseteq Running(p) THEN behind \ {p} ELSE behind \cup {p}
    /\ UNCHANGED <<file, identity>>

VaultStep(c) ==
    \/ RevokeCredential(c) \/ AddRevoked(c) \/ OpenList(c) \/ DumpList(c) \/ FlushList(c)
    \/ SaveFails(c) \/ VerifyLocal(c) \/ JudgeLocal(c) \/ RotateCredential(c)
    \/ ReadIdentity(c) \/ EmptyIdentity(c) \/ Rotate(c) \/ RotationFails(c)

VaultNext ==
    \/ ClientNext /\ UNCHANGED vaultVars
    \/ Tick /\ UNCHANGED vaultVars
    \/ \E c \in Calls : VaultStep(c)
    \/ \E p \in Processes : Restart(p)

-----------------------------------------------------------------------------
(* Properties.                                                             *)

TypeOK ==
    /\ ClientTypeOK
    /\ DOMAIN identity = OnFile
    /\ \A c \in Calls : pc[c] = "flush" => ask[c].on \in buffer[c]

(* What a call has revoked stays revoked on file, whatever is revoked      *)
(* after it, unless saves overlapped or broke off, or a process saved that *)
(* had read the file before another's save was over.  Who revokes what     *)
(* another thread is just revoking is answered before that one has saved.  *)
RevocationsSurvive ==
    \A c \in Calls :
        pc[c] = "done" /\ ask[c].kind = "revoke" =>
            \/ ask[c].on \in file \cup Pending(ProcessOf[c])
            \/ disturbed \/ Saving # {}

(* Whatever is rotated, and whatever fails, every key in the keyring is    *)
(* the one by which the control plane knows its agent.                     *)
KeysAreTheirAgents ==
    \A a \in DOMAIN keyring : a \in DOMAIN agents /\ keyring[a] = agents[a].key
=============================================================================
