-------------------------- MODULE SplitKeySecrets --------------------------
(***************************************************************************)
(* The vault of the control plane and the share store of the gateway.      *)
(*                                                                         *)
(* A secret is split 2-of-2 (Shamir): share_1 goes to a row of the control *)
(* plane's database, share_2 to the gateway's Redis, under the same name   *)
(* and with a time to live.  Every operation is a sequence of steps over   *)
(* the two stores, and nothing locks a name while it runs:                 *)
(*                                                                         *)
(*   store   POST share_2 to the gateway, then INSERT the row              *)
(*   delete  SELECT the row, DELETE share_2 at the gateway, SELECT, DELETE *)
(*   read    SELECT the row, then GET share_2 from the gateway             *)
(*   inject  (gateway) GET share_1 from the control plane, then Redis GET  *)
(*                                                                         *)
(* Each split uses a fresh polynomial and prime, so a share is identified  *)
(* by the store request that made it, and two shares recombine to a secret *)
(* only when they come from the same request.                              *)
(***************************************************************************)
EXTENDS FiniteSets

CONSTANTS
    Names,      \* the names of secrets
    StoreReqs,  \* requests POST /vault/store; also the splits they make
    DeleteReqs, \* requests DELETE /vault/secrets/{name}
    ReadReqs,   \* requests GET /vault/secrets/{name}/value
    InjectReqs, \* proxied requests into which the gateway injects a secret
    Nil,        \* no row, no share, no value
    Garbage,    \* what mismatched shares recombine to
    Faults      \* what may go wrong around the handlers

AllFaults == {"network", "redis", "database", "crash", "expiry"}

Reqs == StoreReqs \cup DeleteReqs \cup ReadReqs \cup InjectReqs

ASSUME ConstantsAssumption ==
    /\ Nil \notin StoreReqs /\ Garbage \notin StoreReqs /\ Nil # Garbage
    /\ StoreReqs \cap (DeleteReqs \cup ReadReqs \cup InjectReqs) = {}
    /\ DeleteReqs \cap (ReadReqs \cup InjectReqs) = {}
    /\ ReadReqs \cap InjectReqs = {}
    /\ Faults \subseteq AllFaults

VARIABLES
    row,        \* row[n]: the split whose share_1 the database holds for n
    share,      \* share[n]: the split whose share_2 Redis holds for n
    wire,       \* requests whose call to the gateway has not been handled
    reply,      \* reply[r]: what the gateway answered to the call of r
    pc,         \* pc[r]: the next step of the handler of r
    name,       \* name[r]: the secret r is about
    found,      \* found[r]: the row (or its share_1) r read first
    picked,     \* picked[r]: the row a delete selected for deletion
    result,     \* result[r]: the outcome of r
    got,        \* got[r]: the value r returned or injected
    stored,     \* history: the splits whose share_2 Redis has held
    committed,  \* history: the splits whose row was committed
    lapsed      \* history: the names of which Redis dropped a share

stores  == <<row, share, wire, reply>>
local   == <<pc, name, found, picked, result, got>>
history == <<stored, committed, lapsed>>
vars    == <<stores, local, history>>

Pcs     == {"idle", "calling", "commit", "select", "erase", "share2",
            "done", "crashed"}
Replies == {"none", "stored", "deleted", "missing", "failed"}
Results == {"pending", "ok", "error", "notfound", "unreadable", "bare"}

Init ==
    /\ row = [n \in Names |-> Nil]
    /\ share = [n \in Names |-> Nil]
    /\ wire = {}
    /\ reply = [r \in Reqs |-> "none"]
    /\ pc = [r \in Reqs |-> "idle"]
    /\ name \in [Reqs -> Names]
    /\ found = [r \in Reqs |-> Nil]
    /\ picked = [r \in Reqs |-> Nil]
    /\ result = [r \in Reqs |-> "pending"]
    /\ got = [r \in Reqs |-> Nil]
    /\ stored = {} /\ committed = {} /\ lapsed = {}

Goto(r, label) == pc' = [pc EXCEPT ![r] = label]

Finish(r, outcome) ==
    /\ Goto(r, "done")
    /\ result' = [result EXCEPT ![r] = outcome]

(* 2xx, unless the connection to the database is lost after the COMMIT.    *)
FinishCommitted(r) ==
    \/ Finish(r, "ok")
    \/ "database" \in Faults /\ Finish(r, "error")

(* Mutant: the client waits without a timeout.                             *)
WaitForever(r) == FALSE /\ pc[r] = "calling"

(* httpx raised RequestError: the call of r was refused, lost, or timed out.*)
(* It may still be on its way, and be handled after r has moved on.         *)
CallLost(r) ==
    /\ "network" \in Faults /\ pc[r] = "calling"
    /\ wire' \in {wire, wire \ {r}}
    /\ UNCHANGED <<row, share, reply>>

-----------------------------------------------------------------------------
(* Control plane: create_secret, called by store_secret.                   *)

(* The secret is split and share_2 is sent; the row does not exist yet.    *)
StoreBegin(r) ==
    /\ pc[r] = "idle"
    /\ wire' = wire \cup {r}
    /\ Goto(r, "calling")
    /\ UNCHANGED <<row, share, reply, name, found, picked, result, got, history>>

StoreAcknowledged(r) ==
    /\ pc[r] = "calling" /\ reply[r] = "stored"
    /\ Goto(r, "commit")
    /\ UNCHANGED <<stores, name, found, picked, result, got, history>>

StoreRefused(r) ==
    /\ pc[r] = "calling" /\ reply[r] = "failed"
    /\ Finish(r, "error")
    /\ UNCHANGED <<stores, name, found, picked, got, history>>

(* Mutant: the loss of the call is logged, as delete_secret does.          *)
StoreCallLostAndCommit(r) ==
    /\ CallLost(r)
    /\ Goto(r, "commit")
    /\ UNCHANGED <<name, found, picked, result, got, history>>

StoreCallLost(r) ==
    /\ CallLost(r)
    /\ Finish(r, "error")
    /\ UNCHANGED <<name, found, picked, got, history>>

(* db.add, db.commit: the row is inserted.                                 *)
StoreCommit(r) ==
    /\ pc[r] = "commit" /\ row[name[r]] = Nil
    /\ row' = [row EXCEPT ![name[r]] = r]
    /\ committed' = committed \cup {r}
    /\ FinishCommitted(r)
    /\ UNCHANGED <<share, wire, reply, name, found, picked, got, stored, lapsed>>

(* Mutant: ON CONFLICT (name) DO UPDATE.                                   *)
StoreReplaces(r) ==
    /\ pc[r] = "commit" /\ row[name[r]] # Nil
    /\ row' = [row EXCEPT ![name[r]] = r]
    /\ committed' = committed \cup {r}
    /\ Finish(r, "ok")
    /\ UNCHANGED <<share, wire, reply, name, found, picked, got, stored, lapsed>>

(* The name is taken (unique index): IntegrityError, 500.  Nothing undoes  *)
(* the POST.                                                               *)
StoreDuplicate(r) ==
    /\ pc[r] = "commit" /\ row[name[r]] # Nil
    /\ Finish(r, "error")
    /\ UNCHANGED <<stores, name, found, picked, got, history>>

Store(r) ==
    \/ StoreBegin(r) \/ StoreAcknowledged(r) \/ StoreRefused(r)
    \/ StoreCallLost(r) \/ StoreCommit(r) \/ StoreDuplicate(r)

-----------------------------------------------------------------------------
(* Control plane: delete_secret.                                           *)

DeleteBegin(r) ==
    /\ pc[r] = "idle" /\ row[name[r]] # Nil
    /\ found' = [found EXCEPT ![r] = row[name[r]]]
    /\ wire' = wire \cup {r}
    /\ Goto(r, "calling")
    /\ UNCHANGED <<row, share, reply, name, picked, result, got, history>>

DeleteUnknown(r) ==
    /\ pc[r] = "idle" /\ row[name[r]] = Nil
    /\ Finish(r, "notfound")
    /\ UNCHANGED <<stores, name, found, picked, got, history>>

(* 200, or 404 that is taken to mean "may have expired".                   *)
DeleteAcknowledged(r) ==
    /\ pc[r] = "calling" /\ reply[r] \in {"deleted", "missing"}
    /\ Goto(r, "select")
    /\ UNCHANGED <<stores, name, found, picked, result, got, history>>

(* raise_for_status: HTTPStatusError is no RequestError, the handler's     *)
(* outer except answers 500 and the row stays.                             *)
DeleteRefused(r) ==
    /\ pc[r] = "calling" /\ reply[r] = "failed"
    /\ Finish(r, "error")
    /\ UNCHANGED <<stores, name, found, picked, got, history>>

(* RequestError: warn and continue with the local deletion.                *)
DeleteCallLost(r) ==
    /\ CallLost(r)
    /\ Goto(r, "select")
    /\ UNCHANGED <<name, found, picked, result, got, history>>

DeleteSelect(r) ==
    /\ pc[r] = "select" /\ row[name[r]] # Nil
    /\ picked' = [picked EXCEPT ![r] = row[name[r]]]
    /\ Goto(r, "erase")
    /\ UNCHANGED <<stores, name, found, result, got, history>>

(* Another delete was faster: crud.delete_secret is False, 500.            *)
DeleteVanished(r) ==
    /\ pc[r] = "select" /\ row[name[r]] = Nil
    /\ Finish(r, "error")
    /\ UNCHANGED <<stores, name, found, picked, got, history>>

(* Mutant: the session is closed without db.commit().                      *)
DeleteUncommitted(r) ==
    /\ pc[r] = "erase"
    /\ FinishCommitted(r)
    /\ UNCHANGED <<stores, name, found, picked, got, history>>

(* DELETE by primary key: only the selected row goes; no row matching is   *)
(* a warning of SQLAlchemy, and the answer is 200 all the same.            *)
DeleteErase(r) ==
    /\ pc[r] = "erase"
    /\ row' = [row EXCEPT ![name[r]] = IF @ = picked[r] THEN Nil ELSE @]
    /\ FinishCommitted(r)
    /\ UNCHANGED <<share, wire, reply, name, found, picked, got, history>>

Delete(r) ==
    \/ DeleteBegin(r) \/ DeleteUnknown(r) \/ DeleteAcknowledged(r)
    \/ DeleteRefused(r) \/ DeleteCallLost(r) \/ DeleteSelect(r)
    \/ DeleteVanished(r) \/ DeleteErase(r)

-----------------------------------------------------------------------------
(* Reassembly, in the control plane and in the gateway.                    *)

(* Mutant: share_2 alone is enough.                                        *)
OfOneShare(share1, share2) == {share2}

(* recover_secret and decode: shares of one split give its value; shares   *)
(* of two splits give bytes that fail to decode, or decode to garbage.     *)
Recombined(share1, share2) ==
    IF share1 = share2 THEN {share1} ELSE {Nil, Garbage}

(* The handler of r combines its share_1 with the share_2 in Redis; a value*)
(* that cannot be recovered ends it with `failure'.                        *)
Reassemble(r, failure) ==
    \E value \in Recombined(found[r], share[name[r]]) :
        /\ got' = [got EXCEPT ![r] = value]
        /\ Finish(r, IF value = Nil THEN failure ELSE "ok")

(* get_secret_with_value: share_1 from the local row, or 404.              *)
ReadShare1(r) ==
    /\ pc[r] = "idle" /\ row[name[r]] # Nil
    /\ found' = [found EXCEPT ![r] = row[name[r]]]
    /\ Goto(r, "share2")
    /\ UNCHANGED <<stores, name, picked, result, got, history>>

ReadUnknown(r) ==
    /\ pc[r] = "idle" /\ row[name[r]] = Nil
    /\ Finish(r, "notfound")
    /\ UNCHANGED <<stores, name, found, picked, got, history>>

ReadShare2(r) ==
    /\ pc[r] = "share2" /\ share[name[r]] # Nil
    /\ Reassemble(r, "unreadable")
    /\ UNCHANGED <<stores, name, found, picked, history>>

ReadMissing(r) ==
    /\ pc[r] = "share2" /\ share[name[r]] = Nil
    /\ Finish(r, "notfound")
    /\ UNCHANGED <<stores, name, found, picked, got, history>>

(* The gateway out of reach or failing: 502 or 500.  A share that Redis    *)
(* fails to return is None to retrieve_share, and so 404.                  *)
ReadFails(r) ==
    /\ pc[r] = "share2" /\ Faults \cap {"network", "redis"} # {}
    /\ \E outcome \in {"notfound", "error"} : Finish(r, outcome)
    /\ UNCHANGED <<stores, name, found, picked, got, history>>

Read(r) ==
    \/ ReadShare1(r) \/ ReadUnknown(r) \/ ReadShare2(r)
    \/ ReadMissing(r) \/ ReadFails(r)

(* The gateway's _reassemble_secret: share_1 over HTTP ...                 *)
InjectShare1(r) ==
    /\ pc[r] = "idle" /\ row[name[r]] # Nil
    /\ found' = [found EXCEPT ![r] = row[name[r]]]
    /\ Goto(r, "share2")
    /\ UNCHANGED <<stores, name, picked, result, got, history>>

(* ... then share_2 from Redis; the event loop may run anything between.   *)
InjectShare2(r) ==
    /\ pc[r] = "share2" /\ share[name[r]] # Nil
    /\ Reassemble(r, "bare")
    /\ UNCHANGED <<stores, name, found, picked, history>>

(* No share_1, no share_2, or any failure on the way to them: the request  *)
(* is forwarded without the secret.                                        *)
InjectFails(r) ==
    /\ \/ pc[r] = "idle" /\ row[name[r]] = Nil
       \/ pc[r] = "share2" /\ share[name[r]] = Nil
       \/ pc[r] = "idle" /\ Faults \cap {"network", "database"} # {}
       \/ pc[r] = "share2" /\ "redis" \in Faults
    /\ Finish(r, "bare")
    /\ UNCHANGED <<stores, name, found, picked, got, history>>

Inject(r) == InjectShare1(r) \/ InjectShare2(r) \/ InjectFails(r)

-----------------------------------------------------------------------------
(* Gateway: the internal share endpoints over ShareStorageManager.         *)

(* Mutant: the Redis key leaves out the name of the secret.                *)
ReceiveShareUnkeyed(r) ==
    /\ r \in wire \cap StoreReqs
    /\ wire' = wire \ {r}
    /\ share' = [n \in Names |-> r]
    /\ reply' = [reply EXCEPT ![r] = "stored"]
    /\ stored' = stored \cup {r}
    /\ UNCHANGED <<row, local, committed, lapsed>>

ReceiveShare(r) ==
    /\ r \in wire \cap StoreReqs
    /\ wire' = wire \ {r}
    /\ share' = [share EXCEPT ![name[r]] = r]
    /\ reply' = [reply EXCEPT ![r] = "stored"]
    /\ stored' = stored \cup {r}
    /\ UNCHANGED <<row, local, committed, lapsed>>

(* Redis is down or refuses the SETEX, or its answer is lost: 500 or 502.  *)
ReceiveShareFails(r) ==
    /\ "redis" \in Faults /\ r \in wire \cap StoreReqs
    /\ wire' = wire \ {r}
    /\ reply' = [reply EXCEPT ![r] = "failed"]
    /\ \/ UNCHANGED <<share, stored>>
       \/ share' = [share EXCEPT ![name[r]] = r] /\ stored' = stored \cup {r}
    /\ UNCHANGED <<row, local, committed, lapsed>>

(* Mutant: a deletion overwrites the share with zeros.                     *)
BlankShare(r) ==
    /\ r \in wire \cap DeleteReqs
    /\ wire' = wire \ {r}
    /\ share' = [share EXCEPT ![name[r]] = Garbage]
    /\ reply' = [reply EXCEPT ![r] = "deleted"]
    /\ UNCHANGED <<row, local, history>>

DeleteShare(r) ==
    /\ r \in wire \cap DeleteReqs
    /\ wire' = wire \ {r}
    /\ share' = [share EXCEPT ![name[r]] = Nil]
    /\ reply' = [reply EXCEPT ![r] =
                    IF share[name[r]] = Nil THEN "missing" ELSE "deleted"]
    /\ UNCHANGED <<row, local, history>>

(* No connection to Redis: 500.  An error of the DEL itself, carried out or*)
(* not, is swallowed by delete_share and answered 404, as if the share had *)
(* not existed.                                                            *)
DeleteShareFails(r) ==
    /\ "redis" \in Faults /\ r \in wire \cap DeleteReqs
    /\ wire' = wire \ {r}
    /\ \/ reply' = [reply EXCEPT ![r] = "failed"] /\ UNCHANGED share
       \/ /\ reply' = [reply EXCEPT ![r] = "missing"]
          /\ share' \in {share, [share EXCEPT ![name[r]] = Nil]}
    /\ UNCHANGED <<row, local, history>>

(* Mutant: SET instead of SETEX.                                           *)
KeepForever(n) == FALSE /\ share[n] # Nil

(* Redis drops the share: its time to live is over, or its memory is lost. *)
Expire(n) ==
    /\ "expiry" \in Faults /\ share[n] # Nil
    /\ share' = [share EXCEPT ![n] = Nil]
    /\ lapsed' = lapsed \cup {n}
    /\ UNCHANGED <<row, wire, reply, local, stored, committed>>

(* The process that runs the handler dies; its session is rolled back and  *)
(* a call already sent to the gateway is not.                              *)
Crash(r) ==
    /\ "crash" \in Faults /\ pc[r] \notin {"idle", "done", "crashed"}
    /\ Goto(r, "crashed")
    /\ UNCHANGED <<stores, name, found, picked, result, got, history>>

(* A query or a commit of the control plane fails without effect: 500.     *)
DatabaseFails(r) ==
    /\ "database" \in Faults
    /\ \/ pc[r] \in {"commit", "select", "erase"}
       \/ pc[r] = "idle" /\ r \in DeleteReqs \cup ReadReqs
    /\ Finish(r, "error")
    /\ UNCHANGED <<stores, name, found, picked, got, history>>

-----------------------------------------------------------------------------
Gateway(r) ==
    \/ ReceiveShare(r) \/ ReceiveShareFails(r)
    \/ DeleteShare(r) \/ DeleteShareFails(r)

Next ==
    \/ \E r \in StoreReqs : Store(r)
    \/ \E r \in DeleteReqs : Delete(r)
    \/ \E r \in ReadReqs : Read(r)
    \/ \E r \in InjectReqs : Inject(r)
    \/ \E r \in wire : Gateway(r)
    \/ \E n \in Names : Expire(n)
    \/ \E r \in Reqs : DatabaseFails(r) \/ Crash(r)

Spec == Init /\ [][Next]_vars

(* A handler that has begun goes on: its calls end by an answer or by      *)
(* httpx's timeout.  Redis honours the time to live.  Nothing obliges a    *)
(* client to send a request, the network to deliver one, or a crash.       *)
Fairness ==
    /\ \A r \in StoreReqs : WF_vars(pc[r] # "idle" /\ Store(r))
    /\ \A r \in DeleteReqs : WF_vars(pc[r] # "idle" /\ Delete(r))
    /\ \A r \in ReadReqs : WF_vars(pc[r] # "idle" /\ Read(r))
    /\ \A r \in InjectReqs : WF_vars(pc[r] # "idle" /\ Inject(r))
    /\ \A n \in Names : WF_vars(Expire(n))

FairSpec == Spec /\ Fairness

-----------------------------------------------------------------------------
(* Properties.                                                             *)

(* Every variable keeps to the values the handlers and the stores have.    *)
TypeOK ==
    /\ row \in [Names -> StoreReqs \cup {Nil}]
    /\ share \in [Names -> StoreReqs \cup {Nil}]
    /\ wire \subseteq StoreReqs \cup DeleteReqs
    /\ reply \in [Reqs -> Replies]
    /\ pc \in [Reqs -> Pcs]
    /\ name \in [Reqs -> Names]
    /\ found \in [Reqs -> StoreReqs \cup {Nil}]
    /\ picked \in [Reqs -> StoreReqs \cup {Nil}]
    /\ result \in [Reqs -> Results]
    /\ got \in [Reqs -> StoreReqs \cup {Nil, Garbage}]
    /\ stored \subseteq StoreReqs
    /\ committed \subseteq StoreReqs
    /\ lapsed \subseteq Names

(* A row of the database is only ever made for a split whose share_2 the   *)
(* gateway has persisted: whatever is lost, late or refused on the way,    *)
(* create_secret leaves no row whose other half never existed.             *)
RowHasItsShareStored == \A n \in Names : row[n] # Nil => row[n] \in stored

(* A value that a read returns, or the gateway injects, is the value of a  *)
(* store of the same name whose row was committed.  There is one exception:*)
(* it is garbage when a second store of that very name has put its own     *)
(* share_2 at the gateway, beside the row that was read.  A lost share, a  *)
(* delete, a crash, or a store of another name never makes it garbage.     *)
ServedValueIsExplained ==
    \A r \in ReadReqs \cup InjectReqs :
        got[r] # Nil =>
            IF got[r] = Garbage
            THEN \E w \in stored \ {found[r]} : name[w] = name[r]
            ELSE got[r] \in committed /\ name[got[r]] = name[r]

(* A delete answered 200 is final: the row it saw at its start and the row *)
(* it selected are gone for good, whatever stores and deletes run beside.  *)
DeleteIsFinal ==
    \A d \in DeleteReqs :
        result[d] = "ok" => row[name[d]] = Nil
                            \/ row[name[d]] \notin {found[d], picked[d]}

(* Only three things can come between a committed row and its share_2:     *)
(* another store of that name, a delete of it, or the loss of the share in *)
(* Redis.  A read, an injection, a crash, a lost call, or anything done to *)
(* another name leaves the pair whole.                                     *)
UndisturbedPairIsWhole ==
    \A n \in Names : row[n] # Nil =>
        \/ share[n] = row[n]
        \/ /\ share[n] = Nil
           /\ \/ n \in lapsed
              \/ \E d \in DeleteReqs : name[d] = n /\ pc[d] # "idle"
        \/ \E w \in StoreReqs \ {row[n]} : name[w] = n /\ pc[w] # "idle"

(* Every request that has begun is answered, or its process has died: no   *)
(* lost, late or refused call to the gateway leaves a handler waiting.     *)
RequestsEnd ==
    \A r \in Reqs : pc[r] # "idle" ~> pc[r] \in {"done", "crashed"}

(* After a delete answered 200 the share_2 of the deleted row leaves the   *)
(* gateway, if only when its time to live is over, even though the delete  *)
(* may have missed it.                                                     *)
DeletedShareLeaves ==
    \A d \in DeleteReqs :
        result[d] = "ok" ~> share[name[d]] = Nil \/ share[name[d]] # found[d]

(* How far a request is, to its client; and the row that r decides on.     *)
PhaseOf(label) ==
    IF label = "idle" THEN "idle"
    ELSE IF label \in {"done", "crashed"} THEN "closed" ELSE "open"

Seen(r) == IF r \in DeleteReqs THEN picked[r] ELSE found[r]

(* The row and the reads of it, without the shares, the calls and the      *)
(* gateway, are the vault a client is promised.                            *)
Vault == INSTANCE SecretVault WITH
    Writers  <- StoreReqs,
    Removers <- DeleteReqs,
    Readers  <- ReadReqs \cup InjectReqs,
    secret   <- row,
    about    <- name,
    phase    <- [r \in Reqs |-> PhaseOf(pc[r])],
    saw      <- [r \in Reqs |-> Seen(r)],
    out      <- got

(* The split-key vault with all its failures behaves as one atomic register*)
(* per name, whose operations may fail and whose reads another store of the*)
(* name may garble: SecretVault.                                           *)
ImplementsVault == Vault!Spec

-----------------------------------------------------------------------------
(* What the documentation says, and the code does not do.                  *)

(* store_secret: "Store or update a secret in the vault." (vault.py:58): a *)
(* store that reaches the database leaves its value under the name.        *)
StoreUpdates ==
    [][\A r \in StoreReqs :
          pc[r] = "commit" /\ pc'[r] = "done" => row'[name[r]] = r]_vars
=============================================================================
