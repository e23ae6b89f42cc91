----------------------- MODULE SplitKeySecretsProofs -----------------------
(* Proofs about SplitKeySecrets, for any number of requests and names and  *)
(* any set of faults.                                                      *)
EXTENDS SplitKeySecrets, TLAPS

-----------------------------------------------------------------------------
(* The inductive invariant.                                                *)

Begun(r) == pc[r] # "idle"

(* A split goes through the gateway before it reaches the database, it     *)
(* reaches the database at most once, and only begun requests leave traces.*)
SplitsInOrder ==
    /\ \A r \in wire : Begun(r)
    /\ \A r \in StoreReqs : pc[r] = "commit" \/ reply[r] = "stored" => r \in stored
    /\ \A r \in stored : Begun(r)
    /\ committed \subseteq stored
    /\ \A r \in committed : pc[r] = "done"

(* Both stores file a split under the name it was made for.                *)
FiledByName ==
    /\ \A n \in Names : row[n] # Nil => row[n] \in committed /\ name[row[n]] = n
    /\ \A n \in Names : share[n] # Nil => share[n] \in stored /\ name[share[n]] = n

(* What handlers remember of the database was once committed there.        *)
MemoryIsOfCommits ==
    \A r \in Reqs :
        /\ found[r] # Nil => found[r] \in committed /\ name[found[r]] = name[r]
        /\ picked[r] # Nil => picked[r] \in committed /\ name[picked[r]] = name[r]
        /\ got[r] \in StoreReqs => got[r] \in committed /\ name[got[r]] = name[r]

(* Garbage is read where the share_2 of another split of the name was.     *)
GarbageIsMixed ==
    \A r \in Reqs :
        got[r] = Garbage => \E w \in stored \ {found[r]} : name[w] = name[r]

(* How far a handler is tells what it has seen and answered.               *)
HandlersInOrder ==
    \A r \in Reqs :
        /\ result[r] # "pending" => pc[r] = "done"
        /\ got[r] # Nil => pc[r] = "done"
        /\ pc[r] = "share2" => found[r] # Nil
        /\ r \in DeleteReqs /\ pc[r] \in {"calling", "select", "erase"} => found[r] # Nil
        /\ pc[r] = "erase" => picked[r] # Nil

(* The row a delete saw first is the one it selected, or is already gone.  *)
FoundIsPickedOrGone ==
    \A d \in DeleteReqs :
        pc[d] = "erase" => found[d] = picked[d] \/ row[name[d]] # found[d]

(* What became of a share_2 that Redis once held.                          *)
StoredShareIsAccountedFor ==
    \A v \in stored :
        \/ share[name[v]] = v
        \/ /\ share[name[v]] = Nil
           /\ \/ name[v] \in lapsed
              \/ \E d \in DeleteReqs : name[d] = name[v] /\ Begun(d)
        \/ \E w \in StoreReqs \ {v} : name[w] = name[v] /\ Begun(w)

Inv ==
    /\ TypeOK
    /\ SplitsInOrder
    /\ FiledByName
    /\ MemoryIsOfCommits
    /\ GarbageIsMixed
    /\ HandlersInOrder
    /\ FoundIsPickedOrGone
    /\ StoredShareIsAccountedFor
    /\ DeleteIsFinal

-----------------------------------------------------------------------------

(* Every step keeps the types.                                             *)
LEMMA TypeKept == TypeOK /\ [Next]_vars => TypeOK'
<1> SUFFICES ASSUME TypeOK, [Next]_vars PROVE TypeOK'
  OBVIOUS
<1> USE DEF TypeOK, Goto, Finish, FinishCommitted, CallLost, stores, local,
            history, Pcs, Replies, Results
<1>1. ASSUME NEW r \in StoreReqs, Store(r) PROVE TypeOK'
  <2> r \in Reqs BY DEF Reqs
  <2>1. CASE StoreBegin(r) BY <2>1 DEF StoreBegin
  <2>2. CASE StoreAcknowledged(r) BY <2>2 DEF StoreAcknowledged
  <2>3. CASE StoreRefused(r) BY <2>3 DEF StoreRefused
  <2>4. CASE StoreCallLost(r) BY <2>4 DEF StoreCallLost
  <2>5. CASE StoreCommit(r) BY <2>5 DEF StoreCommit
  <2>6. CASE StoreDuplicate(r) BY <2>6 DEF StoreDuplicate
  <2> QED BY <1>1, <2>1, <2>2, <2>3, <2>4, <2>5, <2>6 DEF Store
<1>2. ASSUME NEW r \in DeleteReqs, Delete(r) PROVE TypeOK'
  <2> r \in Reqs BY DEF Reqs
  <2>1. CASE DeleteBegin(r) BY <2>1 DEF DeleteBegin
  <2>2. CASE DeleteUnknown(r) BY <2>2 DEF DeleteUnknown
  <2>3. CASE DeleteAcknowledged(r) BY <2>3 DEF DeleteAcknowledged
  <2>4. CASE DeleteRefused(r) BY <2>4 DEF DeleteRefused
  <2>5. CASE DeleteCallLost(r) BY <2>5 DEF DeleteCallLost
  <2>6. CASE DeleteSelect(r) BY <2>6 DEF DeleteSelect
  <2>7. CASE DeleteVanished(r) BY <2>7 DEF DeleteVanished
  <2>8. CASE DeleteErase(r) BY <2>8 DEF DeleteErase
  <2> QED BY <1>2, <2>1, <2>2, <2>3, <2>4, <2>5, <2>6, <2>7, <2>8 DEF Delete
<1>3. ASSUME NEW r \in ReadReqs, Read(r) PROVE TypeOK'
  <2> r \in Reqs BY DEF Reqs
  <2>1. CASE ReadShare1(r) BY <2>1 DEF ReadShare1
  <2>2. CASE ReadUnknown(r) BY <2>2 DEF ReadUnknown
  <2>3. CASE ReadShare2(r) BY <2>3 DEF ReadShare2, Reassemble, Recombined
  <2>4. CASE ReadMissing(r) BY <2>4 DEF ReadMissing
  <2>5. CASE ReadFails(r) BY <2>5 DEF ReadFails
  <2> QED BY <1>3, <2>1, <2>2, <2>3, <2>4, <2>5 DEF Read
<1>4. ASSUME NEW r \in InjectReqs, Inject(r) PROVE TypeOK'
  <2> r \in Reqs BY DEF Reqs
  <2>1. CASE InjectShare1(r) BY <2>1 DEF InjectShare1
  <2>2. CASE InjectShare2(r) BY <2>2 DEF InjectShare2, Reassemble, Recombined
  <2>3. CASE InjectFails(r) BY <2>3 DEF InjectFails
  <2> QED BY <1>4, <2>1, <2>2, <2>3 DEF Inject
<1>5. ASSUME NEW r \in wire, Gateway(r) PROVE TypeOK'
  <2> r \in Reqs BY DEF Reqs
  <2>1. CASE ReceiveShare(r) BY <2>1 DEF ReceiveShare
  <2>2. CASE ReceiveShareFails(r) BY <2>2 DEF ReceiveShareFails
  <2>3. CASE DeleteShare(r) BY <2>3 DEF DeleteShare
  <2>4. CASE DeleteShareFails(r) BY <2>4 DEF DeleteShareFails
  <2> QED BY <1>5, <2>1, <2>2, <2>3, <2>4 DEF Gateway
<1>6. ASSUME NEW n \in Names, Expire(n) PROVE TypeOK'
  BY <1>6 DEF Expire
<1>7. ASSUME NEW r \in Reqs, DatabaseFails(r) PROVE TypeOK'
  BY <1>7 DEF DatabaseFails
<1>8. ASSUME NEW r \in Reqs, Crash(r) PROVE TypeOK'
  BY <1>8 DEF Crash
<1>9. CASE UNCHANGED vars
  BY <1>9 DEF vars
<1> QED BY <1>1, <1>2, <1>3, <1>4, <1>5, <1>6, <1>7, <1>8, <1>9 DEF Next

(* Every step keeps the invariant.                                         *)
LEMMA InvariantKept == Inv /\ [Next]_vars => Inv'
<1> SUFFICES ASSUME Inv, [Next]_vars PROVE Inv'
  OBVIOUS
<1>0. TypeOK'
  BY TypeKept DEF Inv
<1> USE ConstantsAssumption
    DEF Inv, TypeOK, SplitsInOrder, FiledByName, MemoryIsOfCommits, GarbageIsMixed,
        HandlersInOrder, FoundIsPickedOrGone, StoredShareIsAccountedFor,
        DeleteIsFinal, Begun, Goto, Finish, FinishCommitted, CallLost,
        stores, local, history
<1>1. ASSUME NEW r \in StoreReqs, Store(r) PROVE Inv'
  <2> r \in Reqs BY DEF Reqs
  <2>1. CASE StoreBegin(r) BY <2>1, <1>0 DEF StoreBegin
  <2>2. CASE StoreAcknowledged(r) BY <2>2, <1>0 DEF StoreAcknowledged
  <2>3. CASE StoreRefused(r) BY <2>3, <1>0 DEF StoreRefused
  <2>4. CASE StoreCallLost(r) BY <2>4, <1>0 DEF StoreCallLost
  <2>5. CASE StoreCommit(r)
    <3>1. PICK outcome \in {"ok", "error"} : Finish(r, outcome)
      BY <2>5 DEF StoreCommit
    <3>2. pc' = [pc EXCEPT ![r] = "done"] /\ result' = [result EXCEPT ![r] = outcome]
      BY <3>1
    <3>3. /\ pc[r] = "commit" /\ row[name[r]] = Nil
          /\ row' = [row EXCEPT ![name[r]] = r]
          /\ committed' = committed \cup {r}
          /\ UNCHANGED <<share, wire, reply, name, found, picked, got, stored, lapsed>>
      BY <2>5 DEF StoreCommit
    <3>4. SplitsInOrder' BY <1>0, <3>2, <3>3
    <3>5. FiledByName' BY <1>0, <3>2, <3>3
    <3>6. MemoryIsOfCommits' BY <1>0, <3>2, <3>3
    <3>a. GarbageIsMixed' BY <1>0, <3>2, <3>3
    <3>7. HandlersInOrder' BY <1>0, <3>2, <3>3
    <3>8. FoundIsPickedOrGone'
      <4> SUFFICES ASSUME NEW d \in DeleteReqs, pc'[d] = "erase"
                   PROVE  found[d] = picked[d] \/ row'[name[d]] # found[d]
        BY <3>3
      <4>1. d \in Reqs /\ pc[d] = "erase"
        BY <3>2 DEF Reqs
      <4>2. found[d] \in committed /\ r \notin committed
        BY <4>1, <3>3
      <4> QED BY <4>1, <4>2, <3>3
    <3>9. StoredShareIsAccountedFor' BY <1>0, <3>2, <3>3
    <3>10. DeleteIsFinal'
      <4> SUFFICES ASSUME NEW d \in DeleteReqs, result'[d] = "ok"
                   PROVE  \/ row'[name[d]] = Nil
                          \/ row'[name[d]] \notin {found[d], picked[d]}
        BY <3>3
      <4>1. d \in Reqs /\ result[d] = "ok"
        BY <3>2 DEF Reqs
      <4>2. r # Nil /\ r \notin committed
        BY <3>3
      <4>3. found[d] # r /\ picked[d] # r
        BY <4>1, <4>2
      <4> QED BY <4>1, <4>3, <3>3
    <3> QED BY <1>0, <3>4, <3>5, <3>6, <3>a, <3>7, <3>8, <3>9, <3>10
  <2>6. CASE StoreDuplicate(r) BY <2>6, <1>0 DEF StoreDuplicate
  <2> QED BY <1>1, <2>1, <2>2, <2>3, <2>4, <2>5, <2>6 DEF Store
<1>2. ASSUME NEW r \in DeleteReqs, Delete(r) PROVE Inv'
  <2> r \in Reqs BY DEF Reqs
  <2>1. CASE DeleteBegin(r) BY <2>1, <1>0 DEF DeleteBegin
  <2>2. CASE DeleteUnknown(r) BY <2>2, <1>0 DEF DeleteUnknown
  <2>3. CASE DeleteAcknowledged(r) BY <2>3, <1>0 DEF DeleteAcknowledged
  <2>4. CASE DeleteRefused(r) BY <2>4, <1>0 DEF DeleteRefused
  <2>5. CASE DeleteCallLost(r) BY <2>5, <1>0 DEF DeleteCallLost
  <2>6. CASE DeleteSelect(r) BY <2>6, <1>0 DEF DeleteSelect
  <2>7. CASE DeleteVanished(r) BY <2>7, <1>0 DEF DeleteVanished
  <2>8. CASE DeleteErase(r)
    <3>1. PICK outcome \in {"ok", "error"} : Finish(r, outcome)
      BY <2>8 DEF DeleteErase
    <3>2. pc' = [pc EXCEPT ![r] = "done"] /\ result' = [result EXCEPT ![r] = outcome]
      BY <3>1
    <3>3. /\ pc[r] = "erase"
          /\ row' = [row EXCEPT ![name[r]] = IF @ = picked[r] THEN Nil ELSE @]
          /\ UNCHANGED <<share, wire, reply, name, found, picked, got, history>>
      BY <2>8 DEF DeleteErase
    <3>4. SplitsInOrder' BY <1>0, <3>2, <3>3
    <3>5. FiledByName' BY <1>0, <3>2, <3>3
    <3>6. MemoryIsOfCommits' BY <1>0, <3>2, <3>3
    <3>a. GarbageIsMixed' BY <1>0, <3>2, <3>3
    <3>7. HandlersInOrder' BY <1>0, <3>2, <3>3
    <3>8. FoundIsPickedOrGone'
      <4> SUFFICES ASSUME NEW d \in DeleteReqs, pc'[d] = "erase"
                   PROVE  found[d] = picked[d] \/ row'[name[d]] # found[d]
        BY <3>3
      <4>1. d \in Reqs /\ pc[d] = "erase" /\ found[d] # Nil
        BY <3>2 DEF Reqs
      <4>2. row'[name[d]] \in {row[name[d]], Nil}
        BY <3>3, <4>1
      <4> QED BY <4>1, <4>2
    <3>9. StoredShareIsAccountedFor' BY <1>0, <3>2, <3>3
    <3>10. DeleteIsFinal' BY <1>0, <3>2, <3>3
    <3> QED BY <1>0, <3>4, <3>5, <3>6, <3>a, <3>7, <3>8, <3>9, <3>10
  <2> QED BY <1>2, <2>1, <2>2, <2>3, <2>4, <2>5, <2>6, <2>7, <2>8 DEF Delete
<1>3. ASSUME NEW r \in ReadReqs, Read(r) PROVE Inv'
  <2> r \in Reqs BY DEF Reqs
  <2>1. CASE ReadShare1(r) BY <2>1, <1>0 DEF ReadShare1
  <2>2. CASE ReadUnknown(r) BY <2>2, <1>0 DEF ReadUnknown
  <2>3. CASE ReadShare2(r) BY <2>3, <1>0 DEF ReadShare2, Reassemble, Recombined
  <2>4. CASE ReadMissing(r) BY <2>4, <1>0 DEF ReadMissing
  <2>5. CASE ReadFails(r) BY <2>5, <1>0 DEF ReadFails
  <2> QED BY <1>3, <2>1, <2>2, <2>3, <2>4, <2>5 DEF Read
<1>4. ASSUME NEW r \in InjectReqs, Inject(r) PROVE Inv'
  <2> r \in Reqs BY DEF Reqs
  <2>1. CASE InjectShare1(r) BY <2>1, <1>0 DEF InjectShare1
  <2>2. CASE InjectShare2(r) BY <2>2, <1>0 DEF InjectShare2, Reassemble, Recombined
  <2>3. CASE InjectFails(r) BY <2>3, <1>0 DEF InjectFails
  <2> QED BY <1>4, <2>1, <2>2, <2>3 DEF Inject
<1>5. ASSUME NEW r \in wire, Gateway(r) PROVE Inv'
  <2> r \in Reqs BY DEF Reqs
  <2>1. CASE ReceiveShare(r) BY <2>1, <1>0 DEF ReceiveShare
  <2>2. CASE ReceiveShareFails(r)
    <3>1. CASE UNCHANGED <<share, stored>>
      BY <1>0, <2>2, <3>1 DEF ReceiveShareFails
    <3>2. CASE /\ share' = [share EXCEPT ![name[r]] = r]
               /\ stored' = stored \cup {r}
      BY <1>0, <2>2, <3>2 DEF ReceiveShareFails
    <3> QED BY <2>2, <3>1, <3>2 DEF ReceiveShareFails
  <2>3. CASE DeleteShare(r) BY <2>3, <1>0 DEF DeleteShare
  <2>4. CASE DeleteShareFails(r)
    <3>1. /\ r \in wire \cap DeleteReqs /\ wire' = wire \ {r}
          /\ \A w \in StoreReqs : reply'[w] = reply[w]
          /\ UNCHANGED <<row, local, history>>
      BY <2>4 DEF DeleteShareFails, Reqs
    <3>2. CASE share' = share
      BY <1>0, <3>1, <3>2
    <3>3. CASE share' = [share EXCEPT ![name[r]] = Nil]
      BY <1>0, <3>1, <3>3
    <3> QED BY <2>4, <3>2, <3>3 DEF DeleteShareFails
  <2> QED BY <1>5, <2>1, <2>2, <2>3, <2>4 DEF Gateway
<1>6. ASSUME NEW n \in Names, Expire(n) PROVE Inv'
  BY <1>6, <1>0 DEF Expire
<1>7. ASSUME NEW r \in Reqs, DatabaseFails(r) PROVE Inv'
  BY <1>7, <1>0 DEF DatabaseFails
<1>8. ASSUME NEW r \in Reqs, Crash(r) PROVE Inv'
  BY <1>8, <1>0 DEF Crash
<1>9. CASE UNCHANGED vars
  BY <1>9 DEF vars
<1> QED BY <1>1, <1>2, <1>3, <1>4, <1>5, <1>6, <1>7, <1>8, <1>9 DEF Next

LEMMA InvariantHolds == Spec => []Inv
<1>1. Init => Inv
  BY ConstantsAssumption
     DEF Init, Inv, TypeOK, SplitsInOrder, FiledByName, MemoryIsOfCommits, GarbageIsMixed,
         HandlersInOrder, FoundIsPickedOrGone, StoredShareIsAccountedFor,
         DeleteIsFinal, Begun, Reqs, Pcs, Replies, Results
<1> QED BY <1>1, InvariantKept, PTL DEF Spec

-----------------------------------------------------------------------------
(* The type invariant holds in every reachable state.                      *)
THEOREM TypeInvariant == Spec => []TypeOK
<1>1. Inv => TypeOK
  BY DEF Inv
<1> QED BY <1>1, InvariantHolds, PTL

(* No row without a share_2 that was persisted first: create_secret writes *)
(* its halves in an order that no failure, lost call or late call defeats. *)
THEOREM RowsHaveTheirShares == Spec => []RowHasItsShareStored
<1>1. Inv => RowHasItsShareStored
  BY DEF Inv, SplitsInOrder, FiledByName, RowHasItsShareStored
<1> QED BY <1>1, InvariantHolds, PTL

(* What a read returns or the gateway injects was committed under the name *)
(* that was asked for, or is garbage that a second store of that name has  *)
(* caused at the gateway.                                                  *)
THEOREM ServedValuesAreExplained == Spec => []ServedValueIsExplained
<1>1. Inv => ServedValueIsExplained
  BY DEF Inv, TypeOK, MemoryIsOfCommits, GarbageIsMixed, ServedValueIsExplained, Reqs
<1> QED BY <1>1, InvariantHolds, PTL

(* A delete that answers 200 has removed the rows it saw, for good.        *)
THEOREM DeletesAreFinal == Spec => []DeleteIsFinal
<1>1. Inv => DeleteIsFinal
  BY DEF Inv
<1> QED BY <1>1, InvariantHolds, PTL

(* A committed pair is only ever broken by a store or a delete of its name *)
(* or by Redis itself.                                                     *)
THEOREM UndisturbedPairsAreWhole == Spec => []UndisturbedPairIsWhole
<1>1. Inv => UndisturbedPairIsWhole
  <2> SUFFICES ASSUME Inv, NEW n \in Names, row[n] # Nil
               PROVE  \/ share[n] = row[n]
                      \/ /\ share[n] = Nil
                         /\ \/ n \in lapsed
                            \/ \E d \in DeleteReqs : name[d] = n /\ pc[d] # "idle"
                      \/ \E w \in StoreReqs \ {row[n]} : name[w] = n /\ pc[w] # "idle"
    BY DEF UndisturbedPairIsWhole
  <2>1. row[n] \in stored /\ name[row[n]] = n
    BY DEF Inv, FiledByName, SplitsInOrder
  <2> QED BY <2>1 DEF Inv, StoredShareIsAccountedFor, Begun
<1> QED BY <1>1, InvariantHolds, PTL

-----------------------------------------------------------------------------
(* Refinement: each step is a step of the vault, or none.                  *)

Phases == [r \in Reqs |-> PhaseOf(pc[r])]
Saw    == [r \in Reqs |-> Seen(r)]

(* A step of one handler moves its phase and no other.                     *)
LEMMA PhaseMoves ==
    ASSUME TypeOK, NEW r \in Reqs, NEW label, Goto(r, label)
    PROVE  Phases' = [Phases EXCEPT ![r] = PhaseOf(label)]
BY DEF TypeOK, Goto, Phases

(* What the other requests have seen stays.                                *)
LEMMA SawMoves ==
    ASSUME TypeOK, NEW r \in Reqs, NEW v,
           IF r \in DeleteReqs
           THEN picked' = [picked EXCEPT ![r] = v] /\ UNCHANGED found
           ELSE found' = [found EXCEPT ![r] = v] /\ UNCHANGED picked
    PROVE  Saw' = [Saw EXCEPT ![r] = v]
BY DEF TypeOK, Saw, Seen

(* A handler that ends and touches no row fails, to its client.            *)
LEMMA EndFails ==
    ASSUME TypeOK, NEW r \in Reqs, NEW label \in {"done", "crashed"},
           pc[r] \notin {"done", "crashed"}, Goto(r, label),
           UNCHANGED <<row, name, Saw, got>>
    PROVE  Vault!Fail(r)
<1>1. Phases[r] # "closed" /\ PhaseOf(label) = "closed"
  BY DEF Phases, PhaseOf
<1> QED BY <1>1, PhaseMoves DEF Vault!Fail, Vault!Enter, Phases, Saw

(* A handler that goes on and touches no row does nothing, to its client.  *)
LEMMA MiddleStutters ==
    ASSUME TypeOK, NEW r \in Reqs, NEW label \in Pcs \ {"idle", "done", "crashed"},
           pc[r] \notin {"idle", "done", "crashed"}, Goto(r, label),
           UNCHANGED <<row, name, Saw, got>>
    PROVE  UNCHANGED Vault!vaultVars
<1>1. Phases[r] = PhaseOf(label)
  BY DEF Phases, PhaseOf
<1>2. Phases' = Phases
  BY <1>1, PhaseMoves DEF Phases
<1> QED BY <1>2 DEF Vault!vaultVars, Phases, Saw

(* A handler that begins and has not looked at the row begins, to its      *)
(* client.                                                                 *)
LEMMA CallBegins ==
    ASSUME TypeOK, NEW r \in Reqs, pc[r] = "idle", Goto(r, "calling"),
           UNCHANGED <<row, name, Saw, got>>
    PROVE  Vault!Begin(r)
<1>1. Phases[r] = "idle" /\ PhaseOf("calling") = "open"
  BY DEF Phases, PhaseOf
<1> QED BY <1>1, PhaseMoves DEF Vault!Begin, Vault!Enter, Phases, Saw

(* A reassembly returns what the handler saw, fails, or is garbled.        *)
LEMMA ReassemblyRefines ==
    ASSUME TypeOK, HandlersInOrder, FiledByName, SplitsInOrder,
           NEW r \in ReadReqs \cup InjectReqs, NEW failure,
           pc[r] = "share2", share[name[r]] # Nil, Reassemble(r, failure),
           UNCHANGED <<row, name, found, picked>>
    PROVE  Vault!Return(r) \/ Vault!Fail(r) \/ Vault!Garble(r)
<1> r \in Reqs /\ r \notin DeleteReqs
  BY ConstantsAssumption DEF Reqs
<1>1. Goto(r, "done") /\ UNCHANGED Saw
  BY DEF Reassemble, Finish, Saw, Seen
<1>2. Phases' = [Phases EXCEPT ![r] = "closed"] /\ Phases[r] = "open"
  BY <1>1, PhaseMoves DEF Phases, PhaseOf
<1>3. Saw[r] = found[r] /\ found[r] # Nil /\ got[r] = Nil
  BY DEF Saw, Seen, HandlersInOrder
<1>4. PICK value \in Recombined(found[r], share[name[r]]) :
          got' = [got EXCEPT ![r] = value]
  BY DEF Reassemble
<1>5. CASE value = found[r]
  BY <1>1, <1>2, <1>3, <1>4, <1>5 DEF Vault!Return, Vault!Enter, Phases, Saw
<1>6. CASE value = Nil
  <2>1. got' = got
    BY <1>3, <1>4, <1>6 DEF TypeOK
  <2> QED BY <1>1, <2>1, EndFails
<1>7. CASE value = Garbage /\ found[r] # share[name[r]]
  <2> DEFINE w == share[name[r]]
  <2>1. w \in StoreReqs \ {Saw[r]} /\ name[w] = name[r] /\ Begun(w)
    BY <1>3, <1>7 DEF FiledByName, SplitsInOrder, TypeOK
  <2>2. w \in Reqs /\ Phases[w] # "idle"
    BY <2>1 DEF Phases, PhaseOf, Begun, Reqs
  <2> QED BY <1>1, <1>2, <1>3, <1>4, <1>7, <2>1, <2>2
          DEF Vault!Garble, Vault!Enter, Phases, Saw
<1> QED BY <1>4, <1>5, <1>6, <1>7 DEF Recombined

(* Every step of the system is a step of the vault, or none.               *)
LEMMA StepsRefine ==
    ASSUME Inv, [Next]_vars
    PROVE  [Vault!Next]_(Vault!vaultVars)
<1> USE DEF Inv
<1>1. ASSUME NEW r \in StoreReqs, Store(r) PROVE [Vault!Next]_(Vault!vaultVars)
  <2> r \in Reqs BY DEF Reqs
  <2>1. ASSUME StoreBegin(r) PROVE Vault!Begin(r)
    BY <2>1, CallBegins, ConstantsAssumption DEF StoreBegin, stores, Saw, Seen
  <2>2. ASSUME StoreAcknowledged(r) PROVE UNCHANGED Vault!vaultVars
    BY <2>2, MiddleStutters DEF StoreAcknowledged, Finish, CallLost, stores, Saw, Seen, Pcs
  <2>3. ASSUME StoreRefused(r) PROVE Vault!Fail(r)
    BY <2>3, EndFails DEF StoreRefused, Finish, CallLost, stores, Saw, Seen
  <2>4. ASSUME StoreCallLost(r) PROVE Vault!Fail(r)
    BY <2>4, EndFails DEF StoreCallLost, Finish, CallLost, stores, Saw, Seen
  <2>5. ASSUME StoreCommit(r) PROVE Vault!Put(r)
    <3>1. Goto(r, "done") /\ UNCHANGED Saw
      BY <2>5 DEF StoreCommit, FinishCommitted, Finish, Saw, Seen
    <3>2. Phases' = [Phases EXCEPT ![r] = "closed"] /\ Phases[r] = "open"
      BY <2>5, <3>1, PhaseMoves DEF StoreCommit, Phases, PhaseOf
    <3> QED BY <2>5, <3>1, <3>2 DEF StoreCommit, Vault!Put, Vault!Enter, Phases, Saw
  <2>6. ASSUME StoreDuplicate(r) PROVE Vault!Fail(r)
    BY <2>6, EndFails DEF StoreDuplicate, Finish, CallLost, stores, Saw, Seen
  <2> QED BY <1>1, <2>1, <2>2, <2>3, <2>4, <2>5, <2>6
          DEF Store, Vault!Next, Vault!Clients, Reqs
<1>2. ASSUME NEW r \in DeleteReqs, Delete(r) PROVE [Vault!Next]_(Vault!vaultVars)
  <2> r \in Reqs BY DEF Reqs
  <2>1. ASSUME DeleteBegin(r) PROVE Vault!Begin(r)
    BY <2>1, CallBegins, ConstantsAssumption DEF DeleteBegin, stores, Saw, Seen
  <2>2. ASSUME DeleteUnknown(r) PROVE Vault!Fail(r)
    BY <2>2, EndFails DEF DeleteUnknown, Finish, CallLost, stores, Saw, Seen
  <2>3. ASSUME DeleteAcknowledged(r) PROVE UNCHANGED Vault!vaultVars
    BY <2>3, MiddleStutters DEF DeleteAcknowledged, Finish, CallLost, stores, Saw, Seen, Pcs
  <2>4. ASSUME DeleteRefused(r) PROVE Vault!Fail(r)
    BY <2>4, EndFails DEF DeleteRefused, Finish, CallLost, stores, Saw, Seen
  <2>5. ASSUME DeleteCallLost(r) PROVE UNCHANGED Vault!vaultVars
    BY <2>5, MiddleStutters DEF DeleteCallLost, Finish, CallLost, stores, Saw, Seen, Pcs
  <2>6. ASSUME DeleteSelect(r) PROVE Vault!See(r)
    <3>1. Saw' = [Saw EXCEPT ![r] = row[name[r]]]
      BY <2>6, SawMoves DEF DeleteSelect
    <3>2. Phases' = [Phases EXCEPT ![r] = "open"] /\ Phases[r] = "open"
      BY <2>6, PhaseMoves DEF DeleteSelect, Phases, PhaseOf
    <3> QED BY <2>6, <3>1, <3>2
            DEF DeleteSelect, stores, Vault!See, Vault!Enter, Phases, Saw
  <2>7. ASSUME DeleteVanished(r) PROVE Vault!Fail(r)
    BY <2>7, EndFails DEF DeleteVanished, Finish, CallLost, stores, Saw, Seen
  <2>8. ASSUME DeleteErase(r) PROVE Vault!Remove(r) \/ Vault!Fail(r)
    <3>1. Goto(r, "done") /\ UNCHANGED Saw
      BY <2>8 DEF DeleteErase, FinishCommitted, Finish, Saw, Seen
    <3>2. Phases' = [Phases EXCEPT ![r] = "closed"] /\ Phases[r] = "open"
      BY <2>8, <3>1, PhaseMoves DEF DeleteErase, Phases, PhaseOf
    <3>3. CASE row[name[r]] = picked[r]
      <4>1. row[name[r]] # Nil /\ Saw[r] = row[name[r]]
        BY <2>8, <3>3 DEF DeleteErase, HandlersInOrder, Saw, Seen
      <4>2. row' = [row EXCEPT ![name[r]] = Nil]
        BY <2>8, <3>3 DEF DeleteErase, TypeOK
      <4> QED BY <2>8, <3>1, <3>2, <4>1, <4>2
              DEF DeleteErase, Vault!Remove, Vault!Enter, Phases, Saw
    <3>4. CASE row[name[r]] # picked[r]
      <4>1. row' = row
        BY <2>8, <3>4 DEF DeleteErase, TypeOK
      <4> QED BY <2>8, <3>1, <4>1, EndFails DEF DeleteErase
    <3> QED BY <3>3, <3>4
  <2> QED BY <1>2, <2>1, <2>2, <2>3, <2>4, <2>5, <2>6, <2>7, <2>8
          DEF Delete, Vault!Next, Vault!Clients, Reqs
<1>3. ASSUME NEW r \in ReadReqs, Read(r) PROVE [Vault!Next]_(Vault!vaultVars)
  <2> r \in Reqs BY DEF Reqs
  <2>1. ASSUME ReadShare1(r) PROVE Vault!See(r)
    <3>1. Saw' = [Saw EXCEPT ![r] = row[name[r]]]
      BY <2>1, SawMoves, ConstantsAssumption DEF ReadShare1
    <3>2. Phases' = [Phases EXCEPT ![r] = "open"] /\ Phases[r] = "idle"
      BY <2>1, PhaseMoves DEF ReadShare1, Phases, PhaseOf
    <3> QED BY <2>1, <3>1, <3>2
            DEF ReadShare1, stores, Vault!See, Vault!Enter, Phases, Saw
  <2>2. ASSUME ReadUnknown(r) PROVE Vault!Fail(r)
    BY <2>2, EndFails DEF ReadUnknown, Finish, CallLost, stores, Saw, Seen
  <2>3. ASSUME ReadShare2(r)
        PROVE  Vault!Return(r) \/ Vault!Fail(r) \/ Vault!Garble(r)
    BY <2>3, ReassemblyRefines DEF ReadShare2, stores
  <2>4. ASSUME ReadMissing(r) PROVE Vault!Fail(r)
    BY <2>4, EndFails DEF ReadMissing, Finish, CallLost, stores, Saw, Seen
  <2>5. ASSUME ReadFails(r) PROVE Vault!Fail(r)
    BY <2>5, EndFails DEF ReadFails, Finish, CallLost, stores, Saw, Seen
  <2> QED BY <1>3, <2>1, <2>2, <2>3, <2>4, <2>5
          DEF Read, Vault!Next, Vault!Clients, Reqs
<1>4. ASSUME NEW r \in InjectReqs, Inject(r) PROVE [Vault!Next]_(Vault!vaultVars)
  <2> r \in Reqs BY DEF Reqs
  <2>1. ASSUME InjectShare1(r) PROVE Vault!See(r)
    <3>1. Saw' = [Saw EXCEPT ![r] = row[name[r]]]
      BY <2>1, SawMoves, ConstantsAssumption DEF InjectShare1
    <3>2. Phases' = [Phases EXCEPT ![r] = "open"] /\ Phases[r] = "idle"
      BY <2>1, PhaseMoves DEF InjectShare1, Phases, PhaseOf
    <3> QED BY <2>1, <3>1, <3>2
            DEF InjectShare1, stores, Vault!See, Vault!Enter, Phases, Saw
  <2>2. ASSUME InjectShare2(r)
        PROVE  Vault!Return(r) \/ Vault!Fail(r) \/ Vault!Garble(r)
    BY <2>2, ReassemblyRefines DEF InjectShare2, stores
  <2>3. ASSUME InjectFails(r) PROVE Vault!Fail(r)
    BY <2>3, EndFails DEF InjectFails, Finish, CallLost, stores, Saw, Seen
  <2> QED BY <1>4, <2>1, <2>2, <2>3
          DEF Inject, Vault!Next, Vault!Clients, Reqs
<1>5. ASSUME NEW r \in wire, Gateway(r) PROVE UNCHANGED Vault!vaultVars
  BY <1>5 DEF Gateway, ReceiveShare, ReceiveShareFails, DeleteShare,
      DeleteShareFails, local, Vault!vaultVars, Seen
<1>6. ASSUME NEW n \in Names, Expire(n) PROVE UNCHANGED Vault!vaultVars
  BY <1>6 DEF Expire, local, Vault!vaultVars, Seen
<1>7. ASSUME NEW r \in Reqs, DatabaseFails(r) PROVE Vault!Fail(r)
  BY <1>7, EndFails DEF DatabaseFails, Finish, stores, Saw, Seen
<1>8. ASSUME NEW r \in Reqs, Crash(r) PROVE Vault!Fail(r)
  BY <1>8, EndFails DEF Crash, stores, Saw, Seen
<1>9. CASE UNCHANGED vars
  BY <1>9 DEF vars, stores, local, Vault!vaultVars, Seen
<1> QED BY <1>1, <1>2, <1>3, <1>4, <1>5, <1>6, <1>7, <1>8, <1>9
        DEF Next, Vault!Next, Vault!Clients, Reqs

(* The vault with its two stores and all its failures is a register per    *)
(* name, as far as its clients can tell.                                   *)
THEOREM Refinement == Spec => ImplementsVault
<1>1. Init => Vault!Init
  BY ConstantsAssumption
     DEF Init, Vault!Init, Vault!Clients, Reqs, PhaseOf, Seen
<1>2. Inv /\ [Next]_vars => [Vault!Next]_(Vault!vaultVars)
  BY StepsRefine
<1> QED BY <1>1, <1>2, InvariantHolds, PTL DEF Spec, ImplementsVault, Vault!Spec
=============================================================================
