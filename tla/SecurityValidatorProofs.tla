----------------------- MODULE SecurityValidatorProofs -----------------------
(* Proofs about SecurityValidator, for any requests, tokens, limits and    *)
(* lifetimes, and without a bound on the clock.                            *)
EXTENDS SecurityValidator, FiniteSetTheorems, TLAPS

-----------------------------------------------------------------------------
(* The inductive invariant.                                                *)

(* What the limiter forgets is out of its window.                          *)
GrantsAreKept ==
    /\ IsFiniteSet(granted)
    /\ attempts \subseteq granted
    /\ \A x \in granted : x.at <= now /\ (now < x.at + Window => x \in attempts)

(* What the detector forgets is out of its memory, or was evicted.         *)
Remembered(a) ==
    \/ a.token \in evicted
    \/ a.at + MaxAge < now
    \/ \E e \in usedTokens : e.token = a.token /\ a.at <= e.at

AdmittedAreKept == \A a \in admitted : a.at <= now /\ Remembered(a)

-----------------------------------------------------------------------------
(* Type correctness: every check leaves the tables and the requests in     *)
(* their types; a malformed token enters neither table.                    *)
WellFormed == \A r \in Requests : pc[r] \notin {"limit1", "done"} => token[r] # Malformed

LEMMA TypeStep == TypeOK /\ WellFormed /\ [Next]_vars => TypeOK' /\ WellFormed'
<1> SUFFICES ASSUME TypeOK, WellFormed, [Next]_vars PROVE TypeOK' /\ WellFormed'
  OBVIOUS
<1> USE ValidatorAssumption DEF TypeOK, WellFormed, Places, requestVars
<1>1. ASSUME NEW r \in Requests, RejectFormat(r) \/ Verify(r) \/ CheckClaims(r)
      PROVE  TypeOK' /\ WellFormed'
  BY <1>1 DEF RejectFormat, Verify, CheckClaims, Goto, End
<1>2. ASSUME NEW r \in Requests, NEW round \in Rounds, NEW next \in Places,
             IsRateLimited(r, round, next), token[r] # Malformed
      PROVE  TypeOK' /\ WellFormed'
  <2>1. [request |-> r, round |-> round, client |-> client[r], at |-> now] \in Grants
    BY DEF Grants
  <2>2. attempts' \subseteq Grants /\ granted' \subseteq Grants
    BY <1>2, <2>1 DEF IsRateLimited, Recent
  <2>3. pc' \in [Requests -> Places] /\ outcome' \in [Requests -> {"none", "malformed",
            "limited", "replayed", "forged", "untimely", "unfit", "claims"}]
    BY <1>2 DEF IsRateLimited, Goto, End
  <2>4. WellFormed'
    BY <1>2 DEF IsRateLimited, Goto, End
  <2>5. QED
    BY <1>2, <2>2, <2>3, <2>4 DEF IsRateLimited
<1>3. ASSUME NEW r \in Requests, NEW round \in Rounds, NEW next \in Places,
             IsReplay(r, round, next), token[r] # Malformed
      PROVE  TypeOK' /\ WellFormed'
  <2>1. PICK kept \in Cleaned :
           /\ evicted' = evicted \cup {e.token : e \in Young \ kept}
           /\ IF \E e \in kept : e.token = token[r]
              THEN /\ usedTokens' = kept
                   /\ End(r, "replayed")
                   /\ UNCHANGED admitted
              ELSE /\ usedTokens' = kept \cup {[token |-> token[r], at |-> now]}
                   /\ admitted' = admitted \cup {[request |-> r, round |-> round,
                                                  token |-> token[r], at |-> now]}
                   /\ Goto(r, next)
    BY <1>3 DEF IsReplay
  <2>2. kept \subseteq usedTokens /\ Young \subseteq usedTokens
    BY DEF Cleaned, Young
  <2>3. evicted' \subseteq Tokens
    BY <2>1, <2>2 DEF Entries
  <2>4. [token |-> token[r], at |-> now] \in Entries
    BY <1>3 DEF Entries
  <2>5. usedTokens' \subseteq Entries
    BY <2>1, <2>2, <2>4
  <2>6. admitted' \subseteq [request : Requests, round : Rounds, token : Tokens, at : Nat]
    BY <1>3, <2>1
  <2>7. pc' \in [Requests -> Places] /\ outcome' \in [Requests -> {"none", "malformed",
            "limited", "replayed", "forged", "untimely", "unfit", "claims"}]
    BY <2>1 DEF Goto, End
  <2>8. WellFormed'
    BY <1>3, <2>1 DEF IsReplay, Goto, End
  <2>9. QED
    BY <1>3, <2>3, <2>5, <2>6, <2>7, <2>8 DEF IsReplay
<1>4. CASE Tick \/ UNCHANGED vars
  BY <1>4 DEF Tick, vars
<1>5. QED
  <2>1. ASSUME NEW r \in Requests, Limit1(r) \/ Limit2(r) PROVE TypeOK' /\ WellFormed'
    BY <2>1, <1>2 DEF Limit1, Limit2, Rounds
  <2>2. ASSUME NEW r \in Requests, Replay1(r) \/ Replay2(r) PROVE TypeOK' /\ WellFormed'
    BY <2>2, <1>3 DEF Replay1, Replay2, Rounds
  <2>3. QED
    BY <1>1, <1>4, <2>1, <2>2 DEF Next

THEOREM TypeInvariant == Spec => []TypeOK
<1>1. Init => TypeOK /\ WellFormed
  BY ValidatorAssumption DEF Init, TypeOK, WellFormed, Places
<1>2. QED
  BY <1>1, TypeStep, PTL DEF Spec

-----------------------------------------------------------------------------
(* The rate limiter.                                                       *)

(* One more element adds at most one to the size of a set.                 *)
LEMMA AddOne ==
    ASSUME NEW S, NEW x, IsFiniteSet(S)
    PROVE  /\ Cardinality(S \cup {x}) \in Nat
           /\ Cardinality(S \cup {x}) <= Cardinality(S) + 1
<1>1. Cardinality(S) \in Nat
  BY FS_CardinalityType
<1>2. Cardinality(S \cup {x}) = IF x \in S THEN Cardinality(S) ELSE Cardinality(S) + 1
  BY FS_AddElement
<1>3. QED
  BY <1>1, <1>2

(* The attempts in the window that ends with x.                            *)
InWindow(x) == {y \in granted : /\ y.client = x.client
                                /\ y.at <= x.at /\ x.at < y.at + Window}

LEMMA GrantsStep ==
    TypeOK /\ GrantsAreKept /\ AttemptsAreRationed /\ [Next]_vars
        => GrantsAreKept' /\ AttemptsAreRationed'
<1> SUFFICES ASSUME TypeOK, GrantsAreKept, AttemptsAreRationed, [Next]_vars
             PROVE  GrantsAreKept' /\ AttemptsAreRationed'
  OBVIOUS
<1> USE ValidatorAssumption
<1>1. ASSUME granted' = granted, attempts' = attempts, now' \in Nat, now <= now'
      PROVE  GrantsAreKept' /\ AttemptsAreRationed'
  <2>1. \A x \in granted : x.at \in Nat
    BY DEF TypeOK, Grants
  <2>2. GrantsAreKept'
    BY <1>1, <2>1 DEF GrantsAreKept, TypeOK
  <2>3. QED
    BY <1>1, <2>2 DEF AttemptsAreRationed
<1>2. ASSUME NEW r \in Requests, NEW round \in Rounds, NEW next, IsRateLimited(r, round, next)
      PROVE  GrantsAreKept' /\ AttemptsAreRationed'
  <2> DEFINE i == client[r]
             entry == [request |-> r, round |-> round, client |-> i, at |-> now]
             others == {x \in attempts : x.client # i}
  <2>1. /\ now' = now /\ now \in Nat /\ entry \in Grants
        /\ entry.client = i /\ entry.at = now
    BY <1>2 DEF IsRateLimited, TypeOK, Grants
  <2>2. Recent(i) = {x \in granted : x.client = i /\ now < x.at + Window}
    BY DEF Recent, GrantsAreKept
  <2>3. CASE Cardinality(Recent(i)) >= MaxAttempts
    <3>1. granted' = granted /\ attempts' = others \cup Recent(i)
      BY <1>2, <2>3 DEF IsRateLimited
    <3>2. GrantsAreKept'
      BY <2>1, <2>2, <3>1 DEF GrantsAreKept
    <3>3. QED
      BY <3>1, <3>2 DEF AttemptsAreRationed
  <2>4. CASE ~(Cardinality(Recent(i)) >= MaxAttempts)
    <3>1. /\ granted' = granted \cup {entry}
          /\ attempts' = others \cup Recent(i) \cup {entry}
      BY <1>2, <2>4 DEF IsRateLimited
    <3>2. IsFiniteSet(granted')
      BY <3>1, FS_AddElement DEF GrantsAreKept
    <3>3. GrantsAreKept'
      BY <2>1, <2>2, <3>1, <3>2 DEF GrantsAreKept
    <3>4. ASSUME NEW x \in granted'
          PROVE  Cardinality(InWindow(x)') <= MaxAttempts
      <4>0. x.at \in Nat /\ x.at <= now
        BY <2>1, <3>1 DEF GrantsAreKept, TypeOK, Grants
      <4>1. CASE x.client = i /\ x.at = now
        <5>1. InWindow(x)' = Recent(i) \cup {entry}
          BY <2>1, <2>2, <3>1, <4>1 DEF InWindow, GrantsAreKept, TypeOK, Grants
        <5>2. IsFiniteSet(Recent(i))
          BY <2>2, FS_Subset DEF GrantsAreKept
        <5>3. Cardinality(Recent(i)) \in Nat
          BY <5>2, FS_CardinalityType
        <5>4. /\ Cardinality(Recent(i) \cup {entry}) \in Nat
              /\ Cardinality(Recent(i) \cup {entry}) <= Cardinality(Recent(i)) + 1
          BY <5>2, AddOne
        <5>5. QED
          BY <2>4, <5>1, <5>3, <5>4
      <4>2. CASE ~(x.client = i /\ x.at = now)
        <5>1. x \in granted
          BY <2>1, <3>1, <4>2
        <5>2. InWindow(x)' = InWindow(x)
          BY <2>1, <3>1, <4>0, <4>2 DEF InWindow
        <5>3. QED
          BY <5>1, <5>2 DEF InWindow, AttemptsAreRationed
      <4>3. QED
        BY <4>1, <4>2
    <3>5. QED
      BY <3>3, <3>4 DEF InWindow, AttemptsAreRationed
  <2>5. QED
    BY <2>3, <2>4
<1>3. ASSUME NEW r \in Requests,
             RejectFormat(r) \/ Replay1(r) \/ Replay2(r) \/ Verify(r) \/ CheckClaims(r)
      PROVE  granted' = granted /\ attempts' = attempts /\ now' = now
  BY <1>3 DEF RejectFormat, Replay1, Replay2, IsReplay, Verify, CheckClaims
<1>4. CASE Tick
  BY <1>1, <1>4 DEF Tick, TypeOK
<1>5. CASE UNCHANGED vars
  BY <1>1, <1>5 DEF vars, TypeOK
<1>6. QED
  <2>1. now \in Nat
    BY DEF TypeOK
  <2>2. ASSUME NEW r \in Requests, Limit1(r) \/ Limit2(r)
        PROVE  GrantsAreKept' /\ AttemptsAreRationed'
    BY <2>2, <1>2 DEF Limit1, Limit2, Rounds
  <2>3. QED
    BY <1>1, <1>3, <1>4, <1>5, <2>1, <2>2 DEF Next

(* No identifier is let through more often, in any window that ends with   *)
(* an attempt, than the limit: requests that race for the last attempt are *)
(* counted under the lock.                                                 *)
THEOREM AttemptsStayRationed == Spec => []AttemptsAreRationed
<1>1. Init => GrantsAreKept /\ AttemptsAreRationed
  BY FS_EmptySet DEF Init, GrantsAreKept, AttemptsAreRationed
<1>2. QED
  BY <1>1, GrantsStep, TypeInvariant, PTL DEF Spec

-----------------------------------------------------------------------------
(* The replay detector.                                                    *)

LEMMA AdmittedStep ==
    TypeOK /\ AdmittedAreKept /\ TokensPassOnce /\ [Next]_vars
        => AdmittedAreKept' /\ TokensPassOnce'
<1> SUFFICES ASSUME TypeOK, AdmittedAreKept, TokensPassOnce, [Next]_vars
             PROVE  AdmittedAreKept' /\ TokensPassOnce'
  OBVIOUS
<1> USE ValidatorAssumption
<1>0. /\ \A a \in admitted : a.at \in Nat
      /\ \A e \in usedTokens : e.at \in Nat
      /\ now \in Nat
  BY DEF TypeOK, Entries
<1>1. ASSUME UNCHANGED <<usedTokens, admitted, evicted>>, now' \in Nat, now <= now'
      PROVE  AdmittedAreKept' /\ TokensPassOnce'
  <2>1. AdmittedAreKept'
    BY <1>0, <1>1 DEF AdmittedAreKept, Remembered
  <2>2. QED
    BY <1>1, <2>1 DEF TokensPassOnce
<1>2. ASSUME NEW r \in Requests, NEW round \in Rounds, NEW next, IsReplay(r, round, next)
      PROVE  AdmittedAreKept' /\ TokensPassOnce'
  <2> DEFINE entry == [token |-> token[r], at |-> now]
             admission == [request |-> r, round |-> round, token |-> token[r], at |-> now]
  <2>1. PICK kept \in Cleaned :
           /\ evicted' = evicted \cup {e.token : e \in Young \ kept}
           /\ IF \E e \in kept : e.token = token[r]
              THEN usedTokens' = kept /\ UNCHANGED admitted
              ELSE /\ usedTokens' = kept \cup {entry}
                   /\ admitted' = admitted \cup {admission}
    BY <1>2 DEF IsReplay
  <2>2. now' = now /\ token' = token
    BY <1>2 DEF IsReplay
  <2>3. ASSUME NEW a \in admitted
        PROVE  \/ a.token \in evicted'
               \/ a.at + MaxAge < now
               \/ \E e \in kept : e.token = a.token /\ a.at <= e.at
    <3>1. CASE a.token \in evicted \/ a.at + MaxAge < now
      BY <2>1, <3>1
    <3>2. CASE \E e \in usedTokens : e.token = a.token /\ a.at <= e.at
      <4>1. PICK e \in usedTokens : e.token = a.token /\ a.at <= e.at
        BY <3>2
      <4>2. CASE e \in kept
        BY <4>1, <4>2
      <4>3. CASE e \in Young \ kept
        BY <2>1, <4>1, <4>3
      <4>4. CASE e \notin Young
        BY <1>0, <4>1, <4>4 DEF Young
      <4>5. QED
        BY <4>2, <4>3, <4>4
    <3>3. QED
      BY <3>1, <3>2 DEF AdmittedAreKept, Remembered
  <2>4. evicted \subseteq evicted' /\ kept \subseteq usedTokens'
    BY <2>1
  <2>5. CASE admitted' = admitted
    <3>1. AdmittedAreKept'
      BY <2>2, <2>3, <2>4, <2>5 DEF AdmittedAreKept, Remembered
    <3>2. QED
      BY <2>4, <2>5, <3>1 DEF TokensPassOnce
  <2>6. CASE ~\E e \in kept : e.token = token[r]
    <3>1. usedTokens' = kept \cup {entry} /\ admitted' = admitted \cup {admission}
      BY <2>1, <2>6
    <3>2. AdmittedAreKept'
      <4>1. ASSUME NEW a \in admitted PROVE a.at <= now' /\ Remembered(a)'
        BY <2>2, <2>3, <2>4, <4>1 DEF AdmittedAreKept, Remembered
      <4>2. ASSUME NEW a, a = admission PROVE a.at <= now' /\ Remembered(a)'
        <5>1. entry \in usedTokens' /\ entry.token = token[r] /\ entry.at = now
          BY <3>1
        <5>2. a.token = token[r] /\ a.at = now
          BY <4>2
        <5>3. QED
          BY <1>0, <2>2, <5>1, <5>2 DEF Remembered
      <4>3. ASSUME NEW a \in admitted' PROVE a.at <= now' /\ Remembered(a)'
        BY <3>1, <4>1, <4>2
      <4>4. QED
        BY <4>3 DEF AdmittedAreKept
    <3>3. ASSUME NEW a \in admitted, a.token = token[r], now <= a.at + MaxAge
          PROVE  a.token \in evicted'
      BY <1>0, <2>3, <2>6, <3>3
    <3>4. ASSUME NEW a \in admitted, NEW b \in admitted,
                 a.token = b.token, a.at <= b.at, b.at <= a.at + MaxAge
          PROVE  a = b \/ a.token \in evicted'
      BY <2>4, <3>4 DEF TokensPassOnce
    <3>5. ASSUME NEW b \in admitted, admission.token = b.token, now <= b.at
          PROVE  b.token \in evicted'
      BY <1>0, <3>3, <3>5
    <3>6. QED
      BY <1>0, <3>1, <3>2, <3>3, <3>4, <3>5 DEF TokensPassOnce
  <2>7. QED
    BY <2>1, <2>5, <2>6
<1>3. ASSUME NEW r \in Requests,
             RejectFormat(r) \/ Limit1(r) \/ Limit2(r) \/ Verify(r) \/ CheckClaims(r)
      PROVE  UNCHANGED <<usedTokens, admitted, evicted>> /\ now' = now
  BY <1>3 DEF RejectFormat, Limit1, Limit2, IsRateLimited, Verify, CheckClaims
<1>4. CASE Tick
  BY <1>0, <1>1, <1>4 DEF Tick
<1>5. CASE UNCHANGED vars
  BY <1>0, <1>1, <1>5 DEF vars
<1>6. QED
  <2>1. ASSUME NEW r \in Requests, Replay1(r) \/ Replay2(r)
        PROVE  AdmittedAreKept' /\ TokensPassOnce'
    BY <2>1, <1>2 DEF Replay1, Replay2, Rounds
  <2>2. QED
    BY <1>0, <1>1, <1>3, <1>4, <1>5, <2>1 DEF Next

(* A token passes the detector once within its memory, however the two     *)
(* checks of a request and those of others interleave, unless the table    *)
(* was too small.                                                          *)
THEOREM TokensOnlyPassOnce == Spec => []TokensPassOnce
<1>1. Init => AdmittedAreKept /\ TokensPassOnce
  BY DEF Init, AdmittedAreKept, TokensPassOnce
<1>2. QED
  BY <1>1, AdmittedStep, TypeInvariant, PTL DEF Spec
-----------------------------------------------------------------------------
(* The table of the detector.                                              *)

LEMMA TableStep ==
    TypeOK /\ IsFiniteSet(usedTokens) /\ TableIsBounded /\ [Next]_vars
        => IsFiniteSet(usedTokens)' /\ TableIsBounded'
<1> SUFFICES ASSUME TypeOK, IsFiniteSet(usedTokens), TableIsBounded, [Next]_vars
             PROVE  IsFiniteSet(usedTokens') /\ TableIsBounded'
  OBVIOUS
<1>1. CASE usedTokens' = usedTokens
  BY <1>1 DEF TableIsBounded
<1>2. ASSUME NEW r \in Requests, NEW round, NEW next, IsReplay(r, round, next)
      PROVE  IsFiniteSet(usedTokens') /\ TableIsBounded'
  <2> DEFINE entry == [token |-> token[r], at |-> now]
  <2>1. PICK kept \in Cleaned :
           IF \E e \in kept : e.token = token[r] THEN usedTokens' = kept
                                                 ELSE usedTokens' = kept \cup {entry}
    BY <1>2 DEF IsReplay
  <2>2. kept \subseteq usedTokens /\ Young \subseteq usedTokens
    BY DEF Cleaned, Young
  <2>3. /\ IsFiniteSet(kept) /\ Cardinality(kept) \in Nat
        /\ IsFiniteSet(Young) /\ Cardinality(Young) \in Nat
    BY <2>2, FS_Subset, FS_CardinalityType
  <2>4. MaxEntries \in Nat /\ Cardinality(kept) <= MaxEntries
    BY <2>3, ValidatorAssumption DEF ValidatorAssumption, Cleaned
  <2>5. \A d, e \in kept : d.token = e.token => d = e
    BY <2>2 DEF TableIsBounded
  <2>6. CASE usedTokens' = kept
    BY <2>3, <2>4, <2>5, <2>6 DEF TableIsBounded
  <2>7. CASE ~\E e \in kept : e.token = token[r]
    <3>1. usedTokens' = kept \cup {entry} /\ entry.token = token[r]
      BY <2>1, <2>7
    <3> HIDE DEF entry
    <3>2. IsFiniteSet(usedTokens') /\ Cardinality(usedTokens') <= MaxEntries + 1
      <4>1. IsFiniteSet(usedTokens')
        BY <2>3, <3>1, FS_AddElement
      <4>2. Cardinality(usedTokens') \in Nat /\ Cardinality(usedTokens') <= Cardinality(kept) + 1
        BY <2>3, <3>1, AddOne
      <4>3. QED
        BY <2>3, <2>4, <4>1, <4>2
    <3>3. \A d, e \in usedTokens' : d.token = e.token => d = e
      BY <2>5, <2>7, <3>1
    <3>4. QED
      BY <3>2, <3>3 DEF TableIsBounded
  <2>8. QED
    BY <2>1, <2>6, <2>7
<1>3. QED
  <2>1. ASSUME NEW r \in Requests,
               RejectFormat(r) \/ Limit1(r) \/ Limit2(r) \/ Verify(r) \/ CheckClaims(r)
        PROVE  usedTokens' = usedTokens
    BY <2>1 DEF RejectFormat, Limit1, Limit2, IsRateLimited, Verify, CheckClaims
  <2>2. ASSUME NEW r \in Requests, Replay1(r) \/ Replay2(r)
        PROVE  IsFiniteSet(usedTokens') /\ TableIsBounded'
    BY <1>2, <2>2 DEF Replay1, Replay2
  <2>3. CASE Tick \/ UNCHANGED vars
    BY <1>1, <2>3 DEF Tick, vars
  <2>4. QED
    BY <1>1, <2>1, <2>2, <2>3 DEF Next

(* The table never exceeds its size by more than one entry, and holds one  *)
(* entry for a token, whatever the checks that race for it.                *)
THEOREM TableStaysBounded == Spec => []TableIsBounded
<1>1. Init => IsFiniteSet(usedTokens) /\ TableIsBounded
  BY FS_EmptySet, ValidatorAssumption DEF ValidatorAssumption, Init, TableIsBounded
<1>2. QED
  BY <1>1, TableStep, TypeInvariant, PTL DEF Spec
=============================================================================
