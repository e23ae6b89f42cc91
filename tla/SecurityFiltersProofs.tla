------------------------ MODULE SecurityFiltersProofs ------------------------
(* Proofs about the rate limiter of SecurityFilters, for any requests,     *)
(* clients, limits, windows and bursts.  What the limiter remembers of a   *)
(* client is exactly what it let through for it within the window.         *)
EXTENDS SecurityFilters, FiniteSetTheorems, TLAPS

(* What is forgotten is out of the window.                                 *)
Kept ==
    /\ IsFiniteSet(admitted)
    /\ \A c \in Addresses : \A e \in clients[c] : e \in admitted /\ e.client = c
    /\ \A e \in admitted : now <= e.at + Window => e \in clients[e.client]

Unpaid(c) == {e \in InWindow(c) : ~e.paid}
UnpaidAreRationed == \A c \in Addresses : Cardinality(Unpaid(c)) <= Limit

RefillsArePast == \A c \in Addresses : lastRefill[c] <= now

(* Of the tokens that c has paid with since time a and those it has left,  *)
(* all that is above the burst has come back since a, at the rate of one   *)
(* burst a minute; a second more, since the first refill after a may count *)
(* the time from up to a second before it.  (Multiplied out by Minute.)    *)
PaidSince(c, a) == {e \in admitted : e.client = c /\ e.paid /\ a <= e.at}

TokensComeBack ==
    \A c \in Addresses, a \in Nat :
        PaidSince(c, a) # {} =>
            Minute * (Cardinality(PaidSince(c, a)) + burstTokens[c]) + a * Burst
                <= Minute * Burst + (lastRefill[c] + Second) * Burst

Inv == TypeOK /\ RefillsArePast /\ Kept /\ UnpaidAreRationed /\ TokensComeBack

-----------------------------------------------------------------------------
(* Tokens.                                                                 *)

LEMMA QuotientIsNatural ==
    ASSUME NEW n \in Nat, NEW m \in Nat \ {0}
    PROVE  n \div m \in Nat
  OBVIOUS

LEMMA ProductIsNatural ==
    ASSUME NEW n \in Nat, NEW m \in Nat
    PROVE  n * m \in Nat
  OBVIOUS

(* Division rounds down.                                                   *)
LEMMA DivisionBelow ==
    ASSUME NEW n \in Nat, NEW m \in Nat \ {0}
    PROVE  m * (n \div m) <= n
  OBVIOUS

LEMMA DivisionAbove ==
    ASSUME NEW n \in Nat, NEW m \in Nat \ {0}, NEW k \in Nat, m * k <= n
    PROVE  k <= n \div m
  OBVIOUS

LEMMA Distributes ==
    ASSUME NEW k \in Nat, NEW m \in Nat, NEW n \in Nat
    PROVE  (m + n) * k = m * k + n * k /\ k * (m + n) = k * m + k * n
  OBVIOUS

LEMMA ProductGrows ==
    ASSUME NEW k \in Nat, NEW m \in Nat, NEW n \in Nat, m <= n
    PROVE  m * k <= n * k /\ k * m <= k * n
  OBVIOUS

LEMMA SmallerOfBoth ==
    ASSUME NEW m \in Nat, NEW n \in Nat
    PROVE  Smaller(m, n) \in 0 .. m /\ Smaller(m, n) <= n
  BY DEF Smaller

LEMMA RefillTypes ==
    ASSUME TypeOK, RefillsArePast, NEW c \in Addresses
    PROVE  /\ Refilled(c) \in 0 .. Burst
           /\ RefillTime(c) \in Nat /\ RefillTime(c) <= now
  <1> USE FilterAssumption DEF FilterAssumption
  <1>1. /\ now \in Nat /\ lastRefill[c] \in Nat /\ lastRefill[c] <= now
        /\ burstTokens[c] \in 0 .. Burst
    BY DEF TypeOK, RefillsArePast
  <1>2. Since(c) \in Nat
    BY <1>1 DEF Since
  <1>3. RefillTime(c) \in Nat /\ RefillTime(c) <= now
    BY <1>1 DEF RefillTime
  <1>4. (Since(c) * Burst) \div Minute \in Nat
    <2>1. Since(c) * Burst \in Nat
      BY <1>2, ProductIsNatural
    <2> QED
      BY <2>1, QuotientIsNatural
  <1>5. burstTokens[c] + (Since(c) * Burst) \div Minute \in Nat
    BY <1>1, <1>4
  <1>6. Smaller(Burst, burstTokens[c] + (Since(c) * Burst) \div Minute) \in 0 .. Burst
    BY <1>5, SmallerOfBoth
  <1>7. Refilled(c) \in 0 .. Burst
    BY <1>1, <1>6 DEF Refilled
  <1> QED
    BY <1>3, <1>7

(* A refill adds no more than the rate gives for the time it counts, and   *)
(* leaves at most a second uncounted.                                      *)
LEMMA RefillIsRated ==
    ASSUME TypeOK, RefillsArePast, NEW c \in Addresses
    PROVE  /\ Minute * Refilled(c) + lastRefill[c] * Burst
                  <= Minute * burstTokens[c] + RefillTime(c) * Burst
           /\ lastRefill[c] <= RefillTime(c) /\ now <= RefillTime(c) + Second
  <1> USE FilterAssumption DEF FilterAssumption
  <1>1. /\ now \in Nat /\ lastRefill[c] \in Nat /\ lastRefill[c] <= now
        /\ burstTokens[c] \in Nat
    BY DEF TypeOK, RefillsArePast
  <1>2. Since(c) \in Nat /\ (Since(c) > Second => now = lastRefill[c] + Since(c))
    BY <1>1 DEF Since
  <1>3. lastRefill[c] <= RefillTime(c) /\ now <= RefillTime(c) + Second
    BY <1>1 DEF RefillTime, Since
  <1>4. CASE Since(c) > Second
    <2> DEFINE earned == (Since(c) * Burst) \div Minute
    <2>1. Since(c) * Burst \in Nat
      BY <1>2, ProductIsNatural
    <2>2. earned \in Nat /\ Minute * earned <= Since(c) * Burst
      BY <2>1, QuotientIsNatural, DivisionBelow
    <2>3. Refilled(c) \in Nat /\ Refilled(c) <= burstTokens[c] + earned
      <3>1. Refilled(c) = Smaller(Burst, burstTokens[c] + earned)
        BY <1>4 DEF Refilled
      <3> HIDE DEF earned
      <3>2. burstTokens[c] + earned \in Nat
        BY <1>1, <2>2
      <3>3. Refilled(c) \in 0 .. Burst /\ Refilled(c) <= burstTokens[c] + earned
        BY <3>1, <3>2, SmallerOfBoth
      <3> QED
        BY <3>3
    <2> HIDE DEF earned
    <2>4. Minute * Refilled(c) <= Minute * (burstTokens[c] + earned)
      BY <1>1, <2>2, <2>3, ProductGrows
    <2>5. Minute * (burstTokens[c] + earned) = Minute * burstTokens[c] + Minute * earned
      BY <1>1, <2>2, Distributes
    <2>6. now * Burst = lastRefill[c] * Burst + Since(c) * Burst
      BY <1>1, <1>2, <1>4, Distributes
    <2>7. RefillTime(c) = now
      BY <1>4 DEF RefillTime
    <2>8. /\ Minute * Refilled(c) \in Nat /\ Minute * burstTokens[c] \in Nat
          /\ Minute * earned \in Nat /\ lastRefill[c] * Burst \in Nat
      BY <1>1, <2>2, <2>3, ProductIsNatural
    <2> QED
      BY <1>3, <2>1, <2>2, <2>4, <2>5, <2>6, <2>7, <2>8
  <1>5. CASE ~(Since(c) > Second)
    <2>1. Refilled(c) = burstTokens[c]
      BY <1>5 DEF Refilled
    <2>2. RefillTime(c) \in Nat
      BY <1>1 DEF RefillTime
    <2>3. lastRefill[c] * Burst <= RefillTime(c) * Burst
      BY <1>1, <1>3, <2>2, ProductGrows
    <2>4. /\ Minute * burstTokens[c] \in Nat /\ lastRefill[c] * Burst \in Nat
          /\ RefillTime(c) * Burst \in Nat
      BY <1>1, <2>2, ProductIsNatural
    <2> QED
      BY <1>3, <2>1, <2>3, <2>4
  <1> QED
    BY <1>4, <1>5

(* How the invariant about tokens survives a refill that leaves t tokens,  *)
(* and a request that pays with one of them.                               *)
LEMMA RefillKeepsTokens ==
    ASSUME Inv, NEW c \in Addresses, NEW a \in Nat, NEW n \in Nat, NEW t \in Nat,
           t <= Refilled(c),
           \/ n = Cardinality(PaidSince(c, a)) /\ PaidSince(c, a) # {}
           \/ n = 0 /\ a <= now
    PROVE  Minute * (n + t) + a * Burst <= Minute * Burst + (RefillTime(c) + Second) * Burst
  <1> USE FilterAssumption DEF FilterAssumption
  <1> DEFINE L == lastRefill[c]
             M == RefillTime(c)
             b == burstTokens[c]
             f == Refilled(c)
  <1>1. /\ L \in Nat /\ M \in Nat /\ b \in Nat /\ f \in Nat /\ now \in Nat
        /\ f <= Burst /\ t <= f
    BY RefillTypes DEF Inv, TypeOK
  <1>2. /\ Minute * f + L * Burst <= Minute * b + M * Burst
        /\ L <= M /\ now <= M + Second
    BY RefillIsRated DEF Inv
  <1> HIDE DEF L, M, b, f
  <1>3. /\ Minute * (n + t) <= Minute * n + Minute * f
        /\ (M + Second) * Burst = M * Burst + Second * Burst
        /\ (L + Second) * Burst = L * Burst + Second * Burst
        /\ Minute * (n + b) = Minute * n + Minute * b
    <2>1. Minute * (n + t) <= Minute * (n + f) /\ Minute * (n + f) = Minute * n + Minute * f
      BY <1>1, ProductGrows, Distributes
    <2> QED
      BY <1>1, <2>1, Distributes
  <1>4. /\ Minute * n \in Nat /\ Minute * f \in Nat /\ Minute * b \in Nat
        /\ L * Burst \in Nat /\ M * Burst \in Nat /\ Second * Burst \in Nat
        /\ a * Burst \in Nat /\ Minute * Burst \in Nat /\ Minute * (n + t) \in Nat
    BY <1>1, ProductIsNatural
  <1>5. CASE n = Cardinality(PaidSince(c, a)) /\ PaidSince(c, a) # {}
    <2>1. Minute * (n + b) + a * Burst <= Minute * Burst + (L + Second) * Burst
      BY <1>5 DEF Inv, TokensComeBack, L, b
    <2> QED
      BY <1>2, <1>3, <1>4, <2>1 DEF M
  <1>6. CASE n = 0 /\ a <= now
    <2>1. Minute * f <= Minute * Burst /\ a * Burst <= (M + Second) * Burst
      BY <1>1, <1>2, <1>6, ProductGrows
    <2>2. Minute * n = 0
      BY <1>6
    <2> QED
      BY <1>3, <1>4, <2>1, <2>2 DEF M
  <1> QED
    BY <1>5, <1>6

-----------------------------------------------------------------------------
(* The limiter.                                                            *)

(* One more element adds at most one to the size of a set.                 *)
LEMMA AddOne ==
    ASSUME NEW S, NEW x, IsFiniteSet(S)
    PROVE  /\ IsFiniteSet(S \cup {x}) /\ Cardinality(S \cup {x}) \in Nat
           /\ Cardinality(S \cup {x}) <= Cardinality(S) + 1
  <1>1. Cardinality(S) \in Nat
    BY FS_CardinalityType
  <1>2. Cardinality(S \cup {x}) = IF x \in S THEN Cardinality(S) ELSE Cardinality(S) + 1
    BY FS_AddElement
  <1> QED
    BY <1>1, <1>2, FS_AddElement

(* What is remembered within the window is what was let through.           *)
LEMMA RecentIsInWindow ==
    ASSUME Kept, NEW c \in Addresses
    PROVE  Recent(c) = InWindow(c) /\ IsFiniteSet(InWindow(c))
  <1>1. Recent(c) = InWindow(c)
    BY DEF Kept, Recent, InWindow
  <1>2. InWindow(c) \subseteq admitted
    BY DEF InWindow
  <1> QED
    BY <1>1, <1>2, FS_Subset DEF Kept

LEMMA ClientIsAddress ==
    ASSUME NEW q \in Queries
    PROVE  ClientOf(q) \in Addresses
  BY FilterAssumption DEF FilterAssumption, ClientOf

(* The limiter's part of the invariant and of the types.                   *)
LimiterTypes ==
    /\ clients \in [Addresses -> SUBSET Entries]
    /\ burstTokens \in [Addresses -> 0 .. Burst]
    /\ lastRefill \in [Addresses -> Nat]
    /\ admitted \subseteq Entries
Limiter == LimiterTypes /\ RefillsArePast /\ Kept /\ UnpaidAreRationed /\ TokensComeBack

LEMMA AdmitKeeps ==
    ASSUME Inv, NEW r \in Requests, NEW c \in Addresses, Admit(r, c), now' = now
    PROVE  Limiter'
  <1> DEFINE paid  == Cardinality(Recent(c)) >= Limit
             entry == [request |-> r, client |-> c, at |-> now, paid |-> paid]
  <1> USE DEF Inv
  <1>1. /\ Cardinality(Recent(c)) < Limit \/ Refilled(c) > 0
        /\ clients' = [clients EXCEPT ![c] = Recent(c) \cup {entry}]
        /\ admitted' = admitted \cup {entry}
        /\ burstTokens' = [burstTokens EXCEPT ![c] =
                              IF paid THEN Refilled(c) - 1 ELSE Refilled(c)]
        /\ lastRefill' = [lastRefill EXCEPT ![c] = RefillTime(c)]
    BY DEF Admit
  <1>2. /\ Refilled(c) \in 0 .. Burst /\ RefillTime(c) \in Nat /\ RefillTime(c) <= now
        /\ Burst \in Nat /\ Limit \in Nat /\ Window \in Nat /\ now \in Nat
    BY RefillTypes, FilterAssumption DEF FilterAssumption, TypeOK
  <1>3. /\ Recent(c) = InWindow(c) /\ IsFiniteSet(Recent(c)) /\ Cardinality(Recent(c)) \in Nat
    BY RecentIsInWindow, FS_CardinalityType
  <1>4. /\ entry \in Entries /\ entry.client = c /\ entry.at = now
        /\ entry.paid = paid /\ paid \in BOOLEAN
    BY <1>2 DEF Entries
  <1>5. Recent(c) \subseteq Entries
    BY DEF Recent, TypeOK
  <1>6. (IF paid THEN Refilled(c) - 1 ELSE Refilled(c)) \in 0 .. Burst
    BY <1>1, <1>2, <1>3
  <1>7. LimiterTypes'
    <2> HIDE DEF entry, paid
    <2> QED
      BY <1>1, <1>2, <1>4, <1>5, <1>6 DEF LimiterTypes, TypeOK
  <1>8. RefillsArePast'
    BY <1>1, <1>2 DEF RefillsArePast, TypeOK
  <1>9. Kept'
    <2>1. IsFiniteSet(admitted')
      BY <1>1, FS_AddElement DEF Kept
    <2> HIDE DEF entry, paid
    <2>2. ASSUME NEW d \in Addresses, NEW e \in clients'[d]
          PROVE  e \in admitted' /\ e.client = d
      BY <1>1, <1>4, <2>2 DEF Kept, Recent, TypeOK
    <2>3. ASSUME NEW e \in admitted', now <= e.at + Window
          PROVE  e \in clients'[e.client]
      <3>1. CASE e = entry
        BY <1>1, <1>4, <3>1 DEF TypeOK
      <3>2. CASE e \in admitted /\ e.client = c
        BY <1>1, <2>3, <3>2 DEF Kept, Recent, TypeOK
      <3>3. CASE e \in admitted /\ e.client # c
        BY <1>1, <2>3, <3>3 DEF Kept, TypeOK
      <3> QED
        BY <1>1, <3>1, <3>2, <3>3
    <2> QED
      BY <2>1, <2>2, <2>3 DEF Kept
  <1>10. UnpaidAreRationed'
    <2> SUFFICES ASSUME NEW d \in Addresses
                 PROVE  Cardinality(Unpaid(d)') <= Limit
      BY DEF UnpaidAreRationed
    <2>1. CASE d # c \/ paid
      <3>1. Unpaid(d)' = Unpaid(d)
        BY <1>1, <1>4, <2>1 DEF Unpaid, InWindow
      <3> QED
        BY <3>1 DEF UnpaidAreRationed
    <2>2. CASE d = c /\ ~paid
      <3>1. Unpaid(d)' \subseteq Recent(c) \cup {entry}
        BY <1>1, <1>3, <2>2 DEF Unpaid, InWindow
      <3>2. /\ IsFiniteSet(Recent(c) \cup {entry})
            /\ Cardinality(Recent(c) \cup {entry}) <= Cardinality(Recent(c)) + 1
            /\ Cardinality(Recent(c) \cup {entry}) \in Nat
        BY <1>3, AddOne
      <3>3. /\ Cardinality(Unpaid(d)') <= Cardinality(Recent(c) \cup {entry})
            /\ Cardinality(Unpaid(d)') \in Nat
        <4> HIDE DEF entry
        <4> QED
          BY <3>1, <3>2, FS_Subset, FS_CardinalityType
      <3> QED
        BY <1>2, <1>3, <2>2, <3>2, <3>3
    <2> QED
      BY <2>1, <2>2
  <1>11. TokensComeBack'
    <2> SUFFICES ASSUME NEW d \in Addresses, NEW a \in Nat, PaidSince(d, a)' # {}
                 PROVE  Minute * (Cardinality(PaidSince(d, a)') + burstTokens'[d]) + a * Burst
                            <= Minute * Burst + (lastRefill'[d] + Second) * Burst
      BY DEF TokensComeBack
    <2>1. CASE d # c
      <3>1. PaidSince(d, a)' = PaidSince(d, a)
        BY <1>1, <1>4, <2>1 DEF PaidSince
      <3>2. burstTokens'[d] = burstTokens[d] /\ lastRefill'[d] = lastRefill[d]
        BY <1>1, <2>1 DEF TypeOK
      <3> QED
        BY <3>1, <3>2 DEF TokensComeBack
    <2>2. CASE d = c
      <3>1. /\ lastRefill'[d] = RefillTime(c)
            /\ burstTokens'[d] = IF paid THEN Refilled(c) - 1 ELSE Refilled(c)
        BY <1>1, <2>2 DEF TypeOK
      <3>2. IsFiniteSet(PaidSince(c, a)) /\ Cardinality(PaidSince(c, a)) \in Nat
        <4>1. PaidSince(c, a) \subseteq admitted
          BY DEF PaidSince
        <4> QED
          BY <4>1, FS_Subset, FS_CardinalityType DEF Kept
      <3>3. CASE ~paid \/ now < a
        <4>1. PaidSince(d, a)' = PaidSince(c, a)
          <5>1. ~(entry.paid /\ a <= entry.at)
            <6> HIDE DEF entry, paid
            <6>1. CASE ~paid
              BY <1>4, <6>1, Zenon
            <6>2. CASE now < a
              BY <1>2, <1>4, <6>2
            <6> QED
              BY <3>3, <6>1, <6>2
          <5> HIDE DEF entry, paid
          <5> QED
            BY <1>1, <2>2, <5>1 DEF PaidSince
        <4>2. burstTokens'[d] \in Nat /\ burstTokens'[d] <= Refilled(c)
          BY <1>1, <1>2, <1>6, <3>1
        <4> QED
          BY <3>1, <3>2, <4>1, <4>2, RefillKeepsTokens
      <3>4. CASE paid /\ a <= now
        <4> DEFINE n == Cardinality(PaidSince(c, a))
                   k == Cardinality(PaidSince(d, a)')
        <4>1. PaidSince(d, a)' = PaidSince(c, a) \cup {entry}
          <5> HIDE DEF entry
          <5> QED
            BY <1>1, <1>2, <1>4, <2>2, <3>4 DEF PaidSince
        <4>2. k \in Nat /\ k <= n + 1 /\ n \in Nat
          <5> HIDE DEF entry
          <5> QED
            BY <3>2, <4>1, AddOne
        <4>3. /\ Refilled(c) - 1 \in Nat /\ burstTokens'[d] = Refilled(c) - 1
              /\ RefillTime(c) + Second \in Nat /\ Minute \in Nat
          BY <1>2, <1>6, <3>1, <3>4, FilterAssumption DEF FilterAssumption
        <4>4. Minute * (n + Refilled(c)) + a * Burst
                  <= Minute * Burst + (RefillTime(c) + Second) * Burst
          <5>1. CASE PaidSince(c, a) # {}
            BY <1>2, <3>2, <5>1, RefillKeepsTokens
          <5>2. CASE PaidSince(c, a) = {}
            <6>1. n = 0
              BY <5>2, FS_EmptySet
            <6> QED
              BY <1>2, <3>4, <6>1, RefillKeepsTokens
          <5> QED
            BY <5>1, <5>2
        <4>5. Minute * (k + (Refilled(c) - 1)) <= Minute * (n + Refilled(c))
          <5> HIDE DEF n, k
          <5>1. /\ k + (Refilled(c) - 1) \in Nat /\ n + Refilled(c) \in Nat
                /\ k + (Refilled(c) - 1) <= n + Refilled(c)
            BY <1>2, <4>2, <4>3
          <5> QED
            BY <4>3, <5>1, ProductGrows
        <4>6. /\ Minute * (k + (Refilled(c) - 1)) \in Nat /\ Minute * (n + Refilled(c)) \in Nat
              /\ a * Burst \in Nat /\ Minute * Burst \in Nat
              /\ (RefillTime(c) + Second) * Burst \in Nat
          BY <1>2, <4>2, <4>3, ProductIsNatural
        <4> HIDE DEF n, k
        <4>7. Minute * (k + (Refilled(c) - 1)) + a * Burst
                  <= Minute * Burst + (RefillTime(c) + Second) * Burst
          BY <4>4, <4>5, <4>6
        <4> QED
          BY <3>1, <4>3, <4>7 DEF k
      <3> QED
        BY <1>2, <3>3, <3>4
    <2> QED
      BY <2>1, <2>2
  <1> QED
    BY <1>7, <1>8, <1>9, <1>10, <1>11 DEF Limiter

LEMMA RejectKeeps ==
    ASSUME Inv, NEW c \in Addresses, Reject(c), now' = now
    PROVE  Limiter'
  <1> USE DEF Inv
  <1>1. /\ clients' = [clients EXCEPT ![c] = Recent(c)]
        /\ burstTokens' = [burstTokens EXCEPT ![c] = 0]
        /\ lastRefill' = [lastRefill EXCEPT ![c] = RefillTime(c)]
        /\ admitted' = admitted
    BY DEF Reject
  <1>2. /\ RefillTime(c) \in Nat /\ RefillTime(c) <= now /\ Burst \in Nat
    BY RefillTypes, FilterAssumption DEF FilterAssumption
  <1>3. LimiterTypes'
    <2>1. Recent(c) \subseteq Entries
      BY DEF Recent, TypeOK
    <2> QED
      BY <1>1, <1>2, <2>1 DEF LimiterTypes, TypeOK
  <1>4. RefillsArePast'
    BY <1>1, <1>2 DEF RefillsArePast, TypeOK
  <1>5. Kept'
    BY <1>1 DEF Kept, Recent, TypeOK
  <1>6. UnpaidAreRationed'
    BY <1>1 DEF UnpaidAreRationed, Unpaid, InWindow
  <1>7. TokensComeBack'
    <2> SUFFICES ASSUME NEW d \in Addresses, NEW a \in Nat, PaidSince(d, a) # {}
                 PROVE  Minute * (Cardinality(PaidSince(d, a)) + burstTokens'[d]) + a * Burst
                            <= Minute * Burst + (lastRefill'[d] + Second) * Burst
      BY <1>1 DEF TokensComeBack, PaidSince
    <2>1. CASE d # c
      BY <1>1, <2>1 DEF TokensComeBack, TypeOK
    <2>2. CASE d = c
      <3>1. burstTokens'[d] = 0 /\ lastRefill'[d] = RefillTime(c) /\ Refilled(c) = 0
        BY <1>1, <2>2 DEF TypeOK, Reject
      <3>2. Cardinality(PaidSince(c, a)) \in Nat
        <4>1. PaidSince(c, a) \subseteq admitted
          BY DEF PaidSince
        <4> QED
          BY <4>1, FS_Subset, FS_CardinalityType DEF Kept
      <3> QED
        BY <2>2, <3>1, <3>2, RefillKeepsTokens
    <2> QED
      BY <2>1, <2>2
  <1> QED
    BY <1>3, <1>4, <1>5, <1>6, <1>7 DEF Limiter

LEMMA NothingCounted ==
    ASSUME Inv, UNCHANGED <<now, clients, burstTokens, lastRefill, admitted>>
    PROVE  Limiter'
  BY DEF Inv, TypeOK, Limiter, LimiterTypes, RefillsArePast, Kept, UnpaidAreRationed, Unpaid,
         InWindow, TokensComeBack, PaidSince

(* As time passes, requests only leave the window.                         *)
LEMMA TimePasses ==
    ASSUME Inv, Tick
    PROVE  Limiter'
  <1> USE DEF Inv
  <1>1. /\ now' = now + 1 /\ now \in Nat /\ Window \in Nat /\ Limit \in Nat
        /\ UNCHANGED <<clients, burstTokens, lastRefill, admitted>>
    BY FilterAssumption DEF FilterAssumption, Tick, TypeOK
  <1>2. LimiterTypes' /\ RefillsArePast'
    BY <1>1 DEF LimiterTypes, RefillsArePast, TypeOK
  <1>3. Kept'
    BY <1>1 DEF Kept, TypeOK, Entries
  <1>4. ASSUME NEW c \in Addresses
        PROVE  Cardinality(Unpaid(c)') <= Limit
    <2>1. Unpaid(c)' \subseteq Unpaid(c)
      BY <1>1 DEF Unpaid, InWindow, TypeOK, Entries
    <2>2. IsFiniteSet(Unpaid(c))
      BY RecentIsInWindow, FS_Subset DEF Unpaid
    <2>3. /\ Cardinality(Unpaid(c)') <= Cardinality(Unpaid(c))
          /\ Cardinality(Unpaid(c)') \in Nat /\ Cardinality(Unpaid(c)) \in Nat
      BY <2>1, <2>2, FS_Subset, FS_CardinalityType
    <2> QED
      BY <1>1, <2>3 DEF UnpaidAreRationed
  <1>5. UnpaidAreRationed'
    BY <1>4 DEF UnpaidAreRationed
  <1>6. TokensComeBack'
    BY <1>1 DEF TokensComeBack, PaidSince
  <1> QED
    BY <1>2, <1>3, <1>5, <1>6 DEF Limiter

-----------------------------------------------------------------------------
(* The filters.                                                            *)

LEMMA JudgeTypes ==
    ASSUME TypeOK, NEW r \in Requests, NEW q \in Queries, NEW verdict \in Outcomes,
           NEW types \in SUBSET (Marks \cup OtherMarks), Judge(r, q, verdict, types)
    PROVE  /\ now' = now
           /\ violations' \subseteq [request : Requests, type : Marks \cup OtherMarks]
           /\ outcome' \in [Requests -> Outcomes]
           /\ judged' \in [Requests -> Queries \cup {None}]
  <1>1. [request : {r}, type : types] \subseteq [request : Requests, type : Marks \cup OtherMarks]
    OBVIOUS
  <1> QED
    BY <1>1 DEF TypeOK, Judge

LEMMA InvStep == Inv /\ [Next]_vars => Inv'
  <1> SUFFICES ASSUME Inv, [Next]_vars PROVE Inv'
    OBVIOUS
  <1>a. ASSUME Limiter', NEW r \in Requests, NEW q \in Queries, NEW verdict \in Outcomes,
               NEW types \in SUBSET (Marks \cup OtherMarks), Judge(r, q, verdict, types)
        PROVE  Inv'
    BY <1>a, JudgeTypes DEF Inv, TypeOK, Limiter, LimiterTypes
  <1>b. /\ {"skipped", "allowed", "denied", "limited", "too_large", "violation"} \subseteq Outcomes
        /\ {"blocked_ip", "rate_limit_exceeded", "oversized_request"} \subseteq OtherMarks
        /\ \A q \in Queries : Violations(q) \in SUBSET (Marks \cup OtherMarks)
    BY FilterAssumption
       DEF FilterAssumption, Outcomes, OtherMarks, Violations, HeaderViolations, UrlViolations,
           PatternViolations, Marks, HeaderMarks, UrlMarks, PatternMarks
  <1>1. ASSUME NEW r \in Requests, NEW q \in Queries, Skip(r, q) PROVE Inv'
    <2>1. Limiter' /\ Judge(r, q, "skipped", {})
      BY <1>1, NothingCounted DEF Skip, Judge
    <2> QED
      BY <1>a, <1>b, <2>1
  <1>2. ASSUME NEW r \in Requests, NEW q \in Queries, FilterIp(r, q) PROVE Inv'
    <2>1. Limiter' /\ Judge(r, q, "denied", {"blocked_ip"})
      BY <1>2, NothingCounted DEF FilterIp, Judge
    <2> QED
      BY <1>a, <1>b, <2>1
  <1>3. ASSUME NEW r \in Requests, NEW q \in Queries, FilterRate(r, q) PROVE Inv'
    <2>1. Limiter' /\ Judge(r, q, "limited", {"rate_limit_exceeded"})
      BY <1>3, RejectKeeps, ClientIsAddress DEF FilterRate, Judge
    <2> QED
      BY <1>a, <1>b, <2>1
  <1>4. ASSUME NEW r \in Requests, NEW q \in Queries, FilterSize(r, q) PROVE Inv'
    <2>1. Limiter' /\ Judge(r, q, "too_large", {"oversized_request"})
      BY <1>4, AdmitKeeps, ClientIsAddress DEF FilterSize, Judge
    <2> QED
      BY <1>a, <1>b, <2>1
  <1>5. ASSUME NEW r \in Requests, NEW q \in Queries, FilterContent(r, q) PROVE Inv'
    <2>1. Limiter' /\ Judge(r, q, "violation", Violations(q))
      BY <1>5, AdmitKeeps, ClientIsAddress DEF FilterContent, Judge
    <2> QED
      BY <1>a, <1>b, <2>1
  <1>6. ASSUME NEW r \in Requests, NEW q \in Queries, Allow(r, q) PROVE Inv'
    <2>1. Limiter' /\ Judge(r, q, "allowed", Violations(q))
      BY <1>6, AdmitKeeps, ClientIsAddress DEF Allow, Judge
    <2> QED
      BY <1>a, <1>b, <2>1
  <1>7. CASE Tick
    <2>1. Limiter'
      BY <1>7, TimePasses
    <2> QED
      BY <1>7, <2>1 DEF Tick, Inv, TypeOK, Limiter, LimiterTypes
  <1>8. CASE UNCHANGED vars
    <2>1. Limiter'
      BY <1>8, NothingCounted DEF vars
    <2> QED
      BY <1>8, <2>1 DEF vars, Inv, TypeOK, Limiter, LimiterTypes
  <1> QED
    BY <1>1, <1>2, <1>3, <1>4, <1>5, <1>6, <1>7, <1>8 DEF Next

LEMMA InvInit == Init => Inv
  <1> SUFFICES ASSUME Init PROVE Inv
    OBVIOUS
  <1>1. TypeOK /\ RefillsArePast
    BY FilterAssumption DEF FilterAssumption, Init, TypeOK, RefillsArePast, Outcomes
  <1>2. Kept
    BY FS_EmptySet DEF Init, Kept
  <1>3. \A c \in Addresses : Unpaid(c) = {}
    BY DEF Init, Unpaid, InWindow
  <1>4. UnpaidAreRationed
    BY <1>3, FS_EmptySet, FilterAssumption DEF FilterAssumption, UnpaidAreRationed
  <1>5. TokensComeBack
    BY DEF Init, TokensComeBack, PaidSince
  <1> QED
    BY <1>1, <1>2, <1>4, <1>5 DEF Inv

LEMMA Invariance == Spec => []Inv
  BY InvInit, InvStep, PTL DEF Spec

(* The tables keep their types: no client has more tokens than the burst,  *)
(* or fewer than none.                                                     *)
THEOREM TypeInvariant == Spec => []TypeOK
  BY Invariance, PTL DEF Inv

(* The tokens that c has paid with in the window.                          *)
LEMMA PaidAreRationed ==
    ASSUME Inv, NEW c \in Addresses
    PROVE  Cardinality({e \in InWindow(c) : e.paid})
               <= Burst + ((Window + Second) * Burst) \div Minute
  <1> USE FilterAssumption DEF FilterAssumption, Inv
  <1> DEFINE a == IF Window < now THEN now - Window ELSE 0
             paid == {e \in InWindow(c) : e.paid}
             n == Cardinality(paid)
             back == ((Window + Second) * Burst) \div Minute
  <1>1. /\ now \in Nat /\ a \in Nat /\ lastRefill[c] \in Nat /\ lastRefill[c] <= a + Window
        /\ burstTokens[c] \in Nat
    BY DEF TypeOK, RefillsArePast
  <1>2. paid = PaidSince(c, a)
    BY <1>1 DEF InWindow, PaidSince, TypeOK, Entries
  <1>3. IsFiniteSet(paid) /\ n \in Nat
    BY RecentIsInWindow, FS_Subset, FS_CardinalityType
  <1>4. (Window + Second) * Burst \in Nat /\ Window + Second \in Nat
    BY ProductIsNatural
  <1>5. back \in Nat
    BY <1>4, QuotientIsNatural
  <1>6. CASE paid = {}
    <2>1. n = 0
      BY <1>6, FS_EmptySet
    <2> HIDE DEF n, back
    <2> QED
      BY <1>5, <2>1 DEF n, back
  <1>7. CASE paid # {} /\ n > Burst
    <2>1. Minute * (n + burstTokens[c]) + a * Burst
              <= Minute * Burst + (lastRefill[c] + Second) * Burst
      BY <1>1, <1>2, <1>7 DEF TokensComeBack
    <2> HIDE DEF a, n, paid, back
    <2>2. /\ Minute * n <= Minute * (n + burstTokens[c])
          /\ (lastRefill[c] + Second) * Burst <= (a + (Window + Second)) * Burst
          /\ (a + (Window + Second)) * Burst = a * Burst + (Window + Second) * Burst
      <3>1. /\ n <= n + burstTokens[c] /\ n + burstTokens[c] \in Nat
            /\ lastRefill[c] + Second <= a + (Window + Second)
            /\ lastRefill[c] + Second \in Nat /\ a + (Window + Second) \in Nat
        BY <1>1, <1>3
      <3> QED
        BY <1>1, <1>3, <1>4, <3>1, ProductGrows, Distributes
    <2>3. /\ Minute * n \in Nat /\ Minute * (n + burstTokens[c]) \in Nat
          /\ (lastRefill[c] + Second) * Burst \in Nat /\ a * Burst \in Nat
          /\ Minute * Burst \in Nat
      <3>1. n + burstTokens[c] \in Nat /\ lastRefill[c] + Second \in Nat
        BY <1>1, <1>3
      <3> QED
        BY <1>1, <1>3, <3>1, ProductIsNatural
    <2>4. Minute * n <= Minute * Burst + (Window + Second) * Burst
      BY <1>4, <2>1, <2>2, <2>3
    <2>5. n - Burst \in Nat /\ n = Burst + (n - Burst)
      BY <1>3, <1>7
    <2>6. Minute * n = Minute * Burst + Minute * (n - Burst)
      BY <2>5, Distributes
    <2>7. Minute * (n - Burst) \in Nat
      BY <2>5, ProductIsNatural
    <2>8. Minute * (n - Burst) <= (Window + Second) * Burst
      BY <1>4, <2>3, <2>4, <2>6, <2>7
    <2>9. n - Burst <= back
      BY <1>4, <2>5, <2>8, DivisionAbove DEF back
    <2> QED
      BY <1>3, <1>5, <2>9 DEF n, paid, back
  <1> QED
    BY <1>3, <1>5, <1>6, <1>7

(* No client gets more than the limit for nothing in any window, and none  *)
(* gets more in all than its limit, its burst and what comes back of it.   *)
THEOREM WindowsAreRationed == Spec => []WindowIsRationed
  <1>1. Inv => WindowIsRationed
    <2> SUFFICES ASSUME Inv, NEW c \in Addresses
                 PROVE  /\ Cardinality(Unpaid(c)) <= Limit
                        /\ Cardinality(InWindow(c))
                               <= Limit + Burst + ((Window + Second) * Burst) \div Minute
      BY DEF WindowIsRationed, Unpaid
    <2> DEFINE paid == {e \in InWindow(c) : e.paid}
               back == ((Window + Second) * Burst) \div Minute
    <2>1. Cardinality(Unpaid(c)) <= Limit
      BY DEF Inv, UnpaidAreRationed
    <2>2. Cardinality(paid) <= Burst + back
      BY PaidAreRationed
    <2>3. InWindow(c) = Unpaid(c) \cup paid
      BY DEF Unpaid
    <2>4. IsFiniteSet(InWindow(c))
      BY RecentIsInWindow DEF Inv
    <2>5. IsFiniteSet(Unpaid(c)) /\ IsFiniteSet(paid)
      BY <2>4, FS_Subset DEF Unpaid
    <2>6. Cardinality(Unpaid(c)) \in Nat /\ Cardinality(paid) \in Nat
      BY <2>5, FS_CardinalityType
    <2>7. Unpaid(c) \cap paid = {}
      BY DEF Unpaid
    <2> HIDE DEF paid
    <2>8. Cardinality(InWindow(c)) = Cardinality(Unpaid(c)) + Cardinality(paid)
      <3>1. Cardinality(Unpaid(c) \cup paid) = Cardinality(Unpaid(c)) + Cardinality(paid)
                                                  - Cardinality(Unpaid(c) \cap paid)
        BY <2>5, FS_Union
      <3>2. Cardinality(Unpaid(c) \cap paid) = 0
        BY <2>7, FS_EmptySet
      <3> QED
        BY <2>3, <2>6, <3>1, <3>2
    <2>9. back \in Nat
      BY FilterAssumption, ProductIsNatural, QuotientIsNatural DEF FilterAssumption
    <2> HIDE DEF back
    <2>10. Limit \in Nat /\ Burst \in Nat
      BY FilterAssumption DEF FilterAssumption
    <2>11. Cardinality(InWindow(c)) <= Limit + Burst + back
      BY <2>1, <2>2, <2>6, <2>8, <2>9, <2>10
    <2> QED
      BY <2>1, <2>11 DEF back
  <1> QED
    BY <1>1, Invariance, PTL

(* Who is limited has used up the limit in the window before.              *)
THEOREM LimitsAreEarned == Spec => LimitIsEarned
  <1>1. ASSUME Inv, [Next]_vars, NEW r \in Requests,
               outcome[r] = "none", outcome'[r] = "limited"
        PROVE  Cardinality(InWindow(ClientOf(judged'[r]))) >= Limit
    <2>1. PICK s \in Requests, q \in Queries :
             Skip(s, q) \/ FilterIp(s, q) \/ FilterRate(s, q) \/ FilterSize(s, q)
                 \/ FilterContent(s, q) \/ Allow(s, q)
      BY <1>1 DEF Next, Tick, vars
    <2>2. FilterRate(s, q) /\ s = r
      BY <1>1, <2>1
         DEF Skip, FilterIp, FilterRate, FilterSize, FilterContent, Allow, Judge, Inv, TypeOK
    <2>3. judged' = [judged EXCEPT ![r] = q] /\ judged \in [Requests -> Queries \cup {None}]
      BY <1>1, <2>2 DEF FilterRate, Judge, Inv, TypeOK
    <2>4. Cardinality(Recent(ClientOf(q))) >= Limit
      BY <2>2 DEF FilterRate, Reject
    <2>5. Recent(ClientOf(q)) = InWindow(ClientOf(q))
      BY <1>1, RecentIsInWindow, ClientIsAddress DEF Inv
    <2> QED
      BY <2>3, <2>4, <2>5
  <1>2. Inv /\ [Next]_vars =>
           [\A r \in Requests :
               outcome[r] = "none" /\ outcome'[r] = "limited" =>
                   Cardinality(InWindow(ClientOf(judged'[r]))) >= Limit]_vars
    BY <1>1
  <1> QED
    BY <1>2, Invariance, PTL DEF Spec, LimitIsEarned
=============================================================================
