-------------------------- MODULE DelegationProofs --------------------------
(***************************************************************************)
(* Proofs about the delegation of macaroons, for any processes, agents,    *)
(* caveats, contexts and numbers of macaroons: what a macaroon demands,    *)
(* how deep it may go, and what chain is known of it.                      *)
(*                                                                         *)
(* The invariant is about the family of all macaroons made so far: their   *)
(* identifiers are counted up, a child has every caveat of each of its     *)
(* ancestors, and below a root that says nothing of the depth there is the *)
(* caveat that allows one link.  What processes hold and know is then a part of it.         *)
(***************************************************************************)
EXTENDS Delegation, TLAPS, FiniteSetTheorems, SequenceTheorems, WellFoundedInduction

CaveatValues == Int \cup Resources \cup (SUBSET Actions) \cup Addresses
CaveatSet == {c \in [type : CaveatTypes, value : CaveatValues] : ProperCaveat(c)}
Macaroons == [id : Nat, key : Keys, agent : Agents, caveats : Seq(CaveatSet)]

OneDeep == CaveatOf("delegation_depth", 1)

(* The macaroons M with the ancestors A.                                   *)
Numbered(M) == IsFiniteSet(M) /\ \A m \in M : m.id \in 1..Cardinality(M)
Narrowing(M, A) ==
    \A m \in M :
        /\ m \in Macaroons
        /\ m.id \in DOMAIN A
        /\ A[m.id] \subseteq M
        /\ \A q \in A[m.id] : ElementsOf(q.caveats) \subseteq ElementsOf(m.caveats)
(* What descends from a root without a caveat on the depth has OneDeep.    *)
Deep(M, A) ==
    \A m \in M : \A root \in A[m.id] :
        A[root.id] = {} /\ Depths(root) = {} => OneDeep \in ElementsOf(m.caveats)
Family(M, A) == Numbered(M) /\ Narrowing(M, A) /\ Deep(M, A)

(* A chain is the descent of i: its ancestors and itself, in order.        *)
IsDescent(chain, i, A) ==
    /\ chain \in Seq(Nat)
    /\ ElementsOf(chain) = {m.id : m \in A[i]} \cup {i}
    /\ \A j, k \in DOMAIN chain : j < k => chain[j] < chain[k]
ChainsFit(known, M, A) ==
    \A i \in DOMAIN known : i \in {m.id : m \in M} /\ IsDescent(known[i], i, A)

(* What a process holds has a chain, and what it returns it holds.         *)
Held ==
    \A p \in Processes :
        /\ held[p] \subseteq made
        /\ \A m \in held[p] : m.id \in DOMAIN chains[p]
        /\ current[p] = None \/ current[p] \in held[p]
        /\ \A a \in DOMAIN links[p] : links[p][a] \in made
Chained ==
    /\ \A p \in Processes : ChainsFit(chains[p], made, ancestors)
    /\ \A c \in claims : c.macaroon \in made /\ IsDescent(c.chain, c.macaroon.id, ancestors)
Shapes ==
    /\ now \in Nat
    /\ run \in [Processes -> Nat]
    /\ held \in [Processes -> SUBSET made] /\ DOMAIN chains = Processes
    /\ current \in [Processes -> made \cup {None}] /\ DOMAIN links = Processes
    /\ tokens \subseteq made
Inv == Shapes /\ Family(made, ancestors) /\ Held /\ Chained

-----------------------------------------------------------------------------
(* Caveats and sequences of them.                                          *)

(* A set of numbers that is not empty has a least one.                     *)
LEMMA SmallestOfThem ==
    ASSUME NEW S \in SUBSET Nat, S # {}
    PROVE  \E j \in S : \A k \in S : j <= k
  <1> DEFINE Less == OpToRel(<, Nat)
  <1>1. \E j \in S : \A k \in S : <<k, j>> \notin Less
    <2>1. IsWellFoundedOn(Less, Nat)
      BY NatLessThanWellFounded
    <2> HIDE DEF Less
    <2> QED
      BY <2>1, WFMin
  <1>2. \A j, k \in Nat : <<k, j>> \in Less <=> k < j
    BY DEF OpToRel
  <1> HIDE DEF Less
  <1>3. PICK j \in S : \A k \in S : <<k, j>> \notin Less
    BY <1>1
  <1>4. ASSUME NEW k \in S PROVE j <= k
    <2>1. j \in Nat /\ k \in Nat
      OBVIOUS
    <2>2. ~(k < j)
      BY <1>2, <1>3, <2>1
    <2> QED
      BY <2>1, <2>2
  <1> QED
    BY <1>4

LEMMA DelegationFacts ==
    /\ \A r \in Restrictions :
          /\ r.to \in Agents /\ r.resource \in Resources \cup {None}
          /\ r.actions \in SUBSET Actions /\ r.ttl \in Int
          /\ r.address \in Addresses \cup {None} /\ r.uses \in Nat \cup {None}
    /\ \A s \in InitialCaveats :
          /\ s \in Seq({s[i] : i \in DOMAIN s})
          /\ \A i \in DOMAIN s : ProperCaveat(s[i])
  BY DelegationAssumption DEF DelegationAssumption

(* The elements of two sequences, one after the other.                     *)
LEMMA ElementsOfBoth ==
    ASSUME NEW S, NEW s \in Seq(S), NEW t \in Seq(S)
    PROVE  ElementsOf(s \o t) = ElementsOf(s) \cup ElementsOf(t)
  <1>1. /\ s \o t \in Seq(S) /\ Len(s \o t) = Len(s) + Len(t)
        /\ \A i \in 1..(Len(s) + Len(t)) :
              (s \o t)[i] = IF i <= Len(s) THEN s[i] ELSE t[i - Len(s)]
    BY ConcatProperties
  <1>2. /\ Len(s) \in Nat /\ Len(t) \in Nat
        /\ DOMAIN s = 1..Len(s) /\ DOMAIN t = 1..Len(t) /\ DOMAIN (s \o t) = 1..(Len(s) + Len(t))
    BY <1>1, LenProperties
  <1>3. ASSUME NEW i \in DOMAIN s
        PROVE  s[i] \in ElementsOf(s \o t)
    <2>1. i \in 1..(Len(s) + Len(t)) /\ (s \o t)[i] = s[i]
      BY <1>1, <1>2
    <2> QED
      BY <1>2, <2>1 DEF ElementsOf
  <1>4. ASSUME NEW i \in DOMAIN t
        PROVE  t[i] \in ElementsOf(s \o t)
    <2>1. /\ Len(s) + i \in 1..(Len(s) + Len(t))
          /\ (s \o t)[Len(s) + i] = t[i]
      BY <1>1, <1>2
    <2> QED
      BY <1>2, <2>1 DEF ElementsOf
  <1>5. ASSUME NEW i \in DOMAIN (s \o t)
        PROVE  (s \o t)[i] \in ElementsOf(s) \cup ElementsOf(t)
    <2>1. CASE i <= Len(s)
      BY <1>1, <1>2, <2>1 DEF ElementsOf
    <2>2. CASE ~(i <= Len(s))
      <3>1. i - Len(s) \in DOMAIN t /\ (s \o t)[i] = t[i - Len(s)]
        BY <1>1, <1>2, <2>2
      <3> QED
        BY <3>1 DEF ElementsOf
    <2> QED
      BY <2>1, <2>2
  <1> QED
    BY <1>3, <1>4, <1>5 DEF ElementsOf

LEMMA SingleCaveat ==
    ASSUME NEW S, NEW c \in S
    PROVE  <<c>> \in Seq(S) /\ ElementsOf(<<c>>) = {c}
  BY DEF ElementsOf

LEMMA ProperInSet ==
    ASSUME NEW c, ProperCaveat(c)
    PROVE  c \in CaveatSet
  <1>1. c.type \in CaveatTypes /\ c = [type |-> c.type, value |-> c.value]
    BY DEF ProperCaveat
  <1>2. CASE c.type \in {"time_before", "time_after"}
    BY <1>1, <1>2 DEF ProperCaveat, CaveatSet, CaveatValues
  <1>3. CASE c.type \in {"request_count", "delegation_depth"}
    BY <1>1, <1>3 DEF ProperCaveat, CaveatSet, CaveatValues
  <1>4. CASE c.type \in {"resource_prefix", "action_limit", "ip_address"}
    BY <1>1, <1>4 DEF ProperCaveat, CaveatSet, CaveatValues
  <1> QED
    BY <1>1, <1>2, <1>3, <1>4 DEF CaveatTypes

LEMMA OfItsKind ==
    /\ \A n \in Int : CaveatOf("time_before", n) \in CaveatSet
    /\ \A n \in Nat : /\ CaveatOf("request_count", n) \in CaveatSet
                      /\ CaveatOf("delegation_depth", n) \in CaveatSet
    /\ \A r \in Resources : CaveatOf("resource_prefix", r) \in CaveatSet
    /\ \A s \in SUBSET Actions : CaveatOf("action_limit", s) \in CaveatSet
    /\ \A a \in Addresses : CaveatOf("ip_address", a) \in CaveatSet
  <1> USE ProperInSet DEF ProperCaveat, CaveatOf, CaveatTypes
  <1>1. ASSUME NEW n \in Int PROVE CaveatOf("time_before", n) \in CaveatSet
    OBVIOUS
  <1>2. ASSUME NEW n \in Nat PROVE CaveatOf("request_count", n) \in CaveatSet
    OBVIOUS
  <1>3. ASSUME NEW n \in Nat PROVE CaveatOf("delegation_depth", n) \in CaveatSet
    OBVIOUS
  <1>4. ASSUME NEW r \in Resources PROVE CaveatOf("resource_prefix", r) \in CaveatSet
    OBVIOUS
  <1>5. ASSUME NEW s \in SUBSET Actions PROVE CaveatOf("action_limit", s) \in CaveatSet
    OBVIOUS
  <1>6. ASSUME NEW a \in Addresses PROVE CaveatOf("ip_address", a) \in CaveatSet
    OBVIOUS
  <1> QED
    BY <1>1, <1>2, <1>3, <1>4, <1>5, <1>6

LEMMA GivenIsProper ==
    ASSUME NEW type, NEW value, value # None => CaveatOf(type, value) \in CaveatSet
    PROVE  Given(type, value) \in Seq(CaveatSet)
  BY EmptySeq, SingleCaveat DEF Given

(* What is made of a restriction is a sequence of proper caveats.          *)
LEMMA RestrictionsAreProper ==
    ASSUME NEW r \in Restrictions, now \in Nat
    PROVE  CaveatsFor(r) \in Seq(CaveatSet)
  <1>1. Given("resource_prefix", r.resource) \in Seq(CaveatSet)
    BY DelegationFacts, OfItsKind, GivenIsProper
  <1>2. Given("action_limit", IF r.actions = {} THEN None ELSE r.actions) \in Seq(CaveatSet)
    BY DelegationFacts, OfItsKind, GivenIsProper
  <1>3. now + r.ttl \in Int
    BY DelegationFacts
  <1>4. Given("ip_address", r.address) \in Seq(CaveatSet)
    BY DelegationFacts, OfItsKind, GivenIsProper
  <1>5. Given("request_count", r.uses) \in Seq(CaveatSet)
    BY DelegationFacts, OfItsKind, GivenIsProper
  <1>6. <<CaveatOf("time_before", now + r.ttl)>> \in Seq(CaveatSet)
    BY <1>3, OfItsKind, SingleCaveat
  <1> QED
    BY <1>1, <1>2, <1>4, <1>5, <1>6, ConcatProperties DEF CaveatsFor

LEMMA InitialAreProper ==
    ASSUME NEW s \in InitialCaveats
    PROVE  s \in Seq(CaveatSet)
  <1> DEFINE S == {s[i] : i \in DOMAIN s}
  <1>1. S \subseteq CaveatSet
    BY DelegationFacts, ProperInSet
  <1>2. s \in Seq(S)
    BY DelegationFacts
  <1> QED
    BY <1>1, <1>2, SeqMonotonic

-----------------------------------------------------------------------------
(* The family: what a new root and a new child make of it.                 *)

LEMMA NextNumber ==
    ASSUME NEW M, NEW m, Numbered(M), m.id = Cardinality(M) + 1
    PROVE  /\ Numbered(M \cup {m})
           /\ Cardinality(M) \in Nat
           /\ Cardinality(M \cup {m}) = Cardinality(M) + 1
  <1>1. m \notin M /\ Cardinality(M) \in Nat
    BY FS_CardinalityType DEF Numbered
  <1>2. IsFiniteSet(M \cup {m}) /\ Cardinality(M \cup {m}) = Cardinality(M) + 1
    BY <1>1, FS_AddElement DEF Numbered
  <1> QED
    BY <1>1, <1>2 DEF Numbered

(* What is recorded of the macaroons there are does not change.            *)
LEMMA OldRecords ==
    ASSUME NEW M, NEW A, NEW i, NEW x, Numbered(M), i = Cardinality(M) + 1,
           NEW m \in M, m.id \in DOMAIN A
    PROVE  m.id \in DOMAIN Put(A, i, x) /\ Put(A, i, x)[m.id] = A[m.id]
  <1>1. m.id # i
    BY FS_CardinalityType DEF Numbered
  <1> QED
    BY <1>1 DEF Put

LEMMA RootJoins ==
    ASSUME NEW M, NEW A, Family(M, A), NEW m \in Macaroons, m.id = Cardinality(M) + 1
    PROVE  Family(M \cup {m}, Put(A, m.id, {}))
  <1> DEFINE B == Put(A, m.id, {})
  <1>1. Numbered(M \cup {m})
    BY NextNumber DEF Family
  <1>2. B[m.id] = {} /\ m.id \in DOMAIN B
    BY DEF Put
  <1>3. \A n \in M : n.id \in DOMAIN B /\ B[n.id] = A[n.id]
    BY OldRecords DEF Family, Narrowing
  <1> HIDE DEF B
  <1>4. Narrowing(M \cup {m}, B)
    BY <1>2, <1>3 DEF Family, Narrowing
  <1>5. Deep(M \cup {m}, B)
    BY <1>2, <1>3 DEF Family, Narrowing, Deep
  <1> QED
    BY <1>1, <1>4, <1>5 DEF Family, B

(* The depth of a macaroon is what one of its caveats says, or zero.       *)
LEMMA DepthIsGiven ==
    ASSUME NEW m \in Macaroons
    PROVE  /\ DepthOf(m) \in Nat
           /\ Depths(m) # {} => CaveatOf("delegation_depth", DepthOf(m)) \in ElementsOf(m.caveats)
  <1>1. m.caveats \in Seq(CaveatSet)
    BY DEF Macaroons
  <1>2. CASE Depths(m) = {}
    BY <1>2 DEF DepthOf
  <1>3. CASE Depths(m) # {}
    <2>1. Depths(m) \in SUBSET Nat
      BY <1>1, LenProperties DEF Depths
    <2>2. PICK i \in Depths(m) : DepthOf(m) = m.caveats[i].value
      BY <1>3, <2>1, SmallestOfThem DEF DepthOf
    <2>3. i \in DOMAIN m.caveats /\ m.caveats[i].type = "delegation_depth"
      BY <2>2 DEF Depths
    <2>4. ProperCaveat(m.caveats[i])
      BY <1>1, <2>3, LenProperties, ElementOfSeq DEF CaveatSet
    <2> QED
      BY <2>2, <2>3, <2>4 DEF ProperCaveat, CaveatOf, ElementsOf
  <1> QED
    BY <1>2, <1>3

(* The child has the caveats of its parent and a depth.                    *)
LEMMA ChildInherits ==
    ASSUME NEW p \in Processes, run \in [Processes -> Nat], NEW i \in Nat,
           NEW parent \in Macaroons, NEW agent \in Agents, NEW more \in Seq(CaveatSet)
    PROVE  LET m == Delegated(p, i, parent, agent, more)
           IN  /\ m \in Macaroons /\ m.id = i
               /\ ElementsOf(parent.caveats) \subseteq ElementsOf(m.caveats)
               /\ Depths(parent) = {} => OneDeep \in ElementsOf(m.caveats)
  <1> DEFINE m == Delegated(p, i, parent, agent, more)
             d == CaveatOf("delegation_depth", DepthOf(parent) + 1)
  <1>1. parent.caveats \in Seq(CaveatSet)
    BY DEF Macaroons
  <1>2. DepthOf(parent) \in Nat
    BY DepthIsGiven
  <1>3. d \in CaveatSet
    BY <1>2, OfItsKind
  <1> HIDE DEF d
  <1>4. <<d>> \in Seq(CaveatSet) /\ ElementsOf(<<d>>) = {d}
    BY <1>3, SingleCaveat
  <1> DEFINE deeper == parent.caveats \o <<d>>
  <1>5. deeper \in Seq(CaveatSet) /\ ElementsOf(deeper) = ElementsOf(parent.caveats) \cup {d}
    <2>1. deeper \in Seq(CaveatSet)
      BY <1>1, <1>4, ConcatProperties
    <2>2. ElementsOf(deeper) = ElementsOf(parent.caveats) \cup ElementsOf(<<d>>)
      BY <1>1, <1>4, ElementsOfBoth, Zenon
    <2> QED
      BY <1>4, <2>1, <2>2
  <1> HIDE DEF deeper
  <1>6. /\ deeper \o more \in Seq(CaveatSet)
        /\ ElementsOf(deeper \o more) = ElementsOf(parent.caveats) \cup {d} \cup ElementsOf(more)
    <2>1. deeper \o more \in Seq(CaveatSet)
      BY <1>5, ConcatProperties
    <2>2. ElementsOf(deeper \o more) = ElementsOf(deeper) \cup ElementsOf(more)
      <3>1. more \in Seq(CaveatSet) /\ deeper \in Seq(CaveatSet)
        BY <1>5
      <3> QED
        BY <3>1, ElementsOfBoth, Zenon
    <2> QED
      BY <1>5, <2>1, <2>2
  <1>7. m = [id |-> i, key |-> RootKey(p), agent |-> agent,
             caveats |-> deeper \o more]
    BY DEF Delegated, d, deeper
  <1> HIDE DEF m
  <1>8. RootKey(p) \in Keys
    BY DEF RootKey, Keys
  <1>9. m \in Macaroons /\ m.id = i
    BY <1>6, <1>7, <1>8 DEF Macaroons
  <1>10. Depths(parent) = {} => d = OneDeep
    BY DEF DepthOf, d, OneDeep
  <1>11. /\ ElementsOf(parent.caveats) \subseteq ElementsOf(m.caveats)
         /\ d \in ElementsOf(m.caveats)
    BY <1>6, <1>7
  <1> QED
    BY <1>9, <1>10, <1>11 DEF m

LEMMA ChildJoins ==
    ASSUME NEW M, NEW A, Family(M, A), NEW parent \in M,
           NEW m \in Macaroons, m.id = Cardinality(M) + 1,
           ElementsOf(parent.caveats) \subseteq ElementsOf(m.caveats),
           Depths(parent) = {} => OneDeep \in ElementsOf(m.caveats)
    PROVE  Family(M \cup {m}, Put(A, m.id, A[parent.id] \cup {parent}))
  <1> DEFINE B == Put(A, m.id, A[parent.id] \cup {parent})
  <1>1. Numbered(M \cup {m})
    BY NextNumber DEF Family
  <1>2. B[m.id] = A[parent.id] \cup {parent} /\ m.id \in DOMAIN B
    BY DEF Put
  <1>3. \A n \in M : n.id \in DOMAIN B /\ B[n.id] = A[n.id]
    BY OldRecords DEF Family, Narrowing
  <1> HIDE DEF B
  <1>4. Narrowing(M \cup {m}, B)
    <2>1. \A q \in B[m.id] : ElementsOf(q.caveats) \subseteq ElementsOf(m.caveats)
      BY <1>2 DEF Family, Narrowing
    <2>2. B[m.id] \subseteq M
      BY <1>2 DEF Family, Narrowing
    <2> QED
      BY <1>2, <1>3, <2>1, <2>2 DEF Family, Narrowing
  <1>5. Deep(M \cup {m}, B)
    <2>1. A[parent.id] \subseteq M /\ \A n \in M : A[n.id] \subseteq M
      BY DEF Family, Narrowing
    <2>2. ASSUME NEW root \in B[m.id], B[root.id] = {}, Depths(root) = {}
          PROVE  OneDeep \in ElementsOf(m.caveats)
      <3>1. CASE root = parent
        BY <2>2, <3>1
      <3>2. CASE root \in A[parent.id]
        BY <1>3, <2>1, <2>2, <3>2 DEF Family, Deep
      <3> QED
        BY <1>2, <2>2, <3>1, <3>2
    <2> QED
      BY <1>3, <2>1, <2>2 DEF Family, Deep
  <1> QED
    BY <1>1, <1>4, <1>5 DEF Family, B
-----------------------------------------------------------------------------
(* Chains.                                                                 *)

(* The descent of a macaroon does not change as others are made.           *)
LEMMA OldDescents ==
    ASSUME NEW M, NEW A, Family(M, A), NEW i, NEW x, i = Cardinality(M) + 1,
           NEW m \in M, NEW chain, IsDescent(chain, m.id, A)
    PROVE  IsDescent(chain, m.id, Put(A, i, x))
  <1>1. Put(A, i, x)[m.id] = A[m.id]
    BY OldRecords DEF Family, Narrowing
  <1> QED
    BY <1>1 DEF IsDescent

LEMMA RootChain ==
    ASSUME NEW A, NEW i \in Nat
    PROVE  IsDescent(<<i>>, i, Put(A, i, {}))
  BY DEF IsDescent, ElementsOf, Put

(* The chain of a child is that of its parent and itself.                  *)
LEMMA ChildChain ==
    ASSUME NEW M, NEW A, Family(M, A), NEW parent \in M,
           NEW chain, IsDescent(chain, parent.id, A),
           NEW i, i = Cardinality(M) + 1
    PROVE  IsDescent(chain \o <<i>>, i, Put(A, i, A[parent.id] \cup {parent}))
  <1> DEFINE x == A[parent.id] \cup {parent}
             last == <<i>>
             longer == chain \o last
  <1>1. Cardinality(M) \in Nat /\ x \subseteq M
    BY FS_CardinalityType DEF Family, Numbered, Narrowing
  <1>2. /\ chain \in Seq(Nat) /\ ElementsOf(chain) = {m.id : m \in A[parent.id]} \cup {parent.id}
        /\ \A j, k \in DOMAIN chain : j < k => chain[j] < chain[k]
    BY DEF IsDescent
  <1>3. ElementsOf(chain) = {m.id : m \in x}
    BY <1>2
  <1>4. \A j \in DOMAIN chain : chain[j] < i
    <2> SUFFICES ASSUME NEW j \in DOMAIN chain
                 PROVE  chain[j] < i
      OBVIOUS
    <2>1. chain[j] \in ElementsOf(chain)
      BY DEF ElementsOf
    <2>2. PICK m \in x : chain[j] = m.id
      BY <1>3, <2>1
    <2>3. m.id \in 1..Cardinality(M)
      BY <1>1 DEF Family, Numbered
    <2> QED
      BY <1>1, <2>2, <2>3
  <1>5. last \in Seq(Nat) /\ ElementsOf(last) = {i}
    BY <1>1, SingleCaveat
  <1>6. longer \in Seq(Nat) /\ ElementsOf(longer) = {m.id : m \in x} \cup {i}
    <2>1. longer \in Seq(Nat)
      BY <1>2, <1>5, ConcatProperties
    <2> HIDE DEF last
    <2>2. ElementsOf(longer) = ElementsOf(chain) \cup ElementsOf(last)
      BY <1>2, <1>5, ElementsOfBoth
    <2> QED
      BY <1>3, <1>5, <2>1, <2>2
  <1>7. ASSUME NEW j \in DOMAIN longer, NEW k \in DOMAIN longer, j < k
        PROVE  longer[j] < longer[k]
    <2>1. Len(chain) \in Nat /\ DOMAIN chain = 1..Len(chain)
      BY <1>2, LenProperties
    <2>2. /\ DOMAIN longer = 1..(Len(chain) + 1)
          /\ \A n \in 1..(Len(chain) + 1) :
                longer[n] = IF n <= Len(chain) THEN chain[n] ELSE i
      BY <1>1, <1>2
    <2> HIDE DEF longer
    <2>3. CASE k <= Len(chain)
      BY <1>2, <1>7, <2>1, <2>2, <2>3
    <2>4. CASE ~(k <= Len(chain))
      <3>1. j \in 1..Len(chain)
        BY <1>7, <2>1, <2>2, <2>4
      <3>2. longer[k] = i /\ longer[j] = chain[j]
        BY <2>1, <2>2, <2>4, <3>1
      <3> QED
        BY <1>4, <2>1, <3>1, <3>2
    <2> QED
      BY <2>3, <2>4
  <1>8. Put(A, i, x)[i] = x
    BY DEF Put
  <1> HIDE DEF x, longer, last
  <1>9. IsDescent(longer, i, Put(A, i, x))
    BY <1>6, <1>7, <1>8 DEF IsDescent
  <1> QED
    BY <1>9 DEF x, longer, last

(* The chains a process knows, when one joins the family.                  *)
LEMMA ChainsStay ==
    ASSUME NEW M, NEW A, Family(M, A), NEW known, ChainsFit(known, M, A),
           NEW m, NEW x, m.id = Cardinality(M) + 1
    PROVE  ChainsFit(known, M \cup {m}, Put(A, m.id, x))
  <1> SUFFICES ASSUME NEW i \in DOMAIN known
               PROVE  /\ i \in {n.id : n \in M \cup {m}}
                      /\ IsDescent(known[i], i, Put(A, m.id, x))
    BY DEF ChainsFit
  <1>1. PICK n \in M : i = n.id
    BY DEF ChainsFit
  <1>2. IsDescent(known[i], n.id, A)
    BY <1>1 DEF ChainsFit
  <1> QED
    BY <1>1, <1>2, OldDescents

LEMMA ChainAdded ==
    ASSUME NEW M, NEW A, NEW known, ChainsFit(known, M, A), NEW m \in M,
           NEW chain, IsDescent(chain, m.id, A)
    PROVE  /\ ChainsFit(Put(known, m.id, chain), M, A)
           /\ DOMAIN Put(known, m.id, chain) = DOMAIN known \cup {m.id}
  BY DEF ChainsFit, Put
-----------------------------------------------------------------------------
(* The actions.                                                            *)

LEMMA InvInit == Init => Inv
  <1> SUFFICES ASSUME Init PROVE Inv
    OBVIOUS
  <1> USE DEF Init, Nobody
  <1>1. Shapes
    BY DEF Shapes
  <1>2. Family(made, ancestors)
    BY FS_EmptySet DEF Family, Numbered, Narrowing, Deep
  <1>3. Held
    BY DEF Held
  <1>4. Chained
    BY DEF Chained, ChainsFit
  <1> QED
    BY <1>1, <1>2, <1>3, <1>4 DEF Inv

(* A macaroon m is added to the family and to what p holds, with its       *)
(* ancestors x and its chain.                                              *)
Joins(p, m, x, chain) ==
    /\ made' = made \cup {m}
    /\ ancestors' = Put(ancestors, m.id, x)
    /\ held' = [held EXCEPT ![p] = @ \cup {m}]
    /\ chains' = [chains EXCEPT ![p] = Put(@, m.id, chain)]

LEMMA JoiningKeepsChains ==
    ASSUME Inv, NEW p \in Processes, NEW m, NEW x, NEW chain, Joins(p, m, x, chain),
           m.id = NextId, Family(made', ancestors'), IsDescent(chain, m.id, ancestors'),
           UNCHANGED claims
    PROVE  /\ Chained'
           /\ \A q \in Processes : /\ held[q] \subseteq held'[q]
                                   /\ held'[q] \subseteq made'
                                   /\ \A n \in held'[q] : n.id \in DOMAIN chains'[q]
           /\ made \subseteq made' /\ m \in held'[p]
           /\ held' \in [Processes -> SUBSET made'] /\ DOMAIN chains' = Processes
  <1> USE DEF Inv
  <1>1. \A q \in Processes : ChainsFit(chains[q], made', ancestors')
    BY ChainsStay DEF Joins, Chained, NextId
  <1>2. m \in made'
    BY DEF Joins
  <1>3. /\ ChainsFit(Put(chains[p], m.id, chain), made', ancestors')
        /\ DOMAIN Put(chains[p], m.id, chain) = DOMAIN chains[p] \cup {m.id}
    <2>1. ChainsFit(chains[p], made', ancestors')
      BY <1>1
    <2> QED
      BY <1>2, <2>1, ChainAdded
  <1>4. /\ chains'[p] = Put(chains[p], m.id, chain) /\ held'[p] = held[p] \cup {m}
        /\ \A q \in Processes \ {p} : chains'[q] = chains[q] /\ held'[q] = held[q]
        /\ held' \in [Processes -> SUBSET made'] /\ DOMAIN chains' = Processes
    BY DEF Joins, Shapes
  <1>5. \A q \in Processes : ChainsFit(chains'[q], made', ancestors')
    BY <1>1, <1>3, <1>4
  <1>6. \A c \in claims' : c.macaroon \in made' /\ IsDescent(c.chain, c.macaroon.id, ancestors')
    BY OldDescents DEF Joins, Chained, NextId
  <1>7. \A q \in Processes : /\ held[q] \subseteq held'[q]
                             /\ held'[q] \subseteq made'
                             /\ \A n \in held'[q] : n.id \in DOMAIN chains'[q]
    BY <1>3, <1>4 DEF Joins, Held
  <1> QED
    BY <1>2, <1>4, <1>5, <1>6, <1>7 DEF Joins, Chained
(* The invariant's half that is about macaroons, with what is known of     *)
(* what processes hold, after one or more have joined.                     *)
Grown ==
    /\ Family(made, ancestors)' /\ Chained'
    /\ \A q \in Processes : /\ held[q] \subseteq held'[q]
                            /\ held'[q] \subseteq made'
                            /\ \A n \in held'[q] : n.id \in DOMAIN chains'[q]
    /\ made \subseteq made'
    /\ held' \in [Processes -> SUBSET made'] /\ DOMAIN chains' = Processes

LEMMA NextIdIsNew ==
    ASSUME Inv
    PROVE  /\ IsFiniteSet(made) /\ Cardinality(made) \in Nat
           /\ NextId = Cardinality(made) + 1 /\ NextId \in Nat
  BY FS_CardinalityType DEF Inv, Family, Numbered, NextId

LEMMA RootIsMacaroon ==
    ASSUME Inv, NEW p \in Processes, NEW i \in Nat, NEW agent \in Agents,
           NEW s \in Seq(CaveatSet)
    PROVE  RootFor(p, i, agent, s) \in Macaroons
  <1>1. RootKey(p) \in Keys
    BY DEF Inv, Shapes, RootKey, Keys
  <1> QED
    BY <1>1 DEF RootFor, Macaroons

LEMMA EmptyIsProper == <<>> \in Seq(CaveatSet)
  BY EmptySeq

(* A new root, with its chain.                                             *)
LEMMA MakeRoot ==
    ASSUME Inv, NEW p \in Processes, NEW agent \in Agents, NEW s \in Seq(CaveatSet),
           NEW m, m = RootFor(p, NextId, agent, s),
           Joins(p, m, {}, <<m.id>>), UNCHANGED claims
    PROVE  Grown /\ m \in held'[p]
  <1>1. m \in Macaroons /\ m.id = NextId /\ m.caveats = s /\ NextId \in Nat
    BY RootIsMacaroon, NextIdIsNew DEF RootFor
  <1>2. Family(made', ancestors')
    <2>1. Family(made \cup {m}, Put(ancestors, m.id, {}))
      BY <1>1, NextIdIsNew, RootJoins DEF Inv
    <2> QED
      BY <2>1 DEF Joins
  <1>3. IsDescent(<<m.id>>, m.id, ancestors')
    BY <1>1, RootChain DEF Joins
  <1> QED
    BY <1>1, <1>2, <1>3, JoiningKeepsChains DEF Grown

(* A new child of a macaroon that the process holds.                       *)
LEMMA MakeChild ==
    ASSUME Inv, NEW p \in Processes, NEW parent \in held[p], NEW r \in Restrictions,
           Make(p, parent, r.to, CaveatsFor(r)), UNCHANGED claims
    PROVE  Grown /\ Delegated(p, NextId, parent, r.to, CaveatsFor(r)) \in held'[p]
  <1> DEFINE m == Delegated(p, NextId, parent, r.to, CaveatsFor(r))
             chain == chains[p][parent.id] \o <<m.id>>
  <1>1. /\ parent \in made /\ parent \in Macaroons /\ parent.id \in DOMAIN chains[p]
        /\ run \in [Processes -> Nat] /\ now \in Nat
    BY DEF Inv, Held, Shapes, Family, Narrowing
  <1>2. r.to \in Agents /\ CaveatsFor(r) \in Seq(CaveatSet)
    BY <1>1, DelegationFacts, RestrictionsAreProper
  <1>3. /\ m \in Macaroons /\ m.id = NextId
        /\ ElementsOf(parent.caveats) \subseteq ElementsOf(m.caveats)
        /\ Depths(parent) = {} => OneDeep \in ElementsOf(m.caveats)
    BY <1>1, <1>2, NextIdIsNew, ChildInherits
  <1>4. Joins(p, m, ancestors[parent.id] \cup {parent}, chain)
    BY <1>1 DEF Joins, Make, ChainFor, Descent, Inv, Shapes
  <1> HIDE DEF m, chain
  <1>5. Family(made', ancestors')
    <2>1. Family(made \cup {m}, Put(ancestors, m.id, ancestors[parent.id] \cup {parent}))
      BY <1>1, <1>3, NextIdIsNew, ChildJoins DEF Inv
    <2> QED
      BY <1>4, <2>1 DEF Joins
  <1>6. IsDescent(chain, m.id, ancestors')
    <2>1. IsDescent(chains[p][parent.id], parent.id, ancestors)
      BY <1>1 DEF Inv, Chained, ChainsFit
    <2>2. IsDescent(chains[p][parent.id] \o <<m.id>>, m.id,
                    Put(ancestors, m.id, ancestors[parent.id] \cup {parent}))
      BY <1>1, <1>3, <2>1, NextIdIsNew, ChildChain DEF Inv
    <2> QED
      BY <1>4, <2>2 DEF Joins, chain
  <1>7. Grown /\ m \in held'[p]
    BY <1>3, <1>4, <1>5, <1>6, JoiningKeepsChains DEF Grown
  <1> QED
    BY <1>7 DEF m
(* What a process knows of a macaroon may be the chain it has on record.   *)
LEMMA HeldChain ==
    ASSUME Inv, NEW p \in Processes, NEW m \in held[p]
    PROVE  /\ m \in made /\ m.id \in DOMAIN chains[p]
           /\ ChainAt(p, m.id) = chains[p][m.id]
           /\ IsDescent(chains[p][m.id], m.id, ancestors)
  BY DEF Inv, Held, Chained, ChainsFit, ChainAt

(* A fresh root and its child at once.                                     *)
LEMMA DelegateAccessGrows ==
    ASSUME Inv, NEW p \in Processes, NEW delegator \in Agents, NEW r \in Restrictions,
           DelegateAccess(p, delegator, r)
    PROVE  Grown /\ tokens' \subseteq made'
  <1> DEFINE root   == RootFor(p, NextId, delegator, <<>>)
             child  == Delegated(p, NextId + 1, root, r.to, CaveatsFor(r))
             known  == Put(chains[p], root.id, <<root.id>>)
             chain  == <<root.id>> \o <<child.id>>
             M1     == made \cup {root}
             A1     == Put(ancestors, root.id, {})
             M2     == M1 \cup {child}
             A2     == Put(A1, child.id, A1[root.id] \cup {root})
             known2 == Put(known, child.id, chain)
  <1>1. /\ root \in Macaroons /\ root.id = NextId /\ root.caveats = <<>>
        /\ NextId = Cardinality(made) + 1 /\ NextId \in Nat /\ Cardinality(made) \in Nat
    BY RootIsMacaroon, NextIdIsNew, EmptyIsProper DEF RootFor
  <1>2. /\ child \in Macaroons /\ child.id = NextId + 1
        /\ ElementsOf(root.caveats) \subseteq ElementsOf(child.caveats)
        /\ Depths(root) = {} => OneDeep \in ElementsOf(child.caveats)
    <2>1. /\ run \in [Processes -> Nat] /\ r.to \in Agents /\ CaveatsFor(r) \in Seq(CaveatSet)
          /\ NextId + 1 \in Nat
      BY <1>1, DelegationFacts, RestrictionsAreProper DEF Inv, Shapes
    <2> HIDE DEF root
    <2> QED
      BY <1>1, <2>1, ChildInherits
  <1>3. A1[root.id] = {} /\ known[root.id] = <<root.id>> /\ root.id \in DOMAIN known
    BY DEF Put
  <1>4. /\ held' = [held EXCEPT ![p] = @ \cup {root, child}]
        /\ made' = M2 /\ ancestors' = A2 /\ tokens' = tokens \cup {child}
        /\ chains' = [chains EXCEPT ![p] = known2] /\ UNCHANGED claims
    <2>1. ChainFor(known, root, child.id) = chain
      BY <1>3 DEF ChainFor
    <2>2. A1[root.id] \cup {root} = {root} /\ M2 = made \cup {root, child}
      BY <1>3
    <2>3. /\ held' = [held EXCEPT ![p] = @ \cup {root, child}]
          /\ made' = made \cup {root, child}
          /\ chains' = [chains EXCEPT ![p] =
                           Put(known, child.id, ChainFor(known, root, child.id))]
          /\ ancestors' = Put(A1, child.id, {root})
          /\ tokens' = tokens \cup {child} /\ UNCHANGED claims
      BY DEF DelegateAccess
    <2> HIDE DEF root, child, known, chain, M1, A1
    <2> QED
      BY <2>1, <2>2, <2>3
  <1> HIDE DEF root, child, known
  <1>5. Family(M1, A1) /\ Cardinality(M1) = NextId
    BY <1>1, RootJoins, NextNumber DEF Inv, Family
  <1>6. IsDescent(<<root.id>>, root.id, A1)
    BY <1>1, RootChain
  <1>7. root \in M1 /\ child \in M2 /\ M1 \subseteq M2 /\ made \subseteq M2
    OBVIOUS
  <1> HIDE DEF M1, A1
  <1>8. Family(M2, A2)
    BY <1>2, <1>5, <1>7, ChildJoins
  <1>9. IsDescent(chain, child.id, A2)
    BY <1>2, <1>5, <1>6, <1>7, ChildChain
  <1>10. \A q \in Processes : ChainsFit(chains[q], M1, A1)
    BY <1>1, ChainsStay DEF Inv, Chained, M1, A1
  <1>11. \A q \in Processes : ChainsFit(chains[q], M2, A2)
    BY <1>2, <1>5, <1>10, ChainsStay
  <1>12. ChainsFit(known, M1, A1) /\ DOMAIN known = DOMAIN chains[p] \cup {root.id}
    <2>1. ChainsFit(chains[p], M1, A1)
      BY <1>10
    <2>2. \A c : IsDescent(c, root.id, A1)
                    => /\ ChainsFit(Put(chains[p], root.id, c), M1, A1)
                       /\ DOMAIN Put(chains[p], root.id, c) = DOMAIN chains[p] \cup {root.id}
      BY <1>7, <2>1, ChainAdded
    <2> QED
      BY <1>6, <2>2 DEF known
  <1>13. ChainsFit(known, M2, A2)
    BY <1>2, <1>5, <1>12, ChainsStay
  <1> HIDE DEF M2, A2, chain
  <1>14. ChainsFit(known2, M2, A2) /\ DOMAIN known2 = DOMAIN known \cup {child.id}
    BY <1>7, <1>9, <1>13, ChainAdded
  <1> HIDE DEF known2
  <1>15. /\ chains'[p] = known2 /\ held'[p] = held[p] \cup {root, child}
         /\ \A q \in Processes \ {p} : chains'[q] = chains[q] /\ held'[q] = held[q]
         /\ held' \in [Processes -> SUBSET made'] /\ DOMAIN chains' = Processes
    BY <1>4, <1>7 DEF Inv, Shapes
  <1>16. \A q \in Processes : ChainsFit(chains'[q], made', ancestors')
    BY <1>4, <1>11, <1>14, <1>15
  <1>17. \A c \in claims' : c.macaroon \in made' /\ IsDescent(c.chain, c.macaroon.id, ancestors')
    <2> SUFFICES ASSUME NEW c \in claims
                 PROVE  c.macaroon \in M2 /\ IsDescent(c.chain, c.macaroon.id, A2)
      BY <1>4
    <2>1. c.macaroon \in made /\ IsDescent(c.chain, c.macaroon.id, ancestors)
      BY DEF Inv, Chained
    <2>2. c.macaroon \in M1 /\ IsDescent(c.chain, c.macaroon.id, A1)
      BY <1>1, <2>1, OldDescents DEF Inv, M1, A1
    <2> QED
      BY <1>2, <1>5, <1>7, <2>2, OldDescents DEF A2
  <1>18. \A q \in Processes : /\ held[q] \subseteq held'[q]
                              /\ held'[q] \subseteq made'
                              /\ \A n \in held'[q] : n.id \in DOMAIN chains'[q]
    BY <1>4, <1>7, <1>12, <1>14, <1>15 DEF Inv, Held
  <1>19. Chained'
    BY <1>16, <1>17 DEF Chained
  <1>20. Family(made, ancestors)'
    BY <1>4, <1>8
  <1> QED
    BY <1>4, <1>7, <1>15, <1>18, <1>19, <1>20 DEF Grown, Inv, Shapes

(* The rest of the invariant, when macaroons joined.                       *)
LEMMA GrownKeepsInv ==
    ASSUME Inv, Grown, UNCHANGED <<now, run>>, tokens' \subseteq made',
           current' \in [Processes -> made' \cup {None}], DOMAIN links' = Processes,
           \A q \in Processes : /\ current'[q] \in held'[q] \cup {None, current[q]}
                                /\ \A a \in DOMAIN links'[q] :
                                      links'[q][a] \in made' \/ (a \in DOMAIN links[q] /\ links'[q][a] = links[q][a])
    PROVE  Inv'
  <1>1. Shapes'
    BY DEF Inv, Shapes, Grown
  <1>2. Held'
    BY DEF Inv, Held, Grown
  <1> QED
    BY <1>1, <1>2 DEF Inv, Grown
LEMMA InvNext == Inv /\ [Next]_vars => Inv'
  <1> SUFFICES ASSUME Inv, [Next]_vars PROVE Inv'
    OBVIOUS
  <1>a. /\ tokens \subseteq made
        /\ current \in [Processes -> made \cup {None}] /\ DOMAIN links = Processes
        /\ held \in [Processes -> SUBSET made] /\ DOMAIN chains = Processes
        /\ run \in [Processes -> Nat] /\ now \in Nat
    BY DEF Inv, Shapes
  <1>b. \A q \in Processes : current[q] = None \/ current[q] \in held[q]
    BY DEF Inv, Held
  <1>1. ASSUME NEW p \in Processes, NEW a \in Agents, NEW s \in InitialCaveats,
               CreateRootMacaroon(p, a, s)
        PROVE  Inv'
    <2>1. s \in Seq(CaveatSet)
      BY InitialAreProper
    <2> DEFINE m == RootFor(p, NextId, a, s)
    <2>2. Joins(p, m, {}, <<m.id>>) /\ UNCHANGED <<now, run, current, links, tokens, claims>>
      BY <1>1 DEF CreateRootMacaroon, Joins
    <2> HIDE DEF m
    <2>3. Grown
      BY <2>1, <2>2, MakeRoot DEF m
    <2>4. tokens' \subseteq made' /\ current' \in [Processes -> made' \cup {None}]
      BY <1>a, <2>2, <2>3 DEF Grown
    <2> QED
      BY <1>a, <2>2, <2>3, <2>4, GrownKeepsInv
  <1>2. ASSUME NEW p \in Processes, NEW m \in held[p], ToClaims(p, m)
        PROVE  Inv'
    <2>1. /\ UNCHANGED <<now, processVars, tokens, made, ancestors>>
          /\ claims' = claims \cup {[macaroon |-> m, chain |-> ChainAt(p, m.id)]}
      BY <1>2 DEF ToClaims
    <2>2. Chained'
      BY <2>1, HeldChain DEF Inv, Chained, processVars
    <2> QED
      BY <2>1, <2>2 DEF Inv, Shapes, Held, processVars
  <1>3. ASSUME NEW p \in Processes, NEW m \in held[p], NEW r \in Restrictions,
               DelegateMacaroon(p, m, r)
        PROVE  Inv'
    <2>1. /\ Make(p, m, r.to, CaveatsFor(r))
          /\ UNCHANGED <<now, run, current, links, tokens, claims>>
      BY <1>3 DEF DelegateMacaroon
    <2>2. Grown
      BY <2>1, MakeChild
    <2>3. tokens' \subseteq made' /\ current' \in [Processes -> made' \cup {None}]
      BY <1>a, <2>1, <2>2 DEF Grown
    <2> QED
      BY <1>a, <2>1, <2>2, <2>3, GrownKeepsInv
  <1>4. ASSUME NEW p \in Processes, NEW c \in claims, FromClaims(p, c)
        PROVE  Inv'
    <2> DEFINE i == c.macaroon.id
               known == IF i \in DOMAIN chains[p] THEN chains[p] ELSE Put(chains[p], i, c.chain)
    <2>1. /\ held' = [held EXCEPT ![p] = @ \cup {c.macaroon}]
          /\ chains' = [chains EXCEPT ![p] = known]
          /\ UNCHANGED <<now, run, current, links, tokens, claims, made, ancestors>>
      BY <1>4 DEF FromClaims
    <2>2. c.macaroon \in made /\ IsDescent(c.chain, i, ancestors)
      BY DEF Inv, Chained
    <2>3. ChainsFit(chains[p], made, ancestors)
      BY DEF Inv, Chained
    <2> HIDE DEF i
    <2>4. /\ ChainsFit(known, made, ancestors)
          /\ DOMAIN chains[p] \subseteq DOMAIN known /\ i \in DOMAIN known
      <3>1. CASE i \in DOMAIN chains[p]
        BY <2>3, <3>1
      <3>2. CASE i \notin DOMAIN chains[p]
        <4>1. \A m \in made : \A h : IsDescent(h, m.id, ancestors)
                  => /\ ChainsFit(Put(chains[p], m.id, h), made, ancestors)
                     /\ DOMAIN Put(chains[p], m.id, h) = DOMAIN chains[p] \cup {m.id}
          BY <2>3 DEF ChainsFit, Put
        <4> QED
          BY <2>2, <3>2, <4>1 DEF i
      <3> QED
        BY <3>1, <3>2
    <2> HIDE DEF known
    <2>5. /\ held'[p] = held[p] \cup {c.macaroon} /\ chains'[p] = known
          /\ \A q \in Processes \ {p} : held'[q] = held[q] /\ chains'[q] = chains[q]
          /\ held' \in [Processes -> SUBSET made] /\ DOMAIN chains' = Processes
      BY <1>a, <2>1, <2>2
    <2>6. Held'
      BY <2>1, <2>2, <2>4, <2>5 DEF Inv, Held, i
    <2>7. Chained'
      BY <2>1, <2>4, <2>5 DEF Inv, Chained
    <2> QED
      BY <2>1, <2>5, <2>6, <2>7 DEF Inv, Shapes
  <1>5. ASSUME NEW p \in Processes, NEW a \in Agents, NEW r \in Restrictions,
               DelegateAccess(p, a, r)
        PROVE  Inv'
    <2>1. Grown /\ tokens' \subseteq made'
      BY <1>5, DelegateAccessGrows
    <2>2. UNCHANGED <<now, run, current, links>>
      BY <1>5 DEF DelegateAccess
    <2>3. current' \in [Processes -> made' \cup {None}]
      BY <1>a, <2>1, <2>2 DEF Grown
    <2> QED
      BY <1>a, <2>1, <2>2, <2>3, GrownKeepsInv
  <1>6. ASSUME NEW p \in Processes, NEW a \in Agents, BeginChain(p, a)
        PROVE  Inv'
    <2> DEFINE m == RootFor(p, NextId, a, <<>>)
    <2>1. /\ Joins(p, m, {}, <<m.id>>)
          /\ current' = [current EXCEPT ![p] = m] /\ links' = [links EXCEPT ![p] = Nobody]
          /\ UNCHANGED <<now, run, tokens, claims>>
      BY <1>6 DEF BeginChain, Joins
    <2> HIDE DEF m
    <2>2. Grown /\ m \in held'[p]
      BY <2>1, EmptyIsProper, MakeRoot DEF m
    <2>3. tokens' \subseteq made' /\ current' \in [Processes -> made' \cup {None}]
      BY <1>a, <2>1, <2>2 DEF Grown
    <2>4. \A q \in Processes : /\ current'[q] \in held'[q] \cup {None, current[q]}
                               /\ \A b \in DOMAIN links'[q] :
                                     b \in DOMAIN links[q] /\ links'[q][b] = links[q][b]
      BY <1>a, <2>1, <2>2 DEF Nobody
    <2> QED
      BY <1>a, <2>1, <2>2, <2>3, <2>4, GrownKeepsInv
  <1>7. ASSUME NEW p \in Processes, NEW r \in Restrictions, AddLink(p, r)
        PROVE  Inv'
    <2> DEFINE m == Delegated(p, NextId, current[p], r.to, CaveatsFor(r))
    <2>1. /\ current[p] # None /\ Make(p, current[p], r.to, CaveatsFor(r))
          /\ current' = [current EXCEPT ![p] = m]
          /\ links' = [links EXCEPT ![p] = Put(@, r.to, m)]
          /\ UNCHANGED <<now, run, tokens, claims>>
      BY <1>7 DEF AddLink
    <2>2. Grown /\ m \in held'[p]
      BY <1>b, <2>1, MakeChild
    <2> HIDE DEF m
    <2>3. /\ tokens' \subseteq made' /\ m \in made'
          /\ current' \in [Processes -> made' \cup {None}]
      BY <1>a, <2>1, <2>2 DEF Grown
    <2>4. \A q \in Processes : current'[q] \in held'[q] \cup {None, current[q]}
      BY <1>a, <2>1, <2>2
    <2>5. \A q \in Processes : \A b \in DOMAIN links'[q] :
              links'[q][b] = m \/ (b \in DOMAIN links[q] /\ links'[q][b] = links[q][b])
      BY <1>a, <2>1 DEF Put
    <2> QED
      BY <1>a, <2>1, <2>2, <2>3, <2>4, <2>5, GrownKeepsInv
  <1>8. ASSUME NEW p \in Processes, NEW complete \in BOOLEAN, EndChain(p, complete)
        PROVE  Inv'
    <2>1. /\ current' = [current EXCEPT ![p] = None] /\ links' = [links EXCEPT ![p] = Nobody]
          /\ tokens' \subseteq tokens \cup {links[p][a] : a \in DOMAIN links[p]}
          /\ UNCHANGED <<now, run, held, chains, claims, made, ancestors>>
      BY <1>8 DEF EndChain
    <2>2. Shapes'
      BY <2>1 DEF Inv, Shapes, Held
    <2>3. Held'
      BY <1>a, <2>1 DEF Inv, Held, Nobody
    <2> QED
      BY <2>1, <2>2, <2>3 DEF Inv, Chained
  <1>9. ASSUME NEW p \in Processes, Restart(p)
        PROVE  Inv'
    <2>1. /\ run' = [run EXCEPT ![p] = @ + 1] /\ held' = [held EXCEPT ![p] = {}]
          /\ chains' = [chains EXCEPT ![p] = Nobody]
          /\ current' = [current EXCEPT ![p] = None] /\ links' = [links EXCEPT ![p] = Nobody]
          /\ UNCHANGED <<now, tokens, claims, made, ancestors>>
      BY <1>9 DEF Restart
    <2>2. Shapes'
      BY <1>a, <2>1 DEF Inv, Shapes
    <2>3. Held'
      BY <1>a, <2>1 DEF Inv, Held, Nobody
    <2>4. Chained'
      <3>1. ChainsFit(chains'[p], made, ancestors)
        BY <1>a, <2>1 DEF ChainsFit, Nobody
      <3> QED
        BY <1>a, <2>1, <3>1 DEF Inv, Chained
    <2> QED
      BY <2>1, <2>2, <2>3, <2>4 DEF Inv
  <1>10. CASE Tick
    BY <1>10 DEF Tick, Inv, Shapes, Held, Chained, processVars
  <1>11. CASE UNCHANGED vars
    BY <1>11 DEF vars, processVars, Inv, Shapes, Held, Chained
  <1> QED
    BY <1>1, <1>2, <1>3, <1>4, <1>5, <1>6, <1>7, <1>8, <1>9, <1>10, <1>11
       DEF Next, Manager, Client

LEMMA Invariance == Spec => []Inv
  BY InvInit, InvNext, PTL DEF Spec

-----------------------------------------------------------------------------
(* What follows from the invariant.                                        *)

LEMMA FamilyFacts ==
    ASSUME Inv, NEW m \in made
    PROVE  /\ m \in Macaroons /\ m.caveats \in Seq(CaveatSet)
           /\ \A q \in ancestors[m.id] : ElementsOf(q.caveats) \subseteq ElementsOf(m.caveats)
           /\ ancestors[m.id] \subseteq made
           /\ \A root \in ancestors[m.id] :
                 ancestors[root.id] = {} /\ Depths(root) = {}
                     => OneDeep \in ElementsOf(m.caveats)
  BY DEF Inv, Family, Narrowing, Deep, Macaroons

LEMMA InvTypeOK == Inv => TypeOK
  <1> SUFFICES ASSUME Inv PROVE TypeOK
    OBVIOUS
  <1>1. /\ now \in Nat /\ run \in [Processes -> Nat] /\ tokens \subseteq made
        /\ held \in [Processes -> SUBSET made] /\ current \in [Processes -> made \cup {None}]
    BY DEF Inv, Shapes, Held
  <1>2. /\ \A p \in Processes : DOMAIN chains[p] \subseteq {m.id : m \in made}
        /\ \A p \in Processes : \A a \in DOMAIN links[p] : links[p][a] \in made
        /\ \A c \in claims : c.macaroon \in made
    BY DEF Inv, Held, Chained, ChainsFit
  <1>3. ASSUME NEW m \in made
        PROVE  /\ m.id \in Nat /\ m.key \in Keys /\ m.agent \in Agents
               /\ \A i \in DOMAIN m.caveats : ProperCaveat(m.caveats[i])
    <2>1. m \in Macaroons /\ m.caveats \in Seq(CaveatSet)
      BY FamilyFacts
    <2>2. \A i \in DOMAIN m.caveats : m.caveats[i] \in CaveatSet
      BY <2>1, ElementOfSeq, LenProperties
    <2> QED
      BY <2>1, <2>2 DEF Macaroons, CaveatSet
  <1> QED
    BY <1>1, <1>2, <1>3 DEF TypeOK

LEMMA InvNarrows == Inv => DelegationNarrows
  <1> SUFFICES ASSUME Inv, NEW p \in Processes, NEW m \in made, NEW x \in Contexts,
                      Honours(p, m, x), NEW q \in ancestors[m.id],
                      NEW i \in DOMAIN q.caveats
               PROVE  CaveatHolds(q.caveats[i], x, now)
    BY DEF DelegationNarrows, AllHold
  <1>1. PICK j \in DOMAIN m.caveats : m.caveats[j] = q.caveats[i]
    BY FamilyFacts DEF ElementsOf
  <1>2. CaveatHolds(m.caveats[j], x, now)
    BY DEF Honours, Verifies, AllHold
  <1> QED
    BY <1>1, <1>2

LEMMA InvDepth == Inv => RootSetsTheDepth
  <1> SUFFICES ASSUME Inv, NEW p \in Processes, NEW m \in made, NEW x \in Contexts,
                      Honours(p, m, x), NEW root \in ancestors[m.id],
                      ancestors[root.id] = {}
               PROVE  x.depth <= IF Depths(root) = {} THEN 1 ELSE DepthOf(root)
    BY DEF RootSetsTheDepth
  <1> DEFINE limit == IF Depths(root) = {} THEN 1 ELSE DepthOf(root)
             c     == CaveatOf("delegation_depth", limit)
  <1>1. root \in Macaroons
    BY FamilyFacts
  <1>2. c \in ElementsOf(m.caveats)
    <2>1. CASE Depths(root) = {}
      BY <2>1, FamilyFacts DEF OneDeep
    <2>2. CASE Depths(root) # {}
      BY <1>1, <2>2, DepthIsGiven, FamilyFacts
    <2> QED
      BY <2>1, <2>2
  <1>3. PICK i \in DOMAIN m.caveats : m.caveats[i] = c
    BY <1>2 DEF ElementsOf
  <1>4. CaveatHolds(c, x, now)
    BY <1>3 DEF Honours, Verifies, AllHold
  <1> QED
    BY <1>4 DEF CaveatHolds, CaveatOf

LEMMA InvDescents == Inv => ChainsAreDescents
  BY DEF Inv, Chained, ChainsFit, IsDescent, ChainsAreDescents

(* Processes hold, return and turn into claims only macaroons that were    *)
(* made, each with a key of a process and caveats of their kinds.          *)
THEOREM TypeInvariant == Spec => []TypeOK
  BY Invariance, InvTypeOK, PTL

(* What a macaroon is honoured for, all that it descends from allow.       *)
THEOREM Narrowed == Spec => []DelegationNarrows
  BY Invariance, InvNarrows, PTL

(* The depth that is laid down for a root is never exceeded below it.      *)
THEOREM DepthIsTheRoots == Spec => []RootSetsTheDepth
  BY Invariance, InvDepth, PTL

(* The chains that processes know are the descents of macaroons.           *)
THEOREM Descents == Spec => []ChainsAreDescents
  BY Invariance, InvDescents, PTL
=============================================================================
