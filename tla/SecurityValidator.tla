------------------------- MODULE SecurityValidator -------------------------
(***************************************************************************)
(* The security checks of a Kubernetes token: a rate limiter and a replay  *)
(* detector, each a table under a lock of its own, shared by all requests. *)
(*                                                                         *)
(* validate_kubernetes_sat runs the checks twice: before Google verifies   *)
(* the token, and again afterwards, with the decoded claims.  A check of a *)
(* table is one step; between its checks a request holds no lock, so other *)
(* requests and the passing of time come in between.                       *)
(*                                                                         *)
(* An entry of a table carries its time.  The limiter only counts entries  *)
(* by age, so a list of times is a set of entries here, told apart by the  *)
(* check that made them.                                                   *)
(***************************************************************************)
EXTENDS Naturals, FiniteSets

CONSTANTS
    Requests,     \* calls of validate_kubernetes_sat
    Identifiers,  \* client addresses, and "unknown" where none is given
    Tokens,       \* the tokens shown, of admissible length and characters
    Malformed,    \* any other
    Claims,       \* Claims[k]: exp, iat and nbf of token k, 0 for none
    MaxAttempts,  \* 10 attempts ...
    Window,       \* ... in 5 minutes
    MaxAge,       \* 5 minutes, the memory of the replay detector
    MaxEntries,   \* 10000, its size
    MaxTokenAge,  \* 1 hour
    MaxSkew,      \* 5 minutes
    MaxTime       \* bound on the clock

ASSUME ValidatorAssumption ==
    /\ Malformed \notin Tokens
    /\ Claims \in [Tokens -> [exp : Nat, iat : Nat, nbf : Nat]]
    /\ MaxAttempts \in Nat \ {0} /\ Window \in Nat \ {0}
    /\ MaxAge \in Nat /\ MaxEntries \in Nat
    /\ MaxTokenAge \in Nat /\ MaxSkew \in Nat /\ MaxTime \in Nat
    /\ IsFiniteSet(Requests)

VARIABLES
    now,         \* the clock
    attempts,    \* the limiter's table: entries of all identifiers
    usedTokens,  \* the detector's table
    pc,          \* pc[r]: the next check of request r
    token,       \* token[r]: what it shows
    client,      \* client[r]: the identifier it is counted under
    outcome,     \* outcome[r]: how it ended
    granted,     \* history: every attempt the limiter has let through
    admitted,    \* history: every token the detector has let through
    evicted      \* history: tokens forgotten for want of space

requestVars == <<pc, token, client, outcome>>
vars == <<now, attempts, usedTokens, requestVars, granted, admitted, evicted>>

Rounds  == {1, 2}
Grants  == [request : Requests, round : Rounds, client : Identifiers, at : Nat]
Entries == [token : Tokens, at : Nat]
Places  == {"limit1", "replay1", "verify", "limit2", "replay2", "timing", "done"}

TypeOK ==
    /\ now \in Nat
    /\ attempts \subseteq Grants /\ granted \subseteq Grants
    /\ usedTokens \subseteq Entries
    /\ pc \in [Requests -> Places]
    /\ token \in [Requests -> Tokens \cup {Malformed}]
    /\ client \in [Requests -> Identifiers]
    /\ outcome \in [Requests -> {"none", "malformed", "limited", "replayed", "forged",
                                 "untimely", "unfit", "claims"}]
    /\ admitted \subseteq [request : Requests, round : Rounds, token : Tokens, at : Nat]
    /\ evicted \subseteq Tokens

(* The endpoint gives no client_ip; the service accepts one.               *)
Init ==
    /\ now = 1
    /\ attempts = {} /\ usedTokens = {}
    /\ pc = [r \in Requests |-> "limit1"]
    /\ token \in [Requests -> Tokens \cup {Malformed}]
    /\ client \in [Requests -> Identifiers]
    /\ outcome = [r \in Requests |-> "none"]
    /\ granted = {} /\ admitted = {} /\ evicted = {}

Goto(r, place) == pc' = [pc EXCEPT ![r] = place] /\ UNCHANGED outcome

End(r, result) ==
    /\ pc' = [pc EXCEPT ![r] = "done"]
    /\ outcome' = [outcome EXCEPT ![r] = result]

-----------------------------------------------------------------------------
RejectFormat(r) ==
    /\ pc[r] = "limit1" /\ token[r] = Malformed
    /\ End(r, "malformed")
    /\ UNCHANGED <<now, attempts, usedTokens, token, client,
                   granted, admitted, evicted>>

(* The entries of an identifier that are still within the window.          *)
Recent(i) == {x \in attempts : x.client = i /\ now < x.at + Window}

(* Mutant: one attempt too many.                                           *)
IsRateLimitedLate(r, round, next) ==
    /\ LET others == {x \in attempts : x.client # client[r]}
           entry  == [request |-> r, round |-> round, client |-> client[r], at |-> now]
       IN IF Cardinality(Recent(client[r])) > MaxAttempts
          THEN /\ attempts' = others \cup Recent(client[r])
               /\ End(r, "limited")
               /\ UNCHANGED granted
          ELSE /\ attempts' = others \cup Recent(client[r]) \cup {entry}
               /\ granted' = granted \cup {entry}
               /\ Goto(r, next)
    /\ UNCHANGED <<now, usedTokens, token, client, admitted, evicted>>

(* is_rate_limited: old entries of the identifier are dropped, and this    *)
(* attempt is refused or recorded.                                         *)
IsRateLimited(r, round, next) ==
    /\ LET others == {x \in attempts : x.client # client[r]}
           entry  == [request |-> r, round |-> round, client |-> client[r], at |-> now]
       IN IF Cardinality(Recent(client[r])) >= MaxAttempts
          THEN /\ attempts' = others \cup Recent(client[r])
               /\ End(r, "limited")
               /\ UNCHANGED granted
          ELSE /\ attempts' = others \cup Recent(client[r]) \cup {entry}
               /\ granted' = granted \cup {entry}
               /\ Goto(r, next)
    /\ UNCHANGED <<now, usedTokens, token, client, admitted, evicted>>

(* Mutant: an entry goes as soon as it is max_age_seconds old.             *)
Younger == {e \in usedTokens : now < e.at + MaxAge}

Young == {e \in usedTokens : now <= e.at + MaxAge}

(* Mutant: the size is not looked at.                                      *)
CleanedOfTheOld == {Young}

(* What cleanup may leave of the young entries: all, or, when they are too *)
(* many, the newest MaxEntries.  (Entries of one instant are in the order  *)
(* they were made in; here any of them may go.)                            *)
Cleaned ==
    {kept \in SUBSET Young :
        /\ \A e \in kept, d \in Young \ kept : d.at <= e.at
        /\ Cardinality(kept) = IF Cardinality(Young) > MaxEntries THEN MaxEntries
                                                                  ELSE Cardinality(Young)}

(* is_replay: cleanup, then the token is found or recorded.                *)
IsReplay(r, round, next) ==
    /\ \E kept \in Cleaned :
           /\ evicted' = evicted \cup {e.token : e \in Young \ kept}
           /\ IF \E e \in kept : e.token = token[r]
              THEN /\ usedTokens' = kept
                   /\ End(r, "replayed")
                   /\ UNCHANGED admitted
              ELSE /\ usedTokens' = kept \cup {[token |-> token[r], at |-> now]}
                   /\ admitted' = admitted \cup {[request |-> r, round |-> round,
                                                  token |-> token[r], at |-> now]}
                   /\ Goto(r, next)
    /\ UNCHANGED <<now, attempts, token, client, granted>>

(* Mutant: the format is not checked.                                      *)
Limit1Unformatted(r) == pc[r] = "limit1" /\ IsRateLimited(r, 1, "replay1")

Limit1(r)  == pc[r] = "limit1" /\ token[r] # Malformed /\ IsRateLimited(r, 1, "replay1")
Replay1(r) == pc[r] = "replay1" /\ IsReplay(r, 1, "verify")

(* Google's verification, which may take long.                             *)
Verify(r) ==
    /\ pc[r] = "verify"
    /\ Goto(r, "limit2") \/ End(r, "forged")
    /\ UNCHANGED <<now, attempts, usedTokens, token, client,
                   granted, admitted, evicted>>

Limit2(r)  == pc[r] = "limit2" /\ IsRateLimited(r, 2, "replay2")
Replay2(r) == pc[r] = "replay2" /\ IsReplay(r, 2, "timing")

(* _validate_token_timing: a claim of 0 counts as absent.                  *)
Timely(c) ==
    /\ c.exp # 0 => now < c.exp
    /\ c.iat # 0 => now <= c.iat + MaxTokenAge /\ c.iat <= now + MaxSkew
    /\ c.nbf # 0 => c.nbf <= now

(* The claims are checked: their times, then namespace and account.        *)
CheckClaims(r) ==
    /\ pc[r] = "timing"
    /\ IF Timely(Claims[token[r]]) THEN End(r, "claims") \/ End(r, "unfit")
                                   ELSE End(r, "untimely")
    /\ UNCHANGED <<now, attempts, usedTokens, token, client,
                   granted, admitted, evicted>>

Tick ==
    /\ now < MaxTime
    /\ now' = now + 1
    /\ UNCHANGED <<attempts, usedTokens, requestVars, granted, admitted, evicted>>

Next ==
    \/ Tick
    \/ \E r \in Requests :
           \/ RejectFormat(r)
           \/ Limit1(r) \/ Replay1(r) \/ Verify(r)
           \/ Limit2(r) \/ Replay2(r) \/ CheckClaims(r)

Spec == Init /\ [][Next]_vars

-----------------------------------------------------------------------------
(* Properties.                                                             *)

(* In the window that ends with any attempt let through, no more attempts  *)
(* were let through for its identifier than the limit, whatever checks of  *)
(* whatever requests they came from.                                       *)
AttemptsAreRationed ==
    \A x \in granted :
        Cardinality({y \in granted : /\ y.client = x.client
                                     /\ y.at <= x.at /\ x.at < y.at + Window})
            <= MaxAttempts

(* A token does not pass the detector twice within its memory, by the same *)
(* request or another, unless the table was too small to remember it.      *)
TokensPassOnce ==
    \A a, b \in admitted :
        a.token = b.token /\ a.at <= b.at /\ b.at <= a.at + MaxAge =>
            a = b \/ a.token \in evicted

(* The table is cleaned before it grows: it never exceeds its size by more *)
(* than the entry just made, and holds one entry for a token.              *)
TableIsBounded ==
    /\ Cardinality(usedTokens) <= MaxEntries + 1
    /\ \A d, e \in usedTokens : d.token = e.token => d = e
=============================================================================
