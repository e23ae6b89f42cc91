--------------------------- MODULE ProxyContract ---------------------------
(***************************************************************************)
(* What agents and targets are promised of the gateway, without its        *)
(* middlewares: a request is asked once, it reaches targets only if it was *)
(* admissible and at most MaxRedirects + 1 times, credentials go to the    *)
(* domain it was asked for only, and a request that is refused has reached *)
(* nobody.                                                                 *)
(***************************************************************************)
EXTENDS Naturals, FiniteSets

CONSTANTS Requests, Queries, Admissible, Entitled, DomainOf, MaxRedirects, None

VARIABLES
    setting,  \* the enforcement mode the gateway runs with
    asked,    \* asked[r]: what r asks, None before it does
    phase,    \* phase[r]: "idle", "open", "refused", "failed" or "answered"
    got       \* what targets have received

contractVars == <<setting, asked, phase, got>>

Of(r) == {g \in got : g.request = r}

Init ==
    /\ setting \in {"strict", "permissive", "disabled"}
    /\ asked = [r \in Requests |-> None]
    /\ phase = [r \in Requests |-> "idle"]
    /\ got = {}

Ask(r, q) ==
    /\ phase[r] = "idle"
    /\ asked' = [asked EXCEPT ![r] = q]
    /\ phase' = [phase EXCEPT ![r] = "open"]
    /\ UNCHANGED <<setting, got>>

Credentials(r, o) ==
    {None} \cup {a \in Entitled[asked[r]] : DomainOf[o] = DomainOf[asked[r].target]}

(* A target receives r.  Whatever target that is, a credential comes only  *)
(* to the domain that was asked for, and only one that r is entitled to.   *)
Receive(r) ==
    /\ phase[r] = "open"
    /\ <<setting, asked[r]>> \in Admissible
    /\ \E o \in DOMAIN DomainOf, n \in 0 .. MaxRedirects :
          /\ n = 0 => o = asked[r].target
          /\ \A h \in Of(r) : h.hop < n
          /\ \E a \in Credentials(r, o) :
                got' = got \cup {[request |-> r, origin |-> o, auth |-> a, hop |-> n]}
    /\ UNCHANGED <<setting, asked, phase>>

Close(r, how) ==
    /\ phase[r] = "open"
    /\ how = "refused" => Of(r) = {}
    /\ how = "answered" => Of(r) # {}
    /\ phase' = [phase EXCEPT ![r] = how]
    /\ UNCHANGED <<setting, asked, got>>

Next ==
    \E r \in Requests :
        \/ \E q \in Queries : Ask(r, q)
        \/ Receive(r)
        \/ \E how \in {"refused", "failed", "answered"} : Close(r, how)

Spec == Init /\ [][Next]_contractVars
=============================================================================
