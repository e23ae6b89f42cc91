------------------------------- MODULE MCSdk -------------------------------
(* The SDK for TLC: two threads of one process and one of another, each    *)
(* with its own calls; two agents, one of a name somebody looks for.       *)
EXTENDS SdkCalls, TLC

CONSTANTS c1, c2, c3, p1, p2, a1, a2, n1, n2, x0, x1, x2

MCProcessOf == [c \in {c1, c2, c3} |-> IF c = c3 THEN p2 ELSE p1]
MCKnown     == a1 :> n1 @@ a2 :> n2
MCHosts     == {{"/home", "terminal"},
                {"k8s token", "KUBERNETES_SERVICE_HOST", "AWS_REGION"},
                {"Azure IMDS"}, {"cgroup docker"}}

Ask(kind, on, opt) == [kind |-> kind, on |-> on, opt |-> opt]

MCAsks ==
    c1 :> {Ask("request", a1, FALSE), Ask("revoke", x1, TRUE)} @@
    c2 :> {Ask("delete", a2, FALSE), Ask("create", n2, FALSE), Ask("revoke", x1, TRUE)} @@
    c3 :> {Ask("find", n2, TRUE), Ask("login", a1, FALSE), Ask("issue", a2, FALSE),
           Ask("lookup", a1, FALSE), Ask("verify", x1, FALSE), Ask("revoke", x2, TRUE),
           Ask("rotate", a1, TRUE), Ask("discard", a1, FALSE), Ask("auto", a1, FALSE),
           Ask("tokenless", a1, FALSE), Ask("proxy", a1, FALSE), Ask("update", a1, FALSE),
           Ask("administer", a1, FALSE), Ask("inquire", a1, FALSE), Ask("vouch", x1, FALSE),
           Ask("session", a1, FALSE), Ask("declined", a1, FALSE), Ask("cleanup", a1, FALSE)}
=============================================================================
