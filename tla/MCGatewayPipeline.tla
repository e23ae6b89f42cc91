------------------------- MODULE MCGatewayPipeline -------------------------
(* GatewayPipeline for TLC: two domains, five origins, and one request of  *)
(* every kind the pipeline tells apart.                                    *)
EXTENDS GatewayPipeline

CONSTANTS r1, r2, t1, t2, forged, d1, d2, http1, https1, https2, gopher1, local2, s1

MCPermissions == [t \in {t1, t2, forged} |-> IF t = t1 THEN {d1, "GET"} ELSE {}]
MCDomainOf == [o \in {http1, https1, https2, gopher1, local2} |->
                  IF o \in {http1, https1, gopher1} THEN d1 ELSE d2]
MCUpgrades == {<<http1, https1>>}
MCDefaultSecret == [d \in {d1, d2} |-> IF d = d1 THEN s1 ELSE None]

Plain == [path |-> "proxy", token |-> t1, target |-> http1, method |-> "GET",
          length |-> 0, media |-> "plain", secret |-> None]
Other == [Plain EXCEPT !.token = t2, !.target = https2]

Kinds ==
    {Plain, Other}
    \cup {[Plain EXCEPT !.target = x] : x \in {None, Unparsable, Relative, gopher1}}
    \cup {[Plain EXCEPT !.path = "elsewhere"], [Plain EXCEPT !.token = forged],
          [Plain EXCEPT !.method = "POST"], [Plain EXCEPT !.length = 3],
          [Plain EXCEPT !.media = "stream"], [Other EXCEPT !.target = local2],
          [Other EXCEPT !.secret = s1]}

(* One request is of any kind, the other wants connections.                *)
MCAsks == [r \in {r1, r2} |-> IF r = r1 THEN Kinds ELSE {Plain, Other}]
=============================================================================
