----------------------- MODULE GatewayPipelineProofs -----------------------
(***************************************************************************)
(* GatewayPipeline keeps its types, lets a token leave in the place of a   *)
(* secret only for want of it, and implements ProxyContract, whatever the  *)
(* requests, tokens, permissions, targets, limits and modes.               *)
(*                                                                         *)
(* The invariant says, for each place on the way of a request, what has    *)
(* been established there, and relates the request to what targets have    *)
(* received of it.                                                         *)
(***************************************************************************)
EXTENDS GatewayPipeline, TLAPS

Of(r)    == {g \in got : g.request = r}
Early    == {"idle", "jwt", "policy", "inject", "proxy"}
Inside   == {"policy", "inject", "proxy", "connect", "wait"}
Received == [request : Requests, origin : Origins,
             auth : DOMAIN Permissions \cup Secrets \cup {None}, hop : 0 .. MaxRedirects]

(* A request that has come in is one of those that may be asked, and has   *)
(* what it came with until something replaces it.                          *)
AskedFor ==
    \A r \in Requests :
        /\ pc[r] # "idle" => query[r] \in Queries
        /\ pc[r] \in {"idle"} => hops[r] = 0
        /\ pc[r] \in {"jwt", "policy", "inject"} =>
              auth[r] = query[r].token /\ to[r] = query[r].target /\ hops[r] = 0
        /\ pc[r] = "proxy" => to[r] = query[r].target /\ hops[r] = 0

(* Past the first middleware the request is one with a good token, past    *)
(* the second one that the policy allows, as far as the mode asks it.      *)
LetThrough ==
    \A r \in Requests :
        /\ pc[r] \in Inside => query[r].path = "proxy" /\ query[r].token \in Genuine
        /\ pc[r] \in {"inject", "proxy"} =>
              \/ mode = "disabled" \/ query[r].target = Unparsable
              \/ PolicyAllows(query[r])
        /\ pc[r] \in {"connect", "wait"} =>
              <<mode, query[r]>> \in Admissible /\ to[r] \in Origins

(* What the Authorization header carries from the third middleware on.     *)
Headed ==
    \A r \in Requests :
        /\ pc[r] = "proxy" => auth[r] \in {query[r].token, SecretName(query[r])}
        /\ pc[r] \in {"connect", "wait"} =>
              /\ auth[r] \in {query[r].token, SecretName(query[r]), None}
              /\ auth[r] # None => DomainOf[to[r]] = DomainOf[query[r].target]
              /\ hops[r] = 0 => to[r] = query[r].target
        /\ /\ pc[r] \in {"proxy", "connect", "wait"}
           /\ auth[r] = query[r].token /\ SecretName(query[r]) # None
           => r \in unmet

(* What targets have received of a request, against how far it is.         *)
Counted ==
    \A r \in Requests :
        /\ pc[r] \in Early => Of(r) = {}
        /\ pc[r] = "connect" => \A g \in Of(r) : g.hop < hops[r]
        /\ pc[r] = "wait" => Of(r) # {} /\ \A g \in Of(r) : g.hop <= hops[r]

Inv == TypeOK /\ AskedFor /\ LetThrough /\ Headed /\ Counted /\ TokenLeavesForWantOfSecret

USE GatewayAssumption

-----------------------------------------------------------------------------
(* The secret of a request is one of the secrets, or none.                 *)
LEMMA SecretNames == ASSUME NEW q \in Queries
                     PROVE  SecretName(q) \in Secrets \cup {None}
  BY DEF SecretName, Domains

(* A token of a request that is past the door is neither a secret nor      *)
(* nothing.                                                                *)
LEMMA TokensAreNoSecrets == ASSUME NEW q \in Queries, q.token \in Genuine
                            PROVE  q.token # None /\ q.token \notin Secrets
                                   /\ q.token # SecretName(q)
  BY SecretNames

(* The validator objects with one of its codes, or not at all.             *)
LEMMA Objections == ASSUME NEW q \in Queries
                    PROVE  /\ Objection(q) \in {0, 400, 403, 413}
                           /\ Objection(q) = 0 => q.target \in Origins \ Blocked
  BY DEF Objection, NoTarget, IsBlocked, TooLarge

-----------------------------------------------------------------------------
(* The invariant holds at first.                                           *)
LEMMA InvInit == Init => Inv
  <1> SUFFICES ASSUME Init PROVE Inv
    OBVIOUS
  <1>1. TypeOK
    BY DEF Init, TypeOK, Unanswered, Modes, Places
  <1>2. AskedFor /\ LetThrough /\ Headed
    BY DEF Init, AskedFor, LetThrough, Headed, Inside
  <1>3. Counted /\ TokenLeavesForWantOfSecret
    BY DEF Init, Counted, Of, TokenLeavesForWantOfSecret
  <1> QED
    BY <1>1, <1>2, <1>3 DEF Inv

-----------------------------------------------------------------------------
(* A request that goes from one place to the next and keeps all it has.    *)
LEMMA PassKeeps == ASSUME Inv, NEW r \in Requests, NEW place \in {"policy", "inject", "proxy", "connect"},
                          Pass(r, place), pc[r] \in {"jwt", "policy", "inject", "proxy"},
                          query[r].path = "proxy", query[r].token \in Genuine,
                          place \in {"inject", "proxy"} =>
                              \/ mode = "disabled" \/ query[r].target = Unparsable
                              \/ PolicyAllows(query[r]),
                          place = "proxy" => pc[r] = "inject" /\ SecretName(query[r]) = None,
                          place \in {"policy", "inject"} => pc[r] \in {"jwt", "policy"},
                          place = "connect" => /\ pc[r] = "proxy"
                                               /\ <<mode, query[r]>> \in Admissible
                   PROVE  Inv'
  <1> USE DEF Inv, Pass, Goto
  <1>1. TypeOK'
    BY DEF TypeOK, Places
  <1>2. AskedFor'
    BY DEF AskedFor, TypeOK
  <1>3. LetThrough'
    <2>1. query[r] \in Queries
      BY DEF AskedFor
    <2>2. place = "connect" => to[r] \in Origins
      BY DEF AskedFor, Admissible
    <2>3. /\ mode' = mode /\ query' = query /\ to' = to
          /\ pc' \in [Requests -> Places] /\ pc'[r] = place
          /\ \A s \in Requests \ {r} : pc'[s] = pc[s]
      BY <1>1 DEF TypeOK
    <2> QED
      BY <2>2, <2>3 DEF LetThrough, Inside
  <1>4. Headed'
    BY DEF Headed, TypeOK, AskedFor, SecretName
  <1>5. Counted'
    BY DEF Counted, TypeOK, Of, Early
  <1>6. TokenLeavesForWantOfSecret'
    BY DEF TokenLeavesForWantOfSecret, SecretName
  <1> QED
    BY <1>1, <1>2, <1>3, <1>4, <1>5, <1>6 DEF Inv

(* An answer leaves nothing of the request but what targets have got.      *)
LEMMA ReplyKeeps == ASSUME Inv, NEW r \in Requests, NEW by \in {"gateway", "target", "server"},
                           NEW code \in {0, 200, 400, 401, 403, 404, 413, 500, 502, 504},
                           pc[r] # "idle", Reply(r, by, code)
                    PROVE  Inv'
  <1> USE DEF Inv, Reply, Goto
  <1>1. TypeOK'
    BY DEF TypeOK, Places
  <1>2. AskedFor'
    BY DEF AskedFor, TypeOK
  <1>3. LetThrough'
    <2>1. /\ mode' = mode /\ query' = query /\ pc'[r] = "done"
          /\ \A s \in Requests \ {r} : pc'[s] = pc[s] /\ to'[s] = to[s]
      BY DEF TypeOK
    <2> QED
      BY <2>1 DEF LetThrough, Inside
  <1>4. Headed'
    BY DEF Headed, TypeOK, SecretName
  <1>5. Counted'
    BY DEF Counted, TypeOK, Of, Early
  <1>6. TokenLeavesForWantOfSecret'
    BY DEF TokenLeavesForWantOfSecret, SecretName
  <1> QED
    BY <1>1, <1>2, <1>3, <1>4, <1>5, <1>6 DEF Inv

-----------------------------------------------------------------------------
(* What HandleProxyRequest lets on to the client is admissible.            *)
LEMMA HandledAreAdmissible ==
    ASSUME Inv, NEW r \in Requests, pc[r] = "proxy",
           Objection(query[r]) = 0, ~ClientRefuses(query[r])
    PROVE  <<mode, query[r]>> \in Admissible
  <1> DEFINE q == query[r]
  <1>1. mode \in Modes /\ q \in Queries /\ q.path = "proxy" /\ q.token \in Genuine
    <2>1. mode \in Modes
      BY DEF Inv, TypeOK
    <2>2. q \in Queries
      BY DEF Inv, AskedFor
    <2>3. q.path = "proxy" /\ q.token \in Genuine
      BY DEF Inv, LetThrough, Inside
    <2> QED
      BY <2>1, <2>2, <2>3
  <1>2. q.target \in Origins \ Blocked /\ q.target \notin NotHttp
    BY <1>1, Objections DEF ClientRefuses
  <1>3. mode = "disabled" \/ PolicyAllows(q)
    BY <1>2 DEF Inv, LetThrough
  <1> QED
    BY <1>1, <1>2, <1>3 DEF Admissible, PolicyAllows

(* Every action keeps the invariant.                                       *)
LEMMA InvNext == Inv /\ [Next]_vars => Inv'
  <1> SUFFICES ASSUME Inv, [Next]_vars PROVE Inv'
    OBVIOUS
  <1> USE DEF Inv
  <1>1. ASSUME NEW r \in Requests, NEW q \in Asks[r], Arrive(r, q) PROVE Inv'
    <2> USE <1>1 DEF Arrive, Goto
    <2>1. q \in Queries
      BY DEF Queries
    <2>2. TypeOK'
      BY <2>1 DEF TypeOK, Places
    <2>3. /\ query'[r] = q /\ auth'[r] = q.token /\ to'[r] = q.target /\ pc'[r] = "jwt"
          /\ \A s \in Requests \ {r} : /\ query'[s] = query[s] /\ auth'[s] = auth[s]
                                      /\ to'[s] = to[s] /\ pc'[s] = pc[s]
      BY DEF TypeOK
    <2>4. AskedFor'
      BY <2>1, <2>3 DEF AskedFor
    <2>5. LetThrough' /\ Headed'
      BY <2>3 DEF LetThrough, Inside, Headed
    <2>6. Counted'
      BY <2>3 DEF Counted, Early, Of
    <2>7. \A g \in got : g.request \in Requests \ {r}
      BY DEF Counted, Early, Of, TypeOK
    <2>8. TokenLeavesForWantOfSecret'
      BY <2>3, <2>7 DEF TokenLeavesForWantOfSecret
    <2> QED
      BY <2>2, <2>4, <2>5, <2>6, <2>8
  <1>2. ASSUME NEW r \in Requests, CatchAll(r) PROVE Inv'
    BY <1>2, ReplyKeeps DEF CatchAll, Refuse
  <1>3. ASSUME NEW r \in Requests, ValidateJwt(r) PROVE Inv'
    <2>1. CASE Valid(query[r].token)
      BY <1>3, <2>1, PassKeeps DEF ValidateJwt, Valid
    <2>2. CASE ~Valid(query[r].token)
      BY <1>3, <2>2, ReplyKeeps DEF ValidateJwt, Refuse
    <2> QED
      BY <2>1, <2>2
  <1>4. ASSUME NEW r \in Requests, EnforcePolicy(r) PROVE Inv'
    <2> USE <1>4 DEF EnforcePolicy
    <2>1. query[r].path = "proxy" /\ query[r].token \in Genuine
      BY DEF LetThrough, Inside
    <2>2. ASSUME Pass(r, "inject"), \/ mode = "disabled" \/ query[r].target = Unparsable
                                    \/ PolicyAllows(query[r])
          PROVE  Inv'
      BY <2>1, <2>2, PassKeeps
    <2>3. ASSUME NEW code \in {400, 403, 500}, Refuse(r, code)
          PROVE  Inv'
      BY <2>3, ReplyKeeps DEF Refuse
    <2> QED
      BY <2>2, <2>3
  <1>5. ASSUME NEW r \in Requests, InjectNothing(r) PROVE Inv'
    BY <1>5, PassKeeps DEF InjectNothing, LetThrough, Inside
  <1>6. ASSUME NEW r \in Requests, InjectSecret(r) PROVE Inv'
    <2> USE <1>6 DEF InjectSecret, Inject, Goto
    <2>1. query[r] \in Queries /\ query[r].token \in Genuine
      BY DEF AskedFor, LetThrough, Inside
    <2>2. TypeOK'
      BY <2>1, SecretNames DEF TypeOK, Places
    <2>3. /\ mode' = mode /\ query' = query /\ to' = to /\ hops' = hops /\ got' = got /\ unmet' = unmet
          /\ pc'[r] = "proxy" /\ auth'[r] = SecretName(query[r])
          /\ \A s \in Requests \ {r} : auth'[s] = auth[s] /\ pc'[s] = pc[s]
      BY DEF TypeOK
    <2>4. AskedFor'
      BY <2>3 DEF AskedFor
    <2>5. LetThrough'
      BY <2>3 DEF LetThrough, Inside
    <2>6. SecretName(query[r]) # query[r].token
      BY <2>1, TokensAreNoSecrets
    <2>7. Headed'
      BY <2>3, <2>6 DEF Headed
    <2>8. Counted'
      BY <2>3 DEF Counted, Early, Of
    <2>9. TokenLeavesForWantOfSecret'
      BY <2>3 DEF TokenLeavesForWantOfSecret
    <2> QED
      BY <2>2, <2>4, <2>5, <2>7, <2>8, <2>9
  <1>7. ASSUME NEW r \in Requests, InjectionFails(r) PROVE Inv'
    <2> USE <1>7 DEF InjectionFails, Goto
    <2>2. TypeOK'
      BY DEF TypeOK, Places
    <2>3. /\ mode' = mode /\ query' = query /\ to' = to /\ hops' = hops /\ got' = got /\ auth' = auth
          /\ pc'[r] = "proxy" /\ unmet' = unmet \cup {r}
          /\ \A s \in Requests \ {r} : pc'[s] = pc[s]
      BY DEF TypeOK
    <2>4. AskedFor'
      BY <2>3 DEF AskedFor
    <2>5. LetThrough'
      BY <2>3 DEF LetThrough, Inside
    <2>7. Headed'
      BY <2>3 DEF Headed, AskedFor
    <2>8. Counted'
      BY <2>3 DEF Counted, Early, Of
    <2>9. TokenLeavesForWantOfSecret'
      BY <2>3 DEF TokenLeavesForWantOfSecret
    <2> QED
      BY <2>2, <2>4, <2>5, <2>7, <2>8, <2>9
  <1>8. ASSUME NEW r \in Requests, HandleProxyRequest(r) PROVE Inv'
    <2>1. query[r] \in Queries /\ query[r].path = "proxy" /\ query[r].token \in Genuine
      BY <1>8 DEF HandleProxyRequest, AskedFor, LetThrough, Inside
    <2>2. Objection(query[r]) \in {0, 400, 403, 413}
      BY <2>1, Objections
    <2>3. CASE Objection(query[r]) # 0 \/ ClientRefuses(query[r])
      BY <1>8, <2>2, <2>3, ReplyKeeps DEF HandleProxyRequest, Refuse
    <2>4. CASE Objection(query[r]) = 0 /\ ~ClientRefuses(query[r])
      BY <1>8, <2>1, <2>4, HandledAreAdmissible, PassKeeps DEF HandleProxyRequest
    <2> QED
      BY <2>3, <2>4
  <1>9. ASSUME NEW r \in Requests, HandleStreaming(r) PROVE Inv'
    <2>1. Objection(query[r]) \in {0, 400, 403, 413}
      BY <1>9, Objections DEF HandleStreaming, AskedFor
    <2> QED
      BY <1>9, <2>1, ReplyKeeps DEF HandleStreaming, Refuse
  <1>10. ASSUME NEW r \in Requests, Send(r) PROVE Inv'
    <2> USE <1>10 DEF Send, Goto
    <2> DEFINE g == Prepared(r, to[r])
    <2>1. /\ g.request = r /\ g.hop = hops[r] /\ g.auth = auth[r] /\ g \in Received
      <3>1. to[r] \in Origins
        BY DEF LetThrough
      <3>2. auth[r] \in DOMAIN Permissions \cup Secrets \cup {None} /\ hops[r] \in 0 .. MaxRedirects
        BY DEF TypeOK
      <3> QED
        BY <3>1, <3>2 DEF Prepared, Received
    <2>2. TypeOK'
      BY <2>1 DEF TypeOK, Places, Received
    <2>3. /\ mode' = mode /\ query' = query /\ to' = to /\ hops' = hops /\ auth' = auth /\ unmet' = unmet
          /\ pc'[r] = "wait" /\ got' = got \cup {g}
          /\ \A s \in Requests \ {r} : pc'[s] = pc[s]
      BY DEF TypeOK
    <2> HIDE DEF g
    <2>4. AskedFor'
      BY <2>3 DEF AskedFor
    <2>5. LetThrough'
      BY <2>3 DEF LetThrough, Inside
    <2>7. Headed'
      BY <2>3 DEF Headed
    <2>8. Counted'
      <3>1. \A s \in Requests \ {r} : Of(s)' = Of(s)
        BY <2>1, <2>3 DEF Of
      <3>2. Of(r)' = Of(r) \cup {g}
        BY <2>1, <2>3 DEF Of
      <3>3. \A h \in Of(r) : h.hop <= hops[r]
        BY DEF Counted, Of, TypeOK
      <3>4. hops[r] <= hops[r]
        BY DEF TypeOK
      <3> QED
        BY <2>1, <2>3, <3>1, <3>2, <3>3, <3>4 DEF Counted, Early
    <2>9. TokenLeavesForWantOfSecret'
      BY <2>1, <2>3 DEF TokenLeavesForWantOfSecret, Headed
    <2> QED
      BY <2>2, <2>4, <2>5, <2>7, <2>8, <2>9
  <1>11. ASSUME NEW r \in Requests, CannotConnect(r) \/ TimeOut(r) \/ Break(r) PROVE Inv'
    BY <1>11, ReplyKeeps DEF CannotConnect, TimeOut, Break, Refuse
  <1>12. ASSUME NEW r \in Requests, NEW o \in Origins, Follow(r, o) PROVE Inv'
    <2> USE <1>12 DEF Follow, Goto
    <2>1. hops[r] \in 0 .. MaxRedirects /\ hops[r] + 1 \in 1 .. MaxRedirects
      BY DEF TypeOK
    <2>2. TypeOK'
      BY <2>1 DEF TypeOK, Places
    <2>3. /\ mode' = mode /\ query' = query /\ got' = got /\ unmet' = unmet
          /\ pc'[r] = "connect" /\ hops'[r] = hops[r] + 1 /\ to'[r] = o
          /\ auth'[r] = IF Keeps(to[r], o) THEN auth[r] ELSE None
          /\ \A s \in Requests \ {r} : /\ pc'[s] = pc[s] /\ hops'[s] = hops[s]
                                      /\ to'[s] = to[s] /\ auth'[s] = auth[s]
      BY DEF TypeOK
    <2>4. AskedFor'
      BY <2>3 DEF AskedFor
    <2>5. LetThrough'
      BY <2>3 DEF LetThrough, Inside
    <2>6. Keeps(to[r], o) => DomainOf[o] = DomainOf[to[r]]
      BY DEF Keeps
    <2>7. query[r] \in Queries /\ query[r].token \in Genuine
      BY DEF AskedFor, LetThrough, Inside
    <2>8. Headed'
      BY <2>1, <2>3, <2>6, <2>7, TokensAreNoSecrets DEF Headed
    <2>9. Counted'
      <3>1. \A h \in Of(r) : h.hop < hops[r] + 1
        BY <2>1 DEF Counted, Of, TypeOK
      <3> QED
        BY <2>3, <3>1 DEF Counted, Early, Of
    <2>10. TokenLeavesForWantOfSecret'
      BY <2>3 DEF TokenLeavesForWantOfSecret
    <2> QED
      BY <2>2, <2>4, <2>5, <2>8, <2>9, <2>10
  <1>13. ASSUME NEW r \in Requests, NEW o \in Origins, CannotFollow(r, o) PROVE Inv'
    BY <1>13, ReplyKeeps DEF CannotFollow, Refuse
  <1>14. ASSUME NEW r \in Requests, NEW encoded \in BOOLEAN, Relay(r, encoded) PROVE Inv'
    BY <1>14, ReplyKeeps DEF Relay
  <1>15. ASSUME NEW t \in Genuine, Expire(t) PROVE Inv'
    <2> USE <1>15 DEF Expire, requestVars
    <2>1. TypeOK'
      BY DEF TypeOK
    <2>2. AskedFor' /\ LetThrough' /\ Headed' /\ Counted' /\ TokenLeavesForWantOfSecret'
      BY DEF AskedFor, LetThrough, Headed, Counted, Of, TokenLeavesForWantOfSecret
    <2> QED
      BY <2>1, <2>2
  <1>16. CASE UNCHANGED vars
    <2> USE <1>16 DEF vars, requestVars
    <2>1. TypeOK'
      BY DEF TypeOK
    <2>2. AskedFor' /\ LetThrough' /\ Headed' /\ Counted' /\ TokenLeavesForWantOfSecret'
      BY DEF AskedFor, LetThrough, Headed, Counted, Of, TokenLeavesForWantOfSecret
    <2> QED
      BY <2>1, <2>2
  <1> QED
    BY <1>1, <1>2, <1>3, <1>4, <1>5, <1>6, <1>7, <1>8, <1>9, <1>10, <1>11, <1>12, <1>13,
       <1>14, <1>15, <1>16 DEF Next, Serve

-----------------------------------------------------------------------------
(* The refinement: how a step of a request moves its phase.                *)

Phases == [r \in Requests |-> PhaseOf(r)]

(* Between the door and the answer the phase stays.                        *)
LEMMA OpenStays == ASSUME Inv, NEW r \in Requests, NEW place,
                          pc[r] \notin {"idle", "done"}, place \notin {"idle", "done"},
                          Goto(r, place), UNCHANGED reply
                   PROVE  Phases' = Phases
  <1>1. \A s \in Requests : PhaseOf(s)' = PhaseOf(s)
    BY DEF PhaseOf, Goto, Inv, TypeOK
  <1> QED
    BY <1>1 DEF Phases

(* An answer closes the request: as refused only if nobody has received    *)
(* it, as answered only if somebody has.                                   *)
LEMMA ReplyCloses == ASSUME Inv, NEW r \in Requests, NEW by \in {"gateway", "target", "server"},
                            NEW code, pc[r] \notin {"idle", "done"}, Reply(r, by, code),
                            by = "gateway" /\ code \in {400, 401, 403, 404, 413} => Of(r) = {},
                            by = "target" => Of(r) # {}
                     PROVE  Contract!Next
  <1> DEFINE how == PhaseOf(r)'
  <1>1. how \in {"refused", "failed", "answered"}
    BY DEF PhaseOf, Reply, Goto, Inv, TypeOK
  <1>2. (how = "refused" => Of(r) = {}) /\ (how = "answered" => Of(r) # {})
    BY DEF PhaseOf, Reply, Goto, Inv, TypeOK
  <1>3. \A s \in Requests \ {r} : PhaseOf(s)' = PhaseOf(s)
    BY DEF PhaseOf, Reply, Goto, Inv, TypeOK
  <1>4. Phases' = [Phases EXCEPT ![r] = how]
    BY <1>3 DEF Phases
  <1>5. Phases[r] = "open"
    BY DEF Phases, PhaseOf
  <1>6. mode' = mode /\ query' = query /\ got' = got
    BY DEF Reply
  <1> HIDE DEF how
  <1>7. Contract!Close(r, how)
    BY <1>2, <1>4, <1>5, <1>6 DEF Contract!Close, Contract!Of, Of, Phases
  <1> QED
    BY <1>1, <1>7 DEF Contract!Next

(* The target of an admissible request gets nothing it should not.         *)
LEMMA SendReceives == ASSUME Inv, NEW r \in Requests, Send(r)
                      PROVE  Contract!Next
  <1> DEFINE g == Prepared(r, to[r])
  <1>1. pc[r] = "connect" /\ <<mode, query[r]>> \in Admissible /\ to[r] \in Origins
    BY DEF Send, Inv, LetThrough
  <1>2. hops[r] \in 0 .. MaxRedirects
    BY DEF Inv, TypeOK
  <1>3. (hops[r] = 0 => to[r] = query[r].target) /\ \A h \in Of(r) : h.hop < hops[r]
    BY <1>1 DEF Inv, Headed, Counted
  <1>4. query[r] \in Queries
    BY <1>1 DEF Inv, AskedFor
  <1>5. auth[r] \in Contract!Credentials(r, to[r])
    BY <1>1, <1>4 DEF Inv, Headed, Contract!Credentials, Entitled
  <1>6. g = [request |-> r, origin |-> to[r], auth |-> auth[r], hop |-> hops[r]]
    BY DEF Prepared
  <1>7. /\ mode' = mode /\ query' = query /\ got' = got \cup {g} /\ Phases' = Phases
    BY <1>1, OpenStays DEF Send
  <1>8. Phases[r] = "open"
    BY <1>1 DEF Phases, PhaseOf
  <1> HIDE DEF g
  <1>9. Contract!Receive(r)
    BY <1>1, <1>2, <1>3, <1>5, <1>6, <1>7, <1>8 DEF Contract!Receive, Contract!Of, Of, Phases
  <1> QED
    BY <1>9 DEF Contract!Next

(* A request comes in.                                                     *)
LEMMA ArriveAsks == ASSUME Inv, NEW r \in Requests, NEW q \in Asks[r], Arrive(r, q)
                    PROVE  Contract!Next
  <1>1. q \in Queries
    BY DEF Queries
  <1>2. \A s \in Requests \ {r} : PhaseOf(s)' = PhaseOf(s)
    BY DEF PhaseOf, Arrive, Goto, Inv, TypeOK
  <1>3. PhaseOf(r) = "idle" /\ PhaseOf(r)' = "open"
    BY DEF PhaseOf, Arrive, Goto, Inv, TypeOK
  <1>4. Phases' = [Phases EXCEPT ![r] = "open"] /\ Phases[r] = "idle"
    BY <1>2, <1>3 DEF Phases
  <1>5. mode' = mode /\ query' = [query EXCEPT ![r] = q] /\ got' = got
    BY DEF Arrive
  <1>6. Contract!Ask(r, q)
    BY <1>4, <1>5 DEF Contract!Ask, Phases
  <1> QED
    BY <1>1, <1>6 DEF Contract!Next

LEMMA StepsRefine == Inv /\ [Next]_vars => [Contract!Next]_(Contract!contractVars)
  <1> SUFFICES ASSUME Inv, [Next]_vars
               PROVE  Contract!Next \/ UNCHANGED Contract!contractVars
    OBVIOUS
  <1> DEFINE Same == mode' = mode /\ query' = query /\ got' = got /\ Phases' = Phases
  <1>a. Same => UNCHANGED Contract!contractVars
    BY DEF Contract!contractVars, Phases
  <1>b. ASSUME NEW r \in Requests, NEW place \in {"policy", "inject", "proxy", "connect"},
               pc[r] \notin {"idle", "done"}, Pass(r, place)
        PROVE  Same
    BY <1>b, OpenStays DEF Pass
  <1>c. ASSUME NEW r \in Requests, NEW code, pc[r] \in Early \ {"idle"}, Refuse(r, code)
        PROVE  Contract!Next
    BY <1>c, ReplyCloses DEF Refuse, Inv, Counted, Early
  <1>d. ASSUME NEW r \in Requests, NEW code \in {500, 502, 504}, pc[r] \in {"connect", "wait"},
               Refuse(r, code)
        PROVE  Contract!Next
    BY <1>d, ReplyCloses DEF Refuse
  <1>1. ASSUME NEW r \in Requests, NEW q \in Asks[r], Arrive(r, q) PROVE Contract!Next
    BY <1>1, ArriveAsks
  <1>2. ASSUME NEW r \in Requests, CatchAll(r) PROVE Contract!Next
    BY <1>2, <1>c DEF CatchAll, Early
  <1>3. ASSUME NEW r \in Requests, ValidateJwt(r) PROVE Contract!Next \/ Same
    BY <1>3, <1>b, <1>c DEF ValidateJwt, Early
  <1>4. ASSUME NEW r \in Requests, EnforcePolicy(r) PROVE Contract!Next \/ Same
    BY <1>4, <1>b, <1>c DEF EnforcePolicy, Early
  <1>5. ASSUME NEW r \in Requests, InjectNothing(r) PROVE Same
    BY <1>5, <1>b DEF InjectNothing
  <1>6. ASSUME NEW r \in Requests, InjectSecret(r) \/ InjectionFails(r) PROVE Same
    BY <1>6, OpenStays DEF InjectSecret, InjectionFails, Inject
  <1>7. ASSUME NEW r \in Requests, HandleProxyRequest(r) PROVE Contract!Next \/ Same
    BY <1>7, <1>b, <1>c DEF HandleProxyRequest, Early
  <1>8. ASSUME NEW r \in Requests, HandleStreaming(r) PROVE Contract!Next
    BY <1>8, <1>c DEF HandleStreaming, Early
  <1>9. ASSUME NEW r \in Requests, Send(r) PROVE Contract!Next
    BY <1>9, SendReceives
  <1>10. ASSUME NEW r \in Requests, CannotConnect(r) \/ TimeOut(r) \/ Break(r) PROVE Contract!Next
    BY <1>10, <1>d DEF CannotConnect, TimeOut, Break
  <1>11. ASSUME NEW r \in Requests, NEW o \in Origins, Follow(r, o) PROVE Same
    BY <1>11, OpenStays DEF Follow
  <1>12. ASSUME NEW r \in Requests, NEW o \in Origins, CannotFollow(r, o) PROVE Contract!Next
    BY <1>12, <1>d DEF CannotFollow
  <1>13. ASSUME NEW r \in Requests, NEW encoded \in BOOLEAN, Relay(r, encoded) PROVE Contract!Next
    <2>1. pc[r] = "wait" /\ Of(r) # {}
      BY <1>13 DEF Relay, Inv, Counted
    <2> QED
      BY <1>13, <2>1, ReplyCloses DEF Relay
  <1>14. ASSUME NEW t \in Genuine, Expire(t) PROVE Same
    BY <1>14 DEF Expire, requestVars, Phases, PhaseOf
  <1>15. CASE UNCHANGED vars
    <2>1. UNCHANGED <<mode, query, pc, reply, got>>
      BY <1>15 DEF vars, requestVars
    <2>2. Same
      BY <2>1 DEF Phases, PhaseOf
    <2> QED
      BY <2>2, <1>a
  <1> QED
    BY <1>a, <1>1, <1>2, <1>3, <1>4, <1>5, <1>6, <1>7, <1>8, <1>9, <1>10, <1>11, <1>12, <1>13,
       <1>14, <1>15 DEF Next, Serve

-----------------------------------------------------------------------------
(* The invariant holds throughout.                                         *)
LEMMA Invariance == Spec => []Inv
  BY InvInit, InvNext, PTL DEF Spec

(* Requests, headers and answers keep their types, and nobody is           *)
(* redirected more often than the client allows.                           *)
THEOREM TypeInvariant == Spec => []TypeOK
  BY Invariance, PTL DEF Inv

(* An agent's own token leaves in the place of the secret that is to be    *)
(* injected only if the secret could not be put together.                  *)
THEOREM TokensLeaveForWantOfSecrets == Spec => []TokenLeavesForWantOfSecret
  BY Invariance, PTL DEF Inv

(* The gateway implements ProxyContract: nothing inadmissible reaches a    *)
(* target, in any mode, and credentials reach only the domain they were    *)
(* for, through any redirects.                                             *)
THEOREM Refinement == Spec => ImplementsContract
  <1>1. Init => Contract!Init
    <2> SUFFICES ASSUME Init PROVE Contract!Init
      OBVIOUS
    <2>1. Phases = [r \in Requests |-> "idle"]
      BY DEF Init, Phases, PhaseOf
    <2> QED
      BY <2>1 DEF Init, Contract!Init, Modes, Phases
  <1> QED
    BY <1>1, Invariance, StepsRefine, PTL DEF Spec, ImplementsContract, Contract!Spec
=============================================================================
