---------------------------- MODULE SecretVault ----------------------------
(***************************************************************************)
(* What the vault promises to its clients: for every name one register     *)
(* that holds a secret or nothing.  A store fills an empty register, a     *)
(* delete empties it of a secret it has seen, a read returns a secret it   *)
(* has seen; each takes effect at one instant between its beginning and    *)
(* its end, or fails and has no effect.  A read may return garbage, but    *)
(* only when some other store of the name than the one it saw has begun.   *)
(* A secret is named after the store that brings it.                       *)
(***************************************************************************)
CONSTANTS Names, Writers, Removers, Readers, Nil, Garbage

Clients == Writers \cup Removers \cup Readers

VARIABLES
    secret,  \* secret[n]: what the register of n holds
    about,   \* about[c]: the name that the operation of c is about
    phase,   \* phase[c]: "idle", "open" or "closed"
    saw,     \* saw[c]: the secret c has seen in the register
    out      \* out[c]: the secret c has returned

vaultVars == <<secret, about, phase, saw, out>>

Init ==
    /\ secret = [n \in Names |-> Nil]
    /\ about \in [Clients -> Names]
    /\ phase = [c \in Clients |-> "idle"]
    /\ saw = [c \in Clients |-> Nil]
    /\ out = [c \in Clients |-> Nil]

Enter(c, next) == phase' = [phase EXCEPT ![c] = next]

Begin(c) ==
    /\ phase[c] = "idle"
    /\ Enter(c, "open")
    /\ UNCHANGED <<secret, about, saw, out>>

(* An operation ends without effect.                                       *)
Fail(c) ==
    /\ phase[c] # "closed"
    /\ Enter(c, "closed")
    /\ UNCHANGED <<secret, about, saw, out>>

Put(c) ==
    /\ phase[c] = "open" /\ secret[about[c]] = Nil
    /\ secret' = [secret EXCEPT ![about[c]] = c]
    /\ Enter(c, "closed")
    /\ UNCHANGED <<about, saw, out>>

See(c) ==
    /\ phase[c] \in {"idle", "open"} /\ secret[about[c]] # Nil
    /\ saw' = [saw EXCEPT ![c] = secret[about[c]]]
    /\ Enter(c, "open")
    /\ UNCHANGED <<secret, about, out>>

Remove(c) ==
    /\ phase[c] = "open" /\ secret[about[c]] # Nil
    /\ secret[about[c]] = saw[c]
    /\ secret' = [secret EXCEPT ![about[c]] = Nil]
    /\ Enter(c, "closed")
    /\ UNCHANGED <<about, saw, out>>

Return(c) ==
    /\ phase[c] = "open" /\ saw[c] # Nil
    /\ out' = [out EXCEPT ![c] = saw[c]]
    /\ Enter(c, "closed")
    /\ UNCHANGED <<secret, about, saw>>

(* Another store of the name, finished, failed or under way, has replaced  *)
(* half of the secret that c saw.                                          *)
Garble(c) ==
    /\ phase[c] = "open" /\ saw[c] # Nil
    /\ \E w \in Writers \ {saw[c]} : about[w] = about[c] /\ phase[w] # "idle"
    /\ out' = [out EXCEPT ![c] = Garbage]
    /\ Enter(c, "closed")
    /\ UNCHANGED <<secret, about, saw>>

Next ==
    \/ \E c \in Clients : Begin(c) \/ Fail(c)
    \/ \E c \in Writers : Put(c)
    \/ \E c \in Removers : See(c) \/ Remove(c)
    \/ \E c \in Readers : See(c) \/ Return(c) \/ Garble(c)

Spec == Init /\ [][Next]_vaultVars
=============================================================================
