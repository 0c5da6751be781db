---------------------------- MODULE MC_Connection ----------------------------
(* Instances of Connection for TLC. *)
EXTENDS Connection, TLC

(* every client may be at every address; each client has one of its own *)
Shared == [c \in Client |-> Ip]
Own == CHOOSE f \in [Client -> SUBSET Ip] :
    \A c, d \in Client : f[c] # {} /\ (c # d => f[c] \cap f[d] = {})

TaskSymmetry == Permutations(Task)
==============================================================================
