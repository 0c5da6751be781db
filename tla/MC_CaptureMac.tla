---------------------------- MODULE MC_CaptureMac ----------------------------
(***************************************************************************)
(* Instances of CaptureMac for TLC.                                        *)
(***************************************************************************)
EXTENDS CaptureMac, FiniteSets, TLC

MCInput == Inputs

Symmetry == Permutations(Client) \cup Permutations(Key)

QuietNetwork ==
    /\ lost = {}
    /\ Cardinality({c \in Client : inbox[c] # <<>>}) + Cardinality({c \in Client : outbox[c] # <<>>}) <= 1
==============================================================================
