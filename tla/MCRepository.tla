---------------------------- MODULE MCRepository ----------------------------
(***************************************************************************)
(* A commit and its blob, two clients.  Either the blob may be damaged and *)
(* repaired and the power stays, or nothing is damaged, a repair could do  *)
(* no more than a put, and the power may fail.                             *)
(***************************************************************************)
EXTENDS Repository, TLC

CONSTANTS k1, blob

VARIABLE part

ShortClosure == k1 :> {k1, blob}

Symmetry == Permutations(Clients)

SuiteInit == Init /\ part \in {"damage", "power"}

SuiteNext ==
    /\ Next
    /\ part = "damage" => outage' = FALSE
    /\ part = "power" => decayed' = {}
    /\ \A c \in Clients : op'[c] \in {"repair", "discard"} =>
          part = "damage" /\ oid'[c] \in Fragile
    /\ UNCHANGED part

SuiteSpec == SuiteInit /\ [][SuiteNext]_<<vars, part>>
=============================================================================
