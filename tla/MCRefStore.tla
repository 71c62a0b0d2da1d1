----------------------------- MODULE MCRefStore -----------------------------
(* Two connections, two Refs, two commits; archives that restore, that are *)
(* out of order, and that prepare_archive must refuse.                     *)
EXTENDS RefStore

CONSTANTS main, side, m1, m2

Ev(i, r, o, n) == [id |-> i, ref |-> r, old |-> o, new |-> n]

Snapshot(a, b) == [r \in Refs |-> IF r = main THEN a ELSE b]

At(h, e) == [head |-> h, event |-> e]

MCPreconditions == {{}, {[ref |-> side, head |-> m1]}}

MCArchives ==
    { \* a gap before the last event id, which leaves no rowid for another
      [refs |-> Snapshot(NoRef, At(m2, MaxEventId)),
       reflog |-> <<Ev(MaxEventId, side, NoHead, m2)>>],
      \* listed out of order: restorable
      [refs |-> Snapshot(At(m2, 2), NoRef),
       reflog |-> <<Ev(2, main, m1, m2), Ev(1, main, NoHead, m1)>>],
      \* a broken chain
      [refs |-> Snapshot(At(m2, 2), NoRef),
       reflog |-> <<Ev(1, main, NoHead, m1), Ev(2, main, NoHead, m2)>>],
      \* a snapshot behind its log
      [refs |-> Snapshot(At(m1, 1), NoRef),
       reflog |-> <<Ev(1, main, NoHead, m1), Ev(2, main, m1, m2)>>] }
=============================================================================
