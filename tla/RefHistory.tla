----------------------------- MODULE RefHistory -----------------------------
(***************************************************************************)
(* What the Ref store promises its callers: a set of registers advanced    *)
(* one compare-and-swap at a time, each advance guarded by any number of   *)
(* other registers and recorded in one totally ordered log that never      *)
(* forgets.  A whole history may be loaded, but only into an empty store.  *)
(***************************************************************************)
EXTENDS Integers, Sequences

CONSTANTS Refs, Commits, NoHead, Preconditions

VARIABLES refs, reflog

Empty == \A r \in Refs : refs[r] = [head |-> NoHead, event |-> 0]

Init == Empty /\ reflog = <<>>

\* all of the comparison, the event and the new head in one step
Advance(r, new, pre) ==
    LET id == IF reflog = <<>> THEN 1 ELSE reflog[Len(reflog)].id + 1
    IN /\ \A p \in pre : refs[p.ref].head = p.head
       /\ refs' = [refs EXCEPT ![r] = [head |-> new, event |-> id]]
       /\ reflog' = Append(reflog, [id |-> id, ref |-> r,
                                    old |-> refs[r].head, new |-> new])

\* a history replaces nothing: only an empty store takes one
Load == Empty /\ reflog = <<>> /\ Len(reflog') > 0

Next ==
    \/ \E r \in Refs, n \in Commits, p \in Preconditions : Advance(r, n, p)
    \/ Load

Spec == Init /\ [][Next]_<<refs, reflog>>
=============================================================================
