------------------------- MODULE ConfirmationsProofs -------------------------
(***************************************************************************)
(* Whatever requests, other processes and restarts interleave, what the    *)
(* desk has answered stays true, for every number of workers, sessions and *)
(* limits.                                                                 *)
(***************************************************************************)
EXTENDS Confirmations, Sequences, TLAPS

\* Leaves are first-order; those about numbers, records and sequences cite SMT.
USE ZenonT(40)
-----------------------------------------------------------------------------
(* Confirmations: the invariant *)

Handles == {"none", "ready", "deciding", "unknown", "elsewhere"}
Values == States \union Nat \union {None}
Task == [op : DOMAIN Steps \union {"idle"}, at : Nat,
         of : CreatorSessions \union {None}, to : CreatorSessions \union {None},
         id : Nat, seen : Values]
Begin == [op : {"derived", "reuse", "begin_staged"}, id : Nat, answer : {"success", "error"}]
Confirmation == [kind : {"derived", "reuse"}, of : CreatorSessions, seen : Values, instance : Nat]

DeskTypeOK ==
    /\ sessionOf \in [CreatorSessions -> States]
    /\ handle \in [CreatorSessions -> Handles]
    /\ confirmations \in [DOMAIN confirmations -> Confirmation]
    /\ stages \in [DOMAIN stages -> Nat]
    /\ inbox \in Nat /\ stock \in Nat /\ nextId \in Nat \ {0} /\ instance \in Nat
    /\ task \in [Workers -> Task]

\* where a call stands among its steps
Derives(k) == k.op \in {"derived", "reuse"}
Placed(k) == k = Idle \/ (k.op # "idle" /\ k.at \in 1 .. Len(Steps[k.op]))
InWriter(k) ==
    \/ k.op \in {"derived", "reuse", "decide", "fsck"} /\ k.at >= 2
    \/ k.op = "restore" /\ k.at >= 3
    \/ k.op = "begin_staged" /\ k.at = 4
InStages(k) ==
    \/ k.op = "stage" /\ k.at = 3
    \/ k.op \in {"begin_staged", "cancel"} /\ k.at >= 2

\* A lock is held exactly from the step that takes it to the answer.
LocksAreHeld ==
    /\ writer \in Workers \union {None} /\ stagesLock \in Workers \union {None}
    /\ \A t \in Workers : /\ Placed(task[t])
                          /\ writer = t <=> InWriter(task[t])
                          /\ stagesLock = t <=> InStages(task[t])

\* What a call names exists.
RequestsAreSound ==
    \A t \in Workers :
        /\ task[t].id < nextId
        /\ task[t].op \in {"prepare_source", "prepare_reuse", "derived", "reuse", "decide"} =>
             task[t].of \in CreatorSessions /\ sessionOf[task[t].of] # "absent"
        /\ task[t].op \in {"derived", "reuse", "begin_staged"} => task[t].to \in CreatorSessions

\* A call that has looked its confirmation up, or taken its stage, and has not
\* begun; and one that has begun and not yet removed its confirmation.
Armed(k) == (Derives(k) \/ k.op = "begin_staged") /\ k.at \in {3, 4}
Removing(k) == Derives(k) /\ k.at = 5

\* a session began from this id; no other may
Began(i) == \E n \in DOMAIN used : used[n].id = i
Spent(i) == \E n \in DOMAIN used : used[n].id = i /\ Final(used[n])

\* An id is a confirmation, a stage, cancelled or used up, and no two at a time
\* but for the call that is about to remove its confirmation.
IdsAreApart ==
    /\ \A i \in DOMAIN confirmations :
         /\ i \in 1 .. nextId - 1 /\ i \notin DOMAIN stages /\ i \notin cancelled
         /\ Spent(i) => \E t \in Workers : Removing(task[t]) /\ task[t].id = i
    /\ \A i \in DOMAIN stages : i \in 1 .. nextId - 1 /\ i \notin cancelled /\ ~Began(i)
    /\ \A i \in cancelled : i \in 1 .. nextId - 1 /\ ~Began(i)

\* An armed call's id is nobody else's.
ArmedIsAlone ==
    \A t \in Workers : Armed(task[t]) =>
        /\ ~Spent(task[t].id) /\ task[t].id \notin cancelled /\ task[t].id \notin DOMAIN stages
        /\ task[t].op = "begin_staged" => task[t].id \notin DOMAIN confirmations
        /\ \A u \in Workers : u # t /\ Armed(task[u]) => task[u].id # task[t].id

\* An id from which a session began is not given again.
UsedIsBegun ==
    /\ used \in Seq(Begin)
    /\ \A n \in DOMAIN used : used[n].id \in Nat /\ used[n].id < nextId

FsckIsFresh ==
    /\ last_fsck \in {None, stock}
    /\ \A t \in Workers : task[t].op = "fsck" /\ task[t].at = 3 => task[t].seen = stock

\* s is not under review here
NotReviewed(s) == sessionOf[s] = "proposed" => handle[s] \notin {"ready", "deciding"}
Deciding(k, s) == k.op = "decide" /\ k.at = 3 /\ k.of = s

ReusedIsClosed ==
    /\ \A s \in reused : s \in CreatorSessions /\ sessionOf[s] # "absent" /\ NotReviewed(s)
    /\ \A t \in Workers : task[t].op = "reuse" /\ task[t].at = 4 => NotReviewed(task[t].of)
    /\ \A t \in Workers : \A s \in CreatorSessions :
         Deciding(task[t], s) => handle[s] = "deciding"
    /\ \A s \in CreatorSessions :
         handle[s] = "deciding" => \E t \in Workers : Deciding(task[t], s)

DeskInv ==
    /\ DeskTypeOK /\ LocksAreHeld /\ RequestsAreSound
    /\ IdsAreApart /\ ArmedIsAlone /\ UsedIsBegun /\ UsedOnce
    /\ FsckIsFresh /\ ReusedIsClosed

-----------------------------------------------------------------------------
(* Where a call stands *)

\* The steps of each call.
LEMMA StepsOf ==
    /\ DOMAIN Steps = {"prepare_source", "prepare_reuse", "derived", "reuse", "decide", "stage",
                       "begin_staged", "cancel", "fsck", "restore"}
    /\ \A op \in {"prepare_source", "prepare_reuse"} : Steps[op] = <<"read", "confirm">>
    /\ \A op \in {"derived", "reuse"} :
         Steps[op] = <<"writer", "lookup", "verify", "begin", "remove">>
    /\ Steps["decide"] = <<"writer", "claim", "publish">>
    /\ Steps["stage"] = <<"inspect", "stages", "copy">>
    /\ Steps["begin_staged"] = <<"stages", "take", "writer", "begin">>
    /\ Steps["cancel"] = <<"stages", "drop">>
    /\ Steps["fsck"] = <<"writer", "scan", "record">>
    /\ Steps["restore"] = <<"validate", "writer", "forget", "restore">>
BY SMTT(30) DEF Steps

\* The step at which a call stands tells the call and how far it is.
LEMMA StandsAt ==
    ASSUME NEW t \in Workers, DeskTypeOK, Placed(task[t])
    PROVE  LET k == task[t]
               Is(op, n) == k.op = op /\ k.at = n
           IN  /\ At(t, "read") => Is("prepare_source", 1) \/ Is("prepare_reuse", 1)
               /\ At(t, "confirm") => Is("prepare_source", 2) \/ Is("prepare_reuse", 2)
               /\ At(t, "lookup") => Is("derived", 2) \/ Is("reuse", 2)
               /\ At(t, "verify") => Is("derived", 3) \/ Is("reuse", 3)
               /\ At(t, "begin") => Is("derived", 4) \/ Is("reuse", 4) \/ Is("begin_staged", 4)
               /\ At(t, "remove") => Is("derived", 5) \/ Is("reuse", 5)
               /\ At(t, "claim") => Is("decide", 2)
               /\ At(t, "publish") => Is("decide", 3)
               /\ At(t, "inspect") => Is("stage", 1)
               /\ At(t, "stages") => Is("stage", 2) \/ Is("begin_staged", 1) \/ Is("cancel", 1)
               /\ At(t, "copy") => Is("stage", 3)
               /\ At(t, "take") => Is("begin_staged", 2)
               /\ At(t, "drop") => Is("cancel", 2)
               /\ At(t, "scan") => Is("fsck", 2)
               /\ At(t, "record") => Is("fsck", 3)
               /\ At(t, "validate") => Is("restore", 1)
               /\ At(t, "forget") => Is("restore", 3)
               /\ At(t, "restore") => Is("restore", 4)
               /\ At(t, "writer") => \/ Is("derived", 1) \/ Is("reuse", 1) \/ Is("decide", 1)
                                     \/ Is("fsck", 1) \/ Is("begin_staged", 3) \/ Is("restore", 2)
<1> DEFINE k == task[t]
           Is(op, n) == k.op = op /\ k.at = n
<1>1. CASE k = Idle
  BY <1>1 DEF At
<1>2. ASSUME k # Idle
      PROVE  k.op \in DOMAIN Steps /\ k.at \in 1 .. Len(Steps[k.op])
  BY <1>2, StepsOf DEF Placed, DeskTypeOK, Task
<1>3. CASE k # Idle
  <2>1. \/ k.op \in {"prepare_source", "prepare_reuse"} \/ k.op \in {"derived", "reuse"}
        \/ k.op = "decide" \/ k.op = "stage" \/ k.op = "begin_staged" \/ k.op = "cancel"
        \/ k.op = "fsck" \/ k.op = "restore"
    BY <1>2, <1>3, StepsOf
  <2>2. CASE k.op \in {"prepare_source", "prepare_reuse"}
    <3>1. Steps[k.op] = <<"read", "confirm">> /\ k.at \in 1 .. Len(Steps[k.op])
      BY <1>2, <1>3, <2>2, StepsOf
    <3>2. \/ k.at = 1 /\ Steps[k.op][k.at] = "read"
          \/ k.at = 2 /\ Steps[k.op][k.at] = "confirm"
      BY <3>1, SMTT(30)
    <3> QED BY <2>2, <3>2 DEF At, Plan
  <2>3. CASE k.op \in {"derived", "reuse"}
    <3>1. /\ Steps[k.op] = <<"writer", "lookup", "verify", "begin", "remove">>
          /\ k.at \in 1 .. Len(Steps[k.op])
      BY <1>2, <1>3, <2>3, StepsOf
    <3>2. \/ k.at = 1 /\ Steps[k.op][k.at] = "writer"
          \/ k.at = 2 /\ Steps[k.op][k.at] = "lookup"
          \/ k.at = 3 /\ Steps[k.op][k.at] = "verify"
          \/ k.at = 4 /\ Steps[k.op][k.at] = "begin"
          \/ k.at = 5 /\ Steps[k.op][k.at] = "remove"
      BY <3>1, SMTT(30)
    <3> QED BY <2>3, <3>2 DEF At, Plan
  <2>4. CASE k.op = "decide"
    <3>1. Steps[k.op] = <<"writer", "claim", "publish">> /\ k.at \in 1 .. Len(Steps[k.op])
      BY <1>2, <1>3, <2>4, StepsOf
    <3>2. \/ k.at = 1 /\ Steps[k.op][k.at] = "writer"
          \/ k.at = 2 /\ Steps[k.op][k.at] = "claim"
          \/ k.at = 3 /\ Steps[k.op][k.at] = "publish"
      BY <3>1, SMTT(30)
    <3> QED BY <2>4, <3>2 DEF At, Plan
  <2>5. CASE k.op = "stage"
    <3>1. Steps[k.op] = <<"inspect", "stages", "copy">> /\ k.at \in 1 .. Len(Steps[k.op])
      BY <1>2, <1>3, <2>5, StepsOf
    <3>2. \/ k.at = 1 /\ Steps[k.op][k.at] = "inspect"
          \/ k.at = 2 /\ Steps[k.op][k.at] = "stages"
          \/ k.at = 3 /\ Steps[k.op][k.at] = "copy"
      BY <3>1, SMTT(30)
    <3> QED BY <2>5, <3>2 DEF At, Plan
  <2>6. CASE k.op = "begin_staged"
    <3>1. Steps[k.op] = <<"stages", "take", "writer", "begin">> /\ k.at \in 1 .. Len(Steps[k.op])
      BY <1>2, <1>3, <2>6, StepsOf
    <3>2. \/ k.at = 1 /\ Steps[k.op][k.at] = "stages"
          \/ k.at = 2 /\ Steps[k.op][k.at] = "take"
          \/ k.at = 3 /\ Steps[k.op][k.at] = "writer"
          \/ k.at = 4 /\ Steps[k.op][k.at] = "begin"
      BY <3>1, SMTT(30)
    <3> QED BY <2>6, <3>2 DEF At, Plan
  <2>7. CASE k.op = "cancel"
    <3>1. Steps[k.op] = <<"stages", "drop">> /\ k.at \in 1 .. Len(Steps[k.op])
      BY <1>2, <1>3, <2>7, StepsOf
    <3>2. \/ k.at = 1 /\ Steps[k.op][k.at] = "stages"
          \/ k.at = 2 /\ Steps[k.op][k.at] = "drop"
      BY <3>1, SMTT(30)
    <3> QED BY <2>7, <3>2 DEF At, Plan
  <2>8. CASE k.op = "fsck"
    <3>1. Steps[k.op] = <<"writer", "scan", "record">> /\ k.at \in 1 .. Len(Steps[k.op])
      BY <1>2, <1>3, <2>8, StepsOf
    <3>2. \/ k.at = 1 /\ Steps[k.op][k.at] = "writer"
          \/ k.at = 2 /\ Steps[k.op][k.at] = "scan"
          \/ k.at = 3 /\ Steps[k.op][k.at] = "record"
      BY <3>1, SMTT(30)
    <3> QED BY <2>8, <3>2 DEF At, Plan
  <2>9. CASE k.op = "restore"
    <3>1. Steps[k.op] = <<"validate", "writer", "forget", "restore">> /\ k.at \in 1 .. Len(Steps[k.op])
      BY <1>2, <1>3, <2>9, StepsOf
    <3>2. \/ k.at = 1 /\ Steps[k.op][k.at] = "validate"
          \/ k.at = 2 /\ Steps[k.op][k.at] = "writer"
          \/ k.at = 3 /\ Steps[k.op][k.at] = "forget"
          \/ k.at = 4 /\ Steps[k.op][k.at] = "restore"
      BY <3>1, SMTT(30)
    <3> QED BY <2>9, <3>2 DEF At, Plan
  <2> QED BY <2>1, <2>2, <2>3, <2>4, <2>5, <2>6, <2>7, <2>8, <2>9
<1> QED BY <1>1, <1>3

-----------------------------------------------------------------------------
(* A call moves on; the others stay where they are *)

Others(t) == \A u \in Workers : u # t => task'[u] = task[u]
Keeps(t) == /\ task'[t].op = task[t].op /\ task'[t].of = task[t].of
            /\ task'[t].to = task[t].to /\ task'[t].id = task[t].id

\* Idle is a task that holds nothing and does nothing.
LEMMA IdleIs ==
    /\ Idle \in Task /\ Idle.op = "idle" /\ Idle.at = 0 /\ Idle.id = 0 /\ Placed(Idle)
    /\ ~InWriter(Idle) /\ ~InStages(Idle) /\ ~Derives(Idle) /\ ~Armed(Idle) /\ ~Removing(Idle)
    /\ \A s : ~Deciding(Idle, s)
BY SMTT(30) DEF Idle, Task, Values, Placed, InWriter, InStages, Derives, Armed, Removing, Deciding

\* A call goes on to its next step.
LEMMA AdvanceTask ==
    ASSUME NEW t \in Workers, DeskTypeOK, Advance(t)
    PROVE  /\ task' \in [Workers -> Task] /\ Others(t) /\ Keeps(t)
           /\ task'[t].at = task[t].at + 1 /\ task'[t].seen = task[t].seen
BY SMTT(30) DEF DeskTypeOK, Advance, Others, Keeps, Task

\* A call remembers a value and goes on to its next step.
LEMMA SawTask ==
    ASSUME NEW t \in Workers, DeskTypeOK, NEW v \in Values, Saw(t, v)
    PROVE  /\ task' \in [Workers -> Task] /\ Others(t) /\ Keeps(t)
           /\ task'[t].at = task[t].at + 1 /\ task'[t].seen = v
<1>1. PICK m : m = [task[t] EXCEPT !.at = @ + 1]
  OBVIOUS
<1>2. PICK n : n = [m EXCEPT !.seen = v]
  OBVIOUS
<1>3. /\ m \in Task /\ m.op = task[t].op /\ m.of = task[t].of /\ m.to = task[t].to
      /\ m.id = task[t].id /\ m.at = task[t].at + 1
  BY <1>1, SMTT(30) DEF DeskTypeOK, Task
<1>4. /\ n \in Task /\ n.op = task[t].op /\ n.of = task[t].of /\ n.to = task[t].to
      /\ n.id = task[t].id /\ n.at = task[t].at + 1 /\ n.seen = v
  BY <1>2, <1>3, SMTT(30) DEF Task
<1>5. n = [task[t] EXCEPT !.at = @ + 1, !.seen = v]
  BY <1>1, <1>2
<1>6. task' = [task EXCEPT ![t] = n]
  BY <1>5 DEF Saw
<1> QED BY <1>4, <1>6 DEF DeskTypeOK, Others, Keeps

\* A call is answered.
LEMMA AnswerTask ==
    ASSUME NEW t \in Workers, DeskTypeOK, Answer(t)
    PROVE  task' \in [Workers -> Task] /\ Others(t) /\ task'[t] = Idle
BY IdleIs DEF DeskTypeOK, Answer, Others

\* An answer lets go of the locks of its call.
LEMMA AnswerLocks ==
    ASSUME NEW t \in Workers, DeskTypeOK, LocksAreHeld, Answer(t)
    PROVE  LocksAreHeld'
<1>1. Others(t) /\ task'[t] = Idle
  BY AnswerTask
<1>2. None \notin Workers
  BY DeskAssumption
<1>3. writer' \in Workers \union {None} /\ stagesLock' \in Workers \union {None}
  BY DEF LocksAreHeld, Answer
<1>4. /\ writer' # t /\ stagesLock' # t
      /\ \A u \in Workers : u # t => (writer' = u <=> writer = u) /\ (stagesLock' = u <=> stagesLock = u)
  BY <1>2, SMTT(30) DEF Answer
<1>5. ASSUME NEW u \in Workers
      PROVE  /\ Placed(task'[u])
             /\ writer' = u <=> InWriter(task'[u])
             /\ stagesLock' = u <=> InStages(task'[u])
  BY <1>1, <1>4, IdleIs DEF LocksAreHeld, Others
<1> QED BY <1>3, <1>5 DEF LocksAreHeld

\* The locks stay right when no lock is taken and the call still stands
\* between the same of them.
LEMMA KeptLocks ==
    ASSUME NEW t \in Workers, LocksAreHeld, KeepLocks, Others(t), Placed(task'[t]),
           InWriter(task'[t]) <=> InWriter(task[t]), InStages(task'[t]) <=> InStages(task[t])
    PROVE  LocksAreHeld'
BY DEF LocksAreHeld, KeepLocks, Others

\* A call that has moved on still names what exists.
LEMMA SoundFrame ==
    ASSUME NEW t \in Workers, DeskTypeOK, RequestsAreSound, Others(t),
           task'[t] = Idle \/ Keeps(t), nextId' \in Nat, nextId <= nextId', 
           \A s \in CreatorSessions : sessionOf[s] # "absent" => sessionOf'[s] # "absent"
    PROVE  RequestsAreSound'
<1> SUFFICES ASSUME NEW u \in Workers
             PROVE  /\ task'[u].id < nextId'
                    /\ task'[u].op \in {"prepare_source", "prepare_reuse", "derived", "reuse",
                                        "decide"} =>
                         task'[u].of \in CreatorSessions /\ sessionOf'[task'[u].of] # "absent"
                    /\ task'[u].op \in {"derived", "reuse", "begin_staged"} =>
                         task'[u].to \in CreatorSessions
  BY DEF RequestsAreSound
<1>1. CASE task'[u] = Idle
  <2>1. 0 < nextId'
    BY SMTT(30) DEF DeskTypeOK
  <2> QED BY <1>1, <2>1, IdleIs
<1>2. CASE /\ task'[u].op = task[u].op /\ task'[u].of = task[u].of
           /\ task'[u].to = task[u].to /\ task'[u].id = task[u].id
  <2>1. task[u].id < nextId'
    BY SMTT(30) DEF DeskTypeOK, Task, RequestsAreSound
  <2> QED BY <1>2, <2>1 DEF RequestsAreSound
<1> QED BY <1>1, <1>2 DEF Others, Keeps

\* No id is used up when no session begins.
LEMMA SpentFrame ==
    ASSUME UNCHANGED used
    PROVE  \A i : (Spent(i)' <=> Spent(i)) /\ (Began(i)' <=> Began(i))
BY DEF Began, Spent, Final

\* Ids stay apart when the registries do not change and no begun call ends.
LEMMA IdsFrame ==
    ASSUME NEW t \in Workers, IdsAreApart, Others(t), 
           UNCHANGED <<confirmations, stages, cancelled, used, nextId>>,
           ~Removing(task[t])
    PROVE  IdsAreApart'
<1>1. \A u \in Workers : Removing(task[u]) => task'[u] = task[u]
  BY DEF Others
<1> QED BY <1>1, SpentFrame DEF IdsAreApart

\* An armed call stays alone when the registries do not change.
LEMMA ArmedFrame ==
    ASSUME NEW t \in Workers, ArmedIsAlone, Others(t), 
           UNCHANGED <<confirmations, stages, cancelled, used>>,
           Armed(task'[t]) => Armed(task[t]) /\ Keeps(t)
    PROVE  ArmedIsAlone'
<1> SUFFICES ASSUME NEW u \in Workers, Armed(task'[u])
             PROVE  /\ ~Spent(task'[u].id) /\ task'[u].id \notin cancelled
                    /\ task'[u].id \notin DOMAIN stages
                    /\ task'[u].op = "begin_staged" => task'[u].id \notin DOMAIN confirmations
                    /\ \A w \in Workers : w # u /\ Armed(task'[w]) => task'[w].id # task'[u].id
  BY DEF ArmedIsAlone, Spent
<1>1. \A w \in Workers : Armed(task'[w]) =>
        Armed(task[w]) /\ task'[w].id = task[w].id /\ task'[w].op = task[w].op
  BY DEF Others, Keeps
<1> QED BY <1>1 DEF ArmedIsAlone

\* No session begins.
LEMMA UsedFrame ==
    ASSUME DeskTypeOK, UsedIsBegun, UsedOnce, UNCHANGED used, nextId' \in Nat, nextId <= nextId'
    PROVE  UsedIsBegun' /\ UsedOnce'
<1>1. ASSUME NEW n \in DOMAIN used
      PROVE  used[n].id \in Nat /\ used[n].id < nextId'
  <2>1. PICK i, k : i = used[n].id /\ k = nextId /\ i \in Nat /\ k \in Nat /\ i < k /\ k <= nextId'
    BY DEF DeskTypeOK, UsedIsBegun
  <2>2. i < nextId'
    BY <2>1, SMTT(30)
  <2> QED BY <2>1, <2>2
<1> QED BY <1>1 DEF UsedIsBegun, UsedOnce

\* The integrity result stays current.
LEMMA FsckFrame ==
    ASSUME NEW t \in Workers, FsckIsFresh, Others(t), UNCHANGED <<last_fsck, stock>>,
           task'[t].op = "fsck" /\ task'[t].at = 3 => task'[t].seen = stock
    PROVE  FsckIsFresh'
BY DEF FsckIsFresh, Others

\* A session that was reused stays closed when no review changes.
LEMMA ReuseFrame ==
    ASSUME NEW t \in Workers, ReusedIsClosed, Others(t), UNCHANGED <<sessionOf, handle, reused>>,
           \A s : ~Deciding(task[t], s) /\ ~Deciding(task'[t], s),
           task'[t].op = "reuse" /\ task'[t].at = 4 => NotReviewed(task'[t].of)
    PROVE  ReusedIsClosed'
BY DEF ReusedIsClosed, Others, NotReviewed

\* A call within its steps stands at one of them.
LEMMA StepCounts ==
    ASSUME NEW k, k.at \in Nat,
           \/ k.op \in {"prepare_source", "prepare_reuse", "cancel"} /\ k.at \in 1 .. 2
           \/ k.op \in {"decide", "stage", "fsck"} /\ k.at \in 1 .. 3
           \/ k.op \in {"begin_staged", "restore"} /\ k.at \in 1 .. 4
           \/ k.op \in {"derived", "reuse"} /\ k.at \in 1 .. 5
    PROVE  Placed(k)
<1>1. /\ Len(Steps["prepare_source"]) = 2 /\ Len(Steps["prepare_reuse"]) = 2
      /\ Len(Steps["cancel"]) = 2 /\ Len(Steps["decide"]) = 3 /\ Len(Steps["stage"]) = 3
      /\ Len(Steps["fsck"]) = 3 /\ Len(Steps["begin_staged"]) = 4 /\ Len(Steps["restore"]) = 4
      /\ Len(Steps["derived"]) = 5 /\ Len(Steps["reuse"]) = 5
  BY StepsOf, SMTT(30)
<1>2. k.op # "idle" /\ k.at \in 1 .. Len(Steps[k.op])
  BY <1>1
<1> QED BY <1>2 DEF Placed

\* A step that changes no store, registry or history.
LEMMA QuietStep ==
    ASSUME NEW t \in Workers, DeskInv, UNCHANGED store, UNCHANGED memory, UNCHANGED history,
           task' \in [Workers -> Task], Others(t), LocksAreHeld', RequestsAreSound',
           ArmedIsAlone', ~Removing(task[t]),
           task'[t].op = "fsck" /\ task'[t].at = 3 => task'[t].seen = stock,
           \A s : ~Deciding(task[t], s) /\ ~Deciding(task'[t], s),
           task'[t].op = "reuse" /\ task'[t].at = 4 => NotReviewed(task'[t].of)
    PROVE  DeskInv'
<1>1. UNCHANGED <<sessionOf, handle, inbox, stock, foreign, instance, confirmations, stages,
                  last_fsck, nextId, reused, used, cancelled>>
  BY DEF store, memory, history
<1>2. DeskTypeOK'
  BY <1>1 DEF DeskInv, DeskTypeOK
<1>3. IdsAreApart'
  BY <1>1, IdsFrame DEF DeskInv
<1>5. UsedIsBegun' /\ UsedOnce'
  BY <1>1 DEF DeskInv, UsedIsBegun, UsedOnce
<1>6. FsckIsFresh'
  BY <1>1, FsckFrame DEF DeskInv
<1>7. ReusedIsClosed'
  BY <1>1, ReuseFrame DEF DeskInv
<1> QED BY <1>2, <1>3, <1>5, <1>6, <1>7 DEF DeskInv

\* A call that has changed nothing is answered.
LEMMA QuietAnswer ==
    ASSUME NEW t \in Workers, DeskInv, UNCHANGED store, UNCHANGED memory, UNCHANGED history,
           Answer(t), ~Removing(task[t]), \A s : ~Deciding(task[t], s)
    PROVE  DeskInv'
<1>1. task' \in [Workers -> Task] /\ Others(t) /\ task'[t] = Idle
  BY AnswerTask DEF DeskInv
<1>2. LocksAreHeld'
  BY AnswerLocks DEF DeskInv
<1>3. nextId' \in Nat /\ nextId <= nextId' /\ sessionOf' = sessionOf
  BY SMTT(30) DEF DeskInv, DeskTypeOK, store, memory
<1>4. RequestsAreSound'
  BY <1>1, <1>3, SoundFrame DEF DeskInv
<1>5. ArmedIsAlone'
  BY <1>1, IdleIs, ArmedFrame DEF DeskInv, memory, history
<1> QED BY <1>1, <1>2, <1>4, <1>5, IdleIs, QuietStep

\* A call goes on and changes nothing else.
LEMMA QuietAdvance ==
    ASSUME NEW t \in Workers, DeskInv, UNCHANGED store, UNCHANGED memory, UNCHANGED history,
           task' \in [Workers -> Task], Others(t), Keeps(t), LocksAreHeld',
           ~Removing(task[t]), Armed(task'[t]) => Armed(task[t]),
           task'[t].op = "fsck" /\ task'[t].at = 3 => task'[t].seen = stock,
           \A s : ~Deciding(task[t], s) /\ ~Deciding(task'[t], s),
           task'[t].op = "reuse" /\ task'[t].at = 4 => NotReviewed(task'[t].of)
    PROVE  DeskInv'
<1>1. nextId' \in Nat /\ nextId <= nextId' /\ sessionOf' = sessionOf
  BY SMTT(30) DEF DeskInv, DeskTypeOK, store, memory
<1>2. RequestsAreSound'
  BY <1>1, SoundFrame DEF DeskInv
<1>3. ArmedIsAlone'
  BY ArmedFrame DEF DeskInv, memory, history
<1> QED BY <1>2, <1>3, QuietStep

\* A new call holds nothing.
LEMMA RequestStep ==
    ASSUME NEW t \in Workers, DeskInv, Request(t)
    PROVE  DeskInv'
<1>1. PICK op, s, to, id :
        /\ Call(t, op, s, to, id) /\ id \in 0 .. nextId - 1
        /\ \/ op \in {"prepare_source", "prepare_reuse", "decide"} /\ s \in Shown /\ to = None
           \/ op \in {"derived", "reuse"} /\ s \in Shown /\ to \in CreatorSessions
           \/ op = "begin_staged" /\ s = None /\ to \in CreatorSessions
           \/ op \in {"cancel", "stage", "fsck", "restore"} /\ s = None /\ to = None
  <2>1. nextId \in Nat \ {0}
    BY DEF DeskInv, DeskTypeOK
  <2>2. 0 \in 0 .. nextId - 1 /\ \A id \in 1 .. nextId - 1 : id \in 0 .. nextId - 1
    BY <2>1, SMTT(30)
  <2> QED BY <2>2 DEF Request
<1>2. PICK n : n = [op |-> op, at |-> 1, of |-> s, to |-> to, id |-> id, seen |-> None]
  OBVIOUS
<1>3. /\ n.op = op /\ n.at = 1 /\ n.of = s /\ n.to = to /\ n.id = id /\ n \in Task
      /\ id < nextId
  <2>1. op \in DOMAIN Steps /\ s \in CreatorSessions \union {None}
        /\ to \in CreatorSessions \union {None}
    BY <1>1, StepsOf DEF Shown
  <2>2. id \in Nat /\ id < nextId
    BY <1>1, SMTT(30) DEF DeskInv, DeskTypeOK
  <2> QED BY <1>2, <2>1, <2>2, SMTT(30) DEF Task, Values
<1>4. task[t] = Idle /\ task' = [task EXCEPT ![t] = n]
  BY <1>1, <1>2 DEF Call
<1>5. task' \in [Workers -> Task] /\ Others(t) /\ task'[t] = n
  BY <1>3, <1>4 DEF DeskInv, DeskTypeOK, Others
<1>6. /\ Placed(n) /\ ~InWriter(n) /\ ~InStages(n) /\ ~Armed(n) /\ ~Removing(n)
      /\ \A x : ~Deciding(n, x)
  <2>1. Placed(n)
    BY <1>1, <1>3, StepCounts, SMTT(30)
  <2> QED BY <1>3, <2>1, SMTT(30) DEF InWriter, InStages, Armed, Removing, Deciding
<1>7. /\ KeepLocks /\ UNCHANGED store /\ UNCHANGED memory /\ UNCHANGED history
  BY <1>1 DEF Call, KeepLocks
<1>8. LocksAreHeld'
  BY <1>4, <1>5, <1>6, <1>7, IdleIs, KeptLocks DEF DeskInv
<1>9. RequestsAreSound'
  <2>1. nextId' = nextId /\ sessionOf' = sessionOf
    BY <1>7 DEF store, memory
  <2>2. \A u \in Workers : u # t => task'[u] = task[u]
    BY <1>5 DEF Others
  <2>3. /\ n.id < nextId
        /\ n.op \in {"prepare_source", "prepare_reuse", "derived", "reuse", "decide"} =>
             n.of \in CreatorSessions /\ sessionOf[n.of] # "absent"
        /\ n.op \in {"derived", "reuse", "begin_staged"} => n.to \in CreatorSessions
    BY <1>1, <1>3 DEF Shown
  <2> QED BY <1>5, <2>1, <2>2, <2>3 DEF DeskInv, RequestsAreSound
<1>10. ~(n.op = "fsck" /\ n.at = 3) /\ ~(n.op = "reuse" /\ n.at = 4)
  BY <1>3, SMTT(30)
<1>11. ArmedIsAlone'
  BY <1>5, <1>6, <1>7, ArmedFrame DEF DeskInv, memory, history
<1> QED BY <1>4, <1>5, <1>6, <1>7, <1>8, <1>9, <1>10, <1>11, IdleIs, QuietStep

-----------------------------------------------------------------------------
(* Calls that only read *)

\* The writer lock is taken when nobody has it.
LEMMA WriterStep ==
    ASSUME NEW t \in Workers, DeskInv, acquire_project_writer(t)
    PROVE  DeskInv'
<1>1. /\ At(t, "writer") /\ writer = None /\ writer' = t /\ Advance(t)
      /\ UNCHANGED stagesLock /\ UNCHANGED store /\ UNCHANGED memory /\ UNCHANGED history
  BY DEF acquire_project_writer
<1>2. /\ task' \in [Workers -> Task] /\ Others(t) /\ Keeps(t) /\ task'[t].at = task[t].at + 1
  BY <1>1, AdvanceTask DEF DeskInv
<1>3. \/ task[t].op \in {"derived", "reuse", "decide", "fsck"} /\ task[t].at = 1
      \/ task[t].op = "begin_staged" /\ task[t].at = 3
      \/ task[t].op = "restore" /\ task[t].at = 2
  BY <1>1, StandsAt DEF DeskInv, LocksAreHeld
<1>4. /\ InWriter(task'[t]) /\ (InStages(task'[t]) <=> InStages(task[t]))
      /\ ~Removing(task[t]) /\ (Armed(task'[t]) => Armed(task[t]))
      /\ ~(task'[t].op = "fsck" /\ task'[t].at = 3)
      /\ \A s : ~Deciding(task[t], s) /\ ~Deciding(task'[t], s)
      /\ ~(task'[t].op = "reuse" /\ task'[t].at = 4)
  BY <1>2, <1>3, SMTT(30) DEF Keeps, InWriter, InStages, Armed, Removing, Derives, Deciding
<1>5. Placed(task'[t])
  <2>1. /\ task'[t].at \in Nat
        /\ \/ task'[t].op \in {"derived", "reuse"} /\ task'[t].at \in 1 .. 5
           \/ task'[t].op \in {"decide", "fsck"} /\ task'[t].at \in 1 .. 3
           \/ task'[t].op \in {"begin_staged", "restore"} /\ task'[t].at \in 1 .. 4
    BY <1>2, <1>3, SMTT(30) DEF Keeps
  <2> QED BY <2>1, StepCounts
<1>6. LocksAreHeld'
  <2>1. None \notin Workers
    BY DeskAssumption
  <2>2. ASSUME NEW u \in Workers
        PROVE  /\ Placed(task'[u])
               /\ writer' = u <=> InWriter(task'[u])
               /\ stagesLock' = u <=> InStages(task'[u])
    BY <1>1, <1>2, <1>4, <1>5, <2>1 DEF DeskInv, LocksAreHeld, Others
  <2> QED BY <1>1, <2>2 DEF DeskInv, LocksAreHeld
<1> QED BY <1>1, <1>2, <1>4, <1>6, QuietAdvance

\* The source is read, or the call is answered.
LEMMA ReadSourceStep ==
    ASSUME NEW t \in Workers, DeskInv, ReadSource(t)
    PROVE  DeskInv'
<1>1. /\ At(t, "read") /\ UNCHANGED store /\ UNCHANGED memory /\ UNCHANGED history
  BY DEF ReadSource
<1>2. task[t].op \in {"prepare_source", "prepare_reuse"} /\ task[t].at = 1
  BY <1>1, StandsAt DEF DeskInv, LocksAreHeld
<1>3. ~Removing(task[t]) /\ \A s : ~Deciding(task[t], s)
  BY <1>2, SMTT(30) DEF Removing, Derives, Deciding
<1>4. CASE Answer(t)
  BY <1>1, <1>3, <1>4, QuietAnswer
<1>5. CASE Saw(t, sessionOf[task[t].of]) /\ KeepLocks
  <2>1. sessionOf[task[t].of] \in Values
    BY <1>2 DEF DeskInv, DeskTypeOK, RequestsAreSound, Values
  <2>2. /\ task' \in [Workers -> Task] /\ Others(t) /\ Keeps(t) /\ task'[t].at = task[t].at + 1
    BY <1>5, <2>1, SawTask DEF DeskInv
  <2>3. /\ (InWriter(task'[t]) <=> InWriter(task[t])) /\ (InStages(task'[t]) <=> InStages(task[t]))
        /\ ~Armed(task'[t]) /\ ~(task'[t].op = "fsck" /\ task'[t].at = 3)
        /\ (\A s : ~Deciding(task'[t], s)) /\ ~(task'[t].op = "reuse" /\ task'[t].at = 4)
    BY <1>2, <2>2, SMTT(30) DEF Keeps, InWriter, InStages, Armed, Derives, Deciding
  <2>4. Placed(task'[t])
    BY <1>2, <2>2, StepCounts, SMTT(30) DEF Keeps
  <2>5. LocksAreHeld'
    BY <1>5, <2>2, <2>3, <2>4, KeptLocks DEF DeskInv
  <2> QED BY <1>1, <1>3, <2>2, <2>3, <2>5, QuietAdvance
<1> QED BY <1>4, <1>5 DEF ReadSource

\* The candidate in the inbox is inspected.
LEMMA InspectStep ==
    ASSUME NEW t \in Workers, DeskInv, inspect_inbox_manifest(t)
    PROVE  DeskInv'
<1>1. /\ At(t, "inspect") /\ UNCHANGED store /\ UNCHANGED memory /\ UNCHANGED history
  BY DEF inspect_inbox_manifest
<1>2. task[t].op = "stage" /\ task[t].at = 1
  BY <1>1, StandsAt DEF DeskInv, LocksAreHeld
<1>3. ~Removing(task[t]) /\ \A s : ~Deciding(task[t], s)
  BY <1>2, SMTT(30) DEF Removing, Derives, Deciding
<1>4. CASE Answer(t)
  BY <1>1, <1>3, <1>4, QuietAnswer
<1>5. CASE Saw(t, inbox) /\ KeepLocks
  <2>1. inbox \in Values
    BY DEF DeskInv, DeskTypeOK, Values
  <2>2. /\ task' \in [Workers -> Task] /\ Others(t) /\ Keeps(t) /\ task'[t].at = task[t].at + 1
    BY <1>5, <2>1, SawTask DEF DeskInv
  <2>3. /\ (InWriter(task'[t]) <=> InWriter(task[t])) /\ (InStages(task'[t]) <=> InStages(task[t]))
        /\ ~Armed(task'[t]) /\ ~(task'[t].op = "fsck" /\ task'[t].at = 3)
        /\ (\A s : ~Deciding(task'[t], s)) /\ ~(task'[t].op = "reuse" /\ task'[t].at = 4)
    BY <1>2, <2>2, SMTT(30) DEF Keeps, InWriter, InStages, Armed, Derives, Deciding
  <2>4. Placed(task'[t])
    BY <1>2, <2>2, StepCounts, SMTT(30) DEF Keeps
  <2>5. LocksAreHeld'
    BY <1>5, <2>2, <2>3, <2>4, KeptLocks DEF DeskInv
  <2> QED BY <1>1, <1>3, <2>2, <2>3, <2>5, QuietAdvance
<1> QED BY <1>4, <1>5 DEF inspect_inbox_manifest

\* A restore is validated.
LEMMA ValidateStep ==
    ASSUME NEW t \in Workers, DeskInv, validate_archive_restore_request(t)
    PROVE  DeskInv'
<1>1. /\ At(t, "validate") /\ UNCHANGED store /\ UNCHANGED memory /\ UNCHANGED history
  BY DEF validate_archive_restore_request
<1>2. task[t].op = "restore" /\ task[t].at = 1
  BY <1>1, StandsAt DEF DeskInv, LocksAreHeld
<1>3. ~Removing(task[t]) /\ \A s : ~Deciding(task[t], s)
  BY <1>2, SMTT(30) DEF Removing, Derives, Deciding
<1>4. CASE Answer(t)
  BY <1>1, <1>3, <1>4, QuietAnswer
<1>5. CASE Advance(t) /\ KeepLocks
  <2>2. /\ task' \in [Workers -> Task] /\ Others(t) /\ Keeps(t) /\ task'[t].at = task[t].at + 1
    BY <1>5, AdvanceTask DEF DeskInv
  <2>3. /\ (InWriter(task'[t]) <=> InWriter(task[t])) /\ (InStages(task'[t]) <=> InStages(task[t]))
        /\ ~Armed(task'[t]) /\ ~(task'[t].op = "fsck" /\ task'[t].at = 3)
        /\ (\A s : ~Deciding(task'[t], s)) /\ ~(task'[t].op = "reuse" /\ task'[t].at = 4)
    BY <1>2, <2>2, SMTT(30) DEF Keeps, InWriter, InStages, Armed, Derives, Deciding
  <2>4. Placed(task'[t])
    BY <1>2, <2>2, StepCounts, SMTT(30) DEF Keeps
  <2>5. LocksAreHeld'
    BY <1>5, <2>2, <2>3, <2>4, KeptLocks DEF DeskInv
  <2> QED BY <1>1, <1>3, <2>2, <2>3, <2>5, QuietAdvance
<1> QED BY <1>4, <1>5 DEF validate_archive_restore_request

-----------------------------------------------------------------------------
(* Calls that change the registries *)

\* Each lock has one holder.
LEMMA OneHolder ==
    ASSUME LocksAreHeld, NEW t \in Workers, NEW u \in Workers
    PROVE  /\ InWriter(task[t]) /\ InWriter(task[u]) => t = u
           /\ InStages(task[t]) /\ InStages(task[u]) => t = u
BY DEF LocksAreHeld

\* A step only adds entries with new ids, and only cancels what was staged.
RegistriesGrow ==
    /\ UNCHANGED used /\ nextId' \in Nat \ {0} /\ nextId <= nextId'
    /\ \A i \in DOMAIN confirmations' : \/ i \in DOMAIN confirmations
                                        \/ i = nextId /\ nextId < nextId' /\ i \notin DOMAIN stages'
    /\ \A i \in DOMAIN stages' : \/ i \in DOMAIN stages
                                 \/ i = nextId /\ nextId < nextId' /\ i \notin DOMAIN confirmations'
    /\ \A i \in cancelled' : i \in cancelled \/ (i \in DOMAIN stages /\ i \notin DOMAIN stages')

\* A new id is in no registry, and no session or armed call has it.
LEMMA NewIdIsNew ==
    ASSUME DeskInv
    PROVE  /\ nextId \notin DOMAIN confirmations /\ nextId \notin DOMAIN stages
           /\ nextId \notin cancelled /\ ~Began(nextId) /\ ~Spent(nextId)
           /\ \A t \in Workers : task[t].id # nextId
<1>1. nextId \in Nat
  BY DEF DeskInv, DeskTypeOK
<1>2. nextId \notin 1 .. nextId - 1 /\ \A x \in Nat : x < nextId => x # nextId
  BY <1>1, SMTT(30)
<1>3. \A t \in Workers : task[t].id \in Nat /\ task[t].id < nextId
  BY SMTT(30) DEF DeskInv, DeskTypeOK, Task, RequestsAreSound
<1>4. \A n \in DOMAIN used : used[n].id \in Nat /\ used[n].id < nextId
  BY DEF DeskInv, UsedIsBegun
<1> QED BY <1>2, <1>3, <1>4 DEF DeskInv, IdsAreApart, Began, Spent

\* Ids stay apart.
LEMMA IdsStep ==
    ASSUME NEW t \in Workers, DeskInv, Others(t), RegistriesGrow,
           Removing(task[t]) => task[t].id \notin DOMAIN confirmations'
    PROVE  IdsAreApart'
<1>1. /\ nextId \notin DOMAIN confirmations /\ nextId \notin DOMAIN stages
      /\ nextId \notin cancelled /\ ~Began(nextId) /\ ~Spent(nextId)
  BY NewIdIsNew
<1>2. /\ \A i \in 1 .. nextId - 1 : i \in 1 .. nextId' - 1
      /\ nextId < nextId' => nextId \in 1 .. nextId' - 1
  BY SMTT(30) DEF RegistriesGrow, DeskInv, DeskTypeOK
<1>3. \A i : (Spent(i)' <=> Spent(i)) /\ (Began(i)' <=> Began(i))
  BY SpentFrame DEF RegistriesGrow
<1>4. ASSUME NEW i \in DOMAIN confirmations'
      PROVE  /\ i \in 1 .. nextId' - 1 /\ i \notin DOMAIN stages' /\ i \notin cancelled'
             /\ Spent(i) => \E u \in Workers : Removing(task'[u]) /\ task'[u].id = i
  <2>1. CASE i \in DOMAIN confirmations
    <3>1. i \in 1 .. nextId - 1 /\ i \notin DOMAIN stages /\ i \notin cancelled
      BY <2>1 DEF DeskInv, IdsAreApart
    <3>2. i \in 1 .. nextId' - 1 /\ i \notin DOMAIN stages' /\ i \notin cancelled'
      BY <1>1, <1>2, <2>1, <3>1 DEF RegistriesGrow
    <3>3. ASSUME Spent(i)
          PROVE  \E u \in Workers : Removing(task'[u]) /\ task'[u].id = i
      <4>1. PICK u \in Workers : Removing(task[u]) /\ task[u].id = i
        BY <2>1, <3>3 DEF DeskInv, IdsAreApart
      <4> QED BY <4>1 DEF Others
    <3> QED BY <3>2, <3>3
  <2>2. CASE i = nextId /\ nextId < nextId' /\ i \notin DOMAIN stages'
    BY <1>1, <1>2, <2>2 DEF RegistriesGrow
  <2> QED BY <2>1, <2>2 DEF RegistriesGrow
<1>5. ASSUME NEW i \in DOMAIN stages'
      PROVE  i \in 1 .. nextId' - 1 /\ i \notin cancelled' /\ ~Began(i)
  <2>1. CASE i \in DOMAIN stages
    BY <1>2, <2>1 DEF DeskInv, IdsAreApart, RegistriesGrow
  <2>2. CASE i = nextId /\ nextId < nextId'
    BY <1>1, <1>2, <2>2 DEF RegistriesGrow
  <2> QED BY <2>1, <2>2 DEF RegistriesGrow
<1>6. ASSUME NEW i \in cancelled'
      PROVE  i \in 1 .. nextId' - 1 /\ ~Began(i)
  BY <1>2 DEF DeskInv, IdsAreApart, RegistriesGrow
<1> QED BY <1>3, <1>4, <1>5, <1>6 DEF IdsAreApart

\* Armed calls stay alone.
LEMMA ArmedStep ==
    ASSUME NEW t \in Workers, DeskInv, Others(t), RegistriesGrow,
           Armed(task'[t]) => Armed(task[t]) /\ Keeps(t)
    PROVE  ArmedIsAlone'
<1> SUFFICES ASSUME NEW u \in Workers, Armed(task'[u])
             PROVE  /\ ~Spent(task'[u].id) /\ task'[u].id \notin cancelled'
                    /\ task'[u].id \notin DOMAIN stages'
                    /\ task'[u].op = "begin_staged" => task'[u].id \notin DOMAIN confirmations'
                    /\ \A w \in Workers : w # u /\ Armed(task'[w]) => task'[w].id # task'[u].id
  BY DEF ArmedIsAlone, Spent, RegistriesGrow
<1>1. \A w \in Workers : Armed(task'[w]) =>
        Armed(task[w]) /\ task'[w].id = task[w].id /\ task'[w].op = task[w].op
  BY DEF Others, Keeps
<1>2. task[u].id # nextId
  BY NewIdIsNew
<1>4. /\ ~Spent(task[u].id) /\ task[u].id \notin cancelled /\ task[u].id \notin DOMAIN stages
      /\ task[u].op = "begin_staged" => task[u].id \notin DOMAIN confirmations
      /\ \A w \in Workers : w # u /\ Armed(task[w]) => task[w].id # task[u].id
  BY <1>1 DEF DeskInv, ArmedIsAlone
<1> QED BY <1>1, <1>2, <1>4 DEF RegistriesGrow

\* A call that has changed registries and nothing else is answered.
LEMMA RegistryAnswer ==
    ASSUME NEW t \in Workers, DeskInv, RegistriesGrow, UNCHANGED store,
           UNCHANGED <<last_fsck, reused>>, Answer(t), \A s : ~Deciding(task[t], s),
           Removing(task[t]) => task[t].id \notin DOMAIN confirmations',
           confirmations' \in [DOMAIN confirmations' -> Confirmation],
           stages' \in [DOMAIN stages' -> Nat]
    PROVE  DeskInv'
<1>1. task' \in [Workers -> Task] /\ Others(t) /\ task'[t] = Idle
  BY AnswerTask DEF DeskInv
<1>2. /\ UNCHANGED <<sessionOf, handle, inbox, stock, instance, used>>
      /\ nextId' \in Nat \ {0} /\ nextId' \in Nat /\ nextId <= nextId'
  BY DEF store, RegistriesGrow
<1>3. DeskTypeOK'
  BY <1>1, <1>2 DEF DeskInv, DeskTypeOK
<1>4. LocksAreHeld'
  BY AnswerLocks DEF DeskInv
<1>5. RequestsAreSound'
  BY <1>1, <1>2, SoundFrame DEF DeskInv
<1>6. IdsAreApart' /\ ArmedIsAlone'
  BY <1>1, IdleIs, IdsStep, ArmedStep
<1>7. UsedIsBegun' /\ UsedOnce'
  BY <1>2, UsedFrame DEF DeskInv
<1>8. FsckIsFresh'
  BY <1>1, <1>2, IdleIs, FsckFrame DEF DeskInv
<1>9. ReusedIsClosed'
  BY <1>1, <1>2, IdleIs, ReuseFrame DEF DeskInv
<1> QED BY <1>3, <1>4, <1>5, <1>6, <1>7, <1>8, <1>9 DEF DeskInv

\* A confirmation is entered, replaced or refused.
LEMMA ConfirmStep ==
    ASSUME NEW t \in Workers, DeskInv, Confirm(t)
    PROVE  DeskInv'
<1>1. PICK kind, made, kept :
        /\ kind = IF task[t].op = "prepare_source" THEN "derived" ELSE "reuse"
        /\ made = [kind |-> kind, of |-> task[t].of, seen |-> task[t].seen, instance |-> instance]
        /\ kept = Without(confirmations, {i \in DOMAIN confirmations :
                    confirmations[i].kind = kind /\ confirmations[i].of = task[t].of})
        /\ At(t, "confirm") /\ Answer(t)
        /\ \/ UNCHANGED <<confirmations, nextId>>
           \/ confirmations' = kept /\ UNCHANGED nextId
           \/ confirmations' = With(kept, nextId, made) /\ nextId' = nextId + 1
        /\ UNCHANGED <<stages, last_fsck>> /\ UNCHANGED store /\ UNCHANGED history
  BY DEF Confirm
<1>2. task[t].op \in {"prepare_source", "prepare_reuse"} /\ task[t].at = 2
  BY <1>1, StandsAt DEF DeskInv, LocksAreHeld
<1>3. ~Removing(task[t]) /\ \A s : ~Deciding(task[t], s)
  BY <1>2, SMTT(30) DEF Removing, Derives, Deciding
<1>4. kind \in {"derived", "reuse"} /\ made \in Confirmation
  <2>1. kind \in {"derived", "reuse"} /\ task[t].of \in CreatorSessions
    BY <1>1, <1>2 DEF DeskInv, RequestsAreSound
  <2>2. task[t].seen \in Values /\ instance \in Nat
    BY SMTT(30) DEF DeskInv, DeskTypeOK, Task
  <2> QED BY <1>1, <2>1, <2>2, SMTT(30) DEF Confirmation
<1>5. confirmations \in [DOMAIN confirmations -> Confirmation]
  BY DEF DeskInv, DeskTypeOK
<1>6. DOMAIN kept \subseteq DOMAIN confirmations /\ kept \in [DOMAIN kept -> Confirmation]
  BY <1>1, <1>5 DEF Without
<1>7. /\ confirmations' \in [DOMAIN confirmations' -> Confirmation]
      /\ \A i \in DOMAIN confirmations' :
           i \in DOMAIN confirmations \/ (i = nextId /\ nextId' = nextId + 1)
  <2>1. CASE UNCHANGED <<confirmations, nextId>>
    BY <1>5, <2>1
  <2>2. CASE confirmations' = kept
    BY <1>6, <2>2
  <2>3. CASE confirmations' = With(kept, nextId, made) /\ nextId' = nextId + 1
    BY <1>4, <1>6, <2>3 DEF With
  <2> QED BY <1>1, <2>1, <2>2, <2>3
<1>8. nextId' \in Nat \ {0} /\ nextId <= nextId' /\ (nextId' = nextId + 1 => nextId < nextId')
  BY <1>1, SMTT(30) DEF DeskInv, DeskTypeOK
<1>9. RegistriesGrow
  <2>1. nextId \notin DOMAIN stages
    BY NewIdIsNew
  <2> QED BY <1>1, <1>7, <1>8, <2>1 DEF RegistriesGrow, history
<1>10. stages' \in [DOMAIN stages' -> Nat] /\ UNCHANGED <<last_fsck, reused>>
  BY <1>1 DEF DeskInv, DeskTypeOK, history
<1> QED BY <1>1, <1>3, <1>7, <1>9, <1>10, RegistryAnswer

\* The confirmation that a session began from is removed.
LEMMA RemoveStep ==
    ASSUME NEW t \in Workers, DeskInv, RemoveConfirmation(t)
    PROVE  DeskInv'
<1>1. /\ At(t, "remove") /\ confirmations' = Without(confirmations, {task[t].id}) /\ Answer(t)
      /\ UNCHANGED <<stages, last_fsck, nextId>> /\ UNCHANGED store /\ UNCHANGED history
  BY DEF RemoveConfirmation
<1>2. task[t].op \in {"derived", "reuse"} /\ task[t].at = 5
  BY <1>1, StandsAt DEF DeskInv, LocksAreHeld
<1>3. \A s : ~Deciding(task[t], s)
  BY <1>2 DEF Deciding
<1>4. /\ DOMAIN confirmations' = DOMAIN confirmations \ {task[t].id}
      /\ confirmations' \in [DOMAIN confirmations' -> Confirmation]
  BY <1>1 DEF DeskInv, DeskTypeOK, Without
<1>5. nextId' \in Nat \ {0} /\ nextId <= nextId'
  BY <1>1, SMTT(30) DEF DeskInv, DeskTypeOK
<1>6. RegistriesGrow
  BY <1>1, <1>4, <1>5 DEF RegistriesGrow, history
<1>7. stages' \in [DOMAIN stages' -> Nat] /\ UNCHANGED <<last_fsck, reused>>
  BY <1>1 DEF DeskInv, DeskTypeOK, history
<1> QED BY <1>1, <1>3, <1>4, <1>6, <1>7, RegistryAnswer

\* The bytes in the inbox are staged, or refused.
LEMMA CopyStep ==
    ASSUME NEW t \in Workers, DeskInv, copy_inbox_file(t)
    PROVE  DeskInv'
<1>1. /\ At(t, "copy") /\ Answer(t)
      /\ \/ stages' = With(stages, nextId, inbox) /\ nextId' = nextId + 1
         \/ UNCHANGED <<stages, nextId>>
      /\ UNCHANGED <<confirmations, last_fsck>> /\ UNCHANGED store /\ UNCHANGED history
  BY DEF copy_inbox_file
<1>2. task[t].op = "stage" /\ task[t].at = 3
  BY <1>1, StandsAt DEF DeskInv, LocksAreHeld
<1>3. ~Removing(task[t]) /\ \A s : ~Deciding(task[t], s)
  BY <1>2, SMTT(30) DEF Removing, Derives, Deciding
<1>4. /\ stages' \in [DOMAIN stages' -> Nat]
      /\ \A i \in DOMAIN stages' : i \in DOMAIN stages \/ (i = nextId /\ nextId' = nextId + 1)
  <2>1. stages \in [DOMAIN stages -> Nat] /\ inbox \in Nat
    BY DEF DeskInv, DeskTypeOK
  <2>2. CASE stages' = With(stages, nextId, inbox) /\ nextId' = nextId + 1
    BY <2>1, <2>2 DEF With
  <2> QED BY <1>1, <2>1, <2>2
<1>5. nextId' \in Nat \ {0} /\ nextId <= nextId' /\ (nextId' = nextId + 1 => nextId < nextId')
  BY <1>1, SMTT(30) DEF DeskInv, DeskTypeOK
<1>6. RegistriesGrow
  <2>1. nextId \notin DOMAIN confirmations
    BY NewIdIsNew
  <2> QED BY <1>1, <1>4, <1>5, <2>1 DEF RegistriesGrow, history
<1>7. /\ confirmations' \in [DOMAIN confirmations' -> Confirmation]
      /\ UNCHANGED <<last_fsck, reused>>
  BY <1>1 DEF DeskInv, DeskTypeOK, history
<1> QED BY <1>1, <1>3, <1>4, <1>6, <1>7, RegistryAnswer

\* A staged import is cancelled.
LEMMA CancelStep ==
    ASSUME NEW t \in Workers, DeskInv, cancel_staged_import_inbox(t)
    PROVE  DeskInv'
<1>1. /\ At(t, "drop") /\ Answer(t)
      /\ cancelled' = IF task[t].id \in DOMAIN stages THEN cancelled \union {task[t].id}
                      ELSE cancelled
      /\ stages' = Without(stages, {task[t].id})
      /\ UNCHANGED <<confirmations, last_fsck, nextId, reused, used>> /\ UNCHANGED store
  BY DEF cancel_staged_import_inbox
<1>2. task[t].op = "cancel" /\ task[t].at = 2
  BY <1>1, StandsAt DEF DeskInv, LocksAreHeld
<1>3. ~Removing(task[t]) /\ \A s : ~Deciding(task[t], s)
  BY <1>2, SMTT(30) DEF Removing, Derives, Deciding
<1>4. DOMAIN stages' = DOMAIN stages \ {task[t].id} /\ stages' \in [DOMAIN stages' -> Nat]
  BY <1>1 DEF DeskInv, DeskTypeOK, Without
<1>5. nextId' \in Nat \ {0} /\ nextId <= nextId'
  BY <1>1, SMTT(30) DEF DeskInv, DeskTypeOK
<1>6. \A i \in cancelled' : i \in cancelled \/ (i \in DOMAIN stages /\ i \notin DOMAIN stages')
  BY <1>1, <1>4
<1>7. RegistriesGrow
  BY <1>1, <1>4, <1>5, <1>6 DEF RegistriesGrow
<1>8. confirmations' \in [DOMAIN confirmations' -> Confirmation]
  BY <1>1 DEF DeskInv, DeskTypeOK
<1> QED BY <1>1, <1>3, <1>4, <1>7, <1>8, RegistryAnswer

\* A call that goes on after stages were purged or taken.
LEMMA RegistryAdvance ==
    ASSUME NEW t \in Workers, DeskInv, UNCHANGED store, UNCHANGED history,
           UNCHANGED <<confirmations, last_fsck, nextId>>,
           DOMAIN stages' \subseteq DOMAIN stages, stages' \in [DOMAIN stages' -> Nat],
           task' \in [Workers -> Task], Others(t), Keeps(t), LocksAreHeld', ArmedIsAlone',
           ~Removing(task[t]), task'[t].op \notin {"fsck", "reuse", "decide"}
    PROVE  DeskInv'
<1>1. UNCHANGED <<sessionOf, handle, inbox, stock, instance, used, cancelled, reused>>
  BY DEF store, history
<1>2. nextId' \in Nat \ {0} /\ nextId' \in Nat /\ nextId <= nextId'
  BY SMTT(30) DEF DeskInv, DeskTypeOK
<1>3. DeskTypeOK'
  BY <1>1 DEF DeskInv, DeskTypeOK
<1>4. RegistriesGrow
  BY <1>1, <1>2 DEF RegistriesGrow
<1>5. RequestsAreSound'
  BY <1>1, <1>2, SoundFrame DEF DeskInv
<1>6. IdsAreApart'
  BY <1>4, IdsStep
<1>7. UsedIsBegun' /\ UsedOnce'
  BY <1>1, <1>2, UsedFrame DEF DeskInv
<1>8. FsckIsFresh'
  BY <1>1, FsckFrame DEF DeskInv
<1>9. ReusedIsClosed'
  BY <1>1, ReuseFrame DEF DeskInv, Keeps, Deciding
<1> QED BY <1>3, <1>5, <1>6, <1>7, <1>8, <1>9 DEF DeskInv

\* The lock of the staged imports is taken, and expired stages are purged.
LEMMA StagesStep ==
    ASSUME NEW t \in Workers, DeskInv, lock_stages(t)
    PROVE  DeskInv'
<1>1. PICK expired \in SUBSET DOMAIN stages :
        /\ At(t, "stages") /\ stagesLock = None /\ stagesLock' = t /\ Advance(t)
        /\ stages' = Without(stages, expired)
        /\ UNCHANGED writer /\ UNCHANGED <<confirmations, last_fsck, nextId>>
        /\ UNCHANGED store /\ UNCHANGED history
  BY DEF lock_stages
<1>2. /\ task' \in [Workers -> Task] /\ Others(t) /\ Keeps(t) /\ task'[t].at = task[t].at + 1
  BY <1>1, AdvanceTask DEF DeskInv
<1>3. \/ task[t].op = "stage" /\ task[t].at = 2
      \/ task[t].op \in {"begin_staged", "cancel"} /\ task[t].at = 1
  BY <1>1, StandsAt DEF DeskInv, LocksAreHeld
<1>4. /\ InStages(task'[t]) /\ (InWriter(task'[t]) <=> InWriter(task[t]))
      /\ ~Removing(task[t]) /\ ~Armed(task'[t])
      /\ task'[t].op \notin {"fsck", "reuse", "decide"}
  BY <1>2, <1>3, SMTT(30) DEF Keeps, InWriter, InStages, Armed, Removing, Derives
<1>5. Placed(task'[t])
  <2>1. /\ task'[t].at \in Nat
        /\ \/ task'[t].op = "cancel" /\ task'[t].at \in 1 .. 2
           \/ task'[t].op = "stage" /\ task'[t].at \in 1 .. 3
           \/ task'[t].op = "begin_staged" /\ task'[t].at \in 1 .. 4
    BY <1>2, <1>3, SMTT(30) DEF Keeps
  <2> QED BY <2>1, StepCounts
<1>6. LocksAreHeld'
  <2>1. None \notin Workers
    BY DeskAssumption
  <2>2. ASSUME NEW u \in Workers
        PROVE  /\ Placed(task'[u])
               /\ writer' = u <=> InWriter(task'[u])
               /\ stagesLock' = u <=> InStages(task'[u])
    BY <1>1, <1>2, <1>4, <1>5, <2>1 DEF DeskInv, LocksAreHeld, Others
  <2> QED BY <1>1, <2>2 DEF DeskInv, LocksAreHeld
<1>7. DOMAIN stages' \subseteq DOMAIN stages /\ stages' \in [DOMAIN stages' -> Nat]
  BY <1>1 DEF DeskInv, DeskTypeOK, Without
<1>8. ArmedIsAlone'
  <2>1. nextId' \in Nat \ {0} /\ nextId <= nextId'
    BY <1>1, SMTT(30) DEF DeskInv, DeskTypeOK
  <2>2. RegistriesGrow
    BY <1>1, <1>7, <2>1 DEF RegistriesGrow, history
  <2> QED BY <1>2, <1>4, <2>2, ArmedStep
<1> QED BY <1>1, <1>2, <1>4, <1>6, <1>7, <1>8, RegistryAdvance

\* A begin takes its stage out of the registry.
LEMMA TakeStep ==
    ASSUME NEW t \in Workers, DeskInv, TakeStage(t)
    PROVE  DeskInv'
<1>1. /\ At(t, "take") /\ UNCHANGED <<confirmations, last_fsck, nextId>>
      /\ UNCHANGED store /\ UNCHANGED history
  BY DEF TakeStage
<1>2. task[t].op = "begin_staged" /\ task[t].at = 2
  BY <1>1, StandsAt DEF DeskInv, LocksAreHeld
<1>3. ~Removing(task[t]) /\ (\A s : ~Deciding(task[t], s)) /\ InStages(task[t]) /\ ~InWriter(task[t])
  BY <1>2, SMTT(30) DEF Removing, Derives, Deciding, InStages, InWriter
<1>4. CASE Answer(t) /\ UNCHANGED stages
  BY <1>1, <1>3, <1>4, QuietAnswer DEF memory
<1>5. CASE /\ task[t].id \in DOMAIN stages /\ Saw(t, stages[task[t].id])
           /\ stages' = Without(stages, {task[t].id}) /\ KeepLocks
  <2>1. stages[task[t].id] \in Values
    BY <1>5 DEF DeskInv, DeskTypeOK, Values
  <2>2. /\ task' \in [Workers -> Task] /\ Others(t) /\ Keeps(t) /\ task'[t].at = task[t].at + 1
    BY <1>5, <2>1, SawTask DEF DeskInv
  <2>3. /\ InStages(task'[t]) /\ ~InWriter(task'[t])
        /\ task'[t].op \notin {"fsck", "reuse", "decide"}
    BY <1>2, <2>2, SMTT(30) DEF Keeps, InWriter, InStages
  <2>4. Placed(task'[t])
    BY <1>2, <2>2, StepCounts, SMTT(30) DEF Keeps
  <2>5. LocksAreHeld'
    BY <1>3, <1>5, <2>2, <2>3, <2>4, KeptLocks DEF DeskInv
  <2>6. DOMAIN stages' = DOMAIN stages \ {task[t].id} /\ stages' \in [DOMAIN stages' -> Nat]
    BY <1>5 DEF DeskInv, DeskTypeOK, Without
  <2>7. /\ ~Spent(task[t].id) /\ task[t].id \notin cancelled
        /\ task[t].id \notin DOMAIN confirmations
    BY <1>5 DEF DeskInv, IdsAreApart, Began, Spent
  <2>8. \A u \in Workers : u # t /\ Armed(task[u]) => task[u].id # task[t].id
    BY <1>5 DEF DeskInv, ArmedIsAlone
  <2>9. ASSUME NEW u \in Workers, Armed(task'[u])
        PROVE  /\ ~Spent(task'[u].id) /\ task'[u].id \notin cancelled
               /\ task'[u].id \notin DOMAIN stages'
               /\ task'[u].op = "begin_staged" => task'[u].id \notin DOMAIN confirmations
               /\ \A w \in Workers : w # u /\ Armed(task'[w]) => task'[w].id # task'[u].id
    <3>1. CASE u = t
      BY <2>2, <2>6, <2>7, <2>8, <3>1 DEF Others, Keeps
    <3>2. CASE u # t
      BY <2>2, <2>6, <2>8, <2>9, <3>2 DEF Others, Keeps, DeskInv, ArmedIsAlone
    <3> QED BY <3>1, <3>2
  <2>10. ArmedIsAlone'
    BY <1>1, <2>9 DEF ArmedIsAlone, Spent, history
  <2> QED BY <1>1, <1>3, <2>2, <2>3, <2>5, <2>6, <2>10, RegistryAdvance
<1> QED BY <1>4, <1>5 DEF TakeStage

-----------------------------------------------------------------------------
(* Begins *)

\* A confirmation is looked up: from now on no other call begins from it.
LEMMA LookupStep ==
    ASSUME NEW t \in Workers, DeskInv, Lookup(t)
    PROVE  DeskInv'
<1>1. /\ At(t, "lookup") /\ UNCHANGED store /\ UNCHANGED memory /\ UNCHANGED history
  BY DEF Lookup
<1>2. task[t].op \in {"derived", "reuse"} /\ task[t].at = 2
  BY <1>1, StandsAt DEF DeskInv, LocksAreHeld
<1>3. ~Removing(task[t]) /\ (\A s : ~Deciding(task[t], s)) /\ InWriter(task[t]) /\ ~InStages(task[t])
  BY <1>2, SMTT(30) DEF Removing, Derives, Deciding, InWriter, InStages
<1>4. CASE Answer(t)
  BY <1>1, <1>3, <1>4, QuietAnswer
<1>5. CASE Known(t) /\ Saw(t, confirmations[task[t].id].seen) /\ KeepLocks
  <2>1. task[t].id \in DOMAIN confirmations /\ confirmations[task[t].id].seen \in Values
    <3>1. task[t].id \in DOMAIN confirmations
      BY <1>5 DEF Known
    <3>2. confirmations[task[t].id] \in Confirmation
      BY <3>1 DEF DeskInv, DeskTypeOK
    <3> QED BY <3>1, <3>2, SMTT(30) DEF Confirmation
  <2>2. /\ task' \in [Workers -> Task] /\ Others(t) /\ Keeps(t) /\ task'[t].at = task[t].at + 1
    BY <1>5, <2>1, SawTask DEF DeskInv
  <2>3. /\ InWriter(task'[t]) /\ ~InStages(task'[t]) /\ task'[t].op # "begin_staged"
        /\ ~(task'[t].op = "fsck" /\ task'[t].at = 3)
        /\ (\A s : ~Deciding(task'[t], s)) /\ ~(task'[t].op = "reuse" /\ task'[t].at = 4)
    BY <1>2, <2>2, SMTT(30) DEF Keeps, InWriter, InStages, Deciding
  <2>4. Placed(task'[t])
    BY <1>2, <2>2, StepCounts, SMTT(30) DEF Keeps
  <2>5. LocksAreHeld'
    BY <1>3, <1>5, <2>2, <2>3, <2>4, KeptLocks DEF DeskInv
  <2>6. ~Spent(task[t].id) /\ task[t].id \notin DOMAIN stages /\ task[t].id \notin cancelled
    <3>1. ASSUME NEW u \in Workers, Removing(task[u])
          PROVE  FALSE
      <4>1. InWriter(task[u])
        BY <3>1, SMTT(30) DEF Removing, Derives, InWriter
      <4> QED BY <1>3, <3>1, <4>1, OneHolder DEF DeskInv
    <3> QED BY <2>1, <3>1 DEF DeskInv, IdsAreApart
  <2>7. \A u \in Workers : u # t /\ Armed(task[u]) => task[u].id # task[t].id
    <3> SUFFICES ASSUME NEW u \in Workers, u # t, Armed(task[u])
                 PROVE  task[u].id # task[t].id
      OBVIOUS
    <3>1. CASE Derives(task[u])
      <4>1. InWriter(task[u])
        BY <3>1, SMTT(30) DEF Armed, Derives, InWriter
      <4> QED BY <1>3, <4>1, OneHolder DEF DeskInv
    <3>2. CASE task[u].op = "begin_staged"
      BY <2>1, <3>2 DEF DeskInv, ArmedIsAlone
    <3> QED BY <3>1, <3>2 DEF Armed
  <2>8. ASSUME NEW u \in Workers, Armed(task'[u])
        PROVE  /\ ~Spent(task'[u].id) /\ task'[u].id \notin cancelled
               /\ task'[u].id \notin DOMAIN stages
               /\ task'[u].op = "begin_staged" => task'[u].id \notin DOMAIN confirmations
               /\ \A w \in Workers : w # u /\ Armed(task'[w]) => task'[w].id # task'[u].id
    <3>1. CASE u = t
      BY <2>2, <2>3, <2>6, <2>7, <3>1 DEF Others, Keeps
    <3>2. CASE u # t
      BY <2>2, <2>7, <2>8, <3>2 DEF Others, Keeps, DeskInv, ArmedIsAlone
    <3> QED BY <3>1, <3>2
  <2>9. ArmedIsAlone'
    BY <1>1, <2>8 DEF ArmedIsAlone, Spent, history, memory
  <2>10. nextId' \in Nat /\ nextId <= nextId' /\ sessionOf' = sessionOf
    BY <1>1, SMTT(30) DEF DeskInv, DeskTypeOK, store, memory
  <2>11. RequestsAreSound'
    BY <2>2, <2>10, SoundFrame DEF DeskInv
  <2> QED BY <1>1, <1>3, <2>2, <2>3, <2>5, <2>9, <2>11, QuietStep
<1> QED BY <1>4, <1>5 DEF Lookup

\* The source is still what was confirmed, and not under review here: whoever
\* decides it would have the writer lock.
LEMMA VerifyStep ==
    ASSUME NEW t \in Workers, DeskInv, Verify(t)
    PROVE  DeskInv'
<1>1. /\ At(t, "verify") /\ UNCHANGED store /\ UNCHANGED memory /\ UNCHANGED history
  BY DEF Verify
<1>2. task[t].op \in {"derived", "reuse"} /\ task[t].at = 3
  BY <1>1, StandsAt DEF DeskInv, LocksAreHeld
<1>3. ~Removing(task[t]) /\ (\A s : ~Deciding(task[t], s)) /\ InWriter(task[t]) /\ ~InStages(task[t])
  BY <1>2, SMTT(30) DEF Removing, Derives, Deciding, InWriter, InStages
<1>4. CASE Answer(t)
  BY <1>1, <1>3, <1>4, QuietAnswer
<1>5. CASE Fresh(t) /\ Advance(t) /\ KeepLocks
  <2>2. /\ task' \in [Workers -> Task] /\ Others(t) /\ Keeps(t) /\ task'[t].at = task[t].at + 1
    BY <1>5, AdvanceTask DEF DeskInv
  <2>3. /\ InWriter(task'[t]) /\ ~InStages(task'[t]) /\ Armed(task[t])
        /\ ~(task'[t].op = "fsck" /\ task'[t].at = 3) /\ (\A s : ~Deciding(task'[t], s))
    BY <1>2, <2>2, SMTT(30) DEF Keeps, InWriter, InStages, Armed, Derives, Deciding
  <2>4. Placed(task'[t])
    BY <1>2, <2>2, StepCounts, SMTT(30) DEF Keeps
  <2>5. LocksAreHeld'
    BY <1>3, <1>5, <2>2, <2>3, <2>4, KeptLocks DEF DeskInv
  <2>6. task[t].op = "reuse" => NotReviewed(task[t].of)
    <3>1. task[t].of \in CreatorSessions
      BY <1>2 DEF DeskInv, RequestsAreSound
    <3>2. ASSUME handle[task[t].of] = "deciding"
          PROVE  FALSE
      <4>1. PICK u \in Workers : Deciding(task[u], task[t].of)
        BY <3>1, <3>2 DEF DeskInv, ReusedIsClosed
      <4>2. InWriter(task[u])
        BY <4>1, SMTT(30) DEF Deciding, InWriter
      <4> QED BY <1>3, <4>1, <4>2, OneHolder DEF DeskInv
    <3> QED BY <1>5, <3>2 DEF Fresh, Offered, ready_pending, NotReviewed
  <2> QED BY <1>1, <1>3, <2>2, <2>3, <2>5, <2>6, QuietAdvance DEF Keeps
<1> QED BY <1>4, <1>5 DEF Verify

\* A session begins: its id is used up, and its source, if reused, is closed.
LEMMA BeginStep ==
    ASSUME NEW t \in Workers, DeskInv, begin_creator_session_locked(t)
    PROVE  DeskInv'
<1>1. /\ At(t, "begin") /\ UNCHANGED <<inbox, stock, foreign, instance, cancelled>>
      /\ UNCHANGED memory
  BY DEF begin_creator_session_locked
<1>2. task[t].op \in {"derived", "reuse", "begin_staged"} /\ task[t].at = 4
  BY <1>1, StandsAt DEF DeskInv, LocksAreHeld
<1>3. ~Removing(task[t]) /\ (\A s : ~Deciding(task[t], s)) /\ InWriter(task[t]) /\ Armed(task[t])
  BY <1>2, SMTT(30) DEF Removing, Derives, Deciding, InWriter, Armed
<1>4. CASE Answer(t) /\ UNCHANGED <<sessionOf, handle, used, reused>>
  BY <1>1, <1>3, <1>4, QuietAnswer DEF store, history
<1>5. ASSUME NEW answer \in {"success", "error"}, Published(t, {"ready", "unknown"}, answer),
             \/ (task[t].op = "begin_staged" \/ answer = "error") /\ Answer(t)
             \/ task[t].op # "begin_staged" /\ answer = "success" /\ Advance(t) /\ KeepLocks
      PROVE  DeskInv'
  <2>1. PICK to, id, of : to = task[t].to /\ id = task[t].id /\ of = task[t].of
    OBVIOUS
  <2>2. to \in CreatorSessions /\ sessionOf[to] = "absent" /\ id \in Nat /\ id < nextId
    BY <1>2, <1>5, <2>1, SMTT(30) DEF Published, Begins, DeskInv, RequestsAreSound, DeskTypeOK, Task
  <2>3. /\ task' \in [Workers -> Task] /\ Others(t) /\ (task'[t] = Idle \/ Keeps(t))
        /\ LocksAreHeld' /\ ~Armed(task'[t]) /\ (\A s : ~Deciding(task'[t], s))
        /\ ~(task'[t].op = "fsck" /\ task'[t].at = 3) /\ ~(task'[t].op = "reuse" /\ task'[t].at = 4)
        /\ task[t].op # "begin_staged" /\ answer = "success" => Removing(task'[t]) /\ task'[t].id = id
    <3>1. CASE (task[t].op = "begin_staged" \/ answer = "error") /\ Answer(t)
      BY <3>1, AnswerTask, AnswerLocks, IdleIs DEF DeskInv
    <3>2. CASE task[t].op # "begin_staged" /\ answer = "success" /\ Advance(t) /\ KeepLocks
      <4>1. /\ task' \in [Workers -> Task] /\ Others(t) /\ Keeps(t)
            /\ task'[t].at = task[t].at + 1
        BY <3>2, AdvanceTask DEF DeskInv
      <4>2. /\ InWriter(task'[t]) /\ (InStages(task'[t]) <=> InStages(task[t])) /\ ~Armed(task'[t])
            /\ Removing(task'[t]) /\ (\A s : ~Deciding(task'[t], s)) /\ task'[t].at = 5
            /\ task'[t].op # "fsck" /\ ~(task'[t].op = "reuse" /\ task'[t].at = 4)
        BY <1>2, <3>2, <4>1, SMTT(30)
           DEF Keeps, InWriter, InStages, Armed, Removing, Derives, Deciding
      <4>3. Placed(task'[t])
        BY <1>2, <3>2, <4>1, StepCounts, SMTT(30) DEF Keeps
      <4>4. LocksAreHeld'
        BY <1>3, <3>2, <4>1, <4>2, <4>3, KeptLocks DEF DeskInv
      <4> QED BY <2>1, <4>1, <4>2, <4>4 DEF Keeps
    <3> QED BY <1>5, <3>1, <3>2
  <2>4. /\ sessionOf' \in [CreatorSessions -> States] /\ handle' \in [CreatorSessions -> Handles]
        /\ sessionOf'[to] = "proposed" /\ handle'[to] \in {"ready", "unknown"}
        /\ \A s \in CreatorSessions : s # to => sessionOf'[s] = sessionOf[s] /\ handle'[s] = handle[s]
    <3>1. PICK h \in {"ready", "unknown"} : handle' = [handle EXCEPT ![to] = h]
      BY <1>5, <2>1 DEF Published
    <3> QED BY <1>5, <2>1, <2>2, <3>1 DEF Published, DeskInv, DeskTypeOK, States, Handles
  <2>5. \A s \in CreatorSessions : sessionOf[s] # "absent" => s # to /\ sessionOf'[s] # "absent"
    BY <2>2, <2>4
  <2>6. PICK last, new :
          /\ last \in Nat /\ last + 1 \notin DOMAIN used /\ new.id = id
          /\ Final(new) => task[t].op = "begin_staged" \/ answer = "success"
          /\ used' \in Seq(Begin) /\ used'[last + 1] = new
          /\ DOMAIN used' = DOMAIN used \union {last + 1}
          /\ \A n \in DOMAIN used : n \in Nat /\ n < last + 1 /\ used'[n] = used[n]
    <3>1. PICK new : new = [op |-> task[t].op, id |-> id, answer |-> answer]
      OBVIOUS
    <3>2. /\ new \in Begin /\ new.id = id
          /\ Final(new) => task[t].op = "begin_staged" \/ answer = "success"
      BY <1>2, <2>2, <3>1, SMTT(30) DEF Begin, Final
    <3>3. PICK was : was = used /\ was \in Seq(Begin) /\ used' = Append(was, new)
      BY <1>5, <2>1, <3>1 DEF Published, DeskInv, UsedIsBegun
    <3>4. PICK last : last = Len(was) /\ last \in Nat /\ DOMAIN was = 1 .. last
      BY <3>3, SMTT(30)
    <3>5. /\ used' \in Seq(Begin) /\ used'[last + 1] = new
          /\ DOMAIN used' = 1 .. last + 1
          /\ \A n \in 1 .. last : used'[n] = was[n]
      BY <3>2, <3>3, <3>4, SMTT(30)
    <3>6. /\ last + 1 \notin 1 .. last /\ 1 .. last + 1 = (1 .. last) \union {last + 1}
          /\ \A n \in 1 .. last : n \in Nat /\ n < last + 1
      BY <3>4, SMTT(30)
    <3> QED BY <3>2, <3>3, <3>4, <3>5, <3>6
  <2>7. UNCHANGED <<confirmations, stages, last_fsck, nextId>>
    BY <1>1 DEF memory
  <2>8. /\ ~Spent(id) /\ id \notin cancelled /\ id \notin DOMAIN stages
        /\ task[t].op = "begin_staged" => id \notin DOMAIN confirmations
        /\ \A u \in Workers : u # t /\ Armed(task[u]) => task[u].id # id
    BY <1>3, <2>1 DEF DeskInv, ArmedIsAlone
  <2>9. \A u \in Workers : InWriter(task[u]) => u = t
    BY <1>3, OneHolder DEF DeskInv
  <2>10. DeskTypeOK'
    BY <1>1, <2>3, <2>4, <2>7 DEF DeskInv, DeskTypeOK
  <2>11. RequestsAreSound'
    <3>1. nextId' \in Nat /\ nextId <= nextId'
      BY <2>7, SMTT(30) DEF DeskInv, DeskTypeOK
    <3> QED BY <2>3, <2>5, <3>1, SoundFrame DEF DeskInv
  <2>12. \A i : /\ Began(i)' => Began(i) \/ i = id
                /\ Spent(i)' =>
                     Spent(i) \/ (i = id /\ (task[t].op = "begin_staged" \/ answer = "success"))
    <3>1. ASSUME NEW n \in DOMAIN used'
          PROVE  \/ n \in DOMAIN used /\ used'[n] = used[n]
                 \/ used'[n] = new
      BY <2>6, <3>1
    <3>2. ASSUME NEW i, NEW n \in DOMAIN used', used'[n].id = i
          PROVE  /\ Began(i) \/ i = id
                 /\ Final(used'[n]) =>
                      Spent(i) \/ (i = id /\ (task[t].op = "begin_staged" \/ answer = "success"))
      BY <2>6, <3>1, <3>2 DEF Began, Spent
    <3> QED BY <3>2 DEF Began, Spent, Final
  <2>13. IdsAreApart'
    <3>1. ASSUME NEW i \in DOMAIN confirmations, Spent(i)'
          PROVE  \E u \in Workers : Removing(task'[u]) /\ task'[u].id = i
      <4>1. ~Spent(i)
        <5> SUFFICES ASSUME NEW u \in Workers, Removing(task[u])
                     PROVE  FALSE
          BY DEF DeskInv, IdsAreApart
        <5>1. InWriter(task[u])
          BY SMTT(30) DEF Removing, Derives, InWriter
        <5> QED BY <1>3, <2>9, <5>1
      <4>2. i = id /\ (task[t].op = "begin_staged" \/ answer = "success")
        BY <2>12, <3>1, <4>1
      <4>3. task[t].op # "begin_staged"
        BY <2>8, <4>2
      <4> QED BY <2>3, <4>2, <4>3
    <3> QED BY <1>1, <2>7, <2>8, <2>12, <3>1 DEF DeskInv, IdsAreApart
  <2>14. ArmedIsAlone'
    <3>1. ASSUME NEW u \in Workers, Armed(task'[u])
          PROVE  u # t /\ task'[u] = task[u] /\ Armed(task[u])
      BY <2>3, <3>1 DEF Others
    <3>2. ASSUME NEW u \in Workers, Armed(task[u]), u # t
          PROVE  \A n \in DOMAIN used' : used'[n].id = task[u].id => ~Final(used'[n])
      <4>1. PICK i : i = task[u].id /\ i # id /\ ~Spent(i)
        BY <2>8, <3>2 DEF DeskInv, ArmedIsAlone
      <4> QED BY <2>6, <4>1 DEF Spent, Final
    <3> QED BY <1>1, <2>7, <3>1, <3>2 DEF DeskInv, ArmedIsAlone, Spent, Final
  <2>15. UsedIsBegun' /\ UsedOnce'
    <3>1. UsedIsBegun'
      BY <2>2, <2>6, <2>7 DEF DeskInv, UsedIsBegun
    <3>2. \A n \in DOMAIN used : used[n].id = id => ~Final(used[n])
      BY <2>8 DEF Spent
    <3>3. \A n \in DOMAIN used : ~(last + 1 < n)
      BY <2>6, SMTT(30)
    <3>4. ~(last + 1 < last + 1)
      BY <2>6, SMTT(30)
    <3>5. ASSUME NEW m \in DOMAIN used', NEW n \in DOMAIN used', m < n, used'[m].id = used'[n].id
          PROVE  ~Final(used'[m])
      <4>1. CASE n = last + 1
        BY <2>6, <3>2, <3>4, <3>5, <4>1
      <4>2. CASE n # last + 1
        BY <2>6, <3>3, <3>5, <4>2 DEF DeskInv, UsedOnce
      <4> QED BY <4>1, <4>2
    <3> QED BY <3>1, <3>5 DEF UsedOnce, Final
  <2>16. FsckIsFresh'
    BY <1>1, <2>3, <2>7, FsckFrame DEF DeskInv
  <2>17. ReusedIsClosed'
    <3>1. \A s \in reused' : s \in CreatorSessions /\ sessionOf[s] # "absent" /\ NotReviewed(s)
      BY <1>2, <1>5, <2>1 DEF Published, DeskInv, ReusedIsClosed, RequestsAreSound
    <3>2. \A u \in Workers : ~(task'[u].op = "reuse" /\ task'[u].at = 4)
      <4>1. \A u \in Workers : task[u].op = "reuse" /\ task[u].at = 4 => InWriter(task[u])
        BY SMTT(30) DEF InWriter
      <4> QED BY <2>3, <2>9, <4>1 DEF Others
    <3>3. \A u \in Workers : \A s : ~Deciding(task'[u], s) /\ ~Deciding(task[u], s)
      <4>1. \A u \in Workers : \A s : Deciding(task[u], s) => InWriter(task[u])
        BY SMTT(30) DEF InWriter, Deciding
      <4> QED BY <1>3, <2>3, <2>9, <4>1 DEF Others
    <3>4. \A s \in CreatorSessions : handle'[s] # "deciding"
      BY <2>4, <3>3 DEF DeskInv, ReusedIsClosed
    <3> QED BY <2>4, <2>5, <3>1, <3>2, <3>3, <3>4 DEF ReusedIsClosed, NotReviewed
  <2> QED BY <2>3, <2>10, <2>11, <2>13, <2>14, <2>15, <2>16, <2>17 DEF DeskInv
<1>6. CASE /\ Published(t, {"ready"}, "success")
           /\ \/ task[t].op = "begin_staged" /\ Answer(t)
              \/ task[t].op # "begin_staged" /\ Advance(t) /\ KeepLocks
  <2>1. Published(t, {"ready", "unknown"}, "success")
    BY <1>6 DEF Published
  <2> QED BY <1>5, <1>6, <2>1
<1>7. CASE Published(t, {"ready", "unknown"}, "error") /\ Answer(t)
  BY <1>5, <1>7
<1> QED BY <1>4, <1>6, <1>7 DEF begin_creator_session_locked

-----------------------------------------------------------------------------
(* Decisions, maintenance and other processes *)

\* A call moves on and changes reviews, but no registry.
LEMMA ReviewStep ==
    ASSUME NEW t \in Workers, DeskInv, UNCHANGED <<inbox, stock, instance>>, UNCHANGED memory,
           UNCHANGED history, task' \in [Workers -> Task], Others(t), LocksAreHeld',
           task'[t] = Idle \/ Keeps(t), ~Removing(task[t]), ~Armed(task'[t]),
           ~(task'[t].op = "fsck" /\ task'[t].at = 3),
           sessionOf' \in [CreatorSessions -> States], handle' \in [CreatorSessions -> Handles],
           \A s \in CreatorSessions : sessionOf[s] # "absent" => sessionOf'[s] # "absent",
           ReusedIsClosed'
    PROVE  DeskInv'
<1>1. nextId' \in Nat /\ nextId <= nextId' /\ UNCHANGED <<confirmations, stages, last_fsck, nextId>>
  BY SMTT(30) DEF DeskInv, DeskTypeOK, memory
<1>2. UNCHANGED <<cancelled, used>>
  BY DEF history
<1>3. DeskTypeOK'
  BY <1>1, <1>2 DEF DeskInv, DeskTypeOK
<1>4. RequestsAreSound'
  BY <1>1, SoundFrame DEF DeskInv
<1>5. IdsAreApart' /\ ArmedIsAlone'
  BY <1>1, <1>2, IdsFrame, ArmedFrame DEF DeskInv
<1>6. UsedIsBegun' /\ UsedOnce'
  BY <1>1, <1>2, UsedFrame DEF DeskInv
<1>7. FsckIsFresh'
  BY <1>1, FsckFrame DEF DeskInv
<1> QED BY <1>3, <1>4, <1>5, <1>6, <1>7 DEF DeskInv

\* With the writer lock in its hand, a call is the only one that decides or is
\* about to begin.
LEMMA OnlyDecider ==
    ASSUME NEW t \in Workers, DeskInv, InWriter(task[t])
    PROVE  \A u \in Workers : u # t =>
             /\ ~(task[u].op = "reuse" /\ task[u].at = 4) /\ (\A s : ~Deciding(task[u], s))
             /\ ~(task[u].op = "fsck" /\ task[u].at = 3)
<1>1. ASSUME NEW u \in Workers, NEW s,
             \/ task[u].op = "reuse" /\ task[u].at = 4
             \/ Deciding(task[u], s)
             \/ task[u].op = "fsck" /\ task[u].at = 3
      PROVE  u = t
  <2>1. InWriter(task[u])
    BY <1>1, SMTT(30) DEF InWriter, Deciding
  <2> QED BY <2>1, OneHolder DEF DeskInv
<1> QED BY <1>1

\* A review is claimed, for a session that was never reused.
LEMMA ClaimStep ==
    ASSUME NEW t \in Workers, DeskInv, Claim(t)
    PROVE  DeskInv'
<1>1. /\ At(t, "claim") /\ UNCHANGED <<sessionOf, inbox, stock, foreign, instance>>
      /\ UNCHANGED memory /\ UNCHANGED history
  BY DEF Claim
<1>2. task[t].op = "decide" /\ task[t].at = 2
  BY <1>1, StandsAt DEF DeskInv, LocksAreHeld
<1>3. ~Removing(task[t]) /\ (\A s : ~Deciding(task[t], s)) /\ InWriter(task[t]) /\ ~InStages(task[t])
  BY <1>2, SMTT(30) DEF Removing, Derives, Deciding, InWriter, InStages
<1>4. CASE Answer(t) /\ UNCHANGED handle
  BY <1>1, <1>3, <1>4, QuietAnswer DEF store
<1>5. CASE /\ ready_pending(task[t].of) /\ Advance(t) /\ KeepLocks
           /\ handle' = [handle EXCEPT ![task[t].of] = "deciding"]
  <2>1. /\ task' \in [Workers -> Task] /\ Others(t) /\ Keeps(t) /\ task'[t].at = task[t].at + 1
    BY <1>5, AdvanceTask DEF DeskInv
  <2>2. /\ InWriter(task'[t]) /\ ~InStages(task'[t]) /\ ~Armed(task'[t])
        /\ task'[t].op # "fsck" /\ task'[t].op # "reuse"
        /\ \A s : Deciding(task'[t], s) <=> s = task[t].of
    BY <1>2, <2>1, SMTT(30) DEF Keeps, InWriter, InStages, Armed, Derives, Deciding
  <2>3. Placed(task'[t])
    BY <1>2, <2>1, StepCounts, SMTT(30) DEF Keeps
  <2>4. LocksAreHeld'
    BY <1>3, <1>5, <2>1, <2>2, <2>3, KeptLocks DEF DeskInv
  <2>5. /\ task[t].of \in CreatorSessions /\ handle' \in [CreatorSessions -> Handles]
        /\ handle'[task[t].of] = "deciding"
        /\ \A s \in CreatorSessions : s # task[t].of => handle'[s] = handle[s]
    BY <1>2, <1>5 DEF DeskInv, DeskTypeOK, RequestsAreSound, Handles
  <2>6. ReusedIsClosed'
    <3>1. \A u \in Workers : u # t =>
             ~(task'[u].op = "reuse" /\ task'[u].at = 4) /\ (\A s : ~Deciding(task'[u], s))
      BY <1>3, <2>1, OnlyDecider DEF Others
    <3>2. \A s \in CreatorSessions : handle[s] # "deciding"
      BY <1>3, OnlyDecider DEF DeskInv, ReusedIsClosed
    <3>3. task[t].of \notin reused
      BY <1>5 DEF ready_pending, DeskInv, ReusedIsClosed, NotReviewed
    <3>4. \A s \in reused : s \in CreatorSessions /\ sessionOf[s] # "absent" /\ NotReviewed(s)
      BY DEF DeskInv, ReusedIsClosed
    <3>5. \A u \in Workers : \A s \in CreatorSessions :
             Deciding(task'[u], s) => u = t /\ s = task[t].of
      BY <2>2, <3>1
    <3> QED BY <1>1, <2>2, <2>5, <3>1, <3>2, <3>3, <3>4, <3>5
            DEF history, ReusedIsClosed, NotReviewed
  <2>7. sessionOf' \in [CreatorSessions -> States]
    BY <1>1 DEF DeskInv, DeskTypeOK
  <2> QED BY <1>1, <1>3, <2>1, <2>2, <2>4, <2>5, <2>6, <2>7, ReviewStep
<1> QED BY <1>4, <1>5 DEF Claim

\* A decision is made, refused or lost.
LEMMA DecideStep ==
    ASSUME NEW t \in Workers, DeskInv, Decide(t)
    PROVE  DeskInv'
<1>1. /\ At(t, "publish") /\ UNCHANGED <<inbox, stock, foreign, instance>>
      /\ UNCHANGED memory /\ UNCHANGED history /\ Answer(t)
  BY DEF Decide
<1>2. task[t].op = "decide" /\ task[t].at = 3
  BY <1>1, StandsAt DEF DeskInv, LocksAreHeld
<1>3. ~Removing(task[t]) /\ InWriter(task[t]) /\ Deciding(task[t], task[t].of)
  BY <1>2, SMTT(30) DEF Removing, Derives, InWriter, Deciding
<1>4. /\ task' \in [Workers -> Task] /\ Others(t) /\ task'[t] = Idle /\ LocksAreHeld'
  BY <1>1, AnswerTask, AnswerLocks DEF DeskInv
<1>5. PICK s : s = task[t].of
  OBVIOUS
<1>6. s \in CreatorSessions /\ handle[s] = "deciding" /\ sessionOf[s] # "absent"
  BY <1>2, <1>3, <1>5 DEF DeskInv, RequestsAreSound, ReusedIsClosed
<1>7. /\ sessionOf' \in [CreatorSessions -> States] /\ handle' \in [CreatorSessions -> Handles]
      /\ \A x \in CreatorSessions : x # s => sessionOf'[x] = sessionOf[x] /\ handle'[x] = handle[x]
      /\ sessionOf'[s] # "absent" /\ handle'[s] # "deciding"
      /\ sessionOf[s] # "proposed" => sessionOf'[s] # "proposed"
  <2>1. CASE /\ sessionOf[s] = "proposed"
             /\ \E d \in Decisions : sessionOf' = [sessionOf EXCEPT ![s] = d]
             /\ handle' = [handle EXCEPT ![s] = "none"]
    BY <1>6, <2>1, SMTT(30) DEF DeskInv, DeskTypeOK, States, Decisions, Handles
  <2>2. CASE /\ handle' = [handle EXCEPT ![s] = "ready"] /\ UNCHANGED sessionOf
    BY <1>6, <2>2, SMTT(30) DEF DeskInv, DeskTypeOK, Handles
  <2>3. CASE /\ handle' = [handle EXCEPT ![s] = "unknown"] /\ UNCHANGED sessionOf
    BY <1>6, <2>3, SMTT(30) DEF DeskInv, DeskTypeOK, Handles
  <2> QED BY <1>5, <2>1, <2>2, <2>3 DEF Decide
<1>8. ReusedIsClosed'
  <2>1. \A u \in Workers : ~(task'[u].op = "reuse" /\ task'[u].at = 4) /\ (\A x : ~Deciding(task'[u], x))
    <3>1. ~(Idle.op = "reuse")
      BY IdleIs
    <3> QED BY <1>3, <1>4, <3>1, OnlyDecider, IdleIs DEF Others
  <2>2. \A x \in CreatorSessions : handle'[x] # "deciding"
    <3>1. \A x \in CreatorSessions : handle[x] = "deciding" => x = s
      BY <1>3, <1>5, OnlyDecider DEF DeskInv, ReusedIsClosed, Deciding
    <3> QED BY <1>7, <3>1
  <2>3. \A x \in reused : /\ x \in CreatorSessions /\ sessionOf[x] # "absent" /\ NotReviewed(x)
                          /\ x = s => sessionOf[s] # "proposed"
    BY <1>6 DEF DeskInv, ReusedIsClosed, NotReviewed
  <2> QED BY <1>1, <1>7, <2>1, <2>2, <2>3 DEF history, ReusedIsClosed, NotReviewed
<1>9. \A x \in CreatorSessions : sessionOf[x] # "absent" => sessionOf'[x] # "absent"
  BY <1>7
<1>10. ~Armed(task'[t]) /\ task'[t].op # "fsck"
  BY <1>4, IdleIs
<1> QED BY <1>1, <1>3, <1>4, <1>7, <1>8, <1>9, <1>10, ReviewStep

\* A scan is recorded by the call that still has the writer lock.
LEMMA FsckStep ==
    ASSUME NEW t \in Workers, DeskInv, run_maintenance_fsck(t)
    PROVE  DeskInv'
<1>1. UNCHANGED <<confirmations, stages, nextId>> /\ UNCHANGED store /\ UNCHANGED history
  BY DEF run_maintenance_fsck
<1>2. CASE At(t, "scan") /\ ((Saw(t, stock) /\ KeepLocks) \/ Answer(t)) /\ UNCHANGED last_fsck
  <2>1. task[t].op = "fsck" /\ task[t].at = 2
    BY <1>2, StandsAt DEF DeskInv, LocksAreHeld
  <2>2. ~Removing(task[t]) /\ (\A s : ~Deciding(task[t], s)) /\ InWriter(task[t]) /\ ~InStages(task[t])
    BY <2>1, SMTT(30) DEF Removing, Derives, Deciding, InWriter, InStages
  <2>3. CASE Answer(t)
    BY <1>1, <1>2, <2>2, <2>3, QuietAnswer DEF memory
  <2>4. CASE Saw(t, stock) /\ KeepLocks
    <3>1. stock \in Values
      BY DEF DeskInv, DeskTypeOK, Values
    <3>2. /\ task' \in [Workers -> Task] /\ Others(t) /\ Keeps(t)
          /\ task'[t].at = task[t].at + 1 /\ task'[t].seen = stock
      BY <2>4, <3>1, SawTask DEF DeskInv
    <3>3. /\ InWriter(task'[t]) /\ ~InStages(task'[t]) /\ ~Armed(task'[t])
          /\ task'[t].op # "reuse" /\ (\A s : ~Deciding(task'[t], s))
      BY <2>1, <3>2, SMTT(30) DEF Keeps, InWriter, InStages, Armed, Derives, Deciding
    <3>4. Placed(task'[t])
      BY <2>1, <3>2, StepCounts, SMTT(30) DEF Keeps
    <3>5. LocksAreHeld'
      BY <2>2, <2>4, <3>2, <3>3, <3>4, KeptLocks DEF DeskInv
    <3> QED BY <1>1, <1>2, <2>2, <3>2, <3>3, <3>5, QuietAdvance DEF memory
  <2> QED BY <1>2, <2>3, <2>4
<1>3. CASE At(t, "record") /\ last_fsck' = task[t].seen /\ Answer(t)
  <2>1. task[t].op = "fsck" /\ task[t].at = 3
    BY <1>3, StandsAt DEF DeskInv, LocksAreHeld
  <2>2. ~Removing(task[t]) /\ (\A s : ~Deciding(task[t], s)) /\ task[t].seen = stock
    BY <2>1, SMTT(30) DEF Removing, Derives, Deciding, DeskInv, FsckIsFresh
  <2>3. task' \in [Workers -> Task] /\ Others(t) /\ task'[t] = Idle /\ LocksAreHeld'
    BY <1>3, AnswerTask, AnswerLocks DEF DeskInv
  <2>4. Idle.op # "fsck" /\ Idle.op # "reuse" /\ ~Armed(Idle) /\ (\A s : ~Deciding(Idle, s))
    BY IdleIs
  <2>5. nextId' \in Nat /\ nextId <= nextId'
    BY <1>1, SMTT(30) DEF DeskInv, DeskTypeOK
  <2>6. DeskTypeOK'
    BY <1>1, <2>3 DEF DeskInv, DeskTypeOK, store, history
  <2>7. RequestsAreSound' /\ UsedIsBegun' /\ UsedOnce'
    BY <1>1, <2>3, <2>5, SoundFrame, UsedFrame DEF DeskInv, store, history
  <2>8. IdsAreApart' /\ ArmedIsAlone'
    BY <1>1, <2>2, <2>3, <2>4, IdsFrame, ArmedFrame DEF DeskInv, history
  <2>9. ReusedIsClosed'
    BY <1>1, <2>2, <2>3, <2>4, ReuseFrame DEF DeskInv, store, history
  <2>10. FsckIsFresh'
    BY <1>1, <1>3, <2>2, <2>3, <2>4 DEF DeskInv, FsckIsFresh, Others, store
  <2> QED BY <2>3, <2>6, <2>7, <2>8, <2>9, <2>10 DEF DeskInv
<1> QED BY <1>2, <1>3 DEF run_maintenance_fsck

\* The last result is forgotten before objects are copied: no scan is under way.
LEMMA ForgetStep ==
    ASSUME NEW t \in Workers, DeskInv, ForgetFsck(t)
    PROVE  DeskInv'
<1>1. /\ At(t, "forget") /\ last_fsck' = None /\ stock' = stock + 1 /\ Advance(t) /\ KeepLocks
      /\ UNCHANGED <<confirmations, stages, nextId, sessionOf, handle, inbox, foreign, instance>>
      /\ UNCHANGED history
  BY DEF ForgetFsck
<1>2. task[t].op = "restore" /\ task[t].at = 3
  BY <1>1, StandsAt DEF DeskInv, LocksAreHeld
<1>3. ~Removing(task[t]) /\ (\A s : ~Deciding(task[t], s)) /\ InWriter(task[t]) /\ ~InStages(task[t])
  BY <1>2, SMTT(30) DEF Removing, Derives, Deciding, InWriter, InStages
<1>4. task' \in [Workers -> Task] /\ Others(t) /\ Keeps(t) /\ task'[t].at = task[t].at + 1
  BY <1>1, AdvanceTask DEF DeskInv
<1>5. /\ InWriter(task'[t]) /\ ~InStages(task'[t]) /\ ~Armed(task'[t])
      /\ task'[t].op # "reuse" /\ task'[t].op # "fsck" /\ (\A s : ~Deciding(task'[t], s))
  BY <1>2, <1>4, SMTT(30) DEF Keeps, InWriter, InStages, Armed, Derives, Deciding
<1>6. Placed(task'[t])
  BY <1>2, <1>4, StepCounts, SMTT(30) DEF Keeps
<1>7. LocksAreHeld'
  BY <1>1, <1>3, <1>4, <1>5, <1>6, KeptLocks DEF DeskInv
<1>8. nextId' \in Nat /\ nextId <= nextId' /\ stock' \in Nat
  BY <1>1, SMTT(30) DEF DeskInv, DeskTypeOK
<1>9. DeskTypeOK'
  BY <1>1, <1>4, <1>8 DEF DeskInv, DeskTypeOK, history
<1>10. RequestsAreSound' /\ UsedIsBegun' /\ UsedOnce'
  BY <1>1, <1>4, <1>8, SoundFrame, UsedFrame DEF DeskInv, history
<1>11. IdsAreApart' /\ ArmedIsAlone'
  BY <1>1, <1>3, <1>4, <1>5, IdsFrame, ArmedFrame DEF DeskInv, history
<1>12. ReusedIsClosed'
  BY <1>1, <1>3, <1>4, <1>5, ReuseFrame DEF DeskInv, history
<1>13. FsckIsFresh'
  <2>1. \A u \in Workers : ~(task'[u].op = "fsck" /\ task'[u].at = 3)
    BY <1>3, <1>4, <1>5, OnlyDecider DEF Others
  <2> QED BY <1>1, <2>1 DEF FsckIsFresh
<1> QED BY <1>7, <1>9, <1>10, <1>11, <1>12, <1>13 DEF DeskInv

\* Sessions are restored into an empty target only: none was reused there.
LEMMA RestoreStep ==
    ASSUME NEW t \in Workers, DeskInv, run_archive_restore(t)
    PROVE  DeskInv'
<1>1. /\ At(t, "restore") /\ UNCHANGED <<handle, inbox, stock, foreign, instance>>
      /\ UNCHANGED memory /\ UNCHANGED history /\ Answer(t)
  BY DEF run_archive_restore
<1>2. task[t].op = "restore" /\ task[t].at = 4
  BY <1>1, StandsAt DEF DeskInv, LocksAreHeld
<1>3. ~Removing(task[t]) /\ (\A s : ~Deciding(task[t], s))
  BY <1>2, SMTT(30) DEF Removing, Derives, Deciding
<1>4. CASE UNCHANGED sessionOf
  BY <1>1, <1>3, <1>4, QuietAnswer DEF store
<1>5. CASE EmptyTarget /\ \E s \in CreatorSessions : sessionOf' = [sessionOf EXCEPT ![s] = "accepted"]
  <2>1. PICK s \in CreatorSessions : sessionOf' = [sessionOf EXCEPT ![s] = "accepted"]
    BY <1>5
  <2>2. /\ sessionOf' \in [CreatorSessions -> States]
        /\ \A x \in CreatorSessions : sessionOf'[x] # "proposed" /\ sessionOf[x] = "absent"
    BY <1>5, <2>1, SMTT(30) DEF EmptyTarget, DeskInv, DeskTypeOK, States, Decisions
  <2>3. task' \in [Workers -> Task] /\ Others(t) /\ task'[t] = Idle /\ LocksAreHeld'
    BY <1>1, AnswerTask, AnswerLocks DEF DeskInv
  <2>4. ~Armed(task'[t]) /\ task'[t].op # "fsck" /\ task'[t].op # "reuse" /\ (\A x : ~Deciding(task'[t], x))
    BY <2>3, IdleIs
  <2>5. \A x \in CreatorSessions : sessionOf[x] # "absent" => sessionOf'[x] # "absent"
    BY <2>2
  <2>6. handle' \in [CreatorSessions -> Handles]
    BY <1>1 DEF DeskInv, DeskTypeOK
  <2>7. ReusedIsClosed'
    <3>1. reused' = {}
      BY <1>1, <2>2 DEF history, DeskInv, ReusedIsClosed
    <3>2. \A u \in Workers : ~(task'[u].op = "reuse" /\ task'[u].at = 4)
      BY <2>2, <2>3, <2>4 DEF Others, DeskInv, RequestsAreSound
    <3>3. \A u \in Workers : \A x : Deciding(task'[u], x) <=> Deciding(task[u], x)
      BY <1>3, <2>3, <2>4 DEF Others
    <3>4. /\ \A u \in Workers : \A x \in CreatorSessions :
               Deciding(task[u], x) => handle[x] = "deciding"
          /\ \A x \in CreatorSessions :
               handle[x] = "deciding" => \E u \in Workers : Deciding(task[u], x)
      BY DEF DeskInv, ReusedIsClosed
    <3> QED BY <1>1, <3>1, <3>2, <3>3, <3>4 DEF ReusedIsClosed
  <2> QED BY <1>1, <1>3, <2>2, <2>3, <2>4, <2>5, <2>6, <2>7, ReviewStep
<1> QED BY <1>4, <1>5 DEF run_archive_restore

\* Another process begins, decides or prepares something: never a review that
\* this server has open.
LEMMA OtherProcessStep ==
    ASSUME DeskInv, OtherProcess
    PROVE  DeskInv'
<1>1. /\ UNCHANGED <<stock, instance, writer, stagesLock, task>>
      /\ UNCHANGED memory /\ UNCHANGED history
  BY DEF OtherProcess
<1> DEFINE Moves ==
        /\ sessionOf' \in [CreatorSessions -> States] /\ handle' \in [CreatorSessions -> Handles]
        /\ inbox' \in Nat
        /\ \A s \in CreatorSessions :
             /\ sessionOf[s] # "absent" => sessionOf'[s] # "absent" /\ handle'[s] = handle[s]
             /\ sessionOf[s] # "absent" /\ sessionOf'[s] = "proposed" => sessionOf[s] = "proposed"
             /\ sessionOf[s] = "absent" => handle'[s] \in {handle[s], "elsewhere"}
<1>2. Moves
  <2>1. ASSUME NEW s \in CreatorSessions, sessionOf[s] = "absent", UNCHANGED inbox,
               sessionOf' = [sessionOf EXCEPT ![s] = "proposed"],
               handle' = [handle EXCEPT ![s] = "elsewhere"]
        PROVE  Moves
    BY <2>1, SMTT(30) DEF DeskInv, DeskTypeOK, States, Handles
  <2>2. ASSUME NEW s \in CreatorSessions, sessionOf[s] = "proposed", UNCHANGED <<inbox, handle>>,
               \E d \in Decisions : sessionOf' = [sessionOf EXCEPT ![s] = d]
        PROVE  Moves
    BY <2>2, SMTT(30) DEF DeskInv, DeskTypeOK, States, Decisions
  <2>3. ASSUME inbox' = inbox + 1, UNCHANGED <<sessionOf, handle>>
        PROVE  Moves
    BY <2>3, SMTT(30) DEF DeskInv, DeskTypeOK
  <2> QED BY <2>1, <2>2, <2>3 DEF OtherProcess
<1>3. DeskTypeOK' /\ LocksAreHeld' /\ FsckIsFresh' /\ IdsAreApart' /\ ArmedIsAlone'
  <2>1. \A i : (Spent(i)' <=> Spent(i)) /\ (Began(i)' <=> Began(i))
    BY <1>1, SpentFrame DEF history
  <2>2. DeskTypeOK' /\ LocksAreHeld' /\ FsckIsFresh'
    BY <1>1, <1>2 DEF DeskInv, DeskTypeOK, LocksAreHeld, FsckIsFresh, memory
  <2>3. IdsAreApart'
    BY <1>1, <2>1 DEF DeskInv, IdsAreApart, memory, history
  <2>4. ArmedIsAlone'
    BY <1>1 DEF DeskInv, ArmedIsAlone, Spent, Final, memory, history
  <2> QED BY <2>2, <2>3, <2>4
<1>4. RequestsAreSound' /\ UsedIsBegun' /\ UsedOnce'
  BY <1>1, <1>2 DEF DeskInv, RequestsAreSound, UsedIsBegun, UsedOnce, memory, history
<1>5. ReusedIsClosed'
  <2>1. \A s \in CreatorSessions : sessionOf[s] # "absent" /\ NotReviewed(s) => NotReviewed(s)'
    BY <1>2 DEF NotReviewed
  <2>2. ASSUME NEW u \in Workers, NEW s \in CreatorSessions, Deciding(task[u], s)
        PROVE  sessionOf[s] # "absent" /\ handle[s] = "deciding"
    BY <2>2 DEF Deciding, DeskInv, RequestsAreSound, ReusedIsClosed
  <2>3. \A u \in Workers : task[u].op = "reuse" =>
          task[u].of \in CreatorSessions /\ sessionOf[task[u].of] # "absent"
    BY DEF DeskInv, RequestsAreSound
  <2>4. \A s \in CreatorSessions : handle'[s] = "deciding" => handle[s] = "deciding"
    BY <1>2
  <2> QED BY <1>1, <1>2, <2>1, <2>2, <2>3, <2>4 DEF DeskInv, ReusedIsClosed, NotReviewed, history
<1> QED BY <1>3, <1>4, <1>5 DEF DeskInv

\* A restart forgets every call, confirmation and stage; ids are not given again.
LEMMA RestartStep ==
    ASSUME DeskInv, Restart
    PROVE  DeskInv'
<1>1. /\ confirmations' = << >> /\ stages' = << >> /\ last_fsck' = None
      /\ writer' = None /\ stagesLock' = None /\ task' = [t \in Workers |-> Idle]
      /\ UNCHANGED <<sessionOf, inbox, stock, nextId>> /\ UNCHANGED history
  BY DEF Restart
<1>2. handle' \in [CreatorSessions -> {"none", "elsewhere"}] /\ instance' \in Nat
  BY SMTT(30) DEF Restart, DeskInv, DeskTypeOK
<1>3. /\ DOMAIN confirmations' = {} /\ DOMAIN stages' = {}
      /\ confirmations' \in [DOMAIN confirmations' -> Confirmation]
      /\ stages' \in [DOMAIN stages' -> Nat]
  BY <1>1, SMTT(30)
<1>4. /\ task' \in [Workers -> Task] /\ \A t \in Workers : task'[t] = Idle
  BY <1>1, IdleIs
<1>5. DeskTypeOK'
  <2>1. handle' \in [CreatorSessions -> Handles]
    BY <1>2, SMTT(30) DEF Handles
  <2> QED BY <1>1, <1>2, <1>3, <1>4, <2>1 DEF DeskInv, DeskTypeOK, history
<1>6. LocksAreHeld'
  BY <1>1, <1>4, IdleIs, DeskAssumption DEF LocksAreHeld
<1>7. RequestsAreSound'
  <2>1. 0 < nextId'
    BY <1>1, SMTT(30) DEF DeskInv, DeskTypeOK
  <2> QED BY <1>4, <2>1, IdleIs DEF RequestsAreSound
<1>8. IdsAreApart' /\ ArmedIsAlone' /\ FsckIsFresh'
  BY <1>1, <1>3, <1>4, IdleIs
     DEF DeskInv, IdsAreApart, ArmedIsAlone, FsckIsFresh, Began, Spent, history
<1>9. UsedIsBegun' /\ UsedOnce'
  BY <1>1 DEF DeskInv, UsedIsBegun, UsedOnce, history
<1>10. ReusedIsClosed'
  <2>1. \A s \in CreatorSessions : handle'[s] \notin {"ready", "deciding"}
    BY <1>2
  <2> QED BY <1>1, <1>4, <2>1, IdleIs DEF DeskInv, ReusedIsClosed, NotReviewed, history
<1> QED BY <1>5, <1>6, <1>7, <1>8, <1>9, <1>10 DEF DeskInv

\* A process starts with nothing confirmed, staged or scanned.
LEMMA DeskInitInv ==
    DeskInit => DeskInv
<1> SUFFICES ASSUME DeskInit PROVE DeskInv
  OBVIOUS
<1>1. /\ sessionOf \in [CreatorSessions -> States]
      /\ handle \in [CreatorSessions -> {"none", "ready", "unknown", "elsewhere"}]
  BY DeskAssumption DEF DeskInit
<1>2. \A s \in CreatorSessions : handle[s] # "deciding"
  BY <1>1
<1>3. /\ confirmations = << >> /\ stages = << >> /\ used = << >>
      /\ DOMAIN confirmations = {} /\ DOMAIN stages = {} /\ DOMAIN used = {}
      /\ confirmations \in [DOMAIN confirmations -> Confirmation]
      /\ stages \in [DOMAIN stages -> Nat] /\ used \in Seq(Begin)
  BY SMTT(30) DEF DeskInit
<1>4. /\ task \in [Workers -> Task] /\ \A t \in Workers : task[t] = Idle
  BY IdleIs DEF DeskInit
<1>5. /\ inbox \in Nat /\ stock \in Nat /\ nextId \in Nat \ {0} /\ instance \in Nat /\ 0 < nextId
  BY SMTT(30) DEF DeskInit
<1>6. DeskTypeOK
  <2>1. handle \in [CreatorSessions -> Handles]
    BY <1>1, SMTT(30) DEF Handles
  <2> QED BY <1>1, <1>3, <1>4, <1>5, <2>1 DEF DeskTypeOK
<1>7. LocksAreHeld /\ RequestsAreSound
  BY <1>4, <1>5, IdleIs, DeskAssumption DEF LocksAreHeld, RequestsAreSound, DeskInit
<1>8. IdsAreApart /\ ArmedIsAlone /\ UsedIsBegun /\ UsedOnce /\ FsckIsFresh
  BY <1>3, <1>4, IdleIs
     DEF IdsAreApart, ArmedIsAlone, UsedIsBegun, UsedOnce, FsckIsFresh, DeskInit
<1>9. ReusedIsClosed
  BY <1>2, <1>4, IdleIs DEF ReusedIsClosed, DeskInit
<1> QED BY <1>6, <1>7, <1>8, <1>9 DEF DeskInv

\* Every step of the desk preserves its invariant.
LEMMA DeskStepInv ==
    DeskInv /\ [DeskNext]_deskVars => DeskInv'
<1> SUFFICES ASSUME DeskInv, [DeskNext]_deskVars PROVE DeskInv'
  OBVIOUS
<1>1. ASSUME NEW t \in Workers, Step(t) PROVE DeskInv'
  BY <1>1, RequestStep, WriterStep, ReadSourceStep, ConfirmStep, LookupStep, VerifyStep, BeginStep,
     RemoveStep, ClaimStep, DecideStep, InspectStep, StagesStep, CopyStep, TakeStep, CancelStep,
     FsckStep, ValidateStep, ForgetStep, RestoreStep DEF Step
<1>2. CASE UNCHANGED deskVars
  BY <1>2 DEF deskVars, store, memory, history, DeskInv, DeskTypeOK, LocksAreHeld,
              RequestsAreSound, IdsAreApart, ArmedIsAlone, UsedIsBegun, UsedOnce, FsckIsFresh,
              ReusedIsClosed, NotReviewed, Began, Spent
<1> QED BY <1>1, <1>2, OtherProcessStep, RestartStep DEF DeskNext

\* The desk's invariant holds of every process.
LEMMA DeskInvariant ==
    DeskSpec => []DeskInv
BY DeskInitInv, DeskStepInv, PTL DEF DeskSpec

\* Whatever requests race, and whatever other processes and restarts do between
\* them: a confirmation starts no session after one whose begin was answered with
\* success, a staged import starts at most one session and none once it was
\* cancelled, the integrity result is about the objects there are, and of the
\* calls that hold a lock one can go on (service.rs,
\* begin_derived_creator_session, begin_staged_import_inbox,
\* cancel_staged_import_inbox, run_maintenance_fsck).
THEOREM AnswersAreKept ==
    DeskSpec => []AnswersStayTrue
<1>1. DeskInv => AnswersStayTrue
  <2> SUFFICES ASSUME DeskInv PROVE AnswersStayTrue
    OBVIOUS
  <2>1. UsedOnce /\ CancelledIsNotBegun
    BY DEF DeskInv, IdsAreApart, CancelledIsNotBegun, Began
  <2>2. FsckIsCurrent
    BY DEF DeskInv, FsckIsFresh, FsckIsCurrent
  <2>3. NoStandstill
    <3>1. CASE writer # None
      <4>1. writer \in Workers /\ InWriter(task[writer])
        BY <3>1 DEF DeskInv, LocksAreHeld
      <4>a. Placed(task[writer]) /\ DeskTypeOK
        BY <4>1 DEF DeskInv, LocksAreHeld
      <4>b. At(writer, "writer") \/ At(writer, "stages") =>
              \/ task[writer].op \in {"derived", "reuse", "decide", "fsck", "cancel"}
                   /\ task[writer].at = 1
              \/ task[writer].op = "begin_staged" /\ task[writer].at \in {1, 3}
              \/ task[writer].op = "restore" /\ task[writer].at = 2
              \/ task[writer].op = "stage"
        BY <4>1, <4>a, StandsAt
      <4>2. ~At(writer, "writer") /\ ~At(writer, "stages")
        BY <4>1, <4>b, SMTT(30) DEF InWriter
      <4> QED BY <3>1, <4>2 DEF NoStandstill, Waiting
    <3>2. CASE writer = None /\ stagesLock # None
      <4>1. stagesLock \in Workers /\ InStages(task[stagesLock])
        BY <3>2 DEF DeskInv, LocksAreHeld
      <4>a. Placed(task[stagesLock]) /\ DeskTypeOK
        BY <4>1 DEF DeskInv, LocksAreHeld
      <4>b. At(stagesLock, "stages") =>
              \/ task[stagesLock].op = "stage" /\ task[stagesLock].at = 2
              \/ task[stagesLock].op \in {"begin_staged", "cancel"} /\ task[stagesLock].at = 1
        BY <4>1, <4>a, StandsAt
      <4>2. ~At(stagesLock, "stages")
        BY <4>1, <4>b, SMTT(30) DEF InStages
      <4> QED BY <3>2, <4>2 DEF NoStandstill, Waiting
    <3>3. CASE writer = None /\ stagesLock = None
      BY <3>3 DEF NoStandstill
    <3> QED BY <3>1, <3>2, <3>3
  <2> QED BY <2>1, <2>2, <2>3 DEF AnswersStayTrue
<1> QED BY <1>1, DeskInvariant, PTL

\* A session that was reused undecided is never decided by this server: only the
\* process that has its review open can (service.rs, begin_reuse_creator_session).
THEOREM ReusedStaysOpen ==
    DeskSpec => ReusedIsNeverDecided
<1>1. DeskInv /\ [DeskNext]_deskVars => [ReusedIsNeverDecidedStep]_deskVars
  <2> SUFFICES ASSUME DeskInv, DeskNext, NEW s \in reused,
                      sessionOf[s] = "proposed", sessionOf'[s] \in Decisions
               PROVE  handle[s] = "elsewhere"
    BY DEF ReusedIsNeverDecidedStep
  <2>1. /\ s \in CreatorSessions /\ handle[s] \notin {"ready", "deciding"}
        /\ sessionOf \in [CreatorSessions -> States] /\ sessionOf'[s] # sessionOf[s]
    BY DEF DeskInv, DeskTypeOK, ReusedIsClosed, NotReviewed, Decisions
  <2>2. CASE OtherProcess
    BY <2>1, <2>2 DEF OtherProcess, Decisions
  <2>3. CASE Restart
    BY <2>1, <2>3 DEF Restart
  <2>4. ASSUME NEW t \in Workers, Step(t)
        PROVE  FALSE
    <3>1. CASE begin_creator_session_locked(t)
      BY <2>1, <3>1 DEF begin_creator_session_locked, Published, Decisions
    <3>2. CASE Decide(t)
      <4>1. task[t].op = "decide" /\ task[t].at = 3
        BY <3>2, StandsAt DEF Decide, DeskInv, LocksAreHeld
      <4>2. task[t].of \in CreatorSessions
        BY <4>1 DEF DeskInv, RequestsAreSound
      <4>3. handle[task[t].of] = "deciding"
        BY <4>1, <4>2 DEF DeskInv, ReusedIsClosed, Deciding
      <4>4. s # task[t].of
        BY <2>1, <4>3
      <4> QED BY <2>1, <3>2, <4>4 DEF Decide
    <3>3. CASE run_archive_restore(t)
      BY <2>1, <3>3 DEF run_archive_restore, EmptyTarget
    <3> QED BY <2>1, <2>4, <3>1, <3>2, <3>3
            DEF Step, store, Request, Call, acquire_project_writer, ReadSource, Confirm, Lookup,
                Verify, RemoveConfirmation, Claim, inspect_inbox_manifest, lock_stages,
                copy_inbox_file, TakeStage, cancel_staged_import_inbox, run_maintenance_fsck,
                validate_archive_restore_request, ForgetFsck
  <2> QED BY <2>2, <2>3, <2>4 DEF DeskNext
<1> QED BY <1>1, DeskInvariant, PTL DEF DeskSpec, ReusedIsNeverDecided
=============================================================================
