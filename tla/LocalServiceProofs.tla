------------------------- MODULE LocalServiceProofs -------------------------
(***************************************************************************)
(* The registry of pending reviews and the Refs are changed in different   *)
(* critical sections.  For every number of projects, sessions, request     *)
(* threads, foreign Ref moves and restarts, what a call has done to its    *)
(* session is in the registry before anyone else can look.                 *)
(***************************************************************************)
EXTENDS LocalService, FiniteSetTheorems, TLAPS

\* Leaves are first-order; those about numbers, records and sequences cite SMT.
USE ZenonT(40)

\* the steps of a begin that holds a reserved entry
WorkSteps == {"before", "begin", "initialize", "propose", "fill", "settle",
              "settle_entry"}
HandleSteps == {"decide", "recheck", "restore", "finish", "consume"}
Inside == BeginSteps \cup DecideSteps

\* the session of a call and what this process did to it
Fate(t) == fate[task[t].project][task[t].session]
Open == {"began", "committed"}

EntryOf(t, state) ==
    [project |-> task[t].project, session |-> task[t].session, state |-> state]

\* a call carries what its next step needs
Carries(t) ==
    LET c == task[t] IN
    /\ c.at # "idle" => c.project \in Projects
    /\ c.at \notin {"idle", "overlay"} => c.session \in Sessions /\ c.review \in Reviews
    /\ c.at \in {"begin", "initialize", "propose", "settle", "claim", "overlay",
                 "respond_overlay"} => c.snapshot \in Snapshots

\* a call that holds the writer mutex has its entry to itself
Owns(t) ==
    LET c == task[t] IN
    /\ c.at \in Inside => writer[c.project] = t
    /\ c.at \in {"lock_begin", "reserve"} => c.review \in issued /\ entries[c.review] = None
    /\ c.at \in WorkSteps => entries[c.review] = EntryOf(t, "reserved")
    /\ c.at \in HandleSteps => entries[c.review] = EntryOf(t, "deciding")
    /\ c.at = "consume_committed" => entries[c.review] = EntryOf(t, "outcome_unknown")

\* what the call did to its session so far
Knows(t) ==
    LET c == task[t] IN
    /\ c.at \in {"before", "begin", "initialize"} => Fate(t) \notin Open
    /\ c.at \in {"propose", "fill", "decide", "recheck", "restore"} => Fate(t) = "began"
    /\ c.at \in {"finish", "consume", "consume_committed"} => Fate(t) = "known"
    /\ c.at \in {"begin", "initialize"} =>
          c.snapshot[c.session].decision.event <= Live(t).decision.event
    /\ c.at = "propose" => c.snapshot[c.session].decision.event < Live(t).decision.event
    /\ c.at = "settle" =>
          \/ Fate(t) \notin Open
          \/ c.snapshot[c.session].decision.event < Live(t).decision.event
    /\ c.at = "settle_entry" /\ c.agrees => Fate(t) \notin Open

Fits(t) == Carries(t) /\ Owns(t) /\ Knows(t)

\* a held mutex has a holder inside its critical section
WriterFits(p) ==
    writer[p] # None =>
        task[writer[p]].at \in Inside /\ task[writer[p]].project = p

\* an entry in flight belongs to the writer of its project
EntryFits(r) ==
    entries[r] # None =>
        LET e == entries[r]
            t == writer[e.project]
        IN /\ r \in issued
           /\ e.state = "ready" => fate[e.project][e.session] = "began"
           /\ e.state = "reserved" =>
                 t # None /\ task[t].review = r /\ task[t].at \in WorkSteps
           /\ e.state = "deciding" =>
                 t # None /\ task[t].review = r /\ task[t].at \in HandleSteps

\* a session has one entry
OneEntry ==
    \A q, r \in Reviews :
        /\ entries[q] # None /\ entries[r] # None
        /\ entries[q].project = entries[r].project
        /\ entries[q].session = entries[r].session
        => q = r

\* a review id that has no entry yet is one begin's
Private ==
    \A t, u \in Threads :
        /\ task[t].at \in {"lock_begin", "reserve"}
        /\ task[u].at \in {"lock_begin", "reserve"}
        /\ task[t].review = task[u].review
        => t = u

SessionFits(p, s) ==
    fate[p][s] \in Open =>
        \E r \in Reviews : /\ entries[r] # None
                          /\ entries[r].project = p
                          /\ entries[r].session = s

IInv ==
    /\ TypeOK
    /\ \A t \in Threads : Fits(t)
    /\ \A p \in Projects : WriterFits(p)
    /\ \A r \in Reviews : EntryFits(r)
    /\ \A p \in Projects, s \in Sessions : SessionFits(p, s)
    /\ OneEntry
    /\ Private
    /\ SlotsAreBounded

-----------------------------------------------------------------------------
(* One thread steps *)

\* the entry a step may change: its own, inside the mutex
Mine(t, r) == /\ task[t].at \in Inside
              /\ r = task[t].review
              /\ Named(t) \/ task[t].at = "reserve"

\* what a step of thread t leaves to the others
Steady(t) ==
    /\ \A u \in Threads : u # t => task'[u] = task[u]
    /\ \A p \in Projects : writer[p] \notin {None, t} => writer'[p] = writer[p]
    /\ \A p \in Projects : writer'[p] \notin {None, t} => writer[p] = writer'[p]
    /\ \A r \in Reviews : ~Mine(t, r) =>
          \/ entries'[r] = entries[r]
          \/ /\ entries[r] # None /\ entries[r].state = "ready"
             /\ entries'[r] = [entries[r] EXCEPT !.state = "outcome_unknown"]
    /\ \A r \in issued : r \in issued' \/ (Mine(t, r) /\ entries[r] = None)
    /\ refs' \in [Projects -> Snapshots]
    /\ \A p \in Projects, s \in Sessions :
          /\ refs[p][s].decision.event <= refs'[p][s].decision.event
          /\ \/ fate'[p][s] = fate[p][s]
             \/ /\ task[t].at \in Inside /\ Named(t)
                /\ p = task[t].project /\ s = task[t].session

\* An event count is none above itself.
LEMMA SameEvent == \A i \in Nat : i <= i
BY SMTT(30)

\* What was before an event is before a later one.
LEMMA StillBefore ==
    ASSUME NEW i \in Nat, NEW j \in Nat, NEW k \in Nat, j <= k
    PROVE  /\ i <= j => i <= k
           /\ i < j => i < k
BY SMTT(30)

\* The mutex and the private ids keep two threads off the same entry.
LEMMA Apart ==
    ASSUME IInv, NEW t \in Threads, NEW u \in Threads, t # u,
           Mine(t, task[u].review)
    PROVE  task[u].at \notin {"lock_begin", "reserve", "consume_committed"}
                              \cup WorkSteps \cup HandleSteps
<1>1. Fits(t) /\ Fits(u) /\ Private
  BY DEF IInv
<1>2. task[t].at \in Inside /\ task[t].project \in Projects
      /\ task[t].review = task[u].review /\ writer[task[t].project] = t
  BY <1>1 DEF Mine, Fits, Carries, Owns, Inside, BeginSteps, DecideSteps
<1>3. CASE task[t].at = "reserve"
  <2>1. entries[task[u].review] = None
    BY <1>1, <1>2, <1>3 DEF Fits, Owns
  <2>2. task[u].at \notin {"lock_begin", "reserve"}
    BY <1>1, <1>2, <1>3 DEF Private
  <2>3. ASSUME task[u].at \in {"consume_committed"} \cup WorkSteps \cup HandleSteps
        PROVE  FALSE
    <3>1. \E state \in States : entries[task[u].review] = EntryOf(u, state)
      BY <1>1, <2>3 DEF Fits, Owns, States
    <3>2. task[u].project \in Projects /\ task[u].session \in Sessions
      BY <1>1, <2>3 DEF Fits, Carries, WorkSteps, HandleSteps
    <3> QED BY <2>1, <3>1, <3>2, LocalServiceAssumption, SMTT(30) DEF EntryOf, Entry
  <2> QED BY <2>2, <2>3
<1>4. CASE task[t].at # "reserve"
  <2>1. entries[task[u].review] # None
        /\ entries[task[u].review].project = task[t].project
    BY <1>2, <1>4 DEF Mine, Named
  <2>2. task[u].at \notin {"lock_begin", "reserve"}
    BY <1>1, <2>1 DEF Fits, Owns
  <2>3. ASSUME task[u].at \in {"consume_committed"} \cup WorkSteps \cup HandleSteps
        PROVE  FALSE
    <3>1. \E state \in States : entries[task[u].review] = EntryOf(u, state)
      BY <1>1, <2>3 DEF Fits, Owns, States
    <3>2. task[u].project = task[t].project
      BY <2>1, <3>1, SMTT(30) DEF EntryOf
    <3>3. writer[task[u].project] = u
      BY <1>1, <2>3
      DEF Fits, Owns, Inside, BeginSteps, DecideSteps, WorkSteps, HandleSteps
    <3> QED BY <1>2, <3>2, <3>3
  <2> QED BY <2>2, <2>3
<1> QED BY <1>3, <1>4

\* The event count a snapshot holds of a session is a number.
LEMMA EventIsNat ==
    ASSUME NEW snapshot \in Snapshots, NEW s \in Sessions
    PROVE  snapshot[s].decision.event \in Nat
BY DEF Snapshots, SessionRefs, RefRow

\* What a thread owns and knows survives the steps of the others.
LEMMA OthersFit ==
    ASSUME IInv, NEW t \in Threads, Steady(t), NEW u \in Threads, u # t
    PROVE  Fits(u)'
<1>0. Fits(u) /\ task'[u] = task[u] /\ task[u].at \in Steps
  BY DEF IInv, TypeOK, Steady, Tasks
<1>1. Carries(u)'
  BY <1>0 DEF Fits, Carries
<1>2. ASSUME task[u].at \in {"lock_begin", "reserve", "consume_committed"}
                              \cup WorkSteps \cup HandleSteps
      PROVE  /\ task[u].review \in Reviews
             /\ ~Mine(t, task[u].review)
             /\ entries'[task[u].review] = entries[task[u].review]
  <2>1. task[u].review \in Reviews
    BY <1>0, <1>2 DEF Fits, Carries, WorkSteps, HandleSteps
  <2>2. ~Mine(t, task[u].review)
    BY <1>2, Apart
  <2>3. ~(entries[task[u].review] # None /\ entries[task[u].review].state = "ready")
    BY <1>0, <1>2, SMTT(30) DEF Fits, Owns, EntryOf
  <2> QED BY <2>1, <2>2, <2>3 DEF Steady
<1>3. ASSUME task[u].at \in Inside
      PROVE  /\ task[u].project \in Projects /\ task[u].session \in Sessions
             /\ writer[task[u].project] = u /\ writer'[task[u].project] = u
             /\ fate'[task[u].project][task[u].session] = Fate(u)
             /\ Live(u).decision.event
                   <= refs'[task[u].project][task[u].session].decision.event
  <2>1. /\ task[u].project \in Projects /\ task[u].session \in Sessions
        /\ writer[task[u].project] = u /\ u # None
    BY <1>0, <1>3, LocalServiceAssumption
    DEF Fits, Carries, Owns, Inside, BeginSteps, DecideSteps
  <2>2. ~(task[t].at \in Inside /\ task[u].project = task[t].project)
    BY <2>1 DEF IInv, Fits, Owns
  <2> QED BY <2>1, <2>2 DEF Steady, Fate, Live
<1>4. Owns(u)'
  <2>1. ASSUME task[u].at \in {"lock_begin", "reserve"}
        PROVE  task[u].review \in issued'
    BY <1>0, <1>2, <2>1 DEF Fits, Owns, Steady
  <2> QED BY <1>0, <1>2, <1>3, <2>1 DEF Fits, Owns, EntryOf
<1>5. Knows(u)'
  <2>1. CASE task[u].at \notin Inside
    BY <1>0, <2>1 DEF Knows, Inside, BeginSteps, DecideSteps
  <2>2. CASE task[u].at \in Inside
    <3>1. Fate(u)' = Fate(u)
      BY <1>0, <1>3, <2>2 DEF Fate
    <3>2. ASSUME task[u].at \in {"begin", "initialize", "propose", "settle"}
          PROVE  /\ task[u].snapshot[task[u].session].decision.event \in Nat
                 /\ Live(u).decision.event \in Nat
                 /\ Live(u)'.decision.event \in Nat
                 /\ Live(u).decision.event <= Live(u)'.decision.event
      <4>1. task[u].snapshot \in Snapshots
        BY <1>0, <3>2 DEF Fits, Carries
      <4>2. refs \in [Projects -> Snapshots] /\ refs' \in [Projects -> Snapshots]
        BY DEF IInv, TypeOK, Steady
      <4>3. Live(u)' = refs'[task[u].project][task[u].session]
        BY <1>0 DEF Live
      <4>4. /\ Live(u) = refs[task[u].project][task[u].session]
            /\ refs[task[u].project] \in Snapshots
            /\ refs'[task[u].project] \in Snapshots
        BY <1>3, <2>2, <4>2 DEF Live
      <4>5. /\ Live(u).decision.event \in Nat /\ Live(u)'.decision.event \in Nat
            /\ task[u].snapshot[task[u].session].decision.event \in Nat
        BY <1>3, <2>2, <4>1, <4>3, <4>4, EventIsNat
      <4> QED BY <1>3, <2>2, <4>3, <4>5
    <3> DEFINE seen == task[u].snapshot[task[u].session].decision.event
    <3>3. ASSUME task[u].at \in {"begin", "initialize", "propose", "settle"}
          PROVE  /\ seen <= Live(u).decision.event => seen <= Live(u)'.decision.event
                 /\ seen < Live(u).decision.event => seen < Live(u)'.decision.event
      <4>1. PICK i \in Nat, j \in Nat, k \in Nat :
               /\ i = seen /\ j = Live(u).decision.event /\ k = Live(u)'.decision.event
        BY <3>2, <3>3
      <4>2. j <= k
        BY <3>2, <3>3, <4>1
      <4>3. (i <= j => i <= k) /\ (i < j => i < k)
        BY <4>2, StillBefore
      <4> QED BY <4>1, <4>3
    <3> QED BY <1>0, <3>1, <3>3 DEF Fits, Knows
  <2> QED BY <2>1, <2>2
<1> QED BY <1>1, <1>4, <1>5 DEF Fits

Types ==
    /\ refs \in [Projects -> Snapshots]
    /\ entries \in [Reviews -> Entry \cup {None}]
    /\ issued \subseteq Reviews
    /\ writer \in [Projects -> Threads \cup {None}]
    /\ task \in [Threads -> Tasks]
    /\ fate \in [Projects -> [Sessions -> {"untouched", "began", "committed", "known"}]]
    /\ foreign \in 0..MaxForeign
    /\ restarts \in 0..MaxRestarts

\* The type invariant follows once every mutex has its holder.
LEMMA MutexFits ==
    ASSUME Types', \A t \in Threads : Fits(t)', \A p \in Projects : WriterFits(p)'
    PROVE  TypeOK'
<1>1. ASSUME NEW t \in Threads
      PROVE  task'[t].at \in Inside <=> \E p \in Projects : writer'[p] = t
  <2>1. ASSUME task'[t].at \in Inside PROVE \E p \in Projects : writer'[p] = t
    BY <2>1 DEF Fits, Carries, Owns, Inside, BeginSteps, DecideSteps
  <2>2. ASSUME NEW p \in Projects, writer'[p] = t PROVE task'[t].at \in Inside
    BY <2>2, LocalServiceAssumption DEF WriterFits
  <2> QED BY <2>1, <2>2
<1> QED BY <1>1 DEF Types, TypeOK, Inside

\* A begin gets an id nobody has, and an entry of a session without one.
FreshId(t) ==
    task'[t].at \in {"lock_begin", "reserve"} =>
        \/ task'[t].review \notin issued
        \/ /\ task[t].at \in {"lock_begin", "reserve"}
           /\ task'[t].review = task[t].review
FreshEntry(t) ==
    \A r \in Reviews : Mine(t, r) /\ entries'[r] # None =>
        /\ entries'[r].project = task[t].project
        /\ entries'[r].session = task[t].session
        /\ Named(t) \/ Admits(task[t].project, task[t].session)

\* an entry that is not the step's own is in flight only for another thread
LEMMA OthersEntry ==
    ASSUME IInv, NEW t \in Threads, Steady(t), NEW r \in Reviews, ~Mine(t, r)
    PROVE  EntryFits(r)'
<1> DEFINE e == entries[r]
           p == e.project
<1>0. /\ entries[r] \in Entry \cup {None} /\ EntryFits(r) /\ None \notin Entry
      /\ writer \in [Projects -> Threads \cup {None}]
  BY LocalServiceAssumption DEF IInv, TypeOK
<1>1. CASE entries'[r] = entries[r]
  <2>1. SUFFICES ASSUME entries[r] # None PROVE EntryFits(r)'
    BY <1>1 DEF EntryFits
  <2>2. p \in Projects /\ e.session \in Sessions
    BY <1>0, <2>1 DEF Entry
  <2>3. r \in issued'
    BY <1>0, <2>1 DEF EntryFits, Steady
  <2>4. e.state = "ready" => fate'[p][e.session] = "began"
    <3>1. ~(/\ task[t].at \in Inside /\ Named(t)
            /\ p = task[t].project /\ e.session = task[t].session)
      <4>1. SUFFICES ASSUME task[t].at \in Inside, Named(t), p = task[t].project,
                            e.session = task[t].session
                     PROVE  FALSE
        OBVIOUS
      <4>2. task[t].review \in Reviews
        BY <4>1 DEF IInv, Fits, Carries, Inside, BeginSteps, DecideSteps
      <4>3. task[t].review = r
        BY <2>1, <4>1, <4>2 DEF IInv, OneEntry, Named
      <4> QED BY <4>1, <4>3 DEF Mine
    <3>2. fate'[p][e.session] = fate[p][e.session]
      BY <2>2, <3>1 DEF Steady
    <3> QED BY <1>0, <2>1, <3>2 DEF EntryFits
  <2>5. ASSUME NEW S \in {WorkSteps, HandleSteps}, writer[p] # None,
               task[writer[p]].review = r, task[writer[p]].at \in S
        PROVE  writer'[p] = writer[p] /\ task'[writer[p]] = task[writer[p]]
    <3>1. writer[p] \in Threads
      BY <1>0, <2>2, <2>5
    <3>2. writer[p] # t
      <4>1. SUFFICES ASSUME writer[p] = t PROVE FALSE
        OBVIOUS
      <4>2. Owns(t) /\ task[t].at \in WorkSteps \cup HandleSteps
        BY <2>5, <4>1 DEF IInv, Fits
      <4>3. \E state \in States : entries[r] = EntryOf(t, state)
        BY <2>5, <4>1, <4>2 DEF Owns, States
      <4>4. Named(t)
        BY <2>1, <2>5, <4>1, <4>3, SMTT(30) DEF Named, EntryOf
      <4>5. task[t].at \in Inside
        BY <4>2 DEF Inside, BeginSteps, DecideSteps, WorkSteps, HandleSteps
      <4> QED BY <2>5, <4>1, <4>4, <4>5 DEF Mine
    <3> QED BY <2>2, <2>5, <3>1, <3>2 DEF Steady
  <2> QED BY <1>0, <1>1, <2>1, <2>3, <2>4, <2>5 DEF EntryFits
<1>2. CASE /\ entries[r] # None /\ entries[r].state = "ready"
           /\ entries'[r] = [entries[r] EXCEPT !.state = "outcome_unknown"]
  <2>1. entries'[r].state = "outcome_unknown"
    BY <1>0, <1>2 DEF Entry
  <2>2. r \in issued'
    BY <1>0, <1>2 DEF EntryFits, Steady
  <2> QED BY <2>1, <2>2 DEF EntryFits
<1> QED BY <1>1, <1>2 DEF Steady

\* A set that loses elements, and one that gains one below its bound.
LEMMA NoMore ==
    ASSUME NEW U, IsFiniteSet(U), NEW S \in SUBSET U, NEW T \in SUBSET S, NEW n \in Nat,
           Cardinality(S) <= n
    PROVE  Cardinality(T) <= n
<1>1. IsFiniteSet(S)
  BY FS_Subset
<1>2. /\ IsFiniteSet(T) /\ Cardinality(T) <= Cardinality(S)
      /\ Cardinality(S) \in Nat /\ Cardinality(T) \in Nat
  BY <1>1, FS_Subset, FS_CardinalityType
<1> QED BY <1>2, SMTT(30)

\* A set below a bound that gains one element is within the bound.
LEMMA AddOne ==
    ASSUME NEW U, IsFiniteSet(U), NEW S \in SUBSET U, NEW r,
           NEW T \in SUBSET (S \cup {r}), NEW n \in Nat, Cardinality(S) < n
    PROVE  Cardinality(T) <= n
<1>1. IsFiniteSet(S)
  BY FS_Subset
<1>2. /\ IsFiniteSet(S \cup {r}) /\ Cardinality(S) \in Nat
      /\ \/ Cardinality(S \cup {r}) = Cardinality(S)
         \/ Cardinality(S \cup {r}) = Cardinality(S) + 1
  BY <1>1, FS_AddElement, FS_CardinalityType
<1>3. Cardinality(S \cup {r}) <= n
  BY <1>2, SMTT(30)
<1> QED BY <1>2, <1>3, NoMore

\* It is enough to look at the thread that takes the step, its entry and its
\* session.
LEMMA ThreadStep ==
    ASSUME IInv, NEW t \in Threads, Steady(t), Types', Fits(t)',
           FreshId(t), FreshEntry(t),
           \A p \in Projects : writer'[p] = t =>
              task'[t].at \in Inside /\ task'[t].project = p,
           \A r \in Reviews : Mine(t, r) => EntryFits(r)',
           \A p \in Projects, s \in Sessions :
              task[t].at \in Inside /\ p = task[t].project /\ s = task[t].session
                 => SessionFits(p, s)'
    PROVE  IInv'
<1>1. \A u \in Threads : Fits(u)'
  BY OthersFit
<1>2. ASSUME NEW p \in Projects PROVE WriterFits(p)'
  <2>1. CASE writer'[p] = None
    BY <2>1 DEF WriterFits
  <2>0. CASE writer'[p] = t
    BY <2>0 DEF WriterFits
  <2>2. CASE writer'[p] \notin {None, t}
    <3>1. writer[p] = writer'[p] /\ writer[p] \in Threads
      BY <2>2, SMTT(30) DEF Steady, IInv, TypeOK
    <3> QED BY <2>2, <3>1, SMTT(30) DEF Steady, IInv, WriterFits
  <2> QED BY <2>0, <2>1, <2>2
<1>3. \A r \in Reviews : EntryFits(r)'
  BY OthersEntry
<1>a. ASSUME NEW r \in Reviews, ~Mine(t, r)
      PROVE  /\ entries[r] # None <=> entries'[r] # None
             /\ entries[r] # None =>
                   /\ entries'[r].project = entries[r].project
                   /\ entries'[r].session = entries[r].session
  <2>1. entries[r] \in Entry \cup {None} /\ entries'[r] \in Entry \cup {None}
        /\ None \notin Entry
    BY LocalServiceAssumption DEF IInv, TypeOK, Types
  <2>2. CASE entries'[r] = entries[r]
    BY <2>2
  <2>3. CASE /\ entries[r] # None
             /\ entries'[r] = [entries[r] EXCEPT !.state = "outcome_unknown"]
    <3>1. entries'[r] \in Entry
      BY <2>1, <2>3 DEF Entry, States
    <3> QED BY <2>1, <2>3, <3>1 DEF Entry
  <2> QED BY <1>a, <2>2, <2>3 DEF Steady
<1>4. ASSUME NEW p \in Projects, NEW s \in Sessions PROVE SessionFits(p, s)'
  <2>1. CASE /\ task[t].at \in Inside
             /\ p = task[t].project /\ s = task[t].session
    BY <2>1
  <2>2. CASE ~(/\ task[t].at \in Inside
               /\ p = task[t].project /\ s = task[t].session)
    <3>1. SUFFICES ASSUME fate'[p][s] \in Open PROVE SessionFits(p, s)'
      BY DEF SessionFits
    <3>2. fate'[p][s] = fate[p][s]
      BY <2>2, SMTT(30) DEF Steady
    <3>3. PICK r \in Reviews : /\ entries[r] # None
                               /\ entries[r].project = p /\ entries[r].session = s
      BY <3>1, <3>2, SMTT(30) DEF IInv, SessionFits
    <3>4. ~Mine(t, r)
      <4>1. CASE task[t].at = "reserve"
        BY <3>3, <4>1 DEF Mine, IInv, Fits, Owns
      <4>2. CASE task[t].at # "reserve"
        BY <2>2, <3>3, <4>2 DEF Mine, Named
      <4> QED BY <4>1, <4>2
    <3> QED BY <1>a, <3>3, <3>4 DEF SessionFits
  <2> QED BY <2>1, <2>2
<1>5. OneEntry'
  <2>1. SUFFICES ASSUME NEW q \in Reviews, NEW r \in Reviews, q # r,
                        entries'[q] # None, entries'[r] # None,
                        entries'[q].project = entries'[r].project,
                        entries'[q].session = entries'[r].session
                 PROVE  FALSE
    BY DEF OneEntry
  <2>2. CASE ~Mine(t, q) /\ ~Mine(t, r)
    BY <1>a, <2>1, <2>2, SMTT(30) DEF IInv, OneEntry
  <2>3. ASSUME NEW x \in Reviews, NEW y \in Reviews, Mine(t, x), x # y,
               entries'[x] # None, entries'[y] # None,
               entries'[x].project = entries'[y].project,
               entries'[x].session = entries'[y].session
        PROVE  FALSE
    <3>1. ~Mine(t, y)
      BY <2>3 DEF Mine
    <3>2. /\ entries[y] # None /\ entries[y].project = task[t].project
          /\ entries[y].session = task[t].session
      BY <1>a, <2>3, <3>1 DEF FreshEntry
    <3>3. Named(t)
      BY <2>3, <3>2 DEF FreshEntry, Admits, RetainedIn, Retained
    <3> QED BY <2>3, <3>2, <3>3 DEF IInv, OneEntry, Named, Mine
  <2> QED BY <2>1, <2>2, <2>3
<1>6. Private'
  <2>1. ASSUME NEW u \in Threads, u # t, task'[t].at \in {"lock_begin", "reserve"},
               task[u].at \in {"lock_begin", "reserve"},
               task'[t].review = task[u].review
        PROVE  FALSE
    BY <2>1 DEF FreshId, IInv, Private, Fits, Owns
  <2>2. \A u \in Threads : u # t => task'[u] = task[u]
    BY DEF Steady
  <2> QED BY <2>1, <2>2, SMTT(30) DEF IInv, Private
<1>7. TypeOK'
  BY <1>1, <1>2, MutexFits
<1>8. SlotsAreBounded'
  <2>0. IsFiniteSet(Reviews)
    BY LocalServiceAssumption
  <2>1. /\ Retained \subseteq Reviews /\ Retained' \subseteq Reviews
        /\ \A p \in Projects : RetainedIn(p) \subseteq Reviews
        /\ \A p \in Projects : RetainedIn(p)' \subseteq Reviews
    BY DEF Retained, RetainedIn
  <2>2. CASE \E r \in Reviews : Mine(t, r) /\ entries'[r] # None /\ ~Named(t)
    <3>1. PICK r \in Reviews : Mine(t, r) /\ entries'[r] # None /\ ~Named(t)
      BY <2>2
    <3>2. Admits(task[t].project, task[t].session) /\ entries'[r].project = task[t].project
      BY <3>1 DEF FreshEntry
    <3>3. Retained' \subseteq Retained \cup {r}
      BY <1>a, <3>1 DEF Retained, Mine
    <3>4. ASSUME NEW p \in Projects
          PROVE  RetainedIn(p)' \subseteq RetainedIn(p)
                    \cup (IF p = task[t].project THEN {r} ELSE {})
      BY <1>a, <3>1, <3>2 DEF RetainedIn, Retained, Mine
    <3>5. Cardinality(Retained') <= MAX_PENDING_CREATOR_SESSIONS
      BY <2>0, <2>1, <3>2, <3>3, AddOne, LocalServiceAssumption DEF Admits
    <3>6. ASSUME NEW p \in Projects
          PROVE  Cardinality(RetainedIn(p)') <= MAX_PENDING_CREATOR_SESSIONS_PER_PROJECT
      <4>1. CASE p = task[t].project
        BY <2>0, <2>1, <3>2, <3>4, <4>1, AddOne, LocalServiceAssumption DEF Admits
      <4>2. CASE p # task[t].project
        BY <2>0, <2>1, <3>4, <4>2, NoMore, LocalServiceAssumption
        DEF IInv, SlotsAreBounded
      <4> QED BY <4>1, <4>2
    <3> QED BY <3>5, <3>6 DEF SlotsAreBounded
  <2>3. CASE ~\E r \in Reviews : Mine(t, r) /\ entries'[r] # None /\ ~Named(t)
    <3>1. ASSUME NEW r \in Reviews, entries'[r] # None
          PROVE  entries[r] # None /\ entries[r].project = entries'[r].project
      <4>1. CASE Mine(t, r)
        BY <2>3, <3>1, <4>1 DEF FreshEntry, Mine, Named
      <4>2. CASE ~Mine(t, r)
        BY <1>a, <3>1, <4>2
      <4> QED BY <4>1, <4>2
    <3>2. /\ Retained' \subseteq Retained
          /\ \A p \in Projects : RetainedIn(p)' \subseteq RetainedIn(p)
      BY <3>1 DEF Retained, RetainedIn
    <3> QED BY <2>0, <2>1, <3>2, NoMore, LocalServiceAssumption DEF IInv, SlotsAreBounded
  <2> QED BY <2>2, <2>3
<1> QED BY <1>1, <1>2, <1>3, <1>4, <1>5, <1>6, <1>7, <1>8 DEF IInv

\* A call that is inside has its arguments and its project's mutex.
LEMMA InsideFits ==
    ASSUME IInv, NEW t \in Threads, task[t].at \in Inside
    PROVE  /\ task[t].project \in Projects /\ task[t].session \in Sessions
           /\ task[t].review \in Reviews /\ writer[task[t].project] = t
           /\ task[t] \in Tasks /\ t # None
BY LocalServiceAssumption, SMTT(30)
DEF IInv, TypeOK, Fits, Carries, Owns, Inside, BeginSteps, DecideSteps

\* The entry of a call that does not work on it is not in flight.
LEMMA Settled ==
    ASSUME IInv, NEW t \in Threads, task[t].at \in Inside, Named(t),
           task[t].at \notin WorkSteps \cup HandleSteps
    PROVE  entries[task[t].review].state \in {"ready", "outcome_unknown"}
<1> DEFINE r == task[t].review
<1>1. r \in Reviews /\ writer[task[t].project] = t /\ t # None
  BY InsideFits
<1>2. entries[r] \in Entry /\ entries[r].project = task[t].project /\ EntryFits(r)
  BY <1>1 DEF Named, IInv, TypeOK
<1>3. entries[r].state \in States
  BY <1>2 DEF Entry
<1> QED BY <1>1, <1>2, <1>3 DEF EntryFits, States, Named

\* A step of a call that only moves on.
LEMMA Onward ==
    ASSUME IInv, NEW t \in Threads, NEW c \in Tasks, task' = [task EXCEPT ![t] = c],
           UNCHANGED <<refs, entries, issued, writer, fate, foreign, restarts>>,
           Fits(t)',
           task[t].at \in Inside => c.at \in Inside /\ c.project = task[t].project,
           task[t].at \in WorkSteps => c.at \in WorkSteps /\ c.review = task[t].review,
           task[t].at \in HandleSteps => c.at \in HandleSteps /\ c.review = task[t].review,
           c.at \in {"lock_begin", "reserve"} =>
              task[t].at \in {"lock_begin", "reserve"} /\ c.review = task[t].review
    PROVE  IInv'
<1>0. Types /\ task'[t] = c /\ \A u \in Threads : u # t => task'[u] = task[u]
  BY DEF IInv, TypeOK, Types
<1>1. Types'
  BY <1>0 DEF Types
<1>2. Steady(t)
  <2>1. ASSUME NEW p \in Projects, NEW s \in Sessions
        PROVE  refs[p][s].decision.event <= refs'[p][s].decision.event
    <3>1. refs[p] \in Snapshots
      BY <1>0 DEF Types
    <3> QED BY <3>1, EventIsNat, SMTT(30)
  <2> QED BY <1>0, <2>1 DEF Steady, Types
<1>3. FreshId(t)
  BY <1>0 DEF FreshId
<1>4. FreshEntry(t)
  <2>1. ASSUME task[t].at = "reserve" PROVE entries[task[t].review] = None
    BY <2>1 DEF IInv, Fits, Owns
  <2> QED BY <2>1 DEF FreshEntry, Mine, Named
<1>5. ASSUME NEW p \in Projects, writer'[p] = t
      PROVE  task'[t].at \in Inside /\ task'[t].project = p
  <2>1. task[t].at \in Inside /\ task[t].project = p
    BY <1>5, LocalServiceAssumption DEF IInv, WriterFits
  <2> QED BY <1>0, <2>1
<1>6. ASSUME NEW r \in Reviews, Mine(t, r) PROVE EntryFits(r)'
  <2>1. SUFFICES ASSUME entries[r] # None PROVE EntryFits(r)'
    BY DEF EntryFits
  <2>2. r = task[t].review /\ task[t].at \in Inside /\ Named(t)
    BY <1>6, <2>1 DEF Mine, IInv, Fits, Owns
  <2>3. writer[entries[r].project] = t
    BY <2>2, InsideFits DEF Named
  <2> QED BY <1>0, <2>1, <2>2, <2>3 DEF EntryFits, IInv
<1>7. ASSUME NEW p \in Projects, NEW s \in Sessions PROVE SessionFits(p, s)'
  BY DEF IInv, SessionFits
<1> QED BY <1>1, <1>2, <1>3, <1>4, <1>5, <1>6, <1>7, ThreadStep

\* The end of a call: it leaves its entry ready or given up, or takes away the
\* entry of a session that needs none.
LEMMA EndStep ==
    ASSUME IInv, NEW t \in Threads, Return(t),
           UNCHANGED <<refs, fate, foreign, restarts>>,
           \/ issued' = issued
           \/ /\ task[t].at = "reserve" /\ issued' = issued \ {task[t].review}
              /\ entries' = entries,
           entries' \in [Reviews -> Entry \cup {None}],
           \A r \in Reviews : ~Mine(t, r) =>
              \/ entries'[r] = entries[r]
              \/ /\ entries[r] # None /\ entries[r].state = "ready"
                 /\ entries'[r] = [entries[r] EXCEPT !.state = "outcome_unknown"],
           \A r \in Reviews : Mine(t, r) /\ entries'[r] # None =>
              /\ Named(t)
              /\ entries'[r].project = task[t].project
              /\ entries'[r].session = task[t].session
              /\ entries'[r].state \in {"ready", "outcome_unknown"}
              /\ entries'[r].state = "ready" => Fate(t) = "began",
           \A r \in Reviews : Mine(t, r) /\ Named(t) /\ entries'[r] = None =>
              Fate(t) \notin Open
    PROVE  IInv'
<1>0. /\ Types /\ task'[t] = Idle /\ \A u \in Threads : u # t => task'[u] = task[u]
      /\ Idle \in Tasks /\ Idle.at = "idle"
  BY DEF IInv, TypeOK, Types, Return, Idle, Tasks, Steps
<1>1. Types'
  <2>1. task' \in [Threads -> Tasks] /\ writer' \in [Projects -> Threads \cup {None}]
    BY <1>0 DEF Return, Types
  <2>2. issued' \subseteq Reviews
    BY <1>0 DEF Types
  <2> QED BY <1>0, <2>1, <2>2 DEF Types
<1>2. Steady(t)
  <2>1. ASSUME NEW p \in Projects, NEW s \in Sessions
        PROVE  refs[p][s].decision.event <= refs'[p][s].decision.event
    <3>1. refs[p] \in Snapshots
      BY <1>0 DEF Types
    <3> QED BY <3>1, EventIsNat, SMTT(30)
  <2>2. ASSUME NEW r \in issued PROVE r \in issued' \/ (Mine(t, r) /\ entries[r] = None)
    BY <2>2 DEF Mine, Inside, BeginSteps, IInv, Fits, Owns
  <2>3. ASSUME NEW p \in Projects
        PROVE  /\ writer[p] \notin {None, t} => writer'[p] = writer[p]
               /\ writer'[p] \notin {None, t} => writer[p] = writer'[p]
    BY DEF Return
  <2> QED BY <1>0, <2>1, <2>2, <2>3 DEF Steady, Types
<1>3. FreshId(t) /\ FreshEntry(t)
  BY <1>0 DEF FreshId, FreshEntry
<1>4. Fits(t)'
  BY <1>0
  DEF Fits, Carries, Owns, Knows, Inside, BeginSteps, DecideSteps, WorkSteps,
      HandleSteps
<1>5. ASSUME NEW p \in Projects PROVE writer'[p] # t
  BY LocalServiceAssumption DEF Return
<1>6. ASSUME NEW r \in Reviews, Mine(t, r) PROVE EntryFits(r)'
  <2>1. SUFFICES ASSUME entries'[r] # None PROVE EntryFits(r)'
    BY DEF EntryFits
  <2>2. Named(t) /\ r = task[t].review
    BY <1>6, <2>1 DEF Mine
  <2>3. entries[r] # None /\ r \in issued
    BY <2>2 DEF Named, IInv, EntryFits
  <2>4. r \in issued'
    BY <1>2, <2>3 DEF Steady
  <2> QED BY <1>6, <2>1, <2>4 DEF EntryFits, Fate
<1>7. ASSUME NEW p \in Projects, NEW s \in Sessions, task[t].at \in Inside,
             p = task[t].project, s = task[t].session
      PROVE  SessionFits(p, s)'
  <2>1. SUFFICES ASSUME fate[p][s] \in Open PROVE SessionFits(p, s)'
    BY DEF SessionFits
  <2>2. PICK r \in Reviews : /\ entries[r] # None
                             /\ entries[r].project = p /\ entries[r].session = s
    BY <2>1, SMTT(30) DEF IInv, SessionFits
  <2>3. CASE Mine(t, r)
    <3>1. Named(t)
      BY <1>7, <2>2, <2>3 DEF Mine, Named
    <3>2. entries'[r] # None
      BY <1>7, <2>1, <2>3, <3>1 DEF Fate
    <3> QED BY <1>7, <2>3, <3>2 DEF SessionFits
  <2>4. CASE ~Mine(t, r)
    <3>1. entries[r] \in Entry /\ None \notin Entry
      BY <1>0, <2>2, LocalServiceAssumption, SMTT(30) DEF Types
    <3>2. /\ entries'[r] # None /\ entries'[r].project = p /\ entries'[r].session = s
      <4>1. CASE entries'[r] = entries[r]
        BY <2>2, <4>1
      <4>2. CASE entries'[r] = [entries[r] EXCEPT !.state = "outcome_unknown"]
        <5>1. entries'[r] \in Entry
          BY <3>1, <4>2 DEF Entry, States
        <5> QED BY <2>2, <3>1, <4>2, <5>1 DEF Entry
      <4> QED BY <2>4, <4>1, <4>2
    <3> QED BY <3>2 DEF SessionFits
  <2> QED BY <2>3, <2>4
<1> QED BY <1>1, <1>2, <1>3, <1>4, <1>5, <1>6, <1>7, ThreadStep

-----------------------------------------------------------------------------
(* The calls *)

\* The step of a call changes, and nothing else about it.
LEMMA GotoFields ==
    ASSUME IInv, NEW t \in Threads, NEW step \in Steps, Goto(t, step)
    PROVE  \E c \in Tasks :
              /\ task' = [task EXCEPT ![t] = c] /\ task'[t] = c
              /\ c.at = step /\ c.project = task[t].project
              /\ c.session = task[t].session /\ c.review = task[t].review
              /\ c.snapshot = task[t].snapshot /\ c.agrees = task[t].agrees
<1> DEFINE c == [task[t] EXCEPT !.at = step]
<1>1. task \in [Threads -> Tasks] /\ task[t] \in Tasks
  BY DEF IInv, TypeOK
<1>2. c \in Tasks /\ c.at = step /\ c.project = task[t].project
      /\ c.session = task[t].session /\ c.review = task[t].review
      /\ c.snapshot = task[t].snapshot /\ c.agrees = task[t].agrees
  BY <1>1 DEF Tasks
<1>3. task' = [task EXCEPT ![t] = c]
  BY DEF Goto
<1>4. task'[t] = c
  BY <1>1, <1>3
<1> HIDE DEF c
<1> QED BY <1>2, <1>3, <1>4

\* The creator call passes its checks, or fails: a begin that published its
\* base has moved a Ref since its snapshot.
LEMMA CoreMoves ==
    ASSUME IInv, NEW t \in Threads, NEW step, Goto(t, step),
           UNCHANGED <<refs, entries, issued, writer, fate, foreign, restarts>>,
           \/ step = "initialize" /\ task[t].at = "begin"
           \/ step = "settle" /\ task[t].at \in {"begin", "initialize", "propose"}
           \/ step = "recheck" /\ task[t].at = "decide"
           \/ step = "consume" /\ task[t].at = "finish"
    PROVE  IInv'
<1>0. step \in Steps /\ Fits(t)
  BY DEF Steps, BeginSteps, DecideSteps, IInv
<1>1. PICK c \in Tasks :
              /\ task' = [task EXCEPT ![t] = c] /\ task'[t] = c
              /\ c.at = step /\ c.project = task[t].project
              /\ c.session = task[t].session /\ c.review = task[t].review
              /\ c.snapshot = task[t].snapshot /\ c.agrees = task[t].agrees
  BY <1>0, GotoFields
<1>2. Carries(t)'
  BY <1>0, <1>1 DEF Fits, Carries
<1>3. Owns(t)'
  BY <1>0, <1>1
  DEF Fits, Owns, EntryOf, Inside, BeginSteps, DecideSteps, WorkSteps, HandleSteps
<1>4. Knows(t)'
  BY <1>0, <1>1 DEF Fits, Knows, Fate, Live
<1>5. Fits(t)'
  BY <1>2, <1>3, <1>4 DEF Fits
<1> QED BY <1>1, <1>5, Onward
        DEF Inside, BeginSteps, DecideSteps, WorkSteps, HandleSteps

\* A snapshot is captured before a begin, before a claim and for a response.
LEMMA CaptureStep ==
    ASSUME IInv, NEW t \in Threads, NEW step, capture_snapshot(t, step),
           UNCHANGED <<refs, entries, issued, writer, fate, foreign, restarts>>,
           \/ step = "begin" /\ task[t].at = "before"
           \/ step = "claim" /\ task[t].at = "claim_snapshot"
           \/ step = "respond_overlay" /\ task[t].at = "respond"
    PROVE  IInv'
<1> DEFINE snapshot == refs[task[t].project]
           c == [task[t] EXCEPT !.snapshot = snapshot, !.at = step]
<1>0. /\ step \in Inside /\ step \in Steps /\ task[t].at \in Inside /\ Fits(t)
      /\ task \in [Threads -> Tasks] /\ refs \in [Projects -> Snapshots]
  BY DEF Steps, Inside, BeginSteps, DecideSteps, IInv, TypeOK
<1>a. /\ task[t].project \in Projects /\ task[t].session \in Sessions
      /\ task[t] \in Tasks /\ snapshot \in Snapshots
  BY <1>0, InsideFits
<1>1. /\ c \in Tasks /\ c.at = step /\ c.project = task[t].project
      /\ c.session = task[t].session /\ c.review = task[t].review
      /\ c.snapshot = snapshot
  BY <1>0, <1>a DEF Tasks
<1>2. task' = [task EXCEPT ![t] = c] /\ task'[t] = c
  BY <1>0 DEF capture_snapshot
<1> HIDE DEF c
<1>3. Carries(t)'
  BY <1>0, <1>a, <1>1, <1>2 DEF Fits, Carries
<1>4. Owns(t)'
  BY <1>0, <1>1, <1>2
  DEF Fits, Owns, EntryOf, Inside, BeginSteps, DecideSteps, WorkSteps, HandleSteps
<1>5. Knows(t)'
  <2>1. snapshot[task[t].session].decision.event \in Nat
    BY <1>a, EventIsNat
  <2>2. /\ Fate(t)' = Fate(t)
        /\ Live(t)'.decision.event = c.snapshot[c.session].decision.event
    BY <1>1, <1>2 DEF Fate, Live
  <2>3. c.snapshot[c.session].decision.event <= Live(t)'.decision.event
    <3>1. c.snapshot[c.session].decision.event \in Nat
      BY <1>1, <2>1
    <3> QED BY <2>2, <3>1, SameEvent
  <2>4. step = "begin" => Fate(t)' \notin Open
    BY <1>0, <2>2 DEF Fits, Knows
  <2> QED BY <1>1, <1>2, <2>3, <2>4 DEF Knows
<1>6. Fits(t)'
  BY <1>3, <1>4, <1>5 DEF Fits
<1> QED BY <1>0, <1>1, <1>2, <1>6, Onward
        DEF Inside, BeginSteps, DecideSteps, WorkSteps, HandleSteps

\* The Refs are compared with the snapshot, or with the receipt.  A begin that
\* finds its snapshot unchanged has published nothing.
LEMMA CompareStep ==
    ASSUME IInv, NEW t \in Threads, settle_failed_begin(t) \/ recheck_after_error(t)
    PROVE  IInv'
<1> DEFINE step == IF task[t].at = "settle" THEN "settle_entry" ELSE "restore"
<1>0. /\ UNCHANGED <<refs, entries, issued, writer, fate, foreign, restarts>>
      /\ task[t].at \in {"settle", "recheck"}
      /\ task[t].at \in Inside /\ step \in Inside /\ step \in Steps /\ Fits(t)
      /\ task \in [Threads -> Tasks]
  BY DEF settle_failed_begin, recheck_after_error, RefsStay, Steps, Inside,
         BeginSteps, DecideSteps, IInv, TypeOK
<1>1. PICK agrees \in BOOLEAN :
        /\ task' = [task EXCEPT ![t] = [@ EXCEPT !.agrees = agrees, !.at = step]]
        /\ task[t].at = "settle" /\ agrees =>
              task[t].snapshot[task[t].session] = Live(t)
  BY DEF settle_failed_begin, recheck_after_error
<1> DEFINE c == [task[t] EXCEPT !.agrees = agrees, !.at = step]
<1>2. /\ c \in Tasks /\ c.at = step /\ c.project = task[t].project
      /\ c.session = task[t].session /\ c.review = task[t].review
      /\ c.agrees = agrees
  BY <1>0 DEF Tasks
<1>3. task' = [task EXCEPT ![t] = c] /\ task'[t] = c
  BY <1>0, <1>1
<1> HIDE DEF c
<1>4. Carries(t)'
  BY <1>0, <1>2, <1>3 DEF Fits, Carries
<1>5. Owns(t)'
  BY <1>0, <1>2, <1>3, SMTT(30)
  DEF Fits, Owns, EntryOf, Inside, BeginSteps, DecideSteps, WorkSteps, HandleSteps
<1>6. Knows(t)'
  <2>1. Fate(t)' = Fate(t)
    BY <1>0, <1>2, <1>3 DEF Fate
  <2>2. ASSUME task[t].at = "settle", agrees PROVE Fate(t) \notin Open
    <3>1. Live(t).decision.event \in Nat
      BY <1>0, InsideFits, EventIsNat DEF Live, IInv, TypeOK
    <3> QED BY <1>0, <1>1, <2>2, <3>1, SMTT(30) DEF Fits, Knows
  <2> QED BY <1>0, <1>2, <1>3, <2>1, <2>2 DEF Fits, Knows
<1>7. Fits(t)'
  BY <1>4, <1>5, <1>6 DEF Fits
<1> QED BY <1>0, <1>2, <1>3, <1>7, Onward
        DEF Inside, BeginSteps, DecideSteps, WorkSteps, HandleSteps

\* A call that works on its entry finds it under its own project and session.
LEMMA OwnsNamed ==
    ASSUME IInv, NEW t \in Threads,
           task[t].at \in WorkSteps \cup HandleSteps \cup {"consume_committed"}
    PROVE  /\ Named(t) /\ task[t].at \in Inside
           /\ task[t].at \in WorkSteps => IsReserved(task[t].review)
           /\ task[t].at \in HandleSteps => entries[task[t].review].state = "deciding"
<1>1. task[t].at \in Inside
  BY DEF Inside, BeginSteps, DecideSteps, WorkSteps, HandleSteps
<1>2. Owns(t)
  BY DEF IInv, Fits
<1>3. PICK state \in States :
         /\ entries[task[t].review] = EntryOf(t, state)
         /\ task[t].at \in WorkSteps => state = "reserved"
         /\ task[t].at \in HandleSteps => state = "deciding"
  BY <1>2 DEF Owns, States, WorkSteps, HandleSteps
<1>4. EntryOf(t, state) \in Entry
  BY <1>1, InsideFits DEF EntryOf, Entry
<1> QED BY <1>1, <1>3, <1>4, LocalServiceAssumption, SMTT(30)
        DEF Named, EntryOf, IsReserved

\* A call ends and leaves its entry ready, or outcome_unknown.
LEMMA EndSet ==
    ASSUME IInv, NEW t \in Threads, task[t].at \in Inside, Named(t), Return(t),
           NEW state \in {"ready", "outcome_unknown"},
           entries' = SetState(task[t].review, state),
           state = "ready" => Fate(t) = "began", issued' = issued, RefsStay
    PROVE  IInv'
<1> DEFINE r == task[t].review
           e == [entries[r] EXCEPT !.state = state]
<1>0. r \in Reviews /\ entries \in [Reviews -> Entry \cup {None}] /\ entries[r] # None
  BY InsideFits DEF IInv, TypeOK, Named
<1>1. entries' = [entries EXCEPT ![r] = e]
  BY <1>0 DEF SetState
<1>2. /\ e \in Entry /\ e.project = task[t].project /\ e.session = task[t].session
      /\ e.state = state
  BY <1>0 DEF Entry, States, Named
<1> HIDE DEF e
<1>3. /\ entries' \in [Reviews -> Entry \cup {None}] /\ entries'[r] = e
      /\ \A q \in Reviews : q # r => entries'[q] = entries[q]
  BY <1>0, <1>1, <1>2
<1>4. \A q \in Reviews : Mine(t, q) <=> q = r
  BY DEF Mine
<1>5. e # None
  BY <1>2, LocalServiceAssumption
<1> QED BY <1>2, <1>3, <1>4, <1>5, EndStep DEF RefsStay

\* A call ends and takes its entry away: its session is not open.
LEMMA EndRemove ==
    ASSUME IInv, NEW t \in Threads, task[t].at \in Inside, Named(t), Return(t),
           entries' = Remove(task[t].review), Fate(t) \notin Open,
           issued' = issued, RefsStay
    PROVE  IInv'
<1> DEFINE r == task[t].review
<1>0. r \in Reviews /\ entries \in [Reviews -> Entry \cup {None}]
  BY InsideFits DEF IInv, TypeOK
<1>1. /\ entries' \in [Reviews -> Entry \cup {None}] /\ entries'[r] = None
      /\ \A q \in Reviews : q # r => entries'[q] = entries[q]
  BY <1>0 DEF Remove
<1>2. \A q \in Reviews : Mine(t, q) <=> q = r
  BY DEF Mine
<1> QED BY <1>1, <1>2, EndStep DEF RefsStay

\* A call ends that does not work on an entry and leaves the registry alone.
LEMMA EndPlain ==
    ASSUME IInv, NEW t \in Threads, task[t].at \notin WorkSteps \cup HandleSteps,
           task[t].at # "reserve", Return(t), entries' = entries,
           issued' = issued, RefsStay
    PROVE  IInv'
<1>0. entries \in [Reviews -> Entry \cup {None}]
  BY DEF IInv, TypeOK
<1>1. ASSUME NEW r \in Reviews, Mine(t, r), entries[r] # None
      PROVE  /\ Named(t)
             /\ entries[r].project = task[t].project
             /\ entries[r].session = task[t].session
             /\ entries[r].state \in {"ready", "outcome_unknown"}
             /\ entries[r].state = "ready" => Fate(t) = "began"
  <2>1. task[t].at \in Inside /\ Named(t) /\ r = task[t].review
    BY <1>1 DEF Mine
  <2>2. entries[r].state \in {"ready", "outcome_unknown"}
    BY <2>1, Settled
  <2>3. EntryFits(r)
    BY DEF IInv
  <2> QED BY <1>1, <2>1, <2>2, <2>3 DEF Named, EntryFits, Fate
<1>2. ASSUME NEW r \in Reviews, Mine(t, r), Named(t) PROVE entries[r] # None
  BY <1>2 DEF Mine, Named
<1> QED BY <1>0, <1>1, <1>2, EndStep DEF RefsStay

\* A failed or finished call keeps the invariant.
LEMMA EndsIInv ==
    ASSUME IInv, NEW t \in Threads,
           \/ core_begin_panics(t) \/ settle_entry(t) \/ core_decide_unknown(t)
           \/ restore_ready_after_error(t) \/ consume_deciding(t)
           \/ consume_committed(t)
    PROVE  IInv'
<1>1. task[t].at \in WorkSteps \cup HandleSteps \cup {"consume_committed"}
  BY DEF core_begin_panics, settle_entry, core_decide_unknown,
         restore_ready_after_error, consume_deciding, consume_committed,
         WorkSteps, HandleSteps
<1>2. /\ Named(t) /\ task[t].at \in Inside
      /\ task[t].at \in WorkSteps => IsReserved(task[t].review)
      /\ task[t].at \in HandleSteps => entries[task[t].review].state = "deciding"
  BY <1>1, OwnsNamed
<1>3. Knows(t)
  BY DEF IInv, Fits
<1>4. CASE core_begin_panics(t) \/ core_decide_unknown(t)
  BY <1>2, <1>4, EndSet DEF core_begin_panics, core_decide_unknown
<1>5. CASE settle_entry(t)
  <2>1. CASE task[t].agrees
    <3>1. Fate(t) \notin Open
      BY <1>3, <1>5, <2>1 DEF settle_entry, Knows
    <3>2. entries' = Remove(task[t].review)
      BY <1>2, <1>5, <2>1 DEF settle_entry, remove_reserved, WorkSteps
    <3> QED BY <1>2, <1>5, <3>1, <3>2, EndRemove DEF settle_entry
  <2>2. CASE ~task[t].agrees
    BY <1>2, <1>5, <2>2, EndSet DEF settle_entry
  <2> QED BY <2>1, <2>2
<1>6. CASE restore_ready_after_error(t)
  <2>1. Fate(t) = "began"
    BY <1>3, <1>6 DEF restore_ready_after_error, Knows
  <2>2. PICK state \in {"ready", "outcome_unknown"} :
           entries' = SetState(task[t].review, state)
    BY <1>6 DEF restore_ready_after_error
  <2> QED BY <1>2, <1>6, <2>1, <2>2, EndSet DEF restore_ready_after_error
<1>7. CASE consume_deciding(t) \/ consume_committed(t)
  <2>1. Fate(t) \notin Open
    BY <1>3, <1>7 DEF consume_deciding, consume_committed, Knows, Open
  <2>2. entries' = Remove(task[t].review) /\ Return(t)
    BY <1>2, <1>7 DEF consume_deciding, consume_committed, HandleSteps
  <2> QED BY <1>2, <1>7, <2>1, <2>2, EndRemove
          DEF consume_deciding, consume_committed
<1> QED BY <1>4, <1>5, <1>6, <1>7

\* A new call keeps the invariant: a begin takes an id that is in no entry.
LEMMA CallIInv ==
    ASSUME IInv, NEW t \in Threads, Call(t)
    PROVE  IInv'
<1>0. /\ Types /\ Idle \in Tasks /\ Idle.at = "idle" /\ task[t] = Idle
      /\ "idle" \notin Inside \cup WorkSteps \cup HandleSteps
  BY DEF IInv, TypeOK, Types, Idle, Tasks, Steps, Inside, BeginSteps, DecideSteps,
         WorkSteps, HandleSteps, Call, read_snapshot, begin_creator_session,
         decide_creator_session, Start
<1>1. ASSUME NEW p \in Projects, read_snapshot(t, p) PROVE IInv'
  <2> DEFINE c == [Idle EXCEPT !.at = "overlay", !.project = p, !.snapshot = refs[p]]
  <2>1. c \in Tasks /\ c.at = "overlay" /\ c.project = p /\ c.snapshot \in Snapshots
    BY <1>0 DEF Idle, Tasks, Types, Steps
  <2>2. task' = [task EXCEPT ![t] = c] /\ task'[t] = c
    BY <1>0, <1>1 DEF read_snapshot, Types
  <2> HIDE DEF c
  <2>3. Fits(t)'
    BY <2>1, <2>2
    DEF Fits, Carries, Owns, Knows, Inside, BeginSteps, DecideSteps, WorkSteps,
        HandleSteps
  <2>4. UNCHANGED <<refs, entries, issued, writer, fate, foreign, restarts>>
    BY <1>1 DEF read_snapshot, RefsStay
  <2> QED BY <1>0, <2>1, <2>2, <2>3, <2>4, Onward
<1>2. ASSUME NEW p \in Projects, NEW s \in Sessions, NEW r \in Reviews,
             NEW step \in {"lock_begin", "lock_decide"}, Start(t, step, p, s, r)
      PROVE  \E c \in Tasks : /\ task' = [task EXCEPT ![t] = c] /\ task'[t] = c
                              /\ c.at = step /\ c.project = p /\ c.session = s
                              /\ c.review = r
  <2> DEFINE c == [Idle EXCEPT !.at = step, !.project = p, !.session = s, !.review = r]
  <2>1. c \in Tasks /\ c.at = step /\ c.project = p /\ c.session = s /\ c.review = r
    BY <1>0 DEF Idle, Tasks, Steps
  <2>2. task' = [task EXCEPT ![t] = c] /\ task'[t] = c
    BY <1>0, <1>2 DEF Start, Types
  <2> HIDE DEF c
  <2> QED BY <2>1, <2>2
<1>3. ASSUME NEW p \in Projects, NEW s \in Sessions, NEW r \in Reviews,
             decide_creator_session(t, p, s, r)
      PROVE  IInv'
  <2>1. PICK c \in Tasks : /\ task' = [task EXCEPT ![t] = c] /\ task'[t] = c
                           /\ c.at = "lock_decide" /\ c.project = p /\ c.session = s
                           /\ c.review = r
    BY <1>2, <1>3, SMTT(30) DEF decide_creator_session
  <2>2. Fits(t)'
    BY <2>1
    DEF Fits, Carries, Owns, Knows, Inside, BeginSteps, DecideSteps, WorkSteps,
        HandleSteps
  <2> QED BY <1>0, <1>3, <2>1, <2>2, Onward DEF decide_creator_session, RefsStay
<1>4. ASSUME NEW p \in Projects, NEW s \in Sessions, NEW r \in Reviews,
             begin_creator_session(t, p, s, r)
      PROVE  IInv'
  <2>1. PICK c \in Tasks : /\ task' = [task EXCEPT ![t] = c] /\ task'[t] = c
                           /\ c.at = "lock_begin" /\ c.project = p /\ c.session = s
                           /\ c.review = r
    BY <1>2, <1>4, SMTT(30) DEF begin_creator_session
  <2>2. /\ r \notin issued /\ issued' = issued \cup {r}
        /\ UNCHANGED <<refs, entries, writer, fate, foreign, restarts>>
    BY <1>4 DEF begin_creator_session, RefsStay
  <2>3. entries[r] = None
    BY <2>2 DEF IInv, EntryFits
  <2>4. Fits(t)'
    <3>1. /\ task'[t].at = "lock_begin" /\ task'[t].project = p
          /\ task'[t].session = s /\ task'[t].review = r
      BY <2>1
    <3>2. r \in issued' /\ entries'[r] = None
      BY <2>2, <2>3
    <3> QED BY <3>1, <3>2
            DEF Fits, Carries, Owns, Knows, Inside, BeginSteps, DecideSteps, WorkSteps,
                HandleSteps
  <2>5. Types'
    BY <1>0, <2>1, <2>2 DEF Types
  <2>6. Steady(t)
    <3>1. ASSUME NEW q \in Projects, NEW x \in Sessions
          PROVE  refs[q][x].decision.event <= refs'[q][x].decision.event
      BY <1>0, <2>2, EventIsNat, SMTT(30) DEF Types
    <3>2. /\ \A u \in Threads : u # t => task'[u] = task[u]
          /\ refs' \in [Projects -> Snapshots]
      BY <1>0, <2>1, <2>2 DEF Types
    <3> QED BY <2>2, <3>1, <3>2 DEF Steady
  <2>7. FreshId(t) /\ FreshEntry(t) /\ \A q \in Reviews : ~Mine(t, q)
    BY <1>0, <2>1, <2>2 DEF FreshId, FreshEntry, Mine
  <2>8. \A q \in Projects : writer'[q] # t
    BY <1>0, <2>2, LocalServiceAssumption DEF IInv, WriterFits
  <2> QED BY <1>0, <2>4, <2>5, <2>6, <2>7, <2>8, ThreadStep
<1> QED BY <1>1, <1>3, <1>4 DEF Call

\* Taking the writer mutex keeps the invariant: nobody is inside.
LEMMA AcquireIInv ==
    ASSUME IInv, NEW t \in Threads, acquire_project_writer(t)
    PROVE  IInv'
<1> DEFINE step == IF task[t].at = "lock_begin" THEN "reserve" ELSE "claim_snapshot"
           p == task[t].project
<1>0. /\ Types /\ Fits(t) /\ task[t].at \in {"lock_begin", "lock_decide"}
      /\ step \in Inside /\ step \in Steps
      /\ task[t].at \notin Inside \cup WorkSteps \cup HandleSteps
  BY DEF acquire_project_writer, IInv, TypeOK, Types, Inside, Steps, BeginSteps,
         DecideSteps, WorkSteps, HandleSteps
<1>1. PICK c \in Tasks :
              /\ task' = [task EXCEPT ![t] = c] /\ task'[t] = c
              /\ c.at = step /\ c.project = task[t].project
              /\ c.session = task[t].session /\ c.review = task[t].review
              /\ c.snapshot = task[t].snapshot /\ c.agrees = task[t].agrees
  BY <1>0, GotoFields, SMTT(30) DEF acquire_project_writer
<1>2. /\ p \in Projects /\ writer[p] = None /\ writer' = [writer EXCEPT ![p] = t]
      /\ UNCHANGED <<refs, entries, issued, fate, foreign, restarts>>
  BY <1>0 DEF acquire_project_writer, Fits, Carries, RefsStay
<1>3. Fits(t)'
  <2>1. Carries(t)'
    BY <1>0, <1>1 DEF Fits, Carries
  <2>2. Owns(t)'
    BY <1>0, <1>1, <1>2
    DEF Fits, Owns, Types, BeginSteps, DecideSteps, WorkSteps, HandleSteps
  <2>3. Knows(t)'
    BY <1>0, <1>1 DEF Knows
  <2> QED BY <2>1, <2>2, <2>3 DEF Fits
<1>4. Types'
  BY <1>0, <1>1, <1>2 DEF Types
<1>5. Steady(t)
  <2>1. ASSUME NEW q \in Projects, NEW x \in Sessions
        PROVE  refs[q][x].decision.event <= refs'[q][x].decision.event
    BY <1>0, <1>2, EventIsNat, SameEvent DEF Types
  <2> QED BY <1>0, <1>1, <1>2, <2>1 DEF Steady, Types
<1>6. FreshId(t) /\ FreshEntry(t) /\ \A q \in Reviews : ~Mine(t, q)
  BY <1>0, <1>1 DEF FreshId, FreshEntry, Mine
<1>7. ASSUME NEW q \in Projects, writer'[q] = t
      PROVE  task'[t].at \in Inside /\ task'[t].project = q
  <2>1. writer[q] # t
    BY <1>0, LocalServiceAssumption DEF IInv, WriterFits
  <2> QED BY <1>0, <1>1, <1>2, <1>7, <2>1 DEF Types
<1> QED BY <1>0, <1>3, <1>4, <1>5, <1>6, <1>7, ThreadStep

\* A step inside the mutex that rewrites its own entry and goes on.
LEMMA EntryStep ==
    ASSUME IInv, NEW t \in Threads, task[t].at \in Inside,
           NEW step \in Inside, step # "reserve", Goto(t, step),
           NEW state \in States, Named(t) \/ task[t].at = "reserve",
           entries' = [entries EXCEPT ![task[t].review] = EntryOf(t, state)],
           Fits(t)', FreshEntry(t),
           state = "ready" => Fate(t) = "began",
           state = "reserved" => step \in WorkSteps,
           state = "deciding" => step \in HandleSteps,
           UNCHANGED <<issued, writer>>, RefsStay
    PROVE  IInv'
<1> DEFINE r == task[t].review
           e == EntryOf(t, state)
<1>0. /\ Types /\ Fits(t) /\ r \in Reviews /\ task[t].project \in Projects
      /\ task[t].session \in Sessions /\ writer[task[t].project] = t /\ t # None
      /\ step \in Steps
  BY InsideFits DEF IInv, TypeOK, Types, Inside, Steps
<1>1. PICK c \in Tasks :
              /\ task' = [task EXCEPT ![t] = c] /\ task'[t] = c
              /\ c.at = step /\ c.project = task[t].project
              /\ c.session = task[t].session /\ c.review = task[t].review
              /\ c.snapshot = task[t].snapshot /\ c.agrees = task[t].agrees
  BY <1>0, GotoFields
<1>2. /\ e \in Entry /\ e.project = task[t].project /\ e.session = task[t].session
      /\ e.state = state
  BY <1>0 DEF EntryOf, Entry
<1> HIDE DEF e
<1>3. /\ entries' \in [Reviews -> Entry \cup {None}] /\ entries'[r] = e
      /\ \A q \in Reviews : q # r => entries'[q] = entries[q]
  BY <1>0, <1>2 DEF Types, e
<1>4. \A q \in Reviews : Mine(t, q) <=> q = r
  BY DEF Mine
<1>5. Types'
  BY <1>0, <1>1, <1>3 DEF Types, RefsStay
<1>6. Steady(t)
  <2>1. ASSUME NEW q \in Projects, NEW x \in Sessions
        PROVE  refs[q][x].decision.event <= refs'[q][x].decision.event
    BY <1>0, EventIsNat, SameEvent DEF Types, RefsStay
  <2>2. /\ \A u \in Threads : u # t => task'[u] = task[u]
        /\ refs' \in [Projects -> Snapshots]
    BY <1>0, <1>1 DEF Types, RefsStay
  <2> QED BY <1>3, <1>4, <2>1, <2>2 DEF Steady, RefsStay
<1>7. FreshId(t)
  BY <1>1 DEF FreshId, Inside, BeginSteps, DecideSteps
<1>8. ASSUME NEW q \in Projects, writer'[q] = t
      PROVE  task'[t].at \in Inside /\ task'[t].project = q
  BY <1>0, <1>1, <1>8 DEF IInv, WriterFits
<1>9. ASSUME NEW q \in Reviews, q = r PROVE EntryFits(q)'
  <2>1. q \in issued
    <3>1. CASE Named(t)
      BY <1>0, <1>9, <3>1 DEF Named, IInv, EntryFits
    <3>2. CASE task[t].at = "reserve"
      BY <1>0, <1>9, <3>2 DEF Fits, Owns
    <3> QED BY <3>1, <3>2
  <2>2. /\ entries'[q].project = task[t].project
        /\ entries'[q].session = task[t].session /\ entries'[q].state = state
    BY <1>2, <1>3, <1>9
  <2>3. writer'[entries'[q].project] = t
    BY <1>0, <2>2
  <2>4. state = "ready" => fate'[entries'[q].project][entries'[q].session] = "began"
    BY <2>2 DEF RefsStay, Fate
  <2> QED BY <1>0, <1>1, <1>9, <2>1, <2>2, <2>3, <2>4 DEF EntryFits
<1>10. ASSUME NEW p \in Projects, NEW s \in Sessions,
              p = task[t].project, s = task[t].session
       PROVE  SessionFits(p, s)'
  BY <1>0, <1>2, <1>3, <1>10, LocalServiceAssumption DEF SessionFits
<1> QED BY <1>4, <1>5, <1>6, <1>7, <1>8, <1>9, <1>10, ThreadStep

\* SetState writes the entry of the call that is named by it.
LEMMA NamedSet ==
    ASSUME IInv, NEW t \in Threads, task[t].at \in Inside, Named(t), NEW state \in States
    PROVE  SetState(task[t].review, state)
              = [entries EXCEPT ![task[t].review] = EntryOf(t, state)]
<1> DEFINE r == task[t].review
<1>1. /\ r \in Reviews /\ entries[r] # None /\ entries[r] \in Entry
      /\ entries[r].project = task[t].project
      /\ entries[r].session = task[t].session
  BY InsideFits DEF IInv, TypeOK, Named
<1>2. [entries[r] EXCEPT !.state = state] = EntryOf(t, state)
  BY <1>1, SMTT(30) DEF Entry, EntryOf
<1> QED BY <1>1, <1>2 DEF SetState

\* The entry a call has written is there for its next step.
LEMMA WrittenFits ==
    ASSUME IInv, NEW t \in Threads, task[t].at \in Inside,
           NEW step \in Inside, Goto(t, step), NEW state \in States,
           entries' = [entries EXCEPT ![task[t].review] = EntryOf(t, state)],
           UNCHANGED <<issued, writer>>, RefsStay,
           \/ step = "before" /\ state = "reserved" /\ Fate(t) \notin Open
           \/ step = "respond" /\ state = "ready"
           \/ step = "decide" /\ state = "deciding" /\ Fate(t) = "began"
           \/ step = "consume_committed" /\ state = "outcome_unknown"
                 /\ Fate(t) = "known"
    PROVE  Fits(t)'
<1>0. /\ task[t].review \in Reviews /\ task[t].project \in Projects
      /\ task[t].session \in Sessions /\ writer[task[t].project] = t
      /\ step \in Steps /\ entries \in [Reviews -> Entry \cup {None}]
  BY InsideFits DEF IInv, TypeOK, Inside, Steps
<1>1. PICK c \in Tasks :
              /\ task' = [task EXCEPT ![t] = c] /\ task'[t] = c
              /\ c.at = step /\ c.project = task[t].project
              /\ c.session = task[t].session /\ c.review = task[t].review
              /\ c.snapshot = task[t].snapshot /\ c.agrees = task[t].agrees
  BY <1>0, GotoFields, SMTT(30)
<1>2. EntryOf(t, state)' = EntryOf(t, state) /\ Fate(t)' = Fate(t)
  BY <1>1 DEF EntryOf, Fate, RefsStay
<1>3. entries'[task[t].review] = EntryOf(t, state)
  BY <1>0
<1>4. Carries(t)'
  BY <1>0, <1>1 DEF Carries
<1>5. Owns(t)'
  <2>1. /\ step \notin {"lock_begin", "reserve"}
        /\ step \in WorkSteps => state = "reserved"
        /\ step \in HandleSteps => state = "deciding"
        /\ step = "consume_committed" => state = "outcome_unknown"
    BY DEF WorkSteps, HandleSteps
  <2>2. /\ EntryOf(t, "reserved")' = EntryOf(t, "reserved")
        /\ EntryOf(t, "deciding")' = EntryOf(t, "deciding")
        /\ EntryOf(t, "outcome_unknown")' = EntryOf(t, "outcome_unknown")
    BY <1>1 DEF EntryOf
  <2> QED BY <1>0, <1>1, <1>3, <2>1, <2>2 DEF Owns
<1>6. Knows(t)'
  BY <1>1, <1>2 DEF Knows
<1> QED BY <1>4, <1>5, <1>6 DEF Fits

\* Reserving a slot keeps the invariant: the session has no entry, so it is not
\* open.
LEMMA ReserveIInv ==
    ASSUME IInv, NEW t \in Threads, reserve(t)
    PROVE  IInv'
<1> DEFINE r == task[t].review
           p == task[t].project
           s == task[t].session
<1>0. /\ task[t].at = "reserve" /\ task[t].at \in Inside /\ Fits(t) /\ RefsStay
      /\ p \in Projects /\ s \in Sessions /\ r \in Reviews /\ entries[r] = None
      /\ "before" \in Inside /\ "before" \in WorkSteps /\ "reserved" \in States
      /\ entries \in [Reviews -> Entry \cup {None}]
  BY InsideFits
  DEF reserve, IInv, TypeOK, Fits, Owns, Inside, BeginSteps, WorkSteps, States
<1>1. CASE /\ Admits(p, s)
           /\ entries' = [entries EXCEPT ![r] =
                  [project |-> p, session |-> s, state |-> "reserved"]]
           /\ Goto(t, "before")
           /\ UNCHANGED <<issued, writer>>
  <2>1. \A q \in Reviews : entries[q] # None =>
           ~(entries[q].project = p /\ entries[q].session = s)
    BY <1>1 DEF Admits, Retained, RetainedIn
  <2>2. Fate(t) \notin Open
    BY <1>0, <2>1, SMTT(30) DEF IInv, SessionFits, Fate
  <2>3. entries' = [entries EXCEPT ![r] = EntryOf(t, "reserved")]
    BY <1>1 DEF EntryOf
  <2>4. Fits(t)'
    BY <1>0, <1>1, <2>2, <2>3, WrittenFits
  <2>5. FreshEntry(t)
    <3>1. entries'[r] = EntryOf(t, "reserved")
      BY <1>0, <2>3
    <3>2. entries'[r].project = p /\ entries'[r].session = s
      BY <3>1, SMTT(30) DEF EntryOf
    <3> QED BY <1>1, <3>2 DEF FreshEntry, Mine
  <2>6. /\ "before" # "reserve" /\ "reserved" # "ready" /\ "reserved" # "deciding"
    OBVIOUS
  <2> QED BY <1>0, <1>1, <2>3, <2>4, <2>5, <2>6, EntryStep
<1>2. CASE issued' = issued \ {r} /\ Return(t) /\ entries' = entries
  <2>1. \A q \in Reviews : Mine(t, q) => q = r
    BY DEF Mine
  <2>2. ~Named(t)
    BY <1>0 DEF Named
  <2> QED BY <1>0, <1>2, <2>1, <2>2, EndStep DEF RefsStay
<1> QED BY <1>1, <1>2 DEF reserve

\* The rest of a begin keeps the invariant.
LEMMA BeginIInv ==
    ASSUME IInv, NEW t \in Threads,
           \/ capture_before(t) \/ core_begin_checks(t) \/ core_begin_fails(t)
           \/ fill_ready(t) \/ begin_responds(t)
    PROVE  IInv'
<1>0. Fits(t) /\ Owns(t) /\ Knows(t)
  BY DEF IInv, Fits
<1>1. CASE capture_before(t)
  <2>1. task[t].at = "before" /\ UNCHANGED issued /\ RefsStay
    BY <1>1 DEF capture_before
  <2>2. CASE capture_snapshot(t, "begin") /\ UNCHANGED <<entries, writer>>
    BY <2>1, <2>2, CaptureStep DEF RefsStay
  <2>3. CASE entries' = remove_reserved(task[t].review) /\ Return(t)
    <3>1. Named(t) /\ task[t].at \in Inside /\ IsReserved(task[t].review)
      BY <2>1, OwnsNamed DEF WorkSteps
    <3>2. Fate(t) \notin Open
      BY <1>0, <2>1 DEF Knows
    <3> QED BY <2>1, <2>3, <3>1, <3>2, EndRemove DEF remove_reserved
  <2> QED BY <1>1, <2>2, <2>3 DEF capture_before
<1>2. CASE core_begin_checks(t)
  BY <1>2, CoreMoves DEF core_begin_checks, RefsStay
<1>3. CASE core_begin_fails(t)
  BY <1>3, CoreMoves DEF core_begin_fails, RefsStay
<1>4. CASE fill_ready(t)
  <2>1. /\ task[t].at = "fill" /\ UNCHANGED issued /\ RefsStay
        /\ task[t].at \in WorkSteps /\ "respond" \in Inside /\ "ready" \in States
    BY <1>4 DEF fill_ready, WorkSteps, Inside, BeginSteps, States
  <2>2. Named(t) /\ task[t].at \in Inside /\ IsReserved(task[t].review)
    BY <2>1, OwnsNamed
  <2>3. /\ entries' = [entries EXCEPT ![task[t].review] = EntryOf(t, "ready")]
        /\ Goto(t, "respond") /\ UNCHANGED writer
    BY <1>4, <2>1, <2>2, NamedSet DEF fill_ready
  <2>4. Fits(t)'
    BY <2>1, <2>2, <2>3, WrittenFits
  <2>5. FreshEntry(t)
    <3>1. entries'[task[t].review] = EntryOf(t, "ready")
      BY <2>2, <2>3, InsideFits DEF IInv, TypeOK
    <3>2. /\ entries'[task[t].review].project = task[t].project
          /\ entries'[task[t].review].session = task[t].session
      BY <3>1, SMTT(30) DEF EntryOf
    <3> QED BY <2>2, <3>2 DEF FreshEntry, Mine
  <2>6. Fate(t) = "began"
    BY <1>0, <2>1 DEF Knows
  <2> QED BY <2>1, <2>2, <2>3, <2>4, <2>5, <2>6, EntryStep
<1>5. CASE begin_responds(t)
  <2>1. /\ task[t].at = "respond" /\ UNCHANGED <<entries, issued>> /\ RefsStay
        /\ task[t].at \notin WorkSteps \cup HandleSteps
    BY <1>5 DEF begin_responds, WorkSteps, HandleSteps
  <2>2. CASE capture_snapshot(t, "respond_overlay") /\ UNCHANGED writer
    BY <2>1, <2>2, CaptureStep DEF RefsStay
  <2>3. CASE Return(t)
    BY <2>1, <2>3, EndPlain
  <2> QED BY <1>5, <2>2, <2>3 DEF begin_responds
<1> QED BY <1>1, <1>2, <1>3, <1>4, <1>5

\* The overlay of a read keeps the invariant: it gives up ready entries only.
LEMMA OverlayIInv ==
    ASSUME IInv, NEW t \in Threads, overlay(t)
    PROVE  IInv'
<1>0. /\ task[t].at \in {"overlay", "respond_overlay"} /\ Return(t)
      /\ issued' = issued /\ RefsStay
      /\ task[t].at \notin WorkSteps \cup HandleSteps /\ task[t].at # "reserve"
      /\ entries \in [Reviews -> Entry \cup {None}] /\ None \notin Entry
  BY LocalServiceAssumption DEF overlay, WorkSteps, HandleSteps, IInv, TypeOK
<1>1. ASSUME NEW r \in Reviews
      PROVE  \/ entries'[r] = entries[r]
             \/ /\ entries[r] # None /\ entries[r].state = "ready"
                /\ entries'[r] = [entries[r] EXCEPT !.state = "outcome_unknown"]
  BY DEF overlay, ready_pending
<1>2. DOMAIN entries' = Reviews /\ entries' = [r \in Reviews |-> entries'[r]]
  BY DEF overlay, ready_pending
<1>3. ASSUME NEW r \in Reviews, entries[r] # None
      PROVE  /\ entries'[r] \in Entry
             /\ entries'[r].project = entries[r].project
             /\ entries'[r].session = entries[r].session
             /\ \/ entries'[r].state = entries[r].state
                \/ entries'[r].state = "outcome_unknown"
  <2>1. entries[r] \in Entry
    BY <1>0, <1>3
  <2>2. CASE entries'[r] = entries[r]
    BY <2>1, <2>2
  <2>3. CASE entries'[r] = [entries[r] EXCEPT !.state = "outcome_unknown"]
    BY <2>1, <2>3 DEF Entry, States
  <2> QED BY <1>1, <2>2, <2>3
<1>4. entries' \in [Reviews -> Entry \cup {None}]
  BY <1>1, <1>2, <1>3, SMTT(30)
<1>5. ASSUME NEW r \in Reviews, Mine(t, r)
      PROVE  /\ Named(t) /\ entries'[r] # None
             /\ entries'[r].project = task[t].project
             /\ entries'[r].session = task[t].session
             /\ entries'[r].state \in {"ready", "outcome_unknown"}
             /\ entries'[r].state = "ready" => Fate(t) = "began"
  <2>1. task[t].at \in Inside /\ Named(t) /\ r = task[t].review
    BY <1>0, <1>5 DEF Mine
  <2>2. entries[r].state \in {"ready", "outcome_unknown"}
    BY <1>0, <2>1, Settled
  <2>3. EntryFits(r)
    BY DEF IInv
  <2>4. /\ entries[r] # None /\ entries[r].project = task[t].project
        /\ entries[r].session = task[t].session
    BY <2>1 DEF Named
  <2>5. entries'[r] # None
    BY <1>0, <1>3, <2>4
  <2> QED BY <1>3, <2>1, <2>2, <2>3, <2>4, <2>5 DEF EntryFits, Fate
<1> QED BY <1>0, <1>1, <1>4, <1>5, EndStep, SMTT(30) DEF RefsStay

\* A decide up to its publication keeps the invariant: it takes the handle out
\* of a ready entry, whose session is undecided.
LEMMA ClaimIInv ==
    ASSUME IInv, NEW t \in Threads,
           \/ capture_claim(t) \/ claim_ready(t) \/ core_decide_fails(t)
           \/ finish_decision(t)
    PROVE  IInv'
<1>0. Fits(t) /\ Owns(t) /\ Knows(t)
  BY DEF IInv, Fits
<1>1. CASE capture_claim(t)
  <2>1. /\ task[t].at = "claim_snapshot" /\ UNCHANGED <<entries, issued>> /\ RefsStay
        /\ task[t].at \notin WorkSteps \cup HandleSteps
    BY <1>1 DEF capture_claim, WorkSteps, HandleSteps
  <2>2. CASE capture_snapshot(t, "claim") /\ UNCHANGED writer
    BY <2>1, <2>2, CaptureStep DEF RefsStay
  <2>3. CASE Return(t)
    BY <2>1, <2>3, EndPlain
  <2> QED BY <1>1, <2>2, <2>3 DEF capture_claim
<1>2. CASE claim_ready(t)
  <2>1. /\ task[t].at = "claim" /\ UNCHANGED issued /\ RefsStay
        /\ task[t].at \in Inside /\ task[t].at \notin WorkSteps \cup HandleSteps
        /\ "decide" \in Inside /\ "decide" \in HandleSteps /\ "deciding" \in States
    BY <1>2 DEF claim_ready, WorkSteps, HandleSteps, Inside, BeginSteps,
                DecideSteps, States
  <2>2. CASE Return(t) /\ UNCHANGED entries
    BY <2>1, <2>2, EndPlain
  <2>3. CASE /\ Named(t) /\ Return(t)
             /\ entries' = SetState(task[t].review, "outcome_unknown")
    BY <2>1, <2>3, EndSet
  <2>4. CASE /\ Named(t) /\ entries[task[t].review].state = "ready"
             /\ entries' = SetState(task[t].review, "deciding")
             /\ Goto(t, "decide") /\ UNCHANGED writer
    <3>1. entries' = [entries EXCEPT ![task[t].review] = EntryOf(t, "deciding")]
      BY <2>1, <2>4, NamedSet
    <3>2. Fate(t) = "began"
      <4>1. task[t].review \in Reviews
        BY <2>1, InsideFits
      <4>2. EntryFits(task[t].review)
        BY <4>1 DEF IInv
      <4> QED BY <2>4, <4>2 DEF Named, EntryFits, Fate
    <3>3. Fits(t)'
      BY <2>1, <2>4, <3>1, <3>2, WrittenFits
    <3>4. FreshEntry(t)
      <4>1. entries'[task[t].review] = EntryOf(t, "deciding")
        BY <2>1, <3>1, InsideFits DEF IInv, TypeOK
      <4>2. /\ entries'[task[t].review].project = task[t].project
            /\ entries'[task[t].review].session = task[t].session
        BY <4>1, SMTT(30) DEF EntryOf
      <4> QED BY <2>4, <4>2 DEF FreshEntry, Mine
    <3> QED BY <2>1, <2>4, <3>1, <3>3, <3>4, EntryStep
  <2> QED BY <1>2, <2>2, <2>3, <2>4 DEF claim_ready
<1>3. CASE core_decide_fails(t)
  BY <1>3, CoreMoves DEF core_decide_fails, RefsStay
<1>4. CASE finish_decision(t)
  <2>1. /\ task[t].at = "finish" /\ UNCHANGED <<issued, writer>> /\ RefsStay
        /\ task[t].at \in HandleSteps /\ "consume_committed" \in Inside
        /\ "outcome_unknown" \in States
    BY <1>4 DEF finish_decision, HandleSteps, Inside, DecideSteps, States
  <2>2. CASE Goto(t, "consume") /\ UNCHANGED entries
    BY <2>1, <2>2, CoreMoves DEF RefsStay
  <2>3. CASE /\ entries' = SetState(task[t].review, "outcome_unknown")
             /\ Goto(t, "consume_committed")
    <3>1. Named(t) /\ task[t].at \in Inside
      BY <2>1, OwnsNamed
    <3>2. entries' = [entries EXCEPT ![task[t].review] = EntryOf(t, "outcome_unknown")]
      BY <2>1, <2>3, <3>1, NamedSet
    <3>3. Fate(t) = "known"
      BY <1>0, <2>1 DEF Knows
    <3>4. Fits(t)'
      BY <2>1, <2>3, <3>1, <3>2, <3>3, WrittenFits
    <3>5. FreshEntry(t)
      <4>1. entries'[task[t].review] = EntryOf(t, "outcome_unknown")
        BY <3>1, <3>2, InsideFits DEF IInv, TypeOK
      <4>2. /\ entries'[task[t].review].project = task[t].project
            /\ entries'[task[t].review].session = task[t].session
        BY <4>1, SMTT(30) DEF EntryOf
      <4> QED BY <3>1, <4>2 DEF FreshEntry, Mine
    <3> QED BY <2>1, <2>3, <3>1, <3>2, <3>4, <3>5, EntryStep
  <2> QED BY <1>4, <2>2, <2>3 DEF finish_decision
<1> QED BY <1>1, <1>2, <1>3, <1>4

-----------------------------------------------------------------------------
(* The publications *)

\* Moving a Ref counts an event; the other sessions' Refs stay.
LEMMA MoveRef ==
    ASSUME IInv, NEW p \in Projects, NEW s \in Sessions, NEW head \in Heads,
           \/ refs' = [refs EXCEPT ![p][s].decision = Moved(@, head)]
           \/ refs' = [refs EXCEPT ![p][s].proposal = Moved(@, head)]
    PROVE  /\ refs' \in [Projects -> Snapshots]
           /\ \A q \in Projects, x \in Sessions :
                 refs[q][x].decision.event <= refs'[q][x].decision.event
           /\ refs' = [refs EXCEPT ![p][s].decision = Moved(@, head)] =>
                 refs[p][s].decision.event < refs'[p][s].decision.event
<1>0. /\ refs \in [Projects -> [Sessions -> SessionRefs]]
      /\ refs[p] \in [Sessions -> SessionRefs] /\ refs[p][s] \in SessionRefs
      /\ refs[p][s].decision \in RefRow /\ refs[p][s].proposal \in RefRow
  BY SMTT(30) DEF IInv, TypeOK, Snapshots, SessionRefs
<1>1. \A row \in RefRow : /\ Moved(row, head) \in RefRow
                          /\ row.event < Moved(row, head).event
                          /\ row.event <= row.event
  BY SMTT(30) DEF RefRow, Moved
<1>2. ASSUME NEW pair \in SessionRefs, refs' = [refs EXCEPT ![p][s] = pair],
             refs[p][s].decision.event <= pair.decision.event
      PROVE  /\ refs' \in [Projects -> Snapshots] /\ refs'[p][s] = pair
             /\ \A q \in Projects, x \in Sessions :
                   refs[q][x].decision.event <= refs'[q][x].decision.event
  <2>1. refs' \in [Projects -> [Sessions -> SessionRefs]] /\ refs'[p][s] = pair
    BY <1>0, <1>2
  <2>2. ASSUME NEW q \in Projects, NEW x \in Sessions, ~(q = p /\ x = s)
        PROVE  refs'[q][x] = refs[q][x]
    BY <1>0, <1>2, <2>2
  <2>3. ASSUME NEW q \in Projects, NEW x \in Sessions
        PROVE  refs[q][x].decision.event \in Nat
    BY <1>0, EventIsNat DEF Snapshots
  <2> QED BY <1>2, <2>1, <2>2, <2>3, SMTT(30) DEF Snapshots
<1>3. CASE refs' = [refs EXCEPT ![p][s].decision = Moved(@, head)]
  <2> DEFINE pair == [refs[p][s] EXCEPT !.decision = Moved(@, head)]
  <2>1. refs' = [refs EXCEPT ![p][s] = pair]
    BY <1>0, <1>3
  <2>2. pair \in SessionRefs /\ pair.decision = Moved(refs[p][s].decision, head)
    BY <1>0, <1>1 DEF SessionRefs
  <2> HIDE DEF pair
  <2>3. refs[p][s].decision.event < pair.decision.event
        /\ refs[p][s].decision.event \in Nat /\ pair.decision.event \in Nat
    BY <1>0, <1>1, <2>2 DEF RefRow
  <2>4. refs[p][s].decision.event <= pair.decision.event
    BY <2>3, SMTT(30)
  <2>5. /\ refs' \in [Projects -> Snapshots] /\ refs'[p][s] = pair
        /\ \A q \in Projects, x \in Sessions :
              refs[q][x].decision.event <= refs'[q][x].decision.event
    BY <1>2, <2>1, <2>2, <2>4
  <2> QED BY <2>3, <2>5
<1>4. CASE refs' = [refs EXCEPT ![p][s].proposal = Moved(@, head)]
  <2> DEFINE pair == [refs[p][s] EXCEPT !.proposal = Moved(@, head)]
  <2>1. refs' = [refs EXCEPT ![p][s] = pair]
    BY <1>0, <1>4
  <2>2. pair \in SessionRefs /\ pair.decision = refs[p][s].decision
        /\ pair.proposal = Moved(refs[p][s].proposal, head)
    BY <1>0, <1>1 DEF SessionRefs
  <2> HIDE DEF pair
  <2>3. refs[p][s].decision.event <= pair.decision.event
    BY <1>0, <1>1, <2>2
  <2>4. refs' # [refs EXCEPT ![p][s].decision = Moved(@, head)]
    <3>1. [refs EXCEPT ![p][s].decision = Moved(@, head)][p][s].decision
             = Moved(refs[p][s].decision, head)
      BY <1>0 DEF SessionRefs
    <3>2. Moved(refs[p][s].decision, head).event # refs[p][s].decision.event
      BY <1>0, <1>1, SMTT(30) DEF RefRow
    <3>3. refs'[p][s] = pair
      BY <1>2, <2>1, <2>2, <2>3
    <3> QED BY <2>2, <3>1, <3>2, <3>3
  <2> QED BY <1>2, <2>1, <2>2, <2>3, <2>4
<1> QED BY <1>3, <1>4

\* A publication of a call that works on its entry keeps what the others have.
LEMMA PublishSteady ==
    ASSUME IInv, NEW t \in Threads, task[t].at \in WorkSteps \cup HandleSteps,
           refs' \in [Projects -> Snapshots],
           \A q \in Projects, x \in Sessions :
                 refs[q][x].decision.event <= refs'[q][x].decision.event,
           NEW f \in {"untouched", "began", "committed", "known"},
           fate' = [fate EXCEPT ![task[t].project][task[t].session] = f],
           \A u \in Threads : u # t => task'[u] = task[u],
           issued' = issued,
           UNCHANGED writer
              \/ writer' = [p \in Projects |-> IF writer[p] = t THEN None ELSE writer[p]],
           \A r \in Reviews : r # task[t].review => entries'[r] = entries[r]
    PROVE  /\ Steady(t)
           /\ fate' \in [Projects -> [Sessions -> {"untouched", "began", "committed", "known"}]]
           /\ fate'[task[t].project][task[t].session] = f
<1>0. /\ Named(t) /\ task[t].at \in Inside
      /\ task[t].project \in Projects /\ task[t].session \in Sessions
      /\ fate \in [Projects -> [Sessions -> {"untouched", "began", "committed", "known"}]]
  BY OwnsNamed, InsideFits DEF IInv, TypeOK
<1>1. \A q \in Projects, x \in Sessions :
         (q = task[t].project /\ x = task[t].session) \/ fate'[q][x] = fate[q][x]
  BY <1>0
<1>2. Steady(t)
  BY <1>0, <1>1 DEF Steady, Mine
<1> QED BY <1>0, <1>2

\* Publishing the base, the proposal and the Decision keeps the invariant: the
\* entry of the session is in flight, so nobody is offered it meanwhile, and a
\* Decision that was reported as an error leaves it outcome_unknown.
LEMMA PublicationIInv ==
    ASSUME IInv, NEW t \in Threads,
           initialize_decision_ref(t) \/ publish_proposal(t) \/ publish_decision(t)
    PROVE  IInv'
<1>a. task[t].at \in WorkSteps \cup HandleSteps
  BY DEF initialize_decision_ref, publish_proposal, publish_decision, WorkSteps,
         HandleSteps
<1>b. PICK p \in Projects, s \in Sessions, r \in Reviews :
         p = task[t].project /\ s = task[t].session /\ r = task[t].review
  BY <1>a, OwnsNamed, InsideFits
<1>0. /\ Types /\ Fits(t) /\ Named(t) /\ task[t].at \in Inside
      /\ writer[p] = t /\ t # None
      /\ \A q \in Reviews : Mine(t, q) <=> q = r
      /\ entries[r] # None /\ entries[r].project = p /\ entries[r].session = s
      /\ r \in issued
  BY <1>a, <1>b, OwnsNamed, InsideFits
  DEF IInv, TypeOK, Types, Mine, Named, EntryFits
<1>1. ASSUME NEW step, Goto(t, step),
             \/ task[t].at \in WorkSteps /\ step \in {"propose", "fill", "settle"}
             \/ task[t].at \in HandleSteps /\ step = "finish",
             Steady(t), UNCHANGED <<entries, issued, writer, foreign, restarts>>,
             fate' \in [Projects -> [Sessions -> {"untouched", "began", "committed", "known"}]],
             Knows(t)', step \in {"propose", "settle"} => task[t].snapshot \in Snapshots
      PROVE  IInv'
  <2>0. /\ step \in Inside /\ step \in Steps
        /\ step \notin {"lock_begin", "reserve", "consume_committed"}
        /\ task[t].at \in WorkSteps <=> step \in WorkSteps
        /\ task[t].at \in HandleSteps <=> step \in HandleSteps
    BY <1>1 DEF Inside, Steps, BeginSteps, DecideSteps, WorkSteps, HandleSteps
  <2>1. PICK c \in Tasks :
              /\ task' = [task EXCEPT ![t] = c] /\ task'[t] = c
              /\ c.at = step /\ c.project = task[t].project
              /\ c.session = task[t].session /\ c.review = task[t].review
              /\ c.snapshot = task[t].snapshot /\ c.agrees = task[t].agrees
    BY <1>1, <2>0, GotoFields
  <2>2. Types'
    BY <1>0, <1>1, <2>1 DEF Types, Steady
  <2>3. Fits(t)'
    <3>1. /\ EntryOf(t, "reserved")' = EntryOf(t, "reserved")
          /\ EntryOf(t, "deciding")' = EntryOf(t, "deciding")
      BY <2>1 DEF EntryOf
    <3>2. Carries(t)'
      BY <1>b, <1>1, <2>1 DEF Carries
    <3>3. Owns(t)'
      BY <1>0, <1>1, <1>b, <2>0, <2>1, <3>1 DEF Fits, Owns
    <3> QED BY <1>1, <3>2, <3>3 DEF Fits
  <2>4. FreshId(t) /\ FreshEntry(t)
    BY <1>0, <1>1, <1>b, <2>0, <2>1 DEF FreshId, FreshEntry
  <2>5. ASSUME NEW q \in Projects, writer'[q] = t
        PROVE  task'[t].at \in Inside /\ task'[t].project = q
    BY <1>0, <1>1, <2>0, <2>1, <2>5 DEF IInv, WriterFits
  <2>6. EntryFits(r)'
    <3>1. /\ task[t].at \in WorkSteps => entries[r].state = "reserved"
          /\ task[t].at \in HandleSteps => entries[r].state = "deciding"
      <4>1. /\ task[t].at \in WorkSteps => entries[r] = EntryOf(t, "reserved")
            /\ task[t].at \in HandleSteps => entries[r] = EntryOf(t, "deciding")
        BY <1>0, <1>b DEF Fits, Owns
      <4>2. /\ EntryOf(t, "reserved").state = "reserved"
            /\ EntryOf(t, "deciding").state = "deciding"
        BY DEF EntryOf
      <4> QED BY <4>1, <4>2
    <3> QED BY <1>0, <1>1, <1>a, <1>b, <2>0, <2>1, <3>1 DEF EntryFits
  <2>7. SessionFits(p, s)'
    BY <1>0, <1>1 DEF SessionFits
  <2> QED BY <1>0, <1>1, <1>b, <2>2, <2>3, <2>4, <2>5, <2>6, <2>7, ThreadStep
<1>2. CASE initialize_decision_ref(t)
  <2>1. /\ task[t].at = "initialize"
        /\ refs' = [refs EXCEPT ![p][s].decision = Moved(@, "base")]
        /\ fate' = [fate EXCEPT ![p][s] = "began"]
        /\ UNCHANGED <<entries, issued, writer, foreign, restarts>>
    BY <1>2, <1>b DEF initialize_decision_ref
  <2>2. PICK step \in {"propose", "settle"} : Goto(t, step)
    BY <1>2 DEF initialize_decision_ref
  <2>3. /\ refs' \in [Projects -> Snapshots]
        /\ \A q \in Projects, x \in Sessions :
              refs[q][x].decision.event <= refs'[q][x].decision.event
        /\ refs[p][s].decision.event < refs'[p][s].decision.event
    BY <2>1, MoveRef DEF Heads
  <2>4. \A u \in Threads : u # t => task'[u] = task[u]
    BY <1>0, <2>2 DEF Goto, Types
  <2>5. /\ Steady(t) /\ fate'[p][s] = "began"
        /\ fate' \in [Projects -> [Sessions -> {"untouched", "began", "committed", "known"}]]
    BY <1>a, <1>b, <2>1, <2>3, <2>4, PublishSteady
  <2>6. task'[t].at = step /\ task'[t].project = p /\ task'[t].session = s
        /\ task'[t].snapshot = task[t].snapshot
    <3>1. step \in Steps
      BY DEF Steps, BeginSteps
    <3> QED BY <1>b, <2>2, <3>1, GotoFields
  <2>7. task[t].snapshot \in Snapshots
    BY <1>0, <2>1 DEF Fits, Carries
  <2>8. task[t].snapshot[s].decision.event < refs'[p][s].decision.event
    <3>1. /\ task[t].snapshot[s].decision.event \in Nat
          /\ refs[p][s].decision.event \in Nat /\ refs'[p][s].decision.event \in Nat
      BY <1>0, <2>3, <2>7, EventIsNat DEF Types
    <3>2. task[t].snapshot[s].decision.event <= refs[p][s].decision.event
      BY <1>0, <1>b, <2>1 DEF Fits, Knows, Live
    <3>3. PICK i \in Nat, j \in Nat, k \in Nat :
             /\ i = task[t].snapshot[s].decision.event
             /\ j = refs[p][s].decision.event /\ k = refs'[p][s].decision.event
      BY <3>1
    <3>4. i <= j /\ j < k
      BY <2>3, <3>2, <3>3
    <3>5. i < k
      BY <3>4, SMTT(30)
    <3> QED BY <3>3, <3>5
  <2>9. Knows(t)'
    BY <2>5, <2>6, <2>8 DEF Knows, Fate, Live
  <2> QED BY <1>1, <2>1, <2>2, <2>5, <2>7, <2>9 DEF WorkSteps
<1>3. CASE publish_proposal(t)
  <2>1. /\ task[t].at = "propose"
        /\ refs' = [refs EXCEPT ![p][s].proposal = Moved(@, "proposed")]
        /\ UNCHANGED <<entries, issued, writer, fate, foreign, restarts>>
    BY <1>3, <1>b DEF publish_proposal
  <2>2. PICK step \in {"fill", "settle"} : Goto(t, step)
    BY <1>3 DEF publish_proposal
  <2>3. /\ refs' \in [Projects -> Snapshots]
        /\ \A q \in Projects, x \in Sessions :
              refs[q][x].decision.event <= refs'[q][x].decision.event
    BY <2>1, MoveRef DEF Heads
  <2>4. \A u \in Threads : u # t => task'[u] = task[u]
    BY <1>0, <2>2 DEF Goto, Types
  <2>5. fate[p][s] = "began"
    BY <1>0, <1>b, <2>1 DEF Fits, Knows, Fate
  <2>6. Steady(t)
    BY <1>0, <2>1, <2>3, <2>4 DEF Steady
  <2>7. task'[t].at = step /\ task'[t].project = p /\ task'[t].session = s
        /\ task'[t].snapshot = task[t].snapshot
    <3>1. step \in Steps
      BY DEF Steps, BeginSteps
    <3> QED BY <1>b, <2>2, <3>1, GotoFields
  <2>8. task[t].snapshot \in Snapshots
    BY <1>0, <2>1 DEF Fits, Carries
  <2>9. task[t].snapshot[s].decision.event < refs'[p][s].decision.event
    <3>1. /\ task[t].snapshot[s].decision.event \in Nat
          /\ refs[p][s].decision.event \in Nat /\ refs'[p][s].decision.event \in Nat
      BY <1>0, <2>3, <2>8, EventIsNat DEF Types
    <3>2. task[t].snapshot[s].decision.event < refs[p][s].decision.event
      BY <1>0, <1>b, <2>1 DEF Fits, Knows, Live
    <3>3. PICK i \in Nat, j \in Nat, k \in Nat :
             /\ i = task[t].snapshot[s].decision.event
             /\ j = refs[p][s].decision.event /\ k = refs'[p][s].decision.event
      BY <3>1
    <3>4. i < j /\ j <= k
      BY <2>3, <3>2, <3>3
    <3>5. i < k
      BY <3>4, SMTT(30)
    <3> QED BY <3>3, <3>5
  <2>10. Knows(t)'
    BY <2>1, <2>5, <2>7, <2>9 DEF Knows, Fate, Live
  <2> QED BY <1>0, <1>1, <2>1, <2>2, <2>6, <2>8, <2>10 DEF WorkSteps, Types
<1>4. CASE publish_decision(t)
  <2>1. /\ task[t].at = "decide" /\ UNCHANGED <<issued, foreign, restarts>>
        /\ refs' = [refs EXCEPT ![p][s].decision = Moved(@, "decided")]
    BY <1>4, <1>b DEF publish_decision
  <2>2. /\ refs' \in [Projects -> Snapshots]
        /\ \A q \in Projects, x \in Sessions :
              refs[q][x].decision.event <= refs'[q][x].decision.event
    BY <2>1, MoveRef DEF Heads
  <2>3. CASE /\ fate' = [fate EXCEPT ![p][s] = "known"]
             /\ Goto(t, "finish") /\ UNCHANGED <<entries, writer>>
    <3>1. \A u \in Threads : u # t => task'[u] = task[u]
      BY <1>0, <2>3 DEF Goto, Types
    <3>2. /\ Steady(t) /\ fate'[p][s] = "known"
          /\ fate' \in [Projects -> [Sessions -> {"untouched", "began", "committed", "known"}]]
      BY <1>a, <1>b, <2>1, <2>2, <2>3, <3>1, PublishSteady
    <3>3. task'[t].at = "finish" /\ task'[t].project = p /\ task'[t].session = s
      <4>1. "finish" \in Steps
        BY DEF Steps, DecideSteps
      <4> QED BY <1>b, <2>3, <4>1, GotoFields
    <3>4. Knows(t)'
      BY <3>2, <3>3 DEF Knows, Fate
    <3> QED BY <1>1, <2>1, <2>3, <3>2, <3>4 DEF HandleSteps
  <2>4. CASE /\ fate' = [fate EXCEPT ![p][s] = "committed"]
             /\ entries' = SetState(r, "outcome_unknown") /\ Return(t)
    <3> DEFINE e == EntryOf(t, "outcome_unknown")
    <3>1. /\ task'[t] = Idle /\ Idle \in Tasks /\ Idle.at = "idle"
          /\ \A u \in Threads : u # t => task'[u] = task[u]
          /\ task' \in [Threads -> Tasks]
          /\ writer' \in [Projects -> Threads \cup {None}]
          /\ \A q \in Projects : writer'[q] # t
      BY <1>0, <2>4 DEF Types, Return, Idle, Tasks, Steps
    <3>2. /\ e \in Entry /\ e # None /\ e.project = p /\ e.session = s
          /\ e.state = "outcome_unknown"
      <4>1. e \in Entry /\ e.project = p /\ e.session = s /\ e.state = "outcome_unknown"
        BY <1>b DEF EntryOf, Entry, States
      <4> QED BY <4>1, LocalServiceAssumption
    <3>3. entries' = [entries EXCEPT ![r] = e]
      BY <1>0, <1>b, <2>4, NamedSet DEF States
    <3> HIDE DEF e
    <3>4. /\ entries'[r] = e /\ entries' \in [Reviews -> Entry \cup {None}]
          /\ \A q \in Reviews : q # r => entries'[q] = entries[q]
      BY <1>0, <3>2, <3>3 DEF Types
    <3>5. /\ Steady(t)
          /\ fate' \in [Projects -> [Sessions -> {"untouched", "began", "committed", "known"}]]
      <4>1. writer' = [q \in Projects |-> IF writer[q] = t THEN None ELSE writer[q]]
        BY <2>4 DEF Return
      <4>2. /\ \A u \in Threads : u # t => task'[u] = task[u]
            /\ issued' = issued
            /\ \A q \in Reviews : q # r => entries'[q] = entries[q]
            /\ fate' = [fate EXCEPT ![p][s] = "committed"]
        BY <2>1, <2>4, <3>1, <3>4
      <4> QED BY <1>a, <1>b, <2>2, <4>1, <4>2, PublishSteady
    <3>6. Types'
      BY <1>0, <2>1, <2>2, <3>1, <3>4, <3>5 DEF Types
    <3>7. Fits(t)'
      BY <3>1
      DEF Fits, Carries, Owns, Knows, Inside, BeginSteps, DecideSteps, WorkSteps,
          HandleSteps
    <3>8. FreshId(t) /\ FreshEntry(t)
      BY <1>0, <1>b, <3>1, <3>2, <3>4 DEF FreshId, FreshEntry
    <3>9. EntryFits(r)' /\ SessionFits(p, s)'
      BY <1>0, <2>1, <3>2, <3>4 DEF EntryFits, SessionFits
    <3> QED BY <1>0, <1>b, <3>1, <3>5, <3>6, <3>7, <3>8, <3>9, ThreadStep
  <2> QED BY <1>4, <1>b, <2>3, <2>4 DEF publish_decision
<1> QED BY <1>2, <1>3, <1>4

-----------------------------------------------------------------------------
(* The environment *)

\* A Ref move by another process keeps the invariant: it counts an event.
LEMMA RefsOnly ==
    ASSUME IInv, refs' \in [Projects -> Snapshots],
           \A q \in Projects, x \in Sessions :
                 refs[q][x].decision.event <= refs'[q][x].decision.event,
           foreign' \in 0..MaxForeign,
           UNCHANGED <<entries, issued, writer, task, fate, restarts>>
    PROVE  IInv'
<1>1. ASSUME NEW t \in Threads PROVE Fits(t)'
  <2>0. Fits(t) /\ Fate(t)' = Fate(t)
    BY DEF IInv, Fate
  <2>1. Carries(t)' /\ Owns(t)'
    BY <2>0 DEF Fits, Carries, Owns, EntryOf
  <2>2. ASSUME task[t].at \in {"begin", "initialize", "propose", "settle"}
        PROVE  /\ task[t].snapshot[task[t].session].decision.event \in Nat
               /\ Live(t).decision.event \in Nat
               /\ Live(t)'.decision.event \in Nat
               /\ Live(t).decision.event <= Live(t)'.decision.event
    <3>1. /\ task[t].project \in Projects /\ task[t].session \in Sessions
          /\ task[t].snapshot \in Snapshots
      BY <2>0, <2>2 DEF Fits, Carries
    <3>2. /\ refs[task[t].project] \in Snapshots /\ refs'[task[t].project] \in Snapshots
      BY <3>1 DEF IInv, TypeOK
    <3>3. /\ Live(t) = refs[task[t].project][task[t].session]
          /\ Live(t)' = refs'[task[t].project][task[t].session]
      BY DEF Live
    <3>4. /\ Live(t).decision.event \in Nat /\ Live(t)'.decision.event \in Nat
          /\ task[t].snapshot[task[t].session].decision.event \in Nat
      BY <3>1, <3>2, <3>3, EventIsNat
    <3> QED BY <3>1, <3>3, <3>4
  <2>3. Knows(t)'
    <3> DEFINE seen == task[t].snapshot[task[t].session].decision.event
    <3>1. ASSUME task[t].at \in {"begin", "initialize", "propose", "settle"}
          PROVE  /\ seen <= Live(t).decision.event => seen <= Live(t)'.decision.event
                 /\ seen < Live(t).decision.event => seen < Live(t)'.decision.event
      <4>1. PICK i \in Nat, j \in Nat, k \in Nat :
               /\ i = seen /\ j = Live(t).decision.event /\ k = Live(t)'.decision.event
        BY <2>2, <3>1
      <4>2. j <= k
        BY <2>2, <3>1, <4>1
      <4>3. (i <= j => i <= k) /\ (i < j => i < k)
        BY <4>2, StillBefore
      <4> QED BY <4>1, <4>3
    <3> QED BY <2>0, <3>1 DEF Fits, Knows
  <2> QED BY <2>1, <2>3 DEF Fits
<1>2. Types'
  BY DEF IInv, TypeOK, Types
<1>3. \A p \in Projects : WriterFits(p)'
  BY DEF IInv, WriterFits
<1>4. /\ \A r \in Reviews : EntryFits(r)'
      /\ \A p \in Projects, s \in Sessions : SessionFits(p, s)'
  <2>1. ASSUME NEW r \in Reviews PROVE EntryFits(r)'
    <3>1. EntryFits(r)
      BY DEF IInv
    <3> QED BY <3>1 DEF EntryFits
  <2>2. ASSUME NEW p \in Projects, NEW s \in Sessions PROVE SessionFits(p, s)'
    <3>1. SessionFits(p, s)
      BY DEF IInv
    <3> QED BY <3>1 DEF SessionFits
  <2> QED BY <2>1, <2>2
<1>5. OneEntry' /\ Private' /\ SlotsAreBounded'
  BY DEF IInv, OneEntry, Private, SlotsAreBounded, Retained, RetainedIn
<1> QED BY <1>1, <1>2, <1>3, <1>4, <1>5, MutexFits DEF IInv

\* A Ref published by another process keeps the invariant.
LEMMA ForeignIInv ==
    ASSUME IInv, NEW p \in Projects, NEW s \in Sessions,
           NEW which \in {"decision", "proposal"}, move_foreign(p, s, which)
    PROVE  IInv'
<1>1. PICK head \in Heads :
         refs' = [refs EXCEPT ![p][s][which] = Moved(refs[p][s][which], head)]
  BY DEF move_foreign, Original, Heads
<1>2. \/ refs' = [refs EXCEPT ![p][s].decision = Moved(@, head)]
      \/ refs' = [refs EXCEPT ![p][s].proposal = Moved(@, head)]
  <2>1. CASE which = "decision"
    BY <1>1, <2>1
  <2>2. CASE which = "proposal"
    BY <1>1, <2>2
  <2> QED BY <2>1, <2>2
<1>3. foreign' \in 0..MaxForeign
  <2>1. /\ foreign \in 0..MaxForeign /\ foreign < MaxForeign
        /\ foreign' = foreign + 1 /\ MaxForeign \in Nat
    BY LocalServiceAssumption DEF move_foreign, IInv, TypeOK
  <2> QED BY <2>1, SMTT(30)
<1> QED BY <1>2, <1>3, MoveRef, RefsOnly DEF move_foreign

\* A server starts without calls and entries, and no session is open.
LEMMA InitIInv == ASSUME Init PROVE IInv
<1>0. refs \in [Projects -> Snapshots]
  BY DEF Init, Snapshots, SessionRefs, RefRow, NoRef, Heads
<1>1. Idle \in Tasks /\ \A t \in Threads : task[t] = Idle /\ task[t].at = "idle"
  BY DEF Init, Idle, Tasks, Steps
<1>2. TypeOK
  BY <1>0, <1>1, LocalServiceAssumption, SMTT(30) DEF Init, TypeOK, BeginSteps, DecideSteps
<1>3. \A t \in Threads : Fits(t)
  BY <1>1
  DEF Fits, Carries, Owns, Knows, Inside, BeginSteps, DecideSteps, WorkSteps,
      HandleSteps
<1>4. /\ \A p \in Projects : WriterFits(p)
      /\ \A r \in Reviews : EntryFits(r)
      /\ \A p \in Projects, s \in Sessions : SessionFits(p, s)
  BY DEF Init, WriterFits, EntryFits, SessionFits, Open
<1>5. OneEntry /\ Private
  BY <1>1 DEF Init, OneEntry, Private
<1>6. SlotsAreBounded
  <2>1. Retained = {} /\ \A p \in Projects : RetainedIn(p) = {}
    BY DEF Init, Retained, RetainedIn
  <2> QED BY <2>1, FS_EmptySet, LocalServiceAssumption, SMTT(30) DEF SlotsAreBounded
<1> QED BY <1>2, <1>3, <1>4, <1>5, <1>6 DEF IInv

\* So does a restarted one, whatever the Refs are by then.
LEMMA RestartIInv == ASSUME IInv, restart PROVE IInv'
<1>0. /\ refs' \in [Projects -> Snapshots] /\ issued' \subseteq Reviews
      /\ foreign' \in 0..MaxForeign /\ restarts' \in 0..MaxRestarts
  <2>1. /\ restarts \in 0..MaxRestarts /\ restarts < MaxRestarts
        /\ restarts' = restarts + 1 /\ MaxRestarts \in Nat
    BY LocalServiceAssumption DEF IInv, TypeOK, restart
  <2>2. restarts' \in 0..MaxRestarts
    BY <2>1, SMTT(30)
  <2> QED BY <2>2 DEF IInv, TypeOK, restart
<1>1. Idle \in Tasks /\ \A t \in Threads : task'[t] = Idle /\ task'[t].at = "idle"
  BY DEF restart, Idle, Tasks, Steps
<1>2. TypeOK'
  BY <1>0, <1>1, LocalServiceAssumption DEF restart, TypeOK, BeginSteps, DecideSteps
<1>3. \A t \in Threads : Fits(t)'
  BY <1>1
  DEF Fits, Carries, Owns, Knows, Inside, BeginSteps, DecideSteps, WorkSteps,
      HandleSteps
<1>4. /\ \A p \in Projects : WriterFits(p)'
      /\ \A r \in Reviews : EntryFits(r)'
      /\ \A p \in Projects, s \in Sessions : SessionFits(p, s)'
  BY DEF restart, WriterFits, EntryFits, SessionFits, Open
<1>5. OneEntry' /\ Private'
  BY <1>1 DEF restart, OneEntry, Private
<1>6. SlotsAreBounded'
  <2>1. Retained' = {} /\ \A p \in Projects : RetainedIn(p)' = {}
    BY DEF restart, Retained, RetainedIn
  <2> QED BY <2>1, FS_EmptySet, LocalServiceAssumption, SMTT(30) DEF SlotsAreBounded
<1> QED BY <1>2, <1>3, <1>4, <1>5, <1>6 DEF IInv

-----------------------------------------------------------------------------
(* The results *)

\* Every step of every thread and of the environment keeps the invariant.
LEMMA NextIInv == IInv /\ [Next]_vars => IInv'
<1> SUFFICES ASSUME IInv, [Next]_vars PROVE IInv'
  OBVIOUS
<1>1. CASE UNCHANGED vars
  <2>1. UNCHANGED <<refs, entries, issued, writer, task, fate, foreign, restarts>>
    BY <1>1 DEF vars
  <2>2. \A q \in Projects, x \in Sessions :
           refs[q][x].decision.event <= refs'[q][x].decision.event
    <3>1. refs \in [Projects -> Snapshots]
      BY DEF IInv, TypeOK
    <3> QED BY <2>1, <3>1, EventIsNat, SameEvent
  <2>3. refs' \in [Projects -> Snapshots] /\ foreign' \in 0..MaxForeign
    BY <2>1 DEF IInv, TypeOK
  <2> QED BY <2>1, <2>2, <2>3, RefsOnly
<1>2. ASSUME NEW t \in Threads, Begin(t) PROVE IInv'
  BY <1>2, ReserveIInv, BeginIInv, EndsIInv, PublicationIInv, CompareStep, OverlayIInv
  DEF Begin
<1>3. ASSUME NEW t \in Threads, Decide(t) PROVE IInv'
  BY <1>3, ClaimIInv, EndsIInv, PublicationIInv, CompareStep DEF Decide
<1> QED BY <1>1, <1>2, <1>3, CallIInv, AcquireIInv, ForeignIInv, RestartIInv DEF Next

\* The invariant holds in every reachable state.
THEOREM Invariance == Spec => []IInv
<1>1. Init => IInv
  BY InitIInv
<1> QED BY <1>1, NextIInv, PTL DEF Spec

\* RegistryIsTrue for every number of projects, sessions, request threads, Ref
\* moves by other processes and restarts: a session that this server began to
\* publish keeps its slot until its Decision is known to be committed, no
\* decided session is offered again, a slot in flight has one owner, and the
\* slots stay within their limits.
THEOREM RegistryTells == Spec => []RegistryIsTrue
<1>1. IInv => RegistryIsTrue
  <2> SUFFICES ASSUME IInv PROVE RegistryIsTrue
    OBVIOUS
  <2>1. PublishedReviewsKeepTheirSlot
    BY DEF IInv, SessionFits, Open, PublishedReviewsKeepTheirSlot
  <2>2. ReadyIsUndecided
    BY DEF IInv, EntryFits, ReadyIsUndecided
  <2>3. ASSUME NEW r \in Reviews, NEW t \in Threads, HoldsHandle(t, r)
        PROVE  /\ entries[r] # None /\ entries[r].state = "deciding"
               /\ writer[entries[r].project] = t
    <3>1. task[t].at \in HandleSteps /\ task[t].review = r
      BY <2>3 DEF HoldsHandle, HandleSteps
    <3>2. Named(t) /\ task[t].at \in Inside /\ entries[r].state = "deciding"
      BY <3>1, OwnsNamed
    <3> QED BY <3>1, <3>2, InsideFits DEF Named
  <2>4. ASSUME NEW r \in Reviews, entries[r] # None,
               entries[r].state \in {"reserved", "deciding"}
        PROVE  /\ writer[entries[r].project] \in Threads
               /\ entries[r].state = "deciding" =>
                     HoldsHandle(writer[entries[r].project], r)
               /\ entries[r].state = "reserved" =>
                     /\ task[writer[entries[r].project]].review = r
                     /\ task[writer[entries[r].project]].at \in BeginSteps
    <3>1. entries[r].project \in Projects /\ EntryFits(r)
      BY <2>4 DEF IInv, TypeOK, Entry
    <3>2. writer[entries[r].project] \in Threads \cup {None}
      BY <3>1 DEF IInv, TypeOK
    <3> QED BY <2>4, <3>1, <3>2
            DEF EntryFits, HoldsHandle, WorkSteps, HandleSteps, BeginSteps
  <2>5. SlotsHaveOneOwner
    BY <2>3, <2>4, SMTT(30) DEF SlotsHaveOneOwner, IsReserved
  <2> QED BY <2>1, <2>2, <2>5 DEF RegistryIsTrue, IInv
<1> QED BY <1>1, Invariance, PTL
=============================================================================
