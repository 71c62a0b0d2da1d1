-------------------------- MODULE HttpServerProofs --------------------------
(***************************************************************************)
(* The limits of the HTTP server and the promises of its operation         *)
(* registry, for every set of requests, projects and limits.               *)
(***************************************************************************)
EXTENDS HttpServer, FiniteSetTheorems, TLAPS

\* Leaves are first-order; those about numbers, records and sequences cite SMT.
USE ZenonT(40)

-----------------------------------------------------------------------------
(* HttpServer: the invariant *)

Directory == [live : BOOLEAN, fields : SUBSET (Files \union Texts), bytes : Nat]
Entry == [state : {"queued", "running", "succeeded", "failed", "outcome_unknown"},
          submitted : Nat, completed : Nat \union {NoTime}]
Places == {"new", "away", "uploads", "create", "parts", "open", "chunk", "gate", "run",
           "record", "end"}

Line == Seq(Requests)
Lines == [Gates -> Line]

HttpTypeOK ==
    /\ requestAt \in [Requests -> Places]
    /\ queue \in Lines
    /\ held \in [Gates -> SUBSET Requests]
    /\ staged \in [Requests -> Directory]
    /\ field \in [Requests -> [file : Files \union {Nobody}, bytes : Nat]]
    /\ DOMAIN entries \subseteq Requests /\ entries \in [DOMAIN entries -> Entry]
    /\ order \in Line
    /\ last \in Nat \union {NoTime}
    /\ outcome \in [Requests -> {"none", "succeeded", "failed", "outcome_unknown"}]

Distinct(s) == \A i, j \in 1 .. Len(s) : s[i] = s[j] => i = j

\* No request is in a queue twice, and no gate is held by more than its limit.
GatesAreSound ==
    \A g \in Gates : Distinct(queue[g]) /\ Cardinality(held[g]) <= Limit(g)

\* A request waits where its step says, and for the overall gate only when it
\* holds that of its project.
QueuedWell(r) ==
    \A g \in Gates : Waits(r, queue[g]) =>
        \/ g = "uploads" /\ requestAt[r] = "uploads"
        \/ /\ requestAt[r] = "gate" /\ g = ProjectGate[r]
           /\ g # "overall" => ~Waits(r, queue["overall"])
        \/ requestAt[r] = "gate" /\ g = "overall" /\ r \in held[ProjectGate[r]]

\* A running closure holds the gates of its work, and nothing else the overall
\* gate; an upload holds a permit from its admission to its end.
HoldsItsGates(r) ==
    /\ r \in held["overall"] => requestAt[r] = "run"
    /\ requestAt[r] = "run" => r \in held["overall"] /\ r \in held[ProjectGate[r]]
    /\ requestAt[r] \in {"create", "parts", "open", "chunk"} => KindOf[r] = "upload"
    /\ KindOf[r] = "upload" /\ requestAt[r] \in {"create", "parts", "open", "chunk", "gate", "run"} =>
         r \in held["uploads"]
    /\ requestAt[r] = "uploads" => KindOf[r] = "upload"

\* A directory lives from its creation to the end of the upload.
StagedWell(r) ==
    /\ staged[r].bytes <= MaxAggregate
    /\ staged[r].live <=>
         KindOf[r] = "upload" /\ requestAt[r] \in {"parts", "open", "chunk", "gate", "run"}
    /\ ~staged[r].live => staged[r].bytes = 0
    /\ requestAt[r] \in {"open", "chunk"} => field[r].file \in Files
    /\ KindOf[r] = "upload" /\ requestAt[r] \in {"gate", "run"} =>
         staged[r].fields = Files \union Texts

RequestIsSound(r) == QueuedWell(r) /\ HoldsItsGates(r) /\ StagedWell(r)

\* The order of admission lists entries, each once and none from after the last
\* time handed out; a closure that has ended has an outcome.
RegistryIsSound ==
    /\ Distinct(order)
    /\ \A i \in 1 .. Len(order) : order[i] \in DOMAIN entries
    /\ \A r \in DOMAIN entries : /\ requestAt[r] # "new" /\ requestAt[r] # "away"
                                 /\ last # NoTime /\ entries[r].submitted <= last
    /\ \A r \in Requests : requestAt[r] = "record" =>
         KindOf[r] = "operation" /\ operation_is_terminal(outcome[r])

HttpInv ==
    /\ HttpTypeOK /\ GatesAreSound /\ \A r \in Requests : RequestIsSound(r)
    /\ RegistryIsSound /\ AcceptedIsPollable

-----------------------------------------------------------------------------
(* Gates, queues and permits *)

\* The gates that every request may meet.
LEMMA GatesOf ==
    /\ "uploads" \in Gates /\ "overall" \in Gates
    /\ \A r \in Requests : ProjectGate[r] \in Gates /\ ProjectGate[r] # "uploads"
    /\ \A g \in Gates : Limit(g) \in Nat
<1>1. \A r \in Requests : ProjectGate[r] # "uploads"
  BY HttpAssumption
<1>2. MaxUploads \in Nat /\ MaxBlocking \in Nat /\ MaxPerProject \in Nat
  BY HttpAssumption
<1>3. \A g \in Gates : Limit(g) \in Nat
  BY <1>2, SMTT(30) DEF Limit
<1> QED BY <1>1, <1>3 DEF Gates

\* A request asks first for the gate of its project and last for the overall one.
LEMMA AcquireIs ==
    ASSUME NEW r \in Requests
    PROVE  /\ FirstGate(r) = ProjectGate[r] /\ acquire(r)[1] = ProjectGate[r]
           /\ acquire(r)[Len(acquire(r))] = "overall"
           /\ Len(acquire(r)) = 2 => ProjectGate[r] # "overall" /\ acquire(r)[2] = "overall"
<1>1. CASE ProjectGate[r] = "overall"
  <2>1. acquire(r) = <<"overall">> /\ Len(acquire(r)) = 1
    BY <1>1, SMTT(30) DEF acquire
  <2> QED BY <1>1, <2>1, SMTT(30) DEF FirstGate
<1>2. CASE ProjectGate[r] # "overall"
  <2>1. acquire(r) = <<ProjectGate[r], "overall">> /\ Len(acquire(r)) = 2
    BY <1>2, SMTT(30) DEF acquire
  <2> QED BY <1>2, <2>1, SMTT(30) DEF FirstGate
<1> QED BY <1>1, <1>2

\* c is s without its entry at i
Shifted(c, s, i) ==
    /\ Len(c) = Len(s) - 1 /\ Len(s) \in Nat
    /\ \A j \in 1 .. Len(c) :
         /\ j < i => c[j] = s[j] /\ j \in 1 .. Len(s) /\ j # i
         /\ ~(j < i) => c[j] = s[j + 1] /\ j + 1 \in 1 .. Len(s) /\ j + 1 # i

\* Without its entry at one place, a line has those before it and after it.
LEMMA CutAt ==
    ASSUME NEW s \in Line, NEW i \in 1 .. Len(s), NEW c, c = Cut(s, i)
    PROVE  c \in Line /\ Shifted(c, s, i)
<1>1. Len(s) \in Nat /\ Len(s) - 1 \in Nat
  BY SMTT(30) DEF Line
<1>2. c \in Line /\ Len(c) = Len(s) - 1
  BY <1>1, SMTT(30) DEF Cut, Line
<1> QED BY <1>1, <1>2, SMTT(30) DEF Cut, Shifted

\* The entries that are left are in their old order.
Ordered(c, s) ==
    \A j, k \in 1 .. Len(c) : j < k =>
        \E m, n \in 1 .. Len(s) : m < n /\ c[j] = s[m] /\ c[k] = s[n]

\* Cutting keeps the order.
LEMMA CutOrder ==
    ASSUME NEW s, NEW i, NEW c, Shifted(c, s, i), i \in 1 .. Len(s)
    PROVE  Ordered(c, s)
<1> SUFFICES ASSUME NEW j \in 1 .. Len(c), NEW k \in 1 .. Len(c), j < k
             PROVE  \E m, n \in 1 .. Len(s) : m < n /\ c[j] = s[m] /\ c[k] = s[n]
  BY DEF Ordered
<1> DEFINE old(x) == IF x < i THEN x ELSE x + 1
<1>1. old(j) \in 1 .. Len(s) /\ old(k) \in 1 .. Len(s) /\ c[j] = s[old(j)] /\ c[k] = s[old(k)]
  BY DEF Shifted
<1>2. old(j) < old(k)
  BY SMTT(30) DEF Shifted
<1> QED BY <1>1, <1>2

\* In a line without duplicates, exactly the entry at that place is gone.
LEMMA CutIs ==
    ASSUME NEW s, NEW i, NEW c, Shifted(c, s, i), i \in 1 .. Len(s), Distinct(s)
    PROVE  Distinct(c) /\ \A x : Waits(x, c) <=> Waits(x, s) /\ x # s[i]
<1>1. \A j, k \in 1 .. Len(s) : s[j] = s[k] => j = k
  BY DEF Distinct
<1>2. \A j \in 1 .. Len(s) : j # i =>
        \/ j < i /\ j \in 1 .. Len(c)
        \/ j - 1 \in 1 .. Len(c) /\ ~(j - 1 < i) /\ (j - 1) + 1 = j
  BY SMTT(30) DEF Shifted
<1>3. Distinct(c)
  <2> SUFFICES ASSUME NEW j \in 1 .. Len(c), NEW k \in 1 .. Len(c), c[j] = c[k]
               PROVE  j = k
    BY DEF Distinct
  <2> DEFINE old(x) == IF x < i THEN x ELSE x + 1
  <2>1. old(j) \in 1 .. Len(s) /\ old(k) \in 1 .. Len(s) /\ c[j] = s[old(j)] /\ c[k] = s[old(k)]
    BY DEF Shifted
  <2>2. old(j) = old(k)
    BY <1>1, <2>1
  <2> QED BY <2>2, SMTT(30) DEF Shifted
<1>4. ASSUME NEW x, Waits(x, c)
      PROVE  Waits(x, s) /\ x # s[i]
  <2>1. PICK j \in 1 .. Len(c) : c[j] = x
    BY <1>4 DEF Waits
  <2>2. PICK k \in 1 .. Len(s) : k # i /\ c[j] = s[k]
    BY DEF Shifted
  <2> QED BY <1>1, <2>1, <2>2 DEF Waits
<1>5. ASSUME NEW x, Waits(x, s), x # s[i]
      PROVE  Waits(x, c)
  <2>1. PICK j \in 1 .. Len(s) : s[j] = x
    BY <1>5 DEF Waits
  <2>2. j # i
    BY <1>5, <2>1
  <2>3. CASE j < i /\ j \in 1 .. Len(c)
    BY <2>1, <2>3 DEF Waits, Shifted
  <2>4. CASE j - 1 \in 1 .. Len(c) /\ ~(j - 1 < i) /\ (j - 1) + 1 = j
    <3>1. c[j - 1] = s[(j - 1) + 1]
      BY <2>4 DEF Shifted
    <3> QED BY <2>1, <2>4, <3>1 DEF Waits
  <2> QED BY <1>2, <2>2, <2>3, <2>4
<1> QED BY <1>3, <1>4, <1>5

\* The queues e are the queues q with r waiting at g too
Joined(e, q, g, r) ==
    \A h \in Gates : \A x : Waits(x, e[h]) <=> Waits(x, q[h]) \/ (h = g /\ x = r)

Left(d, q, r) ==
    \A h \in Gates : \A x : Waits(x, d[h]) <=> Waits(x, q[h]) /\ x # r
AllDistinct(q) == \A h \in Gates : Distinct(q[h])

\* A request that joins a queue is in it, behind the others.
LEMMA EnqueueIs ==
    ASSUME NEW q \in Lines, NEW r \in Requests, NEW g \in Gates,
           AllDistinct(q), ~Waits(r, q[g]), NEW e, e = Enqueue(r, g, q)
    PROVE  e \in Lines /\ AllDistinct(e) /\ Joined(e, q, g, r)
<1>1. PICK s \in Line : s = q[g]
  BY DEF Lines
<1>2. PICK n \in Nat : n = Len(s)
  BY SMTT(30) DEF Line
<1>3. PICK a : a = Append(s, r)
  OBVIOUS
<1>4. a \in Line /\ Len(a) = n + 1
  BY <1>2, <1>3, SMTT(30) DEF Line
<1>5. a[n + 1] = r /\ \A i \in 1 .. n : a[i] = s[i]
  BY <1>2, <1>3, SMTT(30) DEF Line
<1>6. 1 .. Len(a) = 1 .. n \union {n + 1} /\ n + 1 \notin 1 .. n
  BY <1>4, SMTT(30)
<1>7. Distinct(a)
  <2>1. \A i, j \in 1 .. n : s[i] = s[j] => i = j
    BY <1>1, <1>2 DEF Distinct, AllDistinct
  <2>2. \A i \in 1 .. n : s[i] # r
    BY <1>1, <1>2 DEF Waits
  <2>3. ASSUME NEW i \in 1 .. n \union {n + 1}, NEW j \in 1 .. n \union {n + 1}, a[i] = a[j]
        PROVE  i = j
    BY <1>5, <2>1, <2>2, <2>3
  <2> QED BY <1>6, <2>3 DEF Distinct
<1>8. \A x : Waits(x, a) <=> Waits(x, s) \/ x = r
  BY <1>2, <1>5, <1>6 DEF Waits
<1>9. e = [h \in Gates |-> IF h = g THEN a ELSE q[h]]
  BY <1>1, <1>3 DEF Enqueue, Lines
<1>10. e \in Lines
  BY <1>4, <1>9 DEF Lines
<1>11. AllDistinct(e)
  BY <1>7, <1>9 DEF AllDistinct
<1>12. Joined(e, q, g, r)
  BY <1>1, <1>8, <1>9 DEF Joined
<1> QED BY <1>10, <1>11, <1>12

\* A request that leaves its queues is in none, and nobody else is moved.
LEMMA DequeueIs ==
    ASSUME NEW q \in Lines, NEW r \in Requests,
           AllDistinct(q), NEW d, d = Dequeue(r, q)
    PROVE  d \in Lines /\ AllDistinct(d) /\ Left(d, q, r)
<1>1. ASSUME NEW h \in Gates
      PROVE  /\ d[h] \in Line /\ Distinct(d[h])
             /\ \A x : Waits(x, d[h]) <=> Waits(x, q[h]) /\ x # r
  <2>1. PICK s \in Line : s = q[h] /\ Distinct(s)
    BY DEF Lines, AllDistinct
  <2>2. CASE ~Waits(r, s)
    BY <2>1, <2>2 DEF Dequeue
  <2>3. CASE Waits(r, s)
    <3>1. PICK i \in 1 .. Len(s) : i = Place(r, s) /\ s[i] = r
      BY <2>3 DEF Place, Waits
    <3>2. PICK c : c = Cut(s, i) /\ c = d[h]
      BY <2>1, <2>3, <3>1 DEF Dequeue
    <3>3. c \in Line /\ Shifted(c, s, i)
      BY <3>1, <3>2, CutAt
    <3>4. Distinct(c) /\ \A x : Waits(x, c) <=> Waits(x, s) /\ x # s[i]
      BY <2>1, <3>1, <3>3, CutIs
    <3> QED BY <2>1, <3>1, <3>2, <3>3, <3>4
  <2> QED BY <2>2, <2>3
<1>2. d \in Lines
  BY <1>1 DEF Dequeue, Lines
<1> QED BY <1>1, <1>2 DEF AllDistinct, Left

\* One more holder within the limit, and fewer holders.
LEMMA HoldersCount ==
    ASSUME NEW S \in SUBSET Requests, NEW n \in Nat
    PROVE  /\ IsFiniteSet(S) /\ Cardinality(S) \in Nat
           /\ Cardinality(S) < n => \A x : Cardinality(S \union {x}) <= n
           /\ Cardinality(S) <= n => \A T \in SUBSET S : Cardinality(T) <= n
<1>1. IsFiniteSet(S)
  BY FS_Subset, HttpAssumption
<1>2. Cardinality(S) \in Nat
  BY <1>1, FS_CardinalityType
<1>3. ASSUME NEW x, Cardinality(S) < n
      PROVE  Cardinality(S \union {x}) <= n
  <2>1. Cardinality(S \union {x}) = IF x \in S THEN Cardinality(S) ELSE Cardinality(S) + 1
    BY <1>1, FS_AddElement
  <2> QED BY <1>2, <1>3, <2>1, SMTT(30)
<1>4. ASSUME NEW T \in SUBSET S, Cardinality(S) <= n
      PROVE  Cardinality(T) <= n
  <2>1. Cardinality(T) <= Cardinality(S) /\ IsFiniteSet(T)
    BY <1>1, FS_Subset
  <2>2. Cardinality(T) \in Nat
    BY <2>1, FS_CardinalityType
  <2> QED BY <1>2, <1>4, <2>1, <2>2, SMTT(30)
<1> QED BY <1>1, <1>2, <1>3, <1>4

\* What a step of r leaves alone: the place, the permits and the files of others.
OthersStay(r) ==
    \A x \in Requests : x # r =>
        /\ requestAt'[x] = requestAt[x] /\ staged'[x] = staged[x] /\ field'[x] = field[x]
        /\ \A g \in Gates : (x \in held'[g] <=> x \in held[g])
                            /\ (Waits(x, queue'[g]) <=> Waits(x, queue[g]))

\* The others are then as sound as before.
LEMMA OthersSound ==
    ASSUME NEW r \in Requests, \A x \in Requests : RequestIsSound(x), OthersStay(r),
           RequestIsSound(r)'
    PROVE  \A x \in Requests : RequestIsSound(x)'
<1> SUFFICES ASSUME NEW x \in Requests, x # r
             PROVE  RequestIsSound(x)'
  OBVIOUS
<1>1. /\ requestAt'[x] = requestAt[x] /\ staged'[x] = staged[x] /\ field'[x] = field[x]
      /\ \A g \in Gates : (x \in held'[g] <=> x \in held[g])
                          /\ (Waits(x, queue'[g]) <=> Waits(x, queue[g]))
  BY DEF OthersStay
<1>2. /\ "uploads" \in Gates /\ "overall" \in Gates /\ ProjectGate[x] \in Gates
  BY GatesOf
<1>3. QueuedWell(x)'
  BY <1>1, <1>2 DEF RequestIsSound, QueuedWell
<1>4. HoldsItsGates(x)'
  BY <1>1, <1>2 DEF RequestIsSound, HoldsItsGates
<1>5. StagedWell(x)'
  BY <1>1 DEF RequestIsSound, StagedWell
<1> QED BY <1>3, <1>4, <1>5 DEF RequestIsSound

\* A step that leaves the registry alone, of a request that is no operation or
\* that ends or stays where it is.
LEMMA QuietRequest ==
    ASSUME NEW r \in Requests, HttpInv, OthersStay(r), RequestIsSound(r)', HttpTypeOK',
           GatesAreSound', UNCHANGED Registry,
           \/ requestAt'[r] = requestAt[r] \/ requestAt'[r] = "end"
           \/ KindOf[r] # "operation" /\ requestAt'[r] \notin {"new", "away", "record"}
    PROVE  HttpInv'
<1>1. \A x \in Requests : RequestIsSound(x)'
  BY OthersSound DEF HttpInv
<1>2. UNCHANGED <<entries, order, last, outcome>>
  BY DEF Registry
<1>3. \A x \in Requests : \/ requestAt'[x] = requestAt[x] \/ requestAt'[x] = "end"
                          \/ KindOf[x] # "operation" /\ requestAt'[x] \notin {"new", "away", "record"}
  BY DEF OthersStay
<1>4. DOMAIN entries \subseteq Requests
  BY DEF HttpInv, HttpTypeOK
<1>5. RegistryIsSound'
  BY <1>2, <1>3, <1>4 DEF HttpInv, RegistryIsSound
<1>6. AcceptedIsPollable'
  <2>1. AcceptedIsListed'
    BY <1>2, <1>3 DEF HttpInv, AcceptedIsPollable, AcceptedIsListed
  <2>2. TimesNeverRetreat'
    BY <1>2 DEF HttpInv, AcceptedIsPollable, TimesNeverRetreat
  <2> QED BY <2>1, <2>2 DEF AcceptedIsPollable
<1> QED BY <1>1, <1>5, <1>6 DEF HttpInv

\* A request that waits for a free gate is given a permit.
LEMMA Grant ==
    ASSUME NEW r \in Requests, HttpInv, NEW g \in Gates, Granted(r, g),
           held' = [held EXCEPT ![g] = @ \union {r}]
    PROVE  /\ Waits(r, queue[g]) /\ held' \in [Gates -> SUBSET Requests]
           /\ \A h \in Gates : Cardinality(held'[h]) <= Limit(h)
           /\ \A h \in Gates : \A x : x \in held'[h] <=> x \in held[h] \/ (h = g /\ x = r)
<1>1. Waits(r, queue[g])
  <2>1. queue[g] \in Seq(Requests) /\ queue[g] # << >> /\ Head(queue[g]) = r
    BY DEF Granted, HttpInv, HttpTypeOK, Lines, Line
  <2>2. 1 \in 1 .. Len(queue[g]) /\ queue[g][1] = r
    BY <2>1, SMTT(30)
  <2> QED BY <2>2 DEF Waits
<1>2. held \in [Gates -> SUBSET Requests]
  BY DEF HttpInv, HttpTypeOK
<1>3. held' \in [Gates -> SUBSET Requests]
  BY <1>2
<1>4. \A h \in Gates : held'[h] = IF h = g THEN held[g] \union {r} ELSE held[h]
  BY <1>2
<1>5. Cardinality(held[g] \union {r}) <= Limit(g)
  <2>1. Limit(g) \in Nat /\ held[g] \in SUBSET Requests /\ Cardinality(held[g]) < Limit(g)
    BY <1>2, GatesOf DEF Granted
  <2> QED BY <2>1, HoldersCount
<1>6. \A h \in Gates : Cardinality(held[h]) <= Limit(h)
  BY DEF HttpInv, GatesAreSound
<1> QED BY <1>1, <1>3, <1>4, <1>5, <1>6

\* A request gives back every permit that it holds.
LEMMA Release ==
    ASSUME NEW r \in Requests, HttpInv, held' = [g \in Gates |-> held[g] \ {r}]
    PROVE  /\ held' \in [Gates -> SUBSET Requests]
           /\ \A h \in Gates : Cardinality(held'[h]) <= Limit(h)
           /\ \A h \in Gates : \A x : x \in held'[h] <=> x \in held[h] /\ x # r
<1>1. held \in [Gates -> SUBSET Requests]
  BY DEF HttpInv, HttpTypeOK
<1>2. ASSUME NEW h \in Gates
      PROVE  Cardinality(held'[h]) <= Limit(h)
  <2>1. /\ Limit(h) \in Nat /\ held[h] \in SUBSET Requests /\ Cardinality(held[h]) <= Limit(h)
        /\ held'[h] \in SUBSET held[h]
    BY <1>1, GatesOf DEF HttpInv, GatesAreSound
  <2> QED BY <2>1, HoldersCount
<1> QED BY <1>1, <1>2

\* A request that is in no queue joins one.
LEMMA Join ==
    ASSUME NEW r \in Requests, HttpInv, NEW g \in Gates, \A h \in Gates : ~Waits(r, queue[h]),
           queue' = Enqueue(r, g, queue)
    PROVE  /\ queue' \in Lines
           /\ \A h \in Gates : Distinct(queue'[h])
           /\ \A h \in Gates : \A x : Waits(x, queue'[h]) <=> Waits(x, queue[h]) \/ (h = g /\ x = r)
<1>1. queue \in Lines /\ AllDistinct(queue) /\ ~Waits(r, queue[g])
  BY DEF HttpInv, HttpTypeOK, GatesAreSound, AllDistinct
<1>2. queue' \in Lines /\ AllDistinct(queue') /\ Joined(queue', queue, g, r)
  BY <1>1, EnqueueIs
<1> QED BY <1>2 DEF AllDistinct, Joined

\* A request leaves its queues.
LEMMA Leave ==
    ASSUME NEW r \in Requests, HttpInv, queue' = Dequeue(r, queue)
    PROVE  /\ queue' \in Lines
           /\ \A h \in Gates : Distinct(queue'[h])
           /\ \A h \in Gates : \A x : Waits(x, queue'[h]) <=> Waits(x, queue[h]) /\ x # r
<1>1. queue \in Lines /\ AllDistinct(queue)
  BY DEF HttpInv, HttpTypeOK, GatesAreSound, AllDistinct
<1>2. queue' \in Lines /\ AllDistinct(queue') /\ Left(queue', queue, r)
  BY <1>1, DequeueIs
<1> QED BY <1>2 DEF AllDistinct, Left

\* A request moves.
LEMMA MoveIs ==
    ASSUME NEW r \in Requests, HttpInv, NEW p \in Places, Move(r, p)
    PROVE  /\ requestAt' \in [Requests -> Places] /\ requestAt'[r] = p
           /\ \A x \in Requests : x # r => requestAt'[x] = requestAt[x]
BY DEF HttpInv, HttpTypeOK, Move

\* A request that is neither admitted nor queued waits for nothing.
LEMMA NoneAwaited ==
    ASSUME NEW r \in Requests, HttpInv, requestAt[r] # "uploads", requestAt[r] # "gate"
    PROVE  \A h \in Gates : ~Waits(r, queue[h])
BY DEF HttpInv, RequestIsSound, QueuedWell

-----------------------------------------------------------------------------
(* Calls and uploads *)

\* A request is refused before it has anything.
LEMMA RefuseStep ==
    ASSUME NEW r \in Requests, HttpInv, Refuse(r)
    PROVE  HttpInv'
<1>1. /\ requestAt[r] = "new" /\ Move(r, "end") /\ UNCHANGED Registry
      /\ UNCHANGED <<queue, held, staged, field>>
  BY DEF Refuse
<1>2. /\ requestAt' \in [Requests -> Places] /\ requestAt'[r] = "end"
      /\ \A x \in Requests : x # r => requestAt'[x] = requestAt[x]
  BY <1>1, MoveIs DEF Places
<1>3. HttpTypeOK' /\ GatesAreSound' /\ OthersStay(r)
  BY <1>1, <1>2 DEF HttpInv, HttpTypeOK, GatesAreSound, OthersStay, Registry
<1>4. RequestIsSound(r)'
  <2>1. \A h \in Gates : ~Waits(r, queue[h])
    BY <1>1, NoneAwaited
  <2>2. RequestIsSound(r)
    BY DEF HttpInv
  <2> QED BY <1>1, <1>2, <2>1, <2>2 DEF RequestIsSound, QueuedWell, HoldsItsGates, StagedWell
<1> QED BY <1>1, <1>2, <1>3, <1>4, QuietRequest

\* A call waits for the gate of its project.
LEMMA CallStep ==
    ASSUME NEW r \in Requests, HttpInv, api_blocking(r)
    PROVE  HttpInv'
<1>1. /\ requestAt[r] = "new" /\ KindOf[r] = "call" /\ Move(r, "gate") /\ UNCHANGED Registry
      /\ queue' = Enqueue(r, FirstGate(r), queue) /\ UNCHANGED <<held, staged, field>>
  BY DEF api_blocking
<1>2. /\ requestAt' \in [Requests -> Places] /\ requestAt'[r] = "gate"
      /\ \A x \in Requests : x # r => requestAt'[x] = requestAt[x]
  BY <1>1, MoveIs DEF Places
<1>3. \A h \in Gates : ~Waits(r, queue[h])
  BY <1>1, NoneAwaited
<1>4. FirstGate(r) = ProjectGate[r] /\ ProjectGate[r] \in Gates /\ "overall" \in Gates
  BY AcquireIs, GatesOf
<1>5. /\ queue' \in Lines /\ \A h \in Gates : Distinct(queue'[h])
      /\ \A h \in Gates : \A x :
           Waits(x, queue'[h]) <=> Waits(x, queue[h]) \/ (h = ProjectGate[r] /\ x = r)
  BY <1>1, <1>3, <1>4, Join
<1>6. HttpTypeOK' /\ GatesAreSound' /\ OthersStay(r)
  <2>1. HttpTypeOK' /\ GatesAreSound'
    BY <1>1, <1>2, <1>5 DEF HttpInv, HttpTypeOK, GatesAreSound, Registry
  <2>2. \A x \in Requests : x # r => \A h \in Gates : Waits(x, queue'[h]) <=> Waits(x, queue[h])
    BY <1>5
  <2> QED BY <1>1, <1>2, <2>1, <2>2 DEF OthersStay
<1>7. RequestIsSound(r)'
  <2>1. QueuedWell(r)'
    BY <1>2, <1>3, <1>4, <1>5 DEF QueuedWell
  <2>2. HoldsItsGates(r)' /\ StagedWell(r)'
    BY <1>1, <1>2 DEF HttpInv, RequestIsSound, HoldsItsGates, StagedWell
  <2> QED BY <2>1, <2>2 DEF RequestIsSound
<1> QED BY <1>1, <1>2, <1>6, <1>7, QuietRequest

\* An upload waits to be admitted.
LEMMA UploadStep ==
    ASSUME NEW r \in Requests, HttpInv, api_begin_creator_session(r)
    PROVE  HttpInv'
<1>1. /\ requestAt[r] = "new" /\ KindOf[r] = "upload" /\ Move(r, "uploads") /\ UNCHANGED Registry
      /\ queue' = Enqueue(r, "uploads", queue) /\ UNCHANGED <<held, staged, field>>
  BY DEF api_begin_creator_session
<1>2. /\ requestAt' \in [Requests -> Places] /\ requestAt'[r] = "uploads"
      /\ \A x \in Requests : x # r => requestAt'[x] = requestAt[x]
  BY <1>1, MoveIs DEF Places
<1>3. \A h \in Gates : ~Waits(r, queue[h])
  BY <1>1, NoneAwaited
<1>4. /\ queue' \in Lines /\ \A h \in Gates : Distinct(queue'[h])
      /\ \A h \in Gates : \A x : Waits(x, queue'[h]) <=> Waits(x, queue[h]) \/ (h = "uploads" /\ x = r)
  BY <1>1, <1>3, GatesOf, Join
<1>5. HttpTypeOK' /\ GatesAreSound' /\ OthersStay(r)
  <2>1. HttpTypeOK' /\ GatesAreSound'
    BY <1>1, <1>2, <1>4 DEF HttpInv, HttpTypeOK, GatesAreSound, Registry
  <2>2. \A x \in Requests : x # r => \A h \in Gates : Waits(x, queue'[h]) <=> Waits(x, queue[h])
    BY <1>4
  <2> QED BY <1>1, <1>2, <2>1, <2>2 DEF OthersStay
<1>6. RequestIsSound(r)'
  <2>1. QueuedWell(r)'
    BY <1>2, <1>3, <1>4 DEF QueuedWell
  <2>2. HoldsItsGates(r)' /\ StagedWell(r)'
    BY <1>1, <1>2 DEF HttpInv, RequestIsSound, HoldsItsGates, StagedWell
  <2> QED BY <2>1, <2>2 DEF RequestIsSound
<1> QED BY <1>1, <1>2, <1>5, <1>6, QuietRequest

\* An upload is admitted.
LEMMA AdmitStep ==
    ASSUME NEW r \in Requests, HttpInv, AcquireUpload(r)
    PROVE  HttpInv'
<1>1. /\ requestAt[r] = "uploads" /\ Granted(r, "uploads") /\ Move(r, "create")
      /\ held' = [held EXCEPT !["uploads"] = @ \union {r}] /\ queue' = Dequeue(r, queue)
      /\ UNCHANGED <<staged, field>> /\ UNCHANGED Registry
  BY DEF AcquireUpload
<1>2. /\ requestAt' \in [Requests -> Places] /\ requestAt'[r] = "create"
      /\ \A x \in Requests : x # r => requestAt'[x] = requestAt[x]
  BY <1>1, MoveIs DEF Places
<1>3. /\ queue' \in Lines /\ \A h \in Gates : Distinct(queue'[h])
      /\ \A h \in Gates : \A x : Waits(x, queue'[h]) <=> Waits(x, queue[h]) /\ x # r
  BY <1>1, Leave
<1>4. "uploads" \in Gates /\ "overall" \in Gates
  BY GatesOf
<1>5. /\ held' \in [Gates -> SUBSET Requests]
      /\ \A h \in Gates : Cardinality(held'[h]) <= Limit(h)
      /\ \A h \in Gates : \A x : x \in held'[h] <=> x \in held[h] \/ (h = "uploads" /\ x = r)
  BY <1>1, <1>4, Grant
<1>6. HttpTypeOK' /\ GatesAreSound' /\ OthersStay(r)
  BY <1>1, <1>2, <1>3, <1>5 DEF HttpInv, HttpTypeOK, GatesAreSound, OthersStay, Registry
<1>7. RequestIsSound(r)'
  <2>1. QueuedWell(r)'
    BY <1>3 DEF QueuedWell
  <2>2. HoldsItsGates(r)' /\ StagedWell(r)'
    BY <1>1, <1>2, <1>4, <1>5 DEF HttpInv, RequestIsSound, HoldsItsGates, StagedWell
  <2> QED BY <2>1, <2>2 DEF RequestIsSound
<1>8. KindOf[r] # "operation"
  BY <1>1 DEF HttpInv, RequestIsSound, HoldsItsGates
<1> QED BY <1>1, <1>2, <1>6, <1>7, <1>8, QuietRequest

\* An upload that has begun keeps its permit while it reads.
Reads(r) == requestAt[r] \in {"create", "parts", "open", "chunk"}

\* A request without a directory, field, permit or place in a queue is sound at
\* its end.
LEMMA EndsWell ==
    ASSUME NEW r \in Requests, HttpInv, requestAt'[r] = "end", staged'[r] = NoDirectory,
           \A h \in Gates : r \notin held'[h] /\ ~Waits(r, queue'[h])
    PROVE  RequestIsSound(r)'
<1>1. ~NoDirectory.live /\ NoDirectory.bytes = 0
  BY SMTT(30) DEF NoDirectory
<1>2. NoDirectory.bytes <= MaxAggregate
  BY <1>1, HttpAssumption, SMTT(30)
<1>3. "overall" \in Gates
  BY GatesOf
<1> QED BY <1>1, <1>2, <1>3 DEF RequestIsSound, QueuedWell, HoldsItsGates, StagedWell

\* An upload that fails leaves nothing behind.
LEMMA DropStep ==
    ASSUME NEW r \in Requests, HttpInv, Reads(r), DropUpload(r)
    PROVE  HttpInv'
<1>1. /\ Move(r, "end") /\ held' = [g \in Gates |-> held[g] \ {r}]
      /\ staged' = [staged EXCEPT ![r] = NoDirectory]
      /\ field' = [field EXCEPT ![r] = [file |-> Nobody, bytes |-> 0]]
      /\ UNCHANGED queue /\ UNCHANGED Registry
  BY DEF DropUpload
<1>2. /\ requestAt' \in [Requests -> Places] /\ requestAt'[r] = "end"
      /\ \A x \in Requests : x # r => requestAt'[x] = requestAt[x]
  BY <1>1, MoveIs DEF Places
<1>3. /\ held' \in [Gates -> SUBSET Requests]
      /\ \A h \in Gates : Cardinality(held'[h]) <= Limit(h)
      /\ \A h \in Gates : \A x : x \in held'[h] <=> x \in held[h] /\ x # r
  BY <1>1, Release
<1>4. /\ staged' \in [Requests -> Directory] /\ staged'[r] = NoDirectory
      /\ \A x \in Requests : x # r => staged'[x] = staged[x]
  BY <1>1, SMTT(30) DEF HttpInv, HttpTypeOK, Directory, NoDirectory
<1>5. /\ field' \in [Requests -> [file : Files \union {Nobody}, bytes : Nat]]
      /\ \A x \in Requests : x # r => field'[x] = field[x]
  BY <1>1, SMTT(30) DEF HttpInv, HttpTypeOK
<1>6. HttpTypeOK' /\ GatesAreSound' /\ OthersStay(r)
  BY <1>1, <1>2, <1>3, <1>4, <1>5 DEF HttpInv, HttpTypeOK, GatesAreSound, OthersStay, Registry
<1>7. \A h \in Gates : ~Waits(r, queue'[h])
  BY <1>1, NoneAwaited DEF Reads
<1>8. RequestIsSound(r)'
  BY <1>2, <1>3, <1>4, <1>7, EndsWell
<1> QED BY <1>1, <1>2, <1>6, <1>8, QuietRequest

\* An upload goes on reading.
LEMMA ReadOn ==
    ASSUME NEW r \in Requests, HttpInv, Reads(r), UNCHANGED <<queue, held>>, UNCHANGED Registry,
           requestAt' \in [Requests -> Places], requestAt'[r] \in {"parts", "open", "chunk"},
           staged' \in [Requests -> Directory],
           field' \in [Requests -> [file : Files \union {Nobody}, bytes : Nat]],
           \A x \in Requests : x # r => /\ requestAt'[x] = requestAt[x]
                                        /\ staged'[x] = staged[x] /\ field'[x] = field[x],
           staged'[r].live, staged'[r].bytes <= MaxAggregate,
           requestAt'[r] # "parts" => field'[r].file \in Files
    PROVE  HttpInv'
<1>1. HttpTypeOK' /\ GatesAreSound' /\ OthersStay(r)
  BY DEF HttpInv, HttpTypeOK, GatesAreSound, OthersStay, Registry
<1>2. \A h \in Gates : ~Waits(r, queue'[h])
  BY NoneAwaited DEF Reads
<1>3. /\ KindOf[r] = "upload" /\ r \in held["uploads"] /\ r \notin held["overall"]
  BY DEF Reads, HttpInv, RequestIsSound, HoldsItsGates
<1>4. RequestIsSound(r)'
  BY <1>2, <1>3 DEF RequestIsSound, QueuedWell, HoldsItsGates, StagedWell
<1> QED BY <1>1, <1>3, <1>4, QuietRequest

\* The state of an upload that has its directory.
LEMMA ReadingIs ==
    ASSUME NEW r \in Requests, HttpInv
    PROVE  /\ staged \in [Requests -> Directory] /\ staged[r].bytes <= MaxAggregate
           /\ staged[r].bytes \in Nat /\ staged[r].fields \in SUBSET (Files \union Texts)
           /\ field \in [Requests -> [file : Files \union {Nobody}, bytes : Nat]]
           /\ field[r].bytes \in Nat
           /\ requestAt \in [Requests -> Places]
           /\ requestAt[r] \in {"parts", "open", "chunk"} => staged[r].live
           /\ requestAt[r] \in {"open", "chunk"} => field[r].file \in Files
<1>1. /\ staged \in [Requests -> Directory] /\ requestAt \in [Requests -> Places]
      /\ field \in [Requests -> [file : Files \union {Nobody}, bytes : Nat]]
  BY DEF HttpInv, HttpTypeOK
<1>2. staged[r].bytes \in Nat /\ staged[r].fields \in SUBSET (Files \union Texts) /\ field[r].bytes \in Nat
  BY <1>1, SMTT(30) DEF Directory
<1>3. StagedWell(r) /\ HoldsItsGates(r)
  BY DEF HttpInv, RequestIsSound
<1> QED BY <1>1, <1>2, <1>3 DEF StagedWell, HoldsItsGates

\* A directory gets a field or grows.
LEMMA DirectoryIs ==
    ASSUME NEW r \in Requests, staged \in [Requests -> Directory]
    PROVE  /\ \A f \in Files \union Texts : staged' = [staged EXCEPT ![r].fields = @ \union {f}] =>
                /\ staged' \in [Requests -> Directory] /\ staged'[r].live = staged[r].live
                /\ staged'[r].bytes = staged[r].bytes
                /\ \A x \in Requests : x # r => staged'[x] = staged[x]
           /\ \A n \in Nat : staged' = [staged EXCEPT ![r].bytes = @ + n] =>
                /\ staged' \in [Requests -> Directory] /\ staged'[r].live = staged[r].live
                /\ staged'[r].bytes = staged[r].bytes + n
                /\ \A x \in Requests : x # r => staged'[x] = staged[x]
<1>1. PICK d \in Directory : d = staged[r]
  OBVIOUS
<1>3. ASSUME NEW f \in Files \union Texts, staged' = [staged EXCEPT ![r].fields = @ \union {f}]
      PROVE  /\ staged' \in [Requests -> Directory] /\ staged'[r].live = staged[r].live
             /\ staged'[r].bytes = staged[r].bytes
             /\ \A x \in Requests : x # r => staged'[x] = staged[x]
  <2>1. PICK e : e = [d EXCEPT !.fields = @ \union {f}]
    OBVIOUS
  <2>2. e \in Directory /\ e.live = d.live /\ e.bytes = d.bytes
    BY <2>1, SMTT(30) DEF Directory
  <2>3. staged' = [staged EXCEPT ![r] = e]
    BY <1>1, <1>3, <2>1
  <2> QED BY <1>1, <2>2, <2>3
<1>4. ASSUME NEW n \in Nat, staged' = [staged EXCEPT ![r].bytes = @ + n]
      PROVE  /\ staged' \in [Requests -> Directory] /\ staged'[r].live = staged[r].live
             /\ staged'[r].bytes = staged[r].bytes + n
             /\ \A x \in Requests : x # r => staged'[x] = staged[x]
  <2>1. PICK e : e = [d EXCEPT !.bytes = @ + n]
    OBVIOUS
  <2>2. e \in Directory /\ e.live = d.live /\ e.bytes = d.bytes + n
    BY <2>1, SMTT(30) DEF Directory
  <2>3. staged' = [staged EXCEPT ![r] = e]
    BY <1>1, <1>4, <2>1
  <2> QED BY <1>1, <2>2, <2>3
<1> QED BY <1>3, <1>4

\* An upload's directory is created.
LEMMA CreateStep ==
    ASSUME NEW r \in Requests, HttpInv, create(r)
    PROVE  HttpInv'
<1>1. requestAt[r] = "create" /\ Reads(r)
  BY DEF create, Reads
<1>2. CASE DropUpload(r)
  BY <1>1, <1>2, DropStep
<1>3. CASE /\ Move(r, "parts")
           /\ staged' = [staged EXCEPT ![r] = [live |-> TRUE, fields |-> {}, bytes |-> 0]]
           /\ UNCHANGED <<queue, held, connected, field>> /\ UNCHANGED Registry
  <2>1. /\ requestAt' \in [Requests -> Places] /\ requestAt'[r] = "parts"
        /\ \A x \in Requests : x # r => requestAt'[x] = requestAt[x]
    BY <1>3, MoveIs DEF Places
  <2>2. PICK d \in Directory : d = [live |-> TRUE, fields |-> {}, bytes |-> 0]
    BY DEF Directory
  <2>3. d.live /\ d.bytes = 0
    BY <2>2
  <2>4. d.bytes <= MaxAggregate
    BY <2>3, HttpAssumption, SMTT(30)
  <2>5. /\ staged' \in [Requests -> Directory] /\ staged'[r] = d
        /\ \A x \in Requests : x # r => staged'[x] = staged[x]
    BY <1>3, <2>2, ReadingIs
  <2> QED BY <1>1, <1>3, <2>1, <2>3, <2>4, <2>5, ReadingIs, ReadOn
<1> QED BY <1>2, <1>3 DEF create

\* A text field is read.
LEMMA TextStep ==
    ASSUME NEW r \in Requests, HttpInv, read_text_part(r)
    PROVE  HttpInv'
<1>1. requestAt[r] = "parts" /\ Reads(r)
  BY DEF read_text_part, Reads
<1>2. CASE DropUpload(r)
  BY <1>1, <1>2, DropStep
<1>3. ASSUME NEW f \in Texts, staged' = [staged EXCEPT ![r].fields = @ \union {f}],
             UNCHANGED <<requestAt, queue, held, connected, field>>, UNCHANGED Registry
      PROVE  HttpInv'
  <2>1. staged[r].live
    BY <1>1, ReadingIs
  <2>2. /\ staged' \in [Requests -> Directory] /\ staged'[r].live = staged[r].live
        /\ staged'[r].bytes = staged[r].bytes
        /\ \A x \in Requests : x # r => staged'[x] = staged[x]
    BY <1>3, ReadingIs, SMTT(30) DEF Directory
  <2> QED BY <1>1, <1>3, <2>1, <2>2, ReadingIs, ReadOn
<1> QED BY <1>2, <1>3 DEF read_text_part

\* A file field is begun.
LEMMA OpenStep ==
    ASSUME NEW r \in Requests, HttpInv, OpenPart(r)
    PROVE  HttpInv'
<1>1. requestAt[r] = "parts" /\ Reads(r) /\ Move(r, "open") /\ UNCHANGED <<queue, held, staged>>
      /\ UNCHANGED Registry
  BY DEF OpenPart, Reads
<1>2. PICK f \in Files : field' = [field EXCEPT ![r] = [file |-> f, bytes |-> 0]]
  BY DEF OpenPart
<1>3. /\ requestAt' \in [Requests -> Places] /\ requestAt'[r] = "open"
      /\ \A x \in Requests : x # r => requestAt'[x] = requestAt[x]
  BY <1>1, MoveIs DEF Places
<1>4. /\ field' \in [Requests -> [file : Files \union {Nobody}, bytes : Nat]]
      /\ field'[r].file = f /\ \A x \in Requests : x # r => field'[x] = field[x]
  BY <1>2, ReadingIs, SMTT(30)
<1> QED BY <1>1, <1>3, <1>4, ReadingIs, ReadOn

\* The file of a field is there.
LEMMA OpenedStep ==
    ASSUME NEW r \in Requests, HttpInv, Opened(r)
    PROVE  HttpInv'
<1>1. requestAt[r] = "open" /\ Reads(r)
  BY DEF Opened, Reads
<1>2. CASE DropUpload(r)
  BY <1>1, <1>2, DropStep
<1>3. CASE Move(r, "chunk") /\ UNCHANGED <<queue, held, connected, staged, field>> /\ UNCHANGED Registry
  <2>1. /\ requestAt' \in [Requests -> Places] /\ requestAt'[r] = "chunk"
        /\ \A x \in Requests : x # r => requestAt'[x] = requestAt[x]
    BY <1>3, MoveIs DEF Places
  <2> QED BY <1>1, <1>3, <2>1, ReadingIs, ReadOn
<1> QED BY <1>2, <1>3 DEF Opened

\* A chunk is written when the sizes allow it.
LEMMA ChunkStep ==
    ASSUME NEW r \in Requests, HttpInv, write_file_part(r)
    PROVE  HttpInv'
<1>1. requestAt[r] = "chunk" /\ Reads(r)
  BY DEF write_file_part, Reads
<1>2. CASE DropUpload(r)
  BY <1>1, <1>2, DropStep
<1>3. ASSUME NEW n \in 1 .. MaxChunk, Fits(r, n), field' = [field EXCEPT ![r].bytes = @ + n],
             staged' = [staged EXCEPT ![r].bytes = @ + n],
             UNCHANGED <<requestAt, queue, held, connected>>, UNCHANGED Registry
      PROVE  HttpInv'
  <2>1. n \in Nat /\ staged[r].bytes + n <= MaxAggregate
    BY <1>3, HttpAssumption, SMTT(30) DEF Fits
  <2>2. /\ staged \in [Requests -> Directory] /\ staged[r].bytes \in Nat /\ staged[r].live
        /\ field \in [Requests -> [file : Files \union {Nobody}, bytes : Nat]]
        /\ field[r].bytes \in Nat /\ field[r].file \in Files /\ requestAt \in [Requests -> Places]
    BY <1>1, ReadingIs
  <2>3. /\ staged' \in [Requests -> Directory] /\ staged'[r].live = staged[r].live
        /\ staged'[r].bytes = staged[r].bytes + n
        /\ \A x \in Requests : x # r => staged'[x] = staged[x]
    BY <1>3, <2>1, <2>2, DirectoryIs
  <2>4. /\ field' \in [Requests -> [file : Files \union {Nobody}, bytes : Nat]]
        /\ field'[r].file = field[r].file
        /\ \A x \in Requests : x # r => field'[x] = field[x]
    BY <1>3, <2>1, <2>2, SMTT(30)
  <2> QED BY <1>1, <1>3, <2>1, <2>2, <2>3, <2>4, ReadOn
<1> QED BY <1>2, <1>3 DEF write_file_part

\* A file field is complete.
LEMMA EndPartStep ==
    ASSUME NEW r \in Requests, HttpInv, EndPart(r)
    PROVE  HttpInv'
<1>1. /\ requestAt[r] = "chunk" /\ Reads(r) /\ Move(r, "parts") /\ UNCHANGED <<queue, held>>
      /\ UNCHANGED Registry /\ staged' = [staged EXCEPT ![r].fields = @ \union {field[r].file}]
      /\ field' = [field EXCEPT ![r] = [file |-> Nobody, bytes |-> 0]]
  BY DEF EndPart, Reads
<1>2. /\ requestAt' \in [Requests -> Places] /\ requestAt'[r] = "parts"
      /\ \A x \in Requests : x # r => requestAt'[x] = requestAt[x]
  BY <1>1, MoveIs DEF Places
<1>3. /\ staged \in [Requests -> Directory] /\ staged[r].live /\ field[r].file \in Files
      /\ staged[r].fields \in SUBSET (Files \union Texts) /\ staged[r].bytes <= MaxAggregate
      /\ field \in [Requests -> [file : Files \union {Nobody}, bytes : Nat]]
  BY <1>1, ReadingIs
<1>4. /\ staged' \in [Requests -> Directory] /\ staged'[r].live = staged[r].live
      /\ staged'[r].bytes = staged[r].bytes
      /\ \A x \in Requests : x # r => staged'[x] = staged[x]
  BY <1>1, <1>3, DirectoryIs
<1>5. /\ field' \in [Requests -> [file : Files \union {Nobody}, bytes : Nat]]
      /\ \A x \in Requests : x # r => field'[x] = field[x]
  BY <1>1, <1>3, SMTT(30)
<1> QED BY <1>1, <1>2, <1>3, <1>4, <1>5, ReadOn

\* An upload with every field waits for the gate of its project.
LEMMA MultipartStep ==
    ASSUME NEW r \in Requests, HttpInv, from_multipart(r)
    PROVE  HttpInv'
<1>1. /\ requestAt[r] = "parts" /\ Complete(r) /\ Move(r, "gate") /\ UNCHANGED Registry
      /\ queue' = Enqueue(r, FirstGate(r), queue) /\ UNCHANGED <<held, staged, field>>
  BY DEF from_multipart
<1>2. /\ requestAt' \in [Requests -> Places] /\ requestAt'[r] = "gate"
      /\ \A x \in Requests : x # r => requestAt'[x] = requestAt[x]
  BY <1>1, MoveIs DEF Places
<1>3. \A h \in Gates : ~Waits(r, queue[h])
  BY <1>1, NoneAwaited
<1>4. FirstGate(r) = ProjectGate[r] /\ ProjectGate[r] \in Gates /\ "overall" \in Gates
  BY AcquireIs, GatesOf
<1>5. /\ queue' \in Lines /\ \A h \in Gates : Distinct(queue'[h])
      /\ \A h \in Gates : \A x :
           Waits(x, queue'[h]) <=> Waits(x, queue[h]) \/ (h = ProjectGate[r] /\ x = r)
  BY <1>1, <1>3, <1>4, Join
<1>6. HttpTypeOK' /\ GatesAreSound' /\ OthersStay(r)
  <2>1. HttpTypeOK' /\ GatesAreSound'
    BY <1>1, <1>2, <1>5 DEF HttpInv, HttpTypeOK, GatesAreSound, Registry
  <2>2. \A x \in Requests : x # r => \A h \in Gates : Waits(x, queue'[h]) <=> Waits(x, queue[h])
    BY <1>5
  <2> QED BY <1>1, <1>2, <2>1, <2>2 DEF OthersStay
<1>7. KindOf[r] = "upload" /\ r \in held["uploads"] /\ r \notin held["overall"] /\ staged[r].live
  BY <1>1 DEF HttpInv, RequestIsSound, HoldsItsGates, StagedWell
<1>8. RequestIsSound(r)'
  <2>1. QueuedWell(r)'
    BY <1>2, <1>3, <1>4, <1>5 DEF QueuedWell
  <2>2. HoldsItsGates(r)'
    BY <1>1, <1>2, <1>7 DEF HoldsItsGates
  <2>3. staged[r].fields = Files \union Texts
    BY <1>1, ReadingIs DEF Complete
  <2>4. StagedWell(r)'
    BY <1>1, <1>2, <1>7, <2>3, ReadingIs DEF StagedWell
  <2> QED BY <2>1, <2>2, <2>4 DEF RequestIsSound
<1> QED BY <1>1, <1>2, <1>6, <1>7, <1>8, QuietRequest

-----------------------------------------------------------------------------
(* Gates and work *)

\* With the gate of its project, a request waits for the overall one.
LEMMA PassStep ==
    ASSUME NEW r \in Requests, HttpInv, PassGate(r)
    PROVE  HttpInv'
<1>1. PICK g : g = ProjectGate[r]
  OBVIOUS
<1>2. /\ requestAt[r] = "gate" /\ Granted(r, g) /\ held' = [held EXCEPT ![g] = @ \union {r}]
      /\ queue' = Enqueue(r, "overall", Dequeue(r, queue))
      /\ UNCHANGED <<requestAt, staged, field>> /\ UNCHANGED Registry
      /\ g # "overall"
  BY <1>1, AcquireIs DEF PassGate
<1>3. g \in Gates /\ "overall" \in Gates /\ "uploads" \in Gates /\ g # "uploads"
  BY <1>1, GatesOf
<1>4. /\ held' \in [Gates -> SUBSET Requests]
      /\ \A h \in Gates : Cardinality(held'[h]) <= Limit(h)
      /\ \A h \in Gates : \A x : x \in held'[h] <=> x \in held[h] \/ (h = g /\ x = r)
  BY <1>2, <1>3, Grant
<1>5. PICK q : q = Dequeue(r, queue)
  OBVIOUS
<1>6. /\ q \in Lines /\ \A h \in Gates : Distinct(q[h])
      /\ \A h \in Gates : \A x : Waits(x, q[h]) <=> Waits(x, queue[h]) /\ x # r
  <2>1. queue \in Lines /\ AllDistinct(queue)
    BY DEF HttpInv, HttpTypeOK, GatesAreSound, AllDistinct
  <2>2. q \in Lines /\ AllDistinct(q) /\ Left(q, queue, r)
    BY <1>5, <2>1, DequeueIs
  <2> QED BY <2>2 DEF AllDistinct, Left
<1>7. /\ queue' \in Lines /\ \A h \in Gates : Distinct(queue'[h])
      /\ \A h \in Gates : \A x : Waits(x, queue'[h]) <=> Waits(x, q[h]) \/ (h = "overall" /\ x = r)
  <2>1. AllDistinct(q) /\ ~Waits(r, q["overall"])
    BY <1>3, <1>6 DEF AllDistinct
  <2>2. queue' = Enqueue(r, "overall", q)
    BY <1>2, <1>5
  <2>3. queue' \in Lines /\ AllDistinct(queue') /\ Joined(queue', q, "overall", r)
    BY <1>3, <1>6, <2>1, <2>2, EnqueueIs
  <2> QED BY <2>3 DEF AllDistinct, Joined
<1>8. HttpTypeOK' /\ GatesAreSound' /\ OthersStay(r)
  <2>1. HttpTypeOK' /\ GatesAreSound'
    BY <1>2, <1>4, <1>7 DEF HttpInv, HttpTypeOK, GatesAreSound, Registry
  <2>2. \A x \in Requests : x # r => \A h \in Gates : Waits(x, queue'[h]) <=> Waits(x, queue[h])
    BY <1>6, <1>7
  <2>3. \A x \in Requests : x # r => \A h \in Gates : x \in held'[h] <=> x \in held[h]
    BY <1>4
  <2> QED BY <1>2, <2>1, <2>2, <2>3 DEF OthersStay
<1>9. RequestIsSound(r)'
  <2>1. \A h \in Gates : Waits(r, queue'[h]) => h = "overall"
    BY <1>6, <1>7
  <2>2. r \in held'[ProjectGate[r]]
    BY <1>1, <1>3, <1>4
  <2>3. QueuedWell(r)'
    BY <1>2, <2>1, <2>2 DEF QueuedWell
  <2>4. HoldsItsGates(r)'
    BY <1>2, <1>3, <1>4 DEF HttpInv, RequestIsSound, HoldsItsGates
  <2>5. StagedWell(r)'
    BY <1>2 DEF HttpInv, RequestIsSound, StagedWell
  <2> QED BY <2>3, <2>4, <2>5 DEF RequestIsSound
<1> QED BY <1>2, <1>8, <1>9, QuietRequest

\* An entry that was queued is running, and nothing else of it changes.
LEMMA MarkIs ==
    ASSUME NEW r \in Requests, HttpInv, mark_running(r)
    PROVE  /\ DOMAIN entries' = DOMAIN entries /\ entries' \in [DOMAIN entries -> Entry]
           /\ \A x \in DOMAIN entries :
                /\ entries'[x].submitted = entries[x].submitted
                /\ entries'[x].completed = entries[x].completed
                /\ operation_is_terminal(entries'[x].state) => operation_is_terminal(entries[x].state)
                /\ x # r => entries'[x].state = entries[x].state
                /\ x = r /\ entries[r].state = "queued" => entries'[r].state = "running"
<1>1. entries \in [DOMAIN entries -> Entry]
  BY DEF HttpInv, HttpTypeOK
<1>2. CASE r \in DOMAIN entries /\ entries[r].state = "queued"
  <2>1. PICK e \in Entry : e = entries[r]
    BY <1>1, <1>2
  <2>2. PICK f : f = [e EXCEPT !.state = "running"]
    OBVIOUS
  <2>3. /\ f \in Entry /\ f.submitted = e.submitted /\ f.completed = e.completed
        /\ f.state = "running"
    BY <2>2, SMTT(30) DEF Entry
  <2>4. entries' = [entries EXCEPT ![r] = f]
    BY <1>2, <2>1, <2>2 DEF mark_running
  <2>5. ~operation_is_terminal("running")
    BY DEF operation_is_terminal
  <2> QED BY <1>1, <1>2, <2>1, <2>3, <2>4, <2>5
<1>3. CASE ~(r \in DOMAIN entries /\ entries[r].state = "queued")
  BY <1>1, <1>3 DEF mark_running
<1> QED BY <1>2, <1>3

\* With both gates the closure is dispatched, and an operation is running.
LEMMA RunStep ==
    ASSUME NEW r \in Requests, HttpInv, run_blocking_after_acquire(r)
    PROVE  HttpInv'
<1>1. /\ requestAt[r] = "gate" /\ Granted(r, "overall") /\ Move(r, "run") /\ mark_running(r)
      /\ held' = [held EXCEPT !["overall"] = @ \union {r}] /\ queue' = Dequeue(r, queue)
      /\ UNCHANGED <<staged, field, order, last, outcome>>
  BY AcquireIs DEF run_blocking_after_acquire
<1>2. /\ requestAt' \in [Requests -> Places] /\ requestAt'[r] = "run"
      /\ \A x \in Requests : x # r => requestAt'[x] = requestAt[x]
  BY <1>1, MoveIs DEF Places
<1>3. /\ "overall" \in Gates /\ "uploads" \in Gates /\ ProjectGate[r] \in Gates
  BY GatesOf
<1>4. /\ Waits(r, queue["overall"]) /\ held' \in [Gates -> SUBSET Requests]
      /\ \A h \in Gates : Cardinality(held'[h]) <= Limit(h)
      /\ \A h \in Gates : \A x : x \in held'[h] <=> x \in held[h] \/ (h = "overall" /\ x = r)
  BY <1>1, <1>3, Grant
<1>5. /\ queue' \in Lines /\ \A h \in Gates : Distinct(queue'[h])
      /\ \A h \in Gates : \A x : Waits(x, queue'[h]) <=> Waits(x, queue[h]) /\ x # r
  BY <1>1, Leave
<1>6. /\ DOMAIN entries' = DOMAIN entries /\ entries' \in [DOMAIN entries -> Entry]
      /\ \A x \in DOMAIN entries :
           /\ entries'[x].submitted = entries[x].submitted
           /\ entries'[x].completed = entries[x].completed
           /\ operation_is_terminal(entries'[x].state) => operation_is_terminal(entries[x].state)
           /\ x # r => entries'[x].state = entries[x].state
           /\ x = r /\ entries[r].state = "queued" => entries'[r].state = "running"
  BY <1>1, MarkIs
<1>7. HttpTypeOK' /\ GatesAreSound'
  BY <1>1, <1>2, <1>4, <1>5, <1>6 DEF HttpInv, HttpTypeOK, GatesAreSound
<1>8. OthersStay(r)
  BY <1>1, <1>2, <1>4, <1>5 DEF OthersStay
<1>9. RequestIsSound(r)'
  <2>1. QueuedWell(r)'
    BY <1>5 DEF QueuedWell
  <2>2. r \in held[ProjectGate[r]] \/ ProjectGate[r] = "overall"
    BY <1>1, <1>3, <1>4 DEF HttpInv, RequestIsSound, QueuedWell
  <2>3. r \in held'["overall"] /\ r \in held'[ProjectGate[r]]
    BY <1>3, <1>4, <2>2
  <2>4. KindOf[r] = "upload" => r \in held'["uploads"]
    BY <1>1, <1>3, <1>4 DEF HttpInv, RequestIsSound, HoldsItsGates
  <2>5. HoldsItsGates(r)'
    BY <1>2, <2>3, <2>4 DEF HoldsItsGates
  <2>6. StagedWell(r)'
    BY <1>1, <1>2 DEF HttpInv, RequestIsSound, StagedWell
  <2> QED BY <2>1, <2>5, <2>6 DEF RequestIsSound
<1>10. \A x \in Requests : RequestIsSound(x)'
  BY <1>8, <1>9, OthersSound DEF HttpInv
<1>11. RegistryIsSound'
  <2>1. \A x \in Requests : x \in DOMAIN entries => requestAt'[x] # "new" /\ requestAt'[x] # "away"
    BY <1>2 DEF HttpInv, RegistryIsSound
  <2>2. \A x \in Requests : requestAt'[x] = "record" => requestAt[x] = "record"
    BY <1>2
  <2>3. DOMAIN entries \subseteq Requests
    BY DEF HttpInv, HttpTypeOK
  <2> QED BY <1>1, <1>6, <2>1, <2>2, <2>3 DEF HttpInv, RegistryIsSound
<1>12. AcceptedIsListed'
  BY <1>1, <1>2, <1>6 DEF HttpInv, AcceptedIsPollable, AcceptedIsListed
<1>13. TimesNeverRetreat'
  <2>1. \A i \in 1 .. Len(order) : order[i] \in DOMAIN entries
    BY DEF HttpInv, RegistryIsSound
  <2> QED BY <1>1, <1>6, <2>1 DEF HttpInv, AcceptedIsPollable, TimesNeverRetreat
<1> QED BY <1>7, <1>10, <1>11, <1>12, <1>13 DEF HttpInv, AcceptedIsPollable

\* A closure ends with its permits and its directory.
LEMMA EndWorkStep ==
    ASSUME NEW r \in Requests, HttpInv, EndWork(r)
    PROVE  HttpInv'
<1>1. /\ requestAt[r] = "run" /\ held' = [g \in Gates |-> held[g] \ {r}]
      /\ staged' = [staged EXCEPT ![r] = NoDirectory]
      /\ UNCHANGED <<queue, field, entries, order, last>>
  BY DEF EndWork
<1>2. \/ KindOf[r] # "operation" /\ requestAt' = [requestAt EXCEPT ![r] = "end"] /\ UNCHANGED outcome
      \/ /\ KindOf[r] = "operation" /\ requestAt' = [requestAt EXCEPT ![r] = "record"]
         /\ \E o \in {"succeeded", "failed", "outcome_unknown"} : outcome' = [outcome EXCEPT ![r] = o]
  BY DEF EndWork, Move
<1>3. /\ requestAt' \in [Requests -> Places] /\ requestAt'[r] \in {"end", "record"}
      /\ requestAt'[r] = "record" => KindOf[r] = "operation"
      /\ \A x \in Requests : x # r => requestAt'[x] = requestAt[x]
  <2>1. requestAt \in [Requests -> Places] /\ "end" \in Places /\ "record" \in Places
    BY DEF HttpInv, HttpTypeOK, Places
  <2> QED BY <1>2, <2>1
<1>4. /\ outcome' \in [Requests -> {"none", "succeeded", "failed", "outcome_unknown"}]
      /\ requestAt'[r] = "record" => operation_is_terminal(outcome'[r])
      /\ \A x \in Requests : x # r => outcome'[x] = outcome[x]
  BY <1>2 DEF HttpInv, HttpTypeOK, operation_is_terminal
<1>5. /\ held' \in [Gates -> SUBSET Requests]
      /\ \A h \in Gates : Cardinality(held'[h]) <= Limit(h)
      /\ \A h \in Gates : \A x : x \in held'[h] <=> x \in held[h] /\ x # r
  BY <1>1, Release
<1>6. NoDirectory \in Directory /\ ~NoDirectory.live /\ NoDirectory.bytes = 0
  BY SMTT(30) DEF Directory, NoDirectory
<1>7. /\ staged' \in [Requests -> Directory] /\ staged'[r] = NoDirectory
      /\ \A x \in Requests : x # r => staged'[x] = staged[x]
  BY <1>1, <1>6 DEF HttpInv, HttpTypeOK
<1>8. HttpTypeOK' /\ GatesAreSound' /\ OthersStay(r)
  BY <1>1, <1>3, <1>4, <1>5, <1>7 DEF HttpInv, HttpTypeOK, GatesAreSound, OthersStay
<1>9. RequestIsSound(r)'
  <2>1. \A h \in Gates : ~Waits(r, queue'[h])
    BY <1>1, NoneAwaited
  <2>2. "overall" \in Gates
    BY GatesOf
  <2>3. QueuedWell(r)' /\ HoldsItsGates(r)'
    BY <1>3, <1>5, <2>1, <2>2 DEF QueuedWell, HoldsItsGates
  <2>4. NoDirectory.bytes <= MaxAggregate
    BY <1>6, HttpAssumption, SMTT(30)
  <2>5. StagedWell(r)'
    BY <1>3, <1>6, <1>7, <2>4 DEF StagedWell
  <2> QED BY <2>3, <2>5 DEF RequestIsSound
<1>10. \A x \in Requests : RequestIsSound(x)'
  BY <1>8, <1>9, OthersSound DEF HttpInv
<1>11. RegistryIsSound'
  <2>1. \A x \in Requests : x \in DOMAIN entries => requestAt'[x] # "new" /\ requestAt'[x] # "away"
    BY <1>3 DEF HttpInv, RegistryIsSound
  <2>2. \A x \in Requests : requestAt'[x] = "record" =>
          KindOf[x] = "operation" /\ operation_is_terminal(outcome'[x])
    BY <1>3, <1>4 DEF HttpInv, RegistryIsSound
  <2>3. DOMAIN entries \subseteq Requests
    BY DEF HttpInv, HttpTypeOK
  <2> QED BY <1>1, <2>1, <2>2, <2>3 DEF HttpInv, RegistryIsSound
<1>12. AcceptedIsPollable'
  BY <1>1, <1>3 DEF HttpInv, AcceptedIsPollable, AcceptedIsListed, TimesNeverRetreat
<1> QED BY <1>8, <1>10, <1>11, <1>12 DEF HttpInv

\* A client goes away: its handler ends with what it has, or leaves its closure
\* everything.
LEMMA DisconnectStep ==
    ASSUME NEW r \in Requests, HttpInv, Disconnect(r)
    PROVE  HttpInv'
<1>1. CASE DropHandler(r)
  <2>1. /\ Move(r, "end") /\ queue' = Dequeue(r, queue) /\ held' = [g \in Gates |-> held[g] \ {r}]
        /\ staged' = [staged EXCEPT ![r] = NoDirectory]
        /\ field' = [field EXCEPT ![r] = [file |-> Nobody, bytes |-> 0]] /\ UNCHANGED Registry
    BY <1>1 DEF DropHandler
  <2>2. /\ requestAt' \in [Requests -> Places] /\ requestAt'[r] = "end"
        /\ \A x \in Requests : x # r => requestAt'[x] = requestAt[x]
    BY <2>1, MoveIs DEF Places
  <2>3. /\ held' \in [Gates -> SUBSET Requests]
        /\ \A h \in Gates : Cardinality(held'[h]) <= Limit(h)
        /\ \A h \in Gates : \A x : x \in held'[h] <=> x \in held[h] /\ x # r
    BY <2>1, Release
  <2>4. /\ queue' \in Lines /\ \A h \in Gates : Distinct(queue'[h])
        /\ \A h \in Gates : \A x : Waits(x, queue'[h]) <=> Waits(x, queue[h]) /\ x # r
    BY <2>1, Leave
  <2>5. /\ staged' \in [Requests -> Directory] /\ staged'[r] = NoDirectory
        /\ \A x \in Requests : x # r => staged'[x] = staged[x]
    BY <2>1, SMTT(30) DEF HttpInv, HttpTypeOK, Directory, NoDirectory
  <2>6. /\ field' \in [Requests -> [file : Files \union {Nobody}, bytes : Nat]]
        /\ \A x \in Requests : x # r => field'[x] = field[x]
    BY <2>1, SMTT(30) DEF HttpInv, HttpTypeOK
  <2>7. HttpTypeOK' /\ GatesAreSound'
    BY <2>1, <2>2, <2>3, <2>4, <2>5, <2>6 DEF HttpInv, HttpTypeOK, GatesAreSound, Registry
  <2>8. OthersStay(r)
    BY <2>2, <2>3, <2>4, <2>5, <2>6 DEF OthersStay
  <2>9. RequestIsSound(r)'
    BY <2>2, <2>3, <2>4, <2>5, EndsWell
  <2> QED BY <2>1, <2>2, <2>7, <2>8, <2>9, QuietRequest
<1>2. CASE DetachHandler(r)
  <2>1. Taken(r).gates = {} /\ ~Taken(r).directory
    BY DEF Taken
  <2>2. /\ held' = held /\ staged' = staged /\ UNCHANGED <<requestAt, queue, field>>
        /\ UNCHANGED Registry
    BY <1>2, <2>1 DEF DetachHandler, HttpInv, HttpTypeOK
  <2>3. HttpTypeOK' /\ GatesAreSound' /\ OthersStay(r) /\ RequestIsSound(r)'
    BY <2>2 DEF HttpInv, HttpTypeOK, GatesAreSound, OthersStay, Registry, RequestIsSound,
                QueuedWell, HoldsItsGates, StagedWell
  <2> QED BY <2>2, <2>3, QuietRequest
<1> QED BY <1>1, <1>2 DEF Disconnect

-----------------------------------------------------------------------------
(* Maintenance operations *)

\* A time that is handed out is not before the last one.
LEMMA TimestampIs ==
    ASSUME NEW observed \in {NoTime} \union (0 .. MaxClock), last \in Nat \union {NoTime},
           NEW at, at = monotonic_operation_timestamp(observed)
    PROVE  /\ at # NoTime => at \in Nat
           /\ last # NoTime => at \in Nat /\ last <= at
<1>1. NoTime \notin Nat /\ MaxClock \in Nat
  BY HttpAssumption
<1>2. CASE last = NoTime
  BY <1>1, <1>2, SMTT(30) DEF monotonic_operation_timestamp
<1>3. CASE last # NoTime /\ observed = NoTime
  BY <1>1, <1>3, SMTT(30) DEF monotonic_operation_timestamp
<1>4. CASE last # NoTime /\ observed # NoTime
  BY <1>1, <1>4, SMTT(30) DEF monotonic_operation_timestamp
<1> QED BY <1>2, <1>3, <1>4

\* An operation is accepted: at most one entry goes for it, and that had ended.
LEMMA ReserveStep ==
    ASSUME NEW r \in Requests, HttpInv, reserve_at(r)
    PROVE  HttpInv'
<1>1. /\ requestAt[r] = "new" /\ KindOf[r] = "operation" /\ Move(r, "gate")
      /\ queue' = Enqueue(r, FirstGate(r), queue) /\ UNCHANGED <<held, staged, field, outcome>>
  BY DEF reserve_at
<1>2. PICK observed \in {NoTime} \union (0 .. MaxClock), i \in IF Full THEN Evictable ELSE {0} :
        LET at == monotonic_operation_timestamp(observed)
            kept == IF i = 0 THEN DOMAIN entries ELSE DOMAIN entries \ {order[i]}
        IN  /\ at # NoTime
            /\ last' = at
            /\ order' = Append(IF i = 0 THEN order ELSE Cut(order, i), r)
            /\ entries' = [x \in kept \union {r} |->
                             IF x = r THEN [state |-> "queued", submitted |-> at, completed |-> NoTime]
                             ELSE entries[x]]
  BY DEF reserve_at
<1>3. PICK at, kept, o, e : /\ at = monotonic_operation_timestamp(observed)
                            /\ kept = IF i = 0 THEN DOMAIN entries ELSE DOMAIN entries \ {order[i]}
                            /\ o = IF i = 0 THEN order ELSE Cut(order, i)
                            /\ e = [state |-> "queued", submitted |-> at, completed |-> NoTime]
  OBVIOUS
<1>4. /\ at # NoTime /\ last' = at /\ order' = Append(o, r)
      /\ entries' = [x \in kept \union {r} |-> IF x = r THEN e ELSE entries[x]]
  BY <1>2, <1>3
<1>5. at \in Nat /\ (last # NoTime => last <= at) /\ NoTime \notin Nat
  BY <1>3, <1>4, TimestampIs, HttpAssumption DEF HttpInv, HttpTypeOK
<1>6. e \in Entry /\ e.state = "queued" /\ e.submitted = at
  BY <1>3, <1>5 DEF Entry
<1>7. r \notin DOMAIN entries /\ DOMAIN entries \subseteq Requests /\ entries \in [DOMAIN entries -> Entry]
  BY <1>1 DEF HttpInv, HttpTypeOK, RegistryIsSound
<1>8. /\ o \in Line /\ Distinct(o)
      /\ \A j \in 1 .. Len(o) : o[j] \in kept
      /\ \A j, k \in 1 .. Len(o) : j < k => entries[o[j]].submitted <= entries[o[k]].submitted
      /\ kept \subseteq DOMAIN entries
      /\ \A x \in DOMAIN entries : x \in kept \/ operation_is_terminal(entries[x].state)
  <2>1. /\ order \in Line /\ Distinct(order)
        /\ \A j \in 1 .. Len(order) : order[j] \in DOMAIN entries
        /\ \A j, k \in 1 .. Len(order) : j < k =>
             entries[order[j]].submitted <= entries[order[k]].submitted
    BY DEF HttpInv, HttpTypeOK, RegistryIsSound, AcceptedIsPollable, TimesNeverRetreat
  <2>2. CASE i = 0
    <3>1. o = order /\ kept = DOMAIN entries
      BY <1>3, <2>2
    <3> QED BY <2>1, <3>1
  <2>3. CASE i # 0
    <3>1. i \in 1 .. Len(order) /\ operation_is_terminal(entries[order[i]].state)
      BY <2>3 DEF Evictable
    <3>2. o = Cut(order, i) /\ kept = DOMAIN entries \ {order[i]}
      BY <1>3, <2>3
    <3>3. o \in Line /\ Shifted(o, order, i)
      BY <2>1, <3>1, <3>2, CutAt
    <3>4. Ordered(o, order)
      BY <3>1, <3>3, CutOrder
    <3>5. Distinct(o) /\ \A x : Waits(x, o) <=> Waits(x, order) /\ x # order[i]
      BY <2>1, <3>1, <3>3, CutIs
    <3>6. \A j \in 1 .. Len(o) : o[j] \in kept
      <4> SUFFICES ASSUME NEW j \in 1 .. Len(o)
                   PROVE  o[j] \in kept
        OBVIOUS
      <4>1. Waits(o[j], o)
        BY DEF Waits
      <4>2. Waits(o[j], order) /\ o[j] # order[i]
        BY <3>5, <4>1
      <4> QED BY <2>1, <3>2, <4>2 DEF Waits
    <3>7. \A j, k \in 1 .. Len(o) : j < k => entries[o[j]].submitted <= entries[o[k]].submitted
      <4> SUFFICES ASSUME NEW j \in 1 .. Len(o), NEW k \in 1 .. Len(o), j < k
                   PROVE  entries[o[j]].submitted <= entries[o[k]].submitted
        OBVIOUS
      <4>1. \E m, n \in 1 .. Len(order) : m < n /\ o[j] = order[m] /\ o[k] = order[n]
        BY <3>4 DEF Ordered
      <4> QED BY <2>1, <4>1
    <3> QED BY <3>1, <3>2, <3>3, <3>5, <3>6, <3>7
  <2> QED BY <2>2, <2>3
<1>9. PICK n \in Nat : n = Len(o)
  BY <1>8, SMTT(30) DEF Line
<1>10. /\ order' \in Line /\ order'[n + 1] = r /\ \A j \in 1 .. n : order'[j] = o[j]
       /\ 1 .. Len(order') = 1 .. n \union {n + 1} /\ n + 1 \notin 1 .. n
  BY <1>4, <1>8, <1>9, SMTT(30) DEF Line
<1>11. /\ DOMAIN entries' = kept \union {r} /\ entries'[r] = e
       /\ \A x \in kept : x # r /\ entries'[x] = entries[x]
       /\ entries' \in [kept \union {r} -> Entry]
  BY <1>4, <1>6, <1>7, <1>8
<1>12. /\ requestAt' \in [Requests -> Places] /\ requestAt'[r] = "gate"
       /\ \A x \in Requests : x # r => requestAt'[x] = requestAt[x]
  BY <1>1, MoveIs DEF Places
<1>13. \A h \in Gates : ~Waits(r, queue[h])
  BY <1>1, NoneAwaited
<1>14. FirstGate(r) = ProjectGate[r] /\ ProjectGate[r] \in Gates /\ "overall" \in Gates
  BY AcquireIs, GatesOf
<1>15. /\ queue' \in Lines /\ \A h \in Gates : Distinct(queue'[h])
       /\ \A h \in Gates : \A x :
            Waits(x, queue'[h]) <=> Waits(x, queue[h]) \/ (h = ProjectGate[r] /\ x = r)
  BY <1>1, <1>13, <1>14, Join
<1>16. HttpTypeOK' /\ GatesAreSound'
  BY <1>1, <1>4, <1>5, <1>7, <1>8, <1>10, <1>11, <1>12, <1>15
     DEF HttpInv, HttpTypeOK, GatesAreSound
<1>17. OthersStay(r)
  <2>1. \A x \in Requests : x # r => \A h \in Gates : Waits(x, queue'[h]) <=> Waits(x, queue[h])
    BY <1>15
  <2> QED BY <1>1, <1>12, <2>1 DEF OthersStay
<1>18. \A x \in Requests : RequestIsSound(x)'
  <2>1. QueuedWell(r)'
    BY <1>12, <1>13, <1>14, <1>15 DEF QueuedWell
  <2>2. HoldsItsGates(r)' /\ StagedWell(r)'
    BY <1>1, <1>12 DEF HttpInv, RequestIsSound, HoldsItsGates, StagedWell
  <2>3. RequestIsSound(r)'
    BY <2>1, <2>2 DEF RequestIsSound
  <2> QED BY <1>17, <2>3, OthersSound DEF HttpInv
<1>19. \A x \in kept : /\ last # NoTime /\ entries[x].submitted <= last /\ entries[x].submitted \in Nat
                       /\ entries[x].submitted <= at
  <2> SUFFICES ASSUME NEW x \in kept
               PROVE  /\ last # NoTime /\ entries[x].submitted <= last /\ entries[x].submitted \in Nat
                      /\ entries[x].submitted <= at
    OBVIOUS
  <2>1. x \in DOMAIN entries /\ last # NoTime /\ entries[x].submitted <= last /\ entries[x] \in Entry
    BY <1>7, <1>8 DEF HttpInv, RegistryIsSound
  <2>2. entries[x].submitted \in Nat
    BY <2>1, SMTT(30) DEF Entry
  <2>3. last \in Nat
    BY <2>1 DEF HttpInv, HttpTypeOK
  <2>4. entries[x].submitted <= at
    BY <1>5, <2>1, <2>2, <2>3, SMTT(30)
  <2> QED BY <2>1, <2>2, <2>4
<1>20. at <= at
  BY <1>5, SMTT(30)
<1>21. RegistryIsSound'
  <2>1. Distinct(order')
    <3>1. \A j \in 1 .. n : o[j] # r
      BY <1>8, <1>9, <1>11
    <3>2. \A j, k \in 1 .. n : o[j] = o[k] => j = k
      BY <1>8, <1>9 DEF Distinct
    <3>3. ASSUME NEW j \in 1 .. n \union {n + 1}, NEW k \in 1 .. n \union {n + 1}, order'[j] = order'[k]
          PROVE  j = k
      BY <1>10, <3>1, <3>2, <3>3
    <3> QED BY <1>10, <3>3 DEF Distinct
  <2>2. \A j \in 1 .. Len(order') : order'[j] \in DOMAIN entries'
    BY <1>8, <1>9, <1>10, <1>11
  <2>3. \A x \in DOMAIN entries' : requestAt'[x] # "new" /\ requestAt'[x] # "away"
    BY <1>7, <1>8, <1>11, <1>12 DEF HttpInv, RegistryIsSound
  <2>4. \A x \in DOMAIN entries' : last' # NoTime /\ entries'[x].submitted <= last'
    BY <1>4, <1>6, <1>11, <1>19, <1>20
  <2>5. \A x \in Requests : requestAt'[x] = "record" => requestAt[x] = "record" /\ outcome'[x] = outcome[x]
    BY <1>1, <1>12
  <2> QED BY <2>1, <2>2, <2>3, <2>4, <2>5 DEF HttpInv, RegistryIsSound
<1>22. AcceptedIsListed'
  <2>1. ~operation_is_terminal("queued") /\ ~operation_is_terminal("running")
    BY DEF operation_is_terminal
  <2> QED BY <1>6, <1>8, <1>11, <1>12, <2>1 DEF HttpInv, AcceptedIsPollable, AcceptedIsListed
<1>23. TimesNeverRetreat'
  <2>1. ASSUME NEW j \in 1 .. n \union {n + 1}, NEW k \in 1 .. n \union {n + 1}, j < k
        PROVE  entries'[order'[j]].submitted <= entries'[order'[k]].submitted
    <3>1. j \in 1 .. n
      BY <2>1, SMTT(30)
    <3>2. order'[j] = o[j] /\ o[j] \in kept /\ entries'[o[j]] = entries[o[j]]
      BY <1>8, <1>9, <1>10, <1>11, <3>1
    <3>3. CASE k = n + 1
      BY <1>6, <1>10, <1>11, <1>19, <3>2, <3>3
    <3>4. CASE k \in 1 .. n
      BY <1>8, <1>9, <1>10, <1>11, <2>1, <3>1, <3>2, <3>4
    <3> QED BY <3>3, <3>4
  <2>2. ASSUME NEW x \in DOMAIN entries', operation_is_terminal(entries'[x].state)
        PROVE  entries'[x].submitted <= entries'[x].completed
    <3>1. x # r
      BY <1>6, <1>11, <2>2 DEF operation_is_terminal
    <3> QED BY <1>8, <1>11, <2>2, <3>1 DEF HttpInv, AcceptedIsPollable, TimesNeverRetreat
  <2> QED BY <1>10, <2>1, <2>2 DEF TimesNeverRetreat
<1> QED BY <1>16, <1>18, <1>21, <1>22, <1>23 DEF HttpInv, AcceptedIsPollable

\* An outcome is recorded, with a time that is not before the submission.
LEMMA FinishStep ==
    ASSUME NEW r \in Requests, HttpInv, finish_at(r)
    PROVE  HttpInv'
<1>1. /\ requestAt[r] = "record" /\ Move(r, "end")
      /\ UNCHANGED <<queue, held, staged, field, order, outcome>>
  BY DEF finish_at
<1>2. /\ requestAt' \in [Requests -> Places] /\ requestAt'[r] = "end"
      /\ \A x \in Requests : x # r => requestAt'[x] = requestAt[x]
  BY <1>1, MoveIs DEF Places
<1>3. OthersStay(r) /\ GatesAreSound'
  BY <1>1, <1>2 DEF OthersStay, HttpInv, GatesAreSound
<1>4. RequestIsSound(r)'
  <2>1. \A h \in Gates : ~Waits(r, queue[h])
    BY <1>1, NoneAwaited
  <2>2. RequestIsSound(r)
    BY DEF HttpInv
  <2> QED BY <1>1, <1>2, <2>1, <2>2 DEF RequestIsSound, QueuedWell, HoldsItsGates, StagedWell
<1>5. CASE UNCHANGED <<last, entries>>
  <2>1. HttpTypeOK' /\ UNCHANGED Registry
    BY <1>1, <1>2, <1>5 DEF HttpInv, HttpTypeOK, Registry
  <2> QED BY <1>2, <1>3, <1>4, <2>1, QuietRequest
<1>6. ASSUME r \in Active, NEW observed \in {NoTime} \union (0 .. MaxClock), NEW at,
             at = monotonic_operation_timestamp(observed), last' = at,
             entries' = [entries EXCEPT ![r].state = outcome[r], ![r].completed = at]
      PROVE  HttpInv'
  <2>1. PICK e \in Entry : e = entries[r] /\ r \in DOMAIN entries
    BY <1>6 DEF Active, HttpInv, HttpTypeOK
  <2>2. /\ last \in Nat /\ at \in Nat /\ last <= at /\ e.submitted \in Nat /\ e.submitted <= last
        /\ e.submitted <= at /\ NoTime \notin Nat
    <3>1. last # NoTime /\ e.submitted <= last /\ last \in Nat \union {NoTime}
      BY <2>1 DEF HttpInv, RegistryIsSound, HttpTypeOK
    <3>2. e.submitted \in Nat /\ NoTime \notin Nat
      BY HttpAssumption, SMTT(30) DEF Entry
    <3>3. at \in Nat /\ last <= at
      BY <1>6, <3>1, TimestampIs
    <3> QED BY <3>1, <3>2, <3>3, SMTT(30)
  <2>3. operation_is_terminal(outcome[r])
    BY <1>1 DEF HttpInv, RegistryIsSound
  <2>4. PICK f : f = [e EXCEPT !.state = outcome[r]]
    OBVIOUS
  <2>5. PICK g : g = [f EXCEPT !.completed = at]
    OBVIOUS
  <2>6. f \in Entry /\ f.submitted = e.submitted /\ f.state = outcome[r]
    BY <2>3, <2>4, SMTT(30) DEF Entry, operation_is_terminal
  <2>7. g \in Entry /\ g.submitted = e.submitted /\ g.completed = at
    BY <2>2, <2>5, <2>6, SMTT(30) DEF Entry
  <2>8. entries' = [entries EXCEPT ![r] = g]
    BY <1>6, <2>1, <2>4, <2>5
  <2>9. /\ DOMAIN entries' = DOMAIN entries /\ entries' \in [DOMAIN entries -> Entry]
        /\ entries'[r] = g /\ \A x \in DOMAIN entries : x # r => entries'[x] = entries[x]
        /\ DOMAIN entries \subseteq Requests
    BY <2>1, <2>7, <2>8 DEF HttpInv, HttpTypeOK
  <2>10. HttpTypeOK'
    BY <1>1, <1>2, <1>6, <2>2, <2>9 DEF HttpInv, HttpTypeOK
  <2>11. \A x \in Requests : RequestIsSound(x)'
    BY <1>3, <1>4, OthersSound DEF HttpInv
  <2>12. \A x \in DOMAIN entries : entries'[x].submitted = entries[x].submitted
    BY <2>1, <2>7, <2>9
  <2>13. RegistryIsSound'
    <3>1. ASSUME NEW x \in DOMAIN entries
          PROVE  last' # NoTime /\ entries'[x].submitted <= last'
      <4>1. entries[x] \in Entry /\ entries[x].submitted <= last
        BY DEF HttpInv, HttpTypeOK, RegistryIsSound
      <4>2. entries[x].submitted <= at
        BY <2>2, <4>1, SMTT(30) DEF Entry
      <4> QED BY <1>6, <2>2, <2>12, <4>2
    <3>2. \A x \in DOMAIN entries : requestAt'[x] # "new" /\ requestAt'[x] # "away"
      BY <1>2, <2>9 DEF HttpInv, RegistryIsSound
    <3>3. \A x \in Requests : requestAt'[x] = "record" => requestAt[x] = "record"
      BY <1>2
    <3> QED BY <1>1, <2>9, <3>1, <3>2, <3>3 DEF HttpInv, RegistryIsSound
  <2>14. AcceptedIsListed'
    BY <1>2, <2>9 DEF HttpInv, AcceptedIsPollable, AcceptedIsListed
  <2>15. TimesNeverRetreat'
    <3>1. \A i \in 1 .. Len(order) : order[i] \in DOMAIN entries
      BY DEF HttpInv, RegistryIsSound
    <3>2. \A i, j \in 1 .. Len(order') : i < j =>
            entries'[order'[i]].submitted <= entries'[order'[j]].submitted
      BY <1>1, <2>12, <3>1 DEF HttpInv, AcceptedIsPollable, TimesNeverRetreat
    <3>3. \A x \in DOMAIN entries' : operation_is_terminal(entries'[x].state) =>
            entries'[x].submitted <= entries'[x].completed
      BY <2>2, <2>7, <2>9 DEF HttpInv, AcceptedIsPollable, TimesNeverRetreat
    <3> QED BY <3>2, <3>3 DEF TimesNeverRetreat
  <2> QED BY <1>3, <2>10, <2>11, <2>13, <2>14, <2>15 DEF HttpInv, AcceptedIsPollable
<1> QED BY <1>5, <1>6 DEF finish_at

\* A server starts with nothing waiting, held, staged or registered.
LEMMA HttpInitInv ==
    HttpInit => HttpInv
<1> SUFFICES ASSUME HttpInit PROVE HttpInv
  OBVIOUS
<1>1. requestAt \in [Requests -> {"new", "away"}]
  BY DEF HttpInit
<1>2. \A r \in Requests : requestAt[r] = "new" \/ requestAt[r] = "away"
  BY <1>1
<1>3. /\ \A g \in Gates : queue[g] = << >> /\ held[g] = {}
      /\ queue \in Lines /\ held \in [Gates -> SUBSET Requests]
  BY SMTT(30) DEF HttpInit, Lines, Line
<1>4. \A x : ~Waits(x, << >>)
  BY SMTT(30) DEF Waits
<1>5. Distinct(<< >>)
  BY SMTT(30) DEF Distinct
<1>6. /\ staged \in [Requests -> Directory]
      /\ \A r \in Requests : ~staged[r].live /\ staged[r].bytes = 0
  BY SMTT(30) DEF HttpInit, NoDirectory, Directory
<1>7. field \in [Requests -> [file : Files \union {Nobody}, bytes : Nat]]
  BY SMTT(30) DEF HttpInit
<1>8. /\ entries = << >> /\ DOMAIN entries = {} /\ order \in Line /\ order = << >>
      /\ entries \in [DOMAIN entries -> Entry] /\ Len(order) = 0
  BY SMTT(30) DEF HttpInit, Line
<1>9. HttpTypeOK
  <2>1. requestAt \in [Requests -> Places]
    BY <1>1 DEF Places
  <2> QED BY <1>3, <1>6, <1>7, <1>8, <2>1 DEF HttpTypeOK, HttpInit
<1>10. GatesAreSound
  <2>1. \A g \in Gates : 0 <= Limit(g)
    BY GatesOf, SMTT(30)
  <2> QED BY <1>3, <1>5, <2>1, FS_EmptySet DEF GatesAreSound
<1>11. ASSUME NEW r \in Requests PROVE RequestIsSound(r)
  <2>1. 0 <= MaxAggregate
    BY HttpAssumption, SMTT(30)
  <2>2. "overall" \in Gates
    BY GatesOf
  <2> QED BY <1>2, <1>3, <1>4, <1>6, <2>1, <2>2
          DEF RequestIsSound, QueuedWell, HoldsItsGates, StagedWell
<1>12. \A i : i \notin 1 .. Len(order)
  BY <1>8, SMTT(30)
<1>13. RegistryIsSound /\ AcceptedIsPollable
  BY <1>2, <1>5, <1>8, <1>12
     DEF RegistryIsSound, AcceptedIsPollable, AcceptedIsListed, TimesNeverRetreat
<1> QED BY <1>9, <1>10, <1>11, <1>13 DEF HttpInv

\* Every step of the server preserves its invariant.
LEMMA HttpStepInv ==
    HttpInv /\ [HttpNext]_httpVars => HttpInv'
<1> SUFFICES ASSUME HttpInv, [HttpNext]_httpVars PROVE HttpInv'
  OBVIOUS
<1>1. ASSUME NEW r \in Requests, Calls(r) PROVE HttpInv'
  BY <1>1, RefuseStep, CallStep, PassStep, RunStep, EndWorkStep, DisconnectStep DEF Calls
<1>2. ASSUME NEW r \in Requests, Uploads(r) PROVE HttpInv'
  BY <1>2, UploadStep, AdmitStep, CreateStep, TextStep, OpenStep, OpenedStep, ChunkStep,
     EndPartStep, MultipartStep DEF Uploads
<1>3. CASE UNCHANGED httpVars
  BY <1>3 DEF httpVars, HttpInv, HttpTypeOK, GatesAreSound, RequestIsSound, QueuedWell,
              HoldsItsGates, StagedWell, RegistryIsSound, AcceptedIsPollable, AcceptedIsListed,
              TimesNeverRetreat
<1> QED BY <1>1, <1>2, <1>3, ReserveStep, FinishStep DEF HttpNext

\* The server's invariant holds in every run of it.
LEMMA HttpInvariant ==
    HttpSpec => []HttpInv
BY HttpInitInv, HttpStepInv, PTL DEF HttpSpec

\* However many clients go away and whenever they do: no more closures run than
\* the gates allow, who waits for a project holds no overall permit, a closure
\* keeps its complete staging directory until it ends, and no more directories
\* hold bytes than uploads are admitted, none more than its limit (state.rs,
\* acquire; handlers.rs, run_blocking_after_acquire; staging.rs).
THEOREM LimitsAreKept ==
    HttpSpec => []ServerLimitsHold
<1>1. HttpInv => ServerLimitsHold
  <2> SUFFICES ASSUME HttpInv PROVE ServerLimitsHold
    OBVIOUS
  <2>1. "overall" \in Gates /\ "uploads" \in Gates /\ held \in [Gates -> SUBSET Requests]
    BY GatesOf DEF HttpInv, HttpTypeOK
  <2>2. ASSUME NEW g \in Gates, NEW S \in SUBSET held[g]
        PROVE  Cardinality(S) <= Limit(g)
    <3>1. Limit(g) \in Nat /\ held[g] \in SUBSET Requests /\ Cardinality(held[g]) <= Limit(g)
      BY <2>1, GatesOf DEF HttpInv, GatesAreSound
    <3> QED BY <3>1, HoldersCount
  <2>3. WorkIsBounded
    <3> SUFFICES ASSUME NEW g \in Gates \ {"uploads"}
                 PROVE  Cardinality(Running(g)) <= Limit(g)
      BY DEF WorkIsBounded
    <3>1. Running(g) \subseteq held[g]
      BY DEF Running, HttpInv, RequestIsSound, HoldsItsGates
    <3> QED BY <2>2, <3>1
  <2>4. WaitersHoldNothing
    BY <2>1 DEF WaitersHoldNothing, Running, HttpInv, RequestIsSound, HoldsItsGates
  <2>5. StagingOutlivesWork
    BY DEF StagingOutlivesWork, HttpInv, RequestIsSound, StagedWell
  <2>6. StagedBytesBounded
    <3>1. ASSUME NEW r \in Requests, staged[r].bytes > 0
          PROVE  r \in held["uploads"]
      <4>1. staged[r].live
        BY <3>1, SMTT(30) DEF HttpInv, RequestIsSound, StagedWell
      <4> QED BY <4>1 DEF HttpInv, RequestIsSound, StagedWell, HoldsItsGates
    <3>2. Cardinality({r \in Requests : staged[r].bytes > 0}) <= Limit("uploads")
      BY <2>1, <2>2, <3>1
    <3>3. Limit("uploads") = MaxUploads
      BY DEF Limit
    <3> QED BY <3>2, <3>3 DEF StagedBytesBounded, HttpInv, RequestIsSound, StagedWell
  <2> QED BY <2>3, <2>4, <2>5, <2>6 DEF ServerLimitsHold
<1> QED BY <1>1, HttpInvariant, PTL

\* An operation that was accepted can be polled until its outcome is recorded,
\* and its times never retreat, whatever the clock does (state.rs, reserve_at;
\* app.rs, monotonic_operation_timestamp).
THEOREM AcceptedStaysPollable ==
    HttpSpec => []AcceptedIsPollable
<1>1. HttpInv => AcceptedIsPollable
  BY DEF HttpInv
<1> QED BY <1>1, HttpInvariant, PTL
=============================================================================
