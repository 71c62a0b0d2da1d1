-------------------------- MODULE ApplicationProofs --------------------------
(***************************************************************************)
(* What LocalApplication publishes is lawful, for any threads, any times   *)
(* to live and any number of calls, other processes and changes of the     *)
(* clock.                                                                  *)
(*                                                                         *)
(* The argument has three parts.  The gate: whoever is between the check   *)
(* inside the gate and the commit holds the gate (AtGate), so that nobody  *)
(* changes the authority it has seen in force (Live).  The execution: its  *)
(* serial is a registration, a permit, in the hands of one thread that has *)
(* not tried yet, or used (ExecutionFits).  The permit: what a thread has  *)
(* seen of the clock and of the proposal's base lies between the permit's  *)
(* issue and its end and stays so (Fits).                                  *)
(***************************************************************************)
EXTENDS Application, TLAPS

\* Leaves are first-order; those about numbers, records and sequences cite SMT.
USE ZenonT(40)

Inside == {"evaluate", "begin", "commit"}

Publishing == {"start", "executing", "reauth", "waiting"} \cup Inside

Labels == {"idle", "queued"} \cup Publishing

\* the calls that do all of their work under the gate, and a publication
Request ==
    [op : {"grant", "revoke", "suspend", "resume", "replace"}, route : Routes]
    \cup [op : {"register"}, route : {"ai"}]
    \cup [op : {"register"}, route : {"human"}, proposal : Nat]
    \cup [op : {"recover"}, route : {"human"}, proposal : Nat, base : Nat]
    \cup [op : {"prepare"}, route : Routes, serial : Nat, session : Nat]

Publication ==
    [op : {"publish"}, permit : Permit, seen : Nat, at : Nat, guard : Nat]

Calls == {NoCall} \cup Request \cup Publication

Types ==
    /\ TypeOK
    /\ fence \in Seq(Threads)
    /\ pc \in [Threads -> Labels]
    /\ call \in [Threads -> Calls]
    /\ base \in Seq(Nat) /\ decided \in Seq(Nat)
    /\ attempts \in [1 .. MaxSerial -> Nat]
    /\ published \in Seq([route : Routes, issued : Nat, at : Nat, guard : Nat])

RegistrationFits(g) ==
    /\ g.serial \in 1 .. MaxSerial /\ g.serial < next_serial
    /\ g.route = "human" => g.proposal \in Proposals

PermitFits(p) ==
    /\ p.execution \in 1 .. MaxSerial /\ p.execution < next_serial
    /\ p.not_after <= p.issued + Ttl
    /\ p.route = "ai" => p.not_after <= GrantExpiry
    /\ p.route = "human" => p.proposal \in Proposals

\* what a thread at label l knows by its call c
Fits(l, c) ==
    /\ l = "queued" => /\ c \in Request
                       /\ c.op = "recover" \/ (c.op = "register" /\ c.route = "human")
                            => c.proposal \in Proposals
    /\ l \in Publishing => /\ c \in Publication
                           /\ PermitFits(c.permit)
                           /\ c.permit.issued <= c.seen
    /\ l \in Inside => Live(c.permit)
    /\ l \in {"begin", "commit"} =>
         /\ c.permit.issued <= c.at
         /\ c.permit.route = "human" => base[c.permit.proposal] = c.permit.base
    /\ l = "commit" => c.at <= c.guard /\ c.guard < c.permit.not_after

ThreadFits(t) ==
    /\ Fits(pc[t], call[t])
    /\ pc[t] \in Inside => AtGate(t)

Holds(t, e) == pc[t] = "start" /\ call[t].permit.execution = e

\* the execution e was not tried if it can still be
ExecutionFits(e) ==
    /\ attempts[e] <= 1
    /\ e >= next_serial => attempts[e] = 0
    /\ \A g \in registrations : g.serial = e =>
         /\ attempts[e] = 0
         /\ \A h \in registrations : h.serial = e => h = g
         /\ \A p \in permits : p.execution # e
         /\ \A t \in Threads : ~Holds(t, e)
    /\ \A p \in permits : p.execution = e =>
         /\ attempts[e] = 0
         /\ \A q \in permits : q.execution = e => q = p
         /\ \A t \in Threads : ~Holds(t, e)
    /\ \A t \in Threads : Holds(t, e) =>
         attempts[e] = 0 /\ \A u \in Threads : Holds(u, e) => u = t

RegistryFits ==
    /\ \A g \in registrations : RegistrationFits(g)
    /\ \A p \in permits : PermitFits(p)

IInv ==
    /\ Types
    /\ \A t \in Threads : ThreadFits(t)
    /\ RegistryFits
    /\ \A e \in 1 .. MaxSerial : ExecutionFits(e)
    /\ PublishedWithinPermit
    /\ DecisionsExtendTheirBase

-----------------------------------------------------------------------------
(* What a step leaves of what a thread knows *)

\* proposals are added and serials given out, never taken back
Grows ==
    /\ next_serial' \in Nat /\ next_serial <= next_serial'
    /\ base' \in Seq(Nat) /\ Len(base) <= Len(base')
    /\ \A i \in Proposals : base'[i] = base[i]

\* The numbers are numbers.
LEMMA Counted ==
    ASSUME ApplicationAssumption, Types
    PROVE  /\ next_serial \in Nat \ {0} /\ Len(base) \in Nat /\ Len(decided) \in Nat
           /\ now \in Nat /\ epoch \in Nat
<1>1. next_serial \in Nat \ {0}
    BY SMTT(30) DEF Types, TypeOK, ApplicationAssumption
<1>2. now \in Nat /\ epoch \in Nat
    BY SMTT(30) DEF Types, TypeOK, ApplicationAssumption
<1>3. Len(base) \in Nat /\ Len(decided) \in Nat
    BY SMTT(30) DEF Types
<1> QED
    BY <1>1, <1>2, <1>3

\* A permit fits as long as proposals and serials only grow.
LEMMA PermitStays ==
    ASSUME ApplicationAssumption, Types, Grows, NEW p \in Permit, PermitFits(p)
    PROVE  PermitFits(p)'
<1>1. next_serial \in Nat /\ p.execution \in Nat /\ Len(base) \in Nat /\ Len(base') \in Nat
    BY Counted, SMTT(30) DEF Permit, Grows
<1> QED
    BY <1>1, SMTT(30) DEF PermitFits, Grows, Proposals

\* A registration fits as long as proposals and serials only grow.
LEMMA RegistrationStays ==
    ASSUME ApplicationAssumption, Types, Grows, NEW g \in Registration, RegistrationFits(g)
    PROVE  RegistrationFits(g)'
<1>1. next_serial \in Nat /\ g.serial \in Nat /\ Len(base) \in Nat /\ Len(base') \in Nat
    BY Counted, SMTT(30) DEF Registration, Grows
<1> QED
    BY <1>1, SMTT(30) DEF RegistrationFits, Grows, Proposals

\* A thread still knows what it knew, if the authority in force does not change
\* while it is inside the gate.
LEMMA FitsStays ==
    ASSUME ApplicationAssumption, Types, Grows, NEW l, NEW c \in Calls, Fits(l, c),
           l \in Inside => UNCHANGED security
    PROVE  Fits(l, c)'
<1>1. Len(base) \in Nat /\ Len(base') \in Nat
    BY Counted, SMTT(30) DEF Grows
<1>2. CASE l = "queued"
    <2>1. c.proposal \in Proposals => c.proposal \in Proposals'
        BY <1>1, SMTT(30) DEF Proposals, Grows
    <2> QED
        BY <1>2, <2>1 DEF Fits, Publishing, Inside
<1>3. CASE l \in Publishing
    <2>1. c.permit \in Permit /\ PermitFits(c.permit)
        BY <1>3 DEF Fits, Publication
    <2>2. PermitFits(c.permit)'
        BY <2>1, PermitStays
    <2>3. l \in Inside => Live(c.permit)'
        BY <1>3 DEF Fits, Live, security
    <2>4. c.permit.route = "human" => base'[c.permit.proposal] = base[c.permit.proposal]
        BY <2>1 DEF PermitFits, Grows
    <2> QED
        BY <1>3, <2>2, <2>3, <2>4 DEF Fits, Publishing, Inside
<1>4. CASE l \notin Publishing /\ l # "queued"
    BY <1>4 DEF Fits, Publishing, Inside
<1> QED
    BY <1>2, <1>3, <1>4

\* What fits as a value fits as a thread's label and call.
LEMMA SameCall ==
    ASSUME NEW u, NEW l, NEW c, l = pc'[u], c = call'[u], Fits(l, c)'
    PROVE  Fits(pc[u], call[u])'
BY DEF Fits, PermitFits, Live, Proposals

\* At most one thread is at the head of the gate.
LEMMA OneAtGate ==
    ASSUME NEW t, NEW u, AtGate(t), AtGate(u)
    PROVE  t = u
BY DEF AtGate

\* The holder stays the holder when others enter.
LEMMA HeadStays ==
    ASSUME fence \in Seq(Threads), NEW t \in Threads, NEW u \in Threads, AtGate(u),
           fence' = fence \/ fence' = Append(fence, t)
    PROVE  AtGate(u)'
BY SMTT(30) DEF AtGate

\* The threads fit after a step of t to label l with call c, if the others see
\* proposals and serials grow only, the authority changes only under the gate,
\* and so does its holder.
LEMMA ThreadsFit ==
    ASSUME ApplicationAssumption, Types, \A u \in Threads : ThreadFits(u), Grows,
           NEW t \in Threads, NEW l \in Labels, NEW c \in Calls,
           pc' = [pc EXCEPT ![t] = l], call' = [call EXCEPT ![t] = c],
           Fits(l, c)',
           UNCHANGED security \/ AtGate(t),
           fence' = fence \/ fence' = Append(fence, t) \/ AtGate(t),
           l \in Inside => AtGate(t) /\ fence' = fence
    PROVE  \A u \in Threads : ThreadFits(u)'
<1> SUFFICES ASSUME NEW u \in Threads PROVE ThreadFits(u)'
    OBVIOUS
<1>1. CASE u = t
    <2>1. l = pc'[u] /\ c = call'[u]
        BY <1>1 DEF Types
    <2>2. Fits(pc[u], call[u])'
        BY <2>1, SameCall
    <2>3. pc'[u] \in Inside => AtGate(u)'
        BY <1>1, <2>1 DEF AtGate
    <2> QED
        BY <2>2, <2>3 DEF ThreadFits
<1>2. CASE u # t
    <2>0. pc'[u] = pc[u] /\ call'[u] = call[u] /\ call[u] \in Calls
        BY <1>2 DEF Types
    <2>1. PICK m, d : /\ m = pc[u] /\ m = pc'[u] /\ d = call[u] /\ d = call'[u]
                      /\ d \in Calls /\ Fits(m, d) /\ (m \in Inside => AtGate(u))
        BY <2>0 DEF ThreadFits
    <2>2. m \in Inside => ~AtGate(t)
        BY <1>2, <2>1, OneAtGate
    <2>3. Fits(m, d)'
        BY <2>1, <2>2, FitsStays
    <2>4. Fits(pc[u], call[u])'
        BY <2>1, <2>3, SameCall
    <2>5. m \in Inside => AtGate(u)'
        BY <2>1, <2>2, HeadStays DEF Types
    <2> QED
        BY <2>1, <2>4, <2>5 DEF ThreadFits
<1> QED
    BY <1>1, <1>2

\* The gate's queue is one of threads after every way a step changes it.
LEMMA FenceIsSeq ==
    ASSUME fence \in Seq(Threads), NEW t \in Threads,
           fence' = fence \/ fence' = Append(fence, t) \/ (AtGate(t) /\ fence' = Tail(fence))
    PROVE  fence' \in Seq(Threads) /\ \A i \in DOMAIN fence' : fence'[i] \in Threads
<1>1. fence' \in Seq(Threads)
    BY SMTT(30) DEF AtGate
<1> QED
    BY <1>1, SMTT(30)

\* No execution is touched: registrations, permits and attempts stay, and no
\* thread comes to hold a permit that it has not tried.
LEMMA ExecutionsFit ==
    ASSUME ApplicationAssumption, Types, \A e \in 1 .. MaxSerial : ExecutionFits(e),
           UNCHANGED <<registrations, permits, attempts>>,
           next_serial' \in Nat, next_serial <= next_serial',
           \A u \in Threads, e \in 1 .. MaxSerial : Holds(u, e)' => Holds(u, e)
    PROVE  \A e \in 1 .. MaxSerial : ExecutionFits(e)'
<1> SUFFICES ASSUME NEW e \in 1 .. MaxSerial PROVE ExecutionFits(e)'
    OBVIOUS
<1>1. e >= next_serial' => e >= next_serial
    BY Counted, SMTT(30)
<1>2. \A u \in Threads : Holds(u, e)' => Holds(u, e)
    OBVIOUS
<1>3. ExecutionFits(e)
    OBVIOUS
<1> QED
    BY <1>1, <1>2, <1>3 DEF ExecutionFits

\* A step of thread t that moves neither Refs nor registry: it is enough to
\* look at its own label and call.
LEMMA QuietStep ==
    ASSUME ApplicationAssumption, IInv, NEW t \in Threads, NEW l \in Labels, NEW c \in Calls,
           pc' = [pc EXCEPT ![t] = l], call' = [call EXCEPT ![t] = c],
           Quiet, UNCHANGED <<permits, attempts>>,
           fence' = fence \/ fence' = Append(fence, t) \/ (AtGate(t) /\ fence' = Tail(fence)),
           Fits(l, c)',
           l \in Inside => AtGate(t) /\ fence' = fence,
           l # "start"
    PROVE  IInv'
<1>1. Types /\ RegistryFits
    BY DEF IInv
<1>2. /\ UNCHANGED <<now, session, allowed, epoch, profile, next_serial, registrations,
                     permits, admitted, proposal, decided, base, attempts, published>>
    BY DEF Quiet, security, refs
<1>3. Types'
    <2>1. pc' \in [Threads -> Labels] /\ call' \in [Threads -> Calls]
        BY <1>1 DEF Types
    <2>2. fence' \in Seq(Threads) /\ \A i \in DOMAIN fence' : fence'[i] \in Threads
        BY <1>1, FenceIsSeq DEF Types
    <2>3. TypeOK'
        BY <1>1, <1>2, <2>2 DEF Types, TypeOK, Proposals
    <2> QED
        BY <1>1, <1>2, <2>1, <2>2, <2>3 DEF Types
<1>4. Grows
    BY <1>1, <1>2, Counted, SMTT(30) DEF Grows, Types
<1>5. \A u \in Threads : ThreadFits(u)'
    <2>1. UNCHANGED security
        BY <1>2 DEF security
    <2> QED
        BY <1>1, <1>4, <2>1, ThreadsFit DEF IInv
<1>6. \A e \in 1 .. MaxSerial : ExecutionFits(e)'
    <2>1. \A u \in Threads, e \in 1 .. MaxSerial : Holds(u, e)' => Holds(u, e)
        BY <1>1 DEF Holds, Types
    <2> QED
        BY <1>1, <1>2, <1>4, <2>1, ExecutionsFit DEF IInv, Grows
<1>7. RegistryFits'
    BY <1>1, <1>2 DEF RegistryFits, RegistrationFits, PermitFits, Proposals
<1>8. (PublishedWithinPermit /\ DecisionsExtendTheirBase)'
    BY <1>2 DEF IInv, PublishedWithinPermit, DecisionsExtendTheirBase
<1> QED
    BY <1>3, <1>5, <1>6, <1>7, <1>8 DEF IInv

\* A call that returns without having touched anything.
LEMMA ReturnIInv ==
    ASSUME ApplicationAssumption, IInv, NEW t \in Threads, Return(t), Quiet,
           UNCHANGED <<permits, attempts>>,
           fence' = fence \/ (AtGate(t) /\ fence' = Tail(fence))
    PROVE  IInv'
<1>1. Fits("idle", NoCall)'
    BY DEF Fits, Publishing, Inside
<1>2. "idle" \in Labels /\ NoCall \in Calls /\ "idle" \notin Inside
    BY DEF Labels, Calls, Inside, Publishing
<1> QED
    BY <1>1, <1>2, QuietStep DEF Return, Goto

\* A call enters the gate with what it asks for.
LEMMA AskIInv ==
    ASSUME ApplicationAssumption, IInv, NEW t \in Threads, AskAny(t)
    PROVE  IInv'
<1>1. PICK c : Ask(t, c) /\ c \in Request
            /\ (c.op = "recover" \/ (c.op = "register" /\ c.route = "human")
                  => c.proposal \in Proposals)
    <2>1. CASE \E r \in Routes, o \in {"grant", "revoke", "suspend", "resume", "replace"} :
                  Ask(t, [op |-> o, route |-> r])
        BY <2>1, SMTT(30) DEF Request
    <2>2. CASE Ask(t, [op |-> "register", route |-> "ai"])
        BY <2>2, SMTT(30) DEF Request
    <2>3. CASE \E p \in admitted : Ask(t, [op |-> "register", route |-> "human", proposal |-> p])
        <3>1. PICK p \in admitted : Ask(t, [op |-> "register", route |-> "human", proposal |-> p])
            BY <2>3
        <3>2. p \in Proposals
            BY DEF IInv, Types, TypeOK
        <3>3. p \in Nat
            BY <3>2, Counted, SMTT(30) DEF IInv, Proposals
        <3> QED
            BY <3>1, <3>2, <3>3, SMTT(30) DEF Request
    <2>4. CASE \E p \in Proposals :
                  Ask(t, [op |-> "recover", route |-> "human", proposal |-> p, base |-> base[p]])
        <3>1. PICK p \in Proposals :
                  Ask(t, [op |-> "recover", route |-> "human", proposal |-> p, base |-> base[p]])
            BY <2>4
        <3>2. p \in Nat /\ base[p] \in Nat
            BY Counted, SMTT(30) DEF IInv, Types, Proposals
        <3> QED
            BY <3>1, <3>2, SMTT(30) DEF Request
    <2>5. CASE \E g \in registrations :
                  /\ session[g.route] # 0
                  /\ Ask(t, [op |-> "prepare", route |-> g.route, serial |-> g.serial,
                             session |-> session[g.route]])
        <3>1. PICK g \in registrations :
                  Ask(t, [op |-> "prepare", route |-> g.route, serial |-> g.serial,
                          session |-> session[g.route]])
            BY <2>5
        <3>2. g \in Registration
            BY DEF IInv, Types, TypeOK
        <3>3. g.route \in Routes /\ g.serial \in Nat
            BY <3>2 DEF Registration
        <3>4. session \in [Routes -> 0 .. 2]
            BY DEF IInv, Types, TypeOK
        <3>5. session[g.route] \in Nat
            BY <3>3, <3>4, SMTT(30)
        <3> QED
            BY <3>1, <3>3, <3>5, SMTT(30) DEF Request
    <2> QED
        BY <2>1, <2>2, <2>3, <2>4, <2>5 DEF AskAny
<1>2. /\ pc' = [pc EXCEPT ![t] = "queued"] /\ call' = [call EXCEPT ![t] = c]
      /\ fence' = Append(fence, t)
      /\ UNCHANGED <<now, session, security, registry, admitted, refs, attempts, published>>
    BY <1>1 DEF Ask, Enter, Goto
<1>3. Quiet /\ UNCHANGED <<permits, attempts>>
    BY <1>2 DEF Quiet, registry
<1>4. Fits("queued", c)'
    <2>1. Proposals' = Proposals
        BY <1>2 DEF Proposals, refs
    <2> QED
        BY <1>1, <2>1 DEF Fits, Publishing, Inside
<1>5. "queued" \in Labels /\ c \in Calls /\ "queued" \notin Inside
    BY <1>1 DEF Labels, Calls, Inside
<1> QED
    BY <1>2, <1>3, <1>4, <1>5, QuietStep

-----------------------------------------------------------------------------
(* The steps of a publication *)

\* A thread that publishes has its permit in its call.
LEMMA Publishes ==
    ASSUME IInv, NEW t \in Threads, pc[t] \in Publishing
    PROVE  \E c \in Publication : c = call[t] /\ c.permit \in Permit /\ Fits(pc[t], c)
<1>1. Fits(pc[t], call[t])
    BY DEF IInv, ThreadFits
<1>2. call[t] \in Publication
    BY <1>1 DEF Fits
<1>3. call[t].permit \in Permit
    BY <1>2 DEF Publication
<1> QED
    BY <1>1, <1>2, <1>3

\* The executor runs or has run.
LEMMA ExecutorIInv ==
    ASSUME ApplicationAssumption, IInv, NEW t \in Threads, Executor(t) \/ Reauth(t)
    PROVE  IInv'
<1>1. Quiet /\ UNCHANGED <<permits, attempts>>
    BY DEF Executor, Reauth
<1>2. CASE Return(t) /\ fence' = fence
    BY <1>1, <1>2, ReturnIInv
<1>3. ASSUME NEW l \in {"reauth", "waiting"}, Goto(t, l), UNCHANGED call,
             pc[t] \in {"executing", "reauth"},
             fence' = fence \/ fence' = Append(fence, t)
      PROVE  IInv'
    <2>1. PICK c \in Publication : c = call[t] /\ c.permit \in Permit /\ Fits(pc[t], c)
        BY <1>3, Publishes DEF Publishing
    <2>2. Fits(l, c)'
        <3>1. Fits(l, c)
            BY <1>3, <2>1 DEF Fits, Publishing, Inside
        <3>2. Grows
            BY <1>1, Counted, SMTT(30) DEF Grows, Quiet, refs, IInv, Types
        <3> QED
            BY <1>3, <3>1, <3>2, FitsStays DEF IInv, Calls, Inside
    <2>3. l \in Labels /\ l \notin Inside /\ l # "start" /\ c \in Calls
        BY <1>3 DEF Labels, Publishing, Inside, Calls
    <2>4. call' = [call EXCEPT ![t] = c]
        BY <1>3, <2>1 DEF IInv, Types
    <2> QED
        BY <1>1, <1>3, <2>2, <2>3, <2>4, QuietStep DEF Goto
<1> QED
    BY <1>2, <1>3 DEF Executor, Reauth, Enter

\* Inside the gate the authority is found in force, or the call returns.
LEMMA CheckIInv ==
    ASSUME ApplicationAssumption, IInv, NEW t \in Threads, Check(t)
    PROVE  IInv'
<1>1. Quiet /\ UNCHANGED <<permits, attempts>> /\ AtGate(t) /\ pc[t] = "waiting"
    BY DEF Check
<1>2. CASE Leave(t)
    BY <1>1, <1>2, ReturnIInv DEF Leave
<1>3. CASE InTime(t) /\ Live(call[t].permit) /\ See(t) /\ Goto(t, "evaluate") /\ UNCHANGED fence
    <2>1. PICK c \in Publication : c = call[t] /\ c.permit \in Permit /\ Fits(pc[t], c)
        BY <1>1, Publishes DEF Publishing
    <2>2. PICK d : d = [c EXCEPT !.seen = now]
        OBVIOUS
    <2>3. d \in Publication /\ d.permit = c.permit /\ d.seen = now
        BY <2>2, Counted DEF Publication, IInv
    <2>4. call' = [call EXCEPT ![t] = d]
        BY <1>3, <2>1, <2>2 DEF See
    <2>5. Fits("evaluate", d)
        <3>1. c.permit.issued \in Nat /\ c.seen \in Nat /\ now \in Nat
            BY <2>1, Counted DEF Publication, Permit, IInv
        <3>2. c.permit.issued <= now /\ PermitFits(c.permit)
            BY <1>1, <1>3, <2>1, <3>1, SMTT(30) DEF Fits, Publishing, InTime
        <3> QED
            BY <1>3, <2>1, <2>3, <3>2 DEF Fits, Publishing, Inside
    <2>6. Grows /\ UNCHANGED security
        BY <1>1, Counted, SMTT(30) DEF Grows, Quiet, refs, IInv, Types
    <2>7. Fits("evaluate", d)'
        BY <2>3, <2>5, <2>6, FitsStays DEF IInv, Calls
    <2>8. "evaluate" \in Labels /\ d \in Calls
        BY <2>3 DEF Labels, Publishing, Inside, Calls
    <2> QED
        BY <1>1, <1>3, <2>4, <2>7, <2>8, QuietStep DEF Goto
<1> QED
    BY <1>2, <1>3 DEF Check

\* The candidate is evaluated in time: its base is the sealed one.
LEMMA EvaluateIInv ==
    ASSUME ApplicationAssumption, IInv, NEW t \in Threads, Evaluate(t)
    PROVE  IInv'
<1>1. Quiet /\ UNCHANGED <<permits, attempts>> /\ pc[t] = "evaluate"
    BY DEF Evaluate
<1>2. AtGate(t)
    BY <1>1 DEF IInv, ThreadFits, Inside
<1>3. CASE Leave(t)
    BY <1>1, <1>2, <1>3, ReturnIInv DEF Leave
<1>4. CASE /\ Admissible(call[t].permit) /\ InTime(t)
           /\ call' = [call EXCEPT ![t] = [@ EXCEPT !.at = now]]
           /\ Goto(t, "begin") /\ UNCHANGED fence
    <2>1. PICK c \in Publication : c = call[t] /\ c.permit \in Permit /\ Fits(pc[t], c)
        BY <1>1, Publishes DEF Publishing, Inside
    <2>2. PICK d : d = [c EXCEPT !.at = now]
        OBVIOUS
    <2>3. d \in Publication /\ d.permit = c.permit /\ d.seen = c.seen /\ d.at = now
        BY <2>2, Counted DEF Publication, IInv
    <2>4. call' = [call EXCEPT ![t] = d]
        BY <1>4, <2>1, <2>2
    <2>5. Fits("begin", d)
        <3>1. c.permit.issued \in Nat /\ c.seen \in Nat /\ now \in Nat
            BY <2>1, Counted DEF Publication, Permit, IInv
        <3>2. /\ c.permit.issued <= now /\ c.permit.issued <= c.seen
              /\ PermitFits(c.permit) /\ Live(c.permit)
            BY <1>1, <1>4, <2>1, <3>1, SMTT(30) DEF Fits, Publishing, Inside, InTime
        <3>3. c.permit.route = "human" => base[c.permit.proposal] = c.permit.base
            BY <1>4, <2>1 DEF Admissible
        <3> QED
            BY <2>1, <2>3, <3>2, <3>3 DEF Fits, Publishing, Inside
    <2>6. Grows /\ UNCHANGED security
        BY <1>1, Counted, SMTT(30) DEF Grows, Quiet, refs, IInv, Types
    <2>7. Fits("begin", d)'
        BY <2>3, <2>5, <2>6, FitsStays DEF IInv, Calls
    <2>8. "begin" \in Labels /\ d \in Calls
        BY <2>3 DEF Labels, Publishing, Inside, Calls
    <2> QED
        BY <1>1, <1>2, <1>4, <2>4, <2>7, <2>8, QuietStep DEF Goto
<1> QED
    BY <1>3, <1>4 DEF Evaluate

\* The transaction begins in time, not before the evaluation.
LEMMA BeginIInv ==
    ASSUME ApplicationAssumption, IInv, NEW t \in Threads, Begin(t)
    PROVE  IInv'
<1>1. Quiet /\ UNCHANGED <<permits, attempts>> /\ pc[t] = "begin"
    BY DEF Begin
<1>2. AtGate(t)
    BY <1>1 DEF IInv, ThreadFits, Inside
<1>3. CASE Leave(t)
    BY <1>1, <1>2, <1>3, ReturnIInv DEF Leave
<1>4. CASE /\ InTime(t) /\ call[t].at <= now
           /\ Goto(t, "commit") /\ call' = [call EXCEPT ![t] = [@ EXCEPT !.guard = now]]
           /\ UNCHANGED fence
    <2>1. PICK c \in Publication : c = call[t] /\ c.permit \in Permit /\ Fits(pc[t], c)
        BY <1>1, Publishes DEF Publishing, Inside
    <2>2. PICK d : d = [c EXCEPT !.guard = now]
        OBVIOUS
    <2>3. /\ d \in Publication /\ d.permit = c.permit /\ d.seen = c.seen /\ d.at = c.at
          /\ d.guard = now
        BY <2>2, Counted DEF Publication, IInv
    <2>4. call' = [call EXCEPT ![t] = d]
        BY <1>4, <2>1, <2>2
    <2>5. Fits("commit", d)
        <3>1. c.at <= now /\ now < c.permit.not_after
            BY <1>4, <2>1 DEF InTime
        <3> QED
            BY <1>1, <2>1, <2>3, <3>1 DEF Fits, Publishing, Inside
    <2>6. Grows /\ UNCHANGED security
        BY <1>1, Counted, SMTT(30) DEF Grows, Quiet, refs, IInv, Types
    <2>7. Fits("commit", d)'
        BY <2>3, <2>5, <2>6, FitsStays DEF IInv, Calls
    <2>8. "commit" \in Labels /\ d \in Calls
        BY <2>3 DEF Labels, Publishing, Inside, Calls
    <2> QED
        BY <1>1, <1>2, <1>4, <2>4, <2>7, <2>8, QuietStep DEF Goto
<1> QED
    BY <1>3, <1>4 DEF Begin

\* The first look at clock and authority counts the attempt; the serial is used
\* and held no more.
LEMMA StartIInv ==
    ASSUME ApplicationAssumption, IInv, NEW t \in Threads, Start(t)
    PROVE  IInv'
<1>1. Quiet /\ UNCHANGED permits /\ pc[t] = "start"
    BY DEF Start
<1>2. CASE Return(t) /\ UNCHANGED <<fence, attempts>>
    BY <1>1, <1>2, ReturnIInv
<1>3. ASSUME NEW l \in {"executing", "waiting"}, InTime(t), See(t), Attempt(call[t].permit),
             Goto(t, l), fence' = fence \/ fence' = Append(fence, t)
      PROVE  IInv'
    <2>1. PICK c \in Publication : c = call[t] /\ c.permit \in Permit /\ Fits(pc[t], c)
        BY <1>1, Publishes DEF Publishing
    <2>2. PICK d : d = [c EXCEPT !.seen = now]
        OBVIOUS
    <2>3. d \in Publication /\ d.permit = c.permit /\ d.seen = now
        BY <2>2, Counted DEF Publication, IInv
    <2>4. call' = [call EXCEPT ![t] = d] /\ pc' = [pc EXCEPT ![t] = l]
        BY <1>3, <2>1, <2>2 DEF See, Goto
    <2>5. Fits(l, d)
        <3>1. c.permit.issued \in Nat /\ c.seen \in Nat /\ now \in Nat
            BY <2>1, Counted DEF Publication, Permit, IInv
        <3>2. c.permit.issued <= now /\ PermitFits(c.permit)
            BY <1>1, <1>3, <2>1, <3>1, SMTT(30) DEF Fits, Publishing, InTime
        <3> QED
            BY <2>1, <2>3, <3>2 DEF Fits, Publishing, Inside
    <2>6. Grows /\ UNCHANGED security
        BY <1>1, Counted, SMTT(30) DEF Grows, Quiet, refs, IInv, Types
    <2>7. l \in Labels /\ d \in Calls /\ l \notin Inside /\ l # "start"
        BY <2>3 DEF Labels, Publishing, Inside, Calls
    <2>8. Fits(l, d)'
        BY <2>5, <2>6, <2>7, FitsStays DEF IInv
    <2>9. \A u \in Threads : ThreadFits(u)'
        BY <1>3, <2>4, <2>6, <2>7, <2>8, ThreadsFit DEF IInv
    <2>10. /\ UNCHANGED <<now, session, allowed, epoch, profile, next_serial, registrations,
                          permits, admitted, proposal, decided, base, published>>
        BY <1>1 DEF Quiet, security, refs
    <2>11. PICK x : x = c.permit.execution /\ x \in 1 .. MaxSerial
        BY <1>1, <2>1 DEF Fits, Publishing, PermitFits
    <2>12. attempts \in [1 .. MaxSerial -> Nat] /\ pc \in [Threads -> Labels]
           /\ call \in [Threads -> Calls] /\ fence \in Seq(Threads)
        BY DEF IInv, Types
    <2>13. attempts' = [attempts EXCEPT ![x] = @ + 1]
        BY <1>3, <2>1, <2>11 DEF Attempt
    <2>14. Types'
        <3>1. pc' \in [Threads -> Labels] /\ call' \in [Threads -> Calls]
            BY <2>4, <2>7, <2>12
        <3>2. fence' \in Seq(Threads) /\ \A i \in DOMAIN fence' : fence'[i] \in Threads
            BY <1>3, <2>12, FenceIsSeq
        <3>3. attempts' \in [1 .. MaxSerial -> Nat]
            BY <2>11, <2>12, <2>13, SMTT(30)
        <3>4. TypeOK'
            BY <2>10, <3>2 DEF IInv, Types, TypeOK, Proposals
        <3> QED
            BY <2>10, <3>1, <3>2, <3>3, <3>4 DEF IInv, Types
    <2>15. ASSUME NEW e \in 1 .. MaxSerial PROVE ExecutionFits(e)'
        <3>1. \A u \in Threads : Holds(u, e)' => Holds(u, e) /\ u # t
            BY <2>4, <2>7, <2>12 DEF Holds
        <3>2. ExecutionFits(e)
            BY DEF IInv
        <3>3. CASE e = x
            <4>1. Holds(t, e)
                BY <1>1, <2>1, <2>11, <3>3 DEF Holds
            <4>2. /\ attempts[e] = 0
                  /\ \A u \in Threads : Holds(u, e) => u = t
                  /\ \A g \in registrations : g.serial # e
                  /\ \A p \in permits : p.execution # e
                BY <3>2, <4>1 DEF ExecutionFits
            <4>3. attempts'[e] = 1
                BY <2>12, <2>13, <3>3, <4>2, SMTT(30)
            <4>4. ~(e >= next_serial)
                <5>1. x < next_serial
                    BY <1>1, <2>1, <2>11 DEF Fits, Publishing, PermitFits
                <5> QED
                    BY <3>3, <5>1, Counted, SMTT(30) DEF IInv
            <4> QED
                BY <2>10, <3>1, <4>2, <4>3, <4>4, SMTT(30) DEF ExecutionFits
        <3>4. CASE e # x
            <4>1. attempts'[e] = attempts[e]
                BY <2>12, <2>13, <3>4
            <4> QED
                BY <2>10, <3>1, <3>2, <4>1 DEF ExecutionFits
        <3> QED
            BY <3>3, <3>4
    <2>16. RegistryFits'
        BY <2>10 DEF IInv, RegistryFits, RegistrationFits, PermitFits, Proposals
    <2>17. (PublishedWithinPermit /\ DecisionsExtendTheirBase)'
        BY <2>10 DEF IInv, PublishedWithinPermit, DecisionsExtendTheirBase
    <2> QED
        BY <2>9, <2>14, <2>15, <2>16, <2>17 DEF IInv
<1> QED
    BY <1>2, <1>3 DEF Start, Enter

\* Whoever presents a permit takes it out of the registry; its owner holds its
\* execution from then on, alone.
LEMMA BurnIInv ==
    ASSUME ApplicationAssumption, IInv, NEW t \in Threads, NEW p \in permits, NEW a \in Routes,
           Burn(t, p, a)
    PROVE  IInv'
<1>1. /\ UNCHANGED <<now, session, allowed, epoch, profile, next_serial, registrations,
                     admitted, proposal, decided, base, published, fence, attempts>>
      /\ permits' = permits \ {p}
    BY DEF Burn, Quiet, security, refs
<1>2. PICK x : x = p.execution /\ x \in 1 .. MaxSerial /\ PermitFits(p) /\ p \in Permit
    BY DEF IInv, RegistryFits, PermitFits, Types, TypeOK
<1>3. attempts \in [1 .. MaxSerial -> Nat] /\ pc \in [Threads -> Labels]
      /\ call \in [Threads -> Calls]
    BY DEF IInv, Types
<1>4. ExecutionFits(x)
    BY <1>2 DEF IInv
<1>5. Grows /\ UNCHANGED security
    BY <1>1, Counted, SMTT(30) DEF Grows, IInv, Types, security
<1>6. RegistryFits'
    BY <1>1 DEF IInv, RegistryFits, RegistrationFits, PermitFits, Proposals
<1>7. (PublishedWithinPermit /\ DecisionsExtendTheirBase)'
    BY <1>1 DEF IInv, PublishedWithinPermit, DecisionsExtendTheirBase
<1>8. TypeOK'
    BY <1>1 DEF IInv, Types, TypeOK, Proposals
<1>9. CASE UNCHANGED <<pc, call>>
    <2>1. Types'
        BY <1>1, <1>8, <1>9 DEF IInv, Types
    <2>2. \A u \in Threads : ThreadFits(u)'
        <3>1. \A q : (PermitFits(q) <=> PermitFits(q)') /\ (Live(q) <=> Live(q)')
            BY <1>1 DEF PermitFits, Live, Proposals
        <3>2. Proposals' = Proposals /\ \A u : AtGate(u)' <=> AtGate(u)
            BY <1>1 DEF Proposals, AtGate
        <3>3. \A u \in Threads : Fits(pc[u], call[u]) /\ (pc[u] \in Inside => AtGate(u))
            BY DEF IInv, ThreadFits
        <3>4. \A u \in Threads : Fits(pc[u], call[u])'
            BY <1>1, <1>9, <3>1, <3>2, <3>3 DEF Fits
        <3> QED
            BY <1>9, <3>2, <3>3, <3>4 DEF ThreadFits
    <2>3. \A e \in 1 .. MaxSerial : ExecutionFits(e)'
        BY <1>1, <1>9 DEF IInv, ExecutionFits, Holds
    <2> QED
        BY <1>6, <1>7, <2>1, <2>2, <2>3 DEF IInv
<1>10. CASE /\ Goto(t, "start")
            /\ call' = [call EXCEPT ![t] = [op |-> "publish", permit |-> p,
                                            seen |-> p.issued, at |-> 0, guard |-> 0]]
    <2>1. PICK c : c = [op |-> "publish", permit |-> p, seen |-> p.issued, at |-> 0, guard |-> 0]
        OBVIOUS
    <2>2. p.issued \in Nat
        BY <1>2 DEF Permit
    <2>3. c \in Publication /\ c.permit = p /\ c.seen = p.issued
        BY <1>2, <2>1, <2>2 DEF Publication
    <2>4. call' = [call EXCEPT ![t] = c] /\ pc' = [pc EXCEPT ![t] = "start"]
        BY <1>10, <2>1 DEF Goto
    <2>5. Fits("start", c)
        BY <1>2, <2>2, <2>3, SMTT(30) DEF Fits, Publishing, Inside
    <2>6. "start" \in Labels /\ c \in Calls /\ "start" \notin Inside
        BY <2>3 DEF Labels, Publishing, Inside, Calls
    <2>7. Fits("start", c)'
        BY <1>5, <2>5, <2>6, FitsStays DEF IInv
    <2>8. \A u \in Threads : ThreadFits(u)'
        BY <1>1, <1>5, <2>4, <2>6, <2>7, ThreadsFit DEF IInv
    <2>9. Types'
        <3>1. pc' \in [Threads -> Labels] /\ call' \in [Threads -> Calls]
            BY <1>3, <2>4, <2>6
        <3> QED
            BY <1>1, <1>8, <3>1 DEF IInv, Types
    <2>10. ASSUME NEW e \in 1 .. MaxSerial PROVE ExecutionFits(e)'
        <3>1. ExecutionFits(e)
            BY DEF IInv
        <3>2. \A u \in Threads : Holds(u, e)' => Holds(u, e) \/ (u = t /\ e = x)
            BY <1>2, <1>3, <2>3, <2>4 DEF Holds
        <3>3. CASE e = x
            <4>1. /\ attempts[e] = 0
                  /\ \A q \in permits : q.execution = e => q = p
                  /\ \A u \in Threads : ~Holds(u, e)
                  /\ \A g \in registrations : g.serial # e
                BY <1>2, <3>1, <3>3 DEF ExecutionFits
            <4> QED
                BY <1>1, <3>2, <4>1, SMTT(30) DEF ExecutionFits
        <3>4. CASE e # x
            BY <1>1, <3>1, <3>2, <3>4 DEF ExecutionFits
        <3> QED
            BY <3>3, <3>4
    <2> QED
        BY <1>6, <1>7, <2>8, <2>9, <2>10 DEF IInv
<1> QED
    BY <1>9, <1>10 DEF Burn

-----------------------------------------------------------------------------
(* The calls that work under the gate *)

\* The holder returns and leaves the gate, whatever it has done: nobody else is
\* inside, so the others know what they knew.
LEMMA LeaveStep ==
    ASSUME ApplicationAssumption, IInv, NEW t \in Threads, AtGate(t), Leave(t), Grows
    PROVE  /\ \A u \in Threads : ThreadFits(u)'
           /\ fence' \in Seq(Threads) /\ \A i \in DOMAIN fence' : fence'[i] \in Threads
           /\ pc' \in [Threads -> Labels] /\ call' \in [Threads -> Calls]
           /\ \A u \in Threads : \A e : Holds(u, e)' => Holds(u, e)
<1>1. /\ pc' = [pc EXCEPT ![t] = "idle"] /\ call' = [call EXCEPT ![t] = NoCall]
      /\ fence' = Tail(fence)
    BY DEF Leave, Return, Goto
<1>2. "idle" \in Labels /\ NoCall \in Calls /\ "idle" \notin Inside
    BY DEF Labels, Calls, Inside, Publishing
<1>3. Fits("idle", NoCall)'
    BY DEF Fits, Publishing, Inside
<1>4. /\ Types /\ pc \in [Threads -> Labels] /\ call \in [Threads -> Calls]
      /\ fence \in Seq(Threads)
    BY DEF IInv, Types
<1>5. \A u \in Threads : ThreadFits(u)'
    BY <1>1, <1>2, <1>3, <1>4, ThreadsFit DEF IInv
<1>6. fence' \in Seq(Threads) /\ \A i \in DOMAIN fence' : fence'[i] \in Threads
    BY <1>1, <1>4, FenceIsSeq
<1>7. pc' \in [Threads -> Labels] /\ call' \in [Threads -> Calls]
    BY <1>1, <1>2, <1>4
<1>8. \A u \in Threads : \A e : Holds(u, e)' => Holds(u, e)
    BY <1>1, <1>4 DEF Holds
<1> QED
    BY <1>5, <1>6, <1>7, <1>8

\* A thread whose turn it is has a request.
LEMMA Requests ==
    ASSUME IInv, NEW t \in Threads, pc[t] = "queued"
    PROVE  /\ call[t] \in Request
           /\ call[t].op = "recover" \/ (call[t].op = "register" /\ call[t].route = "human")
                => call[t].proposal \in Proposals
BY DEF IInv, ThreadFits, Fits

\* The control plane changes the authority under the gate.
LEMMA ControlIInv ==
    ASSUME ApplicationAssumption, IInv, NEW t \in Threads,
           SetAccess(t) \/ SetSuspended(t) \/ Replace(t)
    PROVE  IInv'
<1>1. /\ UNCHANGED <<now, session, next_serial, registrations, permits, admitted,
                     proposal, decided, base, attempts, published>>
      /\ AtGate(t) /\ Leave(t) /\ pc[t] = "queued"
    BY DEF SetAccess, SetSuspended, Replace, Turn, registry, refs
<1>2. Grows
    BY <1>1, Counted, SMTT(30) DEF Grows, IInv, Types
<1>3. call[t] \in Request
    BY <1>1, Requests
<1>4. /\ epoch \in 0 .. MaxEpoch /\ MaxEpoch \in Nat
      /\ profile \in [Routes -> [generation : 0 .. MaxEpoch, suspended : BOOLEAN, base : Nat]]
      /\ allowed \subseteq Routes
    BY DEF IInv, Types, TypeOK, ApplicationAssumption
<1>5. ASSUME NEW r \in Routes, NEW b \in Nat, NEW off \in BOOLEAN, Supersede(r, off, b)
      PROVE  /\ epoch' \in 0 .. MaxEpoch
             /\ profile' \in [Routes -> [generation : 0 .. MaxEpoch, suspended : BOOLEAN, base : Nat]]
    <2>1. CASE profile[r].generation < MaxEpoch /\ epoch < MaxEpoch
        <3>1. /\ profile' = [profile EXCEPT ![r] = [generation |-> @.generation + 1,
                                                    suspended |-> off, base |-> b]]
              /\ epoch' = epoch + 1
            BY <1>5, <2>1 DEF Supersede
        <3>2. epoch + 1 \in 0 .. MaxEpoch
            BY <1>4, <2>1, SMTT(30)
        <3>3. profile[r].generation \in 0 .. MaxEpoch
            BY <1>4
        <3>4. profile[r].generation + 1 \in 0 .. MaxEpoch
            BY <1>4, <2>1, <3>3, SMTT(30)
        <3> QED
            BY <1>4, <3>1, <3>2, <3>4
    <2>2. CASE ~(profile[r].generation < MaxEpoch /\ epoch < MaxEpoch)
        BY <1>4, <1>5, <2>2 DEF Supersede
    <2> QED
        BY <2>1, <2>2
<1>6. /\ allowed' \subseteq Routes /\ epoch' \in 0 .. MaxEpoch
      /\ profile' \in [Routes -> [generation : 0 .. MaxEpoch, suspended : BOOLEAN, base : Nat]]
    <2>1. CASE SetAccess(t)
        <3>1. call[t].op \in {"grant", "revoke"} /\ UNCHANGED profile
            BY <2>1 DEF SetAccess, Turn
        <3>2. call[t].route \in Routes
            BY <1>3, <3>1 DEF Request
        <3>3. \/ epoch < MaxEpoch /\ epoch' = epoch + 1
              \/ epoch' = epoch
            BY <2>1 DEF SetAccess
        <3>4. epoch' \in 0 .. MaxEpoch
            BY <1>4, <3>3, SMTT(30)
        <3> QED
            BY <1>4, <2>1, <3>1, <3>2, <3>4 DEF SetAccess
    <2>2. CASE SetSuspended(t)
        <3>1. call[t].op \in {"suspend", "resume"} /\ UNCHANGED allowed
            BY <2>2 DEF SetSuspended, Turn
        <3>2. call[t].route \in Routes
            BY <1>3, <3>1 DEF Request
        <3>3. profile[call[t].route].base \in Nat /\ (call[t].op = "suspend") \in BOOLEAN
            BY <1>4, <3>2
        <3>4. \/ Supersede(call[t].route, call[t].op = "suspend", profile[call[t].route].base)
              \/ UNCHANGED <<profile, epoch>>
            BY <2>2 DEF SetSuspended
        <3> QED
            BY <1>4, <1>5, <3>1, <3>2, <3>3, <3>4
    <2>3. CASE Replace(t)
        <3>1. call[t].op = "replace" /\ UNCHANGED allowed
            BY <2>3 DEF Replace, Turn
        <3>2. call[t].route \in Routes
            BY <1>3, <3>1 DEF Request
        <3>3. PICK b \in 0 .. DecisionHead : Supersede(call[t].route, FALSE, b)
            BY <2>3 DEF Replace
        <3>4. b \in Nat
            BY Counted, SMTT(30) DEF DecisionHead, IInv
        <3> QED
            BY <1>4, <1>5, <3>1, <3>2, <3>3, <3>4
    <2> QED
        BY <2>1, <2>2, <2>3
<1>7. Types'
    BY <1>1, <1>2, <1>6, LeaveStep DEF IInv, Types, TypeOK, Proposals
<1>8. \A e \in 1 .. MaxSerial : ExecutionFits(e)'
    BY <1>1, <1>2, LeaveStep, ExecutionsFit DEF IInv, Grows
<1>9. RegistryFits'
    BY <1>1 DEF IInv, RegistryFits, RegistrationFits, PermitFits, Proposals
<1>10. (PublishedWithinPermit /\ DecisionsExtendTheirBase)'
    BY <1>1 DEF IInv, PublishedWithinPermit, DecisionsExtendTheirBase
<1> QED
    BY <1>1, <1>2, <1>7, <1>8, <1>9, <1>10, LeaveStep DEF IInv

\* A registration gets a serial that nothing has had before.
LEMMA RegisterIInv ==
    ASSUME ApplicationAssumption, IInv, NEW t \in Threads,
           RegisterExecution(t) \/ RegisterDecision(t) \/ RegisterRecovered(t)
    PROVE  IInv'
<1>1. /\ UNCHANGED <<now, session, allowed, epoch, profile, permits, admitted,
                     proposal, decided, base, attempts, published>>
      /\ AtGate(t) /\ Leave(t) /\ pc[t] = "queued"
    BY DEF RegisterExecution, RegisterDecision, RegisterRecovered, Turn, security, refs
<1>2. \/ NotRegistered
      \/ \E r \in Routes, b \in Nat :
            /\ AddRegistration(r, proposal, b)
            /\ r = "human" => proposal \in Proposals
    <2>1. DecisionHead \in Nat
        BY Counted DEF DecisionHead, IInv
    <2>2. CASE RegisterExecution(t)
        <3>1. profile["ai"].base \in Nat
            BY DEF IInv, Types, TypeOK, Routes
        <3> QED
            BY <2>2, <3>1 DEF RegisterExecution, Routes
    <2>3. CASE RegisterDecision(t)
        <3>1. call[t].op = "register" /\ call[t].route = "human"
            BY <2>3 DEF RegisterDecision, Turn
        <3>2. call[t].proposal \in Proposals
            BY <1>1, <3>1, Requests
        <3> QED
            BY <2>1, <2>3, <3>2 DEF RegisterDecision, Routes
    <2>4. CASE RegisterRecovered(t)
        <3>1. call[t].op = "recover"
            BY <2>4 DEF RegisterRecovered, Turn
        <3>2. call[t].proposal \in Proposals
            BY <1>1, <3>1, Requests
        <3> QED
            BY <2>1, <2>4, <3>2 DEF RegisterRecovered, Routes
    <2> QED
        BY <2>2, <2>3, <2>4
<1>3. next_serial \in Nat \ {0} /\ MaxSerial \in Nat
    BY Counted DEF IInv, ApplicationAssumption
<1>4. CASE NotRegistered
    <2>1. UNCHANGED <<next_serial, registrations>>
        BY <1>4 DEF NotRegistered
    <2>2. Grows
        BY <1>1, <2>1, Counted, SMTT(30) DEF Grows, IInv, Types
    <2>3. Types'
        BY <1>1, <2>1, <2>2, LeaveStep DEF IInv, Types, TypeOK, Proposals
    <2>4. \A e \in 1 .. MaxSerial : ExecutionFits(e)'
        BY <1>1, <2>1, <2>2, LeaveStep, ExecutionsFit DEF IInv, Grows
    <2>5. RegistryFits'
        BY <1>1, <2>1 DEF IInv, RegistryFits, RegistrationFits, PermitFits, Proposals
    <2>6. (PublishedWithinPermit /\ DecisionsExtendTheirBase)'
        BY <1>1 DEF IInv, PublishedWithinPermit, DecisionsExtendTheirBase
    <2> QED
        BY <1>1, <2>2, <2>3, <2>4, <2>5, <2>6, LeaveStep DEF IInv
<1>5. ASSUME NEW r \in Routes, NEW b \in Nat, AddRegistration(r, proposal, b),
             r = "human" => proposal \in Proposals
      PROVE  IInv'
    <2>1. PICK g : g = [serial |-> next_serial, route |-> r, generation |-> profile[r].generation,
                        proposal |-> proposal, base |-> b]
        OBVIOUS
    <2>2. /\ registrations' = registrations \cup {g}
          /\ next_serial' = next_serial + 1 /\ next_serial <= MaxSerial
        BY <1>5, <2>1 DEF AddRegistration
    <2>3. profile[r].generation \in Nat /\ proposal \in Nat
        <3>1. profile[r].generation \in 0 .. MaxEpoch /\ MaxEpoch \in Nat
            BY DEF IInv, Types, TypeOK, ApplicationAssumption
        <3>2. proposal \in 0 .. Len(base) /\ Len(base) \in Nat
            BY Counted DEF IInv, Types, TypeOK
        <3> QED
            BY <3>1, <3>2, SMTT(30)
    <2>4. g \in Registration /\ g.serial = next_serial /\ g.route = r /\ g.proposal = proposal
        BY <1>3, <2>1, <2>3 DEF Registration
    <2>5. Grows
        BY <1>1, <1>3, <2>2, Counted, SMTT(30) DEF Grows, IInv, Types
    <2>6. TypeOK'
        <3>1. next_serial' \in 1 .. (MaxSerial + 1)
            BY <1>3, <2>2, SMTT(30)
        <3>2. registrations' \subseteq Registration
            BY <2>2, <2>4 DEF IInv, Types, TypeOK
        <3> QED
            BY <1>1, <2>5, <3>1, <3>2, LeaveStep DEF IInv, Types, TypeOK, Proposals
    <2>7. Types'
        BY <1>1, <2>5, <2>6, LeaveStep DEF IInv, Types
    <2>8. RegistryFits'
        <3>1. ASSUME NEW h \in registrations PROVE RegistrationFits(h)'
            BY <2>5, RegistrationStays DEF IInv, RegistryFits, Types, TypeOK
        <3>2. RegistrationFits(g)'
            BY <1>1, <1>3, <1>5, <2>2, <2>4, SMTT(30) DEF RegistrationFits, Proposals
        <3>3. ASSUME NEW q \in permits PROVE PermitFits(q)'
            BY <2>5, PermitStays DEF IInv, RegistryFits, Types, TypeOK
        <3> QED
            BY <1>1, <2>2, <3>1, <3>2, <3>3 DEF RegistryFits
    <2>9. ASSUME NEW e \in 1 .. MaxSerial PROVE ExecutionFits(e)'
        <3>1. ExecutionFits(e)
            BY DEF IInv
        <3>2. \A u \in Threads : Holds(u, e)' => Holds(u, e)
            BY <1>1, <2>5, LeaveStep
        <3>3. CASE e = next_serial
            <4>1. attempts[e] = 0
                BY <3>1, <3>3, <1>3, SMTT(30) DEF ExecutionFits
            <4>2. \A h \in registrations : h.serial # e
                BY <3>3, <1>3, SMTT(30) DEF IInv, RegistryFits, RegistrationFits
            <4>3. \A q \in permits : q.execution # e
                BY <3>3, <1>3, SMTT(30) DEF IInv, RegistryFits, PermitFits
            <4>4. \A u \in Threads : ~Holds(u, e)
                <5> SUFFICES ASSUME NEW u \in Threads, Holds(u, e) PROVE FALSE
                    OBVIOUS
                <5>1. call[u].permit.execution < next_serial
                    BY DEF Holds, IInv, ThreadFits, Fits, Publishing, PermitFits
                <5> QED
                    BY <1>3, <3>3, <5>1, SMTT(30) DEF Holds
            <4> QED
                BY <1>1, <1>3, <2>2, <2>4, <3>2, <3>3, <4>1, <4>2, <4>3, <4>4, SMTT(30) DEF ExecutionFits
        <3>4. CASE e # next_serial
            BY <1>1, <1>3, <2>2, <2>4, <3>1, <3>2, <3>4, SMTT(30) DEF ExecutionFits
        <3> QED
            BY <3>3, <3>4
    <2>10. (PublishedWithinPermit /\ DecisionsExtendTheirBase)'
        BY <1>1 DEF IInv, PublishedWithinPermit, DecisionsExtendTheirBase
    <2> QED
        BY <1>1, <2>5, <2>7, <2>8, <2>9, <2>10, LeaveStep DEF IInv
<1> QED
    BY <1>2, <1>4, <1>5

\* A registration is exchanged for a permit that ends in time.
LEMMA PrepareIInv ==
    ASSUME ApplicationAssumption, IInv, NEW t \in Threads, Prepare(t)
    PROVE  IInv'
<1>1. /\ UNCHANGED <<now, session, allowed, epoch, profile, admitted,
                     proposal, decided, base, attempts, published>>
      /\ AtGate(t) /\ Leave(t) /\ pc[t] = "queued" /\ call[t].op = "prepare"
    BY DEF Prepare, Turn, security, refs
<1>2. (PublishedWithinPermit /\ DecisionsExtendTheirBase)'
    BY <1>1 DEF IInv, PublishedWithinPermit, DecisionsExtendTheirBase
<1>3. CASE UNCHANGED registry
    <2>1. UNCHANGED <<next_serial, registrations, permits>>
        BY <1>3 DEF registry
    <2>2. Grows
        BY <1>1, <2>1, Counted, SMTT(30) DEF Grows, IInv, Types
    <2>3. Types'
        BY <1>1, <2>1, <2>2, LeaveStep DEF IInv, Types, TypeOK, Proposals
    <2>4. \A e \in 1 .. MaxSerial : ExecutionFits(e)'
        BY <1>1, <2>1, <2>2, LeaveStep, ExecutionsFit DEF IInv, Grows
    <2>5. RegistryFits'
        BY <1>1, <2>1 DEF IInv, RegistryFits, RegistrationFits, PermitFits, Proposals
    <2> QED
        BY <1>1, <1>2, <2>2, <2>3, <2>4, <2>5, LeaveStep DEF IInv
<1>4. ASSUME NEW g \in registrations, MayPrepare(g),
             next_serial' = next_serial + 1, registrations' = registrations \ {g},
             permits' = permits \cup
                  {[serial |-> next_serial, execution |-> g.serial, route |-> g.route,
                    session |-> call[t].session, epoch |-> epoch,
                    generation |-> g.generation, proposal |-> g.proposal,
                    base |-> g.base, issued |-> now, not_after |-> Deadline(g.route)]}
      PROVE  IInv'
    <2>1. PICK p : p = [serial |-> next_serial, execution |-> g.serial, route |-> g.route,
                        session |-> call[t].session, epoch |-> epoch,
                        generation |-> g.generation, proposal |-> g.proposal,
                        base |-> g.base, issued |-> now, not_after |-> Deadline(g.route)]
        OBVIOUS
    <2>2. permits' = permits \cup {p} /\ next_serial <= MaxSerial
        BY <1>4, <2>1 DEF MayPrepare
    <2>3. /\ next_serial \in Nat \ {0} /\ MaxSerial \in Nat /\ now \in Nat /\ epoch \in Nat
          /\ Ttl \in Nat /\ GrantExpiry \in Nat
        BY Counted DEF IInv, ApplicationAssumption
    <2>4. g \in Registration /\ RegistrationFits(g)
        BY DEF IInv, Types, TypeOK, RegistryFits
    <2>5. /\ g.serial \in Nat /\ g.route \in Routes /\ g.generation \in Nat
          /\ g.proposal \in Nat /\ g.base \in Nat
        BY <2>4 DEF Registration
    <2>6. call[t].session \in Nat
        BY <1>1, Requests DEF Request
    <2>7. /\ Deadline(g.route) \in Nat /\ Deadline(g.route) <= now + Ttl
          /\ g.route = "ai" => Deadline(g.route) <= GrantExpiry
        BY <2>3, SMTT(30) DEF Deadline
    <2>8. /\ p \in Permit /\ p.execution = g.serial /\ p.route = g.route
          /\ p.proposal = g.proposal /\ p.issued = now /\ p.not_after = Deadline(g.route)
        BY <2>1, <2>3, <2>5, <2>6, <2>7 DEF Permit
    <2>9. Grows
        BY <1>1, <1>4, <2>3, Counted, SMTT(30) DEF Grows, IInv, Types
    <2>10. TypeOK'
        <3>a. next_serial' = next_serial + 1 /\ next_serial <= MaxSerial
            BY <1>4, <2>2
        <3>1. next_serial' \in 1 .. (MaxSerial + 1)
            BY <2>3, <3>a, SMTT(30)
        <3>2. registrations' \subseteq Registration /\ permits' \subseteq Permit
            BY <1>4, <2>2, <2>8 DEF IInv, Types, TypeOK
        <3> QED
            BY <1>1, <2>9, <3>1, <3>2, LeaveStep DEF IInv, Types, TypeOK, Proposals
    <2>11. Types'
        BY <1>1, <2>9, <2>10, LeaveStep DEF IInv, Types
    <2>12. RegistryFits'
        <3>1. ASSUME NEW h \in registrations PROVE RegistrationFits(h)'
            BY <2>9, RegistrationStays DEF IInv, RegistryFits, Types, TypeOK
        <3>2. ASSUME NEW q \in permits PROVE PermitFits(q)'
            BY <2>9, PermitStays DEF IInv, RegistryFits, Types, TypeOK
        <3>3. PermitFits(p)
            BY <2>4, <2>7, <2>8 DEF PermitFits, RegistrationFits
        <3>4. PermitFits(p)'
            BY <2>8, <2>9, <3>3, PermitStays DEF IInv
        <3> QED
            BY <1>4, <2>2, <3>1, <3>2, <3>4 DEF RegistryFits
    <2>13. ASSUME NEW e \in 1 .. MaxSerial PROVE ExecutionFits(e)'
        <3>1. ExecutionFits(e)
            BY DEF IInv
        <3>2. \A u \in Threads : Holds(u, e)' => Holds(u, e)
            BY <1>1, <2>9, LeaveStep
        <3>a. next_serial' = next_serial + 1 /\ attempts' = attempts
            BY <1>1, <1>4
        <3>3. e >= next_serial' => e >= next_serial
            BY <2>3, <3>a, SMTT(30)
        <3>4. CASE e = g.serial
            <4>1. /\ attempts[e] = 0
                  /\ \A h \in registrations : h.serial = e => h = g
                  /\ \A q \in permits : q.execution # e
                  /\ \A u \in Threads : ~Holds(u, e)
                BY <3>1, <3>4 DEF ExecutionFits
            <4>2. \A h \in registrations' : h.serial # e
                BY <1>4, <4>1
            <4>3. \A q \in permits' : q.execution = e => q = p
                BY <2>2, <4>1
            <4>4. \A u \in Threads : ~Holds(u, e)'
                BY <3>2, <4>1
            <4>5. attempts'[e] = 0 /\ attempts'[e] <= 1
                BY <3>a, <4>1, SMTT(30)
            <4> QED
                BY <4>2, <4>3, <4>4, <4>5 DEF ExecutionFits
        <3>5. CASE e # g.serial
            BY <1>1, <1>4, <2>2, <2>8, <3>1, <3>2, <3>3, <3>5 DEF ExecutionFits
        <3> QED
            BY <3>4, <3>5
    <2> QED
        BY <1>1, <1>2, <2>9, <2>11, <2>12, <2>13, LeaveStep DEF IInv
<1> QED
    BY <1>3, <1>4 DEF Prepare

-----------------------------------------------------------------------------
(* The Refs *)

\* An appended proposal leaves the others where they are.
LEMMA ProposalAdded ==
    ASSUME ApplicationAssumption, Types, NEW b \in Nat, base' = Append(base, b),
           next_serial' = next_serial
    PROVE  /\ Grows /\ Len(base') = Len(base) + 1 /\ base' \in Seq(Nat)
           /\ Proposals \subseteq Proposals' /\ Len(base') \in Proposals'
<1>1. base \in Seq(Nat) /\ next_serial \in Nat /\ Len(base) \in Nat
    BY Counted DEF Types
<1>2. base' \in Seq(Nat) /\ Len(base') = Len(base) + 1
    BY <1>1, SMTT(30)
<1>3. \A i \in 1 .. Len(base) : base'[i] = base[i]
    BY <1>1, SMTT(30)
<1> QED
    BY <1>1, <1>2, <1>3, SMTT(30) DEF Grows, Proposals

\* Decisions still extend their base when a proposal is added, and when a
\* decision is that was proposed for the present head.
LEMMA DecisionsExtend ==
    ASSUME ApplicationAssumption, Types, DecisionsExtendTheirBase, Grows,
           \/ UNCHANGED decided
           \/ \E p \in Proposals : base[p] = DecisionHead /\ decided' = Append(decided, p)
    PROVE  /\ DecisionsExtendTheirBase'
           /\ decided' \in Seq(Nat)
           /\ \A i \in DOMAIN decided' : decided'[i] \in Proposals'
<1>1. /\ decided \in Seq(Nat) /\ Len(decided) \in Nat
      /\ \A i \in DOMAIN decided : decided[i] \in Proposals
    BY Counted DEF Types, TypeOK
<1>2. Proposals \subseteq Proposals' /\ Proposals \subseteq Nat
    BY Counted, SMTT(30) DEF Grows, Proposals
<1>3. \A i \in Proposals : base'[i] = base[i]
    BY DEF Grows
<1>4. CASE UNCHANGED decided
    BY <1>1, <1>2, <1>3, <1>4 DEF DecisionsExtendTheirBase
<1>5. CASE \E p \in Proposals : base[p] = DecisionHead /\ decided' = Append(decided, p)
    <2>1. PICK p \in Proposals : base[p] = DecisionHead /\ decided' = Append(decided, p)
        BY <1>5
    <2>2. decided' \in Seq(Nat) /\ Len(decided') = Len(decided) + 1
        BY <1>1, <1>2, <2>1, SMTT(30)
    <2>3. ASSUME NEW i \in DOMAIN decided'
          PROVE  decided'[i] \in Proposals /\ base[decided'[i]] = i - 1
        <3>1. i \in 1 .. Len(decided) + 1
            BY <2>2, SMTT(30)
        <3>2. CASE i \in 1 .. Len(decided)
            <4>1. decided'[i] = decided[i] /\ i \in DOMAIN decided
                BY <1>1, <2>1, <3>2, SMTT(30)
            <4> QED
                BY <1>1, <4>1 DEF DecisionsExtendTheirBase
        <3>3. CASE i = Len(decided) + 1
            <4>1. decided'[i] = p
                BY <1>1, <1>2, <2>1, <3>3, SMTT(30)
            <4> QED
                BY <1>1, <2>1, <3>3, <4>1, SMTT(30) DEF DecisionHead
        <3> QED
            BY <1>1, <3>1, <3>2, <3>3, SMTT(30)
    <2> QED
        BY <1>2, <1>3, <2>2, <2>3 DEF DecisionsExtendTheirBase
<1> QED
    BY <1>4, <1>5

\* What may happen to the Refs: nothing, a proposal, or a decision about a
\* proposal for the present head.
RefsStep ==
    \/ UNCHANGED <<base, proposal, decided, admitted>>
    \/ \E b \in Nat :
         /\ base' = Append(base, b) /\ proposal' = Len(base') /\ UNCHANGED decided
         /\ admitted' = admitted \/ admitted' = admitted \cup {proposal'}
    \/ \E p \in Proposals :
         /\ base[p] = DecisionHead /\ decided' = Append(decided, p)
         /\ UNCHANGED <<base, proposal, admitted>>

\* The Refs stay well formed.
LEMMA RefsStay ==
    ASSUME ApplicationAssumption, IInv, UNCHANGED next_serial, RefsStep
    PROVE  /\ Grows /\ DecisionsExtendTheirBase'
           /\ base' \in Seq(Nat) /\ decided' \in Seq(Nat)
           /\ \A i \in DOMAIN decided' : decided'[i] \in Proposals'
           /\ proposal' \in 0 .. Len(base') /\ admitted' \subseteq Proposals'
<1>1. /\ Types /\ DecisionsExtendTheirBase /\ base \in Seq(Nat) /\ Len(base) \in Nat
      /\ next_serial \in Nat /\ proposal \in 0 .. Len(base) /\ admitted \subseteq Proposals
    BY Counted DEF IInv, Types, TypeOK
<1>2. CASE UNCHANGED base
    <2>1. Grows
        BY <1>1, <1>2, SMTT(30) DEF Grows
    <2>2. UNCHANGED <<proposal, admitted>>
        <3>1. ASSUME NEW b \in Nat, base' = Append(base, b) PROVE FALSE
            BY <1>1, <1>2, <3>1, ProposalAdded, SMTT(30)
        <3> QED
            BY <3>1 DEF RefsStep
    <2>3. \/ UNCHANGED decided
          \/ \E p \in Proposals : base[p] = DecisionHead /\ decided' = Append(decided, p)
        BY DEF RefsStep
    <2> QED
        BY <1>1, <1>2, <2>1, <2>2, <2>3, DecisionsExtend DEF Proposals
<1>3. CASE ~UNCHANGED base
    <2>1. PICK b \in Nat :
             /\ base' = Append(base, b) /\ proposal' = Len(base') /\ UNCHANGED decided
             /\ admitted' = admitted \/ admitted' = admitted \cup {proposal'}
        BY <1>3 DEF RefsStep
    <2>2. /\ Grows /\ Len(base') = Len(base) + 1 /\ base' \in Seq(Nat)
          /\ Proposals \subseteq Proposals' /\ Len(base') \in Proposals'
        BY <1>1, <2>1, ProposalAdded
    <2>3. proposal' \in 0 .. Len(base') /\ admitted' \subseteq Proposals'
        BY <1>1, <2>1, <2>2, SMTT(30)
    <2> QED
        BY <1>1, <2>1, <2>2, <2>3, DecisionsExtend
<1> QED
    BY <1>2, <1>3

\* Registrations and permits fit as long as proposals and serials only grow.
LEMMA RegistryStays ==
    ASSUME ApplicationAssumption, IInv, Grows, UNCHANGED <<registrations, permits>>
    PROVE  RegistryFits'
<1>1. ASSUME NEW h \in registrations PROVE RegistrationFits(h)'
    BY RegistrationStays DEF IInv, RegistryFits, Types, TypeOK
<1>2. ASSUME NEW q \in permits PROVE PermitFits(q)'
    BY PermitStays DEF IInv, RegistryFits, Types, TypeOK
<1> QED
    BY <1>1, <1>2 DEF RegistryFits

\* One more publication, between the issue of its permit and its end.
LEMMA OnePublished ==
    ASSUME ApplicationAssumption, IInv,
           NEW e \in [route : Routes, issued : Nat, at : Nat, guard : Nat],
           published' = Append(published, e),
           e.issued <= e.at, e.at <= e.guard, e.guard < e.issued + Ttl,
           e.route = "ai" => e.guard < GrantExpiry
    PROVE  /\ PublishedWithinPermit'
           /\ published' \in Seq([route : Routes, issued : Nat, at : Nat, guard : Nat])
<1> DEFINE E == [route : Routes, issued : Nat, at : Nat, guard : Nat]
<1>1. published \in Seq(E) /\ Len(published) \in Nat /\ PublishedWithinPermit
    BY SMTT(30) DEF IInv, Types
<1> HIDE DEF E
<1>2. e \in E
    BY DEF E
<1>3. published' \in Seq(E) /\ Len(published') = Len(published) + 1
    BY <1>1, <1>2, SMTT(30)
<1>4. ASSUME NEW i \in DOMAIN published'
      PROVE  \/ i \in DOMAIN published /\ published'[i] = published[i]
             \/ published'[i] = e
    BY <1>1, <1>2, <1>3, SMTT(30)
<1>5. PublishedWithinPermit'
    <2> SUFFICES ASSUME NEW i \in DOMAIN published'
                 PROVE  /\ published'[i].issued <= published'[i].at
                        /\ published'[i].at <= published'[i].guard
                        /\ published'[i].guard < published'[i].issued + Ttl
                        /\ published'[i].route = "ai" => published'[i].guard < GrantExpiry
        BY DEF PublishedWithinPermit
    <2>1. CASE published'[i] = e
        BY <2>1
    <2>2. CASE i \in DOMAIN published /\ published'[i] = published[i]
        BY <1>1, <2>2 DEF PublishedWithinPermit
    <2> QED
        BY <1>4, <2>1, <2>2
<1> QED
    BY <1>3, <1>5 DEF E

\* The commit: the permit seen in force inside the gate is still in force.
LEMMA CommitIInv ==
    ASSUME ApplicationAssumption, IInv, NEW t \in Threads, Commit(t)
    PROVE  IInv'
<1>1. /\ UNCHANGED <<now, session, allowed, epoch, profile, next_serial, registrations,
                     permits, attempts>>
      /\ Leave(t) /\ pc[t] = "commit"
    BY DEF Commit, security, registry
<1>2. AtGate(t)
    BY <1>1 DEF IInv, ThreadFits, Inside
<1>3. PICK c \in Publication : c = call[t] /\ c.permit \in Permit /\ Fits("commit", c)
    BY <1>1, Publishes DEF Publishing, Inside
<1>4. /\ c.permit.issued <= c.at /\ c.at <= c.guard /\ c.guard < c.permit.not_after
      /\ c.permit.route = "human" => base[c.permit.proposal] = c.permit.base
      /\ PermitFits(c.permit)
    BY <1>3 DEF Fits, Publishing, Inside
<1>5. RefsStep
    <2>1. c.permit.base \in Nat
        BY <1>3 DEF Permit
    <2>2. CASE HeadsMatch(c.permit)
        <3>1. CASE c.permit.route = "ai"
            BY <1>3, <2>1, <2>2, <3>1 DEF Commit, RefsStep
        <3>2. CASE c.permit.route = "human"
            <4>1. c.permit.proposal \in Proposals /\ base[c.permit.proposal] = DecisionHead
                BY <1>4, <2>2, <3>2 DEF PermitFits, HeadsMatch
            <4> QED
                BY <1>3, <2>2, <3>2, <4>1 DEF Commit, RefsStep
        <3> QED
            BY <1>3, <3>1, <3>2 DEF Permit, Routes
    <2>3. CASE ~HeadsMatch(c.permit)
        BY <1>3, <2>3 DEF Commit, RefsStep, refs
    <2> QED
        BY <2>2, <2>3
<1>6. /\ PublishedWithinPermit'
      /\ published' \in Seq([route : Routes, issued : Nat, at : Nat, guard : Nat])
    <2>1. CASE HeadsMatch(c.permit)
        <3>1. PICK e : e = [route |-> c.permit.route, issued |-> c.permit.issued,
                            at |-> c.at, guard |-> c.guard]
            OBVIOUS
        <3>2. published' = Append(published, e)
            BY <1>3, <2>1, <3>1 DEF Commit
        <3>3. /\ c.at \in Nat /\ c.guard \in Nat /\ c.permit.route \in Routes
              /\ c.permit.issued \in Nat /\ c.permit.not_after \in Nat
            BY <1>3 DEF Publication, Permit
        <3>4. /\ c.guard < c.permit.issued + Ttl
              /\ c.permit.route = "ai" => c.guard < GrantExpiry
            BY <1>4, <3>3, SMTT(30) DEF PermitFits, ApplicationAssumption
        <3>5. e \in [route : Routes, issued : Nat, at : Nat, guard : Nat]
            BY <3>1, <3>3
        <3> QED
            BY <1>4, <3>1, <3>2, <3>4, <3>5, OnePublished
    <2>2. CASE ~HeadsMatch(c.permit)
        BY <1>3, <2>2 DEF Commit, IInv, Types, PublishedWithinPermit
    <2> QED
        BY <2>1, <2>2
<1>7. /\ Grows /\ DecisionsExtendTheirBase'
      /\ base' \in Seq(Nat) /\ decided' \in Seq(Nat)
      /\ \A i \in DOMAIN decided' : decided'[i] \in Proposals'
      /\ proposal' \in 0 .. Len(base') /\ admitted' \subseteq Proposals'
    BY <1>1, <1>5, RefsStay
<1>8. Types'
    BY <1>1, <1>2, <1>6, <1>7, LeaveStep DEF IInv, Types, TypeOK
<1>9. RegistryFits'
    BY <1>1, <1>7, RegistryStays
<1>10. \A e \in 1 .. MaxSerial : ExecutionFits(e)'
    BY <1>1, <1>2, <1>7, LeaveStep, ExecutionsFit DEF IInv, Grows
<1> QED
    BY <1>1, <1>2, <1>6, <1>7, <1>8, <1>9, <1>10, LeaveStep DEF IInv

-----------------------------------------------------------------------------
(* The world *)

\* A step of no thread: time, sessions, and the Refs by another process.
LEMMA WorldStep ==
    ASSUME ApplicationAssumption, IInv, RefsStep,
           now' \in 0 .. MaxTime, session' \in [Routes -> 0 .. 2],
           UNCHANGED <<allowed, epoch, profile, next_serial, registrations, permits,
                       fence, pc, call, attempts, published>>
    PROVE  IInv'
<1>1. /\ Grows /\ DecisionsExtendTheirBase'
      /\ base' \in Seq(Nat) /\ decided' \in Seq(Nat)
      /\ \A i \in DOMAIN decided' : decided'[i] \in Proposals'
      /\ proposal' \in 0 .. Len(base') /\ admitted' \subseteq Proposals'
    BY RefsStay
<1>2. Types'
    BY <1>1 DEF IInv, Types, TypeOK
<1>3. ASSUME NEW u \in Threads PROVE ThreadFits(u)'
    <2>1. PICK c \in Calls : c = call[u]
        BY DEF IInv, Types
    <2>2. PICK l : l = pc[u]
        OBVIOUS
    <2>3. Fits(l, c)'
        BY <1>1, <2>1, <2>2, FitsStays DEF IInv, ThreadFits, security
    <2>4. Fits(pc[u], call[u])'
        BY <2>1, <2>2, <2>3, SameCall
    <2> QED
        BY <2>4 DEF IInv, ThreadFits, AtGate
<1>4. RegistryFits'
    BY <1>1, RegistryStays
<1>5. \A e \in 1 .. MaxSerial : ExecutionFits(e)'
    BY <1>1, ExecutionsFit DEF IInv, Grows, Holds
<1> QED
    BY <1>1, <1>2, <1>3, <1>4, <1>5 DEF IInv, PublishedWithinPermit

\* Another process proposes, or decides the proposal for the present head.
LEMMA ForeignIInv ==
    ASSUME ApplicationAssumption, IInv, Foreign
    PROVE  IInv'
<1>1. DecisionHead \in Nat /\ Len(base) \in Nat /\ proposal \in 0 .. Len(base)
    BY Counted DEF IInv, DecisionHead, Types, TypeOK
<1>2. proposal # 0 => proposal \in Proposals
    BY <1>1, SMTT(30) DEF Proposals
<1>3. RefsStep
    BY <1>1, <1>2 DEF Foreign, RefsStep
<1>4. now' \in 0 .. MaxTime /\ session' \in [Routes -> 0 .. 2]
    BY DEF Foreign, IInv, Types, TypeOK
<1> QED
    BY <1>3, <1>4, WorldStep DEF Foreign, security, registry

\* The clock moves on, or is set back.
LEMMA TickIInv ==
    ASSUME ApplicationAssumption, IInv, Tick
    PROVE  IInv'
<1>1. now \in 0 .. MaxTime /\ MaxTime \in Nat
    BY DEF IInv, Types, TypeOK, ApplicationAssumption
<1>2. now' \in 0 .. MaxTime
    BY <1>1, SMTT(30) DEF Tick
<1>3. RefsStep /\ session' \in [Routes -> 0 .. 2]
    BY DEF Tick, RefsStep, refs, IInv, Types, TypeOK
<1> QED
    BY <1>2, <1>3, WorldStep DEF Tick, security, registry

\* A credential loses its session, or gets another.
LEMMA ReloginIInv ==
    ASSUME ApplicationAssumption, IInv, NEW a, Relogin(a)
    PROVE  IInv'
<1>1. session \in [Routes -> 0 .. 2]
    BY DEF IInv, Types, TypeOK
<1>2. \A n \in 0 .. 2 : (n + 1) % 3 \in 0 .. 2
    BY SMTT(30)
<1>3. session' \in [Routes -> 0 .. 2]
    BY <1>1, <1>2 DEF Relogin
<1>4. RefsStep /\ now' \in 0 .. MaxTime
    BY DEF Relogin, RefsStep, refs, IInv, Types, TypeOK
<1> QED
    BY <1>3, <1>4, WorldStep DEF Relogin, security, registry

\* Nothing is registered, held or published at first.
LEMMA InitIInv ==
    ASSUME ApplicationAssumption, Init
    PROVE  IInv
<1>1. TypeOK
    BY SMTT(30) DEF Init, TypeOK, ApplicationAssumption, Routes, Proposals
<1>2. Types
    BY <1>1, SMTT(30) DEF Init, Types, ApplicationAssumption, Labels, Calls
<1>3. \A t \in Threads : ThreadFits(t)
    BY DEF Init, ThreadFits, Fits, Inside, Publishing
<1>4. RegistryFits
    BY DEF Init, RegistryFits
<1>5. \A e \in 1 .. MaxSerial : ExecutionFits(e)
    BY SMTT(30) DEF Init, ExecutionFits, Holds
<1>6. PublishedWithinPermit /\ DecisionsExtendTheirBase
    BY SMTT(30) DEF Init, PublishedWithinPermit, DecisionsExtendTheirBase
<1> QED
    BY <1>2, <1>3, <1>4, <1>5, <1>6 DEF IInv

\* Every step keeps the invariant.
LEMMA NextIInv ==
    ASSUME ApplicationAssumption, IInv, [Next]_vars
    PROVE  IInv'
<1>1. CASE UNCHANGED vars
    <2>1. RefsStep /\ now' \in 0 .. MaxTime /\ session' \in [Routes -> 0 .. 2]
        BY <1>1 DEF vars, RefsStep, IInv, Types, TypeOK
    <2> QED
        BY <1>1, <2>1, WorldStep DEF vars
<1>2. ASSUME NEW t \in Threads, AskAny(t) PROVE IInv'
    BY <1>2, AskIInv
<1>3. ASSUME NEW t \in Threads, NEW p \in permits, NEW a \in Routes, Burn(t, p, a) PROVE IInv'
    BY <1>3, BurnIInv
<1>4. ASSUME NEW t \in Threads, Executor(t) PROVE IInv'
    BY <1>4, ExecutorIInv
<1>5. ASSUME NEW t \in Threads, Work(t) PROVE IInv'
    <2>1. CASE SetAccess(t) \/ SetSuspended(t) \/ Replace(t)
        BY <2>1, ControlIInv
    <2>2. CASE RegisterExecution(t) \/ RegisterDecision(t) \/ RegisterRecovered(t)
        BY <2>2, RegisterIInv
    <2>3. CASE Prepare(t)
        BY <2>3, PrepareIInv
    <2>4. CASE Start(t)
        BY <2>4, StartIInv
    <2>5. CASE Reauth(t)
        BY <2>5, ExecutorIInv
    <2>6. CASE Check(t)
        BY <2>6, CheckIInv
    <2>7. CASE Evaluate(t)
        BY <2>7, EvaluateIInv
    <2>8. CASE Begin(t)
        BY <2>8, BeginIInv
    <2>9. CASE Commit(t)
        BY <2>9, CommitIInv
    <2> QED
        BY <1>5, <2>1, <2>2, <2>3, <2>4, <2>5, <2>6, <2>7, <2>8, <2>9 DEF Work
<1> QED
    BY <1>1, <1>2, <1>3, <1>4, <1>5, ForeignIInv, TickIInv, ReloginIInv DEF Next

-----------------------------------------------------------------------------
(* The theorems *)

\* The inductive invariant holds of every behaviour.
THEOREM Invariance ==
    ASSUME ApplicationAssumption
    PROVE  Spec => []IInv
<1>1. Init => IInv
    BY InitIInv
<1>2. IInv /\ [Next]_vars => IInv'
    BY NextIInv
<1> QED
    BY <1>1, <1>2, PTL DEF Spec

\* What LocalApplication publishes is lawful: each registration is used once at
\* most, each publication falls between the issue and the end of its permit
\* and of the DelegationGrant although the clock may be set back, and each
\* decision is about a proposal made for the decision before it although other
\* processes write the same Refs.
THEOREM PublicationsStaySound ==
    ASSUME ApplicationAssumption
    PROVE  Spec => []PublicationsAreSound
<1>1. IInv => PublicationsAreSound
    BY DEF IInv, Types, ExecutionFits, OneShot, PublicationsAreSound
<1> QED
    BY <1>1, Invariance, PTL

\* Nothing is published under authority that was revoked, suspended, resumed
\* or replaced since the permit was issued: the permit that validate_live_permit
\* saw in force inside the gate is in force at the commit.
THEOREM PublishesUnderLiveAuthority ==
    ASSUME ApplicationAssumption
    PROVE  Spec => PublishesOnlyWhileAuthorized
<1>1. IInv /\ [Next]_vars => [PublishesOnlyWhileAuthorizedStep]_vars
    BY DEF IInv, ThreadFits, Fits, Inside, PublishesOnlyWhileAuthorizedStep
<1> QED
    BY <1>1, Invariance, PTL DEF Spec, PublishesOnlyWhileAuthorized
=============================================================================
