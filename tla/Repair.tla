------------------------------- MODULE Repair -------------------------------
(***************************************************************************)
(* Repository::repair_objects: damaged and missing objects are put back    *)
(* from copies, unless a Tombstone says that they were erased on purpose.  *)
(* It repeats an integrity check (Fsck; the repository is in exclusive     *)
(* use, so its outcome is Defects) and one round of repairs until a round  *)
(* changes nothing.  The process may be killed between any two file system *)
(* changes; then the same repair is started again.                         *)
(***************************************************************************)
EXTENDS Closure

CONSTANTS
    Cases,      \* repairs to run: [graph, file, copies]
    Sources,    \* the sources, in the order given
    Heads,      \* heads of Refs and reflog entries
    MaxKills    \* kills in one behaviour (bound)

VARIABLES
    file,       \* the object directory
    held,       \* copies each source holds: "none", "good" or "bad"
    step,       \* where repair_objects stands
    damaged, tombstoned,  \* what inspect_damage listed
    queue,      \* objects of this round still to attempt
    progress,
    repaired,   \* objects this repair has put back
    aside,      \* objects whose damaged file moved to quarantine
    kills,
    before, inspected   \* the object directory at the start, and when
                        \* inspect_damage last read it (history)

repairVars == <<graph, file, held, step, damaged, tombstoned, queue, progress, repaired,
                aside, kills, before, inspected>>

RepairInit ==
    /\ \E c \in Cases : /\ graph = c.graph /\ held = c.copies
                        /\ file = c.file /\ before = c.file /\ inspected = c.file
    /\ step = "begin"
    /\ damaged = {} /\ tombstoned = {} /\ queue = <<>> /\ progress = FALSE
    /\ repaired = {} /\ aside = {} /\ kills = 0

-----------------------------------------------------------------------------
(* What the sources say: RecordCopies *)

Holding(o) == {s \in Range(Sources) : held[s][o] = "good"}

Usable == {o \in Records(Objects) : Holding(o) # {}}

\* each source has a catalog of its own; together they name these targets
ErasedInSources == DOMAIN TombstonesAmong(Usable)

-----------------------------------------------------------------------------

ErasedHere == DOMAIN TombstonesAmong(Intact(file))

\* inspect_damage: fsck_with_tombstones over the heads of Refs and reflog;
\* without any, over the stored Commits
Issues ==
    LET roots == IF Heads # {} THEN Heads
                 ELSE {o \in Objects : Kind[o] = "commit" /\ file[o] # "absent"}
    IN Damaged(file)
       \cup {i.oid : i \in {j \in UNION {Defects(r, file, ErasedHere) : r \in roots} :
                               j.kind \in {"missing", "corrupt"}}}

StartRepair ==
    /\ step = "begin"
    /\ step' = "inspect" /\ repaired' = {}
    /\ UNCHANGED <<graph, file, held, damaged, tombstoned, queue, progress, aside,
                   kills, before, inspected>>

inspect_damage ==
    /\ step = "inspect"
    /\ inspected' = file
    /\ damaged' = Issues \ ErasedHere
    /\ tombstoned' = Issues \cap ErasedHere
    /\ progress' = FALSE
    /\ step' = "aside"
    /\ UNCHANGED <<graph, file, held, queue, repaired, aside, kills, before>>

\* quarantine_if_corrupt for everything the repository records as erased
SetAside ==
    /\ step = "aside"
    /\ \E o \in tombstoned \cap Damaged(file) :
          /\ file' = [file EXCEPT ![o] = "absent"]
          /\ aside' = aside \cup {o}
    /\ progress' = TRUE
    /\ UNCHANGED <<graph, held, step, damaged, tombstoned, queue, repaired, kills, before,
                   inspected>>

\* damaged Records no source holds: each could be a Tombstone for anything
undecided == Records(damaged) \ Usable

Restorable == damaged \ ErasedInSources

\* mutant: unknown Records hold nothing back
Round_Undeterred == IF Records(Restorable) = {} THEN Restorable ELSE Records(Restorable)

\* Records first: they may change what may be restored next
Round ==
    CASE undecided # {}           -> {}
      [] Records(Restorable) = {} -> Restorable
      [] OTHER                    -> Records(Restorable)

ChooseRound ==
    /\ step = "aside" /\ tombstoned \cap Damaged(file) = {}
    /\ queue' = SelectSeq(Order, LAMBDA o : o \in Round)
    /\ step' = "round"
    /\ UNCHANGED <<graph, file, held, damaged, tombstoned, progress, repaired, aside,
                   kills, before, inspected>>

\* RepairSource::repair, source by source: a copy that does not verify only
\* lets the next source try
NoCopy ==
    /\ step = "round" /\ queue # <<>>
    /\ Holding(Head(queue)) = {}
    /\ queue' = Tail(queue)
    /\ UNCHANGED <<graph, file, held, step, damaged, tombstoned, progress, repaired,
                   aside, kills, before, inspected>>

\* repair_object, with verified bytes staged: a damaged file moves aside first
Quarantine ==
    /\ step = "round" /\ queue # <<>>
    /\ Holding(Head(queue)) # {} /\ Head(queue) \in Damaged(file)
    /\ file' = [file EXCEPT ![Head(queue)] = "absent"]
    /\ aside' = aside \cup {Head(queue)}
    /\ UNCHANGED <<graph, held, step, damaged, tombstoned, queue, progress, repaired,
                   kills, before, inspected>>

Publish ==
    /\ step = "round" /\ queue # <<>>
    /\ Holding(Head(queue)) # {} /\ file[Head(queue)] = "absent"
    /\ file' = [file EXCEPT ![Head(queue)] = "intact"]
    /\ repaired' = repaired \cup {Head(queue)}
    /\ progress' = TRUE
    /\ queue' = Tail(queue)
    /\ UNCHANGED <<graph, held, step, damaged, tombstoned, aside, kills, before,
                   inspected>>

\* a restored object may reveal the next damaged one behind it
RoundDone ==
    /\ step = "round" /\ queue = <<>>
    /\ step' = IF progress THEN "inspect" ELSE "done"
    /\ UNCHANGED <<graph, file, held, damaged, tombstoned, queue, progress, repaired,
                   aside, kills, before, inspected>>

RepairStep == StartRepair \/ inspect_damage \/ SetAside \/ ChooseRound \/ NoCopy
              \/ Quarantine \/ Publish \/ RoundDone

Kill ==
    /\ step \notin {"begin", "done"} /\ kills < MaxKills
    /\ kills' = kills + 1
    /\ step' = "begin"
    /\ damaged' = {} /\ tombstoned' = {} /\ queue' = <<>>
    /\ progress' = FALSE /\ repaired' = {}
    /\ UNCHANGED <<graph, file, held, aside, before, inspected>>

RepairNext == RepairStep \/ Kill

RepairSpec == RepairInit /\ [][RepairNext]_repairVars

-----------------------------------------------------------------------------
(* Properties *)

Named == LET known == {o \in Objects : before[o] # "absent"}
         IN known \cup UNION {Reach(h, Objects) : h \in Heads \cup known}

\* every Tombstone that the repository held, intact or damaged, and that the
\* repair can see, or that a source holds
EverErased ==
    DOMAIN TombstonesAmong(Intact(before) \cup Records(Damaged(before)) \cup Usable)

\* An object that a Tombstone erases is never put back, even when the Tombstone
\* itself is damaged and is only restored, or only known from a source, by this
\* repair, and even when a repair was killed half way.
ErasedStaysErased == \A o \in EverErased : file[o] = "intact" => before[o] = "intact"

\* An intact object is never touched, nothing is created that neither a head
\* nor a stored object names, and a damaged file leaves its path only while a
\* verified copy is at hand or because a Tombstone erases it.
OnlyDamageIsTouchedStep ==
    \A o \in Objects : file'[o] # file[o] =>
       /\ file[o] # "intact"
       /\ o \in Named
       /\ file'[o] = "absent" => Holding(o) # {} \/ o \in ErasedHere

OnlyDamageIsTouched == [][OnlyDamageIsTouchedStep]_repairVars

\* When repair reports, nothing that a source could still put back is left,
\* although repairs reveal further damage: what remains has no good copy, was
\* erased, or waits for a Record that might be a Tombstone.
RepairLeavesOnlyTheHopeless ==
    step = "done" =>
        \/ undecided # {}
        \/ \A o \in Issues \ (ErasedHere \cup ErasedInSources) : Holding(o) = {}

\* Repair starts another round only after the last one changed the object
\* directory, which with OnlyDamageIsTouched means that it ends.
RoundsMakeHeadwayStep ==
    step = "round" /\ step' = "inspect" => file # inspected

RoundsMakeHeadway == [][RoundsMakeHeadwayStep]_repairVars
=============================================================================
