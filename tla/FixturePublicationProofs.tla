---------------------- MODULE FixturePublicationProofs ----------------------
(***************************************************************************)
(* For any number of runs and any faults: runs exclude each other from the *)
(* lock to the end of the publication, the last completed fixture set is   *)
(* never lost, and runs that clean up leave exactly that set behind.       *)
(***************************************************************************)
EXTENDS FixturePublication, TLAPS

Sets == Generators \cup {Old, Absent}
Labels ==
    MainLine \cup {"start", "on_exit", "displace", "restore", "remove", "release",
                   "release_failed", "exited"}

FixTypes ==
    /\ output_dir \in Sets
    /\ published \in Sets
    /\ lock_dir \in BOOLEAN
    /\ temporary \in [Generators -> [made : BOOLEAN, staging : Sets, previous : Sets, failed : Sets]]
    /\ pc \in [Generators -> Labels]
    /\ lock_owned \in [Generators -> BOOLEAN]
    /\ publication_started \in [Generators -> BOOLEAN]
    /\ publication_complete \in [Generators -> BOOLEAN]

\* From the mkdir on, and before the lock is released.
Holding(g) == pc[g] = "own" \/ (lock_owned[g] /\ pc[g] # "exited")

Exclusion ==
    /\ \A g \in Generators : Holding(g) => lock_dir
    /\ \A g, h \in Generators : Holding(g) /\ Holding(h) => g = h

\* The publication, as far as a run has come: whoever has touched the output holds the lock.
Progress(g) ==
    /\ Inside(g) => lock_owned[g]
    /\ pc[g] \in {"start", "lock", "own", "stage", "set_aside"} =>
          ~publication_started[g] /\ temporary[g].previous = Absent
    /\ pc[g] \in {"start", "lock", "own"} => ~lock_owned[g]
    /\ pc[g] \in {"start"} \cup MainLine => ~publication_complete[g]
    /\ pc[g] \in {"set_aside", "announce", "publish"} => temporary[g].staging = g
    /\ pc[g] \in {"announce", "publish"} => output_dir = Absent
    /\ pc[g] \in {"validate", "complete"} => output_dir = g
    /\ pc[g] # "exited" /\ (temporary[g].previous # Absent \/ publication_started[g]) => lock_owned[g]

\* The rollback, as far as a run has come.
Rollback(g) ==
    /\ published = g => publication_complete[g]
    /\ /\ pc[g] \in {"on_exit", "displace"} /\ ~publication_complete[g]
       /\ temporary[g].previous # Absent \/ publication_started[g]
       => output_dir \in {Absent, g}
    /\ pc[g] = "restore" /\ ~publication_complete[g] /\ temporary[g].previous # Absent
          => output_dir = Absent
    /\ pc[g] = "remove" => publication_complete[g] \/ temporary[g].previous = Absent
    /\ publication_complete[g] /\ pc[g] \in {"on_exit", "displace", "restore", "remove"}
          => lock_owned[g] /\ output_dir = published

FixInv ==
    /\ FixTypes
    /\ Exclusion
    /\ \A g \in Generators : Progress(g) /\ Rollback(g)
    /\ PublishedSurvives

-----------------------------------------------------------------------------

\* A publication directory that is gone is a publication directory.
LEMMA GoneIsTyped == Gone \in [made : BOOLEAN, staging : Sets, previous : Sets, failed : Sets]
BY DEF Gone, Sets

LEMMA InitialFixInv == Init => FixInv
<1> SUFFICES ASSUME Init PROVE FixInv
  OBVIOUS
<1>1. FixTypes
  BY GoneIsTyped, Zenon DEF Init, FixTypes, Sets, Labels, MainLine
<1>2. Exclusion
  BY DEF Init, Exclusion, Holding
<1>3. ASSUME NEW g \in Generators PROVE Progress(g) /\ Rollback(g)
  BY FixtureAssumption DEF Init, Gone, Progress, Rollback, Inside
<1>4. QED
  BY <1>1, <1>2, <1>3 DEF Init, FixInv, PublishedSurvives

(* One lemma per action.  Only the holder of the lock changes the output, so what the     *)
(* invariant says of the others is left as it is.                                         *)

LEMMA StartPreserves ==
    ASSUME FixInv, NEW g \in Generators, Start(g)
    PROVE  FixInv'
<1> USE DEF FixInv, Start, Go, Put, flags
<1>1. FixTypes'
  BY Zenon DEF FixTypes, Sets, Labels, MainLine
<1>2. Exclusion'
  BY DEF FixTypes, Labels, MainLine, Exclusion, Holding, Progress, Inside
<1>3. ASSUME NEW h \in Generators PROVE Progress(h)' /\ Rollback(h)'
  BY FixtureAssumption
  DEF FixTypes, Sets, Labels, MainLine, Exclusion, Holding, Progress, Rollback, Inside
<1>4. PublishedSurvives'
  BY FixtureAssumption
  DEF FixTypes, Sets, Labels, MainLine, Progress, Rollback, Inside, PublishedSurvives
<1>5. QED BY <1>1, <1>2, <1>3, <1>4

LEMMA AcquireLockPreserves ==
    ASSUME FixInv, NEW g \in Generators, AcquireLock(g)
    PROVE  FixInv'
<1> USE DEF FixInv, AcquireLock, Go, Stop, flags
<1>1. FixTypes'
  BY Zenon DEF FixTypes, Sets, Labels, MainLine
<1>2. Exclusion'
  BY DEF FixTypes, Labels, MainLine, Exclusion, Holding, Progress, Inside
<1>3. ASSUME NEW h \in Generators PROVE Progress(h)' /\ Rollback(h)'
  BY FixtureAssumption
  DEF FixTypes, Sets, Labels, MainLine, Exclusion, Holding, Progress, Rollback, Inside
<1>4. PublishedSurvives'
  BY FixtureAssumption
  DEF FixTypes, Sets, Labels, MainLine, Progress, Rollback, Inside, PublishedSurvives
<1>5. QED BY <1>1, <1>2, <1>3, <1>4

LEMMA OwnLockPreserves ==
    ASSUME FixInv, NEW g \in Generators, OwnLock(g)
    PROVE  FixInv'
<1> USE DEF FixInv, OwnLock, Go, flags
<1>1. FixTypes'
  BY DEF FixTypes, Sets, Labels, MainLine
<1>2. Exclusion'
  BY DEF FixTypes, Labels, MainLine, Exclusion, Holding, Progress, Inside
<1>3. ASSUME NEW h \in Generators PROVE Progress(h)' /\ Rollback(h)'
  BY FixtureAssumption
  DEF FixTypes, Sets, Labels, MainLine, Exclusion, Holding, Progress, Rollback, Inside
<1>4. PublishedSurvives'
  BY FixtureAssumption
  DEF FixTypes, Sets, Labels, MainLine, Progress, Rollback, Inside, PublishedSurvives
<1>5. QED BY <1>1, <1>2, <1>3, <1>4

LEMMA StagePreserves ==
    ASSUME FixInv, NEW g \in Generators, Stage(g)
    PROVE  FixInv'
<1> USE DEF FixInv, Stage, Go, Put, flags
<1>1. FixTypes'
  BY DEF FixTypes, Sets, Labels, MainLine
<1>2. Exclusion'
  BY DEF FixTypes, Labels, MainLine, Exclusion, Holding, Progress, Inside
<1>3. ASSUME NEW h \in Generators PROVE Progress(h)' /\ Rollback(h)'
  BY FixtureAssumption
  DEF FixTypes, Sets, Labels, MainLine, Exclusion, Holding, Progress, Rollback, Inside
<1>4. PublishedSurvives'
  BY FixtureAssumption
  DEF FixTypes, Sets, Labels, MainLine, Progress, Rollback, Inside, PublishedSurvives
<1>5. QED BY <1>1, <1>2, <1>3, <1>4

LEMMA SetAsidePreserves ==
    ASSUME FixInv, NEW g \in Generators, SetAside(g)
    PROVE  FixInv'
<1> USE DEF FixInv, SetAside, Go, Put, flags
<1>1. FixTypes'
  BY DEF FixTypes, Sets, Labels, MainLine
<1>2. Exclusion'
  BY DEF FixTypes, Labels, MainLine, Exclusion, Holding, Progress, Inside
<1>3. ASSUME NEW h \in Generators PROVE Progress(h)' /\ Rollback(h)'
  BY FixtureAssumption
  DEF FixTypes, Sets, Labels, MainLine, Exclusion, Holding, Progress, Rollback, Inside
<1>4. PublishedSurvives'
  BY FixtureAssumption
  DEF FixTypes, Sets, Labels, MainLine, Progress, Rollback, Inside, PublishedSurvives
<1>5. QED BY <1>1, <1>2, <1>3, <1>4

LEMMA AnnouncePreserves ==
    ASSUME FixInv, NEW g \in Generators, Announce(g)
    PROVE  FixInv'
<1> USE DEF FixInv, Announce, Go, flags
<1>1. FixTypes'
  BY DEF FixTypes, Sets, Labels, MainLine
<1>2. Exclusion'
  BY DEF FixTypes, Labels, MainLine, Exclusion, Holding, Progress, Inside
<1>3. ASSUME NEW h \in Generators PROVE Progress(h)' /\ Rollback(h)'
  BY FixtureAssumption
  DEF FixTypes, Sets, Labels, MainLine, Exclusion, Holding, Progress, Rollback, Inside
<1>4. PublishedSurvives'
  BY FixtureAssumption
  DEF FixTypes, Sets, Labels, MainLine, Progress, Rollback, Inside, PublishedSurvives
<1>5. QED BY <1>1, <1>2, <1>3, <1>4

LEMMA PublishPreserves ==
    ASSUME FixInv, NEW g \in Generators, Publish(g)
    PROVE  FixInv'
<1> USE DEF FixInv, Publish, Go, Put, flags
<1>1. FixTypes'
  BY DEF FixTypes, Sets, Labels, MainLine
<1>2. Exclusion'
  BY DEF FixTypes, Labels, MainLine, Exclusion, Holding, Progress, Inside
<1>3. ASSUME NEW h \in Generators PROVE Progress(h)' /\ Rollback(h)'
  BY FixtureAssumption
  DEF FixTypes, Sets, Labels, MainLine, Exclusion, Holding, Progress, Rollback, Inside
<1>4. PublishedSurvives'
  BY FixtureAssumption
  DEF FixTypes, Sets, Labels, MainLine, Progress, Rollback, Inside, PublishedSurvives
<1>5. QED BY <1>1, <1>2, <1>3, <1>4

LEMMA ValidatePreserves ==
    ASSUME FixInv, NEW g \in Generators, Validate(g)
    PROVE  FixInv'
<1> USE DEF FixInv, Validate, Go, flags
<1>1. FixTypes'
  BY DEF FixTypes, Sets, Labels, MainLine
<1>2. Exclusion'
  BY DEF FixTypes, Labels, MainLine, Exclusion, Holding, Progress, Inside
<1>3. ASSUME NEW h \in Generators PROVE Progress(h)' /\ Rollback(h)'
  BY FixtureAssumption
  DEF FixTypes, Sets, Labels, MainLine, Exclusion, Holding, Progress, Rollback, Inside
<1>4. PublishedSurvives'
  BY FixtureAssumption
  DEF FixTypes, Sets, Labels, MainLine, Progress, Rollback, Inside, PublishedSurvives
<1>5. QED BY <1>1, <1>2, <1>3, <1>4

LEMMA CompletePreserves ==
    ASSUME FixInv, NEW g \in Generators, Complete(g)
    PROVE  FixInv'
<1> USE DEF FixInv, Complete, Go, Stop, flags
<1>1. FixTypes'
  BY DEF FixTypes, Sets, Labels, MainLine
<1>2. Exclusion'
  BY DEF FixTypes, Labels, MainLine, Exclusion, Holding, Progress, Inside
<1>3. ASSUME NEW h \in Generators PROVE Progress(h)' /\ Rollback(h)'
  BY FixtureAssumption
  DEF FixTypes, Sets, Labels, MainLine, Exclusion, Holding, Progress, Rollback, Inside
<1>4. PublishedSurvives'
  BY FixtureAssumption
  DEF FixTypes, Sets, Labels, MainLine, Progress, Rollback, Inside, PublishedSurvives
<1>5. QED BY <1>1, <1>2, <1>3, <1>4

LEMMA OnExitPreserves ==
    ASSUME FixInv, NEW g \in Generators, OnExit(g)
    PROVE  FixInv'
<1> USE DEF FixInv, OnExit, Go, flags
<1>1. FixTypes'
  BY DEF FixTypes, Sets, Labels, MainLine
<1>2. Exclusion'
  BY DEF FixTypes, Labels, MainLine, Exclusion, Holding, Progress, Inside
<1>3. ASSUME NEW h \in Generators PROVE Progress(h)' /\ Rollback(h)'
  BY FixtureAssumption
  DEF FixTypes, Sets, Labels, MainLine, Exclusion, Holding, Progress, Rollback, Inside
<1>4. PublishedSurvives'
  BY FixtureAssumption
  DEF FixTypes, Sets, Labels, MainLine, Progress, Rollback, Inside, PublishedSurvives
<1>5. QED BY <1>1, <1>2, <1>3, <1>4

LEMMA DisplacePreserves ==
    ASSUME FixInv, NEW g \in Generators, Displace(g)
    PROVE  FixInv'
<1> USE DEF FixInv, Displace, Go, Put, must_displace, fallible, flags
<1>1. FixTypes'
  BY DEF FixTypes, Sets, Labels, MainLine
<1>2. Exclusion'
  BY DEF FixTypes, Labels, MainLine, Exclusion, Holding, Progress, Inside
<1>3. ASSUME NEW h \in Generators PROVE Progress(h)' /\ Rollback(h)'
  BY FixtureAssumption
  DEF FixTypes, Sets, Labels, MainLine, Exclusion, Holding, Progress, Rollback, Inside
<1>4. PublishedSurvives'
  BY FixtureAssumption
  DEF FixTypes, Sets, Labels, MainLine, Progress, Rollback, Inside, PublishedSurvives
<1>5. QED BY <1>1, <1>2, <1>3, <1>4

LEMMA RestorePreserves ==
    ASSUME FixInv, NEW g \in Generators, Restore(g)
    PROVE  FixInv'
<1> USE DEF FixInv, Restore, Go, Put, fallible, flags
<1>1. FixTypes'
  BY SMTT(30) DEF FixTypes, Sets, Labels, MainLine
<1>2. Exclusion'
  BY DEF FixTypes, Labels, MainLine, Exclusion, Holding, Progress, Inside
<1>3. ASSUME NEW h \in Generators PROVE Progress(h)' /\ Rollback(h)'
  BY FixtureAssumption
  DEF FixTypes, Sets, Labels, MainLine, Exclusion, Holding, Progress, Rollback, Inside
<1>4. PublishedSurvives'
  BY SMTT(30), FixtureAssumption
  DEF FixTypes, Sets, Labels, MainLine, Progress, Rollback, Inside, PublishedSurvives
<1>5. QED BY <1>1, <1>2, <1>3, <1>4

LEMMA RemoveTemporaryPreserves ==
    ASSUME FixInv, NEW g \in Generators, RemoveTemporary(g)
    PROVE  FixInv'
<1> USE DEF FixInv, RemoveTemporary, Go, fallible, flags
<1>1. FixTypes'
  BY GoneIsTyped DEF FixTypes, Sets, Labels, MainLine
<1>2. Exclusion'
  BY DEF FixTypes, Labels, MainLine, Exclusion, Holding, Progress, Inside
<1>3. ASSUME NEW h \in Generators PROVE Progress(h)' /\ Rollback(h)'
  BY FixtureAssumption
  DEF FixTypes, Sets, Labels, MainLine, Exclusion, Holding, Progress, Rollback, Inside, Gone
<1>4. PublishedSurvives'
  BY FixtureAssumption
  DEF FixTypes, Sets, Labels, MainLine, Progress, Rollback, Inside, PublishedSurvives, Gone
<1>5. QED BY <1>1, <1>2, <1>3, <1>4

LEMMA ReleaseLockPreserves ==
    ASSUME FixInv, NEW g \in Generators, ReleaseLock(g)
    PROVE  FixInv'
<1> USE DEF FixInv, ReleaseLock, Go, fallible, flags
<1>1. FixTypes'
  BY Zenon DEF FixTypes, Sets, Labels, MainLine
<1>2. Exclusion'
  BY DEF FixTypes, Labels, MainLine, Exclusion, Holding, Progress, Inside
<1>3. ASSUME NEW h \in Generators PROVE Progress(h)' /\ Rollback(h)'
  BY FixtureAssumption
  DEF FixTypes, Sets, Labels, MainLine, Exclusion, Holding, Progress, Rollback, Inside
<1>4. PublishedSurvives'
  BY FixtureAssumption
  DEF FixTypes, Sets, Labels, MainLine, Progress, Rollback, Inside, PublishedSurvives
<1>5. QED BY <1>1, <1>2, <1>3, <1>4

LEMMA BreakPreserves ==
    ASSUME FixInv, NEW g \in Generators, Break(g)
    PROVE  FixInv'
<1> USE DEF FixInv, Break, Go, Stop, flags
<1>1. FixTypes'
  BY DEF FixTypes, Sets, Labels, MainLine
<1>2. Exclusion'
  BY DEF FixTypes, Labels, MainLine, Exclusion, Holding, Progress, Inside
<1>3. ASSUME NEW h \in Generators PROVE Progress(h)' /\ Rollback(h)'
  BY FixtureAssumption
  DEF FixTypes, Sets, Labels, MainLine, Exclusion, Holding, Progress, Rollback, Inside
<1>4. PublishedSurvives'
  BY FixtureAssumption
  DEF FixTypes, Sets, Labels, MainLine, Progress, Rollback, Inside, PublishedSurvives
<1>5. QED BY <1>1, <1>2, <1>3, <1>4

LEMMA BreakHandlerPreserves ==
    ASSUME FixInv, NEW g \in Generators, BreakHandler(g)
    PROVE  FixInv'
<1> USE DEF FixInv, BreakHandler, Go, flags
<1>1. FixTypes'
  BY DEF FixTypes, Sets, Labels, MainLine
<1>2. Exclusion'
  BY DEF FixTypes, Labels, MainLine, Exclusion, Holding, Progress, Inside
<1>3. ASSUME NEW h \in Generators PROVE Progress(h)' /\ Rollback(h)'
  BY FixtureAssumption
  DEF FixTypes, Sets, Labels, MainLine, Exclusion, Holding, Progress, Rollback, Inside
<1>4. PublishedSurvives'
  BY FixtureAssumption
  DEF FixTypes, Sets, Labels, MainLine, Progress, Rollback, Inside, PublishedSurvives
<1>5. QED BY <1>1, <1>2, <1>3, <1>4

LEMMA KillPreserves ==
    ASSUME FixInv, NEW g \in Generators, Kill(g)
    PROVE  FixInv'
<1> USE DEF FixInv, Kill, Go, flags
<1>1. FixTypes'
  BY DEF FixTypes, Sets, Labels, MainLine
<1>2. Exclusion'
  BY DEF FixTypes, Labels, MainLine, Exclusion, Holding, Progress, Inside
<1>3. ASSUME NEW h \in Generators PROVE Progress(h)' /\ Rollback(h)'
  BY FixtureAssumption
  DEF FixTypes, Sets, Labels, MainLine, Exclusion, Holding, Progress, Rollback, Inside
<1>4. PublishedSurvives'
  BY FixtureAssumption
  DEF FixTypes, Sets, Labels, MainLine, Progress, Rollback, Inside, PublishedSurvives
<1>5. QED BY <1>1, <1>2, <1>3, <1>4

LEMMA RemoveStaleLockPreserves ==
    ASSUME FixInv, RemoveStaleLock
    PROVE  FixInv'
<1> USE DEF FixInv, RemoveStaleLock, flags
<1>1. FixTypes' /\ PublishedSurvives'
  BY Zenon DEF FixTypes, PublishedSurvives
<1>2. Exclusion'
  BY DEF FixTypes, Exclusion, Holding, Progress
<1>3. ASSUME NEW h \in Generators PROVE Progress(h)' /\ Rollback(h)'
  BY DEF Progress, Rollback, Inside
<1>4. QED BY <1>1, <1>2, <1>3

LEMMA FixInvInductive == FixInv /\ [Next]_fixvars => FixInv'
<1> SUFFICES ASSUME FixInv, [Next]_fixvars PROVE FixInv'
  OBVIOUS
<1>1. CASE UNCHANGED fixvars
  BY <1>1 DEF FixInv, fixvars, FixTypes, Exclusion, Holding, Progress, Rollback, Inside,
              PublishedSurvives
<1>2. CASE RemoveStaleLock
  BY <1>2, RemoveStaleLockPreserves
<1>3. ASSUME NEW g \in Generators, Start(g) \/ Step(g) \/ Break(g) \/ BreakHandler(g) \/ Kill(g)
      PROVE  FixInv'
  BY <1>3, StartPreserves, AcquireLockPreserves, OwnLockPreserves, StagePreserves,
     SetAsidePreserves, AnnouncePreserves, PublishPreserves, ValidatePreserves,
     CompletePreserves, OnExitPreserves, DisplacePreserves, RestorePreserves,
     RemoveTemporaryPreserves, ReleaseLockPreserves, BreakPreserves, BreakHandlerPreserves,
     KillPreserves DEF Step
<1>4. QED BY <1>1, <1>2, <1>3 DEF Next

LEMMA FixInvHolds == Spec => []FixInv
BY InitialFixInv, FixInvInductive, PTL DEF Spec

\* For any number of runs, failures, signals and kills, the last completed fixture set is
\* at the output path or set aside in a publication directory.
THEOREM PublishedNeverLost == Spec => []PublishedSurvives
<1>1. FixInv => PublishedSurvives
  BY DEF FixInv
<1>2. QED BY <1>1, FixInvHolds, PTL

\* For any number of runs, no two are between the lock and the end of the publication.
THEOREM PublicationExclusive == Spec => []OneRunPublishes
<1>1. FixInv => OneRunPublishes
  BY DEF FixInv, FixTypes, Exclusion, Holding, Progress, Inside, OneRunPublishes
<1>2. QED BY <1>1, FixInvHolds, PTL

-----------------------------------------------------------------------------
(* What clean runs leave behind. *)

\* The run ended without a complete cleanup, or is about to.
Unclean(g) == pc[g] = "release_failed" \/ (pc[g] = "exited" /\ g \notin cleaned)

\* The output is this run's to roll back.
Touched(g) ==
    \/ pc[g] \in {"announce", "publish", "validate", "complete"}
    \/ /\ pc[g] \in {"on_exit", "displace"} /\ ~publication_complete[g]
       /\ temporary[g].previous # Absent \/ publication_started[g]
    \/ pc[g] = "restore" /\ ~publication_complete[g] /\ temporary[g].previous # Absent

\* As long as no run has ended uncleanly, a run that has touched the output keeps the last
\* completed set aside, and when there is none the output is that set.
Rolls ==
    /\ \A g \in Generators : Touched(g) => temporary[g].previous = published
    /\ output_dir = published \/ \E g \in Generators : Touched(g)

LocksExplained == lock_dir => \E g \in Generators : Holding(g) \/ stopped[g] = "own"

Emptied ==
    \A g \in Generators :
        pc[g] = "release" \/ g \in cleaned \/ pc[g] = "start" => temporary[g] = Gone

CleanInv ==
    /\ stopped \in [Generators -> MainLine \cup {"none"}]
    /\ \A g \in Generators : pc[g] \in {"start"} \cup MainLine => stopped[g] = "none"
    /\ \A g \in Generators : pc[g] \in {"publish", "validate", "complete"} => publication_started[g]
    /\ \A g \in cleaned : g \in Generators /\ pc[g] = "exited"
    /\ \/ \E g \in Generators : Unclean(g)
       \/ Rolls /\ LocksExplained /\ Emptied

(* One lemma per action.  An unclean end lasts; without one, only the holder of the lock *)
(* has touched the output, so what is said of the other runs stays as it is.             *)

LEMMA StartStaysClean ==
    ASSUME FixInv, CleanInv, NEW g \in Generators, Start(g)
    PROVE  CleanInv'
<1> USE DEF FixInv, FixTypes, CleanInv, Start, Go, Put, flags
<1>1. stopped' \in [Generators -> MainLine \cup {"none"}]
  BY DEF MainLine
<1>0. \A h \in Generators : pc'[h] \in {"start"} \cup MainLine => stopped'[h] = "none"
  BY DEF Labels, MainLine
<1>5. \A h \in Generators : pc'[h] \in {"publish", "validate", "complete"} => publication_started'[h]
  BY DEF Labels, MainLine
<1>2. \A h \in cleaned' : h \in Generators /\ pc'[h] = "exited"
  BY DEF Labels, MainLine
<1>3. ASSUME NEW h \in Generators, Unclean(h) PROVE Unclean(h)'
  BY <1>3 DEF Unclean, Labels, MainLine
<1>4. ASSUME ~\E h \in Generators : Unclean(h)' PROVE Rolls' /\ LocksExplained' /\ Emptied'
  <2>0. Rolls /\ LocksExplained /\ Emptied /\ ~Unclean(g)'
    BY <1>3, <1>4
  <2>1. ASSUME NEW h \in Generators, Touched(h)' PROVE temporary'[h].previous = published'
    BY <2>0, <2>1, FixtureAssumption
    DEF Rolls, Touched, Unclean, Exclusion, Holding, Progress, Rollback, Inside, MainLine, Labels, Sets, Gone
  <2>2. output_dir' = published' \/ \E h \in Generators : Touched(h)'
    BY <2>0, FixtureAssumption
    DEF Rolls, Touched, Unclean, Exclusion, Holding, Progress, Rollback, Inside, MainLine, Labels, Sets, Gone
  <2>3. LocksExplained'
    BY <2>0 DEF LocksExplained, Unclean, Exclusion, Holding, Progress, Inside, MainLine, Labels
  <2>4. Emptied'
    BY <2>0, Zenon DEF Emptied, Gone, MainLine, Labels
  <2> QED BY <2>1, <2>2, <2>3, <2>4 DEF Rolls
<1> QED BY <1>0, <1>1, <1>2, <1>3, <1>4, <1>5

LEMMA AcquireLockStaysClean ==
    ASSUME FixInv, CleanInv, NEW g \in Generators, AcquireLock(g)
    PROVE  CleanInv'
<1> USE DEF FixInv, FixTypes, CleanInv, AcquireLock, Go, Stop, flags
<1>1. stopped' \in [Generators -> MainLine \cup {"none"}]
  BY DEF MainLine
<1>0. \A h \in Generators : pc'[h] \in {"start"} \cup MainLine => stopped'[h] = "none"
  BY DEF Labels, MainLine
<1>5. \A h \in Generators : pc'[h] \in {"publish", "validate", "complete"} => publication_started'[h]
  BY DEF Labels, MainLine
<1>2. \A h \in cleaned' : h \in Generators /\ pc'[h] = "exited"
  BY DEF Labels, MainLine
<1>3. ASSUME NEW h \in Generators, Unclean(h) PROVE Unclean(h)'
  BY <1>3 DEF Unclean, Labels, MainLine
<1>4. ASSUME ~\E h \in Generators : Unclean(h)' PROVE Rolls' /\ LocksExplained' /\ Emptied'
  <2>0. Rolls /\ LocksExplained /\ Emptied /\ ~Unclean(g)'
    BY <1>3, <1>4
  <2>1. ASSUME NEW h \in Generators, Touched(h)' PROVE temporary'[h].previous = published'
    BY <2>0, <2>1, FixtureAssumption
    DEF Rolls, Touched, Unclean, Exclusion, Holding, Progress, Rollback, Inside, MainLine, Labels, Sets, Gone
  <2>2. output_dir' = published' \/ \E h \in Generators : Touched(h)'
    BY <2>0, FixtureAssumption
    DEF Rolls, Touched, Unclean, Exclusion, Holding, Progress, Rollback, Inside, MainLine, Labels, Sets, Gone
  <2>3. LocksExplained'
    BY <2>0, Zenon DEF LocksExplained, Unclean, Exclusion, Holding, Progress, Inside, MainLine, Labels
  <2>4. Emptied'
    BY <2>0 DEF Emptied, Gone, MainLine, Labels
  <2> QED BY <2>1, <2>2, <2>3, <2>4 DEF Rolls
<1> QED BY <1>0, <1>1, <1>2, <1>3, <1>4, <1>5

LEMMA OwnLockStaysClean ==
    ASSUME FixInv, CleanInv, NEW g \in Generators, OwnLock(g)
    PROVE  CleanInv'
<1> USE DEF FixInv, FixTypes, CleanInv, OwnLock, Go, flags
<1>1. stopped' \in [Generators -> MainLine \cup {"none"}]
  BY DEF MainLine
<1>0. \A h \in Generators : pc'[h] \in {"start"} \cup MainLine => stopped'[h] = "none"
  BY DEF Labels, MainLine
<1>5. \A h \in Generators : pc'[h] \in {"publish", "validate", "complete"} => publication_started'[h]
  BY DEF Labels, MainLine
<1>2. \A h \in cleaned' : h \in Generators /\ pc'[h] = "exited"
  BY DEF Labels, MainLine
<1>3. ASSUME NEW h \in Generators, Unclean(h) PROVE Unclean(h)'
  BY <1>3 DEF Unclean, Labels, MainLine
<1>4. ASSUME ~\E h \in Generators : Unclean(h)' PROVE Rolls' /\ LocksExplained' /\ Emptied'
  <2>0. Rolls /\ LocksExplained /\ Emptied /\ ~Unclean(g)'
    BY <1>3, <1>4
  <2>1. ASSUME NEW h \in Generators, Touched(h)' PROVE temporary'[h].previous = published'
    BY <2>0, <2>1, FixtureAssumption
    DEF Rolls, Touched, Unclean, Exclusion, Holding, Progress, Rollback, Inside, MainLine, Labels, Sets, Gone
  <2>2. output_dir' = published' \/ \E h \in Generators : Touched(h)'
    BY <2>0, FixtureAssumption
    DEF Rolls, Touched, Unclean, Exclusion, Holding, Progress, Rollback, Inside, MainLine, Labels, Sets, Gone
  <2>3. LocksExplained'
    BY <2>0 DEF LocksExplained, Unclean, Exclusion, Holding, Progress, Inside, MainLine, Labels
  <2>4. Emptied'
    BY <2>0 DEF Emptied, Gone, MainLine, Labels
  <2> QED BY <2>1, <2>2, <2>3, <2>4 DEF Rolls
<1> QED BY <1>0, <1>1, <1>2, <1>3, <1>4, <1>5

LEMMA StageStaysClean ==
    ASSUME FixInv, CleanInv, NEW g \in Generators, Stage(g)
    PROVE  CleanInv'
<1> USE DEF FixInv, FixTypes, CleanInv, Stage, Go, Put, flags
<1>1. stopped' \in [Generators -> MainLine \cup {"none"}]
  BY DEF MainLine
<1>0. \A h \in Generators : pc'[h] \in {"start"} \cup MainLine => stopped'[h] = "none"
  BY DEF Labels, MainLine
<1>5. \A h \in Generators : pc'[h] \in {"publish", "validate", "complete"} => publication_started'[h]
  BY DEF Labels, MainLine
<1>2. \A h \in cleaned' : h \in Generators /\ pc'[h] = "exited"
  BY DEF Labels, MainLine
<1>3. ASSUME NEW h \in Generators, Unclean(h) PROVE Unclean(h)'
  BY <1>3 DEF Unclean, Labels, MainLine
<1>4. ASSUME ~\E h \in Generators : Unclean(h)' PROVE Rolls' /\ LocksExplained' /\ Emptied'
  <2>0. Rolls /\ LocksExplained /\ Emptied /\ ~Unclean(g)'
    BY <1>3, <1>4
  <2>1. ASSUME NEW h \in Generators, Touched(h)' PROVE temporary'[h].previous = published'
    BY <2>0, <2>1, FixtureAssumption
    DEF Rolls, Touched, Unclean, Exclusion, Holding, Progress, Rollback, Inside, MainLine, Labels, Sets, Gone
  <2>2. output_dir' = published' \/ \E h \in Generators : Touched(h)'
    BY <2>0, FixtureAssumption
    DEF Rolls, Touched, Unclean, Exclusion, Holding, Progress, Rollback, Inside, MainLine, Labels, Sets, Gone
  <2>3. LocksExplained'
    BY <2>0 DEF LocksExplained, Unclean, Exclusion, Holding, Progress, Inside, MainLine, Labels
  <2>4. Emptied'
    BY <2>0, Zenon DEF Emptied, Gone, MainLine, Labels
  <2> QED BY <2>1, <2>2, <2>3, <2>4 DEF Rolls
<1> QED BY <1>0, <1>1, <1>2, <1>3, <1>4, <1>5

LEMMA SetAsideStaysClean ==
    ASSUME FixInv, CleanInv, NEW g \in Generators, SetAside(g)
    PROVE  CleanInv'
<1> USE DEF FixInv, FixTypes, CleanInv, SetAside, Go, Put, flags
<1>1. stopped' \in [Generators -> MainLine \cup {"none"}]
  BY DEF MainLine
<1>0. \A h \in Generators : pc'[h] \in {"start"} \cup MainLine => stopped'[h] = "none"
  BY DEF Labels, MainLine
<1>5. \A h \in Generators : pc'[h] \in {"publish", "validate", "complete"} => publication_started'[h]
  BY DEF Labels, MainLine
<1>2. \A h \in cleaned' : h \in Generators /\ pc'[h] = "exited"
  BY DEF Labels, MainLine
<1>3. ASSUME NEW h \in Generators, Unclean(h) PROVE Unclean(h)'
  BY <1>3 DEF Unclean, Labels, MainLine
<1>4. ASSUME ~\E h \in Generators : Unclean(h)' PROVE Rolls' /\ LocksExplained' /\ Emptied'
  <2>0. Rolls /\ LocksExplained /\ Emptied /\ ~Unclean(g)'
    BY <1>3, <1>4
  <2>1. ASSUME NEW h \in Generators, Touched(h)' PROVE temporary'[h].previous = published'
    BY <2>0, <2>1, FixtureAssumption
    DEF Rolls, Touched, Unclean, Exclusion, Holding, Progress, Rollback, Inside, MainLine, Labels, Sets, Gone
  <2>2. output_dir' = published' \/ \E h \in Generators : Touched(h)'
    BY <2>0, FixtureAssumption
    DEF Rolls, Touched, Unclean, Exclusion, Holding, Progress, Rollback, Inside, MainLine, Labels, Sets, Gone
  <2>3. LocksExplained'
    BY <2>0 DEF LocksExplained, Unclean, Exclusion, Holding, Progress, Inside, MainLine, Labels
  <2>4. Emptied'
    BY <2>0, Zenon DEF Emptied, Gone, MainLine, Labels
  <2> QED BY <2>1, <2>2, <2>3, <2>4 DEF Rolls
<1> QED BY <1>0, <1>1, <1>2, <1>3, <1>4, <1>5

LEMMA AnnounceStaysClean ==
    ASSUME FixInv, CleanInv, NEW g \in Generators, Announce(g)
    PROVE  CleanInv'
<1> USE DEF FixInv, FixTypes, CleanInv, Announce, Go, flags
<1>1. stopped' \in [Generators -> MainLine \cup {"none"}]
  BY DEF MainLine
<1>0. \A h \in Generators : pc'[h] \in {"start"} \cup MainLine => stopped'[h] = "none"
  BY DEF Labels, MainLine
<1>5. \A h \in Generators : pc'[h] \in {"publish", "validate", "complete"} => publication_started'[h]
  BY DEF Labels, MainLine
<1>2. \A h \in cleaned' : h \in Generators /\ pc'[h] = "exited"
  BY DEF Labels, MainLine
<1>3. ASSUME NEW h \in Generators, Unclean(h) PROVE Unclean(h)'
  BY <1>3 DEF Unclean, Labels, MainLine
<1>4. ASSUME ~\E h \in Generators : Unclean(h)' PROVE Rolls' /\ LocksExplained' /\ Emptied'
  <2>0. Rolls /\ LocksExplained /\ Emptied /\ ~Unclean(g)'
    BY <1>3, <1>4
  <2>1. ASSUME NEW h \in Generators, Touched(h)' PROVE temporary'[h].previous = published'
    BY <2>0, <2>1, FixtureAssumption
    DEF Rolls, Touched, Unclean, Exclusion, Holding, Progress, Rollback, Inside, MainLine, Labels, Sets, Gone
  <2>2. output_dir' = published' \/ \E h \in Generators : Touched(h)'
    BY <2>0, FixtureAssumption
    DEF Rolls, Touched, Unclean, Exclusion, Holding, Progress, Rollback, Inside, MainLine, Labels, Sets, Gone
  <2>3. LocksExplained'
    BY <2>0 DEF LocksExplained, Unclean, Exclusion, Holding, Progress, Inside, MainLine, Labels
  <2>4. Emptied'
    BY <2>0 DEF Emptied, Gone, MainLine, Labels
  <2> QED BY <2>1, <2>2, <2>3, <2>4 DEF Rolls
<1> QED BY <1>0, <1>1, <1>2, <1>3, <1>4, <1>5

LEMMA PublishStaysClean ==
    ASSUME FixInv, CleanInv, NEW g \in Generators, Publish(g)
    PROVE  CleanInv'
<1> USE DEF FixInv, FixTypes, CleanInv, Publish, Go, Put, flags
<1>1. stopped' \in [Generators -> MainLine \cup {"none"}]
  BY DEF MainLine
<1>0. \A h \in Generators : pc'[h] \in {"start"} \cup MainLine => stopped'[h] = "none"
  BY DEF Labels, MainLine
<1>5. \A h \in Generators : pc'[h] \in {"publish", "validate", "complete"} => publication_started'[h]
  BY DEF Labels, MainLine
<1>2. \A h \in cleaned' : h \in Generators /\ pc'[h] = "exited"
  BY DEF Labels, MainLine
<1>3. ASSUME NEW h \in Generators, Unclean(h) PROVE Unclean(h)'
  BY <1>3 DEF Unclean, Labels, MainLine
<1>4. ASSUME ~\E h \in Generators : Unclean(h)' PROVE Rolls' /\ LocksExplained' /\ Emptied'
  <2>0. Rolls /\ LocksExplained /\ Emptied /\ ~Unclean(g)'
    BY <1>3, <1>4
  <2>1. ASSUME NEW h \in Generators, Touched(h)' PROVE temporary'[h].previous = published'
    BY <2>0, <2>1, FixtureAssumption
    DEF Rolls, Touched, Unclean, Exclusion, Holding, Progress, Rollback, Inside, MainLine, Labels, Sets, Gone
  <2>2. output_dir' = published' \/ \E h \in Generators : Touched(h)'
    BY <2>0, FixtureAssumption
    DEF Rolls, Touched, Unclean, Exclusion, Holding, Progress, Rollback, Inside, MainLine, Labels, Sets, Gone
  <2>3. LocksExplained'
    BY <2>0 DEF LocksExplained, Unclean, Exclusion, Holding, Progress, Inside, MainLine, Labels
  <2>4. Emptied'
    BY <2>0, Zenon DEF Emptied, Gone, MainLine, Labels
  <2> QED BY <2>1, <2>2, <2>3, <2>4 DEF Rolls
<1> QED BY <1>0, <1>1, <1>2, <1>3, <1>4, <1>5

LEMMA ValidateStaysClean ==
    ASSUME FixInv, CleanInv, NEW g \in Generators, Validate(g)
    PROVE  CleanInv'
<1> USE DEF FixInv, FixTypes, CleanInv, Validate, Go, flags
<1>1. stopped' \in [Generators -> MainLine \cup {"none"}]
  BY DEF MainLine
<1>0. \A h \in Generators : pc'[h] \in {"start"} \cup MainLine => stopped'[h] = "none"
  BY DEF Labels, MainLine
<1>5. \A h \in Generators : pc'[h] \in {"publish", "validate", "complete"} => publication_started'[h]
  BY DEF Labels, MainLine
<1>2. \A h \in cleaned' : h \in Generators /\ pc'[h] = "exited"
  BY DEF Labels, MainLine
<1>3. ASSUME NEW h \in Generators, Unclean(h) PROVE Unclean(h)'
  BY <1>3 DEF Unclean, Labels, MainLine
<1>4. ASSUME ~\E h \in Generators : Unclean(h)' PROVE Rolls' /\ LocksExplained' /\ Emptied'
  <2>0. Rolls /\ LocksExplained /\ Emptied /\ ~Unclean(g)'
    BY <1>3, <1>4
  <2>1. ASSUME NEW h \in Generators, Touched(h)' PROVE temporary'[h].previous = published'
    BY <2>0, <2>1, FixtureAssumption
    DEF Rolls, Touched, Unclean, Exclusion, Holding, Progress, Rollback, Inside, MainLine, Labels, Sets, Gone
  <2>2. output_dir' = published' \/ \E h \in Generators : Touched(h)'
    BY <2>0, FixtureAssumption
    DEF Rolls, Touched, Unclean, Exclusion, Holding, Progress, Rollback, Inside, MainLine, Labels, Sets, Gone
  <2>3. LocksExplained'
    BY <2>0 DEF LocksExplained, Unclean, Exclusion, Holding, Progress, Inside, MainLine, Labels
  <2>4. Emptied'
    BY <2>0 DEF Emptied, Gone, MainLine, Labels
  <2> QED BY <2>1, <2>2, <2>3, <2>4 DEF Rolls
<1> QED BY <1>0, <1>1, <1>2, <1>3, <1>4, <1>5

LEMMA CompleteStaysClean ==
    ASSUME FixInv, CleanInv, NEW g \in Generators, Complete(g)
    PROVE  CleanInv'
<1> USE DEF FixInv, FixTypes, CleanInv, Complete, Go, Stop, flags
<1>1. stopped' \in [Generators -> MainLine \cup {"none"}]
  BY DEF MainLine
<1>0. \A h \in Generators : pc'[h] \in {"start"} \cup MainLine => stopped'[h] = "none"
  BY DEF Labels, MainLine
<1>5. \A h \in Generators : pc'[h] \in {"publish", "validate", "complete"} => publication_started'[h]
  BY DEF Labels, MainLine
<1>2. \A h \in cleaned' : h \in Generators /\ pc'[h] = "exited"
  BY DEF Labels, MainLine
<1>3. ASSUME NEW h \in Generators, Unclean(h) PROVE Unclean(h)'
  BY <1>3 DEF Unclean, Labels, MainLine
<1>4. ASSUME ~\E h \in Generators : Unclean(h)' PROVE Rolls' /\ LocksExplained' /\ Emptied'
  <2>0. Rolls /\ LocksExplained /\ Emptied /\ ~Unclean(g)'
    BY <1>3, <1>4
  <2>1. ASSUME NEW h \in Generators, Touched(h)' PROVE temporary'[h].previous = published'
    BY <2>0, <2>1, FixtureAssumption
    DEF Rolls, Touched, Unclean, Exclusion, Holding, Progress, Rollback, Inside, MainLine, Labels, Sets, Gone
  <2>2. output_dir' = published' \/ \E h \in Generators : Touched(h)'
    BY <2>0, FixtureAssumption
    DEF Rolls, Touched, Unclean, Exclusion, Holding, Progress, Rollback, Inside, MainLine, Labels, Sets, Gone
  <2>3. LocksExplained'
    BY <2>0 DEF LocksExplained, Unclean, Exclusion, Holding, Progress, Inside, MainLine, Labels
  <2>4. Emptied'
    BY <2>0 DEF Emptied, Gone, MainLine, Labels
  <2> QED BY <2>1, <2>2, <2>3, <2>4 DEF Rolls
<1> QED BY <1>0, <1>1, <1>2, <1>3, <1>4, <1>5

LEMMA OnExitStaysClean ==
    ASSUME FixInv, CleanInv, NEW g \in Generators, OnExit(g)
    PROVE  CleanInv'
<1> USE DEF FixInv, FixTypes, CleanInv, OnExit, Go, flags
<1>1. stopped' \in [Generators -> MainLine \cup {"none"}]
  BY DEF MainLine
<1>0. \A h \in Generators : pc'[h] \in {"start"} \cup MainLine => stopped'[h] = "none"
  BY DEF Labels, MainLine
<1>5. \A h \in Generators : pc'[h] \in {"publish", "validate", "complete"} => publication_started'[h]
  BY DEF Labels, MainLine
<1>2. \A h \in cleaned' : h \in Generators /\ pc'[h] = "exited"
  BY DEF Labels, MainLine
<1>3. ASSUME NEW h \in Generators, Unclean(h) PROVE Unclean(h)'
  BY <1>3 DEF Unclean, Labels, MainLine
<1>4. ASSUME ~\E h \in Generators : Unclean(h)' PROVE Rolls' /\ LocksExplained' /\ Emptied'
  <2>0. Rolls /\ LocksExplained /\ Emptied /\ ~Unclean(g)'
    BY <1>3, <1>4
  <2>1. ASSUME NEW h \in Generators, Touched(h)' PROVE temporary'[h].previous = published'
    BY <2>0, <2>1, FixtureAssumption
    DEF Rolls, Touched, Unclean, Exclusion, Holding, Progress, Rollback, Inside, MainLine, Labels, Sets, Gone
  <2>2. output_dir' = published' \/ \E h \in Generators : Touched(h)'
    BY <2>0, FixtureAssumption
    DEF Rolls, Touched, Unclean, Exclusion, Holding, Progress, Rollback, Inside, MainLine, Labels, Sets, Gone
  <2>3. LocksExplained'
    BY <2>0 DEF LocksExplained, Unclean, Exclusion, Holding, Progress, Inside, MainLine, Labels
  <2>4. Emptied'
    BY <2>0 DEF Emptied, Gone, MainLine, Labels
  <2> QED BY <2>1, <2>2, <2>3, <2>4 DEF Rolls
<1> QED BY <1>0, <1>1, <1>2, <1>3, <1>4, <1>5

LEMMA DisplaceStaysClean ==
    ASSUME FixInv, CleanInv, NEW g \in Generators, Displace(g)
    PROVE  CleanInv'
<1> USE DEF FixInv, FixTypes, CleanInv, Displace, Go, Put, must_displace, fallible, flags
<1>1. stopped' \in [Generators -> MainLine \cup {"none"}]
  BY DEF MainLine
<1>0. \A h \in Generators : pc'[h] \in {"start"} \cup MainLine => stopped'[h] = "none"
  BY DEF Labels, MainLine
<1>5. \A h \in Generators : pc'[h] \in {"publish", "validate", "complete"} => publication_started'[h]
  BY DEF Labels, MainLine
<1>2. \A h \in cleaned' : h \in Generators /\ pc'[h] = "exited"
  BY DEF Labels, MainLine
<1>3. ASSUME NEW h \in Generators, Unclean(h) PROVE Unclean(h)'
  BY <1>3 DEF Unclean, Labels, MainLine
<1>4. ASSUME ~\E h \in Generators : Unclean(h)' PROVE Rolls' /\ LocksExplained' /\ Emptied'
  <2>0. Rolls /\ LocksExplained /\ Emptied /\ ~Unclean(g)'
    BY <1>3, <1>4
  <2>1. ASSUME NEW h \in Generators, Touched(h)' PROVE temporary'[h].previous = published'
    BY <2>0, <2>1, FixtureAssumption
    DEF Rolls, Touched, Unclean, Exclusion, Holding, Progress, Rollback, Inside, MainLine, Labels, Sets, Gone
  <2>2. output_dir' = published' \/ \E h \in Generators : Touched(h)'
    BY <2>0, FixtureAssumption
    DEF Rolls, Touched, Unclean, Exclusion, Holding, Progress, Rollback, Inside, MainLine, Labels, Sets, Gone
  <2>3. LocksExplained'
    BY <2>0 DEF LocksExplained, Unclean, Exclusion, Holding, Progress, Inside, MainLine, Labels
  <2>4. Emptied'
    BY <2>0, Zenon DEF Emptied, Gone, MainLine, Labels
  <2> QED BY <2>1, <2>2, <2>3, <2>4 DEF Rolls
<1> QED BY <1>0, <1>1, <1>2, <1>3, <1>4, <1>5

LEMMA RestoreStaysClean ==
    ASSUME FixInv, CleanInv, NEW g \in Generators, Restore(g)
    PROVE  CleanInv'
<1> USE DEF FixInv, FixTypes, CleanInv, Restore, Go, Put, fallible, flags
<1>1. stopped' \in [Generators -> MainLine \cup {"none"}]
  BY DEF MainLine
<1>0. \A h \in Generators : pc'[h] \in {"start"} \cup MainLine => stopped'[h] = "none"
  BY DEF Labels, MainLine
<1>5. \A h \in Generators : pc'[h] \in {"publish", "validate", "complete"} => publication_started'[h]
  BY DEF Labels, MainLine
<1>2. \A h \in cleaned' : h \in Generators /\ pc'[h] = "exited"
  BY DEF Labels, MainLine
<1>3. ASSUME NEW h \in Generators, Unclean(h) PROVE Unclean(h)'
  BY <1>3 DEF Unclean, Labels, MainLine
<1>4. ASSUME ~\E h \in Generators : Unclean(h)' PROVE Rolls' /\ LocksExplained' /\ Emptied'
  <2>0. Rolls /\ LocksExplained /\ Emptied /\ ~Unclean(g)'
    BY <1>3, <1>4
  <2>1. ASSUME NEW h \in Generators, Touched(h)' PROVE temporary'[h].previous = published'
    BY SMTT(30), <2>0, <2>1, FixtureAssumption
    DEF Rolls, Touched, Unclean, Exclusion, Holding, Progress, Rollback, Inside, MainLine, Labels, Sets, Gone
  <2>2. output_dir' = published' \/ \E h \in Generators : Touched(h)'
    BY <2>0, FixtureAssumption
    DEF Rolls, Touched, Unclean, Exclusion, Holding, Progress, Rollback, Inside, MainLine, Labels, Sets, Gone
  <2>3. LocksExplained'
    BY <2>0 DEF LocksExplained, Unclean, Exclusion, Holding, Progress, Inside, MainLine, Labels
  <2>4. Emptied'
    BY <2>0, Zenon DEF Emptied, Gone, MainLine, Labels
  <2> QED BY <2>1, <2>2, <2>3, <2>4 DEF Rolls
<1> QED BY <1>0, <1>1, <1>2, <1>3, <1>4, <1>5

LEMMA RemoveTemporaryStaysClean ==
    ASSUME FixInv, CleanInv, NEW g \in Generators, RemoveTemporary(g)
    PROVE  CleanInv'
<1> USE DEF FixInv, FixTypes, CleanInv, RemoveTemporary, Go, fallible, flags
<1>1. stopped' \in [Generators -> MainLine \cup {"none"}]
  BY DEF MainLine
<1>0. \A h \in Generators : pc'[h] \in {"start"} \cup MainLine => stopped'[h] = "none"
  BY DEF Labels, MainLine
<1>5. \A h \in Generators : pc'[h] \in {"publish", "validate", "complete"} => publication_started'[h]
  BY DEF Labels, MainLine
<1>2. \A h \in cleaned' : h \in Generators /\ pc'[h] = "exited"
  BY DEF Labels, MainLine
<1>3. ASSUME NEW h \in Generators, Unclean(h) PROVE Unclean(h)'
  BY <1>3 DEF Unclean, Labels, MainLine
<1>4. ASSUME ~\E h \in Generators : Unclean(h)' PROVE Rolls' /\ LocksExplained' /\ Emptied'
  <2>0. Rolls /\ LocksExplained /\ Emptied /\ ~Unclean(g)'
    BY <1>3, <1>4
  <2>1. ASSUME NEW h \in Generators, Touched(h)' PROVE temporary'[h].previous = published'
    BY SMTT(30), <2>0, <2>1, FixtureAssumption
    DEF Rolls, Touched, Unclean, Exclusion, Holding, Progress, Rollback, Inside, MainLine, Labels, Sets, Gone
  <2>2. output_dir' = published' \/ \E h \in Generators : Touched(h)'
    BY <2>0, FixtureAssumption
    DEF Rolls, Touched, Unclean, Exclusion, Holding, Progress, Rollback, Inside, MainLine, Labels, Sets, Gone
  <2>3. LocksExplained'
    BY <2>0 DEF LocksExplained, Unclean, Exclusion, Holding, Progress, Inside, MainLine, Labels
  <2>4. Emptied'
    BY <2>0, Zenon DEF Emptied, Gone, MainLine, Labels
  <2> QED BY <2>1, <2>2, <2>3, <2>4 DEF Rolls
<1> QED BY SMTT(30), <1>0, <1>1, <1>2, <1>3, <1>4, <1>5

LEMMA ReleaseLockStaysClean ==
    ASSUME FixInv, CleanInv, NEW g \in Generators, ReleaseLock(g)
    PROVE  CleanInv'
<1> USE DEF FixInv, FixTypes, CleanInv, ReleaseLock, Go, fallible, flags
<1>1. stopped' \in [Generators -> MainLine \cup {"none"}]
  BY DEF MainLine
<1>0. \A h \in Generators : pc'[h] \in {"start"} \cup MainLine => stopped'[h] = "none"
  BY DEF Labels, MainLine
<1>5. \A h \in Generators : pc'[h] \in {"publish", "validate", "complete"} => publication_started'[h]
  BY DEF Labels, MainLine
<1>2. \A h \in cleaned' : h \in Generators /\ pc'[h] = "exited"
  BY DEF Labels, MainLine
<1>3. ASSUME NEW h \in Generators, Unclean(h) PROVE Unclean(h)'
  BY <1>3 DEF Unclean, Labels, MainLine
<1>4. ASSUME ~\E h \in Generators : Unclean(h)' PROVE Rolls' /\ LocksExplained' /\ Emptied'
  <2>0. Rolls /\ LocksExplained /\ Emptied /\ ~Unclean(g)'
    BY <1>3, <1>4, Zenon
  <2>1. ASSUME NEW h \in Generators, Touched(h)' PROVE temporary'[h].previous = published'
    BY <2>0, <2>1, FixtureAssumption
   , Zenon DEF Rolls, Touched, Unclean, Exclusion, Holding, Progress, Rollback, Inside, MainLine, Labels, Sets, Gone
  <2>2. output_dir' = published' \/ \E h \in Generators : Touched(h)'
    BY <2>0, FixtureAssumption
   , Zenon DEF Rolls, Touched, Unclean, Exclusion, Holding, Progress, Rollback, Inside, MainLine, Labels, Sets, Gone
  <2>3. LocksExplained'
    BY <2>0, Zenon DEF LocksExplained, Unclean, Exclusion, Holding, Progress, Inside, MainLine, Labels
  <2>4. Emptied'
    BY <2>0, Zenon DEF Emptied, Gone, MainLine, Labels
  <2> QED BY <2>1, <2>2, <2>3, <2>4 DEF Rolls
<1> QED BY <1>0, <1>1, <1>2, <1>3, <1>4, <1>5, Zenon

LEMMA BreakStaysClean ==
    ASSUME FixInv, CleanInv, NEW g \in Generators, Break(g)
    PROVE  CleanInv'
<1> USE DEF FixInv, FixTypes, CleanInv, Break, Go, Stop, flags
<1>1. stopped' \in [Generators -> MainLine \cup {"none"}]
  BY DEF MainLine
<1>0. \A h \in Generators : pc'[h] \in {"start"} \cup MainLine => stopped'[h] = "none"
  BY DEF Labels, MainLine
<1>5. \A h \in Generators : pc'[h] \in {"publish", "validate", "complete"} => publication_started'[h]
  BY DEF Labels, MainLine
<1>2. \A h \in cleaned' : h \in Generators /\ pc'[h] = "exited"
  BY DEF Labels, MainLine
<1>3. ASSUME NEW h \in Generators, Unclean(h) PROVE Unclean(h)'
  BY <1>3 DEF Unclean, Labels, MainLine
<1>4. ASSUME ~\E h \in Generators : Unclean(h)' PROVE Rolls' /\ LocksExplained' /\ Emptied'
  <2>0. Rolls /\ LocksExplained /\ Emptied /\ ~Unclean(g)'
    BY <1>3, <1>4, Zenon
  <2>1. ASSUME NEW h \in Generators, Touched(h)' PROVE temporary'[h].previous = published'
    BY <2>0, <2>1, FixtureAssumption
    DEF Rolls, Touched, Unclean, Exclusion, Holding, Progress, Rollback, Inside, MainLine, Labels, Sets, Gone
  <2>2. output_dir' = published' \/ \E h \in Generators : Touched(h)'
    <3>1. CASE output_dir = published
      BY <2>0, <3>1
    <3>2. ASSUME NEW h \in Generators, Touched(h) PROVE output_dir = published \/ Touched(h)'
      BY <2>0, <3>2, FixtureAssumption, Zenon DEF Rolls, Touched, Progress, Inside, MainLine, Labels, Sets
    <3> QED BY <2>0, <3>1, <3>2 DEF Rolls
  <2>3. LocksExplained'
    BY <2>0 DEF LocksExplained, Unclean, Exclusion, Holding, Progress, Inside, MainLine, Labels
  <2>4. Emptied'
    BY <2>0, Zenon DEF Emptied, Gone, MainLine, Labels
  <2> QED BY <2>1, <2>2, <2>3, <2>4 DEF Rolls
<1> QED BY <1>0, <1>1, <1>2, <1>3, <1>4, <1>5, Zenon

LEMMA BreakHandlerStaysClean ==
    ASSUME FixInv, CleanInv, NEW g \in Generators, BreakHandler(g)
    PROVE  CleanInv'
<1> USE DEF FixInv, FixTypes, CleanInv, BreakHandler, Go, flags
<1>1. stopped' \in [Generators -> MainLine \cup {"none"}]
  BY DEF MainLine
<1>0. \A h \in Generators : pc'[h] \in {"start"} \cup MainLine => stopped'[h] = "none"
  BY DEF Labels, MainLine
<1>5. \A h \in Generators : pc'[h] \in {"publish", "validate", "complete"} => publication_started'[h]
  BY DEF Labels, MainLine
<1>2. \A h \in cleaned' : h \in Generators /\ pc'[h] = "exited"
  BY DEF Labels, MainLine
<1>3. ASSUME NEW h \in Generators, Unclean(h) PROVE Unclean(h)'
  BY <1>3 DEF Unclean, Labels, MainLine
<1>4. ASSUME ~\E h \in Generators : Unclean(h)' PROVE Rolls' /\ LocksExplained' /\ Emptied'
  <2>0. Rolls /\ LocksExplained /\ Emptied /\ ~Unclean(g)'
    BY <1>3, <1>4, Zenon
  <2>1. ASSUME NEW h \in Generators, Touched(h)' PROVE temporary'[h].previous = published'
    BY <2>0, <2>1, FixtureAssumption
   , Zenon DEF Rolls, Touched, Unclean, Exclusion, Holding, Progress, Rollback, Inside, MainLine, Labels, Sets, Gone
  <2>2. output_dir' = published' \/ \E h \in Generators : Touched(h)'
    BY <2>0, FixtureAssumption
    DEF Rolls, Touched, Unclean, Exclusion, Holding, Progress, Rollback, Inside, MainLine, Labels, Sets, Gone
  <2>3. LocksExplained'
    BY <2>0, Zenon DEF LocksExplained, Unclean, Exclusion, Holding, Progress, Inside, MainLine, Labels
  <2>4. Emptied'
    BY <2>0, Zenon DEF Emptied, Gone, MainLine, Labels
  <2> QED BY <2>1, <2>2, <2>3, <2>4 DEF Rolls
<1> QED BY <1>0, <1>1, <1>2, <1>3, <1>4, <1>5, Zenon

LEMMA KillStaysClean ==
    ASSUME FixInv, CleanInv, NEW g \in Generators, Kill(g)
    PROVE  CleanInv'
<1> USE DEF FixInv, FixTypes, CleanInv, Kill, Go, flags
<1>1. stopped' \in [Generators -> MainLine \cup {"none"}]
  BY DEF MainLine
<1>0. \A h \in Generators : pc'[h] \in {"start"} \cup MainLine => stopped'[h] = "none"
  BY DEF Labels, MainLine
<1>5. \A h \in Generators : pc'[h] \in {"publish", "validate", "complete"} => publication_started'[h]
  BY DEF Labels, MainLine
<1>2. \A h \in cleaned' : h \in Generators /\ pc'[h] = "exited"
  BY DEF Labels, MainLine
<1>3. ASSUME NEW h \in Generators, Unclean(h) PROVE Unclean(h)'
  BY <1>3 DEF Unclean, Labels, MainLine
<1>4. ASSUME ~\E h \in Generators : Unclean(h)' PROVE Rolls' /\ LocksExplained' /\ Emptied'
  <2>0. Rolls /\ LocksExplained /\ Emptied /\ ~Unclean(g)'
    BY <1>3, <1>4, Zenon
  <2>1. ASSUME NEW h \in Generators, Touched(h)' PROVE temporary'[h].previous = published'
    BY <2>0, <2>1, FixtureAssumption
   , Zenon DEF Rolls, Touched, Unclean, Exclusion, Holding, Progress, Rollback, Inside, MainLine, Labels, Sets, Gone
  <2>2. output_dir' = published' \/ \E h \in Generators : Touched(h)'
    BY <2>0, FixtureAssumption
    DEF Rolls, Touched, Unclean, Exclusion, Holding, Progress, Rollback, Inside, MainLine, Labels, Sets, Gone
  <2>3. LocksExplained'
    BY <2>0 DEF LocksExplained, Unclean, Exclusion, Holding, Progress, Inside, MainLine, Labels
  <2>4. Emptied'
    BY <2>0, Zenon DEF Emptied, Gone, MainLine, Labels
  <2> QED BY <2>1, <2>2, <2>3, <2>4 DEF Rolls
<1> QED BY <1>0, <1>1, <1>2, <1>3, <1>4, <1>5, Zenon

LEMMA RemoveStaleLockStaysClean ==
    ASSUME FixInv, CleanInv, RemoveStaleLock
    PROVE  CleanInv'
BY DEF CleanInv, RemoveStaleLock, flags, Unclean, Rolls, Touched, LocksExplained, Emptied

LEMMA CleanInvInductive == FixInv /\ CleanInv /\ [Next]_fixvars => CleanInv'
<1> SUFFICES ASSUME FixInv, CleanInv, [Next]_fixvars PROVE CleanInv'
  OBVIOUS
<1>1. CASE UNCHANGED fixvars
  BY <1>1 DEF CleanInv, fixvars, Unclean, Rolls, Touched, LocksExplained, Holding, Emptied
<1>2. CASE RemoveStaleLock
  BY <1>2, RemoveStaleLockStaysClean
<1>3. ASSUME NEW g \in Generators, Start(g) \/ Step(g) \/ Break(g) \/ BreakHandler(g) \/ Kill(g)
      PROVE  CleanInv'
  BY <1>3, StartStaysClean, AcquireLockStaysClean, OwnLockStaysClean, StageStaysClean,
     SetAsideStaysClean, AnnounceStaysClean, PublishStaysClean, ValidateStaysClean,
     CompleteStaysClean, OnExitStaysClean, DisplaceStaysClean, RestoreStaysClean,
     RemoveTemporaryStaysClean, ReleaseLockStaysClean, BreakStaysClean,
     BreakHandlerStaysClean, KillStaysClean DEF Step
<1>4. QED BY <1>1, <1>2, <1>3 DEF Next

\* For any number of runs and faults: when no run is active and every one that ran cleaned
\* up, the output is the last completed set, no publication directory is left, and a lock
\* that is left was taken by a run a signal stopped before it noted that it owns the lock.
THEOREM CleanedRunsLeaveNothing == Spec => []CleanedRunsLeaveTheirResult
<1>1. Init => CleanInv
  <2> SUFFICES ASSUME Init PROVE CleanInv
    OBVIOUS
  <2>1. \A g \in Generators : pc[g] = "start" /\ stopped[g] = "none" /\ temporary[g] = Gone
    BY DEF Init
  <2>2. stopped \in [Generators -> MainLine \cup {"none"}]
    BY DEF Init
  <2>3. Rolls /\ LocksExplained /\ Emptied
    BY <2>1 DEF Init, Rolls, Touched, LocksExplained, Emptied
  <2> QED BY <2>1, <2>2, <2>3 DEF Init, CleanInv
<1>2. FixInv /\ CleanInv => CleanedRunsLeaveTheirResult
  BY DEF FixInv, CleanInv, Unclean, Rolls, Touched, LocksExplained, Holding, Progress, Emptied,
         CleanedRunsLeaveTheirResult
<1> QED BY <1>1, <1>2, CleanInvInductive, FixInvHolds, PTL DEF Spec
=============================================================================
