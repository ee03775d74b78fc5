------------------------- MODULE FixturePublication -------------------------
(***************************************************************************)
(* How tools/generate-public-test-fixtures.sh replaces the fixture set: it *)
(* takes a lock with mkdir, builds the new set in a directory of its own,  *)
(* moves the old set aside and the new one into place, and rolls back from *)
(* its EXIT trap unless the publication completed.                         *)
(*                                                                         *)
(* One action is one command of the script; a signal is handled between    *)
(* two commands.  The moves are renames within tests/, hence atomic.       *)
(***************************************************************************)
CONSTANTS
    Generators,     \* runs of the script, concurrent or one after the other
    Old,            \* the fixture set published before them
    Absent,         \* no directory at a path
    Faults          \* which of "fail", "signal" and "kill" may strike

ASSUME FixtureAssumption == Old \notin Generators /\ Absent \notin Generators \cup {Old}

VARIABLES
    output_dir,             \* the set at the output path: Old, a generator's, or none
    lock_dir,               \* does the lock directory exist?
    temporary,              \* generator -> what its publication directory holds
    pc,                     \* generator -> its next command
    lock_owned, publication_started, publication_complete,  \* the script's flags
    stopped,                \* generator -> the command at which it left the main line
    cleaned,                \* generators whose cleanup ran to its end without a failure
    published               \* the set of the last completed publication

fixvars == <<output_dir, lock_dir, temporary, pc, lock_owned, publication_started,
             publication_complete, stopped, cleaned, published>>
flags == <<lock_owned, publication_started, publication_complete>>

Gone == [made |-> FALSE, staging |-> Absent, previous |-> Absent, failed |-> Absent]
Put(g, f, set) == temporary' = [temporary EXCEPT ![g] = [@ EXCEPT ![f] = set]]

Go(g, l) == pc' = [pc EXCEPT ![g] = l]
Stop(g) ==
    /\ Go(g, "on_exit")
    /\ stopped' = [stopped EXCEPT ![g] = pc[g]]

Init ==
    /\ output_dir \in {Old, Absent}
    /\ published = output_dir
    /\ lock_dir = FALSE
    /\ temporary = [g \in Generators |-> Gone]
    /\ pc = [g \in Generators |-> "start"]
    /\ lock_owned = [g \in Generators |-> FALSE]
    /\ publication_started = [g \in Generators |-> FALSE]
    /\ publication_complete = [g \in Generators |-> FALSE]
    /\ stopped = [g \in Generators |-> "none"]
    /\ cleaned = {}

-----------------------------------------------------------------------------
(* The main line. *)

Start(g) ==
    /\ pc[g] = "start"
    /\ Put(g, "made", TRUE)
    /\ Go(g, "lock")
    /\ UNCHANGED <<output_dir, lock_dir, flags, stopped, cleaned, published>>

\* Plausible slips: mkdir -p, and waiting until the lock has gone.
AcquireLock_p(g) ==
    /\ pc[g] = "lock"
    /\ lock_dir' = TRUE /\ Go(g, "own")
    /\ UNCHANGED <<output_dir, temporary, flags, stopped, cleaned, published>>
AcquireLock_waits(g) ==
    /\ pc[g] = "lock"
    /\ ~lock_dir
    /\ lock_dir' = TRUE /\ Go(g, "own")
    /\ UNCHANGED <<output_dir, temporary, flags, stopped, cleaned, published>>

AcquireLock(g) ==
    /\ pc[g] = "lock"
    /\ IF lock_dir THEN Stop(g) /\ UNCHANGED lock_dir
       ELSE lock_dir' = TRUE /\ Go(g, "own") /\ UNCHANGED stopped
    /\ UNCHANGED <<output_dir, temporary, flags, cleaned, published>>

OwnLock(g) ==
    /\ pc[g] = "own"
    /\ lock_owned' = [lock_owned EXCEPT ![g] = TRUE]
    /\ Go(g, "stage")
    /\ UNCHANGED <<output_dir, lock_dir, temporary, publication_started, publication_complete,
                   stopped, cleaned, published>>

\* Keys and certificate are generated, scanned and compared in the staging directory.
Stage(g) ==
    /\ pc[g] = "stage"
    /\ Put(g, "staging", g)
    /\ Go(g, "set_aside")
    /\ UNCHANGED <<output_dir, lock_dir, flags, stopped, cleaned, published>>

SetAside(g) ==
    /\ pc[g] = "set_aside"
    /\ IF output_dir = Absent THEN UNCHANGED <<output_dir, temporary>>
       ELSE Put(g, "previous", output_dir) /\ output_dir' = Absent
    /\ Go(g, "announce")
    /\ UNCHANGED <<lock_dir, flags, stopped, cleaned, published>>

Announce(g) ==
    /\ pc[g] = "announce"
    /\ publication_started' = [publication_started EXCEPT ![g] = TRUE]
    /\ Go(g, "publish")
    /\ UNCHANGED <<output_dir, lock_dir, temporary, lock_owned, publication_complete, stopped,
                   cleaned, published>>

Publish(g) ==
    /\ pc[g] = "publish"
    /\ output_dir' = temporary[g].staging
    /\ Put(g, "staging", Absent)
    /\ Go(g, "validate")
    /\ UNCHANGED <<lock_dir, flags, stopped, cleaned, published>>

\* validate_exact_fixture_set, whose failure is a fault.
Validate(g) ==
    /\ pc[g] = "validate"
    /\ Go(g, "complete")
    /\ UNCHANGED <<output_dir, lock_dir, temporary, flags, stopped, cleaned, published>>

Complete(g) ==
    /\ pc[g] = "complete"
    /\ publication_complete' = [publication_complete EXCEPT ![g] = TRUE]
    /\ published' = output_dir
    /\ Stop(g)
    /\ UNCHANGED <<output_dir, lock_dir, temporary, lock_owned, publication_started, cleaned>>

-----------------------------------------------------------------------------
(* on_exit and cleanup.  Signals are ignored once the handler has said so. *)

OnExit(g) ==
    /\ pc[g] = "on_exit"
    /\ Go(g, "displace")
    /\ UNCHANGED <<output_dir, lock_dir, temporary, flags, stopped, cleaned, published>>

fallible == "fail" \in Faults

\* Plausible slip: a new set is taken back only if there is an old one to put there.
must_displace_with_previous(g) ==
    /\ ~publication_complete[g] /\ output_dir # Absent
    /\ temporary[g].previous # Absent

must_displace(g) ==
    /\ ~publication_complete[g] /\ output_dir # Absent
    /\ temporary[g].previous # Absent \/ publication_started[g]

\* Plausible slip: the old set is given up when the new one cannot be moved away.
Displace_regardless(g) ==
    /\ pc[g] = "displace"
    /\ \/ /\ must_displace(g)
          /\ Put(g, "failed", output_dir) /\ output_dir' = Absent
          /\ Go(g, "restore")
       \/ /\ must_displace(g) /\ fallible
          /\ Go(g, "remove")
          /\ UNCHANGED <<output_dir, temporary>>
       \/ /\ ~must_displace(g)
          /\ Go(g, "restore")
          /\ UNCHANGED <<output_dir, temporary>>
    /\ UNCHANGED <<lock_dir, flags, stopped, cleaned, published>>

\* A move that fails leaves the publication directory as recovery material.
Displace(g) ==
    /\ pc[g] = "displace"
    /\ \/ /\ must_displace(g)
          /\ Put(g, "failed", output_dir) /\ output_dir' = Absent
          /\ Go(g, "restore")
       \/ /\ must_displace(g) /\ fallible
          /\ Go(g, "release_failed")
          /\ UNCHANGED <<output_dir, temporary>>
       \/ /\ ~must_displace(g)
          /\ Go(g, "restore")
          /\ UNCHANGED <<output_dir, temporary>>
    /\ UNCHANGED <<lock_dir, flags, stopped, cleaned, published>>

Restore(g) ==
    /\ pc[g] = "restore"
    /\ IF ~publication_complete[g] /\ temporary[g].previous # Absent
         THEN \/ /\ output_dir' = temporary[g].previous
                 /\ Put(g, "previous", Absent)
                 /\ Go(g, "remove")
              \/ /\ fallible
                 /\ Go(g, "release_failed")
                 /\ UNCHANGED <<output_dir, temporary>>
         ELSE Go(g, "remove") /\ UNCHANGED <<output_dir, temporary>>
    /\ UNCHANGED <<lock_dir, flags, stopped, cleaned, published>>

RemoveTemporary(g) ==
    /\ pc[g] = "remove"
    /\ \/ /\ temporary' = [temporary EXCEPT ![g] = Gone]
          /\ Go(g, "release")
       \/ /\ fallible
          /\ Go(g, "release_failed")
          /\ UNCHANGED temporary
    /\ UNCHANGED <<output_dir, lock_dir, flags, stopped, cleaned, published>>

\* The lock is released whether or not the rest of the cleanup succeeded.
ReleaseLock(g) ==
    /\ pc[g] \in {"release", "release_failed"}
    /\ \/ /\ lock_owned[g]
          /\ lock_dir' = FALSE
          /\ lock_owned' = [lock_owned EXCEPT ![g] = FALSE]
          /\ cleaned' = IF pc[g] = "release" THEN cleaned \cup {g} ELSE cleaned
       \/ /\ lock_owned[g] /\ fallible
          /\ UNCHANGED <<lock_dir, lock_owned, cleaned>>
       \/ /\ ~lock_owned[g]
          /\ cleaned' = IF pc[g] = "release" THEN cleaned \cup {g} ELSE cleaned
          /\ UNCHANGED <<lock_dir, lock_owned>>
    /\ Go(g, "exited")
    /\ UNCHANGED <<output_dir, temporary, publication_started, publication_complete, stopped, published>>

-----------------------------------------------------------------------------
(* Faults, and the operator's recovery. *)

MainLine == {"lock", "own", "stage", "set_aside", "announce", "publish", "validate", "complete"}

\* A command of the main line fails, or a signal is handled before it.  Assignments do
\* not fail.
Break(g) ==
    /\ \/ "fail" \in Faults /\ pc[g] \in MainLine \ {"own", "announce", "complete"}
       \/ "signal" \in Faults /\ pc[g] \in MainLine
    /\ Stop(g)
    /\ UNCHANGED <<output_dir, lock_dir, temporary, flags, cleaned, published>>

\* A signal that arrives before on_exit ignores signals runs "exit" again, with no EXIT
\* trap left.
BreakHandler(g) ==
    /\ "signal" \in Faults /\ pc[g] = "on_exit"
    /\ Go(g, "exited")
    /\ UNCHANGED <<output_dir, lock_dir, temporary, flags, stopped, cleaned, published>>

Kill(g) ==
    /\ "kill" \in Faults /\ pc[g] \notin {"start", "exited"}
    /\ Go(g, "exited")
    /\ UNCHANGED <<output_dir, lock_dir, temporary, flags, stopped, cleaned, published>>

\* "if no generator is running, remove the stale lock manually".
RemoveStaleLock ==
    /\ lock_dir
    /\ \A g \in Generators : pc[g] \in {"start", "exited"}
    /\ lock_dir' = FALSE
    /\ UNCHANGED <<output_dir, temporary, pc, flags, stopped, cleaned, published>>

Step(g) ==
    \/ AcquireLock(g) \/ OwnLock(g) \/ Stage(g) \/ SetAside(g) \/ Announce(g) \/ Publish(g)
    \/ Validate(g) \/ Complete(g) \/ OnExit(g) \/ Displace(g) \/ Restore(g)
    \/ RemoveTemporary(g) \/ ReleaseLock(g)

Next ==
    \/ \E g \in Generators : Start(g) \/ Step(g) \/ Break(g) \/ BreakHandler(g) \/ Kill(g)
    \/ RemoveStaleLock

\* The operating system runs every started process; nobody has to start one, no fault has
\* to strike and no operator has to act.
Spec == Init /\ [][Next]_fixvars /\ \A g \in Generators : WF_fixvars(Step(g))

-----------------------------------------------------------------------------
(* Properties. *)

\* The last completed set is never lost: whatever fails and whenever a run is signalled or
\* killed, it is at the output path or set aside in a publication directory.
PublishedSurvives ==
    \/ published = Absent
    \/ output_dir = published
    \/ \E g \in Generators : temporary[g].previous = published

\* When no run is active and each one that ran cleaned up without a failure, the output is
\* the last completed set (a stopped publication was rolled back, the first one to
\* nothing), no publication directory is left, and the lock is free unless a signal fell
\* between the mkdir and the note that the run owns the lock.
CleanedRunsLeaveTheirResult ==
    (\A g \in Generators : pc[g] = "start" \/ (pc[g] = "exited" /\ g \in cleaned)) =>
        /\ output_dir = published
        /\ \A g \in Generators : temporary[g] = Gone
        /\ lock_dir => \E g \in Generators : stopped[g] = "own"

Inside(g) == pc[g] \in {"stage", "set_aside", "announce", "publish", "validate", "complete"}

\* Two runs are never between the lock and the end of the publication at the same time,
\* also when runs die holding the lock and an operator removes it.
OneRunPublishes == \A g, h \in Generators : Inside(g) /\ Inside(h) => g = h

\* Every run that starts ends: a lock that is taken, or was left behind, makes the others
\* fail and never wait, so that again and again no run is in progress.
EveryRunEnds == []<>(\A g \in Generators : pc[g] \in {"start", "exited"})
=============================================================================
