--------------------------- MODULE ReservedOutput ---------------------------
(***************************************************************************)
(* How ci/check-release-candidate.sh publishes an artifact set: it         *)
(* reserves the output directory with mkdir and a sentinel file, works for *)
(* hours, hard-links the artifacts in one by one, and commits by removing  *)
(* the sentinel; on any failure or handled signal it takes its own files   *)
(* and directory away again.  ci/check-cargo-package.sh does the same with *)
(* one artifact.  Several builders may be given the same output path, and  *)
(* an outsider may replace the directory or drop a file into it.           *)
(*                                                                         *)
(* One action is one command of the script; a signal is handled between    *)
(* two commands.  Files and directories are identified by their inodes,    *)
(* which are not reused.                                                   *)
(***************************************************************************)
EXTENDS Naturals, Sequences, FiniteSets

CONSTANTS
    Builders,       \* concurrent runs of the script
    Artifacts,      \* the artifact names, in installation order
    Faults,         \* which of "fail", "signal" and "kill" may strike
    MeddlePoints,   \* the outsider acts only while every builder is at one of these
    MaxMeddles      \* bound: actions of the outsider

ASSUME ReservedOutputAssumption ==
    /\ Artifacts \in Seq(STRING) /\ Artifacts # <<>>
    /\ \A i, j \in 1..Len(Artifacts) : Artifacts[i] = Artifacts[j] => i = j
    /\ Faults \subseteq {"fail", "signal", "kill"}
    /\ MaxMeddles \in Nat

VARIABLES
    path,                   \* the directory at the output path
    entries,                \* directory -> the entries in it
    pc,                     \* builder -> its next command
    reservation_inode,      \* builder -> the directory it takes for its reservation
    reservation_file,       \* builder -> has it named its sentinel?
    reservation_file_inode, \* builder -> the inode it noted for its sentinel
    reservation_active,     \* builder -> does cleanup have a reservation to undo?
    next,                   \* builder -> index of the artifact being installed
    installed_records,      \* builder -> the artifacts noted as installed, in order
    stopped,                \* builder -> the command at which a fault struck first
    cleaned,                \* builder -> did its cleanup run to its end?
    committed,              \* builders whose sentinel removal succeeded
    struck,                 \* has a fault struck?
    meddles                 \* actions of the outsider so far

fs == <<path, entries>>
reservation == <<reservation_inode, reservation_file, reservation_file_inode, reservation_active>>
installation == <<next, installed_records>>
history == <<stopped, cleaned, committed>>
misfortune == <<struck, meddles>>
vars == <<fs, pc, reservation, installation, history, misfortune>>

Absent == <<"absent">>
DirOf(b) == <<"dir", b>>
ForeignDir == <<"foreign dir">>
Dirs == {DirOf(b) : b \in Builders} \cup {ForeignDir}

ArtifactNames == {Artifacts[i] : i \in 1..Len(Artifacts)}
ArtifactEntry(b, a) == [name |-> <<a>>, inode |-> <<"artifact", b, a>>]
SentinelName(b) == <<"sentinel", b>>
SentinelEntry(b, generation) == [name |-> SentinelName(b), inode |-> <<"sentinel", b, generation>>]

Here == IF path = Absent THEN {} ELSE entries[path]
Named(name) == {e \in Here : e.name = name}

Go(b, l) == pc' = [pc EXCEPT ![b] = l]

\* fail, or a command that ends the script under set -e: the EXIT trap takes over.
Abort(b) ==
    /\ pc' = [pc EXCEPT ![b] = "cleanup"]
    /\ stopped' = [stopped EXCEPT ![b] = pc[b]]

reservation_is_valid(b) ==
    /\ path # Absent
    /\ path = reservation_inode[b]
    /\ reservation_file[b] => \E e \in Named(SentinelName(b)) : e.inode = reservation_file_inode[b]

-----------------------------------------------------------------------------
(* Reserving. *)

Init ==
    /\ path = Absent
    /\ entries = [d \in Dirs |-> {}]
    /\ pc = [b \in Builders |-> "check_absent"]
    /\ reservation_inode = [b \in Builders |-> Absent]
    /\ reservation_file = [b \in Builders |-> FALSE]
    /\ reservation_file_inode = [b \in Builders |-> Absent]
    /\ reservation_active = [b \in Builders |-> FALSE]
    /\ next = [b \in Builders |-> 1]
    /\ installed_records = [b \in Builders |-> <<>>]
    /\ stopped = [b \in Builders |-> "none"]
    /\ cleaned = [b \in Builders |-> FALSE]
    /\ committed = {}
    /\ struck = FALSE
    /\ meddles = 0

\* The preconditions, the early test of the path among them: no trap is
\* installed yet, and a run that fails one just ends.
CheckAbsent(b) ==
    /\ pc[b] = "check_absent"
    /\ \/ path = Absent /\ Go(b, "mkdir") /\ UNCHANGED struck
       \/ path # Absent /\ Go(b, "exited") /\ UNCHANGED struck
       \/ "fail" \in Faults /\ Go(b, "exited") /\ struck' = TRUE
    /\ UNCHANGED <<fs, reservation, installation, history, meddles>>

\* Plausible slip: mkdir -p accepts a directory that exists.
Mkdir_p(b) ==
    /\ pc[b] = "mkdir"
    /\ path' = IF path = Absent THEN DirOf(b) ELSE path
    /\ Go(b, "identify_dir")
    /\ UNCHANGED <<entries, reservation, installation, history, misfortune>>

Mkdir(b) ==
    /\ pc[b] = "mkdir"
    /\ \/ /\ path = Absent
          /\ path' = DirOf(b)
          /\ Go(b, "identify_dir")
          /\ UNCHANGED stopped
       \/ /\ path # Absent
          /\ Abort(b)
          /\ UNCHANGED path
    /\ UNCHANGED <<entries, reservation, installation, cleaned, committed, misfortune>>

\* Only a directory that has gone cannot be identified; the rmdir on that branch is void.
IdentifyDir(b) ==
    /\ pc[b] = "identify_dir"
    /\ \/ /\ path # Absent
          /\ reservation_inode' = [reservation_inode EXCEPT ![b] = path]
          /\ Go(b, "activate")
          /\ UNCHANGED stopped
       \/ /\ path = Absent
          /\ Abort(b)
          /\ UNCHANGED reservation_inode
    /\ UNCHANGED <<fs, reservation_file, reservation_file_inode, reservation_active, installation,
                   cleaned, committed, misfortune>>

Activate(b) ==
    /\ pc[b] = "activate"
    /\ reservation_active' = [reservation_active EXCEPT ![b] = TRUE]
    /\ Go(b, "mktemp")
    /\ UNCHANGED <<fs, reservation_inode, reservation_file, reservation_file_inode, installation,
                   history, misfortune>>

Mktemp(b) ==
    /\ pc[b] = "mktemp"
    /\ \/ /\ path # Absent
          /\ entries' = [entries EXCEPT ![path] = @ \cup {SentinelEntry(b, 1)}]
          /\ reservation_file' = [reservation_file EXCEPT ![b] = TRUE]
          /\ Go(b, "write_token")
          /\ UNCHANGED stopped
       \/ /\ path = Absent
          /\ Abort(b)
          /\ UNCHANGED <<entries, reservation_file>>
    /\ UNCHANGED <<path, reservation_inode, reservation_file_inode, reservation_active, installation,
                   cleaned, committed, misfortune>>

\* The redirection creates the file anew if the directory was replaced meanwhile.
WriteToken(b) ==
    /\ pc[b] = "write_token"
    /\ \/ /\ path # Absent
          /\ entries' = IF Named(SentinelName(b)) # {} THEN entries
                        ELSE [entries EXCEPT ![path] = @ \cup {SentinelEntry(b, 2)}]
          /\ Go(b, "identify_sentinel")
          /\ UNCHANGED stopped
       \/ /\ path = Absent
          /\ Abort(b)
          /\ UNCHANGED entries
    /\ UNCHANGED <<path, reservation, installation, cleaned, committed, misfortune>>

IdentifySentinel(b) ==
    /\ pc[b] = "identify_sentinel"
    /\ \/ /\ \E e \in Named(SentinelName(b)) :
                reservation_file_inode' = [reservation_file_inode EXCEPT ![b] = e.inode]
          /\ Go(b, "gates")
          /\ UNCHANGED stopped
       \/ /\ Named(SentinelName(b)) = {}
          /\ Abort(b)
          /\ UNCHANGED reservation_file_inode
    /\ UNCHANGED <<fs, reservation_inode, reservation_file, reservation_active, installation,
                   cleaned, committed, misfortune>>

-----------------------------------------------------------------------------
(* Working and installing. *)

\* A test of the script: go on, or fail.
Test(b, here, ok, there) ==
    /\ pc[b] = here
    /\ IF ok THEN Go(b, there) /\ UNCHANGED stopped ELSE Abort(b)
    /\ UNCHANGED <<fs, reservation, installation, cleaned, committed, misfortune>>

\* The gates and the staging are long; what they do to the output path is nothing.
Gates(b) == Test(b, "gates", TRUE, "revalidate")
Revalidate(b) == Test(b, "revalidate", reservation_is_valid(b), "stage")
Stage(b) == Test(b, "stage", TRUE, "pre_valid")
PreValid(b) == Test(b, "pre_valid", reservation_is_valid(b), "pre_count")
PreCount(b) == Test(b, "pre_count", Cardinality(Here) = 1, "collide")

Current(b) == Artifacts[next[b]]

Collide(b) == Test(b, "collide", Named(<<Current(b)>>) = {}, "link")

Link(b) ==
    /\ pc[b] = "link"
    /\ \/ /\ path # Absent /\ Named(<<Current(b)>>) = {}
          /\ entries' = [entries EXCEPT ![path] = @ \cup {ArtifactEntry(b, Current(b))}]
          /\ Go(b, "identify")
          /\ UNCHANGED stopped
       \/ /\ path = Absent \/ Named(<<Current(b)>>) # {}
          /\ Abort(b)
          /\ UNCHANGED entries
    /\ UNCHANGED <<path, reservation, installation, cleaned, committed, misfortune>>

Identify(b) == Test(b, "identify", ArtifactEntry(b, Current(b)) \in Here, "record")

\* Plausible slip: the last artifact is not noted.
Record_short(b) ==
    /\ pc[b] = "record"
    /\ installed_records' = [installed_records EXCEPT ![b] =
                                IF next[b] < Len(Artifacts) THEN Append(@, Current(b)) ELSE @]
    /\ next' = [next EXCEPT ![b] = @ + 1]
    /\ Go(b, IF next[b] < Len(Artifacts) THEN "collide" ELSE "post_valid")
    /\ UNCHANGED <<fs, reservation, history, misfortune>>

Record(b) ==
    /\ pc[b] = "record"
    /\ installed_records' = [installed_records EXCEPT ![b] = Append(@, Current(b))]
    /\ next' = [next EXCEPT ![b] = @ + 1]
    /\ Go(b, IF next[b] < Len(Artifacts) THEN "collide" ELSE "post_valid")
    /\ UNCHANGED <<fs, reservation, history, misfortune>>

PostValid(b) == Test(b, "post_valid", reservation_is_valid(b), "post_count")

\* Plausible slip: the count of the final set is not checked.
PostCount_unchecked(b) == Test(b, "post_count", TRUE, "post_files")

PostCount(b) == Test(b, "post_count", Cardinality(Here) = Len(Artifacts) + 1, "post_files")
PostFiles(b) == Test(b, "post_files", \A a \in ArtifactNames : Named(<<a>>) # {}, "commit")

\* rm -f: a sentinel that has gone is no error.
Commit(b) ==
    /\ pc[b] = "commit"
    /\ entries' = [d \in Dirs |-> IF d = path THEN entries[d] \ Named(SentinelName(b)) ELSE entries[d]]
    /\ committed' = committed \cup {b}
    /\ Go(b, "deactivate")
    /\ UNCHANGED <<path, reservation, installation, stopped, cleaned, misfortune>>

Deactivate(b) ==
    /\ pc[b] = "deactivate"
    /\ reservation_active' = [reservation_active EXCEPT ![b] = FALSE]
    /\ Go(b, "done")
    /\ UNCHANGED <<fs, reservation_inode, reservation_file, reservation_file_inode, installation,
                   history, misfortune>>

-----------------------------------------------------------------------------
(* Cleaning up. *)

\* Plausible slip: a run that reserved nothing cleans up all the same.
Cleanup_unguarded(b) ==
    /\ pc[b] = "cleanup"
    /\ Go(b, "unlink")
    /\ UNCHANGED <<fs, reservation, installation, history, misfortune>>

Cleanup(b) ==
    /\ pc[b] = "cleanup"
    /\ LET undo == reservation_active[b] /\ reservation_is_valid(b)
       IN /\ Go(b, IF undo THEN "unlink" ELSE "exited")
          /\ cleaned' = [cleaned EXCEPT ![b] = ~undo]
    /\ UNCHANGED <<fs, reservation, installation, stopped, committed, misfortune>>

\* Plausible slip: the sentinel goes first, the artifacts after it.
Unlink_after_sentinel(b) ==
    /\ pc[b] = "unlink"
    /\ LET gone == IF Named(SentinelName(b)) # {} THEN Named(SentinelName(b))
                   ELSE {e \in Here : \E i \in 1..Len(installed_records[b]) :
                                          e = ArtifactEntry(b, installed_records[b][i])}
       IN entries' = [d \in Dirs |-> IF d = path THEN entries[d] \ gone ELSE entries[d]]
    /\ Go(b, IF Named(SentinelName(b)) # {} THEN "unlink" ELSE "rm_sentinel")
    /\ UNCHANGED <<path, reservation, installation, history, misfortune>>

\* Plausible slip: whatever bears an artifact's name is removed.
Unlink_by_name(b) ==
    /\ pc[b] = "unlink"
    /\ \/ /\ installed_records[b] # <<>>
          /\ entries' = [d \in Dirs |-> IF d = path
                                        THEN entries[d] \ Named(<<Head(installed_records[b])>>)
                                        ELSE entries[d]]
          /\ installed_records' = [installed_records EXCEPT ![b] = Tail(@)]
          /\ UNCHANGED pc
       \/ /\ installed_records[b] = <<>>
          /\ Go(b, "rm_sentinel")
          /\ UNCHANGED <<entries, installed_records>>
    /\ UNCHANGED <<path, reservation, next, history, misfortune>>

\* One turn of the loop over the records: the file goes if it is still the one linked.
Unlink(b) ==
    /\ pc[b] = "unlink"
    /\ \/ /\ installed_records[b] # <<>>
          /\ entries' = [d \in Dirs |-> IF d = path
                                        THEN entries[d] \ {ArtifactEntry(b, Head(installed_records[b]))}
                                        ELSE entries[d]]
          /\ installed_records' = [installed_records EXCEPT ![b] = Tail(@)]
          /\ UNCHANGED pc
       \/ /\ installed_records[b] = <<>>
          /\ Go(b, "rm_sentinel")
          /\ UNCHANGED <<entries, installed_records>>
    /\ UNCHANGED <<path, reservation, next, history, misfortune>>

RmSentinel(b) ==
    /\ pc[b] = "rm_sentinel"
    /\ entries' = [d \in Dirs |-> IF d = path /\ reservation_file[b]
                                  THEN entries[d] \ Named(SentinelName(b)) ELSE entries[d]]
    /\ Go(b, "rmdir")
    /\ UNCHANGED <<path, reservation, installation, history, misfortune>>

Rmdir(b) ==
    /\ pc[b] = "rmdir"
    /\ path' = IF Here = {} THEN Absent ELSE path
    /\ cleaned' = [cleaned EXCEPT ![b] = TRUE]
    /\ Go(b, "exited")
    /\ UNCHANGED <<entries, reservation, installation, stopped, committed, misfortune>>

-----------------------------------------------------------------------------
(* Faults and the outsider. *)

Reserving == {"mkdir", "identify_dir", "activate", "mktemp", "write_token", "identify_sentinel"}
Working == {"gates", "revalidate", "stage", "pre_valid", "pre_count"}
Installing == {"collide", "link", "identify", "record", "post_valid", "post_count", "post_files", "commit"}
Undoing == {"cleanup", "unlink", "rm_sentinel", "rmdir"}
Ended == {"done", "exited", "killed"}
Commands == {"check_absent", "deactivate"} \cup Reserving \cup Working \cup Installing \cup Undoing \cup Ended

Fallible == (Reserving \ {"activate"}) \cup {"gates", "revalidate", "stage", "link", "identify", "record", "commit"}

\* A command fails for a reason of its own.  When stat fails on the new
\* directory the script removes it at once.
Fail(b) ==
    /\ "fail" \in Faults
    /\ pc[b] \in Fallible
    /\ path' = IF pc[b] = "identify_dir" /\ Here = {} THEN Absent ELSE path
    /\ Abort(b)
    /\ struck' = TRUE
    /\ UNCHANGED <<entries, reservation, installation, cleaned, committed, meddles>>

\* HUP, INT or TERM before the next command: the trap exits, the EXIT trap cleans up.
Signal(b) ==
    /\ "signal" \in Faults
    /\ pc[b] \in Reserving \cup Working \cup Installing
    /\ Abort(b)
    /\ struck' = TRUE
    /\ UNCHANGED <<fs, reservation, installation, cleaned, committed, meddles>>

\* A signal during cleanup exits from within it.
SignalCleanup(b) ==
    /\ "signal" \in Faults
    /\ pc[b] \in Undoing
    /\ Go(b, "exited")
    /\ struck' = TRUE
    /\ UNCHANGED <<fs, reservation, installation, history, meddles>>

Kill(b) ==
    /\ "kill" \in Faults
    /\ pc[b] \notin Ended
    /\ Go(b, "killed")
    /\ stopped' = [stopped EXCEPT ![b] = IF @ = "none" THEN pc[b] ELSE @]
    /\ struck' = TRUE
    /\ UNCHANGED <<fs, reservation, installation, cleaned, committed, meddles>>

\* Where the script acts without looking again: between the mkdir and the stat of the new
\* directory, within a cleanup, and after the last test of the reservation.
Unchecked == {"identify_dir", "unlink", "rm_sentinel", "rmdir", "post_count", "post_files", "commit"}

ForeignFile(name) == [name |-> name, inode |-> <<"foreign", name>>]

\* The outsider puts a directory of its own at the path, moves the directory
\* away, drops a file into it, or puts a file of its own for an artifact.
Meddle ==
    /\ meddles < MaxMeddles
    /\ \A b \in Builders : pc[b] \in MeddlePoints
    /\ path # Absent
    /\ meddles' = meddles + 1
    /\ \/ /\ meddles = 0
          /\ path' = ForeignDir
          /\ UNCHANGED entries
       \/ /\ path' = Absent
          /\ UNCHANGED entries
       \/ /\ entries' = [entries EXCEPT ![path] = @ \cup {ForeignFile(<<"foreign">>)}]
          /\ UNCHANGED path
       \/ /\ \E a \in ArtifactNames :
                /\ Named(<<a>>) # {}
                /\ entries' = [entries EXCEPT ![path] = (@ \ Named(<<a>>)) \cup {ForeignFile(<<a>>)}]
          /\ UNCHANGED path
    /\ UNCHANGED <<pc, reservation, installation, history, struck>>

Step(b) ==
    \/ CheckAbsent(b) \/ Mkdir(b) \/ IdentifyDir(b) \/ Activate(b)
    \/ Mktemp(b) \/ WriteToken(b) \/ IdentifySentinel(b)
    \/ Gates(b) \/ Revalidate(b) \/ Stage(b) \/ PreValid(b) \/ PreCount(b)
    \/ Collide(b) \/ Link(b) \/ Identify(b) \/ Record(b)
    \/ PostValid(b) \/ PostCount(b) \/ PostFiles(b) \/ Commit(b) \/ Deactivate(b)
    \/ Cleanup(b) \/ Unlink(b) \/ RmSentinel(b) \/ Rmdir(b)

Next ==
    \/ \E b \in Builders : Step(b) \/ Fail(b) \/ Signal(b) \/ SignalCleanup(b) \/ Kill(b)
    \/ Meddle

Spec == Init /\ [][Next]_vars

\* A shell goes on to its next command: nothing in the script waits for another process.
FairSpec == Spec /\ \A b \in Builders : WF_vars(Step(b))

-----------------------------------------------------------------------------
(* Properties. *)

Published(b) == {ArtifactEntry(b, a) : a \in ArtifactNames}

\* A consumer who finds, in the directory a run reserved, the run's whole
\* artifact set and no sentinel has a committed release: no interruption of the
\* installation or of the cleanup, not even a kill, leaves such a set behind.
\* (cleanup removes the artifacts before the sentinel, lines 131-145.)  A set of
\* one artifact is whole before it is noted, and so is not protected in this way.
CompleteMeansCommitted ==
    \A b \in Builders :
        /\ Published(b) \subseteq entries[DirOf(b)]
        /\ \A e \in entries[DirOf(b)] : e.name # SentinelName(b)
        => b \in committed

\* Once a run has committed, no other run of the script changes what is
\* published: mkdir's refusal of an existing path keeps them all out.
CommittedStays ==
    \A b \in committed :
        meddles = 0 => path = DirOf(b) /\ entries[DirOf(b)] = Published(b)

\* The commands before which a handled stop leaves the cleanup unable to
\* recognise what it created: the directory before it is active, the sentinel
\* before its inode is noted, a linked artifact before it is recorded.
Unrecorded == {"identify_dir", "activate", "write_token", "identify_sentinel", "identify", "record"}

\* A run that failed or was interrupted, and whose cleanup ran to its end,
\* has left nothing at the output path, except when the stop fell in one of the
\* short unrecorded windows.
StoppedRunLeavesNothing ==
    \A b \in Builders :
        pc[b] = "exited" /\ cleaned[b] /\ meddles = 0 /\ stopped[b] \notin Unrecorded => path # DirOf(b)

\* What tests/release_candidate.sh line 249 asks of a failed run: its unchanged
\* reservation is cleaned, wherever it stopped.
UnchangedReservationCleaned ==
    \A b \in Builders : pc[b] = "exited" /\ cleaned[b] /\ meddles = 0 => path # DirOf(b)

\* No step of a builder removes the outsider's directory or one of the
\* outsider's files, also when the file bears the name of an artifact.
SparesOutsider ==
    [][meddles' = meddles =>
          /\ path = ForeignDir => path' = ForeignDir
          /\ \A d \in Dirs : {e \in entries[d] : e.inode[1] = "foreign"} \subseteq entries'[d]]_vars

\* The commit happens on the directory the run reserved, and leaves in it
\* exactly the artifact names: what the outsider dropped, moved or replaced while
\* the run worked has been noticed (lines 292, 402-404, 417-424).  Only when the
\* outsider has moved the directory of another live run away may that run write its
\* sentinel into this one's directory after the last count.
CommitPublishesExactSet ==
    [][\A b \in committed' \ committed :
          (meddles = 0 \/ \A other \in Builders \ {b} : reservation_inode[other] = Absent) =>
             /\ path' = DirOf(b)
             /\ {e.name : e \in entries'[path']} = {<<a>> : a \in ArtifactNames}]_vars

\* When several runs race for one output path, no fault strikes and no outsider
\* acts, one of them publishes: the losers give up without undoing the winner's
\* reservation.
SomeRunPublishes == <>(struck \/ meddles > 0 \/ \E b \in Builders : pc[b] = "done")

=============================================================================
