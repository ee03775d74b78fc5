------------------------ MODULE ReservedOutputProofs ------------------------
(***************************************************************************)
(* The reservation protocol for any number of runs, any list of artifacts  *)
(* and any faults: what is published stays, what looks complete has been   *)
(* committed, what stops is taken away, what is the outsider's is spared,  *)
(* and what is committed is the exact set.                                 *)
(***************************************************************************)
EXTENDS ReservedOutput, SequenceTheorems, FiniteSetTheorems, TLAPS

\* What the shell variables hold.
Shape ==
    /\ path \in Dirs \cup {Absent}
    /\ DOMAIN entries = Dirs
    /\ pc \in [Builders -> Commands]
    /\ DOMAIN reservation_inode = Builders
    /\ reservation_file \in [Builders -> BOOLEAN]
    /\ DOMAIN reservation_file_inode = Builders
    /\ reservation_active \in [Builders -> BOOLEAN]
    /\ next \in [Builders -> Nat]
    /\ installed_records \in [Builders -> Seq({Artifacts[n] : n \in Nat})]
    /\ stopped \in [Builders -> Commands \cup {"none"}]
    /\ cleaned \in [Builders -> BOOLEAN]
    /\ committed \subseteq Builders
    /\ meddles \in Nat

-----------------------------------------------------------------------------
(* What holds whatever the outsider does. *)

\* The commands between the creation of the sentinel and its removal by commit.
Sentinelled == {"write_token", "identify_sentinel"} \cup Working \cup Installing

Noted(b) == {installed_records[b][i] : i \in 1..Len(installed_records[b])}

Lone(b) ==
    \A a1, a2 \in ArtifactNames :
        ArtifactEntry(b, a1) \in entries[DirOf(b)] /\ ArtifactEntry(b, a2) \in entries[DirOf(b)] => a1 = a2

\* As long as run b has not committed, its directory holds its sentinel or at
\* most one of its artifacts: the one linked but not yet noted, which is all
\* that is left when the cleanup comes to the sentinel.
Guarded(b) ==
    /\ pc[b] \in {"check_absent", "mkdir"} =>
          \A a \in ArtifactNames : ArtifactEntry(b, a) \notin entries[DirOf(b)]
    /\ pc[b] \in Sentinelled /\ path = DirOf(b) => SentinelEntry(b, 1) \in entries[DirOf(b)]
    /\ path = DirOf(b) =>
          \A a \in ArtifactNames :
             ArtifactEntry(b, a) \in entries[DirOf(b)] => a \in Noted(b) \/ a = Current(b)
    /\ pc[b] = "rm_sentinel" => installed_records[b] = <<>>
    /\ b \in committed \/ SentinelEntry(b, 1) \in entries[DirOf(b)] \/ Lone(b)

GuardedInv == Shape /\ \A b \in Builders : Guarded(b)

-----------------------------------------------------------------------------
(* What holds as long as no outsider has acted. *)

\* The commands a run reaches only while the directory it made is at the path.
Holding == {"identify_dir", "activate", "mktemp"} \cup Sentinelled \cup {"unlink", "rm_sentinel", "rmdir"}

Linked(b) == {ArtifactEntry(b, a) : a \in Noted(b)}
Sentinel(b) == IF reservation_file[b] THEN {SentinelEntry(b, 1)} ELSE {}

\* What run b has noted of its reservation when it comes to each command.
Reserved(b) ==
    /\ reservation_inode[b] \in {Absent, DirOf(b)}
    /\ pc[b] \in {"activate", "mktemp"} \cup Sentinelled => reservation_inode[b] = DirOf(b)
    /\ pc[b] \in {"mktemp"} \cup Sentinelled => reservation_active[b]
    /\ pc[b] \in {"check_absent", "mkdir", "identify_dir", "activate", "mktemp"} => ~reservation_file[b]
    /\ pc[b] \in Sentinelled => reservation_file[b]
    /\ pc[b] \in Working \cup Installing => reservation_file_inode[b] = SentinelEntry(b, 1).inode

\* What its directory then holds: the sentinel and the artifacts noted, and
\* between linking and noting the current one besides.
Installed(b) ==
    /\ pc[b] \in {"check_absent"} \cup Reserving \cup Working \cup Installing =>
          /\ Len(installed_records[b]) + 1 = next[b]
          /\ \A i \in 1..Len(installed_records[b]) : installed_records[b][i] = Artifacts[i]
    /\ pc[b] \in {"check_absent"} \cup Reserving \cup Working => next[b] = 1
    /\ pc[b] \in {"collide", "link", "identify", "record"} => next[b] =< Len(Artifacts)
    /\ pc[b] \in {"post_valid", "post_count", "post_files", "commit"} => next[b] = Len(Artifacts) + 1
    /\ pc[b] \in {"check_absent"} \cup Reserving \cup Working \cup (Installing \ {"identify", "record"}) =>
          entries[DirOf(b)] = Sentinel(b) \cup Linked(b)
    /\ pc[b] \in {"identify", "record"} =>
          entries[DirOf(b)] = Sentinel(b) \cup Linked(b) \cup {ArtifactEntry(b, Current(b))}

\* What is left for its cleanup, unless the stop fell in an unrecorded window.
Undone(b) ==
    /\ pc[b] \notin Ended => ~cleaned[b]
    /\ stopped[b] \notin Unrecorded =>
          /\ pc[b] = "cleanup" /\ path = DirOf(b) =>
                /\ reservation_active[b] /\ reservation_inode[b] = DirOf(b)
                /\ reservation_file[b] =>
                      /\ reservation_file_inode[b] = SentinelEntry(b, 1).inode
                      /\ SentinelEntry(b, 1) \in entries[DirOf(b)]
                /\ entries[DirOf(b)] \subseteq Sentinel(b) \cup Linked(b)
          /\ pc[b] = "unlink" => entries[DirOf(b)] \subseteq Sentinel(b) \cup Linked(b)
          /\ pc[b] = "rm_sentinel" => entries[DirOf(b)] \subseteq Sentinel(b)
          /\ pc[b] = "rmdir" => entries[DirOf(b)] = {}
          /\ pc[b] = "exited" /\ cleaned[b] => path # DirOf(b)

\* Where a run may be relative to the path, and what a commit has settled.
Placed(b) ==
    /\ pc[b] \in {"check_absent", "mkdir"} => path # DirOf(b)
    /\ pc[b] \in Holding => path = DirOf(b)
    /\ pc[b] \in {"deactivate", "done"} => b \in committed
    /\ b \in committed =>
          /\ pc[b] \in {"deactivate", "done", "killed"}
          /\ path = DirOf(b)
          /\ entries[DirOf(b)] = Published(b)

Undisturbed(b) == Reserved(b) /\ Installed(b) /\ Undone(b) /\ Placed(b)

UndisturbedInv == Shape /\ (meddles = 0 => \A b \in Builders : Undisturbed(b))

-----------------------------------------------------------------------------
\* Directories, names and inodes of different runs and kinds differ.
LEMMA Names ==
    /\ \A b \in Builders : DirOf(b) \in Dirs /\ DirOf(b) # Absent /\ DirOf(b) # ForeignDir
    /\ \A b, c \in Builders : DirOf(b) = DirOf(c) => b = c
    /\ ForeignDir \in Dirs /\ ForeignDir # Absent /\ Absent \notin Dirs
    /\ \A b, c \in Builders : SentinelName(b) = SentinelName(c) => b = c
    /\ \A a : \A b \in Builders : SentinelName(b) # <<a>>
    /\ \A b, c, a1, a2 : ArtifactEntry(b, a1) = ArtifactEntry(c, a2) => b = c /\ a1 = a2
    /\ \A b, c, a, g : SentinelEntry(b, g) # ArtifactEntry(c, a)
    /\ \A b, a, n : ForeignFile(n) # ArtifactEntry(b, a)
    /\ \A b, c, g : SentinelEntry(b, g) = SentinelEntry(c, g) => b = c
<1>1. \A b : DirOf(b)[1] = "dir" /\ DirOf(b)[2] = b
  BY Zenon DEF DirOf
<1>2. Absent[1] = "absent" /\ ForeignDir[1] = "foreign dir"
  BY Zenon DEF Absent, ForeignDir
<1>3. \A b : SentinelName(b)[2] = b /\ Len(SentinelName(b)) = 2
  BY Zenon DEF SentinelName
<1>4. \A a : Len(<<a>>) = 1
  OBVIOUS
<1>5. \A b, a : /\ ArtifactEntry(b, a).inode[1] = "artifact"
               /\ ArtifactEntry(b, a).inode[2] = b /\ ArtifactEntry(b, a).inode[3] = a
  BY Zenon DEF ArtifactEntry
<1>6. \A b, g : SentinelEntry(b, g).inode[1] = "sentinel" /\ SentinelEntry(b, g).inode[2] = b
  BY Zenon DEF SentinelEntry
<1>7. \A n : ForeignFile(n).inode[1] = "foreign"
  BY Zenon DEF ForeignFile
<1>8. \A b \in Builders : DirOf(b) \in Dirs
  BY Zenon DEF Dirs
<1>9. ForeignDir \in Dirs
  BY Zenon DEF Dirs
<1>10. \A b : DirOf(b) # Absent /\ DirOf(b) # ForeignDir
  BY Zenon, <1>1, <1>2
<1>11. ForeignDir # Absent
  BY Zenon, <1>2
<1>12. Absent \notin Dirs
  BY Zenon, <1>10, <1>11 DEF Dirs
<1>13. \A b, c \in Builders : DirOf(b) = DirOf(c) => b = c
  BY <1>1
<1>14. \A b, c \in Builders : SentinelName(b) = SentinelName(c) => b = c
  BY <1>3
<1>15. \A a : \A b \in Builders : SentinelName(b) # <<a>>
  BY <1>3, <1>4
<1>16. \A b, c, a1, a2 : ArtifactEntry(b, a1) = ArtifactEntry(c, a2) => b = c /\ a1 = a2
  BY <1>5
<1>17. \A b, c, a, g : SentinelEntry(b, g) # ArtifactEntry(c, a)
  BY <1>5, <1>6
<1>18. \A b, a, n : ForeignFile(n) # ArtifactEntry(b, a)
  BY <1>5, <1>7
<1>19. \A b, c, g : SentinelEntry(b, g) = SentinelEntry(c, g) => b = c
  BY <1>6
<1> QED BY Zenon, <1>8, <1>9, <1>10, <1>11, <1>12, <1>13, <1>14, <1>15, <1>16, <1>17, <1>18, <1>19

-----------------------------------------------------------------------------
(* The shape of the state. *)

\* Nothing is noted in the empty list.
LEMMA EmptyRange == 1..Len(<<>>) = {}
<1>1. Len(<<>>) = 0
  OBVIOUS
<1> QED BY <1>1

\* The initial state has the shape.
LEMMA ShapeInit == Init => Shape
BY EmptySeq, ReservedOutputAssumption
   DEF Init, Shape, Commands, Reserving, Working, Installing, Undoing, Ended

\* Moving a run on, or stopping it, keeps the program counters typed.
LEMMA Control ==
    ASSUME Shape, NEW b \in Builders
    PROVE  /\ \A l \in Commands : Go(b, l) => pc' \in [Builders -> Commands]
           /\ Abort(b) => pc' \in [Builders -> Commands] /\ stopped' \in [Builders -> Commands \cup {"none"}]
           /\ UNCHANGED stopped => stopped' \in [Builders -> Commands \cup {"none"}]
<1>1. "cleanup" \in Commands
  BY Zenon DEF Commands, Undoing
<1>2. pc \in [Builders -> Commands] /\ stopped \in [Builders -> Commands \cup {"none"}]
  BY Zenon DEF Shape
<1>3. \A l \in Commands : Go(b, l) => pc' \in [Builders -> Commands]
  BY Zenon, <1>2 DEF Go
<1>4. Abort(b) => pc' \in [Builders -> Commands]
  BY Zenon, <1>1, <1>2 DEF Abort
<1>5. Abort(b) => stopped' \in [Builders -> Commands \cup {"none"}]
  BY Zenon, <1>2 DEF Abort
<1> QED BY Zenon, <1>2, <1>3, <1>4, <1>5

\* A test keeps the shape.
LEMMA TestShape ==
    ASSUME Shape, NEW b \in Builders, NEW here, NEW ok, NEW there \in Commands, Test(b, here, ok, there)
    PROVE  Shape'
<1>1. "cleanup" \in Commands
  BY Zenon DEF Commands, Undoing
<1> QED BY Zenon, <1>1 DEF Shape, Test, Abort, Go, fs, reservation, installation, misfortune

\* Every step keeps the shape.
LEMMA ShapeStep == Shape /\ [Next]_vars => Shape'
<1> SUFFICES ASSUME Shape, [Next]_vars PROVE Shape'
  OBVIOUS
<1> USE DEF fs, reservation, installation, history, misfortune
<1>0. /\ {"mkdir", "identify_dir", "activate", "mktemp", "write_token", "identify_sentinel", "gates",
           "revalidate", "stage", "pre_valid", "pre_count", "collide", "link", "identify", "record",
           "post_valid", "post_count", "post_files", "commit", "deactivate", "done", "cleanup",
           "unlink", "rm_sentinel", "rmdir", "exited", "killed"} \subseteq Commands
      /\ \A b \in Builders : DirOf(b) \in Dirs
      /\ ForeignDir \in Dirs
  BY Zenon DEF Commands, Reserving, Working, Installing, Undoing, Ended, Dirs
<1>1. ASSUME NEW b \in Builders, Step(b) PROVE Shape'
  <2>1. CASE CheckAbsent(b)
    BY Zenon, <2>1, <1>0, Control DEF CheckAbsent, Shape
  <2>2. CASE Mkdir(b)
    BY Zenon, <2>2, <1>0, Control DEF Mkdir, Shape
  <2>3. CASE IdentifyDir(b)
    <3>1. pc' \in [Builders -> Commands] /\ stopped' \in [Builders -> Commands \cup {"none"}]
      BY Zenon, <2>3, <1>0, Control DEF IdentifyDir, Shape
    <3>2. DOMAIN reservation_inode' = Builders
      BY Zenon, <2>3 DEF IdentifyDir, Shape
    <3> QED BY Zenon, <2>3, <3>1, <3>2 DEF IdentifyDir, Shape
  <2>4. CASE Activate(b)
    BY Zenon, <2>4, <1>0, Control DEF Activate, Shape
  <2>5. CASE Mktemp(b)
    <3>1. pc' \in [Builders -> Commands] /\ stopped' \in [Builders -> Commands \cup {"none"}]
      BY Zenon, <2>5, <1>0, Control DEF Mktemp, Shape
    <3>2. DOMAIN entries' = Dirs /\ reservation_file' \in [Builders -> BOOLEAN]
      BY Zenon, <2>5 DEF Mktemp, Shape
    <3> QED BY Zenon, <2>5, <3>1, <3>2 DEF Mktemp, Shape
  <2>6. CASE WriteToken(b)
    <3>1. pc' \in [Builders -> Commands] /\ stopped' \in [Builders -> Commands \cup {"none"}]
      BY Zenon, <2>6, <1>0, Control DEF WriteToken, Shape
    <3>2. DOMAIN entries' = Dirs
      BY Zenon, <2>6 DEF WriteToken, Shape
    <3> QED BY Zenon, <2>6, <3>1, <3>2 DEF WriteToken, Shape
  <2>7. CASE IdentifySentinel(b)
    <3>1. pc' \in [Builders -> Commands] /\ stopped' \in [Builders -> Commands \cup {"none"}]
      BY Zenon, <2>7, <1>0, Control DEF IdentifySentinel, Shape
    <3>2. DOMAIN reservation_file_inode' = Builders
      BY Zenon, <2>7 DEF IdentifySentinel, Shape
    <3> QED BY Zenon, <2>7, <3>1, <3>2 DEF IdentifySentinel, Shape
  <2>8. CASE Gates(b) \/ Revalidate(b) \/ Stage(b) \/ PreValid(b) \/ PreCount(b) \/ Collide(b)
             \/ Identify(b) \/ PostValid(b) \/ PostCount(b) \/ PostFiles(b)
    BY Zenon, <2>8, <1>0, TestShape DEF Gates, Revalidate, Stage, PreValid, PreCount, Collide, Identify,
                                 PostValid, PostCount, PostFiles
  <2>9. CASE Link(b)
    <3>1. pc' \in [Builders -> Commands] /\ stopped' \in [Builders -> Commands \cup {"none"}]
      BY Zenon, <2>9, <1>0, Control DEF Link, Shape
    <3>2. DOMAIN entries' = Dirs
      BY Zenon, <2>9 DEF Link, Shape
    <3> QED BY Zenon, <2>9, <3>1, <3>2 DEF Link, Shape
  <2>10. CASE Record(b)
    <3>1. Current(b) \in {Artifacts[n] : n \in Nat} /\ next[b] + 1 \in Nat
      BY DEF Current, Shape
    <3>2. Append(installed_records[b], Current(b)) \in Seq({Artifacts[n] : n \in Nat})
      BY Zenon, <3>1, AppendProperties DEF Shape
    <3>3. pc' \in [Builders -> Commands]
      BY Zenon, <2>10, <1>0, Control DEF Record
    <3>4. installed_records' \in [Builders -> Seq({Artifacts[n] : n \in Nat})]
      BY Zenon, <2>10, <3>2 DEF Record, Shape
    <3>5. next' \in [Builders -> Nat]
      BY Zenon, <2>10, <3>1 DEF Record, Shape
    <3> QED BY Zenon, <2>10, <3>3, <3>4, <3>5 DEF Record, Shape
  <2>11. CASE Commit(b)
    BY Zenon, <2>11, <1>0, Control DEF Commit, Shape
  <2>12. CASE Deactivate(b)
    BY Zenon, <2>12, <1>0, Control DEF Deactivate, Shape
  <2>13. CASE Cleanup(b)
    BY Zenon, <2>13, <1>0, Control DEF Cleanup, Shape
  <2>14. CASE Unlink(b)
    <3>1. installed_records[b] # <<>> => Tail(installed_records[b]) \in Seq({Artifacts[n] : n \in Nat})
      BY Zenon, HeadTailProperties DEF Shape
    <3>2. pc' \in [Builders -> Commands]
      BY Zenon, <2>14, <1>0, Control DEF Unlink, Shape
    <3>3. installed_records' \in [Builders -> Seq({Artifacts[n] : n \in Nat})]
      BY Zenon, <2>14, <3>1 DEF Unlink, Shape
    <3>4. DOMAIN entries' = Dirs
      BY Zenon, <2>14 DEF Unlink, Shape
    <3> QED BY Zenon, <2>14, <3>2, <3>3, <3>4 DEF Unlink, Shape
  <2>15. CASE RmSentinel(b)
    BY Zenon, <2>15, <1>0, Control DEF RmSentinel, Shape
  <2>16. CASE Rmdir(b)
    BY Zenon, <2>16, <1>0, Control DEF Rmdir, Shape
  <2> QED BY Zenon, <1>1, <2>1, <2>2, <2>3, <2>4, <2>5, <2>6, <2>7, <2>8, <2>9, <2>10, <2>11, <2>12, <2>13,
             <2>14, <2>15, <2>16 DEF Step
<1>2. ASSUME NEW b \in Builders, Fail(b) \/ Signal(b) \/ SignalCleanup(b) \/ Kill(b) PROVE Shape'
  <2>1. pc' \in [Builders -> Commands]
    BY Zenon, <1>2, <1>0, Control DEF Fail, Signal, SignalCleanup, Kill
  <2>3. stopped' \in [Builders -> Commands \cup {"none"}]
    <3>1. CASE Fail(b) \/ Signal(b) \/ SignalCleanup(b)
      BY Zenon, <3>1, Control DEF Fail, Signal, SignalCleanup
    <3>2. CASE Kill(b)
      BY Zenon, <3>2 DEF Kill, Shape
    <3> QED BY Zenon, <1>2, <3>1, <3>2
  <2>2. path' \in Dirs \cup {Absent}
    BY Zenon, <1>2 DEF Fail, Signal, SignalCleanup, Kill, Shape
  <2> QED BY Zenon, <1>2, <2>1, <2>2, <2>3 DEF Fail, Signal, SignalCleanup, Kill, Shape
<1>3. CASE Meddle
  <2>1. path' \in Dirs \cup {Absent} /\ meddles' \in Nat
    BY <1>3, <1>0, Control DEF Meddle, Shape
  <2>2. DOMAIN entries' = Dirs
    BY Zenon, <1>3 DEF Meddle, Shape
  <2> QED BY Zenon, <1>3, <2>1, <2>2 DEF Meddle, Shape
<1>4. CASE UNCHANGED vars
  BY Zenon, <1>4 DEF vars, Shape
<1> QED BY Zenon, <1>1, <1>2, <1>3, <1>4 DEF Next

-----------------------------------------------------------------------------
(* What looks complete has been committed. *)

\* A step that neither advances run b towards its installation nor touches its entries
\* other than by taking artifacts away.
Kept(b) ==
    /\ pc'[b] \in {"check_absent", "mkdir"} => pc[b] \in {"check_absent", "mkdir"}
    /\ pc'[b] \in Sentinelled => pc[b] \in Sentinelled
    /\ pc'[b] = "rm_sentinel" => installed_records[b] = <<>>
    /\ next'[b] = next[b] /\ installed_records'[b] = installed_records[b]
    /\ b \in committed => b \in committed'
    /\ path' = DirOf(b) => path = DirOf(b)
    /\ SentinelEntry(b, 1) \in entries[DirOf(b)] => SentinelEntry(b, 1) \in entries'[DirOf(b)]
    /\ \A a \in ArtifactNames :
          ArtifactEntry(b, a) \in entries'[DirOf(b)] => ArtifactEntry(b, a) \in entries[DirOf(b)]

\* Such a step keeps the guard of run b.
LEMMA KeptGuarded ==
    ASSUME NEW b \in Builders, Guarded(b), Kept(b)
    PROVE  Guarded(b)'
<1>1. Noted(b)' = Noted(b) /\ Current(b)' = Current(b)
  BY Zenon DEF Kept, Noted, Current
<1>2. Lone(b) => Lone(b)'
  BY Zenon DEF Kept, Lone
<1> QED BY Zenon, <1>1, <1>2 DEF Kept, Guarded

\* A step of run c that leaves the directory's contents alone.
LEMMA KeptQuiet ==
    ASSUME Shape, NEW c \in Builders, NEW b \in Builders, Guarded(b), NEW l,
           pc' = [pc EXCEPT ![c] = l], entries' = entries, next' = next,
           installed_records' = installed_records, committed \subseteq committed',
           path' = path \/ path' = Absent,
           l \in {"check_absent", "mkdir"} => pc[c] \in {"check_absent", "mkdir"},
           l \in Sentinelled => pc[c] \in Sentinelled,
           l = "rm_sentinel" => installed_records[c] = <<>>
    PROVE  Guarded(b)'
<1>1. pc'[b] = IF b = c THEN l ELSE pc[b]
  BY Zenon DEF Shape
<1>2. Kept(b)
  BY Zenon, <1>1, Names DEF Kept, Guarded
<1> QED BY Zenon, <1>2, KeptGuarded

\* A test of run c keeps the guard of run b.
LEMMA TestGuarded ==
    ASSUME Shape, NEW c \in Builders, NEW b \in Builders, Guarded(b), NEW here, NEW ok, NEW there,
           Test(c, here, ok, there), here \in Sentinelled, there \in Sentinelled
    PROVE  Guarded(b)'
<1>1. there \notin {"check_absent", "mkdir", "rm_sentinel"} /\ "cleanup" \notin Sentinelled
  BY Zenon DEF Sentinelled, Working, Installing
<1>2. pc' = [pc EXCEPT ![c] = there] \/ pc' = [pc EXCEPT ![c] = "cleanup"]
  BY Zenon DEF Test, Go, Abort
<1> QED BY Zenon, <1>1, <1>2, KeptQuiet DEF Test, fs, installation

\* Entering a file of its own or removing its own files, run c keeps those of run b.
LEMMA KeptOther ==
    ASSUME Shape, NEW c \in Builders, NEW b \in Builders, b # c, Guarded(b), NEW l,
           pc' = [pc EXCEPT ![c] = l], next'[b] = next[b],
           installed_records'[b] = installed_records[b], committed \subseteq committed',
           path' \in {path, Absent, DirOf(c)},
           \/ entries'[DirOf(b)] = entries[DirOf(b)]
           \/ \E a : entries'[DirOf(b)] = entries[DirOf(b)] \cup {ArtifactEntry(c, a)}
           \/ \E g : entries'[DirOf(b)] = entries[DirOf(b)] \cup {SentinelEntry(c, g)}
           \/ \E a : entries'[DirOf(b)] = entries[DirOf(b)] \ {ArtifactEntry(c, a)}
           \/ \E gone : /\ entries'[DirOf(b)] = entries[DirOf(b)] \ gone
                        /\ \A e \in gone : e.name = SentinelName(c)
    PROVE  Guarded(b)'
<1>1. pc'[b] = pc[b]
  BY Zenon DEF Shape
<1>2. SentinelEntry(b, 1).name = SentinelName(b) /\ SentinelName(b) # SentinelName(c)
  BY Zenon, Names DEF SentinelEntry
<1>3. SentinelEntry(b, 1) \in entries[DirOf(b)] => SentinelEntry(b, 1) \in entries'[DirOf(b)]
  BY <1>2, Names
<1>4. ASSUME NEW a \in ArtifactNames, ArtifactEntry(b, a) \in entries'[DirOf(b)]
      PROVE  ArtifactEntry(b, a) \in entries[DirOf(b)]
  BY <1>4, Names
<1>5. Kept(b)
  BY Zenon, <1>1, <1>3, <1>4, Names DEF Kept, Guarded
<1> QED BY Zenon, <1>5, KeptGuarded

\* One turn of the cleanup's loop forgets the first of the artifacts noted and no other.
LEMMA TailNoted ==
    ASSUME Shape, NEW b \in Builders, installed_records[b] # <<>>,
           installed_records'[b] = Tail(installed_records[b])
    PROVE  \A a \in Noted(b) : a = Head(installed_records[b]) \/ a \in Noted(b)'
<1>1. installed_records[b] \in Seq({Artifacts[n] : n \in Nat}) /\ installed_records[b] # <<>>
  BY Zenon DEF Shape
<1>2. /\ Len(installed_records'[b]) = Len(installed_records[b]) - 1
      /\ \A i \in 1..Len(installed_records'[b]) : installed_records'[b][i] = installed_records[b][i + 1]
      /\ Len(installed_records[b]) \in Nat /\ Len(installed_records[b]) > 0
      /\ Head(installed_records[b]) = installed_records[b][1]
  BY <1>1, HeadTailProperties, LenProperties, EmptySeq
<1>3. ASSUME NEW i \in 1..Len(installed_records[b])
      PROVE  installed_records[b][i] = Head(installed_records[b]) \/ installed_records[b][i] \in Noted(b)'
  <2>1. CASE i = 1
    BY Zenon, <2>1, <1>2
  <2>2. CASE i # 1
    <3>1. i - 1 \in 1..Len(installed_records'[b]) /\ (i - 1) + 1 = i
      BY <2>2, <1>2
    <3>2. installed_records[b][i] = installed_records'[b][i - 1]
      BY Zenon, <3>1, <1>2
    <3> QED BY Zenon, <3>1, <3>2 DEF Noted
  <2> QED BY Zenon, <2>1, <2>2
<1> QED BY Zenon, <1>3 DEF Noted

\* Every step keeps the guard of every run.
LEMMA GuardedStep ==
    ASSUME GuardedInv, [Next]_vars, NEW b \in Builders
    PROVE  Guarded(b)'
<1> USE DEF fs, reservation, installation, history, misfortune
<1>0. Shape /\ Guarded(b) /\ path \in Dirs \cup {Absent} /\ DirOf(b) \in Dirs
  BY Zenon, Names DEF GuardedInv, Shape
<1>1. /\ {"cleanup", "exited", "killed", "done", "deactivate", "unlink", "identify_dir", "activate",
           "mktemp", "rmdir", "rm_sentinel"} \cap (Sentinelled \cup {"check_absent", "mkdir"}) = {}
      /\ Sentinelled \cap {"check_absent", "mkdir", "rm_sentinel"} = {}
      /\ {"write_token", "identify_sentinel", "gates", "revalidate", "stage", "pre_valid", "pre_count",
          "collide", "link", "identify", "record", "post_valid", "post_count", "post_files",
          "commit"} \subseteq Sentinelled
  BY Zenon DEF Sentinelled, Working, Installing
<1>2. ASSUME NEW c \in Builders, Step(c) PROVE Guarded(b)'
  <2>1. CASE CheckAbsent(c)
    BY Zenon, <2>1, <1>0, <1>1, KeptQuiet DEF CheckAbsent, Go
  <2>2. CASE Mkdir(c)
    <3>1. CASE Abort(c) /\ UNCHANGED path
      BY Zenon, <2>2, <3>1, <1>0, <1>1, KeptQuiet DEF Mkdir, Abort
    <3>2. CASE path' = DirOf(c) /\ b # c
      BY Zenon, <2>2, <3>2, <1>0, KeptOther DEF Mkdir, Go, Abort
    <3>3. CASE path' = DirOf(c) /\ path = Absent /\ b = c
      <4>1. pc[b] = "mkdir" /\ pc'[b] = "identify_dir" /\ entries' = entries /\ committed' = committed
        BY Zenon, <2>2, <3>3, <1>0, Names DEF Mkdir, Go, Abort, Shape
      <4>2. Lone(b) => Lone(b)'
        BY Zenon, <4>1 DEF Lone
      <4> QED BY Zenon, <4>1, <4>2, <1>0, <1>1 DEF Guarded
    <3> QED BY Zenon, <2>2, <3>1, <3>2, <3>3 DEF Mkdir
  <2>3. CASE IdentifyDir(c)
    BY Zenon, <2>3, <1>0, <1>1, KeptQuiet DEF IdentifyDir, Go, Abort
  <2>4. CASE Activate(c)
    BY Zenon, <2>4, <1>0, <1>1, KeptQuiet DEF Activate, Go
  <2>5. CASE Mktemp(c)
    <3>1. CASE path = Absent
      BY Zenon, <2>5, <3>1, <1>0, <1>1, KeptQuiet DEF Mktemp, Go, Abort
    <3>2. CASE path # Absent
      <4>1. /\ pc[c] = "mktemp" /\ pc' = [pc EXCEPT ![c] = "write_token"]
            /\ entries'[DirOf(b)] = IF path = DirOf(b) THEN entries[DirOf(b)] \cup {SentinelEntry(c, 1)}
                                    ELSE entries[DirOf(b)]
            /\ path' = path /\ next' = next /\ installed_records' = installed_records /\ committed' = committed
        BY Zenon, <2>5, <3>2, <1>0 DEF Mktemp, Go, Shape
      <4>2. CASE b # c
        BY Zenon, <4>1, <4>2, <1>0, KeptOther
      <4>3. CASE b = c
        <5>1. pc'[b] = "write_token"
          BY Zenon, <4>1, <4>3, <1>0 DEF Shape
        <5>2. \A a : ArtifactEntry(b, a) \in entries'[DirOf(b)] => ArtifactEntry(b, a) \in entries[DirOf(b)]
          BY <4>1, <4>3, Names
        <5>3. Noted(b)' = Noted(b) /\ Current(b)' = Current(b) /\ (Lone(b) => Lone(b)')
          BY Zenon, <4>1, <5>2 DEF Noted, Current, Lone
        <5> QED BY Zenon, <4>1, <4>3, <5>1, <5>2, <5>3, <1>0 DEF Guarded
      <4> QED BY Zenon, <4>2, <4>3
    <3> QED BY Zenon, <3>1, <3>2
  <2>6. CASE WriteToken(c)
    <3>1. CASE path = Absent \/ entries' = entries
      BY Zenon, <2>6, <3>1, <1>0, <1>1, KeptQuiet DEF WriteToken, Go, Abort
    <3>2. CASE path # Absent /\ entries' # entries
      <4>0. entries' = [entries EXCEPT ![path] = @ \cup {SentinelEntry(c, 2)}]
        BY Zenon, <2>6, <3>2 DEF WriteToken
      <4>1. /\ pc[c] = "write_token" /\ pc' = [pc EXCEPT ![c] = "identify_sentinel"]
            /\ entries'[DirOf(b)] = IF path = DirOf(b) THEN entries[DirOf(b)] \cup {SentinelEntry(c, 2)}
                                    ELSE entries[DirOf(b)]
            /\ path' = path /\ next' = next /\ installed_records' = installed_records /\ committed' = committed
        BY Zenon, <2>6, <3>2, <4>0, <1>0 DEF WriteToken, Go, Shape
      <4>2. CASE b # c
        BY Zenon, <4>1, <4>2, <1>0, KeptOther
      <4>3. CASE b = c
        <5>1. Kept(b)
          BY SMTT(30), <4>1, <4>3, <1>0, <1>1, Names DEF Kept, Shape
        <5> QED BY Zenon, <5>1, <1>0, KeptGuarded
      <4> QED BY Zenon, <4>2, <4>3
    <3> QED BY Zenon, <3>1, <3>2
  <2>7. CASE IdentifySentinel(c)
    BY Zenon, <2>7, <1>0, <1>1, KeptQuiet DEF IdentifySentinel, Go, Abort
  <2>8. CASE Gates(c) \/ Revalidate(c) \/ Stage(c) \/ PreValid(c) \/ PreCount(c) \/ Collide(c)
             \/ Identify(c) \/ PostValid(c) \/ PostCount(c) \/ PostFiles(c)
    BY Zenon, <2>8, <1>0, <1>1, TestGuarded DEF Gates, Revalidate, Stage, PreValid, PreCount, Collide, Identify,
                                         PostValid, PostCount, PostFiles
  <2>9. CASE Link(c)
    <3>1. CASE Abort(c) /\ entries' = entries
      BY Zenon, <2>9, <3>1, <1>0, <1>1, KeptQuiet DEF Link, Abort
    <3>2. CASE /\ path # Absent /\ Go(c, "identify")
               /\ entries' = [entries EXCEPT ![path] = @ \cup {ArtifactEntry(c, Current(c))}]
      <4>1. /\ pc[c] = "link" /\ pc' = [pc EXCEPT ![c] = "identify"]
            /\ entries'[DirOf(b)] = IF path = DirOf(b)
                                    THEN entries[DirOf(b)] \cup {ArtifactEntry(c, Current(c))}
                                    ELSE entries[DirOf(b)]
            /\ path' = path /\ next' = next /\ installed_records' = installed_records /\ committed' = committed
        BY Zenon, <2>9, <3>2, <1>0 DEF Link, Go, Shape
      <4>2. CASE b # c
        BY Zenon, <4>1, <4>2, <1>0, KeptOther
      <4>3. CASE b = c /\ path # DirOf(b)
        <5>1. Kept(b)
          BY Zenon, <4>1, <4>3, <1>0, <1>1 DEF Kept, Shape
        <5> QED BY Zenon, <5>1, <1>0, KeptGuarded
      <4>4. CASE b = c /\ path = DirOf(b)
        <5>1. pc'[b] = "identify"
          BY Zenon, <4>1, <4>4, <1>0 DEF Shape
        <5>2. SentinelEntry(b, 1) \in entries'[DirOf(b)]
          BY Zenon, <4>1, <4>4, <1>0, <1>1 DEF Guarded
        <5>3. Noted(b)' = Noted(b) /\ Current(b)' = Current(b)
          BY Zenon, <4>1 DEF Noted, Current
        <5>4. ASSUME NEW a \in ArtifactNames, ArtifactEntry(b, a) \in entries'[DirOf(b)]
              PROVE  a \in Noted(b) \/ a = Current(b)
          BY <4>1, <4>4, <5>4, <1>0, Names DEF Guarded
        <5> QED BY Zenon, <5>1, <5>2, <5>3, <5>4 DEF Guarded
      <4> QED BY Zenon, <4>2, <4>3, <4>4
    <3> QED BY Zenon, <2>9, <3>1, <3>2 DEF Link
  <2>10. CASE Record(c)
    <3>1. \E l \in {"collide", "post_valid"} : pc' = [pc EXCEPT ![c] = l]
      BY Zenon, <2>10 DEF Record, Go
    <3>2. CASE b # c
      <4>1. next'[b] = next[b] /\ installed_records'[b] = installed_records[b]
        BY Zenon, <2>10, <3>2, <1>0 DEF Record, Shape
      <4> QED BY Zenon, <2>10, <3>1, <3>2, <4>1, <1>0, KeptOther DEF Record
    <3>3. CASE b = c
      <4>1. /\ pc[b] = "record" /\ pc'[b] \in {"collide", "post_valid"}
            /\ entries' = entries /\ path' = path /\ committed' = committed
        BY Zenon, <2>10, <3>1, <3>3, <1>0 DEF Record, Shape
      <4>2. installed_records'[b] = Append(installed_records[b], Current(b))
        BY Zenon, <2>10, <3>3, <1>0 DEF Record, Shape
      <4>3. Noted(b) \cup {Current(b)} \subseteq Noted(b)'
        <5>1. /\ installed_records[b] \in Seq({Artifacts[n] : n \in Nat})
              /\ Current(b) \in {Artifacts[n] : n \in Nat}
          BY Zenon, <1>0 DEF Shape, Current
        <5> DEFINE s == installed_records[b]
                   t == Append(s, Current(b))
        <5>2. /\ Len(s) \in Nat /\ Len(t) = Len(s) + 1 /\ t[Len(s) + 1] = Current(b)
              /\ \A i \in 1..Len(s) : t[i] = s[i]
          BY <5>1, AppendProperties, LenProperties
        <5>3. Noted(b) = {s[i] : i \in 1..Len(s)} /\ Noted(b)' = {t[i] : i \in 1..Len(t)}
          BY Zenon, <4>2 DEF Noted
        <5> HIDE DEF s, t
        <5>4. /\ \A i \in 1..Len(s) : i \in 1..Len(t) /\ t[i] = s[i]
              /\ Len(t) \in 1..Len(t) /\ t[Len(t)] = Current(b)
          BY <5>2
        <5> QED BY Zenon, <5>3, <5>4
      <4>4. Lone(b) => Lone(b)'
        BY Zenon, <4>1 DEF Lone
      <4>5. /\ pc[b] \in Sentinelled /\ pc'[b] \in Sentinelled
            /\ pc'[b] \notin {"check_absent", "mkdir", "rm_sentinel"}
        BY Zenon, <4>1, <1>1
      <4> QED BY Zenon, <4>1, <4>3, <4>4, <4>5, <1>0 DEF Guarded
    <3> QED BY Zenon, <3>2, <3>3
  <2>11. CASE Commit(c)
    <3>1. /\ pc' = [pc EXCEPT ![c] = "deactivate"] /\ path' = path /\ next' = next
          /\ installed_records' = installed_records /\ committed' = committed \cup {c}
          /\ \/ entries'[DirOf(b)] = entries[DirOf(b)]
             \/ entries'[DirOf(b)] = entries[DirOf(b)] \ Named(SentinelName(c))
      BY Zenon, <2>11, <1>0 DEF Commit, Go
    <3>2. CASE b # c
      <4>1. \A e \in Named(SentinelName(c)) : e.name = SentinelName(c)
        BY Zenon DEF Named
      <4> QED BY Zenon, <3>1, <3>2, <4>1, <1>0, KeptOther
    <3>3. CASE b = c
      <4>1. pc'[b] = "deactivate"
        BY Zenon, <3>1, <3>3, <1>0 DEF Shape
      <4>2. Noted(b)' = Noted(b) /\ Current(b)' = Current(b)
        BY Zenon, <3>1 DEF Noted, Current
      <4> QED BY Zenon, <3>1, <3>3, <4>1, <4>2, <1>0, <1>1 DEF Guarded
    <3> QED BY Zenon, <3>2, <3>3
  <2>12. CASE Deactivate(c)
    BY Zenon, <2>12, <1>0, <1>1, KeptQuiet DEF Deactivate, Go
  <2>13. CASE Cleanup(c)
    BY Zenon, <2>13, <1>0, <1>1, KeptQuiet DEF Cleanup, Go
  <2>14. CASE Unlink(c)
    <3>1. CASE installed_records[c] = <<>>
      BY Zenon, <2>14, <3>1, <1>0, <1>1, KeptQuiet DEF Unlink, Go
    <3>2. CASE installed_records[c] # <<>>
      <4>1. /\ pc[c] = "unlink" /\ pc' = pc /\ path' = path /\ next' = next /\ committed' = committed
            /\ installed_records' = [installed_records EXCEPT ![c] = Tail(@)]
            /\ entries'[DirOf(b)] = IF path = DirOf(b)
                                    THEN entries[DirOf(b)] \ {ArtifactEntry(c, Head(installed_records[c]))}
                                    ELSE entries[DirOf(b)]
        BY Zenon, <2>14, <3>2, <1>0 DEF Unlink
      <4>2. CASE b # c
        <5>1. installed_records'[b] = installed_records[b] /\ pc' = [pc EXCEPT ![c] = pc[c]]
          BY Zenon, <4>1, <4>2, <1>0 DEF Shape
        <5> QED BY ZenonT(30), <4>1, <4>2, <5>1, <1>0, KeptOther
      <4>3. CASE b = c
        <5>1. installed_records'[b] = Tail(installed_records[b])
          BY Zenon, <4>1, <4>3, <1>0 DEF Shape
        <5>2. \A a \in Noted(b) : a = Head(installed_records[b]) \/ a \in Noted(b)'
          BY Zenon, <3>2, <4>3, <5>1, <1>0, TailNoted
        <5>3. Current(b)' = Current(b) /\ SentinelEntry(b, 1) # ArtifactEntry(b, Head(installed_records[b]))
          BY Zenon, <4>1, Names DEF Current
        <5>4. Lone(b) => Lone(b)'
          BY Zenon, <4>1 DEF Lone
        <5> QED BY Zenon, <4>1, <4>3, <5>2, <5>3, <5>4, <1>0, <1>1 DEF Guarded
      <4> QED BY Zenon, <4>2, <4>3
    <3> QED BY Zenon, <3>1, <3>2
  <2>15. CASE RmSentinel(c)
    <3>1. /\ pc[c] = "rm_sentinel" /\ pc' = [pc EXCEPT ![c] = "rmdir"] /\ path' = path /\ next' = next
          /\ installed_records' = installed_records /\ committed' = committed
          /\ \/ entries'[DirOf(b)] = entries[DirOf(b)]
             \/ /\ path = DirOf(b)
                /\ entries'[DirOf(b)] = entries[DirOf(b)] \ Named(SentinelName(c))
      BY Zenon, <2>15, <1>0 DEF RmSentinel, Go
    <3>2. CASE b # c
      <4>1. \A e \in Named(SentinelName(c)) : e.name = SentinelName(c)
        BY Zenon DEF Named
      <4> QED BY ZenonT(30), <3>1, <3>2, <4>1, <1>0, KeptOther
    <3>3. CASE b = c /\ entries'[DirOf(b)] = entries[DirOf(b)]
      <4>1. Kept(b)
        BY Zenon, <3>1, <3>3, <1>0, <1>1 DEF Kept, Shape
      <4> QED BY Zenon, <4>1, <1>0, KeptGuarded
    <3>4. CASE b = c /\ path = DirOf(b) /\ entries'[DirOf(b)] = entries[DirOf(b)] \ Named(SentinelName(c))
      <4>1. pc'[b] = "rmdir"
        BY Zenon, <3>1, <3>4, <1>0 DEF Shape
      <4>2. Noted(b) = {} /\ Noted(b)' = {} /\ Current(b)' = Current(b)
        <5>1. installed_records[b] = <<>>
          BY Zenon, <3>1, <3>4, <1>0 DEF Guarded
        <5>2. installed_records'[b] = <<>> /\ Current(b)' = Current(b)
          BY Zenon, <5>1, <3>1 DEF Current
        <5>3. Noted(b)' = {}
          BY Zenon, <5>2, EmptyRange DEF Noted
        <5> QED BY Zenon, <5>1, <5>2, <5>3, EmptyRange DEF Noted
      <4>3. Lone(b)'
        BY Zenon, <3>4, <4>2, <1>0 DEF Guarded, Lone
      <4> QED BY Zenon, <3>1, <3>4, <4>1, <4>2, <4>3, <1>0, <1>1 DEF Guarded
    <3> QED BY Zenon, <3>1, <3>2, <3>3, <3>4
  <2>16. CASE Rmdir(c)
    BY Zenon, <2>16, <1>0, <1>1, KeptQuiet DEF Rmdir, Go
  <2> QED BY Zenon, <1>2, <2>1, <2>2, <2>3, <2>4, <2>5, <2>6, <2>7, <2>8, <2>9, <2>10, <2>11, <2>12, <2>13,
             <2>14, <2>15, <2>16 DEF Step
<1>3. ASSUME NEW c \in Builders, Fail(c) \/ Signal(c) \/ SignalCleanup(c) \/ Kill(c) PROVE Guarded(b)'
  BY Zenon, <1>3, <1>0, <1>1, KeptQuiet DEF Fail, Signal, SignalCleanup, Kill, Go, Abort
<1>4. CASE Meddle
  <2>1. path' = DirOf(b) => path = DirOf(b)
    BY Zenon, <1>4, Names DEF Meddle
  <2>2. \/ entries'[DirOf(b)] = entries[DirOf(b)]
        \/ \E n : entries'[DirOf(b)] = entries[DirOf(b)] \cup {ForeignFile(n)}
        \/ \E a, n : entries'[DirOf(b)] = (entries[DirOf(b)] \ Named(<<a>>)) \cup {ForeignFile(n)}
    <3>1. CASE entries' = entries
      BY Zenon, <3>1
    <3>2. CASE entries' = [entries EXCEPT ![path] = @ \cup {ForeignFile(<<"foreign">>)}]
      <4>1. entries'[DirOf(b)] = IF path = DirOf(b) THEN entries[DirOf(b)] \cup {ForeignFile(<<"foreign">>)}
                                ELSE entries[DirOf(b)]
        BY Zenon, <3>2, <1>0 DEF Shape
      <4> QED BY Zenon, <4>1
    <3>3. ASSUME NEW a \in ArtifactNames,
                 entries' = [entries EXCEPT ![path] = (@ \ Named(<<a>>)) \cup {ForeignFile(<<a>>)}]
          PROVE  \/ entries'[DirOf(b)] = entries[DirOf(b)]
                 \/ \E x, n : entries'[DirOf(b)] = (entries[DirOf(b)] \ Named(<<x>>)) \cup {ForeignFile(n)}
      <4>1. entries'[DirOf(b)] = IF path = DirOf(b)
                                THEN (entries[DirOf(b)] \ Named(<<a>>)) \cup {ForeignFile(<<a>>)}
                                ELSE entries[DirOf(b)]
        BY Zenon, <3>3, <1>0 DEF Shape
      <4> QED BY Zenon, <4>1
    <3> QED BY Zenon, <1>4, <3>1, <3>2, <3>3 DEF Meddle
  <2>3. SentinelEntry(b, 1) \in entries[DirOf(b)] => SentinelEntry(b, 1) \in entries'[DirOf(b)]
    <3>1. \A a : SentinelEntry(b, 1) \notin Named(<<a>>)
      BY Zenon, Names DEF SentinelEntry, Named
    <3> QED BY Zenon, <2>2, <3>1
  <2>4. ASSUME NEW a \in ArtifactNames, ArtifactEntry(b, a) \in entries'[DirOf(b)]
        PROVE  ArtifactEntry(b, a) \in entries[DirOf(b)]
    <3>1. \A n : ForeignFile(n) # ArtifactEntry(b, a)
      BY Zenon, Names
    <3> QED BY ZenonT(30), <2>2, <2>4, <3>1
  <2>5. Kept(b)
    BY Zenon, <1>4, <1>0, <2>1, <2>3, <2>4 DEF Meddle, Kept, Guarded
  <2> QED BY Zenon, <2>5, <1>0, KeptGuarded
<1>5. CASE UNCHANGED vars
  <2>1. Kept(b)
    BY Zenon, <1>5, <1>0 DEF vars, Kept, Guarded
  <2> QED BY Zenon, <2>1, <1>0, KeptGuarded
<1> QED BY Zenon, <1>2, <1>3, <1>4, <1>5 DEF Next

\* The artifact set is not of one name only, as in check-release-candidate.sh.
SeveralArtifacts == \E i, j \in 1..Len(Artifacts) : Artifacts[i] # Artifacts[j]

\* The guard is an invariant.
LEMMA GuardedInvariant == Spec => []GuardedInv
<1>1. Init => GuardedInv
  <2> SUFFICES ASSUME Init PROVE GuardedInv
    OBVIOUS
  <2>1. \A b \in Builders : entries[DirOf(b)] = {} /\ pc[b] = "check_absent" /\ path # DirOf(b)
    BY Zenon, Names DEF Init
  <2>2. \A b \in Builders : Guarded(b)
    BY Zenon, <2>1 DEF Guarded, Lone, Sentinelled, Working, Installing
  <2> QED BY Zenon, <2>2, ShapeInit DEF GuardedInv
<1>2. GuardedInv /\ [Next]_vars => GuardedInv'
  BY Zenon, GuardedStep, ShapeStep DEF GuardedInv
<1> QED BY <1>1, <1>2, PTL DEF Spec

\* When a run installs two or more artifacts, an artifact set without its
\* sentinel is a committed one, for any number of runs, wherever a failure, a
\* signal or a kill strikes, and whatever the outsider moves, adds or replaces.
THEOREM CompleteSetsAreCommitted ==
    ASSUME SeveralArtifacts
    PROVE  Spec => []CompleteMeansCommitted
<1>1. GuardedInv => CompleteMeansCommitted
  <2> SUFFICES ASSUME GuardedInv, NEW b \in Builders, Published(b) \subseteq entries[DirOf(b)],
                      \A e \in entries[DirOf(b)] : e.name # SentinelName(b)
               PROVE  b \in committed
    BY Zenon DEF CompleteMeansCommitted
  <2>1. SentinelEntry(b, 1) \notin entries[DirOf(b)]
    BY Zenon DEF SentinelEntry
  <2>2. PICK a1, a2 \in ArtifactNames : a1 # a2
    BY Zenon, SeveralArtifacts DEF SeveralArtifacts, ArtifactNames
  <2>3. ~Lone(b)
    BY Zenon, <2>2 DEF Lone, Published
  <2> QED BY Zenon, <2>1, <2>3 DEF GuardedInv, Guarded
<1> QED BY <1>1, GuardedInvariant, PTL

-----------------------------------------------------------------------------
(* Without an outsider: what is published stays, what stops is taken away. *)

\* A step that leaves run b, its directory and its place at the path as they are.
Apart(b) ==
    /\ pc'[b] = pc[b] /\ stopped'[b] = stopped[b] /\ cleaned'[b] = cleaned[b]
    /\ reservation_inode'[b] = reservation_inode[b] /\ reservation_file'[b] = reservation_file[b]
    /\ reservation_file_inode'[b] = reservation_file_inode[b]
    /\ reservation_active'[b] = reservation_active[b]
    /\ next'[b] = next[b] /\ installed_records'[b] = installed_records[b]
    /\ b \in committed' <=> b \in committed
    /\ entries'[DirOf(b)] = entries[DirOf(b)]
    /\ path' = DirOf(b) <=> path = DirOf(b)

\* Such a step keeps what is known of run b.
LEMMA ApartUndisturbed ==
    ASSUME NEW b \in Builders, Undisturbed(b), Apart(b)
    PROVE  Undisturbed(b)'
<1>1. /\ Noted(b)' = Noted(b) /\ Current(b)' = Current(b) /\ Linked(b)' = Linked(b)
      /\ Sentinel(b)' = Sentinel(b)
  BY Zenon DEF Apart, Noted, Current, Linked, Sentinel
<1>2. Reserved(b)'
  BY Zenon DEF Apart, Undisturbed, Reserved
<1>3. Installed(b)'
  BY Zenon, <1>1 DEF Apart, Undisturbed, Installed
<1>4. Undone(b)'
  BY Zenon, <1>1 DEF Apart, Undisturbed, Undone
<1>5. Placed(b)'
  BY Zenon DEF Apart, Undisturbed, Placed, Published
<1> QED BY Zenon, <1>2, <1>3, <1>4, <1>5 DEF Undisturbed

\* No command or fault of run c concerns another run b.
LEMMA ApartStep ==
    ASSUME Shape, NEW c \in Builders, Undisturbed(c), NEW b \in Builders, b # c,
           Step(c) \/ Fail(c) \/ Signal(c) \/ SignalCleanup(c) \/ Kill(c)
    PROVE  Apart(b)
<1> USE DEF fs, reservation, installation, history, misfortune, Go, Abort
<1>1. /\ DirOf(b) \in Dirs /\ DirOf(b) # DirOf(c) /\ DirOf(b) # Absent
      /\ pc[c] \in {"identify_dir", "mktemp", "write_token", "link", "commit", "unlink", "rm_sentinel", "rmdir"} =>
            path = DirOf(c)
  BY Zenon, Names DEF Undisturbed, Placed, Holding, Sentinelled, Working, Installing
<1>2. CASE CheckAbsent(c)
  BY Zenon, <1>2, <1>1 DEF CheckAbsent, Apart, Shape
<1>3. CASE Mkdir(c)
  BY Zenon, <1>3, <1>1 DEF Mkdir, Apart, Shape
<1>4. CASE IdentifyDir(c)
  BY Zenon, <1>4, <1>1 DEF IdentifyDir, Apart, Shape
<1>5. CASE Activate(c)
  BY Zenon, <1>5, <1>1 DEF Activate, Apart, Shape
<1>6. CASE Mktemp(c)
  BY Zenon, <1>6, <1>1 DEF Mktemp, Apart, Shape
<1>7. CASE WriteToken(c)
  BY Zenon, <1>7, <1>1 DEF WriteToken, Apart, Shape
<1>8. CASE IdentifySentinel(c)
  BY Zenon, <1>8, <1>1 DEF IdentifySentinel, Apart, Shape
<1>9. CASE Gates(c) \/ Revalidate(c) \/ Stage(c) \/ PreValid(c) \/ PreCount(c) \/ Collide(c)
           \/ Identify(c) \/ PostValid(c) \/ PostCount(c) \/ PostFiles(c)
  <2>1. \E here, ok, there : Test(c, here, ok, there)
    BY Zenon, <1>9 DEF Gates, Revalidate, Stage, PreValid, PreCount, Collide, Identify, PostValid, PostCount, PostFiles
  <2> QED BY Zenon, <2>1, <1>1 DEF Test, Apart, Shape
<1>10. CASE Link(c)
  BY Zenon, <1>10, <1>1 DEF Link, Apart, Shape
<1>11. CASE Record(c)
  BY Zenon, <1>11, <1>1 DEF Record, Apart, Shape
<1>12. CASE Commit(c)
  BY Zenon, <1>12, <1>1 DEF Commit, Apart, Shape
<1>13. CASE Deactivate(c)
  BY Zenon, <1>13, <1>1 DEF Deactivate, Apart, Shape
<1>14. CASE Cleanup(c)
  BY ZenonT(30), <1>14, <1>1 DEF Cleanup, Apart, Shape
<1>15. CASE Unlink(c)
  BY Zenon, <1>15, <1>1 DEF Unlink, Apart, Shape
<1>16. CASE RmSentinel(c)
  BY Zenon, <1>16, <1>1 DEF RmSentinel, Apart, Shape
<1>17. CASE Rmdir(c)
  BY ZenonT(30), <1>17, <1>1 DEF Rmdir, Apart, Shape
<1>18. CASE Fail(c) \/ Signal(c) \/ SignalCleanup(c) \/ Kill(c)
  BY Zenon, <1>18, <1>1 DEF Fail, Signal, SignalCleanup, Kill, Apart, Shape
<1> QED BY Zenon, <1>2, <1>3, <1>4, <1>5, <1>6, <1>7, <1>8, <1>9, <1>10, <1>11, <1>12, <1>13, <1>14, <1>15,
           <1>16, <1>17, <1>18 DEF Step

\* A stop of run b anywhere between its reservation and its commit.
LEMMA AbortUndisturbed ==
    ASSUME Shape, NEW b \in Builders, Undisturbed(b), Abort(b),
           pc[b] \in Reserving \cup Working \cup Installing,
           path' = path \/ pc[b] = "identify_dir",
           UNCHANGED <<entries, reservation, installation, cleaned, committed>>
    PROVE  Undisturbed(b)'
<1> USE DEF reservation, installation
<1>1. pc'[b] = "cleanup" /\ stopped'[b] = pc[b]
  BY Zenon DEF Abort, Shape
<1>2. /\ Noted(b)' = Noted(b) /\ Current(b)' = Current(b) /\ Linked(b)' = Linked(b)
      /\ Sentinel(b)' = Sentinel(b)
  BY Zenon DEF Noted, Current, Linked, Sentinel
<1>3. Reserved(b)'
  BY Zenon, <1>1 DEF Undisturbed, Reserved, Sentinelled, Working, Installing
<1>4. Installed(b)'
  BY Zenon, <1>1 DEF Installed, Reserving, Working, Installing
<1>5. Placed(b)'
  <2>1. b \notin committed'
    BY Zenon DEF Undisturbed, Placed, Reserving, Working, Installing
  <2>2. "cleanup" \notin Holding \cup {"check_absent", "mkdir", "deactivate", "done"}
    BY Zenon DEF Holding, Sentinelled, Working, Installing
  <2> QED BY Zenon, <1>1, <2>1, <2>2 DEF Placed
<1>6. ~cleaned'[b]
  BY Zenon DEF Undisturbed, Undone, Reserving, Working, Installing, Ended
<1>7. ASSUME pc[b] \notin Unrecorded, path' = DirOf(b)
      PROVE  /\ reservation_active[b] /\ reservation_inode[b] = DirOf(b)
             /\ reservation_file[b] =>
                   /\ reservation_file_inode[b] = SentinelEntry(b, 1).inode
                   /\ SentinelEntry(b, 1) \in entries[DirOf(b)]
             /\ entries[DirOf(b)] \subseteq Sentinel(b) \cup Linked(b)
  <2>1. pc[b] # "mkdir"
    BY Zenon, <1>7 DEF Unrecorded, Undisturbed, Placed
  <2>2. pc[b] \in {"mktemp"} \cup Working \cup (Installing \ {"identify", "record"})
    BY Zenon, <1>7, <2>1 DEF Unrecorded, Reserving, Working, Installing
  <2>3. entries[DirOf(b)] = Sentinel(b) \cup Linked(b)
    BY Zenon, <2>2 DEF Undisturbed, Installed, Reserving
  <2>4. reservation_active[b] /\ reservation_inode[b] = DirOf(b)
    BY Zenon, <2>2 DEF Undisturbed, Reserved, Sentinelled
  <2>5. reservation_file[b] => reservation_file_inode[b] = SentinelEntry(b, 1).inode
    BY Zenon, <2>2 DEF Undisturbed, Reserved
  <2> QED BY Zenon, <2>3, <2>4, <2>5 DEF Sentinel
<1>8. Undone(b)'
  BY Zenon, <1>1, <1>2, <1>6, <1>7 DEF Undone
<1> QED BY Zenon, <1>3, <1>4, <1>5, <1>8 DEF Undisturbed

\* A test of run b that passes.
LEMMA PassUndisturbed ==
    ASSUME Shape, NEW b \in Builders, Undisturbed(b), NEW there, Go(b, there),
           \/ pc[b] \in Working /\ there \in Working \cup {"collide"}
           \/ pc[b] = "collide" /\ there = "link"
           \/ pc[b] = "identify" /\ there = "record"
           \/ pc[b] \in {"post_valid", "post_count", "post_files"} /\ there \in {"post_count", "post_files", "commit"},
           UNCHANGED <<fs, reservation, installation, stopped, cleaned, committed>>
    PROVE  Undisturbed(b)'
<1> USE DEF fs, reservation, installation
<1>1. pc'[b] = there
  BY Zenon DEF Go, Shape
<1>2. /\ Noted(b)' = Noted(b) /\ Current(b)' = Current(b) /\ Linked(b)' = Linked(b)
      /\ Sentinel(b)' = Sentinel(b)
  BY Zenon DEF Noted, Current, Linked, Sentinel
<1>3. Reserved(b)'
  BY Zenon, <1>1 DEF Undisturbed, Reserved, Sentinelled, Working, Installing
<1>4. Installed(b)'
  <2>1. 1 =< Len(Artifacts)
    BY SMTT(30), ReservedOutputAssumption, LenProperties, EmptySeq
  <2> QED BY Zenon, <1>1, <1>2, <2>1 DEF Undisturbed, Installed, Reserving, Working, Installing
<1>5. Placed(b)'
  BY Zenon, <1>1 DEF Undisturbed, Placed, Holding, Sentinelled, Reserving, Working, Installing
<1>6. Undone(b)'
  BY ZenonT(30), <1>1, <1>2 DEF Undisturbed, Undone, Working, Installing, Ended
<1> QED BY Zenon, <1>3, <1>4, <1>5, <1>6 DEF Undisturbed

\* The sentinel is the one entry of its name among what run b enters.
LEMMA OwnNames ==
    ASSUME NEW b \in Builders
    PROVE  /\ SentinelEntry(b, 1).name = SentinelName(b)
           /\ \A e \in Sentinel(b) : e = SentinelEntry(b, 1)
           /\ \A e \in Linked(b) : e.name # SentinelName(b)
<1>1. \A a : ArtifactEntry(b, a).name = <<a>>
  BY Zenon DEF ArtifactEntry
<1>2. \A a : ArtifactEntry(b, a).name # SentinelName(b)
  BY Zenon, <1>1, Names
<1> QED BY Zenon, <1>2 DEF SentinelEntry, Sentinel, Linked

\* The commands by which run b reserves.
LEMMA OwnReserving ==
    ASSUME Shape, NEW b \in Builders, Undisturbed(b),
           CheckAbsent(b) \/ Mkdir(b) \/ IdentifyDir(b) \/ Activate(b) \/ Mktemp(b) \/ WriteToken(b)
           \/ IdentifySentinel(b)
    PROVE  Undisturbed(b)'
<1> USE DEF fs, reservation, installation, history, misfortune
<1>0. DirOf(b) \in Dirs /\ DirOf(b) # Absent
  BY Zenon, Names
<1>1. CASE CheckAbsent(b)
  <2>1. pc[b] = "check_absent" /\ pc'[b] \in {"mkdir", "exited"} /\ UNCHANGED <<fs, reservation, installation, history>>
    BY Zenon, <1>1 DEF CheckAbsent, Go, Shape
  <2>2. Linked(b)' = Linked(b) /\ Sentinel(b)' = Sentinel(b)
    BY Zenon, <2>1 DEF Noted, Linked, Sentinel
  <2>3. Reserved(b)'
    BY Zenon, <2>1 DEF Undisturbed, Reserved, Sentinelled, Working, Installing
  <2>4. Installed(b)'
    BY Zenon, <2>1, <2>2 DEF Undisturbed, Installed, Reserving, Working, Installing
  <2>5. Undone(b)' /\ Placed(b)'
    BY Zenon, <2>1 DEF Undisturbed, Undone, Placed, Holding, Sentinelled, Working, Installing, Ended
  <2> QED BY Zenon, <2>3, <2>4, <2>5 DEF Undisturbed
<1>2. CASE Mkdir(b)
  <2>1. CASE Abort(b) /\ UNCHANGED path
    BY Zenon, <1>2, <2>1, AbortUndisturbed DEF Mkdir, Reserving
  <2>2. CASE path' = DirOf(b) /\ Go(b, "identify_dir") /\ UNCHANGED stopped
    <3>1. /\ pc[b] = "mkdir" /\ pc'[b] = "identify_dir"
          /\ UNCHANGED <<entries, reservation, installation, stopped, cleaned, committed>>
      BY Zenon, <1>2, <2>2 DEF Mkdir, Go, Shape
    <3>2. Linked(b)' = Linked(b) /\ Sentinel(b)' = Sentinel(b)
      BY Zenon, <3>1 DEF Noted, Linked, Sentinel
    <3>3. Reserved(b)'
      BY Zenon, <3>1 DEF Undisturbed, Reserved, Sentinelled, Working, Installing
    <3>4. Installed(b)'
      BY Zenon, <3>1, <3>2 DEF Undisturbed, Installed, Reserving, Working, Installing
    <3>5. Undone(b)' /\ Placed(b)'
      BY Zenon, <3>1, <2>2 DEF Undisturbed, Undone, Placed, Holding, Sentinelled, Working, Installing, Ended
    <3> QED BY Zenon, <3>3, <3>4, <3>5 DEF Undisturbed
  <2> QED BY Zenon, <1>2, <2>1, <2>2 DEF Mkdir
<1>3. CASE IdentifyDir(b)
  <2>0. pc[b] = "identify_dir" /\ path = DirOf(b)
    BY Zenon, <1>3 DEF IdentifyDir, Undisturbed, Placed, Holding
  <2>1. /\ pc'[b] = "activate" /\ reservation_inode'[b] = DirOf(b)
        /\ UNCHANGED <<fs, reservation_file, reservation_file_inode, reservation_active, installation, history>>
    BY Zenon, <1>3, <2>0, <1>0 DEF IdentifyDir, Go, Shape
  <2>2. Linked(b)' = Linked(b) /\ Sentinel(b)' = Sentinel(b)
    BY Zenon, <2>1 DEF Noted, Linked, Sentinel
  <2>3. Reserved(b)'
    BY Zenon, <2>0, <2>1 DEF Undisturbed, Reserved, Sentinelled, Working, Installing
  <2>4. Installed(b)'
    BY Zenon, <2>0, <2>1, <2>2 DEF Undisturbed, Installed, Reserving, Working, Installing
  <2>5. Undone(b)' /\ Placed(b)'
    BY Zenon, <2>0, <2>1 DEF Undisturbed, Undone, Placed, Holding, Sentinelled, Working, Installing, Ended
  <2> QED BY Zenon, <2>3, <2>4, <2>5 DEF Undisturbed
<1>4. CASE Activate(b)
  <2>0. pc[b] = "activate" /\ path = DirOf(b)
    BY Zenon, <1>4 DEF Activate, Undisturbed, Placed, Holding
  <2>1. /\ pc'[b] = "mktemp" /\ reservation_active'[b] = TRUE
        /\ UNCHANGED <<fs, reservation_inode, reservation_file, reservation_file_inode, installation, history>>
    BY Zenon, <1>4 DEF Activate, Go, Shape
  <2>2. Linked(b)' = Linked(b) /\ Sentinel(b)' = Sentinel(b)
    BY Zenon, <2>1 DEF Noted, Linked, Sentinel
  <2>3. Reserved(b)'
    BY Zenon, <2>0, <2>1 DEF Undisturbed, Reserved, Sentinelled, Working, Installing
  <2>4. Installed(b)'
    BY Zenon, <2>0, <2>1, <2>2 DEF Undisturbed, Installed, Reserving, Working, Installing
  <2>5. Undone(b)' /\ Placed(b)'
    BY Zenon, <2>0, <2>1 DEF Undisturbed, Undone, Placed, Holding, Sentinelled, Working, Installing, Ended
  <2> QED BY Zenon, <2>3, <2>4, <2>5 DEF Undisturbed
<1>5. CASE Mktemp(b)
  <2>0. pc[b] = "mktemp" /\ path = DirOf(b)
    BY Zenon, <1>5 DEF Mktemp, Undisturbed, Placed, Holding
  <2>1. /\ pc'[b] = "write_token" /\ reservation_file'[b] = TRUE
        /\ entries'[DirOf(b)] = entries[DirOf(b)] \cup {SentinelEntry(b, 1)}
        /\ UNCHANGED <<path, reservation_inode, reservation_file_inode, reservation_active, installation, history>>
    BY ZenonT(30), <1>5, <2>0, <1>0 DEF Mktemp, Go, Shape
  <2>2. Linked(b)' = Linked(b) /\ Sentinel(b)' = {SentinelEntry(b, 1)} /\ Sentinel(b) = {}
    BY Zenon, <2>0, <2>1 DEF Noted, Linked, Sentinel, Undisturbed, Reserved
  <2>3. Reserved(b)'
    BY Zenon, <2>0, <2>1 DEF Undisturbed, Reserved, Sentinelled, Working, Installing
  <2>4. Installed(b)'
    BY Zenon, <2>0, <2>1, <2>2 DEF Undisturbed, Installed, Reserving, Working, Installing
  <2>5. Undone(b)' /\ Placed(b)'
    BY Zenon, <2>0, <2>1 DEF Undisturbed, Undone, Placed, Holding, Sentinelled, Working, Installing, Ended
  <2> QED BY Zenon, <2>3, <2>4, <2>5 DEF Undisturbed
<1>6. CASE WriteToken(b)
  <2>0. pc[b] = "write_token" /\ path = DirOf(b) /\ SentinelEntry(b, 1) \in Here
    BY Zenon, <1>6, <1>0 DEF WriteToken, Undisturbed, Placed, Holding, Sentinelled, Installed, Reserved, Reserving,
                      Sentinel, Here
  <2>1. Named(SentinelName(b)) # {}
    BY Zenon, <2>0, OwnNames DEF Named
  <2>2. pc'[b] = "identify_sentinel" /\ UNCHANGED <<fs, reservation, installation, history>>
    BY Zenon, <1>6, <2>0, <2>1, <1>0 DEF WriteToken, Go, Shape
  <2>3. Linked(b)' = Linked(b) /\ Sentinel(b)' = Sentinel(b)
    BY Zenon, <2>2 DEF Noted, Linked, Sentinel
  <2>4. Reserved(b)'
    BY Zenon, <2>0, <2>2 DEF Undisturbed, Reserved, Sentinelled, Working, Installing
  <2>5. Installed(b)'
    BY Zenon, <2>0, <2>2, <2>3 DEF Undisturbed, Installed, Reserving, Working, Installing
  <2>6. Undone(b)' /\ Placed(b)'
    BY Zenon, <2>0, <2>2 DEF Undisturbed, Undone, Placed, Holding, Sentinelled, Working, Installing, Ended
  <2> QED BY Zenon, <2>4, <2>5, <2>6 DEF Undisturbed
<1>7. CASE IdentifySentinel(b)
  <2>0. /\ pc[b] = "identify_sentinel" /\ path = DirOf(b)
        /\ Here = Sentinel(b) \cup Linked(b) /\ SentinelEntry(b, 1) \in Here
    BY Zenon, <1>7, <1>0 DEF IdentifySentinel, Undisturbed, Placed, Holding, Sentinelled, Installed, Reserved,
                      Reserving, Sentinel, Here
  <2>1. Named(SentinelName(b)) = {SentinelEntry(b, 1)}
    BY Zenon, <2>0, OwnNames DEF Named
  <2>2. /\ pc'[b] = "gates" /\ reservation_file_inode'[b] = SentinelEntry(b, 1).inode
        /\ UNCHANGED <<fs, reservation_inode, reservation_file, reservation_active, installation, history>>
    BY Zenon, <1>7, <2>1 DEF IdentifySentinel, Go, Shape
  <2>3. Linked(b)' = Linked(b) /\ Sentinel(b)' = Sentinel(b)
    BY ZenonT(30), <2>2 DEF Noted, Linked, Sentinel
  <2>4. Reserved(b)'
    BY Zenon, <2>0, <2>2 DEF Undisturbed, Reserved, Sentinelled, Working, Installing
  <2>5. Installed(b)'
    BY Zenon, <2>0, <2>2, <2>3 DEF Undisturbed, Installed, Reserving, Working, Installing
  <2>6. Undone(b)' /\ Placed(b)'
    BY Zenon, <2>0, <2>2 DEF Undisturbed, Undone, Placed, Holding, Sentinelled, Working, Installing, Ended
  <2> QED BY Zenon, <2>4, <2>5, <2>6 DEF Undisturbed
<1> QED BY Zenon, <1>1, <1>2, <1>3, <1>4, <1>5, <1>6, <1>7

\* The tests of run b.
LEMMA TestUndisturbed ==
    ASSUME Shape, NEW b \in Builders, Undisturbed(b),
           Gates(b) \/ Revalidate(b) \/ Stage(b) \/ PreValid(b) \/ PreCount(b) \/ Collide(b)
           \/ Identify(b) \/ PostValid(b) \/ PostCount(b) \/ PostFiles(b)
    PROVE  Undisturbed(b)'
<1>1. PICK here, ok, there :
         /\ Test(b, here, ok, there)
         /\ \/ here \in Working /\ there \in Working \cup {"collide"}
            \/ here = "collide" /\ there = "link"
            \/ here = "identify" /\ there = "record"
            \/ /\ here \in {"post_valid", "post_count", "post_files"}
               /\ there \in {"post_count", "post_files", "commit"}
  BY Zenon DEF Gates, Revalidate, Stage, PreValid, PreCount, Collide, Identify, PostValid, PostCount, PostFiles,
         Working
<1>2. CASE Go(b, there) /\ UNCHANGED stopped
  BY Zenon, <1>1, <1>2, PassUndisturbed DEF Test
<1>3. CASE Abort(b)
  BY Zenon, <1>1, <1>3, AbortUndisturbed DEF Test, fs, Installing
<1> QED BY Zenon, <1>1, <1>2, <1>3 DEF Test

\* The commands by which run b installs and commits.
LEMMA OwnInstalling ==
    ASSUME Shape, NEW b \in Builders, Undisturbed(b), Link(b) \/ Record(b) \/ Commit(b) \/ Deactivate(b)
    PROVE  Undisturbed(b)'
<1> USE DEF fs, reservation, installation, history, misfortune
<1>0. DirOf(b) \in Dirs /\ DirOf(b) # Absent
  BY Zenon, Names
<1>1. CASE Link(b)
  <2>0. pc[b] = "link" /\ path = DirOf(b)
    BY Zenon, <1>1 DEF Link, Undisturbed, Placed, Holding, Sentinelled, Installing
  <2>1. CASE Abort(b) /\ UNCHANGED entries
    BY Zenon, <1>1, <2>0, <2>1, AbortUndisturbed DEF Link, Installing
  <2>2. CASE /\ Go(b, "identify") /\ UNCHANGED stopped
             /\ entries' = [entries EXCEPT ![path] = @ \cup {ArtifactEntry(b, Current(b))}]
    <3>1. /\ pc'[b] = "identify"
          /\ entries'[DirOf(b)] = entries[DirOf(b)] \cup {ArtifactEntry(b, Current(b))}
          /\ UNCHANGED <<path, reservation, installation, history>>
      BY Zenon, <1>1, <2>0, <2>2, <1>0 DEF Link, Go, Shape
    <3>2. Linked(b)' = Linked(b) /\ Sentinel(b)' = Sentinel(b) /\ Current(b)' = Current(b)
      BY ZenonT(30), <3>1 DEF Noted, Linked, Sentinel, Current
    <3>3. Reserved(b)'
      BY Zenon, <2>0, <3>1 DEF Undisturbed, Reserved, Sentinelled, Working, Installing
    <3>4. Installed(b)'
      BY Zenon, <2>0, <3>1, <3>2 DEF Undisturbed, Installed, Reserving, Working, Installing
    <3>5. Undone(b)' /\ Placed(b)'
      BY Zenon, <2>0, <3>1 DEF Undisturbed, Undone, Placed, Holding, Sentinelled, Working, Installing, Ended
    <3> QED BY Zenon, <3>3, <3>4, <3>5 DEF Undisturbed
  <2> QED BY Zenon, <1>1, <2>1, <2>2 DEF Link
<1>2. CASE Record(b)
  <2>0. /\ pc[b] = "record" /\ path = DirOf(b) /\ next[b] \in Nat /\ next[b] =< Len(Artifacts)
        /\ Len(installed_records[b]) + 1 = next[b]
        /\ \A i \in 1..Len(installed_records[b]) : installed_records[b][i] = Artifacts[i]
        /\ entries[DirOf(b)] = Sentinel(b) \cup Linked(b) \cup {ArtifactEntry(b, Current(b))}
    BY Zenon, <1>2 DEF Record, Undisturbed, Placed, Holding, Sentinelled, Installing, Installed, Shape
  <2>1. /\ pc'[b] = (IF next[b] < Len(Artifacts) THEN "collide" ELSE "post_valid")
        /\ next'[b] = next[b] + 1
        /\ installed_records'[b] = Append(installed_records[b], Current(b))
        /\ UNCHANGED <<fs, reservation, history>>
    BY Zenon, <1>2 DEF Record, Go, Shape
  <2>2. /\ installed_records[b] \in Seq({Artifacts[n] : n \in Nat})
        /\ Current(b) \in {Artifacts[n] : n \in Nat}
    BY Zenon DEF Shape, Current
  <2>3. /\ Len(installed_records[b]) \in Nat
        /\ Len(installed_records'[b]) = Len(installed_records[b]) + 1
        /\ \A i \in 1..Len(installed_records[b]) : installed_records'[b][i] = installed_records[b][i]
        /\ installed_records'[b][Len(installed_records[b]) + 1] = Current(b)
    BY SMTT(30), <2>1, <2>2, AppendProperties, LenProperties
  <2>4. Noted(b)' = Noted(b) \cup {Current(b)}
    <3>1. ASSUME NEW i \in 1..Len(installed_records'[b])
          PROVE  installed_records'[b][i] \in Noted(b) \cup {Current(b)}
      <4>1. CASE i = Len(installed_records[b]) + 1
        BY Zenon, <4>1, <2>3
      <4>2. CASE i \in 1..Len(installed_records[b])
        BY Zenon, <4>2, <2>3 DEF Noted
      <4> QED BY SMTT(30), <4>1, <4>2, <2>3
    <3>2. Noted(b)' \subseteq Noted(b) \cup {Current(b)}
      BY Zenon, <3>1 DEF Noted
    <3>3. ASSUME NEW i \in 1..Len(installed_records[b])
          PROVE  installed_records[b][i] \in Noted(b)'
      <4>1. i \in 1..Len(installed_records'[b]) /\ installed_records'[b][i] = installed_records[b][i]
        BY <2>3
      <4> QED BY Zenon, <4>1 DEF Noted
    <3>4. Current(b) \in Noted(b)'
      <4>1. Len(installed_records[b]) + 1 \in 1..Len(installed_records'[b])
        BY <2>3
      <4> QED BY Zenon, <4>1, <2>3 DEF Noted
    <3> QED BY Zenon, <3>2, <3>3, <3>4 DEF Noted
  <2>5. Linked(b)' = Linked(b) \cup {ArtifactEntry(b, Current(b))} /\ Sentinel(b)' = Sentinel(b)
    BY Zenon, <2>1, <2>4 DEF Linked, Sentinel
  <2>6. Reserved(b)'
    BY ZenonT(30), <2>0, <2>1 DEF Undisturbed, Reserved, Sentinelled, Working, Installing
  <2>7. \A i \in 1..Len(installed_records'[b]) : installed_records'[b][i] = Artifacts[i]
    <3> SUFFICES ASSUME NEW i \in 1..Len(installed_records'[b]) PROVE installed_records'[b][i] = Artifacts[i]
      OBVIOUS
    <3>1. CASE i = Len(installed_records[b]) + 1
      BY ZenonT(30), <3>1, <2>0, <2>3 DEF Current
    <3>2. CASE i \in 1..Len(installed_records[b])
      BY Zenon, <3>2, <2>0, <2>3
    <3> QED BY <3>1, <3>2, <2>3
  <2>8. Len(Artifacts) \in Nat
    BY Zenon, ReservedOutputAssumption, LenProperties
  <2>9. Installed(b)'
    <3>1. entries'[DirOf(b)] = Sentinel(b)' \cup Linked(b)'
      <4>1. entries'[DirOf(b)] = Sentinel(b) \cup Linked(b) \cup {ArtifactEntry(b, Current(b))}
        BY Zenon, <2>0, <2>1
      <4> QED BY Zenon, <4>1, <2>5
    <3>2. next[b] \in Nat /\ next[b] =< Len(Artifacts) /\ Len(installed_records[b]) + 1 = next[b]
      BY Zenon, <2>0
    <3>3. next'[b] = next[b] + 1 /\ pc'[b] = (IF next[b] < Len(Artifacts) THEN "collide" ELSE "post_valid")
      BY Zenon, <2>1
    <3>4. Len(installed_records[b]) \in Nat /\ Len(installed_records'[b]) = Len(installed_records[b]) + 1
      BY Zenon, <2>3
    <3>5. Len(installed_records'[b]) + 1 = next'[b]
      BY Zenon, <3>2, <3>3, <3>4
    <3>6. \/ pc'[b] = "collide" /\ next'[b] =< Len(Artifacts)
          \/ pc'[b] = "post_valid" /\ next'[b] = Len(Artifacts) + 1
      BY <3>2, <3>3, <2>8
    <3> QED BY Zenon, <3>1, <3>5, <3>6, <2>7 DEF Installed, Reserving, Working, Installing
  <2>10. Undone(b)' /\ Placed(b)'
    BY Zenon, <2>0, <2>1 DEF Undisturbed, Undone, Placed, Holding, Sentinelled, Working, Installing, Ended
  <2> QED BY Zenon, <2>6, <2>9, <2>10 DEF Undisturbed
<1>3. CASE Commit(b)
  <2>0. /\ pc[b] = "commit" /\ path = DirOf(b)
        /\ next[b] = Len(Artifacts) + 1 /\ Len(installed_records[b]) + 1 = next[b]
        /\ \A i \in 1..Len(installed_records[b]) : installed_records[b][i] = Artifacts[i]
        /\ entries[DirOf(b)] = Sentinel(b) \cup Linked(b)
    BY Zenon, <1>3 DEF Commit, Undisturbed, Placed, Holding, Sentinelled, Installing, Installed
  <2>1. /\ pc'[b] = "deactivate" /\ committed' = committed \cup {b}
        /\ entries'[DirOf(b)] = entries[DirOf(b)] \ Named(SentinelName(b))
        /\ UNCHANGED <<path, reservation, installation, stopped, cleaned>>
    BY Zenon, <1>3, <2>0, <1>0 DEF Commit, Go, Shape
  <2>2. entries'[DirOf(b)] = Linked(b)
    <3>1. Here = entries[DirOf(b)]
      BY Zenon, <2>0, <1>0 DEF Here
    <3> QED BY Zenon, <2>0, <2>1, <3>1, OwnNames DEF Named
  <2>3. Len(installed_records[b]) = Len(Artifacts)
    <3>1. Len(installed_records[b]) \in Nat /\ Len(Artifacts) \in Nat
      BY Zenon, ReservedOutputAssumption, LenProperties DEF Shape
    <3> QED BY SMTT(30), <3>1, <2>0
  <2>4. Noted(b) = ArtifactNames
    BY Zenon, <2>0, <2>3 DEF Noted, ArtifactNames
  <2>5. entries'[DirOf(b)] = Published(b)'
    BY Zenon, <2>2, <2>4 DEF Linked, Published
  <2>6. Reserved(b)' /\ Installed(b)'
    BY Zenon, <2>0, <2>1 DEF Undisturbed, Reserved, Installed, Sentinelled, Reserving, Working, Installing
  <2>7. Undone(b)' /\ Placed(b)'
    BY Zenon, <2>0, <2>1, <2>5 DEF Undisturbed, Undone, Placed, Holding, Sentinelled, Working, Installing, Ended
  <2> QED BY Zenon, <2>6, <2>7 DEF Undisturbed
<1>4. CASE Deactivate(b)
  <2>1. /\ pc[b] = "deactivate" /\ pc'[b] = "done"
        /\ UNCHANGED <<fs, reservation_inode, reservation_file, reservation_file_inode, installation, history>>
    BY Zenon, <1>4 DEF Deactivate, Go, Shape
  <2>2. Reserved(b)' /\ Installed(b)'
    BY Zenon, <2>1 DEF Undisturbed, Reserved, Installed, Sentinelled, Reserving, Working, Installing
  <2>3. Undone(b)' /\ Placed(b)'
    BY Zenon, <2>1 DEF Undisturbed, Undone, Placed, Published, Holding, Sentinelled, Working, Installing, Ended
  <2> QED BY Zenon, <2>2, <2>3 DEF Undisturbed
<1> QED BY Zenon, <1>1, <1>2, <1>3, <1>4

\* The commands of the cleanup of run b.
LEMMA OwnUndoing ==
    ASSUME Shape, NEW b \in Builders, Undisturbed(b), Cleanup(b) \/ Unlink(b) \/ RmSentinel(b) \/ Rmdir(b)
    PROVE  Undisturbed(b)'
<1> USE DEF fs, reservation, installation, history, misfortune
<1>0. DirOf(b) \in Dirs /\ DirOf(b) # Absent
  BY Zenon, Names
<1>1. CASE Cleanup(b)
  <2> DEFINE undo == reservation_active[b] /\ reservation_is_valid(b)
  <2>1. /\ pc[b] = "cleanup" /\ pc'[b] = (IF undo THEN "unlink" ELSE "exited") /\ cleaned'[b] = ~undo
        /\ UNCHANGED <<fs, reservation, installation, stopped, committed>>
    BY Zenon, <1>1 DEF Cleanup, Go, Shape
  <2>2. undo => path = DirOf(b)
    BY ZenonT(30) DEF reservation_is_valid, Undisturbed, Reserved
  <2>3. ASSUME path = DirOf(b), stopped[b] \notin Unrecorded
        PROVE  undo /\ entries[DirOf(b)] \subseteq Sentinel(b) \cup Linked(b)
    <3>1. /\ reservation_active[b] /\ reservation_inode[b] = DirOf(b)
          /\ reservation_file[b] =>
                /\ reservation_file_inode[b] = SentinelEntry(b, 1).inode
                /\ SentinelEntry(b, 1) \in entries[DirOf(b)]
          /\ entries[DirOf(b)] \subseteq Sentinel(b) \cup Linked(b)
      BY ZenonT(30), <2>1, <2>3 DEF Undisturbed, Undone
    <3>2. Here = entries[DirOf(b)]
      BY Zenon, <2>3, <1>0 DEF Here
    <3> QED BY Zenon, <3>1, <3>2, <2>3, <1>0, OwnNames DEF reservation_is_valid, Named
  <2> HIDE DEF undo
  <2>4. Linked(b)' = Linked(b) /\ Sentinel(b)' = Sentinel(b)
    BY Zenon, <2>1 DEF Noted, Linked, Sentinel
  <2>5. Reserved(b)' /\ Installed(b)'
    BY Zenon, <2>1 DEF Undisturbed, Reserved, Installed, Sentinelled, Reserving, Working, Installing
  <2>6. Placed(b)'
    BY Zenon, <2>1, <2>2 DEF Undisturbed, Placed, Holding, Sentinelled, Working, Installing
  <2>7. Undone(b)'
    <3>1. CASE undo
      BY ZenonT(30), <3>1, <2>1, <2>2, <2>3, <2>4 DEF Undone
    <3>2. CASE ~undo
      BY Zenon, <3>2, <2>1, <2>3 DEF Undone, Ended
    <3> QED BY Zenon, <3>1, <3>2
  <2> QED BY Zenon, <2>5, <2>6, <2>7 DEF Undisturbed
<1>2. CASE Unlink(b)
  <2>0. pc[b] = "unlink" /\ path = DirOf(b) /\ b \notin committed
    BY Zenon, <1>2 DEF Unlink, Undisturbed, Placed, Holding
  <2>1. CASE installed_records[b] = <<>>
    <3>1. pc'[b] = "rm_sentinel" /\ UNCHANGED <<fs, reservation, installation, history>>
      BY Zenon, <1>2, <2>1 DEF Unlink, Go, Shape
    <3>2. Linked(b) = {} /\ Sentinel(b)' = Sentinel(b)
      <4>1. Noted(b) = {}
        BY Zenon, <2>1, EmptyRange DEF Noted
      <4>2. Sentinel(b)' = Sentinel(b)
        BY Zenon, <3>1 DEF Sentinel
      <4> QED BY Zenon, <4>1, <4>2 DEF Linked
    <3>3. Reserved(b)' /\ Installed(b)'
      BY ZenonT(30), <2>0, <3>1 DEF Undisturbed, Reserved, Installed, Sentinelled, Reserving, Working, Installing
    <3>4. Placed(b)'
      BY Zenon, <2>0, <3>1 DEF Placed, Holding
    <3>5. Undone(b)'
      BY Zenon, <2>0, <3>1, <3>2 DEF Undisturbed, Undone, Ended
    <3> QED BY Zenon, <3>3, <3>4, <3>5 DEF Undisturbed
  <2>2. CASE installed_records[b] # <<>>
    <3>1. /\ pc' = pc /\ installed_records'[b] = Tail(installed_records[b])
          /\ entries'[DirOf(b)] = entries[DirOf(b)] \ {ArtifactEntry(b, Head(installed_records[b]))}
          /\ UNCHANGED <<path, reservation, history>>
      BY Zenon, <1>2, <2>0, <2>2, <1>0 DEF Unlink, Shape
    <3>2. \A a \in Noted(b) : a = Head(installed_records[b]) \/ a \in Noted(b)'
      BY Zenon, <2>2, <3>1, TailNoted
    <3>3. \A e \in Linked(b) : e = ArtifactEntry(b, Head(installed_records[b])) \/ e \in Linked(b)'
      BY Zenon, <3>2 DEF Linked
    <3>4. Sentinel(b)' = Sentinel(b)
      BY Zenon, <3>1 DEF Sentinel
    <3>5. Reserved(b)' /\ Installed(b)'
      BY Zenon, <2>0, <3>1 DEF Undisturbed, Reserved, Installed, Sentinelled, Reserving, Working, Installing
    <3>6. Placed(b)'
      BY Zenon, <2>0, <3>1 DEF Placed, Holding
    <3>7. Undone(b)'
      BY ZenonT(30), <2>0, <3>1, <3>3, <3>4 DEF Undisturbed, Undone, Ended
    <3> QED BY Zenon, <3>5, <3>6, <3>7 DEF Undisturbed
  <2> QED BY Zenon, <2>1, <2>2
<1>3. CASE RmSentinel(b)
  <2>0. pc[b] = "rm_sentinel" /\ path = DirOf(b) /\ b \notin committed
    BY Zenon, <1>3 DEF RmSentinel, Undisturbed, Placed, Holding
  <2>1. /\ pc'[b] = "rmdir" /\ UNCHANGED <<path, reservation, installation, history>>
        /\ entries'[DirOf(b)] = IF reservation_file[b] THEN entries[DirOf(b)] \ Named(SentinelName(b))
                                ELSE entries[DirOf(b)]
    BY ZenonT(30), <1>3, <2>0, <1>0 DEF RmSentinel, Go, Shape
  <2>2. ASSUME entries[DirOf(b)] \subseteq Sentinel(b) PROVE entries'[DirOf(b)] = {}
    <3>1. Here = entries[DirOf(b)]
      BY Zenon, <2>0, <1>0 DEF Here
    <3>2. CASE reservation_file[b]
      BY ZenonT(30), <3>1, <3>2, <2>1, <2>2, OwnNames DEF Named
    <3>3. CASE ~reservation_file[b]
      BY Zenon, <3>3, <2>1, <2>2 DEF Sentinel
    <3> QED BY Zenon, <3>2, <3>3
  <2>3. Reserved(b)' /\ Installed(b)'
    BY Zenon, <2>0, <2>1 DEF Undisturbed, Reserved, Installed, Sentinelled, Reserving, Working, Installing
  <2>4. Placed(b)'
    BY Zenon, <2>0, <2>1 DEF Placed, Holding
  <2>5. Undone(b)'
    BY Zenon, <2>0, <2>1, <2>2 DEF Undisturbed, Undone, Ended
  <2> QED BY Zenon, <2>3, <2>4, <2>5 DEF Undisturbed
<1>4. CASE Rmdir(b)
  <2>0. pc[b] = "rmdir" /\ path = DirOf(b) /\ b \notin committed
    BY Zenon, <1>4 DEF Rmdir, Undisturbed, Placed, Holding
  <2>1. /\ pc'[b] = "exited" /\ UNCHANGED <<entries, reservation, installation, stopped, committed>>
        /\ path' = IF entries[DirOf(b)] = {} THEN Absent ELSE path
    BY Zenon, <1>4, <2>0, <1>0 DEF Rmdir, Go, Shape, Here
  <2>2. Reserved(b)' /\ Installed(b)'
    BY Zenon, <2>0, <2>1 DEF Undisturbed, Reserved, Installed, Sentinelled, Reserving, Working, Installing
  <2>3. Placed(b)'
    BY Zenon, <2>0, <2>1 DEF Placed, Holding, Sentinelled, Working, Installing
  <2>4. Undone(b)'
    BY Zenon, <2>0, <2>1, <1>0 DEF Undisturbed, Undone, Ended
  <2> QED BY Zenon, <2>2, <2>3, <2>4 DEF Undisturbed
<1> QED BY Zenon, <1>1, <1>2, <1>3, <1>4

\* The faults that strike run b.
LEMMA OwnFault ==
    ASSUME Shape, NEW b \in Builders, Undisturbed(b), Fail(b) \/ Signal(b) \/ SignalCleanup(b) \/ Kill(b)
    PROVE  Undisturbed(b)'
<1>1. CASE Fail(b) \/ Signal(b)
  BY Zenon, <1>1, AbortUndisturbed DEF Fail, Signal, Fallible, Reserving, Working, Installing, fs
<1>2. CASE SignalCleanup(b) \/ Kill(b)
  <2>1. /\ pc[b] \notin Ended
        /\ \/ pc[b] \in Undoing /\ pc'[b] = "exited" /\ stopped' = stopped
           \/ pc'[b] = "killed"
        /\ UNCHANGED <<fs, reservation, installation, cleaned, committed>>
    BY Zenon, <1>2 DEF SignalCleanup, Kill, Go, Shape, history, Undoing, Ended
  <2>2. Reserved(b)' /\ Installed(b)'
    BY Zenon, <2>1 DEF Undisturbed, Reserved, Installed, Sentinelled, Reserving, Working, Installing,
                fs, reservation, installation
  <2>3. Placed(b)'
    BY Zenon, <2>1 DEF Undisturbed, Placed, Published, Holding, Sentinelled, Working, Installing, Undoing, fs
  <2>4. Undone(b)'
    BY Zenon, <2>1 DEF Undisturbed, Undone, Ended, fs
  <2> QED BY Zenon, <2>2, <2>3, <2>4 DEF Undisturbed
<1> QED BY Zenon, <1>1, <1>2

\* What is known of undisturbed runs is an invariant.
LEMMA UndisturbedInvariant == Spec => []UndisturbedInv
<1>1. Init => UndisturbedInv
  <2> SUFFICES ASSUME Init, NEW b \in Builders PROVE Undisturbed(b)
    BY Zenon, ShapeInit DEF UndisturbedInv
  <2>1. /\ entries[DirOf(b)] = {} /\ pc[b] = "check_absent" /\ path # DirOf(b) /\ b \notin committed
        /\ reservation_inode[b] = Absent /\ ~reservation_file[b] /\ ~cleaned[b] /\ next[b] = 1
        /\ installed_records[b] = <<>>
    BY Zenon, Names DEF Init
  <2>2. Sentinel(b) = {} /\ Linked(b) = {} /\ Len(installed_records[b]) = 0
    <3>1. Noted(b) = {}
      BY Zenon, <2>1, EmptyRange DEF Noted
    <3>2. Sentinel(b) = {} /\ Len(installed_records[b]) = 0
      BY Zenon, <2>1 DEF Sentinel
    <3> QED BY Zenon, <3>1, <3>2 DEF Linked
  <2>3. Installed(b)
    BY <2>1, <2>2 DEF Installed, Reserving, Working, Installing
  <2> QED BY Zenon, <2>1, <2>3 DEF Undisturbed, Reserved, Undone, Placed, Holding, Sentinelled, Reserving, Working, Installing
<1>2. UndisturbedInv /\ [Next]_vars => UndisturbedInv'
  <2> SUFFICES ASSUME UndisturbedInv, [Next]_vars, meddles' = 0, NEW b \in Builders PROVE Undisturbed(b)'
    BY Zenon, ShapeStep DEF UndisturbedInv
  <2>1. CASE Meddle
    BY <2>1 DEF Meddle, UndisturbedInv, Shape
  <2>2. CASE UNCHANGED vars
    <3>1. meddles = 0 /\ Apart(b)
      BY Zenon, <2>2 DEF vars, fs, reservation, installation, history, misfortune, Apart
    <3> QED BY Zenon, <3>1, ApartUndisturbed DEF UndisturbedInv
  <2>3. ASSUME NEW c \in Builders, Step(c) \/ Fail(c) \/ Signal(c) \/ SignalCleanup(c) \/ Kill(c)
        PROVE  Undisturbed(b)'
    <3>1. meddles' = meddles
      BY Zenon, <2>3 DEF Step, CheckAbsent, Mkdir, IdentifyDir, Activate, Mktemp, WriteToken, IdentifySentinel, Gates,
                  Revalidate, Stage, PreValid, PreCount, Collide, Link, Identify, Record, PostValid, PostCount,
                  PostFiles, Commit, Deactivate, Cleanup, Unlink, RmSentinel, Rmdir, Test, Fail, Signal,
                  SignalCleanup, Kill, misfortune
    <3>2. Shape /\ Undisturbed(b) /\ Undisturbed(c)
      BY Zenon, <3>1 DEF UndisturbedInv
    <3>3. CASE b # c
      BY Zenon, <2>3, <3>2, <3>3, ApartStep, ApartUndisturbed
    <3>4. CASE b = c
      BY Zenon, <2>3, <3>2, <3>4, OwnReserving, TestUndisturbed, OwnInstalling, OwnUndoing, OwnFault DEF Step
    <3> QED BY Zenon, <3>3, <3>4
  <2> QED BY Zenon, <2>1, <2>2, <2>3 DEF Next
<1> QED BY <1>1, <1>2, PTL DEF Spec

\* What a run has committed stays at the path, exactly its artifacts, as long
\* as no outsider acts: none of any number of other runs, failing, interrupted or
\* killed wherever they are, removes it, adds to it or replaces it.
THEOREM PublishedStays == Spec => []CommittedStays
<1>1. UndisturbedInv => CommittedStays
  BY Zenon DEF UndisturbedInv, Shape, Undisturbed, Placed, CommittedStays
<1> QED BY <1>1, UndisturbedInvariant, PTL

\* A run that stopped outside the unrecorded windows, and whose cleanup ran to
\* its end, has left nothing at the path, for any number of runs.
THEOREM StoppedRunsVanish == Spec => []StoppedRunLeavesNothing
<1>1. UndisturbedInv => StoppedRunLeavesNothing
  BY Zenon DEF UndisturbedInv, Undisturbed, Undone, StoppedRunLeavesNothing
<1> QED BY <1>1, UndisturbedInvariant, PTL

-----------------------------------------------------------------------------
(* With an outsider who acts only where the script looks again. *)

\* No file that bears a sentinel's name is the outsider's.
Genuine(e) == \A b \in Builders : e.name = SentinelName(b) => e.inode[1] # "foreign"
Files == \A d \in Dirs : IsFiniteSet(entries[d]) /\ \A e \in entries[d] : Genuine(e)

Owning == {"identify_dir", "unlink", "rm_sentinel", "rmdir"}
Claiming == {"activate", "mktemp", "deactivate", "unlink", "rm_sentinel", "rmdir"} \cup Sentinelled

\* Run b takes no directory but its own for its reservation, and the commands that act
\* without looking find it at the path.
Claimed(b) ==
    /\ pc[b] \in Owning => path = DirOf(b)
    /\ reservation_inode[b] \in {Absent, DirOf(b)}
    /\ pc[b] \in Claiming => reservation_inode[b] = DirOf(b)
    /\ pc[b] \in Sentinelled => reservation_file[b]

Alone(b) == \A other \in Builders \ {b} : reservation_inode[other] = Absent

\* What the last tests of run b have found is still so when it commits.
Counted(b) ==
    pc[b] \in {"post_count", "post_files", "commit"} /\ Alone(b) =>
        /\ path = DirOf(b)
        /\ \E e \in entries[DirOf(b)] : e.name = SentinelName(b)
        /\ pc[b] # "post_count" => Cardinality(entries[DirOf(b)]) = Len(Artifacts) + 1
        /\ pc[b] = "commit" => \A a \in ArtifactNames : \E e \in entries[DirOf(b)] : e.name = <<a>>

CheckedInv == Shape /\ Files /\ \A b \in Builders : Claimed(b) /\ Counted(b)

\* What builders and outsiders create is genuine.
LEMMA GenuineEntries ==
    /\ \A b, g : Genuine(SentinelEntry(b, g))
    /\ \A b, a : Genuine(ArtifactEntry(b, a))
    /\ \A a : Genuine(ForeignFile(<<a>>))
<1>1. \A b, g : SentinelEntry(b, g).inode[1] = "sentinel"
  BY Zenon DEF SentinelEntry
<1>2. \A b, a : ArtifactEntry(b, a).inode[1] = "artifact"
  BY Zenon DEF ArtifactEntry
<1>3. \A a : ForeignFile(<<a>>).name = <<a>>
  BY Zenon DEF ForeignFile
<1> QED BY Zenon, <1>1, <1>2, <1>3, Names DEF Genuine

\* Only six commands change what is in a directory.
LEMMA Writers ==
    ASSUME NEW b \in Builders, Step(b) \/ Fail(b) \/ Signal(b) \/ SignalCleanup(b) \/ Kill(b),
           ~(Mktemp(b) \/ WriteToken(b) \/ Link(b) \/ Commit(b) \/ Unlink(b) \/ RmSentinel(b))
    PROVE  entries' = entries
BY Zenon DEF Step, CheckAbsent, Mkdir, IdentifyDir, Activate, IdentifySentinel, Gates,
            Revalidate, Stage, PreValid, PreCount, Collide, Identify, Record, PostValid, PostCount,
            PostFiles, Deactivate, Cleanup, Rmdir, Test, Fail, Signal, SignalCleanup, Kill, fs

\* No step brings more than one new file into a directory, and that one is genuine.
LEMMA FilesStep == Shape /\ Files /\ [Next]_vars => Files'
<1> SUFFICES ASSUME Shape, Files, [Next]_vars PROVE Files'
  OBVIOUS
<1> USE DEF fs, reservation, installation, history, misfortune
<1> DEFINE Grows(d) == \E new : Genuine(new) /\ entries'[d] \subseteq entries[d] \cup {new}
<1>1. ASSUME \A d \in Dirs : Grows(d) PROVE Files'
  <2> SUFFICES ASSUME NEW d \in Dirs PROVE IsFiniteSet(entries'[d]) /\ \A e \in entries'[d] : Genuine(e)
    BY Zenon DEF Files, Genuine
  <2>1. PICK new : Genuine(new) /\ entries'[d] \subseteq entries[d] \cup {new}
    BY Zenon, <1>1
  <2>2. IsFiniteSet(entries[d] \cup {new})
    BY Zenon, FS_AddElement DEF Files
  <2>3. IsFiniteSet(entries'[d])
    BY Zenon, <2>1, <2>2, FS_Subset
  <2> QED BY Zenon, <2>1, <2>3 DEF Files
<1>2. ASSUME entries' = entries PROVE \A d \in Dirs : Grows(d)
  BY Zenon, <1>2, GenuineEntries
<1>3. ASSUME NEW b \in Builders, Step(b) \/ Fail(b) \/ Signal(b) \/ SignalCleanup(b) \/ Kill(b)
      PROVE  \A d \in Dirs : Grows(d)
  <2>1. CASE Mktemp(b)
    BY Zenon, <2>1, GenuineEntries DEF Mktemp, Shape
  <2>2. CASE WriteToken(b)
    BY Zenon, <2>2, GenuineEntries DEF WriteToken, Shape
  <2>3. CASE Link(b)
    BY Zenon, <2>3, GenuineEntries DEF Link, Shape
  <2>4. CASE Commit(b) \/ Unlink(b) \/ RmSentinel(b)
    <3>1. \A d \in Dirs : entries'[d] \subseteq entries[d]
      BY Zenon, <2>4 DEF Commit, Unlink, RmSentinel
    <3> QED BY Zenon, <3>1, GenuineEntries
  <2> QED BY Zenon, <1>2, <1>3, <2>1, <2>2, <2>3, <2>4, Writers
<1>5. ASSUME Meddle PROVE \A d \in Dirs : Grows(d)
  <2>1. \E a : \A d \in Dirs : entries'[d] \subseteq entries[d] \cup {ForeignFile(<<a>>)}
    <3>1. CASE entries' = entries
      BY Zenon, <3>1
    <3>2. CASE entries' = [entries EXCEPT ![path] = @ \cup {ForeignFile(<<"foreign">>)}]
      BY Zenon, <3>2 DEF Shape
    <3>3. CASE \E a \in ArtifactNames :
                  entries' = [entries EXCEPT ![path] = (@ \ Named(<<a>>)) \cup {ForeignFile(<<a>>)}]
      BY Zenon, <3>3 DEF Shape
    <3> QED BY Zenon, <1>5, <3>1, <3>2, <3>3 DEF Meddle
  <2> QED BY Zenon, <2>1, GenuineEntries
<1>6. ASSUME UNCHANGED vars PROVE \A d \in Dirs : Grows(d)
  BY Zenon, <1>6, <1>2 DEF vars
<1> HIDE DEF Grows
<1> QED BY Zenon, <1>1, <1>3, <1>5, <1>6 DEF Next

\* What a command or a fault of run c does: it moves no other run, takes the directory at
\* the path for its reservation or none, creates the path only where nothing is, and
\* removes it only in the commands that own it.
LEMMA Conduct ==
    ASSUME Shape, NEW c \in Builders, Step(c) \/ Fail(c) \/ Signal(c) \/ SignalCleanup(c) \/ Kill(c)
    PROVE  /\ meddles' = meddles
           /\ \A b \in Builders \ {c} :
                 /\ pc'[b] = pc[b] /\ reservation_file'[b] = reservation_file[b]
                 /\ reservation_inode'[b] = reservation_inode[b]
           /\ reservation_inode'[c] = reservation_inode[c] \/ (path # Absent /\ reservation_inode'[c] = path)
           /\ \/ path' = path
              \/ path = Absent /\ path' = DirOf(c)
              \/ path' = Absent /\ pc[c] \in Owning
<1> USE DEF fs, reservation, installation, history, misfortune, Go, Abort
<1>2. CASE CheckAbsent(c)
  BY Zenon, <1>2 DEF CheckAbsent, Shape
<1>3. CASE Mkdir(c)
  BY Zenon, <1>3 DEF Mkdir, Shape
<1>4. CASE IdentifyDir(c)
  BY Zenon, <1>4 DEF IdentifyDir, Shape
<1>5. CASE Activate(c)
  BY Zenon, <1>5 DEF Activate, Shape
<1>6. CASE Mktemp(c)
  BY Zenon, <1>6 DEF Mktemp, Shape
<1>7. CASE WriteToken(c)
  BY Zenon, <1>7 DEF WriteToken, Shape
<1>8. CASE IdentifySentinel(c)
  BY Zenon, <1>8 DEF IdentifySentinel, Shape
<1>9. CASE Gates(c) \/ Revalidate(c) \/ Stage(c) \/ PreValid(c) \/ PreCount(c) \/ Collide(c)
           \/ Identify(c) \/ PostValid(c) \/ PostCount(c) \/ PostFiles(c)
  <2>1. \E here, ok, there : Test(c, here, ok, there)
    BY Zenon, <1>9 DEF Gates, Revalidate, Stage, PreValid, PreCount, Collide, Identify, PostValid, PostCount, PostFiles
  <2> QED BY Zenon, <2>1 DEF Test, Shape
<1>10. CASE Link(c)
  BY Zenon, <1>10 DEF Link, Shape
<1>11. CASE Record(c)
  BY Zenon, <1>11 DEF Record, Shape
<1>12. CASE Commit(c)
  BY Zenon, <1>12 DEF Commit, Shape, Named
<1>13. CASE Deactivate(c)
  BY Zenon, <1>13 DEF Deactivate, Shape
<1>14. CASE Cleanup(c)
  BY Zenon, <1>14 DEF Cleanup, Shape
<1>15. CASE Unlink(c)
  BY Zenon, <1>15 DEF Unlink, Shape
<1>16. CASE RmSentinel(c)
  BY Zenon, <1>16 DEF RmSentinel, Shape, Named
<1>17. CASE Rmdir(c)
  BY Zenon, <1>17 DEF Rmdir, Shape, Owning
<1>18. CASE Fail(c) \/ Signal(c) \/ SignalCleanup(c) \/ Kill(c)
  BY Zenon, <1>18 DEF Fail, Signal, SignalCleanup, Kill, Shape, Owning
<1> QED BY Zenon, <1>2, <1>3, <1>4, <1>5, <1>6, <1>7, <1>8, <1>9, <1>10, <1>11, <1>12, <1>13, <1>14, <1>15,
           <1>16, <1>17, <1>18 DEF Step

\* Run c writes only in commands that have a reservation, and removes no files but its own.
LEMMA Writing ==
    ASSUME Shape, NEW c \in Builders, Step(c) \/ Fail(c) \/ Signal(c) \/ SignalCleanup(c) \/ Kill(c)
    PROVE  /\ entries' = entries \/ pc[c] \in Claiming
           /\ \A d \in Dirs : \A e \in entries[d] :
                 e \in entries'[d] \/ e.name = SentinelName(c) \/ \E a : e = ArtifactEntry(c, a)
<1>0. {"mktemp", "write_token", "link", "commit", "unlink", "rm_sentinel"} \subseteq Claiming
  BY Zenon DEF Claiming, Sentinelled, Working, Installing
<1>1. CASE Mktemp(c)
  BY Zenon, <1>0, <1>1 DEF Mktemp, Shape
<1>2. CASE WriteToken(c)
  BY Zenon, <1>0, <1>2 DEF WriteToken, Shape
<1>3. CASE Link(c)
  BY Zenon, <1>0, <1>3 DEF Link, Shape
<1>4. CASE Commit(c)
  BY Zenon, <1>0, <1>4 DEF Commit, Named
<1>5. CASE Unlink(c)
  BY Zenon, <1>0, <1>5 DEF Unlink
<1>6. CASE RmSentinel(c)
  BY Zenon, <1>0, <1>6 DEF RmSentinel, Named
<1> QED BY Zenon, <1>1, <1>2, <1>3, <1>4, <1>5, <1>6, Writers

\* A command or a fault of run c leaves what is known of another run b.
LEMMA CheckedOther ==
    ASSUME Shape, NEW c \in Builders, Step(c) \/ Fail(c) \/ Signal(c) \/ SignalCleanup(c) \/ Kill(c),
           Claimed(c), NEW b \in Builders, b # c, Claimed(b), Counted(b)
    PROVE  Claimed(b)' /\ Counted(b)'
<1>1. /\ DirOf(b) # DirOf(c) /\ DirOf(b) # Absent /\ DirOf(c) # Absent
      /\ pc'[b] = pc[b] /\ reservation_file'[b] = reservation_file[b]
      /\ reservation_inode'[b] = reservation_inode[b]
  BY Zenon, Conduct, Names
<1>2. path = DirOf(b) => path' = DirOf(b)
  BY Zenon, <1>1, Conduct DEF Claimed
<1>3. Claimed(b)'
  BY Zenon, <1>1, <1>2 DEF Claimed
<1>4. ASSUME Alone(b)' PROVE Alone(b) /\ entries' = entries
  <2>1. reservation_inode[c] = Absent
    BY Zenon, <1>4, Conduct DEF Alone
  <2>2. Alone(b)
    BY Zenon, <1>4, <2>1, Conduct DEF Alone
  <2> QED BY Zenon, <2>1, <2>2, <1>1, Writing DEF Claimed
<1>5. Counted(b)'
  BY Zenon, <1>1, <1>2, <1>4 DEF Counted
<1> QED BY Zenon, <1>3, <1>5

\* The commands of run b lead it to the ones that own the path only with its directory there.
LEMMA OwnClaim ==
    ASSUME Shape, NEW b \in Builders, Claimed(b), Step(b) \/ Fail(b) \/ Signal(b) \/ SignalCleanup(b) \/ Kill(b)
    PROVE  Claimed(b)'
<1> USE DEF fs, reservation, installation, history, misfortune, Go, Abort
<1>0. DirOf(b) # Absent
  BY Zenon, Names
<1>1. CASE CheckAbsent(b)
  BY Zenon, <1>1 DEF CheckAbsent, Shape, Claimed, Owning, Claiming, Sentinelled, Working, Installing
<1>2. CASE Mkdir(b)
  BY Zenon, <1>2 DEF Mkdir, Shape, Claimed, Owning, Claiming, Sentinelled, Working, Installing
<1>3. CASE IdentifyDir(b)
  BY Zenon, <1>3 DEF IdentifyDir, Shape, Claimed, Owning, Claiming, Sentinelled, Working, Installing
<1>4. CASE Activate(b)
  BY Zenon, <1>4 DEF Activate, Shape, Claimed, Owning, Claiming, Sentinelled, Working, Installing
<1>5. CASE Mktemp(b)
  BY Zenon, <1>5 DEF Mktemp, Shape, Claimed, Owning, Claiming, Sentinelled, Working, Installing
<1>6. CASE WriteToken(b) \/ IdentifySentinel(b) \/ Link(b) \/ Record(b)
  BY Zenon, <1>6 DEF WriteToken, IdentifySentinel, Link, Record, Shape, Claimed, Owning, Claiming,
                        Sentinelled, Working, Installing
<1>7. ASSUME NEW here \in Sentinelled, NEW ok, NEW there \in Sentinelled, Test(b, here, ok, there)
      PROVE  Claimed(b)'
  <2>1. /\ pc[b] \in Sentinelled /\ pc'[b] \in Sentinelled \cup {"cleanup"}
        /\ UNCHANGED <<path, reservation_inode, reservation_file>>
    BY Zenon, <1>7 DEF Test, Shape
  <2>2. Owning \cap (Sentinelled \cup {"cleanup"}) = {} /\ "cleanup" \notin Claiming
    BY Zenon DEF Owning, Claiming, Sentinelled, Working, Installing
  <2>3. Sentinelled \subseteq Claiming
    BY Zenon DEF Claiming
  <2> QED BY Zenon, <2>1, <2>2, <2>3 DEF Claimed
<1>8. CASE Gates(b) \/ Revalidate(b) \/ Stage(b) \/ PreValid(b) \/ PreCount(b) \/ Collide(b)
           \/ Identify(b) \/ PostValid(b) \/ PostCount(b) \/ PostFiles(b)
  <2>1. {"gates", "revalidate", "stage", "pre_valid", "pre_count", "collide", "link", "identify", "record",
         "post_valid", "post_count", "post_files", "commit"} \subseteq Sentinelled
    BY Zenon DEF Sentinelled, Working, Installing
  <2> QED BY Zenon, <1>7, <1>8, <2>1 DEF Gates, Revalidate, Stage, PreValid, PreCount, Collide, Identify,
                                         PostValid, PostCount, PostFiles
<1>9. CASE Commit(b) \/ Deactivate(b)
  BY Zenon, <1>9 DEF Commit, Deactivate, Shape, Claimed, Owning, Claiming, Sentinelled, Working, Installing
<1>10. CASE Cleanup(b)
  <2>1. /\ pc[b] = "cleanup" /\ UNCHANGED <<path, reservation_inode, reservation_file>>
        /\ \/ pc'[b] = "exited"
           \/ pc'[b] = "unlink" /\ path # Absent /\ path = reservation_inode[b]
    BY Zenon, <1>10 DEF Cleanup, Shape, reservation_is_valid
  <2> QED BY Zenon, <2>1 DEF Claimed, Owning, Claiming, Sentinelled, Working, Installing
<1>11. CASE Unlink(b) \/ RmSentinel(b)
  BY Zenon, <1>11 DEF Unlink, RmSentinel, Shape, Claimed, Owning, Claiming, Sentinelled, Working, Installing
<1>12. CASE Rmdir(b)
  BY Zenon, <1>12 DEF Rmdir, Shape, Claimed, Owning, Claiming, Sentinelled, Working, Installing
<1>13. CASE Fail(b) \/ Signal(b) \/ SignalCleanup(b) \/ Kill(b)
  <2>1. /\ pc'[b] \in {"cleanup", "exited", "killed"}
        /\ UNCHANGED <<reservation_inode, reservation_file>>
    BY Zenon, <1>13 DEF Fail, Signal, SignalCleanup, Kill, Shape
  <2> QED BY Zenon, <2>1 DEF Claimed, Owning, Claiming, Sentinelled, Working, Installing
<1> QED BY Zenon, <1>1, <1>2, <1>3, <1>4, <1>5, <1>6, <1>8, <1>9, <1>10, <1>11, <1>12, <1>13 DEF Step

\* Run b comes to the end of its installation only through its last tests.
LEMMA OwnCount ==
    ASSUME Shape, NEW b \in Builders, Claimed(b), Counted(b),
           Step(b) \/ Fail(b) \/ Signal(b) \/ SignalCleanup(b) \/ Kill(b)
    PROVE  Counted(b)'
<1> USE DEF fs, reservation, installation, history, misfortune, Go, Abort
<1> DEFINE Late == {"post_count", "post_files", "commit"}
<1>1. CASE PostValid(b) \/ PostCount(b) \/ PostFiles(b)
  <2> SUFFICES ASSUME pc'[b] \in Late, Alone(b)' PROVE Counted(b)'
    BY Zenon DEF Counted
  <2>1. UNCHANGED <<path, entries, reservation_inode>>
    BY Zenon, <1>1 DEF PostValid, PostCount, PostFiles, Test
  <2>2. Alone(b)
    BY Zenon, <2>1 DEF Alone
  <2>3. CASE PostValid(b)
    <3>1. pc'[b] = "post_count" /\ pc[b] = "post_valid" /\ reservation_is_valid(b)
      BY Zenon, <2>3 DEF PostValid, Test, Shape
    <3>2. path = DirOf(b) /\ reservation_file[b]
      BY Zenon, <3>1 DEF reservation_is_valid, Claimed, Claiming, Sentinelled, Installing
    <3>3. \E e \in entries[DirOf(b)] : e.name = SentinelName(b)
      BY Zenon, <3>1, <3>2, Names DEF reservation_is_valid, Named, Here
    <3> QED BY Zenon, <2>1, <3>1, <3>2, <3>3 DEF Counted
  <2>4. CASE PostCount(b)
    <3>1. pc'[b] = "post_files" /\ pc[b] = "post_count" /\ Cardinality(Here) = Len(Artifacts) + 1
      BY Zenon, <2>4 DEF PostCount, Test, Shape
    <3>2. Here = entries[DirOf(b)]
      BY Zenon, <3>1, <2>2, Names DEF Here, Counted
    <3> QED BY Zenon, <2>1, <2>2, <3>1, <3>2 DEF Counted
  <2>5. CASE PostFiles(b)
    <3>1. pc'[b] = "commit" /\ pc[b] = "post_files" /\ \A a \in ArtifactNames : Named(<<a>>) # {}
      BY Zenon, <2>5 DEF PostFiles, Test, Shape
    <3>2. Here = entries[DirOf(b)]
      BY Zenon, <3>1, <2>2, Names DEF Here, Counted
    <3>3. \A a \in ArtifactNames : \E e \in entries[DirOf(b)] : e.name = <<a>>
      BY Zenon, <3>1, <3>2 DEF Named
    <3> QED BY Zenon, <2>1, <2>2, <3>1, <3>3 DEF Counted
  <2> QED BY Zenon, <1>1, <2>3, <2>4, <2>5
<1>2. CASE ~(PostValid(b) \/ PostCount(b) \/ PostFiles(b))
  <2>1. ASSUME Step(b) PROVE pc'[b] \notin Late
    <3>1. CASE CheckAbsent(b) \/ Mkdir(b) \/ IdentifyDir(b) \/ Activate(b) \/ Mktemp(b) \/ WriteToken(b)
               \/ IdentifySentinel(b)
      BY Zenon, <3>1 DEF CheckAbsent, Mkdir, IdentifyDir, Activate, Mktemp, WriteToken, IdentifySentinel, Shape
    <3>2. CASE Gates(b) \/ Revalidate(b) \/ Stage(b) \/ PreValid(b) \/ PreCount(b) \/ Collide(b) \/ Identify(b)
      BY Zenon, <3>2 DEF Gates, Revalidate, Stage, PreValid, PreCount, Collide, Identify, Test, Shape
    <3>3. CASE Link(b) \/ Record(b) \/ Commit(b) \/ Deactivate(b)
      BY Zenon, <3>3 DEF Link, Record, Commit, Deactivate, Shape
    <3>4. CASE Cleanup(b) \/ Unlink(b) \/ RmSentinel(b) \/ Rmdir(b)
      BY Zenon, <3>4 DEF Cleanup, Unlink, RmSentinel, Rmdir, Shape
    <3> QED BY Zenon, <2>1, <1>2, <3>1, <3>2, <3>3, <3>4 DEF Step
  <2>2. ASSUME Fail(b) \/ Signal(b) \/ SignalCleanup(b) \/ Kill(b) PROVE pc'[b] \notin Late
    BY Zenon, <2>2 DEF Fail, Signal, SignalCleanup, Kill, Shape
  <2> QED BY Zenon, <2>1, <2>2 DEF Counted
<1> QED BY Zenon, <1>1, <1>2

\* The outsider acts only where the script looks again before it acts.
OnlyWhereChecked == MeddlePoints \cap Unchecked = {}

\* What is known of runs that look again is an invariant.
LEMMA CheckedInvariant ==
    ASSUME OnlyWhereChecked
    PROVE  Spec => []CheckedInv
<1>1. Init => CheckedInv
  <2> SUFFICES ASSUME Init PROVE CheckedInv
    OBVIOUS
  <2>1. Files
    BY Zenon, FS_EmptySet DEF Init, Files
  <2>2. ASSUME NEW b \in Builders PROVE Claimed(b) /\ Counted(b)
    <3>1. pc[b] = "check_absent" /\ reservation_inode[b] = Absent
      BY Zenon DEF Init
    <3> QED BY Zenon, <3>1 DEF Claimed, Counted, Owning, Claiming, Sentinelled, Working, Installing
  <2> QED BY Zenon, <2>1, <2>2, ShapeInit DEF CheckedInv
<1>2. CheckedInv /\ [Next]_vars => CheckedInv'
  <2> SUFFICES ASSUME CheckedInv, [Next]_vars, NEW b \in Builders PROVE Claimed(b)' /\ Counted(b)'
    BY Zenon, ShapeStep, FilesStep DEF CheckedInv
  <2>0. Shape /\ Claimed(b) /\ Counted(b)
    BY Zenon DEF CheckedInv
  <2>1. ASSUME NEW c \in Builders, Step(c) \/ Fail(c) \/ Signal(c) \/ SignalCleanup(c) \/ Kill(c)
        PROVE  Claimed(b)' /\ Counted(b)'
    <3>1. Claimed(c)
      BY Zenon DEF CheckedInv
    <3>2. CASE b # c
      BY Zenon, <2>0, <2>1, <3>1, <3>2, CheckedOther
    <3>3. CASE b = c
      BY Zenon, <2>0, <2>1, <3>3, OwnClaim, OwnCount
    <3> QED BY Zenon, <3>2, <3>3
  <2>2. CASE Meddle
    <3>1. pc[b] \notin Unchecked
      BY Zenon, <2>2 DEF Meddle, OnlyWhereChecked
    <3>2. pc' = pc /\ reservation_inode' = reservation_inode /\ reservation_file' = reservation_file
      BY Zenon, <2>2 DEF Meddle, reservation
    <3>3. pc[b] \notin Owning /\ pc[b] \notin {"post_count", "post_files", "commit"}
      BY Zenon, <3>1 DEF Unchecked, Owning
    <3> QED BY Zenon, <2>0, <3>2, <3>3 DEF Claimed, Counted
  <2>3. CASE UNCHANGED vars
    BY Zenon, <2>0, <2>3 DEF vars, fs, reservation, Claimed, Counted, Alone
  <2> QED BY Zenon, <2>1, <2>2, <2>3 DEF Next
<1> QED BY <1>1, <1>2, PTL DEF Spec

\* Whatever a run does or suffers, it removes neither the outsider's directory nor one of
\* the outsider's files, whatever their names, for any number of runs, any faults and any
\* list of artifacts, when the outsider acts where the script looks again.
THEOREM OutsidersAreSpared ==
    ASSUME OnlyWhereChecked
    PROVE  Spec => SparesOutsider
<1>1. ASSUME CheckedInv, [Next]_vars, meddles' = meddles
      PROVE  /\ path = ForeignDir => path' = ForeignDir
             /\ \A d \in Dirs : {e \in entries[d] : e.inode[1] = "foreign"} \subseteq entries'[d]
  <2>1. CASE UNCHANGED vars
    BY Zenon, <2>1 DEF vars, fs
  <2>2. CASE Meddle
    <3>1. meddles \in Nat /\ meddles' = meddles + 1
      BY Zenon, <1>1, <2>2 DEF Meddle, CheckedInv, Shape
    <3> QED BY <1>1, <3>1
  <2>3. ASSUME NEW c \in Builders, Step(c) \/ Fail(c) \/ Signal(c) \/ SignalCleanup(c) \/ Kill(c)
        PROVE  /\ path = ForeignDir => path' = ForeignDir
               /\ \A d \in Dirs : {e \in entries[d] : e.inode[1] = "foreign"} \subseteq entries'[d]
    <3>1. Shape /\ Files /\ Claimed(c)
      BY Zenon, <1>1 DEF CheckedInv
    <3>2. path = ForeignDir => path' = ForeignDir
      BY Zenon, <2>3, <3>1, Conduct, Names DEF Claimed
    <3>3. \A a : ArtifactEntry(c, a).inode[1] = "artifact"
      BY Zenon DEF ArtifactEntry
    <3>4. ASSUME NEW d \in Dirs, NEW e \in entries[d], e.inode[1] = "foreign"
          PROVE  e \in entries'[d]
      <4>1. e.name # SentinelName(c)
        BY Zenon, <3>1, <3>4 DEF Files, Genuine
      <4> QED BY Zenon, <2>3, <3>1, <3>3, <3>4, <4>1, Writing
    <3> QED BY Zenon, <3>2, <3>4
  <2> QED BY Zenon, <1>1, <2>1, <2>2, <2>3 DEF Next
<1>2. CheckedInv /\ [Next]_vars =>
        [meddles' = meddles =>
          /\ path = ForeignDir => path' = ForeignDir
          /\ \A d \in Dirs : {e \in entries[d] : e.inode[1] = "foreign"} \subseteq entries'[d]]_vars
  BY Zenon, <1>1
<1> QED BY <1>2, CheckedInvariant, PTL DEF Spec, SparesOutsider

\* As many entries as artifacts and one more, each artifact's name and the sentinel's among
\* them, leave no other name.
LEMMA ExactNames ==
    ASSUME NEW files, IsFiniteSet(files), Cardinality(files) = Len(Artifacts) + 1, NEW b \in Builders,
           \E e \in files : e.name = SentinelName(b),
           \A a \in ArtifactNames : \E e \in files : e.name = <<a>>
    PROVE  {e.name : e \in files} = {<<a>> : a \in ArtifactNames} \cup {SentinelName(b)}
<1> DEFINE names == {e.name : e \in files}
           due == {<<a>> : a \in ArtifactNames}
           n == Len(Artifacts)
<1>1. n \in Nat /\ \A i, j \in 1..n : Artifacts[i] = Artifacts[j] => i = j
  BY Zenon, ReservedOutputAssumption, LenProperties
<1>2. IsFiniteSet(due) /\ Cardinality(due) = n
  <2> DEFINE f == [i \in 1..n |-> <<Artifacts[i]>>]
  <2>1. \A i, j \in 1..n : f[i] = f[j] => i = j
    BY Zenon, <1>1
  <2>2. \A i \in 1..n : f[i] \in due
    BY Zenon DEF ArtifactNames
  <2>3. \A x \in due : \E i \in 1..n : f[i] = x
    BY Zenon DEF ArtifactNames
  <2>4. f \in Bijection(1..n, due)
    BY Zenon, <2>1, <2>2, <2>3 DEF Bijection, Injection, Surjection, IsInjective
  <2>5. IsFiniteSet(1..n) /\ Cardinality(1..n) = n
    BY <1>1, FS_Interval
  <2> QED BY <2>4, <2>5, FS_Bijection DEF ExistsBijection
<1>3. SentinelName(b) \notin due
  BY Zenon, Names
<1>4. IsFiniteSet(due \cup {SentinelName(b)}) /\ Cardinality(due \cup {SentinelName(b)}) = n + 1
  BY Zenon, <1>1, <1>2, <1>3, FS_AddElement
<1>5. IsFiniteSet(names) /\ Cardinality(names) =< n + 1
  <2> DEFINE g == [e \in files |-> e.name]
  <2>1. g \in Surjection(files, names)
    BY Zenon DEF Surjection
  <2> QED BY <2>1, FS_Surjection
<1>6. due \cup {SentinelName(b)} \subseteq names
  OBVIOUS
<1> HIDE DEF names, due, n
<1>7. Cardinality(due \cup {SentinelName(b)}) =< Cardinality(names) /\ Cardinality(names) \in Nat
  BY Zenon, <1>5, <1>6, FS_Subset, FS_CardinalityType
<1>8. Cardinality(names) = Cardinality(due \cup {SentinelName(b)})
  BY <1>1, <1>4, <1>5, <1>7
<1>9. names = due \cup {SentinelName(b)}
  BY Zenon, <1>5, <1>6, <1>8, FS_Subset
<1> QED BY Zenon, <1>9 DEF names, due

\* A run that commits does so in the directory it made and leaves exactly the artifacts'
\* names in it, for any number of runs, any faults and any list of distinct names, when the
\* outsider acts where the script looks again, and either never did or no other run has
\* taken a directory for its reservation.
THEOREM CommitsAreExact ==
    ASSUME OnlyWhereChecked
    PROVE  Spec => CommitPublishesExactSet
<1> DEFINE exact == \A b \in committed' \ committed :
          (meddles = 0 \/ \A other \in Builders \ {b} : reservation_inode[other] = Absent) =>
             /\ path' = DirOf(b)
             /\ {e.name : e \in entries'[path']} = {<<a>> : a \in ArtifactNames}
<1>1. ASSUME CheckedInv, UndisturbedInv, UndisturbedInv', [Next]_vars PROVE exact
  <2> SUFFICES ASSUME NEW b \in committed' \ committed,
                      meddles = 0 \/ Alone(b)
               PROVE  /\ path' = DirOf(b)
                      /\ {e.name : e \in entries'[path']} = {<<a>> : a \in ArtifactNames}
    BY Zenon DEF Alone
  <2>1. b \in Builders /\ Commit(b)
    <3>1. ASSUME NEW c \in Builders, Step(c) \/ Fail(c) \/ Signal(c) \/ SignalCleanup(c) \/ Kill(c)
          PROVE  Commit(c) \/ committed' = committed
      BY Zenon, <3>1 DEF Step, CheckAbsent, Mkdir, IdentifyDir, Activate, Mktemp, WriteToken, IdentifySentinel,
            Gates, Revalidate, Stage, PreValid, PreCount, Collide, Link, Identify, Record, PostValid, PostCount,
            PostFiles, Deactivate, Cleanup, Unlink, RmSentinel, Rmdir, Test, Fail, Signal, SignalCleanup, Kill,
            history
    <3>2. \E c \in Builders : Commit(c)
      BY Zenon, <1>1, <3>1 DEF Next, Meddle, history, vars
    <3> QED BY Zenon, <3>2 DEF Commit
  <2>2. CASE meddles = 0
    <3>1. meddles' = 0
      BY Zenon, <2>1, <2>2 DEF Commit, misfortune
    <3>2. path' = DirOf(b) /\ entries'[DirOf(b)] = Published(b)
      BY Zenon, <1>1, <2>1, <3>1 DEF UndisturbedInv, Undisturbed, Placed, Published
    <3>3. \A a : ArtifactEntry(b, a).name = <<a>>
      BY Zenon DEF ArtifactEntry
    <3> QED BY <3>2, <3>3 DEF Published
  <2>3. CASE Alone(b)
    <3> DEFINE files == entries[DirOf(b)]
    <3>1. /\ Shape /\ IsFiniteSet(files) /\ path = DirOf(b) /\ DirOf(b) \in Dirs
          /\ \E e \in files : e.name = SentinelName(b)
          /\ Cardinality(files) = Len(Artifacts) + 1
          /\ \A a \in ArtifactNames : \E e \in files : e.name = <<a>>
      BY Zenon, <1>1, <2>1, <2>3, Names DEF CheckedInv, Files, Counted, Commit
    <3>2. {e.name : e \in files} = {<<a>> : a \in ArtifactNames} \cup {SentinelName(b)}
      BY Zenon, <2>1, <3>1, ExactNames
    <3>3. path' = DirOf(b) /\ entries'[DirOf(b)] = {e \in files : e.name # SentinelName(b)}
      BY Zenon, <2>1, <3>1, Names DEF Commit, Named, Here
    <3>4. \A a : <<a>> # SentinelName(b)
      BY Zenon, <2>1, Names
    <3> HIDE DEF files
    <3> QED BY <3>2, <3>3, <3>4
  <2> QED BY Zenon, <2>2, <2>3
<1>2. CheckedInv /\ UndisturbedInv /\ UndisturbedInv' /\ [Next]_vars => [exact]_vars
  BY Zenon, <1>1
<1> QED BY <1>2, CheckedInvariant, UndisturbedInvariant, PTL DEF Spec, CommitPublishesExactSet

=============================================================================
