----------------------------- MODULE Collector -----------------------------
(***************************************************************************)
(* How the agent turns a growing, rotating audit log into events:          *)
(* spool.collect (agent/spool.go) and the grouping rules of eventsFor      *)
(* (agent/parser.go), next to an auditd that writes, rotates and truncates *)
(* the log and a host that reboots.                                        *)
(*                                                                         *)
(* A file is a sequence of records and an offset counts records.  A record *)
(* is <<g, i>>, part i of audit group g (the records that share one        *)
(* "audit(time:serial)" id).  The last part of a group of EndMarked is its *)
(* EOE record; an event comes out of a group when the other parts are seen *)
(* together, as SYSCALL and EXECVE must be.                                *)
(***************************************************************************)
EXTENDS Naturals, Sequences, FiniteSets, FiniteSetsExt

CONSTANTS
    Group,          \* audit ids
    Parts,          \* [Group -> Nat \ {0}], records of each group
    EndMarked,      \* groups closed by an EOE record
    Inode,          \* inode numbers of the log's file system, not 0
    Chunk,          \* records one collect reads (10000 lines or 4 MiB)
    Keep,           \* files logrotate keeps, the current one included
    Faults,         \* what the log's writer may do beyond the ordinary
    \* Bounds on what is unbounded in the program.
    MaxRotate,      \* rotations
    MaxTruncate,    \* copytruncate rotations
    MaxBoot,        \* boots
    MaxGap          \* no more rotations or truncations at this count

FaultKinds ==
    {"overrun",     \* two rotations while the collector is behind
     "regrow",      \* a truncated file grows past the checkpoint unseen
     "split",       \* rotation in the middle of a group
     "reuse",       \* a new log gets the inode of the one being read
     "race",        \* the log changes between stat and open
     "interleave",  \* records of two groups interleaved in the log
     "slow"}        \* records of a group more than 3 seconds apart

ASSUME CollectorAssumption ==
    /\ IsFiniteSet(Group) /\ IsFiniteSet(Inode)
    /\ Parts \in [Group -> Nat \ {0}]
    /\ EndMarked \subseteq Group
    /\ \A g \in EndMarked : Parts[g] > 1
    /\ Inode \subseteq Nat \ {0}
    /\ Chunk \in Nat \ {0} /\ Keep \in Nat \ {0}
    /\ Faults \subseteq FaultKinds
    /\ MaxRotate \in Nat /\ MaxTruncate \in Nat /\ MaxBoot \in Nat \ {0}
    /\ MaxGap \in Nat

VARIABLES
    \* the host
    files,          \* the log files, oldest first; the last is audit.log
    written,        \* parts of each group written so far
    aged,           \* groups whose time is more than 3 seconds ago
    boot,           \* boot id
    rotations, truncations,
    \* the agent
    cp,             \* the saved checkpoint
    look,           \* what collect has decided before it opens a file
    emitted,        \* groups whose event was handed to commit
    \* history
    watched,        \* groups begun while the agent had a checkpoint
    excused         \* groups begun before a gap that was counted

host == <<files, written, aged, boot, rotations, truncations>>
vars == <<host, cp, look, emitted, watched, excused>>

-----------------------------------------------------------------------------
(* Types *)

Record     == Group \X Nat
File       == [inode : Inode, recs : Seq(Record)]
Checkpoint == [inode : Inode \cup {0}, offset : Nat, boot : Nat, dropped : Nat]
\* path is the number of rotations ago: 0 is audit.log, 1 is audit.log.1 ...
Look       == [cp : Checkpoint, path : Nat, current : Inode]
NoLook     == <<>>

TypeOK ==
    /\ files \in Seq(File)
    /\ Len(files) \in 1..Keep
    /\ written \in [Group -> Nat]
    /\ \A g \in Group : written[g] <= Parts[g]
    /\ aged \subseteq Group
    /\ boot \in 1..MaxBoot
    /\ rotations \in 0..MaxRotate
    /\ truncations \in 0..MaxTruncate
    /\ cp \in Checkpoint
    /\ look = NoLook \/ look \in Look
    /\ emitted \subseteq Group
    /\ watched \subseteq Group
    /\ excused \subseteq Group

Init ==
    /\ \E i \in Inode : files = <<[inode |-> i, recs |-> <<>>]>>
    /\ written = [g \in Group |-> 0]
    /\ aged = {}
    /\ boot = 1
    /\ rotations = 0
    /\ truncations = 0
    /\ cp = [inode |-> 0, offset |-> 0, boot |-> 0, dropped |-> 0]
    /\ look = NoLook
    /\ emitted = {}
    /\ watched = {}
    /\ excused = {}

-----------------------------------------------------------------------------
(* The log's writer *)

Current  == files[Len(files)]
Begun    == {g \in Group : written[g] > 0}
Open     == {g \in Begun : written[g] < Parts[g]}
Allowed(fault) == fault \in Faults

\* The collector reads the file behind the current one.
Behind == cp.inode # 0 /\ cp.inode # Current.inode

\* "race" is the only way the log changes under a collect that is under way.
Quiet == look = NoLook \/ Allowed("race")

\* The file was cut below the checkpoint and the collector has not looked yet.
CutUnseen == Current.inode = cp.inode /\ Len(Current.recs) < cp.offset

Write(g) ==
    /\ Quiet
    /\ written[g] < Parts[g]
    /\ Open \subseteq {g} \/ Allowed("interleave")
    /\ written' = [written EXCEPT ![g] = @ + 1]
    /\ files' = [files EXCEPT ![Len(files)].recs =
                   Append(@, <<g, written[g] + 1>>)]
    /\ CutUnseen /\ Len(Current.recs) + 1 = cp.offset => Allowed("regrow")
    /\ watched' = IF written[g] = 0 /\ cp.boot = boot
                  THEN watched \cup {g} ELSE watched
    /\ UNCHANGED <<aged, boot, rotations, truncations, cp, look, emitted,
                   excused>>

Age(g) ==
    /\ g \in Begun \ aged
    /\ written[g] = Parts[g] \/ Allowed("slow")
    /\ aged' = aged \cup {g}
    /\ UNCHANGED <<files, written, boot, rotations, truncations, cp, look,
                   emitted, watched, excused>>

\* Rotation by renaming: audit.log becomes audit.log.1 and so on, the oldest
\* file goes away, and a new empty audit.log appears.
Rotate ==
    /\ Quiet
    /\ rotations < MaxRotate
    /\ cp.dropped < MaxGap
    /\ Behind => Allowed("overrun")
    /\ Open # {} => Allowed("split")
    /\ LET old == IF Len(files) = Keep THEN Tail(files) ELSE files IN
       \E i \in Inode \ {old[k].inode : k \in DOMAIN old} :
         /\ i = cp.inode => Allowed("reuse")
         /\ files' = Append(old, [inode |-> i, recs |-> <<>>])
    /\ rotations' = rotations + 1
    /\ UNCHANGED <<written, aged, boot, truncations, cp, look, emitted,
                   watched, excused>>

\* Rotation by copying and truncating in place.
Truncate ==
    /\ Quiet
    /\ truncations < MaxTruncate
    /\ cp.dropped < MaxGap
    /\ Len(Current.recs) > 0
    /\ Behind \/ cp.offset = 0 => Allowed("regrow")
    /\ Open # {} => Allowed("split")
    /\ files' = [files EXCEPT ![Len(files)].recs = <<>>]
    /\ truncations' = truncations + 1
    /\ UNCHANGED <<written, aged, boot, rotations, cp, look, emitted,
                   watched, excused>>

\* The host reboots: the agent restarts, half-written groups stay as they are.
Reboot ==
    /\ boot < MaxBoot
    /\ boot' = boot + 1
    /\ look' = NoLook
    /\ UNCHANGED <<files, written, aged, rotations, truncations, cp, emitted,
                   watched, excused>>

\* The agent stops in the middle of a collect and starts again.
Restart ==
    /\ look # NoLook
    /\ look' = NoLook
    /\ UNCHANGED <<host, cp, emitted, watched, excused>>

-----------------------------------------------------------------------------
(* collect *)

\* A counted gap excuses what was begun before it.
Excuse(old, new) ==
    excused' = IF new.dropped > old.dropped THEN excused \cup Begun ELSE excused

\* A new host or a new boot starts at the end of the current file.  The
\* checkpoint is committed at once, before anything is read.
AtEnd ==
    [inode |-> Current.inode, offset |-> Len(Current.recs), boot |-> boot,
     dropped |-> IF cp.boot # 0 /\ cp.boot # boot
                 THEN cp.dropped + 1 ELSE cp.dropped]

Started == IF cp.inode = 0 \/ cp.boot # boot THEN AtEnd ELSE cp

\* Stat the path, and look for the checkpoint's inode among the rotated files.
Stat ==
    /\ look = NoLook
    /\ cp' = Started
    /\ Excuse(cp, Started)
    /\ LET found == {k \in 0..(Len(files) - 1) :
                       files[Len(files) - k].inode = Started.inode}
           lost  == [Started EXCEPT !.dropped = @ + 1, !.offset = 0,
                                    !.inode = Current.inode]
       IN look' = IF found = {}
                  THEN [cp |-> lost, path |-> 0, current |-> Current.inode]
                  ELSE [cp |-> Started, path |-> Min(found),
                        current |-> Current.inode]
    /\ UNCHANGED <<host, emitted, watched>>

\* What one pass over the opened file yields.
Lines(recs, from) == SubSeq(recs, from + 1, Min({Len(recs), from + Chunk}))

Groups(lines)   == {lines[k][1] : k \in DOMAIN lines}
\* Records of the chunk before the first record of g.
Before(lines, g) == Min({k \in DOMAIN lines : lines[k][1] = g}) - 1
Ended(lines, g) ==
    g \in EndMarked /\ \E k \in DOMAIN lines : lines[k] = <<g, Parts[g]>>
Pending(lines)  == {g \in Groups(lines) : ~Ended(lines, g)}

\* The group whose first record comes last.
LastGroup(lines, g) ==
    \A h \in Groups(lines) : Before(lines, h) <= Before(lines, g)

\* Mutant of Safe: nothing is held back for the next tick.
SafeWithoutReplay(lines, more) == Len(lines)

\* Mutant of Safe: the last open group is held back at the end of the file too.
SafeNeverLast(lines, more) ==
    LET held == {g \in Pending(lines) : g \notin aged \/ LastGroup(lines, g)}
    IN Min({Len(lines)} \cup {Before(lines, g) : g \in held})

\* Reading resumes at the first group that may still grow: one that is not
\* ended and is younger than 3 seconds, or, when the file goes on after the
\* chunk, the last one.
Safe(lines, more) ==
    LET held == {g \in Pending(lines) :
                   g \notin aged \/ (more /\ LastGroup(lines, g))}
    IN Min({Len(lines)} \cup {Before(lines, g) : g \in held})

\* The parts eventsFor needs; the EOE record carries nothing.
Needed(g) == 1..(IF g \in EndMarked THEN Parts[g] - 1 ELSE Parts[g])

Yield(lines, safe) ==
    {g \in Groups(lines) :
       /\ Before(lines, g) < safe
       /\ \A i \in Needed(g) : \E k \in DOMAIN lines : lines[k] = <<g, i>>}

\* Mutant of Counted: a cut file is read again without counting it.
CountedNever(n, cut) == n

\* The counter after a pass over a file that was cut below the checkpoint.
Counted(n, cut) == IF cut THEN n + 1 ELSE n

\* Open the chosen path, read a chunk and commit the checkpoint together with
\* the events.
Read ==
    /\ look # NoLook
    /\ look.path < Len(files)
    /\ LET file  == files[Len(files) - look.path]
           size  == Len(file.recs)
           cut   == size < look.cp.offset
           from  == IF cut THEN 0 ELSE look.cp.offset
           lines == Lines(file.recs, from)
           safe  == Safe(lines, from + Len(lines) < size)
           moved == [look.cp EXCEPT
                       !.offset = from + safe,
                       !.dropped = Counted(@, cut)]
       IN /\ cp' = IF look.path # 0 /\ from + safe >= size
                   THEN [moved EXCEPT !.inode = look.current, !.offset = 0]
                   ELSE moved
          /\ emitted' = emitted \cup Yield(lines, safe)
          /\ Excuse(cp, moved)
    /\ look' = NoLook
    /\ UNCHANGED <<host, watched>>

\* stat, open, read or commit fails: the tick ends, the checkpoint stays.  (A line
\* of more than 1 MiB fails at every tick; auditd writes none.)
CollectFails ==
    /\ look # NoLook
    /\ look' = NoLook
    /\ UNCHANGED <<host, cp, emitted, watched, excused>>

Next ==
    \/ \E g \in Group : Write(g) \/ Age(g)
    \/ Rotate \/ Truncate \/ Reboot \/ Restart
    \/ Stat \/ Read \/ CollectFails

Spec == Init /\ [][Next]_vars

\* The agent ticks every second, groups grow old, and what the writer begins
\* it finishes; reads fail only now and then.
Fairness ==
    /\ WF_vars(Stat)
    /\ SF_vars(Read)
    /\ \A g \in Group : WF_vars(Age(g)) /\ SF_vars(g \in Open /\ Write(g))

FairSpec == Spec /\ Fairness

-----------------------------------------------------------------------------
(* Properties *)

\* What the saved checkpoint still leads to: the rest of its file and, once
\* that one is done, all of the current file.
Unread(k) ==
    IF files[k].inode = cp.inode THEN {i \in DOMAIN files[k].recs : i > cp.offset}
    ELSE IF k = Len(files) THEN DOMAIN files[k].recs
    ELSE {}

Ahead(g) ==
    \E k \in DOMAIN files :
      \A i \in Needed(g) : \E j \in Unread(k) : files[k].recs[j] = <<g, i>>

Complete(g) == \A i \in Needed(g) : written[g] >= i

\* The next collect will count a gap: after a reboot, when the checkpoint's
\* file is gone, or when it is shorter than the saved offset.
GapDue ==
    \/ cp.boot # boot
    \/ \A k \in DOMAIN files : files[k].inode # cp.inode
    \/ \E k \in DOMAIN files : /\ files[k].inode = cp.inode
                               /\ Len(files[k].recs) < cp.offset

\* No silent gap: an audit group completed while the agent was watching has
\* been emitted, can still be read from the checkpoint on, or was begun before
\* a gap the counter shows or the next collect will count (rotation,
\* truncation and reboot included).
NoSilentGap ==
    \A g \in watched :
      Complete(g) => g \in emitted \/ g \in excused \/ Ahead(g) \/ GapDue

\* Every watched group that is completed is emitted in the end, unless a
\* counted gap swallowed it: reading never stalls.
CatchesUp ==
    \A g \in Group :
      (g \in watched /\ Complete(g)) ~> (g \in emitted \/ g \in excused)

\* The position only moves back, within one file and one boot, together with
\* a counted gap.
NoUncountedRewind ==
    [][cp'.inode = cp.inode /\ cp'.boot = cp.boot /\ cp'.offset < cp.offset
         => cp'.dropped > cp.dropped]_vars
=============================================================================
