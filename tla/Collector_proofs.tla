-------------------------- MODULE Collector_proofs --------------------------
(***************************************************************************)
(* Theorems about Collector.  That the position only moves back together   *)
(* with a counted gap holds for every set of faults of the log's writer.   *)
(* That no gap is silent holds of a writer without the faults, for every   *)
(* number of groups, records, files and records of a chunk; its inductive  *)
(* invariant says that everything written of a group still owed lies ahead *)
(* of the checkpoint, in one file and in one piece.                        *)
(***************************************************************************)
EXTENDS Collector, TLAPS, SequenceTheorems, WellFoundedInduction

\* What collect decided before it opened the file starts from the saved
\* checkpoint or counts a gap, and a rotated file is another than the current.
LookFits ==
    look # NoLook =>
      /\ look.cp.boot = cp.boot
      /\ look.cp.inode # 0
      /\ look.cp = cp \/ look.cp.dropped = cp.dropped + 1
      /\ look.path # 0 => look.cp = cp /\ look.current # cp.inode

\* With no race, the log is still as collect found it.
LookIsFresh ==
    look # NoLook =>
      /\ cp.boot = boot
      /\ look.current = Current.inode
      /\ look.cp = cp => /\ look.path < Len(files)
                         /\ files[Len(files) - look.path].inode = cp.inode

InodesUnique ==
    \A k, l \in DOMAIN files : files[k].inode = files[l].inode => k = l

\* Before the first checkpoint nothing is watched; none is from a later boot.
CheckpointIsReal ==
    /\ cp.boot <= boot
    /\ cp.inode = 0 <=> cp.boot = 0
    /\ cp.boot = 0 => watched = {} /\ cp.offset = 0

GroupsAreReal ==
    /\ \A g \in watched : written[g] > 0
    /\ \A g \in aged : written[g] = Parts[g]

\* A record is one that was written, and the records of a group are in one
\* file, one after the other.
Layout ==
    /\ \A k \in DOMAIN files : \A i \in DOMAIN files[k].recs :
         files[k].recs[i][2] \in 1..written[files[k].recs[i][1]]
    /\ \A k, l \in DOMAIN files :
         \A i \in DOMAIN files[k].recs, j \in DOMAIN files[l].recs :
           files[k].recs[i][1] = files[l].recs[j][1] =>
             /\ k = l
             /\ i + files[l].recs[j][2] = j + files[k].recs[i][2]

\* A group that is not complete is the last of the current file.
OpenIsLast ==
    \A g \in Open : /\ Len(Current.recs) > 0
                    /\ Current.recs[Len(Current.recs)] = <<g, written[g]>>

\* Everything written of g lies ahead of the checkpoint.
AllAhead(g) ==
    \E k \in DOMAIN files :
      \A i \in 1..written[g] : \E j \in Unread(k) : files[k].recs[j] = <<g, i>>

Accounted ==
    \A g \in watched : g \in emitted \/ g \in excused \/ AllAhead(g) \/ GapDue

\* What holds of a writer without faults.
Log ==
    /\ LookIsFresh /\ InodesUnique /\ CheckpointIsReal /\ GroupsAreReal
    /\ Layout /\ OpenIsLast /\ Accounted

-----------------------------------------------------------------------------
(* Lemmas about the operators of a pass. *)

\* A set of positions has a least one.
LEMMA LeastIn ==
    ASSUME NEW S, S \subseteq Nat, S # {}
    PROVE  Min(S) \in S /\ \A y \in S : Min(S) <= y
<1>1. PICK x \in S : \A y \in S : ~(<<y, x>> \in OpToRel(<, Nat))
  BY NatLessThanWellFounded, WFMin
<1>2. \A y \in S : ~(y < x)
  BY <1>1 DEF OpToRel
<1>3. \A y \in S : x <= y
  BY <1>2
<1> QED
  BY <1>3 DEF Min

\* A pass reads at most Chunk records, in their order, from the offset on.
LEMMA LinesAre ==
    ASSUME NEW recs \in Seq(Record), NEW from \in Nat
    PROVE  /\ Lines(recs, from) \in Seq(Record)
           /\ Len(Lines(recs, from)) \in Nat
           /\ from <= Len(recs) => from + Len(Lines(recs, from)) <= Len(recs)
           /\ \A k \in 1..Len(Lines(recs, from)) :
                from + k \in 1..Len(recs) /\ Lines(recs, from)[k] = recs[from + k]
<1> DEFINE S == {Len(recs), from + Chunk}
           m == Min(S)
           p == SubSeq(recs, from + 1, m)
<1>1. /\ Len(recs) \in Nat /\ Chunk \in Nat \ {0}
      /\ \A i \in 1..Len(recs) : recs[i] \in Record
  BY LenProperties, ElementOfSeq, CollectorAssumption
<1>2. S \subseteq Nat /\ S # {}
  BY <1>1
<1>3. m \in S /\ \A y \in S : m <= y
  <2> HIDE DEF S
  <2> QED
    BY <1>2, LeastIn
<1>4. m \in Nat /\ m <= Len(recs) /\ (from <= Len(recs) => from <= m)
  BY <1>1, <1>3
<1> HIDE DEF m, S
<1>5. \A i \in (from + 1)..m : recs[i] \in Record
  BY <1>1, <1>4
<1>6. /\ p \in Seq(Record)
      /\ Len(p) = IF from + 1 <= m THEN m - (from + 1) + 1 ELSE 0
      /\ \A i \in 1..(m - (from + 1) + 1) : p[i] = recs[from + 1 + i - 1]
  BY <1>4, <1>5, SubSeqProperties, from + 1 \in Int, m \in Int
<1>7. Lines(recs, from) = p
  BY DEF Lines, p, m, S
<1> HIDE DEF p
<1>8. Len(p) \in Nat /\ (from <= Len(recs) => from + Len(p) <= Len(recs))
  BY <1>1, <1>4, <1>6
<1>9. ASSUME NEW k \in 1..Len(p)
      PROVE  from + k \in 1..Len(recs) /\ p[k] = recs[from + k]
  <2>1. /\ k \in 1..(m - (from + 1) + 1) /\ from + 1 + k - 1 = from + k
        /\ from + k \in 1..Len(recs)
    BY <1>1, <1>4, <1>6
  <2> QED
    BY <1>6, <2>1
<1> QED
  BY <1>6, <1>7, <1>8, <1>9

\* Before counts the records in front of the first one of the group.
LEMMA BeforeIs ==
    ASSUME NEW lines \in Seq(Record), NEW g \in Groups(lines)
    PROVE  /\ Before(lines, g) \in Nat
           /\ Before(lines, g) + 1 \in 1..Len(lines)
           /\ lines[Before(lines, g) + 1][1] = g
           /\ \A k \in 1..Len(lines) : lines[k][1] = g => Before(lines, g) < k
<1>1. Len(lines) \in Nat /\ DOMAIN lines = 1..Len(lines)
  BY LenProperties
<1> DEFINE S == {k \in DOMAIN lines : lines[k][1] = g}
<1>2. S \subseteq Nat /\ S # {}
  BY <1>1 DEF Groups
<1>3. Min(S) \in S /\ \A y \in S : Min(S) <= y
  <2> HIDE DEF S
  <2> QED
    BY <1>2, LeastIn
<1>4. Before(lines, g) = Min(S) - 1
  BY DEF Before
<1>5. Min(S) \in 1..Len(lines) /\ lines[Min(S)][1] = g
      /\ \A k \in 1..Len(lines) : lines[k][1] = g => Min(S) <= k
  BY <1>1, <1>3
<1> DEFINE m == Min(S)
<1>6. m \in 1..Len(lines) /\ lines[m][1] = g
      /\ \A k \in 1..Len(lines) : lines[k][1] = g => m <= k
  BY <1>5
<1>7. Before(lines, g) = m - 1
  BY <1>4
<1> HIDE DEF m
<1>8. Before(lines, g) \in Nat /\ Before(lines, g) + 1 = m
  BY <1>1, <1>6, <1>7
<1> QED
  BY <1>1, <1>6, <1>8

\* Reading resumes within the chunk and before every group held back.
LEMMA SafeIs ==
    ASSUME NEW lines \in Seq(Record), NEW more \in BOOLEAN
    PROVE  /\ Safe(lines, more) \in Nat
           /\ Safe(lines, more) <= Len(lines)
           /\ \A g \in Pending(lines) :
                g \notin aged \/ (more /\ LastGroup(lines, g)) =>
                  Safe(lines, more) <= Before(lines, g)
<1> DEFINE held == {g \in Pending(lines) : g \notin aged \/ (more /\ LastGroup(lines, g))}
           S == {Len(lines)} \cup {Before(lines, g) : g \in held}
<1>1. Len(lines) \in Nat
  BY LenProperties
<1>2. \A g \in held : Before(lines, g) \in Nat
  BY BeforeIs DEF Pending
<1>3. S \subseteq Nat /\ S # {}
  BY <1>1, <1>2
<1>4. Safe(lines, more) = Min(S)
  BY DEF Safe
<1>5. Min(S) \in S /\ \A y \in S : Min(S) <= y
  <2> HIDE DEF S
  <2> QED
    BY <1>3, LeastIn
<1>6. Min(S) \in Nat /\ Min(S) <= Len(lines)
  <2>1. Len(lines) \in S
    OBVIOUS
  <2> HIDE DEF S
  <2> QED
    BY <1>3, <1>5, <2>1
<1>7. \A g \in held : Min(S) <= Before(lines, g)
  <2>1. \A g \in held : Before(lines, g) \in S
    OBVIOUS
  <2> HIDE DEF S
  <2> QED
    BY <1>5, <2>1
<1> HIDE DEF S
<1> QED
  BY <1>4, <1>6, <1>7

-----------------------------------------------------------------------------
(* Type correctness. *)

LEMMA InitType == Init => TypeOK
<1> SUFFICES ASSUME Init PROVE TypeOK
  OBVIOUS
<1>1. PICK i \in Inode : files = <<[inode |-> i, recs |-> <<>>]>>
  BY DEF Init
<1>2. [inode |-> i, recs |-> <<>>] \in File
  BY EmptySeq DEF File
<1>3. files \in Seq(File) /\ Len(files) = 1
  BY <1>1, <1>2
<1>4. cp \in Checkpoint
  BY DEF Init, Checkpoint
<1> QED
  BY <1>3, <1>4, CollectorAssumption DEF Init, TypeOK

\* The current file is one of the files.
LEMMA CurrentIs ==
    ASSUME TypeOK
    PROVE  /\ Len(files) \in 1..Keep /\ Len(files) \in Nat /\ DOMAIN files = 1..Len(files)
           /\ \A k \in 1..Len(files) :
                /\ files[k] \in File /\ files[k].recs \in Seq(Record)
                /\ files[k].inode \in Inode /\ files[k].inode # 0
           /\ Current = files[Len(files)]
           /\ Current \in File /\ Current.recs \in Seq(Record) /\ Len(Current.recs) \in Nat
           /\ Current.inode \in Inode /\ Current.inode # 0
<1>1. Len(files) \in 1..Keep /\ Len(files) \in Nat /\ DOMAIN files = 1..Len(files)
  BY LenProperties, CollectorAssumption DEF TypeOK
<1>2. \A k \in 1..Len(files) : files[k] \in File
  BY <1>1, ElementOfSeq DEF TypeOK
<1>3. \A x \in File : /\ x.recs \in Seq(Record) /\ Len(x.recs) \in Nat
                      /\ x.inode \in Inode /\ x.inode # 0
  BY LenProperties, CollectorAssumption DEF File
<1>4. Len(files) \in 1..Len(files)
  BY <1>1
<1> QED
  BY <1>1, <1>2, <1>3, <1>4 DEF Current

\* New contents of the current file leave the others and its inode alone.
LEMMA CurrentReplaced ==
    ASSUME TypeOK, NEW q \in Seq(Record),
           files' = [files EXCEPT ![Len(files)].recs = q]
    PROVE  /\ files' \in Seq(File) /\ Len(files') = Len(files)
           /\ files'[Len(files)].recs = q
           /\ \A k \in 1..Len(files) :
                /\ files'[k].inode = files[k].inode
                /\ k # Len(files) => files'[k] = files[k]
<1> DEFINE n == Len(files)
           v == [files[n] EXCEPT !.recs = q]
<1>1. n \in Nat /\ n \in 1..n /\ files \in Seq(File) /\ files[n] \in File
  BY CurrentIs DEF TypeOK
<1>2. v \in File /\ v.recs = q /\ v.inode = files[n].inode
  BY <1>1 DEF File
<1>3. files' = [files EXCEPT ![n] = v]
  OBVIOUS
<1> HIDE DEF v
<1>4. /\ files' \in Seq(File) /\ Len(files') = n
      /\ \A k \in 1..n : files'[k] = IF k = n THEN v ELSE files[k]
  <2> DEFINE new == [files EXCEPT ![n] = v]
  <2>1. /\ new \in Seq(File) /\ Len(new) = n
        /\ \A k \in 1..n : new[k] = IF k = n THEN v ELSE files[k]
    BY <1>1, <1>2, ExceptSeq
  <2>2. files' = new
    BY <1>3
  <2> HIDE DEF new
  <2> QED
    BY <2>1, <2>2
<1> QED
  BY <1>1, <1>2, <1>4

\* Rotation: every file that stays keeps its contents and its order.
LEMMA FilesShifted ==
    ASSUME TypeOK, NEW i \in Inode, NEW o \in {0, 1},
           o = (IF Len(files) = Keep THEN 1 ELSE 0),
           files' = Append(IF Len(files) = Keep THEN Tail(files) ELSE files,
                           [inode |-> i, recs |-> <<>>])
    PROVE  /\ files' \in Seq(File) /\ Len(files') = Len(files) - o + 1
           /\ Len(files') \in 1..Keep
           /\ files'[Len(files')] = [inode |-> i, recs |-> <<>>]
           /\ \A k \in 1..(Len(files') - 1) :
                k + o \in 1..Len(files) /\ files'[k] = files[k + o]
<1> DEFINE n == Len(files)
           rest == IF n = Keep THEN Tail(files) ELSE files
           new == [inode |-> i, recs |-> <<>>]
<1>1. n \in Nat /\ n \in 1..Keep /\ files \in Seq(File) /\ Keep \in Nat
  BY CurrentIs, CollectorAssumption DEF TypeOK
<1>2. new \in File
  BY EmptySeq DEF File
<1>3. /\ rest \in Seq(File) /\ Len(rest) = n - o
      /\ \A k \in 1..(n - o) : rest[k] = files[k + o]
  <2>1. CASE n = Keep
    <3>1. files # <<>>
      BY <1>1
    <3> QED
      BY <1>1, <2>1, <3>1, HeadTailProperties
  <2>2. CASE n # Keep
    BY <1>1, <2>2
  <2> QED
    BY <2>1, <2>2
<1> HIDE DEF rest
<1>4. files' = Append(rest, new)
  BY DEF rest
<1> HIDE DEF new
<1>5. /\ files' \in Seq(File) /\ Len(files') = Len(rest) + 1
      /\ \A k \in 1..Len(rest) : files'[k] = rest[k]
      /\ files'[Len(rest) + 1] = new
  <2> DEFINE all == Append(rest, new)
  <2>1. /\ all \in Seq(File) /\ Len(all) = Len(rest) + 1
        /\ \A k \in 1..Len(rest) : all[k] = rest[k]
        /\ all[Len(rest) + 1] = new
    BY <1>2, <1>3, AppendProperties
  <2>2. files' = all
    BY <1>4
  <2> HIDE DEF all
  <2> QED
    BY <2>1, <2>2
<1>6. Len(files') = n - o + 1 /\ Len(files') \in 1..Keep /\ Len(files') - 1 = n - o
  BY <1>1, <1>3, <1>5
<1>7. \A k \in 1..(n - o) : k + o \in 1..n
  BY <1>1
<1>8. files'[Len(files')] = new
  BY <1>3, <1>5, <1>6
<1>9. \A k \in 1..(n - o) : files'[k] = files[k + o]
  BY <1>3, <1>5
<1> QED
  BY <1>5, <1>6, <1>7, <1>8, <1>9 DEF new

\* The log keeps its type.
LEMMA FilesType ==
    ASSUME TypeOK, Next
    PROVE  files' \in Seq(File) /\ Len(files') \in 1..Keep
<1> USE DEF host
<1>0. files \in Seq(File) /\ Len(files) \in 1..Keep
  BY DEF TypeOK
<1>a. ASSUME UNCHANGED files PROVE files' \in Seq(File) /\ Len(files') \in 1..Keep
  BY <1>a, <1>0
<1>1. ASSUME NEW g \in Group, Write(g) PROVE files' \in Seq(File) /\ Len(files') \in 1..Keep
  <2> DEFINE q == Append(Current.recs, <<g, written[g] + 1>>)
  <2>1. q \in Seq(Record)
    <3>1. <<g, written[g] + 1>> \in Record
      BY DEF TypeOK, Record
    <3> QED
      BY <3>1, CurrentIs, AppendProperties
  <2>2. files' = [files EXCEPT ![Len(files)].recs = q]
    BY <1>1, CurrentIs DEF Write
  <2> HIDE DEF q
  <2> QED
    BY <1>0, <2>1, <2>2, CurrentReplaced
<1>2. ASSUME NEW g \in Group, Age(g) PROVE files' \in Seq(File) /\ Len(files') \in 1..Keep
  BY <1>2, <1>a DEF Age
<1>3. CASE Rotate
  <2>1. PICK i \in Inode :
          files' = Append(IF Len(files) = Keep THEN Tail(files) ELSE files,
                          [inode |-> i, recs |-> <<>>])
    BY <1>3 DEF Rotate
  <2> DEFINE o == IF Len(files) = Keep THEN 1 ELSE 0
  <2> QED
    BY <2>1, FilesShifted, o \in {0, 1}
<1>4. CASE Truncate
  <2>1. <<>> \in Seq(Record) /\ files' = [files EXCEPT ![Len(files)].recs = <<>>]
    BY <1>4, EmptySeq DEF Truncate
  <2> QED
    BY <1>0, <2>1, CurrentReplaced
<1>5. CASE Reboot \/ Restart \/ Stat \/ Read \/ CollectFails
  BY <1>5, <1>a DEF Reboot, Restart, Stat, Read, CollectFails
<1> QED
  BY <1>1, <1>2, <1>3, <1>4, <1>5 DEF Next

-----------------------------------------------------------------------------
(* What the two steps of a collect do. *)

\* A checkpoint changed in some of its fields.
LEMMA CheckpointMoved ==
    ASSUME NEW c \in Checkpoint, NEW o, NEW d
    PROVE  [c EXCEPT !.offset = o, !.dropped = d] =
             [inode |-> c.inode, offset |-> o, boot |-> c.boot, dropped |-> d]
<1> DEFINE a == [c EXCEPT !.offset = o]
<1>1. a = [inode |-> c.inode, offset |-> o, boot |-> c.boot, dropped |-> c.dropped]
  BY DEF Checkpoint
<1>2. [c EXCEPT !.offset = o, !.dropped = d] = [a EXCEPT !.dropped = d]
  OBVIOUS
<1> HIDE DEF a
<1> QED
  BY <1>1, <1>2

LEMMA CheckpointNext ==
    ASSUME NEW c \in Checkpoint, NEW i, NEW o
    PROVE  [c EXCEPT !.inode = i, !.offset = o] =
             [inode |-> i, offset |-> o, boot |-> c.boot, dropped |-> c.dropped]
<1> DEFINE a == [c EXCEPT !.inode = i]
<1>1. a = [inode |-> i, offset |-> c.offset, boot |-> c.boot, dropped |-> c.dropped]
  BY DEF Checkpoint
<1>2. [c EXCEPT !.inode = i, !.offset = o] = [a EXCEPT !.offset = o]
  OBVIOUS
<1> HIDE DEF a
<1> QED
  BY <1>1, <1>2

LEMMA CheckpointLost ==
    ASSUME NEW c \in Checkpoint, NEW i, NEW o, NEW d
    PROVE  [c EXCEPT !.dropped = d, !.offset = o, !.inode = i] =
             [inode |-> i, offset |-> o, boot |-> c.boot, dropped |-> d]
<1> DEFINE a == [c EXCEPT !.dropped = d]
           b == [a EXCEPT !.offset = o]
<1>1. a = [inode |-> c.inode, offset |-> c.offset, boot |-> c.boot, dropped |-> d]
  BY DEF Checkpoint
<1>2. [c EXCEPT !.dropped = d, !.offset = o, !.inode = i] = [b EXCEPT !.inode = i]
  OBVIOUS
<1> HIDE DEF a
<1>3. b = [inode |-> c.inode, offset |-> o, boot |-> c.boot, dropped |-> d]
  BY <1>1
<1> HIDE DEF b
<1> QED
  BY <1>2, <1>3

\* A collect starts from a checkpoint of this boot and of a real file.
LEMMA StartedIs ==
    ASSUME TypeOK
    PROVE  /\ Started \in Checkpoint /\ Started.boot = boot /\ Started.inode # 0
           /\ cp.inode # 0 /\ cp.boot = boot => Started = cp
           /\ cp.boot # 0 /\ cp.boot # boot => Started.dropped = cp.dropped + 1
           /\ cp.inode = 0 \/ cp.boot # boot => Started.inode = Current.inode
           /\ Started.dropped >= cp.dropped
<1>1. /\ cp \in Checkpoint /\ boot \in Nat /\ cp.dropped \in Nat
      /\ Current.inode \in Inode /\ Current.inode # 0 /\ Len(Current.recs) \in Nat
  BY CurrentIs DEF TypeOK, Checkpoint
<1> DEFINE d == IF cp.boot # 0 /\ cp.boot # boot THEN cp.dropped + 1 ELSE cp.dropped
<1>2. /\ AtEnd = [inode |-> Current.inode, offset |-> Len(Current.recs), boot |-> boot,
                  dropped |-> d]
      /\ d \in Nat /\ d >= cp.dropped
      /\ cp.boot # 0 /\ cp.boot # boot => d = cp.dropped + 1
  BY <1>1 DEF AtEnd
<1> HIDE DEF d
<1>3. AtEnd \in Checkpoint
  BY <1>1, <1>2 DEF Checkpoint
<1>4. CASE cp.inode = 0 \/ cp.boot # boot
  BY <1>1, <1>2, <1>3, <1>4 DEF Started
<1>5. CASE ~(cp.inode = 0 \/ cp.boot # boot)
  BY <1>1, <1>5 DEF Started
<1> QED
  BY <1>4, <1>5

\* What collect has decided when it has looked at the files: to go on in the
\* file of the checkpoint, or, with a gap counted, in the current one.
LEMMA StatIs ==
    ASSUME TypeOK, Stat
    PROVE  /\ cp' = Started /\ cp' \in Checkpoint /\ cp'.inode # 0 /\ cp'.boot = boot
           /\ look' \in Look /\ look'.cp.boot = boot /\ look'.cp.inode # 0
           /\ look'.current = Current.inode
           /\ \/ /\ look'.cp = cp' /\ look'.path < Len(files)
                 /\ files[Len(files) - look'.path].inode = cp'.inode
                 /\ look'.path # 0 => Current.inode # cp'.inode
              \/ look'.cp.dropped = cp'.dropped + 1 /\ look'.path = 0
<1>1. /\ Started \in Checkpoint /\ Started.boot = boot /\ Started.inode # 0
      /\ cp' = Started
  BY StartedIs DEF Stat
<1>2. /\ Len(files) \in Nat \ {0} /\ Current = files[Len(files)]
      /\ Current.inode \in Inode /\ Current.inode # 0
  BY CurrentIs
<1> DEFINE found == {k \in 0..(Len(files) - 1) : files[Len(files) - k].inode = Started.inode}
           lost  == [Started EXCEPT !.dropped = @ + 1, !.offset = 0, !.inode = Current.inode]
<1>3. look' = IF found = {} THEN [cp |-> lost, path |-> 0, current |-> Current.inode]
              ELSE [cp |-> Started, path |-> Min(found), current |-> Current.inode]
  BY DEF Stat
<1>4. CASE found = {}
  <2>1. /\ lost \in Checkpoint /\ lost.boot = boot /\ lost.inode = Current.inode
        /\ lost.dropped = Started.dropped + 1
    <3>1. lost = [inode |-> Current.inode, offset |-> 0, boot |-> boot,
                  dropped |-> Started.dropped + 1]
      <4>1. lost = [inode |-> Current.inode, offset |-> 0, boot |-> Started.boot,
                    dropped |-> Started.dropped + 1]
        BY <1>1, CheckpointLost, Zenon
      <4> QED
        BY <1>1, <4>1, Zenon
    <3>2. boot \in Nat /\ Started.dropped + 1 \in Nat
      BY <1>1 DEF Checkpoint
    <3> HIDE DEF lost
    <3> QED
      BY <1>2, <3>1, <3>2 DEF Checkpoint
  <2>2. look' = [cp |-> lost, path |-> 0, current |-> Current.inode]
    BY <1>3, <1>4
  <2> HIDE DEF lost, found
  <2>3. /\ look' \in Look /\ look'.cp = lost /\ look'.path = 0
        /\ look'.current = Current.inode
    BY <1>2, <2>1, <2>2 DEF Look
  <2> QED
    BY <1>1, <1>2, <2>1, <2>3
<1>5. CASE found # {}
  <2>1. found \subseteq Nat
    BY <1>2
  <2> DEFINE m == Min(found)
  <2>2. m \in found /\ \A k \in found : m <= k
    <3> HIDE DEF found
    <3> QED
      BY <1>5, <2>1, LeastIn
  <2>3. look' = [cp |-> Started, path |-> m, current |-> Current.inode]
    BY <1>3, <1>5
  <2> HIDE DEF m
  <2>4. /\ m \in Nat /\ m < Len(files)
        /\ files[Len(files) - m].inode = Started.inode
    BY <1>2, <2>2
  <2>5. m # 0 => Current.inode # Started.inode
    <3>1. ASSUME Current.inode = Started.inode PROVE 0 \in found
      BY <1>2, <3>1
    <3>2. 0 \in found => m = 0
      <4> HIDE DEF found
      <4> QED
        BY <2>2, <2>4
    <3> QED
      BY <3>1, <3>2
  <2> HIDE DEF found, lost
  <2>6. /\ look' \in Look /\ look'.cp = Started /\ look'.path = m
        /\ look'.current = Current.inode
    BY <1>1, <1>2, <2>3, <2>4 DEF Look
  <2> QED
    BY <1>1, <2>4, <2>5, <2>6
<1> QED
  BY <1>4, <1>5

\* The pass of a collect that has looked at the files.
ReadFile  == files[Len(files) - look.path].recs
ReadCut   == Len(ReadFile) < look.cp.offset
ReadFrom  == IF ReadCut THEN 0 ELSE look.cp.offset
ReadLines == Lines(ReadFile, ReadFrom)
ReadMore  == ReadFrom + Len(ReadLines) < Len(ReadFile)
ReadSafe  == Safe(ReadLines, ReadMore)
ReadDone  == look.path # 0 /\ ReadFrom + ReadSafe >= Len(ReadFile)

\* The position goes on by the records that are safe, or to the start of the
\* current file; the counter goes up exactly when the file was cut.
LEMMA ReadIs ==
    ASSUME TypeOK, Read
    PROVE  /\ look \in Look /\ look.cp \in Checkpoint /\ look.path \in 0..(Len(files) - 1)
           /\ ReadFile \in Seq(Record) /\ Len(ReadFile) \in Nat /\ ReadFrom \in Nat
           /\ ReadFrom <= Len(ReadFile)
           /\ ReadLines \in Seq(Record) /\ ReadSafe \in Nat /\ ReadMore \in BOOLEAN
           /\ cp' \in Checkpoint /\ cp'.boot = look.cp.boot
           /\ cp'.dropped = IF ReadCut THEN look.cp.dropped + 1 ELSE look.cp.dropped
           /\ cp'.inode = IF ReadDone THEN look.current ELSE look.cp.inode
           /\ cp'.offset = IF ReadDone THEN 0 ELSE ReadFrom + ReadSafe
           /\ emitted' = emitted \cup Yield(ReadLines, ReadSafe)
           /\ excused' = IF cp'.dropped > cp.dropped THEN excused \cup Begun ELSE excused
<1>1. look \in Look /\ look.path < Len(files)
  BY DEF Read, TypeOK
<1>2. look.cp \in Checkpoint /\ look.path \in Nat /\ look.current \in Inode
  BY <1>1 DEF Look
<1>3. /\ look.cp.offset \in Nat /\ look.cp.dropped \in Nat
      /\ look.cp.inode \in Inode \cup {0} /\ look.cp.boot \in Nat
  BY <1>2 DEF Checkpoint
<1>4. /\ look.path \in 0..(Len(files) - 1)
      /\ Len(files) - look.path \in 1..Len(files)
  BY <1>1, <1>2, CurrentIs
<1>5. ReadFile \in Seq(Record) /\ Len(ReadFile) \in Nat
  BY <1>4, CurrentIs, LenProperties DEF ReadFile
<1>6. ReadFrom \in Nat /\ ReadFrom <= Len(ReadFile)
  BY <1>3, <1>5 DEF ReadFrom, ReadCut
<1>7. ReadLines \in Seq(Record) /\ ReadMore \in BOOLEAN
  BY <1>5, <1>6, LinesAre DEF ReadLines, ReadMore
<1>8. ReadSafe \in Nat
  BY <1>7, SafeIs DEF ReadSafe
<1> DEFINE n == IF ReadCut THEN look.cp.dropped + 1 ELSE look.cp.dropped
           moved == [look.cp EXCEPT !.offset = ReadFrom + ReadSafe, !.dropped = n]
           counted == [look.cp EXCEPT !.offset = ReadFrom + ReadSafe,
                                      !.dropped = Counted(@, ReadCut)]
<1>9. /\ cp' = IF ReadDone THEN [counted EXCEPT !.inode = look.current, !.offset = 0]
                ELSE counted
      /\ emitted' = emitted \cup Yield(ReadLines, ReadSafe)
      /\ excused' = IF counted.dropped > cp.dropped THEN excused \cup Begun ELSE excused
  BY Zenon DEF Read, Excuse, ReadDone, ReadSafe, ReadMore, ReadLines, ReadFrom, ReadCut,
               ReadFile
<1>10. /\ cp' = IF ReadDone THEN [moved EXCEPT !.inode = look.current, !.offset = 0] ELSE moved
       /\ emitted' = emitted \cup Yield(ReadLines, ReadSafe)
       /\ excused' = IF moved.dropped > cp.dropped THEN excused \cup Begun ELSE excused
  <2>1. counted = moved
    BY Zenon DEF Counted
  <2> HIDE DEF counted, moved
  <2> QED
    BY <1>9, <2>1, Zenon
<1>11. n \in Nat
  BY <1>3
<1>12. /\ moved \in Checkpoint /\ moved.boot = look.cp.boot /\ moved.dropped = n
       /\ moved.inode = look.cp.inode /\ moved.offset = ReadFrom + ReadSafe
  <2>1. moved = [inode |-> look.cp.inode, offset |-> ReadFrom + ReadSafe,
                 boot |-> look.cp.boot, dropped |-> n]
    BY <1>2, CheckpointMoved
  <2> HIDE DEF n, moved
  <2> QED
    BY <1>3, <1>6, <1>8, <1>11, <2>1 DEF Checkpoint
<1> HIDE DEF moved
<1>13. /\ cp' \in Checkpoint /\ cp'.boot = look.cp.boot /\ cp'.dropped = n
       /\ cp'.inode = IF ReadDone THEN look.current ELSE look.cp.inode
       /\ cp'.offset = IF ReadDone THEN 0 ELSE ReadFrom + ReadSafe
  <2> HIDE DEF n
  <2>1. CASE ReadDone
    <3>1. cp' = [inode |-> look.current, offset |-> 0, boot |-> moved.boot,
                 dropped |-> moved.dropped]
      BY <1>10, <1>12, <2>1, CheckpointNext
    <3>2. moved.boot \in Nat /\ moved.dropped \in Nat
      BY <1>12 DEF Checkpoint
    <3> QED
      BY <1>2, <1>12, <2>1, <3>1, <3>2 DEF Checkpoint
  <2>2. CASE ~ReadDone
    BY <1>10, <1>12, <2>2
  <2> QED
    BY <2>1, <2>2
<1> QED
  BY <1>1, <1>2, <1>4, <1>5, <1>6, <1>7, <1>8, <1>10, <1>12, <1>13

\* The counters and the progress of the host keep their types.
LEMMA HostType ==
    ASSUME TypeOK, Next
    PROVE  /\ written' \in [Group -> Nat] /\ \A g \in Group : written'[g] <= Parts[g]
           /\ aged' \subseteq Group /\ boot' \in 1..MaxBoot
           /\ rotations' \in 0..MaxRotate /\ truncations' \in 0..MaxTruncate
<1> DEFINE Typed == /\ written' \in [Group -> Nat] /\ \A g \in Group : written'[g] <= Parts[g]
                    /\ aged' \subseteq Group /\ boot' \in 1..MaxBoot
                    /\ rotations' \in 0..MaxRotate /\ truncations' \in 0..MaxTruncate
<1> USE DEF host
<1>0. /\ written \in [Group -> Nat] /\ \A g \in Group : written[g] <= Parts[g]
      /\ aged \subseteq Group /\ boot \in 1..MaxBoot
      /\ rotations \in 0..MaxRotate /\ truncations \in 0..MaxTruncate
      /\ Parts \in [Group -> Nat \ {0}] /\ Begun \subseteq Group
      /\ MaxRotate \in Nat /\ MaxTruncate \in Nat /\ MaxBoot \in Nat
  BY CollectorAssumption DEF TypeOK, Begun
<1>1. ASSUME NEW g \in Group, Write(g) PROVE Typed
  <2>1. written' = [written EXCEPT ![g] = @ + 1] /\ written[g] < Parts[g]
    BY <1>1 DEF Write
  <2>2. UNCHANGED <<aged, boot, rotations, truncations>>
    BY <1>1 DEF Write
  <2>3. written' \in [Group -> Nat] /\ \A h \in Group : written'[h] <= Parts[h]
    BY <1>0, <2>1
  <2> QED
    BY <1>0, <2>2, <2>3
<1>2. ASSUME NEW g \in Group, Age(g) PROVE Typed
  <2>1. aged' \subseteq Group /\ UNCHANGED <<written, boot, rotations, truncations>>
    BY <1>0, <1>2 DEF Age
  <2> QED
    BY <1>0, <2>1
<1>3. CASE Rotate
  <2>1. rotations' \in 0..MaxRotate /\ UNCHANGED <<written, aged, boot, truncations>>
    BY <1>0, <1>3 DEF Rotate
  <2> QED
    BY <1>0, <2>1
<1>4. CASE Truncate
  <2>1. truncations' \in 0..MaxTruncate /\ UNCHANGED <<written, aged, boot, rotations>>
    BY <1>0, <1>4 DEF Truncate
  <2> QED
    BY <1>0, <2>1
<1>5. CASE Reboot
  <2>1. boot' \in 1..MaxBoot /\ UNCHANGED <<written, aged, rotations, truncations>>
    BY <1>0, <1>5 DEF Reboot
  <2> QED
    BY <1>0, <2>1
<1>6. CASE Restart \/ Stat \/ Read \/ CollectFails
  <2>1. UNCHANGED <<written, aged, boot, rotations, truncations>>
    BY <1>6 DEF Restart, Stat, Read, CollectFails
  <2> QED
    BY <1>0, <2>1
<1> QED
  BY <1>1, <1>2, <1>3, <1>4, <1>5, <1>6 DEF Next

\* The agent's checkpoint and what it has decided keep their types.
LEMMA CollectType ==
    ASSUME TypeOK, Next
    PROVE  cp' \in Checkpoint /\ (look' = NoLook \/ look' \in Look)
<1>0. cp \in Checkpoint /\ (look = NoLook \/ look \in Look)
  BY DEF TypeOK
<1>1. CASE \E g \in Group : Write(g) \/ Age(g)
  BY <1>0, <1>1 DEF Write, Age
<1>2. CASE Rotate \/ Truncate
  BY <1>0, <1>2 DEF Rotate, Truncate
<1>3. CASE Reboot \/ Restart \/ CollectFails
  BY <1>0, <1>3 DEF Reboot, Restart, CollectFails
<1>4. CASE Stat
  BY <1>4, StatIs
<1>5. CASE Read
  <2>1. look' = NoLook
    BY <1>5 DEF Read
  <2> QED
    BY <1>5, <2>1, ReadIs
<1> QED
  BY <1>1, <1>2, <1>3, <1>4, <1>5 DEF Next

\* So do the sets of groups.
LEMMA HistoryType ==
    ASSUME TypeOK, Next
    PROVE  emitted' \subseteq Group /\ watched' \subseteq Group /\ excused' \subseteq Group
<1>0. /\ emitted \subseteq Group /\ watched \subseteq Group /\ excused \subseteq Group
      /\ Begun \subseteq Group
  BY DEF TypeOK, Begun
<1>1. CASE \E g \in Group : Write(g) \/ Age(g)
  BY <1>0, <1>1 DEF Write, Age
<1>2. CASE Rotate \/ Truncate
  BY <1>0, <1>2 DEF Rotate, Truncate
<1>3. CASE Reboot \/ Restart \/ CollectFails
  BY <1>0, <1>3 DEF Reboot, Restart, CollectFails
<1>4. CASE Stat
  BY <1>0, <1>4 DEF Stat, Excuse
<1>5. CASE Read
  <2>1. /\ ReadLines \in Seq(Record)
        /\ emitted' = emitted \cup Yield(ReadLines, ReadSafe)
        /\ excused' = IF cp'.dropped > cp.dropped THEN excused \cup Begun ELSE excused
    BY <1>5, ReadIs
  <2>2. Yield(ReadLines, ReadSafe) \subseteq Group
    <3>1. \A k \in DOMAIN ReadLines : ReadLines[k] \in Record
      BY <2>1, LenProperties, ElementOfSeq
    <3> QED
      BY <3>1 DEF Yield, Groups, Record
  <2>3. watched' = watched
    BY <1>5 DEF Read
  <2> QED
    BY <1>0, <2>1, <2>2, <2>3
<1> QED
  BY <1>1, <1>2, <1>3, <1>4, <1>5 DEF Next

LEMMA NextType == TypeOK /\ [Next]_vars => TypeOK'
<1>1. ASSUME TypeOK, Next PROVE TypeOK'
  BY <1>1, FilesType, HostType, CollectType, HistoryType DEF TypeOK
<1>2. ASSUME TypeOK, UNCHANGED vars PROVE TypeOK'
  BY <1>2 DEF TypeOK, vars, host
<1> QED
  BY <1>1, <1>2

\* Every variable keeps its type: collect saves checkpoints and reads files of
\* the shapes it expects.
THEOREM TypeCorrect == Spec => []TypeOK
BY InitType, NextType, PTL DEF Spec

-----------------------------------------------------------------------------
(* The position goes forward. *)

LEMMA NextLookFits ==
    ASSUME TypeOK, LookFits, [Next]_vars
    PROVE  LookFits'
<1> USE DEF host
<1>1. ASSUME UNCHANGED <<cp, look>> PROVE LookFits'
  BY <1>1 DEF LookFits
<1>2. ASSUME look' = NoLook PROVE LookFits'
  BY <1>2 DEF LookFits
<1>3. CASE Stat
  <2>1. look'.cp.boot = cp'.boot /\ look'.cp.inode # 0
    BY <1>3, StatIs
  <2>2. CASE look'.cp = cp' /\ (look'.path # 0 => Current.inode # cp'.inode)
    <3>1. look'.current = Current.inode
      BY <1>3, StatIs
    <3> QED
      BY <2>1, <2>2, <3>1 DEF LookFits
  <2>3. CASE look'.cp.dropped = cp'.dropped + 1 /\ look'.path = 0
    BY <2>1, <2>3 DEF LookFits
  <2> QED
    BY <1>3, <2>2, <2>3, StatIs
<1>4. CASE \E g \in Group : Write(g) \/ Age(g)
  BY <1>1, <1>4 DEF Write, Age
<1>5. CASE Rotate \/ Truncate
  BY <1>1, <1>5 DEF Rotate, Truncate
<1>6. CASE Reboot \/ Restart \/ Read \/ CollectFails
  BY <1>2, <1>6 DEF Reboot, Restart, Read, CollectFails
<1>7. CASE UNCHANGED vars
  BY <1>1, <1>7 DEF vars
<1> QED
  BY <1>3, <1>4, <1>5, <1>6, <1>7 DEF Next

LEMMA LookInductive == Spec => [](TypeOK /\ LookFits)
<1>1. Init => TypeOK /\ LookFits
  BY InitType DEF Init, LookFits
<1>2. TypeOK /\ LookFits /\ [Next]_vars => TypeOK' /\ LookFits'
  BY NextType, NextLookFits
<1> QED
  BY <1>1, <1>2, PTL DEF Spec

\* Whatever the writer of the log does, the saved position moves back within a
\* file and a boot only when collect counts the gap (spool.collect).
THEOREM NoRewind == Spec => NoUncountedRewind
<1> DEFINE Step == cp'.inode = cp.inode /\ cp'.boot = cp.boot /\ cp'.offset < cp.offset
                     => cp'.dropped > cp.dropped
<1>1. ASSUME TypeOK, LookFits, Next PROVE Step
  <2> USE DEF host
  <2>0. cp \in Checkpoint /\ cp.offset \in Nat /\ cp.dropped \in Nat
    BY <1>1 DEF TypeOK, Checkpoint
  <2>1. ASSUME cp' = cp PROVE Step
    BY <2>0, <2>1
  <2>2. CASE Stat
    <3>1. cp' = Started /\ cp'.inode # 0 /\ cp'.boot = boot
      BY <1>1, <2>2, StatIs
    <3>2. CASE cp.inode # 0 /\ cp.boot = boot
      <4>1. cp' = cp
        BY <1>1, <3>1, <3>2, StartedIs
      <4> QED
        BY <2>1, <4>1
    <3>3. CASE ~(cp.inode # 0 /\ cp.boot = boot)
      BY <3>1, <3>3
    <3> QED
      BY <3>2, <3>3
  <2>3. CASE Read
    <3>1. /\ look.cp \in Checkpoint /\ ReadFrom \in Nat /\ ReadSafe \in Nat
          /\ cp'.dropped = IF ReadCut THEN look.cp.dropped + 1 ELSE look.cp.dropped
          /\ cp'.inode = IF ReadDone THEN look.current ELSE look.cp.inode
          /\ cp'.offset = IF ReadDone THEN 0 ELSE ReadFrom + ReadSafe
      BY <1>1, <2>3, ReadIs
    <3>2. look # NoLook
      BY <2>3 DEF Read
    <3>3. look.cp.dropped \in Nat /\ look.cp.offset \in Nat
      BY <3>1 DEF Checkpoint
    <3>4. CASE look.cp.dropped = cp.dropped + 1
      BY <2>0, <3>1, <3>3, <3>4
    <3>5. CASE look.cp = cp /\ ~ReadDone
      BY <2>0, <3>1, <3>3, <3>5 DEF ReadFrom
    <3>6. CASE ReadDone
      BY <1>1, <3>1, <3>2, <3>6 DEF LookFits, ReadDone
    <3> QED
      BY <1>1, <3>2, <3>4, <3>5, <3>6 DEF LookFits
  <2>4. CASE \E g \in Group : Write(g) \/ Age(g)
    BY <2>1, <2>4 DEF Write, Age
  <2>5. CASE Rotate \/ Truncate
    BY <2>1, <2>5 DEF Rotate, Truncate
  <2>6. CASE Reboot \/ Restart \/ CollectFails
    BY <2>1, <2>6 DEF Reboot, Restart, CollectFails
  <2> QED
    BY <1>1, <2>2, <2>3, <2>4, <2>5, <2>6 DEF Next
<1> HIDE DEF Step
<1>2. TypeOK /\ LookFits /\ [Next]_vars => [Step]_vars
  BY <1>1
<1> QED
  BY <1>2, LookInductive, PTL DEF Spec, NoUncountedRewind, Step

-----------------------------------------------------------------------------
(* The writer of the log, without the faults that lose records silently. *)

\* None of the faults, except that a new log may get the inode of a deleted one
\* where logrotate keeps at least one old file: then the collector's file
\* outlives the rotation, and its number is not free.
Ordinary == Faults \subseteq (IF Keep > 1 THEN {"reuse"} ELSE {})

LEMMA NoFaults ==
    ASSUME Ordinary
    PROVE  /\ ~Allowed("overrun") /\ ~Allowed("regrow") /\ ~Allowed("split")
           /\ ~Allowed("race") /\ ~Allowed("interleave") /\ ~Allowed("slow")
           /\ Allowed("reuse") => Keep > 1
BY DEF Allowed, Ordinary

\* One more record at the end of the current file.
LEMMA WriteIs ==
    ASSUME TypeOK, Ordinary, NEW g \in Group, Write(g)
    PROVE  /\ look = NoLook /\ UNCHANGED <<aged, boot, cp, look, emitted, excused>>
           /\ written[g] < Parts[g] /\ written' = [written EXCEPT ![g] = @ + 1]
           /\ Open \subseteq {g}
           /\ ~(CutUnseen /\ Len(Current.recs) + 1 = cp.offset)
           /\ Len(files') = Len(files) /\ DOMAIN files' = 1..Len(files)
           /\ \A k \in 1..Len(files) :
                /\ files'[k].inode = files[k].inode
                /\ k # Len(files) => files'[k] = files[k]
           /\ files'[Len(files)].recs \in Seq(Record)
           /\ Len(files'[Len(files)].recs) = Len(Current.recs) + 1
           /\ \A j \in 1..Len(Current.recs) : files'[Len(files)].recs[j] = Current.recs[j]
           /\ files'[Len(files)].recs[Len(Current.recs) + 1] = <<g, written[g] + 1>>
<1> DEFINE q == Append(Current.recs, <<g, written[g] + 1>>)
<1>1. /\ Current.recs \in Seq(Record) /\ <<g, written[g] + 1>> \in Record
  BY CurrentIs DEF TypeOK, Record
<1>2. /\ q \in Seq(Record) /\ Len(q) = Len(Current.recs) + 1
      /\ \A j \in 1..Len(Current.recs) : q[j] = Current.recs[j]
      /\ q[Len(Current.recs) + 1] = <<g, written[g] + 1>>
  BY <1>1, AppendProperties
<1>3. files' = [files EXCEPT ![Len(files)].recs = q]
  BY CurrentIs DEF Write
<1> HIDE DEF q
<1>4. /\ files' \in Seq(File) /\ Len(files') = Len(files)
      /\ files'[Len(files)].recs = q
      /\ \A k \in 1..Len(files) :
           /\ files'[k].inode = files[k].inode
           /\ k # Len(files) => files'[k] = files[k]
  BY <1>2, <1>3, CurrentReplaced
<1>5. DOMAIN files' = 1..Len(files)
  BY <1>4, LenProperties
<1>6. /\ look = NoLook /\ UNCHANGED <<aged, boot, cp, look, emitted, excused>>
      /\ written[g] < Parts[g] /\ written' = [written EXCEPT ![g] = @ + 1]
      /\ Open \subseteq {g}
      /\ ~(CutUnseen /\ Len(Current.recs) + 1 = cp.offset)
  BY NoFaults DEF Write, Quiet
<1> QED
  BY <1>2, <1>4, <1>5, <1>6

\* The files move one place on, the oldest perhaps away, and the new one gets
\* an inode that is neither theirs nor the checkpoint's.
LEMMA RotateIs ==
    ASSUME TypeOK, Ordinary, Rotate
    PROVE  /\ look = NoLook /\ Open = {} /\ ~Behind
           /\ UNCHANGED <<written, aged, boot, cp, look, emitted, watched, excused>>
           /\ Len(files') \in Nat \ {0} /\ DOMAIN files' = 1..Len(files')
           /\ files'[Len(files')].recs = <<>>
           /\ files'[Len(files')].inode # cp.inode
           /\ \E o \in {0, 1} :
                /\ Len(files') = Len(files) - o + 1
                /\ \A k \in 1..(Len(files') - 1) :
                     /\ k + o \in 1..Len(files) /\ files'[k] = files[k + o]
                     /\ files'[k].inode # files'[Len(files')].inode
<1> DEFINE rest == IF Len(files) = Keep THEN Tail(files) ELSE files
           o == IF Len(files) = Keep THEN 1 ELSE 0
<1>1. PICK i \in Inode \ {rest[k].inode : k \in DOMAIN rest} :
        /\ i = cp.inode => Allowed("reuse")
        /\ files' = Append(rest, [inode |-> i, recs |-> <<>>])
  BY DEF Rotate
<1>2. o \in {0, 1}
  OBVIOUS
<1>3. /\ files' \in Seq(File) /\ Len(files') = Len(files) - o + 1
      /\ Len(files') \in 1..Keep
      /\ files'[Len(files')] = [inode |-> i, recs |-> <<>>]
      /\ \A k \in 1..(Len(files') - 1) :
           k + o \in 1..Len(files) /\ files'[k] = files[k + o]
  BY <1>1, <1>2, FilesShifted
<1>4. rest \in Seq(File)
  <2>1. files \in Seq(File) /\ files # <<>>
    BY CurrentIs DEF TypeOK
  <2> QED
    BY <2>1, HeadTailProperties
<1>5. \A k \in 1..(Len(files') - 1) : files'[k].inode # i
  <2> DEFINE all == Append(rest, [inode |-> i, recs |-> <<>>])
  <2>1. [inode |-> i, recs |-> <<>>] \in File
    BY EmptySeq DEF File
  <2>2. /\ Len(all) = Len(rest) + 1 /\ \A k \in 1..Len(rest) : all[k] = rest[k]
    BY <1>4, <2>1, AppendProperties
  <2>3. DOMAIN rest = 1..Len(rest) /\ Len(rest) \in Nat
    BY <1>4, LenProperties
  <2>4. files' = all
    BY <1>1
  <2>5. \A k \in DOMAIN rest : rest[k].inode # i
    BY <1>1
  <2> HIDE DEF all, rest
  <2> QED
    BY <2>2, <2>3, <2>4, <2>5
<1>6. Len(files') \in Nat \ {0} /\ DOMAIN files' = 1..Len(files')
  <2>1. files' \in Seq(File) /\ Len(files') \in 1..Keep
    BY <1>3
  <2>2. Len(files') \in Nat /\ DOMAIN files' = 1..Len(files')
    BY <2>1, LenProperties
  <2> DEFINE n == Len(files')
  <2>3. n \in 1..Keep /\ n \in Nat
    BY <2>1, <2>2
  <2> HIDE DEF n
  <2>4. n \in Nat \ {0}
    BY <2>3, CollectorAssumption
  <2> QED
    BY <2>2, <2>4 DEF n
<1>7. i # cp.inode
  <2>1. CASE cp.inode = 0
    BY <2>1, CollectorAssumption
  <2>2. CASE cp.inode # 0 /\ ~Allowed("reuse")
    BY <1>1, <2>2
  <2>3. CASE cp.inode # 0 /\ Keep > 1
    <3>1. cp.inode = Current.inode
      BY <2>3, NoFaults DEF Rotate, Behind
    <3>2. files'[Len(files') - 1] = files[Len(files)] /\ Len(files') - 1 \in 1..(Len(files') - 1)
      <4>1. Len(files') - 1 + o = Len(files)
        BY <1>2, <1>3, CurrentIs
      <4>2. Len(files) \in Nat \ {0} /\ Keep \in Nat
        BY CurrentIs, CollectorAssumption DEF TypeOK
      <4>3. Len(files') - 1 \in 1..(Len(files') - 1)
        <5> DEFINE m == Len(files)
                   n == Len(files')
        <5>1. m \in Nat \ {0} /\ n = m - o + 1 /\ (o = 0 \/ (o = 1 /\ m = Keep))
          BY <1>3, <4>2
        <5> HIDE DEF m, n, o
        <5>2. n - 1 \in 1..(n - 1)
          BY <2>3, <4>2, <5>1
        <5> QED
          BY <5>2 DEF n
      <4> QED
        BY <1>3, <4>1, <4>3
    <3> QED
      BY <1>5, <3>1, <3>2 DEF Current
  <2> QED
    BY <2>1, <2>2, <2>3, NoFaults
<1>8. /\ look = NoLook /\ Open = {} /\ ~Behind
      /\ UNCHANGED <<written, aged, boot, cp, look, emitted, watched, excused>>
  BY NoFaults DEF Rotate, Quiet
<1>9. files'[Len(files')].recs = <<>> /\ files'[Len(files')].inode = i
  BY <1>3
<1>10. /\ Len(files') = Len(files) - o + 1
       /\ \A k \in 1..(Len(files') - 1) :
            /\ k + o \in 1..Len(files) /\ files'[k] = files[k + o]
            /\ files'[k].inode # files'[Len(files')].inode
  BY <1>3, <1>5, <1>9
<1> HIDE DEF o
<1> QED
  BY <1>2, <1>3, <1>6, <1>7, <1>8, <1>9, <1>10

\* The current file, which the checkpoint is in, becomes empty.
LEMMA TruncateIs ==
    ASSUME TypeOK, Ordinary, Truncate
    PROVE  /\ look = NoLook /\ Open = {} /\ ~Behind /\ cp.offset # 0
           /\ UNCHANGED <<written, aged, boot, cp, look, emitted, watched, excused>>
           /\ Len(files') = Len(files) /\ DOMAIN files' = 1..Len(files)
           /\ files'[Len(files)].recs = <<>>
           /\ \A k \in 1..Len(files) :
                /\ files'[k].inode = files[k].inode
                /\ k # Len(files) => files'[k] = files[k]
<1>1. <<>> \in Seq(Record) /\ files' = [files EXCEPT ![Len(files)].recs = <<>>]
  BY EmptySeq DEF Truncate
<1>2. /\ files' \in Seq(File) /\ Len(files') = Len(files)
      /\ files'[Len(files)].recs = <<>>
      /\ \A k \in 1..Len(files) :
           /\ files'[k].inode = files[k].inode
           /\ k # Len(files) => files'[k] = files[k]
  BY <1>1, CurrentReplaced
<1>3. DOMAIN files' = 1..Len(files)
  BY <1>2, LenProperties
<1>4. /\ look = NoLook /\ Open = {} /\ ~Behind /\ cp.offset # 0
      /\ UNCHANGED <<written, aged, boot, cp, look, emitted, watched, excused>>
  BY NoFaults DEF Truncate, Quiet
<1> QED
  BY <1>2, <1>3, <1>4

\* Nothing else touches the log.
LEMMA LogUntouched ==
    ASSUME Next
    PROVE  \/ \E g \in Group : Write(g)
           \/ Rotate \/ Truncate
           \/ UNCHANGED <<files, written>>
BY DEF Next, Age, Reboot, Restart, Stat, Read, CollectFails, host

\* Outside of Stat and Read the checkpoint stays; outside of Stat nothing is
\* decided about the files.
LEMMA CheckpointUntouched ==
    ASSUME Next
    PROVE  \/ Stat \/ Read
           \/ UNCHANGED <<cp, emitted, excused>>
BY DEF Next, Write, Age, Rotate, Truncate, Reboot, Restart, CollectFails

-----------------------------------------------------------------------------
(* Each part of Log is kept by a step. *)

LEMMA NextFresh ==
    ASSUME TypeOK, Ordinary, LookIsFresh, Next
    PROVE  LookIsFresh'
<1> USE DEF host
<1>1. ASSUME look' = NoLook PROVE LookIsFresh'
  BY <1>1 DEF LookIsFresh
<1>2. ASSUME NEW g \in Group, Write(g) PROVE LookIsFresh'
  <2>1. look' = NoLook
    BY <1>2, WriteIs
  <2> QED
    BY <2>1, <1>1
<1>3. CASE Rotate
  <2>1. look' = NoLook
    BY <1>3, RotateIs
  <2> QED
    BY <2>1, <1>1
<1>4. CASE Truncate
  <2>1. look' = NoLook
    BY <1>4, TruncateIs
  <2> QED
    BY <2>1, <1>1
<1>5. CASE \E g \in Group : Age(g)
  <2>1. UNCHANGED <<files, boot, cp, look>>
    BY <1>5 DEF Age
  <2> QED
    BY <2>1 DEF LookIsFresh, Current
<1>6. CASE Stat
  <2>1. UNCHANGED <<files, boot>> /\ Current' = Current
    BY <1>6 DEF Stat, Current
  <2>2. cp'.dropped \in Nat /\ cp'.boot = boot /\ look'.current = Current.inode
    BY <1>6, StatIs DEF Checkpoint
  <2>3. look'.cp = cp' => /\ look'.path < Len(files)
                          /\ files[Len(files) - look'.path].inode = cp'.inode
    BY <1>6, <2>2, StatIs
  <2> QED
    BY <2>1, <2>2, <2>3 DEF LookIsFresh
<1>7. CASE Reboot \/ Restart \/ Read \/ CollectFails
  BY <1>1, <1>7 DEF Reboot, Restart, Read, CollectFails
<1> QED
  BY <1>2, <1>3, <1>4, <1>5, <1>6, <1>7 DEF Next

LEMMA NextInodes ==
    ASSUME TypeOK, Ordinary, InodesUnique, Next
    PROVE  InodesUnique'
<1>0. DOMAIN files = 1..Len(files) /\ Len(files) \in Nat
  BY CurrentIs
<1>1. ASSUME NEW g \in Group, Write(g) PROVE InodesUnique'
  <2>1. /\ DOMAIN files' = 1..Len(files)
        /\ \A k \in 1..Len(files) : files'[k].inode = files[k].inode
    BY <1>1, WriteIs
  <2> QED
    BY <1>0, <2>1 DEF InodesUnique
<1>2. CASE Rotate
  <2>1. /\ Len(files') \in Nat /\ DOMAIN files' = 1..Len(files')
    BY <1>2, RotateIs
  <2>2. PICK o \in {0, 1} :
          /\ Len(files') = Len(files) - o + 1
          /\ \A k \in 1..(Len(files') - 1) :
               /\ k + o \in 1..Len(files) /\ files'[k] = files[k + o]
               /\ files'[k].inode # files'[Len(files')].inode
    BY <1>2, RotateIs
  <2>3. ASSUME NEW k \in 1..(Len(files') - 1), NEW l \in 1..(Len(files') - 1),
               files'[k].inode = files'[l].inode
        PROVE  k = l
    <3>1. /\ k + o \in DOMAIN files /\ files'[k] = files[k + o]
          /\ l + o \in DOMAIN files /\ files'[l] = files[l + o]
      BY <1>0, <2>2
    <3>2. files[k + o].inode = files[l + o].inode
      BY <2>3, <3>1
    <3>3. k + o = l + o
      BY <3>1, <3>2 DEF InodesUnique
    <3> QED
      BY <2>1, <3>3
  <2>4. \A k \in 1..Len(files') : k = Len(files') \/ k \in 1..(Len(files') - 1)
    <3> DEFINE n == Len(files')
    <3>1. n \in Nat
      BY <2>1
    <3> HIDE DEF n
    <3>2. \A k \in 1..n : k = n \/ k \in 1..(n - 1)
      BY <3>1
    <3> QED
      BY <3>2 DEF n
  <2> QED
    BY <2>1, <2>2, <2>3, <2>4 DEF InodesUnique
<1>3. CASE Truncate
  <2>1. /\ DOMAIN files' = 1..Len(files)
        /\ \A k \in 1..Len(files) : files'[k].inode = files[k].inode
    BY <1>3, TruncateIs
  <2> QED
    BY <1>0, <2>1 DEF InodesUnique
<1>4. CASE UNCHANGED files
  BY <1>4 DEF InodesUnique
<1> QED
  BY <1>1, <1>2, <1>3, <1>4, LogUntouched

LEMMA NextCheckpointReal ==
    ASSUME TypeOK, Ordinary, LookFits, LookIsFresh, CheckpointIsReal, Next
    PROVE  CheckpointIsReal'
<1> USE DEF host
<1>0. /\ boot \in Nat \ {0} /\ cp \in Checkpoint /\ cp.boot \in Nat
  BY CollectorAssumption DEF TypeOK, Checkpoint
<1>1. ASSUME UNCHANGED <<cp, boot, watched>> PROVE CheckpointIsReal'
  BY <1>1 DEF CheckpointIsReal
<1>2. ASSUME NEW g \in Group, Write(g) PROVE CheckpointIsReal'
  <2>1. /\ UNCHANGED <<cp, boot>>
        /\ cp.boot = 0 => watched' = watched
    BY <1>0, <1>2 DEF Write
  <2> QED
    BY <2>1 DEF CheckpointIsReal
<1>3. CASE Stat
  <2>1. cp'.boot = boot /\ cp'.inode # 0 /\ boot' = boot
    BY <1>3, StatIs DEF Stat
  <2> QED
    BY <1>0, <2>1 DEF CheckpointIsReal
<1>4. CASE Read
  <2>1. look # NoLook /\ boot' = boot
    BY <1>4 DEF Read
  <2>2. look.cp.boot = boot /\ look.cp.inode # 0 /\ look.current = Current.inode
    BY <2>1 DEF LookFits, LookIsFresh
  <2>3. cp'.boot = look.cp.boot /\ cp'.inode \in {look.current, look.cp.inode}
    BY <1>4, ReadIs
  <2>4. cp'.inode # 0
    BY <2>2, <2>3, CurrentIs
  <2> QED
    BY <1>0, <2>1, <2>2, <2>3, <2>4 DEF CheckpointIsReal
<1>5. CASE Reboot
  <2>1. boot' = boot + 1 /\ UNCHANGED <<cp, watched>>
    BY <1>5 DEF Reboot
  <2> QED
    BY <1>0, <2>1 DEF CheckpointIsReal
<1>6. CASE \/ \E g \in Group : Age(g)
           \/ Rotate \/ Truncate \/ Restart \/ CollectFails
  BY <1>1, <1>6 DEF Age, Rotate, Truncate, Restart, CollectFails
<1> QED
  BY <1>2, <1>3, <1>4, <1>5, <1>6 DEF Next

LEMMA NextGroupsReal ==
    ASSUME TypeOK, Ordinary, GroupsAreReal, Next
    PROVE  GroupsAreReal'
<1> USE DEF host
<1>0. /\ written \in [Group -> Nat] /\ watched \subseteq Group /\ aged \subseteq Group
      /\ Parts \in [Group -> Nat \ {0}]
  BY CollectorAssumption DEF TypeOK
<1>1. ASSUME NEW g \in Group, Write(g) PROVE GroupsAreReal'
  <2>1. /\ written[g] < Parts[g] /\ written' = [written EXCEPT ![g] = @ + 1] /\ aged' = aged
    BY <1>1, WriteIs
  <2>2. watched' \subseteq watched \cup {g}
    BY <1>1 DEF Write
  <2>3. g \notin aged
    BY <1>0, <2>1 DEF GroupsAreReal
  <2>4. ASSUME NEW h \in watched' PROVE written'[h] > 0
    <3>1. CASE h = g
      BY <1>0, <2>1, <3>1
    <3>2. CASE h # g
      BY <1>0, <2>1, <2>2, <3>2 DEF GroupsAreReal
    <3> QED
      BY <3>1, <3>2
  <2>5. ASSUME NEW h \in aged' PROVE written'[h] = Parts[h]
    BY <1>0, <2>1, <2>3 DEF GroupsAreReal
  <2> QED
    BY <2>4, <2>5 DEF GroupsAreReal
<1>2. ASSUME NEW g \in Group, Age(g) PROVE GroupsAreReal'
  <2>1. written[g] = Parts[g] /\ aged' = aged \cup {g} /\ UNCHANGED <<written, watched>>
    BY <1>2, NoFaults DEF Age
  <2> QED
    BY <2>1 DEF GroupsAreReal
<1>3. CASE Rotate \/ Truncate \/ Reboot \/ Restart \/ Stat \/ Read \/ CollectFails
  <2>1. UNCHANGED <<written, aged, watched>>
    BY <1>3 DEF Rotate, Truncate, Reboot, Restart, Stat, Read, CollectFails
  <2> QED
    BY <2>1 DEF GroupsAreReal
<1> QED
  BY <1>1, <1>2, <1>3 DEF Next

\* A record names a group and a part.
LEMMA RecordIs ==
    \A r \in Record : r[1] \in Group /\ r[2] \in Nat /\ r = <<r[1], r[2]>>
BY DEF Record

\* The files in which the log's records are, all of one type.
LEMMA RecordsAre ==
    ASSUME TypeOK
    PROVE  \A k \in 1..Len(files) :
             /\ DOMAIN files[k].recs = 1..Len(files[k].recs) /\ Len(files[k].recs) \in Nat
             /\ \A i \in 1..Len(files[k].recs) :
                  /\ files[k].recs[i] \in Record
                  /\ files[k].recs[i][1] \in Group /\ files[k].recs[i][2] \in Nat
                  /\ files[k].recs[i] = <<files[k].recs[i][1], files[k].recs[i][2]>>
<1>2. ASSUME NEW s \in Seq(Record)
      PROVE  /\ DOMAIN s = 1..Len(s) /\ Len(s) \in Nat
             /\ \A i \in 1..Len(s) : s[i] \in Record
  BY LenProperties, ElementOfSeq
<1>3. \A k \in 1..Len(files) : files[k].recs \in Seq(Record)
  BY CurrentIs
<1> QED
  BY <1>2, <1>3, RecordIs

\* A group that has records and is not complete is open: its last record is
\* the last of the log.
LEMMA OpenAt ==
    ASSUME TypeOK, Layout, OpenIsLast, NEW g \in Group, written[g] < Parts[g],
           NEW k \in 1..Len(files), NEW j \in 1..Len(files[k].recs),
           files[k].recs[j][1] = g
    PROVE  /\ k = Len(files) /\ Len(Current.recs) > 0
           /\ Current.recs[Len(Current.recs)] = <<g, written[g]>>
           /\ j + written[g] = Len(Current.recs) + files[k].recs[j][2]
<1>1. /\ DOMAIN files = 1..Len(files) /\ Len(files) \in 1..Len(files)
      /\ Current = files[Len(files)] /\ Len(Current.recs) \in Nat
  BY CurrentIs
<1>2. /\ DOMAIN files[k].recs = 1..Len(files[k].recs)
      /\ DOMAIN Current.recs = 1..Len(Current.recs)
  BY <1>1, RecordsAre
<1>3. files[k].recs[j][2] \in 1..written[g]
  BY <1>1, <1>2 DEF Layout
<1>4. g \in Open
  BY <1>3 DEF TypeOK, Open, Begun
<1>5. Len(Current.recs) > 0 /\ Current.recs[Len(Current.recs)] = <<g, written[g]>>
  BY <1>4 DEF OpenIsLast
<1> DEFINE m == Len(Current.recs)
<1>6. m \in DOMAIN Current.recs /\ Current.recs[m][1] = g /\ Current.recs[m][2] = written[g]
  BY <1>1, <1>2, <1>5
<1> HIDE DEF m
<1>7. k = Len(files) /\ j + written[g] = m + files[k].recs[j][2]
  <2> DEFINE n == Len(files)
  <2>1. /\ n \in DOMAIN files /\ k \in DOMAIN files /\ j \in DOMAIN files[k].recs
        /\ m \in DOMAIN files[n].recs /\ files[n].recs[m][1] = g
        /\ files[n].recs[m][2] = written[g]
    BY <1>1, <1>2, <1>6
  <2> HIDE DEF n
  <2>2. files[k].recs[j][1] = files[n].recs[m][1] =>
          k = n /\ j + files[n].recs[m][2] = m + files[k].recs[j][2]
    BY <2>1 DEF Layout
  <2>3. k = n /\ j + written[g] = m + files[k].recs[j][2]
    BY <2>1, <2>2
  <2> QED
    BY <2>3 DEF n
<1> QED
  BY <1>5, <1>7 DEF m

\* A record of the log after a write is the new one, or was there before.
LEMMA WrittenAt ==
    ASSUME TypeOK, Ordinary, NEW g \in Group, Write(g),
           NEW k \in DOMAIN files', NEW i \in DOMAIN files'[k].recs
    PROVE  /\ k \in DOMAIN files
           /\ \/ /\ k = Len(files) /\ i = Len(Current.recs) + 1
                 /\ files'[k].recs[i] = <<g, written[g] + 1>>
              \/ i \in DOMAIN files[k].recs /\ files'[k].recs[i] = files[k].recs[i]
<1>0. DOMAIN files' = 1..Len(files)
  BY WriteIs
<1>1. /\ DOMAIN files = 1..Len(files) /\ DOMAIN files' = 1..Len(files)
      /\ Len(files) \in 1..Len(files) /\ Current = files[Len(files)]
      /\ Len(Current.recs) \in Nat
  BY <1>0, CurrentIs
<1>2. CASE k # Len(files)
  <2>1. files'[k] = files[k]
    BY <1>1, <1>2, WriteIs
  <2> QED
    BY <1>1, <2>1
<1>3. CASE k = Len(files)
  <2> DEFINE m == Len(Current.recs)
             new == files'[Len(files)].recs
  <2>1. /\ new \in Seq(Record) /\ Len(new) = m + 1
        /\ \A j \in 1..m : new[j] = Current.recs[j]
        /\ new[m + 1] = <<g, written[g] + 1>>
    BY WriteIs
  <2>2. DOMAIN new = 1..(m + 1) /\ DOMAIN Current.recs = 1..m
    BY <1>1, <2>1, LenProperties, RecordsAre
  <2>3. i \in DOMAIN new
    BY <1>3
  <2>4. i = m + 1 \/ i \in 1..m
    <3> HIDE DEF new, m
    <3>1. m \in Nat
      BY <1>1 DEF m
    <3> QED
      BY <2>2, <2>3, <3>1
  <2>5. CASE i = m + 1
    BY <1>1, <1>3, <2>1, <2>5
  <2>6. CASE i \in 1..m
    <3>1. new[i] = Current.recs[i] /\ i \in DOMAIN Current.recs
      BY <2>1, <2>2, <2>6
    <3> QED
      BY <1>1, <1>3, <3>1
  <2> QED
    BY <2>4, <2>5, <2>6
<1> QED
  BY <1>2, <1>3

LEMMA NextLayout ==
    ASSUME TypeOK, Ordinary, Layout, OpenIsLast, Next
    PROVE  Layout'
<1> DEFINE Real(k, i) == files'[k].recs[i][2] \in 1..written'[files'[k].recs[i][1]]
           Rigid(k, i, l, j) == files'[k].recs[i][1] = files'[l].recs[j][1] =>
                                  /\ k = l
                                  /\ i + files'[l].recs[j][2] = j + files'[k].recs[i][2]
<1>0. /\ DOMAIN files = 1..Len(files) /\ Len(files) \in Nat /\ Len(Current.recs) \in Nat
      /\ written \in [Group -> Nat]
  BY CurrentIs DEF TypeOK
<1>a. ASSUME \A k \in DOMAIN files' : \A i \in DOMAIN files'[k].recs : Real(k, i),
             \A k, l \in DOMAIN files' :
               \A i \in DOMAIN files'[k].recs, j \in DOMAIN files'[l].recs : Rigid(k, i, l, j)
      PROVE  Layout'
  BY <1>a DEF Layout
<1>1. ASSUME NEW g \in Group, Write(g) PROVE Layout'
  <2>1. written[g] < Parts[g] /\ written' = [written EXCEPT ![g] = @ + 1]
    BY <1>1, WriteIs
  <2>2. \A h \in Group : written'[h] >= written[h] /\ written'[h] \in Nat
    BY <1>0, <2>1
  <2>3. written'[g] = written[g] + 1
    BY <1>0, <2>1
  <2>4. ASSUME NEW k \in DOMAIN files', NEW i \in DOMAIN files'[k].recs PROVE Real(k, i)
    <3>1. CASE files'[k].recs[i] = <<g, written[g] + 1>>
      BY <1>0, <2>3, <3>1
    <3>2. CASE k \in DOMAIN files /\ i \in DOMAIN files[k].recs
                /\ files'[k].recs[i] = files[k].recs[i]
      <4>1. files[k].recs[i][1] \in Group
        BY <1>0, <3>2, RecordsAre
      <4>2. files[k].recs[i][2] \in 1..written[files[k].recs[i][1]]
        BY <3>2 DEF Layout
      <4> QED
        BY <1>0, <2>2, <3>2, <4>1, <4>2
    <3> QED
      BY <1>1, <3>1, <3>2, WrittenAt
  <2>5. ASSUME NEW k \in DOMAIN files', NEW i \in DOMAIN files'[k].recs,
               NEW l \in DOMAIN files, NEW j \in DOMAIN files[l].recs,
               k = Len(files), i = Len(Current.recs) + 1,
               files'[k].recs[i] = <<g, written[g] + 1>>,
               files[l].recs[j][1] = g
        PROVE  k = l /\ i + files[l].recs[j][2] = j + (written[g] + 1)
    <3>0. l \in 1..Len(files) /\ j \in 1..Len(files[l].recs)
      BY <1>0, RecordsAre
    <3>1. /\ l = Len(files)
          /\ j + written[g] = Len(Current.recs) + files[l].recs[j][2]
      BY <2>1, <2>5, <3>0, OpenAt
    <3>2. files[l].recs[j][2] \in Nat /\ j \in Nat /\ written[g] \in Nat
      BY <1>0, <3>0, RecordsAre
    <3> DEFINE m == Len(Current.recs)
               p == files[l].recs[j][2]
               w == written[g]
    <3>3. /\ m \in Nat /\ p \in Nat /\ w \in Nat /\ j \in Nat
          /\ i = m + 1 /\ j + w = m + p
      BY <1>0, <2>5, <3>1, <3>2
    <3> HIDE DEF m, p, w
    <3>4. i + p = j + (w + 1)
      BY <3>3
    <3> QED
      BY <2>5, <3>1, <3>4 DEF p, w
  <2>6. ASSUME NEW k \in DOMAIN files', NEW l \in DOMAIN files',
               NEW i \in DOMAIN files'[k].recs, NEW j \in DOMAIN files'[l].recs
        PROVE  Rigid(k, i, l, j)
    <3> DEFINE New(f, x) == /\ f = Len(files) /\ x = Len(Current.recs) + 1
                            /\ files'[f].recs[x] = <<g, written[g] + 1>>
               Old(f, x) == /\ f \in DOMAIN files /\ x \in DOMAIN files[f].recs
                            /\ files'[f].recs[x] = files[f].recs[x]
    <3>1. (New(k, i) \/ Old(k, i)) /\ (New(l, j) \/ Old(l, j))
      BY <1>1, WrittenAt
    <3>2. CASE New(k, i) /\ New(l, j)
      BY <3>2
    <3>3. CASE New(k, i) /\ Old(l, j)
      BY <2>5, <3>3
    <3>4. CASE Old(k, i) /\ New(l, j)
      <4>1. ASSUME files[k].recs[i][1] = g
            PROVE  k = l /\ j + files[k].recs[i][2] = i + (written[g] + 1)
        BY <2>5, <3>4, <4>1
      <4> QED
        BY <3>4, <4>1
    <3>5. CASE Old(k, i) /\ Old(l, j)
      BY <3>5 DEF Layout
    <3> QED
      BY <3>1, <3>2, <3>3, <3>4, <3>5
  <2> QED
    BY <1>a, <2>4, <2>6
<1>2. ASSUME UNCHANGED written,
             NEW o \in {0, 1},
             \A k \in DOMAIN files' : \A i \in DOMAIN files'[k].recs :
               k + o \in DOMAIN files /\ files'[k] = files[k + o],
             DOMAIN files' \subseteq Nat
      PROVE  Layout'
  <2>1. ASSUME NEW k \in DOMAIN files', NEW i \in DOMAIN files'[k].recs PROVE Real(k, i)
    BY <1>2, <2>1 DEF Layout
  <2>2. ASSUME NEW k \in DOMAIN files', NEW l \in DOMAIN files',
               NEW i \in DOMAIN files'[k].recs, NEW j \in DOMAIN files'[l].recs,
               files'[k].recs[i][1] = files'[l].recs[j][1]
        PROVE  k = l /\ i + files'[l].recs[j][2] = j + files'[k].recs[i][2]
    <3>1. /\ files'[k] = files[k + o] /\ k + o \in DOMAIN files
          /\ files'[l] = files[l + o] /\ l + o \in DOMAIN files
      BY <1>2
    <3>2. k + o = l + o /\ i + files[l + o].recs[j][2] = j + files[k + o].recs[i][2]
      BY <2>2, <3>1 DEF Layout
    <3>3. k \in Nat /\ l \in Nat /\ o \in Nat
      BY <1>2
    <3> QED
      BY <3>1, <3>2, <3>3
  <2> QED
    BY <1>a, <2>1, <2>2
<1>3. CASE Rotate
  <2>1. /\ UNCHANGED written /\ Len(files') \in Nat \ {0} /\ DOMAIN files' = 1..Len(files')
        /\ files'[Len(files')].recs = <<>>
    BY <1>3, RotateIs
  <2>2. PICK o \in {0, 1} :
          \A k \in 1..(Len(files') - 1) : k + o \in 1..Len(files) /\ files'[k] = files[k + o]
    BY <1>3, RotateIs
  <2>3. ASSUME NEW k \in DOMAIN files', NEW i \in DOMAIN files'[k].recs
        PROVE  k + o \in DOMAIN files /\ files'[k] = files[k + o]
    <3> DEFINE n == Len(files')
    <3>1. k # n
      BY <2>1
    <3>2. n \in Nat /\ k \in 1..n
      BY <2>1
    <3>3. k \in 1..(n - 1)
      <4> HIDE DEF n
      <4> QED
        BY <3>1, <3>2
    <3> QED
      BY <1>0, <2>2, <3>3
  <2>4. DOMAIN files' \subseteq Nat
    BY <2>1
  <2> QED
    BY <1>2, <2>1, <2>3, <2>4
<1>4. CASE Truncate
  <2>1. /\ UNCHANGED written /\ DOMAIN files' = 1..Len(files)
        /\ files'[Len(files)].recs = <<>>
        /\ \A k \in 1..Len(files) : k # Len(files) => files'[k] = files[k]
    BY <1>4, TruncateIs
  <2>2. ASSUME NEW k \in DOMAIN files', NEW i \in DOMAIN files'[k].recs
        PROVE  k + 0 \in DOMAIN files /\ files'[k] = files[k + 0]
    <3>1. k \in DOMAIN files
      BY <1>0, <2>1, Zenon
    <3>2. k # Len(files)
      BY <2>1
    <3>3. k \in Nat
      BY <1>0, <3>1
    <3>4. files'[k] = files[k]
      BY <1>0, <2>1, <3>1, <3>2, Zenon
    <3>5. k + 0 = k
      BY <3>3
    <3> QED
      BY <3>1, <3>4, <3>5
  <2>3. DOMAIN files' \subseteq Nat
    <3>1. 1..Len(files) \subseteq Nat
      BY <1>0
    <3> QED
      BY <2>1, <3>1, Zenon
  <2> QED
    BY <1>2, <2>1, <2>2, <2>3, 0 \in {0, 1}
<1>5. CASE UNCHANGED <<files, written>>
  BY <1>5 DEF Layout
<1> QED
  BY <1>1, <1>3, <1>4, <1>5, LogUntouched

LEMMA NextOpenIsLast ==
    ASSUME TypeOK, Ordinary, OpenIsLast, Next
    PROVE  OpenIsLast'
<1>0. /\ DOMAIN files = 1..Len(files) /\ Len(files) \in Nat /\ Len(Current.recs) \in Nat
      /\ written \in [Group -> Nat]
  BY CurrentIs DEF TypeOK
<1>1. ASSUME NEW g \in Group, Write(g) PROVE OpenIsLast'
  <2>1. /\ written' = [written EXCEPT ![g] = @ + 1] /\ Open \subseteq {g}
        /\ Len(files') = Len(files)
        /\ Len(files'[Len(files)].recs) = Len(Current.recs) + 1
        /\ files'[Len(files)].recs[Len(Current.recs) + 1] = <<g, written[g] + 1>>
    BY <1>1, WriteIs
  <2>2. Current' = files'[Len(files)]
    BY <2>1 DEF Current
  <2>3. ASSUME NEW h \in Open' PROVE h = g
    <3>1. h \in Group /\ written'[h] > 0 /\ written'[h] < Parts[h]
      BY <2>3 DEF Open, Begun
    <3>2. ASSUME h # g PROVE h \in Open
      BY <1>0, <2>1, <3>1, <3>2 DEF Open, Begun
    <3> QED
      BY <2>1, <3>2
  <2>4. written'[g] = written[g] + 1
    BY <1>0, <2>1
  <2>5. Len(Current'.recs) = Len(Current.recs) + 1 /\ Len(Current'.recs) > 0
    BY <1>0, <2>1, <2>2
  <2>6. Current'.recs[Len(Current'.recs)] = <<g, written'[g]>>
    BY <2>1, <2>2, <2>4, <2>5
  <2> QED
    BY <2>3, <2>5, <2>6 DEF OpenIsLast
<1>2. CASE Rotate \/ Truncate
  <2>1. Open = {} /\ UNCHANGED written
    BY <1>2, RotateIs, TruncateIs
  <2>2. Open' = {}
    BY <2>1 DEF Open, Begun
  <2> QED
    BY <2>2 DEF OpenIsLast
<1>3. CASE UNCHANGED <<files, written>>
  BY <1>3 DEF OpenIsLast, Open, Begun, Current
<1> QED
  BY <1>1, <1>2, <1>3, LogUntouched

\* All records of g that were written lie in F beyond a position, one after
\* the other.
Piece(F, from, g) ==
    /\ \A i, j \in 1..Len(F) :
         F[i][1] = g /\ F[j][1] = g => i + F[j][2] = j + F[i][2]
    /\ \A i \in 1..Len(F) : F[i][1] = g => F[i][2] \in 1..written[g]
    /\ \A i \in 1..written[g] : \E j \in 1..Len(F) : j > from /\ F[j] = <<g, i>>

\* A pass that goes beyond a record of a group, all of whose records lie in
\* one piece ahead of it, has seen the whole group: the event comes out.
LEMMA PassYields ==
    ASSUME TypeOK, GroupsAreReal,
           NEW F \in Seq(Record), NEW from \in Nat, from <= Len(F), NEW g \in Group,
           Piece(F, from, g),
           NEW lines, lines = Lines(F, from),
           NEW more \in BOOLEAN, more <=> from + Len(lines) < Len(F),
           NEW p \in 1..Len(F), p > from, F[p][1] = g, p <= from + Safe(lines, more)
    PROVE  g \in Yield(lines, Safe(lines, more))
<1> DEFINE safe == Safe(lines, more)
           w == written[g]
<1>0. w \in Nat /\ Len(F) \in Nat /\ Parts[g] \in Nat \ {0}
  BY LenProperties, CollectorAssumption DEF TypeOK
<1>1. /\ lines \in Seq(Record) /\ Len(lines) \in Nat /\ from + Len(lines) <= Len(F)
      /\ \A k \in 1..Len(lines) : from + k \in 1..Len(F) /\ lines[k] = F[from + k]
      /\ DOMAIN lines = 1..Len(lines)
  BY LinesAre, LenProperties
\* Two records of g are as far from each other as their parts.
<1>2. ASSUME NEW i \in 1..Len(F), NEW j \in 1..Len(F), F[i][1] = g, F[j][1] = g
      PROVE  i + F[j][2] = j + F[i][2]
  BY <1>2, Zenon DEF Piece
<1>3. /\ safe \in Nat /\ safe <= Len(lines)
      /\ \A h \in Pending(lines) :
           h \notin aged \/ (more /\ LastGroup(lines, h)) => safe <= Before(lines, h)
  BY <1>1, SafeIs
<1> HIDE DEF safe, w
\* The part of g at every position at hand.
<1>4. ASSUME NEW j \in 1..Len(F), j > from, j <= from + Len(lines)
      PROVE  j - from \in 1..Len(lines) /\ lines[j - from] = F[j]
  <2>1. j - from \in 1..Len(lines) /\ from + (j - from) = j
    BY <1>0, <1>1, <1>4
  <2> QED
    BY <1>1, <2>1
<1>5. /\ p - from \in 1..Len(lines) /\ lines[p - from] = F[p] /\ p - from <= safe
  <2>1. p <= from + Len(lines) /\ p - from <= safe
    BY <1>0, <1>1, <1>3 DEF safe
  <2> QED
    BY <1>4, <2>1
<1>6. g \in Groups(lines)
  BY <1>1, <1>5 DEF Groups
<1>7. /\ Before(lines, g) \in Nat /\ Before(lines, g) + 1 \in 1..Len(lines)
      /\ lines[Before(lines, g) + 1][1] = g
      /\ Before(lines, g) < p - from
  BY <1>1, <1>5, <1>6, BeforeIs
<1>8. Before(lines, g) < safe
  BY <1>0, <1>3, <1>5, <1>7
<1>9. ASSUME NEW i \in Needed(g) PROVE \E k \in DOMAIN lines : lines[k] = <<g, i>>
  <2>0. i \in Nat \ {0} /\ i <= Parts[g] /\ (g \in EndMarked => i < Parts[g])
    BY <1>0 DEF Needed
  <2>1. ASSUME NEW j \in 1..Len(F), j > from, F[j] = <<g, i>>, j <= from + Len(lines)
        PROVE  \E k \in DOMAIN lines : lines[k] = <<g, i>>
    <3>1. j - from \in DOMAIN lines /\ lines[j - from] = <<g, i>>
      BY <1>1, <1>4, <2>1
    <3> QED
      BY <3>1
  <2>2. CASE Ended(lines, g)
    <3>1. g \in EndMarked /\ \E k \in DOMAIN lines : lines[k] = <<g, Parts[g]>>
      BY <2>2 DEF Ended
    <3>2. PICK e \in 1..Len(lines) : lines[e] = <<g, Parts[g]>>
      BY <1>1, <3>1
    <3> DEFINE f == from + e
    <3>3. f \in 1..Len(F) /\ F[f] = <<g, Parts[g]>>
      BY <1>1, <3>2
    <3>4. Parts[g] \in 1..w
      BY <3>3 DEF w, Piece
    <3>5. i \in 1..w
      BY <1>0, <2>0, <3>4
    <3>6. PICK j \in 1..Len(F) : j > from /\ F[j] = <<g, i>>
      BY <3>5 DEF w, Piece
    <3>7. f + i = j + Parts[g]
      <4> HIDE DEF f
      <4>1. F[f][1] = g /\ F[f][2] = Parts[g] /\ F[j][1] = g /\ F[j][2] = i
        BY <3>3, <3>6
      <4>2. f + F[j][2] = j + F[f][2]
        BY <1>2, <3>3, <4>1, Zenon
      <4> QED
        BY <4>1, <4>2, Zenon
    <3>8. j <= from + Len(lines)
      BY <1>0, <1>1, <2>0, <3>1, <3>2, <3>6, <3>7
    <3> QED
      BY <2>1, <3>6, <3>8
  <2>3. CASE ~Ended(lines, g)
    <3>1. g \in Pending(lines)
      BY <1>6, <2>3 DEF Pending
    <3>2. g \in aged /\ ~(more /\ LastGroup(lines, g))
      BY <1>3, <1>7, <1>8, <3>1
    <3>3. w = Parts[g]
      BY <3>2 DEF GroupsAreReal, w
    <3>4. i \in 1..w
      BY <1>0, <2>0, <3>3
    <3>5. PICK j \in 1..Len(F) : j > from /\ F[j] = <<g, i>>
      BY <3>4 DEF w, Piece
    <3>6. CASE ~more
      <4>1. j <= from + Len(lines)
        <5>1. ~(from + Len(lines) < Len(F))
          BY <3>6
        <5> QED
          BY <1>0, <1>1, <5>1
      <4> QED
        BY <2>1, <3>5, <4>1
    <3>7. CASE ~LastGroup(lines, g)
      <4>1. PICK h \in Groups(lines) : ~(Before(lines, h) <= Before(lines, g))
        BY <3>7 DEF LastGroup
      <4> DEFINE a == from + (Before(lines, h) + 1)
                 b == from + (Before(lines, g) + 1)
      <4>2. /\ Before(lines, h) \in Nat /\ Before(lines, h) + 1 \in 1..Len(lines)
            /\ lines[Before(lines, h) + 1][1] = h
        BY <1>1, BeforeIs
      <4>3. a \in 1..Len(F) /\ F[a][1] = h /\ a <= from + Len(lines) /\ a > from
        <5>1. a \in 1..Len(F) /\ F[a][1] = h
          BY <1>1, <4>2
        <5> QED
          BY <1>1, <4>2, <5>1
      <4>4. b \in 1..Len(F) /\ F[b][1] = g /\ F[b] = <<g, F[b][2]>>
        <5>1. b \in 1..Len(F) /\ F[b][1] = g
          BY <1>1, <1>7
        <5>2. F[b] \in Record
          BY <5>1, ElementOfSeq
        <5> QED
          BY <5>1, <5>2, RecordIs, Zenon
      <4>5. b < a /\ h # g
        BY <1>7, <4>1, <4>2
      <4> DEFINE ib == F[b][2]
      <4>6. ib \in 1..w /\ ib \in Nat
        BY <1>0, <4>4 DEF w, Piece
      <4> HIDE DEF a, b, ib
      <4>7. j + ib = b + i
        <5>1. F[j][1] = g /\ F[j][2] = i
          BY <3>5
        <5>2. j + F[b][2] = b + F[j][2]
          BY <1>2, <4>4, <5>1, Zenon
        <5> QED
          BY <5>1, <5>2, Zenon DEF ib
      <4>8. ASSUME j > from + Len(lines) PROVE FALSE
        <5> DEFINE q == ib + (a - b)
        <5>1. a < j
          BY <1>1, <4>3, <4>8
        <5>2. q \in 1..w
          BY <1>0, <3>4, <4>3, <4>4, <4>5, <4>6, <4>7, <5>1
        <5> HIDE DEF q
        <5>3. PICK x \in 1..Len(F) : x > from /\ F[x] = <<g, q>>
          BY <5>2 DEF w, Piece
        <5>4. x + ib = b + q
          <6>1. F[x][1] = g /\ F[x][2] = q
            BY <5>3
          <6>2. x + F[b][2] = b + F[x][2]
            BY <1>2, <4>4, <6>1, Zenon
          <6> QED
            BY <6>1, <6>2, Zenon DEF ib
        <5>5. x = a
          BY <1>0, <4>3, <4>4, <4>6, <5>3, <5>4 DEF q
        <5> QED
          BY <4>3, <4>5, <5>3, <5>5
      <4>9. j <= from + Len(lines)
        BY <1>0, <1>1, <4>8
      <4> QED
        BY <2>1, <3>5, <4>9
    <3> QED
      BY <3>2, <3>6, <3>7
  <2> QED
    BY <2>2, <2>3
<1> QED
  BY <1>6, <1>8, <1>9 DEF Yield, safe

-----------------------------------------------------------------------------
(* What is owed stays ahead of the checkpoint, or a gap is counted. *)

\* What is accounted for in one way or another.
Settled(g) == g \in emitted \/ g \in excused \/ AllAhead(g) \/ GapDue

LEMMA AccountedIs == Accounted <=> \A g \in watched : Settled(g)
BY DEF Accounted, Settled

\* A due gap stays due while the log only grows up to the checkpoint.
LEMMA WriteKeepsGap ==
    ASSUME TypeOK, Ordinary, NEW g \in Group, Write(g), GapDue
    PROVE  GapDue'
<1>0. DOMAIN files' = 1..Len(files) /\ UNCHANGED <<cp, boot>>
  BY WriteIs
<1>1. /\ DOMAIN files = 1..Len(files) /\ Len(files) \in 1..Len(files)
      /\ Current = files[Len(files)] /\ Len(Current.recs) \in Nat
      /\ cp.offset \in Nat
  BY CurrentIs DEF TypeOK, Checkpoint
<1>2. \A k \in 1..Len(files) : files'[k].inode = files[k].inode
  BY WriteIs
<1>3. CASE cp.boot # boot \/ \A k \in DOMAIN files : files[k].inode # cp.inode
  BY <1>0, <1>1, <1>2, <1>3 DEF GapDue
<1>4. ASSUME NEW k \in 1..Len(files), files[k].inode = cp.inode,
             Len(files[k].recs) < cp.offset
      PROVE  GapDue'
  <2>1. CASE k # Len(files)
    <3>1. files'[k] = files[k]
      BY <2>1, WriteIs
    <3> QED
      BY <1>0, <1>4, <3>1 DEF GapDue
  <2>2. CASE k = Len(files)
    <3> DEFINE m == Len(Current.recs)
    <3>1. m + 1 # cp.offset /\ m < cp.offset
      BY <1>1, <1>4, <2>2, WriteIs DEF CutUnseen
    <3>2. m + 1 < cp.offset
      <4>1. m \in Nat
        BY <1>1
      <4> HIDE DEF m
      <4> QED
        BY <1>1, <3>1, <4>1
    <3>3. Len(files'[k].recs) = m + 1
      BY <2>2, WriteIs
    <3> QED
      BY <1>0, <1>2, <1>4, <3>2, <3>3 DEF GapDue
  <2> QED
    BY <2>1, <2>2
<1> QED
  BY <1>1, <1>3, <1>4 DEF GapDue

\* The new record is ahead of the checkpoint, and so is all before it.
LEMMA WriteKeepsAhead ==
    ASSUME TypeOK, Ordinary, Layout, OpenIsLast, GroupsAreReal,
           NEW h \in Group, Write(h), NEW g \in watched', ~GapDue,
           g \in watched => AllAhead(g)
    PROVE  AllAhead(g)'
<1>a. PICK n : n = Len(files)
  OBVIOUS
<1>b. PICK m : m = Len(Current.recs)
  OBVIOUS
<1>0. DOMAIN files' = 1..n /\ UNCHANGED cp
  BY <1>a, WriteIs
<1>1. /\ DOMAIN files = 1..n /\ n \in 1..n /\ m \in Nat /\ Current = files[n]
      /\ cp.offset \in Nat /\ written \in [Group -> Nat] /\ watched \subseteq Group
  BY <1>a, <1>b, CurrentIs DEF TypeOK, Checkpoint
<1>2. /\ written[h] < Parts[h] /\ written' = [written EXCEPT ![h] = @ + 1]
      /\ \A k \in 1..n : /\ files'[k].inode = files[k].inode
                         /\ k # n => files'[k] = files[k]
  BY <1>a, WriteIs
<1>3. /\ files'[n].recs \in Seq(Record) /\ Len(files'[n].recs) = m + 1
      /\ \A j \in 1..m : files'[n].recs[j] = Current.recs[j]
      /\ files'[n].recs[m + 1] = <<h, written[h] + 1>>
  BY <1>a, <1>b, WriteIs
<1>4. DOMAIN files'[n].recs = 1..(m + 1) /\ DOMAIN files[n].recs = 1..m
  BY <1>1, <1>3, <1>a, <1>b, LenProperties, RecordsAre
<1>5. Len(files') = n
  BY <1>a, WriteIs
\* What was unread still is, and is the same.
<1>6. ASSUME NEW k \in 1..n, NEW j \in Unread(k)
      PROVE  j \in Unread(k)' /\ files'[k].recs[j] = files[k].recs[j]
  <2>1. CASE k # n
    <3>1. files'[k] = files[k]
      BY <1>2, <2>1
    <3> QED
      BY <1>0, <1>2, <1>5, <2>1, <3>1, <1>a DEF Unread
  <2>2. CASE k = n
    <3>1. j \in DOMAIN files[n].recs
      BY <2>2 DEF Unread
    <3>2. j \in 1..m /\ j \in DOMAIN files'[n].recs
      BY <1>1, <1>4, <3>1
    <3>3. files'[k].recs[j] = files[k].recs[j]
      BY <1>1, <1>3, <2>2, <3>2
    <3>4. j \in Unread(k)'
      <4>1. CASE files[n].inode = cp.inode
        BY <1>0, <1>1, <1>2, <2>2, <3>2, <4>1 DEF Unread
      <4>2. CASE files[n].inode # cp.inode
        BY <1>0, <1>1, <1>2, <1>5, <2>2, <3>2, <4>2 DEF Unread
      <4> QED
        BY <4>1, <4>2
    <3> QED
      BY <3>3, <3>4
  <2> QED
    BY <2>1, <2>2
\* The new position is unread.
<1>7. (m + 1) \in Unread(n)'
  <2>1. (m + 1) \in DOMAIN files'[n].recs
    BY <1>1, <1>4
  <2>2. CASE files[n].inode = cp.inode
    <3>1. ~(m < cp.offset)
      BY <1>1, <1>b, <2>2 DEF GapDue
    <3>2. m + 1 > cp.offset
      BY <1>1, <3>1
    <3> QED
      BY <1>0, <1>1, <1>2, <2>1, <2>2, <3>2 DEF Unread
  <2>3. CASE files[n].inode # cp.inode
    BY <1>0, <1>1, <1>2, <1>5, <2>1, <2>3 DEF Unread
  <2> QED
    BY <2>2, <2>3
<1>8. CASE g # h
  <2>1. g \in watched /\ written'[g] = written[g]
    <3>1. watched' \subseteq watched \cup {h}
      BY DEF Write
    <3> QED
      BY <1>1, <1>2, <1>8, <3>1
  <2>2. PICK k \in 1..n :
          \A i \in 1..written[g] : \E j \in Unread(k) : files[k].recs[j] = <<g, i>>
    BY <1>1, <2>1 DEF AllAhead
  <2>3. \A i \in 1..written'[g] : \E j \in Unread(k)' : files'[k].recs[j] = <<g, i>>
    BY <1>6, <2>1, <2>2
  <2> QED
    BY <1>0, <2>3 DEF AllAhead
<1>9. CASE g = h
  <2>1. written'[g] = written[g] + 1 /\ written[g] \in Nat
    BY <1>1, <1>2, <1>9
  <2>2. ASSUME NEW i \in 1..written[g]
        PROVE  \E j \in Unread(n)' : files'[n].recs[j] = <<g, i>>
    <3>1. g \in watched
      BY <2>1, <2>2, <1>9 DEF Write
    <3>2. PICK k \in 1..n :
            \A x \in 1..written[g] : \E j \in Unread(k) : files[k].recs[j] = <<g, x>>
      BY <1>1, <3>1 DEF AllAhead
    <3>3. PICK j \in Unread(k) : files[k].recs[j] = <<g, i>>
      BY <3>2
    <3>4. j \in 1..Len(files[k].recs) /\ files[k].recs[j][1] = g
      <4>1. j \in DOMAIN files[k].recs
        BY DEF Unread
      <4> QED
        BY <1>a, <3>3, <4>1, RecordsAre
    <3>5. k = n
      BY <1>a, <1>2, <1>9, <3>4, OpenAt
    <3> QED
      BY <1>6, <3>3, <3>5
  <2>3. \E j \in Unread(n)' : files'[n].recs[j] = <<g, written[g] + 1>>
    BY <1>3, <1>7, <1>9
  <2>4. \A i \in 1..written'[g] : i \in 1..written[g] \/ i = written[g] + 1
    BY <2>1
  <2>5. \A i \in 1..written'[g] : \E j \in Unread(n)' : files'[n].recs[j] = <<g, i>>
    BY <2>2, <2>3, <2>4
  <2> QED
    BY <1>0, <1>1, <2>5 DEF AllAhead
<1> QED
  BY <1>8, <1>9

\* Rotation takes along the file being read, which is the current one.
LEMMA RotateKeepsAhead ==
    ASSUME TypeOK, Ordinary, InodesUnique, CheckpointIsReal, GroupsAreReal, Rotate,
           NEW g \in watched, AllAhead(g) \/ GapDue
    PROVE  AllAhead(g)' \/ GapDue'
<1>a. PICK n : n = Len(files)
  OBVIOUS
<1>b. PICK l : l = Len(files')
  OBVIOUS
<1>0. /\ UNCHANGED <<written, cp, boot>> /\ ~Behind
      /\ l \in Nat \ {0} /\ DOMAIN files' = 1..l /\ files'[l].inode # cp.inode
  BY <1>b, RotateIs
<1>1. PICK o \in {0, 1} :
        /\ l = n - o + 1
        /\ \A k \in 1..(l - 1) : k + o \in 1..n /\ files'[k] = files[k + o]
  BY <1>a, <1>b, RotateIs
<1>2. /\ DOMAIN files = 1..n /\ n \in 1..n /\ Current = files[n]
      /\ boot \in Nat \ {0} /\ Current.inode # 0
  <2>1. boot \in Nat \ {0}
    BY CollectorAssumption DEF TypeOK
  <2> QED
    BY <1>a, <2>1, CurrentIs
<1>3. CASE cp.boot # boot
  BY <1>0, <1>3 DEF GapDue
<1>4. CASE cp.boot = boot
  <2>1. cp.inode = files[n].inode
    BY <1>0, <1>2, <1>4 DEF CheckpointIsReal, Behind
  <2>2. \A k \in 1..n : files[k].inode = cp.inode => k = n
    BY <1>2, <2>1 DEF InodesUnique
  <2>3. \A k \in 1..l : k = l \/ k \in 1..(l - 1)
    BY <1>0
  <2>4. CASE l - 1 = 0
    <3>1. \A k \in 1..l : files'[k].inode # cp.inode
      BY <1>0, <2>4
    <3> QED
      BY <1>0, <3>1 DEF GapDue
  <2>5. CASE l - 1 # 0
    <3>0. PICK p : p = l - 1
      OBVIOUS
    <3>1. p \in 1..l /\ p # l /\ p + o = n /\ p \in 1..(l - 1)
      BY <1>0, <1>1, <1>2, <2>5, <3>0
    <3>2. files'[p] = files[n]
      BY <1>1, <3>1
    <3>3. CASE GapDue
      <4>1. PICK k \in 1..n : files[k].inode = cp.inode /\ Len(files[k].recs) < cp.offset
        BY <1>2, <1>4, <2>1, <3>3 DEF GapDue
      <4>2. k = n
        BY <2>2, <4>1
      <4> QED
        BY <1>0, <3>1, <3>2, <4>1, <4>2 DEF GapDue
    <3>4. CASE AllAhead(g)
      <4>1. PICK k \in 1..n :
              \A i \in 1..written[g] : \E j \in Unread(k) : files[k].recs[j] = <<g, i>>
        BY <1>2, <3>4 DEF AllAhead
      <4>2. Unread(k) # {}
        <5>1. 1 \in 1..written[g]
          BY DEF GroupsAreReal, TypeOK
        <5> QED
          BY <4>1, <5>1
      <4>3. k = n
        BY <1>a, <2>2, <4>2 DEF Unread
      <4>4. Unread(p)' = Unread(n)
        BY <1>0, <1>2, <2>1, <3>1, <3>2 DEF Unread
      <4>5. \A i \in 1..written'[g] : \E j \in Unread(p)' : files'[p].recs[j] = <<g, i>>
        BY <1>0, <3>2, <4>1, <4>3, <4>4
      <4> QED
        BY <1>0, <3>1, <4>5 DEF AllAhead
    <3> QED
      BY <3>3, <3>4
  <2> QED
    BY <2>4, <2>5
<1> QED
  BY <1>3, <1>4

\* A truncation is seen in the length of the file being read.
LEMMA TruncateIsSeen ==
    ASSUME TypeOK, Ordinary, CheckpointIsReal, Truncate
    PROVE  GapDue'
<1>a. PICK n : n = Len(files)
  OBVIOUS
<1>0. /\ UNCHANGED <<cp, boot>> /\ ~Behind /\ cp.offset # 0
      /\ DOMAIN files' = 1..n /\ files'[n].recs = <<>>
      /\ \A k \in 1..n : files'[k].inode = files[k].inode
  BY <1>a, TruncateIs
<1>1. n \in 1..n /\ Current = files[n] /\ cp.offset \in Nat
  BY <1>a, CurrentIs DEF TypeOK, Checkpoint
<1>2. files'[n].inode = cp.inode
  BY <1>0, <1>1 DEF CheckpointIsReal, Behind
<1>3. Len(files'[n].recs) < cp.offset
  <2>1. Len(files'[n].recs) = 0
    BY <1>0, EmptySeq
  <2> QED
    BY <1>0, <1>1, <2>1
<1> QED
  BY <1>0, <1>1, <1>2, <1>3 DEF GapDue

\* A new position excuses what it leaves behind; otherwise it stays.
LEMMA StatSettles ==
    ASSUME TypeOK, CheckpointIsReal, GroupsAreReal, Stat, NEW g \in watched, Settled(g)
    PROVE  Settled(g)'
<1>0. /\ UNCHANGED <<files, written, boot, emitted, watched>> /\ cp' = Started
      /\ excused' = IF cp'.dropped > cp.dropped THEN excused \cup Begun ELSE excused
  BY DEF Stat, Excuse, host
<1>1. CASE cp.inode # 0 /\ cp.boot = boot
  <2>1. cp' = cp
    BY <1>0, <1>1, StartedIs
  <2>2. g \in excused => g \in excused'
    BY <1>0
  <2>3. AllAhead(g) => AllAhead(g)'
    BY <1>0, <2>1 DEF AllAhead, Unread
  <2>4. GapDue => GapDue'
    BY <1>0, <2>1 DEF GapDue
  <2> QED
    BY <1>0, <2>2, <2>3, <2>4 DEF Settled
<1>2. CASE ~(cp.inode # 0 /\ cp.boot = boot)
  <2>1. cp.boot # 0
    BY DEF CheckpointIsReal
  <2>2. cp.boot # boot
    BY <1>2, <2>1 DEF CheckpointIsReal
  <2>3. cp'.dropped > cp.dropped
    <3>1. cp'.dropped = cp.dropped + 1 /\ cp.dropped \in Nat
      BY <1>0, <2>1, <2>2, StartedIs DEF TypeOK, Checkpoint
    <3> QED
      BY <3>1
  <2>4. g \in Begun
    BY DEF GroupsAreReal, Begun, TypeOK
  <2> QED
    BY <1>0, <2>3, <2>4 DEF Settled
<1> QED
  BY <1>1, <1>2

\* Within a file the records of a group are in one piece.
LEMMA InOnePiece ==
    ASSUME Layout, NEW k \in DOMAIN files,
           NEW i \in DOMAIN files[k].recs, NEW j \in DOMAIN files[k].recs,
           files[k].recs[i][1] = files[k].recs[j][1]
    PROVE  i + files[k].recs[j][2] = j + files[k].recs[i][2]
<1>1. \A l \in DOMAIN files : \A x \in DOMAIN files[k].recs, y \in DOMAIN files[l].recs :
        files[k].recs[x][1] = files[l].recs[y][1] =>
          k = l /\ x + files[l].recs[y][2] = y + files[k].recs[x][2]
  BY DEF Layout
<1>2. \A x \in DOMAIN files[k].recs, y \in DOMAIN files[k].recs :
        files[k].recs[x][1] = files[k].recs[y][1] =>
          x + files[k].recs[y][2] = y + files[k].recs[x][2]
  BY <1>1, Zenon
<1> QED
  BY <1>2, Zenon

\* A pass emits what it goes beyond, or counts the gap.
LEMMA ReadSettles ==
    ASSUME TypeOK, LookFits, LookIsFresh, InodesUnique, GroupsAreReal, Layout, Read,
           NEW g \in watched, Settled(g)
    PROVE  Settled(g)'
<1>a. PICK n : n = Len(files)
  OBVIOUS
<1>b. PICK F : F = ReadFile
  OBVIOUS
<1>c. PICK from : from = ReadFrom
  OBVIOUS
<1>d. PICK r : r = n - look.path
  OBVIOUS
<1>e. PICK safe : safe = ReadSafe
  OBVIOUS
<1>0. look # NoLook /\ UNCHANGED <<files, written, boot, watched>>
  BY DEF Read, host
<1>1. /\ look \in Look /\ look.path \in 0..(n - 1)
      /\ F \in Seq(Record) /\ Len(F) \in Nat /\ from \in Nat /\ from <= Len(F)
      /\ safe \in Nat
      /\ cp'.boot = look.cp.boot
      /\ cp'.dropped = IF ReadCut THEN look.cp.dropped + 1 ELSE look.cp.dropped
      /\ cp'.inode = IF ReadDone THEN look.current ELSE look.cp.inode
      /\ cp'.offset = IF ReadDone THEN 0 ELSE from + safe
      /\ emitted' = emitted \cup Yield(ReadLines, ReadSafe)
      /\ excused' = IF cp'.dropped > cp.dropped THEN excused \cup Begun ELSE excused
  BY <1>a, <1>b, <1>c, <1>e, ReadIs
<1>2. /\ DOMAIN files = 1..n /\ n \in 1..n /\ n \in Nat /\ Current = files[n]
      /\ cp.dropped \in Nat /\ look.cp.dropped \in Nat /\ g \in Group
      /\ written[g] \in Nat /\ written[g] > 0
  <2>1. cp.dropped \in Nat /\ g \in Group /\ written[g] \in Nat /\ written[g] > 0
    BY DEF TypeOK, Checkpoint, GroupsAreReal
  <2>2. look.cp.dropped \in Nat
    BY <1>1 DEF Look, Checkpoint
  <2> QED
    BY <1>a, <2>1, <2>2, CurrentIs
<1>3. CASE cp'.dropped > cp.dropped
  <2>1. g \in Begun
    BY <1>2 DEF Begun
  <2> QED
    BY <1>1, <1>3, <2>1 DEF Settled
<1>4. CASE ~(cp'.dropped > cp.dropped)
  <2>1. look.cp = cp /\ ~ReadCut
    BY <1>0, <1>1, <1>2, <1>4 DEF LookFits
  <2>2. /\ cp.boot = boot /\ look.current = Current.inode
        /\ r \in 1..n /\ files[r].inode = cp.inode /\ F = files[r].recs
    <3>1. r \in 1..n
      BY <1>1, <1>2, <1>d
    <3> QED
      BY <1>0, <1>a, <1>b, <1>d, <2>1, <3>1 DEF LookIsFresh, ReadFile
  <2>3. from = cp.offset /\ excused' = excused
    BY <1>1, <1>4, <1>c, <2>1 DEF ReadFrom
  <2>4. \A k \in 1..n : files[k].inode = cp.inode => k = r
    BY <1>2, <2>2 DEF InodesUnique
  <2>5. ~GapDue
    BY <1>1, <1>2, <2>2, <2>3, <2>4 DEF GapDue
  <2>6. DOMAIN F = 1..Len(F)
    BY <1>1, LenProperties
  <2>7. CASE g \in emitted \/ g \in excused
    BY <1>1, <2>3, <2>7 DEF Settled
  <2>8. CASE AllAhead(g)
    <3>1. PICK k \in 1..n :
            \A i \in 1..written[g] : \E j \in Unread(k) : files[k].recs[j] = <<g, i>>
      BY <1>2, <2>8 DEF AllAhead
    <3>2. PICK j1 \in Unread(k) : files[k].recs[j1] = <<g, 1>>
      <4>1. 1 \in 1..written[g]
        BY <1>2
      <4> QED
        BY <3>1, <4>1
    <3>a. \A i \in 1..written'[g] : \E j \in Unread(k) : files'[k].recs[j] = <<g, i>>
      BY <1>0, <3>1
    <3>b. ASSUME Unread(k) \subseteq Unread(k)' PROVE AllAhead(g)'
      <4>1. \A i \in 1..written'[g] : \E j \in Unread(k)' : files'[k].recs[j] = <<g, i>>
        BY <3>a, <3>b
      <4> QED
        BY <1>0, <1>2, <4>1 DEF AllAhead
    <3>3. CASE k # r
      \* It is the current file, behind the one that was read.
      <4>1. files[k].inode # cp.inode /\ k = n /\ Unread(k) = DOMAIN files[k].recs
        BY <1>a, <2>4, <3>2, <3>3 DEF Unread
      <4>2. DOMAIN files[k].recs = 1..Len(files[k].recs)
        BY <1>a, RecordsAre
      <4>3. CASE ReadDone
        <5>1. cp'.inode = files[k].inode /\ cp'.offset = 0
          BY <1>1, <1>2, <2>2, <4>1, <4>3
        <5> QED
          BY <1>0, <3>b, <4>1, <4>2, <5>1 DEF Unread, Settled
      <4>4. CASE ~ReadDone
        <5>1. cp'.inode = cp.inode
          BY <1>1, <2>1, <4>4
        <5>2. Unread(k)' = DOMAIN files[k].recs
          BY <1>0, <1>a, <4>1, <5>1 DEF Unread
        <5> QED
          BY <3>b, <4>1, <5>2 DEF Settled
      <4> QED
        BY <4>3, <4>4
    <3>4. CASE k = r
      <4>1. Unread(k) = {j \in 1..Len(F) : j > from}
        BY <2>2, <2>3, <2>6, <3>4 DEF Unread
      <4>2. Piece(F, from, g)
        <5>1. \A i \in 1..written[g] : \E j \in 1..Len(F) : j > from /\ F[j] = <<g, i>>
          BY <2>2, <3>1, <3>4, <4>1
        <5>2. \A i \in 1..Len(F) : F[i][1] = g => F[i][2] \in 1..written[g]
          BY <1>2, <2>2, <2>6 DEF Layout
        <5>3. \A i, j \in 1..Len(F) :
                F[i][1] = g /\ F[j][1] = g => i + F[j][2] = j + F[i][2]
          <6> SUFFICES ASSUME NEW i \in 1..Len(F), NEW j \in 1..Len(F),
                              F[i][1] = g, F[j][1] = g
                       PROVE  i + F[j][2] = j + F[i][2]
            OBVIOUS
          <6>1. /\ r \in DOMAIN files
                /\ i \in DOMAIN files[r].recs /\ j \in DOMAIN files[r].recs
                /\ files[r].recs[i][1] = files[r].recs[j][1]
            BY <1>2, <2>2, <2>6
          <6>2. i + files[r].recs[j][2] = j + files[r].recs[i][2]
            BY <6>1, InOnePiece, Zenon
          <6> QED
            BY <2>2, <6>2, Zenon
        <5> QED
          BY <5>1, <5>2, <5>3 DEF Piece
      <4>3. ASSUME NEW p \in 1..Len(F), p > from, F[p][1] = g, p <= from + safe
            PROVE  g \in emitted'
        <5>1. /\ ReadLines = Lines(F, from) /\ ReadMore \in BOOLEAN
              /\ ReadMore <=> from + Len(ReadLines) < Len(F)
          BY <1>b, <1>c DEF ReadLines, ReadMore
        <5>2. p <= from + Safe(ReadLines, ReadMore)
          BY <4>3, <1>e DEF ReadSafe
        <5>3. g \in Yield(ReadLines, Safe(ReadLines, ReadMore))
          BY <1>1, <1>2, <4>2, <4>3, <5>1, <5>2, PassYields
        <5> QED
          BY <1>1, <5>3 DEF ReadSafe
      <4>4. CASE g \in emitted'
        BY <4>4 DEF Settled
      <4>5. CASE g \notin emitted'
        <5>1. \A p \in 1..Len(F) : p > from /\ F[p][1] = g => p > from + safe
          BY <1>1, <4>3, <4>5
        <5>2. j1 \in 1..Len(F) /\ j1 > from + safe
          <6>1. j1 \in 1..Len(F) /\ j1 > from /\ F[j1][1] = g
            BY <2>2, <3>2, <3>4, <4>1
          <6> QED
            BY <5>1, <6>1
        <5>3. ~ReadDone
          BY <1>1, <1>b, <1>c, <1>e, <5>2 DEF ReadDone
        <5>4. cp'.inode = cp.inode /\ cp'.offset = from + safe
          BY <1>1, <2>1, <5>3
        <5>5. Unread(k)' = {j \in 1..Len(F) : j > from + safe}
          BY <1>0, <2>2, <2>6, <3>4, <5>4 DEF Unread
        <5>6. \A i \in 1..written'[g] : \E j \in Unread(k)' : files'[k].recs[j] = <<g, i>>
          <6> SUFFICES ASSUME NEW i \in 1..written[g]
                       PROVE  \E j \in Unread(k)' : files[k].recs[j] = <<g, i>>
            BY <1>0
          <6>1. PICK j \in Unread(k) : files[k].recs[j] = <<g, i>>
            BY <3>1
          <6>2. j \in 1..Len(F) /\ j > from /\ F[j] = <<g, i>> /\ F[j][1] = g
            BY <2>2, <3>4, <4>1, <6>1
          <6>3. j \in Unread(k)'
            BY <5>1, <5>5, <6>2
          <6> QED
            BY <6>1, <6>3
        <5>7. AllAhead(g)'
          BY <1>0, <1>2, <5>6 DEF AllAhead
        <5> QED
          BY <5>7 DEF Settled
      <4> QED
        BY <4>4, <4>5
    <3> QED
      BY <3>3, <3>4
  <2> QED
    BY <2>5, <2>7, <2>8 DEF Settled
<1> QED
  BY <1>3, <1>4

LEMMA StaysAccounted ==
    ASSUME Accounted,
           UNCHANGED <<files, written, boot, cp, emitted, watched, excused>>
    PROVE  Accounted'
<1>1. ASSUME NEW g, AllAhead(g) PROVE AllAhead(g)'
  <2>1. \A k \in DOMAIN files : Unread(k)' = Unread(k)
    BY DEF Unread
  <2> QED
    BY <1>1, <2>1 DEF AllAhead
<1>2. ASSUME GapDue PROVE GapDue'
  BY <1>2 DEF GapDue
<1>3. ASSUME NEW g \in watched PROVE (g \in emitted \/ g \in excused \/ AllAhead(g) \/ GapDue)'
  BY <1>1, <1>2 DEF Accounted
<1> QED
  BY <1>3 DEF Accounted

LEMMA NextAccounted ==
    ASSUME TypeOK, Ordinary, LookFits, Log, Next
    PROVE  Accounted'
<1> USE DEF host
<1>0. /\ LookIsFresh /\ InodesUnique /\ CheckpointIsReal /\ GroupsAreReal
      /\ Layout /\ OpenIsLast /\ Accounted
  BY DEF Log
<1>a. \A g \in watched : Settled(g)
  BY <1>0, AccountedIs
<1>b. ASSUME \A g \in watched' : Settled(g)' PROVE Accounted'
  BY <1>b DEF Accounted, Settled
<1>1. ASSUME NEW h \in Group, Write(h) PROVE Accounted'
  <2>1. UNCHANGED <<emitted, excused>>
    BY <1>1, WriteIs
  <2>2. CASE GapDue
    BY <1>1, <1>b, <2>2, WriteKeepsGap DEF Settled
  <2>3. CASE ~GapDue
    <3> SUFFICES ASSUME NEW g \in watched' PROVE Settled(g)'
      BY <1>b
    <3>1. CASE g \in emitted \/ g \in excused
      BY <2>1, <3>1 DEF Settled
    <3>2. CASE ~(g \in emitted \/ g \in excused)
      <4>1. g \in watched => AllAhead(g)
        BY <1>a, <2>3, <3>2 DEF Settled
      <4>2. AllAhead(g)'
        BY <1>0, <1>1, <2>3, <4>1, WriteKeepsAhead
      <4> QED
        BY <4>2 DEF Settled
    <3> QED
      BY <3>1, <3>2
  <2> QED
    BY <2>2, <2>3
<1>2. CASE Rotate
  <2>1. UNCHANGED <<emitted, excused, watched>>
    BY <1>2, RotateIs
  <2>2. ASSUME NEW g \in watched PROVE Settled(g)'
    <3>1. CASE g \in emitted \/ g \in excused
      BY <2>1, <3>1 DEF Settled
    <3>2. CASE AllAhead(g) \/ GapDue
      <4>1. AllAhead(g)' \/ GapDue'
        BY <1>0, <1>2, <3>2, RotateKeepsAhead
      <4> QED
        BY <4>1 DEF Settled
    <3> QED
      BY <1>a, <3>1, <3>2 DEF Settled
  <2> QED
    BY <1>b, <2>1, <2>2
<1>3. CASE Truncate
  <2>1. GapDue'
    BY <1>0, <1>3, TruncateIsSeen
  <2> QED
    BY <1>b, <2>1 DEF Settled
<1>4. CASE Reboot
  <2>1. boot' = boot + 1 /\ cp' = cp /\ boot \in Nat /\ cp.boot \in Nat
    BY <1>4, CollectorAssumption DEF Reboot, TypeOK, Checkpoint
  <2>2. GapDue'
    BY <1>0, <2>1 DEF GapDue, CheckpointIsReal
  <2> QED
    BY <1>b, <2>2 DEF Settled
<1>5. CASE Stat
  <2>1. watched' = watched
    BY <1>5 DEF Stat
  <2>2. \A g \in watched : Settled(g)'
    BY <1>0, <1>5, <1>a, StatSettles
  <2> QED
    BY <1>b, <2>1, <2>2
<1>6. CASE Read
  <2>1. watched' = watched
    BY <1>6 DEF Read
  <2>2. \A g \in watched : Settled(g)'
    BY <1>0, <1>6, <1>a, ReadSettles
  <2> QED
    BY <1>b, <2>1, <2>2
<1>7. CASE (\E g \in Group : Age(g)) \/ Restart \/ CollectFails
  <2>1. UNCHANGED <<files, written, boot, cp, emitted, watched, excused>>
    BY <1>7 DEF Age, Restart, CollectFails
  <2> QED
    BY <1>0, <2>1, StaysAccounted
<1> QED
  BY <1>1, <1>2, <1>3, <1>4, <1>5, <1>6, <1>7 DEF Next

-----------------------------------------------------------------------------

LEMMA InitLog == Init => Log
<1> SUFFICES ASSUME Init PROVE Log
  OBVIOUS
<1>1. PICK i \in Inode : files = <<[inode |-> i, recs |-> <<>>]>>
  BY DEF Init
<1>2. DOMAIN files = {1} /\ files[1].recs = <<>> /\ DOMAIN files[1].recs = {}
  BY <1>1
<1>3. look = NoLook /\ cp.boot = 0 /\ cp.inode = 0 /\ cp.offset = 0 /\ boot = 1
  BY DEF Init
<1>4. watched = {} /\ aged = {} /\ Begun = {}
  BY DEF Init, Begun
<1>5. LookIsFresh /\ InodesUnique /\ CheckpointIsReal /\ GroupsAreReal
  BY <1>2, <1>3, <1>4 DEF LookIsFresh, InodesUnique, CheckpointIsReal, GroupsAreReal
<1>6. Layout
  BY <1>2 DEF Layout
<1>7. OpenIsLast /\ Accounted
  BY <1>4 DEF OpenIsLast, Open, Accounted
<1> QED
  BY <1>5, <1>6, <1>7 DEF Log

LEMMA NextLog ==
    ASSUME TypeOK, Ordinary, LookFits, Log, [Next]_vars
    PROVE  Log'
<1>1. CASE Next
  <2>1. LookIsFresh' /\ InodesUnique' /\ GroupsAreReal'
    BY <1>1, NextFresh, NextInodes, NextGroupsReal DEF Log
  <2>2. CheckpointIsReal'
    BY <1>1, NextCheckpointReal DEF Log
  <2>3. Layout' /\ OpenIsLast'
    BY <1>1, NextLayout, NextOpenIsLast DEF Log
  <2>4. Accounted'
    BY <1>1, NextAccounted
  <2> QED
    BY <2>1, <2>2, <2>3, <2>4 DEF Log
<1>2. CASE UNCHANGED vars
  <2>1. UNCHANGED <<files, written, aged, boot, cp, look, emitted, watched, excused>>
    BY <1>2 DEF vars, host
  <2>2. LookIsFresh' /\ InodesUnique' /\ CheckpointIsReal' /\ GroupsAreReal'
    BY <2>1 DEF Log, LookIsFresh, InodesUnique, CheckpointIsReal, GroupsAreReal, Current
  <2>3. Layout'
    BY <2>1 DEF Log, Layout
  <2>4. OpenIsLast'
    BY <2>1 DEF Log, OpenIsLast, Open, Begun, Current
  <2>5. Accounted'
    BY <2>1, StaysAccounted DEF Log
  <2> QED
    BY <2>2, <2>3, <2>4, <2>5 DEF Log
<1> QED
  BY <1>1, <1>2

\* As long as the log's writer shows none of the faults but a reused inode, and
\* that only where a rotated file is kept, an audit group that was completed
\* under the agent's eyes has been emitted, still lies ahead of the checkpoint,
\* or is covered by a gap that is or will be counted (spool.collect with
\* eventsFor), for every number of groups, files and records and every size of
\* the chunk.
THEOREM NothingLostSilently ==
    ASSUME Ordinary
    PROVE  Spec => []NoSilentGap
<1>1. Init => TypeOK /\ LookFits /\ Log
  BY InitType, InitLog DEF Init, LookFits
<1>2. TypeOK /\ LookFits /\ Log /\ [Next]_vars => TypeOK' /\ LookFits' /\ Log'
  BY NextType, NextLookFits, NextLog
<1>3. TypeOK /\ Log => NoSilentGap
  <2> SUFFICES ASSUME TypeOK, Log, NEW g \in watched, Complete(g), AllAhead(g)
               PROVE  Ahead(g)
    BY DEF Log, Accounted, NoSilentGap
  <2>1. \A i \in Needed(g) : i \in 1..written[g]
    BY CollectorAssumption DEF Complete, Needed, TypeOK
  <2> QED
    BY <2>1 DEF AllAhead, Ahead
<1> QED
  BY <1>1, <1>2, <1>3, PTL DEF Spec
=============================================================================
