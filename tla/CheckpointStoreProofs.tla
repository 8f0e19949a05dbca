------------------------ MODULE CheckpointStoreProofs ------------------------
(***************************************************************************)
(* What CheckpointStore keeps for any number of saves, faults and          *)
(* generations: an acknowledged snapshot survives, its name is not used    *)
(* again, close() waits for the last save, and what is lost costs no more  *)
(* generations than there were losses.                                     *)
(*                                                                         *)
(* The steps of a save rest on how the generations on disk, the numbers of *)
(* the queued snapshots and the fields of the store are ordered: FilesInv  *)
(* and QueueInv hold whatever is damaged, LosslessInv as long as nothing   *)
(* is.  KeptInv, shown on top of them, counts the generations that stand.  *)
(***************************************************************************)
EXTENDS CheckpointStore, FiniteSetTheorems, SequenceTheorems, WellFoundedInduction, TLAPS

Queue == store.queue
Waiting == 1 .. Len(Queue)
Dirs == {disk, safe}

-----------------------------------------------------------------------------
(* The inductive invariant                                                 *)

\* Snapshots are queued in their order; none queued is acknowledged; and the
\* generations in use leave room for one more per queued snapshot.
QueueInv ==
    /\ acked <= issued /\ store.latest <= issued
    /\ \A i \in Waiting : acked < Queue[i] /\ Queue[i] <= issued
    /\ \A i, j \in Waiting : i < j => Queue[i] < Queue[j]
    /\ \A i \in Waiting : store.latest <= Queue[i]
    /\ \A i \in Waiting : store.latest = Queue[i] => i = 1 /\ store.step = "pruning"
    /\ \A dir \in Dirs : \A g \in Files(dir) :
        /\ g <= issued
        /\ \A i \in Waiting : g <= Queue[i]
        /\ \A i \in Waiting : g = Queue[i] => i = 1 /\ store.step \in {"renamed", "pruning"}

\* A save is in progress only in a store that has loaded; close() has resolved
\* only when the queue is empty and the last save has not failed.
StepInv ==
    /\ store.loaded => store.up
    /\ ~store.up => Queue = <<>>
    /\ store.step # "idle" => store.loaded /\ Queue # <<>>
    /\ store.closed => store.closing /\ Queue = <<>> /\ ~store.lastFailed
    /\ Queue # <<>> => Queue[Len(Queue)] = store.last
    /\ Queue = <<>> /\ ~store.lastFailed => store.last = 0 \/ acked = store.last

\* A loaded store knows the newest generation but for one it has just renamed,
\* and takes no newer one for corrupt.
FilesInv ==
    /\ \A g \in Files(safe) : \E h \in Files(disk) : g <= h
    /\ store.loaded =>
        /\ \A dir \in Dirs : \A g \in Files(dir) :
            g <= store.latest \/ (g = store.latest + 1 /\ store.step # "pruning")
        /\ \A g \in store.corrupt :
            g < store.latest \/ (g = store.latest /\ store.step # "pruning")
    /\ ~store.loaded => store.corrupt \subseteq Files(disk)
    /\ store.step = "renamed" => store.latest + 1 \in Files(disk)
    /\ store.step = "pruning" =>
        /\ store.latest \in Files(disk) /\ store.latest \notin store.victims
        /\ store.victims \subseteq Files(disk)

FreshInv ==
    store.loaded /\ store.step # "pruning" =>
        \A g \in Files(disk) : g > store.latest => disk[g] = Corrupt \/ disk[g] > acked

\* What is on disk when no file was ever damaged or misread.
LosslessInv ==
    lost = 0 =>
        /\ \A dir \in Dirs : \A g \in Generations : dir[g] # Corrupt
        /\ store.step = "renamed" => disk[Generation] = Head(Queue)
        /\ store.step = "pruning" =>
            disk[store.latest] = Head(Queue) /\ safe[store.latest] = Head(Queue)

IInv == TypeOK /\ QueueInv /\ StepInv /\ FilesInv /\ FreshInv /\ LosslessInv /\ AckedSurvives

-----------------------------------------------------------------------------
(* Sequences, sets and the helpers of the store                            *)

LEMMA Constants ==
    /\ MaxSaves \in Nat /\ MaxFaults \in Nat
    /\ MaxGenerations \in Nat /\ MaxGenerations >= 2
    /\ Generations = 1 .. MaxSaves /\ Snapshots = 1 .. MaxSaves
    /\ Content = 0 .. MaxSaves \cup {-1} /\ Absent = 0 /\ Corrupt = -1
BY MaxSavesAssumption, MaxFaultsAssumption, MaxGenerationsAssumption
   DEF Generations, Snapshots, Content, Absent, Corrupt

\* A set of generations has a newest one: of the sets of those above a member
\* none can be smaller than every other unless it is empty.
LEMMA NewestLemma ==
    ASSUME NEW F \in SUBSET Generations, F # {}
    PROVE  Newest(F) \in F /\ \A g \in F : g <= Newest(F)
<1> DEFINE R == StrictSubsetOrdering(F)
           T == {Above(F, g) : g \in F}
<1>1. IsFiniteSet(F)
  <2>1. IsFiniteSet(Generations)
    BY Constants, FS_Interval
  <2> QED BY <2>1, FS_Subset
<1>2. IsWellFoundedOn(R, FiniteSubsetsOf(F))
  BY FS_StrictSubsetOrderingWellFounded
<1>3. T \subseteq FiniteSubsetsOf(F) /\ T # {}
  <2>1. \A g \in F : Above(F, g) \subseteq F /\ IsFiniteSet(Above(F, g))
    BY <1>1, FS_Subset DEF Above
  <2> QED BY <2>1 DEF FiniteSubsetsOf
<1>ints. \A x \in F : x \in Int
  BY Constants
<1> HIDE DEF R
<1>4. PICK A \in T : \A B \in T : ~ (<<B, A>> \in R)
  BY <1>2, <1>3, WFMin
<1>5. PICK g \in F : A = Above(F, g)
  BY <1>4
<1>6. Above(F, g) = {}
  <2> SUFFICES ASSUME NEW h \in Above(F, g) PROVE FALSE
    OBVIOUS
  <2>1. h \in F /\ h > g
    BY DEF Above
  <2>2. h \notin Above(F, h)
    BY <2>1, <1>ints DEF Above
  <2>4. ASSUME NEW x \in Above(F, h) PROVE x \in Above(F, g)
    BY <2>1, <2>4, <1>ints DEF Above
  <2>3. <<Above(F, h), Above(F, g)>> \in R
    <3>1. Above(F, h) \in SUBSET F /\ Above(F, g) \in SUBSET F
      BY DEF Above
    <3> QED BY <2>2, <2>4, <3>1 DEF R, StrictSubsetOrdering
  <2> QED BY <1>4, <1>5, <2>1, <2>3
<1>7. Newest(F) \in F /\ Above(F, Newest(F)) = {}
  BY <1>6 DEF Newest
<1>8. ASSUME NEW x \in F PROVE ~(x > Newest(F))
  BY <1>7 DEF Above
<1> QED BY <1>7, <1>8, <1>ints

LEMMA QueueLemma ==
    ASSUME NEW q \in Seq(Snapshots)
    PROVE  /\ Len(q) \in Nat /\ \A i \in 1 .. Len(q) : q[i] \in Snapshots
           /\ q # <<>> => /\ Len(q) > 0
                          /\ Head(q) = q[1] /\ Tail(q) \in Seq(Snapshots)
                          /\ Len(Tail(q)) = Len(q) - 1
                          /\ \A i \in 1 .. Len(Tail(q)) : Tail(q)[i] = q[i + 1]
           /\ Len(q) = 0 => q = <<>>
BY HeadTailProperties, LenProperties, EmptySeq, ElementOfSeq

\* A rejected save leaves the queue; the store is otherwise as it was.
LEMMA RejectedLemma ==
    ASSUME NEW s \in Store, s.queue # <<>> \/ s.step = "idle"
    PROVE  /\ Rejected(s) \in Store /\ Rejected(s).step = "idle"
           /\ Rejected(s).queue = IF s.queue = <<>> THEN <<>> ELSE Tail(s.queue)
           /\ s.queue = <<>> => Rejected(s).lastFailed <=> s.lastFailed
           /\ s.queue # <<>> => Rejected(s).lastFailed <=> s.lastFailed \/ Head(s.queue) = s.last
           /\ Rejected(s).up = s.up /\ Rejected(s).loaded = s.loaded /\ Rejected(s).latest = s.latest
           /\ Rejected(s).corrupt = s.corrupt /\ Rejected(s).last = s.last
           /\ Rejected(s).closing = s.closing /\ Rejected(s).closed = s.closed
<1>1. CASE s.queue = <<>>
  BY <1>1 DEF Rejected, Store
<1>2. CASE s.queue # <<>>
  <2>1. s.queue \in Seq(Snapshots)
    BY DEF Store
  <2>2. Tail(s.queue) \in Seq(Snapshots)
    BY <1>2, <2>1, QueueLemma
  <2> QED BY <1>2, <2>1, <2>2 DEF Rejected, Store
<1> QED BY <1>1, <1>2

\* What IInv says of the parts of the state, with their sets expanded.
LEMMA StateFacts ==
    ASSUME IInv
    PROVE  /\ store \in Store /\ Queue \in Seq(Snapshots) /\ Len(Queue) \in Nat
           /\ \A i \in Waiting : Queue[i] \in 1 .. MaxSaves
           /\ issued \in 0 .. MaxSaves /\ acked \in 0 .. MaxSaves
           /\ store.latest \in 0 .. MaxSaves /\ store.last \in 0 .. MaxSaves
           /\ \A dir \in Dirs : \A g \in Files(dir) : g \in 1 .. MaxSaves
           /\ store.corrupt \subseteq 1 .. MaxSaves
           /\ MaxSaves \in Nat
           /\ disk \in [Generations -> Content] /\ safe \in [Generations -> Content]
<1>1. TypeOK /\ store \in Store
  BY DEF IInv, TypeOK
<1>2. Queue \in Seq(Snapshots)
  BY <1>1 DEF Store, Queue
<1>3. \A i \in Waiting : Queue[i] \in 1 .. MaxSaves
  BY <1>2, QueueLemma, Constants DEF Waiting
<1> QED BY <1>1, <1>2, <1>3, Constants, QueueLemma DEF TypeOK, Store, Files, Dirs

\* The snapshot being saved is newer than every acknowledged one.
LEMMA HeadFacts ==
    ASSUME IInv, store.step # "idle"
    PROVE  /\ 1 \in Waiting /\ Head(Queue) = Queue[1] /\ Head(Queue) \in 1 .. MaxSaves
           /\ acked < Head(Queue) /\ Head(Queue) <= issued
           /\ store.step # "pruning" => store.latest < Head(Queue)
<1>0. QueueInv /\ StepInv
  BY DEF IInv
<1>1. 1 \in Waiting /\ Head(Queue) = Queue[1] /\ Head(Queue) \in 1 .. MaxSaves
  BY <1>0, StateFacts, QueueLemma DEF Waiting, StepInv
<1> QED BY <1>0, <1>1, StateFacts DEF QueueInv

\* A save that fails, or that waited for a load that failed.
LEMMA RejectedStep ==
    ASSUME IInv, NEW s \in Store, store' = Rejected(s),
           disk' = disk, safe' = safe, issued' = issued, acked' = acked,
           acks' \in Nat, failed' \in Nat, lost' \in Nat, lost' = 0 => lost = 0,
           s.up = store.up, s.loaded = store.loaded, s.queue = store.queue,
           s.step = store.step, s.last = store.last, s.lastFailed = store.lastFailed,
           s.closing = store.closing, s.closed = store.closed, ~store.closed, store.up,
           \/ s.latest = store.latest /\ s.corrupt = store.corrupt
           \/ /\ ~store.loaded /\ s.latest \in Files(disk)
              /\ s.corrupt \subseteq Files(disk)
    PROVE  IInv'
<1>0. /\ TypeOK /\ QueueInv /\ StepInv /\ FilesInv /\ FreshInv /\ LosslessInv /\ AckedSurvives
  BY DEF IInv
<1>1. s.queue # <<>> \/ s.step = "idle"
  BY <1>0 DEF StepInv, Queue
<1> DEFINE r == store'
<1>r. r = Rejected(s) /\ s.queue = Queue
  BY DEF Queue
<1> HIDE DEF r
<1>2. /\ r \in Store /\ r.step = "idle"
      /\ r.queue = IF Queue = <<>> THEN <<>> ELSE Tail(Queue)
      /\ Queue = <<>> => r.lastFailed <=> store.lastFailed
      /\ Queue # <<>> => r.lastFailed <=> store.lastFailed \/ Head(Queue) = store.last
      /\ r.up = store.up /\ r.loaded = store.loaded /\ r.latest = s.latest
      /\ r.corrupt = s.corrupt /\ r.last = store.last
      /\ r.closing = store.closing /\ r.closed = store.closed
  <2>1. /\ r \in Store /\ r.step = "idle"
        /\ r.queue = IF s.queue = <<>> THEN <<>> ELSE Tail(s.queue)
        /\ r.up = s.up /\ r.loaded = s.loaded /\ r.latest = s.latest
        /\ r.corrupt = s.corrupt /\ r.last = s.last
        /\ r.closing = s.closing /\ r.closed = s.closed
    BY <1>1, <1>r, RejectedLemma
  <2>2. /\ s.queue = <<>> => (r.lastFailed <=> s.lastFailed)
        /\ s.queue # <<>> => (r.lastFailed <=> s.lastFailed \/ Head(s.queue) = s.last)
    BY <1>1, <1>r, RejectedLemma
  <2> QED BY <1>r, <2>1, <2>2
<1>queue. Queue \in Seq(Snapshots) /\ Queue' = r.queue
  BY StateFacts DEF Queue, r
<1>3. /\ Queue' \in Seq(Snapshots) /\ Len(Queue') \in Nat
      /\ Queue = <<>> => Queue' = <<>> /\ Len(Queue') = 0
      /\ Queue # <<>> => /\ Len(Queue') = Len(Queue) - 1 /\ Head(Queue) = Queue[1]
                         /\ \A i \in 1 .. Len(Queue') : Queue'[i] = Queue[i + 1]
      /\ Queue' = <<>> <=> Len(Queue') = 0
  <2>1. CASE Queue = <<>>
    BY <1>2, <1>queue, <2>1, EmptySeq
  <2>2. CASE Queue # <<>>
    <3>1. Queue' = Tail(Queue)
      BY <1>2, <1>queue, <2>2
    <3>2. Tail(Queue) \in Seq(Snapshots) /\ Len(Queue) \in Nat /\ Len(Queue) > 0
      BY <1>queue, <2>2, QueueLemma
    <3>3. /\ Len(Tail(Queue)) = Len(Queue) - 1 /\ Head(Queue) = Queue[1]
          /\ \A i \in 1 .. Len(Tail(Queue)) : Tail(Queue)[i] = Queue[i + 1]
      BY <1>queue, <2>2, QueueLemma
    <3>4. Queue' = <<>> <=> Len(Queue') = 0
      BY <3>1, <3>2, QueueLemma, EmptySeq
    <3> QED BY <2>2, <3>1, <3>2, <3>3, <3>4
  <2> QED BY <2>1, <2>2
<1>4. TypeOK'
  BY <1>0, <1>2 DEF TypeOK, r
<1>5. /\ \A i \in 1 .. Len(Queue') : i + 1 \in Waiting /\ Queue'[i] = Queue[i + 1]
      /\ Dirs' = Dirs /\ Files(disk') = Files(disk) /\ Files(safe') = Files(safe)
  BY <1>3, StateFacts DEF Waiting, Dirs
<1>6. QueueInv'
  <2>1. acked <= issued /\ r.latest <= issued
    BY <1>0, <1>2 DEF QueueInv, Dirs
  <2>2. ASSUME NEW i \in Waiting'
        PROVE  /\ acked < Queue'[i] /\ Queue'[i] <= issued /\ r.latest < Queue'[i]
               /\ \A j \in Waiting' : i < j => Queue'[i] < Queue'[j]
               /\ \A dir \in Dirs : \A g \in Files(dir) : g < Queue'[i]
    <3>1. i \in 1 .. Len(Queue') /\ i + 1 # 1
      BY <1>3, <2>2 DEF Waiting
    <3>2. /\ acked < Queue[i + 1] /\ Queue[i + 1] <= issued
          /\ store.latest <= Queue[i + 1] /\ store.latest # Queue[i + 1]
      BY <1>0, <1>5, <3>1 DEF QueueInv
    <3>3. ASSUME NEW dir \in Dirs, NEW g \in Files(dir)
          PROVE  g <= Queue[i + 1] /\ g # Queue[i + 1]
      BY <1>0, <1>5, <3>1 DEF QueueInv
    <3>4. ASSUME NEW j \in Waiting', i < j PROVE Queue'[i] < Queue'[j]
      BY <1>0, <1>3, <1>5, <3>1, <3>4 DEF QueueInv, Waiting
    <3>6. \A dir \in Dirs : \A g \in Files(dir) : g < Queue[i + 1]
      BY <1>5, <3>1, <3>3, StateFacts
    <3>5. r.latest < Queue[i + 1]
      <4>1. CASE s.latest = store.latest
        BY <1>2, <1>5, <3>1, <3>2, <4>1, StateFacts, SMTT(30)
      <4>2. CASE s.latest \in Files(disk)
        BY <1>2, <3>6, <4>2 DEF Dirs
      <4> QED BY <4>1, <4>2
    <3> QED BY <1>5, <3>1, <3>2, <3>4, <3>5, <3>6
  <2>3. \A dir \in Dirs : \A g \in Files(dir) : g <= issued
    BY <1>0 DEF QueueInv
  <2>4. /\ r.latest \in Int /\ \A i \in Waiting' : Queue'[i] \in Int
        /\ \A dir \in Dirs : \A g \in Files(dir) : g \in Int
    <3>1. \A i \in Waiting' : Queue'[i] \in Int
      BY <1>5, StateFacts, SMTT(30) DEF Waiting
    <3> QED BY <1>2, <3>1, StateFacts DEF Dirs
  <2> QED BY <1>5, <2>1, <2>2, <2>3, <2>4 DEF QueueInv, r
<1>7. StepInv'
  <2>1. Queue' # <<>> => Queue'[Len(Queue')] = store.last
    BY <1>0, <1>3, <1>5, StateFacts, SMTT(30) DEF StepInv
  <2>2. Queue' = <<>> /\ ~r.lastFailed => store.last = 0 \/ acked = store.last
    <3>1. CASE Queue = <<>>
      BY <1>0, <1>2, <3>1 DEF StepInv
    <3>2. CASE Queue # <<>> /\ Queue' = <<>>
      <4>1. Len(Queue) = 1 /\ Head(Queue) = Queue[1]
        BY <1>3, <3>2, StateFacts
      <4> QED BY <1>0, <1>2, <3>2, <4>1 DEF StepInv
    <3> QED BY <3>1, <3>2
  <2> QED BY <1>0, <1>2, <1>3, <2>1, <2>2 DEF StepInv, r
<1>8. FilesInv'
  <2>1. CASE store.loaded
    BY <1>0, <1>2, <1>5, <2>1, StateFacts DEF FilesInv, r, Dirs
  <2>2. CASE ~store.loaded
    BY <1>0, <1>2, <1>5, <2>2 DEF FilesInv, r
  <2> QED BY <2>1, <2>2
<1>9. FreshInv'
  BY <1>0, <1>2, StateFacts DEF FreshInv, FilesInv, r, Dirs
<1>10. LosslessInv' /\ AckedSurvives'
  BY <1>0, <1>2 DEF LosslessInv, AckedSurvives, r, Dirs
<1> QED BY <1>4, <1>6, <1>7, <1>8, <1>9, <1>10 DEF IInv

-----------------------------------------------------------------------------
(* The steps                                                               *)

LEMMA InitIInv == Init => IInv
<1> SUFFICES ASSUME Init PROVE IInv
  OBVIOUS
<1>1. NewStore \in Store
  BY Constants, EmptySeq DEF NewStore, Store
<1>2. TypeOK
  BY <1>1, Constants DEF Init, TypeOK
<1>3. Queue = <<>> /\ Waiting = {} /\ Files(disk) = {} /\ Files(safe) = {}
  BY EmptySeq, Constants DEF Init, NewStore, Queue, Waiting, Files
<1>4. QueueInv
  BY <1>3 DEF Init, NewStore, QueueInv, Dirs
<1>5. StepInv
  BY <1>3 DEF Init, NewStore, StepInv
<1>6. FilesInv /\ FreshInv
  BY <1>3 DEF Init, NewStore, FilesInv, FreshInv
<1>7. LosslessInv /\ AckedSurvives
  BY Constants DEF Init, NewStore, LosslessInv, AckedSurvives, Dirs
<1> QED BY <1>2, <1>4, <1>5, <1>6, <1>7 DEF IInv

\* A store that is new, or gone, knows nothing; what remains is the disk.
LEMMA NewStoreStep ==
    ASSUME IInv, store' \in {NewStore, [NewStore EXCEPT !.up = TRUE]},
           UNCHANGED <<issued, acked, acks, lost, failed>>,
           disk' \in [Generations -> Content], safe' \in [Generations -> Content],
           \A g \in Files(disk') \cup Files(safe') : \E dir \in Dirs : g \in Files(dir),
           \A g \in Files(safe') : \E h \in Files(disk') : g <= h,
           lost = 0 => \A g \in Generations : disk'[g] # Corrupt /\ safe'[g] # Corrupt,
           AckedSurvives'
    PROVE  IInv'
<1>0. TypeOK /\ QueueInv
  BY DEF IInv
<1>1. /\ store' \in Store /\ Queue' = <<>> /\ store'.step = "idle" /\ ~store'.loaded
      /\ store'.corrupt = {} /\ store'.last = 0 /\ ~store'.closed /\ store'.latest = 0
  <2>1. CASE store' = NewStore
    BY <2>1, Constants, EmptySeq DEF NewStore, Store, Queue
  <2>2. CASE store' = [NewStore EXCEPT !.up = TRUE]
    BY <2>2, Constants, EmptySeq DEF NewStore, Store, Queue
  <2> QED BY <2>1, <2>2
<1>2. Waiting' = {}
  BY <1>1, EmptySeq DEF Waiting
<1>3. TypeOK'
  BY <1>0, <1>1 DEF TypeOK
<1>4. QueueInv'
  <2>1. ASSUME NEW dir \in Dirs', NEW g \in Files(dir) PROVE g <= issued'
    BY <1>0, <2>1 DEF QueueInv, Dirs
  <2>2. acked' <= issued' /\ store'.latest <= issued'
    BY <1>0, <1>1, StateFacts DEF QueueInv
  <2> QED BY <1>2, <2>1, <2>2 DEF QueueInv
<1>5. StepInv'
  BY <1>1 DEF StepInv
<1>6. FilesInv' /\ FreshInv'
  BY <1>1 DEF FilesInv, FreshInv
<1>7. LosslessInv'
  BY <1>1 DEF LosslessInv, Dirs
<1> QED BY <1>3, <1>4, <1>5, <1>6, <1>7 DEF IInv

LEMMA OpenStep == IInv /\ (Open \/ Crash) => IInv'
<1> SUFFICES ASSUME IInv, Open \/ Crash PROVE IInv'
  OBVIOUS
<1>1. store' \in {NewStore, [NewStore EXCEPT !.up = TRUE]}
  BY DEF Open, Crash
<1>2. UNCHANGED <<disk, safe, issued, acked, acks, lost, failed>>
  BY DEF Open, Crash
<1>3. TypeOK /\ FilesInv /\ LosslessInv /\ AckedSurvives
  BY DEF IInv
<1>4. AckedSurvives'
  BY <1>2, <1>3 DEF AckedSurvives
<1> QED BY <1>1, <1>2, <1>3, <1>4, NewStoreStep DEF TypeOK, FilesInv, LosslessInv, Dirs

LEMMA PowerLossStep == IInv /\ PowerLoss => IInv'
<1> SUFFICES ASSUME IInv, PowerLoss PROVE IInv'
  OBVIOUS
<1>1. store' = NewStore
  BY DEF PowerLoss
<1>2. UNCHANGED <<issued, acked, acks, lost, failed>> /\ safe' = disk'
  BY DEF PowerLoss
<1>3. TypeOK /\ FilesInv /\ LosslessInv /\ AckedSurvives
  BY DEF IInv
<1>4. PICK kept \in SUBSET Generations :
        disk' = [g \in Generations |-> IF g \in kept THEN disk[g] ELSE safe[g]]
  BY DEF PowerLoss
<1>5. disk' \in [Generations -> Content]
      /\ \A g \in Generations : disk'[g] = disk[g] \/ disk'[g] = safe[g]
  BY <1>3, <1>4 DEF TypeOK
<1>6. \A g \in Files(disk') : g \in Files(disk) \/ g \in Files(safe)
  BY <1>5 DEF Files
<1>7. AckedSurvives'
  BY <1>2, <1>3, <1>5 DEF AckedSurvives, Above
<1>8. lost = 0 => \A g \in Generations : disk'[g] # Corrupt
  BY <1>3, <1>5 DEF LosslessInv, Dirs
<1>9. \A g \in Files(safe') : \E h \in Files(disk') : g <= h
  BY <1>2, Constants DEF Files
<1> QED BY <1>1, <1>2, <1>5, <1>6, <1>7, <1>8, <1>9, NewStoreStep DEF Dirs

\* A damaged file is still a file, and only a good one can be.
LEMMA DamageStep == ASSUME IInv, NEW d \in Generations, Damage(d) PROVE IInv'
<1>1. /\ UNCHANGED <<store, issued, acked, acks, failed>> /\ lost' = lost + 1
      /\ disk[d] # Absent /\ disk' = [disk EXCEPT ![d] = Corrupt]
      /\ safe' = [safe EXCEPT ![d] = IF @ = Absent THEN Absent ELSE Corrupt]
  BY Constants DEF Damage
<1>2. /\ TypeOK /\ QueueInv /\ StepInv /\ FilesInv /\ FreshInv
  BY DEF IInv
<1>3. TypeOK'
  BY <1>1, <1>2, Constants DEF TypeOK
<1>4. Files(disk') = Files(disk) /\ Files(safe') = Files(safe)
  BY <1>1, <1>2, Constants DEF Files, TypeOK
<1>5. Queue' = Queue /\ Waiting' = Waiting
  BY <1>1 DEF Queue, Waiting
<1>6. QueueInv'
  BY <1>1, <1>2, <1>4, <1>5 DEF QueueInv, Dirs
<1>7. StepInv'
  BY <1>1, <1>2, <1>5 DEF StepInv
<1>8. FilesInv'
  BY <1>1, <1>2, <1>4 DEF FilesInv, Dirs
<1>9. FreshInv'
  BY <1>1, <1>2, <1>4 DEF FreshInv, Files, TypeOK
<1>10. lost' # 0
  BY <1>1, <1>2 DEF TypeOK
<1>11. LosslessInv' /\ AckedSurvives'
  BY <1>10 DEF LosslessInv, AckedSurvives
<1> QED BY <1>3, <1>6, <1>7, <1>8, <1>9, <1>11 DEF IInv

\* Save, with room for its snapshot behind the queued ones.
LEMMA SaveStep == IInv /\ Save => IInv'
<1> SUFFICES ASSUME IInv, Save PROVE IInv'
  OBVIOUS
<1>0. TypeOK /\ QueueInv /\ StepInv /\ FilesInv /\ FreshInv /\ LosslessInv /\ AckedSurvives
  BY DEF IInv
<1> DEFINE q == Append(Queue, issued + 1)
<1>1. /\ store.up /\ ~store.closing /\ issued + 1 \in Snapshots /\ issued' = issued + 1
      /\ UNCHANGED <<disk, safe, acked, acks, lost, failed>>
  BY <1>0, Constants DEF Save, TypeOK
<1>2. /\ q \in Seq(Snapshots) /\ Len(q) = Len(Queue) + 1 /\ q[Len(q)] = issued + 1
      /\ \A i \in Waiting : q[i] = Queue[i]
      /\ Waiting = 1 .. Len(Queue) /\ Len(Queue) \in Nat
      /\ Queue # <<>> => Head(q) = Head(Queue)
      /\ q # <<>>
  <2>1. Queue \in Seq(Snapshots) /\ Len(Queue) \in Nat
    BY StateFacts
  <2>2. /\ q \in Seq(Snapshots) /\ Len(q) = Len(Queue) + 1 /\ q # <<>>
        /\ \A i \in 1 .. Len(q) : q[i] = IF i <= Len(Queue) THEN Queue[i] ELSE issued + 1
    BY <1>1, <2>1, AppendProperties
  <2>3. Len(q) \in 1 .. Len(q) /\ 1 \in 1 .. Len(q)
    BY <2>1, <2>2
  <2>4. Queue # <<>> => Head(q) = Head(Queue)
    BY <2>1, <2>2, <2>3, QueueLemma
  <2> QED BY <2>1, <2>2, <2>3, <2>4 DEF Waiting
<1> HIDE DEF q
<1>3. /\ store' \in Store /\ Queue' = q /\ store'.step = store.step
      /\ store'.up = store.up /\ store'.loaded = store.loaded /\ store'.latest = store.latest
      /\ store'.corrupt = store.corrupt /\ store'.victims = store.victims
      /\ store'.last = issued + 1
  BY <1>0, <1>1, <1>2 DEF Save, TypeOK, Store, Queue, q
<1>4. store'.lastFailed = FALSE /\ store'.closing = store.closing /\ store'.closed = store.closed
  BY <1>0 DEF Save, TypeOK, Store
<1>5. TypeOK'
  BY <1>0, <1>1, <1>3, Constants DEF TypeOK
<1>6. QueueInv'
  <2>1. Waiting' = Waiting \cup {Len(Queue) + 1} /\ Queue'[Len(Queue) + 1] = issued + 1
    BY <1>2, <1>3 DEF Waiting
  <2>2. \A i \in Waiting : i # Len(Queue) + 1 /\ i < Len(Queue) + 1 /\ Queue'[i] = Queue[i]
    BY <1>2, <1>3
  <2>3. /\ Dirs' = Dirs /\ acked < issued + 1 /\ store.latest < issued + 1
        /\ \A dir \in Dirs : \A g \in Files(dir) : g < issued + 1
    BY <1>0, <1>1, StateFacts DEF Dirs, QueueInv
  <2>4. \A i, j \in Waiting' : i < j => Queue'[i] < Queue'[j]
    <3>1. ASSUME NEW i \in Waiting', NEW j \in Waiting', i < j PROVE Queue'[i] < Queue'[j]
      <4>1. i \in Waiting
        BY <1>2, <2>1, <2>2, <3>1
      <4>2. CASE j \in Waiting
        BY <1>0, <2>2, <3>1, <4>1, <4>2 DEF QueueInv
      <4>3. CASE j = Len(Queue) + 1
        <5>1. Queue[i] <= issued /\ Queue[i] \in Int /\ issued \in Int
          BY <1>0, <4>1, StateFacts DEF QueueInv
        <5> QED BY <2>1, <2>2, <4>1, <4>3, <5>1
      <4> QED BY <2>1, <4>2, <4>3
    <3> QED BY <3>1
  <2>5. \A i \in Waiting' :
          /\ acked < Queue'[i] /\ Queue'[i] <= issued + 1 /\ store.latest <= Queue'[i]
          /\ store.latest = Queue'[i] => i = 1 /\ store.step = "pruning"
    BY <1>0, <2>1, <2>2, <2>3, StateFacts DEF QueueInv
  <2>6. \A dir \in Dirs : \A g \in Files(dir) : \A i \in Waiting' :
          /\ g <= Queue'[i]
          /\ g = Queue'[i] => i = 1 /\ store.step \in {"renamed", "pruning"}
    BY <1>0, <2>1, <2>2, <2>3, StateFacts DEF QueueInv
  <2>7. \A dir \in Dirs : \A g \in Files(dir) : g <= issued + 1
    BY <2>3, StateFacts
  <2>8. acked <= issued + 1 /\ store.latest <= issued + 1
    BY <2>3, StateFacts
  <2> QED BY <1>1, <1>3, <2>3, <2>4, <2>5, <2>6, <2>7, <2>8 DEF QueueInv
<1>7. StepInv'
  <2>1. ~store.closed
    BY <1>0, <1>1 DEF StepInv
  <2> QED BY <1>0, <1>1, <1>2, <1>3, <1>4, <2>1 DEF StepInv
<1>8. FilesInv' /\ FreshInv' /\ AckedSurvives'
  BY <1>0, <1>1, <1>3 DEF FilesInv, FreshInv, AckedSurvives, Dirs, Files
<1>9. LosslessInv'
  <2>1. store.step # "idle" => Head(Queue') = Head(Queue)
    BY <1>0, <1>2, <1>3 DEF StepInv
  <2> QED BY <1>0, <1>1, <1>3, <2>1 DEF LosslessInv, Dirs, Generation
<1> QED BY <1>5, <1>6, <1>7, <1>8, <1>9 DEF IInv

\* Steps that change only how far a save, or close(), has come.
LEMMA ProgressStep ==
    ASSUME IInv, UNCHANGED <<disk, safe, issued, acked, acks, lost, failed>>,
           store' \in Store,
           \A f \in {"up", "loaded", "latest", "corrupt", "queue", "victims", "last", "lastFailed"} :
               store'[f] = store[f],
           \/ store'.step = store.step
           \/ store.step = "idle" /\ store'.step = "written" /\ store.loaded /\ Queue # <<>>,
           store.closed => store'.closed, store.closing => store'.closing,
           store'.closed => store'.closing /\ Queue = <<>> /\ ~store.lastFailed
    PROVE  IInv'
<1>0. TypeOK /\ QueueInv /\ StepInv /\ FilesInv /\ FreshInv /\ LosslessInv /\ AckedSurvives
  BY DEF IInv
<1>1. /\ store'.up = store.up /\ store'.loaded = store.loaded /\ store'.latest = store.latest
      /\ store'.corrupt = store.corrupt /\ store'.queue = store.queue
      /\ store'.victims = store.victims /\ store'.last = store.last
      /\ store'.lastFailed = store.lastFailed
  OBVIOUS
<1>2. Queue' = Queue /\ Waiting' = Waiting /\ Dirs' = Dirs
  BY <1>1 DEF Queue, Waiting, Dirs
<1>3. TypeOK'
  BY <1>0 DEF TypeOK
<1>4. QueueInv'
  BY <1>0, <1>1, <1>2 DEF QueueInv
<1>5. StepInv'
  BY <1>0, <1>1, <1>2 DEF StepInv
<1>6. FilesInv' /\ FreshInv'
  BY <1>0, <1>1, <1>2 DEF FilesInv, FreshInv, Files
<1>7. LosslessInv' /\ AckedSurvives'
  BY <1>0, <1>1, <1>2 DEF LosslessInv, AckedSurvives, Generation
<1> QED BY <1>3, <1>4, <1>5, <1>6, <1>7 DEF IInv

LEMMA WriteStep == IInv /\ Write => IInv'
<1> SUFFICES ASSUME IInv, Write PROVE IInv'
  OBVIOUS
<1>1. TypeOK /\ StepInv /\ store \in Store
  BY DEF IInv, TypeOK
<1> QED BY <1>1, ProgressStep DEF Write, Saving, Queue, StepInv, Store

LEMMA CloseStep == IInv /\ (Close \/ Closed) => IInv'
<1> SUFFICES ASSUME IInv, Close \/ Closed PROVE IInv'
  OBVIOUS
<1>1. TypeOK /\ StepInv /\ store \in Store
  BY DEF IInv, TypeOK
<1>2. CASE Close
  BY <1>1, <1>2, ProgressStep DEF Close, Queue, StepInv, Store
<1>3. CASE Closed
  BY <1>1, <1>3, ProgressStep DEF Closed, Queue, StepInv, Store
<1> QED BY <1>2, <1>3

\* The renamed file takes the generation after the newest, and a snapshot later
\* than any acknowledged one.
LEMMA RenameStep == IInv /\ Rename => IInv'
<1> SUFFICES ASSUME IInv, Rename PROVE IInv'
  OBVIOUS
<1>0. TypeOK /\ QueueInv /\ StepInv /\ FilesInv /\ FreshInv /\ LosslessInv /\ AckedSurvives
  BY DEF IInv
<1>1. /\ store.loaded /\ store.step = "written" /\ Queue # <<>>
      /\ disk' = [disk EXCEPT ![Generation] = Head(Queue)]
      /\ UNCHANGED <<safe, issued, acked, acks, lost, failed>>
  BY DEF Rename, Saving, Queue
<1>2. /\ store' \in Store /\ Queue' = Queue /\ Waiting' = Waiting /\ store'.step = "renamed"
      /\ store'.up = store.up /\ store'.loaded = store.loaded /\ store'.latest = store.latest
      /\ store'.corrupt = store.corrupt /\ store'.victims = store.victims
      /\ store'.last = store.last /\ Generation' = Generation
  BY <1>0 DEF Rename, TypeOK, Store, Queue, Waiting, Generation
<1>3. /\ store'.lastFailed = store.lastFailed /\ store'.closing = store.closing
      /\ store'.closed = store.closed
  BY <1>0 DEF Rename, TypeOK, Store
<1>4. /\ 1 \in Waiting /\ Head(Queue) = Queue[1] /\ Head(Queue) \in 1 .. MaxSaves
      /\ acked < Head(Queue) /\ Head(Queue) <= issued /\ store.latest < Head(Queue)
  BY <1>1, HeadFacts
<1>5. Generation = store.latest + 1 /\ Generation \in Generations /\ Generation <= Head(Queue)
  BY <1>4, StateFacts, Constants, SMTT(30) DEF Generation
<1>6. /\ disk' \in [Generations -> Content]
      /\ \A g \in Generations : disk'[g] = IF g = Generation THEN Head(Queue) ELSE disk[g]
  <2>1. Head(Queue) \in Content
    BY <1>4, Constants
  <2> QED BY <1>1, <2>1, StateFacts
<1>7. Files(disk') = Files(disk) \cup {Generation}
  BY <1>4, <1>5, <1>6, Constants DEF Files
<1>8. TypeOK'
  BY <1>0, <1>1, <1>2, <1>6 DEF TypeOK
<1>9. QueueInv'
  <2>1. ASSUME NEW dir \in Dirs', NEW g \in Files(dir)
        PROVE  /\ g <= issued /\ \A i \in Waiting : g <= Queue[i]
               /\ \A i \in Waiting : g = Queue[i] => i = 1
    <3>1. CASE g \in Files(disk) \/ g \in Files(safe)
      BY <1>0, <3>1 DEF QueueInv, Dirs
    <3>2. CASE g = Generation
      <4>1. Generation <= issued /\ Generation <= Queue[1]
        BY <1>4, <1>5, StateFacts
      <4>2. \A i \in Waiting : i # 1 => Generation < Queue[i]
        BY <1>0, <1>4, <1>5, StateFacts DEF QueueInv, Waiting
      <4> QED BY <1>4, <1>5, <3>2, <4>1, <4>2, StateFacts
    <3> QED BY <1>1, <1>7, <2>1, <3>1, <3>2 DEF Dirs
  <2> QED BY <1>0, <1>1, <1>2, <2>1 DEF QueueInv
<1>10. StepInv'
  BY <1>0, <1>1, <1>2, <1>3 DEF StepInv
<1>11. FilesInv'
  <2>1. \A g \in Files(safe') : \E h \in Files(disk') : g <= h
    BY <1>0, <1>1, <1>7 DEF FilesInv
  <2>2. \A dir \in Dirs' : \A g \in Files(dir) : g <= store.latest \/ g = store.latest + 1
    BY <1>0, <1>1, <1>5, <1>7 DEF FilesInv, Dirs
  <2> QED BY <1>0, <1>1, <1>2, <1>5, <1>7, <2>1, <2>2 DEF FilesInv
<1>12. FreshInv'
  BY <1>0, <1>1, <1>2, <1>4, <1>6, <1>7 DEF FreshInv, Files
<1>13. LosslessInv'
  BY <1>0, <1>1, <1>2, <1>4, <1>5, <1>6, Constants DEF LosslessInv, Dirs
<1>14. AckedSurvives'
  <2> SUFFICES ASSUME lost = 0, acked > 0 PROVE AckedSurvives'
    BY <1>1 DEF AckedSurvives
  <2>1. PICK g \in Generations :
          /\ disk[g] >= acked /\ safe[g] >= acked
          /\ \A h \in Above(Generations, g), dir \in {disk, safe} : dir[h] = Absent \/ dir[h] >= acked
    BY <1>0 DEF AckedSurvives
  <2>2. disk'[g] >= acked /\ safe'[g] >= acked
    BY <1>1, <1>4, <1>6, <2>1, StateFacts
  <2>3. \A h \in Above(Generations, g), dir \in {disk', safe'} : dir[h] = Absent \/ dir[h] >= acked
    BY <1>1, <1>4, <1>6, <2>1, StateFacts DEF Above
  <2> QED BY <1>1, <2>2, <2>3 DEF AckedSurvives
<1> QED BY <1>8, <1>9, <1>10, <1>11, <1>12, <1>13, <1>14 DEF IInv

\* An error before or after the rename, or while pruning.
LEMMA FailStep == IInv /\ (Fail \/ PruneFails) => IInv'
<1> SUFFICES ASSUME IInv, Fail \/ PruneFails PROVE IInv'
  OBVIOUS
<1>1. TypeOK /\ StepInv /\ store \in Store
  BY DEF IInv, TypeOK
<1>2. store' = Rejected(store) /\ store.step # "idle"
  BY DEF Fail, PruneFails
<1>3. /\ UNCHANGED <<disk, safe, issued, acked, lost>> /\ acks' \in Nat /\ lost' \in Nat
      /\ failed' \in Nat
  BY <1>1 DEF Fail, PruneFails, TypeOK
<1>4. store.up /\ ~store.closed
  BY <1>1, <1>2 DEF StepInv
<1> QED BY <1>1, <1>2, <1>3, <1>4, RejectedStep

\* The newest generation is not among those to unlink.
LEMMA SyncDirectoryStep == IInv /\ SyncDirectory => IInv'
<1> SUFFICES ASSUME IInv, SyncDirectory PROVE IInv'
  OBVIOUS
<1>0. TypeOK /\ QueueInv /\ StepInv /\ FilesInv /\ FreshInv /\ LosslessInv /\ AckedSurvives
  BY DEF IInv
<1>1. /\ store.step = "renamed" /\ store.loaded /\ Queue # <<>>
      /\ safe' = disk /\ UNCHANGED <<disk, issued, acked, acks, lost, failed>>
  BY <1>0 DEF SyncDirectory, StepInv
<1>2. /\ 1 \in Waiting /\ Head(Queue) = Queue[1] /\ Head(Queue) \in 1 .. MaxSaves
      /\ acked < Head(Queue) /\ Head(Queue) <= issued /\ store.latest < Head(Queue)
  BY <1>1, HeadFacts
<1>3. Generation = store.latest + 1 /\ Generation \in Generations /\ Generation <= Head(Queue)
  BY <1>2, StateFacts, Constants, SMTT(30) DEF Generation
<1> DEFINE V == Victims(Files(disk))
<1>4. V \subseteq Files(disk) /\ Files(disk) \subseteq Generations
  BY DEF Victims, Files
<1>store. store' = [store EXCEPT !.step = "pruning", !.latest = Generation, !.victims = V]
  BY DEF SyncDirectory
<1> HIDE DEF V
<1>5. /\ store' \in Store /\ Queue' = Queue /\ Waiting' = Waiting /\ store'.step = "pruning"
      /\ store'.up = store.up /\ store'.loaded = store.loaded /\ store'.latest = Generation
      /\ store'.corrupt = store.corrupt /\ store'.victims = V /\ store'.last = store.last
  BY <1>0, <1>3, <1>4, <1>store DEF TypeOK, Store, Queue, Waiting
<1>6. /\ store'.lastFailed = store.lastFailed /\ store'.closing = store.closing
      /\ store'.closed = store.closed
  BY <1>0, <1>store DEF TypeOK, Store
<1>7. TypeOK'
  BY <1>0, <1>1, <1>5 DEF TypeOK
<1>8. QueueInv'
  <2>1. /\ Generation <= issued
        /\ \A i \in Waiting : Generation <= Queue[i] /\ (Generation = Queue[i] => i = 1)
    <3>1. \A i \in Waiting : i # 1 => Queue[1] < Queue[i]
      <4>1. \A i \in Waiting : i # 1 => 1 < i
        BY StateFacts DEF Waiting
      <4> QED BY <1>0, <1>2, <4>1 DEF QueueInv
    <3> QED BY <1>2, <1>3, <3>1, StateFacts
  <2>2. Dirs' \subseteq Dirs
    BY <1>1 DEF Dirs
  <2>3. /\ acked <= issued
        /\ \A i \in Waiting : acked < Queue[i] /\ Queue[i] <= issued
        /\ \A i, j \in Waiting : i < j => Queue[i] < Queue[j]
    BY <1>0 DEF QueueInv
  <2>4. \A dir \in Dirs' : \A g \in Files(dir) :
          g <= issued /\ \A i \in Waiting : g <= Queue[i] /\ (g = Queue[i] => i = 1)
    BY <1>0, <2>2 DEF QueueInv
  <2>5. /\ acked' <= issued' /\ store'.latest <= issued'
        /\ \A i \in Waiting' : acked' < Queue'[i] /\ Queue'[i] <= issued'
        /\ \A i, j \in Waiting' : i < j => Queue'[i] < Queue'[j]
    BY <1>1, <1>5, <2>1, <2>3
  <2>6. ASSUME NEW i \in Waiting'
        PROVE  store'.latest <= Queue'[i] /\ (store'.latest = Queue'[i] => i = 1)
    <3>1. i \in Waiting /\ Queue'[i] = Queue[i] /\ store'.latest = Generation
      BY <1>5, <2>6
    <3>2. Generation <= Queue[i] /\ (Generation = Queue[i] => i = 1)
      BY <2>1, <3>1
    <3> QED BY <3>1, <3>2
  <2>7. \A dir \in Dirs' : \A g \in Files(dir) :
          /\ g <= issued'
          /\ \A i \in Waiting' : g <= Queue'[i]
          /\ \A i \in Waiting' : g = Queue'[i] => i = 1 /\ store'.step \in {"renamed", "pruning"}
    BY <1>1, <1>5, <2>4
  <2> QED BY <1>5, <2>5, <2>6, <2>7 DEF QueueInv
<1>9. StepInv'
  BY <1>0, <1>1, <1>5, <1>6 DEF StepInv
<1>10. FilesInv'
  <2>1. \A g \in Files(safe') : \E h \in Files(disk') : g <= h
    BY <1>1, <1>4, Constants
  <2>2. \A g \in Files(disk) : g <= Generation
    BY <1>0, <1>1, <1>3, StateFacts DEF FilesInv, Dirs
  <2>3. \A g \in store.corrupt : g < Generation
    BY <1>0, <1>1, <1>3, StateFacts DEF FilesInv
  <2>4. Generation \in Files(disk)
    BY <1>0, <1>1, <1>3 DEF FilesInv
  <2>5. Generation \notin V
    <3> DEFINE good == Files(disk) \ store.corrupt
    <3>1. Generation \notin store.corrupt
      BY <1>3, <2>3, Constants
    <3>2. Above(good, Generation) = {}
      BY <1>3, <2>2, StateFacts DEF Above, Dirs
    <3>3. Cardinality(Above(good, Generation)) = 0
      BY <3>2, FS_EmptySet
    <3> HIDE DEF good
    <3>4. ~(Cardinality(Above(good, Generation)) >= MaxGenerations)
      BY <3>3, Constants
    <3> QED BY <3>1, <3>4 DEF V, Victims, good
  <2> QED BY <1>1, <1>4, <1>5, <2>1, <2>2, <2>3, <2>4, <2>5 DEF FilesInv, Dirs
<1>11. FreshInv'
  BY <1>5 DEF FreshInv
<1>12. LosslessInv' /\ AckedSurvives'
  BY <1>0, <1>1, <1>5 DEF LosslessInv, AckedSurvives, Dirs
<1> QED BY <1>7, <1>8, <1>9, <1>10, <1>11, <1>12 DEF IInv

\* Unlinking an old generation leaves the one just written.
LEMMA UnlinkStep == IInv /\ Unlink => IInv'
<1> SUFFICES ASSUME IInv, Unlink PROVE IInv'
  OBVIOUS
<1>0. TypeOK /\ QueueInv /\ StepInv /\ FilesInv /\ FreshInv /\ LosslessInv /\ AckedSurvives
  BY DEF IInv
<1> DEFINE v == Newest(store.victims)
<1>1. v \in store.victims /\ store.victims \subseteq Files(disk) /\ v \in Generations
  BY <1>0, NewestLemma DEF Unlink, FilesInv, Files
<1>2. /\ store.step = "pruning" /\ store.loaded /\ Queue # <<>>
      /\ disk' = [disk EXCEPT ![v] = Absent]
      /\ UNCHANGED <<safe, issued, acked, acks, lost, failed>>
      /\ store' = [store EXCEPT !.victims = @ \ {v}, !.corrupt = @ \ {v}]
  BY <1>0 DEF Unlink, StepInv
<1> HIDE DEF v
<1>3. /\ store' \in Store /\ Queue' = Queue /\ Waiting' = Waiting /\ store'.step = store.step
      /\ store'.up = store.up /\ store'.loaded = store.loaded /\ store'.latest = store.latest
      /\ store'.corrupt = store.corrupt \ {v} /\ store'.victims = store.victims \ {v}
      /\ store'.last = store.last
  BY <1>0, <1>2 DEF TypeOK, Store, Queue, Waiting
<1>4. /\ store'.lastFailed = store.lastFailed /\ store'.closing = store.closing
      /\ store'.closed = store.closed
  BY <1>0, <1>2 DEF TypeOK, Store
<1>5. /\ disk' \in [Generations -> Content]
      /\ \A g \in Generations : disk'[g] = IF g = v THEN Absent ELSE disk[g]
  BY <1>1, <1>2, StateFacts, Constants
<1>6. Files(disk') = Files(disk) \ {v}
  BY <1>5 DEF Files
<1>7. store.latest \in Files(disk) /\ store.latest # v /\ store.latest \in Generations
  BY <1>0, <1>1, <1>2 DEF FilesInv, Files
<1>8. TypeOK'
  BY <1>0, <1>2, <1>3, <1>5 DEF TypeOK
<1>9. QueueInv'
  <2>1. ASSUME NEW dir \in Dirs', NEW g \in Files(dir)
        PROVE  /\ g <= issued /\ \A i \in Waiting : g <= Queue[i]
               /\ \A i \in Waiting : g = Queue[i] => i = 1
    BY <1>0, <1>2, <1>6, <2>1 DEF QueueInv, Dirs
  <2> QED BY <1>0, <1>2, <1>3, <2>1 DEF QueueInv
<1>10. StepInv'
  BY <1>0, <1>2, <1>3, <1>4 DEF StepInv
<1>11. FilesInv'
  <2>1. \A dir \in Dirs : \A g \in Files(dir) : g <= store.latest
    BY <1>0, <1>2 DEF FilesInv
  <2>2. \A g \in Files(safe') : \E h \in Files(disk') : g <= h
    BY <1>2, <1>6, <1>7, <2>1 DEF Dirs
  <2>3. \A dir \in Dirs' : \A g \in Files(dir) : g <= store.latest
    BY <1>2, <1>6, <2>1 DEF Dirs
  <2> QED BY <1>0, <1>2, <1>3, <1>6, <1>7, <2>2, <2>3 DEF FilesInv
<1>12. FreshInv'
  BY <1>2, <1>3 DEF FreshInv
<1>13. LosslessInv'
  BY <1>0, <1>2, <1>3, <1>5, <1>7, Constants DEF LosslessInv, Dirs
<1>14. AckedSurvives'
  <2> SUFFICES ASSUME lost = 0, acked > 0 PROVE AckedSurvives'
    BY <1>2 DEF AckedSurvives
  <2>1. disk'[store.latest] >= acked /\ safe'[store.latest] >= acked
    BY <1>0, <1>2, <1>5, <1>7, HeadFacts, StateFacts DEF LosslessInv
  <2>2. \A h \in Above(Generations, store.latest), dir \in {disk', safe'} : dir[h] = Absent
    <3> SUFFICES ASSUME NEW h \in Above(Generations, store.latest), NEW dir \in Dirs'
                 PROVE  h \notin Files(dir)
      BY DEF Dirs, Files, Above
    <3>1. h > store.latest /\ h \in Int /\ store.latest \in Int
      BY StateFacts, Constants DEF Above
    <3>2. \A g \in Files(dir) : g <= store.latest
      BY <1>0, <1>2, <1>6 DEF FilesInv, Dirs
    <3> QED BY <3>1, <3>2
  <2> QED BY <1>2, <1>7, <2>1, <2>2 DEF AckedSurvives
<1> QED BY <1>8, <1>9, <1>10, <1>11, <1>12, <1>13, <1>14 DEF IInv

\* The snapshot whose file has been synced becomes the newest one promised.
LEMMA AcknowledgeStep == IInv /\ Acknowledge => IInv'
<1> SUFFICES ASSUME IInv, Acknowledge PROVE IInv'
  OBVIOUS
<1>0. TypeOK /\ QueueInv /\ StepInv /\ FilesInv /\ FreshInv /\ LosslessInv /\ AckedSurvives
  BY DEF IInv
<1>1. /\ store.step = "pruning" /\ store.loaded /\ Queue # <<>>
      /\ acked' = Head(Queue) /\ acks' = acks + 1
      /\ UNCHANGED <<disk, safe, issued, lost, failed>>
      /\ store' = [store EXCEPT !.step = "idle", !.queue = Tail(@)]
  BY <1>0 DEF Acknowledge, StepInv, Queue
<1>2. Head(Queue) = Queue[1] /\ Head(Queue) \in 1 .. MaxSaves /\ 1 \in Waiting
  BY <1>1, HeadFacts
<1>3. /\ Tail(Queue) \in Seq(Snapshots) /\ Len(Tail(Queue)) = Len(Queue) - 1
      /\ \A i \in 1 .. Len(Tail(Queue)) : Tail(Queue)[i] = Queue[i + 1]
      /\ Tail(Queue) = <<>> => Len(Queue) = 1
      /\ Len(Queue) \in Nat
  <2>1. Queue \in Seq(Snapshots) /\ Len(Queue) \in Nat
    BY StateFacts
  <2>2. /\ Tail(Queue) \in Seq(Snapshots) /\ Len(Tail(Queue)) = Len(Queue) - 1
        /\ \A i \in 1 .. Len(Tail(Queue)) : Tail(Queue)[i] = Queue[i + 1]
    BY <1>1, <2>1, QueueLemma
  <2>3. Tail(Queue) = <<>> => Len(Tail(Queue)) = 0
    BY <2>2, EmptySeq
  <2> QED BY <2>1, <2>2, <2>3
<1>4. /\ store' \in Store /\ Queue' = Tail(Queue) /\ store'.step = "idle"
      /\ store'.up = store.up /\ store'.loaded = store.loaded /\ store'.latest = store.latest
      /\ store'.corrupt = store.corrupt /\ store'.victims = store.victims
      /\ store'.last = store.last
  BY <1>0, <1>1, <1>3 DEF TypeOK, Store, Queue
<1>5. /\ store'.lastFailed = store.lastFailed /\ store'.closing = store.closing
      /\ store'.closed = store.closed
  BY <1>0, <1>1 DEF TypeOK, Store
<1>6. \A i \in Waiting' : i + 1 \in Waiting /\ i + 1 > 1 /\ Queue'[i] = Queue[i + 1] /\ i \in Int
  BY <1>3, <1>4 DEF Waiting
<1>7. TypeOK'
  BY <1>0, <1>1, <1>2, <1>4 DEF TypeOK
<1>8. QueueInv'
  <2>1. ASSUME NEW i \in Waiting'
        PROVE  /\ acked' < Queue'[i] /\ Queue'[i] <= issued
               /\ store.latest <= Queue'[i] /\ store.latest # Queue'[i]
               /\ \A j \in Waiting' : i < j => Queue'[i] < Queue'[j]
               /\ \A dir \in Dirs : \A g \in Files(dir) : g <= Queue'[i] /\ g # Queue'[i]
    <3>1. i + 1 \in Waiting /\ i + 1 > 1 /\ Queue'[i] = Queue[i + 1] /\ i + 1 # 1
      BY <1>6, <2>1
    <3>2. Queue[1] < Queue[i + 1] /\ Queue[i + 1] <= issued
      BY <1>0, <1>2, <3>1 DEF QueueInv
    <3>3. store.latest <= Queue[i + 1] /\ store.latest # Queue[i + 1]
      BY <1>0, <3>1 DEF QueueInv
    <3>4. \A dir \in Dirs : \A g \in Files(dir) : g <= Queue[i + 1] /\ g # Queue[i + 1]
      BY <1>0, <3>1 DEF QueueInv
    <3>5. ASSUME NEW j \in Waiting', i < j PROVE Queue'[i] < Queue'[j]
      <4>1. j + 1 \in Waiting /\ i + 1 < j + 1 /\ Queue'[j] = Queue[j + 1]
        BY <1>6, <2>1, <3>5
      <4> QED BY <1>0, <3>1, <4>1 DEF QueueInv
    <3> QED BY <1>1, <1>2, <3>1, <3>2, <3>3, <3>4, <3>5
  <2>2. acked' <= issued /\ store.latest <= issued
    BY <1>0, <1>1, <1>2 DEF QueueInv
  <2>3. Dirs' = Dirs /\ \A dir \in Dirs : \A g \in Files(dir) : g <= issued
    BY <1>0, <1>1 DEF QueueInv, Dirs
  <2> QED BY <1>1, <1>4, <2>1, <2>2, <2>3 DEF QueueInv
<1>9. StepInv'
  <2>1. Queue' # <<>> => Queue'[Len(Queue')] = store.last
    <3>1. CASE Queue' # <<>>
      <4>1. Len(Queue') \in Waiting' /\ Len(Queue') + 1 = Len(Queue)
        BY <1>3, <1>4, <3>1, QueueLemma DEF Waiting
      <4> QED BY <1>0, <1>1, <1>6, <4>1 DEF StepInv
    <3> QED BY <3>1
  <2>2. Queue' = <<>> => acked' = store.last
    BY <1>0, <1>1, <1>2, <1>3, <1>4 DEF StepInv
  <2>3. ~store.closed
    BY <1>0, <1>1 DEF StepInv
  <2> QED BY <1>0, <1>1, <1>4, <1>5, <2>1, <2>2, <2>3 DEF StepInv
<1>10. FilesInv'
  BY <1>0, <1>1, <1>4, StateFacts DEF FilesInv, Dirs
<1>11. FreshInv'
  BY <1>0, <1>1, <1>4, StateFacts DEF FreshInv, FilesInv, Dirs
<1>12. LosslessInv'
  BY <1>0, <1>1, <1>4 DEF LosslessInv, Dirs
<1>13. AckedSurvives'
  <2> SUFFICES ASSUME lost = 0 PROVE AckedSurvives'
    BY <1>1 DEF AckedSurvives
  <2>1. store.latest \in Generations
    BY <1>0, <1>1 DEF FilesInv, Files
  <2>2. disk[store.latest] = Head(Queue) /\ safe[store.latest] = Head(Queue)
    BY <1>0, <1>1 DEF LosslessInv
  <2>3. \A h \in Above(Generations, store.latest), dir \in {disk, safe} : dir[h] = Absent
    <3> SUFFICES ASSUME NEW h \in Above(Generations, store.latest), NEW dir \in Dirs
                 PROVE  h \notin Files(dir)
      BY DEF Dirs, Files, Above
    <3>1. h > store.latest /\ h \in Int /\ store.latest \in Int
      BY StateFacts, Constants DEF Above
    <3>2. \A g \in Files(dir) : g <= store.latest
      BY <1>0, <1>1 DEF FilesInv
    <3> QED BY <3>1, <3>2
  <2> QED BY <1>1, <1>2, <2>1, <2>2, <2>3 DEF AckedSurvives
<1> QED BY <1>7, <1>8, <1>9, <1>10, <1>11, <1>12, <1>13 DEF IInv

\* A load that ends well: the newest generation becomes the latest, the files
\* it could not use count as corrupt.
LEMMA LoadedStep ==
    ASSUME IInv, NEW latest, NEW corrupt,
           store' = [store EXCEPT !.loaded = TRUE, !.latest = latest, !.corrupt = corrupt],
           disk' = disk, safe' = safe, issued' = issued, acked' = acked,
           acks' \in Nat, failed' \in Nat, lost' \in Nat, lost' = 0 => lost = 0,
           store.up, ~store.closed, store.step = "idle",
           corrupt \subseteq Files(disk),
           \/ Files(disk) = {} /\ latest = store.latest
           \/ latest \in Files(disk) /\ \A g \in Files(disk) : g <= latest
    PROVE  IInv'
<1>0. TypeOK /\ QueueInv /\ StepInv /\ FilesInv /\ FreshInv /\ LosslessInv /\ AckedSurvives
  BY DEF IInv
<1>1. latest \in 0 .. MaxSaves /\ latest \in Generations \cup {0} /\ corrupt \subseteq Generations
  BY StateFacts, Constants, SMTT(30) DEF Files, Dirs
<1>2. /\ store' \in Store /\ Queue' = Queue /\ Waiting' = Waiting /\ store'.step = "idle"
      /\ store'.up = store.up /\ store'.loaded /\ store'.latest = latest
      /\ store'.corrupt = corrupt /\ store'.last = store.last
  BY <1>0, <1>1 DEF TypeOK, Store, Queue, Waiting
<1>3. /\ store'.lastFailed = store.lastFailed /\ store'.closing = store.closing
      /\ store'.closed = store.closed
  BY <1>0 DEF TypeOK, Store
<1>4. Dirs' = Dirs
  BY DEF Dirs
<1>5. TypeOK'
  BY <1>0, <1>2 DEF TypeOK
<1>6. QueueInv'
  <2>1. latest <= issued /\ \A i \in Waiting : latest <= Queue[i] /\ latest # Queue[i]
    BY <1>0 DEF QueueInv, Dirs
  <2>2. \A dir \in Dirs : \A g \in Files(dir) :
          g <= issued /\ \A i \in Waiting : g <= Queue[i] /\ g # Queue[i]
    BY <1>0 DEF QueueInv
  <2>3. /\ acked <= issued
        /\ \A i \in Waiting : acked < Queue[i] /\ Queue[i] <= issued
        /\ \A i, j \in Waiting : i < j => Queue[i] < Queue[j]
    BY <1>0 DEF QueueInv
  <2> QED BY <1>2, <1>4, <2>1, <2>2, <2>3 DEF QueueInv
<1>7. StepInv'
  BY <1>0, <1>2, <1>3 DEF StepInv
<1>8. \A dir \in Dirs : \A g \in Files(dir) : g <= latest
  <2>1. CASE Files(disk) = {}
    BY <1>0, <2>1 DEF FilesInv, Dirs
  <2>2. CASE \A g \in Files(disk) : g <= latest
    BY <1>0, <1>1, <2>2, StateFacts DEF FilesInv, Dirs
  <2> QED BY <2>1, <2>2
<1>9. FilesInv'
  <2>1. \A g \in Files(safe) : \E h \in Files(disk) : g <= h
    BY <1>0 DEF FilesInv
  <2>2. \A g \in corrupt : g < latest \/ g = latest
    BY <1>1, <1>8, StateFacts DEF Dirs
  <2> QED BY <1>2, <1>4, <1>8, <2>1, <2>2 DEF FilesInv
<1>10. FreshInv'
  <2>1. \A g \in Files(disk) : ~(g > latest)
    BY <1>1, <1>8, StateFacts DEF Dirs
  <2> QED BY <1>2, <2>1 DEF FreshInv
<1>11. LosslessInv' /\ AckedSurvives'
  BY <1>0, <1>2 DEF LosslessInv, AckedSurvives, Dirs
<1> QED BY <1>5, <1>6, <1>7, <1>9, <1>10, <1>11 DEF IInv

\* A load finds no file, none it can use, or one.
LEMMA LoadStep ==
    ASSUME IInv, NEW misread \in SUBSET Generations, Load(misread)
    PROVE  IInv'
<1> DEFINE F == Files(disk)
           bad == {g \in F : disk[g] = Corrupt} \cup misread
           tried(g) == Above(F, g) \subseteq bad
           found == {g \in F \ bad : tried(g)}
           known == [store EXCEPT !.corrupt = @ \cup {g \in bad : tried(g)}]
           corrupt == store.corrupt \cup {g \in bad : tried(g)}
<1>0. TypeOK /\ StepInv /\ FilesInv
  BY DEF IInv
<1>1. /\ store.up /\ ~store.closed /\ ~store.loaded /\ store.step = "idle"
      /\ misread \subseteq F /\ lost' = lost + Cardinality(misread)
      /\ store' = IF F = {} THEN [store EXCEPT !.loaded = TRUE]
                  ELSE IF found = {} THEN Rejected([known EXCEPT !.latest = LatestFile(F, found)])
                  ELSE [known EXCEPT !.loaded = TRUE, !.latest = LatestFile(F, found)]
      /\ UNCHANGED <<disk, safe, issued, acked, acks, failed>>
  BY DEF Load
<1>2. lost' \in Nat /\ (lost' = 0 => lost = 0) /\ acks' \in Nat /\ failed' \in Nat
  <2>1. Cardinality(misread) \in Nat
    <3>1. IsFiniteSet(Generations)
      BY Constants, FS_Interval
    <3>2. IsFiniteSet(misread)
      BY <3>1, FS_Subset
    <3> QED BY <3>2, FS_CardinalityType
  <2> QED BY <1>0, <1>1, <2>1 DEF TypeOK
<1>3. corrupt \subseteq F
  BY <1>0, <1>1 DEF FilesInv
<1>4. F # {} => LatestFile(F, found) \in F /\ \A g \in F : g <= LatestFile(F, found)
  BY NewestLemma DEF LatestFile, Files
<1>5. store \in Store /\ known = [store EXCEPT !.corrupt = corrupt]
  BY <1>0 DEF TypeOK
<1> HIDE DEF F, found, known, corrupt, tried
<1>6. CASE F = {}
  <2>1. store.corrupt = {} /\ store' = [store EXCEPT !.loaded = TRUE]
    BY <1>0, <1>1, <1>6 DEF FilesInv, F
  <2>2. store' = [store EXCEPT !.loaded = TRUE, !.latest = store.latest, !.corrupt = {}]
    BY <1>5, <2>1 DEF Store
  <2> QED BY <1>1, <1>2, <1>6, <2>2, LoadedStep DEF F
<1>7. CASE F # {} /\ found = {}
  <2> DEFINE s == [known EXCEPT !.latest = LatestFile(F, found)]
  <2>1. store' = Rejected(s)
    BY <1>1, <1>7
  <2>2. /\ s \in Store /\ s.latest = LatestFile(F, found) /\ s.corrupt = corrupt
        /\ s.up = store.up /\ s.loaded = store.loaded /\ s.queue = store.queue
        /\ s.step = store.step /\ s.last = store.last /\ s.lastFailed = store.lastFailed
        /\ s.closing = store.closing /\ s.closed = store.closed
    BY <1>3, <1>4, <1>5, <1>7 DEF Store, F, Files
  <2> HIDE DEF s
  <2> QED BY <1>1, <1>2, <1>3, <1>4, <1>7, <2>1, <2>2, RejectedStep DEF F
<1>8. CASE F # {} /\ found # {}
  <2>1. store' = [known EXCEPT !.loaded = TRUE, !.latest = LatestFile(F, found)]
    BY <1>1, <1>8
  <2>2. store' = [store EXCEPT !.loaded = TRUE, !.latest = LatestFile(F, found),
                               !.corrupt = corrupt]
    BY <1>5, <2>1 DEF Store
  <2> QED BY <1>1, <1>2, <1>3, <1>4, <1>8, <2>2, LoadedStep DEF F
<1> QED BY <1>6, <1>7, <1>8

\* A load that is refused knows the newest generation all the same.
LEMMA LoadRefusedStep ==
    ASSUME IInv, NEW g \in Generations, LoadRefused(g)
    PROVE  IInv'
<1> DEFINE F == Files(disk)
           s == [store EXCEPT !.latest = Newest(F), !.corrupt = @ \cup Above(F, g)]
<1>0. TypeOK /\ StepInv /\ FilesInv
  BY DEF IInv
<1>1. /\ store.up /\ ~store.closed /\ ~store.loaded /\ store.step = "idle" /\ g \in F
      /\ store' = Rejected(s) /\ UNCHANGED <<disk, safe, issued, acked, acks, lost, failed>>
  BY DEF LoadRefused
<1>2. Newest(F) \in F /\ Above(F, g) \subseteq F /\ store.corrupt \subseteq F
  <2>1. F \in SUBSET Generations /\ F # {}
    BY <1>1 DEF Files
  <2> QED BY <1>0, <1>1, <2>1, NewestLemma DEF Above, FilesInv
<1>3. /\ s \in Store /\ s.latest = Newest(F) /\ s.corrupt = store.corrupt \cup Above(F, g)
      /\ s.up = store.up /\ s.loaded = store.loaded /\ s.queue = store.queue
      /\ s.step = store.step /\ s.last = store.last /\ s.lastFailed = store.lastFailed
      /\ s.closing = store.closing /\ s.closed = store.closed
  BY <1>0, <1>2 DEF TypeOK, Store, Files
<1> HIDE DEF s
<1>4. acks' \in Nat /\ failed' \in Nat /\ lost' \in Nat /\ (lost' = 0 => lost = 0)
  BY <1>0, <1>1 DEF TypeOK
<1> QED BY <1>1, <1>2, <1>3, <1>4, RejectedStep

-----------------------------------------------------------------------------
(* The theorems                                                            *)

LEMMA NextIInv == IInv /\ [Next]_vars => IInv'
<1> SUFFICES ASSUME IInv, [Next]_vars PROVE IInv'
  OBVIOUS
<1>1. CASE Open \/ Crash
  BY <1>1, OpenStep
<1>2. CASE \E misread \in SUBSET Generations : Load(misread)
  BY <1>2, LoadStep
<1>3. CASE \E g \in Generations : LoadRefused(g)
  BY <1>3, LoadRefusedStep
<1>4. CASE Save
  BY <1>4, SaveStep
<1>5. CASE Write
  BY <1>5, WriteStep
<1>6. CASE Rename
  BY <1>6, RenameStep
<1>7. CASE Fail \/ PruneFails
  BY <1>7, FailStep
<1>8. CASE SyncDirectory
  BY <1>8, SyncDirectoryStep
<1>9. CASE Unlink
  BY <1>9, UnlinkStep
<1>10. CASE Acknowledge
  BY <1>10, AcknowledgeStep
<1>11. CASE Close \/ Closed
  BY <1>11, CloseStep
<1>12. CASE PowerLoss
  BY <1>12, PowerLossStep
<1>13. CASE \E g \in Generations : Damage(g)
  BY <1>13, DamageStep
<1>14. CASE UNCHANGED vars
  BY <1>14 DEF vars, IInv, TypeOK, QueueInv, StepInv, FilesInv, FreshInv, LosslessInv,
               AckedSurvives, Queue, Waiting, Dirs, Files, Generation
<1> QED BY <1>1, <1>2, <1>3, <1>4, <1>5, <1>6, <1>7, <1>8, <1>9, <1>10, <1>11, <1>12, <1>13,
           <1>14 DEF Next

LEMMA Invariance == Spec => []IInv
BY InitIInv, NextIInv, PTL DEF Spec

\* The fields of the store keep their types: a store never counts beyond the
\* generations its saves can have made.
THEOREM CheckpointTypeCorrect == Spec => []TypeOK
BY Invariance, PTL DEF IInv

\* Whatever crashes, power losses and failed saves do, an acknowledged
\* snapshot, or a later one, is what a load finds, unless a file of the
\* directory was damaged or misread.
THEOREM AcknowledgedSurvives == Spec => []AckedSurvives
BY Invariance, PTL DEF IInv

\* No save is renamed to a generation that holds an acknowledged snapshot,
\* not even when files are damaged and the newest ones skipped by a load.
THEOREM NamesAreFresh == Spec => []FreshName
<1>1. IInv => FreshName
  <2> SUFFICES ASSUME IInv, store.up, store.loaded, store.step \in {"idle", "written"},
                      NEW g \in Generations, g > store.latest
               PROVE  disk[g] = Absent \/ disk[g] = Corrupt \/ disk[g] > acked
    BY DEF FreshName
  <2> QED BY DEF IInv, FreshInv, Files
<1> QED BY <1>1, Invariance, PTL

\* close() resolves only when the last snapshot given to save() is
\* acknowledged, whatever is queued and whatever has failed before.
THEOREM CloseFlushesLast == Spec => []CloseFlushes
<1>1. IInv => CloseFlushes
  BY DEF IInv, StepInv, CloseFlushes
<1> QED BY <1>1, Invariance, PTL
-----------------------------------------------------------------------------
(* What is left to fall back on                                            *)

\* Files that are damaged, or would be again after a power loss.
Damaged == {g \in Generations : disk[g] = Corrupt \/ safe[g] = Corrupt}

\* The generations a power loss cannot take, those a prune will leave of them,
\* and these with the one that is being saved.
Standing == Intact(disk) \cap Intact(safe)
Renamed == IF store.step = "renamed" THEN {Generation} \cap Intact(disk) ELSE {}
Kept == (Standing \ store.corrupt) \ store.victims
KeptNow == ((Standing \cup Renamed) \ store.corrupt) \ store.victims

Enough(S, faults, n) ==
    \/ Cardinality(S) + faults >= MaxGenerations
    \/ Cardinality(S) + faults >= n

\* A file that is misread counts as corrupt from then on, and one that is
\* damaged may be kept in place of an intact one: each loss costs one
\* generation at most, at once or when the next save prunes.
KeptInv ==
    /\ Cardinality(Damaged) <= lost
    /\ store.step # "pruning" => store.victims = {}
    /\ store.loaded => \A g \in Files(safe) : g <= store.latest
    /\ Enough(Kept, lost, acks)
    /\ store.step \in {"renamed", "pruning"} => Enough(KeptNow, lost, acks + 1)

\* Sets of generations are finite, and no larger than two that cover them.
LEMMA Counting ==
    ASSUME NEW S \in SUBSET Generations
    PROVE  /\ IsFiniteSet(S) /\ Cardinality(S) \in Nat
           /\ \A T, D \in SUBSET Generations :
                S \subseteq T \cup D => Cardinality(S) <= Cardinality(T) + Cardinality(D)
<1>1. \A T \in SUBSET Generations : IsFiniteSet(T) /\ Cardinality(T) \in Nat
  <2>1. IsFiniteSet(Generations)
    BY Constants, FS_Interval
  <2> QED BY <2>1, FS_Subset, FS_CardinalityType
<1>2. ASSUME NEW T \in SUBSET Generations, NEW D \in SUBSET Generations, S \subseteq T \cup D
      PROVE  Cardinality(S) <= Cardinality(T) + Cardinality(D)
  <2>1. /\ IsFiniteSet(T) /\ IsFiniteSet(D) /\ T \cap D \in SUBSET Generations
        /\ T \cup D \in SUBSET Generations
    BY <1>1
  <2>2. Cardinality(T \cup D) = Cardinality(T) + Cardinality(D) - Cardinality(T \cap D)
    BY <2>1, FS_Union
  <2>3. Cardinality(S) <= Cardinality(T \cup D)
    <3>1. IsFiniteSet(T \cup D) /\ S \in SUBSET (T \cup D)
      BY <1>1, <1>2, <2>1
    <3> QED BY <3>1, FS_Subset
  <2>4. /\ Cardinality(S) \in Nat /\ Cardinality(T) \in Nat /\ Cardinality(D) \in Nat
        /\ Cardinality(T \cup D) \in Nat /\ Cardinality(T \cap D) \in Nat
    BY <1>1, <2>1
  <2> QED BY <2>2, <2>3, <2>4
<1> QED BY <1>1, <1>2

\* There is enough left when what is missing was counted as lost.
LEMMA StillEnough ==
    ASSUME NEW S \in SUBSET Generations, NEW T \in SUBSET Generations,
           NEW D \in SUBSET Generations, S \subseteq T \cup D,
           NEW f \in Nat, NEW n \in Nat, NEW e \in Nat, NEW k \in Nat,
           Enough(S, f, n), Cardinality(D) + f <= e, k <= n
    PROVE  Enough(T, e, k)
<1>1. /\ Cardinality(S) \in Nat /\ Cardinality(T) \in Nat /\ Cardinality(D) \in Nat
      /\ Cardinality(S) <= Cardinality(T) + Cardinality(D)
  BY Counting
<1>2. Cardinality(S) + f <= Cardinality(T) + e
  BY <1>1
<1> QED BY <1>1, <1>2, Constants DEF Enough

\* The types of what KeptInv speaks of.
LEMMA KeptFacts ==
    ASSUME IInv
    PROVE  /\ Damaged \in SUBSET Generations /\ Kept \in SUBSET Generations
           /\ KeptNow \in SUBSET Generations /\ lost \in Nat /\ acks \in Nat
           /\ store \in Store
<1>1. TypeOK
  BY DEF IInv
<1> QED BY <1>1 DEF TypeOK, Damaged, Kept, KeptNow, Standing, Renamed, Intact

\* A step that loses no more generations than it counts.
LEMMA KeptStep ==
    ASSUME IInv, IInv', KeptInv, acks' = acks,
           NEW D \in SUBSET Generations, Cardinality(D) + lost <= lost',
           Damaged' \subseteq Damaged \cup D, Kept \subseteq Kept' \cup D,
           store'.step \in {"renamed", "pruning"} =>
               store'.step = store.step /\ KeptNow \subseteq KeptNow' \cup D,
           store'.step # "pruning" => store'.victims = {},
           store'.loaded => \A g \in Files(safe') : g <= store'.latest
    PROVE  KeptInv'
<1>1. /\ Damaged \in SUBSET Generations /\ Kept \in SUBSET Generations
      /\ KeptNow \in SUBSET Generations /\ lost \in Nat /\ acks \in Nat
  BY KeptFacts
<1>2. /\ Damaged' \in SUBSET Generations /\ Kept' \in SUBSET Generations
      /\ KeptNow' \in SUBSET Generations /\ lost' \in Nat
  BY DEF IInv, TypeOK, Damaged, Kept, KeptNow, Standing, Renamed, Intact
<1>3. Cardinality(Damaged') <= lost'
  <2>1. Cardinality(Damaged') <= Cardinality(Damaged) + Cardinality(D)
    BY <1>1, <1>2, Counting
  <2>2. Cardinality(Damaged') \in Nat /\ Cardinality(Damaged) \in Nat /\ Cardinality(D) \in Nat
        /\ Cardinality(Damaged) <= lost
    BY <1>1, <1>2, Counting DEF KeptInv
  <2> QED BY <1>1, <1>2, <2>1, <2>2
<1>4. Enough(Kept', lost', acks)
  BY <1>1, <1>2, StillEnough DEF KeptInv
<1>5. store'.step \in {"renamed", "pruning"} => Enough(KeptNow', lost', acks + 1)
  <2> SUFFICES ASSUME store'.step \in {"renamed", "pruning"}
               PROVE  Enough(KeptNow', lost', acks + 1)
    OBVIOUS
  <2>1. Enough(KeptNow, lost, acks + 1) /\ KeptNow \subseteq KeptNow' \cup D
    BY DEF KeptInv
  <2> QED BY <1>1, <1>2, <2>1, StillEnough
<1> QED BY <1>3, <1>4, <1>5 DEF KeptInv, Enough

\* The store after a save is rejected: no unlinks are left.
LEMMA RejectedVictims ==
    ASSUME NEW s \in Store
    PROVE  Rejected(s).victims = IF s.queue = <<>> THEN s.victims ELSE {}
BY DEF Rejected, Store

\* A step of the store alone, which forgets corrupt files and unlinks or keeps
\* them.
LEMMA QuietKept ==
    ASSUME IInv, IInv', KeptInv, UNCHANGED <<disk, safe, acks, lost>>,
           store'.corrupt \subseteq store.corrupt, store'.victims \subseteq store.victims,
           store'.step \in {"renamed", "pruning"} =>
               store'.step = store.step /\ store'.latest = store.latest,
           store'.step # "pruning" => store'.victims = {},
           store'.loaded => store.loaded /\ store'.latest = store.latest
    PROVE  KeptInv'
<1> DEFINE D == {}
<1>1. D \in SUBSET Generations /\ Cardinality(D) = 0
  BY FS_EmptySet
<1>2. Cardinality(D) + lost <= lost'
  BY <1>1, KeptFacts
<1>3. Damaged' \subseteq Damaged \cup D /\ Kept \subseteq Kept' \cup D
  BY DEF Damaged, Kept, Standing, Intact
<1>4. store'.step \in {"renamed", "pruning"} =>
          store'.step = store.step /\ KeptNow \subseteq KeptNow' \cup D
  BY DEF KeptNow, Standing, Renamed, Intact, Generation
<1>5. store'.loaded => \A g \in Files(safe') : g <= store'.latest
  BY DEF KeptInv, Files
<1> HIDE DEF D
<1> QED BY <1>1, <1>2, <1>3, <1>4, <1>5, KeptStep

\* Nothing is on disk, and nothing lost.
LEMMA InitKept == Init => KeptInv
<1> SUFFICES ASSUME Init PROVE KeptInv
  OBVIOUS
<1>1. /\ disk = [g \in Generations |-> Absent] /\ safe = disk /\ store = NewStore
      /\ acks = 0 /\ lost = 0
  BY DEF Init
<1>2. /\ store.step = "idle" /\ store.victims = {} /\ ~store.loaded
  BY <1>1 DEF NewStore
<1>3. Damaged = {}
  BY <1>1, Constants DEF Damaged
<1>4. Kept \in SUBSET Generations
  BY DEF Kept, Standing, Intact
<1>5. Cardinality(Damaged) = 0 /\ Cardinality(Kept) \in Nat
  BY <1>3, <1>4, FS_EmptySet, Counting
<1> QED BY <1>1, <1>2, <1>5 DEF KeptInv, Enough

\* The steps that only change the store.
LEMMA StoreKept ==
    ASSUME IInv, IInv', KeptInv,
           Open \/ Crash \/ Save \/ Write \/ Fail \/ PruneFails \/ Close \/ Closed
    PROVE  KeptInv'
<1>1. store \in Store /\ StepInv
  BY KeptFacts DEF IInv
<1>2. UNCHANGED <<disk, safe, acks, lost>>
  BY DEF Open, Crash, Save, Write, Fail, PruneFails, Close, Closed
<1>3. CASE Open \/ Crash
  <2>1. /\ store'.corrupt = {} /\ store'.victims = {} /\ store'.step = "idle" /\ ~store'.loaded
    BY <1>3 DEF Open, Crash, NewStore
  <2> QED BY <1>2, <2>1, QuietKept
<1>4. CASE Save \/ Write \/ Close \/ Closed
  <2>1. /\ store'.corrupt = store.corrupt /\ store'.victims = store.victims
        /\ store'.latest = store.latest /\ store'.loaded = store.loaded
        /\ \/ store'.step = store.step
           \/ store.step = "idle" /\ store'.step = "written"
    BY <1>1, <1>4 DEF Save, Write, Close, Closed, Store
  <2> QED BY <1>2, <2>1, QuietKept DEF KeptInv
<1>5. CASE Fail \/ PruneFails
  <2>1. store' = Rejected(store) /\ store.step # "idle"
    BY <1>5 DEF Fail, PruneFails
  <2>2. store.queue # <<>>
    BY <1>1, <2>1 DEF StepInv, Queue
  <2>3. /\ store'.step = "idle" /\ store'.corrupt = store.corrupt /\ store'.latest = store.latest
        /\ store'.loaded = store.loaded /\ store'.victims = {}
    BY <1>1, <2>1, <2>2, RejectedLemma, RejectedVictims
  <2> QED BY <1>2, <2>3, QuietKept
<1> QED BY <1>3, <1>4, <1>5

\* A power loss keeps what stands in both directories.
LEMMA PowerLossKept ==
    ASSUME IInv, IInv', KeptInv, PowerLoss
    PROVE  KeptInv'
<1> DEFINE D == {}
<1>1. D \in SUBSET Generations /\ Cardinality(D) = 0
  BY FS_EmptySet
<1>2. /\ store' = NewStore /\ safe' = disk' /\ UNCHANGED <<acks, lost>>
  BY DEF PowerLoss
<1>3. \A g \in Generations : disk'[g] = disk[g] \/ disk'[g] = safe[g]
  BY DEF PowerLoss
<1>4. /\ store'.corrupt = {} /\ store'.victims = {} /\ store'.step = "idle" /\ ~store'.loaded
  BY <1>2 DEF NewStore
<1>5. Cardinality(D) + lost <= lost'
  BY <1>1, <1>2, KeptFacts
<1>6. Damaged' \subseteq Damaged \cup D
  BY <1>2, <1>3 DEF Damaged
<1>7. Kept \subseteq Kept' \cup D
  BY <1>2, <1>3, <1>4 DEF Kept, Standing, Intact
<1> HIDE DEF D
<1> QED BY <1>1, <1>2, <1>4, <1>5, <1>6, <1>7, KeptStep

\* Damage takes one generation and counts one.
LEMMA DamageKept ==
    ASSUME IInv, IInv', KeptInv, NEW d \in Generations, Damage(d)
    PROVE  KeptInv'
<1>1. {d} \in SUBSET Generations /\ Cardinality({d}) = 1
  BY FS_Singleton
<1>2. /\ UNCHANGED <<store, acks>> /\ lost' = lost + 1
      /\ disk' = [disk EXCEPT ![d] = Corrupt]
      /\ safe' = [safe EXCEPT ![d] = IF @ = Absent THEN Absent ELSE Corrupt]
  BY DEF Damage
<1>3. disk \in [Generations -> Content] /\ safe \in [Generations -> Content]
  BY StateFacts
<1>4. \A g \in Generations : g # d => disk'[g] = disk[g] /\ safe'[g] = safe[g]
  BY <1>2, <1>3
<1>5. Cardinality({d}) + lost <= lost'
  BY <1>1, <1>2, KeptFacts
<1>6. Damaged' \subseteq Damaged \cup {d} /\ Kept \subseteq Kept' \cup {d}
  BY <1>2, <1>4 DEF Damaged, Kept, Standing, Intact
<1>7. KeptNow \subseteq KeptNow' \cup {d}
  BY <1>2, <1>4 DEF KeptNow, Standing, Renamed, Intact, Generation
<1>8. Files(safe') = Files(safe)
  BY <1>2, <1>3, Constants DEF Files
<1>9. /\ store.step # "pruning" => store.victims = {}
      /\ store.loaded => \A g \in Files(safe) : g <= store.latest
  BY DEF KeptInv
<1> QED BY <1>1, <1>2, <1>5, <1>6, <1>7, <1>8, <1>9, KeptStep

\* What a load could not use it takes for corrupt: it was damaged already, or it
\* is counted as misread.
LEMMA LoadKept ==
    ASSUME IInv, IInv', KeptInv, NEW misread \in SUBSET Generations, Load(misread)
    PROVE  KeptInv'
<1> DEFINE F == Files(disk)
           bad == {g \in F : disk[g] = Corrupt} \cup misread
           tried(g) == Above(F, g) \subseteq bad
           found == {g \in F \ bad : tried(g)}
           corrupt == store.corrupt \cup {g \in bad : tried(g)}
           known == [store EXCEPT !.corrupt = corrupt]
           top == LatestFile(F, found)
<1>0. store \in Store /\ FilesInv
  BY KeptFacts DEF IInv
<1>1. /\ ~store.loaded /\ store.step = "idle"
      /\ lost' = lost + Cardinality(misread)
      /\ store' = IF F = {} THEN [store EXCEPT !.loaded = TRUE]
                  ELSE IF found = {} THEN Rejected([known EXCEPT !.latest = top])
                  ELSE [known EXCEPT !.loaded = TRUE, !.latest = top]
      /\ UNCHANGED <<disk, safe, acks>>
  BY DEF Load
<1>2. F # {} => top \in F /\ \A g \in F : g <= top
  BY NewestLemma DEF LatestFile, Files
<1>3. \A g \in Files(safe) : \E h \in F : g <= h
  BY <1>0 DEF FilesInv
<1>4. \A g \in corrupt : g \in store.corrupt \/ disk[g] = Corrupt \/ g \in misread
  OBVIOUS
<1>5. corrupt \in SUBSET Generations
  BY <1>0 DEF Store, Files
<1>6. store.victims = {} /\ lost \in Nat /\ Cardinality(misread) \in Nat
  BY <1>1, KeptFacts, Counting DEF KeptInv
<1> HIDE DEF F, found, corrupt, top
<1>7. /\ store'.step = "idle" /\ store'.victims = {}
      /\ store'.corrupt \subseteq corrupt \cup store.corrupt
      /\ store'.loaded => F = {} \/ store'.latest = top
  <2>1. CASE F = {}
    BY <1>0, <1>1, <1>6, <2>1 DEF Store
  <2>2. CASE F # {} /\ found = {}
    <3> DEFINE s == [known EXCEPT !.latest = top]
    <3>1. store' = Rejected(s)
      BY <1>1, <2>2
    <3>2. /\ s \in Store /\ s.corrupt = corrupt /\ s.step = "idle" /\ s.loaded = store.loaded
          /\ s.victims = {}
      BY <1>0, <1>1, <1>2, <1>5, <1>6, <2>2 DEF Store, F, Files
    <3> HIDE DEF s
    <3> QED BY <1>1, <3>1, <3>2, RejectedLemma, RejectedVictims
  <2>3. CASE F # {} /\ found # {}
    BY <1>0, <1>1, <1>6, <2>3 DEF Store
  <2> QED BY <2>1, <2>2, <2>3
<1>8. Damaged' \subseteq Damaged \cup misread
  BY <1>1 DEF Damaged
<1>9. Kept \subseteq Kept' \cup misread
  <2>1. ASSUME NEW g \in Kept, g \notin misread PROVE g \in Kept'
    <3>1. g \in Generations /\ disk[g] \in Snapshots /\ g \notin store.corrupt /\ g \in Standing
      BY <2>1 DEF Kept, Standing, Intact
    <3>2. disk[g] # Corrupt
      BY <3>1, Constants
    <3>3. g \notin store'.corrupt
      BY <1>4, <1>7, <2>1, <3>1, <3>2
    <3>4. Standing' = Standing
      BY <1>1 DEF Standing, Intact
    <3> QED BY <1>7, <3>1, <3>3, <3>4 DEF Kept
  <2> QED BY <2>1
<1>10. ASSUME store'.loaded, NEW g \in Files(safe') PROVE g <= store'.latest
  <2>1. g \in Files(safe) /\ g \in Int
    BY <1>1, <1>10, Constants DEF Files
  <2>2. PICK h \in F : g <= h
    BY <1>3, <2>1
  <2>3. store'.latest = top /\ top \in F /\ h <= top
    BY <1>2, <1>7, <1>10, <2>2
  <2>4. h \in Int /\ top \in Int
    BY <2>3, Constants DEF F, Files
  <2> QED BY <2>1, <2>2, <2>3, <2>4
<1>11. Cardinality(misread) + lost <= lost'
  BY <1>1, <1>6
<1>12. store'.step \notin {"renamed", "pruning"} /\ acks' = acks
  BY <1>1, <1>7
<1> QED BY <1>7, <1>8, <1>9, <1>10, <1>11, <1>12, KeptStep

\* A load that is refused has met only damaged files before.
LEMMA LoadRefusedKept ==
    ASSUME IInv, IInv', KeptInv, NEW g \in Generations, LoadRefused(g)
    PROVE  KeptInv'
<1> DEFINE F == Files(disk)
           s == [store EXCEPT !.latest = Newest(F), !.corrupt = @ \cup Above(F, g)]
           D == {}
<1>0. store \in Store
  BY KeptFacts
<1>1. /\ ~store.loaded /\ store.step = "idle" /\ g \in F
      /\ \A h \in Above(F, g) : disk[h] = Corrupt
      /\ store' = Rejected(s) /\ UNCHANGED <<disk, safe, acks, lost>>
  BY DEF LoadRefused
<1>2. Newest(F) \in F /\ Above(F, g) \subseteq F /\ F \subseteq Generations
  BY <1>1, NewestLemma DEF Above, Files
<1>3. store.victims = {}
  BY <1>1 DEF KeptInv
<1>4. /\ s \in Store /\ s.corrupt = store.corrupt \cup Above(F, g) /\ s.step = "idle"
      /\ s.victims = {} /\ s.loaded = store.loaded
  BY <1>0, <1>1, <1>2, <1>3 DEF Store
<1> HIDE DEF s
<1>5. /\ store'.step = "idle" /\ store'.victims = {} /\ ~store'.loaded
      /\ store'.corrupt = store.corrupt \cup Above(F, g)
  BY <1>1, <1>4, RejectedLemma, RejectedVictims
<1>6. D \in SUBSET Generations /\ Cardinality(D) + lost <= lost'
  BY <1>1, FS_EmptySet, KeptFacts
<1>7. Damaged' \subseteq Damaged \cup D
  BY <1>1 DEF Damaged
<1>8. Kept \subseteq Kept' \cup D
  <2>1. ASSUME NEW h \in Kept PROVE h \in Kept'
    <3>1. disk[h] \in Snapshots /\ h \notin store.corrupt /\ h \in Standing
      BY <2>1 DEF Kept, Standing, Intact
    <3>2. h \notin Above(F, g)
      BY <1>1, <3>1, Constants
    <3>3. Standing' = Standing
      BY <1>1 DEF Standing, Intact
    <3> QED BY <1>5, <3>1, <3>2, <3>3 DEF Kept
  <2> QED BY <2>1
<1> HIDE DEF D
<1> QED BY <1>1, <1>5, <1>6, <1>7, <1>8, KeptStep

\* What prune unlinks it has already been denied.
LEMMA UnlinkKept ==
    ASSUME IInv, IInv', KeptInv, Unlink
    PROVE  KeptInv'
<1> DEFINE v == Newest(store.victims)
           D == {}
<1>0. store \in Store /\ FilesInv /\ disk \in [Generations -> Content]
  BY KeptFacts, StateFacts DEF IInv
<1>1. /\ store.step = "pruning" /\ store.victims # {}
      /\ disk' = [disk EXCEPT ![v] = Absent] /\ UNCHANGED <<safe, acks, lost>>
      /\ store' = [store EXCEPT !.victims = @ \ {v}, !.corrupt = @ \ {v}]
  BY DEF Unlink
<1>2. v \in store.victims /\ v \in Generations
  BY <1>0, <1>1, NewestLemma DEF Store
<1> HIDE DEF v
<1>3. /\ store'.step = store.step /\ store'.victims = store.victims \ {v}
      /\ store'.corrupt = store.corrupt \ {v} /\ store'.latest = store.latest
      /\ store'.loaded = store.loaded
  BY <1>0, <1>1 DEF Store
<1>4. \A g \in Generations : g # v => disk'[g] = disk[g]
  BY <1>0, <1>1
<1>5. disk'[v] = Absent
  BY <1>0, <1>1, <1>2
<1>6. D \in SUBSET Generations /\ Cardinality(D) + lost <= lost'
  BY <1>1, FS_EmptySet, KeptFacts
<1>7. Damaged' \subseteq Damaged \cup D
  BY <1>1, <1>4, <1>5, Constants DEF Damaged
<1>8. Kept \subseteq Kept' \cup D
  BY <1>1, <1>2, <1>3, <1>4 DEF Kept, Standing, Intact
<1>9. KeptNow \subseteq KeptNow' \cup D
  <2>1. Renamed = {} /\ Renamed' = {}
    BY <1>1, <1>3 DEF Renamed
  <2>2. KeptNow = Kept /\ KeptNow' = Kept'
    BY <2>1 DEF KeptNow, Kept
  <2> QED BY <1>8, <2>2
<1>10. store'.loaded => \A g \in Files(safe') : g <= store'.latest
  BY <1>1, <1>3 DEF KeptInv, Files
<1> HIDE DEF D
<1> QED BY <1>1, <1>3, <1>6, <1>7, <1>8, <1>9, <1>10, KeptStep

\* A checkpoint that is acknowledged was counted when it was synced.
LEMMA AcknowledgeKept ==
    ASSUME IInv, IInv', KeptInv, Acknowledge
    PROVE  KeptInv'
<1>1. /\ store.step = "pruning" /\ store.victims = {} /\ acks' = acks + 1
      /\ UNCHANGED <<disk, safe, lost>>
      /\ store' = [store EXCEPT !.step = "idle", !.queue = Tail(@)]
  BY DEF Acknowledge
<1>2. /\ store'.step = "idle" /\ store'.victims = {} /\ store'.corrupt = store.corrupt
      /\ store'.latest = store.latest /\ store'.loaded = store.loaded
  BY <1>1, KeptFacts DEF Store
<1>3. KeptNow = Kept /\ Kept' = Kept /\ Damaged' = Damaged /\ Files(safe') = Files(safe)
  <2>1. Standing' = Standing /\ Renamed = {} /\ Damaged' = Damaged /\ Files(safe') = Files(safe)
    BY <1>1 DEF Standing, Renamed, Intact, Damaged, Files
  <2> QED BY <1>1, <1>2, <2>1 DEF Kept, KeptNow
<1> QED BY <1>1, <1>2, <1>3 DEF KeptInv

\* The generation of a save is one more to fall back on.
LEMMA RenameKept ==
    ASSUME IInv, IInv', KeptInv, Rename
    PROVE  KeptInv'
<1> DEFINE n == Generation
<1>0. store \in Store /\ FilesInv /\ disk \in [Generations -> Content]
  BY KeptFacts, StateFacts DEF IInv
<1>1. /\ store.loaded /\ store.step = "written"
      /\ disk' = [disk EXCEPT ![n] = Head(Queue)] /\ UNCHANGED <<safe, acks, lost>>
      /\ store' = [store EXCEPT !.step = "renamed"]
  BY DEF Rename, Saving, Queue
<1>2. /\ store'.step = "renamed" /\ store'.victims = {} /\ store.victims = {}
      /\ store'.corrupt = store.corrupt /\ store'.latest = store.latest
      /\ store'.loaded = store.loaded
  BY <1>0, <1>1 DEF Store, KeptInv
<1>3. Head(Queue) \in Snapshots /\ store.latest < Head(Queue)
  BY <1>1, HeadFacts DEF Snapshots
<1>4. n = store.latest + 1 /\ n \in Generations /\ Generation' = n
  BY <1>2, <1>3, StateFacts, Constants, SMTT(30) DEF Generation
<1> HIDE DEF n
<1>5. n \notin Files(safe)
  <2>1. \A g \in Files(safe) : g <= store.latest
    BY <1>1 DEF KeptInv
  <2>2. ~(n <= store.latest)
    BY <1>4, StateFacts
  <2> QED BY <2>1, <2>2
<1>6. n \notin store.corrupt
  <2>1. \A g \in store.corrupt : g < store.latest \/ g = store.latest
    BY <1>0, <1>1 DEF FilesInv
  <2>2. ~(n < store.latest) /\ n # store.latest
    BY <1>4, StateFacts
  <2> QED BY <2>1, <2>2
<1>7. disk'[n] = Head(Queue) /\ \A g \in Generations : g # n => disk'[g] = disk[g]
  BY <1>0, <1>1, <1>4
<1>8. n \notin Intact(safe)
  BY <1>5, Constants DEF Files, Intact
<1>9. Standing' = Standing /\ n \notin Standing
  BY <1>1, <1>7, <1>8 DEF Standing, Intact
<1>10. Kept' = Kept /\ n \notin Kept
  BY <1>2, <1>9 DEF Kept
<1>11. KeptNow' = Kept \cup {n}
  <2>1. Renamed' = {n}
    BY <1>2, <1>3, <1>4, <1>7 DEF Renamed, Intact
  <2> QED BY <1>2, <1>6, <1>9, <2>1 DEF KeptNow, Kept
<1>12. Cardinality(KeptNow') = Cardinality(Kept) + 1 /\ Cardinality(Kept) \in Nat
       /\ lost \in Nat /\ acks \in Nat
  BY <1>10, <1>11, KeptFacts, Counting, FS_AddElement
<1>13. Enough(KeptNow', lost, acks + 1)
  <2>1. Enough(Kept, lost, acks)
    BY DEF KeptInv
  <2> QED BY <1>12, <2>1, Constants DEF Enough
<1>14. Cardinality(Damaged') <= lost
  <2>1. Damaged' \subseteq Damaged \cup {} /\ {} \in SUBSET Generations
    BY <1>1, <1>3, <1>7, Constants DEF Damaged
  <2>2. Damaged \in SUBSET Generations /\ Damaged' \in SUBSET Generations
    BY KeptFacts DEF Damaged
  <2>3. Cardinality(Damaged') <= Cardinality(Damaged) + Cardinality({})
    BY <2>1, <2>2, Counting
  <2>4. /\ Cardinality(Damaged') \in Nat /\ Cardinality(Damaged) \in Nat
        /\ Cardinality({}) = 0 /\ Cardinality(Damaged) <= lost
    BY <2>2, Counting, FS_EmptySet DEF KeptInv
  <2> QED BY <1>12, <2>3, <2>4
<1>15. store'.loaded => \A g \in Files(safe') : g <= store'.latest
  BY <1>1, <1>2 DEF KeptInv, Files
<1>16. Enough(Kept', lost, acks)
  BY <1>10 DEF KeptInv
<1> QED BY <1>1, <1>2, <1>13, <1>14, <1>15, <1>16 DEF KeptInv

\* Of more generations than are kept, a prune spares as many as it should.
LEMMA PruneSpares ==
    ASSUME NEW F \in SUBSET Generations, NEW g \in F, g \notin store.corrupt, g \in Victims(F)
    PROVE  \E S \in SUBSET (F \ store.corrupt) :
               S \cap Victims(F) = {} /\ Cardinality(S) >= MaxGenerations
<1> DEFINE good == F \ store.corrupt
           V == {x \in good : Cardinality(Above(good, x)) >= MaxGenerations}
           top == Newest(V)
<1>1. V \in SUBSET Generations /\ V # {}
  BY DEF Victims
<1>2. top \in V /\ \A x \in V : x <= top
  BY <1>1, NewestLemma
<1>3. Victims(F) = (F \cap store.corrupt) \cup V
  BY DEF Victims
<1>4. Cardinality(Above(good, top)) >= MaxGenerations
  BY <1>2
<1> DEFINE S == Above(good, top)
<1>5. S \in SUBSET (F \ store.corrupt)
  BY DEF Above
<1>6. ASSUME NEW x \in S PROVE x \notin Victims(F)
  <2>1. x \in good /\ x > top
    BY <1>6 DEF Above
  <2>2. x \in Int /\ top \in Int
    <3>1. top \in Generations /\ x \in Generations
      BY <1>1, <1>2, <2>1
    <3> HIDE DEF top, good
    <3> QED BY <3>1, Constants
  <2>3. ~(x <= top)
    <3> HIDE DEF top, good
    <3> QED BY <2>1, <2>2
  <2>4. x \notin V
    BY <1>2, <2>3
  <2> QED BY <1>3, <2>1, <2>4
<1> HIDE DEF S, V, top
<1>7. S \cap Victims(F) = {}
  BY <1>6
<1>8. Cardinality(S) >= MaxGenerations
  BY <1>4 DEF S
<1> QED BY <1>5, <1>7, <1>8

\* Syncing decides what is unlinked: nothing intact, or only what is beyond the
\* generations kept, of which no more are damaged than were lost.
LEMMA SyncDirectoryKept ==
    ASSUME IInv, IInv', KeptInv, SyncDirectory
    PROVE  KeptInv'
<1> DEFINE F == Files(disk)
           V == Victims(F)
<1>0. store \in Store /\ FilesInv /\ StepInv /\ disk \in [Generations -> Content]
  BY KeptFacts, StateFacts DEF IInv
<1>1. /\ store.step = "renamed" /\ safe' = disk /\ UNCHANGED <<disk, acks, lost>>
      /\ store' = [store EXCEPT !.step = "pruning", !.latest = Generation, !.victims = V]
  BY DEF SyncDirectory
<1>2. /\ store'.step = "pruning" /\ store'.victims = V /\ store'.corrupt = store.corrupt
      /\ store'.latest = Generation /\ store.victims = {} /\ store.loaded
  <2>1. store'.step = "pruning" /\ store'.victims = V /\ store'.corrupt = store.corrupt
        /\ store'.latest = Generation
    BY <1>0, <1>1 DEF Store
  <2> QED BY <1>0, <1>1, <2>1 DEF KeptInv, StepInv
<1>3. V \subseteq F /\ F \in SUBSET Generations
  BY DEF Victims, Files
<1>4. Kept' = (Intact(disk) \ store.corrupt) \ V /\ KeptNow' = Kept'
  <2>1. Standing' = Intact(disk) /\ Renamed' = {}
    BY <1>1, <1>2 DEF Standing, Renamed, Intact
  <2> QED BY <1>2, <2>1 DEF Kept, KeptNow
<1>5. KeptNow \subseteq Intact(disk) \ store.corrupt /\ Intact(disk) \subseteq F
  <2>1. Intact(disk) \subseteq F
    BY Constants DEF Intact, Files
  <2>2. Standing \cup Renamed \subseteq Intact(disk)
    BY DEF Standing, Renamed
  <2> QED BY <2>1, <2>2 DEF KeptNow
<1>6. /\ Damaged \in SUBSET Generations /\ KeptNow \in SUBSET Generations
      /\ Kept' \in SUBSET Generations /\ Damaged' \in SUBSET Generations
      /\ lost \in Nat /\ acks \in Nat
  BY <1>3, <1>4, <1>5, KeptFacts DEF Damaged
<1>7. Damaged' \subseteq Damaged
  BY <1>1 DEF Damaged
<1>8. Cardinality(Damaged') <= lost /\ Cardinality(Damaged) <= lost
  <2>1. Cardinality(Damaged') <= Cardinality(Damaged)
    <3>1. IsFiniteSet(Damaged) /\ Damaged' \in SUBSET Damaged
      BY <1>6, <1>7, Counting
    <3> QED BY <3>1, FS_Subset
  <2>2. Cardinality(Damaged') \in Nat /\ Cardinality(Damaged) \in Nat /\ Cardinality(Damaged) <= lost
    BY <1>6, Counting DEF KeptInv
  <2> QED BY <1>6, <2>1, <2>2
<1> HIDE DEF V, F
<1>9. Enough(Kept', lost, acks + 1)
  <2>1. CASE V \subseteq store.corrupt
    <3>1. KeptNow \subseteq Kept' \cup {} /\ {} \in SUBSET Generations
      BY <1>4, <1>5, <2>1
    <3>2. Cardinality({}) + lost <= lost
      BY <1>6, FS_EmptySet
    <3>3. Enough(KeptNow, lost, acks + 1)
      BY <1>1 DEF KeptInv
    <3> QED BY <1>6, <3>1, <3>2, <3>3, StillEnough
  <2>2. CASE ~(V \subseteq store.corrupt)
    <3>1. PICK g \in V : g \notin store.corrupt
      BY <2>2
    <3>2. g \in F /\ g \in Victims(F)
      BY <1>3, <3>1 DEF V
    <3>3. PICK S \in SUBSET (F \ store.corrupt) :
              S \cap Victims(F) = {} /\ Cardinality(S) >= MaxGenerations
      BY <1>3, <3>1, <3>2, PruneSpares
    <3>4. S \in SUBSET Generations /\ S \cap V = {}
      BY <1>3, <3>3 DEF V
    <3>5. S \subseteq Kept' \cup Damaged
      <4>1. ASSUME NEW x \in S, disk[x] # Corrupt PROVE x \in Kept'
        <5>1. x \in F /\ x \in Generations /\ x \notin store.corrupt /\ x \notin V
          BY <3>3, <3>4
        <5>2. disk[x] \in Snapshots
          BY <1>0, <4>1, <5>1, Constants DEF F, Files, Content
        <5> QED BY <1>4, <5>1, <5>2 DEF Intact
      <4> QED BY <3>4, <4>1 DEF Damaged
    <3>6. /\ Cardinality(S) <= Cardinality(Kept') + Cardinality(Damaged)
          /\ Cardinality(S) \in Nat /\ Cardinality(Kept') \in Nat /\ Cardinality(Damaged) \in Nat
      BY <1>6, <3>4, <3>5, Counting
    <3>7. Cardinality(Kept') + lost >= MaxGenerations
      BY <1>6, <1>8, <3>3, <3>6, Constants
    <3> QED BY <3>7 DEF Enough
  <2> QED BY <2>1, <2>2
<1>10. Enough(Kept', lost, acks)
  <2>1. Cardinality(Kept') \in Nat
    BY <1>6, Counting
  <2> QED BY <1>6, <1>9, <2>1, Constants DEF Enough
<1>11. \A g \in Files(safe') : g <= store'.latest
  <2>1. \A g \in F : g <= store.latest \/ g = store.latest + 1
    BY <1>0, <1>2 DEF FilesInv, Dirs, F
  <2>2. \A g \in F : g \in Int
    BY <1>3, Constants
  <2>3. Files(safe') = F
    BY <1>1 DEF Files, F
  <2> QED BY <1>2, <2>1, <2>2, <2>3, StateFacts DEF Generation
<1> QED BY <1>1, <1>2, <1>4, <1>8, <1>9, <1>10, <1>11 DEF KeptInv

\* The invariant is inductive.
LEMMA NextKept == IInv /\ IInv' /\ KeptInv /\ [Next]_vars => KeptInv'
<1> SUFFICES ASSUME IInv, IInv', KeptInv, [Next]_vars PROVE KeptInv'
  OBVIOUS
<1>1. CASE Open \/ Crash \/ Save \/ Write \/ Fail \/ PruneFails \/ Close \/ Closed
  BY <1>1, StoreKept
<1>2. CASE \E misread \in SUBSET Generations : Load(misread)
  BY <1>2, LoadKept
<1>3. CASE \E g \in Generations : LoadRefused(g)
  BY <1>3, LoadRefusedKept
<1>4. CASE Rename
  BY <1>4, RenameKept
<1>5. CASE SyncDirectory
  BY <1>5, SyncDirectoryKept
<1>6. CASE Unlink
  BY <1>6, UnlinkKept
<1>7. CASE Acknowledge
  BY <1>7, AcknowledgeKept
<1>8. CASE PowerLoss
  BY <1>8, PowerLossKept
<1>9. CASE \E g \in Generations : Damage(g)
  BY <1>9, DamageKept
<1>10. CASE UNCHANGED vars
  <2>1. UNCHANGED <<disk, safe, store, acks, lost>>
    BY <1>10 DEF vars
  <2>2. /\ store'.corrupt \subseteq store.corrupt /\ store'.victims \subseteq store.victims
        /\ store'.step = store.step /\ store'.latest = store.latest
        /\ store'.loaded = store.loaded
        /\ store'.step # "pruning" => store'.victims = {}
    BY <2>1 DEF KeptInv
  <2> QED BY <2>1, <2>2, QuietKept
<1> QED BY <1>1, <1>2, <1>3, <1>4, <1>5, <1>6, <1>7, <1>8, <1>9, <1>10 DEF Next

\* What the invariant keeps is on disk, whatever a power loss does.
LEMMA KeptFallsBack == IInv /\ KeptInv => FallsBack
<1> SUFFICES ASSUME IInv, KeptInv, NEW dir \in {disk, safe}
             PROVE  Enough(Intact(dir), lost, acks)
  BY DEF FallsBack, Enough
<1>1. Kept \subseteq Intact(dir) \cup {} /\ Intact(dir) \in SUBSET Generations
  BY DEF Kept, Standing, Intact
<1>2. Kept \in SUBSET Generations /\ lost \in Nat /\ acks \in Nat /\ Enough(Kept, lost, acks)
  BY KeptFacts DEF KeptInv
<1>3. {} \in SUBSET Generations /\ Cardinality({}) + lost <= lost
  BY <1>2, FS_EmptySet
<1> QED BY <1>1, <1>2, <1>3, StillEnough

\* Every file that is damaged or misread, and none but these, costs the store
\* one of the generations it keeps, however many saves it makes.
THEOREM LossesAreBounded == Spec => []FallsBack
BY InitIInv, NextIInv, InitKept, NextKept, KeptFallsBack, PTL DEF Spec
=============================================================================
