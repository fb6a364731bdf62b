----------------------------- MODULE FilesProofs -----------------------------
(***************************************************************************)
(* Theorems about the two files the program keeps across a crash: the      *)
(* checkpoint (module Store), and the tally of a soak (module Soak).       *)
(***************************************************************************)
EXTENDS Store, Soak, SequenceTheorems, FiniteSetTheorems, NaturalsInduction, WellFoundedInduction, TLAPS

-----------------------------------------------------------------------------
(* The checkpoint file: the inductive invariant. *)

Block == [n : EpochLength .. MaxHead, branch : 0 .. MaxBranch]

\* A checkpoint worth having on disk.
Sound ==
  {cp \in [is : {"whole"}, n : EpochLength .. MaxHead, branch : 0 .. MaxBranch, set : 0 .. MaxHead,
         by : {"operator", "node"}] :
     cp.set = InForce(cp.n)}

Before == {"create", "write", "sync", "rename"}

Writing == Before \cup {"syncdir"}

\* A writer does nothing, waits for the lock or is somewhere in atomic_write with a sound
\* checkpoint.
Job == {Idle, [at |-> "persist"]} \cup [at : Writing, content : Sound]

JobsSound == job \in [Writer -> Job]

\* Nothing on disk, in a writer's hands or in memory is ahead of the chain.
BelowHead ==
  /\ \A cp \in disk : cp.is = "whole" => cp.n <= head
  /\ \A w \in Writer : job[w].at \in Writing => job[w].content.n <= head
  /\ tip # Nobody => tip.n <= head

\* The name designates nothing or a sound checkpoint, and so it will after a power loss.
DiskSound == file \in disk /\ disk \subseteq Sound \cup {Absent}

\* The lock is held exactly while a thread is in atomic_write.
Locked ==
  /\ lock \in Worker \cup {Nobody}
  /\ \A w \in Worker : lock = w <=> job[w].at \in Writing

\* A running node was started from a file and threads work in a running node only; what
\* write-checkpoint writes says so, and no set is about to take over from its set.
Processes ==
  /\ tip # Nobody => file \in Sound
  /\ tip = Nobody => \A w \in Worker : job[w] = Idle
  /\ job[Operator].at # "persist"
  /\ job[Operator].at \in Writing =>
       job[Operator].content.by = "operator" /\ Active(job[Operator].content.n)

\* A thread writes a block between the one the node wrote last and the tip.
Forward ==
  /\ \A w \in Worker : job[w].at \in Before /\ OfNode(file) => file.n <= job[w].content.n
  /\ \A w \in Worker : job[w].at \in Writing => job[w].content.n <= tip.n
  /\ tip # Nobody /\ OfNode(file) => file.n <= tip.n

Shapes ==
  /\ head \in FirstHead .. MaxHead
  /\ branch \in [1 .. MaxHead -> 0 .. MaxBranch]
  /\ tip \in Block \cup {Nobody}
  /\ crashes \in 0 .. MaxCrash /\ runs \in 0 .. MaxRuns

StoreInv ==
  Shapes /\ JobsSound /\ DiskSound /\ BelowHead /\ Locked /\ Processes /\ Forward

-----------------------------------------------------------------------------
(* Lemmas about the operators of Store. *)

LEMMA ConstantTypes ==
  /\ EpochLength \in Nat \ {0} /\ FirstHead \in Nat /\ MaxHead \in Nat /\ MaxBranch \in Nat
  /\ MaxCrash \in Nat /\ MaxRuns \in Nat /\ MaxAge \in Nat /\ MaxSync \in Nat
  /\ EpochLength <= FirstHead /\ FirstHead <= MaxHead
BY StoreConstants

\* The newest epoch block is at or below the block, and there is one from the first
\* epoch on.
LEMMA EpochBounds ==
  ASSUME NEW n \in Nat
  PROVE  /\ EpochOf(n) \in 0 .. n
         /\ n >= EpochLength => EpochOf(n) >= EpochLength
<1>. DEFINE q == n \div EpochLength
<1>1. q \in Nat /\ q * EpochLength <= n /\ (n >= EpochLength => q >= 1)
  BY ConstantTypes
<1>2. EpochOf(n) = q * EpochLength
  BY DEF EpochOf
<1>. HIDE DEF q
<1>3. q * EpochLength \in Nat /\ (q >= 1 => q * EpochLength >= EpochLength)
  BY <1>1, ConstantTypes
<1>. QED BY <1>1, <1>2, <1>3

\* The set in force was announced at a block of the chain.
LEMMA InForceType ==
  ASSUME NEW n \in EpochLength .. MaxHead
  PROVE  InForce(n) \in 0 .. MaxHead
<1>1. n \in Nat /\ n >= EpochLength /\ n <= MaxHead
  BY ConstantTypes
<1>. QED BY <1>1, EpochBounds, ConstantTypes DEF InForce

\* A checkpoint made from a verified tip and the set in force is sound.
LEMMA CheckpointSound ==
  ASSUME NEW b \in Block, NEW e, e = InForce(b.n), NEW by \in {"operator", "node"}
  PROVE  /\ Checkpoint(b, e, by) \in Sound
         /\ Checkpoint(b, e, by).n = b.n /\ Checkpoint(b, e, by).by = by
BY InForceType DEF Block, Checkpoint, Sound

LEMMA SoundFacts ==
  ASSUME NEW cp \in Sound
  PROVE  /\ cp.is = "whole" /\ cp.n \in EpochLength .. MaxHead /\ cp.set = InForce(cp.n)
         /\ cp \in Content /\ cp # Absent /\ cp # Partial
<1>1. cp.is = "whole" /\ cp.n \in EpochLength .. MaxHead /\ cp.set = InForce(cp.n)
  BY DEF Sound
<1>2. cp \in [is : {"whole"}, n : 1 .. MaxHead, branch : 0 .. MaxBranch, set : 0 .. MaxHead,
            by : {"operator", "node"}]
  BY ConstantTypes DEF Sound
<1>. QED BY <1>1, <1>2 DEF Content, Absent, Partial

LEMMA AbsentFacts == Absent.is = "absent" /\ Absent \in Content /\ Absent # Partial
BY DEF Absent, Partial, Content

\* What a writer can be doing.
LEMMA JobCases ==
  ASSUME NEW j \in Job
  PROVE  \/ j = Idle /\ j.at = "idle"
         \/ j.at = "persist" /\ j # Idle
         \/ j.at \in Writing /\ j.content \in Sound /\ j # Idle
BY DEF Job, Idle, Writing, Before

\* A writer takes a step of atomic_write and keeps what it writes.
LEMMA StepKeepsContent ==
  ASSUME NEW w \in Writer, JobsSound, job[w].at \in Writing, NEW a \in Writing,
         job' = [job EXCEPT ![w].at = a]
  PROVE  /\ JobsSound'
         /\ job'[w].at = a /\ job'[w].content = job[w].content
         /\ \A v \in Writer \ {w} : job'[v] = job[v]
<1>1. job[w] \in [at : Writing, content : Sound]
  BY DEF JobsSound, Job, Idle, Writing, Before
<1>2. [job[w] EXCEPT !.at = a] \in [at : Writing, content : Sound]
  BY <1>1
<1>3. job'[w] = [job[w] EXCEPT !.at = a] /\ \A v \in Writer \ {w} : job'[v] = job[v]
  BY DEF JobsSound
<1>4. job' \in [Writer -> Job]
  BY <1>2, <1>3 DEF JobsSound, Job
<1>. QED BY <1>1, <1>3, <1>4 DEF JobsSound

\* A writer moves on to something else.
LEMMA JobSet ==
  ASSUME NEW w \in Writer, JobsSound, NEW j \in Job, job' = [job EXCEPT ![w] = j]
  PROVE  /\ JobsSound'
         /\ job'[w] = j
         /\ \A v \in Writer \ {w} : job'[v] = job[v]
BY DEF JobsSound

LEMMA JobForms ==
  /\ Idle \in Job /\ Idle.at = "idle"
  /\ [at |-> "persist"] \in Job
  /\ \A c \in Sound : [at |-> "create", content |-> c] \in Job
BY DEF Job, Idle, Writing, Before

-----------------------------------------------------------------------------
(* StoreInv is inductive. *)

LEMMA StoreInvInit == Init => StoreInv
<1>. SUFFICES ASSUME Init PROVE StoreInv
  OBVIOUS
<1>1. \A w \in Writer : job[w] = Idle /\ job[w].at = "idle"
  BY JobForms DEF Init
<1>2. Shapes /\ JobsSound /\ DiskSound
  BY ConstantTypes, JobForms DEF Init, Shapes, JobsSound, DiskSound
<1>3. BelowHead /\ Locked
  BY <1>1, AbsentFacts, StoreConstants DEF Init, BelowHead, Locked, Writing, Before, Writer
<1>4. Processes /\ Forward
  BY <1>1 DEF Init, Processes, Forward, Writing, Before, Writer
<1>. QED BY <1>2, <1>3, <1>4 DEF StoreInv

\* What the invariant says of the heights it speaks of, and of each writer.
LEMMA Heights ==
  ASSUME StoreInv
  PROVE  /\ head \in Nat
         /\ \A cp \in disk : cp.is = "whole" => cp.n \in Nat
         /\ \A w \in Writer : job[w].at \in Writing => job[w].content.n \in Nat
         /\ tip # Nobody => tip.n \in Nat
         /\ \A w \in Writer : job[w].at \in Writing => job[w].content \in Sound
         /\ \A w \in Writer : job[w].at \in Writing \cup {"persist", "idle"}
         /\ \A w \in Writer : job[w] = Idle <=> job[w].at = "idle"
<1>1. \A w \in Writer : job[w] \in Job
  BY DEF StoreInv, JobsSound
<1>2. \A cp \in Sound : cp.n \in Nat
  BY SoundFacts, ConstantTypes
<1>3. head \in Nat /\ (tip # Nobody => tip.n \in Nat)
  BY ConstantTypes DEF StoreInv, Shapes, Block
<1>4. /\ \A w \in Writer : job[w].at \in Writing => job[w].content \in Sound
      /\ \A w \in Writer : job[w].at \in Writing \cup {"persist", "idle"}
      /\ \A w \in Writer : job[w] = Idle <=> job[w].at = "idle"
  BY <1>1, JobCases DEF Writing, Before
<1>. QED BY <1>2, <1>3, <1>4, AbsentFacts DEF StoreInv, DiskSound

\* The canonical block at a height is a block.
LEMMA CanonicalBlock ==
  ASSUME Shapes, NEW n \in EpochLength .. head
  PROVE  Canonical(n) \in Block /\ Canonical(n).n = n /\ Canonical(n) # Nobody
<1>1. n \in EpochLength .. MaxHead /\ n \in 1 .. MaxHead /\ n \in Nat
  BY ConstantTypes DEF Shapes
<1>2. branch[n] \in 0 .. MaxBranch
  BY <1>1 DEF Shapes
<1>3. Canonical(n) \in Block /\ Canonical(n).n = n
  BY <1>1, <1>2 DEF Canonical, Block
<1>4. Canonical(n) \in [n : Nat, branch : Nat]
  BY <1>1, <1>2, ConstantTypes DEF Canonical
<1>. QED BY <1>3, <1>4, StoreConstants

\* The chain moves: nothing the writers know of changes.
LEMMA ChainStep ==
  ASSUME StoreInv, Extend \/ \E n \in EpochLength .. head - 1 : Reorganise(n)
  PROVE  StoreInv'
<1>1. Shapes'
  <2>1. CASE Extend
    <3>1. head \in 1 .. MaxHead /\ head + 1 \in 1 .. MaxHead
      BY <2>1, ConstantTypes DEF Extend, StoreInv, Shapes
    <3>. QED BY <2>1, <3>1, ConstantTypes DEF Extend, StoreInv, Shapes
  <2>2. ASSUME NEW n \in EpochLength .. head - 1, Reorganise(n)
        PROVE  Shapes'
    <3>1. branch[head] + 1 \in 0 .. MaxBranch
      BY <2>2, ConstantTypes DEF Reorganise, StoreInv, Shapes
    <3>. QED BY <2>2, <3>1, ConstantTypes DEF Reorganise, StoreInv, Shapes
  <2>. QED BY <2>1, <2>2
<1>2. /\ head' = head + 1
      /\ UNCHANGED <<tip, job, lock, file, disk, crashes, runs>>
  BY DEF Extend, Reorganise
<1>3. /\ head \in Nat
      /\ \A cp \in disk : cp.is = "whole" => cp.n \in Nat
      /\ \A w \in Writer : job[w].at \in Writing => job[w].content.n \in Nat
      /\ tip # Nobody => tip.n \in Nat
  BY Heights
<1>4. BelowHead'
  BY <1>2, <1>3 DEF StoreInv, BelowHead
<1>5. (JobsSound /\ DiskSound /\ Locked /\ Processes /\ Forward)'
  BY <1>2 DEF StoreInv, JobsSound, DiskSound, Locked, Processes, Forward, Sound, InForce, Active, Job
<1>. QED BY <1>1, <1>4, <1>5 DEF StoreInv

\* The operator starts a write, beside whatever the node is doing.
LEMMA WriteCheckpointStep ==
  ASSUME StoreInv, NEW n \in EpochLength .. head, NEW e, WriteCheckpoint(n, e)
  PROVE  StoreInv'
<1>. DEFINE cp == Checkpoint(Canonical(n), e, "operator")
            j == [at |-> "create", content |-> cp]
<1>1. Canonical(n) \in Block /\ Canonical(n).n = n /\ Active(n) /\ e = InForce(n)
  BY CanonicalBlock DEF StoreInv, WriteCheckpoint, Writable, InForce
<1>2. cp \in Sound /\ cp.n = n /\ cp.by = "operator"
  BY <1>1, CheckpointSound
<1>. HIDE DEF cp
<1>3. j \in Job /\ j.at = "create" /\ j.content = cp
  BY <1>2, JobForms
<1>4. Operator \in Writer /\ job' = [job EXCEPT ![Operator] = j]
  BY DEF Writer, WriteCheckpoint, Begin, cp
<1>. HIDE DEF j
<1>5. /\ JobsSound' /\ job'[Operator] = j
      /\ \A v \in Writer \ {Operator} : job'[v] = job[v]
  BY <1>3, <1>4, JobSet DEF StoreInv
<1>6. /\ UNCHANGED <<head, branch, tip, lock, file, disk, crashes>>
      /\ runs < MaxRuns /\ runs' = runs + 1
  BY DEF WriteCheckpoint
<1>7. \A w \in Worker : w \in Writer /\ w # Operator /\ job'[w] = job[w]
  BY <1>5, StoreConstants DEF Writer
<1>8. BelowHead' /\ Locked'
  BY <1>2, <1>3, <1>5, <1>6, <1>7 DEF StoreInv, BelowHead, Locked, Writing, Before
<1>9. Processes' /\ Forward'
  BY <1>1, <1>2, <1>3, <1>5, <1>6, <1>7
     DEF StoreInv, Processes, Forward, OfNode, Writing, Before, Active
<1>10. Shapes'
  BY <1>6, ConstantTypes DEF StoreInv, Shapes
<1>. QED BY <1>5, <1>6, <1>8, <1>9, <1>10 DEF StoreInv, DiskSound

\* A thread's sync moves the tip up, and nothing else that is written.
LEMMA SyncStep ==
  ASSUME StoreInv, NEW w \in Worker, NEW n \in 1 .. head, NEW ok \in BOOLEAN, Sync(w, n, ok)
  PROVE  StoreInv'
<1>1. w \in Writer /\ w # Operator /\ tip \in Block /\ tip.n \in EpochLength .. head /\ tip.n < n
  <2>1. w \in Writer /\ w # Operator /\ tip # Nobody /\ tip.n < n
    BY StoreConstants DEF Sync, Writer
  <2>2. tip \in Block /\ tip.n <= head /\ head \in Nat
    BY <2>1, Heights DEF StoreInv, Shapes, BelowHead
  <2>. QED BY <2>1, <2>2, ConstantTypes DEF Block
<1>2. /\ tip' = Canonical(n) /\ tip' \in Block /\ tip' # Nobody /\ tip'.n = n
      /\ tip.n < tip'.n /\ n <= head
      /\ UNCHANGED <<head, branch, lock, file, disk, crashes, runs>>
  BY <1>1, ConstantTypes, CanonicalBlock DEF Sync, StoreInv
<1>3. /\ JobsSound' /\ job'[w].at \in {"idle", "persist"} /\ job[w].at = "idle"
      /\ \A v \in Writer \ {w} : job'[v] = job[v]
  BY <1>1, JobForms, JobSet DEF Sync, StoreInv, JobsSound
<1>4. Shapes' /\ DiskSound' /\ BelowHead' /\ Locked'
  BY <1>1, <1>2, <1>3 DEF StoreInv, Shapes, DiskSound, BelowHead, Locked, Writing, Before, Writer
<1>5. Processes'
  BY <1>1, <1>2, <1>3 DEF Sync, StoreInv, Processes, Writer, Active
<1>6. Forward'
  <2>1. file.n \in Nat
    BY <1>1, SoundFacts, ConstantTypes DEF Sync, StoreInv, Processes
  <2>. QED BY <1>1, <1>2, <1>3, <2>1, Heights DEF Sync, StoreInv, Forward, Writing, Before, Writer
<1>. QED BY <1>3, <1>4, <1>5, <1>6 DEF StoreInv

\* A thread with something to persist is one of a node that is up.
LEMMA ThreadFacts ==
  ASSUME StoreInv, NEW w \in Worker, job[w] # Idle
  PROVE  /\ w \in Writer /\ w # Operator /\ w # Nobody
         /\ tip # Nobody /\ tip \in Block /\ file \in Sound /\ file.n \in Nat
<1>1. w \in Writer /\ w # Operator /\ w # Nobody
  BY StoreConstants DEF Writer
<1>2. tip # Nobody /\ file \in Sound
  BY DEF StoreInv, Processes
<1>3. tip \in Block
  BY <1>2 DEF StoreInv, Shapes
<1>4. file.n \in Nat
  <2>1. file.n \in EpochLength .. MaxHead
    BY <1>2, SoundFacts
  <2>. QED BY <2>1, ConstantTypes
<1>. QED BY <1>1, <1>2, <1>3, <1>4, JobForms

\* A thread takes the lock and reads the tip.
LEMMA PersistStep ==
  ASSUME StoreInv, NEW w \in Worker, Persist(w)
  PROVE  StoreInv'
<1>. DEFINE cp == Checkpoint(tip, InForce(tip.n), "node")
            j == [at |-> "create", content |-> cp]
<1>1. job[w].at = "persist" /\ lock = Nobody /\ lock' = w /\ job[w] # Idle
  BY JobForms DEF Persist
<1>2. cp \in Sound /\ cp.n = tip.n
  BY <1>1, ThreadFacts, CheckpointSound
<1>3. job' = [job EXCEPT ![w] = j]
  BY DEF Persist, Begin
<1>. HIDE DEF cp
<1>4. j \in Job /\ j.at = "create" /\ j.content = cp
  BY <1>2, JobForms
<1>. HIDE DEF j
<1>5. /\ JobsSound' /\ job'[w] = j
      /\ \A v \in Writer \ {w} : job'[v] = job[v]
  BY <1>1, <1>3, <1>4, JobSet, ThreadFacts DEF StoreInv
<1>6. UNCHANGED <<head, branch, tip, file, disk, crashes, runs>>
  BY DEF Persist
<1>7. \A v \in Worker : v \in Writer /\ v # Nobody /\ job[v].at \notin Writing
  BY <1>1, StoreConstants DEF StoreInv, Locked, Writer
<1>8. Shapes' /\ DiskSound' /\ BelowHead' /\ Locked'
  BY <1>1, <1>2, <1>4, <1>5, <1>6, <1>7, ThreadFacts
     DEF StoreInv, Shapes, DiskSound, BelowHead, Locked, Writing, Before, Writer
<1>9. Processes' /\ Forward'
  BY <1>1, <1>2, <1>4, <1>5, <1>6, <1>7, ThreadFacts, Heights
     DEF StoreInv, Processes, Forward, Writing, Before, Writer
<1>. QED BY <1>5, <1>8, <1>9 DEF StoreInv

\* A writer is done or gives up, and gives back the lock if it has it.
LEMMA IdleStep ==
  ASSUME StoreInv, NEW w \in Writer, job[w] # Idle, job' = [job EXCEPT ![w] = Idle],
         \/ job[w].at = "persist" /\ lock = Nobody /\ lock' = lock
         \/ job[w].at \in Writing /\ lock' = Release(w),
         UNCHANGED <<head, branch, tip, file, crashes, runs>>,
         disk' = disk \/ disk' = {file}
  PROVE  StoreInv'
<1>1. /\ JobsSound' /\ job'[w] = Idle /\ job'[w].at = "idle"
      /\ \A v \in Writer \ {w} : job'[v] = job[v]
  BY JobForms, JobSet DEF StoreInv
<1>2. Shapes' /\ DiskSound' /\ BelowHead'
  BY <1>1 DEF StoreInv, Shapes, DiskSound, BelowHead, Writing, Before
<1>3. Locked'
  BY <1>1, StoreConstants DEF StoreInv, Locked, Release, Writing, Before, Writer
<1>4. Processes' /\ Forward'
  BY <1>1 DEF StoreInv, Processes, Forward, Writing, Before, Writer, Active
<1>. QED BY <1>1, <1>2, <1>3, <1>4 DEF StoreInv

\* A node starts from the file.
LEMMA BootStep ==
  ASSUME StoreInv, NEW w \in Worker, Boot(w)
  PROVE  StoreInv'
<1>1. w \in Writer /\ w # Operator /\ \A v \in Worker : job[v] = Idle /\ job[v].at = "idle"
  BY StoreConstants, JobForms DEF Boot, Writer, StoreInv, Processes
<1>2. /\ file \in Sound /\ file \in disk /\ file.n <= head
  BY AbsentFacts, SoundFacts DEF Boot, Boots, StoreInv, DiskSound, BelowHead
<1>3. head \in EpochLength .. head
  BY ConstantTypes DEF StoreInv, Shapes
<1>4. tip' = Canonical(head) /\ tip' \in Block /\ tip'.n = head /\ tip' # Nobody
  BY <1>3, CanonicalBlock DEF Boot, StoreInv
<1>5. /\ JobsSound' /\ job'[w].at = "persist"
      /\ \A v \in Writer \ {w} : job'[v] = job[v]
      /\ UNCHANGED <<head, branch, lock, file, disk, crashes, runs>>
  <2>. DEFINE j == [at |-> "persist"]
  <2>1. j \in Job /\ j.at = "persist" /\ job' = [job EXCEPT ![w] = j]
    BY JobForms DEF Boot
  <2>. HIDE DEF j
  <2>. QED BY <1>1, <2>1, JobSet DEF Boot, StoreInv
<1>6. Shapes' /\ DiskSound' /\ BelowHead' /\ Locked'
  BY <1>1, <1>3, <1>4, <1>5 DEF StoreInv, Shapes, DiskSound, BelowHead, Locked, Writing, Before, Writer
<1>7. Processes' /\ Forward'
  BY <1>1, <1>2, <1>4, <1>5 DEF StoreInv, Processes, Forward, Writing, Before, Writer
<1>. QED BY <1>5, <1>6, <1>7 DEF StoreInv

\* The steps on the temporary file change nothing a reader of the name could see.
LEMMA TempStep ==
  ASSUME StoreInv, NEW w \in Writer, CreateTemp(w) \/ WriteTemp(w) \/ SyncTemp(w)
  PROVE  StoreInv'
<1>1. PICK a \in Before : job' = [job EXCEPT ![w].at = a]
  BY DEF CreateTemp, WriteTemp, SyncTemp, Before
<1>2. job[w].at \in Before /\ UNCHANGED <<head, branch, tip, lock, file, disk, crashes, runs>>
  BY DEF CreateTemp, WriteTemp, SyncTemp, Before
<1>3. /\ JobsSound' /\ job'[w].at = a /\ job'[w].content = job[w].content
      /\ \A v \in Writer \ {w} : job'[v] = job[v]
  BY <1>1, <1>2, StepKeepsContent DEF StoreInv, Writing
<1>4. job[w] # Idle /\ job'[w] # Idle /\ a \in Writing /\ job[w].at \in Writing
  BY <1>2, <1>3, JobForms DEF Before, Writing
<1>5. Shapes' /\ DiskSound' /\ BelowHead' /\ Locked'
  BY <1>2, <1>3, <1>4 DEF StoreInv, Shapes, DiskSound, BelowHead, Locked, Writer
<1>6. Processes' /\ Forward'
  BY <1>2, <1>3, <1>4 DEF StoreInv, Processes, Forward, Writer, Before, Active
<1>. QED BY <1>3, <1>5, <1>6 DEF StoreInv

\* The rename is the only step that changes what the name designates: no other thread is
\* at work, and what a thread writes is not older than what the node wrote last.
LEMMA RenameFacts ==
  ASSUME StoreInv, NEW w \in Writer, Rename(w)
  PROVE  /\ job[w].content \in Sound /\ job[w].content.n <= head
         /\ \/ w = Operator /\ job[w].content.by = "operator"
            \/ /\ w \in Worker /\ w # Operator /\ tip # Nobody /\ lock = w
               /\ \A v \in Worker \ {w} : job[v].at \notin Writing
               /\ OfNode(file) => file.n <= job[w].content.n
               /\ job[w].content.n <= tip.n
<1>1. job[w].at = "rename" /\ job[w].at \in Writing /\ job[w].at \in Before /\ job[w] # Idle
  BY JobForms DEF Rename, Writing, Before
<1>2. job[w].content \in Sound /\ job[w].content.n <= head
  BY <1>1, Heights DEF StoreInv, BelowHead
<1>3. CASE w = Operator
  BY <1>1, <1>2, <1>3 DEF StoreInv, Processes
<1>4. CASE w \in Worker
  <2>1. lock = w /\ tip # Nobody /\ w # Operator
    BY <1>1, <1>4, ThreadFacts DEF StoreInv, Locked
  <2>2. (OfNode(file) => file.n <= job[w].content.n) /\ job[w].content.n <= tip.n
    BY <1>1, <1>4 DEF StoreInv, Forward
  <2>3. \A v \in Worker \ {w} : job[v].at \notin Writing
    BY <2>1 DEF StoreInv, Locked
  <2>. QED BY <1>2, <1>4, <2>1, <2>2, <2>3
<1>. QED BY <1>3, <1>4 DEF Writer

LEMMA RenameStep ==
  ASSUME StoreInv, NEW w \in Writer, Rename(w)
  PROVE  StoreInv'
<1>1. job[w].at = "rename" /\ job[w].at \in Writing /\ job[w] # Idle
  BY JobForms DEF Rename, Writing, Before
<1>2. /\ JobsSound' /\ job'[w].at = "syncdir" /\ job'[w].content = job[w].content
      /\ \A v \in Writer \ {w} : job'[v] = job[v]
  BY <1>1, StepKeepsContent DEF Rename, StoreInv, Writing
<1>3. job'[w] # Idle /\ "syncdir" \in Writing /\ "syncdir" \notin Before
  BY <1>2, JobForms DEF Writing, Before
<1>4. /\ file' = job[w].content /\ disk' = disk \cup {job[w].content}
      /\ UNCHANGED <<head, branch, tip, lock, crashes, runs>>
  BY DEF Rename
<1>5. Shapes' /\ DiskSound' /\ BelowHead' /\ Locked'
  BY <1>1, <1>2, <1>3, <1>4, RenameFacts DEF StoreInv, Shapes, DiskSound, BelowHead, Locked, Writer
<1>6. Processes'
  BY <1>1, <1>2, <1>3, <1>4, RenameFacts DEF StoreInv, Processes, Writer, Writing, Active
<1>7. \A v \in Worker : job'[v].at \in Writing => job'[v].content.n <= tip'.n
  BY <1>1, <1>2, <1>4 DEF StoreInv, Forward, Writer
<1>8. Forward'
  <2>1. CASE w = Operator /\ job[w].content.by = "operator"
    <3>1. ~OfNode(file')
      BY <1>4, <2>1 DEF OfNode
    <3>. QED BY <1>7, <3>1 DEF Forward, OfNode
  <2>2. CASE /\ w \in Worker /\ \A v \in Worker \ {w} : job[v].at \notin Writing
             /\ job[w].content.n <= tip.n
    <3>1. \A v \in Worker : job'[v].at \notin Before
      BY <1>2, <1>3, <2>2 DEF Writing, Writer
    <3>2. file'.n <= tip'.n
      BY <1>4, <2>2
    <3>. QED BY <1>7, <3>1, <3>2 DEF Forward
  <2>. QED BY <2>1, <2>2, RenameFacts
<1>. QED BY <1>2, <1>5, <1>6, <1>8 DEF StoreInv

\* The node goes down; a power loss takes back what was not synced.
LEMMA DownStep ==
  ASSUME StoreInv, Kill \/ PowerLoss
  PROVE  StoreInv'
<1>1. /\ tip' = Nobody /\ lock' = Nobody
      /\ \E gone \in {Worker, Writer} : job' = [w \in Writer |-> IF w \in gone THEN Idle ELSE job[w]]
      /\ crashes < MaxCrash /\ crashes' = crashes + 1
      /\ file' \in disk' /\ disk' \subseteq disk
      /\ UNCHANGED <<head, branch, runs>>
  BY DEF Kill, PowerLoss, Down, StoreInv, DiskSound
<1>2. /\ JobsSound'
      /\ \A w \in Worker : job'[w] = Idle /\ job'[w].at = "idle"
      /\ \/ job'[Operator] = job[Operator]
         \/ job'[Operator] = Idle /\ job'[Operator].at = "idle"
  BY <1>1, JobForms, StoreConstants DEF StoreInv, JobsSound, Writer
<1>3. Shapes' /\ DiskSound' /\ BelowHead'
  BY <1>1, <1>2, ConstantTypes DEF StoreInv, Shapes, DiskSound, BelowHead, Writing, Before, Writer
<1>4. Locked' /\ Processes' /\ Forward'
  BY <1>1, <1>2, StoreConstants
     DEF StoreInv, Locked, Processes, Forward, Writing, Before, Writer, Active
<1>. QED BY <1>2, <1>3, <1>4 DEF StoreInv

LEMMA StoreInvStep == StoreInv /\ [Next]_vars => StoreInv'
<1>. SUFFICES ASSUME StoreInv, [Next]_vars
              PROVE  StoreInv'
  OBVIOUS
<1>1. CASE UNCHANGED vars
  BY <1>1 DEF vars, StoreInv, Shapes, JobsSound, DiskSound, BelowHead, Locked, Processes, Forward,
              Active
<1>2. CASE Extend \/ \E n \in EpochLength .. head - 1 : Reorganise(n)
  BY <1>2, ChainStep
<1>3. ASSUME NEW n \in EpochLength .. head, NEW e, WriteCheckpoint(n, e)
      PROVE  StoreInv'
  BY <1>3, WriteCheckpointStep
<1>4. ASSUME NEW w \in Worker, NEW n \in 1 .. head, NEW ok \in BOOLEAN, Sync(w, n, ok)
      PROVE  StoreInv'
  BY <1>4, SyncStep
<1>5. ASSUME NEW w \in Worker, Persist(w) \/ PersistFails(w) \/ Boot(w)
      PROVE  StoreInv'
  <2>1. CASE PersistFails(w)
    <3>1. w \in Writer /\ job[w] # Idle
      BY <2>1, JobForms DEF PersistFails, Writer
    <3>. QED BY <2>1, <3>1, IdleStep DEF PersistFails
  <2>. QED BY <1>5, <2>1, PersistStep, BootStep
<1>6. ASSUME NEW w \in Writer, Write(w) \/ WriteFails(w)
      PROVE  StoreInv'
  <2>1. CASE WriteFails(w) \/ \E ok \in BOOLEAN : SyncDir(w, ok)
    <3>1. job[w].at \in Writing /\ job[w] # Idle
      BY <2>1, JobForms DEF WriteFails, SyncDir, Writing, Before
    <3>. QED BY <2>1, <3>1, IdleStep DEF WriteFails, SyncDir
  <2>. QED BY <1>6, <2>1, TempStep, RenameStep DEF Write
<1>7. CASE Kill \/ PowerLoss
  BY <1>7, DownStep
<1>. QED BY <1>1, <1>2, <1>3, <1>4, <1>5, <1>6, <1>7 DEF Next

-----------------------------------------------------------------------------
(* The properties. *)

\* For every number of threads that persist, every chain, and every point at which a
\* write fails or the host dies: the name of the checkpoint designates nothing or a whole
\* checkpoint with the set that seals its block, now and after a power loss, and the lock
\* of persist_verified_tip is held exactly while its holder writes (atomic_write).
THEOREM FileAlwaysSound == Spec => []FileSound
<1>1. StoreInv => FileSound
  <2>. SUFFICES ASSUME StoreInv PROVE FileSound
    OBVIOUS
  <2>1. \A cp \in disk \cup {file} : cp \in Content /\ cp # Partial /\
                                    (cp.is = "whole" => cp.set = InForce(cp.n))
    BY SoundFacts, AbsentFacts DEF StoreInv, DiskSound
  <2>2. tip = Nobody \/ tip \in [n : 1 .. head, branch : 0 .. MaxBranch]
    BY ConstantTypes DEF StoreInv, Shapes, Block, BelowHead
  <2>3. \A w \in Worker : lock = w <=> job[w].at \notin {"idle", "persist", "wait"}
    <3>1. \A w \in Worker : job[w].at \in Writing \cup {"persist", "idle"}
      BY Heights DEF Writer
    <3>. QED BY <3>1 DEF StoreInv, Locked, Writing, Before
  <2>. QED BY <2>1, <2>2, <2>3
       DEF FileSound, TypeOK, NeverTruncated, SetInForce, StoreInv, Shapes
<1>. QED BY <1>1, StoreInvInit, StoreInvStep, PTL DEF Spec

\* What write-checkpoint leaves behind is a checkpoint that the next start accepts,
\* whatever delay the chain's sets have (write_checkpoint, seed_epoch_state).
THEOREM WrittenAlwaysBoots == Spec => []WrittenBoots
<1>1. StoreInv => WrittenBoots
  <2>. DEFINE cp == job[Operator].content
  <2>. SUFFICES ASSUME StoreInv, job[Operator].at = "syncdir"
                PROVE  cp.is = "whole" /\ Active(cp.n) /\ head - cp.n \in Int
    BY ConstantTypes DEF WrittenBoots, Boots
  <2>1. Operator \in Writer /\ job[Operator].at \in Writing
    BY DEF Writer, Writing
  <2>2. cp \in Sound /\ Active(cp.n)
    BY <2>1, Heights DEF StoreInv, Processes
  <2>3. head \in Nat /\ cp.n \in Nat
    BY <2>1, Heights
  <2>. QED BY <2>2, <2>3, SoundFacts
<1>. QED BY <1>1, StoreInvInit, StoreInvStep, PTL DEF Spec

\* No step of any writer and no crash takes the trust anchor away once there is one on
\* disk (atomic_write replaces the name, it never removes it).
THEOREM AnchorNeverLost == Spec => AnchorKept
<1>1. StoreInv /\ StoreInv' /\ [Next]_vars =>
        [Absent \notin disk => Absent \notin disk' \cup {file'}]_vars
  <2>. SUFFICES ASSUME StoreInv, StoreInv', Next, Absent \notin disk
                PROVE  Absent \notin disk'
    BY DEF StoreInv, DiskSound
  <2>1. ASSUME NEW w \in Writer, Rename(w)
        PROVE  Absent \notin disk'
    BY <2>1, RenameFacts, SoundFacts DEF Rename
  <2>2. CASE disk' \subseteq disk
    BY <2>2
  <2>3. disk' \subseteq disk \/ \E w \in Writer : Rename(w)
    BY DEF Next, Extend, Reorganise, WriteCheckpoint, Sync, Persist, PersistFails, Boot, Write,
           CreateTemp, WriteTemp, SyncTemp, SyncDir, WriteFails, Kill, PowerLoss, Down,
           StoreInv, DiskSound
  <2>. QED BY <2>1, <2>2, <2>3
<1>. QED BY <1>1, StoreInvInit, StoreInvStep, PTL DEF Spec, AnchorKept

\* However many threads persist, and however long each of them waits between its sync and
\* its turn at the lock, what a running node has written gives way to an older block only
\* when the operator writes one (persist_verified_tip).
THEOREM FileNeverBackwards == Spec => NeverBackwards
<1>1. StoreInv /\ [Next]_vars =>
        [OfNode(file) /\ OfNode(file') /\ file'.n < file.n => tip' = Nobody]_vars
  <2>. SUFFICES ASSUME StoreInv, Next, OfNode(file), OfNode(file'), file'.n < file.n
                PROVE  tip' = Nobody
    OBVIOUS
  <2>1. file.n \in Nat
    BY Heights DEF StoreInv, DiskSound, OfNode
  <2>2. ASSUME NEW w \in Writer, Rename(w)
        PROVE  FALSE
    <3>1. job[w].content.n \in Nat /\ file' = job[w].content
      BY <2>2, Heights DEF Rename, Writing, Before
    <3>. QED BY <2>1, <2>2, <3>1, RenameFacts DEF OfNode
  <2>3. file' = file \/ tip' = Nobody \/ \E w \in Writer : Rename(w)
    BY DEF Next, Extend, Reorganise, WriteCheckpoint, Sync, Persist, PersistFails, Boot, Write,
           CreateTemp, WriteTemp, SyncTemp, SyncDir, WriteFails, Kill, PowerLoss, Down
  <2>. QED BY <2>1, <2>2, <2>3
<1>. QED BY <1>1, StoreInvInit, StoreInvStep, PTL DEF Spec, NeverBackwards

-----------------------------------------------------------------------------
(* The soak: the inductive invariant. *)

RunFields ==
  {"at", "target", "fast", "met", "left", "deadline", "tot", "report", "done", "sessions", "round",
   "barren", "pending", "all", "empty", "gone", "checked", "attempts"}

Ended(sessions) == IF sessions = <<>> THEN 0 ELSE sessions[Len(sessions)].ended

\* Sessions that a run, or the file, may have at some time.
Timely(sessions, time) == sessions \in Seq(Session) /\ InOrder(sessions) /\ Ended(sessions) <= time

RunTyped(r) ==
  /\ DOMAIN r = RunFields
  /\ r.at \in {"setup", "top", "burst", "save", "closing", "between"}
  /\ r.target \in Nat /\ r.fast \in Fast /\ r.met \in BOOLEAN /\ r.left \in Nat /\ r.deadline \in Nat
  /\ r.tot \in Tally /\ r.report \in Tally /\ r.done \subseteq Addr /\ r.pending \in Seq(Addr)
  /\ r.at \in {"setup", "top", "between"} => r.report = NoTally

\* Has the run opened a session of its own?
Opened(r) == r.at # "setup" /\ ~r.met

\* Until it has, its sessions are those of the file, and what is left of the target is what they do
\* not cover.
Unopened(r, kept) ==
  /\ r.sessions = kept
  /\ r.met => r.at \in {"setup", "top"} /\ r.target > 0 /\ Soaked(kept) >= r.target
  /\ r.target > 0 => Soaked(kept) + r.left >= r.target

\* Then the time since the end of its session is time it spent in the loop, and at the deadline the
\* sessions reach the target.
Running(r, time, spent) ==
  /\ r.sessions # <<>>
  /\ Soaked(r.sessions) + (time - Ended(r.sessions)) <= spent
  /\ r.target > 0 => Soaked(r.sessions) + (r.deadline - Ended(r.sessions)) >= r.target

RunSound(r, kept, time, spent) ==
  /\ RunTyped(r) /\ Timely(r.sessions, time)
  /\ IF Opened(r) THEN Running(r, time, spent) ELSE Unopened(r, kept)

Kept == IF state = NoFile THEN <<>> ELSE state.sessions

\* What the file says of the time.
FileTimed == state # NoFile => /\ state \in SoakState /\ state.fast \in Fast
                               /\ Timely(state.sessions, now)
                               /\ Soaked(state.sessions) <= ran

Clocks ==
  /\ now \in 0 .. MaxTime /\ ran \in 0 .. now /\ made \in Nat
  /\ verdict \in {"none", "pass", "fail"} /\ differed \in BOOLEAN

RunInv == run # NoRun => RunSound(run, Kept, now, ran) /\ verdict = "none"

SoakInv == Clocks /\ FileTimed /\ RunInv /\ TallyExact


-----------------------------------------------------------------------------
(* What is computed along a list. *)

\* A set of natural numbers that has a member has a least one.
LEMMA LeastExists ==
  ASSUME NEW S \in SUBSET Nat, S # {}
  PROVE  \E x \in S : \A y \in S : x <= y
<1> DEFINE R == {ss \in Nat \X Nat : ss[1] < ss[2]}
<1>1. IsWellFoundedOn(R, Nat)
  BY NatLessThanWellFounded DEF OpToRel
<1>2. \E x \in S : \A y \in S : <<y, x>> \notin R
  <2> HIDE DEF R
  <2> QED BY <1>1, WFMin
<1>3. PICK x \in S : \A y \in S : <<y, x>> \notin R
  BY <1>2
<1>4. \A y \in S : x <= y
  <2> TAKE y \in S
  <2>1. <<y, x>> \in Nat \X Nat
    OBVIOUS
  <2>2. ~(y < x)
    BY <1>3, <2>1
  <2> QED BY <2>2
<1> QED BY <1>4

\* f starts with z and goes on by G, up to n.
Along(f, T, n, z, G) == f \in [0 .. n -> T] /\ f[0] = z /\ \A i \in 1 .. n : f[i] = G[<<f[i - 1], i>>]

\* A step from one value of T and an index to the next can be repeated any number of times.
LEMMA AlongExists ==
  ASSUME NEW T, NEW z \in T, NEW m \in Nat, NEW G \in [T \X (1 .. m) -> T]
  PROVE  \E f : Along(f, T, m, z, G)
<1> DEFINE Odd == {n \in 0 .. m : ~ \E f : Along(f, T, n, z, G)}
<1>1. SUFFICES ASSUME Odd # {}
               PROVE  FALSE
  <2>1. m \in 0 .. m
    OBVIOUS
  <2> QED BY <2>1
<1>2. Odd \in SUBSET Nat
  OBVIOUS
<1> HIDE DEF Odd
<1>3. PICK n \in Odd : \A y \in Odd : n <= y
  BY <1>1, <1>2, LeastExists
<1>4. n \in 0 .. m /\ ~ \E f : Along(f, T, n, z, G)
  BY DEF Odd
<1>5. n # 0
  <2> SUFFICES ASSUME n = 0
               PROVE  FALSE
    OBVIOUS
  <2> DEFINE f == [i \in 0 .. 0 |-> z]
  <2>1. Along(f, T, 0, z, G)
    BY DEF Along
  <2> QED BY <1>4, <2>1
<1>6. n - 1 \notin Odd /\ n - 1 \in 0 .. m
  BY <1>3, <1>4, <1>5
<1>7. PICK f : Along(f, T, n - 1, z, G)
  BY <1>6 DEF Odd
<1> DEFINE v == G[<<f[n - 1], n>>]
           g == [i \in 0 .. n |-> IF i = n THEN v ELSE f[i]]
<1>8. f \in [0 .. n - 1 -> T] /\ f[0] = z /\ \A i \in 1 .. n - 1 : f[i] = G[<<f[i - 1], i>>]
  BY <1>7 DEF Along
<1>9. v \in T
  <2>1. <<f[n - 1], n>> \in T \X (1 .. m)
    BY <1>4, <1>5, <1>8
  <2> QED BY <2>1
<1>10. g \in [0 .. n -> T]
  BY <1>4, <1>5, <1>8, <1>9
<1>11. g[0] = z
  BY <1>4, <1>5, <1>8
<1>12. \A i \in 1 .. n : g[i] = G[<<g[i - 1], i>>]
  <2> TAKE i \in 1 .. n
  <2>1. i \in 0 .. n /\ i - 1 \in 0 .. n /\ i - 1 # n
    BY <1>4
  <2>2. g[i - 1] = f[i - 1]
    BY <2>1
  <2>3. CASE i = n
    BY <2>1, <2>2, <2>3
  <2>4. CASE i # n
    <3>1. i \in 1 .. n - 1
      BY <1>4, <2>4
    <3>2. g[i] = f[i]
      BY <2>1, <2>4
    <3> HIDE DEF g
    <3> QED BY <1>8, <2>2, <3>1, <3>2
  <2> QED BY <2>3, <2>4
<1> HIDE DEF g
<1>13. Along(g, T, n, z, G)
  BY <1>10, <1>11, <1>12 DEF Along
<1> QED BY <1>4, <1>13


-----------------------------------------------------------------------------
(* The time sessions add up to. *)

\* F adds up the sessions of s one by one.
AddsUp(F, s, n) ==
  F \in [0 .. n -> Int] /\ F[0] = 0 /\ \A i \in 1 .. n : F[i] = F[i - 1] + s[i].ended - s[i].started

LEMMA SoakedIs ==
  ASSUME NEW s, NEW n \in Nat, n = Len(s), NEW F, AddsUp(F, s, n)
  PROVE  Soaked(s) = F[n]
<1> DEFINE Step(f) == [i \in 0 .. n |-> IF i = 0 THEN 0 ELSE f[i - 1] + s[i].ended - s[i].started]
           g == CHOOSE f : f = [i \in 0 .. n |-> IF i = 0 THEN 0 ELSE f[i - 1] + s[i].ended - s[i].started]
<1>7. F \in [0 .. n -> Int] /\ F[0] = 0 /\ \A i \in 1 .. n : F[i] = F[i - 1] + s[i].ended - s[i].started
  BY DEF AddsUp
<1>1. F = Step(F)
  <2>1. \A i \in 0 .. n : F[i] = IF i = 0 THEN 0 ELSE F[i - 1] + s[i].ended - s[i].started
    <3>1. \A i \in 0 .. n : i = 0 \/ i \in 1 .. n
      OBVIOUS
    <3> QED BY <1>7, <3>1
  <2> QED BY <1>7, <2>1
<1>2. \E f : f = Step(f)
  BY <1>1
<1>3. g = Step(g)
  BY <1>2
<1>4. Soaked(s) = g[n]
  BY DEF Soaked
<1>5. \A f : f = Step(f) => f[0] = 0 /\ \A i \in 1 .. n : f[i] = f[i - 1] + s[i].ended - s[i].started
  <2> SUFFICES ASSUME NEW f, NEW h, h = Step(f)
               PROVE  h[0] = 0 /\ \A i \in 1 .. n : h[i] = f[i - 1] + s[i].ended - s[i].started
    OBVIOUS
  <2>1. 0 \in 0 .. n /\ \A i \in 1 .. n : i \in 0 .. n /\ i # 0
    OBVIOUS
  <2> QED BY <2>1
<1> HIDE DEF Step, g
<1>6. g[0] = 0 /\ \A i \in 1 .. n : g[i] = g[i - 1] + s[i].ended - s[i].started
  BY <1>3, <1>5
<1> DEFINE Odd == {i \in 0 .. n : g[i] # F[i]}
<1>8. CASE Odd # {}
  <2>1. Odd \in SUBSET Nat
    OBVIOUS
  <2> HIDE DEF Odd
  <2>2. PICK x \in Odd : \A y \in Odd : x <= y
    BY <1>8, <2>1, LeastExists
  <2>3. x \in 0 .. n /\ g[x] # F[x]
    BY DEF Odd
  <2>4. x \in 1 .. n
    BY <1>6, <1>7, <2>3
  <2>5. x - 1 \notin Odd /\ x - 1 \in 0 .. n
    BY <2>2, <2>4
  <2>6. g[x - 1] = F[x - 1]
    BY <2>5 DEF Odd
  <2>7. g[x] = g[x - 1] + s[x].ended - s[x].started /\ F[x] = F[x - 1] + s[x].ended - s[x].started
    BY <1>6, <1>7, <2>4
  <2> QED BY <2>3, <2>6, <2>7
<1>9. CASE Odd = {}
  <2>1. n \in 0 .. n
    OBVIOUS
  <2>2. g[n] = F[n]
    BY <1>9, <2>1
  <2> QED BY <1>4, <2>2
<1> QED BY <1>8, <1>9

LEMMA SessionFields ==
  ASSUME NEW s \in Seq(Session), NEW i \in 1 .. Len(s)
  PROVE  s[i] \in Session /\ s[i].started \in Nat /\ s[i].ended \in Nat
<1>1. s[i] \in Session
  BY ElementOfSeq
<1> QED BY <1>1 DEF Session

LEMMA SumExists ==
  ASSUME NEW s \in Seq(Session)
  PROVE  \E F : AddsUp(F, s, Len(s))
<1> DEFINE n == Len(s)
           G == [x \in Int \X (1 .. n) |-> x[1] + s[x[2]].ended - s[x[2]].started]
<1>1. n \in Nat
  OBVIOUS
<1>2. \A i \in 1 .. n : s[i].started \in Int /\ s[i].ended \in Int
  BY SessionFields
<1> HIDE DEF n
<1>3. G \in [Int \X (1 .. n) -> Int]
  BY <1>2
<1>4. \A y \in Int, i \in 1 .. n : G[<<y, i>>] = y + s[i].ended - s[i].started
  OBVIOUS
<1> HIDE DEF G
<1>5. PICK F : Along(F, Int, n, 0, G)
  <2>1. 0 \in Int
    OBVIOUS
  <2> QED BY ONLY <1>1, <1>3, <2>1, AlongExists
<1>6. F \in [0 .. n -> Int] /\ F[0] = 0 /\ \A i \in 1 .. n : F[i] = G[<<F[i - 1], i>>]
  BY <1>5 DEF Along
<1>7. \A i \in 1 .. n : F[i - 1] \in Int
  BY <1>1, <1>6
<1>8. AddsUp(F, s, n)
  BY <1>4, <1>6, <1>7 DEF AddsUp
<1> QED BY <1>8 DEF n

LEMMA SoakedInt ==
  ASSUME NEW s \in Seq(Session)
  PROVE  Soaked(s) \in Int
<1>1. PICK F : AddsUp(F, s, Len(s))
  BY SumExists
<1>2. Soaked(s) = F[Len(s)] /\ Len(s) \in Nat
  BY <1>1, SoakedIs
<1> QED BY <1>1, <1>2 DEF AddsUp

LEMMA SoakedEmpty == Soaked(<<>>) = 0
<1> DEFINE F == [i \in 0 .. 0 |-> 0]
<1>1. AddsUp(F, <<>>, 0) /\ Len(<<>>) = 0 /\ F[0] = 0
  BY DEF AddsUp
<1> QED BY <1>1, SoakedIs

\* A list that differs in its last session, or has one more, adds up to what the others do and that one.
LEMMA SoakedButLast ==
  ASSUME NEW s \in Seq(Session), NEW t \in Seq(Session), NEW k \in Nat, Len(t) = k + 1, k <= Len(s),
         \A i \in 1 .. k : t[i] = s[i], NEW F, AddsUp(F, s, Len(s))
  PROVE  Soaked(t) = F[k] + t[k + 1].ended - t[k + 1].started
<1> DEFINE v == F[k] + t[k + 1].ended - t[k + 1].started
           H == [i \in 0 .. k + 1 |-> IF i = k + 1 THEN v ELSE F[i]]
           m == Len(s)
<1>1. m \in Nat /\ k <= m
  OBVIOUS
<1>2. F \in [0 .. m -> Int] /\ F[0] = 0 /\ \A i \in 1 .. m : F[i] = F[i - 1] + s[i].ended - s[i].started
  BY DEF AddsUp
<1>3. t[k + 1].ended \in Int /\ t[k + 1].started \in Int
  BY SessionFields
<1> HIDE DEF m
<1>4. v \in Int /\ \A i \in 0 .. k : F[i] \in Int
  BY <1>1, <1>2, <1>3
<1>5. H \in [0 .. k + 1 -> Int] /\ H[0] = 0 /\ H[k + 1] = v /\ H[k] = F[k]
  <2> HIDE DEF v
  <2> QED BY <1>2, <1>4
<1>6. \A i \in 1 .. k + 1 : H[i] = H[i - 1] + t[i].ended - t[i].started
  <2> TAKE i \in 1 .. k + 1
  <2>1. CASE i = k + 1
    BY <1>5, <2>1
  <2>2. CASE i # k + 1
    <3>1. i \in 1 .. k /\ i \in 1 .. m /\ i - 1 \in 0 .. k
      BY <1>1, <2>2
    <3>2. H[i] = F[i] /\ H[i - 1] = F[i - 1]
      BY <3>1
    <3>3. t[i] = s[i]
      BY <3>1
    <3> HIDE DEF H
    <3> QED BY <1>2, <3>1, <3>2, <3>3
  <2> QED BY <2>1, <2>2
<1> HIDE DEF H
<1>7. AddsUp(H, t, k + 1)
  BY <1>5, <1>6 DEF AddsUp
<1> QED BY <1>5, <1>7, SoakedIs

LEMMA SoakedAppend ==
  ASSUME NEW s \in Seq(Session), NEW e \in Session, NEW t, t = Append(s, e)
  PROVE  Soaked(t) = Soaked(s) + e.ended - e.started
<1>1. PICK F : AddsUp(F, s, Len(s))
  BY SumExists
<1>2. Soaked(s) = F[Len(s)] /\ Len(s) \in Nat
  BY <1>1, SoakedIs
<1>3. t \in Seq(Session) /\ Len(t) = Len(s) + 1 /\ t[Len(s) + 1] = e /\ \A i \in 1 .. Len(s) : t[i] = s[i]
  OBVIOUS
<1>4. Soaked(t) = F[Len(s)] + t[Len(s) + 1].ended - t[Len(s) + 1].started
  <2>1. Len(s) <= Len(s)
    BY <1>2
  <2> QED BY ONLY s \in Seq(Session), <1>1, <1>2, <1>3, <2>1, SoakedButLast
<1> QED BY <1>2, <1>3, <1>4

\* Only the last session differs.
LEMMA SoakedLast ==
  ASSUME NEW s \in Seq(Session), NEW t \in Seq(Session), s # <<>>, Len(t) = Len(s),
         \A i \in 1 .. Len(s) - 1 : t[i] = s[i], t[Len(s)].started = s[Len(s)].started
  PROVE  Soaked(t) = Soaked(s) + t[Len(s)].ended - s[Len(s)].ended
<1> DEFINE k == Len(s) - 1
<1>1. PICK F : AddsUp(F, s, Len(s))
  BY SumExists
<1>2. k \in Nat /\ Len(s) = k + 1 /\ Len(t) = k + 1
  OBVIOUS
<1>3. Soaked(t) = F[k] + t[k + 1].ended - t[k + 1].started
  <2> HIDE DEF k
  <2>1. \A i \in 1 .. k : t[i] = s[i]
    BY DEF k
  <2> QED BY <1>1, <1>2, <2>1, SoakedButLast
<1>4. Soaked(s) = F[k] + s[k + 1].ended - s[k + 1].started
  <2> HIDE DEF k
  <2> QED BY <1>1, <1>2, SoakedButLast
<1>5. F[k] \in Int
  BY <1>1, <1>2 DEF AddsUp
<1>6. k + 1 \in 1 .. Len(s) /\ k + 1 \in 1 .. Len(t)
  BY <1>2
<1>7. s[k + 1].ended \in Int /\ s[k + 1].started \in Int /\ t[k + 1].ended \in Int
  BY <1>6, SessionFields
<1>8. t[k + 1].started = s[k + 1].started
  BY <1>2
<1> HIDE DEF k
<1> QED BY <1>2, <1>3, <1>4, <1>5, <1>7, <1>8

\* Sessions in order never add up to less than nothing.
LEMMA SoakedNat ==
  ASSUME NEW s \in Seq(Session), InOrder(s)
  PROVE  Soaked(s) \in Nat
<1> DEFINE n == Len(s)
<1>1. PICK F : AddsUp(F, s, n)
  BY SumExists
<1>2. n \in Nat /\ Soaked(s) = F[n]
  BY <1>1, SoakedIs
<1>3. \A i \in 1 .. n : s[i].ended \in Int /\ s[i].started \in Int /\ s[i].started <= s[i].ended
  BY SessionFields DEF InOrder
<1> HIDE DEF n
<1>4. F \in [0 .. n -> Int] /\ F[0] = 0 /\ \A i \in 1 .. n : F[i] = F[i - 1] + s[i].ended - s[i].started
  BY <1>1 DEF AddsUp
<1> DEFINE Odd == {i \in 0 .. n : F[i] < 0}
<1>5. Odd = {}
  <2> SUFFICES ASSUME Odd # {}
               PROVE  FALSE
    OBVIOUS
  <2>1. Odd \in SUBSET Nat
    BY <1>2
  <2> HIDE DEF Odd
  <2>2. PICK x \in Odd : \A y \in Odd : x <= y
    BY <2>1, LeastExists
  <2>3. x \in 0 .. n /\ F[x] < 0
    BY DEF Odd
  <2>4. x \in 1 .. n
    BY <1>2, <1>4, <2>3
  <2>5. x - 1 \notin Odd /\ x - 1 \in 0 .. n
    BY <1>2, <2>2, <2>4
  <2>6. F[x - 1] >= 0
    BY <1>4, <2>5 DEF Odd
  <2>7. F[x] = F[x - 1] + s[x].ended - s[x].started /\ F[x - 1] \in Int
    BY <1>4, <2>4, <2>5
  <2> QED BY <1>3, <2>3, <2>4, <2>6, <2>7
<1>6. n \in 0 .. n /\ F[n] \in Int
  BY <1>2, <1>4
<1> QED BY <1>2, <1>5, <1>6


-----------------------------------------------------------------------------
(* Sessions. *)

LEMMA MaxOfTwo ==
  ASSUME NEW a \in Int, NEW b \in Int
  PROVE  Max({a, b}) = IF a >= b THEN a ELSE b
<1>1. \E x \in {a, b} : \A y \in {a, b} : x >= y
  <2>1. CASE a <= b
    BY <2>1
  <2>2. CASE ~(a <= b)
    BY <2>2
  <2> QED BY <2>1, <2>2
<1>2. Max({a, b}) \in {a, b} /\ \A y \in {a, b} : Max({a, b}) >= y
  BY <1>1 DEF Max
<1> QED BY <1>2

LEMMA RemainingIs ==
  ASSUME NEW s \in Seq(Session), NEW target \in Nat
  PROVE  /\ Remaining(s, target) \in Nat
         /\ Remaining(s, target) = IF target > Soaked(s) THEN target - Soaked(s) ELSE 0
<1>1. Soaked(s) \in Int
  BY SoakedInt
<1>2. Remaining(s, target) = Max({0, target - Soaked(s)})
  BY DEF Remaining
<1> QED BY <1>1, <1>2, MaxOfTwo

LEMMA TimelyEmpty ==
  ASSUME NEW time \in Nat
  PROVE  Timely(<<>>, time)
BY DEF Timely, InOrder, Ended

LEMMA EndedNat ==
  ASSUME NEW s \in Seq(Session)
  PROVE  Ended(s) \in Nat
<1>1. CASE s = <<>>
  BY <1>1 DEF Ended
<1>2. CASE s # <<>>
  <2>1. Len(s) \in 1 .. Len(s)
    BY <1>2
  <2> QED BY <1>2, <2>1, SessionFields DEF Ended
<1> QED BY <1>1, <1>2

LEMMA TimelyLater ==
  ASSUME NEW s, NEW time \in Nat, NEW later \in Nat, Timely(s, time), time <= later
  PROVE  Timely(s, later)
<1>1. Ended(s) \in Nat
  BY EndedNat DEF Timely
<1> QED BY <1>1 DEF Timely

\* A new session adds no time.
LEMMA OpenFacts ==
  ASSUME NEW s, NEW time \in Nat, Timely(s, time), NEW t, t = Append(s, [started |-> time, ended |-> time])
  PROVE  Timely(t, time) /\ t # <<>> /\ Ended(t) = time /\ Soaked(t) = Soaked(s)
<1> DEFINE e == [started |-> time, ended |-> time]
           n == Len(s)
<1>1. s \in Seq(Session) /\ InOrder(s) /\ Ended(s) <= time /\ n \in Nat
  BY DEF Timely
<1>2. e \in Session /\ e.started = time /\ e.ended = time
  BY DEF Session
<1> HIDE DEF e
<1>3. t = Append(s, e)
  BY DEF e
<1>4. t \in Seq(Session) /\ Len(t) = n + 1 /\ t[n + 1] = e /\ t # <<>> /\ \A i \in 1 .. n : t[i] = s[i]
  BY <1>1, <1>2, <1>3
<1>5. Soaked(t) = Soaked(s)
  <2>1. Soaked(t) = Soaked(s) + e.ended - e.started
    BY <1>1, <1>2, <1>3, SoakedAppend
  <2>2. Soaked(s) \in Int
    BY <1>1, SoakedInt
  <2> QED BY <1>2, <2>1, <2>2
<1>6. Ended(t) = time
  BY <1>2, <1>4 DEF Ended
<1>7. InOrder(t)
  <2> SUFFICES ASSUME NEW i \in 1 .. n + 1
               PROVE  t[i].started <= t[i].ended /\ (i > 1 => t[i - 1].ended <= t[i].started)
    BY <1>4 DEF InOrder
  <2>1. CASE i = n + 1
    <3>1. t[i].started <= t[i].ended
      BY <1>2, <1>4, <2>1
    <3>2. ASSUME i > 1
          PROVE  t[i - 1].ended <= t[i].started
      <4>1. n \in 1 .. n /\ i - 1 = n /\ s # <<>>
        BY <1>1, <2>1, <3>2
      <4>2. t[n] = s[n] /\ Ended(s) = s[n].ended
        BY <1>4, <4>1 DEF Ended
      <4> QED BY <1>1, <1>2, <1>4, <2>1, <4>1, <4>2
    <3> QED BY <3>1, <3>2
  <2>2. CASE i # n + 1
    <3>1. i \in 1 .. n /\ (i > 1 => i - 1 \in 1 .. n)
      BY <1>1, <2>2
    <3>2. t[i] = s[i] /\ (i > 1 => t[i - 1] = s[i - 1])
      BY <1>4, <3>1
    <3>3. s[i].started <= s[i].ended /\ (i > 1 => s[i - 1].ended <= s[i].started)
      BY <1>1, <3>1 DEF InOrder
    <3> QED BY <3>2, <3>3
  <2> QED BY <2>1, <2>2
<1>8. Timely(t, time)
  BY <1>4, <1>6, <1>7 DEF Timely
<1> QED BY <1>4, <1>5, <1>6, <1>8

\* A touch moves the end of the last session to the time, and adds the time in between.
LEMMA TouchFacts ==
  ASSUME NEW s, NEW time \in Nat, Timely(s, time), s # <<>>, NEW t, t = TouchSession(s, time)
  PROVE  Timely(t, time) /\ t # <<>> /\ Ended(t) = time /\ Soaked(t) = Soaked(s) + (time - Ended(s))
<1> DEFINE n == Len(s)
           e == [s[n] EXCEPT !.ended = time]
<1>1. s \in Seq(Session) /\ InOrder(s) /\ Ended(s) <= time /\ n \in Nat /\ n \in 1 .. n /\ DOMAIN s = 1 .. n
  BY DEF Timely
<1>2. s[n] \in Session /\ s[n].started \in Nat /\ s[n].ended \in Nat /\ Ended(s) = s[n].ended
  BY <1>1, SessionFields DEF Ended
<1>3. Max({s[n].ended, time}) = time
  BY <1>1, <1>2, MaxOfTwo
<1>4. t = [s EXCEPT ![n] = e]
  BY <1>3 DEF TouchSession
<1>5. e \in Session /\ e.started = s[n].started /\ e.ended = time
  BY <1>2 DEF Session
<1> HIDE DEF e
<1>6. t \in Seq(Session) /\ Len(t) = n /\ t[n] = e /\ \A i \in 1 .. n - 1 : t[i] = s[i]
  <2> HIDE DEF n
  <2>1. t = [i \in 1 .. n |-> IF i = n THEN e ELSE s[i]]
    BY <1>1, <1>4
  <2>2. \A i \in 1 .. n : s[i] \in Session
    BY <1>1, SessionFields DEF n
  <2>3. t \in [1 .. n -> Session]
    BY <1>5, <2>1, <2>2
  <2>4. t \in Seq(Session) /\ Len(t) = n
    BY <1>1, <2>3, SeqDef, LenProperties
  <2> QED BY <1>1, <2>1, <2>4
<1>7. t # <<>>
  BY <1>1, <1>6
<1>8. Ended(t) = time
  BY <1>5, <1>6, <1>7 DEF Ended
<1>9. Soaked(t) = Soaked(s) + (time - Ended(s))
  <2>1. Soaked(t) = Soaked(s) + t[n].ended - s[n].ended
    BY <1>1, <1>5, <1>6, SoakedLast
  <2>2. Soaked(s) \in Int
    BY <1>1, SoakedInt
  <2> QED BY <1>2, <1>5, <1>6, <2>1, <2>2
<1>10. InOrder(t)
  <2> SUFFICES ASSUME NEW i \in 1 .. n
               PROVE  t[i].started <= t[i].ended /\ (i > 1 => t[i - 1].ended <= t[i].started)
    BY <1>6 DEF InOrder
  <2> HIDE DEF n
  <2>1. s[i].started <= s[i].ended /\ (i > 1 => s[i - 1].ended <= s[i].started)
    BY <1>1 DEF InOrder
  <2>2. i > 1 => t[i - 1] = s[i - 1]
    BY <1>1, <1>6
  <2>3. CASE i = n
    BY <1>1, <1>2, <1>5, <1>6, <2>1, <2>2, <2>3
  <2>4. CASE i # n
    <3>1. i \in 1 .. n - 1
      BY <1>1, <2>4
    <3>2. t[i] = s[i]
      BY <1>6, <3>1
    <3> QED BY <2>1, <2>2, <3>2
  <2> QED BY <2>3, <2>4
<1>11. Timely(t, time)
  BY <1>6, <1>8, <1>10 DEF Timely
<1> QED BY <1>7, <1>8, <1>9, <1>11


-----------------------------------------------------------------------------
(* A burst. *)

\* What is joined from lists of members of S is a list of members of S.
LEMMA FlattenSeqType ==
  ASSUME NEW S, NEW s \in Seq(Seq(S))
  PROVE  FlattenSeq(s) \in Seq(S)
<1> DEFINE n == Len(s)
<1>1. n \in Nat /\ \A i \in 1 .. n : s[i] \in Seq(S)
  BY ElementOfSeq
<1>2. CASE n = 0
  BY <1>2, EmptySeq DEF FlattenSeq
<1>3. CASE n # 0
  <2> DEFINE G == [x \in Seq(S) \X (1 .. n) |-> x[1] \o s[x[2]]]
             Step(f) == [i \in 1 .. n |-> IF i = 1 THEN s[i] ELSE f[i - 1] \o s[i]]
             g == CHOOSE f : f = [i \in 1 .. n |-> IF i = 1 THEN s[i] ELSE f[i - 1] \o s[i]]
  <2>1. FlattenSeq(s) = g[n]
    BY <1>3 DEF FlattenSeq
  <2> HIDE DEF n
  <2>2. G \in [Seq(S) \X (1 .. n) -> Seq(S)]
    BY <1>1
  <2>3. \A y \in Seq(S), i \in 1 .. n : G[<<y, i>>] = y \o s[i]
    OBVIOUS
  <2> HIDE DEF G
  <2>4. PICK F : Along(F, Seq(S), n, <<>>, G)
    <3>1. <<>> \in Seq(S)
      OBVIOUS
    <3> QED BY ONLY <1>1, <2>2, <3>1, AlongExists
  <2>5. F \in [0 .. n -> Seq(S)] /\ F[0] = <<>> /\ \A i \in 1 .. n : F[i] = F[i - 1] \o s[i]
    <3>1. F \in [0 .. n -> Seq(S)] /\ F[0] = <<>> /\ \A i \in 1 .. n : F[i] = G[<<F[i - 1], i>>]
      BY <2>4 DEF Along
    <3>2. \A i \in 1 .. n : F[i - 1] \in Seq(S)
      BY <1>1, <3>1
    <3> QED BY <2>3, <3>1, <3>2
  <2> DEFINE H == [i \in 1 .. n |-> F[i]]
  <2>6. H = Step(H)
    <3>1. \A i \in 1 .. n : H[i] = IF i = 1 THEN s[i] ELSE H[i - 1] \o s[i]
      <4> TAKE i \in 1 .. n
      <4>1. H[i] = F[i - 1] \o s[i]
        BY <2>5
      <4>2. CASE i = 1
        <5>1. F[i - 1] = <<>> /\ s[i] \in Seq(S)
          BY <1>1, <2>5, <4>2
        <5>2. <<>> \o s[i] = s[i]
          BY <5>1
        <5> QED BY <4>1, <4>2, <5>1, <5>2
      <4>3. CASE i # 1
        <5>1. i - 1 \in 1 .. n
          BY <1>1, <4>3
        <5> QED BY <4>1, <4>3, <5>1
      <4> QED BY <4>2, <4>3
    <3> QED BY <3>1
  <2>7. H \in [1 .. n -> Seq(S)]
    BY <1>1, <2>5
  <2> HIDE DEF H
  <2>8. \E f : f = Step(f)
    BY <2>6
  <2>9. g = Step(g)
    BY <2>8
  <2>10. \A f : f = Step(f) => \A i \in 1 .. n : f[i] = IF i = 1 THEN s[i] ELSE f[i - 1] \o s[i]
    <3> SUFFICES ASSUME NEW f, NEW h, h = Step(f)
                 PROVE  \A i \in 1 .. n : h[i] = IF i = 1 THEN s[i] ELSE f[i - 1] \o s[i]
      OBVIOUS
    <3> QED OBVIOUS
  <2> HIDE DEF Step, g
  <2> DEFINE Odd == {i \in 1 .. n : g[i] # H[i]}
  <2>11. Odd = {}
    <3> SUFFICES ASSUME Odd # {}
                 PROVE  FALSE
      OBVIOUS
    <3>1. Odd \in SUBSET Nat
      BY <1>1
    <3> HIDE DEF Odd
    <3>2. PICK x \in Odd : \A y \in Odd : x <= y
      BY <3>1, LeastExists
    <3>3. x \in 1 .. n /\ g[x] # H[x]
      BY DEF Odd
    <3>4. g[x] = (IF x = 1 THEN s[x] ELSE g[x - 1] \o s[x]) /\ H[x] = (IF x = 1 THEN s[x] ELSE H[x - 1] \o s[x])
      BY <2>6, <2>9, <2>10, <3>3
    <3>5. x # 1
      BY <3>3, <3>4
    <3>6. x - 1 \notin Odd /\ x - 1 \in 1 .. n
      BY <1>1, <3>2, <3>3, <3>5
    <3>7. g[x - 1] = H[x - 1]
      BY <3>6 DEF Odd
    <3> QED BY <3>3, <3>4, <3>5, <3>7
  <2>12. g[n] = H[n] /\ n \in 1 .. n
    BY <1>1, <1>3, <2>11
  <2> QED BY <2>1, <2>7, <2>12
<1> QED BY <1>2, <1>3

LEMMA UnmatchedType ==
  ASSUME NEW list \in Seq(Addr), NEW some
  PROVE  Unmatched(list, some) \in Seq(Addr)
<1> DEFINE s == [i \in DOMAIN list |-> IF list[i] \in some THEN <<>> ELSE <<list[i]>>]
           n == Len(list)
<1>1. n \in Nat /\ DOMAIN list = 1 .. n /\ \A i \in 1 .. n : list[i] \in Addr
  BY ElementOfSeq
<1>2. \A a \in Addr : <<a>> \in Seq(Addr)
  OBVIOUS
<1>3. <<>> \in Seq(Addr)
  OBVIOUS
<1> HIDE DEF n
<1>4. s \in [1 .. n -> Seq(Addr)]
  BY <1>1, <1>2, <1>3
<1>5. Unmatched(list, some) = FlattenSeq(s)
  BY DEF Unmatched
<1> HIDE DEF s
<1>6. s \in Seq(Seq(Addr))
  BY <1>1, <1>4, SeqDef
<1> QED BY <1>5, <1>6, FlattenSeqType


LEMMA MinOfTwo ==
  ASSUME NEW a \in Int, NEW b \in Int
  PROVE  Min({a, b}) = IF a <= b THEN a ELSE b
<1>1. \E x \in {a, b} : \A y \in {a, b} : x <= y
  <2>1. CASE a <= b
    BY <2>1
  <2>2. CASE ~(a <= b)
    BY <2>2
  <2> QED BY <2>1, <2>2
<1>2. Min({a, b}) \in {a, b} /\ \A y \in {a, b} : Min({a, b}) <= y
  BY <1>1 DEF Min
<1> QED BY <1>2

LEMMA SoakTypes ==
  /\ {Rounds, MinUnique, Burst, MAX_EMPTY, FINALITY_ATTEMPTS, BARREN_LIMIT} \subseteq Nat
  /\ MaxTime \in Nat /\ Target \subseteq Nat /\ Fast \subseteq BOOLEAN
  /\ Addresses \in Seq(Addr) /\ NoFile \notin SoakState
<1>1. {Rounds, MinUnique, Burst, MAX_EMPTY, FINALITY_ATTEMPTS, BARREN_LIMIT} \subseteq Nat
  BY SoakConstants
<1> QED BY <1>1, SoakConstants

\* What a burst takes from the list.
LEMMA FirstType ==
  ASSUME run.pending \in Seq(Addr)
  PROVE  First \in Seq(Addr)
<1> DEFINE m == Min({Burst, Len(run.pending)})
<1>1. Burst \in Nat /\ Len(run.pending) \in Nat
  BY SoakTypes
<1>2. m \in 0 .. Len(run.pending)
  BY <1>1, MinOfTwo
<1> HIDE DEF m
<1>3. SubSeq(run.pending, 1, m) \in Seq(Addr)
  <2>1. \A i \in 1 .. m : run.pending[i] \in Addr
    BY <1>1, <1>2, ElementOfSeq
  <2> QED BY <1>1, <1>2, <2>1
<1>4. First = SubSeq(run.pending, 1, m)
  BY DEF First, m
<1> QED BY <1>3, <1>4

LEMMA SlotType ==
  ASSUME run.pending \in Seq(Addr), NEW k \in 1 .. 2 * Len(First)
  PROVE  Slot(k) \in Addr
<1> DEFINE n == Len(First)
<1>1. First \in Seq(Addr) /\ n \in Nat
  BY FirstType
<1> HIDE DEF n
<1>2. k \in 1 .. 2 * n
  BY DEF n
<1>3. (k + 1) \div 2 \in 1 .. n
  BY <1>1, <1>2
<1>4. First[(k + 1) \div 2] \in Addr
  BY <1>1, <1>3, ElementOfSeq DEF n
<1> QED BY <1>4 DEF Slot

LEMMA RotatedType ==
  ASSUME NEW list \in Seq(Addr), NEW n \in Nat
  PROVE  Rotated(list, n) \in Seq(Addr)
<1> DEFINE k == Min({n, Len(list)})
<1>1. Len(list) \in Nat
  OBVIOUS
<1>2. k \in 0 .. Len(list)
  BY <1>1, MinOfTwo
<1> HIDE DEF k
<1>3. \A i \in 1 .. Len(list) : list[i] \in Addr
  BY ElementOfSeq
<1>4. SubSeq(list, k + 1, Len(list)) \in Seq(Addr)
  BY <1>1, <1>2, <1>3
<1>5. SubSeq(list, 1, k) \in Seq(Addr)
  BY <1>1, <1>2, <1>3
<1>6. Rotated(list, n) = SubSeq(list, k + 1, Len(list)) \o SubSeq(list, 1, k)
  BY DEF Rotated, k
<1> QED BY <1>4, <1>5, <1>6


LEMMA PlusType ==
  ASSUME NEW s \in Tally, NEW t \in Tally
  PROVE  Plus(s, t) \in Tally /\ Plus(s, t).compared = s.compared + t.compared
<1>1. s.compared \in Nat /\ s.at_fast \in BOOLEAN /\ s.finality \in BOOLEAN
  BY DEF Tally
<1>2. t.compared \in Nat /\ t.at_fast \in BOOLEAN /\ t.finality \in BOOLEAN
  BY DEF Tally
<1>3. s.compared + t.compared \in Nat /\ (s.at_fast \/ t.at_fast) \in BOOLEAN /\ (s.finality \/ t.finality) \in BOOLEAN
  BY <1>1, <1>2
<1> QED BY <1>3 DEF Plus, Tally

\* A burst in memory: the tally of the round, the addresses and the list change, and the rest of what
\* the file is made of stays.
Bursted(r, old) ==
  /\ DOMAIN r = RunFields /\ r.at = "save"
  /\ r.target = old.target /\ r.fast = old.fast /\ r.met = old.met /\ r.left = old.left
  /\ r.deadline = old.deadline /\ r.tot = old.tot /\ r.sessions = old.sessions
  /\ r.done \subseteq Addr /\ r.pending \in Seq(Addr)
  /\ r.report \in Tally

LEMMA AfterBurstFacts ==
  ASSUME RunTyped(run), NEW fin, NEW o \in Outcomes, NEW at_fast \in BOOLEAN, NEW r, r = AfterBurst(fin, o, at_fast)
  PROVE  Bursted(r, run)
<1> DEFINE n      == Len(First)
           hits   == {k \in DOMAIN o : o[k] = "match"}
           Got(x) == {Slot(k) : k \in {j \in DOMAIN o : IsAccount(j) /\ o[j] = x}}
           fresh  == Got("match") \ run.done
           done   == run.done \cup fresh
           gone   == run.gone \cup Got("drop")
           agreed == fin = "match"
           add    == [compared |-> Cardinality(hits) + (IF agreed THEN 1 ELSE 0),
                      at_fast  |-> at_fast /\ hits # {},
                      finality |-> agreed]
           rest   == IF run.all THEN SubSeq(run.pending, n + 1, Len(run.pending)) ELSE Unmatched(run.pending, done)
           left   == Unmatched(rest, gone)
           idle   == IsEmptyBurst(run.all, fresh, hits)
           report  == Plus(run.report, add)
           pending == IF idle /\ ~run.all THEN Rotated(left, n) ELSE left
           empty    == IF idle THEN run.empty + 1 ELSE 0
           checked  == run.checked \/ agreed
           attempts == IF fin \in {"match", "skip"} THEN run.attempts + 1 ELSE run.attempts
<1>0. /\ DOMAIN run = RunFields /\ run.pending \in Seq(Addr) /\ run.report \in Tally /\ run.done \subseteq Addr
  BY DEF RunTyped
<1>1. r = [run EXCEPT !.at = "save", !.report = report, !.done = done, !.gone = gone, !.pending = pending,
                      !.empty = empty, !.checked = checked, !.attempts = attempts]
  BY DEF AfterBurst
<1>2. DOMAIN o = 1 .. 2 * n /\ n \in Nat /\ First \in Seq(Addr)
  <2>1. First \in Seq(Addr)
    BY <1>0, FirstType
  <2>2. DOMAIN o = 1 .. 2 * n
    BY DEF Outcomes
  <2> QED BY <2>1, <2>2
<1>3. \A k \in DOMAIN o : Slot(k) \in Addr
  BY <1>0, <1>2, SlotType
<1>4. done \subseteq Addr
  BY <1>0, <1>3
<1>5. Cardinality(hits) \in Nat
  <2> HIDE DEF n
  <2>1. IsFiniteSet(1 .. 2 * n)
    BY <1>2, FS_Interval
  <2>2. IsFiniteSet(hits)
    BY <1>2, <2>1, FS_Subset
  <2> HIDE DEF hits
  <2> QED BY <2>2, FS_CardinalityType
<1>6. add \in Tally
  <2>1. Cardinality(hits) + (IF agreed THEN 1 ELSE 0) \in Nat
    <3> HIDE DEF hits
    <3> QED BY <1>5
  <2>2. (at_fast /\ hits # {}) \in BOOLEAN /\ agreed \in BOOLEAN
    OBVIOUS
  <2> HIDE DEF hits, agreed
  <2> QED BY <2>1, <2>2 DEF Tally
<1> HIDE DEF done, fresh, Got, hits, add, idle
<1>7. report \in Tally
  BY <1>0, <1>6, PlusType
<1>8. rest \in Seq(Addr)
  <2>1. Unmatched(run.pending, done) \in Seq(Addr)
    BY <1>0, UnmatchedType
  <2>2. SubSeq(run.pending, n + 1, Len(run.pending)) \in Seq(Addr)
    <3> HIDE DEF n
    <3>1. \A i \in 1 .. Len(run.pending) : run.pending[i] \in Addr
      BY <1>0, ElementOfSeq
    <3>2. \A i \in n + 1 .. Len(run.pending) : run.pending[i] \in Addr
      BY <1>2, <3>1
    <3> QED BY <1>0, <1>2, <3>2
  <2> QED BY <2>1, <2>2
<1> HIDE DEF rest, n, gone
<1>9. left \in Seq(Addr)
  BY <1>8, UnmatchedType
<1> HIDE DEF left
<1>10. pending \in Seq(Addr)
  BY <1>2, <1>9, RotatedType
<1> HIDE DEF pending, report, empty, checked, attempts
<1>11. DOMAIN r = RunFields
  BY <1>0, <1>1
<1>12. r.at = "save" /\ r.target = run.target /\ r.fast = run.fast /\ r.met = run.met
  BY <1>0, <1>1 DEF RunFields
<1>13. r.left = run.left /\ r.deadline = run.deadline /\ r.tot = run.tot /\ r.sessions = run.sessions
  BY <1>0, <1>1 DEF RunFields
<1>14. r.done = done /\ r.pending = pending /\ r.report = report
  BY <1>0, <1>1 DEF RunFields
<1> QED BY <1>4, <1>7, <1>10, <1>11, <1>12, <1>13, <1>14 DEF Bursted


-----------------------------------------------------------------------------
(* Saving. *)

\* What of a run goes into the file has its type.
Recorded(r) ==
  /\ DOMAIN r = RunFields /\ r.fast \in Fast /\ r.target \in Nat /\ r.deadline \in Nat
  /\ r.tot \in Tally /\ r.report \in Tally /\ r.done \subseteq Addr

LEMMA TypedIsRecorded ==
  ASSUME NEW r, RunTyped(r)
  PROVE  Recorded(r)
BY DEF RunTyped, Recorded

\* A file that is a true account at some time.
GoodFile(w, time, spent, count) ==
  /\ w # NoFile /\ w \in SoakState /\ w.fast \in Fast
  /\ Timely(w.sessions, time) /\ Soaked(w.sessions) <= spent
  /\ w.tally.compared = count

LEMMA WrittenFacts ==
  ASSUME NEW r, Recorded(r), NEW time \in Nat, NEW spent, Timely(r.sessions, time), Soaked(r.sessions) <= spent,
         NEW w, w = Written(r)
  PROVE  GoodFile(w, time, spent, r.tot.compared + r.report.compared) /\ w.sessions = r.sessions
<1>1. r.tot \in Tally /\ r.report \in Tally /\ r.fast \in Fast /\ r.fast \in BOOLEAN /\ r.done \in SUBSET Addr
  BY SoakTypes DEF Recorded
<1>2. r.sessions \in Seq(Session)
  BY DEF Timely
<1> DEFINE t == Plus(r.tot, r.report)
<1>3. t \in Tally /\ t.compared = r.tot.compared + r.report.compared
  BY <1>1, PlusType
<1>4. w = [fast |-> r.fast, tally |-> t, unique |-> r.done, sessions |-> r.sessions]
  BY DEF Written
<1> HIDE DEF t
<1>5. w.fast = r.fast /\ w.tally = t /\ w.sessions = r.sessions
  BY <1>4
<1>6. w \in SoakState
  BY <1>1, <1>2, <1>3, <1>4 DEF SoakState
<1>7. w # NoFile
  BY <1>6, SoakTypes
<1> QED BY <1>1, <1>3, <1>5, <1>6, <1>7 DEF GoodFile

LEMMA TouchedFields ==
  ASSUME NEW r, DOMAIN r = RunFields, NEW time, NEW t, t = Touched(r, time)
  PROVE  /\ DOMAIN t = RunFields /\ t.sessions = TouchSession(r.sessions, time)
         /\ \A x \in RunFields \ {"sessions"} : t[x] = r[x]
<1>1. t = [r EXCEPT !.sessions = TouchSession(r.sessions, time)]
  BY DEF Touched
<1>2. "sessions" \in RunFields
  BY DEF RunFields
<1> QED BY <1>1, <1>2

LEMMA TouchedFacts ==
  ASSUME NEW r, Recorded(r), NEW time \in Nat, NEW spent \in Nat, Timely(r.sessions, time), Running(r, time, spent),
         NEW t, t = Touched(r, time)
  PROVE  /\ Recorded(t) /\ Timely(t.sessions, time) /\ Running(t, time, spent) /\ Soaked(t.sessions) <= spent
         /\ t.tot = r.tot /\ t.report = r.report
         /\ r.target > 0 /\ time >= r.deadline => Soaked(t.sessions) >= r.target
<1> DEFINE s == r.sessions
           u == TouchSession(s, time)
<1>1. s # <<>> /\ s \in Seq(Session) /\ r.deadline \in Nat /\ r.target \in Nat /\ DOMAIN r = RunFields
  BY DEF Running, Timely, Recorded
<1>2. Timely(u, time) /\ u # <<>> /\ Ended(u) = time /\ Soaked(u) = Soaked(s) + (time - Ended(s))
  <2> HIDE DEF s
  <2>1. Timely(s, time)
    BY DEF s
  <2> QED BY <1>1, <2>1, TouchFacts
<1>3. Soaked(s) \in Int /\ Ended(s) \in Nat
  BY <1>1, SoakedInt, EndedNat
<1>4. Soaked(s) + (time - Ended(s)) <= spent /\ (r.target > 0 => Soaked(s) + (r.deadline - Ended(s)) >= r.target)
  BY DEF Running
<1> HIDE DEF u
<1>5. DOMAIN t = RunFields /\ t.sessions = u /\ \A x \in RunFields \ {"sessions"} : t[x] = r[x]
  BY <1>1, TouchedFields DEF u
<1>6. t.target = r.target /\ t.deadline = r.deadline /\ t.tot = r.tot /\ t.report = r.report /\ t.fast = r.fast /\ t.done = r.done
  BY <1>5 DEF RunFields
<1>7. Recorded(t)
  BY <1>5, <1>6 DEF Recorded
<1> HIDE DEF s
<1>8. Running(t, time, spent)
  BY <1>1, <1>2, <1>3, <1>4, <1>5, <1>6 DEF Running
<1>9. Soaked(u) <= spent
  BY <1>2, <1>4
<1>10. r.target > 0 /\ time >= r.deadline => Soaked(u) >= r.target
  BY <1>1, <1>2, <1>3, <1>4
<1> QED BY <1>2, <1>5, <1>6, <1>7, <1>8, <1>9, <1>10

LEMMA SavedFacts ==
  ASSUME NEW r, Recorded(r), NEW time \in Nat, NEW spent \in Nat, Timely(r.sessions, time), Running(r, time, spent),
         NEW w, w = Saved(r, time)
  PROVE  /\ GoodFile(w, time, spent, r.tot.compared + r.report.compared)
         /\ r.target > 0 /\ time >= r.deadline => Soaked(w.sessions) >= r.target
<1> DEFINE t == Touched(r, time)
<1>1. /\ Recorded(t) /\ Timely(t.sessions, time) /\ Running(t, time, spent) /\ Soaked(t.sessions) <= spent
      /\ t.tot = r.tot /\ t.report = r.report
      /\ r.target > 0 /\ time >= r.deadline => Soaked(t.sessions) >= r.target
  BY TouchedFacts
<1>2. w = Written(t)
  BY DEF Saved
<1> HIDE DEF t
<1>3. GoodFile(w, time, spent, t.tot.compared + t.report.compared) /\ w.sessions = t.sessions
  BY <1>1, <1>2, WrittenFacts
<1> QED BY <1>1, <1>3


-----------------------------------------------------------------------------
(* The steps. *)

LEMMA ClockFacts ==
  ASSUME Clocks
  PROVE  now \in Nat /\ ran \in Nat /\ ran <= now /\ made \in Nat /\ MaxTime \in Nat
BY SoakTypes DEF Clocks

\* A run is down exactly when its place says so.
LEMMA RunIsUp ==
  ASSUME RunInv
  PROVE  (run = NoRun <=> run.at = "down") /\ (run # NoRun => RunTyped(run) /\ Timely(run.sessions, now) /\ verdict = "none")
<1>1. NoRun.at = "down"
  BY DEF NoRun
<1>2. run # NoRun => RunTyped(run) /\ Timely(run.sessions, now) /\ verdict = "none"
  BY DEF RunInv, RunSound
<1>3. run # NoRun => run.at # "down"
  BY <1>2 DEF RunTyped
<1> QED BY <1>1, <1>2, <1>3

\* What is known inside the loop.
LEMMA LoopFacts ==
  ASSUME SoakInv, run.at \in {"top", "burst", "save", "closing", "between"}, run.at = "top" => ~run.met
  PROVE  /\ run # NoRun /\ RunTyped(run) /\ Recorded(run) /\ Timely(run.sessions, now) /\ Running(run, now, ran)
         /\ run.met = FALSE /\ verdict = "none"
         /\ run.tot.compared + run.report.compared = made
         /\ run.tot.compared \in Nat /\ run.report.compared \in Nat
<1>1. RunInv /\ TallyExact
  BY DEF SoakInv
<1>2. run # NoRun /\ RunTyped(run) /\ Timely(run.sessions, now) /\ verdict = "none"
  BY <1>1, RunIsUp
<1>3. Recorded(run)
  BY <1>2, TypedIsRecorded
<1>4. RunSound(run, Kept, now, ran)
  BY <1>1, <1>2 DEF RunInv
<1>5. run.met = FALSE
  <2>1. run.met \in BOOLEAN
    BY <1>2 DEF RunTyped
  <2>2. ~run.met
    BY <1>4 DEF RunSound, Opened, Unopened
  <2> QED BY <2>1, <2>2
<1>6. Running(run, now, ran)
  BY <1>4, <1>5 DEF RunSound, Opened
<1>7. run.tot.compared + run.report.compared = made
  BY <1>1, <1>2 DEF TallyExact
<1>8. run.tot.compared \in Nat /\ run.report.compared \in Nat
  BY <1>2 DEF RunTyped, Tally
<1> QED BY <1>2, <1>3, <1>5, <1>6, <1>7, <1>8

\* A run in its loop stays sound when it keeps its session, and time passes while it counts.
LEMMA StillRunning ==
  ASSUME NEW r, NEW time \in Nat, NEW spent \in Nat, Timely(r.sessions, time), Running(r, time, spent),
         NEW later \in Nat, NEW more \in Nat, later - time = more - spent, later >= time,
         NEW q, RunTyped(q), q.at # "setup", q.met = FALSE,
         q.sessions = r.sessions, q.target = r.target, q.deadline = r.deadline, NEW kept
  PROVE  RunSound(q, kept, later, more)
<1> DEFINE s == r.sessions
<1>1. s \in Seq(Session) /\ Soaked(s) \in Int /\ Ended(s) \in Nat
  BY SoakedInt, EndedNat DEF Timely
<1>2. /\ s # <<>> /\ Soaked(s) + (time - Ended(s)) <= spent
      /\ r.target > 0 => Soaked(s) + (r.deadline - Ended(s)) >= r.target
  BY DEF Running
<1>3. Timely(s, later)
  BY TimelyLater
<1> HIDE DEF s
<1>4. q.sessions = s
  BY DEF s
<1>5. Soaked(s) + (later - Ended(s)) <= more
  BY <1>1, <1>2
<1>6. Running(q, later, more)
  BY <1>2, <1>4, <1>5 DEF Running
<1>7. Opened(q)
  BY DEF Opened
<1> QED BY <1>3, <1>4, <1>6, <1>7 DEF RunSound

\* The file after a save.
LEMMA GoodIsTimed ==
  ASSUME NEW count, GoodFile(state, now, ran, count)
  PROVE  FileTimed /\ state # NoFile /\ state.tally.compared = count
BY DEF GoodFile, FileTimed

\* An old file is as true later.
LEMMA TimedLater ==
  ASSUME Clocks, FileTimed, Clocks', state' = state, now' >= now, ran' >= ran
  PROVE  FileTimed'
<1>1. now \in Nat /\ ran \in Nat /\ now' \in Nat /\ ran' \in Nat
  BY SoakTypes DEF Clocks
<1>2. CASE state = NoFile
  BY <1>2 DEF FileTimed
<1>3. CASE state # NoFile
  <2>1. state \in SoakState /\ state.fast \in Fast /\ Timely(state.sessions, now) /\ Soaked(state.sessions) <= ran
    BY <1>3 DEF FileTimed
  <2>2. Timely(state.sessions, now')
    BY <1>1, <2>1, TimelyLater
  <2>3. Soaked(state.sessions) \in Int
    BY <2>1, SoakedInt DEF Timely
  <2>4. Soaked(state.sessions) <= ran'
    BY <1>1, <2>1, <2>3
  <2> QED BY <2>1, <2>2, <2>4 DEF FileTimed
<1> QED BY <1>2, <1>3

\* A run that ended leaves the file and what it counts.
LEMMA DownAgain ==
  ASSUME Clocks', FileTimed', run' = NoRun, made' = IF state' = NoFile THEN 0 ELSE state'.tally.compared
  PROVE  SoakInv'
<1>1. RunInv' /\ TallyExact'
  BY DEF RunInv, TallyExact
<1> QED BY <1>1 DEF SoakInv


LEMMA SoakInvInit == SoakInit => SoakInv
<1> SUFFICES ASSUME SoakInit
             PROVE  SoakInv
  OBVIOUS
<1>1. now = 0 /\ state = NoFile /\ run = NoRun /\ verdict = "none" /\ ran = 0 /\ made = 0 /\ differed = FALSE
  BY DEF SoakInit
<1>2. Clocks
  <2>1. MaxTime \in Nat
    BY SoakTypes
  <2>2. now \in 0 .. MaxTime /\ ran \in 0 .. now /\ made \in Nat
    BY <1>1, <2>1
  <2> QED BY <1>1, <2>2 DEF Clocks
<1> QED BY <1>1, <1>2 DEF SoakInv, FileTimed, RunInv, TallyExact

\* A step that leaves the clocks alone.
LEMMA SameClocks ==
  ASSUME SoakInv, now' = now, ran' = ran, made' = made, differed' = differed, verdict' \in {"none", "pass", "fail"}
  PROVE  Clocks'
BY DEF SoakInv, Clocks

LEMMA StartStep ==
  ASSUME SoakInv, NEW target \in Target, NEW fast \in Fast, Start(target, fast)
  PROVE  SoakInv'
<1> DEFINE old  == Load(fast)
           left == Remaining(old.sessions, target)
           met  == target > 0 /\ left = 0
<1>1. run = NoRun /\ verdict' = "none" /\ UNCHANGED <<now, state, ran, made, differed>>
  BY DEF Start
<1>2. Clocks /\ FileTimed /\ TallyExact
  BY DEF SoakInv
<1>3. Clocks'
  BY <1>1, SameClocks
<1>4. now \in Nat /\ ran \in Nat
  BY <1>2, ClockFacts
<1>5. FileTimed'
  BY <1>1, <1>2, <1>3, <1>4, TimedLater
<1>6. target \in Nat /\ fast \in BOOLEAN
  BY SoakTypes
<1>7. /\ old.sessions = Kept /\ old.tally \in Tally /\ old.unique \subseteq Addr
      /\ Timely(Kept, now)
      /\ old.tally.compared = IF state = NoFile THEN 0 ELSE state.tally.compared
  <2>1. CASE state = NoFile
    <3>1. old = [fast |-> fast, tally |-> NoTally, unique |-> {}, sessions |-> <<>>]
      BY <2>1 DEF Load
    <3>2. NoTally \in Tally /\ NoTally.compared = 0
      BY DEF NoTally, Tally
    <3>3. Timely(<<>>, now)
      BY <1>4, TimelyEmpty
    <3> QED BY <2>1, <3>1, <3>2, <3>3 DEF Kept
  <2>2. CASE state # NoFile
    <3>1. old = state
      BY <2>2 DEF Load
    <3>2. state \in SoakState /\ Timely(state.sessions, now)
      BY <1>2, <2>2 DEF FileTimed
    <3> QED BY <2>2, <3>1, <3>2 DEF Kept, SoakState
  <2> QED BY <2>1, <2>2
<1>8. left \in Nat /\ left = IF target > Soaked(Kept) THEN target - Soaked(Kept) ELSE 0
  <2>1. Kept \in Seq(Session)
    BY <1>7 DEF Timely
  <2> QED BY <1>6, <1>7, <2>1, RemainingIs
<1>9. Soaked(Kept) \in Int
  <2>1. Kept \in Seq(Session)
    BY <1>7 DEF Timely
  <2> QED BY <2>1, SoakedInt
<1>10. run' = [at |-> "setup", target |-> target, fast |-> fast, met |-> met, left |-> left,
               deadline |-> 0, tot |-> old.tally, report |-> NoTally, done |-> old.unique,
               sessions |-> old.sessions, round |-> 0, barren |-> 0,
               pending |-> <<>>, all |-> FALSE, empty |-> 0, gone |-> {},
               checked |-> FALSE, attempts |-> 0]
  BY DEF Start
<1>11. met \in BOOLEAN
  OBVIOUS
<1>12. met => target > 0 /\ Soaked(Kept) >= target
  BY <1>6, <1>8, <1>9
<1>13. target > 0 => Soaked(Kept) + left >= target
  BY <1>6, <1>8, <1>9
<1> HIDE DEF old, left, met
<1>14. DOMAIN run' = RunFields
  BY <1>10 DEF RunFields
<1>15. /\ run'.at = "setup" /\ run'.target = target /\ run'.fast = fast /\ run'.met = met /\ run'.left = left
       /\ run'.deadline = 0 /\ run'.tot = old.tally /\ run'.report = NoTally /\ run'.done = old.unique
       /\ run'.sessions = old.sessions /\ run'.pending = <<>>
  BY <1>10
<1>16. RunTyped(run')
  <2>1. NoTally \in Tally
    BY DEF NoTally, Tally
  <2>2. <<>> \in Seq(Addr)
    OBVIOUS
  <2> QED BY <1>6, <1>7, <1>8, <1>11, <1>14, <1>15, <2>1, <2>2 DEF RunTyped
<1>17. Kept' = Kept
  BY <1>1 DEF Kept
<1>18. Unopened(run', Kept) /\ ~Opened(run')
  BY <1>7, <1>12, <1>13, <1>15 DEF Unopened, Opened
<1>19. RunSound(run', Kept, now, ran)
  BY <1>7, <1>15, <1>16, <1>18 DEF RunSound
<1>20. RunInv'
  BY <1>1, <1>17, <1>19 DEF RunInv
<1>21. TallyExact'
  <2>1. made = IF state = NoFile THEN 0 ELSE state.tally.compared
    BY <1>1, <1>2 DEF TallyExact
  <2>2. run'.tot.compared + run'.report.compared = made
    <3>1. NoTally.compared = 0 /\ old.tally.compared \in Nat
      BY <1>7 DEF NoTally, Tally
    <3> QED BY <1>7, <1>15, <2>1, <3>1
  <2> QED BY <1>1, <2>1, <2>2 DEF TallyExact
<1> QED BY <1>3, <1>5, <1>20, <1>21 DEF SoakInv

LEMMA SetupFailsStep ==
  ASSUME SoakInv, SetupFails
  PROVE  SoakInv'
<1>1. run.at = "setup" /\ run' = NoRun /\ verdict' = "fail" /\ UNCHANGED <<now, state, ran, made, differed>>
  BY DEF SetupFails, Exit
<1>2. Clocks /\ FileTimed /\ TallyExact /\ RunInv
  BY DEF SoakInv
<1>3. Clocks'
  BY <1>1, SameClocks
<1>4. FileTimed'
  BY <1>1, <1>2, <1>3, ClockFacts, TimedLater
<1>5. made = IF state = NoFile THEN 0 ELSE state.tally.compared
  BY <1>1, <1>2 DEF TallyExact
<1> QED BY <1>1, <1>3, <1>4, <1>5, DownAgain

LEMMA CrashStep ==
  ASSUME SoakInv, Crash
  PROVE  SoakInv'
<1>1. run' = NoRun /\ made' = (IF state = NoFile THEN 0 ELSE state.tally.compared) /\ UNCHANGED <<now, state, verdict, ran, differed>>
  BY DEF Crash
<1>2. Clocks /\ FileTimed
  BY DEF SoakInv
<1>3. made' \in Nat
  <2>1. state # NoFile => state.tally.compared \in Nat
    BY <1>2 DEF FileTimed, SoakState, Tally
  <2> QED BY <1>1, <2>1
<1>4. Clocks'
  BY <1>1, <1>2, <1>3 DEF Clocks
<1>5. FileTimed'
  BY <1>1, <1>2, <1>4, ClockFacts, TimedLater
<1> QED BY <1>1, <1>4, <1>5, DownAgain

LEMMA WaitStep ==
  ASSUME SoakInv, Wait
  PROVE  SoakInv'
<1>1. run.at \in {"down", "setup"} /\ now < MaxTime /\ now' = now + 1 /\ UNCHANGED <<state, run, verdict, ran, made, differed>>
  BY DEF Wait
<1>2. Clocks /\ FileTimed /\ RunInv /\ TallyExact
  BY DEF SoakInv
<1>3. now \in Nat /\ ran \in Nat /\ ran <= now /\ MaxTime \in Nat
  BY <1>2, ClockFacts
<1>4. Clocks'
  <2>1. now' \in 0 .. MaxTime /\ ran' \in 0 .. now'
    BY <1>1, <1>3
  <2> QED BY <1>1, <1>2, <2>1 DEF Clocks
<1>5. FileTimed'
  BY <1>1, <1>2, <1>3, <1>4, TimedLater
<1>6. RunInv'
  <2> SUFFICES ASSUME run # NoRun
               PROVE  RunSound(run, Kept, now', ran) /\ verdict = "none"
    BY <1>1 DEF RunInv, Kept
  <2>1. RunSound(run, Kept, now, ran) /\ verdict = "none" /\ run.at = "setup"
    BY <1>1, <1>2, RunIsUp DEF RunInv
  <2>2. Timely(run.sessions, now')
    BY <1>1, <1>3, <2>1, TimelyLater DEF RunSound
  <2> QED BY <2>1, <2>2 DEF RunSound, Opened
<1>7. TallyExact'
  BY <1>1, <1>2 DEF TallyExact
<1> QED BY <1>4, <1>5, <1>6, <1>7 DEF SoakInv


LEMMA OpenRunStep ==
  ASSUME SoakInv, OpenRun
  PROVE  SoakInv'
<1>1. run.at = "setup" /\ UNCHANGED <<now, verdict, ran, made, differed>>
  BY DEF OpenRun
<1>2. Clocks /\ FileTimed /\ TallyExact /\ RunInv
  BY DEF SoakInv
<1>3. now \in Nat /\ ran \in Nat
  BY <1>2, ClockFacts
<1>4. Clocks'
  BY <1>1, <1>2 DEF Clocks
<1>5. /\ run # NoRun /\ RunTyped(run) /\ verdict = "none" /\ Timely(run.sessions, now)
      /\ RunSound(run, Kept, now, ran)
  BY <1>1, <1>2, RunIsUp DEF RunInv
<1>6. Unopened(run, Kept)
  BY <1>1, <1>5 DEF RunSound, Opened
<1>7. /\ run.tot.compared + run.report.compared = made
      /\ made = IF state = NoFile THEN 0 ELSE state.tally.compared
  BY <1>1, <1>2, <1>5 DEF TallyExact
<1>8. DOMAIN run = RunFields /\ run.report = NoTally
  BY <1>1, <1>5 DEF RunTyped
<1>9. Soaked(run.sessions) <= ran
  <2>1. run.sessions = Kept
    BY <1>6 DEF Unopened
  <2>2. CASE state = NoFile
    BY <1>3, <2>1, <2>2, SoakedEmpty DEF Kept
  <2>3. CASE state # NoFile
    BY <1>2, <2>1, <2>3 DEF Kept, FileTimed
  <2> QED BY <2>2, <2>3
<1>10. CASE run.met
  <2>1. run' = [run EXCEPT !.at = "top"] /\ state' = state
    BY <1>10 DEF OpenRun
  <2>2. DOMAIN run' = RunFields /\ run'.at = "top" /\ \A x \in RunFields \ {"at"} : run'[x] = run[x]
    BY <1>8, <2>1 DEF RunFields
  <2>3. /\ run'.target = run.target /\ run'.fast = run.fast /\ run'.met = run.met /\ run'.left = run.left
        /\ run'.deadline = run.deadline /\ run'.tot = run.tot /\ run'.report = run.report /\ run'.done = run.done
        /\ run'.sessions = run.sessions /\ run'.pending = run.pending
    BY <2>2 DEF RunFields
  <2>4. RunTyped(run')
    BY <1>5, <1>8, <2>2, <2>3 DEF RunTyped
  <2>5. Unopened(run', Kept)
    BY <1>6, <1>10, <2>2, <2>3 DEF Unopened
  <2>6. RunSound(run', Kept, now, ran)
    BY <1>5, <1>10, <2>3, <2>4, <2>5 DEF RunSound, Opened
  <2>7. FileTimed'
    BY <1>1, <1>2, <1>3, <1>4, <2>1, TimedLater
  <2>8. Kept' = Kept
    BY <2>1 DEF Kept
  <2>9. RunInv'
    BY <1>1, <1>5, <2>6, <2>8 DEF RunInv
  <2>10. TallyExact'
    BY <1>1, <1>7, <2>1, <2>3 DEF TallyExact
  <2> QED BY <1>4, <2>7, <2>9, <2>10 DEF SoakInv
<1>11. CASE ~run.met
  <2> DEFINE u == Append(run.sessions, [started |-> now, ended |-> now])
             d == now + run.left
  <2>1. run' = [run EXCEPT !.at = "top", !.sessions = u, !.deadline = d] /\ state' = Written(run')
    BY <1>11 DEF OpenRun, OpenSession
  <2>2. Timely(u, now) /\ u # <<>> /\ Ended(u) = now /\ Soaked(u) = Soaked(run.sessions)
    BY <1>3, <1>5, OpenFacts
  <2>3. d \in Nat
    BY <1>3, <1>5 DEF RunTyped
  <2>4. run.left \in Nat /\ run.target \in Nat /\ Soaked(run.sessions) \in Int
    BY <1>5, SoakedInt DEF RunTyped, Timely
  <2>5. run.target > 0 => Soaked(u) + (d - Ended(u)) >= run.target
    <3>1. run.target > 0 => Soaked(run.sessions) + run.left >= run.target
      BY <1>6 DEF Unopened
    <3> QED BY <1>3, <2>2, <2>4, <3>1
  <2> HIDE DEF u, d
  <2>6. DOMAIN run' = RunFields /\ run'.at = "top" /\ run'.sessions = u /\ run'.deadline = d
    BY <1>8, <2>1 DEF RunFields
  <2>7. /\ run'.target = run.target /\ run'.fast = run.fast /\ run'.met = run.met /\ run'.left = run.left
        /\ run'.tot = run.tot /\ run'.report = run.report /\ run'.done = run.done
        /\ run'.pending = run.pending
    BY <1>8, <2>1 DEF RunFields
  <2>8. RunTyped(run')
    BY <1>5, <1>8, <2>3, <2>6, <2>7 DEF RunTyped
  <2>9. Running(run', now, ran)
    BY <1>3, <1>9, <2>2, <2>4, <2>5, <2>6, <2>7 DEF Running
  <2>10. RunSound(run', Kept', now, ran)
    BY <1>11, <2>2, <2>6, <2>7, <2>8, <2>9 DEF RunSound, Opened
  <2>11. GoodFile(state', now, ran, made)
    <3>1. Recorded(run')
      BY <2>8, TypedIsRecorded
    <3>2. Soaked(run'.sessions) <= ran /\ Timely(run'.sessions, now)
      BY <1>9, <2>2, <2>6
    <3>3. GoodFile(state', now, ran, run'.tot.compared + run'.report.compared)
      BY <1>3, <2>1, <3>1, <3>2, WrittenFacts
    <3> QED BY <1>7, <2>7, <3>3
  <2>12. FileTimed' /\ state' # NoFile /\ state'.tally.compared = made
    BY <1>1, <2>11 DEF GoodFile, FileTimed
  <2>13. RunInv'
    BY <1>1, <1>5, <2>10 DEF RunInv
  <2>14. TallyExact'
    BY <1>1, <1>7, <2>7, <2>12 DEF TallyExact
  <2> QED BY <1>4, <2>12, <2>13, <2>14 DEF SoakInv
<1> QED BY <1>10, <1>11

\* The end of a run: what it has counted and the time of its sessions are in the file, and they reach the
\* target when the deadline has passed.
LEMMA ConcludeStep ==
  ASSUME SoakInv, run.at \in {"top", "between"}, Conclude(run), UNCHANGED <<now, ran, made, differed>>,
         run.met \/ (run.target > 0 => now >= run.deadline)
  PROVE  SoakInv' /\ Soaked(state'.sessions) >= run.target
<1>1. run' = NoRun /\ verdict' \in {"pass", "fail"}
  BY DEF Conclude, Exit
<1>2. Clocks /\ FileTimed /\ TallyExact /\ RunInv
  BY DEF SoakInv
<1>3. now \in Nat /\ ran \in Nat
  BY <1>2, ClockFacts
<1>4. Clocks'
  BY <1>1, <1>2 DEF Clocks
<1>5. run # NoRun /\ RunTyped(run) /\ RunSound(run, Kept, now, ran)
  BY <1>2, RunIsUp DEF RunInv
<1>6. CASE run.met
  <2>1. state' = state
    BY <1>6 DEF Conclude
  <2>2. FileTimed'
    BY <1>2, <1>3, <1>4, <2>1, TimedLater
  <2>3. made = IF state = NoFile THEN 0 ELSE state.tally.compared
    BY <1>2 DEF TallyExact
  <2>4. SoakInv'
    BY <1>1, <1>4, <2>1, <2>2, <2>3, DownAgain
  <2>5. run.target > 0 /\ Soaked(Kept) >= run.target
    BY <1>5, <1>6 DEF RunSound, Opened, Unopened
  <2>6. state # NoFile
    <3> SUFFICES ASSUME state = NoFile
                 PROVE  FALSE
      OBVIOUS
    <3>1. run.target \in Nat
      BY <1>5 DEF RunTyped
    <3> QED BY <2>5, <3>1, SoakedEmpty DEF Kept
  <2> QED BY <2>1, <2>4, <2>5, <2>6 DEF Kept
<1>7. CASE ~run.met
  <2>1. state' = Saved(run, now)
    BY <1>7 DEF Conclude
  <2>2. /\ Recorded(run) /\ Timely(run.sessions, now) /\ Running(run, now, ran)
        /\ run.tot.compared + run.report.compared = made
    BY <1>7, LoopFacts
  <2>3. /\ GoodFile(state', now, ran, made)
        /\ run.target > 0 /\ now >= run.deadline => Soaked(state'.sessions) >= run.target
    BY <1>3, <2>1, <2>2, SavedFacts
  <2>4. FileTimed' /\ state' # NoFile /\ state'.tally.compared = made
    BY <2>3 DEF GoodFile, FileTimed
  <2>5. SoakInv'
    BY <1>1, <1>4, <2>4, DownAgain
  <2>6. Soaked(state'.sessions) \in Nat
    BY <2>3, SoakedNat DEF GoodFile, Timely
  <2>7. run.target \in Nat
    BY <1>5 DEF RunTyped
  <2>8. CASE run.target > 0
    BY <1>7, <2>3, <2>5, <2>8
  <2>9. CASE ~(run.target > 0)
    BY <2>5, <2>6, <2>7, <2>9
  <2> QED BY <2>8, <2>9
<1> QED BY <1>6, <1>7

LEMMA EndLoopStep ==
  ASSUME SoakInv, EndLoop
  PROVE  SoakInv' /\ Soaked(state'.sessions) >= run.target
<1>1. run.at = "top" /\ LoopEnds /\ Conclude(run) /\ UNCHANGED <<now, ran, made, differed>>
  BY DEF EndLoop
<1>2. run.met \/ (run.target > 0 => now >= run.deadline)
  BY <1>1 DEF LoopEnds
<1> QED BY <1>1, <1>2, ConcludeStep

LEMMA FinishStep ==
  ASSUME SoakInv, Finish
  PROVE  SoakInv' /\ Soaked(state'.sessions) >= run.target
<1>1. run.at = "between" /\ ~MoreRounds /\ Conclude(run) /\ UNCHANGED <<now, ran, made, differed>>
  BY DEF Finish
<1>2. RunTyped(run) /\ now \in Nat
  <2>1. RunInv /\ Clocks
    BY DEF SoakInv
  <2> QED BY <1>1, <2>1, RunIsUp, ClockFacts
<1>3. run.target > 0 => now >= run.deadline
  BY <1>1, <1>2 DEF MoreRounds, RunTyped
<1> QED BY <1>1, <1>3, ConcludeStep


LEMMA StartRoundStep ==
  ASSUME SoakInv, StartRound
  PROVE  SoakInv'
<1> DEFINE all     == VisitAll(run.target, run.done)
           round   == IF run.target > 0 THEN 0 ELSE run.round + 1
           pending == IF all THEN Addresses ELSE Unmatched(Addresses, run.done)
<1>1. run.at = "top" /\ ~LoopEnds /\ UNCHANGED <<now, state, verdict, ran, made, differed>>
  BY DEF StartRound
<1>2. run' = [run EXCEPT !.at = "burst", !.round = round, !.report = NoTally, !.all = all, !.pending = pending,
                         !.empty = 0, !.gone = {}, !.checked = FALSE, !.attempts = 0]
  BY DEF StartRound
<1>3. ~run.met
  BY <1>1 DEF LoopEnds
<1>4. /\ run # NoRun /\ RunTyped(run) /\ Timely(run.sessions, now) /\ Running(run, now, ran)
      /\ run.met = FALSE /\ verdict = "none" /\ run.tot.compared + run.report.compared = made
  BY <1>1, <1>3, LoopFacts
<1>5. Clocks /\ FileTimed /\ TallyExact
  BY DEF SoakInv
<1>6. now \in Nat /\ ran \in Nat
  BY <1>5, ClockFacts
<1>7. Clocks' /\ FileTimed'
  <2>1. Clocks'
    BY <1>1, <1>5 DEF Clocks
  <2> QED BY <1>1, <1>5, <1>6, <2>1, TimedLater
<1>8. pending \in Seq(Addr)
  <2>1. Addresses \in Seq(Addr)
    BY SoakTypes
  <2> QED BY <2>1, UnmatchedType
<1>9. DOMAIN run = RunFields /\ run.report = NoTally
  BY <1>1, <1>4 DEF RunTyped
<1> HIDE DEF all, round, pending
<1>10. DOMAIN run' = RunFields /\ run'.at = "burst" /\ run'.report = NoTally /\ run'.pending = pending
  BY <1>2, <1>9 DEF RunFields
<1>11. /\ run'.target = run.target /\ run'.fast = run.fast /\ run'.met = run.met /\ run'.left = run.left
       /\ run'.deadline = run.deadline /\ run'.tot = run.tot /\ run'.done = run.done /\ run'.sessions = run.sessions
  BY <1>2, <1>9 DEF RunFields
<1>12. RunTyped(run')
  BY <1>4, <1>8, <1>9, <1>10, <1>11 DEF RunTyped
<1>13. RunSound(run', Kept', now, ran)
  <2>1. now - now = ran - ran /\ now >= now
    BY <1>6
  <2> QED BY <1>4, <1>6, <1>10, <1>11, <1>12, <2>1, StillRunning
<1>14. RunInv'
  BY <1>1, <1>4, <1>13 DEF RunInv
<1>15. TallyExact'
  <2>1. made = IF state = NoFile THEN 0 ELSE state.tally.compared
    BY <1>1, <1>5 DEF TallyExact
  <2>2. run'.tot.compared + run'.report.compared = made
    BY <1>4, <1>9, <1>10, <1>11
  <2> QED BY <1>1, <2>1, <2>2 DEF TallyExact
<1> QED BY <1>7, <1>14, <1>15 DEF SoakInv

\* Time that passes inside the loop.
LEMMA ElapseFacts ==
  ASSUME Clocks, Elapse
  PROVE  /\ now' = now + 1 /\ ran' = ran + 1 /\ now \in Nat /\ ran \in Nat
         /\ now' \in 0 .. MaxTime /\ ran' \in 0 .. now'
         /\ now' \in Nat /\ ran' \in Nat /\ now' - now = ran' - ran /\ now' >= now /\ ran' >= ran
<1>1. now \in Nat /\ ran \in Nat /\ ran <= now /\ MaxTime \in Nat
  BY ClockFacts
<1>2. now < MaxTime /\ now' = now + 1 /\ ran' = ran + 1
  BY DEF Elapse
<1> QED BY <1>1, <1>2

\* A step inside the loop that changes neither the session nor what goes into the totals.
LEMMA LoopStep ==
  ASSUME SoakInv, run.at \in {"burst", "between"}, Elapse, UNCHANGED <<state, verdict, made, differed>>,
         DOMAIN run' = RunFields, run'.at \in {"top", "burst", "closing"},
         \A x \in RunFields \ {"at", "empty"} : run'[x] = run[x],
         run'.at = "top" => run.report = NoTally
  PROVE  SoakInv'
<1>1. /\ run # NoRun /\ RunTyped(run) /\ Timely(run.sessions, now) /\ Running(run, now, ran)
      /\ run.met = FALSE /\ verdict = "none" /\ run.tot.compared + run.report.compared = made
  BY LoopFacts
<1>2. Clocks /\ FileTimed /\ TallyExact
  BY DEF SoakInv
<1>3. /\ now \in Nat /\ ran \in Nat /\ now' \in 0 .. MaxTime /\ ran' \in 0 .. now'
      /\ now' \in Nat /\ ran' \in Nat /\ now' - now = ran' - ran /\ now' >= now /\ ran' >= ran
  BY <1>2, ElapseFacts
<1>4. Clocks'
  BY <1>2, <1>3 DEF Clocks
<1>5. FileTimed'
  BY <1>2, <1>3, <1>4, TimedLater
<1>6. /\ run'.target = run.target /\ run'.fast = run.fast /\ run'.met = run.met /\ run'.left = run.left
      /\ run'.deadline = run.deadline /\ run'.tot = run.tot /\ run'.report = run.report /\ run'.done = run.done
      /\ run'.sessions = run.sessions /\ run'.pending = run.pending
  BY DEF RunFields
<1>7. RunTyped(run')
  BY <1>1, <1>6 DEF RunTyped
<1>8. RunSound(run', Kept', now', ran')
  BY <1>1, <1>3, <1>6, <1>7, StillRunning
<1>9. RunInv'
  BY <1>1, <1>8 DEF RunInv
<1>10. TallyExact'
  BY <1>1, <1>2, <1>6 DEF TallyExact
<1> QED BY <1>4, <1>5, <1>9, <1>10 DEF SoakInv

LEMMA NoWindowStep ==
  ASSUME SoakInv, NoWindow
  PROVE  SoakInv'
<1> DEFINE q == [run EXCEPT !.empty = @ + 1]
           x == IF RoundOver(q) THEN "closing" ELSE "burst"
<1>1. run.at = "burst" /\ Elapse /\ UNCHANGED <<state, verdict, made, differed>> /\ run' = Onward(q)
  BY DEF NoWindow
<1>2. run' = [q EXCEPT !.at = x]
  BY <1>1 DEF Onward
<1>3. x \in {"closing", "burst"}
  OBVIOUS
<1> HIDE DEF x
<1>4. DOMAIN run = RunFields
  BY <1>1, LoopFacts DEF RunTyped
<1>5. DOMAIN run' = RunFields /\ run'.at = x
  BY <1>2, <1>4 DEF RunFields
<1>6. \A y \in RunFields \ {"at", "empty"} : run'[y] = run[y]
  BY <1>2, <1>4 DEF RunFields
<1> QED BY <1>1, <1>3, <1>5, <1>6, LoopStep

LEMMA IntervalStep ==
  ASSUME SoakInv, Interval
  PROVE  SoakInv'
<1>1. run.at = "between" /\ Elapse /\ UNCHANGED <<state, verdict, made, differed>> /\ run' = [run EXCEPT !.at = "top"]
  BY DEF Interval
<1>2. DOMAIN run = RunFields /\ run.report = NoTally
  BY <1>1, LoopFacts DEF RunTyped
<1>3. DOMAIN run' = RunFields /\ run'.at = "top"
  BY <1>1, <1>2 DEF RunFields
<1>4. \A y \in RunFields \ {"at", "empty"} : run'[y] = run[y]
  BY <1>1, <1>2 DEF RunFields
<1> QED BY <1>1, <1>2, <1>3, <1>4, LoopStep

LEMMA AgreeingBurstStep ==
  ASSUME SoakInv, NEW fin, NEW o \in Outcomes, NEW at_fast \in BOOLEAN, AgreeingBurst(fin, o, at_fast)
  PROVE  SoakInv'
<1>1. /\ run.at = "burst" /\ Elapse /\ UNCHANGED <<state, verdict, differed>>
      /\ run' = AfterBurst(fin, o, at_fast) /\ made' = made + run'.report.compared - run.report.compared
  BY DEF AgreeingBurst
<1>2. /\ run # NoRun /\ RunTyped(run) /\ Timely(run.sessions, now) /\ Running(run, now, ran)
      /\ run.met = FALSE /\ verdict = "none" /\ run.tot.compared + run.report.compared = made
      /\ run.tot.compared \in Nat /\ run.report.compared \in Nat
  BY <1>1, LoopFacts
<1>3. Clocks /\ FileTimed
  BY DEF SoakInv
<1>4. /\ now \in Nat /\ ran \in Nat /\ now' \in 0 .. MaxTime /\ ran' \in 0 .. now'
      /\ now' \in Nat /\ ran' \in Nat /\ now' - now = ran' - ran /\ now' >= now /\ ran' >= ran
  BY <1>1, <1>3, ElapseFacts
<1>5. Bursted(run', run)
  BY <1>1, <1>2, AfterBurstFacts
<1>6. run'.report.compared \in Nat
  BY <1>5 DEF Bursted, Tally
<1>7. made' = run'.tot.compared + run'.report.compared /\ made' \in Nat
  <2>1. run'.tot = run.tot
    BY <1>5 DEF Bursted
  <2> QED BY <1>1, <1>2, <1>6, <2>1
<1>8. Clocks'
  BY <1>1, <1>3, <1>4, <1>7 DEF Clocks
<1>9. FileTimed'
  BY <1>1, <1>3, <1>4, <1>8, TimedLater
<1>10. RunTyped(run')
  BY <1>2, <1>5 DEF RunTyped, Bursted
<1>11. run'.at = "save" /\ run'.met = FALSE /\ run'.sessions = run.sessions /\ run'.target = run.target /\ run'.deadline = run.deadline
  BY <1>2, <1>5 DEF Bursted
<1>12. RunSound(run', Kept', now', ran')
  <2>1. run'.at # "setup"
    BY <1>11
  <2> QED BY <1>2, <1>4, <1>10, <1>11, <2>1, StillRunning
<1>13. RunInv'
  BY <1>1, <1>2, <1>12 DEF RunInv
<1>14. TallyExact'
  <2>1. run' # NoRun
    BY <1>11 DEF NoRun
  <2> QED BY <1>7, <1>11, <2>1 DEF TallyExact
<1> QED BY <1>8, <1>9, <1>13, <1>14 DEF SoakInv

LEMMA DifferenceStep ==
  ASSUME SoakInv, NEW fin, NEW o \in Outcomes, NEW at_fast \in BOOLEAN, Difference(fin, o, at_fast)
  PROVE  SoakInv'
<1> DEFINE r == AfterBurst(fin, o, at_fast)
           p == Plus(r.tot, r.report)
           q == [r EXCEPT !.tot = p, !.report = NoTally]
<1>1. /\ run.at = "burst" /\ Elapse /\ run' = NoRun /\ verdict' = "fail" /\ differed' = TRUE
      /\ state' = Saved(q, now') /\ made' = made + r.report.compared - run.report.compared
  BY DEF Difference, Exit
<1>2. /\ run # NoRun /\ RunTyped(run) /\ Recorded(run) /\ Timely(run.sessions, now) /\ Running(run, now, ran)
      /\ run.met = FALSE /\ verdict = "none" /\ run.tot.compared + run.report.compared = made
      /\ run.tot.compared \in Nat /\ run.report.compared \in Nat
  BY <1>1, LoopFacts
<1>3. Clocks /\ FileTimed
  BY DEF SoakInv
<1>4. /\ now \in Nat /\ ran \in Nat /\ now' \in 0 .. MaxTime /\ ran' \in 0 .. now'
      /\ now' \in Nat /\ ran' \in Nat /\ now' - now = ran' - ran /\ now' >= now /\ ran' >= ran
  BY <1>1, <1>3, ElapseFacts
<1>5. Bursted(r, run)
  BY <1>2, AfterBurstFacts
<1> HIDE DEF r
<1>6. r.report \in Tally /\ r.tot \in Tally /\ r.tot = run.tot /\ r.report.compared \in Nat /\ DOMAIN r = RunFields
  BY <1>2, <1>5 DEF Bursted, RunTyped, Tally
<1>7. p \in Tally /\ p.compared = r.tot.compared + r.report.compared
  BY <1>6, PlusType
<1> HIDE DEF p
<1>8. made' = p.compared /\ made' \in Nat
  BY <1>1, <1>2, <1>6, <1>7
<1>9. Clocks'
  BY <1>1, <1>3, <1>4, <1>8 DEF Clocks
<1>10. DOMAIN q = RunFields /\ q.tot = p /\ q.report = NoTally
  BY <1>6 DEF RunFields
<1>11. /\ q.at = r.at /\ q.target = r.target /\ q.fast = r.fast /\ q.met = r.met
       /\ q.deadline = r.deadline /\ q.done = r.done /\ q.sessions = r.sessions
  BY <1>6 DEF RunFields
<1> HIDE DEF q
<1>12. /\ q.target = run.target /\ q.fast = run.fast /\ q.deadline = run.deadline /\ q.done \subseteq Addr
       /\ q.sessions = run.sessions
  BY <1>5, <1>11 DEF Bursted
<1>13. Recorded(q)
  <2>1. NoTally \in Tally
    BY DEF NoTally, Tally
  <2> QED BY <1>2, <1>7, <1>10, <1>12, <2>1 DEF Recorded
<1>14. Timely(q.sessions, now') /\ Running(q, now', ran')
  <2>1. Soaked(run.sessions) \in Int /\ Ended(run.sessions) \in Nat
    BY <1>2, SoakedInt, EndedNat DEF Timely
  <2>2. Timely(run.sessions, now')
    BY <1>2, <1>4, TimelyLater
  <2>3. Soaked(run.sessions) + (now - Ended(run.sessions)) <= ran
    BY <1>2 DEF Running
  <2>4. Soaked(run.sessions) + (now' - Ended(run.sessions)) <= ran'
    BY <1>4, <2>1, <2>3
  <2>5. Running(q, now', ran')
    BY <1>2, <1>12, <2>4 DEF Running
  <2> QED BY <1>12, <2>2, <2>5
<1>15. GoodFile(state', now', ran', p.compared)
  <2>1. GoodFile(state', now', ran', q.tot.compared + q.report.compared)
    BY <1>1, <1>4, <1>13, <1>14, SavedFacts
  <2>2. NoTally.compared = 0 /\ p.compared \in Nat
    BY <1>8 DEF NoTally
  <2> QED BY <1>10, <2>1, <2>2
<1>16. FileTimed' /\ state' # NoFile /\ state'.tally.compared = made'
  BY <1>8, <1>15 DEF GoodFile, FileTimed
<1> QED BY <1>1, <1>9, <1>16, DownAgain


LEMMA SaveBurstStep ==
  ASSUME SoakInv, SaveBurst
  PROVE  SoakInv'
<1> DEFINE t == Touched(run, now)
           x == IF RoundOver(t) THEN "closing" ELSE "burst"
<1>1. run.at = "save" /\ state' = Saved(run, now) /\ run' = Onward(t) /\ UNCHANGED <<now, verdict, ran, made, differed>>
  BY DEF SaveBurst
<1>2. /\ run # NoRun /\ RunTyped(run) /\ Recorded(run) /\ Timely(run.sessions, now) /\ Running(run, now, ran)
      /\ run.met = FALSE /\ verdict = "none" /\ run.tot.compared + run.report.compared = made
  BY <1>1, LoopFacts
<1>3. Clocks
  BY DEF SoakInv
<1>4. now \in Nat /\ ran \in Nat /\ Clocks'
  BY <1>1, <1>3, ClockFacts DEF Clocks
<1>5. GoodFile(state', now, ran, made)
  BY <1>1, <1>2, <1>4, SavedFacts
<1>6. FileTimed' /\ state' # NoFile /\ state'.tally.compared = made
  BY <1>1, <1>5 DEF GoodFile, FileTimed
<1>7. run' = [t EXCEPT !.at = x] /\ x \in {"closing", "burst"}
  BY <1>1 DEF Onward
<1>8. DOMAIN run = RunFields
  BY <1>2 DEF RunTyped
<1>9. Timely(t.sessions, now) /\ Running(t, now, ran)
  BY <1>2, <1>4, TouchedFacts
<1>10. DOMAIN t = RunFields /\ \A y \in RunFields \ {"sessions"} : t[y] = run[y]
  BY <1>8, TouchedFields
<1> HIDE DEF t, x
<1>11. DOMAIN run' = RunFields /\ run'.at = x /\ \A y \in RunFields \ {"at"} : run'[y] = t[y]
  BY <1>7, <1>10 DEF RunFields
<1>12. /\ run'.target = run.target /\ run'.fast = run.fast /\ run'.met = run.met /\ run'.left = run.left
       /\ run'.deadline = run.deadline /\ run'.tot = run.tot /\ run'.report = run.report /\ run'.done = run.done
       /\ run'.pending = run.pending
  BY <1>10, <1>11 DEF RunFields
<1>13. run'.sessions = t.sessions /\ t.target = run.target /\ t.deadline = run.deadline
  BY <1>10, <1>11 DEF RunFields
<1>14. RunTyped(run')
  BY <1>2, <1>7, <1>11, <1>12 DEF RunTyped
<1>15. RunSound(run', Kept', now, ran)
  <2>1. now - now = ran - ran /\ now >= now /\ run'.at # "setup" /\ run'.met = FALSE
    BY <1>2, <1>4, <1>7, <1>11, <1>12
  <2>2. run'.sessions = t.sessions /\ run'.target = t.target /\ run'.deadline = t.deadline
    BY <1>12, <1>13
  <2> QED BY <1>4, <1>9, <1>14, <2>1, <2>2, StillRunning
<1>16. RunInv'
  BY <1>1, <1>2, <1>15 DEF RunInv
<1>17. TallyExact'
  BY <1>1, <1>2, <1>6, <1>12 DEF TallyExact
<1> QED BY <1>4, <1>6, <1>16, <1>17 DEF SoakInv

LEMMA CloseRoundStep ==
  ASSUME SoakInv, CloseRound
  PROVE  SoakInv'
<1> DEFINE t == Touched(run, now)
           p == Plus(run.tot, run.report)
           barren == IF run.report.compared = 0 THEN run.barren + 1 ELSE 0
           r == [t EXCEPT !.tot = Plus(@, run.report), !.report = NoTally, !.barren = barren, !.at = "between"]
<1>1. /\ run.at \in {"closing", "burst"} /\ state' = Saved(r, now) /\ UNCHANGED <<now, ran, made, differed>>
      /\ (run' = NoRun /\ verdict' = "fail") \/ (run' = r /\ verdict' = verdict)
  BY DEF CloseRound, Exit
<1>2. /\ run # NoRun /\ RunTyped(run) /\ Recorded(run) /\ Timely(run.sessions, now) /\ Running(run, now, ran)
      /\ run.met = FALSE /\ verdict = "none" /\ run.tot.compared + run.report.compared = made
  BY <1>1, LoopFacts
<1>3. Clocks
  BY DEF SoakInv
<1>4. now \in Nat /\ ran \in Nat
  BY <1>3, ClockFacts
<1>5. Clocks'
  BY <1>1, <1>3 DEF Clocks
<1>6. DOMAIN run = RunFields /\ run.tot \in Tally /\ run.report \in Tally
  BY <1>2 DEF RunTyped
<1>7. p \in Tally /\ p.compared = made
  BY <1>2, <1>6, PlusType
<1>8. Timely(t.sessions, now) /\ Running(t, now, ran)
  BY <1>2, <1>4, TouchedFacts
<1>9. DOMAIN t = RunFields /\ \A y \in RunFields \ {"sessions"} : t[y] = run[y]
  BY <1>6, TouchedFields
<1> HIDE DEF t
<1>10. t.tot = run.tot /\ t.target = run.target /\ t.deadline = run.deadline
  BY <1>9 DEF RunFields
<1>11. r = [t EXCEPT !.tot = p, !.report = NoTally, !.barren = barren, !.at = "between"]
  BY <1>10
<1> HIDE DEF r, p, barren
<1>12. DOMAIN r = RunFields /\ r.at = "between" /\ r.tot = p /\ r.report = NoTally
  BY <1>9, <1>11 DEF RunFields
<1>13. /\ r.target = t.target /\ r.fast = t.fast /\ r.met = t.met /\ r.left = t.left /\ r.deadline = t.deadline
       /\ r.done = t.done /\ r.sessions = t.sessions /\ r.pending = t.pending
  BY <1>9, <1>11 DEF RunFields
<1>14. /\ r.target = run.target /\ r.fast = run.fast /\ r.met = run.met /\ r.left = run.left /\ r.deadline = run.deadline
       /\ r.done = run.done /\ r.pending = run.pending
  BY <1>9, <1>13 DEF RunFields
<1>15. RunTyped(r)
  <2>1. NoTally \in Tally
    BY DEF NoTally, Tally
  <2> QED BY <1>2, <1>7, <1>12, <1>14, <2>1 DEF RunTyped
<1>16. Timely(r.sessions, now) /\ Running(r, now, ran)
  BY <1>8, <1>13 DEF Running
<1>17. r.tot.compared + r.report.compared = made
  <2>1. NoTally.compared = 0 /\ made \in Nat
    BY <1>3, ClockFacts DEF NoTally
  <2> QED BY <1>7, <1>12, <2>1
<1>18. GoodFile(state', now, ran, made)
  BY <1>1, <1>4, <1>15, <1>16, <1>17, TypedIsRecorded, SavedFacts
<1>19. FileTimed' /\ state' # NoFile /\ state'.tally.compared = made
  BY <1>1, <1>18 DEF GoodFile, FileTimed
<1>20. CASE run' = NoRun
  <2>1. verdict' \in {"none", "pass", "fail"}
    BY <1>1, <1>2
  <2>2. Clocks'
    BY <1>1, <1>3, <2>1 DEF Clocks
  <2> QED BY <1>1, <1>19, <1>20, <2>2, DownAgain
<1>21. CASE run' = r /\ verdict' = verdict
  <2>1. RunSound(r, Kept', now, ran)
    BY <1>2, <1>12, <1>14, <1>15, <1>16 DEF RunSound, Opened
  <2>2. RunInv'
    BY <1>1, <1>2, <1>21, <2>1 DEF RunInv
  <2>3. TallyExact'
    BY <1>1, <1>17, <1>19, <1>21 DEF TallyExact
  <2> QED BY <1>5, <1>19, <2>2, <2>3 DEF SoakInv
<1> QED BY <1>1, <1>20, <1>21

LEMMA SoakInvStep ==
  ASSUME SoakInv, [SoakNext]_soakVars
  PROVE  SoakInv'
<1>1. ASSUME NEW target \in Target, NEW fast \in Fast, Start(target, fast)
      PROVE  SoakInv'
  BY <1>1, StartStep
<1>2. CASE SetupFails
  BY <1>2, SetupFailsStep
<1>3. CASE OpenRun
  BY <1>3, OpenRunStep
<1>4. CASE StartRound
  BY <1>4, StartRoundStep
<1>5. CASE EndLoop
  BY <1>5, EndLoopStep
<1>6. CASE NoWindow
  BY <1>6, NoWindowStep
<1>7. ASSUME run.at = "burst", NEW fin \in FinalityOutcomes, NEW o \in Outcomes, NEW at_fast \in {FALSE, run.fast},
             AgreeingBurst(fin, o, at_fast) \/ Difference(fin, o, at_fast)
      PROVE  SoakInv'
  <2>1. RunTyped(run)
    BY <1>7, LoopFacts
  <2>2. run.fast \in BOOLEAN
    BY <2>1, SoakTypes DEF RunTyped
  <2>3. at_fast \in BOOLEAN
    BY <2>2
  <2> QED BY <1>7, <2>3, AgreeingBurstStep, DifferenceStep
<1>8. CASE SaveBurst
  BY <1>8, SaveBurstStep
<1>9. CASE CloseRound
  BY <1>9, CloseRoundStep
<1>10. CASE Interval
  BY <1>10, IntervalStep
<1>11. CASE Finish
  BY <1>11, FinishStep
<1>12. CASE Crash
  BY <1>12, CrashStep
<1>13. CASE Wait
  BY <1>13, WaitStep
<1>14. CASE UNCHANGED soakVars
  <2>1. UNCHANGED <<now, state, run, verdict, ran, made, differed>>
    BY <1>14 DEF soakVars
  <2>2. Clocks' /\ FileTimed' /\ RunInv' /\ TallyExact'
    BY <2>1 DEF SoakInv, Clocks, FileTimed, RunInv, Kept, TallyExact
  <2> QED BY <2>2 DEF SoakInv
<1> QED BY <1>1, <1>2, <1>3, <1>4, <1>5, <1>6, <1>7, <1>8, <1>9, <1>10, <1>11, <1>12, <1>13, <1>14 DEF SoakNext

LEMMA SoakInvariant == SoakSpec => []SoakInv
<1>1. SoakInv /\ [SoakNext]_soakVars => SoakInv'
  BY SoakInvStep
<1> QED BY <1>1, SoakInvInit, PTL DEF SoakSpec

\* For every list of addresses, every target, every number of rounds, sessions and crashes, wherever
\* they fall: the file a resumed soak builds on claims no time that no run spent in its loop, its
\* sessions are in order and do not overlap, and every comparison that was not lost in a crash is
\* counted in it once (persist_soak, open_session, touch_session).
THEOREM AccountAlwaysTrue == SoakSpec => []AccountTrue
<1>1. SoakInv => AccountTrue
  <2> SUFFICES ASSUME SoakInv
               PROVE  AccountTrue
    OBVIOUS
  <2>1. Clocks /\ FileTimed /\ RunInv /\ TallyExact
    BY DEF SoakInv
  <2>2. SoakedIsReal
    BY <2>1 DEF FileTimed, SoakedIsReal
  <2>3. state # NoFile => state \in SoakState /\ state.fast \in Fast /\ InOrder(state.sessions)
    BY <2>1 DEF FileTimed, Timely
  <2>4. run # NoRun => run.tot \in Tally /\ run.report \in Tally /\ run.done \subseteq Addr
    BY <2>1, RunIsUp DEF RunTyped
  <2>5. SoakTypeOK
    BY <2>1, <2>3, <2>4 DEF Clocks, SoakTypeOK
  <2> QED BY <2>1, <2>2, <2>5 DEF AccountTrue
<1> QED BY <1>1, SoakInvariant, PTL

\* A run that ends because its time is up, in whichever session, finds in its file at least the time
\* it was asked for: the last interval is counted too, and a target an earlier session has met is
\* not failed for want of a session of its own (soak, remaining_secs).
THEOREM FullTimeAlwaysCounts == SoakSpec => FullTimeCounts
<1> DEFINE A == run.at \in {"top", "between"} /\ run'.at = "down" /\ verdict' # "none"
                  => Soaked(state'.sessions) >= run.target
<1>1. SoakInv /\ [SoakNext]_soakVars => [A]_soakVars
  <2> SUFFICES ASSUME SoakInv, SoakNext, run.at \in {"top", "between"}, run'.at = "down", verdict' # "none"
               PROVE  Soaked(state'.sessions) >= run.target
    OBVIOUS
  <2>1. RunInv
    BY DEF SoakInv
  <2>2. run # NoRun /\ RunTyped(run) /\ verdict = "none" /\ DOMAIN run = RunFields
    BY <2>1, RunIsUp DEF RunTyped
  <2>3. CASE EndLoop
    BY <2>3, EndLoopStep
  <2>4. CASE Finish
    BY <2>4, FinishStep
  <2>5. ASSUME NEW target \in Target, NEW fast \in Fast, Start(target, fast)
        PROVE  FALSE
    BY <2>2, <2>5 DEF Start
  <2>6. CASE SetupFails \/ OpenRun \/ NoWindow \/ SaveBurst \/ CloseRound
    BY <2>6 DEF SetupFails, OpenRun, NoWindow, SaveBurst, CloseRound
  <2>7. CASE StartRound
    <3>1. run'.at = "burst"
      BY <2>2, <2>7 DEF StartRound, RunFields
    <3> QED BY <3>1
  <2>8. CASE Interval
    <3>1. run'.at = "top"
      BY <2>2, <2>8 DEF Interval, RunFields
    <3> QED BY <3>1
  <2>9. CASE Crash \/ Wait
    BY <2>2, <2>9 DEF Crash, Wait
  <2> QED BY <2>3, <2>4, <2>5, <2>6, <2>7, <2>8, <2>9 DEF SoakNext
<1> HIDE DEF A
<1>2. SoakSpec => [][A]_soakVars
  BY <1>1, SoakInvariant, PTL DEF SoakSpec
<1> QED BY <1>2 DEF FullTimeCounts, A
=============================================================================
