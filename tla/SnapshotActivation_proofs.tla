---------------------- MODULE SnapshotActivation_proofs ----------------------
(***************************************************************************)
(* Proofs about SnapshotActivation, for any number of synchronizing        *)
(* processes, commits, failures and crashes.                               *)
(***************************************************************************)
EXTENDS SnapshotActivation, FiniteSetTheorems, WellFoundedInduction, TLAPS

\* What OneHolder rests on: the lock has one owner, a process or recover-local,
\* which is never started while a process still goes on.
LockInv ==
    /\ pc \in [Procs -> {"idle", "fetch", "validate", "lock"} \cup Holding]
    /\ OneHolder
    /\ rescue # "none" => lock /\ \A p \in Procs : pc[p] \notin Holding

\* Only these take the lock, give it up, or make a process a holder.
LEMMA LockFrame ==
    ASSUME NEW p \in Procs, Prepare(p) \/ Swap(p) \/ Finalize(p) \/ Crash(p) \/ Restart(p),
           LockInv
    PROVE  /\ UNCHANGED rescue
           /\ \E label \in {"idle", "fetch", "validate", "lock"} \cup Holding :
                  pc' = [pc EXCEPT ![p] = label]
           /\ \/ UNCHANGED lock /\ (pc'[p] \in Holding => pc[p] \in Holding)
              \/ ~lock /\ lock' /\ pc'[p] \in Holding
              \/ pc[p] \in Holding /\ ~lock' /\ pc'[p] \notin Holding
  BY DEF LockInv, Prepare, Swap, Finalize, Crash, Restart, Holding, disk, others,
      Begin, Export, Reject, Accept, LockBusy, TakeLock, MoveOut, MoveOutFails, MoveIn,
      MoveInFails, Rollback, RolledBack, WriteSync, WriteSyncFails, MoveRef, MoveRefFails,
      Clean, Unlock, Goto, StartRollback

LEMMA ProcessStep ==
    ASSUME NEW p \in Procs, Prepare(p) \/ Swap(p) \/ Finalize(p) \/ Crash(p) \/ Restart(p),
           LockInv
    PROVE  LockInv'
  <1> PICK label \in {"idle", "fetch", "validate", "lock"} \cup Holding :
          pc' = [pc EXCEPT ![p] = label]
    BY LockFrame
  <1>1. /\ pc' \in [Procs -> {"idle", "fetch", "validate", "lock"} \cup Holding]
        /\ pc'[p] = label /\ \A q \in Procs \ {p} : pc'[q] = pc[q]
    BY DEF LockInv
  <1>2. CASE UNCHANGED lock /\ (pc'[p] \in Holding => pc[p] \in Holding)
    BY <1>1, <1>2, LockFrame DEF LockInv, OneHolder
  <1>3. CASE ~lock /\ lock' /\ pc'[p] \in Holding
    BY <1>1, <1>3, LockFrame DEF LockInv, OneHolder
  <1>4. CASE pc[p] \in Holding /\ ~lock' /\ pc'[p] \notin Holding
    BY <1>1, <1>4, LockFrame DEF LockInv, OneHolder
  <1> QED
    BY <1>2, <1>3, <1>4, LockFrame

LEMMA OtherStep ==
    ASSUME RecoverLocal \/ RescueCrash \/ Request, LockInv
    PROVE  LockInv'
  <1>1. CASE PickLast \/ NothingToRestore
    BY <1>1 DEF PickLast, NothingToRestore, Stopped, LockInv, OneHolder, Holding, disk, procs
  <1>2. CASE Restore("content") \/ Restore("config") \/ Compare \/ Record
    BY <1>2 DEF Restore, Compare, Record, LockInv, OneHolder, disk, procs
  <1>3. CASE Release
    BY <1>3 DEF Release, LockInv, OneHolder, procs
  <1>4. CASE RescueCrash
    BY <1>4 DEF RescueCrash, LockInv, OneHolder, disk, procs
  <1>5. CASE Request
    BY <1>5 DEF Request, Receive, Read, Respond, LockInv, OneHolder, disk, procs
  <1> QED
    BY <1>1, <1>2, <1>3, <1>4, <1>5 DEF RecoverLocal

LEMMA LockInvariance == Spec => []LockInv
  <1>1. Init => LockInv
    BY DEF Init, LockInv, OneHolder, Holding
  <1>2. LockInv /\ [Next]_vars => LockInv'
    <2> SUFFICES ASSUME LockInv, [Next]_vars
                 PROVE  LockInv'
      OBVIOUS
    <2>1. CASE UNCHANGED vars
      BY <2>1 DEF vars, disk, procs, others, LockInv, OneHolder
    <2> QED
      BY <2>1, ProcessStep, OtherStep DEF Next
  <1> QED
    BY <1>1, <1>2, PTL DEF Spec

\* Two processes are never both between UpdateLock::acquire and the lock's drop,
\* and the lock the reader looks at is there as long as one is: for any number of
\* processes, killed and restarted at any step, and with recover-local in between.
THEOREM OneAtATime == Spec => []OneHolder
  <1>1. LockInv => OneHolder
    BY DEF LockInv
  <1> QED
    BY <1>1, LockInvariance, PTL

-----------------------------------------------------------------------------
(* Types *)

\* recover-local's last() is a backup there is: a set of numbers has a greatest one.
LEMMA LastBackup ==
    ASSUME NEW K \in SUBSET Names, K # {}
    PROVE  Max(K) \in K
  <1> DEFINE Up(x) == {y \in K : y >= x}
             R == StrictSubsetOrdering(K)
             T == {Up(x) : x \in K}
  <1>1. MaxName \in Nat /\ K \subseteq Nat
    BY BoundsAssumption DEF Names
  <1>2. IsFiniteSet(K)
    <2>1. IsFiniteSet(Names)
      BY <1>1, FS_Interval DEF Names
    <2> QED
      BY <2>1, FS_Subset
  <1>3. IsWellFoundedOn(R, SUBSET K)
    BY <1>2, FS_StrictSubsetOrderingWellFounded, FS_FiniteSubsetsOfFinite
  <1>4. T \subseteq SUBSET K /\ T # {}
    OBVIOUS
  <1>5. \E u \in T : \A v \in T : <<v, u>> \notin R
    <2> HIDE DEF R, T
    <2> QED
      BY <1>3, <1>4, WFMin
  <1>6. PICK x \in K : \A y \in K : <<Up(y), Up(x)>> \notin R
    BY <1>5
  <1>7. \A y \in K : x >= y
    <2> SUFFICES ASSUME NEW y \in K, ~(x >= y)
                 PROVE  FALSE
      OBVIOUS
    <2>1. y > x /\ x \in Nat /\ y \in Nat
      BY <1>1
    <2>2. \A z \in K : z >= y => z >= x
      BY <1>1, <2>1
    <2>3. x \in Up(x) /\ x \notin Up(y)
      BY <1>1, <2>1
    <2>4. <<Up(y), Up(x)>> \in R
      BY <2>2, <2>3 DEF StrictSubsetOrdering
    <2> QED
      BY <1>6, <2>4
  <1> QED
    BY <1>7 DEF Max

LEMMA TreesOfCommits == \A t \in Tips : Files[t] \in [Areas -> Trees]
  <1>1. ASSUME NEW t \in Tips, NEW a \in Areas
        PROVE  Files[t][a] \in Trees
    <2> DEFINE F(u) == {Files[u][c] : c \in Areas}
    <2>1. F(t) \in {F(u) : u \in Tips} /\ Files[t][a] \in F(t)
      OBVIOUS
    <2> QED
      BY <2>1, Zenon DEF Trees
  <1> QED
    BY <1>1, FilesAssumption

LEMMA NoTrees == None \in Trees /\ NoFiles \in [Areas -> Trees]
  <1>1. None \in Trees
    BY Zenon DEF Trees
  <1> QED
    BY <1>1 DEF NoFiles

\* What is on disk, what a process knows, and the rest of TypeOK.
DiskTyped ==
    /\ live \in [Areas -> Trees] /\ staging \in [Tips -> [Areas -> Trees]]
    /\ backups \in [Names -> [Areas -> Trees] \cup {None}]
    /\ lock \in BOOLEAN /\ main \in Tips /\ sync \in Tips

ProcsTyped ==
    /\ pc \in [Procs -> {"idle", "fetch", "validate", "lock"} \cup Holding]
    /\ base \in [Procs -> Tips] /\ tip \in [Procs -> Tips] /\ saved \in [Procs -> Tips]
    /\ name \in [Procs -> Names] /\ next \in [Procs -> 1..MaxName + 1]
    /\ had \in [Procs -> SUBSET Areas] /\ area \in [Procs -> 0..4]
    /\ \A p \in Procs : pc[p] \in {"out", "in"} => area[p] \in 1..3
    /\ \A p \in Procs : pc[p] = "rollback" => area[p] \in 0..3

OthersTyped ==
    /\ rescue \in {"none", "content", "config", "compare", "record", "release"}
    /\ pick \in Names
    /\ request \in {"none", "content", "config", "respond"}
    /\ view \in [Areas -> Trees]
    /\ faults \in 0..MaxFaults

BackupsThere ==
    /\ \A p \in Procs : pc[p] \in Holding \ {"unlock"} => backups[name[p]] # None
    /\ rescue \in {"content", "config"} => backups[pick] # None

\* What TypeOK rests on: the backup a process, or recover-local, works with exists
\* from the lock to the cleanup.
TypeInv == DiskTyped /\ ProcsTyped /\ OthersTyped /\ BackupsThere

LEMMA TypesOfInvariant ==
    ASSUME TypeInv
    PROVE  TypeOK
  <1>1. Len(Order) = 3 /\ DOMAIN Order = 1..3
    BY DEF Order
  <1> QED
    BY <1>1 DEF TypeInv, TypeOK, DiskTyped, ProcsTyped, OthersTyped

LEMMA PrepareTyped ==
    ASSUME NEW p \in Procs, Prepare(p), TypeInv, LockInv
    PROVE  TypeInv'
  <1> USE DEF TypeInv
  <1>1. CASE Begin(p)
    BY <1>1 DEF Begin, DiskTyped, ProcsTyped, OthersTyped, BackupsThere, disk, others, Holding
  <1>2. CASE Export(p)
    BY <1>2, TreesOfCommits
        DEF Export, DiskTyped, ProcsTyped, OthersTyped, BackupsThere, others, Holding
  <1>3. CASE Reject(p) \/ Accept(p) \/ LockBusy(p)
    BY <1>3 DEF Reject, Accept, LockBusy, Goto, DiskTyped, ProcsTyped, OthersTyped,
        BackupsThere, disk, others, Holding
  <1>4. CASE TakeLock(p)
    <2>1. PICK n \in Names :
              /\ n >= next[p] /\ name' = [name EXCEPT ![p] = n]
              /\ next' = [next EXCEPT ![p] = n + 1]
              /\ backups' = [backups EXCEPT ![n] = IF @ = None THEN NoFiles ELSE @]
      BY <1>4 DEF TakeLock
    <2>2. n \in Nat /\ n + 1 \in 1..MaxName + 1
      BY BoundsAssumption DEF Names
    <2>3. DiskTyped' /\ OthersTyped'
      BY <1>4, <2>1, NoTrees DEF TakeLock, DiskTyped, OthersTyped, others
    <2>4. ProcsTyped'
      BY <1>4, <2>1, <2>2 DEF TakeLock, ProcsTyped, Holding
    <2>5. BackupsThere'
      <3>1. NoFiles # None
        BY NoTrees, AbsentAssumption
      <3> QED
        BY <1>4, <2>1, <3>1 DEF TakeLock, BackupsThere, DiskTyped, ProcsTyped, others,
            LockInv, OneHolder
    <2> QED
      BY <2>3, <2>4, <2>5
  <1> QED
    BY <1>1, <1>2, <1>3, <1>4 DEF Prepare

LEMMA CurrentArea ==
    /\ Len(Order) = 3
    /\ \A i \in 1..3 : Order[i] \in Areas
    /\ Order[1] = "content" /\ Order[2] = "config" /\ Order[3] = "guide"
  BY DEF Order, Areas

\* One area of one backup is filled or emptied; the backup stays.
Put(n, a, x) == [backups EXCEPT ![n][a] = x]

LEMMA PutTyped ==
    ASSUME DiskTyped, NEW n \in Names, backups[n] # None, NEW a \in Areas, NEW x \in Trees
    PROVE  /\ Put(n, a, x) \in [Names -> [Areas -> Trees] \cup {None}]
           /\ \A m \in Names : Put(n, a, x)[m] = None <=> backups[m] = None
           /\ \A m \in Names \ {n} : Put(n, a, x)[m] = backups[m]
           /\ Put(n, a, x)[n][a] = x
           /\ \A b \in Areas \ {a} : Put(n, a, x)[n][b] = backups[n][b]
  <1>1. backups[n] \in [Areas -> Trees]
    BY DEF DiskTyped
  <1>2. [backups[n] EXCEPT ![a] = x] \in [Areas -> Trees]
    BY <1>1
  <1> QED
    BY <1>1, <1>2, AbsentAssumption DEF DiskTyped, Put

LEMMA FaultTyped ==
    ASSUME NEW kind, Fault(kind), faults \in 0..MaxFaults
    PROVE  faults' \in 0..MaxFaults
  BY BoundsAssumption DEF Fault

LEMMA SwapTyped ==
    ASSUME NEW p \in Procs, Swap(p), TypeInv, LockInv
    PROVE  TypeInv'
  <1> USE DEF TypeInv
  <1> DEFINE a == Current(p)
             n == name[p]
  <1>0. n \in Names /\ tip[p] \in Tips /\ backups[n] # None
    BY DEF ProcsTyped, BackupsThere, Swap, MoveOut, MoveOutFails, MoveIn, MoveInFails,
        Rollback, RolledBack, Holding
  <1>1. CASE MoveOut(p)
    <2>1. a \in Areas /\ live[a] \in Trees
      BY <1>1, CurrentArea DEF MoveOut, ProcsTyped, DiskTyped, Current
    <2>2. backups' = Put(n, a, live[a]) \/ backups' = backups
      BY <1>1 DEF MoveOut, Put
    <2>3. /\ backups' \in [Names -> [Areas -> Trees] \cup {None}]
          /\ \A m \in Names : backups'[m] = None <=> backups[m] = None
      <3>1. CASE backups' = backups
        BY <3>1 DEF DiskTyped
      <3>2. CASE backups' = Put(n, a, live[a])
        BY <1>0, <2>1, <3>2, PutTyped
      <3> QED
        BY <2>2, <3>1, <3>2
    <2>4. DiskTyped'
      BY <1>1, <2>1, <2>3, NoTrees DEF MoveOut, DiskTyped
    <2>5. ProcsTyped' /\ OthersTyped'
      BY <1>1, <2>1 DEF MoveOut, ProcsTyped, OthersTyped, Holding, others
    <2>6. BackupsThere'
      BY <1>1, <2>3 DEF MoveOut, BackupsThere, ProcsTyped, OthersTyped, Holding, others
    <2> QED
      BY <2>4, <2>5, <2>6
  <1>2. CASE MoveOutFails(p)
    <2>1. faults' \in 0..MaxFaults
      BY <1>2, FaultTyped DEF MoveOutFails, OthersTyped
    <2> QED
      BY <1>2, <2>1 DEF MoveOutFails, Goto, DiskTyped, ProcsTyped, OthersTyped, BackupsThere,
          Holding, others
  <1>3. CASE MoveIn(p)
    <2>1. a \in Areas /\ staging[tip[p]][a] \in Trees
      BY <1>0, <1>3, CurrentArea DEF MoveIn, ProcsTyped, DiskTyped, Current
    <2>2. DiskTyped'
      <3>1. live' \in [Areas -> Trees]
        BY <1>3, <2>1 DEF MoveIn, DiskTyped
      <3>2. staging' \in [Tips -> [Areas -> Trees]]
        BY <1>0, <1>3, <2>1, NoTrees DEF MoveIn, DiskTyped
      <3> QED
        BY <1>3, <3>1, <3>2 DEF MoveIn, DiskTyped
    <2>3. BackupsThere' /\ OthersTyped'
      BY <1>3 DEF MoveIn, BackupsThere, OthersTyped, ProcsTyped, Holding, others
    <2>4. ProcsTyped'
      BY <1>3, CurrentArea DEF MoveIn, ProcsTyped, Holding
    <2> QED
      BY <2>2, <2>3, <2>4
  <1>4. CASE MoveInFails(p)
    <2>1. a \in Areas /\ backups[n][a] \in Trees
      BY <1>0, <1>4, CurrentArea DEF MoveInFails, ProcsTyped, DiskTyped, Current
    <2>2. backups' = Put(n, a, None) \/ backups' = backups
      BY <1>4 DEF MoveInFails, Put
    <2>3. /\ backups' \in [Names -> [Areas -> Trees] \cup {None}]
          /\ \A m \in Names : backups'[m] = None <=> backups[m] = None
      <3>1. CASE backups' = backups
        BY <3>1 DEF DiskTyped
      <3>2. CASE backups' = Put(n, a, None)
        BY <1>0, <2>1, NoTrees, <3>2, PutTyped
      <3> QED
        BY <2>2, <3>1, <3>2
    <2>4. DiskTyped'
      BY <1>4, <2>1, <2>3 DEF MoveInFails, DiskTyped
    <2>5. ProcsTyped'
      BY <1>4 DEF MoveInFails, ProcsTyped, Holding
    <2>6. OthersTyped'
      BY <1>4, FaultTyped DEF MoveInFails, OthersTyped, others
    <2>7. BackupsThere'
      BY <1>4, <2>3 DEF MoveInFails, BackupsThere, ProcsTyped, OthersTyped, Holding, others
    <2> QED
      BY <2>4, <2>5, <2>6, <2>7
  <1>5. CASE Rollback(p)
    <2>1. a \in Areas /\ backups[n][a] \in Trees /\ live[a] \in Trees /\ None \in Trees
      BY <1>0, <1>5, CurrentArea, NoTrees DEF Rollback, ProcsTyped, DiskTyped, Current
    <2>2. backups' = Put(n, a, None) \/ backups' = backups
      BY <1>5 DEF Rollback, UndoArea, Put
    <2>3. /\ backups' \in [Names -> [Areas -> Trees] \cup {None}]
          /\ \A m \in Names : backups'[m] = None <=> backups[m] = None
      <3>1. CASE backups' = backups
        BY <3>1 DEF DiskTyped
      <3>2. CASE backups' = Put(n, a, None)
        BY <1>0, <2>1, <3>2, PutTyped
      <3> QED
        BY <2>2, <3>1, <3>2
    <2>4. live' \in [Areas -> Trees]
      BY <1>5, <2>1 DEF Rollback, UndoArea, DiskTyped
    <2>5. staging' \in [Tips -> [Areas -> Trees]]
      BY <1>0, <1>5, <2>1 DEF Rollback, UndoArea, DiskTyped
    <2>6. DiskTyped'
      BY <1>5, <2>3, <2>4, <2>5 DEF Rollback, DiskTyped
    <2>7. ProcsTyped' /\ OthersTyped'
      BY <1>5 DEF Rollback, ProcsTyped, OthersTyped, Holding, others
    <2>8. BackupsThere'
      BY <1>5, <2>3 DEF Rollback, BackupsThere, ProcsTyped, OthersTyped, Holding, others
    <2> QED
      BY <2>6, <2>7, <2>8
  <1>6. CASE RolledBack(p)
    <2>1. DiskTyped' /\ ProcsTyped'
      BY <1>6 DEF RolledBack, Goto, DiskTyped, ProcsTyped, Holding
    <2>2. OthersTyped'
      BY <1>6, FaultTyped DEF RolledBack, OthersTyped, others
    <2>3. BackupsThere'
      BY <1>6 DEF RolledBack, Goto, BackupsThere, ProcsTyped, LockInv, OneHolder, Holding, others
    <2> QED
      BY <2>1, <2>2, <2>3
  <1> QED
    BY <1>1, <1>2, <1>3, <1>4, <1>5, <1>6 DEF Swap

LEMMA FinalizeTyped ==
    ASSUME NEW p \in Procs, Finalize(p) \/ Crash(p) \/ Restart(p), TypeInv, LockInv
    PROVE  TypeInv'
  <1> USE DEF TypeInv
  <1>0. /\ name[p] \in Names /\ tip[p] \in Tips /\ saved[p] \in Tips
        /\ faults' \in 0..MaxFaults
    BY FaultTyped DEF ProcsTyped, OthersTyped, Finalize, WriteSync, WriteSyncFails, MoveRef,
        MoveRefFails, Clean, Unlock, Crash, Restart
  <1>1. CASE WriteSync(p) \/ WriteSyncFails(p) \/ MoveRef(p) \/ MoveRefFails(p) \/ Unlock(p)
    <2>1. DiskTyped' /\ OthersTyped'
      BY <1>0, <1>1 DEF WriteSync, WriteSyncFails, MoveRef, MoveRefFails, Unlock,
          DiskTyped, OthersTyped, disk, others
    <2>2. ProcsTyped'
      BY <1>1, CurrentArea DEF WriteSync, WriteSyncFails, MoveRef, MoveRefFails, Unlock, Goto,
          StartRollback, ProcsTyped, Holding
    <2>3. BackupsThere'
      BY <1>1 DEF WriteSync, WriteSyncFails, MoveRef, MoveRefFails, Unlock, Goto,
          StartRollback, ProcsTyped, BackupsThere, Holding, disk, others
    <2> QED
      BY <2>1, <2>2, <2>3
  <1>2. CASE Clean(p)
    <2>1. DiskTyped' /\ OthersTyped' /\ ProcsTyped'
      BY <1>0, <1>2 DEF Clean, Goto, DiskTyped, ProcsTyped, OthersTyped, Holding, others
    <2>2. BackupsThere'
      BY <1>0, <1>2 DEF Clean, Goto, BackupsThere, ProcsTyped, LockInv, OneHolder, Holding, others
    <2> QED
      BY <2>1, <2>2
  <1>3. CASE Crash(p) \/ Restart(p)
    <2>1. DiskTyped' /\ OthersTyped'
      BY <1>0, <1>3, NoTrees DEF Crash, Restart, DiskTyped, OthersTyped, disk, others
    <2>2. ProcsTyped' /\ BackupsThere'
      BY <1>3, BoundsAssumption DEF Crash, Restart, ProcsTyped, BackupsThere, Holding, disk, others
    <2> QED
      BY <2>1, <2>2
  <1> QED
    BY <1>1, <1>2, <1>3 DEF Finalize

LEMMA OtherTyped ==
    ASSUME RecoverLocal \/ RescueCrash \/ Request, TypeInv, LockInv
    PROVE  TypeInv'
  <1> USE DEF TypeInv, disk, procs, Holding
  <1>1. CASE PickLast
    <2> DEFINE K == {n \in Names : backups[n] # None}
    <2>1. pick' = Max(K) /\ K # {} /\ Max(K) \in K
      BY <1>1, LastBackup DEF PickLast
    <2>2. pick' \in Names /\ backups[pick'] # None
      BY <2>1
    <2> QED
      BY <1>1, <2>2 DEF PickLast, DiskTyped, ProcsTyped, OthersTyped, BackupsThere
  <1>2. CASE NothingToRestore \/ Compare
    BY <1>2 DEF NothingToRestore, Compare, DiskTyped, ProcsTyped, OthersTyped, BackupsThere
  <1>3. ASSUME NEW a \in Guarded, Restore(a)
        PROVE  TypeInv'
    <2>1. /\ a \in Areas /\ a \in {"content", "config"} /\ pick \in Names
          /\ backups[pick] # None
      BY <1>3 DEF Guarded, Areas, Restore, OthersTyped, BackupsThere
    <2>2. backups[pick][a] \in Trees /\ None \in Trees
      BY <2>1, NoTrees DEF DiskTyped
    <2>3. backups' = Put(pick, a, None) \/ backups' = backups
      BY <1>3 DEF Restore, Put
    <2>4. /\ backups' \in [Names -> [Areas -> Trees] \cup {None}]
          /\ \A m \in Names : backups'[m] = None <=> backups[m] = None
      <3>1. CASE backups' = backups
        BY <3>1 DEF DiskTyped
      <3>2. CASE backups' = Put(pick, a, None)
        BY <2>1, <2>2, <3>2, PutTyped
      <3> QED
        BY <2>3, <3>1, <3>2
    <2>5. DiskTyped'
      BY <1>3, <2>1, <2>2, <2>4 DEF Restore, DiskTyped
    <2> QED
      BY <1>3, <2>1, <2>4, <2>5 DEF Restore, ProcsTyped, OthersTyped, BackupsThere
  <1>4. CASE Record
    BY <1>4 DEF Record, DiskTyped, ProcsTyped, OthersTyped, BackupsThere, LockInv
  <1>5. CASE Release \/ RescueCrash
    <2>1. faults' \in 0..MaxFaults /\ 1 \in Names
      BY <1>5, FaultTyped, BoundsAssumption DEF Release, RescueCrash, OthersTyped, Names
    <2> QED
      BY <1>5, <2>1 DEF Release, RescueCrash, DiskTyped, ProcsTyped, OthersTyped, BackupsThere
  <1>6. CASE Request
    <2>1. ASSUME NEW a \in Guarded, Read(a)
          PROVE  TypeInv'
      BY <2>1 DEF Read, Guarded, Areas, DiskTyped, ProcsTyped, OthersTyped, BackupsThere
    <2>2. CASE Receive \/ Respond
      BY <2>2, NoTrees DEF Receive, Respond, DiskTyped, ProcsTyped, OthersTyped, BackupsThere
    <2> QED
      BY <1>6, <2>1, <2>2 DEF Request, Guarded
  <1> QED
    BY <1>1, <1>2, <1>3, <1>4, <1>5, <1>6 DEF RecoverLocal, Guarded

LEMMA TypeInvariance == Spec => [](TypeInv /\ LockInv)
  <1>1. Init => TypeInv
    <2>1. 1 \in Tips /\ 1 \in Names /\ 1 \in 1..MaxName + 1
      BY TipsAssumption, BoundsAssumption DEF Names
    <2> SUFFICES ASSUME Init
                 PROVE  TypeInv
      OBVIOUS
    <2>2. DiskTyped
      BY <2>1, NoTrees, TreesOfCommits DEF Init, DiskTyped
    <2>3. ProcsTyped /\ OthersTyped
      BY <2>1, NoTrees, BoundsAssumption DEF Init, ProcsTyped, OthersTyped
    <2>4. BackupsThere
      BY DEF Init, BackupsThere, Holding
    <2> QED
      BY <2>2, <2>3, <2>4 DEF TypeInv
  <1>2. TypeInv /\ LockInv /\ [Next]_vars => TypeInv'
    <2> SUFFICES ASSUME TypeInv, LockInv, [Next]_vars
                 PROVE  TypeInv'
      OBVIOUS
    <2>1. CASE UNCHANGED vars
      BY <2>1 DEF vars, disk, procs, others, TypeInv, DiskTyped, ProcsTyped, OthersTyped,
          BackupsThere
    <2> QED
      BY <2>1, PrepareTyped, SwapTyped, FinalizeTyped, OtherTyped DEF Next
  <1> QED
    BY <1>1, <1>2, LockInvariance, PTL DEF Spec

\* Every directory and pointer names what some commit has, and no step of a process
\* or of recover-local works with a backup that is not there.
THEOREM ActivationTypeCorrect == Spec => []TypeOK
  BY TypeInvariance, TypesOfInvariant, PTL

-----------------------------------------------------------------------------
(* One process: what is where during a swap                                *)
(*                                                                         *)
(* The service synchronizes alone, as operations.md tells the operator to  *)
(* run it, and no failure leaves the lock behind it undone: a failing      *)
(* rename out of the live tree does (StrandedActivation), and so does a    *)
(* backup that cannot be removed, whose number is then given out again.    *)

Alone == Procs = {Service} /\ "moveOut" \notin Faults /\ "cleanup" \notin Faults

Position == [content |-> 1, config |-> 2]

\* The one backup there is, and the area of main's commit in it or still live.
Only(n) == backups[n] # None /\ \A m \in Names : backups[m] # None => m = n
Keeps(n, a) == Files[main][a] = IF backups[n][a] = None THEN live[a] ELSE backups[n][a]
Kept == Matches(main) \/ \E n \in Names : Only(n) /\ \A a \in Guarded : Keeps(n, a)
NoBackups == \A n \in Names : backups[n] = None

\* The four conditions an area passes through.
Untouched(p, a) ==
    /\ live[a] = Files[main][a] /\ backups[name[p]][a] = None
    /\ staging[tip[p]][a] = Files[tip[p]][a]
Moved(p, a) ==
    /\ live[a] = None /\ backups[name[p]][a] = Files[main][a] /\ a \in had[p]
    /\ staging[tip[p]][a] = Files[tip[p]][a]
Swapped(p, a) ==
    /\ live[a] = Files[tip[p]][a] /\ backups[name[p]][a] = Files[main][a] /\ a \in had[p]
    /\ staging[tip[p]][a] = None
Restored(p, a) == live[a] = Files[main][a] /\ backups[name[p]][a] = None

SwapInv(p) ==
    /\ pc[p] = "out" => \A a \in Guarded :
           IF Position[a] < area[p] THEN Swapped(p, a) ELSE Untouched(p, a)
    /\ pc[p] = "in" => \A a \in Guarded :
           /\ Position[a] < area[p] => Swapped(p, a)
           /\ Position[a] = area[p] => Moved(p, a)
           /\ Position[a] > area[p] => Untouched(p, a)
    /\ pc[p] = "rollback" => \A a \in Guarded :
           IF Position[a] <= area[p] THEN Swapped(p, a) ELSE Restored(p, a)
    /\ pc[p] \in {"sync", "ref"} => \A a \in Guarded : Swapped(p, a)
    /\ pc[p] \in {"clean", "unlock"} => Matches(main)
    /\ pc[p] \in Holding \ {"unlock"} => Only(name[p])
    /\ pc[p] = "unlock" => NoBackups

\* What a process read stays true: nobody else moves main or sync.toml.
PlanInv(p) ==
    /\ pc[p] \in {"fetch", "validate", "lock", "out", "in", "rollback", "sync", "ref"} =>
           base[p] = main /\ tip[p] > main
    /\ pc[p] \in {"fetch", "validate", "lock"} => Matches(main)
    /\ pc[p] \in {"validate", "lock"} => staging[tip[p]] = Files[tip[p]] /\ saved[p] = sync
    /\ pc[p] \in {"out", "in", "rollback", "sync", "ref"} => saved[p] = main
    /\ pc[p] \in Holding => sync = IF pc[p] = "ref" THEN tip[p] ELSE main

\* recover-local picked the only backup, and empties it area by area.
RescueInv ==
    /\ rescue # "none" => pc[Service] = "idle"
    /\ rescue \in {"content", "config"} => Only(pick) /\ \A a \in Guarded : Keeps(pick, a)
    /\ rescue = "config" => live["content"] = Files[main]["content"]
    /\ rescue \in {"compare", "record", "release"} => Matches(main)
    /\ rescue = "release" => sync = main /\ NoBackups

RestInv ==
    /\ ~lock => Matches(main) /\ sync = main /\ NoBackups
    /\ pc[Service] = "idle" => Kept

RequestInv ==
    /\ request # "none" => ~lock /\ pc[Service] \in {"idle", "fetch"}
    /\ request = "config" => view["content"] = Files[main]["content"]
    /\ request = "respond" => \A a \in Guarded : view[a] = Files[main][a]

AloneInv == SwapInv(Service) /\ PlanInv(Service) /\ RescueInv /\ RestInv /\ RequestInv

LEMMA TreesPresent == \A t \in Tips, a \in Guarded : Files[t][a] # None
  BY FilesAssumption

\* A process goes on only where no request is answered and recover-local is not run.
LEMMA OthersWait ==
    ASSUME Alone, TypeInv, LockInv, AloneInv,
           Prepare(Service) \/ Swap(Service) \/ Finalize(Service) \/ Crash(Service)
               \/ Restart(Service)
    PROVE  RescueInv' /\ RequestInv'
  <1>1. CASE Restart(Service)
    BY <1>1 DEF Restart, AloneInv, RescueInv, RequestInv, Only, Keeps, Matches, NoBackups,
        disk, others
  <1>2. CASE Crash(Service)
    BY <1>2 DEF Crash, AloneInv, RescueInv, RequestInv
  <1>3. CASE Prepare(Service) \/ Swap(Service) \/ Finalize(Service)
    <2>1. rescue = "none" /\ request = "none" /\ UNCHANGED others
      BY <1>3 DEF AloneInv, RescueInv, MayStep, Prepare, Swap, Finalize, Begin, Export,
          Reject, Accept, LockBusy, TakeLock, MoveOut, MoveOutFails, MoveIn, MoveInFails,
          Rollback, RolledBack, WriteSync, WriteSyncFails, MoveRef, MoveRefFails, Clean, Unlock
    <2> QED
      BY <2>1 DEF others, RescueInv, RequestInv
  <1> QED
    BY <1>1, <1>2, <1>3

LEMMA PrepareAlone ==
    ASSUME Alone, TypeInv, LockInv, AloneInv, Prepare(Service)
    PROVE  AloneInv'
  <1> DEFINE p == Service
  <1>0. RescueInv' /\ RequestInv' /\ p \in Procs
    BY OthersWait DEF Alone
  <1> USE DEF TypeInv, AloneInv, Holding
  <1>1. CASE Begin(p)
    <2>1. pc'[p] = "fetch" /\ base'[p] = main /\ tip'[p] > main /\ Matches(main)
      BY <1>0, <1>1 DEF Begin, ProcsTyped
    <2> QED
      BY <1>0, <1>1, <2>1 DEF Begin, SwapInv, PlanInv, RestInv, Matches, NoBackups, disk
  <1>2. CASE Export(p)
    <2>1. pc'[p] = "validate" /\ staging'[tip[p]] = Files[tip[p]] /\ saved'[p] = sync
      BY <1>0, <1>2 DEF Export, ProcsTyped, DiskTyped
    <2> QED
      BY <1>0, <1>2, <2>1 DEF Export, SwapInv, PlanInv, RestInv, Matches, NoBackups
  <1>3. CASE Reject(p) \/ Accept(p) \/ LockBusy(p)
    BY <1>0, <1>3 DEF Reject, Accept, LockBusy, Goto, ProcsTyped, SwapInv, PlanInv, RestInv,
        Matches, NoBackups, Kept, disk
  <1>4. CASE TakeLock(p)
    <2>1. PICK n \in Names :
              /\ name' = [name EXCEPT ![p] = n]
              /\ backups' = [backups EXCEPT ![n] = IF @ = None THEN NoFiles ELSE @]
      BY <1>4 DEF TakeLock
    <2>2. /\ pc'[p] = "out" /\ name'[p] = n /\ area'[p] = 1 /\ backups'[n] = NoFiles
          /\ \A m \in Names \ {n} : backups'[m] = None
      BY <1>0, <1>4, <2>1 DEF TakeLock, ProcsTyped, DiskTyped, RestInv, NoBackups
    <2>3. /\ base[p] = main /\ tip[p] > main /\ Matches(main) /\ staging[tip[p]] = Files[tip[p]]
          /\ saved[p] = main /\ sync = main /\ lock'
          /\ UNCHANGED <<live, staging, main, sync, base, tip, saved>>
      BY <1>4 DEF TakeLock, PlanInv, RestInv
    <2>4. PlanInv(p)'
      BY <2>2, <2>3 DEF PlanInv
    <2>5. SwapInv(p)'
      <3>1. Only(n)'
        BY <2>2, NoTrees, AbsentAssumption DEF Only
      <3>2. \A a \in Guarded : Untouched(p, a)' /\ ~(Position[a] < 1)
        BY <2>2, <2>3 DEF Untouched, Matches, Guarded, Areas, NoFiles, Position
      <3> QED
        BY <2>2, <3>1, <3>2 DEF SwapInv
    <2>6. RestInv'
      BY <2>2, <2>3 DEF RestInv
    <2> QED
      BY <1>0, <2>4, <2>5, <2>6
  <1> QED
    BY <1>1, <1>2, <1>3, <1>4 DEF Prepare

\* Filling or emptying an area of a process's own backup keeps it the only one.
LEMMA PutOnly ==
    ASSUME DiskTyped, NEW n \in Names, Only(n), NEW a \in Areas, NEW x \in Trees,
           backups' = Put(n, a, x) \/ backups' = backups
    PROVE  Only(n)'
  <1>1. CASE backups' = Put(n, a, x)
    BY <1>1, PutTyped DEF Only
  <1>2. CASE backups' = backups
    BY <1>2 DEF Only
  <1> QED
    BY <1>1, <1>2

LEMMA Positions ==
    /\ Guarded \subseteq Areas
    /\ \A a \in Guarded : Position[a] \in 1..2 /\ Order[Position[a]] = a
    /\ \A i \in 1..3 : i \in 1..2 => Order[i] \in Guarded /\ Position[Order[i]] = i
    /\ \A a \in Guarded : Position[a] # 3 /\ a # Order[3]
  BY DEF Guarded, Areas, Position, Order

LEMMA SwapAlone ==
    ASSUME Alone, TypeInv, LockInv, AloneInv, Swap(Service)
    PROVE  AloneInv'
  <1> DEFINE p == Service
             a == Current(p)
             n == name[p]
             t == tip[p]
  <1>0. RescueInv' /\ RequestInv' /\ p \in Procs
    BY OthersWait DEF Alone
  <1> USE DEF TypeInv, AloneInv, Holding
  <1>1. /\ pc[p] \in {"out", "in", "rollback"}
        /\ n \in Names /\ t \in Tips /\ main \in Tips /\ backups[n] # None
        /\ backups[n] \in [Areas -> Trees] /\ staging[t] \in [Areas -> Trees] /\ Only(n)
        /\ base[p] = main /\ t > main /\ saved[p] = main /\ sync = main
        /\ lock
    BY <1>0 DEF ProcsTyped, DiskTyped, BackupsThere, PlanInv, SwapInv, Swap, MoveOut,
        MoveOutFails, MoveIn, MoveInFails, Rollback, RolledBack, LockInv, OneHolder
  <1>2. CASE MoveOut(p)
    <2>1. /\ pc[p] = "out" /\ pc'[p] = "in"
          /\ UNCHANGED <<staging, lock, main, sync, base, tip, saved, name, area>>
          /\ area[p] \in 1..3 /\ a \in Areas /\ a = Order[area[p]] /\ live[a] \in Trees
      BY <1>0, <1>2, CurrentArea DEF MoveOut, ProcsTyped, DiskTyped, Current
    <2>2. PlanInv(p)' /\ RestInv'
      BY <1>1, <2>1 DEF PlanInv, RestInv
    <2>3. backups' = Put(n, a, live[a]) \/ backups' = backups
      BY <1>2 DEF MoveOut, Put
    <2>4. Only(n)'
      BY <1>1, <2>1, <2>3, PutOnly
    <2>5. ASSUME NEW b \in Guarded, b # a
          PROVE  /\ live'[b] = live[b] /\ backups'[n][b] = backups[n][b]
                 /\ b \in had'[p] <=> b \in had[p]
      BY <1>0, <1>1, <1>2, <2>1, <2>5, Positions, PutTyped
          DEF MoveOut, DiskTyped, ProcsTyped, Put
    <2>6. ASSUME NEW b \in Guarded, b = a
          PROVE  Moved(p, b)'
      <3>1. Untouched(p, a) /\ live[a] # None
        BY <1>1, <2>1, <2>6, Positions, TreesPresent DEF SwapInv, Untouched
      <3>2. backups' = Put(n, a, live[a]) /\ live' = [live EXCEPT ![a] = None]
            /\ had' = [had EXCEPT ![p] = @ \cup {a}]
        BY <1>2, <3>1 DEF MoveOut, Put
      <3>3. backups'[n][a] = live[a] /\ live'[a] = None /\ a \in had'[p]
        BY <1>0, <1>1, <2>1, <3>2, PutTyped DEF DiskTyped, ProcsTyped
      <3> QED
        BY <2>1, <2>6, <3>1, <3>3 DEF Moved, Untouched
    <2>7. SwapInv(p)'
      <3>1. ASSUME NEW b \in Guarded
            PROVE  /\ Position[b] < area[p] => Swapped(p, b)'
                   /\ Position[b] = area[p] => Moved(p, b)'
                   /\ Position[b] > area[p] => Untouched(p, b)'
        <4>1. CASE b = a
          BY <2>1, <2>6, <4>1, Positions
        <4>2. CASE b # a
          BY <2>1, <2>5, <4>2, Positions DEF SwapInv, Swapped, Untouched
        <4> QED
          BY <4>1, <4>2
      <3> QED
        BY <2>1, <2>4, <3>1 DEF SwapInv
    <2> QED
      BY <1>0, <2>2, <2>7
  <1>3. CASE MoveOutFails(p)
    \* The backup has nothing in it at this place, and the rename does not fail alone.
    <2>1. pc[p] = "out" /\ area[p] \in 1..3 /\ a = Order[area[p]] /\ a \in Areas
          /\ Blocked(p, a)
      BY <1>0, <1>3, CurrentArea DEF MoveOutFails, Fault, Alone, ProcsTyped, Current
    <2>2. a \in Guarded => Untouched(p, a)
      BY <2>1, Positions DEF SwapInv
    <2>3. a \in Guarded \/ a = "guide"
      BY <2>1 DEF Guarded, Areas
    <2> QED
      BY <2>1, <2>2, <2>3 DEF Blocked, Untouched
  <1>4. CASE MoveIn(p)
    <2>1. /\ pc[p] = "in" /\ area'[p] = area[p] + 1
          /\ pc'[p] = IF area[p] = 3 THEN "sync" ELSE "out"
          /\ UNCHANGED <<backups, lock, main, sync, base, tip, saved, name, had>>
          /\ area[p] \in 1..3 /\ a \in Areas /\ a = Order[area[p]]
      BY <1>0, <1>4, CurrentArea DEF MoveIn, ProcsTyped, DiskTyped, Current
    <2>2. PlanInv(p)' /\ RestInv'
      BY <1>1, <2>1 DEF PlanInv, RestInv
    <2>3. ASSUME NEW b \in Guarded, b # a
          PROVE  live'[b] = live[b] /\ staging'[t][b] = staging[t][b]
      BY <1>1, <1>4, <2>1, <2>3, Positions DEF MoveIn, DiskTyped
    <2>4. ASSUME NEW b \in Guarded, b = a
          PROVE  Swapped(p, b)'
      <3>1. Moved(p, a) /\ staging[t][a] # None
        BY <1>1, <2>1, <2>4, Positions, TreesPresent DEF SwapInv, Moved
      <3>2. live'[a] = staging[t][a] /\ staging'[t][a] = None
        BY <1>1, <1>4, <2>1, <3>1 DEF MoveIn, DiskTyped
      <3> QED
        BY <2>1, <2>4, <3>1, <3>2 DEF Moved, Swapped
    <2>5. ASSUME NEW b \in Guarded
          PROVE  IF Position[b] < area'[p] THEN Swapped(p, b)' ELSE Untouched(p, b)'
      <3>1. CASE b = a
        BY <2>1, <2>4, <3>1, Positions
      <3>2. CASE b # a
        BY <2>1, <2>3, <3>2, Positions DEF SwapInv, Swapped, Untouched
      <3> QED
        BY <3>1, <3>2
    <2>6. Only(n)'
      BY <1>1, <2>1 DEF Only
    <2>7. SwapInv(p)'
      BY <2>1, <2>5, <2>6, Positions DEF SwapInv
    <2> QED
      BY <1>0, <2>2, <2>7
  <1>5. CASE MoveInFails(p)
    <2>1. /\ pc[p] = "in" /\ area'[p] = area[p] - 1 /\ pc'[p] = "rollback"
          /\ UNCHANGED <<staging, lock, main, sync, base, tip, saved, name, had>>
          /\ area[p] \in 1..3 /\ a \in Areas /\ a = Order[area[p]]
      BY <1>0, <1>5, CurrentArea DEF MoveInFails, ProcsTyped, DiskTyped, Current
    <2>2. PlanInv(p)' /\ RestInv'
      BY <1>1, <2>1 DEF PlanInv, RestInv
    <2>3. backups' = Put(n, a, None) \/ backups' = backups
      BY <1>5 DEF MoveInFails, Put
    <2>4. Only(n)'
      BY <1>1, <2>1, <2>3, PutOnly, NoTrees
    <2>5. ASSUME NEW b \in Guarded, b # a
          PROVE  live'[b] = live[b] /\ backups'[n][b] = backups[n][b]
      BY <1>1, <1>5, <2>1, <2>5, Positions, PutTyped, NoTrees DEF MoveInFails, DiskTyped, Put
    <2>6. ASSUME NEW b \in Guarded, b = a
          PROVE  Restored(p, b)'
      <3>1. Moved(p, a)
        BY <2>1, <2>6, Positions DEF SwapInv
      <3>2. backups' = Put(n, a, None) /\ live' = [live EXCEPT ![a] = backups[n][a]]
        BY <1>5, <3>1 DEF MoveInFails, Moved, Put
      <3>3. backups'[n][a] = None /\ live'[a] = backups[n][a]
        BY <1>1, <2>1, <3>2, PutTyped, NoTrees DEF DiskTyped
      <3> QED
        BY <2>1, <2>6, <3>1, <3>3 DEF Moved, Restored
    <2>7. ASSUME NEW b \in Guarded
          PROVE  IF Position[b] <= area'[p] THEN Swapped(p, b)' ELSE Restored(p, b)'
      <3>1. CASE b = a
        BY <2>1, <2>6, <3>1, Positions
      <3>2. CASE b # a
        BY <2>1, <2>5, <3>2, Positions DEF SwapInv, Swapped, Untouched, Restored
      <3> QED
        BY <3>1, <3>2
    <2>8. SwapInv(p)'
      BY <2>1, <2>4, <2>7 DEF SwapInv
    <2> QED
      BY <1>0, <2>2, <2>8
  <1>6. CASE Rollback(p)
    <2>1. /\ pc[p] = "rollback" /\ area'[p] = area[p] - 1
          /\ UNCHANGED <<lock, main, sync, pc, base, tip, saved, name, had>>
          /\ area[p] \in 1..3 /\ a \in Areas /\ a = Order[area[p]]
      BY <1>0, <1>6, CurrentArea DEF Rollback, ProcsTyped, DiskTyped, Current
    <2>2. PlanInv(p)' /\ RestInv'
      BY <1>1, <2>1 DEF PlanInv, RestInv
    <2>3. backups' = Put(n, a, None) \/ backups' = backups
      BY <1>6 DEF Rollback, UndoArea, Put
    <2>4. Only(n)'
      BY <1>1, <2>1, <2>3, PutOnly, NoTrees
    <2>5. ASSUME NEW b \in Guarded, b # a
          PROVE  /\ live'[b] = live[b] /\ backups'[n][b] = backups[n][b]
                 /\ staging'[t][b] = staging[t][b]
      BY <1>1, <1>6, <2>1, <2>5, Positions, PutTyped, NoTrees
          DEF Rollback, UndoArea, DiskTyped, Put
    <2>6. ASSUME NEW b \in Guarded, b = a
          PROVE  Restored(p, b)'
      <3>1. Swapped(p, a) /\ live[a] # None
        BY <1>1, <2>1, <2>6, Positions, TreesPresent DEF SwapInv, Swapped
      <3>2. backups' = Put(n, a, None) /\ live' = [live EXCEPT ![a] = backups[n][a]]
        BY <1>6, <3>1 DEF Rollback, UndoArea, Swapped, Put
      <3>3. backups'[n][a] = None /\ live'[a] = backups[n][a]
        BY <1>1, <2>1, <3>2, PutTyped, NoTrees DEF DiskTyped
      <3> QED
        BY <2>1, <2>6, <3>1, <3>3 DEF Swapped, Restored
    <2>7. ASSUME NEW b \in Guarded
          PROVE  IF Position[b] <= area'[p] THEN Swapped(p, b)' ELSE Restored(p, b)'
      <3>1. CASE b = a
        BY <2>1, <2>6, <3>1, Positions
      <3>2. CASE b # a
        BY <2>1, <2>5, <3>2, Positions DEF SwapInv, Swapped, Restored
      <3> QED
        BY <3>1, <3>2
    <2>8. SwapInv(p)'
      BY <2>1, <2>4, <2>7 DEF SwapInv
    <2> QED
      BY <1>0, <2>2, <2>8
  <1>7. CASE RolledBack(p)
    <2>1. /\ pc[p] = "rollback" /\ area[p] = 0 /\ pc'[p] = "idle" /\ ~lock'
          /\ backups' = [backups EXCEPT ![n] = None]
          /\ UNCHANGED <<live, staging, main, sync>>
      BY <1>0, <1>7 DEF RolledBack, Fault, Alone, Goto, ProcsTyped
    <2>2. Matches(main)
      BY <2>1, Positions DEF SwapInv, Restored, Matches
    <2>3. NoBackups'
      BY <1>1, <2>1 DEF NoBackups, Only, DiskTyped
    <2>4. RestInv'
      BY <1>1, <2>1, <2>2, <2>3 DEF RestInv, Kept, Matches
    <2> QED
      BY <1>0, <2>1, <2>4 DEF SwapInv, PlanInv
  <1> QED
    BY <1>2, <1>3, <1>4, <1>5, <1>6, <1>7 DEF Swap

\* Wherever the swap is, main's commit is in the worktree and the one backup.
LEMMA KeptThroughout ==
    ASSUME Alone, TypeInv, AloneInv
    PROVE  Kept
  <1> DEFINE p == Service
             n == name[p]
  <1> USE DEF TypeInv, AloneInv, Holding
  <1>1. p \in Procs /\ main \in Tips
    BY DEF Alone, DiskTyped
  <1>2. CASE pc[p] = "idle"
    BY <1>2 DEF RestInv
  <1>3. CASE pc[p] \in {"fetch", "validate", "lock", "clean", "unlock"}
    BY <1>3 DEF PlanInv, SwapInv, Kept
  <1>4. CASE pc[p] \in {"out", "in", "rollback", "sync", "ref"}
    <2>1. n \in Names /\ Only(n)
      BY <1>1, <1>4 DEF ProcsTyped, SwapInv
    <2>2. ASSUME NEW a \in Guarded
          PROVE  Keeps(n, a)
      <3>1. Untouched(p, a) \/ Moved(p, a) \/ Swapped(p, a) \/ Restored(p, a)
        BY <1>1, <1>4, Positions DEF SwapInv, ProcsTyped
      <3>2. Files[main][a] # None
        BY <1>1, TreesPresent
      <3> QED
        BY <3>1, <3>2 DEF Untouched, Moved, Swapped, Restored, Keeps
    <2> QED
      BY <2>1, <2>2 DEF Kept
  <1> QED
    BY <1>1, <1>2, <1>3, <1>4 DEF ProcsTyped

LEMMA FinalizeAlone ==
    ASSUME Alone, TypeInv, LockInv, AloneInv,
           Finalize(Service) \/ Crash(Service) \/ Restart(Service)
    PROVE  AloneInv'
  <1> DEFINE p == Service
             n == name[p]
  <1>0. RescueInv' /\ RequestInv' /\ p \in Procs
    BY OthersWait DEF Alone
  <1> USE DEF TypeInv, AloneInv, Holding
  <1>1. pc[p] \in Holding => lock
    BY <1>0 DEF LockInv, OneHolder
  <1>2. CASE WriteSync(p)
    <2>1. /\ pc[p] = "sync" /\ pc'[p] = "ref" /\ sync' = tip[p]
          /\ UNCHANGED <<live, staging, backups, lock, main, base, tip, saved, name, had>>
      BY <1>0, <1>2 DEF WriteSync, Goto, ProcsTyped
    <2> QED
      BY <1>0, <1>1, <2>1 DEF SwapInv, PlanInv, RestInv, Swapped, Only
  <1>3. CASE WriteSyncFails(p) \/ MoveRefFails(p)
    <2>1. /\ pc[p] \in {"sync", "ref"} /\ pc'[p] = "rollback" /\ area'[p] = 3
          /\ sync' = IF pc[p] = "ref" THEN saved[p] ELSE sync
          /\ UNCHANGED <<live, staging, backups, lock, main, base, tip, saved, name, had>>
      BY <1>0, <1>3, CurrentArea DEF WriteSyncFails, MoveRefFails, StartRollback, ProcsTyped, disk
    <2>2. SwapInv(p)'
      BY <2>1, Positions DEF SwapInv, Swapped, Only
    <2> QED
      BY <1>0, <1>1, <2>1, <2>2 DEF PlanInv, RestInv
  <1>4. CASE MoveRef(p)
    <2>1. /\ pc[p] = "ref" /\ pc'[p] = "clean" /\ main' = tip[p]
          /\ UNCHANGED <<live, staging, backups, lock, sync, base, tip, saved, name, had>>
      BY <1>0, <1>4 DEF MoveRef, Goto, ProcsTyped
    <2>2. Matches(main)'
      BY <2>1 DEF SwapInv, Swapped, Matches
    <2> QED
      BY <1>0, <1>1, <2>1, <2>2 DEF SwapInv, PlanInv, RestInv, Only
  <1>5. CASE Clean(p)
    <2>1. /\ pc[p] = "clean" /\ pc'[p] = "unlock" /\ backups' = [backups EXCEPT ![n] = None]
          /\ UNCHANGED <<live, staging, lock, main, sync, base, tip, saved, name, had>>
      BY <1>0, <1>5 DEF Clean, Fault, Alone, Goto, ProcsTyped
    <2>2. NoBackups'
      BY <1>0, <2>1 DEF SwapInv, Only, NoBackups, DiskTyped, ProcsTyped
    <2> QED
      BY <1>0, <1>1, <2>1, <2>2 DEF SwapInv, PlanInv, RestInv, Matches
  <1>6. CASE Unlock(p)
    <2>1. /\ pc[p] = "unlock" /\ pc'[p] = "idle" /\ ~lock'
          /\ UNCHANGED <<live, staging, backups, main, sync>>
      BY <1>0, <1>6 DEF Unlock, Goto, ProcsTyped
    <2> QED
      BY <1>0, <2>1 DEF SwapInv, PlanInv, RestInv, Matches, Kept, NoBackups
  <1>7. CASE Crash(p) \/ Restart(p)
    <2>1. /\ pc'[p] = "idle"
          /\ UNCHANGED <<live, staging, backups, lock, main, sync>>
      BY <1>0, <1>7 DEF Crash, Restart, ProcsTyped, disk
    <2>2. Kept'
      BY <2>1, KeptThroughout DEF Kept, Matches, Only, Keeps
    <2> QED
      BY <1>0, <2>1, <2>2 DEF SwapInv, PlanInv, RestInv, Matches, NoBackups
  <1> QED
    BY <1>2, <1>3, <1>4, <1>5, <1>6, <1>7 DEF Finalize

LEMMA RequestAlone ==
    ASSUME Alone, TypeInv, LockInv, AloneInv, Request
    PROVE  AloneInv'
  <1> USE DEF TypeInv, AloneInv
  <1>1. UNCHANGED <<disk, procs, rescue, pick>>
    BY DEF Request, Receive, Read, Respond
  <1>2. SwapInv(Service)' /\ PlanInv(Service)' /\ RescueInv' /\ RestInv'
    BY <1>1 DEF SwapInv, PlanInv, RescueInv, RestInv, Untouched, Moved, Swapped, Restored,
        Only, Keeps, Kept, Matches, NoBackups, disk, procs
  <1>3. RequestInv'
    <2>1. CASE Receive
      BY <1>1, <2>1 DEF Receive, RequestInv, AtAwait, Alone, disk, procs
    <2>2. ASSUME NEW a \in Guarded, Read(a)
          PROVE  RequestInv'
      <3>1. view'[a] = live[a] /\ \A b \in Guarded \ {a} : view'[b] = view[b]
        BY <2>2, Positions DEF Read, OthersTyped
      <3>2. live[a] = Files[main][a] /\ request = a /\ a \in {"content", "config"}
        BY <2>2 DEF Read, RequestInv, RestInv, Matches, Guarded
      <3> QED
        BY <1>1, <2>2, <3>1, <3>2 DEF Read, RequestInv, Guarded, disk, procs
    <2>3. CASE Respond
      BY <2>3 DEF Respond, RequestInv
    <2> QED
      BY <2>1, <2>2, <2>3 DEF Request, Guarded
  <1> QED
    BY <1>2, <1>3

LEMMA RescueAlone ==
    ASSUME Alone, TypeInv, LockInv, AloneInv, RecoverLocal \/ RescueCrash
    PROVE  AloneInv'
  <1> USE DEF TypeInv, AloneInv, Holding
  <1>1. pc[Service] = "idle" /\ UNCHANGED <<pc, main, staging, request, view>> /\ lock
    BY DEF RecoverLocal, RescueCrash, PickLast, NothingToRestore, Restore, Compare, Record,
        Release, Stopped, Alone, RescueInv, LockInv, disk, procs
  <1>2. SwapInv(Service)' /\ PlanInv(Service)'
    BY <1>1 DEF SwapInv, PlanInv
  <1>3. RequestInv'
    BY <1>1 DEF RequestInv
  <1>4. CASE PickLast
    <2>1. PICK n \in Names : Only(n) /\ \A a \in Guarded : Keeps(n, a)
      BY <1>1, <1>4 DEF PickLast, RestInv, Kept
    <2>2. pick' \in Names /\ backups[pick'] # None
      BY <1>4, LastBackup DEF PickLast
    <2>3. pick' = n /\ rescue' = "content" /\ UNCHANGED disk
      BY <1>4, <2>1, <2>2 DEF PickLast, Only
    <2> QED
      BY <1>1, <1>2, <1>3, <2>1, <2>3
          DEF RescueInv, RestInv, Kept, Matches, Only, Keeps, NoBackups, disk
  <1>5. CASE NothingToRestore \/ Compare \/ RescueCrash
    <2>1. UNCHANGED disk
      BY <1>5 DEF NothingToRestore, Compare, RescueCrash
    <2>2. RestInv'
      BY <1>1, <2>1 DEF RestInv, Kept, Matches, Only, Keeps, NoBackups, disk
    <2>3. RescueInv'
      BY <1>1, <1>5, <2>1 DEF NothingToRestore, Compare, RescueCrash, RescueInv, Matches, disk
    <2> QED
      BY <1>2, <1>3, <2>2, <2>3
  <1>6. ASSUME NEW a \in Guarded, Restore(a)
        PROVE  AloneInv'
    <2>1. /\ a \in {"content", "config"} /\ rescue = a /\ Only(pick)
          /\ \A b \in Guarded : Keeps(pick, b)
          /\ pick \in Names /\ UNCHANGED <<pick, sync, lock>>
          /\ a \in Areas
      BY <1>6, Positions DEF Restore, RescueInv, OthersTyped, Guarded
    <2>2. backups' = Put(pick, a, None) \/ backups' = backups
      BY <1>6 DEF Restore, Put
    <2>3. Only(pick)'
      BY <2>1, <2>2, PutOnly, NoTrees
    <2>4. live'[a] = Files[main][a] /\ backups'[pick][a] = None
      <3>1. CASE backups[pick][a] = None
        BY <1>6, <2>1, <3>1 DEF Restore, Keeps
      <3>2. CASE backups[pick][a] # None
        <4>1. backups' = Put(pick, a, None) /\ live' = [live EXCEPT ![a] = backups[pick][a]]
          BY <1>6, <3>2 DEF Restore, Put
        <4>2. backups'[pick][a] = None /\ backups[pick] # None
          BY <2>1, <4>1, PutTyped, NoTrees DEF Only
        <4> QED
          BY <2>1, <3>2, <4>1, <4>2 DEF Keeps, DiskTyped
      <3> QED
        BY <3>1, <3>2
    <2>5. ASSUME NEW b \in Guarded, b # a
          PROVE  live'[b] = live[b] /\ backups'[pick][b] = backups[pick][b]
      <3>1. b \in Areas /\ backups[pick] # None
        BY <2>1, Positions DEF Only
      <3>2. live'[b] = live[b]
        BY <1>6, <2>5, <3>1 DEF Restore, DiskTyped
      <3>3. backups'[pick][b] = backups[pick][b]
        BY <2>1, <2>2, <2>5, <3>1, PutTyped, NoTrees
      <3> QED
        BY <3>2, <3>3
    <2>6. \A b \in Guarded : Keeps(pick, b)'
      BY <1>1, <2>1, <2>4, <2>5 DEF Keeps
    <2>7. RestInv'
      BY <1>1, <2>1, <2>3, <2>6 DEF RestInv, Kept
    <2>8. RescueInv'
      BY <1>1, <1>6, <2>1, <2>3, <2>4, <2>5, <2>6 DEF Restore, RescueInv, Matches, Guarded
    <2> QED
      BY <1>2, <1>3, <2>7, <2>8
  <1>7. CASE Record \/ Release
    BY <1>1, <1>2, <1>3, <1>7 DEF Record, Release, RescueInv, RestInv, Kept, Matches, NoBackups
  <1> QED
    BY <1>4, <1>5, <1>6, <1>7 DEF RecoverLocal, Guarded

LEMMA AloneInvariance ==
    ASSUME Alone
    PROVE  Spec => [](AloneInv /\ TypeInv /\ LockInv)
  <1>1. Init => AloneInv
    <2> SUFFICES ASSUME Init
                 PROVE  AloneInv
      OBVIOUS
    <2>1. pc[Service] = "idle" /\ Matches(main) /\ NoBackups /\ sync = main
      BY DEF Init, Alone, Matches, NoBackups
    <2> QED
      BY <2>1 DEF Init, AloneInv, SwapInv, PlanInv, RescueInv, RestInv, RequestInv, Kept, Holding
  <1>2. TypeInv /\ LockInv /\ AloneInv /\ [Next]_vars => AloneInv'
    <2> SUFFICES ASSUME TypeInv, LockInv, AloneInv, [Next]_vars
                 PROVE  AloneInv'
      OBVIOUS
    <2>1. CASE UNCHANGED vars
      BY <2>1 DEF vars, disk, procs, others, AloneInv, SwapInv, PlanInv, RescueInv, RestInv,
          RequestInv, Untouched, Moved, Swapped, Restored, Only, Keeps, Kept, Matches, NoBackups
    <2>2. CASE Next
      <3>1. CASE RecoverLocal \/ RescueCrash \/ Request
        BY <3>1, RescueAlone, RequestAlone
      <3>2. CASE \E p \in Procs : Prepare(p) \/ Swap(p) \/ Finalize(p) \/ Crash(p) \/ Restart(p)
        BY <3>2, PrepareAlone, SwapAlone, FinalizeAlone DEF Alone
      <3> QED
        BY <2>2, <3>1, <3>2 DEF Next
    <2> QED
      BY <2>1, <2>2
  <1> QED
    BY <1>1, <1>2, TypeInvariance, PTL DEF Spec

\* Whatever moment the service is killed at, and however often recover-local is
\* interrupted in its turn, the commit main names can be put together again.
THEOREM AlwaysRecoverable ==
    ASSUME Alone
    PROVE  Spec => []Recoverable
  <1>1. AloneInv /\ TypeInv => Recoverable
    <2> SUFFICES ASSUME AloneInv, TypeInv, Stopped, ~Matches(main)
                 PROVE  LET kept == {n \in Names : backups[n] # None}
                        IN  /\ kept # {}
                            /\ \A a \in Guarded :
                                   LET b == backups[Max(kept)][a]
                                   IN  (IF b = None THEN live[a] ELSE b) = Files[main][a]
      BY DEF Recoverable
    <2> DEFINE kept == {n \in Names : backups[n] # None}
    <2>1. PICK n \in Names : Only(n) /\ \A a \in Guarded : Keeps(n, a)
      BY DEF Stopped, Alone, AloneInv, RestInv, Kept
    <2>2. kept # {} /\ Max(kept) = n
      BY <2>1, LastBackup DEF Only
    <2> HIDE DEF kept
    <2> QED
      BY <2>1, <2>2 DEF Keeps, kept
  <1> QED
    BY <1>1, AloneInvariance, PTL

\* sync.toml and main name the same commit whenever no lock is there, also after a
\* failed branch update had to take the new record back.
THEOREM RecordFollowsMain ==
    ASSUME Alone
    PROVE  Spec => []SyncNamesMain
  <1>1. AloneInv => SyncNamesMain
    BY DEF AloneInv, RestInv, SyncNamesMain
  <1> QED
    BY <1>1, AloneInvariance, PTL

\* What a response shows, read in two steps, is one commit: no swap begins between
\* them, for the service answers on the thread it synchronizes on.
THEOREM ResponseIsOneSnapshot ==
    ASSUME Alone
    PROVE  Spec => []ReaderSeesOneSnapshot
  <1>1. AloneInv /\ TypeInv => ReaderSeesOneSnapshot
    BY DEF AloneInv, RequestInv, ReaderSeesOneSnapshot, TypeInv, DiskTyped
  <1> QED
    BY <1>1, AloneInvariance, PTL

\* The lock is taken or released, or main moved under it; never both at once.
LEMMA SwitchFrame ==
    ASSUME Alone, TypeInv, LockInv, AloneInv, [Next]_vars
    PROVE  \/ UNCHANGED main
           \/ lock /\ lock' /\ main' > main
  <1>1. CASE MoveRef(Service)
    <2>1. Service \in Procs /\ pc[Service] = "ref"
      BY <1>1 DEF MoveRef, Alone
    <2> QED
      BY <1>1, <2>1 DEF MoveRef, AloneInv, PlanInv, LockInv, OneHolder, Holding
  <1>2. CASE UNCHANGED main
    BY <1>2
  <1>3. ASSUME NEW p \in Procs,
               Prepare(p) \/ Swap(p) \/ Finalize(p) \/ Crash(p) \/ Restart(p), ~MoveRef(p)
        PROVE  UNCHANGED main
    BY <1>3 DEF Prepare, Swap, Finalize, disk, Begin, Export, Reject, Accept, LockBusy, TakeLock,
        MoveOut, MoveOutFails, MoveIn, MoveInFails, Rollback, RolledBack, WriteSync,
        WriteSyncFails, MoveRefFails, Clean, Unlock, Crash, Restart
  <1>4. CASE RecoverLocal \/ RescueCrash \/ Request
    BY <1>4 DEF RecoverLocal, RescueCrash, Request, PickLast, NothingToRestore, Restore, Compare,
        Record, Release, Receive, Read, Respond, disk
  <1>5. CASE UNCHANGED vars
    BY <1>5 DEF vars, disk
  <1>6. CASE \E p \in Procs : Prepare(p) \/ Swap(p) \/ Finalize(p) \/ Crash(p) \/ Restart(p)
    BY <1>1, <1>3, <1>6 DEF Alone
  <1> QED
    BY <1>4, <1>5, <1>6 DEF Next

LEMMA SwitchStep ==
    ASSUME Alone, TypeInv, LockInv, AloneInv, AloneInv', TypeInv', [Next]_vars
    PROVE  [Switch!Next]_(Switch!vars)
  <1> DEFINE shown == IF lock THEN Busy ELSE IF Matches(main) THEN main ELSE None
  <1>1. /\ lock => shown = Busy
        /\ ~lock => shown = main /\ shown # Busy
        /\ lock' => shown' = Busy
        /\ ~lock' => shown' = main'
    BY NoneAssumption, TipsAssumption DEF TypeInv, DiskTyped, AloneInv, RestInv
  <1>2. lock \in BOOLEAN /\ lock' \in BOOLEAN
    BY DEF TypeInv, DiskTyped
  <1>3. CASE lock /\ lock' /\ main' > main
    BY <1>1, <1>3 DEF Switch!Next, Switch!Advance
  <1>4. CASE UNCHANGED main
    <2>1. CASE lock' = lock
      BY <1>1, <1>2, <1>4, <2>1 DEF Switch!vars
    <2>2. CASE ~lock /\ lock'
      BY <1>1, <1>4, <2>2 DEF Switch!Next, Switch!Hide
    <2>3. CASE lock /\ ~lock'
      BY <1>1, <1>4, <2>3 DEF Switch!Next, Switch!Show
    <2> QED
      BY <1>2, <2>1, <2>2, <2>3
  <1> QED
    BY <1>3, <1>4, SwitchFrame

\* Activation implements the abstract switch: the reader is shown one whole commit
\* or told to come back, and main moves forward only while it is told so.
THEOREM ActivationIsSwitch ==
    ASSUME Alone
    PROVE  Spec => ImplementsSwitch
  <1>1. Init => Switch!Init
    BY DEF Init, Matches, Switch!Init
  <1>2. Spec => [][Switch!Next]_(Switch!vars)
    <2>1. /\ AloneInv /\ TypeInv /\ LockInv
          /\ (AloneInv /\ TypeInv /\ LockInv)'
          /\ [Next]_vars
          => [Switch!Next]_(Switch!vars)
      BY SwitchStep
    <2> QED
      BY <2>1, AloneInvariance, PTL DEF Spec
  <1> QED
    BY <1>1, <1>2, PTL DEF Spec, ImplementsSwitch, Switch!Spec
=============================================================================
