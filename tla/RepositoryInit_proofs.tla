------------------------ MODULE RepositoryInit_proofs ------------------------
(***************************************************************************)
(* Proofs about RepositoryInit, for every set of remote commits, every     *)
(* number of failures, kills, moves of the remote and names put in the way.*)
(***************************************************************************)
EXTENDS RepositoryInit, TLAPS

\* What the locals of an attempt say about the disk.
Attempt ==
    /\ pc \in {"idle", "fetch", "export"} => installed = {}
    /\ \A n \in installed : root[n] = target
    /\ pc = "export" => Audited(target)
    /\ pc \in {"install", "rename"} =>
           staged \cup installed = Top(target) /\ Acceptable(target)
    /\ pc = "rename" =>
           looking \in staged /\ (root[looking] = "user" => late = looking)

\* A branch is born at the end of an attempt, from what it has installed.
Birth ==
    /\ main # None => pc \in {"idle", "sync"}
    /\ pc = "sync" => main = target
    /\ WholeOrUnborn

\* Where the names of the root can come from.
Origin ==
    /\ \A n \in Names :
          root[n] \in Commits => n \in Top(root[n]) /\ Acceptable(root[n])
    /\ main = None /\ ~spoiled =>
          \A n \in Names : root[n] \in {None, "user"} \/ n \in installed

IInv == TypeOK /\ Attempt /\ Birth /\ Origin

-----------------------------------------------------------------------------
(* The constants *)

LEMMA TopsAreNames == \A c \in Commits : Top(c) \subseteq Names
  BY DEF Names

LEMMA NamesAreStrings == Names \subseteq STRING
  <1> SUFFICES ASSUME NEW c \in Commits, NEW path \in PathsOf(c)
               PROVE  path[1] \in STRING
    BY DEF Names, Top
  <1> QED
    BY SnapshotsAssumption

LEMMA Apart == /\ None \notin Commits /\ None # "user" /\ "user" \notin Commits
               /\ None \notin Names
  BY NoneAssumption, NamesAreStrings

-----------------------------------------------------------------------------
(* What each action preserves *)

\* Every variable keeps to its values.
LEMMA TypeStep ==
    ASSUME IInv, Next
    PROVE  TypeOK'
  <1> USE TopsAreNames, Apart DEF IInv, TypeOK, Attempt, disk, process, bounds, history
  <1>1. CASE PublishRefused
    BY <1>1 DEF PublishRefused
  <1>2. CASE Begin
    BY <1>2 DEF Begin, Goto
  <1>3. CASE FetchFails
    BY <1>3 DEF FetchFails, Rest
  <1>4. CASE FetchDone
    BY <1>4 DEF FetchDone, Rest
  <1>5. CASE Export
    BY <1>5 DEF Export, Goto, Rest
  <1>6. CASE ExportFails
    BY <1>6 DEF ExportFails, Rest
  <1>7. ASSUME NEW n \in Names, Look(n) PROVE TypeOK'
    BY <1>7 DEF Look
  <1>8. CASE Rename
    BY <1>8 DEF Rename
  <1>9. CASE RenameFails
    BY <1>9 DEF RenameFails
  <1>10. CASE Finalize
    BY <1>10 DEF Finalize, Goto
  <1>11. CASE FinalizeFails
    BY <1>11 DEF FinalizeFails, Goto
  <1>12. ASSUME NEW n \in Names, Remove(n) PROVE TypeOK'
    BY <1>12 DEF Remove
  <1>13. ASSUME NEW n \in Names, RemoveFails(n) PROVE TypeOK'
    BY <1>13 DEF RemoveFails
  <1>14. CASE RolledBack
    BY <1>14 DEF RolledBack, Rest
  <1>15. CASE Record
    BY <1>15 DEF Record, Rest
  <1>16. CASE Kill
    BY <1>16 DEF Kill, Rest
  <1>17. ASSUME NEW c \in Commits, MoveTip(c) PROVE TypeOK'
    BY <1>17 DEF MoveTip
  <1>18. ASSUME NEW n \in Names, UserPuts(n) PROVE TypeOK'
    BY <1>18 DEF UserPuts, Exists
  <1>19. CASE CleanUp
    BY <1>19 DEF CleanUp
  <1> QED
    BY <1>1, <1>2, <1>3, <1>4, <1>5, <1>6, <1>7, <1>8, <1>9, <1>10, <1>11, <1>12,
       <1>13, <1>14, <1>15, <1>16, <1>17, <1>18, <1>19 DEF Next, Step

\* The locals of an attempt stay true of the disk.
LEMMA AttemptStep ==
    ASSUME IInv, Next
    PROVE  Attempt'
  <1> USE TopsAreNames, Apart DEF IInv, TypeOK, Attempt, Birth, disk, process, bounds, history
  <1>1. CASE PublishRefused
    BY <1>1 DEF PublishRefused
  <1>2. CASE Begin
    BY <1>2 DEF Begin, Goto
  <1>3. CASE FetchFails
    BY <1>3 DEF FetchFails, Rest
  <1>4. CASE FetchDone
    BY <1>4 DEF FetchDone, Rest
  <1>5. CASE Export
    BY <1>5 DEF Export, Goto, Rest, Acceptable
  <1>6. CASE ExportFails
    BY <1>6 DEF ExportFails, Rest
  <1>7. ASSUME NEW n \in Names, Look(n) PROVE Attempt'
    BY <1>7 DEF Look, Exists
  <1>8. CASE Rename
    BY <1>8 DEF Rename
  <1>9. CASE RenameFails
    BY <1>9 DEF RenameFails
  <1>10. CASE Finalize
    BY <1>10 DEF Finalize, Goto
  <1>11. CASE FinalizeFails
    BY <1>11 DEF FinalizeFails, Goto
  <1>12. ASSUME NEW n \in Names, Remove(n) PROVE Attempt'
    BY <1>12 DEF Remove
  <1>13. ASSUME NEW n \in Names, RemoveFails(n) PROVE Attempt'
    BY <1>13 DEF RemoveFails
  <1>14. CASE RolledBack
    BY <1>14 DEF RolledBack, Rest
  <1>15. CASE Record
    BY <1>15 DEF Record, Rest
  <1>16. CASE Kill
    BY <1>16 DEF Kill, Rest
  <1>17. ASSUME NEW c \in Commits, MoveTip(c) PROVE Attempt'
    BY <1>17 DEF MoveTip
  <1>18. ASSUME NEW n \in Names, UserPuts(n) PROVE Attempt'
    BY <1>18 DEF UserPuts, Exists
  <1>19. CASE CleanUp
    BY <1>19 DEF CleanUp
  <1> QED
    BY <1>1, <1>2, <1>3, <1>4, <1>5, <1>6, <1>7, <1>8, <1>9, <1>10, <1>11, <1>12,
       <1>13, <1>14, <1>15, <1>16, <1>17, <1>18, <1>19 DEF Next, Step

\* The branch is born whole, and nothing of it is taken back.
LEMMA BirthStep ==
    ASSUME IInv, Next
    PROVE  Birth'
  <1> USE TopsAreNames, Apart DEF IInv, TypeOK, Attempt, Birth, WholeOrUnborn, disk, process, bounds, history
  <1>1. CASE PublishRefused
    BY <1>1 DEF PublishRefused
  <1>2. CASE Begin
    BY <1>2 DEF Begin, Goto
  <1>3. CASE FetchFails
    BY <1>3 DEF FetchFails, Rest
  <1>4. CASE FetchDone
    BY <1>4 DEF FetchDone, Rest
  <1>5. CASE Export
    BY <1>5 DEF Export, Goto, Rest
  <1>6. CASE ExportFails
    BY <1>6 DEF ExportFails, Rest
  <1>7. ASSUME NEW n \in Names, Look(n) PROVE Birth'
    BY <1>7 DEF Look
  <1>8. CASE Rename
    BY <1>8 DEF Rename
  <1>9. CASE RenameFails
    BY <1>9 DEF RenameFails
  <1>10. CASE Finalize
    BY <1>10 DEF Finalize, Goto
  <1>11. CASE FinalizeFails
    BY <1>11 DEF FinalizeFails, Goto
  <1>12. ASSUME NEW n \in Names, Remove(n) PROVE Birth'
    BY <1>12 DEF Remove
  <1>13. ASSUME NEW n \in Names, RemoveFails(n) PROVE Birth'
    BY <1>13 DEF RemoveFails
  <1>14. CASE RolledBack
    BY <1>14 DEF RolledBack, Rest
  <1>15. CASE Record
    BY <1>15 DEF Record, Rest
  <1>16. CASE Kill
    BY <1>16 DEF Kill, Rest
  <1>17. ASSUME NEW c \in Commits, MoveTip(c) PROVE Birth'
    BY <1>17 DEF MoveTip
  <1>18. ASSUME NEW n \in Names, UserPuts(n) PROVE Birth'
    BY <1>18 DEF UserPuts, Exists
  <1>19. CASE CleanUp
    BY <1>19 DEF CleanUp
  <1> QED
    BY <1>1, <1>2, <1>3, <1>4, <1>5, <1>6, <1>7, <1>8, <1>9, <1>10, <1>11, <1>12,
       <1>13, <1>14, <1>15, <1>16, <1>17, <1>18, <1>19 DEF Next, Step

\* Only what an attempt has installed is a remote commit's, and acceptable.
LEMMA OriginStep ==
    ASSUME IInv, Next
    PROVE  Origin'
  <1> USE TopsAreNames, Apart DEF IInv, TypeOK, Attempt, Birth, Origin, disk, process, bounds, history
  <1>1. CASE PublishRefused
    BY <1>1 DEF PublishRefused
  <1>2. CASE Begin
    BY <1>2 DEF Begin, Goto
  <1>3. CASE FetchFails
    BY <1>3 DEF FetchFails, Rest
  <1>4. CASE FetchDone
    BY <1>4 DEF FetchDone, Rest
  <1>5. CASE Export
    BY <1>5 DEF Export, Goto, Rest
  <1>6. CASE ExportFails
    BY <1>6 DEF ExportFails, Rest
  <1>7. ASSUME NEW n \in Names, Look(n) PROVE Origin'
    BY <1>7 DEF Look
  <1>8. CASE Rename
    BY <1>8 DEF Rename
  <1>9. CASE RenameFails
    BY <1>9 DEF RenameFails
  <1>10. CASE Finalize
    BY <1>10 DEF Finalize, Goto
  <1>11. CASE FinalizeFails
    BY <1>11 DEF FinalizeFails, Goto
  <1>12. ASSUME NEW n \in Names, Remove(n) PROVE Origin'
    BY <1>12 DEF Remove
  <1>13. ASSUME NEW n \in Names, RemoveFails(n) PROVE Origin'
    BY <1>13 DEF RemoveFails
  <1>14. CASE RolledBack
    BY <1>14 DEF RolledBack, Rest
  <1>15. CASE Record
    BY <1>15 DEF Record, Rest
  <1>16. CASE Kill
    BY <1>16 DEF Kill, Rest
  <1>17. ASSUME NEW c \in Commits, MoveTip(c) PROVE Origin'
    BY <1>17 DEF MoveTip
  <1>18. ASSUME NEW n \in Names, UserPuts(n) PROVE Origin'
    BY <1>18 DEF UserPuts, Exists
  <1>19. CASE CleanUp
    BY <1>19 DEF CleanUp
  <1> QED
    BY <1>1, <1>2, <1>3, <1>4, <1>5, <1>6, <1>7, <1>8, <1>9, <1>10, <1>11, <1>12,
       <1>13, <1>14, <1>15, <1>16, <1>17, <1>18, <1>19 DEF Next, Step

-----------------------------------------------------------------------------
(* The theorems *)

LEMMA Invariance == Spec => []IInv
  <1>1. Init => IInv
    BY Apart DEF Init, IInv, TypeOK, Attempt, Birth, WholeOrUnborn, Origin
  <1>2. IInv /\ [Next]_vars => IInv'
    <2>1. CASE Next
      BY <2>1, TypeStep, AttemptStep, BirthStep, OriginStep DEF IInv
    <2>2. CASE UNCHANGED vars
      BY <2>2 DEF vars, disk, process, bounds, history, IInv, TypeOK, Attempt, Birth,
         WholeOrUnborn, Origin
    <2> QED
      BY <2>1, <2>2
  <1> QED
    BY <1>1, <1>2, PTL DEF Spec

\* The root, the metadata and the locals of an attempt hold what they can hold.
THEOREM InitTypeCorrect == Spec => []TypeOK
  <1>1. IInv => TypeOK
    BY DEF IInv
  <1> QED
    BY <1>1, Invariance, PTL

\* Whatever fails or is killed, and whoever writes to the root meanwhile: once
\* main exists, each name of its commit is there, from that commit.
THEOREM BornWhole == Spec => []WholeOrUnborn
  <1>1. IInv => WholeOrUnborn
    BY DEF IInv, Birth
  <1> QED
    BY <1>1, Invariance, PTL

\* What path_owner says of a path that a remote commit may have.
LEMMA OwnedPath ==
    ASSUME NEW path \in Seq(STRING), path # <<>>, RemoteMayChange(path)
    PROVE  /\ path[1] \in {"content", "config", "state", ".gitignore", "guide"}
           /\ Range(path) \cap NotPlain = {}
  <1>1. path \in {<<".gitignore">>, <<"guide">>} => Plain(path)
    BY DEF Plain, NotPlain, Range
  <1>2. Plain(path)
    BY <1>1 DEF RemoteMayChange, path_owner
  <1>3. path[1] \in {"content", "config", "state", ".gitignore", "guide"}
    BY <1>2 DEF RemoteMayChange, path_owner
  <1> QED
    BY <1>2, <1>3 DEF Plain

\* For any commits the remote may offer, what stands in the root is of an
\* acceptable one: no path outside the owned areas and none that leaves its area.
THEOREM ContractKept == Spec => []OnlyContractInstalled
  <1>1. IInv => OnlyContractInstalled
    <2> SUFFICES ASSUME IInv, NEW n \in Names, root[n] \in Commits
                 PROVE  /\ n \in {"content", "config", "state", ".gitignore", "guide"}
                        /\ "state" \in Top(root[n]) /\ Snapshots[root[n]].valid
                        /\ \A path \in PathsOf(root[n]) : Range(path) \cap NotPlain = {}
      BY DEF OnlyContractInstalled
    <2>1. n \in Top(root[n]) /\ Acceptable(root[n])
      BY DEF IInv, Origin
    <2>2. ASSUME NEW path \in PathsOf(root[n])
          PROVE  /\ path[1] \in {"content", "config", "state", ".gitignore", "guide"}
                 /\ Range(path) \cap NotPlain = {}
      BY <2>1, OwnedPath, SnapshotsAssumption DEF Acceptable, Audited
    <2> QED
      BY <2>1, <2>2 DEF Acceptable, Audited, Top
  <1> QED
    BY <1>1, Invariance, PTL

\* A failure at any step takes back whatever was installed, except where it
\* cannot be removed or the process is killed.
THEOREM LeavesEmpty == Spec => []FailureLeavesEmpty
  <1>1. IInv => FailureLeavesEmpty
    BY DEF IInv, Attempt, Origin, FailureLeavesEmpty
  <1> QED
    BY <1>1, Invariance, PTL

\* Only the rename that a name was slipped in before, or the operator, takes
\* away what somebody else has put into the root.
THEOREM DataKept == Spec => UserDataSurvives
  <1>1. ASSUME IInv, [Next]_vars, NEW n \in Names, root[n] = "user", root'[n] # "user"
        PROVE  CleanUp \/ late = n
    <2>1. PICK name \in Names : Rename \/ Remove(name) \/ UserPuts(name) \/ CleanUp
      BY <1>1 DEF Next, Step, vars, disk, process, bounds, history, PublishRefused, Begin,
         FetchFails, FetchDone, Export, ExportFails, Look, RenameFails, Finalize,
         FinalizeFails, RemoveFails, RolledBack, Record, Kill, MoveTip
    <2>2. CASE Rename
      BY <1>1, <2>2 DEF Rename, IInv, TypeOK, Attempt
    <2>3. CASE Remove(name)
      BY <1>1, <2>3, Apart DEF Remove, IInv, TypeOK, Attempt
    <2>4. CASE UserPuts(name)
      BY <1>1, <2>4 DEF UserPuts, IInv, TypeOK
    <2> QED
      BY <2>1, <2>2, <2>3, <2>4
  <1>2. IInv /\ [Next]_vars =>
            [\A n \in Names : root[n] = "user" /\ root'[n] # "user"
                              => CleanUp \/ late = n]_vars
    BY <1>1
  <1> QED
    BY <1>2, Invariance, PTL DEF Spec, UserDataSurvives
==============================================================================
