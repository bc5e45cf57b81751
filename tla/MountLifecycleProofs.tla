------------------------ MODULE MountLifecycleProofs ------------------------
(***************************************************************************)
(* Proofs about MountLifecycle, for every value of its constants: the      *)
(* inductive invariant IndInv, and from it that the state keeps its types, *)
(* that an append cut short can always be undone, and that no mount shows  *)
(* less than its archive.                                                  *)
(*                                                                         *)
(* Then what a FileMount promises, for every value of the constants that   *)
(* the code keeps it for: a flush or a commit that returned is on disk,    *)
(* the next open shows it, no commit is taken for a foreign archive, and   *)
(* the mount implements DurableStore.  Each theorem names the failures it  *)
(* excludes; the runs open_crash_promise and open_crash_conflict show what *)
(* a crash inside open does.                                               *)
(***************************************************************************)
EXTENDS MountLifecycle, TLAPS

\* The records the journal actions write are journals.
LEMMA JournalTypes ==
  /\ NoJournal \in Journals /\ BareJournal \in Journals
  /\ \A src \in Nat : NewJournal(src) \in Journals
  /\ \A j \in Journals, b \in BOOLEAN : [j EXCEPT !.tail = b] \in Journals
  /\ \A j \in Journals, m \in 0..MaxVersion, b \in BOOLEAN :
       [j EXCEPT !.mark = m, !.tail = b] \in Journals
  /\ \A j \in Journals, m \in 0..MaxVersion, b \in BOOLEAN :
       [j EXCEPT !.tail = b, !.mark = m] \in Journals
  /\ \A j \in Journals : j.mark \in 0..MaxVersion /\ j.tail \in BOOLEAN /\ j.src \in Nat
<1>1. NoJournal \in Journals
  BY LifecycleAssumption DEF NoJournal, Journals, NoVersion
<1>2. BareJournal \in Journals
  BY <1>1 DEF BareJournal, Journals
<1>3. ASSUME NEW src \in Nat PROVE NewJournal(src) \in Journals
  BY <1>1 DEF NewJournal, Journals
<1>4. \A j \in Journals, b \in BOOLEAN : [j EXCEPT !.tail = b] \in Journals
  BY DEF Journals
<1>5. \A j \in Journals, m \in 0..MaxVersion, b \in BOOLEAN :
       [j EXCEPT !.mark = m, !.tail = b] \in Journals
  BY DEF Journals
<1>6. \A j \in Journals, m \in 0..MaxVersion, b \in BOOLEAN :
       [j EXCEPT !.tail = b, !.mark = m] \in Journals
  BY DEF Journals
<1>7. \A j \in Journals : j.mark \in 0..MaxVersion /\ j.tail \in BOOLEAN /\ j.src \in Nat
  BY DEF Journals
<1>. QED
  BY <1>1, <1>2, <1>3, <1>4, <1>5, <1>6, <1>7

\* Which journal actions change the mark and the source of a journal.
LEMMA JournalFields ==
  /\ NoJournal.mark = NoVersion /\ NoJournal.src = 0
  /\ BareJournal.mark = NoVersion /\ BareJournal.src = 0
  /\ \A src : NewJournal(src).mark = NoVersion /\ NewJournal(src).src = src
  /\ \A j \in Journals : \A b :
       LET k == [j EXCEPT !.tail = b] IN k.mark = j.mark /\ k.src = j.src
  /\ \A j \in Journals : \A m, b :
       /\ LET k == [j EXCEPT !.mark = m, !.tail = b] IN k.mark = m /\ k.src = j.src
       /\ LET k == [j EXCEPT !.tail = b, !.mark = m] IN k.mark = m /\ k.src = j.src
BY DEF NoJournal, BareJournal, NewJournal, Journals

\* Beginning, finishing and undoing an append and installing an archive give
\* archives.
LEMMA ArchiveTypes ==
  /\ \A a \in Archives, b \in BOOLEAN : [a EXCEPT !.torn = b] \in Archives
  /\ \A a \in Archives : a.gen \in Nat /\ a.ver \in Versions /\ a.torn \in BOOLEAN
  /\ \A g \in Nat, v \in Versions : [gen |-> g, ver |-> v, torn |-> FALSE] \in Archives
BY DEF Archives

\* The intents a commit writes are intents.
LEMMA IntentTypes ==
  /\ NoIntent \in Intents
  /\ [NoIntent EXCEPT !.kind = "torn"] \in Intents
  /\ \A k \in {"full", "incremental"}, pre \in Nat, post \in Nat :
       [kind |-> k, pre |-> pre, post |-> post] \in Intents
  /\ \A i \in Intents : i.post \in Nat /\ i.pre \in Nat
BY DEF Intents, NoIntent

\* The arithmetic of versions.
LEMMA VersionTypes ==
  /\ NoVersion \in 0..MaxVersion /\ NoVersion \in Nat
  /\ \A v \in Versions : v \in 0..MaxVersion /\ v \in Nat
  /\ \A v \in 0..MaxVersion : v \in Nat
  /\ \A v \in 0..MaxVersion : v # NoVersion => v \in Versions
  /\ \A n \in Nat : n + 1 \in Nat
  /\ \A v \in 1..issued : issued \in Versions => v \in Versions
BY LifecycleAssumption DEF NoVersion, Versions

\* What the type invariant says about the numbers that are compared.
LEMMA Numbers ==
  ASSUME TypeOK
  PROVE  /\ gens \in Nat /\ issued \in Nat /\ live \in Nat
         /\ archive.gen \in Nat /\ archive.ver \in Nat
         /\ vmdirty.mark \in Nat /\ vmdirty.src \in Nat
         /\ compact.mark \in Nat /\ compact.src \in Nat
BY VersionTypes, ArchiveTypes, JournalTypes DEF TypeOK

\* Every step of an open, a session, a commit, a crash or another program keeps
\* the state in its types.
LEMMA TypeStep ==
  ASSUME TypeOK, CallInv, [Next]_vars
  PROVE  TypeOK'
<1>. USE JournalTypes, ArchiveTypes, IntentTypes, VersionTypes DEF TypeOK
<1>. USE DEF Goto, disk, session, history, bounds
<1>1. CASE OpenStart
  BY <1>1 DEF MatchesPost, OpenStart, OpenSteps, PrefixIsPre, Readable,
     Recorded, Durable, SourceChanged
<1>2. CASE OpenIntent
  BY <1>2 DEF MatchesPost, MatchesPre, OpenIntent, OpenSteps, PrefixIsPre,
     Recorded
<1>3. CASE OpenRemoveIntent
  BY <1>3 DEF OpenRemoveIntent, OpenSteps
<1>4. CASE OpenSyncIntent
  BY <1>4 DEF OpenSteps, OpenSyncIntent
<1>5. CASE OpenIndex
  BY <1>5 DEF OpenIndex, OpenSteps
<1>6. CASE OpenOrphans
  BY <1>6 DEF OpenOrphans, OpenSteps
<1>7. CASE OpenDiscard
  BY <1>7 DEF OpenDiscard, OpenSteps
<1>8. CASE OpenSyncDiscard
  BY <1>8 DEF OpenSteps, OpenSyncDiscard
<1>9. CASE NoJournalToRecover
  BY <1>9 DEF NoJournalToRecover, OpenSteps
<1>10. CASE RecoveryAborts
  BY <1>10 DEF Decisions, DefaultDecision, OpenSteps, Readable, RecoveryAborts,
     SourceChanged
<1>11. CASE RecoveryDiscards
  BY <1>11 DEF CallInv, Decisions, DefaultDecision, OpenSteps, Readable,
     RecoveryDiscards, SourceChanged
<1>12. CASE RecoverCommitted
  BY <1>12 DEF CallInv, Decisions, DefaultDecision, OpenSteps, Readable,
     RecoverCommitted, SourceChanged
<1>13. CASE RecoverAll
  <2>. DEFINE base == IF vmdirty.mark # NoVersion THEN vmdirty.mark ELSE archive.ver
  <2>1. issued' \in Versions /\ live' = issued'
    BY <1>13 DEF RecoverAll, Issue
  <2>2. includes' \in [Versions -> SUBSET Nat]
    <3>1. base \in Versions
      <4>1. vmdirty.mark # NoVersion => vmdirty.mark \in Versions
        OBVIOUS
      <4>. QED
        BY <4>1
    <3>2. includes[base] \subseteq Nat
      BY <3>1
    <3>. QED
      BY <1>13, <2>1, <3>2 DEF RecoverAll, Issue
  <2>. QED
    BY <1>13, <2>1, <2>2 DEF RecoverAll, Issue, Goto, OpenSteps, bounds, disk
<1>14. CASE OpenBackup
  BY <1>14 DEF OpenBackup, OpenSteps
<1>15. CASE OpenCreate
  BY <1>15 DEF OpenCreate, OpenSteps
<1>16. CASE OpenHeader
  BY <1>16 DEF OpenHeader, OpenSteps
<1>17. CASE OpenRejournal
  BY <1>17 DEF OpenRejournal, OpenSteps
<1>18. CASE OpenMark
  BY <1>18 DEF CallInv, OpenMark, OpenSteps, RecoverySteps, SessionSteps
<1>19. CASE OpenClean
  BY <1>19 DEF OpenClean, OpenSteps, SessionSteps
<1>20. CASE OpenFresh
  BY <1>20 DEF OpenFresh, OpenSteps
<1>21. CASE OpenFreshHeader
  BY <1>21 DEF OpenFreshHeader, OpenSteps, SessionSteps
<1>22. CASE Edit
  <2>1. issued' \in Versions /\ live' = issued'
    BY <1>22 DEF Edit, Issue
  <2>2. includes' \in [Versions -> SUBSET Nat]
    <3>1. includes[live] \subseteq Nat
      BY <1>22 DEF Edit, Goto, CallInv, SessionSteps
    <3>. QED
      BY <1>22, <2>1, <3>1 DEF Edit, Issue
  <2>3. vmdirty' \in Journals /\ compact' \in Journals
    BY <1>22 DEF Edit, disk, SetHandle, Handle
  <2>. QED
    BY <1>22, <2>1, <2>2, <2>3 DEF Edit, Issue, Goto, SetHandle, SessionSteps,
       bounds, disk
<1>23. CASE Flush
  BY <1>23 DEF Flush, SessionSteps
<1>24. CASE FlushData
  BY <1>24 DEF FlushData, Handle, SessionSteps, SetHandle
<1>25. CASE FlushMark
  <2>1. live \in Versions
    BY <1>25 DEF FlushMark, CallInv, SessionSteps
  <2>2. Handle \in Journals
    BY DEF Handle
  <2>3. vmdirty' \in Journals /\ compact' \in Journals
    <3>. DEFINE m == IF Handle.tail \/ Handle.mark # NoVersion THEN live ELSE Handle.mark
    <3>1. m \in 0..MaxVersion
      BY <2>1, <2>2
    <3>2. [Handle EXCEPT !.mark = m, !.tail = FALSE] \in Journals
      BY <2>2, <3>1
    <3>. QED
      BY <1>25, <3>2 DEF FlushMark, SetHandle
  <2>4. op' \in {"none", "flush", "compactJournal", "full", "incremental"}
    BY <1>25 DEF FlushMark
  <2>. QED
    BY <1>25, <2>1, <2>3, <2>4 DEF FlushMark, SetHandle, SessionSteps,
       CommitSteps, bounds
<1>26. CASE CompactJournal
  BY <1>26 DEF CompactJournal, SessionSteps
<1>27. CASE CompactCreate
  BY <1>27 DEF CompactCreate, SessionSteps
<1>28. CASE CompactHeader
  BY <1>28 DEF CompactHeader, SessionSteps
<1>29. CASE CompactRejournal
  BY <1>29 DEF CompactRejournal, Dirty, SessionSteps
<1>30. CASE CompactMark
  BY <1>30 DEF CallInv, CompactMark, SessionSteps
<1>31. CASE CompactFails
  BY <1>31 DEF CallInv, CompactFails, SessionSteps
<1>32. CASE CompactRename
  BY <1>32 DEF CompactRename, SessionSteps
<1>33. CASE CompactRenameFails
  BY <1>33 DEF CompactRenameFails, SessionSteps
<1>34. CASE CompactDirSync
  BY <1>34 DEF CallInv, CompactDirSync, SessionSteps
<1>35. CASE CommitFull
  BY <1>35 DEF CommitFull, CommitSteps, SessionSteps, StartCommit
<1>36. CASE CommitIncremental
  BY <1>36 DEF CommitIncremental, CommitSteps, SessionSteps, StartCommit
<1>37. CASE Compact
  BY <1>37 DEF CommitSteps, Compact, SessionSteps, StartCommit
<1>38. CASE IntentCreate
  <2>1. intent' \in Intents
    BY <1>38 DEF IntentCreate
  <2>2. gens' \in Nat
    BY <1>38 DEF IntentCreate
  <2>. QED
    BY <1>38, <2>1, <2>2 DEF IntentCreate, CommitSteps, Goto, history, session
<1>39. CASE IntentWrite
  BY <1>39 DEF CallInv, CommitSteps, IntentWrite
<1>40. CASE IntentSync
  BY <1>40 DEF CommitSteps, IntentSync
<1>41. CASE FullTmp
  BY <1>41 DEF CommitSteps, FullTmp
<1>42. CASE FullWrite
  BY <1>42 DEF CommitSteps, FullWrite
<1>43. CASE FullSync
  BY <1>43 DEF CommitSteps, FullSync
<1>44. CASE FullRename
  BY <1>44 DEF CallInv, CommitSteps, FullRename, NewArchive
<1>45. CASE FullDirSync
  BY <1>45 DEF CommitSteps, FullDirSync
<1>46. CASE IncAppend
  BY <1>46 DEF CommitSteps, IncAppend
<1>47. CASE IncWrite
  BY <1>47 DEF CallInv, CommitSteps, IncWrite, NewArchive
<1>48. CASE IncSync
  BY <1>48 DEF CommitSteps, IncSync
<1>49. CASE CleanVmdirty
  BY <1>49 DEF CleanVmdirty, CommitSteps
<1>50. CASE CleanSync
  BY <1>50 DEF CleanSync, CommitSteps
<1>51. CASE CleanIntent
  BY <1>51 DEF CleanIntent, CommitSteps
<1>52. CASE CommitReturns
  BY <1>52 DEF CallInv, CommitReturns, CommitSteps, EndSession
<1>53. CASE DropMount
  BY <1>53 DEF DropMount, EndSession, SessionSteps
<1>54. CASE Crash
  <2>1. crashes' \in Nat
    BY <1>54  DEF Crash
  <2>. QED
    BY <1>54, <2>1 DEF Crash, EndSession, disk, history
<1>55. CASE ForeignReplace
  <2>1. issued' \in Versions /\ gens' \in Nat /\ foreign' \in Nat
    BY <1>55  DEF ForeignReplace
  <2>2. archive' \in Archives
    BY <1>55, <2>1 DEF ForeignReplace
  <2>3. includes' \in [Versions -> SUBSET Nat]
    BY <1>55, <2>1 DEF ForeignReplace
  <2>. QED
    BY <1>55, <2>1, <2>2, <2>3 DEF ForeignReplace, session
<1>56. CASE UNCHANGED vars
  BY <1>56 DEF vars
<1>. QED
  BY <1>1, <1>2, <1>3, <1>4, <1>5, <1>6, <1>7, <1>8, <1>9, <1>10, <1>11, <1>12,
     <1>13, <1>14, <1>15, <1>16, <1>17, <1>18, <1>19, <1>20, <1>21, <1>22,
     <1>23, <1>24, <1>25, <1>26, <1>27, <1>28, <1>29, <1>30, <1>31, <1>32,
     <1>33, <1>34, <1>35, <1>36, <1>37, <1>38, <1>39, <1>40, <1>41, <1>42,
     <1>43, <1>44, <1>45, <1>46, <1>47, <1>48, <1>49, <1>50, <1>51, <1>52,
     <1>53, <1>54, <1>55, <1>56 DEF Next, Open, Session, Commit

\* Every step keeps the bookkeeping of the call it belongs to.
LEMMA CallStep ==
  ASSUME TypeOK, CallInv, VersionInv, JournalInv, [Next]_vars
  PROVE  CallInv'
<1>. USE DEF CallInv, NoVersion, CommitSteps, SessionSteps, RecoverySteps
<1>. USE DEF Goto, disk, session, history, bounds
<1>1. CASE OpenStart
  BY <1>1 DEF MatchesPost, OpenStart, PrefixIsPre, Readable, Recorded,
     SourceChanged
<1>2. CASE OpenIntent
  BY <1>2 DEF MatchesPost, MatchesPre, OpenIntent, PrefixIsPre, Recorded
<1>3. CASE OpenRemoveIntent
  BY <1>3 DEF OpenRemoveIntent
<1>4. CASE OpenSyncIntent
  BY <1>4 DEF OpenSyncIntent
<1>5. CASE OpenIndex
  BY <1>5 DEF OpenIndex
<1>6. CASE OpenOrphans
  BY <1>6 DEF OpenOrphans
<1>7. CASE OpenDiscard
  BY <1>7 DEF OpenDiscard
<1>8. CASE OpenSyncDiscard
  BY <1>8 DEF OpenSyncDiscard
<1>9. CASE NoJournalToRecover
  BY <1>9 DEF NoJournalToRecover
<1>10. CASE RecoveryAborts
  BY <1>10 DEF Decisions, DefaultDecision, Readable, RecoveryAborts,
     SourceChanged
<1>11. CASE RecoveryDiscards
  BY <1>11 DEF Decisions, DefaultDecision, Readable, RecoveryDiscards,
     SourceChanged
<1>12. CASE RecoverCommitted
  <2>1. vmdirty.mark # NoVersion
    BY <1>12 DEF RecoverCommitted, Decisions, DefaultDecision
  <2>2. vmdirty.mark \in 1..issued
    BY <2>1, Numbers DEF JournalInv, JournalOK
  <2>. QED
    BY <1>12, <2>2 DEF RecoverCommitted, Goto, history
<1>13. CASE RecoverAll
  <2>1. issued \in Nat /\ issued' = issued + 1 /\ live' = issued'
    BY <1>13 DEF RecoverAll, Issue, TypeOK, Versions
  <2>2. live' \in 1..issued'
    BY <2>1
  <2>. QED
    BY <1>13, <2>2 DEF RecoverAll, Goto
<1>14. CASE OpenBackup
  BY <1>14 DEF OpenBackup
<1>15. CASE OpenCreate
  BY <1>15 DEF OpenCreate
<1>16. CASE OpenHeader
  BY <1>16 DEF OpenHeader
<1>17. CASE OpenRejournal
  BY <1>17 DEF OpenRejournal
<1>18. CASE OpenMark
  BY <1>18 DEF OpenMark
<1>19. CASE OpenClean
  <2>1. live' \in 1..issued'
    BY <1>19 DEF OpenClean, VersionInv, history
  <2>. QED
    BY <1>19, <2>1 DEF OpenClean, Goto
<1>20. CASE OpenFresh
  BY <1>20 DEF OpenFresh
<1>21. CASE OpenFreshHeader
  <2>1. live' \in 1..issued'
    BY <1>21 DEF OpenFreshHeader, VersionInv, history
  <2>. QED
    BY <1>21, <2>1 DEF OpenFreshHeader, Goto
<1>22. CASE Edit
  <2>1. issued \in Nat /\ issued' = issued + 1 /\ live' = issued'
    BY <1>22 DEF Edit, Issue, TypeOK, Versions
  <2>2. live' \in 1..issued'
    BY <2>1
  <2>. QED
    BY <1>22, <2>2 DEF Edit, Goto
<1>23. CASE Flush
  BY <1>23 DEF Flush
<1>24. CASE FlushData
  BY <1>24 DEF FlushData, Handle, SetHandle
<1>25. CASE FlushMark
  BY <1>25 DEF FlushMark, Handle, SetHandle, TypeOK
<1>26. CASE CompactJournal
  BY <1>26 DEF CompactJournal
<1>27. CASE CompactCreate
  BY <1>27 DEF CompactCreate
<1>28. CASE CompactHeader
  BY <1>28 DEF CompactHeader
<1>29. CASE CompactRejournal
  BY <1>29 DEF CompactRejournal
<1>30. CASE CompactMark
  BY <1>30 DEF CompactMark
<1>31. CASE CompactFails
  BY <1>31 DEF CompactFails
<1>32. CASE CompactRename
  BY <1>32 DEF CompactRename
<1>33. CASE CompactRenameFails
  BY <1>33 DEF CompactRenameFails
<1>34. CASE CompactDirSync
  BY <1>34 DEF CompactDirSync
<1>35. CASE CommitFull
  BY <1>35 DEF CommitFull, StartCommit
<1>36. CASE CommitIncremental
  BY <1>36 DEF CommitIncremental, StartCommit
<1>37. CASE Compact
  BY <1>37 DEF Compact, StartCommit
<1>38. CASE IntentCreate
  BY <1>38 DEF IntentCreate
<1>39. CASE IntentWrite
  BY <1>39 DEF IntentWrite
<1>40. CASE IntentSync
  BY <1>40 DEF IntentSync
<1>41. CASE FullTmp
  BY <1>41 DEF FullTmp
<1>42. CASE FullWrite
  BY <1>42 DEF FullWrite
<1>43. CASE FullSync
  BY <1>43 DEF FullSync
<1>44. CASE FullRename
  BY <1>44 DEF FullRename, NewArchive
<1>45. CASE FullDirSync
  BY <1>45 DEF FullDirSync
<1>46. CASE IncAppend
  BY <1>46 DEF IncAppend
<1>47. CASE IncWrite
  BY <1>47 DEF IncWrite, NewArchive
<1>48. CASE IncSync
  BY <1>48 DEF IncSync
<1>49. CASE CleanVmdirty
  BY <1>49 DEF CleanVmdirty
<1>50. CASE CleanSync
  BY <1>50 DEF CleanSync
<1>51. CASE CleanIntent
  BY <1>51 DEF CleanIntent
<1>52. CASE CommitReturns
  BY <1>52 DEF CommitReturns, EndSession
<1>53. CASE DropMount
  BY <1>53 DEF DropMount, EndSession
<1>54. CASE Crash
  BY <1>54 DEF Crash, EndSession
<1>55. CASE ForeignReplace
  BY <1>55 DEF ForeignReplace
<1>56. CASE UNCHANGED vars
  BY <1>56 DEF vars
<1>. QED
  BY <1>1, <1>2, <1>3, <1>4, <1>5, <1>6, <1>7, <1>8, <1>9, <1>10, <1>11, <1>12,
     <1>13, <1>14, <1>15, <1>16, <1>17, <1>18, <1>19, <1>20, <1>21, <1>22,
     <1>23, <1>24, <1>25, <1>26, <1>27, <1>28, <1>29, <1>30, <1>31, <1>32,
     <1>33, <1>34, <1>35, <1>36, <1>37, <1>38, <1>39, <1>40, <1>41, <1>42,
     <1>43, <1>44, <1>45, <1>46, <1>47, <1>48, <1>49, <1>50, <1>51, <1>52,
     <1>53, <1>54, <1>55, <1>56 DEF Next, Open, Session, Commit

\* An append begins only under the intent that undoes it, and nothing takes that
\* intent away, nor replaces the archive under it, before the append is undone
\* or finished.
LEMMA IntentStep ==
  ASSUME TypeOK, CallInv, IntentInv, TornIsRepairable, [Next]_vars
  PROVE  (IntentInv /\ TornIsRepairable)'
<1>. USE DEF IntentInv, TornIsRepairable, PrefixIsPre
<1>. USE DEF Goto, disk, session, history, bounds
<1>1. CASE OpenStart
  BY <1>1 DEF MatchesPost, OpenStart, PrefixIsPre, Readable, Recorded,
     SourceChanged
<1>2. CASE OpenIntent
  <2>1. ~archive'.torn
    BY <1>2 DEF OpenIntent, TypeOK, Archives
  <2>. QED
    BY <1>2, <2>1 DEF OpenIntent
<1>3. CASE OpenRemoveIntent
  BY <1>3 DEF OpenRemoveIntent
<1>4. CASE OpenSyncIntent
  BY <1>4 DEF OpenSyncIntent
<1>5. CASE OpenIndex
  BY <1>5 DEF OpenIndex
<1>6. CASE OpenOrphans
  BY <1>6 DEF OpenOrphans
<1>7. CASE OpenDiscard
  BY <1>7 DEF OpenDiscard
<1>8. CASE OpenSyncDiscard
  BY <1>8 DEF OpenSyncDiscard
<1>9. CASE NoJournalToRecover
  BY <1>9 DEF NoJournalToRecover
<1>10. CASE RecoveryAborts
  BY <1>10 DEF Decisions, DefaultDecision, Readable, RecoveryAborts,
     SourceChanged
<1>11. CASE RecoveryDiscards
  BY <1>11 DEF Decisions, DefaultDecision, Readable, RecoveryDiscards,
     SourceChanged
<1>12. CASE RecoverCommitted
  BY <1>12 DEF Decisions, DefaultDecision, Readable, RecoverCommitted,
     SourceChanged
<1>13. CASE RecoverAll
  BY <1>13 DEF Decisions, DefaultDecision, Issue, Readable, RecoverAll,
     SourceChanged
<1>14. CASE OpenBackup
  BY <1>14 DEF OpenBackup
<1>15. CASE OpenCreate
  BY <1>15 DEF OpenCreate
<1>16. CASE OpenHeader
  BY <1>16 DEF OpenHeader
<1>17. CASE OpenRejournal
  BY <1>17 DEF OpenRejournal
<1>18. CASE OpenMark
  BY <1>18 DEF OpenMark
<1>19. CASE OpenClean
  BY <1>19 DEF OpenClean
<1>20. CASE OpenFresh
  BY <1>20 DEF OpenFresh
<1>21. CASE OpenFreshHeader
  BY <1>21 DEF OpenFreshHeader
<1>22. CASE Edit
  BY <1>22 DEF Edit, Handle, Issue, SetHandle
<1>23. CASE Flush
  BY <1>23 DEF Flush
<1>24. CASE FlushData
  BY <1>24 DEF FlushData, Handle, SetHandle
<1>25. CASE FlushMark
  BY <1>25 DEF FlushMark, Handle, SetHandle
<1>26. CASE CompactJournal
  BY <1>26 DEF CompactJournal
<1>27. CASE CompactCreate
  BY <1>27 DEF CompactCreate
<1>28. CASE CompactHeader
  BY <1>28 DEF CompactHeader
<1>29. CASE CompactRejournal
  BY <1>29 DEF CompactRejournal
<1>30. CASE CompactMark
  BY <1>30 DEF CompactMark
<1>31. CASE CompactFails
  BY <1>31 DEF CompactFails
<1>32. CASE CompactRename
  BY <1>32 DEF CompactRename
<1>33. CASE CompactRenameFails
  BY <1>33 DEF CompactRenameFails
<1>34. CASE CompactDirSync
  BY <1>34 DEF CompactDirSync
<1>35. CASE CommitFull
  BY <1>35 DEF CommitFull, StartCommit
<1>36. CASE CommitIncremental
  BY <1>36 DEF CommitIncremental, StartCommit
<1>37. CASE Compact
  BY <1>37 DEF Compact, StartCommit
<1>38. CASE IntentCreate
  BY <1>38 DEF IntentCreate
<1>39. CASE IntentWrite
  BY <1>39 DEF IntentWrite
<1>40. CASE IntentSync
  BY <1>40 DEF CallInv, CommitSteps, IntentSync
<1>41. CASE FullTmp
  BY <1>41 DEF FullTmp
<1>42. CASE FullWrite
  BY <1>42 DEF FullWrite
<1>43. CASE FullSync
  BY <1>43 DEF FullSync
<1>44. CASE FullRename
  BY <1>44 DEF FullRename, NewArchive
<1>45. CASE FullDirSync
  BY <1>45 DEF FullDirSync
<1>46. CASE IncAppend
  BY <1>46 DEF IncAppend
<1>47. CASE IncWrite
  BY <1>47 DEF IncWrite, NewArchive
<1>48. CASE IncSync
  BY <1>48 DEF IncSync
<1>49. CASE CleanVmdirty
  BY <1>49 DEF CleanVmdirty
<1>50. CASE CleanSync
  BY <1>50 DEF CleanSync
<1>51. CASE CleanIntent
  BY <1>51 DEF CleanIntent
<1>52. CASE CommitReturns
  BY <1>52 DEF CommitReturns, EndSession
<1>53. CASE DropMount
  BY <1>53 DEF DropMount, EndSession
<1>54. CASE Crash
  BY <1>54 DEF Crash, EndSession
<1>55. CASE ForeignReplace
  BY <1>55 DEF ForeignReplace
<1>56. CASE UNCHANGED vars
  BY <1>56 DEF vars
<1>. QED
  BY <1>1, <1>2, <1>3, <1>4, <1>5, <1>6, <1>7, <1>8, <1>9, <1>10, <1>11, <1>12,
     <1>13, <1>14, <1>15, <1>16, <1>17, <1>18, <1>19, <1>20, <1>21, <1>22,
     <1>23, <1>24, <1>25, <1>26, <1>27, <1>28, <1>29, <1>30, <1>31, <1>32,
     <1>33, <1>34, <1>35, <1>36, <1>37, <1>38, <1>39, <1>40, <1>41, <1>42,
     <1>43, <1>44, <1>45, <1>46, <1>47, <1>48, <1>49, <1>50, <1>51, <1>52,
     <1>53, <1>54, <1>55, <1>56 DEF Next, Open, Session, Commit

\* The fingerprint that a commit predicts is the last one issued until the
\* archive is installed.
LEMMA FreshStep ==
  ASSUME TypeOK, IntentInv, FreshInv, [Next]_vars
  PROVE  FreshInv'
<1>. USE DEF FreshInv, InstallSteps
<1>. USE DEF Goto, disk, session, history, bounds
<1>1. CASE OpenStart
  BY <1>1 DEF MatchesPost, OpenStart, PrefixIsPre, Readable, Recorded,
     SourceChanged
<1>2. CASE OpenIntent
  BY <1>2 DEF MatchesPost, MatchesPre, OpenIntent, PrefixIsPre, Recorded
<1>3. CASE OpenRemoveIntent
  BY <1>3 DEF OpenRemoveIntent
<1>4. CASE OpenSyncIntent
  BY <1>4 DEF OpenSyncIntent
<1>5. CASE OpenIndex
  BY <1>5 DEF OpenIndex
<1>6. CASE OpenOrphans
  BY <1>6 DEF OpenOrphans
<1>7. CASE OpenDiscard
  BY <1>7 DEF OpenDiscard
<1>8. CASE OpenSyncDiscard
  BY <1>8 DEF OpenSyncDiscard
<1>9. CASE NoJournalToRecover
  BY <1>9 DEF NoJournalToRecover
<1>10. CASE RecoveryAborts
  BY <1>10 DEF Decisions, DefaultDecision, Readable, RecoveryAborts,
     SourceChanged
<1>11. CASE RecoveryDiscards
  BY <1>11 DEF Decisions, DefaultDecision, Readable, RecoveryDiscards,
     SourceChanged
<1>12. CASE RecoverCommitted
  BY <1>12 DEF Decisions, DefaultDecision, Readable, RecoverCommitted,
     SourceChanged
<1>13. CASE RecoverAll
  BY <1>13 DEF Decisions, DefaultDecision, Issue, Readable, RecoverAll,
     SourceChanged
<1>14. CASE OpenBackup
  BY <1>14 DEF OpenBackup
<1>15. CASE OpenCreate
  BY <1>15 DEF OpenCreate
<1>16. CASE OpenHeader
  BY <1>16 DEF OpenHeader
<1>17. CASE OpenRejournal
  BY <1>17 DEF OpenRejournal
<1>18. CASE OpenMark
  BY <1>18 DEF OpenMark
<1>19. CASE OpenClean
  BY <1>19 DEF OpenClean
<1>20. CASE OpenFresh
  BY <1>20 DEF OpenFresh
<1>21. CASE OpenFreshHeader
  BY <1>21 DEF OpenFreshHeader
<1>22. CASE Edit
  BY <1>22 DEF Edit, Handle, Issue, SetHandle
<1>23. CASE Flush
  BY <1>23 DEF Flush
<1>24. CASE FlushData
  BY <1>24 DEF FlushData, Handle, SetHandle
<1>25. CASE FlushMark
  BY <1>25 DEF FlushMark, Handle, SetHandle
<1>26. CASE CompactJournal
  BY <1>26 DEF CompactJournal
<1>27. CASE CompactCreate
  BY <1>27 DEF CompactCreate
<1>28. CASE CompactHeader
  BY <1>28 DEF CompactHeader
<1>29. CASE CompactRejournal
  BY <1>29 DEF CompactRejournal
<1>30. CASE CompactMark
  BY <1>30 DEF CompactMark
<1>31. CASE CompactFails
  BY <1>31 DEF CompactFails
<1>32. CASE CompactRename
  BY <1>32 DEF CompactRename
<1>33. CASE CompactRenameFails
  BY <1>33 DEF CompactRenameFails
<1>34. CASE CompactDirSync
  BY <1>34 DEF CompactDirSync
<1>35. CASE CommitFull
  BY <1>35 DEF CommitFull, StartCommit
<1>36. CASE CommitIncremental
  BY <1>36 DEF CommitIncremental, StartCommit
<1>37. CASE Compact
  BY <1>37 DEF Compact, StartCommit
<1>38. CASE IntentCreate
  <2>1. archive.gen <= gens'
    BY <1>38, Numbers DEF IntentCreate
  <2>. QED
    BY <1>38, <2>1 DEF IntentCreate, Goto
<1>39. CASE IntentWrite
  BY <1>39 DEF IntentWrite
<1>40. CASE IntentSync
  BY <1>40 DEF IntentSync
<1>41. CASE FullTmp
  BY <1>41 DEF FullTmp
<1>42. CASE FullWrite
  BY <1>42 DEF FullWrite
<1>43. CASE FullSync
  BY <1>43 DEF FullSync
<1>44. CASE FullRename
  <2>1. archive'.gen = gens
    BY <1>44 DEF FullRename, Goto, NewArchive
  <2>. QED
    BY <1>44, <2>1, Numbers DEF FullRename, Goto, bounds
<1>45. CASE FullDirSync
  BY <1>45 DEF FullDirSync
<1>46. CASE IncAppend
  BY <1>46 DEF IncAppend
<1>47. CASE IncWrite
  <2>1. archive'.gen = gens
    BY <1>47 DEF IncWrite, Goto, NewArchive
  <2>. QED
    BY <1>47, <2>1, Numbers DEF IncWrite, Goto, bounds
<1>48. CASE IncSync
  BY <1>48 DEF IncSync
<1>49. CASE CleanVmdirty
  BY <1>49 DEF CleanVmdirty
<1>50. CASE CleanSync
  BY <1>50 DEF CleanSync
<1>51. CASE CleanIntent
  BY <1>51 DEF CleanIntent
<1>52. CASE CommitReturns
  BY <1>52 DEF CommitReturns, EndSession
<1>53. CASE DropMount
  BY <1>53 DEF DropMount, EndSession
<1>54. CASE Crash
  BY <1>54 DEF Crash, EndSession
<1>55. CASE ForeignReplace
  BY <1>55 DEF ForeignReplace
<1>56. CASE UNCHANGED vars
  BY <1>56 DEF vars
<1>. QED
  BY <1>1, <1>2, <1>3, <1>4, <1>5, <1>6, <1>7, <1>8, <1>9, <1>10, <1>11, <1>12,
     <1>13, <1>14, <1>15, <1>16, <1>17, <1>18, <1>19, <1>20, <1>21, <1>22,
     <1>23, <1>24, <1>25, <1>26, <1>27, <1>28, <1>29, <1>30, <1>31, <1>32,
     <1>33, <1>34, <1>35, <1>36, <1>37, <1>38, <1>39, <1>40, <1>41, <1>42,
     <1>43, <1>44, <1>45, <1>46, <1>47, <1>48, <1>49, <1>50, <1>51, <1>52,
     <1>53, <1>54, <1>55, <1>56 DEF Next, Open, Session, Commit

\* What the mount shows always contains what its archive holds.
LEMMA VersionStep ==
  ASSUME TypeOK, CallInv, VersionInv, JournalInv, [Next]_vars
  PROVE  VersionInv'
<1>. USE DEF VersionInv, NoVersion, CommitSteps, SessionSteps, RecoverySteps
<1>. USE DEF Goto, disk, session, history, bounds
<1>1. CASE OpenStart
  BY <1>1 DEF MatchesPost, OpenStart, PrefixIsPre, Readable, Recorded,
     SourceChanged
<1>2. CASE OpenIntent
  BY <1>2 DEF MatchesPost, MatchesPre, OpenIntent, PrefixIsPre, Recorded
<1>3. CASE OpenRemoveIntent
  BY <1>3 DEF OpenRemoveIntent
<1>4. CASE OpenSyncIntent
  BY <1>4 DEF OpenSyncIntent
<1>5. CASE OpenIndex
  BY <1>5 DEF OpenIndex
<1>6. CASE OpenOrphans
  BY <1>6 DEF OpenOrphans
<1>7. CASE OpenDiscard
  BY <1>7 DEF OpenDiscard
<1>8. CASE OpenSyncDiscard
  BY <1>8 DEF OpenSyncDiscard
<1>9. CASE NoJournalToRecover
  BY <1>9 DEF NoJournalToRecover
<1>10. CASE RecoveryAborts
  BY <1>10 DEF Decisions, DefaultDecision, Readable, RecoveryAborts,
     SourceChanged
<1>11. CASE RecoveryDiscards
  BY <1>11 DEF Decisions, DefaultDecision, Readable, RecoveryDiscards,
     SourceChanged
<1>12. CASE RecoverCommitted
  <2>1. vmdirty.src = archive.gen /\ vmdirty.mark # NoVersion
    BY <1>12 DEF RecoverCommitted, Decisions, DefaultDecision, Readable,
       SourceChanged
  <2>2. archive.ver \in includes[vmdirty.mark]
    BY <2>1 DEF JournalInv, JournalOK
  <2>. QED
    BY <1>12, <2>2 DEF RecoverCommitted, Goto, disk, history
<1>13. CASE RecoverAll
  <2>. DEFINE base == IF vmdirty.mark # NoVersion THEN vmdirty.mark ELSE archive.ver
  <2>1. issued' = issued + 1 /\ issued \in Nat /\ live' = issued'
    BY <1>13, Numbers DEF RecoverAll, Issue
  <2>2. base \in 1..issued /\ archive.ver \in includes[base]
    <3>1. vmdirty.src = archive.gen
      BY <1>13 DEF RecoverAll, Decisions, DefaultDecision, Readable,
         SourceChanged
    <3>. QED
      BY <3>1, Numbers DEF JournalInv, JournalOK
  <2>3. /\ \A v \in 1..issued : includes'[v] = includes[v]
        /\ includes'[issued'] = {issued'} \cup includes[base]
    BY <1>13, <2>1 DEF RecoverAll, Issue, TypeOK, Versions
  <2>4. \A v \in 1..issued' : v \in includes'[v]
    BY <2>1, <2>3
  <2>5. archive' = archive
    BY <1>13 DEF RecoverAll, disk, SetHandle
  <2>. QED
    BY <2>1, <2>2, <2>3, <2>4, <2>5
<1>14. CASE OpenBackup
  BY <1>14 DEF OpenBackup
<1>15. CASE OpenCreate
  BY <1>15 DEF OpenCreate
<1>16. CASE OpenHeader
  BY <1>16 DEF OpenHeader
<1>17. CASE OpenRejournal
  BY <1>17 DEF OpenRejournal
<1>18. CASE OpenMark
  BY <1>18 DEF OpenMark
<1>19. CASE OpenClean
  BY <1>19 DEF OpenClean
<1>20. CASE OpenFresh
  BY <1>20 DEF OpenFresh
<1>21. CASE OpenFreshHeader
  BY <1>21 DEF OpenFreshHeader
<1>22. CASE Edit
  <2>1. issued' = issued + 1 /\ issued \in Nat /\ live' = issued'
    BY <1>22, Numbers DEF Edit, Issue
  <2>2. live \in 1..issued /\ archive.ver \in includes[live]
    BY <1>22 DEF Edit, Goto, CallInv
  <2>3. /\ \A v \in 1..issued : includes'[v] = includes[v]
        /\ includes'[issued'] = {issued'} \cup includes[live]
    BY <1>22, <2>1 DEF Edit, Issue, TypeOK, Versions
  <2>4. \A v \in 1..issued' : v \in includes'[v]
    BY <2>1, <2>3
  <2>5. archive' = archive
    BY <1>22 DEF Edit, disk, SetHandle
  <2>. QED
    BY <2>1, <2>2, <2>3, <2>4, <2>5
<1>23. CASE Flush
  BY <1>23 DEF Flush
<1>24. CASE FlushData
  BY <1>24 DEF FlushData, Handle, SetHandle
<1>25. CASE FlushMark
  BY <1>25 DEF FlushMark, Handle, SetHandle
<1>26. CASE CompactJournal
  BY <1>26 DEF CompactJournal
<1>27. CASE CompactCreate
  BY <1>27 DEF CompactCreate
<1>28. CASE CompactHeader
  BY <1>28 DEF CompactHeader
<1>29. CASE CompactRejournal
  BY <1>29 DEF CompactRejournal
<1>30. CASE CompactMark
  BY <1>30 DEF CompactMark
<1>31. CASE CompactFails
  BY <1>31 DEF CompactFails
<1>32. CASE CompactRename
  BY <1>32 DEF CompactRename
<1>33. CASE CompactRenameFails
  BY <1>33 DEF CompactRenameFails
<1>34. CASE CompactDirSync
  BY <1>34 DEF CompactDirSync
<1>35. CASE CommitFull
  BY <1>35 DEF CommitFull, StartCommit
<1>36. CASE CommitIncremental
  BY <1>36 DEF CommitIncremental, StartCommit
<1>37. CASE Compact
  BY <1>37 DEF Compact, StartCommit
<1>38. CASE IntentCreate
  BY <1>38 DEF IntentCreate
<1>39. CASE IntentWrite
  BY <1>39 DEF IntentWrite
<1>40. CASE IntentSync
  BY <1>40 DEF IntentSync
<1>41. CASE FullTmp
  BY <1>41 DEF FullTmp
<1>42. CASE FullWrite
  BY <1>42 DEF FullWrite
<1>43. CASE FullSync
  BY <1>43 DEF FullSync
<1>44. CASE FullRename
  <2>1. archive'.ver = live /\ live \in 1..issued
    BY <1>44 DEF FullRename, Goto, NewArchive, CallInv
  <2>. QED
    BY <1>44, <2>1 DEF FullRename, Goto, session, history
<1>45. CASE FullDirSync
  BY <1>45 DEF FullDirSync
<1>46. CASE IncAppend
  BY <1>46 DEF IncAppend
<1>47. CASE IncWrite
  <2>1. archive'.ver = live /\ live \in 1..issued
    BY <1>47 DEF IncWrite, Goto, NewArchive, CallInv
  <2>. QED
    BY <1>47, <2>1 DEF IncWrite, Goto, session, history
<1>48. CASE IncSync
  BY <1>48 DEF IncSync
<1>49. CASE CleanVmdirty
  BY <1>49 DEF CleanVmdirty
<1>50. CASE CleanSync
  BY <1>50 DEF CleanSync
<1>51. CASE CleanIntent
  BY <1>51 DEF CleanIntent
<1>52. CASE CommitReturns
  BY <1>52 DEF CommitReturns, EndSession
<1>53. CASE DropMount
  BY <1>53 DEF DropMount, EndSession
<1>54. CASE Crash
  BY <1>54 DEF Crash, EndSession
<1>55. CASE ForeignReplace
  <2>1. archive'.ver = issued' /\ issued' = issued + 1 /\ issued \in Nat
    BY <1>55, Numbers DEF ForeignReplace
  <2>2. \A v \in 1..issued' : v \in includes'[v]
    BY <1>55, <2>1 DEF ForeignReplace, TypeOK, Versions
  <2>. QED
    BY <1>55, <2>1, <2>2 DEF ForeignReplace
<1>56. CASE UNCHANGED vars
  BY <1>56 DEF vars
<1>. QED
  BY <1>1, <1>2, <1>3, <1>4, <1>5, <1>6, <1>7, <1>8, <1>9, <1>10, <1>11, <1>12,
     <1>13, <1>14, <1>15, <1>16, <1>17, <1>18, <1>19, <1>20, <1>21, <1>22,
     <1>23, <1>24, <1>25, <1>26, <1>27, <1>28, <1>29, <1>30, <1>31, <1>32,
     <1>33, <1>34, <1>35, <1>36, <1>37, <1>38, <1>39, <1>40, <1>41, <1>42,
     <1>43, <1>44, <1>45, <1>46, <1>47, <1>48, <1>49, <1>50, <1>51, <1>52,
     <1>53, <1>54, <1>55, <1>56 DEF Next, Open, Session, Commit

\* A journal that belongs to the archive beside it extends it.
LEMMA JournalStep ==
  ASSUME TypeOK, CallInv, VersionInv, FreshInv, JournalInv, [Next]_vars
  PROVE  JournalInv'
<1>. USE JournalFields, Numbers DEF TypeOK, JournalInv, JournalOK, NoVersion,
   InstallSteps, disk
<1>. USE DEF Goto, disk, session, history, bounds
<1>1. CASE OpenStart
  BY <1>1 DEF MatchesPost, OpenStart, PrefixIsPre, Readable, Recorded,
     SourceChanged
<1>2. CASE OpenIntent
  BY <1>2 DEF MatchesPost, MatchesPre, OpenIntent, PrefixIsPre, Recorded
<1>3. CASE OpenRemoveIntent
  BY <1>3 DEF OpenRemoveIntent
<1>4. CASE OpenSyncIntent
  BY <1>4 DEF OpenSyncIntent
<1>5. CASE OpenIndex
  BY <1>5 DEF OpenIndex
<1>6. CASE OpenOrphans
  BY <1>6 DEF OpenOrphans
<1>7. CASE OpenDiscard
  BY <1>7 DEF OpenDiscard
<1>8. CASE OpenSyncDiscard
  BY <1>8 DEF OpenSyncDiscard
<1>9. CASE NoJournalToRecover
  BY <1>9 DEF NoJournalToRecover
<1>10. CASE RecoveryAborts
  BY <1>10 DEF Decisions, DefaultDecision, Readable, RecoveryAborts,
     SourceChanged
<1>11. CASE RecoveryDiscards
  BY <1>11 DEF Decisions, DefaultDecision, Readable, RecoveryDiscards,
     SourceChanged
<1>12. CASE RecoverCommitted
  BY <1>12 DEF Decisions, DefaultDecision, Readable, RecoverCommitted,
     SourceChanged
<1>13. CASE RecoverAll
  BY <1>13 DEF Decisions, DefaultDecision, Issue, Readable, RecoverAll,
     SourceChanged
<1>14. CASE OpenBackup
  BY <1>14 DEF OpenBackup
<1>15. CASE OpenCreate
  BY <1>15 DEF OpenCreate
<1>16. CASE OpenHeader
  <2>1. /\ NewJournal(archive.gen).mark = NoVersion
        /\ NewJournal(archive.gen).src = archive.gen
    BY JournalFields
  <2>2. archive.gen <= gens
    BY DEF FreshInv
  <2>. QED
    BY <1>16, <2>1, <2>2 DEF OpenHeader, Goto, history, bounds, session
<1>17. CASE OpenRejournal
  BY <1>17 DEF OpenRejournal
<1>18. CASE OpenMark
  <2>1. live \in 1..issued /\ archive.ver \in includes[live]
    BY <1>18 DEF OpenMark, Goto, CallInv, VersionInv, RecoverySteps
  <2>2. vmdirty'.mark = live /\ vmdirty'.src = vmdirty.src
    BY <1>18, JournalFields DEF OpenMark
  <2>. QED
    BY <1>18, <2>1, <2>2 DEF OpenMark, Goto, history, bounds
<1>19. CASE OpenClean
  BY <1>19 DEF OpenClean
<1>20. CASE OpenFresh
  BY <1>20 DEF OpenFresh
<1>21. CASE OpenFreshHeader
  <2>1. /\ NewJournal(archive.gen).mark = NoVersion
        /\ NewJournal(archive.gen).src = archive.gen
    BY JournalFields
  <2>2. archive.gen <= gens
    BY DEF FreshInv
  <2>. QED
    BY <1>21, <2>1, <2>2 DEF OpenFreshHeader, Goto, history, bounds
<1>22. CASE Edit
  <2>1. /\ vmdirty'.mark = vmdirty.mark /\ vmdirty'.src = vmdirty.src
        /\ compact'.mark = compact.mark /\ compact'.src = compact.src
    <3>. DEFINE v == [vmdirty EXCEPT !.tail = TRUE]
                c == [compact EXCEPT !.tail = TRUE]
    <3>1. v.mark = vmdirty.mark /\ v.src = vmdirty.src
      BY JournalFields
    <3>2. c.mark = compact.mark /\ c.src = compact.src
      BY JournalFields
    <3>3. vmdirty' \in {vmdirty, v} /\ compact' \in {compact, c}
      BY <1>22 DEF Edit, SetHandle, Handle
    <3>. QED
      BY <3>1, <3>2, <3>3
  <2>2. /\ archive' = archive /\ gens' = gens /\ issued' = issued + 1
        /\ pc' \notin {"intent.write"} \cup InstallSteps
    BY <1>22 DEF Edit, Goto, Issue, SetHandle, bounds
  <2>3. \A v \in 1..issued : includes'[v] = includes[v]
    BY <1>22 DEF Edit, Issue, Versions
  <2>4. /\ vmdirty.mark # NoVersion => vmdirty.mark \in 1..issued
        /\ compact.mark # NoVersion => compact.mark \in 1..issued
    BY Numbers
  <2>5. vmdirty.mark <= issued' /\ compact.mark <= issued'
    BY <2>2, Numbers
  <2>. QED
    BY <2>1, <2>2, <2>3, <2>4, <2>5
<1>23. CASE Flush
  BY <1>23 DEF Flush
<1>24. CASE FlushData
  <2>. DEFINE j == [Handle EXCEPT !.tail = @ \/ Dirty]
  <2>1. Handle \in Journals /\ JournalOK(Handle)
    BY DEF Handle
  <2>2. j.mark = Handle.mark /\ j.src = Handle.src
    BY <2>1 DEF Journals
  <2>3. /\ archive' = archive /\ UNCHANGED bounds /\ UNCHANGED history
        /\ vmdirty' \in {vmdirty, j} /\ compact' \in {compact, j}
        /\ pc' \notin {"intent.write"} \cup InstallSteps
    BY <1>24 DEF FlushData, Goto, SetHandle
  <2>. HIDE DEF j
  <2>4. JournalOK(vmdirty)' /\ JournalOK(compact)'
    BY <2>1, <2>2, <2>3 DEF bounds, history
  <2>. QED
    BY <2>4
<1>25. CASE FlushMark
  <2>1. live \in 1..issued /\ archive.ver \in includes[live]
    BY <1>25 DEF FlushMark, Goto, CallInv, VersionInv, SessionSteps
  <2>. DEFINE j == [Handle EXCEPT
                     !.mark = IF Handle.tail \/ @ # NoVersion THEN live ELSE @,
                     !.tail = FALSE]
  <2>2. Handle \in Journals /\ JournalOK(Handle)
    BY DEF Handle
  <2>3. j.mark \in {live, Handle.mark} /\ j.src = Handle.src
    BY <2>2 DEF Journals
  <2>4. /\ archive' = archive /\ gens' = gens /\ issued' = issued /\ includes' = includes
        /\ vmdirty' \in {vmdirty, j} /\ compact' \in {compact, j}
        /\ pc' \notin {"intent.write"} \cup InstallSteps
    BY <1>25 DEF FlushMark, SetHandle, bounds
  <2>. HIDE DEF j
  <2>5. /\ j.mark <= issued /\ j.src <= gens
        /\ j.src = archive.gen /\ j.mark # NoVersion
             => archive.ver \in includes[j.mark]
    BY <2>1, <2>2, <2>3, Numbers
  <2>6. JournalOK(vmdirty)' /\ JournalOK(compact)'
    BY <2>4, <2>5
  <2>. QED
    BY <2>6
<1>26. CASE CompactJournal
  BY <1>26 DEF CompactJournal
<1>27. CASE CompactCreate
  BY <1>27 DEF CompactCreate
<1>28. CASE CompactHeader
  <2>1. /\ NewJournal(archive.gen).mark = NoVersion
        /\ NewJournal(archive.gen).src = archive.gen
    BY JournalFields
  <2>2. archive.gen <= gens
    BY DEF FreshInv
  <2>. QED
    BY <1>28, <2>1, <2>2 DEF CompactHeader, Goto, history, bounds, session
<1>29. CASE CompactRejournal
  BY <1>29 DEF CompactRejournal
<1>30. CASE CompactMark
  <2>1. live \in 1..issued /\ archive.ver \in includes[live]
    BY <1>30 DEF CompactMark, Goto, CallInv, VersionInv, SessionSteps
  <2>2. compact'.mark \in {live, NoVersion} /\ compact'.src = compact.src
    BY <1>30, JournalFields DEF CompactMark
  <2>. QED
    BY <1>30, <2>1, <2>2 DEF CompactMark, Goto, session, history, bounds
<1>31. CASE CompactFails
  BY <1>31 DEF CompactFails
<1>32. CASE CompactRename
  BY <1>32 DEF CompactRename
<1>33. CASE CompactRenameFails
  BY <1>33 DEF CompactRenameFails
<1>34. CASE CompactDirSync
  BY <1>34 DEF CompactDirSync
<1>35. CASE CommitFull
  BY <1>35 DEF CommitFull, StartCommit
<1>36. CASE CommitIncremental
  BY <1>36 DEF CommitIncremental, StartCommit
<1>37. CASE Compact
  BY <1>37 DEF Compact, StartCommit
<1>38. CASE IntentCreate
  BY <1>38 DEF IntentCreate
<1>39. CASE IntentWrite
  BY <1>39 DEF IntentWrite
<1>40. CASE IntentSync
  BY <1>40 DEF IntentSync
<1>41. CASE FullTmp
  BY <1>41 DEF FullTmp
<1>42. CASE FullWrite
  BY <1>42 DEF FullWrite
<1>43. CASE FullSync
  BY <1>43 DEF FullSync
<1>44. CASE FullRename
  <2>1. archive'.gen = intent.post /\ intent.post = gens
    BY <1>44 DEF FullRename, Goto, FreshInv, NewArchive
  <2>2. vmdirty.src < gens /\ compact.src < gens
    BY <1>44 DEF FullRename, Goto
  <2>. QED
    BY <1>44, <2>1, <2>2 DEF FullRename, Goto, session, bounds, history
<1>45. CASE FullDirSync
  BY <1>45 DEF FullDirSync
<1>46. CASE IncAppend
  BY <1>46 DEF IncAppend
<1>47. CASE IncWrite
  <2>1. archive'.gen = intent.post /\ intent.post = gens
    BY <1>47 DEF IncWrite, Goto, FreshInv, NewArchive
  <2>2. vmdirty.src < gens /\ compact.src < gens
    BY <1>47 DEF IncWrite, Goto
  <2>. QED
    BY <1>47, <2>1, <2>2 DEF IncWrite, Goto, session, bounds, history
<1>48. CASE IncSync
  BY <1>48 DEF IncSync
<1>49. CASE CleanVmdirty
  BY <1>49 DEF CleanVmdirty
<1>50. CASE CleanSync
  BY <1>50 DEF CleanSync
<1>51. CASE CleanIntent
  BY <1>51 DEF CleanIntent
<1>52. CASE CommitReturns
  BY <1>52 DEF CommitReturns, EndSession
<1>53. CASE DropMount
  BY <1>53 DEF DropMount, EndSession
<1>54. CASE Crash
  BY <1>54 DEF Crash, EndSession
<1>55. CASE ForeignReplace
  BY <1>55 DEF ForeignReplace
<1>56. CASE UNCHANGED vars
  BY <1>56 DEF vars
<1>. QED
  BY <1>1, <1>2, <1>3, <1>4, <1>5, <1>6, <1>7, <1>8, <1>9, <1>10, <1>11, <1>12,
     <1>13, <1>14, <1>15, <1>16, <1>17, <1>18, <1>19, <1>20, <1>21, <1>22,
     <1>23, <1>24, <1>25, <1>26, <1>27, <1>28, <1>29, <1>30, <1>31, <1>32,
     <1>33, <1>34, <1>35, <1>36, <1>37, <1>38, <1>39, <1>40, <1>41, <1>42,
     <1>43, <1>44, <1>45, <1>46, <1>47, <1>48, <1>49, <1>50, <1>51, <1>52,
     <1>53, <1>54, <1>55, <1>56 DEF Next, Open, Session, Commit

\* The invariant holds when the archive has just been made and was never opened.
LEMMA InitInv == Init => IndInv
<1>. SUFFICES ASSUME Init PROVE IndInv
  OBVIOUS
<1>1. 1 \in Versions
  BY LifecycleAssumption DEF Versions
<1>2. NoJournal \in Journals /\ NoIntent \in Intents
  BY JournalTypes, IntentTypes
<1>3. NoVersion \in 0..MaxVersion
  BY VersionTypes
<1>4. TypeOK
  <2>1. archive \in Archives
    BY <1>1, ArchiveTypes DEF Init
  <2>2. includes \in [Versions -> SUBSET Nat]
    BY DEF Init
  <2>3. live \in 0..MaxVersion /\ target \in Nat /\ issued \in Versions
    BY <1>1, <1>3, VersionTypes DEF Init
  <2>. QED
    BY <1>2, <2>1, <2>2, <2>3 DEF Init, TypeOK
<1>5. CallInv /\ IntentInv /\ TornIsRepairable
  BY DEF Init, CallInv, IntentInv, TornIsRepairable, CommitSteps, SessionSteps,
         RecoverySteps
<1>6. VersionInv /\ FreshInv
  BY <1>1 DEF Init, VersionInv, FreshInv, RecoverySteps, SessionSteps, CommitSteps,
              InstallSteps
<1>7. JournalInv
  BY JournalFields DEF Init, JournalInv, JournalOK, NoVersion, InstallSteps
<1>. QED
  BY <1>4, <1>5, <1>6, <1>7 DEF IndInv

\* IndInv holds in every state of every behaviour: through opens, recoveries,
\* flushes, journal compactions, commits, failures, crashes between any two of
\* their steps, and replacements of the archive.
THEOREM Invariant == Spec => []IndInv
<1>1. Init => IndInv
  BY InitInv
<1>2. IndInv /\ [Next]_vars => IndInv'
  BY TypeStep, CallStep, IntentStep, FreshStep, VersionStep, JournalStep
     DEF IndInv
<1>. QED
  BY <1>1, <1>2, PTL DEF Spec

\* Every variable keeps its type; in particular a commit never installs an
\* archive without a version (NewArchive).
THEOREM TypeCorrect == Spec => []TypeOK
BY Invariant, PTL DEF IndInv

\* An archive with an unfinished INCREMENTAL append always has the intent that
\* tells open how to truncate it, whatever crashed, failed or was replaced
\* (prefix_is_pre and the truncation in open_with_recovery).
THEOREM TornRepairable == Spec => []TornIsRepairable
BY Invariant, PTL DEF IndInv

\* A mount never shows less than the archive under it: a journal written over an
\* older archive is never replayed over a newer one (vmdirty_source_changed, the
\* Discard after a matched commit, and finish_commit_cleanup).
THEOREM NoStaleReplay == Spec => []LiveExtendsArchive
<1>1. IndInv => LiveExtendsArchive
  BY DEF IndInv, VersionInv, LiveExtendsArchive
<1>. QED
  BY <1>1, Invariant, PTL

-----------------------------------------------------------------------------
(* The inductive invariant. *)

CleanSteps == {"full.dirsync", "inc.sync", "clean.vmdirty", "clean.sync",
               "clean.intent", "clean.syncintent"}
ReplaceSteps == {"open.create", "open.header", "open.rejournal", "open.mark"}

\* Between the install and the clean-up of a commit, or of the open after it,
\* and nowhere else, does the archive look like what the intent announced.
PostInv ==
  /\ Recorded => intent.pre < intent.post /\ intent.post <= gens
  /\ pc \in InstallSteps => Recorded
  /\ pc \in {"intent.write"} \cup InstallSteps => archive.gen < gens
  /\ MatchesPost => pc \in {"closed", "open.intent", "open.rmintent"} \cup CleanSteps
  /\ pc \in CleanSteps \ {"clean.syncintent"} => MatchesPost
  /\ MatchesPost /\ pc = "open.rmintent" => discard
  /\ discard => pc \in OpenSteps \ {"open.intent"}

\* The last marker of j is for the version that the mount shows.
Covers(j) == j.mark = live \/ (j.mark = NoVersion /\ ~Dirty)

\* The journal a session appends to is that of the archive beside it.
HandleInv ==
  /\ tier2 = "temp" => CompactMayFail
  /\ pc \in {"closed"} \cup OpenSteps => tier2 = "none"
  /\ pc \in SessionSteps \ {"idle"} => tier2 # "none"
  /\ pc \in SessionSteps /\ tier2 = "main" => Readable
  /\ pc \in {"open.bak", "open.rejournal", "open.mark"} => Readable
  /\ pc \in ReplaceSteps => vmdirty.mark = NoVersion
  /\ pc = "flush.mark" /\ tier2 = "main" /\ ~vmdirty.tail => ~Dirty
  /\ pc \in {"cj.rejournal", "cj.mark", "cj.rename"} =>
       compact.state = "ready" /\ compact.src = archive.gen
  /\ pc = "cj.mark" /\ ~compact.tail => ~Dirty
  /\ pc = "cj.rename" => Covers(compact)
  /\ pc = "cj.dirsync" => Covers(vmdirty)
  /\ pc \in CleanSteps => archive.ver = live /\ ~Readable

Promising(v) == promised \in includes[v]

\* A promise that only a journal kept by a recovery holds: where open may be cut
\* short, it may have been the last thing that the recovery did.
Backed == \E v \in baks : v # NoVersion /\ Promising(v)
Lost   == CrashDuringOpen /\ Backed

\* The promise is kept by the archive, by what the mount shows, by what the next
\* open will show if no commit is to be resolved.
ArchiveKeeps == Promising(archive.ver) \/ Lost
LiveKeeps    == Promising(live) \/ Lost
JournalKeeps == IF Readable /\ vmdirty.mark # NoVersion
                THEN Promising(vmdirty.mark) \/ Lost ELSE ArchiveKeeps

\* What was promised is in the journal that the next open will replay, or in the
\* archive when there is none to replay.
PromiseInv ==
  /\ baks \subseteq 0..issued
  /\ pc \in ReplaceSteps => Backed \/ Promising(archive.ver)
  /\ pc \in RecoverySteps \cup SessionSteps \cup CommitSteps => LiveKeeps
  /\ MatchesPost \/ discard \/ pc \in {"open.fresh", "open.freshheader"} => ArchiveKeeps
  /\ pc \notin ReplaceSteps => JournalKeeps

\* No own journal is left beside an archive it was not written over, but where
\* the intent, or the open that read it, says that it will be discarded.
OwnInv ==
  /\ vmdirty.state = "bare" => pc \in {"open.header", "open.freshheader"}
  /\ vmdirty.state = "ready" /\ SourceChanged /\ foreign = 0 =>
       \/ MatchesPost
       \/ discard /\ pc \in {"open.syncintent", "open.index", "open.orphans", "open.discard"}
  /\ pc \in {"clean.sync", "clean.intent", "clean.syncintent"} => vmdirty.state = "absent"

\* The version of the archive or of the journal beside it.
JournalShows ==
  IF vmdirty.state = "absent" THEN archive.ver
  ELSE IF ~Readable THEN NoVersion
  ELSE IF vmdirty.mark # NoVersion THEN vmdirty.mark ELSE archive.ver

Shows == IF MatchesPost \/ discard THEN archive.ver ELSE JournalShows

\* An open knows from its first step on what it will show.
TargetInv ==
  /\ pc \in {"open.intent", "open.rmintent", "open.syncintent", "open.index",
             "open.orphans", "open.discard", "open.syncdiscard", "open.recover"}
       => target = Shows
  /\ pc \in RecoverySteps => target = live
  /\ pc \in {"open.fresh", "open.freshheader"} => target = archive.ver
  /\ pc \in {"open.syncdiscard", "open.fresh"} \/ (discard /\ pc = "open.recover") =>
       vmdirty.state = "absent"

-----------------------------------------------------------------------------
(* The fields of what the steps write. *)

\* The states and the unfinished tails of the journals that the steps write.
LEMMA JournalStates ==
  /\ NoJournal.state = "absent" /\ BareJournal.state = "bare"
  /\ ~NoJournal.tail
  /\ \A src : NewJournal(src).state = "ready" /\ ~NewJournal(src).tail
  /\ \A j \in Journals : \A b :
       LET k == [j EXCEPT !.tail = b] IN k.state = j.state /\ k.tail = b
  /\ \A j \in Journals : \A m, b :
       /\ LET k == [j EXCEPT !.mark = m, !.tail = b] IN k.state = j.state /\ k.tail = b
       /\ LET k == [j EXCEPT !.tail = b, !.mark = m] IN k.state = j.state /\ k.tail = b
BY DEF NoJournal, BareJournal, NewJournal, Journals

\* The kinds and the fingerprints of the intents that the steps write.
LEMMA IntentFields ==
  /\ NoIntent.kind = "absent"
  /\ [NoIntent EXCEPT !.kind = "torn"].kind = "torn"
BY DEF NoIntent

-----------------------------------------------------------------------------
(* The steps. *)

\* Only an install makes the archive what an intent announced, and what open
\* finds to be that is discarded before the mount is shown.
LEMMA PostStep ==
  ASSUME TypeOK, CallInv, IntentInv, FreshInv, PostInv, TornIsRepairable, [Next]_vars
  PROVE  PostInv'
<1>. USE Numbers, IntentTypes, IntentFields DEF TypeOK, PostInv, MatchesPost, Recorded,
   CleanSteps, InstallSteps, OpenSteps
<1>. USE DEF Goto, disk, session, history, bounds
<1>1. CASE OpenStart
  BY <1>1 DEF OpenStart
<1>2. CASE OpenIntent
  <2>1. archive'.gen = archive.gen /\ (archive'.torn <=> archive.torn /\ ~PrefixIsPre)
    BY <1>2, ArchiveTypes DEF OpenIntent, Archives
  <2>2. UNCHANGED <<intent, gens>> /\ (MatchesPost' <=> MatchesPost)
    BY <1>2, <2>1 DEF OpenIntent, PrefixIsPre
  <2>3. MatchesPost => pc' = "open.rmintent" /\ discard'
    BY <1>2 DEF OpenIntent
  <2>4. pc' \in {"open.rmintent", "open.index"}
    BY <1>2 DEF OpenIntent
  <2>. HIDE DEF MatchesPost
  <2>. QED
    BY <2>1, <2>2, <2>3, <2>4
<1>3. CASE OpenRemoveIntent
  BY <1>3 DEF OpenRemoveIntent
<1>4. CASE OpenSyncIntent
  BY <1>4 DEF OpenSyncIntent
<1>5. CASE OpenIndex
  BY <1>5 DEF OpenIndex
<1>6. CASE OpenOrphans
  BY <1>6 DEF OpenOrphans
<1>7. CASE OpenDiscard
  BY <1>7 DEF OpenDiscard
<1>8. CASE OpenSyncDiscard
  BY <1>8 DEF OpenSyncDiscard
<1>9. CASE NoJournalToRecover
  BY <1>9 DEF NoJournalToRecover
<1>10. CASE RecoveryAborts
  BY <1>10 DEF Decisions, DefaultDecision, RecoveryAborts
<1>11. CASE RecoveryDiscards
  BY <1>11 DEF Decisions, DefaultDecision, RecoveryDiscards
<1>12. CASE RecoverCommitted
  BY <1>12 DEF Decisions, DefaultDecision, RecoverCommitted
<1>13. CASE RecoverAll
  BY <1>13 DEF Decisions, DefaultDecision, Issue, RecoverAll
<1>14. CASE OpenBackup
  BY <1>14 DEF OpenBackup
<1>15. CASE OpenCreate
  BY <1>15 DEF OpenCreate
<1>16. CASE OpenHeader
  BY <1>16 DEF OpenHeader
<1>17. CASE OpenRejournal
  BY <1>17 DEF OpenRejournal
<1>18. CASE OpenMark
  BY <1>18 DEF OpenMark
<1>19. CASE OpenClean
  BY <1>19 DEF OpenClean
<1>20. CASE OpenFresh
  BY <1>20 DEF OpenFresh
<1>21. CASE OpenFreshHeader
  BY <1>21 DEF OpenFreshHeader
<1>22. CASE Edit
  BY <1>22 DEF Edit, Handle, Issue, SetHandle
<1>23. CASE Flush
  BY <1>23 DEF Flush
<1>24. CASE FlushData
  BY <1>24 DEF FlushData, Handle, SetHandle
<1>25. CASE FlushMark
  BY <1>25 DEF FlushMark, Handle, SetHandle
<1>26. CASE CompactJournal
  BY <1>26 DEF CompactJournal
<1>27. CASE CompactCreate
  BY <1>27 DEF CompactCreate
<1>28. CASE CompactHeader
  BY <1>28 DEF CompactHeader
<1>29. CASE CompactRejournal
  BY <1>29 DEF CompactRejournal
<1>30. CASE CompactMark
  BY <1>30 DEF CompactMark
<1>31. CASE CompactFails
  BY <1>31 DEF CompactFails
<1>32. CASE CompactRename
  BY <1>32 DEF CompactRename
<1>33. CASE CompactRenameFails
  BY <1>33 DEF CompactRenameFails
<1>34. CASE CompactDirSync
  BY <1>34 DEF CompactDirSync
<1>35. CASE CommitFull
  BY <1>35 DEF CommitFull, StartCommit
<1>36. CASE CommitIncremental
  BY <1>36 DEF CommitIncremental, StartCommit
<1>37. CASE Compact
  BY <1>37 DEF Compact, StartCommit
<1>38. CASE IntentCreate
  <2>1. intent'.kind = "torn" /\ UNCHANGED <<archive, discard>> /\ pc' = "intent.write"
    BY <1>38 DEF IntentCreate
  <2>2. archive.gen < gens' /\ ~discard
    BY <1>38 DEF IntentCreate, FreshInv
  <2>. QED
    BY <2>1, <2>2
<1>39. CASE IntentWrite
  <2>1. /\ intent'.kind = op /\ intent'.pre = archive.gen /\ intent'.post = gens
        /\ op \in {"full", "incremental"}
    BY <1>39 DEF IntentWrite, CallInv, CommitSteps
  <2>2. UNCHANGED <<archive, discard, gens>> /\ pc' = "intent.sync"
    BY <1>39 DEF IntentWrite
  <2>3. archive.gen < gens /\ ~discard
    BY <1>39 DEF IntentWrite
  <2>. QED
    BY <2>1, <2>2, <2>3
<1>40. CASE IntentSync
  BY <1>40 DEF IntentSync
<1>41. CASE FullTmp
  BY <1>41 DEF FullTmp
<1>42. CASE FullWrite
  BY <1>42 DEF FullWrite
<1>43. CASE FullSync
  BY <1>43 DEF FullSync
<1>44. CASE FullRename
  BY <1>44 DEF FullRename, NewArchive
<1>45. CASE FullDirSync
  BY <1>45 DEF FullDirSync
<1>46. CASE IncAppend
  BY <1>46 DEF IncAppend
<1>47. CASE IncWrite
  BY <1>47 DEF IncWrite, NewArchive
<1>48. CASE IncSync
  BY <1>48 DEF IncSync
<1>49. CASE CleanVmdirty
  BY <1>49 DEF CleanVmdirty
<1>50. CASE CleanSync
  BY <1>50 DEF CleanSync
<1>51. CASE CleanIntent
  BY <1>51 DEF CleanIntent
<1>52. CASE CommitReturns
  BY <1>52 DEF CommitReturns, EndSession
<1>53. CASE DropMount
  BY <1>53 DEF DropMount, EndSession
<1>54. CASE Crash
  BY <1>54 DEF Crash, EndSession
<1>55. CASE ForeignReplace
  BY <1>55 DEF ForeignReplace
<1>56. CASE UNCHANGED vars
  BY <1>56 DEF vars
<1>. QED
  BY <1>1, <1>2, <1>3, <1>4, <1>5, <1>6, <1>7, <1>8, <1>9, <1>10, <1>11, <1>12,
     <1>13, <1>14, <1>15, <1>16, <1>17, <1>18, <1>19, <1>20, <1>21, <1>22, <1>23,
     <1>24, <1>25, <1>26, <1>27, <1>28, <1>29, <1>30, <1>31, <1>32, <1>33, <1>34,
     <1>35, <1>36, <1>37, <1>38, <1>39, <1>40, <1>41, <1>42, <1>43, <1>44, <1>45,
     <1>46, <1>47, <1>48, <1>49, <1>50, <1>51, <1>52, <1>53, <1>54, <1>55, <1>56 DEF Next, Open, Session, Commit

\* A session writes to the journal of the archive beside it, whatever it flushed,
\* compacted or failed to compact before.
LEMMA HandleStep ==
  ASSUME TypeOK, CallInv, FreshInv, JournalInv, PostInv, HandleInv, [Next]_vars
  PROVE  HandleInv'
<1>. USE Numbers, JournalFields, JournalStates DEF TypeOK, HandleInv, Covers, Dirty,
   Readable, SourceChanged, SessionSteps, OpenSteps, CleanSteps, ReplaceSteps, NoVersion
<1>. USE DEF Goto, disk, session, history, bounds
<1>1. CASE OpenStart
  BY <1>1 DEF OpenStart
<1>2. CASE OpenIntent
  BY <1>2 DEF OpenIntent
<1>3. CASE OpenRemoveIntent
  BY <1>3 DEF OpenRemoveIntent
<1>4. CASE OpenSyncIntent
  BY <1>4 DEF OpenSyncIntent
<1>5. CASE OpenIndex
  BY <1>5 DEF OpenIndex
<1>6. CASE OpenOrphans
  BY <1>6 DEF OpenOrphans
<1>7. CASE OpenDiscard
  BY <1>7 DEF OpenDiscard
<1>8. CASE OpenSyncDiscard
  BY <1>8 DEF OpenSyncDiscard
<1>9. CASE NoJournalToRecover
  BY <1>9 DEF NoJournalToRecover
<1>10. CASE RecoveryAborts
  BY <1>10 DEF Decisions, DefaultDecision, RecoveryAborts
<1>11. CASE RecoveryDiscards
  BY <1>11 DEF Decisions, DefaultDecision, RecoveryDiscards
<1>12. CASE RecoverCommitted
  BY <1>12 DEF Decisions, DefaultDecision, RecoverCommitted
<1>13. CASE RecoverAll
  BY <1>13 DEF Decisions, DefaultDecision, Issue, RecoverAll
<1>14. CASE OpenBackup
  BY <1>14 DEF OpenBackup
<1>15. CASE OpenCreate
  BY <1>15 DEF OpenCreate
<1>16. CASE OpenHeader
  BY <1>16 DEF OpenHeader
<1>17. CASE OpenRejournal
  BY <1>17 DEF OpenRejournal
<1>18. CASE OpenMark
  BY <1>18 DEF OpenMark
<1>19. CASE OpenClean
  BY <1>19 DEF OpenClean
<1>20. CASE OpenFresh
  BY <1>20 DEF OpenFresh
<1>21. CASE OpenFreshHeader
  BY <1>21 DEF OpenFreshHeader
<1>22. CASE Edit
  <2>1. UNCHANGED <<archive, tier2>> /\ pc = "idle" /\ pc' = "idle"
    BY <1>22 DEF Edit, SetHandle
  <2>2. vmdirty' \in {vmdirty, [vmdirty EXCEPT !.tail = TRUE]}
    BY <1>22 DEF Edit, Handle, SetHandle
  <2>3. vmdirty'.state = vmdirty.state /\ vmdirty'.src = vmdirty.src
    BY <2>2 DEF Journals
  <2>. QED
    BY <2>1, <2>3
<1>23. CASE Flush
  BY <1>23 DEF Flush
<1>24. CASE FlushData
  <2>1. /\ UNCHANGED <<archive, tier2, live, compact>> \/ tier2 = "temp"
        /\ UNCHANGED <<archive, tier2, live>> /\ pc = "flush.data" /\ pc' = "flush.mark"
    BY <1>24 DEF FlushData, SetHandle
  <2>. DEFINE j == [vmdirty EXCEPT !.tail = @ \/ Dirty]
  <2>2. j.state = vmdirty.state /\ j.src = vmdirty.src /\ (j.tail <=> vmdirty.tail \/ Dirty)
    BY DEF Journals
  <2>3. IF tier2 = "temp" THEN vmdirty' = vmdirty ELSE vmdirty' = j
    BY <1>24 DEF FlushData, Handle, SetHandle
  <2>. HIDE DEF j
  <2>. QED
    BY <2>1, <2>2, <2>3
<1>25. CASE FlushMark
  <2>1. /\ UNCHANGED <<archive, tier2, live>> /\ pc = "flush.mark"
        /\ pc' \in {"idle", "cj.create", "intent.create"}
    BY <1>25 DEF FlushMark, SetHandle
  <2>. DEFINE m == IF Handle.tail \/ Handle.mark # NoVersion THEN live ELSE Handle.mark
              j == [Handle EXCEPT !.mark = m, !.tail = FALSE]
  <2>2. Handle \in Journals /\ (tier2 # "temp" => Handle = vmdirty)
    BY DEF Handle
  <2>3. j.state = Handle.state /\ j.src = Handle.src
    BY <2>2 DEF Journals
  <2>4. IF tier2 = "temp" THEN vmdirty' = vmdirty ELSE vmdirty' = j
    BY <1>25 DEF FlushMark, SetHandle
  <2>. HIDE DEF j
  <2>. QED
    BY <2>1, <2>2, <2>3, <2>4
<1>26. CASE CompactJournal
  BY <1>26 DEF CompactJournal
<1>27. CASE CompactCreate
  BY <1>27 DEF CompactCreate
<1>28. CASE CompactHeader
  BY <1>28 DEF CompactHeader
<1>29. CASE CompactRejournal
  <2>1. /\ UNCHANGED <<archive, tier2, live, vmdirty>>
        /\ pc = "cj.rejournal" /\ pc' = "cj.mark"
    BY <1>29 DEF CompactRejournal
  <2>2. /\ compact'.state = compact.state /\ compact'.src = compact.src
        /\ compact'.tail <=> Dirty
    BY <1>29 DEF CompactRejournal, Journals
  <2>. QED
    BY <2>1, <2>2
<1>30. CASE CompactMark
  BY <1>30 DEF CompactMark
<1>31. CASE CompactFails
  BY <1>31 DEF CompactFails
<1>32. CASE CompactRename
  BY <1>32 DEF CompactRename
<1>33. CASE CompactRenameFails
  BY <1>33 DEF CompactRenameFails
<1>34. CASE CompactDirSync
  BY <1>34 DEF CompactDirSync
<1>35. CASE CommitFull
  BY <1>35 DEF CommitFull, StartCommit
<1>36. CASE CommitIncremental
  BY <1>36 DEF CommitIncremental, StartCommit
<1>37. CASE Compact
  BY <1>37 DEF Compact, StartCommit
<1>38. CASE IntentCreate
  BY <1>38 DEF IntentCreate
<1>39. CASE IntentWrite
  BY <1>39 DEF IntentWrite
<1>40. CASE IntentSync
  BY <1>40 DEF IntentSync
<1>41. CASE FullTmp
  BY <1>41 DEF FullTmp
<1>42. CASE FullWrite
  BY <1>42 DEF FullWrite
<1>43. CASE FullSync
  BY <1>43 DEF FullSync
<1>44. CASE FullRename
  <2>1. archive'.gen = gens /\ archive'.ver = live
    BY <1>44 DEF FullRename, NewArchive, FreshInv, InstallSteps
  <2>2. vmdirty.src < gens
    BY <1>44 DEF FullRename, JournalInv, JournalOK, InstallSteps
  <2>3. UNCHANGED <<vmdirty, live, tier2>> /\ pc' \in {"full.dirsync", "inc.sync"}
    BY <1>44 DEF FullRename
  <2>. QED
    BY <2>1, <2>2, <2>3
<1>45. CASE FullDirSync
  BY <1>45 DEF FullDirSync
<1>46. CASE IncAppend
  BY <1>46 DEF IncAppend
<1>47. CASE IncWrite
  <2>1. archive'.gen = gens /\ archive'.ver = live
    BY <1>47 DEF IncWrite, NewArchive, FreshInv, InstallSteps
  <2>2. vmdirty.src < gens
    BY <1>47 DEF IncWrite, JournalInv, JournalOK, InstallSteps
  <2>3. UNCHANGED <<vmdirty, live, tier2>> /\ pc' \in {"full.dirsync", "inc.sync"}
    BY <1>47 DEF IncWrite
  <2>. QED
    BY <2>1, <2>2, <2>3
<1>48. CASE IncSync
  BY <1>48 DEF IncSync
<1>49. CASE CleanVmdirty
  BY <1>49 DEF CleanVmdirty
<1>50. CASE CleanSync
  BY <1>50 DEF CleanSync
<1>51. CASE CleanIntent
  BY <1>51 DEF CleanIntent
<1>52. CASE CommitReturns
  BY <1>52 DEF CommitReturns, EndSession
<1>53. CASE DropMount
  BY <1>53 DEF DropMount, EndSession
<1>54. CASE Crash
  BY <1>54 DEF Crash, EndSession
<1>55. CASE ForeignReplace
  BY <1>55 DEF ForeignReplace
<1>56. CASE UNCHANGED vars
  BY <1>56 DEF vars
<1>. QED
  BY <1>1, <1>2, <1>3, <1>4, <1>5, <1>6, <1>7, <1>8, <1>9, <1>10, <1>11, <1>12,
     <1>13, <1>14, <1>15, <1>16, <1>17, <1>18, <1>19, <1>20, <1>21, <1>22, <1>23,
     <1>24, <1>25, <1>26, <1>27, <1>28, <1>29, <1>30, <1>31, <1>32, <1>33, <1>34,
     <1>35, <1>36, <1>37, <1>38, <1>39, <1>40, <1>41, <1>42, <1>43, <1>44, <1>45,
     <1>46, <1>47, <1>48, <1>49, <1>50, <1>51, <1>52, <1>53, <1>54, <1>55, <1>56 DEF Next, Open, Session, Commit

\* A promise in a kept journal stays there.
LEMMA BackedStays ==
  /\ issued \in Nat /\ baks \subseteq 0..issued /\ baks \subseteq baks'
  /\ promised' = promised /\ \A v \in 1..issued : includes'[v] = includes[v]
  => (Backed => Backed') /\ (Lost => Lost')
<1>. SUFFICES ASSUME issued \in Nat, baks \subseteq 0..issued, baks \subseteq baks',
                     promised' = promised, \A v \in 1..issued : includes'[v] = includes[v]
              PROVE  Backed => Backed'
  BY DEF Lost
<1>1. ASSUME NEW v \in baks, v # NoVersion PROVE v \in 1..issued
  BY <1>1 DEF NoVersion
<1>. QED
  BY <1>1 DEF Backed, Promising

\* What flush, compact_journal and the commits promise reaches the journal or the
\* archive before they return, and an open moves it to the next journal before it
\* deletes the old one.
LEMMA PromiseStep ==
  ASSUME TypeOK, CallInv, VersionInv, FreshInv, JournalInv, PostInv, HandleInv,
         PromiseInv, ~CompactMayFail, [Next]_vars
  PROVE  PromiseInv'
<1>. USE Numbers, JournalFields, JournalStates DEF TypeOK, PromiseInv,
   SessionSteps, CommitSteps, RecoverySteps, ReplaceSteps, OpenSteps, NoVersion
<1>. USE DEF Goto, disk, session, history, bounds
<1>0. /\ issued \in Nat /\ baks \subseteq 0..issued
      /\ archive.ver \in 1..issued /\ \A v \in 1..issued : v \in includes[v]
  BY DEF VersionInv
<1>a. UNCHANGED <<includes, promised, baks>> => (Backed' <=> Backed) /\ (Lost' <=> Lost)
  BY DEF Backed, Lost, Promising
<1>b. UNCHANGED <<includes, promised, baks>> =>
        /\ archive'.ver = archive.ver => (ArchiveKeeps' <=> ArchiveKeeps)
        /\ live' = live => (LiveKeeps' <=> LiveKeeps)
        /\ /\ archive'.ver = archive.ver /\ archive'.gen = archive.gen
           /\ vmdirty'.state = vmdirty.state /\ vmdirty'.src = vmdirty.src
           /\ vmdirty'.mark = vmdirty.mark
           => (JournalKeeps' <=> JournalKeeps)
        /\ archive'.ver = archive.ver /\ vmdirty'.state # "ready" =>
             (JournalKeeps' <=> ArchiveKeeps)
        /\ archive'.ver = archive.ver /\ vmdirty'.mark = NoVersion =>
             (JournalKeeps' <=> ArchiveKeeps)
  BY <1>a DEF ArchiveKeeps, LiveKeeps, JournalKeeps, Promising, Readable, SourceChanged
<1>e. JournalKeeps /\ vmdirty.state # "ready" => ArchiveKeeps
  BY DEF JournalKeeps, Readable
<1>c. UNCHANGED <<archive, intent>> => (MatchesPost' <=> MatchesPost)
  BY DEF MatchesPost, Recorded
<1>d. UNCHANGED <<includes, promised, archive>> =>
        (Promising(archive.ver)' <=> Promising(archive.ver))
  BY DEF Promising
<1>. USE <1>a, <1>b, <1>c, <1>d, <1>e
<1>1. CASE OpenStart
  BY <1>1 DEF OpenStart
<1>2. CASE OpenIntent
  <2>1. /\ archive'.gen = archive.gen /\ archive'.ver = archive.ver
        /\ archive'.torn <=> archive.torn /\ ~PrefixIsPre
    BY <1>2, ArchiveTypes DEF OpenIntent, Archives
  <2>2. MatchesPost' <=> MatchesPost
    BY <1>2, <2>1 DEF OpenIntent, PrefixIsPre, PostInv, MatchesPost, Recorded
  <2>. QED
    BY <1>2, <2>1, <2>2 DEF OpenIntent
<1>3. CASE OpenRemoveIntent
  <2>1. MatchesPost' => MatchesPost
    BY <1>3, IntentFields DEF OpenRemoveIntent, MatchesPost, Recorded
  <2>. QED
    BY <1>3, <2>1 DEF OpenRemoveIntent
<1>4. CASE OpenSyncIntent
  BY <1>4 DEF OpenSyncIntent
<1>5. CASE OpenIndex
  BY <1>5 DEF OpenIndex
<1>6. CASE OpenOrphans
  BY <1>6 DEF OpenOrphans
<1>7. CASE OpenDiscard
  <2>1. CASE discard /\ vmdirty.state # "absent"
    BY <1>7, <2>1 DEF OpenDiscard
  <2>2. CASE ~(discard /\ vmdirty.state # "absent")
    BY <1>7, <2>2 DEF OpenDiscard
  <2>. QED
    BY <2>1, <2>2
<1>8. CASE OpenSyncDiscard
  BY <1>8 DEF OpenSyncDiscard
<1>9. CASE NoJournalToRecover
  BY <1>9 DEF NoJournalToRecover
<1>10. CASE RecoveryAborts
  BY <1>10 DEF Decisions, DefaultDecision, RecoveryAborts
<1>11. CASE RecoveryDiscards
  <2>1. promised' = archive.ver /\ UNCHANGED <<archive, intent, baks, includes, issued>>
    BY <1>11 DEF RecoveryDiscards
  <2>2. ArchiveKeeps'
    BY <2>1, <1>0 DEF ArchiveKeeps, Promising
  <2>3. JournalKeeps'
    BY <1>11, <2>2 DEF RecoveryDiscards, JournalKeeps, Readable
  <2>. QED
    BY <1>11, <2>1, <2>2, <2>3 DEF RecoveryDiscards
<1>12. CASE RecoverCommitted
  <2>1. Readable /\ vmdirty.mark # NoVersion
    BY <1>12 DEF RecoverCommitted, Decisions, DefaultDecision
  <2>2. LiveKeeps'
    BY <1>12, <2>1 DEF RecoverCommitted, JournalKeeps, LiveKeeps, Promising
  <2>. QED
    BY <1>12, <2>2 DEF RecoverCommitted
<1>13. CASE RecoverAll
  <2>. DEFINE base == IF vmdirty.mark # NoVersion THEN vmdirty.mark ELSE archive.ver
  <2>1. /\ issued' = issued + 1 /\ live' = issued' /\ issued' \in Versions
        /\ includes' = [includes EXCEPT ![issued'] = {issued'} \cup includes[base]]
        /\ UNCHANGED <<archive, intent, vmdirty, baks, promised, discard>>
        /\ pc = "open.recover" /\ pc' = "open.bak"
    BY <1>13 DEF RecoverAll, Issue
  <2>2. Readable
    BY <1>13 DEF RecoverAll, Decisions, DefaultDecision
  <2>3. Promising(base) \/ Lost
    BY <2>1, <2>2 DEF JournalKeeps, ArchiveKeeps
  <2>4. base \in 1..issued /\ (vmdirty.mark # NoVersion => vmdirty.mark \in 1..issued)
    BY <1>0 DEF JournalInv, JournalOK
  <2>5. /\ includes'[live'] = {live'} \cup includes[base]
        /\ \A v \in 1..issued : includes'[v] = includes[v]
    BY <2>1, <1>0 DEF Versions
  <2>6. (Backed => Backed') /\ (Lost => Lost')
    BY <2>1, <2>5, <1>0, BackedStays
  <2>7. LiveKeeps'
    BY <2>1, <2>3, <2>5, <2>6 DEF LiveKeeps, Promising
  <2>8. (ArchiveKeeps => ArchiveKeeps') /\ (JournalKeeps => JournalKeeps')
    BY <2>1, <2>2, <2>4, <2>5, <2>6, <1>0
       DEF ArchiveKeeps, JournalKeeps, Promising, Readable, SourceChanged
  <2>9. baks' \subseteq 0..issued'
    BY <2>1, <1>0
  <2>. QED
    BY <2>1, <2>7, <2>8, <2>9, <1>c
<1>14. CASE OpenBackup
  <2>1. Readable
    BY <1>14 DEF OpenBackup, HandleInv
  <2>2. Backed' \/ Promising(archive.ver)'
    <3>1. CASE vmdirty.mark # NoVersion
      <4>1. Promising(vmdirty.mark) \/ Backed
        BY <1>14, <2>1, <3>1 DEF OpenBackup, JournalKeeps, Lost
      <4>. QED
        BY <1>14, <3>1, <4>1 DEF OpenBackup, Backed, Promising
    <3>2. CASE vmdirty.mark = NoVersion
      <4>1. Promising(archive.ver) \/ Backed
        BY <1>14, <2>1, <3>2 DEF OpenBackup, JournalKeeps, ArchiveKeeps, Lost
      <4>. QED
        BY <1>14, <4>1 DEF OpenBackup, Backed, Promising
    <3>. QED
      BY <3>1, <3>2
  <2>3. /\ \A v \in 1..issued : includes'[v] = includes[v]
        /\ baks \subseteq baks' /\ promised' = promised
    BY <1>14 DEF OpenBackup
  <2>4. Lost => Lost'
    BY <2>3, <1>0, BackedStays
  <2>5. (LiveKeeps => LiveKeeps') /\ (ArchiveKeeps => ArchiveKeeps')
    BY <1>14, <2>4 DEF OpenBackup, LiveKeeps, ArchiveKeeps, Promising
  <2>6. baks' \subseteq 0..issued'
    BY <1>14, <1>0 DEF OpenBackup, JournalInv, JournalOK
  <2>. QED
    BY <1>14, <2>2, <2>5, <2>6 DEF OpenBackup
<1>15. CASE OpenCreate
  BY <1>15 DEF OpenCreate
<1>16. CASE OpenHeader
  BY <1>16 DEF OpenHeader
<1>17. CASE OpenRejournal
  BY <1>17 DEF OpenRejournal
<1>18. CASE OpenMark
  <2>1. vmdirty'.mark = live /\ vmdirty'.state = "ready" /\ vmdirty'.src = archive'.gen
    BY <1>18 DEF OpenMark, HandleInv, Readable, SourceChanged
  <2>2. ~MatchesPost' /\ live \in 1..issued
    BY <1>18 DEF OpenMark, PostInv, CleanSteps, CallInv
  <2>3. LiveKeeps /\ LiveKeeps'
    BY <1>18 DEF OpenMark
  <2>4. JournalKeeps'
    BY <1>18, <2>1, <2>2, <2>3 DEF OpenMark, LiveKeeps, JournalKeeps, Promising,
       Readable, SourceChanged
  <2>. QED
    BY <1>18, <2>2, <2>3, <2>4 DEF OpenMark
<1>19. CASE OpenClean
  <2>1. ArchiveKeeps /\ live' \in {live, archive.ver} /\ ~MatchesPost /\ ArchiveKeeps'
    BY <1>19 DEF OpenClean, PostInv, CleanSteps
  <2>2. pc' = "idle" => (LiveKeeps' <=> ArchiveKeeps)
    BY <1>19 DEF OpenClean, LiveKeeps, ArchiveKeeps, Promising
  <2>. QED
    BY <1>19, <2>1, <2>2 DEF OpenClean
<1>20. CASE OpenFresh
  <2>1. ArchiveKeeps /\ live' \in {live, archive.ver} /\ ~MatchesPost /\ ArchiveKeeps'
    BY <1>20 DEF OpenFresh, PostInv, CleanSteps
  <2>2. pc' = "idle" => (LiveKeeps' <=> ArchiveKeeps)
    BY <1>20 DEF OpenFresh, LiveKeeps, ArchiveKeeps, Promising
  <2>. QED
    BY <1>20, <2>1, <2>2 DEF OpenFresh
<1>21. CASE OpenFreshHeader
  <2>1. ArchiveKeeps /\ live' \in {live, archive.ver} /\ ~MatchesPost /\ ArchiveKeeps'
    BY <1>21 DEF OpenFreshHeader, PostInv, CleanSteps
  <2>2. pc' = "idle" => (LiveKeeps' <=> ArchiveKeeps)
    BY <1>21 DEF OpenFreshHeader, LiveKeeps, ArchiveKeeps, Promising
  <2>. QED
    BY <1>21, <2>1, <2>2 DEF OpenFreshHeader
<1>22. CASE Edit
  <2>1. /\ issued' = issued + 1 /\ live' = issued' /\ issued' \in Versions
        /\ includes' = [includes EXCEPT ![issued'] = {issued'} \cup includes[live]]
        /\ UNCHANGED <<archive, intent, baks, promised, discard>>
        /\ pc = "idle" /\ pc' = "idle"
    BY <1>22 DEF Edit, Issue, SetHandle
  <2>2. vmdirty' \in {vmdirty, [vmdirty EXCEPT !.tail = TRUE]}
    BY <1>22 DEF Edit, Handle, SetHandle
  <2>3. /\ vmdirty'.state = vmdirty.state /\ vmdirty'.src = vmdirty.src
        /\ vmdirty'.mark = vmdirty.mark
    BY <2>2 DEF Journals
  <2>4. live \in 1..issued /\ (vmdirty.mark # NoVersion => vmdirty.mark \in 1..issued)
    BY <2>1, <1>0 DEF JournalInv, JournalOK, CallInv
  <2>5. /\ includes'[live'] = {live'} \cup includes[live]
        /\ \A v \in 1..issued : includes'[v] = includes[v]
    BY <2>1, <1>0 DEF Versions
  <2>6. Lost => Lost'
    BY <2>1, <2>5, <1>0, BackedStays
  <2>7. LiveKeeps'
    BY <2>1, <2>5, <2>6 DEF LiveKeeps, Promising
  <2>8. (ArchiveKeeps => ArchiveKeeps') /\ (JournalKeeps => JournalKeeps')
    BY <2>1, <2>3, <2>4, <2>5, <2>6, <1>0
       DEF ArchiveKeeps, JournalKeeps, Promising, Readable, SourceChanged
  <2>9. baks' \subseteq 0..issued'
    BY <2>1, <1>0
  <2>. QED
    BY <2>1, <2>7, <2>8, <2>9, <1>c
<1>23. CASE Flush
  BY <1>23 DEF Flush
<1>24. CASE FlushData
  <2>1. vmdirty' \in {vmdirty, [vmdirty EXCEPT !.tail = @ \/ Dirty]}
    BY <1>24 DEF FlushData, Handle, SetHandle
  <2>2. /\ vmdirty'.state = vmdirty.state /\ vmdirty'.src = vmdirty.src
        /\ vmdirty'.mark = vmdirty.mark
    BY <2>1 DEF Journals
  <2>. QED
    BY <1>24, <2>2 DEF FlushData, SetHandle
<1>25. CASE FlushMark
  <2>1. /\ UNCHANGED <<archive, intent, baks, live, discard, includes, issued>>
        /\ pc = "flush.mark" /\ pc' \in {"idle", "cj.create", "intent.create"}
        /\ promised' \in {promised, live}
    BY <1>25 DEF FlushMark, SetHandle
  <2>. DEFINE m == IF vmdirty.tail \/ vmdirty.mark # NoVersion THEN live ELSE vmdirty.mark
              j == [vmdirty EXCEPT !.mark = m, !.tail = FALSE]
  <2>2. tier2 = "main" /\ Handle = vmdirty /\ Readable
    BY <2>1 DEF HandleInv, Handle
  <2>3. vmdirty' = j
    BY <1>25, <2>2 DEF FlushMark, SetHandle
  <2>4. /\ j.state = vmdirty.state /\ j.src = vmdirty.src /\ j.mark = m
        /\ live \in 1..issued /\ live \in includes[live]
    BY <2>1, <1>0 DEF Journals, CallInv
  <2>. HIDE DEF j
  <2>5. m = live \/ (m = NoVersion /\ vmdirty.mark = NoVersion /\ live = archive.ver)
    BY <2>1, <2>2 DEF HandleInv, Dirty
  <2>6. LiveKeeps'
    BY <2>1, <2>4 DEF LiveKeeps, Promising
  <2>7. JournalKeeps'
    BY <2>1, <2>2, <2>3, <2>4, <2>5, <2>6
       DEF JournalKeeps, LiveKeeps, ArchiveKeeps, Promising, Readable, SourceChanged
  <2>8. ~MatchesPost' /\ ~discard'
    BY <2>1 DEF PostInv, CleanSteps
  <2>. QED
    BY <2>1, <2>6, <2>7, <2>8
<1>26. CASE CompactJournal
  BY <1>26 DEF CompactJournal
<1>27. CASE CompactCreate
  BY <1>27 DEF CompactCreate
<1>28. CASE CompactHeader
  BY <1>28 DEF CompactHeader
<1>29. CASE CompactRejournal
  BY <1>29 DEF CompactRejournal
<1>30. CASE CompactMark
  BY <1>30 DEF CompactMark
<1>31. CASE CompactFails
  BY <1>31 DEF CompactFails
<1>32. CASE CompactRename
  <2>1. /\ UNCHANGED <<archive, intent, baks, live, discard, includes, issued, promised>>
        /\ pc = "cj.rename" /\ pc' = "cj.dirsync" /\ vmdirty' = compact
    BY <1>32 DEF CompactRename
  <2>2. /\ compact.state = "ready" /\ compact.src = archive.gen
        /\ compact.mark = live \/ (compact.mark = NoVersion /\ live = archive.ver)
    BY <2>1 DEF HandleInv, Covers, Dirty
  <2>3. LiveKeeps' /\ LiveKeeps /\ live \in 1..issued
    BY <2>1 DEF CallInv
  <2>4. JournalKeeps'
    BY <2>1, <2>2, <2>3
       DEF JournalKeeps, LiveKeeps, ArchiveKeeps, Promising, Readable, SourceChanged
  <2>5. ~MatchesPost' /\ ~discard'
    BY <2>1 DEF PostInv, CleanSteps
  <2>. QED
    BY <2>1, <2>3, <2>4, <2>5
<1>33. CASE CompactRenameFails
  BY <1>33 DEF CompactRenameFails
<1>34. CASE CompactDirSync
  <2>1. /\ UNCHANGED <<archive, intent, vmdirty, baks, live, discard, includes, issued>>
        /\ pc = "cj.dirsync" /\ pc' = "idle" /\ promised' = live
    BY <1>34 DEF CompactDirSync
  <2>2. vmdirty.mark = live \/ (vmdirty.mark = NoVersion /\ live = archive.ver)
    BY <2>1 DEF HandleInv, Covers, Dirty
  <2>3. live \in includes[live] /\ tier2 = "main" /\ Readable
    BY <2>1, <1>0 DEF CallInv, HandleInv
  <2>4. LiveKeeps'
    BY <2>1, <2>3 DEF LiveKeeps, Promising
  <2>5. JournalKeeps'
    <3>1. Promising(live)' /\ live' = live /\ live # NoVersion
      BY <2>1, <2>3 DEF Promising, CallInv
    <3>2. CASE vmdirty.mark = live
      <4>1. vmdirty'.mark = live' /\ Promising(vmdirty.mark)'
        BY <2>1, <3>1, <3>2 DEF Promising
      <4>2. Readable' /\ vmdirty'.mark # NoVersion
        BY <2>1, <2>3, <3>1, <4>1 DEF Readable, SourceChanged
      <4>. QED
        BY <4>1, <4>2 DEF JournalKeeps
    <3>3. CASE vmdirty.mark = NoVersion /\ live = archive.ver
      <4>1. vmdirty'.mark = NoVersion /\ Promising(archive.ver)'
        BY <2>1, <3>1, <3>3 DEF Promising
      <4>. QED
        BY <4>1 DEF JournalKeeps, ArchiveKeeps
    <3>. QED
      BY <2>2, <3>2, <3>3
  <2>6. ~MatchesPost' /\ ~discard'
    BY <2>1 DEF PostInv, CleanSteps
  <2>. QED
    BY <2>1, <2>4, <2>5, <2>6
<1>35. CASE CommitFull
  BY <1>35 DEF CommitFull, StartCommit
<1>36. CASE CommitIncremental
  BY <1>36 DEF CommitIncremental, StartCommit
<1>37. CASE Compact
  BY <1>37 DEF Compact, StartCommit
<1>38. CASE IntentCreate
  <2>1. ~MatchesPost'
    BY <1>38, IntentFields DEF IntentCreate, MatchesPost, Recorded
  <2>. QED
    BY <1>38, <2>1 DEF IntentCreate
<1>39. CASE IntentWrite
  <2>1. ~MatchesPost'
    BY <1>39 DEF IntentWrite, MatchesPost, PostInv
  <2>. QED
    BY <1>39, <2>1 DEF IntentWrite
<1>40. CASE IntentSync
  BY <1>40 DEF IntentSync
<1>41. CASE FullTmp
  BY <1>41 DEF FullTmp
<1>42. CASE FullWrite
  BY <1>42 DEF FullWrite
<1>43. CASE FullSync
  BY <1>43 DEF FullSync
<1>44. CASE FullRename
  <2>1. archive'.ver = live /\ archive'.gen = gens
    BY <1>44 DEF FullRename, NewArchive, FreshInv, InstallSteps
  <2>2. vmdirty'.src # archive'.gen
    BY <1>44, <2>1 DEF FullRename, JournalInv, JournalOK, InstallSteps
  <2>3. ArchiveKeeps' /\ LiveKeeps'
    BY <1>44, <2>1 DEF FullRename, ArchiveKeeps, LiveKeeps, Promising
  <2>4. JournalKeeps'
    BY <2>2, <2>3 DEF JournalKeeps, Readable, SourceChanged
  <2>. QED
    BY <1>44, <2>3, <2>4 DEF FullRename
<1>45. CASE FullDirSync
  BY <1>45 DEF FullDirSync
<1>46. CASE IncAppend
  <2>1. /\ archive'.gen = archive.gen /\ archive'.ver = archive.ver /\ archive'.torn
    BY <1>46, ArchiveTypes DEF IncAppend, Archives
  <2>2. ~MatchesPost'
    BY <2>1 DEF MatchesPost
  <2>. QED
    BY <1>46, <2>1, <2>2 DEF IncAppend
<1>47. CASE IncWrite
  <2>1. archive'.ver = live /\ archive'.gen = gens
    BY <1>47 DEF IncWrite, NewArchive, FreshInv, InstallSteps
  <2>2. vmdirty'.src # archive'.gen
    BY <1>47, <2>1 DEF IncWrite, JournalInv, JournalOK, InstallSteps
  <2>3. ArchiveKeeps' /\ LiveKeeps'
    BY <1>47, <2>1 DEF IncWrite, ArchiveKeeps, LiveKeeps, Promising
  <2>4. JournalKeeps'
    BY <2>2, <2>3 DEF JournalKeeps, Readable, SourceChanged
  <2>. QED
    BY <1>47, <2>3, <2>4 DEF IncWrite
<1>48. CASE IncSync
  BY <1>48 DEF IncSync
<1>49. CASE CleanVmdirty
  <2>1. ~Readable
    BY <1>49 DEF CleanVmdirty, HandleInv, CleanSteps
  <2>2. ArchiveKeeps
    BY <1>49, <2>1 DEF CleanVmdirty, JournalKeeps
  <2>. QED
    BY <1>49, <2>2 DEF CleanVmdirty
<1>50. CASE CleanSync
  BY <1>50 DEF CleanSync
<1>51. CASE CleanIntent
  <2>1. MatchesPost' => MatchesPost
    BY <1>51, IntentFields DEF CleanIntent, MatchesPost, Recorded
  <2>. QED
    BY <1>51, <2>1 DEF CleanIntent
<1>52. CASE CommitReturns
  <2>1. ~Readable /\ archive.ver = live
    BY <1>52 DEF CommitReturns, HandleInv, CleanSteps
  <2>2. ArchiveKeeps' /\ ~Readable'
    BY <1>52, <1>0, <2>1 DEF CommitReturns, ArchiveKeeps, Promising, Readable, SourceChanged
  <2>3. JournalKeeps'
    BY <2>2 DEF JournalKeeps
  <2>. QED
    BY <1>52, <2>2, <2>3 DEF CommitReturns, EndSession
<1>53. CASE DropMount
  BY <1>53 DEF DropMount, EndSession
<1>54. CASE Crash
  <2>1. CASE pc \in ReplaceSteps
    <3>1. Lost \/ Promising(archive.ver)
      BY <1>54, <2>1 DEF Crash, Lost
    <3>2. ArchiveKeeps' /\ JournalKeeps'
      BY <1>54, <2>1, <3>1 DEF Crash, ArchiveKeeps, HandleInv
    <3>. QED
      BY <1>54, <3>2 DEF Crash, EndSession
  <2>2. CASE pc \notin ReplaceSteps
    BY <1>54, <2>2 DEF Crash, EndSession
  <2>. QED
    BY <2>1, <2>2
<1>55. CASE ForeignReplace
  <2>1. /\ issued' = issued + 1 /\ archive'.gen = gens + 1 /\ archive'.ver = issued'
        /\ includes' = [includes EXCEPT ![issued'] = {issued'}] /\ promised' = issued'
        /\ issued' \in Versions /\ pc = "closed" /\ pc' = "closed"
        /\ UNCHANGED <<intent, vmdirty, baks, discard>> /\ ~archive'.torn
    BY <1>55 DEF ForeignReplace
  <2>2. Promising(archive.ver)' /\ ArchiveKeeps'
    BY <2>1 DEF Promising, ArchiveKeeps
  <2>3. ~Readable'
    BY <2>1 DEF Readable, SourceChanged, JournalInv, JournalOK
  <2>4. JournalKeeps'
    BY <2>2, <2>3 DEF JournalKeeps
  <2>5. baks' \subseteq 0..issued'
    BY <2>1, <1>0
  <2>. QED
    BY <2>1, <2>2, <2>4, <2>5
<1>56. CASE UNCHANGED vars
  BY <1>56 DEF vars
<1>. QED
  BY <1>1, <1>2, <1>3, <1>4, <1>5, <1>6, <1>7, <1>8, <1>9, <1>10, <1>11, <1>12,
     <1>13, <1>14, <1>15, <1>16, <1>17, <1>18, <1>19, <1>20, <1>21, <1>22, <1>23,
     <1>24, <1>25, <1>26, <1>27, <1>28, <1>29, <1>30, <1>31, <1>32, <1>33, <1>34,
     <1>35, <1>36, <1>37, <1>38, <1>39, <1>40, <1>41, <1>42, <1>43, <1>44, <1>45,
     <1>46, <1>47, <1>48, <1>49, <1>50, <1>51, <1>52, <1>53, <1>54, <1>55, <1>56 DEF Next, Open, Session, Commit

\* Where neither open nor an unlink is cut short, the journal of an own archive
\* goes before the intent that explains it, whatever else is cut short.
LEMMA OwnStep ==
  ASSUME TypeOK, CallInv, FreshInv, TornIsRepairable, PostInv, HandleInv, OwnInv,
         ~CrashDuringOpen, ~UnlinkMayFail, [Next]_vars
  PROVE  OwnInv'
<1>. USE JournalFields, JournalStates DEF TypeOK, OwnInv, SourceChanged, SessionSteps,
   NoVersion
<1>. USE DEF Goto, disk, session, history, bounds
<1>a. UNCHANGED <<archive, intent>> => (MatchesPost' <=> MatchesPost)
  BY DEF MatchesPost, Recorded
<1>. USE <1>a
<1>1. CASE OpenStart
  BY <1>1 DEF OpenStart
<1>2. CASE OpenIntent
  <2>1. archive'.gen = archive.gen /\ (archive'.torn <=> archive.torn /\ ~PrefixIsPre)
    BY <1>2, ArchiveTypes DEF OpenIntent, Archives
  <2>2. MatchesPost' <=> MatchesPost
    BY <1>2, <2>1, Numbers, IntentTypes DEF OpenIntent, PrefixIsPre, PostInv, MatchesPost, Recorded
  <2>. QED
    BY <1>2, <2>1, <2>2 DEF OpenIntent
<1>3. CASE OpenRemoveIntent
  <2>1. MatchesPost => discard'
    BY <1>3 DEF OpenRemoveIntent, PostInv
  <2>. QED
    BY <1>3, <2>1 DEF OpenRemoveIntent
<1>4. CASE OpenSyncIntent
  BY <1>4 DEF OpenSyncIntent
<1>5. CASE OpenIndex
  BY <1>5 DEF OpenIndex, TornIsRepairable
<1>6. CASE OpenOrphans
  BY <1>6 DEF OpenOrphans
<1>7. CASE OpenDiscard
  BY <1>7 DEF OpenDiscard
<1>8. CASE OpenSyncDiscard
  BY <1>8 DEF OpenSyncDiscard
<1>9. CASE NoJournalToRecover
  BY <1>9 DEF NoJournalToRecover
<1>10. CASE RecoveryAborts
  BY <1>10 DEF Decisions, DefaultDecision, RecoveryAborts
<1>11. CASE RecoveryDiscards
  BY <1>11 DEF Decisions, DefaultDecision, RecoveryDiscards
<1>12. CASE RecoverCommitted
  BY <1>12 DEF Decisions, DefaultDecision, RecoverCommitted
<1>13. CASE RecoverAll
  BY <1>13 DEF Decisions, DefaultDecision, Issue, RecoverAll
<1>14. CASE OpenBackup
  BY <1>14 DEF OpenBackup
<1>15. CASE OpenCreate
  BY <1>15 DEF OpenCreate
<1>16. CASE OpenHeader
  BY <1>16 DEF OpenHeader
<1>17. CASE OpenRejournal
  BY <1>17 DEF Journals, OpenRejournal
<1>18. CASE OpenMark
  BY <1>18 DEF HandleInv, Journals, OpenMark, Readable
<1>19. CASE OpenClean
  BY <1>19 DEF OpenClean
<1>20. CASE OpenFresh
  BY <1>20 DEF OpenFresh
<1>21. CASE OpenFreshHeader
  BY <1>21 DEF OpenFreshHeader
<1>22. CASE Edit
  <2>1. UNCHANGED <<archive, intent, foreign>> /\ pc \in SessionSteps \ {"cj.rename"}
    BY <1>22 DEF Edit, SetHandle
  <2>2. vmdirty'.state = vmdirty.state /\ vmdirty'.src = vmdirty.src
    BY <1>22 DEF Edit, SetHandle, Handle, Journals
  <2>3. ~discard /\ pc' \notin {"clean.sync", "clean.intent", "clean.syncintent"}
    BY <1>22, <2>1 DEF Edit, PostInv, OpenSteps
  <2>. QED
    BY <2>1, <2>2, <2>3
<1>23. CASE Flush
  BY <1>23 DEF Flush
<1>24. CASE FlushData
  <2>1. UNCHANGED <<archive, intent, foreign>> /\ pc \in SessionSteps \ {"cj.rename"}
    BY <1>24 DEF FlushData, SetHandle
  <2>2. vmdirty'.state = vmdirty.state /\ vmdirty'.src = vmdirty.src
    BY <1>24 DEF FlushData, SetHandle, Handle, Journals
  <2>3. ~discard /\ pc' \notin {"clean.sync", "clean.intent", "clean.syncintent"}
    BY <1>24, <2>1 DEF FlushData, PostInv, OpenSteps
  <2>. QED
    BY <2>1, <2>2, <2>3
<1>25. CASE FlushMark
  <2>1. UNCHANGED <<archive, intent, foreign>> /\ pc = "flush.mark"
    BY <1>25 DEF FlushMark, SetHandle
  <2>. DEFINE m == IF Handle.tail \/ Handle.mark # NoVersion THEN live ELSE Handle.mark
              j == [Handle EXCEPT !.mark = m, !.tail = FALSE]
  <2>2. Handle \in Journals /\ (tier2 # "temp" => Handle = vmdirty)
    BY DEF Handle
  <2>3. j.state = Handle.state /\ j.src = Handle.src
    BY <2>2 DEF Journals
  <2>4. IF tier2 = "temp" THEN vmdirty' = vmdirty ELSE vmdirty' = j
    BY <1>25 DEF FlushMark, SetHandle
  <2>5. ~discard /\ pc' \notin {"clean.sync", "clean.intent", "clean.syncintent"}
    BY <1>25, <2>1 DEF FlushMark, PostInv, OpenSteps
  <2>. HIDE DEF j
  <2>. QED
    BY <2>1, <2>2, <2>3, <2>4, <2>5
<1>26. CASE CompactJournal
  BY <1>26 DEF CompactJournal
<1>27. CASE CompactCreate
  BY <1>27 DEF CompactCreate
<1>28. CASE CompactHeader
  BY <1>28 DEF CompactHeader
<1>29. CASE CompactRejournal
  BY <1>29 DEF CompactRejournal
<1>30. CASE CompactMark
  BY <1>30 DEF CompactMark
<1>31. CASE CompactFails
  BY <1>31 DEF CompactFails
<1>32. CASE CompactRename
  BY <1>32 DEF CompactRename, HandleInv
<1>33. CASE CompactRenameFails
  BY <1>33 DEF CompactRenameFails
<1>34. CASE CompactDirSync
  BY <1>34 DEF CompactDirSync
<1>35. CASE CommitFull
  BY <1>35 DEF CommitFull, StartCommit
<1>36. CASE CommitIncremental
  BY <1>36 DEF CommitIncremental, StartCommit
<1>37. CASE Compact
  BY <1>37 DEF Compact, StartCommit
<1>38. CASE IntentCreate
  <2>1. ~MatchesPost
    BY <1>38 DEF IntentCreate, PostInv, CleanSteps
  <2>. QED
    BY <1>38, <2>1 DEF IntentCreate
<1>39. CASE IntentWrite
  <2>1. ~MatchesPost
    BY <1>39 DEF IntentWrite, PostInv, CleanSteps
  <2>. QED
    BY <1>39, <2>1 DEF IntentWrite
<1>40. CASE IntentSync
  BY <1>40 DEF IntentSync
<1>41. CASE FullTmp
  BY <1>41 DEF FullTmp
<1>42. CASE FullWrite
  BY <1>42 DEF FullWrite
<1>43. CASE FullSync
  BY <1>43 DEF FullSync
<1>44. CASE FullRename
  <2>1. archive'.gen = intent.post /\ ~archive'.torn
    BY <1>44 DEF FullRename, NewArchive
  <2>2. MatchesPost'
    BY <1>44, <2>1 DEF FullRename, MatchesPost, Recorded, PostInv, InstallSteps
  <2>. QED
    BY <1>44, <2>2 DEF FullRename
<1>45. CASE FullDirSync
  BY <1>45 DEF FullDirSync
<1>46. CASE IncAppend
  <2>1. archive'.gen = archive.gen
    BY <1>46, ArchiveTypes DEF IncAppend, Archives
  <2>2. ~MatchesPost
    BY <1>46 DEF IncAppend, PostInv, CleanSteps
  <2>. QED
    BY <1>46, <2>1, <2>2 DEF IncAppend
<1>47. CASE IncWrite
  <2>1. archive'.gen = intent.post /\ ~archive'.torn
    BY <1>47 DEF IncWrite, NewArchive
  <2>2. MatchesPost'
    BY <1>47, <2>1 DEF IncWrite, MatchesPost, Recorded, PostInv, InstallSteps
  <2>. QED
    BY <1>47, <2>2 DEF IncWrite
<1>48. CASE IncSync
  BY <1>48 DEF IncSync
<1>49. CASE CleanVmdirty
  BY <1>49 DEF CleanVmdirty
<1>50. CASE CleanSync
  BY <1>50 DEF CleanSync
<1>51. CASE CleanIntent
  BY <1>51 DEF CleanIntent
<1>52. CASE CommitReturns
  BY <1>52 DEF CommitReturns, EndSession
<1>53. CASE DropMount
  BY <1>53 DEF DropMount, EndSession
<1>54. CASE Crash
  <2>1. pc \notin OpenSteps /\ ~discard
    BY <1>54 DEF Crash, PostInv
  <2>. QED
    BY <1>54, <2>1 DEF Crash, OpenSteps, EndSession
<1>55. CASE ForeignReplace
  <2>1. foreign' # 0
    BY <1>55 DEF ForeignReplace
  <2>. QED
    BY <1>55, <2>1 DEF ForeignReplace
<1>56. CASE UNCHANGED vars
  BY <1>56 DEF vars
<1>. QED
  BY <1>1, <1>2, <1>3, <1>4, <1>5, <1>6, <1>7, <1>8, <1>9, <1>10, <1>11, <1>12,
     <1>13, <1>14, <1>15, <1>16, <1>17, <1>18, <1>19, <1>20, <1>21, <1>22, <1>23,
     <1>24, <1>25, <1>26, <1>27, <1>28, <1>29, <1>30, <1>31, <1>32, <1>33, <1>34,
     <1>35, <1>36, <1>37, <1>38, <1>39, <1>40, <1>41, <1>42, <1>43, <1>44, <1>45,
     <1>46, <1>47, <1>48, <1>49, <1>50, <1>51, <1>52, <1>53, <1>54, <1>55, <1>56 DEF Next, Open, Session, Commit

\* What the next open shows, by the state of the files that it finds.
LEMMA DurableShows ==
  TornIsRepairable => Durable = IF MatchesPost THEN archive.ver ELSE JournalShows
BY DEF TornIsRepairable, Durable, JournalShows, Readable

\* An open that goes on goes on to what it announced.
LEMMA TargetStep ==
  ASSUME TypeOK, IntentInv, TornIsRepairable, FreshInv, PostInv, HandleInv, TargetInv,
         [Next]_vars
  PROVE  TargetInv'
<1>. USE JournalFields, JournalStates DEF TypeOK, TargetInv, RecoverySteps
<1>. USE DEF Goto, disk, session, history, bounds
<1>a. UNCHANGED <<archive, intent>> => (MatchesPost' <=> MatchesPost)
  BY DEF MatchesPost, Recorded
<1>b. archive'.ver = archive.ver /\ archive'.gen = archive.gen /\ UNCHANGED vmdirty
        => JournalShows' = JournalShows
  BY DEF JournalShows, Readable, SourceChanged
<1>c. UNCHANGED <<archive, intent, vmdirty, discard>> => Shows' = Shows
  BY <1>a, <1>b DEF Shows
<1>. USE <1>a, <1>b, <1>c
<1>1. CASE OpenStart
  <2>1. ~discard /\ ~discard'
    BY <1>1 DEF OpenStart, PostInv, OpenSteps
  <2>2. target' = Shows'
    BY <1>1, <2>1, DurableShows DEF OpenStart, Shows
  <2>. QED
    BY <1>1, <2>2 DEF OpenStart
<1>2. CASE OpenIntent
  <2>1. /\ archive'.gen = archive.gen /\ archive'.ver = archive.ver
        /\ archive'.torn <=> archive.torn /\ ~PrefixIsPre
    BY <1>2, ArchiveTypes DEF OpenIntent, Archives
  <2>2. MatchesPost' <=> MatchesPost
    BY <1>2, <2>1, Numbers, IntentTypes DEF OpenIntent, PrefixIsPre, PostInv, MatchesPost, Recorded
  <2>3. ~discard
    BY <1>2 DEF OpenIntent, PostInv
  <2>4. Shows' = Shows
    BY <1>2, <2>1, <2>2, <2>3 DEF OpenIntent, Shows
  <2>. QED
    BY <1>2, <2>4 DEF OpenIntent
<1>3. CASE OpenRemoveIntent
  <2>1. (MatchesPost => discard) /\ ~MatchesPost'
    BY <1>3, IntentFields DEF OpenRemoveIntent, PostInv, MatchesPost, Recorded
  <2>2. Shows' = Shows
    BY <1>3, <2>1 DEF OpenRemoveIntent, Shows
  <2>. QED
    BY <1>3, <2>2 DEF OpenRemoveIntent
<1>4. CASE OpenSyncIntent
  BY <1>4 DEF OpenSyncIntent
<1>5. CASE OpenIndex
  BY <1>5 DEF OpenIndex
<1>6. CASE OpenOrphans
  BY <1>6 DEF OpenOrphans
<1>7. CASE OpenDiscard
  <2>1. CASE discard /\ vmdirty.state # "absent"
    <3>1. Shows' = archive.ver /\ Shows = archive.ver
      BY <1>7, <2>1 DEF OpenDiscard, Shows
    <3>. QED
      BY <1>7, <2>1, <3>1 DEF OpenDiscard
  <2>2. CASE ~(discard /\ vmdirty.state # "absent")
    <3>1. Shows' = Shows
      BY <1>7, <2>2 DEF OpenDiscard, Shows
    <3>. QED
      BY <1>7, <2>2, <3>1 DEF OpenDiscard
  <2>. QED
    BY <2>1, <2>2
<1>8. CASE OpenSyncDiscard
  BY <1>8 DEF OpenSyncDiscard
<1>9. CASE NoJournalToRecover
  <2>1. target = archive.ver
    BY <1>9 DEF NoJournalToRecover, Shows, JournalShows
  <2>. QED
    BY <1>9, <2>1 DEF NoJournalToRecover
<1>10. CASE RecoveryAborts
  BY <1>10 DEF Decisions, DefaultDecision, RecoveryAborts
<1>11. CASE RecoveryDiscards
  BY <1>11 DEF Decisions, DefaultDecision, RecoveryDiscards
<1>12. CASE RecoverCommitted
  <2>1. Readable /\ vmdirty.mark # NoVersion
    BY <1>12 DEF RecoverCommitted, Decisions, DefaultDecision
  <2>2. ~discard /\ ~MatchesPost
    BY <1>12 DEF RecoverCommitted, PostInv, CleanSteps
  <2>3. target = vmdirty.mark
    BY <1>12, <2>1, <2>2 DEF RecoverCommitted, Shows, JournalShows, Readable
  <2>. QED
    BY <1>12, <2>3 DEF RecoverCommitted
<1>13. CASE RecoverAll
  BY <1>13 DEF Decisions, DefaultDecision, Issue, RecoverAll
<1>14. CASE OpenBackup
  BY <1>14 DEF OpenBackup
<1>15. CASE OpenCreate
  BY <1>15 DEF OpenCreate
<1>16. CASE OpenHeader
  BY <1>16 DEF OpenHeader
<1>17. CASE OpenRejournal
  BY <1>17 DEF OpenRejournal
<1>18. CASE OpenMark
  BY <1>18 DEF OpenMark
<1>19. CASE OpenClean
  BY <1>19 DEF OpenClean
<1>20. CASE OpenFresh
  BY <1>20 DEF OpenFresh
<1>21. CASE OpenFreshHeader
  BY <1>21 DEF OpenFreshHeader
<1>22. CASE Edit
  BY <1>22 DEF Edit, Handle, Issue, SetHandle
<1>23. CASE Flush
  BY <1>23 DEF Flush
<1>24. CASE FlushData
  BY <1>24 DEF FlushData, Handle, SetHandle
<1>25. CASE FlushMark
  BY <1>25 DEF FlushMark, Handle, SetHandle
<1>26. CASE CompactJournal
  BY <1>26 DEF CompactJournal
<1>27. CASE CompactCreate
  BY <1>27 DEF CompactCreate
<1>28. CASE CompactHeader
  BY <1>28 DEF CompactHeader
<1>29. CASE CompactRejournal
  BY <1>29 DEF CompactRejournal
<1>30. CASE CompactMark
  BY <1>30 DEF CompactMark
<1>31. CASE CompactFails
  BY <1>31 DEF CompactFails
<1>32. CASE CompactRename
  BY <1>32 DEF CompactRename
<1>33. CASE CompactRenameFails
  BY <1>33 DEF CompactRenameFails
<1>34. CASE CompactDirSync
  BY <1>34 DEF CompactDirSync
<1>35. CASE CommitFull
  BY <1>35 DEF CommitFull, StartCommit
<1>36. CASE CommitIncremental
  BY <1>36 DEF CommitIncremental, StartCommit
<1>37. CASE Compact
  BY <1>37 DEF Compact, StartCommit
<1>38. CASE IntentCreate
  BY <1>38 DEF IntentCreate
<1>39. CASE IntentWrite
  BY <1>39 DEF IntentWrite
<1>40. CASE IntentSync
  BY <1>40 DEF IntentSync
<1>41. CASE FullTmp
  BY <1>41 DEF FullTmp
<1>42. CASE FullWrite
  BY <1>42 DEF FullWrite
<1>43. CASE FullSync
  BY <1>43 DEF FullSync
<1>44. CASE FullRename
  BY <1>44 DEF FullRename, NewArchive
<1>45. CASE FullDirSync
  BY <1>45 DEF FullDirSync
<1>46. CASE IncAppend
  BY <1>46 DEF IncAppend
<1>47. CASE IncWrite
  BY <1>47 DEF IncWrite, NewArchive
<1>48. CASE IncSync
  BY <1>48 DEF IncSync
<1>49. CASE CleanVmdirty
  BY <1>49 DEF CleanVmdirty
<1>50. CASE CleanSync
  BY <1>50 DEF CleanSync
<1>51. CASE CleanIntent
  BY <1>51 DEF CleanIntent
<1>52. CASE CommitReturns
  BY <1>52 DEF CommitReturns, EndSession
<1>53. CASE DropMount
  BY <1>53 DEF DropMount, EndSession
<1>54. CASE Crash
  BY <1>54 DEF Crash, EndSession
<1>55. CASE ForeignReplace
  BY <1>55 DEF ForeignReplace
<1>56. CASE UNCHANGED vars
  BY <1>56 DEF vars
<1>. QED
  BY <1>1, <1>2, <1>3, <1>4, <1>5, <1>6, <1>7, <1>8, <1>9, <1>10, <1>11, <1>12,
     <1>13, <1>14, <1>15, <1>16, <1>17, <1>18, <1>19, <1>20, <1>21, <1>22, <1>23,
     <1>24, <1>25, <1>26, <1>27, <1>28, <1>29, <1>30, <1>31, <1>32, <1>33, <1>34,
     <1>35, <1>36, <1>37, <1>38, <1>39, <1>40, <1>41, <1>42, <1>43, <1>44, <1>45,
     <1>46, <1>47, <1>48, <1>49, <1>50, <1>51, <1>52, <1>53, <1>54, <1>55, <1>56 DEF Next, Open, Session, Commit

-----------------------------------------------------------------------------
(* The refinement. *)

storelive == IF Phase = "open" THEN live ELSE NoVersion

\* Every step of the files is a step of the store, or the store does not see it.
LEMMA StoreStep ==
  ASSUME TypeOK, CallInv, IntentInv, TornIsRepairable, VersionInv, FreshInv, JournalInv,
         PostInv, HandleInv, OwnInv, TargetInv, TornIsRepairable',
         ~CrashDuringOpen, ~CompactMayFail, ~UnlinkMayFail, [Next]_vars
  PROVE  Store!Next \/ UNCHANGED <<Phase, storelive, Shown, archive.ver, issued>>
<1>. USE Numbers, JournalFields, JournalStates DEF TypeOK, NoVersion, Phase, storelive,
   OpenSteps, SessionSteps, CommitSteps, RecoverySteps
<1>. USE DEF Goto, disk, session, history, bounds
<1>a. UNCHANGED <<archive, intent>> => (MatchesPost' <=> MatchesPost)
  BY DEF MatchesPost, Recorded
<1>b. UNCHANGED <<archive, vmdirty>> => JournalShows' = JournalShows
  BY DEF JournalShows, Readable, SourceChanged
<1>c. Shown = IF pc \in OpenSteps THEN target
              ELSE IF MatchesPost THEN archive.ver ELSE JournalShows
  BY DurableShows DEF Shown
<1>d. Shown' = IF pc' \in OpenSteps THEN target'
               ELSE IF MatchesPost' THEN archive'.ver ELSE JournalShows'
  <2>1. Durable' = IF MatchesPost' THEN archive'.ver ELSE JournalShows'
    <3>1. (TornIsRepairable => Durable = IF MatchesPost THEN archive.ver
                                            ELSE JournalShows)'
      BY DurableShows, PTL
    <3>. QED
      BY <3>1
  <2>. QED
    BY <2>1 DEF Shown
<1>. USE <1>a, <1>b, <1>c, <1>d
<1>1. CASE OpenStart
  <2>1. Shown' = Shown
    BY <1>1 DEF OpenStart, Shown
  <2>. QED
    BY <1>1, <2>1 DEF OpenStart
<1>2. CASE OpenIntent
  <2>1. archive'.ver = archive.ver
    BY <1>2, ArchiveTypes DEF OpenIntent, Archives
  <2>. QED
    BY <1>2, <2>1 DEF OpenIntent
<1>3. CASE OpenRemoveIntent
  BY <1>3 DEF OpenRemoveIntent
<1>4. CASE OpenSyncIntent
  BY <1>4 DEF OpenSyncIntent
<1>5. CASE OpenIndex
  <2>1. ~archive.torn
    BY <1>5 DEF OpenIndex, TornIsRepairable
  <2>. QED
    BY <1>5, <2>1 DEF OpenIndex
<1>6. CASE OpenOrphans
  BY <1>6 DEF OpenOrphans
<1>7. CASE OpenDiscard
  BY <1>7 DEF OpenDiscard
<1>8. CASE OpenSyncDiscard
  BY <1>8 DEF OpenSyncDiscard
<1>9. CASE NoJournalToRecover
  BY <1>9 DEF NoJournalToRecover
<1>10. CASE RecoveryAborts
  <2>1. ~discard /\ ~MatchesPost
    BY <1>10 DEF RecoveryAborts, TargetInv, PostInv, CleanSteps
  <2>2. target = JournalShows
    BY <1>10, <2>1 DEF RecoveryAborts, TargetInv, Shows
  <2>. QED
    BY <1>10, <2>1, <2>2 DEF RecoveryAborts
<1>11. CASE RecoveryDiscards
  <2>1. Store!GiveUp
    BY <1>11 DEF RecoveryDiscards, Store!GiveUp
  <2>. QED
    BY <2>1 DEF Store!Next
<1>12. CASE RecoverCommitted
  BY <1>12 DEF Decisions, DefaultDecision, RecoverCommitted
<1>13. CASE RecoverAll
  <2>1. Store!AdoptAll
    BY <1>13 DEF RecoverAll, Issue, Store!AdoptAll
  <2>. QED
    BY <2>1 DEF Store!Next
<1>14. CASE OpenBackup
  BY <1>14 DEF OpenBackup
<1>15. CASE OpenCreate
  BY <1>15 DEF OpenCreate
<1>16. CASE OpenHeader
  BY <1>16 DEF OpenHeader
<1>17. CASE OpenRejournal
  BY <1>17 DEF OpenRejournal
<1>18. CASE OpenMark
  <2>1. /\ vmdirty'.mark = live /\ vmdirty'.state = "ready" /\ vmdirty'.src = archive'.gen
    BY <1>18 DEF OpenMark, HandleInv, Readable, SourceChanged
  <2>2. ~MatchesPost /\ target = live /\ live # NoVersion
    BY <1>18 DEF OpenMark, PostInv, CleanSteps, TargetInv, CallInv
  <2>3. Shown' = live
    BY <1>18, <2>1, <2>2 DEF OpenMark, JournalShows, Readable, SourceChanged
  <2>4. Store!Open
    BY <1>18, <2>2, <2>3 DEF OpenMark, Store!Open
  <2>. QED
    BY <2>4 DEF Store!Next
<1>19. CASE OpenClean
  <2>1. ~MatchesPost /\ target = archive.ver /\ archive.ver # NoVersion
    BY <1>19 DEF OpenClean, PostInv, CleanSteps, TargetInv, VersionInv
  <2>2. JournalShows' = archive.ver
    BY <1>19 DEF OpenClean, JournalShows, Readable, SourceChanged, TargetInv
  <2>3. Shown' = archive.ver
    BY <1>19, <2>1, <2>2 DEF OpenClean
  <2>4. Store!Open
    BY <1>19, <2>1, <2>3 DEF OpenClean, Store!Open
  <2>. QED
    BY <2>4 DEF Store!Next
<1>20. CASE OpenFresh
  BY <1>20 DEF OpenFresh
<1>21. CASE OpenFreshHeader
  <2>1. ~MatchesPost /\ target = archive.ver /\ archive.ver # NoVersion
    BY <1>21 DEF OpenFreshHeader, PostInv, CleanSteps, TargetInv, VersionInv
  <2>2. JournalShows' = archive.ver
    BY <1>21 DEF OpenFreshHeader, JournalShows, Readable, SourceChanged, TargetInv
  <2>3. Shown' = archive.ver
    BY <1>21, <2>1, <2>2 DEF OpenFreshHeader
  <2>4. Store!Open
    BY <1>21, <2>1, <2>3 DEF OpenFreshHeader, Store!Open
  <2>. QED
    BY <2>4 DEF Store!Next
<1>22. CASE Edit
  <2>1. /\ UNCHANGED <<archive, intent>> /\ issued' = issued + 1 /\ live' = issued'
        /\ pc = "idle" /\ pc' = "idle"
    BY <1>22 DEF Edit, Issue, SetHandle
  <2>2. vmdirty' \in {vmdirty, [vmdirty EXCEPT !.tail = TRUE]}
    BY <1>22 DEF Edit, Handle, SetHandle
  <2>3. /\ vmdirty'.state = vmdirty.state /\ vmdirty'.src = vmdirty.src
        /\ vmdirty'.mark = vmdirty.mark
    BY <2>2 DEF Journals
  <2>4. JournalShows' = JournalShows
    BY <2>1, <2>3 DEF JournalShows, Readable, SourceChanged
  <2>5. Store!Edit
    BY <2>1, <2>4 DEF Store!Edit
  <2>. QED
    BY <2>5 DEF Store!Next
<1>23. CASE Flush
  BY <1>23 DEF Flush
<1>24. CASE FlushData
  <2>1. vmdirty' \in {vmdirty, [vmdirty EXCEPT !.tail = @ \/ Dirty]}
    BY <1>24 DEF FlushData, Handle, SetHandle
  <2>2. /\ vmdirty'.state = vmdirty.state /\ vmdirty'.src = vmdirty.src
        /\ vmdirty'.mark = vmdirty.mark
    BY <2>1 DEF Journals
  <2>3. UNCHANGED <<archive, intent>>
    BY <1>24 DEF FlushData, SetHandle
  <2>4. JournalShows' = JournalShows
    BY <2>2, <2>3 DEF JournalShows, Readable, SourceChanged
  <2>. QED
    BY <1>24, <2>3, <2>4 DEF FlushData
<1>25. CASE FlushMark
  <2>1. /\ UNCHANGED <<archive, intent, live, issued>>
        /\ pc = "flush.mark" /\ pc' \in {"idle", "cj.create", "intent.create"}
    BY <1>25 DEF FlushMark, SetHandle
  <2>. DEFINE m == IF vmdirty.tail \/ vmdirty.mark # NoVersion THEN live ELSE vmdirty.mark
              j == [vmdirty EXCEPT !.mark = m, !.tail = FALSE]
  <2>2. tier2 = "main" /\ Handle = vmdirty /\ Readable
    BY <2>1 DEF HandleInv, Handle
  <2>3. vmdirty' = j
    BY <1>25, <2>2 DEF FlushMark, SetHandle
  <2>4. /\ j.state = vmdirty.state /\ j.src = vmdirty.src /\ j.mark = m
        /\ live # NoVersion
    BY <2>1 DEF Journals, CallInv
  <2>. HIDE DEF j
  <2>5. m = live \/ (m = NoVersion /\ vmdirty.mark = NoVersion /\ live = archive.ver)
    BY <2>1, <2>2 DEF HandleInv, Dirty
  <2>6. JournalShows' = live
    BY <2>1, <2>2, <2>3, <2>4, <2>5 DEF JournalShows, Readable, SourceChanged
  <2>7. ~MatchesPost
    BY <2>1 DEF PostInv, CleanSteps
  <2>8. Store!Persist
    BY <2>1, <2>6, <2>7 DEF Store!Persist
  <2>. QED
    BY <2>8 DEF Store!Next
<1>26. CASE CompactJournal
  BY <1>26 DEF CompactJournal
<1>27. CASE CompactCreate
  BY <1>27 DEF CompactCreate
<1>28. CASE CompactHeader
  BY <1>28 DEF CompactHeader
<1>29. CASE CompactRejournal
  BY <1>29 DEF CompactRejournal
<1>30. CASE CompactMark
  BY <1>30 DEF CompactMark
<1>31. CASE CompactFails
  BY <1>31 DEF CompactFails
<1>32. CASE CompactRename
  <2>1. /\ UNCHANGED <<archive, intent, live, issued>>
        /\ pc = "cj.rename" /\ pc' = "cj.dirsync" /\ vmdirty' = compact
    BY <1>32 DEF CompactRename
  <2>2. /\ compact.state = "ready" /\ compact.src = archive.gen
        /\ compact.mark = live \/ (compact.mark = NoVersion /\ live = archive.ver)
    BY <2>1 DEF HandleInv, Covers, Dirty
  <2>3. live # NoVersion
    BY <2>1 DEF CallInv
  <2>4. JournalShows' = live
    BY <2>1, <2>2, <2>3 DEF JournalShows, Readable, SourceChanged
  <2>5. ~MatchesPost
    BY <2>1 DEF PostInv, CleanSteps
  <2>6. Store!Persist
    BY <2>1, <2>4, <2>5 DEF Store!Persist
  <2>. QED
    BY <2>6 DEF Store!Next
<1>33. CASE CompactRenameFails
  BY <1>33 DEF CompactRenameFails
<1>34. CASE CompactDirSync
  BY <1>34 DEF CompactDirSync
<1>35. CASE CommitFull
  BY <1>35 DEF CommitFull, StartCommit
<1>36. CASE CommitIncremental
  BY <1>36 DEF CommitIncremental, StartCommit
<1>37. CASE Compact
  BY <1>37 DEF Compact, StartCommit
<1>38. CASE IntentCreate
  <2>1. ~MatchesPost
    BY <1>38 DEF IntentCreate, PostInv, CleanSteps
  <2>2. ~MatchesPost'
    BY <1>38, IntentFields DEF IntentCreate, MatchesPost, Recorded, PostInv
  <2>. QED
    BY <1>38, <2>1, <2>2 DEF IntentCreate
<1>39. CASE IntentWrite
  <2>1. ~MatchesPost
    BY <1>39 DEF IntentWrite, PostInv, CleanSteps
  <2>2. ~MatchesPost'
    BY <1>39, IntentFields DEF IntentWrite, MatchesPost, Recorded, PostInv
  <2>. QED
    BY <1>39, <2>1, <2>2 DEF IntentWrite
<1>40. CASE IntentSync
  BY <1>40 DEF IntentSync
<1>41. CASE FullTmp
  BY <1>41 DEF FullTmp
<1>42. CASE FullWrite
  BY <1>42 DEF FullWrite
<1>43. CASE FullSync
  BY <1>43 DEF FullSync
<1>44. CASE FullRename
  <2>1. archive'.gen = intent.post /\ ~archive'.torn /\ archive'.ver = live
    BY <1>44 DEF FullRename, NewArchive
  <2>2. MatchesPost'
    BY <1>44, <2>1 DEF FullRename, MatchesPost, Recorded, PostInv, InstallSteps
  <2>3. Store!Settle
    BY <1>44, <2>1, <2>2 DEF FullRename, Store!Settle
  <2>. QED
    BY <2>3 DEF Store!Next
<1>45. CASE FullDirSync
  BY <1>45 DEF FullDirSync
<1>46. CASE IncAppend
  <2>1. /\ archive'.gen = archive.gen /\ archive'.ver = archive.ver /\ archive'.torn
    BY <1>46, ArchiveTypes DEF IncAppend, Archives
  <2>2. ~MatchesPost' /\ ~MatchesPost
    BY <1>46, <2>1 DEF IncAppend, MatchesPost, PostInv, CleanSteps
  <2>3. JournalShows' = JournalShows
    BY <1>46, <2>1 DEF IncAppend, JournalShows, Readable, SourceChanged
  <2>. QED
    BY <1>46, <2>1, <2>2, <2>3 DEF IncAppend
<1>47. CASE IncWrite
  <2>1. archive'.gen = intent.post /\ ~archive'.torn /\ archive'.ver = live
    BY <1>47 DEF IncWrite, NewArchive
  <2>2. MatchesPost'
    BY <1>47, <2>1 DEF IncWrite, MatchesPost, Recorded, PostInv, InstallSteps
  <2>3. Store!Settle
    BY <1>47, <2>1, <2>2 DEF IncWrite, Store!Settle
  <2>. QED
    BY <2>3 DEF Store!Next
<1>48. CASE IncSync
  BY <1>48 DEF IncSync
<1>49. CASE CleanVmdirty
  <2>1. MatchesPost
    BY <1>49 DEF CleanVmdirty, PostInv, CleanSteps
  <2>. QED
    BY <1>49, <2>1 DEF CleanVmdirty
<1>50. CASE CleanSync
  BY <1>50 DEF CleanSync
<1>51. CASE CleanIntent
  <2>1. JournalShows' = archive.ver /\ JournalShows = archive.ver
    BY <1>51 DEF CleanIntent, JournalShows, OwnInv
  <2>. QED
    BY <1>51, <2>1 DEF CleanIntent
<1>52. CASE CommitReturns
  <2>1. Store!Close
    BY <1>52 DEF CommitReturns, EndSession, Store!Close
  <2>. QED
    BY <2>1 DEF Store!Next
<1>53. CASE DropMount
  <2>1. Store!Close
    BY <1>53 DEF DropMount, EndSession, Store!Close
  <2>. QED
    BY <2>1 DEF Store!Next
<1>54. CASE Crash
  <2>1. Store!Close
    BY <1>54 DEF Crash, EndSession, Store!Close
  <2>. QED
    BY <2>1 DEF Store!Next
<1>55. CASE ForeignReplace
  <2>1. /\ issued' = issued + 1 /\ archive'.gen = gens + 1 /\ archive'.ver = issued'
        /\ pc = "closed" /\ pc' = "closed" /\ UNCHANGED <<intent, vmdirty>>
    BY <1>55 DEF ForeignReplace
  <2>2. ~MatchesPost'
    BY <2>1, IntentTypes DEF MatchesPost, Recorded, PostInv
  <2>3. ~Readable'
    BY <2>1 DEF Readable, SourceChanged, JournalInv, JournalOK
  <2>4. JournalShows' \in {NoVersion, issued'}
    BY <2>1, <2>3 DEF JournalShows
  <2>5. Store!Replace
    BY <2>1, <2>2, <2>4 DEF Store!Replace
  <2>. QED
    BY <2>5 DEF Store!Next
<1>56. CASE UNCHANGED vars
  BY <1>56 DEF vars
<1>. QED
  BY <1>1, <1>2, <1>3, <1>4, <1>5, <1>6, <1>7, <1>8, <1>9, <1>10, <1>11, <1>12,
     <1>13, <1>14, <1>15, <1>16, <1>17, <1>18, <1>19, <1>20, <1>21, <1>22, <1>23,
     <1>24, <1>25, <1>26, <1>27, <1>28, <1>29, <1>30, <1>31, <1>32, <1>33, <1>34,
     <1>35, <1>36, <1>37, <1>38, <1>39, <1>40, <1>41, <1>42, <1>43, <1>44, <1>45,
     <1>46, <1>47, <1>48, <1>49, <1>50, <1>51, <1>52, <1>53, <1>54, <1>55, <1>56 DEF Next, Open, Session, Commit

-----------------------------------------------------------------------------
(* The theorems. *)

\* The new invariants hold when the archive has just been made.
LEMMA InitDurable == Init => PostInv /\ HandleInv /\ PromiseInv /\ OwnInv /\ TargetInv
<1>. SUFFICES ASSUME Init PROVE PostInv /\ HandleInv /\ PromiseInv /\ OwnInv /\ TargetInv
  OBVIOUS
<1>. USE JournalFields, JournalStates DEF Init, OpenSteps, SessionSteps, CommitSteps,
   CleanSteps, ReplaceSteps, RecoverySteps, InstallSteps
<1>1. PostInv
  BY DEF PostInv, MatchesPost, Recorded, NoIntent
<1>2. HandleInv
  BY DEF HandleInv
<1>3. ~Readable /\ ~MatchesPost
  BY DEF Readable, MatchesPost, Recorded, NoIntent
<1>4. Promising(archive.ver)
  BY LifecycleAssumption DEF Promising, Versions
<1>5. PromiseInv
  BY <1>3, <1>4 DEF PromiseInv, JournalKeeps, ArchiveKeeps
<1>. QED
  BY <1>1, <1>2, <1>5 DEF OwnInv, TargetInv

\* The bookkeeping of commits and journals holds whatever fails.
LEMMA Bookkeeping == Spec => [](IndInv /\ PostInv /\ HandleInv /\ TargetInv)
<1>1. Init => PostInv /\ HandleInv /\ TargetInv
  BY InitDurable
<1>2. IndInv /\ PostInv /\ HandleInv /\ TargetInv /\ [Next]_vars
        => PostInv' /\ HandleInv' /\ TargetInv'
  BY PostStep, HandleStep, TargetStep DEF IndInv
<1>. QED
  BY <1>1, <1>2, Invariant, PTL DEF Spec

\* The promise invariant holds where a failed rename never leaves the journal at
\* its temporary path.
LEMMA PromiseInvariant ==
  ASSUME ~CompactMayFail PROVE Spec => []PromiseInv
<1>1. Init => PromiseInv
  BY InitDurable
<1>2. IndInv /\ PostInv /\ HandleInv /\ PromiseInv /\ [Next]_vars => PromiseInv'
  BY PromiseStep DEF IndInv
<1>. QED
  BY <1>1, <1>2, Bookkeeping, PTL DEF Spec

\* No own journal is left without its intent, where neither an open nor an unlink
\* is cut short.
LEMMA OwnInvariant ==
  ASSUME ~CrashDuringOpen, ~UnlinkMayFail PROVE Spec => []OwnInv
<1>1. Init => OwnInv
  BY InitDurable
<1>2. IndInv /\ PostInv /\ HandleInv /\ OwnInv /\ [Next]_vars => OwnInv'
  BY OwnStep DEF IndInv
<1>. QED
  BY <1>1, <1>2, Bookkeeping, PTL DEF Spec

\* In every state of every operation, of a recovery and of the crashes inside it
\* too, some file on disk holds the last promise: the archive, the journal or one
\* that a recovery kept (FileMount::flush, open_with_recovery).
THEOREM PromiseIsOnDisk ==
  ASSUME ~CompactMayFail PROVE Spec => []PromiseOnDisk
<1>1. IndInv /\ PromiseInv => PromiseOnDisk
  <2>. SUFFICES ASSUME IndInv, PromiseInv PROVE PromiseOnDisk
    OBVIOUS
  <2>1. archive.ver # NoVersion
    BY DEF IndInv, VersionInv, NoVersion
  <2>2. Promising(archive.ver) \/ Backed
          \/ (vmdirty.mark # NoVersion /\ Promising(vmdirty.mark))
    BY DEF PromiseInv, JournalKeeps, ArchiveKeeps, Lost
  <2>. QED
    BY <2>1, <2>2 DEF PromiseOnDisk, Backed, Promising
<1>. QED
  BY <1>1, Bookkeeping, PromiseInvariant, PTL

\* What flush or a commit returned Ok for is in what the next open shows, after
\* any crash outside open.
THEOREM PromiseIsKept ==
  ASSUME ~CompactMayFail, ~CrashDuringOpen PROVE Spec => []PromiseKept
<1>1. IndInv /\ PromiseInv => PromiseKept
  <2>. SUFFICES ASSUME IndInv, PromiseInv, pc = "closed", Durable # NoVersion
                PROVE  promised \in includes[Durable]
    BY DEF PromiseKept
  <2>1. Durable = IF MatchesPost THEN archive.ver ELSE JournalShows
    BY DurableShows DEF IndInv
  <2>2. (MatchesPost => Promising(archive.ver)) /\ JournalKeeps /\ ~Lost
    BY DEF PromiseInv, ArchiveKeeps, Lost, ReplaceSteps
  <2>3. JournalShows # NoVersion => Promising(JournalShows)
    BY <2>2 DEF JournalShows, JournalKeeps, ArchiveKeeps, Readable
  <2>. QED
    BY <2>1, <2>2, <2>3 DEF Promising
<1>. QED
  BY <1>1, Bookkeeping, PromiseInvariant, PTL

\* The default handler refuses an archive that no other program touched only where
\* no marker covers any record of its journal; and everything that was promised is
\* then in the archive, so that a Discard loses nothing that a flush had covered
\* (DefaultRecoveryHandler::decide).
THEOREM RefusalsAreUnflushed ==
  ASSUME ~CrashDuringOpen, ~UnlinkMayFail, ~CompactMayFail
  PROVE  Spec => []RefusesOnlyUnflushed
<1>1. IndInv /\ OwnInv /\ PromiseInv => RefusesOnlyUnflushed
  <2>. SUFFICES ASSUME IndInv, OwnInv, PromiseInv, pc = "closed", DefaultRefuses,
                       foreign = 0
                PROVE  Unflushed /\ promised \in includes[archive.ver]
    BY DEF RefusesOnlyUnflushed
  <2>1. ~MatchesPost /\ vmdirty.state # "absent" /\ DefaultDecision = "Abort"
    BY DEF DefaultRefuses, IndInv, TornIsRepairable
  <2>2. vmdirty.state = "ready"
    BY <2>1 DEF IndInv, TypeOK, Journals, OwnInv
  <2>3. Readable
    BY <2>1, <2>2 DEF OwnInv, Readable
  <2>4. Unflushed
    BY <2>1, <2>3 DEF DefaultDecision, Unflushed
  <2>5. JournalKeeps /\ ~Lost
    BY DEF PromiseInv, ReplaceSteps, Lost
  <2>6. Promising(archive.ver)
    BY <2>4, <2>5 DEF Unflushed, JournalKeeps, ArchiveKeeps, Readable
  <2>. QED
    BY <2>4, <2>6 DEF Promising
<1>. QED
  BY <1>1, Bookkeeping, OwnInvariant, PromiseInvariant, PTL

\* A commit of the mount's own, finished or cut short anywhere, is never taken for
\* an archive of another program (vmdirty_source_changed).
THEOREM NoOwnConflict ==
  ASSUME ~CrashDuringOpen, ~UnlinkMayFail PROVE Spec => []CommitNeverConflicts
<1>1. IndInv /\ OwnInv => CommitNeverConflicts
  <2>. SUFFICES ASSUME IndInv, OwnInv, pc = "closed", SourceChanged, ~MatchesPost,
                       ~(foreign > 0)
                PROVE  FALSE
    BY DEF CommitNeverConflicts
  <2>1. foreign = 0 /\ vmdirty.state = "ready"
    BY DEF IndInv, TypeOK, SourceChanged
  <2>. QED
    BY <2>1 DEF OwnInv
<1>. QED
  BY <1>1, Bookkeeping, OwnInvariant, PTL

\* The mount implements the durable store: an open, whatever it finds and repairs,
\* shows what was durable when it began, and each flush, journal compaction and
\* commit makes the live version durable in one step, or not at all.
THEOREM MountIsDurable ==
  ASSUME ~CrashDuringOpen, ~CompactMayFail, ~UnlinkMayFail
  PROVE  Spec => ImplementsStore
<1>1. Init => Store!Init
  <2>. SUFFICES ASSUME Init PROVE Store!Init
    OBVIOUS
  <2>1. Phase = "closed" /\ pc \notin OpenSteps
    BY DEF Init, Phase, SessionSteps, CommitSteps, OpenSteps
  <2>2. Durable = 1
    BY DEF Init, Durable, PrefixIsPre, MatchesPost, Recorded, NoIntent, NoJournal
  <2>. QED
    BY <2>1, <2>2 DEF Init, Store!Init, Shown, NoVersion
<1>2. IndInv /\ PostInv /\ HandleInv /\ TargetInv /\ OwnInv /\ IndInv' /\ [Next]_vars
        => [Store!Next]_<<Phase, storelive, Shown, archive.ver, issued>>
  BY StoreStep DEF IndInv
<1>. QED
  BY <1>1, <1>2, Bookkeeping, OwnInvariant, PTL
     DEF Spec, ImplementsStore, Store!Spec, storelive
=============================================================================
