-------------------------- MODULE ReplayStore_proofs --------------------------
(***************************************************************************)
(* Proofs about ReplayStore and ArtifactStaging, for any number of calls,  *)
(* heads, I/O errors and power losses.                                     *)
(*                                                                         *)
(* The argument.  A directory entry that has been synced is there          *)
(* (SyncedMarkerIsThere): the marker's name is only ever given to a file   *)
(* when nobody has it, and a power loss restores a state in which the      *)
(* synced entry is present.  A claim gets past its directory sync only     *)
(* when it found the name taken, by itself or by another call, so that     *)
(* from then on some marker is durable (PastSyncIsDurable), and a call     *)
(* that is told it won is the one that this marker belongs to.  While a    *)
(* call runs alone nobody moves a name that it has looked up (OnTrack).    *)
(*                                                                         *)
(* Of artifacts: names are synced before they are reported, and a file is  *)
(* synced by whoever filled it (VerifiedIsWhole, OwnFilesAreFilled).       *)
(***************************************************************************)
EXTENDS MCReplayStore, TLAPS

\* The program counters of a claim that has not tried to publish yet.
BeforeLink == {"idle", "temp", "written", "verified"}

\* A claim's steps between the publication and the directory sync, and after it.
BeforeSync == {"linked", "lstat", "unlink", "syncDirectory"}
AfterSync  == {"recover", "scan", "open", "fstat", "unlinkTemp", "syncRecovered", "read"}

SyncedMarkerIsThere == diskMarker # NoOp => marker = diskMarker

StatusFollowsPC ==
    \A op \in Op :
        /\ pc[op] \in BeforeLink => status[op] = "none"
        /\ marker = op => status[op] = "created"

PublishedIsTaken ==
    \A op \in Op : pc[op] \in BeforeSync /\ op \notin failed => marker # NoOp

PastSyncIsDurable ==
    \A op \in Op :
        pc[op] \in AfterSync /\ call[op].kind # "inspectActivation" => diskMarker # NoOp

ContentsAreSynced ==
    /\ \A op \in Op :
        /\ pc[op] \in {"written", "verified"} => op \in written
        /\ pc[op] = "verified" => op \in diskWritten
    /\ MarkerIsComplete

AnswerIsTrue ==
    \A op \in Op : answer[op] \in Won \cup Lost =>
        /\ told[op] = marker
        /\ diskMarker = marker
        /\ marker # NoOp
        /\ answer[op] \in Won <=> marker = op

AnswersComeLast == \A op \in Op : pc[op] # "done" => answer[op] = "none"

IInv ==
    /\ TypeOK
    /\ AnswersComeLast
    /\ SyncedMarkerIsThere
    /\ StatusFollowsPC
    /\ PublishedIsTaken
    /\ PastSyncIsDurable
    /\ ContentsAreSynced
    /\ AnswerIsTrue

-----------------------------------------------------------------------------
(* Type correctness *)

\* Every call that is answered gets one of the answers its entry point has.
LEMMA ResultOfType ==
    ASSUME NEW op \in Op, NEW inode \in Op, TypeOK
    PROVE  ResultOf(op, inode) \in Answers
BY DEF ResultOf, TypeOK, Calls, Answers, Won, Lost

\* Every store starts within the types.
LEMMA TypeInit == Init => TypeOK
BY ConstantsAssumption DEF Init, TypeOK, PC, Answers

\* No step of a call, fault, crash or power loss leaves the types.
LEMMA TypeStep == TypeOK /\ [Next]_vars => TypeOK'
<1> SUFFICES ASSUME TypeOK, [Next]_vars PROVE TypeOK'
  OBVIOUS
<1> USE DEF TypeOK, Goto, PC, RunningPC, PublishPC, CleanupPC, ReadPC, Answers, Won, Lost,
            dir, disk, ghosts, callVars, answers, Return, Throw, NoteOverlap
<1>1. ASSUME NEW op \in Op, CreateTemporaryMarker(op) PROVE TypeOK'
  BY <1>1 DEF CreateTemporaryMarker
<1>2. ASSUME NEW op \in Op, WriteTemporary(op) PROVE TypeOK'
  BY <1>2 DEF WriteTemporary
<1>3. ASSUME NEW op \in Op, SyncTemporary(op) PROVE TypeOK'
  BY <1>3 DEF SyncTemporary
<1>4. ASSUME NEW op \in Op, LinkMarker(op) PROVE TypeOK'
  BY <1>4 DEF LinkMarker
<1>5. ASSUME NEW op \in Op, AssertPublishedLink(op) PROVE TypeOK'
  BY <1>5 DEF AssertPublishedLink
<1>6. ASSUME NEW op \in Op, InspectTemporary(op) PROVE TypeOK'
  BY <1>6 DEF InspectTemporary
<1>7. ASSUME NEW op \in Op, UnlinkTemporary(op) PROVE TypeOK'
  BY <1>7 DEF UnlinkTemporary
<1>8. ASSUME NEW op \in Op, SyncDirectory(op) PROVE TypeOK'
  BY <1>8 DEF SyncDirectory
<1>9. ASSUME NEW op \in Op, InspectActivation(op) PROVE TypeOK'
  BY <1>9 DEF InspectActivation
<1>10. ASSUME NEW op \in Op, StatMarker(op) PROVE TypeOK'
  BY <1>10 DEF StatMarker
<1>11. ASSUME NEW op \in Op, ScanDirectory(op) PROVE TypeOK'
  BY <1>11 DEF ScanDirectory
<1>12. ASSUME NEW op \in Op, OpenRecovered(op) PROVE TypeOK'
  BY <1>12 DEF OpenRecovered
<1>13. ASSUME NEW op \in Op, AssertRecoverable(op) PROVE TypeOK'
  BY <1>13 DEF AssertRecoverable
<1>14. ASSUME NEW op \in Op, UnlinkRecovered(op) PROVE TypeOK'
  BY <1>14 DEF UnlinkRecovered
<1>15. ASSUME NEW op \in Op, SyncRecovered(op) PROVE TypeOK'
  BY <1>15 DEF SyncRecovered
<1>16. ASSUME NEW op \in Op, ReadMarker(op) PROVE TypeOK'
  BY <1>16, ResultOfType DEF ReadMarker
<1>17. ASSUME NEW op \in Op, IoError(op) PROVE TypeOK'
  BY <1>17 DEF IoError
<1>18. ASSUME NEW op \in Op, Crash(op) PROVE TypeOK'
  BY <1>18 DEF Crash
<1>19. CASE PowerLoss
  BY <1>19, ConstantsAssumption DEF PowerLoss
<1>20. CASE UNCHANGED vars
  BY <1>20 DEF vars
<1> QED
  BY <1>1, <1>2, <1>3, <1>4, <1>5, <1>6, <1>7, <1>8, <1>9, <1>10, <1>11, <1>12, <1>13, <1>14, <1>15, <1>16, <1>17, <1>18, <1>19, <1>20 DEF Next, Step

\* The store's variables stay within their types, in every behaviour.
THEOREM TypeCorrect == Spec => []TypeOK
BY TypeInit, TypeStep, PTL DEF Spec

-----------------------------------------------------------------------------
(* The inductive invariant *)

\* A call is only told that it won, or lost, by an entry point that claims; it won
\* exactly if it created the marker.
LEMMA ResultOfClaim ==
    ASSUME NEW op \in Op, NEW inode \in Op, TypeOK,
           ResultOf(op, inode) \in Won \cup Lost
    PROVE  /\ call[op].kind # "inspectActivation"
           /\ ResultOf(op, inode) \in Won <=> status[op] = "created"
BY DEF ResultOf, TypeOK, Calls, Won, Lost

\* An empty directory with no call running satisfies the invariant.
LEMMA InvInit == Init => IInv
BY TypeInit, ConstantsAssumption
   DEF Init, IInv, AnswersComeLast, SyncedMarkerIsThere, StatusFollowsPC, PublishedIsTaken,
       PastSyncIsDurable, ContentsAreSynced, MarkerIsComplete, AnswerIsTrue,
       BeforeLink, BeforeSync, AfterSync, Won, Lost

\* Every step of the store preserves the invariant: one step per action below.
LEMMA InvStep == IInv /\ [Next]_vars => IInv'
<1> SUFFICES ASSUME IInv, [Next]_vars PROVE IInv'
  OBVIOUS
<1>t. TypeOK /\ TypeOK'
  BY TypeStep DEF IInv
<1> USE <1>t, ConstantsAssumption
     DEF IInv, AnswersComeLast, SyncedMarkerIsThere, StatusFollowsPC, PublishedIsTaken,
         PastSyncIsDurable, ContentsAreSynced, MarkerIsComplete, AnswerIsTrue,
         BeforeLink, BeforeSync, AfterSync, Won, Lost,
         TypeOK, Goto, dir, disk, ghosts, callVars, answers, Return, Throw
<1>1. ASSUME NEW op \in Op, CreateTemporaryMarker(op) PROVE IInv'
  BY <1>1 DEF CreateTemporaryMarker
<1>2. ASSUME NEW op \in Op, WriteTemporary(op) PROVE IInv'
  BY <1>2 DEF WriteTemporary
<1>3. ASSUME NEW op \in Op, SyncTemporary(op) PROVE IInv'
  BY <1>3 DEF SyncTemporary
<1>4. ASSUME NEW op \in Op, LinkMarker(op) PROVE IInv'
  BY <1>4 DEF LinkMarker
<1>5. ASSUME NEW op \in Op, AssertPublishedLink(op) PROVE IInv'
  BY <1>5 DEF AssertPublishedLink
<1>6. ASSUME NEW op \in Op, InspectTemporary(op) PROVE IInv'
  BY <1>6 DEF InspectTemporary
<1>7. ASSUME NEW op \in Op, UnlinkTemporary(op) PROVE IInv'
  BY <1>7 DEF UnlinkTemporary
<1>8. ASSUME NEW op \in Op, SyncDirectory(op) PROVE IInv'
  BY <1>8 DEF SyncDirectory
<1>9. ASSUME NEW op \in Op, InspectActivation(op) PROVE IInv'
  BY <1>9 DEF InspectActivation
<1>10. ASSUME NEW op \in Op, StatMarker(op) PROVE IInv'
  BY <1>10 DEF StatMarker
<1>11. ASSUME NEW op \in Op, ScanDirectory(op) PROVE IInv'
  BY <1>11 DEF ScanDirectory
<1>12. ASSUME NEW op \in Op, OpenRecovered(op) PROVE IInv'
  BY <1>12 DEF OpenRecovered
<1>13. ASSUME NEW op \in Op, AssertRecoverable(op) PROVE IInv'
  BY <1>13 DEF AssertRecoverable
<1>14. ASSUME NEW op \in Op, UnlinkRecovered(op) PROVE IInv'
  BY <1>14 DEF UnlinkRecovered
<1>15. ASSUME NEW op \in Op, SyncRecovered(op) PROVE IInv'
  BY <1>15 DEF SyncRecovered
<1>16. ASSUME NEW op \in Op, ReadMarker(op) PROVE IInv'
  <2> DEFINE result == ResultOf(op, marker)
             readable == /\ Links(marker) = 1
                         /\ marker \in written
                         /\ status[op] = "created" => marker = op
  <2>1. CASE readable
    <3>1. marker \in Op
      BY <2>1
    <3>2. result \in Won \cup Lost =>
             /\ call[op].kind # "inspectActivation"
             /\ result \in Won <=> status[op] = "created"
      BY <3>1, ResultOfClaim
    <3>a. call[op].kind # "inspectActivation" => diskMarker = marker
      BY <1>16 DEF ReadMarker
    <3>b. status[op] = "created" <=> marker = op
      BY <2>1
    <3>3. result \in Won \cup Lost => diskMarker = marker /\ (result \in Won <=> marker = op)
      BY ONLY <3>2, <3>a, <3>b
    <3>4. UNCHANGED <<dir, disk, callVars>> /\ Return(op, result, marker)
      BY <1>16, <2>1 DEF ReadMarker
    <3> HIDE DEF result
    <3> QED
      BY <2>1, <3>1, <3>3, <3>4, <1>16 DEF ReadMarker
  <2>2. CASE ~readable
    BY <1>16, <2>2 DEF ReadMarker
  <2> QED
    BY <2>1, <2>2
<1>17. ASSUME NEW op \in Op, IoError(op) PROVE IInv'
  BY <1>17 DEF IoError, PublishPC, CleanupPC, ReadPC
<1>18. ASSUME NEW op \in Op, Crash(op) PROVE IInv'
  BY <1>18 DEF Crash, Running, RunningPC, PublishPC, CleanupPC, ReadPC
<1>19. CASE PowerLoss
  BY <1>19 DEF PowerLoss, Running, RunningPC, PublishPC, CleanupPC, ReadPC
<1>20. CASE UNCHANGED vars
  BY <1>20 DEF vars
<1> QED
  BY <1>1, <1>2, <1>3, <1>4, <1>5, <1>6, <1>7, <1>8, <1>9, <1>10, <1>11, <1>12, <1>13, <1>14, <1>15, <1>16, <1>17, <1>18, <1>19, <1>20 DEF Next, Step

\* The inductive invariant holds in every behaviour of the store.
THEOREM Invariance == Spec => []IInv
BY InvInit, InvStep, PTL DEF Spec

-----------------------------------------------------------------------------
(* What the store promises *)

\* At most one call is told that it consumed the quote, however many calls, crashes,
\* I/O errors and power losses there are.
THEOREM OneWinner == Spec => []AtMostOneWinner
<1>1. IInv => AtMostOneWinner
  BY DEF IInv, AnswerIsTrue, AtMostOneWinner
<1> QED
  BY <1>1, Invariance, PTL

\* What a claim was told describes the marker that is there, now and after a power loss.
THEOREM AnswersAreDurable == Spec => []AnsweredClaimIsDurable
<1>1. IInv => AnsweredClaimIsDurable
  BY DEF IInv, AnswerIsTrue, AnsweredClaimIsDurable
<1> QED
  BY <1>1, Invariance, PTL

\* The marker's name always leads to a complete file.
THEOREM CompleteMarkers == Spec => []MarkerIsComplete
<1>1. IInv => MarkerIsComplete
  BY DEF IInv, ContentsAreSynced
<1> QED
  BY <1>1, Invariance, PTL

\* After the first answer the marker never changes again.
THEOREM FinalConsumption == Spec => ConsumptionIsFinal
<1>1. IInv /\ IInv' /\ [Next]_vars
        => [(\E op \in Op : answer[op] \in Won \cup Lost) => marker' = marker]_vars
  <2> SUFFICES ASSUME IInv, [Next]_vars, NEW op \in Op, answer[op] \in Won \cup Lost
               PROVE  marker' = marker
    BY Zenon
  <2>1. marker # NoOp /\ diskMarker = marker
    BY DEF IInv, AnswerIsTrue
  <2>2. CASE PowerLoss
    BY <2>1, <2>2 DEF PowerLoss
  <2>3. CASE UNCHANGED vars
    BY <2>3 DEF vars
  <2>4. ASSUME NEW p \in Op, Step(p) \/ IoError(p) \/ Crash(p) PROVE marker' = marker
    BY <2>1, <2>4
       DEF Step, CreateTemporaryMarker, WriteTemporary, SyncTemporary, LinkMarker,
           AssertPublishedLink, InspectTemporary, UnlinkTemporary, SyncDirectory,
           InspectActivation, StatMarker, ScanDirectory, OpenRecovered, AssertRecoverable,
           UnlinkRecovered, SyncRecovered, ReadMarker, IoError, Crash, dir, disk
  <2> QED
    BY <2>2, <2>3, <2>4 DEF Next
<1> QED
  BY <1>1, Invariance, PTL DEF ConsumptionIsFinal, Spec
-----------------------------------------------------------------------------
(* The store implements ReplayClaim *)

\* A store with no marker and no answers is a claim that nobody has won.
LEMMA ClaimInit == Init => Claim!CInit
BY ConstantsAssumption DEF Init, Claim!CInit, ClaimAnswer, Abstracted, Won, Lost

\* A step that neither moves the marker nor answers a call is invisible.
LEMMA InvisibleStep ==
    ASSUME marker' = marker, answer' = answer, call' = call
    PROVE  UNCHANGED Claim!cvars
BY DEF Claim!cvars, ClaimAnswer

\* An answer of the store is an answer of the abstract claim.
LEMMA AnswerStep ==
    ASSUME IInv, NEW op \in Op, NEW r \in Answers \ {"none"},
           marker' = marker, call' = call,
           answer[op] = "none", answer' = [answer EXCEPT ![op] = r],
           r \in Won => marker = op,
           r \in Lost => marker \in Op \ {op}
    PROVE  [Claim!CNext]_(Claim!cvars)
<1> DEFINE a == Abstracted(call[op].kind, r)
<1>1. ClaimAnswer[op] = "none"
  BY DEF ClaimAnswer, Abstracted, Won, Lost
<1>2. ClaimAnswer' = [ClaimAnswer EXCEPT ![op] = a]
  <2>1. \A p \in Op : answer'[p] = IF p = op THEN r ELSE answer[p]
    BY DEF IInv, TypeOK
  <2>2. ClaimAnswer' = [p \in Op |-> Abstracted(call'[p].kind, answer'[p])]
    BY DEF ClaimAnswer
  <2>3. \A p \in Op : Abstracted(call[p].kind, answer'[p])
                        = IF p = op THEN a ELSE ClaimAnswer[p]
    BY <2>1 DEF ClaimAnswer
  <2>4. ClaimAnswer' = [p \in Op |-> IF p = op THEN a ELSE ClaimAnswer[p]]
    BY <2>2, <2>3
  <2>5. DOMAIN ClaimAnswer = Op
    BY DEF ClaimAnswer
  <2> HIDE DEF a
  <2> QED
    BY <2>4, <2>5
<1>3. CASE a = "won"
  <2>1. r \in Won
    BY <1>3 DEF Abstracted
  <2> QED
    BY <1>1, <1>2, <1>3, <2>1 DEF Claim!CNext, Claim!Win
<1>4. CASE a = "lost"
  <2>1. r \in Lost
    BY <1>4 DEF Abstracted
  <2>2. marker \notin {op, NoOp}
    BY <2>1, ConstantsAssumption
  <2> QED
    BY <1>1, <1>2, <1>4, <2>2 DEF Claim!CNext, Claim!Lose
<1>5. CASE a = "thrown"
  BY <1>1, <1>2, <1>5 DEF Claim!CNext, Claim!Throw
<1>6. CASE a = "none"
  <2>1. ClaimAnswer' = ClaimAnswer
    BY <1>1, <1>2, <1>6, Zenon DEF ClaimAnswer
  <2> QED
    BY <2>1 DEF Claim!cvars
<1>7. a \in {"won", "lost", "thrown", "none"}
  BY DEF Abstracted
<1> HIDE DEF a
<1> QED
  BY <1>3, <1>4, <1>5, <1>6, <1>7

\* Every step of the store is a step of the claim, or invisible.
LEMMA ClaimStep == IInv /\ [Next]_vars => [Claim!CNext]_(Claim!cvars)
<1> SUFFICES ASSUME IInv, [Next]_vars PROVE [Claim!CNext]_(Claim!cvars)
  OBVIOUS
<1> USE DEF dir, disk, ghosts, callVars, answers
<1>1. ASSUME NEW op \in Op, LinkMarker(op) PROVE [Claim!CNext]_(Claim!cvars)
  <2>1. CASE marker = NoOp
    <3>1. marker' = op /\ ClaimAnswer' = ClaimAnswer
      BY <1>1, <2>1 DEF LinkMarker, ClaimAnswer
    <3>2. ClaimAnswer[op] = "none"
      BY <1>1 DEF LinkMarker, IInv, AnswersComeLast, ClaimAnswer, Abstracted, Won, Lost
    <3> QED
      BY <2>1, <3>1, <3>2 DEF Claim!CNext, Claim!Consume
  <2>2. CASE marker # NoOp
    BY <1>1, <2>2, InvisibleStep DEF LinkMarker
  <2> QED
    BY <2>1, <2>2
<1>2. ASSUME NEW op \in Op, NEW i \in Op \cup {NoOp}, NEW r \in {"absent", "thrown"},
             Return(op, r, i), UNCHANGED <<marker, call>>, pc[op] # "done"
      PROVE  [Claim!CNext]_(Claim!cvars)
  BY <1>2, AnswerStep DEF Return, IInv, AnswersComeLast, Answers, Won, Lost
<1>3. ASSUME NEW op \in Op, ReadMarker(op) PROVE [Claim!CNext]_(Claim!cvars)
  <2> DEFINE r == ResultOf(op, marker)
             readable == /\ Links(marker) = 1
                         /\ marker \in written
                         /\ status[op] = "created" => marker = op
  <2>1. CASE readable
    <3>1. marker \in Op /\ TypeOK
      BY <2>1 DEF IInv, TypeOK
    <3>2. Return(op, r, marker) /\ UNCHANGED <<marker, call>> /\ answer[op] = "none"
      BY <1>3, <2>1 DEF ReadMarker, IInv, AnswersComeLast
    <3>3. r \in Answers \ {"none"}
      BY <3>1 DEF ResultOf, Answers, Won, Lost, TypeOK, Calls
    <3>4. r \in Won => marker = op
      BY <2>1, <3>1, ResultOfClaim
    <3>5. r \in Lost => marker \in Op \ {op}
      BY <3>1, ResultOfClaim DEF IInv, StatusFollowsPC, Won, Lost
    <3> HIDE DEF r
    <3> QED
      BY <3>2, <3>3, <3>4, <3>5, AnswerStep DEF Return
  <2>2. CASE ~readable
    <3>1. Return(op, "thrown", NoOp) /\ UNCHANGED <<marker, call>> /\ pc[op] # "done"
      BY <1>3, <2>2 DEF ReadMarker, Throw
    <3> QED
      BY <3>1, <1>2
  <2> QED
    BY <2>1, <2>2
<1>4. CASE PowerLoss
  <2>1. ClaimAnswer' = ClaimAnswer
    BY <1>4 DEF PowerLoss, ClaimAnswer
  <2>2. CASE marker' = marker
    BY <2>1, <2>2 DEF Claim!cvars
  <2>3. CASE marker' # marker
    <3>1. marker' = NoOp
      BY <1>4, <2>3 DEF PowerLoss, IInv, SyncedMarkerIsThere
    <3>2. \A op \in Op : answer[op] \notin Won \cup Lost
      BY <1>4, <2>3 DEF PowerLoss, IInv, AnswerIsTrue
    <3>3. \A op \in Op : ClaimAnswer[op] \in {"none", "thrown"}
      BY <3>2 DEF ClaimAnswer, Abstracted
    <3> QED
      BY <2>1, <3>1, <3>3 DEF Claim!CNext, Claim!Forget
  <2> QED
    BY <2>2, <2>3
<1>5. ASSUME NEW op \in Op, CreateTemporaryMarker(op) PROVE [Claim!CNext]_(Claim!cvars)
  BY <1>5, InvisibleStep DEF CreateTemporaryMarker
<1>6. ASSUME NEW op \in Op, WriteTemporary(op) PROVE [Claim!CNext]_(Claim!cvars)
  BY <1>6, InvisibleStep DEF WriteTemporary
<1>7. ASSUME NEW op \in Op, SyncTemporary(op) PROVE [Claim!CNext]_(Claim!cvars)
  BY <1>7, InvisibleStep DEF SyncTemporary
<1>8. ASSUME NEW op \in Op, AssertPublishedLink(op) PROVE [Claim!CNext]_(Claim!cvars)
  BY <1>8, InvisibleStep DEF AssertPublishedLink
<1>9. ASSUME NEW op \in Op, InspectTemporary(op) PROVE [Claim!CNext]_(Claim!cvars)
  BY <1>9, InvisibleStep DEF InspectTemporary
<1>10. ASSUME NEW op \in Op, UnlinkTemporary(op) PROVE [Claim!CNext]_(Claim!cvars)
  BY <1>10, InvisibleStep DEF UnlinkTemporary
<1>11. ASSUME NEW op \in Op, StatMarker(op) PROVE [Claim!CNext]_(Claim!cvars)
  BY <1>11, InvisibleStep DEF StatMarker
<1>12. ASSUME NEW op \in Op, Crash(op) PROVE [Claim!CNext]_(Claim!cvars)
  BY <1>12, InvisibleStep DEF Crash
<1>13. ASSUME NEW op \in Op, SyncDirectory(op) PROVE [Claim!CNext]_(Claim!cvars)
  BY <1>13, <1>2, InvisibleStep DEF SyncDirectory, Throw
<1>14. ASSUME NEW op \in Op, InspectActivation(op) PROVE [Claim!CNext]_(Claim!cvars)
  BY <1>14, <1>2, InvisibleStep DEF InspectActivation, Throw
<1>15. ASSUME NEW op \in Op, ScanDirectory(op) PROVE [Claim!CNext]_(Claim!cvars)
  BY <1>15, <1>2, InvisibleStep DEF ScanDirectory, Throw
<1>16. ASSUME NEW op \in Op, OpenRecovered(op) PROVE [Claim!CNext]_(Claim!cvars)
  BY <1>16, <1>2, InvisibleStep DEF OpenRecovered, Throw
<1>17. ASSUME NEW op \in Op, AssertRecoverable(op) PROVE [Claim!CNext]_(Claim!cvars)
  BY <1>17, <1>2, InvisibleStep DEF AssertRecoverable, Throw
<1>18. ASSUME NEW op \in Op, UnlinkRecovered(op) PROVE [Claim!CNext]_(Claim!cvars)
  BY <1>18, <1>2, InvisibleStep DEF UnlinkRecovered, Throw
<1>19. ASSUME NEW op \in Op, SyncRecovered(op) PROVE [Claim!CNext]_(Claim!cvars)
  BY <1>19, <1>2, InvisibleStep DEF SyncRecovered, Throw
<1>20. ASSUME NEW op \in Op, IoError(op) PROVE [Claim!CNext]_(Claim!cvars)
  BY <1>20, <1>2, InvisibleStep DEF IoError, Throw, PublishPC, CleanupPC, ReadPC
<1>21. CASE UNCHANGED vars
  BY <1>21, InvisibleStep DEF vars
<1> QED
  BY <1>1, <1>3, <1>4, <1>5, <1>6, <1>7, <1>8, <1>9, <1>10, <1>11, <1>12, <1>13, <1>14, <1>15, <1>16, <1>17, <1>18, <1>19, <1>20, <1>21 DEF Next, Step

\* The file system protocol implements the atomic claim that its callers rely on.
THEOREM Refinement == Spec => ImplementsReplayClaim
<1>1. Spec => Claim!CInit /\ [][Claim!CNext]_(Claim!cvars)
  BY ClaimInit, ClaimStep, Invariance, PTL DEF Spec
<1> QED
  BY <1>1 DEF ImplementsReplayClaim, Claim!CSpec
-----------------------------------------------------------------------------
(* A call that runs alone recovers whatever it finds *)

Alone(op) == Running(op) /\ op \notin overlapped

LoneCallIsAlone == \A op, q \in Op : Alone(op) /\ Running(q) => q = op

\* A call that has not begun has failed at nothing and has no file.
IdleIsFresh == \A op \in Op : pc[op] = "idle" => op \notin failed

\* How far a lone call without an I/O error has got: the marker it created is its own, past
\* the link there is a marker, and while it recovers that marker nobody else unlinks the
\* temporary name; the marker it reads has one name.
OnTrack(op) ==
    /\ op \notin failed
    /\ status[op] = "created" => marker = op
    /\ pc[op] = "linked" => status[op] = "created"
    /\ pc[op] \in AfterSync => marker # NoOp
    /\ pc[op] \in {"scan", "open", "fstat", "unlinkTemp"} => seen[op] = marker /\ marker \in temps
    /\ pc[op] = "syncRecovered" => seen[op] = marker
    /\ pc[op] \in {"syncRecovered", "read"} => marker \notin temps

LoneCallIsOnTrack == \A op \in Op : Alone(op) /\ op \notin faulty => OnTrack(op)

LoneInv == IInv /\ LoneCallIsAlone /\ IdleIsFresh /\ LoneCallIsOnTrack /\ LoneCallRecovers

\* A file with the marker's name has one link more if its temporary name is left.
LEMMA MarkerLinks ==
    /\ marker \in temps => Links(marker) = 2
    /\ marker \notin temps => Links(marker) = 1
    /\ \A op : op # marker /\ op \in temps => Links(op) = 1
BY DEF Links

\* A step of one call leaves the others where they are; it was running already, or it has
\* just begun and looks who else is running.
LEMMA OneCallMoves ==
    ASSUME TypeOK, NEW op \in Op, Step(op) \/ IoError(op) \/ Crash(op)
    PROVE  /\ \A q \in Op \ {op} :
              /\ pc'[q] = pc[q] /\ status'[q] = status[q]
              /\ answer'[q] = answer[q] /\ told'[q] = told[q]
              /\ q \in failed' <=> q \in failed
           /\ call' = call /\ overlapped \subseteq overlapped' /\ faulty \subseteq faulty'
           /\ \/ Running(op) /\ overlapped' = overlapped
              \/ pc[op] = "idle" /\ NoteOverlap(op)
<1> DEFINE Moves == /\ \A q \in Op \ {op} :
                       /\ pc'[q] = pc[q] /\ status'[q] = status[q]
                       /\ answer'[q] = answer[q] /\ told'[q] = told[q]
                       /\ q \in failed' <=> q \in failed
                    /\ call' = call /\ overlapped \subseteq overlapped' /\ faulty \subseteq faulty'
                    /\ \/ Running(op) /\ overlapped' = overlapped
                       \/ pc[op] = "idle" /\ NoteOverlap(op)
<1> USE DEF TypeOK, Goto, Return, Throw, Running, RunningPC, PublishPC, CleanupPC, ReadPC,
            callVars, answers, ghosts
<1>1. CASE CreateTemporaryMarker(op)
  BY <1>1 DEF CreateTemporaryMarker, NoteOverlap
<1>2. CASE WriteTemporary(op)
  BY <1>2 DEF WriteTemporary
<1>3. CASE SyncTemporary(op)
  BY <1>3 DEF SyncTemporary
<1>4. CASE LinkMarker(op)
  BY <1>4 DEF LinkMarker
<1>5. CASE AssertPublishedLink(op)
  BY <1>5 DEF AssertPublishedLink
<1>6. CASE InspectTemporary(op)
  BY <1>6 DEF InspectTemporary
<1>7. CASE UnlinkTemporary(op)
  BY <1>7 DEF UnlinkTemporary
<1>8. CASE SyncDirectory(op)
  BY <1>8 DEF SyncDirectory
<1>9. CASE InspectActivation(op)
  BY <1>9 DEF InspectActivation, NoteOverlap
<1>10. CASE StatMarker(op)
  BY <1>10 DEF StatMarker
<1>11. CASE ScanDirectory(op)
  BY <1>11 DEF ScanDirectory
<1>12. CASE OpenRecovered(op)
  BY <1>12 DEF OpenRecovered
<1>13. CASE AssertRecoverable(op)
  BY <1>13 DEF AssertRecoverable
<1>14. CASE UnlinkRecovered(op)
  BY <1>14 DEF UnlinkRecovered
<1>15. CASE SyncRecovered(op)
  BY <1>15 DEF SyncRecovered
<1>16. CASE ReadMarker(op)
  BY <1>16 DEF ReadMarker
<1>17. CASE IoError(op)
  BY <1>17 DEF IoError
<1>18. CASE Crash(op)
  BY <1>18 DEF Crash
<1> QED
  BY <1>1, <1>2, <1>3, <1>4, <1>5, <1>6, <1>7, <1>8, <1>9, <1>10, <1>11, <1>12, <1>13, <1>14, <1>15, <1>16, <1>17, <1>18 DEF Step

\* A call that runs alone after a step of some call is the one that took the step, and was
\* alone before unless it has just begun.
LEMMA OnlyLoneMoves ==
    ASSUME TypeOK, LoneCallIsAlone,
           NEW op \in Op, Step(op) \/ IoError(op) \/ Crash(op),
           NEW q \in Op, Alone(q)'
    PROVE  /\ q = op
           /\ pc[q] # "idle" => Alone(q)
           /\ \A p \in Op : Running(p)' => p = q
<1>1. /\ \A p \in Op \ {op} : Running(p)' <=> Running(p)
      /\ overlapped \subseteq overlapped'
      /\ \/ Running(op) /\ overlapped' = overlapped
         \/ pc[op] = "idle" /\ NoteOverlap(op)
  BY OneCallMoves DEF Running
<1>2. CASE Running(op) /\ overlapped' = overlapped
  BY <1>1, <1>2 DEF Alone, LoneCallIsAlone
<1>3. CASE pc[op] = "idle" /\ NoteOverlap(op)
  <2> DEFINE others == {p \in Op : Running(p)}
  <2>1. others # {} => overlapped' = overlapped \cup others \cup {op}
    BY <1>3 DEF NoteOverlap
  <2>2. q \notin overlapped' /\ Running(q)'
    BY DEF Alone
  <2>3. q = op \/ q \in others
    BY <1>1, <2>2
  <2>4. others = {}
    BY <2>1, <2>2, <2>3
  <2> QED
    BY <1>1, <1>3, <2>2, <2>3, <2>4
<1> QED
  BY <1>1, <1>2, <1>3

\* After a power loss, or if nothing happens, nobody starts to run.
LEMMA NobodyStarts ==
    ASSUME TypeOK, PowerLoss \/ UNCHANGED vars
    PROVE  /\ call' = call /\ answer' = answer /\ told' = told /\ failed' = failed
           /\ faulty' = faulty /\ overlapped' = overlapped
           /\ \/ \A op \in Op : pc'[op] \notin RunningPC /\ (pc'[op] = "idle" => pc[op] = "idle")
              \/ UNCHANGED vars
<1>1. CASE UNCHANGED vars
  BY <1>1 DEF vars
<1>2. CASE PowerLoss
  BY <1>2 DEF PowerLoss, TypeOK, callVars, answers, Running, RunningPC, PublishPC, CleanupPC, ReadPC
<1> QED
  BY <1>1, <1>2

\* A lone call stays alone, and a call that has not begun has not failed.
LEMMA AloneStep ==
    TypeOK /\ LoneCallIsAlone /\ IdleIsFresh /\ [Next]_vars => LoneCallIsAlone' /\ IdleIsFresh'
<1> SUFFICES ASSUME TypeOK, LoneCallIsAlone, IdleIsFresh, [Next]_vars
             PROVE  LoneCallIsAlone' /\ IdleIsFresh'
  OBVIOUS
<1>1. ASSUME NEW op \in Op, Step(op) \/ IoError(op) \/ Crash(op)
      PROVE  LoneCallIsAlone' /\ IdleIsFresh'
  <2>1. LoneCallIsAlone'
    BY <1>1, OnlyLoneMoves DEF LoneCallIsAlone
  <2>2. pc'[op] # "idle"
    BY <1>1 DEF TypeOK, Goto, Return, Throw, Step, CreateTemporaryMarker, WriteTemporary,
       SyncTemporary, LinkMarker, AssertPublishedLink, InspectTemporary, UnlinkTemporary,
       SyncDirectory, InspectActivation, StatMarker, ScanDirectory, OpenRecovered,
       AssertRecoverable, UnlinkRecovered, SyncRecovered, ReadMarker, IoError, Crash,
       PublishPC, CleanupPC, ReadPC
  <2>3. IdleIsFresh'
    BY <1>1, <2>2, OneCallMoves DEF IdleIsFresh
  <2> QED
    BY <2>1, <2>3
<1>2. CASE PowerLoss \/ UNCHANGED vars
  <2>1. CASE UNCHANGED vars
    BY <2>1 DEF vars, LoneCallIsAlone, IdleIsFresh, Alone, Running
  <2>2. CASE ~UNCHANGED vars
    BY <1>2, <2>2, NobodyStarts DEF LoneCallIsAlone, IdleIsFresh, Alone, Running
  <2> QED
    BY <2>1, <2>2
<1> QED
  BY <1>1, <1>2 DEF Next

\* A lone call stays on its track, whose end is an answer or the marker of the other version.
LEMMA TrackStep == LoneInv /\ [Next]_vars => LoneCallIsOnTrack' /\ LoneCallRecovers'
<1> SUFFICES ASSUME LoneInv, [Next]_vars PROVE LoneCallIsOnTrack' /\ LoneCallRecovers'
  OBVIOUS
<1> DEFINE Good(op) == /\ Running(op) => OnTrack(op)
                       /\ answer[op] = "thrown" => FoundOtherVersion(op)
<1>a. ASSUME NEW op \in Op, Step(op) \/ IoError(op) \/ Crash(op),
             op \notin overlapped' \cup faulty' => Good(op)'
      PROVE  LoneCallIsOnTrack' /\ LoneCallRecovers'
  <2>1. LoneCallIsOnTrack'
    BY <1>a, OnlyLoneMoves DEF LoneCallIsOnTrack, LoneInv, IInv, Alone
  <2>2. ASSUME NEW q \in Op \ {op}, answer'[q] = "thrown", q \notin overlapped' \cup faulty'
        PROVE  FoundOtherVersion(q)'
    <3>1. answer'[q] = answer[q] /\ told'[q] = told[q] /\ call' = call
          /\ q \notin overlapped \cup faulty
      BY <1>a, <2>2, OneCallMoves DEF LoneInv, IInv
    <3>2. FoundOtherVersion(q)
      BY <2>2, <3>1 DEF LoneInv, LoneCallRecovers
    <3> QED
      BY <3>1, <3>2 DEF FoundOtherVersion, MarkerVersion
  <2>3. LoneCallRecovers'
    BY <1>a, <2>2 DEF LoneCallRecovers
  <2> QED
    BY <2>1, <2>3
<1>b. ASSUME NEW op \in Op, Step(op) \/ IoError(op) \/ Crash(op),
             op \notin overlapped' \cup faulty'
      PROVE  /\ answer[op] = "none"
             /\ Running(op) => OnTrack(op)
             /\ pc[op] = "idle" => op \notin failed /\ status[op] = "none" /\ marker # op
  <2>1. Running(op) \/ pc[op] = "idle"
    BY <1>b, OneCallMoves DEF LoneInv, IInv
  <2>2. op \notin overlapped /\ op \notin faulty
    BY <1>b, OneCallMoves DEF LoneInv, IInv
  <2>3. answer[op] = "none"
    BY <2>1 DEF LoneInv, IInv, AnswersComeLast, Running, RunningPC, PublishPC, CleanupPC, ReadPC
  <2> QED
    BY <2>2, <2>3 DEF LoneInv, IInv, LoneCallIsOnTrack, Alone, IdleIsFresh, StatusFollowsPC,
                      BeforeLink
<1>c. /\ TypeOK /\ StatusFollowsPC /\ PublishedIsTaken /\ MarkerIsComplete
  BY DEF LoneInv, IInv, ContentsAreSynced
<1> USE DEF TypeOK, Goto, Return, Throw, Running, RunningPC, PublishPC, CleanupPC, ReadPC,
            callVars, answers, ghosts, dir, OnTrack, AfterSync
<1>1. ASSUME NEW op \in Op, CreateTemporaryMarker(op) PROVE LoneCallIsOnTrack' /\ LoneCallRecovers'
  <2> SUFFICES ASSUME op \notin overlapped' \cup faulty' PROVE Good(op)'
    BY <1>1, <1>a DEF Step
  <2> QED
    BY <1>1, <1>b, <1>c, MarkerLinks DEF Step, CreateTemporaryMarker
<1>2. ASSUME NEW op \in Op, WriteTemporary(op) PROVE LoneCallIsOnTrack' /\ LoneCallRecovers'
  <2> SUFFICES ASSUME op \notin overlapped' \cup faulty' PROVE Good(op)'
    BY <1>2, <1>a DEF Step
  <2> QED
    BY <1>2, <1>b, <1>c, MarkerLinks DEF Step, WriteTemporary
<1>3. ASSUME NEW op \in Op, SyncTemporary(op) PROVE LoneCallIsOnTrack' /\ LoneCallRecovers'
  <2> SUFFICES ASSUME op \notin overlapped' \cup faulty' PROVE Good(op)'
    BY <1>3, <1>a DEF Step
  <2> QED
    BY <1>3, <1>b, <1>c, MarkerLinks DEF Step, SyncTemporary
<1>4. ASSUME NEW op \in Op, LinkMarker(op) PROVE LoneCallIsOnTrack' /\ LoneCallRecovers'
  <2> SUFFICES ASSUME op \notin overlapped' \cup faulty' PROVE Good(op)'
    BY <1>4, <1>a DEF Step
  <2> QED
    BY <1>4, <1>b, <1>c, MarkerLinks DEF Step, LinkMarker
<1>5. ASSUME NEW op \in Op, AssertPublishedLink(op) PROVE LoneCallIsOnTrack' /\ LoneCallRecovers'
  <2> SUFFICES ASSUME op \notin overlapped' \cup faulty' PROVE Good(op)'
    BY <1>5, <1>a DEF Step
  <2> QED
    BY <1>5, <1>b, <1>c, MarkerLinks DEF Step, AssertPublishedLink
<1>6. ASSUME NEW op \in Op, InspectTemporary(op) PROVE LoneCallIsOnTrack' /\ LoneCallRecovers'
  <2> SUFFICES ASSUME op \notin overlapped' \cup faulty' PROVE Good(op)'
    BY <1>6, <1>a DEF Step
  <2>1. OnTrack(op) /\ answer'[op] = "none" /\ op \notin failed
    BY <1>6, <1>b DEF Step, InspectTemporary
  <2>2. op \in temps => Links(op) \in AllowedLinks(op)
    BY <2>1, <1>c, MarkerLinks DEF AllowedLinks, StatusFollowsPC
  <2>3. pc'[op] \in {"unlink", "syncDirectory"} /\ failed' = failed
    BY <1>6, <1>c, <2>2 DEF InspectTemporary
  <2>4. marker' = marker /\ status' = status
    BY <1>6 DEF InspectTemporary
  <2> QED
    BY <2>1, <2>3, <2>4
<1>7. ASSUME NEW op \in Op, UnlinkTemporary(op) PROVE LoneCallIsOnTrack' /\ LoneCallRecovers'
  <2> SUFFICES ASSUME op \notin overlapped' \cup faulty' PROVE Good(op)'
    BY <1>7, <1>a DEF Step
  <2> QED
    BY <1>7, <1>b, <1>c, MarkerLinks DEF Step, UnlinkTemporary
<1>8. ASSUME NEW op \in Op, SyncDirectory(op) PROVE LoneCallIsOnTrack' /\ LoneCallRecovers'
  <2> SUFFICES ASSUME op \notin overlapped' \cup faulty' PROVE Good(op)'
    BY <1>8, <1>a DEF Step
  <2>1. OnTrack(op) /\ answer[op] = "none" /\ op \notin failed
    BY <1>8, <1>b DEF Step, SyncDirectory
  <2>2. marker # NoOp
    BY <1>8, <2>1, <1>c DEF SyncDirectory, PublishedIsTaken, BeforeSync
  <2>3. pc'[op] = "recover" /\ answer' = answer
    BY <1>8, <1>c, <2>1 DEF SyncDirectory
  <2>4. marker' = marker /\ status' = status /\ failed' = failed
    BY <1>8 DEF SyncDirectory
  <2> QED
    BY <2>1, <2>2, <2>3, <2>4
<1>9. ASSUME NEW op \in Op, InspectActivation(op) PROVE LoneCallIsOnTrack' /\ LoneCallRecovers'
  <2> SUFFICES ASSUME op \notin overlapped' \cup faulty' PROVE Good(op)'
    BY <1>9, <1>a DEF Step
  <2> QED
    BY <1>9, <1>b, <1>c, MarkerLinks DEF Step, InspectActivation
<1>10. ASSUME NEW op \in Op, StatMarker(op) PROVE LoneCallIsOnTrack' /\ LoneCallRecovers'
  <2> SUFFICES ASSUME op \notin overlapped' \cup faulty' PROVE Good(op)'
    BY <1>10, <1>a DEF Step
  <2>1. OnTrack(op) /\ answer[op] = "none" /\ marker # NoOp
    BY <1>10, <1>b DEF Step, StatMarker
  <2>2. Links(marker) = 2 <=> marker \in temps
    BY MarkerLinks
  <2>3. seen'[op] = marker /\ marker' = marker /\ temps' = temps
        /\ pc'[op] = (IF Links(marker) = 2 THEN "scan" ELSE "read")
    BY <1>10, <1>c DEF StatMarker
  <2>4. status' = status /\ failed' = failed /\ answer' = answer
    BY <1>10 DEF StatMarker
  <2> QED
    BY <2>1, <2>2, <2>3, <2>4
<1>11. ASSUME NEW op \in Op, ScanDirectory(op) PROVE LoneCallIsOnTrack' /\ LoneCallRecovers'
  <2> SUFFICES ASSUME op \notin overlapped' \cup faulty' PROVE Good(op)'
    BY <1>11, <1>a DEF Step
  <2> QED
    BY <1>11, <1>b, <1>c, MarkerLinks DEF Step, ScanDirectory
<1>12. ASSUME NEW op \in Op, OpenRecovered(op) PROVE LoneCallIsOnTrack' /\ LoneCallRecovers'
  <2> SUFFICES ASSUME op \notin overlapped' \cup faulty' PROVE Good(op)'
    BY <1>12, <1>a DEF Step
  <2> QED
    BY <1>12, <1>b, <1>c, MarkerLinks DEF Step, OpenRecovered
<1>13. ASSUME NEW op \in Op, AssertRecoverable(op) PROVE LoneCallIsOnTrack' /\ LoneCallRecovers'
  <2> SUFFICES ASSUME op \notin overlapped' \cup faulty' PROVE Good(op)'
    BY <1>13, <1>a DEF Step
  <2> QED
    BY <1>13, <1>b, <1>c, MarkerLinks DEF Step, AssertRecoverable
<1>14. ASSUME NEW op \in Op, UnlinkRecovered(op) PROVE LoneCallIsOnTrack' /\ LoneCallRecovers'
  <2> SUFFICES ASSUME op \notin overlapped' \cup faulty' PROVE Good(op)'
    BY <1>14, <1>a DEF Step
  <2> QED
    BY <1>14, <1>b, <1>c, MarkerLinks DEF Step, UnlinkRecovered
<1>15. ASSUME NEW op \in Op, SyncRecovered(op) PROVE LoneCallIsOnTrack' /\ LoneCallRecovers'
  <2> SUFFICES ASSUME op \notin overlapped' \cup faulty' PROVE Good(op)'
    BY <1>15, <1>a DEF Step
  <2> QED
    BY <1>15, <1>b, <1>c, MarkerLinks DEF Step, SyncRecovered
<1>16. ASSUME NEW op \in Op, ReadMarker(op) PROVE LoneCallIsOnTrack' /\ LoneCallRecovers'
  <2> SUFFICES ASSUME op \notin overlapped' \cup faulty' PROVE Good(op)'
    BY <1>16, <1>a DEF Step
  <2>1. OnTrack(op) /\ pc[op] = "read"
    BY <1>16, <1>b DEF Step, ReadMarker
  <2>2. /\ Links(marker) = 1 /\ marker \in written /\ marker \in Op
        /\ status[op] = "created" => marker = op
    BY <2>1, <1>c, MarkerLinks DEF MarkerIsComplete
  <2>3. /\ pc'[op] = "done" /\ answer'[op] = ResultOf(op, marker) /\ told'[op] = marker
        /\ call' = call
    BY <1>16, <1>c, <2>2 DEF ReadMarker
  <2>4. ASSUME ResultOf(op, marker) = "thrown"
        PROVE  (MarkerVersion(marker) = 1) # (call[op].kind = "claim")
    <3>1. call[op].kind \in {"claim", "claimActivation", "inspectActivation"}
      BY <1>c DEF Calls
    <3>2. MarkerVersion(marker) \in {1, 2}
      BY DEF MarkerVersion
    <3> QED
      BY <2>4, <3>1, <3>2 DEF ResultOf
  <2>5. answer'[op] = "thrown" => FoundOtherVersion(op)'
    BY <2>2, <2>3, <2>4, ConstantsAssumption DEF FoundOtherVersion, MarkerVersion
  <2> QED
    BY <2>3, <2>5
<1>17. ASSUME NEW op \in Op, IoError(op) PROVE LoneCallIsOnTrack' /\ LoneCallRecovers'
  BY <1>17, <1>a DEF IoError
<1>18. ASSUME NEW op \in Op, Crash(op) PROVE LoneCallIsOnTrack' /\ LoneCallRecovers'
  <2> SUFFICES ASSUME op \notin overlapped' \cup faulty' PROVE Good(op)'
    BY <1>18, <1>a
  <2> QED
    BY <1>18, <1>b, <1>c DEF Crash
<1>19. CASE PowerLoss \/ UNCHANGED vars
  <2>1. LoneCallRecovers'
    BY <1>19, NobodyStarts DEF LoneInv, IInv, LoneCallRecovers, FoundOtherVersion, MarkerVersion
  <2>2. LoneCallIsOnTrack'
    <3>1. CASE UNCHANGED vars
      BY <3>1 DEF vars, LoneInv, LoneCallIsOnTrack, Alone
    <3>2. CASE ~UNCHANGED vars
      BY <1>19, <3>2, NobodyStarts DEF LoneInv, IInv, LoneCallIsOnTrack, Alone
    <3> QED
      BY <3>1, <3>2
  <2> QED
    BY <2>1, <2>2
<1> QED
  BY <1>1, <1>2, <1>3, <1>4, <1>5, <1>6, <1>7, <1>8, <1>9, <1>10, <1>11, <1>12, <1>13, <1>14, <1>15, <1>16, <1>17, <1>18, <1>19 DEF Next, Step

\* A call that ran alone and met no I/O error is answered, unless the marker it finds is of
\* the other version: whatever the calls before it left behind when they died, or a power
\* loss kept of it, is recovered.
THEOREM LoneCallsRecover == Spec => []LoneCallRecovers
<1>1. Init => LoneInv
  BY InvInit DEF Init, LoneInv, LoneCallIsAlone, IdleIsFresh, LoneCallIsOnTrack,
     LoneCallRecovers, Alone, Running, RunningPC, PublishPC, CleanupPC, ReadPC
<1>2. LoneInv /\ [Next]_vars => LoneInv'
  BY InvStep, AloneStep, TrackStep DEF LoneInv, IInv
<1>3. LoneInv => LoneCallRecovers
  BY DEF LoneInv
<1> QED
  BY <1>1, <1>2, <1>3, PTL DEF Spec
-----------------------------------------------------------------------------
(* The artifacts of a snapshot *)

File == Staging!File

\* A call that has not begun has created neither file.
IdleHasNoFile == \A c \in Op : stage[c] = "idle" => \A f \in File : step[c][f] = "create"

\* Only files that are there have their names on the disk, or are open for writing.
NamesAreOfFiles ==
    /\ \A f \in linked : cached[f] # "none"
    /\ \A c \in Op, f \in File :
        stage[c] \in {"writing", "failed"} /\ step[c][f] \in {"write", "sync", "syncDir"}
        => cached[f] # "none"

\* What was read back is whole, and its names are synced before it is reported.
VerifiedIsWhole ==
    \A c \in Op :
        /\ stage[c] \in {"syncDirs", "reverify"} => \A f \in File : cached[f] = "full"
        /\ stage[c] \in {"reverify", "staged"} => linked = File
        /\ stage[c] = "staged" => \A f \in File : step[c][f] = "ok"

\* A call never reads a file that it filled, and from its sync on it is whole on the disk.
OwnFilesAreFilled ==
    \A c \in Op : \A f \in wrote[c] :
        /\ step[c][f] \in {"sync", "syncDir", "ok", "failed"}
        /\ stage[c] # "dead" => /\ cached[f] = "full"
                                /\ step[c][f] \in {"syncDir", "ok"} => disked[f] = "full"

StagingInv ==
    /\ Staging!TypeOK
    /\ IdleHasNoFile
    /\ NamesAreOfFiles
    /\ VerifiedIsWhole
    /\ OwnFilesAreFilled
    /\ Staging!StagedIsComplete

\* A directory without artifacts is sound.
LEMMA StagingInit == Staging!Init => StagingInv
<1> SUFFICES ASSUME Staging!Init PROVE StagingInv
  OBVIOUS
<1>1. 0 \in 0 .. MaxFaults + MaxPowerLoss
  BY ConstantsAssumption
<1>2. Staging!TypeOK
  BY <1>1 DEF Staging!Init, Staging!TypeOK, Staging!Content, Staging!Running
<1>3. IdleHasNoFile /\ NamesAreOfFiles /\ VerifiedIsWhole
  BY DEF Staging!Init, IdleHasNoFile, NamesAreOfFiles, VerifiedIsWhole, File
<1>4. OwnFilesAreFilled /\ Staging!StagedIsComplete
  BY DEF Staging!Init, OwnFilesAreFilled, Staging!StagedIsComplete
<1> QED
  BY <1>2, <1>3, <1>4 DEF StagingInv

\* Every step of the staging preserves the invariant.
LEMMA StagingStep == StagingInv /\ [Staging!Next]_staging => StagingInv'
<1> SUFFICES ASSUME StagingInv, [Staging!Next]_staging PROVE StagingInv'
  OBVIOUS
<1>0. MaxFaults + MaxPowerLoss \in Nat
  BY ConstantsAssumption
<1> USE <1>0
    DEF StagingInv, Staging!TypeOK, Staging!Content, Staging!Running, Staging!At, Staging!Move,
        Staging!files, File, IdleHasNoFile, NamesAreOfFiles, VerifiedIsWhole, OwnFilesAreFilled,
        Staging!StagedIsComplete
<1>1. ASSUME NEW c \in Op, NEW f \in File, Staging!Create(c, f) PROVE StagingInv'
  <2>1. CASE cached[f] = "none"
    <3>0. /\ step[c][f] = "create" /\ stage[c] \in {"writing", "failed"}
          /\ cached' = [cached EXCEPT ![f] = "short"]
          /\ step' = [step EXCEPT ![c][f] = "write"]
          /\ UNCHANGED <<disked, linked, stage, wrote, blackout, mishaps>>
      BY <1>1, <2>1 DEF Staging!Create
    <3>1. Staging!TypeOK'
      BY <2>1, <3>0
    <3>2. IdleHasNoFile' /\ NamesAreOfFiles'
      BY <2>1, <3>0
    <3>3. VerifiedIsWhole' /\ Staging!StagedIsComplete'
      BY <2>1, <3>0
    <3>4. OwnFilesAreFilled'
      BY <2>1, <3>0
    <3> QED
      BY <3>1, <3>2, <3>3, <3>4
  <2>2. CASE cached[f] # "none"
    <3>0. /\ step[c][f] = "create" /\ stage[c] \in {"writing", "failed"}
          /\ step' = [step EXCEPT ![c][f] = "read"]
          /\ UNCHANGED <<cached, disked, linked, stage, wrote, blackout, mishaps>>
      BY <1>1, <2>2 DEF Staging!Create
    <3>1. Staging!TypeOK'
      BY <2>2, <3>0
    <3>2. IdleHasNoFile' /\ NamesAreOfFiles'
      BY <2>2, <3>0
    <3>3. VerifiedIsWhole' /\ Staging!StagedIsComplete'
      BY <2>2, <3>0
    <3>4. OwnFilesAreFilled'
      BY <2>2, <3>0
    <3> QED
      BY <3>1, <3>2, <3>3, <3>4
  <2> QED
    BY <2>1, <2>2
<1>2. ASSUME NEW c \in Op, NEW f \in File, Staging!Write(c, f) PROVE StagingInv'
  BY <1>2 DEF Staging!Write
<1>3. ASSUME NEW c \in Op, NEW f \in File, Staging!SyncFile(c, f) PROVE StagingInv'
  BY <1>3 DEF Staging!SyncFile
<1>4. ASSUME NEW c \in Op, NEW f \in File, Staging!SyncParent(c, f) PROVE StagingInv'
  BY <1>4 DEF Staging!SyncParent
<1>5. ASSUME NEW c \in Op, NEW f \in File, Staging!Adopt(c, f) PROVE StagingInv'
  <2>1. CASE cached[f] = "full"
    <3>0. /\ step[c][f] = "read" /\ stage[c] \in {"writing", "failed"}
          /\ step' = [step EXCEPT ![c][f] = "ok"]
          /\ UNCHANGED <<cached, disked, linked, stage, wrote, blackout, mishaps>>
      BY <1>5, <2>1 DEF Staging!Adopt, Staging!SameContent
    <3>1. Staging!TypeOK'
      BY <2>1, <3>0
    <3>2. IdleHasNoFile' /\ NamesAreOfFiles'
      BY <2>1, <3>0
    <3>3. VerifiedIsWhole' /\ Staging!StagedIsComplete'
      BY <2>1, <3>0
    <3>4. OwnFilesAreFilled'
      BY <2>1, <3>0
    <3> QED
      BY <3>1, <3>2, <3>3, <3>4
  <2>2. CASE cached[f] # "full"
    <3>0. /\ step[c][f] = "read" /\ stage[c] \in {"writing", "failed"}
          /\ step' = [step EXCEPT ![c][f] = "failed"]
          /\ stage' = [stage EXCEPT ![c] = "failed"]
          /\ UNCHANGED <<cached, disked, linked, wrote, blackout, mishaps>>
      BY <1>5, <2>2 DEF Staging!Adopt, Staging!SameContent, Staging!Reject
    <3>1. Staging!TypeOK'
      BY <2>2, <3>0
    <3>2. IdleHasNoFile' /\ NamesAreOfFiles'
      BY <2>2, <3>0
    <3>3. VerifiedIsWhole' /\ Staging!StagedIsComplete'
      BY <2>2, <3>0
    <3>4. OwnFilesAreFilled'
      BY <2>2, <3>0
    <3> QED
      BY <3>1, <3>2, <3>3, <3>4
  <2> QED
    BY <2>1, <2>2
<1>6. ASSUME NEW c \in Op, NEW f \in File, Staging!SystemError(c, f) PROVE StagingInv'
  BY <1>6 DEF Staging!SystemError, Staging!Reject, Staging!Mishap
<1>7. ASSUME NEW c \in Op, Staging!Begin(c) PROVE StagingInv'
  BY <1>7 DEF Staging!Begin
<1>8. ASSUME NEW c \in Op, Staging!Written(c) PROVE StagingInv'
  BY <1>8 DEF Staging!Written
<1>9. ASSUME NEW c \in Op, Staging!Verify(c) PROVE StagingInv'
  BY <1>9 DEF Staging!Verify, Staging!ReadBack
<1>10. ASSUME NEW c \in Op, Staging!SyncDirectories(c) PROVE StagingInv'
  BY <1>10 DEF Staging!SyncDirectories, Staging!SyncedDirectories
<1>11. ASSUME NEW c \in Op, Staging!Kill(c) PROVE StagingInv'
  BY <1>11 DEF Staging!Kill, Staging!Mishap
<1>12. CASE Staging!PowerLoss
  BY <1>12 DEF Staging!PowerLoss, Staging!Mishap
<1>13. CASE UNCHANGED staging
  BY <1>13 DEF staging
<1> QED
  BY <1>1, <1>2, <1>3, <1>4, <1>5, <1>6, <1>7, <1>8, <1>9, <1>10, <1>11, <1>12, <1>13 DEF Staging!Next, Staging!FileStep

\* Whatever is lost or killed, what a call reported staged keeps its names, keeps its
\* contents where the call wrote them itself, and short of a power loss is complete.
THEOREM ArtifactsSurvive == MCSpec => []StagedArtifactsSurvive
<1> DEFINE Inv == scene = "staging" => StagingInv
<1>1. MCInit => Inv
  BY StagingInit DEF MCInit
<1>2. Inv /\ [MCNext]_<<scene, vars, staging>> => Inv'
  <2> SUFFICES ASSUME Inv, [MCNext]_<<scene, vars, staging>>, scene' = "staging"
               PROVE  StagingInv'
    OBVIOUS
  <2>1. scene = "staging" /\ [Staging!Next]_staging
    BY DEF MCNext
  <2> QED
    BY <2>1, StagingStep
<1>3. Inv => StagedArtifactsSurvive
  <2> SUFFICES ASSUME StagingInv
               PROVE  Staging!StagedKeepsItsNames /\ Staging!OwnFilesAreDurable
    BY DEF StagedArtifactsSurvive, ScenesTypeOK, StagedKeepsItsNames, OwnFilesAreDurable,
           StagedIsComplete, StagingInv
  <2>1. Staging!StagedKeepsItsNames
    BY DEF StagingInv, Staging!StagedKeepsItsNames, VerifiedIsWhole, NamesAreOfFiles, File
  <2>2. \A c \in Op : wrote[c] \subseteq File
    BY DEF StagingInv, Staging!TypeOK, File
  <2>3. Staging!OwnFilesAreDurable
    BY <2>2 DEF StagingInv, Staging!OwnFilesAreDurable, VerifiedIsWhole, OwnFilesAreFilled
  <2> QED
    BY <2>1, <2>3
<1> QED
  BY <1>1, <1>2, <1>3, PTL DEF MCSpec
===============================================================================
