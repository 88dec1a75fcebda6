------------------------- MODULE TrustBundle_proofs -------------------------
(***************************************************************************)
(* Proofs about TrustBundle, for any keys, releases, clocks and any bundles*)
(* the root may sign.                                                      *)
(*                                                                         *)
(* The argument.  What one verification checks of a bundle alone stays true*)
(* of the accepted bundle (Sound).  What it checks against the predecessor *)
(* carries three facts from bundle to bundle: every binding ever called    *)
(* revoked is on the list (dead), an id that was once active is buried or  *)
(* past activation for ever (PastActivation), and a production edge starts *)
(* after the activation of its ends (EdgesSinceActivation).  The first     *)
(* bundle has no predecessor, and nothing checks in it what a predecessor  *)
(* would: each theorem assumes of the first bundle the one thing it rests  *)
(* on (FirstIsConsistent, FirstListsNoLiveKey, FirstProductionIsActive).   *)
(*                                                                         *)
(* After it come the supply verifier, whose reports are facts about the    *)
(* block they name (Saw, Honest), and the evaluations and comparisons of   *)
(* attestations, where an offer's score is a function of the clock that    *)
(* only falls, and the set of those eligible only shrinks.                 *)
(***************************************************************************)
EXTENDS MCTrustBundle, Sequences, FiniteSetTheorems, TLAPS

\* No key that may sign is on the list of revoked keys.
LiveKeysAreUnlisted(b) ==
  \A k \in KeyIds : Present(b, k) /\ Lifecycle(b, k) # "revoked" =>
    b.records[k].binding \notin b.revokedKeys

Sound == accepted # NoBundle => WellShaped(accepted) /\ ValidAlone(accepted)

\* An id that was once active is never preactive or active under another date again.
PastActivation ==
  accepted # NoBundle =>
    \A i \in Ids : activated[i] # NoEntry =>
      Buried(accepted, i) \/ (Present(accepted, i) /\ Lifecycle(accepted, i) # "preactive")

ActivationIsKnown ==
  accepted # NoBundle =>
    \A i \in Ids : Is(accepted, i, {"active"}) => activated[i] = accepted.records[i].changedAt

EdgesSinceActivation ==
  accepted # NoBundle =>
    \A e \in Edges :
      accepted.edges[e] # NoEntry /\ accepted.edges[e].channel = "production" =>
        \A i \in {e[1], e[2]} :
          activated[i] # NoEntry /\ activated[i] <= accepted.edges[e].from

RevokedIsListed ==
  accepted # NoBundle => dead \subseteq accepted.revokedKeys /\ LiveKeysAreUnlisted(accepted)

NothingBefore ==
  accepted = NoBundle => dead = {} /\ \A i \in Ids : activated[i] = NoEntry

\* What holds whatever the first bundle was.
IInv == TypeOK /\ Sound

\* What holds as far as the first bundle was clean.
CleanInv ==
  /\ IInv
  /\ NothingBefore
  /\ PastActivation
  /\ ActivationIsKnown
  /\ FirstIsConsistent => AcceptedIsConsistent
  /\ FirstListsNoLiveKey => RevokedIsListed
  /\ FirstProductionIsActive => EdgesSinceActivation

-----------------------------------------------------------------------------
(* The accepted bundle *)

\* A bundle's parts are of their types.
LEMMA BundleParts ==
  ASSUME NEW b \in BundleRecords
  PROVE  /\ b.generation \in Nat /\ b.epoch \in Nat /\ b.issuedAt \in Nat /\ b.expiresAt \in Nat
         /\ b.revokedKeys \subseteq Bindings
         /\ \A i \in Ids : Present(b, i) => b.records[i] \in Records
         /\ \A i \in Ids : Buried(b, i) => b.tombstones[i] \in Tombstones
         /\ \A e \in Edges : b.edges[e] # NoEntry => b.edges[e] \in Authorizations
  BY DEF BundleRecords, Present, Buried

\* The bindings a bundle revokes are bindings.
LEMMA RevokedAreBindings ==
  ASSUME NEW b \in BundleRecords
  PROVE  Revoked(b) \subseteq Bindings
  BY BundleParts DEF Revoked, Is, BuriedAs, Present, Buried, Records, Tombstones, Ids

\* Accept keeps the bundle and at most lengthens the list of revoked keys.
LEMMA AcceptedParts ==
  ASSUME TypeOK, NEW b, Accept(b)
  PROVE  /\ b \in BundleRecords
         /\ accepted' \in BundleRecords
         /\ accepted'.generation = b.generation /\ accepted'.epoch = b.epoch
         /\ accepted'.issuedAt = b.issuedAt /\ accepted'.expiresAt = b.expiresAt
         /\ accepted'.signer = b.signer /\ accepted'.release = b.release
         /\ accepted'.records = b.records /\ accepted'.tombstones = b.tombstones
         /\ accepted'.edges = b.edges
         /\ accepted'.revokedKeys =
              IF accepted = NoBundle THEN b.revokedKeys
              ELSE b.revokedKeys \cup accepted.revokedKeys \cup Revoked(b)
         /\ accepted # NoBundle => accepted \in BundleRecords
         /\ accepted' # NoBundle
<1>1. b \in BundleRecords
  BY DEF Accept, Verifies, WellShaped
<1>2. accepted # NoBundle => accepted \in BundleRecords
  BY DEF TypeOK
<1>3. CASE accepted = NoBundle
  BY <1>1, <1>3, AbsentAssumption DEF Accept
<1>4. CASE accepted # NoBundle
  <2>1. accepted.revokedKeys \subseteq Bindings /\ Revoked(b) \subseteq Bindings
    BY <1>1, <1>2, <1>4, BundleParts, RevokedAreBindings
  <2>2. accepted' = [b EXCEPT !.revokedKeys = b.revokedKeys \cup accepted.revokedKeys \cup Revoked(b)]
    BY <1>4 DEF Accept
  <2> QED
    BY <1>1, <1>2, <1>4, <2>1, <2>2, AbsentAssumption DEF BundleRecords
<1> QED
  BY <1>3, <1>4

\* What a bundle is checked for alone does not mind a longer list of revoked keys.
LEMMA LongerListIsSound ==
  ASSUME NEW b \in BundleRecords, NEW c \in BundleRecords,
         WellShaped(b), ValidAlone(b),
         c.generation = b.generation, c.epoch = b.epoch,
         c.issuedAt = b.issuedAt, c.expiresAt = b.expiresAt,
         c.signer = b.signer, c.release = b.release,
         c.records = b.records, c.tombstones = b.tombstones, c.edges = b.edges,
         b.revokedKeys \subseteq c.revokedKeys
  PROVE  WellShaped(c) /\ ValidAlone(c)
<1>1. WellShaped(c)
  BY DEF WellShaped, Buried
<1>2. SetsAreCanonical(c)
  BY DEF ValidAlone, SetsAreCanonical, Present, Lifecycle
<1>3. Revoked(c) = Revoked(b)
  BY DEF Revoked, Is, BuriedAs, Present, Lifecycle, Buried
<1>4. RevocationsAreListed(c)
  BY <1>3 DEF ValidAlone, RevocationsAreListed, RecordIsTimely, Present, Buried
<1>5. TerminalsAreBuried(c)
  BY DEF ValidAlone, TerminalsAreBuried, Is, BuriedAs, Present, Lifecycle, Buried
<1>6. ActiveTupleIsValid(c)
  BY DEF ValidAlone, ActiveTupleIsValid, Is, Present, Lifecycle, Covers
<1>7. EdgesAreValid(c)
  BY DEF ValidAlone, EdgesAreValid, EdgeIsWithin, ChannelFits, Tuples, Present, Lifecycle
<1> QED
  BY <1>1, <1>2, <1>4, <1>5, <1>6, <1>7 DEF ValidAlone

\* Every accepted bundle is sound.
LEMMA AcceptIsSound ==
  ASSUME TypeOK, NEW b, Accept(b)
  PROVE  WellShaped(b) /\ ValidAlone(b) /\ WellShaped(accepted') /\ ValidAlone(accepted')
<1>1. WellShaped(b) /\ ValidAlone(b)
  BY DEF Accept, Verifies
<1> QED
  BY <1>1, AcceptedParts, LongerListIsSound

-----------------------------------------------------------------------------
(* Type correctness and what a bundle's own checks give *)

LEMMA InitIInv == Init => IInv
  BY BoundsAssumption DEF Init, IInv, TypeOK, Sound

LEMMA AcceptIInv ==
  ASSUME IInv, NEW b, Accept(b)
  PROVE  IInv'
<1>1. /\ b \in BundleRecords /\ accepted' \in BundleRecords /\ accepted' # NoBundle
      /\ accepted'.records = b.records /\ accepted'.tombstones = b.tombstones
  BY AcceptedParts DEF IInv
<1>2. WellShaped(b) /\ WellShaped(accepted') /\ ValidAlone(accepted')
  BY AcceptIsSound DEF IInv
<1>3. dead' \subseteq Bindings
  BY <1>1, BundleParts, RevokedAreBindings DEF IInv, TypeOK, Accept
<1>4. activated' \in [Ids -> Nat \cup {NoEntry}]
  BY <1>1, BundleParts DEF IInv, TypeOK, Accept, Is, Records
<1>5. \A i \in Ids : accepted'.tombstones[i] # NoEntry =>
        (accepted'.tombstones[i].reason = "revoked" <=> accepted'.tombstones[i].retain = 0)
  <2> SUFFICES ASSUME NEW i \in Ids, accepted'.tombstones[i] # NoEntry
               PROVE  accepted'.tombstones[i].reason = "revoked"
                        <=> accepted'.tombstones[i].retain = 0
    OBVIOUS
  <2>1. b.tombstones[i] \in Tombstones
    BY <1>1, BundleParts DEF Buried
  <2>2. IF b.tombstones[i].reason = "retired"
        THEN b.tombstones[i].retain > b.tombstones[i].at ELSE b.tombstones[i].retain = 0
    BY <1>1, <1>2 DEF WellShaped, Buried
  <2> QED
    BY <1>1, <2>1, <2>2 DEF Tombstones, Terminal
<1>6. now' \in 0..MaxTime
  BY DEF IInv, TypeOK, Accept
<1> QED
  BY <1>1, <1>2, <1>3, <1>4, <1>5, <1>6 DEF IInv, TypeOK, Sound

LEMMA StepIInv == IInv /\ [Next]_vars => IInv'
<1> SUFFICES ASSUME IInv, [Next]_vars PROVE IInv'
  OBVIOUS
<1>1. CASE Publish
  BY <1>1, AcceptIInv DEF Publish
<1>2. CASE Tick
  BY <1>2, BoundsAssumption DEF Tick, IInv, TypeOK, Sound
<1>3. CASE UNCHANGED vars
  BY <1>3 DEF vars, IInv, TypeOK, Sound
<1> QED
  BY <1>1, <1>2, <1>3 DEF Next

LEMMA IInvariance == Spec => []IInv
  BY InitIInv, StepIInv, PTL DEF Spec

\* Every reachable state is well typed, for any drafts.
THEOREM TypeCorrect == Spec => []TypeOK
<1>1. IInv => TypeOK
  BY DEF IInv
<1> QED
  BY <1>1, IInvariance, PTL

\* The pair that assertActiveTuple accepts may issue as long as the bundle is fresh.
LEMMA ActiveTupleResolves ==
  ASSUME IInv, accepted # NoBundle, NEW t \in 0..MaxTime, NEW m \in Modes,
         t >= accepted.issuedAt, t < accepted.expiresAt,
         m \in Enables[accepted.records[accepted.release].binding]
  PROVE  Resolves(accepted, <<accepted.signer, accepted.release>>, t, m, "issuance", FALSE)
<1> DEFINE k == accepted.signer
           r == accepted.release
           e == <<k, r>>
<1>1. accepted \in BundleRecords /\ ActiveTupleIsValid(accepted)
  BY DEF IInv, TypeOK, Sound, ValidAlone
<1>2. k \in KeyIds /\ r \in ReleaseIds /\ e \in Edges /\ k \in Ids /\ r \in Ids
  BY <1>1 DEF BundleRecords, Edges, Ids
<1>3. Is(accepted, k, {"active"}) /\ Is(accepted, r, {"active"})
  BY <1>1, <1>2 DEF ActiveTupleIsValid
<1>4. /\ accepted.records[k] \in Records /\ accepted.records[r] \in Records
      /\ accepted.edges[e] \in Authorizations
  BY <1>1, <1>2, <1>3, BundleParts DEF Is, ActiveTupleIsValid
<1>5. /\ accepted.edges[e] # NoEntry /\ accepted.edges[e].channel = "production"
      /\ Covers(accepted.edges[e], accepted)
      /\ \A i \in {k, r} : /\ accepted.records[i].changedAt <= accepted.issuedAt
                           /\ Covers(accepted.records[i], accepted)
  BY <1>1 DEF ActiveTupleIsValid
<1>6. e \in Tuples(accepted)
  BY <1>2, <1>3, <1>5 DEF Tuples, Is
<1>7. accepted.issuedAt \in Nat /\ accepted.expiresAt \in Nat /\ t \in Nat
  BY <1>1, BundleParts, BoundsAssumption
<1>8. /\ Within(t, accepted.edges[e]) /\ Within(t, accepted.records[k])
      /\ Within(t, accepted.records[r])
  BY <1>4, <1>5, <1>7 DEF Within, Covers, Records, Authorizations
<1>9. CanIssue(accepted.records[k], t) /\ CanIssue(accepted.records[r], t)
  BY <1>3, <1>4, <1>5, <1>7 DEF CanIssue, Is, Lifecycle, Records
<1> QED
  BY <1>3, <1>5, <1>6, <1>7, <1>8, <1>9 DEF Resolves, Is, Lifecycle

\* A fresh accepted bundle never leaves its controller without a pair that may issue.
THEOREM ActivePairIssues == Spec => []ActiveTupleMayIssue
<1>1. IInv => ActiveTupleMayIssue
  BY ActiveTupleResolves DEF ActiveTupleMayIssue
<1> QED
  BY <1>1, IInvariance, PTL

\* What may be issued under a bundle verifies under the same bundle.
THEOREM IssuedIsVerified == Spec => []IssuedVerifies
<1>1. IssuedVerifies
  BY DEF IssuedVerifies, Resolves, CanIssue, CanVerify
<1> QED
  BY <1>1, PTL


-----------------------------------------------------------------------------
(* What the rules about the predecessor give *)

\* Tombstones that the rules admit make the next verification take the state back.
LEMMA FollowingIsConsistent ==
  ASSUME NEW b \in BundleRecords, NEW prior, ValidAlone(b), TombstonesFollow(b, prior)
  PROVE  Consistent(b)
  BY DEF ValidAlone, TombstonesFollow, TerminalsAreBuried, RevocationsAreListed, Revoked,
         Consistent, Is, BuriedAs, Buried, Present, Lifecycle, Ids

\* The list of revoked keys does not matter to Consistent but for what it must hold.
LEMMA LongerListIsConsistent ==
  ASSUME NEW b, NEW c, Consistent(b), c.records = b.records, c.tombstones = b.tombstones,
         b.revokedKeys \subseteq c.revokedKeys
  PROVE  Consistent(c)
  BY DEF Consistent, Is, BuriedAs, Buried, Present, Lifecycle

\* A bundle that replaces another obeys the rules about it.
LEMMA ReplacementFollows ==
  ASSUME NEW b, Accept(b), accepted # NoBundle
  PROVE  /\ accepted.revokedKeys \subseteq b.revokedKeys
         /\ b.generation > accepted.generation /\ b.epoch >= accepted.epoch
         /\ RecordsFollow(b, accepted)
         /\ NothingBuriedReturns(b, accepted)
         /\ TombstonesStay(b, accepted)
         /\ TombstonesFollow(b, accepted)
         /\ EdgesFollow(b, accepted)
         /\ NothingRevokedIsLive(b, accepted)
  BY DEF Accept, Verifies, Follows

\* The production edges of a bundle are between active ends.
ProductionIsActive(b) ==
  \A e \in Edges :
    b.edges[e] # NoEntry /\ b.edges[e].channel = "production" => BoundToActive(b, e)

\* What the first bundle is assumed to be, whoever signed it.
CleanIfFirst(b) ==
  accepted = NoBundle =>
    /\ FirstIsConsistent => Consistent(b)
    /\ FirstListsNoLiveKey => LiveKeysAreUnlisted(b)
    /\ FirstProductionIsActive => ProductionIsActive(b)

\* The first bundle is one of the drafts.
LEMMA FirstBundle ==
  ASSUME TypeOK, Publish
  PROVE  \E b : Accept(b) /\ CleanIfFirst(b)
  BY DEF FirstIsConsistent, FirstListsNoLiveKey, FirstProductionIsActive, Publish, TypeOK,
         LiveKeysAreUnlisted, ProductionIsActive, CleanIfFirst

\* The revoked keys are listed, and no live key is.
LEMMA AcceptListsRevoked ==
  ASSUME CleanInv, FirstListsNoLiveKey, NEW b, Accept(b), CleanIfFirst(b)
  PROVE  RevokedIsListed'
<1>1. /\ b \in BundleRecords /\ accepted'.records = b.records /\ accepted' # NoBundle
      /\ accepted'.revokedKeys = IF accepted = NoBundle THEN b.revokedKeys
                                 ELSE b.revokedKeys \cup accepted.revokedKeys \cup Revoked(b)
  BY AcceptedParts DEF CleanInv, IInv
<1>2. Revoked(b) \subseteq b.revokedKeys
  BY DEF Accept, Verifies, ValidAlone, RevocationsAreListed
<1>3. dead' = dead \cup b.revokedKeys \cup Revoked(b)
  BY DEF Accept
<1>4. CASE accepted = NoBundle
  BY <1>1, <1>2, <1>3, <1>4
  DEF CleanInv, NothingBefore, RevokedIsListed, LiveKeysAreUnlisted, Present, Lifecycle,
      CleanIfFirst
<1>5. CASE accepted # NoBundle
  <2>1. NothingRevokedIsLive(b, accepted) /\ accepted.revokedKeys \subseteq b.revokedKeys
    BY <1>5, ReplacementFollows
  <2>2. dead \subseteq accepted.revokedKeys
    BY <1>5 DEF CleanInv, RevokedIsListed
  <2> QED
    BY <1>1, <1>2, <1>3, <1>5, <2>1, <2>2
    DEF NothingRevokedIsLive, RevokedIsListed, LiveKeysAreUnlisted, Present, Lifecycle
<1> QED
  BY <1>4, <1>5

\* A terminal end of a lifecycle is never left, and activation never comes after
\* retirement has begun.
LEMMA NoWayBack ==
  ASSUME NEW l \in Lifecycles, NEW n \in Successors[l]
  PROVE  /\ l # "preactive" => n # "preactive"
         /\ l \in {"retiring", "retired", "revoked"} => n # "active"
  BY DEF Lifecycles, Successors

\* An id that was active before is known to the next bundle as buried or as past its
\* activation, and if it is still active its date is the same.
LEMMA PastStaysPast ==
  ASSUME CleanInv, accepted # NoBundle, NEW b, Accept(b),
         NEW i \in Ids, activated[i] # NoEntry
  PROVE  /\ Buried(b, i) \/ (Present(b, i) /\ Lifecycle(b, i) # "preactive")
         /\ Is(b, i, {"active"}) => activated[i] = b.records[i].changedAt
<1>1. /\ RecordsFollow(b, accepted) /\ NothingBuriedReturns(b, accepted)
      /\ TombstonesStay(b, accepted)
  BY ReplacementFollows
<1>2. accepted \in BundleRecords /\ b \in BundleRecords
  BY AcceptedParts DEF CleanInv, IInv
<1>3. CASE Buried(accepted, i)
  BY <1>1, <1>3 DEF TombstonesStay, NothingBuriedReturns, Is
<1>4. CASE ~Buried(accepted, i)
  <2>1. Present(accepted, i) /\ Lifecycle(accepted, i) # "preactive"
    BY <1>4 DEF CleanInv, PastActivation
  <2>2. CASE ~Present(b, i)
    BY <1>1, <2>1, <2>2 DEF RecordsFollow, MayDisappear, Is
  <2>3. CASE Present(b, i)
    <3>1. LifecycleFollows(accepted.records[i], b.records[i])
      BY <1>1, <2>1, <2>3 DEF RecordsFollow
    <3>2. Lifecycle(accepted, i) \in Lifecycles
      BY <1>2, <2>1, BundleParts DEF Records, Lifecycle
    <3>3. Lifecycle(b, i) \in Successors[Lifecycle(accepted, i)]
      BY <3>1 DEF LifecycleFollows, Lifecycle
    <3>4. Lifecycle(b, i) # "preactive"
      BY <2>1, <3>2, <3>3, NoWayBack
    <3>5. ASSUME Is(b, i, {"active"}) PROVE activated[i] = b.records[i].changedAt
      <4>1. Lifecycle(accepted, i) = "active"
        BY <2>1, <3>2, <3>3, <3>5, NoWayBack DEF Is, Lifecycles
      <4>2. b.records[i].changedAt = accepted.records[i].changedAt
        BY <3>1, <3>5, <4>1 DEF LifecycleFollows, Is, Lifecycle
      <4> QED
        BY <2>1, <4>1, <4>2 DEF CleanInv, ActivationIsKnown, Is
    <3> QED
      BY <2>3, <3>4, <3>5
  <2> QED
    BY <2>2, <2>3
<1> QED
  BY <1>3, <1>4

\* The dates of activation that Accept records.
LEMMA AcceptRecordsActivation ==
  ASSUME CleanInv, NEW b, Accept(b)
  PROVE  PastActivation' /\ ActivationIsKnown'
<1>1. b \in BundleRecords /\ accepted'.records = b.records /\ accepted'.tombstones = b.tombstones
  BY AcceptedParts DEF CleanInv, IInv
<1>2. SUFFICES ASSUME NEW i \in Ids
      PROVE  /\ activated'[i] # NoEntry =>
                  Buried(b, i) \/ (Present(b, i) /\ Lifecycle(b, i) # "preactive")
             /\ Is(b, i, {"active"}) => activated'[i] = b.records[i].changedAt
  BY <1>1 DEF PastActivation, ActivationIsKnown, Buried, Present, Lifecycle, Is
<1>3. activated'[i] = IF activated[i] = NoEntry /\ Is(b, i, {"active"})
                      THEN b.records[i].changedAt ELSE activated[i]
  BY DEF Accept
<1>4. CASE activated[i] = NoEntry
  BY <1>3, <1>4 DEF Is
<1>5. CASE activated[i] # NoEntry
  <2>1. accepted # NoBundle
    BY <1>5 DEF CleanInv, NothingBefore
  <2> QED
    BY <1>3, <1>5, <2>1, PastStaysPast
<1> QED
  BY <1>4, <1>5

\* A production edge is bound to active material when it appears or is promoted, and
\* keeps its start from then on.
LEMMA AcceptBindsEdges ==
  ASSUME CleanInv, FirstProductionIsActive, NEW b, Accept(b), CleanIfFirst(b),
         PastActivation', ActivationIsKnown'
  PROVE  EdgesSinceActivation'
<1>1. /\ b \in BundleRecords /\ accepted'.records = b.records /\ accepted'.edges = b.edges
      /\ accepted' # NoBundle
  BY AcceptedParts DEF CleanInv, IInv
<1>2. SUFFICES ASSUME NEW e \in Edges, b.edges[e] # NoEntry, b.edges[e].channel = "production",
                      NEW i \in {e[1], e[2]}
      PROVE  activated'[i] # NoEntry /\ activated'[i] <= b.edges[e].from
  BY <1>1 DEF EdgesSinceActivation
<1>3. i \in Ids
  BY DEF Edges, Ids
<1>4. CASE BoundToActive(b, e)
  <2>1. Is(b, i, {"active"}) /\ b.edges[e].from >= b.records[i].changedAt
    BY <1>4 DEF BoundToActive
  <2>2. activated'[i] = b.records[i].changedAt
    BY <1>1, <1>3, <2>1 DEF ActivationIsKnown, Is, Present, Lifecycle
  <2>3. b.records[i].changedAt \in Nat /\ b.edges[e].from \in Nat
    BY <1>1, <1>2, <1>3, <2>1, BundleParts DEF Is, Records, Authorizations
  <2> QED
    BY <2>1, <2>2, <2>3, AbsentAssumption
<1>5. CASE ~BoundToActive(b, e)
  <2>1. accepted # NoBundle
    BY <1>2, <1>5 DEF CleanIfFirst, ProductionIsActive
  <2>2. EdgesFollow(b, accepted)
    BY <2>1, ReplacementFollows
  <2>3. /\ accepted.edges[e] # NoEntry /\ accepted.edges[e].channel = "production"
        /\ accepted.edges[e].from = b.edges[e].from
    BY <1>2, <1>5, <2>2 DEF EdgesFollow
  <2>4. activated[i] # NoEntry /\ activated[i] <= b.edges[e].from
    BY <2>1, <2>3 DEF CleanInv, EdgesSinceActivation
  <2>5. activated'[i] = activated[i]
    BY <1>3, <2>4 DEF Accept
  <2> QED
    BY <2>4, <2>5
<1> QED
  BY <1>4, <1>5

LEMMA PublishCleanInv ==
  ASSUME CleanInv, Publish
  PROVE  CleanInv'
<1>1. PICK b : Accept(b) /\ CleanIfFirst(b)
  BY FirstBundle DEF CleanInv, IInv
<1>2. IInv'
  BY <1>1, AcceptIInv DEF CleanInv
<1>3. ASSUME FirstIsConsistent PROVE AcceptedIsConsistent'
  <2>1. /\ b \in BundleRecords /\ ValidAlone(b)
        /\ accepted'.records = b.records /\ accepted'.tombstones = b.tombstones
        /\ b.revokedKeys \subseteq accepted'.revokedKeys
    BY <1>1, AcceptedParts, AcceptIsSound DEF CleanInv, IInv
  <2>2. Consistent(b)
    <3>1. CASE accepted = NoBundle
      BY <1>1, <1>3, <3>1 DEF CleanIfFirst
    <3>2. CASE accepted # NoBundle
      BY <1>1, <2>1, <3>2, ReplacementFollows, FollowingIsConsistent
    <3> QED
      BY <3>1, <3>2
  <2> QED
    BY <2>1, <2>2, LongerListIsConsistent DEF AcceptedIsConsistent
<1>4. ASSUME FirstListsNoLiveKey PROVE RevokedIsListed'
  BY <1>1, <1>4, AcceptListsRevoked
<1>5. PastActivation' /\ ActivationIsKnown'
  BY <1>1, AcceptRecordsActivation
<1>6. ASSUME FirstProductionIsActive PROVE EdgesSinceActivation'
  BY <1>1, <1>5, <1>6, AcceptBindsEdges
<1>7. NothingBefore'
  BY <1>1, AcceptedParts DEF CleanInv, IInv, NothingBefore
<1> QED
  BY <1>2, <1>3, <1>4, <1>5, <1>6, <1>7 DEF CleanInv

LEMMA InitCleanInv == Init => CleanInv
  BY InitIInv DEF Init, CleanInv, AcceptedIsConsistent, NothingBefore, RevokedIsListed,
     PastActivation, ActivationIsKnown, EdgesSinceActivation

LEMMA StepCleanInv == CleanInv /\ [Next]_vars => CleanInv'
<1> SUFFICES ASSUME CleanInv, [Next]_vars PROVE CleanInv'
  OBVIOUS
<1>1. CASE Publish
  BY <1>1, PublishCleanInv
<1>2. CASE UNCHANGED <<accepted, dead, activated>>
  <2>1. IInv'
    BY StepIInv DEF CleanInv
  <2> QED
    BY <1>2, <2>1 DEF CleanInv, AcceptedIsConsistent, NothingBefore, RevokedIsListed,
       PastActivation, ActivationIsKnown, EdgesSinceActivation
<1> QED
  BY <1>1, <1>2 DEF Next, Tick, vars

LEMMA CleanInvariance == Spec => []CleanInv
  BY InitCleanInv, StepCleanInv, PTL DEF Spec

-----------------------------------------------------------------------------
(* The theorems *)

\* A key that was ever called revoked, in any way, authorizes nothing again, provided
\* the first bundle does not list its own live keys.
THEOREM RevokedForGood ==
  ASSUME FirstListsNoLiveKey
  PROVE  Spec => []RevokedNeverReturns
<1>1. CleanInv => RevokedNeverReturns
  BY DEF CleanInv, RevokedIsListed, LiveKeysAreUnlisted, RevokedNeverReturns, Tuples, Edges
<1> QED
  BY <1>1, CleanInvariance, PTL

\* An attestation that verifies without canary permission is dated after the activation
\* of its key and release, provided the first bundle's production edges are.
THEOREM OnlyActiveVerifies ==
  ASSUME FirstProductionIsActive
  PROVE  Spec => []OnlyActiveMaterialVerifies
<1>1. ASSUME CleanInv PROVE OnlyActiveMaterialVerifies
  <2> SUFFICES ASSUME accepted # NoBundle, NEW e \in Edges, NEW t \in 0..MaxTime, NEW m \in Modes,
                      Resolves(accepted, e, t, m, "verification", FALSE),
                      NEW i \in {e[1], e[2]}
               PROVE  activated[i] # NoEntry /\ activated[i] <= t
    BY DEF OnlyActiveMaterialVerifies
  <2>1. e \in Tuples(accepted) /\ accepted.edges[e].from <= t
        /\ accepted.edges[e].channel # "canary"
    BY DEF Resolves, Within
  <2>2. accepted.edges[e] \in Authorizations
    BY <1>1, <2>1, BundleParts DEF Tuples, CleanInv, IInv, TypeOK
  <2>3. activated[i] # NoEntry /\ activated[i] <= accepted.edges[e].from
    BY <1>1, <2>1, <2>2 DEF CleanInv, EdgesSinceActivation, Tuples, Authorizations
  <2>4. activated[i] \in Nat
    BY <1>1, <2>3 DEF CleanInv, IInv, TypeOK, Edges, Ids
  <2> QED
    BY <2>1, <2>2, <2>3, <2>4, BoundsAssumption DEF Authorizations
<1> QED
  BY <1>1, CleanInvariance, PTL

\* The durable state is always one that the next verification accepts to start from,
\* provided the first bundle was.
THEOREM ConsistentForEver ==
  ASSUME FirstIsConsistent
  PROVE  Spec => []AcceptedIsConsistent
<1>1. CleanInv => AcceptedIsConsistent
  BY DEF CleanInv
<1> QED
  BY <1>1, CleanInvariance, PTL

\* Ids stay known and bound to what they were bound to, whatever the first bundle was.
THEOREM PermanentIdentities == Spec => IdentitiesArePermanent
<1> DEFINE Kept == accepted # NoBundle =>
      \A i \in Ids :
        /\ BoundTo(accepted, i) \subseteq BoundTo(accepted', i)
        /\ Buried(accepted, i) =>
             /\ Buried(accepted', i)
             /\ BuriedAs(accepted, i, "revoked") => BuriedAs(accepted', i, "revoked")
<1>1. ASSUME IInv, NEW b, Accept(b), accepted # NoBundle, NEW i \in Ids
      PROVE  /\ BoundTo(accepted, i) \subseteq BoundTo(accepted', i)
             /\ Buried(accepted, i) =>
                  /\ Buried(accepted', i)
                  /\ BuriedAs(accepted, i, "revoked") => BuriedAs(accepted', i, "revoked")
  <2>1. accepted'.records = b.records /\ accepted'.tombstones = b.tombstones
    BY <1>1, AcceptedParts DEF IInv
  <2>2. /\ RecordsFollow(b, accepted) /\ TombstonesStay(b, accepted)
        /\ TombstonesFollow(b, accepted)
    BY <1>1, ReplacementFollows
  <2>3. Buried(accepted, i) =>
          /\ Buried(b, i)
          /\ b.tombstones[i].binding = accepted.tombstones[i].binding
          /\ BuriedAs(accepted, i, "revoked") => BuriedAs(b, i, "revoked")
    BY <1>1, <2>2 DEF TombstonesStay, TombstonesFollow, Upgraded, BuriedAs, Buried
  <2>4. Present(accepted, i) =>
          \/ Present(b, i) /\ b.records[i].binding = accepted.records[i].binding
          \/ Buried(b, i) /\ b.tombstones[i].binding = accepted.records[i].binding
    BY <1>1, <2>2 DEF RecordsFollow, MayDisappear, TombstonesFollow
  <2>5. BoundTo(accepted, i) \subseteq BoundTo(b, i)
    BY <2>3, <2>4 DEF BoundTo, Buried, Present
  <2> QED
    BY <2>1, <2>3, <2>5 DEF BoundTo, Buried, BuriedAs
<1>2. ASSUME IInv, Next PROVE Kept
  <2>1. CASE Publish
    BY <1>1, <1>2, <2>1 DEF Publish
  <2>2. CASE Tick
    BY <2>2 DEF Tick, BoundTo, Buried, BuriedAs
  <2> QED
    BY <1>2, <2>1, <2>2 DEF Next
<1>3. IInv /\ [Next]_vars => [Kept]_vars
  BY <1>2
<1> QED
  BY <1>3, IInvariance, PTL DEF Spec, IdentitiesArePermanent

\* What was accepted is sound: nothing revoked comes back, the next verification can start
\* from it, what verifies is dated after its activation, and its active pair issues what then
\* verifies; provided the first bundle, which is held against no predecessor, is consistent,
\* lists no live key of its own and has production edges between active ends only, from
\* their activation on.  (The last two parts rest on none of that: ActivePairIssues,
\* IssuedIsVerified.)
THEOREM EveryAcceptedIsSound ==
  ASSUME FirstIsClean
  PROVE  Spec => []AcceptedIsSound
BY RevokedForGood, ConsistentForEver, ActivePairIssues, IssuedIsVerified,
   OnlyActiveVerifies, PTL DEF AcceptedIsSound, FirstIsClean

-----------------------------------------------------------------------------
(* The verification of the supply.                                         *)

\* A sequence, of whatever it holds.
IsSequence(s) == s \in Supply!Seqs!Seq({s[j] : j \in DOMAIN s})

\* What is appended is at the end, and what was there stays where it was.
LEMMA Appended ==
  ASSUME NEW s, IsSequence(s), NEW x
  PROVE  LET t == Supply!Seqs!Append(s, x)
         IN  /\ IsSequence(t)
             /\ DOMAIN s = 1..Supply!Seqs!Len(s) /\ Supply!Seqs!Len(s) \in Nat
             /\ Supply!Seqs!Len(t) = Supply!Seqs!Len(s) + 1
             /\ \A j \in DOMAIN t : t[j] = x \/ (j \in DOMAIN s /\ t[j] = s[j])
<1> DEFINE A == {s[j] : j \in DOMAIN s}
           B == A \cup {x}
           t == Supply!Seqs!Append(s, x)
<1>1. s \in Supply!Seqs!Seq(B)
  BY DEF IsSequence
<1>2. x \in B /\ \A j \in DOMAIN s : s[j] \in B
  OBVIOUS
<1> HIDE DEF B
<1>3. t \in Supply!Seqs!Seq(B) /\ Supply!Seqs!Len(t) = Supply!Seqs!Len(s) + 1
  BY <1>1, <1>2
<1>4. \A j \in DOMAIN t : t[j] = x \/ (j \in DOMAIN s /\ t[j] = s[j])
  BY <1>1, <1>2
<1>5. DOMAIN s = 1..Supply!Seqs!Len(s) /\ Supply!Seqs!Len(s) \in Nat
  BY <1>1
<1> DEFINE C == {t[j] : j \in DOMAIN t}
<1>6. DOMAIN t = 1..Supply!Seqs!Len(t) /\ Supply!Seqs!Len(t) \in Nat
  BY <1>3
<1>7. \A j \in 1..Supply!Seqs!Len(t) : t[j] \in C
  <2> HIDE DEF t
  <2>1. \A j \in DOMAIN t : t[j] \in C
    OBVIOUS
  <2> HIDE DEF C
  <2> QED
    BY <1>6, <2>1
<1> HIDE DEF C, t
<1>8. t \in Supply!Seqs!Seq(C)
  <2>1. t \in Supply!Seqs!Seq(B)
    BY <1>3
  <2> QED
    BY <1>6, <1>7, <2>1
<1> QED
  BY <1>3, <1>4, <1>5, <1>8 DEF IsSequence, C, t

IsCapture(r) ==
    r = [step |-> r.step, attempt |-> r.attempt, anchor |-> r.anchor, header |-> r.header,
         owner |-> r.owner, result |-> r.result]

\* What a step may write of the record of a capture.
Stepped(r, step) == [r EXCEPT !.step = step]
Named(r, step, header) == [r EXCEPT !.step = step, !.header = header]
OwnedBy(r, step, owner) == [r EXCEPT !.step = step, !.owner = owner]
Ended(r, result) == [r EXCEPT !.step = "done", !.result = result]

LEMMA Rewritten ==
  ASSUME NEW r, IsCapture(r), NEW step, NEW w
  PROVE  /\ IsCapture(Stepped(r, step)) /\ Stepped(r, step).step = step
         /\ Stepped(r, step).header = r.header /\ Stepped(r, step).owner = r.owner
         /\ IsCapture(Named(r, step, w)) /\ Named(r, step, w).step = step
         /\ IsCapture(OwnedBy(r, step, w)) /\ OwnedBy(r, step, w).step = step
         /\ OwnedBy(r, step, w).header = r.header /\ OwnedBy(r, step, w).owner = w
         /\ IsCapture(Ended(r, w)) /\ Ended(r, w).step = "done"
         /\ Ended(r, w).header = r.header /\ Ended(r, w).result = w
<1>1. ASSUME NEW s, IsCapture(s), NEW v
      PROVE  /\ IsCapture(Stepped(s, v)) /\ Stepped(s, v).step = v
             /\ Stepped(s, v).header = s.header /\ Stepped(s, v).owner = s.owner
  BY <1>1 DEF IsCapture, Stepped
<1>2. ASSUME NEW s, IsCapture(s)
      PROVE  LET t == [s EXCEPT !.header = w] IN IsCapture(t) /\ t.step = s.step
  BY <1>2 DEF IsCapture
<1>3. ASSUME NEW s, IsCapture(s)
      PROVE  LET t == [s EXCEPT !.owner = w]
             IN  IsCapture(t) /\ t.step = s.step /\ t.header = s.header /\ t.owner = w
  BY <1>3 DEF IsCapture
<1>4. ASSUME NEW s, IsCapture(s)
      PROVE  LET t == [s EXCEPT !.result = w]
             IN  IsCapture(t) /\ t.step = s.step /\ t.header = s.header /\ t.result = w
  BY <1>4 DEF IsCapture
<1>5. Named(r, step, w) = [Stepped(r, step) EXCEPT !.header = w]
  BY DEF IsCapture, Named, Stepped
<1>6. OwnedBy(r, step, w) = [Stepped(r, step) EXCEPT !.owner = w]
  BY DEF IsCapture, OwnedBy, Stepped
<1>7. Ended(r, w) = [Stepped(r, "done") EXCEPT !.result = w]
  BY DEF IsCapture, Ended, Stepped
<1> DEFINE s == Stepped(r, step)  d == Stepped(r, "done")
<1>8. IsCapture(s) /\ s.step = step /\ s.header = r.header /\ s.owner = r.owner
  BY <1>1
<1>9. IsCapture(d) /\ d.step = "done" /\ d.header = r.header
  BY <1>1
<1> HIDE DEF s, d
<1>10. IsCapture([s EXCEPT !.header = w]) /\ [s EXCEPT !.header = w].step = step
  BY <1>2, <1>8
<1>11. /\ IsCapture([s EXCEPT !.owner = w]) /\ [s EXCEPT !.owner = w].step = step
       /\ [s EXCEPT !.owner = w].header = r.header /\ [s EXCEPT !.owner = w].owner = w
  BY <1>3, <1>8
<1>12. /\ IsCapture([d EXCEPT !.result = w]) /\ [d EXCEPT !.result = w].step = "done"
       /\ [d EXCEPT !.result = w].header = r.header /\ [d EXCEPT !.result = w].result = w
  BY <1>4, <1>9
<1> QED
  BY <1>5, <1>6, <1>7, <1>8, <1>10, <1>11, <1>12 DEF s, d

\* What a capture has seen of the block it reads, at each of its steps.
Saw(r) ==
    /\ r.step \in {"owner", "final", "provider"} => world[r.header].registry
    /\ r.step \in {"final", "provider"} => r.owner = world[r.header].owner /\ r.owner # None
    /\ r.step = "done" /\ r.result = Supply!NotFound => world[r.header].owner = None

CapturesSaw ==
    /\ capture = [c \in Captures |-> capture[c]]
    /\ \A c \in Captures : IsCapture(capture[c]) /\ Saw(capture[c])

\* What a report may be given on what it says it saw.
Honest(r) ==
    /\ r.status # "INCONCLUSIVE" => {"scan", "chain"} \subseteq r.answered
    /\ r.status = "UNAVAILABLE" =>
        \/ r.owner = None /\ world[r.block].owner = None
        \/ r.owner # None /\ r.card \in {"refused", "silent"}
    /\ r.status = "REGISTERED_ONLY" => r.owner # None /\ r.card = "detected"
    /\ r.owner # None => world[r.block].owner = r.owner /\ world[r.block].registry
    /\ r.status # "INCONCLUSIVE" =>
        "card" \in r.answered \/ (r.card = "silent" /\ r.status = "UNAVAILABLE")

ReportsAreHonest ==
    /\ IsSequence(reports)
    /\ \A j \in DOMAIN reports : Honest(reports[j])

\* Nothing is reported once the run has its status, which is that of all its reports.
StatusIsOfAll ==
    runStatus = "complete" =>
        /\ Supply!Seqs!Len(reports) = Supply!Seqs!Len(Manifest)
        /\ \A j \in DOMAIN reports :
            reports[j].status # "INCONCLUSIVE" /\ "inconclusive" \notin reports[j].sources

SupplyInv == CapturesSaw /\ ReportsAreHonest /\ StatusIsOfAll

\* A run that keeps the invariant is honest.
LEMMA HonestReports ==
  ASSUME SupplyInv
  PROVE  /\ Supply!VerdictsAreGrounded /\ Supply!OwnersAreOfTheirBlocks
         /\ Supply!CompleteIsComplete
<1>1. Supply!VerdictsAreGrounded /\ Supply!OwnersAreOfTheirBlocks
  BY DEF SupplyInv, ReportsAreHonest, Honest, Supply!VerdictsAreGrounded,
     Supply!OwnersAreOfTheirBlocks
<1>2. ASSUME runStatus = "complete", NEW j \in DOMAIN Manifest
      PROVE  /\ j \in DOMAIN reports
             /\ {"scan", "chain"} \subseteq reports[j].answered
             /\ \/ "card" \in reports[j].answered
                \/ reports[j].card = "silent" /\ reports[j].status = "UNAVAILABLE"
  <2>1. DOMAIN Manifest = 1..Supply!Seqs!Len(Manifest)
    BY SupplyAssumption DEF Supply!ManifestAssumption
  <2>2. DOMAIN reports = 1..Supply!Seqs!Len(reports)
    BY DEF SupplyInv, ReportsAreHonest, IsSequence
  <2>3. j \in DOMAIN reports
    BY <1>2, <2>1, <2>2 DEF SupplyInv, StatusIsOfAll
  <2> QED
    BY <1>2, <2>3 DEF SupplyInv, StatusIsOfAll, ReportsAreHonest, Honest
<1> QED
  BY <1>1, <1>2 DEF Supply!CompleteIsComplete

LEMMA SupplyStarts == Supply!RunInit => SupplyInv
<1> SUFFICES ASSUME Supply!RunInit PROVE SupplyInv
  OBVIOUS
<1>1. CapturesSaw
  BY DEF CapturesSaw, Saw, IsCapture, Supply!RunInit, Supply!IdentityInit, Supply!Idle
<1>2. reports = << >> /\ runStatus = None
  BY DEF Supply!RunInit
<1>3. ReportsAreHonest
  BY <1>2 DEF ReportsAreHonest, IsSequence
<1>4. StatusIsOfAll
  BY <1>2, NoneAssumption DEF StatusIsOfAll
<1> QED
  BY <1>1, <1>3, <1>4 DEF SupplyInv

\* One capture reads on, keeping what it saw, and the others rest.
OneReads(c) ==
    /\ CapturesSaw' /\ UNCHANGED world
    /\ \A d \in Captures \ {c} : capture'[d] = capture[d]

LEMMA CaptureStep ==
  ASSUME CapturesSaw, NEW c \in Captures, NEW r, IsCapture(r), Saw(r), Supply!Goes(c, r)
  PROVE  OneReads(c)
<1>1. capture' = [capture EXCEPT ![c] = r] /\ world' = world
  BY DEF Supply!Goes, Supply!chainVars
<1>2. capture' = [d \in Captures |-> IF d = c THEN r ELSE capture[d]]
  BY <1>1 DEF CapturesSaw
<1>3. \A d \in Captures : IsCapture(capture'[d]) /\ Saw(capture'[d])
  BY <1>2 DEF CapturesSaw
<1>4. \A s : Saw(s) => Saw(s)'
  BY <1>1 DEF Saw, Supply!NotFound
<1>5. CapturesSaw'
  BY <1>1, <1>2, <1>3, <1>4 DEF CapturesSaw, IsCapture
<1> QED
  BY <1>1, <1>2, <1>5 DEF OneReads

LEMMA EndsStep ==
  ASSUME CapturesSaw, NEW c \in Captures, NEW result, Supply!Ends(c, result),
         result = Supply!NotFound => world[capture[c].header].owner = None
  PROVE  OneReads(c)
<1> DEFINE r == Ended(capture[c], result)
<1>1. /\ IsCapture(r) /\ r.step = "done" /\ r.header = capture[c].header
      /\ r.result = result
  BY Rewritten DEF CapturesSaw
<1>2. Supply!Goes(c, r)
  BY DEF Supply!Ends, Ended
<1> HIDE DEF r
<1>3. Saw(r)
  BY <1>1 DEF Saw
<1> QED
  BY <1>1, <1>2, <1>3, CaptureStep

LEMMA InconclusiveStep ==
  ASSUME CapturesSaw, NEW c \in Captures, NEW code, Supply!Ends(c, Supply!Inconclusive(code))
  PROVE  OneReads(c)
<1>1. Supply!Inconclusive(code) # Supply!NotFound
  BY DEF Supply!Inconclusive, Supply!NotFound
<1> QED
  BY <1>1, EndsStep

LEMMA AsksStep ==
  ASSUME CapturesSaw, NEW c \in Captures, NEW attempt, NEW anchor,
         Supply!Goes(c, Supply!Asks(attempt, anchor))
  PROVE  OneReads(c)
<1> DEFINE r == Supply!Asks(attempt, anchor)
<1>1. IsCapture(r) /\ r.step = "head"
  BY DEF Supply!Asks, IsCapture
<1> HIDE DEF r
<1>2. Saw(r)
  BY <1>1 DEF Saw
<1>3. Supply!Goes(c, r)
  BY DEF r
<1> QED
  BY <1>1, <1>2, <1>3, CaptureStep

LEMMA PropagationStep ==
  ASSUME CapturesSaw, NEW c \in Captures, Supply!Propagation(c)
  PROVE  OneReads(c)
BY AsksStep, InconclusiveStep DEF Supply!Propagation

\* Whatever a capture reads next, it keeps what it saw of its block.
LEMMA ReadStep ==
  ASSUME CapturesSaw, NEW c \in Captures, Supply!Read(c), ~Supply!At(c, "provider")
  PROVE  OneReads(c)
<1> DEFINE r == capture[c]
<1>1. IsCapture(r) /\ Saw(r)
  BY DEF CapturesSaw
<1>2. CASE Supply!Head(c)
  <2>1. PICK seen \in {height - 1, height} :
          LET anchor == capture[c].anchor
              target == IF anchor = None THEN seen - Depth ELSE anchor[1]
          IN  IF seen < Depth THEN Supply!Ends(c, Supply!Inconclusive("HEAD_TOO_LOW"))
              ELSE IF seen < target + Depth
              THEN Supply!Ends(c, Supply!Inconclusive("SNAPSHOT_INCONSISTENT"))
              ELSE Supply!Goes(c, [capture[c] EXCEPT !.step = "header", !.header = target])
    BY <1>2 DEF Supply!Head
  <2> DEFINE target == IF capture[c].anchor = None THEN seen - Depth ELSE capture[c].anchor[1]
             s == Named(capture[c], "header", target)
  <2>2. IsCapture(s) /\ s.step = "header"
    BY <1>1, Rewritten
  <2>3. \/ Supply!Ends(c, Supply!Inconclusive("HEAD_TOO_LOW"))
        \/ Supply!Ends(c, Supply!Inconclusive("SNAPSHOT_INCONSISTENT"))
        \/ Supply!Goes(c, s)
    BY <2>1 DEF Named
  <2> HIDE DEF s
  <2>4. Saw(s)
    BY <2>2 DEF Saw
  <2> QED
    BY <2>2, <2>3, <2>4, CaptureStep, InconclusiveStep
<1>3. CASE Supply!Header(c)
  <2> DEFINE s == Named(capture[c], "registry", Supply!Block(capture[c].header))
  <2>1. IsCapture(s) /\ s.step = "registry"
    BY <1>1, Rewritten
  <2>2. Supply!Propagation(c) \/ Supply!Goes(c, s)
    BY <1>3 DEF Supply!Header, Named
  <2> HIDE DEF s
  <2>3. Saw(s)
    BY <2>1 DEF Saw
  <2> QED
    BY <2>1, <2>2, <2>3, CaptureStep, PropagationStep
<1>4. CASE Supply!Registry(c)
  <2> DEFINE s == Stepped(capture[c], "owner")
  <2>1. IsCapture(s) /\ s.step = "owner" /\ s.header = capture[c].header
    BY <1>1, Rewritten
  <2>2. \/ Supply!Propagation(c) \/ Supply!Ends(c, Supply!Inconclusive("REGISTRY_CODE_MISSING"))
        \/ Supply!Goes(c, s) /\ world[capture[c].header].registry
    BY <1>4 DEF Supply!Registry, Supply!Pinned, Stepped
  <2> HIDE DEF s
  <2>3. world[capture[c].header].registry => Saw(s)
    BY <2>1 DEF Saw
  <2> QED
    BY <2>1, <2>2, <2>3, CaptureStep, PropagationStep, InconclusiveStep
<1>5. CASE Supply!Owner(c)
  <2> DEFINE owner == world[capture[c].header].owner
             s == OwnedBy(capture[c], "final", owner)
  <2>1. IsCapture(s) /\ s.step = "final" /\ s.header = capture[c].header /\ s.owner = owner
    BY <1>1, Rewritten
  <2>2. \/ Supply!Propagation(c)
        \/ Supply!Ends(c, Supply!NotFound) /\ owner = None
        \/ Supply!Goes(c, s) /\ owner # None
    BY <1>5 DEF Supply!Owner, Supply!Pinned, OwnedBy
  <2> HIDE DEF s
  <2>3. world[capture[c].header].registry
    BY <1>1, <1>5 DEF Saw, Supply!Owner, Supply!At
  <2>4. owner # None => Saw(s)
    BY <2>1, <2>3 DEF Saw
  <2>5. CASE Supply!Ends(c, Supply!NotFound) /\ owner = None
    BY <2>5, EndsStep
  <2> QED
    BY <2>1, <2>2, <2>4, <2>5, CaptureStep, PropagationStep
<1>6. CASE Supply!Final(c)
  <2> DEFINE s == Stepped(capture[c], "provider")
  <2>1. IsCapture(s) /\ s.step = "provider" /\ s.header = capture[c].header
        /\ s.owner = capture[c].owner
    BY <1>1, Rewritten
  <2>2. Supply!Propagation(c) \/ Supply!Goes(c, s)
    BY <1>6 DEF Supply!Final, Stepped
  <2> HIDE DEF s
  <2>3. capture[c].step = "final"
    BY <1>6 DEF Supply!Final, Supply!At
  <2>4. Saw(s)
    BY <1>1, <2>1, <2>3 DEF Saw
  <2> QED
    BY <2>1, <2>2, <2>4, CaptureStep, PropagationStep
<1>7. CASE Supply!Provider(c)
  BY <1>7 DEF Supply!Provider
<1>8. CASE Supply!Fault(c)
  BY <1>8, InconclusiveStep DEF Supply!Fault
<1>9. CASE Supply!Lagging(c)
  BY <1>9, PropagationStep DEF Supply!Lagging
<1> QED
  BY <1>2, <1>3, <1>4, <1>5, <1>6, <1>7, <1>8, <1>9 DEF Supply!Read

\* The candidate whose turn it is is one of the manifest.
LEMMA CurrentIsKnown ==
  ASSUME SupplyInv, Supply!Working
  PROVE  Supply!Current \in Captures
<1>1. Supply!Seqs!Len(reports) \in Nat
  BY DEF SupplyInv, ReportsAreHonest, IsSequence
<1>2. Manifest \in Supply!Seqs!Seq(Captures)
  BY SupplyAssumption DEF Supply!ManifestAssumption
<1> QED
  BY <1>1, <1>2 DEF Supply!Working, Supply!Current

\* A report that is appended is to be honest itself.
LEMMA ReportStep ==
  ASSUME SupplyInv, NEW r, Honest(r), runStatus # "complete",
         reports' = Supply!Seqs!Append(reports, r),
         UNCHANGED <<world, capture, runStatus>>
  PROVE  SupplyInv'
<1>1. /\ IsSequence(reports')
      /\ \A j \in DOMAIN reports' :
           reports'[j] = r \/ (j \in DOMAIN reports /\ reports'[j] = reports[j])
  BY Appended DEF SupplyInv, ReportsAreHonest
<1>2. \A s : Honest(s) => Honest(s)'
  BY DEF Honest
<1>3. \A j \in DOMAIN reports' : Honest(reports'[j])
  BY <1>1 DEF SupplyInv, ReportsAreHonest
<1>4. ReportsAreHonest'
  BY <1>1, <1>2, <1>3 DEF ReportsAreHonest, IsSequence
<1>5. CapturesSaw'
  BY DEF SupplyInv, CapturesSaw, IsCapture, Saw, Supply!NotFound
<1> QED
  BY <1>4, <1>5 DEF SupplyInv, StatusIsOfAll

\* Where nothing is reported and no block is said anew, the reports stay honest.
LEMMA NoReport ==
  ASSUME SupplyInv, CapturesSaw', UNCHANGED <<world, reports>>,
         runStatus' = runStatus \/ StatusIsOfAll'
  PROVE  SupplyInv'
BY DEF SupplyInv, ReportsAreHonest, IsSequence, Honest, StatusIsOfAll

\* A report that is inconclusive, on whatever was seen.
LEMMA InconclusiveReport ==
  ASSUME SupplyInv, Supply!Working, NEW sources
  PROVE  Honest(Supply!Report(Supply!Current, "INCONCLUSIVE", sources))
<1> DEFINE c == Supply!Current
<1>1. c \in Captures
  BY CurrentIsKnown
<1>2. Saw(capture[c])
  BY <1>1 DEF SupplyInv, CapturesSaw
<1> HIDE DEF c
<1>3. Honest(Supply!Report(c, "INCONCLUSIVE", sources))
  BY <1>2 DEF Honest, Supply!Report, Supply!ChainVerified, Supply!At, Saw
<1> QED
  BY <1>3 DEF c

\* The report of a candidate that was asked for everywhere.
LEMMA FullReport ==
  ASSUME SupplyInv, Supply!Working, NEW dispositions, NEW c \in Captures,
         dispositions = {"success", Supply!ScanDisposition(scan[c]),
                         Supply!ChainDisposition(c), Supply!CardDisposition(card[c])}
  PROVE  Honest(Supply!Report(c, Supply!Classify(dispositions), dispositions))
<1> DEFINE r == Supply!Report(c, Supply!Classify(dispositions), dispositions)
<1>1. Saw(capture[c])
  BY DEF SupplyInv, CapturesSaw
<1>2. /\ r.status = Supply!Classify(dispositions) /\ r.sources = dispositions
      /\ r.owner = IF Supply!ChainVerified(c) THEN capture[c].owner ELSE None
      /\ r.block = capture[c].header
      /\ "scan" \in r.answered <=> scan[c] \in {"ok", "not_indexed"}
      /\ "chain" \in r.answered <=>
           (Supply!ChainVerified(c) \/ Supply!ChainDisposition(c) = "definitive_failure")
      /\ "card" \in r.answered <=> card[c] \in {"detected", "refused"}
      /\ r.card = card[c]
  BY DEF Supply!Report
<1> HIDE DEF r
<1>3. Supply!ScanDisposition(scan[c]) # "inconclusive" => scan[c] \in {"ok", "not_indexed"}
  BY DEF Supply!ScanDisposition
<1>4. /\ Supply!CardDisposition(card[c]) # "inconclusive" =>
          card[c] \in {"detected", "refused", "silent"}
      /\ Supply!CardDisposition(card[c]) = "definitive_failure" => card[c] \in {"refused", "silent"}
      /\ card[c] \in {"refused", "silent"} => Supply!CardDisposition(card[c]) = "definitive_failure"
  BY DEF Supply!CardDisposition
<1>5. Supply!ChainDisposition(c) # "inconclusive" =>
        Supply!ChainVerified(c) \/ Supply!ChainDisposition(c) = "definitive_failure"
  BY DEF Supply!ChainDisposition
<1>6. Supply!ChainVerified(c) =>
        /\ capture[c].owner = world[capture[c].header].owner /\ capture[c].owner # None
        /\ world[capture[c].header].registry
        /\ Supply!ChainDisposition(c) = "success"
  BY <1>1 DEF Supply!ChainVerified, Supply!ChainDisposition, Supply!At, Saw
<1>7. Supply!ChainDisposition(c) = "definitive_failure" =>
        world[capture[c].header].owner = None
  BY <1>1 DEF Supply!ChainDisposition, Supply!At, Saw
<1>8. r.status # "INCONCLUSIVE" => "inconclusive" \notin dispositions
  BY <1>2 DEF Supply!Classify
<1>9. Supply!ScanDisposition(scan[c]) # "definitive_failure"
  BY DEF Supply!ScanDisposition
<1>10. /\ r.status = "UNAVAILABLE" => "definitive_failure" \in dispositions
       /\ r.status = "REGISTERED_ONLY" => "definitive_failure" \notin dispositions
       /\ r.status \in {"INCONCLUSIVE", "UNAVAILABLE", "REGISTERED_ONLY"}
  BY <1>2 DEF Supply!Classify
<1>11. r.status # "INCONCLUSIVE" => {"scan", "chain"} \subseteq r.answered
  BY <1>2, <1>3, <1>5, <1>8
<1>12. r.status = "UNAVAILABLE" =>
         \/ r.owner = None /\ world[r.block].owner = None
         \/ r.owner # None /\ r.card \in {"refused", "silent"}
  BY <1>2, <1>4, <1>5, <1>6, <1>7, <1>8, <1>9, <1>10
<1>13. r.status = "REGISTERED_ONLY" => r.owner # None /\ r.card = "detected"
  BY <1>2, <1>4, <1>5, <1>6, <1>8, <1>10
<1>14. r.owner # None => world[r.block].owner = r.owner /\ world[r.block].registry
  BY <1>2, <1>6
<1>15. r.status # "INCONCLUSIVE" =>
         "card" \in r.answered \/ (r.card = "silent" /\ r.status = "UNAVAILABLE")
  BY <1>2, <1>4, <1>8, <1>10
<1>16. Honest(r)
  BY <1>11, <1>12, <1>13, <1>14, <1>15 DEF Honest
<1> QED
  BY <1>16 DEF r

LEMMA SupplyStep == SupplyInv /\ [Supply!RunNext]_Supply!supplyVars => SupplyInv'
<1> USE DEF Supply!runVars, Supply!identityVars
<1>1. ASSUME SupplyInv, UNCHANGED Supply!supplyVars PROVE SupplyInv'
  BY <1>1, NoReport DEF Supply!supplyVars, CapturesSaw, SupplyInv, IsCapture, Saw, Supply!NotFound
<1>2. ASSUME SupplyInv, UNCHANGED <<world, capture, reports, runStatus>> PROVE SupplyInv'
  BY <1>2, NoReport DEF CapturesSaw, SupplyInv, IsCapture, Saw, Supply!NotFound
<1>3. ASSUME SupplyInv, Supply!RateLimited PROVE SupplyInv'
  <2>1. Supply!Working /\ runStatus # "complete"
    BY <1>3, NoneAssumption DEF Supply!RateLimited, Supply!Working
  <2> QED
    BY <1>3, <2>1, InconclusiveReport, ReportStep DEF Supply!RateLimited
<1>4. ASSUME SupplyInv, Supply!StartChain PROVE SupplyInv'
  <2>1. Supply!Current \in Captures
    BY <1>4, CurrentIsKnown DEF Supply!StartChain, Supply!ScanDone
  <2>2. OneReads(Supply!Current)
    BY <1>4, <2>1, AsksStep DEF Supply!StartChain, Supply!Start, SupplyInv
  <2> QED
    BY <1>4, <2>2, NoReport DEF Supply!StartChain, OneReads
<1>5. ASSUME SupplyInv, Supply!ReadChain PROVE SupplyInv'
  <2>1. Supply!Current \in Captures /\ ~Supply!At(Supply!Current, "provider")
    BY <1>5, CurrentIsKnown DEF Supply!ReadChain, Supply!ScanDone, Supply!ChainDone, Supply!At
  <2>2. OneReads(Supply!Current)
    <3>1. CASE online
      BY <1>5, <2>1, <3>1, ReadStep DEF Supply!ReadChain, SupplyInv
    <3>2. CASE ~online
      BY <1>5, <2>1, <3>2, InconclusiveStep DEF Supply!ReadChain, SupplyInv
    <3> QED
      BY <3>1, <3>2
  <2> QED
    BY <1>5, <2>2, NoReport DEF Supply!ReadChain, OneReads
<1>6. ASSUME SupplyInv, Supply!Finish PROVE SupplyInv'
  <2> DEFINE c == Supply!Current
             dispositions == {"success", Supply!ScanDisposition(scan[c]),
                              Supply!ChainDisposition(c), Supply!CardDisposition(card[c])}
             r == Supply!Report(c, Supply!Classify(dispositions), dispositions)
  <2>1. Supply!Working /\ runStatus # "complete"
    BY <1>6, NoneAssumption DEF Supply!Finish, Supply!ScanDone, Supply!Working
  <2>2. c \in Captures
    BY <1>6, <2>1, CurrentIsKnown
  <2>3. reports' = Supply!Seqs!Append(reports, r)
        /\ UNCHANGED <<world, capture, runStatus>>
    BY <1>6 DEF Supply!Finish
  <2> HIDE DEF c, dispositions
  <2>4. Honest(r)
    BY <1>6, <2>1, <2>2, FullReport DEF dispositions
  <2> HIDE DEF r
  <2> QED
    BY <1>6, <2>1, <2>3, <2>4, ReportStep
<1>7. ASSUME SupplyInv, Supply!Stop PROVE SupplyInv'
  <2>1. Supply!Working /\ runStatus # "complete"
    BY <1>7, NoneAssumption DEF Supply!Stop, Supply!Working
  <2> QED
    BY <1>7, <2>1, InconclusiveReport, ReportStep DEF Supply!Stop, Supply!StoppedReport
<1>8. ASSUME SupplyInv, Supply!Build PROVE SupplyInv'
  <2>1. UNCHANGED <<world, capture, reports>>
    BY <1>8 DEF Supply!Build
  <2>2. StatusIsOfAll'
    BY <1>8 DEF Supply!Build, Supply!RunStatus, StatusIsOfAll
  <2>3. CapturesSaw'
    BY <1>8, <2>1 DEF CapturesSaw, SupplyInv, IsCapture, Saw, Supply!NotFound
  <2> QED
    BY <1>8, <2>1, <2>2, <2>3, NoReport
<1>9. ASSUME SupplyInv, Supply!Step PROVE SupplyInv'
  <2>1. CASE \/ Supply!Ask \/ Supply!Probe
             \/ \E response \in Supply!ScanResponses : Supply!Answer(response)
    BY <1>2, <1>9, <2>1 DEF Supply!Ask, Supply!Probe, Supply!Answer
  <2> QED
    BY <1>3, <1>4, <1>5, <1>6, <1>7, <1>8, <1>9, <2>1 DEF Supply!Step
<1>10. ASSUME SupplyInv, Supply!Outage \/ Supply!Chain PROVE SupplyInv'
  BY <1>2, <1>10 DEF Supply!Outage, Supply!Chain, Supply!Mine, Supply!Reorganize
<1> QED
  BY <1>1, <1>9, <1>10 DEF Supply!RunNext

\* Candidates are asked for one after the other, and the endpoint last.
Settled(c) == scan[c] \in {"ok", "not_indexed", "inconclusive"}
InTurn(c) == Supply!Working /\ c = Supply!Current
AskedInTurn ==
    /\ scan = [c \in Captures |-> scan[c]] /\ card = [c \in Captures |-> card[c]]
    /\ \A c \in Captures :
        /\ scan[c] = "asking" => InTurn(c) /\ ~stopped
        /\ scan[c] = "rate_limited" => stopped \/ InTurn(c)
        /\ Settled(c) => card[c] # None \/ (InTurn(c) /\ ~stopped)
        /\ card[c] # None => Supply!ChainDone(c)

\* What a candidate that is not in turn was asked stays as it is.
LEMMA OutOfTurn ==
  ASSUME AskedInTurn, UNCHANGED <<scan, card, capture>>, stopped => stopped',
         \A c \in Captures : InTurn(c) => \/ InTurn(c)' /\ stopped' = stopped
                                          \/ Settled(c) /\ card[c] # None
                                          \/ scan[c] = "rate_limited" /\ stopped'
                                          \/ stopped
  PROVE  AskedInTurn'
<1>1. \A c \in Captures : Supply!ChainDone(c)' <=> Supply!ChainDone(c)
  BY DEF Supply!ChainDone
<1>2. \A c \in Captures : Settled(c)' <=> Settled(c)
  BY DEF Settled
<1> QED
  BY <1>1, <1>2 DEF AskedInTurn, Settled

\* Nobody is asked once the rate was limited, and the turns are kept.
LEMMA TurnStep ==
  ASSUME SupplyInv, AskedInTurn, Supply!RunNext
  PROVE  AskedInTurn' /\ Supply!AsksNobodyOnceLimited
<1> USE DEF Supply!runVars, Supply!identityVars
<1> DEFINE c == Supply!Current
<1>1. Supply!Working => c \in Captures
  BY CurrentIsKnown
<1>2. ASSUME UNCHANGED <<reports, runStatus>>
      PROVE  Supply!Working' = Supply!Working /\ Supply!Current' = Supply!Current
             /\ \A d \in Captures : InTurn(d)' <=> InTurn(d)
  BY <1>2 DEF Supply!Working, Supply!Current, InTurn
<1>3. CASE UNCHANGED <<scan, card, capture, stopped, reports, runStatus>>
  BY <1>2, <1>3, OutOfTurn DEF Supply!AsksNobodyOnceLimited
<1>4. CASE Supply!Outage \/ Supply!Chain
  BY <1>3, <1>4 DEF Supply!Outage, Supply!Chain, Supply!Mine, Supply!Reorganize
<1>5. ASSUME Supply!Ask \/ (\E response \in Supply!ScanResponses : Supply!Answer(response))
      PROVE  AskedInTurn' /\ Supply!AsksNobodyOnceLimited
  <2>1. /\ Supply!Working /\ ~stopped /\ scan[c] \in {None, "asking"}
        /\ UNCHANGED <<card, capture, stopped, reports, runStatus>>
    BY <1>1, <1>5 DEF Supply!Ask, Supply!Answer, AskedInTurn
  <2>2. PICK x \in {"asking", "inconclusive", "ok", "not_indexed", "rate_limited"} :
          scan' = [scan EXCEPT ![c] = x]
    BY <1>5 DEF Supply!Ask, Supply!Answer, Supply!ScanResult
  <2> HIDE DEF c
  <2>3. scan' = [d \in Captures |-> IF d = c THEN x ELSE scan[d]]
    BY <2>2 DEF AskedInTurn
  <2>4. InTurn(c)
    BY <2>1 DEF InTurn, c
  <2>5. \A d \in Captures : scan[d] # "rate_limited"
    BY <2>1, <2>4, NoneAssumption DEF AskedInTurn, InTurn, c
  <2>6. \A d \in Captures : Supply!ChainDone(d)' <=> Supply!ChainDone(d)
    BY <2>1 DEF Supply!ChainDone
  <2>7. \A d \in Captures : InTurn(d)' <=> InTurn(d)
    BY <1>2, <2>1
  <2>8. ASSUME NEW d \in Captures
        PROVE  /\ scan'[d] = "asking" => InTurn(d)' /\ ~stopped'
               /\ scan'[d] = "rate_limited" => stopped' \/ InTurn(d)'
               /\ Settled(d)' => card'[d] # None \/ (InTurn(d)' /\ ~stopped')
               /\ card'[d] # None => Supply!ChainDone(d)'
    <3>1. CASE d = c
      BY <2>1, <2>4, <2>6, <2>7, <3>1 DEF AskedInTurn
    <3>2. CASE d # c
      <4>1. scan'[d] = scan[d] /\ (Settled(d)' <=> Settled(d))
        BY <2>3, <3>2 DEF Settled
      <4> QED
        BY <2>1, <2>6, <2>7, <4>1 DEF AskedInTurn
    <3> QED
      BY <3>1, <3>2
  <2>9. AskedInTurn'
    BY <2>1, <2>3, <2>8 DEF AskedInTurn
  <2> QED
    BY <2>5, <2>9 DEF Supply!AsksNobodyOnceLimited
<1>6. ASSUME Supply!ScanDone, ~(Supply!ChainDone(c) /\ card[c] # None)
      PROVE  ~stopped /\ \A d \in Captures : scan[d] # "rate_limited"
  <2>1. c \in Captures /\ Settled(c) /\ Supply!Working
    BY <1>1, <1>6 DEF Supply!ScanDone, Settled
  <2>2. ~stopped
    BY <1>6, <2>1 DEF AskedInTurn
  <2> QED
    BY <2>1, <2>2 DEF AskedInTurn, InTurn, Settled
<1>7. ASSUME Supply!StartChain \/ Supply!ReadChain
      PROVE  AskedInTurn' /\ Supply!AsksNobodyOnceLimited
  <2>1. /\ Supply!ScanDone /\ Supply!Working /\ ~Supply!ChainDone(c)
        /\ UNCHANGED <<scan, card, stopped, reports, runStatus>>
    BY <1>7 DEF Supply!StartChain, Supply!ReadChain, Supply!Start, Supply!At, Supply!ChainDone,
       Supply!ScanDone
  <2>2. c \in Captures /\ CapturesSaw
    BY <1>1, <2>1 DEF SupplyInv
  <2>3. OneReads(c)
    <3>1. CASE Supply!StartChain
      BY <2>2, <3>1, AsksStep DEF Supply!StartChain, Supply!Start
    <3>2. CASE Supply!ReadChain /\ online
      BY <2>1, <2>2, <3>2, ReadStep DEF Supply!ReadChain, Supply!ChainDone, Supply!At
    <3>3. CASE Supply!ReadChain /\ ~online
      BY <2>2, <3>3, InconclusiveStep DEF Supply!ReadChain
    <3> QED
      BY <1>7, <3>1, <3>2, <3>3
  <2> HIDE DEF c
  <2>4. ~stopped /\ \A d \in Captures : scan[d] # "rate_limited"
    BY <1>6, <2>1
  <2>5. \A d \in Captures : InTurn(d)' <=> InTurn(d)
    BY <1>2, <2>1
  <2>6. \A d \in Captures : card[d] # None => d # c /\ Supply!ChainDone(d)
    BY <2>1 DEF AskedInTurn
  <2>7. \A d \in Captures : card[d] # None => Supply!ChainDone(d)'
    BY <2>3, <2>6 DEF OneReads, Supply!ChainDone
  <2>8. \A d \in Captures : Settled(d)' <=> Settled(d)
    BY <2>1 DEF Settled
  <2>9. AskedInTurn'
    BY <2>1, <2>5, <2>7, <2>8 DEF AskedInTurn
  <2> QED
    BY <2>4, <2>9 DEF Supply!AsksNobodyOnceLimited
<1>8. ASSUME Supply!Probe PROVE AskedInTurn' /\ Supply!AsksNobodyOnceLimited
  <2>1. /\ Supply!ScanDone /\ Supply!Working /\ Supply!ChainDone(c) /\ card[c] = None
        /\ UNCHANGED <<scan, capture, stopped, reports, runStatus>>
    BY <1>8 DEF Supply!Probe, Supply!ScanDone
  <2>2. PICK x : card' = [card EXCEPT ![c] = x]
    BY <1>8 DEF Supply!Probe
  <2>3. c \in Captures
    BY <1>1, <2>1
  <2> HIDE DEF c
  <2>4. ~stopped /\ \A d \in Captures : scan[d] # "rate_limited"
    BY <1>6, <2>1
  <2>5. \A d \in Captures : InTurn(d)' <=> InTurn(d)
    BY <1>2, <2>1
  <2>6. card' = [d \in Captures |-> IF d = c THEN x ELSE card[d]]
    BY <2>2 DEF AskedInTurn
  <2>7. \A d \in Captures : Settled(d)' <=> Settled(d)
    BY <2>1 DEF Settled
  <2>8. \A d \in Captures : Supply!ChainDone(d)' <=> Supply!ChainDone(d)
    BY <2>1 DEF Supply!ChainDone
  <2>9. InTurn(c)
    BY <2>1 DEF InTurn, c
  <2>10. ASSUME NEW d \in Captures
         PROVE  /\ scan'[d] = "asking" => InTurn(d)' /\ ~stopped'
                /\ scan'[d] = "rate_limited" => stopped' \/ InTurn(d)'
                /\ Settled(d)' => card'[d] # None \/ (InTurn(d)' /\ ~stopped')
                /\ card'[d] # None => Supply!ChainDone(d)'
    <3>1. CASE d = c
      BY <2>1, <2>4, <2>5, <2>8, <2>9, <3>1 DEF AskedInTurn
    <3>2. CASE d # c
      <4>1. card'[d] = card[d]
        BY <2>6, <3>2
      <4> QED
        BY <2>1, <2>5, <2>7, <2>8, <4>1 DEF AskedInTurn
    <3> QED
      BY <3>1, <3>2
  <2>11. AskedInTurn'
    BY <2>1, <2>6, <2>10 DEF AskedInTurn
  <2> QED
    BY <2>4, <2>11 DEF Supply!AsksNobodyOnceLimited
<1>9. CASE Supply!RateLimited
  BY <1>9, OutOfTurn DEF Supply!RateLimited, Supply!AsksNobodyOnceLimited, InTurn
<1>10. CASE Supply!Finish
  BY <1>10, OutOfTurn
     DEF Supply!Finish, Supply!ScanDone, Supply!AsksNobodyOnceLimited, InTurn, Settled
<1>11. CASE Supply!Stop
  BY <1>11, OutOfTurn DEF Supply!Stop, Supply!AsksNobodyOnceLimited
<1>12. CASE Supply!Build
  <2>1. ~Supply!Working
    BY <1>12 DEF Supply!Build, Supply!Working, SupplyInv, ReportsAreHonest, IsSequence
  <2> QED
    BY <1>12, <2>1, OutOfTurn DEF Supply!Build, Supply!AsksNobodyOnceLimited, InTurn
<1> QED
  BY <1>4, <1>5, <1>7, <1>8, <1>9, <1>10, <1>11, <1>12 DEF Supply!RunNext, Supply!Step

LEMMA TurnsStart == Supply!RunInit => SupplyInv /\ AskedInTurn
BY SupplyStarts, NoneAssumption DEF Supply!RunInit, AskedInTurn, Settled

LEMMA TurnsStep ==
  ASSUME SupplyInv, AskedInTurn, [Supply!RunNext]_(Supply!supplyVars)
  PROVE  /\ SupplyInv' /\ AskedInTurn'
         /\ [Supply!AsksNobodyOnceLimited]_(Supply!supplyVars)
<1>1. ASSUME UNCHANGED Supply!supplyVars PROVE AskedInTurn'
  BY <1>1, OutOfTurn DEF Supply!supplyVars, Supply!identityVars, InTurn, Supply!Working,
     Supply!Current
<1> QED
  BY <1>1, SupplyStep, TurnStep

\* The passive verifier gives no verdict without the scan and the chain and none without a
\* reason it saw, names only the owner of the block it gives, calls no run complete that was
\* cut short, and asks nobody any more once the scan has limited the rate, for any manifest,
\* any chain and any outages (verify.ts, report.ts; policy.ts, stopOnHttp429).  An endpoint
\* that did not answer is such a reason, whatever broke the connection.
THEOREM EverySupplyRunIsHonest ==
  Supply!RunSpec =>
    /\ []( /\ Supply!VerdictsAreGrounded /\ Supply!OwnersAreOfTheirBlocks
           /\ Supply!CompleteIsComplete)
    /\ [][Supply!AsksNobodyOnceLimited]_(Supply!supplyVars)
<1>1. SupplyInv /\ AskedInTurn /\ [Supply!RunNext]_(Supply!supplyVars)
        => (SupplyInv /\ AskedInTurn)'
  BY TurnsStep
<1>2. SupplyInv /\ AskedInTurn /\ [Supply!RunNext]_(Supply!supplyVars)
        => [Supply!AsksNobodyOnceLimited]_(Supply!supplyVars)
  BY TurnsStep
<1> QED
  BY TurnsStart, <1>1, <1>2, HonestReports, PTL DEF Supply!RunSpec

\* What the state of a run may be.  A capture asks twice at most, and keeps its anchor.
Continues(r, s) ==
    /\ s.step \in Supply!Reading \cup {"done"}
    /\ s.attempt \in {r.attempt, 2} /\ s.anchor = r.anchor

LEMMA RewrittenContinues ==
  ASSUME NEW r, IsCapture(r), NEW step \in Supply!Reading \cup {"done"}, NEW w
  PROVE  /\ Continues(r, Stepped(r, step)) /\ Continues(r, Named(r, step, w))
         /\ Continues(r, OwnedBy(r, step, w)) /\ Continues(r, Ended(r, w))
<1> DEFINE s == [r EXCEPT !.step = step]
           d == [r EXCEPT !.step = "done"]
<1>1. /\ s = Stepped(r, step) /\ [s EXCEPT !.header = w] = Named(r, step, w)
      /\ [s EXCEPT !.owner = w] = OwnedBy(r, step, w) /\ [d EXCEPT !.result = w] = Ended(r, w)
  BY DEF Stepped, Named, OwnedBy, Ended, IsCapture
<1>2. IsCapture(s) /\ s.step = step /\ s.attempt = r.attempt /\ s.anchor = r.anchor
  BY DEF IsCapture
<1>3. IsCapture(d) /\ d.step = "done" /\ d.attempt = r.attempt /\ d.anchor = r.anchor
  BY DEF IsCapture
<1> HIDE DEF s, d
<1>4. \A x, y : IsCapture(x) =>
        /\ [x EXCEPT !.header = y].step = x.step /\ [x EXCEPT !.header = y].attempt = x.attempt
        /\ [x EXCEPT !.header = y].anchor = x.anchor
        /\ [x EXCEPT !.owner = y].step = x.step /\ [x EXCEPT !.owner = y].attempt = x.attempt
        /\ [x EXCEPT !.owner = y].anchor = x.anchor
        /\ [x EXCEPT !.result = y].step = x.step /\ [x EXCEPT !.result = y].attempt = x.attempt
        /\ [x EXCEPT !.result = y].anchor = x.anchor
  BY DEF IsCapture
<1>5. Continues(r, s)
  BY <1>2 DEF Continues
<1>6. Continues(r, [s EXCEPT !.header = w]) /\ Continues(r, [s EXCEPT !.owner = w])
  BY <1>2, <1>4 DEF Continues
<1>7. Continues(r, [d EXCEPT !.result = w])
  BY <1>3, <1>4 DEF Continues
<1> QED
  BY <1>1, <1>5, <1>6, <1>7

ReadsOn(c) == \E s : Continues(capture[c], s) /\ Supply!Goes(c, s)

LEMMA EndsReadsOn ==
  ASSUME CapturesSaw, NEW c \in Captures, NEW result, Supply!Ends(c, result)
  PROVE  ReadsOn(c)
<1> DEFINE s == Ended(capture[c], result)
<1>1. IsCapture(capture[c]) /\ "done" \in Supply!Reading \cup {"done"}
  BY DEF CapturesSaw
<1>2. Continues(capture[c], s)
  BY <1>1, RewrittenContinues
<1>3. Supply!Goes(c, s)
  BY DEF Supply!Ends, Ended
<1> HIDE DEF s
<1> QED
  BY <1>2, <1>3 DEF ReadsOn

LEMMA PropagationReadsOn ==
  ASSUME CapturesSaw, NEW c \in Captures, Supply!Propagation(c)
  PROVE  ReadsOn(c)
<1> DEFINE s == Supply!Asks(2, capture[c].anchor)
<1>1. CASE Supply!Goes(c, s)
  <2>1. Continues(capture[c], s)
    BY DEF Continues, Supply!Asks, Supply!Reading
  <2> HIDE DEF s
  <2> QED
    BY <1>1, <2>1 DEF ReadsOn
<1>2. CASE Supply!Ends(c, Supply!Inconclusive("SNAPSHOT_INCONSISTENT"))
  BY <1>2, EndsReadsOn
<1> QED
  BY <1>1, <1>2 DEF Supply!Propagation

LEMMA ReadReadsOn ==
  ASSUME CapturesSaw, NEW c \in Captures, Supply!Read(c)
  PROVE  ReadsOn(c)
<1> DEFINE r == capture[c]
<1>1. IsCapture(r)
  BY DEF CapturesSaw
<1>2. {"header", "registry", "owner", "final", "provider"} \subseteq Supply!Reading
  BY DEF Supply!Reading
<1>3. ASSUME NEW step \in {"header", "registry", "owner", "final", "provider"}, NEW w,
             \/ Supply!Goes(c, Stepped(r, step)) \/ Supply!Goes(c, Named(r, step, w))
             \/ Supply!Goes(c, OwnedBy(r, step, w))
      PROVE  ReadsOn(c)
  <2>1. step \in Supply!Reading \cup {"done"}
    BY <1>2
  <2>2. /\ Continues(r, Stepped(r, step)) /\ Continues(r, Named(r, step, w))
        /\ Continues(r, OwnedBy(r, step, w))
    BY <1>1, <2>1, RewrittenContinues
  <2> QED
    BY <1>3, <2>2 DEF ReadsOn
<1>4. CASE Supply!Head(c)
  <2>1. PICK seen \in {height - 1, height} :
          LET anchor == capture[c].anchor
              target == IF anchor = None THEN seen - Depth ELSE anchor[1]
          IN  IF seen < Depth THEN Supply!Ends(c, Supply!Inconclusive("HEAD_TOO_LOW"))
              ELSE IF seen < target + Depth
              THEN Supply!Ends(c, Supply!Inconclusive("SNAPSHOT_INCONSISTENT"))
              ELSE Supply!Goes(c, [capture[c] EXCEPT !.step = "header", !.header = target])
    BY <1>4 DEF Supply!Head
  <2> DEFINE target == IF r.anchor = None THEN seen - Depth ELSE r.anchor[1]
  <2>2. \/ Supply!Ends(c, Supply!Inconclusive("HEAD_TOO_LOW"))
        \/ Supply!Ends(c, Supply!Inconclusive("SNAPSHOT_INCONSISTENT"))
        \/ Supply!Goes(c, Named(r, "header", target))
    BY <2>1 DEF Named
  <2> QED
    BY <1>3, <2>2, EndsReadsOn
<1>5. CASE Supply!Header(c)
  <2>1. Supply!Propagation(c) \/ Supply!Goes(c, Named(r, "registry", Supply!Block(r.header)))
    BY <1>5 DEF Supply!Header, Named
  <2> QED
    BY <1>3, <2>1, PropagationReadsOn
<1>6. CASE Supply!Registry(c)
  <2>1. \/ Supply!Propagation(c) \/ Supply!Ends(c, Supply!Inconclusive("REGISTRY_CODE_MISSING"))
        \/ Supply!Goes(c, Stepped(r, "owner"))
    BY <1>6 DEF Supply!Registry, Stepped
  <2> QED
    BY <1>3, <2>1, PropagationReadsOn, EndsReadsOn
<1>7. CASE Supply!Owner(c)
  <2>1. \/ Supply!Propagation(c) \/ Supply!Ends(c, Supply!NotFound)
        \/ Supply!Goes(c, OwnedBy(r, "final", world[Supply!Pinned(c)].owner))
    BY <1>7 DEF Supply!Owner, OwnedBy
  <2> QED
    BY <1>3, <2>1, PropagationReadsOn, EndsReadsOn
<1>8. CASE Supply!Final(c)
  <2>1. Supply!Propagation(c) \/ Supply!Goes(c, Stepped(r, "provider"))
    BY <1>8 DEF Supply!Final, Stepped
  <2> QED
    BY <1>3, <2>1, PropagationReadsOn
<1>9. CASE Supply!Provider(c)
  BY <1>9, EndsReadsOn DEF Supply!Provider
<1>10. CASE Supply!Fault(c)
  BY <1>10, EndsReadsOn DEF Supply!Fault
<1>11. CASE Supply!Lagging(c)
  BY <1>11, EndsReadsOn, PropagationReadsOn DEF Supply!Lagging
<1> QED
  BY <1>4, <1>5, <1>6, <1>7, <1>8, <1>9, <1>10, <1>11 DEF Supply!Read

\* Where the chain is, and its captures.
ChainIsPlaced ==
    /\ branch \in Branches /\ height \in 0..MaxHeight /\ forks \in 0..MaxForks
    /\ today \in 0..Depth
CapturesAreTyped ==
    \A c \in Captures :
        /\ capture[c].step \in Supply!Reading \cup {"idle", "done"}
        /\ capture[c].attempt \in 0..2
        /\ capture[c].anchor \in Supply!DeepBlocks \cup {None}
ReportsAreInOrder ==
    /\ Supply!Seqs!Len(reports) <= Supply!Seqs!Len(Manifest)
    /\ \A j \in DOMAIN reports : /\ reports[j].candidate = Manifest[j]
                                 /\ reports[j].status \in Supply!Statuses
    /\ runStatus \in {None, "complete", "inconclusive"}

LEMMA RunTypes ==
  Supply!RunTypeOK <=> ChainIsPlaced /\ CapturesAreTyped /\ ReportsAreInOrder
BY DEF Supply!RunTypeOK, Supply!TypeOK, ChainIsPlaced, CapturesAreTyped, ReportsAreInOrder

LEMMA RunTypesStart == Supply!RunInit => Supply!RunTypeOK
<1> SUFFICES ASSUME Supply!RunInit PROVE Supply!RunTypeOK
  OBVIOUS
<1>1. /\ branch \in Branches /\ height = Depth /\ forks = 0 /\ today = Depth
      /\ capture = [c \in Captures |-> Supply!Idle] /\ reports = <<>> /\ runStatus = None
  BY DEF Supply!RunInit, Supply!IdentityInit
<1>2. Depth \in Nat /\ MaxHeight \in Nat /\ MaxForks \in Nat /\ Depth <= MaxHeight
  BY SupplyAssumption DEF Supply!ChainAssumption
<1>3. ChainIsPlaced
  BY <1>1, <1>2 DEF ChainIsPlaced
<1>4. CapturesAreTyped
  BY <1>1 DEF CapturesAreTyped, Supply!Idle
<1>5. ReportsAreInOrder
  <2>1. Manifest \in Supply!Seqs!Seq(Captures)
    BY SupplyAssumption DEF Supply!ManifestAssumption
  <2>2. Supply!Seqs!Len(Manifest) \in Nat /\ Supply!Seqs!Len(<<>>) = 0
    BY <2>1
  <2> QED
    BY <1>1, <2>2 DEF ReportsAreInOrder
<1> QED
  BY <1>3, <1>4, <1>5, RunTypes

LEMMA CaptureTypes ==
  ASSUME CapturesSaw, CapturesAreTyped, NEW c \in Captures, NEW s, Supply!Goes(c, s),
         Continues(capture[c], s) \/ \E attempt \in 1..2 : s = Supply!Asks(attempt, None)
  PROVE  CapturesAreTyped'
<1>1. capture' = [d \in Captures |-> IF d = c THEN s ELSE capture[d]]
  BY DEF Supply!Goes, CapturesSaw
<1>2. /\ s.step \in Supply!Reading \cup {"idle", "done"} /\ s.attempt \in 0..2
      /\ s.anchor \in Supply!DeepBlocks \cup {None}
  <2>1. CASE Continues(capture[c], s)
    BY <2>1 DEF CapturesAreTyped, Continues
  <2>2. CASE \E attempt \in 1..2 : s = Supply!Asks(attempt, None)
    BY <2>2 DEF Supply!Asks, Supply!Reading
  <2> QED
    BY <2>1, <2>2
<1> QED
  BY <1>1, <1>2 DEF CapturesAreTyped

LEMMA RunTypesStep ==
  SupplyInv /\ Supply!RunTypeOK /\ [Supply!RunNext]_Supply!supplyVars => Supply!RunTypeOK'
<1> SUFFICES ASSUME SupplyInv, Supply!RunTypeOK, [Supply!RunNext]_Supply!supplyVars
             PROVE  Supply!RunTypeOK'
  OBVIOUS
<1> USE DEF Supply!runVars, Supply!identityVars, Supply!chainVars
<1>1. ChainIsPlaced /\ CapturesAreTyped /\ ReportsAreInOrder /\ CapturesSaw
  BY RunTypes DEF SupplyInv
<1>2. SUFFICES ChainIsPlaced' /\ CapturesAreTyped' /\ ReportsAreInOrder'
  BY DEF Supply!RunTypeOK, Supply!TypeOK, ChainIsPlaced, CapturesAreTyped, ReportsAreInOrder
<1>3. UNCHANGED <<branch, height, forks, today>> => ChainIsPlaced'
  BY <1>1 DEF ChainIsPlaced
<1>4. UNCHANGED capture => CapturesAreTyped'
  BY <1>1 DEF CapturesAreTyped
<1>5. UNCHANGED <<reports, runStatus>> => ReportsAreInOrder'
  BY <1>1 DEF ReportsAreInOrder
<1>6. CASE UNCHANGED Supply!supplyVars
  BY <1>3, <1>4, <1>5, <1>6 DEF Supply!supplyVars
<1>7. CASE Supply!Outage \/ Supply!Ask \/ Supply!Probe
           \/ \E response \in Supply!ScanResponses : Supply!Answer(response)
  BY <1>3, <1>4, <1>5, <1>7 DEF Supply!Outage, Supply!Ask, Supply!Probe, Supply!Answer
<1>8. CASE Supply!Chain
  <2>1. MaxHeight \in Nat /\ MaxForks \in Nat
    BY SupplyAssumption DEF Supply!ChainAssumption
  <2>2. ChainIsPlaced'
    BY <1>1, <1>8, <2>1 DEF ChainIsPlaced, Supply!Chain, Supply!Mine, Supply!Reorganize
  <2>3. UNCHANGED <<capture, reports, runStatus>>
    BY <1>8 DEF Supply!Chain, Supply!Mine, Supply!Reorganize
  <2> QED
    BY <1>4, <1>5, <2>2, <2>3
<1>9. CASE Supply!StartChain
  <2>1. /\ Supply!Current \in Captures
        /\ Supply!Goes(Supply!Current, Supply!Asks(1, None))
        /\ UNCHANGED <<reports, runStatus>>
    BY <1>9, CurrentIsKnown DEF Supply!StartChain, Supply!ScanDone, Supply!Start
  <2> DEFINE s == Supply!Asks(1, None)
  <2>2. \E attempt \in 1..2 : s = Supply!Asks(attempt, None)
    OBVIOUS
  <2>3. UNCHANGED <<branch, height, forks, today>>
    BY <2>1 DEF Supply!Goes
  <2> HIDE DEF s
  <2>4. Supply!Goes(Supply!Current, s)
    BY <2>1 DEF s
  <2>5. CapturesAreTyped'
    BY <1>1, <2>1, <2>2, <2>4, CaptureTypes
  <2> QED
    BY <1>3, <1>5, <2>1, <2>3, <2>5
<1>10. CASE Supply!ReadChain
  <2>1. Supply!Current \in Captures /\ UNCHANGED <<reports, runStatus>>
    BY <1>10, CurrentIsKnown DEF Supply!ReadChain, Supply!ScanDone
  <2>2. ReadsOn(Supply!Current)
    <3>1. CASE online
      BY <1>1, <1>10, <2>1, <3>1, ReadReadsOn DEF Supply!ReadChain
    <3>2. CASE ~online
      BY <1>1, <1>10, <2>1, <3>2, EndsReadsOn DEF Supply!ReadChain
    <3> QED
      BY <3>1, <3>2
  <2>3. PICK s : Continues(capture[Supply!Current], s) /\ Supply!Goes(Supply!Current, s)
    BY <2>2 DEF ReadsOn
  <2>4. UNCHANGED <<branch, height, forks, today>>
    BY <2>3 DEF Supply!Goes
  <2>5. CapturesAreTyped'
    BY <1>1, <2>1, <2>3, CaptureTypes
  <2> QED
    BY <1>3, <1>5, <2>1, <2>4, <2>5
<1>11. ASSUME NEW status \in Supply!Statuses, NEW sources, Supply!Working,
              reports' = Supply!Seqs!Append(reports, Supply!Report(Supply!Current, status, sources)),
              UNCHANGED <<branch, height, forks, world, today, capture, runStatus>>
       PROVE  ChainIsPlaced' /\ CapturesAreTyped' /\ ReportsAreInOrder'
  <2> DEFINE r == Supply!Report(Supply!Current, status, sources)
             n == Supply!Seqs!Len(reports)
  <2>1. r.candidate = Supply!Current /\ r.status = status
    BY DEF Supply!Report
  <2> HIDE DEF r
  <2>2. reports' = Supply!Seqs!Append(reports, r)
    BY <1>11 DEF r
  <2>3. IsSequence(reports)
    BY DEF SupplyInv, ReportsAreHonest
  <2>4. /\ reports \in Supply!Seqs!Seq({reports[j] : j \in DOMAIN reports} \cup {r})
        /\ r \in {reports[j] : j \in DOMAIN reports} \cup {r}
    BY <2>3 DEF IsSequence
  <2>5. /\ n \in Nat /\ DOMAIN reports = 1..n
        /\ DOMAIN reports' = 1..(n + 1) /\ Supply!Seqs!Len(reports') = n + 1
        /\ reports'[n + 1] = r /\ \A j \in 1..n : reports'[j] = reports[j]
    BY <2>2, <2>4
  <2>6. n < Supply!Seqs!Len(Manifest) /\ Supply!Current = Manifest[n + 1]
        /\ Supply!Seqs!Len(Manifest) \in Nat
    <3>1. Manifest \in Supply!Seqs!Seq(Captures)
      BY SupplyAssumption DEF Supply!ManifestAssumption
    <3>2. Supply!Seqs!Len(Manifest) \in Nat
      BY <3>1
    <3> QED
      BY <1>11, <3>2 DEF Supply!Working, Supply!Current
  <2> HIDE DEF n
  <2>7. \A j \in DOMAIN reports' : j \in 1..n \/ j = n + 1
    BY <2>5
  <2>8. \A j \in DOMAIN reports' : /\ reports'[j].candidate = Manifest[j]
                                   /\ reports'[j].status \in Supply!Statuses
    BY <1>1, <1>11, <2>1, <2>5, <2>6, <2>7 DEF ReportsAreInOrder
  <2>9. Supply!Seqs!Len(reports') <= Supply!Seqs!Len(Manifest)
    BY <2>5, <2>6
  <2>10. ReportsAreInOrder'
    BY <1>1, <1>11, <2>8, <2>9 DEF ReportsAreInOrder, Supply!Statuses
  <2> QED
    BY <1>3, <1>4, <1>11, <2>10
<1>12. "INCONCLUSIVE" \in Supply!Statuses
       /\ \A dispositions : Supply!Classify(dispositions) \in Supply!Statuses
  BY DEF Supply!Statuses, Supply!Classify
<1>13. CASE Supply!RateLimited
  BY <1>11, <1>12, <1>13 DEF Supply!RateLimited
<1>14. CASE Supply!Finish
  <2> DEFINE dispositions == {"success", Supply!ScanDisposition(scan[Supply!Current]),
                              Supply!ChainDisposition(Supply!Current),
                              Supply!CardDisposition(card[Supply!Current])}
             status == Supply!Classify(dispositions)
  <2>1. /\ Supply!Working
        /\ reports' = Supply!Seqs!Append(reports,
                        Supply!Report(Supply!Current, status, dispositions))
        /\ UNCHANGED <<branch, height, forks, world, today, capture, runStatus>>
    BY <1>14 DEF Supply!Finish, Supply!ScanDone
  <2>2. status \in Supply!Statuses
    BY <1>12
  <2> HIDE DEF dispositions, status
  <2> QED
    BY <1>11, <2>1, <2>2
<1>15. CASE Supply!Stop
  BY <1>11, <1>12, <1>15 DEF Supply!Stop, Supply!StoppedReport
<1>16. CASE Supply!Build
  <2>1. /\ UNCHANGED <<branch, height, forks, today, capture, reports>>
        /\ runStatus' \in {"complete", "inconclusive"}
    BY <1>16 DEF Supply!Build, Supply!RunStatus
  <2>2. ReportsAreInOrder'
    BY <1>1, <2>1 DEF ReportsAreInOrder, Supply!Statuses
  <2> QED
    BY <1>3, <1>4, <2>1, <2>2
<1> QED
  BY <1>6, <1>7, <1>8, <1>9, <1>10, <1>13, <1>14, <1>15, <1>16
     DEF Supply!RunNext, Supply!Step

-----------------------------------------------------------------------------
(* Orders of finite sets.                                                  *)

\* What is below each element of a finite set, in a strict total order.
Orders(below, T) ==
    /\ IsFiniteSet(T)
    /\ below \in [T -> SUBSET T]
    /\ \A i \in T : i \notin below[i] /\ \A j \in below[i] : below[j] \subseteq below[i]
    /\ \A i, j \in T : i = j \/ i \in below[j] \/ j \in below[i]

\* Every rank is taken once.
LEMMA RanksAreTaken ==
  ASSUME NEW T, NEW below, Orders(below, T)
  PROVE  /\ Cardinality(T) \in Nat
         /\ \A i \in T : Cardinality(below[i]) \in 0..(Cardinality(T) - 1)
         /\ \A i, j \in T : Cardinality(below[i]) = Cardinality(below[j]) => i = j
         /\ \A k \in 1..Cardinality(T) : \E i \in T : Cardinality(below[i]) = k - 1
<1> DEFINE n == Cardinality(T)
           rank == [i \in T |-> Cardinality(below[i]) + 1]
<1>1. n \in Nat
  BY FS_CardinalityType DEF Orders
<1>2. ASSUME NEW i \in T
      PROVE  /\ IsFiniteSet(below[i]) /\ Cardinality(below[i]) \in 0..(n - 1)
  <2>1. below[i] \in SUBSET T /\ below[i] # T
    BY DEF Orders
  <2>2. IsFiniteSet(below[i]) /\ Cardinality(below[i]) <= n /\ Cardinality(below[i]) # n
    BY <2>1, FS_Subset DEF Orders
  <2> QED
    BY <1>1, <2>2, FS_CardinalityType
<1>3. ASSUME NEW i \in T, NEW j \in below[i] PROVE Cardinality(below[j]) < Cardinality(below[i])
  <2>1. j \in T /\ below[j] \subseteq below[i] /\ j \notin below[j]
    BY <1>3 DEF Orders
  <2>2. Cardinality(below[j]) <= Cardinality(below[i])
        /\ Cardinality(below[j]) # Cardinality(below[i])
    BY <1>2, <1>3, <2>1, FS_Subset
  <2> QED
    BY <1>2, <2>1, <2>2
<1>4. ASSUME NEW i \in T, NEW j \in T, i # j PROVE Cardinality(below[i]) # Cardinality(below[j])
  <2>1. i \in below[j] \/ j \in below[i]
    BY <1>4 DEF Orders
  <2> QED
    BY <1>2, <1>3, <2>1
<1>5. rank \in [T -> 1..n]
  BY <1>1, <1>2
<1>6. rank \in Injection(T, 1..n)
  BY <1>2, <1>4, <1>5 DEF Injection, IsInjective
<1>7. IsFiniteSet(1..n) /\ Cardinality(1..n) = n
  BY <1>1, FS_Interval
<1>8. rank \in Surjection(T, 1..n)
  BY <1>6, <1>7, FS_Injection
<1>9. ASSUME NEW k \in 1..n PROVE \E i \in T : Cardinality(below[i]) = k - 1
  <2>1. PICK i \in T : rank[i] = k
    BY <1>8 DEF Surjection
  <2> QED
    BY <1>1, <1>2, <2>1
<1> QED
  BY <1>1, <1>2, <1>4, <1>9

LEMMA LowestIsThere ==
  ASSUME NEW T, NEW below, Orders(below, T), T # {}
  PROVE  \E i \in T : below[i] = {}
<1>1. Cardinality(T) \in Nat /\ Cardinality(T) # 0
  BY FS_EmptySet, FS_CardinalityType DEF Orders
<1>2. PICK i \in T : Cardinality(below[i]) = 0
  BY <1>1, RanksAreTaken
<1>3. below[i] \in SUBSET T
  BY DEF Orders
<1> QED
  BY <1>2, <1>3, FS_Subset, FS_EmptySet DEF Orders

\* The element of a rank.
At(below, k) == CHOOSE i \in DOMAIN below : Cardinality(below[i]) = k - 1

LEMMA AtIsBijective ==
  ASSUME NEW T, NEW below, Orders(below, T)
  PROVE  /\ Cardinality(T) \in Nat /\ DOMAIN below = T
         /\ \A k \in 1..Cardinality(T) : /\ At(below, k) \in T
                                         /\ Cardinality(below[At(below, k)]) = k - 1
         /\ \A k, l \in 1..Cardinality(T) : At(below, k) = At(below, l) => k = l
         /\ \A i \in T : /\ Cardinality(below[i]) + 1 \in 1..Cardinality(T)
                         /\ At(below, Cardinality(below[i]) + 1) = i
<1>1. DOMAIN below = T
  BY DEF Orders
<1>2. \A k \in 1..Cardinality(T) : /\ At(below, k) \in T
                                   /\ Cardinality(below[At(below, k)]) = k - 1
  BY <1>1, RanksAreTaken DEF At
<1>3. \A k, l \in 1..Cardinality(T) : At(below, k) = At(below, l) => k = l
  BY <1>2, RanksAreTaken
<1>4. ASSUME NEW i \in T
      PROVE  /\ Cardinality(below[i]) + 1 \in 1..Cardinality(T)
             /\ At(below, Cardinality(below[i]) + 1) = i
  <2>1. Cardinality(below[i]) + 1 \in 1..Cardinality(T)
    BY RanksAreTaken
  <2> DEFINE k == Cardinality(below[i]) + 1
  <2>2. Cardinality(below[At(below, k)]) = Cardinality(below[i]) /\ At(below, k) \in T
    BY <1>2, <2>1, RanksAreTaken
  <2> QED
    BY <2>1, <2>2, RanksAreTaken
<1> QED
  BY <1>1, <1>2, <1>3, <1>4, RanksAreTaken

\* A stable sort orders the places of a sequence: what belongs before a place, and where
\* nothing decides what stands before it.
Stable(n, before) == [i \in 1..n |-> before[i] \cup {j \in 1..n : j < i /\ i \notin before[j]}]

LEMMA StableOrders ==
  ASSUME NEW n \in Nat, NEW before \in [1..n -> SUBSET (1..n)],
         \A i \in 1..n : i \notin before[i],
         \A i \in 1..n : \A j \in before[i] : before[j] \subseteq before[i],
         \A i, k \in 1..n : \A j \in before[i] : j \in before[k] \/ k \in before[i]
  PROVE  Orders(Stable(n, before), 1..n) /\ Cardinality(1..n) = n
<1> DEFINE B == Stable(n, before)
<1>1. B \in [1..n -> SUBSET (1..n)]
  BY DEF Stable
<1>2. \A i \in 1..n : B[i] = before[i] \cup {j \in 1..n : j < i /\ i \notin before[j]}
  BY DEF Stable
<1> HIDE DEF B
<1>3. \A i \in 1..n : i \notin B[i]
  BY <1>2
<1>4. ASSUME NEW i \in 1..n, NEW j \in B[i] PROVE B[j] \subseteq B[i]
  <2>1. ASSUME NEW k \in B[j] PROVE k \in B[i]
    <3>1. j \in 1..n /\ k \in 1..n
      BY <1>1, <1>4, <2>1
    <3>2. (k \in before[j] \/ (k < j /\ j \notin before[k]))
          /\ (j \in before[i] \/ (j < i /\ i \notin before[j]))
      BY <1>2, <1>4, <2>1, <3>1
    <3>3. CASE k \in before[j] /\ j \in before[i]
      BY <1>2, <3>1, <3>3
    <3>4. CASE k \in before[j] /\ j \notin before[i]
      BY <1>2, <3>1, <3>2, <3>4
    <3>5. CASE k \notin before[j] /\ j \in before[i]
      BY <1>2, <3>1, <3>2, <3>5
    <3>6. CASE k \notin before[j] /\ j \notin before[i]
      <4>1. i \notin before[k]
        BY <3>1, <3>2, <3>6
      <4> QED
        BY <1>2, <3>1, <3>2, <3>6, <4>1
    <3> QED
      BY <3>3, <3>4, <3>5, <3>6
  <2> QED
    BY <2>1
<1>5. \A i, j \in 1..n : i = j \/ i \in B[j] \/ j \in B[i]
  BY <1>2
<1>6. IsFiniteSet(1..n) /\ Cardinality(1..n) = n
  BY FS_Interval
<1> QED
  BY <1>1, <1>3, <1>4, <1>5, <1>6 DEF Orders, B

\* A finite set of numbers has a least.
LEMMA LeastIsLeast ==
  ASSUME NEW S \in SUBSET Int, IsFiniteSet(S), S # {}
  PROVE  Evaluation!Least(S) \in S /\ \A k \in S : Evaluation!Least(S) <= k
<1> DEFINE below == [x \in S |-> {y \in S : y < x}]
<1>1. Orders(below, S)
  <2>1. below \in [S -> SUBSET S] /\ \A x \in S : below[x] = {y \in S : y < x}
    OBVIOUS
  <2> HIDE DEF below
  <2>2. \A x, y \in S : x = y \/ x \in below[y] \/ y \in below[x]
    BY <2>1
  <2>3. ASSUME NEW x \in S
        PROVE  x \notin below[x] /\ \A y \in below[x] : below[y] \subseteq below[x]
    <3>1. x \in Int /\ \A y \in S : y \in Int
      OBVIOUS
    <3>2. \A y \in S : y \in below[x] <=> y < x
      BY <2>1
    <3>3. ASSUME NEW y \in below[x], NEW z \in below[y] PROVE z \in below[x]
      <4>1. y \in S /\ z \in S
        BY <2>1, <3>3
      <4>2. z < y /\ y < x
        BY <2>1, <3>2, <3>3, <4>1
      <4>3. z < x
        BY <3>1, <4>1, <4>2
      <4> QED
        BY <3>2, <4>1, <4>3
    <3> QED
      BY <3>1, <3>2, <3>3
  <2> QED
    BY <2>1, <2>2, <2>3 DEF Orders
<1> HIDE DEF below
<1>2. PICK x \in S : below[x] = {}
  BY <1>1, LowestIsThere, Zenon
<1>3. \A k \in S : x <= k
  BY <1>2 DEF below
<1> QED
  BY <1>3 DEF Evaluation!Least

LEMMA LeastOfFour ==
  ASSUME NEW a \in Int, NEW b \in Int, NEW c \in Int, NEW d \in Int
  PROVE  LET least == Evaluation!Least({a, b, c, d})
         IN  /\ least \in {a, b, c, d}
             /\ least <= a /\ least <= b /\ least <= c /\ least <= d
<1>1. IsFiniteSet({a, b, c, d})
  <2>1. IsFiniteSet({a} \cup {b})
    BY FS_Singleton, FS_AddElement
  <2>2. IsFiniteSet(({a} \cup {b}) \cup {c})
    BY <2>1, FS_AddElement
  <2>3. IsFiniteSet((({a} \cup {b}) \cup {c}) \cup {d})
    BY <2>2, FS_AddElement
  <2>4. (({a} \cup {b}) \cup {c}) \cup {d} = {a, b, c, d}
    OBVIOUS
  <2> QED
    BY <2>3, <2>4
<1> QED
  BY <1>1, LeastIsLeast

LEMMA LeastOfThree ==
  ASSUME NEW a \in Int, NEW b \in Int, NEW c \in Int
  PROVE  LET least == Evaluation!Least({a, b, c})
         IN  least \in {a, b, c} /\ least <= a /\ least <= b /\ least <= c
<1> DEFINE least == Evaluation!Least({a, b, c, c})
<1>1. least \in {a, b, c, c} /\ least <= a /\ least <= b /\ least <= c
  BY LeastOfFour
<1>2. {a, b, c, c} = {a, b, c}
  OBVIOUS
<1> QED
  BY <1>1, <1>2

LEMMA LeastOfTwo ==
  ASSUME NEW a \in Int, NEW b \in Int
  PROVE  LET least == Evaluation!Least({a, b})
         IN  least \in {a, b} /\ least <= a /\ least <= b
<1>1. {a, b, b, b} = {a, b}
  OBVIOUS
<1> QED
  BY <1>1, LeastOfFour

-----------------------------------------------------------------------------
(* Scores.                                                                 *)

\* Division keeps the order, and a part of a whole is at most the whole.
LEMMA Division ==
  ASSUME NEW d \in Nat, d > 0, NEW x \in Nat, NEW y \in Nat, x <= y
  PROVE  x \div d \in Nat /\ y \div d \in Nat /\ x \div d <= y \div d
<1> DEFINE p == x \div d  q == y \div d
<1>1. p \in Int /\ q \in Int /\ d * p <= x /\ x < d * p + d /\ d * q <= y /\ y < d * q + d
  OBVIOUS
<1> HIDE DEF p, q
<1>2. p >= 0 /\ q >= 0
  <2>1. ASSUME NEW r \in Int, r < 0 PROVE d * r + d <= 0
    BY <2>1
  <2> QED
    BY <1>1, <2>1
<1>3. ASSUME q < p PROVE FALSE
  <2>1. d * q + d <= d * p
    BY <1>1, <1>3
  <2> QED
    BY <1>1, <2>1
<1> QED
  BY <1>1, <1>2, <1>3 DEF p, q

Score == 0..Evaluation!Bps
Sums == 0..(95 * Evaluation!Bps)

LEMMA ScoreParts ==
  /\ 0 \in Score /\ Evaluation!Bps \in Score /\ Evaluation!Bps \in Nat
  /\ \A x \in Score : x \in Nat /\ x <= Evaluation!Bps
  /\ \A x \in Nat : x <= Evaluation!Bps => x \in Score
  BY DEF Score, Evaluation!Bps

LEMMA SumParts == 0 \in Sums /\ Sums \subseteq Nat
<1> DEFINE B == Evaluation!Bps
<1>1. B \in Nat
  BY ScoreParts
<1> HIDE DEF B
<1>2. 0 \in 0..(95 * B) /\ 0..(95 * B) \subseteq Nat
  BY <1>1
<1> QED
  BY <1>2 DEF Sums, B

LEMMA Share ==
  ASSUME NEW d \in Nat, d > 0, NEW x \in 0..d
  PROVE  (x * Evaluation!Bps) \div d \in Score
<1>1. x * 10000 <= d * 10000 /\ x * 10000 \in Nat /\ d * 10000 \in Nat
  OBVIOUS
<1>2. (d * 10000) \div d = 10000
  OBVIOUS
<1> QED
  BY <1>1, <1>2, Division DEF Score, Evaluation!Bps

LEMMA RatioScoreType ==
  ASSUME NEW part \in Int, NEW whole \in Int
  PROVE  Evaluation!RatioScore(part, whole) \in Score
<1>1. CASE part > 0 /\ part < whole
  <2>1. whole - part \in 0..whole /\ whole \in Nat /\ whole > 0
    BY <1>1
  <2>2. ((whole - part) * Evaluation!Bps) \div whole \in Score
    BY <2>1, Share
  <2>3. Evaluation!RatioScore(part, whole) = ((whole - part) * Evaluation!Bps) \div whole
    BY <1>1 DEF Evaluation!RatioScore
  <2> QED
    BY <2>2, <2>3
<1>2. CASE ~(part > 0 /\ part < whole)
  <2>1. Evaluation!RatioScore(part, whole) \in {0, Evaluation!Bps}
    BY <1>2 DEF Evaluation!RatioScore
  <2> QED
    BY <2>1, ScoreParts
<1> QED
  BY <1>1, <1>2

LEMMA AgeScoreType ==
  ASSUME NEW age \in Int, NEW max \in Nat
  PROVE  Evaluation!AgeScore(age, max) \in Score
<1>1. CASE age > 0 /\ age < max
  <2>1. max - age \in 0..max /\ max > 0
    BY <1>1
  <2>2. ((max - age) * Evaluation!Bps) \div max \in Score
    BY <2>1, Share
  <2>3. Evaluation!AgeScore(age, max) = ((max - age) * Evaluation!Bps) \div max
    BY <1>1 DEF Evaluation!AgeScore
  <2> QED
    BY <2>2, <2>3
<1>2. CASE ~(age > 0 /\ age < max)
  <2>1. Evaluation!AgeScore(age, max) \in {0, Evaluation!Bps}
    BY <1>2 DEF Evaluation!AgeScore
  <2> QED
    BY <2>1, ScoreParts
<1> QED
  BY <1>1, <1>2

\* An older age never scores more.
LEMMA AgeScoreFalls ==
  ASSUME NEW age \in Int, NEW old \in Int, age <= old, NEW max \in Nat
  PROVE  Evaluation!AgeScore(old, max) <= Evaluation!AgeScore(age, max)
<1> DEFINE p == Evaluation!AgeScore(age, max)  q == Evaluation!AgeScore(old, max)
<1>1. p \in Score /\ q \in Score
  BY AgeScoreType
<1>2. CASE age <= 0
  <2>1. p = Evaluation!Bps
    BY <1>2 DEF Evaluation!AgeScore
  <2> HIDE DEF p, q
  <2>2. q <= p
    BY <1>1, <2>1, ScoreParts
  <2> QED
    BY <2>2 DEF p, q
<1>3. CASE old >= max /\ old > 0
  <2>1. q = 0
    BY <1>3 DEF Evaluation!AgeScore
  <2> HIDE DEF p, q
  <2>2. q <= p
    BY <1>1, <2>1, ScoreParts
  <2> QED
    BY <2>2 DEF p, q
<1>4. CASE age > 0 /\ old < max
  <2> DEFINE x == (max - old) * Evaluation!Bps  y == (max - age) * Evaluation!Bps
  <2>1. x \in Nat /\ y \in Nat /\ x <= y /\ max > 0
    BY <1>4 DEF Evaluation!Bps
  <2> HIDE DEF x, y
  <2>2. x \div max <= y \div max
    BY <2>1, Division
  <2>3. q = x \div max /\ p = y \div max
    BY <1>4 DEF Evaluation!AgeScore, x, y
  <2> QED
    BY <2>2, <2>3
<1> QED
  BY <1>2, <1>3, <1>4

\* The least of scores falls with them.
LEMMA LeastFalls ==
  ASSUME NEW a \in Score, NEW b \in Score, NEW c \in Score, NEW d \in Score,
         NEW e \in 0..a, NEW f \in 0..b, NEW g \in 0..c, NEW h \in 0..d
  PROVE  /\ Evaluation!Least({a, b, c, d}) \in Score
         /\ Evaluation!Least({e, f, g, h}) <= Evaluation!Least({a, b, c, d})
<1> DEFINE x == Evaluation!Least({a, b, c, d})  y == Evaluation!Least({e, f, g, h})
<1>1. /\ a \in Int /\ b \in Int /\ c \in Int /\ d \in Int
      /\ e \in Int /\ f \in Int /\ g \in Int /\ h \in Int
      /\ e <= a /\ f <= b /\ g <= c /\ h <= d
  BY ScoreParts
<1>2. x \in {a, b, c, d}
  BY <1>1, LeastOfFour
<1>3. y <= e /\ y <= f /\ y <= g /\ y <= h /\ y \in {e, f, g, h}
  BY <1>1, LeastOfFour
<1> HIDE DEF x, y
<1>4. x \in Score /\ y <= x
  BY <1>1, <1>2, <1>3
<1> QED
  BY <1>4 DEF x, y

-----------------------------------------------------------------------------
(* What the core finds about a quote.                                      *)

IsQuote(q) ==
    /\ q.payload.candidate \in Candidates /\ q.payload.offer \in Offers
    /\ q.issuedAt \in Int /\ q.expiresAt \in Int
    /\ q.payload.observedAt \in Int /\ q.payload.estimateAt \in Int
    /\ q.payload.reputationAt \in Int
    /\ q.payload.permissions \in Int /\ q.payload.expiresAt \in Int

LEMMA MandateParts ==
  ASSUME NEW m \in Mandates
  PROVE  /\ m.createdAt \in Nat /\ m.expiresAt \in Nat /\ m.permissions \in Nat
         /\ m.skew \in Nat /\ m.evidenceAge \in Nat /\ m.previewAge \in Nat
         /\ m.gas \in Nat /\ m.slippage \in Nat /\ m.exposure \in Nat /\ m.spend \in Nat
         /\ m.createdAt <= LastSecond /\ m.createdAt < m.expiresAt
         /\ m.createdAt < m.permissions /\ m.permissions <= m.expiresAt
  BY EvaluationAssumption DEF Evaluation!EvaluationAssumption

LEMMA OfferParts ==
  ASSUME NEW o \in Offers
  PROVE  /\ o.price \in Nat /\ o.gas \in Nat /\ o.slippage \in Nat /\ o.exposure \in Nat
         /\ o.spend \in Nat
  BY EvaluationAssumption DEF Evaluation!EvaluationAssumption

LEMMA DatedParts ==
  ASSUME NEW m \in Mandates, NEW q, IsQuote(q), NEW d \in Evaluation!Dated(m, q)
  PROVE  d[2] \in Int /\ d[3] \in Nat /\ d[2] \in Evaluation!Observations(q.payload)
  BY MandateParts DEF IsQuote, Evaluation!Dated, Evaluation!Observations

\* No exclusion, and nothing left open.
Fits(m, q, now_) ==
    /\ \A d \in Evaluation!Dated(m, q) : d[2] >= m.createdAt /\ now_ - d[2] <= d[3]
    /\ now_ < m.expiresAt /\ q.payload.expiresAt > now_ /\ q.payload.permissions > now_
    /\ q.payload.expiresAt <= m.expiresAt /\ q.payload.permissions <= m.permissions
    /\ q.payload.offer.gas <= m.gas /\ q.payload.offer.slippage <= m.slippage
    /\ q.payload.offer.exposure <= m.exposure /\ q.payload.offer.spend <= m.spend

Clear(m, q, now_) ==
    /\ \A d \in Evaluation!Dated(m, q) : d[2] <= now_ + m.skew
    /\ q.issuedAt <= now_ + m.skew /\ q.payload.offer.price = 0

LEMMA ExclusionsAre ==
  ASSUME NEW m \in Mandates, NEW q, IsQuote(q), NEW t \in Int
  PROVE  Evaluation!Exclusions(m, q, t) = {} <=> Fits(m, q, t)
<1> DEFINE D == Evaluation!Dated(m, q)
           A == {<<d[1], "PRECEDES_MANDATE">> : d \in {d \in D : d[2] < m.createdAt}}
           B == {<<d[1], "STALE">> : d \in {d \in D : t - d[2] > d[3]}}
           over == \/ q.payload.offer.gas > m.gas
                   \/ q.payload.offer.slippage > m.slippage
                   \/ q.payload.offer.exposure > m.exposure
                   \/ q.payload.offer.spend > m.spend
           C == {code \in {<<"MANDATE", "EXPIRED">>, <<"QUOTE", "EXPIRED">>,
                    <<"QUOTE", "OUTLIVES_MANDATE">>, <<"PERMISSION", "EXPIRED">>,
                    <<"PERMISSION", "OUTLIVES_MANDATE">>, <<"BUDGET", "EXCEEDED">>} :
                  \/ code = <<"MANDATE", "EXPIRED">> /\ t >= m.expiresAt
                  \/ code = <<"QUOTE", "EXPIRED">> /\ q.payload.expiresAt <= t
                  \/ code = <<"QUOTE", "OUTLIVES_MANDATE">> /\ q.payload.expiresAt > m.expiresAt
                  \/ code = <<"PERMISSION", "EXPIRED">> /\ q.payload.permissions <= t
                  \/ /\ code = <<"PERMISSION", "OUTLIVES_MANDATE">>
                     /\ q.payload.permissions > m.permissions
                  \/ code = <<"BUDGET", "EXCEEDED">> /\ over}
<1>1. Evaluation!Exclusions(m, q, t) = A \cup B \cup C
  BY DEF Evaluation!Exclusions
<1>2. \A d \in D : d[2] \in Int /\ d[3] \in Nat
  BY DatedParts
<1>3. m.createdAt \in Nat /\ m.expiresAt \in Nat /\ m.permissions \in Nat
      /\ m.gas \in Nat /\ m.slippage \in Nat /\ m.exposure \in Nat /\ m.spend \in Nat
  BY MandateParts
<1>4. /\ q.payload.offer.gas \in Nat /\ q.payload.offer.slippage \in Nat
      /\ q.payload.offer.exposure \in Nat /\ q.payload.offer.spend \in Nat
      /\ q.payload.expiresAt \in Int /\ q.payload.permissions \in Int
  BY OfferParts DEF IsQuote
<1>5. A = {} <=> \A d \in D : ~(d[2] < m.createdAt)
  OBVIOUS
<1>6. B = {} <=> \A d \in D : ~(t - d[2] > d[3])
  OBVIOUS
<1>7. C = {} <=> /\ ~(t >= m.expiresAt) /\ ~(q.payload.expiresAt <= t)
                 /\ ~(q.payload.expiresAt > m.expiresAt) /\ ~(q.payload.permissions <= t)
                 /\ ~(q.payload.permissions > m.permissions) /\ ~over
  <2> HIDE DEF over
  <2> DEFINE e == t >= m.expiresAt  f == q.payload.expiresAt <= t
             g == q.payload.expiresAt > m.expiresAt  h == q.payload.permissions <= t
             p == q.payload.permissions > m.permissions
  <2> HIDE DEF e, f, g, h, p
  <2>1. C = {} <=> ~e /\ ~f /\ ~g /\ ~h /\ ~p /\ ~over
    BY DEF e, f, g, h, p
  <2> QED
    BY <2>1 DEF e, f, g, h, p
<1> HIDE DEF A, B, C, D, over
<1>8. Evaluation!Exclusions(m, q, t) = {} <=> A = {} /\ B = {} /\ C = {}
  BY <1>1
<1> QED
  BY <1>2, <1>3, <1>4, <1>5, <1>6, <1>7, <1>8 DEF Fits, D, over

LEMMA InconclusivesAre ==
  ASSUME NEW m \in Mandates, NEW q, IsQuote(q), NEW t \in Int
  PROVE  Evaluation!Inconclusives(m, q, t) = {} <=> Clear(m, q, t)
<1> DEFINE D == Evaluation!Dated(m, q)
           A == {<<d[1], "TIMESTAMP_IN_FUTURE">> : d \in {d \in D : d[2] > t + m.skew}}
           C == {code \in {<<"CAPTURE", "TIMESTAMP_IN_FUTURE">>, <<"PRICING", "USD_UNAVAILABLE">>} :
                  \/ code = <<"CAPTURE", "TIMESTAMP_IN_FUTURE">> /\ q.issuedAt > t + m.skew
                  \/ code = <<"PRICING", "USD_UNAVAILABLE">> /\ q.payload.offer.price # 0}
<1>1. Evaluation!Inconclusives(m, q, t) = A \cup C
  BY DEF Evaluation!Inconclusives
<1>2. \A d \in D : d[2] \in Int
  BY DatedParts
<1>3. m.skew \in Nat /\ q.issuedAt \in Int
  BY MandateParts DEF IsQuote
<1>4. A = {} <=> \A d \in D : ~(d[2] > t + m.skew)
  OBVIOUS
<1>5. C = {} <=> ~(q.issuedAt > t + m.skew) /\ q.payload.offer.price = 0
  <2> DEFINE e == q.issuedAt > t + m.skew  f == q.payload.offer.price # 0
  <2>1. C = {} <=> ~e /\ ~f
    OBVIOUS
  <2> QED
    BY <2>1
<1> HIDE DEF A, C, D
<1>6. Evaluation!Inconclusives(m, q, t) = {} <=> A = {} /\ C = {}
  BY <1>1
<1> QED
  BY <1>2, <1>3, <1>4, <1>5, <1>6 DEF Clear, D

\* A quote that fits has fitted before, and one that is clear stays so.
LEMMA FitsBefore ==
  ASSUME NEW m \in Mandates, NEW q, IsQuote(q), NEW t \in Int, NEW u \in Int, t <= u
  PROVE  /\ Fits(m, q, u) => Fits(m, q, t)
         /\ Clear(m, q, t) => Clear(m, q, u)
<1>1. \A d \in Evaluation!Dated(m, q) : d[2] \in Int /\ d[3] \in Nat
  BY DatedParts
<1>2. Fits(m, q, u) => Fits(m, q, t)
  BY <1>1, MandateParts DEF Fits, IsQuote
<1>3. Clear(m, q, t) => Clear(m, q, u)
  BY <1>1, MandateParts DEF Clear, IsQuote
<1> QED
  BY <1>2, <1>3

LEMMA FreshnessIs ==
  ASSUME NEW m, NEW q, NEW t
  PROVE  Evaluation!Freshness(m, q, t) =
           Evaluation!Least({Evaluation!AgeScore(t - q.payload.observedAt, m.evidenceAge),
                             Evaluation!AgeScore(t - q.payload.estimateAt, m.evidenceAge),
                             Evaluation!AgeScore(t - q.payload.reputationAt, m.evidenceAge),
                             Evaluation!AgeScore(t - q.payload.observedAt, m.previewAge)})
<1>1. {Evaluation!AgeScore(t - e[2], e[3]) : e \in Evaluation!Dated(m, q)} =
        {Evaluation!AgeScore(t - q.payload.observedAt, m.evidenceAge),
         Evaluation!AgeScore(t - q.payload.estimateAt, m.evidenceAge),
         Evaluation!AgeScore(t - q.payload.reputationAt, m.evidenceAge),
         Evaluation!AgeScore(t - q.payload.observedAt, m.previewAge)}
  BY DEF Evaluation!Dated
<1> QED
  BY <1>1 DEF Evaluation!Freshness

LEMMA FreshnessFalls ==
  ASSUME NEW m \in Mandates, NEW q, IsQuote(q), NEW t \in Int, NEW u \in Int, t <= u
  PROVE  /\ Evaluation!Freshness(m, q, t) \in Score
         /\ Evaluation!Freshness(m, q, u) <= Evaluation!Freshness(m, q, t)
<1>1. ASSUME NEW at \in Int, NEW max \in Nat
      PROVE  /\ Evaluation!AgeScore(t - at, max) \in Score
             /\ Evaluation!AgeScore(u - at, max) \in 0..Evaluation!AgeScore(t - at, max)
  <2>1. t - at \in Int /\ u - at \in Int /\ t - at <= u - at
    OBVIOUS
  <2> DEFINE x == t - at  y == u - at
             v == Evaluation!AgeScore(x, max)  w == Evaluation!AgeScore(y, max)
  <2> HIDE DEF x, y
  <2>2. v \in Score /\ w \in Score /\ w <= v
    BY <2>1, AgeScoreType, AgeScoreFalls DEF x, y
  <2> HIDE DEF v, w
  <2>3. w \in 0..v
    BY <2>2, ScoreParts
  <2> QED
    BY <2>2, <2>3 DEF v, w, x, y
<1>2. /\ m.evidenceAge \in Nat /\ m.previewAge \in Nat /\ q.payload.observedAt \in Int
      /\ q.payload.estimateAt \in Int /\ q.payload.reputationAt \in Int
  BY MandateParts DEF IsQuote
<1> DEFINE a == Evaluation!AgeScore(t - q.payload.observedAt, m.evidenceAge)
           b == Evaluation!AgeScore(t - q.payload.estimateAt, m.evidenceAge)
           c == Evaluation!AgeScore(t - q.payload.reputationAt, m.evidenceAge)
           d == Evaluation!AgeScore(t - q.payload.observedAt, m.previewAge)
           e == Evaluation!AgeScore(u - q.payload.observedAt, m.evidenceAge)
           f == Evaluation!AgeScore(u - q.payload.estimateAt, m.evidenceAge)
           g == Evaluation!AgeScore(u - q.payload.reputationAt, m.evidenceAge)
           h == Evaluation!AgeScore(u - q.payload.observedAt, m.previewAge)
<1>3. /\ a \in Score /\ b \in Score /\ c \in Score /\ d \in Score
      /\ e \in 0..a /\ f \in 0..b /\ g \in 0..c /\ h \in 0..d
  BY <1>1, <1>2, Zenon
<1>4. /\ Evaluation!Freshness(m, q, t) = Evaluation!Least({a, b, c, d})
      /\ Evaluation!Freshness(m, q, u) = Evaluation!Least({e, f, g, h})
  BY FreshnessIs, Zenon
<1> HIDE DEF a, b, c, d, e, f, g, h
<1> QED
  BY <1>3, <1>4, LeastFalls

\* The mean of scores is a score.
LEMMA MeansAreScores ==
  ASSUME NEW a \in Score, NEW b \in Score, NEW c \in Score, NEW d \in Score
  PROVE  (a + b + c + d) \div 4 \in Score /\ (a + b + c) \div 3 \in Score
<1> DEFINE B == Evaluation!Bps
           x == a + b + c + d  y == a + b + c
           p == x \div 4  q == y \div 3
<1>1. B \in Nat
  BY ScoreParts
<1> HIDE DEF B
<1>2. x \in Nat /\ x <= 4 * B /\ y \in Nat /\ y <= 3 * B
  BY <1>1 DEF Score, B
<1> HIDE DEF x, y
<1>3. p \in Int /\ 4 * p <= x /\ x < 4 * p + 4
  BY <1>2
<1>4. q \in Int /\ 3 * q <= y /\ y < 3 * q + 3
  BY <1>2
<1> HIDE DEF p, q
<1>5. p \in 0..B /\ q \in 0..B
  BY <1>1, <1>2, <1>3, <1>4
<1> QED
  BY <1>5 DEF Score, B, p, q, x, y

LEMMA WeightsKeepOrder ==
  ASSUME NEW f \in Score, NEW g \in Score, g <= f, NEW r \in Score, NEW c \in Score
  PROVE  /\ 30 * Evaluation!Bps + 20 * Evaluation!Bps + 20 * f + 15 * r + 10 * c \in Sums
         /\ 30 * Evaluation!Bps + 20 * Evaluation!Bps + 20 * g + 15 * r + 10 * c
              <= 30 * Evaluation!Bps + 20 * Evaluation!Bps + 20 * f + 15 * r + 10 * c
<1> DEFINE B == Evaluation!Bps
<1>1. B \in Nat /\ f \in Nat /\ g \in Nat /\ r \in Nat /\ c \in Nat
      /\ f <= B /\ r <= B /\ c <= B
  BY ScoreParts
<1> HIDE DEF B
<1>2. 30 * B + 20 * B + 20 * f + 15 * r + 10 * c \in Nat
  BY <1>1
<1>3. 30 * B + 20 * B + 20 * f + 15 * r + 10 * c <= 95 * B
  BY <1>1
<1>4. 30 * B + 20 * B + 20 * g + 15 * r + 10 * c <= 30 * B + 20 * B + 20 * f + 15 * r + 10 * c
  BY <1>1
<1>5. 30 * B + 20 * B + 20 * f + 15 * r + 10 * c \in 0..(95 * B)
  BY <1>1, <1>2, <1>3
<1> QED
  BY <1>4, <1>5 DEF Sums, B

LEMMA TotalFalls ==
  ASSUME NEW m \in Mandates, NEW q, IsQuote(q), NEW t \in Int, NEW u \in Int, t <= u
  PROVE  /\ Evaluation!Total(m, q, t) \in Sums
         /\ Evaluation!Total(m, q, u) <= Evaluation!Total(m, q, t)
<1> DEFINE o == q.payload.offer
           a == Evaluation!RatioScore(q.payload.permissions - m.createdAt, m.permissions - m.createdAt)
           b == Evaluation!RatioScore(o.spend, m.spend)
           c == Evaluation!RatioScore(o.exposure, m.exposure)
           d == Evaluation!RatioScore(o.slippage, m.slippage)
           e == Evaluation!RatioScore(o.gas, m.gas)
           f == Evaluation!Freshness(m, q, t)
           g == Evaluation!Freshness(m, q, u)
           risk == Evaluation!Risk(m, q)
           cost == Evaluation!Cost(m, q)
<1>1. /\ a \in Score /\ b \in Score /\ c \in Score /\ d \in Score /\ e \in Score
  <2>1. /\ o.spend \in Int /\ o.exposure \in Int /\ o.slippage \in Int /\ o.gas \in Int
        /\ q.payload.permissions - m.createdAt \in Int
    BY MandateParts, OfferParts DEF IsQuote
  <2>2. /\ m.spend \in Int /\ m.exposure \in Int /\ m.slippage \in Int /\ m.gas \in Int
        /\ m.permissions - m.createdAt \in Int
    BY MandateParts
  <2> QED
    BY <2>1, <2>2, RatioScoreType, Zenon
<1>2. risk = (a + b + c + d) \div 4 /\ cost = (Evaluation!Bps + e + d) \div 3
  BY DEF Evaluation!Risk, Evaluation!Cost
<1> HIDE DEF a, b, c, d, e
<1>3. risk \in Score /\ cost \in Score
  <2>1. Evaluation!Bps \in Score
    BY ScoreParts
  <2>2. (a + b + c + d) \div 4 \in Score
    BY <1>1, MeansAreScores
  <2>3. (Evaluation!Bps + e + d) \div 3 \in Score
    BY <1>1, <2>1, MeansAreScores
  <2> QED
    BY <1>2, <2>2, <2>3
<1>4. f \in Score /\ g <= f /\ g \in Score
  <2>1. u <= u
    OBVIOUS
  <2> QED
    BY <2>1, FreshnessFalls
<1> HIDE DEF f, g, risk, cost
<1>5. /\ 30 * Evaluation!Bps + 20 * Evaluation!Bps + 20 * f + 15 * risk + 10 * cost \in Sums
      /\ 30 * Evaluation!Bps + 20 * Evaluation!Bps + 20 * g + 15 * risk + 10 * cost
           <= 30 * Evaluation!Bps + 20 * Evaluation!Bps + 20 * f + 15 * risk + 10 * cost
  BY <1>3, <1>4, WeightsKeepOrder
<1> QED
  BY <1>5 DEF Evaluation!Total, f, g, risk, cost

\* What a decision says of its quote.
LEMMA DecisionParts ==
  ASSUME NEW m \in Mandates, NEW q, IsQuote(q), NEW t \in Int
  PROVE  LET d == Evaluation!Decision(m, q, t)
         IN  /\ d.quote = q /\ d.candidate = q.payload.candidate
             /\ d.outcome = Evaluation!Verdict(m, q, t)
             /\ d.outcome \in Evaluation!Outcomes
             /\ d.outcome = "excluded" <=> ~Fits(m, q, t)
             /\ d.outcome = "eligible" <=> Fits(m, q, t) /\ Clear(m, q, t)
             /\ d.outcome = "eligible" => d.total = Evaluation!Total(m, q, t)
             /\ d.total \in Sums
<1> DEFINE d == Evaluation!Decision(m, q, t)
           v == Evaluation!Verdict(m, q, t)
<1>1. /\ d.quote = q /\ d.candidate = q.payload.candidate /\ d.outcome = v
      /\ d.total = IF v = "eligible" THEN Evaluation!Total(m, q, t) ELSE 0
  BY DEF Evaluation!Decision
<1>2. /\ v \in Evaluation!Outcomes
      /\ v = "excluded" <=> ~Fits(m, q, t)
      /\ v = "eligible" <=> Fits(m, q, t) /\ Clear(m, q, t)
  BY ExclusionsAre, InconclusivesAre DEF Evaluation!Verdict, Evaluation!Outcomes
<1>3. Evaluation!Total(m, q, t) \in Sums
  BY TotalFalls
<1>4. /\ v = "eligible" => d.total = Evaluation!Total(m, q, t)
      /\ v # "eligible" => d.total = 0
  BY DEF Evaluation!Decision
<1>5. 0 \in Sums
  BY SumParts
<1> HIDE DEF d, v
<1>6. d.total \in Sums
  BY <1>3, <1>4, <1>5, Zenon
<1>7. d.quote = q /\ d.candidate = q.payload.candidate
  BY <1>1
<1>8. d.outcome = v /\ d.outcome \in Evaluation!Outcomes
  BY <1>1, <1>2
<1>9. d.outcome = "excluded" <=> ~Fits(m, q, t)
  BY <1>1, <1>2, Zenon
<1>10. d.outcome = "eligible" <=> Fits(m, q, t) /\ Clear(m, q, t)
  BY <1>1, <1>2, Zenon
<1>11. d.outcome = "eligible" => d.total = Evaluation!Total(m, q, t)
  BY <1>1, <1>4
<1> QED
  BY <1>6, <1>7, <1>8, <1>9, <1>10, <1>11, Zenon DEF d, v

-----------------------------------------------------------------------------
(* The order of decisions.                                                 *)

LEMMA SameCardinality == \A S : Evaluation!Cardinality(S) = Cardinality(S)
  BY DEF Evaluation!Cardinality, Cardinality

\* An enumeration of a set has each of its elements once.
LEMMA Enumerations ==
  ASSUME NEW S, IsFiniteSet(S), NEW v \in Evaluation!SetToSeqs(S)
  PROVE  /\ Cardinality(S) \in Nat /\ v \in [1..Cardinality(S) -> S]
         /\ \A i, j \in 1..Cardinality(S) : v[i] = v[j] => i = j
         /\ \A q \in S : \E i \in 1..Cardinality(S) : v[i] = q
         /\ Evaluation!Len(v) = Cardinality(S)
<1> DEFINE n == Cardinality(S)
<1>1. n \in Nat
  BY FS_CardinalityType
<1>2. v \in [1..n -> S] /\ \A i, j \in 1..n : i # j => v[i] # v[j]
  BY SameCardinality DEF Evaluation!SetToSeqs
<1>3. v \in Injection(1..n, S)
  BY <1>2 DEF Injection, IsInjective
<1>4. Cardinality(1..n) = n
  BY <1>1, FS_Interval
<1> HIDE DEF n
<1>5. v \in Surjection(1..n, S)
  BY <1>3, <1>4, FS_Injection DEF n
<1>6. \A q \in S : \E i \in 1..n : v[i] = q
  BY <1>5 DEF Surjection
<1>7. Evaluation!Len(v) = n
  BY <1>1, <1>2
<1> QED
  BY <1>1, <1>2, <1>6, <1>7 DEF n

\* The places whose quotes are of smaller candidates.
SmallerAt(wires) ==
    [i \in DOMAIN wires |-> {j \in DOMAIN wires : Evaluation!Earlier(wires[j], wires[i])}]
ByCandidate(n, wires) == Stable(n, SmallerAt(wires))

LEMMA DecisionsAreSorted ==
  ASSUME NEW n \in Nat, NEW wires, DOMAIN wires = 1..n,
         \A i \in 1..n : wires[i].payload.candidate \in Nat
  PROVE  /\ Orders(ByCandidate(n, wires), 1..n) /\ Cardinality(1..n) = n
         /\ \A m, t : Evaluation!Decisions(m, wires, t) =
              [k \in 1..n |-> Evaluation!Decision(m, wires[At(ByCandidate(n, wires), k)], t)]
<1> DEFINE before == SmallerAt(wires)
           below == ByCandidate(n, wires)
           c(k) == CHOOSE i \in 1..n :
                     Evaluation!Cardinality({j \in 1..n :
                       Evaluation!Earlier(wires[j], wires[i])
                       \/ (j < i /\ ~Evaluation!Earlier(wires[i], wires[j]))}) = k - 1
<1>1. /\ before \in [1..n -> SUBSET (1..n)]
      /\ \A i, j \in 1..n : j \in before[i] <=>
           wires[j].payload.candidate < wires[i].payload.candidate
  BY DEF SmallerAt, Evaluation!Earlier
<1>2. Orders(below, 1..n) /\ Cardinality(1..n) = n
  <2> HIDE DEF before
  <2>1. \A i \in 1..n : i \notin before[i]
    BY <1>1
  <2>2. \A i \in 1..n : \A j \in before[i] : before[j] \subseteq before[i]
    BY <1>1
  <2>3. \A i, k \in 1..n : \A j \in before[i] : j \in before[k] \/ k \in before[i]
    BY <1>1
  <2>4. Orders(Stable(n, before), 1..n) /\ Cardinality(1..n) = n
    BY <1>1, <2>1, <2>2, <2>3, StableOrders
  <2> QED
    BY <2>4 DEF ByCandidate, before
<1>3. \A k \in 1..n : c(k) = At(below, k)
  <2>1. DOMAIN below = 1..n
    BY DEF ByCandidate, Stable
  <2>2. ASSUME NEW i \in 1..n
        PROVE  {j \in 1..n : Evaluation!Earlier(wires[j], wires[i])
                             \/ (j < i /\ ~Evaluation!Earlier(wires[i], wires[j]))} = below[i]
    BY DEF ByCandidate, Stable, SmallerAt
  <2> HIDE DEF below
  <2> QED
    BY <2>1, <2>2, SameCardinality DEF At
<1>4. ASSUME NEW m, NEW t
      PROVE  Evaluation!Decisions(m, wires, t) =
               [k \in 1..n |-> Evaluation!Decision(m, wires[At(below, k)], t)]
  <2>1. Evaluation!Decisions(m, wires, t) =
          [i \in 1..n |-> Evaluation!Decision(m, [k \in 1..n |-> wires[c(k)]][i], t)]
    BY DEF Evaluation!Decisions, Evaluation!Sorted, Evaluation!Place
  <2> HIDE DEF c, below
  <2> QED
    BY <1>3, <2>1
<1> QED
  BY <1>2, <1>4

\* The greater in the first, then in the second, then the smaller in the third.
Ahead3(a, b, c, d, e, f) ==
    \/ a > d
    \/ a = d /\ b > e
    \/ a = d /\ b = e /\ c < f

LEMMA AheadIsAnOrder ==
  ASSUME NEW a \in Int, NEW b \in Int, NEW c \in Int, NEW d \in Int, NEW e \in Int, NEW f \in Int,
         NEW x \in Int, NEW y \in Int, NEW z \in Int, Ahead3(a, b, c, d, e, f)
  PROVE  /\ Ahead3(d, e, f, x, y, z) => Ahead3(a, b, c, x, y, z)
         /\ Ahead3(a, b, c, x, y, z) \/ Ahead3(x, y, z, d, e, f)
  BY DEF Ahead3

\* The places whose decisions are shown above another.
AboveAt(decisions) ==
    [i \in DOMAIN decisions |-> {j \in DOMAIN decisions : Evaluation!Above(decisions[j], decisions[i])}]

LEMMA ViewsAreSorted ==
  ASSUME NEW n \in Nat, NEW decisions, DOMAIN decisions = 1..n,
         \A i \in 1..n : decisions[i].candidate \in Candidates /\ decisions[i].total \in Nat
  PROVE  /\ Orders(Stable(n, AboveAt(decisions)), 1..n) /\ Cardinality(1..n) = n
         /\ \A result, rejected : result.decisions = decisions =>
              Evaluation!View(result, rejected).candidates =
                [k \in 1..n |-> decisions[At(Stable(n, AboveAt(decisions)), k)]]
<1> DEFINE before == AboveAt(decisions)
           below == Stable(n, before)
           c(k) == CHOOSE i \in 1..n :
                     Evaluation!Cardinality({j \in 1..n :
                       Evaluation!Above(decisions[j], decisions[i])
                       \/ (j < i /\ ~Evaluation!Above(decisions[i], decisions[j]))}) = k - 1
           tier == [i \in 1..n |-> IF Evaluation!Eligible(decisions[i]) THEN 1 ELSE 0]
           score == [i \in 1..n |-> Evaluation!Displayed(decisions[i])]
           rank == [i \in 1..n |-> QuoteRank[decisions[i].candidate]]
<1>1. before \in [1..n -> SUBSET (1..n)]
  BY DEF AboveAt
<1>2. \A i, j \in 1..n : j \in before[i] <=>
           Ahead3(tier[j], score[j], rank[j], tier[i], score[i], rank[i])
  BY DEF AboveAt, Evaluation!Above, Ahead3
<1>3. \A i \in 1..n : tier[i] \in Int /\ score[i] \in Int /\ rank[i] \in Int
  <2>1. ASSUME NEW i \in 1..n PROVE score[i] \in Int
    BY DEF Evaluation!Displayed, Evaluation!Bps
  <2>2. ASSUME NEW i \in 1..n PROVE rank[i] \in Int
    BY EvaluationAssumption DEF Evaluation!ComparisonAssumption
  <2> QED
    BY <2>1, <2>2
<1> HIDE DEF tier, score, rank
<1>4. Orders(below, 1..n) /\ Cardinality(1..n) = n
  <2> HIDE DEF before
  <2>1. ASSUME NEW i \in 1..n PROVE i \notin before[i]
    <3>1. \A a, b, d \in Int : ~Ahead3(a, b, d, a, b, d)
      BY DEF Ahead3
    <3> QED
      BY <1>2, <1>3, <3>1, Zenon
  <2>2. ASSUME NEW i \in 1..n, NEW j \in before[i], NEW k \in before[j] PROVE k \in before[i]
    <3>1. j \in 1..n /\ k \in 1..n
      BY <1>1, <2>2
    <3>2. Ahead3(tier[j], score[j], rank[j], tier[i], score[i], rank[i])
      BY <1>2, <2>2, <3>1, Zenon
    <3>3. Ahead3(tier[k], score[k], rank[k], tier[j], score[j], rank[j])
      BY <1>2, <2>2, <3>1, Zenon
    <3>4. Ahead3(tier[k], score[k], rank[k], tier[i], score[i], rank[i])
      BY <1>3, <3>1, <3>2, <3>3, AheadIsAnOrder, Zenon
    <3> QED
      BY <1>2, <3>1, <3>4, Zenon
  <2>3. ASSUME NEW i \in 1..n, NEW k \in 1..n, NEW j \in before[i]
        PROVE  j \in before[k] \/ k \in before[i]
    <3>1. j \in 1..n
      BY <1>1, <2>3
    <3>2. Ahead3(tier[j], score[j], rank[j], tier[i], score[i], rank[i])
      BY <1>2, <2>3, <3>1, Zenon
    <3>3. \/ Ahead3(tier[j], score[j], rank[j], tier[k], score[k], rank[k])
          \/ Ahead3(tier[k], score[k], rank[k], tier[i], score[i], rank[i])
      BY <1>3, <3>1, <3>2, AheadIsAnOrder, Zenon
    <3> QED
      BY <1>2, <3>1, <3>3, Zenon
  <2> QED
    BY <1>1, <2>1, <2>2, <2>3, StableOrders
<1>5. \A k \in 1..n : c(k) = At(below, k)
  <2>1. DOMAIN below = 1..n
    BY DEF Stable
  <2>2. ASSUME NEW i \in 1..n
        PROVE  {j \in 1..n : Evaluation!Above(decisions[j], decisions[i])
                             \/ (j < i /\ ~Evaluation!Above(decisions[i], decisions[j]))} = below[i]
    BY DEF Stable, AboveAt
  <2> HIDE DEF below
  <2> QED
    BY <2>1, <2>2, SameCardinality DEF At
<1>6. ASSUME NEW result, NEW rejected, result.decisions = decisions
      PROVE  Evaluation!View(result, rejected).candidates =
               [k \in 1..n |-> decisions[At(below, k)]]
  <2>1. Evaluation!View(result, rejected).candidates = [k \in 1..n |-> decisions[c(k)]]
    BY <1>6 DEF Evaluation!View, Evaluation!Sorted, Evaluation!Place
  <2> HIDE DEF c, below
  <2> QED
    BY <1>5, <2>1
<1> QED
  BY <1>4, <1>6

\* Everything that came is decided once.
OfCandidates(n, wires) ==
    n \in Nat /\ DOMAIN wires = 1..n /\ \A i \in 1..n : wires[i].payload.candidate \in Nat

Decides(n, wires, m, t, decisions) ==
    /\ decisions = [k \in 1..n |-> decisions[k]]
    /\ \A k \in 1..n : \E i \in 1..n : decisions[k] = Evaluation!Decision(m, wires[i], t)
    /\ \A i \in 1..n : \E k \in 1..n : decisions[k] = Evaluation!Decision(m, wires[i], t)

LEMMA AllAreDecided ==
  ASSUME NEW n, NEW wires, OfCandidates(n, wires), NEW m, NEW t
  PROVE  Decides(n, wires, m, t, Evaluation!Decisions(m, wires, t))
<1> DEFINE below == ByCandidate(n, wires)
           decisions == Evaluation!Decisions(m, wires, t)
           D(k) == Evaluation!Decision(m, wires[At(below, k)], t)
<1>1. Orders(below, 1..n) /\ Cardinality(1..n) = n
  BY DecisionsAreSorted DEF OfCandidates
<1>2. decisions = [k \in 1..n |-> D(k)]
  BY DecisionsAreSorted DEF OfCandidates
<1> HIDE DEF below, D, decisions
<1>3. /\ \A k \in 1..n : At(below, k) \in 1..n
      /\ \A i \in 1..n : \E k \in 1..n : At(below, k) = i
  <2>1. \A k \in 1..Cardinality(1..n) : At(below, k) \in 1..n
    BY <1>1, AtIsBijective, Zenon
  <2>2. \A i \in 1..n : /\ Cardinality(below[i]) + 1 \in 1..Cardinality(1..n)
                        /\ At(below, Cardinality(below[i]) + 1) = i
    BY <1>1, AtIsBijective, Zenon
  <2> QED
    BY <1>1, <2>1, <2>2, Zenon
<1>4. decisions = [k \in 1..n |-> decisions[k]]
  BY <1>2
<1>5. \A k \in 1..n : decisions[k] = Evaluation!Decision(m, wires[At(below, k)], t)
  <2>1. \A k \in 1..n : decisions[k] = D(k)
    BY <1>2
  <2> QED
    BY <2>1 DEF D
<1>6. Decides(n, wires, m, t, decisions)
  BY <1>3, <1>4, <1>5 DEF Decides
<1> QED
  BY <1>6 DEF decisions

-----------------------------------------------------------------------------
(* What is attested, and what was decided of it.                           *)

Attested(q) ==
    /\ IsQuote(q)
    /\ q.issuedAt <= time /\ q.issuedAt < q.expiresAt /\ q.expiresAt - q.issuedAt <= Ttl
    /\ q.expiresAt <= q.payload.expiresAt
    /\ q.payload.expiresAt <= mandate.expiresAt
    /\ q.payload.expiresAt <= q.payload.permissions
    /\ q.payload.permissions <= mandate.permissions
    /\ \A at \in Evaluation!Observations(q.payload) : at <= q.issuedAt

Judged(d, t) ==
    \E q \in issued : d = Evaluation!Decision(mandate, q, t) /\ Evaluation!Verifies(q, t)

ClocksAreRead == time \in 0..LastSecond /\ drift \in Drifts /\ mandate \in Mandates
IssuedAreAttested == IsFiniteSet(issued) /\ \A q \in issued : Attested(q)
ResultsAreJudged ==
    \A r \in results : r.at \in Int /\ \A i \in DOMAIN r.decisions : Judged(r.decisions[i], r.at)

EvaluationInv == ClocksAreRead /\ IssuedAreAttested /\ ResultsAreJudged

LEMMA ClockParts ==
  ASSUME ClocksAreRead
  PROVE  /\ time \in Nat /\ drift \in Int /\ Evaluation!Evaluated \in Int
         /\ Evaluation!Evaluated = time + drift
         /\ Evaluation!Magnitude(drift) \in Nat
         /\ drift <= Evaluation!Magnitude(drift) /\ -drift <= Evaluation!Magnitude(drift)
<1>1. LastSecond \in Nat /\ Drifts \subseteq Int
  BY EvaluationAssumption DEF Evaluation!EvaluationAssumption
<1>2. time \in Nat /\ drift \in Int
  BY <1>1 DEF ClocksAreRead
<1> QED
  BY <1>2 DEF Evaluation!Evaluated, Evaluation!Magnitude

LEMMA EvaluationStarts ==
  Evaluation!Init => EvaluationInv
<1> SUFFICES ASSUME Evaluation!Init PROVE EvaluationInv
  OBVIOUS
<1>1. mandate \in Mandates /\ drift \in Drifts /\ time = mandate.createdAt /\ issued = {}
      /\ results = {}
  BY DEF Evaluation!Init
<1>2. mandate.createdAt \in 0..LastSecond
  <2>1. mandate.createdAt \in Nat /\ mandate.createdAt <= LastSecond
    BY <1>1, MandateParts
  <2>2. LastSecond \in Nat
    BY EvaluationAssumption DEF Evaluation!EvaluationAssumption
  <2> QED
    BY <2>1, <2>2
<1>3. IsFiniteSet({})
  BY FS_EmptySet
<1> QED
  BY <1>1, <1>2, <1>3 DEF EvaluationInv, ClocksAreRead, IssuedAreAttested, ResultsAreJudged

LEMMA TickStep ==
  ASSUME EvaluationInv, Evaluation!Tick
  PROVE  EvaluationInv'
<1>1. time \in 0..LastSecond /\ time < LastSecond /\ time' = time + 1
      /\ UNCHANGED <<drift, mandate, issued, results>>
  BY DEF EvaluationInv, ClocksAreRead, Evaluation!Tick
<1>2. LastSecond \in Nat
  BY EvaluationAssumption DEF Evaluation!EvaluationAssumption
<1>3. time' \in 0..LastSecond /\ time \in Int /\ time' >= time
  BY <1>1, <1>2
<1>4. ClocksAreRead'
  BY <1>1, <1>3 DEF EvaluationInv, ClocksAreRead
<1>5. ASSUME NEW q \in issued PROVE Attested(q)'
  <2>1. Attested(q) /\ q.issuedAt \in Int
    BY DEF EvaluationInv, IssuedAreAttested, Attested, IsQuote
  <2> QED
    BY <1>1, <1>3, <2>1 DEF Attested
<1>6. IssuedAreAttested'
  BY <1>1, <1>5 DEF EvaluationInv, IssuedAreAttested
<1>7. ResultsAreJudged'
  BY <1>1 DEF EvaluationInv, ResultsAreJudged, Judged
<1> QED
  BY <1>4, <1>6, <1>7 DEF EvaluationInv

\* An attestation is of what was observed, and lives no longer than what it attests.
LEMMA IssueStep ==
  ASSUME EvaluationInv,
         NEW candidates \in SUBSET Candidates, NEW lags \in SUBSET Lags,
         NEW leads \in SUBSET Leads, NEW offers \in SUBSET Offers, NEW keys,
         Evaluation!Issues(Evaluation!PayloadsOf(candidates, lags, leads, offers), keys)
  PROVE  EvaluationInv'
<1>1. PICK payload \in Evaluation!PayloadsOf(candidates, lags, leads, offers), key \in keys :
        Evaluation!Issue(payload, key)
  BY DEF Evaluation!Issues
<1>2. PICK c \in candidates, p \in {mandate.permissions - 1, mandate.permissions},
           lag \in lags, old \in lags, lead \in leads, o \in offers :
        payload = Evaluation!PayloadOf(c, p, lag, old, lead, o)
  BY DEF Evaluation!PayloadsOf
<1> DEFINE q == Evaluation!Attestation(payload, key)
           end == Evaluation!Least({time + lead, mandate.expiresAt, p})
           until == Evaluation!Least({time + Ttl, payload.expiresAt})
<1>3. /\ \A at \in Evaluation!Observations(payload) : at <= time
      /\ q.expiresAt > time
      /\ issued' = issued \cup {q}
      /\ UNCHANGED <<time, drift, mandate, results>>
  BY <1>1 DEF Evaluation!Issue
<1>4. q.payload = payload /\ q.issuedAt = time /\ q.expiresAt = until
  BY DEF Evaluation!Attestation
<1>5. /\ payload.candidate = c /\ payload.observedAt = time - lag
      /\ payload.estimateAt = time - old /\ payload.offer = o /\ payload.reputationAt = time
      /\ payload.permissions = p /\ payload.expiresAt = end
  BY <1>2 DEF Evaluation!PayloadOf
<1>6. /\ time \in Int /\ lag \in Int /\ old \in Int /\ lead \in Int /\ Ttl \in Int
      /\ mandate.expiresAt \in Int /\ mandate.permissions \in Int /\ p \in Int
      /\ p <= mandate.permissions /\ c \in Candidates /\ o \in Offers
  <2>1. lag \in Int /\ old \in Int /\ lead \in Int /\ Ttl \in Int
    BY EvaluationAssumption DEF Evaluation!EvaluationAssumption
  <2>2. mandate.expiresAt \in Int /\ mandate.permissions \in Int
    BY MandateParts DEF EvaluationInv, ClocksAreRead
  <2>3. time \in Int
    BY ClockParts DEF EvaluationInv
  <2> QED
    BY <1>2, <2>1, <2>2, <2>3
<1>7. end \in Int /\ end <= mandate.expiresAt /\ end <= p
  <2>1. time + lead \in Int
    BY <1>6
  <2> HIDE DEF end
  <2>2. end \in {time + lead, mandate.expiresAt, p} /\ end <= mandate.expiresAt /\ end <= p
    BY <1>6, <2>1, LeastOfThree DEF end
  <2> QED
    BY <1>6, <2>1, <2>2
<1> HIDE DEF end
<1>8. until \in Int /\ until <= time + Ttl /\ until <= end
  <2>1. time + Ttl \in Int
    BY <1>6
  <2> HIDE DEF until
  <2>2. until \in {time + Ttl, end} /\ until <= time + Ttl /\ until <= end
    BY <1>5, <1>7, <2>1, LeastOfTwo DEF until
  <2> QED
    BY <1>7, <2>1, <2>2
<1> HIDE DEF q, until
<1>9. Attested(q)
  <2>1. IsQuote(q)
    BY <1>4, <1>5, <1>6, <1>7, <1>8 DEF IsQuote
  <2>2. q.expiresAt - q.issuedAt <= Ttl /\ q.issuedAt <= time /\ q.issuedAt < q.expiresAt
        /\ q.expiresAt <= q.payload.expiresAt
    BY <1>3, <1>4, <1>5, <1>6, <1>7, <1>8
  <2>3. \A at \in Evaluation!Observations(q.payload) : at <= q.issuedAt
    BY <1>3, <1>4
  <2> QED
    BY <1>4, <1>5, <1>6, <1>7, <2>1, <2>2, <2>3 DEF Attested
<1>10. IssuedAreAttested'
  <2>1. IsFiniteSet(issued \cup {q})
    BY FS_AddElement DEF EvaluationInv, IssuedAreAttested
  <2>2. \A a \in issued \cup {q} : Attested(a)
    BY <1>9 DEF EvaluationInv, IssuedAreAttested
  <2> QED
    BY <1>3, <2>1, <2>2 DEF IssuedAreAttested, Attested
<1>11. ResultsAreJudged'
  BY <1>3 DEF EvaluationInv, ResultsAreJudged, Judged
<1> QED
  BY <1>3, <1>10, <1>11 DEF EvaluationInv, ClocksAreRead

\* An evaluation judges what is issued, and every one of it verifies.
LEMMA EvaluateStep ==
  ASSUME EvaluationInv, NEW wires \in Evaluation!Wires, Evaluation!Evaluate(wires)
  PROVE  EvaluationInv'
<1> DEFINE now_ == Evaluation!Evaluated
           r == Evaluation!Result(mandate, wires, now_)
<1>1. /\ Evaluation!Acceptable(mandate, wires, now_) /\ results' = results \cup {r}
      /\ UNCHANGED <<time, drift, mandate, issued>>
  BY DEF Evaluation!Evaluate
<1>2. PICK S \in SUBSET issued : wires \in Evaluation!SetToSeqs(S)
  BY DEF Evaluation!Wires
<1>3. IsFiniteSet(S) /\ \A q \in S : IsQuote(q)
  BY FS_Subset DEF EvaluationInv, IssuedAreAttested, Attested
<1> DEFINE n == Cardinality(S)
<1>4. n \in Nat /\ DOMAIN wires = 1..n /\ \A i \in 1..n : wires[i] \in S
  BY <1>2, <1>3, Enumerations
<1>5. OfCandidates(n, wires)
  BY <1>3, <1>4, EvaluationAssumption DEF OfCandidates, IsQuote, Evaluation!EvaluationAssumption
<1> HIDE DEF n
<1>6. r.at = now_ /\ r.decisions = Evaluation!Decisions(mandate, wires, now_)
  BY DEF Evaluation!Result
<1> HIDE DEF r, now_
<1>7. \A k \in DOMAIN r.decisions :
        \E i \in 1..n : r.decisions[k] = Evaluation!Decision(mandate, wires[i], now_)
  <2> DEFINE decisions == r.decisions
  <2>1. Decides(n, wires, mandate, now_, decisions)
    BY <1>5, <1>6, AllAreDecided
  <2> HIDE DEF decisions
  <2>2. DOMAIN decisions = 1..n
        /\ \A k \in 1..n : \E i \in 1..n :
             decisions[k] = Evaluation!Decision(mandate, wires[i], now_)
    BY <2>1 DEF Decides
  <2> QED
    BY <2>2 DEF decisions
<1>8. now_ \in Int
  BY ClockParts DEF EvaluationInv, now_
<1>9. \A i \in 1..n : Evaluation!Verifies(wires[i], now_) /\ wires[i] \in issued
  BY <1>1, <1>2, <1>4 DEF Evaluation!Acceptable
<1>10. \A k \in DOMAIN r.decisions : Judged(r.decisions[k], r.at)
  BY <1>6, <1>7, <1>9 DEF Judged
<1>11. ResultsAreJudged'
  BY <1>1, <1>6, <1>8, <1>10 DEF EvaluationInv, ResultsAreJudged, Judged
<1> QED
  BY <1>1, <1>11 DEF EvaluationInv, ClocksAreRead, IssuedAreAttested, Attested

-----------------------------------------------------------------------------
(* What evaluations promise.                                               *)

\* What was decided was decided of something that is issued.
LEMMA DecidedParts ==
  ASSUME EvaluationInv, NEW rd \in Evaluation!Decided
  PROVE  /\ rd[1].at \in Int /\ mandate \in Mandates
         /\ \E q \in issued : /\ Attested(q) /\ Evaluation!Verifies(q, rd[1].at)
                              /\ rd[2] = Evaluation!Decision(mandate, q, rd[1].at)
<1>1. PICK r \in results : rd \in {<<r, r.decisions[i]>> : i \in DOMAIN r.decisions}
  BY DEF Evaluation!Decided
<1>2. PICK i \in DOMAIN r.decisions : rd = <<r, r.decisions[i]>>
  BY <1>1
<1>3. rd[1] = r /\ rd[2] = r.decisions[i]
  BY <1>2
<1>4. r.at \in Int /\ Judged(r.decisions[i], r.at)
  BY DEF EvaluationInv, ResultsAreJudged
<1> QED
  BY <1>3, <1>4 DEF Judged, EvaluationInv, ClocksAreRead, IssuedAreAttested

LEMMA TypesAreKept == EvaluationInv => Evaluation!TypeOK
<1> SUFFICES ASSUME EvaluationInv PROVE Evaluation!TypeOK
  OBVIOUS
<1>1. ASSUME NEW rd \in Evaluation!Decided
      PROVE  /\ rd[2].quote \in issued /\ rd[2].outcome \in Evaluation!Outcomes
             /\ rd[2].total \in Sums
             /\ Evaluation!Freshness(mandate, rd[2].quote, rd[1].at) \in Score
  <2>1. PICK q \in issued : /\ Attested(q)
                            /\ rd[2] = Evaluation!Decision(mandate, q, rd[1].at)
    BY DecidedParts
  <2>2. IsQuote(q) /\ rd[1].at \in Int /\ mandate \in Mandates /\ rd[1].at <= rd[1].at
    BY <2>1, DecidedParts DEF Attested
  <2>3. /\ rd[2].quote = q /\ rd[2].outcome \in Evaluation!Outcomes
        /\ rd[2].total \in Sums
    BY <2>1, <2>2, DecisionParts
  <2>4. Evaluation!Freshness(mandate, q, rd[1].at) \in Score
    BY <2>2, FreshnessFalls
  <2> QED
    BY <2>3, <2>4
<1> QED
  BY <1>1 DEF Evaluation!TypeOK, EvaluationInv, ClocksAreRead, Score, Sums

LEMMA LiveAreRanked == EvaluationInv => Evaluation!RankedAreLive
<1> SUFFICES ASSUME EvaluationInv, NEW rd \in Evaluation!Decided, rd[2].outcome = "eligible"
             PROVE  LET q == rd[2].quote
                        real == rd[1].at - drift
                    IN  /\ q.key = PinnedKey
                        /\ real < q.payload.expiresAt + Evaluation!Magnitude(drift)
                        /\ real < q.issuedAt + Ttl + Evaluation!Magnitude(drift)
                        /\ \A d \in Evaluation!Dated(mandate, q) :
                            /\ d[2] >= mandate.createdAt
                            /\ real - d[2] <= d[3] + Evaluation!Magnitude(drift)
                            /\ d[2] <= q.issuedAt
  BY DEF Evaluation!RankedAreLive
<1>1. PICK q \in issued : /\ Attested(q) /\ Evaluation!Verifies(q, rd[1].at)
                          /\ rd[2] = Evaluation!Decision(mandate, q, rd[1].at)
  BY DecidedParts
<1> DEFINE t == rd[1].at  much == Evaluation!Magnitude(drift)
<1>2. IsQuote(q) /\ t \in Int /\ mandate \in Mandates
  BY <1>1, DecidedParts DEF Attested
<1>3. rd[2].quote = q /\ Fits(mandate, q, t)
  BY <1>1, <1>2, DecisionParts
<1>4. drift \in Int /\ much \in Nat /\ -drift <= much
  BY ClockParts DEF EvaluationInv
<1>5. /\ q.key = PinnedKey /\ q.expiresAt > t /\ q.expiresAt <= q.payload.expiresAt
      /\ q.expiresAt - q.issuedAt <= Ttl
      /\ \A at \in Evaluation!Observations(q.payload) : at <= q.issuedAt
  BY <1>1 DEF Evaluation!Verifies
<1>6. /\ q.issuedAt \in Int /\ q.expiresAt \in Int /\ q.payload.expiresAt \in Int /\ Ttl \in Int
  BY <1>2, EvaluationAssumption DEF IsQuote, Evaluation!EvaluationAssumption
<1>7. \A d \in Evaluation!Dated(mandate, q) :
        /\ d[2] \in Int /\ d[3] \in Nat /\ d[2] \in Evaluation!Observations(q.payload)
        /\ d[2] >= mandate.createdAt /\ t - d[2] <= d[3]
  BY <1>2, <1>3, DatedParts DEF Fits
<1> HIDE DEF t, much
<1>8. /\ t - drift < q.payload.expiresAt + much
      /\ t - drift < q.issuedAt + Ttl + much
  BY <1>2, <1>4, <1>5, <1>6
<1>9. ASSUME NEW d \in Evaluation!Dated(mandate, q)
      PROVE  d[2] >= mandate.createdAt /\ t - drift - d[2] <= d[3] + much /\ d[2] <= q.issuedAt
  BY <1>2, <1>4, <1>5, <1>6, <1>7
<1> QED
  BY <1>3, <1>5, <1>8, <1>9 DEF t, much

LEMMA HonestAreEligible == EvaluationInv => Evaluation!HonestIsEligible
<1> DEFINE now_ == Evaluation!Evaluated  much == Evaluation!Magnitude(drift)
<1> SUFFICES ASSUME EvaluationInv, NEW q \in issued,
                    much <= Evaluation!Least({mandate.skew, CoreSkew}),
                    time + much < q.expiresAt, q.key = PinnedKey,
                    now_ >= mandate.createdAt, now_ > 0, q.payload.offer.price = 0,
                    q.payload.offer.gas <= mandate.gas,
                    q.payload.offer.slippage <= mandate.slippage,
                    q.payload.offer.exposure <= mandate.exposure,
                    q.payload.offer.spend <= mandate.spend,
                    \A d \in Evaluation!Dated(mandate, q) :
                        d[2] >= mandate.createdAt /\ time + much - d[2] <= d[3]
             PROVE  /\ Evaluation!Acceptable(mandate, <<q>>, now_)
                    /\ Evaluation!Verdict(mandate, q, now_) = "eligible"
  BY DEF Evaluation!HonestIsEligible
<1>1. Attested(q) /\ IsQuote(q) /\ mandate \in Mandates
  BY DEF EvaluationInv, IssuedAreAttested, ClocksAreRead, Attested
<1>2. /\ time \in Nat /\ drift \in Int /\ now_ \in Int /\ now_ = time + drift
      /\ much \in Nat /\ drift <= much /\ -drift <= much
  BY ClockParts DEF EvaluationInv
<1>3. much <= mandate.skew /\ much <= CoreSkew /\ mandate.skew \in Nat /\ CoreSkew \in Nat
  <2>1. mandate.skew \in Nat /\ CoreSkew \in Nat
    BY <1>1, MandateParts, EvaluationAssumption DEF Evaluation!EvaluationAssumption
  <2> DEFINE least == Evaluation!Least({mandate.skew, CoreSkew})
  <2>2. least \in {mandate.skew, CoreSkew} /\ least <= mandate.skew /\ least <= CoreSkew
    <3>1. mandate.skew \in Int /\ CoreSkew \in Int
      BY <2>1
    <3> QED
      BY <3>1, LeastOfTwo, Zenon
  <2>3. much <= least
    OBVIOUS
  <2> HIDE DEF least, much
  <2> QED
    BY <1>2, <2>1, <2>2, <2>3
<1> HIDE DEF now_, much
<1>4. /\ q.issuedAt \in Int /\ q.expiresAt \in Int /\ q.payload.expiresAt \in Int
      /\ q.payload.permissions \in Int /\ mandate.expiresAt \in Int /\ mandate.permissions \in Int
  BY <1>1, MandateParts DEF IsQuote
<1>5. /\ q.issuedAt <= time /\ q.issuedAt < q.expiresAt /\ q.expiresAt - q.issuedAt <= Ttl
      /\ q.expiresAt <= q.payload.expiresAt /\ q.payload.expiresAt <= mandate.expiresAt
      /\ q.payload.expiresAt <= q.payload.permissions
      /\ q.payload.permissions <= mandate.permissions
      /\ \A at \in Evaluation!Observations(q.payload) : at <= q.issuedAt
  BY <1>1 DEF Attested
<1>6. now_ < q.expiresAt /\ q.issuedAt <= now_ + CoreSkew /\ q.issuedAt <= now_ + mandate.skew
  BY <1>2, <1>3, <1>4, <1>5
<1>7. Evaluation!Verifies(q, now_)
  BY <1>5, <1>6 DEF Evaluation!Verifies
<1>8. Evaluation!Acceptable(mandate, <<q>>, now_)
  <2>1. Evaluation!Len(<<q>>) = 1 /\ DOMAIN <<q>> = {1} /\ <<q>>[1] = q
    OBVIOUS
  <2>2. MaxCandidates \in Nat /\ MaxCandidates > 0
    BY EvaluationAssumption DEF Evaluation!EvaluationAssumption
  <2> DEFINE wires == <<q>>
  <2> HIDE DEF wires
  <2>3. Evaluation!Acceptable(mandate, wires, now_)
    BY <1>7, <2>1, <2>2 DEF Evaluation!Acceptable, wires
  <2> QED
    BY <2>3 DEF wires
<1>9. Fits(mandate, q, now_)
  <2>1. ASSUME NEW d \in Evaluation!Dated(mandate, q)
        PROVE  d[2] >= mandate.createdAt /\ now_ - d[2] <= d[3]
    <3>1. d[2] \in Int /\ d[3] \in Nat
      BY <1>1, DatedParts
    <3> QED
      BY <1>2, <3>1
  <2>2. /\ now_ < mandate.expiresAt /\ q.payload.expiresAt > now_
        /\ q.payload.permissions > now_
    BY <1>2, <1>4, <1>5, <1>6
  <2> QED
    BY <1>5, <2>1, <2>2 DEF Fits
<1>10. Clear(mandate, q, now_)
  <2>1. ASSUME NEW d \in Evaluation!Dated(mandate, q) PROVE d[2] <= now_ + mandate.skew
    <3>1. d[2] \in Int /\ d[2] \in Evaluation!Observations(q.payload)
      BY <1>1, DatedParts
    <3> QED
      BY <1>2, <1>3, <1>4, <1>5, <1>6, <3>1
  <2> QED
    BY <1>6, <2>1 DEF Clear
<1>11. Evaluation!Verdict(mandate, q, now_) = "eligible"
  BY <1>1, <1>2, <1>9, <1>10, ExclusionsAre, InconclusivesAre DEF Evaluation!Verdict
<1> QED
  BY <1>8, <1>11

\* Two decisions about one attestation.
LEMMA DecidedTwice ==
  ASSUME EvaluationInv, NEW a \in Evaluation!Decided, NEW b \in Evaluation!Decided,
         a[2].quote = b[2].quote
  PROVE  \E q : /\ IsQuote(q) /\ mandate \in Mandates /\ a[1].at \in Int /\ b[1].at \in Int
                /\ a[2] = Evaluation!Decision(mandate, q, a[1].at)
                /\ b[2] = Evaluation!Decision(mandate, q, b[1].at)
<1>1. PICK q \in issued : Attested(q) /\ a[2] = Evaluation!Decision(mandate, q, a[1].at)
  BY DecidedParts
<1>2. PICK s \in issued : Attested(s) /\ b[2] = Evaluation!Decision(mandate, s, b[1].at)
  BY DecidedParts
<1>3. IsQuote(q) /\ IsQuote(s) /\ mandate \in Mandates /\ a[1].at \in Int /\ b[1].at \in Int
  BY <1>1, <1>2, DecidedParts DEF Attested
<1>4. a[2].quote = q
  BY <1>1, <1>3, DecisionParts
<1>5. b[2].quote = s
  BY <1>2, <1>3, DecisionParts
<1> QED
  BY <1>1, <1>2, <1>3, <1>4, <1>5

LEMMA VerdictsAge == EvaluationInv => Evaluation!VerdictsOnlyAge
<1> SUFFICES ASSUME EvaluationInv, NEW a \in Evaluation!Decided, NEW b \in Evaluation!Decided,
                    a[2].quote = b[2].quote, a[1].at <= b[1].at
             PROVE  Evaluation!Stage[a[2].outcome] <= Evaluation!Stage[b[2].outcome]
  BY DEF Evaluation!VerdictsOnlyAge
<1>1. PICK q : /\ IsQuote(q) /\ mandate \in Mandates /\ a[1].at \in Int /\ b[1].at \in Int
               /\ a[2] = Evaluation!Decision(mandate, q, a[1].at)
               /\ b[2] = Evaluation!Decision(mandate, q, b[1].at)
  BY DecidedTwice
<1>2. /\ a[2].outcome \in Evaluation!Outcomes
      /\ a[2].outcome = "excluded" <=> ~Fits(mandate, q, a[1].at)
      /\ a[2].outcome = "eligible" <=> Fits(mandate, q, a[1].at) /\ Clear(mandate, q, a[1].at)
  BY <1>1, DecisionParts
<1>3. /\ b[2].outcome \in Evaluation!Outcomes
      /\ b[2].outcome = "excluded" <=> ~Fits(mandate, q, b[1].at)
      /\ b[2].outcome = "eligible" <=> Fits(mandate, q, b[1].at) /\ Clear(mandate, q, b[1].at)
  BY <1>1, DecisionParts
<1>4. /\ Fits(mandate, q, b[1].at) => Fits(mandate, q, a[1].at)
      /\ Clear(mandate, q, a[1].at) => Clear(mandate, q, b[1].at)
  BY <1>1, FitsBefore
<1>5. /\ a[2].outcome = "excluded" => b[2].outcome = "excluded"
      /\ a[2].outcome = "eligible" => b[2].outcome # "inconclusive"
  BY <1>2, <1>3, <1>4
<1> QED
  BY <1>2, <1>3, <1>5 DEF Evaluation!Stage, Evaluation!Outcomes

LEMMA ScoresFall == EvaluationInv => Evaluation!ScoresOnlyFall
<1> SUFFICES ASSUME EvaluationInv, NEW a \in Evaluation!Decided, NEW b \in Evaluation!Decided,
                    a[2].quote = b[2].quote, a[1].at <= b[1].at,
                    a[2].outcome = "eligible", b[2].outcome = "eligible"
             PROVE  a[2].total >= b[2].total
  BY DEF Evaluation!ScoresOnlyFall
<1>1. PICK q : /\ IsQuote(q) /\ mandate \in Mandates /\ a[1].at \in Int /\ b[1].at \in Int
               /\ a[2] = Evaluation!Decision(mandate, q, a[1].at)
               /\ b[2] = Evaluation!Decision(mandate, q, b[1].at)
  BY DecidedTwice
<1>2. a[2].total = Evaluation!Total(mandate, q, a[1].at) /\ a[2].total \in Sums
  BY <1>1, DecisionParts
<1>3. b[2].total = Evaluation!Total(mandate, q, b[1].at) /\ b[2].total \in Sums
  BY <1>1, DecisionParts
<1>4. Evaluation!Total(mandate, q, b[1].at) <= Evaluation!Total(mandate, q, a[1].at)
  BY <1>1, TotalFalls
<1> QED
  BY <1>2, <1>3, <1>4, SumParts

-----------------------------------------------------------------------------
(* The order attestations come in.                                         *)

\* The quotes of a set that are of smaller candidates.
Smaller(S) == [q \in S |-> {p \in S : Evaluation!Earlier(p, q)}]
Different(S) == \A p, q \in S : p # q => p.payload.candidate # q.payload.candidate
AreQuotes(S) == IsFiniteSet(S) /\ \A q \in S : q.payload.candidate \in Nat

LEMMA SmallerOrders ==
  ASSUME NEW S, AreQuotes(S), Different(S)
  PROVE  Orders(Smaller(S), S)
<1>1. /\ Smaller(S) \in [S -> SUBSET S]
      /\ \A p, q \in S : p \in Smaller(S)[q] <=> p.payload.candidate < q.payload.candidate
  BY DEF Smaller, Evaluation!Earlier
<1> DEFINE below == Smaller(S)
<1> HIDE DEF below
<1>2. ASSUME NEW q \in S, NEW p \in below[q], NEW o \in below[p] PROVE o \in below[q]
  <2>1. p \in S /\ o \in S
    BY <1>1, <1>2 DEF below
  <2>2. p.payload.candidate < q.payload.candidate /\ o.payload.candidate < p.payload.candidate
    BY <1>1, <1>2, <2>1 DEF below
  <2>3. o.payload.candidate < q.payload.candidate
    BY <2>1, <2>2 DEF AreQuotes
  <2> QED
    BY <1>1, <2>1, <2>3 DEF below
<1>3. \A q \in S : q \notin below[q]
  BY <1>1 DEF AreQuotes, below
<1>4. ASSUME NEW p \in S, NEW q \in S, p # q PROVE p \in below[q] \/ q \in below[p]
  BY <1>1, <1>4 DEF AreQuotes, Different, below
<1> QED
  BY <1>1, <1>2, <1>3, <1>4 DEF Orders, AreQuotes, below

\* Whatever the enumeration, the place of a quote is that among the candidates.
LEMMA PlacesAreOfTheSet ==
  ASSUME NEW S, AreQuotes(S), Different(S), NEW v \in Evaluation!SetToSeqs(S),
         NEW k \in 1..Cardinality(S)
  PROVE  v[At(ByCandidate(Cardinality(S), v), k)] = At(Smaller(S), k)
<1> DEFINE n == Cardinality(S)
           B == ByCandidate(n, v)
           C == Smaller(S)
<1>1. /\ n \in Nat /\ v \in [1..n -> S]
      /\ \A i, j \in 1..n : v[i] = v[j] => i = j
      /\ \A q \in S : \E i \in 1..n : v[i] = q
  BY Enumerations DEF AreQuotes
<1>2. Orders(C, S)
  BY SmallerOrders
<1> HIDE DEF n
<1>3. DOMAIN v = 1..n /\ \A i \in 1..n : v[i].payload.candidate \in Nat
  BY <1>1 DEF AreQuotes
<1>4. Orders(B, 1..n) /\ Cardinality(1..n) = n
  BY <1>1, <1>3, DecisionsAreSorted
<1>5. ASSUME NEW i \in 1..n, NEW j \in 1..n PROVE j \in B[i] <=> v[j] \in C[v[i]]
  <2>1. j \in B[i] <=>
          \/ v[j].payload.candidate < v[i].payload.candidate
          \/ j < i /\ ~(v[i].payload.candidate < v[j].payload.candidate)
    BY <1>3 DEF ByCandidate, Stable, SmallerAt, Evaluation!Earlier
  <2>2. v[j] \in C[v[i]] <=> v[j].payload.candidate < v[i].payload.candidate
    BY <1>1 DEF Smaller, Evaluation!Earlier
  <2>3. i # j => v[i].payload.candidate # v[j].payload.candidate
    BY <1>1 DEF Different
  <2> QED
    BY <1>1, <1>3, <2>1, <2>2, <2>3
<1>6. B \in [1..n -> SUBSET (1..n)] /\ C \in [S -> SUBSET S]
  BY <1>2, <1>4 DEF Orders
<1> HIDE DEF B, C
<1>7. ASSUME NEW i \in 1..n PROVE Cardinality(B[i]) = Cardinality(C[v[i]])
  <2> DEFINE f == [j \in B[i] |-> v[j]]
  <2>1. B[i] \in SUBSET (1..n) /\ C[v[i]] \in SUBSET S
    BY <1>1, <1>6
  <2>2. f \in [B[i] -> C[v[i]]]
    BY <1>5, <2>1
  <2>3. \A j, l \in B[i] : f[j] = f[l] => j = l
    BY <1>1, <2>1
  <2>4. \A q \in C[v[i]] : \E j \in B[i] : f[j] = q
    BY <1>1, <1>5, <2>1
  <2> HIDE DEF f
  <2>5. f \in Bijection(B[i], C[v[i]])
    <3> DEFINE T == C[v[i]]  U == B[i]
    <3> HIDE DEF T, U
    <3>1. f \in [U -> T] /\ (\A j, l \in U : f[j] = f[l] => j = l)
          /\ \A q \in T : \E j \in U : f[j] = q
      BY <2>2, <2>3, <2>4, Zenon DEF T, U
    <3>2. f \in Injection(U, T)
      <4>1. IsInjective(f)
        BY <3>1 DEF IsInjective
      <4> QED
        BY <3>1, <4>1 DEF Injection
    <3>3. f \in Surjection(U, T)
      BY <3>1 DEF Surjection
    <3>4. f \in Bijection(U, T)
      BY <3>2, <3>3 DEF Bijection
    <3> QED
      BY <3>4 DEF T, U
  <2>6. IsFiniteSet(B[i])
    BY <1>4, <2>1, FS_Subset DEF Orders
  <2> QED
    BY <2>5, <2>6, FS_Bijection DEF ExistsBijection
<1>8. k \in 1..n
  BY DEF n
<1>9. At(B, k) \in 1..n /\ Cardinality(B[At(B, k)]) = k - 1
  BY <1>4, <1>8, AtIsBijective
<1>10. At(C, k) \in S /\ Cardinality(C[At(C, k)]) = k - 1
  BY <1>2, <1>8, AtIsBijective DEF n
<1>11. v[At(B, k)] \in S /\ Cardinality(C[v[At(B, k)]]) = k - 1
  BY <1>1, <1>7, <1>9
<1>12. v[At(B, k)] = At(C, k)
  BY <1>2, <1>10, <1>11, RanksAreTaken
<1> QED
  BY <1>12 DEF B, C, n

AcceptableSet(m, S, t) ==
    /\ Cardinality(S) <= MaxCandidates /\ t > 0 /\ t >= m.createdAt
    /\ \A q \in S : Evaluation!Verifies(q, t)
    /\ Different(S)

LEMMA AcceptableAsASet ==
  ASSUME NEW S, AreQuotes(S), NEW v \in Evaluation!SetToSeqs(S), NEW m, NEW t
  PROVE  Evaluation!Acceptable(m, v, t) <=> AcceptableSet(m, S, t)
<1> DEFINE n == Cardinality(S)
<1>1. /\ n \in Nat /\ v \in [1..n -> S] /\ Evaluation!Len(v) = n
      /\ \A i, j \in 1..n : v[i] = v[j] => i = j
      /\ \A q \in S : \E i \in 1..n : v[i] = q
  BY Enumerations DEF AreQuotes
<1> HIDE DEF n
<1>2. DOMAIN v = 1..n
  BY <1>1
<1>3. (\A i \in 1..n : Evaluation!Verifies(v[i], t)) <=> \A q \in S : Evaluation!Verifies(q, t)
  BY <1>1
<1>4. (\A i, j \in 1..n : i # j => v[i].payload.candidate # v[j].payload.candidate)
        <=> Different(S)
  BY <1>1 DEF Different
<1>5. Evaluation!Acceptable(m, v, t) <=>
        /\ Evaluation!Len(v) <= MaxCandidates /\ t > 0 /\ t >= m.createdAt
        /\ \A i \in DOMAIN v : Evaluation!Verifies(v[i], t)
        /\ \A i, j \in DOMAIN v : i # j => v[i].payload.candidate # v[j].payload.candidate
  BY DEF Evaluation!Acceptable
<1>6. AcceptableSet(m, S, t) <=>
        /\ n <= MaxCandidates /\ t > 0 /\ t >= m.createdAt
        /\ \A q \in S : Evaluation!Verifies(q, t)
        /\ Different(S)
  BY DEF AcceptableSet, n
<1> QED
  BY <1>1, <1>2, <1>3, <1>4, <1>5, <1>6

DecisionsOf(S, m, t) ==
    [k \in 1..Cardinality(S) |-> Evaluation!Decision(m, At(Smaller(S), k), t)]

LEMMA ResultsOfTheSet ==
  ASSUME NEW S, AreQuotes(S), Different(S), NEW v \in Evaluation!SetToSeqs(S), NEW m, NEW t
  PROVE  Evaluation!Decisions(m, v, t) = DecisionsOf(S, m, t)
<1> DEFINE n == Cardinality(S)
           B == ByCandidate(n, v)
<1>1. n \in Nat /\ v \in [1..n -> S]
  BY Enumerations DEF AreQuotes
<1>2. \A k \in 1..n : v[At(B, k)] = At(Smaller(S), k)
  BY PlacesAreOfTheSet
<1> HIDE DEF n
<1>3. DOMAIN v = 1..n /\ \A i \in 1..n : v[i].payload.candidate \in Nat
  BY <1>1 DEF AreQuotes
<1>4. Evaluation!Decisions(m, v, t) =
        [k \in 1..n |-> Evaluation!Decision(m, v[At(B, k)], t)]
  BY <1>1, <1>3, DecisionsAreSorted
<1> HIDE DEF B
<1>5. Evaluation!Decisions(m, v, t) =
        [k \in 1..n |-> Evaluation!Decision(m, At(Smaller(S), k), t)]
  BY <1>2, <1>4
<1> QED
  BY <1>5 DEF n, DecisionsOf

LEMMA OrderIsIrrelevant == EvaluationInv => Evaluation!OrderDoesNotMatter
<1> DEFINE now_ == Evaluation!Evaluated
<1> SUFFICES ASSUME EvaluationInv, NEW S \in SUBSET issued,
                    NEW v \in Evaluation!SetToSeqs(S), NEW w \in Evaluation!SetToSeqs(S)
             PROVE  /\ Evaluation!Acceptable(mandate, v, now_)
                         <=> Evaluation!Acceptable(mandate, w, now_)
                    /\ Evaluation!Acceptable(mandate, v, now_) =>
                         Evaluation!Result(mandate, v, now_) = Evaluation!Result(mandate, w, now_)
  BY DEF Evaluation!OrderDoesNotMatter
<1>1. AreQuotes(S)
  <2>1. IsFiniteSet(S)
    BY FS_Subset DEF EvaluationInv, IssuedAreAttested
  <2>2. \A q \in S : q.payload.candidate \in Nat
    BY EvaluationAssumption DEF EvaluationInv, IssuedAreAttested, Attested, IsQuote,
       Evaluation!EvaluationAssumption
  <2> QED
    BY <2>1, <2>2 DEF AreQuotes
<1> HIDE DEF now_
<1>2. /\ Evaluation!Acceptable(mandate, v, now_) <=> AcceptableSet(mandate, S, now_)
      /\ Evaluation!Acceptable(mandate, w, now_) <=> AcceptableSet(mandate, S, now_)
  BY <1>1, AcceptableAsASet
<1>3. ASSUME Evaluation!Acceptable(mandate, v, now_)
      PROVE  Evaluation!Result(mandate, v, now_) = Evaluation!Result(mandate, w, now_)
  <2>1. Different(S)
    BY <1>2, <1>3 DEF AcceptableSet
  <2>2. Evaluation!Decisions(mandate, v, now_) = Evaluation!Decisions(mandate, w, now_)
    BY <1>1, <2>1, ResultsOfTheSet
  <2> QED
    BY <2>2 DEF Evaluation!Result
<1> QED
  BY <1>2, <1>3 DEF now_

-----------------------------------------------------------------------------
(* Comparisons.                                                            *)

\* A list, of whatever it holds.
IsList(s) == s \in Seq({s[j] : j \in DOMAIN s})

LEMMA ListParts ==
  ASSUME NEW s, IsList(s)
  PROVE  Len(s) \in Nat /\ DOMAIN s = 1..Len(s) /\ (s # <<>> => Len(s) > 0)
  BY DEF IsList

Extends(t, s, x) ==
    /\ IsList(t) /\ Len(t) = Len(s) + 1
    /\ t[Len(s) + 1] = x /\ \A j \in 1..Len(s) : t[j] = s[j]

LEMMA AppendedAt ==
  ASSUME NEW s, IsList(s), NEW x, NEW t, t = Append(s, x)
  PROVE  Extends(t, s, x)
<1> DEFINE B == {s[j] : j \in DOMAIN s} \cup {x}
<1>1. s \in Seq(B) /\ x \in B
  BY DEF IsList
<1> HIDE DEF B
<1>2. t \in Seq(B) /\ Len(t) = Len(s) + 1 /\ Len(s) \in Nat
  BY <1>1
<1>3. t[Len(s) + 1] = x /\ \A j \in 1..Len(s) : t[j] = s[j]
  BY <1>1
<1> DEFINE C == {t[j] : j \in DOMAIN t}
<1>4. DOMAIN t = 1..Len(t) /\ Len(t) \in Nat
  BY <1>2
<1>5. \A j \in 1..Len(t) : t[j] \in C
  BY <1>4
<1> HIDE DEF C
<1>6. t \in Seq(C)
  BY <1>2, <1>4, <1>5
<1> QED
  BY <1>2, <1>3, <1>6 DEF IsList, C, Extends

LEMMA FaultsAre ==
  ASSUME NEW m, NEW wires, NEW t
  PROVE  Evaluation!Fault(m, wires, t) = None <=> Evaluation!Acceptable(m, wires, t)
  BY NoneAssumption DEF Evaluation!Fault

\* A request, of what is issued.
Submitted(wires) == \E n \in Nat : wires \in [1..n -> issued]

LEMMA SubmittedParts ==
  ASSUME NEW wires, Submitted(wires)
  PROVE  /\ Len(wires) \in Nat /\ DOMAIN wires = 1..Len(wires)
         /\ \A i \in 1..Len(wires) : wires[i] \in issued
  BY DEF Submitted

\* The places where a candidate comes first.
FirstAt(wires) ==
    {i \in 1..Len(wires) : \A j \in 1..(i - 1) :
        wires[j].payload.candidate # wires[i].payload.candidate}
Before(T) == [i \in T |-> {j \in T : j < i}]

LEMMA BeforeOrders ==
  ASSUME NEW n \in Nat, NEW T \in SUBSET (1..n)
  PROVE  /\ Orders(Before(T), T)
         /\ \A i \in T : Cardinality({j \in 1..i : j \in T}) = Cardinality(Before(T)[i]) + 1
<1>1. IsFiniteSet(T)
  <2>1. IsFiniteSet(1..n)
    BY FS_Interval
  <2> QED
    BY <2>1, FS_Subset
<1>2. /\ Before(T) \in [T -> SUBSET T]
      /\ \A i, j \in T : j \in Before(T)[i] <=> j < i
  BY DEF Before
<1>3. \A i \in T : i \in Int
  OBVIOUS
<1> DEFINE below == Before(T)
<1> HIDE DEF below
<1>4. ASSUME NEW i \in T, NEW j \in below[i], NEW k \in below[j] PROVE k \in below[i]
  <2>1. j \in T /\ k \in T
    BY <1>2, <1>4 DEF below
  <2>2. k < j /\ j < i
    BY <1>2, <1>4, <2>1 DEF below
  <2>3. k < i
    BY <1>3, <2>1, <2>2
  <2> QED
    BY <1>2, <2>1, <2>3 DEF below
<1>5. \A i \in T : i \notin below[i]
  BY <1>2, <1>3 DEF below
<1>6. \A i, j \in T : i = j \/ i \in below[j] \/ j \in below[i]
  BY <1>2, <1>3 DEF below
<1>7. Orders(below, T)
  BY <1>1, <1>2, <1>4, <1>5, <1>6 DEF Orders, below
<1>8. ASSUME NEW i \in T
      PROVE  Cardinality({j \in 1..i : j \in T}) = Cardinality(below[i]) + 1
  <2>1. {j \in 1..i : j \in T} = below[i] \cup {i}
    <3>1. \A j \in T : j \in below[i] <=> j < i
      BY <1>2 DEF below
    <3>2. below[i] \subseteq T
      BY <1>2 DEF below
    <3>3. ASSUME NEW j \in 1..n
          PROVE  j \in T /\ j \in 1..i <=> j \in below[i] \cup {i}
      BY <1>3, <3>1, <3>2
    <3> QED
      BY <3>2, <3>3
  <2>2. IsFiniteSet(below[i]) /\ i \notin below[i]
    BY <1>1, <1>2, <1>5, FS_Subset DEF below
  <2> QED
    BY <2>1, <2>2, FS_AddElement
<1> QED
  BY <1>7, <1>8 DEF below

\* What the interface posts: every candidate once, where it comes first.
OncePerCandidate(wires, set) ==
    /\ IsList(set) /\ Len(set) = Cardinality(FirstAt(wires))
    /\ \A k \in 1..Len(set) : set[k] = wires[At(Before(FirstAt(wires)), k)]

LEMMA ComparisonSetIs ==
  ASSUME NEW wires, Submitted(wires)
  PROVE  OncePerCandidate(wires, Evaluation!ComparisonSet(wires))
<1> DEFINE n == Len(wires)
           F == FirstAt(wires)
           below == Before(F)
           set == Evaluation!ComparisonSet(wires)
           first(i) == \A j \in 1..(i - 1) :
                         wires[j].payload.candidate # wires[i].payload.candidate
           P(i, k) == first(i) /\ Evaluation!Cardinality({j \in 1..i : first(j)}) = k
           c(k) == CHOOSE i \in DOMAIN wires : P(i, k)
<1>1. n \in Nat /\ DOMAIN wires = 1..n /\ F \in SUBSET (1..n)
  BY SubmittedParts DEF FirstAt
<1>2. /\ Orders(below, F)
      /\ \A i \in F : Cardinality({j \in 1..i : j \in F}) = Cardinality(below[i]) + 1
  BY <1>1, BeforeOrders
<1>3. \A i \in 1..n : first(i) <=> i \in F
  BY <1>1 DEF FirstAt
<1>4. set = [k \in 1..Evaluation!Cardinality({i \in DOMAIN wires : first(i)}) |-> wires[c(k)]]
  BY DEF Evaluation!ComparisonSet
<1> HIDE DEF first
<1>5. {i \in DOMAIN wires : first(i)} = F
  BY <1>1, <1>3
<1>6. \A i \in 1..n : {j \in 1..i : first(j)} = {j \in 1..i : j \in F}
  BY <1>1, <1>3
<1>7. \A i \in 1..n : \A k : P(i, k) <=> i \in F /\ Cardinality({j \in 1..i : j \in F}) = k
  BY <1>3, <1>6, SameCardinality
<1>8. set = [k \in 1..Cardinality(F) |-> wires[c(k)]]
  BY <1>4, <1>5, SameCardinality
<1> HIDE DEF F, P
<1>9. Cardinality(F) \in Nat
  BY <1>2, RanksAreTaken
<1>10. ASSUME NEW k \in 1..Cardinality(F) PROVE c(k) = At(below, k)
  <2>1. At(below, k) \in F /\ Cardinality(below[At(below, k)]) = k - 1
    BY <1>2, AtIsBijective
  <2>2. Cardinality(below[At(below, k)]) + 1 = k
    BY <1>9, <2>1
  <2>3. At(below, k) \in DOMAIN wires /\ P(At(below, k), k)
    BY <1>1, <1>2, <1>7, <2>1, <2>2
  <2>4. c(k) \in DOMAIN wires /\ P(c(k), k)
    BY <2>3
  <2> HIDE DEF c
  <2>5. c(k) \in F /\ Cardinality({j \in 1..c(k) : j \in F}) = k
    BY <1>1, <1>7, <2>4
  <2>6. Cardinality(below[c(k)]) + 1 = k /\ Cardinality(below[c(k)]) \in Nat
    BY <1>2, <1>9, <2>5, RanksAreTaken
  <2>7. Cardinality(below[c(k)]) = Cardinality(below[At(below, k)])
    BY <2>1, <2>6
  <2> QED
    BY <1>2, <2>1, <2>5, <2>7, RanksAreTaken
<1> HIDE DEF c, below, set
<1>11. set = [k \in 1..Cardinality(F) |-> wires[At(below, k)]]
  BY <1>8, <1>10
<1>12. IsList(set) /\ Len(set) = Cardinality(F)
        /\ \A k \in 1..Cardinality(F) : set[k] = wires[At(below, k)]
  BY <1>9, <1>11 DEF IsList
<1> QED
  BY <1>12 DEF OncePerCandidate, F, below, set

LEMMA OneOfEach ==
  ASSUME NEW wires, Submitted(wires), NEW set, OncePerCandidate(wires, set)
  PROVE  /\ Submitted(set) /\ DOMAIN set = 1..Len(set)
         /\ \A i, j \in 1..Len(set) :
              i # j => set[i].payload.candidate # set[j].payload.candidate
         /\ \A k \in 1..Len(set) : \E i \in 1..Len(wires) : set[k] = wires[i]
         /\ \A i \in 1..Len(wires) : \E k \in 1..Len(set) :
              set[k].payload.candidate = wires[i].payload.candidate
<1> DEFINE n == Len(wires)
           F == FirstAt(wires)
           below == Before(F)
           m == Len(set)
<1>1. /\ n \in Nat /\ F \in SUBSET (1..n) /\ \A i \in 1..n : wires[i] \in issued
      /\ \A i, j \in F : j < i => wires[j].payload.candidate # wires[i].payload.candidate
  BY SubmittedParts DEF FirstAt
<1>2. Orders(below, F)
  BY <1>1, BeforeOrders
<1>3. m \in Nat /\ DOMAIN set = 1..m /\ set \in Seq({set[j] : j \in DOMAIN set})
  BY ListParts DEF OncePerCandidate, IsList
<1>4. m = Cardinality(F) /\ \A k \in 1..m : set[k] = wires[At(below, k)]
  BY DEF OncePerCandidate
<1> HIDE DEF m
<1>5. /\ \A k \in 1..m : At(below, k) \in F
      /\ \A k, l \in 1..m : At(below, k) = At(below, l) => k = l
      /\ \A i \in F : \E k \in 1..m : At(below, k) = i
  BY <1>2, <1>4, AtIsBijective
<1>6. ASSUME NEW i \in 1..n PROVE \E j \in F : wires[j].payload.candidate = wires[i].payload.candidate
  <2> DEFINE T == {j \in 1..n : wires[j].payload.candidate = wires[i].payload.candidate}
  <2>1. T \in SUBSET (1..n) /\ i \in T
    OBVIOUS
  <2>2. Orders(Before(T), T)
    BY <1>1, <2>1, BeforeOrders
  <2>3. T # {}
    BY <2>1
  <2>4. PICK j \in T : Before(T)[j] = {}
    BY <2>2, <2>3, LowestIsThere
  <2>5. j \in 1..n /\ wires[j].payload.candidate = wires[i].payload.candidate
    OBVIOUS
  <2>6. \A k \in T : ~(k < j)
    BY <2>4 DEF Before
  <2>7. \A k \in 1..(j - 1) : k \in 1..n /\ k < j
    BY <1>1, <2>5
  <2>8. \A k \in 1..(j - 1) : wires[k].payload.candidate # wires[j].payload.candidate
    BY <2>5, <2>6, <2>7
  <2> HIDE DEF T
  <2>9. j \in F
    BY <2>5, <2>8 DEF FirstAt
  <2> QED
    BY <2>5, <2>9
<1> HIDE DEF F, n, below
<1>7. ASSUME NEW i \in 1..m, NEW j \in 1..m, i # j
      PROVE  set[i].payload.candidate # set[j].payload.candidate
  <2> DEFINE x == At(below, i)  y == At(below, j)
  <2>1. x \in F /\ y \in F /\ x # y /\ set[i] = wires[x] /\ set[j] = wires[y]
    BY <1>4, <1>5, <1>7
  <2> HIDE DEF x, y
  <2>2. x \in Int /\ y \in Int
    BY <1>1, <2>1
  <2>3. x < y \/ y < x
    BY <2>1, <2>2
  <2> QED
    BY <1>1, <2>1, <2>3
<1>8. \A k \in 1..m : \E i \in 1..n : set[k] = wires[i]
  BY <1>1, <1>4, <1>5
<1>9. \A i \in 1..n : \E k \in 1..m : set[k].payload.candidate = wires[i].payload.candidate
  BY <1>4, <1>5, <1>6
<1>10. Submitted(set)
  <2>1. \A k \in 1..m : set[k] \in issued
    BY <1>1, <1>8
  <2>2. set \in [1..m -> issued]
    BY <1>3, <2>1
  <2> QED
    BY <1>3, <2>2 DEF Submitted
<1> QED
  BY <1>3, <1>7, <1>8, <1>9, <1>10 DEF m, n

\* What the interface posts is legal, whatever was issued.
LEMMA SetsAreLegal == Evaluation!ComparisonSetIsLegal
<1> SUFFICES ASSUME NEW wires \in Evaluation!Submissions
             PROVE  LET set == Evaluation!ComparisonSet(wires)
                    IN  /\ \A i, j \in DOMAIN set :
                            i # j => set[i].payload.candidate # set[j].payload.candidate
                        /\ {set[i].payload.candidate : i \in DOMAIN set}
                            = {wires[i].payload.candidate : i \in DOMAIN wires}
  BY DEF Evaluation!ComparisonSetIsLegal
<1> DEFINE set == Evaluation!ComparisonSet(wires)
<1>1. Submitted(wires)
  BY EvaluationAssumption DEF Evaluation!Submissions, Submitted, Evaluation!ComparisonAssumption
<1>2. OncePerCandidate(wires, set)
  BY <1>1, ComparisonSetIs
<1> HIDE DEF set
<1>3. DOMAIN wires = 1..Len(wires)
  BY <1>1, SubmittedParts
<1>4. /\ DOMAIN set = 1..Len(set)
      /\ \A i, j \in 1..Len(set) :
           i # j => set[i].payload.candidate # set[j].payload.candidate
      /\ \A k \in 1..Len(set) : \E i \in 1..Len(wires) : set[k] = wires[i]
      /\ \A i \in 1..Len(wires) : \E k \in 1..Len(set) :
           set[k].payload.candidate = wires[i].payload.candidate
  BY <1>1, <1>2, OneOfEach
<1>5. {set[i].payload.candidate : i \in DOMAIN set}
        = {wires[i].payload.candidate : i \in DOMAIN wires}
  <2>1. ASSUME NEW k \in DOMAIN set
        PROVE  set[k].payload.candidate \in {wires[i].payload.candidate : i \in DOMAIN wires}
    <3>1. PICK i \in DOMAIN wires : set[k] = wires[i]
      BY <1>3, <1>4, Zenon
    <3> QED
      BY <3>1
  <2>2. ASSUME NEW i \in DOMAIN wires
        PROVE  wires[i].payload.candidate \in {set[k].payload.candidate : k \in DOMAIN set}
    <3>1. PICK k \in DOMAIN set : set[k].payload.candidate = wires[i].payload.candidate
      BY <1>3, <1>4, Zenon
    <3> QED
      BY <3>1
  <2> QED
    BY <2>1, <2>2
<1>6. \A i, j \in DOMAIN set :
        i # j => set[i].payload.candidate # set[j].payload.candidate
  BY <1>4
<1> QED
  BY <1>5, <1>6, Zenon DEF set

\* A view of a result shows each attestation once.
OfQuotes(n, wires) == n \in Nat /\ DOMAIN wires = 1..n /\ \A i \in 1..n : IsQuote(wires[i])
Shows(view, n, wires, t, rejected) ==
    /\ view.at = t /\ view.unverified = rejected
    /\ DOMAIN view.candidates = 1..n /\ Len(view.candidates) = n
    /\ \A k \in 1..n : \E i \in 1..n : view.candidates[k].quote = wires[i]
    /\ \A i \in 1..n : \E k \in 1..n : view.candidates[k].quote = wires[i]

AreDecisions(n, decisions) ==
    /\ n \in Nat /\ DOMAIN decisions = 1..n
    /\ \A i \in 1..n : decisions[i].candidate \in Candidates /\ decisions[i].total \in Nat
ViewedIn(n, decisions, candidates) ==
    /\ DOMAIN candidates = 1..n /\ Len(candidates) = n
    /\ \A k \in 1..n : \E l \in 1..n : candidates[k] = decisions[l]
    /\ \A l \in 1..n : \E k \in 1..n : candidates[k] = decisions[l]

LEMMA ViewsAreOfTheResult ==
  ASSUME NEW n, NEW result, NEW rejected, AreDecisions(n, result.decisions)
  PROVE  ViewedIn(n, result.decisions, Evaluation!View(result, rejected).candidates)
<1> DEFINE decisions == result.decisions
           candidates == Evaluation!View(result, rejected).candidates
           below == Stable(n, AboveAt(decisions))
<1>1. n \in Nat
  BY DEF AreDecisions
<1>2. /\ Orders(below, 1..n) /\ Cardinality(1..n) = n
      /\ candidates = [k \in 1..n |-> decisions[At(below, k)]]
  BY ViewsAreSorted DEF AreDecisions
<1> HIDE DEF decisions, candidates, below
<1>3. \A k \in 1..Cardinality(1..n) : At(below, k) \in 1..n
  BY <1>2, AtIsBijective, Zenon
<1>4. \A i \in 1..n : /\ Cardinality(below[i]) + 1 \in 1..Cardinality(1..n)
                      /\ At(below, Cardinality(below[i]) + 1) = i
  BY <1>2, AtIsBijective, Zenon
<1>5. DOMAIN candidates = 1..n /\ Len(candidates) = n
       /\ \A k \in 1..n : candidates[k] = decisions[At(below, k)]
  BY <1>1, <1>2
<1>6. \A k \in 1..n : \E l \in 1..n : candidates[k] = decisions[l]
  BY <1>2, <1>3, <1>5, Zenon
<1>7. ASSUME NEW l \in 1..n PROVE \E k \in 1..n : candidates[k] = decisions[l]
  <2>1. PICK k \in 1..n : At(below, k) = l
    BY <1>2, <1>4, Zenon
  <2> QED
    BY <1>5, <2>1, Zenon
<1>8. ViewedIn(n, decisions, candidates)
  BY <1>5, <1>6, <1>7 DEF ViewedIn
<1> QED
  BY <1>8 DEF decisions, candidates

LEMMA ViewsShowAll ==
  ASSUME NEW n, NEW wires, OfQuotes(n, wires), NEW m \in Mandates, NEW t \in Int, NEW rejected
  PROVE  Shows(Evaluation!View(Evaluation!Result(m, wires, t), rejected), n, wires, t, rejected)
<1> DEFINE result == Evaluation!Result(m, wires, t)
           view == Evaluation!View(result, rejected)
           decisions == Evaluation!Decisions(m, wires, t)
<1>1. result.decisions = decisions /\ result.at = t
  BY DEF Evaluation!Result
<1>2. n \in Nat
  BY DEF OfQuotes
<1>3. OfCandidates(n, wires)
  BY EvaluationAssumption DEF OfQuotes, OfCandidates, IsQuote, Evaluation!EvaluationAssumption
<1>4. Decides(n, wires, m, t, decisions)
  BY <1>3, AllAreDecided
<1> HIDE DEF decisions, result
<1>5. /\ DOMAIN decisions = 1..n
      /\ \A k \in 1..n : \E i \in 1..n : decisions[k] = Evaluation!Decision(m, wires[i], t)
      /\ \A i \in 1..n : \E k \in 1..n : decisions[k] = Evaluation!Decision(m, wires[i], t)
  BY <1>4 DEF Decides
<1>6. ASSUME NEW i \in 1..n
      PROVE  LET d == Evaluation!Decision(m, wires[i], t)
             IN  d.quote = wires[i] /\ d.candidate \in Candidates /\ d.total \in Nat
  <2>1. IsQuote(wires[i])
    BY DEF OfQuotes
  <2> DEFINE q == wires[i]
  <2> HIDE DEF q
  <2>2. LET d == Evaluation!Decision(m, q, t)
        IN  d.quote = q /\ d.candidate = q.payload.candidate /\ d.total \in Sums
    BY <2>1, DecisionParts DEF q
  <2>3. q.payload.candidate \in Candidates
    BY <2>1 DEF IsQuote, q
  <2> QED
    BY <2>2, <2>3, SumParts DEF q
<1>7. ASSUME NEW k \in 1..n
      PROVE  /\ decisions[k].candidate \in Candidates /\ decisions[k].total \in Nat
             /\ \E i \in 1..n : decisions[k].quote = wires[i]
  <2>1. PICK i \in 1..n : decisions[k] = Evaluation!Decision(m, wires[i], t)
    BY <1>5, Zenon
  <2> QED
    BY <1>6, <2>1, Zenon
<1>8. ASSUME NEW i \in 1..n PROVE \E k \in 1..n : decisions[k].quote = wires[i]
  <2>1. PICK k \in 1..n : decisions[k] = Evaluation!Decision(m, wires[i], t)
    BY <1>5, Zenon
  <2> QED
    BY <1>6, <2>1, Zenon
<1>9. ViewedIn(n, decisions, view.candidates)
  <2>1. AreDecisions(n, result.decisions)
    BY <1>1, <1>2, <1>5, <1>7 DEF AreDecisions
  <2> QED
    BY <1>1, <2>1, ViewsAreOfTheResult
<1>10. view.at = t /\ view.unverified = rejected
  BY <1>1 DEF Evaluation!View
<1> HIDE DEF view
<1>11. DOMAIN view.candidates = 1..n /\ Len(view.candidates) = n
  BY <1>9 DEF ViewedIn
<1>12. ASSUME NEW k \in 1..n PROVE \E i \in 1..n : view.candidates[k].quote = wires[i]
  <2>1. PICK l \in 1..n : view.candidates[k] = decisions[l]
    BY <1>9, Zenon DEF ViewedIn
  <2>2. PICK i \in 1..n : decisions[l].quote = wires[i]
    BY <1>7, Zenon
  <2> QED
    BY <2>1, <2>2, Zenon
<1>13. ASSUME NEW i \in 1..n PROVE \E k \in 1..n : view.candidates[k].quote = wires[i]
  <2>1. PICK l \in 1..n : decisions[l].quote = wires[i]
    BY <1>8, Zenon
  <2>2. PICK k \in 1..n : view.candidates[k] = decisions[l]
    BY <1>9, Zenon DEF ViewedIn
  <2> QED
    BY <2>1, <2>2, Zenon
<1>14. Shows(view, n, wires, t, rejected)
  BY <1>10, <1>11, <1>12, <1>13 DEF Shows
<1> QED
  BY <1>14 DEF view, result

\* Where nothing was accepted nothing is shown.
LEMMA NothingIsShown ==
  ASSUME NEW rejected
  PROVE  /\ DOMAIN Evaluation!View(Evaluation!NoResult, rejected).candidates = {}
         /\ Len(Evaluation!View(Evaluation!NoResult, rejected).candidates) = 0
         /\ Evaluation!View(Evaluation!NoResult, rejected).unverified = rejected
<1>1. Evaluation!NoResult.decisions = <<>>
  BY DEF Evaluation!NoResult
<1> DEFINE view == Evaluation!View(Evaluation!NoResult, rejected)
<1>2. view.unverified = rejected
      /\ DOMAIN view.candidates = DOMAIN Evaluation!NoResult.decisions
      /\ \E f : view.candidates = [k \in DOMAIN Evaluation!NoResult.decisions |-> f[k]]
  <2> DEFINE c(k) == Evaluation!NoResult.decisions[
                       CHOOSE i \in DOMAIN Evaluation!NoResult.decisions :
                         Evaluation!Cardinality({j \in DOMAIN Evaluation!NoResult.decisions :
                           Evaluation!Above(Evaluation!NoResult.decisions[j],
                                            Evaluation!NoResult.decisions[i])
                           \/ (j < i /\ ~Evaluation!Above(Evaluation!NoResult.decisions[i],
                                                          Evaluation!NoResult.decisions[j]))})
                         = k - 1]
             f == [k \in DOMAIN Evaluation!NoResult.decisions |-> c(k)]
  <2>1. view.candidates = f /\ view.unverified = rejected
    BY DEF Evaluation!View, Evaluation!Sorted, Evaluation!Place
  <2> HIDE DEF c
  <2>2. f = [k \in DOMAIN Evaluation!NoResult.decisions |-> f[k]]
    OBVIOUS
  <2> HIDE DEF f, view
  <2> QED
    BY <2>1, <2>2
<1> HIDE DEF view
<1>3. DOMAIN view.candidates = {} /\ Len(view.candidates) = 0
  <2>1. DOMAIN Evaluation!NoResult.decisions = 1..0
    BY <1>1
  <2> QED
    BY <1>2, <2>1
<1> QED
  BY <1>2, <1>3 DEF view

\* The places asked about so far are parted in accepted and rejected ones.
Parted(a, r) ==
    /\ IsList(a) /\ IsList(r)
    /\ \A k \in 1..Len(a) : a[k] \in 1..(Len(a) + Len(r))
    /\ \A k \in 1..Len(r) : r[k].index \in 1..(Len(a) + Len(r))
    /\ \A i \in 1..(Len(a) + Len(r)) :
        (\E k \in 1..Len(a) : a[k] = i) \/ (\E k \in 1..Len(r) : r[k].index = i)
    /\ \A k \in 1..Len(a), l \in 1..Len(r) : a[k] # r[l].index
    /\ \A k, l \in 1..Len(a) : a[k] = a[l] => k = l

\* b has one place more than a.
OneMore(b, a, x) ==
    Len(b) = Len(a) + 1 /\ \A k \in 1..Len(b) : b[k] = x \/ \E l \in 1..Len(a) : b[k] = a[l]

LEMMA OneMoreAccepted ==
  ASSUME NEW a, NEW r, Parted(a, r), NEW b, b = Append(a, Len(a) + Len(r) + 1)
  PROVE  Parted(b, r) /\ OneMore(b, a, Len(a) + Len(r) + 1)
<1> DEFINE x == Len(a) + Len(r) + 1
<1>1. /\ IsList(a) /\ IsList(r) /\ Len(a) \in Nat /\ Len(r) \in Nat
      /\ \A k \in 1..Len(a) : a[k] \in 1..(Len(a) + Len(r))
      /\ \A k \in 1..Len(r) : r[k].index \in 1..(Len(a) + Len(r))
      /\ \A i \in 1..(Len(a) + Len(r)) :
          (\E k \in 1..Len(a) : a[k] = i) \/ (\E k \in 1..Len(r) : r[k].index = i)
      /\ \A k \in 1..Len(a), l \in 1..Len(r) : a[k] # r[l].index
      /\ \A k, l \in 1..Len(a) : a[k] = a[l] => k = l
  BY ListParts DEF Parted
<1>2. IsList(b) /\ Len(b) = Len(a) + 1 /\ b[Len(a) + 1] = x
      /\ \A j \in 1..Len(a) : b[j] = a[j]
  <2>1. Extends(b, a, x)
    BY <1>1, AppendedAt, Zenon
  <2> QED
    BY <2>1 DEF Extends
<1>3. \A k \in 1..Len(b) : k \in 1..Len(a) \/ k = Len(a) + 1
  BY <1>1, <1>2
<1>4. 1..(Len(b) + Len(r)) = 1..(Len(a) + Len(r)) \cup {x} /\ x \notin 1..(Len(a) + Len(r))
      /\ Len(a) + 1 \in 1..Len(b) /\ 1..Len(a) \subseteq 1..Len(b)
  BY <1>1, <1>2
<1> HIDE DEF x
<1>5. \A k \in 1..Len(b) : b[k] \in 1..(Len(b) + Len(r))
  BY <1>1, <1>2, <1>3, <1>4
<1>6. \A k \in 1..Len(r) : r[k].index \in 1..(Len(b) + Len(r))
  BY <1>1, <1>4
<1>7. ASSUME NEW i \in 1..(Len(b) + Len(r))
      PROVE  (\E k \in 1..Len(b) : b[k] = i) \/ (\E k \in 1..Len(r) : r[k].index = i)
  <2>1. CASE i = x
    BY <1>2, <1>4, <2>1
  <2>2. CASE i \in 1..(Len(a) + Len(r))
    BY <1>1, <1>2, <1>4, <2>2
  <2> QED
    BY <1>4, <2>1, <2>2
<1>8. \A k \in 1..Len(b), l \in 1..Len(r) : b[k] # r[l].index
  BY <1>1, <1>2, <1>3, <1>4
<1>9. ASSUME NEW k \in 1..Len(b), NEW l \in 1..Len(b), b[k] = b[l] PROVE k = l
  BY <1>1, <1>2, <1>3, <1>4, <1>9
<1>10. \A k \in 1..Len(b) : b[k] = x \/ \E l \in 1..Len(a) : b[k] = a[l]
  BY <1>2, <1>3
<1> QED
  BY <1>1, <1>2, <1>5, <1>6, <1>7, <1>8, <1>9, <1>10 DEF Parted, OneMore, x

LEMMA OneMoreRejected ==
  ASSUME NEW a, NEW r, Parted(a, r), NEW e, e.index = Len(a) + Len(r) + 1,
         NEW s, s = Append(r, e)
  PROVE  Parted(a, s) /\ Len(s) = Len(r) + 1
<1> DEFINE x == Len(a) + Len(r) + 1
<1>1. /\ IsList(a) /\ IsList(r) /\ Len(a) \in Nat /\ Len(r) \in Nat
      /\ \A k \in 1..Len(a) : a[k] \in 1..(Len(a) + Len(r))
      /\ \A k \in 1..Len(r) : r[k].index \in 1..(Len(a) + Len(r))
      /\ \A i \in 1..(Len(a) + Len(r)) :
          (\E k \in 1..Len(a) : a[k] = i) \/ (\E k \in 1..Len(r) : r[k].index = i)
      /\ \A k \in 1..Len(a), l \in 1..Len(r) : a[k] # r[l].index
      /\ \A k, l \in 1..Len(a) : a[k] = a[l] => k = l
  BY ListParts DEF Parted
<1>2. IsList(s) /\ Len(s) = Len(r) + 1 /\ s[Len(r) + 1] = e
      /\ \A j \in 1..Len(r) : s[j] = r[j]
  <2>1. Extends(s, r, e)
    BY <1>1, AppendedAt, Zenon
  <2> QED
    BY <2>1 DEF Extends
<1>3. \A k \in 1..Len(s) : k \in 1..Len(r) \/ k = Len(r) + 1
  BY <1>1, <1>2
<1>4. 1..(Len(a) + Len(s)) = 1..(Len(a) + Len(r)) \cup {x} /\ x \notin 1..(Len(a) + Len(r))
      /\ Len(r) + 1 \in 1..Len(s) /\ 1..Len(r) \subseteq 1..Len(s) /\ e.index = x
  BY <1>1, <1>2
<1> HIDE DEF x
<1>5. \A k \in 1..Len(a) : a[k] \in 1..(Len(a) + Len(s))
  BY <1>1, <1>4
<1>6. ASSUME NEW k \in 1..Len(s) PROVE s[k].index \in 1..(Len(a) + Len(s))
  BY <1>1, <1>2, <1>3, <1>4
<1>7. ASSUME NEW i \in 1..(Len(a) + Len(s))
      PROVE  (\E k \in 1..Len(a) : a[k] = i) \/ (\E k \in 1..Len(s) : s[k].index = i)
  <2>1. CASE i = x
    BY <1>2, <1>4, <2>1
  <2>2. CASE i \in 1..(Len(a) + Len(r))
    BY <1>1, <1>2, <1>4, <2>2
  <2> QED
    BY <1>4, <2>1, <2>2
<1>8. ASSUME NEW k \in 1..Len(a), NEW l \in 1..Len(s) PROVE a[k] # s[l].index
  BY <1>1, <1>2, <1>3, <1>4
<1> QED
  BY <1>1, <1>2, <1>5, <1>6, <1>7, <1>8 DEF Parted

\* Nobody was asked about yet.
LEMMA NobodyAsked ==
  Parted(<<>>, <<>>) /\ Len(<<>>) = 0
<1>1. Len(<<>>) = 0 /\ IsList(<<>>)
  BY DEF IsList
<1>2. 1..(Len(<<>>) + Len(<<>>)) = {} /\ 1..Len(<<>>) = {}
  BY <1>1
<1> QED
  BY <1>1, <1>2 DEF Parted

\* When all were asked about, those not refused are those accepted.
LEMMA AllAreParted ==
  ASSUME NEW a, NEW r, Parted(a, r)
  PROVE  /\ DOMAIN a = 1..Len(a) /\ DOMAIN r = 1..Len(r) /\ Len(a) \in Nat /\ Len(r) \in Nat
         /\ (a # <<>> => Len(a) > 0)
         /\ (1..(Len(a) + Len(r))) \ {r[k].index : k \in DOMAIN r} = {a[k] : k \in DOMAIN a}
<1>1. DOMAIN a = 1..Len(a) /\ DOMAIN r = 1..Len(r) /\ Len(a) \in Nat /\ Len(r) \in Nat
      /\ (a # <<>> => Len(a) > 0)
  BY ListParts DEF Parted
<1> DEFINE n == Len(a) + Len(r)
           R == {r[k].index : k \in DOMAIN r}
           A == {a[k] : k \in DOMAIN a}
<1>2. A \subseteq 1..n
  BY <1>1 DEF Parted
<1>3. A \cap R = {}
  BY <1>1 DEF Parted
<1>4. 1..n \subseteq A \cup R
  BY <1>1 DEF Parted
<1> HIDE DEF n, A, R
<1>5. (1..n) \ R = A
  BY <1>2, <1>3, <1>4
<1> QED
  BY <1>1, <1>5 DEF n, A, R

-----------------------------------------------------------------------------
(* One comparison.                                                         *)

Asked(c) ==
    /\ c = [wires |-> c.wires, began |-> c.began,
            accepted |-> c.accepted, rejected |-> c.rejected]
    /\ Submitted(c.wires) /\ Parted(c.accepted, c.rejected)
    /\ Len(c.accepted) + Len(c.rejected) <= Len(c.wires)
    /\ c.began \in Int /\ c.began <= Evaluation!Evaluated
    /\ c.began = Evaluation!Evaluated =>
        \A k \in 1..Len(c.accepted) :
            Evaluation!Acceptable(mandate, <<c.wires[c.accepted[k]]>>, Evaluation!Evaluated)

AnswerIsFair ==
    /\ Evaluation!EveryAttestationIsAccounted
    /\ Evaluation!ShownIsVerified
    /\ Evaluation!OneBadSparesTheRest

ComparisonInv ==
    /\ EvaluationInv
    /\ call # None => Asked(call)
    /\ answer = None \/ call = None
    /\ AnswerIsFair

LEMMA NoAnswerIsFair ==
  answer = None => AnswerIsFair
BY DEF AnswerIsFair, Evaluation!EveryAttestationIsAccounted, Evaluation!ShownIsVerified,
       Evaluation!OneBadSparesTheRest, Evaluation!Answered

LEMMA ComparisonStarts ==
  Evaluation!ComparisonInit => ComparisonInv
BY EvaluationStarts, NoAnswerIsFair DEF Evaluation!ComparisonInit, ComparisonInv

LEMMA KeptEvaluation ==
  ASSUME EvaluationInv, UNCHANGED <<time, drift, mandate, issued, results>>
  PROVE  EvaluationInv' /\ Evaluation!Evaluated' = Evaluation!Evaluated
BY DEF EvaluationInv, ClocksAreRead, IssuedAreAttested, Attested, ResultsAreJudged, Judged,
       Evaluation!Evaluated

\* Seconds pass between the passes, and attestations are issued before a call.
LEMMA ElsewhereStep ==
  ASSUME ComparisonInv,
         NEW candidates \in SUBSET Candidates, NEW lags \in SUBSET Lags,
         NEW leads \in SUBSET Leads, NEW offers \in SUBSET Offers, NEW keys,
         NEW payloads \in SUBSET Evaluation!PayloadsOf(candidates, lags, leads, offers),
         Evaluation!Elsewhere(payloads, keys)
  PROVE  ComparisonInv'
<1>1. answer = None /\ answer' = None /\ call' = call
  BY DEF Evaluation!Elsewhere
<1>2. AnswerIsFair'
  BY <1>1 DEF AnswerIsFair, Evaluation!EveryAttestationIsAccounted, Evaluation!ShownIsVerified,
              Evaluation!OneBadSparesTheRest, Evaluation!Answered
<1>3. CASE Evaluation!Tick
  <2>1. EvaluationInv'
    BY <1>3, TickStep DEF ComparisonInv
  <2>2. /\ Evaluation!Evaluated \in Int /\ Evaluation!Evaluated' = Evaluation!Evaluated + 1
        /\ issued' = issued
    <3>1. Evaluation!Evaluated = time + drift /\ time \in Nat /\ drift \in Int
      BY ClockParts DEF ComparisonInv, EvaluationInv
    <3>2. time' = time + 1 /\ drift' = drift /\ issued' = issued
      BY <1>3 DEF Evaluation!Tick
    <3> QED
      BY <3>1, <3>2 DEF Evaluation!Evaluated
  <2>3. ASSUME call # None PROVE Asked(call)'
    <3>1. Asked(call)
      BY <2>3 DEF ComparisonInv
    <3>2. /\ call = [wires |-> call.wires, began |-> call.began,
                     accepted |-> call.accepted, rejected |-> call.rejected]
          /\ Submitted(call.wires) /\ Parted(call.accepted, call.rejected)
          /\ Len(call.accepted) + Len(call.rejected) <= Len(call.wires)
          /\ call.began \in Int /\ call.began <= Evaluation!Evaluated
      BY <3>1 DEF Asked
    <3>3. call.began < Evaluation!Evaluated'
      BY <2>2, <3>2
    <3>4. Submitted(call.wires)'
      BY <1>1, <2>2, <3>2 DEF Submitted
    <3>5. call.began <= Evaluation!Evaluated' /\ call.began # Evaluation!Evaluated'
      BY <2>2, <3>2, <3>3
    <3> QED
      BY <1>1, <3>2, <3>4, <3>5 DEF Asked, Parted, IsList
  <2> QED
    BY <1>1, <1>2, <2>1, <2>3 DEF ComparisonInv
<1>4. CASE call = None /\ Evaluation!Issues(payloads, keys)
  <2>1. Evaluation!Issues(Evaluation!PayloadsOf(candidates, lags, leads, offers), keys)
    BY <1>4 DEF Evaluation!Issues
  <2>2. EvaluationInv'
    BY <2>1, IssueStep DEF ComparisonInv
  <2> QED
    BY <1>1, <1>2, <1>4, <2>2 DEF ComparisonInv
<1> QED
  BY <1>3, <1>4 DEF Evaluation!Elsewhere

\* A request that is not one, or of no mandate, is answered at once; any other is called.
LEMMA PostStep ==
  ASSUME ComparisonInv, NEW request, NEW wires, Submitted(wires),
         Evaluation!Post(request, wires)
  PROVE  ComparisonInv'
<1>1. call = None /\ answer = None
  BY DEF Evaluation!Post
<1>2. \/ Evaluation!Respond(400, Evaluation!Problem("REQUEST_INVALID", "the body"), wires,
                            Evaluation!Evaluated)
      \/ Evaluation!Respond(422, Evaluation!Problem("MANDATE_INVALID", "the mandate"), wires,
                            Evaluation!Evaluated)
      \/ /\ call' = [wires |-> wires, began |-> Evaluation!Evaluated,
                     accepted |-> <<>>, rejected |-> <<>>]
         /\ UNCHANGED <<Evaluation!vars, answer>>
  BY DEF Evaluation!Post
<1>3. ASSUME NEW status, status # 200, NEW body,
             status # 422 \/ body = Evaluation!Problem("MANDATE_INVALID", "the mandate"),
             Evaluation!Respond(status, body, wires, Evaluation!Evaluated)
      PROVE  ComparisonInv'
  <2>1. call' = None /\ UNCHANGED <<time, drift, mandate, issued, results>>
        /\ answer'.status = status /\ answer'.body = body
    BY <1>3 DEF Evaluation!Respond, Evaluation!vars
  <2>2. AnswerIsFair'
    BY <1>3, <2>1 DEF AnswerIsFair, Evaluation!EveryAttestationIsAccounted,
          Evaluation!ShownIsVerified, Evaluation!OneBadSparesTheRest, Evaluation!Answered,
          Evaluation!Problem
  <2>3. EvaluationInv'
    BY <2>1, KeptEvaluation DEF ComparisonInv
  <2> QED
    BY <2>1, <2>2, <2>3 DEF ComparisonInv
<1>4. CASE /\ call' = [wires |-> wires, began |-> Evaluation!Evaluated,
                       accepted |-> <<>>, rejected |-> <<>>]
           /\ UNCHANGED <<Evaluation!vars, answer>>
  <2>1. UNCHANGED <<time, drift, mandate, issued, results>> /\ answer' = None
    BY <1>1, <1>4 DEF Evaluation!vars
  <2>2. EvaluationInv' /\ Evaluation!Evaluated' = Evaluation!Evaluated
    BY <2>1, KeptEvaluation DEF ComparisonInv
  <2>3. Evaluation!Evaluated \in Int
    BY ClockParts DEF ComparisonInv, EvaluationInv
  <2>4. Submitted(wires)'
    BY <2>1 DEF Submitted
  <2>5. Parted(<<>>, <<>>) /\ Len(<<>>) = 0 /\ Len(wires) \in Nat /\ 1..0 = {}
    BY NobodyAsked, SubmittedParts
  <2>6. Asked(call)'
    BY <1>4, <2>2, <2>3, <2>4, <2>5 DEF Asked, Parted, IsList
  <2>7. AnswerIsFair'
    BY <2>1 DEF AnswerIsFair, Evaluation!EveryAttestationIsAccounted,
          Evaluation!ShownIsVerified, Evaluation!OneBadSparesTheRest, Evaluation!Answered
  <2> QED
    BY <2>1, <2>2, <2>6, <2>7 DEF ComparisonInv
<1>5. 400 # 200 /\ 422 # 200 /\ 400 # 422
  OBVIOUS
<1> DEFINE unread == Evaluation!Problem("REQUEST_INVALID", "the body")
           malformed == Evaluation!Problem("MANDATE_INVALID", "the mandate")
<1>6. CASE Evaluation!Respond(400, unread, wires, Evaluation!Evaluated)
  <2> DEFINE code == 400
  <2>1. code # 200 /\ code # 422 /\ Evaluation!Respond(code, unread, wires, Evaluation!Evaluated)
    BY <1>5, <1>6, Zenon
  <2> HIDE DEF unread, code
  <2> QED
    BY <1>3, <2>1, Zenon
<1>7. CASE Evaluation!Respond(422, malformed, wires, Evaluation!Evaluated)
  <2> DEFINE code == 422
  <2>1. /\ code # 200 /\ malformed = Evaluation!Problem("MANDATE_INVALID", "the mandate")
        /\ Evaluation!Respond(code, malformed, wires, Evaluation!Evaluated)
    BY <1>5, <1>7, Zenon
  <2> HIDE DEF malformed, code
  <2> QED
    BY <1>3, <2>1, Zenon
<1> QED
  BY <1>2, <1>4, <1>6, <1>7, Zenon

LEMMA AskStep ==
  ASSUME ComparisonInv, Evaluation!Ask
  PROVE  ComparisonInv'
<1>1. PICK wires \in Evaluation!Submissions :
        \/ \E request \in Evaluation!Requests : Evaluation!Post(request, wires)
        \/ Evaluation!Post("fine", Evaluation!ComparisonSet(wires))
  BY DEF Evaluation!Ask
<1>2. Submitted(wires)
  BY EvaluationAssumption DEF Evaluation!Submissions, Submitted, Evaluation!ComparisonAssumption
<1>3. Submitted(Evaluation!ComparisonSet(wires))
  BY <1>2, ComparisonSetIs, OneOfEach
<1> QED
  BY <1>1, <1>2, <1>3, PostStep

\* The first pass: each attestation on its own.
LEMMA ClassifyStep ==
  ASSUME ComparisonInv, Evaluation!Classify
  PROVE  ComparisonInv'
<1> DEFINE a == call.accepted
           r == call.rejected
           index == Len(a) + Len(r) + 1
           code == Evaluation!Fault(mandate, <<call.wires[index]>>, Evaluation!Evaluated)
           e == [index |-> index, code |-> code]
           b == Append(a, index)
           s == Append(r, e)
<1>1. /\ call # None /\ Len(a) + Len(r) < Len(call.wires)
      /\ call' = IF code = None THEN [call EXCEPT !.accepted = b]
                 ELSE [call EXCEPT !.rejected = s]
      /\ UNCHANGED <<time, drift, mandate, issued, results>> /\ answer' = answer
  BY DEF Evaluation!Classify, Evaluation!Classified, Evaluation!vars
<1>2. /\ call = [wires |-> call.wires, began |-> call.began,
                 accepted |-> a, rejected |-> r]
      /\ Submitted(call.wires) /\ Parted(a, r)
      /\ call.began \in Int /\ call.began <= Evaluation!Evaluated
      /\ call.began = Evaluation!Evaluated =>
          \A k \in 1..Len(a) :
              Evaluation!Acceptable(mandate, <<call.wires[a[k]]>>, Evaluation!Evaluated)
      /\ answer = None
  BY <1>1 DEF ComparisonInv, Asked
<1>3. EvaluationInv' /\ Evaluation!Evaluated' = Evaluation!Evaluated
  BY <1>1, KeptEvaluation DEF ComparisonInv
<1>4. Submitted(call.wires)'
  <2>1. call'.wires = call.wires
    BY <1>1, <1>2
  <2> QED
    BY <1>1, <1>2, <2>1 DEF Submitted
<1>5. Len(a) \in Nat /\ Len(r) \in Nat /\ Len(call.wires) \in Nat
  BY <1>2, AllAreParted, SubmittedParts
<1>6. AnswerIsFair'
  BY <1>1, <1>2 DEF AnswerIsFair, Evaluation!EveryAttestationIsAccounted,
        Evaluation!ShownIsVerified, Evaluation!OneBadSparesTheRest, Evaluation!Answered
<1>7. CASE code = None
  <2>1. /\ call'.wires = call.wires /\ call'.began = call.began /\ call'.rejected = r
        /\ call'.accepted = b
        /\ call' = [wires |-> call.wires, began |-> call.began, accepted |-> b, rejected |-> r]
    BY <1>1, <1>2, <1>7
  <2>2. Evaluation!Acceptable(mandate, <<call.wires[index]>>, Evaluation!Evaluated)
    BY <1>7, FaultsAre
  <2> HIDE DEF code, a, r
  <2>3. /\ Parted(b, r) /\ Len(b) = Len(a) + 1
        /\ \A k \in 1..Len(b) : b[k] = index \/ \E l \in 1..Len(a) : b[k] = a[l]
    <3>1. Parted(b, r) /\ OneMore(b, a, index)
      BY <1>2, OneMoreAccepted, Zenon
    <3> HIDE DEF b, index
    <3> QED
      BY <3>1 DEF OneMore
  <2> HIDE DEF b, index
  <2>4. ASSUME call.began = Evaluation!Evaluated, NEW k \in 1..Len(b)
        PROVE  Evaluation!Acceptable(mandate, <<call.wires[b[k]]>>, Evaluation!Evaluated)
    BY <1>2, <2>2, <2>3, <2>4
  <2>5. Len(b) + Len(r) <= Len(call.wires)
    BY <1>1, <1>5, <2>3
  <2>6. Asked(call)'
    BY <1>1, <1>2, <1>3, <1>4, <2>1, <2>3, <2>4, <2>5 DEF Asked
  <2> QED
    BY <1>1, <1>2, <1>3, <1>6, <2>6 DEF ComparisonInv
<1>8. CASE code # None
  <2>1. /\ call'.wires = call.wires /\ call'.began = call.began /\ call'.rejected = s
        /\ call'.accepted = a
        /\ call' = [wires |-> call.wires, began |-> call.began, accepted |-> a, rejected |-> s]
    BY <1>1, <1>2, <1>8
  <2>2. e.index = index
    OBVIOUS
  <2> HIDE DEF code, a, r, e
  <2>3. Parted(a, s) /\ Len(s) = Len(r) + 1
    BY <1>2, <2>2, OneMoreRejected
  <2> HIDE DEF s, index
  <2>4. Len(a) + Len(s) <= Len(call.wires)
    BY <1>1, <1>5, <2>3
  <2>5. Asked(call)'
    BY <1>1, <1>2, <1>3, <1>4, <2>1, <2>3, <2>4 DEF Asked
  <2> QED
    BY <1>1, <1>2, <1>3, <1>6, <2>5 DEF ComparisonInv
<1> QED
  BY <1>7, <1>8

\* What a view owes to those who submitted.
Accounts(view, wires) ==
    /\ Len(view.candidates) + Len(view.unverified) = Len(wires)
    /\ {view.candidates[i].quote : i \in DOMAIN view.candidates}
         = {wires[i] : i \in DOMAIN wires \
                         {view.unverified[i].index : i \in DOMAIN view.unverified}}
OnlyShows(view, chosen) ==
    \A quote \in {view.candidates[i].quote : i \in DOMAIN view.candidates} :
        \E i \in DOMAIN chosen : quote = chosen[i]

\* The answer of an empty comparison: everything was refused.
LEMMA AllWereRefused ==
  ASSUME NEW wires, Submitted(wires), NEW r, Parted(<<>>, r), Len(r) = Len(wires),
         NEW view, view.unverified = r, DOMAIN view.candidates = {}, Len(view.candidates) = 0
  PROVE  Accounts(view, wires) /\ OnlyShows(view, <<>>)
<1> DEFINE none == <<>>
<1>1. Parted(none, r) /\ DOMAIN none = {} /\ Len(none) = 0
  OBVIOUS
<1> HIDE DEF none
<1>2. /\ Len(none) \in Nat /\ Len(r) \in Nat
      /\ (1..(Len(none) + Len(r))) \ {r[k].index : k \in DOMAIN r} = {none[k] : k \in DOMAIN none}
  BY <1>1, AllAreParted
<1>3. 1..(Len(none) + Len(r)) = 1..Len(wires) /\ {none[k] : k \in DOMAIN none} = {}
  BY <1>1, <1>2
<1>4. DOMAIN wires = 1..Len(wires)
  BY SubmittedParts
<1> DEFINE left == DOMAIN wires \ {view.unverified[k].index : k \in DOMAIN view.unverified}
<1>5. left = {}
  BY <1>2, <1>3, <1>4
<1>6. {view.candidates[i].quote : i \in DOMAIN view.candidates} = {}
  OBVIOUS
<1>7. Len(view.candidates) + Len(view.unverified) = Len(wires)
  BY <1>2
<1> HIDE DEF left
<1>8. {wires[i] : i \in left} = {}
  BY <1>5
<1> USE DEF left
<1> QED
  BY <1>6, <1>7, <1>8 DEF Accounts, OnlyShows

\* The answer of a comparison: those accepted are shown, and no other.
LEMMA TheRestIsShown ==
  ASSUME NEW wires, Submitted(wires), NEW a, NEW r, Parted(a, r), Len(a) + Len(r) = Len(wires),
         NEW chosen, chosen = [i \in DOMAIN a |-> wires[a[i]]],
         NEW view, NEW t, Shows(view, Len(a), chosen, t, r)
  PROVE  Accounts(view, wires) /\ OnlyShows(view, chosen)
<1> DEFINE n == Len(a)
           R == {r[k].index : k \in DOMAIN r}
           A == {a[k] : k \in DOMAIN a}
<1>1. n \in Nat /\ DOMAIN a = 1..n /\ (1..(n + Len(r))) \ R = A
  BY AllAreParted
<1>2. /\ view.at = t /\ view.unverified = r
      /\ DOMAIN view.candidates = 1..n /\ Len(view.candidates) = n
      /\ \A k \in 1..n : \E i \in 1..n : view.candidates[k].quote = chosen[i]
      /\ \A i \in 1..n : \E k \in 1..n : view.candidates[k].quote = chosen[i]
  BY DEF Shows
<1>3. DOMAIN wires = 1..Len(wires)
  BY SubmittedParts
<1>4. DOMAIN wires \ R = A
  BY <1>1, <1>3
<1>5. DOMAIN chosen = 1..n /\ \A i \in 1..n : chosen[i] = wires[a[i]]
  BY <1>1
<1> HIDE DEF n
<1>6. A = {a[k] : k \in 1..n}
  BY <1>1
<1>7. {view.candidates[i].quote : i \in DOMAIN view.candidates} = {chosen[i] : i \in 1..n}
  <2>1. ASSUME NEW k \in 1..n PROVE view.candidates[k].quote \in {chosen[i] : i \in 1..n}
    <3>1. PICK i \in 1..n : view.candidates[k].quote = chosen[i]
      BY <1>2, Zenon
    <3> QED
      BY <3>1
  <2>2. ASSUME NEW i \in 1..n
        PROVE  chosen[i] \in {view.candidates[k].quote : k \in DOMAIN view.candidates}
    <3>1. PICK k \in 1..n : view.candidates[k].quote = chosen[i]
      BY <1>2, Zenon
    <3> QED
      BY <1>2, <3>1
  <2> DEFINE Q == {view.candidates[k].quote : k \in DOMAIN view.candidates}
             C == {chosen[i] : i \in 1..n}
  <2>3. Q \subseteq C
    <3>1. Q = {view.candidates[k].quote : k \in 1..n}
      BY <1>2
    <3>2. {view.candidates[k].quote : k \in 1..n} \subseteq C
      BY <2>1, Zenon
    <3> QED
      BY <3>1, <3>2
  <2>4. C \subseteq Q
    BY <2>2
  <2> QED
    BY <2>3, <2>4
<1>8. {chosen[i] : i \in 1..n} = {wires[i] : i \in A}
  BY <1>5, <1>6
<1>9. Len(view.candidates) + Len(view.unverified) = Len(wires)
  BY <1>2 DEF n
<1> HIDE DEF A
<1>10. {view.unverified[i].index : i \in DOMAIN view.unverified} = R
  BY <1>2
<1> HIDE DEF R
<1>11. \A quote \in {chosen[i] : i \in 1..n} : \E i \in DOMAIN chosen : quote = chosen[i]
  BY <1>5
<1>12. Accounts(view, wires)
  BY <1>4, <1>7, <1>8, <1>9, <1>10 DEF Accounts
<1>13. OnlyShows(view, chosen)
  BY <1>7, <1>11 DEF OnlyShows
<1> QED
  BY <1>12, <1>13

\* Those that passed alone pass together, when no second went by and no two are of one
\* candidate.
LEMMA SurvivorsPass ==
  ASSUME NEW wires, Submitted(wires), NEW a, NEW r, Parted(a, r), Len(a) + Len(r) = Len(wires),
         NEW chosen, chosen = [i \in DOMAIN a |-> wires[a[i]]], a # <<>>,
         NEW m, NEW t,
         \A k \in 1..Len(a) : Evaluation!Acceptable(m, <<wires[a[k]]>>, t),
         Len(wires) <= MaxCandidates,
         \A i, j \in DOMAIN wires :
             i # j => wires[i].payload.candidate # wires[j].payload.candidate
  PROVE  Evaluation!Acceptable(m, chosen, t)
<1> DEFINE n == Len(a)
<1>1. n \in Nat /\ n > 0 /\ DOMAIN a = 1..n /\ Len(r) \in Nat
  BY AllAreParted
<1>2. \A k \in 1..n : a[k] \in 1..Len(wires)
  BY DEF Parted
<1>3. \A k, l \in 1..n : a[k] = a[l] => k = l
  BY DEF Parted
<1>4. DOMAIN wires = 1..Len(wires) /\ Len(wires) \in Nat
  BY SubmittedParts
<1>5. DOMAIN chosen = 1..n /\ Len(chosen) = n /\ \A k \in 1..n : chosen[k] = wires[a[k]]
  BY <1>1
<1>6. ASSUME NEW k \in 1..n
      PROVE  Evaluation!Verifies(wires[a[k]], t) /\ t > 0 /\ t >= m.createdAt
  <2> DEFINE q == wires[a[k]]
             alone == <<q>>
  <2>1. Evaluation!Acceptable(m, alone, t)
    OBVIOUS
  <2>2. 1 \in DOMAIN alone /\ alone[1] = q
    OBVIOUS
  <2> HIDE DEF alone, q
  <2>3. Evaluation!Verifies(alone[1], t) /\ t > 0 /\ t >= m.createdAt
    BY <2>1, <2>2 DEF Evaluation!Acceptable
  <2> QED
    BY <2>2, <2>3 DEF q
<1>7. Len(chosen) <= MaxCandidates
  <2>1. MaxCandidates \in Nat
    BY EvaluationAssumption DEF Evaluation!EvaluationAssumption
  <2> QED
    BY <1>1, <1>4, <1>5, <2>1
<1>8. \A k \in DOMAIN chosen : Evaluation!Verifies(chosen[k], t)
  BY <1>5, <1>6
<1>9. t > 0 /\ t >= m.createdAt
  BY <1>1, <1>6
<1> HIDE DEF n
<1>10. ASSUME NEW i \in DOMAIN chosen, NEW j \in DOMAIN chosen, i # j
       PROVE  chosen[i].payload.candidate # chosen[j].payload.candidate
  <2>1. i \in 1..n /\ j \in 1..n
    BY <1>5
  <2>2. a[i] \in DOMAIN wires /\ a[j] \in DOMAIN wires /\ a[i] # a[j]
    BY <1>2, <1>3, <1>4, <1>10, <2>1 DEF n
  <2> QED
    BY <1>5, <2>1, <2>2
<1> QED
  BY <1>7, <1>8, <1>9, <1>10 DEF Evaluation!Acceptable

\* A comparison that accounts for all, and shows what verifies, is a fair answer.
LEMMA ComparisonsAreFair ==
  ASSUME NEW wires, NEW view, NEW chosen, Accounts(view, wires), OnlyShows(view, chosen),
         \A i \in DOMAIN chosen : Evaluation!Verifies(chosen[i], view.at),
         NEW status, status # 422,
         answer'.status = status, answer'.body = view, answer'.wires = wires
  PROVE  AnswerIsFair'
<1> DEFINE Q == {view.candidates[i].quote : i \in DOMAIN view.candidates}
           R == {view.unverified[i].index : i \in DOMAIN view.unverified}
<1>1. Evaluation!Shown' = Q /\ Evaluation!Refused' = R
  BY DEF Evaluation!Shown, Evaluation!Refused
<1>2. Len(view.candidates) + Len(view.unverified) = Len(wires)
      /\ Q = {wires[i] : i \in DOMAIN wires \ R}
  BY DEF Accounts
<1>3. \A quote \in Q : Evaluation!Verifies(quote, view.at)
  BY DEF OnlyShows
<1> HIDE DEF Q, R
<1>4. {answer'.wires[i] : i \in DOMAIN answer'.wires \ Evaluation!Refused'}
        = {wires[i] : i \in DOMAIN wires \ R}
  BY <1>1
<1>5. Evaluation!EveryAttestationIsAccounted'
  BY <1>1, <1>2, <1>4 DEF Evaluation!EveryAttestationIsAccounted
<1>6. Evaluation!ShownIsVerified'
  BY <1>1, <1>3 DEF Evaluation!ShownIsVerified
<1>7. Evaluation!OneBadSparesTheRest'
  BY DEF Evaluation!OneBadSparesTheRest
<1> QED
  BY <1>5, <1>6, <1>7 DEF AnswerIsFair

\* The second pass: what was accepted alone, all together.
LEMMA RankStep ==
  ASSUME ComparisonInv, Evaluation!Rank
  PROVE  ComparisonInv'
<1> DEFINE a == call.accepted
           r == call.rejected
           wires == call.wires
           t == Evaluation!Evaluated
           chosen == Evaluation!Survivors(call)
           code == Evaluation!Fault(mandate, chosen, t)
           empty == Evaluation!View(Evaluation!NoResult, r)
           view == Evaluation!View(Evaluation!Result(mandate, chosen, t), r)
           problem == Evaluation!Problem(code, "the set")
<1>1. /\ call # None /\ Len(a) + Len(r) = Len(wires)
      /\ IF a = <<>> THEN Evaluation!Respond(200, empty, wires, call.began)
         ELSE IF code # None THEN Evaluation!Respond(422, problem, wires, call.began)
         ELSE Evaluation!Respond(200, view, wires, call.began)
  BY DEF Evaluation!Rank, Evaluation!Classified
<1>2. /\ Submitted(wires) /\ Parted(a, r) /\ call.began \in Int
      /\ call.began = t =>
          \A k \in 1..Len(a) : Evaluation!Acceptable(mandate, <<wires[a[k]]>>, t)
      /\ answer = None
  BY <1>1 DEF ComparisonInv, Asked
<1>3. chosen = [i \in DOMAIN a |-> wires[a[i]]]
  BY DEF Evaluation!Survivors
<1>4. t \in Int /\ mandate \in Mandates
  BY ClockParts DEF ComparisonInv, EvaluationInv, ClocksAreRead
<1> HIDE DEF a, r, wires, t, chosen, code, empty, view, problem
<1>5. ASSUME NEW status, NEW body, Evaluation!Respond(status, body, wires, call.began)
      PROVE  /\ call' = None /\ EvaluationInv' /\ Evaluation!Evaluated' = t
             /\ answer'.status = status /\ answer'.body = body
             /\ answer'.wires = wires /\ answer'.began = call.began
  <2>1. call' = None /\ UNCHANGED <<time, drift, mandate, issued, results>>
    BY <1>5 DEF Evaluation!Respond, Evaluation!vars
  <2>2. EvaluationInv' /\ Evaluation!Evaluated' = t
    BY <2>1, KeptEvaluation DEF ComparisonInv, t
  <2> QED
    BY <1>5, <2>1, <2>2 DEF Evaluation!Respond
<1> DEFINE ok == 200
           bad == 422
<1>6. ok # bad /\ ok # 422
  OBVIOUS
<1>7. CASE a = <<>>
  <2>1. Evaluation!Respond(ok, empty, wires, call.began)
    BY <1>1, <1>7
  <2> HIDE DEF ok
  <2>2. call' = None /\ EvaluationInv' /\ answer'.status = ok /\ answer'.body = empty
        /\ answer'.wires = wires
    BY <1>5, <2>1
  <2>3. /\ DOMAIN empty.candidates = {} /\ Len(empty.candidates) = 0
        /\ empty.unverified = r
    BY NothingIsShown DEF empty
  <2>4. Parted(<<>>, r) /\ Len(r) = Len(wires)
    <3>1. Len(a) = 0 /\ Len(r) \in Nat
      BY <1>2, <1>7, AllAreParted
    <3> QED
      BY <1>1, <1>2, <1>7, <3>1
  <2>5. Accounts(empty, wires) /\ OnlyShows(empty, <<>>)
    BY <1>2, <2>3, <2>4, AllWereRefused
  <2> DEFINE nothing == <<>>
  <2>6. \A i \in DOMAIN nothing : Evaluation!Verifies(nothing[i], empty.at)
    OBVIOUS
  <2> HIDE DEF nothing
  <2>7. OnlyShows(empty, nothing)
    BY <2>5 DEF nothing
  <2> HIDE DEF ok
  <2>8. AnswerIsFair'
    BY <1>6, <2>2, <2>5, <2>6, <2>7, ComparisonsAreFair
  <2> QED
    BY <2>2, <2>8 DEF ComparisonInv
<1>8. CASE a # <<>> /\ code = None
  <2>1. Evaluation!Respond(ok, view, wires, call.began)
    BY <1>1, <1>8
  <2> HIDE DEF ok
  <2>2. call' = None /\ EvaluationInv' /\ answer'.status = ok /\ answer'.body = view
        /\ answer'.wires = wires
    BY <1>5, <2>1
  <2>3. Evaluation!Acceptable(mandate, chosen, t)
    BY <1>8, FaultsAre DEF code
  <2>4. OfQuotes(Len(a), chosen)
    <3>1. Len(a) \in Nat /\ DOMAIN a = 1..Len(a)
      BY <1>2, AllAreParted
    <3>2. \A k \in 1..Len(a) : a[k] \in 1..Len(wires)
      BY <1>1, <1>2 DEF Parted
    <3>3. \A i \in 1..Len(wires) : wires[i] \in issued
      BY <1>2, SubmittedParts
    <3>4. \A q \in issued : IsQuote(q)
      BY DEF ComparisonInv, EvaluationInv, IssuedAreAttested, Attested
    <3> QED
      BY <1>3, <3>1, <3>2, <3>3, <3>4 DEF OfQuotes
  <2>5. Shows(view, Len(a), chosen, t, r)
    BY <1>4, <2>4, ViewsShowAll DEF view
  <2>6. Accounts(view, wires) /\ OnlyShows(view, chosen)
    BY <1>1, <1>2, <1>3, <2>5, TheRestIsShown
  <2>7. \A i \in DOMAIN chosen : Evaluation!Verifies(chosen[i], view.at)
    <3>1. \A i \in DOMAIN chosen : Evaluation!Verifies(chosen[i], t)
      BY <2>3 DEF Evaluation!Acceptable
    <3>2. view.at = t
      BY <2>5 DEF Shows
    <3> QED
      BY <3>1, <3>2
  <2> HIDE DEF ok
  <2>8. AnswerIsFair'
    BY <1>6, <2>2, <2>6, <2>7, ComparisonsAreFair
  <2> QED
    BY <2>2, <2>8 DEF ComparisonInv
<1>9. CASE a # <<>> /\ code # None
  <2>1. Evaluation!Respond(bad, problem, wires, call.began)
    BY <1>1, <1>9
  <2> HIDE DEF bad
  <2>2. call' = None /\ EvaluationInv' /\ answer'.status = bad /\ answer'.body = problem
        /\ answer'.wires = wires /\ answer'.began = call.began /\ Evaluation!Evaluated' = t
    BY <1>5, <2>1
  <2>3. /\ Evaluation!EveryAttestationIsAccounted' /\ Evaluation!ShownIsVerified'
    <3>1. ~Evaluation!Answered(200)'
      BY <1>6, <2>2 DEF Evaluation!Answered, ok
    <3> QED
      BY <3>1 DEF Evaluation!EveryAttestationIsAccounted, Evaluation!ShownIsVerified
  <2>4. ASSUME call.began = t, Len(wires) <= MaxCandidates,
               \A i, j \in DOMAIN wires :
                   i # j => wires[i].payload.candidate # wires[j].payload.candidate
        PROVE  FALSE
    <3>1. Evaluation!Acceptable(mandate, chosen, t)
      BY <1>1, <1>2, <1>3, <1>9, <2>4, SurvivorsPass
    <3> QED
      BY <1>9, <3>1, FaultsAre DEF code
  <2>5. Evaluation!OneBadSparesTheRest'
    <3> SUFFICES ASSUME answer'.began = Evaluation!Evaluated',
                        Len(answer'.wires) <= MaxCandidates,
                        \A i, j \in DOMAIN answer'.wires :
                            i # j => answer'.wires[i].payload.candidate
                                        # answer'.wires[j].payload.candidate
                 PROVE  FALSE
      BY DEF Evaluation!OneBadSparesTheRest
    <3> QED
      BY <2>2, <2>4
  <2> QED
    BY <2>2, <2>3, <2>5 DEF ComparisonInv, AnswerIsFair
<1> QED
  BY <1>7, <1>8, <1>9

-----------------------------------------------------------------------------
(* The scenes.                                                             *)

\* Of a scene one part runs: no name is of two.
LEMMA OneSceneRuns ==
  /\ scene = "bundle" => ~OfEvaluation /\ ~Supplying
  /\ OfEvaluation => ~Supplying
BY SettingsAssumption DEF OfEvaluation, Supplying

\* What a scene may attest is of the constants.
LEMMA PayloadsAreOffered ==
  ASSUME OfEvaluation
  PROVE  LET s == Settings[scene]
         IN  /\ s.candidates \in SUBSET Candidates /\ s.lags \in SUBSET Lags
             /\ s.leads \in SUBSET Leads /\ s.offers \in SUBSET Offers
             /\ Payloads \in SUBSET Evaluation!PayloadsOf(s.candidates, s.lags, s.leads, s.offers)
<1>1. scene \in DOMAIN Settings
  BY DEF OfEvaluation
<1> QED
  BY <1>1, SettingsAssumption DEF Payloads

ScenesInv ==
    /\ OfEvaluation => ComparisonInv
    /\ Evaluates => call = None /\ answer = None
    /\ Supplying => SupplyInv /\ Supply!RunTypeOK

LEMMA ScenesStart == MCInit => ScenesInv
<1> SUFFICES ASSUME MCInit PROVE ScenesInv
  OBVIOUS
<1>1. CASE scene = "bundle"
  BY <1>1, OneSceneRuns DEF ScenesInv, Evaluates
<1>2. CASE OfEvaluation /\ Evaluation!ComparisonInit
  <2>1. ComparisonInv /\ call = None /\ answer = None
    BY <1>2, ComparisonStarts DEF Evaluation!ComparisonInit
  <2> QED
    BY <1>2, <2>1, OneSceneRuns DEF ScenesInv
<1>3. CASE Supplying /\ Supply!RunInit
  BY <1>3, OneSceneRuns, SupplyStarts, RunTypesStart DEF ScenesInv, Evaluates
<1> QED
  BY <1>1, <1>2, <1>3 DEF MCInit

LEMMA EvaluatingStep ==
  ASSUME ScenesInv, Evaluates, UNCHANGED comparing,
         \/ Evaluation!Tick
         \/ Evaluation!Issues(Payloads, Settings[scene].keys)
         \/ \E wires \in Evaluation!Wires : Evaluation!Evaluate(wires)
  PROVE  ComparisonInv' /\ call' = None /\ answer' = None
<1>1. OfEvaluation /\ EvaluationInv /\ call = None /\ answer = None
  BY DEF ScenesInv, Evaluates, ComparisonInv
<1>2. call' = None /\ answer' = None
  BY <1>1 DEF comparing
<1>3. ASSUME Evaluation!Issues(Payloads, Settings[scene].keys) PROVE EvaluationInv'
  <2> DEFINE s == Settings[scene]
             all == Evaluation!PayloadsOf(s.candidates, s.lags, s.leads, s.offers)
  <2>1. /\ s.candidates \in SUBSET Candidates /\ s.lags \in SUBSET Lags
        /\ s.leads \in SUBSET Leads /\ s.offers \in SUBSET Offers /\ Payloads \in SUBSET all
    BY <1>1, PayloadsAreOffered
  <2>2. Evaluation!Issues(all, s.keys)
    BY <1>3, <2>1 DEF Evaluation!Issues
  <2> HIDE DEF s
  <2> QED
    BY <1>1, <2>1, <2>2, IssueStep
<1>4. EvaluationInv'
  BY <1>1, <1>3, TickStep, EvaluateStep
<1>5. AnswerIsFair'
  BY <1>2 DEF AnswerIsFair, Evaluation!EveryAttestationIsAccounted, Evaluation!ShownIsVerified,
              Evaluation!OneBadSparesTheRest, Evaluation!Answered
<1> QED
  BY <1>2, <1>4, <1>5 DEF ComparisonInv

LEMMA ComparingStep ==
  ASSUME ScenesInv, OfEvaluation,
         \/ Evaluation!Elsewhere(Payloads, Settings[scene].keys)
         \/ Evaluation!Ask \/ Evaluation!Classify \/ Evaluation!Rank
  PROVE  ComparisonInv'
<1>1. ComparisonInv
  BY DEF ScenesInv
<1>2. CASE Evaluation!Elsewhere(Payloads, Settings[scene].keys)
  <2> DEFINE s == Settings[scene]
             all == Evaluation!PayloadsOf(s.candidates, s.lags, s.leads, s.offers)
  <2>1. /\ s.candidates \in SUBSET Candidates /\ s.lags \in SUBSET Lags
        /\ s.leads \in SUBSET Leads /\ s.offers \in SUBSET Offers /\ Payloads \in SUBSET all
    BY PayloadsAreOffered
  <2>2. Evaluation!Elsewhere(Payloads, s.keys)
    BY <1>2
  <2> HIDE DEF s
  <2> QED
    BY <1>1, <2>1, <2>2, ElsewhereStep
<1> QED
  BY <1>1, <1>2, AskStep, ClassifyStep, RankStep

\* An answer is fair by what it is and by the second it is given in.
FairAnswer(a, t) ==
    LET view == a.body
        shown == {view.candidates[i].quote : i \in DOMAIN view.candidates}
        refused == {view.unverified[i].index : i \in DOMAIN view.unverified}
    IN  /\ a # None /\ a.status = 200 =>
            /\ Len(view.candidates) + Len(view.unverified) = Len(a.wires)
            /\ shown = {a.wires[i] : i \in DOMAIN a.wires \ refused}
        /\ a # None /\ a.status = 200 =>
            \A quote \in shown : Evaluation!Verifies(quote, view.at)
        /\ /\ a # None /\ a.began = t
           /\ a.wires # <<>> /\ Len(a.wires) <= MaxCandidates
           /\ \A i, j \in DOMAIN a.wires :
               i # j => a.wires[i].payload.candidate # a.wires[j].payload.candidate
           => a.status # 422 \/ view = Evaluation!Problem("MANDATE_INVALID", "the mandate")

LEMMA FairAnswers == AnswerIsFair <=> FairAnswer(answer, Evaluation!Evaluated)
BY Zenon DEF AnswerIsFair, FairAnswer, Evaluation!EveryAttestationIsAccounted,
   Evaluation!ShownIsVerified, Evaluation!OneBadSparesTheRest, Evaluation!Answered,
   Evaluation!Shown, Evaluation!Refused

LEMMA ScenesStep == ScenesInv /\ [MCNext]_everything => ScenesInv'
<1> SUFFICES ASSUME ScenesInv, [MCNext]_everything PROVE ScenesInv'
  OBVIOUS
<1>1. scene' = scene
  BY DEF MCNext, everything
<1>2. /\ OfEvaluation' <=> OfEvaluation
      /\ Evaluates' <=> Evaluates
      /\ Supplying' <=> Supplying
  BY <1>1 DEF OfEvaluation, Evaluates, Supplying
<1>3. CASE UNCHANGED <<evaluating, comparing, supplying>>
  <2>1. ASSUME ComparisonInv PROVE ComparisonInv'
    <3>1. UNCHANGED <<time, drift, mandate, issued, results, call, answer>>
      BY <1>3 DEF evaluating, comparing
    <3>2. EvaluationInv' /\ Evaluation!Evaluated' = Evaluation!Evaluated
      BY <2>1, <3>1, KeptEvaluation DEF ComparisonInv
    <3>3. Submitted(call.wires) => Submitted(call.wires)'
      BY <3>1 DEF Submitted
    <3>4. Asked(call) => Asked(call)'
      BY <3>1, <3>2, <3>3 DEF Asked
    <3>5. AnswerIsFair'
      <4>1. AnswerIsFair <=> FairAnswer(answer, Evaluation!Evaluated)
        BY FairAnswers
      <4>2. AnswerIsFair' <=> FairAnswer(answer', Evaluation!Evaluated')
        BY Zenon DEF AnswerIsFair, FairAnswer, Evaluation!EveryAttestationIsAccounted,
           Evaluation!ShownIsVerified, Evaluation!OneBadSparesTheRest, Evaluation!Answered,
           Evaluation!Shown, Evaluation!Refused
      <4> QED
        BY <2>1, <3>1, <3>2, <4>1, <4>2 DEF ComparisonInv
    <3> QED
      BY <2>1, <3>1, <3>2, <3>4, <3>5 DEF ComparisonInv
  <2>2. SupplyInv /\ Supply!RunTypeOK => SupplyInv' /\ Supply!RunTypeOK'
    BY <1>3, SupplyStep, RunTypesStep DEF supplying, Supply!supplyVars, Supply!identityVars
  <2>3. call' = call /\ answer' = answer
    BY <1>3 DEF comparing
  <2> QED
    BY <1>2, <2>1, <2>2, <2>3 DEF ScenesInv
<1>4. CASE /\ OfEvaluation /\ Evaluates /\ UNCHANGED comparing
           /\ \/ Evaluation!Tick
              \/ Evaluation!Issues(Payloads, Settings[scene].keys)
              \/ scene = "windows" /\ \E wires \in Evaluation!Wires : Evaluation!Evaluate(wires)
  <2>1. ComparisonInv' /\ call' = None /\ answer' = None
    BY <1>4, EvaluatingStep
  <2> QED
    BY <1>2, <1>4, <2>1, OneSceneRuns DEF ScenesInv
<1>5. CASE /\ OfEvaluation /\ scene = "comparison"
           /\ \/ Evaluation!Elsewhere(Payloads, Settings[scene].keys)
              \/ Evaluation!Ask \/ Evaluation!Classify \/ Evaluation!Rank
  <2>1. ComparisonInv' /\ ~Evaluates
    BY <1>5, ComparingStep DEF Evaluates
  <2> QED
    BY <1>2, <1>5, <2>1, OneSceneRuns DEF ScenesInv
<1>6. CASE Supplying /\ Supply!RunNext
  <2>1. SupplyInv' /\ Supply!RunTypeOK'
    BY <1>6, SupplyStep, RunTypesStep DEF ScenesInv
  <2> QED
    BY <1>2, <1>6, <2>1, OneSceneRuns DEF ScenesInv, Evaluates
<1>7. CASE scene = "bundle"
  BY <1>2, <1>7, OneSceneRuns DEF ScenesInv, Evaluates
<1> QED
  BY <1>3, <1>4, <1>5, <1>6, <1>7 DEF MCNext, everything

\* Judgements of attestations are of what is live, never turn for the better, do not depend
\* on the order they came in, and cost no candidate its answer for the sake of another, for
\* any mandates, clocks, offers and requests (marketplace-core, marketplace-api core.ts).
THEOREM EveryEvaluationIsFair == MCSpec => []EvaluationsAreFair
<1>1. ScenesInv => EvaluationsAreFair
  <2> SUFFICES ASSUME ScenesInv PROVE EvaluationsAreFair
    OBVIOUS
  <2>1. ScenesTypeOK
    BY TypesAreKept DEF ScenesTypeOK, ScenesInv, ComparisonInv
  <2>2. Evaluates => EvaluationInv
    BY DEF ScenesInv, ComparisonInv, Evaluates
  <2>3. /\ RankedAreLive /\ HonestIsEligible /\ VerdictsOnlyAge /\ ScoresOnlyFall
        /\ OrderDoesNotMatter
    BY <2>2, LiveAreRanked, HonestAreEligible, VerdictsAge, ScoresFall, OrderIsIrrelevant
       DEF RankedAreLive, HonestIsEligible, VerdictsOnlyAge, ScoresOnlyFall, OrderDoesNotMatter
  <2>4. EveryAttestationIsAccounted /\ ShownIsVerified /\ OneBadSparesTheRest
    BY DEF ScenesInv, ComparisonInv, AnswerIsFair, EveryAttestationIsAccounted,
       ShownIsVerified, OneBadSparesTheRest
  <2>5. ComparisonSetIsLegal
    BY SetsAreLegal DEF ComparisonSetIsLegal
  <2> QED
    BY <2>1, <2>3, <2>4, <2>5 DEF EvaluationsAreFair
<1> QED
  BY <1>1, ScenesStart, ScenesStep, PTL DEF MCSpec

\* A run of the passive verifier says no more than its sources did and stops where it is
\* told to, in every scene: no verdict without the scan and the chain, an endpoint's silence
\* counted against the candidate, and nobody asked once the rate was limited.
THEOREM SuppliesAreHonest == MCSpec => SupplyIsHonest
<1> DEFINE Inv == ScenesInv /\ (Supplying => AskedInTurn)
           Stops == Supplying => Supply!AsksNobodyOnceLimited
<1>1. MCInit => Inv
  <2>1. MCInit /\ Supplying => Supply!RunInit
    BY OneSceneRuns DEF MCInit
  <2> QED
    BY <2>1, ScenesStart, TurnsStart
<1>2. ASSUME Inv, [MCNext]_everything
      PROVE  Inv' /\ [Stops]_everything
  <2>1. ScenesInv'
    BY <1>2, ScenesStep
  <2>2. Supplying' <=> Supplying
    BY <1>2 DEF MCNext, everything, Supplying
  <2>3. ASSUME Supplying
        PROVE  AskedInTurn' /\ Supply!AsksNobodyOnceLimited
    <3>1. SupplyInv /\ AskedInTurn
      BY <1>2, <2>3 DEF ScenesInv
    <3>2. [Supply!RunNext]_(Supply!supplyVars)
      BY <1>2, <2>3, OneSceneRuns
         DEF MCNext, everything, supplying, Supply!supplyVars, Supply!identityVars
    <3>3. UNCHANGED Supply!supplyVars => Supply!AsksNobodyOnceLimited
      BY DEF Supply!supplyVars, Supply!identityVars, Supply!AsksNobodyOnceLimited
    <3> QED
      BY <3>1, <3>2, <3>3, TurnsStep
  <2> QED
    BY <2>1, <2>2, <2>3
<1>3. Inv => VerdictsAreGrounded /\ OwnersAreOfTheirBlocks /\ CompleteIsComplete
  BY HonestReports DEF ScenesInv, VerdictsAreGrounded, OwnersAreOfTheirBlocks,
     CompleteIsComplete
<1>4. Inv /\ [MCNext]_everything => Inv'
  BY <1>2
<1>5. Inv /\ [MCNext]_everything => [Stops]_everything
  BY <1>2
<1> HIDE DEF Inv
<1>6. MCSpec => [](VerdictsAreGrounded /\ OwnersAreOfTheirBlocks /\ CompleteIsComplete)
  BY <1>1, <1>3, <1>4, PTL DEF MCSpec
<1>7. MCSpec => [][Stops]_everything
  BY <1>1, <1>4, <1>5, PTL DEF MCSpec
<1> QED
  BY <1>6, <1>7, PTL DEF SupplyIsHonest
=============================================================================
