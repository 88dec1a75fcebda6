----------------------------- MODULE TrustBundle -----------------------------
(***************************************************************************)
(* The life of trust bundles (marketplace-core/src/trust-bundle.ts).       *)
(*                                                                         *)
(* The control plane signs bundles of signer keys, releases, authorization *)
(* edges between them, and tombstones.  verifyMarketplaceTrustBundle judges*)
(* a bundle by itself and against the durable state of the last accepted   *)
(* one; resolveMarketplaceTrustBundleAttestationTuple says which           *)
(* attestations the accepted bundle authorizes.                            *)
(*                                                                         *)
(* Keys and releases have the same lifecycle, tombstones and rules, so that*)
(* both are records here, bound to a key or to a definition.  A bundle that*)
(* cannot be parsed, or whose signature is wrong, is refused and changes   *)
(* nothing: Drafts holds the others, as the functions their sorted and     *)
(* unique arrays stand for.                                                *)
(***************************************************************************)
EXTENDS Naturals, FiniteSets

CONSTANTS
  KeyIds, ReleaseIds,
  Bindings,         \* public keys, and definitions of releases
  Modes,            \* the adapter modes
  Enables,          \* the modes each definition enables
  Drafts(_, _),     \* the bundles the root may sign after a bundle, at a time
  FloorGeneration, FloorEpoch,
  MaxTtl, MaxSkew, MaxOverlap,
  MaxTime,          \* bound on the clock
  NoEntry, NoBundle

ASSUME IdsAssumption == KeyIds \cap ReleaseIds = {}
ASSUME EnablesAssumption == Enables \in [Bindings -> SUBSET Modes]
ASSUME BoundsAssumption ==
  /\ {FloorGeneration, FloorEpoch, MaxTtl, MaxSkew, MaxOverlap, MaxTime} \subseteq Nat
  /\ MaxTime >= 1

VARIABLES
  accepted,   \* the accepted bundle: the envelope and the durable state in one
  now,
  dead,       \* history: the bindings of keys an accepted bundle called revoked
  activated   \* history: since when each id is known to have been active

vars == <<accepted, now, dead, activated>>

Ids == KeyIds \cup ReleaseIds
Edges == KeyIds \X ReleaseIds

Lifecycles == {"preactive", "active", "retiring", "retired", "revoked"}
Terminal == {"retired", "revoked"}
Successors == [l \in Lifecycles |->
  CASE l = "preactive" -> {"preactive", "active", "retiring", "revoked"}
    [] l = "active"    -> {"active", "retiring", "revoked"}
    [] l = "retiring"  -> {"retiring", "retired", "revoked"}
    [] l = "retired"   -> {"retired", "revoked"}
    [] l = "revoked"   -> {"revoked"}]

\* revokedAt is left out: it has to be changedAt of a revoked record, and null of
\* every other.  The epoch of a record that is not revoked is 0.
Records == [binding : Bindings, lifecycle : Lifecycles, changedAt : Nat,
            from : Nat, until : Nat, epoch : Nat]
\* A revoked tombstone is kept for ever, and retain is 0.
Tombstones == [binding : Bindings, reason : Terminal, at : Nat, retain : Nat]
Authorizations == [channel : {"production", "canary"}, from : Nat, until : Nat]
BundleRecords ==
  [generation : Nat, epoch : Nat, issuedAt : Nat, expiresAt : Nat,
   signer : KeyIds, release : ReleaseIds,
   records : [Ids -> Records \cup {NoEntry}],
   tombstones : [Ids -> Tombstones \cup {NoEntry}],
   edges : [Edges -> Authorizations \cup {NoEntry}],
   revokedKeys : SUBSET Bindings]

ASSUME AbsentAssumption ==
  /\ NoEntry \notin Nat \cup Records \cup Tombstones \cup Authorizations
  /\ NoBundle \notin BundleRecords

TypeOK ==
  /\ accepted \in BundleRecords \cup {NoBundle}
  /\ accepted # NoBundle => \A i \in Ids :
       accepted.tombstones[i] # NoEntry =>
         (accepted.tombstones[i].reason = "revoked" <=> accepted.tombstones[i].retain = 0)
  /\ now \in 0..MaxTime
  /\ dead \subseteq Bindings
  /\ activated \in [Ids -> Nat \cup {NoEntry}]

Present(b, i) == b.records[i] # NoEntry
Buried(b, i) == b.tombstones[i] # NoEntry
Lifecycle(b, i) == b.records[i].lifecycle
Is(b, i, ls) == Present(b, i) /\ Lifecycle(b, i) \in ls
BuriedAs(b, i, reason) == Buried(b, i) /\ b.tombstones[i].reason = reason

-----------------------------------------------------------------------------
(* A bundle by itself *)

\* Mutant: a tombstone may leave the floor open.
WellShapedButFloors(b) == b \in BundleRecords /\ b.generation >= 1

\* The schema: a retired tombstone has a later retention floor, a revoked one none.
WellShaped(b) ==
  /\ b \in BundleRecords
  /\ b.generation >= 1
  /\ \A i \in Ids : Buried(b, i) =>
       LET t == b.tombstones[i] IN
       IF t.reason = "retired" THEN t.retain > t.at ELSE t.retain = 0

Fresh(b) ==
  /\ b.issuedAt <= now + MaxSkew
  /\ b.expiresAt > b.issuedAt
  /\ b.expiresAt - b.issuedAt <= MaxTtl
  /\ b.expiresAt > now

AboveFloor(b) == b.generation >= FloorGeneration /\ b.epoch >= FloorEpoch

\* Public keys are unique, and few keys and releases are live at once.
SetsAreCanonical(b) ==
  /\ \A k, l \in KeyIds :
       k # l /\ Present(b, k) /\ Present(b, l) => b.records[k].binding # b.records[l].binding
  /\ \A kind \in {KeyIds, ReleaseIds} :
       Cardinality({i \in kind : Present(b, i) /\ Lifecycle(b, i) \notin Terminal}) <= MaxOverlap

RecordIsTimely(b, r) ==
  /\ r.from <= r.changedAt
  /\ r.changedAt < r.until
  /\ r.changedAt <= b.expiresAt
  /\ r.lifecycle # "preactive" => r.changedAt <= b.issuedAt
  /\ IF r.lifecycle = "revoked" THEN r.epoch \in 1..b.epoch ELSE r.epoch = 0

\* The keys that the bundle revokes, by a record or by a tombstone.
Revoked(b) ==
  {b.records[k].binding : k \in {l \in KeyIds : Is(b, l, {"revoked"})}} \cup
  {b.tombstones[k].binding : k \in {l \in KeyIds : BuriedAs(b, l, "revoked")}}

RevocationsAreListed(b) ==
  /\ \A i \in Ids : Present(b, i) => RecordIsTimely(b, b.records[i])
  /\ \A i \in Ids : Buried(b, i) => b.tombstones[i].at <= b.generation
  /\ Revoked(b) \subseteq b.revokedKeys

\* Mutant: a record that is retired needs no tombstone.
TerminalsAreBuriedIfRevoked(b) ==
  \A i \in Ids : Is(b, i, {"revoked"}) =>
    /\ BuriedAs(b, i, Lifecycle(b, i))
    /\ b.tombstones[i].binding = b.records[i].binding

TerminalsAreBuried(b) ==
  \A i \in Ids : Is(b, i, Terminal) =>
    /\ BuriedAs(b, i, Lifecycle(b, i))
    /\ b.tombstones[i].binding = b.records[i].binding

\* Mutant: only the start of the bundle has to be covered.
CoversStart(window, b) == window.from <= b.issuedAt

Covers(window, b) == window.from <= b.issuedAt /\ window.until >= b.expiresAt

\* There is one active key and one active release, and a production edge between
\* them; all three are valid as long as the bundle is.
ActiveTupleIsValid(b) ==
  /\ {k \in KeyIds : Is(b, k, {"active"})} = {b.signer}
  /\ {r \in ReleaseIds : Is(b, r, {"active"})} = {b.release}
  /\ LET edge == b.edges[<<b.signer, b.release>>] IN
     /\ edge # NoEntry
     /\ edge.channel = "production"
     /\ Covers(edge, b)
  /\ \A i \in {b.signer, b.release} :
       b.records[i].changedAt <= b.issuedAt /\ Covers(b.records[i], b)

EdgeIsWithin(edge, r) == edge.from >= r.from /\ edge.until <= r.until

\* The channel of an edge fits the lifecycles at its ends, unless one is revoked.
ChannelFits(b, e) ==
  LET ends == {Lifecycle(b, e[1]), Lifecycle(b, e[2])} IN
  "revoked" \notin ends =>
    IF b.edges[e].channel = "canary"
    THEN ends \subseteq {"preactive", "active"} /\ "preactive" \in ends
    ELSE "preactive" \notin ends

\* Mutant: the edges of revoked keys and releases are not left out.
TuplesOfAll(b) == {e \in Edges : b.edges[e] # NoEntry}

\* The edges of authorizedTuples.
Tuples(b) == {e \in Edges : /\ b.edges[e] # NoEntry
                            /\ \A i \in {e[1], e[2]} : Present(b, i) /\ Lifecycle(b, i) # "revoked"}

EdgesAreValid(b) ==
  /\ \A e \in Edges : b.edges[e] # NoEntry =>
       /\ Present(b, e[1]) /\ Present(b, e[2])
       /\ b.edges[e].from < b.edges[e].until
       /\ EdgeIsWithin(b.edges[e], b.records[e[1]])
       /\ EdgeIsWithin(b.edges[e], b.records[e[2]])
       /\ ChannelFits(b, e)
  /\ Tuples(b) # {}

ValidAlone(b) ==
  /\ SetsAreCanonical(b)
  /\ RevocationsAreListed(b)
  /\ TerminalsAreBuried(b)
  /\ ActiveTupleIsValid(b)
  /\ EdgesAreValid(b)

-----------------------------------------------------------------------------
(* A bundle after its predecessor *)

\* What the code demands of a durable state that it reads back.
Consistent(b) ==
  /\ \A i \in Ids : Present(b, i) /\ Buried(b, i) =>
       /\ Lifecycle(b, i) = b.tombstones[i].reason
       /\ b.tombstones[i].binding = b.records[i].binding
  /\ \A i \in Ids : Is(b, i, Terminal) => BuriedAs(b, i, Lifecycle(b, i))
  /\ \A k \in KeyIds : Is(b, k, {"revoked"}) => b.records[k].binding \in b.revokedKeys

LifecycleFollows(old, new) ==
  /\ new.from = old.from
  /\ new.until <= old.until
  /\ new.lifecycle \in Successors[old.lifecycle]
  /\ IF new.lifecycle = old.lifecycle THEN new.changedAt = old.changedAt
     ELSE new.changedAt > old.changedAt

\* A record may go when it was terminal, or is revoked under a new epoch; its
\* tombstone stays.
MayDisappear(b, prior, i) ==
  /\ \/ Lifecycle(prior, i) \in Terminal
     \/ BuriedAs(b, i, "revoked") /\ b.epoch > prior.epoch
  /\ Buried(b, i)

\* Bindings of ids never change, and their lifecycle goes forward.
RecordsFollow(b, prior) ==
  \A i \in Ids : Present(prior, i) =>
    IF Present(b, i)
    THEN /\ b.records[i].binding = prior.records[i].binding
         /\ LifecycleFollows(prior.records[i], b.records[i])
    ELSE MayDisappear(b, prior, i)

\* A tombstoned id or a revoked key is not used again.  (The code also checks that
\* no tombstoned record is reactivated; this forbids the record altogether.)
NothingBuriedReturns(b, prior) ==
  /\ \A i \in Ids : Present(b, i) => ~Buried(prior, i)
  /\ \A k \in KeyIds : Present(b, k) => b.records[k].binding \notin prior.revokedKeys

Upgraded(old, new) ==
  /\ old.reason = "retired" /\ new.reason = "revoked"
  /\ new.binding = old.binding
  /\ new.at >= old.at

\* The retired or revoked record that has gone is buried for what it was, and a
\* retired one was kept for as long as its tombstone says.
GoneInTime(b, prior, i) ==
  LET t == b.tombstones[i] IN
  CASE Lifecycle(prior, i) = "retired" -> t.reason = "retired" /\ b.generation >= t.retain
    [] Lifecycle(prior, i) = "revoked" -> t.reason = "revoked"
    [] OTHER                           -> TRUE

\* Mutant: the tombstones of records that are still listed are looked at.
TombstonesStayForRecords(b, prior) ==
  \A i \in Ids : Buried(prior, i) /\ Present(prior, i) => Buried(b, i)

TombstonesStay(b, prior) == \A i \in Ids : Buried(prior, i) => Buried(b, i)

\* A tombstone has a source, tells the truth about it, and does not change but for a
\* retired one that becomes a revoked one.
TombstonesFollow(b, prior) ==
  \A i \in Ids : Buried(b, i) =>
    /\ Present(b, i) \/ Present(prior, i) \/ Buried(prior, i)
    /\ Present(b, i) => /\ Lifecycle(b, i) = b.tombstones[i].reason
                        /\ b.records[i].binding = b.tombstones[i].binding
    /\ ~Present(b, i) /\ Present(prior, i) =>
         /\ prior.records[i].binding = b.tombstones[i].binding
         /\ GoneInTime(b, prior, i)
    /\ Buried(prior, i) => \/ b.tombstones[i] = prior.tombstones[i]
                           \/ Upgraded(prior.tombstones[i], b.tombstones[i])

RevokedEnd(b, i) == Is(b, i, {"revoked"}) \/ BuriedAs(b, i, "revoked")

\* Mutant: the edge may reach back to before its ends were active.
BoundToActiveNow(b, e) == \A i \in {e[1], e[2]} : Is(b, i, {"active"})

\* A production edge is bound to active material, from its activation on.
BoundToActive(b, e) ==
  \A i \in {e[1], e[2]} : Is(b, i, {"active"}) /\ b.edges[e].from >= b.records[i].changedAt

\* An edge disappears when it has ended or an end is revoked, never widens, and is
\* promoted, or appears in production, only between active ends.
EdgesFollow(b, prior) ==
  \A e \in Edges :
    LET old == prior.edges[e]  new == b.edges[e] IN
    /\ old # NoEntry /\ new = NoEntry =>
         old.until <= b.issuedAt \/ RevokedEnd(b, e[1]) \/ RevokedEnd(b, e[2])
    /\ old # NoEntry /\ new # NoEntry =>
         /\ new.until <= old.until
         /\ \/ new.channel = old.channel /\ new.from = old.from
            \/ /\ old.channel = "canary" /\ new.channel = "production"
               /\ new.from >= old.from
               /\ BoundToActive(b, e)
    /\ old = NoEntry /\ new # NoEntry /\ new.channel = "production" => BoundToActive(b, e)

NothingRevokedIsLive(b, prior) ==
  \A k \in KeyIds : Present(b, k) /\ Lifecycle(b, k) # "revoked" =>
    b.records[k].binding \notin prior.revokedKeys \cup b.revokedKeys

\* validateDurableTransition: there is no prior state, the same bundle is brought
\* again, or the bundle is of a later generation and undoes nothing.
Follows(b, prior) ==
  \/ prior = NoBundle
  \/ b = prior /\ Consistent(prior)
  \/ /\ prior # NoBundle
     /\ Consistent(prior)
     /\ b.generation > prior.generation
     /\ b.epoch >= prior.epoch
     /\ prior.revokedKeys \subseteq b.revokedKeys
     /\ RecordsFollow(b, prior)
     /\ NothingBuriedReturns(b, prior)
     /\ TombstonesStay(b, prior)
     /\ TombstonesFollow(b, prior)
     /\ EdgesFollow(b, prior)
     /\ NothingRevokedIsLive(b, prior)

Verifies(b) ==
  /\ WellShaped(b)
  /\ Fresh(b)
  /\ AboveFloor(b)
  /\ ValidAlone(b)
  /\ Follows(b, accepted)

-----------------------------------------------------------------------------
(* What the accepted bundle authorizes *)

Within(t, window) == window.from <= t /\ t < window.until

\* Mutant: material that is being retired still issues.
CanIssueLate(r, t) == r.lifecycle \notin Terminal /\ r.changedAt <= t

CanIssue(r, t) == r.lifecycle \in {"preactive", "active"} /\ r.changedAt <= t

CanVerify(b, r, t) ==
  /\ r.lifecycle \in {"retiring", "retired"} => t < r.changedAt /\ t < b.issuedAt
  /\ r.lifecycle = "active" => r.changedAt <= t

\* resolveMarketplaceTrustBundleAttestationTuple
Resolves(b, e, t, mode, phase, canary) ==
  LET key == b.records[e[1]]  release == b.records[e[2]] IN
  /\ e \in Tuples(b)
  /\ mode \in Enables[release.binding]
  /\ Within(t, b.edges[e]) /\ Within(t, key) /\ Within(t, release)
  /\ b.edges[e].channel = "canary" => canary
  /\ "preactive" \in {key.lifecycle, release.lifecycle} =>
       canary /\ b.edges[e].channel = "canary"
  /\ IF phase = "issuance"
     THEN CanIssue(key, t) /\ CanIssue(release, t) /\ t >= b.issuedAt
     ELSE CanVerify(b, key, t) /\ CanVerify(b, release, t)
  /\ t < b.expiresAt

-----------------------------------------------------------------------------
Init ==
  /\ accepted = NoBundle
  /\ now = 1
  /\ dead = {}
  /\ activated = [i \in Ids |-> NoEntry]

\* A bundle is verified, and becomes the durable state.
Accept(b) ==
  /\ b # accepted
  /\ Verifies(b)
  /\ accepted' = IF accepted = NoBundle THEN b
                 ELSE [b EXCEPT !.revokedKeys = @ \cup accepted.revokedKeys \cup Revoked(b)]
  /\ dead' = dead \cup b.revokedKeys \cup Revoked(b)
  /\ activated' = [i \in Ids |->
       IF activated[i] = NoEntry /\ Is(b, i, {"active"}) THEN b.records[i].changedAt
       ELSE activated[i]]
  /\ UNCHANGED now

Publish == \E b \in Drafts(accepted, now) : Accept(b)

Tick ==
  /\ now < MaxTime
  /\ now' = now + 1
  /\ UNCHANGED <<accepted, dead, activated>>

Next == Publish \/ Tick

Spec == Init /\ [][Next]_vars

-----------------------------------------------------------------------------
(* Properties *)

\* What the code leaves to the root: the first bundle is checked alone, and no rule about a
\* predecessor is asked of it.  Three things nobody checks of a first bundle, and which only
\* what follows a predecessor has to have: its tombstones fit its records; none of its own
\* live keys is on its list of revoked ones; and its production edges are between active
\* ends, from their activation on.
FirstIsConsistent == \A t \in 0..MaxTime : \A b \in Drafts(NoBundle, t) : Consistent(b)

FirstListsNoLiveKey ==
  \A t \in 0..MaxTime : \A b \in Drafts(NoBundle, t) :
    \A k \in KeyIds : Present(b, k) /\ Lifecycle(b, k) # "revoked" =>
      b.records[k].binding \notin b.revokedKeys

FirstProductionIsActive ==
  \A t \in 0..MaxTime : \A b \in Drafts(NoBundle, t) :
    \A e \in Edges : b.edges[e] # NoEntry /\ b.edges[e].channel = "production" =>
      BoundToActive(b, e)

FirstIsClean == FirstIsConsistent /\ FirstListsNoLiveKey /\ FirstProductionIsActive

\* A key that was revoked once, in place, by its tombstone or by the list of
\* fingerprints, authorizes nothing any more: not under its own id or another one,
\* and however many bundles later.
RevokedNeverReturns ==
  accepted # NoBundle =>
    \A e \in Tuples(accepted) : accepted.records[e[1]].binding \notin dead

\* An attestation that verifies without canary permission is dated after its key
\* and its release had become active, also when that moment is no longer recorded.
OnlyActiveMaterialVerifies ==
  accepted # NoBundle =>
    \A e \in Edges, t \in 0..MaxTime, m \in Modes :
      Resolves(accepted, e, t, m, "verification", FALSE) =>
        \A i \in {e[1], e[2]} : activated[i] # NoEntry /\ activated[i] <= t

\* The state that was accepted is one that the next verification takes for
\* consistent: an accepted bundle cannot wedge the controller by its tombstones.
AcceptedIsConsistent == accepted # NoBundle => Consistent(accepted)

\* As long as a bundle is fresh its active pair may issue, with every mode of the
\* release: what assertActiveTuple checked is enough for the resolution.
ActiveTupleMayIssue ==
  accepted # NoBundle =>
    \A t \in 0..MaxTime, m \in Modes :
      /\ t >= accepted.issuedAt /\ t < accepted.expiresAt
      /\ m \in Enables[accepted.records[accepted.release].binding]
      => Resolves(accepted, <<accepted.signer, accepted.release>>, t, m, "issuance", FALSE)

\* What was issued under a bundle while it was accepted verifies under it.
IssuedVerifies ==
  accepted # NoBundle =>
    \A e \in Edges, t \in 0..MaxTime, m \in Modes, canary \in BOOLEAN :
      Resolves(accepted, e, t, m, "issuance", canary) =>
        Resolves(accepted, e, t, m, "verification", canary)

BoundTo(b, i) == {x.binding : x \in {b.records[i], b.tombstones[i]} \ {NoEntry}}

\* An id that was bound stays known and bound to the same thing, through every
\* rotation, retirement and disappearance; a tombstone stays, and only a retired
\* one may become a revoked one.
IdentitiesArePermanent ==
  [][accepted # NoBundle =>
       \A i \in Ids :
         /\ BoundTo(accepted, i) \subseteq BoundTo(accepted', i)
         /\ Buried(accepted, i) =>
              /\ Buried(accepted', i)
              /\ BuriedAs(accepted, i, "revoked") => BuriedAs(accepted', i, "revoked")]_vars

\* The accepted bundle is consistent with the durable state, never brings revoked material
\* back, verifies only what is dated after its activation, and lets its active pair issue
\* what then verifies.
AcceptedIsSound ==
    /\ RevokedNeverReturns
    /\ OnlyActiveMaterialVerifies
    /\ AcceptedIsConsistent
    /\ ActiveTupleMayIssue
    /\ IssuedVerifies
=============================================================================
