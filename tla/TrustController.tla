--------------------------- MODULE TrustController ---------------------------
(***************************************************************************)
(* The trust controller of the category issuer                             *)
(* (marketplace-core/src/category-trust-controller.ts).                    *)
(*                                                                         *)
(* A call brings a signed trust bundle.  The controller verifies it against*)
(* the durable trust state, moves the state there by a compare-and-swap,   *)
(* and reads it again before it trusts its own write.  A permit to issue is*)
(* bound to that state; withPermit runs an operation under a fence of the  *)
(* store which keeps every compare-and-swap out.                           *)
(*                                                                         *)
(* The store is an external interface: an action is the moment it answers, *)
(* or takes a write whose caller no longer waits for it.                   *)
(***************************************************************************)
EXTENDS Naturals

CONSTANTS
  Bundles,          \* the bundles the root signed
  Generation,       \* their generations
  RevocationEpoch,  \* their revocation epochs
  Revoked,          \* the keys each of them names as revoked
  ActiveSigner,     \* the one key each of them lets issue
  RollbackFloor,    \* the least generation the controller is configured for
  Keys,
  Calls,            \* the callers, one call of each at a time
  Wire,             \* the bundle each caller was configured with
  Signer,           \* the key each caller signs with
  NoBundle, None,
  MaxMishaps        \* bound on kills and lost answers

\* The key a bundle lets issue is none that it revokes: the verification of every
\* bundle but the first checks it, and the root signs no other first one.
ASSUME BundlesAssumption ==
  /\ NoBundle \notin Bundles
  /\ Generation \in [Bundles -> Nat]
  /\ RevocationEpoch \in [Bundles -> Nat]
  /\ Revoked \in [Bundles -> SUBSET Keys]
  /\ ActiveSigner \in [Bundles -> Keys]
  /\ \A b \in Bundles : ActiveSigner[b] \notin Revoked[b]
ASSUME CallsAssumption ==
  /\ None \notin Calls
  /\ Wire \in [Calls -> Bundles]
  /\ Signer \in [Calls -> Keys]
ASSUME BoundsAssumption == RollbackFloor \in Nat /\ MaxMishaps \in Nat

VARIABLES
  trust,     \* the durable trust state: the bundle it was derived from
  fence,     \* the call whose operation holds the state's revision
  late,      \* swaps their caller gave up and the store may still take
  call,      \* where each call is, and the answer of the last one
  permit,    \* the permit each caller was issued last, by its bundle
  consumed,  \* consumedPermits: the callers whose permit was used
  mishaps

trustVars == <<trust, fence, late, call, permit, consumed, mishaps>>

Pcs == {"idle", "load", "cas", "reload", "confirm", "asserted", "inside"}
Swaps == [from : Bundles \cup {NoBundle}, to : Bundles]
CallRecords == [pc : Pcs, op : {"prepare", "permit"}, before : Bundles \cup {NoBundle},
                uses : Calls \cup {None}, reply : {"none", "ok", "fail"}]

NoCall == [pc |-> "idle", op |-> "prepare", before |-> NoBundle,
           uses |-> None, reply |-> "none"]

TrustTypeOK ==
  /\ trust \in Bundles \cup {NoBundle}
  /\ fence \in Calls \cup {None}
  /\ late \subseteq Swaps
  /\ call \in [Calls -> CallRecords]
  /\ permit \in [Calls -> Bundles \cup {NoBundle}]
  /\ consumed \subseteq Calls
  /\ mishaps \in 0..MaxMishaps

TrustInit ==
  /\ trust = NoBundle
  /\ fence = None
  /\ late = {}
  /\ call = [c \in Calls |-> NoCall]
  /\ permit = [c \in Calls |-> NoBundle]
  /\ consumed = {}
  /\ mishaps = 0

Mishap == mishaps < MaxMishaps /\ mishaps' = mishaps + 1

-----------------------------------------------------------------------------
(* verifyAndCommit *)

\* What verifyMarketplaceTrustBundle demands of a bundle of a later generation.
Advances(prior, b) ==
  /\ Generation[b] > Generation[prior]
  /\ RevocationEpoch[b] >= RevocationEpoch[prior]
  /\ Revoked[prior] \subseteq Revoked[b]

\* Mutant: the bundle is judged by itself.
MayFollowAny(b, prior) == TRUE

\* The same bundle again, or one that advances the prior state.
MayFollow(b, prior) == prior \notin {NoBundle, b} => Advances(prior, b)

Verifies(b, prior) ==
  /\ Generation[b] >= RollbackFloor
  /\ MayFollow(b, prior)

Goto(c, pc) == call' = [call EXCEPT ![c].pc = pc]
Return(c, reply) == call' = [call EXCEPT ![c] = [NoCall EXCEPT !.reply = reply]]

\* prepare or issuePermit is called.
Begin(c, op) ==
  /\ call[c].pc = "idle"
  /\ call' = [call EXCEPT ![c] = [NoCall EXCEPT !.pc = "load", !.op = op]]
  /\ UNCHANGED <<trust, fence, late, permit, consumed, mishaps>>

\* The state is read and the bundle verified against it.  The bundle may also be
\* past its expiry, and the read may fail.
Load(c) ==
  /\ call[c].pc = "load"
  /\ \/ /\ Verifies(Wire[c], trust)
        /\ call' = [call EXCEPT ![c].before = trust,
                                 ![c].pc = IF trust = Wire[c] THEN "confirm" ELSE "cas"]
     \/ Return(c, "fail")
  /\ UNCHANGED <<trust, fence, late, permit, consumed, mishaps>>

\* The store takes a swap, unless an operation holds the revision.
Swap(from, to) ==
  /\ fence = None
  /\ trust' = IF trust = from THEN to ELSE trust

LandSwap(c) ==
  /\ call[c].pc = "cas"
  /\ Swap(call[c].before, Wire[c])
  /\ Goto(c, IF trust = call[c].before THEN "confirm" ELSE "reload")
  /\ UNCHANGED <<fence, late, permit, consumed, mishaps>>

\* The answer to the swap is lost; the store may have taken it, or take it yet.
LoseSwap(c) ==
  /\ call[c].pc = "cas"
  /\ Mishap
  /\ late' = late \cup {[from |-> call[c].before, to |-> Wire[c]]}
  /\ Goto(c, "reload")
  /\ UNCHANGED <<trust, fence, permit, consumed>>

LandLateSwap(m) ==
  /\ m \in late
  /\ Swap(m.from, m.to)
  /\ late' = late \ {m}
  /\ UNCHANGED <<fence, call, permit, consumed, mishaps>>

\* After a conflict or a lost answer the state decides.  Any read may fail.
Reload(c) ==
  /\ call[c].pc = "reload"
  /\ \/ trust = Wire[c] /\ Goto(c, "confirm")
     \/ Return(c, "fail")
  /\ UNCHANGED <<trust, fence, late, permit, consumed, mishaps>>

\* The issuance tuple may be refused for its validity interval.
MayIssue(c) == ActiveSigner[Wire[c]] = Signer[c]

\* The state is read once more; a permit is bound to it.
Confirm(c) ==
  /\ call[c].pc = "confirm"
  /\ \/ /\ trust = Wire[c]
        /\ call[c].op = "prepare"
        /\ Return(c, "ok")
        /\ UNCHANGED <<permit, consumed>>
     \/ /\ trust = Wire[c]
        /\ call[c].op = "permit"
        /\ MayIssue(c)
        /\ Return(c, "ok")
        /\ permit' = [permit EXCEPT ![c] = Wire[c]]
        /\ consumed' = consumed \ {c}
     \/ /\ Return(c, "fail")
        /\ UNCHANGED <<permit, consumed>>
  /\ UNCHANGED <<trust, fence, late, mishaps>>

-----------------------------------------------------------------------------
(* withPermit *)

\* assertPermit, before the fence is asked for.
AssertPermit(c, p) ==
  /\ call[c].pc = "idle"
  /\ permit[p] # NoBundle
  /\ p \notin consumed
  /\ call' = [call EXCEPT ![c] = [NoCall EXCEPT !.pc = "asserted", !.uses = p]]
  /\ UNCHANGED <<trust, fence, late, permit, consumed, mishaps>>

\* Mutant: the permit's state is not compared with the durable one.
EnterFenceUnread(c) ==
  /\ call[c].pc = "asserted"
  /\ fence = None
  /\ fence' = c
  /\ consumed' = consumed \cup {call[c].uses}
  /\ Goto(c, "inside")
  /\ UNCHANGED <<trust, late, permit, mishaps>>

\* Under the fence the state is read; if it is the permit's, the operation runs.
EnterFence(c) ==
  /\ call[c].pc = "asserted"
  /\ fence = None
  /\ \/ /\ trust = permit[call[c].uses]
        /\ fence' = c
        /\ consumed' = consumed \cup {call[c].uses}
        /\ Goto(c, "inside")
     \/ /\ Return(c, "fail")
        /\ UNCHANGED <<fence, consumed>>
  /\ UNCHANGED <<trust, late, permit, mishaps>>

\* The operation is over, whatever came of it.
Leave(c, reply) ==
  /\ call[c].pc = "inside"
  /\ fence' = None
  /\ Return(c, reply)
  /\ UNCHANGED <<trust, late, permit, consumed>>

LeaveFence(c, reply) == Leave(c, reply) /\ UNCHANGED mishaps

\* A caller is killed: the store drops its fence, a swap may still land.
KillCall(c) ==
  /\ Mishap
  /\ fence' = IF fence = c THEN None ELSE fence
  /\ late' = IF call[c].pc = "cas"
               THEN late \cup {[from |-> call[c].before, to |-> Wire[c]]} ELSE late
  /\ call' = [call EXCEPT ![c] = NoCall]
  /\ permit' = [permit EXCEPT ![c] = NoBundle]
  /\ consumed' = consumed \ {c}
  /\ UNCHANGED trust

ControllerStep ==
  \/ \E c \in Calls : Load(c) \/ LandSwap(c) \/ LoseSwap(c) \/ Reload(c)
                        \/ Confirm(c) \/ EnterFence(c)
  \/ \E m \in late : LandLateSwap(m)

\* A permit is used by whoever holds it; it is not replaced while one does.
TrustNext ==
  \/ ControllerStep
  \/ \E c \in Calls : Begin(c, "prepare") \/ LeaveFence(c, "ok")
  \/ \E c \in Calls : Begin(c, "permit") /\ permit[c] = NoBundle
  \/ \E c, p \in Calls : AssertPermit(c, p)

TrustSpec == TrustInit /\ [][TrustNext]_trustVars

-----------------------------------------------------------------------------
(* Properties *)

\* The durable trust state only moves forward: no interleaving of callers, lost
\* answer or late swap lowers the generation or the revocation epoch, or
\* forgets a revoked key (verifyAndCommit over the store's compare-and-swap).
TrustNeverRollsBack ==
  [][trust' # trust /\ trust # NoBundle =>
       trust' # NoBundle /\ Advances(trust, trust')]_trustVars

=============================================================================
