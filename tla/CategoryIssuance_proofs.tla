----------------------- MODULE CategoryIssuance_proofs -----------------------
(***************************************************************************)
(* Proofs about CategoryIssuance, for any bundles, callers, blocks, bounds,*)
(* and about the identities and quotes it starts from and the verdicts it  *)
(* ends in, for any chain, requests, clocks and limits.                    *)
(*                                                                         *)
(* The argument.  A swap was verified against the very state it expects,   *)
(* so the store can take it late and the trust state still only advances   *)
(* (SwapsAdvance).  A call is inside the operation exactly while it has the*)
(* fence (FenceIsHeld); it compared its permit with the state after it had *)
(* the fence, and no swap lands meanwhile (FenceKeepsRevision).  A workflow*)
(* is in a phase that signs or commits only inside the operation           *)
(* (FencedIsInside), and a record it recovers is final (RecoveredIsFinal). *)
(*                                                                         *)
(* A capture knows at each step what it has read, all of it said by one    *)
(* block that was deep when it was named (Knows); blocks never change what *)
(* they say.  A workflow holds at each step the window it opened, and from *)
(* the challenge on an identity that is over and so stays as it is, read at*)
(* the snapshot (Anchored): an answer found acceptable against the two is  *)
(* acceptable against them for good, but for the clock (Holds).            *)
(*                                                                         *)
(* What was signed is of one candidate and one block (WellSigned), and what*)
(* was issued was accepted at some second (WellIssued).  Only the windows  *)
(* of what it rests on depend on the second, and the boundary of a report  *)
(* is the least of their ends (BoundaryIs).                                *)
(***************************************************************************)
EXTENDS MCCategoryIssuance, TLAPS

SwapsAdvance ==
  /\ \A m \in late : m.from # NoBundle => Advances(m.from, m.to)
  /\ \A c \in Calls : call[c].pc = "cas" /\ call[c].before # NoBundle
                        => Advances(call[c].before, Wire[c])

FenceIsHeld == \A c \in Calls : call[c].pc = "inside" <=> fence = c

PermitsAreOwn ==
  \A c \in Calls :
    /\ permit[c] # NoBundle => permit[c] = Wire[c] /\ ActiveSigner[Wire[c]] = Signer[c]
    /\ call[c].pc \in {"asserted", "inside"} => call[c].uses = c /\ permit[c] # NoBundle

FenceKeepsRevision == \A c \in Calls : call[c].pc = "inside" => trust = Wire[c]

TrustInv ==
  /\ TrustTypeOK
  /\ SwapsAdvance
  /\ FenceIsHeld
  /\ PermitsAreOwn
  /\ FenceKeepsRevision

\* What TrustNeverRollsBack says of one step.
StateAdvances ==
  trust' # trust /\ trust # NoBundle => trust' # NoBundle /\ Advances(trust, trust')

\* No call but those of C leaves the operation.
InsideStays(C) ==
  \A c \in Calls \ C : call[c].pc = "inside" => call'[c].pc = "inside"

-----------------------------------------------------------------------------
(* The trust controller *)

\* A call that is over, and one that was just begun, are within the type.
LEMMA CallTypes ==
  /\ NoCall \in CallRecords
  /\ \A r \in {"none", "ok", "fail"} : [NoCall EXCEPT !.reply = r] \in CallRecords
  /\ \A op \in {"prepare", "permit"} :
       [NoCall EXCEPT !.pc = "load", !.op = op] \in CallRecords
  /\ \A c \in Calls : [NoCall EXCEPT !.pc = "asserted", !.uses = c] \in CallRecords
BY DEF NoCall, CallRecords, Pcs

\* What the end of a call leaves of it.
LEMMA Returned ==
  ASSUME TrustTypeOK, NEW c \in Calls, NEW r \in {"ok", "fail"}, Return(c, r)
  PROVE  /\ call' \in [Calls -> CallRecords]
         /\ call'[c].pc = "idle"
         /\ \A d \in Calls \ {c} : call'[d] = call[d]
BY CallTypes DEF TrustTypeOK, Return, NoCall

\* What a step within a call leaves of it.
LEMMA Moved ==
  ASSUME TrustTypeOK, NEW c \in Calls, NEW pc \in Pcs, Goto(c, pc)
  PROVE  /\ call' \in [Calls -> CallRecords]
         /\ call'[c].pc = pc
         /\ call'[c].before = call[c].before
         /\ call'[c].uses = call[c].uses
         /\ \A d \in Calls \ {c} : call'[d] = call[d]
BY DEF TrustTypeOK, Goto, CallRecords

\* A step of a call that neither enters nor leaves the operation and touches
\* nothing else of the controller keeps the invariant.
LEMMA CallStepKeeps ==
  ASSUME TrustInv, NEW c \in Calls,
         call[c].pc # "inside",
         UNCHANGED <<trust, fence, late, permit>>,
         consumed' \subseteq Calls, mishaps' \in 0..MaxMishaps,
         call' \in [Calls -> CallRecords],
         \A d \in Calls \ {c} : call'[d] = call[d],
         call'[c].pc # "inside",
         call'[c].pc = "cas" /\ call'[c].before # NoBundle => Advances(call'[c].before, Wire[c]),
         call'[c].pc = "asserted" => call'[c].uses = c /\ permit[c] # NoBundle
  PROVE  TrustInv' /\ StateAdvances /\ InsideStays({})
<1>1. TrustTypeOK'
  BY DEF TrustInv, TrustTypeOK
<1>2. SwapsAdvance'
  BY DEF TrustInv, SwapsAdvance, Advances
<1>3. FenceIsHeld'
  BY DEF TrustInv, FenceIsHeld
<1>4. PermitsAreOwn'
  BY DEF TrustInv, PermitsAreOwn
<1>5. FenceKeepsRevision'
  BY DEF TrustInv, FenceKeepsRevision
<1>6. StateAdvances /\ InsideStays({})
  BY DEF StateAdvances, InsideStays
<1> QED
  BY <1>1, <1>2, <1>3, <1>4, <1>5, <1>6 DEF TrustInv

LEMMA BeginKeeps ==
  ASSUME TrustInv, NEW c \in Calls, NEW op \in {"prepare", "permit"}, Begin(c, op)
  PROVE  TrustInv' /\ StateAdvances /\ InsideStays({})
<1>1. /\ call' \in [Calls -> CallRecords]
      /\ call'[c].pc = "load"
      /\ \A d \in Calls \ {c} : call'[d] = call[d]
  BY CallTypes DEF TrustInv, TrustTypeOK, Begin, NoCall
<1> QED
  BY <1>1, CallStepKeeps DEF TrustInv, TrustTypeOK, Begin

LEMMA LoadKeeps ==
  ASSUME TrustInv, NEW c \in Calls, Load(c)
  PROVE  TrustInv' /\ StateAdvances /\ InsideStays({})
<1>a. call[c].pc = "load" /\ UNCHANGED <<trust, fence, late, permit, consumed, mishaps>>
  BY DEF Load
<1>b. TrustTypeOK
  BY DEF TrustInv
<1>1. CASE Return(c, "fail")
  BY <1>1, <1>a, <1>b, Returned, CallStepKeeps DEF TrustTypeOK
<1>2. CASE ~Return(c, "fail")
  <2>1. /\ call' \in [Calls -> CallRecords]
        /\ call'[c].pc \in {"confirm", "cas"}
        /\ call'[c].pc = "cas" => trust # Wire[c]
        /\ call'[c].before = trust
        /\ \A d \in Calls \ {c} : call'[d] = call[d]
    BY <1>2, <1>b DEF TrustTypeOK, Load, CallRecords, Pcs
  <2>2. trust \notin {NoBundle, Wire[c]} => Advances(trust, Wire[c])
    BY <1>2 DEF Load, Verifies, MayFollow
  <2> QED
    BY <1>a, <1>b, <2>1, <2>2, CallStepKeeps DEF TrustTypeOK
<1> QED
  BY <1>1, <1>2

\* A swap the store takes moves the trust state forward, or not at all.
LEMMA SwapAdvances ==
  ASSUME NEW from, NEW to \in Bundles, Swap(from, to),
         from # NoBundle => Advances(from, to)
  PROVE  StateAdvances
BY BundlesAssumption DEF Swap, StateAdvances

LEMMA LandSwapKeeps ==
  ASSUME TrustInv, NEW c \in Calls, LandSwap(c)
  PROVE  TrustInv' /\ StateAdvances /\ InsideStays({})
<1>a. TrustTypeOK /\ Wire[c] \in Bundles /\ None \notin Calls
  BY CallsAssumption DEF TrustInv
<1>1. /\ call' \in [Calls -> CallRecords]
      /\ call'[c].pc \in {"confirm", "reload"}
      /\ \A d \in Calls \ {c} : call'[d] = call[d]
  BY <1>a, Moved DEF LandSwap, Pcs
<1>2. StateAdvances
  BY <1>a, SwapAdvances DEF LandSwap, TrustInv, SwapsAdvance
<1>3. TrustTypeOK'
  BY <1>a, <1>1 DEF TrustTypeOK, LandSwap, Swap
<1>4. SwapsAdvance' /\ PermitsAreOwn'
  BY <1>1 DEF TrustInv, SwapsAdvance, PermitsAreOwn, LandSwap, Advances
<1>5. \A d \in Calls : call[d].pc # "inside" /\ call'[d].pc # "inside"
  BY <1>a, <1>1 DEF TrustInv, FenceIsHeld, LandSwap, Swap
<1>6. FenceIsHeld' /\ FenceKeepsRevision'
  BY <1>a, <1>5 DEF FenceIsHeld, FenceKeepsRevision, LandSwap, Swap
<1> QED
  BY <1>2, <1>3, <1>4, <1>5, <1>6 DEF TrustInv, InsideStays

LEMMA LoseSwapKeeps ==
  ASSUME TrustInv, NEW c \in Calls, LoseSwap(c)
  PROVE  TrustInv' /\ StateAdvances /\ InsideStays({})
<1>a. TrustTypeOK /\ Wire[c] \in Bundles
  BY CallsAssumption DEF TrustInv
<1>1. /\ call' \in [Calls -> CallRecords]
      /\ call'[c].pc = "reload"
      /\ \A d \in Calls \ {c} : call'[d] = call[d]
  BY <1>a, Moved DEF LoseSwap, Pcs
<1>2. [from |-> call[c].before, to |-> Wire[c]] \in Swaps
  BY <1>a DEF TrustTypeOK, CallRecords, Swaps
<1>3. TrustTypeOK'
  BY <1>a, <1>1, <1>2, BoundsAssumption DEF TrustTypeOK, LoseSwap, Mishap
<1>4. SwapsAdvance'
  <2>1. SUFFICES ASSUME NEW m \in late', m.from # NoBundle
                 PROVE  Advances(m.from, m.to)
    BY <1>1 DEF TrustInv, SwapsAdvance, Advances
  <2>2. m \in late \/ m = [from |-> call[c].before, to |-> Wire[c]]
    BY DEF LoseSwap
  <2>3. call[c].pc = "cas"
    BY DEF LoseSwap
  <2> QED
    BY <2>1, <2>2, <2>3 DEF TrustInv, SwapsAdvance
<1>5. PermitsAreOwn'
  BY <1>1 DEF TrustInv, PermitsAreOwn, LoseSwap
<1>6. FenceIsHeld' /\ FenceKeepsRevision' /\ StateAdvances /\ InsideStays({})
  BY <1>1 DEF TrustInv, FenceIsHeld, FenceKeepsRevision, StateAdvances, InsideStays, LoseSwap
<1> QED
  BY <1>3, <1>4, <1>5, <1>6 DEF TrustInv

LEMMA LandLateSwapKeeps ==
  ASSUME TrustInv, NEW m \in late, LandLateSwap(m)
  PROVE  TrustInv' /\ StateAdvances /\ InsideStays({})
<1>a. TrustTypeOK /\ None \notin Calls /\ m.to \in Bundles
  BY CallsAssumption DEF TrustInv, TrustTypeOK, Swaps
<1>1. StateAdvances
  BY <1>a, SwapAdvances DEF LandLateSwap, TrustInv, SwapsAdvance
<1>2. TrustTypeOK'
  BY <1>a DEF TrustTypeOK, LandLateSwap, Swap
<1>3. SwapsAdvance' /\ PermitsAreOwn'
  BY DEF TrustInv, SwapsAdvance, PermitsAreOwn, LandLateSwap, Advances
<1>4. FenceIsHeld' /\ FenceKeepsRevision' /\ InsideStays({})
  BY <1>a DEF TrustInv, FenceIsHeld, FenceKeepsRevision, InsideStays, LandLateSwap, Swap
<1> QED
  BY <1>1, <1>2, <1>3, <1>4 DEF TrustInv

LEMMA ReloadKeeps ==
  ASSUME TrustInv, NEW c \in Calls, Reload(c)
  PROVE  TrustInv' /\ StateAdvances /\ InsideStays({})
<1>a. TrustTypeOK
  BY DEF TrustInv
<1>1. /\ call' \in [Calls -> CallRecords]
      /\ call'[c].pc \in {"confirm", "idle"}
      /\ \A d \in Calls \ {c} : call'[d] = call[d]
  <2>1. CASE Goto(c, "confirm")
    BY <1>a, <2>1, Moved DEF Pcs
  <2>2. CASE Return(c, "fail")
    BY <1>a, <2>2, Returned
  <2> QED
    BY <2>1, <2>2 DEF Reload
<1> QED
  BY <1>a, <1>1, CallStepKeeps DEF TrustTypeOK, Reload

LEMMA ConfirmKeeps ==
  ASSUME TrustInv, NEW c \in Calls, Confirm(c)
  PROVE  TrustInv' /\ StateAdvances /\ InsideStays({})
<1>a. TrustTypeOK /\ Wire[c] \in Bundles /\ NoBundle \notin Bundles
  BY BundlesAssumption, CallsAssumption DEF TrustInv
<1>1. /\ call' \in [Calls -> CallRecords]
      /\ call'[c].pc = "idle"
      /\ \A d \in Calls \ {c} : call'[d] = call[d]
  <2>1. Return(c, "ok") \/ Return(c, "fail")
    BY DEF Confirm
  <2> QED
    BY <1>a, <2>1, Returned
<1>2. CASE UNCHANGED <<permit, consumed>>
  BY <1>a, <1>1, <1>2, CallStepKeeps DEF TrustTypeOK, Confirm
<1>3. CASE ~UNCHANGED <<permit, consumed>>
  <2>1. /\ permit' = [permit EXCEPT ![c] = Wire[c]]
        /\ consumed' = consumed \ {c}
        /\ ActiveSigner[Wire[c]] = Signer[c]
        /\ UNCHANGED <<trust, fence, late, mishaps>>
        /\ call[c].pc = "confirm"
    BY <1>3 DEF Confirm, MayIssue
  <2>2. TrustTypeOK'
    BY <1>a, <1>1, <2>1 DEF TrustTypeOK
  <2>3. SwapsAdvance'
    BY <1>1, <2>1 DEF TrustInv, SwapsAdvance, Advances
  <2>4. PermitsAreOwn'
    BY <1>a, <1>1, <2>1 DEF TrustInv, PermitsAreOwn, TrustTypeOK
  <2>5. FenceIsHeld' /\ FenceKeepsRevision' /\ StateAdvances /\ InsideStays({})
    BY <1>1, <2>1 DEF TrustInv, FenceIsHeld, FenceKeepsRevision, StateAdvances, InsideStays
  <2> QED
    BY <2>2, <2>3, <2>4, <2>5 DEF TrustInv
<1> QED
  BY <1>2, <1>3

\* A caller that uses its own permit.
LEMMA AssertPermitKeeps ==
  ASSUME TrustInv, NEW c \in Calls, AssertPermit(c, c)
  PROVE  TrustInv' /\ StateAdvances /\ InsideStays({})
<1>1. /\ call' \in [Calls -> CallRecords]
      /\ call'[c].pc = "asserted"
      /\ call'[c].uses = c
      /\ \A d \in Calls \ {c} : call'[d] = call[d]
  BY CallTypes DEF TrustInv, TrustTypeOK, AssertPermit, NoCall
<1> QED
  BY <1>1, CallStepKeeps DEF TrustInv, TrustTypeOK, AssertPermit

LEMMA EnterFenceKeeps ==
  ASSUME TrustInv, NEW c \in Calls, EnterFence(c)
  PROVE  TrustInv' /\ StateAdvances /\ InsideStays({})
<1>a. TrustTypeOK /\ None \notin Calls
  BY CallsAssumption DEF TrustInv
<1>1. CASE Return(c, "fail") /\ UNCHANGED <<fence, consumed>>
  BY <1>a, <1>1, Returned, CallStepKeeps DEF TrustTypeOK, EnterFence
<1>2. CASE /\ trust = permit[call[c].uses]
           /\ fence' = c
           /\ consumed' = consumed \cup {call[c].uses}
           /\ Goto(c, "inside")
  <2>1. /\ call' \in [Calls -> CallRecords]
        /\ call'[c].pc = "inside"
        /\ call'[c].uses = call[c].uses
        /\ \A d \in Calls \ {c} : call'[d] = call[d]
    BY <1>a, <1>2, Moved DEF EnterFence, Pcs
  <2>2. call[c].uses = c /\ permit[c] # NoBundle /\ permit[c] = Wire[c]
    BY DEF TrustInv, PermitsAreOwn, EnterFence
  <2>3. \A d \in Calls : call[d].pc # "inside"
    BY <1>a DEF TrustInv, FenceIsHeld, EnterFence
  <2>4. /\ fence = None
        /\ fence' = c
        /\ consumed' = consumed \cup {c}
        /\ UNCHANGED <<trust, late, permit, mishaps>>
    BY <1>2, <2>2 DEF EnterFence
  <2>5. TrustTypeOK'
    BY <1>a, <2>1, <2>4 DEF TrustTypeOK
  <2>6. SwapsAdvance'
    BY <2>1, <2>4 DEF TrustInv, SwapsAdvance, Advances
  <2>7. FenceIsHeld' /\ PermitsAreOwn'
    BY <2>1, <2>2, <2>3, <2>4 DEF TrustInv, FenceIsHeld, PermitsAreOwn
  <2>8. FenceKeepsRevision' /\ StateAdvances /\ InsideStays({})
    BY <1>2, <2>1, <2>2, <2>3, <2>4 DEF FenceKeepsRevision, StateAdvances, InsideStays
  <2> QED
    BY <2>5, <2>6, <2>7, <2>8 DEF TrustInv
<1> QED
  BY <1>1, <1>2 DEF EnterFence

LEMMA LeaveKeeps ==
  ASSUME TrustInv, NEW c \in Calls, NEW r \in {"ok", "fail"}, Leave(c, r),
         mishaps' \in 0..MaxMishaps
  PROVE  TrustInv' /\ StateAdvances /\ InsideStays({c})
<1>a. TrustTypeOK /\ None \notin Calls
  BY CallsAssumption DEF TrustInv
<1>1. /\ call' \in [Calls -> CallRecords]
      /\ call'[c].pc = "idle"
      /\ \A d \in Calls \ {c} : call'[d] = call[d]
  BY <1>a, Returned DEF Leave
<1>2. \A d \in Calls \ {c} : call[d].pc # "inside"
  BY DEF TrustInv, FenceIsHeld, Leave
<1>3. TrustTypeOK'
  BY <1>a, <1>1 DEF TrustTypeOK, Leave
<1>4. SwapsAdvance' /\ PermitsAreOwn'
  BY <1>1 DEF TrustInv, SwapsAdvance, PermitsAreOwn, Leave, Advances
<1>5. FenceIsHeld' /\ FenceKeepsRevision' /\ StateAdvances /\ InsideStays({c})
  BY <1>a, <1>1, <1>2 DEF FenceIsHeld, FenceKeepsRevision, StateAdvances, InsideStays, Leave
<1> QED
  BY <1>3, <1>4, <1>5 DEF TrustInv

LEMMA KillCallKeeps ==
  ASSUME TrustInv, NEW c \in Calls, KillCall(c)
  PROVE  TrustInv' /\ StateAdvances /\ InsideStays({c})
<1>a. TrustTypeOK /\ None \notin Calls /\ Wire[c] \in Bundles
  BY CallsAssumption DEF TrustInv
<1>1. /\ call' \in [Calls -> CallRecords]
      /\ call'[c].pc = "idle"
      /\ \A d \in Calls \ {c} : call'[d] = call[d]
  BY <1>a, CallTypes DEF KillCall, TrustTypeOK, NoCall
<1>2. [from |-> call[c].before, to |-> Wire[c]] \in Swaps
  BY <1>a DEF TrustTypeOK, CallRecords, Swaps
<1>3. TrustTypeOK'
  BY <1>a, <1>1, <1>2, BoundsAssumption DEF TrustTypeOK, KillCall, Mishap
<1>4. SwapsAdvance'
  <2>1. SUFFICES ASSUME NEW m \in late', m.from # NoBundle
                 PROVE  Advances(m.from, m.to)
    BY <1>1 DEF TrustInv, SwapsAdvance, KillCall, Advances
  <2>2. CASE m \in late
    BY <2>1, <2>2 DEF TrustInv, SwapsAdvance
  <2>3. CASE m \notin late
    <3>1. m = [from |-> call[c].before, to |-> Wire[c]] /\ call[c].pc = "cas"
      BY <2>1, <2>3 DEF KillCall
    <3> QED
      BY <2>1, <3>1 DEF TrustInv, SwapsAdvance
  <2> QED
    BY <2>2, <2>3
<1>5. PermitsAreOwn'
  BY <1>a, <1>1 DEF TrustInv, PermitsAreOwn, KillCall, TrustTypeOK
<1>6. FenceIsHeld' /\ FenceKeepsRevision'
  BY <1>a, <1>1 DEF TrustInv, FenceIsHeld, FenceKeepsRevision, KillCall
<1>7. StateAdvances /\ InsideStays({c})
  BY <1>1 DEF StateAdvances, InsideStays, KillCall
<1> QED
  BY <1>3, <1>4, <1>5, <1>6, <1>7 DEF TrustInv

\* Every step the controller and its store take by themselves.
LEMMA ControllerStepKeeps ==
  ASSUME TrustInv, ControllerStep
  PROVE  TrustInv' /\ StateAdvances /\ InsideStays({})
BY LoadKeeps, LandSwapKeeps, LoseSwapKeeps, ReloadKeeps, ConfirmKeeps, EnterFenceKeeps,
   LandLateSwapKeeps DEF ControllerStep

\* Steps that leave the controller alone.
LEMMA TrustStutterKeeps ==
  ASSUME TrustInv, UNCHANGED <<trust, fence, late, call, permit, consumed>>,
         mishaps' \in 0..MaxMishaps
  PROVE  TrustInv' /\ StateAdvances /\ InsideStays({})
BY DEF TrustInv, TrustTypeOK, SwapsAdvance, FenceIsHeld, PermitsAreOwn, FenceKeepsRevision,
   StateAdvances, InsideStays, Advances

-----------------------------------------------------------------------------
(* The issuance workflow *)

IssueTypeOK ==
  /\ canonical \in Blocks
  /\ store \in [IdempotencyKeys -> Reservations]
  /\ inFlight \subseteq IdempotencyKeys \X Attempts
  /\ issue \in [Workflows -> [phase : Phases, block : Blocks, attempt : 0..MaxAttempts]]
  /\ attempts \in 0..MaxAttempts
  /\ answered \in [IdempotencyKeys -> SUBSET Attempts]
  /\ abandoned \subseteq Attempts

\* An attempt that is being made has a number.
AttemptsAreNumbered == \A w \in Workflows : issue[w].phase # "idle" => issue[w].attempt \in Attempts

FencedIsInside == \A w \in Workflows : issue[w].phase \in Fenced => call[w].pc = "inside"

RecoveredIsFinal ==
  \A w \in Workflows :
    issue[w].phase \in {"recover", "recheck"} => store[Key(w)].status = "committed"

IssueInv ==
  /\ IssueTypeOK
  /\ AttemptsAreNumbered
  /\ FencedIsInside
  /\ RecoveredIsFinal
  /\ OneAttestationPerKey
  /\ ReservationsAreOwned

IInv == TrustInv /\ IssueInv

\* The attempt of one workflow changes, and its phase is within the types.
LEMMA PhaseMoved ==
  ASSUME IssueTypeOK, NEW w \in Workflows, NEW p \in Phases, Phase(w, p)
  PROVE  /\ issue' \in [Workflows -> [phase : Phases, block : Blocks, attempt : 0..MaxAttempts]]
         /\ issue'[w].phase = p
         /\ issue'[w].block = issue[w].block
         /\ issue'[w].attempt = issue[w].attempt
         /\ \A v \in Workflows \ {w} : issue'[v] = issue[v]
BY DEF IssueTypeOK, Phase

LEMMA IsDone ==
  ASSUME IssueTypeOK, NEW w \in Workflows, Done(w)
  PROVE  /\ issue' \in [Workflows -> [phase : Phases, block : Blocks, attempt : 0..MaxAttempts]]
         /\ issue'[w].phase = "idle"
         /\ \A v \in Workflows \ {w} : issue'[v] = issue[v]
<1>1. NoIssue \in [phase : Phases, block : Blocks, attempt : 0..MaxAttempts]
  BY IssuanceAssumption DEF NoIssue, Phases
<1> QED
  BY <1>1 DEF IssueTypeOK, Done, NoIssue

\* The key of a workflow is one of the keys.
LEMMA KeyType ==
  ASSUME IssueTypeOK, NEW w \in Workflows
  PROVE  Key(w) \in IdempotencyKeys
BY CallsAssumption, IssuanceAssumption DEF IssueTypeOK, Key, IdempotencyKeys

\* A step that leaves the store and the answers alone and keeps the workflow's
\* claim, or ends one that is not held, keeps the invariant.
LEMMA QuietKeeps ==
  ASSUME IssueInv, NEW w \in Workflows,
         UNCHANGED <<store, answered>>,
         canonical' \in Blocks,
         attempts' \in 0..MaxAttempts,
         inFlight' \subseteq IdempotencyKeys \X Attempts,
         abandoned' \subseteq Attempts, abandoned \subseteq abandoned',
         issue' \in [Workflows -> [phase : Phases, block : Blocks, attempt : 0..MaxAttempts]],
         \A v \in Workflows \ {w} : issue'[v] = issue[v],
         issue'[w].phase # "idle" => issue'[w].attempt \in Attempts,
         issue'[w].phase \in Fenced => call'[w].pc = "inside",
         issue'[w].phase \in {"recover", "recheck"} => store[Key(w)].status = "committed"
                                                      /\ issue'[w].block = issue[w].block,
         issue[w].phase \in Claimed =>
           \/ /\ issue'[w].phase \in Claimed
              /\ issue'[w].block = issue[w].block
              /\ issue'[w].attempt = issue[w].attempt
           \/ issue[w].attempt \in abandoned'
           \/ store[Key(w)] # Mine(w),
         InsideStays({w})
  PROVE  IssueInv'
<1>1. IssueTypeOK' /\ AttemptsAreNumbered'
  BY DEF IssueInv, IssueTypeOK, AttemptsAreNumbered
<1>2. FencedIsInside'
  BY IssuanceAssumption DEF IssueInv, FencedIsInside, InsideStays
<1>3. RecoveredIsFinal'
  BY DEF IssueInv, RecoveredIsFinal, Key
<1>4. OneAttestationPerKey'
  BY DEF IssueInv, OneAttestationPerKey
<1>5. ReservationsAreOwned'
  <2>1. SUFFICES ASSUME NEW k \in IdempotencyKeys,
                        store[k].status = "pending", store[k].by \notin abandoned'
                 PROVE  \E v \in Workflows : /\ issue'[v].phase \in Claimed
                                             /\ Key(v)' = k
                                             /\ issue'[v].attempt = store[k].by
    BY DEF ReservationsAreOwned
  <2>2. PICK v \in Workflows : /\ issue[v].phase \in Claimed
                               /\ Key(v) = k
                               /\ issue[v].attempt = store[k].by
    BY <2>1 DEF IssueInv, ReservationsAreOwned
  <2>3. store[Key(v)] = Mine(v)
    BY <2>1, <2>2 DEF Mine, IssueInv, IssueTypeOK, Reservations, Free
  <2>4. issue'[v].phase \in Claimed /\ issue'[v].block = issue[v].block
          /\ issue'[v].attempt = issue[v].attempt
    BY <2>1, <2>2, <2>3
  <2> QED
    BY <2>2, <2>4 DEF Key
<1> QED
  BY <1>1, <1>2, <1>3, <1>4, <1>5 DEF IssueInv

\* A step of the chain, of the controller or of a call that is no workflow's.
LEMMA WorldKeeps ==
  ASSUME IssueInv,
         UNCHANGED <<store, inFlight, issue, attempts, answered, abandoned>>,
         canonical' \in Blocks,
         InsideStays({})
  PROVE  IssueInv'
<1>1. IssueTypeOK' /\ AttemptsAreNumbered' /\ RecoveredIsFinal'
  BY DEF IssueInv, IssueTypeOK, AttemptsAreNumbered, RecoveredIsFinal, Key
<1>2. FencedIsInside'
  BY IssuanceAssumption DEF IssueInv, FencedIsInside, InsideStays
<1>3. OneAttestationPerKey' /\ ReservationsAreOwned'
  BY DEF IssueInv, OneAttestationPerKey, ReservationsAreOwned, Key
<1> QED
  BY <1>1, <1>2, <1>3 DEF IssueInv

\* A free key is reserved: for the workflow, or for nobody who knows it.
LEMMA ReserveKeeps ==
  ASSUME IssueInv, NEW w \in Workflows,
         issue[w].phase = "reserve",
         store[Key(w)].status = "free",
         store' = [store EXCEPT ![Key(w)] = Mine(w)],
         UNCHANGED <<canonical, inFlight, attempts, answered>>,
         abandoned' \subseteq Attempts, abandoned \subseteq abandoned',
         issue' \in [Workflows -> [phase : Phases, block : Blocks, attempt : 0..MaxAttempts]],
         \A v \in Workflows \ {w} : issue'[v] = issue[v],
         \/ /\ issue'[w].phase = "prepare"
            /\ issue'[w].block = issue[w].block
            /\ issue'[w].attempt = issue[w].attempt
         \/ issue'[w].phase = "idle" /\ issue[w].attempt \in abandoned',
         InsideStays({w})
  PROVE  IssueInv'
<1>a. IssueTypeOK /\ Key(w) \in IdempotencyKeys /\ issue[w].attempt \in Attempts
  BY KeyType DEF IssueInv, AttemptsAreNumbered
<1>1. Mine(w) \in Reservations /\ Mine(w).status = "pending" /\ Mine(w).by = issue[w].attempt
  BY <1>a DEF Mine, Reservations
<1>2. IssueTypeOK' /\ AttemptsAreNumbered'
  BY <1>a, <1>1 DEF IssueInv, IssueTypeOK, AttemptsAreNumbered
<1>3. FencedIsInside'
  BY IssuanceAssumption DEF IssueInv, FencedIsInside, InsideStays, Fenced
<1>4. RecoveredIsFinal'
  BY <1>a DEF IssueInv, RecoveredIsFinal, Key, IssueTypeOK
<1>5. OneAttestationPerKey'
  BY <1>a DEF IssueInv, OneAttestationPerKey, IssueTypeOK
<1>6. ReservationsAreOwned'
  <2>1. SUFFICES ASSUME NEW k \in IdempotencyKeys,
                        store'[k].status = "pending", store'[k].by \notin abandoned'
                 PROVE  \E v \in Workflows : /\ issue'[v].phase \in Claimed
                                             /\ Key(v)' = k
                                             /\ issue'[v].attempt = store'[k].by
    BY DEF ReservationsAreOwned
  <2>2. CASE k = Key(w)
    BY <1>a, <1>1, <2>1, <2>2 DEF IssueTypeOK, Claimed, Key
  <2>3. CASE k # Key(w)
    <3>1. store'[k] = store[k]
      BY <1>a, <2>3 DEF IssueTypeOK
    <3>2. PICK v \in Workflows : /\ issue[v].phase \in Claimed
                                 /\ Key(v) = k
                                 /\ issue[v].attempt = store[k].by
      BY <2>1, <3>1 DEF IssueInv, ReservationsAreOwned
    <3>3. v # w
      BY <2>3, <3>2
    <3> QED
      BY <3>1, <3>2, <3>3 DEF Key
  <2> QED
    BY <2>2, <2>3
<1> QED
  BY <1>2, <1>3, <1>4, <1>5, <1>6 DEF IssueInv

\* A held reservation becomes a record; its caller may be told at the same time.
LEMMA CommitKeeps ==
  ASSUME IssueInv, NEW k \in IdempotencyKeys, NEW n \in Attempts, Commit(k, n),
         UNCHANGED <<canonical, attempts, abandoned>>,
         inFlight' \subseteq IdempotencyKeys \X Attempts,
         issue' \in [Workflows -> [phase : Phases, block : Blocks, attempt : 0..MaxAttempts]],
         \A v \in Workflows :
           issue'[v] # issue[v] => issue'[v].phase = "idle" /\ store[Key(v)] = Mine(v)
                                   /\ Key(v) = k /\ issue[v].attempt = n,
         \/ answered' = answered
         \/ /\ store[k] = [status |-> "pending", by |-> n]
            /\ answered' = [answered EXCEPT ![k] = @ \cup {n}],
         \A v \in Workflows : issue'[v].phase \in Fenced => call'[v].pc = "inside"
  PROVE  IssueInv'
<1>a. IssueTypeOK
  BY DEF IssueInv
<1>1. /\ store' \in [IdempotencyKeys -> Reservations]
      /\ \A i \in IdempotencyKeys : store'[i] # store[i] =>
           i = k /\ store[k] = [status |-> "pending", by |-> n]
                 /\ store'[k].status = "committed" /\ store'[k].by = n
  BY <1>a DEF IssueTypeOK, Commit, Reservations, Free
<1>2. IssueTypeOK'
  BY <1>a, <1>1 DEF IssueTypeOK
<1>3. AttemptsAreNumbered' /\ FencedIsInside'
  BY DEF IssueInv, AttemptsAreNumbered, FencedIsInside
<1>4. RecoveredIsFinal'
  <2>1. SUFFICES ASSUME NEW v \in Workflows, issue'[v].phase \in {"recover", "recheck"}
                 PROVE  store'[Key(v)'].status = "committed"
    BY DEF RecoveredIsFinal
  <2>2. issue'[v] = issue[v] /\ Key(v)' = Key(v) /\ Key(v) \in IdempotencyKeys
    BY <1>a, <2>1, KeyType DEF Key
  <2>3. store[Key(v)].status = "committed"
    BY <2>1, <2>2 DEF IssueInv, RecoveredIsFinal
  <2> QED
    BY <1>1, <2>2, <2>3
<1>5. OneAttestationPerKey'
  <2>1. SUFFICES ASSUME NEW i \in IdempotencyKeys, answered'[i] # {}
                 PROVE  store'[i].status = "committed" /\ answered'[i] = {store'[i].by}
    BY DEF OneAttestationPerKey
  <2>2. CASE answered'[i] = answered[i]
    BY <1>1, <2>1, <2>2 DEF IssueInv, OneAttestationPerKey
  <2>3. CASE answered'[i] # answered[i]
    <3>1. /\ i = k
          /\ store[k] = [status |-> "pending", by |-> n]
          /\ answered'[k] = answered[k] \cup {n}
      BY <1>a, <2>3 DEF IssueTypeOK
    <3>2. answered[k] = {}
      BY <3>1 DEF IssueInv, OneAttestationPerKey
    <3>3. store'[k].status = "committed" /\ store'[k].by = n
      BY <1>a, <3>1 DEF Commit, IssueTypeOK
    <3> QED
      BY <3>1, <3>2, <3>3
  <2> QED
    BY <2>2, <2>3
<1>6. ReservationsAreOwned'
  <2>1. SUFFICES ASSUME NEW i \in IdempotencyKeys,
                        store'[i].status = "pending", store'[i].by \notin abandoned'
                 PROVE  \E v \in Workflows : /\ issue'[v].phase \in Claimed
                                             /\ Key(v)' = i
                                             /\ issue'[v].attempt = store'[i].by
    BY DEF ReservationsAreOwned
  <2>2. store'[i] = store[i]
    BY <1>1, <2>1
  <2>3. PICK v \in Workflows : /\ issue[v].phase \in Claimed
                               /\ Key(v) = i
                               /\ issue[v].attempt = store[i].by
    BY <2>1, <2>2 DEF IssueInv, ReservationsAreOwned
  <2>4. issue'[v] = issue[v]
    <3>1. SUFFICES ASSUME issue'[v] # issue[v]
                   PROVE  FALSE
      OBVIOUS
    <3>2. i = k /\ store[k] = [status |-> "pending", by |-> n]
      BY <2>3, <3>1 DEF Mine
    <3> QED
      BY <1>a, <2>1, <3>2 DEF Commit, IssueTypeOK
  <2> QED
    BY <2>2, <2>3, <2>4 DEF Key
<1> QED
  BY <1>2, <1>3, <1>4, <1>5, <1>6 DEF IssueInv

LEMMA ReleaseKeeps ==
  ASSUME IssueInv, NEW w \in Workflows, Release(w)
  PROVE  IssueInv'
<1>a. /\ IssueTypeOK /\ Key(w) \in IdempotencyKeys
      /\ UNCHANGED <<call, canonical, inFlight, attempts, answered, abandoned>>
  BY KeyType DEF IssueInv, Release, trustVars
<1>b. /\ issue' \in [Workflows -> [phase : Phases, block : Blocks, attempt : 0..MaxAttempts]]
      /\ issue'[w].phase = "idle"
      /\ \A v \in Workflows \ {w} : issue'[v] = issue[v]
  BY <1>a, IsDone DEF Release
<1>1. /\ store' \in [IdempotencyKeys -> Reservations]
      /\ store'[Key(w)] # Mine(w)
      /\ \A i \in IdempotencyKeys : store'[i] # store[i] =>
           i = Key(w) /\ store[i].status = "pending" /\ store'[i].status = "free"
  BY <1>a DEF IssueTypeOK, Release, Mine, Free, Reservations
<1>2. IssueTypeOK' /\ AttemptsAreNumbered'
  BY <1>a, <1>b, <1>1 DEF IssueInv, IssueTypeOK, AttemptsAreNumbered
<1>3. FencedIsInside'
  BY <1>a, <1>b DEF IssueInv, FencedIsInside, Fenced
<1>4. RecoveredIsFinal'
  <2>1. SUFFICES ASSUME NEW v \in Workflows, issue'[v].phase \in {"recover", "recheck"}
                 PROVE  store'[Key(v)'].status = "committed"
    BY DEF RecoveredIsFinal
  <2>2. issue'[v] = issue[v] /\ Key(v)' = Key(v) /\ Key(v) \in IdempotencyKeys
    BY <1>a, <1>b, <2>1, KeyType DEF Key
  <2> QED
    BY <1>1, <2>1, <2>2 DEF IssueInv, RecoveredIsFinal
<1>5. OneAttestationPerKey'
  BY <1>a, <1>1 DEF IssueInv, OneAttestationPerKey
<1>6. ReservationsAreOwned'
  <2>1. SUFFICES ASSUME NEW i \in IdempotencyKeys,
                        store'[i].status = "pending", store'[i].by \notin abandoned'
                 PROVE  \E v \in Workflows : /\ issue'[v].phase \in Claimed
                                             /\ Key(v)' = i
                                             /\ issue'[v].attempt = store'[i].by
    BY DEF ReservationsAreOwned
  <2>2. store'[i] = store[i]
    BY <1>1, <2>1
  <2>3. PICK v \in Workflows : /\ issue[v].phase \in Claimed
                               /\ Key(v) = i
                               /\ issue[v].attempt = store[i].by
    BY <1>a, <2>1, <2>2 DEF IssueInv, ReservationsAreOwned
  <2>4. v # w
    BY <1>a, <1>1, <2>1, <2>2, <2>3 DEF Mine, IssueTypeOK, Reservations, Free
  <2> QED
    BY <1>b, <2>2, <2>3, <2>4 DEF Key
<1> QED
  BY <1>2, <1>3, <1>4, <1>5, <1>6 DEF IssueInv

LEMMA AnswerExistingKeeps ==
  ASSUME IssueInv, NEW w \in Workflows, AnswerExisting(w)
  PROVE  IssueInv'
<1>a. /\ IssueTypeOK /\ Key(w) \in IdempotencyKeys
      /\ UNCHANGED <<call, canonical, store, inFlight, attempts, abandoned>>
      /\ issue[w].phase = "recheck"
      /\ store[Key(w)].status = "committed"
  BY KeyType DEF IssueInv, AnswerExisting, trustVars, RecoveredIsFinal
<1>b. /\ issue' \in [Workflows -> [phase : Phases, block : Blocks, attempt : 0..MaxAttempts]]
      /\ issue'[w].phase = "idle"
      /\ \A v \in Workflows \ {w} : issue'[v] = issue[v]
  BY <1>a, IsDone DEF AnswerExisting
<1>1. /\ store[Key(w)].by \in Attempts
      /\ answered' = [answered EXCEPT ![Key(w)] = @ \cup {store[Key(w)].by}]
  BY <1>a DEF IssueTypeOK, Reservations, Free, AnswerExisting, Answer
<1>2. IssueTypeOK' /\ AttemptsAreNumbered'
  BY <1>a, <1>b, <1>1 DEF IssueInv, IssueTypeOK, AttemptsAreNumbered
<1>3. FencedIsInside' /\ RecoveredIsFinal'
  BY <1>a, <1>b DEF IssueInv, FencedIsInside, RecoveredIsFinal, Fenced, Key
<1>4. OneAttestationPerKey'
  BY <1>a, <1>1 DEF IssueInv, OneAttestationPerKey, IssueTypeOK
<1>5. ReservationsAreOwned'
  BY <1>a, <1>b DEF IssueInv, ReservationsAreOwned, Claimed, Fenced, Key
<1> QED
  BY <1>2, <1>3, <1>4, <1>5 DEF IssueInv

-----------------------------------------------------------------------------
(* The steps of the composition *)

\* A mishap stays within its bound.
LEMMA MishapType ==
  ASSUME TrustTypeOK, Mishap
  PROVE  mishaps' \in 0..MaxMishaps
BY BoundsAssumption DEF TrustTypeOK, Mishap

\* Looking, reserving and recovering.
LEMMA ObservingKeeps ==
  ASSUME IInv, NEW w \in Workflows, Observing(w)
  PROVE  IInv' /\ StateAdvances
<1>a. /\ TrustInv /\ IssueInv /\ IssueTypeOK /\ TrustTypeOK
      /\ w \in Calls /\ Key(w) \in IdempotencyKeys
      /\ mishaps \in 0..MaxMishaps
  BY IssuanceAssumption, KeyType DEF IInv, TrustInv, IssueInv, TrustTypeOK
<1>b. issue[w].phase # "idle" => issue[w].attempt \in Attempts
  BY <1>a DEF IssueInv, AttemptsAreNumbered
<1>1. CASE Pin(w)
  <2>1. /\ issue' \in [Workflows -> [phase : Phases, block : Blocks, attempt : 0..MaxAttempts]]
        /\ issue'[w].phase = "reserve"
        /\ issue'[w].attempt \in Attempts
        /\ issue[w].phase = "idle"
        /\ attempts' \in 0..MaxAttempts
        /\ \A v \in Workflows \ {w} : issue'[v] = issue[v]
    BY <1>a, <1>1, IssuanceAssumption DEF Pin, IssueTypeOK, Phases, Attempts
  <2>2. TrustInv' /\ StateAdvances /\ InsideStays({w})
    BY <1>a, <1>1, TrustStutterKeeps DEF Pin, trustVars, InsideStays
  <2> QED
    BY <1>a, <1>1, <2>1, <2>2, QuietKeeps DEF IInv, Pin, IssueTypeOK, Fenced, Claimed
<1>2. CASE Claim(w)
  <2>1. /\ issue' \in [Workflows -> [phase : Phases, block : Blocks, attempt : 0..MaxAttempts]]
        /\ issue'[w].phase = "prepare"
        /\ issue'[w].block = issue[w].block
        /\ issue'[w].attempt = issue[w].attempt
        /\ \A v \in Workflows \ {w} : issue'[v] = issue[v]
    BY <1>a, <1>2, PhaseMoved DEF Claim, Phases, Claimed
  <2>2. TrustInv' /\ StateAdvances /\ InsideStays({w})
    BY <1>a, <1>2, BeginKeeps DEF Claim, InsideStays
  <2> QED
    BY <1>a, <1>2, <2>1, <2>2, ReserveKeeps DEF IInv, Claim, IssueTypeOK
<1>3. CASE LoseClaim(w)
  <2>1. /\ issue' \in [Workflows -> [phase : Phases, block : Blocks, attempt : 0..MaxAttempts]]
        /\ issue'[w].phase = "idle"
        /\ \A v \in Workflows \ {w} : issue'[v] = issue[v]
    BY <1>a, <1>3, IsDone DEF LoseClaim
  <2>2. TrustInv' /\ StateAdvances /\ InsideStays({w})
    BY <1>a, <1>3, MishapType, TrustStutterKeeps DEF LoseClaim, InsideStays
  <2> QED
    BY <1>a, <1>b, <1>3, <2>1, <2>2, ReserveKeeps DEF IInv, LoseClaim, IssueTypeOK
<1>4. CASE InProgress(w)
  <2>1. /\ issue' \in [Workflows -> [phase : Phases, block : Blocks, attempt : 0..MaxAttempts]]
        /\ issue'[w].phase = "idle"
        /\ \A v \in Workflows \ {w} : issue'[v] = issue[v]
    BY <1>a, <1>4, IsDone DEF InProgress
  <2>2. TrustInv' /\ StateAdvances /\ InsideStays({w})
    BY <1>a, <1>4, TrustStutterKeeps DEF InProgress, trustVars, InsideStays
  <2> QED
    BY <1>a, <1>4, <2>1, <2>2, QuietKeeps DEF IInv, InProgress, IssueTypeOK, Fenced, Claimed
<1>5. CASE Existing(w)
  <2>1. /\ issue' \in [Workflows -> [phase : Phases, block : Blocks, attempt : 0..MaxAttempts]]
        /\ issue'[w].phase = "recover"
        /\ issue'[w].block = issue[w].block
        /\ issue'[w].attempt = issue[w].attempt
        /\ \A v \in Workflows \ {w} : issue'[v] = issue[v]
    BY <1>a, <1>5, PhaseMoved DEF Existing, Phases
  <2>2. TrustInv' /\ StateAdvances /\ InsideStays({w})
    BY <1>a, <1>5, BeginKeeps DEF Existing, InsideStays
  <2> QED
    BY <1>a, <1>b, <1>5, <2>1, <2>2, QuietKeeps DEF IInv, Existing, IssueTypeOK, Fenced, Claimed
<1>6. CASE Recovered(w)
  <2>1. /\ issue' \in [Workflows -> [phase : Phases, block : Blocks, attempt : 0..MaxAttempts]]
        /\ \/ issue'[w].phase = "idle"
           \/ /\ issue'[w].phase = "recheck"
              /\ issue'[w].block = issue[w].block
              /\ issue'[w].attempt = issue[w].attempt
        /\ \A v \in Workflows \ {w} : issue'[v] = issue[v]
    BY <1>a, <1>6, PhaseMoved, IsDone DEF Recovered, Phases
  <2>2. TrustInv' /\ StateAdvances /\ InsideStays({w})
    BY <1>a, <1>6, TrustStutterKeeps DEF Recovered, trustVars, InsideStays
  <2>3. issue[w].phase = "recover" /\ store[Key(w)].status = "committed"
    BY <1>a, <1>6 DEF Recovered, IssueInv, RecoveredIsFinal
  <2> QED
    BY <1>a, <1>b, <1>6, <2>1, <2>2, <2>3, QuietKeeps
       DEF IInv, Recovered, IssueTypeOK, Fenced, Claimed
<1>7. CASE AnswerExisting(w)
  <2>1. TrustInv' /\ StateAdvances
    BY <1>a, <1>7, TrustStutterKeeps DEF AnswerExisting, trustVars
  <2> QED
    BY <1>a, <1>7, <2>1, AnswerExistingKeeps DEF IInv
<1> QED
  BY <1>1, <1>2, <1>3, <1>4, <1>5, <1>6, <1>7 DEF Observing

\* A step from one claimed phase to another, which leaves the store alone.
LEMMA ClaimedStepKeeps ==
  ASSUME IssueInv, NEW w \in Workflows, NEW p \in Claimed, Phase(w, p),
         issue[w].phase \in Claimed,
         UNCHANGED <<canonical, store, attempts, answered, abandoned>>,
         inFlight' \subseteq IdempotencyKeys \X Attempts,
         p \in Fenced => call'[w].pc = "inside",
         InsideStays({w})
  PROVE  IssueInv'
<1>1. IssueTypeOK /\ p \in Phases /\ issue[w].attempt \in Attempts
  BY DEF IssueInv, AttemptsAreNumbered, Phases, Claimed, Fenced
<1>2. /\ issue' \in [Workflows -> [phase : Phases, block : Blocks, attempt : 0..MaxAttempts]]
      /\ issue'[w].phase = p
      /\ issue'[w].block = issue[w].block
      /\ issue'[w].attempt = issue[w].attempt
      /\ \A v \in Workflows \ {w} : issue'[v] = issue[v]
  BY <1>1, PhaseMoved
<1>3. p \notin {"recover", "recheck"}
  BY DEF Claimed, Fenced
<1> QED
  BY <1>1, <1>2, <1>3, QuietKeeps DEF IssueTypeOK

\* Preparing, signing and committing.
LEMMA IssuingKeeps ==
  ASSUME IInv, NEW w \in Workflows, Issuing(w)
  PROVE  IInv' /\ StateAdvances
<1>a. /\ TrustInv /\ IssueInv /\ IssueTypeOK /\ TrustTypeOK
      /\ w \in Calls /\ Key(w) \in IdempotencyKeys
      /\ mishaps \in 0..MaxMishaps
      /\ inFlight \subseteq IdempotencyKeys \X Attempts
  BY IssuanceAssumption, KeyType DEF IInv, TrustInv, IssueInv, TrustTypeOK, IssueTypeOK
<1>b. issue[w].phase \in Fenced => call[w].pc = "inside"
  BY <1>a DEF IssueInv, FencedIsInside
<1>c. /\ Fenced \subseteq Claimed
      /\ {"prepare", "permit", "enter", "release"} \subseteq Claimed \ Fenced
      /\ {"presign", "sign", "postsign", "finalize", "commit"} = Fenced
  BY DEF Claimed, Fenced
<1>1. CASE Prepared(w)
  <2>1. PICK p \in {"permit", "release"} : Phase(w, p)
    BY <1>1 DEF Prepared
  <2>2. TrustInv' /\ StateAdvances /\ InsideStays({})
    BY <1>a, <1>1, BeginKeeps, TrustStutterKeeps DEF Prepared, trustVars
  <2> QED
    BY <1>a, <1>c, <1>1, <2>1, <2>2, ClaimedStepKeeps DEF IInv, Prepared, InsideStays
<1>2. CASE Permitted(w)
  <2>1. PICK p \in {"enter", "release"} : Phase(w, p)
    BY <1>2 DEF Permitted
  <2>2. TrustInv' /\ StateAdvances /\ InsideStays({})
    BY <1>a, <1>2, AssertPermitKeeps, TrustStutterKeeps DEF Permitted, trustVars
  <2> QED
    BY <1>a, <1>c, <1>2, <2>1, <2>2, ClaimedStepKeeps DEF IInv, Permitted, InsideStays
<1>3. CASE Entered(w)
  <2>1. PICK p \in {"presign", "release"} :
          Phase(w, p) /\ (p = "presign" => call[w].pc = "inside")
    BY <1>3 DEF Entered
  <2>2. UNCHANGED call /\ TrustInv' /\ StateAdvances /\ InsideStays({})
    BY <1>a, <1>3, TrustStutterKeeps DEF Entered, trustVars
  <2> QED
    BY <1>a, <1>c, <1>3, <2>1, <2>2, ClaimedStepKeeps DEF IInv, Entered, InsideStays
<1>4. CASE PreSign(w) \/ Sign(w) \/ PostSign(w) \/ Finalize(w)
  <2>1. PICK p \in Fenced : Phase(w, p)
    BY <1>4 DEF PreSign, Sign, PostSign, Finalize, Fenced
  <2>2. /\ issue[w].phase \in Fenced
        /\ UNCHANGED <<trustVars, canonical, store, inFlight, attempts, answered, abandoned>>
    BY <1>4 DEF PreSign, Sign, PostSign, Finalize, Fenced
  <2>3. UNCHANGED call /\ TrustInv' /\ StateAdvances /\ InsideStays({})
    BY <1>a, <2>2, TrustStutterKeeps DEF trustVars
  <2> QED
    BY <1>a, <1>b, <1>c, <2>1, <2>2, <2>3, ClaimedStepKeeps DEF IInv, InsideStays
<1>5. CASE LandCommit(w)
  <2>1. TrustInv' /\ StateAdvances /\ InsideStays({w})
    BY <1>a, <1>5, LeaveKeeps DEF LandCommit, LeaveFence
  <2>2. issue[w].attempt \in Attempts
    BY <1>a, <1>5 DEF LandCommit, IssueInv, AttemptsAreNumbered
  <2>3. /\ issue' \in [Workflows -> [phase : Phases, block : Blocks, attempt : 0..MaxAttempts]]
        /\ issue'[w].phase = "idle"
        /\ \A v \in Workflows \ {w} : issue'[v] = issue[v]
    BY <1>a, <1>5, IsDone DEF LandCommit
  <2>4. \A v \in Workflows : issue'[v].phase \in Fenced => call'[v].pc = "inside"
    BY <1>a, <2>1, <2>3, IssuanceAssumption DEF Fenced, IssueInv, FencedIsInside, InsideStays
  <2>5. /\ Commit(Key(w), issue[w].attempt)
        /\ UNCHANGED <<canonical, attempts, abandoned, inFlight>>
        /\ store[Key(w)] = Mine(w)
        /\ answered' = [answered EXCEPT ![Key(w)] = @ \cup {issue[w].attempt}]
    BY <1>5 DEF LandCommit, Answer
  <2>6. \A v \in Workflows :
          issue'[v] # issue[v] => issue'[v].phase = "idle" /\ store[Key(v)] = Mine(v)
                                  /\ Key(v) = Key(w) /\ issue[v].attempt = issue[w].attempt
    BY <2>3, <2>5
  <2>7. store[Key(w)] = [status |-> "pending", by |-> issue[w].attempt]
    BY <2>5 DEF Mine
  <2>8. IssueInv'
    BY <1>a, <2>2, <2>3, <2>4, <2>5, <2>6, <2>7, CommitKeeps
  <2> QED
    BY <2>1, <2>8 DEF IInv
<1> QED
  BY <1>1, <1>2, <1>3, <1>4, <1>5 DEF Issuing

\* Losing, failing and giving back.
LEMMA FailingKeeps ==
  ASSUME IInv, NEW w \in Workflows, Failing(w)
  PROVE  IInv' /\ StateAdvances
<1>a. /\ TrustInv /\ IssueInv /\ IssueTypeOK /\ TrustTypeOK
      /\ w \in Calls /\ Key(w) \in IdempotencyKeys
      /\ mishaps \in 0..MaxMishaps
      /\ inFlight \subseteq IdempotencyKeys \X Attempts
  BY IssuanceAssumption, KeyType DEF IInv, TrustInv, IssueInv, TrustTypeOK, IssueTypeOK
<1>b. issue[w].phase # "idle" => issue[w].attempt \in Attempts
  BY <1>a DEF IssueInv, AttemptsAreNumbered
<1>c. /\ Fenced \subseteq Claimed /\ "release" \in Claimed \ Fenced /\ "commit" \in Fenced
      /\ "idle" \notin Claimed
      /\ {"reserve", "recheck"} \cap Claimed = {}
  BY DEF Claimed, Fenced
<1>1. CASE LoseCommit(w)
  <2>1. TrustInv' /\ StateAdvances /\ InsideStays({w})
    BY <1>a, <1>1, MishapType, LeaveKeeps DEF LoseCommit
  <2>2. inFlight' \subseteq IdempotencyKeys \X Attempts
    BY <1>a, <1>b, <1>1 DEF LoseCommit
  <2> QED
    BY <1>a, <1>c, <1>1, <2>1, <2>2, ClaimedStepKeeps DEF IInv, LoseCommit
<1>2. CASE FailUnclaimed(w)
  <2>1. /\ issue' \in [Workflows -> [phase : Phases, block : Blocks, attempt : 0..MaxAttempts]]
        /\ issue'[w].phase = "idle"
        /\ \A v \in Workflows \ {w} : issue'[v] = issue[v]
    BY <1>a, <1>2, IsDone DEF FailUnclaimed
  <2>2. TrustInv' /\ StateAdvances /\ InsideStays({w})
    BY <1>a, <1>2, TrustStutterKeeps DEF FailUnclaimed, trustVars, InsideStays
  <2> QED
    BY <1>a, <1>c, <1>2, <2>1, <2>2, QuietKeeps DEF IInv, FailUnclaimed, IssueTypeOK
<1>3. CASE FailFenced(w)
  <2>1. TrustInv' /\ StateAdvances /\ InsideStays({w})
    BY <1>a, <1>3, LeaveKeeps DEF FailFenced, LeaveFence
  <2> QED
    BY <1>a, <1>c, <1>3, <2>1, ClaimedStepKeeps DEF IInv, FailFenced
<1>4. CASE Release(w)
  <2>1. TrustInv' /\ StateAdvances
    BY <1>a, <1>4, TrustStutterKeeps DEF Release, trustVars
  <2> QED
    BY <1>a, <1>4, <2>1, ReleaseKeeps DEF IInv
<1>5. CASE LoseRelease(w)
  <2>1. /\ issue' \in [Workflows -> [phase : Phases, block : Blocks, attempt : 0..MaxAttempts]]
        /\ issue'[w].phase = "idle"
        /\ \A v \in Workflows \ {w} : issue'[v] = issue[v]
    BY <1>a, <1>5, IsDone DEF LoseRelease
  <2>2. TrustInv' /\ StateAdvances /\ InsideStays({w})
    BY <1>a, <1>5, MishapType, TrustStutterKeeps DEF LoseRelease, InsideStays
  <2> QED
    BY <1>a, <1>b, <1>c, <1>5, <2>1, <2>2, QuietKeeps DEF IInv, LoseRelease, IssueTypeOK
<1>6. CASE Kill(w)
  <2>1. /\ issue' \in [Workflows -> [phase : Phases, block : Blocks, attempt : 0..MaxAttempts]]
        /\ issue'[w].phase = "idle"
        /\ \A v \in Workflows \ {w} : issue'[v] = issue[v]
    BY <1>a, <1>6, IsDone DEF Kill
  <2>2. TrustInv' /\ StateAdvances /\ InsideStays({w})
    BY <1>a, <1>6, KillCallKeeps DEF Kill
  <2>3. inFlight' \subseteq IdempotencyKeys \X Attempts
    BY <1>a, <1>b, <1>6 DEF Kill
  <2>4. /\ abandoned' \subseteq Attempts /\ abandoned \subseteq abandoned'
        /\ issue[w].phase \in Claimed => issue[w].attempt \in abandoned'
        /\ UNCHANGED <<canonical, store, attempts, answered>>
    BY <1>a, <1>b, <1>6 DEF Kill, IssueTypeOK
  <2> QED
    BY <1>a, <1>c, <2>1, <2>2, <2>3, <2>4, QuietKeeps DEF IInv, IssueTypeOK
<1> QED
  BY <1>1, <1>2, <1>3, <1>4, <1>5, <1>6 DEF Failing


-----------------------------------------------------------------------------
(* The specification *)

LEMMA InitKeeps ==
  ASSUME Init
  PROVE  IInv
<1>a. NoCall \in CallRecords /\ None \notin Calls /\ NoCall.pc = "idle"
  BY CallTypes, CallsAssumption DEF NoCall
<1>b. /\ NoIssue \in [phase : Phases, block : Blocks, attempt : 0..MaxAttempts]
      /\ NoIssue.phase = "idle"
  BY IssuanceAssumption DEF NoIssue, Phases
<1>1. TrustTypeOK
  BY <1>a, BoundsAssumption DEF Init, TrustInit, TrustTypeOK
<1>2. SwapsAdvance /\ FenceIsHeld /\ PermitsAreOwn /\ FenceKeepsRevision
  BY <1>a DEF Init, TrustInit, SwapsAdvance, FenceIsHeld, PermitsAreOwn, FenceKeepsRevision
<1>3. IssueTypeOK
  BY <1>b, IssuanceAssumption DEF Init, IssueTypeOK, Reservations
<1>4. AttemptsAreNumbered /\ FencedIsInside /\ RecoveredIsFinal
  BY <1>b DEF Init, AttemptsAreNumbered, FencedIsInside, RecoveredIsFinal, Fenced
<1>5. OneAttestationPerKey /\ ReservationsAreOwned
  BY DEF Init, OneAttestationPerKey, ReservationsAreOwned, Free
<1> QED
  BY <1>1, <1>2, <1>3, <1>4, <1>5 DEF IInv, TrustInv, IssueInv

LEMMA NextKeeps ==
  ASSUME IInv, [Next]_vars
  PROVE  IInv' /\ StateAdvances
<1>a. /\ TrustInv /\ IssueInv
      /\ canonical \in Blocks /\ inFlight \subseteq IdempotencyKeys \X Attempts
      /\ mishaps \in 0..MaxMishaps
  BY DEF IInv, IssueInv, IssueTypeOK, TrustInv, TrustTypeOK
<1>1. CASE ControllerStep /\ UNCHANGED issueVars
  BY <1>a, <1>1, ControllerStepKeeps, WorldKeeps DEF IInv, issueVars
<1>2. ASSUME NEW c \in Calls \ Workflows, Begin(c, "prepare"), UNCHANGED issueVars
      PROVE  IInv' /\ StateAdvances
  BY <1>a, <1>2, BeginKeeps, WorldKeeps DEF IInv, issueVars
<1>3. ASSUME NEW b \in Blocks, Reorganize(b)
      PROVE  IInv' /\ StateAdvances
  BY <1>a, <1>3, TrustStutterKeeps, WorldKeeps DEF IInv, Reorganize, trustVars
<1>4. ASSUME NEW w \in Workflows, Observing(w) \/ Issuing(w) \/ Failing(w)
      PROVE  IInv' /\ StateAdvances
  BY <1>4, ObservingKeeps, IssuingKeeps, FailingKeeps
<1>5. ASSUME NEW m \in inFlight, LandLateCommit(m)
      PROVE  IInv' /\ StateAdvances
  <2>1. m[1] \in IdempotencyKeys /\ m[2] \in Attempts
    BY <1>a, <1>5
  <2>2. /\ Commit(m[1], m[2])
        /\ UNCHANGED <<trust, fence, late, call, permit, consumed, mishaps>>
        /\ UNCHANGED <<canonical, issue, attempts, answered, abandoned>>
        /\ inFlight' \subseteq IdempotencyKeys \X Attempts
    BY <1>a, <1>5 DEF LandLateCommit, trustVars
  <2>3. TrustInv' /\ StateAdvances
    BY <1>a, <2>2, TrustStutterKeeps
  <2>4. /\ issue' \in [Workflows -> [phase : Phases, block : Blocks, attempt : 0..MaxAttempts]]
        /\ \A v \in Workflows : issue'[v].phase \in Fenced => call'[v].pc = "inside"
    BY <1>a, <2>2 DEF IssueInv, IssueTypeOK, FencedIsInside
  <2>5. IssueInv'
    BY <1>a, <2>1, <2>2, <2>4, CommitKeeps
  <2> QED
    BY <2>3, <2>5 DEF IInv
<1>6. CASE UNCHANGED vars
  BY <1>a, <1>6, TrustStutterKeeps, WorldKeeps DEF IInv, vars, trustVars, issueVars
<1> QED
  BY <1>1, <1>2, <1>3, <1>4, <1>5, <1>6 DEF Next

\* The inductive invariant holds in every reachable state.
THEOREM Invariance == Spec => []IInv
BY InitKeeps, NextKeeps, PTL DEF Spec

\* Every variable of the controller and of the issuer has its type.
THEOREM TypeCorrect == Spec => []TypeOK
<1>1. IInv => TypeOK
  BY DEF IInv, TrustInv, IssueInv, IssueTypeOK, TypeOK
<1> QED
  BY <1>1, Invariance, PTL

\* Every caller of an idempotency key is given the attestation of its record.
THEOREM OneAttestation == Spec => []OneAttestationPerKey
<1>1. IInv => OneAttestationPerKey
  BY DEF IInv, IssueInv
<1> QED
  BY <1>1, Invariance, PTL

\* A reservation is held by a running attempt or was abandoned by a mishap.
THEOREM ReservationsOwned == Spec => []ReservationsAreOwned
<1>1. IInv => ReservationsAreOwned
  BY DEF IInv, IssueInv
<1> QED
  BY <1>1, Invariance, PTL

\* The durable trust state never moves back, whatever the callers do.
THEOREM NoRollback == Spec => TrustNeverRollsBack
<1>1. IInv /\ [Next]_vars => [StateAdvances]_trustVars
  BY NextKeeps
<1> QED
  BY <1>1, Invariance, PTL DEF Spec, TrustNeverRollsBack, StateAdvances

\* An attestation is signed only under the trust state its permit is for, with
\* the key that state lets issue, which it has not revoked.
THEOREM SignedUnderTrust == Spec => SignedUnderCurrentTrust
<1> DEFINE Signs ==
      \A w \in Workflows :
        issue[w].phase = "sign" /\ issue'[w].phase = "postsign" =>
          /\ trust = Wire[w]
          /\ Signer[w] = ActiveSigner[trust]
          /\ Signer[w] \notin Revoked[trust]
<1>1. ASSUME IInv
      PROVE  Signs
  <2>1. SUFFICES ASSUME NEW w \in Workflows, issue[w].phase = "sign"
                 PROVE  /\ trust = Wire[w]
                        /\ Signer[w] = ActiveSigner[trust]
                        /\ Signer[w] \notin Revoked[trust]
    OBVIOUS
  <2>2. w \in Calls /\ Wire[w] \in Bundles /\ call[w].pc = "inside"
    BY <1>1, <2>1, IssuanceAssumption, CallsAssumption
       DEF IInv, IssueInv, FencedIsInside, Fenced
  <2>3. trust = Wire[w] /\ ActiveSigner[Wire[w]] = Signer[w]
    BY <1>1, <2>2 DEF IInv, TrustInv, FenceKeepsRevision, PermitsAreOwn
  <2> QED
    BY <2>2, <2>3, BundlesAssumption
<1> QED
  BY <1>1, Invariance, PTL DEF SignedUnderCurrentTrust

-----------------------------------------------------------------------------
(* Identities: what the chain said of one block stays together.            *)

Blks == Quotes!DeepBlocks
Owners == {s.owner : s \in Scenes}

\* What an identity may say, and how else a capture may end.
Verdicts ==
    [status : {"verified"}, block : Blks, owner : Owners, kind : {"eoa", "erc1271"},
     observedAt : Nat]
Codes == {"HEAD_TOO_LOW", "SNAPSHOT_INCONSISTENT", "REGISTRY_CODE_MISSING", "RPC_UNAVAILABLE",
          "RPC_INVALID_RESPONSE", "CHAIN_ID_MISMATCH", "OWNER_INVALID"}
Refusals == {Quotes!Inconclusive(code) : code \in Codes} \cup {Quotes!NotFound}

CaptureRecords ==
    [step : Quotes!Reading \cup {"idle", "done"}, attempt : 0..2, anchor : Blks \cup {None},
     header : {None} \cup Nat \cup Blks, owner : {None} \cup Owners,
     result : {None} \cup Verdicts \cup Refusals]

ChainInv ==
    /\ branch \in Branches /\ height \in Depth..MaxHeight /\ forks \in 0..MaxForks
    /\ now \in 0..MaxTime
    /\ world \in [Blks -> Scenes]

Deep(block) == block \in Blks /\ block[1] + Depth <= height

\* What a capture knows at each of its steps.
Knows(r) ==
    /\ r.step = "header" =>
        /\ r.header \in 0..MaxHeight - Depth /\ r.header + Depth <= height
    /\ r.step \in {"registry", "owner", "final", "provider"} =>
        Deep(r.header) /\ r.anchor \in {None, r.header}
    /\ r.step \in {"owner", "final", "provider"} => world[r.header].registry
    /\ r.step \in {"final", "provider"} => r.owner = world[r.header].owner /\ r.owner # None
    /\ r.step = "done" =>
        /\ r.result \in Verdicts \cup Refusals
        /\ r.result.status = "verified" =>
            /\ r.result \in Verdicts
            /\ r.header = r.result.block /\ r.anchor \in {None, r.header}
            /\ r.result.owner = world[r.header].owner /\ r.result.owner # None
            /\ r.result.kind = world[r.header].kind /\ world[r.header].registry
            /\ r.anchor # None => r.result.observedAt = Quotes!Time(r.header)
        /\ r.result.status = "unavailable" =>
            world[r.header].owner = None /\ r.anchor \in {None, r.header}

IdentityInv ==
    /\ ChainInv
    /\ capture \in [Captures -> CaptureRecords]
    /\ \A c \in Captures : Knows(capture[c])

\* The facts about numbers that the assumptions give.
LEMMA Numbers ==
  /\ Depth \in Nat /\ ForkAt \in Nat /\ Ahead \in Nat
  /\ MaxHeight \in Nat /\ MaxForks \in Nat /\ MaxTime \in Nat
  /\ Depth <= MaxHeight /\ Depth <= MaxTime
BY CandidateAssumption DEF Quotes!ChainAssumption

\* A block is a height and a branch.
LEMMA BlockIs ==
  /\ \A n \in 0..MaxHeight - Depth, b \in Branches : <<n, b>> \in Blks
  /\ \A block \in Blks : block[1] \in 0..MaxHeight - Depth
BY DEF Blks, Quotes!DeepBlocks

\* The canonical block of a deep height is a deep block of that height.
LEMMA CanonicalBlock ==
  ASSUME branch \in Branches, NEW n \in 0..MaxHeight - Depth
  PROVE  Quotes!Block(n) \in Blks /\ Quotes!Block(n)[1] = n
<1>1. (CHOOSE b \in Branches : TRUE) \in Branches
  OBVIOUS
<1> QED
  BY <1>1, BlockIs DEF Quotes!Block

\* A refusal says neither that a candidate is verified nor more than its code.
LEMMA Refused ==
  /\ \A code \in Codes : Quotes!Inconclusive(code) \in Refusals
  /\ \A code \in Codes : Quotes!Inconclusive(code).status = "inconclusive"
  /\ Quotes!NotFound \in Refusals /\ Quotes!NotFound.status = "unavailable"
  /\ \A r \in Refusals : r.status # "verified"
BY DEF Refusals, Quotes!Inconclusive, Quotes!NotFound

\* A step of one capture, which leaves the chain and the other captures alone.
Keeps(c) ==
    /\ IdentityInv'
    /\ UNCHANGED Quotes!chainVars
    /\ \A d \in Captures \ {c} : capture'[d] = capture[d]
    /\ capture[c].step # "idle" => capture'[c].anchor = capture[c].anchor

\* A step of one capture that leaves the chain alone keeps what the others know.
LEMMA CaptureKeeps ==
  ASSUME IdentityInv, NEW c \in Captures, NEW r \in CaptureRecords, Knows(r),
         capture[c].step # "idle" => r.anchor = capture[c].anchor, Quotes!Goes(c, r)
  PROVE  Keeps(c) /\ capture'[c] = r
<1>1. /\ capture' = [capture EXCEPT ![c] = r]
      /\ UNCHANGED <<branch, height, forks, world, now>>
  BY DEF Quotes!Goes, Quotes!chainVars
<1>2. capture' \in [Captures -> CaptureRecords] /\ capture'[c] = r
  BY <1>1 DEF IdentityInv
<1>3. ChainInv'
  BY <1>1 DEF IdentityInv, ChainInv, Blks, Quotes!DeepBlocks
<1>4. \A s : Knows(s) => Knows(s)'
  BY <1>1 DEF Knows, Deep, Blks, Verdicts, Refusals, Quotes!DeepBlocks, Quotes!Time,
         Quotes!NotFound, Quotes!Inconclusive
<1>5. \A d \in Captures : Knows(capture'[d])
  <2>1. TAKE d \in Captures
  <2>2. CASE d = c
    BY <1>2, <2>2
  <2>3. CASE d # c
    BY <1>1, <2>3 DEF IdentityInv
  <2> QED
    BY <2>2, <2>3
<1>6. (\A d \in Captures : Knows(capture[d]))'
  BY <1>4, <1>5
<1>7. IdentityInv'
  BY <1>2, <1>3, <1>6 DEF IdentityInv, CaptureRecords, Verdicts, Refusals, Blks,
     Quotes!DeepBlocks, Quotes!NotFound, Quotes!Inconclusive, Quotes!Reading, Owners
<1>8. \A d \in Captures \ {c} : capture'[d] = capture[d]
  BY <1>1 DEF IdentityInv
<1> QED
  BY <1>1, <1>2, <1>7, <1>8 DEF Keeps, Quotes!chainVars

\* What the record of a capture may be changed into.
LEMMA RecordTypes ==
  ASSUME NEW r \in CaptureRecords
  PROVE  /\ \A result \in Verdicts \cup Refusals :
              /\ [r EXCEPT !.step = "done", !.result = result] \in CaptureRecords
              /\ [r EXCEPT !.step = "done", !.result = result].step = "done"
              /\ [r EXCEPT !.step = "done", !.result = result].result = result
              /\ [r EXCEPT !.step = "done", !.result = result].header = r.header
              /\ [r EXCEPT !.step = "done", !.result = result].anchor = r.anchor
BY DEF CaptureRecords, Quotes!Reading

\* A capture that ends in a refusal.
LEMMA EndsRefusing ==
  ASSUME IdentityInv, NEW c \in Captures, NEW result \in Refusals,
         result.status = "inconclusive", Quotes!Ends(c, result)
  PROVE  Keeps(c) /\ ~Quotes!Verified(c)'
<1> DEFINE r == [capture[c] EXCEPT !.step = "done", !.result = result]
<1>1. capture[c] \in CaptureRecords
  BY DEF IdentityInv
<1>2. r \in CaptureRecords /\ r.step = "done" /\ r.result = result
      /\ r.anchor = capture[c].anchor
  BY <1>1, RecordTypes
<1>3. Knows(r)
  BY <1>2 DEF Knows
<1>4. Quotes!Goes(c, r)
  BY DEF Quotes!Ends
<1>5. Keeps(c) /\ capture'[c] = r
  BY <1>1, <1>2, <1>3, <1>4, CaptureKeeps
<1> QED
  BY <1>2, <1>5 DEF Quotes!Verified

LEMMA EndsInconclusive ==
  ASSUME IdentityInv, NEW c \in Captures, NEW code \in Codes,
         Quotes!Ends(c, Quotes!Inconclusive(code))
  PROVE  Keeps(c) /\ ~Quotes!Verified(c)'
BY Refused, EndsRefusing

\* A capture that asks everything again, or gives up.
LEMMA PropagationKeeps ==
  ASSUME IdentityInv, NEW c \in Captures, Quotes!Propagation(c)
  PROVE  Keeps(c) /\ ~Quotes!Verified(c)'
<1> DEFINE r == Quotes!Asks(2, capture[c].anchor)
<1>1. capture[c] \in CaptureRecords
  BY DEF IdentityInv
<1>2. CASE capture[c].attempt = 1
  <2>1. r \in CaptureRecords /\ r.step = "head" /\ r.anchor = capture[c].anchor
    BY <1>1 DEF CaptureRecords, Quotes!Reading, Quotes!Asks
  <2>2. Knows(r)
    BY <2>1 DEF Knows
  <2>3. Quotes!Goes(c, r)
    BY <1>2 DEF Quotes!Propagation
  <2>4. Keeps(c) /\ capture'[c] = r
    BY <1>1, <2>1, <2>2, <2>3, CaptureKeeps
  <2> QED
    BY <2>1, <2>4 DEF Quotes!Verified
<1>3. CASE capture[c].attempt # 1
  BY <1>3, EndsInconclusive DEF Codes, Quotes!Propagation
<1> QED
  BY <1>2, <1>3

LEMMA StartKeeps ==
  ASSUME IdentityInv, NEW c \in Captures, NEW anchor \in Quotes!Anchors, Quotes!Start(c, anchor)
  PROVE  Keeps(c) /\ ~Quotes!Verified(c)'
         /\ capture'[c].anchor = anchor /\ capture[c].step = "idle"
<1> DEFINE r == Quotes!Asks(1, anchor)
<1>1. anchor \in Blks \cup {None}
  <2>1. \A n \in 0..height - Depth : n \in 0..MaxHeight - Depth
    BY Numbers DEF IdentityInv, ChainInv
  <2> QED
    BY <2>1, CanonicalBlock DEF Quotes!Anchors, IdentityInv, ChainInv
<1>3. r \in CaptureRecords /\ r.step = "head" /\ r.anchor = anchor
  BY <1>1 DEF CaptureRecords, Quotes!Reading, Quotes!Asks
<1>4. Knows(r)
  BY <1>3 DEF Knows
<1>5. Quotes!Goes(c, r) /\ capture[c].step = "idle"
  BY DEF Quotes!Start, Quotes!At
<1>6. Keeps(c) /\ capture'[c] = r
  BY <1>3, <1>4, <1>5, CaptureKeeps
<1> QED
  BY <1>3, <1>5, <1>6 DEF Quotes!Verified

LEMMA HeadKeeps ==
  ASSUME IdentityInv, NEW c \in Captures, Quotes!Head(c)
  PROVE  Keeps(c) /\ ~Quotes!Verified(c)'
<1>1. PICK seen \in {height - 1, height} :
        LET anchor == capture[c].anchor
            target == IF anchor = None THEN seen - Depth ELSE anchor[1]
        IN  IF seen < Depth THEN Quotes!Ends(c, Quotes!Inconclusive("HEAD_TOO_LOW"))
            ELSE IF seen < target + Depth
                 THEN Quotes!Ends(c, Quotes!Inconclusive("SNAPSHOT_INCONSISTENT"))
            ELSE Quotes!Goes(c, [capture[c] EXCEPT !.step = "header", !.header = target])
  BY DEF Quotes!Head
<1> DEFINE target == IF capture[c].anchor = None THEN seen - Depth ELSE capture[c].anchor[1]
           r == [capture[c] EXCEPT !.step = "header", !.header = target]
<1>2. CASE seen < Depth \/ seen < target + Depth
  BY <1>1, <1>2, EndsInconclusive DEF Codes
<1>3. CASE ~(seen < Depth) /\ ~(seen < target + Depth)
  <2>1. capture[c] \in CaptureRecords /\ seen \in Int /\ seen <= height
        /\ height \in 0..MaxHeight /\ height \in Nat
    BY Numbers DEF IdentityInv, ChainInv
  <2>2. target \in Nat
    BY <1>3, <2>1, BlockIs, Numbers DEF CaptureRecords
  <2>3. target \in 0..MaxHeight - Depth /\ target + Depth <= height
    BY <1>3, <2>1, <2>2, Numbers
  <2>4. r \in CaptureRecords /\ r.step = "header" /\ r.header = target
        /\ r.anchor = capture[c].anchor
    BY <2>1, <2>2 DEF CaptureRecords, Quotes!Reading
  <2>5. Knows(r)
    BY <2>3, <2>4 DEF Knows
  <2>6. Quotes!Goes(c, r)
    BY <1>1, <1>3
  <2>7. Keeps(c) /\ capture'[c] = r
    BY <2>4, <2>5, <2>6, CaptureKeeps
  <2> QED
    BY <2>4, <2>7 DEF Quotes!Verified
<1> QED
  BY <1>2, <1>3

LEMMA HeaderKeeps ==
  ASSUME IdentityInv, NEW c \in Captures, Quotes!Header(c)
  PROVE  Keeps(c) /\ ~Quotes!Verified(c)'
<1> DEFINE block == Quotes!Block(capture[c].header)
           r == [capture[c] EXCEPT !.step = "registry", !.header = block]
<1>1. CASE capture[c].anchor \notin {None, block}
  BY <1>1, PropagationKeeps DEF Quotes!Header
<1>2. CASE capture[c].anchor \in {None, block}
  <2>1. /\ capture[c] \in CaptureRecords /\ branch \in Branches
        /\ capture[c].header \in 0..MaxHeight - Depth /\ capture[c].header + Depth <= height
    BY DEF IdentityInv, ChainInv, Knows, Quotes!Header, Quotes!At
  <2>2. block \in Blks /\ block[1] = capture[c].header
    BY <2>1, CanonicalBlock
  <2>3. r \in CaptureRecords /\ r.step = "registry" /\ r.header = block
        /\ r.anchor = capture[c].anchor
    BY <2>1, <2>2 DEF CaptureRecords, Quotes!Reading
  <2>4. Knows(r)
    BY <1>2, <2>1, <2>2, <2>3 DEF Knows, Deep
  <2>5. Quotes!Goes(c, r)
    BY <1>2 DEF Quotes!Header
  <2>6. Keeps(c) /\ capture'[c] = r
    BY <2>3, <2>4, <2>5, CaptureKeeps
  <2> QED
    BY <2>3, <2>6 DEF Quotes!Verified
<1> QED
  BY <1>1, <1>2

LEMMA RegistryKeeps ==
  ASSUME IdentityInv, NEW c \in Captures, Quotes!Registry(c)
  PROVE  Keeps(c) /\ ~Quotes!Verified(c)'
<1> DEFINE r == [capture[c] EXCEPT !.step = "owner"]
<1>1. CASE Quotes!Pinned(c) = None
  BY <1>1, PropagationKeeps DEF Quotes!Registry
<1>2. CASE Quotes!Pinned(c) # None /\ ~world[Quotes!Pinned(c)].registry
  BY <1>2, EndsInconclusive DEF Codes, Quotes!Registry
<1>3. CASE Quotes!Pinned(c) # None /\ world[Quotes!Pinned(c)].registry
  <2>1. capture[c] \in CaptureRecords /\ Knows(capture[c]) /\ capture[c].step = "registry"
    BY DEF IdentityInv, Quotes!Registry, Quotes!At
  <2>2. world[capture[c].header].registry
    BY <1>3 DEF Quotes!Pinned
  <2>3. r \in CaptureRecords /\ r.step = "owner" /\ r.header = capture[c].header
        /\ r.anchor = capture[c].anchor
    BY <2>1 DEF CaptureRecords, Quotes!Reading
  <2>4. Knows(r)
    BY <2>1, <2>2, <2>3 DEF Knows
  <2>5. Quotes!Goes(c, r)
    BY <1>3 DEF Quotes!Registry
  <2>6. Keeps(c) /\ capture'[c] = r
    BY <2>3, <2>4, <2>5, CaptureKeeps
  <2> QED
    BY <2>3, <2>6 DEF Quotes!Verified
<1> QED
  BY <1>1, <1>2, <1>3

LEMMA OwnerKeeps ==
  ASSUME IdentityInv, NEW c \in Captures, Quotes!Owner(c)
  PROVE  Keeps(c) /\ ~Quotes!Verified(c)'
<1>1. capture[c] \in CaptureRecords /\ Knows(capture[c]) /\ capture[c].step = "owner"
  BY DEF IdentityInv, Quotes!Owner, Quotes!At
<1>2. CASE Quotes!Pinned(c) = None
  BY <1>2, PropagationKeeps DEF Quotes!Owner
<1>3. CASE Quotes!Pinned(c) # None /\ world[Quotes!Pinned(c)].owner = None
  <2> DEFINE r == [capture[c] EXCEPT !.step = "done", !.result = Quotes!NotFound]
  <2>1. r \in CaptureRecords /\ r.step = "done" /\ r.result = Quotes!NotFound
        /\ r.header = capture[c].header /\ r.anchor = capture[c].anchor
    BY <1>1, Refused, RecordTypes
  <2>2. world[capture[c].header].owner = None
    BY <1>3 DEF Quotes!Pinned
  <2>3. Knows(r)
    BY <1>1, <2>1, <2>2, Refused DEF Knows
  <2>4. Quotes!Goes(c, r)
    BY <1>3 DEF Quotes!Owner, Quotes!Ends
  <2>5. Keeps(c) /\ capture'[c] = r
    BY <2>1, <2>3, <2>4, CaptureKeeps
  <2> QED
    BY <2>1, <2>5, Refused DEF Quotes!Verified
<1>4. CASE Quotes!Pinned(c) # None /\ world[Quotes!Pinned(c)].owner # None
  <2> DEFINE owner == world[Quotes!Pinned(c)].owner
             r == [capture[c] EXCEPT !.step = "final", !.owner = owner]
  <2>1. Quotes!Pinned(c) = capture[c].header
    BY <1>4 DEF Quotes!Pinned
  <2>2. owner \in Owners
    BY <1>1, <2>1 DEF Knows, Deep, Owners, IdentityInv, ChainInv
  <2>3. r \in CaptureRecords /\ r.step = "final" /\ r.header = capture[c].header
        /\ r.anchor = capture[c].anchor /\ r.owner = owner
    BY <1>1, <2>2 DEF CaptureRecords, Quotes!Reading
  <2>4. Knows(r)
    BY <1>1, <1>4, <2>1, <2>3 DEF Knows
  <2>5. Quotes!Goes(c, r)
    BY <1>4 DEF Quotes!Owner
  <2>6. Keeps(c) /\ capture'[c] = r
    BY <2>3, <2>4, <2>5, CaptureKeeps
  <2> QED
    BY <2>3, <2>6 DEF Quotes!Verified
<1> QED
  BY <1>2, <1>3, <1>4

LEMMA FinalKeeps ==
  ASSUME IdentityInv, NEW c \in Captures, Quotes!Final(c)
  PROVE  Keeps(c) /\ ~Quotes!Verified(c)'
<1> DEFINE r == [capture[c] EXCEPT !.step = "provider"]
<1>1. CASE Quotes!Block(capture[c].header[1]) # capture[c].header
  BY <1>1, PropagationKeeps DEF Quotes!Final
<1>2. CASE Quotes!Block(capture[c].header[1]) = capture[c].header
  <2>1. capture[c] \in CaptureRecords /\ Knows(capture[c]) /\ capture[c].step = "final"
    BY DEF IdentityInv, Quotes!Final, Quotes!At
  <2>2. r \in CaptureRecords /\ r.step = "provider" /\ r.header = capture[c].header
        /\ r.anchor = capture[c].anchor /\ r.owner = capture[c].owner
    BY <2>1 DEF CaptureRecords, Quotes!Reading
  <2>3. Knows(r)
    BY <2>1, <2>2 DEF Knows
  <2>4. Quotes!Goes(c, r)
    BY <1>2 DEF Quotes!Final
  <2>5. Keeps(c) /\ capture'[c] = r
    BY <2>2, <2>3, <2>4, CaptureKeeps
  <2> QED
    BY <2>2, <2>5 DEF Quotes!Verified
<1> QED
  BY <1>1, <1>2

\* The last read: what it makes verified is canonical and deep then.
LEMMA ProviderKeeps ==
  ASSUME IdentityInv, NEW c \in Captures, Quotes!Provider(c)
  PROVE  /\ Keeps(c)
         /\ Quotes!Verified(c)' =>
              /\ Quotes!Canonical(capture'[c].result.block)
              /\ Deep(capture'[c].result.block)
<1>1. capture[c] \in CaptureRecords /\ Knows(capture[c]) /\ capture[c].step = "provider"
  BY DEF IdentityInv, Quotes!Provider, Quotes!At
<1>2. CASE Quotes!Pinned(c) = None
  BY <1>2, EndsInconclusive DEF Codes, Quotes!Provider
<1>3. CASE Quotes!Pinned(c) # None
  <2> DEFINE block == capture[c].header
             observedAt == IF capture[c].anchor = None THEN now
                           ELSE Quotes!Time(capture[c].anchor)
             result == [status |-> "verified", block |-> block, owner |-> capture[c].owner,
                        kind |-> world[block].kind, observedAt |-> observedAt]
             r == [capture[c] EXCEPT !.step = "done", !.result = result]
  <2>1. Quotes!Pinned(c) = block /\ Quotes!Canonical(block) /\ Deep(block)
    BY <1>1, <1>3 DEF Quotes!Pinned, Knows
  <2>2. observedAt \in Nat
    BY <1>1, <2>1, BlockIs, Numbers DEF Knows, Deep, Quotes!Time, IdentityInv, ChainInv
  <2>3. world[block].kind \in {"eoa", "erc1271"}
    BY <2>1, CandidateAssumption DEF Deep, Quotes!SceneAssumption, IdentityInv, ChainInv
  <2>4. capture[c].owner \in Owners
    BY <1>1 DEF Knows, CaptureRecords
  <2>5. /\ result \in Verdicts /\ result.status = "verified" /\ result.block = block
        /\ result.owner = capture[c].owner /\ result.kind = world[block].kind
        /\ result.observedAt = observedAt
    BY <2>1, <2>2, <2>3, <2>4 DEF Verdicts, Deep
  <2> HIDE DEF result
  <2>6. r \in CaptureRecords /\ r.step = "done" /\ r.result = result
        /\ r.header = block /\ r.anchor = capture[c].anchor
    BY <1>1, <2>5, RecordTypes
  <2>7. Knows(r)
    BY <1>1, <2>5, <2>6 DEF Knows
  <2>8. Quotes!Goes(c, r)
    BY <1>3, <2>1 DEF Quotes!Provider, Quotes!Ends, Quotes!Identity, result
  <2>9. Keeps(c) /\ capture'[c] = r
    BY <2>6, <2>7, <2>8, CaptureKeeps
  <2>10. Quotes!Canonical(capture'[c].result.block) /\ Deep(capture'[c].result.block)
    BY <2>1, <2>5, <2>6, <2>9
  <2> QED
    BY <2>9, <2>10
<1> QED
  BY <1>2, <1>3

LEMMA FaultKeeps ==
  ASSUME IdentityInv, NEW c \in Captures, Quotes!Fault(c) \/ Quotes!Lagging(c)
  PROVE  Keeps(c) /\ ~Quotes!Verified(c)'
<1>1. CASE Quotes!Fault(c)
  <2>1. PICK code \in Codes : Quotes!Ends(c, Quotes!Inconclusive(code))
    BY <1>1 DEF Quotes!Fault, Codes
  <2> QED
    BY <2>1, EndsInconclusive
<1>2. CASE Quotes!Lagging(c)
  BY <1>2, EndsInconclusive, PropagationKeeps DEF Quotes!Lagging, Codes
<1> QED
  BY <1>1, <1>2

\* A read of one capture; what it makes verified is canonical and deep then.
LEMMA ReadKeeps ==
  ASSUME IdentityInv, NEW c \in Captures, Quotes!Read(c)
  PROVE  /\ Keeps(c)
         /\ Quotes!Verified(c)' =>
              /\ Quotes!Canonical(capture'[c].result.block)
              /\ Deep(capture'[c].result.block)
BY HeadKeeps, HeaderKeeps, RegistryKeeps, OwnerKeeps, FinalKeeps, ProviderKeeps, FaultKeeps
   DEF Quotes!Read

\* The chain grows and changes branch: what was said of a block it still says.
LEMMA ChainKeeps ==
  ASSUME IdentityInv, Quotes!Tick \/ Quotes!Mine \/ Quotes!Reorganize
  PROVE  IdentityInv' /\ UNCHANGED capture
<1>1. /\ UNCHANGED <<world, capture>>
      /\ branch' \in Branches /\ height' \in Depth..MaxHeight /\ height' >= height
      /\ forks' \in 0..MaxForks /\ now' \in 0..MaxTime
  BY Numbers DEF IdentityInv, ChainInv, Quotes!Tick, Quotes!Mine, Quotes!Reorganize
<1>2. ChainInv' /\ (capture \in [Captures -> CaptureRecords])'
  BY <1>1 DEF IdentityInv, ChainInv, CaptureRecords
<1>3. ASSUME NEW c \in Captures
      PROVE  Knows(capture[c])'
  <2>1. Knows(capture[c]) /\ capture[c] \in CaptureRecords
        /\ height' \in Int /\ height \in Int /\ Depth \in Nat /\ MaxHeight \in Nat
    BY <1>1, Numbers DEF IdentityInv, ChainInv
  <2>2. \A block \in Blks : block[1] \in Int
    BY BlockIs
  <2>3. \A block : Deep(block) => Deep(block)'
    BY <1>1, <2>1, <2>2 DEF Deep, Blks, Quotes!DeepBlocks
  <2> QED
    BY <1>1, <2>1, <2>3 DEF Knows, Verdicts, Refusals, Blks, Quotes!DeepBlocks,
       Quotes!Time, Quotes!NotFound, Quotes!Inconclusive
<1> QED
  BY <1>1, <1>2, <1>3 DEF IdentityInv

LEMMA IdentityInitKeeps ==
  ASSUME Quotes!IdentityInit
  PROVE  IdentityInv
<1>1. ChainInv
  BY Numbers DEF Quotes!IdentityInit, ChainInv, Blks
<1>2. Quotes!Idle \in CaptureRecords /\ Quotes!Idle.step = "idle"
  BY DEF Quotes!Idle, CaptureRecords
<1>3. Knows(Quotes!Idle)
  BY <1>2 DEF Knows
<1> QED
  BY <1>1, <1>2, <1>3 DEF Quotes!IdentityInit, IdentityInv

\* What a capture promises follows.
LEMMA IdentityPromises ==
  ASSUME IdentityInv
  PROVE  Quotes!TypeOK /\ Quotes!AnswersAreOfOneBlock /\ Quotes!AgeIsOfTheBlock
<1>1. Quotes!TypeOK
  BY Numbers DEF IdentityInv, ChainInv, CaptureRecords, Quotes!TypeOK, Blks
<1>2. ASSUME NEW c \in Captures
      PROVE  capture[c] \in CaptureRecords /\ Knows(capture[c])
  BY DEF IdentityInv
<1>3. Quotes!AnswersAreOfOneBlock
  BY <1>2 DEF Quotes!AnswersAreOfOneBlock, Knows
<1>4. Quotes!AgeIsOfTheBlock
  <2>1. SUFFICES ASSUME NEW c \in Captures, Quotes!Verified(c), capture[c].anchor # None
                 PROVE  capture[c].result.observedAt <= Quotes!Time(capture[c].result.block)
    BY DEF Quotes!AgeIsOfTheBlock
  <2>2. capture[c].result \in Verdicts
        /\ capture[c].result.observedAt = Quotes!Time(capture[c].result.block)
    BY <1>2, <2>1 DEF Knows, Quotes!Verified
  <2> QED
    BY <2>2 DEF Verdicts
<1> QED
  BY <1>1, <1>3, <1>4

\* A step of a capture, or of the chain: captures go on by one step at a time,
\* and one that is over is over.
LEMMA IdentityStep ==
  ASSUME IdentityInv, [Quotes!Next]_chain
  PROVE  IdentityInv' /\ Quotes!HandsOutCanonical
<1> USE DEF Quotes!HandsOutCanonical
<1>1. CASE Quotes!Tick \/ Quotes!Mine \/ Quotes!Reorganize
  BY <1>1, ChainKeeps DEF Quotes!Verified
<1>2. ASSUME NEW c \in Captures, Quotes!Read(c)
      PROVE  IdentityInv' /\ Quotes!HandsOutCanonical
  BY <1>2, ReadKeeps DEF Keeps, Deep, Quotes!Verified
<1>3. ASSUME NEW c \in Captures, NEW anchor \in Quotes!Anchors, Quotes!Start(c, anchor)
      PROVE  IdentityInv' /\ Quotes!HandsOutCanonical
  BY <1>3, StartKeeps DEF Keeps, Quotes!Verified
<1>4. CASE UNCHANGED chain
  BY <1>4 DEF chain, IdentityInv, ChainInv, Knows, Deep, Quotes!Verified
<1> QED
  BY <1>1, <1>2, <1>3, <1>4 DEF Quotes!Next

-----------------------------------------------------------------------------
(* Quotes: what an answer was checked against is what was asked.           *)

\* The window of a challenge, as deriveCategoryQuoteChallengeWindow makes it.
GoodWindow(c, w) ==
    /\ w \in Quotes!Windows
    /\ w.id = Request[c].id /\ w.skew = Request[c].skew /\ w.issuedAt <= now
    /\ w.issuedAt < w.permissionsExpiresAt /\ w.permissionsExpiresAt <= w.expiresAt
    /\ w.expiresAt <= w.issuedAt + Ttl
    /\ w.expiresAt <= Request[c].expiresAt
    /\ w.permissionsExpiresAt <= Request[c].permissionsExpiresAt

\* An answer that was found acceptable once.
GoodEnvelope(c, e) ==
    LET request == quote[c].expected  identity == capture[c].result
    IN  /\ e.challenge.request = request /\ e.challenge.identity = identity
        /\ e.answers = e.challenge /\ e.quoteExpiresAt \in Nat
        /\ e.quoteExpiresAt <= request.expiresAt
        /\ e.quoteExpiresAt <= request.permissionsExpiresAt
        /\ request.issuedAt <= identity.observedAt + IdentityAge

Answers ==
    [challenge : Quotes!Challenges, answers : Quotes!Challenges, provider : Signers,
     kind : {"eoa", "erc1271"}, negotiatedAt : Nat, quoteExpiresAt : Nat, signer : Signers]
QuoteRecords ==
    [step : Quotes!Asking \cup {"idle", "refused", "verified"},
     expected : {None} \cup Quotes!Windows, challenge : {None} \cup Quotes!Challenges,
     envelope : {None} \cup Answers]

\* What a workflow has in hand at each of its steps.
Holds(c) ==
    /\ quote[c].expected # None => GoodWindow(c, quote[c].expected)
    /\ quote[c].step \in Quotes!Asking \cup {"verified"} => GoodWindow(c, quote[c].expected)
    /\ quote[c].step \in {"fetch", "signature", "answered", "verified"} =>
        /\ Quotes!Verified(c)
        /\ quote[c].challenge = [request |-> quote[c].expected, identity |-> capture[c].result]
    /\ quote[c].step \in {"signature", "answered", "verified"} =>
        GoodEnvelope(c, quote[c].envelope)
    /\ quote[c].step \in {"answered", "verified"} =>
        quote[c].envelope.signer = capture[c].result.owner

\* In a quote's workflow an identity is always read at the snapshot.
Anchored == \A c \in Captures : capture[c].step # "idle" => capture[c].anchor # None

QuoteInv ==
    /\ IdentityInv
    /\ quote \in [Captures -> QuoteRecords]
    /\ Anchored
    /\ \A c \in Captures : Holds(c)

\* Only a capture under way is read for.
LEMMA ReadIsUnderWay ==
  ASSUME NEW c \in Captures, Quotes!Read(c)
  PROVE  capture[c].step \notin {"idle", "done"}
BY DEF Quotes!Read, Quotes!Head, Quotes!Header, Quotes!Registry, Quotes!Owner, Quotes!Final,
   Quotes!Provider, Quotes!Fault, Quotes!Lagging, Quotes!At, Quotes!Reading

\* A verified candidate is an identity whose owner may sign.
LEMMA VerifiedIs ==
  ASSUME IdentityInv, NEW c \in Captures, Quotes!Verified(c)
  PROVE  /\ capture[c].result \in Quotes!Identities
         /\ capture[c].result.owner = world[capture[c].result.block].owner
         /\ capture[c].anchor # None =>
              capture[c].result.observedAt = Quotes!Time(capture[c].result.block)
<1>1. Knows(capture[c])
  BY DEF IdentityInv
<1>2. capture[c].result \in Verdicts /\ capture[c].result.owner # None
  BY <1>1 DEF Knows, Quotes!Verified
<1>3. capture[c].result.owner \in Signers
  BY <1>2, CandidateAssumption DEF Verdicts, Owners, Quotes!QuoteAssumption
<1>4. capture[c].result \in Quotes!Identities
  BY <1>2, <1>3 DEF Verdicts, Quotes!Identities, Blks
<1> QED
  BY <1>1, <1>4 DEF Knows, Quotes!Verified

\* A step of the chain or of a capture, with the quotes as they are.
LEMMA QuoteRests ==
  ASSUME QuoteInv, UNCHANGED quote, IdentityInv', now' \in Int, now' >= now, Anchored',
         \A c \in Captures : Quotes!Verified(c) => capture'[c] = capture[c]
  PROVE  QuoteInv'
<1>1. (quote \in [Captures -> QuoteRecords])'
  BY DEF QuoteInv, QuoteRecords, Answers, Quotes!Challenges, Quotes!Identities,
         Quotes!Windows, Quotes!DeepBlocks, Quotes!Asking
<1>2. ASSUME NEW c \in Captures
      PROVE  Holds(c)'
  <2>1. Holds(c) /\ now \in Int
    BY Numbers DEF QuoteInv, IdentityInv, ChainInv
  <2>2. \A w : GoodWindow(c, w) => GoodWindow(c, w)'
    BY <2>1 DEF GoodWindow, Quotes!Windows
  <2>3. Quotes!Verified(c) => Quotes!Verified(c)'
    BY DEF Quotes!Verified
  <2>4. CASE Quotes!Verified(c)
    BY <2>1, <2>2, <2>3, <2>4 DEF Holds, GoodEnvelope, Quotes!Asking
  <2>5. CASE ~Quotes!Verified(c)
    BY <2>1, <2>2, <2>5 DEF Holds, Quotes!Asking
  <2> QED
    BY <2>4, <2>5
<1> QED
  BY <1>1, <1>2 DEF QuoteInv

\* A step of one workflow, with the identities as they are.
LEMMA QuoteMoves ==
  ASSUME QuoteInv, NEW c \in Captures, NEW r \in QuoteRecords, Quotes!Moves(c, r),
         /\ r.expected # None => GoodWindow(c, r.expected)
         /\ r.step \in Quotes!Asking \cup {"verified"} => GoodWindow(c, r.expected)
         /\ r.step \in {"fetch", "signature", "answered", "verified"} =>
              /\ Quotes!Verified(c)
              /\ r.challenge = [request |-> r.expected, identity |-> capture[c].result]
         /\ r.step \in {"signature", "answered", "verified"} =>
              r.expected = quote[c].expected /\ GoodEnvelope(c, r.envelope)
         /\ r.step \in {"answered", "verified"} =>
              r.envelope.signer = capture[c].result.owner
  PROVE  QuoteInv' /\ quote'[c] = r
         /\ UNCHANGED Quotes!identityVars /\ \A d \in Captures \ {c} : quote'[d] = quote[d]
<1>1. /\ quote' = [quote EXCEPT ![c] = r]
      /\ UNCHANGED <<branch, height, forks, world, now, capture>>
  BY DEF Quotes!Moves, Quotes!identityVars
<1>2. /\ quote' \in [Captures -> QuoteRecords] /\ quote'[c] = r
      /\ \A d \in Captures \ {c} : quote'[d] = quote[d]
  BY <1>1 DEF QuoteInv
<1>3. (quote \in [Captures -> QuoteRecords])'
  BY <1>2 DEF QuoteRecords, Answers, Quotes!Challenges, Quotes!Identities,
     Quotes!Windows, Quotes!DeepBlocks, Quotes!Asking
<1>4. IdentityInv' /\ Anchored'
  BY <1>1 DEF QuoteInv, Anchored, IdentityInv, ChainInv, CaptureRecords, Knows, Deep,
     Verdicts, Refusals, Blks, Owners, Quotes!DeepBlocks, Quotes!Time, Quotes!NotFound,
     Quotes!Inconclusive, Quotes!Reading
<1>5. /\ \A d \in Captures : \A w : GoodWindow(d, w)' <=> GoodWindow(d, w)
      /\ \A d \in Captures : Quotes!Verified(d)' <=> Quotes!Verified(d)
  BY <1>1 DEF GoodWindow, Quotes!Verified, Quotes!Windows
<1>6. Holds(c)'
  BY <1>1, <1>2, <1>5 DEF Holds, GoodEnvelope, Quotes!Asking
<1>7. ASSUME NEW d \in Captures \ {c}
      PROVE  Holds(d)'
  BY <1>1, <1>2, <1>5 DEF QuoteInv, Holds, GoodEnvelope, Quotes!Asking
<1> QED
  BY <1>1, <1>2, <1>3, <1>4, <1>6, <1>7 DEF QuoteInv, Quotes!identityVars

\* A refusal keeps what the workflow knew.
LEMMA RefusesKeeps ==
  ASSUME QuoteInv, NEW c \in Captures, Quotes!Refuses(c)
  PROVE  QuoteInv' /\ UNCHANGED Quotes!identityVars /\ quote'[c].step = "refused"
         /\ \A d \in Captures \ {c} : quote'[d] = quote[d]
<1> DEFINE r == [quote[c] EXCEPT !.step = "refused"]
<1>1. quote[c] \in QuoteRecords /\ Holds(c)
  BY DEF QuoteInv
<1>2. r \in QuoteRecords /\ r.step = "refused" /\ r.expected = quote[c].expected
  BY <1>1 DEF QuoteRecords
<1>3. r.expected # None => GoodWindow(c, r.expected)
  BY <1>1, <1>2 DEF Holds
<1>4. r.step \notin Quotes!Asking \cup {"verified"}
  BY <1>2 DEF Quotes!Asking
<1>5. Quotes!Moves(c, r)
  BY DEF Quotes!Refuses
<1> HIDE DEF r
<1> QED
  BY <1>2, <1>3, <1>4, <1>5, QuoteMoves

\* The requests of the workflows, and the limits of a quote, are numbers.
LEMMA RequestNumbers ==
  /\ Ttl \in Nat /\ IdentityAge \in Nat
  /\ \A c \in Captures : /\ Request[c].expiresAt \in Nat
                         /\ Request[c].permissionsExpiresAt \in Nat
                         /\ Request[c].skew \in Nat
BY CandidateAssumption DEF Quotes!QuoteAssumption

LEMMA WindowKeeps ==
  ASSUME QuoteInv, NEW c \in Captures, Quotes!Window(c)
  PROVE  QuoteInv' /\ UNCHANGED Quotes!identityVars /\ quote'[c].step # "verified"
         /\ \A d \in Captures \ {c} : quote'[d] = quote[d]
<1> DEFINE expiresAt == Quotes!Min2(Request[c].expiresAt, now + Ttl)
           permissions == Quotes!Min2(Request[c].permissionsExpiresAt, expiresAt)
           w == [id |-> Request[c].id, skew |-> Request[c].skew, issuedAt |-> now,
                 expiresAt |-> expiresAt, permissionsExpiresAt |-> permissions]
           r == [quote[c] EXCEPT !.step = "window", !.expected = w]
<1>1. CASE expiresAt <= now \/ permissions <= now
  BY <1>1, RefusesKeeps DEF Quotes!Window
<1>2. CASE ~(expiresAt <= now \/ permissions <= now)
  <2>1. quote[c] \in QuoteRecords /\ now \in Nat
    BY Numbers DEF QuoteInv, IdentityInv, ChainInv
  <2>2. /\ expiresAt \in Nat /\ permissions \in Nat
        /\ now < permissions /\ permissions <= expiresAt /\ expiresAt <= now + Ttl
        /\ expiresAt <= Request[c].expiresAt /\ permissions <= Request[c].permissionsExpiresAt
    BY <1>2, <2>1, RequestNumbers DEF Quotes!Min2
  <2>3. Quotes!Moves(c, r)
    BY <1>2 DEF Quotes!Window
  <2> HIDE DEF expiresAt, permissions
  <2>4. GoodWindow(c, w)
    BY <2>1, <2>2, RequestNumbers DEF GoodWindow, Quotes!Windows
  <2>5. w \in Quotes!Windows
    BY <2>4 DEF GoodWindow
  <2> HIDE DEF w
  <2>6. r \in QuoteRecords /\ r.step = "window" /\ r.expected = w
    BY <2>1, <2>5 DEF QuoteRecords, Quotes!Asking
  <2> HIDE DEF r
  <2> QED
    BY <2>3, <2>4, <2>6, QuoteMoves
<1> QED
  BY <1>1, <1>2

LEMMA ChallengeKeeps ==
  ASSUME QuoteInv, NEW c \in Captures, Quotes!Challenge(c)
  PROVE  QuoteInv' /\ UNCHANGED Quotes!identityVars /\ quote'[c].step # "verified"
         /\ \A d \in Captures \ {c} : quote'[d] = quote[d]
<1> DEFINE challenge == [request |-> quote[c].expected, identity |-> capture[c].result]
           r == [quote[c] EXCEPT !.step = "fetch", !.challenge = challenge]
<1>1. CASE ~Quotes!Verified(c)
  BY <1>1, RefusesKeeps DEF Quotes!Challenge
<1>2. CASE Quotes!Verified(c)
  <2>1. /\ quote[c] \in QuoteRecords /\ IdentityInv
        /\ GoodWindow(c, quote[c].expected)
    BY DEF QuoteInv, Holds, Quotes!Challenge, Quotes!Asking
  <2>2. challenge \in Quotes!Challenges
    BY <1>2, <2>1, VerifiedIs DEF Quotes!Challenges, GoodWindow
  <2>3. Quotes!Moves(c, r)
    BY <1>2 DEF Quotes!Challenge
  <2>4. r \in QuoteRecords /\ r.step = "fetch" /\ r.expected = quote[c].expected
        /\ r.challenge = challenge
    BY <2>1, <2>2 DEF QuoteRecords, Quotes!Asking
  <2> HIDE DEF r
  <2> QED
    BY <1>2, <2>1, <2>3, <2>4, QuoteMoves
<1> QED
  BY <1>1, <1>2

\* What an endpoint may answer is made of challenges that were issued.
LEMMA EnvelopeIs ==
  ASSUME QuoteInv, NEW e \in Quotes!Envelopes
  PROVE  e \in Answers
<1>1. Quotes!Issued \subseteq Quotes!Challenges
  BY DEF QuoteInv, QuoteRecords, Quotes!Issued
<1> QED
  BY <1>1, Numbers DEF Quotes!Envelopes, Answers

LEMMA FetchKeeps ==
  ASSUME QuoteInv, NEW c \in Captures, Quotes!Fetch(c)
  PROVE  QuoteInv' /\ UNCHANGED Quotes!identityVars /\ quote'[c].step # "verified"
         /\ \A d \in Captures \ {c} : quote'[d] = quote[d]
<1>1. CASE Quotes!Refuses(c)
  BY <1>1, RefusesKeeps
<1>2. ASSUME NEW e \in Quotes!Envelopes, Quotes!Acceptable(c, e),
             Quotes!Moves(c, [quote[c] EXCEPT !.step = "signature", !.envelope = e])
      PROVE  QuoteInv' /\ UNCHANGED Quotes!identityVars /\ quote'[c].step # "verified"
             /\ \A d \in Captures \ {c} : quote'[d] = quote[d]
  <2> DEFINE r == [quote[c] EXCEPT !.step = "signature", !.envelope = e]
  <2>0. quote[c].step = "fetch"
    BY DEF Quotes!Fetch
  <2>1. /\ quote[c] \in QuoteRecords /\ IdentityInv /\ now \in Nat /\ Holds(c)
    BY Numbers DEF QuoteInv, IdentityInv, ChainInv
  <2>2. /\ GoodWindow(c, quote[c].expected) /\ Quotes!Verified(c)
        /\ quote[c].challenge = [request |-> quote[c].expected, identity |-> capture[c].result]
    BY <2>0, <2>1 DEF Holds, Quotes!Asking
  <2>3. e \in Answers
    BY EnvelopeIs
  <2>4. capture[c].result.observedAt \in Nat
    BY <2>1, <2>2, VerifiedIs DEF Quotes!Identities
  <2>5. GoodEnvelope(c, e)
    BY <1>2, <2>1, <2>2, <2>3, <2>4, RequestNumbers DEF GoodEnvelope, GoodWindow,
       Quotes!Windows, Quotes!Acceptable, Quotes!ExpectedRequest, Quotes!ChallengeIdentity,
       Quotes!Chronology, Quotes!Committed, Answers
  <2>6. r \in QuoteRecords /\ r.step = "signature" /\ r.expected = quote[c].expected
        /\ r.challenge = quote[c].challenge /\ r.envelope = e
    BY <2>1, <2>3 DEF QuoteRecords, Quotes!Asking
  <2>7. Quotes!Moves(c, r)
    BY <1>2
  <2> HIDE DEF r
  <2> QED
    BY <2>2, <2>5, <2>6, <2>7, QuoteMoves
<1> QED
  BY <1>1, <1>2 DEF Quotes!Fetch

\* A step that goes on with an answer in hand.
LEMMA GoesOn ==
  ASSUME QuoteInv, NEW c \in Captures, NEW step \in {"answered", "verified"},
         quote[c].step \in {"signature", "answered"},
         quote[c].envelope.signer = capture[c].result.owner,
         Quotes!Moves(c, [quote[c] EXCEPT !.step = step])
  PROVE  QuoteInv' /\ UNCHANGED Quotes!identityVars /\ quote'[c].step = step
         /\ quote'[c].envelope = quote[c].envelope
         /\ \A d \in Captures \ {c} : quote'[d] = quote[d]
<1> DEFINE r == [quote[c] EXCEPT !.step = step]
<1>1. /\ quote[c] \in QuoteRecords /\ Holds(c)
  BY DEF QuoteInv
<1>2. /\ r \in QuoteRecords /\ r.step = step /\ r.expected = quote[c].expected
      /\ r.challenge = quote[c].challenge /\ r.envelope = quote[c].envelope
  BY <1>1 DEF QuoteRecords, Quotes!Asking
<1>3. Quotes!Moves(c, r)
  OBVIOUS
<1>4. /\ GoodWindow(c, quote[c].expected) /\ Quotes!Verified(c)
      /\ GoodEnvelope(c, quote[c].envelope)
      /\ quote[c].challenge = [request |-> quote[c].expected, identity |-> capture[c].result]
  BY <1>1 DEF Holds, Quotes!Asking
<1> HIDE DEF r
<1> QED
  BY <1>2, <1>3, <1>4, QuoteMoves

LEMMA SignatureKeeps ==
  ASSUME QuoteInv, NEW c \in Captures, Quotes!Signature(c)
  PROVE  QuoteInv' /\ UNCHANGED Quotes!identityVars /\ quote'[c].step # "verified"
         /\ \A d \in Captures \ {c} : quote'[d] = quote[d]
<1>1. CASE Quotes!Refuses(c)
  BY <1>1, RefusesKeeps
<1>2. CASE ~Quotes!Refuses(c)
  <2>1. /\ quote[c].step = "signature" /\ quote[c].envelope.signer = capture[c].result.owner
        /\ Quotes!Moves(c, [quote[c] EXCEPT !.step = "answered"])
    BY <1>2 DEF Quotes!Signature
  <2> QED
    BY <2>1, GoesOn
<1> QED
  BY <1>1, <1>2

\* The clock read again: what is handed out has not lapsed.
LEMMA VerifyKeeps ==
  ASSUME QuoteInv, NEW c \in Captures, Quotes!Verify(c)
  PROVE  /\ QuoteInv' /\ UNCHANGED Quotes!identityVars
         /\ \A d \in Captures \ {c} : quote'[d] = quote[d]
         /\ quote'[c].step = "verified" =>
              /\ now < quote[c].envelope.quoteExpiresAt
              /\ now < quote[c].challenge.request.expiresAt
              /\ now - Quotes!Time(capture[c].result.block) <= IdentityAge
<1>1. quote[c].step = "answered" /\ Holds(c) /\ IdentityInv /\ Anchored
  BY DEF QuoteInv, Quotes!Verify
<1>2. CASE ~Quotes!Chronology(c, quote[c].envelope)
  BY <1>2, RefusesKeeps DEF Quotes!Verify
<1>3. CASE Quotes!Chronology(c, quote[c].envelope)
  <2>1. QuoteInv' /\ UNCHANGED Quotes!identityVars /\ \A d \in Captures \ {c} : quote'[d] = quote[d]
    BY <1>1, <1>3, GoesOn DEF Quotes!Verify, Holds
  <2>2. /\ GoodEnvelope(c, quote[c].envelope) /\ Quotes!Verified(c)
        /\ quote[c].challenge = [request |-> quote[c].expected, identity |-> capture[c].result]
    BY <1>1 DEF Holds
  <2>3. capture[c].result.observedAt = Quotes!Time(capture[c].result.block)
    BY <1>1, <2>2, VerifiedIs DEF Anchored, Quotes!Verified
  <2> QED
    BY <1>3, <2>1, <2>2, <2>3 DEF Quotes!Chronology, GoodEnvelope
<1> QED
  BY <1>2, <1>3

\* A step of the chain or of a workflow: what is handed out is in time, and of a
\* canonical block.
LEMMA QuoteStep ==
  ASSUME QuoteInv, [Quotes!QuoteNext]_<<chain, quote>>
  PROVE  QuoteInv' /\ Quotes!HandsOutCanonical /\ Quotes!HandsOutInTime
<1>a. IdentityInv /\ now \in Int
  BY Numbers DEF QuoteInv, IdentityInv, ChainInv
<1>1. CASE Quotes!Chain
  <2>1. IdentityInv' /\ UNCHANGED <<capture, quote>>
    BY <1>1, <1>a, ChainKeeps DEF Quotes!Chain
  <2>2. now' \in Int /\ now' >= now
    BY <1>1, <1>a DEF Quotes!Chain, Quotes!Tick, Quotes!Mine, Quotes!Reorganize
  <2>3. QuoteInv'
    BY <2>1, <2>2, QuoteRests DEF QuoteInv, Anchored
  <2> QED
    BY <2>1, <2>3 DEF Quotes!HandsOutCanonical, Quotes!HandsOutInTime, Quotes!Verified,
       Quotes!Accepted
<1>2. ASSUME NEW c \in Captures, Quotes!Capture(c)
      PROVE  QuoteInv' /\ Quotes!HandsOutCanonical /\ Quotes!HandsOutInTime
  <2>1. PICK anchor \in Quotes!Anchors \ {None} : Quotes!Start(c, anchor)
    BY <1>2 DEF Quotes!Capture
  <2>2. /\ Keeps(c) /\ ~Quotes!Verified(c)'
        /\ capture'[c].anchor = anchor /\ capture[c].step = "idle"
    BY <1>a, <2>1, StartKeeps
  <2>3. UNCHANGED quote
    BY <1>2 DEF Quotes!Capture
  <2>4. QuoteInv'
    BY <1>a, <2>1, <2>2, <2>3, QuoteRests
       DEF Keeps, QuoteInv, Anchored, Quotes!Verified, Quotes!chainVars
  <2> QED
    BY <2>2, <2>3, <2>4 DEF Keeps, Quotes!HandsOutCanonical, Quotes!HandsOutInTime,
       Quotes!Verified, Quotes!Accepted
<1>3. ASSUME NEW c \in Captures, Quotes!Read(c), UNCHANGED quote
      PROVE  QuoteInv' /\ Quotes!HandsOutCanonical /\ Quotes!HandsOutInTime
  <2>1. /\ Keeps(c)
        /\ Quotes!Verified(c)' =>
             Quotes!Canonical(capture'[c].result.block) /\ Deep(capture'[c].result.block)
    BY <1>a, <1>3, ReadKeeps
  <2>2. capture[c].step \notin {"idle", "done"}
    BY <1>3, ReadIsUnderWay
  <2>3. QuoteInv'
    BY <1>a, <1>3, <2>1, <2>2, QuoteRests
       DEF Keeps, QuoteInv, Anchored, Quotes!Verified, Quotes!chainVars
  <2> QED
    BY <1>3, <2>1, <2>3 DEF Keeps, Deep, Quotes!HandsOutCanonical, Quotes!HandsOutInTime,
       Quotes!Verified, Quotes!Accepted
<1>4. ASSUME NEW c \in Captures,
             Quotes!Window(c) \/ Quotes!Challenge(c) \/ Quotes!Fetch(c)
               \/ Quotes!Signature(c) \/ Quotes!Verify(c)
      PROVE  QuoteInv' /\ Quotes!HandsOutCanonical /\ Quotes!HandsOutInTime
  <2>1. /\ QuoteInv' /\ UNCHANGED Quotes!identityVars
        /\ \A d \in Captures \ {c} : quote'[d] = quote[d]
        /\ quote'[c].step = "verified" =>
             /\ now < quote[c].envelope.quoteExpiresAt
             /\ now < quote[c].challenge.request.expiresAt
             /\ now - Quotes!Time(capture[c].result.block) <= IdentityAge
    BY <1>4, WindowKeeps, ChallengeKeeps, FetchKeeps, SignatureKeeps, VerifyKeeps
  <2>2. Quotes!HandsOutCanonical
    BY <2>1 DEF Quotes!HandsOutCanonical, Quotes!Verified, Quotes!identityVars
  <2>3. Quotes!HandsOutInTime
    BY <2>1 DEF Quotes!HandsOutInTime, Quotes!Accepted
  <2> QED
    BY <2>1, <2>2, <2>3
<1>5. CASE UNCHANGED <<chain, quote>>
  <2>1. IdentityInv' /\ UNCHANGED <<capture, now, quote>>
    BY <1>5, <1>a, IdentityStep DEF chain
  <2>2. QuoteInv'
    BY <1>a, <2>1, QuoteRests DEF QuoteInv, Anchored
  <2> QED
    BY <2>1, <2>2 DEF Quotes!HandsOutCanonical, Quotes!HandsOutInTime, Quotes!Verified,
       Quotes!Accepted
<1> QED
  BY <1>1, <1>2, <1>3, <1>4, <1>5 DEF Quotes!QuoteNext, Quotes!Step

LEMMA QuoteInitKeeps ==
  ASSUME Quotes!Init
  PROVE  QuoteInv
<1>1. IdentityInv
  BY IdentityInitKeeps DEF Quotes!Init
<1>2. Quotes!Unasked \in QuoteRecords /\ Quotes!Unasked.step = "idle"
      /\ Quotes!Unasked.expected = None
  BY DEF Quotes!Unasked, QuoteRecords
<1>3. \A c \in Captures : quote[c] = Quotes!Unasked /\ capture[c].step = "idle"
  BY DEF Quotes!Init, Quotes!IdentityInit, Quotes!Idle
<1>4. quote \in [Captures -> QuoteRecords]
  BY <1>2 DEF Quotes!Init
<1> QED
  BY <1>1, <1>2, <1>3, <1>4 DEF QuoteInv, Anchored, Holds, Quotes!Asking

\* An honest candidate's answer, made at once, is acceptable.
LEMMA HonestFits ==
  ASSUME QuoteInv
  PROVE  Quotes!HonestAnswerFits
<1>1. SUFFICES ASSUME NEW c \in Captures, quote[c].step = "fetch",
                      now < quote[c].expected.permissionsExpiresAt,
                      now - capture[c].result.observedAt <= IdentityAge,
                      Quotes!Time(capture[c].result.block)
                        <= quote[c].expected.issuedAt + quote[c].expected.skew
               PROVE  \E envelope \in Quotes!Envelopes :
                        /\ envelope.signer = capture[c].result.owner
                        /\ envelope.negotiatedAt = now
                        /\ Quotes!Acceptable(c, envelope)
  BY DEF Quotes!HonestAnswerFits
<1> DEFINE challenge == quote[c].challenge
           e == [challenge |-> challenge, answers |-> challenge,
                 provider |-> capture[c].result.owner, kind |-> capture[c].result.kind,
                 negotiatedAt |-> now, quoteExpiresAt |-> now + 1,
                 signer |-> capture[c].result.owner]
<1>2. IdentityInv /\ now \in 0..MaxTime /\ MaxTime \in Nat /\ Holds(c) /\ Anchored
  BY Numbers DEF QuoteInv, IdentityInv, ChainInv
<1>3. /\ GoodWindow(c, quote[c].expected) /\ Quotes!Verified(c)
      /\ challenge = [request |-> quote[c].expected, identity |-> capture[c].result]
  BY <1>1, <1>2 DEF Holds, Quotes!Asking
<1>4. /\ capture[c].result \in Quotes!Identities
      /\ capture[c].result.observedAt = Quotes!Time(capture[c].result.block)
  BY <1>2, <1>3, VerifiedIs DEF Anchored, Quotes!Verified
<1>5. challenge \in Quotes!Challenges
  BY <1>3, <1>4 DEF Quotes!Challenges, GoodWindow
<1>6. challenge \in Quotes!Issued
  BY <1>5, CandidateAssumption DEF Quotes!QuoteAssumption, Quotes!Issued
<1>7. now \in 0..MaxTime /\ now + 1 \in 0..MaxTime + 1 /\ now < now + 1
  BY <1>2
<1>8. e \in Quotes!Envelopes
  <2>1. capture[c].result.owner \in Signers /\ capture[c].result.kind \in {"eoa", "erc1271"}
    BY <1>4 DEF Quotes!Identities
  <2> HIDE DEF challenge
  <2> QED
    BY <1>6, <1>7, <2>1 DEF Quotes!Envelopes
<1>9. /\ e.challenge = challenge /\ e.answers = challenge /\ e.negotiatedAt = now
      /\ e.quoteExpiresAt = now + 1 /\ e.signer = capture[c].result.owner
      /\ e.provider = capture[c].result.owner /\ e.kind = capture[c].result.kind
  OBVIOUS
<1> HIDE DEF e
<1>10. Quotes!Chronology(c, e)
  <2>1. /\ quote[c].expected.issuedAt \in Nat /\ quote[c].expected.expiresAt \in Nat
        /\ quote[c].expected.permissionsExpiresAt \in Nat /\ quote[c].expected.skew \in Nat
        /\ capture[c].result.observedAt \in Nat /\ Ttl \in Nat
        /\ IdentityAge \in Nat /\ now \in Nat
    BY <1>2, <1>3, <1>4, RequestNumbers DEF GoodWindow, Quotes!Windows, Quotes!Identities
  <2>2. e.challenge.request = quote[c].expected
    BY <1>3, <1>9
  <2> QED
    BY <1>1, <1>3, <1>4, <1>9, <2>1, <2>2 DEF Quotes!Chronology, GoodWindow
<1>11. Quotes!Acceptable(c, e)
  BY <1>3, <1>9, <1>10 DEF Quotes!Acceptable, Quotes!ExpectedRequest,
     Quotes!ChallengeIdentity, Quotes!ProviderAuthority, Quotes!Committed
<1> QED
  BY <1>8, <1>9, <1>11

\* What quotes promise follows.
LEMMA QuotePromises ==
  ASSUME QuoteInv
  PROVE  /\ Quotes!QuoteTypeOK /\ Quotes!SignedForThisRequest /\ Quotes!LapsesInTime
         /\ Quotes!HonestAnswerFits
<1>a. IdentityInv /\ Anchored
  BY DEF QuoteInv
<1>b. ASSUME NEW c \in Captures
      PROVE  quote[c] \in QuoteRecords /\ Holds(c)
  BY DEF QuoteInv
<1>1. Quotes!QuoteTypeOK
  <2>1. Quotes!TypeOK
    BY <1>a, IdentityPromises
  <2>2. ASSUME NEW c \in Captures
        PROVE  /\ quote[c].step \in Quotes!Asking \cup {"idle", "refused", "verified"}
               /\ quote[c].step \in {"signature", "answered", "verified"} => Quotes!Verified(c)
               /\ quote[c].expected # None =>
                   LET w == quote[c].expected
                   IN  /\ w.issuedAt < w.expiresAt /\ w.expiresAt - w.issuedAt <= Ttl
                       /\ w.issuedAt < w.permissionsExpiresAt
                       /\ w.permissionsExpiresAt <= w.expiresAt
    <3>1. /\ quote[c].step \in Quotes!Asking \cup {"idle", "refused", "verified"}
          /\ quote[c].step \in {"signature", "answered", "verified"} => Quotes!Verified(c)
      BY <1>b DEF QuoteRecords, Holds
    <3>2. ASSUME quote[c].expected # None
          PROVE  LET w == quote[c].expected
                 IN  /\ w.issuedAt < w.expiresAt /\ w.expiresAt - w.issuedAt <= Ttl
                     /\ w.issuedAt < w.permissionsExpiresAt
                     /\ w.permissionsExpiresAt <= w.expiresAt
      <4>1. GoodWindow(c, quote[c].expected)
        BY <1>b, <3>2 DEF Holds
      <4>2. /\ quote[c].expected.issuedAt \in Nat /\ quote[c].expected.expiresAt \in Nat
            /\ quote[c].expected.permissionsExpiresAt \in Nat
        BY <4>1 DEF GoodWindow, Quotes!Windows
      <4> QED
        BY <4>1, <4>2, RequestNumbers DEF GoodWindow
    <3> QED
      BY <3>1, <3>2
  <2> QED
    BY <2>1, <2>2 DEF Quotes!QuoteTypeOK
<1>2. ASSUME NEW c \in Captures, Quotes!Accepted(c)
      PROVE  /\ GoodWindow(c, quote[c].expected) /\ Quotes!Verified(c)
             /\ GoodEnvelope(c, quote[c].envelope)
             /\ quote[c].envelope.signer = capture[c].result.owner
             /\ capture[c].result \in Quotes!Identities
             /\ capture[c].result.owner = world[capture[c].result.block].owner
             /\ capture[c].result.observedAt = Quotes!Time(capture[c].result.block)
  <2>1. /\ GoodWindow(c, quote[c].expected) /\ Quotes!Verified(c)
        /\ GoodEnvelope(c, quote[c].envelope)
        /\ quote[c].envelope.signer = capture[c].result.owner
    BY <1>b, <1>2 DEF Holds, Quotes!Accepted
  <2> QED
    BY <1>a, <2>1, VerifiedIs DEF Anchored, Quotes!Verified
<1>3. Quotes!SignedForThisRequest
  BY <1>2 DEF Quotes!SignedForThisRequest, GoodEnvelope, GoodWindow
<1>4. Quotes!LapsesInTime
  <2>1. SUFFICES ASSUME NEW c \in Captures, Quotes!Accepted(c)
                 PROVE  LET expiry == quote[c].envelope.quoteExpiresAt
                        IN  /\ expiry <= Request[c].expiresAt
                            /\ expiry <= Request[c].permissionsExpiresAt
                            /\ expiry <= Quotes!Time(capture[c].result.block)
                                         + IdentityAge + Ttl
    BY DEF Quotes!LapsesInTime
  <2>2. quote[c].envelope.quoteExpiresAt \in Int
    BY <1>2, <2>1 DEF GoodEnvelope
  <2>3. /\ quote[c].expected.issuedAt \in Nat /\ quote[c].expected.expiresAt \in Nat
        /\ quote[c].expected.permissionsExpiresAt \in Nat
        /\ capture[c].result.observedAt \in Nat
    BY <1>2, <2>1 DEF GoodWindow, Quotes!Windows, Quotes!Identities
  <2> QED
    BY <1>2, <2>1, <2>2, <2>3, RequestNumbers DEF GoodWindow, GoodEnvelope
<1> QED
  BY <1>1, <1>3, <1>4, HonestFits

-----------------------------------------------------------------------------
(* The least of a few numbers.                                             *)

HasLeast(S) == S \subseteq Int /\ \E l \in S : \A n \in S : l <= n

LEMMA OneHasLeast ==
  ASSUME NEW n \in Int
  PROVE  HasLeast({n})
BY DEF HasLeast

LEMMA MoreHaveLeast ==
  ASSUME NEW S, HasLeast(S), NEW n \in Int
  PROVE  HasLeast(S \cup {n})
<1>1. PICK l \in S : \A i \in S : l <= i
  BY DEF HasLeast
<1>2. S \subseteq Int /\ l \in Int
  BY <1>1 DEF HasLeast
<1>3. CASE l <= n
  <2>1. \A i \in S \cup {n} : l <= i
    BY <1>1, <1>3
  <2> QED
    BY <1>1, <1>2, <2>1 DEF HasLeast
<1>4. CASE ~(l <= n)
  <2>1. \A i \in S \cup {n} : n <= i
    BY <1>1, <1>2, <1>4
  <2> QED
    BY <1>2, <2>1 DEF HasLeast
<1> QED
  BY <1>3, <1>4

LEMMA LeastIs ==
  ASSUME NEW S, HasLeast(S)
  PROVE  Reports!Least(S) \in S /\ \A n \in S : Reports!Least(S) <= n
BY DEF HasLeast, Reports!Least, Reports!Min

LEMMA LeastOfEight ==
  ASSUME NEW a \in Int, NEW b \in Int, NEW c \in Int, NEW d \in Int,
         NEW e \in Int, NEW f \in Int, NEW g \in Int, NEW h \in Int
  PROVE  LET least == Reports!Least({a, b, c, d, e, f, g, h})
         IN  /\ least \in {a, b, c, d, e, f, g, h}
             /\ least <= a /\ least <= b /\ least <= c /\ least <= d
             /\ least <= e /\ least <= f /\ least <= g /\ least <= h
<1>1. HasLeast({a} \cup {b} \cup {c} \cup {d})
  BY OneHasLeast, MoreHaveLeast
<1>2. HasLeast({a} \cup {b} \cup {c} \cup {d} \cup {e} \cup {f} \cup {g} \cup {h})
  BY <1>1, MoreHaveLeast
<1>3. {a} \cup {b} \cup {c} \cup {d} \cup {e} \cup {f} \cup {g} \cup {h}
      = {a, b, c, d, e, f, g, h}
  OBVIOUS
<1> QED
  BY <1>2, <1>3, LeastIs

LEMMA LeastOfSeven ==
  ASSUME NEW a \in Int, NEW b \in Int, NEW c \in Int, NEW d \in Int,
         NEW e \in Int, NEW f \in Int, NEW g \in Int
  PROVE  LET least == Reports!Least({a, b, c, d, e, f, g})
         IN  /\ least \in {a, b, c, d, e, f, g}
             /\ least <= a /\ least <= b /\ least <= c /\ least <= d
             /\ least <= e /\ least <= f /\ least <= g
<1>1. HasLeast({a} \cup {b} \cup {c} \cup {d} \cup {e} \cup {f} \cup {g})
  BY OneHasLeast, MoreHaveLeast
<1>2. {a} \cup {b} \cup {c} \cup {d} \cup {e} \cup {f} \cup {g}
      = {a, b, c, d, e, f, g}
  OBVIOUS
<1> QED
  BY <1>1, <1>2, LeastIs

LEMMA LeastOfSix ==
  ASSUME NEW a \in Int, NEW b \in Int, NEW c \in Int, NEW d \in Int,
         NEW e \in Int, NEW f \in Int
  PROVE  LET least == Reports!Least({a, b, c, d, e, f})
         IN  /\ least \in {a, b, c, d, e, f}
             /\ least <= a /\ least <= b /\ least <= c /\ least <= d
             /\ least <= e /\ least <= f
<1>1. HasLeast({a} \cup {b} \cup {c} \cup {d} \cup {e} \cup {f})
  BY OneHasLeast, MoreHaveLeast
<1>2. {a} \cup {b} \cup {c} \cup {d} \cup {e} \cup {f}
      = {a, b, c, d, e, f}
  OBVIOUS
<1> QED
  BY <1>1, <1>2, LeastIs

-----------------------------------------------------------------------------
(* Reports.                                                                *)

\* What is signed is of one candidate and one block, and lives within bounds.
WellSigned(e) ==
  LET p == e.projection
      anchor == p.observation.anchor
  IN  /\ p.request \in Wanted /\ anchor \in EvidenceAnchors
      /\ p.identity = Reports!Identity(p.request.candidate, anchor)
      /\ p.observation.reads.anchor = anchor
      /\ p.acceptance.negotiatedAt \in Int /\ p.acceptance.expiresAt \in Int
      /\ e.issuedAt \in Int /\ e.expiresAt \in Int
      /\ e.expiresAt - e.issuedAt \in MinRemaining..MaxTtl
      /\ p.request.mode = "observe_only" => e.expiresAt <= Trust.until

\* The Core accepts it, with the very evidence it is of.
AcceptedAsOwn(e, at) ==
  LET p == e.projection
  IN  Reports!Accepts(e, p.request, p.identity, p.observation.targets, p.observation.reads, at)

WellIssued(e) ==
  /\ WellSigned(e)
  /\ e.projection.request.mode = "observe_only" => \E at \in Int : AcceptedAsOwn(e, at)

\* What was verified was accepted, then, with what came along.
WellVerified(v) ==
  /\ WellSigned(v.attestation)
  /\ v.at \in Int
  /\ Reports!Accepts(v.attestation, v.request, v.identity, v.targets, v.reads, v.at)

ReportInv ==
  /\ time \in 0..MaxClock /\ drift \in Drifts
  /\ unsigned # None => WellSigned(unsigned)
  /\ \A e \in issued : WellIssued(e)
  /\ verified # None => WellVerified(verified)
  /\ report # None =>
      /\ WellVerified(report.of)
      /\ report.at = report.of.at /\ report.at <= time
      /\ report.status = Reports!Status(report.of.attestation, report.at)
      /\ report.validUntil = Reports!ValidUntil(report.of.attestation, report.at)

LEMMA ReportNumbers ==
  /\ {Trust.from, Trust.until, Trust.expires} \subseteq Int
  /\ Trust.until >= Trust.expires
  /\ MaxTtl \in Nat /\ EvidenceAge \in Nat /\ MinRemaining \in 1..MaxTtl /\ MaxClock \in Nat
  /\ Drifts \subseteq Int
  /\ Minimum \in {"instance", "interface"}
  /\ \A anchor \in EvidenceAnchors : anchor.at \in Int
  /\ \A terms \in Terms : terms.ahead \in Int /\ terms.ttl \in Int
  /\ \A r \in Wanted :
      /\ r.mode \in {"observe_only", "transactional"}
      /\ r.issuedAt \in Int /\ r.expiresAt \in Int /\ r.permissions \in Int
      /\ r.mandate.createdAt \in Int /\ r.mandate.expiresAt \in Int
      /\ r.mandate.permissions \in Int /\ r.mandate.skew \in Int /\ r.mandate.maxAge \in Int
BY WantedAssumption DEF Reports!ReportAssumption

\* The boundary of a report is the least of seven.
LEMMA BoundaryIs ==
  ASSUME NEW e, WellSigned(e), NEW instant
  PROVE  LET p == e.projection
             r == p.request
             until == Reports!ValidUntil(e, instant)
             identity == p.observation.anchor.at + EvidenceAge + 1
             evidence == p.observation.anchor.at + r.mandate.maxAge + 1
         IN  /\ until \in {e.expiresAt, r.mandate.expiresAt, r.expiresAt, r.permissions,
                           p.acceptance.expiresAt, identity, evidence}
             /\ until \in Int
             /\ until <= e.expiresAt /\ until <= r.mandate.expiresAt /\ until <= r.expiresAt
             /\ until <= r.permissions /\ until <= p.acceptance.expiresAt
             /\ until <= identity /\ until <= evidence
<1> DEFINE p == e.projection
           r == p.request
           identity == p.observation.anchor.at + EvidenceAge + 1
           evidence == p.observation.anchor.at + r.mandate.maxAge + 1
<1>1. /\ e.expiresAt \in Int /\ r.mandate.expiresAt \in Int /\ r.expiresAt \in Int
      /\ r.permissions \in Int /\ p.acceptance.expiresAt \in Int /\ identity \in Int
      /\ evidence \in Int
  BY ReportNumbers DEF WellSigned
<1>2. p.identity.anchor = p.observation.anchor
  BY DEF WellSigned, Reports!Identity
<1>3. Reports!ValidUntil(e, instant)
      = Reports!Least({e.expiresAt, r.mandate.expiresAt, r.expiresAt, r.permissions,
                       p.acceptance.expiresAt, identity, evidence})
  BY <1>2 DEF Reports!ValidUntil
<1> HIDE DEF identity, evidence, p, r
<1>4. LET u == Reports!Least({e.expiresAt, r.mandate.expiresAt, r.expiresAt, r.permissions,
                       p.acceptance.expiresAt, identity, evidence})
      IN /\ u \in {e.expiresAt, r.mandate.expiresAt, r.expiresAt, r.permissions,
                       p.acceptance.expiresAt, identity, evidence}
         /\ u <= e.expiresAt /\ u <= r.mandate.expiresAt /\ u <= r.expiresAt
         /\ u <= r.permissions /\ u <= p.acceptance.expiresAt
         /\ u <= identity /\ u <= evidence
  BY <1>1, LeastOfSeven
<1>5. Reports!ValidUntil(e, instant) \in Int
  BY <1>1, <1>3, <1>4
<1> QED
  BY <1>3, <1>4, <1>5 DEF identity, evidence, p, r

\* What it is for an attestation to be accepted, with whatever came along.
LEMMA AcceptedIs ==
  ASSUME NEW e, WellSigned(e), NEW r, NEW identity, NEW targets, NEW reads, NEW instant \in Int,
         Reports!Accepts(e, r, identity, targets, reads, instant)
  PROVE  LET p == e.projection
             m == r.mandate
             anchor == p.observation.anchor
         IN  /\ instant < Trust.expires
             /\ Reports!RequestBinds(r) /\ r.permissions <= m.permissions
             /\ Reports!Resolves(e.issuedAt)
             /\ r = p.request /\ identity = p.identity
             /\ targets = p.observation.targets /\ reads = p.observation.reads
             /\ Reports!EvidenceFits(r, identity, targets, reads)
             /\ identity.candidate = r.candidate /\ targets.scope = r.scope
             /\ identity.anchor = anchor /\ targets.anchor = anchor
             /\ p.acceptance.request = r /\ p.acceptance.owner = identity.owner
             /\ p.acceptance.expiresAt > p.acceptance.negotiatedAt
             /\ p.acceptance.negotiatedAt >= r.issuedAt - m.skew
             /\ p.acceptance.expiresAt <= r.expiresAt
             /\ anchor.at >= m.createdAt /\ anchor.at <= e.issuedAt
             /\ e.issuedAt >= r.issuedAt - m.skew
             /\ e.expiresAt > e.issuedAt /\ e.expiresAt <= e.issuedAt + MaxTtl
             /\ e.expiresAt <= m.expiresAt /\ e.expiresAt <= r.expiresAt
             /\ r.permissions <= r.expiresAt
<1>1. /\ instant < Trust.expires /\ Reports!RequestBinds(r)
      /\ Reports!EvidenceFits(r, identity, targets, reads) /\ Reports!Resolves(e.issuedAt)
      /\ e.projection.request = r /\ Reports!EnvelopeHolds(e, instant)
      /\ Reports!LinkageHolds(e.projection, r, identity, targets, reads, instant)
      /\ Reports!SidecarsHold(e.projection, identity, targets, reads)
  BY DEF Reports!Accepts
<1>2. r.permissions <= r.mandate.permissions /\ r.permissions <= r.expiresAt
  BY <1>1 DEF Reports!RequestBinds, Reports!RequestHolds
<1>3. /\ identity = e.projection.identity
      /\ targets = e.projection.observation.targets
      /\ reads = e.projection.observation.reads
  BY <1>1 DEF Reports!SidecarsHold
<1>4. identity.candidate = r.candidate /\ targets.scope = r.scope
  BY <1>1 DEF Reports!EvidenceFits
<1>5. LET p == e.projection
          m == r.mandate
          anchor == p.observation.anchor
      IN  /\ identity.anchor = anchor /\ targets.anchor = anchor
          /\ p.acceptance.request = r /\ p.acceptance.owner = identity.owner
          /\ p.acceptance.expiresAt > p.acceptance.negotiatedAt
          /\ p.acceptance.negotiatedAt >= r.issuedAt - m.skew
          /\ p.acceptance.expiresAt <= r.expiresAt
          /\ anchor.at >= m.createdAt
  BY <1>1 DEF Reports!LinkageHolds
<1>6. LET r0 == e.projection.request
          m == r0.mandate
          anchor == e.projection.observation.anchor
      IN  /\ anchor.at <= e.issuedAt
          /\ e.issuedAt >= r0.issuedAt - m.skew
          /\ e.expiresAt > e.issuedAt /\ e.expiresAt <= e.issuedAt + MaxTtl
          /\ e.expiresAt <= m.expiresAt /\ e.expiresAt <= r0.expiresAt
  BY <1>1 DEF Reports!EnvelopeHolds
<1> QED
  BY <1>1, <1>2, <1>3, <1>4, <1>5, <1>6

LEMMA ReportInitKeeps ==
  ASSUME Reports!Init
  PROVE  ReportInv
BY ReportNumbers DEF Reports!Init, ReportInv

\* How long what the orchestrator signs lives.
LEMMA ExpiryIs ==
  ASSUME NEW r \in Wanted, NEW anchor \in EvidenceAnchors, NEW terms \in Terms,
         time \in Int, drift \in Int
  PROVE  LET expiry == Reports!Expiry(Reports!IssuerClock, r, Reports!Acceptance(r, terms), anchor)
         IN  /\ expiry \in Int /\ expiry <= Reports!IssuerClock + MaxTtl /\ expiry <= Trust.until
             /\ Reports!IssuerClock \in Int
             /\ Reports!Acceptance(r, terms).negotiatedAt \in Int
             /\ Reports!Acceptance(r, terms).expiresAt \in Int
<1> DEFINE instant == Reports!IssuerClock
           accepted == Reports!Acceptance(r, terms)
           lapses == accepted.expiresAt
           ttl == instant + MaxTtl
           identity == anchor.at + EvidenceAge + 1
           evidence == anchor.at + r.mandate.maxAge + 1
<1>1. instant \in Int /\ accepted.negotiatedAt \in Int /\ accepted.expiresAt \in Int
  BY ReportNumbers DEF Reports!IssuerClock, Reports!Acceptance
<1>2. /\ ttl \in Int /\ r.mandate.expiresAt \in Int /\ r.expiresAt \in Int
      /\ r.permissions \in Int /\ identity \in Int /\ evidence \in Int /\ Trust.until \in Int
      /\ lapses \in Int
  BY <1>1, ReportNumbers
<1>3. Reports!Expiry(instant, r, accepted, anchor)
      = Reports!Least({ttl, r.mandate.expiresAt, r.expiresAt, r.permissions, lapses,
                       identity, evidence, Trust.until})
  BY DEF Reports!Expiry
<1> HIDE DEF instant, accepted, lapses, ttl, identity, evidence
<1>4. LET u == Reports!Least({ttl, r.mandate.expiresAt, r.expiresAt, r.permissions, lapses,
                              identity, evidence, Trust.until})
      IN  /\ u \in {ttl, r.mandate.expiresAt, r.expiresAt, r.permissions, lapses,
                    identity, evidence, Trust.until}
          /\ u <= ttl /\ u <= Trust.until
  BY <1>2, LeastOfEight
<1>5. Reports!Expiry(instant, r, accepted, anchor) \in Int
  BY <1>2, <1>3, <1>4
<1> QED
  BY <1>1, <1>3, <1>4, <1>5 DEF instant, accepted, ttl

\* A step that signs, publishes, verifies or reports, or lets time go by.
LEMMA SignKeeps ==
  ASSUME ReportInv, Reports!Sign \/ Reports!SignTransaction
  PROVE  ReportInv'
<1>1. UNCHANGED <<time, drift, issued, verified, report>>
  BY DEF Reports!Sign, Reports!SignTransaction
<1>2. time \in Int /\ drift \in Int
  BY ReportNumbers DEF ReportInv
<1>3. ASSUME NEW r \in Wanted, NEW anchor \in EvidenceAnchors, NEW terms \in Terms, NEW assurance,
             NEW preview, NEW profile, NEW expiresAt \in Int,
             unsigned' = [projection |-> Reports!Projection(r, anchor, Reports!Acceptance(r, terms),
                                                            assurance, preview, profile),
                          issuedAt |-> Reports!IssuerClock, expiresAt |-> expiresAt],
             expiresAt - Reports!IssuerClock \in MinRemaining..MaxTtl,
             r.mode = "observe_only" => expiresAt <= Trust.until
      PROVE  WellSigned(unsigned')
  <2>1. /\ Reports!IssuerClock \in Int
        /\ Reports!Acceptance(r, terms).negotiatedAt \in Int
        /\ Reports!Acceptance(r, terms).expiresAt \in Int
    BY <1>2, ExpiryIs
  <2> QED
    BY <1>3, <2>1 DEF WellSigned, Reports!Projection, Reports!Reads
<1>4. CASE Reports!Sign
  <2>1. PICK r \in Wanted, anchor \in EvidenceAnchors, terms \in Terms, assurance \in Assurances :
          LET acceptance == Reports!Acceptance(r, terms)
              p == Reports!Projection(r, anchor, acceptance, assurance, "not_applicable", None)
              expiresAt == Reports!Expiry(Reports!IssuerClock, r, acceptance, anchor)
          IN  /\ expiresAt - Reports!IssuerClock >= MinRemaining
              /\ unsigned' = [projection |-> p, issuedAt |-> Reports!IssuerClock,
                              expiresAt |-> expiresAt]
    BY <1>4 DEF Reports!Sign
  <2>2. LET expiry == Reports!Expiry(Reports!IssuerClock, r, Reports!Acceptance(r, terms), anchor)
        IN  /\ expiry \in Int /\ expiry <= Reports!IssuerClock + MaxTtl
            /\ expiry <= Trust.until /\ Reports!IssuerClock \in Int
    BY <1>2, ExpiryIs
  <2>3. LET expiry == Reports!Expiry(Reports!IssuerClock, r, Reports!Acceptance(r, terms), anchor)
        IN  expiry - Reports!IssuerClock \in MinRemaining..MaxTtl
    BY <2>1, <2>2, ReportNumbers
  <2>4. WellSigned(unsigned')
    BY <1>3, <2>1, <2>2, <2>3
  <2> QED
    BY <1>1, <2>4 DEF ReportInv
<1>5. CASE Reports!SignTransaction
  <2> DEFINE expiresAt == Reports!IssuerClock + MaxTtl
  <2>1. PICK r \in Wanted, anchor \in EvidenceAnchors, terms \in Terms, assurance \in Assurances,
             preview \in Previews, profile \in Profiles :
          /\ r.mode = "transactional"
          /\ unsigned' = [projection |-> Reports!Projection(r, anchor,
                                            Reports!Acceptance(r, terms), assurance,
                                            preview, profile),
                          issuedAt |-> Reports!IssuerClock, expiresAt |-> expiresAt]
    BY <1>5 DEF Reports!SignTransaction
  <2>2. /\ expiresAt \in Int
        /\ expiresAt - Reports!IssuerClock \in MinRemaining..MaxTtl
    BY <1>2, ReportNumbers DEF Reports!IssuerClock
  <2> HIDE DEF expiresAt
  <2>3. r.mode # "observe_only"
    BY <2>1
  <2>4. WellSigned(unsigned')
    BY <1>3, <2>1, <2>2, <2>3
  <2> QED
    BY <1>1, <2>4 DEF ReportInv
<1> QED
  BY <1>4, <1>5

LEMMA PublishKeeps ==
  ASSUME ReportInv, Reports!Publish
  PROVE  ReportInv'
<1>1. /\ unsigned # None /\ unsigned' = None
      /\ UNCHANGED <<time, drift, verified, report>>
  BY DEF Reports!Publish
<1>2. time \in Int /\ drift \in Int /\ Reports!IssuerClock \in Int
  BY ReportNumbers DEF ReportInv, Reports!IssuerClock
<1>3. \A e \in issued' : WellIssued(e)
  <2>1. CASE issued' = issued
    BY <2>1 DEF ReportInv
  <2>2. CASE /\ issued' = issued \cup {unsigned}
             /\ \/ unsigned.projection.request.mode = "transactional"
                \/ AcceptedAsOwn(unsigned, Reports!IssuerClock)
    <3>1. WellIssued(unsigned)
      BY <1>1, <1>2, <2>2 DEF ReportInv, WellIssued
    <3> QED
      BY <2>2, <3>1 DEF ReportInv
  <2> QED
    BY <2>1, <2>2 DEF Reports!Publish, AcceptedAsOwn
<1> QED
  BY <1>1, <1>3 DEF ReportInv

LEMMA VerificationKeeps ==
  ASSUME ReportInv, Reports!Verify
  PROVE  ReportInv'
<1>1. UNCHANGED <<time, drift, unsigned, issued, report>> /\ time \in Int
  BY DEF Reports!Verify, ReportInv
<1>2. PICK e \in issued, other \in issued :
        \E targets \in {d.projection.observation.targets : d \in issued},
           reads \in {d.projection.observation.reads : d \in issued} :
          verified' = IF Reports!Accepts(e, other.projection.request, other.projection.identity,
                                         targets, reads, time)
                      THEN [attestation |-> e, request |-> other.projection.request,
                            identity |-> other.projection.identity,
                            targets |-> targets, reads |-> reads, at |-> time]
                      ELSE None
  BY DEF Reports!Verify
<1>3. ASSUME verified' # None
      PROVE  WellVerified(verified')
  BY <1>1, <1>2, <1>3 DEF ReportInv, WellVerified, WellIssued
<1> QED
  BY <1>1, <1>3 DEF ReportInv

LEMMA ReportKeeps ==
  ASSUME ReportInv, Reports!Report
  PROVE  ReportInv'
BY DEF ReportInv, Reports!Report

LEMMA ReportTickKeeps ==
  ASSUME ReportInv, Reports!Tick
  PROVE  ReportInv'
<1>1. time' \in 0..MaxClock /\ time <= time' /\ time \in Int /\ time' \in Int
  BY ReportNumbers DEF ReportInv, Reports!Tick
<1>2. UNCHANGED <<drift, unsigned, issued, verified, report>>
  BY DEF Reports!Tick
<1>3. report # None => report.at \in Int
  BY DEF ReportInv, WellVerified
<1> QED
  BY <1>1, <1>2, <1>3 DEF ReportInv

LEMMA ReportStep ==
  ASSUME ReportInv, [Reports!Next]_<<time, drift, issued, unsigned, verified, report>>
  PROVE  ReportInv'
<1>1. CASE UNCHANGED <<time, drift, issued, unsigned, verified, report>>
  BY <1>1 DEF ReportInv
<1>2. CASE Reports!Next
  BY <1>2, SignKeeps, PublishKeeps, VerificationKeeps, ReportKeeps, ReportTickKeeps
     DEF Reports!Next, Reports!Signs, Reports!Serves
<1> QED
  BY <1>1, <1>2

\* What reports promise follows.
LEMMA ReportTypes ==
  ASSUME ReportInv
  PROVE  Reports!TypeOK
<1>1. \A e \in issued \cup ({unsigned} \ {None}) : e.expiresAt - e.issuedAt \in MinRemaining..MaxTtl
  BY DEF ReportInv, WellIssued, WellSigned
<1>2. \A e, instant : Reports!Status(e, instant) \in Reports!Statuses
  BY DEF Reports!Status, Reports!StatusBefore, Reports!Statuses
<1> QED
  BY <1>1, <1>2 DEF ReportInv, Reports!TypeOK

\* Only what observes is reported hireable, and only while enough of it is left.
LEMMA HireableIs ==
  ASSUME NEW e, WellSigned(e), NEW instant, Reports!Status(e, instant) = "VERIFIED_HIREABLE"
  PROVE  /\ e.projection.request.mode = "observe_only"
         /\ ~(Reports!ValidUntil(e, instant) - instant < MinRemaining)
         /\ ~(/\ Minimum = "instance"
              /\ e.projection.observation.targets.assurance # "instance")
<1>1. Reports!StatusBefore(e, instant) = "VERIFIED_HIREABLE"
  BY DEF Reports!Status
<1>2. e.projection.request.mode \in {"observe_only", "transactional"}
  BY ReportNumbers DEF WellSigned
<1>3. ~(Reports!ValidUntil(e, instant) - instant < MinRemaining)
  BY <1>1 DEF Reports!StatusBefore
<1>4. ASSUME e.projection.request.mode # "observe_only"
      PROVE  FALSE
  <2>1. Reports!ActionState(e.projection.request, e.projection.profile).coverage = "incomplete"
    BY <1>4 DEF Reports!ActionState, Reports!Approval
  <2> QED
    BY <1>1, <1>3, <1>4, <2>1 DEF Reports!StatusBefore
<1> QED
  BY <1>1, <1>3, <1>4 DEF Reports!Status, Reports!Asked

LEMMA HireableLives ==
  ASSUME ReportInv
  PROVE  Reports!HireableIsLive
<1> SUFFICES ASSUME Reports!Hireable
             PROVE  LET e == report.of.attestation
                        r == report.of.request
                        last == report.at + MinRemaining - 1
                    IN  /\ last < Reports!Least({r.mandate.expiresAt, r.mandate.permissions,
                                    r.expiresAt, r.permissions,
                                    e.projection.acceptance.expiresAt, e.expiresAt})
                        /\ last - report.of.identity.anchor.at <= EvidenceAge
                        /\ last - report.of.targets.anchor.at <= r.mandate.maxAge
                        /\ r.mode = "observe_only" => last < Trust.until
                        /\ report.at < Trust.expires
  BY DEF Reports!HireableIsLive
<1> DEFINE e == report.of.attestation
           p == e.projection
           r == report.of.request
           last == report.at + MinRemaining - 1
           until == Reports!ValidUntil(e, report.at)
<1>1. /\ report # None /\ report.status = "VERIFIED_HIREABLE"
      /\ WellVerified(report.of) /\ report.at = report.of.at
      /\ report.status = Reports!Status(e, report.at)
  BY DEF Reports!Hireable, ReportInv
<1>2. /\ WellSigned(e) /\ report.at \in Int
      /\ Reports!Accepts(e, r, report.of.identity, report.of.targets, report.of.reads, report.at)
  BY <1>1 DEF WellVerified
<1>3. p.request.mode = "observe_only" /\ ~(until - report.at < MinRemaining)
  BY <1>1, <1>2, HireableIs
<1>4. /\ r = p.request /\ report.at < Trust.expires /\ r.permissions <= r.mandate.permissions
      /\ report.of.identity.anchor = p.observation.anchor
      /\ report.of.targets.anchor = p.observation.anchor
  BY <1>2, AcceptedIs
<1>5. /\ r.mandate.expiresAt \in Int /\ r.mandate.permissions \in Int /\ r.expiresAt \in Int
      /\ r.permissions \in Int /\ p.acceptance.expiresAt \in Int /\ e.expiresAt \in Int
      /\ r.mandate.maxAge \in Int /\ p.observation.anchor.at \in Int
      /\ EvidenceAge \in Int /\ Trust.until \in Int /\ MinRemaining \in Int
      /\ e.expiresAt <= Trust.until
  BY <1>2, <1>3, <1>4, ReportNumbers DEF WellSigned
<1>6. /\ until \in Int
      /\ until <= e.expiresAt /\ until <= r.mandate.expiresAt /\ until <= r.expiresAt
      /\ until <= r.permissions /\ until <= p.acceptance.expiresAt
      /\ until <= p.observation.anchor.at + EvidenceAge + 1
      /\ until <= p.observation.anchor.at + r.mandate.maxAge + 1
  BY <1>2, <1>4, BoundaryIs
<1>7. last \in Int /\ last < until
  BY <1>2, <1>3, <1>5, <1>6
<1> HIDE DEF until, last, e, r, p
<1>8. LET l == Reports!Least({r.mandate.expiresAt, r.mandate.permissions, r.expiresAt,
                              r.permissions, p.acceptance.expiresAt, e.expiresAt})
      IN  l \in {r.mandate.expiresAt, r.mandate.permissions, r.expiresAt,
                 r.permissions, p.acceptance.expiresAt, e.expiresAt}
  BY <1>5, LeastOfSix
<1>9. last < Reports!Least({r.mandate.expiresAt, r.mandate.permissions, r.expiresAt,
                            r.permissions, p.acceptance.expiresAt, e.expiresAt})
  BY <1>4, <1>5, <1>6, <1>7, <1>8
<1>10. /\ last - report.of.identity.anchor.at <= EvidenceAge
       /\ last - report.of.targets.anchor.at <= r.mandate.maxAge
       /\ last < Trust.until
  BY <1>4, <1>5, <1>6, <1>7
<1> QED
  BY <1>4, <1>9, <1>10 DEF until, last, e, r, p

LEMMA ReportsAreOfOneBlock ==
  ASSUME ReportInv
  PROVE  Reports!ReportIsOfOneBlock
<1> SUFFICES ASSUME report # None
             PROVE  Reports!ReportIsOfOneBlock
  BY DEF Reports!ReportIsOfOneBlock
<1> DEFINE e == report.of.attestation
           p == e.projection
<1>1. /\ WellSigned(e) /\ report.of.at \in Int
      /\ Reports!Accepts(e, report.of.request, report.of.identity, report.of.targets,
                         report.of.reads, report.of.at)
  BY DEF ReportInv, WellVerified
<1>2. /\ report.of.request = p.request /\ report.of.identity = p.identity
      /\ report.of.reads = p.observation.reads
      /\ report.of.identity.candidate = report.of.request.candidate
      /\ report.of.targets.scope = report.of.request.scope
      /\ report.of.identity.anchor = p.observation.anchor
      /\ report.of.targets.anchor = p.observation.anchor
      /\ p.acceptance.request = report.of.request
      /\ p.acceptance.owner = report.of.identity.owner
  BY <1>1, AcceptedIs
<1>3. /\ p.identity.owner = OwnerOf[p.request.candidate]
      /\ p.observation.reads.anchor = p.observation.anchor
  BY <1>1 DEF WellSigned, Reports!Identity
<1> QED
  BY <1>2, <1>3 DEF Reports!ReportIsOfOneBlock

LEMMA BoundariesAgreeAlways ==
  ASSUME ReportInv
  PROVE  Reports!BoundariesAgree
<1> SUFFICES ASSUME verified # None
             PROVE  Reports!ValidUntil(verified.attestation, verified.at)
                    = Reports!FormValidUntil(verified.attestation)
  BY DEF Reports!BoundariesAgree
<1> DEFINE e == verified.attestation
           p == e.projection
           r == p.request
           identity == p.observation.anchor.at + EvidenceAge + 1
           evidence == p.observation.anchor.at + r.mandate.maxAge + 1
           until == Reports!ValidUntil(e, verified.at)
           form == Reports!FormValidUntil(e)
<1>1. /\ WellSigned(e) /\ verified.at \in Int
      /\ Reports!Accepts(e, verified.request, verified.identity, verified.targets,
                         verified.reads, verified.at)
  BY DEF ReportInv, WellVerified
<1>2. p.acceptance.expiresAt <= r.expiresAt
  BY <1>1, AcceptedIs
<1>3. /\ until \in {e.expiresAt, r.mandate.expiresAt, r.expiresAt, r.permissions,
                    p.acceptance.expiresAt, identity, evidence}
      /\ until <= e.expiresAt /\ until <= r.mandate.expiresAt /\ until <= r.expiresAt
      /\ until <= r.permissions /\ until <= p.acceptance.expiresAt
      /\ until <= identity /\ until <= evidence
  BY <1>1, BoundaryIs
<1>4. /\ e.expiresAt \in Int /\ r.mandate.expiresAt \in Int /\ r.expiresAt \in Int
      /\ r.permissions \in Int /\ p.acceptance.expiresAt \in Int /\ identity \in Int
      /\ evidence \in Int
  BY <1>1, ReportNumbers DEF WellSigned
<1>5. form = Reports!Least({e.expiresAt, p.acceptance.expiresAt, r.mandate.expiresAt,
                            r.permissions, identity, evidence})
  BY <1>1 DEF WellSigned, Reports!Identity, Reports!FormValidUntil
<1> HIDE DEF e, p, r, identity, evidence, until, form
<1>6. LET l == Reports!Least({e.expiresAt, p.acceptance.expiresAt, r.mandate.expiresAt,
                              r.permissions, identity, evidence})
      IN  /\ l \in {e.expiresAt, p.acceptance.expiresAt, r.mandate.expiresAt,
                    r.permissions, identity, evidence}
          /\ l <= e.expiresAt /\ l <= p.acceptance.expiresAt /\ l <= r.mandate.expiresAt
          /\ l <= r.permissions /\ l <= identity /\ l <= evidence
  BY <1>4, LeastOfSix
<1>7. until = form
  BY <1>2, <1>3, <1>4, <1>5, <1>6
<1> QED
  BY <1>7 DEF until, form, e

LEMMA HonestIsAccepted ==
  ASSUME ReportInv
  PROVE  Reports!IssuedIsAccepted
<1> SUFFICES ASSUME NEW e \in issued,
                    e.projection.request.mode = "observe_only",
                    e.projection.acceptance.negotiatedAt <= e.issuedAt,
                    time >= e.issuedAt - e.projection.request.mandate.skew,
                    time < Reports!ValidUntil(e, time), time < Trust.expires
             PROVE  AcceptedAsOwn(e, time)
  BY DEF Reports!IssuedIsAccepted, AcceptedAsOwn
<1> DEFINE p == e.projection
           r == p.request
           m == r.mandate
           anchor == p.observation.anchor
           acceptance == p.acceptance
           targets == p.observation.targets
           reads == p.observation.reads
           until == Reports!ValidUntil(e, time)
           lapses == acceptance.expiresAt
           identity == anchor.at + EvidenceAge + 1
           evidence == anchor.at + m.maxAge + 1
<1>1. PICK at \in Int : AcceptedAsOwn(e, at)
  BY DEF ReportInv, WellIssued
<1>2. WellSigned(e) /\ time \in Int
  BY DEF ReportInv, WellIssued
<1>3. Reports!Accepts(e, r, p.identity, targets, reads, at)
  BY <1>1 DEF AcceptedAsOwn
<1>4. /\ Reports!RequestBinds(r) /\ Reports!Resolves(e.issuedAt)
      /\ Reports!EvidenceFits(r, p.identity, targets, reads)
      /\ p.identity.anchor = anchor /\ targets.anchor = anchor
      /\ acceptance.request = r /\ acceptance.owner = p.identity.owner
      /\ acceptance.expiresAt > acceptance.negotiatedAt
      /\ acceptance.negotiatedAt >= r.issuedAt - m.skew
      /\ acceptance.expiresAt <= r.expiresAt
      /\ anchor.at >= m.createdAt /\ anchor.at <= e.issuedAt
      /\ e.issuedAt >= r.issuedAt - m.skew
      /\ e.expiresAt > e.issuedAt /\ e.expiresAt <= e.issuedAt + MaxTtl
      /\ e.expiresAt <= m.expiresAt /\ e.expiresAt <= r.expiresAt
  BY <1>2, <1>3, AcceptedIs
<1>5. /\ e.expiresAt \in Int /\ m.expiresAt \in Int /\ r.expiresAt \in Int
      /\ r.permissions \in Int /\ lapses \in Int /\ identity \in Int /\ evidence \in Int
      /\ anchor.at \in Int /\ e.issuedAt \in Int /\ acceptance.negotiatedAt \in Int
      /\ m.skew \in Int /\ r.issuedAt \in Int
  BY <1>2, ReportNumbers DEF WellSigned
<1>6. /\ until \in Int
      /\ until <= e.expiresAt /\ until <= m.expiresAt /\ until <= r.expiresAt
      /\ until <= r.permissions /\ until <= lapses /\ until <= identity /\ until <= evidence
  BY <1>2, BoundaryIs
<1>7. /\ time < e.expiresAt /\ time < m.expiresAt /\ time < r.expiresAt
      /\ time < r.permissions /\ time < lapses /\ time < identity /\ time < evidence
      /\ anchor.at <= time + m.skew /\ e.issuedAt <= time + m.skew
      /\ acceptance.negotiatedAt <= time + m.skew
  BY <1>2, <1>4, <1>5, <1>6
<1>8. time < Reports!Least({m.expiresAt, r.expiresAt, r.permissions, acceptance.expiresAt,
                            anchor.at + EvidenceAge + 1, anchor.at + m.maxAge + 1})
  <2> HIDE DEF p, r, m, anchor, acceptance, until, lapses, identity, evidence
  <2>1. LET l == Reports!Least({m.expiresAt, r.expiresAt, r.permissions, lapses, identity,
                                evidence})
        IN  l \in {m.expiresAt, r.expiresAt, r.permissions, lapses, identity, evidence}
    BY <1>5, LeastOfSix
  <2>2. time < Reports!Least({m.expiresAt, r.expiresAt, r.permissions, lapses, identity,
                              evidence})
    BY <1>7, <2>1
  <2> QED
    BY <2>2 DEF lapses, identity, evidence
<1>9. Reports!LinkageHolds(p, r, p.identity, targets, reads, time)
  BY <1>4, <1>7, <1>8 DEF Reports!LinkageHolds
<1>10. Reports!EnvelopeHolds(e, time)
  BY <1>4, <1>7 DEF Reports!EnvelopeHolds
<1>11. Reports!SidecarsHold(p, p.identity, targets, reads)
  BY DEF Reports!SidecarsHold
<1> QED
  BY <1>4, <1>9, <1>10, <1>11 DEF AcceptedAsOwn, Reports!Accepts

\* A report made again has the same boundary, and is not hireable once it was not.
LEMMA ReportsAge ==
  ASSUME ReportInv, [Reports!Next]_<<time, drift, issued, unsigned, verified, report>>
  PROVE  Reports!Ages
<1> SUFFICES ASSUME report # None, report'.of.attestation = report.of.attestation
             PROVE  /\ report'.validUntil = report.validUntil
                    /\ report'.status = "VERIFIED_HIREABLE" => report.status = "VERIFIED_HIREABLE"
  BY DEF Reports!Ages
<1>1. CASE report' = report
  BY <1>1
<1>2. CASE Reports!Report
  <2> DEFINE e == report.of.attestation
  <2>1. /\ verified # None /\ verified.attestation = e
        /\ report'.status = Reports!Status(e, time)
        /\ report'.validUntil = Reports!ValidUntil(e, time)
    BY <1>2 DEF Reports!Report
  <2>2. /\ report.validUntil = Reports!ValidUntil(e, report.at)
        /\ report.status = Reports!Status(e, report.at)
        /\ report.at \in Int /\ report.at <= time /\ time \in Int /\ WellSigned(e)
    BY DEF ReportInv, WellVerified
  <2>3. Reports!ValidUntil(e, time) = Reports!ValidUntil(e, report.at)
    BY DEF Reports!ValidUntil
  <2>4. Reports!ValidUntil(e, time) \in Int /\ MinRemaining \in Int
    BY <2>2, BoundaryIs, ReportNumbers
  <2>5. ASSUME Reports!Status(e, time) = "VERIFIED_HIREABLE"
        PROVE  Reports!Status(e, report.at) = "VERIFIED_HIREABLE"
    <3>1. /\ e.projection.request.mode = "observe_only"
          /\ ~(Reports!ValidUntil(e, time) - time < MinRemaining)
          /\ ~(/\ Minimum = "instance"
               /\ e.projection.observation.targets.assurance # "instance")
      BY <2>2, <2>5, HireableIs
    <3>2. ~(Reports!ValidUntil(e, report.at) - report.at < MinRemaining)
      BY <2>2, <2>3, <2>4, <3>1
    <3>3. Reports!StatusBefore(e, report.at) = "VERIFIED_HIREABLE"
      BY <3>1, <3>2 DEF Reports!StatusBefore
    <3>4. Reports!Asked(e.projection.request.mode) = Minimum
      BY <3>1 DEF Reports!Asked
    <3> QED
      BY <3>1, <3>3, <3>4 DEF Reports!Status
  <2> QED
    BY <2>1, <2>2, <2>3, <2>5
<1>3. report' = report \/ Reports!Report
  BY DEF Reports!Next, Reports!Signs, Reports!Serves, Reports!Tick, Reports!Sign,
     Reports!SignTransaction, Reports!Publish, Reports!Verify
<1> QED
  BY <1>1, <1>2, <1>3

-----------------------------------------------------------------------------
(* Conditions.                                                             *)

LEMMA LeastOfTwo ==
  ASSUME NEW a \in Int, NEW b \in Int
  PROVE  LET least == Conditions!Min({a, b})
         IN  least \in {a, b} /\ least <= a /\ least <= b
<1>1. \E l \in {a, b} : \A n \in {a, b} : l <= n
  OBVIOUS
<1> QED
  BY <1>1 DEF Conditions!Min

LEMMA ConditionNumbers ==
  /\ MaxTtl \in Nat \ {0} /\ CoreSkew \in Nat /\ MaxClock \in Nat /\ MaxSteps \in Nat
  /\ Lags \subseteq Int /\ Drifts \subseteq Int
  /\ \A r \in Conditioned :
      /\ r.mandate.createdAt \in Int /\ r.mandate.expiresAt \in Int
      /\ r.mandate.skew \in Int /\ r.mandate.maxAge \in Int
BY ConditionedAssumption DEF Conditions!ConditionAssumption

\* What is attested is of its own request, which the deployment serves, and in time.
WellAttested(e) ==
  LET r == e.request
      m == r.mandate
  IN  /\ r \in Conditioned /\ e.mandate = m
      /\ e.adapter = r.adapter /\ e.candidate = r.candidate
      /\ e.subject = r.subject /\ e.policy = r.policy
      /\ Conditions!MatchesDeployment(r, e.deployment)
      /\ e.observedAt \in Int /\ e.issuedAt \in Int /\ e.expiresAt \in Int
      /\ m.createdAt <= e.issuedAt /\ e.issuedAt < m.expiresAt
      /\ e.observedAt <= e.issuedAt /\ e.observedAt >= m.createdAt
      /\ e.expiresAt > e.issuedAt /\ e.expiresAt <= m.expiresAt
      /\ e.expiresAt <= e.issuedAt + MaxTtl

\* A run is of a request, by the release that is running, its pass dated.
WellRun(r, rel) ==
  /\ r = [request |-> r.request, release |-> r.release, artifact |-> r.artifact]
  /\ r.request \in Conditioned /\ r.release = rel
  /\ r.artifact # None => r.artifact.observedAt \in Int /\ r.artifact.evaluatedAt \in Int

\* A receipt is of what verified when it was given.
WellReceived(r) ==
  /\ r.of \in issued /\ r.request \in Conditioned /\ r.evaluatedAt \in Int
  /\ Conditions!Verifies(r.of, r.request, r.evaluatedAt)
  /\ r.validUntil = Conditions!ValidUntil(r.of, r.request.mandate)

ConditionInv ==
  /\ time \in 0..MaxClock /\ drift \in Drifts /\ steps \in 0..MaxSteps
  /\ release \in Releases
  /\ run # None => WellRun(run, release)
  /\ \A e \in issued : WellAttested(e)
  /\ receipt # None => WellReceived(receipt)

LEMMA ConditionInitKeeps ==
  ASSUME Conditions!Init
  PROVE  ConditionInv
BY ConditionNumbers DEF Conditions!Init, ConditionInv

LEMMA AskKeeps ==
  ASSUME ConditionInv, Conditions!Ask
  PROVE  ConditionInv'
<1>1. PICK r \in Conditioned : run' = [request |-> r, release |-> release, artifact |-> None]
  BY DEF Conditions!Ask
<1>2. UNCHANGED <<time, drift, steps, release, issued, receipt>>
  BY DEF Conditions!Ask
<1>3. WellRun(run', release)
  BY <1>1 DEF WellRun
<1> QED
  BY <1>2, <1>3 DEF ConditionInv, WellReceived

LEMMA PassKeeps ==
  ASSUME ConditionInv, Conditions!Pass
  PROVE  ConditionInv'
<1>1. UNCHANGED <<time, drift, steps, release, issued, receipt>> /\ run # None
  BY DEF Conditions!Pass
<1>2. WellRun(run, release) /\ time \in Int /\ drift \in Int
  BY <1>1, ConditionNumbers DEF ConditionInv
<1>3. PICK lag \in Lags :
        run' = [run EXCEPT !.artifact =
                  [adapter |-> run.request.adapter, subject |-> run.request.subject,
                   policy |-> run.request.policy, release |-> run.release,
                   mandate |-> run.request.mandate, candidate |-> run.request.candidate,
                   observedAt |-> time - lag, evaluatedAt |-> Conditions!IssuerClock]]
  BY DEF Conditions!Pass
<1> DEFINE artifact ==
             [adapter |-> run.request.adapter, subject |-> run.request.subject,
              policy |-> run.request.policy, release |-> run.release,
              mandate |-> run.request.mandate, candidate |-> run.request.candidate,
              observedAt |-> time - lag, evaluatedAt |-> Conditions!IssuerClock]
<1>4. artifact.observedAt \in Int /\ artifact.evaluatedAt \in Int
  <2>1. time - lag \in Int /\ Conditions!IssuerClock \in Int
    BY <1>2, ConditionNumbers DEF Conditions!IssuerClock
  <2> QED
    BY <2>1
<1>5. run' = [request |-> run.request, release |-> run.release, artifact |-> artifact]
  BY <1>2, <1>3 DEF WellRun
<1>6. WellRun(run', release)
  BY <1>2, <1>4, <1>5 DEF WellRun
<1> QED
  BY <1>1, <1>6 DEF ConditionInv, WellReceived

LEMMA AttestKeeps ==
  ASSUME ConditionInv, Conditions!Attest
  PROVE  ConditionInv'
<1> DEFINE r == run.request
           a == run.artifact
           second == Conditions!IssuerClock
           attested == Conditions!Unsigned(r, a, run.release, second)
<1>1. /\ run # None /\ run' = None /\ a # None
      /\ UNCHANGED <<time, drift, steps, release, receipt>>
      /\ issued' = IF /\ Conditions!ArtifactMatches(r, a, run.release)
                      /\ Conditions!Chronology(r.mandate, a, second)
                      /\ Conditions!Expiry(r.mandate, second) > second
                   THEN issued \cup {attested} ELSE issued
  BY DEF Conditions!Attest
<1>2. WellRun(run, release) /\ second \in Int
  BY <1>1, ConditionNumbers DEF ConditionInv, Conditions!IssuerClock
<1>3. ASSUME Conditions!ArtifactMatches(r, a, run.release),
             Conditions!Chronology(r.mandate, a, second),
             Conditions!Expiry(r.mandate, second) > second
      PROVE  WellAttested(attested)
  <2> HIDE DEF second
  <2>1. /\ r \in Conditioned /\ a.observedAt \in Int
        /\ r.mandate.expiresAt \in Int /\ MaxTtl \in Int /\ second + MaxTtl \in Int
    BY <1>1, <1>2, ConditionNumbers DEF WellRun
  <2>2. LET expiry == Conditions!Expiry(r.mandate, second)
        IN  expiry \in Int /\ expiry <= r.mandate.expiresAt /\ expiry <= second + MaxTtl
    BY <1>2, <2>1, LeastOfTwo DEF Conditions!Expiry
  <2>3. /\ a.adapter = r.adapter /\ Conditions!MatchesDeployment(r, run.release.deployment)
    BY <1>3 DEF Conditions!ArtifactMatches
  <2>4. /\ r.mandate.createdAt <= second /\ second < r.mandate.expiresAt
        /\ a.observedAt <= second /\ a.observedAt >= r.mandate.createdAt
    BY <1>3 DEF Conditions!Chronology
  <2>5. /\ attested.request = r /\ attested.mandate = r.mandate
        /\ attested.adapter = a.adapter /\ attested.candidate = r.candidate
        /\ attested.subject = r.subject /\ attested.policy = r.policy
        /\ attested.deployment = run.release.deployment
        /\ attested.observedAt = a.observedAt /\ attested.issuedAt = second
        /\ attested.expiresAt = Conditions!Expiry(r.mandate, second)
    BY DEF Conditions!Unsigned
  <2> HIDE DEF attested, r, a
  <2> QED
    BY <1>2, <1>3, <2>1, <2>2, <2>3, <2>4, <2>5 DEF WellAttested
<1>4. /\ \A e \in issued' : WellAttested(e)
      /\ issued \subseteq issued'
  <2> HIDE DEF second, attested, r, a
  <2> QED
    BY <1>1, <1>3 DEF ConditionInv
<1> QED
  BY <1>1, <1>4 DEF ConditionInv, WellReceived

LEMMA EvaluateKeeps ==
  ASSUME ConditionInv, Conditions!Evaluate
  PROVE  ConditionInv'
BY DEF ConditionInv, WellReceived, Conditions!Evaluate

LEMMA ConditionRestKeeps ==
  ASSUME ConditionInv,
         \/ Conditions!DoNotPass \/ Conditions!Redeploy
         \/ Conditions!Tick \/ Conditions!StepClock
  PROVE  ConditionInv'
<1>1. CASE Conditions!DoNotPass
  BY <1>1 DEF Conditions!DoNotPass, ConditionInv, WellReceived
<1>2. CASE Conditions!Redeploy
  BY <1>2 DEF Conditions!Redeploy, ConditionInv, WellReceived
<1>3. CASE Conditions!Tick
  BY <1>3, ConditionNumbers DEF Conditions!Tick, ConditionInv, WellReceived
<1>4. CASE Conditions!StepClock
  BY <1>4, ConditionNumbers DEF Conditions!StepClock, ConditionInv, WellReceived
<1> QED
  BY <1>1, <1>2, <1>3, <1>4

LEMMA ConditionStep ==
  ASSUME ConditionInv,
         [Conditions!Next]_<<time, drift, issued, steps, release, run, receipt>>
  PROVE  ConditionInv'
<1>1. CASE UNCHANGED <<time, drift, issued, steps, release, run, receipt>>
  BY <1>1 DEF ConditionInv, WellReceived
<1>2. CASE Conditions!Next
  BY <1>2, AskKeeps, PassKeeps, AttestKeeps, EvaluateKeeps, ConditionRestKeeps
     DEF Conditions!Next
<1> QED
  BY <1>1, <1>2

\* The boundary of a receipt is the lesser of two.
LEMMA ReceiptBoundaryIs ==
  ASSUME NEW e, WellAttested(e), NEW m, m.maxAge \in Int
  PROVE  LET until == Conditions!ValidUntil(e, m)
         IN  /\ until \in {e.expiresAt, e.observedAt + m.maxAge + 1} /\ until \in Int
             /\ until <= e.expiresAt /\ until <= e.observedAt + m.maxAge + 1
<1>1. e.expiresAt \in Int /\ e.observedAt + m.maxAge + 1 \in Int
  BY DEF WellAttested
<1> QED
  BY <1>1, LeastOfTwo DEF Conditions!ValidUntil

LEMMA ReceiptIs ==
  ASSUME ConditionInv, receipt # None
  PROVE  LET e == receipt.of
             m == receipt.request.mandate
             until == receipt.validUntil
             oldest == e.observedAt + m.maxAge + 1
         IN  /\ WellAttested(e) /\ Conditions!OfRequest(e, receipt.request)
             /\ Conditions!OfRelease(e) /\ Conditions!InTime(e, m, receipt.evaluatedAt)
             /\ e.expiresAt \in Int /\ e.observedAt \in Int /\ e.issuedAt \in Int
             /\ receipt.evaluatedAt \in Int /\ time \in Int /\ until \in Int
             /\ m.createdAt \in Int /\ m.expiresAt \in Int /\ m.skew \in Int /\ m.maxAge \in Int
             /\ MaxTtl \in Int /\ CoreSkew \in Int
             /\ until \in {e.expiresAt, oldest} /\ until <= e.expiresAt /\ until <= oldest
<1>1. WellReceived(receipt) /\ WellAttested(receipt.of)
  BY DEF ConditionInv, WellReceived
<1>2. /\ Conditions!OfRequest(receipt.of, receipt.request)
      /\ Conditions!OfRelease(receipt.of)
      /\ Conditions!InTime(receipt.of, receipt.request.mandate, receipt.evaluatedAt)
  BY <1>1 DEF WellReceived, Conditions!Verifies
<1>3. receipt.request.mandate.maxAge \in Int
  BY <1>1, ConditionNumbers DEF WellReceived
<1>4. LET until == receipt.validUntil
      IN  /\ until \in {receipt.of.expiresAt,
                        receipt.of.observedAt + receipt.request.mandate.maxAge + 1}
          /\ until \in Int /\ until <= receipt.of.expiresAt
          /\ until <= receipt.of.observedAt + receipt.request.mandate.maxAge + 1
  BY <1>1, <1>3, ReceiptBoundaryIs DEF WellReceived
<1> QED
  BY <1>1, <1>2, <1>3, <1>4, ConditionNumbers DEF WellAttested, WellReceived, ConditionInv

LEMMA ConditionTypes ==
  ASSUME ConditionInv
  PROVE  Conditions!TypeOK
<1>1. ASSUME NEW e \in issued
      PROVE  /\ e.request \in Conditioned /\ e.expiresAt - e.issuedAt \in 1..MaxTtl
             /\ e.expiresAt <= e.mandate.expiresAt
  BY <1>1, ConditionNumbers DEF ConditionInv, WellAttested
<1> QED
  BY <1>1 DEF ConditionInv, Conditions!TypeOK, WellRun, WellReceived

LEMMA ReceiptsLive ==
  ASSUME ConditionInv
  PROVE  Conditions!ReceiptIsLive
BY ReceiptIs DEF Conditions!ReceiptIsLive, Conditions!InTime

LEMMA RefusalBegins ==
  ASSUME ConditionInv
  PROVE  Conditions!RefusedFromBoundaryOn
<1> SUFFICES ASSUME receipt # None, time >= receipt.evaluatedAt
             PROVE  Conditions!Verifies(receipt.of, receipt.request, time)
                    <=> time < receipt.validUntil
  BY DEF Conditions!RefusedFromBoundaryOn
<1>1. Conditions!InTime(receipt.of, receipt.request.mandate, time) <=> time < receipt.validUntil
  BY ReceiptIs DEF Conditions!InTime
<1> QED
  BY <1>1, ReceiptIs DEF Conditions!Verifies

LEMMA HonestIsReceived ==
  ASSUME ConditionInv
  PROVE  Conditions!IssuedIsAccepted
<1> SUFFICES ASSUME NEW e \in issued, Conditions!OfRelease(e),
                    time >= e.issuedAt - CoreSkew, time >= e.mandate.createdAt,
                    time >= e.observedAt - e.mandate.skew,
                    time < Conditions!ValidUntil(e, e.mandate)
             PROVE  Conditions!Verifies(e, e.request, time)
  BY DEF Conditions!IssuedIsAccepted
<1>1. WellAttested(e) /\ time \in Int
  BY DEF ConditionInv
<1>2. /\ e.mandate = e.request.mandate /\ CoreSkew \in Int /\ e.mandate.createdAt \in Int
      /\ e.mandate.expiresAt \in Int /\ e.mandate.skew \in Int /\ e.mandate.maxAge \in Int
  BY <1>1, ConditionNumbers DEF WellAttested
<1>3. /\ Conditions!ValidUntil(e, e.mandate) <= e.expiresAt
      /\ Conditions!ValidUntil(e, e.mandate) <= e.observedAt + e.mandate.maxAge + 1
      /\ Conditions!ValidUntil(e, e.mandate) \in Int
  BY <1>1, <1>2, ReceiptBoundaryIs
<1>4. Conditions!InTime(e, e.request.mandate, time)
  BY <1>1, <1>2, <1>3 DEF WellAttested, Conditions!InTime
<1>5. Conditions!OfRequest(e, e.request)
  BY <1>1 DEF WellAttested, Conditions!OfRequest
<1> QED
  BY <1>4, <1>5 DEF Conditions!Verifies

LEMMA ReceiptsAreOwn ==
  ASSUME ConditionInv
  PROVE  Conditions!ReceiptIsOfItsRequest /\ Conditions!ReceiptIsOfConfiguration
<1>1. ASSUME receipt # None
      PROVE  /\ receipt.of.request = receipt.request
             /\ Conditions!MatchesDeployment(receipt.request, PinnedRelease.deployment)
  BY <1>1, ReceiptIs DEF Conditions!OfRequest, Conditions!OfRelease, WellAttested
<1> QED
  BY <1>1 DEF Conditions!ReceiptIsOfItsRequest, Conditions!ReceiptIsOfConfiguration,
     Conditions!MatchesDeployment

-----------------------------------------------------------------------------
(* All in the scenes they run in, and quotes on their own.                 *)

CandidateInv == /\ Capturing => IdentityInv
                /\ Quoting => QuoteInv

LEMMA CandidateInit ==
  ASSUME MCInit
  PROVE  CandidateInv
BY IdentityInitKeeps, QuoteInitKeeps DEF QuoteInv, MCInit, Judging, Reading, CandidateInv,
   Capturing, Quoting

LEMMA CandidateStep ==
  ASSUME CandidateInv, [MCNext]_<<vars, scene, clock, reporting, condition, chain, quote>>
  PROVE  CandidateInv'
<1>1. CASE MCNext
  <2>1. UNCHANGED scene
    BY <1>1 DEF MCNext
  <2>2. CASE scene \in {"quote", "replay"}
    BY <1>1, <2>1, <2>2, QuoteStep DEF MCNext, CandidateInv, Capturing, Quoting, QuoteInv
  <2>3. CASE scene = "identity"
    BY <1>1, <2>1, <2>3, IdentityStep DEF MCNext, CandidateInv, Capturing, Quoting
  <2>4. CASE scene \notin {"quote", "replay", "identity"}
    BY <2>1, <2>4 DEF CandidateInv, Capturing, Quoting
  <2> QED
    BY <2>2, <2>3, <2>4
<1>2. CASE UNCHANGED <<vars, scene, clock, reporting, condition, chain, quote>>
  <2>1. [Quotes!Next]_chain /\ [Quotes!QuoteNext]_<<chain, quote>> /\ UNCHANGED scene
    BY <1>2
  <2> QED
    BY <2>1, QuoteStep, IdentityStep DEF CandidateInv, Capturing, Quoting
<1> QED
  BY <1>1, <1>2

\* In every scene identities are of one block, and quotes are bound to this request, this
\* identity and windows that neither outlive what they rest on nor shut an honest candidate
\* out (identity.ts, quote.ts).
THEOREM EveryQuoteIsSound == MCSpec => []QuotesAreSound
<1>1. CandidateInv => QuotesAreSound
  BY IdentityPromises, QuotePromises
     DEF CandidateInv, QuotesAreSound, CandidatesTypeOK, AnswersAreOfOneBlock,
         AgeIsOfTheBlock, SignedForThisRequest, LapsesInTime, HonestAnswerFits
<1> QED
  BY <1>1, CandidateInit, CandidateStep, PTL DEF MCSpec

\* The same of identities and quotes by themselves, outside the scenes; and an identity is
\* handed out of a canonical, deep block and a quote while it and its challenge run, however
\* long the candidate and the node took (verifyAccepted).
THEOREM EveryAcceptedQuoteIsSound ==
  Quotes!QuoteSpec =>
    /\ [](/\ Quotes!AnswersAreOfOneBlock /\ Quotes!AgeIsOfTheBlock
          /\ Quotes!SignedForThisRequest /\ Quotes!LapsesInTime /\ Quotes!HonestAnswerFits)
    /\ [][Quotes!HandsOutCanonical /\ Quotes!HandsOutInTime]_(Quotes!vars)
<1>1. Quotes!vars = <<branch, height, forks, world, now, capture, quote>>
  BY DEF Quotes!vars
<1>2. ASSUME QuoteInv, [Quotes!QuoteNext]_(Quotes!vars)
      PROVE  QuoteInv' /\ Quotes!HandsOutCanonical /\ Quotes!HandsOutInTime
  <2>1. [Quotes!QuoteNext]_<<chain, quote>>
    BY <1>2 DEF Quotes!vars, chain
  <2> QED
    BY <1>2, <2>1, QuoteStep
<1>3. QuoteInv => /\ Quotes!AnswersAreOfOneBlock /\ Quotes!AgeIsOfTheBlock
                  /\ Quotes!SignedForThisRequest /\ Quotes!LapsesInTime
                  /\ Quotes!HonestAnswerFits
  BY IdentityPromises, QuotePromises DEF QuoteInv
<1> QED
  BY <1>2, <1>3, QuoteInitKeeps, PTL DEF Quotes!QuoteSpec

\* A report is hireable only while all it rests on runs, is of one request, one candidate
\* and one block, has the boundary the form shows, accepts what was issued honestly, and made
\* again has that boundary and is not hireable once it was not, for any requests, anchors,
\* terms, previews, profiles, clocks and limits (category-successor.ts,
\* category-production.ts).
THEOREM EveryReportIsLive ==
  Reports!Spec =>
    /\ [](/\ Reports!HireableIsLive /\ Reports!ReportIsOfOneBlock
          /\ Reports!IssuedIsAccepted /\ Reports!BoundariesAgree)
    /\ [][Reports!Ages]_(Reports!vars)
<1>1. ASSUME ReportInv, [Reports!Next]_(Reports!vars)
      PROVE  ReportInv' /\ Reports!Ages
  <2>1. [Reports!Next]_<<time, drift, issued, unsigned, verified, report>>
    BY <1>1 DEF Reports!vars
  <2> QED
    BY <1>1, <2>1, ReportStep, ReportsAge
<1>2. ReportInv => /\ Reports!HireableIsLive /\ Reports!ReportIsOfOneBlock
                   /\ Reports!IssuedIsAccepted /\ Reports!BoundariesAgree
  BY HireableLives, ReportsAreOfOneBlock, HonestIsAccepted, BoundariesAgreeAlways
<1> QED
  BY <1>1, <1>2, ReportInitKeeps, PTL DEF Reports!Spec

\* A receipt of a condition lives no longer than its mandate, its attestation and the age of
\* its evidence, is refused from its boundary on, is of its own request and of the configured
\* deployment, and what the pinned release issued is received, for any requests, releases,
\* clocks and limits (category-attestation.ts).
THEOREM EveryReceiptIsLive ==
  Conditions!Spec =>
    [](/\ Conditions!ReceiptIsLive /\ Conditions!RefusedFromBoundaryOn
       /\ Conditions!IssuedIsAccepted
       /\ Conditions!ReceiptIsOfItsRequest /\ Conditions!ReceiptIsOfConfiguration)
<1>1. ASSUME ConditionInv, [Conditions!Next]_(Conditions!vars)
      PROVE  ConditionInv'
  <2>1. [Conditions!Next]_<<time, drift, issued, steps, release, run, receipt>>
    BY <1>1 DEF Conditions!vars
  <2> QED
    BY <1>1, <2>1, ConditionStep
<1>2. ConditionInv =>
        /\ Conditions!ReceiptIsLive /\ Conditions!RefusedFromBoundaryOn
        /\ Conditions!IssuedIsAccepted
        /\ Conditions!ReceiptIsOfItsRequest /\ Conditions!ReceiptIsOfConfiguration
  BY ReceiptsLive, RefusalBegins, HonestIsReceived, ReceiptsAreOwn
<1> QED
  BY <1>1, <1>2, ConditionInitKeeps, PTL DEF Conditions!Spec

VerdictInv == /\ Reporting => ReportInv
              /\ Conditioning => ConditionInv

LEMMA VerdictInit ==
  ASSUME MCInit
  PROVE  VerdictInv
BY ReportInitKeeps, ConditionInitKeeps
   DEF MCInit, Judging, Reading, VerdictInv, Reporting, Conditioning

LEMMA VerdictStep ==
  ASSUME VerdictInv, [MCNext]_<<vars, scene, clock, reporting, condition, chain, quote>>
  PROVE  /\ VerdictInv'
         /\ Reporting => Reports!Ages
<1>1. UNCHANGED scene
  BY DEF MCNext
<1>2. ASSUME Reporting
      PROVE  [Reports!Next]_<<time, drift, issued, unsigned, verified, report>>
  BY <1>2 DEF MCNext, Reporting, clock, reporting, Reports!Next
<1>3. ASSUME Conditioning
      PROVE  [Conditions!Next]_<<time, drift, issued, steps, release, run, receipt>>
  BY <1>3 DEF MCNext, Conditioning, clock, condition
<1> QED
  BY <1>1, <1>2, <1>3, ReportStep, ReportsAge, ConditionStep
     DEF VerdictInv, Reporting, Conditioning

\* The same of the scenes: reports and receipts hold exactly as long as all they rest on, for
\* what they were asked about and nothing else, and what was issued honestly is accepted
\* (category-successor.ts, category-production.ts, category-attestation.ts).
THEOREM EveryVerdictIsLive == MCSpec => []VerdictsAreLive
<1>1. VerdictInv => VerdictsAreLive
  BY ReportTypes, HireableLives, ReportsAreOfOneBlock, HonestIsAccepted, BoundariesAgreeAlways,
     ConditionTypes, ReceiptsLive, RefusalBegins, HonestIsReceived, ReceiptsAreOwn
     DEF VerdictInv, VerdictsAreLive, VerdictsTypeOK, HireableIsLive, ReportIsOfOneBlock,
         IssuedIsReported, BoundariesAgree, ReceiptIsLive, RefusedFromBoundaryOn,
         IssuedIsReceived, ReceiptIsOfItsRequest, ReceiptIsOfConfiguration
<1> QED
  BY <1>1, VerdictInit, VerdictStep, PTL DEF MCSpec

\* What is handed out is good when it is: an identity of a canonical, deep block, a quote that
\* has not lapsed, and a report that, made again, has the same boundary and is not hireable
\* once it was not (identity.ts, quote.ts, category-production.ts).
THEOREM EveryHandoverIsLive == MCSpec => HandedOutLive
<1>1. ASSUME CandidateInv, VerdictInv,
             [MCNext]_<<vars, scene, clock, reporting, condition, chain, quote>>
      PROVE  [/\ Capturing => Quotes!HandsOutCanonical
              /\ Quoting => Quotes!HandsOutInTime
              /\ Reporting => Reports!Ages]_<<scene, chain, quote, report>>
  <2>1. Reporting => Reports!Ages
    BY <1>1, VerdictStep
  <2>2. CASE UNCHANGED <<vars, scene, clock, reporting, condition, chain, quote>>
    BY <2>2 DEF reporting
  <2>3. CASE MCNext /\ Quoting
    <3>1. [Quotes!QuoteNext]_<<chain, quote>> /\ QuoteInv
      BY <1>1, <2>3 DEF MCNext, Quoting, CandidateInv
    <3> QED
      BY <2>1, <3>1, QuoteStep
  <2>4. CASE MCNext /\ ~Quoting /\ Capturing
    <3>1. [Quotes!Next]_chain /\ IdentityInv
      BY <1>1, <2>4 DEF MCNext, Quoting, Capturing, CandidateInv
    <3> QED
      BY <2>1, <2>4, <3>1, IdentityStep
  <2>5. CASE ~Quoting /\ ~Capturing
    BY <2>1, <2>5
  <2> QED
    BY <1>1, <2>2, <2>3, <2>4, <2>5
<1> QED
  BY <1>1, CandidateInit, CandidateStep, VerdictInit, VerdictStep, PTL DEF MCSpec, HandedOutLive
=============================================================================
