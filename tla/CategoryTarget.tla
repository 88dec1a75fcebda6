--------------------------- MODULE CategoryTarget ---------------------------
(***************************************************************************)
(* The observation of a category target (src/tools/agent-supply-verifier/  *)
(* src/category/target.ts) and the opaque snapshots it may be made in      *)
(* (category/rpc.ts).  An observer reads the chain id, the head and the    *)
(* header of a confirmed block, then code, proxy slots, interface and      *)
(* protocol reads pinned to that block's hash, and at last the header      *)
(* again.  Every read is a remote call: the chain grows and is reorganised *)
(* between any two, and a snapshot may be over before its observation is.  *)
(* A block stands for what it says of each target: its shape.              *)
(***************************************************************************)
EXTENDS Naturals, Sequences

CONSTANTS
    Calls,           \* calls of observe
    Snapshots,       \* opaque snapshots, one after the other or together
    Inputs,          \* what callers ask
    Worlds,          \* what a block may say: [Targets -> Shapes]
    Provider,        \* whether an Aave addresses provider is configured
    WithSnapshots,   \* the calls of observers that were given a snapshot capability
    Depth,           \* CATEGORY_TARGET_CONFIRMATION_DEPTH, two
    MaxHeight,       \* bound on the chain
    MaxForks,        \* bound on reorganisations
    None

DepthAssumption == {Depth, MaxHeight, MaxForks} \subseteq Nat /\ Depth < MaxHeight
SwitchAssumption == Provider \in BOOLEAN /\ WithSnapshots \subseteq Calls

VARIABLES
    chain,           \* the canonical chain, a sequence of blocks
    orphans,         \* the chain that was canonical before the last reorganisation
    forks,           \* reorganisations so far
    snapshot,        \* snapshot[s]: its state, the head it read and its anchor
    call             \* call[c]: an observation and where it is

chainVars == <<chain, orphans, forks>>
vars == <<chain, orphans, forks, snapshot, call>>

Adapters == {"grid", "yield", "health", "venusComptroller", "venusMarket"}
Pinned == "pinned"    \* the address of the configured comptroller
Slots == {"zero", "malformed", "self", "contract", "empty"}
Words == {"invalid", "self", "beacon", "contract", "empty"}

(* What a block says of one address: whether it has code and whether the   *)
(* code delegates, its EIP-1967 slots, the word implementation() of the    *)
(* beacon answers, whether the interface answers as the adapter reads it,  *)
(* and what the protocol's own root or registry says of it.                *)
Shapes == [code : {"empty", "plain", "delegating"}, slot : Slots, beacon : Slots,
           implementation : Words, interface : BOOLEAN,
           root : {"endorses", "other", "invalid"}]

Blocks == [fork : 0..MaxForks, world : Worlds]
Anchors == [number : 1..MaxHeight, block : Blocks]

\* What callers may ask, and what blocks say of it.
InputAssumption ==
    \A i \in Inputs : /\ i.adapter \in Adapters /\ i.snapshot \in Snapshots \cup {None}
                      /\ \A w \in Worlds : w[i.target] \in Shapes
NoneAssumption ==
    None \notin Anchors \cup {"protocol_instance_verified", "interface_only_unendorsed"}

(* An input names an adapter with its role, the target, whether an account *)
(* is given, related addresses, and where to read: in a snapshot, at an     *)
(* anchor the caller supplies, or, with neither, at a block of the          *)
(* observer's choice.                                                       *)
At(n) == [number |-> n, block |-> chain[n]]

-----------------------------------------------------------------------------
(* What a block says of an input, read at once.                            *)

Shape(b, i) == b.world[i.target]

IsProxy(s) == s.slot # "zero" \/ s.beacon # "zero"

\* Mutant: every delegating contract is taken for an unknown proxy.
Mutant_NoProxy(s) == s.code = "plain" /\ ~IsProxy(s)

\* Both slots well formed, at most one set, and code that delegates exactly
\* when a slot says where to.
KnownProxy(s) ==
    /\ "malformed" \notin {s.slot, s.beacon}
    /\ "zero" \in {s.slot, s.beacon}
    /\ IsProxy(s) <=> s.code = "delegating"
    /\ "self" \notin {s.slot, s.beacon}

Implementation(s) == IF s.slot # "zero" THEN s.slot ELSE s.implementation

\* Whether the target is the protocol's own instance, at the pinned roots.
Reads(i) == IF i.adapter \in {"yield", "venusComptroller"} THEN 2 ELSE 1

AsksRoot(i) ==
    \/ i.adapter \in {"grid", "venusMarket"}
    \/ i.adapter = "health" /\ Provider
    \/ i.adapter = "venusComptroller" /\ i.market # None

Endorsed(b, i) ==
    /\ AsksRoot(i)
    /\ Shape(b, i).root = "endorses"
    /\ i.adapter = "venusComptroller" => i.target = Pinned
    /\ i.adapter = "venusMarket" => i.comptroller \in {None, Pinned}

Assurance(b, i) == IF Endorsed(b, i) THEN "protocol_instance_verified"
                                     ELSE "interface_only_unendorsed"

-----------------------------------------------------------------------------
(* What is read after what, and what ends the observation.                 *)

FirstRead == "chainId"

Following(step, s, i) ==
    CASE step = "chainId" -> "head"
      [] step = "head" -> "header"
      [] step = "header" -> "code"
      [] step = "code" -> "slot"
      [] step = "slot" -> "beaconSlot"
      [] step = "beaconSlot" ->
            IF s.beacon # "zero" THEN "beaconCode"
            ELSE IF s.slot # "zero" THEN "implementationCode" ELSE "read1"
      [] step = "beaconCode" -> "beaconImplementation"
      [] step = "beaconImplementation" -> "implementationCode"
      [] step = "implementationCode" -> "read1"
      [] step = "read1" /\ Reads(i) = 2 -> "read2"
      [] (step = IF Reads(i) = 2 THEN "read2" ELSE "read1") /\ AsksRoot(i) -> "root"
      [] OTHER -> "finalHeader"

Refused(step, s) ==
    \/ step = "code" /\ s.code = "empty"
    \/ step = "beaconSlot" /\ ~KnownProxy(s)
    \/ step = "beaconCode" /\ s.beacon = "empty"
    \/ step = "beaconImplementation" /\ s.implementation \in {"invalid", "self", "beacon"}
    \/ step = "implementationCode" /\ Implementation(s) = "empty"
    \/ step \in {"read1", "read2"} /\ ~s.interface
    \/ step = "root" /\ s.root = "invalid"

Steps == {"chainId", "head", "header", "code", "slot", "beaconSlot", "beaconCode",
          "beaconImplementation", "implementationCode", "read1", "read2", "root",
          "finalHeader"}

-----------------------------------------------------------------------------
(* The chain.                                                              *)

Init ==
    /\ \E w \in Worlds : chain = [n \in 1..Depth + 1 |-> [fork |-> 0, world |-> w]]
    /\ orphans = <<>>
    /\ forks = 0
    /\ snapshot = [s \in Snapshots |-> [state |-> "none", head |-> 0, anchor |-> None]]
    /\ call = [c \in Calls |->
                 [step |-> "idle", input |-> None, asked |-> None, anchor |-> None, head |-> 0]]

Mine(w) ==
    /\ Len(chain) < MaxHeight
    /\ chain' = Append(chain, [fork |-> forks, world |-> w])
    /\ UNCHANGED <<orphans, forks, snapshot, call>>

\* The blocks from n on are replaced, by as many.
Reorganize(w) ==
    /\ forks < MaxForks
    /\ forks' = forks + 1
    /\ orphans' = chain
    /\ \E n \in 1..Len(chain) :
          chain' = [m \in 1..Len(chain) |->
                      IF m < n THEN chain[m] ELSE [fork |-> forks + 1, world |-> w]]
    /\ UNCHANGED <<snapshot, call>>

\* The branch that was canonical before overtakes again.
Return(w) ==
    /\ forks < MaxForks
    /\ orphans # <<>>
    /\ forks' = forks + 1
    /\ orphans' = chain
    /\ chain' = [m \in 1..Len(chain) |->
                   IF m <= Len(orphans) THEN orphans[m] ELSE [fork |-> forks + 1, world |-> w]]
    /\ UNCHANGED <<snapshot, call>>

Canonical(a) == a.number <= Len(chain) /\ At(a.number) = a

-----------------------------------------------------------------------------
(* An opaque snapshot: pinned, active while its operation runs, over when  *)
(* that is settled or the closing check of its block fails.                *)

PinHead(s) ==
    /\ snapshot[s].state = "none"
    /\ Len(chain) > Depth
    /\ snapshot' = [snapshot EXCEPT ![s] = [@ EXCEPT !.state = "pinning", !.head = Len(chain)]]
    /\ UNCHANGED <<chainVars, call>>

PinHeader(s) ==
    /\ snapshot[s].state = "pinning"
    /\ LET anchor == At(snapshot[s].head - Depth) IN
       snapshot' = [snapshot EXCEPT ![s] = [@ EXCEPT !.state = "active", !.anchor = anchor]]
    /\ UNCHANGED <<chainVars, call>>

\* The operation is settled, or the closing check found another block: in
\* either case the handle is forgotten, whatever is still running inside.
EndSnapshot(s) ==
    /\ snapshot[s].state = "active"
    /\ snapshot' = [snapshot EXCEPT ![s].state = "over"]
    /\ UNCHANGED <<chainVars, call>>

Active(s) == snapshot[s].state = "active"

-----------------------------------------------------------------------------
(* The observer.                                                           *)

ValidInput(c, i, a) ==
    /\ i.account <=> i.adapter \in {"health", "venusComptroller", "venusMarket"}
    /\ i.adapter \in {"grid", "yield", "health"} => {i.comptroller, i.market} = {None}
    /\ i.adapter = "venusComptroller" => i.comptroller \in {None, i.target}
    /\ i.adapter = "venusMarket" => i.market \in {None, i.target}
    /\ i.snapshot # None => c \in WithSnapshots /\ Active(i.snapshot) /\ a = None
    /\ a # None => c \notin WithSnapshots

SnapshotAnchor(i) == snapshot[i.snapshot].anchor

AnchorOf(i, a) == IF i.snapshot = None THEN a ELSE SnapshotAnchor(i)

\* Mutant: the anchor of the snapshot is not part of it.
Mutant_ForgetAnchor(i, a) == [input |-> [i EXCEPT !.snapshot = None], anchor |-> None]

\* The canonical form of a parsed input: with the anchor of the snapshot it
\* names, and nothing else of that snapshot.
Parsed(i, a) == [input |-> [i EXCEPT !.snapshot = None], anchor |-> AnchorOf(i, a)]

\* observe: the input is parsed before the first read.
Observe(c, i, a) ==
    /\ call[c].step = "idle"
    /\ ValidInput(c, i, a)
    /\ call' = [call EXCEPT ![c] = [step |-> FirstRead, input |-> i, asked |-> Parsed(i, a),
                                    anchor |-> AnchorOf(i, a), head |-> 0]]
    /\ UNCHANGED <<chainVars, snapshot>>

Advance(c, next) ==
    /\ call' = [call EXCEPT ![c] = next]
    /\ UNCHANGED <<chainVars, snapshot>>

ReadChainId(c) ==
    /\ call[c].step = "chainId"
    /\ Advance(c, [call[c] EXCEPT !.step = "head"])

\* The head bounds the number of the block: a given anchor may be older but
\* not younger, and a snapshot must still be active.
MayPin(c) ==
    /\ Len(chain) > Depth
    /\ call[c].input.snapshot # None => Active(call[c].input.snapshot)
    /\ call[c].anchor # None => call[c].anchor.number + Depth <= Len(chain)

ReadHead(c) ==
    /\ call[c].step = "head"
    /\ Advance(c, IF MayPin(c) THEN [call[c] EXCEPT !.step = "header", !.head = Len(chain)]
                               ELSE [call[c] EXCEPT !.step = "refused"])

\* Mutant: the block of the observer's choice is not kept.
Mutant_AnchorNotKept(c) ==
    /\ call[c].step = "header"
    /\ LET a == call[c].anchor IN
       Advance(c, IF a = None \/ Canonical(a) THEN [call[c] EXCEPT !.step = "code"]
                                             ELSE [call[c] EXCEPT !.step = "refused"])

\* The header of the given anchor must read as it was given.
ReadHeader(c) ==
    /\ call[c].step = "header"
    /\ LET a == call[c].anchor IN
       Advance(c, CASE a = None -> [call[c] EXCEPT !.step = "code",
                                                   !.anchor = At(call[c].head - Depth)]
                    [] a # None /\ Canonical(a) -> [call[c] EXCEPT !.step = "code"]
                    [] OTHER -> [call[c] EXCEPT !.step = "refused"])

\* Mutant: the state is read at the anchor's number, whichever block has it.
Mutant_UnpinnedRead(c) ==
    /\ call[c].step \in Steps \ {"chainId", "head", "header", "finalHeader"}
    /\ LET i == call[c].input
           s == Shape(chain[call[c].anchor.number], i)
       IN Advance(c, [call[c] EXCEPT !.step =
                        IF Refused(@, s) THEN "refused" ELSE Following(@, s, i)])

\* A read of the state at the anchor's hash, which must be canonical.
Read(c) ==
    /\ call[c].step \in Steps \ {"chainId", "head", "header", "finalHeader"}
    /\ LET i == call[c].input
           s == Shape(call[c].anchor.block, i)
       IN Advance(c, [call[c] EXCEPT !.step =
                        IF Canonical(call[c].anchor) /\ ~Refused(@, s)
                          THEN Following(@, s, i) ELSE "refused"])

\* The header once more, and only then an observation.
ReadFinalHeader(c) ==
    /\ call[c].step = "finalHeader"
    /\ Advance(c, [call[c] EXCEPT !.step =
                      IF Canonical(call[c].anchor) THEN "verified" ELSE "refused"])

\* The node is unreachable, answers an error or something malformed.
Fail(c) ==
    /\ call[c].step \in Steps
    /\ Advance(c, [call[c] EXCEPT !.step = "failed"])

\* assertObserved: the observation is of this capability and of this input,
\* which is parsed anew, so a snapshot must be active still.
Accepts(c, i, a) ==
    /\ call[c].step = "verified"
    /\ ValidInput(c, i, a)
    /\ call[c].asked = Parsed(i, a)

Moves(w) == Mine(w) \/ Reorganize(w) \/ Return(w)

Asks(c, i) == Observe(c, i, None) \/ \E n \in 1..Len(chain) : Observe(c, i, At(n))

Serves ==
    \/ \E s \in Snapshots : PinHead(s) \/ PinHeader(s) \/ EndSnapshot(s)
    \/ \E c \in Calls : \/ ReadChainId(c) \/ ReadHead(c) \/ ReadHeader(c) \/ Read(c)
                       \/ ReadFinalHeader(c) \/ Fail(c)

Next ==
    \/ \E w \in Worlds : Moves(w)
    \/ \E c \in Calls, i \in Inputs : Asks(c, i)
    \/ Serves

Spec == Init /\ [][Next]_vars

-----------------------------------------------------------------------------
TypeOK ==
    /\ forks \in 0..MaxForks
    /\ Len(chain) \in Depth + 1..MaxHeight
    /\ \A n \in 1..Len(chain) : chain[n].fork \in 0..forks
    /\ \A s \in Snapshots : snapshot[s].state \in {"none", "pinning", "active", "over"}
    /\ \A c \in Calls :
        /\ call[c].step \in Steps \cup {"idle", "verified", "refused", "failed"}
        /\ call[c].anchor # None => call[c].anchor.number \in 1..Len(chain)
        /\ call[c].step \in Steps \ {"chainId", "head", "header"} => call[c].anchor # None

(* What the observation stands for, said of one block at once.             *)
Sound(s) ==
    /\ \/ s.code = "plain" /\ s.slot = "zero" /\ s.beacon = "zero"
       \/ s.code = "delegating" /\ s.slot = "contract" /\ s.beacon = "zero"
       \/ /\ s.code = "delegating" /\ s.slot = "zero" /\ s.beacon = "contract"
          /\ s.implementation = "contract"
    /\ s.interface

InstanceOf(s, i) ==
    /\ s.root = "endorses"
    /\ CASE i.adapter = "grid" -> TRUE
         [] i.adapter = "yield" -> FALSE
         [] i.adapter = "health" -> Provider
         [] i.adapter = "venusComptroller" -> i.market # None /\ i.target = Pinned
         [] i.adapter = "venusMarket" -> i.comptroller \in {None, Pinned}

Verdict(b, i) ==
    LET s == Shape(b, i) IN
    IF ~Sound(s) \/ (AsksRoot(i) /\ s.root = "invalid") THEN None
    ELSE IF InstanceOf(s, i) THEN "protocol_instance_verified" ELSE "interface_only_unendorsed"

Answer == [c \in Calls |->
              IF call[c].step # "verified" THEN None
              ELSE [input |-> call[c].input, number |-> call[c].anchor.number,
                    block |-> call[c].anchor.block,
                    assurance |-> Assurance(call[c].anchor.block, call[c].input)]]

Atomic == INSTANCE AtomicTarget WITH answer <- Answer

(* Every observation is as if made at one instant: what it says of the     *)
(* target is what one block says, which was canonical with the required    *)
(* confirmations when the observation was made (target.ts:433-777).        *)
ObservesAtOnce == Atomic!Next \/ UNCHANGED Atomic!vars

(* Whatever else a consumer is given, what assertObserved lets through     *)
(* under a snapshot was observed at that snapshot's block, though the      *)
(* handle itself is opaque and not part of what is compared                *)
(* (target.ts:377-393, 1218-1227).                                         *)
OneBlockPerSnapshot ==
    \A c \in {d \in Calls : call[d].step = "verified"} :
        \A i \in {j \in Inputs : j.snapshot # None} :
            Accepts(c, i, None) => call[c].anchor = snapshot[i.snapshot].anchor

(* Nothing sound is turned away: while no block is replaced, an observation*)
(* of a block of the observer's choice ends without one only where the     *)
(* block itself gives it nothing (target.ts:517-644).                      *)
RefusesOnlyUnsound ==
    \A c \in Calls :
        forks = 0 /\ call[c].step = "refused" /\ call[c].asked.anchor = None
            => /\ call[c].anchor # None
               /\ Verdict(call[c].anchor.block, call[c].input) = None
=============================================================================
