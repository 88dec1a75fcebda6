------------------------- MODULE CandidateIdentity --------------------------
(***************************************************************************)
(* Who owns a candidate: the ERC-8004 reader                               *)
(* (agent-supply-verifier/src/sources/erc8004.ts) and the identity         *)
(* capability over it (category/identity.ts).  A capture asks for the head,*)
(* names a block two below it, or the block of a snapshot, and reads the   *)
(* registry's code, the owner and the code of the owner's account at that  *)
(* block's hash; a look at the block by number stands before and after.    *)
(* Every answer comes from the chain as it is at that moment, or from a    *)
(* backend that lags behind it.                                            *)
(***************************************************************************)
EXTENDS Integers, FiniteSets

CONSTANTS
    Captures,        \* calls of capture
    Branches,        \* branches of the chain, alike below ForkAt
    ForkAt,
    Depth,           \* BSC_MAINNET.confirmationDepth, two
    Scenes,          \* what a block may say: [registry, owner, kind]
    Ahead,           \* how far block timestamps may run ahead of this host
    MaxHeight, MaxForks, MaxTime,   \* bounds on the chain and the clock
    None             \* no block, no owner: the token does not exist

ChainAssumption ==
    /\ {ForkAt, Depth, Ahead, MaxHeight, MaxForks, MaxTime} \subseteq Nat
    /\ Depth <= MaxHeight /\ Depth <= MaxTime
SceneAssumption ==
    \A s \in Scenes : s.registry \in BOOLEAN /\ s.kind \in {"eoa", "erc1271"}

VARIABLES
    branch, height, forks,   \* the canonical chain
    world,                   \* what every block says
    now,                     \* the clock of this host, in seconds
    capture                  \* capture[c]

chainVars == <<branch, height, forks, world, now>>
identityVars == <<branch, height, forks, world, now, capture>>

\* The blocks deep enough to be read, once the chain is at its bound.
DeepBlocks == {<<n, b>> : n \in 0..MaxHeight - Depth, b \in Branches}
Block(n) == <<n, IF n < ForkAt THEN CHOOSE b \in Branches : TRUE ELSE branch>>
Canonical(block) == Block(block[1]) = block

\* The timestamp of a block: one block a second.
Time(block) == block[1]

Idle == [step |-> "idle", attempt |-> 0, anchor |-> None, header |-> None,
         owner |-> None, result |-> None]
\* Everything is asked, for the first time or again, from the head on.
Asks(attempt, anchor) == [step |-> "head", attempt |-> attempt, anchor |-> anchor,
                          header |-> None, owner |-> None, result |-> None]
Inconclusive(code) == [status |-> "inconclusive", code |-> code]
NotFound == [status |-> "unavailable", code |-> "TOKEN_NOT_FOUND"]

Reading == {"head", "header", "registry", "owner", "final", "provider"}
Verified(c) == capture[c].step = "done" /\ capture[c].result.status = "verified"

IdentityInit ==
    /\ branch \in Branches /\ height = Depth /\ forks = 0 /\ now = Depth
    /\ world \in [DeepBlocks -> Scenes]
    \* blocks below the fork have one name in use; the others say the same
    /\ \A b, c \in DeepBlocks : b[1] = c[1] /\ b[1] < ForkAt => world[b] = world[c]
    /\ capture = [c \in Captures |-> Idle]

-----------------------------------------------------------------------------
(* The chain and the clock.                                                *)

Tick == now < MaxTime /\ now' = now + 1 /\ UNCHANGED <<branch, height, forks, world, capture>>

Mine ==
    /\ height < MaxHeight /\ height < now + Ahead
    /\ height' = height + 1
    /\ UNCHANGED <<branch, forks, world, now, capture>>

Reorganize ==
    /\ forks < MaxForks /\ height >= ForkAt
    /\ branch' \in Branches \ {branch}
    /\ forks' = forks + 1
    /\ UNCHANGED <<height, world, now, capture>>

-----------------------------------------------------------------------------
(* A capture.                                                              *)

At(c, step) == capture[c].step = step
Goes(c, record) == capture' = [capture EXCEPT ![c] = record] /\ UNCHANGED chainVars
Ends(c, result) == Goes(c, [capture[c] EXCEPT !.step = "done", !.result = result])

\* Mutant: one attempt too many.
Mutant_RetryOnceMore(c) ==
    IF capture[c].attempt <= 2
    THEN Goes(c, Asks(capture[c].attempt + 1, capture[c].anchor))
    ELSE Ends(c, Inconclusive("SNAPSHOT_INCONSISTENT"))

\* What the chain said does not fit together: once, all of it is asked again.
Propagation(c) ==
    IF capture[c].attempt = 1
    THEN Goes(c, Asks(2, capture[c].anchor))
    ELSE Ends(c, Inconclusive("SNAPSHOT_INCONSISTENT"))

\* Anchored at the block of an active snapshot, or at none.
Start(c, anchor) ==
    /\ At(c, "idle")
    /\ Goes(c, Asks(1, anchor))

Anchors == {None} \cup {Block(n) : n \in 0..height - Depth}

\* The block to read is named by number here, and by hash from its header on.
Head(c) ==
    /\ At(c, "head")
    /\ \E seen \in {height - 1, height} :
        LET anchor == capture[c].anchor
            target == IF anchor = None THEN seen - Depth ELSE anchor[1]
        IN  IF seen < Depth THEN Ends(c, Inconclusive("HEAD_TOO_LOW"))
            ELSE IF seen < target + Depth THEN Ends(c, Inconclusive("SNAPSHOT_INCONSISTENT"))
            ELSE Goes(c, [capture[c] EXCEPT !.step = "header", !.header = target])

Header(c) ==
    /\ At(c, "header")
    /\ LET block == Block(capture[c].header)
       IN  IF capture[c].anchor \notin {None, block} THEN Propagation(c)
           ELSE Goes(c, [capture[c] EXCEPT !.step = "registry", !.header = block])

\* Mutant: the reads name the block by its number.
Mutant_ByNumber(c) == Block(capture[c].header[1])

\* A read at a hash, which must be canonical: the block it is answered from.
Pinned(c) == IF Canonical(capture[c].header) THEN capture[c].header ELSE None

Registry(c) ==
    /\ At(c, "registry")
    /\ IF Pinned(c) = None THEN Propagation(c)
       ELSE IF ~world[Pinned(c)].registry THEN Ends(c, Inconclusive("REGISTRY_CODE_MISSING"))
       ELSE Goes(c, [capture[c] EXCEPT !.step = "owner"])

Owner(c) ==
    /\ At(c, "owner")
    /\ IF Pinned(c) = None THEN Propagation(c)
       ELSE IF world[Pinned(c)].owner = None THEN Ends(c, NotFound)
       ELSE Goes(c, [capture[c] EXCEPT !.step = "final", !.owner = world[Pinned(c)].owner])

Final(c) ==
    /\ At(c, "final")
    /\ IF Block(capture[c].header[1]) # capture[c].header THEN Propagation(c)
       ELSE Goes(c, [capture[c] EXCEPT !.step = "provider"])

\* What the identity object says, and what registers it as this capability's.
Identity(c, block, kind, observedAt) ==
    [status |-> "verified", block |-> block, owner |-> capture[c].owner, kind |-> kind,
     observedAt |-> observedAt]

\* Mutant: the account's code is read at the number of the block.
Mutant_ProviderByNumber(c) ==
    /\ At(c, "provider")
    /\ Ends(c, Identity(c, capture[c].header, world[Mutant_ByNumber(c)].kind,
                        IF capture[c].anchor = None THEN now ELSE Time(capture[c].anchor)))

\* Mutant: an anchored identity is dated by the clock of this host.
Mutant_DatedNow(c) ==
    /\ At(c, "provider")
    /\ IF Pinned(c) = None THEN Ends(c, Inconclusive("SNAPSHOT_INCONSISTENT"))
       ELSE Ends(c, Identity(c, Pinned(c), world[Pinned(c)].kind, now))

\* observeProviderCode, which is not tried again, and the identity made of it.
Provider(c) ==
    /\ At(c, "provider")
    /\ IF Pinned(c) = None THEN Ends(c, Inconclusive("SNAPSHOT_INCONSISTENT"))
       ELSE Ends(c, Identity(c, Pinned(c), world[Pinned(c)].kind,
                    IF capture[c].anchor = None THEN now ELSE Time(capture[c].anchor)))

\* No answer, or one that is not an answer to the question.
Fault(c) ==
    /\ capture[c].step \in Reading
    /\ \E code \in {"RPC_UNAVAILABLE", "RPC_INVALID_RESPONSE"}
                   \cup (IF At(c, "head") THEN {"CHAIN_ID_MISMATCH"} ELSE {})
                   \cup (IF At(c, "owner") THEN {"OWNER_INVALID"} ELSE {}) :
        Ends(c, Inconclusive(code))

\* A backend that has not seen the block, or no longer holds it.
Lagging(c) ==
    /\ capture[c].step \in Reading
    /\ IF At(c, "provider") THEN Ends(c, Inconclusive("SNAPSHOT_INCONSISTENT"))
       ELSE Propagation(c)

Read(c) == \/ Head(c) \/ Header(c) \/ Registry(c) \/ Owner(c) \/ Final(c) \/ Provider(c)
           \/ Fault(c) \/ Lagging(c)

Next ==
    \/ Tick \/ Mine \/ Reorganize
    \/ \E c \in Captures : Read(c) \/ \E anchor \in Anchors : Start(c, anchor)

Spec == IdentityInit /\ [][Next]_identityVars

-----------------------------------------------------------------------------
(* What a capture promises.                                                *)

TypeOK ==
    /\ branch \in Branches /\ height \in 0..MaxHeight /\ forks \in 0..MaxForks
    /\ now \in 0..MaxTime
    /\ \A c \in Captures :
        /\ capture[c].step \in Reading \cup {"idle", "done"}
        /\ capture[c].attempt \in 0..2
        /\ capture[c].anchor \in DeepBlocks \cup {None}

\* The owner and the kind of its account are those of one block, the block of
\* the snapshot where there is one, and a token reported missing is missing
\* at the block that was read, whatever the chain did between the reads
\* (readSnapshot, observeProviderCode).
AnswersAreOfOneBlock ==
    \A c \in Captures : capture[c].step = "done" =>
        LET block == capture[c].header  result == capture[c].result
        IN  /\ result.status = "verified" =>
                /\ block = result.block
                /\ result.owner = world[block].owner /\ result.kind = world[block].kind
                /\ capture[c].anchor \in {None, block}
                /\ world[block].registry
            /\ result.status = "unavailable" =>
                /\ world[block].owner = None /\ capture[c].anchor \in {None, block}

\* An identity is handed out only of a block that is canonical and buried as
\* deep as the code asks when its last read is answered (observeProviderCode
\* asks with requireCanonical after the reader's own last look).
HandsOutCanonical ==
    \A c \in Captures : ~Verified(c) /\ Verified(c)' =>
        LET block == capture'[c].result.block
        IN  Canonical(block) /\ block[1] + Depth <= height

\* An identity is never dated later than the block its owner was read from
\* when that block is a snapshot's: its age is the age of what was seen
\* (capture: observedAt).
AgeIsOfTheBlock ==
    \A c \in Captures : Verified(c) /\ capture[c].anchor # None =>
        capture[c].result.observedAt <= Time(capture[c].result.block)

=============================================================================
