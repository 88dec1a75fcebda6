------------------------- MODULE CategoryExecution --------------------------
(***************************************************************************)
(* The category executor (src/tools/agent-supply-verifier/src/category/    *)
(* execute.ts) with the pinned reader and snapshots of category/rpc.ts and *)
(* the scopes of category/scope.ts.  A run selects an adapter, pins a      *)
(* block, checks a supplied one or works in a snapshot, asks every read of *)
(* the adapter together at the pinned hash, judges the answers, and, when  *)
(* it opened the snapshot itself, looks at the block again.  A pass may    *)
(* then be bound, once, to a mandate and a candidate.  The chain changes   *)
(* its branch and back between any two of these steps.                     *)
(***************************************************************************)
EXTENDS CategoryAdapters, FiniteSets

CONSTANTS
    Runs,            \* evaluations, each with its own result object
    Executors,
    Deployment,      \* Deployment[e]: the scopes of e's enabled adapters
    Scopes,          \* scopes a mandate may bring, all of them schema-valid
    Contexts,        \* a mandate and a candidate, in canonical form
    Requests,        \* what callers ask of evaluateBound: an adapter, a context
    Scenes,          \* what a block may answer: [Labels -> data]
    Branches,        \* branches of the chain, alike below ForkAt
    ForkAt,
    Depth,           \* CATEGORY_CONFIRMATION_DEPTH, two
    MaxHeight,       \* bound on the chain
    MaxForks,        \* bound on changes of branch
    Asked            \* a read that is still out

RequestAssumption == Requests \subseteq [adapter : AdapterIds, context : Contexts]
ChainAssumption == {ForkAt, Depth, MaxHeight, MaxForks} \subseteq Nat /\ Depth < MaxHeight
ReadAssumption == Scenes \subseteq [Labels -> Data]
ScopeAssumption ==
    /\ Scopes \subseteq ValidScopes
    /\ \A e \in Executors : Deployment[e] \subseteq ValidScopes

VARIABLES
    branch, height, forks,   \* the canonical chain
    world,                   \* what every block answers
    snapshot,                \* an opaque snapshot: its state, its head and anchor
    request,                 \* the object a caller passes to evaluateBound
    run,                     \* run[r]: an evaluation and, once done, its result
    binding,                 \* binding[r]: what the result of r is bound to
    accepted                 \* what assertBound has let through

chainVars == <<branch, height, forks, world>>
vars == <<branch, height, forks, world, snapshot, request, run, binding, accepted>>

\* The blocks deep enough to be pinned.
Blocks == {<<n, b>> : n \in 1..MaxHeight - Depth, b \in Branches}
Block(n) == <<n, IF n < ForkAt THEN CHOOSE b \in Branches : TRUE ELSE branch>>
Canonical(block) == Block(block[1]) = block

NoneAssumption ==
    /\ None \notin AdapterIds \cup Blocks
    /\ None \notin [executor : Executors, adapter : AdapterIds, context : Contexts]

Selections == {[category |-> CategoryOf(a), adapter |-> x] : a \in AdapterIds, x \in {None}}
              \cup {[category |-> CategoryOf(a), adapter |-> a] : a \in AdapterIds}

Inconclusive(code) == [status |-> "inconclusive", code |-> code]
Rejected == [status |-> "rejected", code |-> "none"]
Measured == {"pass", "fail", "unknown"}

Idle == [step |-> "idle", executor |-> None, scope |-> None, mode |-> None, head |-> 0,
         anchor |-> None, answers |-> None, bindTo |-> None, result |-> None]

Init ==
    /\ branch \in Branches /\ height = Depth + 1 /\ forks = 0
    /\ world \in [Blocks -> Scenes]
    \* blocks below the fork have one name in use; the others say the same
    /\ \A b, c \in Blocks : b[1] = c[1] /\ b[1] < ForkAt => world[b] = world[c]
    /\ snapshot = [state |-> "none", head |-> 0, anchor |-> None]
    /\ request \in Requests
    /\ run = [r \in Runs |-> Idle]
    /\ binding = [r \in Runs |-> None]
    /\ accepted = {}

-----------------------------------------------------------------------------
(* The chain, and a snapshot opened by someone else.                       *)

Mine ==
    /\ height < MaxHeight
    /\ height' = height + 1
    /\ UNCHANGED <<branch, forks, world, snapshot, request, run, binding, accepted>>

Reorganize ==
    /\ forks < MaxForks /\ height >= ForkAt
    /\ branch' \in Branches \ {branch}
    /\ forks' = forks + 1
    /\ UNCHANGED <<height, world, snapshot, request, run, binding, accepted>>

OpenSnapshot ==
    /\ \/ /\ snapshot.state = "none"
          /\ snapshot' = [snapshot EXCEPT !.state = "pinning", !.head = height]
       \/ /\ snapshot.state = "pinning"
          /\ snapshot' = [snapshot EXCEPT !.state = "active",
                                          !.anchor = Block(snapshot.head - Depth)]
    /\ UNCHANGED <<chainVars, request, run, binding, accepted>>

\* Its operation is over, whether the last look found the block or not.
EndSnapshot ==
    /\ snapshot.state = "active"
    /\ snapshot' = [snapshot EXCEPT !.state = "over"]
    /\ UNCHANGED <<chainVars, request, run, binding, accepted>>

-----------------------------------------------------------------------------
(* Starting an evaluation.                                                 *)

Candidates(e, category) == {s \in Deployment[e] : CategoryOf(s.adapter) = category}

\* The scope an executor's deployment holds for a selection, or what it
\* answers instead.
Selected(e, selection) ==
    LET chosen == {s \in Candidates(e, selection.category) :
                      selection.adapter \in {None, s.adapter}}
    IN  IF chosen = {} THEN Inconclusive("NOT_CONFIGURED")
        ELSE IF Cardinality(chosen) > 1 THEN Inconclusive("SELECTION_REQUIRED")
        ELSE CHOOSE s \in chosen : TRUE

Configured(e, scope) ==
    IF \E s \in Deployment[e] : s.adapter = scope.adapter THEN scope
    ELSE Inconclusive("NOT_CONFIGURED")

\* Where the evaluation reads: at a block it pins, at a block it is given,
\* or in the snapshot, which must be active.
Begin(r, e, scope, mode, anchor, bindTo) ==
    run' = [run EXCEPT ![r] =
        [Idle EXCEPT
            !.executor = e, !.scope = scope, !.mode = mode, !.bindTo = bindTo,
            !.anchor = IF mode = "snapshot" THEN snapshot.anchor ELSE anchor,
            !.step = IF mode # "snapshot" THEN "head"
                     ELSE IF snapshot.state = "active" THEN "reading" ELSE "done",
            !.answers = [l \in LabelsOf(scope.adapter) |-> Asked],
            !.result = IF mode = "snapshot" /\ snapshot.state # "active"
                       THEN Inconclusive("EXECUTION_INVALID") ELSE None]]

Answer(r, e, result) ==
    run' = [run EXCEPT ![r] = [Idle EXCEPT !.step = "done", !.executor = e, !.result = result]]

IsScope(s) == "adapter" \in DOMAIN s

\* A supplied anchor was seen at some time, on some branch.
Places == {<<"own", None>>}
          \cup {<<"anchor", b>> : b \in {c \in Blocks : c[1] >= ForkAt \/ Block(c[1]) = c}}
          \cup (IF snapshot.state = "none" THEN {} ELSE {<<"snapshot", None>>})

Start(r, e, s, place, bindTo) ==
    /\ run[r].step = "idle"
    /\ IF IsScope(s) THEN Begin(r, e, s, place[1], place[2], bindTo) ELSE Answer(r, e, s)
    /\ UNCHANGED <<chainVars, snapshot, request, binding, accepted>>

Evaluate(r, e, selection, place) == Start(r, e, Selected(e, selection), place, None)

EvaluateScope(r, e, scope, place) == Start(r, e, Configured(e, scope), place, None)

\* The request is parsed and copied before the first await.
EvaluateBound(r, e) ==
    LET selection == [category |-> CategoryOf(request.adapter), adapter |-> request.adapter]
    IN  Start(r, e, Selected(e, selection), <<"own", None>>, request)

\* The caller changes its object while the evaluation is in flight.
ChangeRequest ==
    /\ request' \in Requests \ {request}
    /\ UNCHANGED <<chainVars, snapshot, run, binding, accepted>>

-----------------------------------------------------------------------------
(* An evaluation.                                                          *)

Finish(r, result) == [run EXCEPT ![r].step = "done", ![r].result = result]
Unpinned == Inconclusive("BLOCK_PIN_UNAVAILABLE")
Noncanonical == Inconclusive("BLOCK_NONCANONICAL")

\* The head; a supplied anchor must be exactly at the confirmation depth.
PinHead(r) ==
    /\ run[r].step = "head"
    /\ run' = IF run[r].mode = "anchor" /\ run[r].anchor[1] # height - Depth
              THEN Finish(r, Unpinned)
              ELSE [run EXCEPT ![r].step = "header", ![r].head = height]
    /\ UNCHANGED <<chainVars, snapshot, request, binding, accepted>>

\* Mutant: the header is compared but not kept.
Mutant_HeaderNotKept(r) ==
    /\ run[r].step = "header"
    /\ run' = [run EXCEPT ![r].step = "reading"]
    /\ UNCHANGED <<chainVars, snapshot, request, binding, accepted>>

PinHeader(r) ==
    /\ run[r].step = "header"
    /\ LET block == Block(run[r].head - Depth) IN
       run' = IF run[r].mode = "anchor" /\ block # run[r].anchor THEN Finish(r, Noncanonical)
              ELSE [run EXCEPT ![r].step = "reading", ![r].anchor = block]
    /\ UNCHANGED <<chainVars, snapshot, request, binding, accepted>>

\* Mutant: the state is read at the number of the block and not at its hash.
Mutant_StateByNumber(r, label) == world[Block(run[r].anchor[1])][label]

\* The node's answer at a block hash that it must find canonical.
State(r, label) ==
    IF Canonical(run[r].anchor) THEN world[run[r].anchor][label] ELSE None

ReadState(r, label) ==
    /\ run[r].step = "reading"
    /\ label \in DOMAIN run[r].answers /\ run[r].answers[label] = Asked
    /\ \E answer \in {State(r, label), None} :
           run' = [run EXCEPT ![r].answers[label] = answer]
    /\ UNCHANGED <<chainVars, snapshot, request, binding, accepted>>

AllAnswered(r) == \A l \in DOMAIN run[r].answers : run[r].answers[l] # Asked

\* The adapter's result and the artifact built of it: an adapter that throws,
\* or a verdict its artifact's schema refuses, is no verdict.
Verdict(r) ==
    LET v == Judge(run[r].scope, run[r].answers) IN
    IF v.status # "throws" /\ ArtifactAccepts(run[r].scope, v, run[r].answers) THEN v
    ELSE Inconclusive("EXECUTION_INVALID")

\* Only a snapshot the evaluation opened is looked at again by it.
Conclude(r) ==
    /\ run[r].step = "reading" /\ AllAnswered(r)
    /\ run' = [run EXCEPT ![r].result = Verdict(r),
                          ![r].step = IF run[r].mode = "snapshot" THEN "done" ELSE "closing"]
    /\ UNCHANGED <<chainVars, snapshot, request, binding, accepted>>

BoundTo(r, e, adapter, context) == [executor |-> e, adapter |-> adapter, context |-> context]

\* Mutant: what is bound is what the request says by now.
Mutant_LateRequest(r) == request.context

BoundContext(r) == run[r].bindTo.context

\* The last look at the block.  A pass of evaluateBound is bound before
\* anyone else has its result.
Close(r) ==
    /\ run[r].step = "closing"
    /\ LET holds == Canonical(run[r].anchor) IN
       /\ run' = IF holds THEN [run EXCEPT ![r].step = "done"] ELSE Finish(r, Noncanonical)
       /\ binding' = IF holds /\ run[r].result.status = "pass" /\ run[r].bindTo # None
                     THEN [binding EXCEPT ![r] = BoundTo(r, run[r].executor,
                                                  run[r].scope.adapter, BoundContext(r))]
                     ELSE binding
    /\ UNCHANGED <<chainVars, snapshot, request, accepted>>

\* A header that does not come: while pinning it is the pin that failed; at
\* the last look a malformed one is, and a failed request rejects the call.
Unreadable(r) ==
    /\ \/ run[r].step \in {"head", "header"} /\ run' = Finish(r, Unpinned)
       \/ run[r].step = "closing" /\ \E v \in {Unpinned, Rejected} : run' = Finish(r, v)
    /\ UNCHANGED <<chainVars, snapshot, request, binding, accepted>>

-----------------------------------------------------------------------------
(* Binding a result.                                                       *)

\* Mutant: any executor's result is trusted.
Mutant_AnyExecutor(r, e, adapter) ==
    run[r].step = "done" /\ run[r].result.status = "pass" /\ run[r].scope.adapter = adapter

Trusted(r, e, adapter) ==
    /\ run[r].step = "done" /\ run[r].result.status = "pass"
    /\ run[r].executor = e
    /\ run[r].scope.adapter = adapter

\* Mutant: a later binding replaces the first.
Mutant_Rebind(r, e, adapter, context) ==
    /\ Trusted(r, e, adapter)
    /\ binding' = [binding EXCEPT ![r] = BoundTo(r, e, adapter, context)]
    /\ UNCHANGED <<chainVars, snapshot, request, run, accepted>>

Bind(r, e, adapter, context) ==
    /\ Trusted(r, e, adapter)
    /\ binding[r] \in {None, BoundTo(r, e, adapter, context)}
    /\ binding' = [binding EXCEPT ![r] = BoundTo(r, e, adapter, context)]
    /\ UNCHANGED <<chainVars, snapshot, request, run, accepted>>

AssertBound(r, e, adapter, context) ==
    /\ Trusted(r, e, adapter)
    /\ binding[r] = BoundTo(r, e, adapter, context)
    /\ accepted' = accepted \cup {<<r, BoundTo(r, e, adapter, context)>>}
    /\ UNCHANGED <<chainVars, snapshot, request, run, binding>>

-----------------------------------------------------------------------------
Step(r) ==
    \/ PinHead(r) \/ PinHeader(r) \/ Conclude(r) \/ Close(r) \/ Unreadable(r)
    \/ \E l \in Labels : ReadState(r, l)

Call(r) ==
    \E e \in Executors :
        \/ \E selection \in Selections, place \in Places : Evaluate(r, e, selection, place)
        \/ \E scope \in Scopes, place \in Places : EvaluateScope(r, e, scope, place)
        \/ EvaluateBound(r, e)

Use(r) ==
    \E e \in Executors, a \in AdapterIds, c \in Contexts :
        Bind(r, e, a, c) \/ AssertBound(r, e, a, c)

Next ==
    \/ Mine \/ Reorganize \/ OpenSnapshot \/ EndSnapshot \/ ChangeRequest
    \/ \E r \in Runs : Call(r) \/ Step(r) \/ Use(r)

Spec == Init /\ [][Next]_vars

-----------------------------------------------------------------------------
(* Properties.                                                             *)

TypeOK ==
    /\ branch \in Branches /\ height \in 1..MaxHeight /\ forks \in 0..MaxForks
    /\ world \in [Blocks -> Scenes]
    /\ snapshot \in [state : {"none", "pinning", "active", "over"}, head : 0..MaxHeight,
                     anchor : Blocks \cup {None}]
    /\ request \in Requests
    /\ \A r \in Runs :
        /\ run[r].step \in {"idle", "head", "header", "reading", "closing", "done"}
        /\ run[r].executor \in Executors \cup {None}
        /\ run[r].mode \in {None, "own", "anchor", "snapshot"}
        /\ run[r].anchor \in Blocks \cup {None}
        /\ run[r].step \in {"reading", "closing"} => run[r].anchor # None
        /\ run[r].step = "done" =>
              run[r].result.status \in Measured \cup {"inconclusive", "rejected"}
        /\ binding[r] = None \/ binding[r] \in
              [executor : Executors, adapter : AdapterIds, context : Contexts]

\* A verdict says what one block says.  Whatever the chain does between the
\* reads of an evaluation, in whatever order they are answered and whichever
\* fail, a pass is a metric within the mandate and a fail one outside it in
\* the state of the pinned block, of all of it.
VerdictIsOfOneBlock ==
    \A r \in Runs : run[r].step = "done" =>
        LET truth == [l \in DOMAIN run[r].answers |-> world[run[r].anchor][l]] IN
        /\ run[r].result.status = "pass" =>
              Established(run[r].scope, truth) /\ Satisfied(run[r].scope, truth)
        /\ run[r].result.status = "fail" =>
              Established(run[r].scope, truth) /\ ~Satisfied(run[r].scope, truth)

\* What a signer's assertion lets through is a pass of that very executor,
\* by an adapter its deployment enables, and always for one mandate and one
\* candidate: no result is ever accepted in two contexts.
AcceptedOnceAndOwn ==
    \A x \in accepted :
        /\ run[x[1]].result.status = "pass"
        /\ run[x[1]].executor = x[2].executor
        /\ \E s \in Deployment[x[2].executor] : s.adapter = x[2].adapter
        /\ \A y \in accepted : x[1] = y[1] => x = y

\* What evaluateBound binds is what its caller asked for when it called,
\* whatever the caller does to the request object in the meantime.
BoundAsAsked ==
    \A r \in Runs : run[r].bindTo # None /\ binding[r] # None =>
        /\ binding[r].context = run[r].bindTo.context
        /\ binding[r].adapter = run[r].bindTo.adapter

\* A binding is never changed or taken away.
BindsForGood == \A r \in Runs : binding[r] # None => binding'[r] = binding[r]
=============================================================================
