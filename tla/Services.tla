------------------------------ MODULE Services ------------------------------
(***************************************************************************)
(* The verifier, the marketplace API and the interface as they are         *)
(* deployed: how verifier and API boot under their configuration, how API  *)
(* and interface drain when they are told to stop (server.ts of both; the  *)
(* API's has a forced end, the interface's has none), and how readiness is *)
(* asked through all three (routes.ts of verifier-api and marketplace-api, *)
(* server.ts and api.ts of marketplace-ui).  The verifier drains as the    *)
(* API does; here it is there or not.                                      *)
(*                                                                         *)
(* Time passes by ticks, and no further than the next timer that is due;   *)
(* what a process does between two waits takes no time.  Only the          *)
(* verifier's answer may take as long as it likes.                         *)
(***************************************************************************)
EXTENDS Integers, FiniteSets

CONSTANTS
    Keys, Policies,
    Requests,        \* for readiness
    ProbeTimeout,    \* VERIFIER_PROBE_TIMEOUT_MS
    UiTimeout,       \* MarketplaceApiClient's timeoutMs
    Grace,           \* SHUTDOWN_GRACE_MS
    MaxDeploys,      \* bound on boots after the first
    None

\* What the model takes for granted of the constants.
ServicesAssumption ==
    /\ {ProbeTimeout, UiTimeout, Grace, MaxDeploys} \subseteq Nat
    /\ ProbeTimeout < UiTimeout /\ ProbeTimeout < Grace
    /\ None \notin Keys \cup Policies

VARIABLES
    verifier,    \* [up, key, policy, attests, trust]: trust is whether it has /v1/trust
    api,         \* [phase, key, policy, probes, drained, stalled]
    interface,   \* [phase, stalled]
    request,     \* the readiness requests
    deploys

vars == <<verifier, api, interface, request, deploys>>

\* The settings an operator may give: a policy may be pinned, and derived from artifacts.
Releases == [key : Keys, pinned : Policies \cup {None}, derived : Policies \cup {None},
             trust : BOOLEAN]
Pins == [key : Keys, policy : Policies, probes : BOOLEAN]

Unasked == [step |-> "idle", ui |-> FALSE, waited |-> 0, probed |-> 0, served |-> None,
            met |-> {}, probe |-> None, answer |-> None,
            pinned |-> None, refused |-> FALSE, reached |-> 0]

At(r, step) == request[r].step = step
Open == {r \in Requests : request[r].step \in {"probing", "served"}}
Waiting == Open \cup {r \in Requests : At(r, "asking")}

-----------------------------------------------------------------------------
(* The verifier.                                                           *)

Down == [up |-> FALSE, key |-> None, policy |-> None, attests |-> FALSE, trust |-> FALSE]

\* Verifier.create: a pinned policy that the artifacts do not derive refuses to start.
BootVerifier(release) ==
    IF None \notin {release.pinned, release.derived} /\ release.pinned # release.derived
    THEN Down
    ELSE [up |-> TRUE, key |-> release.key, trust |-> release.trust,
          attests |-> release.derived # None,
          policy |-> IF release.pinned # None THEN release.pinned ELSE release.derived]

\* Whoever is being probed for has met what now runs.
Meet(now) ==
    [r \in Requests |-> IF request[r].step \in {"probing", "served"}
                        THEN [request[r] EXCEPT !.met = @ \cup {now.key}] ELSE request[r]]

DeployVerifier ==
    /\ deploys < MaxDeploys /\ deploys' = deploys + 1
    /\ \E now \in {BootVerifier(release) : release \in Releases} \cup {Down} :
        verifier' = now /\ request' = Meet(now)
    /\ UNCHANGED <<api, interface>>

-----------------------------------------------------------------------------
(* The API.                                                                *)

\* Mutant: any key will do.
Mutant_AnyKey(key) ==
    IF key = "no endpoint" THEN "no_trust_endpoint"
    ELSE IF key = None THEN "unreachable" ELSE "ok"

\* What a probe makes of the verifier's answer, or of none.
Status(key) ==
    IF key = "no endpoint" THEN "no_trust_endpoint"
    ELSE IF key = None THEN "unreachable"
    ELSE IF key # api.key THEN "key_mismatch" ELSE "ok"

Turns(r, record) ==
    /\ request' = [request EXCEPT ![r] = record]
    /\ UNCHANGED <<verifier, api, interface, deploys>>

Ended(r, probe, answer) ==
    [request[r] EXCEPT !.step = "done", !.probe = probe, !.answer = answer,
                       !.pinned = api.key]

\* The probe is over: GET /readyz answers, and the interface passes it on.
Judge(r, probe) ==
    Turns(r, Ended(r, probe, IF probe \in {"key_mismatch", "unreachable"} THEN "not ready" ELSE "ready"))

\* GET /readyz of the interface, whose own request is on its way.
AskUi(r) ==
    /\ interface.phase = "up"
    /\ At(r, "idle") /\ Turns(r, [request[r] EXCEPT !.step = "asking", !.ui = TRUE])

\* GET /readyz of the API; a server that closes takes no connection.
Receive(r) ==
    /\ At(r, "idle") \/ At(r, "asking")
    /\ IF api.phase # "up"
       THEN Turns(r, [Ended(r, None, "not ready") EXCEPT !.refused = TRUE])
       ELSE IF ~api.probes THEN Judge(r, "not_configured")
       ELSE Turns(r, [request[r] EXCEPT !.step = "probing", !.reached = request[r].waited,
                                        !.met = {verifier.key}])

Trust == IF verifier.trust THEN verifier.key ELSE "no endpoint"

\* probeVerifier's request arrives, and GET /v1/trust is answered from the configuration.
Serve(r) ==
    /\ At(r, "probing")
    /\ IF verifier.up THEN Turns(r, [request[r] EXCEPT !.step = "served", !.served = Trust])
       ELSE Judge(r, Status(None))

\* The answer arrives, or an error status does.
Arrive(r) ==
    /\ At(r, "served")
    /\ Judge(r, Status(request[r].served)) \/ Judge(r, Status(None))

\* Mutant: a verifier that does not answer is asked again.
Mutant_AskAgain(r) ==
    /\ r \in Open /\ request[r].probed = ProbeTimeout
    /\ Turns(r, [request[r] EXCEPT !.step = "probing", !.probed = 0])

\* AbortSignal.timeout.
ProbeExpires(r) ==
    /\ r \in Open /\ request[r].probed = ProbeTimeout
    /\ Judge(r, Status(None))

\* The interface gives up on the API.
UiExpires(r) ==
    /\ r \in Waiting /\ request[r].ui /\ request[r].waited = UiTimeout
    /\ Turns(r, Ended(r, None, "not ready"))

-----------------------------------------------------------------------------
(* The API's process.                                                      *)

\* A client that sends half a request and no more.
Stall ==
    /\ api.phase = "up" /\ ~api.stalled
    /\ api' = [api EXCEPT !.stalled = TRUE]
    /\ UNCHANGED <<verifier, interface, request, deploys>>

CutOff == [r \in Requests |-> IF r \in Open
                               THEN [request[r] EXCEPT !.step = "done", !.answer = "cut"]
                               ELSE request[r]]

\* Mutant: the process does not wait for anybody.
Mutant_AtOnce ==
    /\ api.phase = "up"
    /\ api' = [api EXCEPT !.phase = "down", !.stalled = FALSE]
    /\ request' = CutOff
    /\ UNCHANGED <<verifier, interface, deploys>>

\* SIGTERM: server.close, and a timer.
Terminate ==
    /\ api.phase = "up"
    /\ api' = [api EXCEPT !.phase = "draining", !.drained = 0]
    /\ UNCHANGED <<verifier, interface, request, deploys>>

\* The last connection is gone.
CloseCleanly ==
    /\ api.phase = "draining" /\ Open = {} /\ ~api.stalled
    /\ api' = [api EXCEPT !.phase = "down"]
    /\ UNCHANGED <<verifier, interface, request, deploys>>

\* Mutant: the timer is there for requests, and a stalled client is none.
Mutant_NoForce ==
    /\ api.phase = "draining" /\ api.drained = Grace /\ ~api.stalled
    /\ api' = [api EXCEPT !.phase = "down"] /\ request' = CutOff
    /\ UNCHANGED <<verifier, interface, deploys>>

\* The grace period is over: whoever is still connected is cut off.
Force ==
    /\ api.phase = "draining" /\ api.drained = Grace
    /\ api' = [api EXCEPT !.phase = "down", !.stalled = FALSE]
    /\ request' = CutOff
    /\ UNCHANGED <<verifier, interface, deploys>>

BootApi ==
    /\ api.phase = "down" /\ deploys < MaxDeploys
    /\ deploys' = deploys + 1
    /\ \E pin \in Pins :
        api' = [phase |-> "up", key |-> pin.key, policy |-> pin.policy, probes |-> pin.probes,
                drained |-> 0, stalled |-> FALSE]
    /\ UNCHANGED <<verifier, interface, request>>

-----------------------------------------------------------------------------
(* The interface's process.  On SIGTERM it only closes: nothing cuts off   *)
(* whoever is still connected.                                             *)

UiServed == {r \in Waiting : request[r].ui}

Becomes(record) == interface' = record /\ UNCHANGED <<verifier, api, request>>

BootUi ==
    /\ interface.phase = "down"
    /\ deploys < MaxDeploys /\ deploys' = deploys + 1
    /\ Becomes([interface EXCEPT !.phase = "up"])

StallUi ==
    /\ interface.phase = "up" /\ ~interface.stalled
    /\ Becomes([interface EXCEPT !.stalled = TRUE]) /\ UNCHANGED deploys

\* SIGTERM: server.close.
TerminateUi ==
    /\ interface.phase = "up"
    /\ Becomes([interface EXCEPT !.phase = "draining"]) /\ UNCHANGED deploys

\* The last connection is gone.
CloseUi ==
    /\ interface.phase = "draining" /\ UiServed = {} /\ ~interface.stalled
    /\ Becomes([interface EXCEPT !.phase = "down"]) /\ UNCHANGED deploys

-----------------------------------------------------------------------------

\* A tick waits for the timers that are due, and for a server that can close.
Due ==
    \/ \E r \in Open : request[r].probed = ProbeTimeout
    \/ \E r \in Waiting : request[r].ui /\ request[r].waited = UiTimeout
    \/ api.phase = "draining" /\ (api.drained = Grace \/ (Open = {} /\ ~api.stalled))
    \/ interface.phase = "draining" /\ UiServed = {} /\ ~interface.stalled

Tick ==
    /\ ~Due
    /\ Waiting # {} \/ api.phase = "draining"
    /\ request' = [r \in Requests |-> IF r \notin Waiting THEN request[r] ELSE
                    [request[r] EXCEPT !.waited = IF request[r].ui THEN @ + 1 ELSE @,
                                       !.probed = IF r \in Open THEN @ + 1 ELSE @]]
    /\ api' = IF api.phase = "draining" THEN [api EXCEPT !.drained = @ + 1] ELSE api
    /\ UNCHANGED <<verifier, interface, deploys>>

Init ==
    /\ verifier \in {BootVerifier(release) : release \in Releases}
    /\ \E pin \in Pins :
        api = [phase |-> "up", key |-> pin.key, policy |-> pin.policy, probes |-> pin.probes,
               drained |-> 0, stalled |-> FALSE]
    /\ interface = [phase |-> "up", stalled |-> FALSE]
    /\ request = [r \in Requests |-> Unasked] /\ deploys = 0

Next ==
    \/ DeployVerifier \/ BootApi \/ Terminate \/ CloseCleanly \/ Force \/ Stall \/ Tick
    \/ BootUi \/ TerminateUi \/ CloseUi \/ StallUi
    \/ \E r \in Requests :
        AskUi(r) \/ Receive(r) \/ Serve(r) \/ Arrive(r) \/ ProbeExpires(r) \/ UiExpires(r)

\* Timers fire and time passes; nothing is owed by the verifier or by a client.
Fairness ==
    /\ WF_vars(Tick) /\ WF_vars(CloseCleanly) /\ WF_vars(Force) /\ WF_vars(CloseUi)
    /\ \A r \in Requests : WF_vars(ProbeExpires(r)) /\ WF_vars(UiExpires(r))

Spec == Init /\ [][Next]_vars
FairSpec == Spec /\ Fairness

-----------------------------------------------------------------------------
(* Properties.                                                             *)

Statuses == {"ok", "key_mismatch", "unreachable", "no_trust_endpoint", "not_configured", None}

\* No wait outlives its timer; whoever is done has an answer.
TypeOK ==
    /\ api.phase \in {"up", "draining", "down"} /\ api.drained \in 0..Grace
    /\ interface.phase \in {"up", "draining", "down"} /\ interface.stalled \in BOOLEAN
    /\ verifier.key \in Keys \cup {None} /\ (verifier.up <=> verifier.key # None)
    /\ \A r \in Requests :
        /\ request[r].step \in {"idle", "asking", "probing", "served", "done"}
        /\ request[r].probe \in Statuses
        /\ request[r].probed <= ProbeTimeout /\ request[r].waited <= UiTimeout
        /\ request[r].step = "done" <=> request[r].answer \in {"ready", "not ready", "cut"}

\* routes.ts, probeVerifier: the API reports that the keys agree only if the verifier did
\* run with the pinned key while it was asked, whoever was redeployed meanwhile.
OkWasSeen ==
    \A r \in Requests : request[r].probe = "ok" => request[r].pinned \in request[r].met

\* server.ts: a redeploy of the API lets the readiness requests in flight finish, because the
\* probe's own timeout is shorter than the grace period.  (A request that is still coming in
\* when the grace period ends, a stalled one, is cut off.)
ReadinessFinishes == \A r \in Requests : request[r].answer # "cut"

\* marketplace-ui/server.ts: the interface says degraded because the API refused it, was not
\* ready, or was reached too late or not at all: the API's own probe never makes it give up.
DegradedHasCause ==
    \A r \in Requests : request[r].ui /\ request[r].answer = "not ready" =>
        \/ request[r].probe \in {"key_mismatch", "unreachable"}
        \/ request[r].refused \/ request[r].met = {}
        \/ request[r].reached >= UiTimeout - ProbeTimeout

\* Whoever asks for readiness is answered, however slow the verifier is.  Told to stop, the
\* API does, however slow a client is; the interface does unless a client stalls, for it
\* waits for everybody.
EveryReadinessAnswers == \A r \in Requests : r \in Waiting ~> At(r, "done")
EveryDrainEnds ==
    /\ api.phase = "draining" ~> api.phase = "down"
    /\ (interface.phase = "draining" /\ ~interface.stalled) ~> interface.phase = "down"
=============================================================================
