------------------------- MODULE SupplyVerification -------------------------
(***************************************************************************)
(* The passive verifier (agent-supply-verifier/src/verify.ts): it takes    *)
(* the candidates of a manifest one after the other and asks of each the   *)
(* scan (sources/8004scan.ts), the chain (sources/erc8004.ts, the reader   *)
(* of CandidateIdentity), and the endpoint's card (probes/a2a.ts).  What   *)
(* they answered, and whether they answered at all, makes the status of    *)
(* the candidate and of the run (report.ts).  The host's own network comes *)
(* and goes, and the scan may ask for fewer requests.  What the endpoint   *)
(* fails to answer counts against the candidate, whoever's network it was. *)
(***************************************************************************)
EXTENDS CandidateIdentity

Seqs == INSTANCE Sequences

CONSTANTS
    Manifest,      \* the candidates, in their order
    MaxOutages     \* bound on how often the host's network goes

ManifestAssumption ==
    Manifest \in Seqs!Seq(Captures) /\ {Manifest[i] : i \in DOMAIN Manifest} = Captures

VARIABLES
    online,        \* the host's network
    outages,
    scan, card,    \* scan[c], card[c]: what they gave, or None while not asked
    stopped,       \* the run stopped asking, after a candidate that was rate limited
    reports,       \* the reports made, in order
    runStatus      \* of the report of the run, or None before it is built

supplyVars == <<identityVars, online, outages, scan, card, stopped, reports, runStatus>>
runVars == <<online, outages, stopped, reports, runStatus>>

Working == runStatus = None /\ Seqs!Len(reports) < Seqs!Len(Manifest)
Current == Manifest[Seqs!Len(reports) + 1]

\* What the scan's server sends: a status, with or without a Retry-After.
ScanResponses == [status : {"200", "404", "429", "500", "malformed"}, retryAfter : BOOLEAN]

\* What comes from the endpoint's server: its card, something else, or nothing in time.
CardResponses == {"compatible", "incompatible", "not 200", "other origin", "silence"}

-----------------------------------------------------------------------------
(* The sources.                                                            *)

\* fetchScanAgentDetail.
ScanResult(response) ==
    CASE response.status = "404" -> "not_indexed"
      [] response.status # "404" /\ (response.status = "429" \/ response.retryAfter)
            -> "rate_limited"
      [] response.status = "200" /\ ~response.retryAfter -> "ok"
      [] OTHER -> "inconclusive"

\* probeAgentCard: "refused" and "silent" are both its unavailable, under different codes.
\* An endpoint that does not answer is as definitive as one that answers with the wrong
\* card; only the resolver, or the request itself, leaves it open.
CardResult(response) ==
    CASE response = "compatible" -> "detected"
      [] response = "silence" -> "silent"
      [] OTHER -> "refused"

ScanDisposition(result) ==
    CASE result = "ok" -> "success"
      [] result = "not_indexed" -> "mismatch"
      [] OTHER -> "inconclusive"

\* readSnapshot has everything once the reader would look at the owner's account.
ChainVerified(c) == At(c, "provider")
ChainDone(c) == capture[c].step \in {"provider", "done"}
ChainDisposition(c) ==
    CASE ChainVerified(c) -> "success"
      [] At(c, "done") /\ capture[c].result = NotFound -> "definitive_failure"
      [] OTHER -> "inconclusive"

CardDisposition(result) ==
    CASE result = "detected" -> "success"
      [] result \in {"refused", "silent"} -> "definitive_failure"
      [] OTHER -> "inconclusive"

-----------------------------------------------------------------------------
(* The verdict.                                                            *)

\* Mutant: what is definitive comes before what is not known.
Mutant_DefinitiveFirst(dispositions) ==
    IF "definitive_failure" \in dispositions THEN "UNAVAILABLE"
    ELSE IF "inconclusive" \in dispositions THEN "INCONCLUSIVE" ELSE "REGISTERED_ONLY"

\* classifyCandidate: a source that is inconclusive outweighs a failure of the candidate.
Classify(dispositions) ==
    IF "inconclusive" \in dispositions THEN "INCONCLUSIVE"
    ELSE IF "definitive_failure" \in dispositions THEN "UNAVAILABLE"
    ELSE "REGISTERED_ONLY"

Report(c, status, dispositions) ==
    [candidate |-> c, status |-> status, sources |-> dispositions,
     \* what the report says was seen: who answered, what became of the card's probe, and
     \* the owner it names
     answered |-> {s \in {"scan", "chain", "card"} :
                    \/ s = "scan" /\ scan[c] \in {"ok", "not_indexed"}
                    \/ s = "chain" /\ (ChainVerified(c) \/ ChainDisposition(c) = "definitive_failure")
                    \/ s = "card" /\ card[c] \in {"detected", "refused"}},
     card |-> card[c],
     owner |-> IF ChainVerified(c) THEN capture[c].owner ELSE None,
     block |-> capture[c].header]

\* buildBudgetInconclusiveCandidate.
StoppedReport(c) == Report(c, "INCONCLUSIVE", {"inconclusive"})

\* Mutant: a run is inconclusive if all of it is.
Mutant_AllOfIt(done) ==
    IF \A i \in DOMAIN done : done[i].status = "INCONCLUSIVE" THEN "inconclusive" ELSE "complete"

\* The run's own status, in buildReport.
RunStatus(done) ==
    IF \E i \in DOMAIN done : done[i].status = "INCONCLUSIVE" \/ "inconclusive" \in done[i].sources
    THEN "inconclusive" ELSE "complete"

-----------------------------------------------------------------------------
(* The run.                                                                *)

Ask ==
    /\ Working /\ ~stopped /\ scan[Current] = None
    /\ scan' = [scan EXCEPT ![Current] = IF online THEN "asking" ELSE "inconclusive"]
    /\ UNCHANGED <<identityVars, runVars, card>>

Answer(response) ==
    /\ Working /\ scan[Current] = "asking"
    /\ scan' = [scan EXCEPT ![Current] = IF online THEN ScanResult(response) ELSE "inconclusive"]
    /\ UNCHANGED <<identityVars, online, outages, card, stopped, reports, runStatus>>

\* Mutant: a rate limit ends the candidate it met, and not the run.
Mutant_OneCandidate ==
    /\ Working /\ scan[Current] = "rate_limited"
    /\ reports' = Seqs!Append(reports, Report(Current, "INCONCLUSIVE", {"success", "inconclusive"}))
    /\ UNCHANGED <<identityVars, online, outages, scan, card, stopped, runStatus>>

\* The scan asked for fewer requests: this candidate ends here, and the run with it.
RateLimited ==
    /\ Working /\ scan[Current] = "rate_limited"
    /\ reports' = Seqs!Append(reports, Report(Current, "INCONCLUSIVE", {"success", "inconclusive"}))
    /\ stopped' = TRUE
    /\ UNCHANGED <<identityVars, online, outages, scan, card, runStatus>>

ScanDone == Working /\ scan[Current] \in {"ok", "not_indexed", "inconclusive"}

\* verifyErc8004Ownership, without an anchor.
StartChain ==
    /\ ScanDone /\ Start(Current, None)
    /\ UNCHANGED <<runVars, scan, card>>

ReadChain ==
    /\ ScanDone /\ ~ChainDone(Current)
    /\ IF online THEN Read(Current)
       ELSE /\ capture[Current].step \in Reading
            /\ Ends(Current, Inconclusive("RPC_UNAVAILABLE"))
    /\ UNCHANGED <<runVars, scan, card>>

\* probeAgentCard: with the network away it is the resolver that fails, or, with a name
\* it remembers, the connection, which the code cannot tell from a silent endpoint.
Probe ==
    /\ ScanDone /\ ChainDone(Current) /\ card[Current] = None
    /\ \/ /\ online
          /\ \E response \in CardResponses :
                card' = [card EXCEPT ![Current] = CardResult(response)]
       \/ /\ ~online
          /\ \E result \in {"inconclusive", CardResult("silence")} :
                card' = [card EXCEPT ![Current] = result]
    /\ UNCHANGED <<identityVars, runVars, scan>>

\* The rest of verifyCandidate.
Finish ==
    /\ ScanDone /\ card[Current] # None
    /\ LET dispositions == {"success", ScanDisposition(scan[Current]),
                            ChainDisposition(Current), CardDisposition(card[Current])}
       IN  reports' = Seqs!Append(reports, Report(Current, Classify(dispositions), dispositions))
    /\ UNCHANGED <<identityVars, online, outages, scan, card, stopped, runStatus>>

Stop ==
    /\ Working /\ stopped
    /\ reports' = Seqs!Append(reports, StoppedReport(Current))
    /\ UNCHANGED <<identityVars, online, outages, scan, card, stopped, runStatus>>

Build ==
    /\ runStatus = None /\ Seqs!Len(reports) = Seqs!Len(Manifest)
    /\ runStatus' = RunStatus(reports)
    /\ UNCHANGED <<identityVars, online, outages, scan, card, stopped, reports>>

Outage ==
    /\ IF online THEN outages < MaxOutages /\ outages' = outages + 1
       ELSE UNCHANGED outages
    /\ online' = ~online
    /\ UNCHANGED <<identityVars, scan, card, stopped, reports, runStatus>>

Chain == (Mine \/ Reorganize) /\ UNCHANGED <<runVars, scan, card>>

RunInit ==
    /\ IdentityInit
    /\ online \in BOOLEAN /\ outages = 0
    /\ scan = [c \in Captures |-> None] /\ card = [c \in Captures |-> None]
    /\ stopped = FALSE /\ reports = << >> /\ runStatus = None

Step == \/ Ask \/ (\E response \in ScanResponses : Answer(response))
        \/ RateLimited \/ StartChain \/ ReadChain \/ Probe \/ Finish \/ Stop \/ Build

RunNext == Step \/ Outage \/ Chain

RunSpec == RunInit /\ [][RunNext]_supplyVars

-----------------------------------------------------------------------------
(* What a run promises.                                                    *)

Statuses == {"INCONCLUSIVE", "UNAVAILABLE", "REGISTERED_ONLY"}

\* Every report is of the manifest's candidate at its place, and has a status the passive
\* verifier can give.
RunTypeOK ==
    /\ TypeOK
    /\ Seqs!Len(reports) <= Seqs!Len(Manifest)
    /\ \A i \in DOMAIN reports : /\ reports[i].candidate = Manifest[i]
                                 /\ reports[i].status \in Statuses
    /\ runStatus \in {None, "complete", "inconclusive"}

\* No verdict is given while the scan or the chain is silent, whatever else failed.  A
\* candidate is unavailable if its token is missing from the block that was read, or if its
\* owner was read and its endpoint gave something else than its card, or gave nothing: the
\* last may be this host's own connection, which the code does not tell apart
\* (classifyCandidate, transportFailure).  Otherwise its card was seen.
VerdictsAreGrounded ==
    \A i \in DOMAIN reports :
        LET r == reports[i]
        IN  /\ r.status # "INCONCLUSIVE" => {"scan", "chain"} \subseteq r.answered
            /\ r.status = "UNAVAILABLE" =>
                    \/ r.owner = None /\ world[r.block].owner = None
                    \/ r.owner # None /\ r.card \in {"refused", "silent"}
            /\ r.status = "REGISTERED_ONLY" => r.owner # None /\ r.card = "detected"

\* A run is complete only if every candidate of the manifest was asked for at every source,
\* the scan and the chain answered for each, and so did its endpoint unless the candidate is
\* reported unavailable: a run cut short is never complete (buildReport).
CompleteIsComplete ==
    runStatus = "complete" =>
        \A i \in DOMAIN Manifest :
            /\ i \in DOMAIN reports
            /\ {"scan", "chain"} \subseteq reports[i].answered
            /\ \/ "card" \in reports[i].answered
               \/ reports[i].card = "silent" /\ reports[i].status = "UNAVAILABLE"

\* The owner a report names is the owner at the block it names, although the chain may
\* have changed its branch between any two reads (verify.ts, chainObservation).
OwnersAreOfTheirBlocks ==
    \A i \in DOMAIN reports :
        reports[i].owner # None =>
            world[reports[i].block].owner = reports[i].owner /\ world[reports[i].block].registry

\* Once the scan has limited the rate, nobody is asked anything any more
\* (policy.ts, stopOnHttp429).
AsksNobodyOnceLimited ==
    (\E c \in Captures : scan[c] = "rate_limited") => UNCHANGED <<scan, capture, card>>
=============================================================================
