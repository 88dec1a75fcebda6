---------------------------- MODULE HttpExchange ----------------------------
(***************************************************************************)
(* One request of PinnedHttpsTransport (transport/http.ts): the route is   *)
(* checked and copied, the host resolved, one address pinned, three timers *)
(* armed, and the first event that settles the promise wins.               *)
(*                                                                         *)
(* Every action is one turn of the event loop.  The network, the resolver, *)
(* the caller (who still holds the route object) and the clock interleave  *)
(* in any order; a timer that is due fires before the clock goes on.       *)
(***************************************************************************)
EXTENDS TransportPolicy, FiniteSetsExt

CONSTANTS
  Routes,                  \* the routes that callers may pass
  Swaps,                   \* ... those that they may turn the object into
  Addresses, Reserved,     \* numbers in the order of selectPinnedAddress
  RequestLimit, ResponseLimit,  \* by kind of route
  ConnectTimeout, HeadersTimeout, TotalTimeout,
  Chunks,                  \* the sizes of pieces of a body, and declared lengths
  MaxAge,                  \* the time since a request was sent is counted up to here
  Off, NoRoute, NoOutcome

\* What the model takes for granted of the constants.
LimitsAssumption ==
  /\ {ConnectTimeout, HeadersTimeout, TotalTimeout, MaxAge} \subseteq Nat \ {0}
  /\ Reserved \subseteq Addresses /\ Addresses \subseteq Nat
  /\ Chunks \subseteq Nat \ {0}
  /\ Swaps \subseteq Routes
  /\ Off \notin Nat

VARIABLES
  phase,      \* idle, dns, connecting, waiting, body, done
  route,      \* the caller's object
  snapshot,   \* the copy that was checked
  sent,       \* the route whose body went to the wire
  pinned, remote,
  timers,     \* how long until it fires, of each timer that is armed
  received,   \* bytes of the body taken
  outcome,
  asked,      \* history: the route as it was when the caller passed it
  sentAge,    \* history: time since the request was sent
  offered     \* history: bytes of the body that the server has sent

vars == <<phase, route, snapshot, sent, pinned, remote, timers, received,
          outcome, asked, sentAge, offered>>
history == <<asked, sentAge>>

Timers == {"connect", "headers", "total"}
Timeout(t) == CASE t = "connect" -> ConnectTimeout [] t = "headers" -> HeadersTimeout
                [] t = "total" -> TotalTimeout
TimeoutCode(t) == CASE t = "connect" -> "CONNECT_TIMEOUT" [] t = "headers" -> "HEADERS_TIMEOUT"
                    [] t = "total" -> "TOTAL_TIMEOUT"
Errors == {"REFUSED", "REQUEST_TOO_LARGE", "DNS_EMPTY", "DNS_UNSAFE_ADDRESS", "DNS_ERROR",
           "CONNECT_TIMEOUT", "HEADERS_TIMEOUT", "TOTAL_TIMEOUT", "REMOTE_ADDRESS_MISMATCH",
           "REDIRECT_REJECTED", "COMPRESSED_RESPONSE_REJECTED", "RESPONSE_TOO_LARGE",
           "RESPONSE_ABORTED", "NETWORK_ERROR"}

TypeOK ==
  /\ phase \in {"idle", "dns", "connecting", "waiting", "body", "done"}
  /\ {route, snapshot, sent, asked} \subseteq Routes \cup {NoRoute}
  /\ {pinned, remote} \subseteq Addresses \cup {Off}
  /\ \A t \in Timers : timers[t] \in 0..Timeout(t) \cup {Off}
  /\ sentAge \in 0..MaxAge
  /\ {received, offered} \subseteq Nat
  /\ outcome \in Errors \cup {"ok", NoOutcome}
  /\ phase = "done" <=> outcome # NoOutcome

Settled == outcome # NoOutcome
AllOff == [t \in Timers |-> Off]
Limit == ResponseLimit[snapshot.kind]

-----------------------------------------------------------------------------
\* Mutant: the deadline of the whole request is not cleared.
SettleButTotal(code) ==
  /\ outcome' = code
  /\ phase' = "done"
  /\ timers' = [timers EXCEPT !["connect"] = Off, !["headers"] = Off]

\* Mutant: the exchange goes on after its promise was settled.
SettleAndGoOn(code) ==
  /\ outcome' = code
  /\ phase' = phase
  /\ timers' = AllOff

\* finishReject and the end of the body: the promise settles, every timer is cleared.
\* The socket is destroyed at the same time, so that no event follows.
Settle(code) ==
  /\ outcome' = code
  /\ phase' = "done"
  /\ timers' = AllOff

Init ==
  /\ phase = "idle" /\ outcome = NoOutcome
  /\ route = NoRoute /\ snapshot = NoRoute /\ sent = NoRoute /\ asked = NoRoute
  /\ pinned = Off /\ remote = Off
  /\ timers = AllOff
  /\ received = 0 /\ sentAge = 0 /\ offered = 0

\* request: the route is copied, checked and measured.
Request ==
  /\ phase = "idle"
  /\ \E r \in Routes :
        /\ route' = r /\ snapshot' = r /\ asked' = r
        /\ IF ~RouteAllowed(r) THEN Settle("REFUSED")
           ELSE IF r.size > RequestLimit[r.kind] THEN Settle("REQUEST_TOO_LARGE")
           ELSE phase' = "dns" /\ UNCHANGED <<outcome, timers>>
  /\ UNCHANGED <<sent, pinned, remote, received, sentAge, offered>>

\* The caller changes its object while the request is under way.
MutateRoute ==
  /\ phase \notin {"idle", "done"}
  /\ \E r \in Swaps : route' = r
  /\ UNCHANGED <<phase, snapshot, sent, pinned, remote, timers, received, outcome, offered>>
  /\ UNCHANGED history

\* Mutant: the body is taken from the caller's object when it is sent.
PayloadOfCaller == route

Payload == snapshot

\* One reserved answer spoils all.
Usable(answers) == answers \cap Reserved = {}

\* The resolver has answered: one address is pinned, and the request is sent.
Resolve(answers) ==
  /\ phase = "dns"
  /\ IF answers = {} THEN Settle("DNS_EMPTY") /\ UNCHANGED <<pinned, sent>>
     ELSE IF ~Usable(answers)
     THEN Settle("DNS_UNSAFE_ADDRESS") /\ UNCHANGED <<pinned, sent>>
     ELSE /\ pinned' = Min(answers)
          /\ sent' = Payload
          /\ timers' = [t \in Timers |-> Timeout(t)]
          /\ phase' = "connecting"
          /\ UNCHANGED outcome
  /\ UNCHANGED <<route, snapshot, remote, received, offered>>
  /\ UNCHANGED history

ResolverFails ==
  /\ phase = "dns"
  /\ Settle("DNS_ERROR")
  /\ UNCHANGED <<route, snapshot, sent, pinned, remote, received, offered>>
  /\ UNCHANGED history

\* The TLS handshake is done, with the pinned address or, behind a middlebox, not.
Connect(address) ==
  /\ phase = "connecting"
  /\ remote' = address
  /\ IF address # pinned THEN Settle("REMOTE_ADDRESS_MISMATCH")
     ELSE /\ phase' = "waiting"
          /\ timers' = [timers EXCEPT !["connect"] = Off]
          /\ UNCHANGED outcome
  /\ UNCHANGED <<route, snapshot, sent, pinned, received, offered>>
  /\ UNCHANGED history

\* Mutant: the head of the response ends every deadline.
TimersAfterResponseNone == AllOff

TimersAfterResponse == [timers EXCEPT !["headers"] = Off]

\* The head of the response: its status, its encoding, the length it declares.
Response(redirect, compressed, declared) ==
  /\ phase = "waiting"
  /\ CASE redirect                       -> Settle("REDIRECT_REJECTED")
       [] ~redirect /\ compressed        -> Settle("COMPRESSED_RESPONSE_REJECTED")
       [] ~redirect /\ ~compressed /\ declared > Limit -> Settle("RESPONSE_TOO_LARGE")
       [] OTHER -> phase' = "body" /\ timers' = TimersAfterResponse /\ UNCHANGED outcome
  /\ UNCHANGED <<route, snapshot, sent, pinned, remote, received, offered>>
  /\ UNCHANGED history

\* What response.destroy() emits at once while a body is incomplete, to the listener
\* that rejects with it, before the caller of destroy goes on.
DestroyEmits == "RESPONSE_ABORTED"

\* Mutant: a piece is measured before it is added.
OverflowsLate(n) == received > Limit

Overflows(n) == received + n > Limit

\* A piece of the body.
Data(n) ==
  /\ phase = "body"
  /\ offered' = offered + n
  /\ IF Overflows(n) THEN Settle(DestroyEmits) /\ UNCHANGED received
     ELSE received' = received + n /\ UNCHANGED <<phase, timers, outcome>>
  /\ UNCHANGED <<route, snapshot, sent, pinned, remote>>
  /\ UNCHANGED history

End ==
  /\ phase = "body"
  /\ Settle("ok")
  /\ UNCHANGED <<route, snapshot, sent, pinned, remote, received, offered>>
  /\ UNCHANGED history

\* The connection breaks: before the response it is an error of the request, within
\* the body the response is aborted or fails.
Break(code) ==
  /\ \/ phase \in {"connecting", "waiting"} /\ code = "NETWORK_ERROR"
     \/ phase = "body" /\ code \in {"RESPONSE_ABORTED", "NETWORK_ERROR"}
  /\ Settle(code)
  /\ UNCHANGED <<route, snapshot, sent, pinned, remote, received, offered>>
  /\ UNCHANGED history

\* A timer destroys the request with its error, which settles the promise.
Fire(t) ==
  /\ timers[t] = 0
  /\ IF Settled THEN timers' = [timers EXCEPT ![t] = Off] /\ UNCHANGED <<phase, outcome>>
     ELSE Settle(TimeoutCode(t))
  /\ UNCHANGED <<route, snapshot, sent, pinned, remote, received, offered>>
  /\ UNCHANGED history

Older(a) == IF a < MaxAge THEN a + 1 ELSE a

Tick ==
  /\ \A t \in Timers : timers[t] # 0
  /\ timers' = [t \in Timers |-> IF timers[t] = Off THEN Off ELSE timers[t] - 1]
  /\ sentAge' = IF sent = NoRoute \/ Settled THEN sentAge ELSE Older(sentAge)
  /\ UNCHANGED <<phase, route, snapshot, sent, pinned, remote, received, outcome, asked, offered>>

Network ==
  \/ \E address \in Addresses : Connect(address)
  \/ \E redirect, compressed \in BOOLEAN, declared \in Chunks \cup {0} :
       Response(redirect, compressed, declared)
  \/ \E n \in Chunks : Data(n)
  \/ End
  \/ \E code \in Errors : Break(code)

Answer == ResolverFails \/ \E answers \in SUBSET Addresses : Resolve(answers)

Next ==
  \/ Request
  \/ MutateRoute
  \/ Answer
  \/ Network
  \/ \E t \in Timers : Fire(t)
  \/ Tick

\* The clock goes on, due timers fire and the resolver answers.  Nothing is assumed of
\* the server.
FireSome == \E t \in Timers : Fire(t)

Fairness == WF_vars(Tick) /\ WF_vars(FireSome) /\ WF_vars(Answer)

Spec == Init /\ [][Next]_vars /\ Fairness

-----------------------------------------------------------------------------
(* Properties *)

Bytes(r) == ResponseLimit[r.kind]

\* A response that is delivered is all the server sent, within the limit of its kind,
\* and came from the one address that was checked, among answers that were all public.
SuccessIsComplete ==
  outcome = "ok" =>
    /\ received = offered /\ received <= Bytes(asked)
    /\ remote = pinned /\ pinned \notin Reserved

\* What went to the wire is the route as it was when the caller passed it, whatever
\* the caller does to its object while the host is resolved.
SentIsValidated == sent # NoRoute => sent = asked /\ RouteAllowed(sent)

\* A request that was sent has settled when its total time is over, however slowly
\* the server feeds it.
SentEndsInTime == sent # NoRoute /\ ~Settled => sentAge <= TotalTimeout

\* A settled request leaves no timer that would destroy anything later.
NoTimerSurvives == Settled => timers = AllOff

\* Every request is settled, also with a server that never answers.
EveryRequestSettles == (phase # "idle") ~> Settled

\* What a call of a contract may be addressed to.
AddressedAsApproved(call, a) ==
  IF "caller" \in DOMAIN a THEN call.to = PositionManager /\ call.from = a.caller
  ELSE call.to = a.target

\* A read of contract state over a route that binds its reads asks for what its caller
\* approved: the code or the storage of the approved contract, or a call of it - or of the
\* position manager in the name of the approved caller, if it simulates - with the approved
\* calldata where there is one, at the approved block, which must be canonical.  A bsc-rpc
\* route binds nothing: no more is known of it than that its method is on the list.
SentReadsAreBound ==
  /\ /\ sent # NoRoute
     /\ sent.kind \in ChainKinds \cup {"bsc-quote-rpc"}
     /\ sent.body.method \in {"eth_getCode", "eth_getStorageAt", "eth_call"}
     => LET params == sent.body.params  a == sent.approved IN
        /\ a.block # Invalid /\ params[Len(params)] = Pinned(a.block)
        /\ IF sent.body.method = "eth_call"
           THEN /\ AddressedAsApproved(params[1], a)
                /\ "calldata" \in DOMAIN a => params[1].data = a.calldata
           ELSE params[1] = a.target
  /\ sent # NoRoute /\ sent.kind = "bsc-rpc" => sent.body.method \in AllowedMethods
=============================================================================
