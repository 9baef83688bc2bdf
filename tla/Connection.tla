----------------------------- MODULE Connection -----------------------------
(***************************************************************************)
(* One connection task from its permit to its log line: the SOCKS5         *)
(* handshake, the choice and the dialling of an address, the reply and the *)
(* relay as a whole (src/server/handshake.rs, connector.rs, connection.rs  *)
(* and close_reason.rs).                                                   *)
(*                                                                         *)
(* A read or a write completes, fails, or waits until a timer runs out.    *)
(* What a message says is reduced to what the code distinguishes.  Time is *)
(* counted in ticks, exactly: no tick passes a timer that has run out.     *)
(***************************************************************************)
EXTENDS Integers, Sequences, Functions

CONSTANTS
    Address,            \* the addresses that a lookup may return
    Canonical,          \* canonical_ip, on addresses
    Permitted,          \* the canonical addresses that DestinationPolicy::check accepts
    MaxConnectAttempts, \* MAX_CONNECT_ATTEMPTS
    Handshake,          \* handshake_timeout_sec
    Connect,            \* connect_timeout_sec
    MaxResolved         \* bound: addresses that a lookup returns

ASSUME ConnectionAssumption ==
    /\ Canonical \in [Address -> Address]
    /\ \A a \in Address : Canonical[Canonical[a]] = Canonical[a]
    /\ Permitted \subseteq Address
    /\ "none" \notin Address
    /\ {MaxConnectAttempts, Handshake, Connect} \subseteq Nat \ {0}
    /\ MaxResolved \in Nat

VARIABLES
    step,          \* where the task is
    phaseLeft,     \* what is left of the timeout around the phase
    replyLeft,     \* what is left of the timeout in send_reply
    elapsed,       \* history: time since the task began
    presented,     \* history: the credentials the client has presented
    user,          \* report.user is set
    target,        \* report.target: what kind of target, once it is known
    target_addr,   \* report.target_addr
    resolved,      \* history: what the target resolved to
    untried,       \* connect_to_target: allowed addresses still to be tried
    dialled,       \* history: the addresses tried
    lookup,        \* a blocking thread has, or will have, the lookup
    reply,         \* the reply that is being sent by send_reply
    sent,          \* the answers the client has been sent
    authFailures,  \* record_failure calls, and stats.auth_failures
    denials,       \* stats.denied_by_policy
    reason,        \* the CloseReason, from when it is known
    forceClose     \* the token force_close is cancelled

reportVars == <<user, target, target_addr>>
dialVars == <<resolved, untried, dialled, lookup>>
timerVars == <<phaseLeft, replyLeft>>
statVars == <<authFailures, denials>>

vars == <<step, timerVars, elapsed, presented, reportVars, dialVars, reply,
          sent, statVars, reason, forceClose>>

None == "none"

-----------------------------------------------------------------------------
HandshakeSteps == {"greeting", "selecting", "declining", "credentials",
                   "granting", "denying", "request", "answering"}
ConnectSteps == {"resolving", "dialling"}
BeforeRelay == HandshakeSteps \cup ConnectSteps \cup {"refusing", "confirming"}
Steps == BeforeRelay \cup {"relaying", "ending", "logging", "closed"}

\* Where a timeout runs: around the handshake, the connect and the write of
\* the confirmation, and within send_reply.
PhaseTimed == step \in HandshakeSteps \cup ConnectSteps \cup {"confirming"}

\* Mutant: the reply after a failed connect has no time limit.
ReplyTimedInHandshake == step = "answering"

ReplyTimed == step \in {"answering", "refusing"}

\* Bound of `elapsed`, beyond what the timers let pass.
MaxElapsed == 2 * Handshake + Connect + 1

Errors == {"unsupported_address_type", "invalid_domain", "command"}

\* What read_connect_request sends for a request it cannot serve, and the
\* CloseReason it returns.
RequestReply ==
    [unsupported_address_type |-> "address_type_not_supported",
     invalid_domain |-> "general_failure",
     command |-> "command_not_supported"]
RequestReason ==
    [unsupported_address_type |-> "address_type_not_supported",
     invalid_domain |-> "invalid_domain",
     command |-> "command_not_supported"]

\* ConnectError::reply_code for the error of a connect.
ConnectReply ==
    [refused |-> "connection_refused",
     network_unreachable |-> "network_unreachable",
     host_unreachable |-> "host_unreachable",
     timed_out |-> "host_unreachable",
     other |-> "general_failure"]

ErrorReplies ==
    {"not_allowed"} \cup {RequestReply[e] : e \in Errors}
        \cup {ConnectReply[e] : e \in DOMAIN ConnectReply}

\* The CloseReasons that run_connection returns before and after the relay.
HandshakeReasons == {"handshake_timeout", "handshake_io_error", "protocol_error",
                     "no_acceptable_auth_method", "auth_failed"}
                        \cup {RequestReason[e] : e \in Errors}
ConnectReasons == {"denied_by_policy", "resolve_failed", "resolved_to_nothing",
                   "connect_failed", "connect_timeout"}
RelayReasons == {"completed", "idle_timeout", "client_error", "target_error"}
Reasons == {None, "shutdown"} \cup HandshakeReasons \cup ConnectReasons \cup RelayReasons

Init ==
    /\ step = "greeting"
    /\ phaseLeft = Handshake
    /\ replyLeft = 0
    /\ elapsed = 0
    /\ presented = None
    /\ user = FALSE
    /\ target = None
    /\ target_addr = None
    /\ resolved = <<>>
    /\ untried = <<>>
    /\ dialled = <<>>
    /\ lookup = FALSE
    /\ reply = None
    /\ sent = <<>>
    /\ authFailures = 0
    /\ denials = 0
    /\ reason = None
    /\ forceClose = FALSE

-----------------------------------------------------------------------------
(* Steps of the task in general.                                           *)

Last(s) == s[Len(s)]

\* run_connection returns `why`: its future is dropped, with the sockets.
Return(why) ==
    /\ step' = "ending"
    /\ reason' = why

\* send_reply(code, handshake), after which `why` is returned.
StartReply(next, code, why) ==
    /\ step' = next
    /\ reply' = code
    /\ replyLeft' = Handshake
    /\ reason' = why

\* Mutant: a timer that has run out goes on.
TickPastZero ==
    /\ step \in BeforeRelay
    /\ elapsed < MaxElapsed
    /\ elapsed' = elapsed + 1
    /\ phaseLeft' = IF PhaseTimed THEN phaseLeft - 1 ELSE phaseLeft
    /\ replyLeft' = IF ReplyTimed THEN replyLeft - 1 ELSE replyLeft
    /\ UNCHANGED <<step, presented, reportVars, dialVars, reply, sent,
                   statVars, reason, forceClose>>

\* Time passes while the task waits.
Tick ==
    /\ step \in BeforeRelay
    /\ PhaseTimed => phaseLeft > 0
    /\ ReplyTimed => replyLeft > 0
    /\ elapsed < MaxElapsed
    /\ elapsed' = elapsed + 1
    /\ phaseLeft' = IF PhaseTimed THEN phaseLeft - 1 ELSE phaseLeft
    /\ replyLeft' = IF ReplyTimed THEN replyLeft - 1 ELSE replyLeft
    /\ UNCHANGED <<step, presented, reportVars, dialVars, reply, sent,
                   statVars, reason, forceClose>>

-----------------------------------------------------------------------------
(* The handshake: negotiate_method, authenticate, read_connect_request.    *)

\* Greeting::read_from and Greeting::offers.
ReadGreeting ==
    /\ step = "greeting"
    /\ step' \in {"selecting", "declining"}
    /\ UNCHANGED <<timerVars, elapsed, presented, reportVars, dialVars, reply,
                   sent, statVars, reason, forceClose>>

\* Mutant: whoever is refused may still send a request.
ReadCredentialsLenient ==
    /\ step = "credentials"
    /\ \/ /\ presented' = "good"
          /\ user' = TRUE
          /\ step' = "granting"
          /\ UNCHANGED authFailures
       \/ /\ presented' = "bad"
          /\ authFailures' = authFailures + 1
          /\ step' = "granting"
          /\ UNCHANGED user
    /\ UNCHANGED <<timerVars, elapsed, target, target_addr, dialVars, reply,
                   sent, denials, reason, forceClose>>

\* UserPassRequest::read_from and UserStore::verify.  A failure is counted
\* and recorded in the ban list before it is answered.
ReadCredentials ==
    /\ step = "credentials"
    /\ \/ /\ presented' = "good"
          /\ user' = TRUE
          /\ step' = "granting"
          /\ UNCHANGED authFailures
       \/ /\ presented' = "bad"
          /\ authFailures' = authFailures + 1
          /\ step' = "denying"
          /\ UNCHANGED user
    /\ UNCHANGED <<timerVars, elapsed, target, target_addr, dialVars, reply,
                   sent, denials, reason, forceClose>>

\* Request::read_from gives a CONNECT: the handshake is over, and a domain is
\* handed to a blocking thread.
ReadRequest ==
    /\ step = "request"
    /\ step' = "resolving"
    /\ target' \in {"ip", "domain"}
    /\ lookup' = (target' = "domain")
    /\ phaseLeft' = Connect
    /\ UNCHANGED <<replyLeft, elapsed, presented, user, target_addr, resolved,
                   untried, dialled, reply, sent, statVars, reason, forceClose>>

\* A request that is answered by an error.
ReadBadRequest ==
    /\ step = "request"
    /\ \E error \in Errors :
          StartReply("answering", RequestReply[error], RequestReason[error])
    /\ UNCHANGED <<phaseLeft, elapsed, presented, reportVars, dialVars, sent,
                   statVars, forceClose>>

\* Any other ProtocolError of a read, turned into a CloseReason.
ReadFails ==
    /\ step \in {"greeting", "credentials", "request"}
    /\ \E why \in {"handshake_io_error", "protocol_error"} : Return(why)
    /\ UNCHANGED <<timerVars, elapsed, presented, reportVars, dialVars, reply,
                   sent, statVars, forceClose>>

-----------------------------------------------------------------------------
(* The answers.                                                            *)

\* Writes that must succeed, the answer and the next step.
Required ==
    [selecting |-> [answer |-> "user_pass", next |-> "credentials"],
     granting |-> [answer |-> "auth_success", next |-> "request"],
     confirming |-> [answer |-> "succeeded", next |-> "relaying"]]

RequiredAnswerSent ==
    /\ step \in DOMAIN Required
    /\ sent' = Append(sent, Required[step].answer)
    /\ step' = Required[step].next
    /\ UNCHANGED <<timerVars, elapsed, presented, reportVars, dialVars, reply,
                   statVars, reason, forceClose>>

RequiredAnswerFails ==
    /\ step \in DOMAIN Required
    /\ Return("handshake_io_error")
    /\ UNCHANGED <<timerVars, elapsed, presented, reportVars, dialVars, reply,
                   sent, statVars, forceClose>>

\* Writes whose failure changes nothing, the answer and what is returned.
BestEffort ==
    [declining |-> [answer |-> "no_acceptable", why |-> "no_acceptable_auth_method"],
     denying |-> [answer |-> "auth_failure", why |-> "auth_failed"],
     answering |-> [answer |-> reply, why |-> reason],
     refusing |-> [answer |-> reply, why |-> reason]]

\* Mutant: after an error reply the task waits for another request.
BestEffortAnswerOverStays ==
    /\ step \in DOMAIN BestEffort
    /\ sent' \in {sent, Append(sent, BestEffort[step].answer)}
    /\ IF step = "answering"
       THEN step' = "request" /\ UNCHANGED reason
       ELSE Return(BestEffort[step].why)
    /\ UNCHANGED <<timerVars, elapsed, presented, reportVars, dialVars, reply,
                   statVars, forceClose>>

BestEffortAnswerOver ==
    /\ step \in DOMAIN BestEffort
    /\ sent' \in {sent, Append(sent, BestEffort[step].answer)}
    /\ Return(BestEffort[step].why)
    /\ UNCHANGED <<timerVars, elapsed, presented, reportVars, dialVars, reply,
                   statVars, forceClose>>

\* The timeout in send_reply.
ReplyTimesOut ==
    /\ ReplyTimed
    /\ replyLeft = 0
    /\ Return(reason)
    /\ UNCHANGED <<timerVars, elapsed, presented, reportVars, dialVars, reply,
                   sent, statVars, forceClose>>

\* The timeouts in run_connection around the handshake and the confirmation.
HandshakeTimesOut ==
    /\ step \in HandshakeSteps \cup {"confirming"}
    /\ phaseLeft = 0
    /\ Return("handshake_timeout")
    /\ UNCHANGED <<timerVars, elapsed, presented, reportVars, dialVars, reply,
                   sent, statVars, forceClose>>

-----------------------------------------------------------------------------
(* connect_to_target.                                                      *)

\* Mutant: an address is judged, but not dialled, in its canonical form.
push_as_resolved(allowed, addr) ==
    IF Canonical[addr] \in Permitted /\ addr \notin Range(allowed)
    THEN Append(allowed, addr) ELSE allowed

\* An address that passes the policy joins the list, in canonical form and
\* unless it is there.
push(allowed, addr) ==
    IF Canonical[addr] \in Permitted /\ Canonical[addr] \notin Range(allowed)
    THEN Append(allowed, Canonical[addr]) ELSE allowed

\* The list, after each address in the order of the lookup, and at the end.
AllowedAfter(addrs) ==
    LET after[n \in 0 .. Len(addrs)] == IF n = 0 THEN <<>> ELSE push(after[n - 1], addrs[n])
    IN after

Allowed(addrs) == AllowedAfter(addrs)[Len(addrs)]

\* allowed.into_iter().take(MAX_CONNECT_ATTEMPTS)
Taken(allowed) ==
    SubSeq(allowed, 1, IF Len(allowed) < MaxConnectAttempts
                       THEN Len(allowed) ELSE MaxConnectAttempts)

\* An IP target is its own resolution; a lookup may return anything.
Resolutions ==
    IF target = "ip" THEN {<<a>> : a \in Address}
    ELSE UNION {[1 .. n -> Address] : n \in 0 .. MaxResolved}

\* Mutant: a single denied address refuses the whole target.
NothingAllowedStrict(addrs) == \E i \in DOMAIN addrs : Canonical[addrs[i]] \notin Permitted

NothingAllowed(addrs) == Allowed(addrs) = <<>>

\* The addresses are known and none of them may be dialled.
ResolvedToNone ==
    /\ step = "resolving"
    /\ \E addrs \in Resolutions :
          /\ NothingAllowed(addrs)
          /\ resolved' = addrs
          /\ IF addrs = <<>>
             THEN StartReply("refusing", "host_unreachable", "resolved_to_nothing")
             ELSE StartReply("refusing", "not_allowed", "denied_by_policy")
    /\ lookup' = FALSE
    /\ UNCHANGED <<phaseLeft, elapsed, presented, reportVars, untried, dialled,
                   sent, statVars, forceClose>>

\* The addresses are known and the first allowed one is dialled.
Resolved ==
    /\ step = "resolving"
    /\ \E addrs \in Resolutions :
          /\ ~NothingAllowed(addrs)
          /\ resolved' = addrs
          /\ untried' = Tail(Taken(Allowed(addrs)))
          /\ dialled' = <<Head(Allowed(addrs))>>
    /\ step' = "dialling"
    /\ lookup' = FALSE
    /\ UNCHANGED <<timerVars, elapsed, presented, reportVars, reply, sent,
                   statVars, reason, forceClose>>

\* lookup_host fails.
LookupFails ==
    /\ step = "resolving"
    /\ target = "domain"
    /\ StartReply("refusing", "host_unreachable", "resolve_failed")
    /\ lookup' = FALSE
    /\ UNCHANGED <<phaseLeft, elapsed, presented, reportVars, resolved, untried,
                   dialled, sent, statVars, forceClose>>

\* The task has given up; the lookup ends all the same.
AbandonedLookupEnds ==
    /\ lookup
    /\ step # "resolving"
    /\ lookup' = FALSE
    /\ UNCHANGED <<step, timerVars, elapsed, presented, reportVars, resolved,
                   untried, dialled, reply, sent, statVars, reason, forceClose>>

Connected ==
    /\ step = "dialling"
    /\ target_addr' = Last(dialled)
    /\ step' = "confirming"
    /\ phaseLeft' = Handshake
    /\ UNCHANGED <<replyLeft, elapsed, presented, user, target, dialVars, reply,
                   sent, statVars, reason, forceClose>>

\* An address does not answer: the next one, or the last error.
AddressFails ==
    /\ step = "dialling"
    /\ IF untried # <<>>
       THEN /\ dialled' = Append(dialled, Head(untried))
            /\ untried' = Tail(untried)
            /\ UNCHANGED <<step, reply, replyLeft, reason>>
       ELSE /\ \E error \in DOMAIN ConnectReply :
                  StartReply("refusing", ConnectReply[error], "connect_failed")
            /\ UNCHANGED <<dialled, untried>>
    /\ UNCHANGED <<phaseLeft, elapsed, presented, reportVars, resolved, lookup,
                   sent, statVars, forceClose>>

\* Mutant: the client is told nothing.
ConnectTimesOutSilently ==
    /\ step \in ConnectSteps
    /\ phaseLeft = 0
    /\ Return("connect_timeout")
    /\ UNCHANGED <<timerVars, elapsed, presented, reportVars, dialVars, reply,
                   sent, statVars, forceClose>>

\* The timeout in run_connection around connect_to_target.
ConnectTimesOut ==
    /\ step \in ConnectSteps
    /\ phaseLeft = 0
    /\ StartReply("refusing", "host_unreachable", "connect_timeout")
    /\ UNCHANGED <<phaseLeft, elapsed, presented, reportVars, dialVars, sent,
                   statVars, forceClose>>

-----------------------------------------------------------------------------
(* serve_connection.                                                       *)

\* relay_tcp returns.
RelayReturns ==
    /\ step = "relaying"
    /\ \E why \in RelayReasons : Return(why)
    /\ UNCHANGED <<timerVars, elapsed, presented, reportVars, dialVars, reply,
                   sent, statVars, forceClose>>

\* drain cancels the token, at any time.
CancelForceClose ==
    /\ ~forceClose
    /\ forceClose' = TRUE
    /\ UNCHANGED <<step, timerVars, elapsed, presented, reportVars, dialVars,
                   reply, sent, statVars, reason>>

\* The select takes the branch of the token; run_connection is dropped.
ForceClosed ==
    /\ forceClose
    /\ step \in BeforeRelay \cup {"relaying"}
    /\ Return("shutdown")
    /\ UNCHANGED <<timerVars, elapsed, presented, reportVars, dialVars, reply,
                   sent, statVars, forceClose>>

\* The counters.
CountConnection ==
    /\ step = "ending"
    /\ step' = "logging"
    /\ denials' = IF reason = "denied_by_policy" THEN denials + 1 ELSE denials
    /\ UNCHANGED <<timerVars, elapsed, presented, reportVars, dialVars, reply,
                   sent, authFailures, reason, forceClose>>

\* The log line, and the permit.
CloseConnection ==
    /\ step = "logging"
    /\ step' = "closed"
    /\ UNCHANGED <<timerVars, elapsed, presented, reportVars, dialVars, reply,
                   sent, statVars, reason, forceClose>>

Closed == step = "closed" /\ UNCHANGED vars

-----------------------------------------------------------------------------
TimesOut == ReplyTimesOut \/ HandshakeTimesOut \/ ConnectTimesOut

Next ==
    \/ Tick
    \/ ReadGreeting
    \/ ReadCredentials
    \/ ReadRequest
    \/ ReadBadRequest
    \/ ReadFails
    \/ RequiredAnswerSent
    \/ RequiredAnswerFails
    \/ BestEffortAnswerOver
    \/ ReplyTimesOut
    \/ HandshakeTimesOut
    \/ ResolvedToNone
    \/ Resolved
    \/ LookupFails
    \/ Connected
    \/ AddressFails
    \/ ConnectTimesOut
    \/ RelayReturns
    \/ CancelForceClose
    \/ ForceClosed
    \/ AbandonedLookupEnds
    \/ CountConnection
    \/ CloseConnection
    \/ Closed

Spec == Init /\ [][Next]_vars

\* Time passes, timers fire and the task is scheduled; the client, the
\* resolver and the target owe nothing.
FairSpec ==
    /\ Spec
    /\ WF_vars(Tick)
    /\ WF_vars(TimesOut)
    /\ WF_vars(CountConnection)
    /\ WF_vars(CloseConnection)

-----------------------------------------------------------------------------
(* Properties.                                                             *)

TypeOK ==
    /\ step \in Steps
    /\ phaseLeft \in 0 .. Handshake \cup 0 .. Connect
    /\ replyLeft \in 0 .. Handshake
    /\ elapsed \in 0 .. MaxElapsed
    /\ presented \in {None, "good", "bad"}
    /\ user \in BOOLEAN
    /\ target \in {None, "ip", "domain"}
    /\ target_addr \in {None} \cup Address
    /\ {resolved, untried, dialled} \subseteq Seq(Address)
    /\ lookup \in BOOLEAN
    /\ reply \in {None} \cup ErrorReplies
    /\ authFailures \in 0 .. 1
    /\ denials \in 0 .. 1
    /\ reason \in Reasons
    /\ forceClose \in BOOLEAN

\* Nothing is looked up or dialled for a client that has not presented good
\* credentials and been told so, and whoever presented bad ones gets nothing
\* more than the refusal, counted first: "'No authentication' is never
\* accepted" (negotiate_method, authenticate).
ServiceNeedsLogin ==
    /\ target # None => /\ presented = "good"
                        /\ user
                        /\ SubSeq(sent, 1, 2) = <<"user_pass", "auth_success">>
    /\ presented = "bad" => authFailures = 1 /\ sent \in {<<"user_pass">>, <<"user_pass", "auth_failure">>}

\* What the client is sent, whatever is cut short by a timeout, a failed
\* write or a forced close, is the beginning of a SOCKS5 conversation with
\* one verdict at its end, and a refusal is the last thing it is sent before
\* the connection closes.
Conversations ==
    {<<"no_acceptable">>, <<"user_pass", "auth_failure">>}
        \cup {<<"user_pass", "auth_success", last>> : last \in {"succeeded"} \cup ErrorReplies}

Begins(s, whole) == Len(s) <= Len(whole) /\ \A i \in DOMAIN s : s[i] = whole[i]

ConversationLegal ==
    /\ \E whole \in Conversations : Begins(sent, whole)
    /\ sent \in Conversations =>
          IF Last(sent) = "succeeded" THEN step \in {"relaying", "ending", "logging", "closed"}
                                      ELSE step \in {"ending", "logging", "closed"}

\* Every address that is dialled has passed the policy in the very form in
\* which it is dialled, none is dialled twice, at most MAX_CONNECT_ATTEMPTS
\* are, and the one that the relay and the log line name is the last one
\* (connect_to_target: "The policy judges the exact address the socket
\* connects to").
OnlyPermittedDialled ==
    /\ Range(dialled) \subseteq Permitted
    /\ \A i, j \in DOMAIN dialled : dialled[i] = dialled[j] => i = j
    /\ Len(dialled) <= MaxConnectAttempts
    /\ target_addr # None => target_addr = Last(dialled)

\* A connection is refused by the policy only if the target resolved and
\* every address is denied, and for a failed connect only if as many
\* permitted addresses as there are, or as may be, have been tried.
RefusalExplained ==
    LET permitted == {Canonical[resolved[i]] : i \in DOMAIN resolved} \cap Permitted IN
    /\ reason = "denied_by_policy" => resolved # <<>> /\ permitted = {}
    /\ reason = "resolved_to_nothing" => resolved = <<>>
    /\ reason = "connect_failed" =>
          /\ permitted # {}
          /\ Range(dialled) = permitted \/ Len(dialled) = MaxConnectAttempts

\* Before the relay a connection lasts at most two handshake timeouts and a
\* connect timeout, whoever stalls and wherever: a reply that is sent within
\* the handshake does not extend it (run_connection, send_reply).
PreRelayBounded == elapsed <= 2 * Handshake + Connect

\* "the task always ends" (serve_connection), as far as the relay: a client
\* that stops reading or writing at any point is closed.
LeavesEveryPhase == step \in BeforeRelay ~> step \in {"relaying", "closed"}

\* "Why the connection must be closed; the client has already been sent the
\* matching answer", the doc of the errors that handshake returns, said of
\* the errors in which the client is still there and has broken the protocol.
MatchingAnswerSent ==
    step = "ending" /\ reason = "protocol_error" =>
        sent # <<>> /\ Last(sent) \notin {"user_pass", "auth_success"}

=============================================================================
