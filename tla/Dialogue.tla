------------------------------ MODULE Dialogue ------------------------------
(***************************************************************************)
(* A client and the server talk SOCKS5 over TCP: client_handshake          *)
(* (src/socks/client.rs) or a client that sends everything at once, against *)
(* the server's handshake, reply and relay (src/server/handshake.rs and    *)
(* connection.rs), byte by byte.                                           *)
(*                                                                         *)
(* TCP delivers the bytes of a direction in order and in segments of any   *)
(* length.  A socket that is closed with unread input resets the           *)
(* connection, and what has not arrived by then may be lost.               *)
(***************************************************************************)
EXTENDS WireMessages, UserStore

CONSTANTS
    Users,      \* the setting `users`
    Scripts,    \* what clients may want to say
    DialCodes,  \* what a connect to the target may give, as names of ReplyCode
    Banner      \* what the target sends first

\* s is the beginning of t.
IsPrefix(s, t) == Len(s) <= Len(t) /\ SubSeq(s, 1, Len(s)) = SubSeq(t, 1, Len(s))

\* The names of ReplyCode.
CodeNames == {ReplyCodes[i] : i \in DOMAIN ReplyCodes}

\* ConnectError::reply_code, and the code of a connect that succeeds.
ConnectCodes ==
    {"succeeded", "not_allowed", "host_unreachable", "connection_refused", "network_unreachable",
     "general_failure"}

\* What the types of the code can hold.
IsScript(s) ==
    /\ s.eager \in BOOLEAN
    /\ s.methods \in Message("greeting")
    /\ s.credentials \in Message("user_pass")
    /\ s.command \in Byte
    /\ s.target \in SocketAddr \cup DomainAddr
    /\ s.data \in Seq(Byte)

\* client_handshake offers one method and asks for one command; a client that
\* sends everything at once has encoded everything.
IsClient(s) ==
    IF s.eager
    THEN /\ LongestField("greeting", s.methods) <= 255
         /\ LongestField("user_pass", s.credentials) <= 255
         /\ LongestField("request", [target |-> s.target]) <= 255
    ELSE s.methods = <<METHOD_USER_PASS>> /\ s.command = 1

\* The settings have passed from_settings.
ASSUME DialogueAssumption ==
    /\ Users \in Seq(Message("user_pass")) /\ "users" \in DOMAIN user_store_new(Users)
    /\ \A s \in Scripts : IsScript(s) /\ IsClient(s)
    /\ DialCodes \subseteq ConnectCodes
    /\ Banner \in Seq(Byte)

VARIABLES
    script,    \* what this client says
    client,    \* how many answers the client has accepted, and what it does
    outcome,   \* what client_handshake has returned
    server,    \* where the connection task is
    report,    \* report.user and report.target, as <<v>> once they are set
    reason,    \* the CloseReason, or the code of the reply after a failed connect
    up,        \* client to server: bytes not read yet, how many of them have
    down,      \* arrived, and whether the writer keeps the stream open
    toTarget,   \* the bytes that the relay has passed on to the target
    fromTarget  \* what the target sends that the relay has still to pass on

clientVars == <<client, outcome>>
relayVars == <<toTarget, fromTarget>>
serverVars == <<server, report, reason, relayVars>>
vars == <<script, clientVars, serverVars, up, down>>

-----------------------------------------------------------------------------
(* Streams.                                                                *)

Empty == [bytes |-> <<>>, arrived |-> 0, open |-> TRUE]

Arrived(stream) == SubSeq(stream.bytes, 1, stream.arrived)

Written(stream, bytes) == [stream EXCEPT !.bytes = @ \o bytes]

Taken(stream, n) ==
    [stream EXCEPT !.bytes = SubSeq(@, n + 1, Len(@)), !.arrived = @ - n]

Closed(stream) == [stream EXCEPT !.open = FALSE]

\* What a read has come to, unless it waits.
Decided(read) == {read} \ {More}

\* A read that waits for more gets UnexpectedEof.
AtEnd(stream) == ~stream.open /\ stream.arrived = Len(stream.bytes)

\* Some segment arrives.
Arrives(stream) == {[stream EXCEPT !.arrived = n] : n \in stream.arrived + 1 .. Len(stream.bytes)}

\* The server's socket is closed and the client's bytes are still there.
Reset == ~down.open /\ up.bytes # <<>>

Deliver ==
    /\ \/ up' \in Arrives(up) /\ UNCHANGED down
       \/ down' \in Arrives(down) /\ UNCHANGED up
    /\ UNCHANGED <<script, clientVars, serverVars>>

\* What the reset overtakes is lost.
ResetArrives ==
    /\ Reset
    /\ down.arrived < Len(down.bytes)
    /\ down' = [down EXCEPT !.bytes = Arrived(down)]
    /\ UNCHANGED <<script, clientVars, serverVars, up>>

-----------------------------------------------------------------------------
(* The client.                                                             *)

Request == [command |-> command_from_byte(script.command), target |-> script.target]

\* The messages and the data, each a Value or an Error.
Blocks ==
    <<greeting_encode(script.methods), user_pass_encode(script.credentials),
      request_encode(Request), Value(script.data, 0)>>

\* What is written after n answers.
ToWrite(n) ==
    IF script.eager
    THEN Value(IF n = 0 THEN Blocks[1].value \o Blocks[2].value \o Blocks[3].value \o Blocks[4].value
               ELSE <<>>, 0)
    ELSE Blocks[n + 1]

Answer(n, bytes) ==
    IF n = 0 THEN method_selection_read_from(bytes)
    ELSE IF n = 1 THEN user_pass_response_read_from(bytes)
    ELSE reply_read_from(bytes)

\* Mutant: the code of the reply is not looked at.
Refusal_unchecked(n, value) ==
    IF n = 0 THEN IF value = METHOD_USER_PASS THEN "none" ELSE "method_rejected"
    ELSE IF n = 1 THEN IF value = AUTH_STATUS_SUCCESS THEN "none" ELSE "auth_rejected"
    ELSE "none"

\* The ClientError that an answer amounts to; RequestRejected is its code.
Refusal(n, value) ==
    IF n = 0 THEN IF value = METHOD_USER_PASS THEN "none" ELSE "method_rejected"
    ELSE IF n = 1 THEN IF value = AUTH_STATUS_SUCCESS THEN "none" ELSE "auth_rejected"
    ELSE IF value.code.name = "succeeded" THEN "none" ELSE value.code.name

\* client_handshake returns an error and its caller drops the stream.
GiveUp(error) ==
    /\ outcome' = error
    /\ client' = [client EXCEPT !.does = "gone"]
    /\ up' = Closed(up)

\* write_all, or the `?` behind encode.
ClientWrites ==
    LET block == ToWrite(client.answers) IN
    /\ client.does = "writing"
    /\ IF block.is = "error" THEN GiveUp(block.error)
       ELSE /\ up' = Written(up, block.value)
            /\ client' = [client EXCEPT !.does = IF client.answers = 3 THEN "relaying" ELSE "reading"]
            /\ UNCHANGED outcome
    /\ UNCHANGED <<script, serverVars, down>>

ClientReads ==
    /\ client.does = "reading"
    /\ \E answer \in Decided(Answer(client.answers, Arrived(down))) :
          /\ down' = Taken(down, answer.used)
          /\ LET error == IF answer.is = "error" THEN answer.error
                          ELSE Refusal(client.answers, answer.value)
             IN  IF error # "none" THEN GiveUp(error)
                 ELSE /\ client' = [answers |-> client.answers + 1, does |-> "writing"]
                      /\ outcome' = IF client.answers = 2 THEN "ok" ELSE outcome
                      /\ UNCHANGED up
    /\ UNCHANGED <<script, serverVars>>

ClientAtEnd ==
    /\ client.does = "reading"
    /\ AtEnd(down)
    /\ Answer(client.answers, Arrived(down)) = More
    /\ GiveUp("io")
    /\ UNCHANGED <<script, serverVars, down>>

\* The caller drops client_handshake.
ClientLeaves ==
    /\ client.does = "reading"
    /\ GiveUp("dropped")
    /\ UNCHANGED <<script, serverVars, down>>

-----------------------------------------------------------------------------
(* The connection task.                                                    *)

store == user_store_new(Users).users

\* From<ProtocolError> for CloseReason.
CloseReasonOf(error) ==
    IF error = "io" THEN "handshake_io_error"
    ELSE IF error = "unsupported_address_type" THEN "address_type_not_supported"
    ELSE IF error = "invalid_domain" THEN "invalid_domain"
    ELSE "protocol_error"

Reply(code) == reply_encode(reply_new([name |-> code]))

\* `used` bytes are read, `bytes` are written and the task ends.
Finish(used, bytes, why) ==
    /\ up' = Taken(up, used)
    /\ down' = Closed(Written(down, bytes))
    /\ server' = "closed"
    /\ reason' = why

\* `used` bytes are read, `bytes` are written and the task goes on; a write
\* to a client that is gone may fail.
Proceed(used, bytes, next) ==
    \/ /\ up' = Taken(up, used)
       /\ down' = Written(down, bytes)
       /\ server' = next
       /\ UNCHANGED reason
    \/ /\ ~up.open
       /\ Finish(used, <<>>, CloseReasonOf("io"))

negotiate_method ==
    /\ server = "greeting"
    /\ \E greeting \in Decided(greeting_read_from(Arrived(up))) :
          IF greeting.is = "error"
          THEN Finish(greeting.used, <<>>, CloseReasonOf(greeting.error))
          ELSE IF offers(greeting.value, METHOD_USER_PASS)
          THEN Proceed(greeting.used, method_selection_encode(METHOD_USER_PASS), "credentials")
          ELSE Finish(greeting.used, method_selection_encode(METHOD_NO_ACCEPTABLE),
                      "no_acceptable_auth_method")
    /\ UNCHANGED <<script, clientVars, report, relayVars>>

authenticate ==
    /\ server = "credentials"
    /\ \E credentials \in Decided(user_pass_read_from(Arrived(up))) :
          IF credentials.is = "error"
          THEN Finish(credentials.used, <<>>, CloseReasonOf(credentials.error)) /\ UNCHANGED report
          ELSE \E user \in {verify(store, credentials.value.username, credentials.value.password)} :
                  /\ report' = [report EXCEPT !.user = user]
                  /\ IF user # <<>>
                     THEN Proceed(credentials.used, user_pass_response_encode(AUTH_STATUS_SUCCESS),
                                  "request")
                     ELSE Finish(credentials.used, user_pass_response_encode(AUTH_STATUS_FAILURE),
                                 "auth_failed")
    /\ UNCHANGED <<script, clientVars, relayVars>>

\* Mutant: only a command gets a reply.
RefuseRequest_silent(request) ==
    /\ IF request.is = "value"
       THEN Finish(request.used, Reply("command_not_supported"), "command_not_supported")
       ELSE Finish(request.used, <<>>, CloseReasonOf(request.error))
    /\ UNCHANGED report

\* The reply to a request that is not served, if it gets one, and the end.
RefuseRequest(request) ==
    /\ IF request.is = "value"
       THEN Finish(request.used, Reply("command_not_supported"), "command_not_supported")
       ELSE Finish(request.used,
                   IF request.error = "unsupported_address_type" THEN Reply("address_type_not_supported")
                   ELSE IF request.error = "invalid_domain" THEN Reply("general_failure")
                   ELSE <<>>,
                   CloseReasonOf(request.error))
    /\ UNCHANGED report

IsConnect(request) == request.is = "value" /\ request.value.command = command_from_byte(1)

\* Mutant: the request is read through a buffer, which is dropped.
read_connect_request_buffered ==
    /\ server = "request"
    /\ \E request \in Decided(request_read_from(Arrived(up))) :
          IF IsConnect(request)
          THEN /\ up' = Taken(up, up.arrived)
               /\ server' = "dialling"
               /\ report' = [report EXCEPT !.target = <<request.value.target>>]
               /\ UNCHANGED <<down, reason>>
          ELSE RefuseRequest(request)
    /\ UNCHANGED <<script, clientVars, relayVars>>

\* read_connect_request, and report.target.
read_connect_request ==
    /\ server = "request"
    /\ \E request \in Decided(request_read_from(Arrived(up))) :
          IF IsConnect(request)
          THEN /\ up' = Taken(up, request.used)
               /\ server' = "dialling"
               /\ report' = [report EXCEPT !.target = <<request.value.target>>]
               /\ UNCHANGED <<down, reason>>
          ELSE RefuseRequest(request)
    /\ UNCHANGED <<script, clientVars, relayVars>>

\* connect_to_target and the reply to it, which may time out if it is good news.
ConnectToTarget ==
    /\ server = "dialling"
    /\ \E code \in DialCodes :
          IF code = "succeeded"
          THEN Proceed(0, Reply(code), "relaying") \/ Finish(0, <<>>, "handshake_timeout")
          ELSE Finish(0, Reply(code), code)
    /\ UNCHANGED <<script, clientVars, report, relayVars>>

HandshakeSteps == {"greeting", "credentials", "request"}

\* Mutant: a read of nothing is tried again.
ServerAtEnd_retries ==
    /\ server \in HandshakeSteps
    /\ AtEnd(up)
    /\ UNCHANGED vars

\* A read at the end of the stream.
ServerAtEnd ==
    /\ server \in HandshakeSteps
    /\ AtEnd(up)
    /\ IF server = "greeting" THEN greeting_read_from(up.bytes) = More
       ELSE IF server = "credentials" THEN user_pass_read_from(up.bytes) = More
       ELSE request_read_from(up.bytes) = More
    /\ Finish(0, <<>>, CloseReasonOf("io"))
    /\ UNCHANGED <<script, clientVars, report, relayVars>>

\* handshake_timeout_sec is over.
HandshakeTimesOut ==
    /\ server \in HandshakeSteps
    /\ Finish(0, <<>>, "handshake_timeout")
    /\ UNCHANGED <<script, clientVars, report, relayVars>>

\* The relay, as far as this module goes: what is there is passed on.
RelayUp ==
    /\ server = "relaying"
    /\ up.arrived > 0
    /\ up' = Taken(up, up.arrived)
    /\ toTarget' = toTarget \o Arrived(up)
    /\ UNCHANGED <<script, clientVars, server, report, reason, down, fromTarget>>

RelayDown ==
    /\ server = "relaying"
    /\ fromTarget # <<>>
    /\ down' = Written(down, fromTarget)
    /\ fromTarget' = <<>>
    /\ UNCHANGED <<script, clientVars, server, report, reason, up, toTarget>>

-----------------------------------------------------------------------------
Init ==
    /\ script \in Scripts
    /\ client = [answers |-> 0, does |-> "writing"]
    /\ outcome = "none"
    /\ server = "greeting"
    /\ report = [user |-> <<>>, target |-> <<>>]
    /\ reason = "none"
    /\ up = Empty
    /\ down = Empty
    /\ toTarget = <<>>
    /\ fromTarget = Banner

Client == ClientWrites \/ ClientReads \/ ClientAtEnd

Server ==
    \/ negotiate_method
    \/ authenticate
    \/ read_connect_request
    \/ ConnectToTarget
    \/ ServerAtEnd
    \/ RelayUp
    \/ RelayDown

\* Both sides are done.
Over ==
    /\ client.does \in {"relaying", "gone"}
    /\ server \in {"relaying", "closed"}
    /\ UNCHANGED vars

Next ==
    \/ Client
    \/ ClientLeaves
    \/ Server
    \/ HandshakeTimesOut
    \/ Deliver
    \/ ResetArrives
    \/ Over

Spec == Init /\ [][Next]_vars

\* Both programs run and TCP delivers.  Nobody is bound to time out or to
\* leave: the dialogue must come to its end without that.
FairSpec == Spec /\ WF_vars(Client) /\ WF_vars(Server) /\ WF_vars(Deliver)

-----------------------------------------------------------------------------
(* Properties.                                                             *)

Listed == \E i \in DOMAIN Users : Users[i] = script.credentials

\* The two sides never disagree: a client that is told it is connected has
\* logged in as a listed user and is served the target it named; a client
\* that is refused is refused for what the server logs; and no answer is
\* taken for another one, although all of them are a few bytes on one stream.
\* A general failure is a connect that failed, or a domain that was no name.
OutcomesAgree ==
    /\ outcome = "ok" =>
          /\ Listed
          /\ server = "relaying"
          /\ report = [user |-> <<script.credentials.username>>, target |-> <<script.target>>]
    /\ outcome = "method_rejected" => reason = "no_acceptable_auth_method"
    /\ outcome = "auth_rejected" => reason = "auth_failed" /\ ~Listed
    /\ outcome \in CodeNames =>
          reason = IF outcome = "general_failure" /\ report.target = <<>> THEN "invalid_domain"
                   ELSE outcome

\* The target gets the client's data from its first byte and not a byte of
\* the handshake, also when the data came in one segment with the request;
\* the client finds the target's bytes right behind the reply.
DataBeginsWhereTheHandshakeEnds ==
    /\ server = "relaying" => IsPrefix(toTarget \o up.bytes, script.data)
    /\ client.answers = 3 => IsPrefix(down.bytes, Banner)

\* A client that waits for each answer learns why it is refused: no answer is
\* lost in a reset, because the server has read all that the client sent, and
\* the connection ends without an answer only after a timeout.
RefusalIsHeard ==
    outcome = "io" /\ ~script.eager => reason = "handshake_timeout"

\* Server and client never wait for each other: every dialogue ends in an
\* outcome, and the data of a connected client arrives.
DialogueEnds ==
    /\ <>(client.does \in {"relaying", "gone"})
    /\ <>(server \in {"relaying", "closed"})
    /\ [](outcome = "ok" => <>(toTarget = script.data))
=============================================================================
