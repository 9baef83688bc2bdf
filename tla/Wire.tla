-------------------------------- MODULE Wire --------------------------------
(***************************************************************************)
(* The SOCKS5 messages as bytes (src/socks: wire.rs, greeting.rs,          *)
(* auth_negotiation.rs, request.rs, target_addr.rs, reply.rs, consts.rs).  *)
(*                                                                         *)
(* A `read_from` is a function of the bytes that have arrived: "more" when *)
(* the code would wait for another byte (and fail with Io at the end of    *)
(* the stream), or an error or a value and how many bytes were taken.  An  *)
(* `encode` gives the bytes or an error and takes none.  An address is the *)
(* sequence of its octets, a port a number in 0 .. 65535.                  *)
(***************************************************************************)
EXTENDS Integers, Sequences

SOCKS_VERSION == 5
AUTH_VERSION == 1
METHOD_USER_PASS == 2
METHOD_NO_ACCEPTABLE == 255
ATYP_IPV4 == 1
ATYP_DOMAIN == 3
ATYP_IPV6 == 4
AUTH_STATUS_SUCCESS == 0
AUTH_STATUS_FAILURE == 1

More == [is |-> "more"]
Error(name, used) == [is |-> "error", error |-> name, used |-> used]
Value(v, used) == [is |-> "value", value |-> v, used |-> used]

\* The read that needs the first n bytes.
Having(bytes, n, result) == IF Len(bytes) < n THEN More ELSE result

\* What follows a read, unless that one waits or fails: the `?` operator.
AndThen(read, Next(_)) == IF read.is = "value" THEN Next(read) ELSE read

\* A message whose first byte is its version.
Versioned(bytes, version, error, rest) ==
    Having(bytes, 1, IF bytes[1] = version THEN rest ELSE Error(error, 1))

-----------------------------------------------------------------------------
(* wire.rs                                                                 *)

\* A field whose length is the byte at position `at`.
read_u8_prefixed(bytes, at) ==
    Having(bytes, at,
        LET last == at + bytes[at] IN
        Having(bytes, last, Value(SubSeq(bytes, at + 1, last), last)))

\* Mutant: the length is not checked.
push_u8_prefixed_unchecked(out, field) ==
    AndThen(out, LAMBDA o : Value(o.value \o <<Len(field)>> \o field, 0))

\* `out` is an encoding so far, as a Value.
push_u8_prefixed(out, field) ==
    IF Len(field) > 255 THEN Error("field_too_long", 0)
    ELSE AndThen(out, LAMBDA o : Value(o.value \o <<Len(field)>> \o field, 0))

port_to_be_bytes(port) == <<port \div 256, port % 256>>

PortAt(bytes, at) == bytes[at] * 256 + bytes[at + 1]

push_socket_addr(addr) ==
    <<IF Len(addr.ip) = 4 THEN ATYP_IPV4 ELSE ATYP_IPV6>>
        \o addr.ip \o port_to_be_bytes(addr.port)

-----------------------------------------------------------------------------
(* greeting.rs and auth_negotiation.rs                                     *)

\* Mutant: whatever has arrived with the greeting is taken for methods.
greeting_read_from_greedy(bytes) ==
    Versioned(bytes, SOCKS_VERSION, "unsupported_version",
        Having(bytes, 2,
            IF bytes[2] = 0 THEN Error("no_methods", 2)
            ELSE Having(bytes, 2 + bytes[2],
                        Value(SubSeq(bytes, 3, Len(bytes)), Len(bytes)))))

greeting_read_from(bytes) ==
    Versioned(bytes, SOCKS_VERSION, "unsupported_version",
        Having(bytes, 2,
            IF bytes[2] = 0 THEN Error("no_methods", 2) ELSE read_u8_prefixed(bytes, 2)))

greeting_encode(methods) == push_u8_prefixed(Value(<<SOCKS_VERSION>>, 0), methods)

offers(methods, method) == \E i \in DOMAIN methods : methods[i] = method

\* MethodSelection and UserPassResponse: a version and one more byte.
method_selection_encode(method) == <<SOCKS_VERSION, method>>

method_selection_read_from(bytes) ==
    Versioned(bytes, SOCKS_VERSION, "unsupported_version",
        Having(bytes, 2, Value(bytes[2], 2)))

user_pass_response_encode(status) == <<AUTH_VERSION, status>>

user_pass_response_read_from(bytes) ==
    Versioned(bytes, AUTH_VERSION, "unsupported_auth_version",
        Having(bytes, 2, Value(bytes[2], 2)))

user_pass_read_from(bytes) ==
    LET pair(u, p) == Value([username |-> u.value, password |-> p.value], p.used)
        password(u) == AndThen(read_u8_prefixed(bytes, u.used + 1), LAMBDA p : pair(u, p))
    IN  Versioned(bytes, AUTH_VERSION, "unsupported_auth_version",
            AndThen(read_u8_prefixed(bytes, 2), password))

user_pass_encode(credentials) ==
    push_u8_prefixed(push_u8_prefixed(Value(<<AUTH_VERSION>>, 0), credentials.username),
                     credentials.password)

-----------------------------------------------------------------------------
(* target_addr.rs: [ip, port], or [host, port] for a domain.               *)

\* Letters, digits, and the bytes of "-_.:".
DomainByte == 97 .. 122 \cup 65 .. 90 \cup 48 .. 57 \cup {45, 95, 46, 58}

parse_domain(raw, port, used) ==
    IF raw # <<>> /\ \A i \in DOMAIN raw : raw[i] \in DomainByte
    THEN Value([host |-> raw, port |-> port], used)
    ELSE Error("invalid_domain", used)

\* The address that follows the header of four bytes.
target_addr_read_from(bytes, address_type) ==
    LET ip(n) == Having(bytes, 6 + n,
                        Value([ip |-> SubSeq(bytes, 5, 4 + n),
                               port |-> PortAt(bytes, 5 + n)], 6 + n))
        domain(raw) == Having(bytes, raw.used + 2,
                              parse_domain(raw.value, PortAt(bytes, raw.used + 1), raw.used + 2))
    IN  IF address_type = ATYP_IPV4 THEN ip(4)
        ELSE IF address_type = ATYP_IPV6 THEN ip(16)
        ELSE IF address_type = ATYP_DOMAIN THEN AndThen(read_u8_prefixed(bytes, 5), domain)
        ELSE Error("unsupported_address_type", 4)

target_addr_encode(out, target) ==
    IF "ip" \in DOMAIN target THEN Value(out \o push_socket_addr(target), 0)
    ELSE AndThen(push_u8_prefixed(Value(out \o <<ATYP_DOMAIN>>, 0), target.host),
                 LAMBDA o : Value(o.value \o port_to_be_bytes(target.port), 0))

-----------------------------------------------------------------------------
(* request.rs and reply.rs                                                 *)

Commands == <<"connect", "bind", "udp_associate">>

\* Command::from_byte; an unknown command is its byte.
command_from_byte(value) ==
    IF value \in DOMAIN Commands THEN [name |-> Commands[value]] ELSE [byte |-> value]

command_as_byte(command) ==
    IF "byte" \in DOMAIN command THEN command.byte
    ELSE CHOOSE value \in DOMAIN Commands : Commands[value] = command.name

\* The header is read whole before its version is looked at; the reserved
\* byte is ignored.
request_read_from(bytes) ==
    Having(bytes, 4,
        IF bytes[1] # SOCKS_VERSION THEN Error("unsupported_version", 4)
        ELSE AndThen(target_addr_read_from(bytes, bytes[4]),
                     LAMBDA t : Value([command |-> command_from_byte(bytes[2]),
                                       target |-> t.value], t.used)))

request_encode(request) ==
    target_addr_encode(<<SOCKS_VERSION, command_as_byte(request.command), 0>>, request.target)

\* ReplyCode, in the order of its bytes from 0.
ReplyCodes == <<"succeeded", "general_failure", "not_allowed", "network_unreachable",
                "host_unreachable", "connection_refused", "ttl_expired",
                "command_not_supported", "address_type_not_supported">>

reply_code_from_byte(value) ==
    IF value + 1 \in DOMAIN ReplyCodes THEN [name |-> ReplyCodes[value + 1]]
    ELSE [unassigned |-> value]

reply_code_as_byte(code) ==
    IF "unassigned" \in DOMAIN code THEN code.unassigned
    ELSE (CHOOSE i \in DOMAIN ReplyCodes : ReplyCodes[i] = code.name) - 1

Unspecified == <<0, 0, 0, 0>>

\* Reply::new
reply_new(code) == [code |-> code, bind_addr |-> [ip |-> Unspecified, port |-> 0]]

reply_encode(reply) ==
    <<SOCKS_VERSION, reply_code_as_byte(reply.code), 0>> \o push_socket_addr(reply.bind_addr)

\* A bind address that is a domain is read as 0.0.0.0.
reply_read_from(bytes) ==
    LET bind_addr(t) == [ip |-> IF "ip" \in DOMAIN t THEN t.ip ELSE Unspecified, port |-> t.port] IN
    Having(bytes, 4,
        IF bytes[1] # SOCKS_VERSION THEN Error("unsupported_version", 4)
        ELSE AndThen(target_addr_read_from(bytes, bytes[4]),
                     LAMBDA t : Value([code |-> reply_code_from_byte(bytes[2]),
                                       bind_addr |-> bind_addr(t.value)], t.used)))
=============================================================================
