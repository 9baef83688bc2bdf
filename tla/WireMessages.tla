---------------------------- MODULE WireMessages ----------------------------
(***************************************************************************)
(* The messages of Wire by the type that reads and encodes them, and all   *)
(* that these types can hold.                                              *)
(***************************************************************************)
EXTENDS Wire

Byte == {n \in Nat : n < 256}
Port == {n \in Nat : n < 65536}
IpAddr == {ip \in Seq(Byte) : Len(ip) = 4 \/ Len(ip) = 16}
SocketAddr == [ip : IpAddr, port : Port]
DomainAddr == [host : Seq(Byte), port : Port]
Command == {command_from_byte(b) : b \in Byte}
ReplyCode == {reply_code_from_byte(b) : b \in Byte}

Types == {"greeting", "method_selection", "user_pass", "user_pass_response", "request", "reply"}

Message(type) ==
    IF type = "greeting" THEN Seq(Byte)
    ELSE IF type = "user_pass" THEN [username : Seq(Byte), password : Seq(Byte)]
    ELSE IF type = "request" THEN [command : Command, target : SocketAddr \cup DomainAddr]
    ELSE IF type = "reply" THEN [code : ReplyCode, bind_addr : SocketAddr]
    ELSE Byte

Encode(type, m) ==
    IF type = "greeting" THEN greeting_encode(m)
    ELSE IF type = "method_selection" THEN Value(method_selection_encode(m), 0)
    ELSE IF type = "user_pass" THEN user_pass_encode(m)
    ELSE IF type = "user_pass_response" THEN Value(user_pass_response_encode(m), 0)
    ELSE IF type = "request" THEN request_encode(m)
    ELSE Value(reply_encode(m), 0)

ReadFrom(type, bytes) ==
    IF type = "greeting" THEN greeting_read_from(bytes)
    ELSE IF type = "method_selection" THEN method_selection_read_from(bytes)
    ELSE IF type = "user_pass" THEN user_pass_read_from(bytes)
    ELSE IF type = "user_pass_response" THEN user_pass_response_read_from(bytes)
    ELSE IF type = "request" THEN request_read_from(bytes)
    ELSE reply_read_from(bytes)

\* The longest field of a message.
LongestField(type, m) ==
    IF type = "greeting" THEN Len(m)
    ELSE IF type = "user_pass"
    THEN IF Len(m.username) > Len(m.password) THEN Len(m.username) ELSE Len(m.password)
    ELSE IF type = "request" /\ "host" \in DOMAIN m.target THEN Len(m.target.host)
    ELSE 0

OffersNothing(type, m) == type = "greeting" /\ m = <<>>

\* A request for a domain that is empty or has a byte no host name has.
NamesBadDomain(type, m) ==
    /\ type = "request"
    /\ "host" \in DOMAIN m.target
    /\ \/ m.target.host = <<>>
       \/ \E i \in 1 .. Len(m.target.host) : m.target.host[i] \notin DomainByte
=============================================================================
