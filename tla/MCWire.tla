------------------------------- MODULE MCWire -------------------------------
(* The codec of Wire: messages with fields at the limits of their length, and *)
(* bytes that are no message at all.                                          *)
EXTENDS WireMessages, Question

Letters(n) == [i \in 1 .. n |-> 97]

FieldLengths == {0, 1, 255, 256}

Ports == {0, 80, 255, 256, 65535}

SocketAddrs == [ip : {<<127, 0, 0, 1>>, [i \in 1 .. 16 |-> i]}, port : Ports]

Domains == [host : {Letters(n) : n \in FieldLengths} \cup {<<45, 46, 58>>, <<97, 0>>}, port : Ports]

\* Messages by the type that reads them.
Messages ==
    [greeting |-> {[i \in 1 .. n |-> 255 - (i % 3)] : n \in FieldLengths},
     method_selection |-> {METHOD_USER_PASS, METHOD_NO_ACCEPTABLE},
     user_pass |-> [username : {Letters(n) : n \in FieldLengths},
                    password : {Letters(n) : n \in FieldLengths}],
     user_pass_response |-> {AUTH_STATUS_SUCCESS, AUTH_STATUS_FAILURE, 255},
     request |-> [command : {command_from_byte(b) : b \in {0, 1, 2, 3, 4, 255}},
                  target : SocketAddrs \cup Domains],
     reply |-> [code : {reply_code_from_byte(b) : b \in 0 .. 255}, bind_addr : SocketAddrs]]

MessageInit ==
    \E type \in DOMAIN Messages : \E m \in Messages[type] :
        question = [about |-> "message", type |-> type, message |-> m]

\* What one side encodes the other side reads, to the byte: a message is read
\* back as it was, not before its last byte is there, and whatever has arrived
\* behind it is left in the stream (a client may send its first data together
\* with its request).  Only a field of more than 255 bytes cannot be encoded;
\* only an empty list of methods and a bad domain are refused by the reader.
MessagesSurvive ==
    Asked("message") =>
    LET type == question.type
        m == question.message
        encoded == Encode(type, m)
        bytes == encoded.value
        read(b) == ReadFrom(type, b)
    IN  IF LongestField(type, m) > 255 THEN encoded = Error("field_too_long", 0)
        ELSE /\ \A n \in 0 .. Len(bytes) - 1 : read(SubSeq(bytes, 1, n)) = More
             /\ \A tail \in {<<>>, <<5>>, bytes} :
                   read(bytes \o tail) =
                      IF OffersNothing(type, m) THEN Error("no_methods", Len(bytes))
                      ELSE IF NamesBadDomain(type, m) THEN Error("invalid_domain", Len(bytes))
                      ELSE Value(m, Len(bytes))

GarbageInit ==
    \E type \in DOMAIN Messages, n \in 0 .. 6 : \E bytes \in [1 .. n -> {0, 1, 3, 5, 97}] :
        question = [about |-> "garbage", type |-> type, bytes |-> bytes]

\* A read decides as early as it can and for good: what it makes of some bytes
\* does not change with the bytes that come later or how they are cut into
\* segments, and it takes no byte that has not arrived.
ReadsDecideOnce ==
    Asked("garbage") =>
    LET bytes == question.bytes
        read(n) == ReadFrom(question.type, SubSeq(bytes, 1, n))
    IN  \A n \in 0 .. Len(bytes) :
            read(n) # More =>
                /\ read(n).used <= n
                /\ read(Len(bytes)) = read(n)
=============================================================================
