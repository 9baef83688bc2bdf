--------------------------- MODULE HandshakeProofs --------------------------
(***************************************************************************)
(* What the two ends of a handshake rest on: the codec, for all bytes and  *)
(* all messages, and the check of a login, for all lists of users.         *)
(***************************************************************************)
EXTENDS WireMessages, UserStore, TLAPS

\* `later` is what has arrived some time after `bytes`.
Grown(bytes, later) ==
    /\ bytes \in Seq(Byte) /\ later \in Seq(Byte)
    /\ Len(bytes) <= Len(later)
    /\ \A i \in 1 .. Len(bytes) : later[i] = bytes[i]

\* A read that has decided on the first k bytes.
Settled(read, k) ==
    /\ read.is = "value" \/ read.is = "error"
    /\ read.used \in Nat
    /\ read.used <= k

\* A read of `bytes` is over for good, or waits.
Final(read, k, readLater) ==
    \/ read = More
    \/ Settled(read, k) /\ readLater = read

-----------------------------------------------------------------------------
\* The fields of what a read gives.
LEMMA Results ==
    /\ More.is = "more"
    /\ \A v, n : Value(v, n).is = "value" /\ Value(v, n).value = v /\ Value(v, n).used = n
    /\ \A e, n : Error(e, n).is = "error" /\ Error(e, n).error = e /\ Error(e, n).used = n
BY DEF More, Value, Error

\* Bytes are numbers.
LEMMA ByteOf ==
    ASSUME NEW s \in Seq(Byte), NEW i \in Nat, 1 <= i, i <= Len(s)
    PROVE  s[i] \in Byte /\ s[i] \in Nat /\ s[i] < 256
<1>1. i \in 1 .. Len(s)
  OBVIOUS
<1>2. s[i] \in Byte
  BY <1>1
<1> QED
  BY <1>2 DEF Byte

\* Bytes that have arrived stay.
LEMMA Stays ==
    ASSUME NEW bytes, NEW later, Grown(bytes, later)
    PROVE  /\ bytes \in Seq(Byte) /\ later \in Seq(Byte) /\ Len(bytes) \in Nat /\ Len(later) \in Nat
           /\ Len(bytes) <= Len(later)
           /\ \A i \in Nat : 1 <= i /\ i <= Len(bytes) => later[i] = bytes[i] /\ bytes[i] \in Nat
<1>1. bytes \in Seq(Byte) /\ later \in Seq(Byte) /\ Len(bytes) \in Nat /\ Len(later) \in Nat
  BY DEF Grown
<1>2. ASSUME NEW i \in Nat, 1 <= i, i <= Len(bytes)
      PROVE  later[i] = bytes[i] /\ bytes[i] \in Nat
  <2>1. i \in 1 .. Len(bytes)
    BY <1>1, <1>2
  <2> QED
    BY <1>1, <1>2, <2>1, ByteOf DEF Grown
<1> QED
  BY <1>1, <1>2 DEF Grown

\* So do the parts of them.
LEMMA SamePart ==
    ASSUME NEW bytes, NEW later, Grown(bytes, later), NEW i \in Nat, NEW j \in Nat, 1 <= i, j <= Len(bytes)
    PROVE  SubSeq(later, i, j) = SubSeq(bytes, i, j)
<1>1. /\ bytes \in Seq(Byte) /\ later \in Seq(Byte) /\ Len(bytes) \in Nat
      /\ \A k \in Nat : 1 <= k /\ k <= Len(bytes) => later[k] = bytes[k]
  BY Stays
<1>2. \A k \in 1 .. j - i + 1 : later[i + k - 1] = bytes[i + k - 1]
  BY <1>1
<1> QED
  BY <1>1, <1>2

-----------------------------------------------------------------------------
\* A read that needs n bytes.
LEMMA HavingIsFinal ==
    ASSUME NEW bytes, NEW later, Grown(bytes, later), NEW n \in Nat, NEW r, NEW rl,
           n <= Len(bytes) => Final(r, Len(bytes), rl)
    PROVE  Final(Having(bytes, n, r), Len(bytes), Having(later, n, rl))
<1>1. Len(bytes) \in Nat /\ Len(later) \in Nat /\ Len(bytes) <= Len(later)
  BY Stays
<1>2. CASE n <= Len(bytes)
  <2>1. Having(bytes, n, r) = r /\ Having(later, n, rl) = rl
    BY <1>1, <1>2 DEF Having
  <2> QED
    BY <1>2, <2>1
<1>3. CASE ~(n <= Len(bytes))
  BY <1>1, <1>3 DEF Having, Final
<1> QED
  BY <1>2, <1>3

\* Results are final when they take no more than there is.
LEMMA ValueIsFinal ==
    ASSUME NEW v, NEW n \in Nat, NEW k \in Nat, n <= k
    PROVE  Final(Value(v, n), k, Value(v, n)) /\ Final(Error(v, n), k, Error(v, n))
BY Results DEF Final, Settled

\* A field with its length in front of it.
LEMMA FieldIsFinal ==
    ASSUME NEW bytes, NEW later, Grown(bytes, later), NEW at \in Nat, 1 <= at
    PROVE  /\ Final(read_u8_prefixed(bytes, at), Len(bytes), read_u8_prefixed(later, at))
           /\ read_u8_prefixed(bytes, at) # More => read_u8_prefixed(bytes, at).is = "value"
<1> DEFINE last == at + bytes[at]
           r == Having(bytes, last, Value(SubSeq(bytes, at + 1, last), last))
           rl == Having(later, at + later[at], Value(SubSeq(later, at + 1, at + later[at]), at + later[at]))
<1>1. Len(bytes) \in Nat
  BY Stays
<1>2. ASSUME at <= Len(bytes)
      PROVE  Final(r, Len(bytes), rl)
  <2>1. later[at] = bytes[at] /\ last \in Nat
    BY <1>2, Stays
  <2>2. ASSUME last <= Len(bytes)
        PROVE  Final(Value(SubSeq(bytes, at + 1, last), last), Len(bytes),
                     Value(SubSeq(later, at + 1, last), last))
    <3>1. SubSeq(later, at + 1, last) = SubSeq(bytes, at + 1, last)
      <4>1. ASSUME NEW i \in Nat, NEW j \in Nat, 1 <= i, j <= Len(bytes)
            PROVE  SubSeq(later, i, j) = SubSeq(bytes, i, j)
        BY <4>1, SamePart, Zenon
      <4>2. at + 1 \in Nat /\ 1 <= at + 1
        BY SMT
      <4> HIDE DEF last
      <4> QED
        BY <2>1, <2>2, <4>1, <4>2, Zenon
    <3> QED
      BY <1>1, <2>1, <2>2, <3>1, ValueIsFinal, Zenon
  <2> QED
    BY <2>1, <2>2, HavingIsFinal, Zenon
<1>3. read_u8_prefixed(bytes, at) = Having(bytes, at, r) /\ read_u8_prefixed(later, at) = Having(later, at, rl)
  BY DEF read_u8_prefixed
<1>4. Final(Having(bytes, at, r), Len(bytes), Having(later, at, rl))
  <2> HIDE DEF r, rl
  <2> QED
    BY <1>2, HavingIsFinal, Zenon
<1>5. Having(bytes, at, r) # More => Having(bytes, at, r).is = "value"
  BY Results DEF Having
<1> QED
  BY <1>3, <1>4, <1>5

\* A version in front.
LEMMA VersionedIsFinal ==
    ASSUME NEW bytes, NEW later, Grown(bytes, later), NEW version, NEW error, NEW r, NEW rl,
           1 <= Len(bytes) => Final(r, Len(bytes), rl)
    PROVE  Final(Versioned(bytes, version, error, r), Len(bytes), Versioned(later, version, error, rl))
<1> DEFINE b == IF bytes[1] = version THEN r ELSE Error(error, 1)
           l == IF later[1] = version THEN rl ELSE Error(error, 1)
<1>1. ASSUME 1 <= Len(bytes)
      PROVE  Final(b, Len(bytes), l)
  <2>1. later[1] = bytes[1] /\ Len(bytes) \in Nat
    BY <1>1, Stays
  <2>2. Final(Error(error, 1), Len(bytes), Error(error, 1))
    BY <1>1, <2>1, ValueIsFinal
  <2> QED
    BY <1>1, <2>1, <2>2
<1>2. /\ Versioned(bytes, version, error, r) = Having(bytes, 1, b)
      /\ Versioned(later, version, error, rl) = Having(later, 1, l)
  BY DEF Versioned
<1> HIDE DEF b, l
<1> QED
  BY <1>1, <1>2, HavingIsFinal

\* Greeting::read_from
LEMMA GreetingIsFinal ==
    ASSUME NEW bytes, NEW later, Grown(bytes, later)
    PROVE  Final(greeting_read_from(bytes), Len(bytes), greeting_read_from(later))
<1> DEFINE Rest(b) == IF b[2] = 0 THEN Error("no_methods", 2) ELSE read_u8_prefixed(b, 2)
<1>1. ASSUME 2 <= Len(bytes)
      PROVE  Final(Rest(bytes), Len(bytes), Rest(later))
  <2>1. later[2] = bytes[2] /\ Len(bytes) \in Nat
    BY <1>1, Stays
  <2>2. Final(Error("no_methods", 2), Len(bytes), Error("no_methods", 2))
    BY <1>1, <2>1, ValueIsFinal
  <2>3. Final(read_u8_prefixed(bytes, 2), Len(bytes), read_u8_prefixed(later, 2))
    BY FieldIsFinal
  <2> QED
    BY <2>1, <2>2, <2>3
<1>2. \A b : greeting_read_from(b) =
                Versioned(b, SOCKS_VERSION, "unsupported_version", Having(b, 2, Rest(b)))
  BY DEF greeting_read_from
<1> HIDE DEF Rest
<1>3. Final(Having(bytes, 2, Rest(bytes)), Len(bytes), Having(later, 2, Rest(later)))
  BY <1>1, HavingIsFinal
<1> QED
  BY <1>2, <1>3, VersionedIsFinal

\* MethodSelection::read_from and UserPassResponse::read_from
LEMMA AnswerIsFinal ==
    ASSUME NEW bytes, NEW later, Grown(bytes, later)
    PROVE  /\ Final(method_selection_read_from(bytes), Len(bytes), method_selection_read_from(later))
           /\ Final(user_pass_response_read_from(bytes), Len(bytes), user_pass_response_read_from(later))
<1> DEFINE Rest(b) == Having(b, 2, Value(b[2], 2))
<1>1. Final(Rest(bytes), Len(bytes), Rest(later))
  <2>1. ASSUME 2 <= Len(bytes)
        PROVE  Final(Value(bytes[2], 2), Len(bytes), Value(later[2], 2))
    <3>1. later[2] = bytes[2] /\ Len(bytes) \in Nat
      BY <2>1, Stays
    <3> QED
      BY <2>1, <3>1, ValueIsFinal
  <2> QED
    BY <2>1, HavingIsFinal
<1>2. \A b : /\ method_selection_read_from(b) =
                   Versioned(b, SOCKS_VERSION, "unsupported_version", Rest(b))
             /\ user_pass_response_read_from(b) =
                   Versioned(b, AUTH_VERSION, "unsupported_auth_version", Rest(b))
  BY DEF method_selection_read_from, user_pass_response_read_from
<1> HIDE DEF Rest
<1> QED
  BY <1>1, <1>2, VersionedIsFinal

\* UserPassRequest::read_from
LEMMA UserPassIsFinal ==
    ASSUME NEW bytes, NEW later, Grown(bytes, later)
    PROVE  Final(user_pass_read_from(bytes), Len(bytes), user_pass_read_from(later))
<1> DEFINE Field(b, at) == read_u8_prefixed(b, at)
           Pair(u, p) == IF p.is = "value"
                         THEN Value([username |-> u.value, password |-> p.value], p.used) ELSE p
           Rest(b) == IF Field(b, 2).is = "value"
                      THEN Pair(Field(b, 2), Field(b, Field(b, 2).used + 1)) ELSE Field(b, 2)
<1>1. \A b : user_pass_read_from(b) =
                Versioned(b, AUTH_VERSION, "unsupported_auth_version", Rest(b))
  BY DEF user_pass_read_from, AndThen
<1>2. Len(bytes) \in Nat
  BY Stays
<1>3. Final(Field(bytes, 2), Len(bytes), Field(later, 2))
  BY FieldIsFinal
<1>4. ASSUME NEW at \in Nat, 1 <= at, NEW u
      PROVE  Final(Pair(u, Field(bytes, at)), Len(bytes), Pair(u, Field(later, at)))
  <2> DEFINE p == Field(bytes, at)
  <2>1. Final(p, Len(bytes), Field(later, at))
    BY <1>4, FieldIsFinal
  <2> HIDE DEF p
  <2>2. CASE p = More
    BY <2>2, Results DEF Final, p
  <2>3. CASE p # More /\ p.is = "value"
    <3>1. Field(later, at) = p /\ p.used \in Nat /\ p.used <= Len(bytes)
      BY <2>1, <2>3 DEF Final, Settled
    <3> QED
      BY <1>2, <2>3, <3>1, ValueIsFinal DEF p
  <2>4. CASE p # More /\ p.is # "value"
    BY <2>1, <2>4 DEF p, Final
  <2> QED
    BY <2>2, <2>3, <2>4
<1>5. Final(Rest(bytes), Len(bytes), Rest(later))
  <2> DEFINE u == Field(bytes, 2)
  <2> HIDE DEF Pair
  <2>1. CASE u = More
    BY <2>1, Results DEF Final
  <2>2. CASE u # More
    <3>1. Field(later, 2) = u /\ u.used \in Nat
      BY <1>3, <2>2 DEF Final, Settled
    <3>2. CASE u.is = "value"
      <4>1. u.used + 1 \in Nat /\ 1 <= u.used + 1
        BY <3>1
      <4>2. Rest(bytes) = Pair(u, Field(bytes, u.used + 1)) /\ Rest(later) = Pair(u, Field(later, u.used + 1))
        BY <3>1, <3>2
      <4> HIDE DEF Rest, Field, u
      <4> QED
        BY <1>4, <4>1, <4>2
    <3>3. CASE u.is # "value"
      BY <1>3, <3>1, <3>3
    <3> QED
      BY <3>2, <3>3
  <2> QED
    BY <2>1, <2>2
<1> HIDE DEF Rest
<1> QED
  BY <1>1, <1>5, VersionedIsFinal

\* TargetAddr::read_from
LEMMA TargetIsFinal ==
    ASSUME NEW bytes, NEW later, Grown(bytes, later), NEW type, 4 <= Len(bytes)
    PROVE  Final(target_addr_read_from(bytes, type), Len(bytes), target_addr_read_from(later, type))
<1> DEFINE Ip(b, n) == Having(b, 6 + n, Value([ip |-> SubSeq(b, 5, 4 + n),
                                                port |-> PortAt(b, 5 + n)], 6 + n))
           Name(b, raw) == Having(b, raw.used + 2,
                               parse_domain(raw.value, PortAt(b, raw.used + 1), raw.used + 2))
           Raw(b) == read_u8_prefixed(b, 5)
           Domain(b) == IF Raw(b).is = "value" THEN Name(b, Raw(b)) ELSE Raw(b)
<1>1. \A b : target_addr_read_from(b, type) =
                IF type = ATYP_IPV4 THEN Ip(b, 4)
                ELSE IF type = ATYP_IPV6 THEN Ip(b, 16)
                ELSE IF type = ATYP_DOMAIN THEN Domain(b)
                ELSE Error("unsupported_address_type", 4)
  BY DEF target_addr_read_from, AndThen
<1>2. Len(bytes) \in Nat
  BY Stays
<1>3. ASSUME NEW at \in Nat, 1 <= at, at + 1 <= Len(bytes)
      PROVE  PortAt(later, at) = PortAt(bytes, at)
  BY <1>3, Stays DEF PortAt
<1>4. ASSUME NEW n \in Nat
      PROVE  Final(Ip(bytes, n), Len(bytes), Ip(later, n))
  <2> DEFINE V(b) == Value([ip |-> SubSeq(b, 5, 4 + n), port |-> PortAt(b, 5 + n)], 6 + n)
  <2>1. ASSUME 6 + n <= Len(bytes)
        PROVE  Final(V(bytes), Len(bytes), V(later))
    <3>1. SubSeq(later, 5, 4 + n) = SubSeq(bytes, 5, 4 + n)
      BY <1>2, <2>1, SamePart
    <3>2. PortAt(later, 5 + n) = PortAt(bytes, 5 + n)
      BY <1>2, <1>3, <2>1
    <3>3. V(later) = V(bytes)
      BY <3>1, <3>2, Zenon
    <3>4. 6 + n \in Nat
      OBVIOUS
    <3> QED
      BY <1>2, <2>1, <3>3, <3>4, ValueIsFinal, Zenon
  <2> HIDE DEF V
  <2>2. Final(Having(bytes, 6 + n, V(bytes)), Len(bytes), Having(later, 6 + n, V(later)))
    BY <2>1, HavingIsFinal
  <2> QED
    BY <2>2 DEF V
<1>5. ASSUME NEW raw, raw.used \in Nat
      PROVE  Final(Name(bytes, raw), Len(bytes), Name(later, raw))
  <2> DEFINE V(b) == parse_domain(raw.value, PortAt(b, raw.used + 1), raw.used + 2)
  <2>1. ASSUME raw.used + 2 <= Len(bytes)
        PROVE  Final(V(bytes), Len(bytes), V(later))
    <3>1. PortAt(later, raw.used + 1) = PortAt(bytes, raw.used + 1)
      BY <1>2, <1>3, <1>5, <2>1
    <3>2. \/ \E v : V(bytes) = Value(v, raw.used + 2)
          \/ \E e : V(bytes) = Error(e, raw.used + 2)
      BY DEF parse_domain
    <3> QED
      BY <1>2, <1>5, <2>1, <3>1, <3>2, ValueIsFinal
  <2> HIDE DEF V
  <2>2. Final(Having(bytes, raw.used + 2, V(bytes)), Len(bytes), Having(later, raw.used + 2, V(later)))
    <3> DEFINE k == raw.used + 2
    <3>1. k \in Nat
      BY <1>5
    <3> HIDE DEF k
    <3>2. k <= Len(bytes) => Final(V(bytes), Len(bytes), V(later))
      BY <2>1 DEF k
    <3>3. Final(Having(bytes, k, V(bytes)), Len(bytes), Having(later, k, V(later)))
      BY <3>1, <3>2, HavingIsFinal
    <3> QED
      BY <3>3 DEF k
  <2> QED
    BY <2>2 DEF V
<1>6. Final(Domain(bytes), Len(bytes), Domain(later))
  <2> DEFINE raw == Raw(bytes)
  <2>1. Final(raw, Len(bytes), Raw(later))
    BY FieldIsFinal
  <2> HIDE DEF Name
  <2>2. CASE raw = More
    BY <2>2, Results DEF Final
  <2>3. CASE raw # More
    <3>1. Raw(later) = raw /\ raw.used \in Nat
      BY <2>1, <2>3 DEF Final, Settled
    <3>2. CASE raw.is = "value"
      <4>1. Domain(bytes) = Name(bytes, raw) /\ Domain(later) = Name(later, raw)
        BY <3>1, <3>2
      <4> HIDE DEF Domain, Raw, raw
      <4> QED
        BY <1>5, <3>1, <4>1
    <3>3. CASE raw.is # "value"
      BY <2>1, <3>1, <3>3
    <3> QED
      BY <3>2, <3>3
  <2> QED
    BY <2>2, <2>3
<1>7. Final(Error("unsupported_address_type", 4), Len(bytes), Error("unsupported_address_type", 4))
  BY <1>2, ValueIsFinal
<1> HIDE DEF Ip, Domain
<1> QED
  BY <1>1, <1>4, <1>6, <1>7

\* Request::read_from and Reply::read_from
LEMMA RequestIsFinal ==
    ASSUME NEW bytes, NEW later, Grown(bytes, later)
    PROVE  /\ Final(request_read_from(bytes), Len(bytes), request_read_from(later))
           /\ Final(reply_read_from(bytes), Len(bytes), reply_read_from(later))
<1> DEFINE Target(b) == target_addr_read_from(b, b[4])
           Bind(t) == [ip |-> IF "ip" \in DOMAIN t THEN t.ip ELSE Unspecified, port |-> t.port]
           Asks(b) == IF Target(b).is = "value"
                      THEN Value([command |-> command_from_byte(b[2]), target |-> Target(b).value],
                                 Target(b).used)
                      ELSE Target(b)
           Says(b) == IF Target(b).is = "value"
                      THEN Value([code |-> reply_code_from_byte(b[2]), bind_addr |-> Bind(Target(b).value)],
                                 Target(b).used)
                      ELSE Target(b)
           Header(b, rest) == IF b[1] # SOCKS_VERSION THEN Error("unsupported_version", 4) ELSE rest
<1>1. \A b : /\ request_read_from(b) = Having(b, 4, Header(b, Asks(b)))
             /\ reply_read_from(b) = Having(b, 4, Header(b, Says(b)))
  BY DEF request_read_from, reply_read_from, AndThen
<1>2. ASSUME 4 <= Len(bytes)
      PROVE  /\ Final(Header(bytes, Asks(bytes)), Len(bytes), Header(later, Asks(later)))
             /\ Final(Header(bytes, Says(bytes)), Len(bytes), Header(later, Says(later)))
  <2>1. Len(bytes) \in Nat /\ later[1] = bytes[1] /\ later[2] = bytes[2] /\ later[4] = bytes[4]
    BY <1>2, Stays
  <2>2. Final(Target(bytes), Len(bytes), Target(later))
    BY <1>2, <2>1, TargetIsFinal
  <2>3. Final(Asks(bytes), Len(bytes), Asks(later)) /\ Final(Says(bytes), Len(bytes), Says(later))
    <3> HIDE DEF Target, Bind
    <3>1. CASE Target(bytes) = More
      BY <3>1, Results DEF Final
    <3>2. CASE Target(bytes) # More
      <4>1. /\ Target(later) = Target(bytes)
            /\ Target(bytes).used \in Nat /\ Target(bytes).used <= Len(bytes)
        BY <2>2, <3>2 DEF Final, Settled
      <4>2. CASE Target(bytes).is = "value"
        BY <2>1, <4>1, <4>2, ValueIsFinal
      <4>3. CASE Target(bytes).is # "value"
        BY <2>2, <4>1, <4>3
      <4> QED
        BY <4>2, <4>3
    <3> QED
      BY <3>1, <3>2
  <2>4. Final(Error("unsupported_version", 4), Len(bytes), Error("unsupported_version", 4))
    BY <1>2, <2>1, ValueIsFinal
  <2> HIDE DEF Asks, Says
  <2> QED
    BY <2>1, <2>3, <2>4
<1> HIDE DEF Header, Asks, Says
<1> QED
  BY <1>1, <1>2, HavingIsFinal

-----------------------------------------------------------------------------
(* Messages: all that the types of the code can hold.                      *)

\* What the reader makes of message m in n bytes.
Expected(type, m, n) ==
    IF OffersNothing(type, m) THEN Error("no_methods", n)
    ELSE IF NamesBadDomain(type, m) THEN Error("invalid_domain", n)
    ELSE Value(m, n)

\* b is the encoding of m, and is read as m to its last byte.
Encodes(type, m, encoded) ==
    \E b \in Seq(Byte) : encoded = Value(b, 0) /\ ReadFrom(type, b) = Expected(type, m, Len(b))

-----------------------------------------------------------------------------
\* What concatenation does.
LEMMA Joined ==
    \A s, t \in Seq(Byte) :
        /\ s \o t \in Seq(Byte) /\ Len(s \o t) = Len(s) + Len(t)
        /\ \A i \in 1 .. Len(s) : (s \o t)[i] = s[i]
        /\ \A i \in 1 .. Len(t) : (s \o t)[Len(s) + i] = t[i]
OBVIOUS

\* A part of a sequence is another one when its elements are.
LEMMA Part ==
    ASSUME NEW s \in Seq(Byte), NEW t \in Seq(Byte), NEW k \in Nat, k + Len(t) <= Len(s),
           \A i \in 1 .. Len(t) : s[k + i] = t[i]
    PROVE  SubSeq(s, k + 1, k + Len(t)) = t
<1> DEFINE q == SubSeq(s, k + 1, k + Len(t))
<1>1. Len(s) \in Nat /\ Len(t) \in Nat
  OBVIOUS
<1>2. q \in Seq(Byte) /\ Len(q) = Len(t) /\ \A i \in 1 .. Len(t) : q[i] = s[k + i]
  BY <1>1
<1> HIDE DEF q
<1>3. q = t
  BY <1>2
<1> QED
  BY <1>3 DEF q

\* push_u8_prefixed and read_u8_prefixed, whatever is there before and after.
Framed(pre, field) == pre \o <<Len(field)>> \o field

Frames(b, pre, field) ==
    /\ pre \in Seq(Byte) /\ field \in Seq(Byte) /\ Len(field) <= 255
    /\ b = Framed(pre, field)

Unframes(later, b, pre, field) ==
    /\ b \in Seq(Byte) /\ Len(b) = Len(pre) + 1 + Len(field)
    /\ \A i \in 1 .. Len(pre) : b[i] = pre[i]
    /\ b[Len(pre) + 1] = Len(field)
    /\ read_u8_prefixed(later, Len(pre) + 1) = Value(field, Len(b))

\* push_u8_prefixed and read_u8_prefixed agree, whatever has arrived after the field.
LEMMA FieldIsRead ==
    ASSUME NEW pre, NEW field, NEW b, Frames(b, pre, field), NEW later, Grown(b, later)
    PROVE  Unframes(later, b, pre, field)
<1> pre \in Seq(Byte) /\ field \in Seq(Byte) /\ Len(field) <= 255 /\ b = Framed(pre, field)
  BY DEF Frames
<1> DEFINE one == <<Len(field)>>
           head == pre \o one
<1>1. one \in Seq(Byte) /\ Len(one) = 1 /\ one[1] = Len(field) /\ Len(field) \in Nat /\ Len(pre) \in Nat
  BY DEF Byte
<1> HIDE DEF one
<1>2. /\ head \in Seq(Byte) /\ Len(head) = Len(pre) + 1
      /\ (\A i \in 1 .. Len(pre) : head[i] = pre[i]) /\ head[Len(pre) + 1] = Len(field)
  <2>1. /\ head \in Seq(Byte) /\ Len(head) = Len(pre) + Len(one)
        /\ \A i \in 1 .. Len(pre) : head[i] = pre[i]
        /\ \A i \in 1 .. Len(one) : head[Len(pre) + i] = one[i]
    BY <1>1, Joined, Zenon
  <2>2. 1 \in 1 .. Len(one)
    BY <1>1
  <2> HIDE DEF head
  <2> QED
    BY <1>1, <2>1, <2>2
<1>3. b = head \o field
  BY DEF head, one, Framed
<1> HIDE DEF head
<1>4. /\ b \in Seq(Byte) /\ Len(b) = Len(head) + Len(field)
      /\ \A i \in 1 .. Len(head) : b[i] = head[i]
      /\ \A i \in 1 .. Len(field) : b[Len(head) + i] = field[i]
  <2> DEFINE c == head \o field
  <2>1. /\ c \in Seq(Byte) /\ Len(c) = Len(head) + Len(field)
        /\ \A i \in 1 .. Len(head) : c[i] = head[i]
        /\ \A i \in 1 .. Len(field) : c[Len(head) + i] = field[i]
    BY <1>2, Joined, Zenon
  <2>2. c = b
    BY <1>3
  <2> HIDE DEF c
  <2> QED
    BY <2>1, <2>2
<1>5. SubSeq(b, Len(head) + 1, Len(head) + Len(field)) = field
  <2>1. Len(head) \in Nat /\ Len(head) + Len(field) <= Len(b)
    BY <1>1, <1>2, <1>4
  <2> QED
    BY <1>4, <2>1, Part, Zenon
<1>6. /\ (\A i \in 1 .. Len(pre) : b[i] = pre[i]) /\ b[Len(pre) + 1] = Len(field)
      /\ Len(b) = Len(pre) + 1 + Len(field)
  BY <1>1, <1>2, <1>4
<1> DEFINE at == Len(pre) + 1
           last == at + Len(field)
<1>7. at \in Nat /\ last \in Nat /\ at >= 1 /\ Len(b) = last /\ at <= Len(b) /\ Len(head) = at
  BY <1>1, <1>2, <1>6
<1>8. read_u8_prefixed(b, at) = Value(field, last)
  <2>1. b[at] = Len(field) /\ SubSeq(b, at + 1, last) = field
    BY <1>2, <1>5, <1>6
  <2> HIDE DEF at
  <2>2. Having(b, last, Value(SubSeq(b, at + 1, last), last)) = Value(field, last)
    <3>1. ~(Len(b) < last)
      BY <1>7
    <3> QED
      BY <2>1, <3>1, Zenon DEF Having
  <2>3. read_u8_prefixed(b, at) = Having(b, at, Having(b, last, Value(SubSeq(b, at + 1, last), last)))
    BY <2>1 DEF read_u8_prefixed
  <2> QED
    BY <1>7, <2>2, <2>3 DEF Having
<1> HIDE DEF at, last
<1>9. read_u8_prefixed(later, at) = read_u8_prefixed(b, at)
  <2>1. read_u8_prefixed(b, at) # More
    BY <1>8, Results
  <2> QED
    BY <1>7, <2>1, FieldIsFinal DEF Final
<1> QED
  BY <1>4, <1>6, <1>7, <1>8, <1>9 DEF at, Unframes

\* What is read of a whole message is read of its beginning, and of what comes
\* after it, as MessagesSurvive says.
LEMMA ReadToTheByte ==
    ASSUME NEW type \in Types, NEW m, NEW b \in Seq(Byte),
           ReadFrom(type, b) = Expected(type, m, Len(b))
    PROVE  /\ \A n \in 0 .. Len(b) - 1 : ReadFrom(type, SubSeq(b, 1, n)) = More
           /\ \A t \in Seq(Byte) : ReadFrom(type, b \o t) = Expected(type, m, Len(b))
<1>1. \A s, t : Grown(s, t) => Final(ReadFrom(type, s), Len(s), ReadFrom(type, t))
  BY GreetingIsFinal, AnswerIsFinal, UserPassIsFinal, RequestIsFinal DEF ReadFrom, Types
<1>2. Expected(type, m, Len(b)) # More /\ Expected(type, m, Len(b)).used = Len(b)
  BY Results DEF Expected
<1>3. Len(b) \in Nat
  OBVIOUS
<1>4. ASSUME NEW n \in 0 .. Len(b) - 1
      PROVE  ReadFrom(type, SubSeq(b, 1, n)) = More
  <2> DEFINE s == SubSeq(b, 1, n)
  <2>1. s \in Seq(Byte) /\ Len(s) = n /\ \A i \in 1 .. n : b[i] = s[i]
    BY <1>3
  <2> HIDE DEF s
  <2>2. Grown(s, b)
    BY <1>3, <2>1 DEF Grown
  <2>3. Final(ReadFrom(type, s), n, ReadFrom(type, b))
    BY <1>1, <2>1, <2>2
  <2>4. ReadFrom(type, b).used = Len(b)
    BY <1>2
  <2>5. ReadFrom(type, s) = More
    BY <1>3, <2>3, <2>4 DEF Final, Settled
  <2> QED
    BY <2>5 DEF s
<1>5. ASSUME NEW t \in Seq(Byte)
      PROVE  ReadFrom(type, b \o t) = Expected(type, m, Len(b))
  <2> DEFINE c == b \o t
  <2>1. /\ c \in Seq(Byte) /\ Len(c) = Len(b) + Len(t) /\ Len(t) \in Nat
        /\ \A i \in 1 .. Len(b) : c[i] = b[i]
    BY Joined
  <2> HIDE DEF c
  <2>2. Grown(b, c)
    BY <1>3, <2>1 DEF Grown
  <2>3. Final(ReadFrom(type, b), Len(b), ReadFrom(type, c))
    BY <1>1, <2>2
  <2>4. ReadFrom(type, c) = ReadFrom(type, b)
    BY <1>2, <2>3 DEF Final
  <2> QED
    BY <2>4 DEF c
<1> QED
  BY <1>4, <1>5

\* Bytes have grown to themselves, and a field in front of them gives bytes.
LEMMA GrownRefl == ASSUME NEW b \in Seq(Byte) PROVE Grown(b, b)
BY DEF Grown

\* The bytes with a field behind them.
LEMMA FramedIsBytes ==
    ASSUME NEW pre \in Seq(Byte), NEW field \in Seq(Byte), Len(field) <= 255
    PROVE  Framed(pre, field) \in Seq(Byte)
<1>1. <<Len(field)>> \in Seq(Byte)
  BY DEF Byte
<1> QED
  BY <1>1, Joined, Zenon DEF Framed

\* Greeting, MethodSelection and UserPassResponse.
LEMMA GreetingSurvives ==
    ASSUME NEW m \in Seq(Byte), Len(m) <= 255
    PROVE  Encodes("greeting", m, greeting_encode(m))
<1> DEFINE pre == <<SOCKS_VERSION>>
           b == Framed(pre, m)
<1>1. pre \in Seq(Byte) /\ Len(pre) = 1 /\ pre[1] = SOCKS_VERSION /\ Len(pre) + 1 = 2
  BY DEF SOCKS_VERSION, Byte
<1>2. greeting_encode(m) = Value(b, 0)
  <2>1. ~(Len(m) > 255)
    OBVIOUS
  <2> QED
    BY <2>1, Results DEF greeting_encode, push_u8_prefixed, AndThen, Framed
<1> HIDE DEF pre
<1>3. b \in Seq(Byte)
  BY <1>1, FramedIsBytes
<1> HIDE DEF b
<1>4. /\ Len(b) = Len(pre) + 1 + Len(m)
      /\ \A i \in 1 .. Len(pre) : b[i] = pre[i]
      /\ b[Len(pre) + 1] = Len(m)
      /\ read_u8_prefixed(b, Len(pre) + 1) = Value(m, Len(b))
  <2>1. Frames(b, pre, m) /\ Grown(b, b)
    BY <1>1, <1>3, GrownRefl DEF b, Frames
  <2>2. Unframes(b, b, pre, m)
    BY <2>1, FieldIsRead, Zenon
  <2> QED
    BY <2>2, Zenon DEF Unframes
<1>5. /\ Len(b) = 2 + Len(m) /\ b[1] = SOCKS_VERSION /\ b[2] = Len(m)
      /\ read_u8_prefixed(b, 2) = Value(m, Len(b))
  BY <1>1, <1>4
<1>6. greeting_read_from(b) = IF Len(m) = 0 THEN Error("no_methods", 2) ELSE Value(m, Len(b))
  BY <1>5 DEF greeting_read_from, Versioned, Having
<1>7. m = <<>> <=> Len(m) = 0
  OBVIOUS
<1>8. ReadFrom("greeting", b) = Expected("greeting", m, Len(b))
  BY <1>5, <1>6, <1>7 DEF ReadFrom, Expected, OffersNothing, NamesBadDomain
<1> QED
  BY <1>2, <1>3, <1>8, Zenon DEF Encodes

\* The two-byte answers of the server.
LEMMA AnswerSurvives ==
    ASSUME NEW m \in Byte
    PROVE  /\ Encodes("method_selection", m, Value(method_selection_encode(m), 0))
           /\ Encodes("user_pass_response", m, Value(user_pass_response_encode(m), 0))
<1>1. ASSUME NEW version \in Byte, NEW error
      PROVE  LET b == <<version, m>> IN
             /\ b \in Seq(Byte) /\ Len(b) = 2
             /\ Versioned(b, version, error, Having(b, 2, Value(b[2], 2))) = Value(m, Len(b))
  BY DEF Versioned, Having
<1>2. SOCKS_VERSION \in Byte /\ AUTH_VERSION \in Byte
  BY DEF SOCKS_VERSION, AUTH_VERSION, Byte
<1>3. Encodes("method_selection", m, Value(method_selection_encode(m), 0))
  <2> DEFINE b == <<SOCKS_VERSION, m>>
  <2>1. b \in Seq(Byte) /\ method_selection_read_from(b) = Value(m, Len(b)) /\ method_selection_encode(m) = b
    BY <1>1, <1>2 DEF method_selection_read_from, method_selection_encode
  <2> HIDE DEF b
  <2>2. ReadFrom("method_selection", b) = Expected("method_selection", m, Len(b))
    BY <2>1 DEF ReadFrom, Expected, OffersNothing, NamesBadDomain
  <2> QED
    BY <2>1, <2>2, Zenon DEF Encodes
<1>4. Encodes("user_pass_response", m, Value(user_pass_response_encode(m), 0))
  <2> DEFINE b == <<AUTH_VERSION, m>>
  <2>1. b \in Seq(Byte) /\ user_pass_response_read_from(b) = Value(m, Len(b)) /\ user_pass_response_encode(m) = b
    BY <1>1, <1>2 DEF user_pass_response_read_from, user_pass_response_encode
  <2> HIDE DEF b
  <2>2. ReadFrom("user_pass_response", b) = Expected("user_pass_response", m, Len(b))
    BY <2>1 DEF ReadFrom, Expected, OffersNothing, NamesBadDomain
  <2> QED
    BY <2>1, <2>2, Zenon DEF Encodes
<1> QED
  BY <1>3, <1>4

\* UserPassRequest: two fields, one after the other.
LEMMA UserPassSurvives ==
    ASSUME NEW m \in [username : Seq(Byte), password : Seq(Byte)],
           Len(m.username) <= 255, Len(m.password) <= 255
    PROVE  Encodes("user_pass", m, user_pass_encode(m))
<1> DEFINE pre == <<AUTH_VERSION>>
           u == m.username
           p == m.password
           a == Framed(pre, u)
           b == Framed(a, p)
<1>1. pre \in Seq(Byte) /\ Len(pre) = 1 /\ pre[1] = AUTH_VERSION
  BY DEF AUTH_VERSION, Byte
<1>2. u \in Seq(Byte) /\ p \in Seq(Byte) /\ Len(u) <= 255 /\ Len(p) <= 255 /\ Len(u) \in Nat /\ Len(p) \in Nat
      /\ m = [username |-> u, password |-> p]
  OBVIOUS
<1>3. user_pass_encode(m) = Value(b, 0)
  <2>1. ~(Len(u) > 255) /\ ~(Len(p) > 255)
    BY <1>2
  <2> QED
    BY <2>1, Results DEF user_pass_encode, push_u8_prefixed, AndThen, Framed
<1> HIDE DEF pre, u, p
<1>4. a \in Seq(Byte)
  BY <1>1, <1>2, FramedIsBytes
<1>5. b \in Seq(Byte)
  <2> HIDE DEF a
  <2> QED
    BY <1>2, <1>4, FramedIsBytes
<1>6. Frames(a, pre, u) /\ Frames(b, a, p)
  <2> USE DEF Frames
  <2>1. Frames(a, pre, u)
    BY <1>1, <1>2
  <2> HIDE DEF a
  <2> QED
    BY <1>2, <1>4, <2>1
<1> HIDE DEF a, b
<1>7. /\ Len(b) = Len(a) + 1 + Len(p)
      /\ \A i \in 1 .. Len(a) : b[i] = a[i]
      /\ read_u8_prefixed(b, Len(a) + 1) = Value(p, Len(b))
  <2>1. Grown(b, b)
    BY <1>5, GrownRefl
  <2>2. Unframes(b, b, a, p)
    BY <1>6, <2>1, FieldIsRead, Zenon
  <2> QED
    BY <2>2, Zenon DEF Unframes
<1>8. Grown(a, b)
  BY <1>2, <1>4, <1>5, <1>7 DEF Grown
<1>9. /\ Len(a) = Len(pre) + 1 + Len(u)
      /\ \A i \in 1 .. Len(pre) : a[i] = pre[i]
      /\ read_u8_prefixed(b, Len(pre) + 1) = Value(u, Len(a))
  <2>1. Unframes(b, a, pre, u)
    BY <1>6, <1>8, FieldIsRead, Zenon
  <2> QED
    BY <2>1, Zenon DEF Unframes
<1>10. b[1] = AUTH_VERSION /\ 1 <= Len(b) /\ read_u8_prefixed(b, 2) = Value(u, Len(a))
  <2>1. 1 \in 1 .. Len(pre) /\ 1 \in 1 .. Len(a) /\ Len(pre) + 1 = 2
    BY <1>1, <1>2, <1>9
  <2> QED
    BY <1>1, <1>2, <1>4, <1>7, <1>9, <2>1
<1>11. user_pass_read_from(b) = Value(m, Len(b))
  <2>1. ~(Len(b) < 1)
    BY <1>5, <1>10
  <2> QED
    BY <1>2, <1>7, <1>10, <2>1, Results DEF user_pass_read_from, Versioned, Having, AndThen
<1>12. ReadFrom("user_pass", b) = Expected("user_pass", m, Len(b))
  BY <1>11 DEF ReadFrom, Expected, OffersNothing, NamesBadDomain
<1> QED
  BY <1>3, <1>5, <1>12, Zenon DEF Encodes

-----------------------------------------------------------------------------
\* Command and ReplyCode: from_byte undoes as_byte.
LEMMA CommandByte ==
    ASSUME NEW c \in Command
    PROVE  command_as_byte(c) \in Byte /\ command_from_byte(command_as_byte(c)) = c
<1>1. PICK b \in Byte : c = command_from_byte(b)
  BY DEF Command
<1>2. DOMAIN Commands = {1, 2, 3} /\ Commands[1] = "connect" /\ Commands[2] = "bind" /\ Commands[3] = "udp_associate"
  BY DEF Commands
<1>3. CASE b \in DOMAIN Commands
  <2>1. c = [name |-> Commands[b]]
    BY <1>1, <1>3 DEF command_from_byte
  <2>2. command_as_byte(c) = CHOOSE v \in DOMAIN Commands : Commands[v] = Commands[b]
    BY <2>1 DEF command_as_byte
  <2>3. \A v \in DOMAIN Commands : Commands[v] = Commands[b] => v = b
    BY <1>2, <1>3
  <2>4. (CHOOSE v \in DOMAIN Commands : Commands[v] = Commands[b]) = b
    BY <1>3, <2>3
  <2> QED
    BY <1>1, <2>2, <2>4
<1>4. CASE b \notin DOMAIN Commands
  <2>1. c = [byte |-> b]
    BY <1>1, <1>4 DEF command_from_byte
  <2>2. command_as_byte(c) = b
    BY <2>1 DEF command_as_byte
  <2> QED
    BY <1>1, <2>2
<1> QED
  BY <1>3, <1>4

\* A reply code and its byte.
LEMMA ReplyCodeByte ==
    ASSUME NEW c \in ReplyCode
    PROVE  reply_code_as_byte(c) \in Byte /\ reply_code_from_byte(reply_code_as_byte(c)) = c
<1>1. PICK b \in Byte : c = reply_code_from_byte(b)
  BY DEF ReplyCode
<1>2. /\ DOMAIN ReplyCodes = 1 .. 9
      /\ \A v, w \in 1 .. 9 : ReplyCodes[v] = ReplyCodes[w] => v = w
  BY DEF ReplyCodes
<1>3. b \in Nat
  BY DEF Byte
<1>4. CASE b + 1 \in DOMAIN ReplyCodes
  <2>1. c = [name |-> ReplyCodes[b + 1]]
    BY <1>1, <1>4 DEF reply_code_from_byte
  <2>2. reply_code_as_byte(c) = (CHOOSE v \in DOMAIN ReplyCodes : ReplyCodes[v] = ReplyCodes[b + 1]) - 1
    BY <2>1 DEF reply_code_as_byte
  <2>3. (CHOOSE v \in DOMAIN ReplyCodes : ReplyCodes[v] = ReplyCodes[b + 1]) = b + 1
    BY <1>2, <1>4
  <2>4. reply_code_as_byte(c) = b
    <3>1. (b + 1) - 1 = b
      BY <1>3
    <3> QED
      BY <2>2, <2>3, <3>1, Zenon
  <2> QED
    BY <1>1, <2>4
<1>5. CASE b + 1 \notin DOMAIN ReplyCodes
  <2>1. c = [unassigned |-> b]
    BY <1>1, <1>5 DEF reply_code_from_byte
  <2>2. reply_code_as_byte(c) = b
    BY <2>1 DEF reply_code_as_byte
  <2> QED
    BY <1>1, <2>2
<1> QED
  BY <1>4, <1>5

\* A port in two bytes.
LEMMA PortBytes ==
    ASSUME NEW port \in Port
    PROVE  LET b == port_to_be_bytes(port) IN
           /\ b \in Seq(Byte) /\ Len(b) = 2
           /\ b[1] * 256 + b[2] = port
<1>1. port \in Nat /\ port < 65536
  BY DEF Port
<1>2. /\ port \div 256 \in Nat /\ port \div 256 < 256 /\ port % 256 \in Nat /\ port % 256 < 256
      /\ (port \div 256) * 256 + (port % 256) = port
  BY <1>1
<1>3. port \div 256 \in Byte /\ port % 256 \in Byte
  BY <1>2 DEF Byte
<1> QED
  BY <1>2, <1>3 DEF port_to_be_bytes

\* The kinds of a target.
LEMMA TargetFields ==
    /\ \A t \in SocketAddr : /\ "ip" \in DOMAIN t /\ "host" \notin DOMAIN t
                             /\ t.ip \in IpAddr /\ t.port \in Port /\ t = [ip |-> t.ip, port |-> t.port]
    /\ \A t \in DomainAddr : /\ "host" \in DOMAIN t /\ "ip" \notin DOMAIN t
                             /\ t.host \in Seq(Byte) /\ t.port \in Port /\ t = [host |-> t.host, port |-> t.port]
BY DEF SocketAddr, DomainAddr

\* An address behind a header of three bytes is read back.
Addressed(h, addr) == h \o push_socket_addr(addr)

\* The IPv4 and the IPv6 form.
LEMMA SocketAddrSurvives ==
    ASSUME NEW h \in Seq(Byte), Len(h) = 3, NEW addr \in SocketAddr,
           NEW b, b = Addressed(h, addr)
    PROVE  /\ b \in Seq(Byte) /\ Len(b) >= 4 /\ \A i \in 1 .. 3 : b[i] = h[i]
           /\ target_addr_read_from(b, b[4]) = Value(addr, Len(b))
<1> DEFINE ip == addr.ip
           n == Len(ip)
           atyp == IF n = 4 THEN ATYP_IPV4 ELSE ATYP_IPV6
           port == port_to_be_bytes(addr.port)
           one == <<atyp>>
           two == one \o ip
           s == two \o port
<1>1. ip \in Seq(Byte) /\ (n = 4 \/ n = 16) /\ addr.port \in Port /\ addr = [ip |-> ip, port |-> addr.port]
  BY TargetFields DEF IpAddr
<1>2. one \in Seq(Byte) /\ Len(one) = 1 /\ one[1] = atyp
  BY DEF ATYP_IPV4, ATYP_IPV6, Byte
<1>3. port \in Seq(Byte) /\ Len(port) = 2 /\ port[1] * 256 + port[2] = addr.port
  BY <1>1, PortBytes
<1>4. b = h \o s
  BY DEF Addressed, push_socket_addr
<1> HIDE DEF ip, port, one
<1>5. /\ two \in Seq(Byte) /\ Len(two) = Len(one) + Len(ip)
      /\ \A i \in 1 .. Len(one) : two[i] = one[i]
      /\ \A i \in 1 .. Len(ip) : two[Len(one) + i] = ip[i]
  BY <1>1, <1>2, Joined, Zenon
<1> HIDE DEF two
<1>6. /\ s \in Seq(Byte) /\ Len(s) = Len(two) + Len(port)
      /\ \A i \in 1 .. Len(two) : s[i] = two[i]
      /\ \A i \in 1 .. Len(port) : s[Len(two) + i] = port[i]
  BY <1>3, <1>5, Joined, Zenon
<1> HIDE DEF s
<1>7. /\ b \in Seq(Byte) /\ Len(b) = Len(h) + Len(s)
      /\ \A i \in 1 .. Len(h) : b[i] = h[i]
      /\ \A i \in 1 .. Len(s) : b[Len(h) + i] = s[i]
  <2>1. /\ h \o s \in Seq(Byte) /\ Len(h \o s) = Len(h) + Len(s)
        /\ \A i \in 1 .. Len(h) : (h \o s)[i] = h[i]
        /\ \A i \in 1 .. Len(s) : (h \o s)[Len(h) + i] = s[i]
    BY <1>6, Joined, Zenon
  <2> QED
    BY <1>4, <2>1, Zenon
<1>8. n \in Nat /\ Len(two) = 1 + n /\ Len(s) = 3 + n /\ Len(b) = 6 + n
  BY <1>1, <1>2, <1>3, <1>5, <1>6, <1>7
<1>9. \A i \in 1 .. n : b[4 + i] = ip[i]
  <2> SUFFICES ASSUME NEW i \in 1 .. n PROVE b[4 + i] = ip[i]
    OBVIOUS
  <2>1. two[1 + i] = ip[i]
    BY <1>2, <1>5
  <2>2. s[1 + i] = two[1 + i]
    BY <1>6, <1>8
  <2>3. b[3 + (1 + i)] = s[1 + i]
    BY <1>7, <1>8
  <2>4. 3 + (1 + i) = 4 + i
    OBVIOUS
  <2> QED
    BY <2>1, <2>2, <2>3, <2>4
<1>10. SubSeq(b, 5, 4 + n) = ip
  <2>1. 4 + Len(ip) <= Len(b)
    BY <1>8
  <2>2. SubSeq(b, 4 + 1, 4 + Len(ip)) = ip
    BY <1>1, <1>7, <1>9, <2>1, Part
  <2>3. 4 + 1 = 5
    OBVIOUS
  <2> QED
    BY <2>2, <2>3, Zenon
<1>11. b[4] = atyp
  <2>1. 1 \in 1 .. Len(one) /\ 1 \in 1 .. Len(two) /\ 1 \in 1 .. Len(s) /\ Len(h) + 1 = 4
    BY <1>2, <1>8
  <2>2. two[1] = one[1] /\ s[1] = two[1] /\ b[Len(h) + 1] = s[1]
    BY <1>5, <1>6, <1>7, <2>1, Zenon
  <2> QED
    BY <1>2, <2>1, <2>2, Zenon
<1>12. PortAt(b, 5 + n) = addr.port
  <2>1. s[(1 + n) + 1] = port[1] /\ s[(1 + n) + 2] = port[2]
    BY <1>3, <1>6, <1>8
  <2>2. b[3 + (n + 2)] = s[n + 2] /\ b[3 + (n + 3)] = s[n + 3]
    <3>1. n + 2 \in 1 .. Len(s) /\ n + 3 \in 1 .. Len(s)
      BY <1>8
    <3> QED
      BY <1>7, <3>1, Zenon
  <2>3. (1 + n) + 1 = n + 2 /\ (1 + n) + 2 = n + 3 /\ 3 + (n + 2) = 5 + n /\ 3 + (n + 3) = (5 + n) + 1
    BY <1>8
  <2>4. b[5 + n] = port[1] /\ b[(5 + n) + 1] = port[2]
    BY <2>1, <2>2, <2>3
  <2> QED
    BY <1>3, <2>4 DEF PortAt
<1> HIDE DEF n
<1>13. Having(b, 6 + n, Value([ip |-> SubSeq(b, 5, 4 + n), port |-> PortAt(b, 5 + n)], 6 + n)) = Value(addr, Len(b))
  <2>1. ~(Len(b) < 6 + n)
    BY <1>8
  <2> QED
    BY <1>1, <1>8, <1>10, <1>12, <2>1, Zenon DEF Having
<1>14. target_addr_read_from(b, b[4]) = Value(addr, Len(b))
  <2>1. CASE n = 4
    BY <1>11, <1>13, <2>1 DEF target_addr_read_from, ATYP_IPV4, ATYP_IPV6
  <2>2. CASE n = 16
    BY <1>11, <1>13, <2>2 DEF target_addr_read_from, ATYP_IPV4, ATYP_IPV6
  <2> QED
    BY <1>1, <2>1, <2>2
<1> QED
  BY <1>7, <1>8, <1>14

\* So is a domain, or refused for its bytes.
BadHost(host) == host = <<>> \/ \E i \in 1 .. Len(host) : host[i] \notin DomainByte

Named(h, target) == Framed(h \o <<ATYP_DOMAIN>>, target.host) \o port_to_be_bytes(target.port)

\* The domain form; a name that is_valid_domain refuses is an error.
LEMMA DomainSurvives ==
    ASSUME NEW h \in Seq(Byte), Len(h) = 3, NEW target \in DomainAddr, Len(target.host) <= 255,
           NEW b, b = Named(h, target)
    PROVE  /\ b \in Seq(Byte) /\ Len(b) >= 4 /\ \A i \in 1 .. 3 : b[i] = h[i]
           /\ target_addr_read_from(b, b[4]) =
                 IF BadHost(target.host) THEN Error("invalid_domain", Len(b)) ELSE Value(target, Len(b))
<1> DEFINE host == target.host
           port == port_to_be_bytes(target.port)
           one == <<ATYP_DOMAIN>>
           pre == h \o one
           f == Framed(pre, host)
<1>1. /\ host \in Seq(Byte) /\ Len(host) \in Nat /\ Len(host) <= 255 /\ target.port \in Port
      /\ target = [host |-> host, port |-> target.port]
  BY TargetFields
<1>2. one \in Seq(Byte) /\ Len(one) = 1 /\ one[1] = ATYP_DOMAIN
  BY DEF ATYP_DOMAIN, Byte
<1>3. port \in Seq(Byte) /\ Len(port) = 2 /\ port[1] * 256 + port[2] = target.port
  BY <1>1, PortBytes
<1>4. b = f \o port
  BY DEF Named
<1> HIDE DEF host, port, one
<1>5. /\ pre \in Seq(Byte) /\ Len(pre) = Len(h) + Len(one)
      /\ \A i \in 1 .. Len(h) : pre[i] = h[i]
      /\ \A i \in 1 .. Len(one) : pre[Len(h) + i] = one[i]
  BY <1>2, Joined, Zenon
<1> HIDE DEF pre
<1>6. f \in Seq(Byte)
  BY <1>1, <1>5, FramedIsBytes
<1>7. Frames(f, pre, host)
  BY <1>1, <1>5 DEF Frames
<1> HIDE DEF f
<1>8. /\ b \in Seq(Byte) /\ Len(b) = Len(f) + Len(port)
      /\ \A i \in 1 .. Len(f) : b[i] = f[i]
      /\ \A i \in 1 .. Len(port) : b[Len(f) + i] = port[i]
  <2>1. /\ f \o port \in Seq(Byte) /\ Len(f \o port) = Len(f) + Len(port)
        /\ \A i \in 1 .. Len(f) : (f \o port)[i] = f[i]
        /\ \A i \in 1 .. Len(port) : (f \o port)[Len(f) + i] = port[i]
    BY <1>3, <1>6, Joined, Zenon
  <2> QED
    BY <1>4, <2>1, Zenon
<1>9. Grown(f, b)
  BY <1>3, <1>6, <1>8 DEF Grown
<1>10. Unframes(b, f, pre, host)
  BY <1>7, <1>9, FieldIsRead, Zenon
<1>11. /\ Len(f) = Len(pre) + 1 + Len(host) /\ \A i \in 1 .. Len(pre) : f[i] = pre[i]
       /\ read_u8_prefixed(b, Len(pre) + 1) = Value(host, Len(f))
  BY <1>10, Zenon DEF Unframes
<1>12. Len(pre) = 4 /\ Len(f) = 5 + Len(host) /\ Len(b) = Len(f) + 2 /\ Len(f) \in Nat
  BY <1>1, <1>2, <1>3, <1>5, <1>8, <1>11
<1>13. read_u8_prefixed(b, 5) = Value(host, Len(f))
  <2>1. Len(pre) + 1 = 5
    BY <1>12
  <2> QED
    BY <1>11, <2>1, Zenon
<1>14. (\A i \in 1 .. 3 : b[i] = h[i]) /\ b[4] = ATYP_DOMAIN
  <2>1. \A i \in 1 .. 3 : i \in 1 .. Len(h) /\ i \in 1 .. Len(pre) /\ i \in 1 .. Len(f)
    BY <1>1, <1>12
  <2>2. 1 \in 1 .. Len(one) /\ Len(h) + 1 = 4 /\ 4 \in 1 .. Len(pre) /\ 4 \in 1 .. Len(f)
    BY <1>1, <1>2, <1>12
  <2>3. \A i \in 1 .. 3 : b[i] = h[i]
    BY <1>5, <1>8, <1>11, <2>1, Zenon
  <2>4. b[4] = ATYP_DOMAIN
    BY <1>2, <1>5, <1>8, <1>11, <2>2, Zenon
  <2> QED
    BY <2>3, <2>4
<1>15. PortAt(b, Len(f) + 1) = target.port
  <2>1. b[Len(f) + 1] = port[1] /\ b[Len(f) + 2] = port[2]
    <3>1. 1 \in 1 .. Len(port) /\ 2 \in 1 .. Len(port)
      BY <1>3
    <3> QED
      BY <1>8, <3>1, Zenon
  <2>2. (Len(f) + 1) + 1 = Len(f) + 2
    BY <1>12
  <2> QED
    BY <1>3, <2>1, <2>2 DEF PortAt
<1>16. Having(b, Len(f) + 2, parse_domain(host, PortAt(b, Len(f) + 1), Len(f) + 2)) =
          IF BadHost(host) THEN Error("invalid_domain", Len(b)) ELSE Value(target, Len(b))
  <2>1. ~(Len(b) < Len(f) + 2)
    BY <1>12
  <2>2. parse_domain(host, target.port, Len(b)) =
           IF BadHost(host) THEN Error("invalid_domain", Len(b))
           ELSE Value([host |-> host, port |-> target.port], Len(b))
    <3>1. DOMAIN host = 1 .. Len(host)
      BY <1>1
    <3> QED
      BY <3>1 DEF parse_domain, BadHost
  <2> QED
    BY <1>1, <1>12, <1>15, <2>1, <2>2 DEF Having
<1>17. target_addr_read_from(b, b[4]) =
          IF BadHost(host) THEN Error("invalid_domain", Len(b)) ELSE Value(target, Len(b))
  BY <1>13, <1>14, <1>16, Results
     DEF target_addr_read_from, AndThen, ATYP_DOMAIN, ATYP_IPV4, ATYP_IPV6
<1> QED
  BY <1>1, <1>8, <1>12, <1>14, <1>17 DEF host

\* Request: the command and the target.
LEMMA RequestSurvives ==
    ASSUME NEW m \in Message("request"), LongestField("request", m) <= 255
    PROVE  Encodes("request", m, request_encode(m))
<1> DEFINE t == m.target
           command == command_as_byte(m.command)
           h == <<SOCKS_VERSION, command, 0>>
<1>1. m.command \in Command /\ t \in SocketAddr \cup DomainAddr /\ m = [command |-> m.command, target |-> t]
  BY DEF Message
<1>2. command \in Byte /\ command_from_byte(command) = m.command
  BY <1>1, CommandByte
<1>3. request_encode(m) = target_addr_encode(h, t)
  BY DEF request_encode
<1> HIDE DEF command
<1>4. h \in Seq(Byte) /\ Len(h) = 3 /\ h[1] = SOCKS_VERSION /\ h[2] = command
  <2>1. SOCKS_VERSION \in Byte /\ 0 \in Byte
    BY DEF SOCKS_VERSION, Byte
  <2> QED
    BY <1>2, <2>1
<1> HIDE DEF h, t
<1>5. ASSUME NEW b \in Seq(Byte), Len(b) >= 4, \A i \in 1 .. 3 : b[i] = h[i]
      PROVE  request_read_from(b) =
                LET r == target_addr_read_from(b, b[4]) IN
                IF r.is = "value" THEN Value([command |-> m.command, target |-> r.value], r.used) ELSE r
  <2>1. ~(Len(b) < 4) /\ b[1] = SOCKS_VERSION /\ b[2] = command
    BY <1>4, <1>5
  <2> QED
    BY <1>2, <2>1 DEF request_read_from, Having, AndThen
<1>6. CASE t \in SocketAddr
  <2> DEFINE b == Addressed(h, t)
  <2>1. request_encode(m) = Value(b, 0)
    BY <1>3, <1>6, TargetFields DEF target_addr_encode, Addressed
  <2>2. /\ b \in Seq(Byte) /\ Len(b) >= 4 /\ \A i \in 1 .. 3 : b[i] = h[i]
        /\ target_addr_read_from(b, b[4]) = Value(t, Len(b))
    BY <1>4, <1>6, SocketAddrSurvives, Zenon
  <2> HIDE DEF b
  <2>3. request_read_from(b) = Value(m, Len(b))
    BY <1>1, <1>5, <2>2, Results
  <2>4. ~NamesBadDomain("request", m)
    BY <1>6, TargetFields DEF NamesBadDomain, t
  <2>5. ReadFrom("request", b) = Expected("request", m, Len(b))
    BY <2>3, <2>4 DEF ReadFrom, Expected, OffersNothing
  <2> QED
    BY <2>1, <2>2, <2>5, Zenon DEF Encodes
<1>7. CASE t \in DomainAddr
  <2> DEFINE b == Named(h, t)
  <2>1. Len(t.host) <= 255 /\ Len(t.host) \in Nat
    BY <1>7, TargetFields DEF LongestField, t
  <2>2. request_encode(m) = Value(b, 0)
    <3>1. ~(Len(t.host) > 255)
      BY <2>1
    <3> QED
      BY <1>3, <1>7, <3>1, TargetFields, Results
         DEF target_addr_encode, push_u8_prefixed, AndThen, Named, Framed
  <2>3. /\ b \in Seq(Byte) /\ Len(b) >= 4 /\ \A i \in 1 .. 3 : b[i] = h[i]
        /\ target_addr_read_from(b, b[4]) =
              IF BadHost(t.host) THEN Error("invalid_domain", Len(b)) ELSE Value(t, Len(b))
    BY <1>4, <1>7, <2>1, DomainSurvives
  <2> HIDE DEF b
  <2>4. request_read_from(b) = IF BadHost(t.host) THEN Error("invalid_domain", Len(b)) ELSE Value(m, Len(b))
    <3> DEFINE r == target_addr_read_from(b, b[4])
    <3>1. request_read_from(b) =
             IF r.is = "value" THEN Value([command |-> m.command, target |-> r.value], r.used) ELSE r
      BY <1>5, <2>3
    <3>2. r = IF BadHost(t.host) THEN Error("invalid_domain", Len(b)) ELSE Value(t, Len(b))
      BY <2>3
    <3> HIDE DEF r
    <3>3. CASE BadHost(t.host)
      BY <3>1, <3>2, <3>3, Results
    <3>4. CASE ~BadHost(t.host)
      BY <1>1, <3>1, <3>2, <3>4, Results
    <3> QED
      BY <3>3, <3>4
  <2>5. NamesBadDomain("request", m) <=> BadHost(t.host)
    BY <1>7, TargetFields DEF NamesBadDomain, BadHost, t
  <2>6. ReadFrom("request", b) = Expected("request", m, Len(b))
    BY <2>4, <2>5 DEF ReadFrom, Expected, OffersNothing
  <2> QED
    BY <2>2, <2>3, <2>6, Zenon DEF Encodes
<1> QED
  BY <1>1, <1>6, <1>7

\* Reply: the code and the bind address.
LEMMA ReplySurvives ==
    ASSUME NEW m \in Message("reply")
    PROVE  Encodes("reply", m, Value(reply_encode(m), 0))
<1> DEFINE t == m.bind_addr
           code == reply_code_as_byte(m.code)
           h == <<SOCKS_VERSION, code, 0>>
           b == Addressed(h, t)
<1>1. m.code \in ReplyCode /\ t \in SocketAddr /\ m = [code |-> m.code, bind_addr |-> t]
  BY DEF Message
<1>2. code \in Byte /\ reply_code_from_byte(code) = m.code
  BY <1>1, ReplyCodeByte
<1>3. reply_encode(m) = b
  BY DEF reply_encode, Addressed
<1> HIDE DEF code
<1>4. h \in Seq(Byte) /\ Len(h) = 3 /\ h[1] = SOCKS_VERSION /\ h[2] = code
  <2>1. SOCKS_VERSION \in Byte /\ 0 \in Byte
    BY DEF SOCKS_VERSION, Byte
  <2> QED
    BY <1>2, <2>1
<1> HIDE DEF h, t
<1>5. /\ b \in Seq(Byte) /\ Len(b) >= 4 /\ \A i \in 1 .. 3 : b[i] = h[i]
      /\ target_addr_read_from(b, b[4]) = Value(t, Len(b))
  BY <1>1, <1>4, SocketAddrSurvives, Zenon
<1> HIDE DEF b
<1>6. ~(Len(b) < 4) /\ b[1] = SOCKS_VERSION /\ b[2] = code
  BY <1>4, <1>5
<1>7. "ip" \in DOMAIN t /\ t = [ip |-> t.ip, port |-> t.port]
  BY <1>1, TargetFields
<1>8. reply_read_from(b) = Value(m, Len(b))
  BY <1>1, <1>2, <1>5, <1>6, <1>7, Results DEF reply_read_from, Having, AndThen
<1>9. ReadFrom("reply", b) = Expected("reply", m, Len(b))
  BY <1>8 DEF ReadFrom, Expected, OffersNothing, NamesBadDomain
<1> QED
  BY <1>3, <1>5, <1>9, Zenon DEF Encodes

\* A field that is too long is not encoded, and nothing is.
LEMMA TooLong ==
    ASSUME NEW type \in Types, NEW m \in Message(type), LongestField(type, m) > 255
    PROVE  Encode(type, m) = Error("field_too_long", 0)
<1>1. CASE type = "greeting"
  BY <1>1 DEF LongestField, Encode, greeting_encode, push_u8_prefixed
<1>2. CASE type = "user_pass"
  <2>1. Len(m.username) \in Nat /\ Len(m.password) \in Nat
    BY <1>2 DEF Message
  <2>2. Len(m.username) > 255 \/ Len(m.password) > 255
    BY <1>2, <2>1 DEF LongestField
  <2> QED
    BY <1>2, <2>2, Results DEF Encode, user_pass_encode, push_u8_prefixed, AndThen
<1>3. CASE type = "request"
  <2>1. m.target \in SocketAddr \cup DomainAddr
    BY <1>3 DEF Message
  <2>2. m.target \in DomainAddr /\ Len(m.target.host) > 255
    BY <1>3, <2>1, TargetFields DEF LongestField
  <2> QED
    BY <1>3, <2>2, TargetFields, Results
       DEF Encode, request_encode, target_addr_encode, push_u8_prefixed, AndThen
<1>4. CASE type \notin {"greeting", "user_pass", "request"}
  BY <1>4 DEF LongestField
<1> QED
  BY <1>1, <1>2, <1>3, <1>4

\* Lengths are numbers.
LEMMA FieldIsNat ==
    ASSUME NEW type \in Types, NEW m \in Message(type)
    PROVE  LongestField(type, m) \in Nat
<1>1. CASE type = "greeting" \/ type = "user_pass"
  BY <1>1 DEF Message, LongestField
<1>2. CASE type = "request"
  <2>1. m.target \in SocketAddr \cup DomainAddr
    BY <1>2 DEF Message
  <2>2. "host" \in DOMAIN m.target => Len(m.target.host) \in Nat
    BY <2>1, TargetFields
  <2> QED
    BY <1>2, <2>2 DEF LongestField
<1>3. CASE type \notin {"greeting", "user_pass", "request"}
  BY <1>3 DEF LongestField
<1> QED
  BY <1>1, <1>2, <1>3

\* Every message whose fields have a length is encoded, and read back.
LEMMA MessageSurvives ==
    ASSUME NEW type \in Types, NEW m \in Message(type), LongestField(type, m) <= 255
    PROVE  Encodes(type, m, Encode(type, m))
<1>1. CASE type = "greeting"
  <2>1. m \in Seq(Byte) /\ Len(m) <= 255
    BY <1>1 DEF Message, LongestField
  <2> QED
    BY <1>1, <2>1, GreetingSurvives DEF Encode
<1>2. CASE type = "user_pass"
  <2>1. m \in [username : Seq(Byte), password : Seq(Byte)]
    BY <1>2 DEF Message
  <2>2. Len(m.username) <= 255 /\ Len(m.password) <= 255
    BY <1>2, <2>1 DEF LongestField
  <2> QED
    BY <1>2, <2>1, <2>2, UserPassSurvives DEF Encode
<1>3. CASE type = "request"
  BY <1>3, RequestSurvives DEF Encode
<1>4. CASE type = "reply"
  BY <1>4, ReplySurvives DEF Encode
<1>5. CASE type = "method_selection" \/ type = "user_pass_response"
  <2>1. m \in Byte
    BY <1>5 DEF Message
  <2> QED
    BY <1>5, <2>1, AnswerSurvives DEF Encode
<1> QED
  BY <1>1, <1>2, <1>3, <1>4, <1>5 DEF Types

-----------------------------------------------------------------------------
(* Logins: blocks of a length byte and zero padding tell all values apart. *)

Credential == [username : Seq(Byte), password : Seq(Byte)]

Usable(value) == 1 <= Len(value) /\ Len(value) <= 255

\* A number between the limits.
LEMMA InRange == ASSUME NEW n \in Nat PROVE n \in 1 .. 255 <=> 1 <= n /\ n <= 255
OBVIOUS

\* A usable value is one that has a block.
LEMMA UsableHasBlock ==
    ASSUME NEW v \in Seq(Byte)
    PROVE  /\ Usable(v) <=> ~HasNoBlock(v)
           /\ Usable(v) <=> Len(v) \in 1 .. 255
<1>1. Len(v) \in Nat
  OBVIOUS
<1>2. Len(v) \in 1 .. 255 <=> 1 <= Len(v) /\ Len(v) <= 255
  BY <1>1, InRange
<1> QED
  BY <1>2, Zenon DEF Usable, HasNoBlock, MAX_CREDENTIAL_LEN

\* What is in a block.
LEMMA BlockContent ==
    ASSUME NEW v \in Seq(Byte), Usable(v)
    PROVE  /\ to_block(v)[1] = Len(v)
           /\ \A i \in 1 .. Len(v) : to_block(v)[i + 1] = v[i]
<1>1. Len(v) \in Nat /\ 1 <= Len(v) /\ Len(v) <= 255
  BY DEF Usable
<1>2. to_block(v)[1] = Len(v)
  BY DEF to_block, BLOCK_LEN, MAX_CREDENTIAL_LEN
<1>3. ASSUME NEW i \in 1 .. Len(v) PROVE to_block(v)[i + 1] = v[i]
  <2>1. i + 1 \in 1 .. 256 /\ i + 1 # 1 /\ i + 1 <= Len(v) + 1 /\ (i + 1) - 1 = i
    BY <1>1
  <2> QED
    BY <2>1 DEF to_block, BLOCK_LEN, MAX_CREDENTIAL_LEN
<1> QED
  BY <1>2, <1>3

\* A block belongs to one value.
LEMMA BlockInjective ==
    ASSUME NEW v \in Seq(Byte), NEW w \in Seq(Byte), Usable(v), Usable(w),
           to_block(v) = to_block(w)
    PROVE  v = w
<1>1. Len(v) = Len(w)
  BY BlockContent
<1>2. ASSUME NEW i \in 1 .. Len(v) PROVE v[i] = w[i]
  BY <1>1, BlockContent
<1> QED
  BY <1>1, <1>2

\* The block of a value is not the block of no value.
LEMMA BlockNotZero ==
    ASSUME NEW v \in Seq(Byte), Usable(v)
    PROVE  to_block(v) # ZeroBlock
<1>1. ZeroBlock[1] = 0
  BY DEF ZeroBlock, BLOCK_LEN, MAX_CREDENTIAL_LEN
<1>2. to_block(v)[1] = Len(v)
  BY BlockContent
<1>3. Len(v) # 0
  BY DEF Usable
<1> QED
  BY <1>1, <1>2, <1>3

\* What LoginNeedsListedPair calls a sound list.
Sound(list) ==
    /\ list # <<>>
    /\ \A i \in DOMAIN list : Usable(list[i].username) /\ Usable(list[i].password)
    /\ \A i, j \in DOMAIN list : list[i].username = list[j].username => i = j

\* The credentials of a list.
LEMMA ListedPair ==
    ASSUME NEW list \in Seq(Credential), NEW i \in DOMAIN list
    PROVE  list[i] \in Credential /\ list[i].username \in Seq(Byte) /\ list[i].password \in Seq(Byte)
<1>1. list[i] \in Credential
  OBVIOUS
<1> QED
  BY <1>1 DEF Credential

\* A list has no wrong credential exactly if every value is usable and no name is
\* listed twice.
LEMMA NothingWrong ==
    ASSUME NEW list \in Seq(Credential)
    PROVE  (\A i \in DOMAIN list : CredentialError(list, i) = "none")
              <=> /\ \A i \in DOMAIN list : Usable(list[i].username) /\ Usable(list[i].password)
                  /\ \A i, j \in DOMAIN list : list[i].username = list[j].username => i = j
<1>1. ASSUME NEW i \in DOMAIN list
      PROVE  CredentialError(list, i) = "none"
                <=> /\ Usable(list[i].username) /\ Usable(list[i].password)
                    /\ \A j \in 1 .. i - 1 : list[j].username # list[i].username
  <2>1. /\ Usable(list[i].username) <=> ~HasNoBlock(list[i].username)
        /\ Usable(list[i].password) <=> ~HasNoBlock(list[i].password)
    BY ListedPair, UsableHasBlock
  <2> QED
    BY <2>1 DEF CredentialError
<1>2. DOMAIN list = 1 .. Len(list) /\ Len(list) \in Nat
  OBVIOUS
<1>3. (\A i \in DOMAIN list : \A j \in 1 .. i - 1 : list[j].username # list[i].username)
         <=> \A i, j \in DOMAIN list : list[i].username = list[j].username => i = j
  <2>1. ASSUME \A i \in DOMAIN list : \A j \in 1 .. i - 1 : list[j].username # list[i].username,
               NEW i \in DOMAIN list, NEW j \in DOMAIN list,
               list[i].username = list[j].username
        PROVE  i = j
    <3>1. i \in Nat /\ j \in Nat /\ i >= 1 /\ j >= 1
      BY <1>2
    <3>2. CASE i < j
      <4>1. i \in 1 .. j - 1
        BY <3>1, <3>2
      <4> QED
        BY <2>1, <4>1
    <3>3. CASE j < i
      <4>1. j \in 1 .. i - 1
        BY <3>1, <3>3
      <4> QED
        BY <2>1, <4>1
    <3> QED
      BY <3>1, <3>2, <3>3
  <2>2. ASSUME \A i, j \in DOMAIN list : list[i].username = list[j].username => i = j,
               NEW i \in DOMAIN list, NEW j \in 1 .. i - 1
        PROVE  list[j].username # list[i].username
    <3>1. j \in DOMAIN list /\ j # i
      BY <1>2
    <3> QED
      BY <2>2, <3>1
  <2> QED
    BY <2>1, <2>2
<1> QED
  BY <1>1, <1>3

\* UserStore::new stores a sound list and refuses any other.
LEMMA StoreIsSound ==
    ASSUME NEW list \in Seq(Credential)
    PROVE  /\ Sound(list) => user_store_new(list) =
                [users |-> [i \in DOMAIN list |->
                    [name |-> list[i].username,
                     username |-> to_block(list[i].username),
                     password |-> to_block(list[i].password)]]]
           /\ ~Sound(list) => "error" \in DOMAIN user_store_new(list)
           /\ Sound(list) <=> "users" \in DOMAIN user_store_new(list)
<1> DEFINE wrong == {i \in DOMAIN list : CredentialError(list, i) # "none"}
           first == CHOOSE i \in wrong : \A j \in wrong : i <= j
<1>1. Sound(list) <=> list # <<>> /\ wrong = {}
  BY NothingWrong DEF Sound
<1>2. user_store_new(list) =
        IF list = <<>> THEN [error |-> "no_users"]
        ELSE IF wrong # {} THEN [error |-> CredentialError(list, first)]
        ELSE [users |-> [i \in DOMAIN list |->
                 [name |-> list[i].username,
                  username |-> to_block(list[i].username),
                  password |-> to_block(list[i].password)]]]
  BY DEF user_store_new
<1> HIDE DEF wrong, first
<1>3. ASSUME NEW e PROVE "error" \in DOMAIN [error |-> e] /\ "users" \notin DOMAIN [error |-> e]
  OBVIOUS
<1>4. ASSUME NEW u PROVE "users" \in DOMAIN [users |-> u]
  OBVIOUS
<1> QED
  BY <1>1, <1>2, <1>3, <1>4, Zenon

\* The credentials whose blocks match an attempt are those that equal it.
LEMMA MatchIsEquality ==
    ASSUME NEW listed \in Seq(Byte), NEW tried \in Seq(Byte), Usable(listed)
    PROVE  to_block(listed) = (IF HasNoBlock(tried) THEN ZeroBlock ELSE to_block(tried))
              <=> listed = tried
<1>1. CASE HasNoBlock(tried)
  BY <1>1, UsableHasBlock, BlockNotZero
<1>2. CASE ~HasNoBlock(tried)
  <2>1. Usable(tried)
    BY <1>2, UsableHasBlock
  <2> QED
    BY <1>2, <2>1, BlockInjective
<1> QED
  BY <1>1, <1>2

\* Two pairs with the same name and the same password are the same.
LEMMA PairIsItsParts ==
    ASSUME NEW c \in Credential, NEW d \in Credential
    PROVE  c = d <=> c.username = d.username /\ c.password = d.password
BY DEF Credential

\* verify answers for the one listed pair that equals the attempt, or for none.
LEMMA VerifyIsExact ==
    ASSUME NEW list \in Seq(Credential), Sound(list), NEW attempt \in Credential
    PROVE  verify(user_store_new(list).users, attempt.username, attempt.password) =
              IF \E i \in DOMAIN list : list[i] = attempt THEN <<attempt.username>> ELSE <<>>
<1> DEFINE users == user_store_new(list).users
           block(value) == IF HasNoBlock(value) THEN ZeroBlock ELSE to_block(value)
           matched == {i \in DOMAIN users : /\ users[i].username = block(attempt.username)
                                            /\ users[i].password = block(attempt.password)}
           last == CHOOSE i \in matched : \A j \in matched : j <= i
<1>1. users = [i \in DOMAIN list |-> [name |-> list[i].username,
                                      username |-> to_block(list[i].username),
                                      password |-> to_block(list[i].password)]]
  BY StoreIsSound
<1>2. verify(users, attempt.username, attempt.password) =
        IF matched = {} THEN <<>> ELSE <<users[last].name>>
  BY Zenon DEF verify
<1>3. /\ DOMAIN users = DOMAIN list
      /\ \A i \in DOMAIN list : /\ users[i].name = list[i].username
                                /\ users[i].username = to_block(list[i].username)
                                /\ users[i].password = to_block(list[i].password)
  BY <1>1
<1>4. attempt.username \in Seq(Byte) /\ attempt.password \in Seq(Byte)
  BY DEF Credential
<1> SUFFICES verify(users, attempt.username, attempt.password) =
               IF \E i \in DOMAIN list : list[i] = attempt THEN <<attempt.username>> ELSE <<>>
  OBVIOUS
<1> HIDE DEF users
<1>5. ASSUME NEW i \in DOMAIN list
      PROVE  i \in matched <=> list[i] = attempt
  <2>1. /\ Usable(list[i].username) /\ Usable(list[i].password)
        /\ list[i] \in Credential
        /\ list[i].username \in Seq(Byte) /\ list[i].password \in Seq(Byte)
    BY ListedPair DEF Sound
  <2>2. /\ to_block(list[i].username) = block(attempt.username) <=> list[i].username = attempt.username
        /\ to_block(list[i].password) = block(attempt.password) <=> list[i].password = attempt.password
    BY <1>4, <2>1, MatchIsEquality
  <2>3. list[i] = attempt
           <=> list[i].username = attempt.username /\ list[i].password = attempt.password
    BY <2>1, PairIsItsParts
  <2> QED
    BY <1>3, <2>2, <2>3
<1>6. matched \subseteq DOMAIN list
  BY <1>3
<1> HIDE DEF matched
<1>7. CASE matched = {}
  BY <1>2, <1>5, <1>7
<1>8. CASE matched # {}
  <2>1. PICK i \in DOMAIN list : i \in matched /\ list[i] = attempt
    BY <1>5, <1>6, <1>8
  <2>2. ASSUME NEW j \in matched PROVE j = i
    BY <1>5, <1>6, <2>1 DEF Sound
  <2>3. i \in Nat /\ i <= i
    OBVIOUS
  <2>4. last \in matched
    BY <2>1, <2>2, <2>3
  <2>5. last = i
    BY <2>2, <2>4
  <2>6. users[last].name = attempt.username
    BY <1>3, <2>1, <2>5
  <2> HIDE DEF last
  <2>7. \E k \in DOMAIN list : list[k] = attempt
    BY <2>1
  <2> QED
    BY <1>2, <1>8, <2>6, <2>7, Zenon
<1> QED
  BY <1>7, <1>8
=============================================================================
