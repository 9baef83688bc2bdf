--------------------------- MODULE DialogueProofs ---------------------------
(***************************************************************************)
(* Client and server agree, for all scripts, all lists of users, all data  *)
(* and all ways of cutting the streams into segments.                      *)
(***************************************************************************)
EXTENDS Dialogue, HandshakeProofs

-----------------------------------------------------------------------------
(* The inductive invariant.                                                *)

\* Messages after the first `from` of four, up to and including the `to`-th.
Turn(m, from, i, to) == IF from < i /\ i <= to THEN m[i] ELSE <<>>

Row(a, b, c, d) == a \o (b \o (c \o d))

Span(m, from, to) ==
    Row(Turn(m, from, 1, to), Turn(m, from, 2, to), Turn(m, from, 3, to), Turn(m, from, 4, to))

\* What the client says, as far as it can be encoded.
Sayings == [i \in 1 .. 4 |-> IF Blocks[i].is = "value" THEN Blocks[i].value ELSE <<>>]

\* What the server tells a client that it serves, and what the target says.
Tidings ==
    <<method_selection_encode(METHOD_USER_PASS), user_pass_response_encode(AUTH_STATUS_SUCCESS),
      Reply("succeeded"), Banner>>

\* How many messages the server has read.
Read == IF server = "greeting" THEN 0 ELSE IF server = "credentials" THEN 1
        ELSE IF server = "request" THEN 2 ELSE 3

\* How many messages a client that is there has written.
Said == IF script.eager
        THEN IF client.answers = 0 /\ client.does = "writing" THEN 0 ELSE 4
        ELSE IF client.does = "writing" THEN client.answers ELSE client.answers + 1

\* A server that is there has told the client w of its tidings.
Tells(w) ==
    \/ server = "greeting" /\ w = 0
    \/ server = "credentials" /\ w = 1
    \/ server \in {"request", "dialling"} /\ w = 2
    \/ server = "relaying" /\ w = 3 /\ fromTarget = Banner
    \/ server = "relaying" /\ w = 4 /\ fromTarget = <<>>

\* The last answer of a server that has closed after w of its tidings.
Refuses(w, last) ==
    \/ w = 0 /\ last = method_selection_encode(METHOD_NO_ACCEPTABLE) /\ reason = "no_acceptable_auth_method"
    \/ w = 1 /\ last = user_pass_response_encode(AUTH_STATUS_FAILURE) /\ reason = "auth_failed" /\ ~Listed
    \/ w = 2 /\ \E code \in CodeNames \ {"succeeded"} :
          /\ last = Reply(code)
          /\ reason = IF code = "general_failure" /\ report.target = <<>> THEN "invalid_domain" ELSE code

Answers ==
    {<<>>, method_selection_encode(METHOD_NO_ACCEPTABLE), user_pass_response_encode(AUTH_STATUS_FAILURE)}
        \cup {Reply(code) : code \in CodeNames \ {"succeeded"}}

Ends(w, last) ==
    \/ Tells(w) /\ last = <<>>
    \/ server = "closed" /\ w <= 2 /\ (last = <<>> \/ Refuses(w, last))

IsStream(s) ==
    /\ s \in [bytes : Seq(Byte), arrived : Nat, open : BOOLEAN]
    /\ s.arrived <= Len(s.bytes)

Typed ==
    /\ script \in Scripts
    /\ client \in [answers : 0 .. 3, does : {"writing", "reading", "relaying", "gone"}]
    /\ client.does = "relaying" => client.answers = 3
    /\ client.does \in {"reading", "gone"} => client.answers <= 2
    /\ server \in {"greeting", "credentials", "request", "dialling", "relaying", "closed"}
    /\ report = [user |-> report.user, target |-> report.target]
    /\ IsStream(up) /\ IsStream(down)
    /\ up.open <=> client.does # "gone"
    /\ down.open <=> server # "closed"
    /\ toTarget \in Seq(Byte)
    /\ server # "relaying" => toTarget = <<>> /\ fromTarget = Banner
    /\ server # "closed" => reason = "none"
    /\ fromTarget \in {Banner, <<>>}
    /\ outcome = "ok" <=> client.answers = 3
    /\ client.does # "gone" => outcome \in {"none", "ok"}

\* The bytes are what the client has said after the first `read` messages.
Speaks(read, bytes) ==
    \E k \in 0 .. 4 :
        /\ client.does # "gone" => k = Said
        /\ read <= k
        /\ \A i \in 1 .. k : Blocks[i].is = "value"
        /\ bytes = Span(Sayings, read, k)

\* The server finds on the stream what the client has said since.
UpHolds == server # "closed" => Speaks(Read, toTarget \o up.bytes)

\* The bytes are what the server has told after n tidings, unless the end of
\* that is lost.
Finds(n, bytes) ==
    \E w \in 0 .. 4, last \in Answers :
        /\ n <= w
        /\ Ends(w, last)
        /\ IsPrefix(bytes, Span(Tidings, n, w) \o last)
        /\ down.open => bytes = Span(Tidings, n, w) \o last

\* The client finds on the stream what the server has told it since.
DownHolds == client.does # "gone" => Finds(client.answers, down.bytes)

\* What the server knows of the client.
Knows ==
    /\ server \in {"request", "dialling", "relaying"} =>
          Listed /\ report.user = <<script.credentials.username>>
    /\ server \in {"dialling", "relaying"} => report.target = <<script.target>>
    /\ server \in HandshakeSteps => report.target = <<>>

\* A refusal waits for the client that waits for it.
Waits ==
    ~script.eager /\ client.does # "gone" /\ server = "closed" /\ reason # "handshake_timeout" =>
        /\ up.bytes = <<>>
        /\ client.does = "reading"
        /\ Refuses(client.answers, down.bytes)

IInv == Typed /\ UpHolds /\ DownHolds /\ Knows /\ Waits /\ OutcomesAgree /\ RefusalIsHeard

-----------------------------------------------------------------------------
(* Sequences of bytes.                                                     *)

\* Concatenation is associative, and the empty sequence is its unit.
LEMMA Glue ==
    /\ <<>> \in Seq(Byte)
    /\ \A x \in Seq(Byte) : <<>> \o x = x /\ x \o <<>> = x
    /\ \A x, y \in Seq(Byte) : x \o y \in Seq(Byte)
    /\ \A x, y, z \in Seq(Byte) : (x \o y) \o z = x \o (y \o z)
OBVIOUS

\* Three pieces, put together from either end.
Tied(a, b, c) == (a \o b) \o c = a \o (b \o c)

\* It is the same.
LEMMA TiedTogether ==
    ASSUME NEW a \in Seq(Byte), NEW b \in Seq(Byte), NEW c \in Seq(Byte)
    PROVE  Tied(a, b, c)
BY DEF Tied

\* Four pieces in a row.
LEMMA RowTyped ==
    ASSUME NEW a \in Seq(Byte), NEW b \in Seq(Byte), NEW c \in Seq(Byte), NEW d \in Seq(Byte)
    PROVE  Row(a, b, c, d) \in Seq(Byte) /\ Row(<<>>, <<>>, <<>>, <<>>) = <<>>
<1>1. c \o d \in Seq(Byte)
  BY Glue, Zenon
<1>2. b \o (c \o d) \in Seq(Byte)
  BY <1>1, Glue, Zenon
<1> QED
  BY <1>2, Glue DEF Row

\* The first of them that is not empty stands in front of the others.
FrontOf(a, b, c, d) ==
    /\ Row(a, b, c, d) = a \o Row(<<>>, b, c, d)
    /\ Row(<<>>, b, c, d) = b \o Row(<<>>, <<>>, c, d)
    /\ Row(<<>>, <<>>, c, d) = c \o Row(<<>>, <<>>, <<>>, d)
    /\ Row(<<>>, <<>>, <<>>, d) = d \o Row(<<>>, <<>>, <<>>, <<>>)

\* So it is for any four pieces.
LEMMA RowFront ==
    ASSUME NEW a \in Seq(Byte), NEW b \in Seq(Byte), NEW c \in Seq(Byte), NEW d \in Seq(Byte)
    PROVE  FrontOf(a, b, c, d)
<1> DEFINE x == c \o d
           y == b \o x
<1>1. x \in Seq(Byte)
  BY Glue, Zenon
<1>2. y \in Seq(Byte)
  BY <1>1, Glue, Zenon
<1>3. <<>> \o d = d /\ <<>> \o x = x /\ <<>> \o y = y /\ <<>> \o <<>> = <<>> /\ d \o <<>> = d
  BY <1>1, <1>2, Glue, Zenon
<1> HIDE DEF x
<1>4. Row(a, b, c, d) = a \o y /\ Row(<<>>, b, c, d) = y
  BY <1>3, Zenon DEF Row, x
<1>5. Row(<<>>, <<>>, c, d) = x
  BY <1>3 DEF Row, x
<1>6. Row(<<>>, <<>>, <<>>, d) = d /\ Row(<<>>, <<>>, <<>>, <<>>) = <<>>
  BY <1>3 DEF Row
<1>7. x = c \o d
  BY DEF x
<1> QED
  BY <1>3, <1>4, <1>5, <1>6, <1>7, Zenon DEF FrontOf

\* The last of them that is not empty stands behind the others.
BackOf(a, b, c, d) ==
    /\ Row(<<>>, <<>>, <<>>, <<>>) \o a = Row(a, <<>>, <<>>, <<>>)
    /\ Row(a, <<>>, <<>>, <<>>) \o b = Row(a, b, <<>>, <<>>)
    /\ Row(a, b, <<>>, <<>>) \o c = Row(a, b, c, <<>>)
    /\ Row(a, b, c, <<>>) \o d = Row(a, b, c, d)

\* And so is this.
LEMMA RowBack ==
    ASSUME NEW a \in Seq(Byte), NEW b \in Seq(Byte), NEW c \in Seq(Byte), NEW d \in Seq(Byte)
    PROVE  BackOf(a, b, c, d)
<1> DEFINE x == b \o c
<1>1. x \in Seq(Byte)
  BY Glue, Zenon
<1>2. /\ <<>> \o <<>> = <<>> /\ <<>> \o a = a /\ a \o <<>> = a /\ b \o <<>> = b /\ c \o <<>> = c
      /\ (a \o b) \o c = a \o (b \o c) /\ (b \o c) \o d = b \o (c \o d)
  <2>1. <<>> \o <<>> = <<>> /\ <<>> \o a = a /\ a \o <<>> = a /\ b \o <<>> = b /\ c \o <<>> = c
    BY Glue
  <2>2. Tied(a, b, c) /\ Tied(b, c, d)
    BY TiedTogether
  <2> QED
    BY <2>1, <2>2 DEF Tied
<1>3. (a \o x) \o d = a \o (x \o d)
  <2> HIDE DEF x
  <2>1. Tied(a, x, d)
    BY <1>1, TiedTogether
  <2> QED
    BY <2>1 DEF Tied
<1>4. /\ Row(<<>>, <<>>, <<>>, <<>>) = <<>>
      /\ Row(a, <<>>, <<>>, <<>>) = a
      /\ Row(a, b, <<>>, <<>>) = a \o b
      /\ Row(a, b, c, <<>>) = a \o x
  BY <1>2 DEF Row
<1>5. Row(a, b, c, d) = a \o (x \o d)
  BY <1>2 DEF Row
<1>6. (a \o b) \o c = a \o x
  BY <1>2
<1> HIDE DEF x
<1> QED
  BY <1>2, <1>3, <1>4, <1>5, <1>6, Zenon DEF BackOf

Quads == [1 .. 4 -> Seq(Byte)]

\* A span is a sequence of bytes, and empty if it ends where it begins.
LEMMA SpanTyped ==
    ASSUME NEW m \in Quads, NEW from \in 0 .. 4, NEW to \in 0 .. 4
    PROVE  Span(m, from, to) \in Seq(Byte) /\ (from = to => Span(m, from, to) = <<>>)
<1> DEFINE T(i) == Turn(m, from, i, to)
<1>1. /\ T(1) \in Seq(Byte) /\ T(2) \in Seq(Byte) /\ T(3) \in Seq(Byte) /\ T(4) \in Seq(Byte)
      /\ from = to => T(1) = <<>> /\ T(2) = <<>> /\ T(3) = <<>> /\ T(4) = <<>>
  BY DEF Turn, Quads
<1>2. Span(m, from, to) = Row(T(1), T(2), T(3), T(4))
  BY DEF Span
<1>3. Row(T(1), T(2), T(3), T(4)) \in Seq(Byte) /\ Row(<<>>, <<>>, <<>>, <<>>) = <<>>
  BY <1>1, RowTyped
<1> HIDE DEF T
<1> QED
  BY <1>1, <1>2, <1>3, Zenon

\* The first message of a span.
LEMMA SpanFirst ==
    ASSUME NEW m \in Quads, NEW from \in 0 .. 4, NEW to \in 0 .. 4, from < to
    PROVE  Span(m, from, to) = m[from + 1] \o Span(m, from + 1, to)
<1> DEFINE T(i) == Turn(m, from, i, to)
           U(i) == Turn(m, from + 1, i, to)
<1>1. T(1) \in Seq(Byte) /\ T(2) \in Seq(Byte) /\ T(3) \in Seq(Byte) /\ T(4) \in Seq(Byte)
  BY DEF Turn, Quads
<1>2. Span(m, from, to) = Row(T(1), T(2), T(3), T(4)) /\ Span(m, from + 1, to) = Row(U(1), U(2), U(3), U(4))
  BY DEF Span
<1>3. \/ from = 0 /\ T(1) = m[from + 1] /\ U(1) = <<>> /\ U(2) = T(2) /\ U(3) = T(3) /\ U(4) = T(4)
      \/ from = 1 /\ T(2) = m[from + 1] /\ T(1) = <<>> /\ U(1) = <<>> /\ U(2) = <<>> /\ U(3) = T(3) /\ U(4) = T(4)
      \/ from = 2 /\ T(3) = m[from + 1] /\ T(1) = <<>> /\ T(2) = <<>>
                  /\ U(1) = <<>> /\ U(2) = <<>> /\ U(3) = <<>> /\ U(4) = T(4)
      \/ from = 3 /\ T(4) = m[from + 1] /\ T(1) = <<>> /\ T(2) = <<>> /\ T(3) = <<>>
                  /\ U(1) = <<>> /\ U(2) = <<>> /\ U(3) = <<>> /\ U(4) = <<>>
  BY DEF Turn
<1>4. FrontOf(T(1), T(2), T(3), T(4))
  BY <1>1, RowFront
<1> HIDE DEF T, U
<1> QED
  BY <1>2, <1>3, <1>4, Zenon DEF FrontOf

\* The last one.
LEMMA SpanLast ==
    ASSUME NEW m \in Quads, NEW from \in 0 .. 4, NEW to \in 0 .. 3, from <= to
    PROVE  Span(m, from, to) \o m[to + 1] = Span(m, from, to + 1)
<1> DEFINE T(i) == Turn(m, from, i, to)
           U(i) == Turn(m, from, i, to + 1)
<1>1. U(1) \in Seq(Byte) /\ U(2) \in Seq(Byte) /\ U(3) \in Seq(Byte) /\ U(4) \in Seq(Byte)
  BY DEF Turn, Quads
<1>2. Span(m, from, to) = Row(T(1), T(2), T(3), T(4)) /\ Span(m, from, to + 1) = Row(U(1), U(2), U(3), U(4))
  BY DEF Span
<1>3. \/ to = 0 /\ U(1) = m[to + 1] /\ U(2) = <<>> /\ U(3) = <<>> /\ U(4) = <<>>
                /\ T(1) = <<>> /\ T(2) = <<>> /\ T(3) = <<>> /\ T(4) = <<>>
      \/ to = 1 /\ U(2) = m[to + 1] /\ U(3) = <<>> /\ U(4) = <<>>
                /\ T(1) = U(1) /\ T(2) = <<>> /\ T(3) = <<>> /\ T(4) = <<>>
      \/ to = 2 /\ U(3) = m[to + 1] /\ U(4) = <<>> /\ T(1) = U(1) /\ T(2) = U(2) /\ T(3) = <<>> /\ T(4) = <<>>
      \/ to = 3 /\ U(4) = m[to + 1] /\ T(1) = U(1) /\ T(2) = U(2) /\ T(3) = U(3) /\ T(4) = <<>>
  BY DEF Turn
<1>4. BackOf(U(1), U(2), U(3), U(4))
  BY <1>1, RowBack
<1> HIDE DEF T, U
<1> QED
  BY <1>2, <1>3, <1>4, Zenon DEF BackOf

\* A prefix, element by element.
LEMMA ElementWise ==
    ASSUME NEW s \in Seq(Byte), NEW w \in Seq(Byte)
    PROVE  IsPrefix(s, w) <=> Len(s) <= Len(w) /\ \A i \in 1 .. Len(s) : s[i] = w[i]
<1>1. Len(s) \in Nat /\ Len(w) \in Nat
  OBVIOUS
<1>2. SUFFICES ASSUME Len(s) <= Len(w)
               PROVE  SubSeq(s, 1, Len(s)) = SubSeq(w, 1, Len(s)) <=> \A i \in 1 .. Len(s) : s[i] = w[i]
  BY <1>1 DEF IsPrefix
<1> DEFINE x == SubSeq(s, 1, Len(s))
           y == SubSeq(w, 1, Len(s))
<1>3. /\ x \in Seq(Byte) /\ y \in Seq(Byte) /\ Len(x) = Len(s) /\ Len(y) = Len(s)
      /\ \A i \in 1 .. Len(s) : x[i] = s[i] /\ y[i] = w[i]
  BY <1>1, <1>2
<1> HIDE DEF x, y
<1>4. x = y <=> \A i \in 1 .. Len(s) : s[i] = w[i]
  BY <1>3
<1> QED
  BY <1>4 DEF x, y

\* The beginning of a prefix is a prefix, and the same in both.
LEMMA PrefixPart ==
    ASSUME NEW s \in Seq(Byte), NEW w \in Seq(Byte), IsPrefix(s, w), NEW n \in Nat, n <= Len(s)
    PROVE  /\ SubSeq(s, 1, n) \in Seq(Byte) /\ Len(SubSeq(s, 1, n)) = n
           /\ SubSeq(s, 1, n) = SubSeq(w, 1, n) /\ IsPrefix(SubSeq(s, 1, n), w)
           /\ n <= Len(w)
<1> DEFINE x == SubSeq(s, 1, n)
           y == SubSeq(w, 1, n)
<1>1. Len(s) \in Nat /\ Len(w) \in Nat /\ Len(s) <= Len(w) /\ \A i \in 1 .. Len(s) : s[i] = w[i]
  BY ElementWise
<1>2. /\ x \in Seq(Byte) /\ y \in Seq(Byte) /\ Len(x) = n /\ Len(y) = n
      /\ \A i \in 1 .. n : x[i] = s[i] /\ y[i] = w[i]
  BY <1>1
<1> HIDE DEF x, y
<1>3. \A i \in 1 .. n : i \in 1 .. Len(s)
  BY <1>1
<1>4. x = y /\ n <= Len(w)
  BY <1>1, <1>2, <1>3
<1>5. IsPrefix(x, w)
  BY <1>1, <1>2, <1>3, <1>4, ElementWise
<1> QED
  BY <1>2, <1>4, <1>5 DEF x, y

\* The rest behind a common beginning.
LEMMA PrefixRest ==
    ASSUME NEW s \in Seq(Byte), NEW b \in Seq(Byte), NEW t \in Seq(Byte), IsPrefix(s, b \o t),
           Len(b) <= Len(s)
    PROVE  LET rest == SubSeq(s, Len(b) + 1, Len(s)) IN
           /\ rest \in Seq(Byte) /\ Len(rest) = Len(s) - Len(b)
           /\ IsPrefix(rest, t)
           /\ s = b \o t => rest = t
<1> DEFINE w == b \o t
           rest == SubSeq(s, Len(b) + 1, Len(s))
<1>1. /\ w \in Seq(Byte) /\ Len(w) = Len(b) + Len(t) /\ Len(b) \in Nat /\ Len(t) \in Nat /\ Len(s) \in Nat
      /\ \A i \in 1 .. Len(t) : w[Len(b) + i] = t[i]
  BY Joined
<1> HIDE DEF w
<1>2. Len(s) <= Len(w) /\ \A i \in 1 .. Len(s) : s[i] = w[i]
  BY <1>1, ElementWise DEF w
<1>3. /\ rest \in Seq(Byte) /\ Len(rest) = Len(s) - Len(b)
      /\ \A i \in 1 .. Len(rest) : rest[i] = s[Len(b) + i]
  BY <1>1
<1> HIDE DEF rest
<1>4. Len(rest) <= Len(t)
  BY <1>1, <1>2, <1>3
<1>5. ASSUME NEW i \in 1 .. Len(rest) PROVE rest[i] = t[i]
  <2>1. Len(b) + i \in 1 .. Len(s) /\ i \in 1 .. Len(t)
    BY <1>1, <1>3, <1>4
  <2> QED
    BY <1>1, <1>2, <1>3, <2>1
<1>6. IsPrefix(rest, t)
  BY <1>3, <1>4, <1>5, ElementWise
<1>7. s = w => rest = t
  <2>1. s = w => Len(rest) = Len(t)
    BY <1>1, <1>3
  <2>2. Len(rest) = Len(t) => rest = t
    BY <1>3, <1>5
  <2> QED
    BY <2>1, <2>2
<1> QED
  BY <1>3, <1>6, <1>7 DEF rest, w

\* Every sequence is a prefix of itself; one of nothing is nothing.
LEMMA PrefixEnds ==
    ASSUME NEW s \in Seq(Byte)
    PROVE  IsPrefix(s, s) /\ (IsPrefix(s, <<>>) => s = <<>>)
<1>1. IsPrefix(s, s)
  BY ElementWise
<1>2. IsPrefix(s, <<>>) => s = <<>>
  BY DEF IsPrefix
<1> QED
  BY <1>1, <1>2

-----------------------------------------------------------------------------
(* Reading from a stream.                                                  *)

\* A read of nothing waits.
LEMMA ReadNothing == ASSUME NEW type \in Types PROVE ReadFrom(type, <<>>) = More
BY DEF Types, ReadFrom, greeting_read_from, method_selection_read_from, user_pass_read_from,
       user_pass_response_read_from, request_read_from, reply_read_from, Versioned, Having

\* A read waits for the first message, and then is that message.
LEMMA ReadFirst ==
    ASSUME NEW type \in Types, NEW m, NEW b \in Seq(Byte), NEW t \in Seq(Byte),
           ReadFrom(type, b) = Expected(type, m, Len(b)),
           NEW n \in Nat, n <= Len(b \o t), ReadFrom(type, SubSeq(b \o t, 1, n)) # More
    PROVE  ReadFrom(type, SubSeq(b \o t, 1, n)) = Expected(type, m, Len(b)) /\ Len(b) <= n
<1> DEFINE w == b \o t
           now == SubSeq(w, 1, n)
<1>1. /\ w \in Seq(Byte) /\ Len(w) = Len(b) + Len(t) /\ Len(b) \in Nat /\ Len(t) \in Nat
      /\ \A i \in 1 .. Len(b) : w[i] = b[i]
      /\ \A i \in 1 .. Len(t) : w[Len(b) + i] = t[i]
  BY Joined
<1> HIDE DEF w
<1>2. n <= Len(w) /\ ReadFrom(type, now) # More
  BY DEF w
<1>3. /\ now \in Seq(Byte) /\ Len(now) = n
      /\ \A i \in 1 .. n : now[i] = w[i]
  BY <1>1, <1>2
<1>4. /\ \A k \in 0 .. Len(b) - 1 : ReadFrom(type, SubSeq(b, 1, k)) = More
      /\ \A x \in Seq(Byte) : ReadFrom(type, b \o x) = Expected(type, m, Len(b))
  BY ReadToTheByte
<1> HIDE DEF now
<1>5. CASE n < Len(b)
  <2>1. SubSeq(b, 1, n) \in Seq(Byte) /\ Len(SubSeq(b, 1, n)) = n /\ \A i \in 1 .. n : SubSeq(b, 1, n)[i] = b[i]
    BY <1>1, <1>5
  <2>2. \A i \in 1 .. n : i \in 1 .. Len(b)
    BY <1>1, <1>5
  <2>3. now = SubSeq(b, 1, n)
    <3> DEFINE x == SubSeq(b, 1, n)
    <3>1. x \in Seq(Byte) /\ Len(x) = n /\ \A i \in 1 .. n : x[i] = now[i]
      BY <1>1, <1>3, <2>1, <2>2
    <3> HIDE DEF x
    <3>2. x = now
      BY <1>3, <3>1
    <3> QED
      BY <3>2 DEF x
  <2>4. n \in 0 .. Len(b) - 1
    BY <1>1, <1>5
  <2> QED
    BY <1>2, <1>4, <2>3, <2>4, Zenon
<1>6. CASE Len(b) <= n
  <2> DEFINE x == SubSeq(t, 1, n - Len(b))
  <2>1. n - Len(b) \in Nat /\ n - Len(b) <= Len(t)
    BY <1>1, <1>2, <1>6
  <2>2. /\ x \in Seq(Byte) /\ Len(x) = n - Len(b)
        /\ \A i \in 1 .. n - Len(b) : x[i] = t[i]
    BY <1>1, <2>1
  <2> HIDE DEF x
  <2> DEFINE y == b \o x
  <2>3. /\ y \in Seq(Byte) /\ Len(y) = Len(b) + Len(x)
        /\ \A i \in 1 .. Len(b) : y[i] = b[i]
        /\ \A i \in 1 .. Len(x) : y[Len(b) + i] = x[i]
    BY <2>2, Joined
  <2>7. ReadFrom(type, y) = Expected(type, m, Len(b))
    BY <1>4, <2>2
  <2> HIDE DEF y
  <2>4. Len(y) = n
    BY <1>1, <2>1, <2>2, <2>3
  <2>5. ASSUME NEW i \in 1 .. n PROVE now[i] = y[i]
    <3>1. CASE i <= Len(b)
      <4>1. i \in 1 .. Len(b)
        BY <1>1, <3>1
      <4> QED
        BY <1>1, <1>3, <2>3, <4>1
    <3>2. CASE Len(b) < i
      <4> DEFINE j == i - Len(b)
      <4>1. j \in 1 .. Len(t) /\ j \in 1 .. Len(x) /\ j \in 1 .. n - Len(b) /\ Len(b) + j = i
        BY <1>1, <1>2, <2>1, <2>2, <3>2
      <4> HIDE DEF j
      <4>2. y[Len(b) + j] = x[j] /\ x[j] = t[j] /\ w[Len(b) + j] = t[j]
        BY <1>1, <2>2, <2>3, <4>1, Zenon
      <4> QED
        BY <1>3, <4>1, <4>2
    <3> QED
      BY <1>1, <3>1, <3>2
  <2>6. now = y
    BY <1>3, <2>3, <2>4, <2>5
  <2> QED
    BY <1>6, <2>6, <2>7 DEF now, w
<1> QED
  BY <1>1, <1>5, <1>6 DEF now, w

-----------------------------------------------------------------------------
(* The messages of a dialogue.                                             *)

\* What the server reads in its three steps.
UpType(i) == IF i = 1 THEN "greeting" ELSE IF i = 2 THEN "user_pass" ELSE "request"
UpMessage(i) == IF i = 1 THEN script.methods ELSE IF i = 2 THEN script.credentials ELSE Request

\* The messages of a script can be asked to be encoded.
LEMMA UpTyped ==
    ASSUME script \in Scripts, NEW i \in 1 .. 3
    PROVE  /\ UpType(i) \in Types /\ UpMessage(i) \in Message(UpType(i))
           /\ Blocks[i] = Encode(UpType(i), UpMessage(i))
<1>1. /\ script.methods \in Message("greeting") /\ script.credentials \in Message("user_pass")
      /\ script.command \in Byte /\ script.target \in SocketAddr \cup DomainAddr
  BY DialogueAssumption DEF IsScript
<1>2. Request \in Message("request")
  <2>1. Message("request") = [command : Command, target : SocketAddr \cup DomainAddr]
    BY DEF Message
  <2>2. command_from_byte(script.command) \in Command
    BY <1>1 DEF Command
  <2> QED
    BY <1>1, <2>1, <2>2 DEF Request
<1>3. /\ Blocks[1] = greeting_encode(script.methods) /\ Blocks[2] = user_pass_encode(script.credentials)
      /\ Blocks[3] = request_encode(Request)
  BY DEF Blocks
<1>4. CASE i = 1
  BY <1>1, <1>3, <1>4 DEF UpType, UpMessage, Types, Encode
<1>5. CASE i = 2
  BY <1>1, <1>3, <1>5 DEF UpType, UpMessage, Types, Encode
<1>6. CASE i = 3
  BY <1>2, <1>3, <1>6 DEF UpType, UpMessage, Types, Encode
<1> QED
  BY <1>4, <1>5, <1>6

\* Bytes that are read as message m to the last one.
ReadsAs(type, m, b) == b \in Seq(Byte) /\ ReadFrom(type, b) = Expected(type, m, Len(b))

\* What has been encoded is read back.
LEMMA UpEncodes ==
    ASSUME script \in Scripts, NEW i \in 1 .. 3, Blocks[i].is = "value"
    PROVE  ReadsAs(UpType(i), UpMessage(i), Blocks[i].value)
<1> DEFINE type == UpType(i)
           m == UpMessage(i)
<1>1. type \in Types /\ m \in Message(type) /\ Blocks[i] = Encode(type, m)
  BY UpTyped
<1> HIDE DEF type, m
<1>2. LongestField(type, m) \in Nat
  BY <1>1, FieldIsNat
<1>3. ~(LongestField(type, m) > 255)
  BY <1>1, TooLong, Results
<1>4. LongestField(type, m) <= 255
  BY <1>2, <1>3
<1>5. Encodes(type, m, Blocks[i])
  BY <1>1, <1>4, MessageSurvives
<1>6. PICK b \in Seq(Byte) : Blocks[i] = Value(b, 0) /\ ReadFrom(type, b) = Expected(type, m, Len(b))
  BY <1>5 DEF Encodes
<1>7. Blocks[i].value = b
  BY <1>6, Results
<1> QED
  BY <1>6, <1>7 DEF ReadsAs, type, m

\* What a client says is bytes, and all of it can be encoded if it is said at once.
LEMMA SayingsTyped ==
    ASSUME script \in Scripts
    PROVE  /\ Sayings \in Quads
           /\ Blocks[4] = Value(script.data, 0) /\ Sayings[4] = script.data
           /\ \A i \in 1 .. 4 : Blocks[i].is = "value" => Sayings[i] = Blocks[i].value
           /\ script.eager => \A i \in 1 .. 4 : Blocks[i].is = "value"
<1>1. Blocks[4] = Value(script.data, 0) /\ script.data \in Seq(Byte)
  BY DialogueAssumption DEF Blocks, IsScript
<1>2. Blocks[4].is = "value" /\ Blocks[4].value = script.data
  BY <1>1, Results
<1>3. \A i \in 1 .. 4 : Sayings[i] = IF Blocks[i].is = "value" THEN Blocks[i].value ELSE <<>>
  BY DEF Sayings
<1>4. \A i \in 1 .. 3 : Blocks[i].is = "value" => Blocks[i].value \in Seq(Byte)
  BY UpEncodes DEF ReadsAs
<1>5. ASSUME NEW i \in 1 .. 4 PROVE Sayings[i] \in Seq(Byte)
  <2>1. i \in 1 .. 3 \/ i = 4
    OBVIOUS
  <2>2. Blocks[i].is = "value" => Blocks[i].value \in Seq(Byte)
    BY <1>1, <1>2, <1>4, <2>1, Zenon
  <2> QED
    BY <1>3, <2>2, Glue, Zenon
<1>6. Sayings \in Quads
  BY <1>5 DEF Sayings, Quads
<1>7. ASSUME script.eager, NEW i \in 1 .. 3 PROVE Blocks[i].is = "value"
  <2> DEFINE type == UpType(i)
             m == UpMessage(i)
  <2>1. type \in Types /\ m \in Message(type) /\ Blocks[i] = Encode(type, m)
    BY UpTyped
  <2>2. LongestField(type, m) <= 255
    <3>1. /\ LongestField("greeting", script.methods) <= 255
          /\ LongestField("user_pass", script.credentials) <= 255
          /\ LongestField("request", [target |-> script.target]) <= 255
      BY <1>7, DialogueAssumption DEF IsClient
    <3>2. LongestField("request", Request) = LongestField("request", [target |-> script.target])
      BY DEF LongestField, Request
    <3> QED
      BY <3>1, <3>2 DEF UpType, UpMessage
  <2> HIDE DEF type, m
  <2>3. Encodes(type, m, Blocks[i])
    BY <2>1, <2>2, MessageSurvives
  <2> QED
    BY <2>3, Results DEF Encodes
<1> QED
  BY <1>1, <1>2, <1>3, <1>6, <1>7

\* What the client reads, and the value it waits for.
DownType(n) == IF n = 0 THEN "method_selection" ELSE IF n = 1 THEN "user_pass_response" ELSE "reply"

Welcome(n) == IF n = 0 THEN METHOD_USER_PASS ELSE IF n = 1 THEN AUTH_STATUS_SUCCESS
              ELSE reply_new([name |-> "succeeded"])

\* An answer of one byte is read as that byte.
LEMMA AnswerReads ==
    ASSUME NEW v \in Byte
    PROVE  /\ ReadsAs("method_selection", v, method_selection_encode(v))
           /\ ReadsAs("user_pass_response", v, user_pass_response_encode(v))
BY AnswerSurvives, Results DEF Encodes, ReadsAs

\* A reply is read as its code.
LEMMA ReplyReads ==
    ASSUME NEW code \in CodeNames
    PROVE  ReadsAs("reply", reply_new([name |-> code]), Reply(code))
<1> DEFINE m == reply_new([name |-> code])
<1>1. PICK i \in DOMAIN ReplyCodes : code = ReplyCodes[i]
  BY DEF CodeNames
<1>2. DOMAIN ReplyCodes = 1 .. 9
  BY DEF ReplyCodes
<1>3. i - 1 \in Byte /\ (i - 1) + 1 = i
  BY <1>1, <1>2 DEF Byte
<1>4. [name |-> code] = reply_code_from_byte(i - 1)
  BY <1>1, <1>3 DEF reply_code_from_byte
<1>5. [name |-> code] \in ReplyCode
  BY <1>3, <1>4, Zenon DEF ReplyCode
<1>6. [ip |-> Unspecified, port |-> 0] \in SocketAddr
  BY DEF SocketAddr, IpAddr, Port, Unspecified, Byte
<1>7. m \in Message("reply")
  BY <1>5, <1>6 DEF reply_new, Message
<1>8. Encodes("reply", m, Value(Reply(code), 0))
  BY <1>7, ReplySurvives DEF Reply
<1> HIDE DEF m
<1>9. ReadsAs("reply", m, Reply(code))
  BY <1>8, Results DEF Encodes, ReadsAs
<1> QED
  BY <1>9 DEF m

\* The tidings are read as what they are.
LEMMA TidingsTyped ==
    /\ Tidings \in Quads
    /\ \A n \in 0 .. 2 : ReadsAs(DownType(n), Welcome(n), Tidings[n + 1])
<1>1. METHOD_USER_PASS \in Byte /\ AUTH_STATUS_SUCCESS \in Byte
  BY DEF METHOD_USER_PASS, AUTH_STATUS_SUCCESS, Byte
<1>2. "succeeded" \in CodeNames
  <2>1. 1 \in DOMAIN ReplyCodes /\ ReplyCodes[1] = "succeeded"
    BY DEF ReplyCodes
  <2> QED
    BY <2>1, Zenon DEF CodeNames
<1>3. /\ ReadsAs("method_selection", METHOD_USER_PASS, method_selection_encode(METHOD_USER_PASS))
      /\ ReadsAs("user_pass_response", AUTH_STATUS_SUCCESS, user_pass_response_encode(AUTH_STATUS_SUCCESS))
      /\ ReadsAs("reply", reply_new([name |-> "succeeded"]), Reply("succeeded"))
  BY <1>1, <1>2, AnswerReads, ReplyReads
<1>4. /\ Tidings[1] = method_selection_encode(METHOD_USER_PASS)
      /\ Tidings[2] = user_pass_response_encode(AUTH_STATUS_SUCCESS)
      /\ Tidings[3] = Reply("succeeded") /\ Tidings[4] = Banner /\ DOMAIN Tidings = 1 .. 4
  BY DEF Tidings
<1>5. Banner \in Seq(Byte)
  BY DialogueAssumption
<1>6. ASSUME NEW n \in 0 .. 2 PROVE ReadsAs(DownType(n), Welcome(n), Tidings[n + 1])
  BY <1>3, <1>4 DEF DownType, Welcome
<1>7. \A i \in 1 .. 4 : Tidings[i] \in Seq(Byte)
  <2>1. Tidings[1] \in Seq(Byte) /\ Tidings[2] \in Seq(Byte) /\ Tidings[3] \in Seq(Byte) /\ Tidings[4] \in Seq(Byte)
    BY <1>3, <1>4, <1>5, Zenon DEF ReadsAs
  <2> QED
    BY <2>1
<1>8. Tidings \in Quads
  <2>1. Tidings = [i \in 1 .. 4 |-> Tidings[i]]
    BY DEF Tidings
  <2> QED
    BY <1>7, <2>1, Zenon DEF Quads
<1> QED
  BY <1>6, <1>8

\* What OutcomesAgree says of a refusal.
Agrees(error) ==
    /\ error \notin {"none", "ok", "io"}
    /\ error = "method_rejected" => reason = "no_acceptable_auth_method"
    /\ error = "auth_rejected" => reason = "auth_failed" /\ ~Listed
    /\ error \in CodeNames =>
          reason = IF error = "general_failure" /\ report.target = <<>> THEN "invalid_domain" ELSE error

\* The names of the codes are no other outcomes.
LEMMA CodesAreCodes ==
    /\ "succeeded" \in CodeNames
    /\ \A code \in CodeNames :
          code \notin {"none", "ok", "io", "method_rejected", "auth_rejected", "dropped", "field_too_long"}
<1>1. /\ DOMAIN ReplyCodes = 1 .. 9 /\ ReplyCodes[1] = "succeeded"
      /\ \A i \in 1 .. 9 : ReplyCodes[i] \notin {"none", "ok", "io", "method_rejected", "auth_rejected",
                                                 "dropped", "field_too_long"}
  BY DEF ReplyCodes
<1>2. 1 \in DOMAIN ReplyCodes
  BY <1>1
<1> QED
  BY <1>1, <1>2, Zenon DEF CodeNames

\* Every answer can be read.
LEMMA AnswersTyped ==
    \A last \in Answers : last \in Seq(Byte)
<1>1. METHOD_NO_ACCEPTABLE \in Byte /\ AUTH_STATUS_FAILURE \in Byte
  BY DEF METHOD_NO_ACCEPTABLE, AUTH_STATUS_FAILURE, Byte
<1>2. /\ method_selection_encode(METHOD_NO_ACCEPTABLE) \in Seq(Byte)
      /\ user_pass_response_encode(AUTH_STATUS_FAILURE) \in Seq(Byte)
  BY <1>1, AnswerReads DEF ReadsAs
<1>3. \A code \in CodeNames \ {"succeeded"} : Reply(code) \in Seq(Byte)
  BY ReplyReads, Zenon DEF ReadsAs
<1>4. <<>> \in Seq(Byte)
  BY Glue
<1> QED
  BY <1>2, <1>3, <1>4, Zenon DEF Answers

\* Nothing is refused in an answer of the server.
LEMMA DownExpected ==
    ASSUME NEW n \in 0 .. 2, NEW v, NEW k
    PROVE  /\ DownType(n) \in Types
           /\ Expected(DownType(n), v, k) = Value(v, k)
           /\ \A bytes : Answer(n, bytes) = ReadFrom(DownType(n), bytes)
BY DEF DownType, Types, Expected, OffersNothing, NamesBadDomain, Answer, ReadFrom

\* What the server tells a client that it refuses is read as the refusal.
LEMMA RefusalReads ==
    ASSUME NEW n \in 0 .. 2, NEW last, Refuses(n, last)
    PROVE  \E v : ReadsAs(DownType(n), v, last) /\ Agrees(Refusal(n, v))
<1>1. /\ METHOD_NO_ACCEPTABLE \in Byte /\ AUTH_STATUS_FAILURE \in Byte
      /\ METHOD_NO_ACCEPTABLE # METHOD_USER_PASS /\ AUTH_STATUS_FAILURE # AUTH_STATUS_SUCCESS
  BY DEF METHOD_NO_ACCEPTABLE, METHOD_USER_PASS, AUTH_STATUS_FAILURE, AUTH_STATUS_SUCCESS, Byte
<1>2. CASE n = 0
  <2>1. last = method_selection_encode(METHOD_NO_ACCEPTABLE) /\ reason = "no_acceptable_auth_method"
    BY <1>2 DEF Refuses
  <2>2. Refusal(n, METHOD_NO_ACCEPTABLE) = "method_rejected"
    BY <1>1, <1>2 DEF Refusal
  <2>3. Agrees("method_rejected")
    BY <2>1, CodesAreCodes DEF Agrees
  <2>4. ReadsAs(DownType(n), METHOD_NO_ACCEPTABLE, last)
    BY <1>1, <1>2, <2>1, AnswerReads DEF DownType
  <2> QED
    BY <2>2, <2>3, <2>4
<1>3. CASE n = 1
  <2>1. last = user_pass_response_encode(AUTH_STATUS_FAILURE) /\ reason = "auth_failed" /\ ~Listed
    BY <1>3 DEF Refuses
  <2>2. Refusal(n, AUTH_STATUS_FAILURE) = "auth_rejected"
    BY <1>1, <1>3 DEF Refusal
  <2>3. Agrees("auth_rejected")
    BY <2>1, CodesAreCodes DEF Agrees
  <2>4. ReadsAs(DownType(n), AUTH_STATUS_FAILURE, last)
    BY <1>1, <1>3, <2>1, AnswerReads DEF DownType
  <2> QED
    BY <2>2, <2>3, <2>4
<1>4. CASE n = 2
  <2>1. PICK code \in CodeNames \ {"succeeded"} :
            /\ last = Reply(code)
            /\ reason = IF code = "general_failure" /\ report.target = <<>> THEN "invalid_domain" ELSE code
    BY <1>4 DEF Refuses
  <2> DEFINE v == reply_new([name |-> code])
  <2>2. Refusal(n, v) = code
    BY <1>4, <2>1 DEF Refusal, reply_new
  <2>3. Agrees(code)
    BY <2>1, CodesAreCodes DEF Agrees
  <2>4. ReadsAs(DownType(n), v, last)
    BY <1>4, <2>1, ReplyReads DEF DownType
  <2> QED
    BY <2>2, <2>3, <2>4
<1> QED
  BY <1>2, <1>3, <1>4

-----------------------------------------------------------------------------
(* What is read.                                                           *)

\* The server reads the message that is due, and what follows is left.
LEMMA UpRead ==
    ASSUME Typed, UpHolds, server \in HandshakeSteps, NEW i \in 1 .. 3, i = Read + 1,
           ReadFrom(UpType(i), Arrived(up)) # More
    PROVE  \E size \in Nat :
              /\ ReadFrom(UpType(i), Arrived(up)) = Expected(UpType(i), UpMessage(i), size)
              /\ size <= up.arrived
              /\ Speaks(i, SubSeq(up.bytes, size + 1, Len(up.bytes)))
<1> DEFINE type == UpType(i)
           m == UpMessage(i)
           bytes == up.bytes
           n == up.arrived
<1>1. /\ script \in Scripts /\ toTarget = <<>> /\ server # "closed"
      /\ bytes \in Seq(Byte) /\ n \in Nat /\ n <= Len(bytes)
  BY DEF Typed, IsStream, HandshakeSteps
<1>2. type \in Types
  BY <1>1, UpTyped
<1>3. Sayings \in Quads
  BY <1>1, SayingsTyped
<1>4. Read \in 0 .. 2 /\ Read = i - 1
  BY DEF Read, HandshakeSteps
<1>5. PICK k \in 0 .. 4 : /\ client.does # "gone" => k = Said
                          /\ Read <= k
                          /\ \A j \in 1 .. k : Blocks[j].is = "value"
                          /\ toTarget \o bytes = Span(Sayings, Read, k)
  BY <1>1 DEF UpHolds, Speaks
<1>6. bytes = Span(Sayings, Read, k)
  BY <1>1, <1>5, Glue
<1>7. ReadFrom(type, SubSeq(bytes, 1, n)) # More
  BY DEF Arrived
<1> HIDE DEF bytes, n, type, m
<1>8. Read # k
  <2>1. SUFFICES ASSUME Read = k PROVE FALSE
    OBVIOUS
  <2>2. bytes = <<>>
    BY <1>3, <1>6, <2>1, SpanTyped
  <2>3. SubSeq(bytes, 1, n) = <<>>
    BY <1>1, <2>2
  <2> QED
    BY <1>2, <1>7, <2>3, ReadNothing
<1>9. Read < k /\ i \in 1 .. k /\ i \in 1 .. 4 /\ i <= k /\ Read \in 0 .. 4 /\ i \in 0 .. 4
  BY <1>4, <1>5, <1>8
<1> DEFINE b == Sayings[i]
           t == Span(Sayings, i, k)
<1>10. Blocks[i].is = "value" /\ b = Blocks[i].value
  BY <1>1, <1>5, <1>9, SayingsTyped, Zenon
<1>11. ReadsAs(type, m, b)
  BY <1>1, <1>10, UpEncodes DEF type, m
<1>12. b \in Seq(Byte) /\ ReadFrom(type, b) = Expected(type, m, Len(b)) /\ t \in Seq(Byte)
  BY <1>3, <1>9, <1>11, SpanTyped DEF ReadsAs
<1>13. bytes = b \o t
  <2>1. Read + 1 = i
    OBVIOUS
  <2> QED
    BY <1>3, <1>6, <1>9, <2>1, SpanFirst, Zenon
<1> HIDE DEF b, t
<1>14. /\ ReadFrom(type, SubSeq(bytes, 1, n)) = Expected(type, m, Len(b))
       /\ Len(b) <= n
  BY <1>1, <1>2, <1>7, <1>12, <1>13, ReadFirst
<1>15. SubSeq(bytes, Len(b) + 1, Len(bytes)) = t
  BY <1>1, <1>12, <1>13, <1>14, PrefixRest, PrefixEnds
<1>16. Speaks(i, t)
  BY <1>5, <1>9 DEF Speaks, t
<1>17. Len(b) \in Nat
  BY <1>12
<1> QED
  BY <1>14, <1>15, <1>16, <1>17 DEF bytes, n, type, m, Arrived

\* A server that is there has told what Tells says, and nothing behind it.
LEMMA EndsTyped ==
    ASSUME NEW w \in 0 .. 4, NEW last \in Answers, Ends(w, last)
    PROVE  last \in Seq(Byte) /\ (w > 2 => server = "relaying" /\ last = <<>>)
<1>1. last \in Seq(Byte)
  BY AnswersTyped
<1>2. w > 2 => server = "relaying" /\ last = <<>>
  BY DEF Ends, Tells
<1> QED
  BY <1>1, <1>2

\* What has arrived of a message and what follows it.
LEMMA ReadAhead ==
    ASSUME NEW type \in Types, NEW m, NEW b, ReadsAs(type, m, b), NEW t \in Seq(Byte),
           NEW bytes \in Seq(Byte), IsPrefix(bytes, b \o t), NEW k \in Nat, k <= Len(bytes),
           ReadFrom(type, SubSeq(bytes, 1, k)) # More
    PROVE  /\ ReadFrom(type, SubSeq(bytes, 1, k)) = Expected(type, m, Len(b))
           /\ Len(b) \in Nat /\ Len(b) <= k
           /\ IsPrefix(SubSeq(bytes, Len(b) + 1, Len(bytes)), t)
           /\ bytes = b \o t => SubSeq(bytes, Len(b) + 1, Len(bytes)) = t
<1>1. b \in Seq(Byte) /\ ReadFrom(type, b) = Expected(type, m, Len(b))
  BY DEF ReadsAs
<1> DEFINE x == b \o t
<1>2. x \in Seq(Byte) /\ IsPrefix(bytes, x)
  BY <1>1, Glue
<1> HIDE DEF x
<1>3. SubSeq(bytes, 1, k) = SubSeq(x, 1, k) /\ k <= Len(x)
  BY <1>2, PrefixPart
<1>4. ReadFrom(type, SubSeq(b \o t, 1, k)) # More /\ k <= Len(b \o t)
  BY <1>3 DEF x
<1>5. ReadFrom(type, SubSeq(b \o t, 1, k)) = Expected(type, m, Len(b)) /\ Len(b) <= k
  BY <1>1, <1>4, ReadFirst
<1>6. Len(b) \in Nat /\ Len(b) <= Len(bytes)
  BY <1>1, <1>5
<1>7. /\ IsPrefix(SubSeq(bytes, Len(b) + 1, Len(bytes)), t)
      /\ bytes = b \o t => SubSeq(bytes, Len(b) + 1, Len(bytes)) = t
  BY <1>1, <1>6, PrefixRest
<1> QED
  BY <1>3, <1>5, <1>6, <1>7 DEF x

\* The client reads the answer that is due: the server goes on with it, and
\* what follows is left, or has refused it for the reason that it logs.
LEMMA DownRead ==
    ASSUME Typed, DownHolds, client.does = "reading", Answer(client.answers, Arrived(down)) # More
    PROVE  \E v : \E size \in Nat :
              /\ Answer(client.answers, Arrived(down)) = Value(v, size)
              /\ size <= down.arrived
              /\ \/ /\ Refusal(client.answers, v) = "none"
                    /\ Finds(client.answers + 1, SubSeq(down.bytes, size + 1, Len(down.bytes)))
                 \/ Agrees(Refusal(client.answers, v))
<1> DEFINE n == client.answers
           bytes == down.bytes
           k == down.arrived
           type == DownType(n)
           Goal(v, size) ==
              /\ Answer(n, Arrived(down)) = Value(v, size)
              /\ size <= k
              /\ \/ Refusal(n, v) = "none" /\ Finds(n + 1, SubSeq(bytes, size + 1, Len(bytes)))
                 \/ Agrees(Refusal(n, v))
<1> SUFFICES \E v : \E size \in Nat : Goal(v, size)
  OBVIOUS
<1>1. /\ n \in 0 .. 2 /\ client.does # "gone"
      /\ bytes \in Seq(Byte) /\ k \in Nat /\ k <= Len(bytes)
  BY DEF Typed, IsStream
<1>2. PICK w \in 0 .. 4, last \in Answers :
          /\ n <= w
          /\ Ends(w, last)
          /\ IsPrefix(bytes, Span(Tidings, n, w) \o last)
          /\ down.open => bytes = Span(Tidings, n, w) \o last
  BY <1>1 DEF DownHolds, Finds
<1>3. last \in Seq(Byte)
  BY <1>2, EndsTyped
<1>4. /\ type \in Types
      /\ Answer(n, Arrived(down)) = ReadFrom(type, SubSeq(bytes, 1, k))
      /\ \A v, size : Expected(type, v, size) = Value(v, size)
  BY <1>1, DownExpected DEF Arrived
<1>5. ReadFrom(type, SubSeq(bytes, 1, k)) # More
  BY <1>4
<1>6. Tidings \in Quads /\ ReadsAs(type, Welcome(n), Tidings[n + 1])
  BY <1>1, TidingsTyped
<1>9. Refuses(n, last) => \E v : ReadsAs(type, v, last) /\ Agrees(Refusal(n, v))
  BY <1>1, RefusalReads
<1>10. Refusal(n, Welcome(n)) = "none"
  BY <1>1 DEF Refusal, Welcome, reply_new
<1> HIDE DEF n, bytes, k, type
<1>7. CASE n < w
  <2> DEFINE b == Tidings[n + 1]
             span == Span(Tidings, n + 1, w)
             t == span \o last
  <2>1. n + 1 \in 0 .. 4 /\ n \in 0 .. 4 /\ n + 1 <= w
    BY <1>1, <1>7
  <2>2. b \in Seq(Byte) /\ span \in Seq(Byte)
    BY <1>6, <2>1, SpanTyped, Zenon DEF ReadsAs
  <2>3. Span(Tidings, n, w) = b \o span
    BY <1>6, <1>7, <2>1, SpanFirst
  <2>4. ReadsAs(type, Welcome(n), b)
    BY <1>6
  <2> HIDE DEF b, span
  <2>5. t \in Seq(Byte) /\ (b \o span) \o last = b \o t
    BY <1>3, <2>2, Glue, Zenon
  <2>6. /\ IsPrefix(bytes, b \o t)
        /\ down.open => bytes = b \o t
    BY <1>2, <2>3, <2>5, Zenon
  <2> HIDE DEF t
  <2>7. /\ ReadFrom(type, SubSeq(bytes, 1, k)) = Expected(type, Welcome(n), Len(b))
        /\ Len(b) \in Nat /\ Len(b) <= k
        /\ IsPrefix(SubSeq(bytes, Len(b) + 1, Len(bytes)), t)
        /\ bytes = b \o t => SubSeq(bytes, Len(b) + 1, Len(bytes)) = t
    BY <1>1, <1>4, <1>5, <2>4, <2>5, <2>6, ReadAhead
  <2>8. Finds(n + 1, SubSeq(bytes, Len(b) + 1, Len(bytes)))
    BY <1>2, <2>1, <2>6, <2>7, Zenon DEF Finds, t, span
  <2>9. Goal(Welcome(n), Len(b))
    BY <1>4, <1>10, <2>7, <2>8, Zenon
  <2> QED
    BY <2>7, <2>9, Zenon
<1>8. CASE n = w
  <2>1. IsPrefix(bytes, last)
    <3>1. Span(Tidings, n, w) = <<>>
      BY <1>1, <1>6, <1>8, SpanTyped
    <3> QED
      BY <1>2, <1>3, <3>1, Glue
  <2>2. last # <<>>
    <3>1. SUFFICES ASSUME last = <<>> PROVE FALSE
      OBVIOUS
    <3>2. bytes = <<>>
      BY <1>1, <2>1, <3>1, PrefixEnds
    <3>3. SubSeq(bytes, 1, k) = <<>>
      BY <1>1, <3>2
    <3> QED
      BY <1>4, <1>5, <3>3, ReadNothing
  <2>3. Refuses(n, last)
    BY <1>2, <1>8, <2>2 DEF Ends
  <2>4. PICK v : ReadsAs(type, v, last) /\ Agrees(Refusal(n, v))
    BY <1>9, <2>3
  <2>5. last \o <<>> = last /\ <<>> \in Seq(Byte)
    BY <1>3, Glue
  <2>6. /\ ReadFrom(type, SubSeq(bytes, 1, k)) = Expected(type, v, Len(last))
        /\ Len(last) \in Nat /\ Len(last) <= k
    <3> DEFINE t == <<>>
    <3>1. t \in Seq(Byte) /\ last \o t = last
      BY <2>5
    <3> HIDE DEF t
    <3>2. t \in Seq(Byte) /\ IsPrefix(bytes, last \o t)
      BY <2>1, <3>1
    <3> QED
      BY <1>1, <1>4, <1>5, <2>4, <3>2, ReadAhead
  <2>7. Goal(v, Len(last))
    BY <1>4, <2>4, <2>6, Zenon
  <2> QED
    BY <2>6, <2>7, Zenon
<1> HIDE DEF Goal
<1> QED
  BY <1>1, <1>2, <1>7, <1>8 DEF n

-----------------------------------------------------------------------------
(* Steps.                                                                  *)

\* What depends on the script only.
LEMMA ScriptKept ==
    ASSUME script' = script
    PROVE  Blocks' = Blocks /\ Sayings' = Sayings /\ (Listed' <=> Listed)
<1>1. Request' = Request
  BY DEF Request
<1>2. Blocks' = Blocks
  BY <1>1 DEF Blocks
<1>3. Sayings' = Sayings
  BY <1>2 DEF Sayings
<1>4. Listed' <=> Listed
  BY DEF Listed
<1> QED
  BY <1>2, <1>3, <1>4

\* What depends on the client, too.
LEMMA ClientKept ==
    ASSUME script' = script, client' = client
    PROVE  Said' = Said
BY DEF Said

\* Bytes are read from a stream.
LEMMA TakenTyped ==
    ASSUME NEW s, IsStream(s), NEW size \in Nat, size <= s.arrived
    PROVE  /\ IsStream(Taken(s, size))
           /\ Taken(s, size).bytes = SubSeq(s.bytes, size + 1, Len(s.bytes))
           /\ Taken(s, size).open = s.open
           /\ size = 0 => Taken(s, size).bytes = s.bytes
<1>1. /\ s \in [bytes : Seq(Byte), arrived : Nat, open : BOOLEAN] /\ s.arrived <= Len(s.bytes)
      /\ s.bytes \in Seq(Byte) /\ s.arrived \in Nat /\ Len(s.bytes) \in Nat
  BY DEF IsStream
<1> DEFINE rest == SubSeq(s.bytes, size + 1, Len(s.bytes))
<1>2. /\ rest \in Seq(Byte) /\ Len(rest) = Len(s.bytes) - size
      /\ size = 0 => rest = s.bytes
  BY <1>1
<1> HIDE DEF rest
<1>3. s.arrived - size \in Nat /\ s.arrived - size <= Len(rest)
  BY <1>1, <1>2
<1>4. Taken(s, size) = [s EXCEPT !.bytes = rest, !.arrived = s.arrived - size]
  BY DEF Taken, rest
<1>5. /\ Taken(s, size) \in [bytes : Seq(Byte), arrived : Nat, open : BOOLEAN]
      /\ Taken(s, size).bytes = rest /\ Taken(s, size).arrived = s.arrived - size
      /\ Taken(s, size).open = s.open
  BY <1>1, <1>2, <1>3, <1>4
<1> QED
  BY <1>2, <1>3, <1>5 DEF IsStream, rest

\* Bytes are written to a stream.
LEMMA WrittenTyped ==
    ASSUME NEW s, IsStream(s), NEW bytes \in Seq(Byte)
    PROVE  /\ IsStream(Written(s, bytes))
           /\ Written(s, bytes).bytes = s.bytes \o bytes
           /\ Written(s, bytes).open = s.open
<1>1. /\ s \in [bytes : Seq(Byte), arrived : Nat, open : BOOLEAN] /\ s.arrived <= Len(s.bytes)
      /\ s.bytes \in Seq(Byte) /\ s.arrived \in Nat /\ Len(s.bytes) \in Nat /\ Len(bytes) \in Nat
  BY DEF IsStream
<1> DEFINE more == s.bytes \o bytes
<1>2. more \in Seq(Byte) /\ Len(more) = Len(s.bytes) + Len(bytes)
  BY <1>1
<1> HIDE DEF more
<1>3. Written(s, bytes) = [s EXCEPT !.bytes = more]
  BY DEF Written, more
<1>4. /\ Written(s, bytes) \in [bytes : Seq(Byte), arrived : Nat, open : BOOLEAN]
      /\ Written(s, bytes).bytes = more /\ Written(s, bytes).arrived = s.arrived
      /\ Written(s, bytes).open = s.open
  BY <1>1, <1>2, <1>3
<1> QED
  BY <1>1, <1>2, <1>4 DEF IsStream, more

\* A stream is closed.
LEMMA ClosedTyped ==
    ASSUME NEW s, IsStream(s)
    PROVE  IsStream(Closed(s)) /\ Closed(s).bytes = s.bytes /\ Closed(s).open = FALSE
<1>1. s \in [bytes : Seq(Byte), arrived : Nat, open : BOOLEAN] /\ s.arrived <= Len(s.bytes)
  BY DEF IsStream
<1>2. /\ Closed(s) \in [bytes : Seq(Byte), arrived : Nat, open : BOOLEAN]
      /\ Closed(s).bytes = s.bytes /\ Closed(s).arrived = s.arrived /\ Closed(s).open = FALSE
  BY <1>1 DEF Closed
<1> QED
  BY <1>1, <1>2 DEF IsStream

\* What the client finds of a server that is there.
LEMMA Told ==
    ASSUME Typed, DownHolds, client.does # "gone", server # "closed"
    PROVE  \E w \in 0 .. 4 :
              /\ Tells(w) /\ client.answers <= w
              /\ down.bytes = Span(Tidings, client.answers, w)
<1>1. PICK w \in 0 .. 4, last \in Answers :
          /\ client.answers <= w
          /\ Ends(w, last)
          /\ down.open => down.bytes = Span(Tidings, client.answers, w) \o last
  BY DEF DownHolds, Finds
<1>2. Tells(w) /\ last = <<>>
  BY <1>1 DEF Ends
<1>3. down.open /\ client.answers \in 0 .. 4
  BY DEF Typed
<1>4. Span(Tidings, client.answers, w) \in Seq(Byte)
  BY <1>3, TidingsTyped, SpanTyped
<1>5. Span(Tidings, client.answers, w) \o <<>> = Span(Tidings, client.answers, w)
  BY <1>4, Glue
<1> QED
  BY <1>1, <1>2, <1>3, <1>5

\* A server has told one number of tidings.
LEMMA TellsOne ==
    ASSUME NEW w \in 0 .. 2, NEW x \in 0 .. 4, Tells(w), Tells(x)
    PROVE  x = w /\ server \notin {"relaying", "closed"}
BY DEF Tells

\* A client that waits for each answer waits when its message is read.
LEMMA Alone ==
    ASSUME Typed, DownHolds, NEW w \in 0 .. 2, Tells(w), NEW rest, Speaks(w + 1, rest),
           ~script.eager, client.does # "gone"
    PROVE  client.answers = w /\ client.does = "reading" /\ rest = <<>> /\ down.bytes = <<>>
<1>1. /\ script \in Scripts /\ client.answers \in 0 .. 3
      /\ client.does \in {"writing", "reading", "relaying"}
      /\ client.does = "relaying" => client.answers = 3
  BY DEF Typed
<1>2. server # "closed"
  BY DEF Tells
<1>3. PICK x \in 0 .. 4 : /\ Tells(x) /\ client.answers <= x
                          /\ down.bytes = Span(Tidings, client.answers, x)
  BY <1>2, Told
<1>4. x = w
  BY <1>3, TellsOne
<1>5. PICK k \in 0 .. 4 : k = Said /\ w + 1 <= k /\ rest = Span(Sayings, w + 1, k)
  BY DEF Speaks
<1>6. client.answers = w /\ client.does = "reading" /\ k = w + 1
  BY <1>1, <1>3, <1>4, <1>5 DEF Said
<1>7. Sayings \in Quads /\ Tidings \in Quads
  BY <1>1, SayingsTyped, TidingsTyped
<1>8. w \in 0 .. 4 /\ w + 1 \in 0 .. 4
  OBVIOUS
<1>9. Span(Sayings, w + 1, w + 1) = <<>> /\ Span(Tidings, w, w) = <<>>
  BY <1>7, <1>8, SpanTyped
<1> QED
  BY <1>3, <1>4, <1>5, <1>6, <1>9

\* Nobody has an outcome that depends on a server that is still busy.
LEMMA NotYet ==
    ASSUME IInv, NEW w \in 0 .. 2, Tells(w)
    PROVE  /\ outcome \notin {"ok", "method_rejected", "auth_rejected"}
           /\ outcome \notin CodeNames
           /\ outcome = "io" => script.eager
<1>1. server # "closed" /\ reason = "none"
  BY DEF IInv, Typed, Tells
<1>2. outcome # "ok"
  <2>1. SUFFICES ASSUME client.answers = 3 PROVE FALSE
    BY DEF IInv, Typed
  <2>2. client.does # "gone"
    BY <2>1 DEF IInv, Typed
  <2>3. PICK x \in 0 .. 4 : Tells(x) /\ client.answers <= x
    BY <1>1, <2>2, Told DEF IInv
  <2> QED
    BY <2>1, <2>3, TellsOne
<1>3. outcome \notin {"method_rejected", "auth_rejected"}
  BY <1>1 DEF IInv, OutcomesAgree
<1>4. outcome \notin CodeNames
  BY <1>1, CodesAreCodes DEF IInv, OutcomesAgree
<1>5. outcome = "io" => script.eager
  BY <1>1, DialogueAssumption DEF IInv, RefusalIsHeard, Typed, IsScript
<1> QED
  BY <1>2, <1>3, <1>4, <1>5

\* What a step of a busy server leaves as it is.
Kept ==
    /\ script' = script /\ client' = client /\ outcome' = outcome
    /\ toTarget' = toTarget /\ fromTarget' = fromTarget
    /\ report' = [user |-> report'.user, target |-> report'.target]

\* The outcomes stay in agreement while nobody depends on the server.
LEMMA AgreementKept ==
    ASSUME IInv, NEW w \in 0 .. 2, Tells(w), Kept
    PROVE  OutcomesAgree' /\ RefusalIsHeard'
<1>1. /\ outcome \notin {"ok", "method_rejected", "auth_rejected"}
      /\ outcome \notin CodeNames
      /\ outcome = "io" => script.eager
  BY NotYet
<1>2. outcome' = outcome /\ script' = script
  BY DEF Kept
<1>3. OutcomesAgree'
  BY <1>1, <1>2 DEF OutcomesAgree
<1>4. RefusalIsHeard'
  BY <1>1, <1>2 DEF RefusalIsHeard
<1> QED
  BY <1>3, <1>4

\* A busy server reads, tells its next tidings and goes on.
LEMMA ServerGoesOn ==
    ASSUME IInv, NEW w \in 0 .. 2, Tells(w), Kept, reason' = reason,
           NEW size \in Nat, size <= up.arrived, up' = Taken(up, size),
           down' = Written(down, Tidings[w + 1]), Tells(w + 1)', server' # "closed",
           NEW i, Read' = i, NEW rest, rest = up'.bytes, Speaks(i, rest), Knows'
    PROVE  IInv'
<1>1. server \notin {"relaying", "closed"}
  BY TellsOne
<1>2. Typed
  BY DEF IInv
<1>3. Tidings[w + 1] \in Seq(Byte) /\ Tidings \in Quads
  BY TidingsTyped DEF Quads
<1>4. IsStream(up') /\ up'.open = up.open
  BY <1>2, TakenTyped DEF Typed
<1>5. IsStream(down') /\ down'.open = down.open /\ down'.bytes = down.bytes \o Tidings[w + 1]
  BY <1>2, <1>3, WrittenTyped DEF Typed
<1>6. server' \in {"credentials", "request", "dialling", "relaying"}
  BY DEF Tells
<1>7. Typed'
  BY <1>1, <1>2, <1>4, <1>5, <1>6 DEF Typed, Kept
<1>8. toTarget' \o up'.bytes = rest
  BY <1>1, <1>2, <1>4, Glue DEF Typed, Kept, IsStream
<1>9. UpHolds'
  BY <1>8, ScriptKept, ClientKept DEF UpHolds, Speaks, Kept
<1>10. DownHolds'
  <2>1. SUFFICES ASSUME client.does # "gone" PROVE Finds(client.answers, down.bytes)'
    BY DEF DownHolds, Kept
  <2>2. PICK x \in 0 .. 4 : /\ Tells(x) /\ client.answers <= x
                            /\ down.bytes = Span(Tidings, client.answers, x)
    BY <1>1, <1>2, <2>1, Told DEF IInv
  <2>3. x = w /\ client.answers \in 0 .. 4 /\ client.answers <= w /\ w \in 0 .. 3 /\ w + 1 \in 0 .. 4
    BY <1>2, <2>2, TellsOne DEF Typed
  <2>4. Span(Tidings, client.answers, w) \o Tidings[w + 1] = Span(Tidings, client.answers, w + 1)
    BY <1>3, <2>3, SpanLast
  <2> DEFINE told == Span(Tidings, client.answers, w + 1)
  <2>5. told \in Seq(Byte)
    BY <1>3, <2>3, SpanTyped
  <2>6. down'.bytes = told
    BY <1>5, <2>2, <2>3, <2>4
  <2>7. told \o <<>> = told /\ IsPrefix(told, told)
    BY <2>5, Glue, PrefixEnds
  <2>8. Ends(w + 1, <<>>)'
    BY DEF Ends
  <2>9. <<>> \in Answers /\ w + 1 \in 0 .. 4 /\ client'.answers = client.answers /\ client.answers <= w + 1
    BY <2>2, <2>3 DEF Answers, Kept
  <2> QED
    BY <2>6, <2>7, <2>8, <2>9 DEF Finds
<1>11. Waits'
  BY DEF Waits
<1> QED
  BY <1>7, <1>9, <1>10, <1>11, AgreementKept DEF IInv

\* A busy server reads, gives its last answer, if any, and closes.
LEMMA ServerCloses ==
    ASSUME IInv, NEW w \in 0 .. 2, Tells(w), Kept,
           NEW size \in Nat, size <= up.arrived, NEW last \in Answers, NEW why, Finish(size, last, why),
           last = <<>> \/ Refuses(w, last)', NEW rest, rest = up'.bytes,
           ~script.eager /\ client.does # "gone" /\ why # "handshake_timeout" =>
              Refuses(w, last)' /\ Speaks(w + 1, rest)
    PROVE  IInv'
<1>1. server \notin {"relaying", "closed"}
  BY TellsOne
<1>2. Typed
  BY DEF IInv
<1>3. /\ up' = Taken(up, size) /\ down' = Closed(Written(down, last))
      /\ server' = "closed" /\ reason' = why
  BY DEF Finish
<1>4. last \in Seq(Byte) /\ Tidings \in Quads
  BY AnswersTyped, TidingsTyped
<1>5. IsStream(up') /\ up'.open = up.open
  BY <1>2, <1>3, TakenTyped DEF Typed
<1>6. IsStream(down') /\ down'.open = FALSE /\ down'.bytes = down.bytes \o last
  <2>1. IsStream(Written(down, last)) /\ Written(down, last).bytes = down.bytes \o last
    BY <1>2, <1>4, WrittenTyped DEF Typed
  <2> QED
    BY <1>3, <2>1, ClosedTyped
<1>7. Typed'
  BY <1>1, <1>2, <1>3, <1>5, <1>6 DEF Typed, Kept
<1>8. UpHolds'
  BY <1>3 DEF UpHolds
<1>9. DownHolds'
  <2>1. SUFFICES ASSUME client.does # "gone" PROVE Finds(client.answers, down.bytes)'
    BY DEF DownHolds, Kept
  <2>2. PICK x \in 0 .. 4 : /\ Tells(x) /\ client.answers <= x
                            /\ down.bytes = Span(Tidings, client.answers, x)
    BY <1>1, <1>2, <2>1, Told DEF IInv
  <2>3. x = w /\ client.answers \in 0 .. 4 /\ client.answers <= w /\ w \in 0 .. 4
    BY <1>2, <2>2, TellsOne DEF Typed
  <2> DEFINE span == Span(Tidings, client.answers, w)
             told == span \o last
  <2>4. span \in Seq(Byte)
    BY <1>4, <2>3, SpanTyped
  <2>5. down'.bytes = told
    BY <1>6, <2>2, <2>3
  <2> HIDE DEF span
  <2>6. told \in Seq(Byte)
    BY <1>4, <2>4, Glue, Zenon
  <2> HIDE DEF told
  <2>7. IsPrefix(told, told)
    BY <2>6, PrefixEnds
  <2>8. Ends(w, last)'
    BY <1>3 DEF Ends
  <2>9. client'.answers = client.answers
    BY DEF Kept
  <2> QED
    BY <1>6, <2>3, <2>5, <2>7, <2>8, <2>9 DEF Finds, told, span
<1>10. Knows'
  BY <1>3 DEF Knows, HandshakeSteps
<1>11. Waits'
  <2>1. SUFFICES ASSUME ~script.eager, client.does # "gone", why # "handshake_timeout"
                 PROVE  up'.bytes = <<>> /\ client'.does = "reading" /\ Refuses(client.answers, down.bytes)'
    BY <1>3 DEF Waits, Kept
  <2>2. client.answers = w /\ client.does = "reading" /\ rest = <<>> /\ down.bytes = <<>>
    BY <1>2, <2>1, Alone DEF IInv
  <2>3. down'.bytes = last
    BY <1>4, <1>6, <2>2, Glue
  <2>4. client'.answers = w /\ client'.does = "reading"
    BY <2>2 DEF Kept
  <2>5. Refuses(w, last)'
    BY <2>1
  <2>6. Refuses(client.answers, down.bytes)'
    BY <2>3, <2>4, <2>5 DEF Refuses
  <2> QED
    BY <2>2, <2>4, <2>6
<1> QED
  BY <1>7, <1>8, <1>9, <1>10, <1>11, AgreementKept DEF IInv

\* negotiate_method keeps the invariant.
LEMMA NegotiateKeeps ==
    ASSUME IInv, negotiate_method
    PROVE  IInv'
<1>1. server = "greeting" /\ Typed /\ UpHolds
  BY DEF negotiate_method, IInv
<1>2. Kept
  BY <1>1 DEF negotiate_method, clientVars, relayVars, Kept, Typed
<1>3. PICK greeting \in Decided(greeting_read_from(Arrived(up))) :
          IF greeting.is = "error"
          THEN Finish(greeting.used, <<>>, CloseReasonOf(greeting.error))
          ELSE IF offers(greeting.value, METHOD_USER_PASS)
          THEN Proceed(greeting.used, method_selection_encode(METHOD_USER_PASS), "credentials")
          ELSE Finish(greeting.used, method_selection_encode(METHOD_NO_ACCEPTABLE),
                      "no_acceptable_auth_method")
  BY DEF negotiate_method
<1>4. greeting = ReadFrom("greeting", Arrived(up)) /\ greeting # More
  BY <1>3 DEF Decided, ReadFrom
<1>5. Read = 0 /\ UpType(1) = "greeting" /\ UpMessage(1) = script.methods
  BY <1>1 DEF Read, UpType, UpMessage
<1>6. PICK size \in Nat :
          /\ greeting = Expected("greeting", script.methods, size)
          /\ size <= up.arrived
          /\ Speaks(1, SubSeq(up.bytes, size + 1, Len(up.bytes)))
  BY <1>1, <1>4, <1>5, UpRead DEF HandshakeSteps
<1> DEFINE rest == SubSeq(up.bytes, size + 1, Len(up.bytes))
<1>7. Taken(up, size).bytes = rest
  BY <1>1, <1>6, TakenTyped DEF Typed
<1>8. Tells(0)
  BY <1>1 DEF Tells
<1>9. IF script.methods = <<>> THEN greeting = Error("no_methods", size)
      ELSE greeting = Value(script.methods, size)
  BY <1>6 DEF Expected, OffersNothing, NamesBadDomain
<1>10. ~script.eager => offers(script.methods, METHOD_USER_PASS) /\ script.methods # <<>>
  <2>1. script \in Scripts
    BY <1>1 DEF Typed
  <2> DEFINE one == <<METHOD_USER_PASS>>
  <2>2. ~script.eager => script.methods = one
    BY <2>1, DialogueAssumption DEF IsClient
  <2>3. 1 \in DOMAIN one /\ one[1] = METHOD_USER_PASS /\ one # <<>>
    OBVIOUS
  <2> HIDE DEF one
  <2> QED
    BY <2>2, <2>3 DEF offers
<1>11. greeting.used = size
  BY <1>9 DEF Value, Error
<1>12. ~up.open => client.does = "gone"
  BY <1>1 DEF Typed
<1>13. <<>> \in Answers /\ method_selection_encode(METHOD_NO_ACCEPTABLE) \in Answers
  BY DEF Answers
<1> HIDE DEF rest
<1>14. ASSUME NEW why, Finish(size, <<>>, why), script.eager \/ client.does = "gone"
       PROVE  IInv'
  <2>1. up'.bytes = rest
    BY <1>7, <1>14 DEF Finish
  <2> QED
    BY <1>2, <1>6, <1>8, <1>13, <1>14, <2>1, ServerCloses
<1>15. CASE greeting.is = "error"
  BY <1>3, <1>9, <1>10, <1>11, <1>14, <1>15 DEF Value
<1>16. CASE greeting.is # "error" /\ ~offers(greeting.value, METHOD_USER_PASS)
  <2> DEFINE last == method_selection_encode(METHOD_NO_ACCEPTABLE)
  <2>1. script.eager
    BY <1>9, <1>10, <1>16 DEF Error, Value
  <2>2. Finish(size, last, "no_acceptable_auth_method")
    BY <1>3, <1>11, <1>16
  <2>3. up'.bytes = rest /\ Refuses(0, last)'
    BY <1>7, <2>2 DEF Finish, Refuses
  <2> HIDE DEF last
  <2>4. last \in Answers
    BY <1>13 DEF last
  <2> QED
    BY <1>2, <1>6, <1>8, <2>1, <2>2, <2>3, <2>4, ServerCloses
<1>17. CASE greeting.is # "error" /\ offers(greeting.value, METHOD_USER_PASS)
  <2>1. Proceed(size, method_selection_encode(METHOD_USER_PASS), "credentials")
    BY <1>3, <1>11, <1>17
  <2>2. CASE ~up.open /\ Finish(size, <<>>, CloseReasonOf("io"))
    BY <1>12, <1>14, <2>2
  <2>3. CASE /\ up' = Taken(up, size)
             /\ down' = Written(down, method_selection_encode(METHOD_USER_PASS))
             /\ server' = "credentials"
             /\ reason' = reason
    <3>1. method_selection_encode(METHOD_USER_PASS) = Tidings[0 + 1] /\ 0 \in 0 .. 2
      BY DEF Tidings
    <3>2. Tells(0 + 1)' /\ Read' = 1
      BY <2>3 DEF Tells, Read
    <3>3. Knows'
      BY <1>1, <2>3 DEF IInv, Knows, HandshakeSteps, negotiate_method
    <3>4. rest = up'.bytes /\ Speaks(1, rest)
      BY <1>6, <1>7, <2>3 DEF rest
    <3> QED
      BY <1>2, <1>6, <1>8, <2>3, <3>1, <3>2, <3>3, <3>4, ServerGoesOn
  <2> QED
    BY <2>1, <2>2, <2>3 DEF Proceed
<1> QED
  BY <1>15, <1>16, <1>17

\* A script logs in if its pair is listed.
LEMMA LogsIn ==
    ASSUME script \in Scripts
    PROVE  verify(store, script.credentials.username, script.credentials.password) =
              IF Listed THEN <<script.credentials.username>> ELSE <<>>
<1> DEFINE pair == script.credentials
<1>1. Message("user_pass") = Credential
  BY DEF Message, Credential
<1>2. Users \in Seq(Credential) /\ "users" \in DOMAIN user_store_new(Users)
  BY <1>1, DialogueAssumption
<1>3. pair \in Credential
  BY <1>1, DialogueAssumption DEF IsScript
<1>4. Sound(Users)
  BY <1>2, StoreIsSound
<1> HIDE DEF pair
<1>5. verify(user_store_new(Users).users, pair.username, pair.password) =
         IF \E i \in DOMAIN Users : Users[i] = pair THEN <<pair.username>> ELSE <<>>
  BY <1>2, <1>3, <1>4, VerifyIsExact
<1> QED
  BY <1>5 DEF pair, store, Listed

\* authenticate keeps the invariant.
LEMMA AuthenticateKeeps ==
    ASSUME IInv, authenticate
    PROVE  IInv'
<1>1. server = "credentials" /\ Typed /\ UpHolds /\ script \in Scripts
  BY DEF authenticate, IInv, Typed
<1>2. PICK credentials \in Decided(user_pass_read_from(Arrived(up))) :
          IF credentials.is = "error"
          THEN Finish(credentials.used, <<>>, CloseReasonOf(credentials.error)) /\ UNCHANGED report
          ELSE \E user \in {verify(store, credentials.value.username, credentials.value.password)} :
                  /\ report' = [report EXCEPT !.user = user]
                  /\ IF user # <<>>
                     THEN Proceed(credentials.used, user_pass_response_encode(AUTH_STATUS_SUCCESS),
                                  "request")
                     ELSE Finish(credentials.used, user_pass_response_encode(AUTH_STATUS_FAILURE),
                                 "auth_failed")
  BY DEF authenticate
<1>3. credentials = ReadFrom("user_pass", Arrived(up)) /\ credentials # More
  BY <1>2 DEF Decided, ReadFrom
<1>4. Read = 1 /\ UpType(2) = "user_pass" /\ UpMessage(2) = script.credentials
  BY <1>1 DEF Read, UpType, UpMessage
<1>5. PICK size \in Nat :
          /\ credentials = Expected("user_pass", script.credentials, size)
          /\ size <= up.arrived
          /\ Speaks(2, SubSeq(up.bytes, size + 1, Len(up.bytes)))
  BY <1>1, <1>3, <1>4, UpRead DEF HandshakeSteps
<1>6. credentials = Value(script.credentials, size)
  BY <1>5 DEF Expected, OffersNothing, NamesBadDomain
<1> DEFINE rest == SubSeq(up.bytes, size + 1, Len(up.bytes))
           user == verify(store, script.credentials.username, script.credentials.password)
<1>7. Taken(up, size).bytes = rest
  BY <1>1, <1>5, TakenTyped DEF Typed
<1>8. /\ report' = [report EXCEPT !.user = user]
      /\ IF user # <<>>
         THEN Proceed(size, user_pass_response_encode(AUTH_STATUS_SUCCESS), "request")
         ELSE Finish(size, user_pass_response_encode(AUTH_STATUS_FAILURE), "auth_failed")
  BY <1>2, <1>6 DEF Value
<1>9. user = IF Listed THEN <<script.credentials.username>> ELSE <<>>
  BY <1>1, LogsIn
<1>10. user # <<>> <=> Listed
  BY <1>9
<1> HIDE DEF user, rest
<1>11. report = [user |-> report.user, target |-> report.target]
  BY <1>1 DEF Typed
<1>12. report' = [user |-> user, target |-> report.target]
  BY <1>8, <1>11
<1>13. Kept /\ report'.user = user /\ report'.target = report.target
  BY <1>12 DEF authenticate, clientVars, relayVars, Kept
<1>14. Tells(1)
  BY <1>1 DEF Tells
<1>15. <<>> \in Answers /\ user_pass_response_encode(AUTH_STATUS_FAILURE) \in Answers
  BY DEF Answers
<1>16. CASE ~Listed
  <2> DEFINE last == user_pass_response_encode(AUTH_STATUS_FAILURE)
  <2>1. Finish(size, last, "auth_failed")
    BY <1>8, <1>10, <1>16
  <2>2. up'.bytes = rest /\ reason' = "auth_failed"
    BY <1>7, <2>1 DEF Finish
  <2>3. ~Listed'
    BY <1>13, <1>16, ScriptKept DEF Kept
  <2>4. Refuses(1, last)'
    BY <2>2, <2>3 DEF Refuses
  <2> HIDE DEF last
  <2>5. last \in Answers /\ Speaks(1 + 1, rest) /\ 1 \in 0 .. 2
    BY <1>5, <1>15 DEF last, rest
  <2> QED
    BY <1>5, <1>13, <1>14, <2>1, <2>2, <2>4, <2>5, ServerCloses
<1>17. CASE Listed
  <2>1. Proceed(size, user_pass_response_encode(AUTH_STATUS_SUCCESS), "request")
    BY <1>8, <1>10, <1>17
  <2>2. CASE ~up.open /\ Finish(size, <<>>, CloseReasonOf("io"))
    <3>1. client.does = "gone"
      BY <1>1, <2>2 DEF Typed
    <3>2. up'.bytes = rest
      BY <1>7, <2>2, SMTT(20) DEF Finish
    <3> QED
      BY <1>5, <1>13, <1>14, <1>15, <2>2, <3>1, <3>2, ServerCloses
  <2>3. CASE /\ up' = Taken(up, size)
             /\ down' = Written(down, user_pass_response_encode(AUTH_STATUS_SUCCESS))
             /\ server' = "request"
             /\ reason' = reason
    <3>1. user_pass_response_encode(AUTH_STATUS_SUCCESS) = Tidings[1 + 1] /\ 1 \in 0 .. 2
      BY DEF Tidings
    <3>2. Tells(1 + 1)' /\ Read' = 2
      BY <2>3 DEF Tells, Read
    <3>3. Knows'
      <4>1. Listed' /\ script' = script
        BY <1>13, <1>17, ScriptKept DEF Kept
      <4>2. report'.user = <<script.credentials.username>> /\ report'.target = <<>>
        BY <1>1, <1>9, <1>13, <1>17 DEF IInv, Knows, HandshakeSteps
      <4> QED
        BY <2>3, <4>1, <4>2 DEF Knows
    <3>4. rest = up'.bytes /\ Speaks(2, rest)
      BY <1>5, <1>7, <2>3 DEF rest
    <3> QED
      BY <1>5, <1>13, <1>14, <2>3, <3>1, <3>2, <3>3, <3>4, ServerGoesOn
  <2> QED
    BY <2>1, <2>2, <2>3 DEF Proceed
<1> QED
  BY <1>16, <1>17

\* What a connect may give is the name of a code.
LEMMA ConnectCodesAreCodes ==
    /\ ConnectCodes \subseteq CodeNames
    /\ "command_not_supported" \in CodeNames
<1>1. /\ ReplyCodes[1] = "succeeded" /\ ReplyCodes[2] = "general_failure" /\ ReplyCodes[3] = "not_allowed"
      /\ ReplyCodes[4] = "network_unreachable" /\ ReplyCodes[5] = "host_unreachable"
      /\ ReplyCodes[6] = "connection_refused" /\ ReplyCodes[8] = "command_not_supported"
      /\ DOMAIN ReplyCodes = 1 .. 9
  BY DEF ReplyCodes
<1>2. \A i \in 1 .. 9 : ReplyCodes[i] \in CodeNames
  BY <1>1, Zenon DEF CodeNames
<1>3. 1 \in 1 .. 9 /\ 2 \in 1 .. 9 /\ 3 \in 1 .. 9 /\ 4 \in 1 .. 9 /\ 5 \in 1 .. 9 /\ 6 \in 1 .. 9 /\ 8 \in 1 .. 9
  OBVIOUS
<1>4. /\ ReplyCodes[1] \in CodeNames /\ ReplyCodes[2] \in CodeNames
      /\ ReplyCodes[3] \in CodeNames /\ ReplyCodes[4] \in CodeNames
      /\ ReplyCodes[5] \in CodeNames /\ ReplyCodes[6] \in CodeNames
      /\ ReplyCodes[8] \in CodeNames
  BY <1>2, <1>3, Zenon
<1> QED
  BY <1>1, <1>4, Zenon DEF ConnectCodes

\* A server that has refused a request, or could not connect.
LEMMA RefusesRequest ==
    ASSUME IInv, NEW i \in {"request", "dialling"}, server = i, Kept, report' = report,
           NEW size \in Nat, size <= up.arrived,
           NEW code \in CodeNames, code # "succeeded",
           NEW why, why = IF code = "general_failure" /\ report.target = <<>> THEN "invalid_domain" ELSE code,
           Finish(size, Reply(code), why),
           NEW rest, rest = Taken(up, size).bytes, Speaks(3, rest)
    PROVE  IInv'
<1> DEFINE last == Reply(code)
<1>1. up'.bytes = rest /\ reason' = why /\ report' = report
  BY DEF Finish
<1>2. Refuses(2, last)'
  BY <1>1 DEF Refuses
<1>3. last \in Answers
  BY DEF Answers
<1>4. Tells(2) /\ 2 \in 0 .. 2 /\ 2 + 1 = 3
  BY DEF Tells
<1>5. Finish(size, last, why)
  OBVIOUS
<1> HIDE DEF last
<1>6. Speaks(2 + 1, rest)
  BY <1>4
<1> QED
  BY <1>1, <1>2, <1>3, <1>4, <1>5, <1>6, ServerCloses

\* read_connect_request keeps the invariant.
LEMMA RequestKeeps ==
    ASSUME IInv, read_connect_request
    PROVE  IInv'
<1>1. server = "request" /\ Typed /\ UpHolds /\ script \in Scripts
  BY DEF read_connect_request, IInv, Typed
<1>2. PICK request \in Decided(request_read_from(Arrived(up))) :
          IF IsConnect(request)
          THEN /\ up' = Taken(up, request.used)
               /\ server' = "dialling"
               /\ report' = [report EXCEPT !.target = <<request.value.target>>]
               /\ UNCHANGED <<down, reason>>
          ELSE RefuseRequest(request)
  BY DEF read_connect_request
<1>3. request = ReadFrom("request", Arrived(up)) /\ request # More
  BY <1>2 DEF Decided, ReadFrom
<1>4. Read = 2 /\ UpType(3) = "request" /\ UpMessage(3) = Request
  BY <1>1 DEF Read, UpType, UpMessage
<1>5. PICK size \in Nat :
          /\ request = Expected("request", Request, size)
          /\ size <= up.arrived
          /\ Speaks(3, SubSeq(up.bytes, size + 1, Len(up.bytes)))
  BY <1>1, <1>3, <1>4, UpRead DEF HandshakeSteps
<1>6. request = Error("invalid_domain", size) \/ request = Value(Request, size)
  BY <1>5 DEF Expected, OffersNothing
<1> DEFINE rest == SubSeq(up.bytes, size + 1, Len(up.bytes))
<1>7. /\ Taken(up, size).bytes = rest /\ IsStream(Taken(up, size)) /\ Taken(up, size).open = up.open
  BY <1>1, <1>5, TakenTyped DEF Typed
<1>8. Speaks(3, rest)
  BY <1>5
<1> HIDE DEF rest
<1>9. script' = script /\ client' = client /\ outcome' = outcome /\ toTarget' = toTarget /\ fromTarget' = fromTarget
  BY DEF read_connect_request, clientVars, relayVars
<1>10. report = [user |-> report.user, target |-> report.target] /\ report.target = <<>>
  BY <1>1 DEF IInv, Typed, Knows, HandshakeSteps
<1>11. CASE ~IsConnect(request)
  <2>1. RefuseRequest(request)
    BY <1>2, <1>11
  <2>2. report' = report /\ Kept
    BY <1>9, <1>10, <2>1 DEF RefuseRequest, Kept
  <2>3. "general_failure" \in CodeNames /\ "command_not_supported" \in CodeNames
    BY ConnectCodesAreCodes DEF ConnectCodes
  <2>4. CASE request = Error("invalid_domain", size)
    <3>1. request.is = "error" /\ request.error = "invalid_domain" /\ request.used = size
      BY <2>4 DEF Error
    <3>2. Finish(size, Reply("general_failure"), "invalid_domain")
      BY <2>1, <3>1 DEF RefuseRequest, CloseReasonOf
    <3> QED
      BY <1>1, <1>5, <1>7, <1>8, <1>10, <2>2, <2>3, <3>2, RefusesRequest
  <2>5. CASE request = Value(Request, size)
    <3>1. request.is = "value" /\ request.used = size
      BY <2>5 DEF Value
    <3>2. Finish(size, Reply("command_not_supported"), "command_not_supported")
      BY <2>1, <3>1 DEF RefuseRequest
    <3> QED
      BY <1>1, <1>5, <1>7, <1>8, <1>10, <2>2, <2>3, <3>2, RefusesRequest
  <2> QED
    BY <1>6, <2>4, <2>5
<1>12. CASE IsConnect(request)
  <2>1. request = Value(Request, size)
    BY <1>6, <1>12 DEF IsConnect, Error
  <2>2. request.used = size /\ request.value.target = script.target
    BY <2>1 DEF Value, Request
  <2>3. /\ up' = Taken(up, size) /\ server' = "dialling" /\ down' = down /\ reason' = reason
        /\ report' = [report EXCEPT !.target = <<script.target>>]
    BY <1>2, <1>12, <2>2
  <2>4. report' = [user |-> report.user, target |-> <<script.target>>]
    BY <1>10, <2>3
  <2>5. Kept /\ report'.user = report.user /\ report'.target = <<script.target>>
    BY <1>9, <2>4 DEF Kept
  <2>6. Typed'
    BY <1>1, <1>7, <2>3, <2>5 DEF Typed, Kept
  <2>7. toTarget' \o up'.bytes = rest
    BY <1>1, <1>7, <1>9, <2>3, Glue DEF Typed, IsStream
  <2>8. Read' = 3
    BY <2>3 DEF Read
  <2>9. UpHolds'
    BY <1>8, <1>9, <2>7, <2>8, ScriptKept, ClientKept DEF UpHolds, Speaks
  <2>10. DownHolds'
    <3>1. ASSUME NEW w \in 0 .. 4, NEW last \in Answers, Ends(w, last) PROVE Ends(w, last)'
      BY <1>1, <2>3, <3>1 DEF Ends, Tells
    <3> QED
      BY <1>9, <2>3, <3>1 DEF IInv, DownHolds, Finds
  <2>11. Knows'
    BY <1>1, <1>9, <2>3, <2>5, ScriptKept DEF IInv, Knows, HandshakeSteps
  <2>12. Waits'
    BY <2>3 DEF Waits
  <2>13. Tells(2)
    BY <1>1 DEF Tells
  <2> QED
    BY <2>5, <2>6, <2>9, <2>10, <2>11, <2>12, <2>13, AgreementKept DEF IInv
<1> QED
  BY <1>11, <1>12

\* The connect to the target keeps the invariant.
LEMMA ConnectKeeps ==
    ASSUME IInv, ConnectToTarget
    PROVE  IInv'
<1>1. server = "dialling" /\ Typed /\ UpHolds
  BY DEF ConnectToTarget, IInv
<1>2. PICK code \in DialCodes :
          IF code = "succeeded"
          THEN Proceed(0, Reply(code), "relaying") \/ Finish(0, <<>>, "handshake_timeout")
          ELSE Finish(0, Reply(code), code)
  BY DEF ConnectToTarget
<1>3. code \in CodeNames
  BY ConnectCodesAreCodes, DialogueAssumption
<1>4. Kept /\ report' = report
  BY <1>1 DEF ConnectToTarget, clientVars, relayVars, Kept, Typed
<1> DEFINE rest == up.bytes
<1>5. Taken(up, 0).bytes = rest /\ 0 \in Nat /\ 0 <= up.arrived
  <2>1. IsStream(up) /\ 0 \in Nat /\ 0 <= up.arrived
    BY <1>1 DEF Typed, IsStream
  <2> QED
    BY <2>1, TakenTyped
<1>6. Speaks(3, rest)
  <2>1. Read = 3 /\ toTarget \o up.bytes = up.bytes
    BY <1>1, Glue DEF Read, Typed, IsStream
  <2> QED
    BY <1>1, <2>1 DEF UpHolds
<1>7. report.target = <<script.target>>
  BY <1>1 DEF IInv, Knows
<1> HIDE DEF rest
<1>8. CASE code # "succeeded"
  <2>1. Finish(0, Reply(code), code)
    BY <1>2, <1>8
  <2>2. code = IF code = "general_failure" /\ report.target = <<>> THEN "invalid_domain" ELSE code
    BY <1>7
  <2> QED
    BY <1>1, <1>3, <1>4, <1>5, <1>6, <1>8, <2>1, <2>2, RefusesRequest
<1>9. CASE code = "succeeded"
  <2>1. Proceed(0, Reply("succeeded"), "relaying") \/ Finish(0, <<>>, "handshake_timeout")
    BY <1>2, <1>9
  <2>2. Tells(2) /\ 2 \in 0 .. 2
    BY <1>1 DEF Tells
  <2>3. CASE ~up.open /\ Finish(0, <<>>, CloseReasonOf("io"))
    <3>1. client.does = "gone" /\ <<>> \in Answers
      BY <1>1, <2>3 DEF Typed, Answers
    <3>2. up'.bytes = rest
      BY <1>5, <2>3 DEF Finish
    <3> QED
      BY <1>4, <1>5, <2>2, <2>3, <3>1, <3>2, ServerCloses
  <2>4. CASE Finish(0, <<>>, "handshake_timeout")
    <3>1. <<>> \in Answers
      BY DEF Answers
    <3>2. up'.bytes = rest
      BY <1>5, <2>4 DEF Finish
    <3> QED
      BY <1>4, <1>5, <2>2, <2>4, <3>1, <3>2, ServerCloses
  <2>5. CASE /\ up' = Taken(up, 0)
             /\ down' = Written(down, Reply("succeeded"))
             /\ server' = "relaying"
             /\ reason' = reason
    <3>1. Reply("succeeded") = Tidings[2 + 1]
      BY DEF Tidings
    <3>2. Tells(2 + 1)' /\ Read' = 3
      BY <1>1, <1>4, <2>5 DEF Tells, Read, Kept, Typed
    <3>3. Knows'
      BY <1>1, <1>4, <2>5, ScriptKept DEF IInv, Knows, HandshakeSteps, Kept
    <3>4. rest = up'.bytes
      BY <1>5, <2>5
    <3> QED
      BY <1>4, <1>5, <1>6, <2>2, <2>5, <3>1, <3>2, <3>3, <3>4, ServerGoesOn
  <2> QED
    BY <2>1, <2>3, <2>4, <2>5 DEF Proceed
<1> QED
  BY <1>8, <1>9

\* A handshake that ends for lack of a message.
LEMMA HandshakeEnds ==
    ASSUME IInv, server \in HandshakeSteps, NEW why, Finish(0, <<>>, why), Kept,
           client.does = "gone" \/ why = "handshake_timeout"
    PROVE  IInv'
<1>1. 0 \in Nat /\ 0 <= up.arrived /\ <<>> \in Answers
  BY DEF IInv, Typed, IsStream, Answers
<1>2. PICK w \in 0 .. 2 : Tells(w)
  <2>1. 0 \in 0 .. 2 /\ 1 \in 0 .. 2 /\ 2 \in 0 .. 2
    OBVIOUS
  <2> QED
    BY <2>1 DEF HandshakeSteps, Tells
<1>3. PICK rest : rest = up'.bytes
  OBVIOUS
<1> QED
  BY <1>1, <1>2, <1>3, ServerCloses

\* The end of the stream and the timeout keep the invariant.
LEMMA EndKeeps ==
    ASSUME IInv, ServerAtEnd \/ HandshakeTimesOut
    PROVE  IInv'
<1>1. Kept
  BY DEF ServerAtEnd, HandshakeTimesOut, clientVars, relayVars, Kept, IInv, Typed
<1>2. CASE ServerAtEnd
  <2>1. server \in HandshakeSteps /\ Finish(0, <<>>, CloseReasonOf("io")) /\ ~up.open
    BY <1>2 DEF ServerAtEnd, AtEnd
  <2>2. client.does = "gone"
    BY <2>1 DEF IInv, Typed
  <2> QED
    BY <1>1, <2>1, <2>2, HandshakeEnds
<1>3. CASE HandshakeTimesOut
  <2>1. server \in HandshakeSteps /\ Finish(0, <<>>, "handshake_timeout")
    BY <1>3 DEF HandshakeTimesOut
  <2> QED
    BY <1>1, <2>1, HandshakeEnds
<1> QED
  BY <1>2, <1>3

\* A sequence is its two halves.
LEMMA Halves ==
    ASSUME NEW s \in Seq(Byte), NEW n \in Nat, n <= Len(s)
    PROVE  LET head == SubSeq(s, 1, n)
               rest == SubSeq(s, n + 1, Len(s))
           IN  head \in Seq(Byte) /\ rest \in Seq(Byte) /\ head \o rest = s
<1> DEFINE head == SubSeq(s, 1, n)
           rest == SubSeq(s, n + 1, Len(s))
<1>1. /\ Len(s) \in Nat
      /\ head \in Seq(Byte) /\ Len(head) = n /\ \A i \in 1 .. n : head[i] = s[i]
      /\ rest \in Seq(Byte) /\ Len(rest) = Len(s) - n /\ \A i \in 1 .. Len(s) - n : rest[i] = s[n + i]
  OBVIOUS
<1> HIDE DEF head, rest
<1> DEFINE x == head \o rest
<1>2. /\ x \in Seq(Byte) /\ Len(x) = Len(s)
      /\ \A i \in 1 .. n : x[i] = head[i]
      /\ \A i \in 1 .. Len(s) - n : x[n + i] = rest[i]
  BY <1>1
<1> HIDE DEF x
<1>3. ASSUME NEW i \in 1 .. Len(s) PROVE x[i] = s[i]
  <2>1. CASE i <= n
    BY <1>1, <1>2, <2>1
  <2>2. CASE n < i
    <3> DEFINE j == i - n
    <3>1. j \in 1 .. Len(s) - n /\ n + j = i
      BY <1>1, <2>2
    <3> HIDE DEF j
    <3>2. x[n + j] = s[n + j]
      BY <1>1, <1>2, <3>1, Zenon
    <3> QED
      BY <3>1, <3>2
  <2> QED
    BY <1>1, <2>1, <2>2
<1>4. x = s
  BY <1>1, <1>2, <1>3
<1> QED
  BY <1>1, <1>4 DEF head, rest, x

\* The relay passes on what has arrived from the client.
LEMMA RelayUpKeeps ==
    ASSUME IInv, RelayUp
    PROVE  IInv'
<1>1. /\ server = "relaying" /\ up' = Taken(up, up.arrived) /\ toTarget' = toTarget \o Arrived(up)
      /\ script' = script /\ client' = client /\ outcome' = outcome
      /\ server' = server /\ report' = report /\ reason' = reason
      /\ down' = down /\ fromTarget' = fromTarget
  BY DEF RelayUp, clientVars
<1>2. Typed /\ up.bytes \in Seq(Byte) /\ up.arrived \in Nat /\ up.arrived <= Len(up.bytes) /\ toTarget \in Seq(Byte)
  BY DEF IInv, Typed, IsStream
<1> DEFINE head == Arrived(up)
           rest == SubSeq(up.bytes, up.arrived + 1, Len(up.bytes))
<1>3. IsStream(up') /\ up'.open = up.open /\ up'.bytes = rest
  BY <1>1, <1>2, TakenTyped DEF Typed
<1>4. head \in Seq(Byte) /\ rest \in Seq(Byte) /\ head \o rest = up.bytes
  BY <1>2, Halves DEF Arrived
<1> HIDE DEF head, rest
<1>5. toTarget' \in Seq(Byte) /\ toTarget' \o up'.bytes = toTarget \o up.bytes
  <2>1. toTarget' = toTarget \o head
    BY <1>1 DEF head
  <2>2. toTarget \o head \in Seq(Byte) /\ (toTarget \o head) \o rest = toTarget \o (head \o rest)
    BY <1>2, <1>4, Glue, Zenon
  <2> QED
    BY <1>3, <1>4, <2>1, <2>2
<1>6. Typed'
  BY <1>1, <1>2, <1>3, <1>5 DEF Typed
<1>7. UpHolds'
  <2>1. Read' = Read
    BY <1>1 DEF Read
  <2> QED
    BY <1>1, <1>5, <2>1, ScriptKept, ClientKept DEF IInv, UpHolds, Speaks
<1>8. DownHolds'
  <2>1. ASSUME NEW w \in 0 .. 4, NEW last \in Answers, Ends(w, last) PROVE Ends(w, last)'
    BY <1>1, <2>1 DEF Ends, Tells
  <2> QED
    BY <1>1, <2>1 DEF IInv, DownHolds, Finds
<1>9. Knows' /\ Waits'
  BY <1>1, ScriptKept DEF IInv, Knows, Waits, HandshakeSteps
<1>10. OutcomesAgree' /\ RefusalIsHeard'
  BY <1>1, ScriptKept DEF IInv, OutcomesAgree, RefusalIsHeard
<1> QED
  BY <1>6, <1>7, <1>8, <1>9, <1>10 DEF IInv

\* The relay passes on what the target sends.
LEMMA RelayDownKeeps ==
    ASSUME IInv, RelayDown
    PROVE  IInv'
<1>1. /\ server = "relaying" /\ fromTarget # <<>> /\ down' = Written(down, fromTarget) /\ fromTarget' = <<>>
      /\ script' = script /\ client' = client /\ outcome' = outcome
      /\ server' = server /\ report' = report /\ reason' = reason
      /\ up' = up /\ toTarget' = toTarget
  BY DEF RelayDown, clientVars
<1>2. Typed /\ fromTarget = Banner /\ Banner \in Seq(Byte)
  BY <1>1, DialogueAssumption DEF IInv, Typed
<1>3. IsStream(down') /\ down'.open = down.open /\ down'.bytes = down.bytes \o Banner
  BY <1>1, <1>2, WrittenTyped DEF Typed
<1>4. Typed'
  BY <1>1, <1>2, <1>3 DEF Typed
<1>5. UpHolds'
  <2>1. Read' = Read
    BY <1>1 DEF Read
  <2> QED
    BY <1>1, <2>1, ScriptKept, ClientKept DEF IInv, UpHolds, Speaks
<1>6. DownHolds'
  <2>1. SUFFICES ASSUME client.does # "gone" PROVE Finds(client.answers, down.bytes)'
    BY <1>1 DEF DownHolds
  <2>2. PICK w \in 0 .. 4 : /\ Tells(w) /\ client.answers <= w
                            /\ down.bytes = Span(Tidings, client.answers, w)
    BY <1>1, <1>2, <2>1, Told DEF IInv
  <2>3. w = 3 /\ client.answers \in 0 .. 3
    BY <1>1, <1>2, <2>2 DEF Tells, Typed
  <2>4. Tidings \in Quads /\ Tidings[3 + 1] = Banner
    BY TidingsTyped DEF Tidings
  <2> DEFINE told == Span(Tidings, client.answers, 4)
  <2>5. told \in Seq(Byte) /\ Span(Tidings, client.answers, 3) \o Tidings[3 + 1] = told
    <3>1. client.answers \in 0 .. 4 /\ 4 \in 0 .. 4 /\ 3 \in 0 .. 3 /\ client.answers <= 3 /\ 3 + 1 = 4
      BY <2>3
    <3> QED
      BY <2>4, <3>1, SpanTyped, SpanLast
  <2>6. down'.bytes = told
    BY <1>3, <2>2, <2>3, <2>4, <2>5
  <2>7. told \o <<>> = told /\ IsPrefix(told, told)
    BY <2>5, Glue, PrefixEnds
  <2>8. Ends(4, <<>>)'
    BY <1>1 DEF Ends, Tells
  <2>9. <<>> \in Answers /\ 4 \in 0 .. 4 /\ client'.answers = client.answers /\ client.answers <= 4
    BY <1>1, <2>3 DEF Answers
  <2> HIDE DEF told
  <2> QED
    BY <2>6, <2>7, <2>8, <2>9 DEF Finds, told
<1>7. Knows' /\ Waits'
  BY <1>1, ScriptKept DEF IInv, Knows, Waits, HandshakeSteps
<1>8. OutcomesAgree' /\ RefusalIsHeard'
  BY <1>1, ScriptKept DEF IInv, OutcomesAgree, RefusalIsHeard
<1> QED
  BY <1>4, <1>5, <1>6, <1>7, <1>8 DEF IInv

\* What the network does to bytes that stay.
LEMMA SameBytes ==
    ASSUME IInv, UNCHANGED <<script, clientVars, serverVars>>,
           IsStream(up'), up'.bytes = up.bytes, up'.open = up.open,
           IsStream(down'), down'.bytes = down.bytes, down'.open = down.open
    PROVE  IInv'
<1>1. /\ script' = script /\ client' = client /\ outcome' = outcome
      /\ server' = server /\ report' = report /\ reason' = reason
      /\ toTarget' = toTarget /\ fromTarget' = fromTarget
  BY DEF clientVars, serverVars, relayVars
<1>2. Typed'
  BY <1>1, SMTT(20) DEF IInv, Typed
<1>3. UpHolds'
  <2>1. Read' = Read
    BY <1>1 DEF Read
  <2> QED
    BY <1>1, <2>1, ScriptKept, ClientKept DEF IInv, UpHolds, Speaks
<1>4. ASSUME NEW w, NEW last PROVE Refuses(w, last)' <=> Refuses(w, last)
  BY <1>1, ScriptKept DEF Refuses
<1>5. DownHolds'
  <2>1. ASSUME NEW w \in 0 .. 4, NEW last \in Answers, Ends(w, last) PROVE Ends(w, last)'
    BY <1>1, <1>4, <2>1 DEF Ends, Tells
  <2> QED
    BY <1>1, <2>1 DEF IInv, DownHolds, Finds
<1>6. Knows'
  BY <1>1, ScriptKept DEF IInv, Knows, HandshakeSteps
<1>7. Waits'
  <2>1. Refuses(client.answers, down.bytes)' <=> Refuses(client.answers, down.bytes)
    BY <1>1, ScriptKept DEF Refuses
  <2> QED
    BY <1>1, <2>1 DEF IInv, Waits
<1>8. OutcomesAgree' /\ RefusalIsHeard'
  BY <1>1, ScriptKept DEF IInv, OutcomesAgree, RefusalIsHeard
<1> QED
  BY <1>2, <1>3, <1>5, <1>6, <1>7, <1>8 DEF IInv

\* More of a stream has arrived.
LEMMA ArrivesTyped ==
    ASSUME NEW s, IsStream(s), NEW t \in Arrives(s)
    PROVE  IsStream(t) /\ t.bytes = s.bytes /\ t.open = s.open
<1>1. s \in [bytes : Seq(Byte), arrived : Nat, open : BOOLEAN] /\ s.arrived \in Nat /\ Len(s.bytes) \in Nat
  BY DEF IsStream
<1>2. PICK n \in s.arrived + 1 .. Len(s.bytes) : t = [s EXCEPT !.arrived = n]
  BY DEF Arrives
<1>3. n \in Nat /\ n <= Len(s.bytes)
  BY <1>1, <1>2
<1>4. /\ t \in [bytes : Seq(Byte), arrived : Nat, open : BOOLEAN]
      /\ t.bytes = s.bytes /\ t.arrived = n /\ t.open = s.open
  BY <1>1, <1>2, <1>3
<1> QED
  BY <1>3, <1>4 DEF IsStream

\* A segment arrives.
LEMMA DeliverKeeps ==
    ASSUME IInv, Deliver
    PROVE  IInv'
<1>1. IsStream(up) /\ IsStream(down)
  BY DEF IInv, Typed
<1>2. CASE up' \in Arrives(up) /\ UNCHANGED down
  <2>1. IsStream(up') /\ up'.bytes = up.bytes /\ up'.open = up.open
    BY <1>1, <1>2, ArrivesTyped
  <2> QED
    BY <1>1, <1>2, <2>1, SameBytes DEF Deliver
<1>3. CASE down' \in Arrives(down) /\ UNCHANGED up
  <2>1. IsStream(down') /\ down'.bytes = down.bytes /\ down'.open = down.open
    BY <1>1, <1>3, ArrivesTyped
  <2> QED
    BY <1>1, <1>3, <2>1, SameBytes DEF Deliver
<1> QED
  BY <1>2, <1>3 DEF Deliver

\* A reset overtakes answers, but none that a client waits for.
LEMMA ResetKeeps ==
    ASSUME IInv, ResetArrives
    PROVE  IInv'
<1>1. /\ script' = script /\ client' = client /\ outcome' = outcome
      /\ server' = server /\ report' = report /\ reason' = reason
      /\ toTarget' = toTarget /\ fromTarget' = fromTarget /\ up' = up
      /\ ~down.open /\ up.bytes # <<>> /\ down' = [down EXCEPT !.bytes = Arrived(down)]
  BY DEF ResetArrives, Reset, clientVars, serverVars, relayVars
<1>2. /\ Typed /\ server = "closed"
      /\ down \in [bytes : Seq(Byte), arrived : Nat, open : BOOLEAN]
      /\ down.bytes \in Seq(Byte) /\ down.arrived \in Nat /\ down.arrived <= Len(down.bytes)
  BY <1>1 DEF IInv, Typed, IsStream
<1> DEFINE head == Arrived(down)
<1>3. head \in Seq(Byte) /\ Len(head) = down.arrived
  BY <1>2 DEF Arrived
<1>4. /\ down' \in [bytes : Seq(Byte), arrived : Nat, open : BOOLEAN]
      /\ down'.bytes = head /\ down'.arrived = down.arrived /\ down'.open = down.open
  <2> HIDE DEF head
  <2>1. down' = [down EXCEPT !.bytes = head]
    BY <1>1 DEF head
  <2> QED
    BY <1>2, <1>3, <2>1
<1>5. IsStream(down')
  BY <1>2, <1>3, <1>4 DEF IsStream
<1>6. Typed'
  BY <1>1, <1>2, <1>4, <1>5 DEF Typed
<1>7. UpHolds'
  BY <1>1, <1>2 DEF UpHolds
<1>8. DownHolds'
  <2>1. SUFFICES ASSUME client.does # "gone" PROVE Finds(client.answers, down.bytes)'
    BY <1>1 DEF DownHolds
  <2>2. PICK w \in 0 .. 4, last \in Answers :
            /\ client.answers <= w /\ Ends(w, last)
            /\ IsPrefix(down.bytes, Span(Tidings, client.answers, w) \o last)
    BY <2>1 DEF IInv, DownHolds, Finds
  <2> DEFINE span == Span(Tidings, client.answers, w)
             told == span \o last
  <2>3. span \in Seq(Byte) /\ last \in Seq(Byte)
    <3>1. client.answers \in 0 .. 4
      BY <1>2 DEF Typed
    <3> QED
      BY <2>2, <3>1, TidingsTyped, SpanTyped, AnswersTyped
  <2>4. IsPrefix(down.bytes, told)
    BY <2>2
  <2> HIDE DEF span
  <2>5. told \in Seq(Byte)
    BY <2>3, Glue, Zenon
  <2> HIDE DEF told
  <2>6. IsPrefix(head, told)
    BY <1>2, <2>4, <2>5, PrefixPart DEF Arrived
  <2>7. Ends(w, last)'
    <3>1. Refuses(w, last)' <=> Refuses(w, last)
      BY <1>1, ScriptKept DEF Refuses
    <3> QED
      BY <1>1, <1>2, <2>2, <3>1 DEF Ends, Tells
  <2>8. client'.answers = client.answers /\ ~down'.open /\ down'.bytes = head
    BY <1>1, <1>4
  <2> HIDE DEF head
  <2> QED
    BY <2>2, <2>6, <2>7, <2>8 DEF Finds, told, span
<1>9. Knows' /\ Waits'
  BY <1>1, <1>2, ScriptKept DEF IInv, Knows, Waits, HandshakeSteps
<1>10. OutcomesAgree' /\ RefusalIsHeard'
  BY <1>1, ScriptKept DEF IInv, OutcomesAgree, RefusalIsHeard
<1> QED
  BY <1>6, <1>7, <1>8, <1>9, <1>10 DEF IInv

\* The client gives up: the server may still be at work.
LEMMA GivesUp ==
    ASSUME IInv, client.does # "gone", client.answers <= 2, UNCHANGED <<script, serverVars>>,
           IsStream(down'), down'.open = down.open,
           NEW error, GiveUp(error), error # "ok",
           error = "method_rejected" => reason = "no_acceptable_auth_method",
           error = "auth_rejected" => reason = "auth_failed" /\ ~Listed,
           error \in CodeNames =>
              reason = IF error = "general_failure" /\ report.target = <<>> THEN "invalid_domain" ELSE error,
           error = "io" /\ ~script.eager => reason = "handshake_timeout"
    PROVE  IInv'
<1>1. /\ script' = script /\ outcome' = error
      /\ server' = server /\ report' = report /\ reason' = reason
      /\ toTarget' = toTarget /\ fromTarget' = fromTarget
      /\ client' = [client EXCEPT !.does = "gone"] /\ up' = Closed(up)
  BY DEF serverVars, relayVars, GiveUp
<1>2. Typed /\ IsStream(up) /\ client \in [answers : 0 .. 3, does : {"writing", "reading", "relaying", "gone"}]
  BY DEF IInv, Typed
<1>3. IsStream(up') /\ up'.bytes = up.bytes /\ up'.open = FALSE
  BY <1>1, <1>2, ClosedTyped
<1>4. /\ client' \in [answers : 0 .. 3, does : {"writing", "reading", "relaying", "gone"}]
      /\ client'.answers = client.answers /\ client'.does = "gone"
  BY <1>1, <1>2
<1>5. Typed'
  BY <1>1, <1>2, <1>3, <1>4 DEF Typed
<1>6. UpHolds'
  <2>1. Read' = Read
    BY <1>1 DEF Read
  <2> QED
    BY <1>1, <1>3, <1>4, <2>1, ScriptKept DEF IInv, UpHolds, Speaks
<1>7. DownHolds' /\ Waits'
  BY <1>4 DEF DownHolds, Waits
<1>8. Knows'
  BY <1>1, ScriptKept DEF IInv, Knows, HandshakeSteps
<1>9. OutcomesAgree' /\ RefusalIsHeard'
  BY <1>1, ScriptKept DEF OutcomesAgree, RefusalIsHeard
<1> QED
  BY <1>5, <1>6, <1>7, <1>8, <1>9 DEF IInv

\* A refusal that is there is read as one.
LEMMA WaitingIsHeard ==
    ASSUME Typed, client.answers \in 0 .. 2, Refuses(client.answers, down.bytes)
    PROVE  /\ Answer(client.answers, down.bytes) # More
           /\ Answer(client.answers, Arrived(down)) # More =>
                 \E v : \E size : /\ Answer(client.answers, Arrived(down)) = Value(v, size)
                                  /\ Agrees(Refusal(client.answers, v))
<1> DEFINE n == client.answers
           bytes == down.bytes
           k == down.arrived
           type == DownType(n)
<1>1. bytes \in Seq(Byte) /\ k \in Nat /\ k <= Len(bytes)
  BY DEF Typed, IsStream
<1>2. PICK v : ReadsAs(type, v, bytes) /\ Agrees(Refusal(n, v))
  BY RefusalReads
<1>3. /\ type \in Types /\ \A x, size : Expected(type, x, size) = Value(x, size)
      /\ \A b : Answer(n, b) = ReadFrom(type, b)
  BY DownExpected
<1>4. Arrived(down) = SubSeq(bytes, 1, k)
  BY DEF Arrived
<1> HIDE DEF n, bytes, k, type
<1>5. ReadFrom(type, bytes) = Value(v, Len(bytes))
  BY <1>2, <1>3 DEF ReadsAs
<1>6. Answer(n, bytes) # More
  BY <1>3, <1>5 DEF Value, More
<1>7. ASSUME Answer(n, Arrived(down)) # More
      PROVE  Answer(n, Arrived(down)) = Value(v, Len(bytes))
  <2> DEFINE t == <<>>
  <2>1. t \in Seq(Byte) /\ bytes \o t = bytes
    BY <1>1, Glue
  <2> HIDE DEF t
  <2>2. t \in Seq(Byte) /\ IsPrefix(bytes, bytes \o t)
    BY <1>1, <2>1, PrefixEnds
  <2>3. ReadFrom(type, SubSeq(bytes, 1, k)) # More
    BY <1>3, <1>4, <1>7
  <2>4. ReadFrom(type, SubSeq(bytes, 1, k)) = Expected(type, v, Len(bytes))
    BY <1>1, <1>2, <1>3, <2>2, <2>3, ReadAhead
  <2> QED
    BY <1>3, <1>4, <2>4
<1> QED
  BY <1>2, <1>6, <1>7 DEF n, bytes

\* client_handshake at the end of the stream, or dropped.
LEMMA LeavingKeeps ==
    ASSUME IInv, ClientAtEnd \/ ClientLeaves
    PROVE  IInv'
<1>1. /\ client.does = "reading" /\ UNCHANGED <<script, serverVars>> /\ down' = down
      /\ ClientAtEnd => AtEnd(down) /\ Answer(client.answers, Arrived(down)) = More /\ GiveUp("io")
      /\ ClientLeaves => GiveUp("dropped")
  BY DEF ClientAtEnd, ClientLeaves
<1>2. Typed /\ client.answers \in 0 .. 2 /\ client.answers <= 2 /\ IsStream(down) /\ client.does # "gone"
  BY <1>1 DEF IInv, Typed
<1>3. "io" \notin CodeNames /\ "dropped" \notin CodeNames
  BY CodesAreCodes
<1>4. CASE ClientAtEnd
  <2>1. ~script.eager => reason = "handshake_timeout"
    <3>1. SUFFICES ASSUME ~script.eager, reason # "handshake_timeout" PROVE FALSE
      OBVIOUS
    <3>2. ~down.open /\ down.arrived = Len(down.bytes)
      BY <1>1, <1>4 DEF AtEnd
    <3>3. Arrived(down) = down.bytes
      BY <1>2, <3>2 DEF Arrived, IsStream
    <3>4. server = "closed"
      BY <1>2, <3>2 DEF Typed
    <3>5. Refuses(client.answers, down.bytes)
      BY <1>1, <3>1, <3>4 DEF IInv, Waits
    <3> QED
      BY <1>1, <1>2, <1>4, <3>3, <3>5, WaitingIsHeard
  <2> QED
    BY <1>1, <1>2, <1>3, <1>4, <2>1, GivesUp
<1>5. CASE ClientLeaves
  BY <1>1, <1>2, <1>3, <1>5, GivesUp
<1> QED
  BY <1>4, <1>5

\* The client takes an answer and goes on, or is refused.
LEMMA ClientReadsKeeps ==
    ASSUME IInv, ClientReads
    PROVE  IInv'
<1>1. client.does = "reading" /\ UNCHANGED <<script, serverVars>>
  BY DEF ClientReads
<1>2. /\ Typed /\ DownHolds /\ client.answers \in 0 .. 2 /\ client.answers <= 2 /\ IsStream(down)
      /\ client.does # "gone"
  BY <1>1 DEF IInv, Typed
<1>3. PICK answer \in Decided(Answer(client.answers, Arrived(down))) :
          /\ down' = Taken(down, answer.used)
          /\ LET error == IF answer.is = "error" THEN answer.error
                          ELSE Refusal(client.answers, answer.value)
             IN  IF error # "none" THEN GiveUp(error)
                 ELSE /\ client' = [answers |-> client.answers + 1, does |-> "writing"]
                      /\ outcome' = IF client.answers = 2 THEN "ok" ELSE outcome
                      /\ UNCHANGED up
  BY DEF ClientReads
<1>4. answer = Answer(client.answers, Arrived(down)) /\ answer # More
  BY <1>3 DEF Decided
<1>5. PICK v : \E size \in Nat :
          /\ answer = Value(v, size)
          /\ size <= down.arrived
          /\ \/ /\ Refusal(client.answers, v) = "none"
                /\ Finds(client.answers + 1, SubSeq(down.bytes, size + 1, Len(down.bytes)))
             \/ Agrees(Refusal(client.answers, v))
  BY <1>1, <1>2, <1>4, DownRead
<1>6. PICK size \in Nat :
          /\ answer = Value(v, size)
          /\ size <= down.arrived
          /\ \/ /\ Refusal(client.answers, v) = "none"
                /\ Finds(client.answers + 1, SubSeq(down.bytes, size + 1, Len(down.bytes)))
             \/ Agrees(Refusal(client.answers, v))
  BY <1>5, SMTT(20)
<1> DEFINE error == Refusal(client.answers, v)
           rest == SubSeq(down.bytes, size + 1, Len(down.bytes))
<1>7. /\ down' = Taken(down, size)
      /\ IF error # "none" THEN GiveUp(error)
         ELSE /\ client' = [answers |-> client.answers + 1, does |-> "writing"]
              /\ outcome' = IF client.answers = 2 THEN "ok" ELSE outcome
              /\ UNCHANGED up
  BY <1>3, <1>6 DEF Value
<1>8. IsStream(down') /\ down'.open = down.open /\ down'.bytes = rest
  BY <1>2, <1>6, <1>7, TakenTyped
<1> HIDE DEF error, rest
<1>9. CASE error # "none"
  <2>1. Agrees(error) /\ GiveUp(error)
    BY <1>6, <1>7, <1>9 DEF error
  <2> QED
    BY <1>1, <1>2, <1>8, <2>1, GivesUp, Zenon DEF Agrees
<1>10. CASE error = "none"
  <2>1. /\ script' = script /\ up' = up
        /\ server' = server /\ report' = report /\ reason' = reason
        /\ toTarget' = toTarget /\ fromTarget' = fromTarget
        /\ client' = [answers |-> client.answers + 1, does |-> "writing"]
        /\ client'.answers = client.answers + 1 /\ client'.does = "writing"
        /\ outcome' = IF client.answers = 2 THEN "ok" ELSE outcome
    BY <1>1, <1>7, <1>10 DEF serverVars, relayVars
  <2>2. Finds(client.answers + 1, rest)
    BY <1>6, <1>10 DEF error, rest, Agrees
  <2>3. outcome = "none"
    BY <1>2 DEF Typed
  <2>4. Typed'
    <3>1. /\ client' \in [answers : 0 .. 3, does : {"writing", "reading", "relaying", "gone"}]
          /\ client.answers + 1 = 3 <=> client.answers = 2
      BY <1>2, <2>1
    <3> QED
      BY <1>2, <1>8, <2>1, <2>3, <3>1 DEF Typed
  <2>5. Said' = Said
    BY <1>1, <1>2, <2>1, SMTT(20) DEF Said
  <2>6. UpHolds'
    <3>1. Read' = Read
      BY <2>1 DEF Read
    <3> QED
      BY <1>2, <2>1, <2>5, <3>1, ScriptKept DEF IInv, UpHolds, Speaks
  <2>7. PICK w \in 0 .. 4, last \in Answers :
            /\ client.answers + 1 <= w
            /\ Ends(w, last)
            /\ IsPrefix(rest, Span(Tidings, client.answers + 1, w) \o last)
            /\ down.open => rest = Span(Tidings, client.answers + 1, w) \o last
    BY <2>2 DEF Finds
  <2>8. DownHolds'
    <3>1. Refuses(w, last)' <=> Refuses(w, last)
      BY <2>1, ScriptKept DEF Refuses
    <3>2. Ends(w, last)'
      BY <2>1, <2>7, <3>1 DEF Ends, Tells
    <3> QED
      BY <1>8, <2>1, <2>7, <3>2 DEF DownHolds, Finds
  <2>9. Knows'
    BY <2>1, ScriptKept DEF IInv, Knows, HandshakeSteps
  <2>10. Waits'
    <3>1. SUFFICES ASSUME ~script.eager, server = "closed", reason # "handshake_timeout" PROVE FALSE
      BY <2>1 DEF Waits
    <3>2. Refuses(client.answers, down.bytes)
      BY <1>2, <3>1 DEF IInv, Waits
    <3>3. PICK x : \E n : answer = Value(x, n) /\ Agrees(Refusal(client.answers, x))
      BY <1>2, <1>4, <3>2, WaitingIsHeard
    <3>4. x = v
      BY <1>6, <3>3 DEF Value
    <3> QED
      BY <1>10, <3>3, <3>4 DEF error, Agrees
  <2>11. OutcomesAgree'
    <3>1. CASE client.answers # 2
      BY <2>1, <2>3, <3>1, CodesAreCodes DEF OutcomesAgree
    <3>2. CASE client.answers = 2
      <4>1. server = "relaying"
        BY <2>7, <3>2, EndsTyped
      <4>2. /\ Listed /\ report.user = <<script.credentials.username>> /\ report.target = <<script.target>>
            /\ report = [user |-> report.user, target |-> report.target]
        BY <1>2, <4>1 DEF IInv, Knows, Typed
      <4>3. Listed'
        BY <2>1, <4>2, ScriptKept
      <4>4. outcome' = "ok" /\ server' = "relaying"
        BY <2>1, <3>2, <4>1
      <4>5. report' = [user |-> <<script.credentials.username>>, target |-> <<script.target>>] /\ script' = script
        BY <2>1, <4>2
      <4> QED
        BY <4>3, <4>4, <4>5, CodesAreCodes DEF OutcomesAgree
    <3> QED
      BY <3>1, <3>2
  <2>12. RefusalIsHeard'
    BY <2>1, <2>3 DEF RefusalIsHeard
  <2> QED
    BY <2>4, <2>6, <2>8, <2>9, <2>10, <2>11, <2>12 DEF IInv
<1> QED
  BY <1>9, <1>10

\* A message of the script is encoded, or has a field that is too long.
LEMMA BlockIs ==
    ASSUME script \in Scripts, NEW i \in 1 .. 4
    PROVE  Blocks[i].is = "value" \/ (Blocks[i] = Error("field_too_long", 0) /\ i # 4)
<1>1. CASE i = 4
  BY <1>1, SayingsTyped, Results
<1>2. CASE i \in 1 .. 3
  <2> DEFINE type == UpType(i)
             m == UpMessage(i)
  <2>1. type \in Types /\ m \in Message(type) /\ Blocks[i] = Encode(type, m)
    BY <1>2, UpTyped
  <2> HIDE DEF type, m
  <2>2. LongestField(type, m) \in Nat
    BY <2>1, FieldIsNat
  <2>3. CASE LongestField(type, m) <= 255
    BY <2>1, <2>3, MessageSurvives, Results DEF Encodes
  <2>4. CASE LongestField(type, m) > 255
    BY <1>2, <2>1, <2>4, TooLong
  <2> QED
    BY <2>2, <2>3, <2>4
<1> QED
  BY <1>1, <1>2

\* Four pieces, put together from the left.
Leftward(a, b, c, d) == ((a \o b) \o c) \o d

\* It does not matter from where pieces are put together.
LEMMA Regroup ==
    ASSUME NEW a \in Seq(Byte), NEW b \in Seq(Byte), NEW c \in Seq(Byte), NEW d \in Seq(Byte)
    PROVE  Row(a, b, c, d) = Leftward(a, b, c, d)
BY DEF Row, Leftward

\* What is written, in terms of what the client says.
LEMMA ToWriteTyped ==
    ASSUME script \in Scripts, NEW n \in 0 .. 3, ToWrite(n).is # "error"
    PROVE  /\ ToWrite(n).value \in Seq(Byte)
           /\ ~script.eager => Blocks[n + 1].is = "value" /\ ToWrite(n).value = Sayings[n + 1]
           /\ script.eager => ToWrite(n).value = IF n = 0 THEN Span(Sayings, 0, 4) ELSE <<>>
<1>1. /\ Sayings \in Quads
      /\ \A i \in 1 .. 4 : Sayings[i] \in Seq(Byte)
      /\ \A i \in 1 .. 4 : Blocks[i].is = "value" => Sayings[i] = Blocks[i].value
      /\ script.eager => \A i \in 1 .. 4 : Blocks[i].is = "value"
  BY SayingsTyped DEF Quads
<1>2. CASE ~script.eager
  <2>1. ToWrite(n) = Blocks[n + 1] /\ n + 1 \in 1 .. 4
    BY <1>2 DEF ToWrite
  <2>2. Blocks[n + 1].is = "value"
    BY <2>1, BlockIs, Results
  <2> QED
    BY <1>1, <1>2, <2>1, <2>2
<1>3. CASE script.eager /\ n = 0
  <2> DEFINE a == Sayings[1]
             b == Sayings[2]
             c == Sayings[3]
             d == Sayings[4]
             joined == Blocks[1].value \o Blocks[2].value \o Blocks[3].value \o Blocks[4].value
  <2>1. /\ Blocks[1].value = a /\ Blocks[2].value = b /\ Blocks[3].value = c /\ Blocks[4].value = d
        /\ a \in Seq(Byte) /\ b \in Seq(Byte) /\ c \in Seq(Byte) /\ d \in Seq(Byte)
    BY <1>1, <1>3
  <2>2. Span(Sayings, 0, 4) = Row(a, b, c, d)
    BY DEF Span, Turn
  <2> HIDE DEF a, b, c, d
  <2>3. joined = Leftward(a, b, c, d)
    BY <2>1 DEF Leftward
  <2>4. ToWrite(n) = Value(joined, 0)
    BY <1>3 DEF ToWrite
  <2> HIDE DEF joined
  <2>5. ToWrite(n).value = joined
    BY <2>4, Results
  <2>6. Row(a, b, c, d) = Leftward(a, b, c, d) /\ Row(a, b, c, d) \in Seq(Byte)
    BY <2>1, Regroup, RowTyped
  <2> QED
    BY <1>3, <2>2, <2>3, <2>5, <2>6
<1>4. CASE script.eager /\ n # 0
  <2>1. ToWrite(n) = Value(<<>>, 0)
    BY <1>4 DEF ToWrite
  <2>2. ToWrite(n).value = <<>> /\ <<>> \in Seq(Byte)
    BY <2>1, Results
  <2> QED
    BY <1>4, <2>2
<1> QED
  BY <1>2, <1>3, <1>4, Zenon

\* The client writes its next message, or everything.
LEMMA ClientSays ==
    ASSUME Typed, client.does = "writing", script' = script,
           client' = [client EXCEPT !.does = IF client.answers = 3 THEN "relaying" ELSE "reading"],
           NEW block, block = ToWrite(client.answers), block.is # "error",
           NEW read \in 0 .. 3, NEW bytes, Speaks(read, bytes)
    PROVE  \E k \in 0 .. 4 :
              /\ k = Said' /\ read <= k
              /\ \A i \in 1 .. k : Blocks[i].is = "value"
              /\ bytes \o block.value = Span(Sayings, read, k)
<1>1. /\ script \in Scripts /\ client.answers \in 0 .. 3
      /\ client'.answers = client.answers
      /\ client'.does = IF client.answers = 3 THEN "relaying" ELSE "reading"
  BY DEF Typed
<1>2. PICK k \in 0 .. 4 :
          /\ k = Said /\ read <= k
          /\ \A i \in 1 .. k : Blocks[i].is = "value"
          /\ bytes = Span(Sayings, read, k)
  BY DEF Speaks
<1>3. /\ Sayings \in Quads
      /\ script.eager => \A i \in 1 .. 4 : Blocks[i].is = "value"
  BY <1>1, SayingsTyped
<1>4. /\ block.value \in Seq(Byte)
      /\ ~script.eager => Blocks[client.answers + 1].is = "value" /\ block.value = Sayings[client.answers + 1]
      /\ script.eager => block.value = IF client.answers = 0 THEN Span(Sayings, 0, 4) ELSE <<>>
  BY <1>1, ToWriteTyped
<1>5. CASE ~script.eager
  <2>1. k = client.answers /\ Said' = client.answers + 1 /\ k \in 0 .. 3 /\ k + 1 \in 0 .. 4 /\ read \in 0 .. 4
    BY <1>1, <1>2, <1>5 DEF Said
  <2>2. bytes \o Sayings[k + 1] = Span(Sayings, read, k + 1)
    BY <1>2, <1>3, <2>1, SpanLast
  <2>3. \A i \in 1 .. k + 1 : Blocks[i].is = "value"
    BY <1>2, <1>4, <1>5, <2>1
  <2>4. k + 1 = Said' /\ read <= k + 1
    BY <1>2, <2>1
  <2>5. bytes \o block.value = Span(Sayings, read, k + 1)
    BY <1>4, <1>5, <2>1, <2>2
  <2> QED
    BY <2>1, <2>3, <2>4, <2>5
<1>6. CASE script.eager /\ client.answers = 0
  <2>1. k = 0 /\ Said' = 4 /\ read = 0 /\ 4 \in 0 .. 4 /\ 0 \in 0 .. 4
    BY <1>1, <1>2, <1>6 DEF Said
  <2>2. bytes = <<>>
    BY <1>2, <1>3, <2>1, SpanTyped
  <2>3. bytes \o block.value = Span(Sayings, 0, 4)
    BY <1>4, <1>6, <2>2, Glue
  <2> QED
    BY <1>3, <1>6, <2>1, <2>3
<1>7. CASE script.eager /\ client.answers # 0
  <2>1. k = 4 /\ Said' = 4 /\ read \in 0 .. 4
    BY <1>1, <1>2, <1>7 DEF Said
  <2>2. bytes \in Seq(Byte)
    BY <1>2, <1>3, <2>1, SpanTyped
  <2>3. bytes \o <<>> = bytes /\ block.value = <<>>
    BY <1>4, <1>7, <2>2, Glue
  <2> QED
    BY <1>2, <2>1, <2>3
<1> QED
  BY <1>5, <1>6, <1>7, Zenon

\* The client's writes keep the invariant.
LEMMA ClientWritesKeeps ==
    ASSUME IInv, ClientWrites
    PROVE  IInv'
<1> DEFINE block == ToWrite(client.answers)
<1>1. /\ client.does = "writing" /\ UNCHANGED <<script, serverVars>> /\ down' = down
      /\ IF block.is = "error" THEN GiveUp(block.error)
         ELSE /\ up' = Written(up, block.value)
              /\ client' = [client EXCEPT !.does = IF client.answers = 3 THEN "relaying" ELSE "reading"]
              /\ UNCHANGED outcome
  BY DEF ClientWrites
<1>2. /\ Typed /\ script \in Scripts /\ IsStream(up) /\ IsStream(down)
      /\ client.answers \in 0 .. 3 /\ toTarget \in Seq(Byte)
  BY DEF IInv, Typed
<1>3. CASE block.is = "error"
  <2>1. script.eager = FALSE
    <3>1. script.eager => block.is = "value"
      BY Results DEF ToWrite
    <3> QED
      BY <1>2, <1>3, <3>1, DialogueAssumption DEF IsScript
  <2>2. block = Blocks[client.answers + 1] /\ client.answers + 1 \in 1 .. 4
    BY <1>2, <2>1 DEF ToWrite
  <2>3. block = Error("field_too_long", 0) /\ client.answers <= 2
    BY <1>2, <1>3, <2>2, BlockIs
  <2>4. GiveUp("field_too_long")
    BY <1>1, <1>3, <2>3, Results
  <2>5. "field_too_long" \notin CodeNames
    BY CodesAreCodes
  <2> QED
    BY <1>1, <1>2, <2>3, <2>4, <2>5, GivesUp
<1>4. CASE block.is # "error"
  <2>1. /\ script' = script /\ outcome' = outcome /\ up' = Written(up, block.value)
        /\ server' = server /\ report' = report /\ reason' = reason
        /\ toTarget' = toTarget /\ fromTarget' = fromTarget /\ down' = down
        /\ client' = [client EXCEPT !.does = IF client.answers = 3 THEN "relaying" ELSE "reading"]
    BY <1>1, <1>4 DEF serverVars, relayVars
  <2>2. /\ client' \in [answers : 0 .. 3, does : {"writing", "reading", "relaying", "gone"}]
        /\ client'.answers = client.answers
        /\ client'.does = IF client.answers = 3 THEN "relaying" ELSE "reading"
    BY <1>2, <2>1 DEF Typed
  <2>3. block.value \in Seq(Byte)
    BY <1>2, <1>4, ToWriteTyped
  <2> HIDE DEF block
  <2>4. IsStream(up') /\ up'.bytes = up.bytes \o block.value /\ up'.open = up.open
    BY <1>2, <2>1, <2>3, WrittenTyped
  <2>5. Typed'
    BY <1>1, <1>2, <2>1, <2>2, <2>4 DEF Typed
  <2>6. UpHolds'
    <3>1. SUFFICES ASSUME server # "closed" PROVE Speaks(Read, toTarget \o up.bytes)'
      BY <2>1 DEF UpHolds
    <3> DEFINE bytes == toTarget \o up.bytes
    <3>2. Speaks(Read, bytes) /\ Read \in 0 .. 3 /\ Read' = Read
      BY <2>1, <3>1 DEF IInv, UpHolds, Read
    <3>3. toTarget' \o up'.bytes = bytes \o block.value
      <4>1. up.bytes \in Seq(Byte)
        BY <1>2 DEF IsStream
      <4>2. Tied(toTarget, up.bytes, block.value)
        BY <1>2, <2>3, <4>1, TiedTogether
      <4> QED
        BY <2>1, <2>4, <4>2 DEF Tied
    <3> HIDE DEF bytes
    <3>4. PICK k \in 0 .. 4 :
              /\ k = Said' /\ Read <= k
              /\ \A i \in 1 .. k : Blocks[i].is = "value"
              /\ bytes \o block.value = Span(Sayings, Read, k)
      <4>1. block = ToWrite(client.answers) /\ block.is # "error" /\ client.does = "writing"
        BY <1>1, <1>4 DEF block
      <4>2. script' = script /\ Typed /\ Read \in 0 .. 3 /\ Speaks(Read, bytes)
        BY <1>2, <2>1, <3>2
      <4>3. client' = [client EXCEPT !.does = IF client.answers = 3 THEN "relaying" ELSE "reading"]
        BY <2>1, SMTT(20)
      <4> QED
        BY <4>1, <4>2, <4>3, ClientSays, Zenon
    <3> QED
      BY <2>1, <3>2, <3>3, <3>4, ScriptKept DEF Speaks
  <2>7. DownHolds'
    <3>1. ASSUME NEW w \in 0 .. 4, NEW last \in Answers, Ends(w, last) PROVE Ends(w, last)'
      <4>1. Refuses(w, last)' <=> Refuses(w, last)
        BY <2>1, ScriptKept DEF Refuses
      <4> QED
        BY <2>1, <3>1, <4>1 DEF Ends, Tells
    <3> QED
      BY <1>1, <2>1, <2>2, <3>1 DEF IInv, DownHolds, Finds
  <2>8. Knows' /\ Waits'
    BY <1>1, <2>1, ScriptKept DEF IInv, Knows, Waits, HandshakeSteps
  <2>9. OutcomesAgree' /\ RefusalIsHeard'
    BY <2>1, ScriptKept DEF IInv, OutcomesAgree, RefusalIsHeard
  <2> QED
    BY <2>5, <2>6, <2>7, <2>8, <2>9 DEF IInv
<1> QED
  BY <1>3, <1>4

-----------------------------------------------------------------------------
(* The theorems.                                                           *)

\* The invariant holds before anything is said.
LEMMA InitHolds == Init => IInv
<1> SUFFICES ASSUME Init PROVE IInv
  OBVIOUS
<1>1. /\ script \in Scripts /\ client = [answers |-> 0, does |-> "writing"] /\ outcome = "none"
      /\ server = "greeting" /\ report = [user |-> <<>>, target |-> <<>>] /\ reason = "none"
      /\ up = Empty /\ down = Empty /\ toTarget = <<>> /\ fromTarget = Banner
  BY DEF Init
<1>2. /\ up.bytes = <<>> /\ down.bytes = <<>> /\ up.open /\ down.open
      /\ IsStream(up) /\ IsStream(down) /\ <<>> \in Seq(Byte)
  BY <1>1 DEF Empty, IsStream
<1>3. Typed
  BY <1>1, <1>2 DEF Typed
<1>4. 0 \in 0 .. 4 /\ Sayings \in Quads /\ Tidings \in Quads
  BY <1>1, SayingsTyped, TidingsTyped
<1>5. Span(Sayings, 0, 0) = <<>> /\ Span(Tidings, 0, 0) = <<>>
  BY <1>4, SpanTyped
<1>6. UpHolds
  <2>1. Read = 0 /\ Said = 0 /\ toTarget \o up.bytes = <<>>
    BY <1>1, <1>2 DEF Read, Said
  <2>2. \A i \in 1 .. 0 : Blocks[i].is = "value"
    OBVIOUS
  <2> QED
    BY <1>4, <1>5, <2>1, <2>2 DEF UpHolds, Speaks
<1>7. DownHolds
  <2>1. Ends(0, <<>>) /\ <<>> \in Answers
    BY <1>1 DEF Ends, Tells, Answers
  <2>2. <<>> \o <<>> = <<>> /\ IsPrefix(<<>>, <<>>)
    BY <1>2, Glue, PrefixEnds
  <2>3. client.answers = 0
    BY <1>1
  <2> QED
    <3> DEFINE none == <<>>
               told == Span(Tidings, 0, 0) \o none
    <3>1. Ends(0, none) /\ none \in Answers /\ 0 <= 0 /\ IsPrefix(down.bytes, told) /\ down.bytes = told
      BY <1>2, <1>5, <2>1, <2>2
    <3> HIDE DEF none
    <3>2. Finds(0, down.bytes)
      BY <1>4, <3>1, Zenon DEF Finds
    <3> QED
      BY <2>3, <3>2 DEF DownHolds
<1>8. Knows /\ Waits /\ OutcomesAgree /\ RefusalIsHeard
  BY <1>1, CodesAreCodes DEF Knows, Waits, OutcomesAgree, RefusalIsHeard
<1> QED
  BY <1>3, <1>6, <1>7, <1>8 DEF IInv

\* Every step keeps it.
LEMMA StepHolds == IInv /\ [Next]_vars => IInv'
<1> SUFFICES ASSUME IInv, [Next]_vars PROVE IInv'
  OBVIOUS
<1>1. CASE UNCHANGED vars
  <2>1. IsStream(up) /\ IsStream(down)
    BY DEF IInv, Typed
  <2>2. UNCHANGED <<script, clientVars, serverVars>> /\ up' = up /\ down' = down
    BY <1>1 DEF vars
  <2> QED
    BY <2>1, <2>2, SameBytes
<1>2. CASE Client
  BY <1>2, ClientWritesKeeps, ClientReadsKeeps, LeavingKeeps DEF Client
<1>3. CASE ClientLeaves
  BY <1>3, LeavingKeeps
<1>4. CASE Server
  BY <1>4, NegotiateKeeps, AuthenticateKeeps, RequestKeeps, ConnectKeeps, EndKeeps,
     RelayUpKeeps, RelayDownKeeps DEF Server
<1>5. CASE HandshakeTimesOut
  BY <1>5, EndKeeps
<1>6. CASE Deliver
  BY <1>6, DeliverKeeps
<1>7. CASE ResetArrives
  BY <1>7, ResetKeeps
<1>8. CASE Over
  BY <1>1, <1>8 DEF Over
<1> QED
  BY <1>1, <1>2, <1>3, <1>4, <1>5, <1>6, <1>7, <1>8 DEF Next

\* The invariant of a dialogue: on either stream lies what the other side has
\* said and this one has not read, in whole messages.
THEOREM DialogueInvariant == Spec => []IInv
<1>1. Init => IInv
  BY InitHolds
<1>2. IInv /\ [Next]_vars => IInv'
  BY StepHolds
<1> QED
  BY <1>1, <1>2, PTL DEF Spec

\* A client that is told it is connected is logged in and served its target,
\* and one that is refused is refused for what the server logs: for all lists
\* of users, all scripts and all segments.
THEOREM OutcomesAlwaysAgree == Spec => []OutcomesAgree
<1>1. IInv => OutcomesAgree
  BY DEF IInv
<1> QED
  BY <1>1, DialogueInvariant, PTL

\* A client that waits for each answer learns why it is refused, unless the
\* handshake timed out.
THEOREM RefusalIsAlwaysHeard == Spec => []RefusalIsHeard
<1>1. IInv => RefusalIsHeard
  BY DEF IInv
<1> QED
  BY <1>1, DialogueInvariant, PTL

\* Nothing is the beginning of everything.
LEMMA NothingIsPrefix ==
    ASSUME NEW s \in Seq(Byte)
    PROVE  IsPrefix(<<>>, s)
<1>1. Len(<<>>) = 0 /\ Len(s) \in Nat
  OBVIOUS
<1>2. SubSeq(<<>>, 1, 0) = <<>> /\ SubSeq(s, 1, 0) = <<>>
  OBVIOUS
<1> QED
  BY <1>1, <1>2 DEF IsPrefix

\* What is left after all messages is data.
LEMMA LastSpan ==
    ASSUME NEW m \in Quads, NEW k \in 3 .. 4
    PROVE  IsPrefix(Span(m, 3, k), m[4])
<1>1. m[4] \in Seq(Byte) /\ 3 \in 0 .. 4 /\ 4 \in 0 .. 4 /\ 3 + 1 = 4
  BY DEF Quads
<1>2. Span(m, 3, 3) = <<>> /\ Span(m, 4, 4) = <<>>
  BY <1>1, SpanTyped
<1>3. Span(m, 3, 4) = m[4]
  <2>1. Span(m, 3, 4) = m[3 + 1] \o Span(m, 3 + 1, 4)
    BY <1>1, SpanFirst
  <2> QED
    BY <1>1, <1>2, <2>1, Glue
<1>4. IsPrefix(m[4], m[4])
  BY <1>1, PrefixEnds
<1>5. IsPrefix(<<>>, m[4])
  BY <1>1, NothingIsPrefix
<1> QED
  BY <1>2, <1>3, <1>4, <1>5

\* The relay starts with the first byte behind the request, and the client
\* with the first byte behind the reply.
THEOREM DataAlwaysBeginsWhereTheHandshakeEnds == Spec => []DataBeginsWhereTheHandshakeEnds
<1>1. IInv => DataBeginsWhereTheHandshakeEnds
  <2> SUFFICES ASSUME IInv PROVE DataBeginsWhereTheHandshakeEnds
    OBVIOUS
  <2>1. Typed /\ script \in Scripts
    BY DEF IInv, Typed
  <2>2. ASSUME server = "relaying" PROVE IsPrefix(toTarget \o up.bytes, script.data)
    <3>1. PICK k \in 0 .. 4 : 3 <= k /\ toTarget \o up.bytes = Span(Sayings, 3, k)
      BY <2>2 DEF IInv, UpHolds, Speaks, Read
    <3>2. k \in 3 .. 4 /\ Sayings \in Quads /\ Sayings[4] = script.data
      BY <2>1, <3>1, SayingsTyped
    <3>3. IsPrefix(Span(Sayings, 3, k), Sayings[4])
      BY <3>2, LastSpan
    <3> QED
      BY <3>1, <3>2, <3>3
  <2>3. ASSUME client.answers = 3 PROVE IsPrefix(down.bytes, Banner)
    <3>1. client.does # "gone" /\ server = "relaying"
      BY <2>1, <2>3 DEF Typed, IInv, OutcomesAgree
    <3>2. PICK w \in 0 .. 4 : /\ client.answers <= w
                              /\ down.bytes = Span(Tidings, client.answers, w)
      BY <2>1, <3>1, Told DEF IInv
    <3>3. w \in 3 .. 4 /\ Tidings \in Quads /\ Tidings[4] = Banner
      BY <2>3, <3>2, TidingsTyped DEF Tidings
    <3>4. IsPrefix(Span(Tidings, 3, w), Tidings[4])
      BY <3>3, LastSpan
    <3> QED
      BY <2>3, <3>2, <3>3, <3>4
  <2> QED
    BY <2>2, <2>3 DEF DataBeginsWhereTheHandshakeEnds
<1> QED
  BY <1>1, DialogueInvariant, PTL
=============================================================================
