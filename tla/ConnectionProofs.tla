-------------------------- MODULE ConnectionProofs --------------------------
(***************************************************************************)
(* Proofs about module Connection, for every set of addresses, every       *)
(* policy and every timeout, and that every step of it is a step of the    *)
(* connection task of Server.                                              *)
(***************************************************************************)
EXTENDS ConnectionInServer, WellFoundedInduction, SequenceTheorems, TLAPS

-----------------------------------------------------------------------------
(* The list of allowed addresses.                                          *)

\* A set of numbers has a least one: what goes wrong somewhere goes wrong for
\* the first time somewhere.
LEMMA Least ==
    ASSUME NEW T, T \subseteq Nat, T # {}
    PROVE  \E m \in T : \A k \in T : m <= k
<1> DEFINE R == {ss \in Nat \X Nat : ss[1] < ss[2]}
<1>1. IsWellFoundedOn(R, Nat)
  BY NatLessThanWellFounded DEF OpToRel
<1> HIDE DEF R
<1>2. PICK m \in T : \A k \in T : <<k, m>> \notin R
  BY <1>1, WFMin, Zenon
<1>3. ASSUME NEW k \in T PROVE m <= k
  <2>1. k \in Nat /\ m \in Nat /\ <<k, m>> \notin R
    BY <1>2
  <2>2. <<k, m>> \in Nat \X Nat /\ <<k, m>>[1] = k /\ <<k, m>>[2] = m
    BY <2>1
  <2>3. ~(k < m)
    BY <2>1, <2>2, Zenon DEF R
  <2> QED
    BY <2>1, <2>3
<1> QED
  BY <1>3

\* g is the list after each of the first m addresses.
Lists(g, addrs, m) ==
    /\ g \in [0 .. m -> Seq(Address)]
    /\ g[0] = <<>>
    /\ \A n \in 1 .. m : g[n] = push(g[n - 1], addrs[n])

\* An address is added to the list.
LEMMA PushTyped ==
    ASSUME NEW allowed \in Seq(Address), NEW addr \in Address
    PROVE  push(allowed, addr) \in Seq(Address)
BY ConnectionAssumption DEF push

\* There are such lists, ...
LEMMA ListsExist ==
    ASSUME NEW addrs \in Seq(Address), NEW m \in 0 .. Len(addrs)
    PROVE  \E g : Lists(g, addrs, m)
<1> DEFINE T == {k \in 0 .. Len(addrs) : ~ \E g : Lists(g, addrs, k)}
<1>1. Len(addrs) \in Nat
  OBVIOUS
<1>2. ASSUME T # {} PROVE FALSE
  <2>1. PICK k \in T : \A j \in T : k <= j
    <3>1. T \subseteq Nat
      BY <1>1
    <3> HIDE DEF T
    <3> QED
      BY <1>2, <3>1, Least
  <2>2. k \in 0 .. Len(addrs) /\ ~ \E g : Lists(g, addrs, k)
    OBVIOUS
  <2>3. k # 0
    <3>1. Lists([n \in 0 .. 0 |-> <<>>], addrs, 0)
      BY DEF Lists
    <3> QED
      BY <2>2, <3>1
  <2>4. k - 1 \in 0 .. Len(addrs) /\ k - 1 \notin T /\ k \in Nat \ {0}
    BY <1>1, <2>1, <2>2, <2>3
  <2>5. PICK g : Lists(g, addrs, k - 1)
    BY <2>4
  <2> DEFINE h == [n \in 0 .. k |-> IF n = k THEN push(g[k - 1], addrs[k]) ELSE g[n]]
  <2>6. addrs[k] \in Address
    BY <1>1, <2>2, <2>3
  <2>7. push(g[k - 1], addrs[k]) \in Seq(Address)
    <3>1. g[k - 1] \in Seq(Address)
      BY <2>4, <2>5 DEF Lists
    <3> QED
      BY <2>6, <3>1, PushTyped
  <2>8. h \in [0 .. k -> Seq(Address)]
    BY <2>4, <2>5, <2>7 DEF Lists
  <2>9. h[0] = <<>>
    BY <2>4, <2>5 DEF Lists
  <2>10. ASSUME NEW n \in 1 .. k PROVE h[n] = push(h[n - 1], addrs[n])
    <3>1. n - 1 \in 0 .. k /\ n - 1 # k /\ n \in 0 .. k
      BY <2>4
    <3>2. h[n - 1] = g[n - 1]
      BY <3>1
    <3>3. CASE n = k
      BY <3>1, <3>2, <3>3
    <3>4. CASE n # k
      <4>1. n \in 1 .. k - 1
        BY <2>4, <3>4
      <4>2. g[n] = push(g[n - 1], addrs[n])
        BY <2>5, <4>1 DEF Lists
      <4> QED
        BY <3>1, <3>2, <3>4, <4>2
    <3> QED
      BY <3>3, <3>4
  <2> QED
    BY <2>2, <2>8, <2>9, <2>10 DEF Lists
<1> QED
  BY <1>2

\* ... and AllowedAfter is the list after all of them.
LEMMA AllowedAfterLists ==
    ASSUME NEW addrs \in Seq(Address)
    PROVE  Lists(AllowedAfter(addrs), addrs, Len(addrs))
<1> DEFINE S == 0 .. Len(addrs)
           after == AllowedAfter(addrs)
<1>1. Len(addrs) \in Nat /\ Len(addrs) \in S
  OBVIOUS
<1>2. PICK g : Lists(g, addrs, Len(addrs))
  BY <1>1, ListsExist
<1>3. g = [n \in S |-> IF n = 0 THEN <<>> ELSE push(g[n - 1], addrs[n])]
  BY <1>2 DEF Lists
<1>4. after = [n \in S |-> IF n = 0 THEN <<>> ELSE push(after[n - 1], addrs[n])]
  BY <1>3 DEF AllowedAfter
<1> HIDE DEF after
<1> DEFINE T == {n \in S : after[n] \notin Seq(Address)}
<1>5. ASSUME T # {} PROVE FALSE
  <2>1. PICK k \in T : \A j \in T : k <= j
    <3>1. T \subseteq Nat
      BY <1>1
    <3> HIDE DEF T
    <3> QED
      BY <1>5, <3>1, Least
  <2>2. k \in S /\ after[k] \notin Seq(Address) /\ k # 0
    BY <1>4
  <2>3. k - 1 \in S /\ k - 1 \notin T /\ addrs[k] \in Address
    BY <1>1, <2>1, <2>2
  <2>4. after[k] = push(after[k - 1], addrs[k])
    BY <1>4, <2>2
  <2> QED
    BY <2>2, <2>3, <2>4, PushTyped
<1>6. after \in [S -> Seq(Address)]
  BY <1>4, <1>5
<1>7. after[0] = <<>> /\ \A n \in 1 .. Len(addrs) : after[n] = push(after[n - 1], addrs[n])
  BY <1>1, <1>4
<1> QED
  BY <1>6, <1>7 DEF Lists, after

NoRepeats(s) == \A i, j \in DOMAIN s : s[i] = s[j] => i = j

\* What is permitted of the first n addresses.
PermittedOf(addrs, n) == {Canonical[addrs[i]] : i \in 1 .. n} \cap Permitted

\* What an address adds to the list.
LEMMA PushContent ==
    ASSUME NEW allowed \in Seq(Address), NEW addr \in Address, NoRepeats(allowed)
    PROVE  /\ NoRepeats(push(allowed, addr))
           /\ Range(push(allowed, addr)) = Range(allowed) \cup ({Canonical[addr]} \cap Permitted)
<1> DEFINE c == Canonical[addr]
           longer == Append(allowed, c)
<1>1. c \in Address
  BY ConnectionAssumption
<1>2. /\ DOMAIN allowed = 1 .. Len(allowed) /\ Len(allowed) \in Nat
      /\ DOMAIN longer = 1 .. Len(allowed) + 1
      /\ \A i \in 1 .. Len(allowed) : longer[i] = allowed[i]
      /\ longer[Len(allowed) + 1] = c
  BY <1>1, AppendProperties
<1>3. CASE c \in Permitted /\ c \notin Range(allowed)
  <2>1. push(allowed, addr) = longer
    BY <1>3 DEF push
  <2> HIDE DEF longer, c
  <2>2. Range(longer) = Range(allowed) \cup {c}
    <3>1. ASSUME NEW i \in DOMAIN longer PROVE longer[i] \in Range(allowed) \cup {c}
      BY <1>2 DEF Range
    <3>2. ASSUME NEW i \in DOMAIN allowed PROVE allowed[i] \in Range(longer)
      <4>1. i \in DOMAIN longer /\ longer[i] = allowed[i]
        BY <1>2
      <4> QED
        BY <4>1 DEF Range
    <3>3. c \in Range(longer)
      <4>1. Len(allowed) + 1 \in DOMAIN longer
        BY <1>2
      <4> QED
        BY <1>2, <4>1 DEF Range
    <3> QED
      BY <3>1, <3>2, <3>3 DEF Range
  <2>3. NoRepeats(longer)
    <3>1. \A i \in 1 .. Len(allowed) : allowed[i] # c
      BY <1>2, <1>3 DEF Range
    <3> QED
      BY <1>2, <3>1 DEF NoRepeats
  <2>4. {c} \cap Permitted = {c}
    BY <1>3
  <2> QED
    BY <2>1, <2>2, <2>3, <2>4 DEF c
<1>4. CASE ~(c \in Permitted /\ c \notin Range(allowed))
  <2>1. push(allowed, addr) = allowed
    BY <1>4 DEF push
  <2> QED
    BY <1>4, <2>1
<1> QED
  BY <1>3, <1>4

\* The list after n addresses holds what is permitted of them, each once.
LEMMA ListsContent ==
    ASSUME NEW addrs \in Seq(Address), NEW g, Lists(g, addrs, Len(addrs)),
           NEW m \in 0 .. Len(addrs)
    PROVE  NoRepeats(g[m]) /\ Range(g[m]) = PermittedOf(addrs, m)
<1> DEFINE Right(k) == NoRepeats(g[k]) /\ Range(g[k]) = PermittedOf(addrs, k)
           T == {k \in 0 .. Len(addrs) : ~Right(k)}
<1>1. Len(addrs) \in Nat
  OBVIOUS
<1>2. ASSUME T # {} PROVE FALSE
  <2>1. PICK k \in T : \A j \in T : k <= j
    <3>1. T \subseteq Nat
      BY <1>1
    <3> HIDE DEF T
    <3> QED
      BY <1>2, <3>1, Least
  <2>2. k \in 0 .. Len(addrs) /\ ~Right(k)
    OBVIOUS
  <2>3. k # 0
    <3>1. g[0] = <<>>
      BY DEF Lists
    <3>2. Right(0)
      BY <3>1 DEF NoRepeats, Range, PermittedOf
    <3> QED
      BY <2>2, <3>2
  <2>4. k - 1 \in 0 .. Len(addrs) /\ k - 1 \notin T /\ k \in 1 .. Len(addrs)
    BY <1>1, <2>1, <2>2, <2>3
  <2>5. Right(k - 1)
    BY <2>4
  <2>6. g[k - 1] \in Seq(Address) /\ addrs[k] \in Address /\ g[k] = push(g[k - 1], addrs[k])
    BY <2>4 DEF Lists
  <2>7. /\ NoRepeats(g[k])
        /\ Range(g[k]) = Range(g[k - 1]) \cup ({Canonical[addrs[k]]} \cap Permitted)
    BY <2>5, <2>6, PushContent
  <2>8. PermittedOf(addrs, k) = PermittedOf(addrs, k - 1) \cup ({Canonical[addrs[k]]} \cap Permitted)
    <3>1. 1 .. k = (1 .. k - 1) \cup {k}
      BY <2>4
    <3> QED
      BY <3>1 DEF PermittedOf
  <2> QED
    BY <2>2, <2>5, <2>7, <2>8
<1> QED
  BY <1>2

\* connect_to_target may dial every permitted address of the target, in its
\* canonical form and once, and no other.
LEMMA AllowedContent ==
    ASSUME NEW addrs \in Seq(Address)
    PROVE  /\ Allowed(addrs) \in Seq(Address)
           /\ NoRepeats(Allowed(addrs))
           /\ Range(Allowed(addrs)) = {Canonical[addrs[i]] : i \in DOMAIN addrs} \cap Permitted
<1>1. Len(addrs) \in 0 .. Len(addrs) /\ DOMAIN addrs = 1 .. Len(addrs)
  OBVIOUS
<1>2. Lists(AllowedAfter(addrs), addrs, Len(addrs))
  BY AllowedAfterLists
<1> QED
  BY <1>1, <1>2, ListsContent, Zenon DEF Allowed, Lists, PermittedOf
-----------------------------------------------------------------------------
(* The inductive invariant.                                                *)

LoggedIn == <<"user_pass", "auth_success">>
Verdicts == {"succeeded"} \cup ErrorReplies
Served == {LoggedIn} \cup {<<"user_pass", "auth_success", last>> : last \in Verdicts}

BeforeLogin == {"greeting", "selecting", "declining", "credentials"}
AfterLogin == {"granting", "request", "answering", "resolving", "dialling", "refusing",
               "confirming", "relaying"}
AfterRequest == {"resolving", "dialling", "refusing", "confirming", "relaying"}
Over == {"ending", "logging", "closed"}

\* What the client has been sent at each step, and may have been sent when the
\* connection is over.
Conversation ==
    /\ step \in {"greeting", "selecting", "declining"} => sent = <<>>
    /\ step \in {"credentials", "granting", "denying"} => sent = <<"user_pass">>
    /\ step \in AfterLogin \ {"granting", "relaying"} => sent = LoggedIn
    /\ step = "relaying" => sent = <<"user_pass", "auth_success", "succeeded">>
    /\ sent \in {<<>>, <<"user_pass">>, LoggedIn} \cup Conversations
    /\ step \in {"answering", "refusing"} => reply \in ErrorReplies

\* What the client has presented, and what it has been granted for it.
Login ==
    /\ step \in BeforeLogin => presented = None
    /\ step = "denying" => presented = "bad"
    /\ step \in AfterLogin => presented = "good"
    /\ step \in HandshakeSteps => target = None
    /\ step \in AfterRequest => target # None
    /\ presented = None => authFailures = 0
    /\ presented = "good" => user /\ authFailures = 0
    /\ presented = "bad" => authFailures = 1 /\ sent \in {<<"user_pass">>, <<"user_pass", "auth_failure">>}
    /\ target # None => presented = "good" /\ sent \in Served

\* The addresses that are to be dialled are divided into those that have been
\* and those that have not.
Divided(done, left, plan) ==
    /\ Len(plan) = Len(done) + Len(left)
    /\ \A i \in 1 .. Len(done) : done[i] = plan[i]
    /\ \A i \in 1 .. Len(left) : left[i] = plan[Len(done) + i]

Dialling ==
    /\ step \in HandshakeSteps \cup {"resolving"} =>
          resolved = <<>> /\ untried = <<>> /\ dialled = <<>>
    /\ Divided(dialled, untried, Taken(Allowed(resolved)))
    /\ step = "dialling" => dialled # <<>>
    /\ step \in HandshakeSteps \cup ConnectSteps => target_addr = None
    /\ target_addr # None => target_addr = Last(dialled)

\* The reason is known when the last reply begins, and counted at the end.
Reasoning ==
    /\ step \notin {"answering", "refusing"} \cup Over => reason = None
    /\ step = "answering" => reason \in {RequestReason[e] : e \in Errors}
    /\ step = "refusing" => reason \in ConnectReasons
    /\ step \notin {"logging", "closed"} => denials = 0

\* What the timers leave of the time before the relay.
Clock ==
    /\ step \in HandshakeSteps => elapsed + phaseLeft <= Handshake
    /\ step \in ConnectSteps => elapsed + phaseLeft <= Handshake + Connect
    /\ step = "confirming" => elapsed + phaseLeft <= 2 * Handshake + Connect
    /\ step = "refusing" => elapsed + replyLeft <= 2 * Handshake + Connect
    /\ PreRelayBounded

IInv ==
    /\ TypeOK
    /\ Conversation
    /\ Login
    /\ Dialling
    /\ Reasoning
    /\ RefusalExplained
    /\ Clock

-----------------------------------------------------------------------------
(* Constants.                                                              *)

\* The timeouts are numbers.
LEMMA Timeouts == Handshake \in Nat /\ Connect \in Nat /\ MaxElapsed \in Nat
BY ConnectionAssumption DEF MaxElapsed

\* The replies and the reasons of the tables.
LEMMA Tables ==
    /\ {"not_allowed", "host_unreachable"} \subseteq ErrorReplies
    /\ \A e \in Errors : RequestReply[e] \in ErrorReplies
    /\ \A e \in DOMAIN ConnectReply : ConnectReply[e] \in ErrorReplies
    /\ \A e \in Errors : RequestReason[e] \in HandshakeReasons \ {"auth_failed"}
    /\ "succeeded" \notin ErrorReplies
    /\ None \notin ErrorReplies
<1>1. "host_unreachable" \in ErrorReplies
  <2>1. "host_unreachable" = ConnectReply["timed_out"] /\ "timed_out" \in DOMAIN ConnectReply
    BY DEF ConnectReply
  <2> QED
    BY <2>1 DEF ErrorReplies
<1>2. \A e \in Errors : RequestReply[e] \in ErrorReplies
  BY DEF ErrorReplies
<1>3. \A e \in DOMAIN ConnectReply : ConnectReply[e] \in ErrorReplies
  BY DEF ErrorReplies
<1>4. \A e \in Errors : RequestReason[e] \in HandshakeReasons \ {"auth_failed"}
  BY DEF HandshakeReasons, RequestReason, Errors
<1>5. \A e \in Errors : RequestReply[e] \notin {"succeeded", None}
  BY DEF RequestReply, Errors, None
<1>6. \A e \in DOMAIN ConnectReply : ConnectReply[e] \notin {"succeeded", None}
  BY DEF ConnectReply, None
<1> QED
  BY <1>1, <1>2, <1>3, <1>4, <1>5, <1>6 DEF ErrorReplies, None

\* A list that is not divided yet.
LEMMA NothingPlanned ==
    /\ Allowed(<<>>) = <<>>
    /\ Taken(<<>>) = <<>>
    /\ Divided(<<>>, <<>>, Taken(Allowed(<<>>)))
<1>1. Allowed(<<>>) = <<>>
  <2>1. <<>> \in Seq(Address) /\ Len(<<>>) = 0
    OBVIOUS
  <2> QED
    BY <2>1, AllowedAfterLists, Zenon DEF Allowed, Lists
<1>2. Taken(<<>>) = <<>>
  BY ConnectionAssumption DEF Taken
<1> QED
  BY <1>1, <1>2 DEF Divided

\* One more answer, ...
LEMMA FirstAnswer == \A x : Append(<<>>, x) = <<x>>
OBVIOUS

\* ... after one ...
LEMMA SecondAnswer ==
    ASSUME NEW a, NEW x
    PROVE  Append(<<a>>, x) = <<a, x>>
<1> DEFINE S == {a, x}
           s == Append(<<a>>, x)
<1>1. <<a>> \in Seq(S) /\ Len(<<a>>) = 1 /\ <<a, x>> \in Seq(S) /\ Len(<<a, x>>) = 2
  OBVIOUS
<1>2. s \in Seq(S) /\ Len(s) = 2 /\ s[1] = a /\ s[2] = x
  BY <1>1, AppendProperties
<1>3. \A i \in 1 .. 2 : s[i] = <<a, x>>[i]
  BY <1>2
<1> QED
  BY <1>1, <1>2, <1>3, SeqEqual, Zenon

\* ... or after two.
LEMMA ThirdAnswer ==
    ASSUME NEW a, NEW b, NEW x
    PROVE  Append(<<a, b>>, x) = <<a, b, x>>
<1> DEFINE S == {a, b, x}
           s == Append(<<a, b>>, x)
<1>1. <<a, b>> \in Seq(S) /\ Len(<<a, b>>) = 2 /\ <<a, b, x>> \in Seq(S) /\ Len(<<a, b, x>>) = 3
  OBVIOUS
<1>2. s \in Seq(S) /\ Len(s) = 3 /\ s[1] = a /\ s[2] = b /\ s[3] = x
  BY <1>1, AppendProperties
<1>3. \A i \in 1 .. 3 : s[i] = <<a, b, x>>[i]
  BY <1>2
<1> QED
  BY <1>1, <1>2, <1>3, SeqEqual, Zenon

\* ... and the two that begin every service.
LEMMA FirstTwoAnswers ==
    ASSUME NEW a, NEW b, NEW x
    PROVE  /\ SubSeq(<<a, b, x>>, 1, 2) = <<a, b>>
           /\ SubSeq(<<a, b>>, 1, 2) = <<a, b>>
<1> DEFINE S == {a, b, x}
           s == SubSeq(<<a, b, x>>, 1, 2)
           t == SubSeq(<<a, b>>, 1, 2)
<1>1. <<a, b>> \in Seq(S) /\ Len(<<a, b>>) = 2 /\ <<a, b, x>> \in Seq(S) /\ Len(<<a, b, x>>) = 3
  OBVIOUS
<1>2. s \in Seq(S) /\ Len(s) = 2 /\ s[1] = a /\ s[2] = b
  BY <1>1
<1>3. t \in Seq(S) /\ Len(t) = 2 /\ t[1] = a /\ t[2] = b
  BY <1>1
<1>4. \A i \in 1 .. 2 : s[i] = <<a, b>>[i] /\ t[i] = <<a, b>>[i]
  BY <1>2, <1>3
<1> QED
  BY <1>1, <1>2, <1>3, <1>4, SeqEqual

\* A task that has just begun satisfies the invariant.
LEMMA InitIInv == Init => IInv
<1> SUFFICES ASSUME Init PROVE IInv
  OBVIOUS
<1> USE DEF Init
<1>1. TypeOK
  <2>1. step \in Steps /\ reason \in Reasons /\ reply \in {None} \cup ErrorReplies
    BY DEF Steps, BeforeRelay, HandshakeSteps, Reasons
  <2>2. /\ phaseLeft \in 0 .. Handshake \cup 0 .. Connect /\ replyLeft \in 0 .. Handshake
        /\ elapsed \in 0 .. MaxElapsed /\ authFailures \in 0 .. 1 /\ denials \in 0 .. 1
    BY Timeouts
  <2>3. {resolved, untried, dialled} \subseteq Seq(Address)
    OBVIOUS
  <2> QED
    BY <2>1, <2>2, <2>3 DEF TypeOK
<1>2. Conversation /\ Login
  BY DEF Conversation, Login, AfterLogin, AfterRequest, BeforeLogin, HandshakeSteps, None
<1>3. Dialling
  BY NothingPlanned DEF Dialling, ConnectSteps
<1>4. Reasoning /\ RefusalExplained
  BY DEF Reasoning, RefusalExplained, Over, None
<1>5. Clock
  BY Timeouts DEF Clock, PreRelayBounded, HandshakeSteps, ConnectSteps
<1> QED
  BY <1>1, <1>2, <1>3, <1>4, <1>5 DEF IInv

-----------------------------------------------------------------------------
(* The steps, by what they do to the task.                                 *)

\* run_connection returns, for a reason that is new and needs no explanation
\* or for the one that is known.
LEMMA ReturnIInv ==
    ASSUME IInv, step \in BeforeRelay \cup {"relaying"}, NEW why \in Reasons, Return(why),
           why = reason \/ why \notin {"denied_by_policy", "resolved_to_nothing", "connect_failed"},
           sent' \in {<<>>, <<"user_pass">>, LoggedIn} \cup Conversations,
           presented = "bad" => sent' \in {<<"user_pass">>, <<"user_pass", "auth_failure">>},
           target # None => sent' \in Served,
           UNCHANGED <<timerVars, elapsed, presented, reportVars, dialVars, reply,
                       statVars, forceClose>>
    PROVE  IInv'
<1> USE DEF timerVars, reportVars, dialVars, statVars, Return
<1>1. TypeOK /\ Conversation /\ Login /\ Dialling /\ Reasoning /\ RefusalExplained /\ Clock
  BY DEF IInv
<1>2. step' = "ending" /\ reason' = why
  OBVIOUS
<1>3. TypeOK'
  BY <1>1, <1>2 DEF TypeOK, Steps
<1>4. Conversation' /\ Login'
  BY <1>1, <1>2 DEF Conversation, Login, BeforeLogin, AfterLogin, AfterRequest, HandshakeSteps
<1>5. Dialling'
  BY <1>1, <1>2 DEF Dialling, HandshakeSteps, ConnectSteps
<1>6. Reasoning'
  BY <1>1, <1>2 DEF Reasoning, Over, BeforeRelay, HandshakeSteps, ConnectSteps
<1>7. RefusalExplained'
  BY <1>1, <1>2 DEF RefusalExplained
<1>8. Clock'
  BY <1>1, <1>2 DEF Clock, PreRelayBounded, HandshakeSteps, ConnectSteps
<1> QED
  BY <1>3, <1>4, <1>5, <1>6, <1>7, <1>8 DEF IInv

\* The connect is given up and the client is told so.
LEMMA RefuseIInv ==
    ASSUME IInv, step \in ConnectSteps, NEW code \in ErrorReplies, NEW why \in ConnectReasons,
           StartReply("refusing", code, why),
           {resolved, untried, dialled}' \subseteq Seq(Address), lookup' \in BOOLEAN,
           Divided(dialled', untried', Taken(Allowed(resolved'))), RefusalExplained',
           UNCHANGED <<phaseLeft, elapsed, presented, reportVars, sent, statVars, forceClose>>
    PROVE  IInv'
<1> USE DEF reportVars, statVars, StartReply
<1>1. TypeOK /\ Conversation /\ Login /\ Dialling /\ Reasoning /\ Clock
  BY DEF IInv
<1>2. step' = "refusing" /\ reason' = why /\ reply' = code /\ replyLeft' = Handshake
  OBVIOUS
<1>3. TypeOK'
  BY <1>1, <1>2, Timeouts DEF TypeOK, Steps, BeforeRelay, Reasons
<1>4. Conversation' /\ Login'
  BY <1>1, <1>2
  DEF Conversation, Login, BeforeLogin, AfterLogin, AfterRequest, HandshakeSteps, ConnectSteps
<1>5. Dialling'
  BY <1>1, <1>2 DEF Dialling, HandshakeSteps, ConnectSteps
<1>6. Reasoning'
  BY <1>1, <1>2 DEF Reasoning, Over, ConnectSteps
<1>7. Clock'
  <2>1. elapsed \in Nat /\ phaseLeft \in Nat /\ elapsed + phaseLeft <= Handshake + Connect
    BY <1>1, Timeouts DEF TypeOK, Clock
  <2>2. elapsed + Handshake <= 2 * Handshake + Connect
    BY <2>1, Timeouts
  <2> QED
    BY <1>1, <1>2, <2>2 DEF Clock, PreRelayBounded, HandshakeSteps, ConnectSteps
<1> QED
  BY <1>3, <1>4, <1>5, <1>6, <1>7 DEF IInv

\* Nothing changes but the lookup and the token.
LEMMA BesideIInv ==
    ASSUME IInv, lookup' \in BOOLEAN, forceClose' \in BOOLEAN,
           UNCHANGED <<step, timerVars, elapsed, presented, reportVars, resolved, untried,
                       dialled, reply, sent, statVars, reason>>
    PROVE  IInv'
<1> USE DEF timerVars, reportVars, statVars
<1>1. TypeOK'
  BY DEF IInv, TypeOK
<1>2. Conversation' /\ Login'
  BY DEF IInv, Conversation, Login
<1>3. Dialling' /\ Reasoning'
  BY DEF IInv, Dialling, Reasoning
<1>4. RefusalExplained' /\ Clock'
  BY DEF IInv, RefusalExplained, Clock, PreRelayBounded
<1> QED
  BY <1>1, <1>2, <1>3, <1>4 DEF IInv

\* Time passes.
LEMMA TickIInv == ASSUME IInv, Tick PROVE IInv'
<1> USE DEF Tick, reportVars, dialVars, statVars
<1>1. TypeOK /\ Clock
  BY DEF IInv
<1>2. /\ elapsed \in Nat /\ phaseLeft \in Nat /\ replyLeft \in Nat /\ replyLeft <= Handshake
      /\ elapsed' = elapsed + 1 /\ elapsed < MaxElapsed
      /\ phaseLeft <= Handshake \/ phaseLeft <= Connect
  BY <1>1, Timeouts DEF TypeOK
<1>3. /\ PhaseTimed => phaseLeft > 0 /\ phaseLeft' = phaseLeft - 1
      /\ ~PhaseTimed => phaseLeft' = phaseLeft
      /\ ReplyTimed => replyLeft > 0 /\ replyLeft' = replyLeft - 1
      /\ ~ReplyTimed => replyLeft' = replyLeft
  OBVIOUS
<1>4. TypeOK'
  <2>1. /\ phaseLeft' \in 0 .. Handshake \cup 0 .. Connect /\ replyLeft' \in 0 .. Handshake
        /\ elapsed' \in 0 .. MaxElapsed
    BY <1>2, <1>3, Timeouts
  <2> QED
    BY <1>1, <2>1 DEF TypeOK
<1>5. Conversation' /\ Login'
  BY DEF IInv, Conversation, Login
<1>6. Dialling' /\ Reasoning' /\ RefusalExplained'
  BY DEF IInv, Dialling, Reasoning, RefusalExplained
<1>7. Clock'
  <2>1. PhaseTimed => elapsed' + phaseLeft' = elapsed + phaseLeft /\ elapsed' <= elapsed + phaseLeft
    BY <1>2, <1>3
  <2>2. ReplyTimed => elapsed' + replyLeft' = elapsed + replyLeft /\ elapsed' <= elapsed + replyLeft
    BY <1>2, <1>3
  <2>3. CASE step \in HandshakeSteps
    BY <1>1, <1>2, <2>1, <2>3, Timeouts
    DEF Clock, PreRelayBounded, PhaseTimed, HandshakeSteps, ConnectSteps
  <2>4. CASE step \in ConnectSteps
    BY <1>1, <1>2, <2>1, <2>4, Timeouts
    DEF Clock, PreRelayBounded, PhaseTimed, HandshakeSteps, ConnectSteps
  <2>5. CASE step = "confirming"
    BY <1>1, <1>2, <2>1, <2>5, Timeouts
    DEF Clock, PreRelayBounded, PhaseTimed, HandshakeSteps, ConnectSteps
  <2>6. CASE step = "refusing"
    BY <1>1, <1>2, <2>2, <2>6, Timeouts
    DEF Clock, PreRelayBounded, ReplyTimed, HandshakeSteps, ConnectSteps
  <2> QED
    BY <2>3, <2>4, <2>5, <2>6 DEF BeforeRelay
<1> QED
  BY <1>4, <1>5, <1>6, <1>7 DEF IInv

\* The task goes on to its next step, before the relay or into it, and leaves
\* the timers, the addresses and the reason alone.
LEMMA ProceedIInv ==
    ASSUME IInv, step' \in (HandshakeSteps \cup {"relaying"}) \ {"answering"},
           \/ step \in HandshakeSteps \ {"answering"}
           \/ step = "confirming" /\ step' = "relaying",
           Conversation', Login', presented' \in {None, "good", "bad"}, user' \in BOOLEAN,
           authFailures' \in 0 .. 1,
           UNCHANGED <<phaseLeft, replyLeft, elapsed, target, target_addr, resolved, untried,
                       dialled, lookup, reply, denials, reason, forceClose>>
    PROVE  IInv'
<1>1. TypeOK /\ Dialling /\ Reasoning /\ RefusalExplained /\ Clock
  BY DEF IInv
<1>2. TypeOK'
  <2>1. step' \in Steps
    BY DEF Steps, BeforeRelay
  <2> QED
    BY <1>1, <2>1 DEF TypeOK
<1>3. Dialling'
  BY <1>1 DEF Dialling, HandshakeSteps, ConnectSteps
<1>4. Reasoning' /\ RefusalExplained'
  BY <1>1 DEF Reasoning, RefusalExplained, HandshakeSteps, Over
<1>5. Clock'
  BY <1>1 DEF Clock, PreRelayBounded, HandshakeSteps, ConnectSteps
<1> QED
  BY <1>2, <1>3, <1>4, <1>5 DEF IInv

\* negotiate_method reads the methods.
LEMMA ReadGreetingIInv == ASSUME IInv, ReadGreeting PROVE IInv'
<1> USE DEF ReadGreeting, reportVars, statVars
<1>1. TypeOK /\ Conversation /\ Login
  BY DEF IInv
<1>2. Conversation' /\ Login'
  BY <1>1
  DEF Conversation, Login, BeforeLogin, AfterLogin, AfterRequest, HandshakeSteps
<1>3. step \in HandshakeSteps \ {"answering"} /\ step' \in HandshakeSteps \ {"answering"}
  BY DEF HandshakeSteps
<1>4. presented' \in {None, "good", "bad"} /\ user' \in BOOLEAN /\ authFailures' \in 0 .. 1
  BY <1>1 DEF TypeOK
<1>5. UNCHANGED <<phaseLeft, replyLeft, elapsed, target, target_addr, resolved, untried,
                  dialled, lookup, reply, denials, reason, forceClose>>
  BY DEF timerVars, dialVars
<1> QED
  BY <1>2, <1>3, <1>4, <1>5, ProceedIInv

\* authenticate reads the credentials.
LEMMA ReadCredentialsIInv == ASSUME IInv, ReadCredentials PROVE IInv'
<1> USE DEF ReadCredentials
<1>1. TypeOK /\ Conversation /\ Login /\ presented = None /\ authFailures = 0
  BY DEF IInv, Login, BeforeLogin
<1>2. Conversation'
  BY <1>1 DEF Conversation, AfterLogin
<1>3. Login'
  BY <1>1 DEF Conversation, Login, BeforeLogin, AfterLogin, AfterRequest, HandshakeSteps, None
<1>4. step \in HandshakeSteps \ {"answering"} /\ step' \in HandshakeSteps \ {"answering"}
  BY DEF HandshakeSteps
<1>5. presented' \in {None, "good", "bad"} /\ user' \in BOOLEAN /\ authFailures' \in 0 .. 1
  <2>1. user \in BOOLEAN
    BY <1>1 DEF TypeOK
  <2>2. authFailures' \in {0, 1}
    BY <1>1
  <2>3. user' \in BOOLEAN
    BY <2>1
  <2>4. presented' \in {None, "good", "bad"}
    OBVIOUS
  <2> QED
    BY <2>2, <2>3, <2>4
<1>6. UNCHANGED <<phaseLeft, replyLeft, elapsed, target, target_addr, resolved, untried,
                  dialled, lookup, reply, denials, reason, forceClose>>
  BY DEF timerVars, dialVars
<1> QED
  BY <1>2, <1>3, <1>4, <1>5, <1>6, ProceedIInv

\* An answer is written that must arrive.
LEMMA RequiredAnswerSentIInv == ASSUME IInv, RequiredAnswerSent PROVE IInv'
<1> USE DEF reportVars, statVars
<1>1. TypeOK /\ Conversation /\ Login
  BY DEF IInv
<1>2. \/ step = "selecting" /\ step' = "credentials" /\ sent' = Append(sent, "user_pass")
      \/ step = "granting" /\ step' = "request" /\ sent' = Append(sent, "auth_success")
      \/ step = "confirming" /\ step' = "relaying" /\ sent' = Append(sent, "succeeded")
  BY DEF RequiredAnswerSent, Required
<1>3. \/ step = "selecting" /\ step' = "credentials" /\ sent' = <<"user_pass">>
      \/ step = "granting" /\ step' = "request" /\ sent' = LoggedIn
      \/ /\ step = "confirming" /\ step' = "relaying"
         /\ sent' = <<"user_pass", "auth_success", "succeeded">>
  <2>1. /\ Append(<<>>, "user_pass") = <<"user_pass">>
        /\ Append(<<"user_pass">>, "auth_success") = LoggedIn
        /\ Append(LoggedIn, "succeeded") = <<"user_pass", "auth_success", "succeeded">>
    BY FirstAnswer, SecondAnswer, ThirdAnswer DEF LoggedIn
  <2> QED
    BY <1>1, <1>2, <2>1, Zenon DEF Conversation, AfterLogin
<1>4. <<"user_pass", "auth_success", "succeeded">> \in Served \cap Conversations
  BY DEF Served, Verdicts, Conversations
<1>5. Conversation'
  BY <1>1, <1>3, <1>4 DEF Conversation, AfterLogin
<1>6. Login'
  BY <1>1, <1>3, <1>4
  DEF RequiredAnswerSent, Login, BeforeLogin, AfterLogin, AfterRequest, HandshakeSteps
<1> QED
  <2>1. /\ step' \in (HandshakeSteps \cup {"relaying"}) \ {"answering"}
        /\ \/ step \in HandshakeSteps \ {"answering"}
           \/ step = "confirming" /\ step' = "relaying"
    BY <1>3 DEF HandshakeSteps
  <2>2. presented' \in {None, "good", "bad"} /\ user' \in BOOLEAN /\ authFailures' \in 0 .. 1
    BY <1>1 DEF RequiredAnswerSent, TypeOK
  <2>3. UNCHANGED <<phaseLeft, replyLeft, elapsed, target, target_addr, resolved, untried,
                    dialled, lookup, reply, denials, reason, forceClose>>
    BY DEF RequiredAnswerSent, timerVars, dialVars
  <2> QED
    BY <1>5, <1>6, <2>1, <2>2, <2>3, ProceedIInv

\* The last answer has been written, or not.
LEMMA BestEffortAnswerOverIInv == ASSUME IInv, BestEffortAnswerOver PROVE IInv'
<1>1. TypeOK /\ Conversation /\ Login /\ Reasoning
  BY DEF IInv
<1> DEFINE answer == BestEffort[step].answer
           why == BestEffort[step].why
<1>2. /\ sent' \in {sent, Append(sent, answer)} /\ Return(why)
      /\ UNCHANGED <<timerVars, elapsed, presented, reportVars, dialVars, reply,
                     statVars, forceClose>>
  BY DEF BestEffortAnswerOver
<1>3. \/ step = "declining" /\ answer = "no_acceptable" /\ why = "no_acceptable_auth_method"
      \/ step = "denying" /\ answer = "auth_failure" /\ why = "auth_failed"
      \/ step \in {"answering", "refusing"} /\ answer = reply /\ why = reason
  BY DEF BestEffortAnswerOver, BestEffort
<1> HIDE DEF answer, why
<1>4. why \in Reasons
  BY <1>1, <1>3 DEF TypeOK, Reasons, HandshakeReasons
<1>5. \/ step = "declining" /\ Append(sent, answer) = <<"no_acceptable">>
      \/ step = "denying" /\ Append(sent, answer) = <<"user_pass", "auth_failure">>
      \/ /\ step \in {"answering", "refusing"} /\ reply \in ErrorReplies
         /\ Append(sent, answer) = <<"user_pass", "auth_success", reply>>
  <2>1. /\ Append(<<>>, "no_acceptable") = <<"no_acceptable">>
        /\ Append(<<"user_pass">>, "auth_failure") = <<"user_pass", "auth_failure">>
        /\ Append(LoggedIn, reply) = <<"user_pass", "auth_success", reply>>
    BY FirstAnswer, SecondAnswer, ThirdAnswer DEF LoggedIn
  <2> QED
    BY <1>1, <1>3, <2>1, Zenon DEF Conversation, AfterLogin
<1>6. sent' \in {<<>>, <<"user_pass">>, LoggedIn} \cup Conversations
  BY <1>1, <1>2, <1>5 DEF Conversation, Conversations
<1>7. presented = "bad" => sent' \in {<<"user_pass">>, <<"user_pass", "auth_failure">>}
  BY <1>1, <1>2, <1>5, Zenon DEF Login, BeforeLogin, AfterLogin, None
<1>8. target # None => sent' \in Served
  BY <1>1, <1>2, <1>5 DEF Login, Served, Verdicts, HandshakeSteps
<1>9. step \in BeforeRelay
  BY <1>3 DEF BeforeRelay, HandshakeSteps
<1> QED
  BY <1>2, <1>3, <1>4, <1>6, <1>7, <1>8, <1>9, ReturnIInv

\* The request is a CONNECT.
LEMMA ReadRequestIInv == ASSUME IInv, ReadRequest PROVE IInv'
<1> USE DEF ReadRequest, statVars
<1>1. TypeOK /\ Conversation /\ Login /\ Dialling /\ Reasoning /\ RefusalExplained /\ Clock
  BY DEF IInv
<1>2. TypeOK'
  BY <1>1, Timeouts DEF TypeOK, Steps, BeforeRelay, ConnectSteps
<1>3. Conversation'
  BY <1>1 DEF Conversation, AfterLogin
<1>4. Login'
  BY <1>1
  DEF Conversation, Login, BeforeLogin, AfterLogin, AfterRequest, HandshakeSteps, Served, None
<1>5. Dialling'
  BY <1>1 DEF Dialling, HandshakeSteps, ConnectSteps
<1>6. Reasoning' /\ RefusalExplained'
  BY <1>1 DEF Reasoning, RefusalExplained, Over
<1>7. Clock'
  <2>1. elapsed \in Nat /\ phaseLeft \in Nat /\ elapsed + phaseLeft <= Handshake
    BY <1>1, Timeouts DEF TypeOK, Clock, HandshakeSteps
  <2>2. elapsed + Connect <= Handshake + Connect
    BY <2>1, Timeouts
  <2> QED
    BY <1>1, <2>2 DEF Clock, PreRelayBounded, HandshakeSteps, ConnectSteps
<1> QED
  BY <1>2, <1>3, <1>4, <1>5, <1>6, <1>7 DEF IInv

\* The request cannot be served.
LEMMA ReadBadRequestIInv == ASSUME IInv, ReadBadRequest PROVE IInv'
<1> USE DEF reportVars, dialVars, statVars
<1>1. TypeOK /\ Conversation /\ Login /\ Dialling /\ Reasoning /\ RefusalExplained /\ Clock
  BY DEF IInv
<1>2. PICK error \in Errors : StartReply("answering", RequestReply[error], RequestReason[error])
  BY DEF ReadBadRequest
<1> DEFINE code == RequestReply[error]
           why == RequestReason[error]
<1>3. /\ code \in ErrorReplies
      /\ why \in {RequestReason[e] : e \in Errors} /\ why \in HandshakeReasons
      /\ why \notin {"denied_by_policy", "resolved_to_nothing", "connect_failed"}
  <2>1. why \notin {"denied_by_policy", "resolved_to_nothing", "connect_failed"}
    BY DEF RequestReason, Errors
  <2> QED
    BY <2>1, Tables
<1> HIDE DEF code, why
<1>4. /\ step = "request" /\ step' = "answering" /\ reply' = code /\ reason' = why
      /\ replyLeft' = Handshake
      /\ UNCHANGED <<phaseLeft, elapsed, presented, reportVars, dialVars, sent,
                     statVars, forceClose>>
  BY <1>2 DEF ReadBadRequest, StartReply, code, why
<1>5. TypeOK'
  BY <1>1, <1>3, <1>4, Timeouts DEF TypeOK, Steps, BeforeRelay, HandshakeSteps, Reasons
<1>6. Conversation' /\ Login'
  BY <1>1, <1>3, <1>4
  DEF Conversation, Login, BeforeLogin, AfterLogin, AfterRequest, HandshakeSteps
<1>7. Dialling'
  BY <1>1, <1>4 DEF Dialling, HandshakeSteps, ConnectSteps
<1>8. Reasoning' /\ RefusalExplained'
  BY <1>1, <1>3, <1>4 DEF Reasoning, RefusalExplained, Over
<1>9. Clock'
  BY <1>1, <1>4 DEF Clock, PreRelayBounded, HandshakeSteps, ConnectSteps
<1> QED
  BY <1>5, <1>6, <1>7, <1>8, <1>9 DEF IInv

-----------------------------------------------------------------------------
(* connect_to_target.                                                      *)

\* At most MAX_CONNECT_ATTEMPTS addresses are taken, the first ones.
LEMMA TakenFacts ==
    ASSUME NEW allowed \in Seq(Address)
    PROVE  /\ Taken(allowed) \in Seq(Address)
           /\ Len(Taken(allowed)) <= Len(allowed)
           /\ Len(Taken(allowed)) <= MaxConnectAttempts
           /\ Len(Taken(allowed)) = Len(allowed) \/ Len(Taken(allowed)) = MaxConnectAttempts
           /\ \A i \in 1 .. Len(Taken(allowed)) : Taken(allowed)[i] = allowed[i]
           /\ allowed # <<>> => Taken(allowed) # <<>>
<1> DEFINE n == IF Len(allowed) < MaxConnectAttempts THEN Len(allowed) ELSE MaxConnectAttempts
<1>1. Len(allowed) \in Nat /\ MaxConnectAttempts \in Nat /\ MaxConnectAttempts >= 1
  BY ConnectionAssumption
<1>2. n \in 0 .. Len(allowed) /\ n <= MaxConnectAttempts
  BY <1>1
<1>3. n = Len(allowed) \/ n = MaxConnectAttempts
  OBVIOUS
<1>4. allowed # <<>> => n >= 1
  <2>1. allowed # <<>> => Len(allowed) # 0
    OBVIOUS
  <2> QED
    BY <1>1, <2>1
<1>5. Taken(allowed) = SubSeq(allowed, 1, n)
  BY DEF Taken
<1> HIDE DEF n
<1>6. /\ SubSeq(allowed, 1, n) \in Seq(Address)
      /\ Len(SubSeq(allowed, 1, n)) = n
      /\ \A i \in 1 .. n : SubSeq(allowed, 1, n)[i] = allowed[i]
  BY <1>1, <1>2
<1>7. n >= 1 => SubSeq(allowed, 1, n) # <<>>
  <2>1. Len(<<>>) = 0
    OBVIOUS
  <2> QED
    BY <1>2, <1>6, <2>1
<1> QED
  BY <1>1, <1>2, <1>3, <1>4, <1>5, <1>6, <1>7

\* A lookup gives a list of addresses.
LEMMA ResolutionsTyped == Resolutions \subseteq Seq(Address)
<1>1. ASSUME NEW a \in Address PROVE <<a>> \in Seq(Address)
  OBVIOUS
<1>2. UNION {[1 .. n -> Address] : n \in 0 .. MaxResolved} \subseteq Seq(Address)
  <2>1. ASSUME NEW m \in 0 .. MaxResolved PROVE [1 .. m -> Address] \subseteq Seq(Address)
    BY ConnectionAssumption
  <2> QED
    BY <2>1
<1> QED
  BY <1>1, <1>2 DEF Resolutions

\* What RefusalExplained calls permitted is what Allowed lists.
LEMMA PermittedIsAllowed ==
    ASSUME NEW addrs \in Seq(Address)
    PROVE  /\ {Canonical[addrs[i]] : i \in DOMAIN addrs} \cap Permitted = Range(Allowed(addrs))
           /\ Allowed(addrs) = <<>> <=> Range(Allowed(addrs)) = {}
<1>1. Allowed(addrs) \in Seq(Address)
  BY AllowedContent
<1>2. Allowed(addrs) # <<>> => Allowed(addrs)[1] \in Range(Allowed(addrs))
  <2>1. Allowed(addrs) # <<>> => 1 \in DOMAIN Allowed(addrs)
    BY <1>1
  <2> QED
    BY <2>1 DEF Range
<1>3. Allowed(addrs) = <<>> => Range(Allowed(addrs)) = {}
  BY DEF Range
<1> QED
  BY <1>2, <1>3, AllowedContent

\* The target has no address, or none that is permitted.
LEMMA ResolvedToNoneIInv == ASSUME IInv, ResolvedToNone PROVE IInv'
<1> USE DEF reportVars, statVars
<1>1. TypeOK /\ Dialling /\ step = "resolving"
  BY DEF IInv, ResolvedToNone
<1>2. PICK addrs \in Resolutions :
        /\ NothingAllowed(addrs)
        /\ resolved' = addrs
        /\ IF addrs = <<>>
           THEN StartReply("refusing", "host_unreachable", "resolved_to_nothing")
           ELSE StartReply("refusing", "not_allowed", "denied_by_policy")
  BY DEF ResolvedToNone
<1>3. addrs \in Seq(Address) /\ Allowed(addrs) = <<>>
  BY <1>2, ResolutionsTyped DEF NothingAllowed
<1>4. dialled' = <<>> /\ untried' = <<>> /\ lookup' = FALSE
  BY <1>1 DEF ResolvedToNone, Dialling
<1>5. Divided(dialled', untried', Taken(Allowed(resolved')))
  BY <1>2, <1>3, <1>4, NothingPlanned DEF Divided
<1>6. {resolved, untried, dialled}' \subseteq Seq(Address)
  BY <1>2, <1>3, <1>4
<1>7. {Canonical[resolved'[i]] : i \in DOMAIN resolved'} \cap Permitted = {}
  BY <1>2, <1>3, PermittedIsAllowed
<1>8. RefusalExplained'
  <2>1. \/ reason' = "resolved_to_nothing" /\ resolved' = <<>>
        \/ reason' = "denied_by_policy" /\ resolved' # <<>>
    BY <1>2 DEF StartReply
  <2> QED
    BY <1>7, <2>1 DEF RefusalExplained
<1>9. /\ step \in ConnectSteps
      /\ {"host_unreachable", "not_allowed"} \subseteq ErrorReplies
      /\ {"resolved_to_nothing", "denied_by_policy"} \subseteq ConnectReasons
      /\ lookup' \in BOOLEAN
      /\ UNCHANGED <<phaseLeft, elapsed, presented, reportVars, sent, statVars, forceClose>>
  BY <1>1, <1>4, Tables DEF ResolvedToNone, ConnectSteps, ConnectReasons
<1>10. CASE addrs = <<>>
  BY <1>2, <1>5, <1>6, <1>8, <1>9, <1>10, RefuseIInv
<1>11. CASE addrs # <<>>
  BY <1>2, <1>5, <1>6, <1>8, <1>9, <1>11, RefuseIInv
<1> QED
  BY <1>10, <1>11

\* The first permitted address is dialled.
LEMMA ResolvedIInv == ASSUME IInv, Resolved PROVE IInv'
<1> USE DEF reportVars, statVars, timerVars
<1>1. TypeOK /\ Conversation /\ Login /\ Dialling /\ Reasoning /\ RefusalExplained /\ Clock
  BY DEF IInv
<1>2. PICK addrs \in Resolutions :
        /\ ~NothingAllowed(addrs)
        /\ resolved' = addrs
        /\ untried' = Tail(Taken(Allowed(addrs)))
        /\ dialled' = <<Head(Allowed(addrs))>>
  BY DEF Resolved
<1> DEFINE allowed == Allowed(addrs)
           plan == Taken(allowed)
<1>3. addrs \in Seq(Address) /\ allowed \in Seq(Address) /\ allowed # <<>>
  BY <1>2, ResolutionsTyped, AllowedContent DEF NothingAllowed
<1>4. plan \in Seq(Address) /\ plan # <<>> /\ plan[1] = allowed[1]
  <2>1. plan \in Seq(Address) /\ plan # <<>> /\ \A i \in 1 .. Len(plan) : plan[i] = allowed[i]
    BY <1>3, TakenFacts
  <2> HIDE DEF plan
  <2>2. 1 \in 1 .. Len(plan)
    BY <2>1
  <2> QED
    BY <2>1, <2>2
<1>5. untried' = Tail(plan) /\ dialled' = <<Head(allowed)>> /\ resolved' = addrs
  BY <1>2
<1>6. Taken(Allowed(resolved')) = plan
  BY <1>5
<1> HIDE DEF allowed, plan
<1>7. /\ Tail(plan) \in Seq(Address) /\ Len(Tail(plan)) = Len(plan) - 1
      /\ \A i \in 1 .. Len(Tail(plan)) : Tail(plan)[i] = plan[i + 1]
      /\ Head(allowed) = allowed[1] /\ Head(allowed) \in Address
  BY <1>3, <1>4
<1>8. /\ {resolved, untried, dialled}' \subseteq Seq(Address)
      /\ Len(dialled') = 1 /\ dialled'[1] = plan[1] /\ dialled' # <<>>
  BY <1>3, <1>4, <1>5, <1>7
<1>9. Divided(dialled', untried', plan)
  BY <1>4, <1>5, <1>7, <1>8 DEF Divided
<1>10. /\ step = "resolving" /\ step' = "dialling" /\ lookup' = FALSE
       /\ UNCHANGED <<timerVars, elapsed, presented, reportVars, reply, sent,
                      statVars, reason, forceClose>>
  BY DEF Resolved
<1>11. TypeOK'
  BY <1>1, <1>8, <1>10 DEF TypeOK, Steps, BeforeRelay, ConnectSteps
<1>12. Conversation' /\ Login'
  BY <1>1, <1>10
  DEF Conversation, Login, BeforeLogin, AfterLogin, AfterRequest, HandshakeSteps
<1>13. Dialling'
  BY <1>1, <1>6, <1>8, <1>9, <1>10 DEF Dialling, HandshakeSteps, ConnectSteps
<1>14. Reasoning' /\ RefusalExplained'
  BY <1>1, <1>10 DEF Reasoning, RefusalExplained, Over, None
<1>15. Clock'
  BY <1>1, <1>10 DEF Clock, PreRelayBounded, HandshakeSteps, ConnectSteps
<1> QED
  BY <1>11, <1>12, <1>13, <1>14, <1>15 DEF IInv

\* The address answers.
LEMMA ConnectedIInv == ASSUME IInv, Connected PROVE IInv'
<1> USE DEF Connected, dialVars, statVars
<1>1. TypeOK /\ Conversation /\ Login /\ Dialling /\ Reasoning /\ RefusalExplained /\ Clock
  BY DEF IInv
<1>2. Last(dialled) \in Address
  <2>1. dialled \in Seq(Address) /\ dialled # <<>>
    BY <1>1 DEF TypeOK, Dialling
  <2> QED
    BY <2>1 DEF Last
<1>3. TypeOK'
  BY <1>1, <1>2, Timeouts DEF TypeOK, Steps, BeforeRelay
<1>4. Conversation' /\ Login'
  BY <1>1
  DEF Conversation, Login, BeforeLogin, AfterLogin, AfterRequest, HandshakeSteps
<1>5. Dialling'
  BY <1>1 DEF Dialling, HandshakeSteps, ConnectSteps
<1>6. Reasoning' /\ RefusalExplained'
  BY <1>1 DEF Reasoning, RefusalExplained, Over
<1>7. Clock'
  <2>1. elapsed \in Nat /\ phaseLeft \in Nat /\ elapsed + phaseLeft <= Handshake + Connect
    BY <1>1, Timeouts DEF TypeOK, Clock, ConnectSteps
  <2>2. elapsed + Handshake <= 2 * Handshake + Connect
    BY <2>1, Timeouts
  <2> QED
    BY <1>1, <2>2 DEF Clock, PreRelayBounded, HandshakeSteps, ConnectSteps
<1> QED
  BY <1>3, <1>4, <1>5, <1>6, <1>7 DEF IInv

\* An address does not answer, and there is another one.
LEMMA NextAddressIInv == ASSUME IInv, AddressFails, untried # <<>> PROVE IInv'
<1> USE DEF reportVars, statVars
<1>1. TypeOK /\ Conversation /\ Login /\ Dialling /\ Reasoning /\ RefusalExplained /\ Clock
  BY DEF IInv
<1>2. /\ dialled' = Append(dialled, Head(untried)) /\ untried' = Tail(untried)
      /\ step = "dialling"
      /\ UNCHANGED <<step, reply, replyLeft, reason, phaseLeft, elapsed, presented,
                     user, target, target_addr, resolved, lookup, sent, authFailures,
                     denials, forceClose>>
  BY DEF AddressFails
<1> DEFINE plan == Taken(Allowed(resolved))
<1>3. /\ dialled \in Seq(Address) /\ untried \in Seq(Address)
      /\ Divided(dialled, untried, plan) /\ plan' = plan
  BY <1>1, <1>2 DEF TypeOK, Dialling
<1> HIDE DEF plan
<1>4. /\ Head(untried) \in Address /\ Head(untried) = untried[1] /\ Len(untried) >= 1
      /\ Tail(untried) \in Seq(Address) /\ Len(Tail(untried)) = Len(untried) - 1
      /\ \A i \in 1 .. Len(Tail(untried)) : Tail(untried)[i] = untried[i + 1]
  BY <1>3
<1>5. /\ dialled' \in Seq(Address) /\ Len(dialled') = Len(dialled) + 1
      /\ \A i \in 1 .. Len(dialled) : dialled'[i] = dialled[i]
      /\ dialled'[Len(dialled) + 1] = untried[1]
  BY <1>2, <1>3, <1>4, AppendProperties
<1>6. Divided(dialled', untried', plan)
  <2>1. Len(plan) = Len(dialled') + Len(untried')
    BY <1>2, <1>3, <1>4, <1>5 DEF Divided
  <2>2. ASSUME NEW i \in 1 .. Len(dialled') PROVE dialled'[i] = plan[i]
    <3>1. CASE i \in 1 .. Len(dialled)
      BY <1>3, <1>5, <3>1 DEF Divided
    <3>2. CASE i = Len(dialled) + 1
      <4>1. 1 \in 1 .. Len(untried)
        BY <1>3, <1>4
      <4>2. untried[1] = plan[Len(dialled) + 1]
        BY <1>3, <4>1 DEF Divided
      <4> QED
        BY <1>5, <3>2, <4>2
    <3> QED
      BY <1>3, <1>5, <3>1, <3>2
  <2>3. ASSUME NEW i \in 1 .. Len(untried') PROVE untried'[i] = plan[Len(dialled') + i]
    <3>1. i + 1 \in 1 .. Len(untried) /\ untried'[i] = untried[i + 1]
      BY <1>2, <1>3, <1>4
    <3>2. untried[i + 1] = plan[Len(dialled) + (i + 1)]
      BY <1>3, <3>1 DEF Divided
    <3>3. Len(dialled) + (i + 1) = Len(dialled') + i
      BY <1>3, <1>5, <3>1
    <3> QED
      BY <3>1, <3>2, <3>3
  <2> QED
    BY <2>1, <2>2, <2>3 DEF Divided
<1>7. TypeOK'
  BY <1>1, <1>2, <1>4, <1>5 DEF TypeOK
<1>8. Conversation' /\ Login'
  BY <1>1, <1>2 DEF Conversation, Login
<1>9. Dialling'
  <2>1. dialled' # <<>>
    BY <1>3, <1>5
  <2>2. Divided(dialled', untried', Taken(Allowed(resolved')))
    BY <1>3, <1>6 DEF plan
  <2> QED
    BY <1>1, <1>2, <2>1, <2>2 DEF Dialling, HandshakeSteps, ConnectSteps
<1>10. Reasoning' /\ RefusalExplained'
  BY <1>1, <1>2 DEF Reasoning, RefusalExplained, Over, None
<1>11. Clock'
  BY <1>1, <1>2 DEF Clock, PreRelayBounded
<1> QED
  BY <1>7, <1>8, <1>9, <1>10, <1>11 DEF IInv

\* No address has answered: all of them have been tried, or as many as may be.
LEMMA NoAddressIInv == ASSUME IInv, AddressFails, untried = <<>> PROVE IInv'
<1> USE DEF reportVars, statVars
<1>1. TypeOK /\ Dialling /\ step = "dialling" /\ resolved \in Seq(Address) /\ dialled \in Seq(Address)
  BY DEF IInv, AddressFails, TypeOK
<1>2. PICK error \in DOMAIN ConnectReply :
        StartReply("refusing", ConnectReply[error], "connect_failed")
  BY DEF AddressFails
<1>3. UNCHANGED <<phaseLeft, elapsed, presented, reportVars, resolved, untried, dialled,
                  lookup, sent, statVars, forceClose>>
  BY DEF AddressFails
<1> DEFINE allowed == Allowed(resolved)
           plan == Taken(allowed)
<1>4. allowed \in Seq(Address)
  BY <1>1, AllowedContent
<1>5. /\ plan \in Seq(Address)
      /\ Len(plan) = Len(allowed) \/ Len(plan) = MaxConnectAttempts
      /\ Len(plan) <= Len(allowed)
      /\ \A i \in 1 .. Len(plan) : plan[i] = allowed[i]
  BY <1>4, TakenFacts
<1>6. Divided(dialled, untried, plan) /\ dialled # <<>>
  BY <1>1 DEF Dialling
<1>7. {Canonical[resolved[i]] : i \in DOMAIN resolved} \cap Permitted = Range(allowed)
  BY <1>1, PermittedIsAllowed
<1> HIDE DEF allowed, plan
<1>8. Len(dialled) = Len(plan) /\ \A i \in 1 .. Len(dialled) : dialled[i] = allowed[i]
  <2>1. Len(untried) = 0 /\ Len(dialled) \in Nat
    BY <1>1
  <2> QED
    BY <1>5, <1>6, <2>1 DEF Divided
<1>9. allowed[1] \in Range(allowed)
  <2>1. 1 \in DOMAIN allowed
    BY <1>1, <1>4, <1>5, <1>6, <1>8
  <2> QED
    BY <2>1 DEF Range
<1>10. Len(plan) = Len(allowed) => Range(dialled) = Range(allowed)
  BY <1>1, <1>4, <1>8 DEF Range
<1>11. RefusalExplained'
  <2>1. reason' = "connect_failed"
    BY <1>2 DEF StartReply
  <2>2. Range(dialled) = Range(allowed) \/ Len(dialled) = MaxConnectAttempts
    BY <1>5, <1>8, <1>10
  <2> QED
    BY <1>3, <1>7, <1>9, <2>1, <2>2 DEF RefusalExplained
<1>12. /\ step \in ConnectSteps /\ ConnectReply[error] \in ErrorReplies
       /\ "connect_failed" \in ConnectReasons
       /\ {resolved, untried, dialled}' \subseteq Seq(Address) /\ lookup' \in BOOLEAN
  BY <1>1, <1>3, Tables DEF ConnectSteps, ConnectReasons, TypeOK
<1>13. Divided(dialled', untried', Taken(Allowed(resolved')))
  BY <1>3, <1>6 DEF plan, allowed
<1> QED
  BY <1>2, <1>3, <1>11, <1>12, <1>13, RefuseIInv

\* The lookup fails, or the time for the connect is over.
LEMMA GiveUpIInv ==
    ASSUME IInv, LookupFails \/ ConnectTimesOut
    PROVE  IInv'
<1> USE DEF reportVars, statVars
<1>1. TypeOK /\ Dialling /\ step \in ConnectSteps
  BY DEF IInv, LookupFails, ConnectTimesOut, ConnectSteps
<1>2. /\ lookup' \in BOOLEAN
      /\ UNCHANGED <<phaseLeft, elapsed, presented, reportVars, resolved, untried, dialled,
                     sent, statVars, forceClose>>
  BY <1>1 DEF LookupFails, ConnectTimesOut, dialVars, TypeOK
<1>3. PICK why \in {"resolve_failed", "connect_timeout"} :
        StartReply("refusing", "host_unreachable", why)
  BY DEF LookupFails, ConnectTimesOut
<1>4. why \in ConnectReasons /\ "host_unreachable" \in ErrorReplies
  BY Tables DEF ConnectReasons
<1>5. RefusalExplained'
  BY <1>3 DEF RefusalExplained, StartReply
<1>6. /\ {resolved, untried, dialled}' \subseteq Seq(Address)
      /\ Divided(dialled', untried', Taken(Allowed(resolved')))
  BY <1>1, <1>2 DEF TypeOK, Dialling
<1> QED
  BY <1>1, <1>2, <1>3, <1>4, <1>5, <1>6, RefuseIInv

-----------------------------------------------------------------------------
(* The end, and the result.                                                *)

\* The connection is counted and logged.
LEMMA EndIInv == ASSUME IInv, CountConnection \/ CloseConnection PROVE IInv'
<1> USE DEF CountConnection, CloseConnection, timerVars, reportVars, dialVars, statVars
<1>1. TypeOK /\ Conversation /\ Login /\ Dialling /\ Reasoning /\ RefusalExplained /\ Clock
  BY DEF IInv
<1>2. /\ step \in {"ending", "logging"} /\ step' \in {"logging", "closed"}
      /\ denials' \in 0 .. 1
      /\ UNCHANGED <<phaseLeft, replyLeft, elapsed, presented, user, target, target_addr,
                     resolved, untried, dialled, lookup, reply, sent, authFailures, reason,
                     forceClose>>
  <2>1. CASE CountConnection
    <3>1. step = "ending" /\ denials = 0
      <4>1. step = "ending" => denials = 0
        BY <1>1, Zenon DEF Reasoning
      <4> QED
        BY <2>1, <4>1
    <3>2. denials' \in 0 .. 1
      BY <2>1, <3>1
    <3> QED
      BY <2>1, <3>1, <3>2
  <2>2. CASE CloseConnection
    BY <1>1, <2>2 DEF TypeOK
  <2> QED
    BY <2>1, <2>2
<1>3. TypeOK'
  BY <1>1, <1>2 DEF TypeOK, Steps
<1>4. Conversation' /\ Login'
  BY <1>1, <1>2
  DEF Conversation, Login, BeforeLogin, AfterLogin, AfterRequest, HandshakeSteps
<1>5. Dialling'
  BY <1>1, <1>2 DEF Dialling, HandshakeSteps, ConnectSteps
<1>6. Reasoning' /\ RefusalExplained'
  BY <1>1, <1>2 DEF Reasoning, RefusalExplained, Over
<1>7. Clock'
  BY <1>1, <1>2 DEF Clock, PreRelayBounded, HandshakeSteps, ConnectSteps
<1> QED
  BY <1>3, <1>4, <1>5, <1>6, <1>7 DEF IInv

\* The task is cut short: a read or a write fails, a timer runs out, the relay
\* returns or the token is cancelled.
LEMMA CutShortIInv ==
    ASSUME IInv,
           \/ ReadFails \/ RequiredAnswerFails \/ ReplyTimesOut \/ HandshakeTimesOut
           \/ RelayReturns \/ ForceClosed
    PROVE  IInv'
<1>1. PICK why \in {"handshake_io_error", "protocol_error", "handshake_timeout", "shutdown",
                    reason} \cup RelayReasons : Return(why)
  BY DEF ReadFails, RequiredAnswerFails, ReplyTimesOut, HandshakeTimesOut, RelayReturns,
         ForceClosed
<1>2. /\ why \in Reasons
      /\ why = reason \/ why \notin {"denied_by_policy", "resolved_to_nothing", "connect_failed"}
  BY DEF IInv, TypeOK, Reasons, HandshakeReasons, RelayReasons
<1>3. step \in BeforeRelay \cup {"relaying"}
  BY DEF ReadFails, RequiredAnswerFails, ReplyTimesOut, HandshakeTimesOut, RelayReturns,
         ForceClosed, BeforeRelay, HandshakeSteps, Required, ReplyTimed
<1>4. /\ sent' = sent
      /\ UNCHANGED <<timerVars, elapsed, presented, reportVars, dialVars, reply,
                     statVars, forceClose>>
  BY DEF ReadFails, RequiredAnswerFails, ReplyTimesOut, HandshakeTimesOut, RelayReturns,
         ForceClosed
<1>5. /\ sent' \in {<<>>, <<"user_pass">>, LoggedIn} \cup Conversations
      /\ presented = "bad" => sent' \in {<<"user_pass">>, <<"user_pass", "auth_failure">>}
      /\ target # None => sent' \in Served
  BY <1>4 DEF IInv, Conversation, Login
<1> QED
  BY <1>1, <1>2, <1>3, <1>4, <1>5, ReturnIInv

\* Every step preserves the invariant.
LEMMA NextIInv == IInv /\ [Next]_vars => IInv'
<1> SUFFICES ASSUME IInv, [Next]_vars PROVE IInv'
  OBVIOUS
<1>1. CASE Tick
  BY <1>1, TickIInv
<1>2. CASE ReadGreeting
  BY <1>2, ReadGreetingIInv
<1>3. CASE ReadCredentials
  BY <1>3, ReadCredentialsIInv
<1>4. CASE ReadRequest
  BY <1>4, ReadRequestIInv
<1>5. CASE ReadBadRequest
  BY <1>5, ReadBadRequestIInv
<1>6. CASE \/ ReadFails \/ RequiredAnswerFails \/ ReplyTimesOut \/ HandshakeTimesOut
           \/ RelayReturns \/ ForceClosed
  BY <1>6, CutShortIInv
<1>7. CASE RequiredAnswerSent
  BY <1>7, RequiredAnswerSentIInv
<1>8. CASE BestEffortAnswerOver
  BY <1>8, BestEffortAnswerOverIInv
<1>9. CASE ResolvedToNone
  BY <1>9, ResolvedToNoneIInv
<1>10. CASE Resolved
  BY <1>10, ResolvedIInv
<1>11. CASE LookupFails \/ ConnectTimesOut
  BY <1>11, GiveUpIInv
<1>12. CASE Connected
  BY <1>12, ConnectedIInv
<1>13. CASE AddressFails
  BY <1>13, NextAddressIInv, NoAddressIInv
<1>14. CASE CancelForceClose \/ AbandonedLookupEnds
  <2>1. lookup' \in BOOLEAN /\ forceClose' \in BOOLEAN
    BY <1>14 DEF CancelForceClose, AbandonedLookupEnds, dialVars, IInv, TypeOK
  <2>2. UNCHANGED <<step, timerVars, elapsed, presented, reportVars, resolved, untried,
                    dialled, reply, sent, statVars, reason>>
    BY <1>14 DEF CancelForceClose, AbandonedLookupEnds, dialVars
  <2> QED
    BY <2>1, <2>2, BesideIInv
<1>15. CASE CountConnection \/ CloseConnection
  BY <1>15, EndIInv
<1>16. CASE UNCHANGED vars
  BY <1>16, BesideIInv DEF vars, dialVars, IInv, TypeOK
<1> QED
  BY <1>1, <1>2, <1>3, <1>4, <1>5, <1>6, <1>7, <1>8, <1>9, <1>10, <1>11, <1>12, <1>13,
     <1>14, <1>15, <1>16 DEF Next, Closed

\* The inductive invariant holds at every moment of a connection task.
THEOREM Inductive == Spec => []IInv
BY InitIInv, NextIInv, PTL DEF Spec

\* The task keeps its state in its types: no timer is ever below zero or above
\* its timeout, and no failure or denial is counted twice.
THEOREM TypesHold == Spec => []TypeOK
<1>1. IInv => TypeOK
  BY DEF IInv
<1> QED
  BY <1>1, Inductive, PTL

\* Nothing is looked up or dialled for a client that has not logged in, and a
\* client that failed to is told so and counted, and gets nothing more
\* (negotiate_method, authenticate).
THEOREM LoginHolds == Spec => []ServiceNeedsLogin
<1>1. ASSUME IInv PROVE ServiceNeedsLogin
  <2>1. \A s \in Served : SubSeq(s, 1, 2) = <<"user_pass", "auth_success">>
    BY FirstTwoAnswers DEF Served, LoggedIn
  <2> QED
    BY <1>1, <2>1 DEF IInv, Login, ServiceNeedsLogin
<1> QED
  BY <1>1, Inductive, PTL

\* Before the relay a connection lasts at most two handshake timeouts and a
\* connect timeout (run_connection, send_reply).
THEOREM BoundHolds == Spec => []PreRelayBounded
<1>1. IInv => PreRelayBounded
  BY DEF IInv, Clock
<1> QED
  BY <1>1, Inductive, PTL

\* Every refusal has the cause it names: the policy denied every address, or
\* every permitted one was tried, as far as MAX_CONNECT_ATTEMPTS allows
\* (connect_to_target).
THEOREM RefusalHolds == Spec => []RefusalExplained
<1>1. IInv => RefusalExplained
  BY DEF IInv
<1> QED
  BY <1>1, Inductive, PTL

\* Only addresses that the policy permits in their canonical form are dialled,
\* in that form, each once and at most MAX_CONNECT_ATTEMPTS, whatever a lookup
\* returns (connect_to_target).
THEOREM DiallingHolds == Spec => []OnlyPermittedDialled
<1>1. ASSUME IInv PROVE OnlyPermittedDialled
  <2> DEFINE allowed == Allowed(resolved)
             plan == Taken(allowed)
  <2>1. resolved \in Seq(Address) /\ dialled \in Seq(Address) /\ untried \in Seq(Address)
    BY <1>1 DEF IInv, TypeOK
  <2>2. allowed \in Seq(Address) /\ NoRepeats(allowed) /\ Range(allowed) \subseteq Permitted
    BY <2>1, AllowedContent
  <2>3. /\ plan \in Seq(Address) /\ Len(plan) <= Len(allowed) /\ Len(plan) <= MaxConnectAttempts
        /\ \A i \in 1 .. Len(plan) : plan[i] = allowed[i]
    BY <2>2, TakenFacts
  <2>4. Divided(dialled, untried, plan)
    BY <1>1 DEF IInv, Dialling
  <2> HIDE DEF allowed, plan
  <2>5. /\ Len(dialled) <= Len(plan)
        /\ \A i \in 1 .. Len(dialled) : dialled[i] = allowed[i] /\ i \in 1 .. Len(allowed)
    BY <2>1, <2>2, <2>3, <2>4 DEF Divided
  <2>6. Range(dialled) \subseteq Permitted
    BY <2>1, <2>2, <2>5 DEF Range
  <2>7. \A i, j \in DOMAIN dialled : dialled[i] = dialled[j] => i = j
    BY <2>1, <2>2, <2>5 DEF NoRepeats
  <2>8. Len(dialled) <= MaxConnectAttempts
    BY <2>1, <2>3, <2>5, ConnectionAssumption
  <2> QED
    BY <1>1, <2>6, <2>7, <2>8 DEF IInv, Dialling, OnlyPermittedDialled
<1> QED
  BY <1>1, Inductive, PTL

\* What a conversation begins with.
LEMMA Beginnings ==
    ASSUME NEW a, NEW b, NEW x
    PROVE  /\ Begins(<<>>, <<a>>)
           /\ Begins(<<a>>, <<a, b>>)
           /\ Begins(<<a, b>>, <<a, b, x>>)
BY DEF Begins

\* Where a conversation may have got to.
LEMMA ConversationsBegin ==
    /\ \E whole \in Conversations : Begins(<<>>, whole)
    /\ \E whole \in Conversations : Begins(<<"user_pass">>, whole)
    /\ \E whole \in Conversations : Begins(LoggedIn, whole)
    /\ \A whole \in Conversations : Begins(whole, whole)
<1>1. /\ <<"no_acceptable">> \in Conversations
      /\ <<"user_pass", "auth_failure">> \in Conversations
      /\ <<"user_pass", "auth_success", "succeeded">> \in Conversations
  BY DEF Conversations
<1>2. /\ Begins(<<>>, <<"no_acceptable">>)
      /\ Begins(<<"user_pass">>, <<"user_pass", "auth_failure">>)
      /\ Begins(LoggedIn, <<"user_pass", "auth_success", "succeeded">>)
  BY Beginnings DEF LoggedIn
<1>3. ASSUME NEW whole \in Conversations PROVE Begins(whole, whole)
  <2>1. Len(whole) \in Nat
    BY DEF Conversations
  <2> QED
    BY <2>1 DEF Begins
<1> QED
  BY <1>1, <1>2, <1>3

\* A conversation that is not over is not a whole one.
LEMMA ConversationsDiffer ==
    {<<>>, <<"user_pass">>, LoggedIn} \cap Conversations = {}
<1>1. /\ Len(<<>>) = 0 /\ Len(<<"user_pass">>) = 1 /\ Len(LoggedIn) = 2
      /\ <<"user_pass">>[1] = "user_pass" /\ LoggedIn[2] = "auth_success"
  BY DEF LoggedIn
<1>2. ASSUME NEW whole \in Conversations
      PROVE  \/ Len(whole) = 1 /\ whole[1] = "no_acceptable"
             \/ Len(whole) = 2 /\ whole[2] = "auth_failure"
             \/ Len(whole) = 3
  BY DEF Conversations
<1> QED
  BY <1>1, <1>2

\* What the client is sent is at every moment the beginning of a legal
\* conversation, and a refusal is the last of it (handshake, run_connection).
THEOREM ConversationHolds == Spec => []ConversationLegal
<1>1. ASSUME IInv PROVE ConversationLegal
  <2>1. Conversation /\ step \in Steps
    BY <1>1 DEF IInv, TypeOK
  <2>2. \E whole \in Conversations : Begins(sent, whole)
    BY <2>1, ConversationsBegin DEF Conversation
  <2>3. ASSUME sent \in Conversations PROVE step \in {"relaying"} \cup Over
    BY <2>1, <2>3, ConversationsDiffer
    DEF Conversation, Steps, BeforeRelay, HandshakeSteps, ConnectSteps, AfterLogin, Over
  <2>4. step = "relaying" => Last(sent) = "succeeded"
    <3>1. <<"user_pass", "auth_success", "succeeded">>[3] = "succeeded"
      OBVIOUS
    <3> QED
      BY <2>1, <3>1, Zenon DEF Conversation, Last
  <2> QED
    BY <2>2, <2>3, <2>4 DEF ConversationLegal, Over
<1> QED
  BY <1>1, Inductive, PTL

-----------------------------------------------------------------------------
(* Every step of Connection is a step of the connection task of Server.    *)

\* The blocking thread has the lookup while the task waits for it, and has none
\* before; an address that has answered is known.
Holdings ==
    /\ step \in HandshakeSteps \cup {"dialling"} => lookup = FALSE
    /\ step = "resolving" => lookup = (target = "domain")
    /\ step = "confirming" => target_addr # None

\* A required answer leads to the step that Required names.
LEMMA AnswerGoesOn ==
    ASSUME RequiredAnswerSent
    PROVE  /\ \/ step = "selecting" /\ step' = "credentials"
              \/ step = "granting" /\ step' = "request"
              \/ step = "confirming" /\ step' = "relaying"
           /\ UNCHANGED <<lookup, target, target_addr, reason, forceClose>>
<1>1. /\ DOMAIN Required = {"selecting", "granting", "confirming"}
      /\ Required["selecting"].next = "credentials" /\ Required["granting"].next = "request"
      /\ Required["confirming"].next = "relaying"
  BY DEF Required
<1>2. step \in DOMAIN Required /\ step' = Required[step].next
  BY DEF RequiredAnswerSent
<1>3. UNCHANGED <<lookup, target, target_addr, reason, forceClose>>
  BY DEF RequiredAnswerSent, reportVars, dialVars
<1> QED
  BY <1>1, <1>2, <1>3

\* A message of the handshake that is read leads to another step of it.
LEMMA ReadingGoesOn ==
    ASSUME ReadGreeting \/ ReadCredentials \/ ReadBadRequest
    PROVE  step \in HandshakeSteps /\ step' \in HandshakeSteps /\ lookup' = lookup
<1> USE DEF StartReply, HandshakeSteps, dialVars
<1>1. CASE ReadGreeting
  BY <1>1 DEF ReadGreeting
<1>2. CASE ReadCredentials
  BY <1>2 DEF ReadCredentials
<1>3. CASE ReadBadRequest
  BY <1>3 DEF ReadBadRequest
<1> QED
  BY <1>1, <1>2, <1>3

\* The steps that an answer can fail in, and that end with one.
LEMMA AnswerDomains ==
    /\ DOMAIN Required = {"selecting", "granting", "confirming"}
    /\ DOMAIN BestEffort = {"declining", "denying", "answering", "refusing"}
    /\ BestEffort["declining"].why = "no_acceptable_auth_method"
    /\ BestEffort["denying"].why = "auth_failed"
    /\ BestEffort["answering"].why = reason /\ BestEffort["refusing"].why = reason
<1>1. DOMAIN Required = {"selecting", "granting", "confirming"}
  BY DEF Required
<1> QED
  BY <1>1 DEF BestEffort

\* The steps in which run_connection returns, before and after.
LEMMA ReturnEnds ==
    ASSUME \/ ReadFails \/ RequiredAnswerFails \/ BestEffortAnswerOver \/ ReplyTimesOut
           \/ HandshakeTimesOut \/ RelayReturns \/ ForceClosed
    PROVE  /\ step' = "ending"
           /\ UNCHANGED <<lookup, forceClose, target_addr>>
           /\ step \in BeforeRelay \cup {"relaying"}
<1>1. CASE ReadFails
  BY <1>1 DEF ReadFails, Return, reportVars, dialVars, BeforeRelay, HandshakeSteps
<1>2. CASE RequiredAnswerFails
  BY <1>2, AnswerDomains DEF RequiredAnswerFails, Return, reportVars, dialVars, BeforeRelay, HandshakeSteps
<1>3. CASE BestEffortAnswerOver
  BY <1>3, AnswerDomains DEF BestEffortAnswerOver, Return, reportVars, dialVars, BeforeRelay, HandshakeSteps
<1>4. CASE ReplyTimesOut
  BY <1>4 DEF ReplyTimesOut, ReplyTimed, Return, reportVars, dialVars, BeforeRelay, HandshakeSteps
<1>5. CASE HandshakeTimesOut
  BY <1>5 DEF HandshakeTimesOut, Return, reportVars, dialVars, BeforeRelay
<1>6. CASE RelayReturns
  BY <1>6 DEF RelayReturns, Return, reportVars, dialVars
<1>7. CASE ForceClosed
  BY <1>7 DEF ForceClosed, Return, reportVars, dialVars, BeforeRelay, HandshakeSteps, ConnectSteps
<1> QED
  BY <1>1, <1>2, <1>3, <1>4, <1>5, <1>6, <1>7

\* It is so at every step.
LEMMA HoldingsNext == IInv /\ Holdings /\ [Next]_vars => Holdings'
<1> SUFFICES ASSUME IInv, Holdings, [Next]_vars PROVE Holdings'
  OBVIOUS
<1> USE DEF Holdings, timerVars, reportVars, dialVars, statVars
<1>1. CASE Tick
  BY <1>1 DEF Tick
<1>2. CASE ReadGreeting \/ ReadCredentials \/ ReadBadRequest
  <2>1. step \in HandshakeSteps /\ step' \in HandshakeSteps /\ lookup' = lookup
    BY <1>2, ReadingGoesOn
  <2> QED
    BY <2>1 DEF HandshakeSteps
<1>3. CASE ReadRequest
  BY <1>3 DEF ReadRequest, HandshakeSteps
<1>4. CASE \/ ReadFails \/ RequiredAnswerFails \/ BestEffortAnswerOver \/ ReplyTimesOut
           \/ HandshakeTimesOut \/ RelayReturns \/ ForceClosed
  <2>1. step' = "ending"
    BY <1>4, ReturnEnds
  <2> QED
    BY <2>1 DEF HandshakeSteps
<1>5. CASE RequiredAnswerSent
  BY <1>5, AnswerGoesOn DEF HandshakeSteps
<1>6. CASE ResolvedToNone \/ LookupFails \/ ConnectTimesOut
  <2>1. step' = "refusing"
    BY <1>6 DEF ResolvedToNone, LookupFails, ConnectTimesOut, StartReply
  <2> QED
    BY <2>1 DEF HandshakeSteps
<1>7. CASE Resolved
  BY <1>7 DEF Resolved, HandshakeSteps
<1>8. CASE Connected
  <2>1. dialled \in Seq(Address) /\ dialled # <<>> /\ None \notin Address
    BY <1>8, ConnectionAssumption DEF Connected, IInv, TypeOK, Dialling, None
  <2>2. Last(dialled) \in Address
    BY <2>1 DEF Last
  <2> QED
    BY <1>8, <2>1, <2>2 DEF Connected, HandshakeSteps
<1>9. CASE AddressFails
  BY <1>9 DEF AddressFails, StartReply, HandshakeSteps
<1>10. CASE CancelForceClose
  BY <1>10 DEF CancelForceClose
<1>11. CASE AbandonedLookupEnds
  BY <1>11 DEF AbandonedLookupEnds
<1>12. CASE CountConnection \/ CloseConnection
  BY <1>12 DEF CountConnection, CloseConnection, HandshakeSteps
<1>13. CASE UNCHANGED vars
  BY <1>13 DEF vars
<1> QED
  BY <1>1, <1>2, <1>3, <1>4, <1>5, <1>6, <1>7, <1>8, <1>9, <1>10, <1>11, <1>12, <1>13
  DEF Next, Closed

\* Where Server sees the task.
LEMMA SeenPhase ==
    /\ step \in HandshakeSteps => TaskPhase = "handshake"
    /\ step = "resolving" /\ target = "domain" => TaskPhase = "resolving"
    /\ step = "resolving" /\ target # "domain" => TaskPhase = "connecting"
    /\ step = "dialling" => TaskPhase = "connecting"
    /\ step \notin HandshakeSteps \cup ConnectSteps => TaskPhase = step
BY DEF TaskPhase, HandshakeSteps, ConnectSteps

\* ... and the same after a step.
LEMMA SeenPhaseNext ==
    /\ step' \in HandshakeSteps => TaskPhase' = "handshake"
    /\ step' = "resolving" /\ target' = "domain" => TaskPhase' = "resolving"
    /\ step' = "resolving" /\ target' # "domain" => TaskPhase' = "connecting"
    /\ step' = "dialling" => TaskPhase' = "connecting"
    /\ step' \notin HandshakeSteps \cup ConnectSteps => TaskPhase' = step'
BY DEF TaskPhase, HandshakeSteps, ConnectSteps

\* Server sees no reason before the end.
LEMMA SeenReason ==
    /\ step \notin Over => TaskReason = "none"
    /\ step' \notin Over => TaskReason' = "none"
    /\ reason' = reason /\ target_addr' = target_addr /\ step \in Over /\ step' \in Over
          => TaskReason' = TaskReason
BY DEF TaskReason, Over

\* What Server sees the task hold.
LEMMA SeenHeld ==
    /\ TaskClient = IF step \in BeforeRelay \cup {"relaying"} THEN {This} ELSE {}
    /\ TaskTarget = IF step \in {"dialling", "confirming", "relaying"} THEN {This} ELSE {}
    /\ TaskCounted = IF step \in {"logging", "closed"} THEN {This} ELSE {}
    /\ TaskLookup = IF lookup THEN {This} ELSE {}
    /\ PermitsLeft = IF step = "closed" THEN 1 ELSE 0
BY DEF TaskClient, TaskTarget, TaskCounted, TaskLookup, PermitsLeft, If

\* ... and after a step.
LEMMA SeenHeldNext ==
    /\ TaskClient' = IF step' \in BeforeRelay \cup {"relaying"} THEN {This} ELSE {}
    /\ TaskTarget' = IF step' \in {"dialling", "confirming", "relaying"} THEN {This} ELSE {}
    /\ TaskCounted' = IF step' \in {"logging", "closed"} THEN {This} ELSE {}
    /\ TaskLookup' = IF lookup' THEN {This} ELSE {}
    /\ PermitsLeft' = IF step' = "closed" THEN 1 ELSE 0
BY DEF TaskClient, TaskTarget, TaskCounted, TaskLookup, PermitsLeft, If

\* Nothing that Server sees has changed.
LEMMA TaskStays ==
    ASSUME UNCHANGED <<TaskPhase, TaskReason, TaskClient, TaskTarget, TaskCounted, TaskLookup>>
    PROVE  UNCHANGED <<Task!connVars, Task!jobVars>>
BY DEF Task!connVars, Task!jobVars

\* The task is where Server sees it.
LEMMA TaskIsAt ==
    ASSUME NEW from, TaskPhase = from
    PROVE  [c \in {This} |-> TaskPhase][This] = from
OBVIOUS

\* The phase it moves to.
LEMMA TaskGoesTo ==
    ASSUME NEW to, TaskPhase' = to
    PROVE  [c \in {This} |-> TaskPhase]' = [[c \in {This} |-> TaskPhase] EXCEPT ![This] = to]
OBVIOUS

\* The reason it ends for.
LEMMA TaskEndsFor ==
    ASSUME NEW why, TaskReason' = why
    PROVE  [c \in {This} |-> TaskReason]' = [[c \in {This} |-> TaskReason] EXCEPT ![This] = why]
OBVIOUS

\* The task has ended, and what it held has been given back.
LEMMA TaskEnds ==
    ASSUME NEW why, step \in BeforeRelay \cup {"relaying"}, step' = "ending",
           TaskReason' = why, UNCHANGED <<lookup, forceClose>>
    PROVE  Task!EndTask(This, why)
<1>1. TaskPhase' = "ending"
  BY SeenPhaseNext DEF HandshakeSteps, ConnectSteps
<1>2. /\ TaskClient' = TaskClient \ {This}
      /\ TaskTarget' = TaskTarget \ {This}
      /\ UNCHANGED <<TaskCounted, TaskLookup, PermitsLeft>>
  BY SeenHeld, SeenHeldNext DEF BeforeRelay, HandshakeSteps, ConnectSteps
<1> QED
  BY <1>1, <1>2, TaskGoesTo, TaskEndsFor
  DEF Task!EndTask, Task!mainVars, Task!permitVars, Task!jobVars

\* The task goes on; the rest of what Server sees of it stays.
LEMMA TaskGoes ==
    ASSUME step \in BeforeRelay, step' \in BeforeRelay \cup {"relaying"}, UNCHANGED forceClose
    PROVE  /\ UNCHANGED <<TaskClient, TaskCounted, PermitsLeft, TaskReason>>
           /\ UNCHANGED <<Task!mainVars, Task!permitVars>>
           /\ UNCHANGED [c \in {This} |-> TaskReason]
<1>1. UNCHANGED <<TaskClient, TaskCounted, PermitsLeft, TaskReason>>
  BY SeenHeld, SeenHeldNext, SeenReason DEF BeforeRelay, HandshakeSteps, ConnectSteps, Over
<1> QED
  BY <1>1 DEF Task!mainVars, Task!permitVars

\* The reason that Server sees when the task ends in `why`.
LEMMA SeenEnd ==
    ASSUME step' = "ending"
    PROVE  /\ reason' = "shutdown" => TaskReason' = "shutdown"
           /\ reason' \in RelayReasons => TaskReason' = "relay"
           /\ reason' \in ConnectReasons => TaskReason' = "connect"
           /\ reason' \in HandshakeReasons /\ target_addr' = None => TaskReason' = "handshake"
           /\ reason' \in HandshakeReasons /\ target_addr' # None => TaskReason' = "confirm"
<1>1. HandshakeReasons \cap (RelayReasons \cup ConnectReasons \cup {"shutdown"}) = {}
  BY DEF HandshakeReasons, RelayReasons, ConnectReasons, RequestReason, Errors
<1>2. ConnectReasons \cap (RelayReasons \cup {"shutdown"}) = {} /\ "shutdown" \notin RelayReasons
  BY DEF RelayReasons, ConnectReasons
<1> QED
  BY <1>1, <1>2 DEF TaskReason

\* The steps in which run_connection returns.
LEMMA ReturnImplements ==
    ASSUME IInv, Holdings,
           \/ ReadFails \/ RequiredAnswerFails \/ BestEffortAnswerOver \/ ReplyTimesOut
           \/ HandshakeTimesOut \/ RelayReturns \/ ForceClosed
    PROVE  Task!ConnectionTask(This)
<1>1. /\ step' = "ending"
      /\ UNCHANGED <<lookup, forceClose, target_addr>>
      /\ step \in BeforeRelay \cup {"relaying"}
  BY ReturnEnds
<1>2. CASE ForceClosed
  <2>1. reason' = "shutdown" /\ forceClose
    BY <1>2 DEF ForceClosed, Return
  <2>2. Task!EndTask(This, "shutdown")
    BY <1>1, <2>1, SeenEnd, TaskEnds
  <2>3. TaskPhase \in Task!Running
    BY <1>1, SeenPhase
    DEF Task!Running, Task!BeforeRelay, BeforeRelay, HandshakeSteps, ConnectSteps
  <2> QED
    BY <2>1, <2>2, <2>3 DEF Task!ConnectionTask, Task!ForceClosed
<1>3. CASE ~ForceClosed
  <2>1. /\ step \in HandshakeSteps => reason' \in HandshakeReasons
        /\ step = "confirming" => reason' \in HandshakeReasons
        /\ step = "refusing" => reason' \in ConnectReasons
        /\ step = "relaying" => reason' \in RelayReasons
        /\ step \notin ConnectSteps
    <3> USE DEF Return, HandshakeReasons, HandshakeSteps, ConnectSteps
    <3>1. CASE ReadFails
      BY <3>1 DEF ReadFails
    <3>2. CASE RequiredAnswerFails
      BY <3>2, AnswerDomains DEF RequiredAnswerFails
    <3>3. CASE BestEffortAnswerOver
      BY <3>3, AnswerDomains DEF BestEffortAnswerOver, IInv, Reasoning
    <3>4. CASE ReplyTimesOut
      BY <3>4 DEF ReplyTimesOut, ReplyTimed, IInv, Reasoning
    <3>5. CASE HandshakeTimesOut
      BY <3>5 DEF HandshakeTimesOut
    <3>6. CASE RelayReturns
      BY <3>6 DEF RelayReturns
    <3> QED
      BY <1>3, <3>1, <3>2, <3>3, <3>4, <3>5, <3>6
  <2>2. CASE step \in HandshakeSteps
    <3>1. target_addr = None
      BY <2>2 DEF IInv, Dialling
    <3>2. Task!EndTask(This, "handshake")
      BY <1>1, <2>1, <2>2, <3>1, SeenEnd, TaskEnds
    <3> QED
      BY <2>2, <3>2, SeenPhase
      DEF Task!ConnectionTask, Task!LeaveHandshake, Task!HandshakeFails
  <2>3. CASE step = "confirming"
    <3>1. Task!EndTask(This, "confirm")
      BY <1>1, <2>1, <2>3, SeenEnd, TaskEnds DEF Holdings
    <3>2. TaskPhase = "confirming"
      BY <2>3, SeenPhase DEF HandshakeSteps, ConnectSteps
    <3> QED
      BY <3>1, <3>2
      DEF Task!ConnectionTask, Task!LeaveConfirming, Task!ConfirmationFails
  <2>4. CASE step = "refusing"
    <3>1. Task!EndTask(This, "connect")
      BY <1>1, <2>1, <2>4, SeenEnd, TaskEnds
    <3>2. TaskPhase = "refusing"
      BY <2>4, SeenPhase DEF HandshakeSteps, ConnectSteps
    <3> QED
      BY <3>1, <3>2 DEF Task!ConnectionTask, Task!RefusalSent
  <2>5. CASE step = "relaying"
    <3>1. Task!EndTask(This, "relay")
      BY <1>1, <2>1, <2>5, SeenEnd, TaskEnds
    <3>2. TaskPhase = "relaying"
      BY <2>5, SeenPhase DEF HandshakeSteps, ConnectSteps
    <3> QED
      BY <3>1, <3>2 DEF Task!ConnectionTask, Task!RelayEnds
  <2> QED
    BY <1>1, <2>1, <2>2, <2>3, <2>4, <2>5, SMTT(30) DEF BeforeRelay
<1> QED
  BY <1>2, <1>3

\* The steps of the handshake that Server does not see.
LEMMA HandshakeImplements ==
    ASSUME \/ Tick \/ ReadGreeting \/ ReadCredentials \/ ReadBadRequest \/ CancelForceClose
           \/ RequiredAnswerSent /\ step # "confirming"
    PROVE  UNCHANGED <<Task!connVars, Task!jobVars>>
<1>1. CASE Tick \/ CancelForceClose
  <2>1. UNCHANGED <<step, target, target_addr, lookup, reason>>
    BY <1>1 DEF Tick, CancelForceClose, reportVars, dialVars
  <2> QED
    BY <2>1, TaskStays DEF TaskPhase, TaskReason, TaskClient, TaskTarget, TaskCounted,
                           TaskLookup, If
<1>2. CASE ~(Tick \/ CancelForceClose)
  <2>1. /\ step \in HandshakeSteps
        /\ step' \in HandshakeSteps
        /\ lookup' = lookup
    <3>1. CASE ReadGreeting \/ ReadCredentials \/ ReadBadRequest
      BY <3>1, ReadingGoesOn
    <3>2. CASE RequiredAnswerSent /\ step # "confirming"
      BY <3>2, AnswerGoesOn DEF HandshakeSteps
    <3> QED
      BY <1>2, <3>1, <3>2
  <2>2. UNCHANGED <<TaskPhase, TaskReason>>
    BY <2>1, SeenPhase, SeenPhaseNext, SeenReason DEF HandshakeSteps, Over
  <2>3. UNCHANGED <<TaskClient, TaskTarget, TaskCounted, TaskLookup>>
    BY <2>1, SeenHeld, SeenHeldNext DEF HandshakeSteps, BeforeRelay
  <2> QED
    BY <2>2, <2>3, TaskStays, SMTT(30)
<1> QED
  BY <1>1, <1>2

\* The pool has no job at first.
LEMMA NobodyCounted == Task!Cardinality({}) = 0
<1> DEFINE Counts(f) == f = [T \in SUBSET {} |-> IF T = {} THEN 0 ELSE 1 + f[T \ {CHOOSE x : x \in T}]]
           none == [T \in SUBSET {} |-> 0]
           count == CHOOSE f : Counts(f)
<1>1. Counts(none)
  BY Zenon
<1>2. Counts(count)
  BY <1>1, Zenon
<1>3. {} \in SUBSET {}
  OBVIOUS
<1>4. count[{}] = 0
  BY <1>2, <1>3, Zenon
<1>5. Task!Cardinality({}) = count[{}]
  BY Zenon DEF Task!Cardinality
<1> QED
  BY <1>4, <1>5

\* The client has named a target.
LEMMA RequestImplements ==
    ASSUME IInv, Holdings, ReadRequest
    PROVE  Task!ConnectionTask(This)
<1>1. /\ step = "request" /\ step' = "resolving" /\ target' \in {"ip", "domain"}
      /\ lookup = FALSE /\ lookup' = (target' = "domain") /\ UNCHANGED forceClose
  BY DEF ReadRequest, Holdings, HandshakeSteps
<1>2. TaskPhase = "handshake"
  BY <1>1, SeenPhase DEF HandshakeSteps
<1>3. /\ UNCHANGED <<TaskClient, TaskCounted, PermitsLeft, TaskReason>>
      /\ UNCHANGED <<Task!mainVars, Task!permitVars>>
      /\ UNCHANGED [c \in {This} |-> TaskReason]
  BY <1>1, TaskGoes DEF BeforeRelay, HandshakeSteps, ConnectSteps
<1>4. TaskTarget' = TaskTarget /\ TaskLookup = {}
  BY <1>1, SeenHeld, SeenHeldNext
<1>5. CASE target' = "ip"
  <2>1. TaskPhase' = "connecting" /\ TaskLookup' = {}
    BY <1>1, <1>5, SeenPhaseNext, SeenHeldNext
  <2> QED
    BY <1>2, <1>3, <1>4, <2>1, TaskIsAt, TaskGoesTo, Zenon
    DEF Task!ConnectionTask, Task!LeaveHandshake, Task!HandshakeSucceeds, Task!Goto, Task!jobVars
<1>6. CASE target' = "domain"
  <2>1. TaskPhase' = "resolving" /\ TaskLookup' = {This}
    BY <1>1, <1>6, SeenPhaseNext, SeenHeldNext
  <2>2. Task!Cardinality({}) = 0
    BY NobodyCounted
  <2>3. Task!Submit(This)
    BY <1>4, <2>1, <2>2 DEF Task!Submit
  <2> QED
    BY <1>2, <1>3, <1>4, <2>1, <2>3, TaskIsAt, TaskGoesTo
    DEF Task!ConnectionTask, Task!LeaveHandshake, Task!HandshakeSucceeds, Task!Goto
<1> QED
  BY <1>1, <1>5, <1>6

\* The addresses are known, or there are none: the thread of a lookup is free.
LEMMA LookupImplements ==
    ASSUME IInv, Holdings, ResolvedToNone \/ Resolved \/ LookupFails
    PROVE  Task!ConnectionTask(This)
<1>1. /\ step = "resolving" /\ lookup' = FALSE /\ lookup = (target = "domain")
      /\ step' \in {"refusing", "dialling"} /\ UNCHANGED <<forceClose, target>>
  BY DEF ResolvedToNone, Resolved, LookupFails, StartReply, Holdings, reportVars
<1>2. /\ UNCHANGED <<TaskClient, TaskCounted, PermitsLeft, TaskReason>>
      /\ UNCHANGED <<Task!mainVars, Task!permitVars>>
      /\ UNCHANGED [c \in {This} |-> TaskReason]
  BY <1>1, TaskGoes DEF BeforeRelay, HandshakeSteps, ConnectSteps
<1>3. /\ TaskTarget = {}
      /\ step' = "dialling" => TaskPhase' = "connecting" /\ TaskTarget' = {This}
      /\ step' = "refusing" => TaskPhase' = "refusing" /\ TaskTarget' = {}
  BY <1>1, SeenPhaseNext, SeenHeld, SeenHeldNext DEF HandshakeSteps, ConnectSteps
<1>4. TaskLookup' = {}
  BY <1>1, SeenHeldNext
<1>5. CASE target = "domain"
  <2>1. TaskPhase = "resolving" /\ TaskLookup = {This}
    BY <1>1, <1>5, SeenPhase, SeenHeld
  <2>2. Task!JobEnds(This)
    BY <1>4, <2>1 DEF Task!JobEnds
  <2>3. CASE step' = "dialling"
    BY <1>2, <1>3, <2>1, <2>2, <2>3, TaskIsAt, TaskGoesTo
    DEF Task!ConnectionTask, Task!LookupEnds, Task!Goto
  <2>4. CASE step' = "refusing"
    BY <1>2, <1>3, <2>1, <2>2, <2>4, TaskIsAt, TaskGoesTo, Zenon
    DEF Task!ConnectionTask, Task!LookupEnds, Task!Goto
  <2> QED
    BY <1>1, <2>3, <2>4
<1>6. CASE target # "domain"
  <2>1. TaskPhase = "connecting" /\ TaskLookup = {}
    BY <1>1, <1>6, SeenPhase, SeenHeld, Zenon
  <2>2. UNCHANGED Task!jobVars
    BY <1>4, <2>1 DEF Task!jobVars
  <2>3. CASE step' = "dialling"
    BY <1>2, <1>3, <2>1, <2>2, <2>3, TaskIsAt
    DEF Task!ConnectionTask, Task!DialAddress
  <2>4. CASE step' = "refusing"
    BY <1>2, <1>3, <2>1, <2>2, <2>4, TaskIsAt, TaskGoesTo
    DEF Task!ConnectionTask, Task!LeaveConnecting, Task!ConnectFails, Task!Goto
  <2> QED
    BY <1>1, <2>3, <2>4
<1> QED
  BY <1>5, <1>6

\* Where the steps of dialling and confirming lead.
LEMMA DialledTo ==
    ASSUME \/ Connected \/ AddressFails \/ ConnectTimesOut
           \/ RequiredAnswerSent /\ step = "confirming"
    PROVE  /\ \/ step = "dialling" /\ step' \in {"dialling", "confirming", "refusing"}
              \/ step = "resolving" /\ step' = "refusing"
              \/ step = "confirming" /\ step' = "relaying"
           /\ UNCHANGED <<forceClose, lookup, target>>
<1> USE DEF StartReply, reportVars, dialVars
<1>1. CASE Connected
  BY <1>1 DEF Connected
<1>2. CASE AddressFails
  BY <1>2 DEF AddressFails
<1>3. CASE ConnectTimesOut
  BY <1>3 DEF ConnectTimesOut, ConnectSteps
<1>4. CASE RequiredAnswerSent /\ step = "confirming"
  BY <1>4, AnswerGoesOn
<1> QED
  BY <1>1, <1>2, <1>3, <1>4

\* An address answers, or none does in time, or the confirmation is sent.
LEMMA DiallingImplements ==
    ASSUME IInv, Holdings,
           \/ Connected \/ AddressFails \/ ConnectTimesOut
           \/ RequiredAnswerSent /\ step = "confirming"
    PROVE  Task!ConnectionTask(This) \/ UNCHANGED <<Task!connVars, Task!jobVars>>
<1>1. /\ step \in ConnectSteps \cup {"confirming"}
      /\ step' \in {"dialling", "refusing", "confirming", "relaying"}
      /\ UNCHANGED <<forceClose, lookup, target>>
  BY DialledTo DEF ConnectSteps
<1>2. /\ UNCHANGED <<TaskClient, TaskCounted, PermitsLeft, TaskReason>>
      /\ UNCHANGED <<Task!mainVars, Task!permitVars>>
      /\ UNCHANGED [c \in {This} |-> TaskReason]
  BY <1>1, TaskGoes DEF BeforeRelay, HandshakeSteps, ConnectSteps
<1>3. UNCHANGED TaskLookup /\ UNCHANGED Task!jobVars
  BY <1>1, SeenHeld, SeenHeldNext DEF Task!jobVars
<1>4. /\ step = "dialling" => TaskPhase = "connecting" /\ TaskTarget = {This}
      /\ step = "confirming" => TaskPhase = "confirming" /\ TaskTarget = {This}
      /\ step = "resolving" => TaskPhase \in {"resolving", "connecting"} /\ TaskTarget = {}
  BY SeenPhase, SeenHeld DEF HandshakeSteps, ConnectSteps
<1>5. /\ step' = "dialling" => TaskPhase' = "connecting" /\ TaskTarget' = {This}
      /\ step' = "confirming" => TaskPhase' = "confirming" /\ TaskTarget' = {This}
      /\ step' = "relaying" => TaskPhase' = "relaying" /\ TaskTarget' = {This}
      /\ step' = "refusing" => TaskPhase' = "refusing" /\ TaskTarget' = {}
  BY SeenPhaseNext, SeenHeldNext DEF HandshakeSteps, ConnectSteps
<1>6. CASE step' = "dialling"
  <2>1. step = "dialling"
    BY <1>6, DialledTo
  <2> QED
    BY <1>2, <1>3, <1>4, <1>5, <1>6, <2>1, TaskStays, SMTT(30)
<1>7. CASE step' = "confirming"
  <2>1. step = "dialling"
    BY <1>7, DialledTo
  <2>2. Task!Goto(This, "connecting", "confirming")
    BY <1>4, <1>5, <1>7, <2>1, TaskIsAt, TaskGoesTo DEF Task!Goto
  <2> QED
    BY <1>2, <1>3, <1>4, <1>5, <1>7, <2>1, <2>2, SMTT(30)
    DEF Task!ConnectionTask, Task!LeaveConnecting, Task!Connected
<1>8. CASE step' = "relaying"
  <2>1. step = "confirming"
    BY <1>8, DialledTo
  <2>2. Task!Goto(This, "confirming", "relaying")
    BY <1>4, <1>5, <1>8, <2>1, TaskIsAt, TaskGoesTo DEF Task!Goto
  <2> QED
    BY <1>2, <1>3, <1>4, <1>5, <1>8, <2>1, <2>2, SMTT(30)
    DEF Task!ConnectionTask, Task!LeaveConfirming, Task!ConfirmationSent
<1>9. CASE step' = "refusing"
  <2>1. step \in ConnectSteps
    BY <1>9, DialledTo DEF ConnectSteps
  <2>2. TaskPhase \in {"resolving", "connecting"} /\ TaskTarget \in {{}, {This}}
    BY <1>4, <2>1 DEF ConnectSteps
  <2>3. \E from \in {"resolving", "connecting"} : Task!Goto(This, from, "refusing")
    BY <1>5, <1>9, <2>2, TaskIsAt, TaskGoesTo DEF Task!Goto
  <2>4. TaskTarget' = TaskTarget \ {This}
    BY <1>5, <1>9, <2>2
  <2> QED
    BY <1>2, <1>3, <2>3, <2>4, SMTT(30)
    DEF Task!ConnectionTask, Task!LeaveConnecting, Task!ConnectFails
<1> QED
  BY <1>1, <1>6, <1>7, <1>8, <1>9, SMTT(30)

\* A lookup that nobody waits for ends.
LEMMA AbandonedImplements ==
    ASSUME AbandonedLookupEnds
    PROVE  Task!ConnectionTask(This)
<1>1. /\ lookup /\ lookup' = FALSE /\ step # "resolving"
      /\ UNCHANGED <<step, target, target_addr, reason, forceClose>>
  BY DEF AbandonedLookupEnds, reportVars
<1>2. /\ UNCHANGED <<TaskPhase, TaskReason, TaskClient, TaskTarget, TaskCounted, PermitsLeft>>
      /\ TaskLookup = {This} /\ TaskLookup' = {}
  BY <1>1 DEF TaskPhase, TaskReason, TaskClient, TaskTarget, TaskCounted, TaskLookup,
              PermitsLeft, If
<1>3. TaskPhase # "resolving"
  BY <1>1 DEF TaskPhase
<1>4. Task!JobEnds(This)
  BY <1>2 DEF Task!JobEnds
<1>5. /\ UNCHANGED <<Task!mainVars, Task!permitVars>>
      /\ UNCHANGED [c \in {This} |-> TaskReason]
      /\ UNCHANGED [c \in {This} |-> TaskPhase]
  BY <1>1, <1>2 DEF Task!mainVars, Task!permitVars
<1> QED
  BY <1>2, <1>3, <1>4, <1>5 DEF Task!ConnectionTask, Task!LookupEnds

\* The bytes are counted, and the permit is dropped.
LEMMA EndingImplements ==
    ASSUME CountConnection \/ CloseConnection
    PROVE  Task!ConnectionTask(This)
<1>1. /\ UNCHANGED <<target, target_addr, lookup, reason, forceClose>>
      /\ \/ step = "ending" /\ step' = "logging"
         \/ step = "logging" /\ step' = "closed"
  BY DEF CountConnection, CloseConnection, reportVars, dialVars
<1>2. /\ UNCHANGED <<TaskReason, TaskClient, TaskTarget, TaskLookup>>
      /\ TaskPhase = step /\ TaskPhase' = step'
  BY <1>1, SeenReason, SeenPhase, SeenPhaseNext, SeenHeld, SeenHeldNext
  DEF Over, BeforeRelay, HandshakeSteps, ConnectSteps
<1>3. /\ UNCHANGED <<Task!mainVars, Task!jobVars>>
      /\ UNCHANGED [c \in {This} |-> TaskReason]
  BY <1>1, <1>2 DEF Task!mainVars, Task!jobVars
<1>4. CASE step = "ending"
  <2>1. TaskCounted = {} /\ TaskCounted' = {This} /\ PermitsLeft = 0 /\ PermitsLeft' = 0
    BY <1>1, <1>4, SeenHeld, SeenHeldNext
  <2>2. UNCHANGED Task!permitVars
    BY <2>1 DEF Task!permitVars
  <2>3. Task!Goto(This, "ending", "logging")
    BY <1>1, <1>2, <1>4, TaskIsAt, TaskGoesTo DEF Task!Goto
  <2> QED
    BY <1>2, <1>3, <2>1, <2>2, <2>3 DEF Task!ConnectionTask, Task!CountBytes
<1>5. CASE step = "logging"
  <2>1. TaskCounted = TaskCounted' /\ PermitsLeft = 0 /\ PermitsLeft' = 1
    BY <1>1, <1>5, SeenHeld, SeenHeldNext
  <2>2. Task!AddPermits(1)
    BY <2>1 DEF Task!AddPermits, Task!Waiting
  <2>3. Task!Goto(This, "logging", "closed")
    BY <1>1, <1>2, <1>5, TaskIsAt, TaskGoesTo DEF Task!Goto
  <2> QED
    BY <1>2, <1>3, <2>1, <2>2, <2>3 DEF Task!ConnectionTask, Task!ReleasePermit
<1> QED
  BY <1>1, <1>4, <1>5

\* Every step of a connection task is a step of the connection task of Server, or
\* one that Server does not see: the sockets, the thread of the lookup and the
\* permit are taken and given back as the accept loop and drain count on
\* (serve_connection, run_connection).
THEOREM TaskRefinement == Spec => ImplementsTask
<1>1. Init => Holdings
  BY DEF Init, Holdings, HandshakeSteps
<1>2. ASSUME IInv, Holdings, [Next]_vars
      PROVE  Task!ConnectionTask(This) \/ UNCHANGED <<Task!connVars, Task!jobVars>>
  <2>1. CASE UNCHANGED vars
    <3>1. UNCHANGED <<step, target, target_addr, lookup, reason>>
      BY <2>1 DEF vars, reportVars, dialVars
    <3> QED
      BY <3>1, TaskStays DEF TaskPhase, TaskReason, TaskClient, TaskTarget, TaskCounted,
                             TaskLookup, If
  <2>2. CASE Next
    BY <1>2, <2>1, <2>2, HandshakeImplements, RequestImplements, ReturnImplements,
       LookupImplements, DiallingImplements, AbandonedImplements, EndingImplements
    DEF Next, Closed
  <2> QED
    BY <1>2, <2>1, <2>2
<1>3. IInv /\ Holdings /\ [Next]_vars => [Task!ConnectionTask(This)]_<<Task!connVars, Task!jobVars>>
  BY <1>2
<1> QED
  BY <1>1, <1>3, HoldingsNext, Inductive, PTL DEF Spec, ImplementsTask
=============================================================================
