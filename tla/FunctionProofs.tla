--------------------------- MODULE FunctionProofs ---------------------------
(***************************************************************************)
(* The messages, a login and the settings, for all their inputs: every     *)
(* message is read to the byte, a login is exact, and so is the validation *)
(* of the settings.                                                        *)
(***************************************************************************)
EXTENDS PolicyProofs, MCSettings, MCWire, HandshakeProofs

\* Every read_from, on any bytes, decides once: no byte that comes later, and
\* no way of cutting the stream into segments, changes what it has made of the
\* bytes that were there, and it has taken none that was not.  The run tries
\* all strings of up to six bytes over five values.
THEOREM ReadsAreFinal ==
    ASSUME question.type \in Types, question.bytes \in Seq(Byte)
    PROVE  ReadsDecideOnce
<1> DEFINE bytes == question.bytes
           type == question.type
           Read(n) == ReadFrom(type, SubSeq(bytes, 1, n))
<1>1. SUFFICES ASSUME NEW n \in 0 .. Len(bytes), Read(n) # More
               PROVE  Read(n).used <= n /\ Read(Len(bytes)) = Read(n)
  BY Zenon DEF ReadsDecideOnce
<1> DEFINE now == SubSeq(bytes, 1, n)
           end == SubSeq(bytes, 1, Len(bytes))
<1>2. Grown(now, end) /\ Len(now) = n
  <2>1. bytes \in Seq(Byte) /\ Len(bytes) \in Nat /\ n \in Nat /\ n <= Len(bytes)
    OBVIOUS
  <2>2. now \in Seq(Byte) /\ end \in Seq(Byte) /\ Len(now) = n /\ Len(end) = Len(bytes)
    BY <2>1
  <2>3. \A i \in 1 .. n : now[i] = bytes[i] /\ end[i] = bytes[i]
    BY <2>1
  <2> QED
    BY <2>1, <2>2, <2>3 DEF Grown
<1> HIDE DEF now, end
<1>3. Final(ReadFrom(type, now), Len(now), ReadFrom(type, end))
  BY <1>2, GreetingIsFinal, AnswerIsFinal, UserPassIsFinal, RequestIsFinal DEF ReadFrom, Types
<1>4. Read(n) = ReadFrom(type, now) /\ Read(Len(bytes)) = ReadFrom(type, end)
  BY DEF now, end
<1> HIDE DEF Read
<1> QED
  BY <1>1, <1>2, <1>3, <1>4 DEF Final, Settled

\* Every message that the types of the code can hold, with fields of any
\* length, is encoded and read back to the byte: not before its last byte is
\* there, and without what comes after it.  The run tries fields of 0, 1, 255
\* and 256 bytes.
THEOREM MessagesAreSafe ==
    ASSUME question.type \in Types, question.message \in Message(question.type)
    PROVE  MessagesSurvive
<1> DEFINE type == question.type
           m == question.message
           encoded == Encode(type, m)
           bytes == encoded.value
<1>1. type \in Types /\ m \in Message(type)
  OBVIOUS
<1> HIDE DEF type, m
<1>2. LongestField(type, m) > 255 => encoded = Error("field_too_long", 0)
  BY <1>1, TooLong
<1>3. ASSUME ~(LongestField(type, m) > 255)
      PROVE  /\ \A n \in 0 .. Len(bytes) - 1 : ReadFrom(type, SubSeq(bytes, 1, n)) = More
             /\ \A tail \in {<<>>, <<5>>, bytes} :
                   ReadFrom(type, bytes \o tail) = Expected(type, m, Len(bytes))
  <2>1. Encodes(type, m, encoded)
    <3>1. LongestField(type, m) \in Nat
      BY <1>1, FieldIsNat
    <3>2. LongestField(type, m) <= 255
      BY <1>3, <3>1
    <3> QED
      BY <1>1, <3>2, MessageSurvives
  <2>2. PICK b \in Seq(Byte) : encoded = Value(b, 0) /\ ReadFrom(type, b) = Expected(type, m, Len(b))
    BY <2>1 DEF Encodes
  <2>3. bytes = b
    BY <2>2, Results
  <2>4. <<>> \in Seq(Byte) /\ <<5>> \in Seq(Byte)
    BY DEF Byte
  <2>5. /\ \A n \in 0 .. Len(b) - 1 : ReadFrom(type, SubSeq(b, 1, n)) = More
        /\ \A t \in Seq(Byte) : ReadFrom(type, b \o t) = Expected(type, m, Len(b))
    BY <1>1, <2>2, ReadToTheByte, Zenon
  <2>6. \A tail \in {<<>>, <<5>>, b} : tail \in Seq(Byte)
    BY <2>4, Zenon
  <2> HIDE DEF bytes
  <2> QED
    BY <2>3, <2>5, <2>6, Zenon
<1> QED
  BY <1>2, <1>3, Zenon DEF MessagesSurvive, Expected, type, m

\* For every list of settings and every attempt: a login succeeds exactly if that
\* pair is listed, under its own name, and a list that is not sound is refused
\* (UserStore::new, to_block and verify).
THEOREM LoginIsExact ==
    ASSUME question.list \in Seq(Credential), question.attempt \in Credential
    PROVE  LoginNeedsListedPair
<1> DEFINE list == question.list
           attempt == question.attempt
<1>1. Sound(list) <=>
        /\ list # <<>>
        /\ \A i \in DOMAIN list : /\ Len(list[i].username) \in 1 .. 255
                                  /\ Len(list[i].password) \in 1 .. 255
        /\ \A i, j \in DOMAIN list : list[i].username = list[j].username => i = j
  <2>1. ASSUME NEW i \in DOMAIN list
        PROVE  /\ Usable(list[i].username) <=> Len(list[i].username) \in 1 .. 255
               /\ Usable(list[i].password) <=> Len(list[i].password) \in 1 .. 255
    BY ListedPair, UsableHasBlock, Zenon
  <2> QED
    BY <2>1, Zenon DEF Sound
<1>2. CASE Sound(list)
  BY <1>1, <1>2, VerifyIsExact, Zenon DEF LoginNeedsListedPair
<1>3. CASE ~Sound(list)
  BY <1>1, <1>3, StoreIsSound, Zenon DEF LoginNeedsListedPair
<1> QED
  BY <1>2, <1>3

-----------------------------------------------------------------------------
(* Settings, of the types that serde gives them.                           *)

Keys == DOMAIN Minimal

NumberKeys == {"max_connections", "handshake_timeout_sec", "connect_timeout_sec", "idle_timeout_sec",
               "shutdown_grace_sec", "stats_interval_sec", "ban_window_sec", "ban_duration_sec"}

IsSettings(settings) ==
    /\ settings = [key \in Keys |-> settings[key]]
    /\ settings["users"] \in Seq(Credential)
    /\ \A key \in NumberKeys : settings[key] \in Optional(Nat)
    /\ settings["internal_whitelist"] \in Optional(Seq(Seq(Token)))

\* The keys are told apart by their places.
LEMMA KeysInOrder ==
    /\ DOMAIN CheckedKeys = 1 .. 13
    /\ \A i, j \in 1 .. 13 : CheckedKeys[i] = CheckedKeys[j] => i = j
    /\ \A i \in 1 .. 13 : CheckedKeys[i] \in Keys
    /\ Keys = DOMAIN Defaults \cup {"users"} /\ "users" \notin DOMAIN Defaults
    /\ \A key \in NumberKeys \cup {"blocked_ports", "internal_whitelist"} :
          \E i \in 1 .. 13 : CheckedKeys[i] = key
    /\ CheckedKeys[2] = "users"
<1>1. DOMAIN CheckedKeys = 1 .. 13
  BY DEF CheckedKeys
<1>2. \A i, j \in 1 .. 13 : CheckedKeys[i] = CheckedKeys[j] => i = j
  BY DEF CheckedKeys
<1>3. Keys = DOMAIN Defaults \cup {"users"}
  BY DEF Keys, Minimal
<1>4. DOMAIN Defaults =
         {"listen_address", "max_connections", "handshake_timeout_sec", "connect_timeout_sec",
          "idle_timeout_sec", "shutdown_grace_sec", "stats_interval_sec", "client_whitelist",
          "blocked_ports", "allow_internal", "internal_whitelist", "ban_max_failures",
          "ban_window_sec", "ban_duration_sec"}
  BY DEF Defaults
<1>5. \A i \in 1 .. 13 : CheckedKeys[i] \in Keys
  BY <1>3, <1>4 DEF CheckedKeys
<1>6. /\ CheckedKeys[3] = "max_connections" /\ CheckedKeys[4] = "handshake_timeout_sec"
      /\ CheckedKeys[5] = "connect_timeout_sec" /\ CheckedKeys[6] = "idle_timeout_sec"
      /\ CheckedKeys[7] = "shutdown_grace_sec" /\ CheckedKeys[8] = "stats_interval_sec"
      /\ CheckedKeys[10] = "blocked_ports" /\ CheckedKeys[11] = "internal_whitelist"
      /\ CheckedKeys[12] = "ban_window_sec" /\ CheckedKeys[13] = "ban_duration_sec"
      /\ CheckedKeys[2] = "users"
  BY DEF CheckedKeys
<1>7. \A key \in NumberKeys \cup {"blocked_ports", "internal_whitelist"} :
         \E i \in 1 .. 13 : CheckedKeys[i] = key
  <2>1. /\ 3 \in 1 .. 13 /\ 4 \in 1 .. 13 /\ 5 \in 1 .. 13 /\ 6 \in 1 .. 13 /\ 7 \in 1 .. 13
        /\ 8 \in 1 .. 13 /\ 10 \in 1 .. 13 /\ 11 \in 1 .. 13 /\ 12 \in 1 .. 13 /\ 13 \in 1 .. 13
    OBVIOUS
  <2> QED
    BY <1>6, <2>1, Zenon DEF NumberKeys
<1> QED
  BY <1>1, <1>2, <1>3, <1>4, <1>5, <1>6, <1>7

\* A key whose value is valid by default, and users who can log in.
LEMMA MinimalIsValid ==
    ASSUME NEW settings, NEW i \in 1 .. 13, settings[CheckedKeys[i]] = Minimal[CheckedKeys[i]]
    PROVE  KeyIsValid(settings, CheckedKeys[i])
<1> DEFINE key == CheckedKeys[i]
<1>1. CASE key = "users"
  <2>1. Minimal["users"] = GoodUsers
    BY DEF Minimal
  <2>2. settings.users = GoodUsers
    BY <1>1, <2>1
  <2>3. Sound(GoodUsers) /\ GoodUsers \in Seq(Credential)
    <3>1. /\ GoodUsers \in Seq(Credential) /\ GoodUsers # <<>> /\ DOMAIN GoodUsers = {1}
          /\ GoodUsers[1].username = <<97>> /\ GoodUsers[1].password = <<112>>
      BY DEF GoodUsers, Credential, Byte
    <3>2. Usable(<<97>>) /\ Usable(<<112>>)
      BY DEF Usable
    <3> QED
      BY <3>1, <3>2 DEF Sound
  <2>4. "users" \in DOMAIN user_store_new(GoodUsers)
    BY <2>3, StoreIsSound
  <2> QED
    BY <1>1, <2>2, <2>4 DEF KeyIsValid
<1>2. CASE key # "users"
  <2>1. key \in DOMAIN Defaults /\ key \in Keys
    BY <1>2, KeysInOrder
  <2>2. Minimal[key] = <<>>
    BY <1>2, <2>1 DEF Minimal, Keys
  <2>3. ValueOf(settings, key) = Defaults[key]
    BY <2>2 DEF ValueOf
  <2>4. /\ seconds(10) /\ seconds(15) /\ seconds(300) /\ seconds(60) /\ seconds(600) /\ seconds(3600)
        /\ 4096 \in 1 .. MAX_CONNECTIONS_LIMIT /\ 0 \notin {25}
        /\ IsSocketAddr([ip |-> <<0, 0, 0, 0>>, port |-> 1080])
        /\ ListParses(ParsedNetworks(<<>>)) /\ ListParses(ParsedEntries(<<>>))
    <3>1. /\ seconds(10) /\ seconds(15) /\ seconds(300) /\ seconds(60) /\ seconds(600) /\ seconds(3600)
      BY SMT DEF seconds, MAX_DURATION_SEC
    <3>4. MAX_CONNECTIONS_LIMIT \in Nat /\ 4096 <= MAX_CONNECTIONS_LIMIT
      BY SMT DEF MAX_CONNECTIONS_LIMIT
    <3>5. 4096 \in 1 .. MAX_CONNECTIONS_LIMIT
      BY <3>4, SMT
    <3>2. 0 \notin {25} /\ IsSocketAddr([ip |-> <<0, 0, 0, 0>>, port |-> 1080])
      BY SMT DEF IsSocketAddr
    <3>3. ListParses(ParsedNetworks(<<>>)) /\ ListParses(ParsedEntries(<<>>))
      BY SMT DEF ListParses, ParsedNetworks, ParsedEntries
    <3> QED
      BY <3>1, <3>2, <3>3, <3>5, SMT
  <2> QED
    BY <1>2, <2>3, <2>4, SMT DEF KeyIsValid, Defaults, CheckedKeys
<1> QED
  BY <1>1, <1>2

\* from_settings names the first key that is not valid.
LEMMA FirstFailure ==
    ASSUME NEW settings
    PROVE  LET r == from_settings(settings) IN
           \/ /\ \A i \in 1 .. 13 : KeyIsValid(settings, CheckedKeys[i])
              /\ r = [config |-> server_config(settings)]
           \/ \E first \in 1 .. 13 :
                 /\ ~KeyIsValid(settings, CheckedKeys[first])
                 /\ \A j \in 1 .. 13 : j < first => KeyIsValid(settings, CheckedKeys[j])
                 /\ r = [invalid |-> CheckedKeys[first]]
<1> DEFINE failed == {i \in DOMAIN CheckedKeys : ~KeyIsValid(settings, CheckedKeys[i])}
           first == CHOOSE i \in failed : \A j \in failed : i <= j
<1>1. from_settings(settings) = IF failed = {} THEN [config |-> server_config(settings)]
                                ELSE [invalid |-> CheckedKeys[first]]
  BY Zenon DEF from_settings
<1>2. failed = {i \in 1 .. 13 : ~KeyIsValid(settings, CheckedKeys[i])}
  BY KeysInOrder, Zenon
<1>3. failed \subseteq 1 .. 13 /\ \A i \in 1 .. 13 : i \in failed <=> ~KeyIsValid(settings, CheckedKeys[i])
  BY <1>2, Zenon
<1> HIDE DEF failed
<1>4. CASE failed = {}
  BY <1>1, <1>3, <1>4, Zenon
<1>5. CASE failed # {}
  <2>1. failed \subseteq Nat
    BY <1>3
  <2>2. first \in failed /\ \A j \in failed : first <= j
    BY <1>5, <2>1, Least, Zenon
  <2>3. from_settings(settings) = [invalid |-> CheckedKeys[first]]
    BY <1>1, <1>5, Zenon
  <2> HIDE DEF first
  <2>4. \A j \in 1 .. 13 : j < first => KeyIsValid(settings, CheckedKeys[j])
    <3> SUFFICES ASSUME NEW j \in 1 .. 13, j < first, j \in failed PROVE FALSE
      BY <1>3
    <3> QED
      BY <1>3, <2>2
  <2> QED
    BY <1>3, <2>2, <2>3, <2>4, Zenon
<1> QED
  BY <1>4, <1>5

\* What is accepted serves.
LEMMA AcceptedServes ==
    ASSUME NEW settings, IsSettings(settings),
           \A i \in 1 .. 13 : KeyIsValid(settings, CheckedKeys[i])
    PROVE  Serves(server_config(settings), settings.users)
<1> DEFINE config == server_config(settings)
           users == settings.users
           v(key) == ValueOf(settings, key)
<1>1. \A key \in NumberKeys \cup {"users", "blocked_ports", "internal_whitelist"} : KeyIsValid(settings, key)
  <2>1. KeyIsValid(settings, "users")
    <3>1. 2 \in 1 .. 13 /\ CheckedKeys[2] = "users"
      BY KeysInOrder
    <3>2. KeyIsValid(settings, CheckedKeys[2])
      BY <3>1
    <3> QED
      BY <3>1, <3>2, Zenon
  <2>2. ASSUME NEW key \in NumberKeys \cup {"blocked_ports", "internal_whitelist"}
        PROVE  KeyIsValid(settings, key)
    <3>1. PICK i \in 1 .. 13 : CheckedKeys[i] = key
      BY KeysInOrder, Zenon
    <3>2. KeyIsValid(settings, CheckedKeys[i])
      OBVIOUS
    <3> QED
      BY <3>1, <3>2, Zenon
  <2> QED
    BY <2>1, <2>2, Zenon
<1>2. users \in Seq(Credential) /\ Sound(users)
  <2>1. users \in Seq(Credential)
    BY DEF IsSettings
  <2>2. "users" \in DOMAIN user_store_new(users)
    BY <1>1 DEF KeyIsValid
  <2> QED
    BY <2>1, <2>2, StoreIsSound
<1>3. /\ users # <<>>
      /\ \A i \in DOMAIN users :
            verify(user_store_new(users).users, users[i].username, users[i].password) = <<users[i].username>>
  <2>1. ASSUME NEW i \in DOMAIN users
        PROVE  verify(user_store_new(users).users, users[i].username, users[i].password) = <<users[i].username>>
    <3>1. users[i] \in Credential
      BY <1>2, ListedPair
    <3> HIDE DEF users
    <3> QED
      BY <1>2, <3>1, VerifyIsExact, Zenon
  <2> QED
    BY <1>2, <2>1, Zenon DEF Sound
<1>4. ASSUME NEW key \in NumberKeys PROVE v(key) > 0
  <2>1. v(key) \in Nat
    <3>1. \A k \in NumberKeys : Defaults[k] \in Nat
      BY SMT DEF NumberKeys, Defaults
    <3>2. settings[key] \in Optional(Nat)
      BY DEF IsSettings
    <3>3. CASE settings[key] = <<>>
      BY <3>1, <3>3, SMT DEF ValueOf
    <3>4. CASE settings[key] # <<>>
      <4>1. PICK n \in Nat : settings[key] = <<n>>
        BY <3>2, <3>4 DEF Optional
      <4> QED
        BY <3>4, <4>1 DEF ValueOf
    <3> QED
      BY <3>3, <3>4
  <2>2. KeyIsValid(settings, key)
    BY <1>1
  <2>3. CASE key = "max_connections"
    <3>1. v(key) \in 1 .. MAX_CONNECTIONS_LIMIT
      BY <2>2, <2>3, SMT DEF KeyIsValid
    <3>2. MAX_CONNECTIONS_LIMIT \in Nat
      BY SMT DEF MAX_CONNECTIONS_LIMIT
    <3> QED
      BY <3>1, <3>2, SMT
  <2>4. CASE key # "max_connections"
    <3>1. seconds(v(key))
      BY <2>2, <2>4, SMT DEF KeyIsValid, NumberKeys
    <3> QED
      BY <2>1, <3>1, SMT DEF seconds
  <2> QED
    BY <2>3, <2>4
<1>5. 0 \notin v("blocked_ports")
  BY <1>1, SMT DEF KeyIsValid
<1>6. ASSUME NEW e \in ParseList(ParsedEntries(v("internal_whitelist")))
      PROVE  e.ports # {} /\ 0 \notin e.ports
  <2> DEFINE lines == v("internal_whitelist")
  <2>1. lines \in Seq(Seq(Token))
    <3>1. settings["internal_whitelist"] \in Optional(Seq(Seq(Token)))
      BY DEF IsSettings
    <3>2. CASE settings["internal_whitelist"] = <<>>
      BY <3>2, SMT DEF ValueOf, Defaults
    <3>3. CASE settings["internal_whitelist"] # <<>>
      <4>1. PICK ls \in Seq(Seq(Token)) : settings["internal_whitelist"] = <<ls>>
        BY <3>1, <3>3 DEF Optional
      <4>2. lines = ls
        BY <3>3, <4>1 DEF ValueOf
      <4> QED
        BY <4>2
    <3> QED
      BY <3>2, <3>3
  <2>2. ListParses(ParsedEntries(lines))
    BY <1>1, SMT DEF KeyIsValid
  <2> HIDE DEF lines
  <2>3. PICK i \in DOMAIN lines : entry_from_str(lines[i]).ok /\ e = entry_from_str(lines[i]).value
    <3>1. e \in ParseList(ParsedEntries(lines))
      BY <1>6 DEF lines
    <3> QED
      BY <2>2, <3>1 DEF ParseList, ListParses, ParsedEntries
  <2>4. lines[i] \in Seq(Token)
    BY <2>1
  <2> QED
    BY <2>3, <2>4, LineHasPorts DEF EntryHasPorts
<1>7. /\ config.users = user_store_new(users).users
      /\ config.max_connections = v("max_connections")
      /\ config.timeouts = [handshake |-> v("handshake_timeout_sec"), connect |-> v("connect_timeout_sec"),
                            idle |-> v("idle_timeout_sec"), shutdown_grace |-> v("shutdown_grace_sec")]
      /\ config.stats_interval = v("stats_interval_sec")
      /\ config.ban.window = v("ban_window_sec") /\ config.ban.duration = v("ban_duration_sec")
      /\ config.destination_policy.blocked_ports = v("blocked_ports")
      /\ config.destination_policy.internal_whitelist = ParseList(ParsedEntries(v("internal_whitelist")))
  BY SMT DEF server_config
<1>8. \A t \in {config.timeouts[k] : k \in DOMAIN config.timeouts}
               \cup {config.stats_interval, config.ban.window, config.ban.duration} : t > 0
  <2>1. /\ v("handshake_timeout_sec") > 0 /\ v("connect_timeout_sec") > 0 /\ v("idle_timeout_sec") > 0
        /\ v("shutdown_grace_sec") > 0 /\ v("stats_interval_sec") > 0 /\ v("ban_window_sec") > 0
        /\ v("ban_duration_sec") > 0
    BY <1>4 DEF NumberKeys
  <2> HIDE DEF v, config
  <2> QED
    BY <1>7, <2>1, SMT
<1>9. v("max_connections") > 0
  BY <1>4 DEF NumberKeys
<1> HIDE DEF v, config, users
<1>10. Serves(config, users)
  BY <1>3, <1>5, <1>6, <1>7, <1>8, <1>9 DEF Serves
<1> QED
  BY <1>10 DEF config, users

\* A key is judged by its own value alone.
LEMMA KeyStandsAlone ==
    ASSUME NEW one, NEW other, NEW key, one[key] = other[key], one["users"] = other["users"] \/ key # "users"
    PROVE  KeyIsValid(one, key) <=> KeyIsValid(other, key)
<1>1. CASE key = "users"
  <2>1. one.users = other.users
    BY <1>1
  <2> QED
    BY <1>1, <2>1, Zenon DEF KeyIsValid
<1>2. CASE key # "users"
  <2>1. ValueOf(one, key) = ValueOf(other, key)
    BY Zenon DEF ValueOf
  <2> QED
    BY <1>2, <2>1, Zenon DEF KeyIsValid
<1> QED
  BY <1>1, <1>2

\* Every configuration the server starts with serves, whatever the settings
\* file says, and every refusal names the first key that is to blame:
\* writing a good value there moves the blame to a later key or ends it
\* (from_settings).
THEOREM ValidationIsSound ==
    ASSUME IsSettings(question.settings)
    PROVE  ValidationIsExact
<1> DEFINE settings == question.settings
           result == from_settings(settings)
           place(k) == CHOOSE i \in DOMAIN CheckedKeys : CheckedKeys[i] = k
           key == result.invalid
           cured == [settings EXCEPT ![key] = Minimal[key]]
           again == from_settings(cured)
<1>1. "config" \in DOMAIN result => Serves(result.config, settings.users)
  <2> SUFFICES ASSUME "config" \in DOMAIN result PROVE Serves(result.config, settings.users)
    OBVIOUS
  <2>1. /\ \A i \in 1 .. 13 : KeyIsValid(settings, CheckedKeys[i])
        /\ result = [config |-> server_config(settings)]
    <3> HIDE DEF settings
    <3>1. ~\E first \in 1 .. 13 : result = [invalid |-> CheckedKeys[first]]
      OBVIOUS
    <3> HIDE DEF result
    <3> QED
      BY <3>1, FirstFailure, Zenon DEF result
  <2>2. result.config = server_config(settings)
    BY <2>1
  <2>3. Serves(server_config(settings), settings.users)
    BY <2>1, AcceptedServes, Zenon
  <2> QED
    BY <2>2, <2>3, Zenon
<1>2. ASSUME "config" \notin DOMAIN result, "invalid" \in DOMAIN again
      PROVE  place(again.invalid) > place(key)
  <2>1. PICK first \in 1 .. 13 :
           /\ ~KeyIsValid(settings, CheckedKeys[first])
           /\ \A j \in 1 .. 13 : j < first => KeyIsValid(settings, CheckedKeys[j])
           /\ result = [invalid |-> CheckedKeys[first]]
    <3> HIDE DEF settings
    <3>1. result # [config |-> server_config(settings)]
      BY <1>2
    <3> HIDE DEF result
    <3> QED
      BY <3>1, FirstFailure, Zenon DEF result
  <2>2. key = CheckedKeys[first]
    BY <2>1
  <2>3. PICK next \in 1 .. 13 :
           /\ ~KeyIsValid(cured, CheckedKeys[next])
           /\ again = [invalid |-> CheckedKeys[next]]
    <3> HIDE DEF cured
    <3>1. again # [config |-> server_config(cured)]
      BY <1>2
    <3> HIDE DEF again
    <3> QED
      BY <3>1, FirstFailure, Zenon DEF again
  <2>4. again.invalid = CheckedKeys[next]
    BY <2>3
  <2>5. ASSUME NEW i \in 1 .. 13 PROVE place(CheckedKeys[i]) = i
    BY KeysInOrder, Zenon
  <2>6. next # first
    <3>1. key \in Keys
      BY <2>2, KeysInOrder, Zenon
    <3>2. DOMAIN settings = Keys
      BY DEF IsSettings
    <3>3. cured[key] = Minimal[key]
      <4> HIDE DEF key, settings
      <4> QED
        BY <3>1, <3>2
    <3> HIDE DEF cured, key
    <3> QED
      BY <2>2, <2>3, <3>3, MinimalIsValid, Zenon
  <2>7. ~(next < first)
    <3> SUFFICES ASSUME next < first PROVE FALSE
      OBVIOUS
    <3>1. KeyIsValid(settings, CheckedKeys[next])
      BY <2>1
    <3>2. CheckedKeys[next] # key
      BY <2>2, KeysInOrder, SMT
    <3>3. cured[CheckedKeys[next]] = settings[CheckedKeys[next]]
      <4>1. DOMAIN settings = Keys /\ CheckedKeys[next] \in Keys
        BY KeysInOrder, SMT DEF IsSettings
      <4> HIDE DEF key, settings
      <4> QED
        BY <3>2, <4>1
    <3>4. CheckedKeys[next] # "users" \/ cured["users"] = settings["users"]
      BY <3>3, Zenon
    <3> HIDE DEF cured, settings
    <3> QED
      BY <2>3, <3>1, <3>3, <3>4, KeyStandsAlone, Zenon
  <2>8. next > first
    BY <2>6, <2>7
  <2>9. place(again.invalid) = next /\ place(key) = first
    <3> HIDE DEF again, key, place
    <3> QED
      BY <2>2, <2>4, <2>5, Zenon
  <2> HIDE DEF place, again, key
  <2> QED
    BY <2>8, <2>9, Zenon
<1> QED
  BY <1>1, <1>2, Zenon DEF ValidationIsExact

=============================================================================
