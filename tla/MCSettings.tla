----------------------------- MODULE MCSettings -----------------------------
(* The user store and the validation of the settings, over values on both    *)
(* sides of every limit.                                                     *)
EXTENDS Settings, Question

-----------------------------------------------------------------------------
(* Users.                                                                  *)

Bytes(n) == [i \in 1 .. n |-> 98]

Names == {<<>>, <<97>>, <<97, 0>>, Bytes(255), Bytes(256)}
Passwords == {<<>>, <<112>>, <<112, 0>>, Bytes(255), Bytes(256)}
Credentials == [username : Names, password : Passwords]

UserInit ==
    \E list \in {<<>>} \cup {<<c>> : c \in Credentials} \cup {<<c, d>> : c, d \in Credentials},
       attempt \in Credentials :
        question = [about |-> "login", list |-> list, attempt |-> attempt]

\* A login succeeds if and only if exactly that pair is in the settings, under
\* the name it has there: the zero padding of a block makes no two values
\* equal, and what is empty or too long matches nobody.  A list with a pair
\* that could never log in, or that would shadow another, is refused
\* (UserStore::new, to_block and verify).
LoginNeedsListedPair ==
    Asked("login") =>
    LET list == question.list
        attempt == question.attempt
        store == user_store_new(list)
        usable(value) == Len(value) \in 1 .. 255
        sound == /\ list # <<>>
                 /\ \A i \in DOMAIN list : usable(list[i].username) /\ usable(list[i].password)
                 /\ \A i, j \in DOMAIN list : list[i].username = list[j].username => i = j
    IN  IF sound
        THEN verify(store.users, attempt.username, attempt.password) =
                 IF \E i \in DOMAIN list : list[i] = attempt THEN <<attempt.username>> ELSE <<>>
        ELSE "error" \in DOMAIN store

-----------------------------------------------------------------------------
(* Settings.                                                               *)

GoodUsers == <<[username |-> <<97>>, password |-> <<112>>]>>

Minimal == [key \in DOMAIN Defaults \cup {"users"} |-> IF key = "users" THEN GoodUsers ELSE <<>>]

Line(ip) == <<Addr(ip)>>

\* Values to write into a settings file.
Written(key) ==
    CASE key = "users" -> {<<>>, GoodUsers \o GoodUsers,
                           GoodUsers \o <<[username |-> <<98>>, password |-> <<112>>]>>}
      [] key = "listen_address" -> {<<[garbage |-> 1]>>}
      [] key = "max_connections" -> {<<n>> : n \in {0, 1, 1000000, 1000001}}
      [] key = "allow_internal" -> {<<TRUE>>}
      [] key = "blocked_ports" -> {<<{}>>, <<{0, 25}>>, <<{65535}>>}
      [] key = "ban_max_failures" -> {<<0>>}
      [] key \in {"client_whitelist", "internal_whitelist"} ->
            {<<<<>>>>, <<<<Line(<<10, 0, 0, 1>>)>>>>,
             <<<<Line(<<10, 0, 0, 1>>), Line(<<10, 0, 0, 2>>) \o <<Sep(":"), Number(443)>>>>>>,
             <<<<<<Word>>>>>>}
      [] OTHER -> {<<n>> : n \in {0, 1, 31536000, 31536001}}

SettingsInit ==
    \E k, l \in DOMAIN Minimal : \E v \in Written(k), w \in Written(l) :
        question = [about |-> "settings", settings |-> [Minimal EXCEPT ![k] = v, ![l] = w]]

\* Whatever from_settings accepts is what the rest of the server relies on:
\* there are users and all of them can log in, there is a permit to give
\* (ServerAssumption), each timer runs (a zero timeout would end every
\* connection, a zero interval is a panic in tokio), windows and bans have a
\* length (BanAssumption), and no policy names port 0.
Serves(config, users) ==
    /\ users # <<>>
    /\ \A i \in DOMAIN users :
          verify(config.users, users[i].username, users[i].password) = <<users[i].username>>
    /\ config.max_connections > 0
    /\ \A t \in {config.timeouts[k] : k \in DOMAIN config.timeouts}
                \cup {config.stats_interval, config.ban.window, config.ban.duration} :
          t > 0
    /\ 0 \notin config.destination_policy.blocked_ports
    /\ \A e \in config.destination_policy.internal_whitelist : e.ports # {} /\ 0 \notin e.ports

\* Settings are accepted and serve, or are refused for the right reason,
\* "`Invalid` naming the offending key": with a good value in that key, and
\* everything else as it was, they are accepted or another key, checked
\* later, is named (from_settings, seconds and parse_list).
ValidationIsExact ==
    Asked("settings") =>
    \A result \in {from_settings(question.settings)} :
        IF "config" \in DOMAIN result THEN Serves(result.config, question.settings.users)
        ELSE LET place(k) == CHOOSE i \in DOMAIN CheckedKeys : CheckedKeys[i] = k
                 key == result.invalid
                 cured == [question.settings EXCEPT ![key] = Minimal[key]]
             IN  \A again \in {from_settings(cured)} :
                     "invalid" \in DOMAIN again => place(again.invalid) > place(key)
=============================================================================
