------------------------------ MODULE Settings ------------------------------
(***************************************************************************)
(* The settings and their validation (src/config: settings_model.rs and    *)
(* server_config.rs).  A settings record has every key; an optional value  *)
(* is <<>> when the key is missing and <<v>> otherwise.  What serde checks *)
(* (types and unknown keys) is taken for granted.                          *)
(***************************************************************************)
EXTENDS PolicyText, UserStore

MAX_CONNECTIONS_LIMIT == 1000000
MAX_DURATION_SEC == 365 * 24 * 60 * 60
BAN_MAX_TRACKED == 100000

Defaults ==
    [listen_address |-> [ip |-> <<0, 0, 0, 0>>, port |-> 1080],
     max_connections |-> 4096, handshake_timeout_sec |-> 10, connect_timeout_sec |-> 15,
     idle_timeout_sec |-> 300, shutdown_grace_sec |-> 10, stats_interval_sec |-> 60,
     client_whitelist |-> <<>>, blocked_ports |-> {25}, allow_internal |-> FALSE,
     internal_whitelist |-> <<>>, ban_max_failures |-> 5, ban_window_sec |-> 600,
     ban_duration_sec |-> 3600]

\* Option::unwrap_or
ValueOf(settings, key) == IF settings[key] = <<>> THEN Defaults[key] ELSE settings[key][1]

\* Mutant: zero seconds are accepted.
seconds_zero(value) == value <= MAX_DURATION_SEC

seconds(value) == value # 0 /\ value <= MAX_DURATION_SEC

\* An address that does not parse is the empty record.
IsSocketAddr(value) == {"ip", "port"} \subseteq DOMAIN value

\* parse_list on the parsed lines of a list: every one must be accepted.
ListParses(parsed) == \A i \in DOMAIN parsed : parsed[i].ok

ParseList(parsed) == {parsed[i].value : i \in DOMAIN parsed}

\* The lines of the two lists, each put through its parser.
ParsedNetworks(lines) == [i \in DOMAIN lines |-> cidr_from_str(lines[i])]

ParsedEntries(lines) == [i \in DOMAIN lines |-> entry_from_str(lines[i])]

\* The keys that are checked, in the order of the checks.
CheckedKeys ==
    <<"listen_address", "users", "max_connections", "handshake_timeout_sec",
      "connect_timeout_sec", "idle_timeout_sec", "shutdown_grace_sec",
      "stats_interval_sec", "client_whitelist", "blocked_ports",
      "internal_whitelist", "ban_window_sec", "ban_duration_sec">>

\* The check of one key.
KeyIsValid(settings, key) ==
    IF key = "users" THEN "users" \in DOMAIN user_store_new(settings.users)
    ELSE LET value == ValueOf(settings, key) IN
         IF key = "listen_address" THEN IsSocketAddr(value)
         ELSE IF key = "max_connections" THEN value \in 1 .. MAX_CONNECTIONS_LIMIT
         ELSE IF key = "client_whitelist" THEN ListParses(ParsedNetworks(value))
         ELSE IF key = "blocked_ports" THEN 0 \notin value
         ELSE IF key = "internal_whitelist" THEN ListParses(ParsedEntries(value))
         ELSE seconds(value)

\* The validated settings, with the defaults applied.
server_config(settings) ==
    LET v(key) == ValueOf(settings, key) IN
    [listen_address |-> v("listen_address"),
     users |-> user_store_new(settings.users).users,
     max_connections |-> v("max_connections"),
     timeouts |-> [handshake |-> v("handshake_timeout_sec"),
                   connect |-> v("connect_timeout_sec"), idle |-> v("idle_timeout_sec"),
                   shutdown_grace |-> v("shutdown_grace_sec")],
     stats_interval |-> v("stats_interval_sec"),
     client_acl |-> ParseList(ParsedNetworks(v("client_whitelist"))),
     destination_policy |->
        [blocked_ports |-> v("blocked_ports"), allow_internal |-> v("allow_internal"),
         internal_whitelist |->
            ParseList(ParsedEntries(v("internal_whitelist")))],
     ban |-> [max_failures |-> v("ban_max_failures"), window |-> v("ban_window_sec"),
              duration |-> v("ban_duration_sec"), max_tracked |-> BAN_MAX_TRACKED]]

\* ServerConfig::from_settings: the first check that fails names its key.
from_settings(settings) ==
    LET failed == {i \in DOMAIN CheckedKeys : ~KeyIsValid(settings, CheckedKeys[i])}
        first == CHOOSE i \in failed : \A j \in failed : i <= j
    IN  IF failed = {} THEN [config |-> server_config(settings)]
        ELSE [invalid |-> CheckedKeys[first]]
=============================================================================
