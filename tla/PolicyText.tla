----------------------------- MODULE PolicyText -----------------------------
(***************************************************************************)
(* How the networks and ports of the settings are read (FromStr of Cidr,   *)
(* PortRange and InternalWhitelistEntry in src/policy).                    *)
(*                                                                         *)
(* A text is a sequence of tokens: separators, blanks, numbers, addresses  *)
(* as std parses them, and anything else ("word").  An IPv6 address has    *)
(* colons of its own.                                                      *)
(***************************************************************************)
EXTENDS Policy

Sep(c) == [is |-> c]
Number(n) == [is |-> "number", n |-> n]
Addr(ip) == [is |-> IF IsV4(ip) THEN "v4" ELSE "v6", ip |-> ip]
Word == [is |-> "word"]

Invalid == [ok |-> FALSE]
Parsed(v) == [ok |-> TRUE, value |-> v]

From(text, i) == SubSeq(text, i, Len(text))

\* Positions of the separator c.
At(text, c) == {i \in DOMAIN text : text[i].is = c}

FirstAt(text, c) == CHOOSE i \in At(text, c) : \A j \in At(text, c) : i <= j

Before(text, c) == SubSeq(text, 1, FirstAt(text, c) - 1)
After(text, c) == From(text, FirstAt(text, c) + 1)

\* str::trim
Trim(text) ==
    LET kept == DOMAIN text \ At(text, " ")
        first == CHOOSE i \in kept : \A j \in kept : i <= j
        last == CHOOSE i \in kept : \A j \in kept : j <= i
    IN  IF kept = {} THEN <<>> ELSE SubSeq(text, first, last)

\* The text is one number of at most `limit`.
IsNumber(text, limit) == Len(text) = 1 /\ text[1].is = "number" /\ text[1].n <= limit

IsAddr(text) == Len(text) = 1 /\ text[1].is \in {"v4", "v6"}

-----------------------------------------------------------------------------
\* Cidr::from_str: the longest prefix is that of the family as it is written.
cidr_from_str(input) ==
    LET trimmed == Trim(input)
        slash == At(trimmed, "/") # {}
        addr == IF slash THEN Before(trimmed, "/") ELSE trimmed
        prefix == After(trimmed, "/")
    IN  IF ~IsAddr(addr) THEN Invalid
        ELSE IF ~slash THEN Parsed(cidr_new(addr[1].ip, AddressBits(addr[1].ip)))
        ELSE IF IsNumber(prefix, AddressBits(addr[1].ip))
        THEN Parsed(cidr_new(addr[1].ip, prefix[1].n))
        ELSE Invalid

\* Mutant: a range may be empty.
port_range_from_str_unordered(input) ==
    LET dash == At(input, "-") # {}
        first == Trim(IF dash THEN Before(input, "-") ELSE input)
        last == Trim(IF dash THEN After(input, "-") ELSE input)
        IsPort(text) == IsNumber(text, 65535) /\ text[1].n # 0
    IN  IF IsPort(first) /\ IsPort(last)
        THEN Parsed(first[1].n .. last[1].n) ELSE Invalid

\* PortRange::from_str, as the set of its ports.
port_range_from_str(input) ==
    LET dash == At(input, "-") # {}
        first == Trim(IF dash THEN Before(input, "-") ELSE input)
        last == Trim(IF dash THEN After(input, "-") ELSE input)
        IsPort(text) == IsNumber(text, 65535) /\ text[1].n # 0
    IN  IF IsPort(first) /\ IsPort(last) /\ first[1].n <= last[1].n
        THEN Parsed(first[1].n .. last[1].n) ELSE Invalid

\* The parts of an entry, parsed; `ports` is <<>> for None.
entry_of(network, ports) ==
    LET cidr == cidr_from_str(network)
        range == IF ports = <<>> THEN Parsed(AnyPort) ELSE port_range_from_str(ports[1])
    IN  IF cidr.ok /\ range.ok
        THEN Parsed([network |-> cidr.value, ports |-> range.value]) ELSE Invalid

\* InternalWhitelistEntry::from_str: a bracketed network; or, with exactly
\* one colon, a network and ports; or a network.
entry_from_str(input) ==
    LET trimmed == Trim(input)
        rest == After(trimmed, "]")
        colons == At(trimmed, ":")
        one_colon == At(trimmed, "v6") = {} /\ \E i \in colons : colons = {i}
    IN  IF trimmed # <<>> /\ trimmed[1].is = "["
        THEN IF At(trimmed, "]") = {} THEN Invalid
             ELSE LET network == Before(From(trimmed, 2), "]") IN
                  IF rest = <<>> THEN entry_of(network, <<>>)
                  ELSE IF rest[1].is = ":" THEN entry_of(network, <<From(rest, 2)>>)
                  ELSE Invalid
        ELSE IF one_colon
        THEN entry_of(Before(trimmed, ":"), <<After(trimmed, ":")>>)
        ELSE entry_of(trimmed, <<>>)
=============================================================================
