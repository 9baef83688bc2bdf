------------------------------ MODULE MCPolicy ------------------------------
(* The functions of Policy and PolicyText against reference definitions,     *)
(* over addresses on both sides of every boundary.                           *)
EXTENDS PolicyText, Question

-----------------------------------------------------------------------------
(* Addresses.                                                              *)

\* First octets, all of them; second octets at the ends of the documented
\* networks and just beyond.
SecondOctets == {0, 15, 16, 31, 32, 63, 64, 127, 128, 167, 168, 169, 253, 254, 255}

V4Addresses == {<<a, b, 7, 9>> : a \in Octet, b \in SecondOctets}

\* First segments around the boundaries of the documented IPv6 networks.
FirstSegments ==
    {0, 1, 100, 8193, 8194, 8195, 64511, 64512, 65023, 65024, 65151, 65152,
     65215, 65216, 65279, 65280, 65535}

V6Addresses ==
    {<<a, b, c, 0, 0, 0, d, e>> :
        a \in FirstSegments, b \in {0, 65435}, c \in {0, 2560}, d \in {0, 2560}, e \in {0, 1, 2}}

\* a.b.c.d in the two segments that hold it.
Segments(v4) == <<v4[1] * 256 + v4[2], v4[3] * 256 + v4[4]>>

Mapped(v4) == MappedPrefix \o Segments(v4)

\* The ways to write the IPv4 host v4 as an IPv6 address.
Spellings(v4) ==
    {Mapped(v4), Nat64Prefix \o Segments(v4),
     SixToFourPrefix \o Segments(v4) \o <<0, 0, 0, 0, 1>>}

-----------------------------------------------------------------------------
(* Classification.                                                         *)

ClassInit ==
    \E ip \in V4Addresses \cup V6Addresses : question = [about |-> "class", ip |-> ip]

V4(first, second) == <<first, second, 0, 0>>
V6(first) == <<first, 0, 0, 0, 0, 0, 0, 0>>

\* The networks that the documentation of IpClass lists.
PrivateNetworks ==
    {cidr_new(V4(10, 0), 8), cidr_new(V4(172, 16), 12),
     cidr_new(V4(192, 168), 16), cidr_new(V4(100, 64), 10),
     cidr_new(V6(64512), 7), cidr_new(V6(65216), 10)}
LinkLocalNetworks == {cidr_new(V4(169, 254), 16), cidr_new(V6(65152), 10)}
LoopbackNetworks == {cidr_new(V4(127, 0), 8), cidr_new(<<0, 0, 0, 0, 0, 0, 0, 1>>, 128)}
ReservedNetworks ==
    {cidr_new(V4(0, 0), 8), cidr_new(V4(224, 0), 4), cidr_new(V4(240, 0), 4),
     cidr_new(V6(65280), 8), cidr_new(V6(0), 96)}

In(networks, addr) == \E cidr \in networks : cidr_contains(cidr, addr)

\* classify_ip, which tests octets and leading bits, puts an address into the
\* class whose documented networks contain it, and into no other; the public
\* ones are in none.  An IPv4 host is judged alike however its address is
\* written: mapped, as NAT64 or as 6to4 (canonical_ip and embedded_ipv4).
ClassMatchesNetworks ==
    Asked("class") =>
        LET ip == question.ip IN
        /\ ~IsMapped(ip) /\ ~EmbedsV4(ip) =>
              /\ classify_ip(ip) = "private" <=> In(PrivateNetworks, ip)
              /\ classify_ip(ip) = "link_local" <=> In(LinkLocalNetworks, ip)
              /\ classify_ip(ip) = "loopback" <=> In(LoopbackNetworks, ip)
              /\ classify_ip(ip) = "reserved" <=> In(ReservedNetworks, ip) /\ ~In(LoopbackNetworks, ip)
        /\ IsV4(ip) => \A other \in Spellings(ip) : classify_ip(other) = classify_ip(ip)

-----------------------------------------------------------------------------
(* Networks.                                                               *)

CidrV4 == {<<a, b, 0, 255>> : a \in {0, 10, 127, 128, 255}, b \in {0, 1, 128, 255}}
CidrV6 == {<<a, 0, 0, 0, 0, 0, 0, e>> : a \in {0, 1, 32768, 65535}, e \in {0, 255}}

Networks ==
    [addr : CidrV4, prefix_len : 0 .. 32]
    \cup [addr : CidrV6, prefix_len : {0, 1, 15, 16, 17, 95, 96, 112, 120, 127, 128}]
    \cup [addr : {Mapped(a) : a \in CidrV4}, prefix_len : 95 .. 128]

CidrInit ==
    \E ip \in CidrV4 \cup CidrV6, net \in Networks :
        question = [about |-> "cidr", ip |-> ip, net |-> net]

\* Bit i of an address, from the left.
Bit(addr, i) ==
    LET width == UnitBits(addr)
        unit == addr[((i - 1) \div width) + 1]
    IN (unit \div 2^(width - 1 - ((i - 1) % width))) % 2

AgreeOn(a, b, n) == \A i \in 1 .. n : Bit(a, i) = Bit(b, i)

\* A network holds the addresses that share its first prefix_len bits, from
\* /0 to /32 and /128; one that is written as an IPv4-mapped network of /96
\* and longer holds IPv4 addresses by the bits of their mapped form, and no
\* IPv6 one; families never mix otherwise (Cidr::new and Cidr::contains).
\* A client whitelisted by such a network is let in under both spellings of
\* its address (ClientAcl::is_allowed).
PrefixDecides ==
    Asked("cidr") =>
    LET ip == question.ip
        net == question.net
        cidr == cidr_new(net.addr, net.prefix_len)
        inside == cidr_contains(cidr, ip)
    IN  /\ IF IsMapped(net.addr) /\ net.prefix_len >= 96
           THEN inside <=> IsV4(ip) /\ AgreeOn(net.addr, Mapped(ip), net.prefix_len)
           ELSE inside <=> Len(ip) = Len(net.addr) /\ AgreeOn(net.addr, ip, net.prefix_len)
        /\ IsV4(ip) => (is_allowed({cidr}, Mapped(ip)) <=> inside)

-----------------------------------------------------------------------------
(* Destinations.                                                           *)

Destinations ==
    {<<8, 8, 8, 8>>, <<10, 1, 2, 3>>, <<10, 1, 3, 3>>, <<127, 0, 0, 1>>,
     <<169, 254, 169, 254>>, <<0, 0, 0, 0>>, <<255, 255, 255, 255>>,
     <<64768, 0, 0, 0, 0, 0, 0, 1>>, <<0, 0, 0, 0, 0, 0, 0, 1>>, <<8193, 0, 0, 0, 0, 0, 0, 1>>}

WhitelistEntries ==
    {[network |-> cidr_new(<<10, 1, 2, 0>>, 24), ports |-> 443 .. 8080],
     [network |-> cidr_new(<<0, 0, 0, 0>>, 0), ports |-> AnyPort],
     [network |-> cidr_new(<<127, 0, 0, 1>>, 32), ports |-> {8080}]}

CheckInit ==
    \E ip \in Destinations \cup UNION {Spellings(d) : d \in {e \in Destinations : IsV4(e)}},
       port \in {0, 25, 443, 8080, 8081},
       allow \in BOOLEAN, entries \in SUBSET WhitelistEntries :
        question = [about |-> "check", addr |-> [ip |-> ip, port |-> port],
                    policy |-> [blocked_ports |-> {25}, allow_internal |-> allow,
                                internal_whitelist |-> entries]]

\* The table in the documentation of DestinationPolicy, with each address
\* judged as the IPv4 host that it maps to or embeds: no whitelist entry opens
\* a reserved address or a blocked port, and allow_internal opens private
\* networks only.  The whitelist lists NAT64 and 6to4 addresses as they are
\* written.
CheckMatchesTable ==
    Asked("check") =>
    LET policy == question.policy
        port == question.addr.port
        named == canonical_ip(question.addr.ip)
        host == IF EmbedsV4(named) THEN embedded_ipv4(named) ELSE named
        listed == \E entry \in policy.internal_whitelist :
                     cidr_contains(entry.network, named) /\ port \in entry.ports
        open == IF In(LoopbackNetworks \cup LinkLocalNetworks, host) THEN listed
                ELSE IF In(PrivateNetworks, host) THEN policy.allow_internal \/ listed
                ELSE ~In(ReservedNetworks, host)
    IN  check(policy, question.addr) = "allowed"
            <=> open /\ port \notin {0} \cup policy.blocked_ports

-----------------------------------------------------------------------------
(* Lines of internal_whitelist.                                            *)

TextAddresses ==
    {<<10, 1, 2, 3>>, <<64768, 0, 0, 0, 0, 0, 0, 1>>, Mapped(<<10, 1, 2, 3>>)}

\* The parts of a line, right and wrong: an address, a prefix length or none,
\* a first and a last port or none, brackets or none, and blanks around it.
Lines ==
    [ip : TextAddresses, prefix : {<<>>} \cup {<<n>> : n \in {0, 24, 32, 33, 96, 120, 128, 129, 256}},
     ports : {<<>>, <<443>>, <<0>>, <<65535>>, <<65536>>, <<443, 8080>>, <<8080, 443>>, <<0, 443>>},
     bracketed : BOOLEAN, padded : BOOLEAN]

TextOf(line) ==
    LET joined(numbers, sep) ==
            IF Len(numbers) = 2 THEN <<Number(numbers[1]), Sep(sep), Number(numbers[2])>>
            ELSE <<Number(numbers[1])>>
        network == <<Addr(line.ip)>>
                      \o IF line.prefix = <<>> THEN <<>> ELSE <<Sep("/"), Number(line.prefix[1])>>
        bracket == IF line.bracketed THEN <<Sep("[")>> \o network \o <<Sep("]")>> ELSE network
        ports == IF line.ports = <<>> THEN <<>> ELSE <<Sep(":")>> \o joined(line.ports, "-")
        pad == IF line.padded THEN <<Sep(" ")>> ELSE <<>>
    IN  pad \o bracket \o ports \o pad

\* Without brackets or a prefix, the ports of an IPv6 address are part of it.
IsAnotherAddress(line) ==
    IsV6(line.ip) /\ ~line.bracketed /\ line.prefix = <<>> /\ line.ports # <<>>

TextInit ==
    \/ \E line \in {l \in Lines : ~IsAnotherAddress(l)} :
          question = [about |-> "line", line |-> line]
    \/ \E line \in {l \in Lines : ~IsAnotherAddress(l) /\ Len(l.ports) # 1}, i \in 1 .. 9 :
          /\ i \in DOMAIN TextOf(line)
          /\ question = [about |-> "garbled", line |-> line, wrong |-> i]

\* A line of internal_whitelist is accepted if and only if its address, its
\* prefix and its ports are in range, an IPv6 network that has ports being in
\* brackets; it then opens that network at those ports and nothing else.  A
\* word anywhere in the line makes it invalid: nothing is read past it
\* (the three from_str, with every split at the first separator).
LineOpensWhatItSays ==
    /\ Asked("line") =>
        LET line == question.line
            length == IF line.prefix = <<>> THEN AddressBits(line.ip) ELSE line.prefix[1]
            first == line.ports[1]
            last == line.ports[Len(line.ports)]
            right == /\ length <= AddressBits(line.ip)
                     /\ line.ports # <<>> =>
                           /\ first \in 1 .. last /\ last <= 65535
                           /\ IsV6(line.ip) => line.bracketed
            ports == IF line.ports = <<>> THEN AnyPort ELSE first .. last
        IN  entry_from_str(TextOf(line)) =
                IF right THEN Parsed([network |-> cidr_new(line.ip, length), ports |-> ports])
                ELSE Invalid
    /\ Asked("garbled") =>
        entry_from_str([TextOf(question.line) EXCEPT ![question.wrong] = Word]) = Invalid
=============================================================================
