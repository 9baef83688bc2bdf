------------------------------- MODULE Policy -------------------------------
(***************************************************************************)
(* Which clients may connect and which destinations may be reached         *)
(* (src/policy: cidr.rs, ip_class.rs, port_range.rs, client_acl.rs,        *)
(* internal_whitelist_entry.rs, destination_policy.rs).  Pure functions.   *)
(*                                                                         *)
(* An IPv4 address is the sequence of its 4 octets, an IPv6 address that   *)
(* of its 8 segments, as the code sees them.  A mask is applied unit by    *)
(* unit, which is what masking the whole u32 or u128 does.                 *)
(***************************************************************************)
EXTENDS Integers, Sequences

Octet == 0 .. 2^8 - 1
Segment == 0 .. 2^16 - 1

IsV4(ip) == Len(ip) = 4
IsV6(ip) == Len(ip) = 8

UnitBits(ip) == IF IsV4(ip) THEN 8 ELSE 16
AddressBits(ip) == IF IsV4(ip) THEN 32 ELSE 128

\* Two segments hold the four octets of an IPv4 address.
Octets(high, low) == <<high \div 256, high % 256, low \div 256, low % 256>>

StartsWith(ip, prefix) ==
    Len(prefix) <= Len(ip) /\ \A i \in 1 .. Len(prefix) : ip[i] = prefix[i]

-----------------------------------------------------------------------------
(* ip_class.rs                                                             *)

MappedPrefix == <<0, 0, 0, 0, 0, 65535>>

IsMapped(ip) == IsV6(ip) /\ StartsWith(ip, MappedPrefix)

\* ::ffff:a.b.c.d becomes a.b.c.d
canonical_ip(ip) == IF IsMapped(ip) THEN Octets(ip[7], ip[8]) ELSE ip

\* 10/8, 172.16/12 and 192.168/16 are what is_private of std says.
classify_v4(ip) ==
    IF ip[1] = 0 \/ ip[1] >= 224 THEN "reserved"
    ELSE IF ip[1] = 127 THEN "loopback"
    ELSE IF ip[1] = 169 /\ ip[2] = 254 THEN "link_local"
    ELSE IF \/ ip[1] = 10
            \/ ip[1] = 172 /\ ip[2] \div 16 = 1
            \/ ip[1] = 192 /\ ip[2] = 168
            \/ ip[1] = 100 /\ ip[2] \div 64 = 1
    THEN "private"
    ELSE "public"

Nat64Prefix == <<100, 65435, 0, 0, 0, 0>>    \* 64:ff9b::/96
SixToFourPrefix == <<8194>>                  \* 2002::/16

EmbedsV4(ip) == StartsWith(ip, Nat64Prefix) \/ StartsWith(ip, SixToFourPrefix)

\* Mutant: a 6to4 address is read like a NAT64 one.
embedded_ipv4_at_end(ip) == Octets(ip[7], ip[8])

\* The host that a NAT64 or 6to4 address reaches.
embedded_ipv4(ip) ==
    IF StartsWith(ip, Nat64Prefix) THEN Octets(ip[7], ip[8]) ELSE Octets(ip[2], ip[3])

\* The first segment is tested by its leading bits: ff00::/8 (multicast),
\* fc00::/7 and fec0::/10 (private), fe80::/10 (link-local).
classify_v6(ip) ==
    IF ip = <<0, 0, 0, 0, 0, 0, 0, 1>> THEN "loopback"
    ELSE IF StartsWith(ip, <<0, 0, 0, 0, 0, 0>>) THEN "reserved"
    ELSE IF EmbedsV4(ip) THEN classify_v4(embedded_ipv4(ip))
    ELSE IF ip[1] \div 256 = 255 THEN "reserved"
    ELSE IF ip[1] \div 512 = 126 \/ ip[1] \div 64 = 1019 THEN "private"
    ELSE IF ip[1] \div 64 = 1018 THEN "link_local"
    ELSE "public"

classify_ip(ip) ==
    LET canonical == canonical_ip(ip) IN
    IF IsV4(canonical) THEN classify_v4(canonical) ELSE classify_v6(canonical)

-----------------------------------------------------------------------------
(* cidr.rs: a network is an address and the length of its prefix.          *)

\* How many leading bits of unit i the prefix covers.
CoveredBits(ip, i, prefix_len) ==
    LET left == prefix_len - (i - 1) * UnitBits(ip) IN
    IF left <= 0 THEN 0 ELSE IF left >= UnitBits(ip) THEN UnitBits(ip) ELSE left

\* ip & v4_mask(prefix_len), or v6_mask.
Masked(ip, prefix_len) ==
    [i \in 1 .. Len(ip) |->
        ip[i] - (ip[i] % 2^(UnitBits(ip) - CoveredBits(ip, i, prefix_len)))]

\* Mutant: an IPv4-mapped network stays an IPv6 network.
cidr_new_unmapped(addr, prefix_len) ==
    [network |-> Masked(addr, prefix_len), prefix_len |-> prefix_len]

\* Cidr::new, for a prefix that is not too long.
cidr_new(addr, prefix_len) ==
    IF IsMapped(addr) /\ prefix_len >= 96
    THEN [network |-> Masked(canonical_ip(addr), prefix_len - 96),
          prefix_len |-> prefix_len - 96]
    ELSE [network |-> Masked(addr, prefix_len), prefix_len |-> prefix_len]

\* IPv4 never matches an IPv6 network and vice versa.
cidr_contains(cidr, ip) ==
    /\ Len(cidr.network) = Len(ip)
    /\ Masked(ip, cidr.prefix_len) = cidr.network

-----------------------------------------------------------------------------
(* client_acl.rs, port_range.rs, internal_whitelist_entry.rs and           *)
(* destination_policy.rs.  A destination is an address and a port; `ports` *)
(* of a whitelist entry is the set of ports of its range.                  *)

AnyPort == 1 .. 65535

is_allowed(networks, ip) ==
    networks = {} \/ \E cidr \in networks : cidr_contains(cidr, canonical_ip(ip))

matches(entry, addr) ==
    /\ cidr_contains(entry.network, canonical_ip(addr.ip))
    /\ addr.port \in entry.ports

is_whitelisted(policy, addr) ==
    \E entry \in policy.internal_whitelist : matches(entry, addr)

\* Mutant: the whitelist is asked before the ports.
check_whitelist_first(policy, addr) ==
    IF is_whitelisted(policy, addr) THEN "allowed"
    ELSE IF addr.port = 0 \/ addr.port \in policy.blocked_ports THEN "blocked_port"
    ELSE LET class == classify_ip(addr.ip) IN
         IF class = "public" THEN "allowed"
         ELSE IF class = "reserved" THEN "reserved_address"
         ELSE IF class = "private" /\ policy.allow_internal THEN "allowed"
         ELSE "internal_address"

\* DestinationPolicy::check: "allowed" or the DenyReason.
check(policy, addr) ==
    LET class == classify_ip(addr.ip) IN
    IF addr.port = 0 \/ addr.port \in policy.blocked_ports THEN "blocked_port"
    ELSE IF class = "public" THEN "allowed"
    ELSE IF class = "reserved" THEN "reserved_address"
    ELSE IF class = "private" /\ policy.allow_internal THEN "allowed"
    ELSE IF is_whitelisted(policy, addr) THEN "allowed"
    ELSE "internal_address"
=============================================================================
