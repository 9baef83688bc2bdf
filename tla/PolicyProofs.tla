---------------------------- MODULE PolicyProofs ----------------------------
(***************************************************************************)
(* The functions of Policy and PolicyText, for all their inputs: the       *)
(* classes of addresses, the table of DestinationPolicy, the bits that     *)
(* Cidr compares, and the lines of internal_whitelist.                     *)
(***************************************************************************)
EXTENDS MCPolicy, WellFoundedInduction, TLAPS

V4Address == {ip \in Seq(Octet) : Len(ip) = 4}
V6Address == {ip \in Seq(Segment) : Len(ip) = 8}
Address == V4Address \cup V6Address

\* The first c of the w bits of a unit.
Unit(x, w, c) == x - (x % 2^(w - c))

\* Octets and segments are numbers below a bound.
LEMMA Ranges ==
    /\ \A x : x \in Octet <=> x \in Nat /\ x < 256
    /\ \A x : x \in Segment <=> x \in Nat /\ x < 65536
<1>1. 2^8 = 256 /\ 2^16 = 65536
  OBVIOUS
<1> QED
  BY <1>1 DEF Octet, Segment

\* An element of a sequence.
LEMMA Element == ASSUME NEW S, NEW s \in Seq(S), NEW i \in 1 .. Len(s) PROVE s[i] \in S
OBVIOUS

\* A sequence is its elements.
LEMMA SameElements ==
    ASSUME NEW S, NEW s \in Seq(S), NEW t \in Seq(S), Len(s) = Len(t),
           \A i \in 1 .. Len(s) : s[i] = t[i]
    PROVE  s = t
OBVIOUS

\* The units of an address.
LEMMA V4Units ==
    ASSUME NEW ip \in V4Address
    PROVE  /\ ip \in Seq(Octet) /\ Len(ip) = 4 /\ IsV4(ip) /\ ~IsV6(ip) /\ UnitBits(ip) = 8
           /\ \A i \in 1 .. 4 : ip[i] \in Octet
<1>1. ip \in Seq(Octet) /\ Len(ip) = 4
  BY DEF V4Address
<1>2. \A i \in 1 .. 4 : ip[i] \in Octet
  BY <1>1, Element, Zenon
<1> QED
  BY <1>1, <1>2 DEF IsV4, IsV6, UnitBits

\* The segments of an IPv6 address.
LEMMA V6Units ==
    ASSUME NEW ip \in V6Address
    PROVE  /\ ip \in Seq(Segment) /\ Len(ip) = 8 /\ IsV6(ip) /\ ~IsV4(ip) /\ UnitBits(ip) = 16
           /\ \A i \in 1 .. 8 : ip[i] \in Segment
<1>1. ip \in Seq(Segment) /\ Len(ip) = 8
  BY DEF V6Address
<1>2. \A i \in 1 .. 8 : ip[i] \in Segment
  BY <1>1, Element, Zenon
<1> QED
  BY <1>1, <1>2 DEF IsV4, IsV6, UnitBits

\* The families are apart.
LEMMA Families ==
    /\ \A ip \in V4Address : ip \notin V6Address /\ Len(ip) = 4
    /\ \A ip \in V6Address : ip \notin V4Address /\ Len(ip) = 8
<1>1. \A ip \in V4Address : Len(ip) = 4
  BY Zenon DEF V4Address
<1>2. \A ip \in V6Address : Len(ip) = 8
  BY Zenon DEF V6Address
<1>3. 4 # 8
  OBVIOUS
<1> QED
  BY <1>1, <1>2, <1>3, Zenon

\* All bits of a unit, and none.
LEMMA UnitEnds ==
    /\ \A x \in Octet : Unit(x, 8, 8) = x /\ Unit(x, 8, 0) = 0
    /\ \A x \in Segment : Unit(x, 16, 16) = x /\ Unit(x, 16, 0) = 0
<1>1. 2^(8 - 8) = 1 /\ 2^(8 - 0) = 256 /\ 2^(16 - 16) = 1 /\ 2^(16 - 0) = 65536
  OBVIOUS
<1>2. \A x \in Nat : /\ x - (x % 1) = x
                     /\ x < 256 => x - (x % 256) = 0
                     /\ x < 65536 => x - (x % 65536) = 0
  OBVIOUS
<1> QED
  BY <1>1, <1>2, Ranges DEF Unit

\* The bits that the documented networks look at.
LEMMA V4Boundaries ==
    ASSUME NEW x \in Octet
    PROVE  /\ Unit(x, 8, 4) = Unit(16, 8, 4) <=> x \div 16 = 1
           /\ Unit(x, 8, 4) = Unit(224, 8, 4) <=> x >= 224 /\ x < 240
           /\ Unit(x, 8, 4) = Unit(240, 8, 4) <=> x >= 240
           /\ Unit(x, 8, 2) = Unit(64, 8, 2) <=> x \div 64 = 1
<1>1. 2^(8 - 4) = 16 /\ 2^(8 - 2) = 64
  OBVIOUS
<1>2. /\ x - (x % 16) = 16 <=> x \div 16 = 1
      /\ x - (x % 16) = 224 <=> x >= 224 /\ x < 240
      /\ x - (x % 16) = 240 <=> x >= 240
      /\ x - (x % 64) = 64 <=> x \div 64 = 1
  BY Ranges
<1> QED
  BY <1>1, <1>2 DEF Unit

\* The same for the prefixes of classify_ipv6.
LEMMA V6Boundaries ==
    ASSUME NEW x \in Segment
    PROVE  /\ Unit(x, 16, 7) = Unit(64512, 16, 7) <=> x \div 512 = 126
           /\ Unit(x, 16, 8) = Unit(65280, 16, 8) <=> x \div 256 = 255
           /\ Unit(x, 16, 10) = Unit(65216, 16, 10) <=> x \div 64 = 1019
           /\ Unit(x, 16, 10) = Unit(65152, 16, 10) <=> x \div 64 = 1018
<1>1. 2^(16 - 7) = 512 /\ 2^(16 - 8) = 256 /\ 2^(16 - 10) = 64
  OBVIOUS
<1>2. /\ x - (x % 512) = 64512 <=> x \div 512 = 126
      /\ x - (x % 256) = 65280 <=> x \div 256 = 255
      /\ x - (x % 64) = 65216 <=> x \div 64 = 1019
      /\ x - (x % 64) = 65152 <=> x \div 64 = 1018
  BY Ranges
<1> QED
  BY <1>1, <1>2 DEF Unit

\* A network holds the addresses of its length whose units agree with its own as
\* far as the prefix goes.
LEMMA ContainsUnits ==
    ASSUME NEW net \in Address, NEW ip \in Address, NEW p \in Nat, ~(IsMapped(net) /\ p >= 96)
    PROVE  cidr_contains(cidr_new(net, p), ip) <=>
              /\ Len(net) = Len(ip)
              /\ \A i \in 1 .. Len(ip) :
                    Unit(ip[i], UnitBits(ip), CoveredBits(ip, i, p))
                       = Unit(net[i], UnitBits(ip), CoveredBits(ip, i, p))
<1>1. cidr_contains(cidr_new(net, p), ip) <=>
         Len(Masked(net, p)) = Len(ip) /\ Masked(ip, p) = Masked(net, p)
  BY DEF cidr_new, cidr_contains
<1>2. \A a \in Address :
         /\ Masked(a, p) = [i \in 1 .. Len(a) |-> Unit(a[i], UnitBits(a), CoveredBits(a, i, p))]
         /\ Len(a) \in Nat
  BY V4Units, V6Units DEF Masked, Unit, Address
<1>3. Len(Masked(net, p)) = Len(net)
  BY <1>2
<1>4. ASSUME Len(net) = Len(ip)
      PROVE  /\ UnitBits(net) = UnitBits(ip)
             /\ \A i \in 1 .. Len(ip) : CoveredBits(net, i, p) = CoveredBits(ip, i, p)
  BY <1>4 DEF UnitBits, IsV4, CoveredBits
<1>5. ASSUME Len(net) = Len(ip)
      PROVE  Masked(net, p) = [i \in 1 .. Len(ip) |-> Unit(net[i], UnitBits(ip), CoveredBits(ip, i, p))]
  BY <1>2, <1>4, <1>5
<1> QED
  BY <1>1, <1>2, <1>3, <1>5

\* The same for two IPv6 addresses.
LEMMA V6ContainsUnits ==
    ASSUME NEW net \in V6Address, NEW ip \in V6Address, NEW p \in Nat, ~IsMapped(net)
    PROVE  cidr_contains(cidr_new(net, p), ip) <=>
              \A i \in 1 .. 8 : Unit(ip[i], 16, CoveredBits(ip, i, p))
                                   = Unit(net[i], 16, CoveredBits(ip, i, p))
<1>1. Len(net) = 8 /\ Len(ip) = 8 /\ UnitBits(ip) = 16 /\ net \in Address /\ ip \in Address
  BY V6Units DEF Address
<1> QED
  BY <1>1, ContainsUnits, Zenon

\* The bits of a unit that a prefix of n bits from its start covers.
Covered(n, w) == IF n <= 0 THEN 0 ELSE IF n >= w THEN w ELSE n

\* An IPv4 network with a prefix of at most 16 bits.
LEMMA V4Network ==
    ASSUME NEW a \in Octet, NEW b \in Octet, NEW p \in Nat, p <= 16, NEW ip \in Address
    PROVE  cidr_contains(cidr_new(V4(a, b), p), ip) <=>
              /\ ip \in V4Address
              /\ Unit(ip[1], 8, Covered(p, 8)) = Unit(a, 8, Covered(p, 8))
              /\ Unit(ip[2], 8, Covered(p - 8, 8)) = Unit(b, 8, Covered(p - 8, 8))
<1> DEFINE net == V4(a, b)
<1>1. net \in V4Address /\ ~IsMapped(net) /\ net \in Address /\ Len(net) = 4
  <2>1. 0 \in Octet
    BY Ranges
  <2>2. net \in Seq(Octet) /\ Len(net) = 4
    BY <2>1 DEF V4
  <2> QED
    BY <2>2 DEF V4Address, Address, IsMapped, IsV6
<1>2. CASE ip \in V6Address
  <2>1. ip \notin V4Address /\ Len(net) # Len(ip)
    BY <1>1, <1>2, Families
  <2> QED
    BY <1>1, <2>1, ContainsUnits
<1>3. CASE ip \in V4Address
  <2>1. /\ CoveredBits(ip, 1, p) = Covered(p, 8) /\ CoveredBits(ip, 2, p) = Covered(p - 8, 8)
        /\ CoveredBits(ip, 3, p) = 0 /\ CoveredBits(ip, 4, p) = 0
    <3>1. UnitBits(ip) = 8
      BY <1>3, V4Units
    <3> QED
      BY <3>1 DEF CoveredBits, Covered
  <2>2. Unit(ip[3], 8, 0) = Unit(0, 8, 0) /\ Unit(ip[4], 8, 0) = Unit(0, 8, 0)
    <3>1. 0 \in Octet
      BY Ranges
    <3>2. ip[3] \in Octet /\ ip[4] \in Octet
      BY <1>3, V4Units
    <3> QED
      BY <3>1, <3>2, UnitEnds
  <2>3. Len(ip) = 4 /\ UnitBits(ip) = 8
    BY <1>3, V4Units
  <2>4. cidr_contains(cidr_new(net, p), ip) <=>
          \A i \in 1 .. 4 : Unit(ip[i], 8, CoveredBits(ip, i, p)) = Unit(net[i], 8, CoveredBits(ip, i, p))
    BY <1>1, <2>3, ContainsUnits, Zenon
  <2>5. \A i \in 1 .. 4 : i = 1 \/ i = 2 \/ i = 3 \/ i = 4
    OBVIOUS
  <2>6. net[1] = a /\ net[2] = b /\ net[3] = 0 /\ net[4] = 0
    BY DEF V4
  <2> HIDE DEF net
  <2>7. (\A i \in 1 .. 4 : Unit(ip[i], 8, CoveredBits(ip, i, p)) = Unit(net[i], 8, CoveredBits(ip, i, p)))
          <=> /\ Unit(ip[1], 8, Covered(p, 8)) = Unit(a, 8, Covered(p, 8))
              /\ Unit(ip[2], 8, Covered(p - 8, 8)) = Unit(b, 8, Covered(p - 8, 8))
    BY <2>1, <2>2, <2>5, <2>6
  <2> QED
    BY <1>3, <2>4, <2>7 DEF net
<1> QED
  BY <1>2, <1>3 DEF Address

\* An IPv6 network with a prefix of at most 16 bits.
LEMMA V6Network ==
    ASSUME NEW a \in Segment, NEW p \in Nat, p <= 16, NEW ip \in Address
    PROVE  cidr_contains(cidr_new(V6(a), p), ip) <=>
              /\ ip \in V6Address
              /\ Unit(ip[1], 16, Covered(p, 16)) = Unit(a, 16, Covered(p, 16))
<1> DEFINE net == V6(a)
<1>1. net \in V6Address /\ ~IsMapped(net) /\ net \in Address /\ Len(net) = 8
  <2>1. 0 \in Segment
    BY Ranges
  <2>2. net \in Seq(Segment) /\ Len(net) = 8 /\ net[6] = 0
    BY <2>1 DEF V6
  <2>3. ~StartsWith(net, MappedPrefix)
    BY <2>2 DEF StartsWith, MappedPrefix
  <2> QED
    BY <2>2, <2>3 DEF V6Address, Address, IsMapped
<1>2. CASE ip \in V4Address
  <2>1. ip \notin V6Address /\ Len(net) # Len(ip)
    BY <1>1, <1>2, Families
  <2> QED
    BY <1>1, <2>1, ContainsUnits
<1>3. CASE ip \in V6Address
  <2>1. Len(ip) = 8 /\ UnitBits(ip) = 16
    BY <1>3, V6Units
  <2>2. /\ CoveredBits(ip, 1, p) = Covered(p, 16)
        /\ \A i \in 2 .. 8 : CoveredBits(ip, i, p) = 0
    <3>1. UnitBits(ip) = 16
      BY <2>1
    <3>2. CoveredBits(ip, 1, p) = Covered(p, 16)
      BY <3>1 DEF CoveredBits, Covered
    <3>3. ASSUME NEW i \in 2 .. 8 PROVE CoveredBits(ip, i, p) = 0
      <4>1. p - (i - 1) * 16 <= 0
        OBVIOUS
      <4> QED
        BY <3>1, <4>1 DEF CoveredBits
    <3> QED
      BY <3>2, <3>3
  <2>3. 0 \in Segment /\ \A i \in 2 .. 8 : ip[i] \in Segment
    <3>1. 0 \in Segment
      BY Ranges
    <3>2. ASSUME NEW i \in 2 .. 8 PROVE ip[i] \in Segment
      <4>1. i \in 1 .. 8
        OBVIOUS
      <4> QED
        BY <1>3, <4>1, V6Units, Zenon
    <3> QED
      BY <3>1, <3>2
  <2>4. \A i \in 2 .. 8 : Unit(ip[i], 16, 0) = 0 /\ Unit(0, 16, 0) = 0
    BY <2>3, UnitEnds, Zenon
  <2>5. cidr_contains(cidr_new(net, p), ip) <=>
          \A i \in 1 .. 8 : Unit(ip[i], 16, CoveredBits(ip, i, p)) = Unit(net[i], 16, CoveredBits(ip, i, p))
    BY <1>1, <1>3, V6ContainsUnits, Zenon
  <2>6. \A i \in 1 .. 8 : i = 1 \/ i \in 2 .. 8
    OBVIOUS
  <2>7. net[1] = a /\ \A i \in 2 .. 8 : net[i] = 0
    BY DEF V6
  <2> HIDE DEF net
  <2>8. (\A i \in 1 .. 8 : Unit(ip[i], 16, CoveredBits(ip, i, p)) = Unit(net[i], 16, CoveredBits(ip, i, p)))
          <=> Unit(ip[1], 16, Covered(p, 16)) = Unit(a, 16, Covered(p, 16))
    BY <2>2, <2>4, <2>6, <2>7
  <2> QED
    BY <1>3, <2>5, <2>8 DEF net
<1> QED
  BY <1>2, <1>3 DEF Address

LOOPBACK == <<0, 0, 0, 0, 0, 0, 0, 1>>

\* The IPv6 networks ::/96 and ::1/128.
LEMMA LowNetworks ==
    ASSUME NEW ip \in Address
    PROVE  /\ cidr_contains(cidr_new(V6(0), 96), ip) <=>
                 ip \in V6Address /\ \A i \in 1 .. 6 : ip[i] = 0
           /\ cidr_contains(cidr_new(LOOPBACK, 128), ip) <=> ip = LOOPBACK
           /\ LOOPBACK \in V6Address
<1>1. /\ V6(0) \in V6Address /\ V6(0) \in Address /\ ~IsMapped(V6(0)) /\ Len(V6(0)) = 8
      /\ LOOPBACK \in V6Address /\ LOOPBACK \in Address /\ ~IsMapped(LOOPBACK) /\ Len(LOOPBACK) = 8
  <2>1. 0 \in Segment /\ 1 \in Segment
    BY Ranges
  <2>2. /\ V6(0) \in Seq(Segment) /\ Len(V6(0)) = 8 /\ V6(0)[6] = 0
        /\ LOOPBACK \in Seq(Segment) /\ Len(LOOPBACK) = 8 /\ LOOPBACK[6] = 0
    BY <2>1 DEF V6, LOOPBACK
  <2>3. ~StartsWith(V6(0), MappedPrefix) /\ ~StartsWith(LOOPBACK, MappedPrefix)
    BY <2>2 DEF StartsWith, MappedPrefix
  <2> QED
    BY <2>2, <2>3 DEF V6Address, Address, IsMapped
<1>2. CASE ip \in V4Address
  <2>1. ip \notin V6Address /\ Len(V6(0)) # Len(ip) /\ Len(LOOPBACK) # Len(ip)
    <3>1. Len(V6(0)) = 8 /\ Len(LOOPBACK) = 8 /\ Len(ip) = 4 /\ ip \notin V6Address
      BY <1>1, <1>2, Families, Zenon
    <3> QED
      BY <3>1
  <2>2. ip # LOOPBACK
    BY <1>1, <2>1, Zenon
  <2>3. 96 \in Nat /\ 128 \in Nat
    OBVIOUS
  <2> QED
    BY <1>1, <2>1, <2>2, <2>3, ContainsUnits, Zenon
<1>3. CASE ip \in V6Address
  <2>1. Len(ip) = 8 /\ UnitBits(ip) = 16 /\ \A i \in 1 .. 8 : ip[i] \in Segment
    BY <1>3, V6Units
  <2>2. /\ \A i \in 1 .. 6 : CoveredBits(ip, i, 96) = 16
        /\ CoveredBits(ip, 7, 96) = 0 /\ CoveredBits(ip, 8, 96) = 0
        /\ \A i \in 1 .. 8 : CoveredBits(ip, i, 128) = 16
    BY <2>1 DEF CoveredBits
  <2>3. \A i \in 1 .. 8 : /\ Unit(ip[i], 16, 16) = ip[i] /\ Unit(ip[i], 16, 0) = 0
                          /\ Unit(V6(0)[i], 16, 16) = 0 /\ Unit(V6(0)[i], 16, 0) = 0
                          /\ Unit(LOOPBACK[i], 16, 16) = LOOPBACK[i]
    <3>1. \A i \in 1 .. 8 : V6(0)[i] = 0 /\ LOOPBACK[i] \in {0, 1}
      BY DEF V6, LOOPBACK
    <3>2. 0 \in Segment /\ 1 \in Segment
      BY Ranges
    <3> QED
      BY <2>1, <3>1, <3>2, UnitEnds
  <2>4. cidr_contains(cidr_new(V6(0), 96), ip) <=> \A i \in 1 .. 6 : ip[i] = 0
    <3>1. cidr_contains(cidr_new(V6(0), 96), ip) <=>
             \A i \in 1 .. 8 : Unit(ip[i], 16, CoveredBits(ip, i, 96))
                                  = Unit(V6(0)[i], 16, CoveredBits(ip, i, 96))
      BY <1>1, <1>3, V6ContainsUnits
    <3>2. \A i \in 1 .. 8 : i \in 1 .. 6 \/ i = 7 \/ i = 8
      OBVIOUS
    <3>3. \A i \in 1 .. 6 : i \in 1 .. 8
      OBVIOUS
    <3> QED
      BY <2>2, <2>3, <3>1, <3>2, <3>3
  <2>5. cidr_contains(cidr_new(LOOPBACK, 128), ip) <=> \A i \in 1 .. 8 : ip[i] = LOOPBACK[i]
    <3>1. cidr_contains(cidr_new(LOOPBACK, 128), ip) <=>
             \A i \in 1 .. 8 : Unit(ip[i], 16, CoveredBits(ip, i, 128))
                                  = Unit(LOOPBACK[i], 16, CoveredBits(ip, i, 128))
      BY <1>1, <1>3, V6ContainsUnits
    <3> QED
      BY <2>2, <2>3, <3>1
  <2>6. (\A i \in 1 .. 8 : ip[i] = LOOPBACK[i]) <=> ip = LOOPBACK
    <3>1. ip \in Seq(Segment) /\ LOOPBACK \in Seq(Segment)
      BY <1>1, <1>3, V6Units
    <3>2. Len(ip) = 8 /\ Len(LOOPBACK) = 8
      BY <1>1, <2>1
    <3> QED
      BY <3>1, <3>2, SameElements, Zenon
  <2> QED
    BY <1>1, <1>3, <2>4, <2>5, <2>6
<1> QED
  BY <1>1, <1>2, <1>3 DEF Address

Holds(net, p, ip) == cidr_contains(cidr_new(net, p), ip)

\* The documented networks, one by one.
LEMMA NetworksListed ==
    ASSUME NEW ip
    PROVE  /\ In(PrivateNetworks, ip) <=>
                 \/ Holds(V4(10, 0), 8, ip) \/ Holds(V4(172, 16), 12, ip)
                 \/ Holds(V4(192, 168), 16, ip) \/ Holds(V4(100, 64), 10, ip)
                 \/ Holds(V6(64512), 7, ip) \/ Holds(V6(65216), 10, ip)
           /\ In(LinkLocalNetworks, ip) <=>
                 Holds(V4(169, 254), 16, ip) \/ Holds(V6(65152), 10, ip)
           /\ In(LoopbackNetworks, ip) <=>
                 Holds(V4(127, 0), 8, ip) \/ Holds(LOOPBACK, 128, ip)
           /\ In(ReservedNetworks, ip) <=>
                 \/ Holds(V4(0, 0), 8, ip) \/ Holds(V4(224, 0), 4, ip)
                 \/ Holds(V4(240, 0), 4, ip)
                 \/ Holds(V6(65280), 8, ip) \/ Holds(V6(0), 96, ip)
<1>1. In(PrivateNetworks, ip) <=>
         \/ Holds(V4(10, 0), 8, ip) \/ Holds(V4(172, 16), 12, ip)
         \/ Holds(V4(192, 168), 16, ip) \/ Holds(V4(100, 64), 10, ip)
         \/ Holds(V6(64512), 7, ip) \/ Holds(V6(65216), 10, ip)
  BY DEF In, Holds, PrivateNetworks
<1>2. In(LinkLocalNetworks, ip) <=>
         Holds(V4(169, 254), 16, ip) \/ Holds(V6(65152), 10, ip)
  BY DEF In, Holds, LinkLocalNetworks
<1>3. In(LoopbackNetworks, ip) <=>
         Holds(V4(127, 0), 8, ip) \/ Holds(LOOPBACK, 128, ip)
  BY DEF In, Holds, LoopbackNetworks, LOOPBACK
<1>4. In(ReservedNetworks, ip) <=>
         \/ Holds(V4(0, 0), 8, ip) \/ Holds(V4(224, 0), 4, ip)
         \/ Holds(V4(240, 0), 4, ip)
         \/ Holds(V6(65280), 8, ip) \/ Holds(V6(0), 96, ip)
  BY DEF In, Holds, ReservedNetworks
<1> QED
  BY <1>1, <1>2, <1>3, <1>4

\* What the documented networks say of an IPv4 address.
LEMMA V4Networks ==
    ASSUME NEW ip \in V4Address
    PROVE  /\ In(PrivateNetworks, ip) <=>
                 \/ ip[1] = 10
                 \/ ip[1] = 172 /\ ip[2] \div 16 = 1
                 \/ ip[1] = 192 /\ ip[2] = 168
                 \/ ip[1] = 100 /\ ip[2] \div 64 = 1
           /\ In(LinkLocalNetworks, ip) <=> ip[1] = 169 /\ ip[2] = 254
           /\ In(LoopbackNetworks, ip) <=> ip[1] = 127
           /\ In(ReservedNetworks, ip) <=> ip[1] = 0 \/ ip[1] >= 224
<1>1. ip \in Address /\ ip \notin V6Address
  BY Families DEF Address
<1>2. ip[1] \in Octet /\ ip[2] \in Octet
  BY V4Units
<1>3. /\ Covered(4, 8) = 4 /\ Covered(4 - 8, 8) = 0 /\ Covered(8, 8) = 8 /\ Covered(8 - 8, 8) = 0
      /\ Covered(10, 8) = 8 /\ Covered(10 - 8, 8) = 2 /\ Covered(12, 8) = 8 /\ Covered(12 - 8, 8) = 4
      /\ Covered(16, 8) = 8 /\ Covered(16 - 8, 8) = 8
  BY DEF Covered
<1>4. \A a \in Octet, b \in Octet, p \in Nat :
         p <= 16 => (Holds(V4(a, b), p, ip) <=>
            /\ Unit(ip[1], 8, Covered(p, 8)) = Unit(a, 8, Covered(p, 8))
            /\ Unit(ip[2], 8, Covered(p - 8, 8)) = Unit(b, 8, Covered(p - 8, 8)))
  BY <1>1, V4Network DEF Holds
<1>5. \A a \in Octet, b \in Octet :
         /\ Holds(V4(a, 0), 8, ip) <=> ip[1] = a
         /\ Holds(V4(a, b), 16, ip) <=> ip[1] = a /\ ip[2] = b
         /\ Holds(V4(a, b), 12, ip) <=> ip[1] = a /\ Unit(ip[2], 8, 4) = Unit(b, 8, 4)
         /\ Holds(V4(a, b), 10, ip) <=> ip[1] = a /\ Unit(ip[2], 8, 2) = Unit(b, 8, 2)
         /\ Holds(V4(a, 0), 4, ip) <=> Unit(ip[1], 8, 4) = Unit(a, 8, 4)
  BY <1>2, <1>3, <1>4, Ranges, UnitEnds
<1>6. \A a \in Segment, p \in Nat : p <= 16 => ~Holds(V6(a), p, ip)
  BY <1>1, V6Network DEF Holds
<1>7. ~Holds(V6(0), 96, ip) /\ ~Holds(LOOPBACK, 128, ip)
  BY <1>1, LowNetworks DEF Holds
<1>8. /\ \A a \in {0, 10, 16, 64, 100, 127, 168, 169, 172, 192, 224, 240, 254} : a \in Octet
      /\ \A a \in {64512, 65152, 65216, 65280} : a \in Segment
  BY Ranges
<1>9. /\ Holds(V4(10, 0), 8, ip) <=> ip[1] = 10
      /\ Holds(V4(172, 16), 12, ip) <=> ip[1] = 172 /\ ip[2] \div 16 = 1
      /\ Holds(V4(192, 168), 16, ip) <=> ip[1] = 192 /\ ip[2] = 168
      /\ Holds(V4(100, 64), 10, ip) <=> ip[1] = 100 /\ ip[2] \div 64 = 1
  BY <1>2, <1>5, <1>8, V4Boundaries
<1>10. /\ Holds(V4(169, 254), 16, ip) <=> ip[1] = 169 /\ ip[2] = 254
       /\ Holds(V4(127, 0), 8, ip) <=> ip[1] = 127
       /\ Holds(V4(0, 0), 8, ip) <=> ip[1] = 0
       /\ Holds(V4(224, 0), 4, ip) <=> ip[1] >= 224 /\ ip[1] < 240
       /\ Holds(V4(240, 0), 4, ip) <=> ip[1] >= 240
  BY <1>2, <1>5, <1>8, V4Boundaries
<1>11. /\ ~Holds(V6(64512), 7, ip) /\ ~Holds(V6(65216), 10, ip)
       /\ ~Holds(V6(65152), 10, ip) /\ ~Holds(V6(65280), 8, ip)
  BY <1>6, <1>8
<1>12. ip[1] >= 224 <=> (ip[1] >= 224 /\ ip[1] < 240) \/ ip[1] >= 240
  BY <1>2, Ranges
<1> QED
  BY <1>7, <1>9, <1>10, <1>11, <1>12, NetworksListed

\* What the documented networks say of an IPv6 address.
LEMMA V6Networks ==
    ASSUME NEW ip \in V6Address
    PROVE  /\ In(PrivateNetworks, ip) <=> ip[1] \div 512 = 126 \/ ip[1] \div 64 = 1019
           /\ In(LinkLocalNetworks, ip) <=> ip[1] \div 64 = 1018
           /\ In(LoopbackNetworks, ip) <=> ip = LOOPBACK
           /\ In(ReservedNetworks, ip) <=>
                 ip[1] \div 256 = 255 \/ (\A i \in 1 .. 6 : ip[i] = 0)
<1>1. ip \in Address /\ ip \notin V4Address
  BY Families DEF Address
<1>2. ip[1] \in Segment
  BY V6Units
<1>3. Covered(7, 16) = 7 /\ Covered(8, 16) = 8 /\ Covered(10, 16) = 10
  BY DEF Covered
<1>4. \A a \in Segment, p \in Nat :
         p <= 16 => (Holds(V6(a), p, ip) <=> Unit(ip[1], 16, Covered(p, 16)) = Unit(a, 16, Covered(p, 16)))
  BY <1>1, V6Network DEF Holds
<1>5. \A a \in Octet, b \in Octet, p \in Nat : p <= 16 => ~Holds(V4(a, b), p, ip)
  BY <1>1, V4Network, Zenon DEF Holds
<1>6. /\ \A a \in {0, 10, 16, 64, 100, 127, 168, 169, 172, 192, 224, 240, 254} : a \in Octet
      /\ \A a \in {64512, 65152, 65216, 65280} : a \in Segment
  BY Ranges
<1>7. /\ Holds(V6(64512), 7, ip) <=> ip[1] \div 512 = 126
      /\ Holds(V6(65216), 10, ip) <=> ip[1] \div 64 = 1019
      /\ Holds(V6(65152), 10, ip) <=> ip[1] \div 64 = 1018
      /\ Holds(V6(65280), 8, ip) <=> ip[1] \div 256 = 255
  BY <1>2, <1>3, <1>4, <1>6, V6Boundaries
<1>8. /\ ~Holds(V4(10, 0), 8, ip) /\ ~Holds(V4(172, 16), 12, ip)
      /\ ~Holds(V4(192, 168), 16, ip) /\ ~Holds(V4(100, 64), 10, ip)
      /\ ~Holds(V4(169, 254), 16, ip) /\ ~Holds(V4(127, 0), 8, ip)
      /\ ~Holds(V4(0, 0), 8, ip) /\ ~Holds(V4(224, 0), 4, ip)
      /\ ~Holds(V4(240, 0), 4, ip)
  BY <1>5, <1>6
<1>9. /\ Holds(V6(0), 96, ip) <=> \A i \in 1 .. 6 : ip[i] = 0
      /\ Holds(LOOPBACK, 128, ip) <=> ip = LOOPBACK
  BY <1>1, LowNetworks DEF Holds
<1> QED
  BY <1>7, <1>8, <1>9, NetworksListed

\* An address that is not written as another one is in the class of its networks.
LEMMA ClassOf ==
    ASSUME NEW ip \in Address, ~IsMapped(ip), ~EmbedsV4(ip)
    PROVE  /\ classify_ip(ip) = "private" <=> In(PrivateNetworks, ip)
           /\ classify_ip(ip) = "link_local" <=> In(LinkLocalNetworks, ip)
           /\ classify_ip(ip) = "loopback" <=> In(LoopbackNetworks, ip)
           /\ classify_ip(ip) = "reserved" <=> In(ReservedNetworks, ip) /\ ~In(LoopbackNetworks, ip)
<1>1. CASE ip \in V4Address
  <2>1. classify_ip(ip) = classify_v4(ip)
    BY <1>1, V4Units DEF classify_ip, canonical_ip
  <2>2. ip[1] \in Nat /\ ip[2] \in Nat
    BY <1>1, V4Units, Ranges
  <2> QED
    BY <1>1, <2>1, <2>2, V4Networks DEF classify_v4
<1>2. CASE ip \in V6Address
  <2>1. classify_ip(ip) = classify_v6(ip)
    BY <1>2, V6Units DEF classify_ip, canonical_ip
  <2>2. ip[1] \in Nat
    BY <1>2, V6Units, Ranges
  <2>3. StartsWith(ip, <<0, 0, 0, 0, 0, 0>>) <=> \A i \in 1 .. 6 : ip[i] = 0
    <3> DEFINE z == <<0, 0, 0, 0, 0, 0>>
    <3>1. Len(z) = 6 /\ Len(z) <= Len(ip) /\ \A i \in 1 .. 6 : z[i] = 0
      <4>1. Len(ip) = 8
        BY <1>2, Families, Zenon
      <4> QED
        BY <4>1
    <3> HIDE DEF z
    <3>2. StartsWith(ip, z) <=> \A i \in 1 .. 6 : ip[i] = 0
      BY <3>1 DEF StartsWith
    <3> QED
      BY <3>2 DEF z
  <2>4. ip = LOOPBACK => \A i \in 1 .. 6 : ip[i] = 0
    BY DEF LOOPBACK
  <2>5. classify_v6(ip) =
          IF ip = LOOPBACK THEN "loopback"
          ELSE IF \A i \in 1 .. 6 : ip[i] = 0 THEN "reserved"
          ELSE IF ip[1] \div 256 = 255 THEN "reserved"
          ELSE IF ip[1] \div 512 = 126 \/ ip[1] \div 64 = 1019 THEN "private"
          ELSE IF ip[1] \div 64 = 1018 THEN "link_local"
          ELSE "public"
    BY <2>3, ZenonT(40) DEF classify_v6, LOOPBACK
  <2>6. /\ (\A i \in 1 .. 6 : ip[i] = 0) => ip[1] = 0
        /\ ip[1] = 0 => ip[1] \div 256 # 255 /\ ip[1] \div 512 # 126
                           /\ ip[1] \div 64 # 1019 /\ ip[1] \div 64 # 1018
        /\ ip[1] \div 256 = 255 => ip[1] \div 512 # 126 /\ ip[1] \div 64 # 1019 /\ ip[1] \div 64 # 1018
        /\ ip[1] \div 64 = 1018 => ip[1] \div 512 # 126 /\ ip[1] \div 64 # 1019
    BY <2>2
  <2> DEFINE zeros == \A i \in 1 .. 6 : ip[i] = 0
             multicast == ip[1] \div 256 = 255
             unique == ip[1] \div 512 = 126 \/ ip[1] \div 64 = 1019
             local == ip[1] \div 64 = 1018
  <2>7. /\ In(PrivateNetworks, ip) <=> unique
        /\ In(LinkLocalNetworks, ip) <=> local
        /\ In(LoopbackNetworks, ip) <=> ip = LOOPBACK
        /\ In(ReservedNetworks, ip) <=> multicast \/ zeros
    BY <1>2, V6Networks
  <2>8. /\ ip = LOOPBACK => zeros
        /\ zeros => ~multicast /\ ~unique /\ ~local
        /\ multicast => ~unique /\ ~local
        /\ local => ~unique
    BY <2>4, <2>6
  <2>9. classify_ip(ip) =
          IF ip = LOOPBACK THEN "loopback"
          ELSE IF zeros THEN "reserved"
          ELSE IF multicast THEN "reserved"
          ELSE IF unique THEN "private"
          ELSE IF local THEN "link_local"
          ELSE "public"
    BY <2>1, <2>5
  <2> HIDE DEF zeros, multicast, unique, local
  <2> QED
    BY <2>7, <2>8, <2>9
<1> QED
  BY <1>1, <1>2 DEF Address

\* The segments of an IPv4 address, and the address back from them.
LEMMA OctetsOfSegments ==
    ASSUME NEW ip \in V4Address
    PROVE  /\ Segments(ip) \in Seq(Segment) /\ Len(Segments(ip)) = 2
           /\ Octets(Segments(ip)[1], Segments(ip)[2]) = ip
<1>1. /\ ip \in Seq(Octet) /\ Len(ip) = 4
      /\ ip[1] \in Nat /\ ip[1] < 256 /\ ip[2] \in Nat /\ ip[2] < 256
      /\ ip[3] \in Nat /\ ip[3] < 256 /\ ip[4] \in Nat /\ ip[4] < 256
  BY V4Units, Ranges
<1> DEFINE high == ip[1] * 256 + ip[2]
           low == ip[3] * 256 + ip[4]
<1>2. high \in Segment /\ low \in Segment
  <2>1. \A a, b \in Nat : a < 256 /\ b < 256 => a * 256 + b \in Nat /\ a * 256 + b < 65536
    OBVIOUS
  <2>2. high \in Nat /\ high < 65536 /\ low \in Nat /\ low < 65536
    BY <1>1, <2>1
  <2> QED
    BY <2>2, Ranges
<1>3. Segments(ip) = <<high, low>>
  BY DEF Segments
<1>4. /\ high \div 256 = ip[1] /\ high % 256 = ip[2]
      /\ low \div 256 = ip[3] /\ low % 256 = ip[4]
  <2>1. \A a, b, n \in Nat : b < 256 /\ n = a * 256 + b => n \div 256 = a /\ n % 256 = b
    OBVIOUS
  <2>2. ip[1] \in Nat /\ ip[2] \in Nat /\ ip[2] < 256 /\ high \in Nat /\ high = ip[1] * 256 + ip[2]
    BY <1>1
  <2>3. ip[3] \in Nat /\ ip[4] \in Nat /\ ip[4] < 256 /\ low \in Nat /\ low = ip[3] * 256 + ip[4]
    BY <1>1
  <2> HIDE DEF high, low
  <2>4. high \div 256 = ip[1] /\ high % 256 = ip[2]
    BY <2>1, <2>2
  <2>5. low \div 256 = ip[3] /\ low % 256 = ip[4]
    BY <2>1, <2>3
  <2> QED
    BY <2>4, <2>5
<1>5. Octets(high, low) = <<ip[1], ip[2], ip[3], ip[4]>>
  BY <1>4, Zenon DEF Octets
<1>6. <<ip[1], ip[2], ip[3], ip[4]>> = ip
  BY <1>1
<1> HIDE DEF high, low
<1> QED
  BY <1>2, <1>3, <1>5, <1>6

\* Two sequences joined.
LEMMA SegmentsJoined ==
    \A s, t \in Seq(Segment) :
        /\ s \o t \in Seq(Segment) /\ Len(s \o t) = Len(s) + Len(t)
        /\ \A i \in 1 .. Len(s) : (s \o t)[i] = s[i]
        /\ \A i \in 1 .. Len(t) : (s \o t)[Len(s) + i] = t[i]
OBVIOUS

\* The three ways to write an IPv4 address as an IPv6 one.
LEMMA OctetsWritten ==
    ASSUME NEW ip \in V4Address
    PROVE  /\ LET m == Mapped(ip) IN
              m \in V6Address /\ IsMapped(m) /\ canonical_ip(m) = ip
           /\ LET n == Nat64Prefix \o Segments(ip) IN
              /\ n \in V6Address /\ ~IsMapped(n)
              /\ StartsWith(n, Nat64Prefix) /\ Octets(n[7], n[8]) = ip
           /\ LET t == SixToFourPrefix \o Segments(ip) \o <<0, 0, 0, 0, 1>> IN
              /\ t \in V6Address /\ ~IsMapped(t) /\ ~StartsWith(t, Nat64Prefix)
              /\ StartsWith(t, SixToFourPrefix) /\ Octets(t[2], t[3]) = ip
<1> DEFINE s == Segments(ip)
<1>1. s \in Seq(Segment) /\ Len(s) = 2 /\ Octets(s[1], s[2]) = ip
  BY OctetsOfSegments
<1>2. 0 \in Segment /\ 1 \in Segment /\ 100 \in Segment /\ 8194 \in Segment /\ 65435 \in Segment /\ 65535 \in Segment
  BY Ranges
<1> HIDE DEF s
<1>3. ASSUME NEW p \in Seq(Segment), Len(p) = 6
      PROVE  /\ p \o s \in V6Address /\ StartsWith(p \o s, p)
             /\ \A i \in 1 .. 6 : (p \o s)[i] = p[i]
             /\ Octets((p \o s)[7], (p \o s)[8]) = ip
  <2> DEFINE j == p \o s
  <2>1. /\ j \in Seq(Segment) /\ Len(j) = Len(p) + Len(s)
        /\ \A i \in 1 .. Len(p) : j[i] = p[i]
        /\ \A i \in 1 .. Len(s) : j[Len(p) + i] = s[i]
    <3>1. p \in Seq(Segment) /\ s \in Seq(Segment)
      BY <1>1
    <3> QED
      BY <3>1, SegmentsJoined
  <2> HIDE DEF j
  <2>2. Len(j) = 8 /\ (\A i \in 1 .. 6 : j[i] = p[i]) /\ j[7] = s[1] /\ j[8] = s[2]
    BY <1>1, <1>3, <2>1
  <2>3. j \in V6Address
    BY <2>1, <2>2 DEF V6Address
  <2>4. StartsWith(j, p)
    BY <1>3, <2>2 DEF StartsWith
  <2> QED
    BY <1>1, <2>2, <2>3, <2>4 DEF j
<1>4. LET m == Mapped(ip) IN m \in V6Address /\ IsMapped(m) /\ canonical_ip(m) = ip
  <2>1. MappedPrefix \in Seq(Segment) /\ Len(MappedPrefix) = 6
    BY <1>2 DEF MappedPrefix
  <2>2. Mapped(ip) = MappedPrefix \o s
    BY DEF Mapped, s
  <2>3. /\ Mapped(ip) \in V6Address /\ StartsWith(Mapped(ip), MappedPrefix)
        /\ Octets(Mapped(ip)[7], Mapped(ip)[8]) = ip
    BY <2>1, <2>2, <1>3, Zenon
  <2>4. IsV6(Mapped(ip))
    BY <2>3, V6Units
  <2> QED
    BY <2>3, <2>4, Zenon DEF IsMapped, canonical_ip
<1>5. LET n == Nat64Prefix \o Segments(ip) IN
      /\ n \in V6Address /\ ~IsMapped(n)
      /\ StartsWith(n, Nat64Prefix) /\ Octets(n[7], n[8]) = ip
  <2>1. Nat64Prefix \in Seq(Segment) /\ Len(Nat64Prefix) = 6 /\ Nat64Prefix[1] = 100
    BY <1>2 DEF Nat64Prefix
  <2> DEFINE n == Nat64Prefix \o s
  <2>2. n \in V6Address /\ StartsWith(n, Nat64Prefix) /\ n[1] = 100 /\ Octets(n[7], n[8]) = ip
    <3>1. /\ n \in V6Address /\ StartsWith(n, Nat64Prefix) /\ Octets(n[7], n[8]) = ip
          /\ \A i \in 1 .. 6 : n[i] = Nat64Prefix[i]
      BY <2>1, <1>3, Zenon
    <3> HIDE DEF n
    <3> QED
      BY <2>1, <3>1
  <2>3. ~IsMapped(n)
    <3>1. Len(MappedPrefix) = 6 /\ MappedPrefix[1] = 0
      BY DEF MappedPrefix
    <3> QED
      BY <2>2, <3>1 DEF IsMapped, StartsWith
  <2> QED
    BY <2>2, <2>3 DEF s
<1>6. LET t == SixToFourPrefix \o Segments(ip) \o <<0, 0, 0, 0, 1>> IN
      /\ t \in V6Address /\ ~IsMapped(t) /\ ~StartsWith(t, Nat64Prefix)
      /\ StartsWith(t, SixToFourPrefix) /\ Octets(t[2], t[3]) = ip
  <2> DEFINE p == SixToFourPrefix
             r == <<0, 0, 0, 0, 1>>
             t == p \o s \o r
  <2>1. p \in Seq(Segment) /\ Len(p) = 1 /\ p[1] = 8194 /\ r \in Seq(Segment) /\ Len(r) = 5
    BY <1>2 DEF SixToFourPrefix
  <2> HIDE DEF p, r
  <2> DEFINE q == p \o s
  <2>2. q \in Seq(Segment) /\ Len(q) = 3 /\ q[1] = 8194 /\ q[2] = s[1] /\ q[3] = s[2]
    <3>1. /\ q \in Seq(Segment) /\ Len(q) = Len(p) + Len(s)
          /\ \A i \in 1 .. Len(p) : q[i] = p[i]
          /\ \A i \in 1 .. Len(s) : q[Len(p) + i] = s[i]
      <4>1. p \in Seq(Segment) /\ s \in Seq(Segment)
        BY <1>1, <2>1
      <4> QED
        BY <4>1, SegmentsJoined
    <3> HIDE DEF q
    <3> QED
      BY <1>1, <2>1, <3>1
  <2> HIDE DEF q
  <2>3. /\ t \in Seq(Segment) /\ Len(t) = 8
        /\ t[1] = 8194 /\ t[2] = s[1] /\ t[3] = s[2]
    <3>1. t = q \o r
      BY DEF q
    <3>2. /\ q \o r \in Seq(Segment) /\ Len(q \o r) = Len(q) + Len(r)
          /\ \A i \in 1 .. Len(q) : (q \o r)[i] = q[i]
      <4>1. q \in Seq(Segment) /\ r \in Seq(Segment)
        BY <2>1, <2>2
      <4> QED
        BY <4>1, SegmentsJoined
    <3> HIDE DEF t
    <3> QED
      BY <2>1, <2>2, <3>1, <3>2
  <2> HIDE DEF t
  <2>4. ~IsMapped(t)
    <3>1. Len(MappedPrefix) = 6 /\ MappedPrefix[1] = 0
      BY DEF MappedPrefix
    <3> QED
      BY <2>3, <3>1 DEF IsMapped, StartsWith
  <2>5. StartsWith(t, p) /\ ~StartsWith(t, Nat64Prefix)
    <3>1. Len(Nat64Prefix) = 6 /\ Nat64Prefix[1] = 100
      BY DEF Nat64Prefix
    <3> QED
      BY <2>1, <2>3, <3>1 DEF StartsWith
  <2>6. t \in V6Address /\ Octets(t[2], t[3]) = ip
    BY <1>1, <2>3 DEF V6Address
  <2> QED
    BY <2>4, <2>5, <2>6 DEF t, p, r, s
<1> QED
  BY <1>4, <1>5, <1>6

\* NAT64 and 6to4 addresses are judged by the host they reach.
LEMMA EmbeddedClass ==
    ASSUME NEW ip \in V6Address, ~IsMapped(ip), EmbedsV4(ip)
    PROVE  classify_ip(ip) = classify_v4(embedded_ipv4(ip))
<1>1. classify_ip(ip) = classify_v6(ip)
  BY V6Units DEF classify_ip, canonical_ip
<1>2. ip[1] # 0
  <2>1. Len(Nat64Prefix) = 6 /\ Nat64Prefix[1] = 100 /\ Len(SixToFourPrefix) = 1 /\ SixToFourPrefix[1] = 8194
    BY DEF Nat64Prefix, SixToFourPrefix
  <2> QED
    BY <2>1 DEF EmbedsV4, StartsWith
<1>3. ip # <<0, 0, 0, 0, 0, 0, 0, 1>>
  BY <1>2
<1>4. ~StartsWith(ip, <<0, 0, 0, 0, 0, 0>>)
  BY <1>2 DEF StartsWith
<1> QED
  BY <1>1, <1>3, <1>4, Zenon DEF classify_v6

\* classify_ip, octet tests and all, agrees with the documented networks for
\* every address, and judges an IPv4 host alike however it is written.
THEOREM ClassIsExact ==
    ASSUME question.ip \in Address
    PROVE  ClassMatchesNetworks
<1> DEFINE ip == question.ip
<1>1. ~IsMapped(ip) /\ ~EmbedsV4(ip) =>
         /\ classify_ip(ip) = "private" <=> In(PrivateNetworks, ip)
         /\ classify_ip(ip) = "link_local" <=> In(LinkLocalNetworks, ip)
         /\ classify_ip(ip) = "loopback" <=> In(LoopbackNetworks, ip)
         /\ classify_ip(ip) = "reserved" <=> In(ReservedNetworks, ip) /\ ~In(LoopbackNetworks, ip)
  BY ClassOf, Zenon
<1>2. ASSUME IsV4(ip), NEW other \in Spellings(ip)
      PROVE  classify_ip(other) = classify_ip(ip)
  <2>1. ip \in V4Address
    BY <1>2, V6Units DEF Address
  <2>2. classify_ip(ip) = classify_v4(ip)
    BY <2>1, V4Units DEF classify_ip, canonical_ip, IsMapped
  <2>3. CASE other = Mapped(ip)
    BY <2>1, <2>2, <2>3, OctetsWritten, V4Units DEF classify_ip
  <2>4. CASE other = Nat64Prefix \o Segments(ip)
    <3>1. /\ other \in V6Address /\ ~IsMapped(other)
          /\ StartsWith(other, Nat64Prefix) /\ Octets(other[7], other[8]) = ip
      BY <2>1, <2>4, OctetsWritten, Zenon
    <3>2. EmbedsV4(other) /\ embedded_ipv4(other) = ip
      BY <3>1, Zenon DEF EmbedsV4, embedded_ipv4
    <3> QED
      BY <2>2, <3>1, <3>2, EmbeddedClass
  <2>5. CASE other = SixToFourPrefix \o Segments(ip) \o <<0, 0, 0, 0, 1>>
    <3>1. /\ other \in V6Address /\ ~IsMapped(other) /\ ~StartsWith(other, Nat64Prefix)
          /\ StartsWith(other, SixToFourPrefix) /\ Octets(other[2], other[3]) = ip
      BY <2>1, <2>5, OctetsWritten, Zenon
    <3>2. EmbedsV4(other) /\ embedded_ipv4(other) = ip
      BY <3>1, Zenon DEF EmbedsV4, embedded_ipv4
    <3> QED
      BY <2>2, <3>1, <3>2, EmbeddedClass
  <2> QED
    BY <1>2, <2>3, <2>4, <2>5, Zenon DEF Spellings
<1> QED
  BY <1>1, <1>2, Zenon DEF ClassMatchesNetworks

\* Two segments hold an IPv4 address.
LEMMA OctetsAreAddress ==
    ASSUME NEW high \in Segment, NEW low \in Segment
    PROVE  Octets(high, low) \in V4Address
<1>1. high \in Nat /\ high < 65536 /\ low \in Nat /\ low < 65536
  BY Ranges
<1>2. /\ high \div 256 \in Nat /\ high \div 256 < 256 /\ high % 256 \in Nat /\ high % 256 < 256
      /\ low \div 256 \in Nat /\ low \div 256 < 256 /\ low % 256 \in Nat /\ low % 256 < 256
  BY <1>1
<1>3. high \div 256 \in Octet /\ high % 256 \in Octet /\ low \div 256 \in Octet /\ low % 256 \in Octet
  BY <1>2, Ranges
<1>4. ASSUME NEW a \in Octet, NEW b \in Octet, NEW c \in Octet, NEW d \in Octet
      PROVE  <<a, b, c, d>> \in V4Address
  BY DEF V4Address
<1> QED
  BY <1>3, <1>4 DEF Octets

\* Neither an IPv4 address nor what remains of a mapped one is mapped or
\* embeds another.
LEMMA V4IsPlain ==
    ASSUME NEW ip \in V4Address
    PROVE  ~IsMapped(ip) /\ ~EmbedsV4(ip) /\ canonical_ip(ip) = ip /\ classify_ip(ip) = classify_v4(ip)
<1>1. ~IsMapped(ip)
  BY V4Units DEF IsMapped
<1>2. /\ Len(Nat64Prefix) = 6 /\ Len(SixToFourPrefix) = 1 /\ SixToFourPrefix[1] = 8194
  BY DEF Nat64Prefix, SixToFourPrefix
<1>3. ~EmbedsV4(ip)
  <2>1. Len(ip) = 4 /\ ip[1] \in Nat /\ ip[1] < 256
    BY V4Units, Ranges
  <2> QED
    BY <1>2, <2>1 DEF EmbedsV4, StartsWith
<1> QED
  BY <1>1, <1>3, V4Units DEF canonical_ip, classify_ip

\* The address that a destination is judged by: of its family, plain, and of
\* the class that classify_ip gives to the destination.
Canonical(ip) == canonical_ip(ip)
Host(ip) == IF EmbedsV4(Canonical(ip)) THEN embedded_ipv4(Canonical(ip)) ELSE Canonical(ip)

\* A destination has the class of its host.
LEMMA JudgedByHost ==
    ASSUME NEW ip \in Address
    PROVE  /\ Host(ip) \in Address /\ ~IsMapped(Host(ip)) /\ ~EmbedsV4(Host(ip))
           /\ classify_ip(Host(ip)) = classify_ip(ip)
<1>1. CASE IsMapped(ip)
  <2>1. ip \in V6Address
    BY <1>1, V4IsPlain DEF Address
  <2>2. ip[7] \in Segment /\ ip[8] \in Segment
    BY <2>1, V6Units
  <2>3. Canonical(ip) = Octets(ip[7], ip[8]) /\ Canonical(ip) \in V4Address
    BY <1>1, <2>2, OctetsAreAddress DEF Canonical, canonical_ip
  <2>4. Host(ip) = Canonical(ip)
    BY <2>3, V4IsPlain DEF Host
  <2>5. classify_ip(ip) = classify_v4(Canonical(ip))
    BY <2>3, V4Units DEF classify_ip, Canonical
  <2> QED
    BY <2>3, <2>4, <2>5, V4IsPlain DEF Address
<1>2. CASE ~IsMapped(ip) /\ EmbedsV4(ip)
  <2>1. ip \in V6Address
    BY <1>2, V4IsPlain DEF Address
  <2>2. Canonical(ip) = ip /\ Host(ip) = embedded_ipv4(ip)
    BY <1>2 DEF Canonical, Host, canonical_ip
  <2>3. ip[2] \in Segment /\ ip[3] \in Segment /\ ip[7] \in Segment /\ ip[8] \in Segment
    BY <2>1, V6Units
  <2>4. Host(ip) \in V4Address
    BY <2>2, <2>3, OctetsAreAddress DEF embedded_ipv4
  <2>5. classify_ip(ip) = classify_v4(Host(ip))
    BY <1>2, <2>1, <2>2, EmbeddedClass
  <2> QED
    BY <2>4, <2>5, V4IsPlain DEF Address
<1>3. CASE ~IsMapped(ip) /\ ~EmbedsV4(ip)
  BY <1>3 DEF Host, Canonical, canonical_ip
<1> QED
  BY <1>1, <1>2, <1>3

\* There are five classes.
LEMMA Classes ==
    ASSUME NEW ip
    PROVE  classify_ip(ip) \in {"public", "private", "link_local", "loopback", "reserved"}
<1>1. \A a : classify_v4(a) \in {"public", "private", "link_local", "loopback", "reserved"}
  BY DEF classify_v4
<1> QED
  BY <1>1 DEF classify_ip, classify_v6

\* DestinationPolicy::check follows the documented table for every policy,
\* address and port.
THEOREM CheckIsExact ==
    ASSUME question.addr.ip \in Address
    PROVE  CheckMatchesTable
<1> DEFINE policy == question.policy
           addr == question.addr
           port == addr.port
           host == Host(addr.ip)
           class == classify_ip(addr.ip)
           listed == is_whitelisted(policy, addr)
           blocked == port = 0 \/ port \in policy.blocked_ports
           loopback == In(LoopbackNetworks, host)
           local == In(LinkLocalNetworks, host)
           private == In(PrivateNetworks, host)
           reserved == In(ReservedNetworks, host)
           table == ~blocked /\ IF loopback \/ local THEN listed
                                ELSE IF private THEN policy.allow_internal \/ listed
                                ELSE ~reserved
<1>1. /\ class = "private" <=> private
      /\ class = "link_local" <=> local
      /\ class = "loopback" <=> loopback
      /\ class = "reserved" <=> reserved /\ ~loopback
      /\ class \in {"public", "private", "link_local", "loopback", "reserved"}
  BY JudgedByHost, ClassOf, Classes
<1>2. check(policy, addr) =
        IF blocked THEN "blocked_port"
        ELSE IF class = "public" THEN "allowed"
        ELSE IF class = "reserved" THEN "reserved_address"
        ELSE IF class = "private" /\ policy.allow_internal THEN "allowed"
        ELSE IF listed THEN "allowed"
        ELSE "internal_address"
  BY Zenon DEF check
<1>3. SUFFICES check(policy, addr) = "allowed" <=> table
  <2>1. listed <=> \E entry \in policy.internal_whitelist :
                      cidr_contains(entry.network, Canonical(addr.ip)) /\ port \in entry.ports
    BY Zenon DEF is_whitelisted, matches, Canonical
  <2>2. In(LoopbackNetworks \cup LinkLocalNetworks, host) <=> loopback \/ local
    BY Zenon DEF In
  <2>3. blocked <=> ~(port \notin {0} \cup policy.blocked_ports)
    BY Zenon
  <2> QED
    BY <2>1, <2>2, <2>3, Zenon DEF CheckMatchesTable, Host, Canonical
<1> HIDE DEF blocked, class, listed, loopback, local, private, reserved
<1> QED
  BY <1>1, <1>2

-----------------------------------------------------------------------------
(* Prefixes, bit by bit.                                                   *)

\* Every set of numbers has a least one.
LEMMA Least ==
    ASSUME NEW T, T \subseteq Nat, T # {}
    PROVE  \E m \in T : \A k \in T : m <= k
<1> DEFINE R == {ss \in Nat \X Nat : ss[1] < ss[2]}
<1>1. IsWellFoundedOn(R, Nat)
  BY NatLessThanWellFounded DEF OpToRel
<1> HIDE DEF R
<1>2. PICK m \in T : \A k \in T : <<k, m>> \notin R
  BY <1>1, WFMin, Zenon
<1>3. ASSUME NEW k \in T PROVE m <= k
  <2>1. k \in Nat /\ m \in Nat /\ <<k, m>> \notin R
    BY <1>2
  <2>2. <<k, m>> \in Nat \X Nat /\ <<k, m>>[1] = k /\ <<k, m>>[2] = m
    BY <2>1
  <2>3. ~(k < m)
    BY <2>1, <2>2, Zenon DEF R
  <2> QED
    BY <2>1, <2>3
<1> QED
  BY <1>3

\* The powers of two up to a segment.
Pow2(k) == 2^k

\* Their values.
LEMMA Powers ==
    /\ Pow2(0) = 1 /\ Pow2(1) = 2 /\ Pow2(2) = 4 /\ Pow2(3) = 8 /\ Pow2(4) = 16
    /\ Pow2(5) = 32 /\ Pow2(6) = 64 /\ Pow2(7) = 128 /\ Pow2(8) = 256 /\ Pow2(9) = 512
    /\ Pow2(10) = 1024 /\ Pow2(11) = 2048 /\ Pow2(12) = 4096 /\ Pow2(13) = 8192
    /\ Pow2(14) = 16384 /\ Pow2(15) = 32768 /\ Pow2(16) = 65536
BY DEF Pow2

\* Each is twice the one before.
LEMMA Doubling ==
    ASSUME NEW m \in Nat, m <= 16
    PROVE  2^m \in Nat /\ 2^m > 0 /\ (m < 16 => 2^(m + 1) = 2 * 2^m)
<1>1. \/ m = 0 \/ m = 1 \/ m = 2 \/ m = 3 \/ m = 4 \/ m = 5 \/ m = 6 \/ m = 7 \/ m = 8
      \/ m = 9 \/ m = 10 \/ m = 11 \/ m = 12 \/ m = 13 \/ m = 14 \/ m = 15 \/ m = 16
  OBVIOUS
<1>2. Pow2(m) \in Nat /\ Pow2(m) > 0 /\ (m < 16 => Pow2(m + 1) = 2 * Pow2(m))
  BY <1>1, Powers
<1> QED
  BY <1>2 DEF Pow2

\* One bit less is half as much.
LEMMA Halving ==
    ASSUME NEW m \in Nat, m < 16, NEW x \in Nat
    PROVE  x \div 2^m \in Nat /\ x \div 2^(m + 1) = (x \div 2^m) \div 2
<1>1. ASSUME NEW d \in Nat, d > 0
      PROVE  x \div d \in Nat /\ x \div (2 * d) = (x \div d) \div 2
  BY <1>1
<1>2. 2^m \in Nat /\ 2^m > 0 /\ 2^(m + 1) = 2 * 2^m
  BY Doubling
<1> QED
  BY <1>1, <1>2, Zenon

\* What is left after a mask is what is left after a shift.
LEMMA SameHead ==
    ASSUME NEW m \in Nat, m <= 16, NEW x \in Nat, NEW y \in Nat
    PROVE  x - (x % 2^m) = y - (y % 2^m) <=> x \div 2^m = y \div 2^m
<1>1. ASSUME NEW d \in Nat, d > 0
      PROVE  x - (x % d) = y - (y % d) <=> x \div d = y \div d
  BY <1>1
<1> QED
  BY <1>1, Doubling

BitsAgree(x, y, w, c) == \A j \in 1 .. c : (x \div 2^(w - j)) % 2 = (y \div 2^(w - j)) % 2

\* Two units agree under a mask of c bits if and only if their first c bits are
\* the same.
LEMMA BitsOfUnit ==
    ASSUME NEW w \in {8, 16}, NEW x \in Nat, NEW y \in Nat, x < 2^w, y < 2^w,
           NEW c \in Nat, c <= w
    PROVE  Unit(x, w, c) = Unit(y, w, c) <=> BitsAgree(x, y, w, c)
<1> DEFINE Top(k) == x \div 2^(w - k) = y \div 2^(w - k)
           Same(j) == (x \div 2^(w - j)) % 2 = (y \div 2^(w - j)) % 2
           Claim(k) == Top(k) <=> \A j \in 1 .. k : Same(j)
<1>1. Top(0)
  <2>1. w = 8 \/ w = 16
    OBVIOUS
  <2>2. \A z \in Nat : /\ z < 256 => z \div 256 = 0
                       /\ z < 65536 => z \div 65536 = 0
    OBVIOUS
  <2>3. x \div 2^w = 0 /\ y \div 2^w = 0
    BY <2>1, <2>2, Powers DEF Pow2
  <2>4. w - 0 = w
    OBVIOUS
  <2> QED
    BY <2>3, <2>4
<1>2. ASSUME NEW k \in Nat, k < w PROVE Top(k + 1) <=> Top(k) /\ Same(k + 1)
  <2> DEFINE m == w - (k + 1)
             p == x \div 2^m
             q == y \div 2^m
  <2>1. m \in Nat /\ m < 16 /\ w - k = m + 1
    BY <1>2
  <2> HIDE DEF m
  <2>2. p \in Nat /\ q \in Nat /\ x \div 2^(w - k) = p \div 2 /\ y \div 2^(w - k) = q \div 2
    BY <2>1, Halving
  <2> HIDE DEF p, q
  <2>3. p = q <=> p \div 2 = q \div 2 /\ p % 2 = q % 2
    BY <2>2
  <2> QED
    BY <2>2, <2>3 DEF p, q, m
<1> HIDE DEF Top, Same
<1>3. ASSUME NEW k \in Nat, k <= w PROVE Claim(k)
  <2> DEFINE T == {n \in 0 .. w : ~Claim(n)}
  <2>1. ASSUME T # {} PROVE FALSE
    <3>1. T \subseteq Nat
      OBVIOUS
    <3>2. PICK n \in T : \A i \in T : n <= i
      BY <2>1, <3>1, Least, Zenon
    <3>3. n \in Nat /\ n <= w /\ ~Claim(n)
      OBVIOUS
    <3>4. n # 0
      BY <1>1, <3>3
    <3>5. n - 1 \in Nat /\ n - 1 < w /\ n - 1 \in 0 .. w /\ (n - 1) + 1 = n /\ ~(n <= n - 1)
      BY <3>3, <3>4
    <3>6. Claim(n - 1)
      BY <3>2, <3>5, Zenon
    <3>7. Top(n) <=> Top(n - 1) /\ Same(n)
      BY <1>2, <3>5
    <3>8. (\A j \in 1 .. n : Same(j)) <=> (\A j \in 1 .. n - 1 : Same(j)) /\ Same(n)
      BY <3>3, <3>4
    <3> QED
      BY <3>3, <3>6, <3>7, <3>8
  <2>2. k \in 0 .. w
    BY <1>3
  <2> QED
    BY <2>1, <2>2, Zenon
<1>4. Unit(x, w, c) = Unit(y, w, c) <=> Top(c)
  <2>1. w - c \in Nat /\ w - c <= 16
    OBVIOUS
  <2> QED
    BY <2>1, SameHead DEF Unit, Top
<1>5. Claim(c)
  BY <1>3
<1> QED
  BY <1>4, <1>5 DEF BitsAgree, Same

\* Where a bit of an address is.
LEMMA BitAt ==
    ASSUME NEW a \in Address, NEW u \in 1 .. Len(a), NEW j \in 1 .. UnitBits(a)
    PROVE  Bit(a, (u - 1) * UnitBits(a) + j) = (a[u] \div 2^(UnitBits(a) - j)) % 2
<1> DEFINE w == UnitBits(a)
           i == (u - 1) * w + j
<1>1. w = 8 \/ w = 16
  BY DEF UnitBits
<1>2. u \in Nat /\ u >= 1 /\ j \in Nat /\ 1 <= j /\ j <= w
  BY <1>1
<1> HIDE DEF w
<1>3. (i - 1) \div w = u - 1 /\ (i - 1) % w = j - 1
  <2>1. CASE w = 8
    BY <1>2, <2>1
  <2>2. CASE w = 16
    BY <1>2, <2>2
  <2> QED
    BY <1>1, <2>1, <2>2
<1> HIDE DEF i
<1>4. ((i - 1) \div w) + 1 = u /\ w - 1 - ((i - 1) % w) = w - j
  <2>1. w \in Nat
    BY <1>1
  <2>2. (u - 1) + 1 = u /\ w - 1 - (j - 1) = w - j
    BY <1>2, <2>1
  <2> QED
    BY <1>3, <2>2, Zenon
<1>5. Bit(a, i) = (a[u] \div 2^(w - j)) % 2
  BY <1>4, Zenon DEF Bit, w
<1> QED
  BY <1>5, Zenon DEF i, w

\* The same for an IPv6 address.
LEMMA V6BitAt ==
    ASSUME NEW a \in V6Address, NEW u \in 1 .. 8, NEW j \in 1 .. 16
    PROVE  Bit(a, (u - 1) * 16 + j) = (a[u] \div 2^(16 - j)) % 2
<1>1. Len(a) = 8 /\ UnitBits(a) = 16 /\ a \in Address
  BY V6Units DEF Address
<1>2. u \in 1 .. Len(a) /\ j \in 1 .. UnitBits(a)
  BY <1>1
<1>3. Bit(a, (u - 1) * UnitBits(a) + j) = (a[u] \div 2^(UnitBits(a) - j)) % 2
  BY <1>1, <1>2, BitAt, Zenon
<1> QED
  BY <1>1, <1>3

\* A bit of an address is in one of its units.
LEMMA BitIsIn ==
    ASSUME NEW a \in Address, NEW i \in Nat, 1 <= i, i <= AddressBits(a)
    PROVE  \E u \in 1 .. Len(a), j \in 1 .. UnitBits(a) : i = (u - 1) * UnitBits(a) + j
<1>1. CASE a \in V4Address
  <2>1. Len(a) = 4 /\ UnitBits(a) = 8 /\ AddressBits(a) = 32
    BY <1>1, V4Units DEF AddressBits
  <2>2. /\ ((i - 1) \div 8) + 1 \in 1 .. 4 /\ ((i - 1) % 8) + 1 \in 1 .. 8
        /\ i = ((((i - 1) \div 8) + 1) - 1) * 8 + (((i - 1) % 8) + 1)
    BY <2>1
  <2> QED
    BY <2>1, <2>2
<1>2. CASE a \in V6Address
  <2>1. Len(a) = 8 /\ UnitBits(a) = 16 /\ AddressBits(a) = 128
    BY <1>2, V6Units DEF AddressBits
  <2>2. /\ ((i - 1) \div 16) + 1 \in 1 .. 8 /\ ((i - 1) % 16) + 1 \in 1 .. 16
        /\ i = ((((i - 1) \div 16) + 1) - 1) * 16 + (((i - 1) % 16) + 1)
    BY <2>1
  <2> QED
    BY <2>1, <2>2
<1> QED
  BY <1>1, <1>2 DEF Address

\* The bits that a prefix covers, unit by unit.
LEMMA AgreeUnits ==
    ASSUME NEW a \in Address, NEW b \in Address, Len(a) = Len(b),
           NEW p \in Nat, p <= AddressBits(a)
    PROVE  AgreeOn(a, b, p) <=>
              \A u \in 1 .. Len(a) : BitsAgree(a[u], b[u], UnitBits(a), CoveredBits(a, u, p))
<1> DEFINE w == UnitBits(a)
           C(u) == CoveredBits(a, u, p)
           Place(u, j) == (u - 1) * w + j
           Equal(u, j) == (a[u] \div 2^(w - j)) % 2 = (b[u] \div 2^(w - j)) % 2
<1>1. (w = 8 \/ w = 16) /\ UnitBits(b) = w
  BY DEF UnitBits, IsV4
<1>2. ASSUME NEW u \in 1 .. Len(a), NEW j \in 1 .. w
      PROVE  /\ Bit(a, Place(u, j)) = Bit(b, Place(u, j)) <=> Equal(u, j)
             /\ j <= C(u) <=> Place(u, j) <= p
             /\ Place(u, j) \in Nat /\ 1 <= Place(u, j)
  <2>1. Bit(a, Place(u, j)) = (a[u] \div 2^(w - j)) % 2 /\ Bit(b, Place(u, j)) = (b[u] \div 2^(w - j)) % 2
    BY <1>1, BitAt
  <2>2. u \in Nat /\ u >= 1 /\ j \in Nat /\ 1 <= j /\ j <= w
    BY <1>1
  <2>3. (j <= C(u) <=> Place(u, j) <= p) /\ Place(u, j) \in Nat /\ 1 <= Place(u, j)
    <3> HIDE DEF w
    <3>1. C(u) = IF p - (u - 1) * w <= 0 THEN 0 ELSE IF p - (u - 1) * w >= w THEN w ELSE p - (u - 1) * w
      BY DEF CoveredBits, w
    <3>2. CASE w = 8
      BY <2>2, <3>1, <3>2
    <3>3. CASE w = 16
      BY <2>2, <3>1, <3>3
    <3> QED
      BY <1>1, <3>2, <3>3
  <2> QED
    BY <2>1, <2>3
<1>3. ASSUME NEW u \in 1 .. Len(a) PROVE C(u) \in Nat /\ C(u) <= w
  BY <1>1 DEF CoveredBits
<1>4. AgreeOn(a, b, p) <=> \A u \in 1 .. Len(a), j \in 1 .. w : Place(u, j) <= p => Equal(u, j)
  <2>1. ASSUME AgreeOn(a, b, p), NEW u \in 1 .. Len(a), NEW j \in 1 .. w, Place(u, j) <= p
        PROVE  Equal(u, j)
    <3>1. Place(u, j) \in 1 .. p
      BY <1>2, <2>1
    <3>2. Bit(a, Place(u, j)) = Bit(b, Place(u, j))
      BY <2>1, <3>1, Zenon DEF AgreeOn
    <3> QED
      BY <1>2, <3>2, Zenon
  <2>2. ASSUME \A u \in 1 .. Len(a), j \in 1 .. w : Place(u, j) <= p => Equal(u, j),
               NEW i \in 1 .. p
        PROVE  Bit(a, i) = Bit(b, i)
    <3>1. i \in Nat /\ 1 <= i /\ i <= p /\ i <= AddressBits(a)
      <4>1. AddressBits(a) \in Nat
        BY DEF AddressBits
      <4> QED
        BY <4>1
    <3>2. PICK u \in 1 .. Len(a), j \in 1 .. w : i = Place(u, j)
      BY <3>1, BitIsIn, Zenon
    <3>3. Equal(u, j)
      BY <2>2, <3>1, <3>2, Zenon
    <3> QED
      BY <1>2, <3>2, <3>3, Zenon
  <2> QED
    BY <2>1, <2>2, Zenon DEF AgreeOn
<1>5. ASSUME NEW u \in 1 .. Len(a)
      PROVE  BitsAgree(a[u], b[u], w, C(u)) <=> \A j \in 1 .. w : j <= C(u) => Equal(u, j)
  <2>1. C(u) \in Nat /\ C(u) <= w /\ w \in Nat
    BY <1>1, <1>3
  <2>2. \A j : j \in 1 .. C(u) <=> j \in 1 .. w /\ j <= C(u)
    <3> HIDE DEF w, C
    <3> QED
      BY <2>1
  <2> QED
    BY <2>2, Zenon DEF BitsAgree
<1> QED
  BY <1>2, <1>4, <1>5, Zenon

\* A network holds the addresses of its family that share its prefix.
LEMMA ContainsBits ==
    ASSUME NEW net \in Address, NEW ip \in Address, NEW p \in Nat, p <= AddressBits(net),
           ~(IsMapped(net) /\ p >= 96)
    PROVE  cidr_contains(cidr_new(net, p), ip) <=> Len(ip) = Len(net) /\ AgreeOn(net, ip, p)
<1>1. SUFFICES ASSUME Len(net) = Len(ip)
               PROVE  (\A i \in 1 .. Len(ip) : Unit(ip[i], UnitBits(ip), CoveredBits(ip, i, p))
                                                  = Unit(net[i], UnitBits(ip), CoveredBits(ip, i, p)))
                      <=> AgreeOn(net, ip, p)
  BY ContainsUnits, Zenon
<1>2. UnitBits(net) = UnitBits(ip) /\ AddressBits(net) = AddressBits(ip)
  BY <1>1 DEF UnitBits, AddressBits, IsV4
<1>3. AgreeOn(net, ip, p) <=>
         \A u \in 1 .. Len(ip) : BitsAgree(net[u], ip[u], UnitBits(ip), CoveredBits(net, u, p))
  BY <1>1, <1>2, AgreeUnits, Zenon
<1>4. ASSUME NEW u \in 1 .. Len(ip)
      PROVE  BitsAgree(net[u], ip[u], UnitBits(ip), CoveredBits(net, u, p)) <=>
                Unit(ip[u], UnitBits(ip), CoveredBits(ip, u, p))
                   = Unit(net[u], UnitBits(ip), CoveredBits(ip, u, p))
  <2> DEFINE w == UnitBits(ip)
             c == CoveredBits(ip, u, p)
  <2>1. w \in {8, 16}
    BY DEF UnitBits
  <2>2. c \in Nat /\ c <= w
    BY <2>1 DEF CoveredBits
  <2>3. CoveredBits(net, u, p) = c
    BY <1>2, Zenon DEF CoveredBits
  <2>4. ASSUME NEW a \in Address, Len(a) = Len(ip) PROVE a[u] \in Nat /\ a[u] < 2^w
    <3>1. CASE a \in V4Address
      <4>1. Len(ip) = 4 /\ w = 8 /\ a[u] \in Octet
        BY <2>4, <3>1, V4Units, Zenon DEF UnitBits, IsV4
      <4>2. 2^8 = 256
        OBVIOUS
      <4> HIDE DEF w
      <4> QED
        BY <4>1, <4>2, Ranges
    <3>2. CASE a \in V6Address
      <4>1. Len(ip) = 8 /\ w = 16 /\ a[u] \in Segment
        BY <2>4, <3>2, V6Units, Zenon DEF UnitBits, IsV4
      <4>2. 2^16 = 65536
        OBVIOUS
      <4> HIDE DEF w
      <4> QED
        BY <4>1, <4>2, Ranges
    <3> QED
      BY <2>4, <3>1, <3>2 DEF Address
  <2>5. net[u] \in Nat /\ net[u] < 2^w /\ ip[u] \in Nat /\ ip[u] < 2^w
    BY <1>1, <2>4
  <2> HIDE DEF w, c
  <2>6. Unit(net[u], w, c) = Unit(ip[u], w, c) <=> BitsAgree(net[u], ip[u], w, c)
    BY <2>1, <2>2, <2>5, BitsOfUnit
  <2> QED
    BY <2>3, <2>6, Zenon DEF w, c
<1> QED
  BY <1>3, <1>4, Zenon

-----------------------------------------------------------------------------
(* Networks and addresses written as IPv4-mapped ones.                     *)

\* n is the segment of the octets a and b, and its j-th and (8+j)-th bits are
\* their j-th ones.
Spans(n, a, b) == n = a * 256 + b
BitsOfOctets(n, a, b, j) ==
    /\ (n \div 2^(16 - j)) % 2 = (a \div 2^(8 - j)) % 2
    /\ (n \div 2^(16 - (8 + j))) % 2 = (b \div 2^(8 - j)) % 2

\* The bits of two octets in a segment.
LEMMA SegmentBits ==
    ASSUME NEW a \in Nat, NEW b \in Octet, NEW n, Spans(n, a, b), NEW j \in 1 .. 8
    PROVE  BitsOfOctets(n, a, b, j)
<1> n = a * 256 + b
  BY DEF Spans
<1>1. /\ n \div 32768 = a \div 128 /\ n \div 16384 = a \div 64 /\ n \div 8192 = a \div 32
      /\ n \div 4096 = a \div 16 /\ n \div 2048 = a \div 8 /\ n \div 1024 = a \div 4
      /\ n \div 512 = a \div 2 /\ n \div 256 = a \div 1
  BY Ranges
<1>2. /\ (n \div 128) % 2 = (b \div 128) % 2 /\ (n \div 64) % 2 = (b \div 64) % 2
      /\ (n \div 32) % 2 = (b \div 32) % 2 /\ (n \div 16) % 2 = (b \div 16) % 2
      /\ (n \div 8) % 2 = (b \div 8) % 2 /\ (n \div 4) % 2 = (b \div 4) % 2
      /\ (n \div 2) % 2 = (b \div 2) % 2 /\ (n \div 1) % 2 = (b \div 1) % 2
  <2> b \in Nat
    BY Ranges
  <2>1. /\ n \div 128 = 2 * a + (b \div 128) /\ n \div 64 = 2 * (2 * a) + (b \div 64)
        /\ n \div 32 = 2 * (4 * a) + (b \div 32) /\ n \div 16 = 2 * (8 * a) + (b \div 16)
        /\ n \div 8 = 2 * (16 * a) + (b \div 8) /\ n \div 4 = 2 * (32 * a) + (b \div 4)
        /\ n \div 2 = 2 * (64 * a) + (b \div 2) /\ n \div 1 = 2 * (128 * a) + (b \div 1)
    OBVIOUS
  <2>2. \A k, c \in Nat : (2 * k + c) % 2 = c % 2
    OBVIOUS
  <2>3. /\ b \div 128 \in Nat /\ b \div 64 \in Nat /\ b \div 32 \in Nat /\ b \div 16 \in Nat
        /\ b \div 8 \in Nat /\ b \div 4 \in Nat /\ b \div 2 \in Nat /\ b \div 1 \in Nat
    OBVIOUS
  <2> QED
    BY <2>1, <2>2, <2>3
<1>3. j = 1 \/ j = 2 \/ j = 3 \/ j = 4 \/ j = 5 \/ j = 6 \/ j = 7 \/ j = 8
  OBVIOUS
<1>4. /\ (n \div Pow2(16 - j)) % 2 = (a \div Pow2(8 - j)) % 2
      /\ (n \div Pow2(16 - (8 + j))) % 2 = (b \div Pow2(8 - j)) % 2
  BY <1>1, <1>2, <1>3, Powers
<1> QED
  BY <1>4, Zenon DEF Pow2, BitsOfOctets

\* The units of a mapped address.
LEMMA MappedUnits ==
    ASSUME NEW a \in V4Address
    PROVE  /\ Mapped(a) \in V6Address
           /\ \A u \in 1 .. 6 : Mapped(a)[u] = MappedPrefix[u]
           /\ Mapped(a)[7] = a[1] * 256 + a[2] /\ Mapped(a)[8] = a[3] * 256 + a[4]
<1> DEFINE p == MappedPrefix
           s == Segments(a)
           m == p \o s
<1>1. p \in Seq(Segment) /\ Len(p) = 6
  <2>1. 0 \in Segment /\ 65535 \in Segment
    BY Ranges
  <2> QED
    BY <2>1 DEF MappedPrefix
<1>2. s \in Seq(Segment) /\ Len(s) = 2 /\ s[1] = a[1] * 256 + a[2] /\ s[2] = a[3] * 256 + a[4]
  <2>1. s \in Seq(Segment) /\ Len(s) = 2
    BY OctetsOfSegments
  <2>2. s[1] = a[1] * 256 + a[2] /\ s[2] = a[3] * 256 + a[4]
    BY DEF Segments
  <2> QED
    BY <2>1, <2>2
<1> HIDE DEF p, s
<1>3. /\ m \in Seq(Segment) /\ Len(m) = Len(p) + Len(s)
      /\ \A i \in 1 .. Len(p) : m[i] = p[i]
      /\ \A i \in 1 .. Len(s) : m[Len(p) + i] = s[i]
  <2>1. p \in Seq(Segment) /\ s \in Seq(Segment)
    BY <1>1, <1>2
  <2> QED
    BY <2>1, SegmentsJoined
<1> HIDE DEF m
<1>4. Len(m) = 8 /\ (\A i \in 1 .. 6 : m[i] = p[i]) /\ m[7] = s[1] /\ m[8] = s[2]
  BY <1>1, <1>2, <1>3
<1>5. m \in V6Address
  BY <1>3, <1>4, Zenon DEF V6Address
<1>6. m = Mapped(a)
  BY DEF m, p, s, Mapped
<1> QED
  BY <1>2, <1>4, <1>5, <1>6 DEF p

\* The last 32 bits of a mapped address are those of the IPv4 address.
LEMMA MappedBits ==
    ASSUME NEW a \in V4Address, NEW u \in 1 .. 4, NEW j \in 1 .. 8
    PROVE  Bit(Mapped(a), 96 + ((u - 1) * 8 + j)) = Bit(a, (u - 1) * 8 + j)
<1> DEFINE m == Mapped(a)
<1>1. /\ a \in Address /\ Len(a) = 4 /\ UnitBits(a) = 8
      /\ m \in Address /\ Len(m) = 8 /\ UnitBits(m) = 16
  BY V4Units, V6Units, MappedUnits DEF Address
<1>2. /\ a[1] \in Nat /\ a[2] \in Octet
      /\ a[3] \in Nat /\ a[4] \in Octet
  BY V4Units, Ranges
<1>3. Spans(m[7], a[1], a[2]) /\ Spans(m[8], a[3], a[4])
  BY MappedUnits DEF Spans
<1>4. Bit(a, (u - 1) * 8 + j) = (a[u] \div 2^(8 - j)) % 2
  BY <1>1, BitAt
<1>5. m \in V6Address
  BY MappedUnits
<1>6. j \in 1 .. 16 /\ 8 + j \in 1 .. 16 /\ 7 \in 1 .. 8 /\ 8 \in 1 .. 8
  OBVIOUS
<1> SUFFICES Bit(m, 96 + ((u - 1) * 8 + j)) = Bit(a, (u - 1) * 8 + j)
  OBVIOUS
<1> HIDE DEF m
<1>11. BitsOfOctets(m[7], a[1], a[2], j)
  BY <1>2, <1>3, SegmentBits, Zenon
<1>12. BitsOfOctets(m[8], a[3], a[4], j)
  BY <1>2, <1>3, SegmentBits, Zenon
<1>7. CASE u = 1
  <2>1. 96 + ((u - 1) * 8 + j) = (7 - 1) * 16 + j
    BY <1>7
  <2>2. Bit(m, (7 - 1) * 16 + j) = (m[7] \div 2^(16 - j)) % 2
    BY <1>5, <1>6, V6BitAt, Zenon
  <2> QED
    BY <1>4, <1>7, <2>1, <2>2, <1>11, Zenon DEF BitsOfOctets
<1>8. CASE u = 2
  <2>1. 96 + ((u - 1) * 8 + j) = (7 - 1) * 16 + (8 + j)
    BY <1>8
  <2>2. Bit(m, (7 - 1) * 16 + (8 + j)) = (m[7] \div 2^(16 - (8 + j))) % 2
    BY <1>5, <1>6, V6BitAt, Zenon
  <2> QED
    BY <1>4, <1>8, <2>1, <2>2, <1>11, Zenon DEF BitsOfOctets
<1>9. CASE u = 3
  <2>1. 96 + ((u - 1) * 8 + j) = (8 - 1) * 16 + j
    BY <1>9
  <2>2. Bit(m, (8 - 1) * 16 + j) = (m[8] \div 2^(16 - j)) % 2
    BY <1>5, <1>6, V6BitAt, Zenon
  <2> QED
    BY <1>4, <1>9, <2>1, <2>2, <1>12, Zenon DEF BitsOfOctets
<1>10. CASE u = 4
  <2>1. 96 + ((u - 1) * 8 + j) = (8 - 1) * 16 + (8 + j)
    BY <1>10
  <2>2. Bit(m, (8 - 1) * 16 + (8 + j)) = (m[8] \div 2^(16 - (8 + j))) % 2
    BY <1>5, <1>6, V6BitAt, Zenon
  <2> QED
    BY <1>4, <1>10, <2>1, <2>2, <1>12, Zenon DEF BitsOfOctets
<1> QED
  BY <1>7, <1>8, <1>9, <1>10

\* Two mapped addresses share 96 bits and those that the IPv4 addresses share.
LEMMA MappedAgree ==
    ASSUME NEW a \in V4Address, NEW b \in V4Address, NEW p \in Nat, 96 <= p, p <= 128
    PROVE  AgreeOn(Mapped(a), Mapped(b), p) <=> AgreeOn(a, b, p - 96)
<1> DEFINE m == Mapped(a)
           n == Mapped(b)
<1>1. /\ a \in Address /\ Len(a) = 4 /\ UnitBits(a) = 8 /\ AddressBits(a) = 32
      /\ m \in Address /\ Len(m) = 8 /\ UnitBits(m) = 16 /\ AddressBits(m) = 128
      /\ n \in Address /\ Len(n) = 8 /\ UnitBits(n) = 16
  BY V4Units, V6Units, MappedUnits DEF Address, AddressBits
<1>2. m \in V6Address /\ n \in V6Address /\ \A u \in 1 .. 6 : m[u] = n[u]
  <2>1. m \in V6Address /\ \A u \in 1 .. 6 : m[u] = MappedPrefix[u]
    BY MappedUnits
  <2>2. n \in V6Address /\ \A u \in 1 .. 6 : n[u] = MappedPrefix[u]
    BY MappedUnits
  <2> QED
    BY <2>1, <2>2, Zenon
<1>3. ASSUME NEW i \in Nat, 1 <= i, i <= 32
      PROVE  Bit(m, 96 + i) = Bit(a, i) /\ Bit(n, 96 + i) = Bit(b, i)
  <2>1. PICK u \in 1 .. 4, j \in 1 .. 8 : i = (u - 1) * 8 + j
    BY <1>1, <1>3, BitIsIn
  <2> QED
    BY <2>1, MappedBits
<1> HIDE DEF m, n
<1>4. ASSUME NEW i \in Nat, 1 <= i, i <= 96
      PROVE  Bit(m, i) = Bit(n, i)
  <2>1. PICK u \in 1 .. 8, j \in 1 .. 16 : i = (u - 1) * 16 + j
    BY <1>1, <1>4, BitIsIn
  <2>2. u \in 1 .. 6
    BY <1>4, <2>1
  <2>3. Bit(m, i) = (m[u] \div 2^(16 - j)) % 2 /\ Bit(n, i) = (n[u] \div 2^(16 - j)) % 2
    BY <1>2, <2>1, V6BitAt, Zenon
  <2> QED
    BY <1>2, <2>2, <2>3
<1>5. ASSUME AgreeOn(m, n, p), NEW i \in 1 .. p - 96
      PROVE  Bit(a, i) = Bit(b, i)
  <2>1. i \in Nat /\ 1 <= i /\ i <= 32 /\ 96 + i \in 1 .. p
    OBVIOUS
  <2>2. Bit(m, 96 + i) = Bit(n, 96 + i)
    BY <1>5, <2>1 DEF AgreeOn
  <2> QED
    BY <1>3, <2>1, <2>2
<1>6. ASSUME AgreeOn(a, b, p - 96), NEW i \in 1 .. p
      PROVE  Bit(m, i) = Bit(n, i)
  <2>1. CASE i <= 96
    BY <1>4, <2>1
  <2>2. CASE i > 96
    <3>1. i - 96 \in Nat /\ 1 <= i - 96 /\ i - 96 <= 32 /\ i - 96 \in 1 .. p - 96 /\ 96 + (i - 96) = i
      BY <2>2
    <3>2. Bit(a, i - 96) = Bit(b, i - 96)
      BY <1>6, <3>1 DEF AgreeOn
    <3> QED
      BY <1>3, <3>1, <3>2
  <2> QED
    BY <2>1, <2>2
<1>7. AgreeOn(m, n, p) <=> AgreeOn(a, b, p - 96)
  BY <1>5, <1>6, Zenon DEF AgreeOn
<1> QED
  BY <1>7 DEF m, n

\* An IPv4-mapped address is that of the IPv4 address it stands for.
LEMMA MappedBack ==
    ASSUME NEW m \in V6Address, IsMapped(m)
    PROVE  canonical_ip(m) \in V4Address /\ Mapped(canonical_ip(m)) = m
<1> DEFINE a == Octets(m[7], m[8])
<1>1. canonical_ip(m) = a
  BY DEF canonical_ip
<1>2. m[7] \in Segment /\ m[8] \in Segment
  BY V6Units
<1>3. a \in V4Address
  BY <1>2, OctetsAreAddress
<1>4. a[1] * 256 + a[2] = m[7] /\ a[3] * 256 + a[4] = m[8]
  <2>1. m[7] \in Nat /\ m[8] \in Nat
    BY <1>2, Ranges
  <2>2. a[1] = m[7] \div 256 /\ a[2] = m[7] % 256 /\ a[3] = m[8] \div 256 /\ a[4] = m[8] % 256
    BY DEF Octets
  <2> QED
    BY <2>1, <2>2
<1>5. \A u \in 1 .. 6 : m[u] = MappedPrefix[u]
  <2>1. Len(MappedPrefix) = 6
    BY DEF MappedPrefix
  <2> QED
    BY <2>1, Zenon DEF IsMapped, StartsWith
<1> HIDE DEF a
<1>6. /\ Mapped(a) \in V6Address
      /\ \A u \in 1 .. 6 : Mapped(a)[u] = MappedPrefix[u]
      /\ Mapped(a)[7] = m[7] /\ Mapped(a)[8] = m[8]
  BY <1>3, <1>4, MappedUnits
<1>7. \A u \in 1 .. 8 : Mapped(a)[u] = m[u]
  BY <1>5, <1>6
<1>8. Mapped(a) = m
  <2>1. /\ Mapped(a) \in Seq(Segment) /\ m \in Seq(Segment)
        /\ Len(Mapped(a)) = 8 /\ Len(m) = 8
    BY <1>6, V6Units
  <2> QED
    BY <1>7, <2>1, SameElements
<1> QED
  BY <1>1, <1>3, <1>8

\* Every network, of every prefix that its address has room for, holds the
\* addresses that share its first prefix_len bits, and a network written as an
\* IPv4-mapped one holds the IPv4 addresses whose mapped form does (Cidr::new
\* and Cidr::contains): the run tries three networks of each family.
THEOREM PrefixIsExact ==
    ASSUME question.ip \in Address, question.net.addr \in Address,
           question.net.prefix_len \in Nat,
           question.net.prefix_len <= AddressBits(question.net.addr)
    PROVE  PrefixDecides
<1> DEFINE ip == question.ip
           addr == question.net.addr
           p == question.net.prefix_len
           cidr == cidr_new(addr, p)
           inside == cidr_contains(cidr, ip)
<1>1. ip \in Address /\ addr \in Address /\ p \in Nat /\ p <= AddressBits(addr)
  OBVIOUS
<1> HIDE DEF ip, addr, p
<1>2. IsMapped(addr) /\ p >= 96 =>
         (inside <=> IsV4(ip) /\ AgreeOn(addr, Mapped(ip), p))
  <2> SUFFICES ASSUME IsMapped(addr), p >= 96
               PROVE  inside <=> IsV4(ip) /\ AgreeOn(addr, Mapped(ip), p)
    OBVIOUS
  <2> DEFINE a == canonical_ip(addr)
  <2>1. addr \in V6Address
    BY <1>1, V4IsPlain DEF Address
  <2>2. a \in V4Address /\ Mapped(a) = addr
    BY <2>1, MappedBack
  <2>3. p - 96 \in Nat /\ 96 <= p /\ p <= 128
    BY <1>1, <2>1, V6Units DEF AddressBits
  <2>4. cidr = cidr_new(a, p - 96)
    <3>1. ~IsMapped(a)
      BY <2>2, V4IsPlain
    <3> HIDE DEF a
    <3>2. cidr = [network |-> Masked(a, p - 96), prefix_len |-> p - 96]
      BY DEF cidr_new, a
    <3> QED
      BY <3>1, <3>2 DEF cidr_new
  <2> HIDE DEF a
  <2>5. inside <=> Len(ip) = Len(a) /\ AgreeOn(a, ip, p - 96)
    <3>1. a \in Address /\ ~IsMapped(a) /\ AddressBits(a) = 32
      BY <2>2, V4IsPlain, V4Units DEF Address, AddressBits
    <3>2. p - 96 <= 32
      BY <1>1, <2>3
    <3> QED
      BY <1>1, <2>3, <2>4, <3>1, <3>2, ContainsBits
  <2>6. Len(a) = 4
    BY <2>2, V4Units
  <2>7. ASSUME IsV4(ip)
        PROVE  AgreeOn(addr, Mapped(ip), p) <=> AgreeOn(a, ip, p - 96)
    <3>1. ip \in V4Address
      BY <1>1, <2>7, V6Units DEF Address
    <3> QED
      BY <1>1, <2>2, <2>3, <3>1, MappedAgree
  <2> QED
    BY <2>5, <2>6, <2>7 DEF IsV4
<1>3. ~(IsMapped(addr) /\ p >= 96) =>
         (inside <=> Len(ip) = Len(addr) /\ AgreeOn(addr, ip, p))
  BY <1>1, ContainsBits
<1>4. IsV4(ip) => (is_allowed({cidr}, Mapped(ip)) <=> inside)
  <2> SUFFICES ASSUME IsV4(ip) PROVE is_allowed({cidr}, Mapped(ip)) <=> inside
    OBVIOUS
  <2>1. ip \in V4Address
    BY <1>1, V6Units DEF Address
  <2>2. canonical_ip(Mapped(ip)) = ip
    BY <2>1, OctetsWritten
  <2> QED
    BY <2>2, Zenon DEF is_allowed
<1> QED
  BY <1>2, <1>3, <1>4, Zenon DEF PrefixDecides, ip, addr, p

-----------------------------------------------------------------------------
(* Texts.                                                                  *)

\* None, or one of S.
Optional(S) == {<<>>} \cup {<<v>> : v \in S}

\* What tells tokens apart, and "word" for any other text.
Separator == {"/", "-", ":", "[", "]", " ", "word"}

Token == {Sep(c) : c \in Separator} \cup {Number(n) : n \in Nat} \cup {Addr(ip) : ip \in Seq(Nat)}

\* A numeral carries a number.
LEMMA NumberToken == ASSUME NEW t \in Token, t.is = "number" PROVE t.n \in Nat
<1>1. "number" \notin Separator
  BY Zenon DEF Separator
<1> QED
  BY <1>1 DEF Token, Sep, Number, Addr

\* The greatest is found by counting down from the bound.
LEMMA Greatest ==
    ASSUME NEW bound \in Nat, NEW T, T \subseteq 0 .. bound, T # {}
    PROVE  \E m \in T : \A k \in T : k <= m
<1> DEFINE U == {d \in Nat : bound - d \in T}
<1>1. ASSUME NEW k \in T PROVE k \in Nat /\ bound - k \in U
  <2>1. k \in Nat /\ k <= bound /\ bound - k \in Nat /\ bound - (bound - k) = k
    OBVIOUS
  <2> QED
    BY <2>1
<1>2. U \subseteq Nat /\ U # {}
  BY <1>1, Zenon
<1>3. PICK u \in U : \A k \in U : u <= k
  <2> HIDE DEF U
  <2> QED
    BY <1>2, Least
<1>4. u \in Nat /\ bound - u \in T
  OBVIOUS
<1>5. ASSUME NEW k \in T PROVE k <= bound - u
  <2>1. k \in Nat /\ bound - k \in U
    BY <1>1
  <2>2. u <= bound - k
    BY <1>3, <2>1
  <2> QED
    BY <1>4, <2>1, <2>2
<1> QED
  BY <1>4, <1>5

\* The parts of a text are texts.
LEMMA PartIsText ==
    ASSUME NEW text \in Seq(Token), NEW i \in Nat, NEW j \in Nat, 1 <= i, j <= Len(text)
    PROVE  SubSeq(text, i, j) \in Seq(Token)
OBVIOUS

\* A separator that occurs splits a text into two texts.
LEMMA FirstIsThere ==
    ASSUME NEW text \in Seq(Token), NEW c, At(text, c) # {}
    PROVE  /\ FirstAt(text, c) \in Nat /\ 1 <= FirstAt(text, c) /\ FirstAt(text, c) <= Len(text)
           /\ Before(text, c) \in Seq(Token) /\ After(text, c) \in Seq(Token)
<1> DEFINE first == FirstAt(text, c)
<1>1. At(text, c) \subseteq 1 .. Len(text) /\ Len(text) \in Nat
  BY DEF At
<1>2. \E m \in At(text, c) : \A k \in At(text, c) : m <= k
  BY <1>1, Least
<1>3. first \in At(text, c)
  BY <1>2, Zenon DEF FirstAt
<1>4. first \in Nat /\ 1 <= first /\ first <= Len(text)
  BY <1>1, <1>3
<1> HIDE DEF first
<1>5. SubSeq(text, 1, first - 1) \in Seq(Token)
  BY <1>1, <1>4, PartIsText
<1>6. SubSeq(text, first + 1, Len(text)) \in Seq(Token)
  BY <1>1, <1>4, PartIsText
<1> QED
  BY <1>4, <1>5, <1>6 DEF first, Before, After, From

\* What trim leaves is a text.
LEMMA TrimmedIsText ==
    ASSUME NEW text \in Seq(Token)
    PROVE  Trim(text) \in Seq(Token)
<1> DEFINE kept == DOMAIN text \ At(text, " ")
           first == CHOOSE i \in kept : \A j \in kept : i <= j
           last == CHOOSE i \in kept : \A j \in kept : j <= i
<1>1. CASE kept = {}
  <2>1. Trim(text) = <<>>
    BY <1>1, Zenon DEF Trim
  <2> QED
    BY <2>1
<1>2. CASE kept # {}
  <2>1. kept \subseteq 1 .. Len(text) /\ Len(text) \in Nat /\ kept \subseteq Nat /\ kept \subseteq 0 .. Len(text)
    <3>1. kept \subseteq DOMAIN text
      BY Zenon
    <3>2. DOMAIN text = 1 .. Len(text) /\ Len(text) \in Nat
      OBVIOUS
    <3> HIDE DEF kept
    <3> QED
      BY <3>1, <3>2
  <2>2. Trim(text) = SubSeq(text, first, last)
    BY <1>2, Zenon DEF Trim
  <2> HIDE DEF kept
  <2>3. first \in kept
    BY <1>2, <2>1, Least, Zenon
  <2>4. last \in kept
    BY <1>2, <2>1, Greatest, Zenon
  <2> HIDE DEF first, last
  <2>5. first \in Nat /\ last \in Nat /\ 1 <= first /\ last <= Len(text)
    BY <2>1, <2>3, <2>4
  <2> QED
    BY <2>2, <2>5, PartIsText
<1> QED
  BY <1>1, <1>2

\* PortRange::from_str gives ports, and never port 0.
LEMMA RangeHasPorts ==
    ASSUME NEW text \in Seq(Token), port_range_from_str(text).ok
    PROVE  port_range_from_str(text).value # {} /\ 0 \notin port_range_from_str(text).value
<1> DEFINE dash == At(text, "-") # {}
           first == Trim(IF dash THEN Before(text, "-") ELSE text)
           last == Trim(IF dash THEN After(text, "-") ELSE text)
           IsPort(t) == IsNumber(t, 65535) /\ t[1].n # 0
<1>1. first \in Seq(Token) /\ last \in Seq(Token)
  BY FirstIsThere, TrimmedIsText
<1>2. ASSUME NEW t \in Seq(Token), IsPort(t)
      PROVE  t[1].n \in Nat /\ t[1].n >= 1
  <2>1. Len(t) = 1 /\ t[1].is = "number" /\ t[1].n # 0
    BY <1>2 DEF IsNumber
  <2>2. t[1] \in Token
    BY <2>1
  <2>3. t[1].n \in Nat
    BY <2>1, <2>2, NumberToken
  <2> QED
    BY <2>1, <2>3
<1>3. port_range_from_str(text) =
         IF IsPort(first) /\ IsPort(last) /\ first[1].n <= last[1].n
         THEN Parsed(first[1].n .. last[1].n) ELSE Invalid
  BY DEF port_range_from_str
<1> HIDE DEF first, last, IsPort
<1>4. IsPort(first) /\ IsPort(last) /\ first[1].n <= last[1].n
  BY <1>3 DEF Invalid
<1>5. port_range_from_str(text).value = first[1].n .. last[1].n
  BY <1>3, <1>4 DEF Parsed
<1>6. first[1].n \in Nat /\ first[1].n >= 1 /\ last[1].n \in Nat
  BY <1>1, <1>2, <1>4
<1>7. \A a, b \in Nat : a >= 1 /\ a <= b => a .. b # {} /\ 0 \notin a .. b
  <2> SUFFICES ASSUME NEW a \in Nat, NEW b \in Nat, a >= 1, a <= b
               PROVE  a .. b # {} /\ 0 \notin a .. b
    OBVIOUS
  <2>1. a \in a .. b /\ 0 \notin a .. b
    OBVIOUS
  <2> QED
    BY <2>1
<1> QED
  BY <1>4, <1>5, <1>6, <1>7

\* Nor does an entry, whatever its text.
EntryHasPorts(entry) == entry.ok => entry.value.ports # {} /\ 0 \notin entry.value.ports

\* An entry from its two parts.
LEMMA PartsHavePorts ==
    ASSUME NEW network, NEW ports, ports = <<>> \/ \E text \in Seq(Token) : ports = <<text>>
    PROVE  EntryHasPorts(entry_of(network, ports))
<1> DEFINE cidr == cidr_from_str(network)
           range == IF ports = <<>> THEN Parsed(AnyPort) ELSE port_range_from_str(ports[1])
<1>1. range.ok => range.value # {} /\ 0 \notin range.value
  <2>1. CASE ports = <<>>
    <3>1. AnyPort # {} /\ 0 \notin AnyPort
      BY DEF AnyPort
    <3> QED
      BY <2>1, <3>1 DEF Parsed
  <2>2. CASE ports # <<>>
    <3>1. ports[1] \in Seq(Token)
      BY <2>2
    <3> QED
      BY <2>2, <3>1, RangeHasPorts
  <2> QED
    BY <2>1, <2>2
<1>2. entry_of(network, ports) =
         IF cidr.ok /\ range.ok THEN Parsed([network |-> cidr.value, ports |-> range.value]) ELSE Invalid
  BY DEF entry_of
<1> HIDE DEF cidr, range
<1> QED
  BY <1>1, <1>2 DEF EntryHasPorts, Parsed, Invalid

\* An entry from a whole line.
LEMMA LineHasPorts ==
    ASSUME NEW line \in Seq(Token)
    PROVE  EntryHasPorts(entry_from_str(line))
<1> DEFINE trimmed == Trim(line)
           rest == After(trimmed, "]")
<1>1. trimmed \in Seq(Token)
  BY TrimmedIsText
<1>2. \A network : EntryHasPorts(entry_of(network, <<>>))
  BY PartsHavePorts
<1>3. \A network : \A text \in Seq(Token) : EntryHasPorts(entry_of(network, <<text>>))
  BY PartsHavePorts, Zenon
<1>4. EntryHasPorts(Invalid)
  BY DEF EntryHasPorts, Invalid
<1>5. At(trimmed, "]") # {} => rest \in Seq(Token)
  BY <1>1, FirstIsThere
<1>6. rest \in Seq(Token) /\ rest # <<>> => From(rest, 2) \in Seq(Token)
  <2> SUFFICES ASSUME rest \in Seq(Token), rest # <<>> PROVE From(rest, 2) \in Seq(Token)
    OBVIOUS
  <2> QED
    BY PartIsText DEF From
<1>7. At(trimmed, ":") # {} => After(trimmed, ":") \in Seq(Token)
  BY <1>1, FirstIsThere
<1> HIDE DEF trimmed, rest
<1> QED
  BY <1>2, <1>3, <1>4, <1>5, <1>6, <1>7 DEF entry_from_str, trimmed, rest

-----------------------------------------------------------------------------
(* Splitting and trimming.                                                 *)

\* No token of the text is a c.
Lacks(text, c) == \A j \in DOMAIN text : text[j].is # c

\* Joining texts may be bracketed either way.
LEMMA TextsJoin ==
    ASSUME NEW a \in Seq(Token), NEW b \in Seq(Token), NEW c \in Seq(Token)
    PROVE  (a \o b) \o c = a \o (b \o c)
OBVIOUS

\* The first c is where there is one and none before it.
LEMMA FirstIs ==
    ASSUME NEW text \in Seq(Token), NEW c, NEW k \in 1 .. Len(text), text[k].is = c,
           \A j \in 1 .. k - 1 : text[j].is # c
    PROVE  At(text, c) # {} /\ FirstAt(text, c) = k
<1>1. k \in At(text, c)
  BY DEF At
<1>2. ASSUME NEW j \in At(text, c) PROVE j \in Nat /\ k <= j
  <2>1. j \in 1 .. Len(text) /\ text[j].is = c
    BY DEF At
  <2> QED
    BY <2>1
<1>3. \A j \in At(text, c) : k <= j
  BY <1>2
<1>4. \A i \in At(text, c) : (\A j \in At(text, c) : i <= j) => i = k
  <2> SUFFICES ASSUME NEW i \in At(text, c), \A j \in At(text, c) : i <= j PROVE i = k
    OBVIOUS
  <2>1. i <= k /\ k <= i /\ i \in Nat /\ k \in Nat
    BY <1>1, <1>2
  <2> QED
    BY <2>1
<1> QED
  BY <1>1, <1>3, <1>4, Zenon DEF FirstAt

\* The token t divides the text into a and b.
Divides(text, a, t, b) == text = a \o (<<t>> \o b)

\* A split at the first separator gives back the two sides.
LEMMA Splits ==
    ASSUME NEW text, NEW c, NEW a \in Seq(Token), NEW t \in Token, NEW b \in Seq(Token),
           Divides(text, a, t, b), t.is = c, Lacks(a, c)
    PROVE  /\ text \in Seq(Token) /\ At(text, c) # {} /\ FirstAt(text, c) = Len(a) + 1
           /\ Before(text, c) = a /\ After(text, c) = b
<1> DEFINE k == Len(a) + 1
<1>1. /\ text \in Seq(Token) /\ Len(text) = k + Len(b) /\ k \in 1 .. Len(text) /\ text[k] = t
      /\ \A j \in 1 .. Len(a) : text[j] = a[j]
  BY DEF Divides
<1>2. SubSeq(text, 1, k - 1) = a /\ SubSeq(text, k + 1, Len(text)) = b
  BY DEF Divides
<1>3. \A j \in 1 .. k - 1 : text[j].is # c
  BY <1>1 DEF Lacks
<1> HIDE DEF k
<1>4. At(text, c) # {} /\ FirstAt(text, c) = k
  <2>1. text \in Seq(Token) /\ k \in 1 .. Len(text) /\ text[k].is = c
    BY <1>1
  <2> QED
    BY <1>3, <2>1, FirstIs, Zenon
<1>5. Before(text, c) = a /\ After(text, c) = b
  BY <1>2, <1>4, Zenon DEF Before, After, From
<1> QED
  BY <1>1, <1>4, <1>5 DEF k

\* A text without the separator is not split.
LEMMA NotSplit ==
    ASSUME NEW text, NEW c, Lacks(text, c)
    PROVE  At(text, c) = {}
BY DEF Lacks, At

\* The blank that trim drops, by name.
Blank == " "

\* The body of Trim, with the blank by that name.
LEMMA TrimNamed ==
    ASSUME NEW text
    PROVE  LET kept == DOMAIN text \ At(text, Blank)
               first == CHOOSE i \in kept : \A j \in kept : i <= j
               last == CHOOSE i \in kept : \A j \in kept : j <= i
           IN  Trim(text) = IF kept = {} THEN <<>> ELSE SubSeq(text, first, last)
BY Zenon DEF Trim, Blank

\* trim keeps what is between the first and the last token that is no blank.
LEMMA TrimIs ==
    ASSUME NEW text \in Seq(Token), NEW first \in 1 .. Len(text), NEW last \in 1 .. Len(text),
           text[first].is # Blank, text[last].is # Blank,
           \A j \in 1 .. Len(text) : text[j].is # Blank => first <= j /\ j <= last
    PROVE  Trim(text) = SubSeq(text, first, last)
<1> DEFINE kept == DOMAIN text \ At(text, Blank)
<1>1. \A j : j \in kept <=> j \in 1 .. Len(text) /\ text[j].is # Blank
  BY DEF At
<1> HIDE DEF kept
<1>2. first \in kept /\ last \in kept /\ \A j \in kept : first <= j /\ j <= last /\ j \in Nat
  BY <1>1
<1>3. \A i \in kept : (\A j \in kept : i <= j) => i = first
  BY <1>2
<1>4. \A i \in kept : (\A j \in kept : j <= i) => i = last
  BY <1>2
<1>5. (CHOOSE i \in kept : \A j \in kept : i <= j) = first
  BY <1>2, <1>3, Zenon
<1>6. (CHOOSE i \in kept : \A j \in kept : j <= i) = last
  BY <1>2, <1>4, Zenon
<1>7. kept # {}
  BY <1>2
<1> QED
  BY <1>5, <1>6, <1>7, TrimNamed, Zenon DEF kept

\* A text that neither begins nor ends with a blank.
Tight(text) == Len(text) > 0 /\ text[1].is # Blank /\ text[Len(text)].is # Blank

\* A text with no blank at its ends is what trim leaves of it,
LEMMA TrimTight ==
    ASSUME NEW text \in Seq(Token), Tight(text)
    PROVE  Trim(text) = text
<1>1. /\ 1 \in 1 .. Len(text) /\ Len(text) \in 1 .. Len(text)
      /\ text[1].is # Blank /\ text[Len(text)].is # Blank
      /\ \A j \in 1 .. Len(text) : text[j].is # Blank => 1 <= j /\ j <= Len(text)
  BY DEF Tight
<1>2. Trim(text) = SubSeq(text, 1, Len(text))
  BY <1>1, TrimIs, Zenon
<1> QED
  BY <1>2

\* and of it with blanks around it.
LEMMA TrimPadded ==
    ASSUME NEW core \in Seq(Token), Tight(core), Sep(Blank) \in Token
    PROVE  Trim(<<Sep(Blank)>> \o (core \o <<Sep(Blank)>>)) = core
<1> DEFINE blank == Sep(Blank)
           text == <<blank>> \o (core \o <<blank>>)
           n == Len(core)
<1>0. blank \in Token /\ blank.is = Blank
  BY Zenon DEF Sep
<1> HIDE DEF blank
<1>1. /\ text \in Seq(Token) /\ Len(text) = n + 2 /\ n \in Nat /\ n > 0
      /\ text[1] = blank /\ text[n + 2] = blank /\ \A j \in 1 .. n : text[j + 1] = core[j]
  BY <1>0 DEF Tight
<1>2. SubSeq(text, 2, n + 1) = core
  BY <1>0
<1>3. text[2].is # Blank /\ text[n + 1].is # Blank
  <2>1. text[1 + 1] = core[1] /\ text[n + 1] = core[n]
    BY <1>1
  <2> QED
    BY <2>1 DEF Tight
<1> HIDE DEF text, n
<1>4. ASSUME NEW j \in 1 .. Len(text), text[j].is # Blank PROVE 2 <= j /\ j <= n + 1
  BY <1>0, <1>1, <1>4
<1>5. 2 \in 1 .. Len(text) /\ n + 1 \in 1 .. Len(text)
  BY <1>1
<1>6. \A j \in 1 .. Len(text) : text[j].is # Blank => 2 <= j /\ j <= n + 1
  BY <1>4
<1>7. Trim(text) = SubSeq(text, 2, n + 1)
  BY <1>1, <1>3, <1>5, <1>6, TrimIs, Zenon
<1> QED
  BY <1>2, <1>7 DEF text, blank

-----------------------------------------------------------------------------
(* A word is never read past.                                              *)

\* trim drops blanks only.
LEMMA TrimKeepsWords ==
    ASSUME NEW text \in Seq(Token), ~Lacks(text, "word")
    PROVE  ~Lacks(Trim(text), "word")
<1> DEFINE kept == DOMAIN text \ At(text, Blank)
           first == CHOOSE i \in kept : \A j \in kept : i <= j
           last == CHOOSE i \in kept : \A j \in kept : j <= i
<1>1. PICK w \in 1 .. Len(text) : text[w].is = "word"
  BY DEF Lacks
<1>2. w \in kept /\ kept # {}
  <2>1. text[w].is # Blank
    BY <1>1, Zenon DEF Blank
  <2>2. w \in DOMAIN text
    OBVIOUS
  <2> QED
    BY <2>1, <2>2, Zenon DEF At
<1>3. kept \subseteq 1 .. Len(text) /\ Len(text) \in Nat /\ kept \subseteq Nat /\ kept \subseteq 0 .. Len(text)
  <2>1. kept \subseteq DOMAIN text
    BY Zenon
  <2>2. DOMAIN text = 1 .. Len(text) /\ Len(text) \in Nat
    OBVIOUS
  <2> HIDE DEF kept
  <2> QED
    BY <2>1, <2>2
<1>4. Trim(text) = SubSeq(text, first, last)
  BY <1>2, TrimNamed, Zenon
<1> HIDE DEF kept
<1>5. first \in kept /\ \A j \in kept : first <= j
  BY <1>2, <1>3, Least, Zenon
<1>6. last \in kept /\ \A j \in kept : j <= last
  BY <1>2, <1>3, Greatest, Zenon
<1> HIDE DEF first, last
<1>7. first \in 1 .. Len(text) /\ last \in 1 .. Len(text) /\ first <= w /\ w <= last
  BY <1>2, <1>3, <1>5, <1>6
<1>8. /\ w - first + 1 \in DOMAIN SubSeq(text, first, last)
      /\ SubSeq(text, first, last)[w - first + 1] = text[w]
  BY <1>7
<1> QED
  BY <1>1, <1>4, <1>8 DEF Lacks

\* A split drops its separator only.
LEMMA SplitKeepsWords ==
    ASSUME NEW text \in Seq(Token), NEW c, c # "word", At(text, c) # {}, ~Lacks(text, "word")
    PROVE  ~Lacks(Before(text, c), "word") \/ ~Lacks(After(text, c), "word")
<1> DEFINE k == FirstAt(text, c)
<1>1. PICK w \in 1 .. Len(text) : text[w].is = "word"
  BY DEF Lacks
<1>2. k \in 1 .. Len(text) /\ text[k].is = c
  <2>1. At(text, c) \subseteq 1 .. Len(text) /\ Len(text) \in Nat /\ At(text, c) \subseteq Nat
    BY DEF At
  <2>2. \E m \in At(text, c) : \A j \in At(text, c) : m <= j
    BY <2>1, Least
  <2>3. k \in At(text, c)
    BY <2>2, Zenon DEF FirstAt
  <2> HIDE DEF k
  <2> QED
    BY <2>3 DEF At
<1>3. Before(text, c) = SubSeq(text, 1, k - 1) /\ After(text, c) = SubSeq(text, k + 1, Len(text))
  BY Zenon DEF Before, After, From
<1> HIDE DEF k
<1>4. CASE w < k
  <2>1. w \in DOMAIN SubSeq(text, 1, k - 1) /\ SubSeq(text, 1, k - 1)[w] = text[w]
    BY <1>2, <1>4
  <2> QED
    BY <1>1, <1>3, <2>1 DEF Lacks
<1>5. CASE w > k
  <2>1. /\ k + 1 \in 1 .. Len(text) + 1 /\ w - k \in 1 .. Len(text) - k
        /\ (k + 1) + (w - k) - 1 = w /\ Len(text) \in Nat
    BY <1>2, <1>5
  <2>2. /\ Len(SubSeq(text, k + 1, Len(text))) = Len(text) - k
        /\ \A j \in 1 .. Len(text) - k : SubSeq(text, k + 1, Len(text))[j] = text[(k + 1) + j - 1]
        /\ DOMAIN SubSeq(text, k + 1, Len(text)) = 1 .. Len(text) - k
    BY <1>2, <2>1
  <2>3. /\ w - k \in DOMAIN SubSeq(text, k + 1, Len(text))
        /\ SubSeq(text, k + 1, Len(text))[w - k] = text[w]
    BY <2>1, <2>2
  <2> QED
    BY <1>1, <1>3, <2>3 DEF Lacks
<1>6. w # k
  BY <1>1, <1>2
<1> QED
  BY <1>2, <1>4, <1>5, <1>6

\* Neither an address nor a number has a word in it.
LEMMA PartsLackWords ==
    ASSUME NEW text \in Seq(Token), NEW limit
    PROVE  IsAddr(text) \/ IsNumber(text, limit) => Lacks(text, "word")
BY DEF IsAddr, IsNumber, Lacks

\* Cidr::from_str reads all of its text.
LEMMA NetworkHasNoWord ==
    ASSUME NEW text \in Seq(Token), ~Lacks(text, "word")
    PROVE  cidr_from_str(text) = Invalid
<1> DEFINE trimmed == Trim(text)
           addr == Before(trimmed, "/")
           prefix == After(trimmed, "/")
<1>1. trimmed \in Seq(Token) /\ ~Lacks(trimmed, "word")
  BY TrimmedIsText, TrimKeepsWords
<1>2. CASE At(trimmed, "/") = {}
  <2>1. ~IsAddr(trimmed)
    <3> HIDE DEF trimmed
    <3> QED
      BY <1>1, PartsLackWords
  <2> QED
    BY <1>2, <2>1, Zenon DEF cidr_from_str
<1>3. CASE At(trimmed, "/") # {}
  <2>1. addr \in Seq(Token) /\ prefix \in Seq(Token) /\ (~Lacks(addr, "word") \/ ~Lacks(prefix, "word"))
    <3> HIDE DEF trimmed
    <3> QED
      BY <1>1, <1>3, FirstIsThere, SplitKeepsWords
  <2>2. ~IsAddr(addr) \/ ~IsNumber(prefix, AddressBits(addr[1].ip))
    <3> HIDE DEF addr, prefix
    <3> QED
      BY <2>1, PartsLackWords
  <2> QED
    BY <1>3, <2>2, Zenon DEF cidr_from_str
<1> QED
  BY <1>2, <1>3

\* PortRange::from_str reads all of its text.
LEMMA PortsHaveNoWord ==
    ASSUME NEW text \in Seq(Token), ~Lacks(text, "word")
    PROVE  port_range_from_str(text) = Invalid
<1> DEFINE dash == At(text, "-") # {}
           left == IF dash THEN Before(text, "-") ELSE text
           right == IF dash THEN After(text, "-") ELSE text
<1>1. left \in Seq(Token) /\ right \in Seq(Token) /\ (~Lacks(left, "word") \/ ~Lacks(right, "word"))
  BY FirstIsThere, SplitKeepsWords
<1>2. ~IsNumber(Trim(left), 65535) \/ ~IsNumber(Trim(right), 65535)
  <2> HIDE DEF left, right
  <2>1. Trim(left) \in Seq(Token) /\ Trim(right) \in Seq(Token)
    BY <1>1, TrimmedIsText
  <2>2. ~Lacks(Trim(left), "word") \/ ~Lacks(Trim(right), "word")
    BY <1>1, TrimKeepsWords
  <2> QED
    BY <2>1, <2>2, PartsLackWords
<1> QED
  BY <1>2, SMT DEF port_range_from_str

\* Neither part of an entry may have a word in it.
LEMMA EntryHasNoWord ==
    ASSUME NEW network \in Seq(Token), NEW ports \in Seq(Token),
           ~Lacks(network, "word") \/ ~Lacks(ports, "word")
    PROVE  entry_of(network, <<ports>>) = Invalid
<1>1. cidr_from_str(network) = Invalid \/ port_range_from_str(ports) = Invalid
  BY NetworkHasNoWord, PortsHaveNoWord
<1>2. <<ports>> # <<>> /\ <<ports>>[1] = ports /\ Invalid.ok = FALSE
  BY DEF Invalid
<1> QED
  BY <1>1, <1>2, Zenon DEF entry_of

\* Nor may a network without ports.
LEMMA BareEntryHasNoWord ==
    ASSUME NEW network \in Seq(Token), ~Lacks(network, "word")
    PROVE  entry_of(network, <<>>) = Invalid
<1>1. cidr_from_str(network) = Invalid /\ Invalid.ok = FALSE
  BY NetworkHasNoWord DEF Invalid
<1> QED
  BY <1>1, Zenon DEF entry_of

\* The network in brackets is what is between them.
LEMMA Bracketed ==
    ASSUME NEW text \in Seq(Token), text # <<>>, text[1].is = "[", At(text, "]") # {}
    PROVE  Before(From(text, 2), "]") = SubSeq(text, 2, FirstAt(text, "]") - 1)
<1> DEFINE k == FirstAt(text, "]")
           tail == SubSeq(text, 2, Len(text))
<1>1. k \in At(text, "]") /\ \A j \in At(text, "]") : k <= j
  <2>1. At(text, "]") \subseteq Nat
    BY DEF At
  <2>2. \E m \in At(text, "]") : \A j \in At(text, "]") : m <= j
    BY <2>1, Least
  <2> QED
    BY <2>2, Zenon DEF FirstAt
<1> HIDE DEF k
<1>2. /\ k \in 1 .. Len(text) /\ text[k].is = "]" /\ Len(text) \in Nat
      /\ \A j \in 1 .. Len(text) : text[j].is = "]" => k <= j
  BY <1>1 DEF At
<1>3. k \in 2 .. Len(text)
  BY <1>2
<1>4. tail \in Seq(Token) /\ Len(tail) = Len(text) - 1 /\ \A j \in 1 .. Len(text) - 1 : tail[j] = text[j + 1]
  BY <1>3
<1>5. SubSeq(tail, 1, k - 2) = SubSeq(text, 2, k - 1)
  BY <1>3
<1> HIDE DEF tail
<1>6. k - 1 \in 1 .. Len(tail) /\ tail[k - 1].is = "]"
  <2>1. k - 1 \in 1 .. Len(text) - 1 /\ (k - 1) + 1 = k
    BY <1>3
  <2> QED
    BY <1>2, <1>4, <2>1
<1>7. ASSUME NEW j \in 1 .. (k - 1) - 1 PROVE tail[j].is # "]"
  <2>1. j \in 1 .. Len(text) - 1 /\ j + 1 \in 1 .. Len(text) /\ ~(k <= j + 1)
    BY <1>3
  <2>2. tail[j] = text[j + 1]
    BY <1>4, <2>1
  <2> QED
    BY <1>2, <2>1, <2>2
<1>8. FirstAt(tail, "]") = k - 1
  BY <1>4, <1>6, <1>7, FirstIs
<1>9. (k - 1) - 1 = k - 2
  BY <1>3
<1> QED
  BY <1>5, <1>8, <1>9, Zenon DEF Before, From, tail, k

\* InternalWhitelistEntry::from_str reads all of its text: no line that has
\* a word in it is an entry.
LEMMA LineHasNoWord ==
    ASSUME NEW text \in Seq(Token), ~Lacks(text, "word")
    PROVE  entry_from_str(text) = Invalid
<1> DEFINE trimmed == Trim(text)
           network == Before(From(trimmed, 2), "]")
           rest == After(trimmed, "]")
           colons == At(trimmed, ":")
           one_colon == At(trimmed, "v6") = {} /\ \E i \in colons : colons = {i}
<1>1. trimmed \in Seq(Token) /\ ~Lacks(trimmed, "word")
  BY TrimmedIsText, TrimKeepsWords
<1>2. CASE trimmed # <<>> /\ trimmed[1].is = "["
  <2>1. CASE At(trimmed, "]") = {}
    BY <1>2, <2>1, Zenon DEF entry_from_str
  <2>2. CASE At(trimmed, "]") # {}
    <3> HIDE DEF trimmed
    <3> DEFINE k == FirstAt(trimmed, "]")
               before == Before(trimmed, "]")
    <3>1. k \in Nat /\ 1 <= k /\ k <= Len(trimmed) /\ before \in Seq(Token) /\ rest \in Seq(Token)
      BY <1>1, <2>2, FirstIsThere
    <3>2. ~Lacks(before, "word") \/ ~Lacks(rest, "word")
      BY <1>1, <2>2, SplitKeepsWords
    <3>3. network = SubSeq(trimmed, 2, k - 1) /\ before = SubSeq(trimmed, 1, k - 1)
      <4>1. network = SubSeq(trimmed, 2, k - 1)
        BY <1>1, <1>2, <2>2, Bracketed
      <4> QED
        BY <4>1 DEF Before
    <3> HIDE DEF network, rest, k, before
    <3>4. network \in Seq(Token)
      BY <1>1, <3>1, <3>3
    <3>5. ~Lacks(before, "word") => ~Lacks(network, "word")
      <4> SUFFICES ASSUME ~Lacks(before, "word") PROVE ~Lacks(network, "word")
        OBVIOUS
      <4>1. PICK w \in 1 .. k - 1 : trimmed[w].is = "word"
        BY <1>1, <3>1, <3>3 DEF Lacks
      <4>2. w # 1
        BY <1>2, <4>1
      <4>3. w - 1 \in DOMAIN network /\ network[w - 1] = trimmed[w]
        BY <1>1, <3>1, <3>3, <4>1, <4>2
      <4> QED
        BY <4>1, <4>3 DEF Lacks
    <3>6. CASE rest = <<>>
      <4>1. Lacks(rest, "word")
        BY <3>6 DEF Lacks
      <4>2. entry_of(network, <<>>) = Invalid
        BY <3>2, <3>4, <3>5, <4>1, BareEntryHasNoWord
      <4> QED
        BY <1>2, <2>2, <3>6, <4>2, Zenon DEF entry_from_str, trimmed, network, rest
    <3>7. CASE rest # <<>> /\ rest[1].is = ":"
      <4> DEFINE ports == SubSeq(rest, 2, Len(rest))
      <4>1. ports \in Seq(Token)
        BY <3>1
      <4>2. ~Lacks(rest, "word") => ~Lacks(ports, "word")
        <5> SUFFICES ASSUME ~Lacks(rest, "word") PROVE ~Lacks(ports, "word")
          OBVIOUS
        <5>1. PICK w \in 1 .. Len(rest) : rest[w].is = "word"
          BY <3>1 DEF Lacks
        <5>2. w # 1
          BY <3>7, <5>1
        <5>3. w - 1 \in DOMAIN ports /\ ports[w - 1] = rest[w]
          BY <3>1, <5>1, <5>2
        <5> QED
          BY <5>1, <5>3 DEF Lacks
      <4> HIDE DEF ports
      <4>3. entry_of(network, <<ports>>) = Invalid
        BY <3>2, <3>4, <3>5, <4>1, <4>2, EntryHasNoWord
      <4> QED
        BY <1>2, <2>2, <3>7, <4>3, Zenon DEF entry_from_str, From, trimmed, network, rest, ports
    <3>8. CASE rest # <<>> /\ rest[1].is # ":"
      BY <1>2, <2>2, <3>8, Zenon DEF entry_from_str, trimmed, rest
    <3> QED
      BY <3>6, <3>7, <3>8
  <2> QED
    BY <2>1, <2>2
<1>3. CASE ~(trimmed # <<>> /\ trimmed[1].is = "[") /\ one_colon
  <2>1. At(trimmed, ":") # {}
    BY <1>3, Zenon
  <2>2. entry_of(Before(trimmed, ":"), <<After(trimmed, ":")>>) = Invalid
    <3> HIDE DEF trimmed
    <3>1. Before(trimmed, ":") \in Seq(Token) /\ After(trimmed, ":") \in Seq(Token)
      BY <1>1, <2>1, FirstIsThere
    <3>2. ~Lacks(Before(trimmed, ":"), "word") \/ ~Lacks(After(trimmed, ":"), "word")
      BY <1>1, <2>1, SplitKeepsWords
    <3> QED
      BY <3>1, <3>2, EntryHasNoWord
  <2> QED
    BY <1>3, <2>2, Zenon DEF entry_from_str
<1>4. CASE ~(trimmed # <<>> /\ trimmed[1].is = "[") /\ ~one_colon
  <2>1. entry_of(trimmed, <<>>) = Invalid
    <3> HIDE DEF trimmed
    <3> QED
      BY <1>1, BareEntryHasNoWord
  <2> QED
    BY <1>4, <2>1, Zenon DEF entry_from_str
<1> QED
  BY <1>2, <1>3, <1>4

-----------------------------------------------------------------------------
(* A line that is written right is read as what it says.                   *)

\* The texts of a network and of ports, as TextOf writes them.
NetworkText(ip, prefix) ==
    <<Addr(ip)>> \o IF prefix = <<>> THEN <<>> ELSE <<Sep("/"), Number(prefix[1])>>

PortsText(ports) ==
    IF Len(ports) = 2 THEN <<Number(ports[1]), Sep("-"), Number(ports[2])>>
    ELSE <<Number(ports[1])>>

WrittenLength(ip, prefix) == IF prefix = <<>> THEN AddressBits(ip) ELSE prefix[1]

\* One port, or the first and the last of a range.
PortPair == {<<p>> : p \in Nat} \cup {<<p, q>> : p \in Nat, q \in Nat}

\* The tokens of a line.
LEMMA SeparatorTokens ==
    /\ Sep("/") \in Token /\ Sep("/").is = "/" /\ Sep("-") \in Token /\ Sep("-").is = "-"
    /\ Sep(":") \in Token /\ Sep(":").is = ":" /\ Sep("[") \in Token /\ Sep("[").is = "["
    /\ Sep("]") \in Token /\ Sep("]").is = "]" /\ Sep(Blank) \in Token /\ Sep(Blank).is = Blank
<1>1. \A c \in Separator : Sep(c) \in Token
  BY Zenon DEF Token
<1>2. \A c : Sep(c).is = c
  BY DEF Sep
<1>3. /\ "/" \in Separator /\ "-" \in Separator /\ ":" \in Separator
      /\ "[" \in Separator /\ "]" \in Separator /\ Blank \in Separator
  BY Zenon DEF Separator, Blank
<1> QED
  BY <1>1, <1>2, <1>3, Zenon

\* A numeral and the number it carries.
LEMMA NumeralToken ==
    ASSUME NEW n \in Nat
    PROVE  Number(n) \in Token /\ Number(n).is = "number" /\ Number(n).n = n
<1>1. Number(n) \in Token
  BY Zenon DEF Token
<1>2. Number(n).is = "number" /\ Number(n).n = n
  BY DEF Number
<1> QED
  BY <1>1, <1>2

\* An address, with its family as it is written.
LEMMA AddressToken ==
    ASSUME NEW ip \in Address
    PROVE  /\ Addr(ip) \in Token /\ Addr(ip).ip = ip
           /\ Addr(ip).is = IF IsV4(ip) THEN "v4" ELSE "v6"
<1>1. ip \in Seq(Nat)
  BY Ranges DEF Address, V4Address, V6Address
<1>2. Addr(ip) \in Token
  BY <1>1, Zenon DEF Token
<1>3. Addr(ip).ip = ip /\ Addr(ip).is = IF IsV4(ip) THEN "v4" ELSE "v6"
  BY DEF Addr
<1> QED
  BY <1>2, <1>3

\* The two forms of the text of a network.
LEMMA NetworkForms ==
    ASSUME NEW ip \in Address, NEW prefix \in Optional(Nat)
    PROVE  \/ prefix = <<>> /\ NetworkText(ip, prefix) = <<Addr(ip)>>
           \/ /\ prefix # <<>> /\ prefix[1] \in Nat
              /\ NetworkText(ip, prefix) = <<Addr(ip)>> \o (<<Sep("/")>> \o <<Number(prefix[1])>>)
<1>1. CASE prefix = <<>>
  <2>1. NetworkText(ip, prefix) = <<Addr(ip)>> \o <<>>
    BY <1>1 DEF NetworkText
  <2> QED
    BY <1>1, <2>1
<1>2. CASE prefix # <<>>
  <2>1. PICK n \in Nat : prefix = <<n>>
    BY <1>2 DEF Optional
  <2>2. prefix[1] = n
    BY <2>1
  <2>3. NetworkText(ip, prefix) = <<Addr(ip)>> \o <<Sep("/"), Number(prefix[1])>>
    BY <1>2 DEF NetworkText
  <2>4. <<Sep("/"), Number(prefix[1])>> = <<Sep("/")>> \o <<Number(prefix[1])>>
    OBVIOUS
  <2> QED
    BY <1>2, <2>1, <2>2, <2>3, <2>4
<1> QED
  BY <1>1, <1>2

\* The text of a network holds an address, and at most a slash and a number.
LEMMA NetworkTokens ==
    ASSUME NEW ip \in Address, NEW prefix \in Optional(Nat)
    PROVE  LET text == NetworkText(ip, prefix) IN
           /\ text \in Seq(Token) /\ Len(text) > 0 /\ text[1] = Addr(ip)
           /\ \A j \in DOMAIN text : text[j].is \in {Addr(ip).is, "/", "number"}
<1> DEFINE a == Addr(ip)
           s == Sep("/")
           m == Number(prefix[1])
<1>1. a \in Token /\ s \in Token /\ s.is = "/"
  BY AddressToken, SeparatorTokens
<1>2. prefix # <<>> => m \in Token /\ m.is = "number"
  BY NetworkForms, NumeralToken
<1>3. \/ NetworkText(ip, prefix) = <<a>>
      \/ prefix # <<>> /\ NetworkText(ip, prefix) = <<a>> \o (<<s>> \o <<m>>)
  BY NetworkForms
<1> HIDE DEF a, s, m
<1>4. CASE NetworkText(ip, prefix) = <<a>>
  <2>1. <<a>> \in Seq(Token) /\ Len(<<a>>) = 1 /\ <<a>>[1] = a /\ \A j \in DOMAIN <<a>> : <<a>>[j] = a
    BY <1>1
  <2> QED
    BY <1>4, <2>1 DEF a
<1>5. CASE prefix # <<>> /\ NetworkText(ip, prefix) = <<a>> \o (<<s>> \o <<m>>)
  <2> DEFINE text == <<a>> \o (<<s>> \o <<m>>)
  <2>1. /\ text \in Seq(Token) /\ Len(text) = 3 /\ text[1] = a /\ text[2] = s /\ text[3] = m
        /\ DOMAIN text = 1 .. 3
    BY <1>1, <1>2, <1>5
  <2> HIDE DEF text
  <2>2. \A j \in DOMAIN text : text[j] \in {a, s, m}
    BY <2>1
  <2>3. \A j \in DOMAIN text : text[j].is \in {a.is, "/", "number"}
    BY <1>1, <1>2, <1>5, <2>2
  <2> QED
    BY <1>5, <2>1, <2>3 DEF text, a
<1> QED
  BY <1>3, <1>4, <1>5

\* Its text has no other separator, and no blank at its ends.
LEMMA NetworkTight ==
    ASSUME NEW ip \in Address, NEW prefix \in Optional(Nat)
    PROVE  LET text == NetworkText(ip, prefix) IN
           /\ Tight(text) /\ Lacks(text, ":") /\ Lacks(text, "]") /\ Lacks(text, "[")
           /\ (IsV4(ip) => Lacks(text, "v6"))
<1> DEFINE text == NetworkText(ip, prefix)
           a == Addr(ip)
<1>1. /\ text \in Seq(Token) /\ Len(text) > 0
      /\ \A j \in DOMAIN text : text[j].is \in {a.is, "/", "number"}
  BY NetworkTokens
<1>2. a.is \in {"v4", "v6"} /\ (IsV4(ip) => a.is = "v4")
  BY AddressToken
<1> HIDE DEF text, a
<1>3. ASSUME NEW j \in DOMAIN text PROVE text[j].is # Blank
  <2>1. text[j].is \in {"v4", "v6", "/", "number"}
    BY <1>1, <1>2
  <2> QED
    BY <2>1, Zenon DEF Blank
<1>4. 1 \in DOMAIN text /\ Len(text) \in DOMAIN text
  BY <1>1
<1>5. Tight(text)
  BY <1>1, <1>3, <1>4 DEF Tight
<1>6. Lacks(text, ":") /\ Lacks(text, "]") /\ Lacks(text, "[") /\ (IsV4(ip) => Lacks(text, "v6"))
  BY <1>1, <1>2 DEF Lacks
<1> QED
  BY <1>5, <1>6 DEF text

\* Cidr::from_str on the text of a network.
LEMMA NetworkIsRead ==
    ASSUME NEW ip \in Address, NEW prefix \in Optional(Nat)
    PROVE  LET length == WrittenLength(ip, prefix) IN
           cidr_from_str(NetworkText(ip, prefix)) =
               IF length <= AddressBits(ip) THEN Parsed(cidr_new(ip, length)) ELSE Invalid
<1> DEFINE text == NetworkText(ip, prefix)
           a == Addr(ip)
           s == Sep("/")
           m == Number(prefix[1])
<1>1. a \in Token /\ a.is \in {"v4", "v6"} /\ a.ip = ip /\ s \in Token /\ s.is = "/"
  BY AddressToken, SeparatorTokens
<1>2. Trim(text) = text
  BY NetworkTokens, NetworkTight, TrimTight
<1>3. <<a>> \in Seq(Token) /\ IsAddr(<<a>>) /\ <<a>>[1].ip = ip /\ Lacks(<<a>>, "/")
  BY <1>1 DEF IsAddr, Lacks
<1>4. CASE prefix = <<>>
  <2>1. text = <<a>>
    BY <1>4, NetworkForms
  <2>2. At(text, "/") = {}
    BY <1>3, <2>1, NotSplit
  <2>3. cidr_from_str(text) = Parsed(cidr_new(ip, AddressBits(ip)))
    <3>1. IsAddr(text) /\ text[1].ip = ip
      BY <1>3, <2>1
    <3> HIDE DEF text
    <3> QED
      BY <1>2, <2>2, <3>1, Zenon DEF cidr_from_str
  <2>4. AddressBits(ip) \in Nat
    BY DEF AddressBits, UnitBits, IsV4, Address, V4Address, V6Address
  <2>5. AddressBits(ip) <= AddressBits(ip)
    BY <2>4
  <2> QED
    BY <1>4, <2>3, <2>5 DEF WrittenLength
<1>5. CASE prefix # <<>>
  <2>1. text = <<a>> \o (<<s>> \o <<m>>) /\ prefix[1] \in Nat
    BY <1>5, NetworkForms
  <2>2. m \in Token /\ m.is = "number" /\ m.n = prefix[1]
    BY <2>1, NumeralToken
  <2>3. At(text, "/") # {} /\ Before(text, "/") = <<a>> /\ After(text, "/") = <<m>>
    <3> HIDE DEF text, a, s, m
    <3>1. <<m>> \in Seq(Token)
      BY <2>2
    <3>2. <<a>> \in Seq(Token) /\ Lacks(<<a>>, "/") /\ s \in Token /\ s.is = "/"
      BY <1>1, <1>3
    <3>3. text = <<a>> \o (<<s>> \o <<m>>)
      BY <2>1
    <3> QED
      <4> DEFINE left == <<a>>
                 right == <<m>>
      <4> HIDE DEF left, right
      <4>1. left \in Seq(Token) /\ Lacks(left, "/") /\ right \in Seq(Token) /\ Divides(text, left, s, right)
        BY <3>1, <3>2, <3>3 DEF left, right, Divides
      <4>2. At(text, "/") # {} /\ Before(text, "/") = left /\ After(text, "/") = right
        BY <3>2, <4>1, Splits, Zenon
      <4> QED
        BY <4>2 DEF left, right
  <2>4. IsNumber(<<m>>, AddressBits(ip)) <=> prefix[1] <= AddressBits(ip)
    <3> HIDE DEF m
    <3> QED
      BY <2>2 DEF IsNumber
  <2>5. <<m>>[1].n = prefix[1]
    BY <2>2
  <2> HIDE DEF text, a, m
  <2>6. cidr_from_str(text) = IF prefix[1] <= AddressBits(ip) THEN Parsed(cidr_new(ip, prefix[1])) ELSE Invalid
    BY <1>2, <1>3, <2>3, <2>4, <2>5, Zenon DEF cidr_from_str
  <2> QED
    BY <1>5, <2>6 DEF WrittenLength, text
<1> QED
  BY <1>4, <1>5

\* The two forms of the text of ports.
LEMMA PortsForms ==
    ASSUME NEW ports \in PortPair
    PROVE  /\ ports # <<>> /\ ports[1] \in Nat /\ ports[Len(ports)] \in Nat
           /\ \/ ports[Len(ports)] = ports[1] /\ PortsText(ports) = <<Number(ports[1])>>
              \/ PortsText(ports) =
                     <<Number(ports[1])>> \o (<<Sep("-")>> \o <<Number(ports[Len(ports)])>>)
<1>1. CASE \E p \in Nat : ports = <<p>>
  <2>1. ports # <<>> /\ Len(ports) = 1 /\ ports[1] \in Nat
    BY <1>1
  <2>2. PortsText(ports) = <<Number(ports[1])>>
    BY <2>1 DEF PortsText
  <2> QED
    BY <2>1, <2>2
<1>2. CASE \E p \in Nat, q \in Nat : ports = <<p, q>>
  <2>1. ports # <<>> /\ Len(ports) = 2 /\ ports[1] \in Nat /\ ports[2] \in Nat
    BY <1>2
  <2>2. PortsText(ports) = <<Number(ports[1]), Sep("-"), Number(ports[2])>>
    BY <2>1 DEF PortsText
  <2>3. <<Number(ports[1]), Sep("-"), Number(ports[2])>> = <<Number(ports[1])>> \o (<<Sep("-")>> \o <<Number(ports[2])>>)
    OBVIOUS
  <2> QED
    BY <2>1, <2>2, <2>3
<1> QED
  BY <1>1, <1>2 DEF PortPair

\* The text of ports holds numbers, and at most a dash.
LEMMA PortsTokens ==
    ASSUME NEW ports \in PortPair
    PROVE  LET text == PortsText(ports) IN
           /\ text \in Seq(Token) /\ Len(text) > 0
           /\ \A j \in DOMAIN text : text[j].is \in {"number", "-"}
           /\ text[Len(text)].is = "number"
<1> DEFINE text == PortsText(ports)
           m == Number(ports[1])
           s == Sep("-")
           n == Number(ports[Len(ports)])
<1>1. /\ m \in Token /\ m.is = "number" /\ n \in Token /\ n.is = "number"
      /\ s \in Token /\ s.is = "-"
  BY PortsForms, NumeralToken, SeparatorTokens
<1>2. text = <<m>> \/ text = <<m>> \o (<<s>> \o <<n>>)
  BY PortsForms
<1> HIDE DEF text, m, s, n
<1>3. CASE text = <<m>>
  <2>1. text \in Seq(Token) /\ Len(text) = 1 /\ text[1] = m /\ DOMAIN text = 1 .. 1
    BY <1>1, <1>3
  <2>2. \A j \in DOMAIN text : text[j] = m
    BY <2>1
  <2> QED
    BY <1>1, <2>1, <2>2 DEF text
<1>4. CASE text = <<m>> \o (<<s>> \o <<n>>)
  <2>1. text \in Seq(Token) /\ Len(text) = 3 /\ text[1] = m /\ text[2] = s /\ text[3] = n /\ DOMAIN text = 1 .. 3
    BY <1>1, <1>4
  <2>2. \A j \in DOMAIN text : text[j] \in {m, s, n}
    BY <2>1
  <2> QED
    BY <1>1, <2>1, <2>2 DEF text
<1> QED
  BY <1>2, <1>3, <1>4

\* PortRange::from_str on the text of ports.
LEMMA PortsAreRead ==
    ASSUME NEW ports \in PortPair
    PROVE  LET first == ports[1]
               last == ports[Len(ports)]
           IN  port_range_from_str(PortsText(ports)) =
                   IF first \in 1 .. last /\ last <= 65535 THEN Parsed(first .. last) ELSE Invalid
<1> DEFINE first == ports[1]
           last == ports[Len(ports)]
           text == PortsText(ports)
           m == Number(first)
           s == Sep("-")
           n == Number(last)
<1>1. /\ first \in Nat /\ last \in Nat /\ m \in Token /\ n \in Token /\ s \in Token /\ s.is = "-"
      /\ m.is = "number" /\ n.is = "number" /\ m.n = first /\ n.n = last
  BY PortsForms, NumeralToken, SeparatorTokens
<1>2. (first = last /\ m = n /\ text = <<m>>) \/ text = <<m>> \o (<<s>> \o <<n>>)
  BY PortsForms
<1> HIDE DEF first, last, text, m, s, n
<1>3. /\ <<m>> \in Seq(Token) /\ <<n>> \in Seq(Token) /\ Lacks(<<m>>, "-")
      /\ Len(<<m>>) = 1 /\ <<m>>[1] = m /\ Len(<<n>>) = 1 /\ <<n>>[1] = n
  BY <1>1 DEF Lacks
<1>4. Trim(<<m>>) = <<m>> /\ Trim(<<n>>) = <<n>>
  <2>1. m.is # Blank /\ n.is # Blank
    BY <1>1, Zenon DEF Blank
  <2>2. Tight(<<m>>) /\ Tight(<<n>>)
    BY <1>3, <2>1 DEF Tight
  <2> QED
    BY <1>3, <2>2, TrimTight
<1>5. /\ Trim(IF At(text, "-") # {} THEN Before(text, "-") ELSE text) = <<m>>
      /\ Trim(IF At(text, "-") # {} THEN After(text, "-") ELSE text) = <<n>>
  <2>1. CASE first = last /\ m = n /\ text = <<m>>
    <3>1. At(text, "-") = {}
      BY <1>3, <2>1, NotSplit
    <3> QED
      BY <1>4, <2>1, <3>1
  <2>2. CASE text = <<m>> \o (<<s>> \o <<n>>)
    <3>1. At(text, "-") # {} /\ Before(text, "-") = <<m>> /\ After(text, "-") = <<n>>
      <4>1. Divides(text, <<m>>, s, <<n>>)
        BY <2>2 DEF Divides
      <4> QED
        BY <1>1, <1>3, <4>1, Splits, Zenon
    <3> QED
      BY <1>4, <3>1
  <2> QED
    BY <1>2, <2>1, <2>2
<1>6. /\ (IsNumber(<<m>>, 65535) <=> first <= 65535) /\ (IsNumber(<<n>>, 65535) <=> last <= 65535)
      /\ <<m>>[1].n = first /\ <<n>>[1].n = last
  BY <1>1, <1>3, SMT DEF IsNumber
<1>7. port_range_from_str(text) =
          IF first <= 65535 /\ first # 0 /\ last <= 65535 /\ last # 0 /\ first <= last
          THEN Parsed(first .. last) ELSE Invalid
  BY <1>5, <1>6, SMT DEF port_range_from_str
<1>8. first <= 65535 /\ first # 0 /\ last <= 65535 /\ last # 0 /\ first <= last
      <=> first \in 1 .. last /\ last <= 65535
  BY <1>1, SMT
<1> QED
  BY <1>7, <1>8, SMT DEF first, last, text

\* The parts of an entry, read together: a network alone,
LEMMA BareEntryIsRead ==
    ASSUME NEW ip \in Address, NEW prefix \in Optional(Nat)
    PROVE  LET length == WrittenLength(ip, prefix)
           IN  entry_of(NetworkText(ip, prefix), <<>>) =
                   IF length <= AddressBits(ip)
                   THEN Parsed([network |-> cidr_new(ip, length), ports |-> AnyPort]) ELSE Invalid
<1>1. cidr_from_str(NetworkText(ip, prefix)) =
          IF WrittenLength(ip, prefix) <= AddressBits(ip)
          THEN Parsed(cidr_new(ip, WrittenLength(ip, prefix))) ELSE Invalid
  BY NetworkIsRead
<1>2. Invalid.ok = FALSE /\ \A v : Parsed(v).ok = TRUE /\ Parsed(v).value = v
  BY DEF Invalid, Parsed
<1> QED
  BY <1>1, <1>2, Zenon DEF entry_of

\* The ports of a line are the ports of some service.
OpenPorts(ports) == ports[1] \in 1 .. ports[Len(ports)] /\ ports[Len(ports)] <= 65535

\* and a network with ports.
LEMMA EntryIsRead ==
    ASSUME NEW ip \in Address, NEW prefix \in Optional(Nat), NEW ports \in PortPair
    PROVE  LET length == WrittenLength(ip, prefix)
           IN  entry_of(NetworkText(ip, prefix), <<PortsText(ports)>>) =
                   IF length <= AddressBits(ip) /\ OpenPorts(ports)
                   THEN Parsed([network |-> cidr_new(ip, length), ports |-> ports[1] .. ports[Len(ports)]])
                   ELSE Invalid
<1> DEFINE text == PortsText(ports)
           range == ports[1] .. ports[Len(ports)]
<1>1. cidr_from_str(NetworkText(ip, prefix)) =
          IF WrittenLength(ip, prefix) <= AddressBits(ip)
          THEN Parsed(cidr_new(ip, WrittenLength(ip, prefix))) ELSE Invalid
  BY NetworkIsRead
<1>2. Invalid.ok = FALSE /\ \A v : Parsed(v).ok = TRUE /\ Parsed(v).value = v
  BY DEF Invalid, Parsed
<1>3. port_range_from_str(text) = IF OpenPorts(ports) THEN Parsed(range) ELSE Invalid
  BY PortsAreRead, SMT DEF OpenPorts
<1>4. <<text>> # <<>> /\ <<text>>[1] = text
  OBVIOUS
<1> HIDE DEF text, range
<1>5. entry_of(NetworkText(ip, prefix), <<text>>) =
          IF WrittenLength(ip, prefix) <= AddressBits(ip) /\ OpenPorts(ports)
          THEN Parsed([network |-> cidr_new(ip, WrittenLength(ip, prefix)), ports |-> range]) ELSE Invalid
  BY <1>1, <1>2, <1>3, <1>4, Zenon DEF entry_of
<1> QED
  BY <1>5 DEF text, range

\* The text is a network in brackets and what follows them.
InBrackets(text, network, tail) == text = <<Sep("[")>> \o (network \o (<<Sep("]")>> \o tail))

\* InternalWhitelistEntry::from_str on what trim leaves: a network in brackets,
LEMMA BracketsAreRead ==
    ASSUME NEW input, NEW network \in Seq(Token), NEW tail \in Seq(Token), Lacks(network, "]"),
           InBrackets(Trim(input), network, tail)
    PROVE  entry_from_str(input) =
               IF tail = <<>> THEN entry_of(network, <<>>)
               ELSE IF tail[1].is = ":" THEN entry_of(network, <<From(tail, 2)>>)
               ELSE Invalid
<1> DEFINE trimmed == Trim(input)
           open == Sep("[")
           close == Sep("]")
           inner == network \o (<<close>> \o tail)
           left == <<open>> \o network
<1>1. open \in Token /\ open.is = "[" /\ close \in Token /\ close.is = "]"
  BY SeparatorTokens
<1> HIDE DEF trimmed, open, close
<1>2. trimmed = <<open>> \o inner
  BY DEF trimmed, open, close, InBrackets
<1>3. inner \in Seq(Token) /\ left \in Seq(Token) /\ <<open>> \in Seq(Token) /\ <<close>> \o tail \in Seq(Token)
  BY <1>1
<1>4. trimmed = left \o (<<close>> \o tail)
  BY <1>2, <1>3, TextsJoin
<1>5. trimmed # <<>> /\ trimmed[1].is = "["
  <2> HIDE DEF inner
  <2>1. Len(trimmed) = 1 + Len(inner) /\ trimmed[1] = open
    BY <1>2, <1>3
  <2> QED
    BY <1>1, <1>3, <2>1
<1>6. Lacks(left, "]")
  <2>1. Len(left) = 1 + Len(network) /\ left[1] = open /\ \A j \in 1 .. Len(network) : left[j + 1] = network[j]
    BY <1>1
  <2> HIDE DEF left
  <2>2. ASSUME NEW j \in DOMAIN left PROVE left[j].is # "]"
    <3>1. j \in 1 .. Len(network) + 1
      BY <1>3, <2>1
    <3>2. CASE j = 1
      BY <1>1, <2>1, <3>2
    <3>3. CASE j # 1
      <4>1. j - 1 \in 1 .. Len(network) /\ (j - 1) + 1 = j
        BY <3>1, <3>3
      <4>2. left[j] = network[j - 1]
        BY <2>1, <4>1
      <4> QED
        BY <4>1, <4>2 DEF Lacks
    <3> QED
      BY <3>2, <3>3
  <2> QED
    BY <2>2 DEF Lacks
<1>7. At(trimmed, "]") # {} /\ After(trimmed, "]") = tail
  <2>1. Divides(trimmed, left, close, tail)
    BY <1>4 DEF Divides
  <2> HIDE DEF left
  <2> QED
    BY <1>1, <1>3, <1>6, <2>1, Splits, Zenon
<1>8. From(trimmed, 2) = inner
  <2> HIDE DEF inner
  <2> QED
    BY <1>1, <1>2, <1>3 DEF From
<1>9. Before(inner, "]") = network
  <2>1. Divides(inner, network, close, tail)
    BY DEF Divides
  <2> HIDE DEF inner
  <2> QED
    BY <1>1, <2>1, Splits, Zenon
<1> HIDE DEF inner, left
<1> QED
  BY <1>5, <1>7, <1>8, <1>9, Zenon DEF entry_from_str, trimmed

\* a network and ports, with one colon,
LEMMA ColonIsRead ==
    ASSUME NEW input, NEW network \in Seq(Token), NEW ports \in Seq(Token),
           Len(network) > 0, network[1].is # "[", Lacks(network, "v6"), Lacks(network, ":"),
           Lacks(ports, "v6"), Lacks(ports, ":"), Divides(Trim(input), network, Sep(":"), ports)
    PROVE  entry_from_str(input) = entry_of(network, <<ports>>)
<1> DEFINE trimmed == Trim(input)
           colon == Sep(":")
           k == Len(network) + 1
<1>1. colon \in Token /\ colon.is = ":"
  BY SeparatorTokens
<1> HIDE DEF trimmed, colon
<1>2. trimmed = network \o (<<colon>> \o ports)
  BY DEF trimmed, colon, Divides
<1>3. /\ trimmed \in Seq(Token) /\ Len(trimmed) = k + Len(ports) /\ trimmed[k] = colon /\ k \in 1 .. Len(trimmed)
      /\ \A j \in 1 .. Len(network) : trimmed[j] = network[j]
      /\ \A j \in 1 .. Len(ports) : trimmed[k + j] = ports[j]
  BY <1>1, <1>2
<1>4. ASSUME NEW j \in 1 .. Len(trimmed)
      PROVE  trimmed[j].is # "v6" /\ (trimmed[j].is = ":" <=> j = k)
  <2>1. CASE j < k
    <3>1. j \in 1 .. Len(network)
      BY <2>1
    <3>2. trimmed[j] = network[j] /\ j \in DOMAIN network
      BY <1>3, <3>1
    <3> QED
      BY <2>1, <3>2 DEF Lacks
  <2>2. CASE j = k
    BY <1>1, <1>3, <2>2
  <2>3. CASE j > k
    <3>1. j - k \in 1 .. Len(ports) /\ k + (j - k) = j
      BY <1>3, <2>3
    <3>2. trimmed[j] = ports[j - k] /\ j - k \in DOMAIN ports
      <4> HIDE DEF k
      <4>1. trimmed[k + (j - k)] = ports[j - k]
        BY <1>3, <3>1
      <4>2. j - k \in DOMAIN ports
        BY <3>1
      <4> QED
        BY <3>1, <4>1, <4>2
    <3> QED
      BY <2>3, <3>2 DEF Lacks
  <2> QED
    BY <1>3, <2>1, <2>2, <2>3
<1>5. At(trimmed, "v6") = {} /\ At(trimmed, ":") = {k}
  <2>1. DOMAIN trimmed = 1 .. Len(trimmed)
    BY <1>3
  <2> QED
    BY <1>3, <1>4, <2>1 DEF At
<1>6. trimmed[1].is # "["
  <2>1. 1 \in 1 .. Len(network)
    OBVIOUS
  <2>2. trimmed[1] = network[1]
    BY <1>3, <2>1
  <2> QED
    BY <2>2
<1>7. Before(trimmed, ":") = network /\ After(trimmed, ":") = ports
  <2>1. Divides(trimmed, network, colon, ports)
    BY <1>2 DEF Divides
  <2> QED
    BY <1>1, <2>1, Splits, Zenon
<1> HIDE DEF k
<1>8. \E i \in At(trimmed, ":") : At(trimmed, ":") = {i}
  BY <1>5
<1> QED
  BY <1>5, <1>6, <1>7, <1>8, Zenon DEF entry_from_str, trimmed

\* or a network.
LEMMA BareIsRead ==
    ASSUME NEW input, Trim(input) \in Seq(Token), Len(Trim(input)) > 0, Trim(input)[1].is # "[",
           Lacks(Trim(input), ":") \/ ~Lacks(Trim(input), "v6")
    PROVE  entry_from_str(input) = entry_of(Trim(input), <<>>)
<1> DEFINE trimmed == Trim(input)
<1> HIDE DEF trimmed
<1>1. At(trimmed, ":") = {} \/ At(trimmed, "v6") # {}
  BY DEF Lacks, At, trimmed
<1>2. trimmed[1].is # "["
  BY DEF trimmed
<1> QED
  BY <1>1, <1>2, Zenon DEF entry_from_str, trimmed

\* The lines of internal_whitelist with every address, prefix and ports.
WhitelistLine ==
    [ip : Address, prefix : Optional(Nat), ports : {<<>>} \cup PortPair,
     bracketed : BOOLEAN, padded : BOOLEAN]

PadText(padded) == IF padded THEN <<Sep(Blank)>> ELSE <<>>

TailText(ports) == IF ports = <<>> THEN <<>> ELSE <<Sep(":")>> \o PortsText(ports)

BracketText(bracketed, network) ==
    IF bracketed THEN <<Sep("[")>> \o network \o <<Sep("]")>> ELSE network

\* The text of a line, by its parts.
LEMMA TextUnfolds ==
    ASSUME NEW line
    PROVE  TextOf(line) =
               PadText(line.padded) \o BracketText(line.bracketed, NetworkText(line.ip, line.prefix))
                   \o TailText(line.ports) \o PadText(line.padded)
BY Zenon DEF TextOf, PadText, BracketText, NetworkText, TailText, PortsText, Blank

\* What joining texts keeps of their ends.
LEMMA EndsOfJoined ==
    ASSUME NEW a \in Seq(Token), NEW b \in Seq(Token)
    PROVE  /\ a \o b \in Seq(Token)
           /\ Len(a) > 0 => Len(a \o b) > 0 /\ (a \o b)[1] = a[1]
           /\ Len(b) > 0 => Len(a \o b) > 0 /\ (a \o b)[Len(a \o b)] = b[Len(b)]
<1>1. a \o b \in Seq(Token) /\ Len(a \o b) = Len(a) + Len(b)
  OBVIOUS
<1>2. Len(a) > 0 => (a \o b)[1] = a[1]
  OBVIOUS
<1>3. Len(b) > 0 => (a \o b)[Len(a) + Len(b)] = b[Len(b)]
  OBVIOUS
<1> QED
  BY <1>1, <1>2, <1>3

\* The colon and the ports, if there are any.
LEMMA TailTokens ==
    ASSUME NEW ports \in {<<>>} \cup PortPair
    PROVE  /\ TailText(ports) \in Seq(Token)
           /\ ports # <<>> => /\ Len(TailText(ports)) > 0 /\ TailText(ports)[1].is = ":"
                              /\ TailText(ports)[Len(TailText(ports))].is = "number"
                              /\ From(TailText(ports), 2) = PortsText(ports)
<1>1. CASE ports = <<>>
  <2>1. TailText(ports) = <<>>
    BY <1>1 DEF TailText
  <2>2. <<>> \in Seq(Token)
    OBVIOUS
  <2> QED
    BY <1>1, <2>1, <2>2, Zenon
<1>2. CASE ports # <<>>
  <2> DEFINE colon == Sep(":")
             text == PortsText(ports)
  <2>1. colon \in Token /\ colon.is = ":"
    BY SeparatorTokens
  <2>2. text \in Seq(Token) /\ Len(text) > 0 /\ text[Len(text)].is = "number"
    BY <1>2, PortsTokens
  <2>3. TailText(ports) = <<colon>> \o text
    BY <1>2 DEF TailText
  <2> HIDE DEF colon, text
  <2>4. <<colon>> \in Seq(Token) /\ Len(<<colon>>) = 1 /\ <<colon>>[1] = colon
    BY <2>1
  <2>5. /\ <<colon>> \o text \in Seq(Token) /\ Len(<<colon>> \o text) > 0
        /\ (<<colon>> \o text)[1] = colon
        /\ (<<colon>> \o text)[Len(<<colon>> \o text)] = text[Len(text)]
    BY <2>2, <2>4, EndsOfJoined
  <2>6. SubSeq(<<colon>> \o text, 2, Len(<<colon>> \o text)) = text
    BY <2>1, <2>2
  <2> QED
    BY <2>1, <2>2, <2>3, <2>5, <2>6 DEF From, text
<1> QED
  BY <1>1, <1>2

\* The text of a line without the blanks around it.
Core(line) == BracketText(line.bracketed, NetworkText(line.ip, line.prefix)) \o TailText(line.ports)

\* It has no blank at its ends, and its brackets are around the network.
LEMMA CoreIsTight ==
    ASSUME NEW line \in WhitelistLine
    PROVE  /\ BracketText(line.bracketed, NetworkText(line.ip, line.prefix)) \in Seq(Token)
           /\ Core(line) \in Seq(Token) /\ Tight(Core(line))
           /\ line.bracketed => InBrackets(Core(line), NetworkText(line.ip, line.prefix), TailText(line.ports))
<1> DEFINE network == NetworkText(line.ip, line.prefix)
           tail == TailText(line.ports)
           bracket == BracketText(line.bracketed, network)
           open == Sep("[")
           close == Sep("]")
<1>1. line.ip \in Address /\ line.prefix \in Optional(Nat) /\ line.ports \in {<<>>} \cup PortPair
  BY DEF WhitelistLine
<1>2. network \in Seq(Token) /\ Tight(network)
  BY <1>1, NetworkTokens, NetworkTight
<1>3. tail \in Seq(Token) /\ (Len(tail) > 0 => tail[Len(tail)].is = "number")
  <2>1. line.ports = <<>> => tail = <<>>
    BY DEF TailText
  <2>2. Len(<<>>) = 0
    OBVIOUS
  <2> QED
    BY <1>1, <2>1, <2>2, TailTokens
<1>4. open \in Token /\ open.is = "[" /\ close \in Token /\ close.is = "]"
  BY SeparatorTokens
<1>5. open.is # Blank /\ close.is # Blank /\ "number" # Blank
  BY <1>4, Zenon DEF Blank
<1>6. bracket = IF line.bracketed THEN (<<open>> \o network) \o <<close>> ELSE network
  BY DEF BracketText
<1>7. Core(line) = bracket \o tail
  BY DEF Core
<1> HIDE DEF network, tail, bracket, open, close
<1>8. <<open>> \in Seq(Token) /\ <<close>> \in Seq(Token) /\ <<open>> \o network \in Seq(Token)
  BY <1>2, <1>4
<1>9. bracket \in Seq(Token) /\ Tight(bracket)
  <2>1. CASE ~line.bracketed
    BY <1>2, <1>6, <2>1
  <2>2. CASE line.bracketed
    <3> DEFINE left == <<open>> \o network
    <3>1. Len(<<open>>) = 1 /\ <<open>>[1] = open /\ Len(<<close>>) = 1 /\ <<close>>[1] = close
      OBVIOUS
    <3>2. left \in Seq(Token) /\ Len(left) > 0 /\ left[1] = open
      BY <1>2, <1>8, <3>1, EndsOfJoined
    <3> HIDE DEF left
    <3>3. /\ left \o <<close>> \in Seq(Token) /\ Len(left \o <<close>>) > 0
          /\ (left \o <<close>>)[1] = open
          /\ (left \o <<close>>)[Len(left \o <<close>>)] = close
      BY <1>8, <3>1, <3>2, EndsOfJoined
    <3>4. bracket = left \o <<close>>
      BY <1>6, <2>2 DEF left
    <3> QED
      BY <1>5, <3>3, <3>4 DEF Tight
  <2> QED
    BY <2>1, <2>2
<1>10. Core(line) \in Seq(Token) /\ Tight(Core(line))
  <2>1. CASE Len(tail) = 0
    <3>1. tail = <<>>
      BY <1>3, <2>1
    <3>2. bracket \o tail = bracket
      BY <1>9, <3>1
    <3> QED
      BY <1>7, <1>9, <3>2
  <2>2. CASE Len(tail) > 0
    <3>1. /\ bracket \o tail \in Seq(Token) /\ Len(bracket \o tail) > 0
          /\ (bracket \o tail)[1] = bracket[1]
          /\ (bracket \o tail)[Len(bracket \o tail)] = tail[Len(tail)]
      BY <1>3, <1>9, <2>2, EndsOfJoined DEF Tight
    <3> QED
      BY <1>3, <1>5, <1>7, <1>9, <2>2, <3>1 DEF Tight
  <2>3. Len(tail) \in Nat
    BY <1>3
  <2> QED
    BY <2>1, <2>2, <2>3
<1>11. ASSUME line.bracketed PROVE Core(line) = <<open>> \o (network \o (<<close>> \o tail))
  <2>1. Core(line) = ((<<open>> \o network) \o <<close>>) \o tail
    BY <1>6, <1>7, <1>11
  <2>2. ((<<open>> \o network) \o <<close>>) \o tail = (<<open>> \o network) \o (<<close>> \o tail)
    BY <1>3, <1>8, TextsJoin
  <2>3. <<close>> \o tail \in Seq(Token)
    BY <1>3, <1>8
  <2>4. (<<open>> \o network) \o (<<close>> \o tail) = <<open>> \o (network \o (<<close>> \o tail))
    BY <1>2, <1>8, <2>3, TextsJoin
  <2> QED
    BY <2>1, <2>2, <2>4
<1> QED
  BY <1>9, <1>10, <1>11 DEF InBrackets, network, tail, bracket, open, close

\* What trim leaves of a line.
LEMMA LineIsTrimmed ==
    ASSUME NEW line \in WhitelistLine
    PROVE  TextOf(line) \in Seq(Token) /\ Trim(TextOf(line)) = Core(line)
<1> DEFINE bracket == BracketText(line.bracketed, NetworkText(line.ip, line.prefix))
           tail == TailText(line.ports)
           blank == Sep(Blank)
           core == Core(line)
<1>1. /\ bracket \in Seq(Token) /\ core \in Seq(Token) /\ Tight(core) /\ core = bracket \o tail
  BY CoreIsTight DEF Core
<1>2. tail \in Seq(Token)
  BY TailTokens DEF WhitelistLine
<1>3. blank \in Token
  BY SeparatorTokens
<1>4. TextOf(line) = PadText(line.padded) \o bracket \o tail \o PadText(line.padded)
  BY TextUnfolds
<1> HIDE DEF bracket, tail, blank, core
<1>5. CASE line.padded
  <2>1. PadText(line.padded) = <<blank>>
    BY <1>5 DEF PadText, blank
  <2>2. TextOf(line) = ((<<blank>> \o bracket) \o tail) \o <<blank>>
    BY <1>4, <2>1
  <2>3. <<blank>> \in Seq(Token)
    BY <1>3
  <2>4. (<<blank>> \o bracket) \o tail = <<blank>> \o core
    BY <1>1, <1>2, <2>3, TextsJoin
  <2>5. (<<blank>> \o core) \o <<blank>> = <<blank>> \o (core \o <<blank>>)
    BY <1>1, <2>3, TextsJoin
  <2>6. TextOf(line) = <<blank>> \o (core \o <<blank>>)
    BY <2>2, <2>4, <2>5
  <2>7. Trim(<<blank>> \o (core \o <<blank>>)) = core
    BY <1>1, <1>3, TrimPadded DEF blank
  <2>8. <<blank>> \o (core \o <<blank>>) \in Seq(Token)
    BY <1>1, <2>3
  <2> QED
    BY <2>6, <2>7, <2>8 DEF core
<1>6. CASE ~line.padded
  <2>1. PadText(line.padded) = <<>>
    BY <1>6 DEF PadText
  <2>2. TextOf(line) = ((<<>> \o bracket) \o tail) \o <<>>
    BY <1>4, <2>1
  <2>3. <<>> \o bracket = bracket /\ core \o <<>> = core
    BY <1>1
  <2>4. TextOf(line) = core
    BY <1>1, <2>2, <2>3
  <2> QED
    BY <1>1, <2>4, TrimTight DEF core
<1> QED
  BY <1>5, <1>6

\* The colon of an IPv6 network and the ports after it, without brackets, are
\* read with its prefix, which is then no number.
LEMMA PortsNeedBrackets ==
    ASSUME NEW ip \in Address, NEW prefix \in Optional(Nat), prefix # <<>>,
           NEW tail \in Seq(Token), Len(tail) > 0, Tight(NetworkText(ip, prefix) \o tail)
    PROVE  cidr_from_str(NetworkText(ip, prefix) \o tail) = Invalid
<1> DEFINE text == NetworkText(ip, prefix) \o tail
           a == Addr(ip)
           s == Sep("/")
           m == Number(prefix[1])
           left == <<a>>
           right == <<m>> \o tail
<1>1. /\ a \in Token /\ a.is \in {"v4", "v6"} /\ s \in Token /\ s.is = "/"
      /\ m \in Token /\ NetworkText(ip, prefix) = <<a>> \o (<<s>> \o <<m>>)
  BY AddressToken, SeparatorTokens, NetworkForms, NumeralToken
<1> HIDE DEF a, s, m
<1>2. /\ left \in Seq(Token) /\ Lacks(left, "/") /\ right \in Seq(Token) /\ Len(right) = 1 + Len(tail)
      /\ <<s>> \in Seq(Token) /\ <<m>> \in Seq(Token) /\ <<s>> \o <<m>> \in Seq(Token)
  <2>1. <<a>> \in Seq(Token) /\ <<s>> \in Seq(Token) /\ <<m>> \in Seq(Token)
    BY <1>1
  <2>2. DOMAIN <<a>> = {1} /\ <<a>>[1] = a
    OBVIOUS
  <2>3. Lacks(left, "/")
    BY <1>1, <2>2 DEF Lacks
  <2>4. <<s>> \o <<m>> \in Seq(Token)
    BY <2>1
  <2>5. right \in Seq(Token) /\ Len(right) = 1 + Len(tail)
    BY <2>1
  <2> QED
    BY <2>1, <2>3, <2>4, <2>5
<1>3. text = left \o (<<s>> \o right)
  <2>1. text = (<<a>> \o (<<s>> \o <<m>>)) \o tail
    BY <1>1
  <2>2. (<<a>> \o (<<s>> \o <<m>>)) \o tail = <<a>> \o ((<<s>> \o <<m>>) \o tail)
    BY <1>2, TextsJoin
  <2>3. (<<s>> \o <<m>>) \o tail = <<s>> \o (<<m>> \o tail)
    BY <1>2, TextsJoin
  <2> QED
    BY <2>1, <2>2, <2>3
<1>4. Divides(text, left, s, right) /\ Tight(text)
  BY <1>3 DEF Divides
<1> HIDE DEF text, left, right
<1>5. text \in Seq(Token) /\ At(text, "/") # {} /\ Before(text, "/") = left /\ After(text, "/") = right
  BY <1>1, <1>2, <1>4, Splits, Zenon
<1>6. Trim(text) = text
  BY <1>4, <1>5, TrimTight
<1>7. ~IsNumber(right, AddressBits(left[1].ip))
  BY <1>2 DEF IsNumber
<1>8. cidr_from_str(text) = Invalid
  BY <1>5, <1>6, <1>7, Zenon DEF cidr_from_str
<1> QED
  BY <1>8 DEF text

\* A line as it is written, with what its parts say.
LEMMA LineIsRead ==
    ASSUME NEW line \in WhitelistLine, ~IsAnotherAddress(line)
    PROVE  LET network == NetworkText(line.ip, line.prefix)
           IN  entry_from_str(TextOf(line)) =
                   IF line.ports = <<>> THEN entry_of(network, <<>>)
                   ELSE IF IsV6(line.ip) /\ ~line.bracketed THEN Invalid
                   ELSE entry_of(network, <<PortsText(line.ports)>>)
<1> DEFINE network == NetworkText(line.ip, line.prefix)
           tail == TailText(line.ports)
           text == TextOf(line)
           core == Core(line)
           ports == PortsText(line.ports)
<1>1. line.ip \in Address /\ line.prefix \in Optional(Nat) /\ line.ports \in {<<>>} \cup PortPair
  BY DEF WhitelistLine
<1>2. /\ network \in Seq(Token) /\ Len(network) > 0 /\ network[1].is \in {"v4", "v6"}
      /\ (network[1].is = "v4" <=> IsV4(line.ip))
  BY <1>1, NetworkTokens, AddressToken
<1>3. /\ Tight(network) /\ Lacks(network, ":") /\ Lacks(network, "]")
      /\ (IsV4(line.ip) => Lacks(network, "v6"))
  BY <1>1, NetworkTight
<1>4. /\ tail \in Seq(Token) /\ (line.ports = <<>> => tail = <<>>)
      /\ line.ports # <<>> => /\ Len(tail) > 0 /\ tail[1].is = ":" /\ From(tail, 2) = ports
  BY <1>1, TailTokens DEF TailText
<1>5. Trim(text) = core /\ core \in Seq(Token) /\ Tight(core)
  BY LineIsTrimmed, CoreIsTight
<1>6. IsV6(line.ip) <=> ~IsV4(line.ip)
  <2>1. \A ip \in Address : Len(ip) = 4 \/ Len(ip) = 8
    BY DEF Address, V4Address, V6Address
  <2>2. Len(line.ip) = 4 \/ Len(line.ip) = 8
    BY <1>1, <2>1
  <2> QED
    BY <2>2 DEF IsV6, IsV4
<1>7. CASE line.bracketed
  <2>1. InBrackets(Trim(text), network, tail)
    BY <1>5, <1>7, CoreIsTight
  <2> HIDE DEF network, tail, text, core, ports
  <2>2. entry_from_str(text) =
            IF tail = <<>> THEN entry_of(network, <<>>)
            ELSE IF tail[1].is = ":" THEN entry_of(network, <<From(tail, 2)>>)
            ELSE Invalid
    BY <1>2, <1>3, <1>4, <2>1, BracketsAreRead, Zenon
  <2>3. line.ports # <<>> => tail # <<>>
    BY <1>4
  <2> QED
    BY <1>4, <1>7, <2>2, <2>3 DEF network, text, ports
<1>8. CASE ~line.bracketed
  <2>1. core = network \o tail
    BY <1>8 DEF Core, BracketText
  <2>2. CASE line.ports = <<>>
    <3> HIDE DEF network, tail, text, core, ports
    <3>1. core = network
      BY <1>2, <1>4, <2>1, <2>2
    <3>2. Trim(text) = network /\ Trim(text) \in Seq(Token) /\ Len(Trim(text)) > 0 /\ Trim(text)[1].is # "[" /\ Lacks(Trim(text), ":")
      BY <1>2, <1>3, <1>5, <3>1
    <3>3. entry_from_str(text) = entry_of(network, <<>>)
      BY <3>2, BareIsRead
    <3> QED
      BY <2>2, <3>3 DEF network, text
  <2>3. CASE line.ports # <<>> /\ IsV4(line.ip)
    <3>1. /\ ports \in Seq(Token) /\ Lacks(ports, "v6") /\ Lacks(ports, ":")
      BY <1>1, <2>3, PortsTokens DEF Lacks
    <3>2. Divides(Trim(text), network, Sep(":"), ports)
      BY <1>5, <2>1, <2>3 DEF Divides, TailText
    <3>3. network[1].is # "[" /\ Lacks(network, "v6")
      BY <1>2, <1>3, <2>3
    <3> HIDE DEF network, tail, text, core, ports
    <3>4. entry_from_str(text) = entry_of(network, <<ports>>)
      BY <1>2, <1>3, <3>1, <3>2, <3>3, ColonIsRead
    <3> QED
      BY <1>6, <2>3, <3>4 DEF network, text, ports
  <2>4. CASE line.ports # <<>> /\ ~IsV4(line.ip)
    <3>1. line.prefix # <<>>
      BY <1>6, <1>8, <2>4 DEF IsAnotherAddress
    <3>2. cidr_from_str(core) = Invalid
      BY <1>1, <1>4, <1>5, <2>1, <2>4, <3>1, PortsNeedBrackets
    <3> HIDE DEF network, tail, text, core, ports
    <3>3. Len(core) > 0 /\ core[1] = network[1] /\ 1 \in DOMAIN core
      BY <1>2, <1>4, <2>1
    <3>4. core[1].is = "v6"
      BY <1>2, <2>4, <3>3
    <3>5. ~Lacks(core, "v6")
      BY <3>3, <3>4 DEF Lacks
    <3>6. entry_from_str(text) = entry_of(core, <<>>)
      <4>1. core[1].is # "["
        BY <3>4
      <4> QED
        BY <1>5, <3>3, <3>5, <4>1, BareIsRead
    <3>7. entry_of(core, <<>>) = Invalid
      <4>1. Invalid.ok = FALSE
        BY DEF Invalid
      <4> QED
        BY <3>2, <4>1, Zenon DEF entry_of
    <3> QED
      BY <1>6, <1>8, <2>4, <3>6, <3>7 DEF text
  <2> QED
    BY <2>2, <2>3, <2>4
<1> QED
  BY <1>7, <1>8 DEF WhitelistLine

\* Every line of internal_whitelist, whatever its address, its prefix and its
\* ports, opens exactly what it says, and a line with a word anywhere in it
\* opens nothing (LineOpensWhatItSays; the three from_str of src/policy).
THEOREM LineAlwaysOpensWhatItSays ==
    ASSUME question.line \in WhitelistLine, ~IsAnotherAddress(question.line),
           Asked("garbled") => question.wrong \in DOMAIN TextOf(question.line)
    PROVE  LineOpensWhatItSays
<1> DEFINE line == question.line
           length == WrittenLength(line.ip, line.prefix)
           first == line.ports[1]
           last == line.ports[Len(line.ports)]
           fits == length <= AddressBits(line.ip)
           network == NetworkText(line.ip, line.prefix)
           cidr == cidr_new(line.ip, length)
<1>1. line.ip \in Address /\ line.prefix \in Optional(Nat) /\ line.ports \in {<<>>} \cup PortPair
  BY DEF WhitelistLine
<1>2. entry_from_str(TextOf(line)) =
          IF line.ports = <<>> THEN entry_of(network, <<>>)
          ELSE IF IsV6(line.ip) /\ ~line.bracketed THEN Invalid
          ELSE entry_of(network, <<PortsText(line.ports)>>)
  BY LineIsRead
<1>3. entry_of(network, <<>>) = IF fits THEN Parsed([network |-> cidr, ports |-> AnyPort]) ELSE Invalid
  BY <1>1, BareEntryIsRead
<1>4. line.ports # <<>> =>
          entry_of(network, <<PortsText(line.ports)>>) =
              IF fits /\ OpenPorts(line.ports) THEN Parsed([network |-> cidr, ports |-> first .. last]) ELSE Invalid
  BY <1>1, EntryIsRead
<1>5. Asked("garbled") =>
          entry_from_str([TextOf(question.line) EXCEPT ![question.wrong] = Word]) = Invalid
  <2> SUFFICES ASSUME Asked("garbled")
               PROVE  entry_from_str([TextOf(line) EXCEPT ![question.wrong] = Word]) = Invalid
    OBVIOUS
  <2> DEFINE text == TextOf(line)
             wrong == question.wrong
             bad == [text EXCEPT ![wrong] = Word]
  <2>1. text \in Seq(Token) /\ wrong \in DOMAIN text
    BY LineIsTrimmed
  <2>2. Word \in Token /\ Word.is = "word"
    <3>1. "word" \in Separator
      BY Zenon DEF Separator
    <3>2. Word = Sep("word")
      BY DEF Word, Sep
    <3>3. Word \in Token
      BY <3>1, <3>2, Zenon DEF Token
    <3> QED
      BY <3>3 DEF Word
  <2> HIDE DEF text, wrong
  <2>3. bad \in Seq(Token) /\ wrong \in DOMAIN bad /\ bad[wrong] = Word
    BY <2>1, <2>2
  <2> HIDE DEF bad
  <2>4. ~Lacks(bad, "word")
    BY <2>2, <2>3 DEF Lacks
  <2>5. entry_from_str(bad) = Invalid
    BY <2>3, <2>4, LineHasNoWord
  <2> QED
    BY <2>5 DEF bad, text, wrong
<1>6. length = IF line.prefix = <<>> THEN AddressBits(line.ip) ELSE line.prefix[1]
  BY DEF WrittenLength
<1> HIDE DEF length, network, cidr
<1>7. entry_from_str(TextOf(line)) =
          IF /\ length <= AddressBits(line.ip)
             /\ line.ports # <<>> =>
                   /\ first \in 1 .. last /\ last <= 65535
                   /\ IsV6(line.ip) => line.bracketed
          THEN Parsed([network |-> cidr_new(line.ip, length),
                       ports |-> IF line.ports = <<>> THEN AnyPort ELSE first .. last])
          ELSE Invalid
  <2> HIDE DEF first, last, line
  <2>1. CASE line.ports = <<>>
    BY <1>2, <1>3, <2>1, SMT DEF cidr
  <2>2. CASE line.ports # <<>>
    BY <1>2, <1>4, <2>2, SMT DEF cidr, OpenPorts, first, last
  <2> QED
    BY <2>1, <2>2, SMT
<1> QED
  BY <1>5, <1>6, <1>7, SMT DEF LineOpensWhatItSays
=============================================================================
