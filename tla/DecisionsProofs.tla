--------------------------- MODULE DecisionsProofs ---------------------------
(***************************************************************************)
(* What FirefoxProxyManager promises about every request, for any widths   *)
(* of addresses, any policies, ports, hosts and forbidden ranges.          *)
(*                                                                         *)
(* The state is easy: whatever sessions and errors come, the fields are    *)
(* those of the policy that was last asked for, as it is or blocked        *)
(* (FieldsInv).  The decisions are not: that the masks, the comparison at  *)
(* the shorter prefix and the word by word match of the code mean what a   *)
(* subnet means.                                                           *)
(***************************************************************************)
EXTENDS MCDecisions, FiniteSetTheorems, WellFoundedInduction, TLAPS

Blocked(policy) == [policy EXCEPT !.mode = "blocked", !.port = NoPort]

\* The fields are those of the policy asked for, or of its blocked form.
FieldsInv ==
    /\ session \in Ports \cup {NoPort}
    /\ fresh \in BOOLEAN
    /\ \/ /\ asked = NoPolicy /\ policyKey = NoPolicy
          /\ fields = InitialFields
       \/ /\ asked \in Policies
          /\ policyKey \in {asked, Blocked(asked)}
          /\ fields = FieldsOf(policyKey)
          /\ fresh => policyKey = Effective(asked)
RequestsInv == part = "requests" => FieldsInv

\* A policy is never the key of no policy, nor is its blocked form.
LEMMA PolicyType ==
    ASSUME NEW p \in Policies
    PROVE  /\ p \in RoutingPolicy /\ Blocked(p) \in RoutingPolicy
           /\ p.mode \in {"direct", "active", "blocked"}
           /\ p.mode = "active" => p.port \in Ports
           /\ p # NoPolicy /\ Blocked(p) # NoPolicy
  <1>1. p \in RoutingPolicy /\ (p.mode = "active" => p.port # NoPort)
    BY PoliciesAssumption
  <1>2. Blocked(p) \in RoutingPolicy /\ p.port \in Ports \cup {NoPort}
    BY <1>1 DEF Blocked, RoutingPolicy
  <1>3. NoPolicy.mode = "none"
    BY DEF NoPolicy, EmptyPolicy
  <1>4. p.mode # "none" /\ Blocked(p).mode # "none"
    BY <1>1, <1>2 DEF RoutingPolicy
  <1>. QED  BY <1>1, <1>2, <1>3, <1>4 DEF RoutingPolicy

LEMMA EffectiveIs ==
    ASSUME NEW p \in Policies PROVE Effective(p) \in {p, Blocked(p)}
  BY DEF Effective, Blocked

\* apply().
LEMMA ApplyFields ==
    ASSUME FieldsInv, NEW p \in Policies, Apply(p) PROVE FieldsInv'
  <1>. DEFINE e == Effective(p)
  <1>1. /\ policyKey' = e /\ asked' = p /\ fresh' = TRUE /\ session' = session
        /\ \/ FailedFor(e) = e /\ fields' = fields
           \/ fields' = FieldsOf(e)
    BY DEF Apply
  <1>2. e \in {p, Blocked(p)} /\ e # NoPolicy
    BY EffectiveIs, PolicyType
  <1>3. fields' = FieldsOf(e)
    <2>1. CASE FailedFor(e) = e /\ fields' = fields
      <3>1. policyKey = e
        BY <1>2, <2>1 DEF FailedFor
      <3>. QED  BY <1>2, <2>1, <3>1 DEF FieldsInv
    <2>. QED  BY <1>1, <2>1
  <1>4. Effective(asked)' = e
    BY <1>1 DEF Effective
  <1>. QED  BY <1>1, <1>2, <1>3, <1>4 DEF FieldsInv

\* Every step of the proxy manager keeps FieldsInv.
LEMMA NextFields == FieldsInv /\ [Next]_vars => FieldsInv'
  <1>. SUFFICES ASSUME FieldsInv, [Next]_vars PROVE FieldsInv'
    OBVIOUS
  <1>1. ASSUME NEW p \in Policies, Apply(p) PROVE FieldsInv'
    BY <1>1, ApplyFields
  <1>2. ASSUME NEW s \in Ports \cup {NoPort}, SetProxySession(s) PROVE FieldsInv'
    BY <1>2 DEF SetProxySession, FieldsInv
  <1>3. CASE ProxyError
    BY <1>3 DEF ProxyError, FieldsInv, Effective
  <1>4. CASE Restart
    BY <1>4 DEF Restart, FieldsInv
  <1>5. CASE UNCHANGED vars
    BY <1>5 DEF vars, FieldsInv, Effective
  <1>. QED  BY <1>1, <1>2, <1>3, <1>4, <1>5 DEF Next

\* Nor do the steps of the exit node picker disturb it.
LEMMA RequestsInvariance == MCSpec => []RequestsInv
  <1>1. MCInit => RequestsInv
    BY DEF MCInit, Init, RequestsInv, FieldsInv
  <1>2. RequestsInv /\ [MCNext]_<<part, vars, pickerVars>> => RequestsInv'
    <2>. SUFFICES ASSUME RequestsInv, [MCNext]_<<part, vars, pickerVars>>,
                         part' = "requests"
                  PROVE  FieldsInv'
      BY DEF RequestsInv
    <2>1. part = "requests" /\ [Next]_vars
      BY DEF MCNext
    <2>. QED  BY <2>1, NextFields DEF RequestsInv
  <1>. QED  BY <1>1, <1>2, PTL DEF MCSpec

-----------------------------------------------------------------------------
(* Firefox decides as Chrome does                                          *)

\* A prefix of the tests of both listeners, the order aside.
LEMMA SupportedSets ==
    ASSUME NEW S \in SUBSET CIDRs
    PROVE  LET supported == {c \in S : IsSupportedSubnetCIDR(c)}
           IN  /\ OfFamily(supported, 4) = {c \in OfFamily(S, 4) : IsSupported4(c)}
               /\ ParseIPv6CIDRs(supported) = ParseIPv6CIDRs(S)
  <1>. DEFINE supported == {c \in S : IsSupportedSubnetCIDR(c)}
  <1>1. OfFamily(supported, 4) = {c \in OfFamily(S, 4) : IsSupported4(c)}
    BY DEF OfFamily, IsSupportedSubnetCIDR
  <1>2. {d \in OfFamily(supported, 6) : IsSupported6(d)}
          = {d \in OfFamily(S, 6) : IsSupported6(d)}
    BY DEF OfFamily, IsSupportedSubnetCIDR
  <1>. QED  BY <1>1, <1>2 DEF ParseIPv6CIDRs

\* For the policy in effect, the listener and the PAC script agree.
LEMMA SameDecision ==
    ASSUME NEW p \in Policies, NEW h \in Hosts, ~IsNumberLike(h),
           NEW s \in Ports \cup {NoPort}, NEW e,
           e = IF p.mode = "active" /\ ~HasCredentials(s, p.port)
               THEN Blocked(p) ELSE p
    PROVE  ResolveProxy(FieldsOf(e), s, h) = ChromeRoute(p, s, h)
  <1>. DEFINE f == FieldsOf(e)
              up == p.mode = "active" /\ HasCredentials(s, p.port)
              port == IF up THEN p.port ELSE BlockedPort
              pac == PAC(p, port)
  <1>1. /\ p \in RoutingPolicy /\ p.mode \in {"direct", "active", "blocked"}
        /\ p.mode = "active" => p.port \in Ports
        /\ p.subnets \in SUBSET CIDRs
    BY PolicyType DEF RoutingPolicy
  <1>2. /\ e.mode = IF p.mode = "active" /\ ~up THEN "blocked" ELSE p.mode
        /\ up => e.port = p.port
        /\ e.exit = p.exit /\ e.blockAll = p.blockAll /\ e.suffix = p.suffix
        /\ e.shortNames = p.shortNames /\ e.dnsRoutes = p.dnsRoutes
        /\ e.subnets = p.subnets /\ e.split = p.split
    BY <1>1 DEF Blocked, RoutingPolicy
  <1>3. /\ f.mode = e.mode
        /\ f.exit = pac.exit /\ f.suffix = pac.suffix
        /\ f.names = pac.names /\ f.routes = pac.routes /\ f.split = pac.split
        /\ pac.port = port
    BY <1>2 DEF FieldsOf, PAC
  <1>4. (f.mode = "active" /\ HasCredentials(s, f.port)) = up
    BY <1>1, <1>2, PortsAssumption DEF FieldsOf, HasCredentials, NoPort, BlockedPort
  <1>5. up => f.port = p.port /\ port # BlockedPort
    BY <1>1, <1>2, PortsAssumption DEF FieldsOf, HasCredentials, NoPort, BlockedPort
  <1>6. /\ pac.subnets4 = IF up THEN f.subnets ELSE f.blockedSubnets
        /\ pac.subnets6 = f.subnets6
    <2>. DEFINE supported == {c \in p.subnets : IsSupportedSubnetCIDR(c)}
    <2>1. /\ f.subnets = {c \in OfFamily(p.subnets, 4) : IsSupported4(c)}
          /\ f.blockedSubnets = OfFamily(p.subnets, 4)
          /\ f.subnets6 = ParseIPv6CIDRs(p.subnets)
      BY <1>2 DEF FieldsOf
    <2>2. /\ OfFamily(supported, 4) = {c \in OfFamily(p.subnets, 4) : IsSupported4(c)}
          /\ ParseIPv6CIDRs(supported) = ParseIPv6CIDRs(p.subnets)
      BY <1>1, SupportedSets
    <2>3. CASE up
      <3>1. /\ pac.subnets4 = OfFamily(supported, 4)
            /\ pac.subnets6 = ParseIPv6CIDRs(supported)
        BY <1>5, <2>3 DEF PAC
      <3>. QED  BY <2>1, <2>2, <2>3, <3>1
    <2>4. CASE ~up
      BY <2>1, <2>4 DEF PAC
    <2>. QED  BY <2>3, <2>4
  <1>7. (h.num # NoNumber) = h.digits
    BY HostsAssumption DEF IsNumberLike
  <1>8. ExitCarries(f, h) = CatchAll(pac, h)
    BY <1>3 DEF ExitCarries, CatchAll, UnderAny
  <1>. DEFINE
         test == \/ h = IPv4(ServiceIP)
                 \/ pac.suffix # <<>> /\ Under(h, pac.suffix)
                 \/ h.labels \in pac.names
                 \/ UnderAny(h, pac.routes)
                 \/ StartsWith(h.words, TailnetIPv6)
                 \/ h.digits /\ InNet(h.num, CGNAT)
                 \/ h.digits /\ \E c \in pac.subnets4 : InNet(h.num, c)
                 \/ MatchesIPv6(h, pac.subnets6)
                 \/ CatchAll(pac, h)
  <1>9. FindProxyForURL(pac, h) = IF test THEN port ELSE Direct
    BY <1>3 DEF FindProxyForURL
  <1>10. ChromeRoute(p, s, h) =
           IF p.mode = "direct" THEN Direct ELSE FindProxyForURL(pac, h)
    BY DEF ChromeRoute
  <1>. DEFINE
         ranges == IF up THEN f.subnets ELSE f.blockedSubnets
         mine == \/ h = IPv4(ServiceIP)
                 \/ h.labels \in f.names
                 \/ UnderAny(h, f.routes)
                 \/ StartsWith(h.words, TailnetIPv6)
                 \/ h.num # NoNumber /\ InNet(h.num, CGNAT)
                 \/ f.suffix # <<>> /\ Under(h, f.suffix)
                 \/ h.num # NoNumber /\ \E c \in ranges : InNet(h.num, c)
                 \/ MatchesIPv6(h, f.subnets6)
                 \/ ExitCarries(f, h)
  <1>11. ResolveProxy(f, s, h) =
           IF f.mode = "direct" THEN Direct
           ELSE IF mine THEN (IF up THEN f.port ELSE BlockedPort) ELSE Direct
    <2>. DEFINE credentials == f.mode = "active" /\ HasCredentials(s, f.port)
    <2>1. credentials = up
      BY <1>4
    <2>2. (\E c \in (IF credentials THEN f.subnets ELSE f.blockedSubnets) : InNet(h.num, c))
            = (\E c \in ranges : InNet(h.num, c))
      BY <2>1
    <2>. HIDE DEF up, credentials, f
    <2>. QED  BY <2>1, <2>2 DEF ResolveProxy, credentials
  <1>12. mine = test
    BY <1>3, <1>6, <1>7, <1>8
  <1>13. (f.mode = "direct") = (p.mode = "direct")
    BY <1>2, <1>3
  <1>. QED
    BY <1>5, <1>9, <1>10, <1>11, <1>12, <1>13

\* With the session of the last apply(), Firefox's listener sends each request
\* where the PAC script of the same policy sends it.
THEOREM SameRouteTheorem == MCSpec => []RequestsTakeSameRoute
  <1>1. RequestsInv => RequestsTakeSameRoute
    <2>. SUFFICES ASSUME FieldsInv, asked # NoPolicy, fresh, NEW h \in Hosts,
                         ~IsNumberLike(h)
                  PROVE  Route(h) = ChromeRoute(asked, session, h)
      BY DEF RequestsInv, RequestsTakeSameRoute, SameRoute
    <2>1. /\ asked \in Policies /\ session \in Ports \cup {NoPort}
          /\ fields = FieldsOf(policyKey) /\ policyKey = Effective(asked)
      BY DEF FieldsInv
    <2>2. policyKey = IF asked.mode = "active" /\ ~HasCredentials(session, asked.port)
                      THEN Blocked(asked) ELSE asked
      BY <2>1 DEF Effective, Blocked
    <2>. QED  BY <2>1, <2>2, SameDecision DEF Route
  <1>. QED  BY <1>1, RequestsInvariance, PTL

-----------------------------------------------------------------------------
(* Numbers                                                                 *)

\* A set of naturals has a least element.
LEMMA LeastElement ==
    ASSUME NEW T \in SUBSET Nat, T # {}
    PROVE  Min(T) \in T /\ \A y \in T : Min(T) <= y
  <1>1. PICK x \in T : \A y \in T : ~(<<y, x>> \in OpToRel(<, Nat))
    BY NatLessThanWellFounded, WFMin, Zenon
  <1>2. \A y \in T : ~(y < x)
    BY <1>1 DEF OpToRel
  <1>3. \A y \in T : x <= y
    BY <1>2
  <1>. QED  BY <1>1, <1>3 DEF Min

\* Induction over the naturals, in the form of a set.
LEMMA SetInduction ==
    ASSUME NEW S \in SUBSET Nat, 0 \in S, \A n \in S : n + 1 \in S
    PROVE  S = Nat
  <1>. SUFFICES ASSUME S # Nat PROVE FALSE
    OBVIOUS
  <1>. DEFINE T == Nat \ S
              x == Min(T)
  <1>1. x \in T /\ \A y \in T : x <= y
    BY LeastElement
  <1>. HIDE DEF x
  <1>2. x \in Nat /\ x \notin S /\ x # 0
    BY <1>1
  <1>3. x - 1 \in Nat /\ x - 1 < x /\ (x - 1) + 1 = x
    BY <1>2
  <1>4. x - 1 \in S
    BY <1>1, <1>2, <1>3
  <1>. QED  BY <1>2, <1>3, <1>4

\* A quotient and a remainder, and that there are no others.
LEMMA Division ==
    ASSUME NEW x \in Nat, NEW d \in Nat \ {0}
    PROVE  /\ x \div d \in Nat /\ x % d \in Nat /\ x % d \in 0 .. (d - 1)
           /\ x = d * (x \div d) + (x % d)
  <1>1. x \div d \in Nat /\ x % d \in 0 .. (d - 1)
    OBVIOUS
  <1>2. x % d \in Nat
    BY <1>1
  <1>3. x = d * (x \div d) + (x % d)
    OBVIOUS
  <1>. QED  BY <1>1, <1>2, <1>3
LEMMA DivisionUnique ==
    ASSUME NEW x \in Nat, NEW d \in Nat \ {0}, NEW q \in Nat, NEW r \in 0 .. (d - 1),
           x = d * q + r
    PROVE  x \div d = q /\ x % d = r
  OBVIOUS
LEMMA ProductInNat ==
    ASSUME NEW a \in Nat \ {0}, NEW b \in Nat \ {0} PROVE a * b \in Nat \ {0}
  OBVIOUS

\* Dividing twice is dividing by the product.
LEMMA DivisionTwice ==
    ASSUME NEW x \in Nat, NEW d \in Nat \ {0}, NEW e \in Nat \ {0}
    PROVE  x \div (d * e) = (x \div d) \div e
  <1>. DEFINE q == x \div d
              r == x % d
              y == q \div e
              z == q % e
  <1>1. q \in Nat /\ r \in 0 .. (d - 1) /\ x = d * q + r
    BY Division
  <1>. HIDE DEF q, r
  <1>2. y \in Nat /\ z \in 0 .. (e - 1) /\ q = e * y + z
    BY <1>1, Division
  <1>. HIDE DEF y, z
  <1>3. x = (d * e) * y + (d * z + r)
    BY <1>1, <1>2
  <1>4. d * z + r \in 0 .. ((d * e) - 1)
    <2>1. d * z <= d * (e - 1) /\ d * z >= 0 /\ d * z \in Int
      BY <1>2
    <2>2. d * (e - 1) = d * e - d
      OBVIOUS
    <2>. QED  BY <1>1, <2>1, <2>2
  <1>5. d * e \in Nat \ {0}
    BY ProductInNat
  <1>6. x \div (d * e) = y
    BY <1>2, <1>3, <1>4, <1>5, DivisionUnique
  <1>. QED  BY <1>6 DEF y, q

\* The powers of two that addresses need.
Exponents == 0 .. (Bits + WordBits + 1)
LEMMA PowerPositive == \A i \in Exponents : 2^i \in Nat \ {0}
  <1>. DEFINE S == {i \in Nat : i \in Exponents => 2^i \in Nat \ {0}}
  <1>1. 0 \in S
    OBVIOUS
  <1>2. ASSUME NEW n \in S PROVE n + 1 \in S
    <2>. SUFFICES ASSUME n + 1 \in Exponents PROVE 2^(n + 1) \in Nat \ {0}
      OBVIOUS
    <2>1. n \in 0 .. (Bits + WordBits)
      BY WidthsAreNatural DEF Exponents
    <2>2. 2^n \in Nat \ {0} /\ 2^(n + 1) = 2 * 2^n
      BY <2>1, PowersOfTwo, WidthsAreNatural DEF Exponents
    <2>. QED  BY <2>2
  <1>3. S = Nat
    BY <1>1, <1>2, SetInduction
  <1>4. \A i \in Nat : i \in Exponents => 2^i \in Nat \ {0}
    BY <1>3
  <1>5. Exponents \subseteq Nat
    BY WidthsAreNatural DEF Exponents
  <1>. QED  BY <1>4, <1>5

LEMMA PowerSum ==
    ASSUME NEW i \in Nat, NEW j \in Nat, i + j \in Exponents
    PROVE  2^(i + j) = 2^i * 2^j
  <1>. DEFINE S == {k \in Nat : i + k \in Exponents => 2^(i + k) = 2^i * 2^k}
  <1>1. 0 \in S
    <2>1. i \in Exponents
      BY WidthsAreNatural DEF Exponents
    <2>2. 2^i \in Nat /\ 2^0 = 1 /\ i + 0 = i
      BY <2>1, PowerPositive
    <2>. QED  BY <2>2
  <1>2. ASSUME NEW k \in S PROVE k + 1 \in S
    <2>. SUFFICES ASSUME i + (k + 1) \in Exponents
                  PROVE  2^(i + (k + 1)) = 2^i * 2^(k + 1)
      OBVIOUS
    <2>1. /\ k \in 0 .. (Bits + WordBits) /\ i + k \in 0 .. (Bits + WordBits)
          /\ i + (k + 1) = (i + k) + 1 /\ i \in Exponents
      BY WidthsAreNatural DEF Exponents
    <2>2. 2^(i + (k + 1)) = 2 * 2^(i + k) /\ 2^(k + 1) = 2 * 2^k
      BY <2>1, PowersOfTwo
    <2>3. 2^(i + k) = 2^i * 2^k
      BY <2>1, WidthsAreNatural DEF Exponents
    <2>4. 2^i \in Nat /\ 2^k \in Nat
      BY <2>1, PowerPositive, WidthsAreNatural DEF Exponents
    <2>. QED  BY <2>2, <2>3, <2>4
  <1>3. S = Nat
    BY <1>1, <1>2, SetInduction
  <1>. QED  BY <1>3

-----------------------------------------------------------------------------
(* IPv4: masks and prefixes                                                *)

\* The size of a subnet of a prefix length.
Size(prefix) == 2^(Bits - prefix)

LEMMA SizeType ==
    ASSUME NEW p \in 0..Bits
    PROVE  /\ Size(p) \in Nat \ {0} /\ 2^Bits \in Nat \ {0} /\ 2^p \in Nat \ {0}
           /\ 2^Bits = Size(p) * 2^p
  <1>1. /\ Bits - p \in Exponents /\ Bits \in Exponents /\ p \in Exponents
        /\ Bits - p \in Nat /\ (Bits - p) + p = Bits
    BY WidthsAreNatural DEF Exponents
  <1>. QED  BY <1>1, PowerPositive, PowerSum DEF Size

\* Of two subnets, the size of the larger one is a multiple of the other's.
LEMMA SizeRatio ==
    ASSUME NEW p \in 0..Bits, NEW q \in 0..p
    PROVE  Size(q) = Size(p) * 2^(p - q) /\ 2^(p - q) \in Nat \ {0}
  <1>1. /\ Bits - p \in Nat /\ p - q \in Nat /\ (Bits - p) + (p - q) = Bits - q
        /\ Bits - q \in Exponents /\ p - q \in Exponents
    BY WidthsAreNatural DEF Exponents
  <1>. QED  BY <1>1, PowerPositive, PowerSum DEF Size

\* parseCIDR() computes a run of leading ones.
LEMMA MaskIs ==
    ASSUME NEW p \in 0..Bits PROVE Mask(p) = 2^Bits - Size(p)
  <1>. DEFINE d == 2^Bits
              k == Size(p)
              m == 2^p
  <1>1. k \in Nat \ {0} /\ d \in Nat \ {0} /\ m \in Nat \ {0} /\ d = k * m
    BY SizeType
  <1>2. CASE p = 0
    BY <1>1, <1>2, WidthsAreNatural DEF Mask, Size
  <1>3. CASE p # 0
    <2>1. (Bits - p) % Bits = Bits - p
      BY <1>3, WidthsAreNatural
    <2>2. Mask(p) = ((d - 1) * k) % d
      BY <1>3, <2>1 DEF Mask, ShiftedLeft, Size
    <2>. HIDE DEF d, k, m
    <2>3. (d - 1) * k = d * (k - 1) + (d - k) /\ k <= d
      BY <1>1
    <2>4. (d - 1) * k \in Nat /\ k - 1 \in Nat /\ d - k \in 0 .. (d - 1)
      BY <1>1, <2>3
    <2>5. ((d - 1) * k) % d = d - k
      <3>. DEFINE x == (d - 1) * k
                  q == k - 1
                  r == d - k
      <3>1. /\ x \in Nat /\ q \in Nat /\ r \in 0 .. (d - 1) /\ d \in Nat \ {0}
            /\ x = d * q + r
        BY <1>1, <2>3, <2>4
      <3>. HIDE DEF x, q, r
      <3>2. x % d = r
        BY <3>1, DivisionUnique
      <3>. QED  BY <3>2 DEF x, r
    <2>. QED  BY <2>2, <2>5 DEF d, k
  <1>. QED  BY <1>2, <1>3

\* Two addresses are the same under the mask exactly if their prefixes are.
LEMMA MaskedPrefix ==
    ASSUME NEW p \in 0..Bits, NEW a \in Address4, NEW b \in Address4
    PROVE  (Masked(a, 2^Bits - Size(p)) = Masked(b, 2^Bits - Size(p)))
             <=> SamePrefix(a, b, p, Bits)
  <1>. DEFINE k == Size(p)
  <1>1. k \in Nat \ {0} /\ 2^Bits \in Nat \ {0}
    BY SizeType
  <1>2. a \in Nat /\ b \in Nat
    BY <1>1 DEF Address4
  <1>3. 2^Bits - (2^Bits - k) = k
    BY <1>1
  <1>4. SamePrefix(a, b, p, Bits) <=> a \div k = b \div k
    BY DEF SamePrefix, Size
  <1>5. /\ Masked(a, 2^Bits - k) = a - (a % k)
        /\ Masked(b, 2^Bits - k) = b - (b % k)
    BY <1>3 DEF Masked
  <1>. HIDE DEF k
  <1>6. /\ a \div k \in Nat /\ a % k \in Nat /\ a = k * (a \div k) + (a % k)
        /\ b \div k \in Nat /\ b % k \in Nat /\ b = k * (b \div k) + (b % k)
    <2>1. ASSUME NEW x \in Nat
          PROVE  x \div k \in Nat /\ x % k \in Nat /\ x = k * (x \div k) + (x % k)
      BY <1>1, Division
    <2>. QED  BY <1>2, <2>1
  <1>7. a - (a % k) = k * (a \div k) /\ b - (b % k) = k * (b \div k)
    <2>1. ASSUME NEW x \in Nat, NEW q \in Nat, NEW m \in Nat, x = k * q + m
          PROVE  x - m = k * q
      BY <1>1, <2>1
    <2>. QED  BY <1>2, <1>6, <2>1
  <1>8. ASSUME NEW x \in Nat, NEW y \in Nat PROVE k * x = k * y <=> x = y
    BY <1>1
  <1>9. k * (a \div k) = k * (b \div k) <=> a \div k = b \div k
    BY <1>6, <1>8
  <1>. QED  BY <1>4, <1>5, <1>7, <1>9 DEF k

\* InNet() of the listener means that the address is of the subnet.
LEMMA InNetIs ==
    ASSUME NEW c \in CIDRs, c.family = 4, NEW n \in Address4
    PROVE  InNet(n, c) <=> SamePrefix(n, c.num, c.prefix, Bits)
  <1>1. c.prefix \in 0..Bits /\ c.num \in Address4
    BY DEF CIDRs
  <1>. QED  BY <1>1, MaskIs, MaskedPrefix DEF InNet

\* A longer prefix in common is a shorter one in common.
LEMMA ShorterPrefix ==
    ASSUME NEW a \in Address4, NEW b \in Address4, NEW p \in 0..Bits, NEW q \in 0..p,
           SamePrefix(a, b, p, Bits)
    PROVE  SamePrefix(a, b, q, Bits)
  <1>. DEFINE k == Size(p)
              e == 2^(p - q)
  <1>1. q \in 0..Bits
    BY WidthsAreNatural
  <1>2. /\ k \in Nat \ {0} /\ 2^Bits \in Nat \ {0}
        /\ Size(q) = k * e /\ e \in Nat \ {0}
    BY SizeType, SizeRatio
  <1>3. a \in Nat /\ b \in Nat
    BY <1>2 DEF Address4
  <1>4. a \div k = b \div k
    BY DEF SamePrefix, Size
  <1>. HIDE DEF k, e
  <1>5. a \div (k * e) = (a \div k) \div e /\ b \div (k * e) = (b \div k) \div e
    BY <1>2, <1>3, DivisionTwice
  <1>6. a \div Size(q) = b \div Size(q)
    BY <1>2, <1>4, <1>5
  <1>. QED  BY <1>6 DEF SamePrefix, Size

\* The mask in common is that of the shorter prefix.
LEMMA CommonMask ==
    ASSUME NEW p \in 0..Bits, NEW q \in 0..Bits
    PROVE  Masked(Mask(p), Mask(q)) = 2^Bits - Size(Least(p, q))
  <1>. DEFINE d == 2^Bits
              j == Size(p)
              k == Size(q)
  <1>1. /\ d \in Nat \ {0} /\ j \in Nat \ {0} /\ k \in Nat \ {0}
        /\ d = j * 2^p /\ 2^p \in Nat \ {0} /\ d = k * 2^q /\ 2^q \in Nat \ {0}
    BY SizeType
  <1>2. Masked(Mask(p), Mask(q)) = (d - j) - ((d - j) % k)
    BY <1>1, MaskIs DEF Masked
  <1>3. CASE p < q
    <2>1. Least(p, q) = p
      BY <1>3 DEF Least
    <2>2. PICK e \in Nat \ {0} : j = k * e
      BY <1>3, SizeRatio
    <2>. HIDE DEF d, j, k
    <2>3. d - j = k * (2^q - e) + 0 /\ d - j \in Nat
      BY <1>1, <2>2
    <2>4. 2^q - e \in Nat
      BY <1>1, <2>2, <2>3
    <2>5. (d - j) % k = 0
      <3>. DEFINE x == d - j
                  f == 2^q - e
      <3>1. x \in Nat /\ f \in Nat /\ k \in Nat \ {0} /\ x = k * f + 0 /\ 0 \in 0 .. (k - 1)
        BY <1>1, <2>3, <2>4
      <3>. HIDE DEF x, f
      <3>2. x % k = 0
        BY <3>1, DivisionUnique
      <3>. QED  BY <3>2 DEF x
    <2>. QED  BY <1>1, <1>2, <2>1, <2>5 DEF d, j, k
  <1>4. CASE p >= q
    <2>1. Least(p, q) = q
      BY <1>4 DEF Least
    <2>2. PICK e \in Nat \ {0} : k = j * e
      BY <1>4, SizeRatio
    <2>. HIDE DEF d, j, k
    <2>3. d - j = k * (2^q - 1) + (k - j) /\ d - j \in Nat
      BY <1>1, <2>2
    <2>4. 2^q - 1 \in Nat /\ k - j \in 0 .. (k - 1)
      BY <1>1, <2>2
    <2>5. (d - j) % k = k - j
      BY <1>1, <2>3, <2>4, DivisionUnique
    <2>. QED  BY <1>1, <1>2, <2>1, <2>5 DEF d, j, k
  <1>. QED  BY <1>3, <1>4, WidthsAreNatural

\* What a prefix in common is: an equivalence.
LEMMA PrefixEquivalence ==
    ASSUME NEW a, NEW b, NEW c, NEW p
    PROVE  /\ SamePrefix(a, a, p, Bits)
           /\ SamePrefix(a, b, p, Bits) => SamePrefix(b, a, p, Bits)
           /\ SamePrefix(a, b, p, Bits) /\ SamePrefix(b, c, p, Bits)
                => SamePrefix(a, c, p, Bits)
  BY DEF SamePrefix

\* isSupportedSubnetCIDR() finds every range that shares an address with the
\* subnet, whichever of the two is the larger, and no other one.
LEMMA Overlaps4Is ==
    ASSUME NEW c \in CIDRs, NEW r \in CIDRs, c.family = 4, r.family = 4
    PROVE  /\ \A h \in Hosts : Covers(c, h) /\ Covers(r, h) => Overlaps4(c, r)
           /\ Overlaps4(c, r) => \E h \in Hosts : Covers(c, h) /\ Covers(r, h)
  <1>. DEFINE p == c.prefix
              q == r.prefix
              m == Least(p, q)
  <1>1. /\ p \in 0..Bits /\ q \in 0..Bits
        /\ c.num \in Address4 /\ r.num \in Address4
    BY DEF CIDRs
  <1>2. m \in 0..Bits /\ m \in 0..p /\ m \in 0..q /\ m \in {p, q}
    BY <1>1, WidthsAreNatural DEF Least
  <1>3. Overlaps4(c, r) <=> SamePrefix(c.num, r.num, m, Bits)
    BY <1>1, <1>2, CommonMask, MaskedPrefix DEF Overlaps4
  <1>. HIDE DEF m
  <1>4. ASSUME NEW h \in Hosts
        PROVE  /\ Covers(c, h) <=> h.digits /\ SamePrefix(h.num, c.num, p, Bits)
               /\ Covers(r, h) <=> h.digits /\ SamePrefix(h.num, r.num, q, Bits)
    BY DEF Covers
  <1>5. ASSUME NEW h \in Hosts, Covers(c, h), Covers(r, h) PROVE Overlaps4(c, r)
    <2>1. h.num \in Address4
      BY <1>4, <1>5, HostsAssumption
    <2>2. SamePrefix(h.num, c.num, m, Bits) /\ SamePrefix(h.num, r.num, m, Bits)
      BY <1>1, <1>2, <1>4, <1>5, <2>1, ShorterPrefix
    <2>. QED  BY <1>3, <2>2 DEF SamePrefix
  <1>6. ASSUME Overlaps4(c, r) PROVE \E h \in Hosts : Covers(c, h) /\ Covers(r, h)
    <2>1. \A n \in Address4 : IPv4(n) \in Hosts /\ IPv4(n).digits /\ IPv4(n).num = n
      BY HostsAssumption DEF IPv4
    <2>2. SamePrefix(c.num, r.num, m, Bits) /\ SamePrefix(r.num, c.num, m, Bits)
      BY <1>3, <1>6 DEF SamePrefix
    <2>3. SamePrefix(c.num, c.num, p, Bits) /\ SamePrefix(r.num, r.num, q, Bits)
      BY DEF SamePrefix
    <2>4. CASE m = q
      BY <1>1, <1>4, <2>1, <2>2, <2>3, <2>4
    <2>5. CASE m = p
      BY <1>1, <1>4, <2>1, <2>2, <2>3, <2>5
    <2>. QED  BY <1>2, <2>4, <2>5
  <1>. QED  BY <1>5, <1>6

-----------------------------------------------------------------------------
(* IPv6: words and bits                                                    *)

LEMMA WordPowers ==
    ASSUME NEW m \in 0..WordBits
    PROVE  /\ 2^(WordBits - m) \in Nat \ {0} /\ 2^WordBits \in Nat \ {0}
           /\ m # WordBits => 2^(WordBits - m) = 2^(WordBits - (m + 1)) * 2
  <1>1. WordBits - m \in Exponents /\ WordBits \in Exponents
    BY WidthsAreNatural DEF Exponents
  <1>2. ASSUME m # WordBits
        PROVE  2^(WordBits - m) = 2^(WordBits - (m + 1)) * 2
    <2>1. /\ WordBits - (m + 1) \in 0 .. (Bits + WordBits)
          /\ (WordBits - (m + 1)) + 1 = WordBits - m
          /\ WordBits - (m + 1) \in Exponents
      BY <1>2, WidthsAreNatural DEF Exponents
    <2>2. 2^(WordBits - (m + 1)) \in Nat
      BY <2>1, PowerPositive
    <2>3. 2^(WordBits - m) = 2 * 2^(WordBits - (m + 1))
      BY <2>1, PowersOfTwo
    <2>. QED  BY <2>2, <2>3
  <1>. QED  BY <1>1, <1>2, PowerPositive

\* The first m bits of a word are one number, or m bits one by one.
LEMMA WordBitwise ==
    ASSUME NEW x \in 0 .. (2^WordBits - 1), NEW y \in 0 .. (2^WordBits - 1),
           NEW m \in 0..WordBits
    PROVE  (x \div 2^(WordBits - m) = y \div 2^(WordBits - m)) <=>
           \A j \in 1..m : (x \div 2^(WordBits - j)) % 2 = (y \div 2^(WordBits - j)) % 2
  <1>. DEFINE Top(z, n) == z \div 2^(WordBits - n)
              Same(n) == \A j \in 1..n : Top(x, j) % 2 = Top(y, j) % 2
              S == {n \in Nat : n <= WordBits => (Top(x, n) = Top(y, n) <=> Same(n))}
  <1>0. 2^WordBits \in Nat \ {0} /\ x \in Nat /\ y \in Nat /\ WordBits \in Nat
    BY WordPowers, WidthsAreNatural
  <1>1. 0 \in S
    <2>1. x \div 2^WordBits = 0 /\ y \div 2^WordBits = 0
      <3>1. \A z \in 0 .. (2^WordBits - 1) : z = 2^WordBits * 0 + z
        BY <1>0
      <3>. QED  BY <1>0, <3>1, DivisionUnique
    <2>2. WordBits - 0 = WordBits
      BY <1>0
    <2>. QED  BY <2>1, <2>2
  <1>2. ASSUME NEW n \in S PROVE n + 1 \in S
    <2>. SUFFICES ASSUME n + 1 <= WordBits
                  PROVE  Top(x, n + 1) = Top(y, n + 1) <=> Same(n + 1)
      OBVIOUS
    <2>0. n \in 0..WordBits /\ n # WordBits /\ n + 1 \in 0..WordBits
      BY <1>0
    <2>1. Top(x, n) = Top(y, n) <=> Same(n)
      BY <1>0, <2>0
    <2>2. /\ 2^(WordBits - n) = 2^(WordBits - (n + 1)) * 2
          /\ 2^(WordBits - (n + 1)) \in Nat \ {0}
      BY <2>0, WordPowers
    <2>3. /\ Top(x, n) = Top(x, n + 1) \div 2 /\ Top(x, n + 1) \in Nat
          /\ Top(y, n) = Top(y, n + 1) \div 2 /\ Top(y, n + 1) \in Nat
      <3>. DEFINE d == 2^(WordBits - (n + 1))
      <3>1. /\ d \in Nat \ {0} /\ Top(x, n + 1) = x \div d /\ Top(x, n) = x \div (d * 2)
            /\ Top(y, n + 1) = y \div d /\ Top(y, n) = y \div (d * 2)
        BY <2>2
      <3>. HIDE DEF d, Top
      <3>2. ASSUME NEW z \in Nat
            PROVE  z \div (d * 2) = (z \div d) \div 2 /\ z \div d \in Nat
        <4>1. 2 \in Nat \ {0} /\ d \in Nat \ {0}
          BY <3>1
        <4>2. z \div d \in Nat
          BY <4>1, Division
        <4>3. z \div (d * 2) = (z \div d) \div 2
          BY <4>1, DivisionTwice
        <4>. QED  BY <4>2, <4>3
      <3>. QED  BY <1>0, <3>1, <3>2
    <2>4. Same(n + 1) <=> Same(n) /\ Top(x, n + 1) % 2 = Top(y, n + 1) % 2
      <3>1. n \in Nat
        OBVIOUS
      <3>2. \A j : j \in 1 .. (n + 1) <=> j \in 1..n \/ j = n + 1
        BY <3>1
      <3>. HIDE DEF Top
      <3>. QED  BY <3>2
    <2>5. ASSUME NEW a \in Nat, NEW b \in Nat
          PROVE  a = b <=> (a \div 2 = b \div 2 /\ a % 2 = b % 2)
      OBVIOUS
    <2>6. Top(x, n + 1) = Top(y, n + 1) <=>
            (Top(x, n) = Top(y, n) /\ Top(x, n + 1) % 2 = Top(y, n + 1) % 2)
      <3>. HIDE DEF Top
      <3>. QED  BY <2>3, <2>5
    <2>. HIDE DEF Top, Same
    <2>. QED  BY <2>1, <2>4, <2>6
  <1>3. S = Nat
    BY <1>1, <1>2, SetInduction
  <1>4. m \in Nat /\ m <= WordBits
    BY <1>0
  <1>. HIDE DEF S
  <1>5. m \in S
    BY <1>3, <1>4
  <1>. QED  BY <1>4, <1>5 DEF S

\* The bit j of the word i, and its place among all bits.
BitAt(words, i, j) == (words[i] \div 2^(WordBits - j)) % 2
Place(i, j) == (i - 1) * WordBits + j

LEMMA PlaceIs ==
    ASSUME NEW i \in 1..Words, NEW j \in 1..WordBits
    PROVE  /\ Place(i, j) \in 1 .. (Words * WordBits)
           /\ \A w : BitOf(w, Place(i, j)) = BitAt(w, i, j)
  <1>. DEFINE k == Place(i, j)
              W == WordBits
  <1>1. W \in Nat \ {0} /\ Words \in Nat \ {0} /\ i \in Nat /\ j \in Nat
    BY WidthsAreNatural
  <1>2. /\ k = W * (i - 1) + j /\ (i - 1) * W = W * (i - 1) /\ W * (i - 1) \in Nat
        /\ j - 1 \in 0 .. (W - 1) /\ i - 1 \in Nat /\ (i - 1) + 1 = i
    BY <1>1 DEF Place
  <1>. HIDE DEF k
  <1>3. k \in Nat /\ k >= 1 /\ k - 1 \in Nat /\ k - 1 = W * (i - 1) + (j - 1)
    BY <1>1, <1>2
  <1>4. (k - 1) \div W = i - 1
    <2>. DEFINE x == k - 1
                q == i - 1
                r == j - 1
    <2>1. x \in Nat /\ q \in Nat /\ r \in 0 .. (W - 1) /\ x = W * q + r
      BY <1>2, <1>3
    <2>. HIDE DEF x, q, r
    <2>2. x \div W = q
      BY <1>1, <2>1, DivisionUnique
    <2>. QED  BY <2>2 DEF x, q
  <1>5. k - (i - 1) * W = j
    BY <1>1, <1>2
  <1>6. ASSUME NEW w PROVE BitOf(w, k) = BitAt(w, i, j)
    BY <1>2, <1>4, <1>5 DEF BitOf, BitAt
  <1>7. k <= Words * W /\ Words * W \in Nat
    <2>1. W * (i - 1) <= W * (Words - 1)
      BY <1>1
    <2>2. W * (Words - 1) = Words * W - W /\ Words * W \in Nat
      BY <1>1
    <2>. QED  BY <1>1, <1>2, <2>1, <2>2
  <1>. QED  BY <1>3, <1>6, <1>7 DEF k

\* Every bit has a place in a word.
LEMMA PlaceOf ==
    ASSUME NEW k \in 1 .. (Words * WordBits)
    PROVE  \E i \in 1..Words, j \in 1..WordBits : k = Place(i, j)
  <1>. DEFINE W == WordBits
              x == k - 1
              q == x \div W
              r == x % W
  <1>1. W \in Nat \ {0} /\ Words \in Nat \ {0} /\ Words * W \in Nat
    BY WidthsAreNatural
  <1>2. x \in Nat /\ x < Words * W
    BY <1>1
  <1>3. q \in Nat /\ r \in 0 .. (W - 1) /\ x = W * q + r
    BY <1>1, <1>2, Division
  <1>4. k = x + 1 /\ k \in Nat
    BY <1>1
  <1>. HIDE DEF x, q, r
  <1>5. q < Words
    <2>. SUFFICES ASSUME q >= Words PROVE FALSE
      BY <1>1, <1>3
    <2>1. W * q >= W * Words /\ W * Words = Words * W
      BY <1>1, <1>3
    <2>. QED  BY <1>1, <1>2, <1>3, <2>1
  <1>6. q + 1 \in 1..Words /\ r + 1 \in 1..W
    BY <1>1, <1>3, <1>5
  <1>7. Place(q + 1, r + 1) = k
    <2>1. (q + 1) - 1 = q /\ q * W = W * q
      BY <1>1, <1>3
    <2>. QED  BY <1>1, <1>3, <1>4, <2>1 DEF Place
  <1>. QED  BY <1>6, <1>7

\* prefixMatches(), word by word, compares the first bits.
LEMMA PrefixMatchesIs ==
    ASSUME NEW a \in Address6, NEW b \in Address6, NEW n \in 0 .. (Words * WordBits)
    PROVE  PrefixMatches(a, b, n) <=> \A k \in 1..n : BitOf(a, k) = BitOf(b, k)
  <1>. DEFINE W == WordBits
              Left(i) == n - (i - 1) * W
              Upto(i) == Least(Left(i), W)
              Scale(i) == 2^(W - Upto(i))
  <1>1. W \in Nat \ {0} /\ Words \in Nat \ {0} /\ n \in Nat
    BY WidthsAreNatural
  <1>2. PrefixMatches(a, b, n) <=>
          \A i \in 1..Words : Left(i) > 0 => a[i] \div Scale(i) = b[i] \div Scale(i)
    BY DEF PrefixMatches
  <1>3. ASSUME NEW i \in 1..Words, Left(i) > 0
        PROVE  /\ Upto(i) \in 0..W
               /\ a[i] \div Scale(i) = b[i] \div Scale(i) <=>
                    \A j \in 1..Upto(i) : BitAt(a, i, j) = BitAt(b, i, j)
    <2>1. (i - 1) * W \in Nat
      BY <1>1
    <2>2. Left(i) \in Int
      BY <1>1, <2>1
    <2>3. Upto(i) \in 0..W
      BY <1>1, <1>3, <2>2 DEF Least
    <2>4. a[i] \in 0 .. (2^W - 1) /\ b[i] \in 0 .. (2^W - 1)
      BY DEF Address6
    <2>. HIDE DEF Upto
    <2>. QED  BY <2>3, <2>4, WordBitwise DEF BitAt
  <1>4. ASSUME NEW i \in 1..Words, NEW j \in 1..W
        PROVE  /\ (Left(i) > 0 /\ j \in 1..Upto(i)) <=> Place(i, j) \in 1..n
               /\ BitOf(a, Place(i, j)) = BitAt(a, i, j)
               /\ BitOf(b, Place(i, j)) = BitAt(b, i, j)
    <2>1. (i - 1) * W \in Nat
      BY <1>1
    <2>2. (Left(i) > 0 /\ j \in 1..Upto(i)) <=> Place(i, j) \in 1..n
      BY <1>1, <2>1 DEF Least, Place
    <2>. QED  BY <2>2, PlaceIs
  <1>. HIDE DEF Left, Upto, Scale
  <1>5. ASSUME PrefixMatches(a, b, n), NEW k \in 1..n
        PROVE  BitOf(a, k) = BitOf(b, k)
    <2>1. k \in 1 .. (Words * WordBits)
      BY <1>1
    <2>2. PICK i \in 1..Words, j \in 1..W : k = Place(i, j)
      BY <2>1, PlaceOf
    <2>3. Left(i) > 0 /\ j \in 1..Upto(i)
      BY <1>4, <2>2
    <2>4. BitAt(a, i, j) = BitAt(b, i, j)
      BY <1>2, <1>3, <1>5, <2>3
    <2>. QED  BY <1>4, <2>2, <2>4
  <1>6. ASSUME \A k \in 1..n : BitOf(a, k) = BitOf(b, k),
               NEW i \in 1..Words, Left(i) > 0
        PROVE  a[i] \div Scale(i) = b[i] \div Scale(i)
    <2>1. ASSUME NEW j \in 1..Upto(i) PROVE BitAt(a, i, j) = BitAt(b, i, j)
      <3>1. Upto(i) \in 0..W
        BY <1>3, <1>6
      <3>2. j \in 1..W
        BY <1>1, <3>1
      <3>. QED  BY <1>4, <1>6, <3>2
    <2>. QED  BY <1>3, <1>6, <2>1
  <1>. QED  BY <1>2, <1>5, <1>6

\* parseIPv6CIDR() clears bits past the prefix; the matches are the same.
LEMMA TruncatedMatches ==
    ASSUME NEW c \in CIDRs, c.family = 6, NEW a \in Address6
    PROVE  PrefixMatches(a, Truncated(c).words, Truncated(c).prefix)
             <=> PrefixMatches(a, c.words, c.prefix)
  <1>. DEFINE W == WordBits
              w == c.words
              Left(i) == c.prefix - (i - 1) * W
              Upto(i) == Least(Left(i), W)
              Scale(i) == 2^(W - Upto(i))
              Cleared(i) == IF Left(i) < 0 THEN 0 ELSE Least(Left(i), W)
              t == [i \in 1..Words |->
                      (w[i] \div 2^(W - Cleared(i))) * 2^(W - Cleared(i))]
  <1>1. /\ W \in Nat \ {0} /\ Words \in Nat \ {0} /\ Words * W \in Nat
        /\ c.prefix \in 0 .. (Words * WordBits) /\ w \in Address6
    BY WidthsAreNatural DEF CIDRs
  <1>2. Truncated(c).words = t /\ Truncated(c).prefix = c.prefix
    BY DEF Truncated, CIDRs
  <1>3. ASSUME NEW i \in 1..Words, Left(i) > 0
        PROVE  t[i] \div Scale(i) = w[i] \div Scale(i)
    <2>. DEFINE s == Scale(i)
    <2>1. (i - 1) * W \in Nat
      BY <1>1
    <2>2. Left(i) \in Int /\ Upto(i) \in 0..W /\ Cleared(i) = Upto(i)
      BY <1>1, <1>3, <2>1 DEF Least
    <2>3. s \in Nat \ {0} /\ 2^W \in Nat \ {0}
      BY <2>2, WordPowers
    <2>4. w[i] \in Nat /\ t[i] = (w[i] \div s) * s
      <3>1. w[i] \in 0 .. (2^W - 1)
        BY <1>1 DEF Address6
      <3>2. w[i] \in Nat
        BY <2>3, <3>1
      <3>3. W - Cleared(i) = W - Upto(i)
        BY <2>2
      <3>. HIDE DEF Cleared, Upto
      <3>. QED  BY <3>2, <3>3
    <2>. HIDE DEF s, t, w
    <2>5. w[i] \div s \in Nat
      BY <2>3, <2>4, Division
    <2>6. ASSUME NEW q \in Nat PROVE (q * s) \div s = q
      <3>1. q * s \in Nat /\ q * s = s * q + 0 /\ 0 \in 0 .. (s - 1)
        BY <2>3
      <3>. QED  BY <2>3, <3>1, DivisionUnique
    <2>. QED  BY <2>4, <2>5, <2>6 DEF s
  <1>4. /\ PrefixMatches(a, t, c.prefix) <=>
             \A i \in 1..Words : Left(i) > 0 => a[i] \div Scale(i) = t[i] \div Scale(i)
        /\ PrefixMatches(a, w, c.prefix) <=>
             \A i \in 1..Words : Left(i) > 0 => a[i] \div Scale(i) = w[i] \div Scale(i)
    <2>. HIDE DEF t, w
    <2>. QED  BY DEF PrefixMatches
  <1>. HIDE DEF Left, Scale, t
  <1>. QED  BY <1>2, <1>3, <1>4

LEMMA AddressHasWords == <<>> \notin Address6
  <1>1. \A w \in Address6 : DOMAIN w = 1..Words /\ 1 \in DOMAIN w
    BY WidthsAreNatural DEF Address6
  <1>. QED  BY <1>1

\* Which addresses an IPv6 subnet holds.
LEMMA Covers6Is ==
    ASSUME NEW c \in CIDRs, c.family = 6, NEW h \in Hosts
    PROVE  Covers(c, h) <=> /\ h.words \in Address6
                            /\ PrefixMatches(h.words, c.words, c.prefix)
  <1>1. c.words \in Address6 /\ c.prefix \in 0 .. (Words * WordBits)
    BY DEF CIDRs
  <1>2. h.words \in Address6 \cup {<<>>}
    BY HostsAssumption
  <1>. QED  BY <1>1, <1>2, AddressHasWords, PrefixMatchesIs DEF Covers

\* The comparison at the shorter prefix finds every range that shares an
\* address with the subnet, and no other one.
LEMMA Overlaps6Is ==
    ASSUME NEW c \in CIDRs, NEW r \in CIDRs, c.family = 6, r.family = 6
    PROVE  LET overlaps == PrefixMatches(c.words, r.words, Least(c.prefix, r.prefix))
           IN  /\ \A h \in Hosts : Covers(c, h) /\ Covers(r, h) => overlaps
               /\ overlaps => \E h \in Hosts : Covers(c, h) /\ Covers(r, h)
  <1>. DEFINE p == c.prefix
              q == r.prefix
              m == Least(p, q)
              Agree(a, b, n) == \A k \in 1..n : BitOf(a, k) = BitOf(b, k)
              overlaps == PrefixMatches(c.words, r.words, m)
  <1>1. /\ p \in 0 .. (Words * WordBits) /\ q \in 0 .. (Words * WordBits)
        /\ c.words \in Address6 /\ r.words \in Address6
    BY DEF CIDRs
  <1>2. /\ m \in 0 .. (Words * WordBits) /\ m \in {p, q}
        /\ 1..m \subseteq 1..p /\ 1..m \subseteq 1..q
    BY <1>1, WidthsAreNatural DEF Least
  <1>. HIDE DEF m
  <1>3. overlaps <=> Agree(c.words, r.words, m)
    BY <1>1, <1>2, PrefixMatchesIs
  <1>4. ASSUME NEW h \in Hosts
        PROVE  /\ Covers(c, h) <=> h.words # <<>> /\ Agree(h.words, c.words, p)
               /\ Covers(r, h) <=> h.words # <<>> /\ Agree(h.words, r.words, q)
    BY DEF Covers
  <1>5. ASSUME NEW h \in Hosts, Covers(c, h), Covers(r, h) PROVE overlaps
    BY <1>2, <1>3, <1>4, <1>5
  <1>6. ASSUME overlaps PROVE \E h \in Hosts : Covers(c, h) /\ Covers(r, h)
    <2>1. ASSUME NEW w \in Address6
          PROVE  IPv6(w) \in Hosts /\ IPv6(w).words = w /\ w # <<>>
      <3>1. IPv6(w) \in Hosts
        BY HostsAssumption
      <3>2. IPv6(w).words = w
        BY DEF IPv6
      <3>. QED  BY <3>1, <3>2, AddressHasWords
    <2>2. CASE m = q
      <3>1. Agree(c.words, r.words, q) /\ Agree(c.words, c.words, p)
        BY <1>3, <1>6, <2>2
      <3>. QED  BY <1>1, <1>4, <2>1, <3>1
    <2>3. CASE m = p
      <3>1. Agree(r.words, c.words, p) /\ Agree(r.words, r.words, q)
        BY <1>3, <1>6, <2>3
      <3>. QED  BY <1>1, <1>4, <2>1, <3>1
    <2>. QED  BY <1>2, <2>2, <2>3
  <1>. QED  BY <1>5, <1>6 DEF m

-----------------------------------------------------------------------------
(* What the helper may dial                                                *)

\* isSupportedSubnetCIDR() and parseIPv6CIDR() accept exactly the subnets that
\* hold no address of a forbidden range, IPv4-mapped prefixes aside.
LEMMA DialableIs ==
    ASSUME NEW c \in CIDRs
    PROVE  Dialable(c) <=> IsSupportedSubnetCIDR(c)
  <1>. DEFINE Clash(range) == \E h \in Hosts : Covers(c, h) /\ Covers(range, h)
  <1>1. Dialable(c) <=> /\ c.canonical /\ c.prefix > 0
                        /\ c.family = 6 => ~StartsWith(c.words, Mapped)
                        /\ ~\E range \in Forbidden4 : Clash(range)
                        /\ ~\E range \in Forbidden6 : Clash(range)
    BY DEF Dialable
  <1>2. /\ \A range \in Forbidden4 : range \in CIDRs /\ range.family = 4
        /\ \A range \in Forbidden6 : range \in CIDRs /\ range.family = 6
    BY RangesAssumption
  <1>3. ASSUME NEW r \in CIDRs, r.family # c.family PROVE ~Clash(r)
    BY <1>3, HostsAssumption DEF Covers, CIDRs
  <1>4. CASE c.family = 4
    <2>1. ~\E range \in Forbidden6 : Clash(range)
      BY <1>2, <1>3, <1>4
    <2>2. \A range \in Forbidden4 : Clash(range) <=> Overlaps4(c, range)
      BY <1>2, <1>4, Overlaps4Is
    <2>3. c.prefix > 0 <=> c.prefix >= 1
      BY <1>4, WidthsAreNatural DEF CIDRs
    <2>. HIDE DEF Clash
    <2>. QED
      BY <1>1, <1>4, <2>1, <2>2, <2>3 DEF IsSupportedSubnetCIDR, IsSupported4
  <1>5. CASE c.family = 6
    <2>1. ~\E range \in Forbidden4 : Clash(range)
      BY <1>2, <1>3, <1>5
    <2>2. \A range \in Forbidden6 :
            Clash(range) <=>
              PrefixMatches(c.words, range.words, Least(c.prefix, range.prefix))
      BY <1>2, <1>5, Overlaps6Is
    <2>3. c.prefix > 0 <=> c.prefix \in 1 .. (Words * WordBits)
      BY <1>5, WidthsAreNatural DEF CIDRs
    <2>. HIDE DEF Clash
    <2>. QED
      BY <1>1, <1>5, <2>1, <2>2, <2>3 DEF IsSupportedSubnetCIDR, IsSupported6
  <1>. QED  BY <1>4, <1>5 DEF CIDRs

\* What the listener has to do with a policy: the tests of resolveProxy() in
\* the words of the reference.  open: the fields hold the session's port.
Open == fields.mode = "active" /\ HasCredentials(session, fields.port)
Ranges == IF Open THEN {c \in asked.subnets : Dialable(c)} ELSE asked.subnets
Accepts(h) ==
    \/ OfTailnet(asked, h)
    \/ IsNumberLike(h) /\ InNet(h.num, CGNAT)
    \/ IsNumberLike(h) /\ \E c \in OfFamily(Ranges, 4) : InNet(h.num, c)
    \/ h.digits /\ \E c \in OfFamily(Ranges, 4) : Covers(c, h)
    \/ Carries({c \in OfFamily(asked.subnets, 6) : Dialable(c)}, h)
    \/ ThroughExitNode(asked, h)

\* The fields of a policy, which the blocked form shares.
LEMMA FieldsAre ==
    ASSUME FieldsInv, asked \in Policies
    PROVE  /\ fields.exit = (asked.blockAll \/ asked.exit)
           /\ fields.suffix = asked.suffix /\ fields.names = asked.shortNames
           /\ fields.routes = asked.dnsRoutes /\ fields.split = asked.split
           /\ fields.blockedSubnets = OfFamily(asked.subnets, 4)
           /\ fields.subnets = {c \in OfFamily(asked.subnets, 4) : IsSupported4(c)}
           /\ fields.subnets6 = ParseIPv6CIDRs(asked.subnets)
           /\ fields.mode = asked.mode \/ fields.mode = "blocked"
           /\ fields.port \in Ports \cup {BlockedPort}
           /\ Open => asked.mode = "active" /\ session = asked.port
                      /\ session = fields.port /\ session \in Ports
  <1>1. /\ asked \in RoutingPolicy /\ policyKey \in {asked, Blocked(asked)}
        /\ fields = FieldsOf(policyKey) /\ Blocked(asked) \in RoutingPolicy
        /\ asked.mode = "active" => asked.port \in Ports
        /\ session \in Ports \cup {NoPort}
    BY PolicyType DEF FieldsInv
  <1>2. /\ policyKey.exit = asked.exit /\ policyKey.blockAll = asked.blockAll
        /\ policyKey.suffix = asked.suffix /\ policyKey.shortNames = asked.shortNames
        /\ policyKey.dnsRoutes = asked.dnsRoutes /\ policyKey.split = asked.split
        /\ policyKey.subnets = asked.subnets
        /\ \/ policyKey.mode = asked.mode /\ policyKey.port = asked.port
           \/ policyKey.mode = "blocked" /\ policyKey.port = NoPort
        /\ policyKey.port \in Ports \cup {NoPort}
    BY <1>1 DEF Blocked, RoutingPolicy
  <1>3. /\ fields.exit = (policyKey.blockAll \/ policyKey.exit)
        /\ fields.suffix = policyKey.suffix /\ fields.names = policyKey.shortNames
        /\ fields.routes = policyKey.dnsRoutes /\ fields.split = policyKey.split
        /\ fields.blockedSubnets = OfFamily(policyKey.subnets, 4)
        /\ fields.subnets = {c \in OfFamily(policyKey.subnets, 4) : IsSupported4(c)}
        /\ fields.subnets6 = ParseIPv6CIDRs(policyKey.subnets)
        /\ fields.mode = policyKey.mode
        /\ fields.port = IF policyKey.port = NoPort THEN BlockedPort ELSE policyKey.port
    BY <1>1 DEF FieldsOf
  <1>4. fields.port \in Ports \cup {BlockedPort}
    BY <1>2, <1>3
  <1>5. ASSUME Open
        PROVE  /\ asked.mode = "active" /\ session = asked.port
               /\ session = fields.port /\ session \in Ports
    <2>1. session # NoPort /\ session = fields.port /\ fields.mode = "active"
      BY <1>5 DEF Open, HasCredentials
    <2>2. policyKey.mode = asked.mode /\ policyKey.port = asked.port
      BY <1>2, <1>3, <2>1
    <2>3. asked.port \in Ports
      BY <1>1, <1>3, <2>1, <2>2
    <2>4. asked.port # NoPort
      BY <2>3, PortsAssumption
    <2>. QED  BY <1>3, <2>1, <2>2, <2>3, <2>4
  <1>. QED  BY <1>2, <1>3, <1>4, <1>5

\* The tests on numbers and words mean what the subnets hold.
LEMMA NumberTests ==
    ASSUME NEW h \in Hosts
    PROVE  /\ (h.num # NoNumber /\ InNet(h.num, CGNAT)) <=>
                \/ h.digits /\ Covers(CGNAT, h)
                \/ IsNumberLike(h) /\ InNet(h.num, CGNAT)
           /\ h = IPv4(ServiceIP) => h.digits /\ Covers(CGNAT, h)
           /\ \A S \in SUBSET CIDRs :
                (h.num # NoNumber /\ \E c \in OfFamily(S, 4) : InNet(h.num, c)) <=>
                  \/ h.digits /\ \E c \in OfFamily(S, 4) : Covers(c, h)
                  \/ IsNumberLike(h) /\ \E c \in OfFamily(S, 4) : InNet(h.num, c)
  <1>1. /\ h.num \in Address4 \cup {NoNumber} /\ h.digits \in BOOLEAN
        /\ h.digits => h.num # NoNumber
    BY HostsAssumption
  <1>2. CGNAT \in CIDRs /\ CGNAT.family = 4
    BY RangesAssumption
  <1>3. ASSUME NEW c \in CIDRs, c.family = 4, h.digits
        PROVE  InNet(h.num, c) <=> Covers(c, h)
    <2>1. h.num \in Address4
      BY <1>1, <1>3
    <2>. QED  BY <1>3, <2>1, InNetIs DEF Covers
  <1>4. h = IPv4(ServiceIP) => h.digits /\ Covers(CGNAT, h)
    <2>. SUFFICES ASSUME h = IPv4(ServiceIP) PROVE h.digits /\ Covers(CGNAT, h)
      OBVIOUS
    <2>1. h.digits /\ h.num = ServiceIP
      BY DEF IPv4
    <2>. QED  BY <1>2, <1>3, <2>1, RangesAssumption
  <1>5. ASSUME NEW S \in SUBSET CIDRs, h.digits
        PROVE  (\E c \in OfFamily(S, 4) : InNet(h.num, c))
                 <=> (\E c \in OfFamily(S, 4) : Covers(c, h))
    BY <1>3, <1>5 DEF OfFamily
  <1>. QED  BY <1>1, <1>2, <1>3, <1>4, <1>5 DEF IsNumberLike

\* An IPv6 host matches the parsed subnets exactly if a subnet that the helper
\* may dial holds it.
LEMMA WordTests ==
    ASSUME NEW h \in Hosts, NEW S \in SUBSET CIDRs
    PROVE  MatchesIPv6(h, ParseIPv6CIDRs(S)) <=>
             Carries({c \in OfFamily(S, 6) : Dialable(c)}, h)
  <1>. DEFINE D == {c \in OfFamily(S, 6) : IsSupported6(c)}
  <1>1. D = {c \in OfFamily(S, 6) : Dialable(c)}
    <2>1. ASSUME NEW c \in OfFamily(S, 6) PROVE Dialable(c) <=> IsSupported6(c)
      BY DialableIs DEF OfFamily, IsSupportedSubnetCIDR
    <2>. QED  BY <2>1
  <1>2. ParseIPv6CIDRs(S) = {Truncated(c) : c \in D}
    BY DEF ParseIPv6CIDRs
  <1>3. \A c \in D : c \in CIDRs /\ c.family = 6
    BY DEF OfFamily
  <1>. HIDE DEF D
  <1>4. ASSUME NEW c \in D
        PROVE  (h.words # <<>> /\ PrefixMatches(h.words, Truncated(c).words, Truncated(c).prefix))
                 <=> Covers(c, h)
    <2>1. c \in CIDRs /\ c.family = 6
      BY <1>3
    <2>2. h.words \in Address6 \cup {<<>>}
      BY HostsAssumption
    <2>. QED
      BY <2>1, <2>2, Covers6Is, TruncatedMatches, AddressHasWords
  <1>5. MatchesIPv6(h, ParseIPv6CIDRs(S)) <=>
          /\ h.words # <<>> /\ ~StartsWith(h.words, Mapped)
          /\ \E c \in D : PrefixMatches(h.words, Truncated(c).words, Truncated(c).prefix)
    BY <1>2 DEF MatchesIPv6
  <1>6. (\E c \in D : Covers(c, h)) <=>
          /\ h.words # <<>>
          /\ \E c \in D : PrefixMatches(h.words, Truncated(c).words, Truncated(c).prefix)
    BY <1>4
  <1>. QED  BY <1>1, <1>5, <1>6 DEF Carries

\* Where the listener sends a request, in the words of the reference.
LEMMA RouteIs ==
    ASSUME FieldsInv, asked \in Policies, NEW h \in Hosts
    PROVE  Route(h) = IF fields.mode # "direct" /\ Accepts(h)
                      THEN IF Open THEN session ELSE BlockedPort
                      ELSE Direct
  <1>. DEFINE f == fields
              ranges == IF Open THEN f.subnets ELSE f.blockedSubnets
              number == h.num # NoNumber
              test == \/ h = IPv4(ServiceIP)
                      \/ h.labels \in f.names
                      \/ UnderAny(h, f.routes)
                      \/ StartsWith(h.words, TailnetIPv6)
                      \/ number /\ InNet(h.num, CGNAT)
                      \/ f.suffix # <<>> /\ Under(h, f.suffix)
                      \/ number /\ \E c \in ranges : InNet(h.num, c)
                      \/ MatchesIPv6(h, f.subnets6)
                      \/ ExitCarries(f, h)
  <1>1. Route(h) = IF f.mode # "direct" /\ test
                   THEN IF Open THEN f.port ELSE BlockedPort
                   ELSE Direct
    BY DEF Route, ResolveProxy, Open
  <1>2. asked.subnets \in SUBSET CIDRs /\ asked.split.mode \in {"bypass", "only"}
    BY PolicyType DEF RoutingPolicy
  <1>3. ranges = OfFamily(Ranges, 4) /\ Ranges \in SUBSET CIDRs
    <2>1. ASSUME NEW c \in asked.subnets, c.family = 4
          PROVE  Dialable(c) <=> IsSupported4(c)
      BY <1>2, <2>1, DialableIs DEF IsSupportedSubnetCIDR
    <2>2. {c \in OfFamily(asked.subnets, 4) : IsSupported4(c)}
            = OfFamily({c \in asked.subnets : Dialable(c)}, 4)
      BY <2>1 DEF OfFamily
    <2>3. /\ f.blockedSubnets = OfFamily(asked.subnets, 4)
          /\ f.subnets = {c \in OfFamily(asked.subnets, 4) : IsSupported4(c)}
      BY FieldsAre
    <2>. QED  BY <1>2, <2>2, <2>3 DEF Ranges
  <1>4. ExitCarries(f, h) <=> ThroughExitNode(asked, h)
    <2>1. f.exit = (asked.blockAll \/ asked.exit) /\ f.split = asked.split
      BY FieldsAre
    <2>. QED  BY <1>2, <2>1 DEF ExitCarries, ThroughExitNode, UnderAny
  <1>5. MatchesIPv6(h, f.subnets6) <=>
          Carries({c \in OfFamily(asked.subnets, 6) : Dialable(c)}, h)
    BY <1>2, FieldsAre, WordTests
  <1>6. /\ (number /\ InNet(h.num, CGNAT)) <=>
             \/ h.digits /\ Covers(CGNAT, h)
             \/ IsNumberLike(h) /\ InNet(h.num, CGNAT)
        /\ h = IPv4(ServiceIP) => h.digits /\ Covers(CGNAT, h)
        /\ (number /\ \E c \in ranges : InNet(h.num, c)) <=>
             \/ h.digits /\ \E c \in OfFamily(Ranges, 4) : Covers(c, h)
             \/ IsNumberLike(h) /\ \E c \in OfFamily(Ranges, 4) : InNet(h.num, c)
    BY <1>3, NumberTests
  <1>7. /\ f.suffix = asked.suffix /\ f.names = asked.shortNames
        /\ f.routes = asked.dnsRoutes /\ (Open => session = f.port)
    BY FieldsAre
  <1>. HIDE DEF number, ranges
  <1>8. test <=> Accepts(h)
    BY <1>4, <1>5, <1>6, <1>7 DEF Accepts, OfTailnet
  <1>. HIDE DEF test
  <1>. QED  BY <1>1, <1>7, <1>8

\* No outage, error or restart opens a host that the policy protects.
THEOREM FailsClosedTheorem == MCSpec => []RequestsFailClosed
  <1>1. RequestsInv => RequestsFailClosed
    <2>. SUFFICES ASSUME FieldsInv PROVE FailsClosed
      BY DEF RequestsInv, RequestsFailClosed
    <2>1. CASE asked = NoPolicy
      <3>. SUFFICES ASSUME NEW h \in Hosts PROVE Route(h) # Direct
        BY <2>1 DEF FailsClosed
      <3>1. fields = InitialFields
        BY <2>1, PolicyType DEF FieldsInv
      <3>2. /\ fields.mode = "blocked" /\ fields.exit
            /\ fields.split.mode = "bypass" /\ fields.split.domains = {}
        BY <3>1 DEF InitialFields
      <3>3. ExitCarries(fields, h)
        BY <3>2 DEF ExitCarries
      <3>4. Route(h) = BlockedPort
        BY <3>2, <3>3 DEF Route, ResolveProxy
      <3>. QED  BY <3>4 DEF BlockedPort, Direct
    <2>2. CASE asked # NoPolicy /\ asked.mode # "direct"
      <3>. DEFINE up == asked.mode = "active" /\ HasCredentials(session, asked.port)
                  protected == {c \in asked.subnets :
                                  Dialable(c) \/ (c.family = 4 /\ ~up)}
      <3>0. asked \in Policies
        BY <2>2 DEF FieldsInv
      <3>1. asked.subnets \in SUBSET CIDRs
        BY <3>0, PolicyType DEF RoutingPolicy
      <3>. SUFFICES ASSUME NEW h \in Hosts,
                           \/ OfTailnet(asked, h) \/ Carries(protected, h)
                           \/ ThroughExitNode(asked, h)
                    PROVE  Route(h) # Direct
        BY <2>2 DEF FailsClosed
      <3>2. Open => up
        BY <3>0, FieldsAre DEF Open, HasCredentials
      <3>3. ASSUME Carries(protected, h) PROVE Accepts(h)
        <4>1. PICK c \in protected : Covers(c, h)
          BY <3>3 DEF Carries
        <4>2. c \in CIDRs /\ c \in asked.subnets /\ c.family \in {4, 6}
          BY <3>1, <4>1 DEF CIDRs
        <4>3. CASE c.family = 4
          <5>1. c \in OfFamily(Ranges, 4) /\ h.digits
            BY <3>2, <4>1, <4>2, <4>3 DEF Ranges, OfFamily, Covers
          <5>. QED  BY <4>1, <5>1 DEF Accepts
        <4>4. CASE c.family = 6
          <5>1. c \in {d \in OfFamily(asked.subnets, 6) : Dialable(d)}
            BY <4>1, <4>2, <4>4 DEF OfFamily
          <5>. QED  BY <3>3, <4>1, <5>1 DEF Accepts, Carries
        <4>. QED  BY <4>2, <4>3, <4>4
      <3>4. Accepts(h)
        BY <3>3 DEF Accepts
      <3>5. fields.mode # "direct"
        BY <2>2, <3>0, FieldsAre
      <3>6. Route(h) = IF Open THEN session ELSE BlockedPort
        BY <3>0, <3>4, <3>5, RouteIs
      <3>7. Open => session \in Ports
        BY <3>0, FieldsAre
      <3>. QED
        BY <3>6, <3>7, PortsAssumption DEF BlockedPort, Direct, NoPort
    <2>. QED  BY <2>1, <2>2 DEF FailsClosed
  <1>. QED  BY <1>1, RequestsInvariance, PTL

\* A request goes to the helper only with the credentials of its port, and only
\* for the tailnet, for a subnet it may dial, or through the exit node.
THEOREM AuthorizedTheorem == MCSpec => []RequestsAreAuthorized
  <1>1. RequestsInv => RequestsAreAuthorized
    <2>. SUFFICES ASSUME FieldsInv PROVE OnlyAuthorizedRoutes
      BY DEF RequestsInv, RequestsAreAuthorized
    <2>. DEFINE dialable == {c \in asked.subnets : Dialable(c)}
    <2>. SUFFICES ASSUME NEW h \in Hosts, Route(h) \notin {Direct, BlockedPort}
                  PROVE  /\ Route(h) = session
                         /\ \/ IsNumberLike(h) \/ OfTailnet(asked, h)
                            \/ Carries(dialable, h) \/ ThroughExitNode(asked, h)
      BY DEF OnlyAuthorizedRoutes
    <2>1. asked \in Policies
      <3>. SUFFICES ASSUME asked \notin Policies PROVE FALSE
        OBVIOUS
      <3>1. fields.mode = "blocked"
        BY DEF FieldsInv, InitialFields
      <3>. QED  BY <3>1 DEF Route, ResolveProxy
    <2>2. Open /\ Route(h) = session /\ Accepts(h)
      BY <2>1, RouteIs
    <2>3. asked.subnets \in SUBSET CIDRs /\ Ranges = dialable
      BY <2>1, <2>2, PolicyType DEF RoutingPolicy, Ranges
    <2>4. ASSUME h.digits, NEW c \in OfFamily(Ranges, 4), Covers(c, h)
          PROVE  Carries(dialable, h)
      <3>1. h.words = <<>>
        BY <2>4, HostsAssumption
      <3>. QED  BY <2>3, <2>4, <3>1 DEF Carries, StartsWith, OfFamily
    <2>5. Carries({c \in OfFamily(asked.subnets, 6) : Dialable(c)}, h)
            => Carries(dialable, h)
      BY DEF Carries, OfFamily
    <2>. QED  BY <2>2, <2>4, <2>5 DEF Accepts
  <1>. QED  BY <1>1, RequestsInvariance, PTL

-----------------------------------------------------------------------------
(* The rows of the exit node picker                                        *)

\* The node that a city's row asks for is of the city, and online if one is.
LEMMA FindOnlineIs ==
    ASSUME NEW nodes \in SUBSET PeerSet, nodes # {}, NEW online
    PROVE  \E n \in nodes : /\ FindOnline(nodes, online) = n.id
                            /\ (\E m \in nodes : m.id \in online) => n.id \in online
  <1>. DEFINE listed == {i \in DOMAIN Peers : Peers[i] \in nodes}
              up == {i \in listed : Peers[i].id \in online}
              some == IF up # {} THEN up ELSE listed
              x == Min(some)
  <1>1. DOMAIN Peers \subseteq Nat /\ PeerSet = {Peers[i] : i \in DOMAIN Peers}
    BY PeersAssumption DEF PeerSet, Range
  <1>2. listed # {} /\ ((\E m \in nodes : m.id \in online) => up # {})
    BY <1>1
  <1>3. some \in SUBSET Nat /\ some # {}
    BY <1>1, <1>2
  <1>4. x \in some
    BY <1>3, LeastElement
  <1>5. Peers[x] \in nodes /\ (up # {} => Peers[x].id \in online)
    BY <1>4
  <1>6. FindOnline(nodes, online) = Peers[x].id
    BY DEF FindOnline
  <1>. QED  BY <1>2, <1>5, <1>6

\* The row of a node: its own, or that of its city.
Located(nodes) == {n \in nodes : GroupOf(n) = "mullvad" /\ HasLocationLabel(n)}
CityOf(nodes, n) == {m \in Located(nodes) : /\ CountryKey(m) = CountryKey(n)
                                            /\ CityKey(m) = CityKey(n)}
RowOf(nodes, online, n) ==
    IF GroupOf(n) = "mullvad"
    THEN [nodes |-> {m.id : m \in CityOf(nodes, n)},
          picks |-> FindOnline(CityOf(nodes, n), online), country |-> CountryKey(n)]
    ELSE [nodes |-> {n.id}, picks |-> n.id, country |-> ""]

LEMMA RowsAre ==
    ASSUME NEW nodes \in SUBSET PeerSet, NEW online
    PROVE  FlatRows(nodes) \cup CityRows(nodes, online)
             = {RowOf(nodes, online, n) : n \in nodes}
  <1>1. \A n : GroupOf(n) = "mullvad" => HasLocationLabel(n)
    BY DEF GroupOf
  <1>2. Located(nodes) = {n \in nodes : GroupOf(n) = "mullvad"}
    BY <1>1 DEF Located
  <1>3. CityRows(nodes, online) = {RowOf(nodes, online, n) : n \in Located(nodes)}
    <2>1. CityRows(nodes, online) =
            {[nodes |-> {m.id : m \in CityOf(nodes, n)},
              picks |-> FindOnline(CityOf(nodes, n), online),
              country |-> CountryKey(n)] : n \in Located(nodes)}
      BY DEF CityRows, CityOf, Located
    <2>. QED  BY <1>2, <2>1 DEF RowOf
  <1>4. FlatRows(nodes) = {RowOf(nodes, online, n) : n \in nodes \ Located(nodes)}
    <2>1. nodes \ Located(nodes) = {m \in nodes : GroupOf(m) # "mullvad"}
      BY <1>2
    <2>. QED  BY <2>1 DEF FlatRows, RowOf
  <1>5. Located(nodes) \subseteq nodes
    BY <1>2
  <1>. QED  BY <1>3, <1>4, <1>5

\* A row holds a node exactly if it is the node's.
LEMMA RowHolds ==
    ASSUME NEW nodes \in SUBSET PeerSet, NEW online, NEW m \in nodes, NEW n \in nodes
    PROVE  /\ n.id \in RowOf(nodes, online, m).nodes
                <=> RowOf(nodes, online, m) = RowOf(nodes, online, n)
           /\ RowOf(nodes, online, m).nodes \subseteq {k.id : k \in nodes}
  <1>0. \A k \in nodes : k.id = n.id => k = n
    BY PeersAssumption
  <1>1. \A k \in nodes : GroupOf(k) = "mullvad" <=> k \in Located(nodes)
    BY DEF Located, GroupOf
  <1>2. ASSUME NEW k \in nodes, GroupOf(k) = "mullvad"
        PROVE  /\ k \in CityOf(nodes, k) /\ CityOf(nodes, k) \subseteq nodes
               /\ RowOf(nodes, online, k).nodes = {l.id : l \in CityOf(nodes, k)}
    BY <1>1, <1>2 DEF CityOf, Located, RowOf
  <1>3. ASSUME NEW k \in nodes, GroupOf(k) # "mullvad"
        PROVE  RowOf(nodes, online, k).nodes = {k.id}
    BY <1>3 DEF RowOf
  <1>4. n.id \in RowOf(nodes, online, n).nodes
    BY <1>2, <1>3
  <1>5. ASSUME n.id \in RowOf(nodes, online, m).nodes
        PROVE  RowOf(nodes, online, m) = RowOf(nodes, online, n)
    <2>1. CASE GroupOf(m) = "mullvad"
      <3>1. n \in CityOf(nodes, m)
        BY <1>0, <1>2, <1>5, <2>1
      <3>2. /\ GroupOf(n) = "mullvad" /\ CountryKey(n) = CountryKey(m)
            /\ CityKey(n) = CityKey(m)
        BY <1>1, <3>1 DEF CityOf
      <3>3. CityOf(nodes, n) = CityOf(nodes, m)
        BY <3>2 DEF CityOf
      <3>. QED  BY <2>1, <3>2, <3>3 DEF RowOf
    <2>2. CASE GroupOf(m) # "mullvad"
      BY <1>0, <1>3, <1>5, <2>2
    <2>. QED  BY <2>1, <2>2
  <1>6. RowOf(nodes, online, m).nodes \subseteq {k.id : k \in nodes}
    BY <1>2, <1>3
  <1>. QED  BY <1>4, <1>5, <1>6

\* The click of a row asks for one of its nodes, online if one of them is.
LEMMA RowPicks ==
    ASSUME NEW nodes \in SUBSET PeerSet, NEW online, NEW n \in nodes
    PROVE  /\ RowOf(nodes, online, n).picks \in RowOf(nodes, online, n).nodes
           /\ RowOf(nodes, online, n).nodes \cap online # {} =>
                RowOf(nodes, online, n).picks \in online
  <1>. DEFINE r == RowOf(nodes, online, n)
  <1>1. CASE GroupOf(n) = "mullvad"
    <2>. DEFINE city == CityOf(nodes, n)
    <2>1. n \in city /\ city \in SUBSET PeerSet
      BY <1>1 DEF CityOf, Located, GroupOf
    <2>2. r.nodes = {m.id : m \in city} /\ r.picks = FindOnline(city, online)
      BY <1>1 DEF RowOf
    <2>. HIDE DEF city
    <2>3. PICK k \in city : /\ FindOnline(city, online) = k.id
                            /\ (\E m \in city : m.id \in online) => k.id \in online
      BY <2>1, FindOnlineIs
    <2>. QED  BY <2>2, <2>3
  <1>2. CASE GroupOf(n) # "mullvad"
    BY <1>2 DEF RowOf
  <1>. QED  BY <1>1, <1>2

\* Whatever is searched for and whoever is online, each node that matches has
\* one row, and a row's click asks for a node of it that is up if one is.
THEOREM EveryNodeHasARowTheorem == MCSpec => []PickerListsEveryNode
  <1>1. PickerListsEveryNode
    <2>. SUFFICES ASSUME store.known PROVE EveryNodeHasARow
      BY DEF PickerListsEveryNode, EveryNodeHasARow
    <2>. DEFINE nodes == FilterExitNodes(picker.query)
                Row(n) == RowOf(nodes, store.online, n)
    <2>1. nodes \in SUBSET PeerSet
      BY DEF FilterExitNodes
    <2>2. Rows = {Row(n) : n \in nodes}
      BY <2>1, RowsAre DEF Rows
    <2>. HIDE DEF nodes
    <2>3. ASSUME NEW m \in nodes, NEW n \in nodes
          PROVE  /\ n.id \in Row(m).nodes <=> Row(m) = Row(n)
                 /\ Row(m).nodes \subseteq {k.id : k \in nodes}
                 /\ Row(m).picks \in Row(m).nodes
                 /\ Row(m).nodes \cap store.online # {} => Row(m).picks \in store.online
      <3>1. /\ n.id \in Row(m).nodes <=> Row(m) = Row(n)
            /\ Row(m).nodes \subseteq {k.id : k \in nodes}
        BY <2>1, RowHolds, Zenon
      <3>2. /\ Row(m).picks \in Row(m).nodes
            /\ Row(m).nodes \cap store.online # {} => Row(m).picks \in store.online
        BY <2>1, RowPicks, Zenon
      <3>. QED  BY <3>1, <3>2
    <2>. HIDE DEF Row
    <2>4. ASSUME NEW n \in nodes
          PROVE  Cardinality({r \in Rows : n.id \in r.nodes}) = 1
      <3>1. {r \in Rows : n.id \in r.nodes} = {Row(n)}
        BY <2>2, <2>3
      <3>. QED  BY <3>1, FS_Singleton
    <2>5. ASSUME NEW r \in Rows
          PROVE  /\ r.picks \in r.nodes
                 /\ r.nodes \cap store.online # {} => r.picks \in store.online
      BY <2>2, <2>3
    <2>6. Cardinality({r \in Rows : Selected \in r.nodes}) <= 1
      <3>1. CASE \E n \in nodes : Selected = n.id
        BY <2>4, <3>1
      <3>2. CASE ~\E n \in nodes : Selected = n.id
        <4>1. {r \in Rows : Selected \in r.nodes} = {}
          BY <2>2, <2>3, <3>2
        <4>. QED  BY <4>1, FS_EmptySet
      <3>. QED  BY <3>1, <3>2
    <2>. QED  BY <2>4, <2>5, <2>6 DEF EveryNodeHasARow, nodes
  <1>. QED  BY <1>1, PTL

-----------------------------------------------------------------------------
(* The recommended node                                                    *)

\* compareRecommendedMullvadExitNodes() is a strict order of ranks.
RankSet == Int \X Int \X Int \X Int \X Int

LEMMA BeforeIs ==
    ASSUME NEW a \in RankSet, NEW b \in RankSet
    PROVE  Before(a, b) <=>
             \/ a[1] < b[1]
             \/ a[1] = b[1] /\ a[2] < b[2]
             \/ a[1] = b[1] /\ a[2] = b[2] /\ a[3] < b[3]
             \/ a[1] = b[1] /\ a[2] = b[2] /\ a[3] = b[3] /\ a[4] < b[4]
             \/ /\ a[1] = b[1] /\ a[2] = b[2] /\ a[3] = b[3] /\ a[4] = b[4]
                /\ a[5] < b[5]
  <1>. DEFINE At(i) == a[i] < b[i] /\ \A j \in 1 .. (i - 1) : a[j] = b[j]
  <1>1. Before(a, b) <=> \E i \in 1..5 : At(i)
    <2>1. Len(a) = 5
      BY DEF RankSet
    <2>. QED  BY <2>1 DEF Before
  <1>2. At(1) <=> a[1] < b[1]
    OBVIOUS
  <1>3. At(2) <=> a[1] = b[1] /\ a[2] < b[2]
    OBVIOUS
  <1>4. At(3) <=> a[1] = b[1] /\ a[2] = b[2] /\ a[3] < b[3]
    <2>1. \A j : j \in 1 .. (3 - 1) <=> j \in {1, 2}
      OBVIOUS
    <2>. QED  BY <2>1
  <1>5. At(4) <=> a[1] = b[1] /\ a[2] = b[2] /\ a[3] = b[3] /\ a[4] < b[4]
    <2>1. \A j : j \in 1 .. (4 - 1) <=> j \in {1, 2, 3}
      OBVIOUS
    <2>. QED  BY <2>1
  <1>6. At(5) <=> /\ a[1] = b[1] /\ a[2] = b[2] /\ a[3] = b[3] /\ a[4] = b[4]
                  /\ a[5] < b[5]
    <2>1. \A j : j \in 1 .. (5 - 1) <=> j \in {1, 2, 3, 4}
      OBVIOUS
    <2>. QED  BY <2>1
  <1>7. \A i : i \in 1..5 <=> i \in {1, 2, 3, 4, 5}
    OBVIOUS
  <1>. HIDE DEF At
  <1>. QED  BY <1>1, <1>2, <1>3, <1>4, <1>5, <1>6, <1>7

LEMMA BeforeOrder ==
    ASSUME NEW a \in RankSet, NEW b \in RankSet, NEW c \in RankSet
    PROVE  ~Before(a, a) /\ (Before(a, b) /\ Before(b, c) => Before(a, c))
  <1>1. /\ a[1] \in Int /\ a[2] \in Int /\ a[3] \in Int /\ a[4] \in Int /\ a[5] \in Int
        /\ b[1] \in Int /\ b[2] \in Int /\ b[3] \in Int /\ b[4] \in Int /\ b[5] \in Int
        /\ c[1] \in Int /\ c[2] \in Int /\ c[3] \in Int /\ c[4] \in Int /\ c[5] \in Int
    BY DEF RankSet
  <1>2. ~Before(a, a)
    BY <1>1, BeforeIs
  <1>3. Before(a, b) /\ Before(b, c) => Before(a, c)
    BY <1>1, BeforeIs
  <1>. QED  BY <1>2, <1>3

LEMMA RankType ==
    ASSUME NEW n \in PeerSet, NEW online, NEW client
    PROVE  Rank(n, online, client) \in RankSet
  <1>1. n.distance \in Int /\ n.priority \in Int /\ n.label \in Int
    BY PeersAssumption
  <1>2. -n.priority \in Int
    BY <1>1
  <1>. DEFINE up == IF n.id \in online THEN 0 ELSE 1
              home == IF client # "" /\ n.code = client THEN 0 ELSE 1
              far == IF client # "" THEN Distance(n) ELSE 0
  <1>3. up \in Int /\ home \in Int /\ far \in Int
    <2>1. up \in {0, 1}
      OBVIOUS
    <2>2. home \in {0, 1}
      OBVIOUS
    <2>3. far \in {n.distance, 0}
      BY DEF Distance
    <2>. HIDE DEF up, home, far
    <2>. QED  BY <1>1, <2>1, <2>2, <2>3
  <1>4. Rank(n, online, client) = <<up, home, far, -n.priority, n.label>>
    BY DEF Rank
  <1>. HIDE DEF up, home, far
  <1>. QED  BY <1>1, <1>2, <1>3, <1>4 DEF RankSet

\* In whatever order the peers come, the sort has a first candidate: one that
\* no other precedes.
LEMMA RecommendedExists ==
    ASSUME NEW peers \in Seq(PeerSet), NEW online, NEW client,
           \E i \in DOMAIN peers : peers[i] \in Candidates
    PROVE  /\ SelectRecommended(peers, online, client) \in Candidates
           /\ \A i \in DOMAIN peers : peers[i] \in Candidates =>
                ~Before(Rank(peers[i], online, client),
                        Rank(SelectRecommended(peers, online, client), online, client))
  <1>. DEFINE at == {i \in DOMAIN peers : peers[i] \in Candidates}
              rank(i) == Rank(peers[i], online, client)
              First(i, j) == ~Before(rank(j), rank(i)) /\ (j < i => rank(j) # rank(i))
              upto(n) == {i \in at : i <= n}
              S == {n \in Nat : upto(n) # {} =>
                                  \E i \in upto(n) : \A j \in upto(n) : First(i, j)}
  <1>1. DOMAIN peers = 1..Len(peers) /\ Len(peers) \in Nat /\ at \subseteq 1..Len(peers)
    OBVIOUS
  <1>2. \A i \in at : i \in Nat /\ i >= 1 /\ i <= Len(peers)
    BY <1>1
  <1>3. \A i \in at : rank(i) \in RankSet
    BY RankType DEF Candidates
  <1>. HIDE DEF at, rank
  <1>4. 0 \in S
    BY <1>2
  <1>5. ASSUME NEW n \in S PROVE n + 1 \in S
    <2>0. n \in Nat /\ (upto(n) # {} => \E i \in upto(n) : \A j \in upto(n) : First(i, j))
      OBVIOUS
    <2>1. ASSUME upto(n + 1) # {}
          PROVE  \E i \in upto(n + 1) : \A j \in upto(n + 1) : First(i, j)
      <3>1. CASE n + 1 \notin at
        <4>1. upto(n + 1) = upto(n)
          BY <1>2, <2>0, <3>1
        <4>. QED  BY <2>0, <2>1, <4>1
      <3>2. CASE n + 1 \in at
        <4>1. upto(n + 1) = upto(n) \cup {n + 1} /\ (\A j \in upto(n) : j < n + 1)
          BY <1>2, <2>0, <3>2
        <4>2. First(n + 1, n + 1)
          BY <1>3, <2>0, <3>2, BeforeOrder
        <4>3. CASE upto(n) = {}
          BY <4>1, <4>2, <4>3
        <4>4. CASE upto(n) # {}
          <5>1. PICK i \in upto(n) : \A j \in upto(n) : First(i, j)
            BY <2>0, <4>4
          <5>2. i \in at /\ i < n + 1 /\ i \in Nat
            BY <1>2, <4>1
          <5>3. CASE Before(rank(n + 1), rank(i))
            <6>1. ASSUME NEW j \in upto(n) PROVE First(n + 1, j)
              <7>1. j \in at /\ ~Before(rank(j), rank(i))
                BY <5>1
              <7>. QED
                BY <1>3, <3>2, <5>2, <5>3, <7>1, BeforeOrder
            <6>. QED  BY <4>1, <4>2, <6>1
          <5>4. CASE ~Before(rank(n + 1), rank(i))
            <6>1. First(i, n + 1)
              BY <2>0, <5>2, <5>4
            <6>. QED  BY <4>1, <5>1, <6>1
          <5>. QED  BY <5>3, <5>4
        <4>. QED  BY <4>3, <4>4
      <3>. QED  BY <3>1, <3>2
    <2>. QED  BY <2>0, <2>1
  <1>6. S = Nat
    BY <1>4, <1>5, SetInduction
  <1>7. upto(Len(peers)) = at /\ at # {}
    BY <1>2 DEF at
  <1>8. Len(peers) \in S
    BY <1>1, <1>6
  <1>9. \E i \in at : \A j \in at : First(i, j)
    BY <1>7, <1>8
  <1>. DEFINE first == CHOOSE i \in at : \A j \in at : First(i, j)
  <1>10. first \in at /\ \A j \in at : First(first, j)
    BY <1>9
  <1>11. SelectRecommended(peers, online, client) = peers[first]
    BY DEF SelectRecommended, at, rank
  <1>. HIDE DEF first
  <1>. QED  BY <1>10, <1>11 DEF at, rank

-----------------------------------------------------------------------------
(* The selection settles                                                   *)

Nodes == IDs \cup {None}
Message == [type: {"status"}, node: Nodes, online: SUBSET IDs]

\* The types that the argument needs.  Messages are statuses or errors.
PickerType ==
    /\ helper \in [node: Nodes, online: SUBSET IDs]
    /\ connected \in BOOLEAN /\ exitNodeRestoreAttempted \in BOOLEAN
    /\ inbox \in Seq(Nodes) /\ outbox \in Seq(Message \cup {Error})
    /\ store \in [pending: Nodes \cup {NotPending}, prefs: Nodes,
                  known: BOOLEAN, online: SUBSET IDs]
    /\ routing \in [pendingExit: Nodes \cup {NotPending}, selected: Nodes]

\* The exit node once every command has been handled, and the one that the
\* last status reports.
Awaited == IF inbox = <<>> THEN helper.node ELSE inbox[Len(inbox)]
Reported == IF outbox = <<>> THEN store.prefs ELSE outbox[Len(outbox)].node
Busy == inbox # <<>> \/ outbox # <<>>

\* No node is in use, asked for or reported any more.
NoneAhead == /\ helper.node = None
             /\ \A i \in DOMAIN inbox : inbox[i] = None
             /\ \A i \in DOMAIN outbox : outbox[i].node = None

\* A new connection: the first status, which restores the selection, is on
\* its way and nothing has been asked for since.
JustConnected ==
    /\ ~exitNodeRestoreAttempted /\ inbox = <<>> /\ outbox # <<>>
    /\ \A i \in DOMAIN outbox : outbox[i].node = helper.node

OnlyStatuses == \A i \in DOMAIN outbox : outbox[i] \in Message

\* What the store and routing protection wait for is the same choice.
OneChoice ==
    /\ store.pending \in {NotPending, routing.pendingExit}
    /\ routing.pendingExit \in IDs => routing.selected = routing.pendingExit

\* While a choice is unconfirmed, the commands and statuses under way end with
\* it; or the connection is new and the first status will ask for it.
AwaitsChoice ==
    \/ Awaited = routing.pendingExit /\ Busy
    \/ JustConnected /\ routing.pendingExit # None

\* While none is, they end with the selected node, or with a status of it.
AwaitsNothing ==
    \/ JustConnected
    \/ /\ exitNodeRestoreAttempted /\ Awaited # None
       /\ Busy \/ routing.selected = Awaited
    \/ Awaited = None /\ routing.selected = None /\ NoneAhead

Agreement ==
    IF connected
    THEN /\ Reported = helper.node
         /\ IF routing.pendingExit = NotPending THEN AwaitsNothing ELSE AwaitsChoice
    ELSE /\ inbox = <<>> /\ outbox = <<>> /\ ~exitNodeRestoreAttempted
         /\ routing.pendingExit = None => helper.node = None

SettlingInv ==
    /\ PickerType
    /\ excused = {} => OnlyStatuses /\ OneChoice /\ Agreement

\* IDs are neither "none" nor "null".
LEMMA IDsAre ==
    /\ None \notin IDs /\ NotPending \notin IDs /\ NotPending \notin Nodes
    /\ None # NotPending /\ Peers[1].id \in IDs /\ Error \notin Message
    /\ \A n \in PeerSet : n.id \in IDs
  <1>1. None # NotPending
    BY DEF None, NotPending
  <1>2. None \notin IDs /\ NotPending \notin IDs
    BY PeersAssumption DEF IDs
  <1>3. 1 \in DOMAIN Peers
    BY PeersAssumption
  <1>4. Peers[1] \in PeerSet
    BY <1>3 DEF PeerSet, Range
  <1>5. Error \notin Message
    BY DEF Error, Message
  <1>. QED  BY <1>1, <1>2, <1>4, <1>5 DEF IDs, Nodes

\* The picker asks for a node it lists, or for none.
LEMMA ClickAsks ==
    ASSUME ClickRow
    PROVE  \E id \in Nodes : SetExitNode(id)
  <1>1. ASSUME NEW r \in Rows, SetExitNode(r.picks)
        PROVE  r.picks \in Nodes
    <2>. DEFINE nodes == IF store.known THEN FilterExitNodes(picker.query) ELSE {}
    <2>1. nodes \in SUBSET PeerSet
      BY DEF FilterExitNodes
    <2>2. Rows = {RowOf(nodes, store.online, n) : n \in nodes}
      BY <2>1, RowsAre DEF Rows
    <2>. HIDE DEF nodes
    <2>3. PICK n \in nodes : r = RowOf(nodes, store.online, n)
      BY <2>2
    <2>4. r.picks \in {k.id : k \in nodes}
      BY <2>1, <2>3, RowPicks, RowHolds
    <2>. QED  BY <2>1, <2>4 DEF IDs, Nodes
  <1>2. ASSUME NEW client \in Clients, Candidates # {}
        PROVE  SelectRecommended(Peers, store.online, client).id \in Nodes
    <2>1. \E i \in DOMAIN Peers : Peers[i] \in Candidates
      BY <1>2 DEF Candidates, PeerSet, Range
    <2>2. SelectRecommended(Peers, store.online, client) \in Candidates
      BY <2>1, PeersAssumption, RecommendedExists
    <2>. QED  BY <2>2, IDsAre DEF Candidates, Nodes
  <1>. QED  BY <1>1, <1>2 DEF ClickRow, Nodes

\* A queue that takes an element, and one that gives its first one away.
LEMMA Appended ==
    ASSUME NEW S, NEW s \in Seq(S), NEW e \in S
    PROVE  /\ Append(s, e) \in Seq(S) /\ Append(s, e) # <<>>
           /\ Append(s, e)[Len(Append(s, e))] = e
           /\ \A i \in DOMAIN Append(s, e) : i \in DOMAIN s \/ Append(s, e)[i] = e
           /\ \A i \in DOMAIN s : i \in DOMAIN Append(s, e) /\ Append(s, e)[i] = s[i]
  OBVIOUS

LEMMA Taken ==
    ASSUME NEW S, NEW s \in Seq(S), s # <<>>
    PROVE  /\ Head(s) \in S /\ Head(s) = s[1] /\ 1 \in DOMAIN s
           /\ Tail(s) \in Seq(S)
           /\ \A i \in DOMAIN Tail(s) : i + 1 \in DOMAIN s /\ Tail(s)[i] = s[i + 1]
           /\ Tail(s) # <<>> => Tail(s)[Len(Tail(s))] = s[Len(s)]
           /\ Tail(s) = <<>> => s[Len(s)] = s[1] /\ Len(s) = 1
           /\ \A i \in DOMAIN s : i = 1 \/ (i - 1 \in DOMAIN Tail(s) /\ Tail(s)[i - 1] = s[i])
           /\ Len(s) \in DOMAIN s
  <1>1. Len(s) \in Nat \ {0} /\ DOMAIN s = 1..Len(s) /\ Head(s) = s[1]
    OBVIOUS
  <1>2. /\ Tail(s) \in Seq(S) /\ Len(Tail(s)) = Len(s) - 1
        /\ \A i \in 1..Len(s) - 1 : Tail(s)[i] = s[i + 1]
    OBVIOUS
  <1>3. DOMAIN Tail(s) = 1..Len(s) - 1
    BY <1>2
  <1>4. Head(s) \in S
    OBVIOUS
  <1>5. Tail(s) = <<>> <=> Len(s) = 1
    BY <1>1, <1>2
  <1>6. \A i \in DOMAIN Tail(s) : i + 1 \in DOMAIN s /\ Tail(s)[i] = s[i + 1]
    BY <1>1, <1>2, <1>3
  <1>7. Tail(s) # <<>> => Tail(s)[Len(Tail(s))] = s[Len(s)]
    <2>1. SUFFICES ASSUME Tail(s) # <<>> PROVE Tail(s)[Len(Tail(s))] = s[Len(s)]
      OBVIOUS
    <2>2. Len(s) - 1 \in 1..Len(s) - 1
      BY <1>1, <1>5, <2>1
    <2>. QED  BY <1>1, <1>2, <2>2
  <1>8. \A i \in DOMAIN s : i = 1 \/ (i - 1 \in DOMAIN Tail(s) /\ Tail(s)[i - 1] = s[i])
    <2>. SUFFICES ASSUME NEW i \in 1..Len(s), i # 1
                  PROVE  i - 1 \in DOMAIN Tail(s) /\ Tail(s)[i - 1] = s[i]
      BY <1>1
    <2>1. i - 1 \in 1..Len(s) - 1 /\ (i - 1) + 1 = i
      BY <1>1
    <2>. QED  BY <1>2, <1>3, <2>1
  <1>9. 1 \in DOMAIN s /\ Len(s) \in DOMAIN s
    BY <1>1
  <1>. QED  BY <1>1, <1>2, <1>4, <1>5, <1>6, <1>7, <1>8, <1>9

LEMMA EmptySequence == \A S : <<>> \in Seq(S)
  OBVIOUS

\* send() keeps the command or drops it.
LEMMA Sent ==
    ASSUME PickerType, NEW id \in Nodes, Send(id)
    PROVE  /\ inbox' \in Seq(Nodes)
           /\ connected => inbox' = Append(inbox, id)
           /\ ~connected => inbox' = inbox
  <1>1. inbox \in Seq(Nodes)
    BY DEF PickerType
  <1>2. Append(inbox, id) \in Seq(Nodes)
    BY <1>1, Appended
  <1>3. /\ connected => inbox' = Append(inbox, id)
        /\ ~connected => inbox' = inbox
    BY DEF Send
  <1>. QED  BY <1>1, <1>2, <1>3

\* A status that the helper builds is a message.
LEMMA StatusType ==
    ASSUME PickerType, NEW node \in Nodes
    PROVE  /\ Status \in Message /\ Status.node = helper.node
           /\ [Status EXCEPT !.node = node] \in Message
           /\ [Status EXCEPT !.node = node].node = node
  BY DEF PickerType, Status, Message

LEMMA PickerTypeInit == PickerInit => PickerType
  <1>. SUFFICES ASSUME PickerInit PROVE PickerType
    OBVIOUS
  <1>1. PICK node \in {None, Peers[1].id} :
          /\ helper = [node |-> node, online |-> IDs]
          /\ store = [pending |-> NotPending, prefs |-> node, known |-> TRUE,
                      online |-> IDs]
          /\ routing = [pendingExit |-> NotPending, selected |-> node]
    BY DEF PickerInit
  <1>2. node \in Nodes
    BY IDsAre DEF Nodes
  <1>3. inbox \in Seq(Nodes) /\ outbox \in Seq(Message \cup {Error})
    BY EmptySequence, Zenon DEF PickerInit
  <1>4. /\ connected \in BOOLEAN /\ exitNodeRestoreAttempted \in BOOLEAN
        /\ helper \in [node: Nodes, online: SUBSET IDs]
        /\ store \in [pending: Nodes \cup {NotPending}, prefs: Nodes,
                      known: BOOLEAN, online: SUBSET IDs]
        /\ routing \in [pendingExit: Nodes \cup {NotPending}, selected: Nodes]
    BY <1>1, <1>2 DEF PickerInit
  <1>. QED  BY <1>3, <1>4 DEF PickerType

LEMMA PickerTypeStep ==
    ASSUME PickerType, PickerNext
    PROVE  PickerType'
  <1>1. CASE ClickRow
    <2>1. PICK id \in Nodes : SetExitNode(id)
      BY <1>1, ClickAsks
    <2>2. inbox' \in Seq(Nodes)
      BY <2>1, Sent DEF SetExitNode
    <2>. QED  BY <2>1, <2>2 DEF SetExitNode, SelectExitNode, PickerType
  <1>2. CASE Toggle \/ Search
    BY <1>2 DEF Toggle, Search, PickerType
  <1>3. CASE HelperHandles
    <2>1. inbox # <<>> /\ Head(inbox) \in Nodes /\ Tail(inbox) \in Seq(Nodes)
      BY <1>3 DEF HelperHandles, PickerType
    <2>2. [Status EXCEPT !.node = Head(inbox)] \in Message
      BY <2>1, StatusType
    <2>3. outbox' \in Seq(Message \cup {Error})
      <3>1. outbox' \in {Append(outbox, [Status EXCEPT !.node = Head(inbox)]),
                         Append(outbox, Error)}
        BY <1>3 DEF HelperHandles
      <3>2. outbox \in Seq(Message \cup {Error})
        BY DEF PickerType
      <3>. QED  BY <2>2, <3>1, <3>2, Appended
    <2>4. helper' \in [node: Nodes, online: SUBSET IDs]
      BY <1>3, <2>1 DEF HelperHandles, PickerType
    <2>. QED  BY <1>3, <2>1, <2>3, <2>4 DEF HelperHandles, PickerType
  <1>4. CASE HelperReports
    <2>1. helper' \in [node: Nodes, online: SUBSET IDs]
      BY <1>4 DEF HelperReports, PickerType
    <2>2. [Status EXCEPT !.online = helper'.online] \in Message
      BY <2>1, StatusType DEF Message
    <2>. QED  BY <1>4, <2>1, <2>2 DEF HelperReports, PickerType
  <1>5. CASE ReceiveStatus
    <2>1. outbox # <<>> /\ Head(outbox) \in Message /\ Tail(outbox) \in Seq(Message \cup {Error})
      <3>1. outbox # <<>> /\ Head(outbox).type = "status"
        BY <1>5 DEF ReceiveStatus
      <3>2. outbox \in Seq(Message \cup {Error})
        BY DEF PickerType
      <3>3. Head(outbox) \in Message \cup {Error} /\ Tail(outbox) \in Seq(Message \cup {Error})
        BY <3>1, <3>2, Taken
      <3>4. Head(outbox) # Error
        BY <3>1 DEF Error
      <3>. QED  BY <3>1, <3>3, <3>4
    <2>2. Head(outbox).node \in Nodes /\ Head(outbox).online \in SUBSET IDs
      BY <2>1 DEF Message
    <2>3. routing' \in [pendingExit: Nodes \cup {NotPending}, selected: Nodes]
      BY <1>5, <2>2 DEF ReceiveStatus, ConfirmStatus, SelectedOnStatus, PickerType, Nodes
    <2>4. store' \in [pending: Nodes \cup {NotPending}, prefs: Nodes,
                      known: BOOLEAN, online: SUBSET IDs]
      BY <1>5, <2>2 DEF ReceiveStatus, NextPending, PickerType
    <2>5. inbox' \in Seq(Nodes)
      <3>1. Send(routing'.selected) \/ inbox' = inbox
        BY <1>5 DEF ReceiveStatus
      <3>2. routing'.selected \in Nodes /\ inbox \in Seq(Nodes)
        BY <2>3 DEF PickerType
      <3>. QED  BY <3>1, <3>2, Sent
    <2>6. exitNodeRestoreAttempted' \in BOOLEAN
      BY <1>5 DEF ReceiveStatus, PickerType
    <2>. QED  BY <1>5, <2>1, <2>3, <2>4, <2>5, <2>6 DEF ReceiveStatus, PickerType
  <1>6. CASE ReceiveError
    <2>1. outbox # <<>> /\ outbox' = Tail(outbox)
      BY <1>6 DEF ReceiveError
    <2>2. Tail(outbox) \in Seq(Message \cup {Error})
      BY <2>1, Taken DEF PickerType
    <2>. QED  BY <1>6, <2>1, <2>2 DEF ReceiveError, PickerType
  <1>7. CASE PortDrops
    <2>1. inbox' \in Seq(Nodes) /\ outbox' \in Seq(Message \cup {Error})
      BY <1>7, EmptySequence DEF PortDrops
    <2>. QED  BY <1>7, <2>1 DEF PortDrops, PickerType
  <1>8. CASE WorkerRestarts
    BY <1>8 DEF WorkerRestarts, PickerType, Nodes
  <1>9. CASE PortConnects
    <2>1. Status \in Message
      BY StatusType DEF Nodes
    <2>2. outbox' \in Seq(Message \cup {Error})
      BY <1>9, <2>1 DEF PortConnects
    <2>. QED  BY <1>9, <2>2 DEF PortConnects, PickerType
  <1>. QED  BY <1>1, <1>2, <1>3, <1>4, <1>5, <1>6, <1>7, <1>8, <1>9 DEF PickerNext

LEMMA SettlingInit == PickerInit => SettlingInv
  <1>. SUFFICES ASSUME PickerInit PROVE SettlingInv
    OBVIOUS
  <1>1. PickerType
    BY PickerTypeInit
  <1>2. PICK node \in {None, Peers[1].id} :
          /\ helper = [node |-> node, online |-> IDs]
          /\ store = [pending |-> NotPending, prefs |-> node, known |-> TRUE,
                      online |-> IDs]
          /\ routing = [pendingExit |-> NotPending, selected |-> node]
    BY DEF PickerInit
  <1>3. /\ inbox = <<>> /\ outbox = <<>> /\ connected /\ exitNodeRestoreAttempted
        /\ Awaited = node /\ Reported = node
    BY <1>2 DEF PickerInit, Awaited, Reported
  <1>4. OnlyStatuses /\ OneChoice
    BY <1>2, <1>3, IDsAre DEF OnlyStatuses, OneChoice
  <1>5. AwaitsNothing
    BY <1>2, <1>3 DEF AwaitsNothing, NoneAhead
  <1>6. Agreement
    BY <1>2, <1>3, <1>5 DEF Agreement
  <1>. QED  BY <1>1, <1>4, <1>6 DEF SettlingInv

\* Steps of the picker alone.
LEMMA SettlingFrame ==
    ASSUME SettlingInv,
           UNCHANGED <<helper, connected, inbox, outbox, store, routing,
                       exitNodeRestoreAttempted, excused>>
    PROVE  SettlingInv'
  BY DEF SettlingInv, PickerType, OnlyStatuses, OneChoice, Agreement, AwaitsChoice,
         AwaitsNothing, JustConnected, NoneAhead, Awaited, Reported, Busy, Error

\* A choice: the store and routing protection wait for it and the helper is
\* asked for it, or will be by the first status of the next connection.
LEMMA ClickSettles ==
    ASSUME SettlingInv, PickerType', NEW id \in Nodes, SetExitNode(id)
    PROVE  SettlingInv'
  <1>. SUFFICES ASSUME excused' = {}
                PROVE  OnlyStatuses' /\ OneChoice' /\ Agreement'
    BY DEF SettlingInv
  <1>1. excused = {} /\ (connected \/ id # None)
    BY DEF SetExitNode
  <1>2. OnlyStatuses /\ OneChoice /\ Agreement /\ PickerType
    BY <1>1 DEF SettlingInv
  <1>3. /\ routing'.pendingExit = id /\ store'.pending = id
        /\ store'.prefs = store.prefs
        /\ id # None => routing'.selected = id
        /\ UNCHANGED <<helper, connected, outbox, exitNodeRestoreAttempted>>
    BY <1>2 DEF SetExitNode, SelectExitNode, PickerType
  <1>4. /\ connected => inbox' = Append(inbox, id)
        /\ ~connected => inbox' = inbox
    BY <1>2, Sent DEF SetExitNode
  <1>5. OnlyStatuses' /\ OneChoice'
    BY <1>2, <1>3, IDsAre DEF OnlyStatuses, OneChoice
  <1>6. CASE connected
    <2>1. inbox' # <<>> /\ Awaited' = id
      BY <1>2, <1>4, <1>6, Appended DEF Awaited, PickerType
    <2>2. Reported' = Reported
      BY <1>3 DEF Reported
    <2>3. id # NotPending
      BY IDsAre
    <2>4. AwaitsChoice'
      BY <1>3, <2>1 DEF AwaitsChoice, Busy
    <2>. QED  BY <1>2, <1>3, <1>5, <1>6, <2>2, <2>3, <2>4 DEF Agreement
  <1>7. CASE ~connected
    BY <1>1, <1>2, <1>3, <1>4, <1>5, <1>7 DEF Agreement
  <1>. QED  BY <1>6, <1>7

\* The helper takes a command: what is awaited stays, and the last status is
\* that of the node it now uses.
LEMMA HandlingSettles ==
    ASSUME SettlingInv, PickerType', HelperHandles
    PROVE  SettlingInv'
  <1>. SUFFICES ASSUME excused' = {}
                PROVE  OnlyStatuses' /\ OneChoice' /\ Agreement'
    BY DEF SettlingInv
  <1>. DEFINE node == Head(inbox)
              status == [Status EXCEPT !.node = node]
  <1>1. /\ excused = {} /\ inbox # <<>> /\ inbox' = Tail(inbox)
        /\ helper' = [helper EXCEPT !.node = node]
        /\ outbox' = Append(outbox, status)
        /\ UNCHANGED <<connected, store, routing, exitNodeRestoreAttempted>>
    BY DEF HelperHandles
  <1>2. OnlyStatuses /\ OneChoice /\ Agreement /\ PickerType
    BY <1>1 DEF SettlingInv
  <1>3. inbox \in Seq(Nodes) /\ outbox \in Seq(Message \cup {Error})
    BY <1>2 DEF PickerType
  <1>4. node \in Nodes /\ node = inbox[1] /\ 1 \in DOMAIN inbox
    BY <1>1, <1>3, Taken
  <1>5. status \in Message /\ status.node = node /\ helper'.node = node
    BY <1>1, <1>2, <1>4, StatusType DEF PickerType
  <1>. HIDE DEF node, status
  <1>6. /\ outbox' # <<>> /\ outbox'[Len(outbox')] = status
        /\ \A i \in DOMAIN outbox' :
             outbox'[i] = status \/ (i \in DOMAIN outbox /\ outbox'[i] = outbox[i])
    BY <1>1, <1>3, <1>5, Appended
  <1>7. OnlyStatuses' /\ OneChoice'
    BY <1>1, <1>2, <1>5, <1>6 DEF OnlyStatuses, OneChoice
  <1>8. Awaited' = Awaited
    <2>1. CASE inbox' = <<>>
      BY <1>1, <1>3, <1>4, <1>5, <2>1, Taken DEF Awaited
    <2>2. CASE inbox' # <<>>
      BY <1>1, <1>3, <2>2, Taken DEF Awaited
    <2>. QED  BY <2>1, <2>2
  <1>9. Reported' = helper'.node
    BY <1>5, <1>6 DEF Reported
  <1>10. Busy' /\ ~JustConnected
    BY <1>1, <1>6 DEF Busy, JustConnected
  <1>11. connected
    BY <1>1, <1>2 DEF Agreement
  <1>12. AwaitsChoice => AwaitsChoice'
    BY <1>1, <1>8, <1>10 DEF AwaitsChoice
  <1>13. NoneAhead => NoneAhead'
    <2>1. SUFFICES ASSUME NoneAhead PROVE NoneAhead'
      OBVIOUS
    <2>2. node = None
      BY <1>4, <2>1 DEF NoneAhead
    <2>3. \A i \in DOMAIN inbox' : inbox'[i] = None
      BY <1>1, <1>3, <2>1, Taken DEF NoneAhead
    <2>4. \A i \in DOMAIN outbox' : outbox'[i].node = None
      BY <1>5, <1>6, <2>1, <2>2 DEF NoneAhead
    <2>. QED  BY <1>5, <2>2, <2>3, <2>4 DEF NoneAhead
  <1>14. AwaitsNothing => AwaitsNothing'
    BY <1>1, <1>8, <1>10, <1>13 DEF AwaitsNothing
  <1>. QED  BY <1>1, <1>2, <1>7, <1>9, <1>11, <1>12, <1>14 DEF Agreement

\* A status of the helper's own reports the node it uses.
LEMMA ReportingSettles ==
    ASSUME SettlingInv, PickerType', HelperReports
    PROVE  SettlingInv'
  <1>. SUFFICES ASSUME excused' = {}
                PROVE  OnlyStatuses' /\ OneChoice' /\ Agreement'
    BY DEF SettlingInv
  <1>. DEFINE status == [Status EXCEPT !.online = helper'.online]
  <1>1. /\ excused = {} /\ connected
        /\ outbox' = Append(outbox, status)
        /\ UNCHANGED <<connected, inbox, store, routing, exitNodeRestoreAttempted>>
    BY DEF HelperReports
  <1>2. OnlyStatuses /\ OneChoice /\ Agreement /\ PickerType
    BY <1>1 DEF SettlingInv
  <1>3. helper'.node = helper.node
    BY <1>2 DEF HelperReports, PickerType
  <1>4. Status \in Message /\ Status.node = helper.node
    BY <1>2, StatusType DEF Nodes
  <1>5. status \in Message /\ status.node = helper.node
    <2>1. helper'.online \in SUBSET IDs
      BY DEF PickerType
    <2>. QED  BY <1>4, <2>1 DEF Message
  <1>. HIDE DEF status
  <1>6. /\ outbox' # <<>> /\ outbox'[Len(outbox')] = status
        /\ \A i \in DOMAIN outbox' :
             outbox'[i] = status \/ (i \in DOMAIN outbox /\ outbox'[i] = outbox[i])
    BY <1>1, <1>2, <1>5, Appended DEF PickerType
  <1>7. OnlyStatuses' /\ OneChoice'
    BY <1>1, <1>2, <1>5, <1>6 DEF OnlyStatuses, OneChoice
  <1>8. Awaited' = Awaited /\ Busy' /\ Reported' = helper.node
    BY <1>1, <1>3, <1>5, <1>6 DEF Awaited, Busy, Reported
  <1>9. JustConnected => JustConnected'
    BY <1>1, <1>3, <1>5, <1>6 DEF JustConnected
  <1>10. NoneAhead => NoneAhead'
    BY <1>1, <1>3, <1>5, <1>6 DEF NoneAhead
  <1>11. AwaitsChoice => AwaitsChoice'
    BY <1>1, <1>8, <1>9 DEF AwaitsChoice
  <1>12. AwaitsNothing => AwaitsNothing'
    BY <1>1, <1>8, <1>9, <1>10 DEF AwaitsNothing
  <1>. QED  BY <1>1, <1>2, <1>3, <1>7, <1>8, <1>11, <1>12 DEF Agreement

\* A lost connection, unless it takes a clear with it; a restart; a new
\* connection; and no error when the helper refused nothing.
LEMMA ConnectionSettles ==
    ASSUME SettlingInv, PickerType', PortDrops \/ WorkerRestarts \/ PortConnects
    PROVE  SettlingInv'
  <1>. SUFFICES ASSUME excused' = {}
                PROVE  OnlyStatuses' /\ OneChoice' /\ Agreement'
    BY DEF SettlingInv
  <1>1. excused = {}
    BY DEF PortDrops, WorkerRestarts, PortConnects
  <1>2. OnlyStatuses /\ OneChoice /\ Agreement /\ PickerType
    BY <1>1 DEF SettlingInv
  <1>3. CASE PortDrops
    <2>1. /\ connected /\ ~connected' /\ inbox' = <<>> /\ outbox' = <<>>
          /\ ~exitNodeRestoreAttempted' /\ None \notin Range(inbox)
          /\ UNCHANGED <<helper, store, routing>>
      BY <1>3 DEF PortDrops
    <2>2. OnlyStatuses' /\ OneChoice'
      BY <1>2, <2>1 DEF OnlyStatuses, OneChoice
    <2>3. ASSUME routing.pendingExit = None PROVE helper.node = None
      <3>1. Awaited = None
        BY <1>2, <2>1, <2>3, IDsAre DEF Agreement, AwaitsChoice
      <3>2. inbox # <<>> => inbox[Len(inbox)] \in Range(inbox)
        BY <1>2, Taken DEF Range, PickerType
      <3>. QED  BY <2>1, <3>1, <3>2 DEF Awaited
    <2>. QED  BY <2>1, <2>2, <2>3 DEF Agreement
  <1>4. CASE WorkerRestarts
    BY <1>2, <1>4 DEF WorkerRestarts, OnlyStatuses, OneChoice, Agreement
  <1>5. CASE PortConnects
    <2>1. /\ ~connected /\ connected' /\ outbox' = <<Status>>
          /\ UNCHANGED <<helper, inbox, store, routing, exitNodeRestoreAttempted>>
      BY <1>5 DEF PortConnects
    <2>2. inbox = <<>> /\ ~exitNodeRestoreAttempted
      BY <1>2, <2>1 DEF Agreement
    <2>3. Status \in Message /\ Status.node = helper.node
      BY <1>2, StatusType DEF Nodes
    <2>4. /\ outbox' # <<>> /\ outbox'[Len(outbox')] = Status
          /\ \A i \in DOMAIN outbox' : outbox'[i] = Status
      BY <2>1
    <2>5. OnlyStatuses' /\ OneChoice'
      BY <1>2, <2>1, <2>3, <2>4 DEF OnlyStatuses, OneChoice
    <2>6. JustConnected' /\ Busy'
      BY <2>1, <2>2, <2>3, <2>4 DEF JustConnected, Busy
    <2>7. Awaited' = helper.node /\ Reported' = helper.node
      BY <2>1, <2>2, <2>3, <2>4 DEF Awaited, Reported
    <2>8. AwaitsNothing'
      BY <2>6 DEF AwaitsNothing
    <2>9. AwaitsChoice'
      BY <1>2, <2>1, <2>6, <2>7 DEF AwaitsChoice, Agreement
    <2>. QED  BY <2>1, <2>5, <2>7, <2>8, <2>9 DEF Agreement
  <1>. QED  BY <1>3, <1>4, <1>5

LEMMA ErrorSettles ==
    ASSUME SettlingInv, PickerType', ReceiveError
    PROVE  SettlingInv'
  <1>1. excused' = excused /\ outbox # <<>> /\ Head(outbox).type = "error"
    BY DEF ReceiveError
  <1>2. 1 \in DOMAIN outbox /\ Head(outbox) = outbox[1]
    BY <1>1, Taken DEF SettlingInv, PickerType
  <1>3. ~OnlyStatuses
    BY <1>1, <1>2 DEF OnlyStatuses, Message
  <1>. QED  BY <1>1, <1>3 DEF SettlingInv

\* A status: it confirms the choice, or what is awaited is still under way, or
\* the first one of a connection asks for the selected node again.
LEMMA StatusSettles ==
    ASSUME SettlingInv, PickerType', ReceiveStatus
    PROVE  SettlingInv'
  <1>. SUFFICES ASSUME excused' = {}
                PROVE  OnlyStatuses' /\ OneChoice' /\ Agreement'
    BY DEF SettlingInv
  <1>. DEFINE x == Head(outbox).node
              chosen == routing.pendingExit
              picked == routing'.selected
              restores == ~exitNodeRestoreAttempted /\ picked # None /\ picked # x
  <1>1. /\ outbox # <<>> /\ outbox' = Tail(outbox)
        /\ store'.pending = NextPending(store.pending, x) /\ store'.prefs = x
        /\ routing' = ConfirmStatus(routing, x)
        /\ exitNodeRestoreAttempted' = (exitNodeRestoreAttempted \/ picked # None)
        /\ restores => Send(picked)
        /\ ~restores => inbox' = inbox
        /\ UNCHANGED <<helper, connected>>
    BY DEF ReceiveStatus
  <1>2. /\ excused = {}
        /\ x = None /\ chosen = None =>
             /\ Range(inbox) \subseteq {None}
             /\ \A i \in 2..Len(outbox) : outbox[i] = Error \/ outbox[i].node = None
    BY DEF ReceiveStatus
  <1>3. OnlyStatuses /\ OneChoice /\ Agreement /\ PickerType
    BY <1>2 DEF SettlingInv
  <1>4. connected /\ Reported = helper.node
    BY <1>1, <1>3 DEF Agreement
  <1>5. inbox \in Seq(Nodes) /\ outbox \in Seq(Message \cup {Error})
    BY <1>3 DEF PickerType
  <1>6. /\ 1 \in DOMAIN outbox /\ Head(outbox) = outbox[1]
        /\ \A i \in DOMAIN outbox' : i + 1 \in DOMAIN outbox /\ outbox'[i] = outbox[i + 1]
        /\ outbox' # <<>> => outbox'[Len(outbox')] = outbox[Len(outbox)]
        /\ outbox' = <<>> => outbox[Len(outbox)] = outbox[1]
    BY <1>1, <1>5, Taken
  <1>7. x \in Nodes /\ x # NotPending
    BY <1>3, <1>6, IDsAre DEF OnlyStatuses, Message
  <1>8. chosen \in Nodes \cup {NotPending} /\ picked \in Nodes
    BY <1>3 DEF PickerType
  <1>9. OnlyStatuses' /\ Reported' = helper'.node
    <2>1. OnlyStatuses'
      BY <1>3, <1>6 DEF OnlyStatuses
    <2>2. Reported' = Reported
      BY <1>1, <1>6 DEF Reported
    <2>. QED  BY <1>1, <1>4, <2>1, <2>2
  <1>10. /\ routing'.pendingExit = (IF chosen = x THEN NotPending ELSE chosen)
         /\ picked = SelectedOnStatus(routing, x)
    BY <1>1 DEF ConfirmStatus
  <1>11. /\ chosen \in IDs => picked = chosen
         /\ chosen \notin IDs /\ x # None => picked = x
         /\ x = None /\ chosen = None => picked = None
         /\ x = None /\ chosen = NotPending => picked = routing.selected
    BY <1>8, <1>10, IDsAre DEF SelectedOnStatus, Nodes
  <1>12. OneChoice'
    BY <1>1, <1>3, <1>7, <1>8, <1>10, <1>11, IDsAre DEF OneChoice, NextPending
  <1>13. restores => Awaited' = picked /\ Busy'
    <2>1. SUFFICES ASSUME restores PROVE Awaited' = picked /\ Busy'
      OBVIOUS
    <2>2. inbox' = Append(inbox, picked)
      BY <1>1, <1>3, <1>4, <1>8, <2>1, Sent
    <2>. HIDE DEF picked, restores
    <2>. QED  BY <1>5, <1>8, <2>2, Appended DEF Awaited, Busy
  <1>14. ~restores => Awaited' = Awaited
    BY <1>1 DEF Awaited
  <1>15. ~restores => Busy' \/ Awaited = x
    <2>1. SUFFICES ASSUME ~restores, inbox = <<>>, outbox' = <<>> PROVE Awaited = x
      BY <1>1 DEF Busy
    <2>. QED  BY <1>1, <1>4, <1>6, <2>1 DEF Awaited, Reported
  <1>16. exitNodeRestoreAttempted' = (exitNodeRestoreAttempted \/ picked # None)
    BY <1>1
  <1>17. JustConnected => /\ ~exitNodeRestoreAttempted /\ inbox = <<>>
                          /\ Awaited = x /\ helper.node = x
                          /\ x = None /\ ~restores => NoneAhead'
    <2>1. SUFFICES ASSUME JustConnected
                   PROVE  /\ ~exitNodeRestoreAttempted /\ inbox = <<>>
                          /\ Awaited = x /\ helper.node = x
                          /\ x = None /\ ~restores => NoneAhead'
      OBVIOUS
    <2>2. ~exitNodeRestoreAttempted /\ inbox = <<>> /\ Awaited = x /\ helper.node = x
      BY <1>6, <2>1 DEF JustConnected, Awaited
    <2>3. x = None /\ ~restores => NoneAhead'
      BY <1>1, <1>6, <2>1, <2>2 DEF JustConnected, NoneAhead
    <2>. QED  BY <2>2, <2>3
  <1>18. x = None /\ chosen = None /\ ~restores => NoneAhead'
    <2>1. SUFFICES ASSUME x = None, chosen = None, ~restores PROVE NoneAhead'
      OBVIOUS
    <2>2. \A i \in DOMAIN inbox' : inbox'[i] = None
      BY <1>1, <1>2, <2>1 DEF Range
    <2>3. \A i \in DOMAIN outbox' : outbox'[i].node = None
      <3>1. SUFFICES ASSUME NEW i \in DOMAIN outbox' PROVE outbox'[i].node = None
        OBVIOUS
      <3>2. i + 1 \in 2..Len(outbox) /\ outbox'[i] = outbox[i + 1] /\ i + 1 \in DOMAIN outbox
        BY <1>1, <1>5, <1>6
      <3>3. outbox[i + 1] # Error
        BY <1>3, <3>2, IDsAre DEF OnlyStatuses
      <3>. QED  BY <1>2, <2>1, <3>2, <3>3
    <2>4. helper.node = None
      <3>1. CASE outbox' = <<>>
        BY <1>1, <1>9, <2>1, <3>1 DEF Reported
      <3>2. CASE outbox' # <<>>
        <4>1. Len(outbox') \in DOMAIN outbox'
          BY <3>2, Taken DEF PickerType
        <4>. QED  BY <1>1, <1>9, <2>3, <3>2, <4>1 DEF Reported
      <3>. QED  BY <3>1, <3>2
    <2>. QED  BY <1>1, <2>2, <2>3, <2>4 DEF NoneAhead
  <1>19. NoneAhead => x = None /\ (~restores => NoneAhead')
    BY <1>1, <1>6 DEF NoneAhead
  <1>20. connected'
    BY <1>1, <1>4
  <1>21. routing'.pendingExit = NotPending /\ AwaitsNothing' =>
           OnlyStatuses' /\ OneChoice' /\ Agreement'
    BY <1>9, <1>12, <1>20 DEF Agreement
  <1>22. routing'.pendingExit # NotPending /\ AwaitsChoice' =>
           OnlyStatuses' /\ OneChoice' /\ Agreement'
    BY <1>9, <1>12, <1>20 DEF Agreement
  <1>23. chosen = NotPending => AwaitsNothing
    BY <1>3, <1>4 DEF Agreement
  <1>24. chosen # NotPending => AwaitsChoice
    BY <1>3, <1>4 DEF Agreement
  <1>. HIDE DEF x
  <1>25. CASE chosen = NotPending
    <2>1. routing'.pendingExit = NotPending /\ chosen \notin IDs
      BY <1>10, <1>25, IDsAre
    <2>2. AwaitsNothing'
      <3>1. CASE JustConnected
        BY <1>11, <1>13, <1>14, <1>16, <1>17, <1>25, <2>1, <3>1 DEF AwaitsNothing
      <3>2. CASE exitNodeRestoreAttempted /\ Awaited # None
        <4>1. ~restores /\ exitNodeRestoreAttempted'
          BY <1>16, <3>2
        <4>2. Awaited' = Awaited /\ (Busy' \/ Awaited = x)
          BY <1>14, <1>15, <4>1
        <4>3. Awaited = x => picked = Awaited'
          BY <1>11, <2>1, <3>2, <4>2
        <4>. QED  BY <3>2, <4>1, <4>2, <4>3 DEF AwaitsNothing
      <3>3. CASE Awaited = None /\ routing.selected = None /\ NoneAhead
        BY <1>11, <1>14, <1>19, <1>25, <3>3 DEF AwaitsNothing
      <3>. QED  BY <1>23, <1>25, <3>1, <3>2, <3>3 DEF AwaitsNothing
    <2>. QED  BY <1>21, <2>1, <2>2
  <1>26. CASE chosen = None
    <2>1. Awaited = None
      BY <1>24, <1>26, IDsAre DEF AwaitsChoice
    <2>2. CASE x = None
      <3>1. routing'.pendingExit = NotPending /\ picked = None /\ ~restores
        BY <1>10, <1>11, <1>26, <2>2
      <3>2. AwaitsNothing'
        BY <1>14, <1>18, <1>26, <2>1, <2>2, <3>1 DEF AwaitsNothing
      <3>. QED  BY <1>21, <3>1, <3>2
    <2>3. CASE x # None
      <3>1. routing'.pendingExit = None /\ picked = x /\ ~restores
        BY <1>10, <1>11, <1>26, <2>3, IDsAre
      <3>2. AwaitsChoice'
        BY <1>14, <1>15, <2>1, <2>3, <3>1 DEF AwaitsChoice
      <3>. QED  BY <1>22, <3>1, <3>2, IDsAre
    <2>. QED  BY <2>2, <2>3
  <1>27. CASE chosen \in IDs
    <2>1. picked = chosen /\ chosen # None /\ chosen # NotPending
      BY <1>11, <1>27, IDsAre
    <2>2. CASE x = chosen
      <3>1. routing'.pendingExit = NotPending /\ ~restores /\ exitNodeRestoreAttempted'
        BY <1>10, <1>16, <2>1, <2>2
      <3>2. Awaited = chosen
        BY <1>17, <1>24, <2>1, <2>2 DEF AwaitsChoice
      <3>3. AwaitsNothing'
        BY <1>14, <2>1, <3>1, <3>2 DEF AwaitsNothing
      <3>. QED  BY <1>21, <3>1, <3>3
    <2>3. CASE x # chosen
      <3>1. routing'.pendingExit = chosen
        BY <1>10, <2>3
      <3>2. restores => AwaitsChoice'
        BY <1>13, <2>1, <3>1 DEF AwaitsChoice
      <3>3. ~restores => Awaited = chosen
        BY <1>17, <1>24, <2>1, <2>3 DEF AwaitsChoice
      <3>4. ~restores => AwaitsChoice'
        BY <1>14, <1>15, <2>3, <3>1, <3>3 DEF AwaitsChoice
      <3>. QED  BY <1>22, <2>1, <3>1, <3>2, <3>4
    <2>. QED  BY <2>2, <2>3
  <1>. QED  BY <1>8, <1>25, <1>26, <1>27 DEF Nodes

LEMMA SettlingStep ==
    ASSUME SettlingInv, PickerNext
    PROVE  SettlingInv'
  <1>1. PickerType'
    BY PickerTypeStep DEF SettlingInv
  <1>2. CASE ClickRow
    BY <1>1, <1>2, ClickAsks, ClickSettles
  <1>3. CASE Toggle \/ Search
    BY <1>3, SettlingFrame DEF Toggle, Search
  <1>4. CASE HelperHandles
    BY <1>1, <1>4, HandlingSettles
  <1>5. CASE HelperReports
    BY <1>1, <1>5, ReportingSettles
  <1>6. CASE ReceiveStatus
    BY <1>1, <1>6, StatusSettles
  <1>7. CASE ReceiveError
    BY <1>1, <1>7, ErrorSettles
  <1>8. CASE PortDrops \/ WorkerRestarts \/ PortConnects
    BY <1>1, <1>8, ConnectionSettles
  <1>. QED  BY <1>2, <1>3, <1>4, <1>5, <1>6, <1>7, <1>8 DEF PickerNext

LEMMA SettlingImplies == SettlingInv => SelectionSettles
  <1>. SUFFICES ASSUME SettlingInv, connected, inbox = <<>>, outbox = <<>>, excused = {}
                PROVE  /\ Selected = helper.node /\ routing.selected = helper.node
                       /\ store.pending = NotPending /\ routing.pendingExit = NotPending
    BY DEF SelectionSettles
  <1>1. ~Busy /\ ~JustConnected /\ Awaited = helper.node /\ store.prefs = helper.node
    BY DEF Busy, JustConnected, Awaited, SettlingInv, Agreement, Reported
  <1>2. routing.pendingExit = NotPending
    BY <1>1 DEF SettlingInv, Agreement, AwaitsChoice
  <1>3. routing.selected = helper.node
    BY <1>1, <1>2 DEF SettlingInv, Agreement, AwaitsNothing
  <1>4. store.pending = NotPending
    BY <1>2 DEF SettlingInv, OneChoice
  <1>. QED  BY <1>1, <1>2, <1>3, <1>4 DEF Selected, EffectiveSelected

\* When nothing is under way, the picker, the store and routing protection
\* show the node that the helper uses, whatever was chosen, reported, lost and
\* restarted before, unless one of the named excuses applies: set-exit-node and
\* confirmStatus() never leave the user with another node than the one in use.
THEOREM SettlesTheorem == MCSpec => []PickerSettles
  <1>. DEFINE Settling == part = "exit node" => SettlingInv
  <1>1. MCInit => Settling
    BY SettlingInit DEF MCInit
  <1>2. Settling /\ [MCNext]_<<part, vars, pickerVars>> => Settling'
    <2>. SUFFICES ASSUME Settling, [MCNext]_<<part, vars, pickerVars>>, part' = "exit node"
                  PROVE  SettlingInv'
      OBVIOUS
    <2>1. CASE part = "requests" /\ Next /\ UNCHANGED <<part, pickerVars>>
      BY <2>1
    <2>2. CASE part = "exit node" /\ PickerNext /\ UNCHANGED <<part, vars>>
      BY <2>2, SettlingStep
    <2>3. CASE UNCHANGED <<part, vars, pickerVars>>
      BY <2>3, SettlingFrame DEF pickerVars
    <2>. QED  BY <2>1, <2>2, <2>3 DEF MCNext
  <1>3. Settling => PickerSettles
    BY SettlingImplies DEF PickerSettles
  <1>. QED  BY <1>1, <1>2, <1>3, PTL DEF MCSpec

-----------------------------------------------------------------------------
(* The recommended node is the best one                                    *)

\* What the place of the client, if it is known, says of a node.
IsPlaced(client) == client # ""
AtHome(n, client) == client # "" /\ n.code = client

\* The five criteria of a rank.
LEMMA RankFields ==
    ASSUME NEW n \in PeerSet, NEW online, NEW client
    PROVE  \E up, home, far, less :
             /\ Rank(n, online, client) = <<up, home, far, less, n.label>>
             /\ up \in {0, 1} /\ (up = 0 <=> n.id \in online)
             /\ home \in {0, 1} /\ (home = 0 <=> AtHome(n, client))
             /\ IsPlaced(client) => far = n.distance
             /\ ~IsPlaced(client) => far = 0
             /\ less = -n.priority
  <1>. DEFINE up == IF n.id \in online THEN 0 ELSE 1
              home == IF AtHome(n, client) THEN 0 ELSE 1
              far == IF IsPlaced(client) THEN n.distance ELSE 0
              less == -n.priority
  <1>1. up \in {0, 1} /\ (up = 0 <=> n.id \in online)
    OBVIOUS
  <1>2. home \in {0, 1} /\ (home = 0 <=> AtHome(n, client))
    OBVIOUS
  <1>3. (IsPlaced(client) => far = n.distance) /\ (~IsPlaced(client) => far = 0)
    OBVIOUS
  <1>4. Rank(n, online, client) = <<up, home, far, less, n.label>>
    BY DEF Rank, Distance, AtHome, IsPlaced
  <1>5. less = -n.priority
    OBVIOUS
  <1>. HIDE DEF up, home, far, less
  <1>. QED  BY <1>1, <1>2, <1>3, <1>4, <1>5

Precedes(m, n, client) ==
    Before(Rank(m, store.online, client), Rank(n, store.online, client))

\* Two nodes that agree on the criteria so far are told apart by the next.
LEMMA NotPreceded ==
    ASSUME NEW m \in PeerSet, NEW n \in PeerSet, NEW client, ~Precedes(m, n, client)
    PROVE  /\ m.id \in store.online => n.id \in store.online
           /\ (m.id \in store.online <=> n.id \in store.online) =>
                /\ AtHome(m, client) => AtHome(n, client)
                /\ (AtHome(m, client) <=> AtHome(n, client)) =>
                     /\ IsPlaced(client) => n.distance <= m.distance
                     /\ ~IsPlaced(client) \/ m.distance = n.distance =>
                          /\ n.priority >= m.priority
                          /\ m.priority = n.priority => n.label <= m.label
  <1>. DEFINE a == Rank(m, store.online, client)
              b == Rank(n, store.online, client)
  <1>1. a \in RankSet /\ b \in RankSet
    BY RankType
  <1>2. PICK up, home, far, less :
             /\ a = <<up, home, far, less, m.label>>
             /\ up \in {0, 1} /\ (up = 0 <=> m.id \in store.online)
             /\ home \in {0, 1} /\ (home = 0 <=> AtHome(m, client))
             /\ IsPlaced(client) => far = m.distance
             /\ ~IsPlaced(client) => far = 0
             /\ less = -m.priority
    BY RankFields, Zenon
  <1>3. PICK up1, home1, far1, less1 :
             /\ b = <<up1, home1, far1, less1, n.label>>
             /\ up1 \in {0, 1} /\ (up1 = 0 <=> n.id \in store.online)
             /\ home1 \in {0, 1} /\ (home1 = 0 <=> AtHome(n, client))
             /\ IsPlaced(client) => far1 = n.distance
             /\ ~IsPlaced(client) => far1 = 0
             /\ less1 = -n.priority
    BY RankFields, Zenon
  <1>4. ~Before(a, b)
    BY DEF Precedes
  <1>5. /\ m.distance \in Int /\ m.priority \in Int /\ m.label \in Int
        /\ n.distance \in Int /\ n.priority \in Int /\ n.label \in Int
    BY PeersAssumption
  <1>. HIDE DEF a, b
  <1>6. ~ \/ a[1] < b[1]
          \/ a[1] = b[1] /\ a[2] < b[2]
          \/ a[1] = b[1] /\ a[2] = b[2] /\ a[3] < b[3]
          \/ a[1] = b[1] /\ a[2] = b[2] /\ a[3] = b[3] /\ a[4] < b[4]
          \/ /\ a[1] = b[1] /\ a[2] = b[2] /\ a[3] = b[3] /\ a[4] = b[4]
             /\ a[5] < b[5]
    BY <1>1, <1>4, BeforeIs
  <1>7. /\ a[1] = up /\ a[2] = home /\ a[3] = far /\ a[4] = less /\ a[5] = m.label
        /\ b[1] = up1 /\ b[2] = home1 /\ b[3] = far1 /\ b[4] = less1 /\ b[5] = n.label
    BY <1>2, <1>3
  <1>8. /\ ~(up < up1)
        /\ up = up1 => ~(home < home1)
        /\ up = up1 /\ home = home1 => ~(far < far1)
        /\ up = up1 /\ home = home1 /\ far = far1 => ~(less < less1)
        /\ up = up1 /\ home = home1 /\ far = far1 /\ less = less1 => ~(m.label < n.label)
    BY <1>6, <1>7
  <1>9. m.id \in store.online => n.id \in store.online
    BY <1>2, <1>3, <1>8
  <1>10. (m.id \in store.online <=> n.id \in store.online) => up = up1
    BY <1>2, <1>3
  <1>11. up = up1 => (AtHome(m, client) => AtHome(n, client))
    BY <1>2, <1>3, <1>8
  <1>12. (AtHome(m, client) <=> AtHome(n, client)) => home = home1
    BY <1>2, <1>3
  <1>13. up = up1 /\ home = home1 /\ IsPlaced(client) => n.distance <= m.distance
    BY <1>2, <1>3, <1>5, <1>8
  <1>14. ~IsPlaced(client) \/ m.distance = n.distance => far = far1
    BY <1>2, <1>3
  <1>15. up = up1 /\ home = home1 /\ far = far1 => n.priority >= m.priority
    BY <1>2, <1>3, <1>5, <1>8
  <1>16. up = up1 /\ home = home1 /\ far = far1 /\ m.priority = n.priority
           => n.label <= m.label
    BY <1>2, <1>3, <1>5, <1>8
  <1>. QED  BY <1>9, <1>10, <1>11, <1>12, <1>13, <1>14, <1>15, <1>16

\* A candidate that none precedes is among the best, with the first label.
LEMMA FirstIsBest ==
    ASSUME NEW client, NEW n \in Candidates,
           \A m \in Candidates : ~Precedes(m, n, client)
    PROVE  /\ n \in BestOf(Candidates, client)
           /\ \A m \in BestOf(Candidates, client) : m \in PeerSet /\ n.label <= m.label
  <1>. DEFINE Up(m) == m.id \in store.online
              Home(m) == AtHome(m, client)
              Known(m) == IsPlaced(client) /\ m.distance # NoDistance
              up == IF \E m \in Candidates : Up(m) THEN {m \in Candidates : Up(m)}
                    ELSE Candidates
              home == IF \E m \in up : Home(m) THEN {m \in up : Home(m)} ELSE up
              known == IF \E m \in home : Known(m) THEN {m \in home : Known(m)} ELSE home
              near == {k \in known : ~IsPlaced(client) \/ \A m \in known : k.distance <= m.distance}
              best == {k \in near : \A m \in near : k.priority >= m.priority}
  <1>1. BestOf(Candidates, client) = best
    BY DEF BestOf, Prefer, AtHome, IsPlaced
  <1>2. Candidates \subseteq PeerSet
    BY DEF Candidates
  <1>3. \A m \in PeerSet : /\ m.distance \in Int /\ m.priority \in Int /\ m.label \in Int
                           /\ m.distance <= NoDistance /\ NoDistance \in Int
    BY PeersAssumption
  <1>4. \A m \in Candidates :
          /\ Up(m) => Up(n)
          /\ (Up(m) <=> Up(n)) =>
               /\ Home(m) => Home(n)
               /\ (Home(m) <=> Home(n)) =>
                    /\ IsPlaced(client) => n.distance <= m.distance
                    /\ ~IsPlaced(client) \/ m.distance = n.distance =>
                         /\ n.priority >= m.priority
                         /\ m.priority = n.priority => n.label <= m.label
    BY <1>2, NotPreceded
  <1>5. n \in up /\ up \subseteq Candidates /\ \A m \in up : Up(m) <=> Up(n)
    BY <1>4
  <1>6. n \in home /\ home \subseteq up /\ \A m \in home : Home(m) <=> Home(n)
    BY <1>4, <1>5
  <1>. HIDE DEF up, Up
  <1>7. \A m \in home : m \in PeerSet /\ m \in Candidates
    BY <1>2, <1>5, <1>6
  <1>8. \A m \in home :
          /\ IsPlaced(client) => n.distance <= m.distance
          /\ ~IsPlaced(client) \/ m.distance = n.distance =>
               /\ n.priority >= m.priority
               /\ m.priority = n.priority => n.label <= m.label
    BY <1>4, <1>5, <1>6
  <1>. HIDE DEF home, Home
  <1>9. n \in known /\ known \subseteq home
    BY <1>3, <1>6, <1>7, <1>8
  <1>. HIDE DEF known
  <1>10. n \in near /\ near \subseteq known
    BY <1>8, <1>9
  <1>11. \A m \in near : ~IsPlaced(client) \/ m.distance = n.distance
    BY <1>3, <1>6, <1>7, <1>8, <1>9
  <1>. HIDE DEF near
  <1>12. n \in best
    BY <1>8, <1>9, <1>10, <1>11
  <1>13. \A m \in best : m \in PeerSet /\ n.label <= m.label
    <2>1. SUFFICES ASSUME NEW m \in best PROVE m \in PeerSet /\ n.label <= m.label
      OBVIOUS
    <2>2. m \in near /\ m \in home /\ m \in PeerSet
      BY <1>7, <1>9, <1>10
    <2>3. m.priority >= n.priority /\ n.priority >= m.priority
      BY <1>8, <1>10, <1>11, <2>2
    <2>4. m.priority = n.priority
      BY <1>2, <1>3, <2>2, <2>3
    <2>. QED  BY <1>8, <1>11, <2>2, <2>4
  <1>. QED  BY <1>1, <1>12, <1>13

\* In whatever order the peers come, the recommended node is among the best.
LEMMA RecommendedBest ==
    ASSUME NEW peers \in Seq(PeerSet), PeerSet \subseteq Range(peers), NEW client,
           Candidates # {}
    PROVE  /\ SelectRecommended(peers, store.online, client) \in Candidates
           /\ SelectRecommended(peers, store.online, client) \in BestOf(Candidates, client)
           /\ \A m \in BestOf(Candidates, client) :
                /\ m \in PeerSet
                /\ SelectRecommended(peers, store.online, client).label <= m.label
  <1>. DEFINE n == SelectRecommended(peers, store.online, client)
  <1>1. \A m \in Candidates : \E i \in DOMAIN peers : peers[i] = m
    BY DEF Candidates, Range
  <1>2. /\ n \in Candidates
        /\ \A i \in DOMAIN peers : peers[i] \in Candidates =>
             ~Before(Rank(peers[i], store.online, client), Rank(n, store.online, client))
    BY <1>1, RecommendedExists
  <1>. HIDE DEF n
  <1>3. \A m \in Candidates : ~Precedes(m, n, client)
    BY <1>1, <1>2 DEF Precedes
  <1>4. /\ n \in BestOf(Candidates, client)
        /\ \A m \in BestOf(Candidates, client) : m \in PeerSet /\ n.label <= m.label
    BY <1>2, <1>3, FirstIsBest
  <1>. QED  BY <1>2, <1>4 DEF n

LEMMA ReverseHasAll ==
    Reverse(Peers) \in Seq(PeerSet) /\ PeerSet \subseteq Range(Reverse(Peers))
  <1>. DEFINE N == Len(Peers)
  <1>1. N \in Nat /\ DOMAIN Peers = 1..N /\ \A i \in 1..N : Peers[i] \in PeerSet
    BY PeersAssumption
  <1>2. Reverse(Peers) = [i \in 1..N |-> Peers[(N - i) + 1]]
    BY DEF Reverse
  <1>. HIDE DEF N
  <1>3. \A i \in 1..N : (N - i) + 1 \in 1..N /\ (N - ((N - i) + 1)) + 1 = i
    BY <1>1
  <1>4. Reverse(Peers) \in [1..N -> PeerSet]
    BY <1>1, <1>2, <1>3
  <1>5. ASSUME NEW n \in PeerSet PROVE n \in Range(Reverse(Peers))
    <2>1. PICK i \in 1..N : Peers[i] = n
      BY <1>1 DEF PeerSet, Range
    <2>2. Reverse(Peers)[(N - i) + 1] = n /\ (N - i) + 1 \in DOMAIN Reverse(Peers)
      BY <1>2, <1>3, <2>1
    <2>. QED  BY <2>2 DEF Range
  <1>6. Reverse(Peers) \in Seq(PeerSet)
    BY <1>1, <1>4
  <1>. QED  BY <1>5, <1>6

\* sameExitNodeLocation() agrees with groupMullvadByCountry(): a Mullvad node
\* is at the place of a candidate, or is the candidate, exactly if it is in
\* the row of the candidate's city.
LEMMA SameCity ==
    ASSUME NEW a \in Candidates, NEW k \in PeerSet, k.tag = "mullvad"
    PROVE  k \in CityOf(PeerSet, a) <=> k = a \/ SameExitNodeLocation(a, k)
  <1>. DEFINE Country(n) == OrElse(n.code, n.country)
              City(n) == OrElse(n.cityCode, n.city)
  <1>1. a \in PeerSet /\ a.tag = "mullvad" /\ HasLocationLabel(a)
    BY DEF Candidates
  <1>2. \A n \in PeerSet :
          /\ CountryKey(n) = IF Country(n) # "" THEN Country(n) ELSE n.id
          /\ CityKey(n) = IF City(n) # "" THEN City(n) ELSE n.name
    BY DEF CountryKey, CityKey, OrElse
  <1>3. \A m, n \in PeerSet : m.id # Country(n) /\ m.name # City(n)
    BY NamesAssumption DEF OrElse
  <1>4. \A n \in PeerSet : Country(n) # "" => HasLocationLabel(n)
    BY DEF HasLocationLabel, OrElse
  <1>5. /\ a.id = k.id => a = k
        /\ a.name = k.name => a = k
    BY <1>1, PeersAssumption, NamesAssumption
  <1>6. k \in CityOf(PeerSet, a) <=> /\ HasLocationLabel(k)
                                     /\ CountryKey(k) = CountryKey(a)
                                     /\ CityKey(k) = CityKey(a)
    BY DEF CityOf, Located, GroupOf
  <1>7. SameExitNodeLocation(a, k) <=> /\ Country(a) # "" /\ Country(a) = Country(k)
                                       /\ City(a) # "" /\ City(a) = City(k)
    BY DEF SameExitNodeLocation
  <1>. HIDE DEF Country, City
  <1>8. SameExitNodeLocation(a, k) => k \in CityOf(PeerSet, a)
    BY <1>1, <1>2, <1>4, <1>6, <1>7
  <1>9. CountryKey(k) = CountryKey(a) => k = a \/ (Country(a) # "" /\ Country(a) = Country(k))
    BY <1>1, <1>2, <1>3, <1>5
  <1>10. CityKey(k) = CityKey(a) => k = a \/ (City(a) # "" /\ City(a) = City(k))
    BY <1>1, <1>2, <1>3, <1>5
  <1>. QED  BY <1>1, <1>6, <1>7, <1>8, <1>9, <1>10

\* exit-nodes.ts recommends the best node, in whatever order the helper lists
\* the peers, and marks the recommendation as selected exactly when the row of
\* its city is.
THEOREM RecommendsBestTheorem == MCSpec => []PickerRecommendsBest
  <1>1. PickerRecommendsBest
    <2>. DEFINE Best(client) == BestOf(Candidates, client)
                First(client) == SelectRecommended(Peers, store.online, client)
                LastOne(client) == SelectRecommended(Reverse(Peers), store.online, client)
                Marked(client) ==
                  \/ Selected = First(client).id
                  \/ \E n \in PeerSet : /\ n.id = Selected
                                        /\ SameExitNodeLocation(First(client), n)
                Listed == /\ store.known /\ picker.query = ""
                          /\ \A n \in PeerSet : n.id = Selected => n.tag = "mullvad"
                InRow(client) ==
                  \E r \in Rows : First(client).id \in r.nodes /\ Selected \in r.nodes
    <2>1. ASSUME NEW client \in Clients, Candidates # {}
          PROVE  /\ First(client) \in Best(client) /\ LastOne(client) \in Best(client)
                 /\ \A n \in Best(client) : First(client).label <= n.label
                 /\ LastOne(client).label = First(client).label
      <3>1. Peers \in Seq(PeerSet) /\ PeerSet \subseteq Range(Peers)
        BY PeersAssumption DEF PeerSet
      <3>2. /\ First(client) \in Best(client)
            /\ \A m \in Best(client) : m \in PeerSet /\ First(client).label <= m.label
        BY <2>1, <3>1, RecommendedBest
      <3>3. /\ LastOne(client) \in Best(client)
            /\ \A m \in Best(client) : m \in PeerSet /\ LastOne(client).label <= m.label
        BY <2>1, ReverseHasAll, RecommendedBest
      <3>. HIDE DEF Best, First, LastOne
      <3>4. First(client).label \in Int /\ LastOne(client).label \in Int
        BY <3>2, <3>3, PeersAssumption
      <3>. QED  BY <3>2, <3>3, <3>4
    <2>2. ASSUME NEW client \in Clients, Candidates # {}, Listed
          PROVE  Marked(client) <=> InRow(client)
      <3>1. Peers \in Seq(PeerSet) /\ PeerSet \subseteq Range(Peers)
        BY PeersAssumption DEF PeerSet
      <3>. DEFINE a == First(client)
                  row == RowOf(PeerSet, store.online, a)
      <3>2. a \in Candidates /\ a \in PeerSet /\ GroupOf(a) = "mullvad"
        <4>1. a \in Candidates
          BY <2>2, <3>1, RecommendedBest
        <4>. HIDE DEF First
        <4>. QED  BY <4>1 DEF Candidates, GroupOf
      <3>. HIDE DEF First
      <3>3. Rows = {RowOf(PeerSet, store.online, n) : n \in PeerSet}
        <4>1. store.known /\ FilterExitNodes(picker.query) = PeerSet
          BY <2>2 DEF FilterExitNodes
        <4>. QED  BY <4>1, RowsAre DEF Rows
      <3>4. InRow(client) <=> Selected \in row.nodes
        BY <3>2, <3>3, RowHolds
      <3>5. row.nodes = {k.id : k \in CityOf(PeerSet, a)}
        BY <3>2 DEF RowOf
      <3>6. CityOf(PeerSet, a) \subseteq PeerSet
        BY DEF CityOf, Located
      <3>7. \A k \in PeerSet : k.id = Selected =>
              (k \in CityOf(PeerSet, a) <=> k = a \/ SameExitNodeLocation(a, k))
        BY <2>2, <3>2, SameCity
      <3>. HIDE DEF a, row
      <3>8. Marked(client) <=> \/ Selected = a.id
                               \/ \E n \in PeerSet : /\ n.id = Selected
                                                     /\ SameExitNodeLocation(a, n)
        BY DEF a
      <3>. HIDE DEF Marked, InRow
      <3>. QED  BY <3>2, <3>4, <3>5, <3>6, <3>7, <3>8
    <2>3. ASSUME NEW client \in Clients, Candidates # {}
          PROVE  Listed => (Marked(client) = InRow(client))
      BY <2>2, <2>3
    <2>. QED  BY <2>1, <2>3 DEF PickerRecommendsBest, RecommendedIsBest
  <1>. QED  BY <1>1, PTL
=============================================================================
