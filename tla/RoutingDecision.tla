-------------------------- MODULE RoutingDecision --------------------------
(***************************************************************************)
(* Which requests go through the helper: the address and domain checks of  *)
(* proxy-utils.ts, ipv6-subnets.ts and domain-split.ts, and the PAC script *)
(* that chrome-proxy-manager.ts generates from a policy.                   *)
(*                                                                         *)
(* Addresses keep their arithmetic and lose their width: an IPv4 address   *)
(* is a number of Bits bits, an IPv6 address a sequence of Words words of  *)
(* WordBits bits.  A DNS name is the sequence of its labels.               *)
(***************************************************************************)
EXTENDS Integers, FiniteSets, SequencesExt

CONSTANTS
    Bits, Words, WordBits,
    Forbidden4,     \* ranges the helper never dials, as CIDRs
    Forbidden6,
    CGNAT,          \* 100.64.0.0/10, as a CIDR
    ServiceIP,      \* 100.100.100.100
    Mapped,         \* leading words of an IPv4-mapped address
    TailnetIPv6     \* leading words of TAILSCALE_IPV6_PREFIX

ASSUME WidthsAreNatural ==
    /\ Bits \in Nat \ {0} /\ Words \in Nat \ {0} /\ WordBits \in Nat \ {0}
    /\ Len(Mapped) < Words /\ Len(TailnetIPv6) < Words
\* The law of powers, which the provers do not know.
ASSUME PowersOfTwo == \A i \in 0..Bits + WordBits : 2^(i + 1) = 2 * 2^i

Direct == 0             \* "DIRECT"; every other route is a port
BlockedPort == 1        \* BLOCKED_PROXY_PORT
NoPort == 0             \* proxyPort null
NoNumber == -1

Address4 == 0..2^Bits - 1
Address6 == [1..Words -> 0..2^WordBits - 1]
DNSName == Seq(STRING)

Least(a, b) == IF a < b THEN a ELSE b
-----------------------------------------------------------------------------
(* Hosts.  digits: the text is four numbers.  A name whose four labels     *)
(* only begin with digits is a name to the PAC's regular expression and a  *)
(* number to ipToNum(), which reads each label with parseInt().            *)

Name(labels) == [labels |-> labels, num |-> NoNumber, digits |-> FALSE,
                 words |-> <<>>]
IPv4(n) == [labels |-> <<>>, num |-> n, digits |-> TRUE, words |-> <<>>]
IPv6(w) == [labels |-> <<>>, num |-> NoNumber, digits |-> FALSE, words |-> w]
NumberLike(labels, n) == [Name(labels) EXCEPT !.num = n]

IsNumberLike(host) == host.num # NoNumber /\ ~host.digits

\* host === d || host.endsWith(`.${d}`).
Under(host, domain) == host.labels # <<>> /\ IsSuffix(domain, host.labels)
UnderAny(host, domains) == \E d \in domains : Under(host, d)
StartsWith(words, prefix) ==
    words # <<>> /\ SubSeq(words, 1, Len(prefix)) = prefix
-----------------------------------------------------------------------------
(* IPv4 subnets.  canonical: the text is what the parsed value prints as.  *)

CIDR(family, words, num, prefix, canonical) ==
    [family |-> family, words |-> words, num |-> num, prefix |-> prefix,
     canonical |-> canonical]
CIDR4(num, prefix, canonical) == CIDR(4, <<>>, num, prefix, canonical)
CIDR6(words, prefix, canonical) == CIDR(6, words, NoNumber, prefix, canonical)
CIDRs ==
    [family: {4}, words: {<<>>}, num: Address4, prefix: 0..Bits,
     canonical: BOOLEAN]
    \cup [family: {6}, words: Address6, num: {NoNumber},
          prefix: 0..Words * WordBits, canonical: BOOLEAN]
OfFamily(cidrs, family) == {c \in cidrs : c.family = family}

\* parseCIDR(): a shift takes its count modulo the width, so that the mask
\* of the prefix length 0 has to be a case of its own.
ShiftedLeft(n, count) == (n * 2^(count % Bits)) % 2^Bits
MaskByShift(prefix) == ShiftedLeft(2^Bits - 1, Bits - prefix)
Mask(prefix) ==
    IF prefix = 0 THEN 0 ELSE ShiftedLeft(2^Bits - 1, Bits - prefix)

\* n & mask, where mask is a run of leading ones.
Masked(n, mask) == n - (n % (2^Bits - mask))
InNet(n, cidr) ==
    Masked(n, Mask(cidr.prefix)) = Masked(cidr.num, Mask(cidr.prefix))

\* isSupportedSubnetCIDR(): ranges are compared at the shorter prefix, to
\* find an overlap in either direction.
ContainedIn4(cidr, range) == InNet(cidr.num, range)
Overlaps4(cidr, range) ==
    LET common == Masked(Mask(cidr.prefix), Mask(range.prefix))
    IN Masked(cidr.num, common) = Masked(range.num, common)
IsSupported4(cidr) ==
    /\ cidr.canonical
    /\ cidr.prefix >= 1
    /\ ~\E range \in Forbidden4 : Overlaps4(cidr, range)

ASSUME RangesAssumption ==
    /\ Forbidden4 \subseteq {c \in CIDRs : c.family = 4}
    /\ Forbidden6 \subseteq {c \in CIDRs : c.family = 6}
    /\ CGNAT \in {c \in CIDRs : c.family = 4}
    /\ ServiceIP \in Address4 /\ InNet(ServiceIP, CGNAT)
-----------------------------------------------------------------------------
(* IPv6 subnets.                                                           *)

\* prefixMatches(): word by word, the last one in part.
PrefixMatches(a, b, bits) ==
    \A i \in 1..Words :
        LET left == bits - (i - 1) * WordBits
            scale == 2^(WordBits - Least(left, WordBits))
        IN left > 0 => a[i] \div scale = b[i] \div scale

\* parseIPv6CIDR(): null, or the subnet with the bits past its prefix zero.
IsSupported6(cidr) ==
    /\ cidr.canonical
    /\ cidr.prefix \in 1..Words * WordBits
    /\ ~StartsWith(cidr.words, Mapped)
    /\ ~\E range \in Forbidden6 :
           PrefixMatches(cidr.words, range.words,
                         Least(cidr.prefix, range.prefix))
Truncated(cidr) ==
    [cidr EXCEPT !.words =
        [i \in 1..Words |->
            LET within == cidr.prefix - (i - 1) * WordBits
                bits == IF within < 0 THEN 0 ELSE Least(within, WordBits)
                scale == 2^(WordBits - bits)
            IN (@[i] \div scale) * scale]]
ParseIPv6CIDRs(cidrs) ==
    {Truncated(c) : c \in {d \in OfFamily(cidrs, 6) : IsSupported6(d)}}

IsSupportedSubnetCIDR(cidr) ==
    IF cidr.family = 6 THEN IsSupported6(cidr) ELSE IsSupported4(cidr)

\* matches(): the helper unmaps IPv4-mapped addresses before it authorizes.
MatchesIPv6(host, subnets) ==
    /\ host.words # <<>>
    /\ ~StartsWith(host.words, Mapped)
    /\ \E s \in subnets : PrefixMatches(host.words, s.words, s.prefix)
-----------------------------------------------------------------------------
(* What a policy is made of.                                               *)

\* collectShortNames(): only what MagicDNS knows may stand for a short name.
CollectShortNames(dnsNames, suffix) ==
    IF suffix = <<>> THEN {}
    ELSE {<<n[1]>> : n \in {d \in dnsNames : /\ Len(d) = Len(suffix) + 1
                                             /\ IsSuffix(suffix, d)}}

\* collectSubnetCIDRs().  A peer offers its subnets when it is a router.
CollectSubnetCIDRs(peers) ==
    UNION {p.subnets : p \in {q \in peers : q.isSubnetRouter}}

\* sanitizeDomain(): an entry is a name after cleaning, or nothing.
\* normalizeDomainSplit(): an unknown mode is "bypass".
SanitizeDomains(entries) == {e.name : e \in {f \in entries : f.valid}}
NormalizeDomainSplit(raw) ==
    [mode |-> IF raw.mode = "only" THEN "only" ELSE "bypass",
     domains |-> SanitizeDomains(raw.domains)]

\* policyFromState(), and confirmStatus() which keeps the subnets of the
\* stored snapshot: those of an older extension may be unsupported.
PolicyFromState(mode, port, exit, tailnet, raw, legacy) ==
    [mode |-> mode, port |-> port, exit |-> exit, blockAll |-> FALSE,
     suffix |-> tailnet.suffix,
     shortNames |-> CollectShortNames({p.dnsName : p \in tailnet.peers},
                                      tailnet.suffix),
     dnsRoutes |-> tailnet.dnsRoutes,
     subnets |-> legacy \cup {c \in CollectSubnetCIDRs(tailnet.peers) :
                                 IsSupportedSubnetCIDR(c)},
     split |-> NormalizeDomainSplit(raw)]
\* emptyPolicy(), and what decorate() makes of it while it blocks everything.
EmptyPolicy ==
    [mode |-> "direct", port |-> NoPort, exit |-> FALSE, blockAll |-> FALSE,
     suffix |-> <<>>, shortNames |-> {}, dnsRoutes |-> {}, subnets |-> {},
     split |-> [mode |-> "bypass", domains |-> {}]]
BlockAllPolicy == [EmptyPolicy EXCEPT !.mode = "blocked", !.blockAll = TRUE]
-----------------------------------------------------------------------------
(* Chrome: generatePACScript() and the script it generates.                *)

\* Legacy ranges, which the helper does not dial, remain blocked in outages.
PAC(policy, port) ==
    LET subnets == IF port = BlockedPort THEN policy.subnets
                   ELSE {c \in policy.subnets : IsSupportedSubnetCIDR(c)}
    IN [port |-> port,
        suffix |-> policy.suffix,
        names |-> policy.shortNames,
        routes |-> policy.dnsRoutes,
        exit |-> policy.blockAll \/ policy.exit,
        subnets4 |-> OfFamily(subnets, 4),
        subnets6 |-> ParseIPv6CIDRs(subnets),
        split |-> policy.split]

\* The last lines of the script.  With the mode "only", an empty list sends
\* nothing through the exit node.
CatchAll(pac, host) ==
    /\ pac.exit
    /\ IF pac.split.mode = "only" THEN UnderAny(host, pac.split.domains)
                                  ELSE ~UnderAny(host, pac.split.domains)
FindProxyForURL(pac, host) ==
    IF \/ host = IPv4(ServiceIP)
       \/ pac.suffix # <<>> /\ Under(host, pac.suffix)
       \/ host.labels \in pac.names
       \/ UnderAny(host, pac.routes)
       \/ StartsWith(host.words, TailnetIPv6)
       \/ host.digits /\ InNet(host.num, CGNAT)
       \/ host.digits /\ \E c \in pac.subnets4 : InNet(host.num, c)
       \/ MatchesIPv6(host, pac.subnets6)
       \/ CatchAll(pac, host)
    THEN pac.port ELSE Direct

\* apply(): without a session for its port, active is as good as blocked.
HasCredentials(session, port) == session # NoPort /\ session = port
ChromeRoute(policy, session, host) ==
    CASE policy.mode = "direct" -> Direct
      [] policy.mode = "active" /\ HasCredentials(session, policy.port) ->
           FindProxyForURL(PAC(policy, policy.port), host)
      [] OTHER -> FindProxyForURL(PAC(policy, BlockedPort), host)
-----------------------------------------------------------------------------
(* The reference: a subnet as the addresses whose first bits are its own.  *)

SamePrefix(a, b, bits, width) ==
    a \div 2^(width - bits) = b \div 2^(width - bits)
BitOf(words, k) ==
    LET i == (k - 1) \div WordBits
    IN (words[i + 1] \div 2^(WordBits - (k - i * WordBits))) % 2
Covers(cidr, host) ==
    \/ /\ cidr.family = 4 /\ host.digits
       /\ SamePrefix(host.num, cidr.num, cidr.prefix, Bits)
    \/ /\ cidr.family = 6 /\ host.words # <<>>
       /\ \A k \in 1..cidr.prefix : BitOf(host.words, k) = BitOf(cidr.words, k)
=============================================================================
