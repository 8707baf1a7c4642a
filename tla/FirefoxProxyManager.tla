------------------------ MODULE FirefoxProxyManager ------------------------
(***************************************************************************)
(* firefox-proxy-manager.ts: apply() turns a policy into fields, and the   *)
(* proxy.onRequest listener decides each request from the fields and the   *)
(* credentials of the moment.                                              *)
(***************************************************************************)
EXTENDS RoutingDecision

CONSTANTS Policies,     \* what the worker may ask for
          Ports,        \* ports of the helpers' proxies
          Hosts         \* of the requests

\* A RoutingPolicy; an active one has the port of a helper.
RoutingPolicy ==
    [mode: {"direct", "active", "blocked"}, port: Ports \cup {NoPort},
     exit: BOOLEAN, blockAll: BOOLEAN, suffix: DNSName,
     shortNames: SUBSET DNSName, dnsRoutes: SUBSET DNSName,
     subnets: SUBSET CIDRs,
     split: [mode: {"bypass", "only"}, domains: SUBSET DNSName]]

ASSUME PortsAssumption == Ports \subseteq Nat \ {NoPort, BlockedPort}
ASSUME PoliciesAssumption ==
    Policies \subseteq {p \in RoutingPolicy : p.mode = "active" => p.port # NoPort}
\* Every address is a host; what is written as four numbers is one of them.
ASSUME HostsAssumption ==
    /\ {IPv4(n) : n \in Address4} \cup {IPv6(w) : w \in Address6} \subseteq Hosts
    /\ \A h \in Hosts :
         /\ h.num \in Address4 \cup {NoNumber} /\ h.digits \in BOOLEAN
         /\ h.words \in Address6 \cup {<<>>}
         /\ h.digits => h.num # NoNumber /\ h.words = <<>>

VARIABLES
    policyKey, failedKey,   \* the policy as last applied; the one in error
    fields,                 \* mode, proxyPort, subnetRanges, ...
    session,                \* port of the session's credentials, or NoPort
    health,                 \* last report to the routing health listener
    asked,                  \* history: the policy of the last apply()
    fresh                   \* history: the session is that of the last apply()

vars == <<policyKey, failedKey, fields, session, health, asked, fresh>>

NoPolicy == [EmptyPolicy EXCEPT !.mode = "none"]     \* the key ""

\* The field initializers: everything is blocked until the first apply().
InitialFields ==
    [mode |-> "blocked", port |-> BlockedPort, exit |-> TRUE, suffix |-> <<>>,
     names |-> {}, routes |-> {}, subnets |-> {}, blockedSubnets |-> {},
     subnets6 |-> {}, split |-> [mode |-> "bypass", domains |-> {}]]

\* The assignments of apply().  Both lists of IPv4 ranges are kept: the
\* credentials may go after it.
FieldsOf(policy) ==
    [mode |-> policy.mode,
     port |-> IF policy.port = NoPort THEN BlockedPort ELSE policy.port,
     exit |-> policy.blockAll \/ policy.exit,
     suffix |-> policy.suffix,
     names |-> policy.shortNames,
     routes |-> policy.dnsRoutes,
     subnets |-> {c \in OfFamily(policy.subnets, 4) : IsSupported4(c)},
     blockedSubnets |-> OfFamily(policy.subnets, 4),
     subnets6 |-> ParseIPv6CIDRs(policy.subnets),
     split |-> policy.split]
-----------------------------------------------------------------------------
(* resolveProxy().                                                         *)

ExitCarries(f, host) ==
    /\ f.exit
    /\ IF f.split.mode = "only"
       THEN UnderAny(host, f.split.domains)
       ELSE ~(f.split.domains # {} /\ UnderAny(host, f.split.domains))
ResolveProxy(f, s, host) ==
    LET credentials == f.mode = "active" /\ HasCredentials(s, f.port)
        port == IF credentials THEN f.port ELSE BlockedPort
        ranges == IF credentials THEN f.subnets ELSE f.blockedSubnets
        isNumber == host.num # NoNumber
    IN IF /\ f.mode # "direct"
          /\ \/ host = IPv4(ServiceIP)
             \/ host.labels \in f.names
             \/ UnderAny(host, f.routes)
             \/ StartsWith(host.words, TailnetIPv6)
             \/ isNumber /\ InNet(host.num, CGNAT)
             \/ f.suffix # <<>> /\ Under(host, f.suffix)
             \/ isNumber /\ \E c \in ranges : InNet(host.num, c)
             \/ MatchesIPv6(host, f.subnets6)
             \/ ExitCarries(f, host)
       THEN port ELSE Direct
Route(host) == ResolveProxy(fields, session, host)
-----------------------------------------------------------------------------
Effective(policy) ==
    IF policy.mode = "active" /\ ~HasCredentials(session, policy.port)
    THEN [policy EXCEPT !.mode = "blocked", !.port = NoPort]
    ELSE policy

\* A policy in error is not applied again until another one has been.
FailedForGood(policy) == failedKey
FailedFor(policy) == IF policy = policyKey THEN failedKey ELSE NoPolicy

HealthOf(mode) == CASE mode = "blocked" -> "blocked"
                    [] mode = "active" -> "active"
                    [] OTHER -> "inactive"
Apply(policy) ==
    LET effective == Effective(policy)
        failed == FailedFor(effective)
    IN /\ policyKey' = effective
       /\ failedKey' = failed
       /\ IF failed = effective
          THEN UNCHANGED <<fields, health>>
          ELSE fields' = FieldsOf(effective) /\ health' = HealthOf(effective.mode)
       /\ asked' = policy
       /\ fresh' = TRUE
       /\ UNCHANGED session

\* setProxySession(): the next apply() may come later, or not at all when
\* the store sees no change.
SetProxySession(s) ==
    /\ s # session
    /\ session' = s
    /\ fresh' = FALSE
    /\ UNCHANGED <<policyKey, failedKey, fields, health, asked>>

\* proxy.onError.
ProxyError ==
    /\ failedKey' = policyKey
    /\ health' = "unavailable"
    /\ UNCHANGED <<policyKey, fields, session, asked, fresh>>

Init ==
    /\ policyKey = NoPolicy /\ failedKey = NoPolicy
    /\ fields = InitialFields
    /\ session = NoPort
    /\ health = "inactive"
    /\ asked = NoPolicy
    /\ fresh = TRUE

\* The browser stops the background: a new one starts with the initializers.
Restart ==
    /\ policyKey' = NoPolicy /\ failedKey' = NoPolicy
    /\ fields' = InitialFields
    /\ session' = NoPort
    /\ health' = "inactive"
    /\ asked' = NoPolicy
    /\ fresh' = TRUE

Next ==
    \/ \E policy \in Policies : Apply(policy)
    \/ \E s \in Ports \cup {NoPort} : SetProxySession(s)
    \/ ProxyError
    \/ Restart

Spec == Init /\ [][Next]_vars
-----------------------------------------------------------------------------
(* Properties.                                                             *)

\* What a tailnet owns, whatever the exit node and the split say: the
\* service address, the CGNAT range and the IPv6 prefix, the names under its
\* suffix and routes, and the short names of its machines.
OfTailnet(policy, host) ==
    \/ host.digits /\ Covers(CGNAT, host)
    \/ StartsWith(host.words, TailnetIPv6)
    \/ policy.suffix # <<>> /\ Under(host, policy.suffix)
    \/ UnderAny(host, policy.dnsRoutes)
    \/ host.labels \in policy.shortNames

\* A subnet that the helper may dial, told by the addresses it holds.  An
\* IPv4-mapped address is never one of them.
Dialable(cidr) ==
    /\ cidr.canonical /\ cidr.prefix > 0
    /\ cidr.family = 6 => ~StartsWith(cidr.words, Mapped)
    /\ \A h \in Hosts : Covers(cidr, h) =>
         ~\E range \in Forbidden4 \cup Forbidden6 : Covers(range, h)
Carries(cidrs, host) ==
    ~StartsWith(host.words, Mapped) /\ \E c \in cidrs : Covers(c, host)
ThroughExitNode(policy, host) ==
    /\ policy.exit \/ policy.blockAll
    /\ UnderAny(host, policy.split.domains) = (policy.split.mode = "only")

\* Firefox decides as Chrome does: with the session of the last apply(), the
\* listener of firefox-proxy-manager.ts sends each request where the PAC
\* script generated for the same policy sends it, after any errors and
\* restarts.  (A name that only looks like four numbers is an exception.)
SameRoute ==
    asked # NoPolicy /\ fresh =>
      \A h \in Hosts : IsNumberLike(h) \/ Route(h) = ChromeRoute(asked, session, h)

\* No outage opens the browser: whatever sessions, errors and policies came
\* before, a host that the policy protects is never reached directly, and
\* before the first policy no host is.  Without the helper, that includes the
\* IPv4 subnets it would not dial.
FailsClosed ==
    IF asked = NoPolicy THEN \A h \in Hosts : Route(h) # Direct
    ELSE asked.mode # "direct" =>
      LET up == asked.mode = "active" /\ HasCredentials(session, asked.port)
          protected == {c \in asked.subnets :
                          Dialable(c) \/ (c.family = 4 /\ ~up)}
      IN \A h \in Hosts :
           \/ OfTailnet(asked, h)
           \/ Carries(protected, h)
           \/ ThroughExitNode(asked, h)
           => Route(h) # Direct

\* The helper is asked for nothing else: a request goes to its port only
\* with its credentials, and only for the tailnet, for a subnet that it may
\* dial, or through the exit node.
OnlyAuthorizedRoutes ==
    LET dialable == {c \in asked.subnets : Dialable(c)}
    IN \A h \in Hosts : Route(h) \notin {Direct, BlockedPort} =>
         /\ Route(h) = session
         /\ \/ IsNumberLike(h)
            \/ OfTailnet(asked, h)
            \/ Carries(dialable, h)
            \/ ThroughExitNode(asked, h)
=============================================================================
