---------------------------- MODULE MCDecisions ----------------------------
(***************************************************************************)
(* Two parts that decide rather than converse, side by side in one run:    *)
(* which requests go to the helper, and which exit node the user picks.    *)
(* A behaviour is of one part; the other one does not move.                *)
(***************************************************************************)
EXTENDS FirefoxProxyManager, ExitNodePicker

VARIABLE part

\* Four bits: 0 and 14, 15 stand for the ends that nobody dials, 6/3 for
\* loopback (next to CGNAT, 4/3), 10 for link-local.
MCForbidden4 == {CIDR4(0, 4, TRUE), CIDR4(6, 3, TRUE), CIDR4(10, 4, TRUE),
                 CIDR4(14, 4, TRUE), CIDR4(15, 4, TRUE)}
\* ::, ::1, a prefix that ends inside a word, and one that ends with a word.
MCForbidden6 == {CIDR6(<<0, 0, 0>>, 6, TRUE), CIDR6(<<0, 0, 1>>, 6, TRUE),
                 CIDR6(<<2, 2, 0>>, 3, TRUE), CIDR6(<<3, 0, 0>>, 2, TRUE)}
MCCGNAT == CIDR4(4, 3, TRUE)
MCMapped == <<0, 3>>
MCTailnetIPv6 == <<2, 1>>

\* Every address, and names in and out of the tailnet.
MCHosts ==
    {IPv4(n) : n \in 0..15} \cup {IPv6(w) : w \in [1..3 -> 0..3]}
    \cup {Name(<<"nas">>), Name(<<"printer">>), Name(<<"nas", "ts">>),
          Name(<<"a", "corp">>), Name(<<"web">>), Name(<<"www", "web">>),
          NumberLike(<<"12a", "b">>, 4), NumberLike(<<"3a", "b">>, 9)}
MCTailnet ==
    [suffix |-> <<"ts">>, dnsRoutes |-> {<<"corp">>},
     peers |-> {[dnsName |-> <<"nas", "ts">>, isSubnetRouter |-> FALSE,
                 subnets |-> {}],
                [dnsName |-> <<"router", "ts">>, isSubnetRouter |-> TRUE,
                 subnets |-> {CIDR4(8, 4, TRUE), CIDR4(14, 3, TRUE)}],
                [dnsName |-> <<"printer", "lab", "ts">>, isSubnetRouter |-> FALSE,
                 subnets |-> {CIDR4(12, 4, TRUE)}]}]
NoSplit == [mode |-> "bypass", domains |-> {}]
Splits == [mode : {"bypass", "only"},
           domains : {{}, {[name |-> <<"web">>, valid |-> TRUE],
                           [name |-> <<"junk">>, valid |-> FALSE]}}]
\* Routes that a snapshot of an older extension may hold: every IPv4 subnet,
\* and the IPv6 subnets around the forbidden ranges.
LegacyRoutes ==
    {CIDR4(n, p, TRUE) : n \in 0..15, p \in 0..4} \cup {CIDR4(9, 3, FALSE)}
    \cup {CIDR6(w, p, TRUE) :
             w \in {<<0, 0, 0>>, <<0, 0, 1>>, <<0, 3, 0>>, <<2, 0, 1>>,
                    <<2, 1, 0>>, <<2, 3, 0>>, <<3, 1, 0>>}, p \in 0..6}
MCPolicies ==
    {EmptyPolicy, BlockAllPolicy}
    \cup {PolicyFromState("active", 7, exit, MCTailnet, raw, {}) :
             exit \in BOOLEAN, raw \in Splits}
    \cup {PolicyFromState("blocked", NoPort, TRUE, MCTailnet, raw, {}) :
             raw \in Splits}
    \cup {PolicyFromState("active", 7, FALSE, MCTailnet, NoSplit, {c}) :
             c \in LegacyRoutes}

ExitNode(id, tag, code, country, city, distance, priority, label) ==
    [id |-> id, name |-> id, tag |-> tag, code |-> code, country |-> country,
     cityCode |-> "", city |-> city, distance |-> distance,
     priority |-> priority, label |-> label]
\* Two servers of one city, a place that is known in part, a Mullvad node
\* without a place, and a device of the user's in the same city.
MCPeers ==
    <<ExitNode("p1", "mullvad", "fr", "France", "Paris", 3, 5, 1),
      ExitNode("p2", "mullvad", "fr", "France", "Paris", 3, 5, 1),
      ExitNode("b", "mullvad", "", "Germany", "Berlin", NoDistance, 9, 2),
      ExitNode("x", "mullvad", "", "", "", NoDistance, 0, 3),
      ExitNode("own", "", "fr", "France", "Paris", NoDistance, 0, 4)>>
-----------------------------------------------------------------------------
MCInit ==
    /\ part \in {"requests", "exit node"}
    /\ Init
    /\ PickerInit
    /\ part = "requests" => helper.node = None

MCNext ==
    \/ part = "requests" /\ Next /\ UNCHANGED <<part, pickerVars>>
    \/ part = "exit node" /\ PickerNext /\ UNCHANGED <<part, vars>>

MCSpec == MCInit /\ [][MCNext]_<<part, vars, pickerVars>>
-----------------------------------------------------------------------------
\* Firefox's listener sends each request where Chrome's PAC script does.
RequestsTakeSameRoute == part = "requests" => SameRoute

\* No outage, error or restart opens a host that the policy protects.
RequestsFailClosed == part = "requests" => FailsClosed

\* The helper is asked only for what the policy and its own rules allow.
RequestsAreAuthorized == part = "requests" => OnlyAuthorizedRoutes

\* exit-nodes.ts recommends the best node, whatever the order of the peers.
PickerRecommendsBest == part = "exit node" => RecommendedIsBest

\* exit-nodes.ts gives each node one row, and a city's row a node that is up.
PickerListsEveryNode == part = "exit node" => EveryNodeHasARow

\* The background, the store and the picker settle on the helper's exit node.
PickerSettles == part = "exit node" => SelectionSettles
=============================================================================
