--------------------------- MODULE ExitNodePicker ---------------------------
(***************************************************************************)
(* The exit node: how popup/views/exit-nodes.ts lists and recommends       *)
(* nodes, and how a choice travels from the picker through the background, *)
(* routing protection and the store to the helper and back.                *)
(*                                                                         *)
(* One account, Running.  A text of a location is an element of a small    *)
(* set and "" where it is absent; a label is its place in the sorting      *)
(* order; a search matches a node by one of its texts.                     *)
(***************************************************************************)
EXTENDS Integers, FiniteSets, SequencesExt

CONSTANTS
    Peers,                  \* state.peers, in the order of the helper
    Clients,                \* country codes of TIMEZONE_APPROX_LOCATIONS, or ""
    Queries,
    NoDistance,             \* distanceKm() is null: not nearer than any
    MaxClicks, MaxFaults, MaxReports, MaxMessages

VARIABLES
    helper,     \* external: its exit node and the nodes online
    connected, inbox, outbox,       \* the port; commands and messages on it
    store,      \* pendingExitNodeID, prefs.exitNodeID, peers and those online
    routing,    \* pendingExit, active.selectedExitNodeID (both persisted)
    exitNodeRestoreAttempted,
    picker,     \* exitNodeSearchQuery, expandedCountries, autoExpandDone
    budget,
    excused     \* history: what kept a choice from reaching the helper

pickerVars == <<helper, connected, inbox, outbox, store, routing,
                exitNodeRestoreAttempted, picker, budget, excused>>

None == "none"          \* no node: "" or null in the code
NotPending == "null"    \* pendingExitNodeID and pendingExit

PeerSet == Range(Peers)
IDs == {n.id : n \in PeerSet}

\* An ID is that of one node, no ID stands for none, and a known distance is
\* less than NoDistance.
ASSUME PeersAssumption ==
    /\ Peers \in Seq(PeerSet) /\ Peers # <<>>
    /\ \A m, n \in PeerSet : m.id = n.id => m = n
    /\ \A n \in PeerSet : /\ n.id \notin {None, NotPending}
                          /\ {n.distance, n.priority, n.label} \subseteq Int
                          /\ n.distance <= NoDistance
    /\ NoDistance \in Int

\* The names of nodes differ, and neither they nor the IDs, which stand in for
\* a missing city and a missing country, are the text of a place.
ASSUME NamesAssumption ==
    /\ \A m, n \in PeerSet : m.name = n.name => m = n
    /\ \A m, n \in PeerSet : /\ m.name \notin {n.city, n.cityCode, ""}
                             /\ m.id \notin {n.code, n.country, ""}
-----------------------------------------------------------------------------
(* Groups, in exit-nodes.ts.                                               *)

OrElse(text, other) == IF text # "" THEN text ELSE other
HasLocationLabel(n) == n.city # "" \/ n.country # "" \/ n.code # ""

\* groupExitNodes().
GroupByTag(n) == CASE n.tag = "mullvad" -> "mullvad"
                   [] n.tag = "other" -> "shared"
                   [] OTHER -> "own"
GroupOf(n) == IF n.tag = "mullvad" /\ HasLocationLabel(n) THEN "mullvad"
              ELSE IF n.tag # "" THEN "shared"
              ELSE "own"

\* groupMullvadByCountry(), which skips a node without a location.
CountryKey(n) == OrElse(n.code, OrElse(n.country, n.id))
CityKey(n) == OrElse(n.cityCode, OrElse(n.city, n.name))
FilterExitNodes(query) ==
    {n \in PeerSet : query = "" \/ query \in {n.name, n.city, n.country, n.code}}

FindOnline(nodes, online) ==
    LET listed == {i \in DOMAIN Peers : Peers[i] \in nodes}
        up == {i \in listed : Peers[i].id \in online}
    IN Peers[Min(IF up # {} THEN up ELSE listed)].id
FlatRows(nodes) ==
    {[nodes |-> {n.id}, picks |-> n.id, country |-> ""] :
        n \in {m \in nodes : GroupOf(m) # "mullvad"}}
CityRows(nodes, online) ==
    LET located == {n \in nodes : GroupOf(n) = "mullvad" /\ HasLocationLabel(n)}
        City(n) == {m \in located : CountryKey(m) = CountryKey(n)
                                    /\ CityKey(m) = CityKey(n)}
    IN {[nodes |-> {m.id : m \in City(n)}, picks |-> FindOnline(City(n), online),
         country |-> CountryKey(n)] : n \in located}
Rows == LET nodes == IF store.known THEN FilterExitNodes(picker.query) ELSE {}
        IN FlatRows(nodes) \cup CityRows(nodes, store.online)
-----------------------------------------------------------------------------
(* The recommendation.                                                     *)

DistanceOrZero(n) == IF n.distance = NoDistance THEN 0 ELSE n.distance
Distance(n) == n.distance       \* an unknown one comes last

\* compareRecommendedMullvadExitNodes(): the first difference decides.
Rank(n, online, client) ==
    <<IF n.id \in online THEN 0 ELSE 1,
      IF client # "" /\ n.code = client THEN 0 ELSE 1,
      IF client # "" THEN Distance(n) ELSE 0,
      -n.priority,
      n.label>>
Before(a, b) == \E i \in 1..Len(a) :
                    a[i] < b[i] /\ \A j \in 1..i - 1 : a[j] = b[j]

\* selectRecommendedMullvadExitNode(): the first one after a stable sort.
Candidates == {n \in PeerSet : n.tag = "mullvad" /\ HasLocationLabel(n)}
SelectRecommended(peers, online, client) ==
    LET at == {i \in DOMAIN peers : peers[i] \in Candidates}
        rank(i) == Rank(peers[i], online, client)
    IN peers[CHOOSE i \in at : \A j \in at : /\ ~Before(rank(j), rank(i))
                                             /\ j < i => rank(j) # rank(i)]

\* sameExitNodeLocation().
SameExitNodeLocation(a, b) ==
    /\ OrElse(a.code, a.country) # ""
    /\ OrElse(a.code, a.country) = OrElse(b.code, b.country)
    /\ OrElse(a.cityCode, a.city) # ""
    /\ OrElse(a.cityCode, a.city) = OrElse(b.cityCode, b.city)
-----------------------------------------------------------------------------
(* The selection.                                                          *)

\* effectiveSelectedExitNodeID(); decorate() gives the node of routing.
EffectiveSelected(s, r) ==
    IF s.pending # NotPending THEN s.pending
    ELSE IF r.selected # None THEN r.selected
    ELSE s.prefs

\* renderExitNodeList(): the selected node's country, on the first render
\* with a selection and Mullvad nodes.
Render(p, s, r) ==
    LET selected == EffectiveSelected(s, r)
        of == {n \in PeerSet : n.id = selected /\ n.tag = "mullvad" /\ n.code # ""}
        due == /\ s.known /\ ~p.autoExpandDone /\ selected # None
               /\ \E n \in FilterExitNodes(p.query) : GroupOf(n) = "mullvad"
    IN IF due THEN [p EXCEPT !.autoExpandDone = TRUE,
                             !.expanded = @ \cup {n.code : n \in of}]
       ELSE p

\* selectExitNode() of routing-protection.ts, with an active snapshot.
SelectExitNode(r, id) ==
    [pendingExit |-> id, selected |-> IF id # None THEN id ELSE r.selected]

\* confirmStatus(): the node the browser is protected for.
SelectedKeepingPrior(r, confirmed) ==
    IF r.pendingExit \notin {None, NotPending} THEN r.pendingExit
    ELSE IF confirmed # None THEN confirmed
    ELSE r.selected
SelectedOnStatus(r, confirmed) ==
    IF r.pendingExit \notin {None, NotPending} THEN r.pendingExit
    ELSE IF confirmed # None THEN confirmed
    ELSE IF r.pendingExit = None THEN None
    ELSE r.selected
ConfirmStatus(r, confirmed) ==
    [selected |-> SelectedOnStatus(r, confirmed),
     pendingExit |-> IF r.pendingExit = confirmed THEN NotPending
                     ELSE r.pendingExit]

\* nextPendingExitNodeID().
NextPending(pending, confirmed) ==
    IF pending = confirmed THEN NotPending ELSE pending
-----------------------------------------------------------------------------
Status == [type |-> "status", node |-> helper.node, online |-> helper.online]
Error == [type |-> "error"]

PickerInit ==
    /\ \E node \in {None, Peers[1].id} :
         /\ helper = [node |-> node, online |-> IDs]
         /\ store = [pending |-> NotPending, prefs |-> node, known |-> TRUE,
                     online |-> IDs]
         /\ routing = [pendingExit |-> NotPending, selected |-> node]
    /\ connected = TRUE /\ inbox = <<>> /\ outbox = <<>>
    /\ exitNodeRestoreAttempted = TRUE
    /\ picker = [query |-> "", expanded |-> {}, autoExpandDone |-> FALSE]
    /\ budget = [clicks |-> MaxClicks, faults |-> MaxFaults,
                 reports |-> MaxReports]
    /\ excused = {}

\* send() without a port drops the command.
Send(id) == inbox' = IF connected THEN Append(inbox, id) ELSE inbox

\* set-exit-node and clear-exit-node of the background.
SetExitNode(id) ==
    /\ budget.clicks > 0
    /\ budget' = [budget EXCEPT !.clicks = @ - 1]
    /\ routing' = SelectExitNode(routing, id)
    /\ store' = [store EXCEPT !.pending = id]
    /\ Send(id)
    /\ excused' = IF connected \/ id # None THEN excused
                  ELSE excused \cup {"clear lost"}
    /\ picker' = Render(picker, store', routing')
    /\ UNCHANGED <<helper, connected, outbox, exitNodeRestoreAttempted>>

ClickRow ==
    \/ \E r \in Rows : /\ r.country \in picker.expanded \cup {""}
                       /\ SetExitNode(r.picks)
    \/ \E client \in Clients :
         /\ picker.query = "" /\ store.known /\ Candidates # {}
         /\ SetExitNode(SelectRecommended(Peers, store.online, client).id)
    \/ picker.query = "" /\ SetExitNode(None)

Toggle ==
    \E r \in Rows :
      /\ r.country # "" /\ budget.clicks > 0
      /\ budget' = [budget EXCEPT !.clicks = @ - 1]
      /\ picker' = [picker EXCEPT !.expanded =
                      IF r.country \in @ THEN @ \ {r.country}
                      ELSE @ \cup {r.country}]
      /\ UNCHANGED <<helper, connected, inbox, outbox, store, routing,
                     exitNodeRestoreAttempted, excused>>

\* The input handler; opening the picker again starts with an empty search.
Search ==
    \E q \in Queries :
      /\ q # picker.query /\ budget.clicks > 0
      /\ budget' = [budget EXCEPT !.clicks = @ - 1]
      /\ picker' = Render([picker EXCEPT !.query = q], store, routing)
      /\ UNCHANGED <<helper, connected, inbox, outbox, store, routing,
                     exitNodeRestoreAttempted, excused>>

\* External, handleSetExitNode(): EditPrefs, then a status; or an error.
HelperHandles ==
    /\ inbox # <<>> /\ Len(outbox) < MaxMessages
    /\ inbox' = Tail(inbox)
    /\ \/ /\ helper' = [helper EXCEPT !.node = Head(inbox)]
          /\ outbox' = Append(outbox, [Status EXCEPT !.node = Head(inbox)])
          /\ UNCHANGED <<budget, excused>>
       \/ /\ budget.faults > 0
          /\ budget' = [budget EXCEPT !.faults = @ - 1]
          /\ outbox' = Append(outbox, Error)
          /\ excused' = excused \cup {"refused"}
          /\ UNCHANGED helper
    /\ UNCHANGED <<connected, store, routing, exitNodeRestoreAttempted, picker>>

\* External: a notification of its own, with or without a peer that changed.
HelperReports ==
    /\ connected /\ budget.reports > 0 /\ Len(outbox) < MaxMessages
    /\ budget' = [budget EXCEPT !.reports = @ - 1]
    /\ \E n \in IDs : helper' = [helper EXCEPT !.online = IDs \ {n}]
    /\ outbox' = Append(outbox, [Status EXCEPT !.online = helper'.online])
    /\ UNCHANGED <<connected, inbox, store, routing, exitNodeRestoreAttempted,
                   picker, excused>>

\* A status: the store and routing take it, then the saved selection is
\* restored once for each connection.
ReceiveStatus ==
    /\ outbox # <<>> /\ Head(outbox).type = "status"
    /\ LET confirmed == Head(outbox).node
           selected == routing'.selected
           restores == /\ ~exitNodeRestoreAttempted /\ selected # None
                       /\ selected # confirmed
       IN /\ store' = [pending |-> NextPending(store.pending, confirmed),
                       prefs |-> confirmed, known |-> TRUE,
                       online |-> Head(outbox).online]
          /\ routing' = ConfirmStatus(routing, confirmed)
          /\ exitNodeRestoreAttempted' =
               (exitNodeRestoreAttempted \/ selected # None)
          /\ IF restores THEN Send(selected) ELSE UNCHANGED inbox
          /\ excused' = IF /\ confirmed = None /\ routing.pendingExit = None
                           /\ \/ Range(inbox) \ {None} # {}
                              \/ \E i \in 2..Len(outbox) :
                                   outbox[i] # Error /\ outbox[i].node # None
                        THEN excused \cup {"confirmed early"} ELSE excused
          /\ picker' = Render(picker, store', routing')
    /\ outbox' = Tail(outbox)
    /\ UNCHANGED <<helper, connected, budget>>

\* An error of set-exit-node ends the store's pending choice only.
ReceiveError ==
    /\ outbox # <<>> /\ Head(outbox).type = "error"
    /\ store' = [store EXCEPT !.pending = NotPending]
    /\ outbox' = Tail(outbox)
    /\ picker' = Render(picker, store', routing)
    /\ UNCHANGED <<helper, connected, inbox, routing, exitNodeRestoreAttempted,
                   budget, excused>>

\* The port disconnects; what was on it is lost.  The picker stays open.
PortDrops ==
    /\ connected /\ budget.faults > 0
    /\ budget' = [budget EXCEPT !.faults = @ - 1]
    /\ connected' = FALSE /\ inbox' = <<>> /\ outbox' = <<>>
    /\ exitNodeRestoreAttempted' = FALSE
    /\ excused' = IF None \in Range(inbox) THEN excused \cup {"clear lost"}
                  ELSE excused
    /\ UNCHANGED <<helper, store, routing, picker>>

\* A new worker loads routing from storage; the popup opens anew.
WorkerRestarts ==
    /\ ~connected
    /\ store.known
    /\ store' = [pending |-> NotPending, prefs |-> None, known |-> FALSE,
                 online |-> {}]
    /\ picker' = [query |-> "", expanded |-> {}, autoExpandDone |-> FALSE]
    /\ UNCHANGED <<helper, connected, inbox, outbox, routing,
                   exitNodeRestoreAttempted, budget, excused>>

PortConnects ==
    /\ ~connected
    /\ connected' = TRUE
    /\ outbox' = <<Status>>
    /\ UNCHANGED <<helper, inbox, store, routing, exitNodeRestoreAttempted,
                   picker, budget, excused>>

PickerNext ==
    \/ ClickRow \/ Toggle \/ Search
    \/ HelperHandles \/ HelperReports
    \/ ReceiveStatus \/ ReceiveError
    \/ PortDrops \/ WorkerRestarts \/ PortConnects

PickerSpec == PickerInit /\ [][PickerNext]_pickerVars
-----------------------------------------------------------------------------
(* Properties.                                                             *)

Selected == EffectiveSelected(store, routing)

\* The best of a set, one criterion after the other: online, in the country
\* of the client, at a known and the shortest distance, of high priority.
Prefer(nodes, Good(_)) ==
    IF \E n \in nodes : Good(n) THEN {n \in nodes : Good(n)} ELSE nodes
BestOf(nodes, client) ==
    LET up == Prefer(nodes, LAMBDA n : n.id \in store.online)
        home == Prefer(up, LAMBDA n : client # "" /\ n.code = client)
        known == Prefer(home, LAMBDA n : client # "" /\ n.distance # NoDistance)
        near == {n \in known : client = "" \/
                   \A m \in known : n.distance <= m.distance}
    IN {n \in near : \A m \in near : n.priority >= m.priority}

\* The picker recommends the best node there is, in whatever order the
\* helper lists the peers, always the same place; and, unless a node that is
\* not Mullvad's is selected, the recommended row is marked as selected exactly
\* when the row of its city is.
RecommendedIsBest ==
    \A client \in Clients : Candidates # {} =>
      LET best == BestOf(Candidates, client)
          first == SelectRecommended(Peers, store.online, client)
          last == SelectRecommended(Reverse(Peers), store.online, client)
          marked == \/ Selected = first.id
                    \/ \E n \in PeerSet : /\ n.id = Selected
                                          /\ SameExitNodeLocation(first, n)
          listed == /\ store.known /\ picker.query = ""
                    /\ \A n \in PeerSet : n.id = Selected => n.tag = "mullvad"
      IN /\ first \in best /\ last \in best
         /\ \A n \in best : first.label <= n.label
         /\ last.label = first.label
         /\ listed =>
              marked = \E r \in Rows : first.id \in r.nodes /\ Selected \in r.nodes

\* Whatever is searched for and whoever is online, each node that matches
\* has one row: its own, or that of its city, whose click asks for a node of
\* the city that is online if one is; and one row at most is selected.
EveryNodeHasARow ==
    store.known =>
      /\ \A n \in FilterExitNodes(picker.query) :
           Cardinality({r \in Rows : n.id \in r.nodes}) = 1
      /\ \A r \in Rows :
           /\ r.picks \in r.nodes
           /\ r.nodes \cap store.online # {} => r.picks \in store.online
      /\ Cardinality({r \in Rows : Selected \in r.nodes}) <= 1

\* When nothing is under way, the picker and routing protection show the
\* node that the helper uses, through errors of others, lost connections and
\* restarts.  Excused: a choice the helper refused; a clear that was lost
\* with the connection; and a clear that a status from before it confirmed.
SelectionSettles ==
    connected /\ inbox = <<>> /\ outbox = <<>> /\ excused = {} =>
      /\ Selected = helper.node /\ routing.selected = helper.node
      /\ store.pending = NotPending /\ routing.pendingExit = NotPending
=============================================================================
