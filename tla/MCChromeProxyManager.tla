------------------------ MODULE MCChromeProxyManager -----------------------
(***************************************************************************)
(* ChromeProxyManager for TLC.  Callbacks are free; what comes from outside *)
(* is limited to MaxEvents.  A helper listens on a port of the kernel's    *)
(* choice: here it never is the port of an earlier helper.                 *)
(***************************************************************************)
EXTENDS ChromeProxyManager

CONSTANT MaxEvents
VARIABLES
    events,
    used,     \* ports of the helper sessions so far
    blamed    \* history: an error was held against the policy wanted now

FreshPort ==
    /\ (session' # session /\ session' # Null) => session'.port \notin used
    /\ used' = IF session' = Null THEN used ELSE used \cup {session'.port}

\* errorKey is forgotten when setProxySession() finds no session again, but
\* nothing is tried anew then.
Blame ==
    blamed' = \/ errorKey' = desired' /\ errorKey' # Null
              \/ blamed /\ desired' = desired /\ session' = session

MCInit == Init /\ events = 0 /\ used = {} /\ blamed = FALSE

MCNext ==
    /\ \/ Callbacks /\ UNCHANGED <<events, used>>
       \/ /\ events < MaxEvents /\ events' = events + 1
          /\ Environment \/ Failures
          /\ FreshPort
    /\ Blame

\* Chrome answers every call and delivers every event.
MCSpec == MCInit /\ [][MCNext]_<<vars, events, used, blamed>> /\ WF_vars(Callbacks)

\* The browser is never left open while protection is wanted, however the
\* policies, sessions and callbacks interleave: once things are quiet, either
\* a PAC of this extension is in place or the user has been told of a problem.
\* Left out is a policy against which an error has been held.
NotOpenWhenProtected ==
    (Quiet /\ desired \in PACs /\ ~blamed
       /\ health \notin {"unavailable", "conflicted"}) => setting # Clear

\* The manager comes to rest: a setting that is rejected, taken over or whose
\* probe fails is not tried again and again.
ComesToRest == <>[]Quiet

-----------------------------------------------------------------------------
(* Two questions in which the code and what is said of it disagree.  No     *)
(* failures, and nobody else controls the setting.                          *)

\* A browser without a setting, a helper that starts, and policies.
PoliciesNext ==
    /\ \/ GetReturned(FALSE) \/ SetDone \/ Verified(FALSE) \/ ProbeAnswered \/ ChangeEvent
       \/ \E port \in HelperPorts \cup {Null}, routes \in Routes :
             \/ Apply(port, routes)
             \/ \E s \in Sessions : SetProxySession(s, port, routes)
    /\ UNCHANGED <<events, used, blamed>>
PoliciesSpec ==
    (MCInit /\ setting = Clear) /\ [][PoliciesNext]_<<vars, events, used, blamed>>

\* "Chrome removes its proxy setting only when Tailchrome's effective policy
\* becomes `direct`, immediately for an explicit routing release"
\* (docs/DOCUMENTATION.md:1326): once "inactive" is reported and things are
\* quiet, there is no setting left.
InactiveIsClear ==
    (Quiet /\ desired = Clear /\ health = "inactive") => setting = Clear

\* The same with requests that fail because nothing listens on the PAC's port.
ErrorsNext ==
    \/ PoliciesNext
    \/ /\ RequestFails \/ ProxyError("PROXY_CONNECTION_FAILED", TRUE)
          \/ (\E routes \in Routes : Apply(Blocked, routes))
       /\ UNCHANGED <<events, used, blamed>>
ErrorsSpec == MCInit /\ [][ErrorsNext]_<<vars, events, used, blamed>>

\* "The proxy is unavailable - protected browsing is blocked."
\* (chrome-proxy-manager.ts:97): a browser that reports this has a PAC.
BlockedIsBlocked == (Quiet /\ health = "blocked") => setting # Clear
=============================================================================
