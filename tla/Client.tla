-------------------------------- MODULE Client --------------------------------
(***************************************************************************)
(* The dashboard (App.jsx) and the services it calls: a user scans a name  *)
(* and its API and VPN end points, and asks the assistant about the report *)
(* that is shown.  One request is in progress at a time.                   *)
(***************************************************************************)
EXTENDS Scanners, Assistant

VARIABLE shown  \* what the page shows: "nothing", or the last scan's result

clientVars == <<scan, api, vpn, chat, shown>>

ClientInit == ScanInit /\ ScannersInit /\ ChatInit /\ shown = "nothing"

Free == scan.pc = "idle" /\ api.pc = "idle" /\ vpn.pc = "idle" /\ chat.pc = "idle"

\* The context sent with a question is taken from the result that is shown.
Known == shown = "report"

Begin ==
    /\ Free
    /\ \/ /\ \E farm \in Farms, lib \in Libraries : BeginScan(farm, lib)
          /\ UNCHANGED <<api, vpn, chat>>
       \/ /\ \E farm \in Farms, lib \in Libraries : BeginApi(farm, lib)
          /\ UNCHANGED <<scan, vpn, chat>>
       \/ BeginVpn /\ UNCHANGED <<scan, api, chat>>
       \/ /\ \/ \E rule \in Rules, key \in BOOLEAN : Ask("chat", rule, Known, key)
             \/ \E op \in {"explain", "status"}, key \in BOOLEAN : Ask(op, "generic", Known, key)
          /\ UNCHANGED <<scan, api, vpn>>
    /\ UNCHANGED shown

Works ==
    \/ ScanStep /\ UNCHANGED <<api, vpn, chat, shown>>
    \/ ApiStep /\ UNCHANGED <<scan, vpn, chat, shown>>
    \/ VpnStep /\ UNCHANGED <<scan, api, chat, shown>>
    \/ ChatStep /\ UNCHANGED <<scan, api, vpn, shown>>

Waits == GiveUp /\ UNCHANGED <<scan, api, vpn, shown>>

\* The response arrives.  A scan that raised (status 500) or took longer than
\* the 25 seconds of performScan is shown as a failure.
Show ==
    /\ \/ /\ scan.pc \in {"done", "raised"}
          /\ \/ Reported /\ shown' = "report"
             \/ shown' = "failure"
          /\ scan' = IdleScan /\ UNCHANGED <<api, vpn, chat>>
       \/ /\ api.pc = "done"
          /\ api' = IdleApi /\ UNCHANGED <<scan, vpn, chat, shown>>
       \/ /\ vpn.pc = "done"
          /\ vpn' = IdleVpn /\ UNCHANGED <<scan, api, chat, shown>>
       \/ /\ chat.pc \in {"done", "failed"}
          /\ chat' = IdleChat /\ UNCHANGED <<scan, api, vpn, shown>>

ClientNext == Begin \/ Works \/ Waits \/ Show

\* Each step of the server is a computation or a connection with a timeout.
ClientSpec == ClientInit /\ [][ClientNext]_clientVars /\ WF_clientVars(Works)

-----------------------------------------------------------------------------
(* Properties *)

\* Every variable has its type.
ClientTypeOK ==
    /\ ScanTypeOK
    /\ api.pc \in {"idle", "kex", "paths", "done"} /\ api.path \in 0..NPaths
    /\ api.reachable \subseteq [path : 1..NPaths, version : Modern, suite : Suites]
    /\ api.issues \subseteq {"no quantum-safe end point", "TLS 1.2", "weak suite"}
    /\ vpn.pc \in {"idle", "ports", "done"} /\ Len(vpn.eps) \in 0..Len(Ports)
    /\ vpn.open \in 0..Len(Ports) /\ vpn.tls \in 0..vpn.open
    /\ vpn.issues \subseteq {"PPTP", "TLS", "nothing open"}
    /\ chat \in [pc : {"idle", "call", "rule", "done", "failed"}, op : {"none", "chat", "explain", "status"},
                 rule : Rules, known : BOOLEAN, model : 1..NModels, attempt : 0..2,
                 source : {"none", "gemini", "rule-based"}, client : {"none", "waiting", "local"}]
    /\ shown \in {"nothing", "report", "failure"}

\* Every request ends: the chain of fallbacks, the lists of paths and ports and
\* the retries of the assistant are finite.
RequestEnds ==
    /\ scan.pc = "connect" ~> scan.pc \in {"done", "raised"}
    /\ api.pc = "kex" ~> api.pc = "done"
    /\ vpn.pc = "ports" ~> vpn.pc = "done"
    /\ chat.pc = "call" ~> chat.pc \in {"done", "failed"}
=============================================================================
