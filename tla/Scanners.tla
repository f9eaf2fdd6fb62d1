------------------------------ MODULE Scanners ------------------------------
(***************************************************************************)
(* services/api_scanner.py: the scan of the API end points of a name and   *)
(* the probe of its VPN ports.  Both collect what single connections show  *)
(* and summarise it at the end; a connection that fails leaves its end     *)
(* point out, or its port closed.                                          *)
(***************************************************************************)
EXTENDS ScanFlow

CONSTANTS
    NPaths,     \* number of API_PATHS
    Ports       \* the VPN_PORTS probed, a sequence of [proto, type]

ASSUME ScannersAssumption ==
    /\ NPaths \in Nat
    /\ Ports \in Seq([proto : {"UDP", "TCP"}, type : STRING])

VARIABLES api, vpn

Grades == {"A", "B", "C", "D", "F"}
Rank == [g \in Grades |-> CASE g = "A" -> 1 [] g = "B" -> 2 [] g = "C" -> 3 [] g = "D" -> 4 [] OTHER -> 5]

-----------------------------------------------------------------------------
(* scan_api_endpoints *)

IdleApi == [pc |-> "idle", farm |-> {}, lib |-> NoLibrary, kex |-> Nothing, path |-> 0,
            reachable |-> {}, answered |-> {}, issues |-> {}]

BeginApi(farm, lib) ==
    /\ api.pc = "idle"
    /\ api' = [IdleApi EXCEPT !.pc = "kex", !.farm = farm, !.lib = lib]

\* detect_key_exchange_group on the base host, both of its connections.  The
\* check of the base path before it feeds nothing but its own entry.
DetectBase ==
    /\ api.pc = "kex"
    /\ LET replies(groups) == BadReplies \cup {Answers(b, groups) : b \in api.farm}
       IN \E r \in replies(ALL_GROUPS), s \in replies(PQC_GROUPS) :
             LET kex == AfterPrimary(r)
             IN api' = [api EXCEPT !.pc = "paths",
                           !.kex = IF AsksAgain(kex) THEN AfterSecondary(kex, s) ELSE kex]

\* A 404 or no HTTP answer at all leaves an end point out of the summary.
Found(status) == status \notin {"404", "none"}

\* _quick_tls_check of the next path, without verification.
QuickCheck ==
    /\ api.pc = "paths" /\ api.path < NPaths
    /\ \/ api' = [api EXCEPT !.path = @ + 1]
       \/ \E b \in api.farm, status \in {"200", "404", "none"} : \E v \in Shakes(b, api.lib) :
             LET ep == [path |-> api.path + 1, version |-> v, suite |-> b.offers[v]]
             IN api' = [api EXCEPT !.path = @ + 1,
                           !.reachable = IF Found(status) THEN @ \cup {ep} ELSE @,
                           !.answered = IF status = "200" THEN @ \cup {ep} ELSE @]

\* Mutant: the first of the sorted grades.
BestGrade(eps) == CHOOSE g \in {CipherGrade(e.suite) : e \in eps} :
                      \A e \in eps : Rank[CipherGrade(e.suite)] >= Rank[g]

WorstGrade(eps) == CHOOSE g \in {CipherGrade(e.suite) : e \in eps} :
                      \A e \in eps : Rank[CipherGrade(e.suite)] <= Rank[g]

\* No certificate type is taken for quantum safe: only the probe can say so.
Issues(eps, kex) ==
    IF eps = {} THEN {}
    ELSE (IF kex.isPqc THEN {} ELSE {"no quantum-safe end point"})
           \cup (IF \E e \in eps : e.version = "TLSv1.2" THEN {"TLS 1.2"} ELSE {})
           \cup (IF WorstGrade(eps) \in {"D", "F"} THEN {"weak suite"} ELSE {})

Summarise ==
    /\ api.pc = "paths" /\ api.path = NPaths
    /\ api' = [api EXCEPT !.pc = "done", !.issues = Issues(api.reachable, api.kex)]

ApiStep == DetectBase \/ QuickCheck \/ Summarise

-----------------------------------------------------------------------------
(* scan_vpn_endpoints *)

VPN_PORTS == << [proto |-> "UDP", type |-> "IKEv2/IPsec"], [proto |-> "UDP", type |-> "IKEv2 NAT-T"],
                [proto |-> "UDP", type |-> "OpenVPN UDP"], [proto |-> "TCP", type |-> "OpenVPN TCP"],
                [proto |-> "TCP", type |-> "SSL-VPN/443"], [proto |-> "TCP", type |-> "PPTP"],
                [proto |-> "UDP", type |-> "L2TP"], [proto |-> "UDP", type |-> "WireGuard"],
                [proto |-> "TCP", type |-> "SSL-VPN/4433"], [proto |-> "TCP", type |-> "SSL-VPN/8443"] >>

IdleVpn == [pc |-> "idle", eps |-> <<>>, open |-> 0, tls |-> 0, issues |-> {}]
Closed == [open |-> FALSE, version |-> "none"]

\* _probe_udp_port and _probe_tcp_port: closed or silent, open, open with TLS.
Probes(proto) ==
    {Closed, [open |-> TRUE, version |-> "none"]}
      \cup (IF proto = "TCP" THEN [open : {TRUE}, version : {"TLSv1.3", "TLSv1.2", "TLSv1"}] ELSE {})

Assessment(port, probe) ==
    CASE port.type = "WireGuard" /\ probe.open -> "PQC_READY"
      [] port.type # "WireGuard" /\ probe.version = "TLSv1.3" -> "PQC_READY"
      [] port.type # "WireGuard" /\ probe.version = "TLSv1.2" -> "TRANSITIONING"
      [] port.type # "WireGuard" /\ probe.version = "TLSv1" -> "VULNERABLE"
      [] OTHER -> "NOT_ASSESSED"

BeginVpn == vpn.pc = "idle" /\ vpn' = [IdleVpn EXCEPT !.pc = "ports"]

\* Mutant: only TLS end points are counted.
OpensTls(probe) == IF probe.version # "none" THEN 1 ELSE 0

Opens(probe) == IF probe.open THEN 1 ELSE 0

ProbePort ==
    /\ vpn.pc = "ports" /\ Len(vpn.eps) < Len(Ports)
    /\ LET port == Ports[Len(vpn.eps) + 1]
       IN \E p \in Probes(port.proto) :
             vpn' = [vpn EXCEPT
                       !.eps = Append(@, [type |-> port.type, open |-> p.open, tls |-> p.version # "none",
                                          assessment |-> Assessment(port, p)]),
                       !.open = @ + Opens(p),
                       !.tls = @ + (IF p.version # "none" THEN 1 ELSE 0),
                       !.issues = IF port.type = "PPTP" /\ p.open THEN @ \cup {"PPTP"} ELSE @]

Conclude ==
    /\ vpn.pc = "ports" /\ Len(vpn.eps) = Len(Ports)
    /\ vpn' = [vpn EXCEPT !.pc = "done",
                  !.issues = @ \cup (IF vpn.tls > 0 THEN {"TLS"} ELSE {})
                               \cup (IF vpn.open = 0 THEN {"nothing open"} ELSE {})]

VpnStep == ProbePort \/ Conclude

-----------------------------------------------------------------------------

ScannersInit == api = IdleApi /\ vpn = IdleVpn

\* api_scanner.py:177, "Build TLS summary across all reachable endpoints": one
\* end point with a weak suite or TLS 1.2 among many is not lost, what is
\* summarised did answer, and nothing is called quantum safe that is not.
WeakEndPointReported ==
    api.pc = "done" =>
        /\ api.reachable = api.answered
        /\ \A e \in api.answered :
              /\ CipherGrade(e.suite) \in {"D", "F"} => "weak suite" \in api.issues
              /\ e.version = "TLSv1.2" => "TLS 1.2" \in api.issues
        /\ ~(\E b \in api.farm : Prefers(b)) /\ api.answered # {} => "no quantum-safe end point" \in api.issues

\* The findings and the count of a VPN probe agree with its list of end points:
\* PPTP, TLS without a post-quantum key exchange (api_scanner.py:412), nothing
\* open, and no TLS end point is left without an assessment.
OpenPorts == {i \in DOMAIN vpn.eps : vpn.eps[i].open}
VpnIssuesComplete ==
    vpn.pc = "done" =>
        /\ "PPTP" \in vpn.issues <=> \E i \in OpenPorts : vpn.eps[i].type = "PPTP"
        /\ "TLS" \in vpn.issues <=> \E i \in DOMAIN vpn.eps : vpn.eps[i].tls
        /\ "nothing open" \in vpn.issues <=> OpenPorts = {}
        /\ \A i \in DOMAIN vpn.eps : vpn.eps[i].tls => vpn.eps[i].assessment # "NOT_ASSESSED"
        /\ vpn.open = Cardinality(OpenPorts)
=============================================================================
