----------------------------- MODULE ClientProofs -----------------------------
(***************************************************************************)
(* Proofs about Client.tla: what a scan reports, for any farms of back     *)
(* ends, TLS libraries, zones and numbers of failing connections, and what *)
(* the API and VPN scans and the assistant do, for any paths, ports and    *)
(* models.                                                                 *)
(*                                                                         *)
(* The client only begins requests and takes their results away; each      *)
(* result is an invariant of the steps of one service and of these two.    *)
(***************************************************************************)
EXTENDS Client, FiniteSetTheorems, NaturalsInduction, WellFoundedInduction, TLAPS

\* A step of the client as the scan sees it.
ScanOrReset == ScanNext \/ scan' = IdleScan

LEMMA ClientMovesScan ==
    ASSUME [ClientNext]_clientVars
    PROVE  [ScanOrReset]_scan
BY DEF ClientNext, clientVars, Begin, Works, Waits, Show, GiveUp, ScanOrReset, ScanNext

-----------------------------------------------------------------------------
(* Handshakes *)

\* A handshake fails only if no version has a suite for both sides.
LEMMA Negotiation ==
    ASSUME NEW b, NEW allowed, NEW suites, DOMAIN b.offers \subseteq Versions
    PROVE  /\ Negotiates(b, allowed, suites) \subseteq DOMAIN b.offers \cap allowed
           /\ \A v \in Negotiates(b, allowed, suites) : b.offers[v] \in suites
           /\ Negotiates(b, allowed, suites) = {} =>
                 \A v \in DOMAIN b.offers \cap allowed : b.offers[v] \notin suites
<1> DEFINE common == {v \in DOMAIN b.offers \cap allowed : b.offers[v] \in suites}
<1>1. Negotiates(b, allowed, suites) = {v \in common : \A w \in common : Order[w] <= Order[v]}
  BY DEF Negotiates
<1>2. common \subseteq Versions
  OBVIOUS
<1>3. ASSUME common # {}
      PROVE  \E v \in common : \A w \in common : Order[w] <= Order[v]
  <2>1. /\ Order["TLSv1.3"] = 4 /\ Order["TLSv1.2"] = 3
        /\ Order["TLSv1.1"] = 2 /\ Order["TLSv1.0"] = 1
    BY DEF Order, Versions
  <2>2. \A w \in common : w \in {"TLSv1.3", "TLSv1.2", "TLSv1.1", "TLSv1.0"}
    BY <1>2 DEF Versions
  <2> HIDE DEF common
  <2>3. CASE "TLSv1.3" \in common
    BY <2>1, <2>2, <2>3
  <2>4. CASE "TLSv1.3" \notin common /\ "TLSv1.2" \in common
    BY <2>1, <2>2, <2>4
  <2>5. CASE "TLSv1.3" \notin common /\ "TLSv1.2" \notin common /\ "TLSv1.1" \in common
    BY <2>1, <2>2, <2>5
  <2>6. CASE "TLSv1.3" \notin common /\ "TLSv1.2" \notin common /\ "TLSv1.1" \notin common
    BY <1>3, <2>1, <2>2, <2>6
  <2>7. QED
    BY <2>3, <2>4, <2>5, <2>6
<1>4. QED
  BY <1>1, <1>3

-----------------------------------------------------------------------------
(* The probe *)

\* The group a back end names is the first of its own that was offered.
LEMMA Answered ==
    ASSUME NEW b \in Servers, NEW groups
    PROVE  \/ /\ Answers(b, groups) = <<Alert>>
              /\ "TLSv1.3" \in DOMAIN b.offers =>
                    \A i \in 1..Len(b.groups) : b.groups[i] \notin groups
           \/ /\ "TLSv1.3" \in DOMAIN b.offers
              /\ \E i \in 1..Len(b.groups) :
                    /\ b.groups[i] \in groups
                    /\ \A j \in 1..Len(b.groups) : b.groups[j] \in groups => i <= j
                    /\ Answers(b, groups) = <<ServerHello(b.groups[i]), ChangeCipherSpec>>
<1> DEFINE usable == {i \in 1..Len(b.groups) : b.groups[i] \in groups}
           first == CHOOSE i \in usable : \A j \in usable : i <= j
<1>1. Answers(b, groups) = IF "TLSv1.3" \notin DOMAIN b.offers \/ usable = {} THEN <<Alert>>
                           ELSE <<ServerHello(b.groups[first]), ChangeCipherSpec>>
  BY DEF Answers
<1>2. CASE "TLSv1.3" \notin DOMAIN b.offers \/ usable = {}
  BY <1>1, <1>2
<1>3. CASE "TLSv1.3" \in DOMAIN b.offers /\ usable # {}
  <2>1. usable \subseteq Nat
    OBVIOUS
  <2>2. PICK i \in usable : \A j \in usable : ~ (<<j, i>> \in OpToRel(<, Nat))
    BY <1>3, <2>1, WFMin, NatLessThanWellFounded
  <2>3. \A j \in usable : ~ (j < i)
    BY <2>1, <2>2 DEF OpToRel
  <2>4. \A j \in usable : i <= j
    <3> HIDE DEF usable
    <3>1. QED
      BY <2>1, <2>3
  <2>5. first \in usable /\ \A j \in usable : first <= j
    BY <2>4
  <2> HIDE DEF first
  <2>6. QED
    BY <1>1, <1>3, <2>5
<1>4. QED
  BY <1>2, <1>3

LEMMA ProbeOfAlert == Probe(<<Alert>>) = Alert
<1> DEFINE telling == {i \in 1..1 : <<Alert>>[i].type \notin {"ccs", "other"}}
<1>1. telling = {1}
  BY DEF Alert
<1>2. (CHOOSE i \in telling : \A j \in telling : i <= j) = 1
  BY <1>1
<1> HIDE DEF telling
<1>3. Probe(<<Alert>>) = <<Alert>>[1]
  BY <1>1, <1>2 DEF Probe, MaxRecords, telling
<1>4. QED
  BY <1>3

LEMMA ProbeOfHello ==
    ASSUME NEW g
    PROVE  Probe(<<ServerHello(g), ChangeCipherSpec>>) = ServerHello(g)
<1> DEFINE reply == <<ServerHello(g), ChangeCipherSpec>>
           telling == {i \in 1..2 : reply[i].type \notin {"ccs", "other"}}
<1>1. telling = {1}
  BY DEF ServerHello, ChangeCipherSpec
<1>2. (CHOOSE i \in telling : \A j \in telling : i <= j) = 1
  BY <1>1
<1>3. Len(reply) = 2 /\ reply[1] = ServerHello(g)
  OBVIOUS
<1> HIDE DEF reply
<1>4. Probe(reply) = IF telling = {} THEN [type |-> "no_response", group |-> NoGroup]
                     ELSE reply[CHOOSE i \in telling : \A j \in telling : i <= j]
  BY <1>3 DEF Probe, MaxRecords
<1> HIDE DEF telling
<1>5. QED
  BY <1>1, <1>2, <1>3, <1>4 DEF reply

\* No other reply is taken for a ServerHello.
LEMMA ProbeOfBadReply ==
    ASSUME NEW r \in BadReplies
    PROVE  Probe(r).type # "hello"
<1> DEFINE n == IF Len(r) < MaxRecords THEN Len(r) ELSE MaxRecords
           telling == {i \in 1..n : r[i].type \notin {"ccs", "other"}}
<1>1. Probe(r) = IF telling = {}
                 THEN [type |-> IF Len(r) < MaxRecords THEN "no_response" ELSE "no_server_hello",
                       group |-> NoGroup]
                 ELSE r[CHOOSE i \in telling : \A j \in telling : i <= j]
  BY DEF Probe
<1>2. CASE r \in {NoConnection, <<CutAlert>>}
  <2>1. /\ Len(NoConnection) = 1 /\ NoConnection[1].type = "no connection"
        /\ Len(<<CutAlert>>) = 1 /\ <<CutAlert>>[1].type = "cut alert"
    BY DEF NoConnection, CutAlert
  <2>2. Len(r) = 1
    BY <1>2, <2>1
  <2>3. r[1].type \in {"no connection", "cut alert"}
    BY <1>2, <2>1
  <2>4. n = 1
    BY <2>2 DEF MaxRecords
  <2> HIDE DEF n
  <2>5. telling = {1}
    <3>1. 1..n = {1}
      BY <2>4
    <3>2. r[1].type \notin {"ccs", "other"}
      BY <2>3
    <3>3. QED
      BY <3>1, <3>2
  <2>6. (CHOOSE i \in telling : \A j \in telling : i <= j) = 1
    BY <2>5
  <2> HIDE DEF telling
  <2>7. Probe(r) = r[1]
    BY <1>1, <2>5, <2>6
  <2>8. QED
    BY <2>3, <2>7
<1>3. CASE r \notin {NoConnection, <<CutAlert>>}
  <2>1. \A i \in 1..n : r[i].type \in {"ccs", "other"}
    BY <1>3 DEF BadReplies, ChangeCipherSpec, OtherHandshake, MaxRecords
  <2>2. telling = {}
    BY <2>1
  <2> HIDE DEF telling
  <2>3. QED
    BY <1>1, <2>2
<1>4. QED
  BY <1>2, <1>3

-----------------------------------------------------------------------------
(* Types of a scan *)

LEMMA ProbeTypes ==
    ASSUME NEW b \in Servers, NEW groups, groups \subseteq ALL_GROUPS,
           NEW r, r \in BadReplies \/ r = Answers(b, groups)
    PROVE  Probe(r).type = "hello" => Probe(r).group \in ALL_GROUPS
<1>1. CASE r \in BadReplies
  BY <1>1, ProbeOfBadReply
<1>2. CASE r = <<Alert>>
  BY <1>2, ProbeOfAlert DEF Alert
<1>3. ASSUME NEW g \in groups, r = <<ServerHello(g), ChangeCipherSpec>>
      PROVE  Probe(r).group \in ALL_GROUPS
  BY <1>3, ProbeOfHello DEF ServerHello
<1>4. QED
  BY <1>1, <1>2, <1>3, Answered

KexType == [tls13 : BOOLEAN, group : ALL_GROUPS \cup {NoGroup}, isPqc : BOOLEAN,
            pqcSupported : BOOLEAN, error : BOOLEAN]

LEMMA AfterPrimaryType ==
    ASSUME NEW r, Probe(r).type = "hello" => Probe(r).group \in ALL_GROUPS
    PROVE  AfterPrimary(r) \in KexType
<1>1. Nothing \in KexType
  BY DEF Nothing, KexType
<1>2. [Nothing EXCEPT !.error = TRUE] \in KexType
  BY <1>1 DEF KexType
<1>3. ASSUME NEW g \in ALL_GROUPS, NEW pqc \in BOOLEAN
      PROVE  [Nothing EXCEPT !.tls13 = TRUE, !.group = g, !.isPqc = pqc, !.pqcSupported = pqc]
                \in KexType
  BY <1>1 DEF KexType
<1>4. ASSUME NEW g \in ALL_GROUPS
      PROVE  [Nothing EXCEPT !.tls13 = TRUE, !.group = g, !.isPqc = g \in PQC_GROUPS,
                             !.pqcSupported = g \in PQC_GROUPS] \in KexType
  <2>1. (g \in PQC_GROUPS) \in BOOLEAN
    OBVIOUS
  <2>2. QED
    BY <1>3, <2>1
<1>5. QED
  BY <1>1, <1>2, <1>4 DEF AfterPrimary

LEMMA AfterSecondaryType ==
    ASSUME NEW kex \in KexType, NEW r
    PROVE  AfterSecondary(kex, r) \in KexType
BY DEF AfterSecondary, KexType

LEMMA DnsTypes ==
    ASSUME NEW answers, NEW ad \in {"on", "off"}
    PROVE  CheckDns(answers, ad) \in [present : SUBSET Queries, dnssec : {"on", "off", Unknown},
                                      issues : SUBSET {"CAA", "AAAA", "DNSSEC"}]
BY DEF CheckDns, Dnssec

LEMMA OcspTypes ==
    ASSUME NEW hasUrl, NEW issuer, NEW answer \in {"good", "revoked", "unknown", "refused", "error"}
    PROVE  CheckOcsp(hasUrl, issuer, answer) \in
              [check : {"not_checked", "url_present_not_queried", "good", "revoked", "unknown",
                        "refused", "error"}, revoked : {"yes", "no", Unknown}]
BY DEF CheckOcsp, NotChecked, Revoked

LEMMA IdleScanType == IdleScan \in ScanType
<1>1. Nothing \in KexType
  BY DEF Nothing, KexType
<1>2. 0 \in 0..MaxFaults
  BY ScanFlowAssumption
<1>3. QED
  BY <1>1, <1>2 DEF IdleScan, ScanType, KexType, NoDns, NoHttp, NotChecked

\* A running scan has a farm and a path.
Running == scan.pc # "idle" => scan.farm \in Farms /\ scan.path # "none"

ScanInv == ScanTypeOK /\ Running

LEMMA FarmsServe ==
    ASSUME ScanInv, scan.pc # "idle", NEW b \in scan.farm
    PROVE  /\ b \in Servers
           /\ DOMAIN b.offers \subseteq Versions
           /\ \A v \in DOMAIN b.offers : b.offers[v] \in Suites
           /\ b.hsts \in BOOLEAN
           /\ b.cert \in CertType
BY ScanFlowAssumption DEF ScanInv, Running, Servers

\* A failed connection counts.
LEMMA FailsTypes ==
    ASSUME NEW new \in ScanType, new.faults = scan.faults, MayFail, Fails(new)
    PROVE  scan' \in ScanType
<1>1. new.faults + 1 \in 0..MaxFaults
  <2>1. new.faults \in 0..MaxFaults /\ new.faults < MaxFaults
    BY DEF MayFail, ScanType
  <2>2. MaxFaults \in Nat
    BY ScanFlowAssumption
  <2>3. QED
    BY <2>1, <2>2
<1>2. QED
  BY <1>1 DEF Fails, Moves, ScanType

\* What one connection measures.
LEMMA MeasuresTypes ==
    ASSUME ScanInv, scan.pc # "idle", NEW b \in scan.farm, NEW versions,
           versions \subseteq DOMAIN b.offers, Measures(b, versions)
    PROVE  ScanInv'
<1>1. PICK v \in versions, c \in Certs(b) :
        scan' = [scan EXCEPT !.pc = "versions", !.version = Negotiated(v), !.suite = b.offers[v],
                             !.cert = c]
  BY DEF Measures, Moves
<1>2. /\ Negotiated(v) \in {Negotiated(w) : w \in Versions}
      /\ b.offers[v] \in Suites
      /\ c \in {k \in {s.cert : s \in Servers} : k.keyType \in KeyTypes} \cup {NoCert, Unreadable}
  BY FarmsServe DEF Certs
<1>3. ScanTypeOK'
  BY <1>1, <1>2 DEF ScanInv, ScanTypeOK, ScanType
<1>4. QED
  <2>1. scan'.farm = scan.farm /\ scan'.path = scan.path
    BY <1>1 DEF ScanInv, ScanTypeOK, ScanType
  <2>2. QED
    BY <1>3, <2>1 DEF ScanInv, Running

\* Every step of a scan keeps its types.
LEMMA ScanStepKeepsTypes ==
    ASSUME ScanInv, ScanStep
    PROVE  ScanInv'
<1>1. scan \in ScanType /\ (scan.pc # "idle" => scan.farm \in Farms /\ scan.path # "none")
  BY DEF ScanInv, ScanTypeOK, Running
<1>2. ASSUME NEW new, new \in ScanType, new.faults = scan.faults,
             new.farm = scan.farm, new.path # "none", scan.farm \in Farms, Moves(new) \/ Fails(new)
      PROVE  ScanInv'
  <2>1. scan' \in ScanType
    BY <1>2, FailsTypes DEF Moves, Fails
  <2>2. scan'.farm = scan.farm /\ scan'.path # "none"
    BY <1>2 DEF Moves, Fails, ScanType
  <2>3. QED
    BY <1>2, <2>1, <2>2 DEF ScanInv, ScanTypeOK, Running
<1>3. ASSUME At("connect")
      PROVE  /\ scan.farm \in Farms
             /\ [scan EXCEPT !.path = "unverified"] \in ScanType
             /\ [scan EXCEPT !.path = Fallback] \in ScanType
             /\ \A status \in {"timeout", "dns_error", "connection_refused", "error"} :
                   [scan EXCEPT !.pc = "done", !.status = status] \in ScanType
             /\ [scan EXCEPT !.pc = "raised"] \in ScanType
  <2>1. scan.farm \in Farms
    BY <1>1, <1>3 DEF At
  <2>2. ASSUME NEW path \in {"unverified", "legacy"}
        PROVE  [scan EXCEPT !.path = path] \in ScanType
    BY <1>1 DEF ScanType
  <2>3. ASSUME NEW status \in {"timeout", "dns_error", "connection_refused", "error"}
        PROVE  [scan EXCEPT !.pc = "done", !.status = status] \in ScanType
    BY <1>1 DEF ScanType
  <2>4. [scan EXCEPT !.pc = "raised"] \in ScanType
    BY <1>1 DEF ScanType
  <2>5. QED
    BY <2>1, <2>2, <2>3, <2>4 DEF Fallback
<1>4. ASSUME At("connect"), NEW b \in scan.farm, NEW suites, NEW allowed,
             Measures(b, Negotiates(b, allowed, suites))
      PROVE  ScanInv'
  <2>1. DOMAIN b.offers \subseteq Versions
    BY <1>4, FarmsServe DEF At
  <2>2. Negotiates(b, allowed, suites) \subseteq DOMAIN b.offers
    BY <2>1, Negotiation
  <2>3. QED
    BY <1>4, <2>2, MeasuresTypes DEF At
<1>5. CASE ConnectVerified
  <2>1. CASE \E b \in scan.farm : b.trusted /\ Measures(b, Shakes(b, scan.lib))
    BY <1>4, <1>5, <2>1 DEF ConnectVerified, Shakes
  <2>2. CASE Moves([scan EXCEPT !.path = "unverified"])
    <3>1. /\ [scan EXCEPT !.path = "unverified"].faults = scan.faults
          /\ [scan EXCEPT !.path = "unverified"].farm = scan.farm
          /\ [scan EXCEPT !.path = "unverified"].path # "none"
      BY <1>1 DEF ScanType
    <3>2. QED
      BY <1>2, <1>3, <1>5, <2>2, <3>1 DEF ConnectVerified
  <2>3. QED
    BY <1>5, <2>1, <2>2 DEF ConnectVerified
<1>6. CASE TlsError
  <2>1. /\ [scan EXCEPT !.path = Fallback].faults = scan.faults
        /\ [scan EXCEPT !.path = Fallback].farm = scan.farm
        /\ [scan EXCEPT !.path = Fallback].path # "none"
    BY <1>1 DEF ScanType, Fallback
  <2>2. QED
    BY <1>2, <1>3, <1>6, <2>1 DEF TlsError
<1>7. ASSUME NEW status \in {"timeout", "dns_error", "connection_refused", "error"},
             ConnectionError(status)
      PROVE  ScanInv'
  <2>1. /\ [scan EXCEPT !.pc = "done", !.status = status].faults = scan.faults
        /\ [scan EXCEPT !.pc = "done", !.status = status].farm = scan.farm
        /\ [scan EXCEPT !.pc = "done", !.status = status].path # "none"
    BY <1>1, <1>7 DEF ScanType, ConnectionError, At
  <2>2. QED
    BY <1>2, <1>3, <1>7, <2>1 DEF ConnectionError, At
<1>8. CASE ConnectLegacy
  <2>1. CASE \E b \in scan.farm : Measures(b, ShakesLowered(b, scan.lib))
    BY <1>4, <1>8, <2>1 DEF ConnectLegacy, ShakesLowered
  <2> DEFINE new == [scan EXCEPT !.pc = "done", !.status = "error"]
  <2>2. CASE Moves(new) \/ Fails(new)
    <3>1. new.faults = scan.faults /\ new.farm = scan.farm /\ new.path # "none"
      BY <1>1, <1>8 DEF ScanType, ConnectLegacy, At
    <3>2. QED
      BY <1>2, <1>3, <1>8, <2>2, <3>1 DEF ConnectLegacy
  <2>3. QED
    BY <1>8, <2>1, <2>2 DEF ConnectLegacy
<1>9. CASE ConnectUnverified
  <2>1. CASE \E b \in scan.farm : Measures(b, Shakes(b, scan.lib))
    BY <1>4, <1>9, <2>1 DEF ConnectUnverified, Shakes
  <2> DEFINE new == [scan EXCEPT !.pc = "raised"]
  <2>2. CASE Moves(new) \/ Fails(new)
    <3>1. new.faults = scan.faults /\ new.farm = scan.farm /\ new.path # "none"
      BY <1>1, <1>9 DEF ScanType, ConnectUnverified, At
    <3>2. QED
      BY <1>2, <1>3, <1>9, <2>2, <3>1 DEF ConnectUnverified
  <2>3. QED
    BY <1>9, <2>1, <2>2 DEF ConnectUnverified
<1>10. CASE ProbeVersions
  <2> DEFINE all(v) == \A b \in scan.farm : Accepts(b, scan.lib, v)
             some == {v \in Versions : \E b \in scan.farm : Accepts(b, scan.lib, v)}
  <2>1. PICK vs \in SUBSET some :
          LET missed == Cardinality({v \in some \ vs : all(v)})
          IN /\ scan.faults + missed <= MaxFaults
             /\ Moves([scan EXCEPT !.pc = Following("versions"), !.supported = vs,
                                   !.faults = @ + missed])
    BY <1>10 DEF ProbeVersions
  <2> DEFINE missed == Cardinality({v \in some \ vs : all(v)})
  <2>2. missed \in Nat
    <3>1. IsFiniteSet(Versions)
      <4>1. Versions = {"TLSv1.3"} \cup {"TLSv1.2"} \cup {"TLSv1.1"} \cup {"TLSv1.0"}
        BY DEF Versions
      <4>2. QED
        BY <4>1, FS_Singleton, FS_Union
    <3>2. QED
      BY <3>1, FS_Subset, FS_CardinalityType
  <2>3. vs \subseteq Versions
    OBVIOUS
  <2>4. /\ scan.faults + missed <= MaxFaults
        /\ scan' = [scan EXCEPT !.pc = Following("versions"), !.supported = vs, !.faults = @ + missed]
    BY <2>1 DEF Moves
  <2> HIDE DEF missed, some, all
  <2>5. scan.faults + missed \in 0..MaxFaults
    <3>1. scan.faults \in 0..MaxFaults
      BY <1>1 DEF ScanType
    <3>2. MaxFaults \in Nat
      BY ScanFlowAssumption
    <3>3. QED
      BY <2>2, <2>4, <3>1, <3>2
  <2>6. Following("versions") \in {"dns", "http"}
    BY DEF Following
  <2>7. scan' \in ScanType
    BY <1>1, <2>3, <2>4, <2>5, <2>6 DEF ScanType
  <2>8. scan'.farm = scan.farm /\ scan.farm \in Farms /\ scan'.path # "none"
    BY <1>1, <1>10, <2>4 DEF ScanType, ProbeVersions, At
  <2>9. QED
    BY <2>7, <2>8 DEF ScanInv, ScanTypeOK, Running
<1>11. CASE LookUp
  <2>1. CASE \E z \in Zones, lost \in {{}} \cup {{q} : q \in Queries} :
               LET answers == [q \in Queries |-> IF q \in lost THEN "failed"
                                                 ELSE IF q \in z.has THEN "records" ELSE "none"]
               IN /\ scan.faults + Cardinality(lost) <= MaxFaults
                  /\ Moves([scan EXCEPT !.pc = Following("dns"), !.dns = CheckDns(answers, z.ad),
                                        !.faults = @ + Cardinality(lost)])
    <3>0. PICK z \in Zones, lost \in {{}} \cup {{q} : q \in Queries} : \E answers :
             /\ scan.faults + Cardinality(lost) <= MaxFaults
             /\ scan' = [scan EXCEPT !.pc = Following("dns"), !.dns = CheckDns(answers, z.ad),
                                     !.faults = @ + Cardinality(lost)]
      BY <2>1 DEF Moves
    <3>1. PICK answers :
             /\ z \in Zones
             /\ lost \in {{}} \cup {{q} : q \in Queries}
             /\ scan.faults + Cardinality(lost) <= MaxFaults
             /\ scan' = [scan EXCEPT !.pc = Following("dns"), !.dns = CheckDns(answers, z.ad),
                                     !.faults = @ + Cardinality(lost)]
      BY <3>0
    <3>2. Cardinality(lost) \in Nat
      <4>1. CASE lost = {}
        BY <4>1, FS_EmptySet
      <4>2. ASSUME NEW q, lost = {q}
            PROVE  Cardinality(lost) \in Nat
        <5>1. Cardinality({q}) = 1
          BY FS_Singleton
        <5>2. QED
          BY <4>2, <5>1
      <4>3. QED
        BY <3>1, <4>1, <4>2
    <3>3. scan.faults + Cardinality(lost) \in 0..MaxFaults
      <4>1. scan.faults \in 0..MaxFaults
        BY <1>1 DEF ScanType
      <4>2. MaxFaults \in Nat
        BY ScanFlowAssumption
      <4>3. QED
        BY <3>1, <3>2, <4>1, <4>2
    <3>4. Following("dns") \in {"http", "ocsp", "score"}
      BY DEF Following
    <3>5. CheckDns(answers, z.ad) \in
             [present : SUBSET Queries, dnssec : {"on", "off", Unknown},
              issues : SUBSET {"CAA", "AAAA", "DNSSEC"}]
      BY <3>1, ScanFlowAssumption, DnsTypes
    <3>6. scan' \in ScanType
      BY <1>1, <3>1, <3>3, <3>4, <3>5 DEF ScanType
    <3>7. scan'.farm = scan.farm /\ scan.farm \in Farms /\ scan'.path # "none"
      BY <1>1, <1>11, <3>1 DEF ScanType, LookUp, At
    <3>8. QED
      BY <3>6, <3>7 DEF ScanInv, ScanTypeOK, Running
  <2>2. ASSUME NEW new, new = [scan EXCEPT !.pc = "raised"] \/ new = [scan EXCEPT !.pc = "done", !.status = "error"],
               Fails(new)
        PROVE  ScanInv'
    <3>1. new \in ScanType /\ new.faults = scan.faults /\ new.farm = scan.farm /\ new.path # "none"
      <4>1. scan.path # "none"
        BY <1>1, <1>11 DEF LookUp, At
      <4>2. CASE new = [scan EXCEPT !.pc = "raised"]
        BY <1>1, <4>1, <4>2 DEF ScanType
      <4>3. CASE new = [scan EXCEPT !.pc = "done", !.status = "error"]
        BY <1>1, <4>1, <4>3 DEF ScanType
      <4>4. QED
        BY <2>2, <4>2, <4>3
    <3>2. scan.farm \in Farms
      BY <1>1, <1>11 DEF LookUp, At
    <3>3. QED
      BY <1>2, <2>2, <3>1, <3>2
  <2>3. QED
    BY <1>11, <2>1, <2>2 DEF LookUp
<1>12. CASE FetchHeaders
  <2>1. Following("http") \in {"ocsp", "dns"}
    BY DEF Following
  <2>2. PICK new : /\ \/ new = [scan EXCEPT !.pc = Following("http")]
                      \/ \E b \in scan.farm :
                            new = [scan EXCEPT !.pc = Following("http"),
                                               !.http = [hsts |-> b.hsts, answered |-> TRUE]]
                   /\ Moves(new) \/ Fails(new)
    BY <1>12 DEF FetchHeaders
  <2>3. scan.farm \in Farms /\ scan.path # "none"
    BY <1>1, <1>12 DEF FetchHeaders, At
  <2>4. new \in ScanType /\ new.faults = scan.faults /\ new.farm = scan.farm /\ new.path # "none"
    <3>1. CASE new = [scan EXCEPT !.pc = Following("http")]
      BY <1>1, <2>1, <2>3, <3>1 DEF ScanType
    <3>2. ASSUME NEW b \in scan.farm,
                 new = [scan EXCEPT !.pc = Following("http"),
                                    !.http = [hsts |-> b.hsts, answered |-> TRUE]]
          PROVE  new \in ScanType /\ new.faults = scan.faults /\ new.farm = scan.farm /\ new.path # "none"
      <4>1. b.hsts \in BOOLEAN
        BY <2>3, ScanFlowAssumption DEF Servers
      <4>2. [hsts |-> b.hsts, answered |-> TRUE] \in [hsts : BOOLEAN, answered : BOOLEAN]
        BY <4>1
      <4>3. QED
        BY <1>1, <2>1, <2>3, <3>2, <4>2 DEF ScanType
    <3>3. QED
      BY <2>2, <3>1, <3>2
  <2>5. QED
    BY <1>2, <2>2, <2>3, <2>4
<1>13. CASE AskResponder
  <2>1. PICK issuer, answer, new :
             /\ issuer \in BOOLEAN /\ answer \in {"good", "revoked", "unknown", "refused", "error"}
             /\ new = [scan EXCEPT !.pc = "probe",
                                   !.ocsp = CheckOcsp(scan.cert.ocspUrl, issuer, answer)]
             /\ Moves(new) \/ Fails(new)
    BY <1>13 DEF AskResponder
  <2>2. new \in ScanType /\ new.faults = scan.faults /\ new.farm = scan.farm /\ new.path # "none"
    BY <1>1, <1>13, <2>1, OcspTypes DEF ScanType, AskResponder, At
  <2>3. scan.farm \in Farms
    BY <1>1, <1>13 DEF AskResponder, At
  <2>4. QED
    BY <1>2, <2>1, <2>2, <2>3
<1>14. CASE ProbeGroups
  <2>1. PICK r, new :
             /\ r \in BadReplies \/ \E b \in scan.farm : r = Answers(b, ALL_GROUPS)
             /\ new = [scan EXCEPT !.pc = IF AsksAgain(AfterPrimary(r)) THEN "probe again" ELSE "score",
                                   !.kex = AfterPrimary(r)]
             /\ Moves(new) \/ Fails(new)
    BY <1>14 DEF ProbeGroups
  <2>2. scan.farm \in Farms
    BY <1>1, <1>14 DEF ProbeGroups, At
  <2>3. Probe(r).type = "hello" => Probe(r).group \in ALL_GROUPS
    BY <2>1, <2>2, ProbeTypes, ProbeOfBadReply DEF Servers
  <2>4. AfterPrimary(r) \in KexType
    BY <2>3, AfterPrimaryType
  <2>5. new \in ScanType /\ new.faults = scan.faults /\ new.farm = scan.farm /\ new.path # "none"
    <3>1. PICK pc \in {"probe again", "score"}, kex \in KexType :
            new = [scan EXCEPT !.pc = pc, !.kex = kex]
      BY <2>1, <2>4
    <3>2. scan.path # "none"
      BY <1>1, <1>14 DEF ProbeGroups, At
    <3>3. QED
      BY <1>1, <3>1, <3>2 DEF ScanType, KexType
  <2>6. QED
    BY <1>2, <2>1, <2>2, <2>5
<1>15. CASE ProbePqcGroups
  <2>1. PICK r, new :
             /\ new = [scan EXCEPT !.pc = "score", !.kex = AfterSecondary(scan.kex, r)]
             /\ Moves(new) \/ Fails(new)
    BY <1>15 DEF ProbePqcGroups
  <2>2. AfterSecondary(scan.kex, r) \in KexType
    BY <1>1, AfterSecondaryType DEF ScanType, KexType
  <2>3. new \in ScanType /\ new.faults = scan.faults /\ new.farm = scan.farm /\ new.path # "none"
    BY <1>1, <1>15, <2>1, <2>2 DEF ScanType, KexType, ProbePqcGroups, At
  <2>4. scan.farm \in Farms
    BY <1>1, <1>15 DEF ProbePqcGroups, At
  <2>5. QED
    BY <1>2, <2>1, <2>3, <2>4
<1>16. CASE Report
  <2> DEFINE new == [scan EXCEPT !.pc = "done", !.status = Success[scan.path]]
  <2>1. scan.farm \in Farms /\ scan.path \in {"verified", "unverified", "legacy"}
    BY <1>1, <1>16 DEF Report, At, ScanType
  <2>2. Success[scan.path] \in {"success", "success_unverified", "success_legacy"}
    BY <2>1 DEF Success
  <2>3. /\ new \in ScanType /\ new.faults = scan.faults /\ new.farm = scan.farm
        /\ new.path # "none"
    <3>1. PICK status \in {"success", "success_unverified", "success_legacy"} :
            status = Success[scan.path]
      BY <2>2
    <3>2. [scan EXCEPT !.pc = "done", !.status = status] \in ScanType
      BY <1>1 DEF ScanType
    <3>3. new.faults = scan.faults /\ new.farm = scan.farm /\ new.path = scan.path
      BY <1>1 DEF ScanType
    <3>4. QED
      BY <2>1, <3>1, <3>2, <3>3
  <2>4. QED
    BY <1>2, <1>16, <2>1, <2>3 DEF Report
<1>17. QED
  BY <1>5, <1>6, <1>7, <1>8, <1>9, <1>10, <1>11, <1>12, <1>13, <1>14, <1>15, <1>16 DEF ScanStep

\* The invariant the other proofs rest on.
LEMMA ScanTypes == ClientSpec => []ScanInv
<1>1. ClientInit => ScanInv
  BY IdleScanType DEF ClientInit, ScanInit, ScanInv, ScanTypeOK, Running, IdleScan
<1>2. ScanInv /\ [ClientNext]_clientVars => ScanInv'
  <2> SUFFICES ASSUME ScanInv, [ClientNext]_clientVars
               PROVE  ScanInv'
    OBVIOUS
  <2>1. CASE scan' = scan
    BY <2>1 DEF ScanInv, ScanTypeOK, Running
  <2>2. CASE scan' = IdleScan
    BY <2>2, IdleScanType DEF ScanInv, ScanTypeOK, Running, IdleScan
  <2>3. CASE ScanStep
    BY <2>3, ScanStepKeepsTypes
  <2>4. ASSUME NEW farm \in Farms, NEW lib \in Libraries, BeginScan(farm, lib)
        PROVE  ScanInv'
    <3>1. scan' = [IdleScan EXCEPT !.pc = "connect", !.path = "verified", !.farm = farm, !.lib = lib]
      BY <2>4 DEF BeginScan, Moves
    <3>2. scan' \in ScanType
      BY <3>1, IdleScanType DEF ScanType
    <3>3. scan'.farm = farm /\ scan'.path = "verified"
      BY <3>1, IdleScanType DEF ScanType
    <3>4. QED
      BY <3>2, <3>3 DEF ScanInv, ScanTypeOK, Running
  <2>5. QED
    BY <2>1, <2>2, <2>3, <2>4, ClientMovesScan DEF ScanOrReset, ScanNext
<1>3. QED
  BY <1>1, <1>2, PTL DEF ClientSpec

-----------------------------------------------------------------------------
(* What a step changes *)

\* Where a scan goes on; a step that ends it early leads to "done" or "raised".
Continues ==
    CASE scan.pc = "connect" -> scan'.pc \in {"connect", "versions", "done", "raised"}
      [] scan.pc = "versions" -> scan'.pc = Following("versions")
      [] scan.pc = "dns" -> scan'.pc \in {Following("dns"), "done", "raised"}
      [] scan.pc = "http" -> scan'.pc = Following("http")
      [] scan.pc = "ocsp" -> scan'.pc = "probe"
      [] scan.pc = "probe" -> scan'.pc \in {"probe again", "score"}
      [] scan.pc = "probe again" -> scan'.pc = "score"
      [] OTHER -> scan.pc = "score" /\ scan'.pc = "done"

Successes == {"success", "success_unverified", "success_legacy"}

\* Each field is written by the steps it belongs to, failures are only counted,
\* and no step but the last gives a status of success.
Framed ==
    /\ scan'.farm = scan.farm /\ scan'.lib = scan.lib
    /\ scan.pc # "connect" => /\ scan'.path = scan.path /\ scan'.version = scan.version
                              /\ scan'.suite = scan.suite /\ scan'.cert = scan.cert
    /\ \/ scan'.version = scan.version /\ scan'.suite = scan.suite
       \/ \E b \in scan.farm : \E v \in DOMAIN b.offers :
             /\ scan'.version = Negotiated(v) /\ scan'.suite = b.offers[v]
             /\ scan'.cert \in Certs(b) /\ scan'.pc = "versions"
    /\ scan.pc = "connect" /\ scan'.pc = "versions" =>
          \E b \in scan.farm : \E v \in DOMAIN b.offers :
             /\ scan'.version = Negotiated(v) /\ scan'.suite = b.offers[v]
             /\ scan'.cert \in Certs(b)
    /\ scan.pc # "versions" => scan'.supported = scan.supported
    /\ scan.pc = "versions" => \A v \in scan'.supported : \E b \in scan.farm : v \in DOMAIN b.offers
    /\ scan.pc # "http" => scan'.http = scan.http
    /\ scan'.http.hsts => scan.http.hsts \/ \E b \in scan.farm : b.hsts
    /\ scan.pc # "dns" => scan'.dns = scan.dns
    /\ scan.pc # "ocsp" => scan'.ocsp = scan.ocsp
    /\ scan.pc \notin {"probe", "probe again"} => scan'.kex = scan.kex
    /\ scan.pc # "score" => scan'.status = scan.status \/ scan'.status \notin Successes
    /\ scan.pc = "score" => scan'.status = Success[scan.path]

LEMMA Frames ==
    ASSUME ScanInv, ScanStep
    PROVE  Framed /\ Continues
<1>1. scan \in ScanType
  BY DEF ScanInv, ScanTypeOK
<1>2. ASSUME NEW new, Fails(new)
      PROVE  \E faults : scan' = [new EXCEPT !.faults = faults]
  <2>1. scan' = [new EXCEPT !.faults = new.faults + 1]
    BY <1>2 DEF Fails, Moves
  <2>2. QED
    BY <2>1
<1>3. ASSUME At("connect"), NEW b \in scan.farm, NEW allowed, NEW suites,
             Measures(b, Negotiates(b, allowed, suites))
      PROVE  Framed /\ Continues
  <2>1. PICK v, c :
          /\ v \in Negotiates(b, allowed, suites) /\ c \in Certs(b)
          /\ scan' = [scan EXCEPT !.pc = "versions", !.version = Negotiated(v), !.suite = b.offers[v],
                                  !.cert = c]
    BY <1>3 DEF Measures, Moves
  <2>2. v \in DOMAIN b.offers
    BY <1>3, <2>1, FarmsServe, Negotiation DEF At
  <2>3. /\ scan'.version = Negotiated(v) /\ scan'.suite = b.offers[v] /\ scan'.cert = c
        /\ scan'.pc = "versions" /\ scan'.http = scan.http
    BY <1>1, <2>1 DEF ScanType
  <2>4. QED
    BY <1>1, <1>3, <2>1, <2>2, <2>3 DEF At, Framed, Continues, ScanType
<1>4. ASSUME At("connect"), NEW path, NEW new, new = [scan EXCEPT !.path = path],
             Moves(new) \/ Fails(new)
      PROVE  Framed /\ Continues
  <2>1. PICK faults : scan' = [scan EXCEPT !.path = path, !.faults = faults]
    <3>1. CASE Moves(new)
      <4>1. scan' = [scan EXCEPT !.path = path, !.faults = scan.faults]
        BY <1>1, <1>4, <3>1 DEF Moves, ScanType
      <4>2. QED
        BY <4>1
    <3>2. CASE Fails(new)
      <4>1. PICK faults : scan' = [new EXCEPT !.faults = faults]
        BY <1>2, <3>2
      <4>2. scan' = [scan EXCEPT !.path = path, !.faults = faults]
        BY <4>1, <1>4
      <4>3. QED
        BY <4>2
    <3>3. QED
      BY <1>4, <3>1, <3>2
  <2>2. QED
    BY <1>1, <1>4, <2>1 DEF At, Framed, Continues, ScanType
<1>5. ASSUME At("connect") \/ At("dns"), NEW status, status \notin Successes, NEW new,
             new = [scan EXCEPT !.pc = "done", !.status = status] \/ new = [scan EXCEPT !.pc = "raised"],
             Moves(new) \/ Fails(new)
      PROVE  Framed /\ Continues
  <2>0. PICK pc \in {"done", "raised"} : \E last, faults :
           /\ last = status \/ last = scan.status
           /\ scan' = [scan EXCEPT !.pc = pc, !.status = last, !.faults = faults]
    <3>0. PICK pc \in {"done", "raised"} : \E last :
             /\ last = status \/ last = scan.status
             /\ new = [scan EXCEPT !.pc = pc, !.status = last]
      <4>1. CASE new = [scan EXCEPT !.pc = "done", !.status = status]
        BY <4>1
      <4>2. CASE new = [scan EXCEPT !.pc = "raised"]
        <5>1. new = [scan EXCEPT !.pc = "raised", !.status = scan.status]
          BY <1>1, <4>2 DEF ScanType
        <5>2. QED
          BY <5>1
      <4>3. QED
        BY <1>5, <4>1, <4>2
    <3>1. PICK last : /\ last = status \/ last = scan.status
                      /\ new = [scan EXCEPT !.pc = pc, !.status = last]
      BY <3>0
    <3>2. CASE Moves(new)
      <4>1. scan' = [scan EXCEPT !.pc = pc, !.status = last, !.faults = scan.faults]
        BY <1>1, <3>1, <3>2 DEF Moves, ScanType
      <4>2. QED
        BY <3>1, <4>1
    <3>3. CASE Fails(new)
      <4>1. PICK faults : scan' = [new EXCEPT !.faults = faults]
        BY <1>2, <3>3
      <4>2. scan' = [scan EXCEPT !.pc = pc, !.status = last, !.faults = faults]
        BY <3>1, <4>1
      <4>3. QED
        BY <3>1, <4>2
    <3>4. QED
      BY <1>5, <3>2, <3>3
  <2>1. PICK last, faults :
           /\ last = status \/ last = scan.status
           /\ scan' = [scan EXCEPT !.pc = pc, !.status = last, !.faults = faults]
    BY <2>0
  <2>2. QED
    BY <1>1, <1>5, <2>1 DEF At, Framed, Continues, ScanType
<1> DEFINE Honest == {"timeout", "dns_error", "connection_refused", "error"}
<1>6. Honest \cap Successes = {}
  BY DEF Successes
<1>7. CASE ConnectVerified
  BY <1>3, <1>4, <1>7 DEF ConnectVerified, Shakes
<1>8. CASE TlsError
  BY <1>4, <1>8 DEF TlsError
<1>9. CASE \E status \in Honest : ConnectionError(status)
  BY <1>5, <1>6, <1>9 DEF ConnectionError
<1>10. CASE ConnectLegacy
  BY <1>3, <1>5, <1>6, <1>10 DEF ConnectLegacy, ShakesLowered
<1>11. CASE ConnectUnverified
  BY <1>3, <1>5, <1>6, <1>11 DEF ConnectUnverified, Shakes
<1>12. CASE ProbeVersions
  <2>1. PICK vs, faults :
          /\ \A v \in vs : \E b \in scan.farm : Accepts(b, scan.lib, v)
          /\ scan' = [scan EXCEPT !.pc = Following("versions"), !.supported = vs, !.faults = faults]
    BY <1>12 DEF ProbeVersions, Moves
  <2>2. \A v \in vs : \E b \in scan.farm : v \in DOMAIN b.offers
    BY <2>1 DEF Accepts
  <2>3. QED
    BY <1>1, <1>12, <2>1, <2>2 DEF ProbeVersions, At, Framed, Continues, ScanType
<1>13. CASE LookUp
  <2>1. CASE \E dns, faults :
               scan' = [scan EXCEPT !.pc = Following("dns"), !.dns = dns, !.faults = faults]
    BY <1>1, <1>13, <2>1 DEF LookUp, At, Framed, Continues, ScanType
  <2>2. QED
    BY <1>5, <1>6, <1>13, <2>1 DEF LookUp, Moves
<1>14. CASE FetchHeaders
  <2>1. PICK http, faults :
          /\ http = scan.http \/ \E b \in scan.farm : http = [hsts |-> b.hsts, answered |-> TRUE]
          /\ scan' = [scan EXCEPT !.pc = Following("http"), !.http = http, !.faults = faults]
    <3>1. ASSUME NEW http, scan' = [scan EXCEPT !.pc = Following("http"), !.http = http]
          PROVE  \E faults :
                   scan' = [scan EXCEPT !.pc = Following("http"), !.http = http, !.faults = faults]
      <4>1. scan' = [scan EXCEPT !.pc = Following("http"), !.http = http, !.faults = scan.faults]
        BY <1>1, <3>1 DEF ScanType
      <4>2. QED
        BY <4>1
    <3>2. CASE \E b \in scan.farm : scan' = [scan EXCEPT !.pc = Following("http"),
                                                !.http = [hsts |-> b.hsts, answered |-> TRUE]]
      BY <3>1, <3>2
    <3>3. CASE scan' = [scan EXCEPT !.pc = Following("http")]
      <4>1. scan' = [scan EXCEPT !.pc = Following("http"), !.http = scan.http]
        BY <1>1, <3>3 DEF ScanType
      <4>2. QED
        BY <3>1, <4>1
    <3>4. CASE Fails([scan EXCEPT !.pc = Following("http")])
      <4>1. PICK faults : scan' = [[scan EXCEPT !.pc = Following("http")] EXCEPT !.faults = faults]
        BY <1>2, <3>4
      <4>2. scan' = [scan EXCEPT !.pc = Following("http"), !.http = scan.http, !.faults = faults]
        BY <1>1, <4>1 DEF ScanType
      <4>3. QED
        BY <4>2
    <3>5. QED
      BY <1>14, <3>2, <3>3, <3>4 DEF FetchHeaders, Moves
  <2>2. http.hsts => scan.http.hsts \/ \E b \in scan.farm : b.hsts
    BY <2>1
  <2>3. QED
    BY <1>1, <1>14, <2>1, <2>2 DEF FetchHeaders, At, Framed, Continues, ScanType
<1>15. CASE AskResponder
  <2>1. PICK pc, ocsp, new :
           /\ pc = "probe"
           /\ new = [scan EXCEPT !.pc = pc, !.ocsp = ocsp]
           /\ Moves(new) \/ Fails(new)
    <3>1. PICK issuer, answer, new :
             /\ new = [scan EXCEPT !.pc = "probe",
                                   !.ocsp = CheckOcsp(scan.cert.ocspUrl, issuer, answer)]
             /\ Moves(new) \/ Fails(new)
      BY <1>15 DEF AskResponder
    <3>2. QED
      BY <3>1
  <2>2. PICK faults : scan' = [scan EXCEPT !.pc = pc, !.ocsp = ocsp, !.faults = faults]
    <3>1. CASE Moves(new)
      <4>1. scan' = [scan EXCEPT !.pc = pc, !.ocsp = ocsp, !.faults = scan.faults]
        BY <1>1, <2>1, <3>1 DEF Moves, ScanType
      <4>2. QED
        BY <4>1
    <3>2. CASE Fails(new)
      <4>1. PICK faults : scan' = [new EXCEPT !.faults = faults]
        BY <1>2, <3>2
      <4>2. scan' = [scan EXCEPT !.pc = pc, !.ocsp = ocsp, !.faults = faults]
        BY <4>1, <2>1
      <4>3. QED
        BY <4>2
    <3>3. QED
      BY <2>1, <3>1, <3>2
  <2>3. QED
    BY <1>1, <1>15, <2>1, <2>2 DEF AskResponder, At, Framed, Continues, ScanType
<1>16. CASE ProbeGroups
  <2>20. PICK pc \in {"probe again", "score"} : \E kex, new :
           /\ new = [scan EXCEPT !.pc = pc, !.kex = kex]
           /\ Moves(new) \/ Fails(new)
    <3>1. PICK r, new :
             /\ new = [scan EXCEPT !.pc = IF AsksAgain(AfterPrimary(r)) THEN "probe again" ELSE "score",
                                   !.kex = AfterPrimary(r)]
             /\ Moves(new) \/ Fails(new)
      BY <1>16 DEF ProbeGroups
    <3>2. CASE AsksAgain(AfterPrimary(r))
      <4>1. new = [scan EXCEPT !.pc = "probe again", !.kex = AfterPrimary(r)]
        BY <3>1, <3>2
      <4>2. QED
        BY <3>1, <4>1
    <3>3. CASE ~AsksAgain(AfterPrimary(r))
      <4>1. new = [scan EXCEPT !.pc = "score", !.kex = AfterPrimary(r)]
        BY <3>1, <3>3
      <4>2. QED
        BY <3>1, <4>1
    <3>4. QED
      BY <3>2, <3>3
  <2>1. PICK kex, new :
           /\ new = [scan EXCEPT !.pc = pc, !.kex = kex]
           /\ Moves(new) \/ Fails(new)
    BY <2>20
  <2>2. PICK faults : scan' = [scan EXCEPT !.pc = pc, !.kex = kex, !.faults = faults]
    <3>1. CASE Moves(new)
      <4>1. scan' = [scan EXCEPT !.pc = pc, !.kex = kex, !.faults = scan.faults]
        BY <1>1, <2>1, <3>1 DEF Moves, ScanType
      <4>2. QED
        BY <4>1
    <3>2. CASE Fails(new)
      <4>1. PICK faults : scan' = [new EXCEPT !.faults = faults]
        BY <1>2, <3>2
      <4>2. scan' = [scan EXCEPT !.pc = pc, !.kex = kex, !.faults = faults]
        BY <4>1, <2>1
      <4>3. QED
        BY <4>2
    <3>3. QED
      BY <2>1, <3>1, <3>2
  <2>3. QED
    BY <1>1, <1>16, <2>1, <2>2 DEF ProbeGroups, At, Framed, Continues, ScanType
<1>17. CASE ProbePqcGroups
  <2>1. PICK pc, kex, new :
           /\ pc = "score"
           /\ new = [scan EXCEPT !.pc = pc, !.kex = kex]
           /\ Moves(new) \/ Fails(new)
    <3>1. PICK r, new : /\ new = [scan EXCEPT !.pc = "score", !.kex = AfterSecondary(scan.kex, r)]
                        /\ Moves(new) \/ Fails(new)
      BY <1>17 DEF ProbePqcGroups
    <3>2. QED
      BY <3>1
  <2>2. PICK faults : scan' = [scan EXCEPT !.pc = pc, !.kex = kex, !.faults = faults]
    <3>1. CASE Moves(new)
      <4>1. scan' = [scan EXCEPT !.pc = pc, !.kex = kex, !.faults = scan.faults]
        BY <1>1, <2>1, <3>1 DEF Moves, ScanType
      <4>2. QED
        BY <4>1
    <3>2. CASE Fails(new)
      <4>1. PICK faults : scan' = [new EXCEPT !.faults = faults]
        BY <1>2, <3>2
      <4>2. scan' = [scan EXCEPT !.pc = pc, !.kex = kex, !.faults = faults]
        BY <4>1, <2>1
      <4>3. QED
        BY <4>2
    <3>3. QED
      BY <2>1, <3>1, <3>2
  <2>3. QED
    BY <1>1, <1>17, <2>1, <2>2 DEF ProbePqcGroups, At, Framed, Continues, ScanType
<1>18. CASE Report
  BY <1>1, <1>18 DEF Report, At, Framed, Continues, ScanType, Moves
<1>19. QED
  BY <1>7, <1>8, <1>9, <1>10, <1>11, <1>12, <1>13, <1>14, <1>15, <1>16, <1>17, <1>18 DEF ScanStep

\* A scan that is idle or has just begun.
Fresh ==
    /\ scan.pc = "idle" \/ (scan.pc = "connect" /\ scan.path = "verified")
    /\ scan.status = "unknown" /\ scan.version = "none" /\ scan.suite = NoSuite
    /\ scan.dns = NoDns /\ scan.ocsp = NotChecked /\ scan.kex = Nothing
    /\ scan.http = NoHttp /\ scan.supported = {}

\* What holds of a fresh scan and is kept by its steps always holds.
LEMMA FreshOrStep ==
    /\ ClientInit => Fresh
    /\ ScanInv /\ [ClientNext]_clientVars => scan' = scan \/ Fresh' \/ ScanStep
<1>1. scan = IdleScan => Fresh
  BY DEF IdleScan, Fresh
<1>2. scan' = IdleScan => Fresh'
  BY DEF IdleScan, Fresh
<1>3. ASSUME NEW farm \in Farms, NEW lib \in Libraries, BeginScan(farm, lib)
      PROVE  Fresh'
  <2>1. scan' = [IdleScan EXCEPT !.pc = "connect", !.path = "verified", !.farm = farm, !.lib = lib]
    BY <1>3 DEF BeginScan, Moves
  <2>2. scan'.pc = "connect" /\ scan'.path = "verified"
    BY <2>1 DEF IdleScan
  <2>3. scan'.status = "unknown" /\ scan'.version = "none" /\ scan'.suite = NoSuite
    BY <2>1 DEF IdleScan
  <2>4. scan'.dns = NoDns /\ scan'.ocsp = NotChecked /\ scan'.kex = Nothing
    BY <2>1 DEF IdleScan
  <2>5. scan'.http = NoHttp /\ scan'.supported = {}
    BY <2>1 DEF IdleScan
  <2>6. QED
    BY <2>2, <2>3, <2>4, <2>5 DEF Fresh
<1>4. QED
  BY <1>1, <1>2, <1>3, ClientMovesScan DEF ScanOrReset, ScanNext, ClientInit, ScanInit

-----------------------------------------------------------------------------
(* A broken suite *)

\* The suite of a report is one the server offers for the version of the report.
SuiteOfVersion ==
    /\ scan.version = "TLSv1.3" => {"TLS_AES", "TLS_CHACHA"} \cap scan.suite.marks # {}
    /\ scan.version = "none" => scan.suite = NoSuite

Broken == {"RC4", "NULL", "DES", "MD5"}

\* No suite of TLS 1.3 is broken.
LEMMA ModernSuites ==
    ASSUME NEW s \in Suites, {"TLS_AES", "TLS_CHACHA"} \cap s.marks # {}
    PROVE  Broken \cap s.marks = {}
<1>1. CASE s \in OtherSuites
  BY <1>1 DEF OtherSuites, Unlisted, Broken
<1>2. CASE s \in CIPHER_DB
  BY <1>2 DEF CIPHER_DB, Listed, Broken
<1>3. QED
  BY <1>1, <1>2 DEF Suites

\* Each mark of a broken suite has an entry for every version below TLS 1.3.
LEMMA BrokenIsKnown ==
    ASSUME NEW s, Broken \cap s.marks # {}, NEW supported, NEW version,
           {"TLSv1.0", "TLSv1.1", "TLSv1.2"} \cap (supported \cup {version}) # {}
    PROVE  CheckVulnerabilities(s, version, supported) \ {"HNDL"} # {}
<1> DEFINE below13 == {"TLSv1.0", "TLSv1.1", "TLSv1.2"}
           all == supported \cup {version}
<1>1. ASSUME NEW v \in KNOWN_VULNS, v.affects \cap all # {}, v.marks \cap s.marks # {}, v.name # "HNDL"
      PROVE  CheckVulnerabilities(s, version, supported) \ {"HNDL"} # {}
  <2>1. v.name \in CheckVulnerabilities(s, version, supported)
    BY <1>1 DEF CheckVulnerabilities
  <2>2. QED
    BY <1>1, <2>1
<1>2. CASE "RC4" \in s.marks
  <2> DEFINE v == [name |-> "RC4_BIASES", affects |-> below13, marks |-> {"RC4"}]
  <2>1. v \in KNOWN_VULNS
    BY DEF KNOWN_VULNS
  <2>2. QED
    BY <1>1, <1>2, <2>1
<1>3. CASE "NULL" \in s.marks
  <2> DEFINE v == [name |-> "NULL_CIPHER", affects |-> Versions, marks |-> {"NULL"}]
  <2>1. v \in KNOWN_VULNS
    BY DEF KNOWN_VULNS
  <2>2. v.affects \cap all # {}
    BY DEF Versions
  <2>3. QED
    BY <1>1, <1>3, <2>1, <2>2
<1>4. CASE "DES" \in s.marks
  <2> DEFINE v == [name |-> "SWEET32", affects |-> below13, marks |-> {"3DES", "DES"}]
  <2>1. v \in KNOWN_VULNS
    BY DEF KNOWN_VULNS
  <2>2. QED
    BY <1>1, <1>4, <2>1
<1>5. CASE "MD5" \in s.marks
  <2> DEFINE v == [name |-> "MD5_HASH", affects |-> below13, marks |-> {"MD5"}]
  <2>1. v \in KNOWN_VULNS
    BY DEF KNOWN_VULNS
  <2>2. QED
    BY <1>1, <1>5, <2>1
<1>6. QED
  BY <1>2, <1>3, <1>4, <1>5 DEF Broken

LEMMA SuiteStep ==
    ASSUME ScanInv, SuiteOfVersion, ScanStep
    PROVE  SuiteOfVersion'
<1>1. CASE scan'.version = scan.version /\ scan'.suite = scan.suite
  BY <1>1 DEF SuiteOfVersion
<1>2. ASSUME NEW b \in scan.farm, NEW v \in DOMAIN b.offers,
             scan'.version = Negotiated(v) /\ scan'.suite = b.offers[v]
      PROVE  SuiteOfVersion'
  <2>1. scan.pc # "idle"
    BY Frames DEF Continues
  <2>2. b \in Servers /\ v \in Versions
    BY <2>1, FarmsServe
  <2>3. v = "TLSv1.3" => {"TLS_AES", "TLS_CHACHA"} \cap b.offers[v].marks # {}
    BY <2>2, ScanFlowAssumption
  <2>4. Negotiated(v) # "none" /\ (Negotiated(v) = "TLSv1.3" => v = "TLSv1.3")
    BY <2>2 DEF Negotiated, Versions
  <2>5. QED
    BY <1>2, <2>3, <2>4 DEF SuiteOfVersion
<1>3. QED
  BY <1>1, <1>2, Frames DEF Framed

\* scanner_service.py:465: a suite that is broken brings a vulnerability of its
\* own; only a handshake called "TLSv1" may bring none.
THEOREM BrokenFlagged == ClientSpec => []BrokenSuiteIsFlagged
<1>1. Fresh => SuiteOfVersion
  BY DEF Fresh, SuiteOfVersion
<1>2. ClientInit => SuiteOfVersion
  BY <1>1, FreshOrStep
<1>3. ScanInv /\ SuiteOfVersion /\ [ClientNext]_clientVars => SuiteOfVersion'
  <2> SUFFICES ASSUME ScanInv, SuiteOfVersion, [ClientNext]_clientVars
               PROVE  SuiteOfVersion'
    OBVIOUS
  <2>1. CASE scan' = scan
    BY <2>1 DEF SuiteOfVersion
  <2>2. CASE Fresh'
    BY <2>2 DEF Fresh, SuiteOfVersion
  <2>3. QED
    BY <2>1, <2>2, SuiteStep, FreshOrStep
<1>4. ScanInv /\ SuiteOfVersion => BrokenSuiteIsFlagged
  <2> SUFFICES ASSUME ScanInv, SuiteOfVersion, Broken \cap scan.suite.marks # {},
                      ~(scan.version = "TLSv1" /\ scan.supported \subseteq {"TLSv1.3"})
               PROVE  Vulnerabilities \ {"HNDL"} # {}
    BY DEF BrokenSuiteIsFlagged, Broken
  <2>1. /\ scan.suite \in Suites \cup {NoSuite}
        /\ scan.version \in {Negotiated(v) : v \in Versions} \cup {"none"}
        /\ scan.supported \in SUBSET Versions
    BY DEF ScanInv, ScanTypeOK, ScanType
  <2>2. scan.suite # NoSuite
    BY DEF NoSuite, Unlisted
  <2>3. scan.version \in {"TLSv1.3", "TLSv1.2", "TLSv1.1", "TLSv1"}
    BY <2>1, <2>2 DEF SuiteOfVersion, Negotiated, Versions
  <2>4. scan.version # "TLSv1.3"
    BY <2>1, <2>2, ModernSuites DEF SuiteOfVersion
  <2>5. {"TLSv1.0", "TLSv1.1", "TLSv1.2"} \cap (scan.supported \cup {scan.version}) # {}
    BY <2>1, <2>3, <2>4 DEF Versions
  <2>6. QED
    BY <2>5, BrokenIsKnown DEF Vulnerabilities
<1>5. QED
  BY <1>2, <1>3, <1>4, ScanTypes, PTL DEF ClientSpec

-----------------------------------------------------------------------------
(* The causes of a failure *)

\* Failures are counted, never forgotten.
LEMMA FaultsGrow ==
    ASSUME ScanInv, ScanStep
    PROVE  scan.faults \in Nat /\ \E n \in Nat : scan'.faults = scan.faults + n
<1> DEFINE Grown == \E n \in Nat : scan'.faults = scan.faults + n
<1>1. scan \in ScanType
  BY DEF ScanInv, ScanTypeOK
<1>2. scan.faults \in Nat
  <2>1. scan.faults \in 0..MaxFaults /\ MaxFaults \in Nat
    BY <1>1, ScanFlowAssumption DEF ScanType
  <2>2. QED
    BY <2>1
<1>3. ASSUME scan'.faults = scan.faults
      PROVE  Grown
  <2>1. scan'.faults = scan.faults + 0
    BY <1>2, <1>3
  <2>2. QED
    BY <2>1
<1>20. ASSUME scan'.faults = scan.faults + 1
       PROVE  Grown
  BY <1>20
<1>21. ASSUME NEW n \in Nat, scan'.faults = scan.faults + n
       PROVE  Grown
  BY <1>21
<1>22. SUFFICES Grown
  BY <1>2
<1> HIDE DEF Grown
<1>4. ASSUME NEW new, "faults" \in DOMAIN new, new.faults = scan.faults, Moves(new) \/ Fails(new)
      PROVE  Grown
  <2>1. CASE Moves(new)
    BY <1>3, <1>4, <2>1 DEF Moves
  <2>2. CASE Fails(new)
    <3>1. scan' = [new EXCEPT !.faults = new.faults + 1]
      BY <2>2 DEF Fails, Moves
    <3>2. scan'.faults = scan.faults + 1
      BY <1>4, <3>1
    <3>3. QED
      BY <1>20, <3>2
  <2>3. QED
    BY <1>4, <2>1, <2>2
<1>5. ASSUME NEW b, NEW versions, Measures(b, versions)
      PROVE  scan'.faults = scan.faults
  <2>1. PICK version, suite, c :
          scan' = [scan EXCEPT !.pc = "versions", !.version = version, !.suite = suite, !.cert = c]
    BY <1>5 DEF Measures, Moves
  <2>2. QED
    BY <1>1, <2>1 DEF ScanType
<1>6. ASSUME NEW pc, NEW status, NEW path,
             NEW new \in {[scan EXCEPT !.path = path], [scan EXCEPT !.pc = pc],
                          [scan EXCEPT !.pc = pc, !.status = status]}
      PROVE  "faults" \in DOMAIN new /\ new.faults = scan.faults
  BY <1>1, <1>6 DEF ScanType
<1>7. CASE ConnectVerified
  BY <1>3, <1>4, <1>5, <1>6, <1>7 DEF ConnectVerified
<1>8. CASE TlsError
  BY <1>4, <1>6, <1>8 DEF TlsError
<1>9. ASSUME NEW status, ConnectionError(status)
      PROVE  Grown
  BY <1>4, <1>6, <1>9 DEF ConnectionError
<1>10. CASE ConnectLegacy
  BY <1>3, <1>4, <1>5, <1>6, <1>10 DEF ConnectLegacy
<1>11. CASE ConnectUnverified
  BY <1>3, <1>4, <1>5, <1>6, <1>11 DEF ConnectUnverified
<1>12. CASE ProbeVersions
  <2>1. PICK missed \in SUBSET Versions : \E vs :
            scan' = [scan EXCEPT !.pc = Following("versions"), !.supported = vs,
                                 !.faults = @ + Cardinality(missed)]
    BY <1>12 DEF ProbeVersions, Moves
  <2> DEFINE n == Cardinality(missed)
  <2>2. n \in Nat
    <3>1. Versions = {"TLSv1.3"} \cup {"TLSv1.2"} \cup {"TLSv1.1"} \cup {"TLSv1.0"}
      BY DEF Versions
    <3>2. IsFiniteSet(Versions)
      BY <3>1, FS_Singleton, FS_Union
    <3>3. QED
      BY <2>1, <3>2, FS_Subset, FS_CardinalityType
  <2>3. scan'.faults = scan.faults + n
    BY <1>1, <2>1 DEF ScanType
  <2>4. QED
    BY <1>21, <2>2, <2>3
<1>13. CASE LookUp
  <2>1. CASE Fails([scan EXCEPT !.pc = "raised"]) \/ Fails([scan EXCEPT !.pc = "done", !.status = "error"])
    BY <1>4, <1>6, <2>1
  <2>2. CASE \E z \in Zones, lost \in {{}} \cup {{q} : q \in Queries} :
               LET answers == [q \in Queries |-> IF q \in lost THEN "failed"
                                                 ELSE IF q \in z.has THEN "records" ELSE "none"]
               IN /\ scan.faults + Cardinality(lost) <= MaxFaults
                  /\ Moves([scan EXCEPT !.pc = Following("dns"), !.dns = CheckDns(answers, z.ad),
                                        !.faults = @ + Cardinality(lost)])
    <3>1. PICK z, lost, answers :
            /\ lost \in {{}} \cup {{q} : q \in Queries}
            /\ scan' = [scan EXCEPT !.pc = Following("dns"), !.dns = CheckDns(answers, z.ad),
                                    !.faults = @ + Cardinality(lost)]
      BY <2>2 DEF Moves
    <3>2. Cardinality(lost) \in Nat
      <4>1. \A q : Cardinality({q}) = 1
        BY FS_Singleton
      <4>2. Cardinality({}) = 0
        BY FS_EmptySet
      <4>3. CASE lost = {}
        BY <4>2, <4>3
      <4>4. CASE lost # {}
        <5>1. PICK q : lost = {q}
          BY <3>1, <4>4
        <5>2. QED
          BY <4>1, <5>1
      <4>5. QED
        BY <4>3, <4>4
    <3>3. scan'.faults = scan.faults + Cardinality(lost)
      BY <1>1, <3>1 DEF ScanType
    <3>4. QED
      BY <1>21, <3>2, <3>3
  <2>3. QED
    BY <1>13, <2>1, <2>2 DEF LookUp
<1>14. CASE FetchHeaders
  <2>1. PICK new : /\ \/ new = [scan EXCEPT !.pc = Following("http")]
                      \/ \E b \in scan.farm :
                            new = [scan EXCEPT !.pc = Following("http"),
                                               !.http = [hsts |-> b.hsts, answered |-> TRUE]]
                   /\ Moves(new) \/ Fails(new)
    BY <1>14 DEF FetchHeaders
  <2>2. ASSUME NEW b, new = [scan EXCEPT !.pc = Following("http"),
                                         !.http = [hsts |-> b.hsts, answered |-> TRUE]]
        PROVE  "faults" \in DOMAIN new /\ new.faults = scan.faults
    <3>1. PICK http : new = [scan EXCEPT !.pc = Following("http"), !.http = http]
      BY <2>2
    <3>2. QED
      BY <1>1, <3>1 DEF ScanType
  <2>3. QED
    BY <1>4, <1>6, <2>1, <2>2
<1>15. CASE AskResponder
  <2>1. PICK issuer, answer, new :
           /\ new = [scan EXCEPT !.pc = "probe",
                                 !.ocsp = CheckOcsp(scan.cert.ocspUrl, issuer, answer)]
           /\ Moves(new) \/ Fails(new)
    BY <1>15 DEF AskResponder
  <2>2. "faults" \in DOMAIN new /\ new.faults = scan.faults
    BY <1>1, <2>1 DEF ScanType
  <2>3. QED
    BY <1>4, <2>1, <2>2
<1>16. CASE ProbeGroups
  <2>1. PICK r, new :
           /\ new = [scan EXCEPT !.pc = IF AsksAgain(AfterPrimary(r)) THEN "probe again" ELSE "score",
                                 !.kex = AfterPrimary(r)]
           /\ Moves(new) \/ Fails(new)
    BY <1>16 DEF ProbeGroups
  <2>2. "faults" \in DOMAIN new /\ new.faults = scan.faults
    BY <1>1, <2>1 DEF ScanType
  <2>3. QED
    BY <1>4, <2>1, <2>2
<1>17. CASE ProbePqcGroups
  <2>1. PICK r, new : /\ new = [scan EXCEPT !.pc = "score", !.kex = AfterSecondary(scan.kex, r)]
                      /\ Moves(new) \/ Fails(new)
    BY <1>17 DEF ProbePqcGroups
  <2>2. "faults" \in DOMAIN new /\ new.faults = scan.faults
    BY <1>1, <2>1 DEF ScanType
  <2>3. QED
    BY <1>4, <2>1, <2>2
<1>18. CASE Report
  BY <1>4, <1>6, <1>18 DEF Report
<1>19. QED
  BY <1>7, <1>8, <1>9, <1>10, <1>11, <1>12, <1>13, <1>14, <1>15, <1>16, <1>17, <1>18 DEF ScanStep

\* The handshake without verification is tried because one with it completed.
Causes ==
    /\ scan.pc = "connect" /\ scan.path = "unverified" /\ Undisturbed =>
          \E b \in scan.farm : Shakes(b, scan.lib) # {}
    /\ FailureHasACause

LEMMA CausesStep ==
    ASSUME ScanInv, Causes, ScanStep
    PROVE  Causes'
<1>1. scan \in ScanType /\ scan.pc # "idle" /\ scan.farm \in Farms
  BY Frames DEF ScanInv, ScanTypeOK, Running, Continues
<1>2. Framed /\ Continues
  BY Frames
<1>3. SUFFICES ASSUME Undisturbed', scan'.pc \in {"connect", "done", "raised"}
               PROVE  Causes'
  BY DEF Causes, FailureHasACause
<1>4. Undisturbed
  <2>1. scan.faults = 0
    BY <1>3, FaultsGrow DEF Undisturbed
  <2>2. QED
    BY <1>2, <1>3, <2>1 DEF Undisturbed, Alone, Framed
<1>5. \A a, b \in scan.farm : a = b
  <2>1. IsFiniteSet(scan.farm) /\ Cardinality(scan.farm) = 1
    BY <1>1, <1>4, ScanFlowAssumption DEF Undisturbed, Alone
  <2>2. QED
    BY <2>1, FS_Singleton
<1>6. ASSUME NEW new, "faults" \in DOMAIN new, new.faults = scan.faults, Fails(new)
      PROVE  FALSE
  <2>1. scan' = [new EXCEPT !.faults = new.faults + 1]
    BY <1>6 DEF Fails, Moves
  <2>2. scan'.faults = scan.faults + 1
    BY <1>6, <2>1
  <2>3. scan.faults = 0 /\ scan'.faults = 0
    BY <1>3, <1>4 DEF Undisturbed
  <2>4. QED
    BY <2>2, <2>3
<1>7. ASSUME NEW pc, NEW status, NEW path,
             NEW new \in {[scan EXCEPT !.path = path], [scan EXCEPT !.pc = pc],
                          [scan EXCEPT !.pc = pc, !.status = status]}
      PROVE  "faults" \in DOMAIN new /\ new.faults = scan.faults
  BY <1>1, <1>7 DEF ScanType
<1>8. ASSUME NEW b, NEW versions, Measures(b, versions)
      PROVE  FALSE
  <2>1. PICK version, suite, c :
          scan' = [scan EXCEPT !.pc = "versions", !.version = version, !.suite = suite, !.cert = c]
    BY <1>8 DEF Measures, Moves
  <2>2. scan'.pc = "versions"
    BY <1>1, <2>1 DEF ScanType
  <2>3. QED
    BY <1>3, <2>2
<1>9. CASE ConnectVerified
  <2>1. PICK b \in scan.farm : Shakes(b, scan.lib) # {} /\ Moves([scan EXCEPT !.path = "unverified"])
    BY <1>8, <1>9 DEF ConnectVerified
  <2>2. scan'.pc = "connect"
    BY <1>1, <1>9, <2>1 DEF ScanType, Moves, ConnectVerified, At
  <2>3. QED
    BY <1>2, <2>1, <2>2 DEF Causes, FailureHasACause, Framed
<1>10. CASE TlsError
  <2>1. Moves([scan EXCEPT !.path = "legacy"])
    BY <1>6, <1>7, <1>10 DEF TlsError, Fallback
  <2>2. scan'.path = "legacy" /\ scan'.pc = "connect"
    BY <1>1, <1>10, <2>1 DEF ScanType, Moves, TlsError, At
  <2>3. QED
    BY <2>2 DEF Causes, FailureHasACause
<1>11. ASSUME NEW status, ConnectionError(status)
       PROVE  FALSE
  BY <1>6, <1>7, <1>11 DEF ConnectionError
<1>12. CASE ConnectLegacy
  <2>1. PICK b \in scan.farm : /\ ShakesLowered(b, scan.lib) = {}
                               /\ Moves([scan EXCEPT !.pc = "done", !.status = "error"])
    BY <1>6, <1>7, <1>8, <1>12 DEF ConnectLegacy
  <2>2. DOMAIN b.offers \subseteq Versions
    BY <1>1, FarmsServe
  <2>3. \A v \in DOMAIN b.offers : b.offers[v] \notin scan.lib.lowered
    BY <2>1, <2>2, Negotiation DEF ShakesLowered
  <2>4. scan'.pc = "done"
    BY <1>1, <2>1 DEF ScanType, Moves
  <2>5. QED
    BY <1>2, <1>5, <2>3, <2>4 DEF Causes, FailureHasACause, Framed
<1>13. CASE ConnectUnverified
  <2>1. \E b \in scan.farm : Shakes(b, scan.lib) = {}
    BY <1>6, <1>7, <1>8, <1>13 DEF ConnectUnverified
  <2>2. \E b \in scan.farm : Shakes(b, scan.lib) # {}
    BY <1>4, <1>13 DEF Causes, ConnectUnverified, At
  <2>3. QED
    BY <1>5, <2>1, <2>2
<1>14. CASE LookUp
  <2>1. CASE Fails([scan EXCEPT !.pc = "raised"]) \/ Fails([scan EXCEPT !.pc = "done", !.status = "error"])
    BY <1>6, <1>7, <2>1
  <2>2. CASE \E z \in Zones, lost \in {{}} \cup {{q} : q \in Queries} :
               LET answers == [q \in Queries |-> IF q \in lost THEN "failed"
                                                 ELSE IF q \in z.has THEN "records" ELSE "none"]
               IN /\ scan.faults + Cardinality(lost) <= MaxFaults
                  /\ Moves([scan EXCEPT !.pc = Following("dns"), !.dns = CheckDns(answers, z.ad),
                                        !.faults = @ + Cardinality(lost)])
    <3>1. PICK z, lost, answers :
            scan' = [scan EXCEPT !.pc = Following("dns"), !.dns = CheckDns(answers, z.ad),
                                 !.faults = @ + Cardinality(lost)]
      BY <2>2 DEF Moves
    <3>2. scan'.pc = Following("dns")
      BY <1>1, <3>1 DEF ScanType
    <3>3. QED
      BY <1>3, <3>2 DEF Following
  <2>3. QED
    BY <1>14, <2>1, <2>2 DEF LookUp
<1>15. CASE Report
  <2>1. scan.pc = "score" /\ scan'.status = Success[scan.path] /\ scan'.pc = "done"
    BY <1>2, <1>15 DEF Report, At, Framed, Continues
  <2>2. scan.path \in {"verified", "unverified", "legacy"}
    BY <1>1 DEF ScanInv, Running, ScanType
  <2>3. Success[scan.path] \in {"success", "success_unverified", "success_legacy"}
    BY <2>2 DEF Success
  <2>4. QED
    BY <2>1, <2>3 DEF Causes, FailureHasACause, Reported
<1>16. CASE scan.pc \in {"versions", "http", "ocsp", "probe", "probe again"}
  BY <1>2, <1>3, <1>16 DEF Continues, Following
<1>17. QED
  BY <1>9, <1>10, <1>11, <1>12, <1>13, <1>14, <1>15, <1>16 DEF ScanStep, ProbeVersions,
     FetchHeaders, AskResponder, ProbeGroups, ProbePqcGroups, At

\* scanner_service.py:963: a scan of one back end that no failed connection
\* disturbs ends with a report, unless no suite of the back end is accepted even
\* by the lowered context.
THEOREM FailuresHaveCauses == ClientSpec => []FailureHasACause
<1>1. Fresh => Causes
  BY DEF Fresh, Causes, FailureHasACause
<1>2. ClientInit => Causes
  BY <1>1, FreshOrStep
<1>3. ScanInv /\ Causes /\ [ClientNext]_clientVars => Causes'
  <2> SUFFICES ASSUME ScanInv, Causes, [ClientNext]_clientVars
               PROVE  Causes'
    OBVIOUS
  <2>1. CASE scan' = scan
    BY <2>1 DEF Causes, FailureHasACause, Undisturbed, Alone, Reported
  <2>2. CASE Fresh'
    BY <2>2 DEF Fresh, Causes, FailureHasACause
  <2>3. QED
    BY <2>1, <2>2, CausesStep, FreshOrStep
<1>4. Causes => FailureHasACause
  BY DEF Causes
<1>5. QED
  BY <1>2, <1>3, <1>4, ScanTypes, PTL DEF ClientSpec

-----------------------------------------------------------------------------
(* The post-quantum verdict *)

\* A server is asked with every group: it names its first one.
LEMMA FirstProbe ==
    ASSUME NEW b \in Servers
    PROVE  LET kex == AfterPrimary(Answers(b, ALL_GROUPS))
           IN  /\ kex.isPqc <=> Prefers(b)
               /\ AsksAgain(kex) <=> Offers13(b) /\ ~Prefers(b)
               /\ ~AsksAgain(kex) => (kex.pqcSupported <=> Supports(b))
<1> DEFINE r == Answers(b, ALL_GROUPS)
           kex == AfterPrimary(r)
<1>1. b.groups \in Seq(ALL_GROUPS)
  BY ScanFlowAssumption
<1>2. CASE Offers13(b)
  <2>1. Len(b.groups) \in Nat /\ Len(b.groups) >= 1
    BY <1>1, <1>2 DEF Offers13
  <2>2. 1 \in 1..Len(b.groups) /\ \A i \in 1..Len(b.groups) : b.groups[i] \in ALL_GROUPS
    BY <1>1, <2>1
  <2>3. r = <<ServerHello(b.groups[1]), ChangeCipherSpec>>
    <3>1. r # <<Alert>>
      <4>1. \E i \in 1..Len(b.groups) : b.groups[i] \in ALL_GROUPS
        BY <2>2
      <4>2. "TLSv1.3" \in DOMAIN b.offers
        BY <1>2 DEF Offers13
      <4>3. PICK i \in 1..Len(b.groups) : r = <<ServerHello(b.groups[i]), ChangeCipherSpec>>
        BY <4>1, <4>2, Answered
      <4>4. Len(<<ServerHello(b.groups[i]), ChangeCipherSpec>>) = 2 /\ Len(<<Alert>>) = 1
        OBVIOUS
      <4>5. QED
        BY <4>3, <4>4
    <3>2. PICK i \in 1..Len(b.groups) :
            /\ \A j \in 1..Len(b.groups) : b.groups[j] \in ALL_GROUPS => i <= j
            /\ r = <<ServerHello(b.groups[i]), ChangeCipherSpec>>
      BY <3>1, Answered
    <3>3. i = 1
      BY <2>2, <3>2
    <3>4. QED
      BY <3>2, <3>3
  <2>4. Probe(r) = ServerHello(b.groups[1])
    BY <2>3, ProbeOfHello
  <2>5. b.groups[1] # NoGroup
    BY <2>2 DEF ALL_GROUPS, PQC_GROUPS, CLASSICAL_GROUPS, NoGroup
  <2>6. Probe(r).type = "hello" /\ Probe(r).group = b.groups[1]
    BY <2>4 DEF ServerHello
  <2> HIDE DEF r
  <2>7. kex = [Nothing EXCEPT !.tls13 = TRUE, !.group = b.groups[1],
                 !.isPqc = b.groups[1] \in PQC_GROUPS, !.pqcSupported = b.groups[1] \in PQC_GROUPS]
    BY <2>5, <2>6 DEF AfterPrimary
  <2>8. PICK pqc \in BOOLEAN : pqc <=> b.groups[1] \in PQC_GROUPS
    OBVIOUS
  <2>9. kex.tls13 = TRUE /\ (kex.isPqc <=> pqc) /\ (kex.pqcSupported <=> pqc)
    <3>1. pqc = (b.groups[1] \in PQC_GROUPS)
      BY <2>8
    <3>2. kex = [Nothing EXCEPT !.tls13 = TRUE, !.group = b.groups[1],
                   !.isPqc = pqc, !.pqcSupported = pqc]
      BY <2>7, <3>1
    <3>3. QED
      BY <3>2 DEF Nothing
  <2> HIDE DEF kex
  <2>10. pqc <=> Prefers(b)
    BY <1>2, <2>8 DEF Prefers
  <2>11. pqc => Supports(b)
    BY <1>2, <2>2, <2>8 DEF Supports
  <2>12. QED
    BY <1>2, <2>9, <2>10, <2>11 DEF AsksAgain, kex, r
<1>3. CASE ~Offers13(b)
  <2>1. r = <<Alert>>
    <3>1. CASE "TLSv1.3" \notin DOMAIN b.offers
      BY <3>1, Answered
    <3>2. CASE b.groups = <<>>
      <4>1. 1..Len(b.groups) = {}
        BY <3>2
      <4>2. QED
        BY <4>1, Answered
    <3>3. QED
      BY <1>3, <3>1, <3>2 DEF Offers13
  <2>2. Probe(r).type = "alert"
    BY <2>1, ProbeOfAlert DEF Alert
  <2> HIDE DEF r
  <2>3. kex = [Nothing EXCEPT !.error = TRUE]
    BY <2>2 DEF AfterPrimary
  <2>4. kex.tls13 = FALSE /\ kex.isPqc = FALSE /\ kex.pqcSupported = FALSE
    BY <2>3 DEF Nothing
  <2> HIDE DEF kex
  <2>5. QED
    BY <1>3, <2>4 DEF AsksAgain, Prefers, Supports, kex, r
<1>4. QED
  BY <1>2, <1>3

\* It is asked for the post-quantum groups only: an answer names one of them.
LEMMA SecondProbe ==
    ASSUME NEW b \in Servers, Offers13(b), NEW kex \in KexType
    PROVE  AfterSecondary(kex, Answers(b, PQC_GROUPS)).pqcSupported <=> Supports(b)
<1> DEFINE r == Answers(b, PQC_GROUPS)
           found == Probe(r).type = "hello" /\ Probe(r).group \in PQC_GROUPS
<1>1. found <=> Supports(b)
  <2>1. CASE r = <<Alert>>
    <3>1. Probe(r).type # "hello"
      BY <2>1, ProbeOfAlert DEF Alert
    <3>2. Len(<<Alert>>) = 1
      OBVIOUS
    <3>3. \A i \in 1..Len(b.groups) : b.groups[i] \notin PQC_GROUPS
      <4>1. ASSUME NEW i \in 1..Len(b.groups), r = <<ServerHello(b.groups[i]), ChangeCipherSpec>>
            PROVE  FALSE
        <5>1. Len(<<ServerHello(b.groups[i]), ChangeCipherSpec>>) = 2
          OBVIOUS
        <5>2. QED
          BY <2>1, <3>2, <4>1, <5>1
      <4>2. QED
        BY <4>1, Answered DEF Offers13
    <3>4. QED
      BY <3>1, <3>3 DEF Supports
  <2>2. ASSUME NEW i \in 1..Len(b.groups), b.groups[i] \in PQC_GROUPS,
               r = <<ServerHello(b.groups[i]), ChangeCipherSpec>>
        PROVE  found <=> Supports(b)
    <3>1. Probe(r).type = "hello" /\ Probe(r).group = b.groups[i]
      BY <2>2, ProbeOfHello DEF ServerHello
    <3>2. QED
      BY <2>2, <3>1 DEF Supports
  <2>3. QED
    BY <2>1, <2>2, Answered
<1> HIDE DEF found
<1>2. AfterSecondary(kex, r) = [kex EXCEPT !.pqcSupported = found]
  BY DEF AfterSecondary, found
<1>3. AfterSecondary(kex, r).pqcSupported = found
  BY <1>2 DEF KexType
<1>4. QED
  BY <1>1, <1>3

\* A reply that is none says nothing.
LEMMA BadProbe ==
    ASSUME NEW r \in BadReplies
    PROVE  ~AfterPrimary(r).isPqc /\ ~AsksAgain(AfterPrimary(r))
<1>1. AfterPrimary(r) \in {Nothing, [Nothing EXCEPT !.error = TRUE]}
  BY ProbeOfBadReply DEF AfterPrimary
<1>2. QED
  BY <1>1 DEF Nothing, AsksAgain

\* What a probe leaves behind.
LEMMA ProbeSteps ==
    ASSUME ScanInv, ScanStep
    PROVE  /\ scan.pc = "probe" =>
                \E r : /\ scan'.kex = AfterPrimary(r)
                       /\ scan'.pc = IF AsksAgain(AfterPrimary(r)) THEN "probe again" ELSE "score"
                       /\ \/ \E b \in scan.farm : r = Answers(b, ALL_GROUPS)
                          \/ r \in BadReplies /\ scan'.faults = scan.faults + 1
           /\ scan.pc = "probe again" =>
                \E r : /\ scan'.kex = AfterSecondary(scan.kex, r)
                       /\ \/ \E b \in scan.farm : r = Answers(b, PQC_GROUPS)
                          \/ scan'.faults = scan.faults + 1
<1>1. scan \in ScanType
  BY DEF ScanInv, ScanTypeOK
<1>2. ASSUME NEW pc, NEW kex, NEW new, new = [scan EXCEPT !.pc = pc, !.kex = kex],
             Moves(new) \/ Fails(new)
      PROVE  scan'.pc = pc /\ scan'.kex = kex /\ (Fails(new) => scan'.faults = scan.faults + 1)
  <2>1. new.pc = pc /\ new.kex = kex /\ new.faults = scan.faults /\ DOMAIN new = DOMAIN scan
    BY <1>1, <1>2 DEF ScanType
  <2>2. Fails(new) => scan' = [new EXCEPT !.faults = new.faults + 1]
    BY DEF Fails, Moves
  <2>3. {"pc", "kex", "faults"} \subseteq DOMAIN new
    BY <1>1, <2>1 DEF ScanType
  <2>4. CASE Fails(new)
    <3>1. scan'.faults = new.faults + 1
      BY <2>2, <2>3, <2>4
    <3>2. PICK faults : scan' = [new EXCEPT !.faults = faults]
      BY <2>2, <2>4
    <3>3. scan'.pc = new.pc /\ scan'.kex = new.kex
      BY <2>3, <3>2
    <3>4. QED
      BY <2>1, <3>1, <3>3
  <2>5. CASE ~Fails(new)
    BY <1>2, <2>1, <2>5 DEF Moves
  <2>6. QED
    BY <2>4, <2>5
<1>3. CASE scan.pc = "probe"
  <2>1. ProbeGroups
    BY <1>3 DEF ScanStep, ConnectVerified, TlsError, ConnectLegacy, ConnectUnverified,
       ConnectionError, ProbeVersions, LookUp, FetchHeaders, AskResponder, ProbePqcGroups, Report, At
  <2>2. PICK r, new :
           /\ new = [scan EXCEPT !.pc = IF AsksAgain(AfterPrimary(r)) THEN "probe again" ELSE "score",
                                 !.kex = AfterPrimary(r)]
           /\ \/ Moves(new) /\ \E b \in scan.farm : r = Answers(b, ALL_GROUPS)
              \/ Fails(new) /\ r \in BadReplies
    BY <2>1 DEF ProbeGroups
  <2>3. QED
    BY <1>2, <1>3, <2>2
<1>4. CASE scan.pc = "probe again"
  <2>1. ProbePqcGroups
    BY <1>4 DEF ScanStep, ConnectVerified, TlsError, ConnectLegacy, ConnectUnverified,
       ConnectionError, ProbeVersions, LookUp, FetchHeaders, AskResponder, ProbeGroups, Report, At
  <2>2. PICK r, new :
           /\ new = [scan EXCEPT !.pc = "score", !.kex = AfterSecondary(scan.kex, r)]
           /\ \/ Moves(new) /\ \E b \in scan.farm : r = Answers(b, PQC_GROUPS)
              \/ Fails(new)
    BY <2>1 DEF ProbePqcGroups
  <2>3. /\ scan'.kex = AfterSecondary(scan.kex, r)
        /\ Fails(new) => scan'.faults = scan.faults + 1
    BY <1>2, <2>2
  <2>4. QED
    BY <1>4, <2>2, <2>3
<1>5. QED
  BY <1>3, <1>4

\* Only the verified path probes; the first probe decides the verdict, the
\* second one adds what the server supports.
Verdict ==
    /\ scan.pc \in {"idle", "connect", "versions", "dns", "http", "ocsp", "probe"} => scan.kex = Nothing
    /\ scan.pc \in {"ocsp", "probe", "probe again"} => scan.path = "verified"
    /\ scan.kex.isPqc => scan.path = "verified" /\ \E b \in scan.farm : Prefers(b)
    /\ scan.pc = "probe again" =>
          /\ ~scan.kex.isPqc
          /\ Undisturbed => \A b \in scan.farm : Offers13(b) /\ ~Prefers(b)
    /\ scan.pc = "score" \/ Reported =>
          (Undisturbed /\ scan.path = "verified" =>
              \A b \in scan.farm : /\ scan.kex.isPqc <=> Prefers(b)
                                   /\ scan.kex.pqcSupported <=> Supports(b))
    /\ Reported => scan.pc = "done"

LEMMA VerdictStep ==
    ASSUME ScanInv, Verdict, ScanStep
    PROVE  Verdict'
<1>1. scan \in ScanType /\ scan.pc # "idle" /\ scan.farm \in Farms /\ scan.kex \in KexType
  BY Frames DEF ScanInv, ScanTypeOK, Running, Continues, ScanType, KexType
<1>2. Framed /\ Continues
  BY Frames
<1>3. Undisturbed' => /\ Undisturbed
                      /\ scan'.faults # scan.faults + 1
                      /\ \A a, b \in scan.farm : a = b
  <2> SUFFICES ASSUME Undisturbed'
               PROVE  /\ Undisturbed
                      /\ scan'.faults # scan.faults + 1
                      /\ \A a, b \in scan.farm : a = b
    OBVIOUS
  <2>1. scan.faults = 0 /\ scan'.faults = 0
    BY FaultsGrow DEF Undisturbed
  <2>2. IsFiniteSet(scan.farm) /\ Cardinality(scan.farm) = 1
    BY <1>1, <1>2, ScanFlowAssumption DEF Undisturbed, Alone, Framed
  <2>3. \A a, b \in scan.farm : a = b
    BY <2>2, FS_Singleton
  <2>4. QED
    BY <2>1, <2>2, <2>3 DEF Undisturbed, Alone
<1>4. scan.farm \subseteq Servers
  BY <1>1 DEF Servers
<1>5. CASE scan.pc \in {"connect", "versions", "dns", "http", "ocsp"}
  <2>1. scan'.kex = Nothing /\ Nothing.isPqc = FALSE
    BY <1>2, <1>5 DEF Framed, Verdict, Nothing
  <2>2. ~Reported /\ ~Reported'
    BY <1>2, <1>5 DEF Framed, Verdict, Reported, Successes
  <2>3. scan'.pc # "probe again" /\ (scan'.pc = "score" => scan'.path # "verified")
    BY <1>2, <1>5 DEF Framed, Continues, Following
  <2>4. scan'.pc \in {"ocsp", "probe", "probe again"} => scan'.path = "verified"
    BY <1>2, <1>5 DEF Framed, Continues, Following, Verdict
  <2>5. QED
    BY <2>1, <2>2, <2>3, <2>4 DEF Verdict
<1>6. CASE scan.pc = "probe"
  <2>1. PICK r : /\ scan'.kex = AfterPrimary(r)
                 /\ scan'.pc = IF AsksAgain(AfterPrimary(r)) THEN "probe again" ELSE "score"
                 /\ \/ \E b \in scan.farm : r = Answers(b, ALL_GROUPS)
                    \/ r \in BadReplies /\ scan'.faults = scan.faults + 1
    BY <1>6, ProbeSteps
  <2>2. scan'.path = "verified" /\ ~Reported' /\ scan'.farm = scan.farm
    BY <1>2, <1>6 DEF Framed, Verdict, Reported, Successes
  <2>3. CASE r \in BadReplies /\ ~Undisturbed'
    <3>1. ~AfterPrimary(r).isPqc /\ ~AsksAgain(AfterPrimary(r))
      BY <2>3, BadProbe
    <3>2. QED
      BY <2>1, <2>2, <2>3, <3>1 DEF Verdict
  <2>4. ASSUME NEW b \in scan.farm, r = Answers(b, ALL_GROUPS)
        PROVE  Verdict'
    <3>1. /\ scan'.kex.isPqc <=> Prefers(b)
          /\ scan'.pc = "probe again" <=> Offers13(b) /\ ~Prefers(b)
          /\ scan'.pc # "probe again" => (scan'.kex.pqcSupported <=> Supports(b))
      BY <1>4, <2>1, <2>4, FirstProbe
    <3>2. scan'.pc \in {"probe again", "score"}
      BY <2>1
    <3>3. Undisturbed' => \A c \in scan'.farm : c = b
      BY <1>3, <2>2
    <3>4. QED
      BY <2>2, <3>1, <3>2, <3>3 DEF Verdict
  <2>5. QED
    BY <1>3, <2>1, <2>3, <2>4
<1>7. CASE scan.pc = "probe again"
  <2>1. PICK r : /\ scan'.kex = AfterSecondary(scan.kex, r)
                 /\ \/ \E b \in scan.farm : r = Answers(b, PQC_GROUPS)
                    \/ scan'.faults = scan.faults + 1
    BY <1>7, ProbeSteps
  <2>2. /\ scan'.path = "verified" /\ ~Reported' /\ scan'.farm = scan.farm /\ scan'.pc = "score"
    BY <1>2, <1>7 DEF Framed, Continues, Verdict, Reported, Successes
  <2>3. scan'.kex.isPqc = scan.kex.isPqc /\ ~scan.kex.isPqc
    <3>1. PICK found : scan'.kex = [scan.kex EXCEPT !.pqcSupported = found]
      BY <2>1 DEF AfterSecondary
    <3>2. QED
      BY <1>1, <1>7, <3>1 DEF KexType, Verdict
  <2>4. CASE ~Undisturbed'
    BY <2>2, <2>3, <2>4 DEF Verdict
  <2>5. CASE Undisturbed'
    <3>1. PICK b \in scan.farm : r = Answers(b, PQC_GROUPS)
      BY <1>3, <2>1, <2>5
    <3>2. Offers13(b) /\ ~Prefers(b)
      BY <1>3, <1>7, <2>5 DEF Verdict
    <3>3. scan'.kex.pqcSupported <=> Supports(b)
      BY <1>1, <1>4, <2>1, <3>1, <3>2, SecondProbe
    <3>4. \A c \in scan'.farm : c = b
      BY <1>3, <2>2, <2>5
    <3>5. QED
      BY <2>2, <2>3, <3>2, <3>3, <3>4 DEF Verdict
  <2>6. QED
    BY <2>4, <2>5
<1>8. CASE scan.pc = "score"
  <2>1. /\ scan'.kex = scan.kex /\ scan'.path = scan.path /\ scan'.farm = scan.farm
        /\ scan'.pc = "done"
    BY <1>2, <1>8 DEF Framed, Continues
  <2>2. QED
    BY <1>3, <1>8, <2>1 DEF Verdict
<1>9. QED
  BY <1>1, <1>2, <1>5, <1>6, <1>7, <1>8 DEF Continues

\* ai.py:76: a report calls a key exchange post-quantum only if a back end
\* chooses it over the classical ones, and for one back end and no failed
\* connection exactly then.
THEOREM PqcVerdict == ClientSpec => []PqcVerdictExact
<1>1. Fresh => Verdict
  <2>1. Nothing.isPqc = FALSE
    BY DEF Nothing
  <2>2. QED
    BY <2>1 DEF Fresh, Verdict, Reported
<1>2. ClientInit => Verdict
  BY <1>1, FreshOrStep
<1>3. ScanInv /\ Verdict /\ [ClientNext]_clientVars => Verdict'
  <2> SUFFICES ASSUME ScanInv, Verdict, [ClientNext]_clientVars
               PROVE  Verdict'
    OBVIOUS
  <2>1. CASE scan' = scan
    BY <2>1 DEF Verdict, Undisturbed, Alone, Reported
  <2>2. CASE Fresh'
    <3>1. Nothing.isPqc = FALSE
      BY DEF Nothing
    <3>2. QED
      BY <2>2, <3>1 DEF Fresh, Verdict, Reported
  <2>3. QED
    BY <2>1, <2>2, VerdictStep, FreshOrStep
<1>4. Verdict => PqcVerdictExact
  BY DEF Verdict, PqcVerdictExact
<1>5. QED
  BY <1>2, <1>3, <1>4, ScanTypes, PTL DEF ClientSpec

-----------------------------------------------------------------------------
(* Nothing is invented *)

\* The responder is asked once, on the verified path.
Asked ==
    /\ scan.pc \in {"idle", "connect", "versions", "dns", "http", "ocsp"} => scan.ocsp = NotChecked
    /\ scan.pc \in {"ocsp", "probe", "probe again"} => scan.path = "verified"

RevocationAnswered ==
    scan.ocsp.revoked # Unknown =>
        /\ scan.path = "verified" /\ scan.cert.ocspUrl
        /\ scan.ocsp.check = (IF scan.ocsp.revoked = "yes" THEN "revoked" ELSE "good")

DnssecAnswered ==
    scan.dns # NoDns =>
        \E z \in Zones : scan.dns.present \subseteq z.has /\ scan.dns.dnssec \in {z.ad, Unknown}

LEMMA LookUpAnswers ==
    ASSUME ScanInv, DnssecAnswered, LookUp
    PROVE  DnssecAnswered'
<1>1. scan \in ScanType
  BY DEF ScanInv, ScanTypeOK
<1>2. CASE scan'.dns = scan.dns
  BY <1>2 DEF DnssecAnswered
<1>3. ASSUME NEW z \in Zones, NEW lost, NEW faults,
             scan' = [scan EXCEPT !.pc = Following("dns"),
                         !.dns = CheckDns([q \in Queries |-> IF q \in lost THEN "failed"
                                             ELSE IF q \in z.has THEN "records" ELSE "none"], z.ad),
                         !.faults = faults]
      PROVE  DnssecAnswered'
  <2> DEFINE answers == [q \in Queries |-> IF q \in lost THEN "failed"
                                           ELSE IF q \in z.has THEN "records" ELSE "none"]
  <2>1. \A q \in Queries : answers[q] = "records" => q \in z.has
    OBVIOUS
  <2> HIDE DEF answers
  <2>2. /\ CheckDns(answers, z.ad).present \subseteq z.has
        /\ CheckDns(answers, z.ad).dnssec \in {Unknown, z.ad}
    BY <2>1 DEF CheckDns, Dnssec
  <2>3. scan'.dns = CheckDns(answers, z.ad)
    BY <1>1, <1>3 DEF ScanType, answers
  <2>4. QED
    BY <2>2, <2>3 DEF DnssecAnswered
<1>4. ASSUME NEW new, new = [scan EXCEPT !.pc = "raised"] \/ new = [scan EXCEPT !.pc = "done", !.status = "error"],
             Fails(new)
      PROVE  scan'.dns = scan.dns
  <2>1. new.dns = scan.dns
    <3>1. CASE new = [scan EXCEPT !.pc = "raised"]
      BY <1>1, <3>1 DEF ScanType
    <3>2. CASE new = [scan EXCEPT !.pc = "done", !.status = "error"]
      BY <1>1, <3>2 DEF ScanType
    <3>3. QED
      BY <1>4, <3>1, <3>2
  <2>2. PICK faults : scan' = [new EXCEPT !.faults = faults]
    <3>1. scan' = [new EXCEPT !.faults = new.faults + 1]
      BY <1>4 DEF Fails, Moves
    <3>2. QED
      BY <3>1
  <2>3. "dns" # "faults"
    OBVIOUS
  <2>4. scan'.dns = new.dns
    BY <1>1, <1>4, <2>2 DEF ScanType
  <2>5. QED
    BY <2>1, <2>4
<1>5. CASE \E z \in Zones, lost \in {{}} \cup {{q} : q \in Queries} :
             LET answers == [q \in Queries |-> IF q \in lost THEN "failed"
                                               ELSE IF q \in z.has THEN "records" ELSE "none"]
             IN /\ scan.faults + Cardinality(lost) <= MaxFaults
                /\ Moves([scan EXCEPT !.pc = Following("dns"), !.dns = CheckDns(answers, z.ad),
                                      !.faults = @ + Cardinality(lost)])
  <2>1. PICK z, lost :
          /\ z \in Zones
          /\ scan' = [scan EXCEPT !.pc = Following("dns"),
                       !.dns = CheckDns([q \in Queries |-> IF q \in lost THEN "failed"
                                           ELSE IF q \in z.has THEN "records" ELSE "none"], z.ad),
                       !.faults = scan.faults + Cardinality(lost)]
    BY <1>5 DEF Moves
  <2>2. QED
    BY <1>3, <2>1
<1>6. QED
  BY <1>2, <1>4, <1>5 DEF LookUp

LEMMA ResponderAnswers ==
    ASSUME ScanInv, Asked, AskResponder
    PROVE  RevocationAnswered'
<1>1. scan \in ScanType
  BY DEF ScanInv, ScanTypeOK
<1>20. PICK issuer \in BOOLEAN, answer \in {"good", "revoked", "unknown", "refused", "error"} : \E new :
           /\ new = [scan EXCEPT !.pc = "probe",
                                 !.ocsp = CheckOcsp(scan.cert.ocspUrl, issuer, answer)]
           /\ Moves(new) \/ Fails(new)
  BY DEF AskResponder
<1>2. PICK new : /\ new = [scan EXCEPT !.pc = "probe",
                                       !.ocsp = CheckOcsp(scan.cert.ocspUrl, issuer, answer)]
                 /\ Moves(new) \/ Fails(new)
  BY <1>20
<1> DEFINE ocsp == CheckOcsp(scan.cert.ocspUrl, issuer, answer)
<1>3. ocsp.revoked # Unknown =>
         /\ scan.cert.ocspUrl
         /\ ocsp.check = (IF ocsp.revoked = "yes" THEN "revoked" ELSE "good")
  BY <1>20 DEF CheckOcsp, NotChecked, Revoked, Unknown
<1> HIDE DEF ocsp
<1>5. new.ocsp = ocsp /\ new.cert = scan.cert /\ new.path = scan.path
  BY <1>1, <1>2 DEF ScanType, ocsp
<1>6. scan'.ocsp = new.ocsp /\ scan'.cert = new.cert /\ scan'.path = new.path
  <2>1. CASE Moves(new)
    BY <2>1 DEF Moves
  <2>2. CASE Fails(new)
    <3>1. PICK faults : scan' = [new EXCEPT !.faults = faults]
      <4>1. scan' = [new EXCEPT !.faults = new.faults + 1]
        BY <2>2 DEF Fails, Moves
      <4>2. QED
        BY <4>1
    <3>2. QED
      BY <1>1, <1>2, <3>1 DEF ScanType
  <2>3. QED
    BY <1>2, <2>1, <2>2
<1>7. scan.path = "verified"
  BY DEF AskResponder, At, Asked
<1>8. QED
  BY <1>3, <1>5, <1>6, <1>7 DEF RevocationAnswered

LEMMA AnswersStep ==
    ASSUME ScanInv, Asked, RevocationAnswered, DnssecAnswered, ScanStep
    PROVE  Asked' /\ RevocationAnswered' /\ DnssecAnswered'
<1>1. Framed /\ Continues
  BY Frames
<1>2. scan.pc \in {"connect", "versions", "dns", "http", "ocsp", "probe", "probe again", "score"}
  BY <1>1 DEF Continues, ScanInv, ScanTypeOK, ScanType
<1>3. Asked'
  BY <1>1, <1>2 DEF Framed, Continues, Following, Asked
<1>4. RevocationAnswered'
  <2>1. CASE scan.pc = "connect"
    BY <1>1, <2>1 DEF Framed, Asked, RevocationAnswered, NotChecked
  <2>2. CASE scan.pc = "ocsp"
    BY <1>1, <2>2, ResponderAnswers DEF ScanStep, ConnectVerified, TlsError, ConnectLegacy,
       ConnectUnverified, ConnectionError, ProbeVersions, LookUp, FetchHeaders, ProbeGroups,
       ProbePqcGroups, Report, At
  <2>3. CASE scan.pc \notin {"connect", "ocsp"}
    BY <1>1, <2>3 DEF Framed, RevocationAnswered
  <2>4. QED
    BY <2>1, <2>2, <2>3
<1>5. DnssecAnswered'
  <2>1. CASE scan.pc = "dns"
    BY <1>1, <2>1, LookUpAnswers DEF ScanStep, ConnectVerified, TlsError, ConnectLegacy,
       ConnectUnverified, ConnectionError, ProbeVersions, AskResponder, FetchHeaders, ProbeGroups,
       ProbePqcGroups, Report, At
  <2>2. CASE scan.pc # "dns"
    BY <1>1, <2>2 DEF Framed, DnssecAnswered
  <2>3. QED
    BY <2>1, <2>2
<1>6. QED
  BY <1>3, <1>4, <1>5

\* The version, the suite and the certificate are those of one back end.
OneConnection(farm, version, suite, cert) ==
    \E b \in farm : \E v \in DOMAIN b.offers :
        version = Negotiated(v) /\ suite = b.offers[v] /\ cert \in Certs(b)

\* A scan that has left its handshakes has measured; what it holds was seen.
Measured ==
    /\ scan.pc \in {"versions", "dns", "http", "ocsp", "probe", "probe again", "score"} \/ Reported =>
          OneConnection(scan.farm, scan.version, scan.suite, scan.cert)
    /\ Reported => scan.pc = "done"

SeenOf(farm, supported, hsts, group) ==
    /\ \A v \in supported : \E b \in farm : v \in DOMAIN b.offers
    /\ hsts => \E b \in farm : b.hsts
    /\ group # NoGroup => \E b \in farm : \E i \in 1..Len(b.groups) : group = b.groups[i]

Seen == SeenOf(scan.farm, scan.supported, scan.http.hsts, scan.kex.group)

\* The group of a probe is one of the groups of the back end that answered.
LEMMA GroupOfAnswer ==
    ASSUME NEW b \in Servers
    PROVE  LET group == AfterPrimary(Answers(b, ALL_GROUPS)).group
           IN  group # NoGroup => \E i \in 1..Len(b.groups) : group = b.groups[i]
<1> DEFINE r == Answers(b, ALL_GROUPS)
<1>1. CASE r = <<Alert>>
  <2>1. Probe(r).type = "alert"
    BY <1>1, ProbeOfAlert DEF Alert
  <2> HIDE DEF r
  <2>2. AfterPrimary(r) = [Nothing EXCEPT !.error = TRUE]
    BY <2>1 DEF AfterPrimary
  <2>3. AfterPrimary(r).group = NoGroup
    BY <2>2 DEF Nothing
  <2>4. QED
    BY <2>3 DEF r
<1>2. ASSUME NEW i \in 1..Len(b.groups), r = <<ServerHello(b.groups[i]), ChangeCipherSpec>>
      PROVE  AfterPrimary(r).group \in {NoGroup, b.groups[i]}
  <2>1. Probe(r).type = "hello" /\ Probe(r).group = b.groups[i]
    BY <1>2, ProbeOfHello DEF ServerHello
  <2> HIDE DEF r
  <2>2. CASE b.groups[i] = NoGroup
    <3>1. AfterPrimary(r) = Nothing
      BY <2>1, <2>2 DEF AfterPrimary
    <3>2. QED
      BY <3>1 DEF Nothing
  <2>3. CASE b.groups[i] # NoGroup
    <3>1. PICK g, pqc : /\ g = b.groups[i]
                        /\ AfterPrimary(r) = [Nothing EXCEPT !.tls13 = TRUE, !.group = g, !.isPqc = pqc,
                                                             !.pqcSupported = pqc]
      BY <2>1, <2>3 DEF AfterPrimary
    <3>2. QED
      BY <3>1 DEF Nothing
  <2>4. QED
    BY <2>2, <2>3
<1>3. QED
  BY <1>1, <1>2, Answered

LEMMA MeasuredStep ==
    ASSUME ScanInv, Measured, ScanStep
    PROVE  Measured'
<1>1. Framed /\ Continues
  BY Frames
<1>2. scan.pc \in {"connect", "versions", "dns", "http", "ocsp", "probe", "probe again", "score"}
  BY <1>1 DEF Continues, ScanInv, ScanTypeOK, ScanType
<1>3. ~Reported
  BY <1>2 DEF Measured
<1>4. scan.pc # "score" => ~Reported'
  BY <1>1, <1>3 DEF Framed, Reported, Successes
<1>5. CASE scan.pc = "connect"
  BY <1>1, <1>4, <1>5 DEF Framed, Continues, Measured, OneConnection
<1>6. CASE scan.pc # "connect"
  <2>1. OneConnection(scan.farm, scan.version, scan.suite, scan.cert)
    BY <1>2, <1>6 DEF Measured
  <2>2. /\ scan'.farm = scan.farm /\ scan'.version = scan.version
        /\ scan'.suite = scan.suite /\ scan'.cert = scan.cert
    BY <1>1, <1>6 DEF Framed
  <2>3. Reported' => scan'.pc = "done"
    BY <1>1, <1>4 DEF Continues
  <2>4. QED
    BY <2>1, <2>2, <2>3 DEF Measured
<1>7. QED
  BY <1>5, <1>6

LEMMA SeenStep ==
    ASSUME ScanInv, Seen, ScanStep
    PROVE  Seen'
<1>1. Framed /\ Continues
  BY Frames
<1>2. scan'.farm = scan.farm /\ scan.farm \in Farms
  BY <1>1 DEF Framed, Continues, ScanInv, Running
<1>3. \A v \in scan'.supported : \E b \in scan.farm : v \in DOMAIN b.offers
  BY <1>1 DEF Framed, Seen, SeenOf
<1>4. scan'.http.hsts => \E b \in scan.farm : b.hsts
  BY <1>1 DEF Framed, Seen, SeenOf
<1>5. scan'.kex.group # NoGroup => \E b \in scan.farm : \E i \in 1..Len(b.groups) : scan'.kex.group = b.groups[i]
  <2>1. CASE scan.pc = "probe"
    <3>1. PICK r : /\ scan'.kex = AfterPrimary(r)
                   /\ r \in BadReplies \/ \E b \in scan.farm : r = Answers(b, ALL_GROUPS)
      BY <2>1, ProbeSteps
    <3>2. CASE r \in BadReplies
      <4>1. AfterPrimary(r) \in {Nothing, [Nothing EXCEPT !.error = TRUE]}
        BY <3>2, ProbeOfBadReply DEF AfterPrimary
      <4>2. AfterPrimary(r).group = NoGroup
        BY <4>1 DEF Nothing
      <4>3. QED
        BY <3>1, <4>2
    <3>3. ASSUME NEW b \in scan.farm, r = Answers(b, ALL_GROUPS)
          PROVE  <1>5
      <4>1. b \in Servers
        BY <1>2 DEF Servers
      <4>2. QED
        BY <3>1, <3>3, <4>1, GroupOfAnswer
    <3>4. QED
      BY <3>1, <3>2, <3>3
  <2>2. CASE scan.pc = "probe again"
    <3>1. PICK r : scan'.kex = AfterSecondary(scan.kex, r)
      BY <2>2, ProbeSteps
    <3>2. scan.kex \in KexType
      BY DEF ScanInv, ScanTypeOK, ScanType, KexType
    <3>3. AfterSecondary(scan.kex, r).group = scan.kex.group
      BY <3>2 DEF AfterSecondary, KexType
    <3>4. QED
      BY <3>1, <3>3 DEF Seen, SeenOf
  <2>3. CASE scan.pc \notin {"probe", "probe again"}
    BY <1>1, <2>3 DEF Framed, Seen, SeenOf
  <2>4. QED
    BY <2>1, <2>2, <2>3
<1>6. QED
  BY <1>2, <1>3, <1>4, <1>5 DEF Seen, SeenOf

\* scanner_service.py:963: all a report holds was observed, its version, suite and
\* certificate in one connection, for any back ends and any number of failures.
THEOREM NothingIsInvented == ClientSpec => []NothingInvented
<1> DEFINE Inv == Asked /\ RevocationAnswered /\ DnssecAnswered /\ Measured /\ Seen
<1>1. /\ Fresh => Inv
      /\ Fresh' => Inv'
  <2>1. /\ NotChecked.revoked = Unknown /\ Nothing.group = NoGroup /\ NoHttp.hsts = FALSE
      BY DEF NotChecked, Nothing, NoHttp
  <2>2. Fresh => Asked /\ RevocationAnswered /\ DnssecAnswered
    BY <2>1 DEF Fresh, Asked, RevocationAnswered, DnssecAnswered
  <2>3. Fresh => Measured
    BY DEF Fresh, Measured, Reported
  <2>4. Fresh => Seen
    BY <2>1 DEF Fresh, Seen, SeenOf
  <2>5. Fresh' => (Asked /\ RevocationAnswered /\ DnssecAnswered)'
    BY <2>1 DEF Fresh, Asked, RevocationAnswered, DnssecAnswered
  <2>6. Fresh' => Measured'
    BY DEF Fresh, Measured, Reported
  <2>7. Fresh' => Seen'
    BY <2>1 DEF Fresh, Seen, SeenOf
  <2>8. QED
    BY <2>2, <2>3, <2>4, <2>5, <2>6, <2>7
<1>2. ClientInit => Inv
  BY <1>1, FreshOrStep
<1>3. ScanInv /\ Inv /\ [ClientNext]_clientVars => Inv'
  <2> SUFFICES ASSUME ScanInv, Inv, [ClientNext]_clientVars
               PROVE  Inv'
    OBVIOUS
  <2>1. CASE scan' = scan
    BY <2>1 DEF Asked, RevocationAnswered, DnssecAnswered, Measured, Reported, Seen
  <2>2. CASE ScanStep
    BY <2>2, AnswersStep, MeasuredStep, SeenStep
  <2>3. QED
    BY <1>1, <2>1, <2>2, FreshOrStep
<1>4. Inv => NothingInvented
  BY DEF RevocationAnswered, DnssecAnswered, Measured, OneConnection, Seen, SeenOf, NothingInvented
<1>5. QED
  BY <1>2, <1>3, <1>4, ScanTypes, PTL DEF ClientSpec

-----------------------------------------------------------------------------
(* The order of the scores *)

LEMMA SuitePoints ==
    ASSUME NEW s
    PROVE  CipherPoints(s) \in Int /\ CipherPoints(s) <= 5
<1> DEFINE has(mark) == mark \in s.marks
           bulk == CASE has("RC4") -> -30 [] has("NULL") -> -42 [] has("3DES") -> -26
                     [] has("DES") /\ ~has("3DES") -> -36 [] has("AES128") -> -6
                     [] has("AES256") \/ has("CHACHA20") -> 3 [] OTHER -> 0
           mode == IF has("GCM") THEN 2 ELSE If(has("CBC"), -4)
           grade == If(CipherGrade(s) = "D", -8)
<1>1. bulk \in {-30, -42, -26, -36, -6, 3, 0}
  OBVIOUS
<1>2. mode \in {2, -4, 0} /\ grade \in {-8, 0}
  BY DEF If
<1>3. CipherPoints(s) = bulk + mode + grade
  BY DEF CipherPoints
<1> HIDE DEF bulk, mode, grade
<1>4. QED
  BY <1>1, <1>2, <1>3

\* The strongest suites are the only ones that lose nothing.
LEMMA StrongSuites ==
    ASSUME NEW s \in Suites, HasForwardSecrecy(s), s.marks \cap {"AES256", "CHACHA20"} # {},
           "GCM" \in s.marks
    PROVE  CipherPoints(s) = 5
<1>1. s.marks \cap {"RC4", "NULL", "3DES", "DES", "AES128"} = {}
  <2>1. CASE s \in CIPHER_DB
    BY <2>1 DEF CIPHER_DB, Listed
  <2>2. CASE s \in OtherSuites
    BY <2>2 DEF OtherSuites, Unlisted
  <2>3. QED
    BY <2>1, <2>2 DEF Suites
<1>2. CipherGrade(s) # "D"
  <2>1. CASE s \in CIPHER_DB
    <3>1. s.listed /\ s.grade # "D"
      BY <2>1 DEF CIPHER_DB, Listed, HasForwardSecrecy
    <3>2. QED
      BY <3>1 DEF CipherGrade
  <2>2. CASE s \in OtherSuites
    BY <2>2 DEF OtherSuites, Unlisted
  <2>3. QED
    BY <2>1, <2>2 DEF Suites
<1>3. QED
  BY <1>1, <1>2 DEF CipherPoints, If

LEMMA RsaMonotone ==
    ASSUME NEW a \in Nat, NEW b \in Nat, a <= b
    PROVE  RsaPoints(a) \in Int /\ RsaPoints(b) \in Int /\ RsaPoints(a) <= RsaPoints(b)
BY DEF RsaPoints

\* Points are added up, so a report that gains in one and loses in none scores
\* no less.
NoLess(a, b) == a = b \/ a <= b

LEMMA PointsAddUp ==
    ASSUME NEW m, NEW n, m.bits \in Nat, n.bits \in Nat, m.days \in Int, n.days \in Int,
           NoLess(VersionPoints(m), VersionPoints(n)), NoLess(SupportedPoints(m), SupportedPoints(n)),
           NoLess(KeyPoints(m), KeyPoints(n)), NoLess(KexPoints(m), KexPoints(n)),
           NoLess(If(~HasForwardSecrecy(m.suite), -10), If(~HasForwardSecrecy(n.suite), -10)),
           NoLess(CipherPoints(m.suite), CipherPoints(n.suite)), NoLess(HealthPoints(m), HealthPoints(n))
    PROVE  Score(m) <= Score(n)
<1>1. ASSUME NEW x, x.bits \in Nat, x.days \in Int
      PROVE  /\ VersionPoints(x) \in Int /\ SupportedPoints(x) \in Int /\ KeyPoints(x) \in Int
             /\ KexPoints(x) \in Int /\ If(~HasForwardSecrecy(x.suite), -10) \in Int
             /\ CipherPoints(x.suite) \in Int /\ HealthPoints(x) \in Int
  <2>1. VersionPoints(x) \in Int
    BY DEF VersionPoints
  <2>2. SupportedPoints(x) \in Int
    BY DEF SupportedPoints, If
  <2>3. KeyPoints(x) \in Int
    <3>1. RsaPoints(x.bits) \in Int
      BY <1>1, RsaMonotone
    <3>2. QED
      BY <3>1 DEF KeyPoints
  <2>4. KexPoints(x) \in Int
    BY DEF KexPoints
  <2>5. HealthPoints(x) \in Int
    <3>1. ExpiryPoints(x.days) \in Int
      BY <1>1 DEF ExpiryPoints
    <3>2. QED
      BY <3>1 DEF HealthPoints, If
  <2>6. QED
    BY <2>1, <2>2, <2>3, <2>4, <2>5, SuitePoints DEF If
<1>2. Sum(m) \in Int /\ Sum(n) \in Int /\ Sum(m) <= Sum(n)
  BY <1>1 DEF Sum, NoLess
<1>3. QED
  BY <1>2 DEF Score

FactsType ==
    [version : {Negotiated(v) : v \in Versions} \cup {"none"}, suite : Suites \cup {NoSuite},
     kex : {"safe", "hybrid", "vulnerable", "noForwardSecrecy"}, pqc : BOOLEAN,
     keyType : KeyTypes, bits : Nat, supported : SUBSET Versions, days : Int, hsts : BOOLEAN,
     ct : BOOLEAN, selfSigned : BOOLEAN, sha1 : BOOLEAN]

\* What n may differ in from m: all but one group of facts is the same.
SameHandshake(m, n) == n.version = m.version /\ n.suite = m.suite /\ n.supported = m.supported
SameKeys(m, n) == n.keyType = m.keyType /\ n.bits = m.bits /\ n.kex = m.kex /\ n.pqc = m.pqc
SameHealth(m, n) == /\ n.days = m.days /\ n.hsts = m.hsts /\ n.ct = m.ct
                    /\ n.selfSigned = m.selfSigned /\ n.sha1 = m.sha1

LEMMA SamePoints ==
    ASSUME NEW m, NEW n
    PROVE  /\ n.version = m.version => VersionPoints(m) = VersionPoints(n)
           /\ n.supported = m.supported => SupportedPoints(m) = SupportedPoints(n)
           /\ n.keyType = m.keyType /\ n.bits = m.bits => KeyPoints(m) = KeyPoints(n)
           /\ n.kex = m.kex /\ n.pqc = m.pqc => KexPoints(m) = KexPoints(n)
           /\ n.suite = m.suite => /\ CipherPoints(m.suite) = CipherPoints(n.suite)
                                   /\ If(~HasForwardSecrecy(m.suite), -10)
                                        = If(~HasForwardSecrecy(n.suite), -10)
           /\ SameHealth(m, n) => HealthPoints(m) = HealthPoints(n)
BY DEF VersionPoints, SupportedPoints, KeyPoints, KexPoints, HealthPoints, SameHealth

\* A better certificate or header.
LEMMA BetterHealth ==
    ASSUME NEW m \in FactsType, NEW n,
           n \in {[m EXCEPT !.selfSigned = FALSE], [m EXCEPT !.ct = TRUE], [m EXCEPT !.hsts = TRUE],
                  [m EXCEPT !.sha1 = FALSE], [m EXCEPT !.days = 365]}
    PROVE  Score(m) <= Score(n)
<1>1. SameHandshake(m, n) /\ SameKeys(m, n)
  BY DEF FactsType, SameHandshake, SameKeys
<1>2. /\ n.days \in {m.days, 365} /\ (n.selfSigned => m.selfSigned) /\ (m.ct => n.ct)
      /\ (m.hsts => n.hsts) /\ (n.sha1 => m.sha1) /\ m.days \in Int
  BY DEF FactsType
<1>3. /\ ExpiryPoints(m.days) \in Int /\ ExpiryPoints(n.days) \in Int
      /\ ExpiryPoints(m.days) <= ExpiryPoints(n.days)
  BY <1>2 DEF ExpiryPoints
<1>4. HealthPoints(m) <= HealthPoints(n)
  BY <1>2, <1>3 DEF HealthPoints, If
<1>5. m.bits \in Nat /\ n.bits \in Nat /\ n.days \in Int
  BY <1>1, <1>2 DEF FactsType, SameKeys
<1>6. QED
  BY <1>1, <1>2, <1>4, <1>5, SamePoints, PointsAddUp DEF NoLess, SameHandshake, SameKeys

\* A better key exchange or key.
LEMMA BetterKeys ==
    ASSUME NEW m \in FactsType, NEW n, n.bits >= m.bits,
           n \in {[m EXCEPT !.kex = "safe"], [m EXCEPT !.pqc = TRUE],
                  [m EXCEPT !.bits = 2048], [m EXCEPT !.bits = 4096]}
    PROVE  Score(m) <= Score(n)
<1>1. SameHandshake(m, n) /\ SameHealth(m, n) /\ n.keyType = m.keyType
  BY DEF FactsType, SameHandshake, SameHealth
<1>2. m.bits \in Nat /\ n.bits \in {m.bits, 2048, 4096}
  BY DEF FactsType
<1>3. KeyPoints(m) = KeyPoints(n) \/ KeyPoints(m) <= KeyPoints(n)
  <2>1. RsaPoints(m.bits) <= RsaPoints(n.bits)
    BY <1>2, RsaMonotone
  <2>2. CASE m.keyType = "RSA"
    BY <1>1, <2>1, <2>2 DEF KeyPoints
  <2>3. CASE m.keyType # "RSA"
    BY <1>1, <2>3 DEF KeyPoints
  <2>4. QED
    BY <2>2, <2>3
<1>4. KexPoints(m) = KexPoints(n) \/ KexPoints(m) <= KexPoints(n)
  <2>1. \/ n.kex = m.kex /\ n.pqc = m.pqc
        \/ n.pqc
        \/ n.kex = "safe" /\ n.pqc = m.pqc
    BY DEF FactsType
  <2>2. QED
    BY <2>1 DEF KexPoints
<1>5. m.days \in Int /\ n.days \in Int /\ n.bits \in Nat
  BY <1>1, <1>2 DEF FactsType, SameHealth
<1>6. QED
  BY <1>1, <1>2, <1>3, <1>4, <1>5, SamePoints, PointsAddUp DEF NoLess, SameHandshake

\* A better version or suite, or one old version less.
LEMMA BetterHandshake ==
    ASSUME NEW m \in FactsType, NEW n,
           \/ n \in {[m EXCEPT !.supported = @ \ {v}] : v \in {"TLSv1.0", "TLSv1.1"}}
           \/ n \in {[m EXCEPT !.version = v] :
                       v \in {"TLSv1.3"} \cup (IF m.version = "TLSv1.1" THEN {"TLSv1.2"} ELSE {})}
           \/ n \in {[m EXCEPT !.suite = s] :
                       s \in {x \in Suites : /\ HasForwardSecrecy(x)
                                             /\ x.marks \cap {"AES256", "CHACHA20"} # {}
                                             /\ "GCM" \in x.marks}}
    PROVE  Score(m) <= Score(n)
<1>1. SameKeys(m, n) /\ SameHealth(m, n)
  BY DEF FactsType, SameKeys, SameHealth
<1>2. m.bits \in Nat /\ n.bits \in Nat /\ m.days \in Int /\ n.days \in Int
  BY <1>1 DEF FactsType, SameKeys, SameHealth
<1>3. NoLess(KeyPoints(m), KeyPoints(n)) /\ NoLess(KexPoints(m), KexPoints(n))
      /\ NoLess(HealthPoints(m), HealthPoints(n))
  BY <1>1, SamePoints DEF NoLess, SameKeys
<1>4. CASE n \in {[m EXCEPT !.supported = @ \ {v}] : v \in {"TLSv1.0", "TLSv1.1"}}
  <2>1. n.version = m.version /\ n.suite = m.suite /\ n.supported \subseteq m.supported
    BY <1>4 DEF FactsType
  <2>2. SupportedPoints(m) <= SupportedPoints(n)
    BY <2>1 DEF SupportedPoints, If
  <2>3. QED
    BY <1>2, <1>3, <2>1, <2>2, SamePoints, PointsAddUp DEF NoLess
<1>5. ASSUME NEW v \in {"TLSv1.3", "TLSv1.2"}, v = "TLSv1.2" => m.version = "TLSv1.1",
             n = [m EXCEPT !.version = v]
      PROVE  Score(m) <= Score(n)
  <2>1. n.version = v /\ n.suite = m.suite /\ n.supported = m.supported
    BY <1>5 DEF FactsType
  <2>2. VersionPoints(m) <= VersionPoints(n)
    BY <1>5, <2>1 DEF VersionPoints
  <2>3. QED
    BY <1>2, <1>3, <2>1, <2>2, SamePoints, PointsAddUp DEF NoLess
<1>6. ASSUME NEW s \in Suites, HasForwardSecrecy(s), s.marks \cap {"AES256", "CHACHA20"} # {},
             "GCM" \in s.marks, n = [m EXCEPT !.suite = s]
      PROVE  Score(m) <= Score(n)
  <2>1. n.version = m.version /\ n.suite = s /\ n.supported = m.supported
    BY <1>6 DEF FactsType
  <2>2. CipherPoints(m.suite) <= CipherPoints(n.suite)
    BY <1>6, <2>1, StrongSuites, SuitePoints
  <2>3. If(~HasForwardSecrecy(m.suite), -10) <= If(~HasForwardSecrecy(n.suite), -10)
    BY <1>6, <2>1 DEF If
  <2>4. QED
    BY <1>2, <1>3, <2>1, <2>2, <2>3, SamePoints, PointsAddUp DEF NoLess
<1>7. QED
  BY <1>4, <1>5, <1>6

LEMMA FactsTyped ==
    ASSUME ScanInv
    PROVE  Facts \in FactsType
<1>1. /\ scan \in ScanType
      /\ scan.cert \in {c \in {s.cert : s \in Servers} : c.keyType \in KeyTypes} \cup {NoCert, Unreadable}
  BY DEF ScanInv, ScanTypeOK, ScanType
<1>2. /\ scan.cert.keyType \in KeyTypes /\ scan.cert.bits \in Nat /\ scan.cert.days \in Int
      /\ scan.cert.selfSigned \in BOOLEAN /\ scan.cert.ct \in BOOLEAN /\ scan.cert.sha1 \in BOOLEAN
  <2>1. CASE scan.cert \in {NoCert, Unreadable}
    <3>1. /\ NoCert.keyType = "" /\ NoCert.bits \in Nat /\ NoCert.days \in Int
          /\ NoCert.selfSigned \in BOOLEAN /\ NoCert.ct \in BOOLEAN /\ NoCert.sha1 \in BOOLEAN
      BY DEF NoCert
    <3>2. /\ Unreadable.keyType = "Unknown" /\ Unreadable.bits = NoCert.bits
          /\ Unreadable.days = NoCert.days /\ Unreadable.selfSigned = NoCert.selfSigned
          /\ Unreadable.ct = NoCert.ct /\ Unreadable.sha1 = NoCert.sha1
      <4>1. /\ "keyType" \in DOMAIN NoCert
            /\ Unreadable = [NoCert EXCEPT !.keyType = "Unknown"]
        BY DEF NoCert, Unreadable
      <4>2. {"bits", "days", "selfSigned", "ct", "sha1"} \subseteq DOMAIN NoCert
        BY DEF NoCert
      <4>3. QED
        BY <4>1, <4>2
    <3>3. QED
      BY <2>1, <3>1, <3>2 DEF KeyTypes
  <2>2. ASSUME NEW s \in Servers, scan.cert = s.cert, s.cert.keyType \in KeyTypes
        PROVE  <1>2
    <3>1. s.cert \in CertType
      BY ScanFlowAssumption
    <3>2. QED
      BY <2>2, <3>1 DEF CertType
  <2>3. QED
    BY <1>1, <2>1, <2>2
<1>3. KeyExchange \in {"safe", "hybrid", "vulnerable", "noForwardSecrecy"}
  BY DEF KeyExchange, DetectKeyExchange, Kex12
<1>4. scan.kex.isPqc \in BOOLEAN /\ scan.http.hsts \in BOOLEAN
  BY <1>1 DEF ScanType
<1>5. /\ scan.version \in {Negotiated(v) : v \in Versions} \cup {"none"}
      /\ scan.suite \in Suites \cup {NoSuite} /\ scan.supported \in SUBSET Versions
  BY <1>1 DEF ScanType
<1> HIDE DEF KeyTypes
<1>6. QED
  BY <1>2, <1>3, <1>4, <1>5 DEF Facts, FactsType

\* calculate_pqc_score: the same report with one fact better never scores less.
THEOREM ScoresAreOrdered == ClientSpec => []BetterNeverScoresLess
<1>1. ScanInv => BetterNeverScoresLess
  <2> SUFFICES ASSUME ScanInv, NEW n \in Better(Facts), n.bits >= Facts.bits
               PROVE  Score(Facts) <= Score(n)
    BY DEF BetterNeverScoresLess
  <2>1. PICK m \in FactsType : m = Facts
    BY FactsTyped
  <2> HIDE DEF Facts
  <2>2. n \in Better(m) /\ n.bits >= m.bits
    BY <2>1
  <2>3. Score(m) <= Score(n)
    BY <2>2, BetterHealth, BetterKeys, BetterHandshake DEF Better
  <2>4. QED
    BY <2>1, <2>3
<1>2. QED
  BY <1>1, ScanTypes, PTL

\* No suite names a post-quantum key exchange, so without a group seen on the
\* wire the key exchange costs eight points or more.
LEMMA ClassicalKex ==
    ASSUME ScanInv, ~Facts.pqc
    PROVE  KexPoints(Facts) \in Int /\ KexPoints(Facts) <= -8
<1>1. {"ML-KEM", "KYBER"} \cap scan.suite.marks = {}
  <2>1. \A s \in CIPHER_DB : {"ML-KEM", "KYBER"} \cap s.marks = {}
    BY DEF CIPHER_DB, Listed
  <2>2. \A s \in OtherSuites \cup {NoSuite} : {"ML-KEM", "KYBER"} \cap s.marks = {}
    BY DEF OtherSuites, NoSuite, Unlisted
  <2>3. scan.suite \in Suites \cup {NoSuite}
    BY DEF ScanInv, ScanTypeOK, ScanType
  <2>4. QED
    BY <2>1, <2>2, <2>3 DEF Suites
<1>2. ~scan.kex.isPqc
  BY DEF Facts
<1>3. KeyExchange \in {"vulnerable", "noForwardSecrecy"}
  BY <1>1, <1>2 DEF KeyExchange, DetectKeyExchange, Kex12
<1>4. Facts.kex \in {"vulnerable", "noForwardSecrecy"}
  BY <1>3 DEF Facts
<1>5. QED
  BY <1>4 DEF KexPoints

\* A classical key that has a deduction of its own costs fourteen or more.
LEMMA ClassicalKey ==
    ASSUME NEW m, m.keyType \in KeyTypes, m.bits \in Nat, ~CheapKey(m)
    PROVE  KeyPoints(m) \in Int /\ KeyPoints(m) <= -14
<1>1. PICK bits \in Nat : bits = m.bits
  OBVIOUS
<1>2. ~(bits >= 4096) => bits < 4096
  OBVIOUS
<1>3. bits < 4096 => RsaPoints(bits) \in Int /\ RsaPoints(bits) <= -18
  BY DEF RsaPoints
<1>4. CASE m.keyType = "RSA"
  <2>1. RsaPoints(bits) \in Int /\ RsaPoints(bits) <= -18
    BY <1>1, <1>2, <1>3, <1>4 DEF CheapKey
  <2>2. KeyPoints(m) = RsaPoints(bits)
    BY <1>1, <1>4, <2>1 DEF KeyPoints, PqcKeyTypes
  <2>3. QED
    BY <2>1, <2>2
<1>5. CASE m.keyType # "RSA"
  <2>1. m.keyType \in {"ECDSA", "DSA", "Ed25519"}
    BY <1>5 DEF CheapKey, KeyTypes
  <2>2. KeyPoints(m) \in {-18, -35, -14}
    <3>1. RsaPoints(m.bits) \in Int
      BY RsaMonotone
    <3>2. QED
      BY <2>1, <3>1 DEF KeyPoints, PqcKeyTypes
  <2>3. QED
    BY <2>2
<1>6. QED
  BY <1>4, <1>5

\* scanner_service.py:733: the label "quantum-safe key exchange", which is given
\* for the score alone, is true of every target whose key is not a cheap one.
THEOREM SafeLabels == ClientSpec => []SafeLabelMeansPqc
<1>1. ScanInv => SafeLabelMeansPqc
  <2> SUFFICES ASSUME ScanInv, ~Facts.pqc, ~CheapKey(Facts)
               PROVE  Label(Facts) \notin {"Fully Quantum Safe", "quantum-safe key exchange"}
    BY DEF SafeLabelMeansPqc
  <2>1. KexPoints(Facts) \in Int /\ KexPoints(Facts) <= -8
    BY ClassicalKex
  <2>2. PICK m \in FactsType : m = Facts
    BY FactsTyped
  <2> HIDE DEF Facts
  <2>3. m.keyType \in KeyTypes /\ m.bits \in Nat /\ m.days \in Int
    BY DEF FactsType
  <2>4. KeyPoints(m) \in Int /\ KeyPoints(m) <= -14
    BY <2>2, <2>3, ClassicalKey
  <2>5. VersionPoints(m) \in Int /\ VersionPoints(m) <= 0
    BY DEF VersionPoints
  <2>6. SupportedPoints(m) \in Int /\ SupportedPoints(m) <= 0
    BY DEF SupportedPoints, If
  <2>7. HealthPoints(m) \in Int /\ HealthPoints(m) <= 0
    <3>1. ExpiryPoints(m.days) \in Int /\ ExpiryPoints(m.days) <= 0
      BY <2>3 DEF ExpiryPoints
    <3>2. QED
      BY <3>1 DEF HealthPoints, If
  <2>8. If(~HasForwardSecrecy(m.suite), -10) \in Int /\ If(~HasForwardSecrecy(m.suite), -10) <= 0
    BY DEF If
  <2>9. CipherPoints(m.suite) \in Int /\ CipherPoints(m.suite) <= 5
    BY SuitePoints
  <2>10. Sum(m) \in Int /\ Sum(m) <= 83
    BY <2>1, <2>2, <2>4, <2>5, <2>6, <2>7, <2>8, <2>9 DEF Sum
  <2>11. Score(m) \in Int /\ Score(m) < 85
    BY <2>10 DEF Score
  <2>12. QED
    BY <2>2, <2>11 DEF Label
<1>2. QED
  BY <1>1, ScanTypes, PTL

-----------------------------------------------------------------------------
(* The scan of the API end points *)

EndPointType == [path : 1..NPaths, version : Modern, suite : Suites]
ApiType == [pc : {"idle", "kex", "paths", "done"}, farm : Farms \cup {{}},
            lib : Libraries \cup {NoLibrary}, kex : KexType, path : 0..NPaths,
            reachable : SUBSET EndPointType, answered : SUBSET EndPointType,
            issues : SUBSET {"no quantum-safe end point", "TLS 1.2", "weak suite"}]

\* What is summarised has answered, and the verdict comes from the probe.
Collected ==
    /\ api \in ApiType
    /\ api.pc # "idle" => api.farm \in Farms
    /\ api.reachable = api.answered
    /\ api.kex.isPqc => \E b \in api.farm : Prefers(b)
    /\ api.pc = "done" => api.issues = Issues(api.reachable, api.kex)

LEMMA IdleApiCollected == IdleApi \in ApiType /\ Nothing.isPqc = FALSE
<1>1. Nothing \in KexType
  BY DEF Nothing, KexType
<1>2. Nothing.isPqc = FALSE
  BY DEF Nothing
<1>3. 0 \in 0..NPaths
  BY ScannersAssumption
<1>4. QED
  BY <1>1, <1>2, <1>3 DEF IdleApi, ApiType

LEMMA GradeTypes == \A s \in Suites : CipherGrade(s) \in Grades
<1>1. \A s \in CIPHER_DB : s.grade \in {"A", "B", "C", "D", "F"} /\ s.listed
  BY DEF CIPHER_DB, Listed
<1>2. \A s \in OtherSuites : ~s.listed
  BY DEF OtherSuites, Unlisted
<1>3. \A s : CipherGrade(s) = s.grade \/ (~s.listed /\ CipherGrade(s) \in Grades)
  BY DEF CipherGrade, Grades
<1>4. \A s \in CIPHER_DB : CipherGrade(s) \in Grades
  BY <1>1, <1>3 DEF Grades
<1>5. \A s \in OtherSuites : CipherGrade(s) \in Grades
  BY <1>2 DEF CipherGrade, Grades
<1>6. QED
  BY <1>4, <1>5 DEF Suites

\* The summary names the worst grade.
LEMMA WorstIsWorst ==
    ASSUME NEW eps, eps # {}, \A e \in eps : e.suite \in Suites
    PROVE  \A e \in eps : CipherGrade(e.suite) \in {"D", "F"} => WorstGrade(eps) \in {"D", "F"}
<1> DEFINE grades == {CipherGrade(e.suite) : e \in eps}
           Worst(g) == \A e \in eps : Rank[CipherGrade(e.suite)] <= Rank[g]
<1>1. grades \subseteq {"A", "B", "C", "D", "F"} /\ grades # {}
  BY GradeTypes DEF Grades
<1>2. /\ Rank["A"] = 1 /\ Rank["B"] = 2 /\ Rank["C"] = 3 /\ Rank["D"] = 4 /\ Rank["F"] = 5
  BY DEF Rank, Grades
<1>3. \A g \in grades : (\A h \in grades : Rank[h] <= Rank[g]) => Worst(g)
  OBVIOUS
<1>4. \E g \in grades : \A h \in grades : Rank[h] <= Rank[g]
  <2> HIDE DEF grades
  <2>1. CASE "F" \in grades
    BY <1>1, <1>2, <2>1
  <2>2. CASE "F" \notin grades /\ "D" \in grades
    BY <1>1, <1>2, <2>2
  <2>3. CASE grades \cap {"D", "F"} = {} /\ "C" \in grades
    BY <1>1, <1>2, <2>3
  <2>4. CASE grades \cap {"C", "D", "F"} = {} /\ "B" \in grades
    BY <1>1, <1>2, <2>4
  <2>5. CASE grades \cap {"B", "C", "D", "F"} = {}
    <3>1. "A" \in grades /\ \A h \in grades : h = "A"
      BY <1>1, <2>5
    <3>2. Rank["A"] <= Rank["A"]
      BY <1>2
    <3>3. QED
      BY <3>1, <3>2
  <2>6. QED
    BY <2>1, <2>2, <2>3, <2>4, <2>5
<1>5. WorstGrade(eps) \in grades /\ Worst(WorstGrade(eps))
  <2>1. \E g \in grades : Worst(g)
    BY <1>3, <1>4
  <2>2. WorstGrade(eps) = CHOOSE g \in grades : Worst(g)
    BY DEF WorstGrade
  <2> HIDE DEF grades, Worst
  <2>3. QED
    BY <2>1, <2>2
<1>6. ASSUME NEW e \in eps, CipherGrade(e.suite) \in {"D", "F"}
      PROVE  WorstGrade(eps) \in {"D", "F"}
  <2>1. Rank[CipherGrade(e.suite)] <= Rank[WorstGrade(eps)]
    BY <1>5, <1>6
  <2>2. WorstGrade(eps) \in {"A", "B", "C", "D", "F"}
    BY <1>1, <1>5
  <2>3. QED
    BY <1>2, <1>6, <2>1, <2>2
<1>7. QED
  BY <1>6

LEMMA ApiStepCollects ==
    ASSUME Collected, ApiStep
    PROVE  Collected'
<1>1. api \in ApiType /\ (api.pc # "idle" => api.farm \in Farms)
  BY DEF Collected
<1>8. api.path < NPaths => api.path + 1 \in 0..NPaths /\ api.path + 1 \in 1..NPaths
  <2>1. api.path \in 0..NPaths
    BY <1>1 DEF ApiType
  <2>2. QED
    BY <2>1, ScannersAssumption
<1>2. CASE DetectBase
  <2>1. api.pc = "kex" /\ api.farm \in Farms /\ api.farm \subseteq Servers
    BY <1>1, <1>2 DEF DetectBase, Servers
  <2>2. PICK r, s, kex :
           /\ r \in BadReplies \/ \E b \in api.farm : r = Answers(b, ALL_GROUPS)
           /\ kex = IF AsksAgain(AfterPrimary(r)) THEN AfterSecondary(AfterPrimary(r), s)
                    ELSE AfterPrimary(r)
           /\ api' = [api EXCEPT !.pc = "paths", !.kex = kex]
    BY <1>2 DEF DetectBase
  <2>3. AfterPrimary(r) \in KexType
    BY <2>1, <2>2, AfterPrimaryType, ProbeTypes, ProbeOfBadReply
  <2>4. AfterSecondary(AfterPrimary(r), s) \in KexType
    BY <2>3, AfterSecondaryType
  <2>5. AfterSecondary(AfterPrimary(r), s).isPqc = AfterPrimary(r).isPqc
    BY <2>3 DEF AfterSecondary, KexType
  <2>6. kex \in KexType /\ kex.isPqc = AfterPrimary(r).isPqc
    BY <2>2, <2>3, <2>4, <2>5
  <2>7. AfterPrimary(r).isPqc => \E b \in api.farm : Prefers(b)
    BY <2>1, <2>2, BadProbe, FirstProbe
  <2>8. /\ api' \in ApiType /\ api'.pc = "paths" /\ api'.farm = api.farm /\ api'.kex = kex
        /\ api'.reachable = api.reachable /\ api'.answered = api.answered
    BY <1>1, <2>2, <2>6 DEF ApiType
  <2>9. QED
    BY <2>1, <2>6, <2>7, <2>8 DEF Collected
<1>3. CASE QuickCheck
  <2>1. /\ api.pc = "paths" /\ api.farm \in Farms
        /\ api.path + 1 \in 0..NPaths /\ api.path + 1 \in 1..NPaths
    BY <1>1, <1>3, <1>8 DEF QuickCheck
  <2>2. CASE api' = [api EXCEPT !.path = @ + 1]
    <3>1. PICK path \in 0..NPaths : path = api.path + 1
      BY <2>1
    <3>2. api' = [api EXCEPT !.path = path]
      BY <2>2, <3>1
    <3>3. /\ api' \in ApiType /\ api'.pc = "paths" /\ api'.farm = api.farm /\ api'.kex = api.kex
          /\ api'.reachable = api.reachable /\ api'.answered = api.answered
      BY <1>1, <2>1, <3>2 DEF ApiType
    <3>4. QED
      BY <2>1, <3>3 DEF Collected
  <2>3. ASSUME NEW b \in api.farm, NEW status \in {"200", "404", "none"}, NEW v \in Shakes(b, api.lib),
               NEW ep, ep = [path |-> api.path + 1, version |-> v, suite |-> b.offers[v]],
               api' = [api EXCEPT !.path = @ + 1,
                          !.reachable = IF Found(status) THEN @ \cup {ep} ELSE @,
                          !.answered = IF status = "200" THEN @ \cup {ep} ELSE @]
        PROVE  Collected'
    <3>1. b \in Servers
      BY <2>1 DEF Servers
    <3>2. DOMAIN b.offers \subseteq Versions /\ \A w \in DOMAIN b.offers : b.offers[w] \in Suites
      BY <3>1, ScanFlowAssumption
    <3>3. v \in Modern /\ b.offers[v] \in Suites
      BY <3>2, Negotiation DEF Shakes
    <3>4. api.path + 1 \in 0..NPaths
      BY <2>1
    <3>5. ep \in EndPointType
      BY <2>1, <2>3, <3>3 DEF EndPointType
    <3>6. Found(status) <=> status = "200"
      BY DEF Found
    <3>7. PICK more \in {{}, {ep}} :
            api' = [api EXCEPT !.path = api.path + 1, !.reachable = api.reachable \cup more,
                               !.answered = api.answered \cup more]
      <4>1. CASE status = "200"
        BY <1>1, <2>3, <3>6, <4>1 DEF ApiType
      <4>2. CASE status # "200"
        <5>1. api' = [api EXCEPT !.path = api.path + 1, !.reachable = api.reachable,
                                 !.answered = api.answered]
          BY <2>3, <3>6, <4>2
        <5>2. api.reachable \cup {} = api.reachable /\ api.answered \cup {} = api.answered
          OBVIOUS
        <5>3. QED
          BY <5>1, <5>2
      <4>3. QED
        BY <4>1, <4>2
    <3>8. /\ api.reachable \cup more \in SUBSET EndPointType
          /\ api.answered \cup more \in SUBSET EndPointType
      BY <1>1, <3>5 DEF ApiType
    <3>9. /\ api' \in ApiType /\ api'.pc = "paths" /\ api'.farm = api.farm /\ api'.kex = api.kex
          /\ api'.reachable = api.reachable \cup more /\ api'.answered = api.answered \cup more
      BY <1>1, <2>1, <3>4, <3>7, <3>8 DEF ApiType
    <3>10. QED
      BY <2>1, <3>9 DEF Collected
  <2>4. QED
    BY <1>3, <2>2, <2>3 DEF QuickCheck
<1>4. CASE Summarise
  <2>1. api' = [api EXCEPT !.pc = "done", !.issues = Issues(api.reachable, api.kex)]
    BY <1>4 DEF Summarise
  <2>2. Issues(api.reachable, api.kex) \subseteq {"no quantum-safe end point", "TLS 1.2", "weak suite"}
    BY DEF Issues
  <2>3. /\ api' \in ApiType /\ api'.farm = api.farm /\ api'.kex = api.kex
        /\ api'.reachable = api.reachable /\ api'.answered = api.answered
        /\ api'.issues = Issues(api.reachable, api.kex)
    BY <1>1, <2>1, <2>2 DEF ApiType
  <2>4. api.farm \in Farms
    BY <1>1, <1>4 DEF Summarise
  <2>5. QED
    BY <2>3, <2>4 DEF Collected
<1>5. QED
  BY <1>2, <1>3, <1>4 DEF ApiStep

LEMMA CollectedAlways == ClientSpec => []Collected
<1>1. ASSUME api = IdleApi \/ \E farm \in Farms, lib \in Libraries :
                                 api = [IdleApi EXCEPT !.pc = "kex", !.farm = farm, !.lib = lib]
      PROVE  Collected
  <2>1. CASE api = IdleApi
    BY <2>1, IdleApiCollected DEF Collected, IdleApi
  <2>2. ASSUME NEW farm \in Farms, NEW lib \in Libraries,
               api = [IdleApi EXCEPT !.pc = "kex", !.farm = farm, !.lib = lib]
        PROVE  Collected
    <3>1. /\ api \in ApiType /\ api.pc = "kex" /\ api.farm = farm /\ api.kex = IdleApi.kex
          /\ api.reachable = IdleApi.reachable /\ api.answered = IdleApi.answered
      BY <2>2, IdleApiCollected DEF ApiType
    <3>2. IdleApi.kex = Nothing /\ IdleApi.reachable = IdleApi.answered
      BY DEF IdleApi
    <3>3. QED
      BY <3>1, <3>2, IdleApiCollected DEF Collected
  <2>3. QED
    BY <1>1, <2>1, <2>2
<1>2. ClientInit => Collected
  BY <1>1 DEF ClientInit, ScannersInit
<1>3. [ClientNext]_clientVars =>
        \/ api' = api \/ api' = IdleApi \/ ApiStep
        \/ \E farm \in Farms, lib \in Libraries :
              api' = [IdleApi EXCEPT !.pc = "kex", !.farm = farm, !.lib = lib]
  BY DEF ClientNext, clientVars, Begin, BeginApi, Works, Waits, Show
<1>4. Collected /\ [ClientNext]_clientVars => Collected'
  <2>1. api' = api /\ Collected => Collected'
    BY DEF Collected
  <2>2. \/ api' = IdleApi
        \/ \E farm \in Farms, lib \in Libraries :
              api' = [IdleApi EXCEPT !.pc = "kex", !.farm = farm, !.lib = lib]
        => Collected'
    <3>1. CASE api' = IdleApi
      BY <3>1, IdleApiCollected DEF Collected, IdleApi
    <3>2. ASSUME NEW farm \in Farms, NEW lib \in Libraries,
                 api' = [IdleApi EXCEPT !.pc = "kex", !.farm = farm, !.lib = lib]
          PROVE  Collected'
      <4>1. /\ api' \in ApiType /\ api'.pc = "kex" /\ api'.farm = farm /\ api'.kex = IdleApi.kex
            /\ api'.reachable = IdleApi.reachable /\ api'.answered = IdleApi.answered
        BY <3>2, IdleApiCollected DEF ApiType
      <4>2. IdleApi.kex = Nothing /\ IdleApi.reachable = IdleApi.answered
        BY DEF IdleApi
      <4>3. QED
        BY <4>1, <4>2, IdleApiCollected DEF Collected
    <3>3. QED
      BY <3>1, <3>2
  <2>3. QED
    BY <1>3, <2>1, <2>2, ApiStepCollects
<1>5. QED
  BY <1>2, <1>4, PTL DEF ClientSpec

\* api_scanner.py:177: one weak end point among many is not lost in the summary,
\* what is summarised has answered, nothing is called quantum safe that is not.
THEOREM WeakEndPoints == ClientSpec => []WeakEndPointReported
<1>1. Collected => WeakEndPointReported
  <2> SUFFICES ASSUME Collected, api.pc = "done"
               PROVE  WeakEndPointReported
    BY DEF WeakEndPointReported
  <2>1. /\ api.reachable = api.answered /\ api.issues = Issues(api.answered, api.kex)
        /\ \A e \in api.answered : e.suite \in Suites
    BY DEF Collected, ApiType, EndPointType
  <2>2. ASSUME NEW e \in api.answered
        PROVE  /\ CipherGrade(e.suite) \in {"D", "F"} => "weak suite" \in api.issues
               /\ e.version = "TLSv1.2" => "TLS 1.2" \in api.issues
    BY <2>1, <2>2, WorstIsWorst DEF Issues
  <2>3. ~api.kex.isPqc /\ api.answered # {} => "no quantum-safe end point" \in api.issues
    BY <2>1 DEF Issues
  <2>4. QED
    BY <2>1, <2>2, <2>3 DEF WeakEndPointReported, Collected
<1>2. QED
  BY <1>1, CollectedAlways, PTL

-----------------------------------------------------------------------------
(* The assistant *)

ChatType == [pc : {"idle", "call", "rule", "done", "failed"}, op : {"none", "chat", "explain", "status"},
             rule : Rules, known : BOOLEAN, model : 1..NModels, attempt : 0..2,
             source : {"none", "gemini", "rule-based"}, client : {"none", "waiting", "local"}]

LEMMA IdleChatType == IdleChat \in ChatType
<1>1. 1 \in 1..NModels /\ 0 \in 0..2
  BY AssistantAssumption
<1>2. QED
  BY <1>1 DEF IdleChat, ChatType, Rules

LEMMA AskAsks ==
    ASSUME NEW op \in {"chat", "explain", "status"}, NEW rule \in Rules, NEW known \in BOOLEAN,
           NEW key \in BOOLEAN, Ask(op, rule, known, key)
    PROVE  chat' \in ChatType
<1>1. PICK pc \in {"call", "rule"} :
        chat' = [IdleChat EXCEPT !.pc = pc, !.op = op, !.rule = rule, !.known = known,
                                 !.client = "waiting"]
  <2>1. (IF key THEN "call" ELSE "rule") \in {"call", "rule"}
    OBVIOUS
  <2>2. QED
    BY <2>1 DEF Ask
<1>2. QED
  BY <1>1, IdleChatType DEF ChatType

\* The steps of an answer keep the counters in their ranges.
LEMMA ChatStepTypes ==
    ASSUME chat \in ChatType, ChatStep \/ GiveUp
    PROVE  chat' \in ChatType
<1>1. /\ chat.model < NModels => chat.model + 1 \in 1..NModels
      /\ chat.attempt < Retries(chat.op) => chat.attempt + 1 \in 0..2
  <2>1. chat.model \in 1..NModels /\ chat.attempt \in 0..2 /\ Retries(chat.op) \in {0, 2}
    BY DEF ChatType, Retries
  <2>2. QED
    BY <2>1, AssistantAssumption
<1>2. CASE CallModel
  <2>1. chat.pc = "call"
    BY <1>2 DEF CallModel
  <2>2. CASE chat' = [chat EXCEPT !.pc = "done", !.source = "gemini"]
    BY <2>1, <2>2 DEF ChatType
  <2>3. CASE chat.attempt < Retries(chat.op) /\ chat' = [chat EXCEPT !.attempt = @ + 1]
    <3>1. PICK n \in 0..2 : chat' = [chat EXCEPT !.attempt = n]
      BY <1>1, <2>3
    <3>2. QED
      BY <2>1, <3>1 DEF ChatType
  <2>4. CASE chat' = NextModel
    <3>1. \/ \E n \in 1..NModels : chat' = [chat EXCEPT !.model = n, !.attempt = 0]
          \/ chat' = [chat EXCEPT !.pc = "rule"]
      BY <1>1, <2>4 DEF NextModel
    <3>2. CASE chat' = [chat EXCEPT !.pc = "rule"]
      BY <2>1, <3>2 DEF ChatType
    <3>3. ASSUME NEW n \in 1..NModels, NEW zero \in 0..2,
                 chat' = [chat EXCEPT !.model = n, !.attempt = zero]
          PROVE  chat' \in ChatType
      BY <3>3 DEF ChatType
    <3>4. 0 \in 0..2
      OBVIOUS
    <3>5. QED
      BY <2>1, <3>1, <3>2, <3>3, <3>4
  <2>5. CASE chat' = [chat EXCEPT !.pc = "failed"]
    BY <2>1, <2>5 DEF ChatType
  <2>6. QED
    BY <1>2, <2>2, <2>3, <2>4, <2>5 DEF CallModel
<1>3. CASE AnswerByRule
  <2>1. PICK pc \in {"failed", "done"} : chat' = [chat EXCEPT !.pc = pc, !.source = "rule-based"]
    BY <1>3 DEF AnswerByRule
  <2>2. QED
    BY <1>3, <2>1 DEF AnswerByRule, ChatType
<1>4. CASE GiveUp
  BY <1>4 DEF GiveUp, ChatType
<1>5. QED
  BY <1>2, <1>3, <1>4 DEF ChatStep

LEMMA ChatTyped == ClientSpec => [](chat \in ChatType)
<1>1. ClientInit => chat \in ChatType
  BY IdleChatType DEF ClientInit, ChatInit
<1>2. chat \in ChatType /\ [ClientNext]_clientVars => (chat \in ChatType)'
  <2> SUFFICES ASSUME chat \in ChatType, [ClientNext]_clientVars
               PROVE  chat' \in ChatType
    OBVIOUS
  <2>1. CASE chat' = chat \/ chat' = IdleChat
    BY <2>1, IdleChatType
  <2>2. CASE ChatStep \/ GiveUp
    BY <2>2, ChatStepTypes
  <2>3. ASSUME NEW op \in {"chat", "explain", "status"}, NEW rule \in Rules, NEW key \in BOOLEAN,
               Ask(op, rule, Known, key)
        PROVE  chat' \in ChatType
    <3>1. PICK known \in BOOLEAN : known = Known
      BY DEF Known
    <3>2. QED
      BY <2>3, <3>1, AskAsks
  <2>4. CASE Begin
    BY <2>1, <2>3, <2>4 DEF Begin, Rules
  <2>5. QED
    BY <2>1, <2>2, <2>4 DEF ClientNext, Works, Waits, Show, clientVars
<1>3. QED
  BY <1>1, <1>2, PTL DEF ClientSpec

-----------------------------------------------------------------------------
(* The probe of the VPN ports *)

EpType == [type : STRING, open : BOOLEAN, tls : BOOLEAN,
           assessment : {"PQC_READY", "TRANSITIONING", "VULNERABLE", "NOT_ASSESSED"}]

VpnIssues == {"PPTP", "TLS", "nothing open"}

OpenIn(eps) == {i \in 1..Len(eps) : eps[i].open}
PptpIn(eps) == \E i \in 1..Len(eps) : eps[i].open /\ eps[i].type = "PPTP"
TlsIn(eps) == \E i \in 1..Len(eps) : eps[i].tls

\* The two counts and the finding that is added at once agree with a list of
\* end points.
Tallies(eps, open, tls, issues) ==
    /\ Len(eps) <= Len(Ports)
    /\ open = Cardinality(OpenIn(eps))
    /\ tls <= open
    /\ tls > 0 <=> TlsIn(eps)
    /\ \A i \in 1..Len(eps) : eps[i].tls => eps[i].open /\ eps[i].assessment # "NOT_ASSESSED"
    /\ "PPTP" \in issues <=> PptpIn(eps)

\* The counts agree with the list at every port; the other two findings wait for
\* the end.
Probed ==
    \E pc \in {"idle", "ports", "done"}, eps \in Seq(EpType), open \in Nat, tls \in Nat,
       issues \in SUBSET VpnIssues :
          /\ vpn = [pc |-> pc, eps |-> eps, open |-> open, tls |-> tls, issues |-> issues]
          /\ Tallies(eps, open, tls, issues)
          /\ "TLS" \in issues <=> pc = "done" /\ tls > 0
          /\ "nothing open" \in issues <=> pc = "done" /\ open = 0

LEMMA OpenInFinite ==
    ASSUME NEW eps \in Seq(EpType)
    PROVE  OpenIn(eps) \subseteq 1..Len(eps) /\ IsFiniteSet(OpenIn(eps))
<1>1. Len(eps) \in Int /\ 1 \in Int
  OBVIOUS
<1>2. IsFiniteSet(1..Len(eps))
  BY <1>1, FS_Interval
<1>3. OpenIn(eps) \subseteq 1..Len(eps)
  BY DEF OpenIn
<1>4. QED
  BY <1>2, <1>3, FS_Subset

LEMMA NothingTallies == Tallies(<<>>, 0, 0, {})
<1>1. Len(<<>>) = 0 /\ 1..0 = {}
  OBVIOUS
<1>2. OpenIn(<<>>) = {} /\ ~TlsIn(<<>>) /\ ~PptpIn(<<>>)
  BY <1>1 DEF OpenIn, TlsIn, PptpIn
<1>3. Cardinality(OpenIn(<<>>)) = 0
  BY <1>2, FS_EmptySet
<1>4. Len(Ports) \in Nat
  BY ScannersAssumption
<1>5. QED
  BY <1>1, <1>2, <1>3, <1>4 DEF Tallies

\* One more end point, counted if it is open and if it speaks TLS.
LEMMA OneMoreTallies ==
    ASSUME NEW eps \in Seq(EpType), NEW open \in Nat, NEW tls \in Nat,
           NEW issues \in SUBSET VpnIssues, NEW ep \in EpType,
           Tallies(eps, open, tls, issues), Len(eps) < Len(Ports),
           ep.tls => ep.open /\ ep.assessment # "NOT_ASSESSED"
    PROVE  Tallies(Append(eps, ep), IF ep.open THEN open + 1 ELSE open,
                   IF ep.tls THEN tls + 1 ELSE tls,
                   IF ep.type = "PPTP" /\ ep.open THEN issues \cup {"PPTP"} ELSE issues)
<1>1. PICK list, n : list = Append(eps, ep) /\ n = Len(eps) + 1
  OBVIOUS
<1>2. PICK more, secure, found :
         /\ more = IF ep.open THEN open + 1 ELSE open
         /\ secure = IF ep.tls THEN tls + 1 ELSE tls
         /\ found = IF ep.type = "PPTP" /\ ep.open THEN issues \cup {"PPTP"} ELSE issues
  OBVIOUS
<1>3. /\ list \in Seq(EpType) /\ Len(list) = n /\ list[n] = ep
      /\ \A i \in 1..Len(eps) : list[i] = eps[i]
  BY <1>1
<1>4. 1..n = (1..Len(eps)) \cup {n} /\ n \notin 1..Len(eps) /\ n \in Nat
  BY <1>1
<1>5. ep.open \in BOOLEAN /\ ep.tls \in BOOLEAN
  BY DEF EpType
<1>6. OpenIn(list) = IF ep.open THEN OpenIn(eps) \cup {n} ELSE OpenIn(eps)
  BY <1>3, <1>4, <1>5 DEF OpenIn
<1>7. more = Cardinality(OpenIn(list))
  <2>1. open = Cardinality(OpenIn(eps))
    BY DEF Tallies
  <2>2. n \notin OpenIn(eps) /\ IsFiniteSet(OpenIn(eps))
    BY <1>4, OpenInFinite
  <2>3. Cardinality(OpenIn(eps) \cup {n}) = Cardinality(OpenIn(eps)) + 1
    BY <2>2, FS_AddElement
  <2>4. QED
    BY <1>2, <1>6, <2>1, <2>3
<1>8. secure <= more
  <2>1. tls <= open
    BY DEF Tallies
  <2>2. QED
    BY <1>2, <2>1
<1>9. secure > 0 <=> TlsIn(list)
  <2>1. tls > 0 <=> TlsIn(eps)
    BY DEF Tallies
  <2>2. TlsIn(list) <=> TlsIn(eps) \/ ep.tls
    BY <1>3, <1>4 DEF TlsIn
  <2>3. secure > 0 <=> tls > 0 \/ ep.tls
    BY <1>2
  <2>4. QED
    BY <2>1, <2>2, <2>3
<1>10. \A i \in 1..Len(list) : list[i].tls => list[i].open /\ list[i].assessment # "NOT_ASSESSED"
  <2>1. \A i \in 1..Len(eps) : eps[i].tls => eps[i].open /\ eps[i].assessment # "NOT_ASSESSED"
    BY DEF Tallies
  <2>2. QED
    BY <1>3, <1>4, <2>1
<1>11. "PPTP" \in found <=> PptpIn(list)
  <2>1. "PPTP" \in issues <=> PptpIn(eps)
    BY DEF Tallies
  <2>2. PptpIn(list) <=> PptpIn(eps) \/ (ep.open /\ ep.type = "PPTP")
    BY <1>3, <1>4 DEF PptpIn
  <2>3. "PPTP" \in found <=> "PPTP" \in issues \/ (ep.open /\ ep.type = "PPTP")
    BY <1>2
  <2>4. QED
    BY <2>1, <2>2, <2>3
<1>12. Len(list) <= Len(Ports)
  <2>1. Len(Ports) \in Nat
    BY ScannersAssumption
  <2>2. QED
    BY <1>1, <1>3, <2>1
<1>13. Tallies(list, more, secure, found)
  BY <1>7, <1>8, <1>9, <1>10, <1>11, <1>12 DEF Tallies
<1>14. QED
  BY <1>1, <1>2, <1>13

\* A probe that has not begun, or has no port behind it, has found nothing.
LEMMA NothingProbed ==
    ASSUME NEW pc \in {"idle", "ports"}, vpn = [IdleVpn EXCEPT !.pc = pc]
    PROVE  Probed
<1>1. vpn = [pc |-> pc, eps |-> <<>>, open |-> 0, tls |-> 0, issues |-> {}]
  BY DEF IdleVpn
<1>2. /\ <<>> \in Seq(EpType) /\ 0 \in Nat /\ {} \in SUBSET VpnIssues
      /\ pc \in {"idle", "ports", "done"} /\ pc # "done"
  OBVIOUS
<1>3. "TLS" \notin {} /\ "nothing open" \notin {}
  OBVIOUS
<1>4. QED
  BY <1>1, <1>2, <1>3, NothingTallies DEF Probed

\* What a port that is probed adds to the list: TLS is a kind of open, and is
\* assessed.
LEMMA ProbeFinds ==
    ASSUME NEW port \in [proto : {"UDP", "TCP"}, type : STRING], NEW p \in Probes(port.proto), NEW ep,
           ep = [type |-> port.type, open |-> p.open, tls |-> p.version # "none",
                 assessment |-> Assessment(port, p)]
    PROVE  /\ ep \in EpType
           /\ ep.tls => ep.open /\ ep.assessment # "NOT_ASSESSED"
           /\ ep.type = port.type /\ ep.open = p.open /\ (ep.tls <=> p.version # "none")
<1>1. /\ p.open \in BOOLEAN /\ p.version \in {"none", "TLSv1.3", "TLSv1.2", "TLSv1"}
      /\ p.version # "none" => p.open
  <2>1. \/ p = Closed \/ p = [open |-> TRUE, version |-> "none"]
        \/ p \in [open : {TRUE}, version : {"TLSv1.3", "TLSv1.2", "TLSv1"}]
    BY DEF Probes
  <2>2. CASE p = Closed
    BY <2>2 DEF Closed
  <2>3. CASE p = [open |-> TRUE, version |-> "none"]
    BY <2>3
  <2>4. CASE p \in [open : {TRUE}, version : {"TLSv1.3", "TLSv1.2", "TLSv1"}]
    BY <2>4
  <2>5. QED
    BY <2>1, <2>2, <2>3, <2>4
<1>2. /\ Assessment(port, p) \in {"PQC_READY", "TRANSITIONING", "VULNERABLE", "NOT_ASSESSED"}
      /\ p.version # "none" => Assessment(port, p) # "NOT_ASSESSED"
  <2>1. CASE port.type = "WireGuard"
    BY <1>1, <2>1 DEF Assessment
  <2>2. CASE port.type # "WireGuard"
    BY <1>1, <2>2 DEF Assessment
  <2>3. QED
    BY <2>1, <2>2
<1>3. PICK tls \in BOOLEAN : tls <=> p.version # "none"
  OBVIOUS
<1>4. ep = [type |-> port.type, open |-> p.open, tls |-> tls, assessment |-> Assessment(port, p)]
  BY <1>3
<1>5. QED
  BY <1>1, <1>2, <1>3, <1>4 DEF EpType

LEMMA ProbePortProbes ==
    ASSUME Probed, ProbePort
    PROVE  Probed'
<1>1. PICK pc \in {"idle", "ports", "done"}, eps \in Seq(EpType), open \in Nat, tls \in Nat,
           issues \in SUBSET VpnIssues :
              /\ vpn = [pc |-> pc, eps |-> eps, open |-> open, tls |-> tls, issues |-> issues]
              /\ Tallies(eps, open, tls, issues)
              /\ "TLS" \in issues <=> pc = "done" /\ tls > 0
              /\ "nothing open" \in issues <=> pc = "done" /\ open = 0
  BY DEF Probed
<1>2. pc = "ports" /\ vpn.eps = eps /\ Len(eps) < Len(Ports)
  BY <1>1 DEF ProbePort
<1>3. PICK port : port = Ports[Len(eps) + 1]
  OBVIOUS
<1>4. port \in [proto : {"UDP", "TCP"}, type : STRING]
  <2>1. Len(Ports) \in Nat
    BY ScannersAssumption
  <2>2. Len(eps) + 1 \in 1..Len(Ports)
    BY <1>2, <2>1
  <2> DEFINE PortType == [proto : {"UDP", "TCP"}, type : STRING]
  <2>3. Ports \in Seq(PortType)
    BY ScannersAssumption
  <2> HIDE DEF PortType
  <2>4. Ports[Len(eps) + 1] \in PortType
    BY <2>2, <2>3
  <2>5. QED
    BY <1>3, <2>4 DEF PortType
<1>5. PICK p \in Probes(port.proto) :
         vpn' = [vpn EXCEPT
                   !.eps = Append(@, [type |-> port.type, open |-> p.open, tls |-> p.version # "none",
                                      assessment |-> Assessment(port, p)]),
                   !.open = @ + Opens(p),
                   !.tls = @ + (IF p.version # "none" THEN 1 ELSE 0),
                   !.issues = IF port.type = "PPTP" /\ p.open THEN @ \cup {"PPTP"} ELSE @]
  BY <1>2, <1>3 DEF ProbePort
<1>6. PICK ep : ep = [type |-> port.type, open |-> p.open, tls |-> p.version # "none",
                      assessment |-> Assessment(port, p)]
  OBVIOUS
<1>7. /\ ep \in EpType
      /\ ep.tls => ep.open /\ ep.assessment # "NOT_ASSESSED"
      /\ ep.type = port.type /\ ep.open = p.open /\ (ep.tls <=> p.version # "none")
  BY <1>4, <1>5, <1>6, ProbeFinds
<1>8. PICK list, more, secure, found :
        /\ list = Append(eps, ep)
        /\ more = IF ep.open THEN open + 1 ELSE open
        /\ secure = IF ep.tls THEN tls + 1 ELSE tls
        /\ found = IF ep.type = "PPTP" /\ ep.open THEN issues \cup {"PPTP"} ELSE issues
  OBVIOUS
<1>9. vpn' = [pc |-> "ports", eps |-> list, open |-> more, tls |-> secure, issues |-> found]
  <2>1. vpn' = [pc |-> "ports", eps |-> Append(eps, ep), open |-> open + Opens(p),
                tls |-> tls + (IF p.version # "none" THEN 1 ELSE 0),
                issues |-> IF port.type = "PPTP" /\ p.open THEN issues \cup {"PPTP"} ELSE issues]
    BY <1>1, <1>2, <1>5, <1>6
  <2>2. open + Opens(p) = more
    BY <1>7, <1>8 DEF Opens
  <2>3. tls + (IF p.version # "none" THEN 1 ELSE 0) = secure
    BY <1>7, <1>8
  <2>4. (IF port.type = "PPTP" /\ p.open THEN issues \cup {"PPTP"} ELSE issues) = found
    BY <1>7, <1>8
  <2>5. QED
    BY <1>8, <2>1, <2>2, <2>3, <2>4
<1>10. Tallies(list, more, secure, found)
  BY <1>1, <1>2, <1>7, <1>8, OneMoreTallies
<1>11. list \in Seq(EpType) /\ more \in Nat /\ secure \in Nat /\ found \in SUBSET VpnIssues
  <2>1. list \in Seq(EpType)
    BY <1>7, <1>8
  <2>2. more \in Nat /\ secure \in Nat
    BY <1>8
  <2>3. found \in SUBSET VpnIssues
    BY <1>8 DEF VpnIssues
  <2>4. QED
    BY <2>1, <2>2, <2>3
<1>12. "TLS" \notin found /\ "nothing open" \notin found
  BY <1>1, <1>2, <1>8
<1>13. "ports" \in {"idle", "ports", "done"} /\ "ports" # "done"
  OBVIOUS
<1>14. QED
  BY <1>9, <1>10, <1>11, <1>12, <1>13 DEF Probed

LEMMA ConcludeProbes ==
    ASSUME Probed, Conclude
    PROVE  Probed'
<1>1. PICK pc \in {"idle", "ports", "done"}, eps \in Seq(EpType), open \in Nat, tls \in Nat,
           issues \in SUBSET VpnIssues :
              /\ vpn = [pc |-> pc, eps |-> eps, open |-> open, tls |-> tls, issues |-> issues]
              /\ Tallies(eps, open, tls, issues)
              /\ "TLS" \in issues <=> pc = "done" /\ tls > 0
              /\ "nothing open" \in issues <=> pc = "done" /\ open = 0
  BY DEF Probed
<1>2. pc = "ports"
  BY <1>1 DEF Conclude
<1>3. PICK found : found = issues \cup (IF tls > 0 THEN {"TLS"} ELSE {})
                                  \cup (IF open = 0 THEN {"nothing open"} ELSE {})
  OBVIOUS
<1>4. vpn' = [pc |-> "done", eps |-> eps, open |-> open, tls |-> tls, issues |-> found]
  BY <1>1, <1>3 DEF Conclude
<1>5. /\ found \in SUBSET VpnIssues
      /\ "PPTP" \in found <=> "PPTP" \in issues
      /\ "TLS" \in found <=> tls > 0
      /\ "nothing open" \in found <=> open = 0
  BY <1>1, <1>2, <1>3 DEF VpnIssues
<1>6. Tallies(eps, open, tls, found)
  BY <1>1, <1>5 DEF Tallies
<1>7. "done" \in {"idle", "ports", "done"}
  OBVIOUS
<1>8. QED
  BY <1>4, <1>5, <1>6, <1>7 DEF Probed

LEMMA ProbedAlways == ClientSpec => []Probed
<1>1. IdleVpn = [IdleVpn EXCEPT !.pc = "idle"]
  BY DEF IdleVpn
<1>2. ClientInit => Probed
  BY <1>1, NothingProbed DEF ClientInit, ScannersInit
<1>3. Probed /\ [ClientNext]_clientVars => Probed'
  <2> SUFFICES ASSUME Probed, [ClientNext]_clientVars
               PROVE  Probed'
    OBVIOUS
  <2>1. vpn' = vpn \/ vpn' = IdleVpn \/ vpn' = [IdleVpn EXCEPT !.pc = "ports"] \/ VpnStep
    BY DEF ClientNext, clientVars, Begin, BeginVpn, Works, Waits, Show
  <2>2. CASE vpn' = vpn
    BY <2>2 DEF Probed
  <2>3. ASSUME NEW pc \in {"idle", "ports"}, vpn' = [IdleVpn EXCEPT !.pc = pc]
        PROVE  Probed'
    <3>1. vpn' = [pc |-> pc, eps |-> <<>>, open |-> 0, tls |-> 0, issues |-> {}]
      BY <2>3 DEF IdleVpn
    <3>2. /\ <<>> \in Seq(EpType) /\ 0 \in Nat /\ {} \in SUBSET VpnIssues
          /\ pc \in {"idle", "ports", "done"} /\ pc # "done"
      OBVIOUS
    <3>3. "TLS" \notin {} /\ "nothing open" \notin {}
      OBVIOUS
    <3>4. QED
      BY <3>1, <3>2, <3>3, NothingTallies DEF Probed
  <2>4. QED
    BY <1>1, <2>1, <2>2, <2>3, ProbePortProbes, ConcludeProbes DEF VpnStep
<1>4. QED
  BY <1>2, <1>3, PTL DEF ClientSpec

\* api_scanner.py:412: the findings and the counts of a probe of any list of
\* ports agree with the list of end points it returns, and each TLS end point is
\* assessed.
THEOREM VpnProbe == ClientSpec => []VpnIssuesComplete
<1>1. Probed => VpnIssuesComplete
  <2> SUFFICES ASSUME Probed, vpn.pc = "done"
               PROVE  VpnIssuesComplete
    BY DEF VpnIssuesComplete
  <2>0. PICK pc \in {"idle", "ports", "done"}, eps \in Seq(EpType), open \in Nat, tls \in Nat,
             issues \in SUBSET VpnIssues :
              /\ vpn = [pc |-> pc, eps |-> eps, open |-> open, tls |-> tls, issues |-> issues]
              /\ Tallies(eps, open, tls, issues)
              /\ "TLS" \in issues <=> pc = "done" /\ tls > 0
              /\ "nothing open" \in issues <=> pc = "done" /\ open = 0
    BY DEF Probed
  <2>1. /\ vpn = [pc |-> "done", eps |-> eps, open |-> open, tls |-> tls, issues |-> issues]
        /\ Tallies(eps, open, tls, issues)
        /\ "TLS" \in issues <=> tls > 0
        /\ "nothing open" \in issues <=> open = 0
    <3>1. pc = "done"
      BY <2>0
    <3>2. QED
      BY <2>0, <3>1
  <2>2. vpn.eps = eps /\ vpn.open = open /\ vpn.issues = issues /\ DOMAIN eps = 1..Len(eps)
    <3>1. DOMAIN eps = 1..Len(eps)
      OBVIOUS
    <3>2. QED
      BY <2>1, <3>1
  <2>3. OpenPorts = OpenIn(eps)
    BY <2>2 DEF OpenPorts, OpenIn
  <2>4. OpenIn(eps) = {} <=> open = 0
    BY <2>1, OpenInFinite, FS_EmptySet DEF Tallies
  <2>5. "PPTP" \in issues <=> \E i \in OpenPorts : eps[i].type = "PPTP"
    BY <2>1, <2>3 DEF Tallies, PptpIn, OpenIn
  <2>6. "TLS" \in issues <=> \E i \in 1..Len(eps) : eps[i].tls
    BY <2>1 DEF Tallies, TlsIn
  <2>7. \A i \in 1..Len(eps) : eps[i].tls => eps[i].assessment # "NOT_ASSESSED"
    BY <2>1 DEF Tallies
  <2>8. open = Cardinality(OpenPorts)
    BY <2>1, <2>3 DEF Tallies
  <2>9. QED
    BY <2>1, <2>2, <2>3, <2>4, <2>5, <2>6, <2>7, <2>8 DEF VpnIssuesComplete
<1>2. QED
  BY <1>1, ProbedAlways, PTL

-----------------------------------------------------------------------------
(* The types of everything the client uses *)

Page == shown \in {"nothing", "report", "failure"}

LEMMA VpnTyped ==
    ASSUME Probed
    PROVE  /\ vpn.pc \in {"idle", "ports", "done"} /\ Len(vpn.eps) \in 0..Len(Ports)
           /\ vpn.open \in 0..Len(Ports) /\ vpn.tls \in 0..vpn.open
           /\ vpn.issues \subseteq {"PPTP", "TLS", "nothing open"}
<1>1. PICK pc \in {"idle", "ports", "done"}, eps \in Seq(EpType), open \in Nat, tls \in Nat,
           issues \in SUBSET VpnIssues :
              /\ vpn = [pc |-> pc, eps |-> eps, open |-> open, tls |-> tls, issues |-> issues]
              /\ Tallies(eps, open, tls, issues)
  BY DEF Probed
<1>2. Len(eps) \in Nat /\ Len(Ports) \in Nat /\ Len(eps) <= Len(Ports)
  BY <1>1, ScannersAssumption DEF Tallies
<1>3. IsFiniteSet(1..Len(eps)) /\ Cardinality(1..Len(eps)) = Len(eps)
  <2>1. 1 \in Int /\ Len(eps) \in Int
    BY <1>2
  <2>2. /\ IsFiniteSet(1..Len(eps))
        /\ Cardinality(1..Len(eps)) = IF 1 > Len(eps) THEN 0 ELSE Len(eps) - 1 + 1
    BY <2>1, FS_Interval
  <2>3. QED
    BY <1>2, <2>2
<1>4. Cardinality(OpenIn(eps)) <= Len(eps)
  BY <1>3, OpenInFinite, FS_Subset
<1>5. open \in 0..Len(Ports) /\ tls \in 0..open
  BY <1>1, <1>2, <1>4 DEF Tallies
<1>6. Len(eps) \in 0..Len(Ports)
  BY <1>2
<1>7. QED
  BY <1>1, <1>5, <1>6 DEF VpnIssues

LEMMA PageAlways == ClientSpec => []Page
<1>1. ClientInit => Page
  BY DEF ClientInit, Page
<1>2. Page /\ [ClientNext]_clientVars => Page'
  BY DEF Page, ClientNext, clientVars, Begin, Works, Waits, Show
<1>3. QED
  BY <1>1, <1>2, PTL DEF ClientSpec

\* Every variable of the client has its type: no counter of the scanners or of
\* the assistant leaves its range, for any number of paths, ports and models.
THEOREM ClientTypes == ClientSpec => []ClientTypeOK
<1>1. ScanInv /\ Collected /\ Probed /\ chat \in ChatType /\ Page => ClientTypeOK
  <2> SUFFICES ASSUME ScanInv, Collected, Probed, chat \in ChatType, Page
               PROVE  ClientTypeOK
    OBVIOUS
  <2>1. /\ api.pc \in {"idle", "kex", "paths", "done"} /\ api.path \in 0..NPaths
        /\ api.reachable \subseteq [path : 1..NPaths, version : Modern, suite : Suites]
        /\ api.issues \subseteq {"no quantum-safe end point", "TLS 1.2", "weak suite"}
    BY DEF Collected, ApiType, EndPointType
  <2>2. QED
    BY <2>1, VpnTyped DEF ClientTypeOK, ScanInv, ChatType, Page
<1>2. QED
  BY <1>1, ScanTypes, CollectedAlways, ProbedAlways, ChatTyped, PageAlways, PTL
=============================================================================
