------------------------------ MODULE ScanFlow ------------------------------
(***************************************************************************)
(* scan_tls_target (scanner_service.py): one deep scan of a name.  Every   *)
(* step is a connection of its own and may reach another of the back ends  *)
(* behind the name, or fail; the scan pieces one report together from all  *)
(* of them.  Three paths: a verified handshake; one without verification   *)
(* after a certificate error; one with the security level lowered after    *)
(* any other TLS error.                                                    *)
(*                                                                         *)
(* Abstracted: a back end picks one suite per version; the TLS library is  *)
(* the suites and versions its contexts accept; the CBOM and the recommen- *)
(* dations are left out.                                                   *)
(***************************************************************************)
EXTENDS PqcScore, KexProbe, DnsOcsp

CONSTANTS
    Farms,      \* sets of back ends that may be behind a name
    Libraries,  \* records [default, lowered: sets of suites, old: BOOLEAN]
    Zones,      \* records [has: SUBSET Queries, ad: "on" or "off"]
    MaxFaults   \* connections of one scan that fail

VARIABLE scan

Servers == UNION Farms

NoCert == [keyType |-> "", bits |-> 0, days |-> 999, selfSigned |-> FALSE, ct |-> FALSE,
           sha1 |-> FALSE, ocspUrl |-> FALSE]
Unreadable == [NoCert EXCEPT !.keyType = "Unknown"]

\* The key types get_cert_details tells apart.
KeyTypes == {"RSA", "ECDSA", "DSA", "Ed25519", "Ed448", "Unknown", ""}

\* What a server may present, and what a report says of it.
CertType == [keyType : KeyTypes \cup PqcKeyTypes, bits : Nat, days : Int, selfSigned : BOOLEAN,
             ct : BOOLEAN, sha1 : BOOLEAN, ocspUrl : BOOLEAN]

\* TLS 1.3 has suites of its own.
ASSUME ScanFlowAssumption ==
    /\ \A farm \in Farms : farm # {} /\ IsFiniteSet(farm)
    /\ \A b \in Servers :
          /\ DOMAIN b.offers \subseteq Versions
          /\ \A v \in DOMAIN b.offers : b.offers[v] \in Suites
          /\ "TLSv1.3" \in DOMAIN b.offers =>
                {"TLS_AES", "TLS_CHACHA"} \cap b.offers["TLSv1.3"].marks # {}
          /\ b.hsts \in BOOLEAN
          /\ b.groups \in Seq(ALL_GROUPS)
          /\ b.cert \in CertType
    /\ \A z \in Zones : z.has \subseteq Queries /\ z.ad \in {"on", "off"}
    /\ MaxFaults \in Nat

NoHttp == [hsts |-> FALSE, answered |-> FALSE]
NoDns == [present |-> {}, dnssec |-> Unknown, issues |-> {}]
NoSuite == Unlisted({})
NoLibrary == [default |-> {}, lowered |-> {}, old |-> FALSE]
IdleScan == [pc |-> "idle", path |-> "none", farm |-> {}, lib |-> NoLibrary, faults |-> 0,
             status |-> "unknown", version |-> "none", suite |-> NoSuite, cert |-> NoCert,
             supported |-> {}, dns |-> NoDns, http |-> NoHttp, ocsp |-> NotChecked, kex |-> Nothing]

-----------------------------------------------------------------------------
(* What a back end does with a connection *)

Order == [v \in Versions |-> CASE v = "TLSv1.3" -> 4 [] v = "TLSv1.2" -> 3
                               [] v = "TLSv1.1" -> 2 [] OTHER -> 1]

\* The highest version among allowed that both sides have a suite for; {} if none.
Negotiates(b, allowed, suites) ==
    LET common == {v \in DOMAIN b.offers \cap allowed : b.offers[v] \in suites}
    IN  {v \in common : \A w \in common : Order[w] <= Order[v]}

Modern == {"TLSv1.2", "TLSv1.3"}

Shakes(b, lib) == Negotiates(b, Modern, lib.default)

\* Mutant: the second context is built like the first one.
ShakesLoweredNot(b, lib) == Negotiates(b, Modern, lib.default)

\* minimum_version TLSv1 and set_ciphers("ALL:@SECLEVEL=0").
ShakesLowered(b, lib) == Negotiates(b, Versions, lib.lowered)

\* _detect_supported_tls_versions pins one version; the third strategy, a call
\* of the openssl program, asks for a protocol and excludes others at once,
\* which that program refuses.
Accepts(b, lib, v) == /\ v \in DOMAIN b.offers
                      /\ b.offers[v] \in lib.default
                      /\ v \in Modern \/ lib.old

\* A server without TLS 1.3 answers an alert; one with it names the first of
\* its groups that was offered.
Answers(b, groups) ==
    LET usable == {i \in 1..Len(b.groups) : b.groups[i] \in groups}
    IN  IF "TLSv1.3" \notin DOMAIN b.offers \/ usable = {} THEN <<Alert>>
        ELSE <<ServerHello(b.groups[CHOOSE i \in usable : \A j \in usable : i <= j]), ChangeCipherSpec>>

\* Replies of a back end, and what may come instead.
BadReplies == { NoConnection, <<>>, <<CutAlert>>, <<ChangeCipherSpec, OtherHandshake>>,
                [i \in 1..MaxRecords |-> ChangeCipherSpec] }

-----------------------------------------------------------------------------
(* Steps *)

At(pc) == scan.pc = pc
MayFail == scan.faults < MaxFaults
Moves(new) == scan' = new
Fails(new) == MayFail /\ Moves([new EXCEPT !.faults = @ + 1])

BeginScan(farm, lib) ==
    /\ At("idle")
    /\ Moves([IdleScan EXCEPT !.pc = "connect", !.path = "verified", !.farm = farm, !.lib = lib])

\* get_cert_details; x509 may not read a certificate OpenSSL has accepted, and
\* no branch knows a post-quantum key.
Certs(b) == {c \in {b.cert} : c.keyType \in KeyTypes} \cup (IF b.cert = NoCert THEN {} ELSE {Unreadable})

\* Mutant: the certificate is fetched over a connection of its own.
MeasuresTwice(b, versions) ==
    \E v \in versions, d \in scan.farm : \E c \in Certs(d) :
        Moves([scan EXCEPT !.pc = "versions", !.version = Negotiated(v), !.suite = b.offers[v],
                           !.cert = c])

\* The version, suite and certificate of one connection that negotiates.
Measures(b, versions) ==
    \E v \in versions, c \in Certs(b) :
        Moves([scan EXCEPT !.pc = "versions", !.version = Negotiated(v), !.suite = b.offers[v],
                           !.cert = c])

\* The first handshake.  The default context refuses a certificate that is not
\* trusted before anything is measured.
ConnectVerified ==
    /\ At("connect") /\ scan.path = "verified"
    /\ \/ \E b \in scan.farm : b.trusted /\ Measures(b, Shakes(b, scan.lib))
       \/ \E b \in scan.farm :
             /\ Shakes(b, scan.lib) # {} /\ ~b.trusted
             /\ Moves([scan EXCEPT !.path = "unverified"])

\* Mutant: a TLS error is answered with the same handshake again.
FallbackRetries == "verified"

\* Where a TLS error that is not about the certificate leads.
Fallback == "legacy"

TlsError ==
    /\ At("connect") /\ scan.path = "verified"
    /\ \/ /\ \E b \in scan.farm : Shakes(b, scan.lib) = {}
          /\ Moves([scan EXCEPT !.path = Fallback])
       \/ Fails([scan EXCEPT !.path = Fallback])

\* socket.timeout, gaierror, ConnectionRefusedError, anything else.
ConnectionError(status) ==
    /\ At("connect") /\ scan.path = "verified"
    /\ Fails([scan EXCEPT !.pc = "done", !.status = status])

\* The lowered handshake measures without verification, or the scan ends.
ConnectLegacy ==
    /\ At("connect") /\ scan.path = "legacy"
    /\ \/ \E b \in scan.farm : Measures(b, ShakesLowered(b, scan.lib))
       \/ /\ \E b \in scan.farm : ShakesLowered(b, scan.lib) = {}
          /\ Moves([scan EXCEPT !.pc = "done", !.status = "error"])
       \/ Fails([scan EXCEPT !.pc = "done", !.status = "error"])

\* The handshake without verification.  Its failure calls _infer_from_hostname,
\* which does not exist: the NameError leaves scan_tls_target.
ConnectUnverified ==
    /\ At("connect") /\ scan.path = "unverified"
    /\ \/ \E b \in scan.farm : Measures(b, Shakes(b, scan.lib))
       \/ /\ \E b \in scan.farm : Shakes(b, scan.lib) = {}
          /\ Moves([scan EXCEPT !.pc = "raised"])
       \/ Fails([scan EXCEPT !.pc = "raised"])

\* Only the verified path asks the responder and probes for the group, and only
\* it looks the name up before it fetches the headers.
Following(pc) ==
    IF scan.path = "verified"
    THEN CASE pc = "versions" -> "dns" [] pc = "dns" -> "http" [] OTHER -> "ocsp"
    ELSE CASE pc = "versions" -> "http" [] pc = "http" -> "dns" [] OTHER -> "score"

\* One connection per version; all errors count as not accepted.
ProbeVersions ==
    /\ At("versions")
    /\ LET all(v) == \A b \in scan.farm : Accepts(b, scan.lib, v)
           some == {v \in Versions : \E b \in scan.farm : Accepts(b, scan.lib, v)}
       IN \E vs \in SUBSET some :
             LET missed == Cardinality({v \in some \ vs : all(v)})
             IN /\ scan.faults + missed <= MaxFaults
                /\ Moves([scan EXCEPT !.pc = Following("versions"), !.supported = vs, !.faults = @ + missed])

\* check_dns_security; a host without a resolver configuration raises.
LookUp ==
    /\ At("dns")
    /\ \/ \E z \in Zones, lost \in {{}} \cup {{q} : q \in Queries} :
             LET answers == [q \in Queries |-> IF q \in lost THEN "failed"
                                               ELSE IF q \in z.has THEN "records" ELSE "none"]
             IN /\ scan.faults + Cardinality(lost) <= MaxFaults
                /\ Moves([scan EXCEPT !.pc = Following("dns"), !.dns = CheckDns(answers, z.ad),
                                      !.faults = @ + Cardinality(lost)])
       \/ IF scan.path = "unverified"
          THEN Fails([scan EXCEPT !.pc = "raised"])
          ELSE Fails([scan EXCEPT !.pc = "done", !.status = "error"])

\* check_http_security_headers: the default context without verification.  An
\* error, of the handshake or of the page, leaves the headers out.
FetchHeaders ==
    /\ At("http")
    /\ \/ \E b \in scan.farm :
             IF Shakes(b, scan.lib) # {}
             THEN Moves([scan EXCEPT !.pc = Following("http"), !.http = [hsts |-> b.hsts, answered |-> TRUE]])
             ELSE Moves([scan EXCEPT !.pc = Following("http")])
       \/ Fails([scan EXCEPT !.pc = Following("http")])

\* The certificate measured first is asked about; without one nothing is asked.
\* The issuer's certificate may not be had, and nothing ties the verdict to the
\* certificate: no signature, serial number or date of the answer is looked at.
AskResponder ==
    /\ At("ocsp")
    /\ LET done(issuer, answer) == [scan EXCEPT !.pc = "probe",
                                       !.ocsp = CheckOcsp(scan.cert.ocspUrl, issuer, answer)]
       IN  \/ \E answer \in {"good", "revoked", "unknown", "refused"} : Moves(done(TRUE, answer))
           \/ Moves(done(FALSE, "error"))
           \/ Fails(done(TRUE, "error"))

ProbeGroups ==
    /\ At("probe")
    /\ LET next(kex) == [scan EXCEPT !.pc = IF AsksAgain(kex) THEN "probe again" ELSE "score",
                                     !.kex = kex]
       IN  \/ \E b \in scan.farm : Moves(next(AfterPrimary(Answers(b, ALL_GROUPS))))
           \/ \E r \in BadReplies : Fails(next(AfterPrimary(r)))

ProbePqcGroups ==
    /\ At("probe again")
    /\ LET next(r) == [scan EXCEPT !.pc = "score", !.kex = AfterSecondary(scan.kex, r)]
       IN  \/ \E b \in scan.farm : Moves(next(Answers(b, PQC_GROUPS)))
           \/ \E r \in BadReplies : Fails(next(r))

\* The result is updated with everything at once.
Success == [verified |-> "success", unverified |-> "success_unverified", legacy |-> "success_legacy"]

Report ==
    /\ At("score")
    /\ Moves([scan EXCEPT !.pc = "done", !.status = Success[scan.path]])

ScanStep ==
    \/ ConnectVerified \/ TlsError \/ ConnectLegacy \/ ConnectUnverified
    \/ \E status \in {"timeout", "dns_error", "connection_refused", "error"} : ConnectionError(status)
    \/ ProbeVersions \/ LookUp \/ FetchHeaders \/ AskResponder
    \/ ProbeGroups \/ ProbePqcGroups \/ Report

ScanInit == scan = IdleScan
ScanNext == (\E farm \in Farms, lib \in Libraries : BeginScan(farm, lib)) \/ ScanStep
ScanSpec == ScanInit /\ [][ScanNext]_scan

-----------------------------------------------------------------------------
(* The report *)

Reported == scan.status \in {"success", "success_unverified", "success_legacy"}

\* The line of the report: what the probe saw on the wire, or the heuristic.
KeyExchange ==
    CASE scan.kex.isPqc -> "hybrid"
      [] ~scan.kex.isPqc /\ scan.kex.group # NoGroup -> "vulnerable"
      [] OTHER -> DetectKeyExchange(scan.suite, scan.version)

\* The argument of calculate_pqc_score.
Facts == [version |-> scan.version, suite |-> scan.suite, kex |-> KeyExchange, pqc |-> scan.kex.isPqc,
          keyType |-> scan.cert.keyType, bits |-> scan.cert.bits, supported |-> scan.supported,
          days |-> scan.cert.days, hsts |-> scan.http.hsts, ct |-> scan.cert.ct,
          selfSigned |-> scan.cert.selfSigned, sha1 |-> scan.cert.sha1]

Vulnerabilities == CheckVulnerabilities(scan.suite, scan.version, scan.supported)

\* Every field of a scan has its type.
ScanType ==
    [pc : {"idle", "connect", "versions", "dns", "http", "ocsp", "probe", "probe again", "score",
           "done", "raised"},
     path : {"none", "verified", "unverified", "legacy"},
     farm : Farms \cup {{}}, lib : Libraries \cup {NoLibrary}, faults : 0..MaxFaults,
     status : {"unknown", "success", "success_unverified", "success_legacy", "timeout", "dns_error",
               "connection_refused", "error"},
     version : {Negotiated(v) : v \in Versions} \cup {"none"},
     suite : Suites \cup {NoSuite},
     cert : {c \in {s.cert : s \in Servers} : c.keyType \in KeyTypes} \cup {NoCert, Unreadable},
     supported : SUBSET Versions,
     dns : [present : SUBSET Queries, dnssec : {"on", "off", Unknown},
            issues : SUBSET {"CAA", "AAAA", "DNSSEC"}],
     http : [hsts : BOOLEAN, answered : BOOLEAN],
     ocsp : [check : {"not_checked", "url_present_not_queried", "good", "revoked", "unknown",
                      "refused", "error"}, revoked : {"yes", "no", Unknown}],
     kex : [tls13 : BOOLEAN, group : ALL_GROUPS \cup {NoGroup}, isPqc : BOOLEAN,
            pqcSupported : BOOLEAN, error : BOOLEAN]]
ScanTypeOK == scan \in ScanType

Alone == Cardinality(scan.farm) = 1
Undisturbed == Alone /\ scan.faults = 0

\* scanner_service.py:963, "report an honest error rather than fabricating
\* results": a scan of one back end without a failed connection ends with a
\* report, unless the back end accepts not even the lowered handshake.
FailureHasACause ==
    Undisturbed /\ scan.pc \in {"done", "raised"} =>
        \/ Reported
        \/ \A b \in scan.farm : \A v \in DOMAIN b.offers : b.offers[v] \notin scan.lib.lowered

\* README and ai.py:76, the probe "CAN see" the group on the wire: a report says
\* post-quantum only if a back end chooses such a group over the classical ones.
\* For an undisturbed scan of one back end it says so exactly then, provided that
\* the certificate was trusted: the other two paths never probe.
Offers13(b) == "TLSv1.3" \in DOMAIN b.offers /\ b.groups # <<>>
Prefers(b) == Offers13(b) /\ b.groups[1] \in PQC_GROUPS
Supports(b) == Offers13(b) /\ \E i \in 1..Len(b.groups) : b.groups[i] \in PQC_GROUPS
PqcVerdictExact ==
    Reported =>
        /\ scan.kex.isPqc => scan.path = "verified" /\ \E b \in scan.farm : Prefers(b)
        /\ Undisturbed /\ scan.path = "verified" =>
              \A b \in scan.farm : /\ scan.kex.isPqc <=> Prefers(b)
                                   /\ scan.kex.pqcSupported <=> Supports(b)

\* scanner_service.py:733, a server with "ML-KEM key exchange but a classical
\* (RSA/ECDSA) certificate" is the one labelled "quantum-safe key exchange".  The
\* label reads the score only, so what keeps it true is the sum of some twenty
\* deductions: only a target that chose a post-quantum group on the wire gets it,
\* or one whose key costs little (RSA from 4096 bits) or nothing (no branch of the
\* score is for Ed448 or a certificate that could not be read).
CheapKey(m) == (m.keyType = "RSA" /\ m.bits >= 4096) \/ m.keyType \in {"Ed448", "Unknown", ""}
SafeLabelMeansPqc ==
    Reported /\ Label(Facts) \in {"Fully Quantum Safe", "quantum-safe key exchange"} =>
        Facts.pqc \/ CheapKey(Facts)

\* The score orders targets: the same report with one fact better never scores
\* less.  The one exception is TLS 1.0: no deduction applies to "TLSv1".
Better(m) ==
    {[m EXCEPT !.selfSigned = FALSE], [m EXCEPT !.ct = TRUE], [m EXCEPT !.hsts = TRUE],
     [m EXCEPT !.sha1 = FALSE], [m EXCEPT !.days = 365], [m EXCEPT !.kex = "safe"],
     [m EXCEPT !.pqc = TRUE], [m EXCEPT !.bits = 2048], [m EXCEPT !.bits = 4096]}
      \cup {[m EXCEPT !.supported = @ \ {v}] : v \in {"TLSv1.0", "TLSv1.1"}}
      \cup {[m EXCEPT !.version = v] : v \in {"TLSv1.3"} \cup (IF m.version = "TLSv1.1" THEN {"TLSv1.2"} ELSE {})}
      \cup {[m EXCEPT !.suite = s] :
              s \in {x \in Suites : /\ HasForwardSecrecy(x) /\ x.marks \cap {"AES256", "CHACHA20"} # {}
                                    /\ "GCM" \in x.marks}}
BetterNeverScoresLess ==
    Reported => \A n \in Better(Facts) : n.bits >= Facts.bits => Score(Facts) <= Score(n)

\* scanner_service.py:465, "Cross-reference scan results against known
\* vulnerability database": a broken suite brings a vulnerability of its own, not
\* only HNDL.  Only a handshake in TLS 1.0 may bring none, because no entry
\* affects a version called "TLSv1".
BrokenSuiteIsFlagged ==
    Reported /\ scan.suite.marks \cap {"RC4", "NULL", "DES", "MD5"} # {} =>
        \/ Vulnerabilities \ {"HNDL"} # {}
        \/ scan.version = "TLSv1" /\ scan.supported \subseteq {"TLSv1.3"}

\* scanner_service.py:963, "report an honest error rather than fabricating
\* results": though a scan pieces its report together from many connections and
\* any of them may fail, all it reports was observed.  The version, the suite and
\* the certificate are those of one connection to one back end; a version, a
\* header, a group or a record is there only if somebody sent it; and a revocation
\* status is what a responder named in that certificate answered.  (What is
\* missing may be missing because a query failed.)
NothingInvented ==
    /\ Reported => \E b \in scan.farm : \E v \in DOMAIN b.offers :
          scan.version = Negotiated(v) /\ scan.suite = b.offers[v] /\ scan.cert \in Certs(b)
    /\ \A v \in scan.supported : \E b \in scan.farm : v \in DOMAIN b.offers
    /\ scan.http.hsts => \E b \in scan.farm : b.hsts
    /\ scan.kex.group # NoGroup => \E b \in scan.farm : \E i \in 1..Len(b.groups) : scan.kex.group = b.groups[i]
    /\ scan.dns # NoDns =>
          \E z \in Zones : scan.dns.present \subseteq z.has /\ scan.dns.dnssec \in {z.ad, Unknown}
    /\ scan.ocsp.revoked # Unknown =>
          /\ scan.path = "verified" /\ scan.cert.ocspUrl
          /\ scan.ocsp.check = (IF scan.ocsp.revoked = "yes" THEN "revoked" ELSE "good")

\* scanner_service.py:956, "never leave as 'error'/UNKNOWN - fall through to
\* hostname inference": a scan always returns a report or an honest status.
ScanAlwaysReports == scan.pc # "raised"
=============================================================================
