------------------------------ MODULE PqcScore ------------------------------
(***************************************************************************)
(* What scanner_service.py concludes from the facts it measured: the key   *)
(* exchange, the grade and the vulnerabilities of a cipher suite, and the  *)
(* score.  The code decides by substrings of OpenSSL names; a suite is the *)
(* set of the substrings it looks for that its name contains, with the     *)
(* entry of CIPHER_DB if there is one.  Texts are left out; an issue or a  *)
(* recommendation never feeds back into a number.                          *)
(***************************************************************************)
EXTENDS Integers, FiniteSets

Versions == {"TLSv1.3", "TLSv1.2", "TLSv1.1", "TLSv1.0"}

\* ssl.SSLSocket.version() calls TLS 1.0 "TLSv1"; every list of the code calls
\* it "TLSv1.0", which is no substring of it.
Negotiated(v) == IF v = "TLSv1.0" THEN "TLSv1" ELSE v

Listed(marks, kex, grade) ==
    [marks |-> marks, listed |-> TRUE, kex |-> kex, fs |-> kex # "RSA", grade |-> grade]
Unlisted(marks) ==
    [marks |-> marks, listed |-> FALSE, kex |-> "none", fs |-> FALSE, grade |-> "none"]

\* CIPHER_DB, one entry for those that no rule tells apart.  "AES256" stands for
\* every spelling of it; AES_256 is the one with a separator.
CIPHER_DB ==
    { Listed({"TLS_AES", "AES256", "AES_256", "GCM"}, "ECDHE", "A"),
      Listed({"TLS_AES", "AES128", "AES_128", "GCM"}, "ECDHE", "B"),
      Listed({"TLS_CHACHA", "CHACHA20"}, "ECDHE", "A"),
      Listed({"ECDHE", "DHE", "DH", "RSA", "AES256", "GCM"}, "ECDHE", "A"),
      Listed({"ECDHE", "DHE", "DH", "AES256", "GCM"}, "ECDHE", "A"),
      Listed({"ECDHE", "DHE", "DH", "RSA", "AES128", "GCM"}, "ECDHE", "B"),
      Listed({"ECDHE", "DHE", "DH", "RSA", "CHACHA20"}, "ECDHE", "A"),
      Listed({"DHE", "DH", "RSA", "AES256", "GCM"}, "DHE", "A"),
      Listed({"ECDHE", "DHE", "DH", "RSA", "AES256"}, "ECDHE", "B"),
      Listed({"ECDHE", "DHE", "DH", "RSA", "AES128"}, "ECDHE", "B"),
      Listed({"AES256", "GCM"}, "RSA", "C"), Listed({"AES128", "GCM"}, "RSA", "C"),
      Listed({"AES256"}, "RSA", "C"), Listed({"AES128"}, "RSA", "C"),
      Listed({"AES256"}, "RSA", "D"), Listed({"AES128"}, "RSA", "D"),
      Listed({"DES", "3DES", "CBC"}, "RSA", "F"),
      Listed({"RC4"}, "RSA", "F"), Listed({"RC4", "MD5"}, "RSA", "F"),
      Listed({"NULL"}, "RSA", "F"), Listed({"NULL", "MD5"}, "RSA", "F") }

\* Suites a server may pick that have no entry: ECDHE-RSA-AES128-SHA,
\* ADH-AES128-SHA, DES-CBC-SHA, ECDHE-RSA-RC4-SHA, AES256-CCM.
OtherSuites ==
    { Unlisted({"ECDHE", "DHE", "DH", "RSA", "AES128"}),
      Unlisted({"DH", "AES128"}),
      Unlisted({"DES", "CBC"}),
      Unlisted({"ECDHE", "DHE", "DH", "RSA", "RC4"}),
      Unlisted({"AES256"}) }

Suites == CIPHER_DB \cup OtherSuites

\* KNOWN_VULNS.  CRIME, BREACH, FREAK, LOGJAM and DROWN ask for marks or versions
\* that no scan reports; HNDL is in CheckVulnerabilities.
KNOWN_VULNS ==
    LET below13 == {"TLSv1.0", "TLSv1.1", "TLSv1.2"}
    IN  { [name |-> "POODLE", affects |-> {"TLSv1.0"}, marks |-> {"CBC"}],
          [name |-> "BEAST", affects |-> {"TLSv1.0"}, marks |-> {"CBC"}],
          [name |-> "SWEET32", affects |-> below13, marks |-> {"3DES", "DES"}],
          [name |-> "LUCKY13", affects |-> below13, marks |-> {"CBC"}],
          [name |-> "RC4_BIASES", affects |-> below13, marks |-> {"RC4"}],
          [name |-> "NULL_CIPHER", affects |-> Versions, marks |-> {"NULL"}],
          [name |-> "MD5_HASH", affects |-> below13, marks |-> {"MD5"}] }

-----------------------------------------------------------------------------
(* _detect_key_exchange, _has_forward_secrecy, _get_cipher_grade *)

\* What the score reads in the name of a key exchange.
Kex12(s) == IF "DHE" \notin s.marks /\ (s.kex = "RSA" \/ "RSA" \in s.marks)
            THEN "noForwardSecrecy" ELSE "vulnerable"

\* Only TLS 1.2 looks the suite up; a static RSA suite below it passes for ECDHE.
DetectKeyExchange(s, version) ==
    IF {"ML-KEM", "KYBER"} \cap s.marks # {} THEN "safe"
    ELSE IF version = "TLSv1.2" THEN Kex12(s) ELSE "vulnerable"

HasForwardSecrecy(s) ==
    IF s.listed THEN s.fs ELSE {"DHE", "TLS_AES", "TLS_CHACHA"} \cap s.marks # {}

CipherGrade(s) ==
    CASE s.listed -> s.grade
      [] ~s.listed /\ {"RC4", "NULL", "3DES", "DES", "EXPORT"} \cap s.marks # {} -> "F"
      [] OTHER -> IF {"AES_256", "CHACHA20"} \cap s.marks # {} THEN "A"
                  ELSE IF "AES_128" \in s.marks THEN "B" ELSE "C"

\* Mutant: the negotiated version is not looked at.
CheckVulnerabilitiesSupported(s, version, supported) ==
    {v.name : v \in {w \in KNOWN_VULNS : w.affects \cap supported # {} /\ w.marks \cap s.marks # {}}}

\* The names found; HNDL for every suite whose name shows its key exchange.
CheckVulnerabilities(s, version, supported) ==
    LET all == supported \cup {version}
    IN  {v.name : v \in {w \in KNOWN_VULNS : w.affects \cap all # {} /\ w.marks \cap s.marks # {}}}
          \cup (IF {"RSA", "DHE"} \cap s.marks # {} THEN {"HNDL"} ELSE {})

-----------------------------------------------------------------------------
(* calculate_pqc_score: 100 plus what each parameter adds, kept in 0..100 *)

If(condition, points) == IF condition THEN points ELSE 0

\* "TLSv1" meets none of the tests.
VersionPoints(m) ==
    CASE m.version = "TLSv1.2" -> -8
      [] m.version = "TLSv1.1" -> -30
      [] OTHER -> 0

SupportedPoints(m) == If("TLSv1.0" \in m.supported, -10) + If("TLSv1.1" \in m.supported, -5)

\* Mutant: two of the deductions are swapped.
RsaPointsSwapped(bits) ==
    CASE bits < 1024 -> -50 [] bits >= 1024 /\ bits < 2048 -> -20
      [] bits >= 2048 /\ bits < 3072 -> -40 [] bits >= 3072 /\ bits < 4096 -> -18 [] OTHER -> -12

RsaPoints(bits) ==
    CASE bits < 1024 -> -50 [] bits >= 1024 /\ bits < 2048 -> -40
      [] bits >= 2048 /\ bits < 3072 -> -20 [] bits >= 3072 /\ bits < 4096 -> -18 [] OTHER -> -12

PqcKeyTypes == {"ML-DSA", "SLH-DSA"}

KeyPoints(m) ==
    CASE m.keyType = "RSA" -> RsaPoints(m.bits)
      [] m.keyType = "ECDSA" -> -18
      [] m.keyType = "DSA" -> -35
      [] m.keyType = "Ed25519" -> -14
      [] m.keyType \in PqcKeyTypes -> 10
      [] OTHER -> 0          \* Ed448, an unreadable certificate, none at all

\* Mutant: a key exchange that is not post-quantum is no longer a deduction.
KexPointsLenient(m) ==
    CASE m.pqc -> 14
      [] ~m.pqc /\ m.kex = "safe" -> 10
      [] ~m.pqc /\ m.kex = "hybrid" -> 5
      [] ~m.pqc /\ m.kex = "noForwardSecrecy" -> -15
      [] OTHER -> 0

KexPoints(m) ==
    CASE m.pqc -> 14
      [] ~m.pqc /\ m.kex = "safe" -> 10
      [] ~m.pqc /\ m.kex = "hybrid" -> 5
      [] ~m.pqc /\ m.kex = "noForwardSecrecy" -> -15
      [] OTHER -> -8

CipherPoints(s) ==
    LET has(mark) == mark \in s.marks
    IN  (CASE has("RC4") -> -30
           [] has("NULL") -> -42
           [] has("3DES") -> -26
           [] has("DES") /\ ~has("3DES") -> -36
           [] has("AES128") -> -6
           [] has("AES256") \/ has("CHACHA20") -> 3
           [] OTHER -> 0)
        + (IF has("GCM") THEN 2 ELSE If(has("CBC"), -4))
        + If(CipherGrade(s) = "D", -8)

ExpiryPoints(days) ==
    CASE days < 0 -> -25 [] days >= 0 /\ days < 14 -> -16
      [] days >= 14 /\ days < 30 -> -8 [] OTHER -> 0

HealthPoints(m) == If(m.sha1, -18) + ExpiryPoints(m.days)
                   + If(m.selfSigned, -12) + If(~m.ct, -3) + If(~m.hsts, -6)

Sum(m) == 100 + VersionPoints(m) + SupportedPoints(m) + KeyPoints(m) + KexPoints(m)
              + If(~HasForwardSecrecy(m.suite), -10) + CipherPoints(m.suite) + HealthPoints(m)

Score(m) == LET s == Sum(m) IN IF s < 0 THEN 0 ELSE IF s > 100 THEN 100 ELSE s

\* The label of the report.  From 85 on both name a post-quantum key exchange,
\* which is not looked at.
Label(m) ==
    LET s == Score(m)
    IN  CASE s >= 85 -> IF m.keyType \in PqcKeyTypes THEN "Fully Quantum Safe" ELSE "quantum-safe key exchange"
          [] s >= 62 /\ s < 85 -> "PQC Ready (Partial)"
          [] s >= 37 /\ s < 62 -> "Quantum Transition Required"
          [] OTHER -> "Quantum Vulnerable"
=============================================================================
