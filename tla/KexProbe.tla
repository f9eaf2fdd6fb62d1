------------------------------ MODULE KexProbe ------------------------------
(***************************************************************************)
(* pqc_detect.py: the raw TLS 1.3 probe that makes a server name the group *)
(* it would use for the key exchange.  A reply is the sequence of records  *)
(* that arrives before the connection closes; a connection that fails or   *)
(* times out is NoConnection.  Bytes are abstracted to what is read in     *)
(* them: an alert has its description or was cut short, a handshake record *)
(* is a ServerHello (or HelloRetryRequest) or something else.              *)
(***************************************************************************)
EXTENDS Integers, Sequences

PQC_GROUPS == {"X25519MLKEM768", "SecP256r1MLKEM768", "SecP384r1MLKEM1024",
               "X25519Kyber768Draft00", "SecP256r1Kyber768Draft00"}
CLASSICAL_GROUPS == {"x25519", "secp256r1", "secp384r1", "secp521r1", "x448"}
ALL_GROUPS == PQC_GROUPS \cup CLASSICAL_GROUPS
NoGroup == "no group"

\* Records; a ServerHello without a group comes from a server below TLS 1.3.
Alert == [type |-> "alert", group |-> NoGroup]
CutAlert == [type |-> "cut alert", group |-> NoGroup]
ChangeCipherSpec == [type |-> "ccs", group |-> NoGroup]
OtherHandshake == [type |-> "other", group |-> NoGroup]
ServerHello(g) == [type |-> "hello", group |-> g]

NoConnection == <<[type |-> "no connection", group |-> NoGroup]>>
MaxRecords == 6

\* _probe: the first alert or ServerHello of the first six records.
Probe(reply) ==
    LET n == IF Len(reply) < MaxRecords THEN Len(reply) ELSE MaxRecords
        telling == {i \in 1..n : reply[i].type \notin {"ccs", "other"}}
    IN  IF telling = {}
        THEN [type |-> IF Len(reply) < MaxRecords THEN "no_response" ELSE "no_server_hello",
              group |-> NoGroup]
        ELSE reply[CHOOSE i \in telling : \A j \in telling : i <= j]

Nothing == [tls13 |-> FALSE, group |-> NoGroup, isPqc |-> FALSE, pqcSupported |-> FALSE, error |-> FALSE]

\* detect_key_exchange_group after the probe with every group.  A cut alert has
\* no description and is taken for an answer without TLS 1.3.
AfterPrimary(reply) ==
    LET a == Probe(reply)
    IN  CASE a.type = "hello" /\ a.group # NoGroup ->
               [Nothing EXCEPT !.tls13 = TRUE, !.group = a.group,
                   !.isPqc = a.group \in PQC_GROUPS, !.pqcSupported = a.group \in PQC_GROUPS]
          [] a.type = "cut alert" \/ (a.type = "hello" /\ a.group = NoGroup) -> Nothing
          [] OTHER -> [Nothing EXCEPT !.error = TRUE]

\* A server that chose a classical group is asked for the post-quantum ones only.
AsksAgain(kex) == kex.tls13 /\ ~kex.isPqc

\* Mutant: support at a lower preference counts as negotiated.
AfterSecondarySupports(kex, reply) ==
    LET found == Probe(reply).type = "hello" /\ Probe(reply).group \in PQC_GROUPS
    IN  [kex EXCEPT !.pqcSupported = found, !.isPqc = found]

\* ... after the second probe, whose failures are swallowed.
AfterSecondary(kex, reply) ==
    LET a == Probe(reply)
    IN  [kex EXCEPT !.pqcSupported = a.type = "hello" /\ a.group \in PQC_GROUPS]
=============================================================================
