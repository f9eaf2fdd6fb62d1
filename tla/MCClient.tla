------------------------------ MODULE MCClient ------------------------------
(* Nine back ends, alone and in pairs, seen through two TLS libraries.       *)
EXTENDS Client, TLC

Cert(type, bits, days) == [NoCert EXCEPT !.keyType = type, !.bits = bits, !.days = days,
                                         !.ct = TRUE, !.ocspUrl = TRUE]

Aes256Gcm == Listed({"ECDHE", "DHE", "DH", "RSA", "AES256", "GCM"}, "ECDHE", "A")
Tls13 == Listed({"TLS_AES", "AES256", "AES_256", "GCM"}, "ECDHE", "A")
Aes128Cbc == Listed({"ECDHE", "DHE", "DH", "RSA", "AES128"}, "ECDHE", "B")
StaticSha1 == Listed({"AES128"}, "RSA", "D")
EcdheRc4 == Unlisted({"ECDHE", "DHE", "DH", "RSA", "RC4"})
Rc4Md5 == Listed({"RC4", "MD5"}, "RSA", "F")
Anonymous == Unlisted({"DH", "AES128"})

modern == [offers |-> "TLSv1.3" :> Tls13 @@ "TLSv1.2" :> Aes256Gcm, trusted |-> TRUE, hsts |-> TRUE,
           cert |-> Cert("ECDSA", 256, 200), groups |-> <<"X25519MLKEM768", "x25519">>]
careful == [modern EXCEPT !.groups = <<"x25519", "X25519MLKEM768">>, !.hsts = FALSE,
                          !.cert = Cert("RSA", 2048, 10)]
strong == [modern EXCEPT !.groups = <<"x448">>, !.cert = Cert("RSA", 4096, 100)]
postQuantum == [modern EXCEPT !.cert = Cert("ML-DSA", 0, 365)]
selfSigned == [offers |-> "TLSv1.2" :> Aes128Cbc @@ "TLSv1.1" :> StaticSha1 @@ "TLSv1.0" :> StaticSha1,
               trusted |-> FALSE, hsts |-> FALSE, groups |-> <<>>,
               cert |-> [Cert("RSA", 4096, -1) EXCEPT !.selfSigned = TRUE, !.ct = FALSE]]
old == [offers |-> "TLSv1.2" :> StaticSha1 @@ "TLSv1.0" :> StaticSha1, trusted |-> TRUE, hsts |-> FALSE,
        groups |-> <<>>, cert |-> [Cert("RSA", 1024, 20) EXCEPT !.sha1 = TRUE]]
broken == [offers |-> "TLSv1.2" :> EcdheRc4 @@ "TLSv1.0" :> Rc4Md5, trusted |-> TRUE, hsts |-> FALSE,
           groups |-> <<>>, cert |-> Cert("DSA", 1024, 400)]
anonymous == [offers |-> "TLSv1.2" :> Anonymous @@ "TLSv1.1" :> Rc4Md5, trusted |-> FALSE, hsts |-> FALSE,
              groups |-> <<>>, cert |-> NoCert]
ancient == [offers |-> "TLSv1.0" :> Rc4Md5, trusted |-> FALSE, hsts |-> FALSE, groups |-> <<>>,
            cert |-> Cert("RSA", 1024, 400)]

\* Python 3.11 (the Dockerfile) and one from before 3.10.
strict == [default |-> {s \in Suites : /\ {"DHE", "TLS_AES", "TLS_CHACHA"} \cap s.marks # {}
                                       /\ s.marks \cap {"RC4", "NULL", "DES"} = {}},
           lowered |-> {s \in Suites : "NULL" \notin s.marks}, old |-> FALSE]
lenient == [strict EXCEPT !.default = {s \in Suites : s.marks \cap {"RC4", "NULL", "DES"} = {} /\ s # Anonymous},
                          !.old = TRUE]

MCFarms == {{b} : b \in {modern, careful, strong, postQuantum, selfSigned, old, broken, anonymous, ancient}}
             \cup {{modern, careful}, {strong, postQuantum}, {modern, selfSigned}, {careful, old}, {selfSigned, old}, {modern, ancient}}
MCLibraries == {strict, lenient}
MCZones == {[has |-> {"A", "CAA", "AAAA", "TXT"}, ad |-> "on"], [has |-> {"A", "MX"}, ad |-> "off"]}
MCPorts == <<VPN_PORTS[1], VPN_PORTS[5], VPN_PORTS[6], VPN_PORTS[8]>>
=============================================================================
