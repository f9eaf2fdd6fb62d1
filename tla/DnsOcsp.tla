------------------------------- MODULE DnsOcsp -------------------------------
(***************************************************************************)
(* dns_ocsp.py: the DNS posture of a name and the revocation status of a   *)
(* certificate.  answers is a function from the record types asked for to  *)
(* what came back: "records", "none" (an empty answer) or "failed".        *)
(***************************************************************************)

Queries == {"A", "AAAA", "CAA", "MX", "TXT", "DMARC"}
Unknown == "unknown"

\* The AD flag ("on" or "off") of the answer to the A query, even of an empty one.
Dnssec(answers, ad) == IF answers["A"] = "failed" THEN Unknown ELSE ad

\* check_dns_security.  ad is the flag the resolver sets for this name.  Every
\* other item is present if the query came back with it and absent otherwise.
CheckDns(answers, ad) ==
    LET present == {q \in Queries : answers[q] = "records"}
        dnssec == Dnssec(answers, ad)
    IN  [present |-> present,
         dnssec |-> dnssec,
         issues |-> ({"CAA", "AAAA"} \ present) \cup (IF dnssec = "off" THEN {"DNSSEC"} ELSE {})]

NotChecked == [check |-> "not_checked", revoked |-> Unknown]

Revoked(answer) == CASE answer = "good" -> "no" [] answer = "revoked" -> "yes" [] OTHER -> Unknown

\* check_ocsp, asked with the certificate itself; issuer: its issuer's
\* certificate was fetched from the URL in it.  answer is the responder's
\* verdict, "refused" (not SUCCESSFUL) or "error".
CheckOcsp(hasUrl, issuer, answer) ==
    IF ~hasUrl THEN NotChecked
    ELSE IF ~issuer THEN [NotChecked EXCEPT !.check = "url_present_not_queried"]
    ELSE [check |-> answer, revoked |-> Revoked(answer)]
=============================================================================
