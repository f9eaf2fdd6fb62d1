----------------------------- MODULE MCOtpStore -----------------------------
(* Two addresses, two threads that send codes and two that verify them.     *)
EXTENDS OtpStore, TLC

CONSTANTS e1, e2, s1, s2, v1, v2
MCEmails == {e1, e2}
MCOneEmail == {e1}
MCSenders == {s1, s2}
MCSymmetry == Permutations(MCSenders) \cup Permutations({v1, v2})
MCVerifiers == {v1, v2}
=============================================================================
