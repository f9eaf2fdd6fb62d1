----------------------------- MODULE MCAccounts -----------------------------
(* One seeded administrator, a demo account that DEMO_ROLE makes another    *)
(* one, two processes that start and two request threads.                   *)
EXTENDS Accounts, TLC

CONSTANTS admin, demo, p1, p2, t1, t2

MCNames == {admin, demo}
MCSeeds == admin :> "Admin"
MCRoles == {"Admin", "Operator"}
MCProcs == {p1, p2}
MCThreads == {t1, t2}
MCSymmetry == Permutations(MCProcs) \cup Permutations(MCThreads)
=============================================================================
