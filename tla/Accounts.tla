------------------------------ MODULE Accounts ------------------------------
(***************************************************************************)
(* The accounts of the server: seeding at start-up (main.py), the two-step *)
(* login, tokens and the denylist, user management and its audit trail     *)
(* (routers/auth.py, services/audit_service.py), and whose jobs an account *)
(* sees (routers/scanner.py), statement by statement as request threads of *)
(* several server processes execute them over one database.                *)
(*                                                                         *)
(* SQLAlchemy expires an object when its session commits and reads it      *)
(* again by id when it is used; UPDATE and DELETE address rows by id.      *)
(* PostgreSQL never hands an id out again, SQLite gives a new row the      *)
(* largest id in use plus one.  An UPDATE of a row that is gone, and the   *)
(* re-read of one, end the request with status 500.                        *)
(*                                                                         *)
(* Abstracted: a name stands for the user name and the e-mail address,     *)
(* both unique; passwords match; codes are those of OtpStore; requests     *)
(* that a check refuses before anything is read are left out.              *)
(***************************************************************************)
EXTENDS Integers, FiniteSets

CONSTANTS
    Names,          \* names of accounts
    Seeds,          \* [seeded names -> their role]
    DemoName, DemoRole, DemoEnabled,
    Roles,
    Procs,          \* server processes
    Threads,        \* request threads
    MaxAccounts, MaxTokens, MaxChanges,
    MaxPending,     \* bound on the names with a pending code
    MaxExtras       \* bounds; MaxExtras: faults, scan jobs and logouts together

VARIABLES
    reusesIds,  \* SQLite (TRUE) or PostgreSQL (FALSE)
    boot,       \* [Procs -> where start-up stands]
    struck,     \* processes whose start-up met an exception
    faults,     \* crashes, exceptions at start-up and failed commits so far
    users,      \* records [id, name, role, active, acct]
    lastId, born,
    codes,      \* pending codes: records [name, disturbed]
    tokens,     \* issued: records [jti, name]
    revoked,    \* the jtis of revoked_tokens
    req,        \* [Threads -> the request in progress]
    jobs,       \* scan_jobs: records [uid, acct]
    changes,    \* requests of administrators committed so far
    trail,      \* entries of the audit log about them
    misnamed,   \* such an entry names an administrator who did not ask for the change
    deleted     \* names of the accounts deleted so far

accountVars == <<users, lastId, born>>
ghostVars == <<changes, trail, misnamed, deleted>>
vars == <<reusesIds, boot, struck, faults, accountVars, codes, tokens, revoked, req, jobs, ghostVars>>

Accts == 1..MaxAccounts     \* accounts in the order they are created
NoName == "no name"
NoAcct == 0

ASSUME AccountsAssumption ==
    /\ "Admin" \in Roles
    /\ DOMAIN Seeds \subseteq Names /\ DOMAIN Seeds # {} /\ IsFiniteSet(DOMAIN Seeds)
    /\ Procs # {} /\ IsFiniteSet(Threads)
    /\ \A n \in DOMAIN Seeds : Seeds[n] \in Roles
    /\ DemoName \in Names \ DOMAIN Seeds
    /\ DemoRole \in Roles
    /\ DemoEnabled \in BOOLEAN
    /\ NoName \notin Names /\ "none" \notin Roles
    /\ MaxAccounts \in Nat /\ MaxTokens \in Nat /\ MaxChanges \in Nat
    /\ MaxExtras \in Nat /\ MaxPending \in Nat

Idle == [at |-> "idle", op |-> "none", by |-> 0, byAcct |-> NoAcct, jti |-> 0,
         target |-> 0, targetAcct |-> NoAcct, name |-> NoName, role |-> "none",
         active |-> FALSE, writes |-> FALSE, disturbed |-> FALSE]

Init == /\ reusesIds \in BOOLEAN
        /\ boot = [p \in Procs |-> "look"]
        /\ struck = {} /\ faults = 0
        /\ users = {} /\ lastId = 0 /\ born = 0
        /\ codes = {} /\ tokens = {} /\ revoked = {}
        /\ req = [t \in Threads |-> Idle]
        /\ jobs = {}
        /\ changes = 0 /\ trail = 0 /\ misnamed = FALSE
        /\ deleted = {}

Named(n) == {u \in users : u.name = n}
ById(i) == {u \in users : u.id = i}
ActiveAdmins == {u \in users : u.role = "Admin" /\ u.active}

InProgress(ops) == Cardinality({t \in Threads : req[t].op \in ops})
MoreExtras == faults + Cardinality(jobs) + Cardinality(revoked) + InProgress({"logout", "submit"})
                < MaxExtras
Fault == MoreExtras /\ faults' = faults + 1

-----------------------------------------------------------------------------
(* Rows of users *)

FreeId == IF reusesIds
          THEN IF users = {} THEN 1
               ELSE 1 + (CHOOSE u \in users : \A v \in users : v.id <= u.id).id
          ELSE lastId + 1

\* INSERT of the accounts roles names, in one transaction.
Insert(roles) ==
    LET new == DOMAIN roles
        rank == CHOOSE f \in [new -> 0..Cardinality(new) - 1] :
                    \A m, n \in new : f[m] = f[n] => m = n
    IN /\ born + Cardinality(new) <= MaxAccounts
       /\ users' = users \cup {[id |-> FreeId + rank[n], name |-> n, role |-> roles[n],
                                active |-> TRUE, acct |-> born + 1 + rank[n]] : n \in new}
       /\ lastId' = FreeId + Cardinality(new) - 1
       /\ born' = born + Cardinality(new)

-----------------------------------------------------------------------------
(* _seed_database, and the process serving afterwards *)

Boots(p, at) == boot' = [boot EXCEPT ![p] = at]

bootOnly == <<reusesIds, struck, faults, codes, tokens, revoked, req, jobs, ghostVars>>

\* Mutant: the demo account is looked for only where nothing had to be seeded.
AfterSeedingServes(p) == IF DemoEnabled /\ boot[p] = "look" THEN "demo" ELSE "serve"

\* The demo account is looked for on every start.
AfterSeeding(p) == IF DemoEnabled THEN "demo" ELSE "serve"

\* if db.query(User).count() == 0
SeedLook(p) ==
    /\ boot[p] = "look"
    /\ Boots(p, IF users = {} THEN "seed" ELSE AfterSeeding(p))
    /\ UNCHANGED <<bootOnly, accountVars>>

\* Mutant: nothing keeps two accounts from having one name.
SeedsNeverClash == FALSE

\* A seed whose name is taken by now violates the unique constraint.
SeedsClash == \E n \in DOMAIN Seeds : Named(n) # {}

SeedCommit(p) ==
    /\ boot[p] = "seed"
    /\ \/ /\ ~SeedsClash
          /\ Insert(Seeds)
          /\ Boots(p, AfterSeeding(p))
       \/ /\ SeedsClash          \* rolled back; the demo account is not looked for
          /\ Boots(p, "serve")
          /\ UNCHANGED accountVars
    /\ UNCHANGED bootOnly

DemoLook(p) ==
    /\ boot[p] = "demo"
    /\ Boots(p, IF Named(DemoName) = {} THEN "addDemo" ELSE "serve")
    /\ UNCHANGED <<bootOnly, accountVars>>

DemoCommit(p) ==
    /\ boot[p] = "addDemo"
    /\ IF Named(DemoName) = {} THEN Insert([n \in {DemoName} |-> DemoRole])
                               ELSE UNCHANGED accountVars
    /\ Boots(p, "serve")
    /\ UNCHANGED bootOnly

unseeded == <<reusesIds, accountVars, codes, tokens, revoked, req, jobs, ghostVars>>

\* except Exception: whatever a query, the hashing or a commit raises is logged
\* and rolled back, and the process serves all the same.
SeedingRaises(p) ==
    /\ boot[p] # "serve"
    /\ Fault
    /\ struck' = struck \cup {p}
    /\ Boots(p, "serve")
    /\ UNCHANGED unseeded

\* A process dies while it starts and is started again.
BootCrash(p) ==
    /\ boot[p] # "serve"
    /\ Fault
    /\ Boots(p, "look")
    /\ UNCHANGED <<unseeded, struck>>

BootStep(p) == SeedLook(p) \/ SeedCommit(p) \/ DemoLook(p) \/ DemoCommit(p)
                 \/ SeedingRaises(p) \/ BootCrash(p)

-----------------------------------------------------------------------------
(* Requests *)

Serving == \E p \in Procs : boot[p] = "serve"
Starts(t) == Serving /\ req[t].at = "idle"
Goes(t, r) == req' = [req EXCEPT ![t] = r]
Ends(t) == Goes(t, Idle)

sessionOnly == <<reusesIds, boot, struck, accountVars, revoked, jobs,
                 changes, trail, misnamed, deleted>>

Issue(n) == /\ Cardinality(tokens) < MaxTokens
            /\ tokens' = tokens \cup {[jti |-> Cardinality(tokens) + 1, name |-> n]}

Account(n) == {u \in Named(n) : u.active}

SendsCode(t, n) ==
    /\ Cardinality({c.name : c \in codes} \cup {n}) <= MaxPending
    /\ Goes(t, [Idle EXCEPT !.at = "send", !.op = "login", !.name = n])

\* POST /login with the right password.  The demo account goes on to its token,
\* any other to a code.
Login(t, n) ==
    /\ Starts(t)
    /\ \E u \in Account(n) :
          IF DemoEnabled /\ n = DemoName
          THEN Goes(t, [Idle EXCEPT !.at = "session", !.op = "login", !.by = u.id,
                                     !.byAcct = u.acct, !.name = n])
          ELSE SendsCode(t, n)
    /\ UNCHANGED <<sessionOnly, codes, tokens, faults>>

\* POST /resend-otp sends nothing to an address without an active account.
Resend(t, n) ==
    /\ Starts(t)
    /\ Account(n) # {}
    /\ SendsCode(t, n)
    /\ UNCHANGED <<sessionOnly, codes, tokens, faults>>

\* The code replaces the pending one of the address.
SendCode(t) ==
    /\ req[t].at = "send"
    /\ codes' = {c \in codes : c.name # req[t].name}
                  \cup {[name |-> req[t].name, disturbed |-> req[t].disturbed]}
    /\ Ends(t)
    /\ UNCHANGED <<sessionOnly, tokens, faults>>

\* POST /verify-otp: the right code is used up before the account is read.
UseCode(t, c) ==
    /\ Starts(t)
    /\ c \in codes
    /\ codes' = codes \ {c}
    /\ Goes(t, [Idle EXCEPT !.at = "account", !.op = "verify", !.name = c.name,
                            !.disturbed = c.disturbed])
    /\ UNCHANGED <<sessionOnly, tokens, faults>>

\* Mutant: the account is asked for by the wrong state.
InactiveHolder(t) == {u \in Named(req[t].name) : ~u.active}

CodeHolder(t) == Account(req[t].name)

\* Without an account the request ends with status 404.
FindAccount(t) ==
    /\ req[t].at = "account"
    /\ \/ CodeHolder(t) = {} /\ Ends(t)
       \/ \E u \in CodeHolder(t) :
             Goes(t, [req[t] EXCEPT !.at = "session", !.by = u.id, !.byAcct = u.acct])
    /\ UNCHANGED <<sessionOnly, codes, tokens, faults>>

\* last_login is committed; the token carries the name read again by id.  A row
\* that is gone or a commit that fails ends the request with status 500.
IssueSession(t) ==
    /\ req[t].at = "session"
    /\ \/ ById(req[t].by) = {} /\ UNCHANGED <<tokens, faults>>
       \/ \E u \in ById(req[t].by) : Issue(u.name) /\ UNCHANGED faults
       \/ Fault /\ UNCHANGED tokens
    /\ Ends(t)
    /\ UNCHANGED <<sessionOnly, codes>>

\* POST /logout looks for the jti in the denylist and answers if it is there.
LogoutLook(t, tok) ==
    /\ Starts(t)
    /\ tok.jti \notin revoked
    /\ MoreExtras
    /\ Goes(t, [Idle EXCEPT !.at = "revoke", !.op = "logout", !.jti = tok.jti])
    /\ UNCHANGED <<sessionOnly, codes, tokens, faults>>

\* The INSERT; another logout of the token may have come first (status 500).
\* clear_otp gets the user name for an address and finds no code.
LogoutCommit(t) ==
    /\ req[t].at = "revoke"
    /\ revoked' = revoked \cup {req[t].jti}
    /\ Ends(t)
    /\ UNCHANGED <<reusesIds, boot, struck, faults, accountVars, codes, tokens, jobs, ghostVars>>

SessionStep(t) == \/ \E n \in Names : Login(t, n) \/ Resend(t, n)
                  \/ SendCode(t)
                  \/ \E c \in codes : UseCode(t, c)
                  \/ FindAccount(t) \/ IssueSession(t) \/ LogoutCommit(t)
                  \/ \E tok \in tokens : LogoutLook(t, tok)

-----------------------------------------------------------------------------
(* Requests of a signed-in account: require_auth, require_admin *)

adminOps == {"role", "toggle", "delete", "create"}
reads == <<reusesIds, boot, struck, faults, accountVars, codes, tokens, revoked, jobs, ghostVars>>

\* The token is not denied, and the row that has its name now decides.  An
\* administrator's request is one of adminOps; which one shows in the next step.
Admit(t, tok, op) ==
    /\ Starts(t)
    /\ tok.jti \notin revoked
    /\ \E u \in Account(tok.name) :
          /\ op = "admin" => u.role = "Admin"
          /\ Goes(t, [Idle EXCEPT !.at = "read", !.op = op, !.by = u.id, !.byAcct = u.acct])
    /\ IF op = "submit" THEN MoreExtras 
       ELSE changes + Cardinality({s \in Threads : req[s].at \in {"read", "commit"}}) < MaxChanges
    /\ UNCHANGED reads

\* Mutant: nothing keeps an administrator from himself.
IsSelfNever(t, u) == FALSE

IsSelf(t, u) == u.id = req[t].by

\* The row of the request's target; 404 without one, 400 for oneself.  What is
\* to be written is computed from the row as it is read: a role that does not
\* change is not written at all.
ReadTarget(t, op, i, role) ==
    /\ req[t].at = "read" /\ req[t].op = "admin"
    /\ \E u \in ById(i) :
          /\ ~IsSelf(t, u)
          /\ Goes(t, [req[t] EXCEPT !.at = "commit", !.op = op, !.target = i, !.targetAcct = u.acct,
                        !.role = IF op = "role" THEN role ELSE "none",
                        !.active = op = "toggle" /\ ~u.active,
                        !.writes = op = "role" => role # u.role])
    /\ UNCHANGED reads

\* create_user looks for the name; 400 when it is taken.
ReadName(t, n, role) ==
    /\ req[t].at = "read" /\ req[t].op = "admin"
    /\ Named(n) = {}
    /\ Goes(t, [req[t] EXCEPT !.at = "commit", !.op = "create", !.name = n, !.role = role])
    /\ UNCHANGED reads

\* An answer before anything is written: not found, oneself, taken.
Refuse(t) ==
    /\ req[t].at = "read" /\ req[t].op = "admin"
    /\ Ends(t)
    /\ UNCHANGED reads

unwritten == <<reusesIds, boot, struck, faults, tokens, revoked, jobs, trail, misnamed>>

ToAudit(t, i) == [Idle EXCEPT !.at = "audit", !.op = req[t].op, !.by = req[t].by,
                              !.byAcct = req[t].byAcct, !.target = i]

\* The commit succeeded.  The accounts called names were deactivated or deleted
\* by it, under a code of theirs or a request that sends or verifies one.
Commits(t, names) ==
    /\ changes' = changes + 1
    /\ codes' = {[c EXCEPT !.disturbed = @ \/ c.name \in names] : c \in codes}
    /\ req' = [s \in Threads |->
          IF s = t THEN ToAudit(t, req[t].target)
          ELSE [req[s] EXCEPT !.disturbed = @ \/ (req[s].op \in {"login", "verify"} /\ req[s].name \in names)]]

Written(t, u) == IF req[t].op = "role" THEN [u EXCEPT !.role = req[t].role]
                                       ELSE [u EXCEPT !.active = req[t].active]

\* UPDATE users ... WHERE id = target, of the columns whose value changed.
CommitUpdate(t) ==
    /\ req[t].at = "commit"
    /\ req[t].op \in {"role", "toggle"}
    /\ \/ /\ req[t].writes
          /\ \E u \in ById(req[t].target) :
                /\ users' = (users \ {u}) \cup {Written(t, u)}
                /\ Commits(t, IF Written(t, u).active THEN {} ELSE {u.name})
       \/ /\ ~req[t].writes
          /\ Commits(t, {})
          /\ UNCHANGED users
       \/ /\ req[t].writes
          /\ ById(req[t].target) = {}
          /\ Ends(t)
          /\ UNCHANGED <<users, codes, changes>>
    /\ UNCHANGED <<unwritten, lastId, born, deleted>>

\* DELETE FROM users WHERE id = target; one that matches no row only warns.
CommitDelete(t) ==
    /\ req[t].at = "commit"
    /\ req[t].op = "delete"
    /\ LET gone == ById(req[t].target)
           names == {u.name : u \in gone}
       IN /\ users' = users \ gone
          /\ deleted' = deleted \cup names
          /\ Commits(t, names)
    /\ UNCHANGED <<unwritten, lastId, born>>

\* INSERT; the name may have been taken since (status 500).
CommitCreate(t) ==
    /\ req[t].at = "commit"
    /\ req[t].op = "create"
    /\ \/ /\ Named(req[t].name) = {}
          /\ Insert([n \in {req[t].name} |-> req[t].role])
          /\ changes' = changes + 1
          /\ Goes(t, ToAudit(t, lastId'))
       \/ /\ Named(req[t].name) # {}
          /\ Ends(t)
          /\ UNCHANGED <<accountVars, changes>>
    /\ UNCHANGED <<unwritten, codes, deleted>>

\* Mutant: only a change of a role is recorded.
RecordsRoles(t) == req[t].op = "role"

Records(t) == req[t].op \in adminOps

\* An id that was taken from the account acct has come to the account u: u is
\* that account, or SQLite gave it the id once that account was gone.
Heir(acct, u) == u.acct = acct \/ (reusesIds /\ acct < u.acct /\ \A v \in users : v.acct # acct)

\* audit.record(user_id=admin.id, ..., target=user.username): both objects are
\* read again, except that delete_user keeps the name.  If a row is gone the
\* request ends with status 500 and no entry.  record itself never raises: a
\* commit that fails is rolled back, and the request succeeds without its entry.
Audit(t) ==
    /\ req[t].at = "audit"
    /\ IF \/ ById(req[t].by) = {}
          \/ req[t].op # "delete" /\ ById(req[t].target) = {}
       THEN UNCHANGED <<trail, misnamed, faults>>
       ELSE \/ \E u \in ById(req[t].by) :
                 /\ trail' = IF Records(t) THEN trail + 1 ELSE trail
                 /\ misnamed' = (misnamed \/ ~Heir(req[t].byAcct, u))
                 /\ UNCHANGED faults
            \/ Fault /\ UNCHANGED <<trail, misnamed>>
    /\ Ends(t)
    /\ UNCHANGED <<reusesIds, boot, struck, accountVars, codes, tokens, revoked, jobs,
                   changes, deleted>>

\* A scan job is filed under the id its requester has.
SubmitJob(t) ==
    /\ req[t].at = "read"
    /\ req[t].op = "submit"
    /\ jobs' = jobs \cup {[uid |-> req[t].by, acct |-> req[t].byAcct]}
    /\ Ends(t)
    /\ UNCHANGED <<reusesIds, boot, struck, faults, accountVars, codes, tokens, revoked, ghostVars>>

\* Mutant: everybody's jobs are listed.
ShownToAll(u) == jobs

\* The jobs an account is shown: get_scan_job, list_scan_jobs.
Shown(u) == {j \in jobs : j.uid = u.id \/ u.role = "Admin"}

AdminStep(t) ==
    \/ \E tok \in tokens, op \in {"admin", "submit"} : Admit(t, tok, op)
    \/ \E i \in Accts, r \in Roles, op \in {"role", "toggle", "delete"} : ReadTarget(t, op, i, r)
    \/ \E n \in Names, r \in Roles : ReadName(t, n, r)
    \/ Refuse(t) \/ CommitUpdate(t) \/ CommitDelete(t) \/ CommitCreate(t)
    \/ Audit(t) \/ SubmitJob(t)

Next == \/ \E p \in Procs : BootStep(p)
        \/ \E t \in Threads : SessionStep(t) \/ AdminStep(t)

Spec == Init /\ [][Next]_vars

-----------------------------------------------------------------------------
(* Properties *)

UserType == [id : Accts, name : Names, role : Roles, active : BOOLEAN, acct : Accts]
ReqType ==
    [at : {"idle", "send", "account", "session", "revoke", "read", "commit", "audit"},
     op : {"none", "login", "verify", "logout", "submit", "admin"} \cup adminOps,
     by : 0..MaxAccounts, byAcct : 0..MaxAccounts, jti : 0..MaxTokens,
     target : 0..MaxAccounts, targetAcct : 0..MaxAccounts, name : Names \cup {NoName},
     role : Roles \cup {"none"}, active : BOOLEAN, writes : BOOLEAN, disturbed : BOOLEAN]
UniqueKeys ==
    \A u, v \in users : u.id = v.id \/ u.name = v.name \/ u.acct = v.acct => u = v

\* Every variable has its type, and names and ids are unique.
TypeOK ==
    /\ reusesIds \in BOOLEAN
    /\ boot \in [Procs -> {"look", "seed", "demo", "addDemo", "serve"}]
    /\ struck \subseteq Procs /\ faults \in 0..MaxExtras
    /\ users \subseteq UserType
    /\ UniqueKeys
    /\ lastId \in 0..MaxAccounts /\ born \in 0..MaxAccounts
    /\ codes \subseteq [name : Names, disturbed : BOOLEAN]
    /\ tokens \subseteq [jti : 1..MaxTokens, name : Names]
    /\ revoked \subseteq 1..MaxTokens
    /\ req \in [Threads -> ReqType]
    /\ jobs \subseteq [uid : Accts, acct : Accts]
    /\ changes \in Nat /\ trail \in Nat /\ misnamed \in BOOLEAN
    /\ deleted \subseteq Names

\* main.py:61, "Ensure the public demo account exists (idempotent - runs every
\* boot)", and the seeds before it: whichever processes start together and die or
\* fail while they start, one that serves after a start without an exception has
\* the seeded accounts, unless they were deleted.  Once all serve after such
\* starts the demo account is there too, unless it or a seeded one was deleted: a
\* start that finds its seeds half gone skips it.
SeedsIn == \A n \in DOMAIN Seeds : Named(n) # {} \/ n \in deleted
StartUpComplete ==
    /\ (\E p \in Procs \ struck : boot[p] = "serve") => SeedsIn
    /\ DemoEnabled /\ struck = {} /\ (\A p \in Procs : boot[p] = "serve") =>
          Named(DemoName) # {} \/ deleted \cap ({DemoName} \cup DOMAIN Seeds) # {}

\* The checks "Cannot change your own role", "Cannot deactivate yourself" and
\* "Cannot delete yourself" (auth.py:324, 339, 354) keep an administrator in
\* the system: its last one can only be lost to the request of an account that
\* has stopped being an active administrator itself since it was admitted.
LastAdminGoesByAStaleOne ==
    [][ActiveAdmins # {} /\ ActiveAdmins' = {} =>
         \E t \in Threads : /\ req[t].at = "commit"
                            /\ \A u \in ActiveAdmins : u.id # req[t].by]_vars

\* audit_service.py:4, "who did what": each committed change of an account has
\* one entry, or its request is about to write it.  Every account deleted
\* meanwhile costs at most the entries of the other requests in progress, and
\* every failed commit its own.
InAudit == {t \in Threads : req[t].at = "audit"}
Deletions == born - Cardinality(users)
AuditComplete ==
    /\ trail + Cardinality(InAudit) <= changes
    /\ changes - trail - Cardinality(InAudit) <= Deletions * (Cardinality(Threads) - 1) + faults

\* scanner.py:200, "Access denied": while an account exists, nobody but
\* administrators is shown its jobs.  Likewise for the other ids that are kept: a
\* change hits the account that was looked up and an entry of the audit log
\* names the administrator who asked, or else that account is gone and, on
\* SQLite, a younger one has its id.  On PostgreSQL that never happens.
IdsStillMean ==
    /\ ~misnamed
    /\ \A u \in users : u.role # "Admin" => \A j \in Shown(u) : Heir(j.acct, u)
    /\ \A t \in Threads : req[t].at = "commit" =>
          \A u \in ById(req[t].target) : Heir(req[t].targetAcct, u)

\* auth.py:204-224, the code is used up, the account looked up by its address and
\* its row read again by id in separate steps: a login ends with a session of
\* the account it was for, unless that account was deactivated or deleted since
\* the code was sent, or the commit of this very login failed.
SessionFollowsCode ==
    [][\A t \in Threads :
         req[t].at \in {"account", "session"} /\ req'[t].at = "idle" =>
            \/ req[t].disturbed
            \/ faults' > faults
            \/ \E tok \in tokens' \ tokens : tok.name = req[t].name]_vars
=============================================================================
