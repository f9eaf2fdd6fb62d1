--------------------------- MODULE AccountsProofs ---------------------------
(***************************************************************************)
(* Proofs about Accounts.tla, for any names, roles, processes and request  *)
(* threads, on either database.                                            *)
(*                                                                         *)
(* Everything rests on the types, and these on what the ids are compared   *)
(* with: no id and no account number exceeds the number of accounts ever   *)
(* created, so a new id is fresh on both databases.                        *)
(*                                                                         *)
(* AuditInv, at the end, counts: a deletion dooms at most the entries of   *)
(* the other requests in progress, and every missing entry was doomed or   *)
(* its own commit failed.                                                  *)
(***************************************************************************)
EXTENDS Accounts, FiniteSetTheorems, FunctionTheorems, WellFoundedInduction, TLAPS

\* The rows: keys are unique, and what keeps the next id fresh.
RowsInv ==
    /\ reusesIds \in BOOLEAN
    /\ users \subseteq UserType
    /\ UniqueKeys
    /\ lastId \in 0..MaxAccounts /\ born \in 0..MaxAccounts
    /\ \A u \in users : u.id <= born /\ u.acct <= born
    /\ lastId <= born
    /\ reusesIds \/ \A u \in users : u.id <= lastId

\* What a request holds where it stands: the row it is to change is never that
\* of its own administrator.
GoodReq ==
    {r \in ReqType :
        /\ r.at \in {"send", "account"} => r.op \in {"login", "verify"} /\ r.name \in Names
        /\ r.at = "session" => r.op \in {"login", "verify"}
        /\ r.at = "revoke" => r.jti \in 1..MaxTokens
        /\ r.at = "read" => r.by \in Accts /\ r.byAcct \in Accts /\ r.target = 0
        /\ r.at = "commit" =>
              /\ r.op \in adminOps
              /\ r.op \in {"role", "toggle", "delete"} => r.target # r.by
              /\ r.op \in {"role", "create"} => r.role \in Roles
              /\ r.op = "create" => r.name \in Names /\ r.target = 0}

\* The other variables.
RestInv ==
    /\ boot \in [Procs -> {"look", "seed", "demo", "addDemo", "serve"}]
    /\ struck \subseteq Procs /\ faults \in 0..MaxExtras
    /\ codes \subseteq [name : Names, disturbed : BOOLEAN]
    /\ tokens \subseteq [jti : 1..MaxTokens, name : Names] /\ IsFiniteSet(tokens)
    /\ revoked \subseteq 1..MaxTokens /\ IsFiniteSet(revoked)
    /\ req \in [Threads -> GoodReq]
    /\ jobs \subseteq [uid : Accts, acct : Accts] /\ IsFiniteSet(jobs)
    /\ changes \in Nat /\ trail \in Nat /\ misnamed \in BOOLEAN
    /\ deleted \subseteq Names

TypeInv == RowsInv /\ RestInv

-----------------------------------------------------------------------------
(* New rows *)

\* A set of rows has one with the largest id.
LEMMA LargestId ==
    ASSUME RowsInv, users # {}
    PROVE  \E u \in users : \A v \in users : v.id <= u.id
<1> DEFINE gaps == {born - u.id : u \in users}
<1>1. /\ gaps \subseteq Nat
      /\ gaps # {}
      /\ \A u \in users : u.id \in Nat
      /\ born \in Nat
  BY AccountsAssumption DEF RowsInv, UserType, Accts
<1>2. PICK g \in gaps : \A h \in gaps : ~ (<<h, g>> \in OpToRel(<, Nat))
  BY <1>1, WFMin, NatLessThanWellFounded
<1>3. \A h \in gaps : ~ (h < g)
  BY <1>1, <1>2 DEF OpToRel
<1>4. PICK u \in users : g = born - u.id
  OBVIOUS
<1>5. \A v \in users : v.id <= u.id
  <2> SUFFICES ASSUME NEW v \in users
               PROVE  v.id <= u.id
    OBVIOUS
  <2>1. ~ (born - v.id < born - u.id)
    BY <1>3, <1>4
  <2>2. QED
    BY <1>1, <2>1
<1>6. QED
  BY <1>5

\* The next id is larger than every id in use, and small enough.
LEMMA FreshId ==
    ASSUME RowsInv
    PROVE  /\ FreeId \in 1..(born + 1)
           /\ \A u \in users : u.id < FreeId
<1>1. /\ born \in Nat /\ lastId \in Nat
      /\ \A u \in users : u.id \in Nat /\ u.id >= 1
  BY AccountsAssumption DEF RowsInv, UserType, Accts
<1>2. CASE ~reusesIds
  BY <1>1, <1>2 DEF FreeId, RowsInv
<1>3. CASE reusesIds /\ users = {}
  BY <1>1, <1>3 DEF FreeId
<1>4. CASE reusesIds /\ users # {}
  <2> DEFINE last == CHOOSE u \in users : \A v \in users : v.id <= u.id
  <2>1. last \in users /\ \A v \in users : v.id <= last.id
    BY <1>4, LargestId
  <2>2. FreeId = 1 + last.id
    BY <1>4 DEF FreeId
  <2>3. last.id <= born
    BY <2>1 DEF RowsInv
  <2> HIDE DEF last
  <2>4. QED
    BY <1>1, <2>1, <2>2, <2>3
<1>5. QED
  BY <1>2, <1>3, <1>4

\* A finite set can be numbered from zero.
LEMMA Ranking ==
    ASSUME NEW S, IsFiniteSet(S)
    PROVE  \E f \in [S -> 0..Cardinality(S) - 1] : \A m, n \in S : f[m] = f[n] => m = n
<1>1. Cardinality(S) \in Nat
  BY FS_CardinalityType
<1>2. PICK g \in Bijection(1..Cardinality(S), S) : TRUE
  BY FS_CardinalityType DEF ExistsBijection
<1>3. /\ g \in [1..Cardinality(S) -> S]
      /\ \A n \in S : \E i \in 1..Cardinality(S) : g[i] = n
  BY <1>2 DEF Bijection, Surjection
<1> DEFINE at(n) == CHOOSE i \in 1..Cardinality(S) : g[i] = n
           f == [n \in S |-> at(n) - 1]
<1>4. \A n \in S : at(n) \in 1..Cardinality(S) /\ g[at(n)] = n
  BY <1>3
<1> HIDE DEF at
<1>5. f \in [S -> 0..Cardinality(S) - 1]
  BY <1>1, <1>4
<1>6. \A m, n \in S : f[m] = f[n] => m = n
  <2> SUFFICES ASSUME NEW m \in S, NEW n \in S, f[m] = f[n]
               PROVE  m = n
    OBVIOUS
  <2>1. at(m) = at(n)
    BY <1>1, <1>4
  <2>2. QED
    BY <1>4, <2>1
<1>7. QED
  BY <1>5, <1>6

\* An INSERT of accounts with names nobody has keeps keys unique and the
\* numbers in their bounds, and leaves the other rows alone.
LEMMA InsertKeeps ==
    ASSUME RowsInv, NEW roles, \A n \in DOMAIN roles : roles[n] \in Roles, DOMAIN roles \subseteq Names,
           IsFiniteSet(DOMAIN roles), \A n \in DOMAIN roles : Named(n) = {}, Insert(roles),
           reusesIds' = reusesIds
    PROVE  /\ users \subseteq users'
           /\ \A n \in DOMAIN roles : \E u \in users' : u.name = n
           /\ RowsInv'
<1> DEFINE new == DOMAIN roles
           rank == CHOOSE f \in [new -> 0..Cardinality(new) - 1] :
                      \A m, n \in new : f[m] = f[n] => m = n
           row(n) == [id |-> FreeId + rank[n], name |-> n, role |-> roles[n],
                      active |-> TRUE, acct |-> born + 1 + rank[n]]
<1>1. /\ rank \in [new -> 0..Cardinality(new) - 1]
      /\ \A m, n \in new : rank[m] = rank[n] => m = n
  BY Ranking
<1>2. /\ born + Cardinality(new) <= MaxAccounts
      /\ users' = users \cup {row(n) : n \in new}
      /\ lastId' = FreeId + Cardinality(new) - 1
      /\ born' = born + Cardinality(new)
  BY DEF Insert
<1>3. Cardinality(new) \in Nat
  BY FS_CardinalityType
<1>4. /\ born \in Nat /\ MaxAccounts \in Nat /\ lastId \in Nat
      /\ users \subseteq UserType
      /\ UniqueKeys
      /\ \A u \in users : u.id \in Nat /\ u.acct \in Nat
  BY AccountsAssumption DEF RowsInv, UserType, Accts
<1>5. /\ FreeId \in Nat /\ FreeId >= 1 /\ FreeId <= born + 1
      /\ \A u \in users : u.id < FreeId
  BY <1>4, FreshId
<1> HIDE DEF rank
<1>6. \A n \in new : rank[n] \in Nat /\ rank[n] <= Cardinality(new) - 1
  BY <1>1, <1>3
<1>7. \A n \in new : /\ row(n) \in UserType
                     /\ row(n).id >= FreeId /\ row(n).id <= born'
                     /\ row(n).acct > born /\ row(n).acct <= born'
                     /\ row(n).id <= lastId'
  <2> SUFFICES ASSUME NEW n \in new
               PROVE  /\ row(n) \in UserType
                      /\ row(n).id >= FreeId /\ row(n).id <= born'
                      /\ row(n).acct > born /\ row(n).acct <= born'
                      /\ row(n).id <= lastId'
    OBVIOUS
  <2>1. /\ FreeId + rank[n] \in 1..MaxAccounts
        /\ born + 1 + rank[n] \in 1..MaxAccounts
    BY <1>2, <1>3, <1>4, <1>5, <1>6
  <2>2. row(n) \in UserType
    BY <2>1 DEF UserType, Accts
  <2>3. QED
    BY <1>2, <1>3, <1>4, <1>5, <1>6, <2>2
<1>8. users' \subseteq UserType
  BY <1>2, <1>4, <1>7
<1>9. \A u \in users, n \in new : u.id # row(n).id /\ u.name # n /\ u.acct # row(n).acct
  <2> SUFFICES ASSUME NEW u \in users, NEW n \in new
               PROVE  u.id # row(n).id /\ u.name # n /\ u.acct # row(n).acct
    OBVIOUS
  <2>1. u.name # n
    BY DEF Named
  <2>2. u.id < FreeId /\ u.acct <= born
    BY <1>5 DEF RowsInv
  <2>3. QED
    BY <1>4, <1>5, <1>6, <2>1, <2>2
<1>10. \A m, n \in new : row(m).id = row(n).id \/ row(m).acct = row(n).acct => m = n
  BY <1>1, <1>4, <1>5, <1>6
<1>11. UniqueKeys'
  <2> SUFFICES ASSUME NEW u \in users', NEW v \in users',
                      u.id = v.id \/ u.name = v.name \/ u.acct = v.acct
               PROVE  u = v
    BY DEF UniqueKeys
  <2>1. CASE u \in users /\ v \in users
    BY <1>4, <2>1 DEF UniqueKeys
  <2>2. CASE u \in users /\ v \notin users
    BY <1>2, <1>9, <2>2
  <2>3. CASE u \notin users /\ v \in users
    BY <1>2, <1>9, <2>3
  <2>4. CASE u \notin users /\ v \notin users
    <3>1. PICK m \in new : u = row(m)
      BY <1>2, <2>4
    <3>2. PICK n \in new : v = row(n)
      BY <1>2, <2>4
    <3>3. row(m).name = m /\ row(n).name = n
      OBVIOUS
    <3> HIDE DEF row
    <3>4. m = n
      BY <1>10, <3>1, <3>2, <3>3
    <3>5. QED
      BY <3>1, <3>2, <3>4
  <2>5. QED
    BY <2>1, <2>2, <2>3, <2>4
<1>12. \A u \in users' : u.id <= born' /\ u.acct <= born'
  <2>1. \A u \in users : u.id <= born /\ u.acct <= born
    BY DEF RowsInv
  <2>2. QED
    BY <1>2, <1>3, <1>4, <1>7, <2>1
<1>13. reusesIds' \/ \A u \in users' : u.id <= lastId'
  BY <1>2, <1>3, <1>4, <1>5, <1>7
<1>14. \A n \in new : row(n) \in users' /\ row(n).name = n
  BY <1>2
<1>15. lastId' \in 0..MaxAccounts /\ born' \in 0..MaxAccounts /\ lastId' <= born'
  BY <1>2, <1>3, <1>4, <1>5
<1>16. users \subseteq users'
  BY <1>2
<1> HIDE DEF row
<1>17. QED
  BY <1>8, <1>11, <1>12, <1>13, <1>14, <1>15, <1>16 DEF RowsInv

-----------------------------------------------------------------------------
(* Steps on one request *)

LEMMA RowsStay ==
    ASSUME RowsInv, UNCHANGED <<reusesIds, accountVars>>
    PROVE  RowsInv'
BY DEF RowsInv, accountVars, UniqueKeys

LEMMA IdleIsGood == Idle \in GoodReq
<1>1. Idle \in ReqType
  BY AccountsAssumption DEF Idle, ReqType, NoAcct, adminOps
<1>2. QED
  BY <1>1 DEF Idle, GoodReq

LEMMA GoesKeeps ==
    ASSUME req \in [Threads -> GoodReq], NEW t \in Threads, NEW r \in GoodReq, Goes(t, r)
    PROVE  req' \in [Threads -> GoodReq]
BY DEF Goes

LEMMA EndsKeeps ==
    ASSUME req \in [Threads -> GoodReq], NEW t \in Threads, Ends(t)
    PROVE  req' \in [Threads -> GoodReq]
BY IdleIsGood, GoesKeeps DEF Ends

\* What MoreExtras leaves room for.
LEMMA RoomForAFault ==
    ASSUME RestInv, MoreExtras
    PROVE  faults + 1 \in 0..MaxExtras
<1>1. /\ Cardinality(jobs) \in Nat /\ Cardinality(revoked) \in Nat
      /\ InProgress({"logout", "submit"}) \in Nat
  <2>1. IsFiniteSet({t \in Threads : req[t].op \in {"logout", "submit"}})
    BY AccountsAssumption, FS_Subset
  <2>2. QED
    BY <2>1, FS_CardinalityType DEF RestInv, InProgress
<1>2. QED
  BY <1>1, AccountsAssumption DEF RestInv, MoreExtras

-----------------------------------------------------------------------------
(* Types *)

\* Start-up: every commit inserts names nobody has.
LEMMA BootKeepsTypes ==
    ASSUME TypeInv, NEW p \in Procs, BootStep(p)
    PROVE  TypeInv'
<1> USE DEF TypeInv
<1>1. CASE SeedLook(p)
  BY <1>1, RowsStay DEF SeedLook, Boots, bootOnly, ghostVars, RestInv, AfterSeeding
<1>2. CASE SeedCommit(p)
  <2>1. boot' \in [Procs -> {"look", "seed", "demo", "addDemo", "serve"}]
    BY <1>2 DEF SeedCommit, Boots, RestInv, AfterSeeding
  <2>2. RestInv'
    BY <1>2, <2>1 DEF SeedCommit, bootOnly, ghostVars, RestInv
  <2>3. CASE SeedsClash
    BY <1>2, <2>2, <2>3, RowsStay DEF SeedCommit, bootOnly
  <2>4. CASE ~SeedsClash
    <3>1. Insert(Seeds) /\ reusesIds' = reusesIds
      BY <1>2, <2>4 DEF SeedCommit, bootOnly
    <3>2. /\ \A n \in DOMAIN Seeds : Named(n) = {}
          /\ DOMAIN Seeds \subseteq Names /\ IsFiniteSet(DOMAIN Seeds)
      BY <2>4, AccountsAssumption DEF SeedsClash
    <3>3. \A n \in DOMAIN Seeds : Seeds[n] \in Roles
      BY AccountsAssumption
    <3>4. RowsInv'
      BY <3>1, <3>2, <3>3, InsertKeeps
    <3>5. QED
      BY <2>2, <3>4
  <2>5. QED
    BY <2>3, <2>4
<1>3. CASE DemoLook(p)
  BY <1>3, RowsStay DEF DemoLook, Boots, bootOnly, ghostVars, RestInv
<1>4. CASE DemoCommit(p)
  <2>1. RestInv'
    BY <1>4 DEF DemoCommit, Boots, bootOnly, ghostVars, RestInv
  <2>2. CASE Named(DemoName) # {}
    BY <1>4, <2>1, <2>2, RowsStay DEF DemoCommit, bootOnly
  <2>3. CASE Named(DemoName) = {}
    <3> DEFINE roles == [n \in {DemoName} |-> DemoRole]
    <3>1. Insert(roles) /\ reusesIds' = reusesIds
      BY <1>4, <2>3 DEF DemoCommit, bootOnly
    <3>2. /\ DOMAIN roles = {DemoName}
          /\ \A n \in DOMAIN roles : roles[n] \in Roles
          /\ DOMAIN roles \subseteq Names
          /\ \A n \in DOMAIN roles : Named(n) = {}
      BY <2>3, AccountsAssumption
    <3>3. IsFiniteSet(DOMAIN roles)
      BY <3>2, FS_Singleton
    <3> HIDE DEF roles
    <3>4. RowsInv'
      BY <3>1, <3>2, <3>3, InsertKeeps
    <3>5. QED
      BY <2>1, <3>4
  <2>4. QED
    BY <2>2, <2>3
<1>5. CASE SeedingRaises(p)
  <2>1. RowsInv'
    BY <1>5, RowsStay DEF SeedingRaises, unseeded
  <2>2. faults' \in 0..MaxExtras
    BY <1>5, RoomForAFault DEF SeedingRaises, Fault
  <2>3. RestInv'
    BY <1>5, <2>2 DEF SeedingRaises, unseeded, Boots, ghostVars, RestInv
  <2>4. QED
    BY <2>1, <2>3
<1>6. CASE BootCrash(p)
  <2>1. RowsInv'
    BY <1>6, RowsStay DEF BootCrash, unseeded
  <2>2. faults' \in 0..MaxExtras
    BY <1>6, RoomForAFault DEF BootCrash, Fault
  <2>3. RestInv'
    BY <1>6, <2>2 DEF BootCrash, unseeded, Boots, ghostVars, RestInv
  <2>4. QED
    BY <2>1, <2>3
<1>7. QED
  BY <1>1, <1>2, <1>3, <1>4, <1>5, <1>6 DEF BootStep

\* Logins, codes, sessions and logouts leave the accounts alone.
LEMMA SessionKeepsTypes ==
    ASSUME TypeInv, NEW t \in Threads, SessionStep(t)
    PROVE  TypeInv'
<1> USE DEF TypeInv
<1>1. /\ req \in [Threads -> GoodReq] /\ req[t] \in GoodReq
      /\ \A u \in users : u.id \in Accts /\ u.acct \in Accts /\ u.name \in Names
      /\ Accts \subseteq 0..MaxAccounts /\ 0 \in 0..MaxTokens
  BY AccountsAssumption DEF RestInv, RowsInv, UserType, Accts
<1>2. Idle \in ReqType
  BY IdleIsGood DEF GoodReq
<1>3. ASSUME NEW n \in Names
      PROVE  [Idle EXCEPT !.at = "send", !.op = "login", !.name = n] \in GoodReq
  BY <1>2, <1>3 DEF GoodReq, ReqType, Idle
<1>4. ASSUME UNCHANGED <<sessionOnly, codes, tokens, faults>>,
             req' \in [Threads -> GoodReq]
      PROVE  TypeInv'
  BY <1>4, RowsStay DEF sessionOnly, RestInv
<1>5. ASSUME NEW n \in Names, Login(t, n)
      PROVE  TypeInv'
  <2>1. PICK u \in Account(n) :
          IF DemoEnabled /\ n = DemoName
          THEN Goes(t, [Idle EXCEPT !.at = "session", !.op = "login", !.by = u.id,
                                     !.byAcct = u.acct, !.name = n])
          ELSE SendsCode(t, n)
    BY <1>5 DEF Login
  <2>2. [Idle EXCEPT !.at = "session", !.op = "login", !.by = u.id,
                     !.byAcct = u.acct, !.name = n] \in GoodReq
    <3>1. u.id \in 0..MaxAccounts /\ u.acct \in 0..MaxAccounts
      BY <1>1 DEF Account, Named
    <3>2. QED
      BY <1>2, <3>1 DEF GoodReq, ReqType, Idle
  <2>3. req' \in [Threads -> GoodReq]
    BY <1>1, <1>3, <2>1, <2>2, GoesKeeps DEF SendsCode
  <2>4. QED
    BY <1>4, <1>5, <2>3 DEF Login
<1>6. ASSUME NEW n \in Names, Resend(t, n)
      PROVE  TypeInv'
  <2>1. req' \in [Threads -> GoodReq]
    BY <1>1, <1>3, <1>6, GoesKeeps DEF Resend, SendsCode
  <2>2. QED
    BY <1>4, <1>6, <2>1 DEF Resend
<1>7. CASE SendCode(t)
  <2>1. req' \in [Threads -> GoodReq]
    BY <1>1, <1>7, EndsKeeps DEF SendCode
  <2>2. req[t].name \in Names /\ req[t].disturbed \in BOOLEAN
    BY <1>1, <1>7 DEF SendCode, GoodReq, ReqType
  <2>3. codes' \subseteq [name : Names, disturbed : BOOLEAN]
    BY <1>7, <2>2 DEF SendCode, RestInv
  <2>4. QED
    BY <1>7, <2>1, <2>3, RowsStay DEF SendCode, sessionOnly, RestInv
<1>8. ASSUME NEW c \in codes, UseCode(t, c)
      PROVE  TypeInv'
  <2>1. c.name \in Names /\ c.disturbed \in BOOLEAN
    BY DEF RestInv
  <2>2. [Idle EXCEPT !.at = "account", !.op = "verify", !.name = c.name,
                     !.disturbed = c.disturbed] \in GoodReq
    BY <1>2, <2>1 DEF GoodReq, ReqType, Idle
  <2>3. req' \in [Threads -> GoodReq]
    BY <1>1, <1>8, <2>2, GoesKeeps DEF UseCode
  <2>4. codes' \subseteq [name : Names, disturbed : BOOLEAN]
    BY <1>8 DEF UseCode, RestInv
  <2>5. QED
    BY <1>8, <2>3, <2>4, RowsStay DEF UseCode, sessionOnly, RestInv
<1>9. CASE FindAccount(t)
  <2>1. CASE Ends(t)
    BY <1>1, <1>4, <1>9, <2>1, EndsKeeps DEF FindAccount
  <2>2. CASE \E u \in CodeHolder(t) :
               Goes(t, [req[t] EXCEPT !.at = "session", !.by = u.id, !.byAcct = u.acct])
    <3>1. PICK u \in CodeHolder(t) :
               Goes(t, [req[t] EXCEPT !.at = "session", !.by = u.id, !.byAcct = u.acct])
      BY <2>2
    <3>2. u.id \in 0..MaxAccounts /\ u.acct \in 0..MaxAccounts
      BY <1>1 DEF CodeHolder, Account, Named
    <3>3. [req[t] EXCEPT !.at = "session", !.by = u.id, !.byAcct = u.acct] \in GoodReq
      BY <1>1, <1>9, <3>2 DEF FindAccount, GoodReq, ReqType
    <3>4. req' \in [Threads -> GoodReq]
      BY <1>1, <3>1, <3>3, GoesKeeps
    <3>5. QED
      BY <1>4, <1>9, <3>1, <3>4 DEF FindAccount
  <2>3. QED
    BY <1>9, <2>1, <2>2 DEF FindAccount
<1>10. CASE IssueSession(t)
  <2>1. req' \in [Threads -> GoodReq]
    BY <1>1, <1>10, EndsKeeps DEF IssueSession
  <2>2. faults' \in 0..MaxExtras
    BY <1>10, RoomForAFault DEF IssueSession, Fault, RestInv
  <2>3. tokens' \subseteq [jti : 1..MaxTokens, name : Names] /\ IsFiniteSet(tokens')
    <3>1. CASE UNCHANGED tokens
      BY <3>1 DEF RestInv
    <3>2. CASE \E u \in ById(req[t].by) : Issue(u.name)
      <4>1. PICK u \in ById(req[t].by) : Issue(u.name)
        BY <3>2
      <4>2. u.name \in Names
        BY <1>1 DEF ById
      <4>3. Cardinality(tokens) + 1 \in 1..MaxTokens
        BY <4>1, AccountsAssumption, FS_CardinalityType DEF Issue, RestInv
      <4>4. tokens' = tokens \cup {[jti |-> Cardinality(tokens) + 1, name |-> u.name]}
        BY <4>1 DEF Issue
      <4>5. IsFiniteSet(tokens')
        BY <4>4, FS_AddElement DEF RestInv
      <4>6. QED
        BY <4>2, <4>3, <4>4, <4>5 DEF RestInv
    <3>3. QED
      BY <1>10, <3>1, <3>2 DEF IssueSession
  <2>4. QED
    BY <1>10, <2>1, <2>2, <2>3, RowsStay DEF IssueSession, sessionOnly, RestInv
<1>11. CASE LogoutCommit(t)
  <2>1. req' \in [Threads -> GoodReq]
    BY <1>1, <1>11, EndsKeeps DEF LogoutCommit
  <2>2. req[t].jti \in 1..MaxTokens
    BY <1>1, <1>11 DEF LogoutCommit, GoodReq
  <2>3. revoked' = revoked \cup {req[t].jti}
    BY <1>11 DEF LogoutCommit
  <2>4. revoked' \subseteq 1..MaxTokens /\ IsFiniteSet(revoked')
    BY <2>2, <2>3, FS_AddElement DEF RestInv
  <2>5. QED
    BY <1>11, <2>1, <2>4, RowsStay DEF LogoutCommit, ghostVars, RestInv
<1>12. ASSUME NEW tok \in tokens, LogoutLook(t, tok)
       PROVE  TypeInv'
  <2>1. tok.jti \in 1..MaxTokens /\ tok.jti \in 0..MaxTokens
    BY AccountsAssumption DEF RestInv
  <2> DEFINE r == [Idle EXCEPT !.at = "revoke", !.op = "logout", !.jti = tok.jti]
  <2>2. r \in GoodReq
    <3>1. r.at = "revoke" /\ r.jti = tok.jti
      BY DEF Idle
    <3>2. r \in ReqType
      BY <1>2, <2>1 DEF ReqType, Idle
    <3>3. QED
      BY <2>1, <3>1, <3>2 DEF GoodReq
  <2>3. req' \in [Threads -> GoodReq]
    BY <1>1, <1>12, <2>2, GoesKeeps DEF LogoutLook
  <2>4. QED
    BY <1>4, <1>12, <2>3 DEF LogoutLook
<1>13. QED
  BY <1>5, <1>6, <1>7, <1>8, <1>9, <1>10, <1>11, <1>12 DEF SessionStep

\* The commit of an administrator's request.
LEMMA CommitsKeeps ==
    ASSUME RestInv, NEW t \in Threads, NEW names, Commits(t, names)
    PROVE  /\ changes' \in Nat
           /\ codes' \subseteq [name : Names, disturbed : BOOLEAN]
           /\ req' \in [Threads -> GoodReq]
<1>1. changes' \in Nat
  BY DEF Commits, RestInv
<1>2. codes' \subseteq [name : Names, disturbed : BOOLEAN]
  BY DEF Commits, RestInv
<1>3. req[t] \in ReqType
  BY DEF RestInv, GoodReq
<1>4. ToAudit(t, req[t].target) \in GoodReq
  <2>1. ToAudit(t, req[t].target) \in ReqType
    BY <1>3, IdleIsGood DEF ToAudit, GoodReq, ReqType, Idle
  <2>2. ToAudit(t, req[t].target).at = "audit"
    BY DEF ToAudit, Idle
  <2>3. QED
    BY <2>1, <2>2 DEF GoodReq
<1>5. ASSUME NEW s \in Threads
      PROVE  [req[s] EXCEPT !.disturbed = @ \/ (req[s].op \in {"login", "verify"}
                                                  /\ req[s].name \in names)] \in GoodReq
  <2> DEFINE d == req[s].disturbed \/ (req[s].op \in {"login", "verify"} /\ req[s].name \in names)
             r == [req[s] EXCEPT !.disturbed = d]
  <2>1. req[s] \in GoodReq /\ req[s] \in ReqType /\ req[s].disturbed \in BOOLEAN
    BY DEF RestInv, GoodReq, ReqType
  <2>2. d \in BOOLEAN
    BY <2>1
  <2> HIDE DEF d
  <2>3. r \in ReqType
    BY <2>1, <2>2 DEF ReqType
  <2>4. /\ r.at = req[s].at /\ r.op = req[s].op /\ r.name = req[s].name /\ r.jti = req[s].jti
        /\ r.by = req[s].by /\ r.byAcct = req[s].byAcct
        /\ r.target = req[s].target /\ r.role = req[s].role
    BY <2>1 DEF ReqType
  <2>5. r \in GoodReq
    <3> HIDE DEF r
    <3>1. QED
      BY <2>1, <2>3, <2>4 DEF GoodReq
  <2>6. QED
    BY <2>5 DEF d
<1>6. QED
  BY <1>1, <1>2, <1>4, <1>5 DEF Commits

\* UPDATE of one row by id keeps the keys.
LEMMA WrittenKeeps ==
    ASSUME RowsInv, NEW u \in users, NEW w \in UserType,
           w.id = u.id, w.name = u.name, w.acct = u.acct,
           users' = (users \ {u}) \cup {w},
           UNCHANGED <<reusesIds, lastId, born>>
    PROVE  RowsInv'
<1>1. users' \subseteq UserType
  BY DEF RowsInv
<1>2. UniqueKeys'
  <2> SUFFICES ASSUME NEW x \in users', NEW y \in users',
                      x.id = y.id \/ x.name = y.name \/ x.acct = y.acct
               PROVE  x = y
    BY DEF UniqueKeys
  <2>1. CASE x = w /\ y = w
    BY <2>1
  <2>2. CASE x = w /\ y # w
    BY <2>2 DEF RowsInv, UniqueKeys
  <2>3. CASE x # w /\ y = w
    BY <2>3 DEF RowsInv, UniqueKeys
  <2>4. CASE x # w /\ y # w
    BY <2>4 DEF RowsInv, UniqueKeys
  <2>5. QED
    BY <2>1, <2>2, <2>3, <2>4
<1>3. \A x \in users' : \E y \in users : x.id = y.id /\ x.acct = y.acct
  OBVIOUS
<1>4. QED
  BY <1>1, <1>2, <1>3 DEF RowsInv

\* DELETE keeps the keys of the rows that stay.
LEMMA DeletedKeeps ==
    ASSUME RowsInv, users' \subseteq users, UNCHANGED <<reusesIds, lastId, born>>
    PROVE  RowsInv'
BY DEF RowsInv, UniqueKeys

\* Administrators' requests and the filing of jobs.
LEMMA AdminKeepsTypes ==
    ASSUME TypeInv, NEW t \in Threads, AdminStep(t)
    PROVE  TypeInv'
<1> USE DEF TypeInv
<1>1. /\ req \in [Threads -> GoodReq] /\ req[t] \in GoodReq /\ req[t] \in ReqType
      /\ \A u \in users : u.id \in Accts /\ u.acct \in Accts /\ u.name \in Names
      /\ \A i \in Accts : i \in 0..MaxAccounts
  BY AccountsAssumption DEF RestInv, RowsInv, UserType, Accts, GoodReq
<1>2. Idle \in ReqType
  BY IdleIsGood DEF GoodReq
<1>3. ASSUME UNCHANGED reads, req' \in [Threads -> GoodReq]
      PROVE  TypeInv'
  BY <1>3, RowsStay DEF reads, ghostVars, RestInv
<1>4. ASSUME NEW tok \in tokens, NEW op \in {"admin", "submit"}, Admit(t, tok, op)
      PROVE  TypeInv'
  <2>1. PICK u \in Account(tok.name) :
          Goes(t, [Idle EXCEPT !.at = "read", !.op = op, !.by = u.id, !.byAcct = u.acct])
    BY <1>4 DEF Admit
  <2>2. u.id \in Accts /\ u.acct \in Accts /\ u.id \in 0..MaxAccounts /\ u.acct \in 0..MaxAccounts
    BY <1>1 DEF Account, Named
  <2> DEFINE r == [Idle EXCEPT !.at = "read", !.op = op, !.by = u.id, !.byAcct = u.acct]
  <2>3. r \in GoodReq
    <3>1. r.at = "read" /\ r.by = u.id /\ r.byAcct = u.acct /\ r.target = 0
      BY DEF Idle
    <3>2. r \in ReqType
      BY <1>2, <2>2 DEF ReqType, Idle
    <3>3. QED
      BY <2>2, <3>1, <3>2 DEF GoodReq
  <2>4. req' \in [Threads -> GoodReq]
    BY <1>1, <2>1, <2>3, GoesKeeps
  <2>5. QED
    BY <1>3, <1>4, <2>4 DEF Admit
<1>5. ASSUME NEW i \in Accts, NEW role \in Roles, NEW op \in {"role", "toggle", "delete"},
             ReadTarget(t, op, i, role)
      PROVE  TypeInv'
  <2>1. PICK u \in ById(i) :
          /\ ~IsSelf(t, u)
          /\ Goes(t, [req[t] EXCEPT !.at = "commit", !.op = op, !.target = i, !.targetAcct = u.acct,
                        !.role = IF op = "role" THEN role ELSE "none",
                        !.active = op = "toggle" /\ ~u.active,
                        !.writes = op = "role" => role # u.role])
    BY <1>5 DEF ReadTarget
  <2>2. u.acct \in 0..MaxAccounts /\ i \in 0..MaxAccounts /\ i # req[t].by
    BY <1>1, <2>1 DEF ById, IsSelf
  <2> DEFINE a == op = "toggle" /\ ~u.active
             w == op = "role" => role # u.role
             r == [req[t] EXCEPT !.at = "commit", !.op = op, !.target = i, !.targetAcct = u.acct,
                        !.role = IF op = "role" THEN role ELSE "none",
                        !.active = a, !.writes = w]
  <2>3. a \in BOOLEAN /\ w \in BOOLEAN
    OBVIOUS
  <2>4. Goes(t, r)
    BY <2>1
  <2> HIDE DEF a, w
  <2>5. r \in GoodReq
    <3>1. r \in ReqType
      <4>1. PICK c : c = IF op = "role" THEN role ELSE "none"
        OBVIOUS
      <4>2. c \in Roles \cup {"none"} /\ op \in {"none"} \cup adminOps
        BY <4>1 DEF adminOps
      <4>3. r = [req[t] EXCEPT !.at = "commit", !.op = op, !.target = i, !.targetAcct = u.acct,
                               !.role = c, !.active = a, !.writes = w]
        BY <4>1
      <4> HIDE DEF r
      <4>4. QED
        BY <1>1, <2>2, <2>3, <4>2, <4>3 DEF ReqType
    <3>2. /\ r.at = "commit" /\ r.op = op /\ r.target = i /\ r.by = req[t].by
          /\ op = "role" => r.role = role
      BY <1>1 DEF ReqType
    <3> HIDE DEF r
    <3>3. QED
      BY <2>2, <3>1, <3>2 DEF GoodReq, adminOps
  <2> HIDE DEF r
  <2>6. req' \in [Threads -> GoodReq]
    BY <1>1, <2>4, <2>5, GoesKeeps
  <2>7. QED
    BY <1>3, <1>5, <2>6 DEF ReadTarget
<1>6. ASSUME NEW n \in Names, NEW role \in Roles, ReadName(t, n, role)
      PROVE  TypeInv'
  <2> DEFINE r == [req[t] EXCEPT !.at = "commit", !.op = "create", !.name = n, !.role = role]
  <2>1. r \in GoodReq
    <3>1. r \in ReqType
      BY <1>1 DEF ReqType, adminOps
    <3>2. /\ r.at = "commit" /\ r.op = "create" /\ r.name = n /\ r.role = role
          /\ r.target = req[t].target
      BY <1>1 DEF ReqType
    <3>3. req[t].target = 0
      BY <1>1, <1>6 DEF ReadName, GoodReq
    <3> HIDE DEF r
    <3>4. QED
      BY <3>1, <3>2, <3>3 DEF GoodReq, adminOps
  <2>2. req' \in [Threads -> GoodReq]
    BY <1>1, <1>6, <2>1, GoesKeeps DEF ReadName
  <2>3. QED
    BY <1>3, <1>6, <2>2 DEF ReadName
<1>7. CASE Refuse(t)
  BY <1>1, <1>3, <1>7, EndsKeeps DEF Refuse
<1>8. CASE CommitUpdate(t)
  <2>1. UNCHANGED <<unwritten, lastId, born, deleted>>
    BY <1>8 DEF CommitUpdate
  <2>2. CASE /\ req[t].writes
             /\ \E u \in ById(req[t].target) :
                   /\ users' = (users \ {u}) \cup {Written(t, u)}
                   /\ Commits(t, IF Written(t, u).active THEN {} ELSE {u.name})
    <3>1. PICK u \in ById(req[t].target) :
                   /\ users' = (users \ {u}) \cup {Written(t, u)}
                   /\ Commits(t, IF Written(t, u).active THEN {} ELSE {u.name})
      BY <2>2
    <3>2. u \in users /\ u \in UserType
      BY DEF ById, RowsInv
    <3>3. req[t].active \in BOOLEAN /\ (req[t].op = "role" => req[t].role \in Roles)
      BY <1>1, <1>8 DEF CommitUpdate, GoodReq, ReqType
    <3>4. /\ Written(t, u) \in UserType
          /\ Written(t, u).id = u.id /\ Written(t, u).name = u.name /\ Written(t, u).acct = u.acct
      BY <3>2, <3>3 DEF Written, UserType
    <3>5. RowsInv'
      BY <2>1, <3>1, <3>2, <3>4, WrittenKeeps DEF unwritten
    <3>6. RestInv'
      BY <2>1, <3>1, CommitsKeeps DEF unwritten, RestInv
    <3>7. QED
      BY <3>5, <3>6
  <2>3. CASE Commits(t, {}) /\ UNCHANGED users
    <3>1. RowsInv'
      BY <2>1, <2>3, RowsStay DEF unwritten, accountVars
    <3>2. RestInv'
      BY <2>1, <2>3, CommitsKeeps DEF unwritten, RestInv
    <3>3. QED
      BY <3>1, <3>2
  <2>4. CASE Ends(t) /\ UNCHANGED <<users, codes, changes>>
    <3>1. RowsInv'
      BY <2>1, <2>4, RowsStay DEF unwritten, accountVars
    <3>2. RestInv'
      BY <1>1, <2>1, <2>4, EndsKeeps DEF unwritten, RestInv
    <3>3. QED
      BY <3>1, <3>2
  <2>5. QED
    BY <1>8, <2>2, <2>3, <2>4 DEF CommitUpdate
<1>9. CASE CommitDelete(t)
  <2> DEFINE gone == ById(req[t].target)
             names == {u.name : u \in gone}
  <2>1. /\ users' = users \ gone /\ deleted' = deleted \cup names
        /\ Commits(t, names)
        /\ UNCHANGED <<unwritten, lastId, born>>
    BY <1>9 DEF CommitDelete
  <2>2. RowsInv'
    BY <2>1, DeletedKeeps DEF unwritten
  <2>3. names \subseteq Names
    BY <1>1 DEF ById
  <2>4. RestInv'
    BY <2>1, <2>3, CommitsKeeps DEF unwritten, RestInv
  <2>5. QED
    BY <2>2, <2>4
<1>10. CASE CommitCreate(t)
  <2>1. UNCHANGED <<unwritten, codes, deleted>>
    BY <1>10 DEF CommitCreate
  <2>2. CASE /\ Named(req[t].name) = {}
             /\ Insert([n \in {req[t].name} |-> req[t].role])
             /\ changes' = changes + 1
             /\ Goes(t, ToAudit(t, lastId'))
    <3> DEFINE roles == [n \in {req[t].name} |-> req[t].role]
    <3>1. req[t].name \in Names /\ req[t].role \in Roles
      BY <1>1, <1>10 DEF CommitCreate, GoodReq
    <3>2. /\ DOMAIN roles = {req[t].name}
          /\ \A n \in DOMAIN roles : roles[n] \in Roles
          /\ DOMAIN roles \subseteq Names
          /\ \A n \in DOMAIN roles : Named(n) = {}
      BY <2>2, <3>1
    <3>3. IsFiniteSet(DOMAIN roles)
      BY <3>2, FS_Singleton
    <3>4. Insert(roles) /\ reusesIds' = reusesIds
      BY <2>1, <2>2 DEF unwritten
    <3> HIDE DEF roles
    <3>5. RowsInv'
      BY <3>2, <3>3, <3>4, InsertKeeps
    <3>6. ToAudit(t, lastId') \in GoodReq
      <4>1. lastId' \in 0..MaxAccounts
        BY <3>5 DEF RowsInv
      <4>2. ToAudit(t, lastId') \in ReqType
        BY <1>1, <1>2, <4>1 DEF ToAudit, ReqType, Idle
      <4>3. ToAudit(t, lastId').at = "audit"
        BY DEF ToAudit, Idle
      <4>4. QED
        BY <4>2, <4>3 DEF GoodReq
    <3>7. req' \in [Threads -> GoodReq]
      BY <1>1, <2>2, <3>6, GoesKeeps
    <3>8. RestInv'
      BY <2>1, <2>2, <3>7 DEF unwritten, RestInv
    <3>9. QED
      BY <3>5, <3>8
  <2>3. CASE Ends(t) /\ UNCHANGED <<accountVars, changes>>
    <3>1. RowsInv'
      BY <2>1, <2>3, RowsStay DEF unwritten
    <3>2. RestInv'
      BY <1>1, <2>1, <2>3, EndsKeeps DEF unwritten, RestInv
    <3>3. QED
      BY <3>1, <3>2
  <2>4. QED
    BY <1>10, <2>2, <2>3 DEF CommitCreate
<1>11. CASE Audit(t)
  <2>1. req' \in [Threads -> GoodReq]
    BY <1>1, <1>11, EndsKeeps DEF Audit
  <2>2. trail' \in Nat /\ misnamed' \in BOOLEAN
    <3>1. CASE UNCHANGED <<trail, misnamed>>
      BY <3>1 DEF RestInv
    <3>2. CASE \E u \in ById(req[t].by) :
                 /\ trail' = IF Records(t) THEN trail + 1 ELSE trail
                 /\ misnamed' = (misnamed \/ ~Heir(req[t].byAcct, u))
      BY <3>2 DEF RestInv
    <3>3. QED
      BY <1>11, <3>1, <3>2 DEF Audit
  <2>3. faults' \in 0..MaxExtras
    BY <1>11, RoomForAFault DEF Audit, Fault, RestInv
  <2>4. QED
    BY <1>11, <2>1, <2>2, <2>3, RowsStay DEF Audit, RestInv
<1>12. CASE SubmitJob(t)
  <2>1. req' \in [Threads -> GoodReq]
    BY <1>1, <1>12, EndsKeeps DEF SubmitJob
  <2>2. req[t].by \in Accts /\ req[t].byAcct \in Accts
    BY <1>1, <1>12 DEF SubmitJob, GoodReq
  <2>3. jobs' = jobs \cup {[uid |-> req[t].by, acct |-> req[t].byAcct]}
    BY <1>12 DEF SubmitJob
  <2>4. jobs' \subseteq [uid : Accts, acct : Accts]
    BY <2>2, <2>3 DEF RestInv
  <2>5. IsFiniteSet(jobs')
    BY <2>3, FS_AddElement DEF RestInv
  <2>6. QED
    BY <1>12, <2>1, <2>4, <2>5, RowsStay DEF SubmitJob, ghostVars, RestInv
<1>13. QED
  BY <1>4, <1>5, <1>6, <1>7, <1>8, <1>9, <1>10, <1>11, <1>12 DEF AdminStep

\* The invariant the other proofs rest on.
LEMMA Types == Spec => []TypeInv
<1>1. Init => TypeInv
  <2> SUFFICES ASSUME Init
               PROVE  TypeInv
    OBVIOUS
  <2>1. RowsInv
    <3>1. users = {} /\ lastId = 0 /\ born = 0 /\ reusesIds \in BOOLEAN
      BY DEF Init
    <3>2. MaxAccounts \in Nat
      BY AccountsAssumption
    <3>3. lastId \in 0..MaxAccounts /\ born \in 0..MaxAccounts /\ lastId <= born
      BY <3>1, <3>2
    <3>4. UniqueKeys
      BY <3>1 DEF UniqueKeys
    <3>5. QED
      BY <3>1, <3>3, <3>4 DEF RowsInv
  <2>2. req \in [Threads -> GoodReq]
    BY IdleIsGood DEF Init
  <2>3. RestInv
    <3>1. 0 \in 0..MaxExtras
      BY AccountsAssumption
    <3>2. IsFiniteSet({})
      BY FS_EmptySet
    <3>3. /\ codes = {} /\ tokens = {} /\ revoked = {} /\ jobs = {} /\ deleted = {}
          /\ boot = [p \in Procs |-> "look"] /\ struck = {} /\ faults = 0
          /\ changes = 0 /\ trail = 0 /\ misnamed = FALSE
      BY DEF Init
    <3>4. QED
      BY <2>2, <3>1, <3>2, <3>3 DEF RestInv
  <2>4. QED
    BY <2>1, <2>3 DEF TypeInv
<1>2. TypeInv /\ [Next]_vars => TypeInv'
  <2> SUFFICES ASSUME TypeInv, [Next]_vars
               PROVE  TypeInv'
    OBVIOUS
  <2>1. ASSUME NEW p \in Procs, BootStep(p)
        PROVE  TypeInv'
    BY <2>1, BootKeepsTypes
  <2>2. ASSUME NEW t \in Threads, SessionStep(t)
        PROVE  TypeInv'
    BY <2>2, SessionKeepsTypes
  <2>3. ASSUME NEW t \in Threads, AdminStep(t)
        PROVE  TypeInv'
    BY <2>3, AdminKeepsTypes
  <2>4. CASE UNCHANGED vars
    BY <2>4, RowsStay DEF TypeInv, vars, ghostVars, RestInv
  <2>5. QED
    BY <2>1, <2>2, <2>3, <2>4 DEF Next
<1>3. QED
  BY <1>1, <1>2, PTL DEF Spec

\* Every variable keeps its type, and no two rows share a name or an id: what
\* the unique constraints and the choice of ids promise on both databases.
THEOREM TypeCorrect == Spec => []TypeOK
<1>1. TypeInv => TypeOK
  <2> SUFFICES ASSUME TypeInv
               PROVE  TypeOK
    OBVIOUS
  <2>1. req \in [Threads -> ReqType]
    BY DEF TypeInv, RestInv, GoodReq
  <2>2. QED
    BY <2>1 DEF TypeInv, RowsInv, RestInv, TypeOK
<1>2. QED
  BY <1>1, Types, PTL

-----------------------------------------------------------------------------
(* What a step does to the rows *)

LEMMA InsertedAreIn ==
    ASSUME NEW roles, Insert(roles), NEW n \in DOMAIN roles
    PROVE  \E u \in users' : u.name = n
<1> DEFINE new == DOMAIN roles
           rank == CHOOSE f \in [new -> 0..Cardinality(new) - 1] :
                      \A l, m \in new : f[l] = f[m] => l = m
           row(m) == [id |-> FreeId + rank[m], name |-> m, role |-> roles[m],
                      active |-> TRUE, acct |-> born + 1 + rank[m]]
<1>1. users' = users \cup {row(m) : m \in new}
  BY DEF Insert
<1> HIDE DEF rank
<1>2. row(n) \in users' /\ row(n).name = n
  BY <1>1
<1>3. QED
  BY <1>2

\* Only a committed change of an administrator touches rows that exist.
LEMMA RowsGrow ==
    ASSUME Next, ~ \E t \in Threads : CommitUpdate(t) \/ CommitDelete(t)
    PROVE  users \subseteq users' /\ deleted' = deleted
<1>1. ASSUME NEW roles, Insert(roles)
      PROVE  users \subseteq users'
  BY <1>1 DEF Insert
<1>2. ASSUME NEW p \in Procs, BootStep(p)
      PROVE  users \subseteq users' /\ deleted' = deleted
  BY <1>1, <1>2 DEF BootStep, SeedLook, SeedCommit, DemoLook, DemoCommit, SeedingRaises,
                    BootCrash, bootOnly, unseeded, accountVars, ghostVars
<1>3. ASSUME NEW t \in Threads, SessionStep(t)
      PROVE  users \subseteq users' /\ deleted' = deleted
  BY <1>3 DEF SessionStep, Login, Resend, SendCode, UseCode, FindAccount, IssueSession,
              LogoutLook, LogoutCommit, sessionOnly, accountVars, ghostVars
<1>4. ASSUME NEW t \in Threads, AdminStep(t)
      PROVE  users \subseteq users' /\ deleted' = deleted
  BY <1>1, <1>4 DEF AdminStep, Admit, ReadTarget, ReadName, Refuse, CommitCreate, Audit,
                    SubmitJob, reads, accountVars, ghostVars
<1>5. QED
  BY <1>2, <1>3, <1>4 DEF Next

\* An UPDATE replaces at most one row, by one with its id and its name.
LEMMA UpdateKeepsNames ==
    ASSUME TypeInv, NEW t \in Threads, CommitUpdate(t)
    PROVE  /\ deleted' = deleted
           /\ \A u \in users : u.id # req[t].target => u \in users'
           /\ \A u \in users : \E w \in users' : w.id = u.id /\ w.name = u.name
           /\ \A w \in users' : \E u \in users : w.name = u.name
<1>1. deleted' = deleted
  BY DEF CommitUpdate
<1>2. CASE UNCHANGED users
  BY <1>1, <1>2
<1>3. CASE \E u \in ById(req[t].target) : users' = (users \ {u}) \cup {Written(t, u)}
  <2>1. PICK u \in ById(req[t].target) : users' = (users \ {u}) \cup {Written(t, u)}
    BY <1>3
  <2>2. u \in users /\ u.id = req[t].target /\ u \in UserType
    BY DEF ById, TypeInv, RowsInv
  <2>3. Written(t, u).id = u.id /\ Written(t, u).name = u.name
    BY <2>2 DEF Written, UserType
  <2>4. QED
    BY <1>1, <2>1, <2>2, <2>3
<1>4. QED
  BY <1>2, <1>3 DEF CommitUpdate

-----------------------------------------------------------------------------
(* The last administrator *)

\* auth.py:324, 339, 354: the checks against changing, deactivating and deleting
\* oneself hold until the commit, so if the requesting account is still an active
\* administrator it is one afterwards.  The last one goes by a stale request only.
THEOREM LastAdmin == Spec => LastAdminGoesByAStaleOne
<1> DEFINE Stale == \E t \in Threads : /\ req[t].at = "commit"
                                       /\ \A u \in ActiveAdmins : u.id # req[t].by
<1>1. ASSUME TypeInv, [Next]_vars, ActiveAdmins # {}, ActiveAdmins' = {}
      PROVE  Stale
  <2>1. CASE UNCHANGED vars
    BY <1>1, <2>1 DEF vars, accountVars, ActiveAdmins
  <2>2. ASSUME NEW t \in Threads, CommitUpdate(t) \/ CommitDelete(t)
        PROVE  Stale
    <3> SUFFICES ASSUME NEW a \in ActiveAdmins, a.id = req[t].by
                 PROVE  FALSE
      BY <2>2 DEF CommitUpdate, CommitDelete
    <3>1. req[t].target # req[t].by
      BY <1>1, <2>2 DEF CommitUpdate, CommitDelete, TypeInv, RestInv, GoodReq
    <3>2. a \in users'
      BY <1>1, <2>2, <3>1, UpdateKeepsNames DEF CommitDelete, ActiveAdmins, ById
    <3>3. QED
      BY <1>1, <3>2 DEF ActiveAdmins
  <2>3. CASE Next /\ ~ \E t \in Threads : CommitUpdate(t) \/ CommitDelete(t)
    BY <1>1, <2>3, RowsGrow DEF ActiveAdmins
  <2>4. QED
    BY <1>1, <2>1, <2>2, <2>3
<1>2. TypeInv /\ [Next]_vars => [ActiveAdmins # {} /\ ActiveAdmins' = {} => Stale]_vars
  BY <1>1
<1>3. QED
  BY <1>2, Types, PTL DEF Spec, LastAdminGoesByAStaleOne

-----------------------------------------------------------------------------
(* Start-up *)

\* Before the seeds are in, the table is empty, no process serves but one whose
\* start-up met an exception, and nobody can sign in there.  With the seeds in,
\* nothing deleted and no such process, the demo account is there or a process
\* has still to look for it.
NothingYet ==
    /\ users = {} /\ codes = {} /\ tokens = {}
    /\ \A p \in Procs : boot[p] \in {"look", "seed"} \/ (p \in struck /\ boot[p] = "serve")
    /\ \A t \in Threads : req[t].at = "idle"

DemoComes == \E p \in Procs : boot[p] \in {"look", "demo", "addDemo"}

Untouched == deleted \cap ({DemoName} \cup DOMAIN Seeds) = {}

BootInv ==
    /\ NothingYet \/ SeedsIn
    /\ DemoEnabled /\ SeedsIn /\ Untouched /\ struck = {} => Named(DemoName) # {} \/ DemoComes

\* A seed that is in stays, or its name is among the deleted.
LEMMA NamesStay ==
    ASSUME TypeInv, [Next]_vars
    PROVE  /\ deleted \subseteq deleted'
           /\ \A u \in users : (\E w \in users' : w.name = u.name) \/ u.name \in deleted'
<1>1. CASE UNCHANGED vars
  BY <1>1 DEF vars, accountVars, ghostVars
<1>2. ASSUME NEW t \in Threads, CommitUpdate(t)
      PROVE  /\ deleted \subseteq deleted'
             /\ \A u \in users : (\E w \in users' : w.name = u.name) \/ u.name \in deleted'
  BY <1>2, UpdateKeepsNames
<1>3. ASSUME NEW t \in Threads, CommitDelete(t)
      PROVE  /\ deleted \subseteq deleted'
             /\ \A u \in users : (\E w \in users' : w.name = u.name) \/ u.name \in deleted'
  BY <1>3 DEF CommitDelete
<1>4. CASE Next /\ ~ \E t \in Threads : CommitUpdate(t) \/ CommitDelete(t)
  BY <1>4, RowsGrow
<1>5. QED
  BY <1>1, <1>2, <1>3, <1>4

\* No request begins while there are no accounts.
LEMMA NoRequestYet ==
    ASSUME NothingYet, NEW t \in Threads
    PROVE  ~SessionStep(t) /\ ~AdminStep(t)
<1>1. req[t].at = "idle" /\ codes = {} /\ tokens = {} /\ \A n : Account(n) = {}
  BY DEF NothingYet, Account, Named
<1>2. ~SessionStep(t)
  BY <1>1 DEF SessionStep, Login, Resend, SendCode, UseCode, FindAccount,
              IssueSession, LogoutLook, LogoutCommit
<1>3. ~AdminStep(t)
  BY <1>1 DEF AdminStep, Admit, ReadTarget, ReadName, Refuse, CommitUpdate,
              CommitDelete, CommitCreate, Audit, SubmitJob
<1>4. QED
  BY <1>2, <1>3

\* The seeds come in one transaction.
LEMMA SeedsStep ==
    ASSUME TypeInv, BootInv, [Next]_vars
    PROVE  NothingYet' \/ SeedsIn'
<1>1. CASE SeedsIn
  BY <1>1, NamesStay DEF SeedsIn, Named
<1>2. CASE NothingYet
  <2>1. CASE UNCHANGED vars
    BY <1>2, <2>1 DEF vars, accountVars, NothingYet
  <2>2. ASSUME NEW p \in Procs, BootStep(p)
        PROVE  NothingYet' \/ SeedsIn'
    <3> USE DEF Boots, bootOnly, unseeded, accountVars
    <3>1. /\ boot \in [Procs -> {"look", "seed", "demo", "addDemo", "serve"}]
          /\ struck \subseteq Procs
      BY DEF TypeInv, RestInv
    <3>2. CASE SeedLook(p)
      BY <1>2, <3>1, <3>2 DEF SeedLook, NothingYet
    <3>3. CASE SeedCommit(p)
      <4>1. Insert(Seeds)
        BY <1>2, <3>3 DEF SeedCommit, SeedsClash, Named, NothingYet
      <4>2. \A n \in DOMAIN Seeds : \E u \in users' : u.name = n
        BY <4>1, InsertedAreIn
      <4>3. QED
        BY <4>2 DEF SeedsIn, Named
    <3>4. CASE SeedingRaises(p)
      BY <1>2, <3>1, <3>4 DEF SeedingRaises, NothingYet
    <3>5. CASE BootCrash(p)
      BY <1>2, <3>1, <3>5 DEF BootCrash, NothingYet
    <3>6. QED
      BY <1>2, <2>2, <3>2, <3>3, <3>4, <3>5 DEF BootStep, DemoLook, DemoCommit, NothingYet
  <2>3. ASSUME NEW t \in Threads
        PROVE  ~SessionStep(t) /\ ~AdminStep(t)
    BY <1>2, NoRequestYet
  <2>4. QED
    BY <2>1, <2>2, <2>3 DEF Next
<1>3. QED
  BY <1>1, <1>2 DEF BootInv

\* Whoever commits the seeds goes on to look for the demo account.
LEMMA DemoStep ==
    ASSUME TypeInv, BootInv, [Next]_vars, DemoEnabled, SeedsIn', Untouched', struck' = {}
    PROVE  (Named(DemoName) # {})' \/ DemoComes'
<1> SUFFICES ASSUME (Named(DemoName) = {})'
             PROVE  DemoComes'
  OBVIOUS
<1>0. struck = {} /\ \A p \in Procs : ~SeedingRaises(p)
  <2>1. CASE UNCHANGED vars
    BY <2>1 DEF vars, SeedingRaises
  <2>2. ASSUME NEW p \in Procs, BootStep(p)
        PROVE  struck \subseteq struck'
    BY <2>2 DEF BootStep, SeedLook, SeedCommit, DemoLook, DemoCommit, SeedingRaises, BootCrash,
                bootOnly
  <2>3. ASSUME NEW t \in Threads, SessionStep(t) \/ AdminStep(t)
        PROVE  struck' = struck
    BY <2>3 DEF SessionStep, Login, Resend, SendCode, UseCode, FindAccount, IssueSession,
       LogoutLook, LogoutCommit, sessionOnly, AdminStep, Admit, ReadTarget, ReadName, Refuse,
       CommitUpdate, CommitDelete, CommitCreate, Audit, SubmitJob, reads, unwritten
  <2>4. QED
    BY <2>1, <2>2, <2>3 DEF Next, SeedingRaises
<1>1. Untouched /\ Named(DemoName) = {}
  BY NamesStay DEF Untouched, Named
<1>2. ASSUME UNCHANGED <<users, deleted>>
      PROVE  DemoComes
  BY <1>0, <1>1, <1>2 DEF SeedsIn, Named, BootInv
<1>3. boot \in [Procs -> {"look", "seed", "demo", "addDemo", "serve"}]
  BY DEF TypeInv, RestInv
<1>4. CASE UNCHANGED vars
  BY <1>2, <1>4 DEF vars, accountVars, ghostVars, DemoComes
<1>5. ASSUME NEW p \in Procs, BootStep(p)
      PROVE  DemoComes'
  <2> USE DEF Boots, bootOnly, ghostVars, accountVars
  <2>1. CASE SeedLook(p)
    <3>1. users # {}
      BY <1>1, <2>1, AccountsAssumption DEF SeedLook, SeedsIn, Untouched, Named
    <3>2. boot'[p] = "demo"
      BY <1>3, <2>1, <3>1 DEF SeedLook, AfterSeeding
    <3>3. QED
      BY <3>2 DEF DemoComes
  <2>2. CASE SeedCommit(p) /\ ~SeedsClash
    <3>1. boot'[p] = "demo"
      BY <1>3, <2>2 DEF SeedCommit, AfterSeeding
    <3>2. QED
      BY <3>1 DEF DemoComes
  <2>3. CASE SeedCommit(p) /\ SeedsClash
    <3>1. boot[p] = "seed" /\ boot' = [boot EXCEPT ![p] = "serve"]
      BY <2>3 DEF SeedCommit
    <3>2. DemoComes
      BY <1>2, <2>3 DEF SeedCommit
    <3>3. QED
      BY <1>3, <3>1, <3>2 DEF DemoComes
  <2>4. CASE DemoLook(p)
    BY <1>1, <1>3, <2>4 DEF DemoLook, DemoComes
  <2>5. CASE DemoCommit(p)
    <3>1. Insert([n \in {DemoName} |-> DemoRole])
      BY <1>1, <2>5 DEF DemoCommit
    <3>2. \E u \in users' : u.name = DemoName
      <4> DEFINE roles == [n \in {DemoName} |-> DemoRole]
      <4>1. DemoName \in DOMAIN roles
        OBVIOUS
      <4>2. Insert(roles)
        BY <3>1
      <4> HIDE DEF roles
      <4>3. QED
        BY <4>1, <4>2, InsertedAreIn
    <3>3. QED
      BY <3>2 DEF Named
  <2>6. CASE BootCrash(p)
    BY <1>3, <2>6 DEF BootCrash, DemoComes
  <2>7. QED
    BY <1>0, <1>5, <2>1, <2>2, <2>3, <2>4, <2>5, <2>6 DEF BootStep
<1>6. ASSUME NEW t \in Threads, SessionStep(t) \/ AdminStep(t)
      PROVE  DemoComes'
  <2>1. boot' = boot
    BY <1>6 DEF SessionStep, Login, Resend, SendCode, UseCode, FindAccount, IssueSession,
       LogoutLook, LogoutCommit, sessionOnly, AdminStep, Admit, ReadTarget, ReadName, Refuse,
       CommitUpdate, CommitDelete, CommitCreate, Audit, SubmitJob, reads, unwritten
  <2>2. ~NothingYet
    BY <1>6, NoRequestYet
  <2>3. DemoComes
    BY <1>0, <1>1, <2>2 DEF BootInv
  <2>4. QED
    BY <2>1, <2>3 DEF DemoComes
<1>7. QED
  BY <1>4, <1>5, <1>6 DEF Next

\* main.py:61 and _seed_database: whatever processes start together and however
\* often they die or meet an exception while they start, one that serves after a
\* start without an exception has the seeds; when all serve after such starts the
\* demo account is there too, unless an account was deleted.
THEOREM StartUp == Spec => []StartUpComplete
<1>1. Init => BootInv
  BY AccountsAssumption DEF Init, BootInv, NothingYet, DemoComes, Idle
<1>2. TypeInv /\ BootInv /\ [Next]_vars => BootInv'
  <2> SUFFICES ASSUME TypeInv, BootInv, [Next]_vars
               PROVE  BootInv'
    OBVIOUS
  <2>1. NothingYet' \/ SeedsIn'
    BY SeedsStep
  <2>2. DemoEnabled /\ SeedsIn' /\ Untouched' /\ struck' = {} => (Named(DemoName) # {})' \/ DemoComes'
    BY DemoStep
  <2>3. QED
    BY <2>1, <2>2 DEF BootInv
<1>3. BootInv => StartUpComplete
  BY AccountsAssumption DEF BootInv, StartUpComplete, NothingYet, DemoComes, Untouched
<1>4. QED
  BY <1>1, <1>2, <1>3, Types, PTL DEF Spec

-----------------------------------------------------------------------------
(* Codes and sessions *)

\* Whose account was not touched since the code was sent (or, for the demo account,
\* since it was looked up) can still be signed in: by the code, by the request that
\* sends or verifies it, by the row the session is for.
HeldOK(r) ==
    /\ r.at \in {"send", "account"} /\ ~r.disturbed => Account(r.name) # {}
    /\ r.at = "session" /\ ~r.disturbed => \E u \in ById(r.by) : u.name = r.name

CodesOK == \A c \in codes : ~c.disturbed => Account(c.name) # {}

CodeInv ==
    /\ CodesOK
    /\ \A t \in Threads : HeldOK(req[t])

LEMMA IdleIsHeld == HeldOK(Idle) /\ HeldOK(Idle)'
BY DEF HeldOK, Idle

\* More rows never take an account away.
LEMMA GrowthHolds ==
    ASSUME users \subseteq users'
    PROVE  /\ \A n : Account(n) # {} => (Account(n) # {})'
           /\ \A r : HeldOK(r) => HeldOK(r)'
<1>1. /\ \A n : Account(n) \subseteq Account(n)'
      /\ \A i : ById(i) \subseteq ById(i)'
  BY DEF Account, Named, ById
<1>2. QED
  BY <1>1 DEF HeldOK

\* A step that keeps the rows, stores no code and puts a good request in place.
LEMMA HeldKeeps ==
    ASSUME TypeInv, CodeInv, users \subseteq users', codes' \subseteq codes,
           NEW t \in Threads, NEW r, Goes(t, r), HeldOK(r)'
    PROVE  CodeInv'
<1>1. CodesOK'
  BY GrowthHolds DEF CodeInv, CodesOK
<1>2. \A s \in Threads : HeldOK(req[s])'
  <2> SUFFICES ASSUME NEW s \in Threads
               PROVE  HeldOK(req[s])'
    OBVIOUS
  <2>1. CASE s = t
    <3>1. req'[s] = r
      BY <2>1 DEF Goes, TypeInv, RestInv
    <3>2. QED
      BY <3>1 DEF HeldOK
  <2>2. CASE s # t
    <3>1. req'[s] = req[s]
      BY <2>2 DEF Goes, TypeInv, RestInv
    <3>2. HeldOK(req[s])
      BY DEF CodeInv
    <3>3. QED
      BY <3>1, <3>2, GrowthHolds DEF HeldOK
  <2>3. QED
    BY <2>1, <2>2
<1>3. QED
  BY <1>1, <1>2 DEF CodeInv

\* Sign-ins.
LEMMA SessionKeepsCodes ==
    ASSUME TypeInv, CodeInv, NEW t \in Threads, SessionStep(t)
    PROVE  CodeInv'
<1> USE DEF Goes, Ends
<1>1. users' = users
  BY DEF SessionStep, Login, Resend, SendCode, UseCode, FindAccount, IssueSession,
         LogoutLook, LogoutCommit, sessionOnly, accountVars
<1>2. /\ req \in [Threads -> GoodReq] /\ req[t] \in GoodReq
      /\ HeldOK(req[t])
  BY DEF TypeInv, RestInv, CodeInv
<1>3. ASSUME NEW n \in Names, Account(n) # {}, SendsCode(t, n),
             UNCHANGED codes
      PROVE  CodeInv'
  <2> DEFINE r == [Idle EXCEPT !.at = "send", !.op = "login", !.name = n]
  <2>1. r.at = "send" /\ r.name = n
    BY DEF Idle
  <2>2. Goes(t, r)
    BY <1>3 DEF SendsCode
  <2> HIDE DEF r
  <2>3. HeldOK(r)
    BY <1>3, <2>1 DEF HeldOK
  <2>4. HeldOK(r)'
    BY <1>1, <2>3, GrowthHolds
  <2>5. QED
    BY <1>1, <1>3, <2>2, <2>4, HeldKeeps
<1>4. ASSUME NEW n \in Names, Login(t, n)
      PROVE  CodeInv'
  <2>1. CASE SendsCode(t, n)
    BY <1>3, <1>4, <2>1 DEF Login
  <2>2. CASE \E u \in Account(n) :
               Goes(t, [Idle EXCEPT !.at = "session", !.op = "login", !.by = u.id,
                                     !.byAcct = u.acct, !.name = n])
    <3>1. PICK u \in Account(n) :
               Goes(t, [Idle EXCEPT !.at = "session", !.op = "login", !.by = u.id,
                                     !.byAcct = u.acct, !.name = n])
      BY <2>2
    <3> DEFINE r == [Idle EXCEPT !.at = "session", !.op = "login", !.by = u.id,
                                 !.byAcct = u.acct, !.name = n]
    <3>2. r.at = "session" /\ r.by = u.id /\ r.name = n
      BY DEF Idle
    <3>3. Goes(t, r)
      BY <3>1
    <3>4. u \in ById(u.id) /\ u.name = n
      BY DEF Account, Named, ById
    <3> HIDE DEF r
    <3>5. HeldOK(r)
      BY <3>2, <3>4 DEF HeldOK
    <3>6. HeldOK(r)'
      BY <1>1, <3>5, GrowthHolds
    <3>7. QED
      BY <1>1, <1>4, <3>3, <3>6, HeldKeeps DEF Login
  <2>3. QED
    BY <1>4, <2>1, <2>2 DEF Login
<1>5. ASSUME NEW n \in Names, Resend(t, n)
      PROVE  CodeInv'
  BY <1>3, <1>5 DEF Resend
<1>6. CASE SendCode(t)
  <2>1. ~req[t].disturbed => Account(req[t].name) # {}
    BY <1>2, <1>6 DEF SendCode, HeldOK
  <2>2. CodesOK'
    BY <1>1, <1>6, <2>1, GrowthHolds DEF SendCode, CodesOK, CodeInv
  <2>3. \A s \in Threads : req'[s] = req[s] \/ req'[s] = Idle
    BY <1>2, <1>6 DEF SendCode
  <2>4. \A s \in Threads : HeldOK(req[s])'
    BY <1>1, <2>3, GrowthHolds DEF CodeInv, HeldOK, Idle
  <2>5. QED
    BY <1>6, <2>2, <2>4 DEF SendCode, CodeInv
<1>7. ASSUME NEW c \in codes, UseCode(t, c)
      PROVE  CodeInv'
  <2> DEFINE r == [Idle EXCEPT !.at = "account", !.op = "verify", !.name = c.name,
                               !.disturbed = c.disturbed]
  <2>1. r.at = "account" /\ r.name = c.name /\ r.disturbed = c.disturbed
    BY DEF Idle
  <2>2. Goes(t, r) /\ codes' \subseteq codes
    BY <1>7 DEF UseCode
  <2> HIDE DEF r
  <2>3. HeldOK(r)
    BY <2>1 DEF HeldOK, CodeInv, CodesOK
  <2>4. HeldOK(r)'
    BY <1>1, <2>3, GrowthHolds
  <2>5. QED
    BY <1>1, <2>2, <2>4, HeldKeeps
<1>8. CASE FindAccount(t)
  <2>1. CASE Ends(t)
    BY <1>1, <1>8, <2>1, IdleIsHeld, HeldKeeps DEF FindAccount
  <2>2. CASE \E u \in CodeHolder(t) :
               Goes(t, [req[t] EXCEPT !.at = "session", !.by = u.id, !.byAcct = u.acct])
    <3>1. PICK u \in CodeHolder(t) :
               Goes(t, [req[t] EXCEPT !.at = "session", !.by = u.id, !.byAcct = u.acct])
      BY <2>2
    <3>0. PICK r : r = [req[t] EXCEPT !.at = "session", !.by = u.id, !.byAcct = u.acct]
      OBVIOUS
    <3>2. r.at = "session" /\ r.by = u.id /\ r.name = req[t].name
      BY <1>2, <3>0 DEF GoodReq, ReqType
    <3>3. Goes(t, r)
      BY <3>0, <3>1
    <3>4. u \in ById(u.id) /\ u.name = req[t].name
      BY DEF CodeHolder, Account, Named, ById
    <3>5. HeldOK(r)
      BY <3>2, <3>4 DEF HeldOK
    <3>6. HeldOK(r)'
      BY <1>1, <3>5, GrowthHolds
    <3>7. QED
      BY <1>1, <1>8, <3>1, <3>3, <3>6, HeldKeeps DEF FindAccount
  <2>3. QED
    BY <1>8, <2>1, <2>2 DEF FindAccount
<1>9. CASE IssueSession(t)
  <2>1. Goes(t, Idle) /\ codes' = codes
    BY <1>9 DEF IssueSession
  <2>2. QED
    BY <1>1, <2>1, IdleIsHeld, HeldKeeps
<1>10. CASE LogoutCommit(t)
  <2>1. Goes(t, Idle) /\ codes' = codes
    BY <1>10 DEF LogoutCommit, ghostVars
  <2>2. QED
    BY <1>1, <2>1, IdleIsHeld, HeldKeeps
<1>11. ASSUME NEW tok \in tokens, LogoutLook(t, tok)
       PROVE  CodeInv'
  <2> DEFINE r == [Idle EXCEPT !.at = "revoke", !.op = "logout", !.jti = tok.jti]
  <2>1. r.at = "revoke"
    BY DEF Idle
  <2>2. Goes(t, r) /\ codes' = codes
    BY <1>11 DEF LogoutLook
  <2> HIDE DEF r
  <2>3. HeldOK(r)'
    BY <2>1 DEF HeldOK
  <2>4. QED
    BY <1>1, <2>2, <2>3, HeldKeeps
<1>12. QED
  BY <1>4, <1>5, <1>6, <1>7, <1>8, <1>9, <1>10, <1>11 DEF SessionStep

\* A committed change that touches the accounts called names marks every code
\* and every sign-in of theirs.
LEMMA CommitsKeepCodes ==
    ASSUME TypeInv, CodeInv, NEW t \in Threads, NEW names, Commits(t, names),
           \A n : n \notin names => (Account(n) # {} => (Account(n) # {})'),
           \A u \in users : u.name \notin names => \E w \in users' : w.id = u.id /\ w.name = u.name
    PROVE  CodeInv'
<1>1. CodesOK'
  <2> SUFFICES ASSUME NEW d \in codes', ~d.disturbed
               PROVE  (Account(d.name) # {})'
    BY DEF CodesOK
  <2>1. PICK c \in codes : d = [c EXCEPT !.disturbed = @ \/ c.name \in names]
    BY DEF Commits
  <2>2. c \in [name : Names, disturbed : BOOLEAN]
    BY DEF TypeInv, RestInv
  <2>3. d.name = c.name /\ ~c.disturbed /\ c.name \notin names
    BY <2>1, <2>2
  <2>4. QED
    BY <2>3 DEF CodeInv, CodesOK
<1>2. \A s \in Threads : HeldOK(req[s])'
  <2> SUFFICES ASSUME NEW s \in Threads
               PROVE  HeldOK(req[s])'
    OBVIOUS
  <2>1. CASE s = t
    <3>1. req'[s].at = "audit"
      BY <2>1 DEF Commits, ToAudit, Idle
    <3>2. QED
      BY <3>1 DEF HeldOK
  <2>2. CASE s # t
    <3> DEFINE r == req[s]
    <3>1. r \in ReqType /\ r \in GoodReq /\ HeldOK(r)
      BY DEF TypeInv, RestInv, GoodReq, CodeInv
    <3>2. req'[s] = [r EXCEPT !.disturbed = @ \/ (r.op \in {"login", "verify"} /\ r.name \in names)]
      BY <2>2 DEF Commits
    <3> HIDE DEF r
    <3>3. /\ req'[s].at = r.at /\ req'[s].op = r.op /\ req'[s].name = r.name /\ req'[s].by = r.by
          /\ ~req'[s].disturbed =>
                ~r.disturbed /\ (r.op \in {"login", "verify"} => r.name \notin names)
      BY <3>1, <3>2 DEF ReqType
    <3>4. r.at \in {"send", "account", "session"} => r.op \in {"login", "verify"}
      BY <3>1 DEF GoodReq
    <3>5. ASSUME req'[s].at \in {"send", "account"}, ~req'[s].disturbed
          PROVE  (Account(req[s].name) # {})'
      BY <3>1, <3>3, <3>4, <3>5 DEF HeldOK
    <3>6. ASSUME req'[s].at = "session", ~req'[s].disturbed
          PROVE  (\E u \in ById(req[s].by) : u.name = req[s].name)'
      <4>1. PICK u \in ById(r.by) : u.name = r.name
        BY <3>1, <3>3, <3>6 DEF HeldOK
      <4>2. PICK w \in users' : w.id = u.id /\ w.name = u.name
        BY <3>3, <3>4, <3>6, <4>1 DEF ById
      <4>3. QED
        BY <3>3, <4>1, <4>2 DEF ById
    <3>7. QED
      BY <3>5, <3>6 DEF HeldOK
  <2>3. QED
    BY <2>1, <2>2
<1>3. QED
  BY <1>1, <1>2 DEF CodeInv

\* Changes of administrators.
LEMMA AdminKeepsCodes ==
    ASSUME TypeInv, CodeInv, NEW t \in Threads, AdminStep(t)
    PROVE  CodeInv'
<1>1. /\ req \in [Threads -> GoodReq] /\ req[t] \in GoodReq /\ req[t] \in ReqType
  BY DEF TypeInv, RestInv, GoodReq
<1>2. ASSUME users \subseteq users', UNCHANGED codes,
             NEW r, Goes(t, r), r.at \notin {"send", "account", "session"}
      PROVE  CodeInv'
  <2>1. HeldOK(r)'
    BY <1>2 DEF HeldOK
  <2>2. QED
    BY <1>2, <2>1, HeldKeeps
<1>3. Idle.at = "idle"
  BY DEF Idle
<1>4. ASSUME NEW tok \in tokens, NEW op \in {"admin", "submit"}, Admit(t, tok, op)
      PROVE  CodeInv'
  <2>1. PICK u \in Account(tok.name) :
          Goes(t, [Idle EXCEPT !.at = "read", !.op = op, !.by = u.id, !.byAcct = u.acct])
    BY <1>4 DEF Admit
  <2>2. [Idle EXCEPT !.at = "read", !.op = op, !.by = u.id, !.byAcct = u.acct].at = "read"
    BY DEF Idle
  <2>3. users' = users /\ UNCHANGED codes
    BY <1>4 DEF Admit, reads, accountVars, ghostVars
  <2>4. QED
    BY <1>2, <2>1, <2>2, <2>3
<1>5. ASSUME NEW i \in Accts, NEW role \in Roles, NEW op \in {"role", "toggle", "delete"},
             ReadTarget(t, op, i, role)
      PROVE  CodeInv'
  <2>1. PICK u \in ById(i) :
          Goes(t, [req[t] EXCEPT !.at = "commit", !.op = op, !.target = i, !.targetAcct = u.acct,
                        !.role = IF op = "role" THEN role ELSE "none",
                        !.active = op = "toggle" /\ ~u.active,
                        !.writes = op = "role" => role # u.role])
    BY <1>5 DEF ReadTarget
  <2> DEFINE r == [req[t] EXCEPT !.at = "commit", !.op = op, !.target = i, !.targetAcct = u.acct,
                        !.role = IF op = "role" THEN role ELSE "none",
                        !.active = op = "toggle" /\ ~u.active,
                        !.writes = op = "role" => role # u.role]
  <2>2. r.at = "commit"
    BY <1>1 DEF ReqType
  <2>3. Goes(t, r)
    BY <2>1
  <2> HIDE DEF r
  <2>4. users' = users /\ UNCHANGED codes
    BY <1>5 DEF ReadTarget, reads, accountVars, ghostVars
  <2>5. QED
    BY <1>2, <2>2, <2>3, <2>4
<1>6. ASSUME NEW n \in Names, NEW role \in Roles, ReadName(t, n, role)
      PROVE  CodeInv'
  <2> DEFINE r == [req[t] EXCEPT !.at = "commit", !.op = "create", !.name = n, !.role = role]
  <2>1. r.at = "commit"
    BY <1>1 DEF ReqType
  <2>2. Goes(t, r)
    BY <1>6 DEF ReadName
  <2> HIDE DEF r
  <2>3. users' = users /\ UNCHANGED codes
    BY <1>6 DEF ReadName, reads, accountVars, ghostVars
  <2>4. QED
    BY <1>2, <2>1, <2>2, <2>3
<1>7. CASE Refuse(t) \/ Audit(t) \/ SubmitJob(t)
  <2>1. users' = users /\ UNCHANGED codes /\ Goes(t, Idle)
    BY <1>7 DEF Refuse, Audit, SubmitJob, Ends, reads, accountVars, ghostVars
  <2>2. QED
    BY <1>2, <1>3, <2>1
<1>8. CASE CommitUpdate(t)
  <2>1. \A u \in users : \E w \in users' : w.id = u.id /\ w.name = u.name
    BY <1>8, UpdateKeepsNames
  <2>2. CASE \E u \in ById(req[t].target) :
                   /\ users' = (users \ {u}) \cup {Written(t, u)}
                   /\ Commits(t, IF Written(t, u).active THEN {} ELSE {u.name})
    <3>1. PICK u \in ById(req[t].target) :
                   /\ users' = (users \ {u}) \cup {Written(t, u)}
                   /\ Commits(t, IF Written(t, u).active THEN {} ELSE {u.name})
      BY <2>2
    <3>2. Written(t, u).name = u.name
      BY DEF ById, TypeInv, RowsInv, Written, UserType
    <3>3. CASE Written(t, u).active
      <4>1. \A n : Account(n) # {} => (Account(n) # {})'
        BY <3>1, <3>2, <3>3 DEF Account, Named
      <4>2. Commits(t, {})
        BY <3>1, <3>3
      <4>3. QED
        BY <2>1, <4>1, <4>2, CommitsKeepCodes
    <3>4. CASE ~Written(t, u).active
      <4>1. \A n : n \notin {u.name} => (Account(n) # {} => (Account(n) # {})')
        BY <3>1 DEF Account, Named
      <4>2. Commits(t, {u.name})
        BY <3>1, <3>4
      <4>3. QED
        BY <2>1, <4>1, <4>2, CommitsKeepCodes
    <3>5. QED
      BY <3>3, <3>4
  <2>3. CASE Commits(t, {}) /\ UNCHANGED users
    <3>1. \A n : Account(n) # {} => (Account(n) # {})'
      BY <2>3 DEF Account, Named
    <3>2. QED
      BY <2>1, <2>3, <3>1, CommitsKeepCodes
  <2>4. CASE Ends(t) /\ UNCHANGED <<users, codes, changes>>
    BY <1>2, <1>3, <2>4 DEF Ends
  <2>5. QED
    BY <1>8, <2>2, <2>3, <2>4 DEF CommitUpdate
<1>9. CASE CommitDelete(t)
  <2> DEFINE gone == ById(req[t].target)
             names == {u.name : u \in gone}
  <2>1. users' = users \ gone /\ Commits(t, names)
    BY <1>9 DEF CommitDelete
  <2>2. \A u \in users : u.name \notin names => u \in users'
    BY <2>1
  <2>3. \A n : n \notin names => (Account(n) # {} => (Account(n) # {})')
    BY <2>2 DEF Account, Named
  <2> HIDE DEF names
  <2>4. QED
    BY <2>1, <2>2, <2>3, CommitsKeepCodes
<1>10. CASE CommitCreate(t)
  <2>1. users \subseteq users' /\ UNCHANGED codes
    BY <1>10 DEF CommitCreate, Insert, accountVars, unwritten
  <2>2. CASE Goes(t, ToAudit(t, lastId'))
    <3>1. ToAudit(t, lastId').at = "audit"
      BY DEF ToAudit, Idle
    <3>2. QED
      BY <1>2, <2>1, <2>2, <3>1
  <2>3. CASE Ends(t)
    BY <1>2, <1>3, <2>1, <2>3 DEF Ends
  <2>4. QED
    BY <1>10, <2>2, <2>3 DEF CommitCreate
<1>11. QED
  BY <1>4, <1>5, <1>6, <1>7, <1>8, <1>9, <1>10 DEF AdminStep

\* Tokens are numbered in the order they are issued, so a new one is new.
TokenInv == \A tok \in tokens : tok.jti <= Cardinality(tokens)

LEMMA NewTokens ==
    ASSUME TypeInv, TokenInv, NEW n, Issue(n)
    PROVE  /\ \E tok \in tokens' \ tokens : tok.name = n
           /\ TokenInv'
<1>1. PICK tok : tok = [jti |-> Cardinality(tokens) + 1, name |-> n]
  OBVIOUS
<1>2. tok.jti = Cardinality(tokens) + 1 /\ tok.name = n
  BY <1>1
<1>3. tokens' = tokens \cup {tok}
  BY <1>1 DEF Issue
<1>4. /\ IsFiniteSet(tokens) /\ Cardinality(tokens) \in Nat
      /\ \A k \in tokens : k.jti \in Nat
  BY FS_CardinalityType DEF TypeInv, RestInv
<1>5. tok \notin tokens
  BY <1>2, <1>4 DEF TokenInv
<1>6. Cardinality(tokens') = Cardinality(tokens) + 1
  BY <1>3, <1>4, <1>5, FS_AddElement
<1>7. TokenInv'
  <2> SUFFICES ASSUME NEW k \in tokens'
               PROVE  k.jti <= Cardinality(tokens')
    BY DEF TokenInv
  <2>1. CASE k = tok
    BY <1>2, <1>4, <1>6, <2>1
  <2>2. CASE k \in tokens
    BY <1>4, <1>6, <2>2 DEF TokenInv
  <2>3. QED
    BY <1>3, <2>1, <2>2
<1>8. QED
  BY <1>2, <1>3, <1>5, <1>7

LEMMA TokensStay ==
    ASSUME Next, \A t \in Threads : ~IssueSession(t)
    PROVE  tokens' = tokens
<1>1. ASSUME NEW p \in Procs, BootStep(p)
      PROVE  tokens' = tokens
  BY <1>1 DEF BootStep, SeedLook, SeedCommit, DemoLook, DemoCommit, SeedingRaises, BootCrash,
              bootOnly, unseeded
<1>2. ASSUME NEW t \in Threads, SessionStep(t)
      PROVE  tokens' = tokens
  BY <1>2 DEF SessionStep, Login, Resend, SendCode, UseCode, FindAccount, LogoutLook, LogoutCommit
<1>3. ASSUME NEW t \in Threads, AdminStep(t)
      PROVE  tokens' = tokens
  BY <1>3 DEF AdminStep, Admit, ReadTarget, ReadName, Refuse, CommitUpdate, CommitDelete,
              CommitCreate, Audit, SubmitJob, reads, unwritten
<1>4. QED
  BY <1>1, <1>2, <1>3 DEF Next

\* A request leaves the last steps of a sign-in by them alone.
LEMMA OnlyItsOwnSteps ==
    ASSUME TypeInv, Next, NEW t \in Threads,
           req[t].at \in {"account", "session"}, req'[t].at = "idle"
    PROVE  FindAccount(t) \/ IssueSession(t)
<1>1. ASSUME NEW p \in Procs, BootStep(p)
      PROVE  req' = req
  BY <1>1 DEF BootStep, SeedLook, SeedCommit, DemoLook, DemoCommit, SeedingRaises, BootCrash,
              bootOnly, unseeded
<1>2. PICK s \in Threads : SessionStep(s) \/ AdminStep(s)
  BY <1>1 DEF Next
<1>3. req \in [Threads -> ReqType]
  BY DEF TypeInv, RestInv, GoodReq
<1>4. s = t
  <2>1. CASE \E r : Goes(s, r)
    BY <1>3, <2>1 DEF Goes
  <2>2. CASE \E names : Commits(s, names)
    <3>1. PICK names : Commits(s, names)
      BY <2>2
    <3>2. CASE s # t
      <4>1. PICK d : d = (req[t].disturbed \/ (req[t].op \in {"login", "verify"} /\ req[t].name \in names))
        OBVIOUS
      <4>2. req'[t] = [req[t] EXCEPT !.disturbed = d]
        BY <3>1, <3>2, <4>1 DEF Commits
      <4>3. req'[t].at = req[t].at
        BY <1>3, <4>2 DEF ReqType
      <4>4. QED
        BY <4>3
    <3>3. QED
      BY <3>2
  <2>3. CASE SessionStep(s)
    <3>1. \E r : Goes(s, r)
      BY <2>3 DEF SessionStep, Login, Resend, SendCode, UseCode, FindAccount, IssueSession,
                  LogoutLook, LogoutCommit, SendsCode, Ends
    <3>2. QED
      BY <2>1, <3>1
  <2>4. CASE AdminStep(s)
    <3>1. (\E r : Goes(s, r)) \/ (\E names : Commits(s, names))
      BY <2>4 DEF AdminStep, Admit, ReadTarget, ReadName, Refuse, CommitUpdate, CommitDelete,
                  CommitCreate, Audit, SubmitJob, Ends
    <3>2. QED
      BY <2>1, <2>2, <3>1
  <2>5. QED
    BY <1>2, <2>3, <2>4
<1>5. ~AdminStep(t)
  BY DEF AdminStep, Starts, Admit, ReadTarget, ReadName, Refuse, CommitUpdate, CommitDelete,
         CommitCreate, Audit, SubmitJob
<1>6. QED
  BY <1>2, <1>4, <1>5 DEF SessionStep, Starts, Login, Resend, SendCode, UseCode, LogoutLook,
                          LogoutCommit

\* auth.py:204-224: though the code is used up before the account is read and
\* the account is read again by id for the token, a login whose account was not
\* deactivated or deleted since the code was sent ends with a session of that
\* account, or its own commit failed.
THEOREM CodesLogIn == Spec => SessionFollowsCode
<1>1. Init => CodeInv
  BY IdleIsHeld DEF Init, CodeInv, CodesOK
<1>2. TypeInv /\ CodeInv /\ [Next]_vars => CodeInv'
  <2> SUFFICES ASSUME TypeInv, CodeInv, [Next]_vars
               PROVE  CodeInv'
    OBVIOUS
  <2>1. ASSUME NEW p \in Procs, BootStep(p)
        PROVE  CodeInv'
    <3>1. UNCHANGED <<codes, req>>
      BY <2>1 DEF BootStep, SeedLook, SeedCommit, DemoLook, DemoCommit, SeedingRaises,
                  BootCrash, bootOnly, unseeded, ghostVars
    <3>2. users \subseteq users'
      BY <2>1 DEF BootStep, SeedLook, SeedCommit, DemoLook, DemoCommit, SeedingRaises,
                  BootCrash, unseeded, Insert, accountVars
    <3>3. QED
      BY <3>1, <3>2, GrowthHolds DEF CodeInv, CodesOK, HeldOK
  <2>2. ASSUME NEW t \in Threads, SessionStep(t)
        PROVE  CodeInv'
    BY <2>2, SessionKeepsCodes
  <2>3. ASSUME NEW t \in Threads, AdminStep(t)
        PROVE  CodeInv'
    BY <2>3, AdminKeepsCodes
  <2>4. CASE UNCHANGED vars
    BY <2>4 DEF vars, ghostVars, accountVars, CodeInv, CodesOK, HeldOK, Account, Named, ById
  <2>5. QED
    BY <2>1, <2>2, <2>3, <2>4 DEF Next
<1>3. Init => TokenInv
  BY DEF Init, TokenInv
<1>4. TypeInv /\ TokenInv /\ [Next]_vars => TokenInv'
  <2> SUFFICES ASSUME TypeInv, TokenInv, [Next]_vars
               PROVE  TokenInv'
    OBVIOUS
  <2>1. ASSUME NEW n, Issue(n)
        PROVE  TokenInv'
    BY <2>1, NewTokens
  <2>2. CASE tokens' = tokens
    BY <2>2 DEF TokenInv
  <2>3. QED
    BY <2>1, <2>2, TokensStay DEF IssueSession, vars
<1> DEFINE Follows(t) ==
             req[t].at \in {"account", "session"} /\ req'[t].at = "idle" =>
                \/ req[t].disturbed
                \/ faults' > faults
                \/ \E tok \in tokens' \ tokens : tok.name = req[t].name
<1>5. TypeInv /\ CodeInv /\ TokenInv /\ Next => \A t \in Threads : Follows(t)
  <2> SUFFICES ASSUME TypeInv, CodeInv, TokenInv, Next, NEW t \in Threads,
                      req[t].at \in {"account", "session"}, req'[t].at = "idle",
                      ~req[t].disturbed
               PROVE  \/ faults' > faults
                      \/ \E tok \in tokens' \ tokens : tok.name = req[t].name
    OBVIOUS
  <2>1. HeldOK(req[t]) /\ req \in [Threads -> ReqType] /\ UniqueKeys
    BY DEF CodeInv, TypeInv, RestInv, RowsInv, GoodReq
  <2>2. FindAccount(t) \/ IssueSession(t)
    BY OnlyItsOwnSteps
  <2>3. CASE FindAccount(t)
    <3>1. PICK u : Goes(t, [req[t] EXCEPT !.at = "session", !.by = u.id, !.byAcct = u.acct])
      BY <2>1, <2>3 DEF FindAccount, HeldOK, CodeHolder
    <3>2. req'[t].at = "session"
      BY <2>1, <3>1 DEF Goes, ReqType
    <3>3. QED
      BY <3>2
  <2>4. CASE IssueSession(t)
    <3>1. PICK w \in ById(req[t].by) : w.name = req[t].name
      BY <2>1, <2>4 DEF IssueSession, HeldOK
    <3>2. \A u \in ById(req[t].by) : u = w
      BY <2>1 DEF ById, UniqueKeys
    <3>3. CASE Issue(w.name)
      BY <3>1, <3>3, NewTokens
    <3>4. CASE Fault
      BY <3>4 DEF Fault, TypeInv, RestInv
    <3>5. QED
      BY <2>4, <3>1, <3>2, <3>3, <3>4 DEF IssueSession
  <2>5. QED
    BY <2>2, <2>3, <2>4
<1>6. TypeInv /\ CodeInv /\ TokenInv /\ [Next]_vars => [\A t \in Threads : Follows(t)]_vars
  BY <1>5
<1>7. QED
  BY <1>1, <1>2, <1>3, <1>4, <1>6, Types, PTL DEF Spec, SessionFollowsCode

-----------------------------------------------------------------------------
(* What an id means *)

\* An id that is kept somewhere for the account acct: only that account's row has
\* it, or an heir's.  On PostgreSQL no new row can get it.
Means(i, acct) ==
    /\ acct \in Nat /\ acct <= born
    /\ \A u \in users : u.id = i => Heir(acct, u)
    /\ \A u \in users : u.acct = acct => u.id = i
    /\ ~reusesIds => i <= lastId

HoldsIds(r) ==
    /\ r.at \in {"read", "commit", "audit"} => Means(r.by, r.byAcct)
    /\ r.at = "commit" /\ r.op \in {"role", "toggle", "delete"} => Means(r.target, r.targetAcct)

IdInv ==
    /\ misnamed = FALSE
    /\ \A j \in jobs : Means(j.uid, j.acct)
    /\ \A t \in Threads : HoldsIds(req[t])

\* The id of a row means its account.
LEMMA RowMeans ==
    ASSUME TypeInv, NEW u \in users
    PROVE  Means(u.id, u.acct)
<1>1. u.acct \in Nat /\ u.acct <= born
  BY AccountsAssumption DEF TypeInv, RowsInv, UserType, Accts
<1>2. \A v \in users : v.id = u.id \/ v.acct = u.acct => v = u
  BY DEF TypeInv, RowsInv, UniqueKeys
<1>3. ~reusesIds => u.id <= lastId
  BY DEF TypeInv, RowsInv
<1>4. QED
  BY <1>1, <1>2, <1>3 DEF Means, Heir

\* A new row gets an id that nothing holds, or one whose account is gone.
LEMMA MeansPastInsert ==
    ASSUME TypeInv, NEW roles, IsFiniteSet(DOMAIN roles), Insert(roles),
           reusesIds' = reusesIds, NEW i \in Nat, NEW acct, Means(i, acct)
    PROVE  Means(i, acct)'
<1> DEFINE new == DOMAIN roles
           rank == CHOOSE f \in [new -> 0..Cardinality(new) - 1] :
                      \A l, m \in new : f[l] = f[m] => l = m
           row(m) == [id |-> FreeId + rank[m], name |-> m, role |-> roles[m],
                      active |-> TRUE, acct |-> born + 1 + rank[m]]
<1>1. /\ users' = users \cup {row(m) : m \in new}
      /\ lastId' = FreeId + Cardinality(new) - 1
      /\ born' = born + Cardinality(new)
  BY DEF Insert
<1>2. /\ Cardinality(new) \in Nat
      /\ \A m \in new : rank[m] \in Nat
  <2>1. Cardinality(new) \in Nat
    BY FS_CardinalityType
  <2>2. rank \in [new -> 0..Cardinality(new) - 1]
    BY Ranking
  <2> HIDE DEF rank
  <2>3. QED
    BY <2>1, <2>2
<1>3. /\ FreeId \in Nat /\ lastId \in Nat /\ born \in Nat /\ acct \in Nat /\ acct <= born
      /\ \A u \in users : u.id < FreeId /\ u.id \in Nat /\ u.acct \in Nat
      /\ ~reusesIds => FreeId = lastId + 1 /\ i < FreeId
  BY FreshId, AccountsAssumption DEF TypeInv, RowsInv, FreeId, Means, UserType, Accts
<1>4. \A m \in new : /\ row(m).id >= FreeId /\ row(m).acct > born /\ row(m).acct \in Nat
                     /\ row(m).acct # acct /\ acct < row(m).acct
  <2> SUFFICES ASSUME NEW m \in new
               PROVE  /\ row(m).id >= FreeId /\ row(m).acct > born /\ row(m).acct \in Nat
                      /\ row(m).acct # acct /\ acct < row(m).acct
    OBVIOUS
  <2>1. rank[m] \in Nat
    BY <1>2
  <2>2. row(m).id = FreeId + rank[m] /\ row(m).acct = born + 1 + rank[m]
    OBVIOUS
  <2> HIDE DEF row, rank
  <2>3. QED
    BY <1>3, <2>1, <2>2
<1> HIDE DEF row, rank
<1>5. \A u \in users' : u.acct = acct => u.id = i
  BY <1>1, <1>4 DEF Means
<1>6. ASSUME NEW u \in users', u.id = i
      PROVE  Heir(acct, u)'
  <2>1. CASE u \in users
    <3>1. Heir(acct, u)
      BY <1>6, <2>1 DEF Means
    <3>2. CASE u.acct = acct
      BY <3>2 DEF Heir
    <3>3. CASE reusesIds /\ acct < u.acct /\ \A v \in users : v.acct # acct
      BY <1>1, <1>4, <3>3 DEF Heir
    <3>4. QED
      BY <3>1, <3>2, <3>3 DEF Heir
  <2>2. CASE u \notin users
    <3>1. PICK m \in new : u = row(m)
      BY <1>1, <2>2
    <3>2. u.id >= FreeId /\ acct < u.acct
      BY <1>4, <3>1
    <3>3. reusesIds
      BY <1>3, <1>6, <3>2
    <3>4. \A v \in users : v.acct # acct
      <4> SUFFICES ASSUME NEW v \in users, v.acct = acct
                   PROVE  FALSE
        OBVIOUS
      <4>1. v.id = i /\ v.id < FreeId /\ v.id \in Nat
        BY <1>3 DEF Means
      <4>2. QED
        BY <1>3, <1>6, <3>2, <4>1
    <3>5. QED
      BY <1>1, <1>4, <3>2, <3>3, <3>4 DEF Heir
  <2>3. QED
    BY <2>1, <2>2
<1>7. ~reusesIds' => i <= lastId'
  BY <1>1, <1>2, <1>3
<1>8. acct <= born'
  BY <1>1, <1>2, <1>3
<1>9. QED
  BY <1>3, <1>5, <1>6, <1>7, <1>8 DEF Means

\* An id keeps its meaning in every step.
LEMMA MeaningStays ==
    ASSUME TypeInv, [Next]_vars, NEW i \in Nat, NEW acct, Means(i, acct)
    PROVE  Means(i, acct)'
<1>1. ASSUME UNCHANGED <<accountVars, reusesIds>>
      PROVE  Means(i, acct)'
  BY <1>1 DEF Means, Heir, accountVars
<1>2. CASE UNCHANGED vars
  BY <1>1, <1>2 DEF vars
<1>3. ASSUME NEW p \in Procs, BootStep(p)
      PROVE  Means(i, acct)'
  <2>1. reusesIds' = reusesIds
    BY <1>3 DEF BootStep, SeedLook, SeedCommit, DemoLook, DemoCommit, SeedingRaises, BootCrash,
                bootOnly, unseeded
  <2>2. ASSUME Insert(Seeds)
        PROVE  Means(i, acct)'
    BY <2>1, <2>2, AccountsAssumption, MeansPastInsert
  <2>3. ASSUME Insert([n \in {DemoName} |-> DemoRole])
        PROVE  Means(i, acct)'
    <3> DEFINE roles == [n \in {DemoName} |-> DemoRole]
    <3>1. Insert(roles)
      BY <2>3
    <3>2. DOMAIN roles = {DemoName} /\ IsFiniteSet({DemoName})
      BY FS_Singleton
    <3> HIDE DEF roles
    <3>3. QED
      BY <2>1, <3>1, <3>2, MeansPastInsert
  <2>4. QED
    BY <1>1, <1>3, <2>1, <2>2, <2>3 DEF BootStep, SeedLook, SeedCommit, DemoLook, DemoCommit,
       SeedingRaises, BootCrash, bootOnly, unseeded
<1>4. ASSUME NEW t \in Threads, SessionStep(t)
      PROVE  Means(i, acct)'
  BY <1>1, <1>4 DEF SessionStep, Login, Resend, SendCode, UseCode, FindAccount, IssueSession,
     LogoutLook, LogoutCommit, sessionOnly
<1>5. ASSUME NEW t \in Threads, AdminStep(t)
      PROVE  Means(i, acct)'
  <2>1. CASE CommitUpdate(t)
    <3>1. UNCHANGED <<lastId, born, reusesIds>>
      BY <2>1 DEF CommitUpdate, unwritten
    <3>2. \A w \in users' : \E u \in users : w.id = u.id /\ w.acct = u.acct
      <4>1. \A u \in users : Written(t, u).id = u.id /\ Written(t, u).acct = u.acct
        BY DEF TypeInv, RowsInv, Written, UserType
      <4>2. QED
        BY <2>1, <4>1 DEF CommitUpdate, ById
    <3>3. QED
      BY <3>1, <3>2 DEF Means, Heir
  <2>2. CASE CommitDelete(t)
    <3>1. users' \subseteq users /\ UNCHANGED <<lastId, born, reusesIds>>
      BY <2>2 DEF CommitDelete, unwritten
    <3>2. QED
      BY <3>1 DEF Means, Heir
  <2>3. CASE CommitCreate(t)
    <3>1. reusesIds' = reusesIds
      BY <2>3 DEF CommitCreate, unwritten
    <3>2. ASSUME Insert([n \in {req[t].name} |-> req[t].role])
          PROVE  Means(i, acct)'
      <4>1. PICK roles : roles = [n \in {req[t].name} |-> req[t].role]
        OBVIOUS
      <4>2. Insert(roles)
        BY <3>2, <4>1
      <4>3. IsFiniteSet(DOMAIN roles)
        BY <4>1, FS_Singleton
      <4>4. QED
        BY <3>1, <4>2, <4>3, MeansPastInsert
    <3>3. QED
      BY <1>1, <2>3, <3>1, <3>2 DEF CommitCreate
  <2>4. CASE ~CommitUpdate(t) /\ ~CommitDelete(t) /\ ~CommitCreate(t)
    BY <1>1, <1>5, <2>4 DEF AdminStep, Admit, ReadTarget, ReadName, Refuse, Audit, SubmitJob,
       reads
  <2>5. QED
    BY <2>1, <2>2, <2>3, <2>4
<1>6. QED
  BY <1>2, <1>3, <1>4, <1>5 DEF Next

\* What all steps share: ids that are held keep their meaning.
LEMMA IdsStay ==
    ASSUME TypeInv, IdInv, [Next]_vars
    PROVE  /\ misnamed = FALSE
           /\ \A j \in jobs : Means(j.uid, j.acct)'
           /\ \A s \in Threads : HoldsIds(req[s])
           /\ \A r \in ReqType : HoldsIds(r) => HoldsIds(r)'
<1>1. /\ misnamed = FALSE
      /\ \A j \in jobs : Means(j.uid, j.acct)
      /\ \A s \in Threads : HoldsIds(req[s])
  BY DEF IdInv
<1>2. \A j \in jobs : Means(j.uid, j.acct)'
  <2> SUFFICES ASSUME NEW j \in jobs
               PROVE  Means(j.uid, j.acct)'
    OBVIOUS
  <2>1. j.uid \in Nat
    BY AccountsAssumption DEF TypeInv, RestInv, Accts
  <2>2. QED
    BY <1>1, <2>1, MeaningStays
<1>3. ASSUME NEW r \in ReqType, HoldsIds(r)
      PROVE  HoldsIds(r)'
  <2>1. r.by \in Nat /\ r.target \in Nat
    BY AccountsAssumption DEF ReqType
  <2>2. Means(r.by, r.byAcct) => Means(r.by, r.byAcct)'
    BY <2>1, MeaningStays
  <2>3. Means(r.target, r.targetAcct) => Means(r.target, r.targetAcct)'
    BY <2>1, MeaningStays
  <2>4. QED
    BY <1>3, <2>2, <2>3 DEF HoldsIds
<1>4. QED
  BY <1>1, <1>2, <1>3

\* A step of one request that leaves the entries of the audit log alone.
LEMMA IdsKeep ==
    ASSUME TypeInv, IdInv, [Next]_vars, misnamed' = FALSE,
           \A j \in jobs' \ jobs : Means(j.uid, j.acct)',
           NEW t \in Threads, NEW r, HoldsIds(r)',
           \A s \in Threads : req'[s] = IF s = t THEN r ELSE req[s]
    PROVE  IdInv'
<1>1. \A j \in jobs' : Means(j.uid, j.acct)'
  BY IdsStay
<1>2. \A s \in Threads : HoldsIds(req[s])'
  <2> SUFFICES ASSUME NEW s \in Threads
               PROVE  HoldsIds(req[s])'
    OBVIOUS
  <2>1. CASE s = t
    BY <2>1 DEF HoldsIds
  <2>2. CASE s # t
    <3>1. PICK q : q = req[s]
      OBVIOUS
    <3>2. q \in ReqType /\ HoldsIds(q)
      BY <3>1, IdsStay DEF TypeInv, RestInv, GoodReq
    <3>3. HoldsIds(q)' /\ req'[s] = q
      BY <2>2, <3>1, <3>2, IdsStay
    <3>4. QED
      BY <3>3 DEF HoldsIds
  <2>3. QED
    BY <2>1, <2>2
<1>3. QED
  BY <1>1, <1>2 DEF IdInv

\* A committed change turns into an entry that is to be written.
LEMMA CommitKeepsIds ==
    ASSUME TypeInv, IdInv, [Next]_vars, UNCHANGED <<misnamed, jobs>>,
           NEW t \in Threads, NEW names, req[t].at = "commit", Commits(t, names)
    PROVE  IdInv'
<1>1. \A s \in Threads : req[s] \in ReqType /\ HoldsIds(req[s])
  BY IdsStay DEF TypeInv, RestInv, GoodReq
<1>2. \A s \in Threads : HoldsIds(req[s])'
  <2> SUFFICES ASSUME NEW s \in Threads
               PROVE  HoldsIds(req[s])'
    OBVIOUS
  <2>1. PICK q : q = req[s]
    OBVIOUS
  <2>2. q \in ReqType /\ HoldsIds(q) /\ HoldsIds(q)'
    BY <1>1, <2>1, IdsStay
  <2>3. CASE s = t
    <3>1. req'[s] = ToAudit(t, req[t].target)
      BY <2>3 DEF Commits
    <3>2. req'[s].at = "audit" /\ req'[s].by = q.by /\ req'[s].byAcct = q.byAcct
      BY <2>1, <2>3, <3>1 DEF ToAudit, Idle
    <3>3. Means(q.by, q.byAcct)'
      BY <2>1, <2>2, <2>3 DEF HoldsIds
    <3>4. QED
      BY <3>2, <3>3 DEF HoldsIds
  <2>4. CASE s # t
    <3>1. req'[s] = [q EXCEPT !.disturbed = @ \/ (q.op \in {"login", "verify"} /\ q.name \in names)]
      BY <2>1, <2>4 DEF Commits
    <3>2. /\ req'[s].at = q.at /\ req'[s].op = q.op
          /\ req'[s].by = q.by /\ req'[s].byAcct = q.byAcct
          /\ req'[s].target = q.target /\ req'[s].targetAcct = q.targetAcct
      BY <2>2, <3>1 DEF ReqType
    <3>3. QED
      BY <2>2, <3>2 DEF HoldsIds
  <2>5. QED
    BY <2>3, <2>4
<1>3. \A j \in jobs' : Means(j.uid, j.acct)'
  BY IdsStay
<1>4. misnamed' = FALSE
  BY IdsStay
<1>5. QED
  BY <1>2, <1>3, <1>4 DEF IdInv

\* Sign-ins and logouts hold no ids the property is about.
LEMMA SessionKeepsIds ==
    ASSUME TypeInv, IdInv, NEW t \in Threads, SessionStep(t)
    PROVE  IdInv'
<1>1. [Next]_vars /\ misnamed' = FALSE /\ jobs' = jobs
  <2>1. [Next]_vars
    BY DEF Next
  <2>2. misnamed' = misnamed /\ jobs' = jobs
    BY DEF SessionStep, Login, Resend, SendCode, UseCode, FindAccount, IssueSession,
           LogoutLook, LogoutCommit, sessionOnly, ghostVars
  <2>3. QED
    BY <2>1, <2>2, IdsStay
<1>2. req \in [Threads -> GoodReq] /\ req[t] \in ReqType
  BY DEF TypeInv, RestInv, GoodReq
<1>3. ASSUME NEW r, Goes(t, r), r.at \notin {"read", "commit", "audit"}
      PROVE  IdInv'
  <2>1. HoldsIds(r)'
    BY <1>3 DEF HoldsIds
  <2>2. \A s \in Threads : req'[s] = IF s = t THEN r ELSE req[s]
    BY <1>2, <1>3 DEF Goes
  <2>3. QED
    BY <1>1, <2>1, <2>2, IdsKeep
<1>4. \E r : Goes(t, r) /\ r.at \notin {"read", "commit", "audit"}
  <2>1. /\ Idle.at = "idle"
        /\ \A n : [Idle EXCEPT !.at = "send", !.op = "login", !.name = n].at = "send"
        /\ \A c : [Idle EXCEPT !.at = "account", !.op = "verify", !.name = c.name,
                               !.disturbed = c.disturbed].at = "account"
        /\ \A k : [Idle EXCEPT !.at = "revoke", !.op = "logout", !.jti = k.jti].at = "revoke"
    BY DEF Idle
  <2>2. \A u : [req[t] EXCEPT !.at = "session", !.by = u.id, !.byAcct = u.acct].at = "session"
    BY <1>2 DEF ReqType
  <2>3. CASE \E n \in Names : Login(t, n) \/ Resend(t, n)
    <3>1. PICK n \in Names : Login(t, n) \/ Resend(t, n)
      BY <2>3
    <3>2. CASE SendsCode(t, n)
      BY <2>1, <3>2 DEF SendsCode
    <3>3. CASE \E u \in Account(n) :
                 Goes(t, [Idle EXCEPT !.at = "session", !.op = "login", !.by = u.id,
                                       !.byAcct = u.acct, !.name = n])
      <4>1. PICK u, r : /\ r = [Idle EXCEPT !.at = "session", !.op = "login", !.by = u.id,
                                            !.byAcct = u.acct, !.name = n]
                        /\ Goes(t, r)
        BY <3>3
      <4>2. r.at = "session"
        BY <4>1 DEF Idle
      <4>3. QED
        BY <4>1, <4>2
    <3>4. QED
      BY <3>1, <3>2, <3>3 DEF Login, Resend
  <2>4. CASE \E c \in codes : UseCode(t, c)
    BY <2>1, <2>4 DEF UseCode
  <2>5. CASE FindAccount(t)
    BY <2>1, <2>2, <2>5 DEF FindAccount, Ends
  <2>6. CASE SendCode(t) \/ IssueSession(t) \/ LogoutCommit(t)
    BY <2>1, <2>6 DEF SendCode, IssueSession, LogoutCommit, Ends
  <2>7. CASE \E tok \in tokens : LogoutLook(t, tok)
    BY <2>1, <2>7 DEF LogoutLook
  <2>8. QED
    BY <2>3, <2>4, <2>5, <2>6, <2>7 DEF SessionStep
<1>5. QED
  BY <1>3, <1>4

\* Administrators' requests and the filing of jobs hold the ids of rows.
LEMMA AdminKeepsIds ==
    ASSUME TypeInv, IdInv, NEW t \in Threads, AdminStep(t)
    PROVE  IdInv'
<1>1. [Next]_vars
  BY DEF Next
<1>2. /\ req \in [Threads -> GoodReq] /\ req[t] \in ReqType /\ HoldsIds(req[t])
      /\ misnamed = FALSE
  BY <1>1, IdsStay DEF TypeInv, RestInv, GoodReq
<1>3. ASSUME UNCHANGED <<misnamed, jobs>>, NEW r, Goes(t, r), HoldsIds(r)'
      PROVE  IdInv'
  <2>1. \A s \in Threads : req'[s] = IF s = t THEN r ELSE req[s]
    BY <1>2, <1>3 DEF Goes
  <2>2. QED
    BY <1>1, <1>2, <1>3, <2>1, IdsKeep
<1>4. Idle.at = "idle" /\ HoldsIds(Idle)'
  BY DEF Idle, HoldsIds
<1>5. ASSUME NEW tok \in tokens, NEW op \in {"admin", "submit"}, Admit(t, tok, op)
      PROVE  IdInv'
  <2>1. PICK u \in Account(tok.name) :
          Goes(t, [Idle EXCEPT !.at = "read", !.op = op, !.by = u.id, !.byAcct = u.acct])
    BY <1>5 DEF Admit
  <2>2. PICK r : r = [Idle EXCEPT !.at = "read", !.op = op, !.by = u.id, !.byAcct = u.acct]
    OBVIOUS
  <2>3. r.at = "read" /\ r.by = u.id /\ r.byAcct = u.acct
    BY <2>2 DEF Idle
  <2>4. UNCHANGED <<users, lastId, born, reusesIds, misnamed, jobs>>
    BY <1>5 DEF Admit, reads, accountVars, ghostVars
  <2>5. Means(u.id, u.acct)
    BY RowMeans DEF Account, Named
  <2>6. HoldsIds(r)'
    BY <2>3, <2>4, <2>5 DEF HoldsIds, Means, Heir
  <2>7. QED
    BY <1>3, <2>1, <2>2, <2>4, <2>6
<1>6. ASSUME NEW i \in Accts, NEW role \in Roles, NEW op \in {"role", "toggle", "delete"},
             ReadTarget(t, op, i, role)
      PROVE  IdInv'
  <2>1. PICK u \in ById(i) :
          Goes(t, [req[t] EXCEPT !.at = "commit", !.op = op, !.target = i, !.targetAcct = u.acct,
                        !.role = IF op = "role" THEN role ELSE "none",
                        !.active = op = "toggle" /\ ~u.active,
                        !.writes = op = "role" => role # u.role])
    BY <1>6 DEF ReadTarget
  <2>2. PICK r : r = [req[t] EXCEPT !.at = "commit", !.op = op, !.target = i, !.targetAcct = u.acct,
                        !.role = IF op = "role" THEN role ELSE "none",
                        !.active = op = "toggle" /\ ~u.active,
                        !.writes = op = "role" => role # u.role]
    OBVIOUS
  <2>3. /\ r.at = "commit" /\ r.target = i /\ r.targetAcct = u.acct
        /\ r.by = req[t].by /\ r.byAcct = req[t].byAcct
    BY <1>2, <2>2 DEF ReqType
  <2>4. /\ UNCHANGED <<users, lastId, born, reusesIds, misnamed, jobs>>
        /\ req[t].at = "read"
    BY <1>6 DEF ReadTarget, reads, accountVars, ghostVars
  <2>5. Means(i, u.acct) /\ Means(req[t].by, req[t].byAcct)
    BY <1>2, <2>4, RowMeans DEF ById, HoldsIds
  <2>6. Means(r.target, r.targetAcct) /\ Means(r.by, r.byAcct)
    BY <2>3, <2>5
  <2>7. HoldsIds(r)'
    BY <2>4, <2>6 DEF HoldsIds, Means, Heir
  <2>8. QED
    BY <1>3, <2>1, <2>2, <2>4, <2>7
<1>7. ASSUME NEW n \in Names, NEW role \in Roles, ReadName(t, n, role)
      PROVE  IdInv'
  <2>1. PICK r : r = [req[t] EXCEPT !.at = "commit", !.op = "create", !.name = n, !.role = role]
    OBVIOUS
  <2>2. r.at = "commit" /\ r.op = "create" /\ r.by = req[t].by /\ r.byAcct = req[t].byAcct
    BY <1>2, <2>1 DEF ReqType
  <2>3. /\ UNCHANGED <<users, lastId, born, reusesIds, misnamed, jobs>>
        /\ req[t].at = "read" /\ Goes(t, r)
    BY <1>7, <2>1 DEF ReadName, reads, accountVars, ghostVars
  <2>4. Means(r.by, r.byAcct)
    BY <1>2, <2>2, <2>3 DEF HoldsIds
  <2>5. HoldsIds(r)'
    BY <2>2, <2>3, <2>4 DEF HoldsIds, Means, Heir
  <2>6. QED
    BY <1>3, <2>3, <2>5
<1>8. CASE Refuse(t)
  BY <1>3, <1>4, <1>8 DEF Refuse, Ends, reads, ghostVars
<1>9. CASE CommitUpdate(t)
  <2>1. UNCHANGED <<misnamed, jobs>> /\ req[t].at = "commit"
    BY <1>9 DEF CommitUpdate, unwritten
  <2>2. Ends(t) \/ \E names : Commits(t, names)
    BY <1>9 DEF CommitUpdate
  <2>3. QED
    BY <1>1, <1>3, <1>4, <2>1, <2>2, CommitKeepsIds DEF Ends
<1>10. CASE CommitDelete(t)
  <2>1. UNCHANGED <<misnamed, jobs>> /\ req[t].at = "commit"
    BY <1>10 DEF CommitDelete, unwritten
  <2>2. \E names : Commits(t, names)
    BY <1>10 DEF CommitDelete
  <2>3. QED
    BY <1>1, <2>1, <2>2, CommitKeepsIds
<1>11. CASE CommitCreate(t)
  <2>1. UNCHANGED <<misnamed, jobs>> /\ req[t].at = "commit"
    BY <1>11 DEF CommitCreate, unwritten
  <2>2. CASE Ends(t)
    BY <1>3, <1>4, <2>1, <2>2 DEF Ends
  <2>3. CASE Goes(t, ToAudit(t, lastId'))
    <3>1. PICK r : r = ToAudit(t, lastId')
      OBVIOUS
    <3>2. PICK q : q = req[t]
      OBVIOUS
    <3>3. r.at = "audit" /\ r.by = q.by /\ r.byAcct = q.byAcct
      BY <3>1, <3>2 DEF ToAudit, Idle
    <3>4. HoldsIds(q)' /\ q.at = "commit"
      BY <1>1, <1>2, <2>1, <3>2, IdsStay
    <3>5. HoldsIds(r)'
      BY <3>3, <3>4 DEF HoldsIds
    <3>6. QED
      BY <1>3, <2>1, <2>3, <3>1, <3>5
  <2>4. QED
    BY <1>11, <2>2, <2>3 DEF CommitCreate
<1>12. CASE Audit(t)
  <2>1. Means(req[t].by, req[t].byAcct)
    BY <1>2, <1>12 DEF Audit, HoldsIds
  <2>2. misnamed' = FALSE
    <3>1. \A u \in ById(req[t].by) : Heir(req[t].byAcct, u)
      BY <2>1 DEF Means, ById
    <3>2. CASE UNCHANGED misnamed
      BY <1>2, <3>2
    <3>3. CASE \E u \in ById(req[t].by) : misnamed' = (misnamed \/ ~Heir(req[t].byAcct, u))
      BY <1>2, <3>1, <3>3
    <3>4. QED
      BY <1>12, <3>2, <3>3 DEF Audit
  <2>3. jobs' = jobs /\ Goes(t, Idle)
    BY <1>12 DEF Audit, Ends
  <2>4. UNCHANGED <<misnamed, jobs>>
    BY <1>2, <2>2, <2>3
  <2>5. QED
    BY <1>3, <1>4, <2>3, <2>4
<1>13. CASE SubmitJob(t)
  <2>1. PICK q : q = req[t]
    OBVIOUS
  <2>2. HoldsIds(q)' /\ q.at = "read"
    BY <1>1, <1>2, <1>13, <2>1, IdsStay DEF SubmitJob
  <2>3. jobs' = jobs \cup {[uid |-> q.by, acct |-> q.byAcct]}
    BY <1>13, <2>1 DEF SubmitJob
  <2>4. \A j \in jobs' \ jobs : Means(j.uid, j.acct)'
    BY <2>2, <2>3 DEF HoldsIds
  <2>5. misnamed' = FALSE
    BY <1>2, <1>13 DEF SubmitJob, ghostVars
  <2>6. \A s \in Threads : req'[s] = IF s = t THEN Idle ELSE req[s]
    BY <1>2, <1>13 DEF SubmitJob, Ends, Goes
  <2>7. QED
    BY <1>1, <1>4, <2>4, <2>5, <2>6, IdsKeep
<1>14. QED
  BY <1>5, <1>6, <1>7, <1>8, <1>9, <1>10, <1>11, <1>12, <1>13 DEF AdminStep

\* Wherever an id is kept - in a job, in a request that is to change an account or
\* to write an entry of the audit log - only the account it was taken from has it.
\* SQLite alone gives it to another one, and only to a younger account once the
\* first is gone: never is the id of a living account anybody else's.
THEOREM IdsMean == Spec => []IdsStillMean
<1>1. Init => IdInv
  BY DEF Init, IdInv, HoldsIds, Idle
<1>2. TypeInv /\ IdInv /\ [Next]_vars => IdInv'
  <2> SUFFICES ASSUME TypeInv, IdInv, [Next]_vars
               PROVE  IdInv'
    OBVIOUS
  <2>1. ASSUME UNCHANGED <<misnamed, jobs, req>>
        PROVE  IdInv'
    <3>1. \A s \in Threads : HoldsIds(req[s])'
      <4> SUFFICES ASSUME NEW s \in Threads
                   PROVE  HoldsIds(req[s])'
        OBVIOUS
      <4>1. PICK q : q = req[s]
        OBVIOUS
      <4>2. HoldsIds(q)'
        BY <4>1, IdsStay DEF TypeInv, RestInv, GoodReq
      <4>3. QED
        BY <2>1, <4>1, <4>2 DEF HoldsIds
    <3>2. QED
      BY <2>1, <3>1, IdsStay DEF IdInv
  <2>2. CASE UNCHANGED vars
    BY <2>1, <2>2 DEF vars, ghostVars
  <2>3. ASSUME NEW p \in Procs, BootStep(p)
        PROVE  IdInv'
    BY <2>1, <2>3 DEF BootStep, SeedLook, SeedCommit, DemoLook, DemoCommit, SeedingRaises,
                      BootCrash, bootOnly, unseeded, ghostVars
  <2>4. ASSUME NEW t \in Threads, SessionStep(t)
        PROVE  IdInv'
    BY <2>4, SessionKeepsIds
  <2>5. ASSUME NEW t \in Threads, AdminStep(t)
        PROVE  IdInv'
    BY <2>5, AdminKeepsIds
  <2>6. QED
    BY <2>2, <2>3, <2>4, <2>5 DEF Next
<1>3. TypeInv /\ IdInv => IdsStillMean
  <2> SUFFICES ASSUME TypeInv, IdInv
               PROVE  IdsStillMean
    OBVIOUS
  <2>1. /\ misnamed = FALSE
        /\ \A j \in jobs : Means(j.uid, j.acct)
        /\ \A t \in Threads : HoldsIds(req[t])
    BY DEF IdInv
  <2>2. \A u \in users : u.role # "Admin" => \A j \in Shown(u) : Heir(j.acct, u)
    BY <2>1 DEF Shown, Means
  <2>3. ASSUME NEW t \in Threads, req[t].at = "commit", NEW u \in ById(req[t].target)
        PROVE  Heir(req[t].targetAcct, u)
    <3>1. req[t].op \in {"role", "toggle", "delete"}
      <4>1. req[t] \in GoodReq /\ u.id \in Accts /\ u.id = req[t].target
        BY DEF TypeInv, RestInv, RowsInv, UserType, ById
      <4>2. u.id # 0
        BY <4>1, AccountsAssumption DEF Accts
      <4>3. QED
        BY <2>3, <4>1, <4>2 DEF GoodReq, adminOps
    <3>2. QED
      BY <2>1, <2>3, <3>1 DEF HoldsIds, Means, ById
  <2>4. QED
    BY <2>1, <2>2, <2>3 DEF IdsStillMean
<1>4. QED
  BY <1>1, <1>2, <1>3, Types, PTL DEF Spec

-----------------------------------------------------------------------------
(* AuditComplete *)

\* A request whose change, made or still to come, will have no entry even if
\* every commit succeeds: the row of its administrator or its target is gone.
Doom(r) ==
    \/ r.at \in {"read", "commit", "audit"} /\ ById(r.by) = {}
    \/ r.at = "commit" /\ r.op \in {"role", "toggle"} /\ ById(r.target) = {}
    \/ r.at = "audit" /\ r.op # "delete" /\ ById(r.target) = {}
Doomed == {t \in Threads : Doom(req[t])}

\* The entries missing so far and those that will be are paid for by deletions,
\* each of which dooms at most the requests other than its own, and by the
\* commits of entries that failed.
Missing == changes - trail - Cardinality(InAudit)
AuditInv ==
    /\ IsFiniteSet(users) /\ Cardinality(users) <= born
    /\ \A t \in Threads : req[t].at = "audit" => req[t].op \in adminOps
    /\ trail + Cardinality(InAudit) <= changes
    /\ Missing + Cardinality(Doomed) <= Deletions * (Cardinality(Threads) - 1) + faults

LEMMA Multiples ==
    /\ \A a, b \in Int : (a + 1) * b = a * b + b
    /\ \A a, b \in Int : a * b \in Int
OBVIOUS

LEMMA AuditSizes ==
    /\ Cardinality(Threads) \in Nat
    /\ IsFiniteSet(InAudit) /\ Cardinality(InAudit) \in Nat
    /\ IsFiniteSet(Doomed) /\ Cardinality(Doomed) \in Nat
    /\ IsFiniteSet(InAudit') /\ Cardinality(InAudit') \in Nat
    /\ IsFiniteSet(Doomed') /\ Cardinality(Doomed') \in Nat
<1>1. /\ InAudit \in SUBSET Threads /\ Doomed \in SUBSET Threads
      /\ InAudit' \in SUBSET Threads /\ Doomed' \in SUBSET Threads
  BY DEF InAudit, Doomed
<1>2. QED
  BY <1>1, AccountsAssumption, FS_Subset, FS_CardinalityType

\* What AuditInv says in numbers.
LEMMA AuditNumbers ==
    ASSUME TypeInv, AuditInv
    PROVE  /\ changes \in Nat /\ trail \in Nat /\ faults \in Nat
           /\ Cardinality(users) \in Nat /\ born \in Nat
           /\ Deletions \in Nat /\ Missing \in Nat
           /\ Deletions * (Cardinality(Threads) - 1) \in Int
<1>1. /\ changes \in Nat /\ trail \in Nat /\ faults \in Nat
      /\ Cardinality(users) \in Nat /\ born \in Nat
  BY AccountsAssumption, FS_CardinalityType DEF AuditInv, TypeInv, RowsInv, RestInv
<1>2. Deletions \in Nat /\ Missing \in Nat
  BY <1>1, AuditSizes DEF AuditInv, Deletions, Missing
<1>3. QED
  BY <1>1, <1>2, AuditSizes, Multiples

\* Faults are only counted up.
LEMMA FaultsGrow ==
    ASSUME TypeInv, Next
    PROVE  faults' \in Nat /\ faults' >= faults
<1>1. faults' = faults \/ faults' = faults + 1
  <2>1. ASSUME NEW p \in Procs, BootStep(p)
        PROVE  faults' = faults \/ faults' = faults + 1
    BY <2>1 DEF BootStep, SeedLook, SeedCommit, DemoLook, DemoCommit, SeedingRaises, BootCrash,
                bootOnly, Fault
  <2>2. ASSUME NEW t \in Threads, SessionStep(t)
        PROVE  faults' = faults \/ faults' = faults + 1
    BY <2>2 DEF SessionStep, Login, Resend, SendCode, UseCode, FindAccount, IssueSession,
                LogoutLook, LogoutCommit, Fault
  <2>3. ASSUME NEW t \in Threads, AdminStep(t)
        PROVE  faults' = faults \/ faults' = faults + 1
    BY <2>3 DEF AdminStep, Admit, ReadTarget, ReadName, Refuse, CommitUpdate, CommitDelete,
                CommitCreate, Audit, SubmitJob, reads, unwritten, Fault
  <2>4. QED
    BY <2>1, <2>2, <2>3 DEF Next
<1>2. QED
  BY <1>1 DEF TypeInv, RestInv

\* No change is committed and no entry written; no further request is doomed.
LEMMA NothingAudited ==
    ASSUME TypeInv, AuditInv, IsFiniteSet(users'), Cardinality(users') <= born',
           Deletions' = Deletions, changes' = changes, trail' = trail,
           InAudit' = InAudit, Doomed' \subseteq Doomed, faults' \in Nat, faults' >= faults,
           \A s \in Threads : req'[s].at = "audit" => req'[s].op \in adminOps
    PROVE  AuditInv'
<1>1. Cardinality(Doomed') <= Cardinality(Doomed)
  BY AuditSizes, FS_Subset
<1>2. Missing' = Missing
  BY DEF Missing
<1>3. Missing' + Cardinality(Doomed') <= Deletions' * (Cardinality(Threads) - 1) + faults'
  BY <1>1, <1>2, AuditSizes, AuditNumbers DEF AuditInv
<1>4. trail' + Cardinality(InAudit') <= changes'
  BY DEF AuditInv
<1>5. QED
  BY <1>3, <1>4 DEF AuditInv

\* A request that writes nothing, or has none of its change to record.
LEMMA RequestGoesOn ==
    ASSUME TypeInv, AuditInv, NEW t \in Threads, NEW r, Goes(t, r),
           UNCHANGED <<users, born, changes, trail>>, faults' \in Nat, faults' >= faults,
           req[t].at # "audit", r.at # "audit", Doom(r) => Doom(req[t])
    PROVE  AuditInv'
<1>1. \A s \in Threads : req'[s] = IF s = t THEN r ELSE req[s]
  BY DEF TypeInv, RestInv, Goes
<1>2. InAudit' = InAudit
  BY <1>1 DEF InAudit
<1>3. Doomed' \subseteq Doomed
  BY <1>1 DEF Doomed, Doom, ById
<1>4. QED
  BY <1>1, <1>2, <1>3, NothingAudited DEF AuditInv, Deletions

LEMMA RequestEnds ==
    ASSUME TypeInv, AuditInv, NEW t \in Threads, Ends(t),
           UNCHANGED <<users, born, changes, trail>>, req[t].at # "audit",
           faults' \in Nat, faults' >= faults
    PROVE  AuditInv'
<1>1. Idle.at = "idle" /\ ~Doom(Idle)
  BY DEF Idle, Doom
<1>2. QED
  BY <1>1, RequestGoesOn DEF Ends

\* A session step: whatever the request is, it is no administrator's.
LEMMA SessionKeepsAudit ==
    ASSUME TypeInv, AuditInv, NEW t \in Threads, SessionStep(t)
    PROVE  AuditInv'
<1>0. faults' \in Nat /\ faults' >= faults
  BY FaultsGrow DEF Next
<1>1. UNCHANGED <<users, born, changes, trail>>
  BY DEF SessionStep, Login, Resend, SendCode, UseCode, FindAccount, IssueSession,
         LogoutLook, LogoutCommit, sessionOnly, accountVars, ghostVars
<1>2. req[t].at # "audit"
  BY DEF SessionStep, Login, Resend, SendCode, UseCode, FindAccount, IssueSession,
         LogoutLook, LogoutCommit, Starts
<1>3. \E r : Goes(t, r) /\ r.at \in {"idle", "send", "account", "session", "revoke"}
  <2>1. Idle.at = "idle"
    BY DEF Idle
  <2>2. \A n, j, d :
          /\ [Idle EXCEPT !.at = "send", !.op = "login", !.name = n].at = "send"
          /\ [Idle EXCEPT !.at = "account", !.op = "verify", !.name = n, !.disturbed = d].at = "account"
          /\ [Idle EXCEPT !.at = "revoke", !.op = "logout", !.jti = j].at = "revoke"
    BY DEF Idle
  <2>3. \A i, a : [req[t] EXCEPT !.at = "session", !.by = i, !.byAcct = a].at = "session"
    BY DEF TypeInv, RestInv, GoodReq, ReqType
  <2>4. CASE \E n \in Names : Login(t, n)
    <3>1. PICK n \in Names : Login(t, n)
      BY <2>4
    <3>2. PICK u \in Account(n) :
            \/ Goes(t, [Idle EXCEPT !.at = "session", !.op = "login", !.by = u.id,
                                     !.byAcct = u.acct, !.name = n])
            \/ SendsCode(t, n)
      BY <3>1 DEF Login
    <3>3. PICK r : r = [Idle EXCEPT !.at = "session", !.op = "login", !.by = u.id,
                                    !.byAcct = u.acct, !.name = n]
      OBVIOUS
    <3>4. PICK q : q = [Idle EXCEPT !.at = "send", !.op = "login", !.name = n]
      OBVIOUS
    <3>5. r.at = "session" /\ q.at = "send"
      BY <3>3, <3>4 DEF Idle
    <3>6. Goes(t, r) \/ Goes(t, q)
      BY <3>2, <3>3, <3>4 DEF SendsCode
    <3>7. QED
      BY <3>5, <3>6
  <2>5. CASE \E n \in Names : Resend(t, n)
    BY <2>2, <2>5 DEF Resend, SendsCode
  <2>6. CASE \E c \in codes : UseCode(t, c)
    <3>1. PICK c \in codes : UseCode(t, c)
      BY <2>6
    <3>2. PICK r : r = [Idle EXCEPT !.at = "account", !.op = "verify", !.name = c.name,
                                    !.disturbed = c.disturbed]
      OBVIOUS
    <3>3. r.at = "account"
      BY <3>2 DEF Idle
    <3>4. Goes(t, r)
      BY <3>1, <3>2 DEF UseCode
    <3>5. QED
      BY <3>3, <3>4
  <2>7. CASE FindAccount(t)
    BY <2>1, <2>3, <2>7 DEF FindAccount, Ends
  <2>8. CASE SendCode(t) \/ IssueSession(t) \/ LogoutCommit(t)
    BY <2>1, <2>8 DEF SendCode, IssueSession, LogoutCommit, Ends
  <2>9. CASE \E tok \in tokens : LogoutLook(t, tok)
    BY <2>2, <2>9 DEF LogoutLook
  <2>10. QED
    BY <2>4, <2>5, <2>6, <2>7, <2>8, <2>9 DEF SessionStep
<1>4. PICK r : Goes(t, r) /\ r.at \in {"idle", "send", "account", "session", "revoke"}
  BY <1>3
<1>5. r.at # "audit" /\ ~Doom(r)
  BY <1>4 DEF Doom
<1>6. QED
  BY <1>0, <1>1, <1>2, <1>4, <1>5, RequestGoesOn

\* An INSERT adds as many rows as it creates accounts.
LEMMA InsertCounts ==
    ASSUME TypeInv, AuditInv, NEW roles, IsFiniteSet(DOMAIN roles), Insert(roles)
    PROVE  /\ users \subseteq users' /\ IsFiniteSet(users')
           /\ Deletions' = Deletions /\ Cardinality(users') <= born'
<1> DEFINE new == DOMAIN roles
           rank == CHOOSE f \in [new -> 0..Cardinality(new) - 1] :
                      \A l, m \in new : f[l] = f[m] => l = m
           row(m) == [id |-> FreeId + rank[m], name |-> m, role |-> roles[m],
                      active |-> TRUE, acct |-> born + 1 + rank[m]]
           added == {row(m) : m \in new}
<1>1. users' = users \cup added /\ born' = born + Cardinality(new)
  BY DEF Insert
<1>2. rank \in [new -> 0..Cardinality(new) - 1]
  BY Ranking
<1> HIDE DEF rank
<1>3. Cardinality(new) \in Nat /\ \A m \in new : rank[m] \in Nat
  BY <1>2, FS_CardinalityType
<1>4. IsFiniteSet(added) /\ Cardinality(added) = Cardinality(new)
  <2> DEFINE f == [m \in new |-> row(m)]
  <2>1. \A m \in new : f[m] = row(m) /\ row(m).name = m
    OBVIOUS
  <2> HIDE DEF row
  <2>2. f \in Surjection(new, added)
    BY DEF Surjection
  <2>3. \A l, m \in new : f[l] = f[m] => l = m
    BY <2>1
  <2>4. f \in Injection(new, added)
    BY <2>2, <2>3 DEF Injection, Surjection, IsInjective
  <2> HIDE DEF f, added
  <2>5. QED
    BY <2>2, <2>4, FS_Surjection
<1>5. users \cap added = {}
  <2>1. \A u \in users : u.id < FreeId /\ u.id \in Nat
    BY FreshId DEF TypeInv, RowsInv, UserType, Accts
  <2>2. FreeId \in Nat
    BY FreshId, AccountsAssumption DEF TypeInv, RowsInv
  <2>3. \A m \in new : row(m).id = FreeId + rank[m]
    OBVIOUS
  <2> HIDE DEF row
  <2>4. \A m \in new : row(m) \notin users
    BY <1>3, <2>1, <2>2, <2>3
  <2>5. QED
    BY <2>4
<1> HIDE DEF row, added, new
<1>6. /\ IsFiniteSet(users')
      /\ Cardinality(users') = Cardinality(users) + Cardinality(new)
  <2>1. Cardinality(users \cap added) = 0
    BY <1>5, FS_EmptySet
  <2>2. IsFiniteSet(users) /\ Cardinality(users) \in Nat
    BY FS_CardinalityType DEF AuditInv
  <2>3. QED
    <3>1. /\ IsFiniteSet(users \cup added)
          /\ Cardinality(users \cup added) = Cardinality(users) + Cardinality(added) - 0
      BY <1>4, <2>1, <2>2, FS_Union
    <3>2. QED
      BY <1>1, <1>3, <1>4, <2>2, <3>1
<1>7. Deletions' = Deletions /\ Cardinality(users') <= born'
  BY <1>1, <1>3, <1>6, AuditNumbers DEF AuditInv, Deletions
<1>8. QED
  BY <1>1, <1>6, <1>7

\* Rows that appear, whatever their ids, doom nobody.
LEMMA GrowthDoomsNobody ==
    ASSUME users \subseteq users', NEW r, Doom(r)'
    PROVE  Doom(r)
BY DEF Doom, ById

LEMMA BootKeepsAudit ==
    ASSUME TypeInv, AuditInv, NEW p \in Procs, BootStep(p)
    PROVE  AuditInv'
<1>1. UNCHANGED <<req, changes, trail>>
  BY DEF BootStep, SeedLook, SeedCommit, DemoLook, DemoCommit, SeedingRaises, BootCrash,
         bootOnly, unseeded, ghostVars
<1>2. \/ UNCHANGED <<users, born>>
      \/ \E roles : IsFiniteSet(DOMAIN roles) /\ Insert(roles)
  <2>1. CASE SeedCommit(p)
    BY <2>1, AccountsAssumption DEF SeedCommit, accountVars
  <2>2. CASE DemoCommit(p)
    <3> DEFINE roles == [n \in {DemoName} |-> DemoRole]
    <3>1. IsFiniteSet(DOMAIN roles)
      BY FS_Singleton
    <3>2. Insert(roles) \/ UNCHANGED <<users, born>>
      BY <2>2 DEF DemoCommit, accountVars
    <3> HIDE DEF roles
    <3>3. QED
      BY <3>1, <3>2
  <2>3. CASE SeedLook(p) \/ DemoLook(p) \/ SeedingRaises(p) \/ BootCrash(p)
    BY <2>3 DEF SeedLook, DemoLook, SeedingRaises, BootCrash, unseeded, accountVars
  <2>4. QED
    BY <2>1, <2>2, <2>3 DEF BootStep
<1>3. /\ users \subseteq users' /\ IsFiniteSet(users')
      /\ Deletions' = Deletions /\ Cardinality(users') <= born'
  BY <1>2, InsertCounts DEF AuditInv, Deletions
<1>4. InAudit' = InAudit /\ Doomed' \subseteq Doomed
  BY <1>1, <1>3, GrowthDoomsNobody DEF InAudit, Doomed, Doom, ById
<1>5. QED
  BY <1>1, <1>3, <1>4, FaultsGrow, NothingAudited DEF AuditInv, Next

\* A change is committed by request t, which goes on to its entry; it was
\* doomed before if it is doomed now.
LEMMA ChangeCommitted ==
    ASSUME TypeInv, AuditInv, NEW t \in Threads, req[t].at = "commit", req[t].op \in adminOps,
           changes' = changes + 1, trail' = trail, faults' \in Nat, faults' >= faults,
           IsFiniteSet(users'), Cardinality(users') <= born',
           Deletions' = Deletions, Doomed' \subseteq Doomed,
           req'[t].at = "audit", req'[t].op = req[t].op,
           \A s \in Threads : s # t => req'[s].at = req[s].at /\ req'[s].op = req[s].op
    PROVE  AuditInv'
<1>1. InAudit' = InAudit \cup {t} /\ t \notin InAudit
  BY DEF InAudit
<1>2. Cardinality(InAudit') = Cardinality(InAudit) + 1
  BY <1>1, AuditSizes, FS_AddElement
<1>3. Cardinality(Doomed') <= Cardinality(Doomed)
  BY AuditSizes, FS_Subset
<1>4. Missing' = Missing
  BY <1>2, AuditSizes, AuditNumbers DEF Missing
<1>5. Missing' + Cardinality(Doomed') <= Deletions' * (Cardinality(Threads) - 1) + faults'
  BY <1>3, <1>4, AuditSizes, AuditNumbers DEF AuditInv
<1>6. trail' + Cardinality(InAudit') <= changes'
  BY <1>2, AuditSizes, AuditNumbers DEF AuditInv
<1>7. \A s \in Threads : req'[s].at = "audit" => req'[s].op \in adminOps
  BY DEF AuditInv
<1>8. QED
  BY <1>5, <1>6, <1>7 DEF AuditInv

\* The same when the commit deletes an account: it may doom every other request.
LEMMA DeletionCommitted ==
    ASSUME TypeInv, AuditInv, NEW t \in Threads, req[t].at = "commit", req[t].op \in adminOps,
           changes' = changes + 1, trail' = trail, faults' \in Nat, faults' >= faults,
           IsFiniteSet(users'), Cardinality(users') <= born',
           Deletions' = Deletions + 1, t \in Doomed' => t \in Doomed,
           req'[t].at = "audit", req'[t].op = req[t].op,
           \A s \in Threads : s # t => req'[s].at = req[s].at /\ req'[s].op = req[s].op
    PROVE  AuditInv'
<1> DEFINE others == Threads \ {t}
<1>1. InAudit' = InAudit \cup {t} /\ t \notin InAudit
  BY DEF InAudit
<1>2. Cardinality(InAudit') = Cardinality(InAudit) + 1
  BY <1>1, AuditSizes, FS_AddElement
<1>3. IsFiniteSet(others) /\ Cardinality(others) = Cardinality(Threads) - 1
  BY AccountsAssumption, FS_RemoveElement
<1>4. Cardinality(Doomed') <= Cardinality(Doomed) + Cardinality(Threads) - 1
  <2>1. Doomed' \subseteq Doomed \cup others
    BY DEF Doomed
  <2> HIDE DEF others
  <2>2. /\ IsFiniteSet(Doomed \cup others)
        /\ Cardinality(Doomed \cup others) =
             Cardinality(Doomed) + Cardinality(others) - Cardinality(Doomed \cap others)
    BY <1>3, AuditSizes, FS_Union
  <2>3. Cardinality(Doomed \cap others) \in Nat
    BY <1>3, AuditSizes, FS_Intersection, FS_CardinalityType
  <2>4. Cardinality(Doomed') <= Cardinality(Doomed \cup others)
    BY <2>1, <2>2, FS_Subset
  <2>5. QED
    BY <1>3, <2>2, <2>3, <2>4, AuditSizes
<1>5. Missing' = Missing
  BY <1>2, AuditSizes, AuditNumbers DEF Missing
<1>6. Deletions' * (Cardinality(Threads) - 1)
        = Deletions * (Cardinality(Threads) - 1) + (Cardinality(Threads) - 1)
  BY AuditSizes, AuditNumbers, Multiples
<1>7. Missing' + Cardinality(Doomed') <= Deletions' * (Cardinality(Threads) - 1) + faults'
  BY <1>4, <1>5, <1>6, AuditSizes, AuditNumbers DEF AuditInv
<1>8. trail' + Cardinality(InAudit') <= changes'
  BY <1>2, AuditSizes, AuditNumbers DEF AuditInv
<1>9. \A s \in Threads : req'[s].at = "audit" => req'[s].op \in adminOps
  BY DEF AuditInv
<1>10. QED
  BY <1>7, <1>8, <1>9 DEF AuditInv

\* What Commits does to the requests.
LEMMA CommitsMoves ==
    ASSUME TypeInv, NEW t \in Threads, NEW names, Commits(t, names)
    PROVE  /\ req'[t].at = "audit" /\ req'[t].op = req[t].op
           /\ req'[t].by = req[t].by /\ req'[t].target = req[t].target
           /\ \A s \in Threads : s # t =>
                /\ req'[s].at = req[s].at /\ req'[s].op = req[s].op
                /\ req'[s].by = req[s].by /\ req'[s].target = req[s].target
           /\ changes' = changes + 1
<1>1. req'[t] = ToAudit(t, req[t].target)
  BY DEF Commits
<1>2. ASSUME NEW s \in Threads, s # t
      PROVE  /\ req'[s].at = req[s].at /\ req'[s].op = req[s].op
             /\ req'[s].by = req[s].by /\ req'[s].target = req[s].target
  <2> DEFINE d == req[s].disturbed \/ (req[s].op \in {"login", "verify"} /\ req[s].name \in names)
  <2>1. req'[s] = [req[s] EXCEPT !.disturbed = d]
    BY <1>2 DEF Commits
  <2>2. req[s] \in ReqType
    BY DEF TypeInv, RestInv, GoodReq
  <2> HIDE DEF d
  <2>3. QED
    BY <2>1, <2>2 DEF ReqType
<1>3. QED
  BY <1>1, <1>2 DEF Commits, ToAudit, Idle

\* The row with an id, one at most.
LEMMA OneById ==
    ASSUME TypeInv, NEW i, NEW u \in ById(i)
    PROVE  ById(i) = {u} /\ u \in users /\ u.id = i
BY DEF TypeInv, RowsInv, UniqueKeys, ById

LEMMA AdminKeepsAudit ==
    ASSUME TypeInv, AuditInv, NEW t \in Threads, AdminStep(t)
    PROVE  AuditInv'
<1>0. faults' \in Nat /\ faults' >= faults
  BY FaultsGrow DEF Next
<1>1. /\ req \in [Threads -> GoodReq] /\ req[t] \in ReqType /\ req[t] \in GoodReq
      /\ IsFiniteSet(users) /\ Cardinality(users) <= born
      /\ born \in Nat /\ Cardinality(users) \in Nat
  BY AuditNumbers DEF TypeInv, RestInv, GoodReq, AuditInv
<1>2. UNCHANGED reads => UNCHANGED <<users, born, changes, trail>>
  BY DEF reads, accountVars, ghostVars
<1>3. ASSUME NEW tok \in tokens, NEW op \in {"admin", "submit"}, Admit(t, tok, op)
      PROVE  AuditInv'
  <2>1. PICK u \in Account(tok.name) :
          Goes(t, [Idle EXCEPT !.at = "read", !.op = op, !.by = u.id, !.byAcct = u.acct])
    BY <1>3 DEF Admit
  <2>2. PICK r : r = [Idle EXCEPT !.at = "read", !.op = op, !.by = u.id, !.byAcct = u.acct]
    OBVIOUS
  <2>3. r.at = "read" /\ r.by = u.id
    BY <2>2 DEF Idle
  <2>4. ~Doom(r)
    BY <2>3 DEF Doom, Account, Named, ById
  <2>5. UNCHANGED reads /\ req[t].at # "audit"
    BY <1>3 DEF Admit, Starts
  <2>6. QED
    BY <1>0, <1>2, <2>1, <2>2, <2>3, <2>4, <2>5, RequestGoesOn
<1>4. ASSUME NEW i \in Accts, NEW role \in Roles, NEW op \in {"role", "toggle", "delete"},
             ReadTarget(t, op, i, role)
      PROVE  AuditInv'
  <2>1. PICK u \in ById(i) :
          Goes(t, [req[t] EXCEPT !.at = "commit", !.op = op, !.target = i, !.targetAcct = u.acct,
                        !.role = IF op = "role" THEN role ELSE "none",
                        !.active = op = "toggle" /\ ~u.active,
                        !.writes = op = "role" => role # u.role])
    BY <1>4 DEF ReadTarget
  <2>2. PICK r : r = [req[t] EXCEPT !.at = "commit", !.op = op, !.target = i, !.targetAcct = u.acct,
                        !.role = IF op = "role" THEN role ELSE "none",
                        !.active = op = "toggle" /\ ~u.active,
                        !.writes = op = "role" => role # u.role]
    OBVIOUS
  <2>3. r.at = "commit" /\ r.target = i /\ r.by = req[t].by
    BY <1>1, <2>2 DEF ReqType
  <2>4. req[t].at = "read" /\ UNCHANGED reads
    BY <1>4 DEF ReadTarget
  <2>5. Doom(r) => Doom(req[t])
    BY <2>1, <2>3, <2>4 DEF Doom
  <2>6. QED
    BY <1>0, <1>2, <2>1, <2>2, <2>3, <2>4, <2>5, RequestGoesOn
<1>5. ASSUME NEW n \in Names, NEW role \in Roles, ReadName(t, n, role)
      PROVE  AuditInv'
  <2>1. PICK r : r = [req[t] EXCEPT !.at = "commit", !.op = "create", !.name = n, !.role = role]
    OBVIOUS
  <2>2. r.at = "commit" /\ r.op = "create" /\ r.by = req[t].by
    BY <1>1, <2>1 DEF ReqType
  <2>3. req[t].at = "read" /\ UNCHANGED reads /\ Goes(t, r)
    BY <1>5, <2>1 DEF ReadName
  <2>4. Doom(r) => Doom(req[t])
    BY <2>2, <2>3 DEF Doom
  <2>5. QED
    BY <1>0, <1>2, <2>2, <2>3, <2>4, RequestGoesOn
<1>6. CASE Refuse(t)
  BY <1>0, <1>2, <1>6, RequestEnds DEF Refuse
<1>7. CASE CommitUpdate(t)
  <2>1. /\ req[t].at = "commit" /\ req[t].op \in {"role", "toggle"} /\ req[t].op \in adminOps
        /\ trail' = trail /\ born' = born
    BY <1>7 DEF CommitUpdate, unwritten, adminOps
  <2>2. CASE Ends(t) /\ UNCHANGED <<users, codes, changes>>
    BY <1>0, <2>1, <2>2, RequestEnds
  <2>3. ASSUME NEW names, Commits(t, names), IsFiniteSet(users'),
               Cardinality(users') = Cardinality(users),
               \A i : ById(i)' = {} => ById(i) = {}
        PROVE  AuditInv'
    <3>1. Deletions' = Deletions
      BY <2>1, <2>3 DEF Deletions
    <3>2. Doomed' \subseteq Doomed
      <4> SUFFICES ASSUME NEW s \in Threads, Doom(req[s])'
                   PROVE  Doom(req[s])
        BY DEF Doomed
      <4>1. /\ req'[s].op = req[s].op
            /\ req'[s].by = req[s].by /\ req'[s].target = req[s].target
            /\ req'[s].at = IF s = t THEN "audit" ELSE req[s].at
        BY <2>3, CommitsMoves
      <4>2. PICK b, g : b = req[s].by /\ g = req[s].target
        OBVIOUS
      <4>3. \/ req'[s].at \in {"read", "commit", "audit"} /\ ById(b)' = {}
            \/ req'[s].at = "commit" /\ req'[s].op \in {"role", "toggle"} /\ ById(g)' = {}
            \/ req'[s].at = "audit" /\ req'[s].op # "delete" /\ ById(g)' = {}
        BY <4>1, <4>2 DEF Doom, ById
      <4>4. QED
        BY <2>1, <2>3, <4>1, <4>2, <4>3 DEF Doom
    <3>3. QED
      BY <1>0, <1>1, <2>1, <2>3, <3>1, <3>2, CommitsMoves, ChangeCommitted
  <2>4. CASE \E u \in ById(req[t].target) :
               /\ users' = (users \ {u}) \cup {Written(t, u)}
               /\ Commits(t, IF Written(t, u).active THEN {} ELSE {u.name})
    <3>1. PICK u \in ById(req[t].target) :
               /\ users' = (users \ {u}) \cup {Written(t, u)}
               /\ Commits(t, IF Written(t, u).active THEN {} ELSE {u.name})
      BY <2>4
    <3>2. u \in users /\ u \in UserType
      BY DEF ById, TypeInv, RowsInv
    <3> DEFINE w == Written(t, u)
    <3>3. w.id = u.id
      BY <3>2 DEF Written, UserType
    <3>4. users' = (users \ {u}) \cup {w}
      BY <3>1
    <3>5. PICK names : Commits(t, names)
      BY <3>1
    <3> HIDE DEF w
    <3>6. w \notin users \ {u}
      BY <3>2, <3>3 DEF TypeInv, RowsInv, UniqueKeys
    <3>7. IsFiniteSet(users') /\ Cardinality(users') = Cardinality(users)
      <4>1. IsFiniteSet(users \ {u}) /\ Cardinality(users \ {u}) = Cardinality(users) - 1
        BY <1>1, <3>2, FS_RemoveElement
      <4>2. /\ IsFiniteSet((users \ {u}) \cup {w})
            /\ Cardinality((users \ {u}) \cup {w}) = Cardinality(users \ {u}) + 1
        BY <3>6, <4>1, FS_AddElement
      <4>3. QED
        BY <1>1, <3>4, <4>1, <4>2
    <3>8. \A i : ById(i)' = {} => ById(i) = {}
      BY <3>3, <3>4 DEF ById
    <3>9. QED
      BY <2>3, <3>5, <3>7, <3>8
  <2>5. CASE Commits(t, {}) /\ UNCHANGED users
    <3>1. \A i : ById(i)' = ById(i)
      BY <2>5 DEF ById
    <3>2. QED
      BY <1>1, <2>3, <2>5, <3>1
  <2>6. QED
    BY <1>7, <2>2, <2>4, <2>5 DEF CommitUpdate
<1>8. CASE CommitDelete(t)
  <2> DEFINE i == req[t].target
  <2>1. /\ req[t].at = "commit" /\ req[t].op = "delete" /\ req[t].op \in adminOps
        /\ users' = users \ ById(i) /\ trail' = trail /\ born' = born
    BY <1>8 DEF CommitDelete, unwritten, adminOps
  <2>2. PICK names : Commits(t, names)
    BY <1>8 DEF CommitDelete
  <2>3. /\ changes' = changes + 1
        /\ req'[t].at = "audit" /\ req'[t].op = req[t].op
        /\ req'[t].by = req[t].by /\ req'[t].target = req[t].target
        /\ \A s \in Threads : s # t =>
                /\ req'[s].at = req[s].at /\ req'[s].op = req[s].op
                /\ req'[s].by = req[s].by /\ req'[s].target = req[s].target
    BY <2>2, CommitsMoves
  <2>4. i # req[t].by
    BY <1>1, <2>1 DEF GoodReq
  <2>5. ById(req[t].by)' = {} => ById(req[t].by) = {}
    <3>1. PICK b : b = req[t].by
      OBVIOUS
    <3>2. {u \in users \ ById(i) : u.id = b} = {u \in users : u.id = b}
      BY <2>4, <3>1 DEF ById
    <3>3. QED
      BY <2>1, <2>3, <3>1, <3>2 DEF ById
  <2>6. t \in Doomed' => t \in Doomed
    BY <2>1, <2>3, <2>5 DEF Doomed, Doom
  <2>7. CASE ById(i) = {}
    <3>1. users' = users
      BY <2>1, <2>7
    <3>2. Doomed' \subseteq Doomed
      <4> SUFFICES ASSUME NEW s \in Threads, s # t, Doom(req[s])'
                   PROVE  Doom(req[s])
        BY <2>6 DEF Doomed
      <4>1. QED
        BY <2>3, <3>1 DEF Doom, ById
    <3>3. QED
      BY <1>0, <1>1, <2>1, <2>3, <3>1, <3>2, ChangeCommitted DEF Deletions
  <2>8. CASE ById(i) # {}
    <3>1. PICK u \in users : ById(i) = {u}
      BY <2>8, OneById DEF ById
    <3>2. IsFiniteSet(users') /\ Cardinality(users') = Cardinality(users) - 1
      BY <1>1, <2>1, <3>1, FS_RemoveElement
    <3>3. Cardinality(users') <= born' /\ Deletions' = Deletions + 1
      BY <1>1, <2>1, <3>2 DEF Deletions
    <3>4. QED
      BY <1>0, <2>1, <2>3, <2>6, <3>2, <3>3, DeletionCommitted
  <2>9. QED
    BY <2>7, <2>8
<1>9. CASE CommitCreate(t)
  <2>1. req[t].at = "commit" /\ req[t].op = "create" /\ req[t].op \in adminOps /\ trail' = trail
    BY <1>9 DEF CommitCreate, unwritten, adminOps
  <2>2. CASE Ends(t) /\ UNCHANGED <<accountVars, changes>>
    BY <1>0, <2>1, <2>2, RequestEnds DEF accountVars
  <2>3. CASE /\ Insert([n \in {req[t].name} |-> req[t].role])
             /\ changes' = changes + 1
             /\ Goes(t, ToAudit(t, lastId'))
    <3> DEFINE roles == [n \in {req[t].name} |-> req[t].role]
    <3>1. DOMAIN roles = {req[t].name} /\ Insert(roles)
      BY <2>3
    <3> HIDE DEF roles
    <3>2. IsFiniteSet(DOMAIN roles) /\ Cardinality(DOMAIN roles) = 1
      BY <3>1, FS_Singleton
    <3>3. /\ users \subseteq users' /\ IsFiniteSet(users')
          /\ Deletions' = Deletions /\ Cardinality(users') <= born'
      BY <3>1, <3>2, InsertCounts
    <3>4. PICK r : r = ToAudit(t, lastId')
      OBVIOUS
    <3>5. r.at = "audit" /\ r.op = req[t].op /\ r.by = req[t].by /\ r.target = lastId'
      BY <3>4 DEF ToAudit, Idle
    <3>6. \A s \in Threads : req'[s] = IF s = t THEN r ELSE req[s]
      BY <1>1, <2>3, <3>4 DEF Goes
    <3>7. \E u \in users' : u.id = r.target
      <4> DEFINE new == DOMAIN roles
                 rank == CHOOSE f \in [new -> 0..Cardinality(new) - 1] :
                            \A l, m \in new : f[l] = f[m] => l = m
                 row(m) == [id |-> FreeId + rank[m], name |-> m, role |-> roles[m],
                            active |-> TRUE, acct |-> born + 1 + rank[m]]
      <4>1. /\ users' = users \cup {row(m) : m \in new}
            /\ lastId' = FreeId + Cardinality(new) - 1
        BY <3>1 DEF Insert
      <4>2. rank \in [new -> 0..Cardinality(new) - 1]
        BY <3>2, Ranking
      <4> HIDE DEF rank
      <4>3. req[t].name \in new /\ rank[req[t].name] = 0
        BY <3>1, <3>2, <4>2
      <4>4. FreeId \in Nat
        BY FreshId, AccountsAssumption DEF TypeInv, RowsInv
      <4>5. row(req[t].name) \in users' /\ row(req[t].name).id = FreeId + rank[req[t].name]
        BY <4>1, <4>3
      <4> HIDE DEF row
      <4>6. QED
        BY <3>2, <3>5, <4>1, <4>3, <4>4, <4>5
    <3>8. Doomed' \subseteq Doomed
      <4>1. ASSUME NEW s \in Threads, s # t, Doom(req[s])'
            PROVE  Doom(req[s])
        <5>1. PICK q : q = req[s]
          OBVIOUS
        <5>2. Doom(q)'
          BY <3>6, <4>1, <5>1 DEF Doom, ById
        <5>3. QED
          BY <3>3, <5>1, <5>2, GrowthDoomsNobody
      <4>2. ASSUME Doom(req[t])'
            PROVE  Doom(req[t])
        <5>1. Doom(r)'
          BY <3>6, <4>2 DEF Doom, ById
        <5>2. ById(r.by)' = {}
          BY <3>5, <3>7, <5>1 DEF Doom, ById
        <5>3. ById(req[t].by) = {}
          BY <3>3, <3>5, <5>2 DEF ById
        <5>4. QED
          BY <2>1, <5>3 DEF Doom
      <4>3. QED
        BY <4>1, <4>2 DEF Doomed
    <3>9. QED
      BY <1>0, <2>1, <2>3, <3>3, <3>5, <3>6, <3>8, ChangeCommitted
  <2>4. QED
    BY <1>9, <2>2, <2>3 DEF CommitCreate
<1>10. CASE Audit(t)
  <2>1. /\ req[t].at = "audit" /\ Goes(t, Idle)
        /\ UNCHANGED <<users, born, changes>>
    BY <1>10 DEF Audit, Ends, accountVars
  <2>2. \A s \in Threads : req'[s] = IF s = t THEN Idle ELSE req[s]
    BY <1>1, <2>1 DEF Goes
  <2>3. Idle.at = "idle"
    BY DEF Idle
  <2>4. InAudit' = InAudit \ {t} /\ t \in InAudit
    BY <2>1, <2>2, <2>3 DEF InAudit
  <2>5. Cardinality(InAudit') = Cardinality(InAudit) - 1
    BY <2>4, AuditSizes, FS_RemoveElement
  <2>6. Doomed' = Doomed \ {t}
    <3>1. ASSUME NEW s \in Threads
          PROVE  Doom(req[s])' <=> s # t /\ Doom(req[s])
      BY <2>1, <2>2, <2>3 DEF Doom, ById
    <3>2. QED
      BY <3>1 DEF Doomed
  <2>7. Deletions' = Deletions
    BY <2>1 DEF Deletions
  <2>8. req[t].op \in adminOps
    BY <2>1 DEF AuditInv
  <2>9. \A s \in Threads : req'[s].at = "audit" => req'[s].op \in adminOps
    BY <2>2, <2>3 DEF AuditInv
  <2>10. faults \in Nat /\ Cardinality(Doomed') <= Cardinality(Doomed)
    BY <2>6, AuditSizes, AuditNumbers, FS_Subset
  <2>11. CASE trail' = trail + 1
    <3>1. Missing' = Missing
      BY <2>1, <2>5, <2>11, AuditSizes, AuditNumbers DEF Missing
    <3>2. Missing' + Cardinality(Doomed') <= Deletions' * (Cardinality(Threads) - 1) + faults'
      BY <1>0, <2>7, <2>10, <3>1, AuditSizes, AuditNumbers DEF AuditInv
    <3>3. trail' + Cardinality(InAudit') <= changes'
      BY <2>1, <2>5, <2>11, AuditSizes, AuditNumbers DEF AuditInv
    <3>4. QED
      BY <2>1, <2>9, <3>2, <3>3 DEF AuditInv
  <2>12. CASE /\ trail' = trail
              /\ ById(req[t].by) = {} \/ (req[t].op # "delete" /\ ById(req[t].target) = {})
    <3>1. t \in Doomed
      BY <2>1, <2>12 DEF Doomed, Doom
    <3>2. Cardinality(Doomed') = Cardinality(Doomed) - 1
      BY <2>6, <3>1, AuditSizes, FS_RemoveElement
    <3>3. Missing' = Missing + 1
      BY <2>1, <2>5, <2>12, AuditSizes, AuditNumbers DEF Missing
    <3>4. Missing' + Cardinality(Doomed') <= Deletions' * (Cardinality(Threads) - 1) + faults'
      BY <1>0, <2>7, <3>2, <3>3, AuditSizes, AuditNumbers DEF AuditInv
    <3>5. trail' + Cardinality(InAudit') <= changes'
      BY <2>1, <2>5, <2>12, AuditSizes, AuditNumbers DEF AuditInv
    <3>6. QED
      BY <2>1, <2>9, <3>4, <3>5 DEF AuditInv
  <2>13. CASE trail' = trail /\ faults' = faults + 1
    <3>1. Missing' = Missing + 1
      BY <2>1, <2>5, <2>13, AuditSizes, AuditNumbers DEF Missing
    <3>2. Missing' + Cardinality(Doomed') <= Deletions' * (Cardinality(Threads) - 1) + faults'
      BY <2>7, <2>10, <2>13, <3>1, AuditSizes, AuditNumbers DEF AuditInv
    <3>3. trail' + Cardinality(InAudit') <= changes'
      BY <2>1, <2>5, <2>13, AuditSizes, AuditNumbers DEF AuditInv
    <3>4. QED
      BY <2>1, <2>9, <3>2, <3>3 DEF AuditInv
  <2>14. QED
    BY <1>10, <2>8, <2>11, <2>12, <2>13 DEF Audit, Records, Fault
<1>11. CASE SubmitJob(t)
  BY <1>0, <1>11, RequestEnds DEF SubmitJob, accountVars, ghostVars
<1>12. QED
  BY <1>3, <1>4, <1>5, <1>6, <1>7, <1>8, <1>9, <1>10, <1>11 DEF AdminStep

\* Each committed change of an account has one entry in the audit log or its
\* request is about to write it; a deletion costs at most the entries of the
\* other requests in progress, and a failed commit its own.
THEOREM AuditIsComplete == Spec => []AuditComplete
<1>1. Init => AuditInv
  <2> SUFFICES ASSUME Init PROVE AuditInv
    OBVIOUS
  <2>1. users = {} /\ born = 0 /\ changes = 0 /\ trail = 0
        /\ faults = 0 /\ InAudit = {} /\ Doomed = {} /\ \A t \in Threads : req[t].at = "idle"
    BY DEF Init, Idle, InAudit, Doomed, Doom
  <2>2. Cardinality({}) = 0 /\ IsFiniteSet({})
    BY FS_EmptySet
  <2>3. Deletions = 0 /\ Missing = 0
    BY <2>1, <2>2 DEF Deletions, Missing
  <2>4. 0 * (Cardinality(Threads) - 1) = 0
    BY AuditSizes
  <2>5. QED
    BY <2>1, <2>2, <2>3, <2>4 DEF AuditInv
<1>2. TypeInv /\ AuditInv /\ [Next]_vars => AuditInv'
  <2> SUFFICES ASSUME TypeInv, AuditInv, [Next]_vars
               PROVE  AuditInv'
    OBVIOUS
  <2>1. CASE UNCHANGED vars
    <3>1. UNCHANGED <<users, born, req, changes, trail, faults>>
      BY <2>1 DEF vars, accountVars, ghostVars
    <3>2. InAudit' = InAudit /\ Doomed' = Doomed /\ Deletions' = Deletions
      BY <3>1 DEF InAudit, Doomed, Doom, ById, Deletions
    <3>3. QED
      BY <3>1, <3>2, AuditNumbers, NothingAudited DEF AuditInv
  <2>2. QED
    BY <2>1, BootKeepsAudit, SessionKeepsAudit, AdminKeepsAudit DEF Next
<1>3. TypeInv /\ AuditInv => AuditComplete
  <2> SUFFICES ASSUME TypeInv, AuditInv PROVE AuditComplete
    OBVIOUS
  <2>1. Missing <= Deletions * (Cardinality(Threads) - 1) + faults
    BY AuditSizes, AuditNumbers DEF AuditInv
  <2>2. QED
    BY <2>1 DEF AuditComplete, AuditInv, Missing
<1>4. QED
  BY <1>1, <1>2, <1>3, Types, PTL DEF Spec
=============================================================================
