--------------------------- MODULE OtpStoreProofs ---------------------------
(***************************************************************************)
(* Proofs about OtpStore.tla for any number of addresses, threads and      *)
(* codes (finitely many verifying threads, since a bound counts them).     *)
(*                                                                         *)
(* CodeInv says what the rows, the codes drawn and the verifications in    *)
(* progress know of each other, on either database.  SerialWriters,        *)
(* SQLite's one writing transaction at a time, is assumed by two theorems  *)
(* only, OneCodePerAddress (run otp_postgres) and DeadStaysDead: without   *)
(* it TLC finds both properties violated.                                  *)
(***************************************************************************)
EXTENDS OtpStore, FiniteSetTheorems, TLAPS

\* A row has its column email, which an UPDATE of attempts leaves alone.
RowsHaveEmail == \A r \in rows : "email" \in DOMAIN r

\* The UPDATE of attempts changes a row's attempts only.
LEMMA BumpKeepsEmails ==
    ASSUME NEW v \in Verifiers, BumpAttempts(v), RowsHaveEmail, NEW q \in rows'
    PROVE  \E r \in rows : /\ q.email = r.email
                           /\ DOMAIN q = DOMAIN r
                           /\ q = IF rows' # rows /\ r.id = check[v].id
                                  THEN [r EXCEPT !.attempts = MoreAttempts(v)] ELSE r
<1>1. CASE rows' = rows
  BY <1>1
<1>2. CASE rows' # rows
  <2>1. rows' = {IF r.id = check[v].id THEN [r EXCEPT !.attempts = MoreAttempts(v)] ELSE r : r \in rows}
    BY <1>2 DEF BumpAttempts
  <2>2. PICK r \in rows : q = IF r.id = check[v].id
                              THEN [r EXCEPT !.attempts = MoreAttempts(v)] ELSE r
    BY <2>1
  <2>3. q.email = r.email /\ DOMAIN q = DOMAIN r
    BY <2>2 DEF RowsHaveEmail
  <2>4. QED
    BY <1>2, <2>2, <2>3
<1>3. QED
  BY <1>1, <1>2

\* With one writing transaction at a time an address never has two codes,
\* however the sends, the verifications and the clock interleave.
THEOREM OneCodePerAddress ==
    ASSUME SerialWriters
    PROVE  Spec => []AtMostOneCode
<1>1. Init => RowsHaveEmail /\ AtMostOneCode
  BY DEF Init, RowsHaveEmail, AtMostOneCode
<1>2. RowsHaveEmail /\ AtMostOneCode /\ [Next]_vars => RowsHaveEmail' /\ AtMostOneCode'
  <2> SUFFICES ASSUME RowsHaveEmail, AtMostOneCode, [Next]_vars
               PROVE  RowsHaveEmail' /\ AtMostOneCode'
    OBVIOUS
  <2>1. CASE rows' \subseteq rows
    BY <2>1 DEF RowsHaveEmail, AtMostOneCode
  <2>2. ASSUME NEW s \in Senders, CommitSend(s)
        PROVE  RowsHaveEmail' /\ AtMostOneCode'
    <3>1. PICK new : /\ new.email = send[s].email
                     /\ "email" \in DOMAIN new
                     /\ rows' = (rows \ RowsOf(send[s].email)) \cup {new}
      BY <2>2 DEF CommitSend, Replaced
    <3>2. \A r \in rows' : r = new \/ (r \in rows /\ r.email # new.email)
      BY <3>1 DEF RowsOf
    <3>3. QED
      BY <3>1, <3>2 DEF RowsHaveEmail, AtMostOneCode
  <2>3. ASSUME NEW v \in Verifiers, BumpAttempts(v)
        PROVE  RowsHaveEmail' /\ AtMostOneCode'
    <3>1. RowsHaveEmail'
      BY <2>3, BumpKeepsEmails DEF RowsHaveEmail
    <3>2. ASSUME NEW p \in rows', NEW q \in rows', p.email = q.email
          PROVE  p = q
      <4>1. PICK r \in rows : /\ p.email = r.email
                              /\ p = IF rows' # rows /\ r.id = check[v].id
                                     THEN [r EXCEPT !.attempts = MoreAttempts(v)] ELSE r
        BY <2>3, BumpKeepsEmails
      <4>2. PICK t \in rows : /\ q.email = t.email
                              /\ q = IF rows' # rows /\ t.id = check[v].id
                                     THEN [t EXCEPT !.attempts = MoreAttempts(v)] ELSE t
        BY <2>3, BumpKeepsEmails
      <4>3. r = t
        BY <3>2, <4>1, <4>2 DEF AtMostOneCode
      <4>4. QED
        BY <4>1, <4>2, <4>3
    <3>3. QED
      BY <3>1, <3>2 DEF AtMostOneCode
  <2>4. CASE UNCHANGED vars \/ Tick \/ \E s \in Senders, e \in Emails : BeginSend(s, e)
    <3>1. rows' = rows
      BY <2>4 DEF vars, Tick, BeginSend
    <3>2. QED
      BY <2>1, <3>1
  <2>5. CASE \E v \in Verifiers : Compare(v) \/ Discard(v) \/ Accept(v)
    <3>1. rows' \subseteq rows
      BY <2>5 DEF Compare, Discard, Accept
    <3>2. QED
      BY <2>1, <3>1
  <2>6. CASE \E v \in Verifiers, e \in Emails, c \in 1..drawn \cup {WrongCode} : LookUp(v, e, c)
    <3>1. rows' = rows
      BY <2>6 DEF LookUp
    <3>2. QED
      BY <2>1, <3>1
  <2>7. QED
    BY <2>2, <2>3, <2>4, <2>5, <2>6 DEF Next, SendStep, CheckStep
<1>3. QED
  BY <1>1, <1>2, PTL DEF Spec
-----------------------------------------------------------------------------
(* What a code is while it exists: drawn, stored in one row, spent.          *)

\* The verifications that will answer valid for the code c.
Acceptors(c) == {v \in Verifiers : check[v].at = "accept" /\ check[v].code = c}

\* Nobody has seen the code c: it is in no row, nothing was compared with it.
Untouched(c) ==
    /\ \A r \in rows : r.code # c
    /\ c \notin dead
    /\ compared[c] = 0
    /\ accepted[c] = 0
    /\ \A v \in Verifiers : check[v].at = "accept" => check[v].code # c

\* A code that was not drawn, or whose INSERT is still to come, is untouched;
\* two sends in progress, and two rows, have different codes; ids were handed out.
CodesAreFresh ==
    /\ \A c \in Codes : c > drawn => Untouched(c)
    /\ \A s \in Senders : send[s].at = "commit" =>
          /\ send[s].email \in Emails
          /\ send[s].code \in 1..drawn
          /\ Untouched(send[s].code)
    /\ \A s, t \in Senders :
          send[s].at = "commit" /\ send[t].at = "commit" /\ send[s].code = send[t].code => s = t
RowsAreDistinct ==
    /\ \A r, q \in rows : r.code = q.code => r = q
    /\ \A r, q \in rows : r.id = q.id => r = q
    /\ \A r \in rows : r.id <= lastId

\* A verification that will answer valid deletes the row of the code it accepts.
AcceptsItsRow == \A v \in Verifiers : check[v].at = "accept" =>
    /\ check[v].code \in Codes
    /\ \A r \in rows : r.code = check[v].code => r.id = check[v].id

CodeInv == TypeOK /\ CodesAreFresh /\ RowsAreDistinct /\ AcceptsItsRow

\* A code in the table was never accepted, and the verifications that will
\* accept it fit in the bound; without overlap there is one of them at most.
AcceptedIsGone ==
    /\ \A r \in rows : accepted[r.code] = 0
    /\ \A c \in Codes : accepted[c] + Cardinality(Acceptors(c)) <= Cardinality(Verifiers)
OneAtATime == ~overlapped => \A u, v \in Verifiers :
    check[u].at # "idle" /\ check[v].at # "idle" => u = v
AcceptedOnce == ~overlapped =>
    /\ \A c \in Codes : accepted[c] <= 1
    /\ \A v \in Verifiers : check[v].at = "accept" => accepted[check[v].code] = 0
UseInv == AcceptedIsGone /\ OneAtATime /\ AcceptedOnce

\* A code in the table is not dead, so what was dead when a verification began
\* cannot be what it accepts.
DeadInv ==
    /\ \A r \in rows : r.code \notin dead
    /\ \A v \in Verifiers : check[v].deadBefore \subseteq dead
    /\ NoDeadCode

\* Without overlap the attempts in a row bound the submissions compared with its
\* code; with reused ids one more was possible before the first attempt counted.
Slack == IF ReusesIds THEN 1 ELSE 0
CountInv == ~overlapped =>
    /\ \A r \in rows : compared[r.code] <= r.attempts + Slack
    /\ \A r \in rows, v \in Verifiers : check[v].id = r.id =>
          /\ check[v].at = "bump" => compared[r.code] <= check[v].attempts + Slack
          /\ check[v].at = "compare" => compared[r.code] + 1 <= r.attempts + Slack
    /\ \A c \in Codes : compared[c] <= MaxAttempts + Slack
IdInv == ReusesIds \/ \A v \in Verifiers : check[v].id <= lastId
GuessInv == IdInv /\ CountInv
-----------------------------------------------------------------------------
(* CodeInv is inductive *)

LEMMA CodeInvInit == Init => CodeInv
<1> USE OtpAssumption DEF Init, Codes
<1>1. Init => TypeOK
  <2>1. IdleSend \in SendType /\ IdleCheck \in CheckType
    BY DEF SendType, CheckType, IdleSend, IdleCheck, NoCode, WrongCode
  <2>2. Init => send \in [Senders -> SendType] /\ check \in [Verifiers -> CheckType]
    BY <2>1
  <2>3. Init => compared \in [Codes -> Nat] /\ accepted \in [Codes -> Nat]
    OBVIOUS
  <2>4. Init => clock \in 0..MaxClock /\ drawn \in 0..MaxCodes /\ lastId \in Nat /\ stored \in Nat
    OBVIOUS
  <2>5. Init => rows \subseteq RowType /\ dead \subseteq Codes /\ overlapped \in BOOLEAN
    OBVIOUS
  <2>6. QED
    BY <2>2, <2>3, <2>4, <2>5 DEF TypeOK
<1>2. Init => CodesAreFresh
  BY DEF CodesAreFresh, Untouched, IdleSend, IdleCheck
<1>3. Init => RowsAreDistinct /\ AcceptsItsRow
  BY DEF RowsAreDistinct, AcceptsItsRow, IdleCheck
<1>4. QED
  BY <1>1, <1>2, <1>3 DEF CodeInv

LEMMA CodeInvBeginSend ==
    ASSUME CodeInv, NEW s \in Senders, NEW e \in Emails, BeginSend(s, e)
    PROVE  CodeInv'
<1> USE OtpAssumption DEF CodeInv, BeginSend, Codes
<1>1. TypeOK'
  <2>1. {r.id : r \in RowsOf(e)} \in SUBSET Nat
    BY DEF TypeOK, RowsOf, RowType
  <2>2. send' \in [Senders -> SendType]
    BY <2>1 DEF TypeOK, SendType
  <2>3. QED
    BY <2>2 DEF TypeOK
<1>2. \A c \in Codes : Untouched(c)' <=> Untouched(c)
  BY DEF Untouched
<1>3. drawn + 1 \in Codes /\ Untouched(drawn + 1)
  BY DEF CodesAreFresh, TypeOK
<1>4. CodesAreFresh'
  <2>1. \A c \in Codes : c > drawn' => Untouched(c)'
    BY <1>2 DEF CodesAreFresh, TypeOK
  <2>2. \A t \in Senders : t # s => send'[t] = send[t]
    BY DEF TypeOK
  <2>3. /\ send'[s].at = "commit"
        /\ send'[s].email = e
        /\ send'[s].code = drawn + 1
    BY DEF TypeOK
  <2>4. QED
    BY <1>2, <1>3, <2>1, <2>2, <2>3 DEF CodesAreFresh, TypeOK
<1>5. RowsAreDistinct' /\ AcceptsItsRow'
  BY DEF RowsAreDistinct, AcceptsItsRow
<1>6. QED
  BY <1>1, <1>4, <1>5

LEMMA CodeInvCommitSend ==
    ASSUME CodeInv, NEW s \in Senders, CommitSend(s)
    PROVE  CodeInv'
<1> USE OtpAssumption DEF CodeInv, Codes
<1> DEFINE c == send[s].code
           rest == rows \ Replaced(s)
<1>1. /\ send[s].at = "commit"
      /\ send[s].email \in Emails
      /\ c \in 1..drawn
      /\ c \in Codes
      /\ Untouched(c)
  BY DEF CommitSend, CodesAreFresh, TypeOK
<1>2. PICK i \in 1..lastId + 1 :
         /\ NewId(rest, i)
         /\ rows' = rest \cup {[id |-> i, email |-> send[s].email, code |-> c, attempts |-> 0,
                                expires |-> send[s].expires, created |-> stored + 1]}
         /\ lastId' = i
  BY DEF CommitSend
<1> DEFINE new == [id |-> i, email |-> send[s].email, code |-> c, attempts |-> 0,
                   expires |-> send[s].expires, created |-> stored + 1]
<1>3. rest \subseteq rows
  OBVIOUS
<1>4. /\ \A t \in Senders : t # s => send'[t] = send[t]
      /\ send'[s] = IdleSend
  BY DEF CommitSend, TypeOK
<1>5. dead' \subseteq dead \cup {r.code : r \in rows}
  BY DEF CommitSend, Retire, CodesOf, RowsOf
<1>6. TypeOK'
  <2>1. new \in RowType
    BY <1>1, <1>2 DEF TypeOK, RowType, SendType
  <2>2. rows' \subseteq RowType
    BY <1>2, <1>3, <2>1 DEF TypeOK
  <2>3. lastId' \in Nat
    BY <1>2 DEF TypeOK
  <2>4. dead' \subseteq Codes
    BY <1>5 DEF TypeOK, RowType
  <2>5. send' \in [Senders -> SendType]
    BY DEF CommitSend, TypeOK, IdleSend, SendType, NoCode
  <2>6. QED
    BY <2>2, <2>3, <2>4, <2>5 DEF TypeOK, CommitSend
<1>7. ASSUME NEW d \in Codes, Untouched(d), d # c
      PROVE  Untouched(d)'
  BY <1>2, <1>3, <1>5, <1>7 DEF Untouched, CommitSend
<1>8. CodesAreFresh'
  <2>1. \A d \in Codes : d > drawn' => Untouched(d)'
    BY <1>1, <1>7 DEF CodesAreFresh, CommitSend, TypeOK
  <2>2. ASSUME NEW t \in Senders, send'[t].at = "commit"
        PROVE  /\ t # s
               /\ send'[t] = send[t]
               /\ send'[t].email \in Emails
               /\ send'[t].code \in 1..drawn'
               /\ Untouched(send[t].code)'
    <3>1. t # s /\ send'[t] = send[t]
      BY <1>4, <2>2 DEF IdleSend
    <3>2. send[t].code # c
      BY <1>1, <2>2, <3>1 DEF CodesAreFresh
    <3>3. send[t].code \in 1..drawn /\ send[t].code \in Codes /\ Untouched(send[t].code)
      BY <2>2, <3>1 DEF CodesAreFresh, TypeOK
    <3>4. ASSUME NEW d, d = send[t].code
          PROVE  Untouched(d)'
      <4>1. \A r \in rows' : r.code # d
        <5>1. d # c /\ \A r \in rows : r.code # d
          BY <3>2, <3>3, <3>4 DEF Untouched
        <5>2. QED
          BY <1>2, <1>3, <5>1
      <4>2. /\ d \notin dead'
            /\ compared'[d] = 0 /\ accepted'[d] = 0
            /\ \A v \in Verifiers : check'[v].at = "accept" => check'[v].code # d
        BY <1>5, <3>3, <3>4 DEF Untouched, CommitSend
      <4>3. QED
        BY <4>1, <4>2 DEF Untouched
    <3>5. QED
      BY <3>1, <3>3, <3>4, <2>2 DEF CodesAreFresh, CommitSend
  <2>3. QED
    BY <2>1, <2>2 DEF CodesAreFresh
<1>9. RowsAreDistinct'
  <2>1. \A r \in rows : r.code # c
    BY <1>1 DEF Untouched
  <2>2. \A r, q \in rows' : r.code = q.code => r = q
    BY <1>2, <1>3, <2>1 DEF RowsAreDistinct
  <2>3. \A r \in rest : r.id < i
    <3>1. ASSUME NEW r \in rest
          PROVE  r.id < i
      BY <1>2, <1>3 DEF NewId, RowsAreDistinct, TypeOK, RowType
    <3>2. QED
      BY <3>1
  <2>4. \A r \in rest : r.id <= i /\ r.id # i
    <3>1. \A r \in rest : r.id \in Nat
      BY <1>3 DEF TypeOK, RowType
    <3>2. QED
      BY <2>3, <3>1
  <2>5. \A r, q \in rows' : r.id = q.id => r = q
    BY <1>2, <1>3, <2>4 DEF RowsAreDistinct
  <2>6. \A r \in rows' : r.id <= i
    BY <1>2, <2>4
  <2>7. QED
    BY <1>2, <2>2, <2>5, <2>6 DEF RowsAreDistinct
<1>10. AcceptsItsRow'
  BY <1>1, <1>2, <1>3 DEF AcceptsItsRow, Untouched, CommitSend
<1>11. QED
  BY <1>6, <1>8, <1>9, <1>10

\* A step of a verification keeps what was drawn and the sends in progress: it
\* is enough that what was untouched still is.
LEMMA FreshByUntouched ==
    ASSUME CodeInv, UNCHANGED <<drawn, send>>,
           \A c \in Codes : Untouched(c) => Untouched(c)'
    PROVE  CodesAreFresh'
<1>1. \A s \in Senders : send[s].at = "commit" => send[s].code \in Codes
  BY OtpAssumption DEF CodeInv, CodesAreFresh, TypeOK, Codes
<1>2. QED
  BY <1>1 DEF CodeInv, CodesAreFresh

\* The record of a verification is replaced as a whole or in one place.
LEMMA OthersWait ==
    ASSUME CodeInv, NEW v \in Verifiers, NEW rec,
           check' = [check EXCEPT ![v] = rec]
    PROVE  /\ check'[v] = rec
           /\ \A u \in Verifiers : u # v => check'[u] = check[u]
           /\ rec \in CheckType => check' \in [Verifiers -> CheckType]
BY DEF CodeInv, TypeOK

LEMMA IdleCheckTyped == IdleCheck \in CheckType /\ IdleCheck.at = "idle"
BY DEF IdleCheck, CheckType, WrongCode, NoCode

LEMMA CodeInvLookUp ==
    ASSUME CodeInv, NEW v \in Verifiers, NEW e \in Emails, NEW c \in 1..drawn \cup {WrongCode},
           LookUp(v, e, c)
    PROVE  CodeInv'
<1>1. PICK r \in RowsOf(e) :
        check' = [check EXCEPT ![v] =
            [at |-> IF clock > r.expires THEN "discard" ELSE "bump", input |-> c,
             id |-> r.id, attempts |-> r.attempts, code |-> NoCode, deadBefore |-> dead]]
  BY DEF LookUp
<1> DEFINE rec == [at |-> IF clock > r.expires THEN "discard" ELSE "bump", input |-> c,
                   id |-> r.id, attempts |-> r.attempts, code |-> NoCode, deadBefore |-> dead]
<1>2. rec \in CheckType /\ rec.at # "accept"
  BY OtpAssumption DEF CodeInv, TypeOK, CheckType, RowsOf, RowType, Codes
<1> HIDE DEF rec
<1>3. /\ check'[v] = rec
      /\ \A u \in Verifiers : u # v => check'[u] = check[u]
      /\ check' \in [Verifiers -> CheckType]
  BY <1>1, <1>2, OthersWait DEF rec
<1>4. TypeOK'
  BY <1>3 DEF LookUp, CodeInv, TypeOK
<1>5. CodesAreFresh'
  <2>1. \A d \in Codes : Untouched(d) => Untouched(d)'
    BY <1>2, <1>3 DEF LookUp, Untouched
  <2>2. QED
    BY <2>1, FreshByUntouched DEF LookUp
<1>6. RowsAreDistinct' /\ AcceptsItsRow'
  BY <1>2, <1>3 DEF LookUp, CodeInv, RowsAreDistinct, AcceptsItsRow
<1>7. QED
  BY <1>4, <1>5, <1>6 DEF CodeInv

\* The UPDATE of attempts keeps the ids and the codes of the rows.
LEMMA BumpedRows ==
    ASSUME CodeInv, NEW v \in Verifiers, BumpAttempts(v)
    PROVE  /\ rows' \subseteq RowType
           /\ \A q \in rows' : \E r \in rows :
                 /\ q.id = r.id /\ q.code = r.code
                 /\ r.id # check[v].id => q = r
                 /\ q = r \/ q = [r EXCEPT !.attempts = check[v].attempts + 1]
           /\ \A q \in rows' : RowById(check[v].id) # {} /\ q.id = check[v].id
                               => q.attempts = check[v].attempts + 1
           /\ \A p, q \in rows' : p.code = q.code \/ p.id = q.id => p = q
<1>1. rows \subseteq RowType /\ check[v].attempts + 1 \in Nat
  BY DEF CodeInv, TypeOK, CheckType
<1>2. CASE RowById(check[v].id) = {}
  BY <1>1, <1>2 DEF BumpAttempts, CodeInv, RowsAreDistinct
<1>3. CASE RowById(check[v].id) # {}
  <2>1. rows' = {IF r.id = check[v].id
                 THEN [r EXCEPT !.attempts = check[v].attempts + 1] ELSE r : r \in rows}
    BY <1>3 DEF BumpAttempts, MoreAttempts
  <2>2. ASSUME NEW q \in rows'
        PROVE  \E r \in rows :
                  /\ q \in RowType /\ q.id = r.id /\ q.code = r.code
                  /\ r.id # check[v].id => q = r
                  /\ r.id = check[v].id => q = [r EXCEPT !.attempts = check[v].attempts + 1]
                  /\ r.id = check[v].id => q.attempts = check[v].attempts + 1
    <3>1. PICK r \in rows : q = IF r.id = check[v].id
                                THEN [r EXCEPT !.attempts = check[v].attempts + 1] ELSE r
      BY <2>1
    <3>2. r \in RowType
      BY <1>1
    <3>3. QED
      BY <1>1, <3>1, <3>2 DEF RowType
  <2>3. \A q \in rows' : q \in RowType /\ (q.id = check[v].id => q.attempts = check[v].attempts + 1)
    BY <2>2
  <2>4. ASSUME NEW p \in rows', NEW q \in rows', p.code = q.code \/ p.id = q.id
        PROVE  p = q
    <3>1. PICK r \in rows : /\ p.code = r.code /\ p.id = r.id
                            /\ r.id # check[v].id => p = r
                            /\ r.id = check[v].id => p = [r EXCEPT !.attempts = check[v].attempts + 1]
      BY <2>2
    <3>2. PICK t \in rows : /\ q.code = t.code /\ q.id = t.id
                            /\ t.id # check[v].id => q = t
                            /\ t.id = check[v].id => q = [t EXCEPT !.attempts = check[v].attempts + 1]
      BY <2>2
    <3>3. r = t
      BY <2>4, <3>1, <3>2 DEF CodeInv, RowsAreDistinct
    <3>4. QED
      BY <3>1, <3>2, <3>3
  <2>5. \A q \in rows' : \E r \in rows :
                 /\ q.id = r.id /\ q.code = r.code
                 /\ r.id # check[v].id => q = r
                 /\ q = r \/ q = [r EXCEPT !.attempts = check[v].attempts + 1]
    BY <2>2
  <2>6. QED
    BY <2>3, <2>4, <2>5
<1>4. QED
  BY <1>2, <1>3

LEMMA CodeInvBump ==
    ASSUME CodeInv, NEW v \in Verifiers, BumpAttempts(v)
    PROVE  CodeInv'
<1>1. /\ check' \in [Verifiers -> CheckType]
      /\ check'[v].at # "accept"
      /\ \A u \in Verifiers : u # v => check'[u] = check[u]
  <2>1. CASE RowById(check[v].id) = {}
    BY <2>1, IdleCheckTyped, OthersWait DEF BumpAttempts, Reply
  <2>2. CASE RowById(check[v].id) # {}
    BY <2>2 DEF BumpAttempts, CodeInv, TypeOK, CheckType
  <2>3. QED
    BY <2>1, <2>2
<1>2. TypeOK'
  BY <1>1, BumpedRows DEF BumpAttempts, CodeInv, TypeOK
<1>3. CodesAreFresh'
  <2>1. ASSUME NEW c, Untouched(c)
        PROVE  Untouched(c)'
    <3>1. \A r \in rows' : r.code # c
      BY <2>1, BumpedRows DEF Untouched
    <3>2. \A u \in Verifiers : check'[u].at = "accept" => check'[u].code # c
      BY <1>1, <2>1 DEF Untouched
    <3>3. QED
      BY <2>1, <3>1, <3>2 DEF BumpAttempts, Untouched
  <2>2. QED
    BY <2>1, FreshByUntouched DEF BumpAttempts
<1>4. RowsAreDistinct'
  BY BumpedRows DEF BumpAttempts, CodeInv, RowsAreDistinct
<1>5. AcceptsItsRow'
  BY <1>1, BumpedRows DEF CodeInv, AcceptsItsRow
<1>6. QED
  BY <1>2, <1>3, <1>4, <1>5 DEF CodeInv

\* What a comparison does: the submission is counted against one row, and the
\* verification accepts that row's code, deletes the row, or answers.
LEMMA CompareCases ==
    ASSUME CodeInv, NEW v \in Verifiers, Compare(v)
    PROVE  /\ check' \in [Verifiers -> CheckType]
           /\ check'[v].at \notin {"bump", "compare"}
           /\ check'[v].deadBefore \subseteq check[v].deadBefore
           /\ check'[v].id \in {0, check[v].id}
           /\ \A u \in Verifiers : u # v => check'[u] = check[u]
           /\ \/ compared' = compared /\ check'[v].at # "accept"
              \/ \E r \in rows : /\ r.id = check[v].id
                                 /\ r.attempts <= MaxAttempts
                                 /\ r.code \in Codes
                                 /\ compared' = [compared EXCEPT ![r.code] = @ + 1]
                                 /\ check'[v].at = "accept" => /\ check'[v].code = r.code
                                                               /\ check'[v].id = r.id
<1> USE DEF CodeInv, TypeOK
<1>1. CASE check' = [check EXCEPT ![v] = IdleCheck] /\ UNCHANGED compared
  BY <1>1, IdleCheckTyped, OthersWait DEF IdleCheck
<1>2. CASE check' = [check EXCEPT ![v].at = "discard"] /\ UNCHANGED compared
  BY <1>2 DEF CheckType
<1>3. ASSUME NEW r \in RowById(check[v].id),
             r.attempts <= MaxAttempts,
             compared' = [compared EXCEPT ![r.code] = @ + 1],
             check' = IF check[v].input = r.code
                      THEN [check EXCEPT ![v].at = "accept", ![v].code = r.code]
                      ELSE IF MaxAttempts - r.attempts <= 0
                      THEN [check EXCEPT ![v].at = "discard"]
                      ELSE [check EXCEPT ![v] = IdleCheck]
      PROVE  /\ check' \in [Verifiers -> CheckType]
             /\ check'[v].at \notin {"bump", "compare"}
             /\ check'[v].deadBefore \subseteq check[v].deadBefore
             /\ check'[v].id \in {0, check[v].id}
             /\ \A u \in Verifiers : u # v => check'[u] = check[u]
             /\ check'[v].at = "accept" => check'[v].code = r.code /\ check'[v].id = check[v].id
  <2>1. r \in rows /\ r.code \in Codes
    BY <1>3 DEF RowById, RowType
  <2>2. CASE check' = [check EXCEPT ![v].at = "accept", ![v].code = r.code]
    BY <2>1, <2>2 DEF CheckType
  <2>3. CASE check' = [check EXCEPT ![v].at = "discard"]
    BY <2>3 DEF CheckType
  <2>4. CASE check' = [check EXCEPT ![v] = IdleCheck]
    BY <2>4, IdleCheckTyped, OthersWait DEF IdleCheck
  <2>5. QED
    BY <1>3, <2>2, <2>3, <2>4
<1>4. \A r \in RowById(check[v].id) : r \in rows /\ r.id = check[v].id /\ r.code \in Codes
  BY DEF RowById, RowType
<1>5. CASE \E r \in RowById(check[v].id) :
             /\ r.attempts <= MaxAttempts
             /\ compared' = [compared EXCEPT ![r.code] = @ + 1]
             /\ check' = IF check[v].input = r.code
                         THEN [check EXCEPT ![v].at = "accept", ![v].code = r.code]
                         ELSE IF MaxAttempts - r.attempts <= 0
                         THEN [check EXCEPT ![v].at = "discard"]
                         ELSE [check EXCEPT ![v] = IdleCheck]
  BY <1>3, <1>4, <1>5
<1>6. QED
  BY <1>1, <1>2, <1>5 DEF Compare, Reply

LEMMA CodeInvCompare ==
    ASSUME CodeInv, NEW v \in Verifiers, Compare(v)
    PROVE  CodeInv'
<1>1. check' \in [Verifiers -> CheckType] /\ compared' \in [Codes -> Nat]
  BY CompareCases DEF CodeInv, TypeOK
<1>2. TypeOK'
  BY <1>1 DEF Compare, CodeInv, TypeOK
<1>3. CodesAreFresh'
  <2>1. ASSUME NEW c \in Codes, Untouched(c)
        PROVE  Untouched(c)'
    <3>1. \A r \in rows : r.code # c
      BY <2>1 DEF Untouched
    <3>2. compared'[c] = compared[c]
      BY <3>1, CompareCases DEF CodeInv, TypeOK
    <3>3. check'[v].at = "accept" => check'[v].code # c
      BY <3>1, CompareCases
    <3>4. \A u \in Verifiers : check'[u].at = "accept" => check'[u].code # c
      BY <2>1, <3>3, CompareCases DEF Untouched
    <3>5. QED
      BY <2>1, <3>2, <3>4 DEF Compare, Untouched
  <2>2. QED
    BY <2>1, FreshByUntouched DEF Compare
<1>4. RowsAreDistinct'
  BY DEF Compare, CodeInv, RowsAreDistinct
<1>5. AcceptsItsRow'
  <2>1. check'[v].at = "accept" =>
           /\ check'[v].code \in Codes
           /\ \A r \in rows : r.code = check'[v].code => r.id = check'[v].id
    BY CompareCases DEF CodeInv, RowsAreDistinct
  <2>2. rows' = rows
    BY DEF Compare
  <2>3. QED
    BY <2>1, <2>2, CompareCases DEF CodeInv, AcceptsItsRow
<1>6. QED
  BY <1>2, <1>3, <1>4, <1>5 DEF CodeInv

LEMMA CodeInvDiscard ==
    ASSUME CodeInv, NEW v \in Verifiers, Discard(v)
    PROVE  CodeInv'
<1>1. /\ check' \in [Verifiers -> CheckType]
      /\ check'[v].at = "idle"
      /\ \A u \in Verifiers : u # v => check'[u] = check[u]
  BY IdleCheckTyped, OthersWait DEF Discard, Reply
<1>2. rows' \subseteq rows /\ dead' \subseteq dead \cup {r.code : r \in rows}
  BY DEF Discard, Retire, CodesOf, RowById
<1>3. TypeOK'
  <2>1. dead' \subseteq Codes /\ rows' \subseteq RowType
    BY <1>2 DEF CodeInv, TypeOK, RowType
  <2>2. QED
    BY <1>1, <2>1 DEF Discard, CodeInv, TypeOK
<1>4. CodesAreFresh'
  <2>1. ASSUME NEW c, Untouched(c)
        PROVE  Untouched(c)'
    BY <1>1, <1>2, <2>1 DEF Discard, Untouched
  <2>2. QED
    BY <2>1, FreshByUntouched DEF Discard
<1>5. RowsAreDistinct' /\ AcceptsItsRow'
  BY <1>1, <1>2 DEF Discard, CodeInv, RowsAreDistinct, AcceptsItsRow
<1>6. QED
  BY <1>3, <1>4, <1>5 DEF CodeInv

LEMMA CodeInvAccept ==
    ASSUME CodeInv, NEW v \in Verifiers, Accept(v)
    PROVE  CodeInv'
<1>1. /\ check' \in [Verifiers -> CheckType]
      /\ check'[v].at = "idle"
      /\ \A u \in Verifiers : u # v => check'[u] = check[u]
  BY IdleCheckTyped, OthersWait DEF Accept, Reply
<1>2. /\ rows' \subseteq rows
      /\ check[v].at = "accept"
      /\ check[v].code \in Codes
      /\ dead' = dead \cup {check[v].code}
  BY DEF Accept, Retire, CodeInv, AcceptsItsRow
<1>3. TypeOK'
  <2>1. dead' \subseteq Codes /\ rows' \subseteq RowType /\ accepted' \in [Codes -> Nat]
    BY <1>2 DEF Accept, CodeInv, TypeOK
  <2>2. QED
    BY <1>1, <2>1 DEF Accept, CodeInv, TypeOK
<1>4. CodesAreFresh'
  <2>1. ASSUME NEW c \in Codes, Untouched(c)
        PROVE  Untouched(c)'
    <3>1. c # check[v].code
      BY <1>2, <2>1 DEF Untouched
    <3>2. c \notin dead' /\ accepted'[c] = 0
      BY <1>2, <2>1, <3>1 DEF Accept, Untouched, CodeInv, TypeOK
    <3>3. QED
      BY <1>1, <1>2, <2>1, <3>2 DEF Accept, Untouched
  <2>2. QED
    BY <2>1, FreshByUntouched DEF Accept
<1>5. RowsAreDistinct' /\ AcceptsItsRow'
  BY <1>1, <1>2 DEF Accept, CodeInv, RowsAreDistinct, AcceptsItsRow
<1>6. QED
  BY <1>3, <1>4, <1>5 DEF CodeInv

\* The types, and what the codes are, for any number of addresses and threads.
THEOREM CodesMean == Spec => []CodeInv
<1>1. CodeInv /\ [Next]_vars => CodeInv'
  <2> SUFFICES ASSUME CodeInv, [Next]_vars
               PROVE  CodeInv'
    OBVIOUS
  <2>1. CASE Tick
    BY <2>1, OtpAssumption DEF Tick, CodeInv, TypeOK, CodesAreFresh, RowsAreDistinct,
       AcceptsItsRow, Untouched
  <2>2. CASE UNCHANGED vars
    BY <2>2 DEF vars, CodeInv, TypeOK, CodesAreFresh, RowsAreDistinct, AcceptsItsRow, Untouched
  <2>3. QED
    BY <2>1, <2>2, CodeInvBeginSend, CodeInvCommitSend, CodeInvLookUp, CodeInvBump,
       CodeInvCompare, CodeInvDiscard, CodeInvAccept DEF Next, SendStep, CheckStep
<1>2. QED
  BY <1>1, CodeInvInit, PTL DEF Spec

\* Every variable of the store has its type.
THEOREM TypeCorrect == Spec => []TypeOK
BY CodesMean, PTL DEF CodeInv

-----------------------------------------------------------------------------
(* One code, one login *)

\* An accepting verification more needs one that began to accept.
LEMMA AcceptorsCounted ==
    ASSUME NEW c
    PROVE  /\ IsFiniteSet(Acceptors(c))
           /\ Cardinality(Acceptors(c)) \in 0..Cardinality(Verifiers)
           /\ Cardinality(Verifiers) \in Nat
<1>1. Acceptors(c) \in SUBSET Verifiers
  BY DEF Acceptors
<1>2. QED
  BY <1>1, OtpAssumption, FS_Subset, FS_CardinalityType

\* A code that no verification newly accepts, and none more was accepted of,
\* keeps its bound.
LEMMA FewerAcceptors ==
    ASSUME NEW c, Acceptors(c)' \subseteq Acceptors(c)
    PROVE  /\ Cardinality(Acceptors(c)') \in Nat
           /\ Cardinality(Acceptors(c)') <= Cardinality(Acceptors(c))
BY AcceptorsCounted, FS_Subset, FS_CardinalityType

\* Steps that accept nothing, store no accepted code and keep the number of
\* verifications in progress.
LEMMA UseInvQuiet ==
    ASSUME CodeInv, UseInv, UNCHANGED <<accepted, overlapped>>,
           \A q \in rows' : accepted[q.code] = 0,
           \A u \in Verifiers : /\ check'[u].at # "idle" => check[u].at # "idle"
                                /\ check'[u].at = "accept" =>
                                      \/ check'[u].code = check[u].code /\ check[u].at = "accept"
                                      \/ \E r \in rows : r.code = check'[u].code
    PROVE  UseInv'
<1>1. ASSUME NEW c \in Codes
      PROVE  accepted'[c] + Cardinality(Acceptors(c)') <= Cardinality(Verifiers)
  <2>1. CASE accepted[c] = 0
    <3>1. Acceptors(c)' \in SUBSET Verifiers
      BY DEF Acceptors
    <3>2. Cardinality(Acceptors(c)') \in Nat /\ Cardinality(Acceptors(c)') <= Cardinality(Verifiers)
      BY <3>1, OtpAssumption, FS_Subset, FS_CardinalityType
    <3>3. QED
      BY <2>1, <3>2, AcceptorsCounted
  <2>2. CASE accepted[c] # 0
    <3>1. \A r \in rows : r.code # c
      BY <2>2 DEF UseInv, AcceptedIsGone
    <3>2. Acceptors(c)' \subseteq Acceptors(c)
      BY <3>1 DEF Acceptors
    <3>3. QED
      BY <3>2, FewerAcceptors, AcceptorsCounted DEF UseInv, AcceptedIsGone, CodeInv, TypeOK
  <2>3. QED
    BY <2>1, <2>2
<1>2. AcceptedIsGone'
  BY <1>1 DEF AcceptedIsGone
<1>3. OneAtATime'
  BY DEF UseInv, OneAtATime
<1>4. AcceptedOnce'
  BY DEF UseInv, AcceptedOnce, AcceptedIsGone
<1>5. QED
  BY <1>2, <1>3, <1>4 DEF UseInv

LEMMA UseInvLookUp ==
    ASSUME CodeInv, UseInv, NEW v \in Verifiers, NEW e \in Emails,
           NEW c \in 1..drawn \cup {WrongCode}, LookUp(v, e, c)
    PROVE  UseInv'
<1>1. /\ check[v].at = "idle"
      /\ check'[v].at # "accept"
      /\ \A u \in Verifiers : u # v => check'[u] = check[u]
      /\ UNCHANGED <<rows, accepted>>
  BY DEF LookUp, CodeInv, TypeOK
<1>2. ~overlapped' => ~overlapped /\ \A u \in Verifiers \ {v} : check[u].at = "idle"
  BY DEF LookUp
<1>3. ASSUME NEW d \in Codes
      PROVE  accepted'[d] + Cardinality(Acceptors(d)') <= Cardinality(Verifiers)
  <2>1. Acceptors(d)' \subseteq Acceptors(d)
    BY <1>1 DEF Acceptors
  <2>2. QED
    BY <1>1, <2>1, FewerAcceptors, AcceptorsCounted DEF UseInv, AcceptedIsGone, CodeInv, TypeOK
<1>4. AcceptedIsGone'
  <2>1. \A r \in rows' : accepted'[r.code] = 0
    BY <1>1 DEF UseInv, AcceptedIsGone
  <2>2. QED
    BY <1>3, <2>1 DEF AcceptedIsGone
<1>5. OneAtATime'
  BY <1>1, <1>2 DEF UseInv, OneAtATime
<1>6. AcceptedOnce'
  BY <1>1, <1>2 DEF UseInv, AcceptedOnce
<1>7. QED
  BY <1>4, <1>5, <1>6 DEF UseInv

LEMMA UseInvAccept ==
    ASSUME CodeInv, UseInv, NEW v \in Verifiers, Accept(v)
    PROVE  UseInv'
<1> DEFINE c == check[v].code
<1>1. /\ check[v].at = "accept"
      /\ c \in Codes
      /\ check'[v].at = "idle"
      /\ \A u \in Verifiers : u # v => check'[u] = check[u]
      /\ rows' = rows \ {r \in rows : r.id = check[v].id}
      /\ accepted' = [accepted EXCEPT ![c] = @ + 1]
      /\ UNCHANGED overlapped
  BY IdleCheckTyped, OthersWait DEF Accept, Reply, Deleted, RowById, CodeInv, AcceptsItsRow
<1>2. accepted[c] \in Nat /\ accepted'[c] = accepted[c] + 1
  BY <1>1 DEF CodeInv, TypeOK
<1>3. \A d \in Codes : d # c => accepted'[d] = accepted[d]
  BY <1>1 DEF CodeInv, TypeOK
<1>4. \A r \in rows' : r \in rows /\ r.code # c /\ r.code \in Codes
  BY <1>1 DEF CodeInv, AcceptsItsRow, TypeOK, RowType
<1>5. \A r \in rows' : accepted'[r.code] = 0
  BY <1>3, <1>4 DEF UseInv, AcceptedIsGone
<1>6. ASSUME NEW d \in Codes
      PROVE  accepted'[d] + Cardinality(Acceptors(d)') <= Cardinality(Verifiers)
  <2>1. CASE d = c
    <3>1. v \in Acceptors(d) /\ Acceptors(d)' = Acceptors(d) \ {v}
      BY <1>1, <2>1 DEF Acceptors
    <3>2. Cardinality(Acceptors(d)') = Cardinality(Acceptors(d)) - 1
      BY <3>1, AcceptorsCounted, FS_RemoveElement
    <3>3. QED
      BY <1>2, <2>1, <3>2, AcceptorsCounted DEF UseInv, AcceptedIsGone
  <2>2. CASE d # c
    <3>1. Acceptors(d)' \subseteq Acceptors(d)
      BY <1>1 DEF Acceptors
    <3>2. QED
      BY <1>3, <2>2, <3>1, FewerAcceptors, AcceptorsCounted DEF UseInv, AcceptedIsGone, CodeInv, TypeOK
  <2>3. QED
    BY <2>1, <2>2
<1>7. AcceptedIsGone'
  BY <1>5, <1>6 DEF AcceptedIsGone
<1>8. OneAtATime'
  BY <1>1 DEF UseInv, OneAtATime
<1>9. AcceptedOnce'
  <2> SUFFICES ASSUME ~overlapped'
               PROVE  /\ \A d \in Codes : accepted'[d] <= 1
                      /\ \A u \in Verifiers : check'[u].at # "accept"
    BY DEF AcceptedOnce
  <2>1. accepted[c] = 0 /\ \A d \in Codes : accepted[d] <= 1
    BY <1>1 DEF UseInv, AcceptedOnce
  <2>2. \A u \in Verifiers : u # v => check'[u].at # "accept"
    BY <1>1 DEF UseInv, OneAtATime
  <2>3. QED
    BY <1>1, <1>2, <1>3, <2>1, <2>2
<1>10. QED
  BY <1>7, <1>8, <1>9 DEF UseInv

\* The rows after a step that does not accept were not accepted before it.
LEMMA UseInvStep ==
    ASSUME CodeInv, UseInv, [Next]_vars
    PROVE  UseInv'
<1>1. CASE UNCHANGED vars \/ Tick \/ \E s \in Senders, e \in Emails : BeginSend(s, e)
  <2>1. UNCHANGED <<accepted, overlapped, rows, check>>
    BY <1>1 DEF vars, Tick, BeginSend
  <2>2. QED
    BY <2>1, UseInvQuiet DEF UseInv, AcceptedIsGone
<1>2. ASSUME NEW s \in Senders, CommitSend(s)
      PROVE  UseInv'
  <2>1. accepted[send[s].code] = 0
    BY <1>2 DEF CommitSend, CodeInv, CodesAreFresh, Untouched
  <2>2. \A q \in rows' : q \in rows \/ q.code = send[s].code
    BY <1>2 DEF CommitSend
  <2>3. QED
    BY <1>2, <2>1, <2>2, UseInvQuiet DEF UseInv, AcceptedIsGone, CommitSend
<1>3. ASSUME NEW v \in Verifiers, BumpAttempts(v)
      PROVE  UseInv'
  <2>1. \A q \in rows' : accepted[q.code] = 0
    BY <1>3, BumpedRows DEF UseInv, AcceptedIsGone
  <2>2. /\ check'[v].at # "accept"
        /\ check'[v].at # "idle" => check[v].at # "idle"
        /\ \A u \in Verifiers : u # v => check'[u] = check[u]
    <3>1. CASE RowById(check[v].id) = {}
      BY <1>3, <3>1, IdleCheckTyped, OthersWait DEF BumpAttempts, Reply
    <3>2. CASE RowById(check[v].id) # {}
      BY <1>3, <3>2 DEF BumpAttempts, CodeInv, TypeOK, CheckType
    <3>3. QED
      BY <3>1, <3>2
  <2>3. QED
    BY <1>3, <2>1, <2>2, UseInvQuiet DEF BumpAttempts
<1>4. ASSUME NEW v \in Verifiers, Compare(v)
      PROVE  UseInv'
  <2>1. /\ check'[v].at = "accept" => \E r \in rows : r.code = check'[v].code
        /\ check[v].at = "compare"
        /\ \A u \in Verifiers : u # v => check'[u] = check[u]
    BY <1>4, CompareCases DEF Compare
  <2>2. UNCHANGED <<accepted, overlapped, rows>>
    BY <1>4 DEF Compare
  <2>3. QED
    BY <2>1, <2>2, UseInvQuiet DEF UseInv, AcceptedIsGone
<1>5. ASSUME NEW v \in Verifiers, Discard(v)
      PROVE  UseInv'
  <2>1. /\ check'[v].at = "idle"
        /\ \A u \in Verifiers : u # v => check'[u] = check[u]
    BY <1>5, IdleCheckTyped, OthersWait DEF Discard, Reply
  <2>2. UNCHANGED <<accepted, overlapped>> /\ rows' \subseteq rows
    BY <1>5 DEF Discard
  <2>3. QED
    BY <2>1, <2>2, UseInvQuiet DEF UseInv, AcceptedIsGone
<1>6. QED
  BY <1>1, <1>2, <1>3, <1>4, <1>5, UseInvLookUp, UseInvAccept DEF Next, SendStep, CheckStep

LEMMA UseInvInit == Init => UseInv
<1>1. Init => \A c : Acceptors(c) = {}
  BY DEF Init, Acceptors, IdleCheck
<1>2. Cardinality({}) = 0 /\ Cardinality(Verifiers) \in Nat
  BY OtpAssumption, FS_EmptySet, FS_CardinalityType
<1>3. QED
  BY <1>1, <1>2 DEF Init, UseInv, AcceptedIsGone, OneAtATime, AcceptedOnce, IdleCheck

\* A code opens one login, or one for each verification thread when
\* verifications overlapped: on SQLite and on PostgreSQL alike.
THEOREM OneLogin == Spec => []UsedOnce
<1>1. Init => UseInv
  BY UseInvInit
<1>2. CodeInv /\ UseInv => UsedOnce
  <2> SUFFICES ASSUME CodeInv, UseInv, NEW c \in Codes
               PROVE  accepted[c] <= IF overlapped THEN Cardinality(Verifiers) ELSE 1
    BY DEF UsedOnce
  <2>1. accepted[c] \in Nat /\ accepted[c] + Cardinality(Acceptors(c)) <= Cardinality(Verifiers)
    BY DEF CodeInv, TypeOK, UseInv, AcceptedIsGone
  <2>2. QED
    BY <2>1, AcceptorsCounted DEF UseInv, AcceptedOnce
<1>3. QED
  BY <1>1, <1>2, UseInvStep, CodesMean, PTL DEF Spec

-----------------------------------------------------------------------------
(* Dead codes and guesses *)

\* A verification that accepts did not know the code to be dead when it began,
\* provided that writing transactions do not overlap.
THEOREM DeadStaysDead ==
    ASSUME SerialWriters
    PROVE  Spec => []NoDeadCode
<1>1. Init => DeadInv
  BY DEF Init, DeadInv, NoDeadCode, IdleCheck
<1>2. CodeInv /\ DeadInv /\ [Next]_vars => DeadInv'
  <2> SUFFICES ASSUME CodeInv, DeadInv, [Next]_vars
               PROVE  DeadInv'
    OBVIOUS
  <2>1. CASE UNCHANGED vars \/ Tick \/ \E s \in Senders, e \in Emails : BeginSend(s, e)
    <3>1. UNCHANGED <<rows, dead, check>>
      BY <2>1 DEF vars, Tick, BeginSend
    <3>2. QED
      BY <3>1 DEF DeadInv, NoDeadCode
  <2>2. ASSUME NEW s \in Senders, CommitSend(s)
        PROVE  DeadInv'
    <3>1. /\ send[s].at = "commit"
          /\ dead' = dead \cup {r.code : r \in RowsOf(send[s].email)}
          /\ \A q \in rows' : q.code = send[s].code \/ q \in rows \ RowsOf(send[s].email)
          /\ UNCHANGED check
      BY <2>2 DEF CommitSend, Retire, CodesOf, Replaced
    <3>2. send[s].code \notin dead'
      BY <3>1 DEF CodeInv, CodesAreFresh, Untouched, RowsOf
    <3>3. \A q \in rows' : q.code \notin dead'
      BY <3>1, <3>2 DEF DeadInv, CodeInv, RowsAreDistinct, RowsOf
    <3>4. QED
      BY <3>1, <3>3 DEF DeadInv, NoDeadCode
  <2>3. ASSUME NEW v \in Verifiers, NEW e \in Emails, NEW c \in 1..drawn \cup {WrongCode},
               LookUp(v, e, c)
        PROVE  DeadInv'
    <3>1. /\ check'[v].at # "accept"
          /\ check'[v].deadBefore = dead
          /\ \A u \in Verifiers : u # v => check'[u] = check[u]
          /\ UNCHANGED <<rows, dead>>
      BY <2>3 DEF LookUp, CodeInv, TypeOK
    <3>2. QED
      BY <3>1 DEF DeadInv, NoDeadCode
  <2>4. ASSUME NEW v \in Verifiers, BumpAttempts(v)
        PROVE  DeadInv'
    <3>1. /\ check'[v].at # "accept"
          /\ check'[v].deadBefore \subseteq check[v].deadBefore
          /\ \A u \in Verifiers : u # v => check'[u] = check[u]
          /\ UNCHANGED dead
      <4>1. CASE RowById(check[v].id) = {}
        BY <2>4, <4>1, IdleCheckTyped, OthersWait DEF BumpAttempts, Reply, IdleCheck
      <4>2. CASE RowById(check[v].id) # {}
        BY <2>4, <4>2 DEF BumpAttempts, CodeInv, TypeOK, CheckType
      <4>3. QED
        BY <4>1, <4>2
    <3>2. \A q \in rows' : q.code \notin dead'
      BY <2>4, <3>1, BumpedRows DEF DeadInv
    <3>3. QED
      BY <3>1, <3>2 DEF DeadInv, NoDeadCode
  <2>5. ASSUME NEW v \in Verifiers, Compare(v)
        PROVE  DeadInv'
    <3>1. UNCHANGED <<rows, dead>>
      BY <2>5 DEF Compare
    <3>2. check'[v].at = "accept" => check'[v].code \notin check'[v].deadBefore
      BY <2>5, CompareCases DEF DeadInv
    <3>3. QED
      BY <2>5, <3>1, <3>2, CompareCases DEF DeadInv, NoDeadCode
  <2>6. ASSUME NEW v \in Verifiers, Discard(v)
        PROVE  DeadInv'
    <3>1. /\ check'[v].at = "idle"
          /\ check'[v].deadBefore = {}
          /\ \A u \in Verifiers : u # v => check'[u] = check[u]
      BY <2>6, IdleCheckTyped, OthersWait DEF Discard, Reply, IdleCheck
    <3>2. /\ rows' = rows \ RowById(check[v].id)
          /\ dead' = dead \cup {r.code : r \in RowById(check[v].id)}
      BY <2>6 DEF Discard, Retire, CodesOf, Deleted
    <3>3. \A q \in rows' : q.code \notin dead'
      BY <3>2 DEF DeadInv, CodeInv, RowsAreDistinct, RowById
    <3>4. QED
      BY <3>1, <3>2, <3>3 DEF DeadInv, NoDeadCode
  <2>7. ASSUME NEW v \in Verifiers, Accept(v)
        PROVE  DeadInv'
    <3>1. /\ check'[v].at = "idle"
          /\ check'[v].deadBefore = {}
          /\ \A u \in Verifiers : u # v => check'[u] = check[u]
      BY <2>7, IdleCheckTyped, OthersWait DEF Accept, Reply, IdleCheck
    <3>2. /\ check[v].at = "accept"
          /\ rows' = rows \ RowById(check[v].id)
          /\ dead' = dead \cup {check[v].code}
      BY <2>7 DEF Accept, Retire, Deleted
    <3>3. \A q \in rows' : q.code \notin dead'
      BY <3>2 DEF DeadInv, CodeInv, AcceptsItsRow, RowById
    <3>4. QED
      BY <3>1, <3>2, <3>3 DEF DeadInv, NoDeadCode
  <2>8. QED
    BY <2>1, <2>2, <2>3, <2>4, <2>5, <2>6, <2>7 DEF Next, SendStep, CheckStep
<1>3. DeadInv => NoDeadCode
  BY DEF DeadInv
<1>4. QED
  BY <1>1, <1>2, <1>3, CodesMean, PTL DEF Spec

LEMMA SlackType == Slack \in 0..1
BY DEF Slack

\* The numbers the count is about.
LEMMA CountTypes ==
    ASSUME CodeInv
    PROVE  /\ \A r \in rows : /\ r.id \in Nat \ {0} /\ r.attempts \in Nat /\ r.code \in Codes
                              /\ compared[r.code] \in Nat
           /\ \A v \in Verifiers : check[v].id \in Nat /\ check[v].attempts \in Nat
           /\ \A c \in Codes : compared[c] \in Nat
           /\ lastId \in Nat
BY DEF CodeInv, TypeOK, RowType, CheckType

LEMMA IdInvStep ==
    ASSUME CodeInv, IdInv, [Next]_vars
    PROVE  IdInv'
<1> SUFFICES ASSUME ~ReusesIds
             PROVE  \A v \in Verifiers : check'[v].id <= lastId'
  BY DEF IdInv
<1>1. \A v \in Verifiers : check[v].id \in Nat /\ check[v].id <= lastId
  BY CountTypes DEF IdInv
<1>2. ASSUME lastId' = lastId,
             NEW v \in Verifiers, \A u \in Verifiers : u # v => check'[u] = check[u],
             check'[v].id <= lastId
      PROVE  \A u \in Verifiers : check'[u].id <= lastId'
  BY <1>1, <1>2
<1>3. IdleCheck.id <= lastId
  BY CountTypes DEF IdleCheck
<1>4. CASE UNCHANGED vars \/ Tick \/ \E s \in Senders, e \in Emails : BeginSend(s, e)
  BY <1>1, <1>4 DEF vars, Tick, BeginSend
<1>5. ASSUME NEW s \in Senders, CommitSend(s)
      PROVE  \A v \in Verifiers : check'[v].id <= lastId'
  <2>1. lastId' = lastId + 1 /\ check' = check
    BY <1>5 DEF CommitSend, NewId
  <2>2. QED
    BY <1>1, <2>1, CountTypes
<1>6. ASSUME NEW v \in Verifiers, NEW e \in Emails, NEW c \in 1..drawn \cup {WrongCode},
             LookUp(v, e, c)
      PROVE  \A u \in Verifiers : check'[u].id <= lastId'
  <2>1. /\ check'[v].id \in {r.id : r \in rows}
        /\ \A u \in Verifiers : u # v => check'[u] = check[u]
        /\ lastId' = lastId
    BY <1>6 DEF LookUp, RowsOf, CodeInv, TypeOK
  <2>2. QED
    BY <1>2, <2>1 DEF CodeInv, RowsAreDistinct
<1>7. ASSUME NEW v \in Verifiers, CheckStep(v)
      PROVE  \A u \in Verifiers : check'[u].id <= lastId'
  <2>1. lastId' = lastId
    BY <1>7 DEF CheckStep, BumpAttempts, Compare, Discard, Accept
  <2>2. /\ \A u \in Verifiers : u # v => check'[u] = check[u]
        /\ check'[v].id \in {0, check[v].id}
    <3>1. CASE Compare(v)
      BY <3>1, CompareCases
    <3>2. CASE Reply(v)
      BY <3>2, IdleCheckTyped, OthersWait DEF Reply, IdleCheck
    <3>3. CASE check' = [check EXCEPT ![v].at = "compare"]
      BY <3>3 DEF CodeInv, TypeOK, CheckType
    <3>4. QED
      BY <1>7, <3>1, <3>2, <3>3 DEF CheckStep, BumpAttempts, Discard, Accept
  <2>3. QED
    BY <1>1, <1>2, <2>1, <2>2, CountTypes
<1>8. QED
  BY <1>4, <1>5, <1>6, <1>7 DEF Next, SendStep

LEMMA CountInvCommitSend ==
    ASSUME CodeInv, IdInv, CountInv, NEW s \in Senders, CommitSend(s)
    PROVE  CountInv'
<1> SUFFICES ASSUME ~overlapped'
             PROVE  /\ \A r \in rows' : compared'[r.code] <= r.attempts + Slack
                    /\ \A r \in rows', v \in Verifiers : check'[v].id = r.id =>
                          /\ check'[v].at = "bump" => compared'[r.code] <= check'[v].attempts + Slack
                          /\ check'[v].at = "compare" => compared'[r.code] + 1 <= r.attempts + Slack
                    /\ \A c \in Codes : compared'[c] <= MaxAttempts + Slack
  BY DEF CountInv, Slack
<1>1. UNCHANGED <<overlapped, compared, check>>
  BY DEF CommitSend
<1>2. compared[send[s].code] = 0
  BY DEF CommitSend, CodeInv, CodesAreFresh, Untouched
<1>3. PICK i \in 1..lastId + 1 :
         /\ NewId(rows \ Replaced(s), i)
         /\ rows' = (rows \ Replaced(s))
               \cup {[id |-> i, email |-> send[s].email, code |-> send[s].code,
                      attempts |-> 0, expires |-> send[s].expires, created |-> stored + 1]}
  BY DEF CommitSend
<1> DEFINE new == [id |-> i, email |-> send[s].email, code |-> send[s].code,
                   attempts |-> 0, expires |-> send[s].expires, created |-> stored + 1]
<1>4. /\ rows' \subseteq rows \cup {new}
      /\ new.code = send[s].code
      /\ new.attempts = 0
      /\ ReusesIds \/ new.id = lastId + 1
  BY <1>3 DEF NewId
<1> HIDE DEF new
<1>5. \A v \in Verifiers : ReusesIds \/ check[v].id # new.id
  BY <1>4, CountTypes DEF IdInv
<1>6. ReusesIds => Slack = 1
  BY DEF Slack
<1>7. /\ compared[new.code] <= new.attempts + Slack
      /\ \A v \in Verifiers : check[v].id = new.id =>
            /\ compared[new.code] <= check[v].attempts + Slack
            /\ compared[new.code] + 1 <= new.attempts + Slack
  BY <1>2, <1>4, <1>5, <1>6, SlackType, CountTypes
<1>8. QED
  BY <1>1, <1>4, <1>7 DEF CountInv

LEMMA CountInvLookUp ==
    ASSUME CodeInv, CountInv, NEW v \in Verifiers, NEW e \in Emails,
           NEW c \in 1..drawn \cup {WrongCode}, LookUp(v, e, c)
    PROVE  CountInv'
<1>1. PICK r \in rows : check' = [check EXCEPT ![v] =
            [at |-> IF clock > r.expires THEN "discard" ELSE "bump", input |-> c,
             id |-> r.id, attempts |-> r.attempts, code |-> NoCode, deadBefore |-> dead]]
  BY DEF LookUp, RowsOf
<1>2. /\ check'[v].id = r.id
      /\ check'[v].attempts = r.attempts
      /\ check'[v].at # "compare"
      /\ \A u \in Verifiers : u # v => check'[u] = check[u]
  BY <1>1 DEF CodeInv, TypeOK
<1>3. /\ UNCHANGED <<rows, compared>>
      /\ ~overlapped' => ~overlapped
  BY DEF LookUp
<1>4. \A q \in rows : q.id = r.id => q = r
  BY DEF CodeInv, RowsAreDistinct
<1>5. QED
  BY <1>2, <1>3, <1>4 DEF CountInv, Slack

LEMMA CountInvBump ==
    ASSUME CodeInv, UseInv, CountInv, NEW v \in Verifiers, BumpAttempts(v)
    PROVE  CountInv'
<1>1. UNCHANGED <<overlapped, compared>> /\ check[v].at = "bump"
  BY DEF BumpAttempts
<1>2. CASE RowById(check[v].id) = {}
  <2>1. rows' = rows
    BY <1>2 DEF BumpAttempts
  <2>2. /\ check'[v].at = "idle"
        /\ \A u \in Verifiers : u # v => check'[u] = check[u]
    BY <1>2, IdleCheckTyped, OthersWait DEF BumpAttempts, Reply
  <2>3. QED
    BY <1>1, <2>1, <2>2 DEF CountInv, Slack
<1>3. CASE RowById(check[v].id) # {}
  <2>1. /\ check'[v].at = "compare"
        /\ check'[v].id = check[v].id
        /\ \A u \in Verifiers : u # v => check'[u] = check[u]
    BY <1>3 DEF BumpAttempts, CodeInv, TypeOK, CheckType
  <2> SUFFICES ASSUME ~overlapped
               PROVE  /\ \A r \in rows' : compared[r.code] <= r.attempts + Slack
                      /\ \A r \in rows', u \in Verifiers : check'[u].id = r.id =>
                            /\ check'[u].at = "bump" => compared[r.code] <= check'[u].attempts + Slack
                            /\ check'[u].at = "compare" => compared[r.code] + 1 <= r.attempts + Slack
                      /\ \A c \in Codes : compared[c] <= MaxAttempts + Slack
    BY <1>1 DEF CountInv, Slack
  <2>2. \A u \in Verifiers : u # v => check'[u].at = "idle"
    BY <1>1, <2>1 DEF UseInv, OneAtATime
  <2>3. ASSUME NEW q \in rows'
        PROVE  /\ compared[q.code] <= q.attempts + Slack
               /\ q.id = check[v].id => compared[q.code] + 1 <= q.attempts + Slack
    <3>1. PICK r \in rows : /\ q.id = r.id /\ q.code = r.code
                            /\ r.id # check[v].id => q = r
      BY BumpedRows
    <3>2. q.id = check[v].id => q.attempts = check[v].attempts + 1
      BY <1>3, BumpedRows
    <3>3. /\ compared[r.code] \in Nat /\ check[v].attempts \in Nat
          /\ compared[r.code] <= r.attempts + Slack
          /\ r.id = check[v].id => compared[r.code] <= check[v].attempts + Slack
      BY <1>1, CountTypes DEF CountInv
    <3>4. CASE q.id = check[v].id
      BY <3>1, <3>2, <3>3, <3>4, SlackType
    <3>5. QED
      BY <3>1, <3>3, <3>4
  <2>4. QED
    BY <2>1, <2>2, <2>3 DEF CountInv
<1>4. QED
  BY <1>2, <1>3

LEMMA CountInvCompare ==
    ASSUME CodeInv, UseInv, CountInv, NEW v \in Verifiers, Compare(v)
    PROVE  CountInv'
<1>1. UNCHANGED <<overlapped, rows>> /\ check[v].at = "compare"
  BY DEF Compare
<1> SUFFICES ASSUME ~overlapped
             PROVE  /\ \A r \in rows : compared'[r.code] <= r.attempts + Slack
                    /\ \A u \in Verifiers : check'[u].at \notin {"bump", "compare"}
                    /\ \A c \in Codes : compared'[c] <= MaxAttempts + Slack
  BY <1>1 DEF CountInv, Slack
<1>2. \A u \in Verifiers : check'[u].at \notin {"bump", "compare"}
  BY <1>1, CompareCases DEF UseInv, OneAtATime
<1>3. CASE compared' = compared
  BY <1>2, <1>3 DEF CountInv
<1>4. ASSUME NEW r \in rows, r.id = check[v].id, r.attempts <= MaxAttempts, r.code \in Codes,
             compared' = [compared EXCEPT ![r.code] = @ + 1]
      PROVE  /\ \A q \in rows : compared'[q.code] <= q.attempts + Slack
             /\ \A c \in Codes : compared'[c] <= MaxAttempts + Slack
  <2>1. /\ compared[r.code] + 1 <= r.attempts + Slack
        /\ compared'[r.code] = compared[r.code] + 1
        /\ \A c \in Codes : c # r.code => compared'[c] = compared[c]
    BY <1>1, <1>4 DEF CountInv, CodeInv, TypeOK
  <2>2. compared'[r.code] <= MaxAttempts + Slack
    BY <1>4, <2>1, CountTypes, SlackType, OtpAssumption
  <2>3. \A q \in rows : q.code = r.code => q = r
    BY DEF CodeInv, RowsAreDistinct
  <2>4. \A q \in rows : compared'[q.code] <= q.attempts + Slack
    BY <2>1, <2>3, CountTypes DEF CountInv
  <2>5. QED
    BY <2>1, <2>2, <2>4 DEF CountInv
<1>5. QED
  BY <1>2, <1>3, <1>4, CompareCases

LEMMA CountInvStep ==
    ASSUME CodeInv, UseInv, IdInv, CountInv, [Next]_vars
    PROVE  CountInv'
<1>1. CASE UNCHANGED vars \/ Tick \/ \E s \in Senders, e \in Emails : BeginSend(s, e)
  <2>1. UNCHANGED <<rows, check, compared, overlapped>>
    BY <1>1 DEF vars, Tick, BeginSend
  <2>2. QED
    BY <2>1 DEF CountInv, Slack
<1>2. ASSUME NEW v \in Verifiers, Discard(v) \/ Accept(v)
      PROVE  CountInv'
  <2>1. UNCHANGED <<compared, overlapped>> /\ rows' \subseteq rows
    BY <1>2 DEF Discard, Accept
  <2>2. /\ check'[v].at = "idle"
        /\ \A u \in Verifiers : u # v => check'[u] = check[u]
    BY <1>2, IdleCheckTyped, OthersWait DEF Discard, Accept, Reply
  <2>3. QED
    BY <2>1, <2>2 DEF CountInv, Slack
<1>3. QED
  BY <1>1, <1>2, CountInvCommitSend, CountInvLookUp, CountInvBump, CountInvCompare
     DEF Next, SendStep, CheckStep

\* While verifications do not overlap, a code is compared with at most
\* MaxAttempts submissions, one more where ids are reused, whatever the sends do.
THEOREM GuessesAreBounded == Spec => []GuessBound
<1>1. Init => UseInv /\ IdInv /\ CountInv
  <2>1. Init => UseInv
    BY UseInvInit
  <2>2. Init => IdInv
    BY DEF Init, IdInv, IdleCheck
  <2>3. Init => CountInv
    BY SlackType, OtpAssumption DEF Init, CountInv
  <2>4. QED
    BY <2>1, <2>2, <2>3
<1>2. CountInv => GuessBound
  BY OtpAssumption DEF CountInv, GuessBound, Slack
<1>3. QED
  BY <1>1, <1>2, UseInvStep, IdInvStep, CountInvStep, CodesMean, PTL DEF Spec
=============================================================================
