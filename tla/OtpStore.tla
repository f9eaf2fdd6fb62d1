------------------------------ MODULE OtpStore ------------------------------
(***************************************************************************)
(* The one-time codes of services/email_service.py (send_otp, verify_otp,  *)
(* clear_otp), statement by statement, as request threads execute them     *)
(* over the table otp_codes.                                               *)
(*                                                                         *)
(* SQLite (SerialWriters) runs one writing transaction at a time: the      *)
(* DELETE and the INSERT of send_otp see and replace the rows of the same  *)
(* instant.  On PostgreSQL (READ COMMITTED) the DELETE sees the rows       *)
(* committed when it starts, and another send may commit before this one.  *)
(* SQLite also hands the id of the last row out again once it is deleted   *)
(* (ReusesIds), and SQLAlchemy addresses rows by id.                       *)
(*                                                                         *)
(* Abstracted: codes are numbered in the order they are drawn (two draws   *)
(* never coincide), the hash of a code is the code.                        *)
(***************************************************************************)
EXTENDS Integers, FiniteSets

CONSTANTS
    Emails,         \* the addresses of the accounts
    Senders,        \* threads that execute send_otp (login, resend-otp)
    Verifiers,      \* threads that execute verify_otp
    MaxAttempts,    \* OTP_MAX_ATTEMPTS
    Lifetime,       \* OTP_EXPIRY_MINUTES, in ticks
    SerialWriters, ReusesIds,
    MaxCodes,       \* bound on the codes ever drawn
    MaxClock        \* bound on the clock

ASSUME OtpAssumption ==
    /\ IsFiniteSet(Verifiers)
    /\ MaxAttempts \in Nat \ {0}
    /\ Lifetime \in Nat
    /\ SerialWriters \in BOOLEAN
    /\ ReusesIds \in BOOLEAN
    /\ MaxCodes \in Nat
    /\ MaxClock \in Nat

VARIABLES
    clock,
    rows,       \* otp_codes: records [id, email, code, attempts, expires, created]
    lastId,     \* the last id handed out
    drawn,      \* codes drawn so far
    stored,     \* inserts so far: created_at of the next row
    send,       \* [Senders -> state of the send in progress]
    check,      \* [Verifiers -> state of the verification in progress]
    dead,       \* codes replaced by a newer one, used, locked or found expired
    compared,   \* [Codes -> submissions compared with the code]
    accepted,   \* [Codes -> verifications that answered valid]
    overlapped  \* two verifications have been in progress at once

vars == <<clock, rows, lastId, drawn, stored, send, check, dead,
          compared, accepted, overlapped>>

Codes == 1..MaxCodes
WrongCode == 0
NoCode == 0

NoEmail == "no email"
ASSUME NoEmailAssumption == NoEmail \notin Emails

IdleSend == [at |-> "idle", email |-> NoEmail, code |-> NoCode, expires |-> 0, seen |-> {}]
IdleCheck == [at |-> "idle", input |-> WrongCode, id |-> 0, attempts |-> 0,
              code |-> NoCode, deadBefore |-> {}]

Init == /\ clock = 0
        /\ rows = {}
        /\ lastId = 0
        /\ drawn = 0
        /\ stored = 0
        /\ send = [s \in Senders |-> IdleSend]
        /\ check = [v \in Verifiers |-> IdleCheck]
        /\ dead = {}
        /\ compared = [c \in Codes |-> 0]
        /\ accepted = [c \in Codes |-> 0]
        /\ overlapped = FALSE

RowsOf(e) == {r \in rows : r.email = e}
RowById(i) == {r \in rows : r.id = i}
CodesOf(rs) == {r.code : r \in rs}

Retire(codes) == dead' = dead \cup codes

Tick == /\ clock < MaxClock
        /\ clock' = clock + 1
        /\ UNCHANGED <<rows, lastId, drawn, stored, send, check, dead,
                       compared, accepted, overlapped>>

-----------------------------------------------------------------------------
(* send_otp *)

\* The code is drawn and DELETE ... WHERE email = ... starts.
BeginSend(s, e) ==
    /\ send[s].at = "idle"
    /\ drawn < MaxCodes
    /\ drawn' = drawn + 1
    /\ send' = [send EXCEPT ![s] = [at |-> "commit", email |-> e, code |-> drawn + 1,
                                    expires |-> clock + Lifetime,
                                    seen |-> {r.id : r \in RowsOf(e)}]]
    /\ UNCHANGED <<clock, rows, lastId, stored, check, dead, compared, accepted, overlapped>>

\* Mutant: the existing codes are not deleted.
ReplacedNone(s) == {}

Replaced(s) == IF SerialWriters THEN RowsOf(send[s].email)
               ELSE {r \in rows : r.id \in send[s].seen}

NewId(rest, i) == IF ReusesIds
                  THEN /\ \A r \in rest : r.id < i
                       /\ i = 1 \/ \E r \in rest : r.id = i - 1
                  ELSE i = lastId + 1

\* db.add(OTPCode(...)); db.commit(): created_at is set by the INSERT.  The mail
\* goes out afterwards; when it cannot be sent the row stays all the same.
CommitSend(s) ==
    /\ send[s].at = "commit"
    /\ LET rest == rows \ Replaced(s)
       IN \E i \in 1..lastId + 1 :
          /\ NewId(rest, i)
          /\ rows' = rest \cup {[id |-> i, email |-> send[s].email, code |-> send[s].code,
                                 attempts |-> 0, expires |-> send[s].expires, created |-> stored + 1]}
          /\ lastId' = i
    /\ stored' = stored + 1
    /\ Retire(CodesOf(RowsOf(send[s].email)))
    /\ send' = [send EXCEPT ![s] = IdleSend]
    /\ UNCHANGED <<clock, drawn, check, compared, accepted, overlapped>>

-----------------------------------------------------------------------------
(* verify_otp; a submission is any code drawn so far, or a wrong one *)

Reply(v) == check' = [check EXCEPT ![v] = IdleCheck]

\* SELECT ... ORDER BY created_at DESC, and the test of expires_at.  With no
\* row the answer is "No OTP was sent" and nothing changes.
LookUp(v, e, input) ==
    /\ check[v].at = "idle"
    /\ \E r \in RowsOf(e) :
          /\ \A q \in RowsOf(e) : q.created <= r.created
          /\ check' = [check EXCEPT ![v] =
                [at |-> IF clock > r.expires THEN "discard" ELSE "bump",
                 input |-> input, id |-> r.id, attempts |-> r.attempts,
                 code |-> NoCode, deadBefore |-> dead]]
    /\ overlapped' = (overlapped \/ \E u \in Verifiers \ {v} : check[u].at # "idle")
    /\ UNCHANGED <<clock, rows, lastId, drawn, stored, send, dead,
                   compared, accepted>>

\* Mutants: the attempt is not counted; attempts are counted down.
SameAttempts(v) == check[v].attempts
FewerAttempts(v) == check[v].attempts - 1

MoreAttempts(v) == check[v].attempts + 1

\* record.attempts += 1; commit: the value read, plus one.  If the row is gone
\* the UPDATE matches nothing and the request ends with status 500.
BumpAttempts(v) ==
    /\ check[v].at = "bump"
    /\ IF RowById(check[v].id) = {}
       THEN Reply(v) /\ UNCHANGED rows
       ELSE /\ rows' = {IF r.id = check[v].id
                        THEN [r EXCEPT !.attempts = MoreAttempts(v)] ELSE r : r \in rows}
            /\ check' = [check EXCEPT ![v].at = "compare"]
    /\ UNCHANGED <<clock, lastId, drawn, stored, send, dead, compared, accepted, overlapped>>

\* The commit expired the record: attempts and code_hash are read again from
\* the row that has the id now.  Without one the request ends with status 500.
Compare(v) ==
    /\ check[v].at = "compare"
    /\ \/ /\ RowById(check[v].id) = {}
          /\ Reply(v)
          /\ UNCHANGED compared
       \/ \E r \in RowById(check[v].id) :
          \/ /\ r.attempts > MaxAttempts
             /\ check' = [check EXCEPT ![v].at = "discard"]
             /\ UNCHANGED compared
          \/ /\ r.attempts <= MaxAttempts
             /\ compared' = [compared EXCEPT ![r.code] = @ + 1]
             /\ check' = IF check[v].input = r.code
                         THEN [check EXCEPT ![v].at = "accept", ![v].code = r.code]
                         ELSE IF MaxAttempts - r.attempts <= 0
                         THEN [check EXCEPT ![v].at = "discard"]
                         ELSE [check EXCEPT ![v] = IdleCheck]
    /\ UNCHANGED <<clock, rows, lastId, drawn, stored, send, dead, accepted, overlapped>>

\* Mutant: the record is not deleted.
DeletedNone(v) == {}

\* db.delete(record): by id.  A DELETE that matches no row only warns.
Deleted(v) == RowById(check[v].id)

\* db.delete(record); commit, before an answer that is not valid.
Discard(v) ==
    /\ check[v].at = "discard"
    /\ rows' = rows \ Deleted(v)
    /\ Retire(CodesOf(RowById(check[v].id)))
    /\ Reply(v)
    /\ UNCHANGED <<clock, lastId, drawn, stored, send, compared, accepted, overlapped>>

\* db.delete(record); commit; valid.
Accept(v) ==
    /\ check[v].at = "accept"
    /\ rows' = rows \ Deleted(v)
    /\ Retire({check[v].code})
    /\ accepted' = [accepted EXCEPT ![check[v].code] = @ + 1]
    /\ Reply(v)
    /\ UNCHANGED <<clock, lastId, drawn, stored, send, compared, overlapped>>

-----------------------------------------------------------------------------
SendStep(s) == (\E e \in Emails : BeginSend(s, e)) \/ CommitSend(s)
CheckStep(v) == BumpAttempts(v) \/ Compare(v) \/ Discard(v) \/ Accept(v)

Next == \/ Tick
        \/ \E s \in Senders : SendStep(s)
        \/ \E v \in Verifiers : CheckStep(v)
        \/ \E v \in Verifiers, e \in Emails, c \in 1..drawn \cup {WrongCode} : LookUp(v, e, c)

Spec == Init /\ [][Next]_vars

-----------------------------------------------------------------------------
(* Properties *)

\* Every variable has its type.
RowType == [id : Nat \ {0}, email : Emails, code : Codes, attempts : Nat, expires : Nat, created : Nat]
SendType == [at : {"idle", "commit"}, email : Emails \cup {NoEmail}, code : Codes \cup {NoCode},
             expires : Nat, seen : SUBSET Nat]
CheckType == [at : {"idle", "bump", "compare", "discard", "accept"},
              input : Codes \cup {WrongCode}, id : Nat, attempts : Nat,
              code : Codes \cup {NoCode}, deadBefore : SUBSET Codes]
TypeOK ==
    /\ clock \in 0..MaxClock
    /\ rows \subseteq RowType
    /\ lastId \in Nat
    /\ drawn \in 0..MaxCodes
    /\ stored \in Nat
    /\ send \in [Senders -> SendType]
    /\ check \in [Verifiers -> CheckType]
    /\ dead \subseteq Codes
    /\ compared \in [Codes -> Nat]
    /\ accepted \in [Codes -> Nat]
    /\ overlapped \in BOOLEAN

\* email_service.py:50, "Replace any existing codes for this email.": however
\* sends interleave, an address has at most one code.
AtMostOneCode == \A r, q \in rows : r.email = q.email => r = q

\* A code is good for one login, or at worst for as many as there were
\* verifications of it in progress when the first of them deleted it.
UsedOnce == \A c \in Codes :
    accepted[c] <= IF overlapped THEN Cardinality(Verifiers) ELSE 1

\* No code is accepted by a verification that began after the code was
\* replaced, used up, locked or found expired.
NoDeadCode == \A v \in Verifiers :
    check[v].at = "accept" => check[v].code \notin check[v].deadBefore

\* Submissions compared with one code, as long as no two verifications have
\* overlapped: at most MaxAttempts when ids are not reused.  On SQLite one more,
\* because a verification that counted its attempt on the previous code may
\* re-read the row of the next one under the same id.
GuessBound == ~overlapped => \A c \in Codes :
    compared[c] <= IF ReusesIds THEN MaxAttempts + 1 ELSE MaxAttempts
=============================================================================
