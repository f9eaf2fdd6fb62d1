# QuantumShield: a TLA+ verification project

QuantumShield is a FastAPI service that scans TLS, API and VPN endpoints,
scores how ready they are for post-quantum cryptography, and keeps users,
sessions, scan history, jobs and an audit log in one SQL database (SQLite by
default, PostgreSQL "for production"). This directory models the parts of it
whose correctness depends on order, concurrency, failure or time, checks them
with TLC and proves the most important results with TLAPS.

All paths below are relative to the repository (`src/...`); `app/` stands for
`src/backend/app/`.

## 1. The system

| Component | State | Operations | Hard behaviour | What makes it correct | Module |
|---|---|---|---|---|---|
| Asynchronous scan jobs (`app/routers/scanner.py`, `api_scanner.py`, `models/scan_job.py`) | rows of `scan_jobs` and `scan_history`; in memory: thread pools, queues, the list of results | submit, start, progress, scan, save, finish, error handler; polling reads | commits between which clients poll; crash of a process; failed commit; limited threads | a row shows a whole answer or none; a final row is final; every accepted job ends | `JobLifecycle`, `ScanJobs` |
| Rate limiter (`app/services/rate_limit.py`) | rows of `rate_limits` | `hit`, `reset` | read, modify, write over several processes; window edges | at most so many grants per time; honest `Retry-After` | `RateLimit`, `RateLimitDb` |
| One-time codes (`app/services/email_service.py`) | rows of `otp_codes` | `send_otp`, `verify_otp`, `clear_otp` | overlapping sends and verifications, row ids that come back, expiry | one code per address, used once, bounded guesses | `OtpStore` |
| Login, sessions, revocation (`app/routers/auth.py`, `core/security.py`) | tokens, `revoked_tokens`, account flags | login, verify-otp, resend, logout, the check of a token on every request | an account that is deactivated or deleted during its login; statements of several requests in between | a code that is used up ends in a session, unless an administrator intervened or a commit failed | `Accounts` |
| Accounts and audit log (`app/routers/auth.py`, `services/audit_service.py`, `models/user.py`, `main.py`) | rows of `users`, `audit_logs` | create, role, activate, delete, seed at start-up | administrators acting at the same time, id reuse, processes that start and die together, exceptions that are swallowed | an administrator is not lost by accident; the id of a living account is nobody else's; start-up is complete; every change is recorded | `Accounts` |
| Scan flow (`app/services/scanner_service.py`) | none between calls | `scan_tls_target` and its two fall-backs | one connection of many failing, or reaching another back end than the one before | a failure has a cause, all a report says was measured | `ScanFlow` |
| PQC score (same file) | none | `calculate_pqc_score`, the cipher and vulnerability tables | labels decided by sums of weights | better facts never score less; the label for post-quantum is earned; what is broken is flagged | `PqcScore` |
| Key-exchange probe (`app/services/pqc_detect.py`) | none | two ClientHello probes | time-outs, partial answers | a group is reported only if a server chose it | `KexProbe` |
| DNS and OCSP (`app/services/dns_ocsp.py`) | none | record queries, one OCSP request | queries that fail | nothing is reported that nobody sent | `DnsOcsp` |
| API and VPN scanners (`app/services/api_scanner.py`) | lists and counters of one scan | a list of paths, a list of ports | single connections that fail | the summary agrees with the list | `Scanners` |
| AI assistant (`app/routers/ai.py`) | none | ask, with a chain of models, retries and rules | time-outs, retries, errors within the error handling | a question ends | `Assistant` |
| Web client (`src/frontend/src/App.jsx`) | the result shown; session in local storage, polling loops | scan, ask about the result, poll a job | gives up before the server does | what it sends is what it shows | `Client` (without the polling) |
| Target guard, PDF, health, logging, configuration, migrations | none or constant | | | | not modelled, see section 7 |

How they interact: a login calls `hit` on the limiter, then `send_otp`;
verification calls `verify_otp`, then issues a token and calls `reset`. Every
scan request carries a token, creates a `scan_jobs` row, hands the job to a
pool of the process that got the request and is polled from any process. All
of these share nothing but the database; each statement below is a statement
of SQLAlchemy over it. A scan itself keeps no state: it is a sequence of
connections to the target whose outcomes are pieced together into one report,
from which the score and, when the user asks about it, the answer of the
assistant are computed.

## 2. The modules

* **`JobLifecycle`** - the abstract specification: what the client that polls a
  job relies on. Statuses move none -> queued -> running -> completed/done, or to
  "error", and a result appears in the step that makes the status final.
* **`ScanJobs`** - the code of batch, API and VPN jobs. One action is the code
  between two commits (what a crash or another process can separate):
  `SubmitJob` (insert and commit the row), `EnqueueJob` (hand over to the pool),
  `StartJob`, `CommitProgress`, `SkipTarget` (blocked or raising target),
  `ScanTarget`, `SaveScan` (`_save_scan`, which may roll back and go on),
  `RunTool` (an API or VPN scan), `FinishJob`, `HandleError`. Faults:
  `RequesterDeleted` (the account is deleted between the commit and the audit
  entry, whose arguments read the expired `current_user`), `StartWriteFails`,
  `StartReadFails`, failing commits in `CommitProgress`, `SaveScan`, `FinishJob`
  and `HandleError`, and `CrashRestart`. `row` and `history` are what is
  committed; `pc`, `queue`, `usable` and `results` are a process's memory.
  `usable` is SQLAlchemy's rule that a session whose flush failed refuses every
  statement until `rollback()`.
* **`RateLimit`** - `hit` and `reset` as single steps: the sequential meaning of
  the limiter. Time is counted in ticks of a fraction of a second, because
  `int(window_seconds - elapsed)` truncates.
* **`RateLimitDb`** - the same functions statement by statement. `Look` is the
  SELECT; `InsertWindow`, `RenewWindow`, `BumpCount` the three writes; `Judge`
  re-reads the row the commit expired; `RowGone` is the StaleDataError of a row
  deleted meanwhile. `RenewedCount` models that SQLAlchemy leaves an unchanged
  column out of an UPDATE.
* **`OtpStore`** - `send_otp` (`BeginSend`, `CommitSend`) and `verify_otp`
  (`LookUp`, `BumpAttempts`, `Compare`, `Discard`, `Accept`), statement by
  statement. `SerialWriters` is SQLite's single writing transaction; `ReusesIds`
  is SQLite giving the id of the last row, once deleted, to the next one (the
  table has no AUTOINCREMENT).
* **`Accounts`** - what happens to accounts, statement by statement, from the
  first start on. `BootStep` is `_seed_database`: look, seed, look for the demo
  account, add it, serve; each process may crash in between (`BootCrash`), the one
  that loses the race for a unique name rolls back, and any exception is logged,
  rolled back and followed by serving (`SeedingRaises`). `SessionStep` is the login in two
  steps (`Login`, `SendCode`, `Resend`; `UseCode`, `FindAccount`,
  `IssueSession`) and the logout; `AdminStep` is the admission of a request by
  its token (`Admit`), then reading the target, committing the change and
  writing the audit entry, or the submission of a job. `audit_service.record` never
  raises: in `Audit` a commit that fails leaves no entry and the request succeeds.
  In `IssueSession` one ends the login with status 500, its code used. `reusesIds` says whether
  the database is SQLite, which gives the id of the last row, once deleted, to
  the next one. `acct` numbers accounts in the order of their creation; with
  `struck` (processes whose start met an exception), `faults`, `changes`, `trail`,
  `misnamed`, `deleted` and a request's `disturbed` it records what the properties
  are about; no guard reads any of them but the bounds on `faults` and `changes`. The rate limiter in front of a login and the codes behind it are `RateLimit` and
  `OtpStore`: here a code is pending or used.
* **`PqcScore`, `KexProbe`, `DnsOcsp`** - what the scan computes, as operators:
  key exchange, grade, vulnerabilities, score and label of a set of facts; the
  verdict on the records a server sends to a ClientHello; the verdict on the
  answers to DNS and OCSP queries. A suite is the set of substrings of its name
  that the code looks for, because substrings are how the code decides.
* **`ScanFlow`** - `scan_tls_target` and its two fall-backs, one action per
  connection: `ConnectVerified`, then, after a certificate error,
  `ConnectUnverified` or, after another TLS error, `ConnectLegacy`;
  `ProbeVersions`, `LookUp`, `FetchHeaders`, `AskResponder`, `ProbeGroups`,
  `ProbePqcGroups`, `Report`. `Following` is the order on each of the three
  paths. A name stands for a *farm* of back ends and each connection may reach
  another one; up to `MaxFaults` connections fail. A server may present a
  post-quantum certificate, which `get_cert_details` reads as "Unknown" (`Certs`),
  and an OCSP responder says whatever it likes, because `check_ocsp` verifies
  neither its signature nor the serial number nor the date (`AskResponder`).
  `Libraries` are the suites and versions the Python and OpenSSL builds accept:
  what a scan can see depends on them.
* **`Scanners`** - the API scan (`DetectBase`, `QuickCheck` per path,
  `Summarise`) and the VPN scan (`ProbePort` per port, `Conclude`).
* **`Assistant`** - a question and its chain of models: `CallModel` (answer,
  retry, next model, broken error body), `AnswerByRule`, and the browser's
  `GiveUp`.
* **`Client`** - composes the three: the page begins a request, the server works
  (`Works`), the page shows the result (`Show`) and sends it along with the next
  question (`Known`).

The constants are given values by `MCScanJobs`, `MCRateLimit`, `MCRateLimitDb`,
`MCOtpStore`, `MCAccounts` and `MCClient`. `ScanJobsProofs`, `RateLimitProofs`,
`RateLimitDbProofs`, `OtpStoreProofs`, `AccountsProofs` and `ClientProofs` hold
theorems. Operators
marked "Mutant" in a module are faulty variants of the definition below them;
the specifications never use them. Each property has one in `PROJECT.json` under
which TLC must report that property violated, to show that the property can
fail.

## 3. The runs

| Run | Instance | What it shows |
|---|---|---|
| `scan_jobs` | a batch of two targets and two API jobs, two processes, pools of one thread, two faults of any kind | types; a poll sees a whole answer or none (`AnswerIffFinished`); progress never runs ahead of the collected results by more than the target at hand (`ProgressTruthful`); history and result agree (`HistoryFaithful`, `HistoryComplete`); queues (`QueueExact`); only a fault of its own strands a job (`OnlyFaultsStrand`); final rows are final (`FinishedIsForever`); an accepted job that no fault strikes ends (`JobFinishes`); `ScanJobs` implements `JobLifecycle` |
| `jobs_restart` | crashes only | **violated**: a job does not survive the crash of its process, although the docs say jobs "survive restarts" |
| `jobs_write_error` | failing commits only | **violated**: after a failed commit the error handler cannot write the status "error", because it queries a session that has not been rolled back |
| `rate_limit` | one identifier, limit 2, window of 2 s, two ticks per second, three windows | `GrantedExact`, `TwoBurstBound`, `RetryWithinASecond` |
| `rate_sliding` | same | **violated**: more than the limit within one window length; the limiter is not "sliding" |
| `rate_limit_db` | two threads racing for one identifier, a third alone on another, resets, PostgreSQL ids | the lone identifier sees exactly the sequential limiter (`ImplementsSequential`), and the missing unique constraint costs at most one row per thread (`RowsPerKey`) |
| `rate_workers` | two threads, one identifier | **violated**: more grants at one instant than the limit, although the limiter "works across multiple workers/processes" |
| `otp` | two addresses, two sending and two verifying threads, two codes, two attempts, SQLite | `AtMostOneCode`, `UsedOnce`, `NoDeadCode`, `GuessBound` |
| `otp_postgres` | same, PostgreSQL | **violated**: two overlapping sends leave two codes for one address |
| `accounts` | one seeded administrator and a demo account that is another one, two processes that start and may crash or meet an exception, a commit that may fail, two request threads, SQLite and PostgreSQL, at most three accounts in all | `StartUpComplete`; which changes may lack an audit entry (`AuditComplete`); the id of an account that exists is nobody else's, in jobs, requests and entries (`IdsStillMean`); a login ends with the session of the account its code was for, whatever happened between its statements, unless the account was taken away or its commit failed (`SessionFollowsCode`); the last administrator is lost only to a request whose sender has lost his own rights since it was admitted (`LastAdminGoesByAStaleOne`) |
| `client` | nine back ends alone and six pairs of them behind one name, two TLS libraries, two zones, three API paths, four ports, three models, one failing connection per scan | `FailureHasACause`, `PqcVerdictExact`, `SafeLabelMeansPqc`, `BetterNeverScoresLess`, `BrokenSuiteIsFlagged`, `NothingInvented`, `WeakEndPointReported`, `VpnIssuesComplete`; every request ends (`RequestEnds`) |
| `client_raise` | same, one path and one model | **violated**: a scan of a host that refuses both handshakes raises a NameError instead of returning a report |

The limiter compares `window_start < now - window` strictly, so a client that
comes back exactly when `Retry-After` says may be refused once more; the
property `RetryWithinASecond` says how far off the value can be.

**Bounds.** `MaxFaults`, `MaxHits`, `Instants`, `MaxRows`, `MaxResets`,
`MaxCodes` and `MaxClock` bound counters and time, nothing else. One thread per
pool makes jobs wait for each other; a batch of two targets has a first and a
last one; two faults let one strike while the other is being handled, or one in
each process. Six seconds of a two second window contain a window's start, its
end, the instant on the edge and two successors. `MaxAttempts = 2` separates the
last allowed guess from the first and from the one that locks; two codes give a
replaced and a replacing one; three ticks with `Lifetime = 1` give a code
that is fresh, one on its last valid instant and one that has expired.
Symmetry is declared only over threads and processes that are interchangeable,
and only in runs without liveness properties.

In `accounts`, `MaxAccounts`, `MaxTokens`, `MaxChanges`, `MaxPending` and
`MaxExtras` (faults, jobs and logouts together) bound counters. A fault is a crash or
an exception at start-up or a commit that fails. Three accounts
let one be created after one was deleted, so ids come back; two tokens and two
threads let both administrators act at once; two changes let the second undo what
the first relied on; two starting processes race for every unique name. In
`client` the back ends differ in each thing the code tells apart: TLS 1.3 with a
post-quantum group first, second or not at all, a certificate that is
post-quantum, RSA of 1024, 2048 or 4096 bits, not trusted, signed with SHA-1,
expired or unreadable, TLS 1.0 alone, RC4, anonymous suites. `strong` (RSA-4096,
no post-quantum group) is the one whose score reaches exactly 85. A pair is enough to mix two back ends in one report, one fault to take
each branch of the error handling at each position. `strict` is the library of
the Dockerfile (Python 3.11, whose default suites exclude static RSA), `lenient`
one from before Python 3.10, which the code's version probing was written for.
Three paths, ports of both protocols and all four kinds of assessment, and three
models have a first, a middle and a last one; `VPN_PORTS` in `Scanners` is the
whole list of the code, of which the run takes four.

**Fairness.** `scan_jobs` and `jobs_restart` state `WF_vars(JobStep(j))`, that
is, a thread that holds a job keeps executing, and the client runs
`WF_clientVars(Works)`, that the server goes on with the one request it has.
Every blocking call of a job is a socket operation with a time-out, so a scan
returns or raises, and a pool takes its next job when a thread is free. Faults
and submissions are never assumed to happen, nor is the user assumed to ask
anything or the browser to give up. `RateLimit`, `RateLimitDb`, `OtpStore` and
`Accounts` have no liveness properties: a request thread there ends by itself.

**Deadlock** is not checked in the runs whose system really stops: the jobs of
`ScanJobs` are a finite set and end; `RateLimitDb`, `OtpStore` and `Accounts`
reach the end of their clock and counters. `rate_limit` can always reset and the
client can always ask again: their runs check it.

## 4. What is proved

The theorems hold for every value of the constants that the named assumptions
(`JobsAssumption`, `RateLimitAssumption`, ...) allow: any number of jobs,
targets, processes, threads and faults, any limit, window and clock resolution,
any accounts and seeds with a finite number of names to seed
(`AccountsAssumption`), any addresses and codes, finite sets of those request
threads that a bound counts (`OtpAssumption`, `RateLimitDbAssumption`,
`AccountsAssumption`; a process has finitely many), any finite farms of back ends with certificates of
any kind, post-quantum ones included, whose suites are ones the code can read and whose TLS 1.3 suites are TLS 1.3's own
(`ScanFlowAssumption`), any number of paths, any list of ports of the two protocols, and at least one model
(`ScannersAssumption`, `AssistantAssumption`).

* **Jobs** (`ScanJobsProofs`): `TypeCorrect`, `QueuesAreExact`, `AnswersAreWhole`,
  `OnlyOwnFaultsStrand`, `FinalRowsAreFinal`, `JobsFollowTheLifecycle` (the
  refinement of `JobLifecycle`), `RecordsFit`, `ProgressIsTruthful`,
  `HistoryIsFaithful` and `HistoryIsComplete`. Types and queues come first and together: the
  head and the tail of a queue exist because a queued job is in its queue, and a
  job leaves no copy behind because the queue has none. Everything else follows
  from `JobInv(j)`, one statement per job: the position of its code determines
  the status its row shows (`StatusFits`) and the number of outcomes collected
  (`ResultsFit`), the row holds an answer exactly if it is final (`AnswerFits`),
  and a session is inactive only after a fault of that job (`StrandFits`).
  `AnswerIffFinished` alone is not inductive: without the count of outcomes
  nothing says that a batch finishes with all its targets, and without the
  status nothing says that an error handler meets an unfinished row. Steps of
  other jobs cannot disturb it (`JobStepsAreLocal`, `OthersUndisturbed`), so each
  action is examined once (`JobInvStep`). `StepsMoveARow` then reduces any step
  to one of five movements of one row, from which `FinalRowsAreFinal` and the
  refinement are read off. `RecordInv(j)` adds what is recorded on the way:
  `HistoryFits` says that a record of the history is of a target that was reached and
  whose outcome is a report wherever the outcome is kept; `ProgressFits` relates the
  row's progress to the number of outcomes at each position of the code, and says
  that no report collected lacks its record unless a fault struck the job. The three
  properties about progress and history follow from both.
* **Limiter** (`RateLimitProofs`): `TypeCorrect`, `GrantsAreExact`,
  `TwoBurstsAtMost`, `RefusalsAreTruthful`. `TwoBurstBound` speaks of grants two
  allowances apart; the invariant `LogInv` locates them: the last `granted[k]`
  belong to the current window, the earlier ones are not younger than its
  start, and those more than one further allowance back are over a window older
  than it. The three lemmas `ShapeOf...` are the three outcomes of a hit.
  `RetryAfterBounds` is the arithmetic of the truncated division.
* **Limiter, by statement** (`RateLimitDbProofs`): `TypeCorrect`, `TableIsBounded`,
  `SequentialWhenAlone` and `TwoBurstsWhenAlone`. A thread decides to insert while
  its identifier has no row, so `RoomInv` counts rows and threads about to insert
  together. `SequentialWhenAlone` is the refinement of `RateLimit` for each
  identifier that one thread serves, under `~ReusesIds`: `IdInv` (ids are unique and
  not above the last one), `ClockInv` and `SoloInv` (between two statements the
  thread finds the row as it left it) hold of any database that gives no id twice,
  and each statement is then a hit, a reset or a stutter of the mapped variables.
  The assumption is needed: with SQLite's ids TLC finds a stale UPDATE of *another*
  identifier that hits the row which has got a deleted row's id.
  `TwoBurstsWhenAlone` carries `TwoBurstsAtMost` through the refinement: that
  theorem is cited from an instance of `RateLimitProofs` under the same mapping.
* **Codes** (`OtpStoreProofs`): `OneCodePerAddress` and `DeadStaysDead`, under the
  assumption `SerialWriters`, which the run `otp_postgres` shows to be necessary for
  the first; the same instance refutes the property of the second, because of two
  codes that remain the one that counts as replaced can still be accepted; `TypeCorrect`, `OneLogin` and `GuessesAreBounded` on either database.
  `CodeInv` (theorem `CodesMean`) is what they share: a code is drawn before it is
  in a row or compared, no two rows hold one code, and a verification that is
  about to accept has the id of that code's row, if there is one left to delete.
  `UseInv` adds that an accepted code is in no row, and counts the verifications about
  to accept together with those that did; `CountInv` that comparisons never run ahead
  of the attempts counted in the code's row by more than the one a reused id allows.
* **Accounts** (`AccountsProofs`): `TypeCorrect`, `StartUp`, `CodesLogIn`, `IdsMean`,
  `LastAdmin` and `AuditIsComplete`. `TypeInv` (unique keys, every request's fields in range, which
  statement each request stands before) carries the rest. `LastAdmin` needs
  nothing else: only `CommitUpdate` and `CommitDelete` take an administrator
  away, never the requester himself, so if none is left, he was none of them.
  `BootInv` adds that before the seeds are in nothing else is (`NothingYet`), so
  that a process which finds accounts finds the seeded ones or their deletion,
  whatever exception made another one give up.
  `CodeInv` follows a code from its creation to the account it opens (`HeldOK`,
  `CodesOK`), so that each step that ends a login is one of three: the session, the
  end of a disturbed one, a failed commit. `IdInv` says of every place that keeps an
  id (jobs, requests) that whoever has the id is the account it was taken from or its
  `Heir`, a younger account after the first is gone; what makes it inductive on both
  databases is that an account that exists still has the id it ever had (`Means`).
  `AuditComplete` compares counts and is not inductive: an entry may get lost
  only later, when its request finds the account gone. `AuditInv` therefore counts
  the entries that are missing together with the requests `Doomed` to lose theirs;
  a deletion dooms at most the threads other than its own, and a commit of an entry
  that fails pays for itself.
* **Client** (`ClientProofs`): `ScanTypes`, `SafeLabels`, `NothingIsInvented`,
  `BrokenFlagged`, `FailuresHaveCauses`, `PqcVerdict`, `ScoresAreOrdered`,
  `WeakEndPoints`, `VpnProbe` and `ClientTypes`, all over `ClientSpec`. The client does nothing
  to a scan but begin it and take its result away (`ClientMovesScan`), so each is
  an invariant of the steps of `ScanFlow`. `Frames` says once which field each step
  writes and where the scan goes on; a theorem about one field then looks only
  at the steps that write it. Beyond the types, each needs a fact about the past:
  `Asked` (no answer before its query),
  `Measured` and `Seen` (where each field of the report comes from), `SuiteOfVersion` (version and suite are of
  one handshake), `Causes` (a scan without faults that is on the unverified path
  has failed a verified handshake that could have succeeded but for the
  certificate), `Verdict` (what the first probe says of the back end, kept by the
  second), `Collected` (the worst grade is at least as bad as each that was
  collected), `Probed` (at every port the counts of a VPN probe agree with the list so
  far). `ScoresAreOrdered` is about the score alone: it is a sum of seven
  parts (`PointsAddUp`), and each improvement is compared part by part. `SafeLabels`
  bounds the same parts: without a post-quantum group the key exchange costs at least
  eight points (`ClassicalKex`) and a key that is not `CheapKey` fourteen
  (`ClassicalKey`), which no suite can make up for.

Every invariant and every refinement that a passing run checks is thus the
statement of a theorem. Only model-checked are `JobFinishes` and `RequestEnds`:
liveness under fairness, which TLAPS does not reach; that `SequentialWhenAlone` does
not extend to SQLite's ids, and the six runs that end in a violation, are
counterexamples and need no proof. The operators of `PqcScore`, `KexProbe` and
`DnsOcsp` are proved about through the scan that uses them.

## 5. Disagreements between code and documentation

The six runs that end in a violation are listed with the quoted lines under
"findings" in `PROJECT.json`: jobs do not survive restarts; a failed commit is
not recorded as an error; the limiter is not sliding; it does not hold across
concurrent threads; replaced codes may remain on PostgreSQL; the last fall-back
of a scan calls `_infer_from_hostname`, which is defined nowhere.

Others are in the models but have no run of their own. The first four contradict a
sentence of the repository on their face, by a single branch of the code that needs
no exploration:

* A CAA, AAAA or TXT record is reported as absent when the query for it failed, and
  DNSSEC as off although the query never asks for the flag it reads (the first query
  sets neither AD nor DO, `dns_ocsp.py:46-49`): `CheckDns`. `dns_ocsp.py:10-11`
  promises "unknown" "rather than asserting a (possibly wrong) default". What does
  hold is that nothing is reported as present that nobody sent (`NothingInvented`).
* "always works" (`ai.py:4`), "so the assistant always answers" (`src/README.md:57`):
  a question by chat about the protocol or the score while no report is shown raises
  a TypeError (`Breaks`), and so does the body of an HTTP error that cannot be read
  (`CallModel`, to "failed").
* `scanner_service.py:744` and `test_scoring.py:45-50` say that an ML-DSA certificate
  reaches "Fully Quantum Safe". The score gives it, but no scan does: `get_cert_details`
  reads such a key as "Unknown" (`Certs`). The test alone calls the score directly.
* `scanner_service.py:732` requires "BOTH a PQC key exchange AND a PQC certificate";
  line 737 looks at the certificate only, and below 85 points at neither. By the same
  lines a server with RSA-4096 or an Ed448 key (or one that could not be read) and no
  post-quantum group at all may be labelled "quantum-safe key exchange":
  TLS 1.3 with AES-256-GCM, x448 and RSA-4096 scores exactly 85.
  `SafeLabelMeansPqc` says that these keys (`CheapKey`) are the only exception.

The others are no contradiction of a sentence:

* A host that speaks only TLS 1.0 is measured as "TLSv1", which the tables of
  deductions and vulnerabilities, written for "TLSv1.0", never match: it is
  scored above TLS 1.1 (the exceptions in `BetterNeverScoresLess` and
  `BrokenSuiteIsFlagged`). HNDL is not reported for TLS 1.3 suites, and static
  RSA below TLS 1.2 may be reported as an elliptic-curve exchange.
* The third way of probing for a version, a call of the `openssl` program, asks
  for one protocol and excludes the others with options that the program refuses
  together: it never accepts (`Accepts`).
* Only the verified path probes for post-quantum groups; after a certificate
  error the report says nothing about them (`PqcVerdictExact`).
* An end point whose handshake succeeds but that does not answer over HTTP is
  left out of the summary of an API scan (`Found`).
* `check_ocsp` believes any response: it verifies no signature, serial number or
  date (`AskResponder`).
* A process whose seeding raised serves without the seeds (`SeedingRaises`), an audit
  entry whose commit fails is missing while its request succeeds (`Audit`).
* A code is used up before its account is looked up and before `last_login` is
  committed; a login that fails there needs another code (`SessionFollowsCode`).
* On SQLite a job of a deleted account is shown to the account that gets its id
  (`Heir`).
* Two administrators may remove each other at the same time
  (`LastAdminGoesByAStaleOne` says that it takes such a race).
* A start that finds only some of the seeded accounts left skips the demo account
  that it otherwise ensures on every boot (`StartUpComplete`).
* The page counts a scan that ended with "timeout", "dns_error" or
  "connection_refused" as a result with score 0 (`App.jsx:1952`).

## 6. Semantics relied on

* A commit whose flush fails leaves the session inactive until `rollback()`;
  a commit expires loaded objects, which are read again when next used.
* An UPDATE writes the columns that changed, with values computed in Python, by
  primary key; one that matches no row raises, a DELETE that matches none only
  warns.
* SQLite: one writing transaction at a time, and the largest row id in use plus
  one for a new row. PostgreSQL: READ COMMITTED, ids from a sequence.
* `validate_target` catches every exception and returns a verdict, so
  `SkipTarget` needs no fault of its own.
* Rows of `scan_jobs` are never deleted, so the early return of the job code
  for a row that is not found is unreachable and has no action.
* `history` in `ScanJobs` is what the jobs have inserted into `scan_history`. A
  user may delete records afterwards (`DELETE /history/{scan_id}`); that
  endpoint reads nothing of the jobs and is not modelled.
* A commit that fails writes nothing. In three places the code goes on or gives
  something up that an earlier commit has changed, and `Accounts` has an action or a
  disjunct for each: `audit.record` swallows the failure and the request succeeds
  (`Audit`), `_seed_database` swallows it and the process serves (`SeedingRaises`), and
  in `verify_otp_and_login` it costs the login whose code is used up (`IssueSession`).
  Everywhere else in a request it ends the request with status 500, which
  `RateLimitDb`, `OtpStore` and `Accounts` show as a thread that stops between two
  statements, as they do a crash of its process; no fairness forbids either.
* A client offers the versions and suites its context allows; the server picks the
  highest common version. Python 3.10 and later refuse TLS 1.0 and 1.1 and static
  RSA in a default context. A TLS 1.3 server names the group of its choice in a
  ServerHello or a HelloRetryRequest.

## 7. What is not modelled, and the plan

Left out for good: PDF layout (it shows a report that is passed in and keeps no
state), health endpoints, logging, configuration and the database session (their
constants and semantics are those of section 6), migrations (read for which
columns are unique), the tests (sequential unit tests), the styling and forms of
the web client, the CBOM, recommendations and wording of a report, the bytes of
a ClientHello.

Left out of modelled parts: the target guard, whose verdict is a choice
(`SkipTarget` in `ScanJobs`; a scan of `ScanFlow` begins after it);
`change_password`, the expiry of tokens and `/me`, which touch nothing the
properties of `Accounts` speak of; audit entries about logins and scans; quick
scans, which make no job, and deletion of history; the polling loops of the
page. A target of `ScanJobs` has one outcome: `ScanFlow` says which there are.

What a next step would be, in this order:

1. The polling client composed with `ScanJobs`: thirty polls and then silence
   (`App.jsx:1472`), whether the job is still running or stuck.
2. Proofs: what a second identifier can do to one served alone on SQLite (a bound
   in place of the refinement), and the limit that concurrent workers exceed as a
   multiple of their number.

## 8. Running it

    tlc -workers 2 -config scan_jobs.cfg MCScanJobs
    tlapm ScanJobsProofs.tla

and likewise for each run of `PROJECT.json` and each `...Proofs` module.
