---------------------------- MODULE RateLimitDb ----------------------------
(***************************************************************************)
(* services/rate_limit.py, statement by statement, as request threads of   *)
(* any number of server processes execute it over one database.            *)
(*                                                                         *)
(* hit is a SELECT, an INSERT or UPDATE that is committed, and a re-read   *)
(* of the row the commit expired; between any two of them other threads    *)
(* run.  The UPDATE writes the values computed from the row as it was      *)
(* read, so it may overwrite another thread's; rate_limits.key is indexed  *)
(* but not unique, so two threads may both insert.                         *)
(*                                                                         *)
(* Time passes between statements; the instant a hit is judged by is the   *)
(* one taken on entry.  The constants are those of RateLimit.tla, with     *)
(* Instants as the values of the clock.                                    *)
(***************************************************************************)
EXTENDS Integers, Sequences, FiniteSets

CONSTANTS
    Keys, MaxCount, WindowSeconds, TicksPerSecond, Instants, MaxHits,
    Workers,            \* request threads
    Serves,             \* [Workers -> SUBSET Keys]: whose requests a thread gets
    ReusesIds,          \* TRUE: SQLite, FALSE: PostgreSQL (see NewId)
    MaxRows,            \* bound on the ids of rows
    MaxResets           \* bound on the resets

VARIABLES
    clock,
    rows,       \* rate_limits: records [id, key, start, count]
    lastId,     \* the last id handed out
    resets,     \* resets so far
    req,        \* [Workers -> the hit the thread is executing]
    latest, log, told       \* [Keys -> ...]: history, as in RateLimit.tla

vars == <<clock, rows, lastId, resets, req, latest, log, told>>

Window == WindowSeconds * TicksPerSecond

NoKey == "no key"
NoRow == [id |-> 0, key |-> NoKey, start |-> 0, count |-> 0]
IdleReq == [at |-> "idle", key |-> NoKey, t |-> 0, seen |-> NoRow]

ASSUME RateLimitDbAssumption ==
    /\ MaxCount \in Nat \ {0}
    /\ WindowSeconds \in Nat
    /\ TicksPerSecond \in Nat \ {0}
    /\ Instants \subseteq Nat
    /\ 0 \in Instants
    /\ MaxHits \in Nat
    /\ IsFiniteSet(Workers)
    /\ NoKey \notin Keys
    /\ Serves \in [Workers -> SUBSET Keys]
    /\ MaxRows \in Nat
    /\ ReusesIds \in BOOLEAN
    /\ MaxResets \in Nat

Init == /\ clock = 0
        /\ rows = {}
        /\ lastId = 0
        /\ resets = 0
        /\ req = [w \in Workers |-> IdleReq]
        /\ latest = [k \in Keys |-> 0]
        /\ log = [k \in Keys |-> <<>>]
        /\ told = [k \in Keys |-> 0]

RowsOf(k) == {r \in rows : r.key = k}
RowById(i) == {r \in rows : r.id = i}
Expired(r, t) == r = NoRow \/ r.start < t - Window

RetryAfter(r, t) == LET left == (Window - (t - r.start)) \div TicksPerSecond
                    IN IF left < 1 THEN 1 ELSE left

Tick == /\ clock + 1 \in Instants
        /\ clock' = clock + 1
        /\ UNCHANGED <<rows, lastId, resets, req, latest, log, told>>

-----------------------------------------------------------------------------
(* hit *)

\* now = _utcnow(); SELECT ... .first(): any row of the key, or None.
Look(w, k) ==
    /\ req[w].at = "idle"
    /\ k \in Serves[w]
    /\ \E r \in IF RowsOf(k) = {} THEN {NoRow} ELSE RowsOf(k) :
          req' = [req EXCEPT ![w] = [at |-> "write", key |-> k, t |-> clock, seen |-> r]]
    /\ UNCHANGED <<clock, rows, lastId, resets, latest, log, told>>

Answer(w) == req' = [req EXCEPT ![w] = IdleReq]

Registered(w) == latest' = [latest EXCEPT ![req[w].key] =
                              IF req[w].t > @ THEN req[w].t ELSE @]

Granted(w) == /\ log' = [log EXCEPT ![req[w].key] = Append(@, req[w].t)]
              /\ told' = [told EXCEPT ![req[w].key] = 0]

\* PostgreSQL draws ids from a sequence.  SQLite gives a new row the largest
\* id in use plus one, so the id of a deleted row may come back.
NewId(i) == IF ReusesIds
            THEN /\ \A r \in rows : r.id < i
                 /\ i = 1 \/ \E r \in rows : r.id = i - 1
            ELSE i = lastId + 1

\* Mutants: the window starts with nothing counted; the row is inserted again
\* although one was found.
FirstCountZero == 0
NeedsRowAlways(w) == TRUE

FirstCount == 1
NeedsRow(w) == req[w].seen = NoRow

\* INSERT of the row that starts the first window of the key.
InsertWindow(w) ==
    /\ req[w].at = "write"
    /\ NeedsRow(w)
    /\ \E i \in 1..MaxRows :
          /\ NewId(i)
          /\ lastId' = i
          /\ rows' = rows \cup {[id |-> i, key |-> req[w].key, start |-> req[w].t, count |-> FirstCount]}
    /\ Registered(w)
    /\ Granted(w)
    /\ Answer(w)
    /\ UNCHANGED <<clock, resets>>

\* An UPDATE by primary key of a row deleted meanwhile matches nothing:
\* StaleDataError, and the request ends with status 500.
RowGone(w) ==
    /\ req[w].at \in {"write", "judge"}
    /\ req[w].seen # NoRow
    /\ RowById(req[w].seen.id) = {}
    /\ Answer(w)
    /\ UNCHANGED <<clock, rows, lastId, resets, latest, log, told>>

\* Mutant: an expired row keeps its count.
KeptCount(seen, r) == r.count

\* UPDATE of an expired row.  SQLAlchemy leaves out a column whose value did
\* not change, so count is written only when the row was read with another.
RenewedCount(seen, r) == IF seen.count = FirstCount THEN r.count ELSE FirstCount

RenewWindow(w) ==
    /\ req[w].at = "write"
    /\ req[w].seen # NoRow
    /\ Expired(req[w].seen, req[w].t)
    /\ \E r \in RowById(req[w].seen.id) :
          rows' = (rows \ {r}) \cup
            {[r EXCEPT !.start = req[w].t,
                       !.count = RenewedCount(req[w].seen, r)]}
    /\ Registered(w)
    /\ Granted(w)
    /\ Answer(w)
    /\ UNCHANGED <<clock, lastId, resets>>

\* row.count += 1 writes the count that was read, plus one.
BumpCount(w) ==
    /\ req[w].at = "write"
    /\ ~Expired(req[w].seen, req[w].t)
    /\ req[w].seen.count < MaxHits
    /\ \E r \in RowById(req[w].seen.id) :
          rows' = (rows \ {r}) \cup {[r EXCEPT !.count = req[w].seen.count + 1]}
    /\ req' = [req EXCEPT ![w].at = "judge"]
    /\ Registered(w)
    /\ UNCHANGED <<clock, lastId, resets, log, told>>

\* The row is read again; its count and window decide, whoever wrote them.
Judge(w) ==
    /\ req[w].at = "judge"
    /\ \E r \in RowById(req[w].seen.id) :
          \/ r.count <= MaxCount /\ Granted(w)
          \/ /\ r.count > MaxCount
             /\ told' = [told EXCEPT ![req[w].key] =
                           req[w].t + RetryAfter(r, req[w].t) * TicksPerSecond]
             /\ UNCHANGED log
    /\ Answer(w)
    /\ UNCHANGED <<clock, rows, lastId, resets, latest>>

-----------------------------------------------------------------------------
\* DELETE ... WHERE key = k, after a login of the same client succeeded.
Reset(w, k) ==
    /\ req[w].at = "idle"
    /\ k \in Serves[w]
    /\ resets < MaxResets
    /\ resets' = resets + 1
    /\ rows' = rows \ RowsOf(k)
    /\ log' = [log EXCEPT ![k] = <<>>]
    /\ told' = [told EXCEPT ![k] = 0]
    /\ UNCHANGED <<clock, lastId, req, latest>>

HitStep(w) == \/ \E k \in Keys : Look(w, k)
              \/ InsertWindow(w) \/ RenewWindow(w) \/ BumpCount(w)
              \/ Judge(w) \/ RowGone(w)

Next == \/ Tick
        \/ \E w \in Workers : HitStep(w) \/ \E k \in Keys : Reset(w, k)

Spec == Init /\ [][Next]_vars

-----------------------------------------------------------------------------
(* Properties *)

\* Every variable has its type.
RowType == [id : 1..MaxRows, key : Keys, start : Nat, count : Nat \ {0}]
ReqType == [at : {"idle", "write", "judge"}, key : Keys \cup {NoKey}, t : Nat,
            seen : RowType \cup {NoRow}]
TypeOK ==
    /\ clock \in Nat
    /\ rows \subseteq RowType
    /\ lastId \in 0..MaxRows
    /\ resets \in 0..MaxResets
    /\ req \in [Workers -> ReqType]
    /\ latest \in [Keys -> Nat]
    /\ log \in [Keys -> Seq(Nat)]
    /\ told \in [Keys -> Nat]

\* A key has at most one row per thread that serves it: the missing unique
\* constraint cannot make the table grow without bound, resets included.
RowsPerKey == \A k \in Keys :
    Cardinality(RowsOf(k)) <= Cardinality({w \in Workers : k \in Serves[w]})

\* Refinement, for the identifiers that one thread serves: a hit takes effect with its write; the answer it will get from
\* the re-read is already decided then, since nobody else touches the row.
WindowOf(k) == IF RowsOf(k) = {} THEN [start |-> 0, count |-> 0]
               ELSE LET r == CHOOSE r \in RowsOf(k) : TRUE
                    IN [start |-> r.start, count |-> r.count]
Deciding(k) == {w \in Workers : req[w].at = "judge" /\ req[w].key = k}
DecidedT(k) == req[CHOOSE w \in Deciding(k) : TRUE].t

SoloKeys == {k \in Keys : Cardinality({w \in Workers : k \in Serves[w]}) <= 1}

Sequential == INSTANCE RateLimit WITH
    Keys <- SoloKeys,
    latest <- [k \in SoloKeys |-> latest[k]],
    window <- [k \in SoloKeys |-> WindowOf(k)],
    granted <- [k \in SoloKeys |-> IF WindowOf(k).count <= MaxCount
                               THEN WindowOf(k).count ELSE MaxCount],
    log <- [k \in SoloKeys |-> IF Deciding(k) # {} /\ WindowOf(k).count <= MaxCount
                           THEN Append(log[k], DecidedT(k)) ELSE log[k]],
    told <- [k \in SoloKeys |-> IF Deciding(k) = {} THEN told[k]
                            ELSE IF WindowOf(k).count <= MaxCount THEN 0
                            ELSE DecidedT(k) + TicksPerSecond * RetryAfter(WindowOf(k), DecidedT(k))]

\* While a single thread serves an identifier, the statements of hit and reset
\* add up to the sequential limiter for it, also while other threads race for
\* the rows of other identifiers.
ImplementsSequential == Sequential!Spec

\* services/rate_limit.py:4: the limiter "Works across multiple
\* workers/processes".  At the very least one instant never sees more than
\* MaxCount grants for one identifier.
LimitHolds == \A k \in Keys, t \in Instants :
    Cardinality({i \in DOMAIN log[k] : log[k][i] = t}) <= MaxCount
=============================================================================
