------------------------- MODULE RateLimitDbProofs -------------------------
(***************************************************************************)
(* Proofs about RateLimitDb.tla, for any finite set of request threads, any *)
(* identifiers, limit, window and clock resolution.                        *)
(*                                                                         *)
(* RowsPerKey holds because a thread decides to INSERT only while its       *)
(* identifier has no row: the rows and the threads about to insert one are *)
(* together never more than the threads that serve the identifier.         *)
(*                                                                         *)
(* The refinement of RateLimit.tla needs that ids are not handed out twice *)
(* (PostgreSQL).  A thread that serves an identifier alone then finds its  *)
(* row between two statements as it left it.                               *)
(***************************************************************************)
EXTENDS RateLimitDb, FiniteSetTheorems, TLAPS

-----------------------------------------------------------------------------
(* Types *)

LEMMA WindowType == Window \in Nat
BY RateLimitDbAssumption DEF Window

LEMMA RetryAfterType ==
    ASSUME NEW r \in RowType, NEW t \in Nat
    PROVE  RetryAfter(r, t) \in Nat /\ t + RetryAfter(r, t) * TicksPerSecond \in Nat
<1> DEFINE left == (Window - (t - r.start)) \div TicksPerSecond
<1>1. left \in Int
  BY WindowType, RateLimitDbAssumption DEF RowType
<1>2. RetryAfter(r, t) = IF left < 1 THEN 1 ELSE left
  BY DEF RetryAfter
<1> HIDE DEF left
<1>3. RetryAfter(r, t) \in Nat
  BY <1>1, <1>2
<1>4. \A a, b \in Nat : t + a * b \in Nat
  BY ONLY t \in Nat
<1>5. QED
  BY <1>3, <1>4, RateLimitDbAssumption

\* A thread in the middle of a hit serves the identifier; one that judges has
\* read a row.
ReqMeans == \A w \in Workers : req[w].at # "idle" =>
    /\ req[w].key \in Keys
    /\ req[w].key \in Serves[w]
    /\ req[w].at = "judge" => req[w].seen # NoRow

LEMMA IdleTyped == IdleReq \in ReqType /\ IdleReq.at = "idle"
BY DEF IdleReq, ReqType

\* The thread's own record is replaced, the others keep theirs.
LEMMA OthersRun ==
    ASSUME TypeOK, NEW w \in Workers, NEW rec, req' = [req EXCEPT ![w] = rec]
    PROVE  /\ req'[w] = rec
           /\ \A u \in Workers : u # w => req'[u] = req[u]
           /\ rec \in ReqType => req' \in [Workers -> ReqType]
BY DEF TypeOK

LEMMA ReqMeansAfter ==
    ASSUME TypeOK, ReqMeans, NEW w \in Workers,
           \A u \in Workers : u # w => req'[u] = req[u],
           req'[w].at = "idle" \/ (/\ req'[w].key \in Keys
                                   /\ req'[w].key \in Serves[w]
                                   /\ req'[w].at = "judge" => req'[w].seen # NoRow)
    PROVE  ReqMeans'
BY DEF ReqMeans

\* What a row becomes when a thread writes two of its columns.
LEMMA RowTyped ==
    ASSUME NEW r \in RowType, NEW s \in Nat, NEW n \in Nat \ {0}
    PROVE  /\ [r EXCEPT !.start = s, !.count = n] \in RowType
           /\ [r EXCEPT !.start = s, !.count = n].key = r.key
           /\ [r EXCEPT !.start = s, !.count = n].id = r.id
           /\ [r EXCEPT !.count = n] \in RowType
           /\ [r EXCEPT !.count = n].key = r.key
           /\ [r EXCEPT !.count = n].id = r.id
BY DEF RowType

LEMMA TypeStep == TypeOK /\ ReqMeans /\ [Next]_vars => TypeOK' /\ ReqMeans'
<1> SUFFICES ASSUME TypeOK, ReqMeans, [Next]_vars
             PROVE  TypeOK' /\ ReqMeans'
  OBVIOUS
<1> USE RateLimitDbAssumption
<1>1. CASE UNCHANGED vars
  BY <1>1 DEF vars, TypeOK, ReqMeans
<1>2. CASE Tick
  BY <1>2 DEF Tick, TypeOK, ReqMeans
<1>3. ASSUME NEW w \in Workers, NEW k \in Keys, Look(w, k)
      PROVE  TypeOK' /\ ReqMeans'
  <2>1. PICK r \in IF RowsOf(k) = {} THEN {NoRow} ELSE RowsOf(k) :
            req' = [req EXCEPT ![w] = [at |-> "write", key |-> k, t |-> clock, seen |-> r]]
    BY <1>3 DEF Look
  <2> DEFINE rec == [at |-> "write", key |-> k, t |-> clock, seen |-> r]
  <2>2. rec \in ReqType /\ rec.key = k /\ rec.at = "write"
    BY <2>1 DEF ReqType, RowsOf, TypeOK
  <2> HIDE DEF rec
  <2>3. /\ req'[w] = rec
        /\ \A u \in Workers : u # w => req'[u] = req[u]
        /\ req' \in [Workers -> ReqType]
    BY <2>1, <2>2, OthersRun DEF rec
  <2>4. k \in Serves[w]
    BY <1>3 DEF Look
  <2>5. ReqMeans'
    BY <2>2, <2>3, <2>4, ReqMeansAfter
  <2>6. QED
    BY <1>3, <2>3, <2>5 DEF Look, TypeOK
<1>4. ASSUME NEW w \in Workers, req[w].at # "idle"
      PROVE  /\ req[w].key \in Keys
             /\ req[w].t \in Nat
             /\ Registered(w) => latest' \in [Keys -> Nat]
             /\ Granted(w) => log' \in [Keys -> Seq(Nat)] /\ told' \in [Keys -> Nat]
             /\ Answer(w) => req' \in [Workers -> ReqType] /\ ReqMeans'
  <2>1. req[w].key \in Keys /\ req[w].t \in Nat
    BY <1>4 DEF ReqMeans, TypeOK, ReqType
  <2>2. Registered(w) => latest' \in [Keys -> Nat]
    BY <2>1 DEF Registered, TypeOK
  <2>3. Granted(w) => log' \in [Keys -> Seq(Nat)] /\ told' \in [Keys -> Nat]
    <3>1. Append(log[req[w].key], req[w].t) \in Seq(Nat)
      BY <2>1 DEF TypeOK
    <3>2. QED
      BY <2>1, <3>1 DEF Granted, TypeOK
  <2>4. Answer(w) => req' \in [Workers -> ReqType] /\ ReqMeans'
    BY IdleTyped, OthersRun, ReqMeansAfter DEF Answer
  <2>5. QED
    BY <2>1, <2>2, <2>3, <2>4
<1>5. ASSUME NEW w \in Workers, InsertWindow(w)
      PROVE  TypeOK' /\ ReqMeans'
  <2>1. PICK i \in 1..MaxRows : /\ lastId' = i
                                /\ rows' = rows \cup {[id |-> i, key |-> req[w].key,
                                                       start |-> req[w].t, count |-> FirstCount]}
    BY <1>5 DEF InsertWindow
  <2>2. req[w].at # "idle"
    BY <1>5 DEF InsertWindow
  <2>3. rows' \subseteq RowType /\ lastId' \in 0..MaxRows
    BY <1>4, <2>1, <2>2 DEF TypeOK, RowType, FirstCount
  <2>4. QED
    BY <1>4, <1>5, <2>2, <2>3 DEF InsertWindow, TypeOK
<1>6. ASSUME NEW w \in Workers, RowGone(w)
      PROVE  TypeOK' /\ ReqMeans'
  BY <1>4, <1>6 DEF RowGone, TypeOK
<1>7. ASSUME NEW w \in Workers, RenewWindow(w)
      PROVE  TypeOK' /\ ReqMeans'
  <2>1. req[w].at # "idle"
    BY <1>7 DEF RenewWindow
  <2>2. rows' \subseteq RowType
    <3>1. PICK r \in RowById(req[w].seen.id) :
              rows' = (rows \ {r}) \cup {[r EXCEPT !.start = req[w].t,
                                                   !.count = RenewedCount(req[w].seen, r)]}
      BY <1>7 DEF RenewWindow
    <3>2. r \in RowType /\ RenewedCount(req[w].seen, r) \in Nat \ {0}
      BY DEF RowById, TypeOK, RowType, RenewedCount, FirstCount
    <3> DEFINE new == [r EXCEPT !.start = req[w].t, !.count = RenewedCount(req[w].seen, r)]
    <3>3. new \in RowType
      BY <1>4, <2>1, <3>2, RowTyped
    <3>4. rows' = (rows \ {r}) \cup {new}
      BY <3>1
    <3> HIDE DEF new
    <3>5. QED
      BY <3>3, <3>4 DEF TypeOK
  <2>3. QED
    BY <1>4, <1>7, <2>1, <2>2 DEF RenewWindow, TypeOK
<1>8. ASSUME NEW w \in Workers, BumpCount(w)
      PROVE  TypeOK' /\ ReqMeans'
  <2>1. req[w].at = "write" /\ req[w].seen # NoRow
    BY <1>8 DEF BumpCount, Expired
  <2>2. req[w].seen \in RowType
    BY <2>1 DEF TypeOK, ReqType
  <2>3. rows' \subseteq RowType
    <3>1. PICK r \in RowById(req[w].seen.id) :
              rows' = (rows \ {r}) \cup {[r EXCEPT !.count = req[w].seen.count + 1]}
      BY <1>8 DEF BumpCount
    <3>2. r \in RowType /\ req[w].seen.count + 1 \in Nat \ {0}
      BY <2>2 DEF RowById, TypeOK, RowType
    <3> DEFINE new == [r EXCEPT !.count = req[w].seen.count + 1]
    <3>3. new \in RowType
      BY <3>2, RowTyped
    <3>4. rows' = (rows \ {r}) \cup {new}
      BY <3>1
    <3> HIDE DEF new
    <3>5. QED
      BY <3>3, <3>4 DEF TypeOK
  <2>4. /\ req' \in [Workers -> ReqType]
        /\ \A u \in Workers : u # w => req'[u] = req[u]
        /\ req'[w].at = "judge" /\ req'[w].key = req[w].key /\ req'[w].seen = req[w].seen
    BY <1>8 DEF BumpCount, TypeOK, ReqType
  <2>5. ReqMeans'
    BY <2>1, <2>4, ReqMeansAfter DEF ReqMeans
  <2>6. QED
    BY <1>4, <1>8, <2>1, <2>3, <2>4, <2>5 DEF BumpCount, TypeOK
<1>9. ASSUME NEW w \in Workers, Judge(w)
      PROVE  TypeOK' /\ ReqMeans'
  <2>1. req[w].at # "idle"
    BY <1>9 DEF Judge
  <2>2. log' \in [Keys -> Seq(Nat)] /\ told' \in [Keys -> Nat]
    <3>1. CASE Granted(w)
      BY <1>4, <2>1, <3>1
    <3>2. ASSUME NEW r \in RowById(req[w].seen.id),
                 told' = [told EXCEPT ![req[w].key] =
                            req[w].t + RetryAfter(r, req[w].t) * TicksPerSecond],
                 UNCHANGED log
          PROVE  log' \in [Keys -> Seq(Nat)] /\ told' \in [Keys -> Nat]
      <4>1. r \in RowType
        BY DEF RowById, TypeOK
      <4>2. req[w].t + RetryAfter(r, req[w].t) * TicksPerSecond \in Nat
        BY <1>4, <2>1, <4>1, RetryAfterType
      <4>3. QED
        BY <3>2, <4>2 DEF TypeOK
    <3>3. QED
      BY <1>9, <3>1, <3>2 DEF Judge
  <2>3. QED
    BY <1>4, <1>9, <2>1, <2>2 DEF Judge, TypeOK
<1>10. ASSUME NEW w \in Workers, NEW k \in Keys, Reset(w, k)
       PROVE  TypeOK' /\ ReqMeans'
  <2>1. rows' \subseteq RowType /\ resets' \in 0..MaxResets
    BY <1>10 DEF Reset, TypeOK
  <2>2. log' \in [Keys -> Seq(Nat)] /\ told' \in [Keys -> Nat]
    BY <1>10 DEF Reset, TypeOK
  <2>3. QED
    BY <1>10, <2>1, <2>2 DEF Reset, TypeOK, ReqMeans
<1>11. QED
  BY <1>1, <1>2, <1>3, <1>5, <1>6, <1>7, <1>8, <1>9, <1>10 DEF Next, HitStep

\* Types, and what a hit in progress knows.
THEOREM Types == Spec => [](TypeOK /\ ReqMeans)
<1>1. Init => TypeOK /\ ReqMeans
  BY RateLimitDbAssumption, IdleTyped DEF Init, TypeOK, ReqMeans
<1>2. QED
  BY <1>1, TypeStep, PTL DEF Spec

\* Every variable keeps its type.
THEOREM TypeCorrect == Spec => []TypeOK
BY Types, PTL

-----------------------------------------------------------------------------
(* RowsPerKey *)

Serving(k) == {w \in Workers : k \in Serves[w]}
Inserting(k) == {w \in Workers : req[w].at = "write" /\ req[w].key = k /\ req[w].seen = NoRow}

\* A thread that decided to INSERT keeps a place for its row.
RoomInv ==
    /\ IsFiniteSet(rows)
    /\ \A k \in Keys : Cardinality(RowsOf(k)) + Cardinality(Inserting(k))
                         <= Cardinality(Serving(k))

LEMMA Sizes ==
    ASSUME TypeOK, ReqMeans, IsFiniteSet(rows), NEW k \in Keys
    PROVE  /\ IsFiniteSet(RowsOf(k)) /\ IsFiniteSet(Inserting(k))
           /\ Cardinality(RowsOf(k)) \in Nat
           /\ Cardinality(Inserting(k)) \in Nat
           /\ Cardinality(Serving(k)) \in Nat
           /\ Cardinality(Inserting(k)) <= Cardinality(Serving(k))
<1>1. RowsOf(k) \subseteq rows /\ Inserting(k) \subseteq Serving(k) /\ Serving(k) \subseteq Workers
  BY DEF RowsOf, Inserting, Serving, ReqMeans
<1>2. IsFiniteSet(Serving(k))
  BY <1>1, RateLimitDbAssumption, FS_Subset
<1>3. QED
  BY <1>1, <1>2, FS_Subset, FS_CardinalityType

\* No row of k is added and no further thread decides to insert one.
LEMMA NoMore ==
    ASSUME TypeOK, ReqMeans, RoomInv, NEW k \in Keys,
           RowsOf(k)' \subseteq RowsOf(k), Inserting(k)' \subseteq Inserting(k)
    PROVE  Cardinality(RowsOf(k)') + Cardinality(Inserting(k)')
             <= Cardinality(Serving(k))
<1>1. /\ Cardinality(RowsOf(k)') \in Nat
      /\ Cardinality(RowsOf(k)') <= Cardinality(RowsOf(k))
      /\ Cardinality(Inserting(k)') \in Nat
      /\ Cardinality(Inserting(k)') <= Cardinality(Inserting(k))
  BY Sizes, FS_Subset, FS_CardinalityType DEF RoomInv
<1>2. QED
  BY <1>1, Sizes DEF RoomInv

LEMMA ReplaceOne ==
    ASSUME NEW S, IsFiniteSet(S), NEW r \in S, NEW n
    PROVE  /\ IsFiniteSet((S \ {r}) \cup {n})
           /\ Cardinality((S \ {r}) \cup {n}) \in Nat
           /\ Cardinality((S \ {r}) \cup {n}) <= Cardinality(S)
<1>1. IsFiniteSet(S \ {r}) /\ Cardinality(S \ {r}) = Cardinality(S) - 1
  BY FS_RemoveElement
<1>2. /\ IsFiniteSet((S \ {r}) \cup {n})
      /\ \/ Cardinality((S \ {r}) \cup {n}) = Cardinality(S \ {r})
         \/ Cardinality((S \ {r}) \cup {n}) = Cardinality(S \ {r}) + 1
  BY <1>1, FS_AddElement
<1>3. Cardinality(S) \in Nat /\ Cardinality((S \ {r}) \cup {n}) \in Nat
  BY <1>2, FS_CardinalityType
<1>4. QED
  BY <1>1, <1>2, <1>3

\* An UPDATE adds no row to any identifier.
LEMMA RowRewritten ==
    ASSUME TypeOK, ReqMeans, RoomInv, NEW r \in rows, NEW n, n.key = r.key,
           rows' = (rows \ {r}) \cup {n},
           \A k \in Keys : Inserting(k)' \subseteq Inserting(k)
    PROVE  RoomInv'
<1>1. IsFiniteSet(rows')
  BY ReplaceOne DEF RoomInv
<1>2. ASSUME NEW k \in Keys
      PROVE  Cardinality(RowsOf(k)') + Cardinality(Inserting(k)') <= Cardinality(Serving(k))
  <2>1. CASE r.key # k
    BY <1>2, <2>1, NoMore DEF RowsOf
  <2>2. CASE r.key = k
    <3>1. RowsOf(k)' = (RowsOf(k) \ {r}) \cup {n} /\ r \in RowsOf(k)
      BY <2>2 DEF RowsOf
    <3>2. /\ Cardinality(RowsOf(k)') \in Nat
          /\ Cardinality(RowsOf(k)') <= Cardinality(RowsOf(k))
      BY <3>1, Sizes, ReplaceOne DEF RoomInv
    <3>3. /\ Cardinality(Inserting(k)') \in Nat
          /\ Cardinality(Inserting(k)') <= Cardinality(Inserting(k))
      BY <1>2, Sizes, FS_Subset, FS_CardinalityType DEF RoomInv
    <3>4. QED
      BY <1>2, <3>2, <3>3, Sizes DEF RoomInv
  <2>3. QED
    BY <2>1, <2>2
<1>3. QED
  BY <1>1, <1>2 DEF RoomInv, Serving

\* Nothing is inserted, and no thread finds an identifier without rows.
LEMMA RowsFewer ==
    ASSUME TypeOK, ReqMeans, RoomInv, rows' \subseteq rows,
           \A k \in Keys : Inserting(k)' \subseteq Inserting(k)
    PROVE  RoomInv'
<1>1. IsFiniteSet(rows')
  BY FS_Subset DEF RoomInv
<1>2. ASSUME NEW k \in Keys
      PROVE  Cardinality(RowsOf(k)') + Cardinality(Inserting(k)') <= Cardinality(Serving(k))
  BY <1>2, NoMore DEF RowsOf
<1>3. QED
  BY <1>1, <1>2 DEF RoomInv, Serving

LEMMA RoomStep == TypeOK /\ ReqMeans /\ RoomInv /\ [Next]_vars => RoomInv'
<1> SUFFICES ASSUME TypeOK, ReqMeans, RoomInv, [Next]_vars
             PROVE  RoomInv'
  OBVIOUS
<1>1. CASE UNCHANGED vars
  BY <1>1, RowsFewer DEF vars, Inserting
<1>2. CASE Tick
  BY <1>2, RowsFewer DEF Tick, Inserting
<1>3. ASSUME NEW w \in Workers, NEW k \in Keys, Look(w, k)
      PROVE  RoomInv'
  <2>1. PICK r \in IF RowsOf(k) = {} THEN {NoRow} ELSE RowsOf(k) :
            req' = [req EXCEPT ![w] = [at |-> "write", key |-> k, t |-> clock, seen |-> r]]
    BY <1>3 DEF Look
  <2>2. /\ req'[w] = [at |-> "write", key |-> k, t |-> clock, seen |-> r]
        /\ \A u \in Workers : u # w => req'[u] = req[u]
    BY <2>1, OthersRun
  <2>3. rows' = rows
    BY <1>3 DEF Look
  <2>4. ASSUME NEW l \in Keys
        PROVE  Cardinality(RowsOf(l)') + Cardinality(Inserting(l)') <= Cardinality(Serving(l))
    <3>1. CASE l # k \/ RowsOf(k) # {}
      <4>1. r = NoRow => RowsOf(k) = {}
        BY <2>1, RateLimitDbAssumption DEF RowsOf, NoRow
      <4>2. Inserting(l)' \subseteq Inserting(l)
        BY <2>2, <3>1, <4>1 DEF Inserting
      <4>3. QED
        BY <2>3, <2>4, <4>2, NoMore DEF RowsOf
    <3>2. CASE l = k /\ RowsOf(k) = {}
      <4>1. Cardinality(RowsOf(l)') = 0
        BY <2>3, <3>2, FS_EmptySet DEF RowsOf
      <4>2. Inserting(l)' \subseteq Serving(l)
        BY <1>3, <2>2, <3>2 DEF Inserting, Serving, ReqMeans, Look
      <4>3. IsFiniteSet(Serving(l))
        BY RateLimitDbAssumption, FS_Subset DEF Serving
      <4>4. /\ Cardinality(Inserting(l)') \in Nat
            /\ Cardinality(Inserting(l)') <= Cardinality(Serving(l))
        BY <4>2, <4>3, FS_Subset, FS_CardinalityType
      <4>5. QED
        BY <4>1, <4>4
    <3>3. QED
      BY <3>1, <3>2
  <2>5. QED
    BY <2>3, <2>4 DEF RoomInv, Serving
<1>4. ASSUME NEW w \in Workers, NEW k \in Keys, Answer(w)
      PROVE  Inserting(k)' = Inserting(k) \ {w}
  BY <1>4, IdleTyped, OthersRun DEF Answer, Inserting
<1>5. ASSUME NEW w \in Workers, InsertWindow(w)
      PROVE  RoomInv'
  <2>1. PICK i \in 1..MaxRows :
            rows' = rows \cup {[id |-> i, key |-> req[w].key, start |-> req[w].t, count |-> FirstCount]}
    BY <1>5 DEF InsertWindow
  <2> DEFINE new == [id |-> i, key |-> req[w].key, start |-> req[w].t, count |-> FirstCount]
  <2>2. rows' = rows \cup {new} /\ new.key = req[w].key
    BY <2>1
  <2> HIDE DEF new
  <2>3. Answer(w) /\ w \in Inserting(req[w].key) /\ req[w].key \in Keys
    BY <1>5 DEF InsertWindow, NeedsRow, Inserting, ReqMeans
  <2>4. IsFiniteSet(rows')
    BY <2>2, FS_AddElement DEF RoomInv
  <2>5. ASSUME NEW k \in Keys
        PROVE  Cardinality(RowsOf(k)') + Cardinality(Inserting(k)') <= Cardinality(Serving(k))
    <3>1. CASE k # req[w].key
      <4>1. RowsOf(k)' = RowsOf(k) /\ Inserting(k)' \subseteq Inserting(k)
        BY <1>4, <2>2, <2>3, <2>5, <3>1 DEF RowsOf
      <4>2. QED
        BY <2>5, <4>1, NoMore
    <3>2. CASE k = req[w].key
      <4>1. RowsOf(k)' = RowsOf(k) \cup {new} /\ Inserting(k)' = Inserting(k) \ {w}
        BY <1>4, <2>2, <2>3, <2>5, <3>2 DEF RowsOf
      <4>2. \/ Cardinality(RowsOf(k)') = Cardinality(RowsOf(k))
            \/ Cardinality(RowsOf(k)') = Cardinality(RowsOf(k)) + 1
        BY <2>5, <4>1, Sizes, FS_AddElement DEF RoomInv
      <4>3. Cardinality(Inserting(k)') = Cardinality(Inserting(k)) - 1
        BY <2>3, <2>5, <3>2, <4>1, Sizes, FS_RemoveElement DEF RoomInv
      <4>4. QED
        BY <2>5, <4>2, <4>3, Sizes DEF RoomInv
    <3>3. QED
      BY <3>1, <3>2
  <2>6. QED
    BY <2>4, <2>5 DEF RoomInv, Serving
<1>6. ASSUME NEW w \in Workers, RowGone(w)
      PROVE  RoomInv'
  BY <1>4, <1>6, RowsFewer DEF RowGone
<1>7. ASSUME NEW w \in Workers, RenewWindow(w)
      PROVE  RoomInv'
  <2>1. PICK r \in RowById(req[w].seen.id) :
            rows' = (rows \ {r}) \cup {[r EXCEPT !.start = req[w].t,
                                                 !.count = RenewedCount(req[w].seen, r)]}
    BY <1>7 DEF RenewWindow
  <2> DEFINE new == [r EXCEPT !.start = req[w].t, !.count = RenewedCount(req[w].seen, r)]
  <2>2. r \in rows /\ r \in RowType
    BY DEF RowById, TypeOK
  <2>3. new.key = r.key
    BY <2>2 DEF RowType
  <2>4. rows' = (rows \ {r}) \cup {new}
    BY <2>1
  <2> HIDE DEF new
  <2>5. \A k \in Keys : Inserting(k)' \subseteq Inserting(k)
    BY <1>4, <1>7 DEF RenewWindow
  <2>6. QED
    BY <2>2, <2>3, <2>4, <2>5, RowRewritten
<1>8. ASSUME NEW w \in Workers, BumpCount(w)
      PROVE  RoomInv'
  <2>1. PICK r \in RowById(req[w].seen.id) :
            rows' = (rows \ {r}) \cup {[r EXCEPT !.count = req[w].seen.count + 1]}
    BY <1>8 DEF BumpCount
  <2> DEFINE new == [r EXCEPT !.count = req[w].seen.count + 1]
  <2>2. r \in rows /\ r \in RowType
    BY DEF RowById, TypeOK
  <2>3. new.key = r.key
    BY <2>2 DEF RowType
  <2>4. rows' = (rows \ {r}) \cup {new}
    BY <2>1
  <2> HIDE DEF new
  <2>5. \A k \in Keys : Inserting(k)' \subseteq Inserting(k)
    BY <1>8 DEF BumpCount, TypeOK, ReqType, Inserting
  <2>6. QED
    BY <2>2, <2>3, <2>4, <2>5, RowRewritten
<1>9. ASSUME NEW w \in Workers, Judge(w)
      PROVE  RoomInv'
  BY <1>4, <1>9, RowsFewer DEF Judge
<1>10. ASSUME NEW w \in Workers, NEW k \in Keys, Reset(w, k)
       PROVE  RoomInv'
  BY <1>10, RowsFewer DEF Reset, Inserting
<1>11. QED
  BY <1>1, <1>2, <1>3, <1>5, <1>6, <1>7, <1>8, <1>9, <1>10 DEF Next, HitStep

\* Types, what a hit in progress knows, and the room for rows, always.
THEOREM Room == Spec => [](TypeOK /\ ReqMeans /\ RoomInv)
<1>1. Init => RoomInv
  <2> SUFFICES ASSUME Init PROVE RoomInv
    OBVIOUS
  <2>1. IsFiniteSet(rows) /\ \A k \in Keys : RowsOf(k) = {} /\ Inserting(k) = {}
    BY FS_EmptySet DEF Init, RowsOf, Inserting, IdleReq
  <2>2. \A k \in Keys : Cardinality(Serving(k)) \in Nat
    BY RateLimitDbAssumption, FS_Subset, FS_CardinalityType DEF Serving
  <2>3. QED
    BY <2>1, <2>2, FS_EmptySet DEF RoomInv
<1>2. QED
  BY <1>1, Types, RoomStep, PTL DEF Spec

\* A key never has more rows than threads that serve it, although nothing in
\* the table forbids it and resets and inserts interleave freely.
THEOREM TableIsBounded == Spec => []RowsPerKey
<1>1. TypeOK /\ ReqMeans /\ RoomInv => RowsPerKey
  BY Sizes DEF RoomInv, RowsPerKey, Serving
<1>2. QED
  BY <1>1, Room, PTL

-----------------------------------------------------------------------------
(* The refinement *)

\* Ids that are not handed out twice identify a row for good: what a thread
\* has read may be changed or deleted, but no other identifier's row takes its
\* place.
IdInv ==
    /\ \A r \in rows : r.id <= lastId
    /\ \A r, s \in rows : r.id = s.id => r = s
    /\ \A w \in Workers : req[w].at # "idle" =>
          /\ req[w].seen.id <= lastId
          /\ \A r \in rows : r.id = req[w].seen.id => r.key = req[w].key

ClockInv ==
    /\ clock \in Instants
    /\ \A k \in Keys : latest[k] <= clock
    /\ \A w \in Workers : req[w].at # "idle" => req[w].t \in Instants /\ req[w].t <= clock

\* The row of an identifier that one thread serves is, between the statements
\* of the thread, the one it has read; after the UPDATE it is that row with
\* other values.
SoloInv == \A k \in SoloKeys :
    /\ \A r, s \in RowsOf(k) : r = s
    /\ \A w \in Workers : req[w].key = k =>
          /\ req[w].at = "write" =>
                /\ RowsOf(k) = IF req[w].seen = NoRow THEN {} ELSE {req[w].seen}
                /\ latest[k] <= req[w].t
          /\ req[w].at = "judge" => \E r \in RowsOf(k) : r.id = req[w].seen.id

LEMMA Alone ==
    ASSUME NEW k \in SoloKeys, NEW u \in Workers, NEW w \in Workers,
           k \in Serves[u], k \in Serves[w]
    PROVE  u = w
<1>1. Serving(k) \subseteq Workers /\ u \in Serving(k) /\ w \in Serving(k)
  BY DEF Serving
<1>2. IsFiniteSet(Serving(k)) /\ Cardinality(Serving(k)) <= 1
  BY <1>1, RateLimitDbAssumption, FS_Subset DEF SoloKeys, Serving
<1>3. SUFFICES ASSUME u # w PROVE FALSE
  OBVIOUS
<1>4. {u, w} \subseteq Serving(k)
  BY <1>1
<1>5. Cardinality({u, w}) = 2
  <2>1. IsFiniteSet({u}) /\ Cardinality({u}) = 1
    BY FS_Singleton
  <2>2. Cardinality({u} \cup {w}) = Cardinality({u}) + 1
    <3>1. w \notin {u}
      BY <1>3
    <3>2. QED
      BY <2>1, <3>1, FS_AddElement
  <2>3. QED
    BY <2>1, <2>2, {u, w} = {u} \cup {w}
<1>6. Cardinality({u, w}) <= Cardinality(Serving(k)) /\ Cardinality(Serving(k)) \in Nat
  BY <1>2, <1>4, FS_Subset, FS_CardinalityType
<1>7. QED
  BY <1>2, <1>5, <1>6

\* An UPDATE of the row a thread has read changes a row of its identifier and
\* leaves those of the others alone.
LEMMA TouchesOwnRow ==
    ASSUME TypeOK, IdInv, NEW w \in Workers, req[w].at # "idle",
           NEW k, k = req[w].key,
           NEW r \in RowById(req[w].seen.id), NEW n, n.key = r.key,
           rows' = (rows \ {r}) \cup {n}
    PROVE  /\ r \in RowsOf(k)
           /\ RowsOf(k)' = (RowsOf(k) \ {r}) \cup {n}
           /\ \A l : l # k => RowsOf(l)' = RowsOf(l)
<1>1. r \in rows /\ r.key = k
  BY DEF RowById, IdInv
<1>2. QED
  BY <1>1 DEF RowsOf

\* Nothing is inserted, rows keep their ids and identifiers.
LEMMA IdsKept ==
    ASSUME TypeOK, IdInv, lastId' = lastId,
           \A r \in rows' : \E s \in rows : s.id = r.id /\ s.key = r.key,
           \A r, s \in rows' : r.id = s.id => r = s,
           \A w \in Workers : req'[w].at # "idle" =>
              req[w].at # "idle" /\ req'[w].seen = req[w].seen /\ req'[w].key = req[w].key
    PROVE  IdInv'
BY DEF IdInv

LEMMA IdsRewritten ==
    ASSUME TypeOK, IdInv, lastId' = lastId,
           NEW r \in rows, NEW n, n.id = r.id, n.key = r.key, rows' = (rows \ {r}) \cup {n},
           \A w \in Workers : req'[w].at # "idle" =>
              req[w].at # "idle" /\ req'[w].seen = req[w].seen /\ req'[w].key = req[w].key
    PROVE  IdInv'
<1>1. \A x \in rows' : \E s \in rows : s.id = x.id /\ s.key = x.key
  OBVIOUS
<1>2. \A x, s \in rows' : x.id = s.id => x = s
  BY DEF IdInv
<1>3. QED
  BY <1>1, <1>2, IdsKept

LEMMA Looked ==
    ASSUME TypeOK, NEW w \in Workers, NEW k \in Keys, Look(w, k)
    PROVE  /\ req[w].at = "idle" /\ k \in Serves[w]
           /\ req'[w].at = "write" /\ req'[w].key = k /\ req'[w].t = clock
           /\ req'[w].seen \in IF RowsOf(k) = {} THEN {NoRow} ELSE RowsOf(k)
           /\ \A u \in Workers : u # w => req'[u] = req[u]
<1>1. PICK r \in IF RowsOf(k) = {} THEN {NoRow} ELSE RowsOf(k) :
          req' = [req EXCEPT ![w] = [at |-> "write", key |-> k, t |-> clock, seen |-> r]]
  BY DEF Look
<1>2. /\ req'[w] = [at |-> "write", key |-> k, t |-> clock, seen |-> r]
      /\ \A u \in Workers : u # w => req'[u] = req[u]
  BY <1>1, OthersRun
<1>3. QED
  BY <1>1, <1>2 DEF Look

LEMMA Answered ==
    ASSUME TypeOK, NEW w \in Workers, Answer(w)
    PROVE  /\ req'[w] = IdleReq /\ req'[w].at = "idle"
           /\ \A u \in Workers : u # w => req'[u] = req[u]
BY IdleTyped, OthersRun DEF Answer

LEMMA Bumped ==
    ASSUME TypeOK, NEW w \in Workers, BumpCount(w)
    PROVE  /\ req[w].at = "write" /\ req'[w].at = "judge" /\ req'[w].key = req[w].key
           /\ req'[w].seen = req[w].seen /\ req'[w].t = req[w].t
           /\ \A u \in Workers : u # w => req'[u] = req[u]
           /\ req[w].seen # NoRow
BY DEF BumpCount, TypeOK, ReqType, Expired

\* The row an UPDATE writes.
Renewed(w, r) == [r EXCEPT !.start = req[w].t, !.count = RenewedCount(req[w].seen, r)]
Counted(w, r) == [r EXCEPT !.count = req[w].seen.count + 1]

LEMMA WrittenRow ==
    ASSUME TypeOK, NEW w \in Workers, NEW r \in RowById(req[w].seen.id)
    PROVE  /\ r \in rows /\ r \in RowType /\ r.id = req[w].seen.id
           /\ Renewed(w, r).key = r.key /\ Renewed(w, r).id = r.id
           /\ Renewed(w, r).start = req[w].t
           /\ Renewed(w, r).count = RenewedCount(req[w].seen, r)
           /\ Counted(w, r).key = r.key /\ Counted(w, r).id = r.id
           /\ Counted(w, r).start = r.start
           /\ Counted(w, r).count = req[w].seen.count + 1
BY DEF RowById, TypeOK, RowType, Renewed, Counted

LEMMA IdStep == TypeOK /\ ReqMeans /\ IdInv /\ ~ReusesIds /\ [Next]_vars => IdInv'
<1> SUFFICES ASSUME TypeOK, ReqMeans, IdInv, ~ReusesIds, [Next]_vars
             PROVE  IdInv'
  OBVIOUS
<1>1. CASE UNCHANGED vars
  BY <1>1 DEF vars, IdInv
<1>2. CASE Tick
  BY <1>2 DEF Tick, IdInv
<1>3. ASSUME NEW w \in Workers, NEW k \in Keys, Look(w, k)
      PROVE  IdInv'
  <2> DEFINE r == req'[w].seen
  <2>1. r \in IF RowsOf(k) = {} THEN {NoRow} ELSE RowsOf(k)
    BY <1>3, Looked
  <2>2. /\ req'[w].key = k
        /\ \A u \in Workers : u # w => req'[u] = req[u]
    BY <1>3, Looked
  <2>3. rows' = rows /\ lastId' = lastId
    BY <1>3 DEF Look
  <2>4. r.id <= lastId /\ \A s \in rows : s.id = r.id => s.key = k
    <3>1. CASE RowsOf(k) = {}
      BY <2>1, <3>1 DEF NoRow, TypeOK, RowType
    <3>2. CASE RowsOf(k) # {}
      BY <2>1, <3>2 DEF RowsOf, IdInv
    <3>3. QED
      BY <3>1, <3>2
  <2>5. QED
    BY <2>2, <2>3, <2>4 DEF IdInv
<1>4. ASSUME NEW w \in Workers, InsertWindow(w)
      PROVE  IdInv'
  <2>1. PICK i \in 1..MaxRows : /\ NewId(i) /\ lastId' = i
                                /\ rows' = rows \cup {[id |-> i, key |-> req[w].key,
                                                       start |-> req[w].t, count |-> FirstCount]}
    BY <1>4 DEF InsertWindow
  <2> DEFINE new == [id |-> i, key |-> req[w].key, start |-> req[w].t, count |-> FirstCount]
  <2>2. rows' = rows \cup {new} /\ new.id = i
    BY <2>1
  <2> HIDE DEF new
  <2>3. i = lastId + 1 /\ lastId' = i /\ lastId \in Nat
    BY <2>1 DEF NewId, TypeOK
  <2>4. /\ req'[w].at = "idle"
        /\ \A u \in Workers : u # w => req'[u] = req[u]
    BY <1>4, Answered DEF InsertWindow
  <2>5. /\ \A r \in rows : r.id <= lastId /\ r.id \in Nat
        /\ \A u \in Workers : req[u].at # "idle" => req[u].seen.id <= lastId /\ req[u].seen.id \in Nat
    BY DEF IdInv, TypeOK, RowType, ReqType, NoRow
  <2>6. /\ \A r \in rows' : r.id <= lastId'
        /\ \A r, s \in rows' : r.id = s.id => r = s
    BY <2>2, <2>3, <2>5 DEF IdInv
  <2>7. ASSUME NEW u \in Workers, req'[u].at # "idle"
        PROVE  /\ req'[u].seen.id <= lastId'
               /\ \A r \in rows' : r.id = req'[u].seen.id => r.key = req'[u].key
    BY <2>2, <2>3, <2>4, <2>5, <2>7 DEF IdInv
  <2>8. QED
    BY <2>6, <2>7 DEF IdInv
<1>5. ASSUME NEW w \in Workers, RowGone(w)
      PROVE  IdInv'
  BY <1>5, Answered DEF RowGone, IdInv
<1>6. ASSUME NEW w \in Workers, RenewWindow(w)
      PROVE  IdInv'
  <2>1. PICK r \in RowById(req[w].seen.id) : rows' = (rows \ {r}) \cup {Renewed(w, r)}
    BY <1>6 DEF RenewWindow, Renewed
  <2>2. QED
    BY <1>6, <2>1, WrittenRow, Answered, IdsRewritten DEF RenewWindow
<1>7. ASSUME NEW w \in Workers, BumpCount(w)
      PROVE  IdInv'
  <2>1. PICK r \in RowById(req[w].seen.id) : rows' = (rows \ {r}) \cup {Counted(w, r)}
    BY <1>7 DEF BumpCount, Counted
  <2>2. lastId' = lastId
    BY <1>7 DEF BumpCount
  <2>3. \A u \in Workers : req'[u].at # "idle" =>
          req[u].at # "idle" /\ req'[u].seen = req[u].seen /\ req'[u].key = req[u].key
    BY <1>7, Bumped
  <2>4. QED
    BY <2>1, <2>2, <2>3, WrittenRow, IdsRewritten
<1>8. ASSUME NEW w \in Workers, Judge(w)
      PROVE  IdInv'
  BY <1>8, Answered DEF Judge, IdInv
<1>9. ASSUME NEW w \in Workers, NEW k \in Keys, Reset(w, k)
      PROVE  IdInv'
  BY <1>9 DEF Reset, IdInv
<1>10. QED
  BY <1>1, <1>2, <1>3, <1>4, <1>5, <1>6, <1>7, <1>8, <1>9 DEF Next, HitStep

LEMMA ClockStep == TypeOK /\ ReqMeans /\ ClockInv /\ [Next]_vars => ClockInv'
<1> SUFFICES ASSUME TypeOK, ReqMeans, ClockInv, [Next]_vars
             PROVE  ClockInv'
  OBVIOUS
<1>1. CASE UNCHANGED vars
  BY <1>1 DEF vars, ClockInv
<1>2. CASE Tick
  BY <1>2 DEF Tick, ClockInv, TypeOK, ReqType
<1>3. ASSUME NEW w \in Workers, NEW k \in Keys, Look(w, k)
      PROVE  ClockInv'
  BY <1>3, Looked DEF Look, ClockInv, TypeOK
<1>4. ASSUME NEW w \in Workers, req[w].at # "idle", Registered(w) \/ UNCHANGED latest,
             clock' = clock
      PROVE  \A k \in Keys : latest'[k] <= clock'
  BY <1>4 DEF Registered, ClockInv, TypeOK, ReqMeans
<1>5. ASSUME NEW w \in Workers, InsertWindow(w) \/ RenewWindow(w) \/ RowGone(w) \/ Judge(w)
      PROVE  ClockInv'
  <2>1. req[w].at # "idle" /\ (Registered(w) \/ UNCHANGED latest) /\ clock' = clock /\ Answer(w)
    BY <1>5 DEF InsertWindow, RenewWindow, RowGone, Judge
  <2>2. \A u \in Workers : req'[u].at # "idle" => req'[u].t \in Instants /\ req'[u].t <= clock'
    BY <2>1, Answered DEF ClockInv
  <2>3. QED
    BY <1>4, <2>1, <2>2 DEF ClockInv
<1>6. ASSUME NEW w \in Workers, BumpCount(w)
      PROVE  ClockInv'
  <2>1. req[w].at # "idle" /\ Registered(w) /\ clock' = clock
    BY <1>6 DEF BumpCount
  <2>2. \A u \in Workers : req'[u].at # "idle" => req'[u].t \in Instants /\ req'[u].t <= clock'
    BY <1>6, <2>1, Bumped DEF ClockInv
  <2>3. QED
    BY <1>4, <2>1, <2>2 DEF ClockInv
<1>7. ASSUME NEW w \in Workers, NEW k \in Keys, Reset(w, k)
      PROVE  ClockInv'
  BY <1>7 DEF Reset, ClockInv
<1>8. QED
  BY <1>1, <1>2, <1>3, <1>5, <1>6, <1>7 DEF Next, HitStep

\* The part of SoloInv about one identifier.
SoloAt(k) ==
    /\ \A r, s \in RowsOf(k) : r = s
    /\ \A w \in Workers : req[w].key = k =>
          /\ req[w].at = "write" =>
                /\ RowsOf(k) = IF req[w].seen = NoRow THEN {} ELSE {req[w].seen}
                /\ latest[k] <= req[w].t
          /\ req[w].at = "judge" => \E r \in RowsOf(k) : r.id = req[w].seen.id

\* The rows of k and its latest hit stay, and no hit for k goes on.
LEMMA SoloKept ==
    ASSUME TypeOK, NEW k \in SoloKeys, SoloAt(k),
           RowsOf(k)' = RowsOf(k), latest'[k] = latest[k],
           \A w \in Workers : req'[w].key = k /\ req'[w].at # "idle" => req'[w] = req[w]
    PROVE  SoloAt(k)'
BY DEF SoloAt

\* No thread executes a hit for k after the step.
LEMMA SoloIdle ==
    ASSUME NEW k \in SoloKeys, \A r, s \in RowsOf(k)' : r = s,
           \A w \in Workers : req'[w].key = k => req'[w].at = "idle"
    PROVE  SoloAt(k)'
BY DEF SoloAt

\* While a thread executes a hit for k no other thread does.
LEMMA OnlyOne ==
    ASSUME ReqMeans, NEW k \in SoloKeys, NEW w \in Workers, k \in Serves[w],
           NEW u \in Workers, req[u].at # "idle", req[u].key = k
    PROVE  u = w
BY Alone DEF ReqMeans

\* What the step that ends with an answer leaves of the hits in progress.
LEMMA NoneLeft ==
    ASSUME TypeOK, ReqMeans, NEW k \in SoloKeys, NEW w \in Workers, k \in Serves[w], Answer(w)
    PROVE  \A u \in Workers : req'[u].key = k => req'[u].at = "idle"
BY Answered, OnlyOne

LEMMA SoloStep ==
    TypeOK /\ ReqMeans /\ IdInv /\ ClockInv /\ SoloInv /\ [Next]_vars => SoloInv'
<1> SUFFICES ASSUME TypeOK, ReqMeans, IdInv, ClockInv, [Next]_vars, NEW k \in SoloKeys, SoloAt(k)
             PROVE  SoloAt(k)'
  BY DEF SoloInv, SoloAt
<1>a. k \in Keys
  BY DEF SoloKeys
<1>1. CASE UNCHANGED vars
  BY <1>1, SoloKept DEF vars, RowsOf
<1>2. CASE Tick
  BY <1>2, SoloKept DEF Tick, RowsOf
<1>3. ASSUME NEW w \in Workers, NEW l \in Keys, Look(w, l)
      PROVE  SoloAt(k)'
  <2>1. RowsOf(k)' = RowsOf(k) /\ latest' = latest
    BY <1>3 DEF Look, RowsOf
  <2>2. CASE l # k
    BY <1>3, <2>1, <2>2, Looked, SoloKept
  <2>3. CASE l = k
    <3>1. RowsOf(k) = IF req'[w].seen = NoRow THEN {} ELSE {req'[w].seen}
      <4>1. req'[w].seen \in IF RowsOf(k) = {} THEN {NoRow} ELSE RowsOf(k)
        BY <1>3, <2>3, Looked
      <4>2. NoRow \notin RowsOf(k)
        BY <1>a, RateLimitDbAssumption DEF RowsOf, NoRow
      <4>3. QED
        BY <4>1, <4>2 DEF SoloAt
    <3>2. latest[k] <= req'[w].t
      BY <1>3, <1>a, Looked DEF ClockInv
    <3>3. \A u \in Workers : u # w /\ req'[u].key = k => req'[u].at = "idle"
      BY <1>3, <2>3, Looked, OnlyOne DEF TypeOK, ReqType
    <3>4. ASSUME NEW u \in Workers, req'[u].key = k
          PROVE  /\ req'[u].at = "write" =>
                      /\ RowsOf(k)' = IF req'[u].seen = NoRow THEN {} ELSE {req'[u].seen}
                      /\ latest'[k] <= req'[u].t
                 /\ req'[u].at # "judge"
      <4>1. CASE u = w
        BY <1>3, <2>1, <3>1, <3>2, <4>1, Looked
      <4>2. CASE u # w
        BY <3>3, <3>4, <4>2
      <4>3. QED
        BY <4>1, <4>2
    <3>5. \A r, s \in RowsOf(k)' : r = s
      BY <2>1 DEF SoloAt
    <3>6. QED
      BY <3>4, <3>5 DEF SoloAt
  <2>4. QED
    BY <2>2, <2>3
<1>4. ASSUME NEW w \in Workers, req[w].at # "idle", Registered(w) \/ UNCHANGED latest, req[w].key # k
      PROVE  latest'[k] = latest[k]
  BY <1>4, <1>a DEF Registered, TypeOK, ReqMeans
<1>5. ASSUME NEW w \in Workers, InsertWindow(w)
      PROVE  SoloAt(k)'
  <2>1. PICK i \in 1..MaxRows :
            rows' = rows \cup {[id |-> i, key |-> req[w].key, start |-> req[w].t, count |-> FirstCount]}
    BY <1>5 DEF InsertWindow
  <2>2. /\ req[w].at = "write" /\ req[w].seen = NoRow /\ req[w].key \in Serves[w]
        /\ Registered(w) /\ Answer(w)
    BY <1>5 DEF InsertWindow, NeedsRow, ReqMeans
  <2>3. CASE req[w].key # k
    <3>1. RowsOf(k)' = RowsOf(k)
      BY <2>1, <2>3 DEF RowsOf
    <3>2. QED
      BY <1>4, <2>2, <2>3, <3>1, Answered, SoloKept
  <2>4. CASE req[w].key = k
    <3>1. RowsOf(k) = {}
      BY <2>2, <2>4 DEF SoloAt
    <3>2. \A r, s \in RowsOf(k)' : r = s
      BY <2>1, <3>1 DEF RowsOf
    <3>3. QED
      BY <2>2, <2>4, <3>2, NoneLeft, SoloIdle
  <2>5. QED
    BY <2>3, <2>4
<1>6. ASSUME NEW w \in Workers, RowGone(w) \/ Judge(w)
      PROVE  SoloAt(k)'
  <2>1. req[w].at # "idle" /\ UNCHANGED <<rows, latest>> /\ Answer(w)
    BY <1>6 DEF RowGone, Judge
  <2>2. RowsOf(k)' = RowsOf(k)
    BY <2>1 DEF RowsOf
  <2>3. QED
    BY <2>1, <2>2, Answered, SoloKept
<1>7. ASSUME NEW w \in Workers, RenewWindow(w)
      PROVE  SoloAt(k)'
  <2>1. PICK r \in RowById(req[w].seen.id) : rows' = (rows \ {r}) \cup {Renewed(w, r)}
    BY <1>7 DEF RenewWindow, Renewed
  <2>2. req[w].at # "idle" /\ Registered(w) /\ Answer(w) /\ req[w].key \in Serves[w]
    BY <1>7 DEF RenewWindow, ReqMeans
  <2>3. CASE req[w].key # k
    <3>1. RowsOf(k)' = RowsOf(k)
      BY <2>1, <2>2, <2>3, WrittenRow, TouchesOwnRow
    <3>2. QED
      BY <1>4, <2>2, <2>3, <3>1, Answered, SoloKept
  <2>4. CASE req[w].key = k
    <3>1. RowsOf(k)' = (RowsOf(k) \ {r}) \cup {Renewed(w, r)} /\ r \in RowsOf(k)
      BY <2>1, <2>2, <2>4, WrittenRow, TouchesOwnRow
    <3>2. \A x, s \in RowsOf(k)' : x = s
      BY <3>1 DEF SoloAt
    <3>3. QED
      BY <2>2, <2>4, <3>2, NoneLeft, SoloIdle
  <2>5. QED
    BY <2>3, <2>4
<1>8. ASSUME NEW w \in Workers, BumpCount(w)
      PROVE  SoloAt(k)'
  <2>1. PICK r \in RowById(req[w].seen.id) : rows' = (rows \ {r}) \cup {Counted(w, r)}
    BY <1>8 DEF BumpCount, Counted
  <2>2. req[w].at # "idle" /\ Registered(w) /\ req[w].key \in Serves[w]
    BY <1>8 DEF BumpCount, ReqMeans
  <2>3. CASE req[w].key # k
    <3>1. RowsOf(k)' = RowsOf(k)
      BY <2>1, <2>2, <2>3, WrittenRow, TouchesOwnRow
    <3>2. QED
      BY <1>4, <1>8, <2>2, <2>3, <3>1, Bumped, SoloKept
  <2>4. CASE req[w].key = k
    <3>1. RowsOf(k)' = (RowsOf(k) \ {r}) \cup {Counted(w, r)} /\ r \in RowsOf(k)
      BY <2>1, <2>2, <2>4, WrittenRow, TouchesOwnRow
    <3>2. \A x, s \in RowsOf(k)' : x = s
      BY <3>1 DEF SoloAt
    <3>3. \E x \in RowsOf(k)' : x.id = req'[w].seen.id
      BY <1>8, <3>1, WrittenRow, Bumped
    <3>4. \A u \in Workers : u # w /\ req'[u].key = k => req'[u].at = "idle"
      BY <1>8, <2>2, <2>4, Bumped, OnlyOne
    <3>5. ASSUME NEW u \in Workers, req'[u].key = k
          PROVE  /\ req'[u].at # "write"
                 /\ req'[u].at = "judge" => \E x \in RowsOf(k)' : x.id = req'[u].seen.id
      <4>1. CASE u = w
        BY <1>8, <3>3, <4>1, Bumped
      <4>2. CASE u # w
        BY <3>4, <3>5, <4>2
      <4>3. QED
        BY <4>1, <4>2
    <3>6. QED
      BY <3>2, <3>5 DEF SoloAt
  <2>5. QED
    BY <2>3, <2>4
<1>9. ASSUME NEW w \in Workers, NEW l \in Keys, Reset(w, l)
      PROVE  SoloAt(k)'
  <2>1. req[w].at = "idle" /\ l \in Serves[w] /\ rows' = rows \ RowsOf(l) /\ UNCHANGED <<req, latest>>
    BY <1>9 DEF Reset
  <2>2. CASE l # k
    <3>1. RowsOf(k)' = RowsOf(k)
      BY <2>1, <2>2 DEF RowsOf
    <3>2. QED
      BY <2>1, <3>1, SoloKept
  <2>3. CASE l = k
    <3>1. \A r, s \in RowsOf(k)' : r = s
      BY <2>1, <2>3 DEF RowsOf
    <3>2. \A u \in Workers : req'[u].key = k => req'[u].at = "idle"
      BY <2>1, <2>3, OnlyOne
    <3>3. QED
      BY <3>1, <3>2, SoloIdle
  <2>4. QED
    BY <2>2, <2>3
<1>10. QED
  BY <1>1, <1>2, <1>3, <1>5, <1>6, <1>7, <1>8, <1>9 DEF Next, HitStep

\* The refinement mapping, identifier by identifier: GrantedOf, LogOf and ToldOf
\* are what Sequential substitutes for granted, log and told.
The(S) == CHOOSE x \in S : TRUE
GrantedOf(k) == IF WindowOf(k).count <= MaxCount THEN WindowOf(k).count ELSE MaxCount
LogOf(k) == IF Deciding(k) # {} /\ WindowOf(k).count <= MaxCount
            THEN Append(log[k], DecidedT(k)) ELSE log[k]
ToldOf(k) == IF Deciding(k) = {} THEN told[k]
             ELSE IF WindowOf(k).count <= MaxCount THEN 0
             ELSE DecidedT(k) + TicksPerSecond * RetryAfter(WindowOf(k), DecidedT(k))

LEMMA TheOnly == ASSUME NEW x PROVE The({x}) = x
BY DEF The

LEMMA WindowIs ==
    ASSUME NEW k
    PROVE  /\ RowsOf(k) = {} => WindowOf(k) = [start |-> 0, count |-> 0]
           /\ \A r : RowsOf(k) = {r} => WindowOf(k) = [start |-> r.start, count |-> r.count]
           /\ RowsOf(k)' = {} => WindowOf(k)' = [start |-> 0, count |-> 0]
           /\ \A r : RowsOf(k)' = {r} => WindowOf(k)' = [start |-> r.start, count |-> r.count]
           /\ RowsOf(k)' = RowsOf(k) => WindowOf(k)' = WindowOf(k)
<1> DEFINE Win(S) == IF S = {} THEN [start |-> 0, count |-> 0]
                     ELSE [start |-> The(S).start, count |-> The(S).count]
<1>1. WindowOf(k) = Win(RowsOf(k)) /\ WindowOf(k)' = Win(RowsOf(k)')
  BY DEF WindowOf, The
<1>2. Win({}) = [start |-> 0, count |-> 0]
  OBVIOUS
<1>3. \A r : Win({r}) = [start |-> r.start, count |-> r.count]
  BY TheOnly
<1> HIDE DEF Win
<1>4. QED
  BY <1>1, <1>2, <1>3

\* Nothing of what the mapping shows of k changes.
Same(k) == /\ latest'[k] = latest[k]
           /\ WindowOf(k)' = WindowOf(k)
           /\ LogOf(k)' = LogOf(k)
           /\ ToldOf(k)' = ToldOf(k)

\* Without a thread that judges, the mapping shows log and told as they are.
LEMMA Settled ==
    ASSUME NEW k
    PROVE  /\ Deciding(k) = {} => LogOf(k) = log[k] /\ ToldOf(k) = told[k]
           /\ Deciding(k)' = {} => LogOf(k)' = log'[k] /\ ToldOf(k)' = told'[k]
BY DEF LogOf, ToldOf

\* With one, it shows what that thread will do.
LEMMA Decided ==
    ASSUME NEW k, NEW w \in Workers, NEW t
    PROVE  /\ Deciding(k) = {w} /\ req[w].t = t =>
                /\ LogOf(k) = IF WindowOf(k).count <= MaxCount THEN Append(log[k], t) ELSE log[k]
                /\ ToldOf(k) = IF WindowOf(k).count <= MaxCount THEN 0
                               ELSE t + TicksPerSecond * RetryAfter(WindowOf(k), t)
           /\ Deciding(k)' = {w} /\ req'[w].t = t =>
                /\ LogOf(k)' = IF WindowOf(k)'.count <= MaxCount THEN Append(log'[k], t) ELSE log'[k]
                /\ ToldOf(k)' = IF WindowOf(k)'.count <= MaxCount THEN 0
                                ELSE t + TicksPerSecond * RetryAfter(WindowOf(k)', t)
<1>1. ASSUME Deciding(k) = {w}, req[w].t = t
      PROVE  DecidedT(k) = t
  <2>1. DecidedT(k) = req[The(Deciding(k))].t
    BY DEF DecidedT, The
  <2>2. QED
    BY <1>1, <2>1, TheOnly
<1>2. ASSUME Deciding(k)' = {w}, req'[w].t = t
      PROVE  DecidedT(k)' = t
  <2>1. DecidedT(k)' = req'[The(Deciding(k)')].t
    BY DEF DecidedT, The
  <2>2. QED
    BY <1>2, <2>1, TheOnly
<1>3. ASSUME Deciding(k) = {w}, req[w].t = t
      PROVE  /\ LogOf(k) = IF WindowOf(k).count <= MaxCount THEN Append(log[k], t) ELSE log[k]
             /\ ToldOf(k) = IF WindowOf(k).count <= MaxCount THEN 0
                            ELSE t + TicksPerSecond * RetryAfter(WindowOf(k), t)
  BY <1>1, <1>3 DEF LogOf, ToldOf
<1>4. ASSUME Deciding(k)' = {w}, req'[w].t = t
      PROVE  /\ LogOf(k)' = IF WindowOf(k)'.count <= MaxCount THEN Append(log'[k], t) ELSE log'[k]
             /\ ToldOf(k)' = IF WindowOf(k)'.count <= MaxCount THEN 0
                             ELSE t + TicksPerSecond * RetryAfter(WindowOf(k)', t)
  <2>1. RetryAfter(WindowOf(k), DecidedT(k))' = RetryAfter(WindowOf(k)', DecidedT(k)')
    BY DEF RetryAfter
  <2>2. QED
    BY <1>2, <1>4, <2>1 DEF LogOf, ToldOf
<1>5. QED
  BY <1>3, <1>4

\* The step leaves the rows and the answers of k alone.
LEMMA Untouched ==
    ASSUME TypeOK, ReqMeans, NEW k \in SoloKeys,
           RowsOf(k)' = RowsOf(k), latest'[k] = latest[k],
           log'[k] = log[k], told'[k] = told[k],
           Deciding(k)' = Deciding(k),
           \A u \in Deciding(k) : req'[u].t = req[u].t
    PROVE  Same(k)
<1>1. WindowOf(k)' = WindowOf(k)
  BY WindowIs
<1>2. CASE Deciding(k) = {}
  BY <1>1, <1>2, Settled DEF Same
<1>3. CASE Deciding(k) # {}
  <2>1. PICK w \in Deciding(k) : TRUE
    BY <1>3
  <2>2. w \in Workers /\ k \in Serves[w]
    BY <2>1 DEF Deciding, ReqMeans
  <2>3. Deciding(k) = {w}
    BY <2>1, <2>2, OnlyOne DEF Deciding
  <2>4. req'[w].t = req[w].t /\ Deciding(k)' = {w}
    BY <2>1, <2>3
  <2>5. /\ LogOf(k) = IF WindowOf(k).count <= MaxCount THEN Append(log[k], req[w].t) ELSE log[k]
        /\ ToldOf(k) = IF WindowOf(k).count <= MaxCount THEN 0
                       ELSE req[w].t + TicksPerSecond * RetryAfter(WindowOf(k), req[w].t)
    BY <2>2, <2>3, Decided
  <2>6. /\ LogOf(k)' = IF WindowOf(k)'.count <= MaxCount THEN Append(log'[k], req[w].t) ELSE log'[k]
        /\ ToldOf(k)' = IF WindowOf(k)'.count <= MaxCount THEN 0
                        ELSE req[w].t + TicksPerSecond * RetryAfter(WindowOf(k)', req[w].t)
    BY <2>2, <2>4, Decided
  <2>7. QED
    BY <1>1, <2>5, <2>6 DEF Same
<1>4. QED
  BY <1>2, <1>3

\* The steps of Sequential, identifier by identifier.
latestM == [k \in SoloKeys |-> latest[k]]
windowM == [k \in SoloKeys |-> WindowOf(k)]
grantedM == [k \in SoloKeys |-> GrantedOf(k)]
logM == [k \in SoloKeys |-> LogOf(k)]
toldM == [k \in SoloKeys |-> ToldOf(k)]

LEMMA SequentialNext ==
    Sequential!Next <=> \E k \in SoloKeys :
        \/ /\ windowM' = [windowM EXCEPT ![k] = [start |-> 0, count |-> 0]]
           /\ grantedM' = [grantedM EXCEPT ![k] = 0]
           /\ logM' = [logM EXCEPT ![k] = <<>>]
           /\ toldM' = [toldM EXCEPT ![k] = 0]
           /\ latestM' = latestM
        \/ \E t \in Instants : Sequential!Hit(k, t)
BY DEF Sequential!Next, Sequential!Reset, Sequential!NoWindow,
       latestM, windowM, grantedM, logM, toldM, GrantedOf, LogOf, ToldOf

LEMMA SequentialHit ==
    ASSUME NEW k \in SoloKeys, NEW t
    PROVE  Sequential!Hit(k, t) <=>
        /\ t >= latestM[k]
        /\ latestM' = [latestM EXCEPT ![k] = t]
        /\ \/ /\ Sequential!Expired(windowM[k], t)
              /\ windowM' = [windowM EXCEPT ![k] = [start |-> t, count |-> 1]]
              /\ grantedM' = [grantedM EXCEPT ![k] = 1]
              /\ logM' = [logM EXCEPT ![k] = Append(@, t)]
              /\ toldM' = [toldM EXCEPT ![k] = 0]
           \/ /\ ~Sequential!Expired(windowM[k], t)
              /\ windowM[k].count < MaxHits
              /\ windowM' = [windowM EXCEPT ![k].count = windowM[k].count + 1]
              /\ \/ /\ ~(windowM[k].count + 1 > MaxCount)
                    /\ grantedM' = [grantedM EXCEPT ![k] = grantedM[k] + 1]
                    /\ logM' = [logM EXCEPT ![k] = Append(@, t)]
                    /\ toldM' = [toldM EXCEPT ![k] = 0]
                 \/ /\ windowM[k].count + 1 > MaxCount
                    /\ toldM' = [toldM EXCEPT ![k] =
                          t + Sequential!RetryAfter(windowM[k], t) * TicksPerSecond]
                    /\ grantedM' = grantedM
                    /\ logM' = logM
BY DEF Sequential!Hit, Sequential!StartWindow, Sequential!CountHit, Sequential!Grant,
       Sequential!FirstCount, Sequential!NextCount, Sequential!OverLimit,
       latestM, windowM, grantedM, logM, toldM, GrantedOf, LogOf, ToldOf

\* A function over the identifiers changes at one of them only.
LEMMA OnePoint ==
    ASSUME NEW S, NEW k \in S, NEW f, NEW g, f = [x \in S |-> f[x]], g = [x \in S |-> g[x]],
           \A x \in S : x # k => g[x] = f[x]
    PROVE  g = [f EXCEPT ![k] = g[k]]
OBVIOUS

LEMMA MapTyped ==
    /\ latestM = [k \in SoloKeys |-> latestM[k]] /\ latestM' = [k \in SoloKeys |-> latestM'[k]]
    /\ windowM = [k \in SoloKeys |-> windowM[k]] /\ windowM' = [k \in SoloKeys |-> windowM'[k]]
    /\ grantedM = [k \in SoloKeys |-> grantedM[k]] /\ grantedM' = [k \in SoloKeys |-> grantedM'[k]]
    /\ logM = [k \in SoloKeys |-> logM[k]] /\ logM' = [k \in SoloKeys |-> logM'[k]]
    /\ toldM = [k \in SoloKeys |-> toldM[k]] /\ toldM' = [k \in SoloKeys |-> toldM'[k]]
    /\ \A k \in SoloKeys :
          /\ latestM[k] = latest[k] /\ latestM'[k] = latest'[k]
          /\ windowM[k] = WindowOf(k) /\ windowM'[k] = WindowOf(k)'
          /\ grantedM[k] = GrantedOf(k) /\ grantedM'[k] = GrantedOf(k)'
          /\ logM[k] = LogOf(k) /\ logM'[k] = LogOf(k)'
          /\ toldM[k] = ToldOf(k) /\ toldM'[k] = ToldOf(k)'
BY DEF latestM, windowM, grantedM, logM, toldM

LEMMA GrantedOfSame ==
    ASSUME NEW k, WindowOf(k)' = WindowOf(k)
    PROVE  GrantedOf(k)' = GrantedOf(k)
BY DEF GrantedOf

\* What changes at one identifier, when the others stay the same.
LEMMA ChangesAt ==
    ASSUME NEW k \in SoloKeys, \A l \in SoloKeys : l # k => Same(l)
    PROVE  /\ latestM' = [latestM EXCEPT ![k] = latest'[k]]
           /\ windowM' = [windowM EXCEPT ![k] = WindowOf(k)']
           /\ grantedM' = [grantedM EXCEPT ![k] = GrantedOf(k)']
           /\ logM' = [logM EXCEPT ![k] = LogOf(k)']
           /\ toldM' = [toldM EXCEPT ![k] = ToldOf(k)']
<1>1. \A l \in SoloKeys : l # k => /\ latestM'[l] = latestM[l]
                                   /\ windowM'[l] = windowM[l]
                                   /\ grantedM'[l] = grantedM[l]
                                   /\ logM'[l] = logM[l]
                                   /\ toldM'[l] = toldM[l]
  BY MapTyped, GrantedOfSame DEF Same
<1>2. /\ latestM' = [latestM EXCEPT ![k] = latestM'[k]]
      /\ windowM' = [windowM EXCEPT ![k] = windowM'[k]]
  BY <1>1, MapTyped, OnePoint
<1>3. /\ grantedM' = [grantedM EXCEPT ![k] = grantedM'[k]]
      /\ logM' = [logM EXCEPT ![k] = logM'[k]]
      /\ toldM' = [toldM EXCEPT ![k] = toldM'[k]]
  BY <1>1, MapTyped, OnePoint
<1>4. QED
  BY <1>2, <1>3, MapTyped

LEMMA SequentialStutters ==
    ASSUME \A k \in SoloKeys : Same(k)
    PROVE  UNCHANGED Sequential!vars
<1>1. /\ latestM' = latestM /\ windowM' = windowM /\ grantedM' = grantedM
      /\ logM' = logM /\ toldM' = toldM
  BY MapTyped, GrantedOfSame DEF Same
<1>2. QED
  BY <1>1 DEF Sequential!vars, latestM, windowM, grantedM, logM, toldM, GrantedOf, LogOf, ToldOf

LEMMA SequentialResets ==
    ASSUME NEW k \in SoloKeys, latest'[k] = latest[k],
           WindowOf(k)' = [start |-> 0, count |-> 0],
           LogOf(k)' = <<>>, ToldOf(k)' = 0,
           \A l \in SoloKeys : l # k => Same(l)
    PROVE  Sequential!Next
<1>1. GrantedOf(k)' = 0
  BY RateLimitDbAssumption DEF GrantedOf
<1>2. latestM' = latestM
  BY MapTyped DEF Same
<1>3. QED
  BY <1>1, <1>2, ChangesAt, SequentialNext

LEMMA SequentialStarts ==
    ASSUME NEW k \in SoloKeys, NEW t \in Instants, latest[k] <= t, latest[k] \in Nat, latest'[k] = t,
           Sequential!Expired(WindowOf(k), t),
           WindowOf(k)' = [start |-> t, count |-> 1],
           LogOf(k)' = Append(LogOf(k), t), ToldOf(k)' = 0,
           \A l \in SoloKeys : l # k => Same(l)
    PROVE  Sequential!Next
<1>1. GrantedOf(k)' = 1
  BY RateLimitDbAssumption DEF GrantedOf
<1>2. /\ t >= latestM[k]
      /\ Sequential!Expired(windowM[k], t)
      /\ logM' = [logM EXCEPT ![k] = Append(@, t)]
  BY ChangesAt, MapTyped, RateLimitDbAssumption
<1>3. Sequential!Hit(k, t)
  BY <1>1, <1>2, ChangesAt, SequentialHit
<1>4. QED
  BY <1>3, SequentialNext

LEMMA SequentialCounts ==
    ASSUME NEW k \in SoloKeys, NEW t \in Instants, latest[k] <= t, latest[k] \in Nat, latest'[k] = t,
           ~Sequential!Expired(WindowOf(k), t),
           NEW n \in Nat, NEW s \in Nat,
           WindowOf(k) = [start |-> s, count |-> n], n < MaxHits,
           WindowOf(k)' = [start |-> s, count |-> n + 1],
           \/ n + 1 <= MaxCount /\ LogOf(k)' = Append(LogOf(k), t) /\ ToldOf(k)' = 0
           \/ /\ n + 1 > MaxCount /\ LogOf(k)' = LogOf(k)
              /\ ToldOf(k)' = t + TicksPerSecond * RetryAfter(WindowOf(k), t),
           \A l \in SoloKeys : l # k => Same(l)
    PROVE  Sequential!Next
<1>1. /\ t >= latestM[k]
      /\ ~Sequential!Expired(windowM[k], t)
      /\ windowM[k].count = n /\ windowM[k].count < MaxHits
  BY MapTyped, RateLimitDbAssumption
<1>2. windowM' = [windowM EXCEPT ![k].count = windowM[k].count + 1]
  <2>1. [windowM[k] EXCEPT !.count = windowM[k].count + 1] = [start |-> s, count |-> n + 1]
    BY MapTyped
  <2>2. windowM' = [windowM EXCEPT ![k] = [windowM[k] EXCEPT !.count = windowM[k].count + 1]]
    BY <2>1, ChangesAt
  <2>3. QED
    BY <2>2, MapTyped
<1>3. latestM' = [latestM EXCEPT ![k] = t]
  BY ChangesAt
<1>4. CASE n + 1 <= MaxCount /\ LogOf(k)' = Append(LogOf(k), t) /\ ToldOf(k)' = 0
  <2>1. GrantedOf(k)' = grantedM[k] + 1
    BY <1>4, MapTyped, RateLimitDbAssumption DEF GrantedOf
  <2>2. /\ grantedM' = [grantedM EXCEPT ![k] = grantedM[k] + 1]
        /\ logM' = [logM EXCEPT ![k] = Append(@, t)]
        /\ toldM' = [toldM EXCEPT ![k] = 0]
    <3>1. LogOf(k)' = Append(logM[k], t)
      BY <1>4, MapTyped
    <3>2. logM' = [logM EXCEPT ![k] = Append(logM[k], t)]
      BY <3>1, ChangesAt
    <3>3. /\ grantedM' = [grantedM EXCEPT ![k] = grantedM[k] + 1]
          /\ toldM' = [toldM EXCEPT ![k] = 0]
      BY <1>4, <2>1, ChangesAt
    <3>4. [logM EXCEPT ![k] = Append(@, t)] = [logM EXCEPT ![k] = Append(logM[k], t)]
      OBVIOUS
    <3>5. QED
      BY <3>2, <3>3, <3>4
  <2>3. ~(windowM[k].count + 1 > MaxCount)
    BY <1>1, <1>4, RateLimitDbAssumption
  <2>4. Sequential!Hit(k, t)
    BY <1>1, <1>2, <1>3, <2>2, <2>3, SequentialHit
  <2>5. QED
    BY <2>4, SequentialNext
<1>5. CASE /\ n + 1 > MaxCount /\ LogOf(k)' = LogOf(k)
           /\ ToldOf(k)' = t + TicksPerSecond * RetryAfter(WindowOf(k), t)
  <2>1. GrantedOf(k)' = GrantedOf(k)
    BY <1>5, RateLimitDbAssumption DEF GrantedOf
  <2>2. grantedM' = grantedM /\ logM' = logM
    BY <1>5, <2>1, ChangesAt, MapTyped, GrantedOfSame DEF Same
  <2>3. ToldOf(k)' = t + Sequential!RetryAfter(windowM[k], t) * TicksPerSecond
    <3>1. Sequential!RetryAfter(windowM[k], t) = RetryAfter(WindowOf(k), t)
      BY MapTyped DEF Sequential!RetryAfter, RetryAfter, Sequential!Window, Window
    <3>2. RetryAfter(WindowOf(k), t) \in Int
      <4> DEFINE left == (Window - (t - s)) \div TicksPerSecond
      <4>1. left \in Int
        BY WindowType, RateLimitDbAssumption
      <4>2. RetryAfter(WindowOf(k), t) = IF left < 1 THEN 1 ELSE left
        BY DEF RetryAfter
      <4> HIDE DEF left
      <4>3. QED
        BY <4>1, <4>2
    <3>3. \A a, b \in Int : a * b = b * a
      OBVIOUS
    <3>4. TicksPerSecond * RetryAfter(WindowOf(k), t) = RetryAfter(WindowOf(k), t) * TicksPerSecond
      BY <3>2, <3>3, RateLimitDbAssumption
    <3>5. QED
      BY <1>5, <3>1, <3>4
  <2>4. toldM' = [toldM EXCEPT ![k] =
                    t + Sequential!RetryAfter(windowM[k], t) * TicksPerSecond]
    BY <2>3, ChangesAt
  <2>5. Sequential!Hit(k, t)
    BY <1>1, <1>2, <1>3, <1>5, <2>2, <2>4, SequentialHit
  <2>6. QED
    BY <2>5, SequentialNext
<1>6. QED
  BY <1>4, <1>5

\* While a thread writes or judges for k, no other one judges for it; once it
\* has answered, nobody does.
LEMMA DecidingIs ==
    ASSUME TypeOK, ReqMeans, NEW k \in SoloKeys, NEW w \in Workers, k \in Serves[w]
    PROVE  /\ Deciding(k) = IF req[w].at = "judge" /\ req[w].key = k THEN {w} ELSE {}
           /\ Answer(w) => Deciding(k)' = {}
<1>1. \A u \in Deciding(k) : u = w
  BY OnlyOne DEF Deciding
<1>2. Deciding(k) = IF req[w].at = "judge" /\ req[w].key = k THEN {w} ELSE {}
  BY <1>1 DEF Deciding
<1>3. Answer(w) => Deciding(k)' = {}
  BY NoneLeft DEF Deciding
<1>4. QED
  BY <1>2, <1>3

\* A statement of a thread touches the identifier it is about and no other.
LEMMA OthersSame ==
    ASSUME TypeOK, ReqMeans, NEW w \in Workers, NEW k \in Keys,
           req[w].at # "idle" => req[w].key = k,
           req'[w].at = "judge" => req'[w].key = k,
           \A u \in Workers : u # w => req'[u] = req[u],
           NEW l \in SoloKeys, l # k, RowsOf(l)' = RowsOf(l),
           latest'[l] = latest[l], log'[l] = log[l], told'[l] = told[l]
    PROVE  Same(l)
<1>1. Deciding(l)' = Deciding(l) /\ \A u \in Deciding(l) : req'[u] = req[u]
  BY DEF Deciding
<1>2. QED
  BY <1>1, Untouched

\* What Registered and Granted write.
LEMMA Writes ==
    ASSUME TypeOK, ReqMeans, NEW w \in Workers, NEW k \in Keys, req[w].at # "idle", req[w].key = k
    PROVE  /\ Registered(w) => /\ latest[k] <= req[w].t => latest'[k] = req[w].t
                               /\ \A l : l # k => latest'[l] = latest[l]
           /\ Granted(w) => /\ log'[k] = Append(log[k], req[w].t)
                            /\ told'[k] = 0
                            /\ \A l : l # k => log'[l] = log[l] /\ told'[l] = told[l]
<1>1. req[w].t \in Nat /\ latest[k] \in Nat
  BY DEF TypeOK, ReqType
<1>2. Registered(w) => /\ latest[k] <= req[w].t => latest'[k] = req[w].t
                       /\ \A l : l # k => latest'[l] = latest[l]
  BY <1>1 DEF Registered, TypeOK
<1>3. Granted(w) => /\ log'[k] = Append(log[k], req[w].t)
                    /\ told'[k] = 0
                    /\ \A l : l # k => log'[l] = log[l] /\ told'[l] = told[l]
  BY DEF Granted, TypeOK
<1>4. QED
  BY <1>2, <1>3

LEMMA SeqExpired ==
    ASSUME NEW t \in Nat
    PROVE  /\ Sequential!Expired([start |-> 0, count |-> 0], t)
           /\ \A r \in RowType :
                /\ r # NoRow
                /\ Sequential!Expired([start |-> r.start, count |-> r.count], t) <=> Expired(r, t)
BY RateLimitDbAssumption
   DEF Sequential!Expired, Sequential!NoWindow, Sequential!Window, Window, Expired, RowType, NoRow

\* The first hit of a window, by a thread that is alone with the identifier.
LEMMA StartRefines ==
    ASSUME TypeOK, ReqMeans, IdInv, ClockInv, NEW k \in SoloKeys, SoloAt(k), NEW w \in Workers,
           req[w].key = k, InsertWindow(w) \/ RenewWindow(w),
           \A l \in SoloKeys : l # k => Same(l)
    PROVE  Sequential!Next
<1> DEFINE t == req[w].t
<1>1. /\ req[w].at = "write" /\ k \in Serves[w] /\ k \in Keys
      /\ Registered(w) /\ Granted(w) /\ Answer(w)
  BY DEF InsertWindow, RenewWindow, ReqMeans
<1>2. /\ t \in Instants /\ t \in Nat /\ latest[k] <= t /\ latest[k] \in Nat
      /\ latest'[k] = t /\ log'[k] = Append(log[k], t) /\ told'[k] = 0
  BY <1>1, Writes DEF ClockInv, SoloAt, TypeOK, ReqType
<1>3. Deciding(k) = {} /\ Deciding(k)' = {}
  BY <1>1, DecidingIs
<1>4. LogOf(k)' = Append(LogOf(k), t) /\ ToldOf(k)' = 0
  BY <1>2, <1>3, Settled
<1>5. Sequential!Expired(WindowOf(k), t) /\ WindowOf(k)' = [start |-> t, count |-> 1]
  <2>1. CASE InsertWindow(w)
    <3>1. PICK i \in 1..MaxRows :
              rows' = rows \cup {[id |-> i, key |-> req[w].key, start |-> req[w].t, count |-> FirstCount]}
      BY <2>1 DEF InsertWindow
    <3>2. RowsOf(k) = {}
      BY <1>1, <2>1 DEF InsertWindow, NeedsRow, SoloAt
    <3> DEFINE new == [id |-> i, key |-> k, start |-> t, count |-> 1]
    <3>3. RowsOf(k)' = {new}
      BY <3>1, <3>2 DEF RowsOf, FirstCount
    <3>4. new.start = t /\ new.count = 1
      OBVIOUS
    <3> HIDE DEF new
    <3>5. QED
      BY <1>2, <3>2, <3>3, <3>4, WindowIs, SeqExpired
  <2>2. CASE RenewWindow(w)
    <3>1. PICK r \in RowById(req[w].seen.id) : rows' = (rows \ {r}) \cup {Renewed(w, r)}
      BY <2>2 DEF RenewWindow, Renewed
    <3>2. RowsOf(k) = {req[w].seen} /\ Expired(req[w].seen, t)
      BY <1>1, <2>2 DEF RenewWindow, SoloAt
    <3>3. RowsOf(k)' = (RowsOf(k) \ {r}) \cup {Renewed(w, r)} /\ r \in RowsOf(k)
      BY <1>1, <3>1, WrittenRow, TouchesOwnRow
    <3>4. r = req[w].seen /\ RowsOf(k)' = {Renewed(w, r)} /\ r \in RowType
      BY <3>2, <3>3, WrittenRow
    <3>5. Renewed(w, r).start = t /\ Renewed(w, r).count = 1
      BY <3>4, WrittenRow DEF RenewedCount, FirstCount
    <3>6. WindowOf(k)' = [start |-> t, count |-> 1]
      BY <3>4, <3>5, WindowIs
    <3>7. WindowOf(k) = [start |-> r.start, count |-> r.count]
      BY <3>2, <3>4, WindowIs
    <3>8. QED
      BY <1>2, <3>2, <3>4, <3>6, <3>7, SeqExpired
  <2>3. QED
    BY <2>1, <2>2
<1> HIDE DEF t
<1>6. QED
  BY <1>2, <1>4, <1>5, SequentialStarts

\* A further hit takes effect with the UPDATE that counts it.
LEMMA CountRefines ==
    ASSUME TypeOK, ReqMeans, IdInv, ClockInv, NEW k \in SoloKeys, SoloAt(k), NEW w \in Workers,
           req[w].key = k, BumpCount(w),
           \A l \in SoloKeys : l # k => Same(l)
    PROVE  Sequential!Next
<1> DEFINE t == req[w].t
<1>1. req[w].at = "write" /\ k \in Serves[w] /\ k \in Keys /\ Registered(w)
  BY DEF BumpCount, ReqMeans
<1>2. /\ t \in Instants /\ t \in Nat /\ latest[k] <= t /\ latest[k] \in Nat
      /\ latest'[k] = t /\ log'[k] = log[k] /\ told'[k] = told[k]
  BY <1>1, Writes DEF ClockInv, SoloAt, TypeOK, ReqType, BumpCount
<1>3. PICK r \in RowById(req[w].seen.id) : rows' = (rows \ {r}) \cup {Counted(w, r)}
  BY DEF BumpCount, Counted
<1>4. RowsOf(k) = {req[w].seen} /\ ~Expired(req[w].seen, t) /\ req[w].seen.count < MaxHits
  BY <1>1, Bumped DEF BumpCount, SoloAt
<1>5. RowsOf(k)' = (RowsOf(k) \ {r}) \cup {Counted(w, r)} /\ r \in RowsOf(k)
  BY <1>1, <1>3, WrittenRow, TouchesOwnRow
<1>6. r = req[w].seen /\ RowsOf(k) = {r} /\ RowsOf(k)' = {Counted(w, r)} /\ r \in RowType
  BY <1>4, <1>5, WrittenRow
<1> DEFINE n == r.count  s == r.start
<1>7. n \in Nat /\ s \in Nat /\ n < MaxHits
  BY <1>4, <1>6 DEF RowType
<1>8. WindowOf(k) = [start |-> s, count |-> n] /\ WindowOf(k)' = [start |-> s, count |-> n + 1]
  BY <1>6, WrittenRow, WindowIs
<1>9. ~Sequential!Expired(WindowOf(k), t)
  BY <1>2, <1>4, <1>6, <1>8, SeqExpired
<1>10. Deciding(k) = {} /\ Deciding(k)' = {w} /\ req'[w].t = t
  <2>1. Deciding(k) = {}
    BY <1>1, DecidingIs
  <2>2. Deciding(k)' = {w} /\ req'[w].t = t
    BY <2>1, Bumped DEF Deciding
  <2>3. QED
    BY <2>1, <2>2
<1>11. LogOf(k) = log[k]
  BY <1>10, Settled
<1>12. RetryAfter(WindowOf(k)', t) = RetryAfter(WindowOf(k), t)
  BY <1>8 DEF RetryAfter
<1>13. /\ LogOf(k)' = IF WindowOf(k)'.count <= MaxCount THEN Append(log'[k], t) ELSE log'[k]
       /\ ToldOf(k)' = IF WindowOf(k)'.count <= MaxCount THEN 0
                       ELSE t + TicksPerSecond * RetryAfter(WindowOf(k)', t)
  BY <1>10, Decided
<1> HIDE DEF t, n, s
<1>14. \/ n + 1 <= MaxCount /\ LogOf(k)' = Append(LogOf(k), t) /\ ToldOf(k)' = 0
       \/ /\ n + 1 > MaxCount /\ LogOf(k)' = LogOf(k)
          /\ ToldOf(k)' = t + TicksPerSecond * RetryAfter(WindowOf(k), t)
  <2>1. WindowOf(k)'.count = n + 1
    BY <1>8
  <2>2. CASE n + 1 <= MaxCount
    BY <1>2, <1>11, <1>13, <2>1, <2>2
  <2>3. CASE ~(n + 1 <= MaxCount)
    <3>1. n + 1 > MaxCount
      BY <1>7, <2>3, RateLimitDbAssumption
    <3>2. QED
      BY <1>2, <1>11, <1>12, <1>13, <2>1, <2>3, <3>1
  <2>4. QED
    BY <2>2, <2>3
<1>15. QED
  BY <1>2, <1>7, <1>8, <1>9, <1>14, SequentialCounts

\* The answer was decided by the UPDATE: judging shows what the mapping showed.
LEMMA JudgeStutters ==
    ASSUME TypeOK, ReqMeans, IdInv, NEW k \in SoloKeys, SoloAt(k), NEW w \in Workers,
           req[w].key = k, Judge(w)
    PROVE  Same(k)
<1> DEFINE t == req[w].t
<1>1. /\ req[w].at = "judge" /\ k \in Serves[w] /\ k \in Keys /\ Answer(w)
      /\ RowsOf(k)' = RowsOf(k) /\ latest' = latest
  BY DEF Judge, ReqMeans, RowsOf
<1>2. Deciding(k) = {w} /\ Deciding(k)' = {}
  BY <1>1, DecidingIs
<1>3. PICK r \in RowById(req[w].seen.id) :
          \/ r.count <= MaxCount /\ Granted(w)
          \/ /\ r.count > MaxCount
             /\ told' = [told EXCEPT ![req[w].key] = t + RetryAfter(r, t) * TicksPerSecond]
             /\ UNCHANGED log
  BY DEF Judge
<1>4. r \in RowType /\ r \in RowsOf(k)
  <2>1. r \in rows /\ r \in RowType /\ r.id = req[w].seen.id
    BY WrittenRow
  <2>2. r.key = k
    BY <1>1, <2>1 DEF IdInv
  <2>3. QED
    BY <2>1, <2>2 DEF RowsOf
<1>5. RowsOf(k) = {r}
  BY <1>4 DEF SoloAt
<1>6. WindowOf(k) = [start |-> r.start, count |-> r.count] /\ WindowOf(k)' = WindowOf(k)
  BY <1>1, <1>5, WindowIs
<1>7. /\ LogOf(k) = IF WindowOf(k).count <= MaxCount THEN Append(log[k], t) ELSE log[k]
      /\ ToldOf(k) = IF WindowOf(k).count <= MaxCount THEN 0
                     ELSE t + TicksPerSecond * RetryAfter(WindowOf(k), t)
  BY <1>2, Decided
<1>8. LogOf(k)' = log'[k] /\ ToldOf(k)' = told'[k]
  BY <1>2, Settled
<1>9. WindowOf(k).count = r.count
  BY <1>6
<1>10. t \in Nat
  BY DEF TypeOK, ReqType
<1>11. CASE r.count <= MaxCount /\ Granted(w)
  <2>1. log'[k] = Append(log[k], t) /\ told'[k] = 0
    BY <1>1, <1>11, Writes
  <2>2. QED
    BY <1>1, <1>6, <1>7, <1>8, <1>9, <1>11, <2>1 DEF Same
<1>12. CASE /\ r.count > MaxCount
            /\ told' = [told EXCEPT ![req[w].key] = t + RetryAfter(r, t) * TicksPerSecond]
            /\ UNCHANGED log
  <2>1. RetryAfter(WindowOf(k), t) = RetryAfter(r, t)
    BY <1>6 DEF RetryAfter
  <2>2. told'[k] = t + RetryAfter(r, t) * TicksPerSecond
    BY <1>1, <1>12 DEF TypeOK
  <2>3. t + RetryAfter(r, t) * TicksPerSecond = t + TicksPerSecond * RetryAfter(r, t)
    <3>1. \A a, b \in Nat : a * b = b * a
      OBVIOUS
    <3>2. RetryAfter(r, t) \in Nat
      BY <1>4, <1>10, RetryAfterType
    <3>3. QED
      BY <3>1, <3>2, RateLimitDbAssumption
  <2>4. ~(WindowOf(k).count <= MaxCount)
    BY <1>4, <1>9, <1>12, RateLimitDbAssumption DEF RowType
  <2>5. log' = log
    BY <1>12
  <2>6. ToldOf(k)' = ToldOf(k)
    BY <1>7, <1>8, <2>1, <2>2, <2>3, <2>4
  <2>7. LogOf(k)' = LogOf(k)
    BY <1>7, <1>8, <2>4, <2>5
  <2>8. QED
    BY <1>1, <1>6, <2>6, <2>7 DEF Same
<1>13. QED
  BY <1>3, <1>11, <1>12

LEMMA RefinementStep ==
    TypeOK /\ ReqMeans /\ IdInv /\ ClockInv /\ SoloInv /\ [Next]_vars
    => [Sequential!Next]_(Sequential!vars)
<1> SUFFICES ASSUME TypeOK, ReqMeans, IdInv, ClockInv, SoloInv, [Next]_vars
             PROVE  Sequential!Next \/ UNCHANGED Sequential!vars
  OBVIOUS
<1>a. ASSUME NEW k \in SoloKeys PROVE SoloAt(k) /\ k \in Keys
  BY <1>a DEF SoloInv, SoloAt, SoloKeys
<1>1. ASSUME UNCHANGED <<rows, req, latest, log, told>>
      PROVE  UNCHANGED Sequential!vars
  <2>1. ASSUME NEW k \in SoloKeys PROVE Same(k)
    <3>1. RowsOf(k)' = RowsOf(k) /\ Deciding(k)' = Deciding(k)
      BY <1>1 DEF RowsOf, Deciding
    <3>2. QED
      BY <1>1, <2>1, <3>1, Untouched
  <2>2. QED
    BY <2>1, SequentialStutters
<1>2. CASE UNCHANGED vars
  BY <1>1, <1>2 DEF vars
<1>3. CASE Tick
  BY <1>1, <1>3 DEF Tick
<1>4. ASSUME NEW w \in Workers, NEW k \in Keys, Look(w, k)
      PROVE  UNCHANGED Sequential!vars
  <2>1. ASSUME NEW l \in SoloKeys PROVE Same(l)
    <3>1. RowsOf(l)' = RowsOf(l) /\ latest' = latest /\ log' = log /\ told' = told
      BY <1>4 DEF Look, RowsOf
    <3>2. Deciding(l)' = Deciding(l) /\ \A u \in Deciding(l) : req'[u] = req[u]
      BY <1>4, Looked DEF Deciding
    <3>3. QED
      BY <2>1, <3>1, <3>2, Untouched
  <2>2. QED
    BY <2>1, SequentialStutters
<1>5. ASSUME NEW w \in Workers, InsertWindow(w) \/ RenewWindow(w),
             NEW k \in Keys, req[w].key = k
      PROVE  Sequential!Next \/ UNCHANGED Sequential!vars
  <2>1. req[w].at = "write" /\ Registered(w) /\ Granted(w) /\ Answer(w)
    BY <1>5 DEF InsertWindow, RenewWindow
  <2>2. ASSUME NEW l \in SoloKeys, l # k PROVE RowsOf(l)' = RowsOf(l)
    <3>1. CASE InsertWindow(w)
      BY <1>5, <2>2, <3>1 DEF InsertWindow, RowsOf
    <3>2. CASE RenewWindow(w)
      <4>1. PICK r \in RowById(req[w].seen.id) : rows' = (rows \ {r}) \cup {Renewed(w, r)}
        BY <3>2 DEF RenewWindow, Renewed
      <4>2. QED
        BY <1>5, <2>1, <2>2, <4>1, WrittenRow, TouchesOwnRow
    <3>3. QED
      BY <1>5, <3>1, <3>2
  <2>3. ASSUME NEW l \in SoloKeys, l # k PROVE Same(l)
    BY <1>5, <2>1, <2>2, <2>3, Answered, Writes, OthersSame
  <2>4. CASE k \in SoloKeys
    BY <1>a, <1>5, <2>3, <2>4, StartRefines
  <2>5. CASE k \notin SoloKeys
    BY <2>3, <2>5, SequentialStutters
  <2>6. QED
    BY <2>4, <2>5
<1>6. ASSUME NEW w \in Workers, BumpCount(w), NEW k \in Keys, req[w].key = k
      PROVE  Sequential!Next \/ UNCHANGED Sequential!vars
  <2>1. req[w].at = "write" /\ Registered(w) /\ log' = log /\ told' = told
    BY <1>6 DEF BumpCount
  <2>2. ASSUME NEW l \in SoloKeys, l # k PROVE RowsOf(l)' = RowsOf(l)
    <3>1. PICK r \in RowById(req[w].seen.id) : rows' = (rows \ {r}) \cup {Counted(w, r)}
      BY <1>6 DEF BumpCount, Counted
    <3>2. QED
      BY <1>6, <2>1, <2>2, <3>1, WrittenRow, TouchesOwnRow
  <2>3. ASSUME NEW l \in SoloKeys, l # k PROVE Same(l)
    BY <1>6, <2>1, <2>2, <2>3, Bumped, Writes, OthersSame
  <2>4. CASE k \in SoloKeys
    BY <1>a, <1>6, <2>3, <2>4, CountRefines
  <2>5. CASE k \notin SoloKeys
    BY <2>3, <2>5, SequentialStutters
  <2>6. QED
    BY <2>4, <2>5
<1>7. ASSUME NEW w \in Workers, Judge(w), NEW k \in Keys, req[w].key = k
      PROVE  UNCHANGED Sequential!vars
  <2>1. req[w].at = "judge" /\ Answer(w) /\ rows' = rows /\ latest' = latest
    BY <1>7 DEF Judge
  <2>2. ASSUME NEW l \in SoloKeys, l # k PROVE Same(l)
    <3>1. log'[l] = log[l] /\ told'[l] = told[l]
      <4>1. CASE Granted(w)
        BY <1>7, <2>1, <2>2, <4>1, Writes
      <4>2. CASE ~Granted(w)
        <5>1. log' = log /\ \E v : told' = [told EXCEPT ![req[w].key] = v]
          BY <1>7, <4>2 DEF Judge
        <5>2. QED
          BY <1>7, <2>2, <5>1 DEF TypeOK
      <4>3. QED
        BY <4>1, <4>2
    <3>2. RowsOf(l)' = RowsOf(l)
      BY <2>1 DEF RowsOf
    <3>3. QED
      BY <1>7, <2>1, <2>2, <3>1, <3>2, Answered, OthersSame
  <2>3. k \in SoloKeys => Same(k)
    BY <1>a, <1>7, JudgeStutters
  <2>4. QED
    BY <2>2, <2>3, SequentialStutters
<1>8. ASSUME NEW w \in Workers, RowGone(w), NEW k \in Keys, req[w].key = k
      PROVE  UNCHANGED Sequential!vars
  <2>1. /\ req[w].at \in {"write", "judge"} /\ req[w].seen # NoRow /\ RowById(req[w].seen.id) = {}
        /\ Answer(w) /\ rows' = rows /\ latest' = latest /\ log' = log /\ told' = told
    BY <1>8 DEF RowGone
  <2>2. k \notin SoloKeys
    <3>1. SUFFICES ASSUME k \in SoloKeys PROVE FALSE
      OBVIOUS
    <3>2. \E r \in RowsOf(k) : r.id = req[w].seen.id
      BY <1>a, <1>8, <2>1, <3>1 DEF SoloAt
    <3>3. QED
      BY <2>1, <3>2 DEF RowsOf, RowById
  <2>3. ASSUME NEW l \in SoloKeys PROVE Same(l)
    <3>1. RowsOf(l)' = RowsOf(l) /\ l # k
      BY <2>1, <2>2 DEF RowsOf
    <3>2. QED
      BY <1>8, <2>1, <2>3, <3>1, Answered, OthersSame
  <2>4. QED
    BY <2>3, SequentialStutters
<1>9. ASSUME NEW w \in Workers, NEW k \in Keys, Reset(w, k)
      PROVE  Sequential!Next \/ UNCHANGED Sequential!vars
  <2>1. /\ req[w].at = "idle" /\ k \in Serves[w] /\ rows' = rows \ RowsOf(k)
        /\ log' = [log EXCEPT ![k] = <<>>] /\ told' = [told EXCEPT ![k] = 0]
        /\ req' = req /\ latest' = latest
    BY <1>9 DEF Reset
  <2>2. ASSUME NEW l \in SoloKeys, l # k PROVE Same(l)
    <3>1. RowsOf(l)' = RowsOf(l) /\ log'[l] = log[l] /\ told'[l] = told[l]
      BY <2>1, <2>2 DEF RowsOf, TypeOK
    <3>2. QED
      BY <1>9, <2>1, <2>2, <3>1, OthersSame
  <2>3. CASE k \in SoloKeys
    <3>1. RowsOf(k)' = {} /\ Deciding(k)' = {}
      <4>1. Deciding(k) = {}
        BY <2>1, <2>3, DecidingIs
      <4>2. Deciding(k)' = Deciding(k)
        BY <2>1 DEF Deciding
      <4>3. QED
        BY <2>1, <4>1, <4>2 DEF RowsOf
    <3>2. WindowOf(k)' = [start |-> 0, count |-> 0]
      BY <3>1, WindowIs
    <3>3. log'[k] = <<>> /\ told'[k] = 0
      BY <2>1 DEF TypeOK
    <3>4. LogOf(k)' = <<>> /\ ToldOf(k)' = 0
      BY <3>1, <3>3, Settled
    <3>5. QED
      BY <2>1, <2>2, <2>3, <3>2, <3>4, SequentialResets
  <2>4. CASE k \notin SoloKeys
    BY <2>2, <2>4, SequentialStutters
  <2>5. QED
    BY <2>3, <2>4
<1>10. ASSUME NEW w \in Workers, req[w].at # "idle"
       PROVE  req[w].key \in Keys
  BY <1>10 DEF ReqMeans
<1>11. ASSUME NEW w \in Workers, HitStep(w)
       PROVE  Sequential!Next \/ UNCHANGED Sequential!vars
  <2>1. CASE \E k \in Keys : Look(w, k)
    BY <1>4, <2>1
  <2>2. CASE InsertWindow(w) \/ RenewWindow(w)
    BY <1>5, <1>10, <2>2 DEF InsertWindow, RenewWindow
  <2>3. CASE BumpCount(w)
    BY <1>6, <1>10, <2>3 DEF BumpCount
  <2>4. CASE Judge(w)
    BY <1>7, <1>10, <2>4 DEF Judge
  <2>5. CASE RowGone(w)
    BY <1>8, <1>10, <2>5 DEF RowGone
  <2>6. QED
    BY <1>11, <2>1, <2>2, <2>3, <2>4, <2>5 DEF HitStep
<1>12. QED
  BY <1>2, <1>3, <1>9, <1>11 DEF Next

\* The initial states are those of RateLimit.tla.
LEMMA RefinementInit == Init => Sequential!Init
<1> SUFFICES ASSUME Init PROVE Sequential!Init
  OBVIOUS
<1>1. ASSUME NEW k \in SoloKeys
      PROVE  /\ WindowOf(k) = [start |-> 0, count |-> 0]
             /\ LogOf(k) = <<>> /\ ToldOf(k) = 0
             /\ GrantedOf(k) = 0 /\ latest[k] = 0
  <2>1. RowsOf(k) = {} /\ Deciding(k) = {} /\ k \in Keys
    BY <1>1 DEF Init, RowsOf, Deciding, IdleReq, SoloKeys
  <2>2. WindowOf(k) = [start |-> 0, count |-> 0]
    BY <2>1, WindowIs
  <2>3. QED
    BY <2>1, <2>2, Settled, RateLimitDbAssumption DEF Init, GrantedOf
<1>2. QED
  BY <1>1 DEF Sequential!Init, Sequential!NoWindow, GrantedOf, LogOf, ToldOf

\* As long as one thread serves an identifier, the statements of hit and reset
\* add up to the sequential limiter for it, whatever other threads do to other
\* identifiers, on a database that hands out no id twice.  (On SQLite a stale
\* UPDATE for another identifier may hit the row that got a deleted row's id.)
THEOREM SequentialWhenAlone == ASSUME ~ReusesIds PROVE Spec => ImplementsSequential
<1>1. Init => IdInv /\ ClockInv /\ SoloInv
  <2> SUFFICES ASSUME Init PROVE IdInv /\ ClockInv /\ SoloInv
    OBVIOUS
  <2>1. IdInv /\ SoloInv
    BY DEF Init, IdInv, SoloInv, RowsOf, IdleReq
  <2>2. ClockInv
    BY RateLimitDbAssumption DEF Init, ClockInv, IdleReq
  <2>3. QED
    BY <2>1, <2>2
<1>2. TypeOK /\ ReqMeans /\ IdInv /\ ClockInv /\ SoloInv /\ [Next]_vars
      => IdInv' /\ ClockInv' /\ SoloInv'
  BY IdStep, ClockStep, SoloStep
<1>3. QED
  BY <1>1, <1>2, Types, RefinementInit, RefinementStep, PTL
     DEF Spec, ImplementsSequential, Sequential!Spec

-----------------------------------------------------------------------------
(* What the refinement brings over from RateLimitProofs.tla *)

SeqProofs == INSTANCE RateLimitProofs WITH
    Keys <- SoloKeys,
    latest <- latestM, window <- windowM, granted <- grantedM, log <- logM, told <- toldM

LEMMA SameSpecification ==
    /\ Sequential!Init => SeqProofs!Init
    /\ Sequential!Next => SeqProofs!Next
    /\ UNCHANGED Sequential!vars => UNCHANGED SeqProofs!vars
<1>1. Sequential!Init => SeqProofs!Init
  BY DEF Sequential!Init, SeqProofs!Init, Sequential!NoWindow, SeqProofs!NoWindow,
         latestM, windowM, grantedM, logM, toldM, GrantedOf, LogOf, ToldOf
<1>2. UNCHANGED Sequential!vars => UNCHANGED SeqProofs!vars
  BY DEF Sequential!vars, SeqProofs!vars,
         latestM, windowM, grantedM, logM, toldM, GrantedOf, LogOf, ToldOf
<1>3. ASSUME NEW k \in SoloKeys, NEW t \in Instants, Sequential!Hit(k, t)
      PROVE  SeqProofs!Hit(k, t)
  <2>1. \A w : SeqProofs!Expired(w, t) <=> Sequential!Expired(w, t)
    BY DEF SeqProofs!Expired, Sequential!Expired, SeqProofs!NoWindow, Sequential!NoWindow,
           SeqProofs!Window, Sequential!Window
  <2>2. SeqProofs!RetryAfter(windowM[k], t) = Sequential!RetryAfter(windowM[k], t)
    BY DEF SeqProofs!RetryAfter, Sequential!RetryAfter, SeqProofs!Window, Sequential!Window
  <2>3. QED
    BY <1>3, <2>1, <2>2, SequentialHit
       DEF SeqProofs!Hit, SeqProofs!StartWindow, SeqProofs!CountHit, SeqProofs!Grant,
           SeqProofs!FirstCount, SeqProofs!NextCount, SeqProofs!OverLimit
<1>4. Sequential!Next => SeqProofs!Next
  BY <1>3, SequentialNext DEF SeqProofs!Next, SeqProofs!Reset, SeqProofs!NoWindow
<1>5. QED
  BY <1>1, <1>2, <1>4

\* The bursts an identifier gets that one thread serves: any 2 * MaxCount + 1
\* of its grants in a row span more than one window.
AloneTwoBursts == \A k \in SoloKeys : \A i \in DOMAIN log[k] :
    i + 2 * MaxCount \in DOMAIN log[k] => log[k][i + 2 * MaxCount] > log[k][i] + Window

\* The two-burst bound of the sequential limiter holds of the grants the
\* statements of hit really give, for an identifier that one thread serves.
THEOREM TwoBurstsWhenAlone == ASSUME ~ReusesIds PROVE Spec => []AloneTwoBursts
<1>1. SeqProofs!RateLimitAssumption
  BY RateLimitDbAssumption DEF SeqProofs!RateLimitAssumption
<1>2. SeqProofs!Spec => []SeqProofs!TwoBurstBound
  BY <1>1, SeqProofs!TwoBurstsAtMost DEF SeqProofs!RateLimitAssumption
<1>3. TypeOK /\ SeqProofs!TwoBurstBound => AloneTwoBursts
  <2> SUFFICES ASSUME TypeOK, SeqProofs!TwoBurstBound, NEW k \in SoloKeys, NEW i \in DOMAIN log[k],
                      i + 2 * MaxCount \in DOMAIN log[k]
               PROVE  log[k][i + 2 * MaxCount] > log[k][i] + Window
    BY DEF AloneTwoBursts
  <2>1. log[k] \in Seq(Nat)
    BY DEF TypeOK, SoloKeys
  <2>2. LogOf(k) = log[k] \/ LogOf(k) = Append(log[k], DecidedT(k))
    BY DEF LogOf
  <2>3. \A j \in DOMAIN log[k] : j \in DOMAIN LogOf(k) /\ LogOf(k)[j] = log[k][j]
    <3>1. CASE LogOf(k) = log[k]
      BY <3>1
    <3>2. CASE LogOf(k) = Append(log[k], DecidedT(k))
      <4>1. ASSUME NEW s \in Seq(Nat), NEW x, NEW j \in DOMAIN s
            PROVE  j \in DOMAIN Append(s, x) /\ Append(s, x)[j] = s[j]
        OBVIOUS
      <4>2. QED
        BY <2>1, <3>2, <4>1
    <3>3. QED
      BY <2>2, <3>1, <3>2
  <2>4. LogOf(k)[i + 2 * MaxCount] > LogOf(k)[i] + Window
    BY <2>3, MapTyped DEF SeqProofs!TwoBurstBound, SeqProofs!Window, Window
  <2>5. QED
    BY <2>3, <2>4
<1>4. QED
  BY <1>2, <1>3, SameSpecification, SequentialWhenAlone, Types, PTL
     DEF ImplementsSequential, Sequential!Spec, SeqProofs!Spec
=============================================================================
