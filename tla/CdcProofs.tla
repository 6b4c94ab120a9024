------------------------------ MODULE CdcProofs ------------------------------
(***************************************************************************)
(* The reader over a change log, for any keys, any values and any number   *)
(* of changes and batches.  LogInv says that a row tells what its change   *)
(* left of its key, which is all KeysAreAsLastLanded needs; LastInv adds   *)
(* that nothing else moves a key, and so what a complete log tells.        *)
(***************************************************************************)
EXTENDS Cdc, TLAPS

USE CdcAssumption

LEMMA TypeInductive == TypeOK /\ [Next]_vars => TypeOK'
<1> SUFFICES ASSUME TypeOK, [Next]_vars PROVE TypeOK'
  OBVIOUS
<1>1. ASSUME NEW row \in Row, NEW left \in Values \cup {None}, Change(row, left)
      PROVE  TypeOK'
  <2>1. table[seq] \in [Keys -> Values \cup {None}] /\ row.seq \in 0 .. MaxSeq
    BY DEF TypeOK, Row
  <2>2. [table[seq] EXCEPT ![row.key] = left] \in [Keys -> Values \cup {None}]
    BY <2>1
  <2>3. table' \in [0 .. MaxSeq -> [Keys -> Values \cup {None}]]
    BY <1>1, <2>2 DEF Change, TypeOK
  <2> QED
    BY <1>1, <2>1, <2>3 DEF Change, TypeOK
<1>2. ASSUME NEW k \in Keys, NEW v \in Values, Write(k, v) PROVE TypeOK'
  BY <1>1, <1>2 DEF Write, TypeOK, Row, Ops
<1>3. ASSUME NEW k \in Keys, Delete(k) PROVE TypeOK'
  <2>1. table[seq][k] \in Values
    BY <1>3 DEF Delete, TypeOK
  <2> QED
    BY <1>1, <1>3, <2>1 DEF Delete, TypeOK, Row, Ops
<1>4. CASE \E batch \in SUBSET log : Land(batch)
  BY <1>4 DEF Land, TypeOK
<1>5. CASE UNCHANGED vars
  BY <1>5 DEF vars, TypeOK
<1> QED
  BY <1>2, <1>3, <1>4, <1>5 DEF Next

LEMMA TypeCorrect == Spec => []TypeOK
<1>1. Init => TypeOK
  BY DEF Init, TypeOK, Row, Ops
<1> QED
  BY <1>1, TypeInductive, PTL DEF Spec

-----------------------------------------------------------------------------
(* The log *)

\* Every change to the table is the next one and leaves what its row says.
IsNext(row, left) ==
  /\ row \in Row
  /\ row.seq = seq + 1
  /\ left = IF row.op = "D" THEN None ELSE row.value

LEMMA ChangesAreNext ==
  ASSUME TypeOK, [Next]_vars
  PROVE  \/ \E row, left : IsNext(row, left) /\ Change(row, left)
         \/ UNCHANGED <<seq, table, log>>
<1>1. ASSUME NEW k \in Keys, NEW v \in Values, Write(k, v)
      PROVE  \E row, left : IsNext(row, left) /\ Change(row, left)
  <2> DEFINE row == [key |-> k, op |-> IF table[seq][k] = None THEN "I" ELSE "U",
                     seq |-> seq + 1, value |-> v]
  <2>1. IsNext(row, v)
    BY <1>1 DEF IsNext, Write, TypeOK, Row, Ops
  <2>2. Change(row, v)
    BY <1>1 DEF Write
  <2> QED
    BY <2>1, <2>2
<1>2. ASSUME NEW k \in Keys, Delete(k)
      PROVE  \E row, left : IsNext(row, left) /\ Change(row, left)
  <2> DEFINE row == [key |-> k, op |-> "D", seq |-> seq + 1, value |-> table[seq][k]]
  <2>1. table[seq][k] \in Values
    BY <1>2 DEF Delete, TypeOK
  <2>2. IsNext(row, None)
    BY <1>2, <2>1 DEF IsNext, Delete, TypeOK, Row, Ops
  <2>3. Change(row, None)
    BY <1>2 DEF Delete
  <2> QED
    BY <2>2, <2>3
<1> QED
  BY <1>1, <1>2 DEF Next, Land, vars

\* What a change does to the history and the log, point by point.
LEMMA ChangeEffect ==
  ASSUME TypeOK, LogInv, NEW row, NEW left, IsNext(row, left), Change(row, left)
  PROVE  /\ seq \in Nat /\ seq' = seq + 1 /\ seq + 1 \in 0 .. MaxSeq
         /\ log' = log \cup {row} /\ row \notin log
         /\ \A n \in 0 .. seq : table'[n] = table[n]
         /\ table'[seq + 1][row.key] = left
         /\ \A k \in Keys \ {row.key} : table'[seq + 1][k] = table[seq][k]
<1>1. seq \in Nat /\ seq' = seq + 1 /\ seq + 1 \in 0 .. MaxSeq /\ row.key \in Keys
  BY DEF Change, IsNext, TypeOK, Row
<1>2. table[seq] \in [Keys -> Values \cup {None}]
  BY DEF TypeOK
<1>3. \A n \in 0 .. seq : table'[n] = table[n]
  BY <1>1 DEF Change, IsNext
<1>4. table'[seq + 1] = [table[seq] EXCEPT ![row.key] = left]
  BY <1>1 DEF Change, IsNext
<1>5. row \notin log
  BY <1>1 DEF LogInv, IsNext
<1> QED
  BY <1>1, <1>2, <1>3, <1>4, <1>5 DEF Change

LEMMA LogInductive == TypeOK /\ LogInv /\ [Next]_vars => LogInv'
<1> SUFFICES ASSUME TypeOK, LogInv, [Next]_vars PROVE LogInv'
  OBVIOUS
<1>1. ASSUME NEW row, NEW left, IsNext(row, left), Change(row, left) PROVE LogInv'
  <2> USE <1>1
  <2>1. \A r \in log : r.seq \in 0 .. seq /\ r.key \in Keys
    BY DEF TypeOK, LogInv, Row
  <2>2. row.seq = seq + 1 /\ left = IF row.op = "D" THEN None ELSE row.value
    BY DEF IsNext
  <2>3. \A r \in log : table'[r.seq] = table[r.seq]
    BY <2>1, ChangeEffect
  <2>4. \A r \in log' : /\ r.seq <= seq'
                        /\ table'[r.seq][r.key] = IF r.op = "D" THEN None ELSE r.value
    BY <2>1, <2>2, <2>3, ChangeEffect DEF LogInv
  <2>5. \A q, r \in log' : q.key = r.key /\ q.seq = r.seq => q = r
    BY <2>1, <2>2, ChangeEffect DEF LogInv
  <2> QED
    BY <2>4, <2>5 DEF LogInv
<1>2. CASE UNCHANGED <<seq, table, log>>
  BY <1>2 DEF LogInv
<1> QED
  BY <1>1, <1>2, ChangesAreNext

LEMMA LogAlways == Spec => []LogInv
<1>1. Init => LogInv
  BY DEF Init, LogInv
<1> QED
  BY <1>1, TypeCorrect, LogInductive, PTL DEF Spec

-----------------------------------------------------------------------------
(* The frame *)

\* The rows the collapse keeps of one key are those of its one latest row.
LEMMA CollapseOfKey ==
  ASSUME TypeOK, LogInv, NEW rows \in SUBSET log, NEW k \in Keys, NEW r \in LatestOf(rows, k)
  PROVE  {f \in collapse_cdc(rows) : f.key = k} = RowOf(table[r.seq], k)
<1> DEFINE kept == UNION {LatestOf(rows, l) : l \in Keys}
<1>1. r \in log /\ r \in Row /\ r.key = k
  BY DEF LatestOf, TypeOK
<1>2. table[r.seq][k] = IF r.op = "D" THEN None ELSE r.value
  BY <1>1 DEF LogInv
<1>3. r.value # None
  BY <1>1 DEF Row
<1>4. \A q \in kept : q.key = k => q = r
  <2> SUFFICES ASSUME NEW l \in Keys, NEW q \in LatestOf(rows, l), q.key = k PROVE q = r
    OBVIOUS
  <2>1. q \in log /\ q.seq \in Int /\ r.seq \in Int /\ q.seq <= r.seq /\ r.seq <= q.seq
    BY <1>1 DEF LatestOf, TypeOK, Row
  <2> QED
    BY <1>1, <2>1 DEF LogInv
<1>5. r \in kept
  OBVIOUS
<1> HIDE DEF kept
<1>6. CASE r.op = "D"
  <2>1. {f \in Alive(kept) : f.key = k} = {}
    BY <1>4, <1>6 DEF Alive
  <2> QED
    BY <1>2, <1>6, <2>1 DEF RowOf, collapse_cdc, kept
<1>7. CASE r.op # "D"
  <2>1. [key |-> k, value |-> r.value] \in Alive(kept)
    BY <1>1, <1>5, <1>7 DEF Alive
  <2>2. \A f \in Alive(kept) : f.key = k => f = [key |-> k, value |-> r.value]
    BY <1>1, <1>4 DEF Alive
  <2>3. {f \in Alive(kept) : f.key = k} = {[key |-> k, value |-> r.value]}
    BY <2>1, <2>2
  <2> QED
    BY <1>2, <1>3, <1>7, <2>3 DEF RowOf, collapse_cdc, kept
<1> QED
  BY <1>6, <1>7

\* local.py:53-54, for any log and any part of it that has landed: a key reads as
\* the table had it after the latest of its changes to land.
THEOREM EveryKeyReadsAsLastLanded == Spec => []KeysAreAsLastLanded
<1>1. TypeOK /\ LogInv => KeysAreAsLastLanded
  BY CollapseOfKey DEF KeysAreAsLastLanded, TypeOK
<1> QED
  BY <1>1, TypeCorrect, LogAlways, PTL

-----------------------------------------------------------------------------
(* A complete log *)

LEMMA LastInductive == TypeOK /\ LogInv /\ LastInv /\ [Next]_vars => LastInv'
<1> SUFFICES ASSUME TypeOK, LogInv, LastInv, [Next]_vars PROVE LastInv'
  OBVIOUS
<1>1. ASSUME NEW row, NEW left, IsNext(row, left), Change(row, left) PROVE LastInv'
  <2> USE <1>1
  <2> SUFFICES ASSUME NEW k \in Keys, NEW n \in 0 .. seq'
               PROVE  \/ \E r \in LatestOf(UpTo(n)', k) : table'[n][k] = table'[r.seq][k]
                      \/ table'[n][k] = None /\ \A r \in UpTo(n)' : r.key # k
    BY DEF LastInv, LatestOf
  <2>0. \A r \in log : r.seq \in 0 .. seq
    BY DEF TypeOK, LogInv, Row
  <2>1. row.seq = seq + 1
    BY DEF IsNext
  <2>2. \A r \in log : table'[r.seq] = table[r.seq]
    BY <2>0, ChangeEffect
  <2>3. CASE n \in 0 .. seq
    <3>1. UpTo(n)' = UpTo(n)
      BY <2>1, <2>3, ChangeEffect DEF UpTo
    <3>2. table'[n] = table[n]
      BY <2>3, ChangeEffect
    <3> QED
      BY <2>2, <2>3, <3>1, <3>2 DEF LastInv, LatestOf, UpTo
  <2>4. CASE n = seq + 1
    <3>1. UpTo(n)' = log \cup {row} /\ UpTo(seq) = log
      BY <2>0, <2>1, <2>4, ChangeEffect DEF UpTo
    <3>2. CASE k = row.key
      <4>1. row \in LatestOf(UpTo(n)', k)
        <5>1. \A q \in log \cup {row} : q.seq <= row.seq
          BY <2>0, <2>1, ChangeEffect
        <5> QED
          BY <3>1, <3>2, <5>1 DEF LatestOf
      <4> QED
        BY <2>1, <2>4, <4>1
    <3>3. CASE k # row.key
      <4>1. LatestOf(UpTo(n)', k) = LatestOf(UpTo(seq), k)
        BY <3>1, <3>3 DEF LatestOf
      <4>2. table'[n][k] = table[seq][k]
        BY <2>4, <3>3, ChangeEffect
      <4>3. seq \in 0 .. seq
        BY ChangeEffect
      <4> QED
        BY <2>2, <3>1, <3>3, <4>1, <4>2, <4>3 DEF LastInv, LatestOf
    <3> QED
      BY <3>2, <3>3
  <2> QED
    BY <2>3, <2>4, ChangeEffect
<1>2. CASE UNCHANGED <<seq, table, log>>
  BY <1>2 DEF LastInv, UpTo
<1> QED
  BY <1>1, <1>2, ChangesAreNext

LEMMA CompleteLog == TypeOK /\ LogInv /\ LastInv => CaughtUpIsTheTable
<1> SUFFICES ASSUME TypeOK, LogInv, LastInv, NEW n \in 0 .. seq, landed = UpTo(n)
             PROVE  collapse_cdc(landed) = UNION {RowOf(table[n], k) : k \in Keys}
  BY DEF CaughtUpIsTheTable
<1>1. \A f \in collapse_cdc(landed) : f.key \in Keys
  BY DEF collapse_cdc, Alive, LatestOf
<1>2. \A k \in Keys : \A f \in RowOf(table[n], k) : f.key = k
  BY DEF RowOf
<1>3. ASSUME NEW k \in Keys
      PROVE  {f \in collapse_cdc(landed) : f.key = k} = RowOf(table[n], k)
  <2>1. CASE \E r \in LatestOf(UpTo(n), k) : table[n][k] = table[r.seq][k]
    BY <2>1, CollapseOfKey DEF RowOf, TypeOK
  <2>2. CASE table[n][k] = None /\ \A r \in UpTo(n) : r.key # k
    BY <2>2 DEF collapse_cdc, Alive, LatestOf, RowOf
  <2> QED
    BY <2>1, <2>2 DEF LastInv
<1> QED
  BY <1>1, <1>2, <1>3

\* A reader that finds the whole log up to some change reads the table as it stood
\* after that change, whatever order the batches came in.
THEOREM CompleteLogIsTheTable == Spec => []CaughtUpIsTheTable
<1>1. Init => LastInv
  <2> SUFFICES ASSUME Init, NEW k \in Keys
               PROVE  \/ \E r \in LatestOf(UpTo(0), k) : table[0][k] = table[r.seq][k]
                      \/ table[0][k] = None /\ \A r \in UpTo(0) : r.key # k
    BY DEF Init, LastInv
  <2>1. PICK rows \in [Keys -> Values \cup {None}] :
          /\ table = [n \in 0 .. MaxSeq |-> rows]
          /\ log = {[key |-> l, op |-> "none", seq |-> 0, value |-> rows[l]] :
                      l \in {m \in Keys : rows[m] # None}}
    BY DEF Init
  <2>2. UpTo(0) = log
    BY <2>1 DEF UpTo
  <2> DEFINE row == [key |-> k, op |-> "none", seq |-> 0, value |-> rows[k]]
  <2>3. CASE rows[k] # None
    <3>1. row \in log
      BY <2>1, <2>3
    <3> HIDE DEF row
    <3>2. \A q \in log : q.seq = 0
      BY <2>1
    <3>3. row.key = k /\ row.seq = 0
      BY DEF row
    <3>4. row \in LatestOf(UpTo(0), k)
      BY <2>2, <3>1, <3>2, <3>3 DEF LatestOf
    <3> QED
      BY <2>1, <3>3, <3>4
  <2>4. CASE rows[k] = None
    BY <2>1, <2>2, <2>4
  <2> QED
    BY <2>3, <2>4
<1> QED
  BY <1>1, TypeCorrect, LogAlways, LastInductive, CompleteLog, PTL DEF Spec
=============================================================================
