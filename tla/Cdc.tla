--------------------------------- MODULE Cdc ---------------------------------
(***************************************************************************)
(* The change log of one application table as DMS lands it, and the frame  *)
(* read_dms_landing makes of it (backends/local.py).  DMS stamps each      *)
(* change with a sequence number and writes batches as files under a       *)
(* prefix, in no order anyone promises, perhaps more than once; the reader *)
(* takes whatever is there and keeps the latest row of each key.           *)
(*                                                                         *)
(* A batch is the set of its rows: the reader concatenates the files, and  *)
(* a row that was landed twice is dropped with the rest of its key's.      *)
(***************************************************************************)
EXTENDS Integers

CONSTANTS
  Keys,      \* values of the primary key
  Values,    \* what the other columns may hold
  MaxSeq,    \* bound: the changes made to the table
  None       \* no row

ASSUME CdcAssumption == MaxSeq \in Nat /\ None \notin Values

\* Op is absent on a load-phase row.
Ops == {"none", "I", "U", "D"}

Row == [key : Keys, op : Ops, seq : 0 .. MaxSeq, value : Values]

VARIABLES
  seq,      \* the number of the latest change
  table,    \* table[n]: the application's rows after change n
  log,      \* the rows DMS has written or will write
  landed    \* the rows in some file under the landing prefix

vars == <<seq, table, log, landed>>

TypeOK ==
  /\ seq \in 0 .. MaxSeq
  /\ table \in [0 .. MaxSeq -> [Keys -> Values \cup {None}]]
  /\ log \subseteq Row
  /\ landed \subseteq log

\* The full load: a row without Op for each row the table had, before any change.
Init ==
  /\ seq = 0
  /\ \E rows \in [Keys -> Values \cup {None}] :
        /\ table = [n \in 0 .. MaxSeq |-> rows]
        /\ log = {[key |-> k, op |-> "none", seq |-> 0, value |-> rows[k]] :
                    k \in {l \in Keys : rows[l] # None}}
  /\ landed = {}

\* The table from the next change on: `row' is the change, `left' what it leaves.
Change(row, left) ==
  /\ seq' = row.seq
  /\ log' = log \cup {row}
  /\ table' = [n \in 0 .. MaxSeq |->
                 IF n < row.seq THEN table[n] ELSE [table[seq] EXCEPT ![row.key] = left]]
  /\ UNCHANGED landed

\* Which rows the application inserts, updates and deletes is its own business.
Write(k, v) ==
  /\ seq < MaxSeq
  /\ Change([key |-> k, op |-> IF table[seq][k] = None THEN "I" ELSE "U",
             seq |-> seq + 1, value |-> v], v)

Delete(k) ==
  /\ seq < MaxSeq
  /\ table[seq][k] # None
  /\ Change([key |-> k, op |-> "D", seq |-> seq + 1, value |-> table[seq][k]], None)

\* One more file: any rows of the log, landed before or not, earlier ones missing
\* or not.
Land(batch) ==
  /\ landed' = landed \cup batch
  /\ UNCHANGED <<seq, table, log>>

Next ==
  \/ \E k \in Keys : Delete(k) \/ \E v \in Values : Write(k, v)
  \/ \E batch \in SUBSET log : Land(batch)

Spec == Init /\ [][Next]_vars

-----------------------------------------------------------------------------
(* The reader *)

\* sort_values("_dms_seq"), then drop_duplicates(subset=keys, keep="last").
LatestOf(rows, k) ==
  {r \in rows : r.key = k /\ \A q \in rows : q.key = k => q.seq <= r.seq}

\* Op.fillna("I") != "D", then Op and _dms_seq are dropped.
Alive(rows) == {[key |-> r.key, value |-> r.value] : r \in {q \in rows : q.op # "D"}}

\* Mutant: deletes are filtered out before the latest rows are picked.
CollapseResurrecting(rows) ==
  LET kept == {r \in rows : r.op # "D"} IN
  Alive(UNION {LatestOf(kept, k) : k \in Keys})

\* Mutant: a row without Op is not an insert.
AliveWithOp(rows) ==
  {[key |-> r.key, value |-> r.value] : r \in {q \in rows : q.op \in {"I", "U"}}}

CollapseOpless(rows) == AliveWithOp(UNION {LatestOf(rows, k) : k \in Keys})

collapse_cdc(rows) == Alive(UNION {LatestOf(rows, k) : k \in Keys})

-----------------------------------------------------------------------------
(* What the frame is *)

RowOf(rows, k) == IF rows[k] = None THEN {} ELSE {[key |-> k, value |-> rows[k]]}

\* local.py:53-54.  Whatever has landed, in whatever order and however often, each
\* key is read as the table had it after the latest of its changes to land: no
\* older value, no second row, and no row back from the dead.
KeysAreAsLastLanded ==
  \A k \in Keys : \A r \in LatestOf(landed, k) :
    {f \in collapse_cdc(landed) : f.key = k} = RowOf(table[r.seq], k)

UpTo(n) == {r \in log : r.seq <= n}

\* A reader that finds the log up to some change, and nothing after it, finds the
\* table as it stood then: no batch of a mixed age.
CaughtUpIsTheTable ==
  \A n \in 0 .. seq :
    landed = UpTo(n) =>
      collapse_cdc(landed) = UNION {RowOf(table[n], k) : k \in Keys}

(* What makes them hold, proved inductive in CdcProofs. *)

\* A row tells what the change it records left of its key.
LogInv ==
  /\ \A r \in log :
       /\ r.seq <= seq
       /\ table[r.seq][r.key] = IF r.op = "D" THEN None ELSE r.value
  /\ \A q, r \in log : q.key = r.key /\ q.seq = r.seq => q = r

\* Between two of its changes a key stays what it was.
LastInv ==
  \A k \in Keys, n \in 0 .. seq :
    \/ \E r \in LatestOf(UpTo(n), k) : table[n][k] = table[r.seq][k]
    \/ table[n][k] = None /\ \A r \in UpTo(n) : r.key # k
=============================================================================
