------------------------ MODULE WorkersState_proofs ------------------------
(***************************************************************************)
(* Proofs about the registry of workers, for every number of workers, rows *)
(* and concurrent reports and every bound on the clock.                    *)
(***************************************************************************)
EXTENDS WorkersState, FiniteSetTheorems, TLAPS

Reports == [pc : {"idle", "find", "update", "insert"},
            worker : Workers \cup {NoWorker}, row : RowIds \cup {NoRow},
            at : 0..MaxClock]

Records == [worker_id : Workers \cup {NoWorker}, update_at : 0..MaxClock]

\* A row id has a row only after it was generated, and a row is a worker's.
RowsAreUsed ==
  \A id \in RowIds : rows[id] # NoRecord =>
    id \in used /\ rows[id].worker_id \in Workers

\* What Find knows of the row it found: it is the worker's or it was deleted.
FoundIsOwn ==
  \A c \in Conns : call[c].pc = "update" =>
    /\ call[c].row \in used
    /\ rows[call[c].row] # NoRecord =>
         rows[call[c].row].worker_id = call[c].worker

TableInv == TypeOK /\ RowsAreUsed /\ FoundIsOwn

-----------------------------------------------------------------------------
(* How the handlers move. *)

LEMMA RecordTyped ==
  /\ NoRecord.worker_id = NoWorker
  /\ NoRecord \in Records
BY ClockAssumption DEF NoRecord, Records

LEMMA IdleTyped ==
  /\ Idle.pc = "idle" /\ Idle.worker = NoWorker /\ Idle.row = NoRow
  /\ Idle \in Reports
BY ClockAssumption DEF Idle, Reports

\* A row without a worker is no row.
LEMMA OwnedRow ==
  ASSUME TableInv, NEW id \in RowIds, NEW w \in Workers
  PROVE  /\ rows[id].worker_id \in Workers <=> rows[id] # NoRecord
         /\ id \in RowsOf(w) <=> rows[id].worker_id = w
BY RecordTyped, NoneAssumption DEF TableInv, RowsAreUsed, RowsOf

\* The step of a report from one record to another.
LEMMA CallMoves ==
  ASSUME TypeOK, NEW c \in Conns,
         NEW r \in Reports,
         call' = [call EXCEPT ![c] = r]
  PROVE  /\ call' \in [Conns -> Reports]
         /\ call'[c] = r
         /\ \A d \in Conns \ {c} : call'[d] = call[d]
BY DEF TypeOK, Reports

\* A report that starts, or that has found what it found.
LEMMA ReportMoves ==
  ASSUME TypeOK, NEW c \in Conns, NEW w \in Workers, Report(c, w)
  PROVE  /\ call[c].pc = "idle"
         /\ call' \in [Conns -> Reports]
         /\ call'[c].pc = "find" /\ call'[c].worker = w /\ call'[c].row = NoRow
         /\ \A d \in Conns \ {c} : call'[d] = call[d]
<1> DEFINE r == [Idle EXCEPT !.pc = "find", !.worker = w]
<1>1. /\ r.pc = "find" /\ r.worker = w /\ r.row = NoRow
      /\ r \in Reports
  BY IdleTyped, ClockAssumption DEF Idle, Reports
<1>2. call' = [call EXCEPT ![c] = r] /\ call[c].pc = "idle"
  BY DEF Report
<1> HIDE DEF r
<1> QED
  BY <1>1, <1>2, CallMoves

LEMMA FindMoves ==
  ASSUME TypeOK, NEW c \in Conns, Find(c)
  PROVE  /\ call[c].pc = "find" /\ call[c].worker \in Workers
         /\ call' \in [Conns -> Reports]
         /\ call'[c].worker = call[c].worker
         /\ \/ /\ call'[c].pc = "update"
               /\ call'[c].row \in RowsOf(call[c].worker)
            \/ /\ call'[c].pc = "insert" /\ call'[c].row = NoRow
               /\ RowsOf(call[c].worker) = {}
         /\ \A d \in Conns \ {c} : call'[d] = call[d]
<1>1. /\ call[c] \in Reports /\ call[c].pc = "find"
      /\ call[c].worker \in Workers /\ call[c].row = NoRow
      /\ clock \in 0..MaxClock
  BY DEF TypeOK, Find, Reports
<1>2. ASSUME NEW id \in RowsOf(call[c].worker),
             call' = [call EXCEPT ![c] = [@ EXCEPT !.pc = "update", !.row = id,
                                                   !.at = clock]]
      PROVE  /\ call' \in [Conns -> Reports]
             /\ call'[c].worker = call[c].worker
             /\ call'[c].pc = "update" /\ call'[c].row = id
             /\ \A d \in Conns \ {c} : call'[d] = call[d]
  <2> DEFINE r == [call[c] EXCEPT !.pc = "update", !.row = id, !.at = clock]
  <2>1. /\ r.pc = "update" /\ r.worker = call[c].worker /\ r.row = id
        /\ r \in Reports
    BY <1>1 DEF RowsOf, Reports
  <2>2. call' = [call EXCEPT ![c] = r]
    BY <1>2
  <2> HIDE DEF r
  <2> QED
    BY <2>1, <2>2, CallMoves
<1>3. ASSUME call' = [call EXCEPT ![c] = [@ EXCEPT !.pc = "insert", !.at = clock]]
      PROVE  /\ call' \in [Conns -> Reports]
             /\ call'[c].worker = call[c].worker
             /\ call'[c].pc = "insert" /\ call'[c].row = NoRow
             /\ \A d \in Conns \ {c} : call'[d] = call[d]
  <2> DEFINE r == [call[c] EXCEPT !.pc = "insert", !.at = clock]
  <2>1. /\ r.pc = "insert" /\ r.worker = call[c].worker /\ r.row = NoRow
        /\ r \in Reports
    BY <1>1 DEF Reports
  <2>2. call' = [call EXCEPT ![c] = r]
    BY <1>3
  <2> HIDE DEF r
  <2> QED
    BY <2>1, <2>2, CallMoves
<1>4. \/ \E id \in RowsOf(call[c].worker) :
           call' = [call EXCEPT ![c] = [@ EXCEPT !.pc = "update", !.row = id,
                                                 !.at = clock]]
      \/ /\ RowsOf(call[c].worker) = {}
         /\ call' = [call EXCEPT ![c] = [@ EXCEPT !.pc = "insert", !.at = clock]]
  BY DEF Find
<1> QED
  BY <1>1, <1>2, <1>3, <1>4

\* The row of a report is written, and its worker told so or not.
LEMMA StoredMoves ==
  ASSUME TypeOK, NEW c \in Conns, call[c].pc # "idle", NEW id \in RowIds,
         Stored(c, id)
  PROVE  /\ call[c].worker \in Workers /\ call[c].at \in 0..MaxClock
         /\ rows' \in [RowIds -> Records]
         /\ rows'[id] # NoRecord
         /\ rows'[id].worker_id = call[c].worker
         /\ rows'[id].update_at = call[c].at
         /\ \A i \in RowIds \ {id} : rows'[i] = rows[i]
         /\ heard' \in [Workers -> {Never} \cup (0..MaxClock)]
         /\ heard'[call[c].worker] <= call[c].at
         /\ \A w \in Workers \ {call[c].worker} : heard'[w] = heard[w]
         /\ call' \in [Conns -> Reports]
         /\ call'[c] = Idle
         /\ \A d \in Conns \ {c} : call'[d] = call[d]
<1> DEFINE r == [worker_id |-> call[c].worker, update_at |-> call[c].at]
<1>1. call[c].worker \in Workers /\ call[c].at \in 0..MaxClock
  BY DEF TypeOK
<1>2. /\ r \in Records /\ r # NoRecord
      /\ r.worker_id = call[c].worker /\ r.update_at = call[c].at
  BY <1>1, RecordTyped, NoneAssumption DEF Records
<1>3. rows' = [rows EXCEPT ![id] = r]
  BY DEF Stored
<1> HIDE DEF r
<1>4. /\ rows' \in [RowIds -> Records] /\ rows'[id] = r
      /\ \A i \in RowIds \ {id} : rows'[i] = rows[i]
  BY <1>2, <1>3 DEF TypeOK, Records
<1>5. /\ heard' \in [Workers -> {Never} \cup (0..MaxClock)]
      /\ heard'[call[c].worker] <= call[c].at
      /\ \A w \in Workers \ {call[c].worker} : heard'[w] = heard[w]
  <2>1. PICK n \in {call[c].at, Earlier(heard[call[c].worker], call[c].at)} :
          heard' = [heard EXCEPT ![call[c].worker] = n]
    BY DEF Stored
  <2>2. /\ heard \in [Workers -> {Never} \cup (0..MaxClock)]
        /\ heard[call[c].worker] \in {Never} \cup (0..MaxClock)
    BY <1>1 DEF TypeOK
  <2>3. n \in {Never} \cup (0..MaxClock) /\ n <= call[c].at
    BY <1>1, <2>1, <2>2, ClockAssumption DEF Earlier, Never
  <2> QED
    BY <1>1, <2>1, <2>2, <2>3
<1>6. /\ call' \in [Conns -> Reports] /\ call'[c] = Idle
      /\ \A d \in Conns \ {c} : call'[d] = call[d]
  BY IdleTyped, CallMoves DEF Stored
<1> QED
  BY <1>1, <1>2, <1>4, <1>5, <1>6

LEMMA FailMoves ==
  ASSUME TypeOK, NEW c \in Conns, Fail(c)
  PROVE  /\ call' \in [Conns -> Reports]
         /\ call'[c] = Idle
         /\ \A d \in Conns \ {c} : call'[d] = call[d]
BY IdleTyped, CallMoves DEF Fail

LEMMA DeleteMoves ==
  ASSUME TypeOK, NEW ids, Delete(ids)
  PROVE  /\ rows' \in [RowIds -> Records]
         /\ \A i \in RowIds \cap ids : rows'[i] = NoRecord
         /\ \A i \in RowIds \ ids : rows'[i] = rows[i]
         /\ heard' \in [Workers -> {Never} \cup (0..MaxClock)]
         /\ \A w \in Workers :
              IF RowsOf(w) \cap ids # {} THEN heard'[w] = Never
                                         ELSE heard'[w] = heard[w]
BY RecordTyped DEF TypeOK, Delete, Records

-----------------------------------------------------------------------------
(* What a step does to the table: nothing, it stores one report, or it     *)
(* deletes rows.                                                           *)

StoreStep(c, id) ==
  /\ Stored(c, id)
  /\ \/ call[c].pc = "update" /\ id = call[c].row /\ rows[id] # NoRecord
     \/ call[c].pc = "insert" /\ id \notin used

LEMMA TableStep ==
  ASSUME TableInv, [Next]_vars
  PROVE  \/ UNCHANGED <<rows, heard, gone>>
         \/ \E c \in Conns, id \in RowIds :
              StoreStep(c, id) /\ UNCHANGED gone
         \/ \E ids \in SUBSET RowIds : Delete(ids) /\ gone' = gone \cup ids
<1>1. ASSUME NEW c \in Conns, Update(c)
      PROVE  \/ UNCHANGED <<rows, heard, gone>>
             \/ \E id \in RowIds : StoreStep(c, id) /\ UNCHANGED gone
  <2>1. call[c].row \in RowIds
    BY <1>1 DEF Update, TableInv, FoundIsOwn, TypeOK
  <2> QED
    BY <1>1, <2>1 DEF Update, Fail, StoreStep, Stored
<1>2. ASSUME NEW c \in Conns, Insert(c)
      PROVE  \E id \in RowIds : StoreStep(c, id) /\ UNCHANGED gone
  BY <1>2 DEF Insert, StoreStep, Stored
<1>3. ASSUME NEW id, DeleteWorkerById(id) \/ DeleteWorkerByWorkerId(id)
      PROVE  \E ids \in SUBSET RowIds : Delete(ids) /\ gone' = gone \cup ids
  <2>1. used \cap {id} \in SUBSET RowIds /\ RowsOf(id) \in SUBSET RowIds
    BY DEF TableInv, TypeOK, RowsOf
  <2> QED
    BY <1>3, <2>1 DEF DeleteWorkerById, DeleteWorkerByWorkerId
<1> QED
  BY <1>1, <1>2, <1>3
     DEF Next, Handle, Report, Find, Abort, Fail, DeleteFails, Tick, vars

-----------------------------------------------------------------------------
(* Type correctness, and what reports know of the table *)

LEMMA InitTable == Init => TableInv
<1> SUFFICES ASSUME Init PROVE TableInv
  OBVIOUS
<1>1. Cardinality(delete) <= 1
  BY FS_EmptySet DEF Init
<1>2. TypeOK
  BY <1>1, ClockAssumption, NoneAssumption
     DEF Init, TypeOK, NoRecord, Idle, Never
<1> QED
  BY <1>2, IdleTyped DEF Init, TableInv, RowsAreUsed, FoundIsOwn

\* A step that writes no row.
LEMMA ReportsTable ==
  ASSUME TableInv, UNCHANGED <<rows, used, delete, clock, heard, gone>>,
         NEW c \in Conns,
         call' \in [Conns -> Reports],
         \A d \in Conns \ {c} : call'[d] = call[d],
         call'[c].worker = NoWorker <=> call'[c].pc = "idle",
         call'[c].row # NoRow <=> call'[c].pc = "update",
         call'[c].pc = "update" => call'[c].row \in RowsOf(call'[c].worker)
  PROVE  TableInv'
<1>1. TypeOK'
  BY DEF TableInv, TypeOK, Reports
<1>2. RowsAreUsed'
  BY DEF TableInv, RowsAreUsed
<1>3. ASSUME NEW d \in Conns, call'[d].pc = "update"
      PROVE  /\ call'[d].row \in used
             /\ rows[call'[d].row] # NoRecord =>
                  rows[call'[d].row].worker_id = call'[d].worker
  <2>1. CASE d = c
    <3>1. call'[c].row \in RowsOf(call'[c].worker) /\ call'[c].worker \in Workers
      BY <1>3, <2>1 DEF Reports
    <3> QED
      BY <2>1, <3>1, OwnedRow DEF RowsOf, TableInv, RowsAreUsed
  <2>2. CASE d # c
    BY <1>3, <2>2 DEF TableInv, FoundIsOwn
  <2> QED
    BY <2>1, <2>2
<1> QED
  BY <1>1, <1>2, <1>3 DEF TableInv, FoundIsOwn

\* A report that is stored.
LEMMA StoredTable ==
  ASSUME TableInv, NEW c \in Conns, NEW id \in RowIds, StoreStep(c, id),
         used' = used \cup {id}, UNCHANGED <<delete, clock, gone>>
  PROVE  TableInv'
<1>t. TypeOK /\ Stored(c, id) /\ call[c].pc # "idle"
  BY DEF TableInv, StoreStep
<1>1. /\ call[c].worker \in Workers
      /\ rows' \in [RowIds -> Records]
      /\ rows'[id] # NoRecord /\ rows'[id].worker_id = call[c].worker
      /\ \A i \in RowIds \ {id} : rows'[i] = rows[i]
      /\ heard' \in [Workers -> {Never} \cup (0..MaxClock)]
      /\ call' \in [Conns -> Reports] /\ call'[c] = Idle
      /\ \A d \in Conns \ {c} : call'[d] = call[d]
  BY <1>t, StoredMoves
<1>2. TypeOK'
  BY <1>t, <1>1, IdleTyped DEF TypeOK, Reports, Records
<1>3. RowsAreUsed'
  BY <1>1 DEF TableInv, RowsAreUsed
<1>4. ASSUME NEW d \in Conns, call'[d].pc = "update"
      PROVE  /\ call'[d].row \in used'
             /\ rows'[call'[d].row] # NoRecord =>
                  rows'[call'[d].row].worker_id = call'[d].worker
  <2>1. d # c /\ call'[d] = call[d]
    BY <1>1, <1>4, IdleTyped
  <2>2. /\ call[d].row \in used /\ call[d].row \in RowIds
        /\ rows[call[d].row] # NoRecord =>
             rows[call[d].row].worker_id = call[d].worker
    BY <1>4, <2>1 DEF TableInv, FoundIsOwn, TypeOK
  <2>3. CASE call[d].row # id
    BY <1>1, <2>1, <2>2, <2>3
  \* It is a row another report found: both are the worker's.
  <2>4. CASE call[d].row = id
    <3>1. call[c].pc = "update" /\ id = call[c].row /\ rows[id] # NoRecord
      BY <2>2, <2>4 DEF StoreStep
    <3>2. rows[id].worker_id = call[c].worker
      BY <3>1 DEF TableInv, FoundIsOwn
    <3> QED
      BY <1>1, <2>1, <2>2, <2>4, <3>1, <3>2
  <2> QED
    BY <2>3, <2>4
<1> QED
  BY <1>2, <1>3, <1>4 DEF TableInv, FoundIsOwn

\* Rows that are deleted.
LEMMA DeletedTable ==
  ASSUME TableInv, NEW ids \in SUBSET used, Delete(ids),
         delete' = {} \/ \E id \in used \cup Workers : delete' = {id},
         gone' = gone \cup ids
  PROVE  TableInv'
<1>1. /\ rows' \in [RowIds -> Records]
      /\ \A i \in RowIds : rows'[i] = NoRecord \/ rows'[i] = rows[i]
      /\ heard' \in [Workers -> {Never} \cup (0..MaxClock)]
      /\ UNCHANGED <<used, call, clock>>
  BY DeleteMoves DEF TableInv, Delete
<1>2. Cardinality(delete') <= 1
  <2>1. CASE delete' = {}
    <3>1. Cardinality({}) = 0
      BY FS_EmptySet
    <3> QED
      BY <2>1, <3>1
  <2>2. ASSUME NEW id, delete' = {id} PROVE Cardinality(delete') <= 1
    <3>1. Cardinality({id}) = 1
      BY FS_Singleton
    <3> QED
      BY <2>2, <3>1
  <2> QED
    BY <2>1, <2>2
<1>3. delete' \in SUBSET (used \cup Workers)
  OBVIOUS
<1>4. TypeOK'
  BY <1>1, <1>2, <1>3 DEF TableInv, TypeOK, Records
<1>5. RowsAreUsed'
  BY <1>1 DEF TableInv, RowsAreUsed
<1>6. FoundIsOwn'
  BY <1>1 DEF TableInv, FoundIsOwn, TypeOK
<1> QED
  BY <1>4, <1>5, <1>6 DEF TableInv

LEMMA NextTable == TableInv /\ [Next]_vars => TableInv'
<1> SUFFICES ASSUME TableInv, [Next]_vars PROVE TableInv'
  OBVIOUS
<1>t. TypeOK
  BY DEF TableInv
<1>1. ASSUME NEW c \in Conns, NEW w \in Workers, Report(c, w)
      PROVE  TableInv'
  <2>1. UNCHANGED <<rows, used, delete, clock, heard, gone>>
    BY <1>1 DEF Report
  <2>2. /\ call' \in [Conns -> Reports]
        /\ call'[c].pc = "find" /\ call'[c].worker = w /\ call'[c].row = NoRow
        /\ \A d \in Conns \ {c} : call'[d] = call[d]
    BY <1>t, <1>1, ReportMoves
  <2> QED
    BY <2>1, <2>2, ReportsTable, NoneAssumption
<1>2. ASSUME NEW c \in Conns, Find(c)
      PROVE  TableInv'
  <2>1. UNCHANGED <<rows, used, delete, clock, heard, gone>>
    BY <1>2 DEF Find
  <2>2. /\ call[c].worker \in Workers
        /\ call' \in [Conns -> Reports]
        /\ call'[c].worker = call[c].worker
        /\ \/ /\ call'[c].pc = "update"
              /\ call'[c].row \in RowsOf(call[c].worker)
           \/ call'[c].pc = "insert" /\ call'[c].row = NoRow
        /\ \A d \in Conns \ {c} : call'[d] = call[d]
    BY <1>t, <1>2, FindMoves
  <2>3. /\ call'[c].worker = NoWorker <=> call'[c].pc = "idle"
        /\ call'[c].row # NoRow <=> call'[c].pc = "update"
    BY <2>2, NoneAssumption DEF RowsOf
  <2> QED
    BY <2>1, <2>2, <2>3, ReportsTable
<1>3. ASSUME NEW c \in Conns, Fail(c)
      PROVE  TableInv'
  <2>1. UNCHANGED <<rows, used, delete, clock, heard, gone>>
    BY <1>3 DEF Fail
  <2>2. /\ call' \in [Conns -> Reports] /\ call'[c] = Idle
        /\ \A d \in Conns \ {c} : call'[d] = call[d]
    BY <1>t, <1>3, FailMoves
  <2> QED
    BY <2>1, <2>2, IdleTyped, ReportsTable
<1>4. ASSUME NEW c \in Conns, Update(c)
      PROVE  TableInv'
  <2>1. CASE rows[call[c].row] # NoRecord /\ Stored(c, call[c].row) /\ UNCHANGED used
    <3>1. call[c].row \in used /\ call[c].row \in RowIds
      BY <1>4 DEF Update, TableInv, FoundIsOwn, TypeOK
    <3>2. StoreStep(c, call[c].row)
      BY <1>4, <2>1 DEF Update, StoreStep
    <3> QED
      BY <2>1, <3>1, <3>2, StoredTable DEF Stored
  <2> QED
    BY <1>3, <1>4, <2>1 DEF Update
<1>5. ASSUME NEW c \in Conns, Insert(c)
      PROVE  TableInv'
  <2>1. PICK id \in RowIds \ used : Stored(c, id) /\ used' = used \cup {id}
    BY <1>5 DEF Insert
  <2>2. StoreStep(c, id)
    BY <1>5, <2>1 DEF Insert, StoreStep
  <2> QED
    BY <2>1, <2>2, StoredTable DEF Stored
<1>6. ASSUME NEW id \in used \cup Workers, DeleteWorkerById(id)
      PROVE  TableInv'
  BY <1>6, DeletedTable DEF DeleteWorkerById
<1>7. ASSUME NEW id \in used \cup Workers, DeleteWorkerByWorkerId(id)
      PROVE  TableInv'
  <2>1. RowsOf(id) \in SUBSET used
    BY RecordTyped, NoneAssumption DEF TableInv, TypeOK, RowsAreUsed, RowsOf
  <2> QED
    BY <1>7, <2>1, DeletedTable DEF DeleteWorkerByWorkerId
<1>8. CASE DeleteFails
  BY <1>8, FS_EmptySet
     DEF DeleteFails, TableInv, TypeOK, RowsAreUsed, FoundIsOwn
<1>9. CASE Tick
  BY <1>9, ClockAssumption
     DEF Tick, TableInv, TypeOK, RowsAreUsed, FoundIsOwn
<1>10. CASE UNCHANGED vars
  BY <1>10 DEF vars, TableInv, TypeOK, RowsAreUsed, FoundIsOwn
<1> QED
  BY <1>1, <1>2, <1>3, <1>4, <1>5, <1>6, <1>7, <1>8, <1>9, <1>10
     DEF Next, Handle, Abort

LEMMA TableInvariant == Spec => []TableInv
BY InitTable, NextTable, PTL DEF Spec

(***************************************************************************)
(* The workers_states table and the reports in progress are well typed,    *)
(* only a row that was inserted is deleted, and `worker delete` has one    *)
(* argument between its calls.                                             *)
(***************************************************************************)
THEOREM RegistryTyped == Spec => []TypeOK
BY TableInvariant, PTL DEF TableInv

-----------------------------------------------------------------------------
(* What was acknowledged is listed, and what was deleted is gone: true of  *)
(* overlapping reports, too.                                               *)

LEMMA NextListed ==
  TableInv /\ HeardIsListed /\ [Next]_vars => HeardIsListed'
<1> SUFFICES ASSUME TableInv, HeardIsListed, [Next]_vars, NEW w \in Workers,
                    heard'[w] # Never
             PROVE  \E id \in RowIds : /\ rows'[id].worker_id = w
                                       /\ rows'[id].update_at >= heard'[w]
  BY DEF HeardIsListed, RowsOf
<1>t. TypeOK
  BY DEF TableInv
<1>h. heard[w] # Never =>
        \E id \in RowIds : rows[id].worker_id = w /\ rows[id].update_at >= heard[w]
  BY DEF HeardIsListed, RowsOf
<1>1. CASE UNCHANGED <<rows, heard, gone>>
  BY <1>1, <1>h
<1>2. ASSUME NEW c \in Conns, NEW id \in RowIds, StoreStep(c, id)
      PROVE  \E i \in RowIds : /\ rows'[i].worker_id = w
                               /\ rows'[i].update_at >= heard'[w]
  <2>1. /\ call[c].worker \in Workers /\ call[c].at \in 0..MaxClock
        /\ rows'[id].worker_id = call[c].worker
        /\ rows'[id].update_at = call[c].at
        /\ \A i \in RowIds \ {id} : rows'[i] = rows[i]
        /\ heard'[call[c].worker] <= call[c].at
        /\ \A v \in Workers \ {call[c].worker} : heard'[v] = heard[v]
    BY <1>t, <1>2, StoredMoves DEF StoreStep
  \* What the worker that reports is owed is the stamp of the report at most.
  <2>2. CASE w = call[c].worker
    <3>1. rows'[id].update_at >= heard'[w]
      <4>1. heard'[w] \in Int
        BY <1>t, <1>2, <2>2, StoredMoves, ClockAssumption DEF StoreStep, Never
      <4> QED
        BY <2>1, <2>2, <4>1
    <3> QED
      BY <2>1, <2>2, <3>1
  \* Another one keeps its row: the row that is written is not its own.
  <2>3. CASE w # call[c].worker
    <3>1. heard'[w] = heard[w]
      BY <2>1, <2>3
    <3>2. PICK i \in RowIds : /\ rows[i].worker_id = w
                              /\ rows[i].update_at >= heard[w]
      BY <1>h, <3>1
    <3>3. rows[i] # NoRecord
      BY <3>2, OwnedRow
    <3>4. i # id
      BY <1>2, <2>3, <3>2, <3>3 DEF StoreStep, TableInv, FoundIsOwn, RowsAreUsed
    <3> QED
      BY <2>1, <3>1, <3>2, <3>4
  <2> QED
    BY <2>2, <2>3
<1>3. ASSUME NEW ids \in SUBSET RowIds, Delete(ids)
      PROVE  \E i \in RowIds : /\ rows'[i].worker_id = w
                               /\ rows'[i].update_at >= heard'[w]
  <2>1. /\ \A i \in RowIds \ ids : rows'[i] = rows[i]
        /\ IF RowsOf(w) \cap ids # {} THEN heard'[w] = Never
                                      ELSE heard'[w] = heard[w]
    BY <1>t, <1>3, DeleteMoves
  <2>2. RowsOf(w) \cap ids = {} /\ heard'[w] = heard[w]
    BY <2>1
  <2>3. PICK i \in RowIds : /\ rows[i].worker_id = w
                            /\ rows[i].update_at >= heard[w]
    BY <1>h, <2>2
  <2>4. i \notin ids
    BY <2>2, <2>3 DEF RowsOf
  <2> QED
    BY <2>1, <2>2, <2>3, <2>4
<1> QED
  BY <1>1, <1>2, <1>3, TableStep

(***************************************************************************)
(* A worker whose report was acknowledged is listed with its stamp or a    *)
(* later one until its row is deleted, even when reports of one worker id  *)
(* overlap or race with `worker delete` (db_ops.rs report_worker_info).    *)
(***************************************************************************)
THEOREM HeardStaysListed == Spec => []HeardIsListed
<1>1. Init => HeardIsListed
  BY DEF Init, HeardIsListed
<1> QED
  BY <1>1, NextListed, TableInvariant, PTL DEF Spec

(***************************************************************************)
(* What `worker delete` removed is not brought back by a report that found *)
(* the row before: its UPDATE by primary key fails.                        *)
(***************************************************************************)
THEOREM DeletedStaysGone == Spec => []DeletedIsGone
<1>1. Init => DeletedIsGone
  BY DEF Init, DeletedIsGone
<1>2. TableInv /\ DeletedIsGone /\ [Next]_vars => DeletedIsGone'
  <2> SUFFICES ASSUME TableInv, DeletedIsGone, [Next]_vars
               PROVE  DeletedIsGone'
    OBVIOUS
  <2>g. TableInv'
    BY NextTable
  <2> SUFFICES ASSUME NEW id \in RowIds, id \in gone'
               PROVE  rows'[id] = NoRecord
    BY <2>g DEF DeletedIsGone, TableInv, TypeOK
  <2>t. TypeOK /\ gone \in SUBSET used
    BY DEF TableInv, TypeOK
  <2>1. CASE UNCHANGED <<rows, heard, gone>>
    BY <2>1 DEF DeletedIsGone
  <2>2. ASSUME NEW c \in Conns, NEW i \in RowIds, StoreStep(c, i), UNCHANGED gone
        PROVE  rows'[id] = NoRecord
    <3>1. \A j \in RowIds \ {i} : rows'[j] = rows[j]
      BY <2>t, <2>2, StoredMoves DEF StoreStep
    <3>2. i \notin gone
      BY <2>t, <2>2 DEF StoreStep, DeletedIsGone
    <3> QED
      BY <2>2, <3>1, <3>2 DEF DeletedIsGone
  <2>3. ASSUME NEW ids \in SUBSET RowIds, Delete(ids), gone' = gone \cup ids
        PROVE  rows'[id] = NoRecord
    <3>1. /\ \A i \in RowIds \cap ids : rows'[i] = NoRecord
          /\ \A i \in RowIds \ ids : rows'[i] = rows[i]
      BY <2>t, <2>3, DeleteMoves
    <3> QED
      BY <2>3, <3>1 DEF DeletedIsGone
  <2> QED
    BY <2>1, <2>2, <2>3, TableStep
<1> QED
  BY <1>1, <1>2, TableInvariant, PTL DEF Spec

-----------------------------------------------------------------------------
(* The rows of a worker and the reports that are about to insert one *)

InsertsOf(w) == {c \in ReportsOf(w) : call[c].pc = "insert"}

(***************************************************************************)
(* What the reports in progress may add is within the bound already: a     *)
(* report is about to insert only if there was no row when it looked, and  *)
(* then all that may be inserted are reports in progress.                  *)
(***************************************************************************)
RowsWithin(w) ==
  /\ IsFiniteSet(RowsOf(w))
  /\ Cardinality(ReportsOf(w)) <= MaxReports
  /\ Cardinality(RowsOf(w)) + Cardinality(InsertsOf(w)) <= MaxReports

RowsInv == \A w \in Workers : RowsWithin(w)

\* Cardinalities of parts of a finite set.
LEMMA PartIsSmaller ==
  ASSUME NEW S, IsFiniteSet(S), NEW T \in SUBSET S
  PROVE  /\ IsFiniteSet(T)
         /\ Cardinality(S) \in Nat /\ Cardinality(T) \in Nat
         /\ Cardinality(T) <= Cardinality(S)
BY FS_Subset, FS_CardinalityType

LEMMA OneMore ==
  ASSUME NEW S, IsFiniteSet(S), NEW x, NEW T, T = S \cup {x}
  PROVE  /\ IsFiniteSet(T)
         /\ Cardinality(S) \in Nat /\ Cardinality(T) \in Nat
         /\ Cardinality(T) <= Cardinality(S) + 1
<1>1. /\ IsFiniteSet(S \cup {x})
      /\ Cardinality(S \cup {x}) =
           IF x \in S THEN Cardinality(S) ELSE Cardinality(S) + 1
  BY FS_AddElement
<1>2. Cardinality(S) \in Nat /\ Cardinality(S \cup {x}) \in Nat
  BY <1>1, FS_CardinalityType
<1> QED
  BY <1>1, <1>2

\* A finite set of one element at most.
LEMMA OneElement ==
  ASSUME NEW S, IsFiniteSet(S), Cardinality(S) \in Nat, Cardinality(S) <= 1,
         NEW i \in S, NEW j \in S
  PROVE  i = j
<1>1. CASE Cardinality(S) = 0
  BY <1>1, FS_EmptySet
<1>2. CASE Cardinality(S) = 1
  BY <1>2, FS_Singleton
<1> QED
  BY <1>1, <1>2

LEMMA ReportsFinite ==
  ASSUME NEW w
  PROVE  /\ IsFiniteSet(ReportsOf(w)) /\ IsFiniteSet(InsertsOf(w))
         /\ Cardinality(ReportsOf(w)) \in Nat
         /\ Cardinality(InsertsOf(w)) \in Nat
         /\ Cardinality(InsertsOf(w)) <= Cardinality(ReportsOf(w))
<1>1. ReportsOf(w) \in SUBSET Conns /\ InsertsOf(w) \in SUBSET ReportsOf(w)
  BY DEF ReportsOf, InsertsOf
<1> QED
  BY <1>1, ConnsAssumption, PartIsSmaller

\* Rows and reports of a worker that become fewer.
LEMMA FewerWithin ==
  ASSUME NEW w, RowsWithin(w),
         ReportsOf(w)' \subseteq ReportsOf(w),
         InsertsOf(w)' \subseteq InsertsOf(w),
         RowsOf(w)' \subseteq RowsOf(w)
  PROVE  RowsWithin(w)'
<1>1. /\ IsFiniteSet(RowsOf(w))
      /\ Cardinality(ReportsOf(w)) <= MaxReports
      /\ Cardinality(RowsOf(w)) + Cardinality(InsertsOf(w)) <= MaxReports
  BY DEF RowsWithin
<1>2. /\ IsFiniteSet(RowsOf(w)')
      /\ Cardinality(RowsOf(w)) \in Nat /\ Cardinality(RowsOf(w)') \in Nat
      /\ Cardinality(RowsOf(w)') <= Cardinality(RowsOf(w))
  BY <1>1, PartIsSmaller
<1>3. /\ Cardinality(ReportsOf(w)) \in Nat
      /\ Cardinality(ReportsOf(w)') \in Nat
      /\ Cardinality(ReportsOf(w)') <= Cardinality(ReportsOf(w))
  BY ReportsFinite, PartIsSmaller
<1>4. /\ Cardinality(InsertsOf(w)) \in Nat
      /\ Cardinality(InsertsOf(w)') \in Nat
      /\ Cardinality(InsertsOf(w)') <= Cardinality(InsertsOf(w))
  BY ReportsFinite, PartIsSmaller
<1>5. Cardinality(ReportsOf(w)') <= MaxReports
  BY <1>1, <1>3, ReportsAssumption
<1>6. Cardinality(RowsOf(w)') + Cardinality(InsertsOf(w)') <= MaxReports
  BY <1>1, <1>2, <1>4, ReportsAssumption
<1> QED
  BY <1>2, <1>5, <1>6 DEF RowsWithin

\* A report that starts.
LEMMA ReportWithin ==
  ASSUME TableInv, NEW w, RowsWithin(w), NEW c \in Conns, NEW v \in Workers,
         Report(c, v)
  PROVE  RowsWithin(w)'
<1>1. /\ call[c].pc = "idle" /\ call[c].worker = NoWorker
      /\ call'[c].pc = "find" /\ call'[c].worker = v
      /\ \A d \in Conns \ {c} : call'[d] = call[d]
      /\ UNCHANGED rows
      /\ Cardinality(ReportsOf(v)) < MaxReports
  BY ReportMoves DEF TableInv, TypeOK, Report
<1>2. InsertsOf(w)' \subseteq InsertsOf(w) /\ RowsOf(w)' = RowsOf(w)
  BY <1>1 DEF InsertsOf, ReportsOf, RowsOf
<1>3. CASE w # v
  <2>1. ReportsOf(w)' \subseteq ReportsOf(w)
    BY <1>1, <1>3 DEF ReportsOf
  <2> QED
    BY <1>2, <2>1, FewerWithin
<1>4. CASE w = v
  <2>1. ReportsOf(w)' = ReportsOf(w) \cup {c}
    BY <1>1, <1>4 DEF ReportsOf
  <2>2. IsFiniteSet(ReportsOf(w))
    BY ReportsFinite
  <2>3. /\ Cardinality(ReportsOf(w)) \in Nat
        /\ Cardinality(ReportsOf(w)') \in Nat
        /\ Cardinality(ReportsOf(w)') <= Cardinality(ReportsOf(w)) + 1
    BY <2>1, <2>2, OneMore
  <2>4. Cardinality(ReportsOf(w)') <= MaxReports
    BY <1>1, <1>4, <2>3, ReportsAssumption
  <2>5. Cardinality(RowsOf(w)) + Cardinality(InsertsOf(w)) <= MaxReports
        /\ IsFiniteSet(RowsOf(w))
    BY DEF RowsWithin
  <2>6. /\ Cardinality(InsertsOf(w)) \in Nat
        /\ Cardinality(InsertsOf(w)') \in Nat
        /\ Cardinality(InsertsOf(w)') <= Cardinality(InsertsOf(w))
    BY <1>2, ReportsFinite, PartIsSmaller
  <2>7. Cardinality(RowsOf(w)) \in Nat
    BY <2>5, FS_CardinalityType
  <2>8. Cardinality(RowsOf(w)') + Cardinality(InsertsOf(w)') <= MaxReports
    BY <1>2, <2>5, <2>6, <2>7, ReportsAssumption
  <2> QED
    BY <1>2, <2>4, <2>5, <2>8 DEF RowsWithin
<1> QED
  BY <1>3, <1>4

\* A report that found a row, or found none: then there is none.
LEMMA FindWithin ==
  ASSUME TableInv, NEW w, RowsWithin(w), NEW c \in Conns, Find(c)
  PROVE  RowsWithin(w)'
<1>1. /\ call[c].pc = "find"
      /\ call'[c].worker = call[c].worker
      /\ \/ call'[c].pc = "update"
         \/ call'[c].pc = "insert" /\ RowsOf(call[c].worker) = {}
      /\ \A d \in Conns \ {c} : call'[d] = call[d]
      /\ UNCHANGED rows
  BY FindMoves DEF TableInv, Find
<1>2. ReportsOf(w)' = ReportsOf(w) /\ RowsOf(w)' = RowsOf(w)
  BY <1>1 DEF ReportsOf, RowsOf
<1>3. CASE call'[c].pc = "update" \/ call[c].worker # w
  <2>1. InsertsOf(w)' \subseteq InsertsOf(w)
    BY <1>1, <1>3 DEF InsertsOf, ReportsOf
  <2> QED
    BY <1>2, <2>1, FewerWithin
<1>4. CASE call[c].worker = w /\ RowsOf(w) = {}
  <2>1. Cardinality(RowsOf(w)') = 0
    BY <1>2, <1>4, FS_EmptySet
  <2>2. InsertsOf(w)' \in SUBSET ReportsOf(w)
    BY <1>2 DEF InsertsOf
  <2>3. /\ Cardinality(ReportsOf(w)) \in Nat
        /\ Cardinality(InsertsOf(w)') \in Nat
        /\ Cardinality(InsertsOf(w)') <= Cardinality(ReportsOf(w))
    BY <2>2, ReportsFinite, PartIsSmaller
  <2>4. /\ IsFiniteSet(RowsOf(w))
        /\ Cardinality(ReportsOf(w)) <= MaxReports
    BY DEF RowsWithin
  <2>5. Cardinality(RowsOf(w)') + Cardinality(InsertsOf(w)') <= MaxReports
    BY <2>1, <2>3, <2>4, ReportsAssumption
  <2> QED
    BY <1>2, <2>4, <2>5 DEF RowsWithin
<1> QED
  BY <1>1, <1>3, <1>4

\* A report that ends.
LEMMA EndWithin ==
  ASSUME TableInv, NEW w \in Workers, NEW c \in Conns,
         call'[c] = Idle, \A d \in Conns \ {c} : call'[d] = call[d]
  PROVE  /\ ReportsOf(w)' = ReportsOf(w) \ {c}
         /\ InsertsOf(w)' = InsertsOf(w) \ {c}
BY IdleTyped, NoneAssumption DEF ReportsOf, InsertsOf

\* A report that inserts its row is not about to insert one any more.
LEMMA StoredWithin ==
  ASSUME TableInv, NEW w \in Workers, RowsWithin(w),
         NEW c \in Conns, NEW id \in RowIds, StoreStep(c, id)
  PROVE  RowsWithin(w)'
<1>1. /\ rows'[id].worker_id = call[c].worker
      /\ \A i \in RowIds \ {id} : rows'[i] = rows[i]
      /\ call'[c] = Idle /\ \A d \in Conns \ {c} : call'[d] = call[d]
  BY StoredMoves DEF TableInv, StoreStep
<1>2. /\ ReportsOf(w)' = ReportsOf(w) \ {c}
      /\ InsertsOf(w)' = InsertsOf(w) \ {c}
  BY <1>1, EndWithin
<1>3. CASE w # call[c].worker
  <2>1. RowsOf(w)' \subseteq RowsOf(w)
    BY <1>1, <1>3 DEF RowsOf
  <2> QED
    BY <1>2, <2>1, FewerWithin
<1>4. CASE w = call[c].worker /\ call[c].pc = "update"
  <2>1. id \in RowsOf(w)
    BY <1>4 DEF StoreStep, TableInv, FoundIsOwn, RowsOf
  <2>2. RowsOf(w)' \subseteq RowsOf(w)
    BY <1>1, <2>1 DEF RowsOf
  <2> QED
    BY <1>2, <2>2, FewerWithin
<1>5. CASE w = call[c].worker /\ call[c].pc = "insert"
  <2>1. RowsOf(w)' = RowsOf(w) \cup {id}
    BY <1>1, <1>5 DEF RowsOf
  <2>2. c \in InsertsOf(w)
    BY <1>5 DEF InsertsOf, ReportsOf
  <2>3. /\ IsFiniteSet(RowsOf(w))
        /\ Cardinality(ReportsOf(w)) <= MaxReports
        /\ Cardinality(RowsOf(w)) + Cardinality(InsertsOf(w)) <= MaxReports
    BY DEF RowsWithin
  <2>4. /\ IsFiniteSet(RowsOf(w)')
        /\ Cardinality(RowsOf(w)') \in Nat /\ Cardinality(RowsOf(w)) \in Nat
        /\ Cardinality(RowsOf(w)') <= Cardinality(RowsOf(w)) + 1
    BY <2>1, <2>3, OneMore
  <2>5. /\ Cardinality(InsertsOf(w)) \in Nat
        /\ Cardinality(InsertsOf(w)') = Cardinality(InsertsOf(w)) - 1
    BY <1>2, <2>2, ReportsFinite, FS_RemoveElement
  <2>6. Cardinality(RowsOf(w)') + Cardinality(InsertsOf(w)') <= MaxReports
    BY <2>3, <2>4, <2>5, ReportsAssumption
  <2>7. /\ Cardinality(ReportsOf(w)) \in Nat
        /\ Cardinality(ReportsOf(w)') \in Nat
        /\ Cardinality(ReportsOf(w)') <= Cardinality(ReportsOf(w))
    BY <1>2, ReportsFinite, PartIsSmaller
  <2>8. Cardinality(ReportsOf(w)') <= MaxReports
    BY <2>3, <2>7, ReportsAssumption
  <2> QED
    BY <2>4, <2>6, <2>8 DEF RowsWithin
<1> QED
  BY <1>3, <1>4, <1>5 DEF StoreStep

LEMMA NextWithin == TableInv /\ RowsInv /\ [Next]_vars => RowsInv'
<1> SUFFICES ASSUME TableInv, RowsInv, [Next]_vars, NEW w \in Workers
             PROVE  RowsWithin(w)'
  BY DEF RowsInv
<1>t. TypeOK /\ RowsWithin(w)
  BY DEF TableInv, RowsInv
<1>1. ASSUME NEW c \in Conns, NEW v \in Workers, Report(c, v)
      PROVE  RowsWithin(w)'
  BY <1>t, <1>1, ReportWithin
<1>2. ASSUME NEW c \in Conns, Find(c)
      PROVE  RowsWithin(w)'
  BY <1>t, <1>2, FindWithin
<1>3. ASSUME NEW c \in Conns, Fail(c)
      PROVE  RowsWithin(w)'
  <2>1. /\ ReportsOf(w)' = ReportsOf(w) \ {c}
        /\ InsertsOf(w)' = InsertsOf(w) \ {c}
    BY <1>t, <1>3, FailMoves, EndWithin
  <2>2. RowsOf(w)' = RowsOf(w)
    BY <1>3 DEF Fail, RowsOf
  <2> QED
    BY <1>t, <2>1, <2>2, FewerWithin
<1>4. ASSUME NEW c \in Conns, Update(c)
      PROVE  RowsWithin(w)'
  <2>1. CASE rows[call[c].row] # NoRecord /\ Stored(c, call[c].row)
    <3>1. call[c].row \in RowIds /\ StoreStep(c, call[c].row)
      BY <1>t, <1>4, <2>1 DEF Update, StoreStep, TypeOK, TableInv, FoundIsOwn
    <3> QED
      BY <1>t, <3>1, StoredWithin
  <2> QED
    BY <1>3, <1>4, <2>1 DEF Update
<1>5. ASSUME NEW c \in Conns, Insert(c)
      PROVE  RowsWithin(w)'
  <2>1. PICK id \in RowIds \ used : Stored(c, id)
    BY <1>5 DEF Insert
  <2>2. StoreStep(c, id)
    BY <1>5, <2>1 DEF Insert, StoreStep
  <2> QED
    BY <1>t, <2>1, <2>2, StoredWithin
<1>6. ASSUME UNCHANGED call, RowsOf(w)' \subseteq RowsOf(w)
      PROVE  RowsWithin(w)'
  <2>1. ReportsOf(w)' = ReportsOf(w) /\ InsertsOf(w)' = InsertsOf(w)
    BY <1>6 DEF ReportsOf, InsertsOf
  <2> QED
    BY <1>t, <1>6, <2>1, FewerWithin
<1>7. ASSUME NEW id, DeleteWorkerById(id) \/ DeleteWorkerByWorkerId(id)
      PROVE  RowsWithin(w)'
  <2>1. PICK ids : Delete(ids)
    BY <1>7 DEF DeleteWorkerById, DeleteWorkerByWorkerId
  <2>2. UNCHANGED call
    BY <2>1 DEF Delete
  <2>3. /\ \A i \in RowIds \cap ids : rows'[i] = NoRecord
        /\ \A i \in RowIds \ ids : rows'[i] = rows[i]
    BY <1>t, <2>1, DeleteMoves
  <2>4. RowsOf(w)' \subseteq RowsOf(w)
    BY <2>3, RecordTyped, NoneAssumption DEF RowsOf
  <2> QED
    BY <1>6, <2>2, <2>4
<1>8. CASE DeleteFails \/ Tick \/ UNCHANGED vars
  <2>1. UNCHANGED <<rows, call>>
    BY <1>8 DEF DeleteFails, Tick, vars
  <2> QED
    BY <1>6, <2>1 DEF RowsOf
<1> QED
  BY <1>1, <1>2, <1>3, <1>4, <1>5, <1>7, <1>8 DEF Next, Handle, Abort

\* It holds from the start: no report, no row.
LEMMA RowsInvariant == Spec => []RowsInv
<1>1. Init => RowsInv
  <2> SUFFICES ASSUME Init, NEW w \in Workers PROVE RowsWithin(w)
    BY DEF RowsInv
  <2>1. \A c \in Conns : call[c] = Idle
    BY DEF Init
  <2>2. RowsOf(w) = {}
    BY RecordTyped, NoneAssumption DEF Init, RowsOf
  <2>3. ReportsOf(w) = {} /\ InsertsOf(w) = {}
    BY <2>1, IdleTyped, NoneAssumption DEF ReportsOf, InsertsOf
  <2>4. IsFiniteSet({}) /\ Cardinality({}) = 0
    BY FS_EmptySet
  <2> QED
    BY <2>2, <2>3, <2>4, ReportsAssumption DEF RowsWithin
<1> QED
  BY <1>1, NextWithin, TableInvariant, PTL DEF Spec

LEMMA WithinBound ==
  ASSUME RowsInv, NEW w \in Workers
  PROVE  /\ IsFiniteSet(RowsOf(w)) /\ Cardinality(RowsOf(w)) \in Nat
         /\ Cardinality(RowsOf(w)) <= MaxReports
<1>1. /\ IsFiniteSet(RowsOf(w))
      /\ Cardinality(RowsOf(w)) + Cardinality(InsertsOf(w)) <= MaxReports
  BY DEF RowsInv, RowsWithin
<1>2. Cardinality(RowsOf(w)) \in Nat /\ Cardinality(InsertsOf(w)) \in Nat
  BY <1>1, FS_CardinalityType, ReportsFinite
<1> QED
  BY <1>1, <1>2, ReportsAssumption

(***************************************************************************)
(* A worker has no more rows than its reports may overlap, although the    *)
(* table has no unique constraint and a report is a SELECT and a later     *)
(* INSERT (db_ops.rs report_worker_info): duplicates do not pile up.       *)
(***************************************************************************)
THEOREM RowsStayWithinReports == Spec => []RowsWithinReports
<1>1. RowsInv => RowsWithinReports
  BY WithinBound DEF RowsWithinReports
<1> QED
  BY <1>1, RowsInvariant, PTL

(***************************************************************************)
(* When one process has a worker id and awaits each report before the next *)
(* (worker.rs register), its rows are never two.                           *)
(***************************************************************************)
THEOREM WorkersHaveOneRow ==
  MaxReports = 1 =>
    (Spec => [](\A w \in Workers : \A i, j \in RowsOf(w) : i = j))
<1> SUFFICES ASSUME MaxReports = 1
             PROVE  Spec => [](\A w \in Workers : \A i, j \in RowsOf(w) : i = j)
  OBVIOUS
<1>1. RowsInv => \A w \in Workers : \A i, j \in RowsOf(w) : i = j
  <2> SUFFICES ASSUME RowsInv, NEW w \in Workers,
                      NEW i \in RowsOf(w), NEW j \in RowsOf(w)
               PROVE  i = j
    OBVIOUS
  <2>1. /\ IsFiniteSet(RowsOf(w)) /\ Cardinality(RowsOf(w)) \in Nat
        /\ Cardinality(RowsOf(w)) <= 1
    BY WithinBound
  <2> QED
    BY <2>1, OneElement
<1> QED
  BY <1>1, RowsInvariant, PTL

(***************************************************************************)
(* `worker offline` never shows a worker that reported within the duration *)
(* asked about, unless it has two rows: an only row has the stamp of the   *)
(* last report or a later one.                                             *)
(***************************************************************************)
THEOREM OfflineAreSilent == Spec => []OfflineIsSilent
<1>1. TableInv /\ RowsInv /\ HeardIsListed => OfflineIsSilent
  <2> SUFFICES ASSUME TableInv, RowsInv, HeardIsListed,
                      NEW dur \in 0..MaxClock, NEW w \in Workers,
                      w \in get_offline_worker(dur),
                      ~(Cardinality(RowsOf(w)) > 1)
               PROVE  heard[w] < clock - dur
    BY DEF OfflineIsSilent
  <2>1. PICK id \in RowIds : /\ rows[id].worker_id = w
                             /\ rows[id].update_at < clock - dur
    BY DEF get_offline_worker
  <2>2. /\ rows[id].update_at \in 0..MaxClock
        /\ heard[w] \in {Never} \cup (0..MaxClock)
        /\ clock \in 0..MaxClock
    BY DEF TableInv, TypeOK
  <2>3. CASE heard[w] = Never
    BY <2>1, <2>2, <2>3, ClockAssumption DEF Never
  <2>4. CASE heard[w] # Never
    <3>1. PICK i \in RowsOf(w) : rows[i].update_at >= heard[w]
      BY <2>4 DEF HeardIsListed
    <3>2. id \in RowsOf(w)
      BY <2>1 DEF RowsOf
    <3>3. /\ IsFiniteSet(RowsOf(w)) /\ Cardinality(RowsOf(w)) \in Nat
          /\ Cardinality(RowsOf(w)) <= 1
      BY WithinBound
    <3>4. i = id
      BY <3>1, <3>2, <3>3, OneElement
    <3>5. rows[id].update_at >= heard[w] /\ heard[w] \in 0..MaxClock
      BY <2>2, <2>4, <3>1, <3>4
    <3> QED
      BY <2>1, <2>2, <3>5, ClockAssumption
  <2> QED
    BY <2>3, <2>4
<1> QED
  BY <1>1, RowsInvariant, TableInvariant, HeardStaysListed, PTL

=============================================================================
