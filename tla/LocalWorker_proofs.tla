------------------------- MODULE LocalWorker_proofs -------------------------
(***************************************************************************)
(* Proofs about the worker for every max_task, RETRY_SUM, counter width    *)
(* and set of jobs: the counter is exact, the worker stays within          *)
(* max_task, holds every job once and implements WorkerSlots.              *)
(***************************************************************************)
EXTENDS LocalWorker, FiniteSetTheorems, TLAPS

-----------------------------------------------------------------------------
(* Sequences without repetition *)

LEMMA AppendNew ==
  ASSUME NEW S, NEW s \in Seq(S), NEW e \in S
  PROVE  /\ Append(s, e) \in Seq(S)
         /\ Len(Append(s, e)) = Len(s) + 1
         /\ Range(Append(s, e)) = Range(s) \cup {e}
         /\ IsInjective(s) /\ e \notin Range(s) => IsInjective(Append(s, e))
<1>1. /\ Append(s, e) \in Seq(S)
      /\ Len(Append(s, e)) = Len(s) + 1
      /\ DOMAIN Append(s, e) = 1..(Len(s) + 1)
      /\ \A i \in 1..Len(s) : Append(s, e)[i] = s[i]
      /\ Append(s, e)[Len(s) + 1] = e
      /\ Len(s) \in Nat /\ DOMAIN s = 1..Len(s)
  OBVIOUS
<1>2. \A i \in 1..(Len(s) + 1) : i \in 1..Len(s) \/ i = Len(s) + 1
  BY <1>1
<1>3. Range(Append(s, e)) = Range(s) \cup {e}
  <2>1. Range(Append(s, e)) \subseteq Range(s) \cup {e}
    BY <1>1, <1>2 DEF Range
  <2>2. Range(s) \cup {e} \subseteq Range(Append(s, e))
    BY <1>1 DEF Range
  <2> QED
    BY <2>1, <2>2
<1>4. ASSUME IsInjective(s), e \notin Range(s)
      PROVE  IsInjective(Append(s, e))
  BY <1>1, <1>2, <1>4 DEF IsInjective, Range
<1> QED
  BY <1>1, <1>3, <1>4

LEMMA TailOfInjective ==
  ASSUME NEW S, NEW s \in Seq(S), s # <<>>, IsInjective(s)
  PROVE  /\ Head(s) \in S /\ Head(s) \in Range(s)
         /\ Tail(s) \in Seq(S) /\ Len(Tail(s)) = Len(s) - 1
         /\ Range(Tail(s)) = Range(s) \ {Head(s)}
         /\ IsInjective(Tail(s))
<1>1. /\ Len(s) \in Nat \ {0} /\ DOMAIN s = 1..Len(s)
      /\ Head(s) = s[1] /\ Head(s) \in S
      /\ Tail(s) \in Seq(S) /\ Len(Tail(s)) = Len(s) - 1
      /\ DOMAIN Tail(s) = 1..(Len(s) - 1)
      /\ \A i \in 1..(Len(s) - 1) : Tail(s)[i] = s[i + 1]
  OBVIOUS
<1>2. \A i \in 1..Len(s) : s[i] = s[1] <=> i = 1
  BY <1>1 DEF IsInjective
<1>3. Range(Tail(s)) \subseteq Range(s) \ {Head(s)}
  BY <1>1, <1>2 DEF Range
<1>4. ASSUME NEW x \in Range(s) \ {Head(s)} PROVE x \in Range(Tail(s))
  <2>1. PICK i \in 1..Len(s) : x = s[i] /\ i # 1
    BY <1>1 DEF Range
  <2>2. i - 1 \in 1..(Len(s) - 1) /\ Tail(s)[i - 1] = x
    BY <1>1, <2>1
  <2> QED
    BY <1>1, <2>2 DEF Range
<1>5. IsInjective(Tail(s))
  BY <1>1 DEF IsInjective
<1>6. Head(s) \in Range(s)
  BY <1>1 DEF Range
<1> QED
  BY <1>1, <1>3, <1>4, <1>5, <1>6

LEMMA FrontOfInjective ==
  ASSUME NEW S, NEW s \in Seq(S), s # <<>>, IsInjective(s)
  PROVE  /\ Last(s) \in S /\ Last(s) \in Range(s)
         /\ Front(s) \in Seq(S)
         /\ Range(Front(s)) = Range(s) \ {Last(s)}
         /\ IsInjective(Front(s))
<1> DEFINE n == Len(s)
<1>1. /\ n \in Nat \ {0} /\ DOMAIN s = 1..n /\ n \in 1..n
      /\ \A i \in 1..n : s[i] \in S
  OBVIOUS
<1>2. /\ Front(s) \in Seq(S)
      /\ DOMAIN Front(s) = 1..(n - 1)
      /\ \A i \in 1..(n - 1) : Front(s)[i] = s[i]
  BY <1>1 DEF Front
<1>3. Last(s) = s[n]
  BY DEF Last
<1>4. \A i, j \in 1..n : s[i] = s[j] => i = j
  BY <1>1 DEF IsInjective
<1>5. Range(s) = {s[i] : i \in 1..n}
  BY <1>1 DEF Range
<1>6. Range(Front(s)) = {s[i] : i \in 1..(n - 1)}
  BY <1>2 DEF Range
<1> HIDE DEF n
<1>7. \A i \in 1..n : i \in 1..(n - 1) \/ i = n
  BY <1>1
<1>8. \A i \in 1..(n - 1) : i \in 1..n /\ i # n
  BY <1>1
<1>9. Range(Front(s)) = Range(s) \ {Last(s)}
  BY <1>1, <1>3, <1>4, <1>5, <1>6, <1>7, <1>8
<1>10. IsInjective(Front(s))
  BY <1>2, <1>4, <1>8 DEF IsInjective
<1> QED
  BY <1>1, <1>2, <1>3, <1>5, <1>9, <1>10

LEMMA EmptySeqRange == Range(<<>>) = {} /\ IsInjective(<<>>)
BY DEF Range, IsInjective

LEMMA ListOfSubset ==
  ASSUME NEW S \in SUBSET Jobs, NEW s \in SetToSeqs(S)
  PROVE  s \in Seq(Jobs) /\ IsInjective(s) /\ Range(s) \in SUBSET Jobs
<1>1. Cardinality(S) \in Nat
  BY JobsAssumption, FS_Subset, FS_CardinalityType
<1> QED
  BY <1>1 DEF SetToSeqs, IsInjective, Range

\* The range of a sequence has no more members than the sequence.
LEMMA RangeBound ==
  ASSUME NEW S, NEW s \in Seq(S)
  PROVE  IsFiniteSet(Range(s)) /\ Cardinality(Range(s)) <= Len(s)
<1>1. Len(s) \in Nat /\ DOMAIN s = 1..Len(s)
  OBVIOUS
<1>2. IsFiniteSet(1..Len(s)) /\ Cardinality(1..Len(s)) = Len(s)
  BY <1>1, FS_Interval
<1>3. s \in Surjection(1..Len(s), Range(s))
  BY <1>1 DEF Surjection, Range
<1> QED
  BY <1>2, <1>3, FS_Surjection

-----------------------------------------------------------------------------
(* The invariant *)

\* Before its first answer the worker holds nothing.
NothingBefore ==
  fpc \in {"uncompleted", "panicked"} =>
    /\ pending = <<>> /\ chan = <<>> /\ spawned = {}
    /\ select_task = NoJob /\ undo_task = NoJob /\ result = NoJob

\* A task that is being fetched has its slot, and no other waits for it.
SlotReserved == fpc = "fetch" => Load < MaxTask /\ pending = <<>>

WorkerInv ==
  /\ TypeOK /\ CountIsLoad /\ CapacityBound /\ HeldOnce
  /\ NothingBefore /\ SlotReserved

LEMMA LoadTyped ==
  ASSUME TypeOK
  PROVE  /\ Load \in Nat
         /\ Len(chan) \in Nat /\ Cardinality(spawned) \in Nat
         /\ \A j : One(j) \in {0, 1}
  BY FS_CardinalityType DEF TypeOK, Load, One

\* A counter that is exact, or will be when the fetcher has added its task,
\* stays so when a task leaves, around zero too.
LEMMA CounterStep ==
  ASSUME NEW L \in Nat, NEW M \in Nat, NEW n \in 0..MaxUsize,
         NEW m \in 0..MaxUsize, L <= MaxTask,
         (M = L /\ m = n) \/ (M + 1 = L /\ m = Dec(n))
  PROVE  (Inc(n) = L => Inc(m) = M) /\ (n = L => m = M)
BY MaxTaskAssumption, UsizeAssumption DEF Inc, Dec

LEMMA InitWorker == Init => WorkerInv
BY JobsAssumption, MaxTaskAssumption, RetryAssumption, UsizeAssumption,
   FS_EmptySet, EmptySeqRange
   DEF Init, WorkerInv, TypeOK, CountIsLoad, CapacityBound, HeldOnce, Load,
       One, Active, NothingBefore, SlotReserved

LEMMA NextWorker == WorkerInv /\ [Next]_vars => WorkerInv'
<1> SUFFICES ASSUME WorkerInv, [Next]_vars PROVE WorkerInv'
  OBVIOUS
<1> USE JobsAssumption, MaxTaskAssumption, RetryAssumption, UsizeAssumption
<1> USE DEF fetcher, executor
<1>t. /\ TypeOK /\ CountIsLoad /\ CapacityBound /\ HeldOnce /\ NothingBefore
      /\ SlotReserved
  BY DEF WorkerInv
<1>l. /\ Load \in Nat
      /\ Len(chan) \in Nat /\ Cardinality(spawned) \in Nat
      /\ \A j : One(j) \in {0, 1}
      /\ \A j \in Jobs : One(j) = 1
      /\ One(NoJob) = 0
  BY <1>t, LoadTyped DEF One
<1>r. Range(chan) \subseteq Jobs /\ Range(pending) \subseteq Jobs
  BY <1>t DEF TypeOK, Range
\* A step that moves no job and does not count.
<1>s. ASSUME UNCHANGED <<pending, select_task, chan, count, undo_task, spawned,
                         result>>,
             TypeOK', fpc' = "count" <=> fpc = "count", NothingBefore',
             fpc' = "fetch" => Load < MaxTask /\ pending = <<>>
      PROVE  WorkerInv'
  BY <1>s, <1>t
     DEF WorkerInv, CountIsLoad, CapacityBound, HeldOnce, SlotReserved, Load,
         Active
<1>1. CASE FetchUncompleted
  <2>1. PICK S \in SUBSET Jobs : pending' \in SetToSeqs(S)
    BY <1>1 DEF FetchUncompleted
  <2>2. pending' \in Seq(Jobs) /\ IsInjective(pending') /\ Range(pending') \subseteq Jobs
    BY <2>1, ListOfSubset
  <2>3. Active = {}
    BY <1>1, <1>t, EmptySeqRange DEF FetchUncompleted, NothingBefore, Active
  <2>4. TypeOK'
    BY <1>1, <1>t, <2>2 DEF FetchUncompleted, TypeOK
  <2>5. HeldOnce' /\ NothingBefore' /\ SlotReserved'
    BY <1>1, <1>t, <2>2, <2>3
       DEF FetchUncompleted, HeldOnce, NothingBefore, SlotReserved, Active
  <2>6. CountIsLoad' /\ CapacityBound'
    BY <1>1, <1>t DEF FetchUncompleted, CountIsLoad, CapacityBound, Load
  <2> QED
    BY <2>4, <2>5, <2>6 DEF WorkerInv
<1>2. CASE FetchUncompletedFails
  <2>1. TypeOK' /\ NothingBefore'
    BY <1>2, <1>t DEF FetchUncompletedFails, TypeOK, NothingBefore
  <2> QED
    BY <1>2, <2>1, <1>s DEF FetchUncompletedFails
<1>3. CASE TickPending
  <2>1. /\ Last(pending) \in Jobs /\ Last(pending) \in Range(pending)
        /\ Front(pending) \in Seq(Jobs)
        /\ Range(Front(pending)) = Range(pending) \ {Last(pending)}
        /\ IsInjective(Front(pending))
    BY <1>3, <1>t, FrontOfInjective DEF TickPending, TypeOK, HeldOnce
  <2>2. TypeOK' /\ NothingBefore'
    BY <1>3, <1>t, <2>1 DEF TickPending, TypeOK, NothingBefore
  <2>3. select_task = NoJob
    BY <1>3, <1>t DEF TickPending, TypeOK
  <2>4. HeldOnce'
    BY <1>3, <1>t, <2>1, <2>3 DEF TickPending, HeldOnce, Active, TypeOK
  <2>5. Load' = Load
    BY <1>3 DEF TickPending, Load
  <2>6. CountIsLoad' /\ CapacityBound' /\ SlotReserved'
    BY <1>3, <1>t, <1>l, <2>1, <2>5
       DEF TickPending, CountIsLoad, CapacityBound, SlotReserved, TypeOK
  <2> QED
    BY <2>2, <2>4, <2>6 DEF WorkerInv
<1>4. CASE TickFetch
  <2>1. TypeOK' /\ NothingBefore'
    BY <1>4, <1>t DEF TickFetch, TypeOK, NothingBefore
  <2>2. Load < MaxTask
    BY <1>4, <1>t DEF TickFetch, CountIsLoad
  <2> QED
    BY <1>4, <2>1, <2>2, <1>s DEF TickFetch
<1>5. CASE FetchOneTodo
  <2>1. TypeOK' /\ NothingBefore'
    BY <1>5, <1>t DEF FetchOneTodo, TypeOK, NothingBefore, Held
  <2>2. CASE fpc' = "tick" /\ UNCHANGED select_task
    BY <1>5, <2>1, <2>2, <1>s DEF FetchOneTodo
  <2>3. CASE select_task' \in Jobs \ Held /\ fpc' = "send"
    <3>1. Load' = Load
      BY <1>5 DEF FetchOneTodo, Load
    <3>2. HeldOnce'
      BY <1>5, <1>t, <2>3 DEF FetchOneTodo, HeldOnce, Active, Held, TypeOK
    <3>3. CountIsLoad' /\ CapacityBound' /\ SlotReserved'
      BY <1>5, <1>t, <1>l, <2>3, <3>1
         DEF FetchOneTodo, CountIsLoad, CapacityBound, SlotReserved, TypeOK
    <3> QED
      BY <2>1, <3>2, <3>3 DEF WorkerInv
  <2> QED
    BY <1>5, <2>2, <2>3 DEF FetchOneTodo
<1>6. CASE SendTask
  <2>0. select_task \in Jobs /\ select_task \notin Range(chan)
    BY <1>6, <1>t DEF SendTask, TypeOK, HeldOnce
  <2>1. /\ chan' \in Seq(Jobs) /\ Len(chan') = Len(chan) + 1
        /\ Range(chan') = Range(chan) \cup {select_task}
        /\ IsInjective(chan')
    BY <1>6, <1>t, <2>0, AppendNew DEF SendTask, TypeOK, HeldOnce
  <2>2. TypeOK' /\ NothingBefore'
    BY <1>6, <1>t, <2>1 DEF SendTask, TypeOK, NothingBefore
  <2>3. HeldOnce'
    <3>1. Active' = Active
      BY <1>6, <2>0, <2>1, <1>t DEF SendTask, Active
    <3>2. Range(chan') \cap (spawned \cup {NoJob, undo_task, result}) = {}
      BY <1>t, <1>r, <2>0, <2>1, <1>6 DEF HeldOnce, TypeOK, Active
    <3>3. spawned \cap {NoJob, undo_task, result} = {}
      BY <1>t DEF HeldOnce, TypeOK
    <3>4. select_task' = NoJob
      BY <1>6 DEF SendTask
    <3> QED
      BY <1>6, <1>t, <2>1, <3>1, <3>2, <3>3, <3>4 DEF SendTask, HeldOnce
  <2>4. Load' = Load + 1
    <3>1. Load' = Len(chan') + One(undo_task) + Cardinality(spawned) + One(result)
      BY <1>6 DEF SendTask, executor, Load
    <3>2. One(undo_task) \in Nat /\ One(result) \in Nat
      BY <1>l
    <3>3. Len(chan') = Len(chan) + 1
      BY <2>1
    <3> QED
      BY <1>l, <3>1, <3>2, <3>3 DEF Load
  <2>5. CountIsLoad' /\ CapacityBound' /\ SlotReserved'
    BY <1>6, <1>t, <1>l, <2>0, <2>4
       DEF SendTask, CountIsLoad, CapacityBound, SlotReserved, TypeOK, Inc
  <2> QED
    BY <2>2, <2>3, <2>5 DEF WorkerInv
<1>7. CASE CountTask
  <2>1. TypeOK' /\ NothingBefore'
    BY <1>7, <1>t DEF CountTask, TypeOK, NothingBefore, Inc
  <2>2. Load' = Load
    BY <1>7 DEF CountTask, Load
  <2>3. HeldOnce' /\ CountIsLoad' /\ CapacityBound' /\ SlotReserved'
    BY <1>7, <1>t, <2>2
       DEF CountTask, HeldOnce, Active, CountIsLoad, CapacityBound,
           SlotReserved
  <2> QED
    BY <2>1, <2>3 DEF WorkerInv
\* The executor's steps leave the fetcher alone: the load may only shrink,
\* by one when the counter does.
<1>e. ASSUME UNCHANGED fetcher, TypeOK', HeldOnce', NothingBefore',
             \/ Load' = Load /\ count' = count
             \/ Load' + 1 = Load /\ count' = Dec(count)
      PROVE  WorkerInv'
  <2>1. Load' \in Nat
    BY <1>e, FS_CardinalityType DEF TypeOK, Load, One
  <2>2. count \in 0..MaxUsize /\ Load <= MaxTask
    BY <1>t, <1>l DEF TypeOK, CapacityBound, One
  <2>3. /\ fpc' = fpc /\ select_task' = select_task /\ pending' = pending
        /\ count' \in 0..MaxUsize
    BY <1>e DEF TypeOK
  <2> DEFINE Moved(L, M) == \/ M = L /\ count' = count
                            \/ M + 1 = L /\ count' = Dec(count)
             Kept(L, M) == /\ Inc(count) = L => Inc(count') = M
                           /\ count = L => count' = M
                           /\ M <= L
  <2>m. Moved(Load, Load')
    BY <1>e
  <2>k. \A L, M \in Nat : L <= MaxTask /\ Moved(L, M) => Kept(L, M)
    BY <2>2, <2>3, CounterStep
  <2> HIDE DEF Moved, Kept
  <2>4. Kept(Load, Load')
    BY <1>l, <2>1, <2>2, <2>m, <2>k
  <2> USE DEF Kept
  <2>5. Load' <= Load
    BY <2>4
  <2>6. CountIsLoad' /\ CapacityBound' /\ SlotReserved'
    BY <1>t, <1>l, <2>1, <2>3, <2>4, <2>5
       DEF CountIsLoad, CapacityBound, SlotReserved
  <2> QED
    BY <1>e, <2>6 DEF WorkerInv
<1>8. CASE RecvTask
  <2>1. /\ undo_task' \in Jobs /\ undo_task' \in Range(chan)
        /\ chan' \in Seq(Jobs) /\ Len(chan') = Len(chan) - 1
        /\ Range(chan') = Range(chan) \ {undo_task'}
        /\ IsInjective(chan')
    BY <1>8, <1>t, TailOfInjective DEF RecvTask, TypeOK, HeldOnce
  <2>2. TypeOK' /\ NothingBefore'
    BY <1>8, <1>t, <2>1 DEF RecvTask, TypeOK, NothingBefore
  <2>3. undo_task = NoJob
    BY <1>8, <1>t DEF RecvTask, TypeOK
  <2>4. HeldOnce'
    BY <1>8, <1>t, <2>1, <2>3 DEF RecvTask, HeldOnce, Active, TypeOK
  <2>5. Load' = Load /\ count' = count
    BY <1>8, <1>l, <2>1, <2>3 DEF RecvTask, Load
  <2> QED
    BY <1>8, <2>2, <2>4, <2>5, <1>e DEF RecvTask
<1>9. CASE RecvNone \/ Reselect \/ ResourceRetry
  <2>1. TypeOK' /\ NothingBefore'
    BY <1>9, <1>t DEF RecvNone, Reselect, ResourceRetry, TypeOK, NothingBefore
  <2> QED
    BY <1>9, <1>t, <2>1, <1>s DEF RecvNone, Reselect, ResourceRetry, SlotReserved
<1>10. CASE ResourceOk
  <2>1. /\ undo_task \in Jobs /\ undo_task \notin spawned
        /\ spawned' = spawned \cup {undo_task} /\ undo_task' = NoJob
    BY <1>10, <1>t DEF ResourceOk, TypeOK, HeldOnce
  <2>2. IsFiniteSet(spawned') /\ Cardinality(spawned') = Cardinality(spawned) + 1
    BY <1>t, <2>1, FS_AddElement DEF TypeOK
  <2>3. TypeOK' /\ NothingBefore'
    BY <1>10, <1>t, <2>1, <2>2 DEF ResourceOk, TypeOK, NothingBefore
  <2>4. HeldOnce'
    <3>1. Active' = Active
      BY <1>10, <2>1, <1>t DEF ResourceOk, Active
    <3>2. Range(chan) \cap (spawned' \cup {select_task, NoJob, result}) = {}
      BY <1>t, <1>r, <2>1 DEF HeldOnce, TypeOK
    <3>3. spawned' \cap {select_task, NoJob, result} = {}
      BY <1>t, <1>r, <2>1 DEF HeldOnce, TypeOK
    <3> QED
      BY <1>10, <1>t, <2>1, <3>1, <3>2, <3>3 DEF ResourceOk, HeldOnce
  <2>5. Load' = Load /\ count' = count
    BY <1>10, <1>l, <2>1, <2>2 DEF ResourceOk, Load
  <2> QED
    BY <1>10, <2>3, <2>4, <2>5, <1>e DEF ResourceOk
<1>11. CASE GiveUp \/ RecordResult
  <2>1. undo_task \in Jobs /\ undo_task' = NoJob
    BY <1>11, <1>t DEF GiveUp, RecordResult, TypeOK
  <2>2. TypeOK' /\ NothingBefore'
    BY <1>11, <1>t, <2>1
       DEF GiveUp, RecordResult, TypeOK, NothingBefore, Dec
  <2>3. HeldOnce'
    <3>1. UNCHANGED <<fetcher, chan, spawned, result>>
      BY <1>11 DEF GiveUp, RecordResult
    <3>2. Active' \subseteq Active
      BY <2>1, <3>1 DEF Active
    <3>3. /\ Range(chan) \cap (spawned \cup {select_task, NoJob, result}) = {}
          /\ spawned \cap {select_task, NoJob, result} = {}
      BY <1>t, <1>r, <2>1 DEF HeldOnce, TypeOK
    <3> QED
      BY <1>t, <2>1, <3>1, <3>2, <3>3 DEF HeldOnce
  <2>4. Load' + 1 = Load /\ count' = Dec(count)
    BY <1>11, <1>l, <2>1 DEF GiveUp, RecordResult, Load
  <2> QED
    BY <1>11, <2>2, <2>3, <2>4, <1>e DEF GiveUp, RecordResult
<1>12. CASE RecvResult
  <2>1. undo_task = NoJob /\ result \in Jobs
        /\ undo_task' = result /\ result' = NoJob
    BY <1>12, <1>t DEF RecvResult, TypeOK
  <2>2. TypeOK' /\ NothingBefore'
    BY <1>12, <1>t, <2>1 DEF RecvResult, TypeOK, NothingBefore
  <2>3. HeldOnce'
    BY <1>12, <1>t, <2>1 DEF RecvResult, HeldOnce, Active, TypeOK
  <2>4. Load' = Load /\ count' = count
    BY <1>12, <1>l, <2>1 DEF RecvResult, Load
  <2> QED
    BY <1>12, <2>2, <2>3, <2>4, <1>e DEF RecvResult
<1>13. ASSUME NEW j \in Jobs, SendResult(j) PROVE WorkerInv'
  <2>1. /\ j \in spawned /\ spawned' = spawned \ {j}
        /\ result = NoJob /\ result' = j
    BY <1>13 DEF SendResult
  <2>2. IsFiniteSet(spawned') /\ Cardinality(spawned') = Cardinality(spawned) - 1
    BY <1>t, <2>1, FS_RemoveElement DEF TypeOK
  <2>3. TypeOK' /\ NothingBefore'
    BY <1>13, <1>t, <2>1, <2>2 DEF SendResult, TypeOK, NothingBefore
  <2>4. HeldOnce'
    BY <1>13, <1>t, <2>1 DEF SendResult, HeldOnce, Active, TypeOK
  <2>5. Load' = Load /\ count' = count
    BY <1>13, <1>l, <2>1, <2>2 DEF SendResult, Load
  <2> QED
    BY <1>13, <2>3, <2>4, <2>5, <1>e DEF SendResult
<1>14. CASE UNCHANGED vars
  BY <1>14, <1>t, <1>s DEF vars, TypeOK, NothingBefore, SlotReserved
<1> QED
  BY <1>1, <1>2, <1>3, <1>4, <1>5, <1>6, <1>7, <1>8, <1>9, <1>10, <1>11,
     <1>12, <1>13, <1>14
     DEF Next, Fetcher, Executor, ReadResource

\* The invariant holds in every state of the worker.
LEMMA WorkerInvariant == Spec => []WorkerInv
BY InitWorker, NextWorker, PTL DEF Spec

\* The worker's state is well typed.
THEOREM TypeCorrect == Spec => []TypeOK
<1>1. WorkerInv => TypeOK
  BY DEF WorkerInv
<1> QED
  BY <1>1, WorkerInvariant, PTL

(***************************************************************************)
(* Although a task is sent before it is counted, the fetcher reads a count *)
(* that is the number of tasks in the worker.                              *)
(***************************************************************************)
THEOREM CountIsExact == Spec => []CountIsLoad
<1>1. WorkerInv => CountIsLoad
  BY DEF WorkerInv
<1> QED
  BY <1>1, WorkerInvariant, PTL

(***************************************************************************)
(* The worker never has more than max_task tasks.                          *)
(***************************************************************************)
THEOREM StaysWithinCapacity == Spec => []CapacityBound
<1>1. WorkerInv => CapacityBound
  BY DEF WorkerInv
<1> QED
  BY <1>1, WorkerInvariant, PTL

(***************************************************************************)
(* A job is in one place of the worker only.                               *)
(***************************************************************************)
THEOREM JobsHeldOnce == Spec => []HeldOnce
<1>1. WorkerInv => HeldOnce
  BY DEF WorkerInv
<1> QED
  BY <1>1, WorkerInvariant, PTL

-----------------------------------------------------------------------------
(* Refinement *)

LEMMA UnionBound ==
  ASSUME NEW S, NEW T, IsFiniteSet(S), IsFiniteSet(T)
  PROVE  /\ IsFiniteSet(S \cup T)
         /\ Cardinality(S \cup T) <= Cardinality(S) + Cardinality(T)
<1>1. S \cap T \in SUBSET S
  OBVIOUS
<1>2. IsFiniteSet(S \cap T)
  BY <1>1, FS_Subset
<1>3. /\ Cardinality(S) \in Nat /\ Cardinality(T) \in Nat
      /\ Cardinality(S \cap T) \in Nat
  BY <1>2, FS_CardinalityType
<1>4. /\ IsFiniteSet(S \cup T)
      /\ Cardinality(S \cup T)
           = Cardinality(S) + Cardinality(T) - Cardinality(S \cap T)
  BY FS_Union
<1> QED
  BY <1>3, <1>4

\* The jobs the worker works on are no more than its load.
LEMMA ActiveBound ==
  ASSUME TypeOK
  PROVE  /\ IsFiniteSet(Active)
         /\ Cardinality(Active) <= Load + One(select_task)
<1> DEFINE Of(j) == {j} \ {NoJob}
<1>1. ASSUME NEW j PROVE IsFiniteSet(Of(j)) /\ Cardinality(Of(j)) = One(j)
  <2>1. CASE j = NoJob
    BY <2>1, FS_EmptySet DEF One
  <2>2. CASE j # NoJob
    <3>1. Of(j) = {j}
      BY <2>2
    <3> QED
      BY <2>2, <3>1, FS_Singleton DEF One
  <2> QED
    BY <2>1, <2>2
<1> HIDE DEF Of
<1>2. Active = (((Of(select_task) \cup Of(undo_task)) \cup Of(result))
                  \cup Range(chan)) \cup spawned
  BY DEF Active, Of
<1> DEFINE A1 == Of(select_task) \cup Of(undo_task)
           A2 == A1 \cup Of(result)
           A3 == A2 \cup Range(chan)
<1>3. IsFiniteSet(A1) /\ Cardinality(A1) <= One(select_task) + One(undo_task)
  BY <1>1, UnionBound
<1>4. IsFiniteSet(A2) /\ Cardinality(A2) <= Cardinality(A1) + One(result)
  BY <1>1, <1>3, UnionBound
<1>5. IsFiniteSet(Range(chan)) /\ Cardinality(Range(chan)) <= Len(chan)
  BY RangeBound DEF TypeOK
<1> HIDE DEF A1
<1>6. /\ IsFiniteSet(A3)
      /\ Cardinality(A3) <= Cardinality(A2) + Cardinality(Range(chan))
  BY <1>4, <1>5, UnionBound
<1> HIDE DEF A2
<1>7. /\ IsFiniteSet(Active)
      /\ Cardinality(Active) <= Cardinality(A3) + Cardinality(spawned)
  <2>1. Active = A3 \cup spawned
    BY <1>2 DEF A1, A2
  <2> HIDE DEF A3
  <2> QED
    BY <1>6, <2>1, UnionBound DEF TypeOK
<1> HIDE DEF A3
<1>8. /\ Cardinality(A1) \in Nat /\ Cardinality(A2) \in Nat
      /\ Cardinality(A3) \in Nat /\ Cardinality(Active) \in Nat
      /\ Cardinality(Range(chan)) \in Nat /\ Cardinality(spawned) \in Nat
      /\ Len(chan) \in Nat
      /\ One(select_task) \in Nat /\ One(undo_task) \in Nat /\ One(result) \in Nat
  BY <1>3, <1>4, <1>5, <1>6, <1>7, FS_CardinalityType DEF TypeOK, One
<1> QED
  BY <1>3, <1>4, <1>5, <1>6, <1>7, <1>8 DEF Load

\* WorkerSlots brings its own instance of Cardinality; it is the same operator.
LEMMA SameCardinality == \A S : Slots!Cardinality(S) = Cardinality(S)
BY DEF Cardinality, Slots!Cardinality

LEMMA StepRefines == WorkerInv /\ [Next]_vars => [Slots!SlotsNext]_(Slots!slots)
<1> SUFFICES ASSUME WorkerInv, [Next]_vars
             PROVE  Slots!SlotsNext \/ UNCHANGED Slots!slots
  OBVIOUS
<1> USE DEF fetcher, executor
<1>t. /\ TypeOK /\ CountIsLoad /\ CapacityBound /\ HeldOnce /\ SlotReserved
  BY DEF WorkerInv
<1>r. Range(chan) \subseteq Jobs /\ Range(pending) \subseteq Jobs
  BY <1>t DEF TypeOK, Range
<1>n. Load \in Nat /\ Cardinality(Active) \in Nat
  BY <1>t, LoadTyped, ActiveBound, FS_CardinalityType
\* A step that neither recovers, nor starts, nor ends a job.
<1>s. ASSUME UNCHANGED pending, Active' = Active,
             fpc' \in {"uncompleted", "panicked"} <=>
               fpc \in {"uncompleted", "panicked"}
      PROVE  UNCHANGED Slots!slots
  BY <1>s DEF Slots!slots
<1>1. CASE FetchUncompleted
  <2>1. PICK S \in SUBSET Jobs : pending' \in SetToSeqs(S)
    BY <1>1 DEF FetchUncompleted
  <2>2. Range(pending') \in SUBSET Jobs
    BY <2>1, ListOfSubset
  <2>3. Slots!Recover
    BY <1>1, <2>2 DEF FetchUncompleted, Slots!Recover, Active
  <2> QED
    BY <2>3 DEF Slots!SlotsNext
<1>2. CASE TickPending
  <2>1. /\ Last(pending) \in Jobs /\ Last(pending) \in Range(pending)
        /\ Range(Front(pending)) = Range(pending) \ {Last(pending)}
    BY <1>2, <1>t, FrontOfInjective DEF TickPending, TypeOK, HeldOnce
  <2>2. select_task = NoJob /\ Last(pending) # NoJob /\ fpc = "tick"
    BY <1>2, <1>t, <2>1, JobsAssumption DEF TickPending, TypeOK
  <2>3. Cardinality(Active) < MaxTask
    <3>1. Load < MaxTask
      BY <1>2, <1>t, <2>2 DEF TickPending, CountIsLoad
    <3>2. Cardinality(Active) <= Load + 0
      BY <1>t, <2>2, ActiveBound DEF One
    <3> QED
      BY <1>n, <3>1, <3>2, MaxTaskAssumption
  <2>4. Active' = Active \cup {Last(pending)}
    BY <1>2, <2>2 DEF TickPending, Active
  <2>5. Last(pending) \notin Active
    BY <1>t, <2>1 DEF HeldOnce
  <2>6. /\ Range(pending') = Range(pending) \ {Last(pending)}
        /\ (fpc' \notin {"uncompleted", "panicked"})
             = (fpc \notin {"uncompleted", "panicked"})
    BY <1>2, <2>1, <2>2 DEF TickPending
  <2>7. Slots!Resume(Last(pending))
    BY <2>1, <2>3, <2>4, <2>5, <2>6, SameCardinality DEF Slots!Resume
  <2> QED
    BY <2>1, <2>7 DEF Slots!SlotsNext
<1>3. CASE FetchOneTodo
  <2>1. CASE fpc' = "tick" /\ UNCHANGED select_task
    BY <1>3, <2>1, <1>s DEF FetchOneTodo, Active
  <2>2. CASE select_task' \in Jobs \ Held /\ fpc' = "send"
    <3>1. select_task = NoJob /\ pending = <<>> /\ Load < MaxTask /\ fpc = "fetch"
      BY <1>3, <1>t DEF FetchOneTodo, TypeOK, SlotReserved
    <3>2. Cardinality(Active) < MaxTask
      <4>1. Cardinality(Active) <= Load + 0
        BY <1>t, <3>1, ActiveBound DEF One
      <4> QED
        BY <1>n, <3>1, <4>1, MaxTaskAssumption
    <3>3. Active' = Active \cup {select_task'}
      BY <1>3, <2>2, <3>1, JobsAssumption DEF FetchOneTodo, Active
    <3>4. /\ Range(pending) = {} /\ Range(pending') = Range(pending)
          /\ select_task' \in Jobs /\ select_task' \notin Active
      BY <1>3, <2>2, <3>1, EmptySeqRange DEF FetchOneTodo, Held
    <3>5. /\ fpc \notin {"uncompleted", "panicked"}
          /\ fpc' \notin {"uncompleted", "panicked"}
      BY <2>2, <3>1
    <3>6. Slots!Take(select_task')
      BY <3>2, <3>3, <3>4, <3>5, SameCardinality DEF Slots!Take
    <3> QED
      BY <3>4, <3>6 DEF Slots!SlotsNext
  <2> QED
    BY <1>3, <2>1, <2>2 DEF FetchOneTodo
<1>4. CASE SendTask
  <2>1. select_task \in Jobs
    BY <1>4, <1>t DEF SendTask, TypeOK
  <2>2. Range(chan') = Range(chan) \cup {select_task}
    BY <1>4, <1>t, <2>1, AppendNew DEF SendTask, TypeOK
  <2>3. Active' = Active
    BY <1>4, <2>1, <2>2, JobsAssumption DEF SendTask, Active
  <2> QED
    BY <1>4, <2>3, <1>s DEF SendTask
<1>5. CASE RecvTask
  <2>1. /\ undo_task' \in Jobs /\ undo_task' \in Range(chan)
        /\ Range(chan') = Range(chan) \ {undo_task'}
    BY <1>5, <1>t, TailOfInjective DEF RecvTask, TypeOK, HeldOnce
  <2>2. undo_task = NoJob
    BY <1>5, <1>t DEF RecvTask, TypeOK
  <2>3. Active' = Active
    BY <1>5, <2>1, <2>2, JobsAssumption DEF RecvTask, Active
  <2> QED
    BY <1>5, <2>3, <1>s DEF RecvTask
<1>6. CASE ResourceOk
  <2>1. undo_task \in Jobs
    BY <1>6, <1>t DEF ResourceOk, TypeOK
  <2>2. Active' = Active
    BY <1>6, <2>1, JobsAssumption DEF ResourceOk, Active
  <2> QED
    BY <1>6, <2>2, <1>s DEF ResourceOk
<1>7. CASE GiveUp \/ RecordResult
  <2>1. undo_task \in Jobs
    BY <1>7, <1>t DEF GiveUp, RecordResult, TypeOK
  <2>2. undo_task \in Active
    BY <2>1, JobsAssumption DEF Active
  <2>3. Active' = Active \ {undo_task}
    <3>1. undo_task' = NoJob /\ UNCHANGED <<select_task, result, chan, spawned>>
      BY <1>7 DEF GiveUp, RecordResult
    <3>2. /\ undo_task \notin spawned /\ undo_task \notin Range(chan)
          /\ undo_task # select_task /\ undo_task # result
      BY <1>t, <2>1, JobsAssumption DEF HeldOnce
    <3> QED
      BY <3>1, <3>2 DEF Active
  <2>4. Slots!Finish(undo_task)
    BY <1>7, <2>2, <2>3 DEF GiveUp, RecordResult, Slots!Finish
  <2> QED
    BY <2>1, <2>4 DEF Slots!SlotsNext
<1>8. CASE RecvResult
  <2>1. undo_task = NoJob
    BY <1>8, <1>t DEF RecvResult, TypeOK
  <2>2. Active' = Active
    BY <1>8, <2>1 DEF RecvResult, Active
  <2> QED
    BY <1>8, <2>2, <1>s DEF RecvResult
<1>9. ASSUME NEW j \in Jobs, SendResult(j) PROVE UNCHANGED Slots!slots
  <2>1. Active' = Active
    BY <1>9, JobsAssumption DEF SendResult, Active
  <2> QED
    BY <1>9, <2>1, <1>s DEF SendResult
<1>10. CASE \/ FetchUncompletedFails \/ TickFetch \/ CountTask \/ RecvNone
            \/ Reselect \/ ResourceRetry \/ UNCHANGED vars
  <2>1. UNCHANGED <<pending, select_task, chan, undo_task, spawned, result>>
    BY <1>10 DEF FetchUncompletedFails, TickFetch, CountTask, RecvNone,
                 Reselect, ResourceRetry, vars
  <2>2. fpc' \in {"uncompleted", "panicked"} <=> fpc \in {"uncompleted", "panicked"}
    BY <1>10 DEF FetchUncompletedFails, TickFetch, CountTask, RecvNone,
                 Reselect, ResourceRetry, vars
  <2>3. Active' = Active
    BY <2>1 DEF Active
  <2> QED
    BY <2>1, <2>2, <2>3, <1>s
<1> QED
  BY <1>1, <1>2, <1>3, <1>4, <1>5, <1>6, <1>7, <1>8, <1>9, <1>10
     DEF Next, Fetcher, Executor, ReadResource

(***************************************************************************)
(* The worker with its tasks, channels and counter implements WorkerSlots: *)
(* unfinished tasks first, at most max_task at a time, each job once.      *)
(***************************************************************************)
THEOREM WorkerImplementsSlots == Spec => ImplementsSlots
<1>1. Init => Slots!SlotsInit
  BY EmptySeqRange DEF Init, Slots!SlotsInit, Active
<1> QED
  BY <1>1, WorkerInvariant, StepRefines, PTL
     DEF Spec, ImplementsSlots, Slots!SlotsSpec

=============================================================================
