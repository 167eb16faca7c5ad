-------------------------- MODULE QuotaCacheProofs --------------------------
(***************************************************************************)
(* Proofs about QuotaCache, for every number of processes and goroutines,  *)
(* every balance and every bound.                                          *)
(***************************************************************************)
EXTENDS QuotaCache, SetSums

PendingOf == [n \in Nodes |-> Pending(n)]

Total == MapThenSumSet(LAMBDA n : Pending(n), Nodes)

LEMMA TotalIs == Total = Sum(PendingOf, Nodes)
<1>. DEFINE Q(it) == it = [s \in SUBSET Nodes |->
                          IF s = {} THEN 0 ELSE Pending(Taken(s)) + it[s \ {Taken(s)}]]
            chosen == CHOOSE it : Q(it)
<1>1. Total = chosen[Nodes]
  BY DEF Total, MapThenSumSet, MapThenFoldSet, Taken
<1>2. \A s \in SUBSET Nodes : s # {} => PendingOf[Taken(s)] = Pending(Taken(s))
  BY TakenIn DEF PendingOf
<1>3. ASSUME NEW it PROVE Q(it) <=> Adds(it, PendingOf, SUBSET Nodes)
  BY <1>2 DEF Adds
<1>4. \E it : Q(it)
  BY <1>3, AddsExists, NodeAssumption
<1>5. Q(chosen)
  BY <1>4
<1>6. Adds(chosen, PendingOf, SUBSET Nodes)
  BY <1>3, <1>5
<1>. HIDE DEF chosen
<1>. QED  BY <1>1, <1>6, SumIs, NodeAssumption

LEMMA TotalIsNext == (Total = Sum(PendingOf, Nodes))'
  BY TotalIs, PTL

-----------------------------------------------------------------------------
(* Type correctness *)

StoreTypes == row \in Row /\ store \in [Nodes -> Int] /\ flush \in [Nodes -> Int \cup {NoFlush}]
WorkTypes == call \in [Nodes -> Call] /\ task \in [Routines -> Task \cup {NoTask}]
CacheType == cache \in Entry \cup {NoKey}
CountTypes ==
    /\ batch \in BOOLEAN /\ truth \in Int /\ lost \in Int
    /\ ops \in 0..MaxOps /\ faults \in 0..MaxFaults

LEMMA TypeParts == TypeOK <=> StoreTypes /\ WorkTypes /\ CacheType /\ CountTypes
  BY DEF TypeOK, StoreTypes, WorkTypes, CacheType, CountTypes

LEMMA TypePartsNext == StoreTypes' /\ WorkTypes' /\ CacheType' /\ CountTypes' => TypeOK'
  BY DEF TypeOK, StoreTypes, WorkTypes, CacheType, CountTypes

LEMMA FaultType ==
    ASSUME faults \in 0..MaxFaults, NoFault \/ Fault PROVE faults' \in 0..MaxFaults
  BY BoundAssumption DEF NoFault, Fault

LEMMA BeginType ==
    ASSUME NEW n, ops \in 0..MaxOps, Begin(n) PROVE ops' \in 0..MaxOps
  BY BoundAssumption DEF Begin

LEMMA IdleType == Idle \in Call
  BY DEF Idle, NoRow, Call, PCs, Row

LEMMA SpawnType ==
    ASSUME NEW g, NEW t \in Task, task \in [Routines -> Task \cup {NoTask}], Spawn(g, t)
    PROVE  task' \in [Routines -> Task \cup {NoTask}]
  BY DEF Spawn

LEMMA AdjustmentType ==
    ASSUME NEW n \in Nodes, NEW d \in Int PROVE Adjustment(n, d) \in Task
  BY DEF Adjustment, Task

\* A request that changes the balance or reads the user.
LEMMA RequestType ==
    ASSUME TypeOK, NEW n \in Nodes,
           \/ \E q \in Amounts : Recharge(n, q) \/ CompleteEpayTopUp(n, q)
           \/ \E g \in Routines, q \in Amounts : UserCheckin(n, g, q)
           \/ \E g \in Routines, d \in Int, direct \in BOOLEAN : AdjustQuota(n, g, d, direct)
           \/ \E disables \in BOOLEAN : ReadUser(n, disables)
    PROVE  TypeOK'
<1>0. StoreTypes /\ WorkTypes /\ CacheType /\ CountTypes /\ Amounts \subseteq Int
  BY TypeParts, AmountAssumption
<1>1. call[n] \in Call /\ row \in Row
  BY <1>0 DEF WorkTypes, StoreTypes
<1>2. Begin(n) /\ UNCHANGED <<batch, cache, flush, lost, faults>>
  BY DEF Recharge, CompleteEpayTopUp, UserCheckin, AdjustQuota, ReadUser, Credit
<1>3. ops' \in 0..MaxOps
  BY <1>0, <1>2, BeginType DEF CountTypes
<1>4. \/ \E d \in Int : \/ row' = [row EXCEPT !.quota = @ + d] /\ store' = store /\ truth' = truth + d
                        \/ row' = row /\ store' = [store EXCEPT ![n] = @ + d] /\ truth' = truth + d
      \/ UNCHANGED <<row, store, truth>>
  <2>1. CASE \E q \in Amounts : Recharge(n, q) \/ CompleteEpayTopUp(n, q)
    BY <1>0, <2>1 DEF Recharge, CompleteEpayTopUp, Credit
  <2>2. CASE \E g \in Routines, q \in Amounts : UserCheckin(n, g, q)
    BY <1>0, <2>2 DEF UserCheckin, Credit
  <2>3. CASE \E g \in Routines, d \in Int, direct \in BOOLEAN : AdjustQuota(n, g, d, direct)
    BY <2>3 DEF AdjustQuota
  <2>4. CASE \E disables \in BOOLEAN : ReadUser(n, disables)
    BY <2>4 DEF ReadUser
  <2>. QED  BY <2>1, <2>2, <2>3, <2>4
<1>5. StoreTypes' /\ truth' \in Int
  BY <1>0, <1>2, <1>4 DEF StoreTypes, CountTypes, Row
<1>6. task' \in [Routines -> Task \cup {NoTask}]
  <2>1. task' = task \/ \E g \in Routines, d \in Int : Spawn(g, Adjustment(n, d))
    BY <1>0 DEF Recharge, CompleteEpayTopUp, UserCheckin, AdjustQuota, ReadUser
  <2>. QED  BY <1>0, <2>1, AdjustmentType, SpawnType DEF WorkTypes
<1>7. call' \in [Nodes -> Call]
  <2>1. \/ call' = call
        \/ call' = [call EXCEPT ![n] = [call[n] EXCEPT !.pc = "invalidate"]]
        \/ \E d \in Int : call' = [call EXCEPT ![n] = [call[n] EXCEPT !.pc = "write", !.delta = d]]
        \/ \E disables \in BOOLEAN :
              call' = [call EXCEPT ![n] =
                          [Idle EXCEPT !.pc = "reread", !.disables = disables,
                                       !.seen = [row EXCEPT !.enabled = @ /\ ~disables]]]
    BY <1>0 DEF Recharge, CompleteEpayTopUp, UserCheckin, AdjustQuota, ReadUser
  <2>2. /\ [call[n] EXCEPT !.pc = "invalidate"] \in Call
        /\ \A d \in Int : [call[n] EXCEPT !.pc = "write", !.delta = d] \in Call
    BY <1>1 DEF Call, PCs
  <2>3. \A disables \in BOOLEAN :
           [Idle EXCEPT !.pc = "reread", !.disables = disables,
                        !.seen = [row EXCEPT !.enabled = @ /\ ~disables]] \in Call
    <3>1. \A b \in BOOLEAN : [row EXCEPT !.enabled = b] \in Row
      BY <1>1 DEF Row
    <3>2. ASSUME NEW disables \in BOOLEAN PROVE (row.enabled /\ ~disables) \in BOOLEAN
      OBVIOUS
    <3>3. \A disables \in BOOLEAN, user \in Row :
             [Idle EXCEPT !.pc = "reread", !.disables = disables, !.seen = user] \in Call
      BY IdleType DEF Call, PCs
    <3>. QED  BY <3>1, <3>2, <3>3
  <2>. QED  BY <1>0, <2>1, <2>2, <2>3 DEF WorkTypes
<1>8. WorkTypes' /\ CacheType' /\ CountTypes'
  BY <1>0, <1>2, <1>3, <1>5, <1>6, <1>7 DEF WorkTypes, CacheType, CountTypes
<1>. QED  BY <1>5, <1>8, TypePartsNext

LEMMA WriteType ==
    ASSUME TypeOK, NEW n \in Nodes, WriteQuota(n) \/ InvalidateUserCache(n)
    PROVE  TypeOK'
<1>0. StoreTypes /\ WorkTypes /\ CacheType /\ CountTypes
  BY TypeParts
<1>1. call[n] \in Call /\ call[n].delta \in Int
  BY <1>0 DEF WorkTypes, Call
<1>2. /\ UNCHANGED <<batch, store, flush, task, lost, ops>> /\ (NoFault \/ Fault)
      /\ cache' \in {cache, NoKey}
      /\ \/ row' = [row EXCEPT !.quota = @ + call[n].delta] /\ truth' = truth + call[n].delta
         \/ UNCHANGED <<row, truth>>
  BY DEF WriteQuota, InvalidateUserCache
<1>3. StoreTypes' /\ CacheType' /\ CountTypes'
  BY <1>0, <1>1, <1>2, FaultType DEF StoreTypes, CacheType, CountTypes, Row
<1>4. \E c \in Call : call' = [call EXCEPT ![n] = c]
  <2>0. \A c \in Call : [c EXCEPT !.pc = "invalidate"] \in Call /\ [c EXCEPT !.delta = 0] \in Call
    BY DEF Call, PCs
  <2>1. Idle \in Call /\ [call[n] EXCEPT !.pc = "invalidate", !.delta = 0] \in Call
    BY <1>1, <2>0, IdleType
  <2>. QED  BY <2>1 DEF WriteQuota, InvalidateUserCache
<1>5. WorkTypes'
  BY <1>0, <1>2, <1>4 DEF WorkTypes
<1>. QED  BY <1>3, <1>5, TypePartsNext

LEMMA SavedType ==
    ASSUME NEW new \in Row, NEW user \in Row
    PROVE  Saved(new, user) \in Row
  BY DEF Saved, Row

\* A step of User.Update, and the object it works on.
LEMMA SaveType ==
    ASSUME TypeOK, NEW n \in Nodes, SaveUser(n)
    PROVE  TypeOK'
<1>0. StoreTypes /\ WorkTypes /\ CacheType /\ CountTypes
  BY TypeParts
<1>1. call[n] \in Call /\ row \in Row
  BY <1>0 DEF WorkTypes, StoreTypes
<1>2. call[n].seen \in Row /\ call[n].user \in Row /\ call[n].disables \in BOOLEAN
  BY <1>1 DEF Call
<1>3. Saved(call[n].seen, row) \in Row /\ Saved(call[n].seen, call[n].user) \in Row
  BY <1>1, <1>2, SavedType
<1>4. ToBaseUser(call[n].user) \in Entry
  BY <1>2 DEF ToBaseUser, Row, Entry
<1>5. /\ UNCHANGED <<batch, store, flush, task, truth, ops>> /\ (NoFault \/ Fault)
      /\ cache' = cache \/ cache' = ToBaseUser(call[n].user)
      /\ \/ /\ row' = Saved(call[n].seen, row)
            /\ lost' = lost + row.quota - Saved(call[n].seen, row).quota
         \/ UNCHANGED <<row, lost>>
  BY DEF SaveUser, RereadUser, UpdateUser, CacheUser
<1>6. row.quota \in Int /\ Saved(call[n].seen, row).quota \in Int
  BY <1>1, <1>3 DEF Row
<1>7. StoreTypes' /\ CacheType' /\ CountTypes'
  BY <1>0, <1>3, <1>4, <1>5, <1>6, FaultType DEF StoreTypes, CacheType, CountTypes
<1>8. \E c \in Call : call' = [call EXCEPT ![n] = c]
  <2>1. Idle \in Call /\ [Idle EXCEPT !.pc = "invalidate"] \in Call
    BY IdleType DEF Call, PCs
  <2>2. \A p \in PCs, user \in Row : [call[n] EXCEPT !.pc = p, !.user = user] \in Call
    BY <1>1 DEF Call
  <2>3. CASE RereadUser(n)
    BY <1>1, <1>2, <2>2, <2>3 DEF RereadUser, GoOn, PCs
  <2>4. CASE UpdateUser(n)
    BY <1>3, <2>1, <2>2, <2>4 DEF UpdateUser, GoOn, PCs
  <2>5. CASE CacheUser(n)
    BY <2>1, <2>5 DEF CacheUser
  <2>. QED  BY <2>3, <2>4, <2>5 DEF SaveUser
<1>9. WorkTypes'
  BY <1>0, <1>5, <1>8 DEF WorkTypes
<1>. QED  BY <1>7, <1>9, TypePartsNext

\* The goroutines at work on the hash.
LEMMA TaskType ==
    ASSUME TypeOK,
           \/ \E n \in Nodes, g \in Routines : GetUserCache(n, g)
           \/ \E g \in Routines : UpdateUserCache(g) \/ ReadTTL(g) \/ RedisHIncrBy(g)
           \/ Expire
    PROVE  TypeOK' /\ UNCHANGED <<row, store, flush, truth, lost>>
<1>0. StoreTypes /\ WorkTypes /\ CacheType /\ CountTypes
  BY TypeParts
<1>1. UNCHANGED <<batch, row, store, flush, call, truth, lost, ops>> /\ (NoFault \/ Fault)
  BY DEF GetUserCache, UpdateUserCache, ReadTTL, RedisHIncrBy, Expire, NoFault
<1>2. StoreTypes' /\ CountTypes' /\ call' \in [Nodes -> Call]
  BY <1>0, <1>1, FaultType DEF StoreTypes, CountTypes, WorkTypes
<1>3. ASSUME NEW n \in Nodes, NEW g \in Routines, GetUserCache(n, g)
      PROVE  WorkTypes' /\ CacheType'
  <2>1. [node |-> n, do |-> "fill", user |-> row] \in Task
    BY <1>0 DEF StoreTypes, Task
  <2>2. task' \in [Routines -> Task \cup {NoTask}]
    BY <1>0, <1>3, <2>1, SpawnType DEF GetUserCache, WorkTypes
  <2>. QED  BY <1>0, <1>2, <1>3, <2>2 DEF GetUserCache, WorkTypes, CacheType
<1>4. ASSUME NEW g \in Routines, End(g) PROVE task' \in [Routines -> Task \cup {NoTask}]
  BY <1>0, <1>4 DEF End, WorkTypes
<1>5. ASSUME NEW g \in Routines, UpdateUserCache(g) PROVE WorkTypes' /\ CacheType'
  <2>1. task[g] \in Task /\ task[g].do = "fill"
    BY <1>0, <1>5 DEF UpdateUserCache, WorkTypes
  <2>2. task[g].user \in Row
    BY <2>1 DEF Task
  <2>3. ToBaseUser(task[g].user) \in Entry
    BY <2>2 DEF ToBaseUser, Row, Entry
  <2>. QED  BY <1>0, <1>2, <1>4, <1>5, <2>3 DEF UpdateUserCache, WorkTypes, CacheType
<1>6. ASSUME NEW g \in Routines, ReadTTL(g) PROVE WorkTypes' /\ CacheType'
  <2>1. task[g] \in Task /\ task[g].do = "adjust"
    BY <1>0, <1>6 DEF ReadTTL, AtStep, WorkTypes
  <2>2. [task[g] EXCEPT !.step = "exec"] \in Task
    <3>1. task[g] \in [node : Nodes, do : {"adjust"}, step : {"ttl", "exec"}, delta : Int]
      BY <2>1 DEF Task
    <3>. QED  BY <3>1 DEF Task
  <2>3. End(g) \/ task' = [task EXCEPT ![g] = [task[g] EXCEPT !.step = "exec"]]
    BY <1>6 DEF ReadTTL
  <2>4. task' \in [Routines -> Task \cup {NoTask}]
    BY <1>0, <1>4, <2>2, <2>3 DEF WorkTypes
  <2>. QED  BY <1>0, <1>2, <1>6, <2>4 DEF ReadTTL, WorkTypes, CacheType
<1>7. ASSUME NEW g \in Routines, RedisHIncrBy(g) PROVE WorkTypes' /\ CacheType'
  <2>1. task[g] \in Task /\ task[g].do = "adjust"
    BY <1>0, <1>7 DEF RedisHIncrBy, AtStep, WorkTypes
  <2>2. PICK d \in Int : d = task[g].delta
    BY <2>1 DEF Task
  <2>3. Incremented(d) \in Entry
    <3>1. CASE cache = NoKey
      BY <3>1 DEF Incremented, Entry
    <3>2. CASE cache # NoKey
      <4>1. cache \in Entry /\ cache.quota + d \in Int
        BY <1>0, <3>2 DEF CacheType, Entry
      <4>2. [cache EXCEPT !.quota = cache.quota + d] \in Entry
        BY <4>1 DEF Entry
      <4>3. \A e \in Entry : [e EXCEPT !.expires = TRUE] \in Entry
        BY DEF Entry
      <4>. QED  BY <3>2, <4>2, <4>3 DEF Incremented
    <3>. QED  BY <3>1, <3>2
  <2>. QED  BY <1>0, <1>2, <1>4, <1>7, <2>2, <2>3 DEF RedisHIncrBy, WorkTypes, CacheType
<1>8. ASSUME Expire PROVE WorkTypes' /\ CacheType'
  <2>1. cache' = NoKey /\ task' = task
    BY <1>8 DEF Expire
  <2>2. CacheType'
    BY <2>1 DEF CacheType
  <2>3. WorkTypes'
    BY <1>0, <1>2, <2>1 DEF WorkTypes
  <2>. QED  BY <2>2, <2>3
<1>9. TypeOK'
  BY <1>2, <1>3, <1>5, <1>6, <1>7, <1>8, TypePartsNext
<1>. QED  BY <1>1, <1>9

\* The batch loop, and the death of a process.
LEMMA BatchType ==
    ASSUME TypeOK, NEW n \in Nodes, BatchSwap(n) \/ BatchWrite(n) \/ Crash(n)
    PROVE  TypeOK'
<1>0. StoreTypes /\ WorkTypes /\ CacheType /\ CountTypes
  BY TypeParts
<1>1. UNCHANGED <<batch, cache, truth, ops>>
  BY DEF BatchSwap, BatchWrite, Crash
<1>2. faults' \in 0..MaxFaults
  BY <1>0, FaultType DEF CountTypes, BatchSwap, BatchWrite, Crash, NoFault
<1>3. CASE BatchSwap(n)
  BY <1>0, <1>1, <1>2, <1>3, TypePartsNext
     DEF BatchSwap, TakenOut, StoreTypes, WorkTypes, CacheType, CountTypes
<1>4. CASE BatchWrite(n)
  <2>1. flush[n] \in Int /\ row.quota \in Int
    BY <1>0, <1>4 DEF BatchWrite, StoreTypes, Row
  <2>2. /\ flush' = [flush EXCEPT ![n] = NoFlush] /\ UNCHANGED <<store, call, task>>
        /\ \/ row' = [row EXCEPT !.quota = @ + flush[n]] /\ lost' = lost
           \/ row' = row /\ lost' = lost + flush[n]
    BY <1>4 DEF BatchWrite
  <2>3. row' \in Row /\ lost' \in Int
    BY <1>0, <2>1, <2>2 DEF StoreTypes, CountTypes, Row
  <2>. QED
    BY <1>0, <1>1, <1>2, <2>2, <2>3, TypePartsNext DEF StoreTypes, WorkTypes, CacheType, CountTypes
<1>5. CASE Crash(n)
  <2>1. Pending(n) \in Int
    BY <1>0 DEF Pending, StoreTypes
  <2>2. /\ lost' = lost + Pending(n) /\ row' = row
        /\ store' = [store EXCEPT ![n] = 0] /\ flush' = [flush EXCEPT ![n] = NoFlush]
        /\ call' = [call EXCEPT ![n] = Idle]
        /\ task' = [g \in Routines |->
                        IF task[g] # NoTask /\ task[g].node = n THEN NoTask ELSE task[g]]
    BY <1>5 DEF Crash
  <2>3. StoreTypes' /\ lost' \in Int
    BY <1>0, <2>1, <2>2 DEF StoreTypes, CountTypes
  <2>4. WorkTypes'
    BY <1>0, <2>2, IdleType DEF WorkTypes
  <2>. QED
    BY <1>0, <1>1, <1>2, <2>3, <2>4, TypePartsNext DEF CacheType, CountTypes
<1>. QED  BY <1>3, <1>4, <1>5

LEMMA TypeInit == Init => TypeOK
<1>. SUFFICES ASSUME Init PROVE TypeOK
  OBVIOUS
<1>1. StoreTypes /\ CacheType /\ CountTypes
  BY AmountAssumption, BoundAssumption DEF Init, StoreTypes, CacheType, CountTypes, Row
<1>2. WorkTypes
  BY IdleType DEF Init, WorkTypes
<1>. QED  BY <1>1, <1>2, TypeParts

LEMMA TypeStep == TypeOK /\ [Next]_vars => TypeOK'
<1>. SUFFICES ASSUME TypeOK, [Next]_vars PROVE TypeOK'
  OBVIOUS
<1>1. CASE UNCHANGED vars
  BY <1>1 DEF vars, TypeOK
<1>2. CASE Next
  <2>1. \A q \in Amounts : q \in Int /\ -q \in Int
    BY AmountAssumption
  <2>2. ASSUME NEW n \in Nodes, NEW g \in Routines, NEW q \in Amounts,
               \/ \E direct \in BOOLEAN : AdjustQuota(n, g, q, direct) \/ AdjustQuota(n, g, -q, direct)
               \/ UserCheckin(n, g, q)
        PROVE  TypeOK'
    BY <2>1, <2>2, RequestType
  <2>3. ASSUME NEW n \in Nodes, NEW q \in Amounts, Recharge(n, q) \/ CompleteEpayTopUp(n, q)
        PROVE  TypeOK'
    BY <2>3, RequestType
  <2>4. ASSUME NEW n \in Nodes,
               \/ \E disables \in BOOLEAN : ReadUser(n, disables)
               \/ CallStep(n) \/ BatchUpdate(n) \/ Crash(n)
        PROVE  TypeOK'
    BY <2>4, RequestType, WriteType, SaveType, BatchType DEF CallStep, BatchUpdate
  <2>5. ASSUME \/ \E n \in Nodes, g \in Routines : GetUserCache(n, g)
               \/ \E g \in Routines : TaskStep(g)
               \/ Expire
        PROVE  TypeOK'
    BY <2>5, TaskType DEF TaskStep
  <2>. QED  BY <1>2, <2>2, <2>3, <2>4, <2>5 DEF Next
<1>. QED  BY <1>1, <1>2

\* Type correctness of the balance, its copies and the goroutines that keep
\* them, whatever races, errors and deaths do.
THEOREM QuotaTypeCorrect == Spec => []TypeOK
  BY TypeInit, TypeStep, PTL DEF Spec

-----------------------------------------------------------------------------
(***************************************************************************)
(* Conservation.  QuotaConserved is inductive together with the types: the *)
(* work is in following the sum of what all processes keep in memory, of   *)
(* which a step changes at most the share of one.                          *)
(***************************************************************************)

Conserved == row.quota + Total + lost = truth

LEMMA ConservedIs == QuotaConserved <=> Conserved
  BY DEF QuotaConserved, Conserved, Total

LEMMA ConservedIsNext == QuotaConserved' <=> Conserved'
  BY ConservedIs, PTL

LEMMA PendingType ==
    ASSUME TypeOK, NEW n \in Nodes PROVE Pending(n) \in Int
  BY DEF TypeOK, Pending

LEMMA PendingTypeNext ==
    ASSUME TypeOK', NEW n \in Nodes PROVE Pending(n)' \in Int
  BY DEF TypeOK, Pending

LEMMA TotalType == ASSUME TypeOK PROVE Total \in Int
<1>1. \A n \in Nodes : PendingOf[n] \in Int
  BY PendingType DEF PendingOf
<1>. QED  BY <1>1, TotalIs, SumType, NodeAssumption

\* Only the process n changes what it keeps.
LEMMA TotalMoves ==
    ASSUME TypeOK, TypeOK', NEW n \in Nodes,
           \A m \in Nodes : m # n => store'[m] = store[m] /\ flush'[m] = flush[m]
    PROVE  Total' = Total - Pending(n) + Pending(n)'
<1>1. \A m \in Nodes : PendingOf[m] = Pending(m) /\ PendingOf'[m] = Pending(m)'
  BY DEF PendingOf
<1>2. \A m \in Nodes : PendingOf[m] \in Int /\ PendingOf'[m] \in Int
  BY <1>1, PendingType, PendingTypeNext
<1>3. \A m \in Nodes \ {n} : PendingOf'[m] = PendingOf[m]
  BY <1>1 DEF Pending
<1>4. Sum(PendingOf', Nodes) = Sum(PendingOf, Nodes) - PendingOf[n] + PendingOf'[n]
  BY <1>2, <1>3, SumChange, NodeAssumption
<1>. QED  BY <1>1, <1>4, TotalIs, TotalIsNext

\* Nobody does.
LEMMA TotalStays ==
    ASSUME UNCHANGED <<store, flush>> PROVE Total' = Total
<1>1. PendingOf' = PendingOf
  BY DEF PendingOf, Pending
<1>. QED  BY <1>1, TotalIs, TotalIsNext

\* The row and the balance change alike, or the row and the losses.
LEMMA RowMoves ==
    ASSUME TypeOK, Conserved, UNCHANGED <<store, flush>>,
           row'.quota \in Int, truth' \in Int, lost' \in Int,
           row'.quota + lost' - truth' = row.quota + lost - truth
    PROVE  Conserved'
<1>1. Total \in Int /\ Total' = Total /\ row.quota \in Int /\ lost \in Int /\ truth \in Int
  BY TotalType, TotalStays DEF TypeOK, Row
<1>. QED  BY <1>1 DEF Conserved

\* What one process keeps changes by move, and the row, the losses or the
\* balance make up for it.
LEMMA StoreMoves ==
    ASSUME TypeOK, TypeOK', Conserved, NEW n \in Nodes,
           \A m \in Nodes : m # n => store'[m] = store[m] /\ flush'[m] = flush[m],
           row'.quota + Pending(n)' + lost' - truth' = row.quota + Pending(n) + lost - truth
    PROVE  Conserved'
<1>1. /\ Total \in Int /\ Total' = Total - Pending(n) + Pending(n)'
      /\ Pending(n) \in Int /\ Pending(n)' \in Int
  BY TotalType, TotalMoves, PendingType, PendingTypeNext
<1>2. /\ row.quota \in Int /\ lost \in Int /\ truth \in Int
      /\ row'.quota \in Int /\ lost' \in Int /\ truth' \in Int
  BY DEF TypeOK, Row
<1>3. row.quota + Total + lost = truth
  BY DEF Conserved
<1>4. row'.quota + Total' + lost' = truth'
  <2>. DEFINE before == row.quota + lost - truth
              after == row'.quota + lost' - truth'
              old == Pending(n)
              new == Pending(n)'
              sum == Total
  <2>1. before \in Int /\ after \in Int /\ old \in Int /\ new \in Int /\ sum \in Int
    BY <1>1, <1>2
  <2>2. after + new = before + old
    BY <1>1, <1>2
  <2>3. before + sum = 0
    BY <1>1, <1>2, <1>3
  <2>4. after + (sum - old + new) = 0
    <3>. HIDE DEF before, after, old, new, sum
    <3>. QED  BY <2>1, <2>2, <2>3
  <2>5. after + Total' = 0 /\ Total' \in Int
    BY <1>1, <2>4
  <2>6. \A a, l, t, s \in Int : (a + l - t) + s = 0 => a + s + l = t
    OBVIOUS
  <2>. QED  BY <1>2, <2>5, <2>6
<1>. QED  BY <1>4 DEF Conserved

LEMMA ConservedInit == Init => Conserved
<1>. SUFFICES ASSUME Init PROVE Conserved
  OBVIOUS
<1>1. \A n \in Nodes : PendingOf[n] = 0
  BY DEF Init, PendingOf, Pending
<1>2. Sum(PendingOf, Nodes) = Sum(PendingOf, {})
  <2>1. {} \in SUBSET Nodes /\ \A n \in Nodes : PendingOf[n] \in Int
    BY <1>1
  <2>. QED  BY <1>1, <2>1, SumOfNonzero, NodeAssumption
<1>3. Total = 0
  BY <1>2, TotalIs, SumEmpty
<1>. QED  BY <1>3, AmountAssumption DEF Init, Conserved

LEMMA ConservedStep ==
    ASSUME TypeOK, TypeOK', Conserved, [Next]_vars PROVE Conserved'
<1>0. /\ row \in Row /\ row.quota \in Int /\ lost \in Int /\ truth \in Int
      /\ store \in [Nodes -> Int] /\ flush \in [Nodes -> Int \cup {NoFlush}]
      /\ row'.quota \in Int /\ lost' \in Int /\ truth' \in Int
      /\ \A q \in Amounts : q \in Int /\ -q \in Int
  BY AmountAssumption DEF TypeOK, Row
<1>1. ASSUME NEW d \in Int, row' = [row EXCEPT !.quota = @ + d] PROVE row'.quota = row.quota + d
  BY <1>0, <1>1 DEF Row
<1>2. ASSUME UNCHANGED <<row, store, flush, truth, lost>> PROVE Conserved'
  BY <1>0, <1>2, RowMoves
<1>3. ASSUME NEW d \in Int, row' = [row EXCEPT !.quota = @ + d], truth' = truth + d,
             UNCHANGED <<store, flush, lost>>
      PROVE  Conserved'
  BY <1>0, <1>1, <1>3, RowMoves
<1>4. ASSUME NEW n \in Nodes, NEW q \in Amounts, NEW g,
             Recharge(n, q) \/ CompleteEpayTopUp(n, q) \/ UserCheckin(n, g, q)
      PROVE  Conserved'
  BY <1>0, <1>3, <1>4 DEF Recharge, CompleteEpayTopUp, UserCheckin, Credit
<1>5. ASSUME NEW n \in Nodes, NEW g, NEW d \in Int, NEW direct, AdjustQuota(n, g, d, direct)
      PROVE  Conserved'
  <2>1. CASE UNCHANGED <<store, truth>>
    BY <1>2, <1>5, <2>1 DEF AdjustQuota
  <2>2. CASE store' = [store EXCEPT ![n] = @ + d] /\ truth' = truth + d
    <3>1. UNCHANGED <<row, flush, lost>>
      BY <1>5 DEF AdjustQuota
    <3>2. Pending(n)' = Pending(n) + d
      BY <1>0, <2>2, <3>1 DEF Pending
    <3>3. \A m \in Nodes : m # n => store'[m] = store[m] /\ flush'[m] = flush[m]
      BY <1>0, <2>2, <3>1
    <3>4. Pending(n) \in Int
      BY PendingType
    <3>5. row'.quota + Pending(n)' + lost' - truth' = row.quota + Pending(n) + lost - truth
      BY <1>0, <2>2, <3>1, <3>2, <3>4
    <3>. QED  BY <3>3, <3>5, StoreMoves
  <2>. QED  BY <1>5, <2>1, <2>2 DEF AdjustQuota
<1>6. ASSUME NEW n \in Nodes, WriteQuota(n) PROVE Conserved'
  <2>1. call[n].delta \in Int
    BY DEF TypeOK, Call
  <2>. QED  BY <1>2, <1>3, <1>6, <2>1 DEF WriteQuota
<1>7. ASSUME NEW n \in Nodes, InvalidateUserCache(n) \/ \E disables : ReadUser(n, disables)
      PROVE  Conserved'
  BY <1>2, <1>7 DEF InvalidateUserCache, ReadUser
<1>8. ASSUME NEW n \in Nodes, SaveUser(n) PROVE Conserved'
  <2>. DEFINE new == Saved(call[n].seen, row)
  <2>1. new.quota \in Int
    <3>1. call[n].seen \in Row
      BY DEF TypeOK, Call
    <3>. QED  BY <1>0, <3>1, SavedType DEF Row
  <2>2. \/ UNCHANGED <<row, lost>>
        \/ row' = new /\ lost' = lost + row.quota - new.quota
    BY <1>8 DEF SaveUser, RereadUser, UpdateUser, CacheUser
  <2>3. UNCHANGED <<store, flush, truth>>
    BY <1>8 DEF SaveUser, RereadUser, UpdateUser, CacheUser
  <2>4. row'.quota + lost' - truth' = row.quota + lost - truth
    BY <1>0, <2>1, <2>2, <2>3
  <2>. QED  BY <1>0, <2>3, <2>4, RowMoves
<1>9. ASSUME NEW n \in Nodes, BatchSwap(n) PROVE Conserved'
  <2>1. /\ flush[n] = NoFlush /\ flush' = [flush EXCEPT ![n] = store[n]]
        /\ store' = [store EXCEPT ![n] = 0] /\ UNCHANGED <<row, truth, lost>>
    BY <1>9 DEF BatchSwap, TakenOut
  <2>2. Pending(n) = store[n] /\ Pending(n)' = store[n]
    BY <1>0, <2>1, FlushAssumption DEF Pending
  <2>3. \A m \in Nodes : m # n => store'[m] = store[m] /\ flush'[m] = flush[m]
    BY <1>0, <2>1
  <2>. QED  BY <2>1, <2>2, <2>3, StoreMoves
<1>10. ASSUME NEW n \in Nodes, BatchWrite(n) PROVE Conserved'
  <2>1. /\ flush[n] # NoFlush /\ flush' = [flush EXCEPT ![n] = NoFlush]
        /\ UNCHANGED <<store, truth>>
        /\ \/ row' = [row EXCEPT !.quota = @ + flush[n]] /\ lost' = lost
           \/ lost' = lost + flush[n] /\ row' = row
    BY <1>10 DEF BatchWrite
  <2>2. flush[n] \in Int /\ store[n] \in Int
    BY <1>0, <2>1
  <2>3. Pending(n) = store[n] + flush[n] /\ Pending(n)' = store[n]
    BY <1>0, <2>1, <2>2 DEF Pending
  <2>4. \A m \in Nodes : m # n => store'[m] = store[m] /\ flush'[m] = flush[m]
    BY <1>0, <2>1
  <2>5. row'.quota + lost' = row.quota + lost + flush[n]
    BY <1>0, <1>1, <2>1, <2>2
  <2>6. row'.quota + Pending(n)' + lost' - truth' = row.quota + Pending(n) + lost - truth
    BY <1>0, <2>1, <2>2, <2>3, <2>5
  <2>. QED  BY <2>4, <2>6, StoreMoves
<1>11. ASSUME NEW n \in Nodes, Crash(n) PROVE Conserved'
  <2>1. /\ store' = [store EXCEPT ![n] = 0] /\ flush' = [flush EXCEPT ![n] = NoFlush]
        /\ lost' = lost + Pending(n) /\ UNCHANGED <<row, truth>>
    BY <1>11 DEF Crash
  <2>2. Pending(n)' = 0 /\ Pending(n) \in Int
    BY <1>0, <2>1, PendingType DEF Pending
  <2>3. \A m \in Nodes : m # n => store'[m] = store[m] /\ flush'[m] = flush[m]
    BY <1>0, <2>1
  <2>4. row'.quota + Pending(n)' + lost' - truth' = row.quota + Pending(n) + lost - truth
    BY <1>0, <2>1, <2>2
  <2>. QED  BY <2>3, <2>4, StoreMoves
<1>12. ASSUME \/ \E n \in Nodes, g \in Routines : GetUserCache(n, g)
              \/ \E g \in Routines : TaskStep(g)
              \/ Expire
       PROVE  Conserved'
  BY <1>2, <1>12, TaskType DEF TaskStep
<1>13. CASE UNCHANGED vars
  BY <1>2, <1>13 DEF vars
<1>. QED
  BY <1>0, <1>4, <1>5, <1>6, <1>7, <1>8, <1>9, <1>10, <1>11, <1>12, <1>13
     DEF Next, CallStep, BatchUpdate

\* No change of quota is lost or made twice: for any number of processes that
\* adjust, flush, save and die side by side, the row and all stores make up the
\* balance, but for what errors, deaths and stale saves have changed.
THEOREM QuotaIsConserved == Spec => []QuotaConserved
<1>1. Init => TypeOK /\ Conserved
  BY TypeInit, ConservedInit
<1>2. (TypeOK /\ Conserved) /\ [Next]_vars => (TypeOK /\ Conserved)'
  BY TypeStep, ConservedStep
<1>3. TypeOK /\ Conserved => QuotaConserved
  BY ConservedIs
<1>. QED  BY <1>1, <1>2, <1>3, PTL DEF Spec
=============================================================================
