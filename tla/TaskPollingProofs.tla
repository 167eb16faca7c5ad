------------------------- MODULE TaskPollingProofs -------------------------
(***************************************************************************)
(* Proofs about TaskPolling, for every number of tasks, pollers, viewers   *)
(* and channels, every page size and every bound.                          *)
(***************************************************************************)
EXTENDS TaskPolling, SetSums

Billing == {"bill", "token", "quota"}
Busy == Billing \cup {"save"}

\* A poller that bills or saves works on a task, the Suno row it is going to
\* save belongs to a Suno task, and the quota it is going to write is one.
ActorShape(a) ==
    /\ pc[a] \in Busy => a \in Pollers /\ job[a] \in Tasks
    /\ pc[a] \notin Busy => after[a] = NoSave
    /\ pc[a] \in Busy /\ after[a] # NoSave => Platform[job[a]] = "suno"
    /\ pc[a] = "save" => after[a] # NoSave
    /\ pc[a] \in Billing => result[a] # "none"
    /\ pc[a] \in {"token", "quota"} /\ result[a] = "SUCCESS" => TaskQuota(a) + due[a] \in Nat
    /\ pc[a] = "quota" => result[a] = "SUCCESS"

ActorInv == \A a \in Actors : ActorShape(a)

TypeInv == TypeOK /\ ActorInv


\* The actors other than a stay where they are.
OthersStay(a) ==
    \A b \in Actors \ {a} :
        /\ pc'[b] = pc[b] /\ job'[b] = job[b] /\ result'[b] = result[b]
        /\ after'[b] = after[b] /\ due'[b] = due[b] /\ seen'[b] = seen[b]
        /\ charge'[b] = charge[b]

ActorTypes ==
    /\ pc \in [Actors -> PCs]
    /\ seen \in [Actors -> [Tasks -> Statuses]]
    /\ charge \in [Actors -> [Tasks -> Nat]]
    /\ job \in [Actors -> Tasks \cup {NoTask}]
    /\ result \in [Actors -> Results]
    /\ after \in [Actors -> [status : Statuses, full : BOOLEAN]]
    /\ due \in [Actors -> Int]

RowTypes ==
    /\ status \in [Tasks -> Statuses]
    /\ full \in [Tasks -> BOOLEAN]
    /\ quota \in [Tasks -> Nat]

MoneyTypes ==
    /\ funding \in [Tasks -> Int]
    /\ tokenQuota \in [Tasks -> Int]
    /\ bill \in [Tasks -> Bills]
    /\ tainted \in SUBSET Tasks

WorldTypes ==
    /\ before \in [Tasks -> Statuses]
    /\ old \in SUBSET Tasks
    /\ channels \in SUBSET Channels
    /\ views \in 0..MaxViews
    /\ faults \in 0..MaxFaults

LEMMA TypeParts == TypeOK <=> RowTypes /\ ActorTypes /\ MoneyTypes /\ WorldTypes
  BY DEF TypeOK, RowTypes, ActorTypes, MoneyTypes, WorldTypes

LEMMA TypePartsNext == RowTypes' /\ ActorTypes' /\ MoneyTypes' /\ WorldTypes' => TypeOK'
  BY DEF TypeOK, RowTypes, ActorTypes, MoneyTypes, WorldTypes

LEMMA FaultType ==
    ASSUME faults \in 0..MaxFaults, NoFault \/ Fault
    PROVE  faults' \in 0..MaxFaults
  BY BoundAssumption DEF NoFault, Fault

\* A step of one actor keeps the shape of the others.
LEMMA OneActor ==
    ASSUME TypeInv, NEW a \in Actors, OthersStay(a), ActorShape(a)'
    PROVE  ActorInv'
<1>1. ASSUME NEW b \in Actors, b # a PROVE ActorShape(b)'
  <2>1. ActorShape(b)
    BY DEF TypeInv, ActorInv
  <2>2. /\ pc'[b] = pc[b] /\ job'[b] = job[b] /\ result'[b] = result[b]
        /\ after'[b] = after[b] /\ due'[b] = due[b] /\ charge'[b] = charge[b]
    BY <1>1 DEF OthersStay
  <2>. QED  BY <2>1, <2>2 DEF ActorShape, TaskQuota
<1>. QED  BY <1>1 DEF ActorInv

\* What an actor reads and where it goes: the steps that start or end a scan.
LEMMA ReadType ==
    ASSUME TypeInv, NEW a \in Actors, NEW S, NEW where \in PCs \ Busy,
           Read(a, S, where), pc[a] \notin Busy
    PROVE  ActorTypes' /\ ActorInv' /\ OthersStay(a)
<1>0. ActorTypes /\ RowTypes
  BY TypeParts DEF TypeInv
<1>1. /\ seen' = [seen EXCEPT ![a] = [t \in Tasks |-> IF t \in S THEN status[t] ELSE "none"]]
      /\ charge' = [charge EXCEPT ![a] = [t \in Tasks |-> IF t \in S THEN quota[t] ELSE 0]]
      /\ pc' = [pc EXCEPT ![a] = where] /\ UNCHANGED <<job, result, after, due>>
  BY DEF Read
<1>2. /\ [t \in Tasks |-> IF t \in S THEN status[t] ELSE "none"] \in [Tasks -> Statuses]
      /\ [t \in Tasks |-> IF t \in S THEN quota[t] ELSE 0] \in [Tasks -> Nat]
  BY <1>0 DEF RowTypes, Statuses
<1>3. ActorTypes'
  BY <1>0, <1>1, <1>2 DEF ActorTypes
<1>4. OthersStay(a)
  BY <1>0, <1>1 DEF ActorTypes, OthersStay
<1>5. ActorShape(a)'
  <2>1. ActorShape(a) /\ pc'[a] \notin Busy /\ after'[a] = after[a]
    BY <1>0, <1>1 DEF TypeInv, ActorInv, ActorTypes
  <2>. QED  BY <2>1 DEF ActorShape, Busy, Billing
<1>. QED  BY <1>3, <1>4, <1>5, OneActor

\* One task less to handle.
LEMMA SkipType ==
    ASSUME TypeInv, NEW a \in Actors, NEW t \in Tasks, Skip(a, t), UNCHANGED <<charge, due>>
    PROVE  ActorTypes' /\ ActorInv' /\ OthersStay(a)
<1>0. ActorTypes
  BY TypeParts DEF TypeInv
<1>1. /\ seen' = [seen EXCEPT ![a][t] = "none"]
      /\ UNCHANGED <<pc, charge, job, result, after, due>>
  BY DEF Skip
<1>2. ActorTypes'
  BY <1>0, <1>1 DEF ActorTypes, Statuses
<1>3. ActorInv'
  BY <1>1 DEF TypeInv, ActorInv, ActorShape, TaskQuota
<1>4. OthersStay(a)
  BY <1>0, <1>1 DEF ActorTypes, OthersStay
<1>. QED  BY <1>2, <1>3, <1>4

\* UpdateWithStatus, won or lost.
LEMMA TransitionType ==
    ASSUME TypeInv, NEW a \in Actors, NEW t \in Tasks, NEW s \in Stored, NEW f \in BOOLEAN,
           NEW next \in PCs \ {"save", "token", "quota"}, NEW outcome \in Results,
           Transition(a, t, s, f, next, outcome), UNCHANGED <<charge, due>>, pc[a] \notin Busy,
           next = "bill" => a \in Pollers /\ outcome # "none"
    PROVE  /\ ActorTypes' /\ ActorInv' /\ OthersStay(a)
           /\ RowTypes' /\ faults' \in 0..MaxFaults
<1>0. ActorTypes /\ RowTypes /\ WorldTypes
  BY TypeParts DEF TypeInv
<1>1. faults' \in 0..MaxFaults
  BY <1>0, FaultType DEF WorldTypes, Transition
<1>2. CASE Skip(a, t)
  BY <1>0, <1>1, <1>2, SkipType DEF Skip, RowTypes, row
<1>3. CASE ~Skip(a, t)
  <2>1. /\ status' = [status EXCEPT ![t] = s] /\ full' = [full EXCEPT ![t] = f]
        /\ quota' = [quota EXCEPT ![t] = charge[a][t]]
        /\ seen' = [seen EXCEPT ![a][t] = "none"] /\ pc' = [pc EXCEPT ![a] = next]
        /\ job' = [job EXCEPT ![a] = IF next = "bill" THEN t ELSE NoTask]
        /\ result' = [result EXCEPT ![a] = outcome] /\ UNCHANGED <<after, charge, due>>
    BY <1>3 DEF Transition
  <2>2. RowTypes'
    BY <1>0, <2>1 DEF RowTypes, ActorTypes, Stored
  <2>3. ActorTypes'
    BY <1>0, <2>1 DEF ActorTypes, Statuses
  <2>4. OthersStay(a)
    BY <1>0, <2>1 DEF ActorTypes, OthersStay
  <2>5. ActorShape(a)'
    <3>1. after'[a] = NoSave /\ pc'[a] = next /\ result'[a] = outcome
          /\ (next = "bill" => job'[a] = t)
      BY <1>0, <2>1 DEF TypeInv, ActorInv, ActorTypes, ActorShape
    <3>. QED  BY <3>1 DEF ActorShape, Busy, Billing
  <2>. QED  BY <1>1, <2>2, <2>3, <2>4, <2>5, OneActor
<1>. QED  BY <1>2, <1>3

\* The end of the billing of a task.
LEMMA LeaveType ==
    ASSUME TypeInv, NEW a \in Actors, Leave(a), pc[a] \in Billing, UNCHANGED charge,
           due' = due \/ due' = [due EXCEPT ![a] = 0]
    PROVE  ActorTypes' /\ ActorInv' /\ OthersStay(a)
<1>0. ActorTypes /\ ActorShape(a)
  BY TypeParts DEF TypeInv, ActorInv
<1>1. CASE after[a] = NoSave
  <2>1. /\ \E place \in {"sweep", "poll"} : pc' = [pc EXCEPT ![a] = place]
        /\ job' = [job EXCEPT ![a] = NoTask] /\ result' = [result EXCEPT ![a] = "none"]
        /\ UNCHANGED <<seen, after>>
    BY <1>1 DEF Leave
  <2>2. ActorTypes'
    BY <1>0, <2>1 DEF ActorTypes, PCs, Results
  <2>3. OthersStay(a)
    BY <1>0, <2>1 DEF ActorTypes, OthersStay
  <2>4. ActorShape(a)'
    <3>1. pc'[a] \in {"sweep", "poll"} /\ after'[a] = NoSave
      BY <1>0, <1>1, <2>1 DEF ActorTypes
    <3>. QED  BY <3>1 DEF ActorShape, Busy, Billing
  <2>. QED  BY <2>2, <2>3, <2>4, OneActor
<1>2. CASE after[a] # NoSave
  <2>1. pc' = [pc EXCEPT ![a] = "save"] /\ UNCHANGED <<seen, job, result, after>>
    BY <1>2 DEF Leave
  <2>2. ActorTypes'
    BY <1>0, <2>1 DEF ActorTypes, PCs
  <2>3. OthersStay(a)
    BY <1>0, <2>1 DEF ActorTypes, OthersStay
  <2>4. ActorShape(a)'
    <3>1. pc'[a] = "save" /\ UNCHANGED <<job, result, after>>
      BY <1>0, <2>1 DEF ActorTypes
    <3>. QED  BY <1>0, <1>2, <3>1 DEF ActorShape, Busy, Billing
  <2>. QED  BY <2>2, <2>3, <2>4, OneActor
<1>. QED  BY <1>1, <1>2

\* taskAdjustFunding.
LEMMA AdjustFundingType ==
    ASSUME TypeInv, NEW a \in Actors, NEW delta \in Int, NEW way \in Bills,
           AdjustFunding(a, delta, way), pc[a] = "bill", UNCHANGED charge,
           result[a] = "SUCCESS" => TaskQuota(a) + delta \in Nat
    PROVE  /\ ActorTypes' /\ ActorInv' /\ OthersStay(a)
           /\ funding' \in [Tasks -> Int] /\ bill' \in [Tasks -> Bills]
           /\ tainted' \in SUBSET Tasks /\ faults' \in 0..MaxFaults
<1>0. ActorTypes /\ ActorShape(a) /\ MoneyTypes /\ faults \in 0..MaxFaults
  BY TypeParts DEF TypeInv, ActorInv, WorldTypes
<1>1. PICK t \in Tasks : t = job[a]
  BY <1>0 DEF ActorShape, Busy, Billing
<1>2. faults' \in 0..MaxFaults
  BY <1>0, FaultType DEF AdjustFunding
<1>3. CASE Leave(a) /\ tainted' = tainted \cup {t} /\ UNCHANGED <<funding, bill, due>>
  BY <1>0, <1>2, <1>3, LeaveType DEF Billing, MoneyTypes
<1>4. CASE /\ funding' = [funding EXCEPT ![t] = @ + delta] /\ bill' = [bill EXCEPT ![t] = way]
           /\ due' = [due EXCEPT ![a] = delta] /\ pc' = [pc EXCEPT ![a] = "token"]
           /\ UNCHANGED <<seen, job, result, after, tainted>>
  <2>1. funding' \in [Tasks -> Int] /\ bill' \in [Tasks -> Bills]
    BY <1>0, <1>4 DEF MoneyTypes
  <2>2. ActorTypes'
    BY <1>0, <1>4 DEF ActorTypes, PCs
  <2>3. OthersStay(a)
    BY <1>0, <1>4 DEF ActorTypes, OthersStay
  <2>4. ActorShape(a)'
    <3>1. /\ pc'[a] = "token" /\ due'[a] = delta /\ UNCHANGED <<job, result, after>>
          /\ TaskQuota(a)' = TaskQuota(a)
      BY <1>0, <1>4 DEF ActorTypes, TaskQuota
    <3>. QED  BY <1>0, <3>1 DEF ActorShape, Busy, Billing
  <2>. QED  BY <1>0, <1>2, <1>4, <2>1, <2>2, <2>3, <2>4, OneActor DEF MoneyTypes
<1>. QED  BY <1>1, <1>3, <1>4 DEF AdjustFunding
LEMMA TypeInit == Init => TypeInv
<1>. SUFFICES ASSUME Init PROVE TypeInv
  OBVIOUS
<1>1. NoSave \in [status : Statuses, full : BOOLEAN]
  BY DEF NoSave, Statuses
<1>2. Nothing \in [Tasks -> Statuses] /\ NoCharge \in [Tasks -> Nat]
  BY DEF Nothing, NoCharge, Statuses
<1>3. TypeOK
  BY <1>1, <1>2, BoundAssumption DEF Init, TypeOK, PCs, Results, Bills
<1>4. ActorInv
  BY DEF Init, ActorInv, ActorShape, Busy, Billing
<1>. QED  BY <1>3, <1>4 DEF TypeInv

\* What each step of a polling loop or a viewer does to the goroutines, and that
\* what it writes is of the right type.
LEMMA ScanSteps ==
    ASSUME TypeInv, NEW p \in Pollers,
           SweepScan(p) \/ SweepEnds(p) \/ PollScan(p) \/ PollEnds(p)
    PROVE  TypeInv' /\ OthersStay(p) /\ UNCHANGED <<row, before, money>>
<1>0. p \in Actors /\ RowTypes /\ MoneyTypes /\ WorldTypes
  BY TypeParts DEF TypeInv, Actors
<1>1. pc[p] \notin Busy
  BY DEF SweepScan, SweepEnds, PollScan, PollEnds, Busy, Billing
<1>2. \E S : \E where \in PCs \ Busy : Read(p, S, where)
  BY DEF SweepScan, SweepEnds, PollScan, PollEnds, PCs, Busy, Billing
<1>3. ActorTypes' /\ ActorInv' /\ OthersStay(p)
  BY <1>0, <1>1, <1>2, ReadType
<1>4. UNCHANGED <<row, before, old, channels, money, faults, views>>
  BY DEF SweepScan, SweepEnds, PollScan, PollEnds, Read, NoFault
<1>5. RowTypes' /\ MoneyTypes' /\ WorldTypes'
  BY <1>0, <1>4 DEF RowTypes, MoneyTypes, WorldTypes, row, money
<1>6. TypeOK'
  BY <1>3, <1>5, TypePartsNext
<1>. QED  BY <1>3, <1>4, <1>6 DEF TypeInv
LEMMA HandlingSteps ==
    ASSUME TypeInv, NEW a \in Actors, NEW t \in Tasks,
           \/ a \in Pollers /\ (SweepTask(a, t) \/ PollUnanswered(a, t) \/ PollVideo(a, t))
           \/ a \in Viewers /\ TryRealtimeFetch(a, t)
    PROVE  TypeInv' /\ OthersStay(a) /\ UNCHANGED <<before, money>>
<1>0. RowTypes /\ MoneyTypes /\ WorldTypes /\ ActorShape(a) /\ Viewers \cap Pollers = {}
  BY TypeParts, ActorAssumption DEF TypeInv, ActorInv
<1>1. pc[a] \notin Busy
  BY <1>0 DEF SweepTask, PollUnanswered, PollVideo, Polling, TryRealtimeFetch, ActorShape,
              Busy, Billing
<1>2. UNCHANGED <<before, old, channels, views, charge, due, money>>
  BY DEF SweepTask, PollUnanswered, PollVideo, TryRealtimeFetch
<1>3. ActorTypes' /\ ActorInv' /\ OthersStay(a) /\ RowTypes' /\ faults' \in 0..MaxFaults
  <2>1. CASE Skip(a, t) /\ NoFault
    BY <1>0, <1>2, <2>1, SkipType, FaultType DEF Skip, RowTypes, WorldTypes, row
  <2>2. CASE a \in Pollers /\ SweepTask(a, t)
    <3>1. Transition(a, t, "FAILURE", TRUE, "bill", "TIMEOUT")
      BY <2>2 DEF SweepTask
    <3>2. /\ "FAILURE" \in Stored /\ "TIMEOUT" \in Results
          /\ "bill" \in PCs \ {"save", "token", "quota"}
      BY DEF Stored, Statuses, Results, PCs
    <3>. QED  BY <1>1, <1>2, <2>2, <3>1, <3>2, TransitionType
  <2>3. CASE a \in Pollers /\ PollVideo(a, t)
    <3>1. PICK r \in Reports :
             IF r.status \in Terminal
             THEN Transition(a, t, r.status, TRUE, "bill", r.status)
             ELSE Transition(a, t, r.status, r.full, "poll", "none")
      BY <2>3 DEF PollVideo
    <3>2. r.status \in Stored /\ r.full \in BOOLEAN
      BY ReportAssumption
    <3>3. /\ r.status \in Terminal => r.status \in Results \ {"none"}
          /\ "bill" \in PCs \ {"save", "token", "quota"} /\ "none" \in Results
          /\ "poll" \in PCs \ {"save", "token", "quota"}
      BY DEF Terminal, Results, PCs
    <3>. QED  BY <1>1, <1>2, <2>3, <3>1, <3>2, <3>3, TransitionType
  <2>4. CASE a \in Viewers /\ TryRealtimeFetch(a, t) /\ ~(Skip(a, t) /\ NoFault)
    <3>1. PICK s \in Terminal \cup {"IN_PROGRESS"} :
             Transition(a, t, s, s \in Terminal, "idle", "none")
      BY <2>4 DEF TryRealtimeFetch
    <3>2. /\ s \in Stored /\ (s \in Terminal) \in BOOLEAN /\ "none" \in Results
          /\ "idle" \in PCs \ {"save", "token", "quota"}
      BY DEF Terminal, Stored, Statuses, Results, PCs
    <3>. QED  BY <1>1, <1>2, <2>4, <3>1, <3>2, TransitionType
  <2>. QED  BY <2>1, <2>2, <2>3, <2>4 DEF PollUnanswered
<1>4. RowTypes' /\ MoneyTypes' /\ WorldTypes'
  BY <1>0, <1>2, <1>3 DEF RowTypes, MoneyTypes, WorldTypes, money
<1>5. TypeOK'
  BY <1>3, <1>4, TypePartsNext
<1>. QED  BY <1>2, <1>3, <1>5 DEF TypeInv

LEMMA PollSunoStep ==
    ASSUME TypeInv, NEW p \in Pollers, NEW t \in Tasks, PollSuno(p, t)
    PROVE  TypeInv' /\ OthersStay(p) /\ UNCHANGED <<row, before, money>>
<1>0. p \in Actors /\ RowTypes /\ MoneyTypes /\ WorldTypes /\ ActorTypes
  BY TypeParts DEF TypeInv, Actors
<1>1. PICK r \in Reports :
         /\ after' = [after EXCEPT ![p] = SunoSaved(r)]
         /\ pc' = [pc EXCEPT ![p] = IF SunoFailed(r) THEN "bill" ELSE "save"]
         /\ result' = [result EXCEPT ![p] = IF SunoFailed(r) THEN "FAILURE" ELSE "none"]
  BY DEF PollSuno
<1>2. /\ job' = [job EXCEPT ![p] = t] /\ seen' = [seen EXCEPT ![p][t] = "none"]
      /\ UNCHANGED <<row, before, old, channels, views, charge, due, money, faults>>
      /\ Platform[t] = "suno"
  BY DEF PollSuno, NoFault, Polling
<1>3. SunoSaved(r) \in [status : Statuses, full : BOOLEAN] /\ SunoSaved(r) # NoSave
  <2>1. r.status \in Stored /\ r.reason \in BOOLEAN
    BY ReportAssumption
  <2>2. SunoSaved(r).status = r.status /\ r.status # "none"
    BY <2>1 DEF SunoSaved, Stored
  <2>3. (SunoFailed(r) \/ r.status = "SUCCESS") \in BOOLEAN
    OBVIOUS
  <2>4. SunoSaved(r) \in [status : Statuses, full : BOOLEAN]
    BY <2>1, <2>3 DEF SunoSaved, Stored
  <2>5. NoSave.status = "none"
    BY DEF NoSave
  <2>. QED  BY <2>2, <2>4, <2>5
<1>4. ActorTypes'
  BY <1>0, <1>1, <1>2, <1>3 DEF ActorTypes, PCs, Results, Statuses
<1>5. OthersStay(p)
  BY <1>0, <1>1, <1>2 DEF ActorTypes, OthersStay
<1>6. ActorShape(p)'
  <2>1. /\ pc'[p] = IF SunoFailed(r) THEN "bill" ELSE "save"
        /\ result'[p] = IF SunoFailed(r) THEN "FAILURE" ELSE "none"
        /\ after'[p] # NoSave /\ job'[p] = t
    BY <1>0, <1>1, <1>2, <1>3 DEF ActorTypes
  <2>. QED  BY <1>2, <2>1 DEF ActorShape, Busy, Billing
<1>7. RowTypes' /\ MoneyTypes' /\ WorldTypes'
  BY <1>0, <1>2 DEF RowTypes, MoneyTypes, WorldTypes, row, money
<1>8. TypeOK' /\ ActorInv'
  BY <1>0, <1>4, <1>5, <1>6, <1>7, TypePartsNext, OneActor
<1>. QED  BY <1>2, <1>5, <1>8 DEF TypeInv

LEMMA BulkFailStep ==
    ASSUME TypeInv, NEW p \in Pollers, NEW c \in Channels, BulkFail(p, c)
    PROVE  TypeInv' /\ OthersStay(p) /\ UNCHANGED <<quota, money>>
<1>0. p \in Actors /\ RowTypes /\ MoneyTypes /\ WorldTypes /\ ActorTypes
  BY TypeParts DEF TypeInv, Actors
<1>1. /\ UNCHANGED <<quota, old, channels, views, pc, charge, job, result, after, due, money>>
      /\ NoFault \/ Fault
  BY DEF BulkFail
<1>2. PICK S \in SUBSET Tasks :
         /\ \/ /\ status' = [t \in Tasks |-> IF t \in S THEN "FAILURE" ELSE status[t]]
               /\ full' = [t \in Tasks |-> full[t] \/ t \in S]
               /\ before' = [t \in Tasks |-> IF t \in S THEN OwnStatus(t) ELSE before[t]]
            \/ UNCHANGED <<status, full, before>>
         /\ seen' = [seen EXCEPT ![p] = [t \in Tasks |-> IF t \in S THEN "none" ELSE seen[p][t]]]
  <2>1. {t \in Tasks : seen[p][t] # "none" /\ ChannelOf[t] = c} \in SUBSET Tasks
    OBVIOUS
  <2>. QED  BY <2>1 DEF BulkFail
<1>3. /\ status' \in [Tasks -> Statuses] /\ full' \in [Tasks -> BOOLEAN]
      /\ before' \in [Tasks -> Statuses]
  BY <1>0, <1>2 DEF RowTypes, WorldTypes, OwnStatus, Statuses
<1>4. [t \in Tasks |-> IF t \in S THEN "none" ELSE seen[p][t]] \in [Tasks -> Statuses]
  BY <1>0 DEF ActorTypes, Statuses
<1>5. ActorTypes' /\ OthersStay(p)
  BY <1>0, <1>1, <1>2, <1>4 DEF ActorTypes, OthersStay
<1>6. ActorInv'
  BY <1>1 DEF TypeInv, ActorInv, ActorShape, TaskQuota
<1>7. RowTypes' /\ MoneyTypes' /\ WorldTypes'
  BY <1>0, <1>1, <1>3, FaultType DEF RowTypes, MoneyTypes, WorldTypes, money
<1>8. TypeOK'
  BY <1>5, <1>7, TypePartsNext
<1>. QED  BY <1>1, <1>5, <1>6, <1>8 DEF TypeInv
\* The billing of a task, step by step.
LEMMA BillSteps ==
    ASSUME TypeInv, NEW p \in Pollers, SettleTask(p) \/ RefundTaskQuota(p)
    PROVE  TypeInv' /\ OthersStay(p) /\ UNCHANGED <<row, before, charge, tokenQuota>>
<1>0. p \in Actors /\ RowTypes /\ MoneyTypes /\ WorldTypes /\ ActorShape(p)
  BY TypeParts DEF TypeInv, ActorInv, Actors
<1>1. /\ UNCHANGED <<row, before, old, channels, views, charge, tokenQuota>> /\ pc[p] = "bill"
  BY DEF SettleTask, RefundTaskQuota
<1>q. TaskQuota(p) \in Nat
  BY <1>0, <1>1, TypeParts DEF TaskQuota, TypeInv, ActorTypes, ActorShape, Busy, Billing
<1>. DEFINE Moved == /\ ActorTypes' /\ ActorInv' /\ OthersStay(p)
                     /\ funding' \in [Tasks -> Int] /\ bill' \in [Tasks -> Bills]
                     /\ tainted' \in SUBSET Tasks /\ faults' \in 0..MaxFaults
<1>2. Moved
  <2>1. CASE Leave(p) /\ NoFault /\ UNCHANGED <<funding, due, tainted>>
             /\ \E way \in Bills : bill' = [bill EXCEPT ![job[p]] = way]
    BY <1>0, <1>1, <2>1, LeaveType, FaultType DEF Billing, MoneyTypes, WorldTypes
  <2>2. ASSUME NEW actual \in Actuals, AdjustFunding(p, actual - TaskQuota(p), "settled")
        PROVE  Moved
    <3>1. /\ actual - TaskQuota(p) \in Int /\ TaskQuota(p) + (actual - TaskQuota(p)) \in Nat
          /\ "settled" \in Bills
      BY <1>q, QuotaAssumption DEF Bills
    <3>. QED  BY <1>0, <1>1, <2>2, <3>1, AdjustFundingType
  <2>3. ASSUME result[p] # "SUCCESS", AdjustFunding(p, -TaskQuota(p), "refunded")
        PROVE  Moved
    <3>1. -TaskQuota(p) \in Int /\ "refunded" \in Bills
      BY <1>q DEF Bills
    <3>. QED  BY <1>0, <1>1, <2>3, <3>1, AdjustFundingType
  <2>4. CASE SettleTask(p)
    <3>1. "settled" \in Bills
      BY DEF Bills
    <3>. QED  BY <2>1, <2>2, <2>4, <3>1 DEF SettleTask
  <2>5. CASE RefundTaskQuota(p)
    <3>1. job[p] \in Tasks /\ bill[job[p]] \in Bills
      BY <1>0, <1>1 DEF ActorShape, Busy, Billing, MoneyTypes
    <3>2. (IF bill[job[p]] = "held" THEN "kept" ELSE bill[job[p]]) \in Bills
      BY <3>1 DEF Bills
    <3>3. CASE bill' = [bill EXCEPT ![job[p]] = IF @ = "held" THEN "kept" ELSE @]
               /\ Leave(p) /\ NoFault /\ UNCHANGED <<funding, due, tainted>>
      BY <2>1, <3>2, <3>3
    <3>4. CASE AdjustFunding(p, -TaskQuota(p), "refunded")
      BY <2>3, <2>5, <3>4 DEF RefundTaskQuota
    <3>. QED  BY <2>5, <3>3, <3>4 DEF RefundTaskQuota
  <2>. QED  BY <2>4, <2>5
<1>3. RowTypes' /\ MoneyTypes' /\ WorldTypes'
  BY <1>0, <1>1, <1>2 DEF RowTypes, MoneyTypes, WorldTypes, row
<1>4. TypeOK'
  BY <1>2, <1>3, TypePartsNext
<1>. QED  BY <1>1, <1>2, <1>4 DEF TypeInv

LEMMA TokenStep ==
    ASSUME TypeInv, NEW p \in Pollers, AdjustToken(p)
    PROVE  TypeInv' /\ OthersStay(p) /\ UNCHANGED <<row, before, charge, funding, bill>>
<1>0. p \in Actors /\ RowTypes /\ MoneyTypes /\ WorldTypes /\ ActorTypes /\ ActorShape(p)
  BY TypeParts DEF TypeInv, ActorInv, Actors
<1>1. /\ UNCHANGED <<row, before, old, channels, views, charge, funding, bill>> /\ pc[p] = "token"
      /\ NoFault \/ Fault
  BY DEF AdjustToken
<1>2. PICK t \in Tasks : t = job[p]
  BY <1>0, <1>1 DEF ActorShape, Busy, Billing
<1>3. tokenQuota' \in [Tasks -> Int] /\ tainted' \in SUBSET Tasks
  <2>1. TokenMoved(p) \in Int
    BY <1>0, <1>2 DEF TokenMoved, MoneyTypes, ActorTypes
  <2>2. \/ tokenQuota' = [tokenQuota EXCEPT ![t] = TokenMoved(p)] /\ tainted' = tainted
        \/ tainted' = tainted \cup {t} /\ tokenQuota' = tokenQuota
    BY <1>2 DEF AdjustToken
  <2>. QED  BY <1>0, <2>1, <2>2 DEF MoneyTypes
<1>4. ActorTypes' /\ ActorInv' /\ OthersStay(p)
  <2>1. CASE result[p] = "SUCCESS"
    <3>1. pc' = [pc EXCEPT ![p] = "quota"] /\ UNCHANGED <<seen, job, result, after, due>>
      BY <2>1 DEF AdjustToken
    <3>2. ActorTypes' /\ OthersStay(p)
      BY <1>0, <1>1, <3>1 DEF ActorTypes, PCs, OthersStay
    <3>3. ActorShape(p)'
      <4>1. pc'[p] = "quota" /\ TaskQuota(p)' = TaskQuota(p)
        BY <1>0, <1>1, <3>1 DEF ActorTypes, TaskQuota
      <4>. QED  BY <1>0, <1>1, <2>1, <3>1, <4>1 DEF ActorShape, Busy, Billing
    <3>. QED  BY <1>0, <3>2, <3>3, OneActor
  <2>2. CASE result[p] # "SUCCESS"
    BY <1>0, <1>1, <2>2, LeaveType DEF AdjustToken, Billing
  <2>. QED  BY <2>1, <2>2
<1>5. RowTypes' /\ MoneyTypes' /\ WorldTypes'
  BY <1>0, <1>1, <1>3, FaultType DEF RowTypes, MoneyTypes, WorldTypes, row
<1>6. TypeOK'
  BY <1>4, <1>5, TypePartsNext
<1>. QED  BY <1>1, <1>4, <1>6 DEF TypeInv

LEMMA QuotaStep ==
    ASSUME TypeInv, NEW p \in Pollers, UpdateQuota(p)
    PROVE  /\ TypeInv' /\ OthersStay(p)
           /\ UNCHANGED <<status, full, before, charge, funding, tokenQuota, bill>>
<1>0. p \in Actors /\ RowTypes /\ MoneyTypes /\ WorldTypes /\ ActorTypes /\ ActorShape(p)
  BY TypeParts DEF TypeInv, ActorInv, Actors
<1>1. /\ UNCHANGED <<status, full, before, old, channels, views, charge, funding, tokenQuota, bill>>
      /\ pc[p] = "quota" /\ (NoFault \/ Fault)
  BY DEF UpdateQuota
<1>2. PICK t \in Tasks : t = job[p]
  BY <1>0, <1>1 DEF ActorShape, Busy, Billing
<1>3. quota' \in [Tasks -> Nat] /\ tainted' \in SUBSET Tasks
  <2>1. TaskQuota(p) + due[p] \in Nat
    BY <1>0, <1>1 DEF ActorShape
  <2>2. \/ quota' = [quota EXCEPT ![t] = TaskQuota(p) + due[p]] /\ tainted' = tainted
        \/ tainted' = tainted \cup {t} /\ quota' = quota
    BY <1>2 DEF UpdateQuota
  <2>. QED  BY <1>0, <2>1, <2>2 DEF MoneyTypes, RowTypes
<1>4. ActorTypes' /\ ActorInv' /\ OthersStay(p)
  BY <1>0, <1>1, LeaveType DEF UpdateQuota, Billing
<1>5. RowTypes' /\ MoneyTypes' /\ WorldTypes'
  BY <1>0, <1>1, <1>3, FaultType DEF RowTypes, MoneyTypes, WorldTypes
<1>6. TypeOK'
  BY <1>4, <1>5, TypePartsNext
<1>. QED  BY <1>1, <1>4, <1>6 DEF TypeInv

LEMMA SaveStep ==
    ASSUME TypeInv, NEW p \in Pollers, SaveSuno(p)
    PROVE  /\ TypeInv' /\ OthersStay(p)
           /\ UNCHANGED <<quota, before, funding, tokenQuota, tainted>>
<1>0. p \in Actors /\ RowTypes /\ MoneyTypes /\ WorldTypes /\ ActorTypes /\ ActorShape(p)
  BY TypeParts DEF TypeInv, ActorInv, Actors
<1>1. /\ UNCHANGED <<quota, before, old, channels, views, seen, charge, due, funding, tokenQuota,
                     tainted>>
      /\ pc[p] = "save" /\ (NoFault \/ Fault)
      /\ pc' = [pc EXCEPT ![p] = "poll"] /\ job' = [job EXCEPT ![p] = NoTask]
      /\ result' = [result EXCEPT ![p] = "none"] /\ after' = [after EXCEPT ![p] = NoSave]
  BY DEF SaveSuno
<1>2. PICK t \in Tasks : t = job[p]
  BY <1>0, <1>1 DEF ActorShape, Busy, Billing
<1>3. status' \in [Tasks -> Statuses] /\ full' \in [Tasks -> BOOLEAN] /\ bill' \in [Tasks -> Bills]
  <2>1. after[p].status \in Statuses /\ after[p].full \in BOOLEAN
    BY <1>0 DEF ActorTypes
  <2>2. \/ /\ status' = [status EXCEPT ![t] = after[p].status]
           /\ full' = [full EXCEPT ![t] = after[p].full]
           /\ \E way \in Bills : bill' = [bill EXCEPT ![t] = way]
        \/ UNCHANGED <<status, full, bill>>
    <3>1. bill[t] \in Bills /\ "settled" \in Bills
      BY <1>0 DEF MoneyTypes, Bills
    <3>2. \/ /\ status' = [status EXCEPT ![t] = after[p].status]
             /\ full' = [full EXCEPT ![t] = after[p].full]
             /\ bill' = [bill EXCEPT ![t] = IF bill[t] = "held" /\ after[p].status = "SUCCESS"
                                            THEN "settled" ELSE bill[t]]
          \/ UNCHANGED <<status, full, bill>>
      BY <1>2 DEF SaveSuno
    <3>. QED  BY <3>1, <3>2
  <2>. QED  BY <1>0, <2>1, <2>2 DEF MoneyTypes, RowTypes
<1>4. ActorTypes'
  <2>1. NoSave \in [status : Statuses, full : BOOLEAN]
    BY DEF NoSave, Statuses
  <2>. QED  BY <1>0, <1>1, <2>1 DEF ActorTypes, PCs, Results
<1>5. OthersStay(p)
  BY <1>0, <1>1 DEF ActorTypes, OthersStay
<1>6. ActorShape(p)'
  <2>1. pc'[p] = "poll" /\ after'[p] = NoSave
    BY <1>0, <1>1 DEF ActorTypes
  <2>. QED  BY <2>1 DEF ActorShape, Busy, Billing
<1>7. RowTypes' /\ MoneyTypes' /\ WorldTypes'
  BY <1>0, <1>1, <1>3, FaultType DEF RowTypes, MoneyTypes, WorldTypes
<1>8. TypeOK' /\ ActorInv'
  BY <1>0, <1>4, <1>5, <1>6, <1>7, TypePartsNext, OneActor
<1>. QED  BY <1>1, <1>5, <1>8 DEF TypeInv

LEMMA CrashStep ==
    ASSUME TypeInv, NEW p \in Pollers, Crash(p)
    PROVE  /\ TypeInv' /\ OthersStay(p) /\ UNCHANGED <<row, before, funding, tokenQuota, bill>>
           /\ pc'[p] = "idle" /\ seen'[p] = Nothing
           /\ pc[p] \in Billing => tainted' = tainted \cup {job[p]}
           /\ pc[p] \notin Billing => tainted' = tainted
<1>0. p \in Actors /\ RowTypes /\ MoneyTypes /\ WorldTypes /\ ActorTypes /\ ActorShape(p)
  BY TypeParts DEF TypeInv, ActorInv, Actors
<1>1. /\ UNCHANGED <<row, before, old, channels, views, funding, tokenQuota, bill>> /\ Fault
      /\ charge' = [charge EXCEPT ![p] = NoCharge]
      /\ pc' = [pc EXCEPT ![p] = "idle"] /\ seen' = [seen EXCEPT ![p] = Nothing]
      /\ job' = [job EXCEPT ![p] = NoTask] /\ result' = [result EXCEPT ![p] = "none"]
      /\ after' = [after EXCEPT ![p] = NoSave] /\ due' = [due EXCEPT ![p] = 0]
      /\ tainted' = IF pc[p] \in Billing THEN tainted \cup {job[p]} ELSE tainted
  BY DEF Crash, Billing
<1>2. /\ NoSave \in [status : Statuses, full : BOOLEAN] /\ Nothing \in [Tasks -> Statuses]
      /\ NoCharge \in [Tasks -> Nat]
  BY DEF NoSave, Nothing, NoCharge, Statuses
<1>3. ActorTypes'
  BY <1>0, <1>1, <1>2 DEF ActorTypes, PCs, Results
<1>4. OthersStay(p) /\ pc'[p] = "idle" /\ after'[p] = NoSave /\ seen'[p] = Nothing
  BY <1>0, <1>1 DEF ActorTypes, OthersStay
<1>5. ActorShape(p)'
  BY <1>4 DEF ActorShape, Busy, Billing
<1>6. tainted' \in SUBSET Tasks
  BY <1>0, <1>1 DEF ActorShape, Busy, MoneyTypes
<1>7. RowTypes' /\ MoneyTypes' /\ WorldTypes'
  BY <1>0, <1>1, <1>6, FaultType DEF RowTypes, MoneyTypes, WorldTypes, row
<1>8. TypeOK' /\ ActorInv'
  BY <1>0, <1>3, <1>4, <1>5, <1>7, TypePartsNext, OneActor
<1>. QED  BY <1>1, <1>4, <1>8 DEF TypeInv
LEMMA SubmitType ==
    ASSUME TypeInv, NEW t \in Tasks, Submit(t)
    PROVE  TypeInv'
<1>0. RowTypes /\ MoneyTypes /\ WorldTypes /\ ActorTypes /\ Quota \in Nat
  BY TypeParts, QuotaAssumption DEF TypeInv
<1>1. /\ UNCHANGED <<full, before, old, channels, views, actor, bill>> /\ (NoFault \/ Fault)
      /\ funding' = [funding EXCEPT ![t] = Quota]
      /\ tokenQuota' = [tokenQuota EXCEPT ![t] = Quota]
      /\ \/ /\ \E s \in Fresh(t) : status' = [status EXCEPT ![t] = s]
            /\ quota' = [quota EXCEPT ![t] = Quota] /\ UNCHANGED tainted
         \/ tainted' = tainted \cup {t} /\ UNCHANGED <<status, quota>>
  BY DEF Submit
<1>2. Fresh(t) \subseteq Statuses
  BY DEF Fresh, Statuses
<1>3. RowTypes'
  BY <1>0, <1>1, <1>2 DEF RowTypes
<1>4. MoneyTypes'
  BY <1>0, <1>1 DEF MoneyTypes
<1>5. ActorTypes' /\ ActorInv'
  BY <1>0, <1>1 DEF ActorTypes, TypeInv, ActorInv, ActorShape, TaskQuota, actor
<1>6. WorldTypes'
  BY <1>0, <1>1, FaultType DEF WorldTypes
<1>. QED  BY <1>3, <1>4, <1>5, <1>6, TypePartsNext DEF TypeInv

\* Time goes by, channels go, nothing happens.
LEMMA QuietType ==
    ASSUME TypeInv, UNCHANGED <<row, before, actor, money, views, faults>>,
           old' \in SUBSET Tasks, channels' \in SUBSET Channels
    PROVE  TypeInv'
<1>0. RowTypes /\ MoneyTypes /\ WorldTypes /\ ActorTypes
  BY TypeParts DEF TypeInv
<1>1. RowTypes' /\ MoneyTypes' /\ WorldTypes' /\ ActorTypes' /\ ActorInv'
  BY <1>0 DEF RowTypes, MoneyTypes, WorldTypes, ActorTypes, TypeInv, ActorInv, ActorShape,
              TaskQuota, row, actor, money
<1>. QED  BY <1>1, TypePartsNext DEF TypeInv

LEMMA ViewStep ==
    ASSUME TypeInv, NEW v \in Viewers, NEW t \in Tasks, ViewTask(v, t)
    PROVE  /\ TypeInv' /\ OthersStay(v) /\ UNCHANGED <<row, before, money, channels>>
           /\ pc'[v] = "idle" /\ t \in Realtime
           /\ seen'[v] = [u \in Tasks |-> IF u \in {t} THEN status[u] ELSE "none"]
<1>0. v \in Actors /\ RowTypes /\ MoneyTypes /\ WorldTypes /\ ActorTypes /\ ActorShape(v)
  BY TypeParts DEF TypeInv, ActorInv, Actors
<1>1. Read(v, {t}, "idle") /\ "idle" \in PCs \ Busy /\ pc[v] \notin Busy
  BY <1>0, ActorAssumption DEF ViewTask, PCs, Busy, Billing, ActorShape
<1>2. ActorTypes' /\ ActorInv' /\ OthersStay(v)
  BY <1>0, <1>1, ReadType
<1>3. UNCHANGED <<row, before, old, channels, money, faults>> /\ views' \in 0..MaxViews
  BY <1>0, <1>1, BoundAssumption DEF Read, NoFault, ViewTask, WorldTypes
<1>4. RowTypes' /\ MoneyTypes' /\ WorldTypes'
  BY <1>0, <1>3 DEF RowTypes, MoneyTypes, WorldTypes, row, money
<1>5. TypeOK'
  BY <1>2, <1>4, TypePartsNext
<1>6. pc'[v] = "idle" /\ seen'[v] = [u \in Tasks |-> IF u \in {t} THEN status[u] ELSE "none"]
  BY <1>0, <1>1 DEF Read, ActorTypes
<1>. QED  BY <1>2, <1>3, <1>5, <1>6 DEF TypeInv, ViewTask

\* Next, one action at a time.
LEMMA NextCases ==
    ASSUME [Next]_vars
    PROVE  \/ \E t \in Tasks : Submit(t) \/ Age(t)
           \/ \E c \in Channels : DeleteChannel(c)
           \/ \E p \in Pollers :
                \/ SweepScan(p) \/ SweepEnds(p) \/ PollScan(p) \/ PollEnds(p)
                \/ \E t \in Tasks : SweepTask(p, t) \/ PollUnanswered(p, t) \/ PollVideo(p, t)
                \/ \E t \in Tasks : PollSuno(p, t)
                \/ \E c \in Channels : BulkFail(p, c)
                \/ SettleTask(p) \/ RefundTaskQuota(p)
                \/ AdjustToken(p)
                \/ UpdateQuota(p)
                \/ SaveSuno(p)
                \/ Crash(p)
           \/ \E v \in Viewers, t \in Tasks : ViewTask(v, t)
           \/ \E v \in Viewers, t \in Tasks : TryRealtimeFetch(v, t)
           \/ UNCHANGED vars
  BY DEF Next, PollerStep

LEMMA TypeStep == TypeInv /\ [Next]_vars => TypeInv'
<1>. SUFFICES ASSUME TypeInv, [Next]_vars PROVE TypeInv'
  OBVIOUS
<1>0. Pollers \subseteq Actors /\ Viewers \subseteq Actors
  BY DEF Actors
<1>1. ASSUME NEW t \in Tasks, Submit(t) \/ Age(t) PROVE TypeInv'
  <2>1. CASE Age(t)
    BY <2>1, QuietType DEF Age, NoFault, TypeInv, TypeOK
  <2>. QED  BY <1>1, <2>1, SubmitType
<1>2. ASSUME NEW c \in Channels, DeleteChannel(c) PROVE TypeInv'
  BY <1>2, QuietType DEF DeleteChannel, NoFault, TypeInv, TypeOK
<1>3. CASE UNCHANGED vars
  BY <1>3, QuietType DEF vars, TypeInv, TypeOK
<1>. QED
  BY <1>0, <1>1, <1>2, <1>3, NextCases, ScanSteps, HandlingSteps, PollSunoStep, BulkFailStep,
     BillSteps, TokenStep, QuotaStep, SaveStep, CrashStep, ViewStep

\* Type correctness of the polling: whatever the tasks, loops, viewers, answers
\* and bounds, the rows, the goroutines and the ledgers stay within their types;
\* in particular a quota written back to a row is never negative.
THEOREM PollingTypeCorrect == Spec => []TypeOK
<1>1. TypeInv => TypeOK
  BY DEF TypeInv
<1>. QED  BY <1>1, TypeInit, TypeStep, PTL DEF Spec
-----------------------------------------------------------------------------
(***************************************************************************)
(* The money of a task.  TaskMoneyExact speaks of finished tasks between   *)
(* their billings; what carries it is where the billing stands with each   *)
(* poller (Biller), that nobody else bills the same task, and that a       *)
(* poller holds no task as finished (SeenInv), so that its compare-and-    *)
(* swap ends an unfinished one, with the quota the task was charged        *)
(* (ReadInv).  A Suno task and a task a viewer may write to are ended by   *)
(* other statements than the compare-and-swap; the others are the plain    *)
(* ones, and the invariant holds for each of them whatever else is in the  *)
(* table.  A bulk failure hits plain tasks, too; it changes neither what   *)
(* they are billed nor who bills them, only what their rows say, so that   *)
(* the invariant speaks of OwnStatus.                                      *)
(***************************************************************************)

Plain == {t \in Tasks : Platform[t] = "video" /\ t \notin Realtime}

SeenInv ==
    /\ \A p \in Pollers, t \in Tasks : seen[p][t] \notin Terminal
    /\ \A v \in Viewers, t \in Tasks : seen[v][t] # "none" => t \in Realtime

\* A plain task a bulk failure has hit stays failed, and a poller that holds one
\* has read the quota it was charged.
ReadInv(t) ==
    /\ before[t] # "none" => status[t] = "FAILURE"
    /\ \A p \in Pollers : seen[p][t] # "none" => status[t] # "none" /\ charge[p][t] = Quota

HasBill(p, t) == pc[p] \in Billing /\ job[p] = t

\* Where the billing of t stands with p.
Biller(p, t) ==
    /\ OwnStatus(t) = IF result[p] = "SUCCESS" THEN "SUCCESS" ELSE "FAILURE"
    /\ charge[p][t] = Quota
    /\ pc[p] = "bill" => bill[t] = "held"
    /\ pc[p] \in {"token", "quota"} =>
          /\ bill[t] = IF result[p] = "SUCCESS" THEN "settled" ELSE "refunded"
          /\ funding[t] = Quota + due[p] /\ quota[t] = Quota
    /\ pc[p] = "token" => tokenQuota[t] = Quota
    /\ pc[p] = "quota" /\ t \notin tainted => tokenQuota[t] = funding[t]

BillerInv(t) ==
    /\ \A p \in Pollers : HasBill(p, t) => Biller(p, t)
    /\ \A p, q \in Pollers : HasBill(p, t) /\ HasBill(q, t) => p = q

Charged(t) == funding[t] = Quota /\ tokenQuota[t] = Quota /\ quota[t] = Quota

\* The charge of t as its billing leaves it.
Settled(t) ==
    /\ bill[t] # "held" /\ tokenQuota[t] = funding[t]
    /\ funding[t] = IF bill[t] = "refunded" THEN 0 ELSE quota[t]

MoneyInv(t) ==
    /\ OwnStatus(t) = "none" =>
          bill[t] = "held" /\ funding[t] \in {0, Quota} /\ tokenQuota[t] = funding[t]
    /\ OwnStatus(t) # "none" /\ bill[t] \in {"held", "kept"} => Charged(t)
    /\ bill[t] = "settled" => OwnStatus(t) = "SUCCESS" /\ funding[t] >= 0 /\ tokenQuota[t] >= 0
    /\ bill[t] = "kept" => OwnStatus(t) = "FAILURE"
    /\ bill[t] = "refunded" =>
          OwnStatus(t) = "FAILURE" /\ funding[t] = 0 /\ tokenQuota[t] \in {0, Quota}
    /\ (Ended(t) /\ t \notin tainted /\ ~InBilling(t)) => Settled(t)

PlainMoney(t) == BillerInv(t) /\ MoneyInv(t)

PollInv == TypeInv /\ SeenInv /\ \A t \in Plain : PlainMoney(t) /\ ReadInv(t)

LEMMA FirstOf == ASSUME NEW n, NEW S PROVE First(n, S) \subseteq S
  BY DEF First

\* A scan takes unfinished rows.
LEMMA ScanReads ==
    ASSUME TypeInv, NEW p \in Pollers,
           SweepScan(p) \/ SweepEnds(p) \/ PollScan(p) \/ PollEnds(p)
    PROVE  \E S \in SUBSET {t \in Tasks : Unfinished(t)} : \E where : Read(p, S, where)
<1>1. First(SweepLimit, {t \in old : Unfinished(t)}) \in SUBSET {t \in Tasks : Unfinished(t)}
  <2>1. old \in SUBSET Tasks
    BY DEF TypeInv, TypeOK
  <2>. QED  BY <2>1, FirstOf
<1>2. First(QueryLimit, {t \in Tasks : Unfinished(t)}) \in SUBSET {t \in Tasks : Unfinished(t)}
  BY FirstOf
<1>3. CASE SweepScan(p)
  BY <1>1, <1>3 DEF SweepScan
<1>4. CASE PollScan(p)
  BY <1>2, <1>4 DEF PollScan
<1>5. CASE SweepEnds(p) \/ PollEnds(p)
  BY <1>5 DEF SweepEnds, PollEnds
<1>. QED  BY <1>3, <1>4, <1>5

\* What a poller reads is unfinished, what it has handled is gone.
LEMMA SeenStep == TypeInv /\ SeenInv /\ [Next]_vars => SeenInv'
<1>. SUFFICES ASSUME TypeInv, SeenInv, [Next]_vars PROVE SeenInv'
  OBVIOUS
<1>0. /\ seen \in [Actors -> [Tasks -> Statuses]] /\ after \in [Actors -> [status : Statuses, full : BOOLEAN]]
      /\ Pollers \subseteq Actors /\ Viewers \subseteq Actors /\ Pollers \cap Viewers = {}
  BY ActorAssumption DEF TypeInv, TypeOK, Actors
<1>1. ASSUME \A a \in Actors, t \in Tasks : seen'[a][t] \in {seen[a][t], "none"}
      PROVE  SeenInv'
  BY <1>0, <1>1 DEF SeenInv, Terminal
<1>2. CASE UNCHANGED seen
  BY <1>2 DEF SeenInv
<1>3. ASSUME NEW a \in Actors, NEW t \in Tasks, seen' = [seen EXCEPT ![a][t] = "none"]
      PROVE  SeenInv'
  <2>1. \A b \in Actors, u \in Tasks : seen'[b][u] \in {seen[b][u], "none"}
    BY <1>0, <1>3
  <2>. QED  BY <1>1, <1>3, <2>1
<1>4. ASSUME NEW p \in Pollers, SweepScan(p) \/ SweepEnds(p) \/ PollScan(p) \/ PollEnds(p)
      PROVE  SeenInv'
  <2>0. PICK S \in SUBSET {t \in Tasks : Unfinished(t)} : \E where : Read(p, S, where)
    BY <1>4, ScanReads
  <2>1. seen' = [seen EXCEPT ![p] = [t \in Tasks |-> IF t \in S THEN status[t] ELSE "none"]]
    BY <2>0 DEF Read
  <2>3. \A t \in Tasks : seen'[p][t] = IF t \in S THEN status[t] ELSE "none"
    BY <1>0, <2>1
  <2>4. \A t \in S : status[t] \notin Terminal
    BY DEF Unfinished
  <2>5. \A b \in Actors : b # p => seen'[b] = seen[b]
    BY <1>0, <2>1
  <2>. QED  BY <1>0, <2>3, <2>4, <2>5 DEF SeenInv, Terminal
<1>5. ASSUME NEW v \in Viewers, NEW t \in Tasks, ViewTask(v, t) PROVE SeenInv'
  <2>1. /\ OthersStay(v) /\ t \in Realtime
        /\ seen'[v] = [u \in Tasks |-> IF u \in {t} THEN status[u] ELSE "none"]
    BY <1>5, ViewStep
  <2>2. \A b \in Actors : b # v => seen'[b] = seen[b]
    BY <2>1 DEF OthersStay
  <2>. QED  BY <1>0, <2>1, <2>2 DEF SeenInv
<1>6. ASSUME NEW a \in Actors, NEW t \in Tasks,
             SweepTask(a, t) \/ PollUnanswered(a, t) \/ PollVideo(a, t) \/ TryRealtimeFetch(a, t)
      PROVE  SeenInv'
  BY <1>3, <1>6 DEF SweepTask, PollUnanswered, PollVideo, TryRealtimeFetch, Transition, Skip
<1>7. ASSUME NEW p \in Pollers, NEW t \in Tasks, PollSuno(p, t) PROVE SeenInv'
  BY <1>0, <1>3, <1>7 DEF PollSuno
<1>8. ASSUME NEW p \in Pollers, NEW c \in Channels, BulkFail(p, c) PROVE SeenInv'
  <2>1. PICK S : seen' = [seen EXCEPT ![p] =
                             [t \in Tasks |-> IF t \in S THEN "none" ELSE seen[p][t]]]
    BY <1>8 DEF BulkFail
  <2>2. \A b \in Actors, u \in Tasks : seen'[b][u] \in {seen[b][u], "none"}
    BY <1>0, <2>1
  <2>. QED  BY <1>1, <2>2
<1>9. ASSUME NEW p \in Pollers,
             SettleTask(p) \/ RefundTaskQuota(p) \/ AdjustToken(p) \/ UpdateQuota(p) \/ SaveSuno(p)
      PROVE  UNCHANGED seen
  BY <1>9 DEF SettleTask, RefundTaskQuota, AdjustToken, UpdateQuota, SaveSuno, AdjustFunding, Leave
<1>10. ASSUME NEW p \in Pollers, Crash(p) PROVE SeenInv'
  <2>1. seen' = [seen EXCEPT ![p] = Nothing]
    BY <1>10 DEF Crash
  <2>2. \A b \in Actors, u \in Tasks : seen'[b][u] \in {seen[b][u], "none"}
    BY <1>0, <2>1 DEF Nothing
  <2>. QED  BY <1>1, <2>2
<1>11. ASSUME NEW t \in Tasks, Submit(t) \/ Age(t) PROVE UNCHANGED seen
  BY <1>11 DEF Submit, Age, actor
<1>12. ASSUME NEW c \in Channels, DeleteChannel(c) PROVE SeenInv'
  BY <1>12 DEF DeleteChannel, actor, SeenInv
<1>13. CASE UNCHANGED vars
  BY <1>2, <1>13 DEF vars, actor
<1>. QED
  BY <1>0, <1>2, <1>4, <1>5, <1>6, <1>7, <1>8, <1>9, <1>10, <1>11, <1>12, <1>13, NextCases

\* A step that neither ends nor bills a plain task leaves its money alone.
LEMMA KeepMoney ==
    ASSUME PollInv, NEW t \in Plain,
           \/ OwnStatus(t)' = OwnStatus(t)
           \/ {OwnStatus(t), OwnStatus(t)'} \cap (Terminal \cup {"none"}) = {},
           quota'[t] = quota[t], funding'[t] = funding[t], tokenQuota'[t] = tokenQuota[t],
           bill'[t] = bill[t], t \in tainted' <=> t \in tainted,
           \A p \in Pollers : HasBill(p, t)' <=> HasBill(p, t),
           \A p \in Pollers : HasBill(p, t) =>
               /\ pc'[p] = pc[p] /\ result'[p] = result[p] /\ due'[p] = due[p]
               /\ charge'[p] = charge[p]
    PROVE  PlainMoney(t)'
<1>1. BillerInv(t) /\ MoneyInv(t)
  BY DEF PollInv, PlainMoney
<1>2. (InBilling(t)' <=> InBilling(t)) /\ (Ended(t)' <=> Ended(t))
  BY DEF InBilling, HasBill, Billing, Ended
<1>3. ASSUME NEW p \in Pollers, HasBill(p, t) PROVE Biller(p, t)'
  <2>1. Biller(p, t) /\ OwnStatus(t) \in Terminal
    BY <1>1, <1>3 DEF BillerInv, Biller, Terminal
  <2>2. /\ OwnStatus(t)' = OwnStatus(t) /\ pc'[p] = pc[p] /\ result'[p] = result[p]
        /\ due'[p] = due[p] /\ charge'[p] = charge[p]
    BY <1>3, <2>1
  <2>. QED  BY <2>1, <2>2 DEF Biller
<1>4. BillerInv(t)'
  BY <1>1, <1>3 DEF BillerInv
<1>5. MoneyInv(t)'
  <2>1. CASE OwnStatus(t)' = OwnStatus(t)
    BY <1>1, <1>2, <2>1 DEF MoneyInv, Charged, Settled
  <2>2. CASE OwnStatus(t)' # OwnStatus(t)
    <3>1. {OwnStatus(t), OwnStatus(t)'} \cap {"none", "SUCCESS", "FAILURE"} = {}
      BY <2>2 DEF Terminal
    <3>. QED  BY <1>1, <1>2, <3>1 DEF MoneyInv, Charged, Ended, Terminal
  <2>. QED  BY <2>1, <2>2
<1>. QED  BY <1>4, <1>5 DEF PlainMoney

\* The same, for a step of an actor that does not bill t.
LEMMA KeepByActor ==
    ASSUME PollInv, NEW a \in Actors, OthersStay(a), NEW t \in Plain,
           ~HasBill(a, t), ~HasBill(a, t)',
           \/ OwnStatus(t)' = OwnStatus(t)
           \/ {OwnStatus(t), OwnStatus(t)'} \cap (Terminal \cup {"none"}) = {},
           quota'[t] = quota[t], funding'[t] = funding[t], tokenQuota'[t] = tokenQuota[t],
           bill'[t] = bill[t], t \in tainted' <=> t \in tainted
    PROVE  PlainMoney(t)'
<1>1. \A p \in Pollers : p # a =>
         /\ pc'[p] = pc[p] /\ job'[p] = job[p] /\ result'[p] = result[p] /\ due'[p] = due[p]
         /\ charge'[p] = charge[p]
  BY DEF OthersStay, Actors
<1>2. \A p \in Pollers : HasBill(p, t)' <=> HasBill(p, t)
  BY <1>1 DEF HasBill
<1>3. \A p \in Pollers : HasBill(p, t) =>
         /\ pc'[p] = pc[p] /\ result'[p] = result[p] /\ due'[p] = due[p]
         /\ charge'[p] = charge[p]
  BY <1>1
<1>. QED  BY <1>2, <1>3, KeepMoney

\* The winner of the compare-and-swap starts to bill the task.
LEMMA WinMoney ==
    ASSUME PollInv, NEW a \in Pollers, OthersStay(a), NEW t \in Plain,
           OwnStatus(t) \notin Terminal \cup {"none"}, ~HasBill(a, t),
           pc'[a] = "bill", job'[a] = t, charge'[a][t] = Quota,
           OwnStatus(t)' = IF result'[a] = "SUCCESS" THEN "SUCCESS" ELSE "FAILURE",
           quota'[t] = quota[t], funding'[t] = funding[t], tokenQuota'[t] = tokenQuota[t],
           bill'[t] = bill[t]
    PROVE  PlainMoney(t)'
<1>0. BillerInv(t) /\ MoneyInv(t) /\ bill[t] \in Bills
  BY DEF PollInv, PlainMoney, TypeInv, TypeOK, Plain
<1>1. bill[t] = "held"
  BY <1>0 DEF MoneyInv, Terminal, Bills
<1>2. \A p \in Pollers : ~HasBill(p, t)
  BY <1>0 DEF BillerInv, Biller, Terminal
<1>3. \A p \in Pollers : p # a => pc'[p] = pc[p] /\ job'[p] = job[p]
  BY DEF OthersStay, Actors
<1>4. \A p \in Pollers : HasBill(p, t)' => p = a
  BY <1>2, <1>3 DEF HasBill
<1>5. BillerInv(t)'
  BY <1>1, <1>4 DEF BillerInv, Biller
<1>6. InBilling(t)'
  BY DEF InBilling
<1>7. MoneyInv(t)'
  BY <1>0, <1>1, <1>6 DEF MoneyInv, Charged, Terminal
<1>. QED  BY <1>5, <1>7 DEF PlainMoney

\* Nobody has billed a task that has not ended.
LEMMA UnfinishedIsCharged ==
    ASSUME PollInv, NEW t \in Plain, OwnStatus(t) \notin Terminal \cup {"none"}
    PROVE  Charged(t) /\ bill[t] = "held"
<1>1. MoneyInv(t) /\ bill[t] \in Bills
  BY DEF PollInv, PlainMoney, TypeInv, TypeOK, Plain
<1>. QED  BY <1>1 DEF MoneyInv, Terminal, Bills

\* UpdateWithStatus of a row that was read, as PollVideo, SweepTask and
\* TryRealtimeFetch use it.
LEMMA TransitionMoney ==
    ASSUME PollInv, NEW a \in Actors, OthersStay(a), NEW u \in Tasks, NEW s \in Stored,
           NEW f, NEW next \in PCs, NEW outcome,
           Transition(a, u, s, f, next, outcome), pc[a] \notin Busy, seen[a][u] # "none",
           UNCHANGED <<before, charge, money>>, next \notin {"token", "quota"},
           next = "bill" => a \in Pollers /\ s = IF outcome = "SUCCESS" THEN "SUCCESS" ELSE "FAILURE",
           u \in Plain => a \in Pollers /\ seen[a][u] \notin Terminal /\ (s \in Terminal => next = "bill"),
           NEW t \in Plain
    PROVE  PlainMoney(t)'
<1>0. /\ status \in [Tasks -> Statuses] /\ pc \in [Actors -> PCs] /\ quota \in [Tasks -> Nat]
      /\ job \in [Actors -> Tasks \cup {NoTask}] /\ result \in [Actors -> Results] /\ t \in Tasks
  BY DEF PollInv, TypeInv, TypeOK, Plain
<1>1. ~HasBill(a, t)
  BY DEF HasBill, Busy
<1>2. /\ funding'[t] = funding[t] /\ tokenQuota'[t] = tokenQuota[t]
      /\ bill'[t] = bill[t] /\ (t \in tainted' <=> t \in tainted)
  BY DEF money
<1>3. CASE Skip(a, u)
  <2>1. ~HasBill(a, t)' /\ OwnStatus(t)' = OwnStatus(t) /\ quota'[t] = quota[t]
    BY <1>1, <1>3 DEF Skip, HasBill, OwnStatus, row
  <2>. QED  BY <1>1, <1>2, <2>1, KeepByActor
<1>4. CASE ~Skip(a, u)
  <2>1. /\ status[u] = seen[a][u] /\ status' = [status EXCEPT ![u] = s]
        /\ quota' = [quota EXCEPT ![u] = charge[a][u]]
        /\ pc' = [pc EXCEPT ![a] = next]
        /\ job' = [job EXCEPT ![a] = IF next = "bill" THEN u ELSE NoTask]
        /\ result' = [result EXCEPT ![a] = outcome]
    BY <1>4 DEF Transition, StillAsSeen
  <2>2. /\ pc'[a] = next /\ (next = "bill" => job'[a] = u) /\ result'[a] = outcome
        /\ status'[u] = s /\ (t # u => status'[t] = status[t])
    BY <1>0, <2>1
  <2>5. ASSUME t = u
        PROVE  /\ OwnStatus(t) = status[t] /\ OwnStatus(t)' = s /\ quota'[t] = quota[t]
               /\ OwnStatus(t) \notin Terminal \cup {"none"} /\ charge[a][t] = Quota
    <3>1. a \in Pollers /\ ReadInv(t) /\ status[t] \notin Terminal \cup {"none"}
      BY <2>1, <2>5 DEF PollInv
    <3>2. charge[a][t] = Quota /\ before[t] = "none"
      BY <2>5, <3>1 DEF ReadInv, Terminal
    <3>3. OwnStatus(t) = status[t] /\ OwnStatus(t)' = s
      BY <2>2, <2>5, <3>2 DEF OwnStatus
    <3>4. quota[t] = Quota
      BY <3>1, <3>3, UnfinishedIsCharged DEF Charged
    <3>. QED  BY <1>0, <2>1, <2>5, <3>1, <3>2, <3>3, <3>4
  <2>6. t # u => OwnStatus(t)' = OwnStatus(t) /\ quota'[t] = quota[t]
    BY <1>0, <2>1, <2>2 DEF OwnStatus
  <2>3. CASE t = u /\ next = "bill"
    BY <1>1, <1>2, <2>2, <2>3, <2>5, WinMoney
  <2>4. CASE ~(t = u /\ next = "bill")
    <3>1. ~HasBill(a, t)'
      BY <2>2, <2>4 DEF HasBill, Billing
    <3>2. \/ OwnStatus(t)' = OwnStatus(t)
          \/ {OwnStatus(t), OwnStatus(t)'} \cap (Terminal \cup {"none"}) = {}
      BY <2>4, <2>5, <2>6 DEF Stored
    <3>. QED  BY <1>1, <1>2, <2>5, <2>6, <3>1, <3>2, KeepByActor
  <2>. QED  BY <2>3, <2>4
<1>. QED  BY <1>3, <1>4

\* A step of the one poller that bills t.
LEMMA OwnMoney ==
    ASSUME PollInv, NEW p \in Pollers, OthersStay(p), NEW t \in Plain, HasBill(p, t),
           HasBill(p, t)' => Biller(p, t)', MoneyInv(t)'
    PROVE  PlainMoney(t)'
<1>0. BillerInv(t)
  BY DEF PollInv, PlainMoney
<1>1. \A q \in Pollers : q # p => pc'[q] = pc[q] /\ job'[q] = job[q] /\ ~HasBill(q, t)
  BY <1>0 DEF OthersStay, Actors, BillerInv
<1>2. \A q \in Pollers : HasBill(q, t)' => q = p
  BY <1>1 DEF HasBill
<1>. QED  BY <1>2 DEF PlainMoney, BillerInv

\* A plain task is not saved after its billing.
LEMMA LeaveEnds ==
    ASSUME TypeInv, NEW p \in Pollers, NEW t \in Plain, HasBill(p, t), Leave(p)
    PROVE  pc'[p] \in {"sweep", "poll"}
<1>0. p \in Actors /\ pc \in [Actors -> PCs] /\ ActorShape(p)
  BY DEF TypeInv, TypeOK, ActorInv, Actors
<1>1. after[p] = NoSave
  BY <1>0 DEF ActorShape, HasBill, Busy, Plain
<1>. QED  BY <1>0, <1>1 DEF Leave

\* A billing step leaves the other tasks alone.
LEMMA ElsewhereMoney ==
    ASSUME PollInv, NEW p \in Pollers, OthersStay(p), NEW t \in Plain, ~HasBill(p, t),
           pc[p] \in Billing, UNCHANGED <<status, full, before>>,
           pc'[p] \in Billing => job'[p] = job[p],
           \A u \in Tasks : u # job[p] =>
               /\ quota'[u] = quota[u] /\ funding'[u] = funding[u] /\ bill'[u] = bill[u]
               /\ tokenQuota'[u] = tokenQuota[u] /\ (u \in tainted' <=> u \in tainted)
    PROVE  PlainMoney(t)'
<1>1. t # job[p] /\ ~HasBill(p, t)' /\ t \in Tasks /\ p \in Actors
  BY DEF HasBill, Plain, Actors
<1>2. OwnStatus(t)' = OwnStatus(t)
  BY DEF OwnStatus
<1>. QED  BY <1>1, <1>2, KeepByActor

LEMMA BillMoney ==
    ASSUME PollInv, NEW p \in Pollers, SettleTask(p) \/ RefundTaskQuota(p), NEW t \in Plain
    PROVE  PlainMoney(t)'
<1>0. /\ p \in Actors /\ t \in Tasks /\ ActorTypes /\ MoneyTypes /\ RowTypes /\ TypeInv
      /\ Quota \in Nat \ {0} /\ BillerInv(t) /\ MoneyInv(t) /\ ActorShape(p)
  BY TypeParts, QuotaAssumption DEF PollInv, TypeInv, ActorInv, PlainMoney, Plain, Actors
<1>1. /\ OthersStay(p) /\ UNCHANGED <<status, full, quota, before, charge, tokenQuota>>
      /\ pc[p] = "bill" /\ OwnStatus(t)' = OwnStatus(t)
  BY <1>0, BillSteps DEF row, SettleTask, RefundTaskQuota, OwnStatus
<1>2. PICK u \in Tasks : u = job[p]
  BY <1>0, <1>1 DEF ActorShape, Busy, Billing
<1>3. ASSUME t = u
      PROVE  /\ HasBill(p, t) /\ bill[t] = "held" /\ Charged(t) /\ charge[p][t] = Quota
             /\ OwnStatus(t) = IF result[p] = "SUCCESS" THEN "SUCCESS" ELSE "FAILURE"
  <2>1. HasBill(p, t) /\ Biller(p, t)
    BY <1>0, <1>1, <1>2, <1>3 DEF HasBill, Billing, BillerInv
  <2>2. /\ bill[t] = "held" /\ charge[p][t] = Quota
        /\ OwnStatus(t) = IF result[p] = "SUCCESS" THEN "SUCCESS" ELSE "FAILURE"
    BY <1>1, <2>1 DEF Biller
  <2>. QED  BY <1>0, <2>1, <2>2 DEF MoneyInv
<1>4. t # u => ~HasBill(p, t) /\ pc[p] \in Billing
  BY <1>1, <1>2 DEF HasBill, Billing
<1>5. pc'[p] \in Billing => job'[p] = job[p]
  <2>1. CASE Leave(p)
    BY <1>0, <2>1 DEF Leave, ActorTypes, Billing
  <2>2. CASE ~Leave(p)
    BY <2>2 DEF SettleTask, RefundTaskQuota, AdjustFunding
  <2>. QED  BY <2>1, <2>2
<1>6. ASSUME NEW way, bill' = [bill EXCEPT ![u] = way], Leave(p),
             UNCHANGED <<funding, due, tainted>>,
             t = u => way = IF result[p] = "SUCCESS" THEN "settled" ELSE "kept"
      PROVE  PlainMoney(t)'
  <2>1. CASE t = u
    <3>1. pc'[p] \in {"sweep", "poll"}
      BY <1>0, <1>3, <1>6, <2>1, LeaveEnds
    <3>2. /\ bill'[t] = IF result[p] = "SUCCESS" THEN "settled" ELSE "kept"
          /\ funding'[t] = Quota /\ tokenQuota'[t] = Quota /\ quota'[t] = Quota
          /\ OwnStatus(t)' = IF result[p] = "SUCCESS" THEN "SUCCESS" ELSE "FAILURE"
      BY <1>0, <1>1, <1>3, <1>6, <2>1 DEF MoneyTypes, Charged
    <3>3. MoneyInv(t)'
      BY <1>0, <3>2 DEF MoneyInv, Charged, Settled
    <3>. QED  BY <1>1, <1>3, <2>1, <3>1, <3>3, OwnMoney DEF HasBill, Billing
  <2>2. CASE t # u
    <3>1. \A x \in Tasks : x # job[p] => bill'[x] = bill[x]
      BY <1>0, <1>2, <1>6 DEF MoneyTypes
    <3>. QED  BY <1>1, <1>4, <1>5, <1>6, <2>2, <3>1, ElsewhereMoney
  <2>. QED  BY <2>1, <2>2
<1>7. ASSUME NEW delta \in Int, NEW way, AdjustFunding(p, delta, way),
             t = u => IF result[p] = "SUCCESS" THEN way = "settled" /\ Quota + delta \in Nat
                                               ELSE way = "refunded" /\ delta = -Quota
      PROVE  PlainMoney(t)'
  <2>1. \/ /\ funding' = [funding EXCEPT ![u] = @ + delta] /\ bill' = [bill EXCEPT ![u] = way]
           /\ due' = [due EXCEPT ![p] = delta] /\ pc' = [pc EXCEPT ![p] = "token"]
           /\ UNCHANGED <<job, result, tainted>>
        \/ Leave(p) /\ tainted' = tainted \cup {u} /\ UNCHANGED <<funding, bill>>
    BY <1>2, <1>7 DEF AdjustFunding
  <2>2. CASE t # u
    <3>1. \A x \in Tasks : x # job[p] => /\ bill'[x] = bill[x] /\ funding'[x] = funding[x]
                                         /\ (x \in tainted' <=> x \in tainted)
      BY <1>0, <1>2, <2>1 DEF MoneyTypes
    <3>. QED  BY <1>1, <1>4, <1>5, <2>2, <3>1, ElsewhereMoney
  <2>3. CASE t = u /\ Leave(p) /\ tainted' = tainted \cup {u} /\ UNCHANGED <<funding, bill>>
    <3>1. pc'[p] \in {"sweep", "poll"} /\ t \in tainted'
      BY <1>0, <1>3, <2>3, LeaveEnds
    <3>2. MoneyInv(t)'
      BY <1>0, <1>1, <1>3, <2>3, <3>1 DEF MoneyInv, Charged
    <3>. QED  BY <1>1, <1>3, <2>3, <3>1, <3>2, OwnMoney DEF HasBill, Billing
  <2>4. CASE /\ t = u /\ funding' = [funding EXCEPT ![u] = @ + delta]
             /\ bill' = [bill EXCEPT ![u] = way]
             /\ due' = [due EXCEPT ![p] = delta] /\ pc' = [pc EXCEPT ![p] = "token"]
             /\ UNCHANGED <<job, result, tainted>>
    <3>1. /\ pc'[p] = "token" /\ due'[p] = delta /\ result'[p] = result[p] /\ job'[p] = t
          /\ funding'[t] = Quota + delta /\ bill'[t] = way
          /\ tokenQuota'[t] = Quota /\ quota'[t] = Quota /\ charge'[p][t] = Quota
      BY <1>0, <1>1, <1>2, <1>3, <2>4 DEF ActorTypes, MoneyTypes, Charged
    <3>2. InBilling(t)'
      BY <3>1 DEF InBilling
    <3>3. Biller(p, t)'
      BY <1>1, <1>3, <1>7, <2>4, <3>1 DEF Biller
    <3>4. MoneyInv(t)'
      BY <1>0, <1>1, <1>3, <1>7, <2>4, <3>1, <3>2 DEF MoneyInv
    <3>. QED  BY <1>1, <1>3, <2>4, <3>3, <3>4, OwnMoney
  <2>. QED  BY <2>1, <2>2, <2>3, <2>4
<1>q. TaskQuota(p) \in Nat /\ (t = u => TaskQuota(p) = Quota)
  BY <1>0, <1>2, <1>3 DEF TaskQuota, ActorTypes
<1>8. CASE SettleTask(p)
  <2>1. result[p] = "SUCCESS"
    BY <1>8 DEF SettleTask
  <2>2. ASSUME NEW actual \in Actuals, AdjustFunding(p, actual - TaskQuota(p), "settled")
        PROVE  PlainMoney(t)'
    <3>1. /\ actual - TaskQuota(p) \in Int
          /\ t = u => Quota + (actual - TaskQuota(p)) \in Nat
      BY <1>0, <1>q, QuotaAssumption
    <3>. QED  BY <1>7, <2>1, <2>2, <3>1
  <2>. QED  BY <1>2, <1>6, <1>8, <2>1, <2>2 DEF SettleTask
<1>9. CASE RefundTaskQuota(p)
  <2>1. result[p] # "SUCCESS" /\ -TaskQuota(p) \in Int /\ (t = u => -TaskQuota(p) = -Quota)
    BY <1>0, <1>9, <1>q DEF RefundTaskQuota
  <2>2. CASE AdjustFunding(p, -TaskQuota(p), "refunded")
    BY <1>7, <2>1, <2>2
  <2>3. CASE /\ bill' = [bill EXCEPT ![u] = IF bill[u] = "held" THEN "kept" ELSE bill[u]]
             /\ Leave(p) /\ UNCHANGED <<funding, due, tainted>>
    BY <1>3, <1>6, <2>1, <2>3
  <2>. QED  BY <1>2, <1>9, <2>2, <2>3 DEF RefundTaskQuota
<1>. QED  BY <1>8, <1>9

LEMMA TokenMoney ==
    ASSUME PollInv, NEW p \in Pollers, AdjustToken(p), NEW t \in Plain
    PROVE  PlainMoney(t)'
<1>0. /\ p \in Actors /\ t \in Tasks /\ ActorTypes /\ MoneyTypes /\ RowTypes /\ TypeInv
      /\ Quota \in Nat \ {0} /\ BillerInv(t) /\ MoneyInv(t) /\ ActorShape(p)
  BY TypeParts, QuotaAssumption DEF PollInv, TypeInv, ActorInv, PlainMoney, Plain, Actors
<1>1. /\ OthersStay(p) /\ UNCHANGED <<status, full, quota, before, charge, funding, bill>>
      /\ pc[p] = "token" /\ OwnStatus(t)' = OwnStatus(t)
  BY <1>0, TokenStep DEF row, AdjustToken, OwnStatus
<1>2. PICK u \in Tasks : u = job[p]
  BY <1>0, <1>1 DEF ActorShape, Busy, Billing
<1>3. \/ tokenQuota' = [tokenQuota EXCEPT ![u] = tokenQuota[u] + due[p]] /\ tainted' = tainted
      \/ tainted' = tainted \cup {u} /\ tokenQuota' = tokenQuota
  BY <1>2 DEF AdjustToken, TokenMoved
<1>4. IF result[p] = "SUCCESS"
      THEN pc' = [pc EXCEPT ![p] = "quota"] /\ UNCHANGED <<job, result, due>>
      ELSE Leave(p)
  BY DEF AdjustToken
<1>5. CASE t # u
  <2>1. pc'[p] \in Billing => job'[p] = job[p]
    BY <1>0, <1>4 DEF Leave, ActorTypes, Billing
  <2>2. \A x \in Tasks : x # job[p] => /\ tokenQuota'[x] = tokenQuota[x]
                                       /\ (x \in tainted' <=> x \in tainted)
    BY <1>0, <1>2, <1>3 DEF MoneyTypes
  <2>3. ~HasBill(p, t) /\ pc[p] \in Billing
    BY <1>1, <1>2, <1>5 DEF HasBill, Billing
  <2>. QED  BY <1>1, <2>1, <2>2, <2>3, ElsewhereMoney
<1>6. CASE t = u
  <2>1. HasBill(p, t) /\ Biller(p, t)
    BY <1>0, <1>1, <1>2, <1>6 DEF HasBill, Billing, BillerInv
  <2>2. /\ charge[p][t] = Quota
        /\ OwnStatus(t) = IF result[p] = "SUCCESS" THEN "SUCCESS" ELSE "FAILURE"
        /\ bill[t] = IF result[p] = "SUCCESS" THEN "settled" ELSE "refunded"
        /\ funding[t] = Quota + due[p] /\ quota[t] = Quota /\ tokenQuota[t] = Quota
    BY <1>1, <2>1 DEF Biller
  <2>3. (tokenQuota'[t] = funding[t] /\ tainted' = tainted)
        \/ (t \in tainted' /\ tokenQuota'[t] = Quota)
    BY <1>0, <1>3, <1>6, <2>2 DEF MoneyTypes, ActorTypes
  <2>4. CASE result[p] = "SUCCESS"
    <3>1. pc'[p] = "quota" /\ job'[p] = t /\ result'[p] = "SUCCESS" /\ due'[p] = due[p]
      BY <1>0, <1>2, <1>4, <1>6, <2>4 DEF ActorTypes
    <3>2. InBilling(t)'
      BY <3>1 DEF InBilling
    <3>3. Biller(p, t)'
      BY <1>1, <2>2, <2>3, <2>4, <3>1 DEF Biller
    <3>4. MoneyInv(t)'
      BY <1>0, <1>1, <2>2, <2>3, <2>4, <3>2 DEF MoneyInv
    <3>. QED  BY <1>1, <2>1, <3>3, <3>4, OwnMoney
  <2>5. CASE result[p] # "SUCCESS"
    <3>1. pc'[p] \in {"sweep", "poll"}
      BY <1>0, <1>4, <2>1, <2>5, LeaveEnds
    <3>2. MoneyInv(t)'
      BY <1>0, <1>1, <2>2, <2>3, <2>5 DEF MoneyInv, Settled
    <3>. QED  BY <1>1, <2>1, <3>1, <3>2, OwnMoney DEF HasBill, Billing
  <2>. QED  BY <2>4, <2>5
<1>. QED  BY <1>5, <1>6

LEMMA QuotaMoney ==
    ASSUME PollInv, NEW p \in Pollers, UpdateQuota(p), NEW t \in Plain
    PROVE  PlainMoney(t)'
<1>0. /\ p \in Actors /\ t \in Tasks /\ ActorTypes /\ MoneyTypes /\ RowTypes /\ TypeInv
      /\ Quota \in Nat \ {0} /\ BillerInv(t) /\ MoneyInv(t) /\ ActorShape(p)
  BY TypeParts, QuotaAssumption DEF PollInv, TypeInv, ActorInv, PlainMoney, Plain, Actors
<1>1. /\ OthersStay(p) /\ UNCHANGED <<status, full, before, funding, tokenQuota, bill>>
      /\ pc[p] = "quota" /\ Leave(p) /\ OwnStatus(t)' = OwnStatus(t)
  BY <1>0, QuotaStep DEF UpdateQuota, OwnStatus
<1>2. PICK u \in Tasks : u = job[p]
  BY <1>0, <1>1 DEF ActorShape, Busy, Billing
<1>3. \/ quota' = [quota EXCEPT ![u] = charge[p][u] + due[p]] /\ tainted' = tainted
      \/ tainted' = tainted \cup {u} /\ quota' = quota
  BY <1>2 DEF UpdateQuota, TaskQuota
<1>4. CASE t # u
  <2>1. pc'[p] \in Billing => job'[p] = job[p]
    BY <1>0, <1>1 DEF Leave, ActorTypes, Billing
  <2>2. \A x \in Tasks : x # job[p] => quota'[x] = quota[x] /\ (x \in tainted' <=> x \in tainted)
    BY <1>0, <1>2, <1>3 DEF RowTypes
  <2>3. ~HasBill(p, t) /\ pc[p] \in Billing
    BY <1>1, <1>2, <1>4 DEF HasBill, Billing
  <2>. QED  BY <1>1, <2>1, <2>2, <2>3, ElsewhereMoney
<1>5. CASE t = u
  <2>1. HasBill(p, t) /\ Biller(p, t) /\ result[p] = "SUCCESS"
    BY <1>0, <1>1, <1>2, <1>5 DEF HasBill, Billing, BillerInv, ActorShape
  <2>2. /\ OwnStatus(t) = "SUCCESS" /\ charge[p][t] = Quota /\ bill[t] = "settled" /\ funding[t] = Quota + due[p]
        /\ t \notin tainted => tokenQuota[t] = funding[t]
    BY <1>1, <2>1 DEF Biller
  <2>3. (quota'[t] = funding[t] /\ tainted' = tainted) \/ t \in tainted'
    BY <1>0, <1>3, <1>5, <2>2 DEF RowTypes
  <2>4. pc'[p] \in {"sweep", "poll"}
    BY <1>0, <1>1, <2>1, LeaveEnds
  <2>5. MoneyInv(t)'
    BY <1>0, <1>1, <2>2, <2>3 DEF MoneyInv, Settled
  <2>. QED  BY <1>1, <2>1, <2>4, <2>5, OwnMoney DEF HasBill, Billing
<1>. QED  BY <1>4, <1>5

\* The steps that write no money: a scan, the handling of a row, a Suno item.
LEMMA HandlingMoney ==
    ASSUME PollInv, NEW a \in Actors, NEW u \in Tasks,
           \/ a \in Pollers /\ (SweepTask(a, u) \/ PollUnanswered(a, u) \/ PollVideo(a, u))
           \/ a \in Viewers /\ TryRealtimeFetch(a, u),
           NEW t \in Plain
    PROVE  PlainMoney(t)'
<1>0. /\ TypeInv /\ SeenInv /\ ActorShape(a) /\ OthersStay(a)
      /\ UNCHANGED <<before, charge, money>> /\ Viewers \cap Pollers = {}
  <2>1. UNCHANGED charge
    BY DEF SweepTask, PollUnanswered, PollVideo, TryRealtimeFetch
  <2>. QED  BY <2>1, HandlingSteps, ActorAssumption DEF PollInv, TypeInv, ActorInv
<1>1. pc[a] \notin Busy /\ ~HasBill(a, t)
  BY <1>0 DEF SweepTask, PollUnanswered, PollVideo, Polling, TryRealtimeFetch, ActorShape,
              HasBill, Busy, Billing
<1>2. seen[a][u] # "none"
  BY DEF SweepTask, PollUnanswered, PollVideo, Polling, TryRealtimeFetch
<1>3. CASE Skip(a, u)
  <2>1. ~HasBill(a, t)' /\ OwnStatus(t)' = OwnStatus(t) /\ quota'[t] = quota[t]
    BY <1>0, <1>1, <1>3 DEF Skip, HasBill, OwnStatus, row
  <2>. QED  BY <1>0, <1>1, <2>1, KeepByActor DEF money
<1>4. CASE a \in Pollers /\ SweepTask(a, u)
  <2>1. Transition(a, u, "FAILURE", TRUE, "bill", "TIMEOUT")
    BY <1>4 DEF SweepTask
  <2>2. "FAILURE" \in Stored /\ "bill" \in PCs /\ seen[a][u] \notin Terminal
    BY <1>0, <1>4 DEF Stored, Statuses, PCs, SeenInv
  <2>. QED  BY <1>0, <1>1, <1>2, <1>4, <2>1, <2>2, TransitionMoney
<1>5. CASE a \in Pollers /\ PollVideo(a, u)
  <2>1. PICK r \in Reports :
           IF r.status \in Terminal
           THEN Transition(a, u, r.status, TRUE, "bill", r.status)
           ELSE Transition(a, u, r.status, r.full, "poll", "none")
    BY <1>5 DEF PollVideo
  <2>2. r.status \in Stored /\ "bill" \in PCs /\ "poll" \in PCs /\ seen[a][u] \notin Terminal
    BY <1>0, <1>5, ReportAssumption DEF PCs, SeenInv
  <2>3. CASE r.status \in Terminal
    <3>1. r.status = IF r.status = "SUCCESS" THEN "SUCCESS" ELSE "FAILURE"
      BY <2>3 DEF Terminal
    <3>. QED  BY <1>0, <1>1, <1>2, <1>5, <2>1, <2>2, <2>3, <3>1, TransitionMoney
  <2>4. CASE r.status \notin Terminal
    BY <1>0, <1>1, <1>2, <1>5, <2>1, <2>2, <2>4, TransitionMoney
  <2>. QED  BY <2>3, <2>4
<1>6. CASE a \in Viewers /\ TryRealtimeFetch(a, u) /\ ~Skip(a, u)
  <2>1. PICK s \in Terminal \cup {"IN_PROGRESS"} :
           Transition(a, u, s, s \in Terminal, "idle", "none")
    BY <1>6 DEF TryRealtimeFetch
  <2>2. s \in Stored /\ "idle" \in PCs /\ u \notin Plain
    BY <1>0, <1>2, <1>6 DEF Terminal, Stored, Statuses, PCs, SeenInv, Plain
  <2>. QED  BY <1>0, <1>1, <1>2, <2>1, <2>2, TransitionMoney
<1>. QED  BY <1>3, <1>4, <1>5, <1>6 DEF PollUnanswered

LEMMA SunoMoney ==
    ASSUME PollInv, NEW p \in Pollers, NEW t \in Plain,
           (\E u \in Tasks : PollSuno(p, u)) \/ SaveSuno(p)
    PROVE  PlainMoney(t)'
<1>0. /\ TypeInv /\ p \in Actors /\ ActorShape(p) /\ ActorTypes /\ RowTypes /\ MoneyTypes
      /\ t \in Tasks /\ Platform[t] = "video"
  BY TypeParts DEF PollInv, TypeInv, ActorInv, Actors, Plain
<1>1. ASSUME NEW u \in Tasks, PollSuno(p, u) PROVE PlainMoney(t)'
  <2>1. OthersStay(p) /\ UNCHANGED <<row, before, money>> /\ OwnStatus(t)' = OwnStatus(t)
    BY <1>0, <1>1, PollSunoStep DEF OwnStatus, row
  <2>2. u # t /\ pc[p] = "poll" /\ job'[p] = u
    BY <1>0, <1>1 DEF PollSuno, Polling, ActorTypes
  <2>3. ~HasBill(p, t) /\ ~HasBill(p, t)'
    BY <2>2 DEF HasBill, Billing
  <2>. QED  BY <1>0, <2>1, <2>3, KeepByActor DEF row, money
<1>2. CASE SaveSuno(p)
  <2>1. OthersStay(p) /\ UNCHANGED <<quota, before, funding, tokenQuota, tainted>>
    BY <1>0, <1>2, SaveStep
  <2>2. pc[p] = "save" /\ pc' = [pc EXCEPT ![p] = "poll"]
    BY <1>2 DEF SaveSuno
  <2>3. PICK u \in Tasks : u = job[p] /\ Platform[u] = "suno"
    BY <1>0, <2>2 DEF ActorShape, Busy, Billing
  <2>4. t # u
    BY <1>0, <2>3
  <2>5. ~HasBill(p, t) /\ ~HasBill(p, t)'
    BY <1>0, <2>2 DEF HasBill, Billing, ActorTypes
  <2>6. \/ /\ status' = [status EXCEPT ![u] = after[p].status]
           /\ \E way : bill' = [bill EXCEPT ![u] = way]
        \/ UNCHANGED <<status, bill>>
    BY <1>2, <2>3 DEF SaveSuno
  <2>7. OwnStatus(t)' = OwnStatus(t) /\ bill'[t] = bill[t]
    BY <1>0, <2>1, <2>4, <2>6 DEF RowTypes, MoneyTypes, OwnStatus
  <2>. QED  BY <1>0, <2>1, <2>5, <2>7, KeepByActor
<1>. QED  BY <1>1, <1>2

\* What a bulk update does to the tasks.
LEMMA BulkOutcome ==
    ASSUME PollInv, NEW p \in Pollers, NEW c \in Channels, BulkFail(p, c), NEW t \in Plain
    PROVE  /\ OwnStatus(t)' = OwnStatus(t)
           /\ status[t] # "none" => status'[t] # "none"
           /\ before'[t] # "none" => status'[t] = "FAILURE"
<1>0. RowTypes /\ WorldTypes /\ t \in Tasks /\ ReadInv(t)
  BY TypeParts DEF PollInv, TypeInv, Plain
<1>1. PICK S \in SUBSET Tasks :
         /\ \A u \in S : seen[p][u] # "none"
         /\ \/ /\ status' = [u \in Tasks |-> IF u \in S THEN "FAILURE" ELSE status[u]]
               /\ before' = [u \in Tasks |-> IF u \in S THEN OwnStatus(u) ELSE before[u]]
            \/ UNCHANGED <<status, before>>
  <2>1. {u \in Tasks : seen[p][u] # "none" /\ ChannelOf[u] = c} \in SUBSET Tasks
    OBVIOUS
  <2>. QED  BY <2>1 DEF BulkFail
<1>2. CASE UNCHANGED <<status, before>>
  BY <1>0, <1>2 DEF OwnStatus, ReadInv
<1>3. CASE /\ status' = [u \in Tasks |-> IF u \in S THEN "FAILURE" ELSE status[u]]
           /\ before' = [u \in Tasks |-> IF u \in S THEN OwnStatus(u) ELSE before[u]]
  <2>1. CASE t \in S
    <3>1. status[t] # "none" /\ OwnStatus(t) # "none"
      BY <1>0, <1>1, <2>1 DEF ReadInv, OwnStatus
    <3>2. status'[t] = "FAILURE" /\ before'[t] = OwnStatus(t)
      BY <1>0, <1>3, <2>1
    <3>. QED  BY <3>1, <3>2 DEF OwnStatus
  <2>2. CASE t \notin S
    <3>1. status'[t] = status[t] /\ before'[t] = before[t]
      BY <1>0, <1>3, <2>2
    <3>. QED  BY <1>0, <3>1 DEF OwnStatus, ReadInv
  <2>. QED  BY <2>1, <2>2
<1>. QED  BY <1>1, <1>2, <1>3

\* A bulk update bills nothing, and nobody.
LEMMA BulkMoney ==
    ASSUME PollInv, NEW p \in Pollers, NEW c \in Channels, BulkFail(p, c), NEW t \in Plain
    PROVE  PlainMoney(t)'
<1>0. p \in Actors /\ t \in Tasks /\ OthersStay(p) /\ UNCHANGED <<quota, money>>
  BY BulkFailStep DEF PollInv, Actors, Plain
<1>1. pc[p] = "poll" /\ UNCHANGED <<pc, job>>
  BY DEF BulkFail
<1>2. ~HasBill(p, t) /\ ~HasBill(p, t)'
  BY <1>1 DEF HasBill, Billing
<1>. QED  BY <1>0, <1>2, BulkOutcome, KeepByActor DEF money

\* A crash in the middle of a billing marks the task it was about.
LEMMA CrashMoney ==
    ASSUME PollInv, NEW p \in Pollers, Crash(p), NEW t \in Plain
    PROVE  PlainMoney(t)'
<1>0. /\ TypeInv /\ p \in Actors /\ t \in Tasks /\ OthersStay(p)
      /\ UNCHANGED <<row, before, funding, tokenQuota, bill>> /\ pc'[p] = "idle"
      /\ OwnStatus(t)' = OwnStatus(t)
      /\ pc[p] \in Billing => tainted' = tainted \cup {job[p]}
      /\ pc[p] \notin Billing => tainted' = tainted
      /\ MoneyInv(t)
  BY CrashStep DEF PollInv, PlainMoney, Actors, Plain, OwnStatus, row
<1>1. ~HasBill(p, t)'
  BY <1>0 DEF HasBill, Billing
<1>2. CASE HasBill(p, t)
  <2>1. t \in tainted'
    BY <1>0, <1>2 DEF HasBill
  <2>2. MoneyInv(t)'
    BY <1>0, <2>1 DEF MoneyInv, Charged, row
  <2>. QED  BY <1>0, <1>1, <1>2, <2>2, OwnMoney
<1>3. CASE ~HasBill(p, t)
  <2>1. t \in tainted' <=> t \in tainted
    BY <1>0, <1>3 DEF HasBill
  <2>. QED  BY <1>0, <1>1, <1>3, <2>1, KeepByActor DEF row
<1>. QED  BY <1>2, <1>3

\* A new row, or a charge without one.
LEMMA SubmitMoney ==
    ASSUME PollInv, NEW u \in Tasks, Submit(u), NEW t \in Plain
    PROVE  PlainMoney(t)'
<1>0. /\ t \in Tasks /\ RowTypes /\ MoneyTypes /\ BillerInv(t) /\ MoneyInv(t)
      /\ UNCHANGED <<before, actor, bill>> /\ status[u] = "none" /\ Quota \in Nat /\ ReadInv(t)
  BY TypeParts, QuotaAssumption DEF PollInv, TypeInv, PlainMoney, Plain, Submit
<1>1. \A p \in Pollers : HasBill(p, t)' <=> HasBill(p, t)
  BY <1>0 DEF HasBill, actor
<1>2. /\ funding' = [funding EXCEPT ![u] = Quota] /\ tokenQuota' = [tokenQuota EXCEPT ![u] = Quota]
      /\ \/ \E s \in Fresh(u) : /\ status' = [status EXCEPT ![u] = s]
                                /\ quota' = [quota EXCEPT ![u] = Quota] /\ UNCHANGED tainted
         \/ tainted' = tainted \cup {u} /\ UNCHANGED <<status, quota>>
  BY DEF Submit
<1>3. CASE t = u
  <2>0. before[t] = "none" /\ OwnStatus(t) = "none" /\ OwnStatus(t)' = status'[t]
    BY <1>0, <1>3 DEF ReadInv, OwnStatus
  <2>1. \A p \in Pollers : ~HasBill(p, t)
    BY <1>0, <2>0 DEF BillerInv, Biller
  <2>2. BillerInv(t)'
    BY <1>1, <2>1 DEF BillerInv
  <2>3. bill'[t] = "held" /\ funding'[t] = Quota /\ tokenQuota'[t] = Quota
    BY <1>0, <1>2, <1>3, <2>0 DEF MoneyInv, MoneyTypes
  <2>4. status'[t] = "none" \/ (status'[t] \notin Terminal /\ quota'[t] = Quota)
    BY <1>0, <1>2, <1>3 DEF RowTypes, Fresh, Terminal
  <2>5. MoneyInv(t)'
    BY <2>0, <2>3, <2>4 DEF MoneyInv, Charged, Ended, Terminal
  <2>. QED  BY <2>2, <2>5 DEF PlainMoney
<1>4. CASE t # u
  <2>1. /\ OwnStatus(t)' = OwnStatus(t) /\ quota'[t] = quota[t] /\ funding'[t] = funding[t]
        /\ tokenQuota'[t] = tokenQuota[t] /\ bill'[t] = bill[t]
        /\ (t \in tainted' <=> t \in tainted)
    BY <1>0, <1>2, <1>4 DEF RowTypes, MoneyTypes, OwnStatus
  <2>2. UNCHANGED <<pc, result, due, charge>>
    BY <1>0 DEF actor
  <2>. QED  BY <1>1, <2>1, <2>2, KeepMoney
<1>. QED  BY <1>3, <1>4

LEMMA QuietMoney ==
    ASSUME PollInv, NEW t \in Plain, UNCHANGED <<row, before, actor, money>>
    PROVE  PlainMoney(t)'
<1>1. /\ UNCHANGED <<quota, pc, charge, job, result, due, funding, tokenQuota, bill, tainted>>
      /\ OwnStatus(t)' = OwnStatus(t)
  BY DEF row, actor, money, OwnStatus
<1>2. \A p \in Pollers : HasBill(p, t)' <=> HasBill(p, t)
  BY <1>1 DEF HasBill
<1>. QED  BY <1>1, <1>2, KeepMoney

LEMMA MoneyStep ==
    ASSUME PollInv, [Next]_vars, NEW t \in Plain
    PROVE  PlainMoney(t)'
<1>0. Pollers \subseteq Actors /\ Viewers \subseteq Actors /\ TypeInv /\ Pollers \cap Viewers = {}
  BY ActorAssumption DEF Actors, PollInv
<1>1. ASSUME NEW a \in Actors, OthersStay(a), pc[a] \notin Busy, pc'[a] \notin Busy,
             UNCHANGED <<row, before, money>>
      PROVE  PlainMoney(t)'
  <2>1. ~HasBill(a, t) /\ ~HasBill(a, t)' /\ OwnStatus(t)' = OwnStatus(t)
    BY <1>1 DEF HasBill, Busy, OwnStatus, row
  <2>. QED  BY <1>1, <2>1, KeepByActor DEF row, money
<1>2. ASSUME NEW p \in Pollers, SweepScan(p) \/ SweepEnds(p) \/ PollScan(p) \/ PollEnds(p)
      PROVE  PlainMoney(t)'
  <2>1. OthersStay(p) /\ UNCHANGED <<row, before, money>> /\ pc \in [Actors -> PCs]
    BY <1>0, <1>2, ScanSteps DEF TypeInv, TypeOK
  <2>2. pc[p] \notin Busy /\ pc'[p] \notin Busy
    BY <1>0, <1>2, <2>1 DEF SweepScan, SweepEnds, PollScan, PollEnds, Read, Busy, Billing
  <2>. QED  BY <1>0, <1>1, <2>1, <2>2
<1>3. ASSUME NEW v \in Viewers, NEW u \in Tasks, ViewTask(v, u) PROVE PlainMoney(t)'
  <2>1. OthersStay(v) /\ UNCHANGED <<row, before, money>> /\ pc'[v] = "idle" /\ ActorShape(v)
    BY <1>0, <1>3, ViewStep DEF TypeInv, ActorInv
  <2>2. pc[v] \notin Busy /\ pc'[v] \notin Busy
    BY <1>0, <2>1 DEF ActorShape, Busy, Billing
  <2>. QED  BY <1>0, <1>1, <2>1, <2>2
<1>4. ASSUME (\E u \in Tasks : Age(u)) \/ (\E c \in Channels : DeleteChannel(c)) \/ UNCHANGED vars
      PROVE  PlainMoney(t)'
  BY <1>4, QuietMoney DEF Age, DeleteChannel, vars
<1>. QED
  BY <1>0, <1>2, <1>3, <1>4, NextCases, SubmitMoney, HandlingMoney, SunoMoney, BulkMoney,
     BillMoney, TokenMoney, QuotaMoney, CrashMoney

\* A plain task that is out of a poller's hands, or still read as it was.
LEMMA KeepRead ==
    ASSUME NEW t \in Plain, ReadInv(t),
           \A p \in Pollers : seen'[p][t] # "none" =>
               seen[p][t] # "none" /\ charge'[p][t] = charge[p][t],
           status[t] # "none" => status'[t] # "none",
           before'[t] # "none" => status'[t] = "FAILURE"
    PROVE  ReadInv(t)'
  BY DEF ReadInv

\* The quota a poller reads with an unfinished task is the one it was charged.
LEMMA ReadStep ==
    ASSUME PollInv, [Next]_vars, NEW t \in Plain
    PROVE  ReadInv(t)'
<1>0. /\ Pollers \subseteq Actors /\ Viewers \subseteq Actors /\ TypeInv /\ SeenInv
      /\ Pollers \cap Viewers = {} /\ t \in Tasks /\ ReadInv(t)
      /\ seen \in [Actors -> [Tasks -> Statuses]] /\ charge \in [Actors -> [Tasks -> Nat]]
      /\ status \in [Tasks -> Statuses]
  BY ActorAssumption DEF Actors, PollInv, TypeInv, TypeOK, Plain
<1>1. before[t] # "none" => status[t] = "FAILURE"
  BY <1>0 DEF ReadInv
<1>2. CASE UNCHANGED <<status, before, seen, charge>>
  BY <1>0, <1>1, <1>2, KeepRead
<1>3. ASSUME NEW p \in Pollers, SweepScan(p) \/ SweepEnds(p) \/ PollScan(p) \/ PollEnds(p)
      PROVE  ReadInv(t)'
  <2>0. PICK S \in SUBSET {u \in Tasks : Unfinished(u)} : \E where : Read(p, S, where)
    BY <1>0, <1>3, ScanReads
  <2>1. /\ seen' = [seen EXCEPT ![p] = [u \in Tasks |-> IF u \in S THEN status[u] ELSE "none"]]
        /\ charge' = [charge EXCEPT ![p] = [u \in Tasks |-> IF u \in S THEN quota[u] ELSE 0]]
        /\ UNCHANGED <<status, before>>
    BY <2>0 DEF Read, row
  <2>2. ASSUME t \in S PROVE status[t] # "none" /\ quota[t] = Quota
    <3>1. status[t] \notin Terminal \cup {"none"}
      BY <2>0, <2>2 DEF Unfinished
    <3>2. OwnStatus(t) = status[t]
      BY <1>1, <3>1 DEF OwnStatus, Terminal
    <3>. QED  BY <3>1, <3>2, UnfinishedIsCharged DEF Charged
  <2>3. ASSUME NEW q \in Pollers, seen'[q][t] # "none"
        PROVE  status[t] # "none" /\ charge'[q][t] = Quota
    <3>1. CASE q = p
      BY <1>0, <2>1, <2>2, <2>3, <3>1
    <3>2. CASE q # p
      BY <1>0, <2>1, <2>3, <3>2 DEF ReadInv
    <3>. QED  BY <3>1, <3>2
  <2>. QED  BY <1>1, <2>1, <2>3 DEF ReadInv
<1>4. ASSUME NEW v \in Viewers, NEW u \in Tasks, ViewTask(v, u) PROVE ReadInv(t)'
  <2>1. OthersStay(v) /\ UNCHANGED <<status, before>>
    BY <1>0, <1>4, ViewStep DEF row
  <2>2. \A p \in Pollers : seen'[p] = seen[p] /\ charge'[p] = charge[p]
    BY <1>0, <2>1 DEF OthersStay
  <2>. QED  BY <1>0, <1>1, <2>1, <2>2, KeepRead
<1>5. ASSUME NEW a \in Actors, NEW u \in Tasks,
             \/ a \in Pollers /\ (SweepTask(a, u) \/ PollUnanswered(a, u) \/ PollVideo(a, u))
             \/ a \in Viewers /\ TryRealtimeFetch(a, u)
      PROVE  ReadInv(t)'
  <2>1. /\ UNCHANGED <<before, charge>> /\ seen' = [seen EXCEPT ![a][u] = "none"]
        /\ seen[a][u] # "none"
    BY <1>5 DEF SweepTask, PollUnanswered, PollVideo, Polling, TryRealtimeFetch, Transition, Skip
  <2>2. \A p \in Pollers : seen'[p][t] # "none" => seen[p][t] # "none"
    BY <1>0, <2>1
  <2>3. CASE UNCHANGED status
    BY <1>0, <1>1, <2>1, <2>2, <2>3, KeepRead
  <2>4. CASE \E s \in Stored : status[u] = seen[a][u] /\ status' = [status EXCEPT ![u] = s]
    <3>1. CASE t = u
      <4>1. a \in Pollers
        BY <1>0, <1>5, <2>1, <3>1 DEF SeenInv, Plain
      <4>2. before[t] = "none" /\ status'[t] # "none"
        BY <1>0, <1>1, <2>4, <3>1, <4>1 DEF SeenInv, Terminal, Stored
      <4>. QED  BY <1>0, <2>1, <2>2, <4>2, KeepRead
    <3>2. CASE t # u
      BY <1>0, <1>1, <2>1, <2>2, <2>4, <3>2, KeepRead
    <3>. QED  BY <3>1, <3>2
  <2>5. \/ UNCHANGED status
        \/ \E s \in Stored : status[u] = seen[a][u] /\ status' = [status EXCEPT ![u] = s]
    <3>1. Skip(a, u) => UNCHANGED status
      BY DEF Skip, row
    <3>2. ASSUME NEW s \in Stored, NEW f, NEW next, NEW outcome,
                 Transition(a, u, s, f, next, outcome)
          PROVE  \/ UNCHANGED status
                 \/ status[u] = seen[a][u] /\ status' = [status EXCEPT ![u] = s]
      BY <3>1, <3>2 DEF Transition, StillAsSeen
    <3>3. "FAILURE" \in Stored /\ Terminal \cup {"IN_PROGRESS"} \subseteq Stored
          /\ \A r \in Reports : r.status \in Stored
      BY ReportAssumption DEF Stored, Statuses, Terminal
    <3>4. CASE SweepTask(a, u)
      BY <3>2, <3>3, <3>4 DEF SweepTask
    <3>5. CASE PollVideo(a, u)
      BY <3>2, <3>3, <3>5 DEF PollVideo
    <3>6. CASE TryRealtimeFetch(a, u)
      BY <3>1, <3>2, <3>3, <3>6 DEF TryRealtimeFetch
    <3>. QED  BY <1>5, <3>1, <3>4, <3>5, <3>6 DEF PollUnanswered
  <2>. QED  BY <2>3, <2>4, <2>5
<1>6. ASSUME NEW p \in Pollers, NEW u \in Tasks, PollSuno(p, u) PROVE ReadInv(t)'
  <2>1. UNCHANGED <<status, before, charge>> /\ seen' = [seen EXCEPT ![p][u] = "none"]
    BY <1>6 DEF PollSuno, row
  <2>. QED  BY <1>0, <1>1, <2>1, KeepRead
<1>7. ASSUME NEW p \in Pollers, NEW c \in Channels, BulkFail(p, c) PROVE ReadInv(t)'
  <2>1. /\ status[t] # "none" => status'[t] # "none"
        /\ before'[t] # "none" => status'[t] = "FAILURE"
    BY <1>7, BulkOutcome
  <2>2. PICK S : /\ UNCHANGED charge
                 /\ seen' = [seen EXCEPT ![p] =
                               [u \in Tasks |-> IF u \in S THEN "none" ELSE seen[p][u]]]
    BY <1>7 DEF BulkFail
  <2>3. \A q \in Pollers : seen'[q][t] # "none" => seen[q][t] # "none"
    BY <1>0, <2>2
  <2>. QED  BY <1>0, <2>1, <2>2, <2>3, KeepRead
<1>8. ASSUME NEW p \in Pollers,
             SettleTask(p) \/ RefundTaskQuota(p) \/ AdjustToken(p) \/ UpdateQuota(p)
      PROVE  UNCHANGED <<status, before, seen, charge>>
  BY <1>8 DEF SettleTask, RefundTaskQuota, AdjustToken, UpdateQuota, AdjustFunding, Leave, row
<1>9. ASSUME NEW p \in Pollers, SaveSuno(p) PROVE ReadInv(t)'
  <2>1. PICK u \in Tasks : u = job[p] /\ Platform[u] = "suno"
    BY <1>0, <1>9 DEF SaveSuno, TypeInv, ActorInv, ActorShape, Busy, Billing
  <2>2. /\ UNCHANGED <<before, seen, charge>>
        /\ UNCHANGED status \/ status' = [status EXCEPT ![u] = after[p].status]
    BY <1>9, <2>1 DEF SaveSuno
  <2>3. status'[t] = status[t]
    BY <1>0, <2>1, <2>2 DEF Plain
  <2>. QED  BY <1>0, <1>1, <2>2, <2>3, KeepRead
<1>10. ASSUME NEW p \in Pollers, Crash(p) PROVE ReadInv(t)'
  <2>1. OthersStay(p) /\ UNCHANGED <<status, before>> /\ seen'[p] = Nothing
    BY <1>0, <1>10, CrashStep DEF row
  <2>2. \A q \in Pollers : q # p => seen'[q] = seen[q] /\ charge'[q] = charge[q]
    BY <1>0, <2>1 DEF OthersStay
  <2>3. seen'[p][t] = "none"
    BY <1>0, <2>1 DEF Nothing
  <2>. QED  BY <1>0, <1>1, <2>1, <2>2, <2>3, KeepRead
<1>11. ASSUME NEW u \in Tasks, Submit(u) PROVE ReadInv(t)'
  <2>1. /\ UNCHANGED <<before, seen, charge>> /\ status[u] = "none"
        /\ UNCHANGED status \/ \E s \in Fresh(u) : status' = [status EXCEPT ![u] = s]
    BY <1>11 DEF Submit, actor
  <2>2. "none" \notin Fresh(u)
    BY DEF Fresh
  <2>3. CASE t = u
    BY <1>0, <1>1, <2>1, <2>2, <2>3, KeepRead
  <2>4. CASE t # u
    BY <1>0, <1>1, <2>1, <2>4, KeepRead
  <2>. QED  BY <2>3, <2>4
<1>12. CASE (\E u \in Tasks : Age(u)) \/ (\E c \in Channels : DeleteChannel(c)) \/ UNCHANGED vars
  BY <1>2, <1>12 DEF Age, DeleteChannel, vars, row, actor
<1>. QED
  BY <1>0, <1>2, <1>3, <1>4, <1>5, <1>6, <1>7, <1>8, <1>9, <1>10, <1>11, <1>12, NextCases

LEMMA PollInit == Init => PollInv
<1>. SUFFICES ASSUME Init PROVE PollInv
  OBVIOUS
<1>1. SeenInv
  BY DEF Init, SeenInv, Nothing, Terminal, Actors
<1>2. ASSUME NEW t \in Plain PROVE PlainMoney(t) /\ ReadInv(t)
  <2>1. \A p \in Pollers : ~HasBill(p, t)
    BY DEF Init, HasBill, Billing, Actors
  <2>2. /\ t \in Tasks /\ OwnStatus(t) = "none" /\ bill[t] = "held" /\ funding[t] = 0
        /\ tokenQuota[t] = 0
    BY DEF Init, Nothing, Plain, OwnStatus
  <2>3. MoneyInv(t)
    BY <2>2 DEF MoneyInv, Ended, Terminal
  <2>4. ReadInv(t)
    BY <2>2 DEF Init, ReadInv, Nothing, Actors
  <2>. QED  BY <2>1, <2>3, <2>4 DEF PlainMoney, BillerInv
<1>. QED  BY <1>1, <1>2, TypeInit DEF PollInv

LEMMA PollStep == PollInv /\ [Next]_vars => PollInv'
<1>. SUFFICES ASSUME PollInv, [Next]_vars PROVE PollInv'
  OBVIOUS
<1>1. TypeInv' /\ SeenInv'
  BY TypeStep, SeenStep DEF PollInv
<1>2. \A t \in Plain : PlainMoney(t)' /\ ReadInv(t)'
  BY MoneyStep, ReadStep
<1>. QED  BY <1>1, <1>2 DEF PollInv

\* The clauses of TaskMoneyExact for one task.
MoneyExactOf(t) ==
    /\ (Ended(t) /\ t \notin tainted /\ ~InBilling(t)) =>
          /\ bill[t] # "held" /\ tokenQuota[t] = funding[t]
          /\ funding[t] = IF bill[t] = "refunded" THEN 0 ELSE quota[t]
    /\ funding[t] >= 0 /\ tokenQuota[t] >= 0
    /\ bill[t] = "held" => funding[t] \in {0, Quota} /\ tokenQuota[t] = funding[t]
    /\ bill[t] = "settled" => OwnStatus(t) = "SUCCESS"
    /\ bill[t] \in {"refunded", "kept"} => OwnStatus(t) = "FAILURE" /\ ~Unfinished(t)
    /\ before[t] \notin Terminal \cup {"none"} => status[t] = "FAILURE" /\ bill[t] = "held"

LEMMA PlainMoneyIsExact ==
    ASSUME PollInv, NEW t \in Plain PROVE MoneyExactOf(t)
<1>1. MoneyInv(t) /\ ReadInv(t) /\ bill[t] \in Bills /\ Quota \in Nat
  BY QuotaAssumption DEF PollInv, PlainMoney, TypeInv, TypeOK, Plain
<1>2. funding[t] >= 0 /\ tokenQuota[t] >= 0
  BY <1>1 DEF MoneyInv, Charged, Bills
<1>3. bill[t] = "held" => funding[t] \in {0, Quota} /\ tokenQuota[t] = funding[t]
  BY <1>1 DEF MoneyInv, Charged
<1>4. bill[t] \in {"refunded", "kept"} => OwnStatus(t) = "FAILURE" /\ ~Unfinished(t)
  BY <1>1 DEF MoneyInv, ReadInv, OwnStatus, Unfinished, Terminal
<1>5. before[t] \notin Terminal \cup {"none"} => status[t] = "FAILURE" /\ bill[t] = "held"
  <2>. SUFFICES ASSUME before[t] \notin Terminal \cup {"none"}
                PROVE  status[t] = "FAILURE" /\ bill[t] = "held"
    OBVIOUS
  <2>1. status[t] = "FAILURE" /\ OwnStatus(t) = before[t]
    BY <1>1 DEF ReadInv, OwnStatus
  <2>. QED  BY <2>1, UnfinishedIsCharged
<1>. QED  BY <1>1, <1>2, <1>3, <1>4, <1>5 DEF MoneyExactOf, MoneyInv, Settled

\* Whatever else is in the table (songs, tasks a viewer writes to), however many
\* masters poll, whichever of their statements fail and whichever channels are
\* deleted or not found: a video task no viewer writes to is billed once, in the
\* way its end calls for, and when its billing is over the wallet, the token and
\* the quota column agree.  A bulk failure never changes this: what it hits
\* unfinished shows FAILURE and stays charged in full for good, what had ended
\* is billed as it had ended, whatever its row says now.
THEOREM PollingPlainTaskMoneyExact == Spec => [](\A t \in Plain : MoneyExactOf(t))
<1>1. PollInv => \A t \in Plain : MoneyExactOf(t)
  BY PlainMoneyIsExact
<1>. QED  BY <1>1, PollInit, PollStep, PTL DEF Spec

\* Where all tasks are such tasks, this is TaskMoneyExact, for any number of
\* tasks and masters, any page sizes, answers and costs.
THEOREM PollingMoneyExact ==
    ASSUME Plain = Tasks PROVE Spec => []TaskMoneyExact
<1>1. PollInv => TaskMoneyExact
  <2>. SUFFICES ASSUME PollInv PROVE TaskMoneyExact
    OBVIOUS
  <2>1. \A t \in Tasks : MoneyExactOf(t)
    BY PlainMoneyIsExact
  <2>2. EndIsBilled /\ BilledOnce
    BY <2>1 DEF MoneyExactOf, EndIsBilled, BilledOnce
  <2>. QED  BY <2>1, <2>2 DEF MoneyExactOf, TaskMoneyExact
<1>. QED  BY <1>1, PollInit, PollStep, PTL DEF Spec

-----------------------------------------------------------------------------
(* The contract of the table, task by task *)

Out(t) == IF Ended(t) \/ OwnStatus(t) = "none" THEN OwnStatus(t) ELSE "pending"

LedgerSame(t) == Out(t)' = Out(t) /\ bill'[t] = bill[t]

\* A step of TaskLedger for t.
LedgerMove(t) ==
    \/ Out(t) = "none" /\ Out(t)' = "pending" /\ bill'[t] = bill[t]
    \/ Out(t) = "pending" /\ Out(t)' \in Terminal /\ bill'[t] = bill[t]
    \/ /\ Out(t)' = Out(t) /\ bill[t] = "held"
       /\ \/ Out(t) = "SUCCESS" /\ bill'[t] = "settled"
          \/ Out(t) = "FAILURE" /\ bill'[t] \in {"refunded", "kept"}

LedgerStep ==
    \/ \A t \in Plain : LedgerSame(t)
    \/ \E u \in Plain : LedgerMove(u) /\ \A t \in Plain \ {u} : LedgerSame(t)

\* The compare-and-swap of a plain task ends a pending one.
LEMMA TransitionLedger ==
    ASSUME PollInv, NEW a \in Actors, NEW u \in Tasks, NEW s \in Stored,
           NEW f, NEW next, NEW outcome, Transition(a, u, s, f, next, outcome),
           seen[a][u] # "none", u \in Plain => seen[a][u] \notin Terminal, UNCHANGED <<before, bill>>
    PROVE  LedgerStep
<1>0. status \in [Tasks -> Statuses]
  BY DEF PollInv, TypeInv, TypeOK
<1>1. CASE UNCHANGED status
  BY <1>1 DEF LedgerStep, LedgerSame, Out, Ended, OwnStatus
<1>2. CASE status[u] = seen[a][u] /\ status' = [status EXCEPT ![u] = s]
  <2>1. status'[u] = s /\ \A t \in Tasks : t # u => status'[t] = status[t]
    BY <1>0, <1>2
  <2>2. \A t \in Plain \ {u} : LedgerSame(t)
    BY <2>1 DEF LedgerSame, Out, Ended, OwnStatus, Plain
  <2>3. u \in Plain => LedgerSame(u) \/ LedgerMove(u)
    <3>. SUFFICES ASSUME u \in Plain PROVE LedgerSame(u) \/ LedgerMove(u)
      OBVIOUS
    <3>1. s # "none" /\ status[u] \notin Terminal \cup {"none"} /\ ReadInv(u)
      BY <1>2 DEF Stored, PollInv
    <3>2. before[u] = "none" /\ OwnStatus(u) = status[u] /\ OwnStatus(u)' = s
      BY <2>1, <3>1 DEF ReadInv, OwnStatus, Terminal
    <3>3. Out(u) = "pending" /\ Out(u)' = IF s \in Terminal THEN s ELSE "pending"
      BY <3>1, <3>2 DEF Out, Ended
    <3>. QED  BY <3>3 DEF LedgerSame, LedgerMove
  <2>. QED  BY <2>2, <2>3 DEF LedgerStep
<1>. QED  BY <1>1, <1>2 DEF Transition, Skip, StillAsSeen, row

\* What a billing step does to the bill of its task.
LEMMA BillLedger ==
    ASSUME PollInv, NEW p \in Pollers, SettleTask(p) \/ RefundTaskQuota(p)
    PROVE  LedgerStep
<1>0. p \in Actors /\ ActorShape(p) /\ bill \in [Tasks -> Bills] /\ Plain \subseteq Tasks
  BY DEF PollInv, TypeInv, TypeOK, ActorInv, Actors, Plain
<1>1. pc[p] = "bill" /\ UNCHANGED <<status, before>>
  BY DEF SettleTask, RefundTaskQuota, row
<1>2. PICK u \in Tasks : u = job[p]
  BY <1>0, <1>1 DEF ActorShape, Busy, Billing
<1>3. u \in Plain => /\ bill[u] = "held"
                     /\ OwnStatus(u) = IF result[p] = "SUCCESS" THEN "SUCCESS" ELSE "FAILURE"
  BY <1>1, <1>2 DEF PollInv, PlainMoney, BillerInv, Biller, HasBill, Billing
<1>4. \A t \in Tasks : Out(t)' = Out(t)
  BY <1>1 DEF Out, Ended, OwnStatus
<1>5. \/ UNCHANGED bill
      \/ /\ result[p] = "SUCCESS" /\ bill' = [bill EXCEPT ![u] = "settled"]
      \/ /\ result[p] # "SUCCESS" /\ bill' = [bill EXCEPT ![u] = "refunded"]
      \/ /\ result[p] # "SUCCESS"
         /\ bill' = [bill EXCEPT ![u] = IF bill[u] = "held" THEN "kept" ELSE bill[u]]
  BY <1>2 DEF SettleTask, RefundTaskQuota, AdjustFunding
<1>6. CASE UNCHANGED bill
  BY <1>0, <1>4, <1>6 DEF LedgerStep, LedgerSame
<1>7. ASSUME NEW way, bill' = [bill EXCEPT ![u] = way],
             u \in Plain => way \in IF result[p] = "SUCCESS" THEN {"settled"}
                                    ELSE {"refunded", "kept"}
      PROVE  LedgerStep
  <2>1. \A t \in Plain \ {u} : LedgerSame(t)
    BY <1>0, <1>4, <1>7 DEF LedgerSame
  <2>2. u \in Plain => LedgerMove(u)
    BY <1>0, <1>3, <1>4, <1>7 DEF LedgerMove, Out, Ended, Terminal
  <2>. QED  BY <2>1, <2>2 DEF LedgerStep
<1>. QED  BY <1>3, <1>5, <1>6, <1>7

LEMMA LedgerSteps ==
    ASSUME PollInv, [Next]_vars PROVE LedgerStep
<1>0. /\ Pollers \subseteq Actors /\ Viewers \subseteq Actors /\ TypeInv /\ SeenInv
      /\ Plain \subseteq Tasks /\ status \in [Tasks -> Statuses] /\ bill \in [Tasks -> Bills]
  BY DEF Actors, PollInv, TypeInv, TypeOK, Plain
<1>1. ASSUME UNCHANGED <<status, before, bill>> PROVE LedgerStep
  BY <1>1 DEF LedgerStep, LedgerSame, Out, Ended, OwnStatus
<1>2. ASSUME NEW u \in Tasks, Submit(u) PROVE LedgerStep
  <2>1. UNCHANGED <<before, bill>> /\ status[u] = "none"
        /\ (UNCHANGED status \/ \E s \in Fresh(u) : status' = [status EXCEPT ![u] = s])
    BY <1>2 DEF Submit
  <2>2. ASSUME NEW s \in Fresh(u), status' = [status EXCEPT ![u] = s] PROVE LedgerStep
    <3>1. s \notin Terminal \cup {"none"}
      BY DEF Fresh, Terminal
    <3>2. status'[u] = s /\ \A t \in Tasks : t # u => status'[t] = status[t]
      BY <1>0, <2>2
    <3>3. \A t \in Plain \ {u} : LedgerSame(t)
      BY <1>0, <2>1, <3>2 DEF LedgerSame, Out, Ended, OwnStatus
    <3>4. u \in Plain => LedgerMove(u)
      <4>. SUFFICES ASSUME u \in Plain PROVE LedgerMove(u)
        OBVIOUS
      <4>1. before[u] = "none"
        BY <2>1 DEF PollInv, ReadInv
      <4>. QED  BY <2>1, <3>1, <3>2, <4>1 DEF LedgerMove, Out, Ended, OwnStatus
    <3>. QED  BY <3>3, <3>4 DEF LedgerStep
  <2>. QED  BY <1>1, <2>1, <2>2
<1>3. ASSUME NEW a \in Actors, NEW u \in Tasks,
             \/ a \in Pollers /\ (SweepTask(a, u) \/ PollUnanswered(a, u) \/ PollVideo(a, u))
             \/ a \in Viewers /\ TryRealtimeFetch(a, u)
      PROVE  LedgerStep
  <2>1. UNCHANGED <<before, bill>> /\ seen[a][u] # "none"
    BY <1>3 DEF SweepTask, PollUnanswered, PollVideo, Polling, TryRealtimeFetch, money
  <2>2. CASE Skip(a, u)
    BY <1>1, <2>1, <2>2 DEF Skip, row
  <2>3. u \in Plain => seen[a][u] \notin Terminal
    BY <1>0, <1>3, <2>1 DEF SeenInv, Plain
  <2>4. CASE ~Skip(a, u)
    <3>1. \E s \in Stored : \E f, next, outcome : Transition(a, u, s, f, next, outcome)
      <4>1. CASE SweepTask(a, u)
        <5>1. "FAILURE" \in Stored
          BY DEF Stored, Statuses
        <5>. QED  BY <4>1, <5>1 DEF SweepTask
      <4>2. CASE PollVideo(a, u)
        <5>1. \A r \in Reports : r.status \in Stored
          BY ReportAssumption
        <5>. QED  BY <4>2, <5>1 DEF PollVideo
      <4>3. CASE TryRealtimeFetch(a, u)
        <5>1. Terminal \cup {"IN_PROGRESS"} \subseteq Stored
          BY DEF Terminal, Stored, Statuses
        <5>. QED  BY <2>4, <4>3, <5>1 DEF TryRealtimeFetch
      <4>. QED  BY <1>3, <2>4, <4>1, <4>2, <4>3 DEF PollUnanswered
    <3>. QED  BY <2>1, <2>3, <3>1, TransitionLedger
  <2>. QED  BY <2>2, <2>4
<1>4. ASSUME NEW p \in Pollers, NEW c \in Channels, BulkFail(p, c) PROVE LedgerStep
  <2>1. UNCHANGED bill
    BY <1>4 DEF BulkFail, money
  <2>. QED  BY <1>4, <2>1, BulkOutcome DEF LedgerStep, LedgerSame, Out, Ended
<1>5. ASSUME NEW p \in Pollers, SaveSuno(p) PROVE LedgerStep
  <2>1. PICK u \in Tasks : u = job[p] /\ Platform[u] = "suno"
    BY <1>0, <1>5 DEF SaveSuno, TypeInv, ActorInv, ActorShape, Busy, Billing
  <2>2. \/ /\ status' = [status EXCEPT ![u] = after[p].status]
           /\ \E way : bill' = [bill EXCEPT ![u] = way]
        \/ UNCHANGED <<status, bill>>
    BY <1>5, <2>1 DEF SaveSuno
  <2>3. \A t \in Plain : status'[t] = status[t] /\ bill'[t] = bill[t] /\ before'[t] = before[t]
    BY <1>0, <1>5, <2>1, <2>2 DEF Plain, SaveSuno
  <2>. QED  BY <2>3 DEF LedgerStep, LedgerSame, Out, Ended, OwnStatus
<1>6. ASSUME \/ \E t \in Tasks : Age(t)
             \/ \E c \in Channels : DeleteChannel(c)
             \/ \E p \in Pollers :
                  \/ SweepScan(p) \/ SweepEnds(p) \/ PollScan(p) \/ PollEnds(p)
                  \/ \E t \in Tasks : PollSuno(p, t)
                  \/ AdjustToken(p) \/ UpdateQuota(p) \/ Crash(p)
             \/ \E v \in Viewers, t \in Tasks : ViewTask(v, t)
             \/ UNCHANGED vars
      PROVE  UNCHANGED <<status, before, bill>>
  BY <1>6 DEF Age, DeleteChannel, SweepScan, SweepEnds, PollScan, PollEnds, Read, PollSuno,
              AdjustToken, UpdateQuota, Crash, ViewTask, vars, row, money
<1>. QED  BY <1>0, <1>1, <1>2, <1>3, <1>4, <1>5, <1>6, BillLedger, NextCases

\* The ledger of the plain tasks alone.
PlainLedger == INSTANCE TaskLedger WITH
    Tasks <- Plain,
    outcome <- [t \in Plain |-> Out(t)],
    bill <- [t \in Plain |-> bill[t]]

\* The polling keeps the contract of the table for the plain tasks, whatever
\* else is in it, and bulk failures apart: such a task ends once, in SUCCESS or
\* FAILURE, and its charge is dealt with at most once, after its end and as its
\* end calls for.  A task that a bulk failure hit before its end never ends or
\* is billed afterwards, although other masters still hold it.
THEOREM PollingPlainTasksKeepContract == Spec => PlainLedger!Spec
<1>. DEFINE o == [t \in Plain |-> Out(t)]
            b == [t \in Plain |-> bill[t]]
<1>1. Init => PlainLedger!Init
  BY DEF Init, PlainLedger!Init, Nothing, Out, Ended, OwnStatus, Plain
<1>2. PollInv /\ [Next]_vars => [PlainLedger!Next]_PlainLedger!vars
  <2>. SUFFICES ASSUME PollInv, [Next]_vars PROVE [PlainLedger!Next]_PlainLedger!vars
    OBVIOUS
  <2>0. LedgerStep
    BY LedgerSteps
  <2>1. CASE \A t \in Plain : LedgerSame(t)
    BY <2>1 DEF LedgerSame, PlainLedger!vars
  <2>2. ASSUME NEW u \in Plain, LedgerMove(u), \A t \in Plain \ {u} : LedgerSame(t)
        PROVE  PlainLedger!Next
    <3>1. o' = [o EXCEPT ![u] = Out(u)'] /\ b' = [b EXCEPT ![u] = bill'[u]]
      BY <2>2 DEF LedgerSame
    <3>2. o[u] = Out(u) /\ b[u] = bill[u]
      OBVIOUS
    <3>3. CASE Out(u) = "none" /\ Out(u)' = "pending" /\ bill'[u] = bill[u]
      <4>1. PlainLedger!Submit(u)
        BY <3>1, <3>2, <3>3 DEF PlainLedger!Submit
      <4>. QED  BY <4>1 DEF PlainLedger!Next
    <3>4. CASE Out(u) = "pending" /\ Out(u)' \in Terminal /\ bill'[u] = bill[u]
      <4>1. PICK r \in Terminal : Out(u)' = r
        BY <3>4
      <4>2. PlainLedger!End(u, r)
        BY <3>1, <3>2, <3>4, <4>1 DEF PlainLedger!End
      <4>. QED  BY <4>2 DEF PlainLedger!Next, Terminal
    <3>5. CASE /\ Out(u)' = Out(u) /\ bill[u] = "held"
               /\ \/ Out(u) = "SUCCESS" /\ bill'[u] = "settled"
                  \/ Out(u) = "FAILURE" /\ bill'[u] \in {"refunded", "kept"}
      <4>1. bill'[u] \in PlainLedger!Ways(Out(u))
        BY <3>5 DEF PlainLedger!Ways
      <4>2. PlainLedger!Bill(u)
        BY <3>1, <3>2, <3>5, <4>1 DEF PlainLedger!Bill
      <4>. QED  BY <4>2 DEF PlainLedger!Next
    <3>. QED  BY <2>2, <3>3, <3>4, <3>5 DEF LedgerMove
  <2>. QED  BY <2>0, <2>1, <2>2 DEF LedgerStep
<1>. QED  BY <1>1, <1>2, PollInit, PollStep, PTL DEF Spec, PlainLedger!Spec

\* Where all tasks are plain, the polling implements the whole ledger.
THEOREM PollingImplementsLedger ==
    ASSUME Plain = Tasks PROVE Spec => ImplementsLedger
<1>. DEFINE o == [t \in Tasks |-> IF Ended(t) \/ OwnStatus(t) = "none" THEN OwnStatus(t)
                                  ELSE "pending"]
<1>1. Init => Ledger!Init
  BY DEF Init, Ledger!Init, Nothing, Ended, OwnStatus
<1>2. PollInv /\ [Next]_vars => [Ledger!Next]_Ledger!vars
  <2>. SUFFICES ASSUME PollInv, [Next]_vars PROVE [Ledger!Next]_Ledger!vars
    OBVIOUS
  <2>0. bill \in [Tasks -> Bills] /\ bill' \in [Tasks -> Bills] /\ LedgerStep
    BY LedgerSteps, PollStep DEF PollInv, TypeInv, TypeOK
  <2>1. o = [t \in Tasks |-> Out(t)] /\ o' = [t \in Tasks |-> Out(t)']
    BY DEF Out
  <2>2. CASE \A t \in Plain : LedgerSame(t)
    <3>1. o' = o /\ bill' = bill
      BY <2>0, <2>1, <2>2 DEF LedgerSame
    <3>. QED  BY <3>1 DEF Ledger!vars
  <2>3. ASSUME NEW u \in Plain, LedgerMove(u), \A t \in Plain \ {u} : LedgerSame(t)
        PROVE  Ledger!Next
    <3>0. u \in Tasks /\ \A t \in Tasks : t # u => Out(t)' = Out(t) /\ bill'[t] = bill[t]
      BY <2>3 DEF LedgerSame
    <3>1. o' = [o EXCEPT ![u] = Out(u)'] /\ bill' = [bill EXCEPT ![u] = bill'[u]]
      <4>1. o' = [o EXCEPT ![u] = Out(u)']
        BY <3>0 DEF Out
      <4>2. bill' = [bill EXCEPT ![u] = bill'[u]]
        BY <2>0, <3>0
      <4>. QED  BY <4>1, <4>2
    <3>2. o[u] = Out(u)
      BY <2>1, <3>0
    <3>3. CASE Out(u) = "none" /\ Out(u)' = "pending" /\ bill'[u] = bill[u]
      <4>1. Ledger!Submit(u)
        BY <2>0, <3>1, <3>2, <3>3 DEF Ledger!Submit
      <4>. QED  BY <4>1 DEF Ledger!Next
    <3>4. CASE Out(u) = "pending" /\ Out(u)' \in Terminal /\ bill'[u] = bill[u]
      <4>1. PICK r \in Terminal : Out(u)' = r
        BY <3>4
      <4>2. Ledger!End(u, r)
        BY <2>0, <3>1, <3>2, <3>4, <4>1 DEF Ledger!End
      <4>. QED  BY <4>2 DEF Ledger!Next, Terminal
    <3>5. CASE /\ Out(u)' = Out(u) /\ bill[u] = "held"
               /\ \/ Out(u) = "SUCCESS" /\ bill'[u] = "settled"
                  \/ Out(u) = "FAILURE" /\ bill'[u] \in {"refunded", "kept"}
      <4>1. bill'[u] \in Ledger!Ways(Out(u))
        BY <3>5 DEF Ledger!Ways
      <4>2. Ledger!Bill(u)
        BY <3>1, <3>2, <3>5, <4>1 DEF Ledger!Bill
      <4>. QED  BY <4>2 DEF Ledger!Next
    <3>. QED  BY <2>3, <3>3, <3>4, <3>5 DEF LedgerMove
  <2>. QED  BY <2>0, <2>2, <2>3 DEF LedgerStep
<1>. QED  BY <1>1, <1>2, PollInit, PollStep, PTL DEF Spec, ImplementsLedger, Ledger!Spec

-----------------------------------------------------------------------------
(***************************************************************************)
(* The two ledgers of every task, Suno tasks, viewed tasks and tasks of    *)
(* lost channels included.  The token is behind by the sum of what the     *)
(* pollers have still to move; a step changes the share of one poller.     *)
(* Only Submit asks for more: nobody is at work on a task without a row,   *)
(* which takes that rows never go away (RowsStay).                         *)
(***************************************************************************)

Present(t) == status[t] # "none"

RowsStay == \A t \in Tasks : Present(t) => Present(t)'

\* What an actor has read, bills or is going to save has a row, and keeps it.
ActorPresent(a) ==
    /\ pc[a] \in Busy => Present(job[a])
    /\ \A t \in Tasks : seen[a][t] # "none" => Present(t)
    /\ after[a] # NoSave => after[a].status # "none"

PresentInv == \A a \in Actors : ActorPresent(a)

\* What p has still to take from the token of t.
Share(p, t) == IF pc[p] = "token" /\ job[p] = t THEN due[p] ELSE 0

ShareOf(t) == [p \in Pollers |-> Share(p, t)]

Owing(t) == {p \in Pollers : pc[p] = "token" /\ job[p] = t}

\* How far the token of t is behind.
Lag(t) == Sum(ShareOf(t), Pollers)

Agree(t) == t \notin tainted => funding[t] - tokenQuota[t] = Lag(t)

AgreeInv == TypeInv /\ PresentInv /\ \A t \in Tasks : Agree(t)

LEMMA ShareType ==
    ASSUME TypeInv, NEW p \in Pollers, NEW t \in Tasks PROVE Share(p, t) \in Int
  BY DEF TypeInv, TypeOK, Share, Actors

LEMMA ShareTypeNext ==
    ASSUME TypeInv', NEW p \in Pollers, NEW t \in Tasks PROVE Share(p, t)' \in Int
  BY DEF TypeInv, TypeOK, Share, Actors

LEMMA LagIs ==
    ASSUME TypeInv, NEW t \in Tasks
    PROVE  Lag(t) = MapThenSumSet(LAMBDA p : due[p], {p \in Pollers : pc[p] = "token" /\ job[p] = t})
<1>1. \A p \in Pollers : ShareOf(t)[p] = Share(p, t) /\ ShareOf(t)[p] \in Int
  BY ShareType DEF ShareOf
<1>2. Owing(t) \in SUBSET Pollers /\ IsFiniteSet(Owing(t)) /\ IsFiniteSet(Pollers)
  BY ActorAssumption, FS_Subset DEF Owing
<1>3. \A p \in Pollers \ Owing(t) : ShareOf(t)[p] = 0
  BY <1>1 DEF Owing, Share
<1>4. Sum(ShareOf(t), Pollers) = Sum(ShareOf(t), Owing(t))
  BY <1>1, <1>2, <1>3, SumOfNonzero
<1>5. \A p \in Owing(t) : ShareOf(t)[p] = due[p]
  BY <1>1 DEF Owing, Share
<1>6. Sum(ShareOf(t), Owing(t)) = Sum(due, Owing(t))
  BY <1>2, <1>5, SumAgrees
<1>. QED  BY <1>4, <1>6 DEF Lag, Sum, Owing

LEMMA AgreeIsEnough == AgreeInv => LedgersAgree
  BY LagIs DEF AgreeInv, Agree, LedgersAgree

LEMMA LagType == ASSUME TypeInv, NEW t \in Tasks PROVE Lag(t) \in Int
<1>1. \A p \in Pollers : ShareOf(t)[p] \in Int
  BY ShareType DEF ShareOf
<1>. QED  BY <1>1, SumType, ActorAssumption DEF Lag

\* Only p changes its share.
LEMMA LagMoves ==
    ASSUME TypeInv, TypeInv', NEW p \in Pollers, OthersStay(p), NEW t \in Tasks
    PROVE  Lag(t)' = Lag(t) - Share(p, t) + Share(p, t)'
<1>1. \A q \in Pollers : ShareOf(t)[q] = Share(q, t) /\ ShareOf(t)'[q] = Share(q, t)'
  BY DEF ShareOf
<1>2. \A q \in Pollers : ShareOf(t)[q] \in Int /\ ShareOf(t)'[q] \in Int
  BY <1>1, ShareType, ShareTypeNext
<1>3. \A q \in Pollers \ {p} : ShareOf(t)'[q] = ShareOf(t)[q]
  BY <1>1 DEF Share, OthersStay, Actors
<1>4. Sum(ShareOf(t)', Pollers) = Sum(ShareOf(t), Pollers) - ShareOf(t)[p] + ShareOf(t)'[p]
  BY <1>2, <1>3, SumChange, ActorAssumption
<1>. QED  BY <1>1, <1>4 DEF Lag

\* Nobody does.
LEMMA LagStays ==
    ASSUME \A p \in Pollers : pc'[p] = pc[p] /\ job'[p] = job[p] /\ due'[p] = due[p],
           NEW t \in Tasks
    PROVE  Lag(t)' = Lag(t)
<1>1. ShareOf(t)' = ShareOf(t)
  BY DEF ShareOf, Share
<1>. QED  BY <1>1 DEF Lag

\* A step of p moves the ledgers of t by as much as it changes what p owes.
LEMMA AgreeMoves ==
    ASSUME AgreeInv, TypeInv', NEW p \in Pollers, OthersStay(p), NEW t \in Tasks,
           t \notin tainted' =>
              /\ t \notin tainted
              /\ funding'[t] - tokenQuota'[t] - Share(p, t)'
                     = funding[t] - tokenQuota[t] - Share(p, t)
    PROVE  Agree(t)'
<1>1. Lag(t)' = Lag(t) - Share(p, t) + Share(p, t)'
  BY LagMoves DEF AgreeInv
<1>2. Lag(t) \in Int /\ Share(p, t) \in Int /\ Share(p, t)' \in Int
  BY LagType, ShareType, ShareTypeNext DEF AgreeInv
<1>3. /\ funding[t] \in Int /\ tokenQuota[t] \in Int
      /\ funding'[t] \in Int /\ tokenQuota'[t] \in Int
  BY DEF AgreeInv, TypeInv, TypeOK
<1>4. t \notin tainted => funding[t] - tokenQuota[t] = Lag(t)
  BY DEF AgreeInv, Agree
<1>. QED  BY <1>1, <1>2, <1>3, <1>4 DEF Agree

LEMMA AgreeStays ==
    ASSUME AgreeInv, UNCHANGED <<funding, tokenQuota, tainted>>, NEW t \in Tasks,
           \A p \in Pollers : pc'[p] = pc[p] /\ job'[p] = job[p] /\ due'[p] = due[p]
    PROVE  Agree(t)'
  BY LagStays DEF AgreeInv, Agree

\* Steps of p outside the billing: it owes nothing before or after.
LEMMA AgreeOutside ==
    ASSUME AgreeInv, TypeInv', NEW p \in Pollers, OthersStay(p),
           UNCHANGED <<funding, tokenQuota>>, tainted \subseteq tainted',
           pc[p] # "token", pc'[p] # "token"
    PROVE  \A t \in Tasks : Agree(t)'
<1>1. \A t \in Tasks : Share(p, t) = 0 /\ Share(p, t)' = 0
  BY DEF Share
<1>. QED  BY <1>1, AgreeMoves

LEMMA PresentMoves ==
    ASSUME AgreeInv, NEW a \in Actors, OthersStay(a), RowsStay, ActorPresent(a)'
    PROVE  PresentInv'
<1>1. ASSUME NEW b \in Actors, b # a PROVE ActorPresent(b)'
  <2>1. ActorPresent(b) /\ (pc[b] \in Busy => job[b] \in Tasks)
    BY DEF AgreeInv, PresentInv, TypeInv, ActorInv, ActorShape
  <2>2. pc'[b] = pc[b] /\ job'[b] = job[b] /\ seen'[b] = seen[b] /\ after'[b] = after[b]
    BY <1>1 DEF OthersStay
  <2>. QED  BY <2>1, <2>2 DEF ActorPresent, RowsStay, Present
<1>. QED  BY <1>1 DEF PresentInv

\* The rows stay and no actor moves.
LEMMA PresentStays ==
    ASSUME AgreeInv, RowsStay, UNCHANGED actor PROVE PresentInv'
<1>1. ASSUME NEW a \in Actors PROVE ActorPresent(a)'
  <2>1. ActorPresent(a) /\ (pc[a] \in Busy => job[a] \in Tasks)
    BY DEF AgreeInv, PresentInv, TypeInv, ActorInv, ActorShape
  <2>. QED  BY <2>1 DEF ActorPresent, RowsStay, Present, actor
<1>. QED  BY <1>1 DEF PresentInv

LEMMA RowsUnchanged == ASSUME UNCHANGED status PROVE RowsStay
  BY DEF RowsStay, Present

\* A read takes the rows there are.
LEMMA ReadAgree ==
    ASSUME AgreeInv, TypeInv', NEW a \in Actors, OthersStay(a), NEW S, NEW where \in PCs \ Busy,
           Read(a, S, where)
    PROVE  PresentInv'
<1>0. seen \in [Actors -> [Tasks -> Statuses]] /\ pc \in [Actors -> PCs] /\ ActorShape(a)'
  BY DEF AgreeInv, TypeInv, TypeOK, ActorInv
<1>1. /\ pc'[a] = where /\ UNCHANGED status
      /\ seen'[a] = [t \in Tasks |-> IF t \in S THEN status[t] ELSE "none"]
  BY <1>0 DEF Read, row
<1>2. after'[a] = NoSave
  BY <1>0, <1>1 DEF ActorShape
<1>3. ActorPresent(a)'
  BY <1>1, <1>2 DEF ActorPresent, Present
<1>. QED  BY <1>1, <1>3, RowsUnchanged, PresentMoves

LEMMA ScanAgree ==
    ASSUME AgreeInv, NEW p \in Pollers,
           SweepScan(p) \/ SweepEnds(p) \/ PollScan(p) \/ PollEnds(p)
    PROVE  AgreeInv'
<1>0. p \in Actors /\ TypeInv' /\ OthersStay(p) /\ UNCHANGED <<row, money>>
  BY ScanSteps DEF AgreeInv, Actors
<1>1. PICK S : \E where \in PCs \ Busy : Read(p, S, where)
  BY DEF SweepScan, SweepEnds, PollScan, PollEnds, PCs, Busy, Billing
<1>2. PresentInv'
  BY <1>0, <1>1, ReadAgree
<1>3. pc[p] # "token" /\ pc'[p] # "token"
  <2>1. pc \in [Actors -> PCs]
    BY DEF AgreeInv, TypeInv, TypeOK
  <2>2. pc'[p] \notin Busy
    BY <1>0, <1>1, <2>1 DEF Read
  <2>. QED  BY <2>2 DEF SweepScan, SweepEnds, PollScan, PollEnds, Busy, Billing
<1>4. \A t \in Tasks : Agree(t)'
  BY <1>0, <1>3, AgreeOutside DEF money
<1>. QED  BY <1>0, <1>2, <1>4 DEF AgreeInv

\* A viewer is no poller: it owes nothing.
LEMMA ViewerAgree ==
    ASSUME AgreeInv, NEW v \in Viewers, OthersStay(v), UNCHANGED money
    PROVE  \A t \in Tasks : Agree(t)'
<1>1. \A p \in Pollers : p \in Actors /\ p # v
  BY ActorAssumption DEF Actors
<1>2. \A p \in Pollers : pc'[p] = pc[p] /\ job'[p] = job[p] /\ due'[p] = due[p]
  BY <1>1 DEF OthersStay
<1>. QED  BY <1>2, AgreeStays DEF money

LEMMA ViewAgree ==
    ASSUME AgreeInv, NEW v \in Viewers, NEW t \in Tasks, ViewTask(v, t)
    PROVE  AgreeInv'
<1>0. v \in Actors /\ TypeInv' /\ OthersStay(v) /\ UNCHANGED <<row, money>>
  BY ViewStep DEF AgreeInv, Actors
<1>1. Read(v, {t}, "idle") /\ "idle" \in PCs \ Busy
  BY DEF ViewTask, PCs, Busy, Billing
<1>2. PresentInv'
  BY <1>0, <1>1, ReadAgree
<1>. QED  BY <1>0, <1>2, ViewerAgree DEF AgreeInv

\* UpdateWithStatus, won or lost, writes a status.
LEMMA TransitionPresent ==
    ASSUME AgreeInv, TypeInv', NEW a \in Actors, OthersStay(a), NEW t \in Tasks,
           NEW s \in Stored, NEW f, NEW next \in {"bill", "poll", "idle"}, NEW outcome,
           Skip(a, t) \/ Transition(a, t, s, f, next, outcome)
    PROVE  PresentInv' /\ pc'[a] \in {pc[a], next}
<1>0. /\ status \in [Tasks -> Statuses] /\ pc \in [Actors -> PCs] /\ ActorPresent(a)
      /\ seen \in [Actors -> [Tasks -> Statuses]] /\ job \in [Actors -> Tasks \cup {NoTask}]
  BY DEF AgreeInv, TypeInv, TypeOK, PresentInv
<1>1. \A u \in Tasks : seen'[a][u] # "none" => seen[a][u] # "none"
  BY <1>0 DEF Transition, Skip
<1>2. after' = after
  BY DEF Transition, Skip
<1>3. CASE Skip(a, t)
  <2>1. UNCHANGED <<status, pc, job>>
    BY <1>3 DEF Skip, row
  <2>2. ActorPresent(a)'
    BY <1>0, <1>1, <1>2, <2>1 DEF ActorPresent, Present
  <2>. QED  BY <2>1, <2>2, RowsUnchanged, PresentMoves
<1>4. CASE ~Skip(a, t)
  <2>1. /\ status' = [status EXCEPT ![t] = s] /\ pc' = [pc EXCEPT ![a] = next]
        /\ job' = [job EXCEPT ![a] = IF next = "bill" THEN t ELSE NoTask]
    BY <1>4 DEF Transition
  <2>2. RowsStay /\ Present(t)'
    BY <1>0, <2>1 DEF RowsStay, Present, Stored
  <2>3. pc'[a] = next /\ (next = "bill" => job'[a] = t)
    BY <1>0, <2>1
  <2>4. ActorPresent(a)'
    BY <1>0, <1>1, <1>2, <2>2, <2>3 DEF ActorPresent, RowsStay, Present, Busy, Billing
  <2>. QED  BY <2>2, <2>3, <2>4, PresentMoves
<1>. QED  BY <1>3, <1>4

LEMMA HandlingAgree ==
    ASSUME AgreeInv, NEW a \in Actors, NEW t \in Tasks,
           \/ a \in Pollers /\ (SweepTask(a, t) \/ PollUnanswered(a, t) \/ PollVideo(a, t))
           \/ a \in Viewers /\ TryRealtimeFetch(a, t)
    PROVE  AgreeInv'
<1>0. TypeInv' /\ OthersStay(a) /\ UNCHANGED money
  BY HandlingSteps DEF AgreeInv
<1>1. PICK s \in Stored, next \in {"bill", "poll", "idle"} :
         Skip(a, t) \/ \E f, outcome : Transition(a, t, s, f, next, outcome)
  <2>1. CASE SweepTask(a, t)
    BY <2>1 DEF SweepTask, Stored, Statuses
  <2>2. CASE PollUnanswered(a, t)
    BY <2>2 DEF PollUnanswered, Stored, Statuses
  <2>3. CASE PollVideo(a, t)
    <3>1. \A r \in Reports : r.status \in Stored
      BY ReportAssumption
    <3>. QED  BY <2>3, <3>1 DEF PollVideo
  <2>4. CASE TryRealtimeFetch(a, t)
    BY <2>4 DEF TryRealtimeFetch, Terminal, Stored, Statuses
  <2>. QED  BY <2>1, <2>2, <2>3, <2>4
<1>2. PresentInv' /\ pc'[a] \in {pc[a], next}
  BY <1>0, <1>1, TransitionPresent
<1>3. CASE a \in Viewers
  BY <1>0, <1>2, <1>3, ViewerAgree DEF AgreeInv
<1>4. CASE a \in Pollers
  <2>1. pc[a] # "token"
    BY <1>4, ActorAssumption DEF SweepTask, PollUnanswered, PollVideo, Polling
  <2>. QED  BY <1>0, <1>2, <1>4, <2>1, AgreeOutside DEF AgreeInv, money
<1>. QED  BY <1>3, <1>4

LEMMA SunoAgree ==
    ASSUME AgreeInv, NEW p \in Pollers, NEW t \in Tasks, PollSuno(p, t)
    PROVE  AgreeInv'
<1>0. TypeInv' /\ OthersStay(p) /\ UNCHANGED <<row, money>> /\ p \in Actors
  BY PollSunoStep DEF AgreeInv, Actors
<1>1. /\ pc \in [Actors -> PCs] /\ after \in [Actors -> [status : Statuses, full : BOOLEAN]]
      /\ seen \in [Actors -> [Tasks -> Statuses]] /\ job \in [Actors -> Tasks \cup {NoTask}]
      /\ ActorPresent(p)
  BY <1>0 DEF AgreeInv, TypeInv, TypeOK, PresentInv
<1>2. PICK r \in Reports :
         /\ after' = [after EXCEPT ![p] = SunoSaved(r)]
         /\ pc' = [pc EXCEPT ![p] = IF SunoFailed(r) THEN "bill" ELSE "save"]
  BY DEF PollSuno
<1>3. /\ job' = [job EXCEPT ![p] = t] /\ seen' = [seen EXCEPT ![p][t] = "none"]
      /\ pc[p] = "poll" /\ seen[p][t] # "none"
  BY DEF PollSuno, Polling
<1>4. after'[p].status # "none"
  <2>1. r.status \in Stored /\ SunoSaved(r).status = r.status
    BY ReportAssumption DEF SunoSaved
  <2>2. after'[p] = SunoSaved(r)
    BY <1>0, <1>1, <1>2
  <2>. QED  BY <2>1, <2>2 DEF Stored
<1>5. /\ pc'[p] \in {"bill", "save"} /\ job'[p] = t /\ Present(t)
      /\ \A u \in Tasks : seen'[p][u] # "none" => seen[p][u] # "none"
  BY <1>0, <1>1, <1>2, <1>3 DEF ActorPresent
<1>6. RowsStay /\ UNCHANGED status
  BY <1>0, RowsUnchanged DEF row
<1>7. ActorPresent(p)'
  BY <1>1, <1>4, <1>5, <1>6 DEF ActorPresent, Present
<1>8. PresentInv'
  BY <1>0, <1>6, <1>7, PresentMoves
<1>9. \A u \in Tasks : Agree(u)'
  BY <1>0, <1>3, <1>5, AgreeOutside DEF money
<1>. QED  BY <1>0, <1>8, <1>9 DEF AgreeInv

LEMMA BulkAgree ==
    ASSUME AgreeInv, NEW p \in Pollers, NEW c \in Channels, BulkFail(p, c)
    PROVE  AgreeInv'
<1>0. TypeInv' /\ OthersStay(p) /\ UNCHANGED <<quota, money>> /\ p \in Actors
  BY BulkFailStep DEF AgreeInv, Actors
<1>1. /\ UNCHANGED <<pc, job, after>> /\ pc[p] = "poll"
      /\ seen \in [Actors -> [Tasks -> Statuses]] /\ ActorPresent(p)
  BY <1>0 DEF BulkFail, AgreeInv, TypeInv, TypeOK, PresentInv
<1>2. RowsStay
  BY DEF BulkFail, RowsStay, Present
<1>3. \A u \in Tasks : seen'[p][u] # "none" => seen[p][u] # "none"
  BY <1>0, <1>1 DEF BulkFail
<1>4. ActorPresent(p)'
  BY <1>1, <1>2, <1>3 DEF ActorPresent, RowsStay, Present, Busy, Billing
<1>5. PresentInv'
  BY <1>0, <1>2, <1>4, PresentMoves
<1>6. \A u \in Tasks : Agree(u)'
  BY <1>0, <1>1, AgreeOutside DEF money
<1>. QED  BY <1>0, <1>5, <1>6 DEF AgreeInv

\* A step of the billing or the save of p's task leaves the rows, and p on the
\* task for as long as it is busy.
LEMMA OwnPresent ==
    ASSUME AgreeInv, NEW p \in Pollers, OthersStay(p), RowsStay, pc[p] \in Busy, UNCHANGED seen,
           pc'[p] \in Busy => job'[p] = job[p],
           after'[p] \in {after[p], NoSave}
    PROVE  PresentInv'
<1>0. p \in Actors
  BY DEF Actors
<1>1. ActorPresent(p) /\ job[p] \in Tasks
  BY <1>0 DEF AgreeInv, PresentInv, TypeInv, ActorInv, ActorShape
<1>2. ActorPresent(p)'
  BY <1>1 DEF ActorPresent, RowsStay, Present
<1>. QED  BY <1>0, <1>2, PresentMoves

LEMMA LeaveGoes ==
    ASSUME AgreeInv, NEW p \in Pollers, Leave(p)
    PROVE  /\ pc'[p] \in {"sweep", "poll", "save"} /\ UNCHANGED <<seen, after>>
           /\ pc'[p] \in Busy => job'[p] = job[p]
<1>0. p \in Actors /\ pc \in [Actors -> PCs]
  BY DEF AgreeInv, TypeInv, TypeOK, Actors
<1>. QED  BY <1>0 DEF Leave, Busy, Billing

LEMMA BillAgree ==
    ASSUME AgreeInv, NEW p \in Pollers, SettleTask(p) \/ RefundTaskQuota(p)
    PROVE  AgreeInv'
<1>0. TypeInv' /\ OthersStay(p) /\ UNCHANGED <<row, tokenQuota>> /\ p \in Actors
  BY BillSteps DEF AgreeInv, Actors
<1>1. /\ pc[p] = "bill" /\ job[p] \in Tasks /\ pc \in [Actors -> PCs] /\ due \in [Actors -> Int]
      /\ funding \in [Tasks -> Int] /\ tokenQuota \in [Tasks -> Int]
  BY <1>0 DEF SettleTask, RefundTaskQuota, AgreeInv, TypeInv, TypeOK, ActorInv, ActorShape,
     Busy, Billing
<1>2. \/ Leave(p) /\ UNCHANGED funding /\ tainted \subseteq tainted'
      \/ \E delta \in Int :
            /\ funding' = [funding EXCEPT ![job[p]] = @ + delta]
            /\ due' = [due EXCEPT ![p] = delta] /\ pc' = [pc EXCEPT ![p] = "token"]
            /\ UNCHANGED <<seen, job, after, tainted>>
  <2>0. TaskQuota(p) \in Nat
    BY <1>0, <1>1 DEF AgreeInv, TypeInv, TypeOK, TaskQuota
  <2>1. \A actual \in Actuals : actual - TaskQuota(p) \in Int
    BY <2>0, QuotaAssumption
  <2>2. -TaskQuota(p) \in Int
    BY <2>0
  <2>3. ASSUME NEW delta \in Int, NEW way, AdjustFunding(p, delta, way)
        PROVE  \/ Leave(p) /\ UNCHANGED funding /\ tainted \subseteq tainted'
               \/ /\ funding' = [funding EXCEPT ![job[p]] = @ + delta]
                  /\ due' = [due EXCEPT ![p] = delta] /\ pc' = [pc EXCEPT ![p] = "token"]
                  /\ UNCHANGED <<seen, job, after, tainted>>
    BY <2>3 DEF AdjustFunding
  <2>4. CASE SettleTask(p)
    BY <2>1, <2>3, <2>4 DEF SettleTask
  <2>5. CASE RefundTaskQuota(p)
    BY <2>2, <2>3, <2>5 DEF RefundTaskQuota
  <2>. QED  BY <2>4, <2>5
<1>3. CASE Leave(p) /\ UNCHANGED funding /\ tainted \subseteq tainted'
  <2>1. PresentInv'
    BY <1>0, <1>1, <1>3, LeaveGoes, RowsUnchanged, OwnPresent DEF row, Busy, Billing
  <2>2. \A t \in Tasks : Agree(t)'
    BY <1>0, <1>1, <1>3, LeaveGoes, AgreeOutside
  <2>. QED  BY <1>0, <2>1, <2>2 DEF AgreeInv
<1>4. ASSUME NEW delta \in Int,
             funding' = [funding EXCEPT ![job[p]] = @ + delta],
             due' = [due EXCEPT ![p] = delta], pc' = [pc EXCEPT ![p] = "token"],
             UNCHANGED <<seen, job, after, tainted>>
      PROVE  AgreeInv'
  <2>1. PresentInv'
    BY <1>0, <1>1, <1>4, RowsUnchanged, OwnPresent DEF row, Busy, Billing
  <2>2. ASSUME NEW t \in Tasks PROVE Agree(t)'
    <3>1. pc'[p] = "token" /\ due'[p] = delta
      BY <1>0, <1>1, <1>4
    <3>2. Share(p, t) = 0 /\ Share(p, t)' = IF job[p] = t THEN delta ELSE 0
      BY <1>1, <1>4, <3>1 DEF Share
    <3>3. funding'[t] = funding[t] + (IF job[p] = t THEN delta ELSE 0)
      BY <1>1, <1>4
    <3>4. funding'[t] - tokenQuota'[t] - Share(p, t)' = funding[t] - tokenQuota[t] - Share(p, t)
      BY <1>0, <1>1, <3>2, <3>3
    <3>. QED  BY <1>0, <1>4, <3>4, AgreeMoves
  <2>. QED  BY <1>0, <2>1, <2>2 DEF AgreeInv
<1>. QED  BY <1>2, <1>3, <1>4

LEMMA TokenAgree ==
    ASSUME AgreeInv, NEW p \in Pollers, AdjustToken(p)
    PROVE  AgreeInv'
<1>0. TypeInv' /\ OthersStay(p) /\ UNCHANGED <<row, funding>> /\ p \in Actors
  BY TokenStep DEF AgreeInv, Actors
<1>1. /\ pc[p] = "token" /\ job[p] \in Tasks /\ pc \in [Actors -> PCs] /\ due[p] \in Int
      /\ funding \in [Tasks -> Int] /\ tokenQuota \in [Tasks -> Int]
  BY <1>0 DEF AdjustToken, AgreeInv, TypeInv, TypeOK, ActorInv, ActorShape, Busy, Billing
<1>2. /\ pc'[p] # "token" /\ UNCHANGED <<seen, after>>
      /\ pc'[p] \in Busy => job'[p] = job[p]
  <2>1. CASE Leave(p)
    BY <2>1, LeaveGoes
  <2>2. CASE pc' = [pc EXCEPT ![p] = "quota"] /\ UNCHANGED <<seen, job, after>>
    BY <1>0, <1>1, <2>2
  <2>. QED  BY <2>1, <2>2 DEF AdjustToken
<1>3. PresentInv'
  BY <1>0, <1>1, <1>2, RowsUnchanged, OwnPresent DEF row, Busy, Billing
<1>4. ASSUME NEW t \in Tasks PROVE Agree(t)'
  <2>1. Share(p, t) = (IF job[p] = t THEN due[p] ELSE 0) /\ Share(p, t)' = 0
    BY <1>1, <1>2 DEF Share
  <2>2. \/ tainted' = tainted /\ tokenQuota'[t] = tokenQuota[t] + (IF job[p] = t THEN due[p] ELSE 0)
        \/ tainted' = tainted \cup {job[p]} /\ tokenQuota'[t] = tokenQuota[t]
    BY <1>1 DEF AdjustToken, TokenMoved
  <2>3. t \notin tainted' =>
           /\ t \notin tainted
           /\ funding'[t] - tokenQuota'[t] - Share(p, t)' = funding[t] - tokenQuota[t] - Share(p, t)
    BY <1>0, <1>1, <2>1, <2>2
  <2>. QED  BY <1>0, <2>3, AgreeMoves
<1>. QED  BY <1>0, <1>3, <1>4 DEF AgreeInv

\* The last steps: the quota column, and the save of a Suno row.
LEMMA LastAgree ==
    ASSUME AgreeInv, NEW p \in Pollers, UpdateQuota(p) \/ SaveSuno(p)
    PROVE  AgreeInv'
<1>0. TypeInv' /\ OthersStay(p) /\ UNCHANGED <<funding, tokenQuota>> /\ p \in Actors
  BY QuotaStep, SaveStep DEF AgreeInv, Actors
<1>1. /\ pc[p] \in {"quota", "save"} /\ pc \in [Actors -> PCs] /\ ActorShape(p) /\ ActorPresent(p)
      /\ after \in [Actors -> [status : Statuses, full : BOOLEAN]]
      /\ status \in [Tasks -> Statuses]
  BY <1>0 DEF UpdateQuota, SaveSuno, AgreeInv, TypeInv, TypeOK, ActorInv, PresentInv
<1>2. /\ pc'[p] # "token" /\ tainted \subseteq tainted' /\ UNCHANGED seen
      /\ pc'[p] \in Busy => job'[p] = job[p]
      /\ after'[p] \in {after[p], NoSave}
  <2>1. CASE UpdateQuota(p)
    BY <2>1, LeaveGoes DEF UpdateQuota
  <2>2. CASE SaveSuno(p)
    BY <1>0, <1>1, <2>2 DEF SaveSuno, Busy, Billing
  <2>. QED  BY <2>1, <2>2
<1>3. RowsStay
  <2>1. CASE UpdateQuota(p)
    BY <2>1, RowsUnchanged DEF UpdateQuota
  <2>2. CASE SaveSuno(p)
    <3>1. after[p].status # "none" /\ job[p] \in Tasks
      BY <1>1, <2>2 DEF SaveSuno, ActorShape, ActorPresent, Busy, Billing
    <3>2. UNCHANGED status \/ status' = [status EXCEPT ![job[p]] = after[p].status]
      BY <2>2 DEF SaveSuno
    <3>. QED  BY <1>1, <3>1, <3>2 DEF RowsStay, Present
  <2>. QED  BY <2>1, <2>2
<1>4. PresentInv'
  BY <1>0, <1>1, <1>2, <1>3, OwnPresent DEF Busy, Billing
<1>5. \A t \in Tasks : Agree(t)'
  BY <1>0, <1>1, <1>2, AgreeOutside
<1>. QED  BY <1>0, <1>4, <1>5 DEF AgreeInv

\* A death between the two ledgers taints the task.
LEMMA CrashAgree ==
    ASSUME AgreeInv, NEW p \in Pollers, Crash(p)
    PROVE  AgreeInv'
<1>0. /\ TypeInv' /\ OthersStay(p) /\ UNCHANGED <<row, funding, tokenQuota>> /\ p \in Actors
      /\ pc'[p] = "idle" /\ seen'[p] = Nothing
      /\ pc[p] \in Billing => tainted' = tainted \cup {job[p]}
      /\ pc[p] \notin Billing => tainted' = tainted
  BY CrashStep DEF AgreeInv, Actors
<1>1. after'[p] = NoSave
  BY <1>0 DEF TypeInv, ActorInv, ActorShape, Busy, Billing
<1>2. ActorPresent(p)'
  BY <1>0, <1>1 DEF ActorPresent, Nothing, Busy, Billing
<1>3. PresentInv'
  BY <1>0, <1>2, RowsUnchanged, PresentMoves DEF row
<1>4. ASSUME NEW t \in Tasks PROVE Agree(t)'
  <2>1. t \notin tainted' => t \notin tainted /\ Share(p, t) = 0 /\ Share(p, t)' = 0
    BY <1>0 DEF Share, Billing
  <2>. QED  BY <1>0, <2>1, AgreeMoves
<1>. QED  BY <1>0, <1>3, <1>4 DEF AgreeInv

\* A task is charged on both ledgers when it is submitted; nobody owes its
\* token anything yet, because it had no row.
LEMMA SubmitAgree ==
    ASSUME AgreeInv, NEW t \in Tasks, Submit(t)
    PROVE  AgreeInv'
<1>01. UNCHANGED actor /\ status[t] = "none" /\ Quota \in Int
  BY QuotaAssumption DEF Submit
<1>02. TypeInv'
  BY SubmitType DEF AgreeInv
<1>0. TypeInv' /\ UNCHANGED actor /\ status[t] = "none" /\ Quota \in Int
  BY <1>01, <1>02
<1>1. RowsStay
  BY <1>0 DEF Submit, RowsStay, Present, AgreeInv, TypeInv, TypeOK
<1>2. PresentInv'
  BY <1>0, <1>1, PresentStays
<1>3. \A p \in Pollers : pc'[p] = pc[p] /\ job'[p] = job[p] /\ due'[p] = due[p]
  BY <1>0 DEF actor
<1>4. Lag(t) = 0
  <2>1. \A p \in Pollers : Share(p, t) = 0
    <3>1. \A p \in Pollers : p \in Actors /\ ActorPresent(p)
      BY DEF AgreeInv, PresentInv, Actors
    <3>. QED  BY <1>0, <3>1 DEF ActorPresent, Present, Share, Busy, Billing
  <2>2. \A p \in Pollers : ShareOf(t)[p] = 0
    BY <2>1 DEF ShareOf
  <2>3. {} \in SUBSET Pollers /\ \A p \in Pollers : ShareOf(t)[p] \in Int
    BY <2>2
  <2>4. Sum(ShareOf(t), Pollers) = Sum(ShareOf(t), {})
    BY <2>2, <2>3, SumOfNonzero, ActorAssumption
  <2>. QED  BY <2>4, SumEmpty DEF Lag
<1>5. ASSUME NEW u \in Tasks PROVE Agree(u)'
  <2>1. /\ funding \in [Tasks -> Int] /\ tokenQuota \in [Tasks -> Int]
        /\ funding' = [funding EXCEPT ![t] = Quota]
        /\ tokenQuota' = [tokenQuota EXCEPT ![t] = Quota]
        /\ tainted \subseteq tainted'
    BY DEF Submit, AgreeInv, TypeInv, TypeOK
  <2>2. Lag(u)' = Lag(u)
    BY <1>3, LagStays
  <2>3. CASE u = t
    <3>1. funding'[t] - tokenQuota'[t] = 0
      BY <1>0, <2>1
    <3>. QED  BY <1>4, <2>2, <2>3, <3>1 DEF Agree
  <2>4. CASE u # t
    BY <2>1, <2>2, <2>4 DEF AgreeInv, Agree
  <2>. QED  BY <2>3, <2>4
<1>. QED  BY <1>0, <1>2, <1>5 DEF AgreeInv

LEMMA QuietAgree ==
    ASSUME AgreeInv, TypeInv', UNCHANGED <<row, actor, money>> PROVE AgreeInv'
<1>1. PresentInv'
  BY RowsUnchanged, PresentStays DEF row
<1>2. \A p \in Pollers : pc'[p] = pc[p] /\ job'[p] = job[p] /\ due'[p] = due[p]
  BY DEF actor
<1>3. \A t \in Tasks : Agree(t)'
  BY <1>2, AgreeStays DEF money
<1>. QED  BY <1>1, <1>3 DEF AgreeInv

LEMMA AgreeInit == Init => AgreeInv
<1>. SUFFICES ASSUME Init PROVE AgreeInv
  OBVIOUS
<1>1. TypeInv
  BY TypeInit
<1>2. ASSUME NEW a \in Actors PROVE ActorPresent(a)
  <2>1. pc[a] = "idle" /\ after[a] = NoSave /\ seen[a] = Nothing
    BY DEF Init
  <2>. QED  BY <2>1 DEF ActorPresent, Nothing, Busy, Billing
<1>3. ASSUME NEW t \in Tasks PROVE Agree(t)
  <2>1. \A p \in Pollers : ShareOf(t)[p] = 0
    BY DEF Init, ShareOf, Share, Actors
  <2>2. {} \in SUBSET Pollers /\ \A p \in Pollers : ShareOf(t)[p] \in Int
    BY <2>1
  <2>3. Sum(ShareOf(t), Pollers) = Sum(ShareOf(t), {})
    BY <2>1, <2>2, SumOfNonzero, ActorAssumption
  <2>4. Lag(t) = 0
    BY <2>3, SumEmpty DEF Lag
  <2>. QED  BY <2>4 DEF Init, Agree
<1>. QED  BY <1>1, <1>2, <1>3 DEF AgreeInv, PresentInv

LEMMA AgreeStep == AgreeInv /\ [Next]_vars => AgreeInv'
<1>. SUFFICES ASSUME AgreeInv, [Next]_vars PROVE AgreeInv'
  OBVIOUS
<1>0. TypeInv' /\ Pollers \subseteq Actors /\ Viewers \subseteq Actors
  BY TypeStep DEF AgreeInv, Actors
<1>1. CASE \/ \E t \in Tasks : Age(t)
           \/ \E c \in Channels : DeleteChannel(c)
           \/ UNCHANGED vars
  BY <1>0, <1>1, QuietAgree DEF Age, DeleteChannel, vars
<1>. QED
  BY <1>0, <1>1, NextCases, SubmitAgree, ScanAgree, HandlingAgree, SunoAgree, BulkAgree,
     BillAgree, TokenAgree, LastAgree, CrashAgree, ViewAgree

\* The wallet and the token of a task agree: for any number of pollers that end
\* and bill it, once or, as a Suno task, several times, the token is behind the
\* wallet by exactly what the billing in progress has still to move.
THEOREM PollingLedgersAgree == Spec => []LedgersAgree
  BY AgreeInit, AgreeStep, AgreeIsEnough, PTL DEF Spec
=============================================================================
