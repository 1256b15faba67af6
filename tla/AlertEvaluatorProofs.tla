------------------------ MODULE AlertEvaluatorProofs ------------------------
(***************************************************************************)
(* Proofs about AlertEvaluator for every set of rules and handlers.        *)
(***************************************************************************)
EXTENDS AlertEvaluator, TLAPS

HandlerState == [pc : {"idle", "next", "lock", "decide", "create", "relock", "store"},
                 todo : SUBSET Rules, over : SUBSET Rules,
                 rule : Rules \cup {0}, at : 0 .. MaxTime]

LEMMA TypeInit == Init => TypeOK
<1> SUFFICES ASSUME Init PROVE TypeOK
  OBVIOUS
<1>1. Idle \in HandlerState
  BY EvaluatorAssumption DEF Idle, HandlerState
<1>2. /\ breached \in [Rules -> 0 .. MaxTime] /\ firing \in [Rules -> 0 .. MaxRows]
      /\ openRow \in [Rules -> 0 .. MaxRows] /\ inside \in [Rules -> 0 .. MaxTime]
      /\ now \in 1 .. MaxTime /\ lastRow \in 0 .. MaxRows /\ late = {} /\ upset = {}
  BY EvaluatorAssumption DEF Init
<1>3. hdl \in [Handlers -> HandlerState] /\ \A h \in Handlers : hdl[h].pc = "idle"
  BY <1>1 DEF Init, Idle
<1> QED
  BY <1>2, <1>3 DEF Init, TypeOK, HandlerState

(* A handler's record and its rule stay well typed when one step rewrites  *)
(* the record of one handler.                                              *)
LEMMA MoveHandler ==
  ASSUME TypeOK, NEW h \in Handlers,
         NEW s \in HandlerState, s.pc \notin {"idle", "next"} => s.rule \in Rules,
         hdl' = [hdl EXCEPT ![h] = s]
  PROVE  /\ hdl' \in [Handlers -> HandlerState]
         /\ \A g \in Handlers : hdl'[g].pc \notin {"idle", "next"} => hdl'[g].rule \in Rules
BY DEF TypeOK, HandlerState

LEMMA GotoType ==
  ASSUME TypeOK, NEW h \in Handlers, NEW l \in {"next", "decide", "create", "relock", "store"},
         hdl[h].rule \in Rules, Goto(h, l)
  PROVE  /\ hdl' \in [Handlers -> HandlerState]
         /\ \A g \in Handlers : hdl'[g].pc \notin {"idle", "next"} => hdl'[g].rule \in Rules
<1>1. hdl[h] \in HandlerState
  BY DEF TypeOK, HandlerState
<1>2. [hdl[h] EXCEPT !.pc = l] \in HandlerState
  BY <1>1 DEF HandlerState
<1>3. [hdl[h] EXCEPT !.pc = l].rule \in Rules
  BY <1>1 DEF HandlerState
<1>4. hdl' = [hdl EXCEPT ![h] = [hdl[h] EXCEPT !.pc = l]]
  BY DEF Goto
<1> QED
  BY <1>2, <1>3, <1>4, MoveHandler

LEMMA HandlerStepType ==
  ASSUME TypeOK, NEW h \in Handlers, HandlerStep(h)
  PROVE  TypeOK'
<1> DEFINE Same == UNCHANGED <<now, breached, firing, openRow, lastRow, inside>>
           Mutex == locked' \in BOOLEAN /\ fatal' \in BOOLEAN
           Moved == /\ hdl' \in [Handlers -> HandlerState]
                    /\ \A g \in Handlers :
                         hdl'[g].pc \notin {"idle", "next"} => hdl'[g].rule \in Rules
<1>0. hdl[h] \in HandlerState /\ hdl[h].at \in 0 .. MaxTime /\ now \in 0 .. MaxTime
  BY EvaluatorAssumption DEF TypeOK, HandlerState
<1>1. CASE NextRule(h)
  <2>1. PICK r \in hdl[h].todo :
          hdl' = [hdl EXCEPT ![h].pc = "lock", ![h].todo = @ \ {r}, ![h].rule = r, ![h].at = now]
    BY <1>1 DEF NextRule
  <2> DEFINE s == [hdl[h] EXCEPT !.pc = "lock", !.todo = @ \ {r}, !.rule = r, !.at = now]
  <2>2. r \in Rules
    BY <1>0 DEF HandlerState
  <2>3. s \in HandlerState /\ s.rule \in Rules
    BY <1>0, <2>2 DEF HandlerState
  <2>4. hdl' = [hdl EXCEPT ![h] = s]
    BY <2>1 DEF TypeOK
  <2>5. Moved
    BY <2>3, <2>4, MoveHandler
  <2> QED
    BY <1>1, <2>5 DEF NextRule, history, TypeOK, HandlerState
<1>2. CASE Enter(h)
  <2>1. Moved
    BY <1>2, GotoType DEF Enter, history, TypeOK
  <2> QED
    BY <1>2, <2>1 DEF Enter, history, Lock, TypeOK, HandlerState
<1>3. CASE DecideBreach(h)
  <2>1. hdl[h].rule \in Rules
    BY <1>3 DEF DecideBreach, TypeOK
  <2>2. Moved
    BY <1>3, <2>1, GotoType DEF DecideBreach
  <2>3. BreachStart(h) \in 0 .. MaxTime
    BY <1>0, <2>1 DEF BreachStart, TypeOK
  <2>4. breached' \in [Rules -> 0 .. MaxTime]
    BY <1>3, <2>3 DEF DecideBreach, TypeOK
  <2>5. late' \subseteq Rules /\ UNCHANGED upset
    BY <1>3, <2>1 DEF DecideBreach, Late, TypeOK
  <2> QED
    BY <1>3, <2>2, <2>4, <2>5 DEF DecideBreach, Unlock, TypeOK, HandlerState
<1>4. CASE DecideInside(h)
  <2>1. Moved
    BY <1>4, GotoType DEF DecideInside, TypeOK
  <2>2. inside' \in [Rules -> 0 .. MaxTime]
    BY <1>0, <1>4 DEF DecideInside, TypeOK
  <2>3. breached' \in [Rules -> 0 .. MaxTime] /\ firing' \in [Rules -> 0 .. MaxRows]
    BY <1>4, EvaluatorAssumption DEF DecideInside, TypeOK
  <2> QED
    BY <1>4, <2>1, <2>2, <2>3 DEF DecideInside, Unlock, TypeOK, HandlerState
<1>5. CASE Create(h)
  <2>1. Moved
    BY <1>5, GotoType DEF Create, history, TypeOK
  <2>2. lastRow' \in 0 .. MaxRows /\ openRow' \in [Rules -> 0 .. MaxRows]
    BY <1>5, EvaluatorAssumption DEF Create, history, TypeOK
  <2> QED
    BY <1>5, <2>1, <2>2 DEF Create, history, TypeOK, HandlerState
<1>6. CASE CreateFails(h)
  <2>1. Moved
    BY <1>6, GotoType DEF CreateFails, TypeOK
  <2> QED
    BY <1>6, <2>1 DEF CreateFails, Unlock, TypeOK, HandlerState
<1>7. CASE Relock(h)
  <2>1. Moved
    BY <1>7, GotoType DEF Relock, history, TypeOK
  <2> QED
    BY <1>7, <2>1 DEF Relock, history, Lock, TypeOK, HandlerState
<1>8. CASE Store(h)
  <2>1. Moved
    BY <1>8, GotoType DEF Store, history, TypeOK
  <2>2. hdl[h].rule \in Rules
    BY <1>8 DEF Store, history, TypeOK
  <2>3. incidentIDAfterCreate(hdl[h].rule) \subseteq 0 .. MaxRows
    <3>0. openRow \in [Rules -> 0 .. MaxRows]
      BY DEF TypeOK
    <3>1. openRow[hdl[h].rule] \in 0 .. MaxRows /\ 0 \in 0 .. MaxRows
      <4>1. openRow[hdl[h].rule] \in 0 .. MaxRows
        BY <2>2, <3>0
      <4>2. 0 \in 0 .. MaxRows
        BY EvaluatorAssumption
      <4> QED
        BY <4>1, <4>2
    <3>2. CASE DbMayFail
      BY <3>1, <3>2 DEF incidentIDAfterCreate
    <3>3. CASE ~DbMayFail
      BY <3>1, <3>3 DEF incidentIDAfterCreate
    <3> QED
      BY <3>2, <3>3
  <2>4. firing' \in [Rules -> 0 .. MaxRows]
    BY <1>8, <2>3 DEF Store, history, TypeOK
  <2> QED
    BY <1>8, <2>1, <2>4 DEF Store, history, Unlock, TypeOK, HandlerState
<1>9. CASE ResolveStale(h)
  <2>1. Idle \in HandlerState /\ Idle.pc = "idle"
    BY EvaluatorAssumption DEF Idle, HandlerState
  <2>2. Moved
    BY <1>9, <2>1, MoveHandler DEF ResolveStale
  <2> QED
    BY <1>9, <2>2 DEF ResolveStale, history, TypeOK, HandlerState
<1> QED
  BY <1>1, <1>2, <1>3, <1>4, <1>5, <1>6, <1>7, <1>8, <1>9 DEF HandlerStep

LEMMA TypeStep == TypeOK /\ [Next]_vars => TypeOK'
<1> SUFFICES ASSUME TypeOK, [Next]_vars PROVE TypeOK'
  OBVIOUS
<1>1. ASSUME NEW h \in Handlers, HandlerStep(h) PROVE TypeOK'
  BY <1>1, HandlerStepType
<1>2. ASSUME NEW h \in Handlers, NEW over \in SUBSET Rules, Sample(h, over) PROVE TypeOK'
  <2> DEFINE s == [pc |-> "next", todo |-> Rules, over |-> over, rule |-> 0, at |-> 0]
  <2>1. s \in HandlerState /\ s.pc = "next"
    <3>1. 0 \in 0 .. MaxTime
      BY EvaluatorAssumption
    <3> QED
      BY <3>1 DEF HandlerState
  <2>2. hdl' = [hdl EXCEPT ![h] = s]
    BY <1>2 DEF Sample
  <2>3. /\ hdl' \in [Handlers -> HandlerState]
        /\ \A g \in Handlers : hdl'[g].pc \notin {"idle", "next"} => hdl'[g].rule \in Rules
    BY <2>1, <2>2, MoveHandler
  <2> QED
    BY <1>2, <2>3 DEF Sample, history, TypeOK, HandlerState
<1>3. ASSUME NEW r \in Rules, Close(r) PROVE TypeOK'
  BY <1>3, EvaluatorAssumption DEF Close, TypeOK
<1>4. CASE Tick
  BY <1>4, EvaluatorAssumption DEF Tick, history, TypeOK
<1>5. CASE Restart
  <2>1. Idle \in HandlerState /\ Idle.pc = "idle"
    BY EvaluatorAssumption DEF Idle, HandlerState
  <2>2. /\ hdl' \in [Handlers -> HandlerState]
        /\ \A h \in Handlers : hdl'[h].pc = "idle"
    BY <1>5, <2>1 DEF Restart
  <2>3. breached' \in [Rules -> 0 .. MaxTime] /\ firing' \in [Rules -> 0 .. MaxRows]
    BY <1>5, EvaluatorAssumption DEF Restart
  <2> QED
    BY <1>5, <2>2, <2>3 DEF Restart, TypeOK, HandlerState
<1>6. CASE UNCHANGED vars
  BY <1>6 DEF vars, history, TypeOK
<1> QED
  BY <1>1, <1>2, <1>3, <1>4, <1>5, <1>6 DEF Next

(* The evaluator's slots, its mutex and its handlers keep their types for  *)
(* every number of rules, handlers and rows.                               *)
THEOREM TypeCorrect == Spec => []TypeOK
BY TypeInit, TypeStep, PTL DEF Spec

-----------------------------------------------------------------------------
(* Mutual exclusion.  MutexHeld is inductive once nothing unlocks on the   *)
(* error path: a lock is only taken when nobody is in a critical section,  *)
(* and only the one handler inside gives it up.                            *)

LEMMA MutexInit == Init => MutexHeld
BY DEF Init, MutexHeld, Holds, Idle

LEMMA EnterSection ==
  ASSUME TypeOK, MutexHeld, NEW h \in Handlers, NEW l \in {"decide", "store"},
         Lock, Goto(h, l), UNCHANGED <<fatal, upset>>
  PROVE  MutexHeld'
<1> SUFFICES ASSUME "error" \notin upset PROVE MutexHeld'
  BY DEF MutexHeld
<1>1. \A g \in Handlers : ~Holds(g)
  BY DEF MutexHeld, Lock
<1>2. \A g \in Handlers : Holds(g)' <=> g = h
  BY <1>1 DEF Holds, Goto, TypeOK
<1> QED
  BY <1>2 DEF MutexHeld, Lock

LEMMA LeaveSection ==
  ASSUME TypeOK, MutexHeld, NEW h \in Handlers, NEW l \in {"next", "create"},
         Holds(h), Unlock, Goto(h, l), UNCHANGED upset
  PROVE  MutexHeld'
<1> SUFFICES ASSUME "error" \notin upset PROVE MutexHeld'
  BY DEF MutexHeld
<1>1. locked /\ ~fatal /\ \A g \in Handlers : Holds(g) => g = h
  BY DEF MutexHeld
<1>2. \A g \in Handlers : ~Holds(g)'
  BY <1>1 DEF Holds, Goto, TypeOK
<1> QED
  BY <1>1, <1>2 DEF MutexHeld, Unlock

LEMMA OutsideSection ==
  ASSUME MutexHeld, UNCHANGED <<locked, fatal>>, upset \subseteq upset',
         \A g \in Handlers : Holds(g)' <=> Holds(g)
  PROVE  MutexHeld'
BY DEF MutexHeld

LEMMA MutexStep ==
  ASSUME TypeOK, MutexHeld, [Next]_vars
  PROVE  MutexHeld'
<1>1. ASSUME NEW h \in Handlers, HandlerStep(h) PROVE MutexHeld'
  <2>1. CASE NextRule(h)
    BY <2>1, OutsideSection DEF NextRule, Holds, TypeOK, history
  <2>2. CASE Enter(h)
    BY <2>2, EnterSection DEF Enter, history
  <2>3. CASE DecideBreach(h)
    BY <2>3, LeaveSection DEF DecideBreach, Holds
  <2>4. CASE DecideInside(h)
    BY <2>4, LeaveSection DEF DecideInside, Holds
  <2>5. CASE Create(h)
    BY <2>5, OutsideSection DEF Create, Goto, Holds, TypeOK, history
  <2>6. CASE CreateFails(h)
    BY <2>6 DEF CreateFails, MutexHeld
  <2>7. CASE Relock(h)
    BY <2>7, EnterSection DEF Relock, history
  <2>8. CASE Store(h)
    BY <2>8, LeaveSection DEF Store, Holds, history
  <2>9. CASE ResolveStale(h)
    BY <2>9, OutsideSection DEF ResolveStale, Idle, Holds, TypeOK, history
  <2> QED
    BY <1>1, <2>1, <2>2, <2>3, <2>4, <2>5, <2>6, <2>7, <2>8, <2>9 DEF HandlerStep
<1>2. ASSUME NEW h \in Handlers, NEW over \in SUBSET Rules, Sample(h, over) PROVE MutexHeld'
  BY <1>2, OutsideSection DEF Sample, Idle, Holds, TypeOK, history
<1>3. ASSUME NEW r \in Rules, Close(r) PROVE MutexHeld'
  BY <1>3, OutsideSection DEF Close, Holds
<1>4. CASE Tick
  BY <1>4, OutsideSection DEF Tick, Holds, history
<1>5. CASE Restart
  BY <1>5 DEF Restart, MutexHeld, Holds, Idle
<1>6. CASE UNCHANGED vars
  BY <1>6, OutsideSection DEF vars, Holds, history
<1> QED
  BY <1>1, <1>2, <1>3, <1>4, <1>5, <1>6 DEF Next

(* Until CreateIncident returns its first error, ev.mu protects its maps,  *)
(* however many heartbeats overlap: a critical section is held by one      *)
(* handler, and no unlock kills the process.                               *)
THEOREM MutexCorrect == Spec => []MutexHeld
<1>1. TypeOK /\ MutexHeld /\ [Next]_vars => MutexHeld'
  BY MutexStep
<1> QED
  BY <1>1, MutexInit, TypeCorrect, PTL DEF Spec

-----------------------------------------------------------------------------
(* The dwell.  A breach that is not late began no earlier than the         *)
(* youngest sample inside: a sample inside removes the breach's start, and *)
(* only a decision with an older stamp can put an older one there.         *)

BreachAfterInside ==
  \A r \in Rules : r \notin late /\ breached[r] # 0 => inside[r] <= breached[r]

LEMMA BreachInit == Init => BreachAfterInside
BY DEF Init, BreachAfterInside

LEMMA SameBreaches ==
  ASSUME BreachAfterInside, UNCHANGED <<breached, inside, late>>
  PROVE  BreachAfterInside'
BY DEF BreachAfterInside

LEMMA DeciderType ==
  ASSUME TypeOK, NEW h \in Handlers, hdl[h].pc = "decide"
  PROVE  /\ hdl[h].rule \in Rules /\ hdl[h].at \in Int
         /\ breached \in [Rules -> Int] /\ inside \in [Rules -> Int]
         /\ ForSeconds[hdl[h].rule] \in Nat
<1>1. hdl[h].rule \in Rules /\ hdl[h].at \in 0 .. MaxTime
  BY DEF TypeOK
<1>2. breached \in [Rules -> 0 .. MaxTime] /\ inside \in [Rules -> 0 .. MaxTime]
  BY DEF TypeOK
<1>3. 0 .. MaxTime \subseteq Int
  BY EvaluatorAssumption
<1> QED
  BY <1>1, <1>2, <1>3, EvaluatorAssumption

LEMMA BreachStep ==
  ASSUME TypeOK, BreachAfterInside, [Next]_vars
  PROVE  BreachAfterInside'
<1>1. ASSUME NEW h \in Handlers, HandlerStep(h) PROVE BreachAfterInside'
  <2>1. CASE DecideBreach(h)
    <3> SUFFICES ASSUME NEW r \in Rules, r \notin late', breached'[r] # 0
                 PROVE  inside'[r] <= breached'[r]
      BY DEF BreachAfterInside
    <3>1. hdl[h].pc = "decide" /\ inside' = inside /\ r \notin late
      BY <2>1 DEF DecideBreach
    <3>2. CASE r = hdl[h].rule
      <4>1. breached'[r] = IF breached[r] = 0 THEN hdl[h].at ELSE breached[r]
        BY <2>1, <3>1, <3>2, DeciderType DEF DecideBreach, BreachStart
      <4>2. breached[r] = 0 => hdl[h].at >= inside[r]
        BY <2>1, <3>1, <3>2, DeciderType DEF DecideBreach, Late
      <4> QED
        BY <3>1, <4>1, <4>2, DeciderType DEF BreachAfterInside
    <3>3. CASE r # hdl[h].rule
      <4>1. breached'[r] = breached[r]
        BY <2>1, <3>1, <3>3, DeciderType DEF DecideBreach
      <4> QED
        BY <3>1, <4>1 DEF BreachAfterInside
    <3> QED
      BY <3>2, <3>3
  <2>2. CASE DecideInside(h)
    <3> SUFFICES ASSUME NEW r \in Rules, r \notin late', breached'[r] # 0
                 PROVE  inside'[r] <= breached'[r]
      BY DEF BreachAfterInside
    <3>1. hdl[h].pc = "decide"
      BY <2>2 DEF DecideInside
    <3>2. r # hdl[h].rule
      BY <2>2, <3>1, DeciderType DEF DecideInside
    <3>3. breached'[r] = breached[r] /\ inside'[r] = inside[r] /\ r \notin late
      BY <2>2, <3>1, <3>2, DeciderType DEF DecideInside
    <3> QED
      BY <3>3 DEF BreachAfterInside
  <2>3. CASE NextRule(h) \/ Enter(h) \/ Create(h) \/ CreateFails(h) \/ Relock(h)
               \/ Store(h) \/ ResolveStale(h)
    BY <2>3, SameBreaches
       DEF NextRule, Enter, Create, CreateFails, Relock, Store, ResolveStale, history
  <2> QED
    BY <1>1, <2>1, <2>2, <2>3 DEF HandlerStep
<1>2. ASSUME NEW h \in Handlers, NEW over \in SUBSET Rules, Sample(h, over)
      PROVE  BreachAfterInside'
  BY <1>2, SameBreaches DEF Sample, history
<1>3. ASSUME NEW r \in Rules, Close(r) PROVE BreachAfterInside'
  BY <1>3, SameBreaches DEF Close
<1>4. CASE Tick
  BY <1>4, SameBreaches DEF Tick, history
<1>5. CASE Restart
  BY <1>5 DEF Restart, BreachAfterInside
<1>6. CASE UNCHANGED vars
  BY <1>6, SameBreaches DEF vars, history
<1> QED
  BY <1>1, <1>2, <1>3, <1>4, <1>5, <1>6 DEF Next

(* Only DecideBreach sends a handler from the decision to CreateIncident.  *)
LEMMA OnlyBreachCreates ==
  ASSUME TypeOK, [Next]_vars, NEW h \in Handlers,
         hdl[h].pc = "decide", hdl'[h].pc = "create"
  PROVE  DecideBreach(h)
<1>1. ASSUME NEW g \in Handlers, HandlerStep(g) PROVE DecideBreach(h)
  <2>1. g = h
    BY <1>1 DEF HandlerStep, NextRule, Enter, DecideBreach, DecideInside, Create, CreateFails,
                Relock, Store, ResolveStale, Goto, TypeOK
  <2>2. CASE NextRule(h) \/ Enter(h) \/ Create(h) \/ CreateFails(h) \/ Relock(h)
               \/ Store(h) \/ ResolveStale(h)
    BY <2>2 DEF NextRule, Enter, Create, CreateFails, Relock, Store, ResolveStale
  <2>3. CASE DecideInside(h)
    BY <2>3 DEF DecideInside, Goto, TypeOK
  <2> QED
    BY <1>1, <2>1, <2>2, <2>3 DEF HandlerStep
<1>2. ASSUME NEW g \in Handlers, NEW over \in SUBSET Rules, Sample(g, over)
      PROVE  DecideBreach(h)
  BY <1>2 DEF Sample, TypeOK
<1>3. ASSUME NEW r \in Rules, Close(r) PROVE DecideBreach(h)
  BY <1>3 DEF Close
<1>4. CASE Tick
  BY <1>4 DEF Tick
<1>5. CASE Restart
  BY <1>5 DEF Restart, Idle
<1>6. CASE UNCHANGED vars
  BY <1>6 DEF vars
<1> QED
  BY <1>1, <1>2, <1>3, <1>4, <1>5, <1>6 DEF Next

LEMMA FiresStep ==
  ASSUME TypeOK, BreachAfterInside, [Next]_vars, NEW h \in Handlers
  PROVE  FiresAfterDwell(h)
<1> SUFFICES ASSUME hdl[h].pc = "decide", hdl'[h].pc = "create", hdl[h].rule \notin late'
             PROVE  hdl[h].at - inside[hdl[h].rule] >= ForSeconds[hdl[h].rule]
  BY DEF FiresAfterDwell
<1>1. DecideBreach(h)
  BY OnlyBreachCreates
<1>2. Due(h)
  BY <1>1 DEF DecideBreach, Goto, TypeOK
<1>3. BreachStart(h) >= inside[hdl[h].rule]
  <2>1. CASE breached[hdl[h].rule] = 0
    BY <1>1, <2>1, DeciderType DEF DecideBreach, Late, BreachStart
  <2>2. CASE breached[hdl[h].rule] # 0
    BY <1>1, <2>2, DeciderType DEF DecideBreach, BreachAfterInside, BreachStart
  <2> QED
    BY <2>1, <2>2
<1>4. BreachStart(h) \in Int
  BY DeciderType DEF BreachStart
<1> QED
  BY <1>2, <1>3, <1>4, DeciderType DEF Due

(* A rule fires only after ForSeconds without a sample inside, for every   *)
(* number of overlapping heartbeats, except on a breach that began late.   *)
THEOREM DwellCorrect == Spec => DwellUninterrupted
<1>1. Spec => []BreachAfterInside
  <2>1. TypeOK /\ BreachAfterInside /\ [Next]_vars => BreachAfterInside'
    BY BreachStep
  <2> QED
    BY <2>1, BreachInit, TypeCorrect, PTL DEF Spec
<1>2. TypeOK /\ BreachAfterInside /\ [Next]_vars
        => [\A h \in Handlers : FiresAfterDwell(h)]_vars
  BY FiresStep
<1> QED
  BY <1>1, <1>2, TypeCorrect, PTL DEF Spec, DwellUninterrupted
=============================================================================
