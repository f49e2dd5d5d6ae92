---------------------------- MODULE ResidencyProofs ----------------------------
(***************************************************************************)
(* What TLAPS proves of Residency, for any number of handlers, unloads,    *)
(* cancellations and errors.                                               *)
(***************************************************************************)
EXTENDS Residency, FiniteSetTheorems, SequenceTheorems, TLAPS

LoadRecord == [at : Live \cup Ended, cancel : BOOLEAN,
               engine : {"none", "made", "started", "stopping", "stopped"}]

Holders == {h \in Handlers : pc[h] = "holding"}
WaitersOn(t) == {h \in Handlers : pc[h] = "awaitLoad" /\ on[h] = t}

--------------------------------------------------------------------------------
(* What a load does to its record.                                           *)

\* Any record of the list is a record of a load.
LEMMA RecordType ==
  ASSUME TypeOK, NEW l \in Loads
  PROVE  /\ loads \in Seq(LoadRecord) /\ l \in 1..Len(loads)
         /\ loads[l] \in LoadRecord
<1>1. loads \in Seq(LoadRecord) /\ l \in 1..Len(loads)
  BY DEF TypeOK, LoadRecord, Loads
<1> QED BY <1>1, ElementOfSeq

\* The list t is s but for the record at l, which is this one.
SameBut(s, t, l, a, c, e) ==
  /\ t \in Seq(LoadRecord) /\ Len(t) = Len(s)
  /\ t[l].at = a /\ t[l].cancel = c /\ t[l].engine = e
  /\ \A k \in 1..Len(s) : k # l => t[k] = s[k]

\* One field of one record assigned.
WithAt(s, l, a) == [s EXCEPT ![l].at = a]
WithCancel(s, l, c) == [s EXCEPT ![l].cancel = c]
WithEngine(s, l, e) == [s EXCEPT ![l].engine = e]

EngineStates == {"none", "made", "started", "stopping", "stopped"}

\* What the assignment of a field does.
LEMMA FieldSet ==
  ASSUME NEW s \in Seq(LoadRecord), NEW l \in 1..Len(s),
         NEW a \in Live \cup Ended, NEW c \in BOOLEAN, NEW e \in EngineStates
  PROVE  /\ SameBut(s, WithAt(s, l, a), l, a, s[l].cancel, s[l].engine)
         /\ SameBut(s, WithCancel(s, l, c), l, s[l].at, c, s[l].engine)
         /\ SameBut(s, WithEngine(s, l, e), l, s[l].at, s[l].cancel, e)
<1> DEFINE A == Live \cup Ended
           E == EngineStates
           T == [at : A, cancel : BOOLEAN, engine : E]
<1>1. s \in Seq(T) /\ s[l] \in T /\ a \in A /\ e \in E
  BY ElementOfSeq DEF LoadRecord, EngineStates
<1>2. T = LoadRecord
  BY DEF LoadRecord, EngineStates
<1> HIDE DEF A, E
<1>3. ASSUME NEW t, t = [s EXCEPT ![l].at = a]
      PROVE  SameBut(s, t, l, a, s[l].cancel, s[l].engine)
  BY <1>1, <1>2, <1>3, SMT DEF SameBut
<1>4. ASSUME NEW t, t = [s EXCEPT ![l].cancel = c]
      PROVE  SameBut(s, t, l, s[l].at, c, s[l].engine)
  BY <1>1, <1>2, <1>4, SMT DEF SameBut
<1>5. ASSUME NEW t, t = [s EXCEPT ![l].engine = e]
      PROVE  SameBut(s, t, l, s[l].at, s[l].cancel, e)
  BY <1>1, <1>2, <1>5, SMT DEF SameBut
<1> QED BY <1>3, <1>4, <1>5 DEF WithAt, WithCancel, WithEngine

\* Two or three of them.
LEMMA FieldsSet ==
  ASSUME NEW s \in Seq(LoadRecord), NEW l \in 1..Len(s),
         NEW a \in Live \cup Ended, NEW c \in BOOLEAN, NEW e \in EngineStates
  PROVE  /\ SameBut(s, WithEngine(WithAt(s, l, a), l, e), l, a, s[l].cancel, e)
         /\ SameBut(s, WithCancel(WithAt(s, l, a), l, c), l, a, c, s[l].engine)
         /\ SameBut(s, WithEngine(WithCancel(WithAt(s, l, a), l, c), l, e), l, a, c, e)
<1> DEFINE t == WithAt(s, l, a)
           u == WithCancel(t, l, c)
<1>1. SameBut(s, t, l, a, s[l].cancel, s[l].engine)
  BY FieldSet
<1>2. t \in Seq(LoadRecord) /\ l \in 1..Len(t) /\ Len(t) = Len(s)
  BY <1>1 DEF SameBut
<1>3. /\ SameBut(t, u, l, t[l].at, c, t[l].engine)
      /\ SameBut(t, WithEngine(t, l, e), l, t[l].at, t[l].cancel, e)
  BY <1>2, FieldSet
<1>4. u \in Seq(LoadRecord) /\ l \in 1..Len(u) /\ Len(u) = Len(s)
  BY <1>2, <1>3 DEF SameBut
<1>5. SameBut(u, WithEngine(u, l, e), l, u[l].at, u[l].cancel, e)
  BY <1>4, FieldSet
<1> QED BY <1>1, <1>2, <1>3, <1>4, <1>5 DEF SameBut

--------------------------------------------------------------------------------
(* The five things a step of a load may come to.                             *)

Frame == UNCHANGED <<active, waiters, waiterTask, unloading, unloads, unloadAt,
                     idleUnloads, pc, on, sd, sdOn, cancels>>

Resident == <<state, engine, loading, abandoned>>

GoesOn(l) ==
  /\ loads'[l].at \in Live \ {"new"} /\ UNCHANGED Resident
  /\ loads'[l].at = "hook" => loads'[l].engine = "started"
  /\ loads'[l].at \in {"failing", "undo"} => (loads'[l].cancel => RecancelSticks)

Returns(l) ==
  /\ loads[l].at = "hook" /\ loads'[l].at = "returned"
  /\ loads'[l].engine = loads[l].engine
  /\ state' = "loaded" /\ engine' = l /\ loading' = 0 /\ abandoned' = 0

IsUndone(l) ==
  /\ loads'[l].at = "cancelled" /\ loads'[l].engine \in {"none", "stopped"}
  /\ state' = "unloaded" /\ engine' = 0 /\ loading' = 0 /\ abandoned' = abandoned

IsLost(l) ==
  /\ loads'[l].at = "failed" /\ loads'[l].engine \in {"none", "stopped"}
  /\ state' = "failed" /\ engine' = engine /\ loading' = 0 /\ abandoned' = 0

IsDropped(l) ==
  /\ loads[l].cancel /\ loads[l].at \in {"new", "failing", "undo"}
  /\ loads'[l].at = "cancelled" /\ UNCHANGED Resident

\* The two ends of a clean-up.
LEMMA UndoneOrLost ==
  ASSUME TypeOK, NEW l \in Loads
  PROVE  /\ Unwind(l) => SameBut(loads, loads', l, "cancelled", FALSE, AfterUndo(l))
                         /\ IsUndone(l)
         /\ Settle(l) => SameBut(loads, loads', l, "failed", FALSE, AfterUndo(l))
                         /\ IsLost(l)
<1> DEFINE t(a) == WithEngine(WithCancel(WithAt(loads, l, a), l, FALSE), l, AfterUndo(l))
<1>1. loads \in Seq(LoadRecord) /\ l \in 1..Len(loads)
  BY RecordType
<1>2. AfterUndo(l) \in {"none", "stopped"} /\ AfterUndo(l) \in EngineStates
  BY DEF AfterUndo, EngineStates
<1>3. \A a \in {"cancelled", "failed"} : SameBut(loads, t(a), l, a, FALSE, AfterUndo(l))
  BY <1>1, <1>2, FieldsSet DEF Ended
<1>4. ASSUME Unwind(l) PROVE loads' = t("cancelled")
  BY <1>4 DEF Unwind, WithAt, WithCancel, WithEngine
<1>5. ASSUME Settle(l) PROVE loads' = t("failed")
  BY <1>5 DEF Settle, WithAt, WithCancel, WithEngine
<1> HIDE DEF t
<1>6. /\ Unwind(l) => SameBut(loads, loads', l, "cancelled", FALSE, AfterUndo(l))
      /\ Settle(l) => SameBut(loads, loads', l, "failed", FALSE, AfterUndo(l))
  BY <1>3, <1>4, <1>5
<1> QED BY <1>2, <1>6 DEF SameBut, Unwind, Settle, IsUndone, IsLost

\* A step of a load is one of the five, and changes nothing else.
LEMMA LoadEffect ==
  ASSUME TypeOK, NEW l \in Loads, LoadStep(l) \/ LoadError(l)
  PROVE  /\ loads[l].at \in Live /\ Frame /\ faults' \in Nat
         /\ loads' \in Seq(LoadRecord) /\ Len(loads') = Len(loads)
         /\ \A k \in Loads : k # l => loads'[k] = loads[k]
         /\ GoesOn(l) \/ Returns(l) \/ IsUndone(l) \/ IsLost(l) \/ IsDropped(l)
<1> DEFINE Goal == /\ loads[l].at \in Live
                   /\ \E a, c, e : SameBut(loads, loads', l, a, c, e)
                   /\ GoesOn(l) \/ Returns(l) \/ IsUndone(l) \/ IsLost(l) \/ IsDropped(l)
<1>1. loads \in Seq(LoadRecord) /\ l \in 1..Len(loads) /\ loads[l] \in LoadRecord
  BY RecordType
<1>2. loads[l].engine \in EngineStates /\ {"made", "started"} \subseteq EngineStates
      /\ loads[l].cancel \in BOOLEAN /\ RecancelSticks \in BOOLEAN
  BY <1>1, ConstantsAssumption DEF LoadRecord, EngineStates, ConstantsAssumption
<1>3. ASSUME LoadGoesOn(l) PROVE Goal
  <2>1. CASE loads[l].at = "new" /\ loads' = [loads EXCEPT ![l].at = "factory"]
    <3>1. SameBut(loads, loads', l, "factory", loads[l].cancel, loads[l].engine)
      <4>1. loads' = WithAt(loads, l, "factory")
        BY <2>1 DEF WithAt
      <4> QED BY <1>1, <1>2, <4>1, FieldSet DEF Live
    <3> QED BY <1>3, <2>1, <3>1 DEF LoadGoesOn, SameBut, GoesOn, Live, Resident
  <2>2. CASE /\ loads[l].at = "factory"
             /\ loads' = [loads EXCEPT ![l].at = "prepare", ![l].engine = "made"]
    <3>1. SameBut(loads, loads', l, "prepare", loads[l].cancel, "made")
      <4>1. loads' = WithEngine(WithAt(loads, l, "prepare"), l, "made")
        BY <2>2 DEF WithAt, WithEngine
      <4> QED BY <1>1, <1>2, <4>1, FieldsSet DEF Live
    <3> QED BY <1>3, <2>2, <3>1 DEF LoadGoesOn, SameBut, GoesOn, Live, Resident
  <2>3. CASE loads[l].at = "prepare" /\ loads' = [loads EXCEPT ![l].at = "start"]
    <3>1. SameBut(loads, loads', l, "start", loads[l].cancel, loads[l].engine)
      <4>1. loads' = WithAt(loads, l, "start")
        BY <2>3 DEF WithAt
      <4> QED BY <1>1, <1>2, <4>1, FieldSet DEF Live
    <3> QED BY <1>3, <2>3, <3>1 DEF LoadGoesOn, SameBut, GoesOn, Live, Resident
  <2>4. CASE /\ loads[l].at = "start"
             /\ loads' = [loads EXCEPT ![l].at = "hook", ![l].engine = "started"]
    <3>1. SameBut(loads, loads', l, "hook", loads[l].cancel, "started")
      <4>1. loads' = WithEngine(WithAt(loads, l, "hook"), l, "started")
        BY <2>4 DEF WithAt, WithEngine
      <4> QED BY <1>1, <1>2, <4>1, FieldsSet DEF Live
    <3> QED BY <1>3, <2>4, <3>1 DEF LoadGoesOn, SameBut, GoesOn, Live, Resident
  <2> QED BY <1>3, <2>1, <2>2, <2>3, <2>4 DEF LoadGoesOn
<1>4. ASSUME LoadReturns(l) PROVE Goal
  <2>1. SameBut(loads, loads', l, "returned", loads[l].cancel, loads[l].engine)
    <3>1. loads' = WithAt(loads, l, "returned")
      BY <1>4 DEF LoadReturns, WithAt
    <3> QED BY <1>1, <1>2, <3>1, FieldSet DEF Ended
  <2> QED BY <1>4, <2>1 DEF LoadReturns, SameBut, Returns, Live
<1>5. ASSUME LoadRaises(l) PROVE Goal
  <2> DEFINE next == IF abandoned = l THEN "undo" ELSE "failing"
  <2>1. loads[l].at \in Live
    BY <1>5 DEF LoadRaises, Live
  <2>2. CASE loads[l].engine # "none"
    <3>1. next \in Live /\ next \notin {"hook", "new"}
      BY DEF Live
    <3>2. /\ loads' = [loads EXCEPT ![l].at = next, ![l].cancel = FALSE]
          /\ UNCHANGED Resident
      BY <1>5, <2>2 DEF LoadRaises, Resident
    <3> HIDE DEF next
    <3>3. SameBut(loads, loads', l, next, FALSE, loads[l].engine)
      <4>1. loads' = WithCancel(WithAt(loads, l, next), l, FALSE)
        BY <3>2 DEF WithAt, WithCancel
      <4> QED BY <1>1, <1>2, <4>1, <3>1, FieldsSet
    <3> QED BY <2>1, <3>1, <3>2, <3>3 DEF SameBut, GoesOn
  <2>3. CASE loads[l].engine = "none"
    <3>1. Unwind(l) \/ Settle(l)
      BY <1>5, <2>3 DEF LoadRaises
    <3> QED BY <2>1, <3>1, UndoneOrLost
  <2> QED BY <2>2, <2>3
<1>6. ASSUME LoadFails(l) \/ LoadUnwinds(l) PROVE Goal
  BY <1>6, UndoneOrLost DEF LoadFails, LoadUnwinds, Live
<1>7. ASSUME LoadCancelled(l) PROVE Goal
  <2>1. CASE /\ loads[l].at = "new"
             /\ loads' = [loads EXCEPT ![l].at = "cancelled", ![l].cancel = FALSE]
             /\ UNCHANGED <<state, engine, loading, abandoned>>
    <3>1. SameBut(loads, loads', l, "cancelled", FALSE, loads[l].engine)
      <4>1. loads' = WithCancel(WithAt(loads, l, "cancelled"), l, FALSE)
        BY <2>1 DEF WithAt, WithCancel
      <4> QED BY <1>1, <1>2, <4>1, FieldsSet DEF Ended
    <3> QED BY <1>7, <2>1, <3>1 DEF LoadCancelled, SameBut, IsDropped, Live, Resident
  <2>2. CASE loads[l].at = "factory" /\ Unwind(l)
    BY <2>2, UndoneOrLost DEF Live
  <2>3. CASE /\ loads[l].at \in {"prepare", "start", "hook"}
             /\ loads' = [loads EXCEPT
                            ![l].at = "undo",
                            ![l].cancel = (loads[l].at = "prepare" /\ RecancelSticks)]
             /\ UNCHANGED <<state, engine, loading, abandoned>>
    <3> DEFINE again == loads[l].at = "prepare" /\ RecancelSticks
    <3>1. CASE again
      <4>1. loads' = [loads EXCEPT ![l].at = "undo", ![l].cancel = TRUE] /\ RecancelSticks
        BY <2>3, <3>1
      <4>2. SameBut(loads, loads', l, "undo", TRUE, loads[l].engine)
        <5>1. loads' = WithCancel(WithAt(loads, l, "undo"), l, TRUE)
          BY <4>1 DEF WithAt, WithCancel
        <5> QED BY <1>1, <1>2, <5>1, FieldsSet DEF Live
      <4> QED BY <2>3, <4>1, <4>2 DEF SameBut, GoesOn, Live, Resident
    <3>2. CASE ~again
      <4>1. loads' = [loads EXCEPT ![l].at = "undo", ![l].cancel = FALSE]
        BY <2>3, <3>2
      <4>2. SameBut(loads, loads', l, "undo", FALSE, loads[l].engine)
        <5>1. loads' = WithCancel(WithAt(loads, l, "undo"), l, FALSE)
          BY <4>1 DEF WithAt, WithCancel
        <5> QED BY <1>1, <1>2, <5>1, FieldsSet DEF Live
      <4> QED BY <2>3, <4>2 DEF SameBut, GoesOn, Live, Resident
    <3> QED BY <3>1, <3>2
  <2> QED BY <1>7, <2>1, <2>2, <2>3 DEF LoadCancelled
<1>8. ASSUME CleanupCancelled(l) PROVE Goal
  <2>1. SameBut(loads, loads', l, "cancelled", FALSE, loads[l].engine)
    <3>1. loads' = WithCancel(WithAt(loads, l, "cancelled"), l, FALSE)
      BY <1>8 DEF CleanupCancelled, WithAt, WithCancel
    <3> QED BY <1>1, <1>2, <3>1, FieldsSet DEF Ended
  <2> QED BY <1>8, <2>1 DEF CleanupCancelled, SameBut, IsDropped, Live, Resident
<1>9. Goal
  BY <1>3, <1>4, <1>5, <1>6, <1>7, <1>8 DEF LoadStep, LoadError
<1>10. Frame
  BY DEF LoadStep, LoadError, Frame, counts, unloadVars, callVars, sdVars
<1>11. faults' \in Nat
  BY DEF LoadStep, LoadError, LoadGoesOn, LoadReturns, LoadFails, LoadCancelled,
         LoadUnwinds, CleanupCancelled, LoadRaises, Strike, TypeOK
<1> QED BY <1>9, <1>10, <1>11 DEF SameBut, Loads

--------------------------------------------------------------------------------
(* Types and single flight.                                                  *)

\* What is resident, what is loaded and what is unloaded exclude each other.
SingleFlight ==
  /\ OneLoadAtATime
  /\ loading # 0 => engine = 0 /\ state = "loading"
  /\ engine # 0 => state \in {"loaded", "unloading"} /\ loads[engine].at = "returned"
  /\ unloading # 0 => engine # 0
  /\ unloading # 0 <=> state = "unloading"

\* Nothing is resident, loaded or unloaded at first.
LEMMA InitFacts == Init => TypeOK /\ SingleFlight
<1> SUFFICES ASSUME Init PROVE TypeOK /\ SingleFlight
  OBVIOUS
<1>1. Loads = {} /\ Len(loads) = 0
  BY DEF Init, Loads
<1>2. TypeOK
  BY <1>1 DEF Init, TypeOK, Waiting
<1>3. SingleFlight
  BY <1>1 DEF Init, SingleFlight, OneLoadAtATime
<1> QED BY <1>2, <1>3

\* A new load, at the end of the list.
Begins ==
  /\ loading = 0 /\ unloading = 0 /\ engine = 0
  /\ loads' \in Seq(LoadRecord) /\ Len(loads') = Len(loads) + 1
  /\ loads'[Len(loads) + 1] = NewLoad
  /\ \A k \in Loads : loads'[k] = loads[k]
  /\ state' = "loading" /\ loading' = Len(loads) + 1 /\ abandoned' = 0

\* A turn of ensure_loaded begins a load or leaves the tasks and the model alone,
\* and moves its own handler only.
LEMMA EnterEffect ==
  ASSUME TypeOK, SingleFlight, NEW h \in Handlers,
         NEW w \in Nat, NEW t \in Loads \cup {0}, Enter(h, w, t)
  PROVE  /\ Begins \/ UNCHANGED <<state, loading, abandoned, loads>>
         /\ active' \in Nat /\ waiters' \in Nat
         /\ waiterTask' \in {0, t, loading, Len(loads) + 1}
         /\ waiterTask' = Len(loads) + 1 => Begins
         /\ pc' = [pc EXCEPT ![h] = pc'[h]] /\ on' = [on EXCEPT ![h] = on'[h]]
         /\ pc'[h] \in {"holding", "awaitUnload", "awaitLoad"} /\ on'[h] \in Nat
<1>1. NewLoad \in LoadRecord /\ loads \in Seq(LoadRecord)
  BY DEF NewLoad, LoadRecord, Live, TypeOK
<1>2. loads' = Append(loads, NewLoad) =>
        /\ loads' \in Seq(LoadRecord) /\ Len(loads') = Len(loads) + 1
        /\ loads'[Len(loads) + 1] = NewLoad
        /\ \A k \in Loads : loads'[k] = loads[k]
  BY <1>1, AppendProperties DEF Loads
<1>3. engine \in Nat /\ loading \in Nat /\ unloading \in Nat /\ active \in Nat
      /\ Len(loads) \in Nat /\ loading <= Len(loads) /\ h \in DOMAIN pc /\ h \in DOMAIN on
  BY <1>1, LenProperties DEF TypeOK, Loads
<1>4. CASE GetsEngine(h, w, t)
  BY <1>3, <1>4 DEF GetsEngine, Loads
<1>5. CASE AwaitsUnload(h, w, t)
  BY <1>3, <1>5 DEF AwaitsUnload, Loads
<1>6. CASE StartsLoad(h)
  <2>1. Begins
    BY <1>2, <1>6 DEF Begins, StartsLoad, NeedsLoad, Resides, SingleFlight
  <2> QED BY <1>3, <1>6, <2>1 DEF StartsLoad
<1>7. CASE JoinsLoad(h, w)
  BY <1>3, <1>7 DEF JoinsLoad, Loads
<1> QED BY <1>4, <1>5, <1>6, <1>7 DEF Enter

\* What is left of the waiters when one of them is no longer counted.
LEMMA LessTypes ==
  ASSUME TypeOK, NEW l
  PROVE  WaitersLess(l) \in Nat /\ TaskLess(l) \in Loads \cup {0}
BY DEF TypeOK, WaitersLess, TaskLess, DropsFrom

\* The actions of handlers that begin a turn of ensure_loaded.
Enters(h) ==
  \E w \in Nat, t \in Loads \cup {0} :
    /\ Enter(h, w, t)
    /\ UNCHANGED <<engine, unloading, unloadVars, sdVars, cancels, faults>>

\* These are the three.
LEMMA EntersWhen ==
  ASSUME TypeOK, NEW h \in Handlers, Acquire(h) \/ UnloadAwaited(h) \/ LoadAwaited(h)
  PROVE  Enters(h)
<1>1. waiters \in Nat /\ waiterTask \in Loads \cup {0}
  BY DEF TypeOK
<1>2. WaitersLess(on[h]) \in Nat /\ TaskLess(on[h]) \in Loads \cup {0}
  BY LessTypes
<1> QED BY <1>1, <1>2 DEF Enters, Acquire, UnloadAwaited, LoadAwaited

\* A load is marked, or its engine is on the way to its end.
LEMMA Marked ==
  ASSUME TypeOK, NEW l \in Loads, loads' = [loads EXCEPT ![l].cancel = TRUE]
  PROVE  SameBut(loads, loads', l, loads[l].at, TRUE, loads[l].engine)
<1>1. loads' = WithCancel(loads, l, TRUE)
  BY DEF WithCancel
<1>2. "new" \in Live \cup Ended /\ "none" \in EngineStates
  BY DEF Live, EngineStates
<1> QED BY <1>1, <1>2, RecordType, FieldSet

\* The engine of a load changes.
LEMMA EngineMoved ==
  ASSUME TypeOK, NEW l \in Loads, NEW e \in EngineStates,
         loads' = [loads EXCEPT ![l].engine = e]
  PROVE  SameBut(loads, loads', l, loads[l].at, loads[l].cancel, e)
<1>1. loads' = WithEngine(loads, l, e)
  BY DEF WithEngine
<1>2. "new" \in Live \cup Ended
  BY DEF Live
<1> QED BY <1>1, <1>2, RecordType, FieldSet

\* The loads stay as they are but for cancellations that fall due.
Marks ==
  /\ loads' \in Seq(LoadRecord) /\ Len(loads') = Len(loads)
  /\ \A k \in Loads :
       /\ loads'[k].at = loads[k].at /\ loads'[k].engine = loads[k].engine
       /\ loads'[k].cancel # loads[k].cancel => loads[k].at \in CancelAt

Aside == Marks /\ UNCHANGED <<state, engine, loading, unloading>>

\* A cancellation falls due, or none does.
LEMMA MarksOrNot ==
  ASSUME TypeOK, NEW l \in Loads,
         \/ loads' = loads
         \/ loads' = [loads EXCEPT ![l].cancel = TRUE] /\ loads[l].at \in CancelAt
  PROVE  Marks
<1>1. CASE loads' = loads
  BY <1>1, RecordType DEF Marks
<1>2. CASE loads' = [loads EXCEPT ![l].cancel = TRUE] /\ loads[l].at \in CancelAt
  BY <1>2, Marked DEF Marks, SameBut, Loads
<1> QED BY <1>1, <1>2

\* Single flight does not read what they change.
LEMMA AsideKeeps ==
  ASSUME TypeOK, SingleFlight, Aside
  PROVE  SingleFlight'
BY DEF Aside, Marks, SingleFlight, OneLoadAtATime, TypeOK, Loads

\* Whoever waits for a load waits for one that there is.
OnALoad == \A h \in Handlers : pc[h] \in {"awaitLoad", "stopping"} => on[h] \in Loads

Base == TypeOK /\ SingleFlight /\ OnALoad

\* Types once the list is seen to be one of records.
LEMMA ListType ==
  ASSUME loads' \in Seq(LoadRecord), TypeOK, Len(loads') >= Len(loads)
  PROVE  /\ loads' \in Seq([at : Live \cup Ended, cancel : BOOLEAN,
                            engine : {"none", "made", "started", "stopping", "stopped"}])
         /\ Loads \subseteq Loads'
         /\ {engine, loading, waiterTask, abandoned} \subseteq Loads' \cup {0}
<1>1. Len(loads') \in Nat /\ Len(loads) \in Nat
  BY LenProperties DEF TypeOK, LoadRecord
<1> QED BY <1>1 DEF LoadRecord, EngineStates, Loads, TypeOK

\* A handler begins a turn of ensure_loaded.
LEMMA EntersStep ==
  ASSUME Base, NEW h \in Handlers, Enters(h)
  PROVE  Base'
<1> USE DEF Base
<1>1. PICK w \in Nat, t \in Loads \cup {0} :
        /\ Enter(h, w, t)
        /\ UNCHANGED <<engine, unloading, unloadVars, sdVars, cancels, faults>>
  BY DEF Enters
<1>2. /\ Begins \/ UNCHANGED <<state, loading, abandoned, loads>>
      /\ active' \in Nat /\ waiters' \in Nat
      /\ waiterTask' \in {0, t, loading, Len(loads) + 1}
      /\ waiterTask' = Len(loads) + 1 => Begins
      /\ pc' = [pc EXCEPT ![h] = pc'[h]] /\ on' = [on EXCEPT ![h] = on'[h]]
      /\ pc'[h] \in {"holding", "awaitUnload", "awaitLoad"} /\ on'[h] \in Nat
  BY <1>1, EnterEffect
<1>3. Len(loads) \in Nat
  BY LenProperties DEF TypeOK
<1>4. loads' \in Seq(LoadRecord) /\ Len(loads') >= Len(loads)
  BY <1>2, <1>3 DEF Begins, TypeOK, LoadRecord, EngineStates
<1>5. Loads \subseteq Loads' /\ (Begins => Len(loads) + 1 \in Loads')
  BY <1>3, <1>4, ListType DEF Loads, Begins
<1>6. TypeOK'
  <2>1. {engine, loading, waiterTask, abandoned}' \subseteq Loads' \cup {0}
    BY <1>1, <1>2, <1>5 DEF Begins, TypeOK
  <2>2. state' \in {"unloaded", "loading", "loaded", "unloading", "failed"}
    BY <1>2 DEF Begins, TypeOK
  <2>3. pc' \in [Handlers -> Waiting \cup
               {"idle", "holding", "done", "cancelled", "failed", "inherited"}]
        /\ on' \in [Handlers -> Nat]
    BY <1>2 DEF TypeOK, Waiting
  <2> QED BY <1>1, <1>2, <1>4, <2>1, <2>2, <2>3, ListType
          DEF TypeOK, unloadVars, sdVars
<1>7. SingleFlight'
  <2>1. CASE Begins
    BY <1>1, <1>3, <2>1 DEF Begins, SingleFlight, OneLoadAtATime, Loads, NewLoad
  <2>2. CASE UNCHANGED <<state, loading, abandoned, loads>>
    BY <1>1, <2>2 DEF SingleFlight, OneLoadAtATime, Loads
  <2> QED BY <1>2, <2>1, <2>2
<1>8. OnALoad'
  <2>1. pc'[h] = "awaitLoad" => on'[h] \in Loads'
    <3>1. CASE GetsEngine(h, w, t) \/ AwaitsUnload(h, w, t)
      BY <3>1 DEF GetsEngine, AwaitsUnload, TypeOK
    <3>2. CASE StartsLoad(h)
      BY <1>2, <1>5, <3>2 DEF StartsLoad, TypeOK, Begins
    <3>3. CASE JoinsLoad(h, w)
      BY <1>5, <3>3 DEF JoinsLoad, NeedsLoad, TypeOK
    <3> QED BY <1>1, <3>1, <3>2, <3>3 DEF Enter
  <2> QED BY <1>2, <1>5, <2>1 DEF OnALoad, TypeOK
<1> QED BY <1>6, <1>7, <1>8

\* A handler gets to an end or leaves: what becomes of it, and that at most a
\* cancellation falls due.
LEMMA HandlerEffect ==
  ASSUME Base, NEW h \in Handlers,
         LoadRefused(h) \/ LoadStopped(h) \/ Release(h) \/ Leave(h) \/ LeaveUnload(h)
  PROVE  /\ Aside
         /\ pc' = [pc EXCEPT ![h] = pc'[h]] /\ on' = [on EXCEPT ![h] = on'[h]]
         /\ pc'[h] \in {"done", "cancelled", "failed", "inherited", "stopping"}
         /\ on'[h] \in {0, on[h]} /\ (pc'[h] = "stopping" => on'[h] \in Loads)
         /\ {waiterTask, abandoned}' \subseteq Loads \cup {0}
         /\ active' \in Nat /\ waiters' \in Nat /\ cancels' \in Nat /\ faults' \in Nat
         /\ UNCHANGED <<unloadVars, sdVars>>
<1> USE DEF Base
<1>1. WaitersLess(on[h]) \in Nat /\ TaskLess(on[h]) \in Loads \cup {0}
  BY LessTypes
<1>2. (UNCHANGED <<state, engine, loading, unloading, loads>>) => Aside
  BY RecordType DEF Aside, Marks, TypeOK, LoadRecord, EngineStates
<1>3. CASE LoadRefused(h)
  BY <1>1, <1>2, <1>3 DEF LoadRefused, End, TypeOK, taskVars
<1>4. CASE LoadStopped(h)
  BY <1>2, <1>4 DEF LoadStopped, End, TypeOK, counts, taskVars
<1>5. CASE Release(h)
  BY <1>2, <1>5 DEF Release, End, TypeOK, taskVars, AfterRelease
<1>6. CASE LeaveUnload(h)
  BY <1>2, <1>6 DEF LeaveUnload, End, TypeOK, counts, taskVars
<1>7. CASE Leave(h)
  <2> DEFINE l    == on[h]
             stop == DropsFrom(l) /\ waiters = 1 /\ loading = l /\ loads[l].at \in Live
  <2>1. l \in Loads
    BY <1>7 DEF OnALoad, Leave
  <2>2. Marks
    <3>1. CASE stop
      <4>1. loads' = [loads EXCEPT ![l].cancel = TRUE] /\ loads[l].at \in CancelAt
        BY <1>7, <3>1 DEF Leave
      <4> QED BY <2>1, <4>1, MarksOrNot
    <3>2. CASE ~stop
      <4>1. loads' = loads
        BY <1>7, <3>2 DEF Leave
      <4> QED BY <2>1, <4>1, MarksOrNot
    <3> QED BY <3>1, <3>2
  <2>3. /\ pc' = [pc EXCEPT ![h] = pc'[h]] /\ on' = [on EXCEPT ![h] = on'[h]]
        /\ pc'[h] \in {"cancelled", "stopping"} /\ on'[h] \in {0, l}
        /\ pc'[h] = "stopping" => on'[h] = l
    BY <1>7 DEF Leave, End, TypeOK
  <2>4. abandoned' \in Loads \cup {0}
    BY <1>7, <2>1 DEF Leave, TypeOK
  <2> QED BY <1>1, <1>7, <2>1, <2>2, <2>3, <2>4 DEF Leave, TypeOK, Aside
<1> QED BY <1>3, <1>4, <1>5, <1>6, <1>7

\* It keeps types and single flight.
LEMMA HandlerBase ==
  ASSUME Base, NEW h \in Handlers,
         LoadRefused(h) \/ LoadStopped(h) \/ Release(h) \/ Leave(h) \/ LeaveUnload(h)
  PROVE  Base'
<1> USE DEF Base
<1>1. /\ Aside
      /\ pc' = [pc EXCEPT ![h] = pc'[h]] /\ on' = [on EXCEPT ![h] = on'[h]]
      /\ pc'[h] \in {"done", "cancelled", "failed", "inherited", "stopping"}
      /\ on'[h] \in {0, on[h]} /\ (pc'[h] = "stopping" => on'[h] \in Loads)
      /\ {waiterTask, abandoned}' \subseteq Loads \cup {0}
      /\ active' \in Nat /\ waiters' \in Nat /\ cancels' \in Nat /\ faults' \in Nat
      /\ UNCHANGED <<unloadVars, sdVars>>
  BY HandlerEffect
<1>2. /\ Loads' = Loads
      /\ {engine, loading, waiterTask, abandoned}' \subseteq Loads' \cup {0}
  BY <1>1 DEF Aside, Marks, Loads, TypeOK
<1>3. pc' \in [Handlers -> Waiting \cup
             {"idle", "holding", "done", "cancelled", "failed", "inherited"}]
      /\ on' \in [Handlers -> Nat]
  BY <1>1, SMTT(30) DEF TypeOK, Waiting
<1>4. TypeOK'
  BY <1>1, <1>2, <1>3 DEF TypeOK, Aside, Marks, LoadRecord, EngineStates, unloadVars, sdVars
<1>5. OnALoad'
  BY <1>1, <1>2 DEF OnALoad, TypeOK
<1> QED BY <1>1, <1>4, <1>5, AsideKeeps

\* A load goes on, in one of the five ways.
LEMMA LoadBase ==
  ASSUME Base, NEW l \in Loads, LoadStep(l) \/ LoadError(l)
  PROVE  Base'
<1> USE DEF Base
<1>1. /\ loads[l].at \in Live /\ Frame /\ faults' \in Nat
      /\ loads' \in Seq(LoadRecord) /\ Len(loads') = Len(loads)
      /\ \A k \in Loads : k # l => loads'[k] = loads[k]
      /\ GoesOn(l) \/ Returns(l) \/ IsUndone(l) \/ IsLost(l) \/ IsDropped(l)
  BY LoadEffect
<1>2. Loads' = Loads /\ loading = l /\ l # 0 /\ engine = 0 /\ unloading = 0
  BY <1>1 DEF SingleFlight, OneLoadAtATime, Loads
<1>3. TypeOK'
  <2>1. /\ {engine, loading, waiterTask, abandoned}' \subseteq Loads' \cup {0}
        /\ state' \in {"unloaded", "loading", "loaded", "unloading", "failed"}
    BY <1>1, <1>2 DEF Frame, GoesOn, Returns, IsUndone, IsLost, IsDropped, Resident, TypeOK
  <2> QED BY <1>1, <2>1 DEF TypeOK, Frame, LoadRecord, EngineStates
<1>4. OnALoad'
  BY <1>1, <1>2 DEF OnALoad, Frame
<1>5. SingleFlight'
  <2>1. \A k \in Loads : k # l => loads'[k].at \notin Live
    BY <1>1, <1>2 DEF SingleFlight, OneLoadAtATime
  <2>2. CASE GoesOn(l) \/ IsDropped(l)
    BY <1>1, <1>2, <2>1, <2>2 DEF SingleFlight, OneLoadAtATime, GoesOn, IsDropped, Resident, Frame
  <2>3. CASE Returns(l) \/ IsUndone(l) \/ IsLost(l)
    BY <1>1, <1>2, <2>1, <2>3
       DEF SingleFlight, OneLoadAtATime, Returns, IsUndone, IsLost, Frame, Live
  <2> QED BY <1>1, <2>2, <2>3
<1> QED BY <1>3, <1>4, <1>5

\* The unload task works on the resident engine only, whose load has returned.
LEMMA UnloadEffect ==
  ASSUME Base, UnloadGoesOn \/ UnloadEnds
  PROVE  /\ unloading # 0 /\ engine \in Loads /\ loads[engine].at = "returned"
         /\ loads' \in Seq(LoadRecord) /\ Len(loads') = Len(loads)
         /\ \A k \in Loads : /\ loads'[k].at = loads[k].at
                             /\ loads'[k].cancel = loads[k].cancel
                             /\ k # engine => loads'[k].engine = loads[k].engine
         /\ UnloadGoesOn => (unloadAt' = "hook" /\ loads' = loads) \/ unloadAt' = "stop"
         /\ UnloadEnds => loads'[engine].engine = "stopped"
<1>1. unloading # 0 /\ engine \in Loads /\ loads[engine].at = "returned"
  BY DEF UnloadGoesOn, UnloadEnds, Base, SingleFlight, TypeOK
<1>2. \/ loads' = loads /\ UnloadGoesOn /\ unloadAt' = "hook"
      \/ loads' = [loads EXCEPT ![engine].engine = "stopping"]
           /\ UnloadGoesOn /\ unloadAt' = "stop"
      \/ loads' = [loads EXCEPT ![engine].engine = "stopped"] /\ UnloadEnds
  BY DEF UnloadGoesOn, UnloadEnds
<1>3. UnloadEnds => ~UnloadGoesOn
  BY DEF UnloadGoesOn, UnloadEnds
<1>4. ASSUME NEW e \in EngineStates, loads' = [loads EXCEPT ![engine].engine = e]
      PROVE  SameBut(loads, loads', engine, loads[engine].at, loads[engine].cancel, e)
  BY <1>1, <1>4, EngineMoved DEF Base
<1>5. {"stopping", "stopped"} \subseteq EngineStates
  BY DEF EngineStates
<1>6. loads \in Seq(LoadRecord)
  BY <1>1, RecordType DEF Base
<1> QED BY <1>1, <1>2, <1>3, <1>4, <1>5, <1>6 DEF SameBut, Loads

\* The unload task, from its creation to its end.
LEMMA UnloadBase ==
  ASSUME Base, UnloadIfIdle \/ UnloadGoesOn \/ UnloadEnds \/ UnloadRaises
  PROVE  Base'
<1> USE DEF Base
<1>1. CASE UnloadIfIdle
  <2>1. TypeOK'
    BY <1>1 DEF UnloadIfIdle, CreateUnload, counts, callVars, sdVars, TypeOK, Loads
  <2>2. SingleFlight'
    BY <1>1 DEF UnloadIfIdle, CreateUnload, Idle, SingleFlight, OneLoadAtATime, TypeOK, Loads
  <2>3. OnALoad'
    BY <1>1 DEF UnloadIfIdle, callVars, OnALoad, Loads
  <2> QED BY <2>1, <2>2, <2>3
<1>2. CASE UnloadGoesOn \/ UnloadEnds
  <2>1. unloading # 0 /\ engine \in Loads /\ loads[engine].at = "returned"
    BY <1>2, UnloadEffect
  <2>2. loads' \in Seq(LoadRecord) /\ Len(loads') = Len(loads)
    BY <1>2, UnloadEffect
  <2>3. \A k \in Loads : loads'[k].at = loads[k].at
    BY <1>2, UnloadEffect
  <2>4. Loads' = Loads
    BY <2>2 DEF Loads
  <2>5. TypeOK'
    BY <1>2, <2>2, <2>4 DEF UnloadGoesOn, UnloadEnds, counts, taskVars, callVars, sdVars,
                            TypeOK, LoadRecord, EngineStates
  <2>6. SingleFlight'
    BY <1>2, <2>1, <2>3, <2>4
       DEF UnloadGoesOn, UnloadEnds, taskVars, SingleFlight, OneLoadAtATime, TypeOK
  <2>7. OnALoad'
    BY <1>2, <2>4 DEF UnloadGoesOn, UnloadEnds, callVars, OnALoad
  <2> QED BY <2>5, <2>6, <2>7
<1>3. CASE UnloadRaises
  <2>1. TypeOK'
    BY <1>3 DEF UnloadRaises, Strike, counts, callVars, sdVars, TypeOK, Loads
  <2>2. SingleFlight'
    BY <1>3 DEF UnloadRaises, SingleFlight, OneLoadAtATime, TypeOK, Loads
  <2>3. OnALoad'
    BY <1>3 DEF UnloadRaises, callVars, OnALoad, Loads
  <2> QED BY <2>1, <2>2, <2>3
<1> QED BY <1>1, <1>2, <1>3

\* shutdown() sets cancellations and unloads.
LEMMA ShutdownEffect ==
  ASSUME Base, Shutdown
  PROVE  Marks /\ sd' # "off" /\ UNCHANGED <<engine, loading>>
<1>1. loads' = loads => Marks
  BY DEF Marks, Base, TypeOK, LoadRecord, EngineStates
<1>2. CASE ShutdownReturns
  BY <1>1, <1>2 DEF ShutdownReturns, taskVars
<1>3. CASE ShutdownTurn
  <2>1. sd' # "off" /\ UNCHANGED <<engine, loading>>
    BY <1>3 DEF ShutdownTurn
  <2>2. \/ loads' = loads
        \/ /\ loading # 0
           /\ loads[loading].at \in Live => loads[loading].at \in CancelAt
           /\ loads' = IF loads[loading].at \in Live
                       THEN [loads EXCEPT ![loading].cancel = TRUE] ELSE loads
    BY <1>3 DEF ShutdownTurn
  <2>3. \/ loads' = loads
        \/ /\ loading \in Loads /\ loads[loading].at \in CancelAt
           /\ loads' = [loads EXCEPT ![loading].cancel = TRUE]
    BY <2>2 DEF Base, TypeOK
  <2> QED BY <1>1, <2>1, <2>3, MarksOrNot DEF Base
<1> QED BY <1>2, <1>3 DEF Shutdown

\* It keeps types and single flight, whatever there is to unload.
LEMMA ShutdownBase ==
  ASSUME Base, Shutdown
  PROVE  Base'
<1> USE DEF Base
<1>1. CASE ShutdownReturns
  <2>1. TypeOK'
    BY <1>1 DEF ShutdownReturns, counts, taskVars, unloadVars, callVars, TypeOK, Loads
  <2>2. SingleFlight' /\ OnALoad'
    BY <1>1 DEF ShutdownReturns, taskVars, unloadVars, callVars, SingleFlight,
                OneLoadAtATime, OnALoad, Loads
  <2> QED BY <2>1, <2>2
<1>2. CASE ShutdownTurn
  <2>1. UNCHANGED <<engine, counts, loading, abandoned, idleUnloads, callVars, cancels,
                    faults>>
    BY <1>2 DEF ShutdownTurn
  <2>2. CASE /\ loading # 0
             /\ loads' = IF loads[loading].at \in Live
                         THEN [loads EXCEPT ![loading].cancel = TRUE] ELSE loads
             /\ sd' = "awaitLoad" /\ sdOn' = loading
             /\ UNCHANGED <<state, unloading, unloads, unloadAt>>
    <3>1. loading \in Loads
      BY <2>2 DEF TypeOK
    <3>2. Aside
      BY <1>2, <2>1, <2>2, ShutdownEffect DEF Aside, Shutdown
    <3>3. Loads' = Loads
      BY <3>2 DEF Aside, Marks, Loads
    <3>4. TypeOK'
      BY <2>1, <2>2, <3>1, <3>2, <3>3 DEF Aside, Marks, counts, callVars, TypeOK, Loads,
                                          LoadRecord, EngineStates
    <3>5. OnALoad'
      BY <2>1, <3>3 DEF callVars, OnALoad
    <3> QED BY <3>2, <3>4, <3>5, AsideKeeps
  <2>3. CASE /\ loading = 0 /\ (engine = 0 \/ state = "unloaded")
             /\ sd' = "done" /\ sdOn' = 0
             /\ UNCHANGED <<loads, state, unloading, unloads, unloadAt>>
    <3>1. TypeOK'
      BY <2>1, <2>3 DEF counts, callVars, TypeOK, Loads
    <3>2. SingleFlight' /\ OnALoad'
      BY <2>1, <2>3 DEF callVars, SingleFlight, OneLoadAtATime, OnALoad, Loads
    <3> QED BY <3>1, <3>2
  <2>4. CASE /\ loading = 0 /\ ~(engine = 0 \/ state = "unloaded")
             /\ IF unloading = 0 THEN CreateUnload
                ELSE UNCHANGED <<state, unloading, unloads, unloadAt>>
             /\ sd' = "awaitUnload" /\ sdOn' = unloading'
             /\ UNCHANGED loads
    <3>1. unloading' # 0 /\ unloading' \in Nat
      BY <2>4 DEF CreateUnload, TypeOK
    <3>2. TypeOK'
      BY <2>1, <2>4, <3>1 DEF CreateUnload, counts, callVars, TypeOK, Loads
    <3>3. SingleFlight'
      BY <2>1, <2>4, <3>1 DEF CreateUnload, SingleFlight, OneLoadAtATime, Loads
    <3>4. OnALoad'
      BY <2>1, <2>4 DEF callVars, OnALoad, Loads
    <3> QED BY <3>2, <3>3, <3>4
  <2> QED BY <1>2, <2>2, <2>3, <2>4 DEF ShutdownTurn
<1> QED BY <1>1, <1>2 DEF Shutdown

\* Who acts in a step.
LEMMA StepKinds ==
  ASSUME TypeOK, Next
  PROVE  \/ \E h \in Handlers : Enters(h)
         \/ \E h \in Handlers : LoadRefused(h) \/ LoadStopped(h) \/ Release(h)
                                  \/ Leave(h) \/ LeaveUnload(h)
         \/ \E l \in Loads : LoadStep(l) \/ LoadError(l)
         \/ UnloadIfIdle \/ UnloadGoesOn \/ UnloadEnds \/ UnloadRaises
         \/ Shutdown
BY EntersWhen DEF Next, HandlerStep

\* Base is inductive.
LEMMA BaseStep ==
  ASSUME Base, [Next]_vars
  PROVE  Base'
<1>1. CASE Next
  BY <1>1, StepKinds, EntersStep, HandlerBase, LoadBase, UnloadBase, ShutdownBase DEF Base
<1>2. CASE UNCHANGED vars
  BY <1>2 DEF vars, counts, taskVars, unloadVars, callVars, sdVars, Base, TypeOK,
              SingleFlight, OneLoadAtATime, OnALoad, Loads
<1> QED BY <1>1, <1>2

\* Base holds at first.
LEMMA BaseInit == Init => Base
BY InitFacts DEF Init, Base, OnALoad

\* Base holds for ever.
LEMMA BaseAlways == Spec => []Base
BY BaseInit, BaseStep, PTL DEF Spec

\* Every variable keeps its type: lifecycle.py's tasks, counters and phases.
THEOREM ResidencyTypeCorrect == Spec => []TypeOK
<1>1. Base => TypeOK
  BY DEF Base
<1> QED BY <1>1, BaseAlways, PTL

\* At most one load is under way, and never beside an unload.
THEOREM OneLoadAlways == Spec => []OneLoadAtATime
<1>1. Base => OneLoadAtATime
  BY DEF Base, SingleFlight
<1> QED BY <1>1, BaseAlways, PTL

--------------------------------------------------------------------------------
(* The counters.                                                             *)

\* The task that the waiters are counted for is the current one, if any is counted.
Counted ==
  /\ CountsExact
  /\ loading # 0 => waiterTask \in {0, loading}
  /\ loading # 0 => \A g \in WaitersOn(loading) : waiterTask = loading

\* w and t are the counter and its task for all the handlers but h.
CountedBut(h, w, t) ==
  /\ w = Cardinality(WaitersOn(t) \ {h})
  /\ loading # 0 => t \in {0, loading}
  /\ loading # 0 => \A g \in WaitersOn(loading) \ {h} : t = loading

\* The sets that are counted are finite.
LEMMA FiniteSets ==
  /\ IsFiniteSet(Holders) /\ Cardinality(Holders) \in Nat
  /\ \A t : IsFiniteSet(WaitersOn(t)) /\ Cardinality(WaitersOn(t)) \in Nat
<1>1. IsFiniteSet(Handlers) /\ Holders \subseteq Handlers
      /\ \A t : WaitersOn(t) \subseteq Handlers
  BY ConstantsAssumption DEF ConstantsAssumption, Holders, WaitersOn
<1>2. IsFiniteSet(Holders) /\ \A t : IsFiniteSet(WaitersOn(t))
  BY <1>1, FS_Subset
<1> QED BY <1>2, FS_CardinalityType

\* What the counters say, in terms of these sets.
LEMMA CountsSets ==
  CountsExact <=> active = Cardinality(Holders) /\ waiters = Cardinality(WaitersOn(waiterTask))
BY DEF CountsExact, Holders, WaitersOn

\* The counter without a waiter that is not counted, or is counted no longer.
LEMMA LessCount ==
  ASSUME Base, Counted, NEW h \in Handlers
  PROVE  /\ pc[h] = "awaitLoad" => CountedBut(h, WaitersLess(on[h]), TaskLess(on[h]))
         /\ pc[h] # "awaitLoad" => CountedBut(h, waiters, waiterTask)
<1> DEFINE W == WaitersOn(waiterTask)
<1>1. IsFiniteSet(W) /\ Cardinality(W) \in Nat /\ waiters = Cardinality(W)
  BY FiniteSets, CountsSets DEF Counted
<1>2. CASE pc[h] # "awaitLoad" \/ on[h] # waiterTask
  <2>1. h \notin W
    BY <1>2 DEF WaitersOn
  <2>2. W \ {h} = W
    BY <2>1
  <2>3. CountedBut(h, waiters, waiterTask)
    BY <1>1, <2>2 DEF Counted, CountedBut
  <2>4. on[h] # waiterTask => WaitersLess(on[h]) = waiters /\ TaskLess(on[h]) = waiterTask
    BY DEF WaitersLess, TaskLess, DropsFrom
  <2> QED BY <1>2, <2>3, <2>4
<1>3. CASE pc[h] = "awaitLoad" /\ on[h] = waiterTask
  <2>1. h \in W
    BY <1>3 DEF WaitersOn
  <2>2. IsFiniteSet(W \ {h}) /\ Cardinality(W \ {h}) = waiters - 1 /\ waiters > 0
        /\ Cardinality(W \ {h}) \in Nat
    <3>1. IsFiniteSet(W \ {h}) /\ Cardinality(W \ {h}) = Cardinality(W) - 1
      BY <1>1, <2>1, FS_RemoveElement
    <3>2. Cardinality(W \ {h}) \in Nat
      BY <3>1, FS_CardinalityType
    <3> QED BY <1>1, <3>1, <3>2
  <2>3. WaitersLess(on[h]) = waiters - 1
        /\ TaskLess(on[h]) = (IF waiters = 1 THEN 0 ELSE waiterTask)
    BY <1>3, <2>2 DEF WaitersLess, TaskLess, DropsFrom
  <2>4. CASE waiters = 1
    <3>1. WaitersOn(0) = {}
      BY DEF WaitersOn, Base, OnALoad, TypeOK, Loads
    <3>2. W \ {h} = {}
      BY <2>2, <2>4, FS_EmptySet
    <3>3. loading # 0 => WaitersOn(loading) \ {h} = {}
      BY <3>2 DEF Counted, WaitersOn
    <3> QED BY <1>1, <1>3, <2>3, <2>4, <3>1, <3>3, FS_EmptySet DEF CountedBut
  <2>5. CASE waiters # 1
    BY <1>3, <2>2, <2>3, <2>5 DEF Counted, CountedBut
  <2> QED BY <2>4, <2>5
<1> QED BY <1>2, <1>3

\* The waiters on a task that is itself read after the step.
OnNow(t) == {h \in Handlers : pc'[h] = "awaitLoad" /\ on'[h] = t}

\* The other handlers are counted as before.
LEMMA OthersStay ==
  ASSUME Base, NEW h \in Handlers,
         pc' = [pc EXCEPT ![h] = pc'[h]], on' = [on EXCEPT ![h] = on'[h]]
  PROVE  /\ Holders' \ {h} = Holders \ {h}
         /\ \A t : WaitersOn(t)' \ {h} = WaitersOn(t) \ {h}
<1>1. \A g \in Handlers : g # h => pc'[g] = pc[g] /\ on'[g] = on[g]
  BY DEF Base, TypeOK
<1> QED BY <1>1 DEF Holders, WaitersOn

\* A handler that does not wait for a load now.
LEMMA Recounted ==
  ASSUME Base, NEW h \in Handlers,
         pc' = [pc EXCEPT ![h] = pc'[h]], on' = [on EXCEPT ![h] = on'[h]],
         CountedBut(h, waiters', waiterTask'), loading' = loading,
         pc'[h] # "awaitLoad",
         active' = Cardinality(Holders \ {h}) + (IF pc'[h] = "holding" THEN 1 ELSE 0)
  PROVE  Counted'
<1>1. /\ Holders' \ {h} = Holders \ {h}
      /\ \A t : WaitersOn(t)' \ {h} = WaitersOn(t) \ {h}
  BY OthersStay
<1>2. \A t : WaitersOn(t)' = WaitersOn(t) \ {h}
  <2>1. \A t : h \notin WaitersOn(t)'
    BY DEF WaitersOn
  <2> QED BY <1>1, <2>1
<1>3. active' = Cardinality(Holders')
  <2>1. IsFiniteSet(Holders \ {h}) /\ Cardinality(Holders \ {h}) \in Nat
    BY FiniteSets, FS_Subset, FS_CardinalityType
  <2>2. CASE pc'[h] = "holding"
    <3>1. Holders' = (Holders \ {h}) \cup {h}
      BY <1>1, <2>2 DEF Holders
    <3> QED BY <2>1, <2>2, <3>1, FS_AddElement
  <2>3. CASE pc'[h] # "holding"
    <3>1. Holders' = Holders \ {h}
      BY <1>1, <2>3 DEF Holders
    <3> QED BY <2>1, <2>3, <3>1
  <2> QED BY <2>2, <2>3
<1>4. waiters' = Cardinality(OnNow(waiterTask'))
  BY <1>2 DEF CountedBut, OnNow, WaitersOn
<1>5. loading' # 0 => \A g \in OnNow(loading') : waiterTask' = loading'
  BY <1>2 DEF CountedBut, OnNow, WaitersOn
<1> QED BY <1>3, <1>4, <1>5 DEF CountedBut, Counted, CountsExact, Holders, OnNow, WaitersOn

\* A handler enters, counted out before.
LEMMA EnterCounts ==
  ASSUME Base, Counted, NEW h \in Handlers, NEW w \in Nat, NEW t \in Loads \cup {0},
         CountedBut(h, w, t), pc[h] # "holding", Enter(h, w, t)
  PROVE  Counted'
<1> USE DEF Base
<1>1. /\ pc' = [pc EXCEPT ![h] = pc'[h]] /\ on' = [on EXCEPT ![h] = on'[h]]
      /\ \A k \in WaitersOn(Len(loads) + 1) : FALSE
  <2>1. pc' = [pc EXCEPT ![h] = pc'[h]] /\ on' = [on EXCEPT ![h] = on'[h]]
    BY EnterEffect
  <2> QED BY <2>1 DEF WaitersOn, OnALoad, Loads, TypeOK
<1>2. h \notin Holders /\ Holders \ {h} = Holders /\ active = Cardinality(Holders)
      /\ active \in Nat
  BY CountsSets DEF Counted, Holders, TypeOK
<1>3. CASE GetsEngine(h, w, t) \/ AwaitsUnload(h, w, t)
  BY <1>1, <1>2, <1>3, Recounted DEF GetsEngine, AwaitsUnload, TypeOK
<1>4. ASSUME pc'[h] = "awaitLoad", UNCHANGED active, waiterTask' = loading',
             loading' # 0, on'[h] = loading',
             waiters' = Cardinality(WaitersOn(loading') \ {h}) + 1
      PROVE  Counted'
  <2> DEFINE W == WaitersOn(loading') \ {h}
  <2>1. Holders' \ {h} = Holders \ {h} /\ OnNow(loading') \ {h} = W
    BY <1>1, OthersStay DEF OnNow, WaitersOn
  <2>2. Holders' = Holders
    BY <1>2, <1>4, <2>1 DEF Holders
  <2>3. OnNow(loading') = W \cup {h}
    BY <1>4, <2>1 DEF OnNow
  <2>4. IsFiniteSet(W)
    BY FiniteSets, FS_Subset
  <2>5. Cardinality(W \cup {h}) = Cardinality(W) + 1
    BY <2>4, FS_AddElement
  <2>6. active' = Cardinality(Holders') /\ waiters' = Cardinality(OnNow(waiterTask'))
    BY <1>2, <1>4, <2>2, <2>3, <2>5
  <2> QED BY <1>4, <2>6 DEF Counted, CountsExact, Holders, OnNow, WaitersOn
<1>5. CASE StartsLoad(h)
  <2>1. WaitersOn(loading') \ {h} = {}
    BY <1>1, <1>5 DEF StartsLoad
  <2>2. Cardinality(WaitersOn(loading') \ {h}) + 1 = 1
    BY <2>1, FS_EmptySet
  <2>3. /\ pc'[h] = "awaitLoad" /\ UNCHANGED active /\ waiterTask' = loading'
        /\ loading' # 0 /\ on'[h] = loading' /\ waiters' = 1
    BY <1>5, LenProperties DEF StartsLoad, TypeOK
  <2> QED BY <1>4, <2>2, <2>3
<1>6. CASE JoinsLoad(h, w)
  <2>1. loading # 0 /\ loading' = loading
    BY <1>6 DEF JoinsLoad, NeedsLoad
  <2>2. w = Cardinality(WaitersOn(loading) \ {h})
    <3>1. CASE t = loading
      BY <3>1 DEF CountedBut
    <3>2. CASE t # loading
      <4>1. t = 0 /\ WaitersOn(loading) \ {h} = {}
        BY <2>1, <3>2 DEF CountedBut
      <4>2. WaitersOn(0) \ {h} = {}
        BY DEF WaitersOn, OnALoad, TypeOK, Loads
      <4> QED BY <4>1, <4>2 DEF CountedBut
    <3> QED BY <3>1, <3>2
  <2> QED BY <1>4, <1>6, <2>1, <2>2 DEF JoinsLoad, TypeOK
<1> QED BY <1>3, <1>5, <1>6 DEF Enter

\* A handler gets to an end or leaves.
LEMMA HandlerCounts ==
  ASSUME Base, Counted, NEW h \in Handlers,
         LoadRefused(h) \/ LoadStopped(h) \/ Release(h) \/ Leave(h) \/ LeaveUnload(h)
  PROVE  Counted'
<1> USE DEF Base
<1>1. /\ pc[h] = "awaitLoad" => CountedBut(h, WaitersLess(on[h]), TaskLess(on[h]))
      /\ pc[h] # "awaitLoad" => CountedBut(h, waiters, waiterTask)
  BY LessCount
<1>2. active = Cardinality(Holders) /\ IsFiniteSet(Holders) /\ active \in Nat
  BY CountsSets, FiniteSets DEF Counted, TypeOK
<1>3. pc[h] # "holding" => active = Cardinality(Holders \ {h}) + 0
  <2>1. pc[h] # "holding" => Holders \ {h} = Holders
    BY DEF Holders
  <2> QED BY <1>2, <2>1
<1>4. CASE LoadRefused(h)
  <2>1. /\ pc[h] = "awaitLoad" /\ pc'[h] \in {"failed", "inherited"}
        /\ pc' = [pc EXCEPT ![h] = pc'[h]] /\ on' = [on EXCEPT ![h] = on'[h]]
        /\ waiters' = WaitersLess(on[h]) /\ waiterTask' = TaskLess(on[h])
        /\ UNCHANGED <<active, loading>>
    BY <1>4 DEF LoadRefused, End, TypeOK, taskVars
  <2>2. active' = Cardinality(Holders \ {h}) + (IF pc'[h] = "holding" THEN 1 ELSE 0)
    BY <1>3, <2>1
  <2> QED BY <1>1, <2>1, <2>2, Recounted
<1>5. CASE LoadStopped(h) \/ LeaveUnload(h)
  BY <1>1, <1>2, <1>3, <1>5, Recounted
     DEF LoadStopped, LeaveUnload, End, TypeOK, taskVars, counts
<1>6. CASE Release(h)
  <2>1. h \in Holders
    BY <1>6 DEF Release, Holders
  <2>2. Cardinality(Holders \ {h}) = active - 1 /\ Cardinality(Holders \ {h}) \in Nat
    BY <1>2, <2>1, FS_RemoveElement, FS_CardinalityType
  <2>3. active' = Cardinality(Holders \ {h})
    BY <1>2, <1>6, <2>2 DEF Release, AfterRelease
  <2>4. /\ pc[h] # "awaitLoad" /\ pc'[h] = "done"
        /\ pc' = [pc EXCEPT ![h] = pc'[h]] /\ on' = [on EXCEPT ![h] = on'[h]]
        /\ UNCHANGED <<waiters, waiterTask, loading>>
    BY <1>6 DEF Release, End, TypeOK, taskVars
  <2>5. active' = Cardinality(Holders \ {h}) + (IF pc'[h] = "holding" THEN 1 ELSE 0)
    BY <2>2, <2>3, <2>4
  <2> QED BY <1>1, <2>4, <2>5, Recounted
<1>7. CASE Leave(h)
  <2>1. /\ pc[h] = "awaitLoad" /\ pc'[h] \in {"stopping", "cancelled"}
        /\ pc' = [pc EXCEPT ![h] = pc'[h]] /\ on' = [on EXCEPT ![h] = on'[h]]
        /\ waiters' = WaitersLess(on[h]) /\ waiterTask' = TaskLess(on[h])
        /\ UNCHANGED <<active, loading>>
    BY <1>7 DEF Leave, End, TypeOK
  <2>2. active' = Cardinality(Holders \ {h}) + (IF pc'[h] = "holding" THEN 1 ELSE 0)
    BY <1>3, <2>1
  <2> QED BY <1>1, <2>1, <2>2, Recounted
<1> QED BY <1>4, <1>5, <1>6, <1>7

\* A step of nobody who is counted.
LEMMA StillCounted ==
  ASSUME Base, Counted, UNCHANGED <<active, waiters, waiterTask, pc, on>>,
         loading' \in {loading, 0}
  PROVE  Counted'
BY DEF Counted, CountsExact, WaitersOn

\* The counters and single flight hold on, whoever steps.
LEMMA CountedStep ==
  ASSUME Base, Counted, [Next]_vars
  PROVE  Counted'
<1> USE DEF Base
<1>1. ASSUME NEW h \in Handlers, Acquire(h) \/ UnloadAwaited(h) \/ LoadAwaited(h)
      PROVE  Counted'
  <2>1. /\ pc[h] = "awaitLoad" => CountedBut(h, WaitersLess(on[h]), TaskLess(on[h]))
        /\ pc[h] # "awaitLoad" => CountedBut(h, waiters, waiterTask)
    BY LessCount
  <2>2. /\ WaitersLess(on[h]) \in Nat /\ TaskLess(on[h]) \in Loads \cup {0}
        /\ waiters \in Nat /\ waiterTask \in Loads \cup {0}
    BY LessTypes DEF TypeOK
  <2>3. CASE Acquire(h) \/ UnloadAwaited(h)
    BY <2>1, <2>2, <2>3, EnterCounts DEF Acquire, UnloadAwaited
  <2>4. CASE LoadAwaited(h)
    BY <2>1, <2>2, <2>4, EnterCounts DEF LoadAwaited
  <2> QED BY <1>1, <2>3, <2>4
<1>2. ASSUME NEW h \in Handlers, LoadRefused(h) \/ LoadStopped(h) \/ Release(h)
                                    \/ Leave(h) \/ LeaveUnload(h)
      PROVE  Counted'
  BY <1>2, HandlerCounts
<1>3. ASSUME NEW l \in Loads, LoadStep(l) \/ LoadError(l)
      PROVE  Counted'
  <2>1. Frame /\ (GoesOn(l) \/ Returns(l) \/ IsUndone(l) \/ IsLost(l) \/ IsDropped(l))
    BY <1>3, LoadEffect
  <2> QED BY <2>1, StillCounted
          DEF Frame, GoesOn, Returns, IsUndone, IsLost, IsDropped, Resident
<1>4. CASE UnloadIfIdle \/ UnloadGoesOn \/ UnloadEnds \/ UnloadRaises
  BY <1>4, StillCounted DEF UnloadIfIdle, UnloadGoesOn, UnloadEnds, UnloadRaises,
                            counts, callVars, taskVars
<1>5. CASE Shutdown
  BY <1>5, StillCounted DEF Shutdown, ShutdownTurn, ShutdownReturns, counts, callVars,
                            taskVars
<1>6. CASE UNCHANGED vars
  BY <1>6, StillCounted DEF vars, counts, callVars, taskVars
<1> QED BY <1>1, <1>2, <1>3, <1>4, <1>5, <1>6 DEF Next, HandlerStep

\* The counters start at nobody.
LEMMA CountedInit == Init => Counted
<1> SUFFICES ASSUME Init PROVE Counted
  OBVIOUS
<1>1. Holders = {} /\ \A t : WaitersOn(t) = {}
  BY DEF Init, Holders, WaitersOn
<1> QED BY <1>1, FS_EmptySet DEF Init, Counted, CountsExact, Holders, WaitersOn

\* active_requests and _load_waiters (lifecycle.py) count the handlers that hold
\* the engine and that wait for the current load, exactly, at every await.
THEOREM CountsAlways == Spec => []CountsExact
<1>1. Counted => CountsExact
  BY DEF Counted
<1> QED BY <1>1, BaseInit, BaseStep, CountedInit, CountedStep, PTL DEF Spec

--------------------------------------------------------------------------------
(* The engine that is held.  It fails if stop() raises: the resident counts  *)
(* as loaded again, with an engine that is half stopped.                     *)

\* A load that is about to return has started its engine; the resident engine is
\* started until an unload gets to its stop(); and nobody holds it by then.
Lives ==
  /\ \A l \in Loads : loads[l].at = "hook" => loads[l].engine = "started"
  /\ unloading = 0 <=> unloadAt = "none"
  /\ engine # 0 /\ unloadAt # "stop" => loads[engine].engine = "started"
  /\ sd = "off" /\ unloading # 0 => Holders = {}
  /\ sd = "off" => \A h \in Holders : on[h] = engine /\ engine # 0

\* A step that leaves the resident engine and the unload alone keeps Lives.
LEMMA LivesAside ==
  ASSUME Base, Lives, Marks, UNCHANGED <<engine, unloading, unloadAt, sd>>,
         Holders' \subseteq Holders, \A h \in Holders' : on'[h] = on[h]
  PROVE  Lives'
<1>1. Loads' = Loads
  BY DEF Marks, Loads
<1>2. /\ \A k \in Loads : loads'[k].at = loads[k].at /\ loads'[k].engine = loads[k].engine
      /\ engine # 0 => engine \in Loads
  BY DEF Marks, Base, TypeOK
<1> QED BY <1>1, <1>2 DEF Lives

\* A handler that begins a turn gets the resident engine or another await.
LEMMA LivesEnter ==
  ASSUME Base, Lives, NEW h \in Handlers, Enters(h)
  PROVE  Lives'
<1>1. PICK w \in Nat, t \in Loads \cup {0} :
        /\ Enter(h, w, t)
        /\ UNCHANGED <<engine, unloading, unloadVars, sdVars, cancels, faults>>
  BY DEF Enters
<1>2. /\ Begins \/ UNCHANGED <<state, loading, abandoned, loads>>
      /\ pc' = [pc EXCEPT ![h] = pc'[h]] /\ on' = [on EXCEPT ![h] = on'[h]]
  BY <1>1, EnterEffect DEF Base
<1>3. UNCHANGED <<engine, unloading, unloadAt, sd>>
  BY <1>1 DEF unloadVars, sdVars
<1>4. /\ \A g \in Handlers : g # h => pc'[g] = pc[g] /\ on'[g] = on[g]
      /\ Holders' \ {h} = Holders \ {h}
  BY <1>2, OthersStay DEF Base, TypeOK
<1>5. pc'[h] = "holding" => engine # 0 /\ on'[h] = engine /\ unloading = 0
  BY <1>1 DEF Enter, GetsEngine, AwaitsUnload, StartsLoad, JoinsLoad, Resides, Base,
              TypeOK, SingleFlight
<1>6. /\ sd' = "off" /\ unloading' # 0 => Holders' = {}
      /\ sd' = "off" => \A g \in Holders' : on'[g] = engine' /\ engine' # 0
  BY <1>3, <1>4, <1>5 DEF Lives, Holders
<1>7. CASE Begins
  <2>1. Loads' = Loads \cup {Len(loads) + 1}
    BY <1>7, LenProperties DEF Begins, Loads, Base, TypeOK
  <2> QED BY <1>3, <1>6, <1>7, <2>1 DEF Begins, Lives, NewLoad
<1>8. CASE UNCHANGED loads
  BY <1>3, <1>6, <1>8 DEF Lives, Loads
<1> QED BY <1>2, <1>7, <1>8

\* A load that returns has started its engine, and nobody holds one before.
LEMMA LivesLoad ==
  ASSUME Base, Lives, NEW l \in Loads, LoadStep(l) \/ LoadError(l)
  PROVE  Lives'
<1>1. /\ loads[l].at \in Live /\ Frame
      /\ loads' \in Seq(LoadRecord) /\ Len(loads') = Len(loads)
      /\ \A k \in Loads : k # l => loads'[k] = loads[k]
      /\ GoesOn(l) \/ Returns(l) \/ IsUndone(l) \/ IsLost(l) \/ IsDropped(l)
  BY LoadEffect DEF Base
<1>2. Loads' = Loads /\ loading = l /\ l # 0 /\ engine = 0
  BY <1>1 DEF Base, SingleFlight, OneLoadAtATime, Loads
<1>3. UNCHANGED <<unloading, unloadAt, sd, on>> /\ Holders' = Holders
  BY <1>1 DEF Frame, Holders
<1>4. sd = "off" => Holders = {}
  BY <1>2 DEF Lives
<1>5. \A k \in Loads : loads'[k].at = "hook" => loads'[k].engine = "started"
  <2>1. loads'[l].at = "hook" => loads'[l].engine = "started"
    BY <1>1 DEF GoesOn, Returns, IsUndone, IsLost, IsDropped
  <2> QED BY <1>1, <2>1 DEF Lives
<1>6. engine' # 0 => loads'[engine'].engine = "started"
  BY <1>1, <1>2 DEF GoesOn, Returns, IsUndone, IsLost, IsDropped, Resident, Lives
<1> QED BY <1>2, <1>3, <1>4, <1>5, <1>6 DEF Lives

\* An idle unload begins when the counter says that nobody holds the engine, and
\* ends with no engine, or with the one that its hook refused to let go.
LEMMA LivesUnload ==
  ASSUME Base, Counted, Lives, "stop" \notin Faults,
         UnloadIfIdle \/ UnloadGoesOn \/ UnloadEnds \/ UnloadRaises
  PROVE  Lives'
<1>1. CASE UnloadIfIdle
  <2>1. Holders = {}
    <3>1. Cardinality(Holders) = 0
      BY <1>1, CountsSets DEF Counted, UnloadIfIdle, Idle
    <3> QED BY <3>1, FiniteSets, FS_EmptySet
  <2>2. /\ UNCHANGED <<engine, loads, pc, on, sd>> /\ unloadAt' = "new"
        /\ unloading' # 0 /\ unloading = 0
    BY <1>1 DEF UnloadIfIdle, CreateUnload, Idle, callVars, sdVars, Base, TypeOK
  <2> QED BY <2>1, <2>2 DEF Lives, Holders, Loads
<1>2. CASE UnloadGoesOn \/ UnloadEnds
  <2>1. /\ unloading # 0 /\ engine \in Loads /\ loads[engine].at = "returned"
        /\ Loads' = Loads
        /\ \A k \in Loads : /\ loads'[k].at = loads[k].at
                            /\ k # engine => loads'[k].engine = loads[k].engine
        /\ UnloadGoesOn => (unloadAt' = "hook" /\ loads' = loads) \/ unloadAt' = "stop"
    BY <1>2, UnloadEffect DEF Loads
  <2>2. UNCHANGED <<pc, on, sd>> /\ Holders' = Holders
    BY <1>2 DEF UnloadGoesOn, UnloadEnds, callVars, sdVars, Holders
  <2>3. sd = "off" => Holders = {}
    BY <2>1 DEF Lives
  <2>4. \A k \in Loads : loads'[k].at = "hook" => loads'[k].engine = "started"
    BY <2>1 DEF Lives
  <2>5. CASE UnloadGoesOn
    <3>1. UNCHANGED <<engine, unloading>> /\ unloadAt \in {"new", "hook"}
      BY <2>5 DEF UnloadGoesOn, taskVars
    <3> QED BY <2>1, <2>2, <2>3, <2>4, <2>5, <3>1 DEF Lives
  <2>6. CASE UnloadEnds
    <3>1. engine' = 0 /\ unloading' = 0 /\ unloadAt' = "none"
      BY <2>6 DEF UnloadEnds
    <3> QED BY <2>1, <2>2, <2>3, <2>4, <3>1 DEF Lives
  <2> QED BY <1>2, <2>5, <2>6
<1>3. CASE UnloadRaises
  <2>1. /\ UNCHANGED <<engine, loads, pc, on, sd>> /\ unloadAt' = "none"
        /\ unloading' = 0 /\ unloading # 0 /\ unloadAt = "hook"
    BY <1>3 DEF UnloadRaises, Strike, callVars, sdVars
  <2> QED BY <2>1 DEF Lives, Holders, Loads
<1> QED BY <1>1, <1>2, <1>3

\* Lives holds on, whoever steps.
LEMMA LivesStep ==
  ASSUME Base, Counted, Lives, "stop" \notin Faults, [Next]_vars
  PROVE  Lives'
<1>1. ASSUME NEW h \in Handlers, Enters(h) PROVE Lives'
  BY <1>1, LivesEnter
<1>2. ASSUME NEW h \in Handlers, LoadRefused(h) \/ LoadStopped(h) \/ Release(h)
                                    \/ Leave(h) \/ LeaveUnload(h)
      PROVE  Lives'
  <2>1. /\ Aside
        /\ pc' = [pc EXCEPT ![h] = pc'[h]] /\ on' = [on EXCEPT ![h] = on'[h]]
        /\ pc'[h] # "holding" /\ UNCHANGED <<unloadVars, sdVars>>
    BY <1>2, HandlerEffect
  <2>2. Holders' \subseteq Holders /\ \A g \in Holders' : on'[g] = on[g]
    BY <2>1 DEF Holders, Base, TypeOK
  <2> QED BY <2>1, <2>2, LivesAside DEF Aside, unloadVars, sdVars
<1>3. ASSUME NEW l \in Loads, LoadStep(l) \/ LoadError(l) PROVE Lives'
  BY <1>3, LivesLoad
<1>4. CASE UnloadIfIdle \/ UnloadGoesOn \/ UnloadEnds \/ UnloadRaises
  BY <1>4, LivesUnload
<1>5. CASE Shutdown
  <2>1. Marks /\ sd' # "off" /\ UNCHANGED engine
    BY <1>5, ShutdownEffect
  <2>2. Loads' = Loads /\ (engine # 0 => engine \in Loads)
    BY <2>1 DEF Marks, Loads, Base, TypeOK
  <2>3. \/ UNCHANGED <<unloading, unloadAt>>
        \/ unloading = 0 /\ unloading' # 0 /\ unloadAt' = "new"
    BY <1>5 DEF Shutdown, ShutdownTurn, ShutdownReturns, CreateUnload, taskVars,
                unloadVars, Base, TypeOK
  <2> QED BY <2>1, <2>2, <2>3 DEF Lives, Marks
<1>6. CASE UNCHANGED vars
  BY <1>6 DEF vars, unloadVars, callVars, sdVars, Lives, Loads, Holders, taskVars
<1> QED BY <1>1, <1>2, <1>3, <1>4, <1>5, <1>6, StepKinds DEF Base

\* Until shutdown() is called, whoever holds the engine holds the resident one,
\* started and not on its way out (lifecycle.py, acquire and unload_if_idle),
\* unless the engine's stop() raises.
THEOREM HeldEngineAlways ==
  ASSUME "stop" \notin Faults
  PROVE  Spec => []HeldEngineLives
<1>1. Init => Lives
  BY DEF Init, Lives, Loads, Holders
<1>2. Base /\ Counted /\ Lives /\ [Next]_vars => Lives'
  BY LivesStep
<1>3. Base /\ Lives => HeldEngineLives
  BY DEF Lives, HeldEngineLives, Holders, Base, TypeOK
<1> QED BY <1>1, <1>2, <1>3, BaseInit, BaseStep, CountedInit, CountedStep, PTL DEF Spec

--------------------------------------------------------------------------------
(* Loads unwind to their end, if no cancellation reaches one before its      *)
(* first step or while it stops its engine, and uncancel() works.            *)

\* Where a cancellation does no harm.
SafeCancels ==
  CancelAt \cap {"new", "failing", "undo"} = {} /\ RecancelSticks = FALSE

\* No cancellation is due where the clean-up would be skipped; the current load is
\* under way; and every engine in memory has a name.
Unwinds ==
  /\ \A l \in Loads : loads[l].at \in {"new", "failing", "undo"} => ~loads[l].cancel
  /\ LoadTaskLive
  /\ NoStrayEngine

\* Cancellations fall due only where they do no harm.
LEMMA UnwindsMarks ==
  ASSUME SafeCancels, Base, Unwinds, Marks, UNCHANGED <<engine, loading>>
  PROVE  Unwinds'
<1>1. Loads' = Loads /\ (loading # 0 => loading \in Loads)
  BY DEF Marks, Loads, Base, TypeOK
<1>2. \A l \in Loads : loads'[l].at \in {"new", "failing", "undo"} => ~loads'[l].cancel
  <2> SUFFICES ASSUME NEW l \in Loads, loads'[l].at \in {"new", "failing", "undo"}
               PROVE  ~loads'[l].cancel
    OBVIOUS
  <2>1. loads[l].at \in {"new", "failing", "undo"} /\ loads[l].at \notin CancelAt
        /\ ~loads[l].cancel
    BY DEF Marks, Unwinds, SafeCancels
  <2>2. loads'[l].cancel = loads[l].cancel
    BY <2>1 DEF Marks
  <2> QED BY <2>1, <2>2
<1>3. LoadTaskLive' /\ NoStrayEngine'
  BY <1>1 DEF Unwinds, LoadTaskLive, NoStrayEngine, Marks
<1> QED BY <1>1, <1>2, <1>3 DEF Unwinds

\* A new load is current, has not begun and has no engine.
LEMMA UnwindsEnter ==
  ASSUME Base, Unwinds, NEW h \in Handlers, Enters(h)
  PROVE  Unwinds'
<1>1. PICK w \in Nat, t \in Loads \cup {0} :
        /\ Enter(h, w, t)
        /\ UNCHANGED <<engine, unloading, unloadVars, sdVars, cancels, faults>>
  BY DEF Enters
<1>2. Begins \/ UNCHANGED <<state, loading, abandoned, loads>>
  BY <1>1, EnterEffect DEF Base
<1>3. CASE Begins
  <2>1. Loads' = Loads \cup {Len(loads) + 1}
    BY <1>3, LenProperties DEF Begins, Loads, Base, TypeOK
  <2> QED BY <1>1, <1>3, <2>1
          DEF Begins, Unwinds, LoadTaskLive, NoStrayEngine, NewLoad, Live
<1>4. CASE UNCHANGED <<loading, loads>>
  BY <1>1, <1>4 DEF Unwinds, LoadTaskLive, NoStrayEngine, Loads
<1> QED BY <1>2, <1>3, <1>4

\* A load that ends has handed its engine over or stopped it.
LEMMA UnwindsLoad ==
  ASSUME SafeCancels, Base, Unwinds, NEW l \in Loads, LoadStep(l) \/ LoadError(l)
  PROVE  Unwinds'
<1>1. /\ loads[l].at \in Live
      /\ loads' \in Seq(LoadRecord) /\ Len(loads') = Len(loads)
      /\ \A k \in Loads : k # l => loads'[k] = loads[k]
      /\ GoesOn(l) \/ Returns(l) \/ IsUndone(l) \/ IsLost(l) \/ IsDropped(l)
  BY LoadEffect DEF Base
<1>2. /\ Loads' = Loads /\ loading = l /\ l # 0 /\ engine = 0
      /\ \A k \in Loads : k # l => loads[k].at \notin Live
  BY <1>1 DEF Base, SingleFlight, OneLoadAtATime, Loads
<1>3. \A k \in Loads : k # l => loads'[k].engine \notin {"made", "started", "stopping"}
  BY <1>1, <1>2 DEF Unwinds, NoStrayEngine, Loads
<1>4. ~IsDropped(l)
  BY DEF Unwinds, IsDropped
<1>5. \A k \in Loads : loads'[k].at \in {"new", "failing", "undo"} => ~loads'[k].cancel
  <2>1. loads'[l].at \in {"new", "failing", "undo"} => ~loads'[l].cancel
    BY <1>1, <1>4 DEF GoesOn, Returns, IsUndone, IsLost, SafeCancels
  <2> QED BY <1>1, <2>1 DEF Unwinds
<1>6. LoadTaskLive'
  BY <1>1, <1>2, <1>4 DEF LoadTaskLive, GoesOn, Returns, IsUndone, IsLost, Resident
<1>7. NoStrayEngine'
  BY <1>1, <1>2, <1>3, <1>4 DEF NoStrayEngine, GoesOn, Returns, IsUndone, IsLost
<1> QED BY <1>2, <1>5, <1>6, <1>7 DEF Unwinds

\* An unload that ends has stopped the engine it forgets.
LEMMA UnwindsUnload ==
  ASSUME Base, Unwinds, UnloadIfIdle \/ UnloadGoesOn \/ UnloadEnds \/ UnloadRaises
  PROVE  Unwinds'
<1>1. CASE UnloadIfIdle \/ UnloadRaises
  BY <1>1 DEF UnloadIfIdle, UnloadRaises, Unwinds, LoadTaskLive, NoStrayEngine, Loads
<1>2. CASE UnloadGoesOn \/ UnloadEnds
  <2>1. /\ unloading # 0 /\ engine \in Loads /\ Loads' = Loads
        /\ \A k \in Loads : /\ loads'[k].at = loads[k].at
                            /\ loads'[k].cancel = loads[k].cancel
                            /\ k # engine => loads'[k].engine = loads[k].engine
        /\ UnloadEnds => loads'[engine].engine = "stopped"
    BY <1>2, UnloadEffect DEF Loads
  <2>2. UNCHANGED loading /\ (loading # 0 => loading \in Loads)
    BY <1>2 DEF UnloadGoesOn, UnloadEnds, taskVars, Base, TypeOK
  <2>3. UnloadGoesOn => UNCHANGED engine
    BY DEF UnloadGoesOn
  <2> QED BY <1>2, <2>1, <2>2, <2>3 DEF Unwinds, LoadTaskLive, NoStrayEngine
<1> QED BY <1>1, <1>2

\* Unwinds holds on, whoever steps.
LEMMA UnwindsStep ==
  ASSUME SafeCancels, Base, Unwinds, [Next]_vars
  PROVE  Unwinds'
<1>1. ASSUME NEW h \in Handlers, LoadRefused(h) \/ LoadStopped(h) \/ Release(h)
                                    \/ Leave(h) \/ LeaveUnload(h)
      PROVE  Unwinds'
  BY <1>1, HandlerEffect, UnwindsMarks DEF Aside
<1>2. CASE Shutdown
  BY <1>2, ShutdownEffect, UnwindsMarks
<1>3. CASE UNCHANGED vars
  BY <1>3 DEF vars, taskVars, Unwinds, LoadTaskLive, NoStrayEngine, Loads
<1> QED BY <1>1, <1>2, <1>3, UnwindsEnter, UnwindsLoad, UnwindsUnload, StepKinds DEF Base

\* Unwinds holds for ever.
LEMMA UnwindsAlways ==
  ASSUME SafeCancels
  PROVE  Spec => []Unwinds
<1>1. Init => Unwinds
  BY DEF Init, Unwinds, LoadTaskLive, NoStrayEngine, Loads
<1>2. Base /\ Unwinds /\ [Next]_vars => Unwinds'
  BY UnwindsStep
<1> QED BY <1>1, <1>2, BaseInit, BaseStep, PTL DEF Spec

\* _loading_task (lifecycle.py) is a task that still runs: nobody awaits a finished
\* load for ever.
THEOREM LoadTaskLiveAlways ==
  ASSUME SafeCancels
  PROVE  Spec => []LoadTaskLive
<1>1. Unwinds => LoadTaskLive
  BY DEF Unwinds
<1> QED BY <1>1, UnwindsAlways, PTL

\* However loads fail, are cancelled and are undone, an engine that is in memory is
\* the resident one or its load is still under way.
THEOREM NoStrayAlways ==
  ASSUME SafeCancels
  PROVE  Spec => []NoStrayEngine
<1>1. Unwinds => NoStrayEngine
  BY DEF Unwinds
<1> QED BY <1>1, UnwindsAlways, PTL

================================================================================
