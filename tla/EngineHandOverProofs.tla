------------------------- MODULE EngineHandOverProofs -------------------------
(***************************************************************************)
(* The hand-over from scheduler to client: HandOver is an inductive        *)
(* invariant of EngineScheduler, so each of its parts is an invariant for  *)
(* every value of the constants, errors and pauses of every kind included. *)
(*                                                                         *)
(* The steps fall into families.  Between steps of the scheduler that make *)
(* no output, requests only move (MoveStep); the trainer can only take     *)
(* requests out of running (TrainerStep); a step that fails turns its      *)
(* requests into error outputs (ErrorStep).  What is left is the making,   *)
(* the clean-up and the delivery of outputs, and the steps of the clients. *)
(***************************************************************************)
EXTENDS EngineScheduler, QueueLemmas, FiniteSetTheorems, TLAPS

--------------------------------------------------------------------------------
(* Type correctness.                                                         *)

\* The block that _reschedule_running_requests pushes at the left of the queue
\* is a sequence of requests.
LEMMA BlockIsASeq ==
  ASSUME ConstantsAssumption, running \subseteq Requests
  PROVE  [1..Cardinality(running) -> running] \subseteq Seq(Requests)
<1>1. IsFiniteSet(running)
  BY FS_Subset DEF ConstantsAssumption
<1>2. Cardinality(running) \in Nat
  BY <1>1, FS_CardinalityType
<1> QED BY <1>2

\* The queue after a restart is the block followed by the old queue.
LEMMA RestartQueue ==
  ASSUME ConstantsAssumption, TypeOK, RestartRunning
  PROVE  /\ waiting' \in Seq(Requests)
         /\ \E s \in Seq(Requests) : NewestFirst(s) /\ waiting' = s \o waiting
<1>1. PICK s \in [1..Cardinality(running) -> running] :
        NewestFirst(s) /\ waiting' = s \o waiting
  BY DEF RestartRunning
<1>2. s \in Seq(Requests) /\ waiting \in Seq(Requests)
  BY BlockIsASeq DEF TypeOK
<1>3. s \o waiting \in Seq(Requests)
  BY <1>2
<1> QED BY <1>1, <1>2, <1>3

\* Discarding the batch leaves everything of it well typed.
LEMMA DiscardTypes ==
  ASSUME TypeOK, DiscardBatch
  PROVE  /\ bgOpen' \in BOOLEAN /\ bgParams' \in SamplerParams \cup {NoParams}
         /\ bgNext' \in Nat
         /\ DOMAIN seqs' \subseteq Nat /\ \A u \in DOMAIN seqs' : seqs'[u] \in Int
         /\ DOMAIN uidOf' \subseteq Requests
         /\ \A r \in DOMAIN uidOf' : uidOf'[r] \in Nat
         /\ DOMAIN reqOf' \subseteq Nat
         /\ \A u \in DOMAIN reqOf' : reqOf'[u] \in Requests
<1>1. DOMAIN Empty = {}
  BY DEF Empty
<1> QED BY <1>1 DEF TypeOK, DiscardBatch

\* And so does aborting the requests in it.
LEMMA AbortTypes ==
  ASSUME TypeOK, NEW STATE victims, AbortRunning(victims)
  PROVE  /\ running' \subseteq Requests /\ status' \in [Requests -> Statuses]
         /\ out' \in [Requests -> Output]
         /\ UNCHANGED <<arrival, nout>>
<1>1. \A r \in Requests : [tok |-> out[r].tok, fin |-> "error"] \in Output
  BY DEF TypeOK, Output, FinishReasons
<1>2. out' \in [Requests -> Output]
  BY <1>1 DEF TypeOK, AbortRunning
<1>3. status' \in [Requests -> Statuses]
  BY DEF TypeOK, AbortRunning, Statuses
<1> QED BY <1>2, <1>3 DEF AbortRunning

\* Every step keeps the types.
LEMMA TypeStep ==
  ASSUME ConstantsAssumption, TypeOK, [Next]_vars
  PROVE  TypeOK'
<1> USE DEF TypeOK, schedVars, bgVars, stepVars, clientVars, pauseVars, StepPcs,
             StepThread, NotFin, NoOutput, Output, FinishReasons, Statuses, Clients,
             Watching
<1>1. CASE IdleTick
  BY <1>1 DEF IdleTick, vars
<1>2. CASE SubmitStep
  BY <1>2 DEF SubmitStep
<1>3. CASE BeginStep
  BY <1>3 DEF BeginStep
<1>4. CASE AbortsDone
  BY <1>4 DEF AbortsDone
<1>5. CASE ScheduleOne
  <2> DEFINE r     == Head(waiting)
             fresh == NeedsNewBatch(r)
             uid   == IF fresh THEN 0 ELSE bgNext
             old   == IF fresh THEN Empty ELSE seqs
  <2>1. waiting \in Seq(Requests) /\ waiting # <<>>
    BY <1>5 DEF ScheduleOne, HasRoom
  <2>2. Tail(waiting) \in Seq(Requests) /\ r \in Requests
    BY <2>1, TailOfQueue
  <2>3. uid \in Nat
    OBVIOUS
  <2>4. PICK k \in 0..MaxPrefill :
          seqs' = [u \in DOMAIN old \cup {uid} |-> IF u = uid THEN -k ELSE old[u]]
    BY <1>5 DEF ScheduleOne
  <2>5. DOMAIN old \subseteq Nat /\ \A u \in DOMAIN old : old[u] \in Int
    BY DEF Empty
  <2>6. DOMAIN seqs' \subseteq Nat /\ \A u \in DOMAIN seqs' : seqs'[u] \in Int
    <3> HIDE DEF uid, old
    <3>1. k \in Nat
      BY DEF ConstantsAssumption
    <3> QED BY <2>3, <2>4, <2>5, <3>1
  <2>7. /\ waiting' \in Seq(Requests)
        /\ running' \subseteq Requests
        /\ status' \in [Requests -> Statuses]
        /\ bgOpen' \in BOOLEAN
        /\ bgNext' \in Nat
        /\ DOMAIN uidOf' \subseteq Requests
        /\ \A x \in DOMAIN uidOf' : uidOf'[x] \in Nat
        /\ DOMAIN reqOf' \subseteq Nat
        /\ \A u \in DOMAIN reqOf' : reqOf'[u] \in Requests
    <3> HIDE DEF fresh
    <3>1. /\ waiting' = Tail(waiting) /\ bgOpen' = TRUE /\ bgNext' = uid + 1
          /\ uidOf' = [x \in DOMAIN uidOf \cup {r} |-> IF x = r THEN uid ELSE uidOf[x]]
          /\ reqOf' = [u \in DOMAIN reqOf \cup {uid} |-> IF u = uid THEN r ELSE reqOf[u]]
          /\ running' = running \cup {r}
          /\ status' = [status EXCEPT ![r] = "running"]
      BY <1>5 DEF ScheduleOne, fresh
    <3> HIDE DEF r, uid
    <3>2. /\ DOMAIN uidOf' \subseteq Requests
          /\ \A x \in DOMAIN uidOf' : uidOf'[x] \in Nat
      BY <2>2, <2>3, <3>1
    <3>3. /\ DOMAIN reqOf' \subseteq Nat
          /\ \A u \in DOMAIN reqOf' : reqOf'[u] \in Requests
      BY <2>2, <2>3, <3>1
    <3>4. status' \in [Requests -> Statuses] /\ running' \subseteq Requests
      BY <2>2, <3>1
    <3>5. waiting' \in Seq(Requests) /\ bgOpen' \in BOOLEAN /\ bgNext' \in Nat
      BY <2>2, <2>3, <3>1
    <3> QED BY <3>2, <3>3, <3>4, <3>5
  <2>8. bgParams' \in SamplerParams \cup {NoParams}
    BY <1>5, <2>2 DEF ScheduleOne, ConstantsAssumption
  <2> QED BY <1>5, <2>6, <2>7, <2>8 DEF ScheduleOne
<1>6. CASE ScheduleFails
  <2>1. waiting' \in Seq(Requests)
    BY <1>6, TailOfQueue DEF ScheduleFails, HasRoom
  <2>2. AbortRunning(running) /\ DiscardBatch
    BY <1>6 DEF ScheduleFails, AbortRunning
  <2>3. /\ running' \subseteq Requests /\ status' \in [Requests -> Statuses]
        /\ out' \in [Requests -> Output] /\ UNCHANGED <<arrival, nout>>
    BY <2>2, AbortTypes
  <2>4. /\ bgOpen' \in BOOLEAN /\ bgParams' \in SamplerParams \cup {NoParams}
        /\ bgNext' \in Nat
        /\ DOMAIN seqs' \subseteq Nat /\ \A u \in DOMAIN seqs' : seqs'[u] \in Int
        /\ DOMAIN uidOf' \subseteq Requests
        /\ \A r \in DOMAIN uidOf' : uidOf'[r] \in Nat
        /\ DOMAIN reqOf' \subseteq Nat
        /\ \A u \in DOMAIN reqOf' : reqOf'[u] \in Requests
    BY <2>2, DiscardTypes
  <2> HIDE DEF Output, Statuses
  <2> QED BY <1>6, <2>1, <2>3, <2>4, SMTT(30) DEF ScheduleFails, Strike
<1>7. CASE ScheduleDone
  BY <1>7 DEF ScheduleDone
<1>8. CASE NothingToDecode
  BY <1>8 DEF NothingToDecode
<1>9. CASE StartDecode
  BY <1>9 DEF StartDecode
<1>10. CASE DecodeOk
  BY <1>10 DEF DecodeOk
<1>11. CASE DecodeCorruptRetry
  <2>1. RestartRunning /\ Strike("corrupt")
    BY <1>11 DEF DecodeCorruptRetry
  <2>2. waiting' \in Seq(Requests)
    BY <2>1, RestartQueue
  <2>3. DiscardBatch
    BY <2>1 DEF RestartRunning
  <2>4. /\ bgOpen' \in BOOLEAN /\ bgParams' \in SamplerParams \cup {NoParams}
        /\ bgNext' \in Nat
        /\ DOMAIN seqs' \subseteq Nat /\ \A u \in DOMAIN seqs' : seqs'[u] \in Int
        /\ DOMAIN uidOf' \subseteq Requests
        /\ \A r \in DOMAIN uidOf' : uidOf'[r] \in Nat
        /\ DOMAIN reqOf' \subseteq Nat
        /\ \A u \in DOMAIN reqOf' : reqOf'[u] \in Requests
    BY <2>3, DiscardTypes
  <2>5. running' \subseteq Requests /\ status' \in [Requests -> Statuses]
    BY <2>1 DEF RestartRunning
  <2> HIDE DEF Output, Statuses
  <2> QED BY <1>11, <2>1, <2>2, <2>4, <2>5
          DEF DecodeCorruptRetry, RestartRunning, Strike
<1>12. CASE DecodeRaises
  BY <1>12 DEF DecodeRaises, Strike
<1>13. CASE DecodeStreamError
  BY <1>13 DEF DecodeStreamError, Strike
<1>14. CASE RecoverStream
  <2>1. RestartRunning
    BY <1>14 DEF RecoverStream
  <2>2. waiting' \in Seq(Requests)
    BY <2>1, RestartQueue
  <2>3. DiscardBatch
    BY <2>1 DEF RestartRunning
  <2>4. /\ bgOpen' \in BOOLEAN /\ bgParams' \in SamplerParams \cup {NoParams}
        /\ bgNext' \in Nat
        /\ DOMAIN seqs' \subseteq Nat /\ \A u \in DOMAIN seqs' : seqs'[u] \in Int
        /\ DOMAIN uidOf' \subseteq Requests
        /\ \A r \in DOMAIN uidOf' : uidOf'[r] \in Nat
        /\ DOMAIN reqOf' \subseteq Nat
        /\ \A u \in DOMAIN reqOf' : reqOf'[u] \in Requests
    BY <2>3, DiscardTypes
  <2>5. running' \subseteq Requests /\ status' \in [Requests -> Statuses]
    BY <2>1 DEF RestartRunning
  <2> HIDE DEF Output, Statuses
  <2> QED BY <1>14, <2>1, <2>2, <2>4, <2>5 DEF RecoverStream, RestartRunning
<1>15. CASE DecodeFatal
  <2>1. AbortRunning(running) /\ DiscardBatch
    BY <1>15 DEF DecodeFatal, AbortRunning
  <2>2. /\ running' \subseteq Requests /\ status' \in [Requests -> Statuses]
        /\ out' \in [Requests -> Output] /\ UNCHANGED <<arrival, nout>>
    BY <2>1, AbortTypes
  <2>3. /\ bgOpen' \in BOOLEAN /\ bgParams' \in SamplerParams \cup {NoParams}
        /\ bgNext' \in Nat
        /\ DOMAIN seqs' \subseteq Nat /\ \A u \in DOMAIN seqs' : seqs'[u] \in Int
        /\ DOMAIN uidOf' \subseteq Requests
        /\ \A r \in DOMAIN uidOf' : uidOf'[r] \in Nat
        /\ DOMAIN reqOf' \subseteq Nat
        /\ \A u \in DOMAIN reqOf' : reqOf'[u] \in Requests
    BY <2>1, DiscardTypes
  <2> HIDE DEF Output, Statuses
  <2> QED BY <1>15, <2>2, <2>3 DEF DecodeFatal, Strike
<1>16. CASE ProcessResponses
  <2> DEFINE hits   == {u \in DOMAIN resp : u \in DOMAIN reqOf /\ reqOf[u] \in running}
             served == {reqOf[u] : u \in hits}
             reason(r) == resp[CHOOSE u \in hits : reqOf[u] = r]
             ended  == {r \in served : reason(r) # NotFin}
  <2>1. served \subseteq running /\ ended \subseteq served
    OBVIOUS
  <2>2. \A r \in served : reason(r) \in {"stop", "length", NotFin}
    <3> SUFFICES ASSUME NEW u \in hits
                 PROVE  reason(reqOf[u]) \in {"stop", "length", NotFin}
      OBVIOUS
    <3>1. (CHOOSE x \in hits : reqOf[x] = reqOf[u]) \in hits
      OBVIOUS
    <3> QED BY <3>1
  <2>3. /\ pc' = "cleanup" /\ fin' = ended /\ resp' = Empty
        /\ nout' = [r \in Requests |-> IF r \in served THEN nout[r] + 1 ELSE nout[r]]
        /\ out' = [r \in Requests |->
                     IF r \in served THEN [tok |-> 1, fin |-> reason(r)] ELSE NoOutput]
        /\ status' = [r \in Requests |->
                        IF r \in ended THEN FinishedStatus(reason(r)) ELSE status[r]]
        /\ UNCHANGED <<waiting, running, arrival, uidOf, reqOf, pending, bgVars,
                       attempt, useWorker, clientVars, pauseVars, faults>>
    BY <1>16 DEF ProcessResponses
  <2> HIDE DEF hits, served, reason, ended
  <2>4. nout' \in [Requests -> Nat]
    BY <2>3
  <2>5. out' \in [Requests -> Output]
    BY <2>2, <2>3
  <2>6. status' \in [Requests -> Statuses]
    BY <2>3 DEF FinishedStatus
  <2>7. DOMAIN resp' = {} /\ fin' \subseteq Requests
    BY <2>1, <2>3 DEF Empty
  <2> HIDE DEF Output, Statuses
  <2> QED BY <2>3, <2>4, <2>5, <2>6, <2>7
<1>17. CASE CleanupFinished
  BY <1>17 DEF CleanupFinished, Drop
<1>18. CASE CleanupFails
  <2>1. PICK cleaned \in SUBSET fin : AbortRunning(running \ cleaned)
    BY <1>18 DEF CleanupFails
  <2>2. DiscardBatch
    BY <2>1 DEF AbortRunning
  <2>3. /\ running' \subseteq Requests /\ status' \in [Requests -> Statuses]
        /\ out' \in [Requests -> Output] /\ UNCHANGED <<arrival, nout>>
    BY <2>1, AbortTypes
  <2>4. /\ bgOpen' \in BOOLEAN /\ bgParams' \in SamplerParams \cup {NoParams}
        /\ bgNext' \in Nat
        /\ DOMAIN seqs' \subseteq Nat /\ \A u \in DOMAIN seqs' : seqs'[u] \in Int
        /\ DOMAIN uidOf' \subseteq Requests
        /\ \A r \in DOMAIN uidOf' : uidOf'[r] \in Nat
        /\ DOMAIN reqOf' \subseteq Nat
        /\ \A u \in DOMAIN reqOf' : reqOf'[u] \in Requests
    BY <2>2, DiscardTypes
  <2> HIDE DEF Output, Statuses
  <2> QED BY <1>18, <2>3, <2>4 DEF CleanupFails, Strike
<1>19. CASE Deliver
  BY <1>19, SMTT(30) DEF Deliver, Merge, NoOutputs
<1>20. CASE PauseKeep
  BY <1>20 DEF PauseKeep
<1>21. CASE PauseAbort
  BY <1>21 DEF PauseAbort
<1>22. CASE DrainEnds
  BY <1>22 DEF DrainEnds
<1>23. CASE BeginLoad
  BY <1>23 DEF BeginLoad
<1>24. CASE EndLoad
  BY <1>24 DEF EndLoad
<1>25. CASE Resume
  BY <1>25 DEF Resume
<1>26. CASE FinishUpdate
  BY <1>26 DEF FinishUpdate
<1>27. CASE \E r \in Requests : ProcessAbort(r)
  <2>1. PICK r \in Requests : ProcessAbort(r)
    BY <1>27
  <2>2. waiting' \in Seq(Requests)
    <3>1. CASE UNCHANGED waiting
      BY <3>1
    <3>2. CASE \E i \in DOMAIN waiting : waiting' = RemoveAt(waiting, i)
      BY <3>2, RemoveFromQueue
    <3> QED BY <2>1, <3>1, <3>2 DEF ProcessAbort
  <2>3. /\ uidOf' = uidOf \/ uidOf' = Drop(uidOf, {r})
        /\ reqOf' = reqOf \/ reqOf' = Drop(reqOf, {uidOf[r]})
        /\ seqs' = seqs \/ seqs' = Drop(seqs, {uidOf[r]})
    BY <2>1 DEF ProcessAbort
  <2>4. /\ DOMAIN uidOf' \subseteq Requests
        /\ \A x \in DOMAIN uidOf' : uidOf'[x] \in Nat
    <3>1. CASE uidOf' = Drop(uidOf, {r})
      BY <3>1 DEF Drop
    <3> QED BY <2>3, <3>1
  <2>5. /\ DOMAIN reqOf' \subseteq Nat
        /\ \A u \in DOMAIN reqOf' : reqOf'[u] \in Requests
    <3>1. CASE reqOf' = Drop(reqOf, {uidOf[r]})
      BY <3>1 DEF Drop
    <3> QED BY <2>3, <3>1
  <2>7. /\ DOMAIN seqs' \subseteq Nat
        /\ \A u \in DOMAIN seqs' : seqs'[u] \in Int
    <3>1. CASE seqs' = Drop(seqs, {uidOf[r]})
      BY <3>1 DEF Drop
    <3> QED BY <2>3, <3>1
  <2>6. status' \in [Requests -> Statuses]
    BY <2>1 DEF ProcessAbort
  <2> QED BY <2>1, <2>2, <2>3, <2>4, <2>5, <2>6, <2>7 DEF ProcessAbort
<1>28. CASE \E r \in Requests : ProcessAbortKeyError(r)
  <2>1. PICK r \in Requests : ProcessAbortKeyError(r)
    BY <1>28
  <2> QED BY <2>1 DEF ProcessAbortKeyError, Drop
<1>29. CASE \E r \in Requests : Submit(r)
  <2>1. PICK r \in Requests : Submit(r)
    BY <1>29
  <2>2. waiting' \in Seq(Requests)
    BY <2>1, AppendToQueue DEF Submit, Enqueue
  <2>3. Cardinality({x \in Requests : client[x] # "idle"}) \in Nat
    BY FS_Subset, FS_CardinalityType DEF ConstantsAssumption
  <2>4. /\ client' = [client EXCEPT ![r] = IF r \in Streamers THEN "stream" ELSE "generate"]
        /\ tracked' = tracked \cup {r}
        /\ inbox' = [inbox EXCEPT ![r] = NoOutput]
        /\ status' = [status EXCEPT ![r] = "waiting"]
        /\ arrival' = [arrival EXCEPT ![r] = Cardinality({x \in Requests : client[x] # "idle"})]
        /\ UNCHANGED <<running, nout, uidOf, reqOf, pending, bgVars, stepVars, useWorker,
                       got, final, pauseVars, faults>>
    BY <2>1 DEF Submit
  <2>5. client' \in [Requests -> Clients] /\ tracked' \subseteq Requests
    BY <2>4
  <2>6. inbox' \in [Requests -> Output]
    <3>1. NoOutput \in Output
      OBVIOUS
    <3> QED BY <2>4, <3>1
  <2>7. status' \in [Requests -> Statuses] /\ arrival' \in [Requests -> Nat]
    BY <2>3, <2>4
  <2> HIDE DEF Output, Statuses, Clients
  <2> QED BY <2>2, <2>4, <2>5, <2>6, <2>7
<1>30. CASE \E r \in Requests : Take(r)
  <2>1. PICK r \in Requests : Take(r)
    BY <1>30
  <2>2. /\ inbox[r].tok \in Nat /\ inbox[r].fin \in FinishReasons \cup {NotFin}
        /\ NoOutput \in Output
    BY <2>1 DEF Take
  <2>3. got' \in [Requests -> Nat]
    BY <2>1, <2>2 DEF Take
  <2>4. final' \in [Requests -> FinishReasons \cup {NotFin}]
    BY <2>1, <2>2 DEF Take
  <2>5. client' \in [Requests -> Clients]
    BY <2>1 DEF Take
  <2>6. inbox' \in [Requests -> Output]
    BY <2>1, <2>2 DEF Take
  <2> HIDE DEF Output, Clients, FinishReasons
  <2> QED BY <2>1, <2>3, <2>4, <2>5, <2>6, SMTT(30) DEF Take
<1>31. CASE \E r \in Requests : Abandon(r)
  <2>1. PICK r \in Requests : Abandon(r)
    BY <1>31
  <2> QED BY <2>1 DEF Abandon
<1>32. CASE \E r \in Requests : CleanupRequest(r)
  <2>1. PICK r \in Requests : CleanupRequest(r)
    BY <1>32
  <2> QED BY <2>1 DEF CleanupRequest
<1>33. CASE \E mode \in {"wait", "update"} : PauseWait(mode)
  BY <1>33 DEF PauseWait
<1>34. CASE UNCHANGED vars
  BY <1>34 DEF vars
<1>35. CASE ScheduleRaises
  <2>1. waiting' \in Seq(Requests)
    BY <1>35, TailOfQueue DEF ScheduleRaises, HasRoom
  <2> HIDE DEF Output, Statuses, Clients
  <2> QED BY <1>35, <2>1, SMTT(30) DEF ScheduleRaises, Strike
<1> QED
  BY <1>1, <1>2, <1>3, <1>4, <1>5, <1>6, <1>7, <1>8, <1>9, <1>10, <1>11, <1>12,
     <1>13, <1>14, <1>15, <1>16, <1>17, <1>18, <1>19, <1>20, <1>21, <1>22, <1>23,
     <1>24, <1>25, <1>26, <1>27, <1>28, <1>29, <1>30, <1>31, <1>32, <1>33, <1>34, <1>35
  DEF Next, EngineProgress, Failure, ClientStep, Trainer

\* The initial state is well typed.
LEMMA TypeInit == ConstantsAssumption /\ Init => TypeOK
<1>1. DOMAIN Empty = {}
  BY DEF Empty
<1>2. NoOutputs \in [Requests -> Output]
  BY DEF NoOutputs, NoOutput, Output
<1>3. <<>> \in Seq(Requests)
  OBVIOUS
<1> SUFFICES ASSUME Init PROVE TypeOK
  OBVIOUS
<1>4. /\ waiting \in Seq(Requests) /\ running \subseteq Requests
      /\ status \in [Requests -> Statuses]
      /\ arrival \in [Requests -> Nat] /\ nout \in [Requests -> Nat]
  BY <1>3 DEF Init, Statuses
<1>5. /\ DOMAIN uidOf = {} /\ DOMAIN reqOf = {} /\ DOMAIN seqs = {} /\ DOMAIN resp = {}
  BY <1>1 DEF Init
<1>6. /\ bgOpen \in BOOLEAN /\ bgParams \in SamplerParams \cup {NoParams} /\ bgNext \in Nat
      /\ pc \in {"idle", "deliver"} \cup StepPcs /\ attempt \in Nat
      /\ fin \subseteq Requests /\ out \in [Requests -> Output]
      /\ pending \subseteq Requests /\ paused \in BOOLEAN /\ useWorker \in BOOLEAN
  BY <1>2 DEF Init
<1>7. /\ tracked \subseteq Requests /\ inbox \in [Requests -> Output]
      /\ client \in [Requests -> Clients] /\ got \in [Requests -> Nat]
      /\ final \in [Requests -> FinishReasons \cup {NotFin}]
      /\ busy \in {"no", "drain", "load"} /\ updating \in BOOLEAN
      /\ faults \in Nat /\ pauses \in Nat
  BY <1>2 DEF Init, Clients
<1> QED BY <1>4, <1>5, <1>6, <1>7 DEF TypeOK

\* The variables of scheduler, engine loop and clients keep their types.
THEOREM TypeCorrect == Spec => []TypeOK
<1>1. Init => TypeOK
  BY TypeInit, ConstantsAssumption
<1>2. TypeOK /\ [Next]_vars => TypeOK'
  BY TypeStep, ConstantsAssumption
<1> QED BY <1>1, <1>2, PTL DEF Spec

--------------------------------------------------------------------------------
(* The hand-over.                                                            *)

\* What NoOutput says of one request.
LEMMA NoOutputFacts ==
  /\ NoOutput.tok = 0 /\ NoOutput.fin = NotFin
  /\ \A r \in Requests : NoOutputs[r] = NoOutput
BY DEF NoOutput, NoOutputs

\* The scheduler moves requests between its queues, or drops them, while it has
\* made no output yet.
LEMMA MoveStep ==
  ASSUME HandOver, pc \notin {"cleanup", "deliver"},
         OnePlace', running' \subseteq DOMAIN uidOf',
         Queued' \cup running' \subseteq Queued \cup running,
         pending' \subseteq pending,
         UNCHANGED <<nout, out, fin, tracked, inbox, client, got, final>>
  PROVE  HandOver'
<1> USE NoOutputFacts
<1>1. RunningHasUid'
  BY DEF RunningHasUid
<1>2. UnknownBeforeSubmit'
  BY DEF HandOver, UnknownBeforeSubmit
<1>3. ConsumersTracked'
  BY DEF HandOver, ConsumersTracked
<1>4. fin = {} /\ out = NoOutputs
  BY DEF HandOver, EndedForAReason, OutputsOfTheStep
<1>5. OutputsOfTheStep'
  BY <1>4 DEF OutputsOfTheStep
<1>6. EndedForAReason'
  BY <1>4 DEF HandOver, EndedForAReason
<1>7. TokensConserved'
  BY DEF HandOver, TokensConserved
<1>8. NothingAfterFinish'
  BY DEF HandOver, NothingAfterFinish
<1> QED BY <1>1, <1>2, <1>3, <1>5, <1>6, <1>7, <1>8 DEF HandOver

\* The trainer takes requests out of running, at whatever point the step is.
LEMMA TrainerStep ==
  ASSUME HandOver, running' \subseteq running,
         UNCHANGED <<waiting, uidOf, nout, pc, out, fin, pending,
                     tracked, inbox, client, got, final>>
  PROVE  HandOver'
<1> Queued' = Queued
  BY DEF Queued
<1>1. OnePlace' /\ RunningHasUid'
  BY DEF HandOver, OnePlace, RunningHasUid
<1>2. UnknownBeforeSubmit'
  BY DEF HandOver, UnknownBeforeSubmit
<1>3. ConsumersTracked'
  BY DEF HandOver, ConsumersTracked
<1>4. OutputsOfTheStep'
  BY DEF HandOver, OutputsOfTheStep
<1>5. EndedForAReason'
  BY DEF HandOver, EndedForAReason
<1>6. TokensConserved'
  BY DEF HandOver, TokensConserved
<1>7. NothingAfterFinish'
  BY DEF HandOver, NothingAfterFinish
<1> QED BY <1>1, <1>2, <1>3, <1>4, <1>5, <1>6, <1>7 DEF HandOver

\* A fatal error: running is emptied, victims get an error output on top of the
\* tokens this step may have made for them.
LEMMA ErrorStep ==
  ASSUME TypeOK, HandOver,
         NEW STATE victims, victims \subseteq running, AbortRunning(victims),
         IsInjective(waiting'), Queued' \subseteq Queued,
         fin' = {}, pc' = "deliver",
         UNCHANGED <<pending, tracked, inbox, client, got, final>>
  PROVE  HandOver'
<1> USE NoOutputFacts
<1>1. /\ running' = {} /\ UNCHANGED nout
      /\ out' = [r \in Requests |-> IF r \in victims
                                    THEN [tok |-> out[r].tok, fin |-> "error"]
                                    ELSE out[r]]
  BY DEF AbortRunning
<1>2. \A r \in Requests : /\ out'[r].tok = out[r].tok
                          /\ r \notin victims => out'[r] = out[r]
  BY <1>1
<1>3. running \cap Queued = {} /\ running \subseteq Requests
  BY DEF HandOver, OnePlace, TypeOK
<1>4. OnePlace' /\ RunningHasUid'
  BY <1>1 DEF OnePlace, RunningHasUid
<1>5. UnknownBeforeSubmit'
  BY <1>1, <1>2 DEF HandOver, UnknownBeforeSubmit
<1>6. ConsumersTracked'
  BY DEF HandOver, ConsumersTracked
<1>7. OutputsOfTheStep'
  BY <1>1, <1>2, <1>3 DEF HandOver, OutputsOfTheStep
<1>8. EndedForAReason'
  BY DEF HandOver, EndedForAReason
<1>9. TokensConserved'
  BY <1>1, <1>2 DEF HandOver, TokensConserved
<1>10. NothingAfterFinish'
  BY <1>1, <1>2 DEF HandOver, NothingAfterFinish
<1> QED BY <1>4, <1>5, <1>6, <1>7, <1>8, <1>9, <1>10 DEF HandOver

\* _process_batch_responses makes the outputs of the step, one token each.
LEMMA ProcessResponsesStep ==
  ASSUME TypeOK, HandOver, ProcessResponses
  PROVE  HandOver'
<1> USE NoOutputFacts
<1> DEFINE hits   == {u \in DOMAIN resp : u \in DOMAIN reqOf /\ reqOf[u] \in running}
           served == {reqOf[u] : u \in hits}
           reason(r) == resp[CHOOSE u \in hits : reqOf[u] = r]
           ended  == {r \in served : reason(r) # NotFin}
<1>1. /\ pc = "process" /\ pc' = "cleanup" /\ fin' = ended
      /\ nout' = [r \in Requests |-> IF r \in served THEN nout[r] + 1 ELSE nout[r]]
      /\ out' = [r \in Requests |->
                   IF r \in served THEN [tok |-> 1, fin |-> reason(r)] ELSE NoOutput]
      /\ UNCHANGED <<waiting, running, uidOf, pending, tracked, inbox, client, got,
                     final>>
  BY DEF ProcessResponses, StepThread, clientVars
<1>2. served \subseteq running /\ ended \subseteq served /\ running \subseteq Requests
  BY DEF TypeOK
<1>3. \A r \in ended : out'[r].fin # NotFin
  BY <1>1, <1>2
<1>4. \A r \in Requests : out'[r].fin # NotFin => r \in ended
  <2> SUFFICES ASSUME NEW r \in Requests, out'[r].fin # NotFin PROVE r \in ended
    OBVIOUS
  <2>1. r \in served
    <3> HIDE DEF served
    <3> QED BY <1>1
  <2>2. out'[r].fin = reason(r)
    <3> HIDE DEF served, reason
    <3> QED BY <1>1, <2>1
  <2> HIDE DEF served, reason
  <2> QED BY <2>1, <2>2
<1> HIDE DEF hits, served, reason, ended
<1>5. out = NoOutputs
  BY <1>1 DEF HandOver, OutputsOfTheStep
<1>6. \A r \in Requests :
        /\ out'[r] # NoOutput => r \in served
        /\ r \in served => out'[r].tok = 1 /\ nout'[r] = nout[r] + 1
        /\ r \notin served => out'[r].tok = 0 /\ nout'[r] = nout[r]
  BY <1>1
<1> Queued' = Queued
  BY <1>1 DEF Queued
<1>7. OnePlace' /\ RunningHasUid'
  BY <1>1 DEF HandOver, OnePlace, RunningHasUid
<1>8. UnknownBeforeSubmit'
  BY <1>1, <1>2, <1>6 DEF HandOver, UnknownBeforeSubmit
<1>9. ConsumersTracked'
  BY <1>1 DEF HandOver, ConsumersTracked
<1>10. OutputsOfTheStep'
  BY <1>1, <1>2, <1>4, <1>6 DEF HandOver, OutputsOfTheStep, OnePlace
<1>11. EndedForAReason'
  BY <1>1, <1>3 DEF HandOver, EndedForAReason
<1>12. TokensConserved'
  <2> SUFFICES ASSUME NEW r \in Requests, client[r] \in Watching \cup {"ending", "done"}
               PROVE  got[r] + inbox[r].tok + out'[r].tok = nout'[r]
    BY <1>1 DEF TokensConserved
  <2>1. got[r] + inbox[r].tok + out[r].tok = nout[r]
    BY DEF HandOver, TokensConserved
  <2>2. out[r].tok = 0
    BY <1>5
  <2>3. got[r] \in Nat /\ inbox[r].tok \in Nat /\ nout[r] \in Nat
    BY DEF TypeOK, Output
  <2> QED BY <1>6, <2>1, <2>2, <2>3
<1>13. NothingAfterFinish'
  BY <1>1, <1>2, <1>6 DEF HandOver, NothingAfterFinish
<1> QED BY <1>7, <1>8, <1>9, <1>10, <1>11, <1>12, <1>13 DEF HandOver

\* _cleanup_finished: the finished requests leave running.
LEMMA CleanupFinishedStep ==
  ASSUME TypeOK, HandOver, CleanupFinished
  PROVE  HandOver'
<1>1. /\ pc = "cleanup" /\ pc' = "deliver" /\ fin' = {} /\ running' = running \ fin
      /\ DOMAIN uidOf' = DOMAIN uidOf \ fin
      /\ UNCHANGED <<waiting, nout, out, pending, tracked, inbox, client, got, final>>
  BY DEF CleanupFinished, StepThread, clientVars, Drop
<1> Queued' = Queued
  BY <1>1 DEF Queued
<1>2. OnePlace' /\ RunningHasUid'
  BY <1>1 DEF HandOver, OnePlace, RunningHasUid
<1>3. UnknownBeforeSubmit'
  BY <1>1 DEF HandOver, UnknownBeforeSubmit
<1>4. ConsumersTracked'
  BY <1>1 DEF HandOver, ConsumersTracked
<1>5. OutputsOfTheStep'
  BY <1>1 DEF HandOver, OutputsOfTheStep
<1>6. EndedForAReason'
  BY <1>1 DEF HandOver, EndedForAReason
<1>7. TokensConserved'
  BY <1>1 DEF HandOver, TokensConserved
<1>8. NothingAfterFinish'
  BY <1>1 DEF HandOver, NothingAfterFinish
<1> QED BY <1>2, <1>3, <1>4, <1>5, <1>6, <1>7, <1>8 DEF HandOver

\* The loop hands the outputs to the collectors that are still there.
LEMMA DeliverStep ==
  ASSUME TypeOK, HandOver, Deliver
  PROVE  HandOver'
<1> USE NoOutputFacts
<1>1. /\ pc = "deliver" /\ pc' = "idle" /\ out' = NoOutputs
      /\ UNCHANGED <<waiting, running, uidOf, nout, fin, pending, tracked, client, got,
                     final>>
  BY DEF Deliver, schedVars
<1>2. \A r \in Requests :
        IF r \in tracked /\ out[r] # NoOutput
        THEN inbox'[r].tok = inbox[r].tok + out[r].tok /\ inbox'[r].fin = out[r].fin
        ELSE inbox'[r] = inbox[r]
  BY DEF Deliver, Merge
<1> Queued' = Queued
  BY <1>1 DEF Queued
<1>3. OnePlace' /\ RunningHasUid'
  BY <1>1 DEF HandOver, OnePlace, RunningHasUid
<1>4. UnknownBeforeSubmit'
  BY <1>1, <1>2 DEF HandOver, UnknownBeforeSubmit
<1>5. ConsumersTracked'
  BY <1>1, <1>2 DEF HandOver, ConsumersTracked, NothingAfterFinish
<1>6. OutputsOfTheStep'
  BY <1>1 DEF OutputsOfTheStep
<1>7. EndedForAReason'
  BY <1>1 DEF HandOver, EndedForAReason
<1>8. TokensConserved'
  <2> SUFFICES ASSUME NEW r \in Requests, client[r] \in Watching \cup {"ending", "done"}
               PROVE  got[r] + inbox'[r].tok + 0 = nout[r]
    BY <1>1 DEF TokensConserved
  <2>1. /\ got[r] \in Nat /\ inbox[r].tok \in Nat /\ out[r].tok \in Nat
        /\ nout[r] \in Nat
    BY DEF TypeOK, Output
  <2>2. got[r] + inbox[r].tok + out[r].tok = nout[r]
    BY DEF HandOver, TokensConserved
  <2>3. out[r] # NoOutput => r \in tracked
    BY DEF HandOver, ConsumersTracked, NothingAfterFinish
  <2> QED BY <1>2, <2>1, <2>2, <2>3
<1>9. NothingAfterFinish'
  BY <1>1, <1>2 DEF HandOver, NothingAfterFinish, OutputsOfTheStep
<1> QED BY <1>3, <1>4, <1>5, <1>6, <1>7, <1>8, <1>9 DEF HandOver

--------------------------------------------------------------------------------
(* The clients.                                                              *)

\* add_request: a request nobody knew joins the queue.
LEMMA SubmitRequestStep ==
  ASSUME TypeOK, HandOver, NEW r \in Requests, Submit(r)
  PROVE  HandOver'
<1> USE NoOutputFacts
<1>1. /\ client[r] = "idle" /\ waiting' = Append(waiting, r)
      /\ tracked' = tracked \cup {r}
      /\ UNCHANGED <<running, uidOf, nout, pc, out, fin, pending, got, final>>
  BY DEF Submit, Enqueue, stepVars
<1>2. /\ client'[r] \in Watching
      /\ \A x \in Requests : x # r => client'[x] = client[x]
      /\ inbox'[r] = NoOutput
      /\ \A x \in Requests : x # r => inbox'[x] = inbox[x]
  BY DEF Submit, TypeOK, Watching
<1>3. r \notin Queued \cup running /\ out[r] = NoOutput /\ final[r] = NotFin
  BY <1>1 DEF HandOver, UnknownBeforeSubmit
<1>4. Queued' = Queued \cup {r} /\ IsInjective(waiting')
  BY <1>1, <1>3, AppendToQueue DEF TypeOK, HandOver, OnePlace, Queued
<1>5. OnePlace' /\ RunningHasUid'
  BY <1>1, <1>3, <1>4 DEF HandOver, OnePlace, RunningHasUid
<1>6. UnknownBeforeSubmit'
  BY <1>1, <1>2, <1>4 DEF HandOver, UnknownBeforeSubmit, Watching
<1>7. ConsumersTracked'
  BY <1>1, <1>2, <1>3 DEF HandOver, ConsumersTracked, Watching
<1>8. OutputsOfTheStep'
  BY <1>1, <1>3, <1>4 DEF HandOver, OutputsOfTheStep
<1>9. EndedForAReason'
  BY <1>1, <1>2 DEF HandOver, EndedForAReason, TypeOK
<1>10. TokensConserved'
  <2>1. got[r] = 0 /\ nout[r] = 0 /\ inbox'[r].tok = 0 /\ out[r].tok = 0
    BY <1>1, <1>2 DEF HandOver, UnknownBeforeSubmit
  <2> QED BY <1>1, <1>2, <2>1 DEF HandOver, TokensConserved
<1>11. NothingAfterFinish'
  BY <1>1, <1>2, <1>3, <1>4 DEF HandOver, NothingAfterFinish
<1> QED BY <1>5, <1>6, <1>7, <1>8, <1>9, <1>10, <1>11 DEF HandOver

\* The consumer takes what its collector holds.
LEMMA TakeStep ==
  ASSUME TypeOK, HandOver, NEW r \in Requests, Take(r)
  PROVE  HandOver'
<1> USE NoOutputFacts
<1>1. /\ client[r] \in Watching
      /\ UNCHANGED <<waiting, running, uidOf, nout, pc, out, fin, pending, tracked>>
  BY DEF Take, schedVars, stepVars
<1>2. /\ inbox'[r] = NoOutput /\ got'[r] = got[r] + inbox[r].tok
      /\ final'[r] = inbox[r].fin
      /\ client'[r] = IF inbox[r].fin # NotFin THEN "ending" ELSE client[r]
  BY DEF Take, TypeOK
<1>3. \A x \in Requests \ {r} : /\ inbox'[x] = inbox[x] /\ got'[x] = got[x]
                                /\ final'[x] = final[x] /\ client'[x] = client[x]
  BY DEF Take, TypeOK
<1> Queued' = Queued
  BY <1>1 DEF Queued
<1>4. OnePlace' /\ RunningHasUid'
  BY <1>1 DEF HandOver, OnePlace, RunningHasUid
<1>5. UnknownBeforeSubmit'
  BY <1>1, <1>2, <1>3 DEF HandOver, UnknownBeforeSubmit, Watching
<1>6. ConsumersTracked'
  BY <1>1, <1>2, <1>3 DEF HandOver, ConsumersTracked, Watching
<1>7. OutputsOfTheStep'
  BY <1>1 DEF HandOver, OutputsOfTheStep
<1>8. EndedForAReason'
  <2>1. r \notin pending
    BY <1>1 DEF HandOver, EndedForAReason, Watching
  <2> QED BY <1>1, <1>3, <2>1 DEF HandOver, EndedForAReason, TypeOK
<1>9. TokensConserved'
  <2>1. got'[r] + inbox'[r].tok + out[r].tok = nout[r]
    <3>1. /\ got[r] \in Nat /\ inbox[r].tok \in Nat /\ out[r].tok \in Nat
      BY DEF TypeOK, Output
    <3>2. got[r] + inbox[r].tok + out[r].tok = nout[r]
      BY <1>1 DEF HandOver, TokensConserved
    <3> QED BY <1>2, <3>1, <3>2
  <2> QED BY <1>1, <1>3, <2>1 DEF HandOver, TokensConserved
<1>10. NothingAfterFinish'
  BY <1>1, <1>2, <1>3 DEF HandOver, NothingAfterFinish
<1> QED BY <1>4, <1>5, <1>6, <1>7, <1>8, <1>9, <1>10 DEF HandOver

\* The consumer leaves: its request is to be aborted.
LEMMA AbandonStep ==
  ASSUME TypeOK, HandOver, NEW r \in Requests, Abandon(r)
  PROVE  HandOver'
<1>1. /\ client[r] \in Watching /\ pending' = pending \cup {r}
      /\ client'[r] = "leaving"
      /\ \A x \in Requests : x # r => client'[x] = client[x]
      /\ UNCHANGED <<waiting, running, uidOf, nout, pc, out, fin, tracked, inbox, got,
                     final>>
  BY DEF Abandon, schedVars, stepVars, TypeOK
<1> Queued' = Queued
  BY <1>1 DEF Queued
<1>2. OnePlace' /\ RunningHasUid'
  BY <1>1 DEF HandOver, OnePlace, RunningHasUid
<1>3. UnknownBeforeSubmit'
  BY <1>1 DEF HandOver, UnknownBeforeSubmit
<1>4. ConsumersTracked'
  BY <1>1 DEF HandOver, ConsumersTracked, Watching
<1>5. OutputsOfTheStep'
  BY <1>1 DEF HandOver, OutputsOfTheStep
<1>6. EndedForAReason'
  BY <1>1 DEF HandOver, EndedForAReason, TypeOK
<1>7. TokensConserved'
  BY <1>1 DEF HandOver, TokensConserved, Watching
<1>8. NothingAfterFinish'
  BY <1>1 DEF HandOver, NothingAfterFinish
<1> QED BY <1>2, <1>3, <1>4, <1>5, <1>6, <1>7, <1>8 DEF HandOver

\* _cleanup_request: the collector of a consumer that ended or left is removed.
LEMMA CleanupRequestStep ==
  ASSUME TypeOK, HandOver, NEW r \in Requests, CleanupRequest(r)
  PROVE  HandOver'
<1> USE NoOutputFacts
<1>1. /\ tracked' = tracked \ {r} /\ inbox'[r] = NoOutput
      /\ \A x \in Requests : x # r => inbox'[x] = inbox[x] /\ client'[x] = client[x]
      /\ UNCHANGED <<waiting, running, uidOf, nout, pc, out, fin, pending, got, final>>
  BY DEF CleanupRequest, schedVars, stepVars, TypeOK
<1>2. \/ client[r] = "leaving" /\ client'[r] = "gone"
      \/ client[r] = "ending" /\ client'[r] = "done"
  BY DEF CleanupRequest, TypeOK
<1> Queued' = Queued
  BY <1>1 DEF Queued
<1>3. OnePlace' /\ RunningHasUid'
  BY <1>1 DEF HandOver, OnePlace, RunningHasUid
<1>4. UnknownBeforeSubmit'
  BY <1>1, <1>2 DEF HandOver, UnknownBeforeSubmit
<1>5. ConsumersTracked'
  BY <1>1, <1>2 DEF HandOver, ConsumersTracked, Watching
<1>6. OutputsOfTheStep'
  BY <1>1 DEF HandOver, OutputsOfTheStep
<1>7. EndedForAReason'
  BY <1>1, <1>2 DEF HandOver, EndedForAReason, TypeOK
<1>8. TokensConserved'
  <2>1. CASE client[r] = "leaving"
    BY <1>1, <1>2, <2>1 DEF HandOver, TokensConserved, Watching
  <2>2. CASE client[r] = "ending"
    <3>1. inbox[r] = NoOutput
      BY <2>2 DEF HandOver, ConsumersTracked
    <3> QED BY <1>1, <1>2, <2>2, <3>1 DEF HandOver, TokensConserved, Watching
  <2> QED BY <1>2, <2>1, <2>2
<1>9. NothingAfterFinish'
  BY <1>1, <1>2 DEF HandOver, NothingAfterFinish
<1> QED BY <1>3, <1>4, <1>5, <1>6, <1>7, <1>8, <1>9 DEF HandOver

--------------------------------------------------------------------------------
(* Every step keeps HandOver.                                                *)

\* The queue after one request was popped.
LEMMA PopKeepsOnePlace ==
  ASSUME TypeOK, HandOver, waiting # <<>>, waiting' = Tail(waiting)
  PROVE  /\ IsInjective(waiting') /\ Queued' \subseteq Queued
         /\ Head(waiting) \in Queued /\ Head(waiting) \notin Queued'
  BY TailOfQueue DEF TypeOK, HandOver, OnePlace, Queued

\* A restart puts the running requests in front of the queue, each once: the
\* running dict is ordered by uid, and no two requests share one.
LEMMA RestartKeepsOnePlace ==
  ASSUME ConstantsAssumption, TypeOK, HandOver, RestartRunning
  PROVE  /\ OnePlace' /\ running' = {}
         /\ Queued' = Queued \cup running
<1>1. PICK s \in Seq(Requests) : NewestFirst(s) /\ waiting' = s \o waiting
  BY RestartQueue
<1>2. ToSet(s) = running /\ running \subseteq DOMAIN uidOf
  BY <1>1 DEF NewestFirst, HandOver, RunningHasUid
<1>3. IsInjective(s)
  <2> SUFFICES ASSUME NEW i \in DOMAIN s, NEW j \in DOMAIN s, s[i] = s[j], i # j
               PROVE  FALSE
    BY DEF IsInjective
  <2>1. uidOf[s[i]] \in Nat /\ uidOf[s[j]] \in Nat
    BY <1>2 DEF ToSet, TypeOK
  <2>2. i < j \/ j < i
    BY <1>1
  <2>3. uidOf[s[i]] > uidOf[s[j]] \/ uidOf[s[j]] > uidOf[s[i]]
    BY <1>1, <2>2 DEF NewestFirst
  <2> QED BY <2>1, <2>3
<1>4. running' = {}
  BY DEF RestartRunning
<1>5. /\ IsInjective(waiting) /\ ToSet(s) \cap ToSet(waiting) = {}
      /\ waiting \in Seq(Requests)
  BY <1>2 DEF HandOver, OnePlace, Queued, TypeOK
<1>6. ToSet(s \o waiting) = ToSet(s) \cup ToSet(waiting) /\ IsInjective(s \o waiting)
  BY <1>1, <1>3, <1>5, PushLeft
<1> QED BY <1>1, <1>2, <1>4, <1>6 DEF OnePlace, Queued

\* HandOver is inductive: one step per action.
LEMMA HandOverStep ==
  ASSUME ConstantsAssumption, TypeOK, HandOver, [Next]_vars
  PROVE  HandOver'
<1> USE DEF schedVars, bgVars, stepVars, clientVars, pauseVars, StepThread
<1>1. CASE SubmitStep
  <2>1. /\ pc \notin {"cleanup", "deliver"}
        /\ UNCHANGED <<waiting, running, uidOf, nout, out, fin, pending,
                       tracked, inbox, client, got, final>>
    BY <1>1 DEF SubmitStep
  <2>2. OnePlace' /\ Queued' = Queued /\ running' \subseteq DOMAIN uidOf'
    BY <2>1 DEF HandOver, OnePlace, Queued, RunningHasUid
  <2> QED BY <2>1, <2>2, MoveStep
<1>2. CASE BeginStep
  <2>1. /\ pc \notin {"cleanup", "deliver"}
        /\ UNCHANGED <<waiting, running, uidOf, nout, out, fin, pending,
                       tracked, inbox, client, got, final>>
    BY <1>2 DEF BeginStep
  <2>2. OnePlace' /\ Queued' = Queued /\ running' \subseteq DOMAIN uidOf'
    BY <2>1 DEF HandOver, OnePlace, Queued, RunningHasUid
  <2> QED BY <2>1, <2>2, MoveStep
<1>3. CASE AbortsDone
  <2>1. /\ pc \notin {"cleanup", "deliver"}
        /\ UNCHANGED <<waiting, running, uidOf, nout, out, fin, pending,
                       tracked, inbox, client, got, final>>
    BY <1>3 DEF AbortsDone
  <2>2. OnePlace' /\ Queued' = Queued /\ running' \subseteq DOMAIN uidOf'
    BY <2>1 DEF HandOver, OnePlace, Queued, RunningHasUid
  <2> QED BY <2>1, <2>2, MoveStep
<1>4. CASE ScheduleDone
  <2>1. /\ pc \notin {"cleanup", "deliver"}
        /\ UNCHANGED <<waiting, running, uidOf, nout, out, fin, pending,
                       tracked, inbox, client, got, final>>
    BY <1>4 DEF ScheduleDone
  <2>2. OnePlace' /\ Queued' = Queued /\ running' \subseteq DOMAIN uidOf'
    BY <2>1 DEF HandOver, OnePlace, Queued, RunningHasUid
  <2> QED BY <2>1, <2>2, MoveStep
<1>5. CASE NothingToDecode
  <2>1. /\ pc \notin {"cleanup", "deliver"}
        /\ UNCHANGED <<waiting, running, uidOf, nout, out, fin, pending,
                       tracked, inbox, client, got, final>>
    BY <1>5 DEF NothingToDecode
  <2>2. OnePlace' /\ Queued' = Queued /\ running' \subseteq DOMAIN uidOf'
    BY <2>1 DEF HandOver, OnePlace, Queued, RunningHasUid
  <2> QED BY <2>1, <2>2, MoveStep
<1>6. CASE StartDecode
  <2>1. /\ pc \notin {"cleanup", "deliver"}
        /\ UNCHANGED <<waiting, running, uidOf, nout, out, fin, pending,
                       tracked, inbox, client, got, final>>
    BY <1>6 DEF StartDecode
  <2>2. OnePlace' /\ Queued' = Queued /\ running' \subseteq DOMAIN uidOf'
    BY <2>1 DEF HandOver, OnePlace, Queued, RunningHasUid
  <2> QED BY <2>1, <2>2, MoveStep
<1>7. CASE DecodeOk
  <2>1. /\ pc \notin {"cleanup", "deliver"}
        /\ UNCHANGED <<waiting, running, uidOf, nout, out, fin, pending,
                       tracked, inbox, client, got, final>>
    BY <1>7 DEF DecodeOk
  <2>2. OnePlace' /\ Queued' = Queued /\ running' \subseteq DOMAIN uidOf'
    BY <2>1 DEF HandOver, OnePlace, Queued, RunningHasUid
  <2> QED BY <2>1, <2>2, MoveStep
<1>8. CASE DecodeRaises
  <2>1. /\ pc \notin {"cleanup", "deliver"}
        /\ UNCHANGED <<waiting, running, uidOf, nout, out, fin, pending,
                       tracked, inbox, client, got, final>>
    BY <1>8 DEF DecodeRaises
  <2>2. OnePlace' /\ Queued' = Queued /\ running' \subseteq DOMAIN uidOf'
    BY <2>1 DEF HandOver, OnePlace, Queued, RunningHasUid
  <2> QED BY <2>1, <2>2, MoveStep
<1>9. CASE DecodeStreamError
  <2>1. /\ pc \notin {"cleanup", "deliver"}
        /\ UNCHANGED <<waiting, running, uidOf, nout, out, fin, pending,
                       tracked, inbox, client, got, final>>
    BY <1>9 DEF DecodeStreamError
  <2>2. OnePlace' /\ Queued' = Queued /\ running' \subseteq DOMAIN uidOf'
    BY <2>1 DEF HandOver, OnePlace, Queued, RunningHasUid
  <2> QED BY <2>1, <2>2, MoveStep
<1>10. CASE IdleTick
  <2>1. /\ running' \subseteq running
        /\ UNCHANGED <<waiting, uidOf, nout, pc, out, fin, pending,
                       tracked, inbox, client, got, final>>
    BY <1>10 DEF IdleTick, vars
  <2> QED BY <2>1, TrainerStep
<1>11. CASE DrainEnds
  <2>1. /\ running' \subseteq running
        /\ UNCHANGED <<waiting, uidOf, nout, pc, out, fin, pending,
                       tracked, inbox, client, got, final>>
    BY <1>11 DEF DrainEnds
  <2> QED BY <2>1, TrainerStep
<1>12. CASE PauseKeep
  <2>1. /\ running' \subseteq running
        /\ UNCHANGED <<waiting, uidOf, nout, pc, out, fin, pending,
                       tracked, inbox, client, got, final>>
    BY <1>12 DEF PauseKeep
  <2> QED BY <2>1, TrainerStep
<1>13. CASE PauseAbort
  <2>1. /\ running' \subseteq running
        /\ UNCHANGED <<waiting, uidOf, nout, pc, out, fin, pending,
                       tracked, inbox, client, got, final>>
    BY <1>13 DEF PauseAbort
  <2> QED BY <2>1, TrainerStep
<1>14. CASE BeginLoad
  <2>1. /\ running' \subseteq running
        /\ UNCHANGED <<waiting, uidOf, nout, pc, out, fin, pending,
                       tracked, inbox, client, got, final>>
    BY <1>14 DEF BeginLoad
  <2> QED BY <2>1, TrainerStep
<1>15. CASE EndLoad
  <2>1. /\ running' \subseteq running
        /\ UNCHANGED <<waiting, uidOf, nout, pc, out, fin, pending,
                       tracked, inbox, client, got, final>>
    BY <1>15 DEF EndLoad
  <2> QED BY <2>1, TrainerStep
<1>16. CASE Resume
  <2>1. /\ running' \subseteq running
        /\ UNCHANGED <<waiting, uidOf, nout, pc, out, fin, pending,
                       tracked, inbox, client, got, final>>
    BY <1>16 DEF Resume
  <2> QED BY <2>1, TrainerStep
<1>17. CASE FinishUpdate
  <2>1. /\ running' \subseteq running
        /\ UNCHANGED <<waiting, uidOf, nout, pc, out, fin, pending,
                       tracked, inbox, client, got, final>>
    BY <1>17 DEF FinishUpdate
  <2> QED BY <2>1, TrainerStep
<1>18. CASE \E mode \in {"wait", "update"} : PauseWait(mode)
  <2>1. /\ running' \subseteq running
        /\ UNCHANGED <<waiting, uidOf, nout, pc, out, fin, pending,
                       tracked, inbox, client, got, final>>
    BY <1>18 DEF PauseWait
  <2> QED BY <2>1, TrainerStep
<1>19. CASE UNCHANGED vars
  <2>1. /\ running' \subseteq running
        /\ UNCHANGED <<waiting, uidOf, nout, pc, out, fin, pending,
                       tracked, inbox, client, got, final>>
    BY <1>19 DEF vars
  <2> QED BY <2>1, TrainerStep
<1>20. CASE \E r \in Requests : ProcessAbort(r)
  <2>1. PICK r \in Requests : ProcessAbort(r)
    BY <1>20
  <2>2. /\ pc \notin {"cleanup", "deliver"}
        /\ running' = running \ {r} /\ pending' \subseteq pending
        /\ UNCHANGED <<nout, out, fin, tracked, inbox, client, got, final>>
    BY <2>1 DEF ProcessAbort
  <2>3. IsInjective(waiting') /\ Queued' \subseteq Queued
    <3>1. CASE UNCHANGED waiting
      BY <3>1 DEF HandOver, OnePlace, Queued
    <3>2. CASE \E i \in DOMAIN waiting : waiting' = RemoveAt(waiting, i)
      BY <3>2, RemoveFromQueue DEF TypeOK, HandOver, OnePlace, Queued
    <3> QED BY <2>1, <3>1, <3>2 DEF ProcessAbort
  <2>4. DOMAIN uidOf \ {r} \subseteq DOMAIN uidOf'
    <3>1. uidOf' = uidOf \/ uidOf' = Drop(uidOf, {r})
      BY <2>1 DEF ProcessAbort
    <3> QED BY <3>1 DEF Drop
  <2>5. OnePlace' /\ running' \subseteq DOMAIN uidOf'
    BY <2>2, <2>3, <2>4 DEF HandOver, OnePlace, RunningHasUid
  <2> QED BY <2>2, <2>3, <2>5, MoveStep
<1>21. CASE \E r \in Requests : ProcessAbortKeyError(r)
  <2>1. /\ pc \notin {"cleanup", "deliver"} /\ pending' \subseteq pending
        /\ UNCHANGED <<waiting, running, uidOf, nout, out, fin,
                       tracked, inbox, client, got, final>>
    BY <1>21 DEF ProcessAbortKeyError
  <2>2. OnePlace' /\ Queued' = Queued /\ running' \subseteq DOMAIN uidOf'
    BY <2>1 DEF HandOver, OnePlace, Queued, RunningHasUid
  <2> QED BY <2>1, <2>2, MoveStep
<1>22. CASE ScheduleOne
  <2>1. /\ pc \notin {"cleanup", "deliver"}
        /\ waiting # <<>> /\ waiting' = Tail(waiting)
        /\ running' = running \cup {Head(waiting)}
        /\ DOMAIN uidOf' = DOMAIN uidOf \cup {Head(waiting)}
        /\ UNCHANGED <<nout, out, fin, pending, tracked, inbox, client, got, final>>
    BY <1>22 DEF ScheduleOne, HasRoom
  <2>2. /\ IsInjective(waiting') /\ Queued' \subseteq Queued
        /\ Head(waiting) \in Queued /\ Head(waiting) \notin Queued'
    BY <2>1, PopKeepsOnePlace
  <2>3. OnePlace' /\ running' \subseteq DOMAIN uidOf'
    BY <2>1, <2>2 DEF HandOver, OnePlace, RunningHasUid
  <2> QED BY <2>1, <2>2, <2>3, MoveStep
<1>23. CASE DecodeCorruptRetry
  <2>1. /\ RestartRunning /\ pc \notin {"cleanup", "deliver"}
        /\ UNCHANGED <<nout, out, fin, pending, tracked, inbox, client, got, final>>
    BY <1>23 DEF DecodeCorruptRetry, RestartRunning
  <2>2. OnePlace' /\ running' = {} /\ Queued' = Queued \cup running
    BY <2>1, RestartKeepsOnePlace
  <2> QED BY <2>1, <2>2, MoveStep
<1>24. CASE RecoverStream
  <2>1. /\ RestartRunning /\ pc \notin {"cleanup", "deliver"}
        /\ UNCHANGED <<nout, out, fin, pending, tracked, inbox, client, got, final>>
    BY <1>24 DEF RecoverStream, RestartRunning
  <2>2. OnePlace' /\ running' = {} /\ Queued' = Queued \cup running
    BY <2>1, RestartKeepsOnePlace
  <2> QED BY <2>1, <2>2, MoveStep
<1>25. CASE ScheduleFails
  <2>1. /\ AbortRunning(running) /\ pc = "sched" /\ pc' = "deliver"
        /\ waiting # <<>> /\ waiting' = Tail(waiting)
        /\ UNCHANGED <<fin, pending, tracked, inbox, client, got, final>>
    BY <1>25 DEF ScheduleFails, HasRoom
  <2>2. IsInjective(waiting') /\ Queued' \subseteq Queued
    BY <2>1, PopKeepsOnePlace
  <2>3. fin' = {}
    BY <2>1 DEF HandOver, EndedForAReason
  <2> QED BY <2>1, <2>2, <2>3, ErrorStep
<1>26. CASE DecodeFatal
  <2>1. /\ AbortRunning(running) /\ pc = "decode" /\ pc' = "deliver"
        /\ UNCHANGED <<waiting, fin, pending, tracked, inbox, client, got, final>>
    BY <1>26 DEF DecodeFatal
  <2>2. IsInjective(waiting') /\ Queued' \subseteq Queued
    BY <2>1 DEF HandOver, OnePlace, Queued
  <2>3. fin' = {}
    BY <2>1 DEF HandOver, EndedForAReason
  <2> QED BY <2>1, <2>2, <2>3, ErrorStep
<1>27. CASE CleanupFails
  <2>1. PICK cleaned \in SUBSET fin : AbortRunning(running \ cleaned)
    BY <1>27 DEF CleanupFails
  <2>2. /\ pc' = "deliver" /\ fin' = {}
        /\ UNCHANGED <<waiting, pending, tracked, inbox, client, got, final>>
    BY <1>27 DEF CleanupFails
  <2>3. IsInjective(waiting') /\ Queued' \subseteq Queued
    BY <2>2 DEF HandOver, OnePlace, Queued
  <2> QED BY <2>1, <2>2, <2>3, ErrorStep
<1>28. CASE ProcessResponses
  BY <1>28, ProcessResponsesStep
<1>29. CASE CleanupFinished
  BY <1>29, CleanupFinishedStep
<1>30. CASE Deliver
  BY <1>30, DeliverStep
<1>31. CASE \E r \in Requests : Submit(r)
  BY <1>31, SubmitRequestStep
<1>32. CASE \E r \in Requests : Take(r)
  BY <1>32, TakeStep
<1>33. CASE \E r \in Requests : Abandon(r)
  BY <1>33, AbandonStep
<1>34. CASE \E r \in Requests : CleanupRequest(r)
  BY <1>34, CleanupRequestStep
<1>35. CASE ScheduleRaises
  <2>1. /\ pc \notin {"cleanup", "deliver"}
        /\ waiting # <<>> /\ waiting' = Tail(waiting)
        /\ UNCHANGED <<running, uidOf, nout, out, fin, pending,
                       tracked, inbox, client, got, final>>
    BY <1>35 DEF ScheduleRaises, HasRoom
  <2>2. IsInjective(waiting') /\ Queued' \subseteq Queued
    BY <2>1, PopKeepsOnePlace
  <2>3. OnePlace' /\ running' \subseteq DOMAIN uidOf'
    BY <2>1, <2>2 DEF HandOver, OnePlace, RunningHasUid
  <2> QED BY <2>1, <2>2, <2>3, MoveStep
<1> QED
  BY <1>1, <1>2, <1>3, <1>4, <1>5, <1>6, <1>7, <1>8, <1>9, <1>10, <1>11, <1>12,
     <1>13, <1>14, <1>15, <1>16, <1>17, <1>18, <1>19, <1>20, <1>21, <1>22, <1>23,
     <1>24, <1>25, <1>26, <1>27, <1>28, <1>29, <1>30, <1>31, <1>32, <1>33, <1>34, <1>35
  DEF Next, EngineProgress, Failure, ClientStep, Trainer

\* HandOver holds at first.
LEMMA HandOverInit == Init => HandOver
<1> SUFFICES ASSUME Init PROVE HandOver
  OBVIOUS
<1> USE NoOutputFacts
<1>1. Queued = {} /\ running = {} /\ IsInjective(waiting)
  BY DEF Init, Queued, ToSet, IsInjective
<1>2. OnePlace /\ RunningHasUid
  BY <1>1 DEF OnePlace, RunningHasUid
<1>3. UnknownBeforeSubmit
  BY <1>1 DEF Init, UnknownBeforeSubmit
<1>4. ConsumersTracked
  BY DEF Init, ConsumersTracked, Watching
<1>5. OutputsOfTheStep /\ EndedForAReason
  BY DEF Init, OutputsOfTheStep, EndedForAReason
<1>6. TokensConserved
  BY DEF Init, TokensConserved, Watching
<1>7. NothingAfterFinish
  BY DEF Init, NothingAfterFinish
<1> QED BY <1>2, <1>3, <1>4, <1>5, <1>6, <1>7 DEF HandOver

\* Whatever fails, is restarted, paused or abandoned: the hand-over invariant holds.
THEOREM HandOverInvariant == Spec => []HandOver
<1>1. Init => TypeOK /\ HandOver
  BY TypeInit, HandOverInit, ConstantsAssumption
<1>2. TypeOK /\ HandOver /\ [Next]_vars => (TypeOK /\ HandOver)'
  BY TypeStep, HandOverStep, ConstantsAssumption
<1> QED BY <1>1, <1>2, PTL DEF Spec

\* A request is queued once or running, never both.
THEOREM OnePlaceAlways == Spec => []OnePlace
<1>1. HandOver => OnePlace
  BY DEF HandOver
<1> QED BY <1>1, HandOverInvariant, PTL

\* No token is lost or given twice between the scheduler and a client.
THEOREM TokensConservedAlways == Spec => []TokensConserved
<1>1. HandOver => TokensConserved
  BY DEF HandOver
<1> QED BY <1>1, HandOverInvariant, PTL

\* A request whose last output is in its collector is gone from the scheduler.
THEOREM NothingAfterFinishAlways == Spec => []NothingAfterFinish
<1>1. HandOver => NothingAfterFinish
  BY DEF HandOver
<1> QED BY <1>1, HandOverInvariant, PTL

--------------------------------------------------------------------------------
(* Nobody waits for an output that will never be made.  This is not so when a *)
(* prompt fails to be inserted (the request was popped and is in no queue) or *)
(* when the trainer pauses with "abort" (running is emptied and no output is  *)
(* made): the theorem is about everything else.                               *)

\* Nobody who waits is dropped from the scheduler, and no output is touched.
LEMMA KeptStep ==
  ASSUME NoOrphanedConsumer,
         \A r \in Requests : client[r] \in Watching /\ r \in Queued \cup running =>
                               r \in Queued' \cup running',
         UNCHANGED <<out, inbox, client>>
  PROVE  NoOrphanedConsumer'
BY DEF NoOrphanedConsumer

\* A fatal error answers everyone it drops.
LEMMA AnsweredStep ==
  ASSUME TypeOK, NoOrphanedConsumer,
         NEW STATE victims, AbortRunning(victims),
         \A r \in running \ victims : out[r].fin # NotFin,
         UNCHANGED <<waiting, inbox, client>>
  PROVE  NoOrphanedConsumer'
<1>1. \A r \in Requests : out'[r].fin = IF r \in victims THEN "error" ELSE out[r].fin
  BY DEF AbortRunning
<1> Queued' = Queued
  BY DEF Queued
<1>2. "error" # NotFin
  BY DEF NotFin
<1> QED BY <1>1, <1>2 DEF NoOrphanedConsumer

\* Whoever waits stays in somebody's hands, whoever steps.
LEMMA NoOrphanStep ==
  ASSUME ConstantsAssumption, TypeOK, HandOver, NoOrphanedConsumer, [Next]_vars,
         "insert" \notin Faults, "abort" \notin PauseModes
  PROVE  NoOrphanedConsumer'
<1> USE DEF schedVars, bgVars, stepVars, clientVars, pauseVars, StepThread
<1>1. CASE SubmitStep
  <2>1. UNCHANGED <<waiting, running, out, inbox, client>>
    BY <1>1 DEF SubmitStep
  <2> QED BY <2>1, KeptStep DEF Queued
<1>2. CASE BeginStep
  <2>1. UNCHANGED <<waiting, running, out, inbox, client>>
    BY <1>2 DEF BeginStep
  <2> QED BY <2>1, KeptStep DEF Queued
<1>3. CASE AbortsDone
  <2>1. UNCHANGED <<waiting, running, out, inbox, client>>
    BY <1>3 DEF AbortsDone
  <2> QED BY <2>1, KeptStep DEF Queued
<1>4. CASE ScheduleDone
  <2>1. UNCHANGED <<waiting, running, out, inbox, client>>
    BY <1>4 DEF ScheduleDone
  <2> QED BY <2>1, KeptStep DEF Queued
<1>5. CASE NothingToDecode
  <2>1. UNCHANGED <<waiting, running, out, inbox, client>>
    BY <1>5 DEF NothingToDecode
  <2> QED BY <2>1, KeptStep DEF Queued
<1>6. CASE StartDecode
  <2>1. UNCHANGED <<waiting, running, out, inbox, client>>
    BY <1>6 DEF StartDecode
  <2> QED BY <2>1, KeptStep DEF Queued
<1>7. CASE DecodeOk
  <2>1. UNCHANGED <<waiting, running, out, inbox, client>>
    BY <1>7 DEF DecodeOk
  <2> QED BY <2>1, KeptStep DEF Queued
<1>8. CASE DecodeRaises
  <2>1. UNCHANGED <<waiting, running, out, inbox, client>>
    BY <1>8 DEF DecodeRaises
  <2> QED BY <2>1, KeptStep DEF Queued
<1>9. CASE DecodeStreamError
  <2>1. UNCHANGED <<waiting, running, out, inbox, client>>
    BY <1>9 DEF DecodeStreamError
  <2> QED BY <2>1, KeptStep DEF Queued
<1>10. CASE IdleTick
  <2>1. UNCHANGED <<waiting, running, out, inbox, client>>
    BY <1>10 DEF IdleTick, vars
  <2> QED BY <2>1, KeptStep DEF Queued
<1>11. CASE DrainEnds
  <2>1. UNCHANGED <<waiting, running, out, inbox, client>>
    BY <1>11 DEF DrainEnds
  <2> QED BY <2>1, KeptStep DEF Queued
<1>12. CASE PauseKeep
  <2>1. UNCHANGED <<waiting, running, out, inbox, client>>
    BY <1>12 DEF PauseKeep
  <2> QED BY <2>1, KeptStep DEF Queued
<1>13. CASE BeginLoad
  <2>1. UNCHANGED <<waiting, running, out, inbox, client>>
    BY <1>13 DEF BeginLoad
  <2> QED BY <2>1, KeptStep DEF Queued
<1>14. CASE EndLoad
  <2>1. UNCHANGED <<waiting, running, out, inbox, client>>
    BY <1>14 DEF EndLoad
  <2> QED BY <2>1, KeptStep DEF Queued
<1>15. CASE Resume
  <2>1. UNCHANGED <<waiting, running, out, inbox, client>>
    BY <1>15 DEF Resume
  <2> QED BY <2>1, KeptStep DEF Queued
<1>16. CASE FinishUpdate
  <2>1. UNCHANGED <<waiting, running, out, inbox, client>>
    BY <1>16 DEF FinishUpdate
  <2> QED BY <2>1, KeptStep DEF Queued
<1>17. CASE \E mode \in {"wait", "update"} : PauseWait(mode)
  <2>1. UNCHANGED <<waiting, running, out, inbox, client>>
    BY <1>17 DEF PauseWait
  <2> QED BY <2>1, KeptStep DEF Queued
<1>18. CASE UNCHANGED vars
  <2>1. UNCHANGED <<waiting, running, out, inbox, client>>
    BY <1>18 DEF vars
  <2> QED BY <2>1, KeptStep DEF Queued
<1>19. CASE PauseAbort
  BY <1>19 DEF PauseAbort
<1>20. CASE ScheduleFails
  BY <1>20 DEF ScheduleFails, Strike
<1>21. CASE \E r \in Requests : ProcessAbort(r)
  <2>1. PICK r \in Requests : ProcessAbort(r)
    BY <1>21
  <2>2. /\ r \in pending /\ running' = running \ {r}
        /\ UNCHANGED <<out, inbox, client>>
    BY <2>1 DEF ProcessAbort
  <2>3. Queued \subseteq Queued' \cup {r}
    <3>1. CASE UNCHANGED waiting
      BY <3>1 DEF Queued
    <3>2. CASE \E i \in DOMAIN waiting : waiting[i] = r /\ waiting' = RemoveAt(waiting, i)
      BY <3>2, RemoveFromQueue DEF TypeOK, Queued
    <3> QED BY <2>1, <3>1, <3>2 DEF ProcessAbort
  <2>4. client[r] \notin Watching
    BY <2>2 DEF HandOver, EndedForAReason, Watching
  <2> QED BY <2>2, <2>3, <2>4, KeptStep
<1>22. CASE \E r \in Requests : ProcessAbortKeyError(r)
  <2>1. UNCHANGED <<waiting, running, out, inbox, client>>
    BY <1>22 DEF ProcessAbortKeyError
  <2> QED BY <2>1, KeptStep DEF Queued
<1>23. CASE ScheduleOne
  <2>1. /\ waiting # <<>> /\ waiting' = Tail(waiting)
        /\ running' = running \cup {Head(waiting)}
        /\ UNCHANGED <<out, inbox, client>>
    BY <1>23 DEF ScheduleOne, HasRoom
  <2>2. Queued \subseteq Queued' \cup {Head(waiting)}
    BY <2>1, TailOfQueue DEF TypeOK, Queued
  <2> QED BY <2>1, <2>2, KeptStep
<1>24. CASE DecodeCorruptRetry
  <2>1. RestartRunning /\ UNCHANGED <<out, inbox, client>>
    BY <1>24 DEF DecodeCorruptRetry
  <2>2. Queued' = Queued \cup running
    BY <2>1, RestartKeepsOnePlace
  <2> QED BY <2>1, <2>2, KeptStep
<1>25. CASE RecoverStream
  <2>1. RestartRunning /\ UNCHANGED <<out, inbox, client>>
    BY <1>25 DEF RecoverStream
  <2>2. Queued' = Queued \cup running
    BY <2>1, RestartKeepsOnePlace
  <2> QED BY <2>1, <2>2, KeptStep
<1>26. CASE DecodeFatal
  <2>1. AbortRunning(running) /\ UNCHANGED <<waiting, inbox, client>>
    BY <1>26 DEF DecodeFatal
  <2> QED BY <2>1, AnsweredStep
<1>27. CASE CleanupFails
  <2>1. PICK cleaned \in SUBSET fin : AbortRunning(running \ cleaned)
    BY <1>27 DEF CleanupFails
  <2>2. UNCHANGED <<waiting, inbox, client>>
    BY <1>27 DEF CleanupFails
  <2>3. \A r \in running \ (running \ cleaned) : out[r].fin # NotFin
    BY DEF HandOver, EndedForAReason
  <2> QED BY <2>1, <2>2, <2>3, AnsweredStep
<1>28. CASE ProcessResponses
  <2>1. pc = "process" /\ UNCHANGED <<waiting, running, inbox, client>>
    BY <1>28 DEF ProcessResponses
  <2>2. \A r \in Requests : out[r].fin = NotFin
    BY <2>1, NoOutputFacts DEF HandOver, OutputsOfTheStep
  <2>3. Queued' = Queued
    BY <2>1 DEF Queued
  <2> QED BY <2>1, <2>2, <2>3 DEF NoOrphanedConsumer
<1>29. CASE CleanupFinished
  <2>1. running' = running \ fin /\ UNCHANGED <<waiting, out, inbox, client>>
    BY <1>29 DEF CleanupFinished
  <2>2. \A r \in fin : out[r].fin # NotFin
    BY DEF HandOver, EndedForAReason
  <2>3. Queued' = Queued
    BY <2>1 DEF Queued
  <2> QED BY <2>1, <2>2, <2>3 DEF NoOrphanedConsumer
<1>30. CASE Deliver
  <2>1. UNCHANGED <<waiting, running, client>>
    BY <1>30 DEF Deliver
  <2>2. \A r \in Requests :
          IF r \in tracked /\ out[r] # NoOutput
          THEN inbox'[r].fin = out[r].fin ELSE inbox'[r] = inbox[r]
    BY <1>30 DEF Deliver, Merge
  <2>3. Queued' = Queued
    BY <2>1 DEF Queued
  <2> SUFFICES ASSUME NEW r \in Requests, client[r] \in Watching
               PROVE  r \in Queued \cup running \/ inbox'[r].fin # NotFin
    BY <2>1, <2>3 DEF NoOrphanedConsumer
  <2>4. r \in tracked
    BY DEF HandOver, ConsumersTracked
  <2>5. CASE out[r].fin # NotFin
    BY <2>2, <2>4, <2>5, NoOutputFacts
  <2>6. CASE inbox[r].fin # NotFin
    <3>1. out[r] = NoOutput
      BY <2>6 DEF HandOver, NothingAfterFinish
    <3> QED BY <2>2, <2>6, <3>1
  <2> QED BY <2>5, <2>6 DEF NoOrphanedConsumer
<1>31. CASE \E r \in Requests : Submit(r)
  <2>1. PICK r \in Requests : Submit(r)
    BY <1>31
  <2>2. /\ waiting' = Append(waiting, r) /\ UNCHANGED <<running, out>>
        /\ \A x \in Requests \ {r} : inbox'[x] = inbox[x] /\ client'[x] = client[x]
    BY <2>1 DEF Submit, Enqueue, TypeOK
  <2>3. Queued' = Queued \cup {r}
    BY <2>2, AppendToQueue DEF TypeOK, Queued
  <2> QED BY <2>2, <2>3 DEF NoOrphanedConsumer
<1>32. CASE \E r \in Requests : Take(r)
  <2>1. PICK r \in Requests : Take(r)
    BY <1>32
  <2>2. /\ client'[r] = IF inbox[r].fin # NotFin THEN "ending" ELSE client[r]
        /\ \A x \in Requests \ {r} : inbox'[x] = inbox[x] /\ client'[x] = client[x]
        /\ UNCHANGED <<waiting, running, out>>
    BY <2>1 DEF Take, TypeOK
  <2>3. Queued' = Queued
    BY <2>2 DEF Queued
  <2> QED BY <2>2, <2>3 DEF NoOrphanedConsumer, Watching
<1>33. CASE \E r \in Requests : Abandon(r)
  <2>1. PICK r \in Requests : Abandon(r)
    BY <1>33
  <2>2. /\ client'[r] = "leaving" /\ \A x \in Requests \ {r} : client'[x] = client[x]
        /\ UNCHANGED <<waiting, running, out, inbox>>
    BY <2>1 DEF Abandon, TypeOK
  <2>3. Queued' = Queued
    BY <2>2 DEF Queued
  <2> QED BY <2>2, <2>3 DEF NoOrphanedConsumer, Watching
<1>34. CASE \E r \in Requests : CleanupRequest(r)
  <2>1. PICK r \in Requests : CleanupRequest(r)
    BY <1>34
  <2>2. /\ client'[r] \in {"gone", "done"}
        /\ \A x \in Requests \ {r} : inbox'[x] = inbox[x] /\ client'[x] = client[x]
        /\ UNCHANGED <<waiting, running, out>>
    BY <2>1 DEF CleanupRequest, TypeOK
  <2>3. Queued' = Queued
    BY <2>2 DEF Queued
  <2> QED BY <2>2, <2>3 DEF NoOrphanedConsumer, Watching
<1>35. CASE ScheduleRaises
  BY <1>35 DEF ScheduleRaises, Strike
<1> QED
  BY <1>1, <1>2, <1>3, <1>4, <1>5, <1>6, <1>7, <1>8, <1>9, <1>10, <1>11, <1>12,
     <1>13, <1>14, <1>15, <1>16, <1>17, <1>18, <1>19, <1>20, <1>21, <1>22, <1>23,
     <1>24, <1>25, <1>26, <1>27, <1>28, <1>29, <1>30, <1>31, <1>32, <1>33, <1>34, <1>35
  DEF Next, EngineProgress, Failure, ClientStep, Trainer

\* Unless a prompt cannot be inserted or the trainer pauses with "abort", whoever
\* waits for an output is queued, running, or has its last output on the way:
\* restarts, fatal errors and failed clean-ups forget nobody.
THEOREM NoOrphanedConsumerAlways ==
  ASSUME "insert" \notin Faults, "abort" \notin PauseModes
  PROVE  Spec => []NoOrphanedConsumer
<1>1. Init => TypeOK /\ HandOver /\ NoOrphanedConsumer
  <2>1. Init => NoOrphanedConsumer
    BY DEF Init, NoOrphanedConsumer, Watching
  <2> QED BY <2>1, TypeInit, HandOverInit, ConstantsAssumption
<1>2. TypeOK /\ HandOver /\ NoOrphanedConsumer /\ [Next]_vars
        => (TypeOK /\ HandOver /\ NoOrphanedConsumer)'
  BY TypeStep, HandOverStep, NoOrphanStep, ConstantsAssumption
<1> QED BY <1>1, <1>2, PTL DEF Spec

--------------------------------------------------------------------------------
(* What a caller sees.                                                       *)

\* Whoever is queued or running for a caller has asked and was not told the end.
LEMMA ServedForACaller ==
  ASSUME TypeOK, HandOver, NEW r \in running
  PROVE  r \in Requests /\ ServicePhase[r] \in {"open", "left"}
<1>1. r \in Requests
  BY DEF TypeOK
<1>2. client[r] # "idle"
  BY <1>1 DEF HandOver, UnknownBeforeSubmit
<1>3. client[r] \notin {"ending", "done"}
  BY <1>1 DEF HandOver, ConsumersTracked, NothingAfterFinish
<1> QED BY <1>1, <1>2, <1>3 DEF ServicePhase

\* The outputs a step makes of the responses of next() are tokens of callers.
LEMMA MakesTokens ==
  ASSUME TypeOK, HandOver, ProcessResponses
  PROVE  RS!ServiceNext
<1> DEFINE hits   == {u \in DOMAIN resp : u \in DOMAIN reqOf /\ reqOf[u] \in running}
           served == {reqOf[u] : u \in hits}
<1>1. /\ nout' = [r \in Requests |-> IF r \in served THEN nout[r] + 1 ELSE nout[r]]
      /\ UNCHANGED <<client, got, final>>
  BY DEF ProcessResponses, clientVars
<1>2. served \subseteq running
  OBVIOUS
<1> HIDE DEF hits, served
<1>3. served \in SUBSET Requests /\ \A r \in served : ServicePhase[r] \in {"open", "left"}
  BY <1>2, ServedForACaller
<1>4. ServicePhase' = ServicePhase
  BY <1>1 DEF ServicePhase
<1>5. RS!Make(served)
  BY <1>1, <1>3, <1>4 DEF RS!Make
<1> QED BY <1>3, <1>5 DEF RS!ServiceNext

\* What a consumer takes are tokens it did not have; with the finish reason come
\* the last of them.
LEMMA TakesWhatIsMade ==
  ASSUME TypeOK, HandOver, NEW r \in Requests, Take(r)
  PROVE  RS!ServiceNext
<1> USE NoOutputFacts
<1>1. /\ client[r] \in Watching /\ inbox[r] # NoOutput
      /\ got' = [got EXCEPT ![r] = @ + inbox[r].tok]
      /\ final' = [final EXCEPT ![r] = inbox[r].fin]
      /\ client' = [client EXCEPT ![r] = IF inbox[r].fin # NotFin THEN "ending" ELSE @]
      /\ UNCHANGED nout
  BY DEF Take, schedVars
<1>2. /\ inbox[r] \in Output /\ inbox[r].tok \in Nat /\ out[r].tok \in Nat
      /\ got[r] \in Nat /\ nout[r] \in Nat
      /\ inbox[r].fin \in FinishReasons \cup {NotFin}
      /\ client \in [Requests -> Clients] /\ final \in [Requests -> FinishReasons \cup {NotFin}]
  BY DEF TypeOK, Output
<1>3. got[r] + inbox[r].tok + out[r].tok = nout[r]
  BY <1>1 DEF HandOver, TokensConserved
<1>4. ServicePhase[r] = "open" /\ final[r] = NotFin
  BY <1>1 DEF ServicePhase, Watching, HandOver, ConsumersTracked
<1>5. CASE inbox[r].fin = NotFin
  <2>1. inbox[r].tok # 0
    BY <1>1, <1>2, <1>5 DEF NoOutput, Output
  <2>2. inbox[r].tok \in 1..(nout[r] - got[r])
    BY <1>2, <1>3, <2>1
  <2>3. client' = client /\ final' = final
    BY <1>1, <1>2, <1>4, <1>5
  <2>4. ServicePhase' = ServicePhase
    BY <2>3 DEF ServicePhase
  <2>5. RS!Give(r)
    BY <1>1, <1>4, <2>2, <2>3, <2>4 DEF RS!Give
  <2> QED BY <2>5 DEF RS!ServiceNext
<1>6. CASE inbox[r].fin # NotFin
  <2>1. out[r].tok = 0
    BY <1>6 DEF HandOver, NothingAfterFinish
  <2>2. got' = [got EXCEPT ![r] = nout[r]]
    <3>1. got[r] + inbox[r].tok = nout[r]
      BY <1>2, <1>3, <2>1
    <3> QED BY <1>1, <3>1
  <2>3. ServicePhase' = [ServicePhase EXCEPT ![r] = "served"]
    BY <1>1, <1>2, <1>6 DEF ServicePhase, Watching
  <2>4. inbox[r].fin \in {"stop", "length", "error"}
    BY <1>2, <1>6 DEF FinishReasons
  <2>5. RS!End(r)
    BY <1>1, <1>4, <2>2, <2>3, <2>4 DEF RS!End
  <2> QED BY <2>5 DEF RS!ServiceNext
<1> QED BY <1>5, <1>6

\* A caller that submits asks, one that abandons leaves, and the clean-up of its
\* tracking is nothing to it.
LEMMA CallersAskAndLeave ==
  ASSUME TypeOK, NEW r \in Requests, Submit(r) \/ Abandon(r) \/ CleanupRequest(r)
  PROVE  [RS!ServiceNext]_RS!serviceVars
<1>1. client \in [Requests -> Clients] /\ UNCHANGED <<nout, got, final>>
  BY DEF TypeOK, Submit, Abandon, CleanupRequest, schedVars
<1>2. CASE Submit(r)
  <2>1. /\ client[r] = "idle"
        /\ client' = [client EXCEPT ![r] = IF r \in Streamers THEN "stream" ELSE "generate"]
    BY <1>2 DEF Submit
  <2>2. ServicePhase' = [ServicePhase EXCEPT ![r] = "open"] /\ ServicePhase[r] = "idle"
    BY <1>1, <2>1 DEF ServicePhase, Watching
  <2>3. RS!Ask(r)
    BY <1>1, <2>2 DEF RS!Ask
  <2> QED BY <2>3 DEF RS!ServiceNext
<1>3. CASE Abandon(r)
  <2>1. client[r] \in Watching /\ client' = [client EXCEPT ![r] = "leaving"]
    BY <1>3 DEF Abandon
  <2>2. ServicePhase' = [ServicePhase EXCEPT ![r] = "left"] /\ ServicePhase[r] = "open"
    BY <1>1, <2>1 DEF ServicePhase, Watching
  <2>3. RS!Leave(r)
    BY <1>1, <2>2 DEF RS!Leave
  <2> QED BY <2>3 DEF RS!ServiceNext
<1>4. CASE CleanupRequest(r)
  <2>1. /\ client[r] \in {"leaving", "ending"}
        /\ client' = [client EXCEPT ![r] = IF @ = "leaving" THEN "gone" ELSE "done"]
    BY <1>4 DEF CleanupRequest
  <2>2. ServicePhase' = ServicePhase
    BY <1>1, <2>1 DEF ServicePhase, Watching
  <2> QED BY <1>1, <2>2 DEF RS!serviceVars
<1> QED BY <1>2, <1>3, <1>4

\* What the scheduler, the loop and the trainer do beside that, a caller does not
\* see: a step that makes no token changes nothing of what it was promised.
LEMMA UnseenStep ==
  ASSUME EngineProgress \/ Failure \/ Trainer \/ IdleTick \/ UNCHANGED vars, ~ProcessResponses
  PROVE  UNCHANGED RS!serviceVars
<1>1. UNCHANGED <<client, got, final>>
  <2>1. CASE IdleTick \/ UNCHANGED vars
    BY <2>1 DEF IdleTick, vars, clientVars
  <2>2. CASE EngineProgress
    BY <2>2 DEF EngineProgress, SubmitStep, BeginStep, ProcessAbort, ProcessAbortKeyError,
       AbortsDone, ScheduleOne, ScheduleDone, NothingToDecode, StartDecode, DecodeOk,
       RecoverStream, CleanupFinished, Deliver, clientVars
  <2>3. CASE Failure
    BY <2>3 DEF Failure, ScheduleFails, ScheduleRaises, DecodeCorruptRetry, DecodeRaises,
       DecodeStreamError, DecodeFatal, CleanupFails, clientVars
  <2>4. CASE Trainer
    BY <2>4 DEF Trainer, PauseWait, PauseKeep, PauseAbort, DrainEnds, BeginLoad, EndLoad,
       Resume, FinishUpdate, clientVars
  <2> QED BY <2>1, <2>2, <2>3, <2>4
<1>2. UNCHANGED nout
  <2>1. CASE IdleTick \/ UNCHANGED vars
    BY <2>1 DEF IdleTick, vars, schedVars
  <2>2. CASE EngineProgress
    BY <2>2 DEF EngineProgress, SubmitStep, BeginStep, ProcessAbort, ProcessAbortKeyError,
       AbortsDone, ScheduleOne, ScheduleDone, NothingToDecode, StartDecode, DecodeOk,
       RecoverStream, RestartRunning, CleanupFinished, Deliver, schedVars
  <2>3. CASE Failure
    BY <2>3 DEF Failure, ScheduleFails, ScheduleRaises, DecodeCorruptRetry, DecodeRaises,
       DecodeStreamError, DecodeFatal, CleanupFails, AbortRunning, RestartRunning, schedVars
  <2>4. CASE Trainer
    BY <2>4 DEF Trainer, PauseWait, PauseKeep, PauseAbort, DrainEnds, BeginLoad, EndLoad,
       Resume, FinishUpdate, schedVars
  <2> QED BY <2>1, <2>2, <2>3, <2>4
<1>3. ServicePhase' = ServicePhase
  BY <1>1 DEF ServicePhase
<1> QED BY <1>1, <1>2, <1>3 DEF RS!serviceVars

\* Every step of the engine is a step of the service, or none of its callers sees it.
LEMMA ServiceStep ==
  ASSUME TypeOK, HandOver, [Next]_vars
  PROVE  [RS!ServiceNext]_RS!serviceVars
<1>1. CASE ProcessResponses
  BY <1>1, MakesTokens
<1>2. CASE \E r \in Requests : Take(r)
  BY <1>2, TakesWhatIsMade
<1>3. CASE \E r \in Requests : Submit(r) \/ Abandon(r) \/ CleanupRequest(r)
  BY <1>3, CallersAskAndLeave
<1>4. CASE (EngineProgress \/ Failure \/ Trainer \/ IdleTick \/ UNCHANGED vars) /\ ~ProcessResponses
  BY <1>4, UnseenStep
<1> QED BY <1>1, <1>2, <1>3, <1>4 DEF Next, ClientStep

\* Continuous batching implements the service: through errors, retries, recoveries,
\* aborts and pauses a caller is given each token made for it once, and is told the
\* end once, when it has them all and after which no more are made.
THEOREM ServesEveryCaller == Spec => ServesCallers
<1>1. Init => RS!ServiceInit
  <2> SUFFICES ASSUME Init PROVE RS!ServiceInit
    OBVIOUS
  <2>1. ServicePhase = [r \in Requests |-> "idle"]
    BY DEF Init, ServicePhase
  <2> QED BY <2>1 DEF Init, RS!ServiceInit, NotFin
<1>2. TypeOK /\ HandOver /\ [Next]_vars => [RS!ServiceNext]_RS!serviceVars
  BY ServiceStep
<1> QED BY <1>1, <1>2, TypeCorrect, HandOverInvariant, PTL
        DEF Spec, ServesCallers, RS!ServiceSpec

================================================================================
