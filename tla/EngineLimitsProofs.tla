---------------------------- MODULE EngineLimitsProofs ----------------------------
(***************************************************************************)
(* The limits and the order of the batch, for every value of the constants:*)
(* the scheduler's two uid maps, its running requests and the generator's  *)
(* batch tell of the same sequences, unless the trainer pauses with        *)
(* "abort", which empties the running requests and leaves maps and batch   *)
(* as they are; first come, first served, and the limits on what is        *)
(* generated, for every error but the two after which running requests are *)
(* put back in the queue: they return in the order of their uids and with  *)
(* the tokens they already have.                                           *)
(***************************************************************************)
EXTENDS EngineHandOverProofs

--------------------------------------------------------------------------------
(* The uid maps, the running requests and the batch.                         *)

\* A sequence that has made its last token has left the batch; its request is out of
\* running only after the clean-up.
EndedSequencesLeft ==
  /\ pc = "process" => \A u \in DOMAIN resp : resp[u] # NotFin => u \notin DOMAIN seqs
  /\ \A r \in fin \cap running : uidOf[r] \notin DOMAIN seqs

\* The inductive invariant: exactly what runs has a uid, and the generator's next one
\* is new.
Batch ==
  /\ BatchAgrees
  /\ DOMAIN uidOf \subseteq running
  /\ \A r \in running : uidOf[r] < bgNext
  /\ EndedSequencesLeft
  /\ Cardinality(running) <= MaxNumSeqs

Bookkeeping == <<running, uidOf, reqOf, bgOpen, bgNext, seqs, fin, resp>>

\* A function without some of its arguments.
LEMMA Dropped ==
  ASSUME NEW f, NEW S
  PROVE  /\ DOMAIN Drop(f, S) = DOMAIN f \ S
         /\ \A x \in DOMAIN f \ S : Drop(f, S)[x] = f[x]
BY DEF Drop

\* The running requests are finitely many, and fewer are no more.
LEMMA RunningFinite ==
  ASSUME TypeOK, NEW S, S \subseteq running
  PROVE  IsFiniteSet(S) /\ Cardinality(S) \in Nat /\ Cardinality(S) <= Cardinality(running)
<1>1. IsFiniteSet(running)
  BY ConstantsAssumption, FS_Subset DEF ConstantsAssumption, TypeOK
<1> QED BY <1>1, FS_Subset, FS_CardinalityType

\* Nothing of the bookkeeping changes, and no outputs are made or cleaned up.
LEMMA BatchAside ==
  ASSUME Batch, UNCHANGED Bookkeeping,
         pc' = pc \/ {pc, pc'} \cap {"process", "cleanup"} = {}
  PROVE  Batch'
<1>1. UidMapsAgree' /\ (pc \in {"process", "cleanup"} => pc' = pc)
  BY DEF Batch, Bookkeeping, BatchAgrees, UidMapsAgree
<1>2. BatchMatchesRunning'
  <2>1. \A r \in running :
          \/ uidOf[r] \in DOMAIN seqs
          \/ pc' = "process" /\ uidOf[r] \in DOMAIN resp /\ resp[uidOf[r]] # NotFin
          \/ pc' = "cleanup" /\ r \in fin
    BY <1>1 DEF Batch, BatchAgrees, BatchMatchesRunning
  <2> QED BY <2>1 DEF Batch, Bookkeeping, BatchAgrees, BatchMatchesRunning
<1>3. EndedSequencesLeft'
  <2>1. pc' = "process" => pc = "process"
    OBVIOUS
  <2> QED BY <2>1 DEF Batch, Bookkeeping, EndedSequencesLeft
<1> QED BY <1>1, <1>2, <1>3 DEF Batch, BatchAgrees, Bookkeeping

\* The batch is discarded with all that ran.
LEMMA BatchDiscarded ==
  ASSUME TypeOK, DiscardBatch, running' = {}, pc' # "process"
  PROVE  Batch'
<1>1. /\ DOMAIN uidOf' = {} /\ DOMAIN reqOf' = {} /\ DOMAIN seqs' = {}
  BY DEF DiscardBatch, Empty
<1>2. Cardinality(running') <= MaxNumSeqs
  BY FS_EmptySet, ConstantsAssumption DEF ConstantsAssumption
<1> QED BY <1>1, <1>2 DEF Batch, BatchAgrees, UidMapsAgree, BatchMatchesRunning,
                          EndedSequencesLeft

\* An abort takes its request out of running, maps and batch.
LEMMA BatchAbort ==
  ASSUME TypeOK, HandOver, Batch, NEW r \in Requests, ProcessAbort(r)
  PROVE  Batch'
<1>1. /\ pc = "aborts" /\ running' = running \ {r}
      /\ UNCHANGED <<bgOpen, bgNext, fin, resp, pc>>
  BY DEF ProcessAbort, StepThread, stepVars
<1>2. fin = {}
  BY <1>1 DEF HandOver, EndedForAReason
<1>3. Cardinality(running') <= MaxNumSeqs
  <2>1. Cardinality(running') <= Cardinality(running) /\ Cardinality(running') \in Nat
        /\ Cardinality(running) \in Nat
    BY <1>1, RunningFinite
  <2> QED BY <2>1, ConstantsAssumption DEF Batch, ConstantsAssumption
<1>4. CASE r \in DOMAIN uidOf
  <2> DEFINE u == uidOf[r]
  <2>1. uidOf' = Drop(uidOf, {r}) /\ reqOf' = Drop(reqOf, {u})
        /\ seqs' = (IF bgOpen THEN Drop(seqs, {u}) ELSE seqs)
    BY <1>4 DEF ProcessAbort
  <2>2. bgOpen /\ seqs' = Drop(seqs, {u})
    BY <1>4, <2>1 DEF Batch, BatchAgrees, BatchMatchesRunning
  <2>3. /\ DOMAIN uidOf' = DOMAIN uidOf \ {r}
        /\ \A x \in DOMAIN uidOf \ {r} : uidOf'[x] = uidOf[x]
        /\ DOMAIN reqOf' = DOMAIN reqOf \ {u}
        /\ \A v \in DOMAIN reqOf \ {u} : reqOf'[v] = reqOf[v]
        /\ DOMAIN seqs' = DOMAIN seqs \ {u}
    BY <2>1, <2>2, Dropped
  <2>4. \A x \in DOMAIN uidOf \ {r} : uidOf[x] # u
    BY <1>4 DEF Batch, BatchAgrees, UidMapsAgree
  <2>5. UidMapsAgree'
    BY <2>3, <2>4 DEF Batch, BatchAgrees, UidMapsAgree
  <2>6. BatchMatchesRunning'
    BY <1>1, <1>2, <2>2, <2>3, <2>4, SMTT(30) DEF Batch, BatchAgrees, BatchMatchesRunning
  <2>7. DOMAIN uidOf' \subseteq running' /\ \A x \in running' : uidOf'[x] < bgNext'
    BY <1>1, <2>3 DEF Batch, BatchAgrees, BatchMatchesRunning
  <2> QED BY <1>1, <1>2, <1>3, <2>5, <2>6, <2>7 DEF Batch, BatchAgrees, EndedSequencesLeft
<1>5. CASE r \notin DOMAIN uidOf
  <2>1. UNCHANGED <<uidOf, reqOf, seqs>>
    BY <1>5 DEF ProcessAbort
  <2>2. running' = running
    BY <1>1, <1>5 DEF Batch, BatchAgrees, BatchMatchesRunning
  <2> QED BY <1>1, <2>1, <2>2, BatchAside DEF Bookkeeping
<1> QED BY <1>4, <1>5

\* A request is scheduled: a new generator starts with it alone, for nothing runs then,
\* and an old one gives it a uid that nobody has.
LEMMA BatchSchedule ==
  ASSUME TypeOK, HandOver, Batch, ScheduleOne
  PROVE  Batch'
<1> DEFINE r     == Head(waiting)
           fresh == NeedsNewBatch(r)
           old   == IF fresh THEN Empty ELSE seqs
           uid   == IF fresh THEN 0 ELSE bgNext
<1>1. /\ pc = "sched" /\ HasRoom /\ bgOpen' = TRUE /\ bgNext' = uid + 1
      /\ running' = running \cup {r}
      /\ uidOf' = [x \in DOMAIN uidOf \cup {r} |-> IF x = r THEN uid ELSE uidOf[x]]
      /\ reqOf' = [u \in DOMAIN reqOf \cup {uid} |-> IF u = uid THEN r ELSE reqOf[u]]
      /\ UNCHANGED <<pc, fin, resp>>
  BY DEF ScheduleOne, StepThread, stepVars
<1>2. DOMAIN seqs' = DOMAIN old \cup {uid}
  BY DEF ScheduleOne
<1>3. fin = {}
  BY <1>1 DEF HandOver, EndedForAReason
<1>4. r \in Queued /\ r \in Requests /\ r \notin running /\ r \notin DOMAIN uidOf
  <2>1. r \in Queued /\ r \in Requests
    BY <1>1 DEF HasRoom, Queued, ToSet, TypeOK
  <2> QED BY <2>1 DEF HandOver, OnePlace, Batch
<1>5. fresh => running = {} /\ DOMAIN uidOf = {} /\ DOMAIN reqOf = {} /\ DOMAIN old = {}
  BY DEF NeedsNewBatch, Batch, BatchAgrees, BatchMatchesRunning, UidMapsAgree, Empty
<1>6. /\ uid \in Nat /\ bgNext' \in Nat
      /\ \A x \in running : uidOf[x] < uid /\ uidOf[x] \in Nat /\ uidOf[x] # uid
  BY <1>1, <1>5 DEF TypeOK, Batch, BatchAgrees, BatchMatchesRunning
<1>7. uid \notin DOMAIN reqOf /\ DOMAIN old \subseteq {uidOf[x] : x \in running}
  BY <1>5, <1>6 DEF Batch, BatchAgrees, BatchMatchesRunning, UidMapsAgree
<1>8. Cardinality(running') <= MaxNumSeqs
  <2>1. IsFiniteSet(running) /\ Cardinality(running) \in Nat
    BY RunningFinite
  <2>2. Cardinality(running') = Cardinality(running) + 1
    BY <1>1, <1>4, <2>1, FS_AddElement
  <2> QED BY <1>1, <2>1, <2>2, ConstantsAssumption DEF HasRoom, ConstantsAssumption
<1> HIDE DEF r, fresh, uid
<1>9. /\ DOMAIN uidOf' = DOMAIN uidOf \cup {r} /\ uidOf'[r] = uid
      /\ \A x \in DOMAIN uidOf : uidOf'[x] = uidOf[x]
      /\ DOMAIN reqOf' = DOMAIN reqOf \cup {uid} /\ reqOf'[uid] = r
      /\ \A u \in DOMAIN reqOf : reqOf'[u] = reqOf[u]
  BY <1>1, <1>4, <1>7
<1>10. UidMapsAgree'
  BY <1>4, <1>7, <1>9 DEF Batch, BatchAgrees, UidMapsAgree
<1>11. running \subseteq DOMAIN uidOf /\ DOMAIN uidOf \subseteq running
  BY DEF Batch, BatchAgrees, BatchMatchesRunning
<1>12. DOMAIN seqs' \subseteq {uidOf'[x] : x \in running'}
  BY <1>1, <1>2, <1>7, <1>9, <1>11
<1>13. \A x \in running' : uidOf'[x] \in DOMAIN seqs'
  <2>1. \A x \in running : uidOf[x] \in DOMAIN old
    BY <1>1, <1>3, <1>5 DEF Batch, BatchAgrees, BatchMatchesRunning
  <2> QED BY <1>1, <1>2, <1>9, <1>11, <2>1
<1>14. \A x \in running' : uidOf'[x] < bgNext'
  BY <1>1, <1>6, <1>9, <1>11
<1>15. BatchMatchesRunning'
  BY <1>1, <1>9, <1>11, <1>12, <1>13 DEF BatchMatchesRunning
<1> QED BY <1>1, <1>3, <1>8, <1>9, <1>10, <1>11, <1>14, <1>15
        DEF Batch, BatchAgrees, EndedSequencesLeft

\* A sequence with its last token leaves the batch, and its response says so.
LEMMA BatchDecode ==
  ASSUME TypeOK, HandOver, Batch, DecodeOk
  PROVE  Batch'
<1> DEFINE emits == {u \in DOMAIN seqs : seqs[u] >= 0}
<1>1. /\ pc = "decode" /\ pc' = "process"
      /\ UNCHANGED <<running, uidOf, reqOf, bgOpen, bgNext, fin>>
  BY DEF DecodeOk, StepThread, schedVars
<1>2. PICK stops \in SUBSET emits :
        LET full == {u \in emits \ stops : seqs[u] + 1 >= MaxTokens}
        IN /\ resp' = [u \in emits |-> IF u \in stops THEN "stop"
                                       ELSE IF u \in full THEN "length" ELSE NotFin]
           /\ seqs' = [u \in DOMAIN seqs \ (stops \cup full) |-> seqs[u] + 1]
  BY DEF DecodeOk
<1> DEFINE left == stops \cup {u \in emits \ stops : seqs[u] + 1 >= MaxTokens}
<1>3. /\ DOMAIN seqs' = DOMAIN seqs \ left /\ DOMAIN resp' = emits /\ left \subseteq emits
      /\ \A u \in emits : resp'[u] # NotFin <=> u \in left
  BY <1>2 DEF NotFin
<1> HIDE DEF emits, left
<1>4. fin = {}
  BY <1>1 DEF HandOver, EndedForAReason
<1>5. \A r \in running : uidOf[r] \in DOMAIN seqs
  BY <1>1, <1>4 DEF Batch, BatchAgrees, BatchMatchesRunning
<1>6. BatchMatchesRunning'
  BY <1>1, <1>3, <1>5 DEF Batch, BatchAgrees, BatchMatchesRunning
<1>7. EndedSequencesLeft'
  BY <1>1, <1>3, <1>4 DEF EndedSequencesLeft
<1> QED BY <1>1, <1>6, <1>7 DEF Batch, BatchAgrees, UidMapsAgree

\* Every response with a finish reason is credited to the request it was made for.
LEMMA BatchProcess ==
  ASSUME TypeOK, HandOver, Batch, ProcessResponses
  PROVE  Batch'
<1> DEFINE hits   == {u \in DOMAIN resp : u \in DOMAIN reqOf /\ reqOf[u] \in running}
           served == {reqOf[u] : u \in hits}
           reason(r) == resp[CHOOSE u \in hits : reqOf[u] = r]
           ended  == {r \in served : reason(r) # NotFin}
<1>1. /\ pc = "process" /\ pc' = "cleanup" /\ fin' = ended
      /\ UNCHANGED <<running, uidOf, reqOf, bgOpen, bgNext, seqs>>
  BY DEF ProcessResponses, StepThread, bgVars
<1>2. fin = {}
  BY <1>1 DEF HandOver, EndedForAReason
<1>3. ASSUME NEW r \in served
      PROVE  r \in running /\ uidOf[r] \in DOMAIN resp /\ reason(r) = resp[uidOf[r]]
  <2>1. PICK u \in hits : reqOf[u] = r
    BY <1>3
  <2>2. \A v \in hits : reqOf[v] = r => v = uidOf[r]
    BY DEF Batch, BatchAgrees, UidMapsAgree
  <2>3. (CHOOSE v \in hits : reqOf[v] = r) = uidOf[r]
    BY <2>1, <2>2
  <2> QED BY <2>1, <2>2, <2>3
<1>4. ASSUME NEW r \in running, uidOf[r] \in DOMAIN resp PROVE r \in served
  <2>1. uidOf[r] \in DOMAIN reqOf /\ reqOf[uidOf[r]] = r
    BY <1>4 DEF Batch, BatchAgrees, UidMapsAgree, BatchMatchesRunning
  <2> QED BY <1>4, <2>1
<1> HIDE DEF served, reason
<1>5. \A r \in running : uidOf[r] \in DOMAIN resp /\ resp[uidOf[r]] # NotFin => r \in ended
  BY <1>3, <1>4
<1>6. \A r \in ended : uidOf[r] \notin DOMAIN seqs
  BY <1>1, <1>3 DEF Batch, EndedSequencesLeft
<1> HIDE DEF ended
<1>7. BatchMatchesRunning'
  BY <1>1, <1>2, <1>5 DEF Batch, BatchAgrees, BatchMatchesRunning
<1>8. EndedSequencesLeft'
  BY <1>1, <1>6 DEF EndedSequencesLeft
<1> QED BY <1>1, <1>7, <1>8 DEF Batch, BatchAgrees, UidMapsAgree

\* The clean-up takes finished requests out of running and maps.
LEMMA BatchCleanup ==
  ASSUME TypeOK, HandOver, Batch, CleanupFinished
  PROVE  Batch'
<1> DEFINE uids == {uidOf[r] : r \in fin \cap DOMAIN uidOf}
<1>1. /\ pc = "cleanup" /\ pc' = "deliver" /\ fin' = {}
      /\ running' = running \ fin
      /\ uidOf' = Drop(uidOf, fin) /\ reqOf' = Drop(reqOf, uids)
      /\ UNCHANGED <<bgOpen, bgNext, seqs>>
  BY DEF CleanupFinished, StepThread, bgVars
<1>2. /\ DOMAIN uidOf' = DOMAIN uidOf \ fin
      /\ \A x \in DOMAIN uidOf \ fin : uidOf'[x] = uidOf[x]
      /\ DOMAIN reqOf' = DOMAIN reqOf \ uids
      /\ \A u \in DOMAIN reqOf \ uids : reqOf'[u] = reqOf[u]
  BY <1>1, Dropped
<1>3. \A x \in DOMAIN uidOf \ fin : uidOf[x] \notin uids
  BY DEF Batch, BatchAgrees, UidMapsAgree
<1>4. \A u \in DOMAIN reqOf \ uids : reqOf[u] \notin fin
  BY DEF Batch, BatchAgrees, UidMapsAgree
<1> HIDE DEF uids
<1>5. UidMapsAgree'
  BY <1>2, <1>3, <1>4 DEF Batch, BatchAgrees, UidMapsAgree
<1>6. BatchMatchesRunning'
  <2>1. running' \subseteq DOMAIN uidOf' /\ (running' # {} => bgOpen')
    BY <1>1, <1>2 DEF Batch, BatchAgrees, BatchMatchesRunning
  <2>2. DOMAIN seqs' \subseteq {uidOf'[r] : r \in running'}
    BY <1>1, <1>2 DEF Batch, BatchAgrees, BatchMatchesRunning, EndedSequencesLeft
  <2>3. \A r \in running' : uidOf'[r] \in DOMAIN seqs'
    BY <1>1, <1>2 DEF Batch, BatchAgrees, BatchMatchesRunning
  <2> QED BY <2>1, <2>2, <2>3 DEF BatchMatchesRunning
<1>7. Cardinality(running') <= MaxNumSeqs
  <2>1. Cardinality(running') <= Cardinality(running) /\ Cardinality(running') \in Nat
        /\ Cardinality(running) \in Nat
    BY <1>1, RunningFinite
  <2> QED BY <2>1, ConstantsAssumption DEF Batch, ConstantsAssumption
<1>8. DOMAIN uidOf' \subseteq running' /\ \A x \in running' : uidOf'[x] < bgNext'
  BY <1>1, <1>2 DEF Batch, BatchAgrees, BatchMatchesRunning
<1>9. EndedSequencesLeft'
  BY <1>1 DEF EndedSequencesLeft
<1> QED BY <1>5, <1>6, <1>7, <1>8, <1>9 DEF Batch, BatchAgrees

\* Batch is inductive: the steps that leave the bookkeeping alone, those that discard the
\* batch, and the five that change it.
LEMMA BatchStep ==
  ASSUME TypeOK, HandOver, Batch, "abort" \notin PauseModes, [Next]_vars
  PROVE  Batch'
<1> USE DEF schedVars, bgVars, stepVars, clientVars, pauseVars, StepThread, Bookkeeping
<1>1. CASE SubmitStep \/ BeginStep \/ AbortsDone \/ ScheduleDone \/ NothingToDecode
           \/ StartDecode \/ Deliver \/ ScheduleRaises \/ DecodeRaises \/ DecodeStreamError
  <2>1. UNCHANGED Bookkeeping
    BY <1>1 DEF SubmitStep, BeginStep, AbortsDone, ScheduleDone, NothingToDecode,
                StartDecode, Deliver, ScheduleRaises, DecodeRaises, DecodeStreamError
  <2>2. {pc, pc'} \cap {"process", "cleanup"} = {}
    BY <1>1 DEF SubmitStep, BeginStep, AbortsDone, ScheduleDone, NothingToDecode,
                StartDecode, Deliver, ScheduleRaises, DecodeRaises, DecodeStreamError
  <2> QED BY <2>1, <2>2, BatchAside
<1>2. CASE IdleTick \/ UNCHANGED vars
  BY <1>2, BatchAside DEF IdleTick, vars
<1>3. ASSUME NEW r \in Requests, ClientStep(r) PROVE Batch'
  BY <1>3, BatchAside DEF ClientStep, Submit, Take, Abandon, CleanupRequest
<1>4. CASE Trainer
  BY <1>4, BatchAside DEF Trainer, PauseWait, PauseKeep, PauseAbort, DrainEnds, BeginLoad,
                          EndLoad, Resume, FinishUpdate
<1>5. ASSUME NEW r \in Requests, ProcessAbort(r) PROVE Batch'
  BY <1>5, BatchAbort
<1>6. ASSUME NEW r \in Requests, ProcessAbortKeyError(r) PROVE FALSE
  BY <1>6 DEF ProcessAbortKeyError, Batch, BatchAgrees, UidMapsAgree
<1>7. CASE ScheduleFails \/ DecodeCorruptRetry \/ RecoverStream \/ DecodeFatal \/ CleanupFails
  <2>1. DiscardBatch /\ running' = {} /\ pc' # "process"
    BY <1>7 DEF ScheduleFails, DecodeCorruptRetry, RecoverStream, DecodeFatal, CleanupFails,
                AbortRunning, RestartRunning
  <2> QED BY <2>1, BatchDiscarded
<1>8. CASE ScheduleOne
  BY <1>8, BatchSchedule
<1>9. CASE DecodeOk
  BY <1>9, BatchDecode
<1>10. CASE ProcessResponses
  BY <1>10, BatchProcess
<1>11. CASE CleanupFinished
  BY <1>11, BatchCleanup
<1> QED BY <1>1, <1>2, <1>3, <1>4, <1>5, <1>6, <1>7, <1>8, <1>9, <1>10, <1>11
        DEF Next, EngineProgress, Failure

\* Batch holds at first.
LEMMA BatchInit == Init => Batch
<1> SUFFICES ASSUME Init PROVE Batch
  OBVIOUS
<1>1. DOMAIN uidOf = {} /\ DOMAIN reqOf = {} /\ DOMAIN seqs = {} /\ running = {}
  BY DEF Init, Empty
<1>2. Cardinality(running) <= MaxNumSeqs
  BY <1>1, FS_EmptySet, ConstantsAssumption DEF ConstantsAssumption
<1> QED BY <1>1, <1>2 DEF Init, Batch, BatchAgrees, UidMapsAgree, BatchMatchesRunning,
                          EndedSequencesLeft

\* Batch holds for ever.
LEMMA BatchAlways ==
  ASSUME "abort" \notin PauseModes
  PROVE  Spec => [](TypeOK /\ HandOver /\ Batch)
<1>1. Init => TypeOK /\ HandOver /\ Batch
  BY TypeInit, HandOverInit, BatchInit, ConstantsAssumption
<1>2. TypeOK /\ HandOver /\ Batch /\ [Next]_vars => (TypeOK /\ HandOver /\ Batch)'
  BY TypeStep, HandOverStep, BatchStep, ConstantsAssumption
<1> QED BY <1>1, <1>2, PTL DEF Spec

\* The two uid maps of the Scheduler are inverse to each other, and the generator
\* decodes for the running requests and for nobody else (scheduler.py, through
\* scheduling, aborts, restarts, errors and clean-up).
THEOREM BatchAgreesAlways ==
  ASSUME "abort" \notin PauseModes
  PROVE  Spec => []BatchAgrees
<1>1. Batch => BatchAgrees
  BY DEF Batch
<1> QED BY <1>1, BatchAlways, PTL

\* max_num_seqs bounds the sequences in the generator.
THEOREM SlotBoundAlways ==
  ASSUME "abort" \notin PauseModes
  PROVE  Spec => []SlotBound
<1>1. TypeOK /\ Batch => SlotBound
  <2> SUFFICES ASSUME TypeOK, Batch PROVE SlotBound
    OBVIOUS
  <2> DEFINE f == [r \in running |-> uidOf[r]]
  <2>1. IsFiniteSet(running) /\ Cardinality(running) \in Nat
    BY RunningFinite
  <2>2. /\ IsFiniteSet({f[r] : r \in running})
        /\ Cardinality({f[r] : r \in running}) <= Cardinality(running)
    <3>1. f \in Surjection(running, {f[r] : r \in running})
      BY DEF Surjection
    <3> QED BY <2>1, <3>1, FS_Surjection
  <2>3. DOMAIN seqs \subseteq {f[r] : r \in running}
    BY DEF Batch, BatchAgrees, BatchMatchesRunning
  <2>4. /\ Cardinality(DOMAIN seqs) <= Cardinality({f[r] : r \in running})
        /\ Cardinality(DOMAIN seqs) \in Nat
        /\ Cardinality({f[r] : r \in running}) \in Nat
    BY <2>2, <2>3, FS_Subset, FS_CardinalityType
  <2> QED BY <2>1, <2>2, <2>4, ConstantsAssumption DEF SlotBound, Batch, ConstantsAssumption
<1> QED BY <1>1, BatchAlways, PTL

--------------------------------------------------------------------------------
(* First come, first served, and what is generated.                          *)

NoRestarts == Faults \cap {"corrupt", "stream"} = {}

Submitted == {r \in Requests : client[r] # "idle"}

\* The inductive invariant of the order: ranks go up to the number of submissions.
Order ==
  /\ pc # "recover"
  /\ FCFS
  /\ \A r \in Submitted : arrival[r] < Cardinality(Submitted)

--------------------------------------------------------------------------------
(* First come, first served.                                                 *)

\* Queue and running requests keep their ranks, and none runs that did not.
LEMMA OrderAside ==
  ASSUME Order, UNCHANGED <<waiting, arrival>>, running' \subseteq running,
         Submitted' = Submitted, pc' # "recover"
  PROVE  Order'
BY DEF Order, FCFS, Queued

\* The first of the queue leaves it; it may run now.
LEMMA OrderPops ==
  ASSUME TypeOK, Order, waiting # <<>>, waiting' = Tail(waiting),
         running' \subseteq running \cup {Head(waiting)},
         UNCHANGED <<arrival, client>>, pc' # "recover"
  PROVE  Order'
<1>1. /\ Len(waiting) \in Nat /\ Len(waiting) # 0 /\ Head(waiting) = waiting[1]
      /\ DOMAIN waiting = 1..Len(waiting) /\ DOMAIN waiting' = 1..(Len(waiting) - 1)
      /\ \A i \in 1..(Len(waiting) - 1) : waiting'[i] = waiting[i + 1]
  BY DEF TypeOK
<1>2. \A i, j \in DOMAIN waiting' : i < j => arrival'[waiting'[i]] < arrival'[waiting'[j]]
  BY <1>1 DEF Order, FCFS
<1>3. ASSUME NEW r \in running', NEW q \in Queued' PROVE arrival'[r] < arrival'[q]
  <2>1. PICK i \in 1..(Len(waiting) - 1) : q = waiting[i + 1]
    BY <1>1 DEF Queued, ToSet
  <2>2. 1 \in DOMAIN waiting /\ i + 1 \in DOMAIN waiting /\ 1 < i + 1
    BY <1>1
  <2>3. arrival[Head(waiting)] < arrival[q]
    BY <1>1, <2>1, <2>2 DEF Order, FCFS
  <2>4. q \in Queued
    BY <2>1, <2>2 DEF Queued, ToSet
  <2> QED BY <2>3, <2>4 DEF Order, FCFS
<1>4. Submitted' = Submitted
  BY DEF Submitted
<1> QED BY <1>2, <1>3, <1>4 DEF Order, FCFS

\* An abort takes one request out of the queue, at any place of it.
LEMMA OrderAbort ==
  ASSUME TypeOK, Order, NEW r \in Requests, ProcessAbort(r)
  PROVE  Order'
<1>1. /\ running' \subseteq running /\ pc' = pc
      /\ UNCHANGED <<arrival, client>> /\ Submitted' = Submitted
  BY DEF ProcessAbort, stepVars, clientVars, Submitted
<1>2. CASE UNCHANGED waiting
  BY <1>1, <1>2, OrderAside DEF Order
<1>3. CASE \E i \in DOMAIN waiting : waiting' = RemoveAt(waiting, i)
  <2>1. PICK i \in DOMAIN waiting : waiting' = RemoveAt(waiting, i)
    BY <1>3
  <2>2. /\ waiting \in Seq(Requests) /\ Len(waiting) \in Nat
        /\ DOMAIN waiting = 1..Len(waiting) /\ i \in 1..Len(waiting)
    BY SMTT(30) DEF TypeOK
  <2>3. /\ DOMAIN waiting' = 1..(Len(waiting) - 1)
        /\ \A j \in 1..(Len(waiting) - 1) :
             waiting'[j] = IF j < i THEN waiting[j] ELSE waiting[j + 1]
        /\ Queued' \subseteq Queued
    BY <2>1, <2>2, ElementsLeft, RemoveFromQueue DEF Queued
  <2>4. ASSUME NEW j \in DOMAIN waiting', NEW k \in DOMAIN waiting', j < k
        PROVE  arrival[waiting'[j]] < arrival[waiting'[k]]
    <3> DEFINE at(n) == IF n < i THEN n ELSE n + 1
    <3>1. /\ at(j) \in DOMAIN waiting /\ at(k) \in DOMAIN waiting /\ at(j) < at(k)
          /\ waiting'[j] = waiting[at(j)] /\ waiting'[k] = waiting[at(k)]
      BY <2>2, <2>3, <2>4
    <3> HIDE DEF at
    <3> QED BY <3>1 DEF Order, FCFS
  <2> QED BY <1>1, <2>3, <2>4 DEF Order, FCFS
<1> QED BY <1>2, <1>3 DEF ProcessAbort

\* Whoever is submitted comes last.
LEMMA OrderSubmit ==
  ASSUME TypeOK, HandOver, Order, NEW r \in Requests, Submit(r)
  PROVE  Order'
<1> DEFINE n == Cardinality(Submitted)
<1>1. /\ client[r] = "idle" /\ waiting' = Append(waiting, r)
      /\ arrival' = [arrival EXCEPT ![r] = n]
      /\ UNCHANGED <<running, pc>>
  BY DEF Submit, Enqueue, Submitted, stepVars
<1>2. client' = [client EXCEPT ![r] = client'[r]] /\ client'[r] # "idle"
  BY DEF Submit, TypeOK
<1>3. r \notin Submitted /\ Submitted' = Submitted \cup {r}
  BY <1>1, <1>2 DEF Submitted, TypeOK
<1>4. /\ IsFiniteSet(Submitted) /\ n \in Nat /\ Cardinality(Submitted') = n + 1
  <2>1. IsFiniteSet(Submitted)
    BY ConstantsAssumption, FS_Subset DEF ConstantsAssumption, Submitted
  <2> QED BY <1>3, <2>1, FS_AddElement, FS_CardinalityType
<1> HIDE DEF n
<1>5. /\ arrival'[r] = n /\ \A x \in Requests \ {r} : arrival'[x] = arrival[x]
      /\ \A x \in Submitted : arrival[x] < n /\ arrival[x] \in Nat
  BY <1>1, Submitted \subseteq Requests DEF TypeOK, Order, n, Submitted
<1>6. Queued \cup running \subseteq Submitted
  <2>1. Queued \subseteq Requests /\ running \subseteq Requests
    BY SMTT(30) DEF TypeOK, Queued, ToSet
  <2> QED BY <2>1 DEF HandOver, UnknownBeforeSubmit, Submitted
<1>7. /\ DOMAIN waiting = 1..Len(waiting) /\ Len(waiting) \in Nat
      /\ DOMAIN waiting' = 1..(Len(waiting) + 1)
      /\ \A i \in 1..Len(waiting) : waiting'[i] = waiting[i]
      /\ waiting'[Len(waiting) + 1] = r
      /\ \A i \in DOMAIN waiting : waiting[i] \in Queued
  BY <1>1 DEF TypeOK, Queued, ToSet
<1>8. Queued' = Queued \cup {r}
  BY <1>1, AppendToQueue DEF Queued, TypeOK
<1>9. ASSUME NEW i \in DOMAIN waiting', NEW j \in DOMAIN waiting', i < j
      PROVE  arrival'[waiting'[i]] < arrival'[waiting'[j]]
  <2>1. i \in DOMAIN waiting /\ waiting[i] \in Submitted \ {r}
    BY <1>3, <1>6, <1>7, <1>9
  <2>2. arrival'[waiting'[i]] = arrival[waiting[i]]
    BY <1>5, <1>7, <2>1, Submitted \subseteq Requests DEF Submitted
  <2>3. CASE j \in DOMAIN waiting
    <3>1. arrival'[waiting'[j]] = arrival[waiting[j]]
      BY <1>3, <1>5, <1>6, <1>7, <2>3, Submitted \subseteq Requests DEF Submitted
    <3> QED BY <1>9, <2>1, <2>2, <2>3, <3>1 DEF Order, FCFS
  <2>4. CASE j = Len(waiting) + 1
    BY <1>5, <1>7, <2>1, <2>2, <2>4
  <2> QED BY <1>7, <2>3, <2>4
<1>10. ASSUME NEW x \in running', NEW q \in Queued' PROVE arrival'[x] < arrival'[q]
  <2>1. x \in Submitted /\ arrival'[x] = arrival[x] /\ x \in running
    BY <1>1, <1>3, <1>5, <1>6, Submitted \subseteq Requests DEF Submitted
  <2>2. CASE q \in Queued
    <3>1. arrival'[q] = arrival[q]
      BY <1>3, <1>5, <1>6, <2>2, Submitted \subseteq Requests DEF Submitted
    <3> QED BY <2>1, <2>2, <3>1 DEF Order, FCFS
  <2>3. CASE q = r
    BY <1>5, <2>1, <2>3
  <2> QED BY <1>8, <2>2, <2>3
<1>11. \A x \in Submitted' : arrival'[x] < Cardinality(Submitted')
  BY <1>3, <1>4, <1>5, Submitted \subseteq Requests DEF Submitted
<1> QED BY <1>1, <1>9, <1>10, <1>11 DEF Order, FCFS

\* Order is inductive: nobody is put back in the queue.
LEMMA OrderStep ==
  ASSUME TypeOK, HandOver, Order, NoRestarts, [Next]_vars
  PROVE  Order'
<1> USE DEF schedVars, bgVars, stepVars, clientVars, pauseVars, StepThread
<1>1. CASE SubmitStep \/ BeginStep \/ AbortsDone \/ ScheduleDone \/ NothingToDecode
           \/ StartDecode \/ DecodeOk \/ ProcessResponses \/ CleanupFinished \/ Deliver
           \/ DecodeRaises
  <2>1. UNCHANGED <<waiting, arrival, client>> /\ running' \subseteq running
    BY <1>1 DEF SubmitStep, BeginStep, AbortsDone, ScheduleDone, NothingToDecode, StartDecode,
                DecodeOk, ProcessResponses, CleanupFinished, Deliver, DecodeRaises
  <2>2. pc' # "recover"
    BY <1>1 DEF SubmitStep, BeginStep, AbortsDone, ScheduleDone, NothingToDecode, StartDecode,
                DecodeOk, ProcessResponses, CleanupFinished, Deliver, DecodeRaises
  <2> QED BY <2>1, <2>2, OrderAside DEF Submitted
<1>2. CASE DecodeFatal \/ CleanupFails
  BY <1>2, OrderAside DEF DecodeFatal, CleanupFails, AbortRunning, Submitted
<1>3. CASE IdleTick \/ UNCHANGED vars
  BY <1>3, OrderAside DEF IdleTick, vars, Submitted, Order
<1>4. ASSUME NEW r \in Requests, Take(r) \/ Abandon(r) \/ CleanupRequest(r) PROVE Order'
  <2>1. /\ client' = [client EXCEPT ![r] = client'[r]]
        /\ client[r] # "idle" /\ client'[r] # "idle"
        /\ UNCHANGED <<waiting, arrival, running, pc>>
    BY <1>4 DEF Take, Abandon, CleanupRequest, Watching, TypeOK
  <2>2. Submitted' = Submitted
    BY <2>1 DEF Submitted, TypeOK
  <2> QED BY <2>1, <2>2, OrderAside DEF Order
<1>5. ASSUME NEW r \in Requests, Submit(r) PROVE Order'
  BY <1>5, OrderSubmit
<1>6. CASE Trainer
  <2>1. UNCHANGED <<waiting, arrival, client, pc>> /\ running' \subseteq running
    BY <1>6 DEF Trainer, PauseWait, PauseKeep, PauseAbort, DrainEnds, BeginLoad, EndLoad,
                Resume, FinishUpdate
  <2> QED BY <2>1, OrderAside DEF Submitted, Order
<1>7. ASSUME NEW r \in Requests, ProcessAbort(r) PROVE Order'
  BY <1>7, OrderAbort
<1>8. ASSUME NEW r \in Requests, ProcessAbortKeyError(r) PROVE Order'
  BY <1>8, OrderAside DEF ProcessAbortKeyError, Submitted
<1>9. CASE ScheduleOne \/ ScheduleFails \/ ScheduleRaises
  <2>1. /\ waiting # <<>> /\ waiting' = Tail(waiting)
        /\ UNCHANGED <<arrival, client>> /\ pc' # "recover"
    BY <1>9 DEF ScheduleOne, ScheduleFails, ScheduleRaises, HasRoom, AbortRunning, Order
  <2>2. running' \subseteq running \cup {Head(waiting)}
    BY <1>9 DEF ScheduleOne, ScheduleFails, ScheduleRaises, AbortRunning
  <2> QED BY <2>1, <2>2, OrderPops
<1>10. CASE DecodeCorruptRetry \/ DecodeStreamError \/ RecoverStream
  BY <1>10 DEF DecodeCorruptRetry, DecodeStreamError, RecoverStream, Strike, NoRestarts, Order
<1> QED BY <1>1, <1>2, <1>3, <1>4, <1>5, <1>6, <1>7, <1>8, <1>9, <1>10
        DEF Next, EngineProgress, Failure, ClientStep

\* Nobody has come.
LEMMA OrderInit == Init => Order
BY DEF Init, Order, FCFS, Queued, ToSet, Submitted

\* Order holds for ever.
LEMMA OrderAlways ==
  ASSUME NoRestarts
  PROVE  Spec => [](TypeOK /\ HandOver /\ Order)
<1>1. Init => TypeOK /\ HandOver /\ Order
  BY TypeInit, HandOverInit, OrderInit, ConstantsAssumption
<1>2. TypeOK /\ HandOver /\ Order /\ [Next]_vars => (TypeOK /\ HandOver /\ Order)'
  BY TypeStep, HandOverStep, OrderStep, ConstantsAssumption
<1> QED BY <1>1, <1>2, PTL DEF Spec

\* The queue of the Scheduler is in the order of arrival and whatever runs came before
\* whatever is queued (_schedule_waiting, add_request), through aborts and errors, if no
\* error has running requests rescheduled.
THEOREM FCFSAlways ==
  ASSUME NoRestarts
  PROVE  Spec => []FCFS
<1>1. Order => FCFS
  BY DEF Order
<1> QED BY <1>1, OrderAlways, PTL

--------------------------------------------------------------------------------
(* The limits.                                                               *)

\* Before and after the responses of a forward pass are credited: the generator has
\* counted for a request what it has been credited, or one token more.
SeqCounts ==
  pc # "process" => \A r \in running : uidOf[r] \in DOMAIN seqs =>
    /\ seqs[uidOf[r]] < MaxTokens
    /\ seqs[uidOf[r]] >= 0 => nout[r] = seqs[uidOf[r]]
    /\ seqs[uidOf[r]] < 0 => nout[r] = 0

ResponseCounts ==
  pc = "process" => \A r \in running :
    /\ uidOf[r] \in DOMAIN resp =>
         /\ nout[r] + 1 <= MaxTokens
         /\ resp[uidOf[r]] = "length" => nout[r] + 1 = MaxTokens
         /\ resp[uidOf[r]] = NotFin =>
              seqs[uidOf[r]] = nout[r] + 1 /\ seqs[uidOf[r]] < MaxTokens
    /\ uidOf[r] \notin DOMAIN resp => seqs[uidOf[r]] <= 0 /\ nout[r] = 0

\* A client that is told "length", or will be.
ToldLength(r) == "length" \in {out[r].fin, inbox[r].fin, final[r]}

\* The inductive invariant: what is queued has no tokens, and whoever is told "length"
\* was made all of its own.
Limits ==
  /\ \A r \in Requests : nout[r] <= MaxTokens
  /\ \A r \in Queued : nout[r] = 0
  /\ SeqCounts /\ ResponseCounts
  /\ \A r \in Requests : ToldLength(r) => nout[r] = MaxTokens

Counted == <<running, uidOf, seqs, resp, nout>>

\* Nothing is counted, and nobody else is told "length".
LEMMA LimitsAside ==
  ASSUME Limits, UNCHANGED Counted, Queued' \subseteq Queued,
         pc' = pc \/ "process" \notin {pc, pc'},
         \A r \in Requests : ToldLength(r)' => ToldLength(r)
  PROVE  Limits'
<1>1. SeqCounts' /\ ResponseCounts'
  BY DEF Limits, SeqCounts, ResponseCounts, Counted
<1> QED BY <1>1 DEF Limits, Counted

\* All that ran is gone.
LEMMA LimitsDiscarded ==
  ASSUME Limits, running' = {}, nout' = nout, Queued' \subseteq Queued,
         \A r \in Requests : ToldLength(r)' => ToldLength(r)
  PROVE  Limits'
BY DEF Limits, SeqCounts, ResponseCounts

\* The first of the queue is out of it.
LEMMA QueuePopped ==
  ASSUME TypeOK, waiting # <<>>, waiting' = Tail(waiting)
  PROVE  Queued' \subseteq Queued /\ Head(waiting) \in Queued /\ Head(waiting) \in Requests
BY TailOfQueue DEF TypeOK, Queued

\* An error of the step tells those it aborts "error".
LEMMA AbortedAreToldError ==
  ASSUME TypeOK, NEW victims, AbortRunning(victims), UNCHANGED clientVars
  PROVE  \A r \in Requests : ToldLength(r)' => ToldLength(r)
BY DEF AbortRunning, ToldLength, clientVars, TypeOK

\* An abort takes its request out of running, queue and batch.
LEMMA LimitsAbort ==
  ASSUME TypeOK, HandOver, Batch, Limits, NEW r \in Requests, ProcessAbort(r)
  PROVE  Limits'
<1>1. /\ pc = "aborts" /\ pc' = pc /\ running' = running \ {r}
      /\ UNCHANGED <<nout, resp, out, inbox, final>>
  BY DEF ProcessAbort, StepThread, stepVars, clientVars
<1>2. Queued' \subseteq Queued
  BY RemoveFromQueue DEF ProcessAbort, Queued, TypeOK
<1>3. ASSUME NEW x \in running', uidOf'[x] \in DOMAIN seqs'
      PROVE  uidOf'[x] = uidOf[x] /\ uidOf[x] \in DOMAIN seqs /\ seqs'[uidOf[x]] = seqs[uidOf[x]]
  <2>1. x \in DOMAIN uidOf \ {r}
    BY <1>1 DEF Batch, BatchAgrees, BatchMatchesRunning
  <2>2. uidOf' \in {uidOf, Drop(uidOf, {r})} /\ seqs' \in {seqs, Drop(seqs, {uidOf[r]})}
    BY DEF ProcessAbort
  <2>3. uidOf'[x] = uidOf[x]
    <3>1. \A y \in DOMAIN uidOf \ {r} : Drop(uidOf, {r})[y] = uidOf[y]
      BY Dropped
    <3> QED BY <2>1, <2>2, <3>1
  <2>4. CASE seqs' = seqs
    BY <1>3, <2>3, <2>4
  <2>5. CASE seqs' = Drop(seqs, {uidOf[r]})
    <3>1. /\ DOMAIN Drop(seqs, {uidOf[r]}) = DOMAIN seqs \ {uidOf[r]}
          /\ \A u \in DOMAIN seqs \ {uidOf[r]} : Drop(seqs, {uidOf[r]})[u] = seqs[u]
      BY Dropped
    <3> QED BY <1>3, <2>3, <2>5, <3>1
  <2> QED BY <2>2, <2>4, <2>5
<1>4. SeqCounts'
  BY <1>1, <1>3 DEF Limits, SeqCounts
<1> QED BY <1>1, <1>2, <1>4 DEF Limits, ResponseCounts, ToldLength

\* A request is scheduled: it has no tokens, and neither has its sequence.
LEMMA LimitsSchedule ==
  ASSUME TypeOK, HandOver, Batch, Limits, ScheduleOne
  PROVE  Limits'
<1> DEFINE r     == Head(waiting)
           fresh == NeedsNewBatch(r)
           old   == IF fresh THEN Empty ELSE seqs
           uid   == IF fresh THEN 0 ELSE bgNext
<1>1. /\ pc = "sched" /\ pc' = pc /\ waiting # <<>> /\ waiting' = Tail(waiting)
      /\ running' = running \cup {r}
      /\ uidOf' = [x \in DOMAIN uidOf \cup {r} |-> IF x = r THEN uid ELSE uidOf[x]]
      /\ UNCHANGED <<nout, out, inbox, final, resp>>
  BY DEF ScheduleOne, StepThread, stepVars, clientVars, HasRoom
<1>2. PICK k \in 0..MaxPrefill :
        seqs' = [u \in DOMAIN old \cup {uid} |-> IF u = uid THEN -k ELSE old[u]]
  BY DEF ScheduleOne
<1>3. Queued' \subseteq Queued /\ r \in Queued /\ r \in Requests
  BY <1>1, QueuePopped
<1>4. nout[r] = 0 /\ r \notin running /\ r \notin DOMAIN uidOf
  BY <1>3 DEF Limits, HandOver, OnePlace, Batch
<1>5. fresh => running = {}
  BY DEF NeedsNewBatch, Batch, BatchAgrees, BatchMatchesRunning
<1>6. \A x \in running : x \in DOMAIN uidOf /\ uidOf[x] # uid /\ old = seqs
  BY <1>5 DEF TypeOK, Batch, BatchAgrees, BatchMatchesRunning
<1>7. -k < MaxTokens /\ (-k >= 0 => -k = 0)
  BY <1>2, ConstantsAssumption DEF ConstantsAssumption
<1> HIDE DEF r, fresh, old, uid
<1>8. uidOf'[r] = uid /\ seqs'[uid] = -k
  BY <1>1, <1>2
<1>9. \A x \in running : uidOf'[x] = uidOf[x]
                         /\ (uidOf[x] \in DOMAIN seqs' => uidOf[x] \in DOMAIN seqs
                                                       /\ seqs'[uidOf[x]] = seqs[uidOf[x]])
  BY <1>1, <1>2, <1>4, <1>6
<1>10. SeqCounts'
  <2>1. ASSUME NEW x \in running', uidOf'[x] \in DOMAIN seqs'
        PROVE  /\ seqs'[uidOf'[x]] < MaxTokens
               /\ seqs'[uidOf'[x]] >= 0 => nout[x] = seqs'[uidOf'[x]]
               /\ seqs'[uidOf'[x]] < 0 => nout[x] = 0
    <3>1. CASE x = r
      BY <1>4, <1>7, <1>8, <3>1
    <3>2. CASE x \in running
      BY <1>1, <1>9, <2>1, <3>2 DEF Limits, SeqCounts
    <3> QED BY <1>1, <3>1, <3>2
  <2> QED BY <1>1, <2>1 DEF SeqCounts
<1> QED BY <1>1, <1>3, <1>10 DEF Limits, ResponseCounts, ToldLength

\* The generator counts one token more for every sequence that is prefilled, and stops
\* those that have as many as they may.
LEMMA LimitsDecode ==
  ASSUME TypeOK, HandOver, Batch, Limits, DecodeOk
  PROVE  Limits'
<1> DEFINE emits == {u \in DOMAIN seqs : seqs[u] >= 0}
<1>1. /\ pc = "decode" /\ pc' = "process"
      /\ UNCHANGED <<waiting, running, uidOf, nout, out, inbox, final, fin>>
  BY DEF DecodeOk, StepThread, schedVars, clientVars
<1>2. PICK stops \in SUBSET emits :
        LET full == {u \in emits \ stops : seqs[u] + 1 >= MaxTokens}
        IN /\ resp' = [u \in emits |-> IF u \in stops THEN "stop"
                                       ELSE IF u \in full THEN "length" ELSE NotFin]
           /\ seqs' = [u \in DOMAIN seqs \ (stops \cup full) |-> seqs[u] + 1]
  BY DEF DecodeOk
<1>3. fin = {}
  BY <1>1 DEF HandOver, EndedForAReason
<1>4. ASSUME NEW r \in running
      PROVE  LET u == uidOf[r]
             IN /\ u \in DOMAIN seqs /\ seqs[u] \in Int /\ seqs[u] < MaxTokens
                /\ seqs[u] >= 0 => nout[r] = seqs[u]
                /\ seqs[u] < 0 => nout[r] = 0
  <2>1. uidOf[r] \in DOMAIN seqs
    BY <1>1, <1>3 DEF Batch, BatchAgrees, BatchMatchesRunning
  <2> QED BY <1>1, <2>1 DEF Limits, SeqCounts, TypeOK
<1>5. ASSUME NEW r \in running, uidOf[r] \in DOMAIN resp'
      PROVE  /\ nout[r] + 1 <= MaxTokens
             /\ resp'[uidOf[r]] = "length" => nout[r] + 1 = MaxTokens
             /\ resp'[uidOf[r]] = NotFin =>
                  seqs'[uidOf[r]] = nout[r] + 1 /\ seqs'[uidOf[r]] < MaxTokens
  <2>1. uidOf[r] \in emits /\ nout[r] = seqs[uidOf[r]]
    BY <1>2, <1>4, <1>5
  <2>2. nout[r] + 1 <= MaxTokens
    BY <1>4, <2>1, ConstantsAssumption DEF ConstantsAssumption
  <2>3. resp'[uidOf[r]] = "length" => nout[r] + 1 >= MaxTokens
    BY <1>2, <2>1 DEF NotFin
  <2>4. ASSUME resp'[uidOf[r]] = NotFin
        PROVE  seqs'[uidOf[r]] = nout[r] + 1 /\ ~(nout[r] + 1 >= MaxTokens)
    BY <1>2, <2>1, <2>4 DEF NotFin
  <2>5. nout[r] \in Nat /\ MaxTokens \in Nat
    BY ConstantsAssumption DEF ConstantsAssumption, TypeOK
  <2> QED BY <2>2, <2>3, <2>4, <2>5
<1>6. ASSUME NEW r \in running, uidOf[r] \notin DOMAIN resp'
      PROVE  seqs'[uidOf[r]] <= 0 /\ nout[r] = 0
  <2>1. uidOf[r] \in DOMAIN seqs \ emits /\ seqs[uidOf[r]] < 0 /\ nout[r] = 0
    BY <1>2, <1>4, <1>6
  <2>2. seqs'[uidOf[r]] = seqs[uidOf[r]] + 1
    BY <1>2, <2>1
  <2> QED BY <1>4, <2>1, <2>2
<1>7. ResponseCounts' /\ SeqCounts'
  BY <1>1, <1>5, <1>6 DEF ResponseCounts, SeqCounts
<1> QED BY <1>1, <1>7 DEF Limits, Queued, ToldLength

\* Every response is credited to the request that it was made for.
LEMMA LimitsProcess ==
  ASSUME TypeOK, HandOver, Batch, Limits, ProcessResponses
  PROVE  Limits'
<1> DEFINE hits   == {u \in DOMAIN resp : u \in DOMAIN reqOf /\ reqOf[u] \in running}
           served == {reqOf[u] : u \in hits}
           reason(r) == resp[CHOOSE u \in hits : reqOf[u] = r]
<1>1. /\ pc = "process" /\ pc' = "cleanup"
      /\ nout' = [r \in Requests |-> IF r \in served THEN nout[r] + 1 ELSE nout[r]]
      /\ out' = [r \in Requests |->
                   IF r \in served THEN [tok |-> 1, fin |-> reason(r)] ELSE NoOutput]
      /\ UNCHANGED <<waiting, running, uidOf, reqOf, seqs, inbox, final>>
  BY DEF ProcessResponses, StepThread, bgVars, clientVars
<1>2. ASSUME NEW r \in served
      PROVE  r \in running /\ uidOf[r] \in DOMAIN resp /\ reason(r) = resp[uidOf[r]]
  <2>1. PICK u \in hits : reqOf[u] = r
    BY <1>2
  <2>2. \A v \in hits : reqOf[v] = r => v = uidOf[r]
    BY DEF Batch, BatchAgrees, UidMapsAgree
  <2>3. (CHOOSE v \in hits : reqOf[v] = r) = uidOf[r]
    BY <2>1, <2>2
  <2> QED BY <2>1, <2>2, <2>3
<1>3. ASSUME NEW r \in running, uidOf[r] \in DOMAIN resp PROVE r \in served
  <2>1. uidOf[r] \in DOMAIN reqOf /\ reqOf[uidOf[r]] = r
    BY <1>3 DEF Batch, BatchAgrees, UidMapsAgree, BatchMatchesRunning
  <2> QED BY <1>3, <2>1
<1> HIDE DEF served, reason
<1>4. running \subseteq Requests /\ served \subseteq running /\ Queued \subseteq Requests
  BY <1>2 DEF TypeOK, Queued, ToSet
<1>5. \A r \in Requests : nout'[r] <= MaxTokens
  <2> TAKE r \in Requests
  <2>1. CASE r \in served
    <3>1. nout'[r] = nout[r] + 1 /\ nout[r] + 1 <= MaxTokens
      BY <1>1, <1>2, <2>1 DEF Limits, ResponseCounts
    <3> QED BY <3>1
  <2>2. CASE r \notin served
    BY <1>1, <2>2 DEF Limits
  <2> QED BY <2>1, <2>2
<1>6. \A r \in Queued' : nout'[r] = 0
  BY <1>1, <1>4 DEF Limits, Queued, HandOver, OnePlace
<1>7. SeqCounts'
  <2>1. ASSUME NEW r \in running, uidOf[r] \in DOMAIN seqs
        PROVE  /\ seqs[uidOf[r]] < MaxTokens
               /\ seqs[uidOf[r]] >= 0 => nout'[r] = seqs[uidOf[r]]
               /\ seqs[uidOf[r]] < 0 => nout'[r] = 0
    <3>1. seqs[uidOf[r]] \in Int /\ nout[r] \in Nat /\ MaxTokens \in Nat /\ MaxTokens > 0
      BY <1>4, <2>1, ConstantsAssumption DEF ConstantsAssumption, TypeOK
    <3>2. CASE uidOf[r] \in DOMAIN resp
      <4>1. resp[uidOf[r]] = NotFin
        BY <1>1, <2>1, <3>2 DEF Batch, EndedSequencesLeft
      <4>2. seqs[uidOf[r]] = nout[r] + 1 /\ seqs[uidOf[r]] < MaxTokens
        BY <1>1, <3>2, <4>1 DEF Limits, ResponseCounts
      <4>3. nout'[r] = nout[r] + 1
        BY <1>1, <1>3, <1>4, <3>2
      <4> QED BY <3>1, <4>2, <4>3
    <3>3. CASE uidOf[r] \notin DOMAIN resp
      <4>1. seqs[uidOf[r]] <= 0 /\ nout[r] = 0
        BY <1>1, <3>3 DEF Limits, ResponseCounts
      <4>2. nout'[r] = nout[r]
        BY <1>1, <1>2, <1>4, <3>3
      <4> QED BY <3>1, <4>1, <4>2
    <3> QED BY <3>2, <3>3
  <2> QED BY <1>1, <2>1 DEF SeqCounts
<1>8. \A r \in Requests : ToldLength(r)' => nout'[r] = MaxTokens
  <2> SUFFICES ASSUME NEW r \in Requests, ToldLength(r)' PROVE nout'[r] = MaxTokens
    OBVIOUS
  <2>1. CASE inbox[r].fin = "length" \/ final[r] = "length"
    <3>1. r \notin served /\ nout[r] = MaxTokens
      BY <1>4, <2>1 DEF HandOver, NothingAfterFinish, NotFin, Limits, ToldLength
    <3> QED BY <1>1, <3>1
  <2>2. CASE out'[r].fin = "length"
    <3>1. r \in served /\ reason(r) = "length"
      BY <1>1, <2>2 DEF NoOutput, NotFin
    <3>2. nout[r] + 1 = MaxTokens
      BY <1>1, <1>2, <3>1 DEF Limits, ResponseCounts
    <3> QED BY <1>1, <3>1, <3>2
  <2> QED BY <1>1, <2>1, <2>2 DEF ToldLength
<1> QED BY <1>1, <1>5, <1>6, <1>7, <1>8 DEF Limits, ResponseCounts

\* The clean-up takes finished requests out of running.
LEMMA LimitsCleanup ==
  ASSUME Batch, Limits, CleanupFinished
  PROVE  Limits'
<1>1. /\ pc = "cleanup" /\ pc' = "deliver" /\ running' = running \ fin
      /\ uidOf' = Drop(uidOf, fin)
      /\ UNCHANGED <<waiting, nout, seqs, resp, out, inbox, final>>
  BY DEF CleanupFinished, StepThread, bgVars, clientVars
<1>2. \A r \in running' : r \in running /\ uidOf'[r] = uidOf[r]
  BY <1>1, Dropped DEF Batch, BatchAgrees, BatchMatchesRunning
<1>3. SeqCounts' /\ ResponseCounts'
  BY <1>1, <1>2 DEF Limits, SeqCounts, ResponseCounts
<1> QED BY <1>1, <1>3 DEF Limits, Queued, ToldLength

\* Limits is inductive.
LEMMA LimitsStep ==
  ASSUME TypeOK, HandOver, Batch, Order, Limits, NoRestarts, "abort" \notin PauseModes,
         [Next]_vars
  PROVE  Limits'
<1> USE DEF schedVars, bgVars, stepVars, clientVars, pauseVars, StepThread
<1>1. CASE SubmitStep \/ BeginStep \/ AbortsDone \/ ScheduleDone \/ NothingToDecode
           \/ StartDecode \/ DecodeRaises
  <2>1. UNCHANGED <<Counted, waiting, out, inbox, final>> /\ "process" \notin {pc, pc'}
    BY <1>1 DEF SubmitStep, BeginStep, AbortsDone, ScheduleDone, NothingToDecode, StartDecode,
                DecodeRaises, Counted
  <2> QED BY <2>1, LimitsAside DEF Queued, ToldLength
<1>2. CASE IdleTick \/ UNCHANGED vars \/ Trainer
  <2>1. UNCHANGED <<Counted, waiting, out, inbox, final, pc>>
    BY <1>2 DEF IdleTick, vars, Trainer, PauseWait, PauseKeep, PauseAbort, DrainEnds,
                BeginLoad, EndLoad, Resume, FinishUpdate, Counted
  <2> QED BY <2>1, LimitsAside DEF Queued, ToldLength
<1>3. CASE Deliver
  <2>1. /\ UNCHANGED <<Counted, waiting, final>> /\ "process" \notin {pc, pc'}
        /\ out' = NoOutputs
        /\ \A r \in Requests : inbox'[r].fin \in {inbox[r].fin, out[r].fin}
    BY <1>3 DEF Deliver, Counted, Merge
  <2>2. \A r \in Requests : ToldLength(r)' => ToldLength(r)
    BY <2>1 DEF ToldLength, NoOutputs, NoOutput, NotFin
  <2> QED BY <2>1, <2>2, LimitsAside DEF Queued
<1>4. CASE ScheduleRaises
  <2>1. /\ UNCHANGED <<Counted, out, inbox, final>> /\ "process" \notin {pc, pc'}
        /\ waiting # <<>> /\ waiting' = Tail(waiting)
    BY <1>4 DEF ScheduleRaises, HasRoom, Counted
  <2> QED BY <2>1, QueuePopped, LimitsAside DEF ToldLength
<1>5. ASSUME NEW r \in Requests, Take(r) \/ Abandon(r) \/ CleanupRequest(r) PROVE Limits'
  <2>1. UNCHANGED <<Counted, waiting, out, pc>>
    BY <1>5 DEF Take, Abandon, CleanupRequest, Counted
  <2>2. /\ inbox' \in {inbox, [inbox EXCEPT ![r] = NoOutput]}
        /\ final' \in {final, [final EXCEPT ![r] = inbox[r].fin]}
    BY <1>5 DEF Take, Abandon, CleanupRequest
  <2>3. \A x \in Requests : /\ inbox'[x] \in {inbox[x], NoOutput}
                            /\ final'[x] \in {final[x], inbox[x].fin}
    <3>1. DOMAIN inbox = Requests /\ DOMAIN final = Requests
      BY DEF TypeOK
    <3> HIDE DEF NoOutput
    <3> QED BY <2>2, <3>1
  <2>4. \A x \in Requests : ToldLength(x)' => ToldLength(x)
    BY <2>1, <2>3 DEF ToldLength, NoOutput, NotFin
  <2> QED BY <2>1, <2>4, LimitsAside DEF Queued
<1>6. ASSUME NEW r \in Requests, Submit(r) PROVE Limits'
  <2>1. UNCHANGED <<Counted, out, final, pc>> /\ Queued' = Queued \cup {r} /\ nout[r] = 0
        /\ inbox' = [inbox EXCEPT ![r] = NoOutput]
    BY <1>6, AppendToQueue DEF Submit, Enqueue, Counted, Queued, TypeOK, HandOver,
                               UnknownBeforeSubmit
  <2>2. \A x \in Requests : ToldLength(x)' => ToldLength(x)
    BY <2>1 DEF ToldLength, NoOutput, NotFin, TypeOK
  <2> QED BY <2>1, <2>2 DEF Limits, SeqCounts, ResponseCounts, Counted
<1>7. ASSUME NEW r \in Requests, ProcessAbort(r) PROVE Limits'
  BY <1>7, LimitsAbort
<1>8. ASSUME NEW r \in Requests, ProcessAbortKeyError(r) PROVE FALSE
  BY <1>8 DEF ProcessAbortKeyError, Batch, BatchAgrees, UidMapsAgree
<1>9. CASE ScheduleFails
  <2>1. /\ running' = {} /\ nout' = nout /\ waiting # <<>> /\ waiting' = Tail(waiting)
        /\ \A r \in Requests : ToldLength(r)' => ToldLength(r)
    BY <1>9, AbortedAreToldError DEF ScheduleFails, HasRoom, AbortRunning
  <2> QED BY <2>1, QueuePopped, LimitsDiscarded
<1>10. CASE DecodeFatal \/ CleanupFails
  <2>1. /\ running' = {} /\ nout' = nout /\ waiting' = waiting
        /\ \A r \in Requests : ToldLength(r)' => ToldLength(r)
    BY <1>10, AbortedAreToldError DEF DecodeFatal, CleanupFails, AbortRunning
  <2> QED BY <2>1, LimitsDiscarded DEF Queued
<1>11. CASE DecodeCorruptRetry \/ DecodeStreamError \/ RecoverStream
  BY <1>11 DEF DecodeCorruptRetry, DecodeStreamError, RecoverStream, Strike, NoRestarts, Order
<1>12. CASE ScheduleOne
  BY <1>12, LimitsSchedule
<1>13. CASE DecodeOk
  BY <1>13, LimitsDecode
<1>14. CASE ProcessResponses
  BY <1>14, LimitsProcess
<1>15. CASE CleanupFinished
  BY <1>15, LimitsCleanup
<1> QED BY <1>1, <1>2, <1>3, <1>4, <1>5, <1>6, <1>7, <1>8, <1>9, <1>10, <1>11, <1>12, <1>13,
           <1>14, <1>15 DEF Next, EngineProgress, Failure, ClientStep

\* Nothing is made yet.
LEMMA LimitsInit == Init => Limits
BY ConstantsAssumption DEF ConstantsAssumption, Init, Limits, SeqCounts, ResponseCounts, Queued,
                           ToSet, ToldLength, NoOutputs, NoOutput, NotFin

\* max_num_seqs bounds the batch, max_tokens the tokens of a request, and a client told
\* "length" holds exactly that many, if no error has running requests rescheduled and no
\* pause aborts them.
THEOREM WithinLimitsAlways ==
  ASSUME NoRestarts, "abort" \notin PauseModes
  PROVE  Spec => []WithinLimits
<1>1. Spec => [](TypeOK /\ HandOver /\ Batch)
  BY BatchAlways
<1>2. Spec => [](TypeOK /\ HandOver /\ Order)
  BY OrderAlways
<1>3. Init => Limits
  BY LimitsInit
<1>4. TypeOK /\ HandOver /\ Batch /\ Order /\ Limits /\ [Next]_vars => Limits'
  BY LimitsStep
<1>5. TypeOK /\ HandOver /\ Limits => TokensWithinMax
  <2> SUFFICES ASSUME TypeOK, HandOver, Limits, NEW r \in Requests, final[r] = "length"
               PROVE  got[r] = MaxTokens
    BY DEF TokensWithinMax, Limits
  <2>1. nout[r] = MaxTokens
    BY DEF Limits, ToldLength
  <2>2. client[r] \in {"ending", "done"} /\ inbox[r] = NoOutput /\ out[r] = NoOutput
    BY DEF HandOver, ConsumersTracked, NothingAfterFinish, NotFin
  <2>3. got[r] + inbox[r].tok + out[r].tok = nout[r]
    BY <2>2 DEF HandOver, TokensConserved
  <2> QED BY <2>1, <2>2, <2>3 DEF NoOutput, TypeOK
<1>6. Spec => []SlotBound
  BY SlotBoundAlways
<1> QED BY <1>1, <1>2, <1>3, <1>4, <1>5, <1>6, PTL DEF Spec, WithinLimits

================================================================================
