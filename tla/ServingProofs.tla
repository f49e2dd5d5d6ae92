----------------------------- MODULE ServingProofs -----------------------------
(***************************************************************************)
(* What TLAPS proves of the engine without batches (SimpleServing), of the *)
(* HTTP layer above it (HttpServing), of the multimodal scheduler          *)
(* (MllmServing) and of the patched batch generator (DraftDecode), for any *)
(* number of requests.                                                     *)
(***************************************************************************)
EXTENDS SimpleServing, HttpServing, MllmServing, DraftDecode,
        QueueLemmas

--------------------------------------------------------------------------------
(* SimpleServing: the lock's queue, the worker thread and its consumer.      *)

\* One system prompt is in use: the snapshot a request restores can be no other's.
OneSystemPrompt ==
  \A q, r \in SimpleReqs : SystemOf[q] > 0 /\ SystemOf[r] > 0 => SystemOf[q] = SystemOf[r]

SimpleTyped ==
  /\ lockQueue \in Seq(SimpleReqs) /\ IsInjective(lockQueue)
  /\ pc \in [SimpleReqs -> {"new", "direct", "blocking", "restoring", "reading", "closing",
                            "ended", "raised", "cancelled"}]
  /\ job \in [SimpleReqs -> {"none", "queued", "running", "draining"}]
  /\ worker \in [SimpleReqs -> {"none", "begin", "snapshot", "hash", "count", "spec",
                                "resumed", "decode", "over", "raised"}]
  /\ abortSet \in [SimpleReqs -> BOOLEAN] /\ cancels \in [SimpleReqs -> Nat]
  /\ produced \in [SimpleReqs -> Nat]
  /\ responses \in [SimpleReqs -> Seq(Int)] /\ spoken \in [SimpleReqs -> Seq(Int)]
  /\ kvOf \in [SimpleReqs -> Nat] /\ sends \in [SimpleReqs -> {"full", "suffix"}]
  /\ systemKv \in [snapshot : Nat, hash : Nat, count : Nat]

\* Who is in the lock's queue, and what that says of its thread and its consumer.
Placed(q) ==
  /\ worker[q] # "none" <=> job[q] \in {"running", "draining"}
  /\ worker[q] # "none" => Holds(q)
  /\ q \in ToSet(lockQueue) <=> job[q] # "none" \/ pc[q] = "direct"
  /\ job[q] # "none" => pc[q] \in {"blocking", "restoring", "reading", "closing"}
  /\ pc[q] \in {"blocking", "restoring", "closing"} => job[q] # "none"
  /\ job[q] = "draining" => cancels[q] = 1 /\ pc[q] # "reading"
  /\ pc[q] \in {"restoring", "reading", "closing"} => RouteOf[q] = "text"

\* Taking a request out of the lock's queue.
LEMMA WithoutOne ==
  ASSUME lockQueue \in Seq(SimpleReqs), IsInjective(lockQueue), NEW r \in SimpleReqs
  PROVE  /\ Without(r) \in Seq(SimpleReqs) /\ IsInjective(Without(r))
         /\ ToSet(Without(r)) = ToSet(lockQueue) \ {r}
         /\ \A q \in SimpleReqs : q # r /\ Holds(q) => /\ Without(r) # <<>>
                                                       /\ Head(Without(r)) = q
<1>1. /\ Without(r) \in Seq(SimpleReqs) /\ IsInjective(Without(r))
      /\ ToSet(Without(r)) = ToSet(lockQueue) \cap (SimpleReqs \ {r})
      /\ lockQueue # <<>> /\ lockQueue[1] \in SimpleReqs \ {r} =>
           Without(r) # <<>> /\ Without(r)[1] = lockQueue[1]
  BY SelectedQueue DEF Without
<1>2. ToSet(lockQueue) \subseteq SimpleReqs
  BY DEF ToSet
<1>3. \A s \in Seq(SimpleReqs) : s # <<>> => Head(s) = s[1]
  OBVIOUS
<1> QED BY <1>1, <1>2, <1>3 DEF Holds

\* What a step of one request does to the lock's queue leaves the others where they are.
QueueMoves(r) ==
  /\ lockQueue' \in Seq(SimpleReqs) /\ IsInjective(lockQueue')
  /\ \A q \in SimpleReqs : q # r => /\ q \in ToSet(lockQueue') <=> q \in ToSet(lockQueue)
                                    /\ Holds(q) => Holds(q)'

\* A request behind all the others in the lock's queue.
LEMMA JoiningTheQueue ==
  ASSUME NEW s \in Seq(SimpleReqs), IsInjective(s), NEW r \in SimpleReqs, r \notin ToSet(s)
  PROVE  /\ Append(s, r) \in Seq(SimpleReqs) /\ IsInjective(Append(s, r))
         /\ ToSet(Append(s, r)) = ToSet(s) \cup {r}
         /\ Append(s, r) # <<>> /\ (s # <<>> => Head(Append(s, r)) = Head(s))
<1>1. Append(s, r)# <<>> /\ (s # <<>> => Head(Append(s, r)) = Head(s))
  <2>1. /\ Len(Append(s, r)) = Len(s) + 1 /\ Append(s, r) \in Seq(SimpleReqs)
        /\ s # <<>> => Append(s, r)[1] = s[1] /\ Head(s) = s[1]
    OBVIOUS
  <2> QED BY <2>1
<1> QED BY <1>1, AppendToQueue

\* All requests are new at first.
LEMMA SimpleTypedInit == SimpleAssumption /\ SimpleInit => SimpleTyped
  BY DEF SimpleInit, SimpleTyped, IsInjective

\* What a step of a request does to the lock's queue moves no other request in it.
LEMMA QueueStep ==
  ASSUME SimpleAssumption, SimpleTyped, NEW r \in SimpleReqs, SimpleStep(r), Placed(r)
  PROVE  QueueMoves(r)
<1> USE DEF SimpleTyped
<1>1. UNCHANGED lockQueue => QueueMoves(r)
  BY DEF QueueMoves, Holds
<1>2. lockQueue' = Append(lockQueue, r) /\ r \notin ToSet(lockQueue) => QueueMoves(r)
  <2> SUFFICES ASSUME lockQueue' = Append(lockQueue, r), r \notin ToSet(lockQueue)
               PROVE  QueueMoves(r)
    OBVIOUS
  <2>1. /\ lockQueue' \in Seq(SimpleReqs) /\ IsInjective(lockQueue')
        /\ ToSet(lockQueue') = ToSet(lockQueue) \cup {r}
        /\ lockQueue' # <<>> /\ (lockQueue # <<>> => Head(lockQueue') = Head(lockQueue))
    BY JoiningTheQueue
  <2> QED BY <2>1 DEF QueueMoves, Holds
<1>3. lockQueue' = Without(r) => QueueMoves(r)
  BY WithoutOne, ZenonT(30) DEF QueueMoves, Holds
<1>4. lockQueue' = Append(Without(r), r) => QueueMoves(r)
  <2> DEFINE w == Without(r)
  <2>1. w \in Seq(SimpleReqs) /\ IsInjective(w) /\ ToSet(w) = ToSet(lockQueue) \ {r}
    BY WithoutOne
  <2>2. \A q \in SimpleReqs : q # r /\ Holds(q) => w # <<>> /\ Head(w) = q
    BY WithoutOne
  <2> HIDE DEF w
  <2> SUFFICES ASSUME lockQueue' = Append(w, r) PROVE QueueMoves(r)
    BY DEF w
  <2>3. /\ lockQueue' \in Seq(SimpleReqs) /\ IsInjective(lockQueue')
        /\ ToSet(lockQueue') = ToSet(w) \cup {r}
        /\ lockQueue' # <<>> /\ (w # <<>> => Head(lockQueue') = Head(w))
    BY <2>1, JoiningTheQueue
  <2> QED BY <2>1, <2>2, <2>3 DEF QueueMoves, Holds
<1>5. lockQueue' = Tail(lockQueue) /\ Holds(r) => QueueMoves(r)
  <2> SUFFICES ASSUME lockQueue' = Tail(lockQueue), Holds(r) PROVE QueueMoves(r)
    OBVIOUS
  <2>1. lockQueue # <<>> /\ Head(lockQueue) = r
    BY DEF Holds
  <2>2. /\ lockQueue' \in Seq(SimpleReqs) /\ IsInjective(lockQueue')
        /\ ToSet(lockQueue') \subseteq ToSet(lockQueue)
        /\ ToSet(lockQueue) \subseteq ToSet(lockQueue') \cup {r}
    BY <2>1, TailOfQueue
  <2> QED BY <2>1, <2>2 DEF QueueMoves, Holds
<1>6. CASE SimpleArrives(r)
  BY <1>2, <1>6 DEF SimpleArrives, Placed
<1>7. CASE JobEnds(r)
  BY <1>3, <1>4, <1>7 DEF JobEnds
<1>8. CASE DirectSteps(r)
  BY <1>1, <1>5, <1>8 DEF DirectSteps
<1>9. CASE SimpleCancelled(r)
  BY <1>1, <1>3, <1>9 DEF SimpleCancelled, JobCancelled
<1> QED BY <1>1, <1>6, <1>7, <1>8, <1>9 DEF SimpleStep, WorkerStarts, WorkerBegins, WorkerKeeps,
       SpecPrefills, SpecRuns, SpecFails, WorkerDecodes, WorkerRaises, ConsumerReads

\* What a cancellation finds the consumer at.
CancelledDirect(r) ==
  /\ pc[r] = "direct" /\ lockQueue' = Without(r)
  /\ pc' = Set(pc, r, "cancelled") /\ UNCHANGED <<job, abortSet>>
CancelledRunning(r) ==
  /\ pc[r] \in {"blocking", "restoring", "closing"} /\ job[r] = "running"
  /\ job' = Set(job, r, "draining") /\ UNCHANGED <<lockQueue, pc>>
  /\ abortSet' \in {abortSet, Set(abortSet, r, TRUE)}
CancelledQueued(r) ==
  /\ pc[r] \in {"blocking", "restoring", "closing"} /\ job[r] # "running"
  /\ job' = Set(job, r, "none") /\ lockQueue' = Without(r)
  /\ pc' = Set(pc, r, "cancelled") /\ UNCHANGED abortSet
CancelledReading(r) ==
  /\ pc[r] = "reading" /\ UNCHANGED <<job, lockQueue>>
  /\ pc' = Set(pc, r, IF job[r] = "none" THEN "cancelled" ELSE "closing")
  /\ abortSet' = IF job[r] = "none" THEN abortSet ELSE Set(abortSet, r, TRUE)

\* A cancellation meets the request in one of four states.
LEMMA CancelledWhere ==
  ASSUME NEW r, SimpleCancelled(r)
  PROVE  CancelledDirect(r) \/ CancelledRunning(r) \/ CancelledQueued(r) \/ CancelledReading(r)
<1> USE DEF CancelledDirect, CancelledRunning, CancelledQueued, CancelledReading
<1>1. CASE pc[r] = "direct"
  BY <1>1 DEF SimpleCancelled
<1>2. ASSUME pc[r] \in {"blocking", "restoring", "closing"}, NEW aborts, JobCancelled(r, aborts)
      PROVE  CancelledRunning(r) \/ CancelledQueued(r)
  BY <1>2 DEF JobCancelled
<1>3. CASE pc[r] \in {"blocking", "restoring"}
  <2>1. JobCancelled(r, pc[r] = "blocking" /\ r \in SpecOn)
    BY <1>3 DEF SimpleCancelled
  <2> QED BY <1>2, <1>3, <2>1
<1>4. CASE pc[r] = "closing"
  <2>1. JobCancelled(r, TRUE)
    BY <1>4 DEF SimpleCancelled
  <2> QED BY <1>2, <1>4, <2>1
<1>5. CASE pc[r] = "reading"
  BY <1>5 DEF SimpleCancelled
<1>6. CASE pc[r] \notin {"direct", "blocking", "restoring", "closing", "reading"}
  BY <1>6 DEF SimpleCancelled
<1> QED BY <1>1, <1>3, <1>4, <1>5, <1>6

\* What a consumer reads: a token after which it reads on, its last token, the end or a
\* failure of the producer.
SaidNow(r) == Append(spoken[r], Head(responses[r]))
ReadsOn(r) ==
  /\ Head(responses[r]) \notin {Done, Raised} /\ Len(SaidNow(r)) \notin {SimpleMax, SimpleStop}
  /\ spoken' = Set(spoken, r, SaidNow(r)) /\ UNCHANGED <<pc, abortSet>>
ReadsLast(r) ==
  /\ Head(responses[r]) \notin {Done, Raised} /\ Len(SaidNow(r)) \in {SimpleMax, SimpleStop}
  /\ spoken' = Set(spoken, r, SaidNow(r))
  /\ pc' = Set(pc, r, IF job[r] # "none" THEN "closing" ELSE "ended")
ReadsEnd(r) ==
  /\ Head(responses[r]) \in {Done, Raised} /\ UNCHANGED spoken
  /\ pc' = Set(pc, r, IF Head(responses[r]) = Raised THEN "raised"
                      ELSE IF job[r] # "none" THEN "closing" ELSE "ended")

\* The consumer reads an answer, the last of them, or the end of the stream.
LEMMA ReadsWhat ==
  ASSUME NEW r, ConsumerReads(r)
  PROVE  /\ pc[r] = "reading" /\ responses[r] # <<>>
         /\ responses' = Set(responses, r, Tail(responses[r]))
         /\ UNCHANGED <<lockQueue, job, worker, cancels, produced, kvOf, sends, systemKv>>
         /\ ReadsOn(r) \/ ReadsLast(r) \/ ReadsEnd(r)
<1> USE DEF ConsumerReads, SaidNow
<1>1. CASE Head(responses[r]) \in {Done, Raised}
  BY <1>1 DEF ReadsEnd
<1>2. CASE Head(responses[r]) \notin {Done, Raised} /\ Len(SaidNow(r)) \in {SimpleMax, SimpleStop}
  <2>1. Head(responses[r]) # Raised
    BY <1>2
  <2> QED BY <1>2, <2>1 DEF ReadsLast
<1>3. CASE Head(responses[r]) \notin {Done, Raised}
           /\ Len(SaidNow(r)) \notin {SimpleMax, SimpleStop}
  BY <1>3 DEF ReadsOn
<1> QED BY <1>1, <1>2, <1>3

\* How a thread's end finds its consumer.
EndsRestored(r) ==
  /\ pc[r] = "restoring" /\ job[r] = "running"
  /\ job' = Set(job, r, "queued") /\ pc' = Set(pc, r, "reading") /\ UNCHANGED <<spoken, responses>>
EndsDrained(r) ==
  /\ job[r] = "draining" /\ pc' = Set(pc, r, "cancelled") /\ UNCHANGED <<spoken, responses>>
EndsBlocking(r) ==
  /\ pc[r] = "blocking" /\ job[r] = "running"
  /\ \/ worker[r] = "over" /\ pc' = Set(pc, r, "ended")
          /\ spoken' = Set(spoken, r, [i \in 1..produced[r] |-> i])
     \/ pc' = Set(pc, r, "raised") /\ UNCHANGED spoken
EndsReading(r) ==
  /\ pc[r] = "reading" /\ job[r] = "running" /\ UNCHANGED spoken
  /\ job' = Set(job, r, "none") /\ pc' = Set(pc, r, pc[r])
  /\ responses' = Set(responses, r, Append(responses[r], IF worker[r] = "over" THEN Done ELSE Raised))
EndsClosing(r) ==
  /\ pc[r] = "closing" /\ job[r] = "running" /\ UNCHANGED spoken
  /\ pc' = Set(pc, r, IF cancels[r] = 0 THEN "ended" ELSE "cancelled")

\* The end of a thread's job, by what its consumer was doing.
LEMMA EndsHow ==
  ASSUME NEW r, JobEnds(r), Placed(r)
  PROVE  /\ EndsRestored(r) \/ EndsDrained(r) \/ EndsBlocking(r) \/ EndsReading(r)
              \/ EndsClosing(r)
         /\ UNCHANGED <<abortSet, cancels, produced, kvOf, sends, systemKv>>
<1> DEFINE restored == pc[r] = "restoring" /\ job[r] = "running"
           spoke == pc[r] = "blocking" /\ job[r] = "running" /\ worker[r] = "over"
           next == EndedAs(r)
<1>0. UNCHANGED <<abortSet, cancels, produced, kvOf, sends, systemKv>>
  BY DEF JobEnds
<1>p. /\ pc' = Set(pc, r, next) /\ job' = Set(job, r, IF restored THEN "queued" ELSE "none")
      /\ spoken' = IF spoke THEN Set(spoken, r, [i \in 1..produced[r] |-> i]) ELSE spoken
      /\ responses' = IF RouteOf[r] = "text" /\ ~restored /\ job[r] = "running"
                      THEN Set(responses, r, Append(responses[r],
                                 IF worker[r] = "over" THEN Done ELSE Raised))
                      ELSE responses
      /\ job[r] \in {"running", "draining"}
  BY DEF JobEnds
<1>q. pc[r] \in {"blocking", "restoring", "reading", "closing"} /\ (job[r] = "draining" => pc[r] # "reading")
      /\ (pc[r] \in {"restoring", "reading", "closing"} => RouteOf[r] = "text")
  BY <1>p DEF Placed
<1>1. CASE job[r] = "draining"
  <2>1. next = "cancelled" /\ ~spoke /\ ~restored
    BY <1>1 DEF EndedAs
  <2>2. pc' = Set(pc, r, "cancelled") /\ UNCHANGED <<spoken, responses>>
    BY <1>p, <1>1, <2>1
  <2> QED BY <1>0, <1>1, <2>2 DEF EndsDrained
<1>2. CASE job[r] = "running" /\ pc[r] = "restoring"
  <2>1. next = "reading" /\ ~spoke /\ restored
    BY <1>2 DEF EndedAs
  <2> QED BY <1>0, <1>p, <1>2, <2>1 DEF EndsRestored
<1>3. CASE job[r] = "running" /\ pc[r] = "blocking"
  <2>1. CASE worker[r] = "over"
    <3>1. next = "ended" /\ spoke
      BY <1>3, <2>1 DEF EndedAs
    <3>2. pc' = Set(pc, r, "ended") /\ spoken' = Set(spoken, r, [i \in 1..produced[r] |-> i])
      BY <1>p, <3>1
    <3> QED BY <1>0, <1>3, <2>1, <3>2 DEF EndsBlocking
  <2>2. CASE worker[r] # "over"
    <3>1. next = "raised" /\ ~spoke
      BY <1>3, <2>2 DEF EndedAs
    <3>2. pc' = Set(pc, r, "raised") /\ spoken' = spoken
      BY <1>p, <3>1
    <3> QED BY <1>0, <1>3, <2>2, <3>2 DEF EndsBlocking
  <2> QED BY <2>1, <2>2
<1>4. CASE job[r] = "running" /\ pc[r] = "reading"
  <2>1. next = pc[r] /\ ~spoke /\ ~restored
    BY <1>4 DEF EndedAs
  <2> QED BY <1>0, <1>p, <1>q, <1>4, <2>1 DEF EndsReading
<1>5. CASE job[r] = "running" /\ pc[r] = "closing"
  <2>1. next = (IF cancels[r] = 0 THEN "ended" ELSE "cancelled") /\ ~spoke
    BY <1>5 DEF EndedAs
  <2> QED BY <1>0, <1>p, <1>5, <2>1 DEF EndsClosing
<1> QED BY <1>p, <1>q, <1>1, <1>2, <1>3, <1>4, <1>5

\* How far the model is with a request, by where its thread and its consumer are.
Progress(q) ==
  /\ produced[q] <= Enough
  /\ pc[q] = "direct" => RouteOf[q] = "direct" /\ produced[q] < Enough
  /\ pc[q] = "blocking" => RouteOf[q] = "blocking"
  /\ pc[q] \in {"new", "restoring"} \/ job[q] = "queued"
       \/ worker[q] \in {"begin", "snapshot", "hash", "count", "spec"} => produced[q] = 0
  /\ worker[q] \in {"resumed", "decode"} => produced[q] < Enough
  /\ worker[q] = "over" /\ pc[q] \in {"blocking", "reading"} => produced[q] = Enough
  /\ worker[q] \in {"snapshot", "hash", "count"} => RouteOf[q] = "text"
  /\ pc[q] \in {"new", "reading"} => ~abortSet[q]
  /\ pc[q] = "restoring" => worker[q] \in {"none", "begin", "over"}
  /\ pc[q] = "restoring" /\ job[q] # "draining" => ~abortSet[q]

\* What is said and what is left to read of a consumer that reads: the tokens in their order,
\* the stop sequence not yet among them, and once its producer has ended how that was.
UnreadOf(said, left, made, task) ==
  /\ Len(said) <= made
  /\ Len(left) = made - Len(said) + (IF task = "none" THEN 1 ELSE 0)
  /\ \A i \in 1..(made - Len(said)) : left[i] = Len(said) + i
  /\ SimpleStop \in 1..Enough => Len(said) < SimpleStop
  /\ task = "none" => \/ left[Len(left)] = Raised
                      \/ left[Len(left)] = Done /\ made = Enough
  /\ \A i \in 1..Len(said) : said[i] = i
Unread(q) == UnreadOf(spoken[q], responses[q], produced[q], job[q])

\* One more token is produced.
LEMMA ProducedOne ==
  ASSUME NEW said \in Seq(Int), NEW left \in Seq(Int), NEW made \in Nat,
         NEW task, task # "none", UnreadOf(said, left, made, task)
  PROVE  UnreadOf(said, Append(left, made + 1), made + 1, task)
<1> DEFINE k == Len(said)
           n == Len(left)
           t == Append(left, made + 1)
<1>1. /\ n \in Nat /\ Len(t) = n + 1 /\ \A i \in 1..n : t[i] = left[i]
      /\ t[n + 1] = made + 1
  BY AppendPlaces
<1>2. k \in Nat
  OBVIOUS
<1>3. /\ k <= made /\ n = made - k /\ \A i \in 1..(made - k) : left[i] = k + i
      /\ SimpleStop \in 1..Enough => k < SimpleStop
      /\ \A i \in 1..k : said[i] = i
  BY DEF UnreadOf
<1> HIDE DEF k, n, t
<1>4. \A i \in 1..(made + 1 - k) : t[i] = k + i
  <2> TAKE i \in 1..(made + 1 - k)
  <2>1. CASE i \in 1..n
    BY <1>1, <1>2, <1>3, <2>1
  <2>2. CASE i = n + 1
    BY <1>1, <1>2, <1>3, <2>2
  <2> QED BY <1>1, <1>2, <1>3, <2>1, <2>2
<1>5. k <= made + 1 /\ Len(t) = made + 1 - k + 0
  BY <1>1, <1>2, <1>3
<1> QED BY <1>3, <1>4, <1>5 DEF UnreadOf, k, t

\* The producer ends.
LEMMA ProducedAll ==
  ASSUME NEW said \in Seq(Int), NEW left \in Seq(Int), NEW made \in Nat, NEW e \in {Done, Raised},
         NEW task, task # "none", UnreadOf(said, left, made, task), e = Done => made = Enough
  PROVE  UnreadOf(said, Append(left, e), made, "none")
<1> DEFINE k == Len(said)
           n == Len(left)
           t == Append(left, e)
<1>1. /\ n \in Nat /\ Len(t) = n + 1 /\ \A i \in 1..n : t[i] = left[i]
      /\ t[n + 1] = e
  BY AppendPlaces DEF Done, Raised
<1>2. k \in Nat
  OBVIOUS
<1>3. /\ k <= made /\ n = made - k /\ \A i \in 1..(made - k) : left[i] = k + i
      /\ SimpleStop \in 1..Enough => k < SimpleStop
      /\ \A i \in 1..k : said[i] = i
  BY DEF UnreadOf
<1> HIDE DEF k, n, t
<1>4. \A i \in 1..(made - k) : t[i] = k + i
  BY <1>1, <1>2, <1>3
<1>5. Len(t) = made - k + 1 /\ t[Len(t)] = e
  BY <1>1, <1>2, <1>3
<1> QED BY <1>3, <1>4, <1>5 DEF UnreadOf, k, t

\* What a consumer finds at the head of its queue: the next token, or the end of it all.
LEMMA ReadOne ==
  ASSUME NEW said \in Seq(Int), NEW left \in Seq(Int), NEW made \in Nat, NEW task,
         UnreadOf(said, left, made, task), left # <<>>, SimpleStop \in Nat
  PROVE  /\ Head(left) \notin {Done, Raised} =>
              /\ Len(said) < made /\ Len(Append(said, Head(left))) = Len(said) + 1
              /\ \A i \in 1..(Len(said) + 1) : Append(said, Head(left))[i] = i
              /\ Len(said) + 1 # SimpleStop =>
                   UnreadOf(Append(said, Head(left)), Tail(left), made, task)
         /\ Head(left) \in {Done, Raised} =>
              /\ Len(said) = made /\ task = "none" /\ (Head(left) = Done => made = Enough)
<1> DEFINE k == Len(said)
           n == Len(left)
           h == Head(left)
           u == Append(said, h)
           t == Tail(left)
<1>1. /\ n \in Nat /\ n >= 1 /\ h = left[1] /\ k \in Nat /\ h \in Int
      /\ Len(t) = n - 1 /\ \A i \in 1..(n - 1) : t[i] = left[i + 1]
  OBVIOUS
<1>2. Len(u) = k + 1 /\ u[k + 1] = h /\ \A i \in 1..k : u[i] = said[i]
  BY <1>1, AppendPlaces
<1>3. /\ k <= made /\ n = made - k + (IF task = "none" THEN 1 ELSE 0)
      /\ \A i \in 1..(made - k) : left[i] = k + i
      /\ SimpleStop \in 1..Enough => k < SimpleStop
      /\ task = "none" => left[n] = Raised \/ (left[n] = Done /\ made = Enough)
      /\ \A i \in 1..k : said[i] = i
  BY DEF UnreadOf
<1> HIDE DEF k, n, h, u, t
<1>4. CASE k < made
  <2>1. h = k + 1 /\ h \notin {Done, Raised}
    BY <1>1, <1>3, <1>4 DEF Done, Raised
  <2>2. \A i \in 1..(k + 1) : u[i] = i
    <3> TAKE i \in 1..(k + 1)
    <3>1. i \in 1..k \/ i = k + 1
      BY <1>1
    <3> QED BY <1>1, <1>2, <1>3, <2>1, <3>1
  <2>3. ASSUME k + 1 # SimpleStop PROVE UnreadOf(u, t, made, task)
    <3>1. k + 1 <= made /\ Len(t) = made - (k + 1) + (IF task = "none" THEN 1 ELSE 0)
      BY <1>1, <1>3, <1>4
    <3>2. \A i \in 1..(made - (k + 1)) : t[i] = k + 1 + i
      <4> TAKE i \in 1..(made - (k + 1))
      <4>1. i \in 1..(n - 1) /\ i + 1 \in 1..(made - k)
        BY <1>1, <1>3, <1>4
      <4> QED BY <1>1, <1>3, <4>1, SMTT(30)
    <3>3. SimpleStop \in 1..Enough => k + 1 < SimpleStop
      BY <1>1, <1>3, <2>3
    <3>4. task = "none" => Len(t) \in 1..(n - 1) /\ t[Len(t)] = left[n]
      BY <1>1, <1>3, <1>4
    <3> QED BY <1>2, <1>3, <2>2, <3>1, <3>2, <3>3, <3>4 DEF UnreadOf
  <2> QED BY <1>2, <1>4, <2>1, <2>2, <2>3 DEF k, u, h, t
<1>5. CASE k = made
  <2>1. task = "none" /\ n = 1
    BY <1>1, <1>3, <1>5
  <2>2. h \in {Done, Raised} /\ (h = Done => made = Enough)
    BY <1>1, <1>3, <2>1 DEF Done, Raised
  <2> QED BY <1>5, <2>1, <2>2 DEF k, h
<1>6. k < made \/ k = made
  BY <1>1, <1>3
<1> QED BY <1>4, <1>5, <1>6

\* The length of a whole answer.
Whole(q) ==
  IF RouteOf[q] = "text" /\ SimpleStop \in 1..Enough THEN SimpleStop ELSE Enough

Heard(q) ==
  /\ \A i \in 1..Len(spoken[q]) : spoken[q][i] = i
  /\ pc[q] \in {"new", "restoring", "blocking"} => spoken[q] = <<>>
  /\ pc[q] \in {"new", "restoring"} => responses[q] = <<>>
  /\ pc[q] = "direct" => Len(spoken[q]) = produced[q]
  /\ pc[q] = "ended" \/ (pc[q] = "closing" /\ cancels[q] = 0) => Len(spoken[q]) = Whole(q)
  /\ pc[q] = "reading" => Unread(q)

\* A step of one request leaves what belongs to another as it is.
LEMMA SimpleFrame ==
  ASSUME SimpleTyped, NEW r \in SimpleReqs, SimpleStep(r), NEW q \in SimpleReqs, q # r
  PROVE  /\ pc'[q] = pc[q] /\ job'[q] = job[q] /\ worker'[q] = worker[q]
         /\ abortSet'[q] = abortSet[q] /\ cancels'[q] = cancels[q]
         /\ produced'[q] = produced[q] /\ responses'[q] = responses[q]
         /\ spoken'[q] = spoken[q] /\ kvOf'[q] = kvOf[q] /\ sends'[q] = sends[q]
<1> USE DEF SimpleTyped, Set
<1>1. CASE SimpleArrives(r)
  BY <1>1 DEF SimpleArrives
<1>2. CASE WorkerStarts(r)
  BY <1>2 DEF WorkerStarts
<1>3. CASE WorkerBegins(r)
  BY <1>3 DEF WorkerBegins
<1>4. CASE WorkerKeeps(r)
  BY <1>4 DEF WorkerKeeps
<1>5. CASE SpecPrefills(r)
  BY <1>5 DEF SpecPrefills, Emitted
<1>6. CASE SpecRuns(r)
  BY <1>6 DEF SpecRuns
<1>7. CASE SpecFails(r)
  BY <1>7 DEF SpecFails, FallenBack
<1>8. CASE WorkerDecodes(r)
  BY <1>8 DEF WorkerDecodes, Emitted
<1>9. CASE WorkerRaises(r)
  BY <1>9 DEF WorkerRaises
<1>10. CASE JobEnds(r)
  BY <1>10 DEF JobEnds
<1>11. CASE ConsumerReads(r)
  BY <1>11 DEF ConsumerReads
<1>12. CASE DirectSteps(r)
  BY <1>12 DEF DirectSteps
<1>13. CASE SimpleCancelled(r)
  BY <1>13 DEF SimpleCancelled, JobCancelled
<1> QED BY <1>1, <1>2, <1>3, <1>4, <1>5, <1>6, <1>7, <1>8, <1>9, <1>10, <1>11, <1>12, <1>13
        DEF SimpleStep

\* Every step keeps the types.
LEMMA SimpleTypedStep ==
  ASSUME SimpleAssumption, SimpleTyped, NEW r \in SimpleReqs, SimpleStep(r), Placed(r)
  PROVE  SimpleTyped'
<1>0. lockQueue' \in Seq(SimpleReqs) /\ IsInjective(lockQueue')
  BY QueueStep DEF QueueMoves
<1>a. Enough \in Nat \ {0}
  BY DEF Enough, SimpleAssumption
<1> USE <1>0 DEF SimpleTyped, Set
<1>1. CASE SimpleArrives(r)
  BY <1>1 DEF SimpleArrives, FirstWait, SimpleAssumption
<1>2. CASE WorkerStarts(r)
  BY <1>2 DEF WorkerStarts
<1>3. CASE WorkerBegins(r)
  BY <1>3 DEF WorkerBegins
<1>4. CASE WorkerKeeps(r)
  <2>1. SystemOf[r] \in Nat
    BY DEF SimpleAssumption
  <2>2. systemKv' \in [snapshot : Nat, hash : Nat, count : Nat]
    BY <1>4, <2>1 DEF WorkerKeeps
  <2> QED BY <1>4, <2>1, <2>2 DEF WorkerKeeps, AfterSystem
<1>5. CASE SpecPrefills(r)
  BY <1>5, SMTT(30) DEF SpecPrefills, Emitted
<1>6. CASE SpecRuns(r)
  BY <1>6 DEF SpecRuns
<1>7. CASE SpecFails(r)
  BY <1>7 DEF SpecFails, FallenBack
<1>8. CASE WorkerDecodes(r)
  <2>1. produced[r] + 1 \in Nat /\ produced[r] + 1 \in Int
    OBVIOUS
  <2>2. Append(responses[r], produced[r] + 1) \in Seq(Int)
    BY <2>1
  <2>3. responses' \in [SimpleReqs -> Seq(Int)]
    BY <1>8, <2>2, ZenonT(30) DEF WorkerDecodes, Emitted
  <2>4. produced' \in [SimpleReqs -> Nat]
    BY <1>8, <2>1, ZenonT(30) DEF WorkerDecodes
  <2> QED BY <1>8, <2>3, <2>4, ZenonT(30) DEF WorkerDecodes
<1>9. CASE WorkerRaises(r)
  BY <1>9 DEF WorkerRaises
<1>10. CASE JobEnds(r)
  <2>1. [i \in 1..produced[r] |-> i] \in Seq(Int)
    OBVIOUS
  <2>2. spoken' \in [SimpleReqs -> Seq(Int)]
    BY <1>10, <2>1 DEF JobEnds
  <2>3. /\ Append(responses[r], Done) \in Seq(Int)
        /\ Append(responses[r], Raised) \in Seq(Int)
    BY DEF Done, Raised
  <2>4. responses' \in [SimpleReqs -> Seq(Int)]
    BY <1>10, <2>3 DEF JobEnds
  <2> QED BY <1>10, <2>2, <2>4 DEF JobEnds, EndedAs
<1>11. CASE ConsumerReads(r)
  <2>1. /\ Tail(responses[r]) \in Seq(Int)
        /\ Append(spoken[r], Head(responses[r])) \in Seq(Int)
    BY <1>11 DEF ConsumerReads
  <2>2. spoken' \in [SimpleReqs -> Seq(Int)] /\ responses' \in [SimpleReqs -> Seq(Int)]
    BY <1>11, <2>1 DEF ConsumerReads
  <2> QED BY <1>11, <2>2 DEF ConsumerReads
<1>12. CASE DirectSteps(r)
  <2>1. /\ produced[r] + 1 \in Nat
        /\ Append(spoken[r], produced[r] + 1) \in Seq(Int)
    OBVIOUS
  <2> QED BY <1>12, <2>1 DEF DirectSteps
<1>13. CASE SimpleCancelled(r)
  <2>1. cancels' \in [SimpleReqs -> Nat]
    BY <1>13, SMTT(30) DEF SimpleCancelled
  <2>2. /\ job' \in [SimpleReqs -> {"none", "queued", "running", "draining"}]
        /\ abortSet' \in [SimpleReqs -> BOOLEAN]
        /\ pc' \in [SimpleReqs -> {"new", "direct", "blocking", "restoring", "reading",
                                   "closing", "ended", "raised", "cancelled"}]
    <3>1. CASE CancelledDirect(r)
      BY <3>1 DEF CancelledDirect
    <3>2. CASE CancelledRunning(r)
      BY <3>2 DEF CancelledRunning
    <3>3. CASE CancelledQueued(r)
      BY <3>3 DEF CancelledQueued
    <3>4. CASE CancelledReading(r)
      BY <3>4 DEF CancelledReading
    <3> QED BY <1>13, <3>1, <3>2, <3>3, <3>4, CancelledWhere
  <2> QED BY <1>13, <2>1, <2>2 DEF SimpleCancelled
<1> QED BY <1>1, <1>2, <1>3, <1>4, <1>5, <1>6, <1>7, <1>8, <1>9, <1>10, <1>11, <1>12, <1>13
        DEF SimpleStep

\* Every step keeps a request's place in the lock's queue and what it says of its thread.
LEMMA PlacedStep ==
  ASSUME SimpleAssumption, SimpleCancels <= 1, SimpleTyped, NEW r \in SimpleReqs,
         SimpleStep(r), Heard(r), \A q \in SimpleReqs : Placed(q) /\ cancels[q] <= 1
  PROVE  \A q \in SimpleReqs : Placed(q)' /\ cancels'[q] <= 1
<1>0. /\ Placed(r) /\ cancels[r] <= 1 /\ QueueMoves(r) /\ SimpleTyped'
  BY QueueStep, SimpleTypedStep
<1>a. ASSUME NEW q \in SimpleReqs, q # r
      PROVE  Placed(q)' /\ cancels'[q] <= 1
  <2>1. /\ pc'[q] = pc[q] /\ job'[q] = job[q] /\ worker'[q] = worker[q]
        /\ cancels'[q] = cancels[q]
    BY <1>a, SimpleFrame
  <2>2. /\ q \in ToSet(lockQueue') <=> q \in ToSet(lockQueue)
        /\ Holds(q) => Holds(q)'
    BY <1>0, <1>a DEF QueueMoves
  <2> QED BY <2>1, <2>2 DEF Placed
<1>b. Placed(r)' /\ cancels'[r] <= 1
  <2> USE <1>0 DEF SimpleTyped, Set
  <2>0. /\ Holds(r) => lockQueue # <<>> /\ Head(lockQueue) = r
        /\ UNCHANGED lockQueue => (Holds(r)' <=> Holds(r))
    BY DEF Holds
  <2>1. CASE SimpleArrives(r)
    <3>1. r \in ToSet(lockQueue')
      BY <2>1, JoiningTheQueue DEF SimpleArrives, Placed
    <3> QED BY <2>1, <3>1 DEF SimpleArrives, FirstWait, SimpleAssumption, Placed
  <2>2. CASE WorkerStarts(r)
    BY <2>0, <2>2 DEF WorkerStarts, Placed
  <2>k. ASSUME UNCHANGED <<lockQueue, pc, job, cancels>>, worker[r] # "none",
               worker'[r] # "none"
        PROVE  Placed(r)' /\ cancels'[r] <= 1
    BY <2>0, <2>k DEF Placed
  <2>3. CASE WorkerBegins(r)
    BY <2>k, <2>3 DEF WorkerBegins
  <2>4. CASE WorkerKeeps(r)
    <3>1. worker'[r] # "none" /\ worker[r] # "none"
      BY <2>4, SMTT(30) DEF WorkerKeeps, AfterSystem
    <3> QED BY <2>k, <2>4, <3>1 DEF WorkerKeeps
  <2>5. CASE SpecPrefills(r)
    BY <2>k, <2>5 DEF SpecPrefills
  <2>6. CASE SpecRuns(r)
    <3>1. worker'[r] # "none" /\ worker[r] # "none"
      BY <2>6 DEF SpecRuns
    <3> QED BY <2>k, <2>6, <3>1 DEF SpecRuns
  <2>7. CASE SpecFails(r)
    BY <2>k, <2>7 DEF SpecFails
  <2>8. CASE WorkerDecodes(r)
    <3>1. worker'[r] # "none" /\ worker[r] # "none"
      <4>1. CASE abortSet[r]
        BY <2>8, <4>1 DEF WorkerDecodes
      <4>2. CASE ~abortSet[r]
        BY <2>8, <4>2 DEF WorkerDecodes
      <4> QED BY <4>1, <4>2
    <3> QED BY <2>k, <2>8, <3>1 DEF WorkerDecodes
  <2>9. CASE WorkerRaises(r)
    BY <2>k, <2>9 DEF WorkerRaises
  <2>10. CASE JobEnds(r)
    <3>0. /\ job[r] \in {"running", "draining"} /\ worker'[r] = "none" /\ UNCHANGED cancels
          /\ lockQueue \in Seq(SimpleReqs) /\ IsInjective(lockQueue)
      BY <2>10 DEF JobEnds
    <3>1. CASE pc[r] = "restoring" /\ job[r] = "running"
      <4>1. r \in ToSet(lockQueue')
        <5> DEFINE w == Without(r)
        <5>1. w \in Seq(SimpleReqs) /\ IsInjective(w) /\ r \notin ToSet(w)
          BY <3>0, WithoutOne
        <5>2. lockQueue' = Append(w, r)
          BY <2>10, <3>1 DEF JobEnds, EndedAs
        <5> HIDE DEF w
        <5> QED BY <5>1, <5>2, JoiningTheQueue
      <4>2. job'[r] = "queued" /\ pc'[r] = "reading"
        BY <2>10, <3>1 DEF JobEnds, EndedAs
      <4> QED BY <3>0, <3>1, <4>1, <4>2 DEF Placed
    <3>2. CASE ~(pc[r] = "restoring" /\ job[r] = "running")
      <4>1. r \notin ToSet(lockQueue')
        BY <2>10, <3>0, <3>2, WithoutOne DEF JobEnds
      <4>2. job'[r] = "none"
        BY <2>10, <3>2 DEF JobEnds
      <4>3. \/ pc'[r] \in {"cancelled", "ended", "raised"}
            \/ pc'[r] = pc[r] /\ pc[r] = "reading"
        BY <2>10, <3>2 DEF JobEnds, EndedAs, Placed
      <4> QED BY <3>0, <4>1, <4>2, <4>3 DEF Placed
    <3> QED BY <3>1, <3>2
  <2>11. CASE ConsumerReads(r)
    <3>1. /\ UNCHANGED <<lockQueue, job, worker, cancels>> /\ pc[r] = "reading"
          /\ \/ pc'[r] = "reading"
             \/ pc'[r] = "raised" /\ job[r] = "none"
             \/ pc'[r] = "closing" /\ job[r] # "none"
             \/ pc'[r] = "ended" /\ job[r] = "none"
      <4>1. /\ UNCHANGED <<lockQueue, job, worker, cancels>> /\ pc[r] = "reading"
            /\ responses[r] # <<>>
            /\ ReadsOn(r) \/ ReadsLast(r) \/ ReadsEnd(r)
        BY <2>11, ReadsWhat
      <4>2. CASE ReadsOn(r)
        BY <4>1, <4>2 DEF ReadsOn
      <4>3. CASE ReadsLast(r)
        BY <4>1, <4>3 DEF ReadsLast
      <4>4. CASE ReadsEnd(r)
        <5>1. UnreadOf(spoken[r], responses[r], produced[r], job[r]) /\ SimpleStop \in Nat
          BY <4>1 DEF Heard, Unread, SimpleAssumption
        <5>t. /\ spoken[r] \in Seq(Int) /\ responses[r] \in Seq(Int) /\ produced[r] \in Nat
              /\ Head(responses[r]) \in {Done, Raised}
          BY <4>4 DEF ReadsEnd
        <5>2. job[r] = "none"
          <6> HIDE DEF SimpleTyped, Set
          <6> QED BY <4>1, <5>1, <5>t, ReadOne
        <5> QED BY <4>1, <4>4, <5>2 DEF ReadsEnd
      <4> QED BY <4>1, <4>2, <4>3, <4>4
    <3> QED BY <2>0, <3>1 DEF Placed
  <2>12. CASE DirectSteps(r)
    <3>1. /\ UNCHANGED <<job, worker, cancels>> /\ pc[r] = "direct"
          /\ lockQueue # <<>> /\ Head(lockQueue) = r
          /\ \/ pc'[r] = "ended" /\ lockQueue' = Tail(lockQueue)
             \/ UNCHANGED <<pc, lockQueue>>
      BY <2>0, <2>12 DEF DirectSteps
    <3>2. lockQueue' = Tail(lockQueue) => r \notin ToSet(lockQueue')
      BY <3>1, TailOfQueue
    <3>3. job[r] = "none"
      BY <3>1 DEF Placed
    <3> QED BY <2>0, <3>1, <3>2, <3>3 DEF Placed
  <2>13. CASE SimpleCancelled(r)
    <3>0. /\ cancels[r] = 0 /\ cancels'[r] = 1 /\ UNCHANGED worker
      BY <2>13, SimpleAssumption, SMTT(30) DEF SimpleCancelled, SimpleAssumption
    <3>1. Without(r) = lockQueue' => r \notin ToSet(lockQueue')
      BY WithoutOne
    <3>2. CASE CancelledDirect(r)
      <4>1. lockQueue' = Without(r) /\ pc'[r] = "cancelled" /\ pc[r] = "direct" /\ UNCHANGED job
        BY <3>2 DEF CancelledDirect
      <4> QED BY <3>0, <3>1, <4>1 DEF Placed
    <3>3. CASE CancelledRunning(r)
      <4>1. /\ job[r] = "running" /\ job'[r] = "draining" /\ UNCHANGED <<lockQueue, pc>>
            /\ pc[r] \in {"blocking", "restoring", "closing"}
        BY <3>3 DEF CancelledRunning
      <4>2. ToSet(lockQueue') = ToSet(lockQueue) /\ pc'[r] = pc[r] /\ worker'[r] = worker[r]
        BY <3>0, <4>1
      <4>3. /\ worker[r] # "none" /\ Holds(r) /\ Holds(r)' /\ r \in ToSet(lockQueue)
            /\ pc[r] \in {"restoring", "reading", "closing"} => RouteOf[r] = "text"
        BY <2>0, <4>1 DEF Placed
      <4>4. pc[r] # "reading" /\ job'[r] # "none" /\ pc[r] # "direct"
        BY <4>1
      <4> HIDE DEF SimpleTyped
      <4> QED BY <3>0, <4>1, <4>2, <4>3, <4>4 DEF Placed
    <3>4. CASE CancelledQueued(r)
      <4>1. /\ job[r] # "running" /\ job'[r] = "none" /\ lockQueue' = Without(r)
            /\ pc'[r] = "cancelled" /\ pc[r] \in {"blocking", "restoring", "closing"}
        BY <3>4 DEF CancelledQueued
      <4> QED BY <3>0, <3>1, <4>1 DEF Placed
    <3>5. CASE CancelledReading(r)
      <4>1. /\ UNCHANGED <<job, lockQueue>> /\ pc[r] = "reading"
            /\ pc'[r] = IF job[r] = "none" THEN "cancelled" ELSE "closing"
        BY <3>5 DEF CancelledReading
      <4>2. ToSet(lockQueue') = ToSet(lockQueue) /\ job'[r] = job[r]
        BY <4>1
      <4> QED BY <2>0, <3>0, <4>1, <4>2 DEF Placed
    <3> QED BY <2>13, <3>2, <3>3, <3>4, <3>5, CancelledWhere
  <2> QED BY <2>1, <2>2, <2>3, <2>4, <2>5, <2>6, <2>7, <2>8, <2>9, <2>10, <2>11, <2>12, <2>13
          DEF SimpleStep
<1> QED BY <1>a, <1>b

\* Every step keeps what the worker's place says of what it has produced.
LEMMA ProgressStep ==
  ASSUME SimpleAssumption, SimpleTyped, NEW r \in SimpleReqs, SimpleStep(r), Placed(r),
         SimpleTyped', \A q \in SimpleReqs : Progress(q)
  PROVE  \A q \in SimpleReqs : Progress(q)'
<1>0. Enough \in Nat \ {0}
  BY DEF Enough, SimpleAssumption
<1>a. ASSUME NEW q \in SimpleReqs, q # r
      PROVE  Progress(q)'
  <2>1. /\ pc'[q] = pc[q] /\ job'[q] = job[q] /\ worker'[q] = worker[q]
        /\ produced'[q] = produced[q] /\ abortSet'[q] = abortSet[q]
    BY <1>a, SimpleFrame
  <2> QED BY <2>1 DEF Progress
<1>b. Progress(r)'
  <2>0. Progress(r) /\ produced[r] \in Nat
    BY DEF SimpleTyped
  <2> USE <1>0, <2>0 DEF Set
  <2>1. CASE SimpleArrives(r)
    <3>1. /\ pc'[r] = FirstWait(r) /\ pc[r] = "new" /\ UNCHANGED <<worker, produced, abortSet>>
          /\ worker[r] = "none"
      BY <2>1 DEF SimpleArrives, SimpleTyped, Placed
    <3> QED BY <3>1 DEF FirstWait, Progress, SimpleAssumption
  <2>2. CASE WorkerStarts(r)
    <3>1. /\ job[r] = "queued" /\ job'[r] = "running" /\ worker'[r] = "begin"
          /\ UNCHANGED <<pc, produced, abortSet>>
      BY <2>2 DEF WorkerStarts, SimpleTyped
    <3> QED BY <3>1 DEF Progress
  <2>3. CASE WorkerBegins(r)
    <3>1. /\ worker[r] = "begin" /\ UNCHANGED <<pc, job, produced, abortSet>>
          /\ worker'[r] = IF pc[r] = "restoring" THEN "over"
               ELSE IF RouteOf[r] = "text" /\ SystemOf[r] > 0 /\ kvOf[r] = 0 THEN "snapshot"
               ELSE IF r \in SpecOn THEN "spec" ELSE "decode"
      BY <2>3 DEF WorkerBegins, SimpleTyped
    <3> QED BY <3>1 DEF Progress
  <2>4. CASE WorkerKeeps(r)
    <3>1. /\ worker[r] \in {"snapshot", "hash", "count"}
          /\ UNCHANGED <<pc, job, produced, abortSet>>
          /\ worker'[r] \in {"hash", "count", "spec", "decode"}
      BY <2>4 DEF WorkerKeeps, SimpleTyped, AfterSystem
    <3> QED BY <3>1 DEF Progress
  <2>5. CASE SpecPrefills(r)
    <3>1. /\ worker[r] = "spec" /\ UNCHANGED <<pc, job, abortSet>> /\ produced'[r] = 1
          /\ worker'[r] = IF abortSet[r] \/ Enough <= 1 THEN "over" ELSE "resumed"
          /\ RouteOf[r] = "text"
      BY <2>5 DEF SpecPrefills, SimpleTyped
    <3>2. pc[r] # "direct" /\ pc[r] # "new" /\ job[r] # "queued"
      BY <3>1 DEF Placed, SimpleTyped
    <3> QED BY <3>1, <3>2 DEF Progress
  <2>6. CASE SpecRuns(r)
    <3>1. /\ worker[r] = "spec" /\ UNCHANGED <<pc, job, abortSet>> /\ RouteOf[r] # "text"
          /\ \/ abortSet[r] /\ produced'[r] = produced[r] /\ worker'[r] = "raised"
             \/ Enough <= 1 /\ produced'[r] = 1 /\ worker'[r] = "over"
             \/ Enough > 1 /\ produced'[r] = 1 /\ worker'[r] = "resumed"
      BY <2>6 DEF SpecRuns, SimpleTyped
    <3>2. pc[r] # "direct" /\ pc[r] # "new" /\ job[r] # "queued"
      BY <3>1 DEF Placed, SimpleTyped
    <3> QED BY <3>1, <3>2 DEF Progress
  <2>7. CASE SpecFails(r)
    <3>1. /\ worker[r] \in {"spec", "resumed"} /\ UNCHANGED <<pc, job, abortSet>>
          /\ worker'[r] = "decode" /\ produced'[r] = 0
      BY <2>7 DEF SpecFails, SimpleTyped
    <3>2. pc[r] # "restoring"
      BY <3>1 DEF Progress
    <3> QED BY <3>1, <3>2 DEF Progress
  <2>8. CASE WorkerDecodes(r)
    <3>1. /\ worker[r] \in {"decode", "resumed"} /\ UNCHANGED <<pc, job, abortSet>>
          /\ \/ abortSet[r] /\ worker'[r] \in {"over", "raised"} /\ produced'[r] = produced[r]
                /\ (RouteOf[r] # "text" => worker'[r] = "raised")
             \/ ~abortSet[r] /\ produced'[r] = produced[r] + 1
                /\ worker'[r] = IF produced[r] + 1 >= Enough THEN "over" ELSE worker[r]
      <4>1. CASE abortSet[r]
        BY <2>8, <4>1 DEF WorkerDecodes, SimpleTyped
      <4>2. CASE ~abortSet[r]
        BY <2>8, <4>2 DEF WorkerDecodes, SimpleTyped
      <4> QED BY <4>1, <4>2
    <3>2. pc[r] # "direct" /\ pc[r] # "new" /\ job[r] # "queued" /\ pc[r] # "restoring"
      BY <3>1 DEF Placed, Progress, SimpleTyped
    <3>3. abortSet[r] => pc[r] # "reading" /\ (pc[r] = "blocking" => RouteOf[r] # "text")
      BY DEF Progress
    <3> QED BY <3>1, <3>2, <3>3 DEF Progress
  <2>9. CASE WorkerRaises(r)
    <3>1. /\ worker[r] = "decode" /\ UNCHANGED <<pc, job, abortSet, produced>>
          /\ worker'[r] = "raised"
      BY <2>9 DEF WorkerRaises, SimpleTyped
    <3> QED BY <3>1 DEF Progress
  <2>10. CASE JobEnds(r)
    <3>1. /\ UNCHANGED <<abortSet, produced>> /\ worker'[r] = "none"
          /\ \/ pc[r] = "restoring" /\ pc'[r] = "reading" /\ job[r] = "running"
             \/ pc'[r] \in {"cancelled", "ended", "raised"} /\ job'[r] = "none"
             \/ pc'[r] = pc[r] /\ pc[r] = "reading" /\ job'[r] = "none"
      BY <2>10, SMTT(30) DEF JobEnds, EndedAs, SimpleTyped, Placed
    <3> QED BY <3>1 DEF Progress
  <2>11. CASE ConsumerReads(r)
    <3>1. /\ UNCHANGED <<job, worker, produced>> /\ pc[r] = "reading"
          /\ \/ pc'[r] = "reading" /\ abortSet'[r] = abortSet[r]
             \/ pc'[r] \in {"raised", "closing", "ended"}
      <4>1. /\ UNCHANGED <<job, worker, produced>> /\ pc[r] = "reading"
            /\ ReadsOn(r) \/ ReadsLast(r) \/ ReadsEnd(r)
        BY <2>11, ReadsWhat
      <4>2. CASE ReadsOn(r)
        BY <4>1, <4>2 DEF ReadsOn
      <4>3. CASE ReadsLast(r)
        BY <4>1, <4>3 DEF ReadsLast, SimpleTyped
      <4>4. CASE ReadsEnd(r)
        BY <4>1, <4>4 DEF ReadsEnd, SimpleTyped
      <4> QED BY <4>1, <4>2, <4>3, <4>4
    <3> QED BY <3>1 DEF Progress
  <2>12. CASE DirectSteps(r)
    <3>1. /\ UNCHANGED <<job, worker, abortSet>> /\ pc[r] = "direct"
          /\ produced'[r] = produced[r] + 1
          /\ pc'[r] = IF produced[r] + 1 >= Enough THEN "ended" ELSE "direct"
          /\ job[r] = "none" /\ worker[r] = "none"
      <4>1. CASE produced[r] + 1 >= Enough
        BY <2>12, <4>1, SMTT(30) DEF DirectSteps, SimpleTyped, Placed
      <4>2. CASE ~(produced[r] + 1 >= Enough)
        BY <2>12, <4>2 DEF DirectSteps, SimpleTyped, Placed
      <4> QED BY <4>1, <4>2
    <3> QED BY <3>1 DEF Progress
  <2>13. CASE SimpleCancelled(r)
    <3>1. UNCHANGED <<worker, produced>>
      BY <2>13 DEF SimpleCancelled
    <3>2. CASE CancelledDirect(r) \/ CancelledQueued(r)
      <4>1. pc'[r] = "cancelled" /\ (job'[r] = "none" \/ job'[r] = job[r])
        BY <3>2 DEF CancelledDirect, CancelledQueued, SimpleTyped
      <4> QED BY <3>1, <4>1 DEF Progress
    <3>3. CASE CancelledRunning(r)
      <4>1. /\ pc'[r] = pc[r] /\ job'[r] = "draining"
            /\ pc[r] \in {"blocking", "restoring", "closing"}
        BY <3>3 DEF CancelledRunning, SimpleTyped
      <4> QED BY <3>1, <4>1 DEF Progress
    <3>4. CASE CancelledReading(r)
      <4>1. pc'[r] \in {"cancelled", "closing"} /\ job'[r] = job[r]
        BY <3>4 DEF CancelledReading, SimpleTyped
      <4> QED BY <3>1, <4>1 DEF Progress
    <3> QED BY <2>13, <3>2, <3>3, <3>4, CancelledWhere
  <2> QED BY <2>1, <2>2, <2>3, <2>4, <2>5, <2>6, <2>7, <2>8, <2>9, <2>10, <2>11, <2>12, <2>13
          DEF SimpleStep
<1> QED BY <1>a, <1>b

\* Every step keeps what was produced whole: heard, or still in the consumer's queue.
LEMMA HeardStep ==
  ASSUME SimpleAssumption, "resumed" \notin SimpleFaults,
         SimpleTyped, SimpleTyped', NEW r \in SimpleReqs, SimpleStep(r), Placed(r), Progress(r),
         \A q \in SimpleReqs : Heard(q)
  PROVE  \A q \in SimpleReqs : Heard(q)'
<1>0. /\ Enough \in Nat \ {0} /\ Enough <= SimpleMax /\ SimpleMax \in Nat /\ SimpleStop \in Nat
  BY DEF Enough, SimpleAssumption
<1>a. ASSUME NEW q \in SimpleReqs, q # r
      PROVE  Heard(q)'
  <2>1. /\ pc'[q] = pc[q] /\ job'[q] = job[q] /\ cancels'[q] = cancels[q]
        /\ produced'[q] = produced[q] /\ responses'[q] = responses[q]
        /\ spoken'[q] = spoken[q]
    BY <1>a, SimpleFrame
  <2> QED BY <2>1 DEF Heard, Unread, Whole
<1>b. Heard(r)'
  <2>t. /\ produced[r] \in Nat /\ responses[r] \in Seq(Int) /\ spoken[r] \in Seq(Int)
        /\ cancels[r] \in Nat
    BY DEF SimpleTyped
  <2>0. /\ Heard(r) /\ produced[r] \in Nat /\ responses[r] \in Seq(Int) /\ spoken[r] \in Seq(Int)
        /\ cancels[r] \in Nat /\ Len(spoken[r]) \in Nat /\ Len(responses[r]) \in Nat
    BY <2>t
  <2> USE <1>0, <2>0
  <2>k. ASSUME UNCHANGED <<pc, cancels, produced, responses, spoken>>,
               job'[r] = "none" <=> job[r] = "none"
        PROVE  Heard(r)'
    BY <2>k DEF Heard, Unread, UnreadOf, Whole
  <2>1. CASE SimpleArrives(r)
    <3>1. /\ pc'[r] = FirstWait(r) /\ pc[r] = "new"
          /\ UNCHANGED <<produced, responses, spoken, cancels>>
          /\ RouteOf[r] # "direct" => job'[r] = "queued"
      BY <2>1 DEF SimpleArrives, SimpleTyped, Set
    <3>2. produced[r] = 0 /\ responses[r] = <<>> /\ spoken[r] = <<>>
      BY <3>1 DEF Progress, Heard
    <3>3. pc'[r] = "reading" => job'[r] = "queued"
      BY <3>1 DEF FirstWait, SimpleAssumption
    <3>4. pc'[r] \in {"direct", "blocking", "restoring", "reading"}
      BY <3>1 DEF FirstWait, SimpleAssumption
    <3>5. UnreadOf(<<>>, <<>>, 0, "queued")
      <4>1. Len(spoken[r]) = 0 /\ Len(responses[r]) = 0
        BY <3>2
      <4>2. UnreadOf(spoken[r], responses[r], 0, "queued")
        BY <4>1 DEF UnreadOf
      <4> QED BY <3>2, <4>2
    <3>6. pc'[r] = "reading" => Unread(r)'
      BY <3>1, <3>2, <3>3, <3>5 DEF Unread
    <3> QED BY <3>1, <3>2, <3>4, <3>6 DEF Heard
  <2>2. CASE WorkerStarts(r)
    BY <2>2, <2>k DEF WorkerStarts, SimpleTyped, Set
  <2>3. CASE WorkerBegins(r)
    BY <2>3, <2>k DEF WorkerBegins
  <2>4. CASE WorkerKeeps(r)
    BY <2>4, <2>k DEF WorkerKeeps
  <2>5. CASE SpecPrefills(r)
    <3>1. /\ UNCHANGED <<pc, job, cancels, spoken>> /\ produced'[r] = 1
          /\ worker[r] = "spec" /\ produced[r] = 0
          /\ ~abortSet[r] => responses'[r] = Append(responses[r], 1)
      BY <2>5 DEF SpecPrefills, SimpleTyped, Set, Emitted, Progress
    <3>2. pc[r] \notin {"new", "restoring", "direct"} /\ job[r] # "none"
      BY <3>1 DEF Placed, Progress, SimpleTyped
    <3>3. ASSUME pc[r] = "reading" PROVE Unread(r)'
      <4>1. ~abortSet[r] /\ UnreadOf(spoken[r], responses[r], produced[r], job[r])
        BY <3>1, <3>2, <3>3 DEF Heard, Unread, Progress
      <4>2. UnreadOf(spoken[r], Append(responses[r], produced[r] + 1), produced[r] + 1, job[r])
        BY <3>2, <4>1, ProducedOne
      <4>3. produced'[r] = produced[r] + 1 /\ responses'[r] = Append(responses[r], produced[r] + 1)
        BY <3>1, <4>1
      <4> QED BY <3>1, <4>2, <4>3 DEF Unread
    <3> QED BY <3>1, <3>2, <3>3 DEF Heard, Whole
  <2>6. CASE SpecRuns(r)
    <3>1. /\ UNCHANGED <<pc, job, cancels, spoken, responses>>
          /\ worker[r] = "spec" /\ RouteOf[r] # "text"
      BY <2>6 DEF SpecRuns
    <3>2. pc[r] = "blocking"
      BY <3>1 DEF Placed, Progress, SimpleTyped
    <3> QED BY <3>1, <3>2 DEF Heard
  <2>7. CASE SpecFails(r)
    <3>1. /\ UNCHANGED <<pc, job, cancels, spoken, responses>>
          /\ worker[r] = "spec" /\ produced'[r] = produced[r]
      BY <2>7 DEF SpecFails, SimpleTyped, Set, Progress
    <3> QED BY <3>1 DEF Heard, Unread, Whole
  <2>8. CASE WorkerDecodes(r)
    <3>1. /\ UNCHANGED <<pc, job, cancels, spoken>>
          /\ worker[r] \in {"decode", "resumed"}
      BY <2>8 DEF WorkerDecodes
    <3>2. pc[r] \notin {"new", "restoring", "direct"} /\ job[r] # "none"
      BY <3>1 DEF Placed, Progress, SimpleTyped
    <3>3. ASSUME pc[r] = "reading" PROVE Unread(r)'
      <4>1. ~abortSet[r] /\ RouteOf[r] = "text"
        BY <3>3 DEF Progress, Placed
      <4>2. /\ produced'[r] = produced[r] + 1
            /\ responses'[r] = Append(responses[r], produced[r] + 1)
        BY <2>8, <4>1 DEF WorkerDecodes, SimpleTyped, Set, Emitted
      <4>3. UnreadOf(spoken[r], responses[r], produced[r], job[r])
        BY <3>2, <3>3 DEF Heard, Unread
      <4> QED BY <3>1, <3>2, <4>2, <4>3, ProducedOne DEF Unread
    <3> QED BY <3>1, <3>2, <3>3 DEF Heard, Whole
  <2>9. CASE WorkerRaises(r)
    BY <2>9, <2>k DEF WorkerRaises
  <2>10. CASE JobEnds(r)
    <3>0. UNCHANGED <<cancels, produced>>
      BY <2>10 DEF JobEnds
    <3>1. CASE EndsRestored(r)
      <4>1. /\ pc'[r] = "reading" /\ job'[r] = "queued" /\ UNCHANGED <<spoken, responses>>
            /\ produced[r] = 0 /\ spoken[r] = <<>> /\ responses[r] = <<>>
        BY <3>1 DEF EndsRestored, SimpleTyped, Set, Progress, Heard
      <4>2. /\ Len(spoken[r]) = 0 /\ Len(responses[r]) = 0 /\ job'[r] = "queued"
            /\ UNCHANGED produced
        BY <3>0, <4>1
      <4>3. UnreadOf(spoken[r], responses[r], 0, "queued")
        BY <4>2 DEF UnreadOf
      <4> QED BY <3>0, <4>1, <4>2, <4>3 DEF Heard, Unread
    <3>2. CASE EndsDrained(r)
      <4>1. pc'[r] = "cancelled" /\ UNCHANGED spoken
        BY <3>2 DEF EndsDrained, SimpleTyped, Set
      <4> QED BY <4>1 DEF Heard
    <3>3. CASE EndsBlocking(r)
      <4>1. CASE worker[r] = "over" /\ spoken' = Set(spoken, r, [i \in 1..produced[r] |-> i])
                   /\ pc' = Set(pc, r, "ended")
        <5>1. pc'[r] = "ended" /\ spoken'[r] = [i \in 1..produced[r] |-> i]
          BY <4>1 DEF SimpleTyped, Set
        <5>2. RouteOf[r] = "blocking" /\ produced[r] = Enough
          BY <3>3, <4>1 DEF EndsBlocking, Progress
        <5>3. Len(spoken'[r]) = Enough /\ \A i \in 1..Enough : spoken'[r][i] = i
          BY <5>1, <5>2
        <5> QED BY <5>1, <5>2, <5>3 DEF Heard, Whole
      <4>2. CASE pc' = Set(pc, r, "raised") /\ UNCHANGED spoken
        <5>1. pc'[r] = "raised"
          BY <4>2 DEF SimpleTyped, Set
        <5> QED BY <4>2, <5>1 DEF Heard
      <4> QED BY <3>3, <4>1, <4>2 DEF EndsBlocking
    <3>4. CASE EndsReading(r)
      <4>1. /\ pc'[r] = "reading" /\ job'[r] = "none" /\ UNCHANGED spoken /\ pc[r] = "reading"
            /\ job[r] = "running"
            /\ responses'[r] = Append(responses[r], IF worker[r] = "over" THEN Done ELSE Raised)
        BY <3>4 DEF EndsReading, SimpleTyped, Set
      <4>2. worker[r] = "over" => produced[r] = Enough
        BY <4>1 DEF Progress
      <4>3. UnreadOf(spoken[r], responses[r], produced[r], job[r])
        BY <4>1 DEF Heard, Unread
      <4>4. UnreadOf(spoken[r], responses'[r], produced[r], "none")
        <5> DEFINE e == IF worker[r] = "over" THEN Done ELSE Raised
        <5>1. e \in {Done, Raised} /\ (e = Done => produced[r] = Enough) /\ job[r] # "none"
          BY <4>1, <4>2 DEF Done, Raised
        <5>2. UnreadOf(spoken[r], Append(responses[r], e), produced[r], "none")
          <6> HIDE DEF e
          <6> QED BY <4>3, <5>1, ProducedAll
        <5> QED BY <4>1, <5>2
      <4>5. Unread(r)'
        BY <3>0, <4>1, <4>4 DEF Unread
      <4> QED BY <4>1, <4>5 DEF Heard
    <3>5. CASE EndsClosing(r)
      <4>1. /\ pc'[r] = IF cancels[r] = 0 THEN "ended" ELSE "cancelled"
            /\ pc[r] = "closing" /\ UNCHANGED spoken
        BY <3>5 DEF EndsClosing, SimpleTyped, Set
      <4> QED BY <4>1 DEF Heard, Whole
    <3> QED BY <2>10, <3>1, <3>2, <3>3, <3>4, <3>5, EndsHow
  <2>11. CASE ConsumerReads(r)
    <3> DEFINE h == Head(responses[r])
               k == Len(spoken[r])
    <3>1. /\ pc[r] = "reading" /\ responses[r] # <<>> /\ UNCHANGED <<job, cancels, produced>>
          /\ responses' = Set(responses, r, Tail(responses[r]))
          /\ ReadsOn(r) \/ ReadsLast(r) \/ ReadsEnd(r)
      BY <2>11, ReadsWhat
    <3>2. /\ responses'[r] = Tail(responses[r])
          /\ UnreadOf(spoken[r], responses[r], produced[r], job[r])
      BY <3>1 DEF SimpleTyped, Set, Heard, Unread
    <3>3. /\ h \notin {Done, Raised} =>
               /\ k < produced[r] /\ Len(SaidNow(r)) = k + 1
               /\ \A i \in 1..(k + 1) : SaidNow(r)[i] = i
               /\ k + 1 # SimpleStop => UnreadOf(SaidNow(r), Tail(responses[r]), produced[r], job[r])
          /\ h \in {Done, Raised} => k = produced[r] /\ job[r] = "none" /\ (h = Done => produced[r] = Enough)
      BY <3>1, <3>2, ReadOne DEF SaidNow
    <3>4. /\ RouteOf[r] = "text" /\ produced[r] <= Enough
          /\ SimpleStop \in 1..Enough => k < SimpleStop
          /\ \A i \in 1..k : spoken[r][i] = i
      BY <3>1, <3>2 DEF Placed, Progress, UnreadOf
    <3> HIDE DEF h, k
    <3>5. CASE ReadsOn(r)
      <4>1. /\ pc'[r] = "reading" /\ spoken'[r] = SaidNow(r) /\ h \notin {Done, Raised}
            /\ Len(SaidNow(r)) # SimpleStop
        BY <3>1, <3>5 DEF ReadsOn, SimpleTyped, Set, h
      <4>2. UnreadOf(SaidNow(r), Tail(responses[r]), produced[r], job[r])
        BY <3>3, <4>1
      <4>3. Unread(r)'
        BY <3>1, <3>2, <4>1, <4>2 DEF Unread
      <4>4. \A i \in 1..Len(spoken'[r]) : spoken'[r][i] = i
        BY <3>3, <4>1
      <4> QED BY <4>1, <4>3, <4>4 DEF Heard
    <3>6. CASE ReadsLast(r)
      <4>1. /\ pc'[r] \in {"closing", "ended"} /\ spoken'[r] = SaidNow(r) /\ h \notin {Done, Raised}
            /\ Len(SaidNow(r)) \in {SimpleMax, SimpleStop}
        BY <3>1, <3>6 DEF ReadsLast, SimpleTyped, Set, h
      <4>2. /\ Len(spoken'[r]) = k + 1 /\ \A i \in 1..Len(spoken'[r]) : spoken'[r][i] = i
            /\ k < produced[r] /\ k + 1 \in {SimpleMax, SimpleStop}
        BY <3>3, <4>1
      <4>3. k \in Nat
        BY DEF k
      <4>4. k + 1 = Whole(r)
        BY <3>4, <4>2, <4>3 DEF Whole
      <4> QED BY <4>1, <4>2, <4>4 DEF Heard, Whole
    <3>7. CASE ReadsEnd(r)
      <4>1. /\ h \in {Done, Raised} /\ UNCHANGED spoken
            /\ pc'[r] = IF h = Raised THEN "raised" ELSE IF job[r] # "none" THEN "closing" ELSE "ended"
        BY <3>1, <3>7 DEF ReadsEnd, SimpleTyped, Set, h
      <4>2. k = produced[r] /\ job[r] = "none" /\ (h = Done => produced[r] = Enough)
        BY <3>3, <4>1
      <4>3. pc'[r] = "raised" \/ (pc'[r] = "ended" /\ produced[r] = Enough)
        BY <4>1, <4>2
      <4>4. pc'[r] = "ended" => k = Whole(r)
        BY <3>4, <4>2, <4>3 DEF Whole
      <4> QED BY <3>4, <4>1, <4>3, <4>4 DEF Heard, Whole, k
    <3> QED BY <3>1, <3>5, <3>6, <3>7
  <2>12. CASE DirectSteps(r)
    <3>1. /\ pc[r] = "direct" /\ produced'[r] = produced[r] + 1 /\ UNCHANGED <<cancels, responses, job>>
          /\ spoken'[r] = Append(spoken[r], produced[r] + 1)
          /\ pc'[r] = IF produced[r] + 1 >= Enough THEN "ended" ELSE "direct"
      <4>1. CASE produced[r] + 1 >= Enough
        BY <2>12, <4>1 DEF DirectSteps, SimpleTyped, Set
      <4>2. CASE ~(produced[r] + 1 >= Enough)
        BY <2>12, <4>2 DEF DirectSteps, SimpleTyped, Set
      <4> QED BY <4>1, <4>2
    <3>2. /\ Len(spoken[r]) = produced[r] /\ RouteOf[r] = "direct" /\ produced[r] < Enough
          /\ \A i \in 1..Len(spoken[r]) : spoken[r][i] = i
      BY <3>1 DEF Heard, Progress
    <3>3. /\ Len(spoken'[r]) = produced[r] + 1
          /\ \A i \in 1..Len(spoken[r]) : spoken'[r][i] = spoken[r][i]
          /\ spoken'[r][Len(spoken[r]) + 1] = produced[r] + 1
      <4>1. produced[r] + 1 \in Int
        OBVIOUS
      <4> QED BY <3>1, <3>2, <4>1, AppendPlaces
    <3>4. \A i \in 1..Len(spoken'[r]) : spoken'[r][i] = i
      <4> TAKE i \in 1..Len(spoken'[r])
      <4>1. i \in 1..Len(spoken[r]) \/ i = Len(spoken[r]) + 1
        BY <3>2, <3>3
      <4> QED BY <3>2, <3>3, <4>1
    <3> QED BY <3>1, <3>2, <3>3, <3>4 DEF Heard, Whole
  <2>13. CASE SimpleCancelled(r)
    <3>0. UNCHANGED <<produced, responses, spoken>> /\ cancels'[r] = cancels[r] + 1
      BY <2>13 DEF SimpleCancelled, SimpleTyped, Set
    <3>1. CASE pc'[r] = "cancelled"
      BY <3>0, <3>1 DEF Heard
    <3>2. CASE CancelledRunning(r)
      <4>1. UNCHANGED pc /\ pc[r] # "reading"
        BY <3>2 DEF CancelledRunning
      <4> QED BY <3>0, <4>1 DEF Heard, Whole
    <3>3. CASE CancelledReading(r)
      <4>1. pc'[r] \in {"cancelled", "closing"}
        BY <3>3 DEF CancelledReading, SimpleTyped, Set
      <4> QED BY <3>0, <4>1 DEF Heard, Whole
    <3>4. CancelledDirect(r) \/ CancelledQueued(r) => pc'[r] = "cancelled"
      BY DEF CancelledDirect, CancelledQueued, SimpleTyped, Set
    <3> QED BY <2>13, <3>1, <3>2, <3>3, <3>4, CancelledWhere
  <2> QED BY <2>1, <2>2, <2>3, <2>4, <2>5, <2>6, <2>7, <2>8, <2>9, <2>10, <2>11, <2>12, <2>13
          DEF SimpleStep
<1> QED BY <1>a, <1>b

\* What a request's cache holds, and that the rest of its prompt is sent on top of that.
Prompted(q) ==
  RouteOf[q] = "text" =>
    /\ kvOf[q] \in {0, SystemOf[q]}
    /\ sends[q] = "suffix" => kvOf[q] = SystemOf[q] /\ SystemOf[q] > 0
    /\ worker[q] \in {"snapshot", "hash", "count"} => SystemOf[q] > 0 /\ kvOf[q] = 0
    /\ worker[q] \in {"spec", "resumed", "decode"} /\ sends[q] = "full" => kvOf[q] = 0

\* The states that are kept are those of a request's system prompt.
SystemKept == systemKv.snapshot = 0 \/ \E q \in SimpleReqs : systemKv.snapshot = SystemOf[q]

\* A step keeps the states of some request's system prompt.
LEMMA SystemStep ==
  ASSUME SimpleTyped, NEW r \in SimpleReqs, SimpleStep(r), SystemKept
  PROVE  SystemKept'
<1>1. CASE WorkerKeeps(r)
  <2>1. /\ worker[r] \in {"snapshot", "hash", "count"}
        /\ systemKv' = [systemKv EXCEPT ![worker[r]] = SystemOf[r]]
    BY <1>1 DEF WorkerKeeps
  <2>2. systemKv'.snapshot = systemKv.snapshot \/ systemKv'.snapshot = SystemOf[r]
    BY <2>1 DEF SimpleTyped
  <2> QED BY <2>2 DEF SystemKept
<1>2. CASE UNCHANGED systemKv
  BY <1>2 DEF SystemKept
<1> QED BY <1>1, <1>2 DEF SimpleStep, SimpleArrives, WorkerStarts, WorkerBegins, SpecPrefills,
       SpecRuns, SpecFails, WorkerDecodes, WorkerRaises, JobEnds, ConsumerReads, DirectSteps,
       SimpleCancelled

\* A step keeps what is sent in accord with what the cache holds.
LEMMA PromptedStep ==
  ASSUME SimpleAssumption, OneSystemPrompt, SimpleTyped, NEW r \in SimpleReqs, SimpleStep(r),
         Placed(r), SystemKept, \A q \in SimpleReqs : Prompted(q)
  PROVE  \A q \in SimpleReqs : Prompted(q)'
<1>a. ASSUME NEW q \in SimpleReqs, q # r
      PROVE  Prompted(q)'
  <2>1. worker'[q] = worker[q] /\ kvOf'[q] = kvOf[q] /\ sends'[q] = sends[q]
    BY <1>a, SimpleFrame
  <2> QED BY <2>1 DEF Prompted
<1>b. Prompted(r)'
  <2> SUFFICES ASSUME RouteOf[r] = "text" PROVE Prompted(r)'
    BY DEF Prompted
  <2>0. Prompted(r) /\ SystemOf[r] \in Nat /\ kvOf[r] \in Nat
    BY DEF SimpleTyped, SimpleAssumption
  <2>k. ASSUME UNCHANGED <<kvOf, sends>>,
               \/ worker'[r] \in {"none", "begin", "over", "raised"}
               \/ worker'[r] = worker[r]
               \/ worker[r] = "spec" /\ worker'[r] = "resumed"
        PROVE  Prompted(r)'
    BY <2>0, <2>k DEF Prompted
  <2>1. CASE SimpleArrives(r)
    <3>1. /\ pc[r] = "new" /\ UNCHANGED <<worker, sends>>
          /\ kvOf'[r] = IF SystemHit(r) THEN systemKv.snapshot ELSE kvOf[r]
      BY <2>1 DEF SimpleArrives, SimpleTyped, Set
    <3>2. worker[r] = "none"
      BY <3>1 DEF Placed, SimpleTyped
    <3>3. SystemHit(r) => systemKv.snapshot = SystemOf[r] /\ SystemOf[r] > 0
      <4> SUFFICES ASSUME SystemHit(r) PROVE systemKv.snapshot = SystemOf[r] /\ SystemOf[r] > 0
        OBVIOUS
      <4>1. SystemOf[r] > 0 /\ systemKv.snapshot # 0
        BY DEF SystemHit
      <4>2. PICK q \in SimpleReqs : systemKv.snapshot = SystemOf[q]
        BY <4>1 DEF SystemKept
      <4>3. SystemOf[q] > 0
        BY <4>1, <4>2 DEF SimpleAssumption
      <4> QED BY <4>1, <4>2, <4>3 DEF OneSystemPrompt
    <3> QED BY <2>0, <3>1, <3>2, <3>3 DEF Prompted
  <2>2. CASE WorkerStarts(r)
    BY <2>2, <2>k DEF WorkerStarts, SimpleTyped, Set
  <2>3. CASE WorkerBegins(r)
    <3>1. /\ worker[r] = "begin" /\ UNCHANGED kvOf
          /\ worker'[r] = IF pc[r] = "restoring" THEN "over"
               ELSE IF SystemOf[r] > 0 /\ kvOf[r] = 0 THEN "snapshot"
               ELSE IF r \in SpecOn THEN "spec" ELSE "decode"
          /\ sends'[r] = IF SystemOf[r] > 0 /\ kvOf[r] # 0 THEN "suffix" ELSE sends[r]
      BY <2>3 DEF WorkerBegins, SimpleTyped, Set
    <3> QED BY <2>0, <3>1 DEF Prompted
  <2>4. CASE WorkerKeeps(r)
    <3>1. /\ worker[r] \in {"snapshot", "hash", "count"}
          /\ \/ worker[r] # "count" /\ worker'[r] \in {"hash", "count"} /\ UNCHANGED <<kvOf, sends>>
             \/ worker'[r] \in {"spec", "decode"} /\ kvOf'[r] = SystemOf[r] /\ sends'[r] = "suffix"
      BY <2>4 DEF WorkerKeeps, AfterSystem, SimpleTyped, Set
    <3> QED BY <2>0, <3>1 DEF Prompted
  <2>5. CASE SpecPrefills(r)
    BY <2>5, <2>k DEF SpecPrefills, SimpleTyped, Set
  <2>6. CASE SpecRuns(r)
    BY <2>6 DEF SpecRuns
  <2>7. CASE SpecFails(r)
    <3>1. worker'[r] = "decode" /\ kvOf'[r] = 0 /\ sends'[r] = "full"
      BY <2>7 DEF SpecFails, FallenBack, SimpleTyped, Set
    <3> QED BY <3>1 DEF Prompted
  <2>8. CASE WorkerDecodes(r)
    <3>1. worker'[r] \in {"over", "raised", worker[r]} /\ UNCHANGED <<kvOf, sends>>
      <4>1. CASE abortSet[r]
        BY <2>8, <4>1 DEF WorkerDecodes, SimpleTyped, Set
      <4>2. CASE ~abortSet[r]
        BY <2>8, <4>2 DEF WorkerDecodes, SimpleTyped, Set
      <4> QED BY <4>1, <4>2
    <3> QED BY <2>k, <3>1
  <2>9. CASE WorkerRaises(r)
    BY <2>9, <2>k DEF WorkerRaises, SimpleTyped, Set
  <2>10. CASE JobEnds(r)
    BY <2>10, <2>k DEF JobEnds, SimpleTyped, Set
  <2>11. CASE ConsumerReads(r) \/ DirectSteps(r) \/ SimpleCancelled(r)
    BY <2>11, <2>k DEF ConsumerReads, DirectSteps, SimpleCancelled
  <2> QED BY <2>1, <2>2, <2>3, <2>4, <2>5, <2>6, <2>7, <2>8, <2>9, <2>10, <2>11 DEF SimpleStep
<1> QED BY <1>a, <1>b

\* The inductive invariant.
SimpleInv ==
  /\ SimpleTyped /\ SystemKept
  /\ \A q \in SimpleReqs : Placed(q) /\ cancels[q] <= 1
  /\ \A q \in SimpleReqs : Progress(q)
  /\ \A q \in SimpleReqs : Heard(q)
  /\ \A q \in SimpleReqs : Prompted(q)

\* It holds at first.
LEMMA SimpleInvInit ==
  ASSUME SimpleAssumption, SimpleInit
  PROVE  SimpleInv
<1>0. Enough \in Nat \ {0}
  BY DEF Enough, SimpleAssumption
<1>1. SimpleTyped
  BY SimpleTypedInit
<1>2. SystemKept
  BY DEF SystemKept, SimpleInit
<1>3. ASSUME NEW q \in SimpleReqs
      PROVE  /\ Placed(q) /\ cancels[q] <= 1 /\ Progress(q) /\ Heard(q) /\ Prompted(q)
  <2>1. /\ pc[q] = "new" /\ job[q] = "none" /\ worker[q] = "none" /\ abortSet[q] = FALSE
        /\ cancels[q] = 0 /\ produced[q] = 0 /\ responses[q] = <<>> /\ spoken[q] = <<>>
        /\ kvOf[q] = 0 /\ sends[q] = "full" /\ ToSet(lockQueue) = {}
    BY DEF SimpleInit, ToSet
  <2>2. Len(spoken[q]) = 0
    BY <2>1
  <2> QED BY <1>0, <2>1, <2>2 DEF Placed, Progress, Heard, Prompted
<1> QED BY <1>1, <1>2, <1>3 DEF SimpleInv

\* Every step keeps it.
LEMMA SimpleInvStep ==
  ASSUME SimpleAssumption, SimpleCancels <= 1, OneSystemPrompt, "resumed" \notin SimpleFaults,
         SimpleInv, [SimpleNext]_simpleVars
  PROVE  SimpleInv'
<1>1. CASE SimpleNext
  <2>1. PICK r \in SimpleReqs : SimpleStep(r)
    BY <1>1 DEF SimpleNext
  <2>2. /\ SimpleTyped /\ SystemKept /\ Placed(r) /\ Progress(r) /\ Heard(r)
        /\ \A q \in SimpleReqs : Placed(q) /\ cancels[q] <= 1
        /\ \A q \in SimpleReqs : Progress(q)
        /\ \A q \in SimpleReqs : Heard(q)
        /\ \A q \in SimpleReqs : Prompted(q)
    BY DEF SimpleInv
  <2>3. SimpleTyped'
    BY <2>1, <2>2, SimpleTypedStep
  <2>4. SystemKept'
    BY <2>1, <2>2, SystemStep
  <2>5. \A q \in SimpleReqs : Placed(q)' /\ cancels'[q] <= 1
    BY <2>1, <2>2, PlacedStep
  <2>6. \A q \in SimpleReqs : Progress(q)'
    BY <2>1, <2>2, <2>3, ProgressStep
  <2>7. \A q \in SimpleReqs : Heard(q)'
    BY <2>1, <2>2, <2>3, HeardStep
  <2>8. \A q \in SimpleReqs : Prompted(q)'
    BY <2>1, <2>2, PromptedStep
  <2> QED BY <2>3, <2>4, <2>5, <2>6, <2>7, <2>8 DEF SimpleInv
<1>2. CASE UNCHANGED simpleVars
  <2> USE <1>2 DEF simpleVars
  <2>1. SimpleTyped' /\ SystemKept'
    BY DEF SimpleInv, SimpleTyped, SystemKept
  <2>2. \A q \in SimpleReqs : Placed(q)' /\ cancels'[q] <= 1
    BY DEF SimpleInv, Placed, Holds
  <2>3. \A q \in SimpleReqs : Progress(q)' /\ Heard(q)' /\ Prompted(q)'
    BY DEF SimpleInv, Progress, Heard, Unread, Whole, Prompted
  <2> QED BY <2>1, <2>2, <2>3 DEF SimpleInv
<1> QED BY <1>1, <1>2

\* What the invariant says of the engine.
LEMMA SimpleInvServes ==
  ASSUME SimpleAssumption, SimpleInv
  PROVE  SimpleServed
<1>0. /\ SimpleTyped /\ \A q \in SimpleReqs : Placed(q) /\ Progress(q) /\ Heard(q) /\ Prompted(q)
  BY DEF SimpleInv
<1>1. WorkersSerialized
  BY <1>0 DEF WorkersSerialized, Generating, Placed, Holds
<1>2. LeftIsIdle
  <2>1. ToSet(lockQueue) = Range(lockQueue)
    BY DEF ToSet, Range
  <2>2. ASSUME NEW q \in SimpleReqs, Left(q)
        PROVE  job[q] = "none" /\ worker[q] = "none" /\ pc[q] # "direct" /\ q \notin ToSet(lockQueue)
    <3>1. pc[q] \in {"ended", "raised", "cancelled"}
      BY <2>2 DEF Left
    <3>2. job[q] = "none"
      BY <1>0, <3>1 DEF Placed
    <3> QED BY <1>0, <3>1, <3>2 DEF Placed
  <2> QED BY <2>1, <2>2 DEF LeftIsIdle, Generating
<1>3. SpokenWhole
  <2> SUFFICES ASSUME NEW q \in SimpleReqs
               PROVE  /\ spoken[q] = [i \in DOMAIN spoken[q] |-> i]
                      /\ pc[q] = "ended" => Len(spoken[q]) = Whole(q)
    BY DEF SpokenWhole, Whole
  <2>1. spoken[q] \in Seq(Int)
    BY <1>0 DEF SimpleTyped
  <2>2. \A i \in 1..Len(spoken[q]) : spoken[q][i] = i
    BY <1>0 DEF Heard
  <2>3. spoken[q] = [i \in DOMAIN spoken[q] |-> i]
    <3> DEFINE s == spoken[q]
    <3>1. DOMAIN s = 1..Len(s) /\ s = [i \in DOMAIN s |-> s[i]]
      BY <2>1
    <3>2. \A i \in DOMAIN s : s[i] = i
      BY <2>2, <3>1
    <3> HIDE DEF s
    <3>3. s = [i \in DOMAIN s |-> i]
      BY <3>1, <3>2
    <3> QED BY <3>3 DEF s
  <2> QED BY <1>0, <2>3 DEF Heard
<1>4. PromptWhole
  <2> SUFFICES ASSUME NEW q \in SimpleReqs, RouteOf[q] = "text",
                      worker[q] \in {"spec", "resumed", "decode"}
               PROVE  IF sends[q] = "full" THEN kvOf[q] = 0 ELSE kvOf[q] = SystemOf[q]
    BY DEF PromptWhole
  <2>1. sends[q] \in {"full", "suffix"} /\ Prompted(q)
    BY <1>0 DEF SimpleTyped
  <2> QED BY <2>1 DEF Prompted
<1>5. NoneStuck
  <2> SUFFICES ASSUME NEW q \in SimpleReqs
               PROVE  Left(q) \/ GoesOn(q) \/ (q \in Range(lockQueue) /\ GoesOn(Head(lockQueue)))
    BY DEF NoneStuck
  <2>0. /\ ToSet(lockQueue) = Range(lockQueue) /\ lockQueue \in Seq(SimpleReqs)
        /\ job[q] \in {"none", "queued", "running", "draining"}
        /\ pc[q] \in {"new", "direct", "blocking", "restoring", "reading", "closing",
                      "ended", "raised", "cancelled"}
    BY <1>0 DEF ToSet, Range, SimpleTyped
  <2>1. CASE q \in ToSet(lockQueue)
    <3> DEFINE h == Head(lockQueue)
    <3>1. lockQueue # <<>> /\ h \in SimpleReqs /\ h \in ToSet(lockQueue)
      <4>1. lockQueue # <<>>
        BY <2>1 DEF ToSet
      <4> QED BY <2>0, <4>1, TailOfQueue
    <3>2. Holds(h) /\ Placed(h) /\ job[h] \in {"none", "queued", "running", "draining"}
      BY <1>0, <3>1 DEF Holds, SimpleTyped
    <3>3. GoesOn(h)
      BY <3>1, <3>2 DEF Placed, GoesOn
    <3> QED BY <2>0, <2>1, <3>3
  <2>2. CASE q \notin ToSet(lockQueue)
    <3>1. job[q] = "none" /\ pc[q] \in {"new", "reading", "ended", "raised", "cancelled"}
      BY <1>0, <2>0, <2>2 DEF Placed
    <3>2. pc[q] = "reading" => responses[q] # <<>>
      <4> SUFFICES ASSUME pc[q] = "reading", responses[q] = <<>> PROVE FALSE
        OBVIOUS
      <4>1. Len(responses[q]) = 0 /\ Len(spoken[q]) \in Nat /\ produced[q] \in Nat
        BY <1>0 DEF SimpleTyped
      <4>2. Unread(q)
        BY <1>0 DEF Heard
      <4>3. Len(spoken[q]) <= produced[q] /\ Len(responses[q]) = produced[q] - Len(spoken[q]) + 1
        BY <3>1, <4>2 DEF Unread, UnreadOf
      <4> QED BY <4>1, <4>3
    <3> QED BY <3>1, <3>2 DEF Left, GoesOn
  <2> QED BY <2>1, <2>2
<1> QED BY <1>1, <1>2, <1>3, <1>4, <1>5 DEF SimpleServed

\* The engine that serves one request at a time, with one system prompt in use, no request
\* cancelled again while it waits for its thread, and no failure once a sparse prefill has
\* produced its first token: one request has the model at a time; who has left holds nothing;
\* every consumer yields the model's tokens once, in order, and all of them when it ends by
\* itself; the model gets whole prompts; and nobody waits for nobody.
THEOREM SimpleServes ==
  ASSUME SimpleCancels <= 1, OneSystemPrompt, "resumed" \notin SimpleFaults
  PROVE  SimpleSpec => []SimpleServed
<1>1. SimpleInit => SimpleInv
  BY SimpleInvInit, SimpleAssumption
<1>2. SimpleInv /\ [SimpleNext]_simpleVars => SimpleInv'
  BY SimpleInvStep, SimpleAssumption
<1>3. SimpleInv => SimpleServed
  BY SimpleInvServes, SimpleAssumption
<1> QED BY <1>1, <1>2, <1>3, PTL DEF SimpleSpec

--------------------------------------------------------------------------------
(* HttpServing: leases, frames and clients that leave.                       *)

HttpTyped ==
  /\ leases \in Nat
  /\ at \in [HttpReqs -> {"new", "acquiring", "working", "answered", "streaming",
                          "cancelling", "over"}]
  /\ acquire \in [HttpReqs -> {"none", "pending", "done", "cancelled"}]
  /\ work \in [HttpReqs -> {"none", "running", "stopping", "over", "raised"}]
  /\ client \in [HttpReqs -> {"here", "left"}]
  /\ DOMAIN frames = HttpReqs /\ DOMAIN status = HttpReqs

\* Where a request is says whether it holds the engine and what the engine does for it.
Handled(h) ==
  /\ Leased(h) =>
       /\ at[h] = "new" => acquire[h] = "none"
       /\ at[h] = "acquiring" => acquire[h] \in {"pending", "done"}
       /\ at[h] \in {"working", "answered", "streaming", "cancelling"} => acquire[h] = "done"
       /\ at[h] = "over" => acquire[h] \in {"done", "cancelled"}
  /\ ~Leased(h) => acquire[h] = "none" /\ at[h] \notin {"acquiring", "answered", "streaming"}
  /\ at[h] \in {"new", "acquiring", "answered"} => work[h] = "none"
  /\ at[h] \in {"working", "streaming"} => work[h] \in {"running", "over", "raised"}
  /\ at[h] = "cancelling" => work[h] \in {"stopping", "over"}
  /\ at[h] = "over" => work[h] # "running"

\* What a stream sends before its terminal frame, and with it.
Frames == Seq({"data", "done"})
FramesOpen(sent) == sent \in Frames /\ \A i \in 1..Len(sent) : sent[i] # "done"
FramesClosed(sent) ==
  /\ sent \in Frames /\ sent # <<>> /\ Last(sent) = "done"
  /\ \A i \in 1..Len(sent) - 1 : sent[i] # "done"

\* What a stream has been sent so far.
Framed(h) ==
  /\ at[h] \in {"new", "acquiring", "answered", "working"} => FramesOpen(frames[h])
  /\ at[h] = "streaming" /\ work[h] = "running" => FramesOpen(frames[h])
  /\ at[h] = "streaming" /\ work[h] # "running" => FramesClosed(frames[h])
  /\ at[h] = "working" => HttpKind[h] # "stream"
  /\ at[h] = "over" /\ HttpKind[h] = "stream" /\ status[h] = "200" => FramesClosed(frames[h])
  /\ at[h] # "over" => status[h] # "200"

Holders == {h \in HttpReqs : acquire[h] = "done" /\ at[h] # "over"}

\* One request more or less among the holders, or the same ones.
LEMMA HoldersCount ==
  ASSUME HttpAssumption, HttpTyped, NEW h \in HttpReqs,
         \A g \in HttpReqs \ {h} : acquire'[g] = acquire[g] /\ at'[g] = at[g]
  PROVE  /\ IsFiniteSet(Holders) /\ Cardinality(Holders) \in Nat
         /\ h \in Holders <=> h \in Holders' => Cardinality(Holders') = Cardinality(Holders)
         /\ h \in Holders' /\ h \notin Holders => Cardinality(Holders') = Cardinality(Holders) + 1
         /\ h \in Holders /\ h \notin Holders' => Cardinality(Holders') = Cardinality(Holders) - 1
<1>1. Holders \subseteq HttpReqs /\ Holders' \subseteq HttpReqs
  BY DEF Holders
<1>2. \A g \in HttpReqs \ {h} : g \in Holders <=> g \in Holders'
  BY DEF Holders
<1>3. IsFiniteSet(HttpReqs)
  BY DEF HttpAssumption
<1> HIDE DEF Holders
<1>4. IsFiniteSet(Holders) /\ Cardinality(Holders) \in Nat
  BY <1>1, <1>3, FS_Subset, FS_CardinalityType
<1>5. IsFiniteSet(Holders') /\ Cardinality(Holders') \in Nat
  BY <1>1, <1>3, FS_Subset, FS_CardinalityType
<1>6. ASSUME h \in Holders <=> h \in Holders'
      PROVE  Cardinality(Holders') = Cardinality(Holders)
  <2>1. Holders' = Holders
    BY <1>1, <1>2, <1>6
  <2> QED BY <2>1
<1>7. ASSUME h \in Holders', h \notin Holders
      PROVE  Cardinality(Holders') = Cardinality(Holders) + 1
  <2>1. Holders' = Holders \cup {h}
    BY <1>1, <1>2, <1>7
  <2> QED BY <1>4, <1>7, <2>1, FS_AddElement
<1>8. ASSUME h \in Holders, h \notin Holders'
      PROVE  Cardinality(Holders') = Cardinality(Holders) - 1
  <2>1. Holders = Holders' \cup {h}
    BY <1>1, <1>2, <1>8
  <2>2. Cardinality(Holders) = Cardinality(Holders') + 1
    BY <1>5, <1>8, <2>1, FS_AddElement
  <2> QED BY <1>4, <1>5, <2>2
<1> QED BY <1>4, <1>6, <1>7, <1>8

\* A request's own step: what it makes of its place and its acquisition, and of the count.
HttpMoves(h) ==
  /\ at' \in [HttpReqs -> {"new", "acquiring", "working", "answered", "streaming",
                           "cancelling", "over"}]
  /\ acquire' \in [HttpReqs -> {"none", "pending", "done", "cancelled"}]
  /\ work' \in [HttpReqs -> {"none", "running", "stopping", "over", "raised"}]
  /\ client' \in [HttpReqs -> {"here", "left"}]
  /\ DOMAIN frames' = HttpReqs /\ DOMAIN status' = HttpReqs
  /\ \A g \in HttpReqs \ {h} : /\ at'[g] = at[g] /\ acquire'[g] = acquire[g]
                               /\ work'[g] = work[g] /\ frames'[g] = frames[g]
                               /\ status'[g] = status[g]

\* A step of a request moves no other.
LEMMA HttpMovesStep ==
  ASSUME HttpTyped, NEW h \in HttpReqs, HttpStep(h)
  PROVE  HttpMoves(h)
<1> USE DEF HttpTyped, HttpMoves, Ends
<1>1. CASE ClientLeaves(h)
  BY <1>1 DEF ClientLeaves
<1>2. CASE RequestArrives(h)
  <2>1. CASE Leased(h)
    BY <1>2, <2>1 DEF RequestArrives
  <2>2. CASE ~Leased(h)
    <3>1. /\ UNCHANGED <<resident, leases, client, frames, stored, acquire>>
          /\ \/ \E s : Ends(h, s) /\ UNCHANGED work
             \/ /\ at' = [at EXCEPT ![h] = "working"] /\ work' = [work EXCEPT ![h] = "running"]
                /\ UNCHANGED status
      BY <1>2, <2>2 DEF RequestArrives
    <3> QED BY <3>1
  <2> QED BY <2>1, <2>2
<1>3. CASE EngineAcquired(h)
  BY <1>3 DEF EngineAcquired
<1>4. CASE AcquireGivenUp(h) \/ AcquiredForNobody(h) \/ PrepareRaises(h)
  BY <1>4 DEF AcquireGivenUp, AcquiredForNobody, PrepareRaises
<1>5. CASE Prepared(h)
  BY <1>5 DEF Prepared
<1>6. CASE BodyBegins(h) \/ BodyNeverBegins(h) \/ EngineSpeaks(h) \/ WorkStops(h)
  BY <1>6 DEF BodyBegins, BodyNeverBegins, EngineSpeaks, WorkStops
<1>7. ASSUME NEW raises \in BOOLEAN, EngineFinishes(h, raises) PROVE HttpMoves(h)
  BY <1>7 DEF EngineFinishes
<1>8. CASE ResultReturned(h)
  <2>1. UNCHANGED <<resident, acquire, work, client, frames>> /\ \E s : Ends(h, s)
    BY <1>8 DEF ResultReturned
  <2> QED BY <2>1
<1>9. CASE ResultGivenUp(h) \/ GuardSeesClosed(h)
  BY <1>9 DEF ResultGivenUp, GuardSeesClosed
<1>10. CASE CancelAwaited(h) \/ StreamEnds(h)
  BY <1>10 DEF CancelAwaited, StreamEnds
<1>11. CASE StreamDropped(h)
  BY <1>11 DEF StreamDropped
<1> QED BY <1>1, <1>2, <1>3, <1>4, <1>5, <1>6, <1>7, <1>8, <1>9, <1>10, <1>11 DEF HttpStep

\* What _ensure_sse_terminal makes of what was sent.
LEMMA TerminalFrame ==
  ASSUME NEW sent, FramesOpen(sent)
  PROVE  FramesClosed(Ensured(sent)) /\ FramesClosed(Ensured(Append(sent, "done")))
<1> DEFINE n == Len(sent)
           t == Append(sent, "done")
<1>1. /\ t \in Frames /\ n \in Nat /\ Len(t) = n + 1 /\ t[n + 1] = "done"
      /\ \A i \in 1..n : t[i] = sent[i]
  BY AppendPlaces DEF FramesOpen, Frames
<1>2. \A i \in 1..n : sent[i] # "done"
  BY DEF FramesOpen
<1>3. sent = <<>> \/ Last(sent) # "done"
  <2>1. sent # <<>> => n \in 1..n
    BY DEF FramesOpen, Frames
  <2> QED BY <1>2, <2>1 DEF Last
<1> HIDE DEF n, t
<1>4. t # <<>> /\ Last(t) = "done" /\ \A i \in 1..Len(t) - 1 : t[i] # "done"
  <2>1. Len(t) # 0 /\ Len(<<>>) = 0
    BY <1>1
  <2> QED BY <1>1, <1>2, <2>1 DEF Last
<1>5. Ensured(sent) = t
  BY <1>3 DEF Ensured, t
<1>6. Ensured(t) = t
  BY <1>4 DEF Ensured
<1> QED BY <1>1, <1>4, <1>5, <1>6 DEF FramesClosed, t

\* The leases follow the holders.
Counts(h) ==
  leases' = leases + (IF acquire'[h] = "done" /\ at'[h] # "over" THEN 1 ELSE 0)
                   - (IF acquire[h] = "done" /\ at[h] # "over" THEN 1 ELSE 0)

\* A step keeps what a request's place says, its frames, and its lease's count.
LEMMA HttpServedStep ==
  ASSUME HttpAssumption, "messages" \notin PrepareFails, "unstarted" \notin HttpFaults,
         HttpTyped, NEW h \in HttpReqs, HttpStep(h), Handled(h), Framed(h)
  PROVE  Handled(h)' /\ Framed(h)' /\ Counts(h)
<1>0. /\ HttpMoves(h)
      /\ at[h] \in {"new", "acquiring", "working", "answered", "streaming", "cancelling", "over"}
      /\ leases \in Nat
  BY HttpMovesStep DEF HttpTyped
<1> DEFINE Same == UNCHANGED <<at, acquire, status, leases>>
<1> USE DEF Handled, Framed, Counts, Leased
<1>1. CASE ClientLeaves(h)
  BY <1>0, <1>1 DEF ClientLeaves
<1>2. CASE RequestArrives(h)
  <2>0. at[h] = "new" /\ UNCHANGED <<leases, frames>>
    BY <1>2 DEF RequestArrives
  <2>1. CASE Leased(h)
    <3>1. /\ at'[h] = "acquiring" /\ acquire'[h] = "pending" /\ UNCHANGED <<work, status>>
      BY <1>2, <2>1 DEF RequestArrives, HttpTyped
    <3> QED BY <1>0, <2>0, <2>1, <3>1
  <2>2. CASE ~Leased(h)
    <3>1. /\ UNCHANGED acquire
          /\ \/ at'[h] = "over" /\ UNCHANGED work /\ status'[h] \in {"503", "404"}
             \/ at'[h] = "working" /\ work'[h] = "running" /\ UNCHANGED status
      <4>1. CASE ~resident
        BY <1>2, <2>2, <4>1 DEF RequestArrives, HttpTyped, Ends
      <4>2. CASE resident /\ PrevOf[h] # None /\ PrevOf[h] \notin Range(stored)
        BY <1>2, <2>2, <4>2 DEF RequestArrives, HttpTyped, Ends
      <4>3. CASE resident /\ ~(PrevOf[h] # None /\ PrevOf[h] \notin Range(stored))
        BY <1>2, <2>2, <4>3 DEF RequestArrives, HttpTyped
      <4> QED BY <4>1, <4>2, <4>3
    <3> QED BY <1>0, <2>0, <2>2, <3>1
  <2> QED BY <2>1, <2>2
<1>3. CASE EngineAcquired(h)
  <2>1. /\ acquire[h] = "pending" /\ acquire'[h] = "done" /\ leases' = leases + 1
        /\ UNCHANGED <<at, work, frames, status>>
    BY <1>3 DEF EngineAcquired, HttpTyped
  <2>2. at[h] = "acquiring" /\ Leased(h)
    BY <1>0, <2>1
  <2> QED BY <1>0, <2>1, <2>2
<1>4. CASE AcquireGivenUp(h)
  <2>1. /\ at[h] = "acquiring" /\ acquire[h] = "pending" /\ acquire'[h] = "cancelled"
        /\ at'[h] = "over" /\ status'[h] \in {"499", "504"} /\ UNCHANGED <<leases, work, frames>>
    BY <1>4 DEF AcquireGivenUp, Ends, HttpTyped
  <2> QED BY <1>0, <2>1
<1>5. CASE AcquiredForNobody(h) \/ PrepareRaises(h)
  <2>1. /\ at[h] = "acquiring" /\ acquire[h] = "done" /\ UNCHANGED <<acquire, work, frames>>
        /\ at'[h] = "over" /\ status'[h] \in {"499", "500"} /\ Release(h)
    BY <1>5 DEF AcquiredForNobody, PrepareRaises, Ends, HttpTyped
  <2>2. leases' = leases - 1
    BY <2>1 DEF Release
  <2> QED BY <1>0, <2>1, <2>2
<1>6. CASE Prepared(h)
  <2>1. /\ at[h] = "acquiring" /\ acquire[h] = "done" /\ UNCHANGED <<leases, acquire, frames, status>>
        /\ \/ HttpKind[h] = "stream" /\ at'[h] = "answered" /\ UNCHANGED work
           \/ HttpKind[h] # "stream" /\ at'[h] = "working" /\ work'[h] = "running"
    BY <1>6 DEF Prepared, HttpTyped
  <2> QED BY <1>0, <2>1
<1>7. CASE BodyBegins(h)
  <2>1. /\ at[h] = "answered" /\ at'[h] = "streaming" /\ work'[h] = "running"
        /\ UNCHANGED <<leases, acquire, frames, status>>
    BY <1>7 DEF BodyBegins, HttpTyped
  <2> QED BY <1>0, <2>1
<1>8. CASE EngineSpeaks(h)
  <2>1. /\ at[h] = "streaming" /\ work[h] = "running" /\ frames'[h] = <<"data">>
        /\ UNCHANGED <<leases, at, acquire, work, status>>
    BY <1>8 DEF EngineSpeaks, HttpTyped
  <2>2. FramesOpen(<<"data">>)
    <3>1. <<"data">> \in Frames /\ Len(<<"data">>) = 1 /\ <<"data">>[1] = "data"
      BY DEF Frames
    <3> QED BY <3>1 DEF FramesOpen
  <2> QED BY <1>0, <2>1, <2>2
<1>9. ASSUME NEW raises \in BOOLEAN, EngineFinishes(h, raises)
      PROVE  Handled(h)' /\ Framed(h)' /\ Counts(h)
  <2>1. /\ work[h] = "running" /\ work'[h] \in {"raised", "over"}
        /\ UNCHANGED <<leases, at, acquire, status>>
    BY <1>9 DEF EngineFinishes, HttpTyped
  <2>2. CASE at[h] # "streaming"
    <3>1. UNCHANGED frames
      BY <1>9, <2>2 DEF EngineFinishes
    <3> QED BY <1>0, <2>1, <2>2, <3>1
  <2>3. CASE at[h] = "streaming"
    <3>1. frames'[h] = Ensured(IF raises THEN frames[h] ELSE Append(frames[h], "done"))
      BY <1>9, <2>3 DEF EngineFinishes, HttpTyped
    <3>2. FramesOpen(frames[h])
      BY <2>1, <2>3
    <3>3. FramesClosed(frames'[h])
      BY <3>1, <3>2, TerminalFrame
    <3> QED BY <1>0, <2>1, <2>3, <3>3
  <2> QED BY <2>2, <2>3
<1>10. CASE WorkStops(h)
  <2>1. /\ work[h] = "stopping" /\ work'[h] = "over" /\ UNCHANGED <<leases, at, acquire, frames, status>>
    BY <1>10 DEF WorkStops, HttpTyped
  <2> QED BY <1>0, <2>1
<1>11. CASE ResultReturned(h) \/ StreamEnds(h)
  <2>1. /\ at[h] \in {"working", "streaming"} /\ work[h] \in {"over", "raised"} /\ at'[h] = "over"
        /\ UNCHANGED <<acquire, work, frames>> /\ Release(h)
    BY <1>11 DEF ResultReturned, StreamEnds, Ends, HttpTyped
  <2> QED BY <1>0, <2>1 DEF Release
<1>12. CASE ResultGivenUp(h) \/ GuardSeesClosed(h)
  <2>1. /\ at[h] \in {"working", "streaming"} /\ work'[h] = "stopping" /\ at'[h] = "cancelling"
        /\ UNCHANGED <<leases, acquire, frames>> /\ status'[h] \in {"499", "504", "left"}
    BY <1>12 DEF ResultGivenUp, GuardSeesClosed, HttpTyped
  <2> QED BY <1>0, <2>1
<1>13. CASE CancelAwaited(h)
  <2>1. /\ at[h] = "cancelling" /\ work[h] = "over" /\ at'[h] = "over" /\ status'[h] = status[h]
        /\ UNCHANGED <<acquire, work, frames>> /\ Release(h)
    BY <1>13 DEF CancelAwaited, Ends, HttpTyped
  <2> QED BY <1>0, <2>1 DEF Release
<1>14. CASE StreamDropped(h)
  <2>1. /\ at[h] = "streaming" /\ at'[h] = "over" /\ status'[h] = "left"
        /\ work'[h] \in {"stopping", work[h]} /\ work'[h] # "running"
        /\ UNCHANGED <<acquire, frames>> /\ Release(h)
    BY <1>14 DEF StreamDropped, Ends, HttpTyped
  <2> QED BY <1>0, <2>1 DEF Release
<1> QED BY <1>1, <1>2, <1>3, <1>4, <1>5, <1>6, <1>7, <1>8, <1>9, <1>10, <1>11, <1>12, <1>13, <1>14
        DEF HttpStep, BodyNeverBegins

HttpInv ==
  /\ HttpTyped /\ leases = Cardinality(Holders)
  /\ \A h \in HttpReqs : Handled(h) /\ Framed(h)

\* At first nobody holds the engine and nothing was sent.
LEMMA HttpInvInit ==
  ASSUME HttpAssumption, HttpInit
  PROVE  HttpInv
<1>1. HttpTyped /\ \A h \in HttpReqs : Handled(h) /\ Framed(h)
  <2>1. FramesOpen(<<>>)
    BY DEF FramesOpen, Frames
  <2> QED BY <2>1 DEF HttpInit, HttpTyped, Handled, Framed
<1>2. Holders = {}
  BY DEF HttpInit, Holders
<1>3. Cardinality(Holders) = leases
  BY <1>2, FS_EmptySet DEF HttpInit
<1> QED BY <1>1, <1>3 DEF HttpInv

\* Every step keeps the inductive invariant.
LEMMA HttpInvStep ==
  ASSUME HttpAssumption, "messages" \notin PrepareFails, "unstarted" \notin HttpFaults,
         HttpInv, [HttpNext]_httpVars
  PROVE  HttpInv'
<1>1. ASSUME NEW h \in HttpReqs, HttpStep(h) PROVE HttpInv'
  <2>0. /\ HttpTyped /\ leases = Cardinality(Holders)
        /\ \A g \in HttpReqs : Handled(g) /\ Framed(g)
    BY DEF HttpInv
  <2>1. Handled(h)' /\ Framed(h)' /\ Counts(h) /\ HttpMoves(h)
    BY <1>1, <2>0, HttpServedStep, HttpMovesStep
  <2>2. ASSUME NEW g \in HttpReqs, g # h PROVE Handled(g)' /\ Framed(g)'
    BY <2>0, <2>1, <2>2 DEF HttpMoves, Handled, Framed, Leased
  <2>3. leases' = Cardinality(Holders')
    <3> DEFINE was == acquire[h] = "done" /\ at[h] # "over"
               is == acquire'[h] = "done" /\ at'[h] # "over"
    <3>1. /\ h \in Holders <=> was
          /\ h \in Holders' <=> is
      BY DEF Holders
    <3>2. leases' = leases + (IF is THEN 1 ELSE 0) - (IF was THEN 1 ELSE 0)
      BY <2>1 DEF Counts
    <3>3. /\ Cardinality(Holders) \in Nat
          /\ h \in Holders <=> h \in Holders' => Cardinality(Holders') = Cardinality(Holders)
          /\ h \in Holders' /\ h \notin Holders => Cardinality(Holders') = Cardinality(Holders) + 1
          /\ h \in Holders /\ h \notin Holders' => Cardinality(Holders') = Cardinality(Holders) - 1
      BY <2>0, <2>1, HoldersCount DEF HttpMoves
    <3> HIDE DEF was, is, Holders
    <3> QED BY <2>0, <3>1, <3>2, <3>3
  <2>4. leases' \in Nat
    <3>1. IsFiniteSet(HttpReqs) /\ Holders' \subseteq HttpReqs
      BY DEF HttpAssumption, Holders
    <3>2. Cardinality(Holders') \in Nat
      BY <3>1, FS_Subset, FS_CardinalityType
    <3> QED BY <2>3, <3>2
  <2>5. HttpTyped'
    BY <2>1, <2>4 DEF HttpTyped, HttpMoves
  <2> QED BY <2>1, <2>2, <2>3, <2>5 DEF HttpInv
<1>2. CASE UNCHANGED <<leases, at, acquire, work, client, frames, status>>
  <2>1. Holders' = Holders
    BY <1>2 DEF Holders
  <2> QED BY <1>2, <2>1 DEF HttpInv, HttpTyped, Handled, Framed
<1> QED BY <1>1, <1>2 DEF HttpNext, IdleUnload, httpVars

\* What the inductive invariant says of the requests that are over.
LEMMA HttpInvServes ==
  ASSUME HttpInv
  PROVE  HttpServed
<1>0. /\ HttpTyped /\ \A h \in HttpReqs : Handled(h) /\ Framed(h)
  BY DEF HttpInv
<1>1. LeasesExact
  BY DEF HttpInv, LeasesExact, Holders
<1>2. TerminalOnce
  <2> SUFFICES ASSUME NEW h \in HttpReqs, HttpKind[h] = "stream", status[h] = "200"
               PROVE  /\ Last(frames[h]) = "done"
                      /\ \A i \in 1..Len(frames[h]) - 1 : frames[h][i] # "done"
    BY DEF TerminalOnce
  <2>1. at[h] = "over" => FramesClosed(frames[h])
    BY <1>0 DEF Framed
  <2>2. at[h] = "over"
    BY <1>0 DEF Framed
  <2> QED BY <2>1, <2>2 DEF FramesClosed
<1>3. HttpQuiet
  <2> SUFFICES ASSUME NEW h \in HttpReqs
               PROVE  IF at[h] = "over" THEN acquire[h] # "pending" /\ work[h] # "running"
                                        ELSE Proceeds(h)
    BY DEF HttpQuiet
  <2>1. at[h] \in {"new", "acquiring", "working", "answered", "streaming", "cancelling", "over"}
    BY <1>0 DEF HttpTyped
  <2> QED BY <1>0, <2>1 DEF Handled, Proceeds
<1> QED BY <1>1, <1>2, <1>3 DEF HttpServed

\* The HTTP layer, without a preparation of /v1/messages that raises and without a stream whose
\* body is never begun.
THEOREM HttpServes ==
  ASSUME "messages" \notin PrepareFails, "unstarted" \notin HttpFaults
  PROVE  HttpSpec => []HttpServed
<1>1. HttpInit => HttpInv
  BY HttpInvInit, HttpAssumption
<1>2. HttpInv /\ [HttpNext]_httpVars => HttpInv'
  BY HttpInvStep, HttpAssumption
<1>3. HttpInv => HttpServed
  BY HttpInvServes
<1> QED BY <1>1, <1>2, <1>3, PTL DEF HttpSpec

--------------------------------------------------------------------------------
(* MllmServing: uids, the queue, the batch and what a consumer is told.      *)

\* The beginning of a sequence, of any length that is asked for.
LEMMA FirstOfPlaces ==
  ASSUME NEW T, NEW s \in Seq(T), NEW n \in Int
  PROVE  /\ Len(FirstOf(s, n)) \in 0..Len(s) /\ FirstOf(s, n) = SubSeq(s, 1, Len(FirstOf(s, n)))
         /\ FirstOf(s, n) \in Seq(T)
         /\ Len(s) <= n => Len(FirstOf(s, n)) = Len(s)
BY DEF FirstOf

\* A sequence without repeats is cut in two: every element is in one of the parts.
LEMMA CutAt ==
  ASSUME NEW T, NEW s \in Seq(T), IsInjective(s), NEW k \in 0..Len(s),
         NEW a \in Seq(T), NEW b \in Seq(T), Len(a) = k, Len(b) = Len(s) - k,
         \A i \in 1..k : a[i] = s[i], \A i \in 1..(Len(s) - k) : b[i] = s[k + i]
  PROVE  /\ IsInjective(a) /\ IsInjective(b)
         /\ ToSet(a) \cup ToSet(b) = ToSet(s) /\ ToSet(a) \cap ToSet(b) = {}
<1>1. Len(s) \in Nat /\ DOMAIN a = 1..k /\ DOMAIN b = 1..(Len(s) - k) /\ DOMAIN s = 1..Len(s)
  OBVIOUS
<1>2. \A i, j \in 1..Len(s) : s[i] = s[j] => i = j
  BY <1>1 DEF IsInjective
<1>3. IsInjective(a)
  BY <1>1, <1>2 DEF IsInjective
<1>4. IsInjective(b)
  BY <1>1, <1>2, SMTT(30) DEF IsInjective
<1>5. ASSUME NEW i \in 1..Len(s) PROVE s[i] \in ToSet(a) \cup ToSet(b)
  <2>1. CASE i <= k
    <3>1. i \in 1..k
      BY <1>1, <2>1
    <3>2. i \in DOMAIN a /\ a[i] = s[i]
      BY <1>1, <3>1
    <3> QED BY <3>2 DEF ToSet
  <2>2. CASE i > k
    <3>1. PICK j \in 1..(Len(s) - k) : i = k + j
      <4>1. i - k \in 1..(Len(s) - k) /\ i = k + (i - k)
        BY <1>1, <2>2
      <4> QED BY <4>1
    <3>2. j \in DOMAIN b /\ b[j] = s[i]
      BY <1>1, <3>1
    <3> QED BY <3>2 DEF ToSet
  <2> QED BY <1>1, <2>1, <2>2
<1>6. ToSet(a) \subseteq ToSet(s) /\ ToSet(b) \subseteq ToSet(s)
  <2>1. \A i \in 1..k : i \in 1..Len(s)
    BY <1>1
  <2>2. \A i \in 1..(Len(s) - k) : k + i \in 1..Len(s)
    BY <1>1
  <2>3. \A i \in DOMAIN a : a[i] = s[i] /\ i \in DOMAIN s
    BY <1>1, <2>1
  <2>4. \A i \in DOMAIN b : b[i] = s[k + i] /\ k + i \in DOMAIN s
    BY <1>1, <2>2
  <2>5. ToSet(a) \subseteq ToSet(s)
    BY <2>3 DEF ToSet
  <2>6. ToSet(b) \subseteq ToSet(s)
    <3> SUFFICES ASSUME NEW x \in ToSet(b) PROVE x \in ToSet(s)
      OBVIOUS
    <3>1. PICK i \in DOMAIN b : x = b[i]
      BY DEF ToSet
    <3>2. x = s[k + i] /\ k + i \in DOMAIN s
      BY <2>4, <3>1
    <3> QED BY <3>2 DEF ToSet
  <2> QED BY <2>5, <2>6
<1>7. ASSUME NEW i \in 1..k, NEW j \in 1..(Len(s) - k) PROVE a[i] # b[j]
  <2>1. i \in 1..Len(s) /\ k + j \in 1..Len(s) /\ i # k + j
    BY <1>1
  <2>2. s[i] # s[k + j]
    BY <1>2, <2>1
  <2> QED BY <1>1, <2>2
<1>8. ToSet(a) \cap ToSet(b) = {}
  BY <1>1, <1>7 DEF ToSet
<1>9. ToSet(s) \subseteq ToSet(a) \cup ToSet(b)
  BY <1>1, <1>5 DEF ToSet
<1> QED BY <1>1, <1>3, <1>4, <1>6, <1>8, <1>9

\* The same of its two parts.
LEMMA CutInTwo ==
  ASSUME NEW T, NEW s \in Seq(T), IsInjective(s), NEW k \in 0..Len(s)
  PROVE  LET a == SubSeq(s, 1, k)
             b == SubSeq(s, k + 1, Len(s))
         IN /\ a \in Seq(T) /\ b \in Seq(T) /\ IsInjective(a) /\ IsInjective(b)
            /\ ToSet(a) \cup ToSet(b) = ToSet(s) /\ ToSet(a) \cap ToSet(b) = {}
<1> DEFINE a == SubSeq(s, 1, k)
           b == SubSeq(s, k + 1, Len(s))
<1>1. /\ a \in Seq(T) /\ b \in Seq(T) /\ Len(a) = k /\ Len(b) = Len(s) - k
      /\ \A i \in 1..k : a[i] = s[i]
      /\ \A i \in 1..(Len(s) - k) : b[i] = s[k + i]
  OBVIOUS
<1> HIDE DEF a, b
<1>2. /\ IsInjective(a) /\ IsInjective(b)
      /\ ToSet(a) \cup ToSet(b) = ToSet(s) /\ ToSet(a) \cap ToSet(b) = {}
  BY <1>1, CutAt, SMTT(30)
<1> QED BY <1>1, <1>2 DEF a, b

\* A sequence whose elements are each taken to another one.
LEMMA MappedQueue ==
  ASSUME NEW T, NEW U, NEW s \in Seq(T), NEW m \in [T -> U], NEW t,
         t = [i \in DOMAIN s |-> m[s[i]]]
  PROVE  /\ t \in Seq(U) /\ Len(t) = Len(s)
         /\ ToSet(t) = {m[e] : e \in ToSet(s)}
         /\ IsInjective(s) /\ (\A e, f \in ToSet(s) : m[e] = m[f] => e = f) => IsInjective(t)
<1>1. /\ DOMAIN s = 1..Len(s) /\ Len(s) \in Nat /\ \A i \in 1..Len(s) : s[i] \in T
  OBVIOUS
<1>2. t \in Seq(U) /\ Len(t) = Len(s) /\ DOMAIN t = DOMAIN s
  BY <1>1
<1>3. ToSet(t) = {m[e] : e \in ToSet(s)}
  BY <1>1, <1>2 DEF ToSet
<1>4. ASSUME IsInjective(s), \A e, f \in ToSet(s) : m[e] = m[f] => e = f PROVE IsInjective(t)
  BY <1>1, <1>2, <1>4 DEF IsInjective, ToSet
<1> QED BY <1>2, <1>3, <1>4

\* A sequence without repeats of at most one element.
LEMMA OneAtMost ==
  ASSUME NEW T, NEW s \in Seq(T), IsInjective(s), NEW x, ToSet(s) \subseteq {x}
  PROVE  s = IF x \in ToSet(s) THEN <<x>> ELSE <<>>
<1>1. /\ DOMAIN s = 1..Len(s) /\ Len(s) \in Nat
      /\ \A i, j \in 1..Len(s) : s[i] = s[j] => i = j
      /\ \A i \in 1..Len(s) : s[i] = x
  BY DEF IsInjective, ToSet
<1>2. Len(s) <= 1
  <2> SUFFICES ASSUME Len(s) > 1 PROVE FALSE
    BY <1>1
  <2>1. 1 \in 1..Len(s) /\ 2 \in 1..Len(s)
    BY <1>1
  <2> QED BY <1>1, <2>1
<1>3. CASE Len(s) = 1
  <2>1. s[1] = x /\ x \in ToSet(s)
    BY <1>1, <1>3 DEF ToSet
  <2>2. s = <<x>>
    BY <1>3, <2>1
  <2> QED BY <2>1, <2>2
<1>4. CASE Len(s) = 0
  BY <1>1, <1>4 DEF ToSet
<1> QED BY <1>1, <1>2, <1>3, <1>4

\* No two of them have the same uid.
OneUid(entries) == \A e, f \in entries : e.uid = f.uid => e = f
OtherUids(entries, others) == \A e \in entries, f \in others : e.uid # f.uid

\* How often a uid is in a queue in which it is once.
LEMMA CountedOnce ==
  ASSUME NEW T, NEW s \in Seq(T), IsInjective(s), OneUid(ToSet(s)), NEW u
  PROVE  Cardinality({i \in DOMAIN s : s[i].uid = u})
           = IF \E e \in ToSet(s) : e.uid = u THEN 1 ELSE 0
<1>1. CASE \E e \in ToSet(s) : e.uid = u
  <2>1. PICK k \in DOMAIN s : s[k].uid = u
    BY <1>1 DEF ToSet
  <2>2. ASSUME NEW i \in DOMAIN s, s[i].uid = u PROVE i = k
    <3>1. s[i] = s[k]
      BY <2>1, <2>2 DEF OneUid, ToSet
    <3> QED BY <3>1 DEF IsInjective
  <2>3. {i \in DOMAIN s : s[i].uid = u} = {k}
    BY <2>1, <2>2
  <2> QED BY <1>1, <2>3, FS_Singleton
<1>2. CASE ~ \E e \in ToSet(s) : e.uid = u
  <2>1. {i \in DOMAIN s : s[i].uid = u} = {}
    BY <1>2 DEF ToSet
  <2> QED BY <1>2, <2>1, FS_EmptySet
<1> QED BY <1>1, <1>2

Entry == [uid : Nat, r : MllmReqs, ready : BOOLEAN]
Row == [uid : Nat, r : MllmReqs, n : Nat]
Response == [uid : Nat, r : MllmReqs, out : {"token", "last"}]

\* What a filter by uid or by request leaves.
LEMMA Filtered ==
  ASSUME NEW T, NEW s \in Seq(T), NEW X
  PROVE  /\ OfUids(s, X) \in Seq(T) /\ NotOfUids(s, X) \in Seq(T) /\ OfReqs(s, X) \in Seq(T)
         /\ ToSet(OfUids(s, X)) = {e \in ToSet(s) : e.uid \in X}
         /\ ToSet(NotOfUids(s, X)) = {e \in ToSet(s) : e.uid \notin X}
         /\ ToSet(OfReqs(s, X)) = {e \in ToSet(s) : e.r \in X}
         /\ IsInjective(s) => /\ IsInjective(OfUids(s, X)) /\ IsInjective(NotOfUids(s, X))
                              /\ IsInjective(OfReqs(s, X))
<1> DEFINE A == {e \in ToSet(s) : e.uid \in X}
           B == {e \in ToSet(s) : e.uid \notin X}
           C == {e \in ToSet(s) : e.r \in X}
<1>1. A \subseteq ToSet(s) /\ B \subseteq ToSet(s) /\ C \subseteq ToSet(s)
  OBVIOUS
<1>2. OfUids(s, X) = Selected(s, A) /\ NotOfUids(s, X) = Selected(s, B)
      /\ OfReqs(s, X) = Selected(s, C)
  BY DEF OfUids, NotOfUids, OfReqs
<1>3. /\ OfUids(s, X) \in Seq(T) /\ NotOfUids(s, X) \in Seq(T) /\ OfReqs(s, X) \in Seq(T)
      /\ ToSet(OfUids(s, X)) = A /\ ToSet(NotOfUids(s, X)) = B /\ ToSet(OfReqs(s, X)) = C
      /\ IsInjective(s) => /\ IsInjective(OfUids(s, X)) /\ IsInjective(NotOfUids(s, X))
                           /\ IsInjective(OfReqs(s, X))
  <2> HIDE DEF A, B, C
  <2>1. /\ Selected(s, A) \in Seq(T) /\ ToSet(Selected(s, A)) = ToSet(s) \cap A
        /\ IsInjective(s) => IsInjective(Selected(s, A))
    BY SelectedQueue
  <2>2. /\ Selected(s, B) \in Seq(T) /\ ToSet(Selected(s, B)) = ToSet(s) \cap B
        /\ IsInjective(s) => IsInjective(Selected(s, B))
    BY SelectedQueue
  <2>3. /\ Selected(s, C) \in Seq(T) /\ ToSet(Selected(s, C)) = ToSet(s) \cap C
        /\ IsInjective(s) => IsInjective(Selected(s, C))
    BY SelectedQueue
  <2> QED BY <1>1, <1>2, <2>1, <2>2, <2>3
<1> QED BY <1>3

\* Whose response e is.
ResponseOf(e, uidNow, runningNow, r) == e.uid = uidNow[r] /\ e.r = r /\ r \in runningNow

\* What the delivery of responses is for one request: it has at most one of them.
LEMMA Delivered ==
  ASSUME outQueue \in [MllmReqs -> Seq({"token", "last", "end"})],
         NEW uidNow \in [MllmReqs -> Nat], NEW runningNow \in SUBSET MllmReqs,
         NEW answers \in Seq(Response), IsInjective(answers), OneUid(ToSet(answers)),
         Deliver(uidNow, runningNow, answers), NEW r \in MllmReqs
  PROVE  /\ \A e \in ToSet(answers) : ResponseOf(e, uidNow, runningNow, r) =>
              /\ outQueue'[r] = IF reader[r] = "reading"
                                THEN outQueue[r] \o (IF e.out = "last" THEN <<"last", "end">>
                                                                       ELSE <<"token">>)
                                ELSE outQueue[r]
              /\ r \in mRunning' <=> e.out = "token"
              /\ uidOf'[r] = IF e.out = "token" THEN uidNow[r] ELSE 0
         /\ (\A e \in ToSet(answers) : ~ResponseOf(e, uidNow, runningNow, r)) =>
              /\ outQueue'[r] = outQueue[r] /\ (r \in mRunning' <=> r \in runningNow)
              /\ uidOf'[r] = uidNow[r]
<1> DEFINE K == {e \in ToSet(answers) : uidNow[e.r] = e.uid /\ e.r \in runningNow}
           known == Selected(answers, K)
           lasts == {e.r : e \in {k \in ToSet(known) : k.out = "last"}}
           mine == OfReqs(known, {r})
           outs == [i \in DOMAIN mine |-> mine[i].out]
<1>1. /\ outQueue'[r] = IF reader[r] = "reading"
                        THEN outQueue[r] \o outs \o (IF r \in lasts THEN <<"end">> ELSE <<>>)
                        ELSE outQueue[r]
      /\ mRunning' = runningNow \ lasts
      /\ uidOf'[r] = IF r \in lasts THEN 0 ELSE uidNow[r]
  BY DEF Deliver
<1>2. known \in Seq(Response) /\ ToSet(known) = K /\ IsInjective(known)
  <2>1. K \subseteq ToSet(answers)
    OBVIOUS
  <2> HIDE DEF K
  <2>2. /\ known \in Seq(Response) /\ ToSet(known) = ToSet(answers) \cap K
        /\ IsInjective(known)
    BY SelectedQueue
  <2> QED BY <2>1, <2>2
<1>3. /\ mine \in Seq(Response) /\ IsInjective(mine)
      /\ ToSet(mine) = {e \in K : e.r = r}
  <2> HIDE DEF known, K
  <2> QED BY <1>2, Filtered
<1>4. \A e \in ToSet(answers) : e \in K /\ e.r = r <=> ResponseOf(e, uidNow, runningNow, r)
  BY DEF ResponseOf
<1>5. outQueue[r] \in Seq({"token", "last", "end"})
  OBVIOUS
<1>6. r \in lasts <=> \E e \in ToSet(mine) : e.out = "last"
  BY <1>2, <1>3
<1>7. ToSet(mine) \subseteq ToSet(answers)
  BY <1>3
<1>8. \A e \in ToSet(mine) : ResponseOf(e, uidNow, runningNow, r)
  BY <1>3, <1>4
<1>9. \A e \in ToSet(answers) : ResponseOf(e, uidNow, runningNow, r) => e \in ToSet(mine)
  BY <1>3, <1>4
<1> HIDE DEF lasts, mine, known, K
<1>10. ASSUME NEW e \in ToSet(answers), ResponseOf(e, uidNow, runningNow, r)
       PROVE  /\ outQueue'[r] = IF reader[r] = "reading"
                                THEN outQueue[r] \o (IF e.out = "last" THEN <<"last", "end">>
                                                                       ELSE <<"token">>)
                                ELSE outQueue[r]
              /\ r \in mRunning' <=> e.out = "token"
              /\ uidOf'[r] = IF e.out = "token" THEN uidNow[r] ELSE 0
  <2>1. e \in ToSet(mine) /\ r \in runningNow
    BY <1>9, <1>10 DEF ResponseOf
  <2>2. ToSet(mine) \subseteq {e}
    BY <1>7, <1>8, <1>10 DEF ResponseOf, OneUid
  <2>3. mine = <<e>>
    BY <1>3, <2>1, <2>2, OneAtMost
  <2>4. e.out \in {"token", "last"}
    <3>1. \A x \in ToSet(answers) : x \in Response
      BY DEF ToSet
    <3> QED BY <3>1 DEF Response
  <2>5. outs = <<e.out>>
    BY <2>3
  <2>6. r \in lasts <=> e.out = "last"
    BY <1>6, <2>1, <2>2
  <2>7. CASE e.out = "last"
    <3>1. \A s \in Seq({"token", "last", "end"}) :
            s \o <<"last">> \o <<"end">> = s \o <<"last", "end">>
      OBVIOUS
    <3> QED BY <1>1, <1>5, <2>5, <2>6, <2>7, <3>1
  <2>8. CASE e.out = "token"
    <3>1. \A s \in Seq({"token", "last", "end"}) : s \o <<"token">> \o <<>> = s \o <<"token">>
      OBVIOUS
    <3> QED BY <1>1, <1>5, <2>1, <2>5, <2>6, <2>8, <3>1
  <2> QED BY <2>4, <2>7, <2>8
<1>11. ASSUME \A e \in ToSet(answers) : ~ResponseOf(e, uidNow, runningNow, r)
       PROVE  /\ outQueue'[r] = outQueue[r] /\ (r \in mRunning' <=> r \in runningNow)
              /\ uidOf'[r] = uidNow[r]
  <2>1. ToSet(mine) = {}
    BY <1>7, <1>8, <1>11
  <2>2. mine = <<>>
    BY <1>3, <2>1, OneAtMost
  <2>3. outs = <<>> /\ r \notin lasts
    BY <1>6, <2>1, <2>2
  <2>4. \A s \in Seq({"token", "last", "end"}) : s \o <<>> \o <<>> = s
    OBVIOUS
  <2> QED BY <1>1, <1>5, <2>3, <2>4
<1> QED BY <1>10, <1>11

\* What delivery is for a request that has a response, and for one that has none.
Told(uidNow, r, out) ==
  /\ outQueue'[r] = IF reader[r] = "reading"
                    THEN outQueue[r] \o (IF out = "last" THEN <<"last", "end">> ELSE <<"token">>)
                    ELSE outQueue[r]
  /\ r \in mRunning' <=> out = "token"
  /\ uidOf'[r] = IF out = "token" THEN uidNow[r] ELSE 0
Untold(uidNow, runningNow, r) ==
  outQueue'[r] = outQueue[r] /\ (r \in mRunning' <=> r \in runningNow) /\ uidOf'[r] = uidNow[r]
Delivery(uidNow, runningNow, answers) ==
  /\ outQueue \in [MllmReqs -> Seq({"token", "last", "end"})]
  /\ uidNow \in [MllmReqs -> Nat] /\ runningNow \in SUBSET MllmReqs
  /\ answers \in Seq(Response) /\ IsInjective(answers) /\ OneUid(ToSet(answers))
  /\ Deliver(uidNow, runningNow, answers)

\* A request that has a response is told of that one.
LEMMA DeliveredTo ==
  ASSUME NEW uidNow, NEW runningNow, NEW answers, NEW r, r \in MllmReqs,
         Delivery(uidNow, runningNow, answers),
         NEW x, x \in ToSet(answers), ResponseOf(x, uidNow, runningNow, r)
  PROVE  Told(uidNow, r, x.out)
BY Delivered DEF Told, Delivery

\* A request that has none is told nothing.
LEMMA DeliveredNone ==
  ASSUME NEW uidNow, NEW runningNow, NEW answers, NEW r, r \in MllmReqs,
         Delivery(uidNow, runningNow, answers),
         \A x \in ToSet(answers) : ~ResponseOf(x, uidNow, runningNow, r)
  PROVE  Untold(uidNow, runningNow, r)
<1>1. ASSUME NEW p \in MllmReqs, \A x \in ToSet(answers) : ~ResponseOf(x, uidNow, runningNow, p)
      PROVE  Untold(uidNow, runningNow, p)
  <2>1. (\A x \in ToSet(answers) : ~ResponseOf(x, uidNow, runningNow, p)) =>
          /\ outQueue'[p] = outQueue[p] /\ (p \in mRunning' <=> p \in runningNow)
          /\ uidOf'[p] = uidNow[p]
    BY Delivered, ZenonT(30) DEF Delivery
  <2> QED BY <1>1, <2>1 DEF Untold
<1> QED BY <1>1

\* Two queues one after the other.
LEMMA JoinedQueues ==
  ASSUME NEW T, NEW s \in Seq(T), NEW t \in Seq(T), IsInjective(s), IsInjective(t),
         ToSet(s) \cap ToSet(t) = {}
  PROVE  /\ s \o t \in Seq(T) /\ IsInjective(s \o t) /\ ToSet(s \o t) = ToSet(s) \cup ToSet(t)
BY PushLeft

\* The queue with the requests that were admitted: what it had, and an entry for each
\* of them with the uid it is given.
NewEntry(admitted, i) == [uid |-> nextUid + i - 1, r |-> admitted[i], ready |-> FALSE]
\* The queue after insert: whoever comes in has a uid that nobody has.
LEMMA QueueMade ==
  ASSUME MllmAssumption, nextUid \in Nat \ {0}, NEW old \in Seq(Entry), IsInjective(old),
         OneUid(ToSet(old)), \A e \in ToSet(old) : e.uid < nextUid,
         NEW admitted \in Seq(MllmReqs)
  PROVE  /\ Inserted(old, admitted) \in Seq(Entry) /\ IsInjective(Inserted(old, admitted))
         /\ ToSet(Inserted(old, admitted)) =
              ToSet(old) \cup {NewEntry(admitted, i) : i \in 1..Len(admitted)}
         /\ OneUid(ToSet(Inserted(old, admitted)))
         /\ \A e \in ToSet(Inserted(old, admitted)) : e.uid < nextUid + Len(admitted)
<1> DEFINE new == [i \in DOMAIN admitted |-> NewEntry(admitted, i)]
           all == old \o new
           text == MllmReqs \ WithImages
<1>0. DOMAIN admitted = 1..Len(admitted) /\ Len(admitted) \in Nat
      /\ \A i \in 1..Len(admitted) : admitted[i] \in MllmReqs
  OBVIOUS
<1>1. \A i \in 1..Len(admitted) : NewEntry(admitted, i) \in Entry
  <2> TAKE i \in 1..Len(admitted)
  <2>1. nextUid + i - 1 \in Nat
    BY <1>0
  <2> QED BY <1>0, <2>1 DEF NewEntry, Entry
<1>2. \A i \in 1..Len(admitted) :
         /\ NewEntry(admitted, i).uid = nextUid + i - 1 /\ NewEntry(admitted, i).r = admitted[i]
         /\ NewEntry(admitted, i).uid >= nextUid
         /\ NewEntry(admitted, i).uid < nextUid + Len(admitted)
  BY <1>0 DEF NewEntry
<1>3. \A i, j \in 1..Len(admitted) :
         NewEntry(admitted, i).uid = NewEntry(admitted, j).uid => i = j
  BY <1>0, <1>2, SMTT(30)
<1>4. new \in Seq(Entry) /\ Len(new) = Len(admitted) /\ DOMAIN new = 1..Len(admitted)
      /\ \A i \in 1..Len(admitted) : new[i] = NewEntry(admitted, i)
  BY <1>0, <1>1
<1> HIDE DEF new
<1>5. ToSet(new) = {NewEntry(admitted, i) : i \in 1..Len(admitted)}
  BY <1>4 DEF ToSet
<1>6. IsInjective(new)
  <2> SUFFICES ASSUME NEW i \in 1..Len(admitted), NEW j \in 1..Len(admitted), new[i] = new[j]
               PROVE  i = j
    BY <1>4 DEF IsInjective
  <2>1. NewEntry(admitted, i).uid = NewEntry(admitted, j).uid
    BY <1>4
  <2>2. nextUid + i - 1 = nextUid + j - 1
    BY <1>2, <2>1
  <2> QED BY <1>0, <2>2
<1>7. \A e \in ToSet(old) : e.uid \in Nat /\ e \in Entry
  <2>1. \A e \in ToSet(old) : e \in Entry
    BY DEF ToSet
  <2> QED BY <2>1 DEF Entry
<1>8. ToSet(old) \cap ToSet(new) = {}
  <2> SUFFICES ASSUME NEW e \in ToSet(old), NEW i \in 1..Len(admitted), e = NewEntry(admitted, i)
               PROVE  FALSE
    BY <1>5
  <2>1. e.uid < nextUid /\ e.uid >= nextUid /\ e.uid \in Nat
    BY <1>2, <1>7
  <2> QED BY <2>1
<1> HIDE DEF new
<1>9. all \in Seq(Entry) /\ IsInjective(all) /\ ToSet(all) = ToSet(old) \cup ToSet(new)
  BY <1>4, <1>6, <1>8, JoinedQueues
<1>10. Inserted(old, admitted) = OfReqs(all, text) \o OfReqs(all, WithImages)
  BY DEF Inserted, TextOnly, new, NewEntry
<1>11. \A e \in ToSet(all) : e.r \in MllmReqs
  <2>1. \A e \in ToSet(all) : e \in Entry
    BY <1>9 DEF ToSet
  <2> QED BY <2>1 DEF Entry
<1> HIDE DEF all
<1>12. /\ OfReqs(all, text) \in Seq(Entry) /\ OfReqs(all, WithImages) \in Seq(Entry)
       /\ ToSet(OfReqs(all, text)) = {e \in ToSet(all) : e.r \in text}
       /\ ToSet(OfReqs(all, WithImages)) = {e \in ToSet(all) : e.r \in WithImages}
       /\ IsInjective(OfReqs(all, text)) /\ IsInjective(OfReqs(all, WithImages))
  BY <1>9, Filtered
<1>13. ToSet(OfReqs(all, text)) \cap ToSet(OfReqs(all, WithImages)) = {}
  BY <1>12
<1>14. /\ Inserted(old, admitted) \in Seq(Entry) /\ IsInjective(Inserted(old, admitted))
       /\ ToSet(Inserted(old, admitted)) = ToSet(all)
  <2>1. ToSet(OfReqs(all, text)) \cup ToSet(OfReqs(all, WithImages)) = ToSet(all)
    BY <1>11, <1>12
  <2> DEFINE first == OfReqs(all, text)
             second == OfReqs(all, WithImages)
  <2>2. /\ first \in Seq(Entry) /\ second \in Seq(Entry) /\ IsInjective(first)
        /\ IsInjective(second) /\ ToSet(first) \cap ToSet(second) = {}
        /\ ToSet(first) \cup ToSet(second) = ToSet(all)
        /\ Inserted(old, admitted) = first \o second
    BY <1>10, <1>12, <1>13, <2>1
  <2> HIDE DEF first, second
  <2>3. /\ first \o second \in Seq(Entry) /\ IsInjective(first \o second)
        /\ ToSet(first \o second) = ToSet(first) \cup ToSet(second)
    BY <2>2, JoinedQueues
  <2> QED BY <2>2, <2>3
<1>15. \A e \in ToSet(all) : e.uid < nextUid + Len(admitted)
  <2>1. \A e \in ToSet(old) : e.uid < nextUid + Len(admitted)
    BY <1>0, <1>7
  <2>2. \A e \in ToSet(new) : e.uid < nextUid + Len(admitted)
    BY <1>2, <1>5
  <2> QED BY <1>9, <2>1, <2>2
<1>16. OneUid(ToSet(all))
  <2>1. \A e \in ToSet(old), f \in ToSet(new) : e.uid # f.uid
    BY <1>2, <1>5, <1>7
  <2>2. \A e, f \in ToSet(new) : e.uid = f.uid => e = f
    BY <1>3, <1>5
  <2> QED BY <1>9, <2>1, <2>2 DEF OneUid
<1> QED BY <1>5, <1>9, <1>14, <1>15, <1>16

\* What is taken to a prefill, and what is left of the queue after it.
LEMMA TakenParts ==
  ASSUME MllmAssumption, NEW queue \in Seq(Entry), IsInjective(queue), OneUid(ToSet(queue)),
         NEW batch \in Seq(Row), NEW bad, NEW raised \in BOOLEAN
  PROVE  LET taken == TakenFrom(queue, batch)
             after == QueueAfter(queue, batch, taken, bad, raised)
         IN /\ taken \in Seq(Entry) /\ IsInjective(taken) /\ ToSet(taken) \subseteq ToSet(queue)
            /\ after \in Seq(Entry) /\ IsInjective(after) /\ ToSet(after) \subseteq ToSet(queue)
            /\ ToSet(queue) \ ToSet(taken) \subseteq ToSet(after)
            /\ ~raised => ToSet(after) \cap ToSet(taken) = {}
<1> DEFINE taken == TakenFrom(queue, batch)
           consumed == IF raised THEN Preprocessed(taken, bad) ELSE taken
           after == QueueAfter(queue, batch, taken, bad, raised)
           text == TextOnly(queue)
           from == IF batch = <<>> THEN queue ELSE text
<1>0. BatchCap \in Int
  BY DEF MllmAssumption
<1>1. text \in Seq(Entry) /\ IsInjective(text) /\ ToSet(text) \subseteq ToSet(queue)
  BY Filtered DEF TextOnly
<1>2. from \in Seq(Entry) /\ IsInjective(from) /\ ToSet(from) \subseteq ToSet(queue)
  BY <1>1
<1>3. taken = FirstOf(from, BatchCap)
  BY DEF TakenFrom
<1> HIDE DEF from, text
<1>4. /\ Len(taken) \in 0..Len(from) /\ taken = SubSeq(from, 1, Len(taken))
      /\ taken \in Seq(Entry)
  BY <1>0, <1>2, <1>3, FirstOfPlaces
<1>5. IsInjective(taken) /\ ToSet(taken) \subseteq ToSet(from)
  <2>1. PICK k \in 0..Len(from) : taken = SubSeq(from, 1, k)
    BY <1>4
  <2>2. /\ IsInjective(SubSeq(from, 1, k))
        /\ ToSet(SubSeq(from, 1, k)) \subseteq ToSet(from)
    BY <1>2, CutInTwo
  <2> QED BY <2>1, <2>2
<1> HIDE DEF taken
<1>6. /\ consumed \in Seq(Entry) /\ ToSet(consumed) \subseteq ToSet(taken)
      /\ ~raised => consumed = taken
  BY <1>4, Filtered DEF Preprocessed
<1>7. Len(consumed) \in 0..Len(taken)
  <2>1. CASE raised
    <3>1. Len(Selected(taken, {e \in ToSet(taken) : e.uid \notin bad})) <= Len(taken)
      <4> DEFINE X == {e \in ToSet(taken) : e.uid \notin bad}
      <4> HIDE DEF X
      <4>1. Len(Selected(taken, X)) <= Len(taken)
        BY <1>4, SelectedQueue
      <4> QED BY <4>1 DEF X
    <3>2. consumed = Selected(taken, {e \in ToSet(taken) : e.uid \notin bad})
      BY <2>1 DEF Preprocessed, NotOfUids
    <3>3. Len(consumed) \in Nat /\ Len(taken) \in Nat
      BY <1>4, <1>6
    <3> QED BY <3>1, <3>2, <3>3
  <2>2. CASE ~raised
    <3>1. consumed = taken /\ Len(taken) \in Nat
      BY <1>4, <1>6, <2>2
    <3> QED BY <3>1
  <2> QED BY <2>1, <2>2
<1>8. after = IF batch = <<>> THEN SubSeq(queue, Len(consumed) + 1, Len(queue))
                              ELSE NotOfUids(queue, Uids(consumed))
  BY DEF QueueAfter
<1> HIDE DEF consumed, after
<1>9. CASE batch = <<>>
  <2>1. from = queue
    BY <1>9 DEF from
  <2>2. Len(consumed) \in 0..Len(queue) /\ Len(taken) \in 0..Len(queue) /\ Len(queue) \in Nat
    BY <1>4, <1>7, <2>1
  <2> DEFINE front == SubSeq(queue, 1, Len(consumed))
             back == SubSeq(queue, Len(consumed) + 1, Len(queue))
  <2>3. /\ front \in Seq(Entry) /\ back \in Seq(Entry) /\ IsInjective(back)
        /\ ToSet(front) \cup ToSet(back) = ToSet(queue) /\ ToSet(front) \cap ToSet(back) = {}
    BY <2>2, CutInTwo
  <2>4. ToSet(front) \subseteq ToSet(taken)
    <3>1. \A i \in 1..Len(consumed) : i \in 1..Len(taken) /\ queue[i] = taken[i]
      BY <1>4, <1>7, <2>1
    <3>2. DOMAIN front = 1..Len(consumed) /\ \A i \in 1..Len(consumed) : front[i] = queue[i]
      BY <2>2
    <3>3. DOMAIN taken = 1..Len(taken)
      BY <1>4
    <3> QED BY <3>1, <3>2, <3>3 DEF ToSet
  <2>5. ~raised => front = taken
    BY <1>4, <1>6, <2>1
  <2>6. after = back
    BY <1>8, <1>9
  <2> HIDE DEF front, back
  <2> QED BY <1>2, <1>4, <1>5, <2>3, <2>4, <2>5, <2>6 DEF after, taken
<1>10. CASE batch # <<>>
  <2>1. after = NotOfUids(queue, Uids(consumed))
    BY <1>8, <1>10
  <2>2. /\ after \in Seq(Entry) /\ IsInjective(after)
        /\ ToSet(after) = {e \in ToSet(queue) : e.uid \notin Uids(consumed)}
    BY <2>1, Filtered
  <2>3. \A e \in ToSet(queue) : e.uid \in Uids(consumed) => e \in ToSet(taken)
    BY <1>2, <1>5, <1>6 DEF Uids, OneUid
  <2>4. \A e \in ToSet(consumed) : e.uid \in Uids(consumed)
    BY DEF Uids
  <2> QED BY <1>2, <1>4, <1>5, <1>6, <2>2, <2>3, <2>4 DEF after, taken
<1> QED BY <1>9, <1>10

\* The entries of a sequence of entries, rows or responses have their types.
LEMMA ElementsTyped ==
  ASSUME NEW T, NEW s \in Seq(T)
  PROVE  \A e \in ToSet(s) : e \in T
BY DEF ToSet

\* Who is told the end without a token: everyone when the prefill raised, otherwise whose
\* preprocessing failed or who was aborted.
Lost(taken, bad, raised) ==
  {e \in ToSet(taken) : raised \/ e.uid \in bad \/ e.r \in abortedIds}
EndingOf(e) == [uid |-> e.uid, r |-> e.r, out |-> "last"]
\* The responses without a token are one for each entry that is lost.
LEMMA LostTold ==
  ASSUME NEW taken \in Seq(Entry), IsInjective(taken), OneUid(ToSet(taken)),
         NEW bad, NEW raised \in BOOLEAN
  PROVE  /\ NoTokens(taken, bad, raised) \in Seq(Response)
         /\ IsInjective(NoTokens(taken, bad, raised))
         /\ ToSet(NoTokens(taken, bad, raised)) = {EndingOf(e) : e \in Lost(taken, bad, raised)}
<1> DEFINE lost == IF raised THEN taken ELSE OfUids(taken, bad)
           kept == Preprocessed(taken, bad)
           dropped == OfReqs(kept, abortedIds)
           told == IF raised THEN lost ELSE lost \o dropped
<1>1. /\ lost \in Seq(Entry) /\ IsInjective(lost)
      /\ ToSet(lost) = {e \in ToSet(taken) : raised \/ e.uid \in bad}
  BY Filtered
<1>2. /\ kept \in Seq(Entry) /\ IsInjective(kept)
      /\ ToSet(kept) = {e \in ToSet(taken) : e.uid \notin bad}
  BY Filtered DEF Preprocessed
<1>3. /\ dropped \in Seq(Entry) /\ IsInjective(dropped)
      /\ ToSet(dropped) = {e \in ToSet(kept) : e.r \in abortedIds}
  <2> HIDE DEF kept
  <2> QED BY <1>2, Filtered
<1>4. NoTokens(taken, bad, raised) = Endings(told)
  BY DEF NoTokens
<1>5. /\ told \in Seq(Entry) /\ IsInjective(told) /\ ToSet(told) = Lost(taken, bad, raised)
  <2>1. CASE raised
    <3>1. told = lost /\ Lost(taken, bad, raised) = ToSet(lost)
      BY <1>1, <2>1 DEF Lost
    <3> HIDE DEF told, lost
    <3> QED BY <1>1, <3>1
  <2>2. CASE ~raised
    <3>1. told = lost \o dropped
      BY <2>2
    <3>2. /\ ToSet(lost) \cap ToSet(dropped) = {}
          /\ ToSet(lost) \cup ToSet(dropped) = Lost(taken, bad, raised)
      BY <1>1, <1>2, <1>3, <2>2 DEF Lost
    <3> HIDE DEF told, lost, dropped
    <3>3. /\ lost \o dropped \in Seq(Entry) /\ IsInjective(lost \o dropped)
          /\ ToSet(lost \o dropped) = ToSet(lost) \cup ToSet(dropped)
      BY <1>1, <1>3, <3>2, JoinedQueues
    <3> QED BY <3>1, <3>2, <3>3
  <2> QED BY <2>1, <2>2
<1> HIDE DEF told
<1> DEFINE m == [e \in Entry |-> EndingOf(e)]
<1>6. m \in [Entry -> Response] /\ \A e \in Entry : m[e] = EndingOf(e)
  BY DEF Entry, Response, EndingOf
<1>7. Endings(told) = [i \in DOMAIN told |-> m[told[i]]]
  <2>1. \A i \in DOMAIN told : m[told[i]] = EndingOf(told[i])
    BY <1>5
  <2> QED BY <2>1 DEF Endings, EndingOf
<1>8. \A e, f \in ToSet(told) : m[e] = m[f] => e = f
  <2>1. \A e \in ToSet(told) : e \in Entry /\ e \in ToSet(taken)
    BY <1>5, ElementsTyped DEF Lost
  <2>2. \A e, f \in ToSet(told) : m[e] = m[f] => e.uid = f.uid
    BY <1>6, <2>1 DEF EndingOf
  <2> QED BY <2>1, <2>2 DEF OneUid
<1> HIDE DEF m
<1>9. /\ Endings(told) \in Seq(Response) /\ IsInjective(Endings(told))
      /\ ToSet(Endings(told)) = {m[e] : e \in ToSet(told)}
  <2> DEFINE t == [i \in DOMAIN told |-> m[told[i]]]
  <2>0. t = [i \in DOMAIN told |-> m[told[i]]]
    OBVIOUS
  <2> HIDE DEF t
  <2>a. told \in Seq(Entry) /\ m \in [Entry -> Response]
    BY <1>5, <1>6
  <2>1. /\ t \in Seq(Response) /\ ToSet(t) = {m[e] : e \in ToSet(told)}
        /\ IsInjective(told) /\ (\A e, f \in ToSet(told) : m[e] = m[f] => e = f)
              => IsInjective(t)
    BY <2>0, <2>a, MappedQueue, SMTT(30)
  <2>2. IsInjective(t)
    BY <1>5, <1>8, <2>1
  <2> QED BY <1>7, <2>1, <2>2 DEF t
<1>10. {m[e] : e \in ToSet(told)} = {EndingOf(e) : e \in Lost(taken, bad, raised)}
  <2>1. \A e \in ToSet(told) : m[e] = EndingOf(e)
    BY <1>5, <1>6, ElementsTyped
  <2> QED BY <1>5, <2>1
<1> QED BY <1>4, <1>9, <1>10

\* Who joins the batch, and as what.
RowOfEntry(e) == [uid |-> e.uid, r |-> e.r, n |-> 0]
\* The batch after the prefill: the rows it had and one for each entry that is left.
LEMMA BatchJoined ==
  ASSUME NEW batch \in Seq(Row), IsInjective(batch), OneUid(ToSet(batch)),
         NEW entries \in Seq(Entry), IsInjective(entries), OneUid(ToSet(entries)),
         OtherUids(ToSet(entries), ToSet(batch))
  PROVE  /\ Joined(batch, entries) \in Seq(Row) /\ IsInjective(Joined(batch, entries))
         /\ ToSet(Joined(batch, entries)) =
              ToSet(batch) \cup {RowOfEntry(e) : e \in ToSet(entries)}
         /\ OneUid(ToSet(Joined(batch, entries)))
<1> DEFINE m == [e \in Entry |-> RowOfEntry(e)]
           new == [i \in DOMAIN entries |-> RowOfEntry(entries[i])]
<1>1. m \in [Entry -> Row] /\ \A e \in Entry : m[e] = RowOfEntry(e) /\ m[e].uid = e.uid
  BY DEF Entry, Row, RowOfEntry
<1>2. \A e \in ToSet(entries) : e \in Entry
  BY ElementsTyped
<1>3. new = [i \in DOMAIN entries |-> m[entries[i]]]
  BY <1>1
<1>4. \A e, f \in ToSet(entries) : m[e] = m[f] => e = f
  BY <1>1, <1>2 DEF OneUid
<1>5. Joined(batch, entries) = batch \o new
  BY DEF Joined, RowOfEntry
<1> HIDE DEF m, new
<1>6. new \in Seq(Row) /\ IsInjective(new) /\ ToSet(new) = {m[e] : e \in ToSet(entries)}
  BY <1>1, <1>3, <1>4, MappedQueue
<1>7. ToSet(new) = {RowOfEntry(e) : e \in ToSet(entries)}
  BY <1>1, <1>2, <1>6
<1>8. \A f \in ToSet(new) : \E e \in ToSet(entries) : f.uid = e.uid /\ f = m[e]
  BY <1>1, <1>2, <1>6
<1>9. \A f \in ToSet(new), g \in ToSet(batch) : f.uid # g.uid
  BY <1>8 DEF OtherUids
<1>10. ToSet(batch) \cap ToSet(new) = {}
  BY <1>9
<1>11. /\ batch \o new \in Seq(Row) /\ IsInjective(batch \o new)
       /\ ToSet(batch \o new) = ToSet(batch) \cup ToSet(new)
  BY <1>6, <1>10, JoinedQueues
<1>12. \A f, g \in ToSet(new) : f.uid = g.uid => f = g
  BY <1>8 DEF OneUid
<1>13. OneUid(ToSet(batch) \cup ToSet(new))
  BY <1>9, <1>12 DEF OneUid
<1> QED BY <1>5, <1>7, <1>11, <1>13

\* What a step says of a row, and the row after it.
OutOf(f, ended) == IF f.uid \in ended \/ f.n + 1 >= MllmTokens THEN "last" ELSE "token"
TokenOf(f, ended) == [uid |-> f.uid, r |-> f.r, out |-> OutOf(f, ended)]
RowAfter(f) == [uid |-> f.uid, r |-> f.r, n |-> f.n + 1]
\* Every row has one response.
LEMMA TokensTold ==
  ASSUME NEW full \in Seq(Row), IsInjective(full), OneUid(ToSet(full)), NEW ended
  PROVE  /\ Tokens(full, ended) \in Seq(Response) /\ IsInjective(Tokens(full, ended))
         /\ ToSet(Tokens(full, ended)) = {TokenOf(f, ended) : f \in ToSet(full)}
<1> DEFINE m == [f \in Row |-> TokenOf(f, ended)]
<1>1. m \in [Row -> Response] /\ \A f \in Row : m[f] = TokenOf(f, ended) /\ m[f].uid = f.uid
  BY DEF Row, Response, TokenOf, OutOf
<1>2. \A f \in ToSet(full) : f \in Row
  BY ElementsTyped
<1>3. Tokens(full, ended) = [i \in DOMAIN full |-> m[full[i]]]
  <2>1. \A i \in DOMAIN full : m[full[i]] = TokenOf(full[i], ended)
    BY <1>1
  <2> QED BY <2>1 DEF Tokens, TokenOf, OutOf
<1>4. \A e, f \in ToSet(full) : m[e] = m[f] => e = f
  BY <1>1, <1>2 DEF OneUid
<1> HIDE DEF m
<1>5. /\ Tokens(full, ended) \in Seq(Response) /\ IsInjective(Tokens(full, ended))
      /\ ToSet(Tokens(full, ended)) = {m[f] : f \in ToSet(full)}
  <2> DEFINE t == [i \in DOMAIN full |-> m[full[i]]]
  <2>0. t = [i \in DOMAIN full |-> m[full[i]]]
    OBVIOUS
  <2> HIDE DEF t
  <2>1. /\ t \in Seq(Response) /\ ToSet(t) = {m[f] : f \in ToSet(full)}
        /\ IsInjective(full) /\ (\A e, f \in ToSet(full) : m[e] = m[f] => e = f)
              => IsInjective(t)
    BY <2>0, <1>1, MappedQueue, SMTT(30)
  <2>2. IsInjective(t)
    BY <1>4, <2>1
  <2> QED BY <1>3, <2>1, <2>2 DEF t
<1> QED BY <1>1, <1>2, <1>5

\* The rows that go on are those that were given a token that is not their last.
LEMMA RowsAfter ==
  ASSUME MllmAssumption, NEW full \in Seq(Row), IsInjective(full), OneUid(ToSet(full)), NEW ended
  PROVE  /\ Unfinished(full, ended) \in Seq(Row) /\ IsInjective(Unfinished(full, ended))
         /\ ToSet(Unfinished(full, ended)) =
              {RowAfter(f) : f \in {g \in ToSet(full) : OutOf(g, ended) = "token"}}
<1> DEFINE m == [f \in Row |-> RowAfter(f)]
           counted == [i \in DOMAIN full |-> m[full[i]]]
           X == {e \in ToSet(counted) : e.uid \notin ended /\ e.n < MllmTokens}
<1>0. MllmTokens \in Nat
  BY DEF MllmAssumption
<1>1. m \in [Row -> Row] /\ \A f \in Row : m[f] = RowAfter(f) /\ m[f].uid = f.uid /\ m[f].n = f.n + 1
  BY DEF Row, RowAfter
<1>2. \A f \in ToSet(full) : f \in Row /\ f.n \in Nat
  <2>1. \A f \in ToSet(full) : f \in Row
    BY ElementsTyped
  <2> QED BY <2>1 DEF Row
<1>3. Counted(full) = counted
  <2>1. \A f \in Row : [f EXCEPT !.n = @ + 1] = RowAfter(f)
    BY SMTT(30) DEF Row, RowAfter
  <2>2. \A i \in DOMAIN full : full[i] \in Row
    OBVIOUS
  <2>3. \A i \in DOMAIN full : m[full[i]] = [full[i] EXCEPT !.n = @ + 1]
    BY <1>1, <2>1, <2>2
  <2> QED BY <2>3 DEF Counted
<1>4. \A e, f \in ToSet(full) : m[e] = m[f] => e = f
  BY <1>1, <1>2 DEF OneUid
<1>5. Unfinished(full, ended) = Selected(counted, X)
  BY <1>3 DEF Unfinished
<1> HIDE DEF m
<1>6. counted \in Seq(Row) /\ IsInjective(counted) /\ ToSet(counted) = {m[f] : f \in ToSet(full)}
  BY <1>1, <1>4, MappedQueue, SMTT(30)
<1> HIDE DEF counted
<1>7. X = {m[f] : f \in {g \in ToSet(full) : OutOf(g, ended) = "token"}}
  <2>1. \A f \in ToSet(full) : m[f] \in X <=> OutOf(f, ended) = "token"
    BY <1>0, <1>1, <1>2, <1>6 DEF OutOf
  <2> QED BY <1>6, <2>1
<1>8. X \subseteq ToSet(counted)
  OBVIOUS
<1> HIDE DEF X
<1>9. /\ Selected(counted, X) \in Seq(Row) /\ IsInjective(Selected(counted, X))
      /\ ToSet(Selected(counted, X)) = ToSet(counted) \cap X
  BY <1>6, SelectedQueue
<1>10. X = {RowAfter(f) : f \in {g \in ToSet(full) : OutOf(g, ended) = "token"}}
  BY <1>1, <1>2, <1>7
<1> QED BY <1>5, <1>8, <1>9, <1>10

Outputs == Seq({"token", "last", "end"})
Plain(q) == \A i \in 1..Len(q) : q[i] = "token"
Ended(q) == /\ Len(q) >= 2 /\ q[Len(q)] = "end" /\ q[Len(q) - 1] = "last"
            /\ \A i \in 1..(Len(q) - 2) : q[i] = "token"

MllmTyped ==
  /\ loopAt \in {"top", "early", "stopped"}
  /\ mWaiting \in Seq(MllmReqs) /\ IsInjective(mWaiting)
  /\ mRunning \in SUBSET MllmReqs /\ IsFiniteSet(mRunning)
  /\ uidOf \in [MllmReqs -> Nat] /\ nextUid \in Nat \ {0} /\ removals \in SUBSET Nat
  /\ reader \in [MllmReqs -> {"none", "reading", "finished", "left"}]
  /\ outQueue \in [MllmReqs -> Outputs]

\* A request that runs has a uid of its own; one that is served is read, and its outputs
\* have not ended; who reads what is no longer served finds the end.
Served(r) == r \in ToSet(mWaiting) \/ r \in mRunning
Filed(r) ==
  /\ r \in mRunning <=> uidOf[r] # 0
  /\ uidOf[r] < nextUid
  /\ \A q \in MllmReqs : uidOf[q] = uidOf[r] /\ uidOf[r] # 0 => q = r
  /\ r \in ToSet(mWaiting) => r \notin mRunning /\ outQueue[r] = <<>>
  /\ Served(r) => reader[r] = "reading" /\ Plain(outQueue[r])
  /\ reader[r] # "reading" => outQueue[r] = <<>>
  /\ reader[r] = "reading" /\ ~Served(r) => Ended(outQueue[r])
  /\ Len(outQueue[r]) <= MllmTokens + 1
AllFiled == \A r \in MllmReqs : Filed(r)

\* The work for a request that runs: its entry in the queue, before any output, or its row,
\* which counts its tokens.
HasEntry(r) == \E e \in ToSet(unprocessed) : e.uid = uidOf[r] /\ e.r = r /\ outQueue[r] = <<>>
HasRow(r) ==
  \E e \in ToSet(rows) : e.uid = uidOf[r] /\ e.r = r /\ Len(outQueue[r]) <= e.n
Worked ==
  /\ unprocessed \in Seq(Entry) /\ IsInjective(unprocessed) /\ OneUid(ToSet(unprocessed))
  /\ rows \in Seq(Row) /\ IsInjective(rows) /\ OneUid(ToSet(rows))
  /\ OtherUids(ToSet(unprocessed), ToSet(rows))
  /\ \A e \in ToSet(unprocessed) \cup ToSet(rows) : e.uid < nextUid
  /\ \A e \in ToSet(rows) : e.n < MllmTokens
  /\ \A r \in mRunning : uidOf[r] \notin removals /\ (HasEntry(r) \/ HasRow(r))

MllmInv == MllmTyped /\ AllFiled /\ (loopAt # "stopped" => Worked)

\* Nothing is served at the start.
LEMMA MllmInvInit == ASSUME MllmAssumption, MllmInit PROVE MllmInv
<1>1. \A T : <<>> \in Seq(T) /\ ToSet(<<>>) = {} /\ IsInjective(<<>>) /\ Len(<<>>) = 0
  BY DEF ToSet, IsInjective
<1>2. MllmTyped
  BY <1>1, FS_EmptySet DEF MllmInit, MllmTyped, Outputs
<1>3. AllFiled
  BY <1>1 DEF MllmInit, AllFiled, Filed, Served, MllmAssumption
<1>4. Worked
  BY <1>1 DEF MllmInit, Worked, OneUid, OtherUids
<1> QED BY <1>2, <1>3, <1>4 DEF MllmInv

\* A request is submitted.
LEMMA MllmAddStep ==
  ASSUME MllmAssumption, MllmInv, NEW r \in MllmReqs, MllmAdd(r)
  PROVE  MllmInv'
<1> USE DEF MllmInv
<1>1. /\ reader[r] = "none" /\ loopAt # "stopped"
      /\ mWaiting' = Append(mWaiting, r) /\ reader' = [reader EXCEPT ![r] = "reading"]
      /\ UNCHANGED <<loopAt, mRunning, uidOf, nextUid, unprocessed, rows, removals, outQueue>>
  BY DEF MllmAdd
<1>2. outQueue[r] = <<>> /\ ~Served(r) /\ uidOf[r] = 0
  BY <1>1 DEF AllFiled, Filed, Served, MllmTyped
<1>3. /\ mWaiting' \in Seq(MllmReqs) /\ IsInjective(mWaiting')
      /\ ToSet(mWaiting') = ToSet(mWaiting) \cup {r}
  BY <1>1, <1>2, AppendToQueue DEF MllmTyped, Served
<1>4. MllmTyped'
  BY <1>1, <1>3 DEF MllmTyped
<1>5. ASSUME NEW q \in MllmReqs PROVE Filed(q)'
  <2>1. Filed(q) /\ \A p \in MllmReqs : uidOf[p] = uidOf[q] /\ uidOf[q] # 0 => p = q
    BY DEF AllFiled, Filed
  <2>2. CASE q = r
    <3>1. Plain(<<>>)
      BY DEF Plain
    <3> QED BY <1>1, <1>2, <1>3, <2>1, <2>2, <3>1 DEF Filed, Served, MllmTyped
  <2>3. CASE q # r
    <3>1. reader'[q] = reader[q] /\ (q \in ToSet(mWaiting)' <=> q \in ToSet(mWaiting))
      BY <1>1, <1>3, <2>3 DEF MllmTyped
    <3> QED BY <1>1, <2>1, <3>1 DEF Filed, Served
  <2> QED BY <2>2, <2>3
<1>6. Worked'
  BY <1>1 DEF Worked, HasEntry, HasRow
<1> QED BY <1>4, <1>5, <1>6 DEF AllFiled

\* A consumer takes an output.
LEMMA MllmReadStep ==
  ASSUME MllmAssumption, MllmInv, NEW r \in MllmReqs, MllmRead(r)
  PROVE  MllmInv'
<1> USE DEF MllmInv
<1> DEFINE q == outQueue[r]
<1>1. /\ reader[r] = "reading" /\ q # <<>>
      /\ UNCHANGED <<loopAt, mWaiting, mRunning, uidOf, nextUid, unprocessed, rows, removals>>
  BY DEF MllmRead
<1>2. q \in Outputs /\ Filed(r) /\ MllmTokens \in Nat
  BY DEF MllmTyped, AllFiled, MllmAssumption
<1>3. CASE Head(q) = "token"
  <2>1. outQueue' = [outQueue EXCEPT ![r] = Tail(q)] /\ reader' = reader
    BY <1>3 DEF MllmRead
  <2>2. /\ Tail(q) \in Outputs /\ Len(Tail(q)) = Len(q) - 1 /\ Len(q) \in Nat /\ q[1] = "token"
        /\ Len(q) >= 1
        /\ \A i \in 1..(Len(q) - 1) : Tail(q)[i] = q[i + 1]
    BY <1>1, <1>2, <1>3 DEF Outputs
  <2>3. Plain(q) => Plain(Tail(q))
    BY <2>2 DEF Plain
  <2>4. Ended(q) => Ended(Tail(q))
    <3> SUFFICES ASSUME Ended(q) PROVE Ended(Tail(q))
      OBVIOUS
    <3> DEFINE t == Tail(q)
    <3>1. Len(q) >= 3
      BY <2>2 DEF Ended
    <3>2. Len(t) = Len(q) - 1 /\ \A i \in 1..(Len(q) - 1) : t[i] = q[i + 1]
      BY <2>2
    <3> HIDE DEF t, q
    <3>3. t[Len(t)] = "end" /\ t[Len(t) - 1] = "last"
      BY <2>2, <3>1, <3>2 DEF Ended
    <3>4. \A i \in 1..(Len(t) - 2) : t[i] = "token"
      BY <2>2, <3>1, <3>2 DEF Ended
    <3> QED BY <2>2, <3>1, <3>2, <3>3, <3>4 DEF Ended, t
  <2>5. MllmTyped'
    BY <1>1, <2>1, <2>2 DEF MllmTyped
  <2>6. ASSUME NEW p \in MllmReqs PROVE Filed(p)'
    <3>1. Filed(p) /\ \A o \in MllmReqs : uidOf[o] = uidOf[p] /\ uidOf[p] # 0 => o = p
      BY DEF AllFiled, Filed
    <3>2. CASE p = r
      <4>1. outQueue'[p] = Tail(q) /\ r \notin ToSet(mWaiting)
        BY <1>1, <1>2, <2>1, <3>2 DEF MllmTyped, Filed
      <4> QED BY <1>1, <1>2, <2>1, <2>2, <2>3, <2>4, <3>1, <3>2, <4>1 DEF Filed, Served
    <3>3. CASE p # r
      <4>1. outQueue'[p] = outQueue[p]
        BY <2>1, <3>3 DEF MllmTyped
      <4> QED BY <1>1, <2>1, <3>1, <4>1 DEF Filed, Served
    <3> QED BY <3>2, <3>3
  <2>7. ASSUME Worked PROVE Worked'
    <3>1. ASSUME NEW p \in mRunning PROVE HasEntry(p)' \/ HasRow(p)'
      <4>1. HasEntry(p) \/ HasRow(p)
        BY <2>7 DEF Worked
      <4>2. CASE p = r
        <5>1. outQueue'[p] = Tail(q) /\ ~HasEntry(p)
          BY <1>1, <2>1, <4>2 DEF MllmTyped, HasEntry
        <5>2. PICK e \in ToSet(rows) : e.uid = uidOf[r] /\ e.r = r /\ Len(q) <= e.n
          BY <4>1, <4>2, <5>1 DEF HasRow
        <5>3. e.n \in Nat
          <6>1. e \in Row
            BY <2>7, ElementsTyped DEF Worked
          <6> QED BY <6>1 DEF Row
        <5> QED BY <1>1, <2>1, <2>2, <4>2, <5>1, <5>2, <5>3 DEF HasRow
      <4>3. CASE p # r
        <5>1. outQueue'[p] = outQueue[p]
          BY <2>1, <4>3 DEF MllmTyped
        <5> QED BY <1>1, <4>1, <5>1 DEF HasEntry, HasRow
      <4> QED BY <4>2, <4>3
    <3> QED BY <1>1, <2>7, <3>1 DEF Worked
  <2> QED BY <1>1, <2>5, <2>6, <2>7 DEF AllFiled
<1>4. CASE Head(q) # "token"
  <2>1. outQueue' = [outQueue EXCEPT ![r] = <<>>] /\ reader' = [reader EXCEPT ![r] = "finished"]
    BY <1>4 DEF MllmRead
  <2>2. ~Served(r)
    <3>1. Len(q) >= 1 /\ q[1] # "token"
      BY <1>1, <1>2, <1>4 DEF Outputs
    <3> QED BY <1>2, <3>1 DEF Filed, Plain
  <2>3. MllmTyped'
    BY <1>1, <2>1 DEF MllmTyped, Outputs
  <2>4. ASSUME NEW p \in MllmReqs PROVE Filed(p)'
    <3>1. Filed(p) /\ \A o \in MllmReqs : uidOf[o] = uidOf[p] /\ uidOf[p] # 0 => o = p
      BY DEF AllFiled, Filed
    <3>2. CASE p = r
      <4>1. outQueue'[p] = <<>> /\ reader'[p] = "finished" /\ Len(<<>>) = 0
        BY <2>1, <3>2 DEF MllmTyped
      <4> QED BY <1>1, <1>2, <2>2, <3>1, <3>2, <4>1 DEF Filed, Served
    <3>3. CASE p # r
      <4>1. outQueue'[p] = outQueue[p] /\ reader'[p] = reader[p]
        BY <2>1, <3>3 DEF MllmTyped
      <4> QED BY <1>1, <3>1, <4>1 DEF Filed, Served
    <3> QED BY <3>2, <3>3
  <2>5. ASSUME Worked PROVE Worked'
    <3>1. \A p \in mRunning : outQueue'[p] = outQueue[p]
      BY <2>1, <2>2 DEF MllmTyped, Served
    <3> QED BY <1>1, <2>5, <3>1 DEF Worked, HasEntry, HasRow
  <2> QED BY <1>1, <2>3, <2>4, <2>5 DEF AllFiled
<1> QED BY <1>3, <1>4

\* A consumer leaves: its request is out of the queue, or out of what runs with its uid
\* among those to remove.
LEMMA MllmLeaveStep ==
  ASSUME MllmAssumption, MllmInv, NEW r \in MllmReqs, MllmLeave(r)
  PROVE  MllmInv'
<1> USE DEF MllmInv
<1>1. /\ reader[r] = "reading" /\ reader' = [reader EXCEPT ![r] = "left"]
      /\ outQueue' = [outQueue EXCEPT ![r] = <<>>]
      /\ UNCHANGED <<loopAt, nextUid, unprocessed, rows>>
  BY DEF MllmLeave
<1>2. Filed(r) /\ MllmTokens \in Nat /\ uidOf[r] \in Nat
  BY DEF MllmTyped, AllFiled, MllmAssumption
<1>3. CASE Served(r)
  <2>1. /\ mWaiting' = Selected(mWaiting, MllmReqs \ {r}) /\ mRunning' = mRunning \ {r}
        /\ removals' = removals \cup ({uidOf[r]} \ {0}) /\ uidOf' = [uidOf EXCEPT ![r] = 0]
    BY <1>3 DEF MllmLeave, Served
  <2>2. /\ mWaiting' \in Seq(MllmReqs) /\ IsInjective(mWaiting')
        /\ ToSet(mWaiting') = ToSet(mWaiting) \cap (MllmReqs \ {r})
    BY <2>1, SelectedQueue DEF MllmTyped
  <2>3. IsFiniteSet(mRunning')
    BY <2>1, FS_Subset DEF MllmTyped
  <2>4. MllmTyped'
    <3>1. removals' \in SUBSET Nat /\ uidOf' \in [MllmReqs -> Nat] /\ mRunning' \in SUBSET MllmReqs
      BY <1>2, <2>1 DEF MllmTyped
    <3>2. /\ outQueue' \in [MllmReqs -> Outputs]
          /\ reader' \in [MllmReqs -> {"none", "reading", "finished", "left"}]
      BY <1>1 DEF MllmTyped, Outputs
    <3> QED BY <1>1, <2>2, <2>3, <3>1, <3>2 DEF MllmTyped
  <2>5. \A p \in MllmReqs : p # r => /\ uidOf'[p] = uidOf[p] /\ outQueue'[p] = outQueue[p]
                                     /\ reader'[p] = reader[p]
    BY <1>1, <2>1 DEF MllmTyped
  <2>6. uidOf'[r] = 0 /\ outQueue'[r] = <<>> /\ reader'[r] = "left" /\ Len(<<>>) = 0
    BY <1>1, <2>1 DEF MllmTyped
  <2>7. ASSUME NEW p \in MllmReqs PROVE Filed(p)'
    <3>1. Filed(p) /\ \A o \in MllmReqs : uidOf[o] = uidOf[p] /\ uidOf[p] # 0 => o = p
      BY DEF AllFiled, Filed
    <3>2. CASE p = r
      <4>1. p \notin mRunning' /\ p \notin ToSet(mWaiting') /\ nextUid \in Nat \ {0}
        BY <2>1, <2>2, <3>2 DEF MllmTyped
      <4> QED BY <1>1, <1>2, <2>6, <3>2, <4>1 DEF Filed, Served
    <3>3. CASE p # r
      <4>1. /\ (p \in mRunning' <=> p \in mRunning)
            /\ (p \in ToSet(mWaiting') <=> p \in ToSet(mWaiting))
        BY <2>1, <2>2, <3>3
      <4>2. \A o \in MllmReqs : uidOf'[o] = uidOf'[p] /\ uidOf'[p] # 0 => o = p
        BY <2>5, <2>6, <3>1, <3>3
      <4> QED BY <1>1, <2>5, <3>1, <3>3, <4>1, <4>2 DEF Filed, Served
    <3> QED BY <3>2, <3>3
  <2>8. ASSUME Worked PROVE Worked'
    <3>1. ASSUME NEW p \in mRunning' PROVE uidOf'[p] \notin removals' /\ (HasEntry(p)' \/ HasRow(p)')
      <4>1. p \in mRunning /\ p # r /\ p \in MllmReqs
        BY <2>1 DEF MllmTyped
      <4>2. uidOf[p] # uidOf[r] /\ uidOf[p] \notin removals /\ (HasEntry(p) \/ HasRow(p))
        BY <2>8, <4>1 DEF Worked, AllFiled, Filed
      <4> QED BY <1>1, <2>1, <2>5, <4>1, <4>2 DEF HasEntry, HasRow
    <3> QED BY <1>1, <2>8, <3>1 DEF Worked
  <2> QED BY <1>1, <2>4, <2>7, <2>8 DEF AllFiled
<1>4. CASE ~Served(r)
  <2>1. UNCHANGED <<mWaiting, mRunning, removals, uidOf>>
    BY <1>4 DEF MllmLeave, Served
  <2>2. MllmTyped'
    BY <1>1, <2>1 DEF MllmTyped, Outputs
  <2>3. ASSUME NEW p \in MllmReqs PROVE Filed(p)'
    <3>1. Filed(p) /\ \A o \in MllmReqs : uidOf[o] = uidOf[p] /\ uidOf[p] # 0 => o = p
      BY DEF AllFiled, Filed
    <3>2. CASE p = r
      <4>1. outQueue'[p] = <<>> /\ reader'[p] = "left" /\ Len(<<>>) = 0
        BY <1>1, <3>2 DEF MllmTyped
      <4> QED BY <1>1, <1>2, <1>4, <2>1, <3>1, <3>2, <4>1 DEF Filed, Served
    <3>3. CASE p # r
      <4>1. outQueue'[p] = outQueue[p] /\ reader'[p] = reader[p]
        BY <1>1, <3>3 DEF MllmTyped
      <4> QED BY <1>1, <2>1, <3>1, <4>1 DEF Filed, Served
    <3> QED BY <3>2, <3>3
  <2>4. ASSUME Worked PROVE Worked'
    <3>1. \A p \in mRunning : outQueue'[p] = outQueue[p]
      BY <1>1, <1>4 DEF MllmTyped, Served
    <3> QED BY <1>1, <2>1, <2>4, <3>1 DEF Worked, HasEntry, HasRow
  <2> QED BY <1>1, <2>1, <2>2, <2>3, <2>4 DEF AllFiled
<1> QED BY <1>3, <1>4

\* What a step begins with: the requests it admits have uids of their own, and whatever
\* runs has its work in the queue or in the batch.
HasEntryIn(queue, r, uid) == \E e \in ToSet(queue) : e.uid = uid /\ e.r = r /\ outQueue[r] = <<>>
HasRowIn(batch, r, uid) ==
  \E e \in ToSet(batch) : e.uid = uid /\ e.r = r /\ Len(outQueue[r]) <= e.n
StepMade(admitted, batch, queue, uidNow, runningNow) ==
  /\ admitted \in Seq(MllmReqs) /\ batch \in Seq(Row) /\ queue \in Seq(Entry)
  /\ IsInjective(batch) /\ OneUid(ToSet(batch)) /\ IsInjective(queue) /\ OneUid(ToSet(queue))
  /\ OtherUids(ToSet(queue), ToSet(batch))
  /\ uidNow \in [MllmReqs -> Nat] /\ runningNow \in SUBSET MllmReqs /\ IsFiniteSet(runningNow)
  /\ \A e \in ToSet(queue) \cup ToSet(batch) : e.uid < nextUid + Len(admitted)
  /\ \A e \in ToSet(batch) : e.n < MllmTokens
  /\ mWaiting' \in Seq(MllmReqs) /\ IsInjective(mWaiting')
  /\ \A r \in MllmReqs :
       /\ Served(r) <=> r \in ToSet(mWaiting') \/ r \in runningNow
       /\ r \in ToSet(mWaiting') => r \notin runningNow /\ outQueue[r] = <<>>
       /\ r \in runningNow <=> uidNow[r] # 0
       /\ uidNow[r] < nextUid + Len(admitted)
       /\ \A q \in MllmReqs : uidNow[q] = uidNow[r] /\ uidNow[r] # 0 => q = r
       /\ r \in runningNow => HasEntryIn(queue, r, uidNow[r]) \/ HasRowIn(batch, r, uidNow[r])

\* What a step takes out, lets in and hands to the generator is a StepMade.
LEMMA StepBegins ==
  ASSUME MllmAssumption, MllmTyped, AllFiled, Worked,
         NEW admitted, NEW batch, NEW queue, NEW uidNow, NEW runningNow,
         admitted = FirstOf(mWaiting, MllmSeqs - Cardinality(mRunning)),
         batch = NotOfUids(rows, removals),
         queue = Inserted(NotOfUids(unprocessed, removals), admitted),
         uidNow = UidsGiven(admitted), runningNow = mRunning \cup ToSet(admitted),
         mWaiting' = SubSeq(mWaiting, Len(admitted) + 1, Len(mWaiting))
  PROVE  StepMade(admitted, batch, queue, uidNow, runningNow)
<1> DEFINE old == NotOfUids(unprocessed, removals)
<1>0. /\ nextUid \in Nat \ {0} /\ MllmSeqs \in Nat /\ Cardinality(mRunning) \in Nat
      /\ mWaiting \in Seq(MllmReqs) /\ IsInjective(mWaiting) /\ uidOf \in [MllmReqs -> Nat]
      /\ mRunning \in SUBSET MllmReqs
  BY FS_CardinalityType DEF MllmTyped, MllmAssumption
<1>1. /\ Len(admitted) \in 0..Len(mWaiting) /\ admitted \in Seq(MllmReqs)
      /\ admitted = SubSeq(mWaiting, 1, Len(admitted))
  BY <1>0, FirstOfPlaces
<1>2. /\ IsInjective(admitted) /\ mWaiting' \in Seq(MllmReqs) /\ IsInjective(mWaiting')
      /\ ToSet(admitted) \cup ToSet(mWaiting') = ToSet(mWaiting)
      /\ ToSet(admitted) \cap ToSet(mWaiting') = {}
  <2>1. PICK k \in 0..Len(mWaiting) : k = Len(admitted)
    BY <1>1
  <2>2. /\ SubSeq(mWaiting, k + 1, Len(mWaiting)) \in Seq(MllmReqs)
        /\ IsInjective(SubSeq(mWaiting, 1, k))
        /\ IsInjective(SubSeq(mWaiting, k + 1, Len(mWaiting)))
        /\ ToSet(SubSeq(mWaiting, 1, k)) \cup ToSet(SubSeq(mWaiting, k + 1, Len(mWaiting)))
             = ToSet(mWaiting)
        /\ ToSet(SubSeq(mWaiting, 1, k)) \cap ToSet(SubSeq(mWaiting, k + 1, Len(mWaiting))) = {}
    BY <1>0, CutInTwo
  <2>3. admitted = SubSeq(mWaiting, 1, k) /\ mWaiting' = SubSeq(mWaiting, k + 1, Len(mWaiting))
    BY <1>1, <2>1
  <2> QED BY <2>2, <2>3
<1>3. /\ batch \in Seq(Row) /\ IsInjective(batch)
      /\ ToSet(batch) = {e \in ToSet(rows) : e.uid \notin removals}
  BY Filtered DEF Worked
<1>4. /\ old \in Seq(Entry) /\ IsInjective(old)
      /\ ToSet(old) = {e \in ToSet(unprocessed) : e.uid \notin removals}
  BY Filtered DEF Worked
<1>5. OneUid(ToSet(batch)) /\ OneUid(ToSet(old)) /\ OtherUids(ToSet(old), ToSet(batch))
  BY <1>3, <1>4 DEF Worked, OneUid, OtherUids
<1>6. \A e \in ToSet(old) \cup ToSet(batch) : e.uid \in Nat /\ e.uid < nextUid
  <2>1. \A e \in ToSet(old) : e \in Entry /\ e \in ToSet(unprocessed)
    BY <1>4, ElementsTyped
  <2>2. \A e \in ToSet(batch) : e \in Row /\ e \in ToSet(rows)
    BY <1>3, ElementsTyped
  <2> QED BY <2>1, <2>2 DEF Worked, Entry, Row
<1>7. queue = Inserted(old, admitted)
  OBVIOUS
<1> HIDE DEF old
<1>8. /\ queue \in Seq(Entry) /\ IsInjective(queue) /\ OneUid(ToSet(queue))
      /\ ToSet(queue) = ToSet(old) \cup {NewEntry(admitted, i) : i \in 1..Len(admitted)}
      /\ \A e \in ToSet(queue) : e.uid < nextUid + Len(admitted)
  <2>1. \A e \in ToSet(old) : e.uid < nextUid
    BY <1>6
  <2> DEFINE q == Inserted(old, admitted)
  <2>2. /\ q \in Seq(Entry) /\ IsInjective(q) /\ OneUid(ToSet(q))
        /\ ToSet(q) = ToSet(old) \cup {NewEntry(admitted, i) : i \in 1..Len(admitted)}
        /\ \A e \in ToSet(q) : e.uid < nextUid + Len(admitted)
    BY <1>0, <1>1, <1>4, <1>5, <2>1, QueueMade
  <2> QED BY <1>7, <2>2
<1>9. \A i \in 1..Len(admitted) :
         /\ NewEntry(admitted, i).uid = nextUid + i - 1 /\ NewEntry(admitted, i).r = admitted[i]
         /\ NewEntry(admitted, i).uid >= nextUid
  BY <1>0, <1>1 DEF NewEntry
<1>10. OtherUids(ToSet(queue), ToSet(batch))
  <2> SUFFICES ASSUME NEW e \in ToSet(queue), NEW f \in ToSet(batch) PROVE e.uid # f.uid
    BY DEF OtherUids
  <2>1. CASE e \in ToSet(old)
    BY <1>5, <2>1 DEF OtherUids
  <2>2. CASE e \notin ToSet(old)
    <3>1. PICK i \in 1..Len(admitted) : e = NewEntry(admitted, i)
      BY <1>8, <2>2
    <3>2. e.uid = nextUid + i - 1 /\ f.uid \in Nat /\ f.uid < nextUid
      BY <1>6, <1>9, <3>1
    <3> QED BY <1>0, <1>1, <3>2, SMTT(30)
  <2> QED BY <2>1, <2>2
<1>11. /\ DOMAIN admitted = 1..Len(admitted) /\ Len(admitted) \in Nat
       /\ \A i, j \in 1..Len(admitted) : admitted[i] = admitted[j] => i = j
       /\ ToSet(admitted) \subseteq MllmReqs
  BY <1>1, <1>2 DEF IsInjective, ToSet
<1>12. ASSUME NEW i \in 1..Len(admitted) PROVE uidNow[admitted[i]] = nextUid + i - 1
  <2>1. admitted[i] \in ToSet(admitted) /\ admitted[i] \in MllmReqs
    BY <1>11 DEF ToSet
  <2>2. (CHOOSE j \in DOMAIN admitted : admitted[j] = admitted[i]) = i
    BY <1>11
  <2> QED BY <2>1, <2>2 DEF UidsGiven
<1>13. \A r \in MllmReqs : r \notin ToSet(admitted) => uidNow[r] = uidOf[r]
  BY DEF UidsGiven
<1>14. \A r \in ToSet(admitted) : \E i \in 1..Len(admitted) : r = admitted[i]
  BY <1>11 DEF ToSet
<1>15. uidNow \in [MllmReqs -> Nat]
  <2>1. \A r \in MllmReqs : uidNow[r] \in Nat
    <3> TAKE r \in MllmReqs
    <3>1. CASE r \in ToSet(admitted)
      <4>1. PICK i \in 1..Len(admitted) : r = admitted[i]
        BY <1>14, <3>1
      <4> QED BY <1>0, <1>11, <1>12, <4>1
    <3>2. CASE r \notin ToSet(admitted)
      BY <1>0, <1>13, <3>2
    <3> QED BY <3>1, <3>2
  <2>2. DOMAIN uidNow = MllmReqs /\ uidNow = [r \in MllmReqs |-> uidNow[r]]
    BY DEF UidsGiven
  <2> QED BY <2>1, <2>2
<1>16. runningNow \in SUBSET MllmReqs /\ IsFiniteSet(runningNow)
  <2>1. IsFiniteSet(ToSet(admitted))
    <3>1. IsFiniteSet(1..Len(admitted))
      BY <1>11, Places
    <3>2. ToSet(admitted) = {admitted[i] : i \in 1..Len(admitted)}
      BY <1>11 DEF ToSet
    <3> DEFINE f == [i \in 1..Len(admitted) |-> admitted[i]]
    <3>3. f \in Surjection(1..Len(admitted), ToSet(admitted))
      BY <3>2 DEF Surjection
    <3> QED BY <3>1, <3>3, FS_Surjection
  <2>2. IsFiniteSet(mRunning)
    BY DEF MllmTyped
  <2> QED BY <1>0, <1>11, <2>1, <2>2, FS_Union
<1>17. ASSUME NEW r \in MllmReqs
       PROVE  /\ Served(r) <=> r \in ToSet(mWaiting') \/ r \in runningNow
              /\ r \in ToSet(mWaiting') => r \notin runningNow /\ outQueue[r] = <<>>
              /\ r \in runningNow <=> uidNow[r] # 0
              /\ uidNow[r] < nextUid + Len(admitted)
              /\ r \in runningNow =>
                   HasEntryIn(queue, r, uidNow[r]) \/ HasRowIn(batch, r, uidNow[r])
  <2>1. Filed(r)
    BY DEF AllFiled
  <2>2. /\ Served(r) <=> r \in ToSet(mWaiting') \/ r \in runningNow
        /\ r \in ToSet(mWaiting') => r \notin runningNow /\ outQueue[r] = <<>>
    BY <1>2, <2>1 DEF Served, Filed
  <2>3. CASE r \in ToSet(admitted)
    <3>1. PICK i \in 1..Len(admitted) : r = admitted[i]
      BY <1>14, <2>3
    <3>2. uidNow[r] = nextUid + i - 1
      BY <1>12, <3>1
    <3>3. uidNow[r] # 0 /\ uidNow[r] < nextUid + Len(admitted)
      BY <1>0, <1>11, <3>2
    <3>4. outQueue[r] = <<>>
      BY <1>2, <2>1, <2>3 DEF Filed
    <3>5. HasEntryIn(queue, r, uidNow[r])
      <4>1. NewEntry(admitted, i) \in ToSet(queue)
        BY <1>8
      <4>2. NewEntry(admitted, i).uid = uidNow[r] /\ NewEntry(admitted, i).r = r
        BY <1>9, <3>1, <3>2
      <4> QED BY <3>4, <4>1, <4>2 DEF HasEntryIn
    <3> QED BY <2>2, <2>3, <3>3, <3>5
  <2>4. CASE r \notin ToSet(admitted)
    <3>1. uidNow[r] = uidOf[r] /\ (r \in runningNow <=> r \in mRunning)
      BY <1>13, <2>4
    <3>2. uidNow[r] < nextUid + Len(admitted)
      BY <1>0, <1>11, <2>1, <3>1 DEF Filed
    <3>3. ASSUME r \in mRunning
          PROVE  HasEntryIn(queue, r, uidNow[r]) \/ HasRowIn(batch, r, uidNow[r])
      <4>1. uidOf[r] \notin removals /\ (HasEntry(r) \/ HasRow(r))
        BY <3>3 DEF Worked
      <4>2. CASE HasEntry(r)
        BY <1>4, <1>8, <3>1, <4>1, <4>2 DEF HasEntry, HasEntryIn
      <4>3. CASE HasRow(r)
        BY <1>3, <3>1, <4>1, <4>3 DEF HasRow, HasRowIn
      <4> QED BY <4>1, <4>2, <4>3
    <3> QED BY <2>1, <2>2, <3>1, <3>2, <3>3 DEF Filed
  <2> QED BY <2>3, <2>4
<1>18. ASSUME NEW r \in MllmReqs, NEW q \in MllmReqs, uidNow[q] = uidNow[r], uidNow[r] # 0
       PROVE  q = r
  <2>1. Filed(r) /\ Filed(q) /\ uidOf[r] \in Nat /\ uidOf[q] \in Nat
    BY <1>0 DEF AllFiled
  <2>2. \A p \in MllmReqs : p \notin ToSet(admitted) => uidNow[p] = uidOf[p] /\ uidOf[p] < nextUid
    BY <1>13 DEF AllFiled, Filed
  <2>3. \A p \in ToSet(admitted) : \E i \in 1..Len(admitted) :
           p = admitted[i] /\ uidNow[p] = nextUid + i - 1
    BY <1>12, <1>14
  <2>4. CASE r \in ToSet(admitted) /\ q \in ToSet(admitted)
    <3>1. PICK i \in 1..Len(admitted) : r = admitted[i] /\ uidNow[r] = nextUid + i - 1
      BY <2>3, <2>4
    <3>2. PICK j \in 1..Len(admitted) : q = admitted[j] /\ uidNow[q] = nextUid + j - 1
      BY <2>3, <2>4
    <3>3. i = j
      BY <1>0, <1>18, <3>1, <3>2
    <3> QED BY <3>1, <3>2, <3>3
  <2>5. CASE r \in ToSet(admitted) /\ q \notin ToSet(admitted)
    <3>1. PICK i \in 1..Len(admitted) : r = admitted[i] /\ uidNow[r] = nextUid + i - 1
      BY <2>3, <2>5
    <3> QED BY <1>0, <1>18, <2>1, <2>2, <2>5, <3>1
  <2>6. CASE r \notin ToSet(admitted) /\ q \in ToSet(admitted)
    <3>1. PICK i \in 1..Len(admitted) : q = admitted[i] /\ uidNow[q] = nextUid + i - 1
      BY <2>3, <2>6
    <3> QED BY <1>0, <1>18, <2>1, <2>2, <2>6, <3>1
  <2>7. CASE r \notin ToSet(admitted) /\ q \notin ToSet(admitted)
    BY <1>18, <2>1, <2>2, <2>7 DEF Filed
  <2> QED BY <2>4, <2>5, <2>6, <2>7
<1>19. \A e \in ToSet(queue) \cup ToSet(batch) : e.uid < nextUid + Len(admitted)
  <2>1. \A e \in ToSet(batch) : e.uid < nextUid + Len(admitted)
    BY <1>0, <1>6, <1>11
  <2> QED BY <1>8, <2>1
<1>20. \A e \in ToSet(batch) : e.n < MllmTokens
  BY <1>3 DEF Worked
<1> QED BY <1>1, <1>2, <1>3, <1>5, <1>8, <1>10, <1>15, <1>16, <1>17, <1>18, <1>19, <1>20
        DEF StepMade

\* What one more token, or the end, makes of the outputs of a request.
LEMMA OutputsGrow ==
  ASSUME NEW q \in Outputs, Plain(q)
  PROVE  /\ q \o <<"token">> \in Outputs /\ Plain(q \o <<"token">>)
         /\ Len(q \o <<"token">>) = Len(q) + 1
         /\ q \o <<"last", "end">> \in Outputs /\ Ended(q \o <<"last", "end">>)
         /\ Len(q \o <<"last", "end">>) = Len(q) + 2 /\ Len(q) \in Nat
<1> DEFINE t == q \o <<"token">>
           l == q \o <<"last", "end">>
<1>1. /\ t \in Outputs /\ Len(t) = Len(q) + 1 /\ Len(q) \in Nat
      /\ \A i \in 1..Len(q) : t[i] = q[i]
      /\ t[Len(q) + 1] = "token"
  BY DEF Outputs
<1>2. /\ l \in Outputs /\ Len(l) = Len(q) + 2
      /\ \A i \in 1..Len(q) : l[i] = q[i]
      /\ l[Len(q) + 1] = "last" /\ l[Len(q) + 2] = "end"
  BY DEF Outputs
<1> HIDE DEF t, l
<1>3. Plain(t)
  BY <1>1 DEF Plain
<1>4. Ended(l)
  <2>1. Len(l) - 1 = Len(q) + 1 /\ Len(l) - 2 = Len(q) /\ Len(l) >= 2
    BY <1>1, <1>2
  <2> QED BY <1>1, <1>2, <2>1 DEF Plain, Ended
<1> QED BY <1>1, <1>2, <1>3, <1>4 DEF t, l

\* What a step makes of a request that runs: it stays in the queue, it has a token more and
\* a row that counts it, or it has its end.
Stays(r, u) ==
  /\ r \in mRunning' /\ uidOf'[r] = u /\ outQueue'[r] = outQueue[r] /\ outQueue[r] = <<>>
  /\ \E e \in ToSet(unprocessed') : e.uid = u /\ e.r = r
OneMore(r, u) ==
  /\ r \in mRunning' /\ uidOf'[r] = u /\ outQueue'[r] = outQueue[r] \o <<"token">>
  /\ \E e \in ToSet(rows') : e.uid = u /\ e.r = r /\ Len(outQueue[r]) + 1 <= e.n
EndsNow(r) ==
  /\ r \notin mRunning' /\ uidOf'[r] = 0 /\ outQueue'[r] = outQueue[r] \o <<"last", "end">>
  /\ Len(outQueue[r]) < MllmTokens

\* The step once it is known what it takes, what fails and what ends.
LEMMA StepTold ==
  ASSUME MllmAssumption, MllmTyped, AllFiled,
         NEW admitted, NEW batch, NEW queue, NEW uidNow, NEW runningNow,
         StepMade(admitted, batch, queue, uidNow, runningNow),
         NEW bad, NEW raised \in BOOLEAN, NEW ended, NEW taken, NEW full,
         taken = TakenFrom(queue, batch),
         full = Joined(batch, IF raised THEN <<>> ELSE Prefilled(taken, bad)),
         unprocessed' = QueueAfter(queue, batch, taken, bad, raised),
         rows' = Unfinished(full, ended),
         Deliver(uidNow, runningNow, NoTokens(taken, bad, raised) \o Tokens(full, ended)),
         nextUid' = nextUid + Len(admitted)
  PROVE  /\ unprocessed' \in Seq(Entry) /\ IsInjective(unprocessed') /\ OneUid(ToSet(unprocessed'))
         /\ rows' \in Seq(Row) /\ IsInjective(rows') /\ OneUid(ToSet(rows'))
         /\ OtherUids(ToSet(unprocessed'), ToSet(rows'))
         /\ \A e \in ToSet(unprocessed') \cup ToSet(rows') : e.uid < nextUid'
         /\ \A e \in ToSet(rows') : e.n < MllmTokens
         /\ \A r \in runningNow : Stays(r, uidNow[r]) \/ OneMore(r, uidNow[r]) \/ EndsNow(r)
         /\ \A r \in MllmReqs \ runningNow :
              r \notin mRunning' /\ uidOf'[r] = uidNow[r] /\ outQueue'[r] = outQueue[r]
<1> DEFINE L == Lost(taken, bad, raised)
           J == IF raised THEN <<>> ELSE Prefilled(taken, bad)
           none == NoTokens(taken, bad, raised)
           some == Tokens(full, ended)
           answers == none \o some
<1>0. MllmTokens \in Nat \ {0}
  BY DEF MllmAssumption
<1>1. /\ admitted \in Seq(MllmReqs) /\ batch \in Seq(Row) /\ queue \in Seq(Entry)
      /\ IsInjective(batch) /\ OneUid(ToSet(batch)) /\ IsInjective(queue) /\ OneUid(ToSet(queue))
      /\ OtherUids(ToSet(queue), ToSet(batch))
      /\ uidNow \in [MllmReqs -> Nat] /\ runningNow \in SUBSET MllmReqs
      /\ \A e \in ToSet(queue) \cup ToSet(batch) : e.uid < nextUid + Len(admitted)
      /\ \A e \in ToSet(batch) : e.n < MllmTokens
  BY DEF StepMade
<1>2. /\ taken \in Seq(Entry) /\ IsInjective(taken) /\ ToSet(taken) \subseteq ToSet(queue)
      /\ unprocessed' \in Seq(Entry) /\ IsInjective(unprocessed')
      /\ ToSet(unprocessed') \subseteq ToSet(queue)
      /\ ToSet(queue) \ ToSet(taken) \subseteq ToSet(unprocessed')
      /\ ~raised => ToSet(unprocessed') \cap ToSet(taken) = {}
  BY <1>1, TakenParts
<1>3. OneUid(ToSet(taken)) /\ OneUid(ToSet(unprocessed'))
  BY <1>1, <1>2 DEF OneUid
<1>4. none \in Seq(Response) /\ IsInjective(none) /\ ToSet(none) = {EndingOf(e) : e \in L}
  BY <1>2, <1>3, LostTold
<1>5. J \in Seq(Entry) /\ IsInjective(J) /\ ToSet(J) = ToSet(taken) \ L
  <2>1. CASE raised
    <3>1. \A T : <<>> \in Seq(T) /\ ToSet(<<>>) = {} /\ IsInjective(<<>>)
      BY DEF ToSet, IsInjective
    <3>2. ToSet(taken) \ L = {}
      BY <2>1 DEF Lost
    <3> QED BY <2>1, <3>1, <3>2
  <2>2. CASE ~raised
    <3> DEFINE kept == Preprocessed(taken, bad)
    <3>1. /\ kept \in Seq(Entry) /\ IsInjective(kept)
          /\ ToSet(kept) = {e \in ToSet(taken) : e.uid \notin bad}
      BY <1>2, Filtered DEF Preprocessed
    <3>2. J = OfReqs(kept, MllmReqs \ abortedIds)
      BY <2>2 DEF Prefilled
    <3> HIDE DEF kept, J
    <3>3. /\ J \in Seq(Entry) /\ IsInjective(J)
          /\ ToSet(J) = {e \in ToSet(kept) : e.r \in MllmReqs \ abortedIds}
      BY <3>1, <3>2, Filtered
    <3>4. \A e \in ToSet(taken) : e.r \in MllmReqs
      <4>1. \A e \in ToSet(taken) : e \in Entry
        BY <1>2, ElementsTyped
      <4> QED BY <4>1 DEF Entry
    <3>5. {e \in ToSet(kept) : e.r \in MllmReqs \ abortedIds} = ToSet(taken) \ L
      BY <2>2, <3>1, <3>4 DEF Lost
    <3> QED BY <3>3, <3>5
  <2> QED BY <2>1, <2>2
<1>6. L \subseteq ToSet(taken)
  BY DEF Lost
<1>7. full = Joined(batch, J)
  OBVIOUS
<1> HIDE DEF L, J, none, some
<1>8. OneUid(ToSet(J)) /\ OtherUids(ToSet(J), ToSet(batch))
  BY <1>1, <1>2, <1>3, <1>5 DEF OneUid, OtherUids
<1>9. /\ full \in Seq(Row) /\ IsInjective(full) /\ OneUid(ToSet(full))
      /\ ToSet(full) = ToSet(batch) \cup {RowOfEntry(e) : e \in ToSet(J)}
  BY <1>1, <1>5, <1>7, <1>8, BatchJoined
<1>10. /\ some \in Seq(Response) /\ IsInjective(some)
       /\ ToSet(some) = {TokenOf(f, ended) : f \in ToSet(full)}
  BY <1>9, TokensTold DEF some
<1>11. \A f \in ToSet(full) : f \in ToSet(batch) \/ \E e \in ToSet(J) : f = RowOfEntry(e)
                                                       /\ f.uid = e.uid /\ f.r = e.r /\ f.n = 0
  BY <1>9 DEF RowOfEntry
<1>12. OtherUids(L, ToSet(full))
  <2> SUFFICES ASSUME NEW e \in L, NEW f \in ToSet(full) PROVE e.uid # f.uid
    BY DEF OtherUids
  <2>1. CASE f \in ToSet(batch)
    BY <1>1, <1>2, <1>6, <2>1 DEF OtherUids
  <2>2. CASE f \notin ToSet(batch)
    <3>1. PICK x \in ToSet(J) : f.uid = x.uid
      BY <1>11, <2>2
    <3>2. x \in ToSet(taken) /\ x # e /\ e \in ToSet(taken)
      BY <1>5, <1>6, <3>1
    <3> QED BY <1>3, <3>1, <3>2 DEF OneUid
  <2> QED BY <2>1, <2>2
<1>13. \A x \in ToSet(none) : x.out = "last" /\ \E e \in L : x = EndingOf(e) /\ x.uid = e.uid /\ x.r = e.r
  BY <1>4 DEF EndingOf
<1>14. \A x \in ToSet(some) : \E f \in ToSet(full) : /\ x = TokenOf(f, ended)
                                                    /\ x.uid = f.uid /\ x.r = f.r
  BY <1>10 DEF TokenOf
<1>15. ToSet(none) \cap ToSet(some) = {}
  BY <1>12, <1>13, <1>14 DEF OtherUids
<1>16. /\ answers \in Seq(Response) /\ IsInjective(answers)
       /\ ToSet(answers) = ToSet(none) \cup ToSet(some)
  BY <1>4, <1>10, <1>15, JoinedQueues
<1>17. OneUid(ToSet(answers))
  <2>1. \A x, y \in ToSet(none) : x.uid = y.uid => x = y
    BY <1>3, <1>6, <1>13 DEF OneUid
  <2>2. \A x, y \in ToSet(some) : x.uid = y.uid => x = y
    BY <1>9, <1>14 DEF OneUid
  <2>3. \A x \in ToSet(none), y \in ToSet(some) : x.uid # y.uid
    BY <1>12, <1>13, <1>14 DEF OtherUids
  <2> QED BY <1>16, <2>1, <2>2, <2>3 DEF OneUid
<1>18. Deliver(uidNow, runningNow, answers)
  BY DEF none, some
<1> HIDE DEF answers
<1>19. outQueue \in [MllmReqs -> Seq({"token", "last", "end"})]
  BY DEF MllmTyped, Outputs
<1>a. /\ uidNow \in [MllmReqs -> Nat] /\ runningNow \in SUBSET MllmReqs
      /\ answers \in Seq(Response) /\ IsInjective(answers)
  BY <1>1, <1>16
<1>b. Delivery(uidNow, runningNow, answers)
  BY <1>a, <1>17, <1>18, <1>19 DEF Delivery
<1>20. ASSUME NEW r \in runningNow, NEW x \in ToSet(answers), x.uid = uidNow[r], x.r = r
       PROVE  /\ outQueue'[r] = outQueue[r] \o (IF x.out = "last" THEN <<"last", "end">>
                                                                  ELSE <<"token">>)
              /\ r \in mRunning' <=> x.out = "token"
              /\ uidOf'[r] = IF x.out = "token" THEN uidNow[r] ELSE 0
  <2>1. r \in MllmReqs /\ ResponseOf(x, uidNow, runningNow, r)
    BY <1>1, <1>20 DEF ResponseOf
  <2>2. reader[r] = "reading"
    BY <1>20, <2>1 DEF StepMade, AllFiled, Filed
  <2>3. Told(uidNow, r, x.out)
    BY <1>b, <2>1, DeliveredTo
  <2> QED BY <2>2, <2>3 DEF Told
<1>21. ASSUME NEW r \in MllmReqs, \A x \in ToSet(answers) : ~ResponseOf(x, uidNow, runningNow, r)
       PROVE  /\ outQueue'[r] = outQueue[r] /\ (r \in mRunning' <=> r \in runningNow)
              /\ uidOf'[r] = uidNow[r]
  <2>1. Untold(uidNow, runningNow, r)
    BY <1>b, <1>21, DeliveredNone
  <2> QED BY <2>1 DEF Untold
<1>22. /\ rows' \in Seq(Row) /\ IsInjective(rows')
       /\ ToSet(rows') = {RowAfter(f) : f \in {g \in ToSet(full) : OutOf(g, ended) = "token"}}
  BY <1>9, RowsAfter
<1>23. \A g \in ToSet(rows') : \E f \in ToSet(full) :
          /\ g = RowAfter(f) /\ g.uid = f.uid /\ g.r = f.r /\ g.n = f.n + 1
          /\ OutOf(f, ended) = "token"
  BY <1>22 DEF RowAfter
<1>24. \A f \in ToSet(full) : f.n \in Nat /\ f.uid \in Nat
  <2>1. \A f \in ToSet(full) : f \in Row
    BY <1>9, ElementsTyped
  <2> QED BY <2>1 DEF Row
<1>25. OneUid(ToSet(rows'))
  BY <1>9, <1>23 DEF OneUid
<1>26. \A g \in ToSet(rows') : g.n < MllmTokens
  <2> TAKE g \in ToSet(rows')
  <2>1. PICK f \in ToSet(full) : g.n = f.n + 1 /\ OutOf(f, ended) = "token"
    BY <1>23
  <2> QED BY <1>0, <1>24, <2>1 DEF OutOf
<1>27. OtherUids(ToSet(unprocessed'), ToSet(rows'))
  <2> SUFFICES ASSUME NEW e \in ToSet(unprocessed'), NEW g \in ToSet(rows'), e.uid = g.uid
               PROVE  FALSE
    BY DEF OtherUids
  <2>1. PICK f \in ToSet(full) : g.uid = f.uid
    BY <1>23
  <2>2. CASE f \in ToSet(batch)
    BY <1>1, <1>2, <2>1, <2>2 DEF OtherUids
  <2>3. CASE f \notin ToSet(batch)
    <3>1. PICK x \in ToSet(J) : f.uid = x.uid
      BY <1>11, <2>3
    <3>2. x \in ToSet(taken) /\ ~raised
      BY <1>5, <3>1 DEF L, Lost
    <3>3. x = e
      BY <1>1, <1>2, <2>1, <3>1, <3>2 DEF OneUid
    <3> QED BY <1>2, <3>2, <3>3
  <2> QED BY <2>2, <2>3
<1>28. \A e \in ToSet(unprocessed') \cup ToSet(rows') : e.uid < nextUid'
  <2>1. \A e \in ToSet(unprocessed') : e.uid < nextUid'
    BY <1>1, <1>2
  <2>2. \A f \in ToSet(full) : f.uid < nextUid'
    BY <1>1, <1>2, <1>5, <1>11
  <2>3. \A g \in ToSet(rows') : g.uid < nextUid'
    BY <1>23, <2>2
  <2> QED BY <2>1, <2>3
<1>29. ASSUME NEW r \in runningNow, NEW f \in ToSet(full), f.uid = uidNow[r], f.r = r,
              Len(outQueue[r]) <= f.n, f.n < MllmTokens
       PROVE  OneMore(r, uidNow[r]) \/ EndsNow(r)
  <2> DEFINE x == TokenOf(f, ended)
  <2>1. x \in ToSet(answers) /\ x.uid = uidNow[r] /\ x.r = r /\ x.out = OutOf(f, ended)
    BY <1>10, <1>16, <1>29 DEF TokenOf
  <2> HIDE DEF x
  <2>2. /\ outQueue'[r] = outQueue[r] \o (IF x.out = "last" THEN <<"last", "end">>
                                                            ELSE <<"token">>)
        /\ r \in mRunning' <=> x.out = "token"
        /\ uidOf'[r] = IF x.out = "token" THEN uidNow[r] ELSE 0
    BY <1>20, <2>1
  <2>3. Len(outQueue[r]) \in Nat /\ f.n \in Nat
    BY <1>1, <1>19, <1>24
  <2>4. CASE x.out = "token"
    <3>1. RowAfter(f) \in ToSet(rows') /\ RowAfter(f).uid = uidNow[r] /\ RowAfter(f).r = r
          /\ RowAfter(f).n = f.n + 1
      BY <1>22, <1>29, <2>1, <2>4 DEF RowAfter
    <3>2. Len(outQueue[r]) + 1 <= RowAfter(f).n
      BY <1>29, <2>3, <3>1
    <3>3. r \in mRunning' /\ uidOf'[r] = uidNow[r] /\ outQueue'[r] = outQueue[r] \o <<"token">>
      BY <2>2, <2>4
    <3> QED BY <3>1, <3>2, <3>3 DEF OneMore
  <2>5. CASE x.out # "token"
    <3>1. x.out = "last"
      BY <2>1, <2>5 DEF OutOf
    <3>2. Len(outQueue[r]) < MllmTokens
      BY <1>0, <1>29, <2>3
    <3>3. r \notin mRunning' /\ uidOf'[r] = 0 /\ outQueue'[r] = outQueue[r] \o <<"last", "end">>
      BY <2>2, <3>1
    <3> QED BY <3>2, <3>3 DEF EndsNow
  <2> QED BY <2>4, <2>5
<1>30. ASSUME NEW r \in runningNow
       PROVE  Stays(r, uidNow[r]) \/ OneMore(r, uidNow[r]) \/ EndsNow(r)
  <2>0. r \in MllmReqs /\ (HasEntryIn(queue, r, uidNow[r]) \/ HasRowIn(batch, r, uidNow[r]))
    BY <1>1 DEF StepMade
  <2>1. CASE HasRowIn(batch, r, uidNow[r])
    <3>1. PICK f \in ToSet(batch) : f.uid = uidNow[r] /\ f.r = r /\ Len(outQueue[r]) <= f.n
      BY <2>1 DEF HasRowIn
    <3>2. f \in ToSet(full) /\ f.n < MllmTokens
      BY <1>1, <1>9, <3>1
    <3> QED BY <1>29, <3>1, <3>2
  <2>2. CASE HasEntryIn(queue, r, uidNow[r])
    <3>1. PICK e \in ToSet(queue) : e.uid = uidNow[r] /\ e.r = r /\ outQueue[r] = <<>>
      BY <2>2 DEF HasEntryIn
    <3>2. CASE e \in L
      <4>1. EndingOf(e) \in ToSet(answers) /\ EndingOf(e).uid = uidNow[r] /\ EndingOf(e).r = r
            /\ EndingOf(e).out = "last"
        BY <1>4, <1>16, <3>1, <3>2 DEF EndingOf
      <4>2. r \notin mRunning' /\ uidOf'[r] = 0 /\ outQueue'[r] = outQueue[r] \o <<"last", "end">>
        BY <1>20, <4>1
      <4>3. Len(outQueue[r]) < MllmTokens
        BY <1>0, <3>1
      <4> QED BY <4>2, <4>3 DEF EndsNow
    <3>3. CASE e \in ToSet(taken) \ L
      <4>1. RowOfEntry(e) \in ToSet(full) /\ RowOfEntry(e).uid = uidNow[r] /\ RowOfEntry(e).r = r
            /\ RowOfEntry(e).n = 0
        BY <1>5, <1>9, <3>1, <3>3 DEF RowOfEntry
      <4>2. Len(outQueue[r]) <= 0 /\ 0 < MllmTokens
        BY <1>0, <3>1
      <4> QED BY <1>29, <4>1, <4>2
    <3>4. CASE e \notin ToSet(taken)
      <4>1. ASSUME NEW x \in ToSet(answers), ResponseOf(x, uidNow, runningNow, r) PROVE FALSE
        <5>1. x.uid = e.uid
          BY <3>1, <4>1 DEF ResponseOf
        <5>2. CASE x \in ToSet(none)
          <6>1. PICK y \in L : x.uid = y.uid
            BY <1>13, <5>2
          <6>2. y = e
            BY <1>1, <1>2, <1>6, <5>1, <6>1 DEF OneUid
          <6> QED BY <1>6, <3>4, <6>2
        <5>3. CASE x \in ToSet(some)
          <6>1. PICK f \in ToSet(full) : x.uid = f.uid
            BY <1>14, <5>3
          <6>2. CASE f \in ToSet(batch)
            BY <1>1, <5>1, <6>1, <6>2 DEF OtherUids
          <6>3. CASE f \notin ToSet(batch)
            <7>1. PICK y \in ToSet(J) : f.uid = y.uid
              BY <1>11, <6>3
            <7>2. y \in ToSet(taken) /\ y = e
              BY <1>1, <1>2, <1>5, <5>1, <6>1, <7>1 DEF OneUid
            <7> QED BY <3>4, <7>2
          <6> QED BY <6>2, <6>3
        <5> QED BY <1>16, <5>2, <5>3
      <4>2. outQueue'[r] = outQueue[r] /\ r \in mRunning' /\ uidOf'[r] = uidNow[r]
        BY <1>21, <2>0, <4>1
      <4>3. e \in ToSet(unprocessed')
        BY <1>2, <3>4
      <4> QED BY <3>1, <4>2, <4>3 DEF Stays
    <3> QED BY <3>2, <3>3, <3>4
  <2> QED BY <2>0, <2>1, <2>2
<1>31. ASSUME NEW r \in MllmReqs \ runningNow
       PROVE  r \notin mRunning' /\ uidOf'[r] = uidNow[r] /\ outQueue'[r] = outQueue[r]
  <2>1. \A x \in ToSet(answers) : ~ResponseOf(x, uidNow, runningNow, r)
    BY DEF ResponseOf
  <2> QED BY <1>21, <2>1
<1> QED BY <1>2, <1>3, <1>22, <1>25, <1>26, <1>27, <1>28, <1>30, <1>31

\* What a step changes is a function on the requests.
LEMMA DeliverDomains ==
  ASSUME NEW uidNow, NEW runningNow, NEW answers, Deliver(uidNow, runningNow, answers)
  PROVE  /\ DOMAIN outQueue' = MllmReqs /\ outQueue' = [r \in MllmReqs |-> outQueue'[r]]
         /\ DOMAIN uidOf' = MllmReqs /\ uidOf' = [r \in MllmReqs |-> uidOf'[r]]
         /\ mRunning' \subseteq runningNow
BY DEF Deliver

\* A step of the scheduler and the generator in which no decode raises.
LEMMA MllmStepStep ==
  ASSUME MllmAssumption, "decode" \notin MllmFaults, MllmInv, MllmStep
  PROVE  MllmInv'
<1> DEFINE batch == NotOfUids(rows, removals)
           admitted == FirstOf(mWaiting, MllmSeqs - Cardinality(mRunning))
           queue == Inserted(NotOfUids(unprocessed, removals), admitted)
           runningNow == mRunning \cup ToSet(admitted)
           uidNow == UidsGiven(admitted)
           taken == TakenFrom(queue, batch)
<1>1. /\ loopAt = "early" /\ loopAt' = "top" /\ removals' = {} /\ reader' = reader
      /\ mWaiting' = SubSeq(mWaiting, Len(admitted) + 1, Len(mWaiting))
      /\ nextUid' = nextUid + Len(admitted)
  BY DEF MllmStep
<1>2. PICK bad, raised, ended, full :
        /\ raised \in BOOLEAN
        /\ full = Joined(batch, IF raised THEN <<>> ELSE Prefilled(taken, bad))
        /\ unprocessed' = QueueAfter(queue, batch, taken, bad, raised)
        /\ rows' = Unfinished(full, ended)
        /\ Deliver(uidNow, runningNow, NoTokens(taken, bad, raised) \o Tokens(full, ended))
  <2>1. \E bad \in SUBSET Uids(NotReady(taken)) : \E raised \in BOOLEAN :
          /\ unprocessed' = QueueAfter(queue, batch, taken, bad, raised)
          /\ LET full == Joined(batch, IF raised THEN <<>> ELSE Prefilled(taken, bad))
             IN \/ \E ended \in SUBSET Uids(full) :
                     /\ rows' = Unfinished(full, ended)
                     /\ Deliver(uidNow, runningNow,
                                NoTokens(taken, bad, raised) \o Tokens(full, ended))
                \/ "decode" \in MllmFaults
    BY ZenonT(60) DEF MllmStep
  <2> HIDE DEF batch, admitted, queue, runningNow, uidNow, taken
  <2>2. PICK bad, raised :
          /\ raised \in BOOLEAN
          /\ unprocessed' = QueueAfter(queue, batch, taken, bad, raised)
          /\ LET full == Joined(batch, IF raised THEN <<>> ELSE Prefilled(taken, bad))
             IN \E ended \in SUBSET Uids(full) :
                     /\ rows' = Unfinished(full, ended)
                     /\ Deliver(uidNow, runningNow,
                                NoTokens(taken, bad, raised) \o Tokens(full, ended))
    BY <2>1
  <2> DEFINE full == Joined(batch, IF raised THEN <<>> ELSE Prefilled(taken, bad))
  <2>3. PICK ended : /\ rows' = Unfinished(full, ended)
                     /\ Deliver(uidNow, runningNow,
                                NoTokens(taken, bad, raised) \o Tokens(full, ended))
    BY <2>2
  <2> QED BY <2>2, <2>3
<1>3. MllmTyped /\ AllFiled /\ Worked
  BY <1>1 DEF MllmInv
<1> DEFINE answers == NoTokens(taken, bad, raised) \o Tokens(full, ended)
<1>4. StepMade(admitted, batch, queue, uidNow, runningNow)
  <2>1. PICK a, b, q, u, n : a = admitted /\ b = batch /\ q = queue /\ u = uidNow /\ n = runningNow
    OBVIOUS
  <2>2. /\ a = FirstOf(mWaiting, MllmSeqs - Cardinality(mRunning))
        /\ b = NotOfUids(rows, removals)
        /\ q = Inserted(NotOfUids(unprocessed, removals), a)
        /\ u = UidsGiven(a) /\ n = mRunning \cup ToSet(a)
        /\ mWaiting' = SubSeq(mWaiting, Len(a) + 1, Len(mWaiting))
    BY <1>1, <2>1
  <2> HIDE DEF batch, admitted, queue, runningNow, uidNow
  <2>3. StepMade(a, b, q, u, n)
    BY <1>3, <2>2, StepBegins
  <2> QED BY <2>1, <2>3
<1>5. taken = TakenFrom(queue, batch)
  OBVIOUS
<1> HIDE DEF batch, admitted, queue, runningNow, uidNow, taken
<1>6. /\ unprocessed' \in Seq(Entry) /\ IsInjective(unprocessed') /\ OneUid(ToSet(unprocessed'))
      /\ rows' \in Seq(Row) /\ IsInjective(rows') /\ OneUid(ToSet(rows'))
      /\ OtherUids(ToSet(unprocessed'), ToSet(rows'))
      /\ \A e \in ToSet(unprocessed') \cup ToSet(rows') : e.uid < nextUid'
      /\ \A e \in ToSet(rows') : e.n < MllmTokens
      /\ \A r \in runningNow : Stays(r, uidNow[r]) \/ OneMore(r, uidNow[r]) \/ EndsNow(r)
      /\ \A r \in MllmReqs \ runningNow :
           r \notin mRunning' /\ uidOf'[r] = uidNow[r] /\ outQueue'[r] = outQueue[r]
  BY <1>1, <1>2, <1>3, <1>4, <1>5, StepTold
<1>7. Deliver(uidNow, runningNow, answers)
  BY <1>2
<1> HIDE DEF answers
<1>8. /\ outQueue' = [r \in MllmReqs |-> outQueue'[r]] /\ uidOf' = [r \in MllmReqs |-> uidOf'[r]]
      /\ mRunning' \subseteq runningNow
  BY <1>7, DeliverDomains
<1>9. /\ admitted \in Seq(MllmReqs) /\ uidNow \in [MllmReqs -> Nat]
      /\ runningNow \in SUBSET MllmReqs /\ IsFiniteSet(runningNow)
      /\ mWaiting' \in Seq(MllmReqs) /\ IsInjective(mWaiting')
      /\ \A r \in MllmReqs :
           /\ Served(r) <=> r \in ToSet(mWaiting') \/ r \in runningNow
           /\ r \in ToSet(mWaiting') => r \notin runningNow /\ outQueue[r] = <<>>
           /\ r \in runningNow <=> uidNow[r] # 0
           /\ uidNow[r] < nextUid'
           /\ \A q \in MllmReqs : uidNow[q] = uidNow[r] /\ uidNow[r] # 0 => q = r
  BY <1>1, <1>4 DEF StepMade
<1>10. /\ nextUid \in Nat \ {0} /\ Len(admitted) \in Nat /\ nextUid' \in Nat \ {0}
       /\ MllmTokens \in Nat \ {0} /\ outQueue \in [MllmReqs -> Outputs]
       /\ reader \in [MllmReqs -> {"none", "reading", "finished", "left"}]
  BY <1>1, <1>3, <1>9 DEF MllmTyped, MllmAssumption
<1>11. ASSUME NEW r \in MllmReqs
       PROVE  /\ outQueue'[r] \in Outputs /\ uidOf'[r] \in {uidNow[r], 0}
              /\ r \in mRunning' <=> uidOf'[r] # 0
              /\ r \in runningNow => reader[r] = "reading"
              /\ r \in mRunning' => Plain(outQueue'[r]) /\ r \in runningNow
              /\ r \in runningNow \ mRunning' => Ended(outQueue'[r])
              /\ r \notin runningNow => uidOf'[r] = 0 /\ outQueue'[r] = outQueue[r]
              /\ Len(outQueue'[r]) <= MllmTokens + 1
  <2>1. outQueue[r] \in Outputs /\ Len(outQueue[r]) \in Nat /\ Filed(r)
    BY <1>3, <1>10 DEF Outputs, AllFiled
  <2>2. CASE r \in runningNow
    <3>1. Served(r) /\ reader[r] = "reading" /\ Plain(outQueue[r]) /\ uidNow[r] # 0
      BY <1>9, <2>1, <2>2 DEF Filed
    <3>2. CASE Stays(r, uidNow[r])
      BY <2>1, <2>2, <3>1, <3>2 DEF Stays, Filed
    <3>3. CASE OneMore(r, uidNow[r])
      <4>1. PICK e \in ToSet(rows') : Len(outQueue[r]) + 1 <= e.n /\ e.n < MllmTokens
        BY <1>6, <3>3 DEF OneMore
      <4>2. e.n \in Nat
        <5>1. e \in Row
          BY <1>6, ElementsTyped
        <5> QED BY <5>1 DEF Row
      <4>3. /\ outQueue'[r] \in Outputs /\ Plain(outQueue'[r])
            /\ Len(outQueue'[r]) = Len(outQueue[r]) + 1
        BY <2>1, <3>1, <3>3, OutputsGrow DEF OneMore
      <4>4. r \in mRunning' /\ uidOf'[r] = uidNow[r]
        BY <3>3 DEF OneMore
      <4> QED BY <1>10, <2>1, <2>2, <3>1, <4>1, <4>2, <4>3, <4>4
    <3>4. CASE EndsNow(r)
      <4>1. /\ outQueue'[r] \in Outputs /\ Ended(outQueue'[r])
            /\ Len(outQueue'[r]) = Len(outQueue[r]) + 2
        BY <2>1, <3>1, <3>4, OutputsGrow DEF EndsNow
      <4>2. r \notin mRunning' /\ uidOf'[r] = 0 /\ Len(outQueue[r]) < MllmTokens
        BY <3>4 DEF EndsNow
      <4> QED BY <1>10, <2>1, <2>2, <3>1, <4>1, <4>2
    <3> QED BY <1>6, <2>2, <3>2, <3>3, <3>4
  <2>3. CASE r \notin runningNow
    <3>1. r \notin mRunning' /\ uidOf'[r] = uidNow[r] /\ outQueue'[r] = outQueue[r]
      BY <1>6, <2>3
    <3>2. uidNow[r] = 0 /\ Len(outQueue[r]) <= MllmTokens + 1
      BY <1>9, <2>1, <2>3 DEF Filed
    <3> QED BY <2>1, <2>3, <3>1, <3>2
  <2> QED BY <2>2, <2>3
<1>12. MllmTyped'
  <2>1. outQueue' \in [MllmReqs -> Outputs]
    BY <1>8, <1>11
  <2>2. uidOf' \in [MllmReqs -> Nat]
    <3>1. \A r \in MllmReqs : uidOf'[r] \in Nat
      <4> SUFFICES ASSUME NEW r \in MllmReqs PROVE uidOf'[r] \in Nat
        OBVIOUS
      <4>1. uidNow[r] \in Nat /\ uidOf'[r] \in {uidNow[r], 0}
        BY <1>9, <1>11
      <4> QED BY <4>1
    <3> QED BY <1>8, <3>1
  <2>3. mRunning' \in SUBSET MllmReqs /\ IsFiniteSet(mRunning')
    BY <1>8, <1>9, FS_Subset
  <2> QED BY <1>1, <1>9, <1>10, <2>1, <2>2, <2>3 DEF MllmTyped
<1>13. ASSUME NEW r \in MllmReqs PROVE Filed(r)'
  <2>1. Filed(r) /\ uidNow[r] \in Nat
    BY <1>3, <1>9 DEF AllFiled
  <2>2. /\ r \in mRunning' <=> uidOf'[r] # 0
        /\ uidOf'[r] < nextUid' /\ Len(outQueue'[r]) <= MllmTokens + 1
    BY <1>9, <1>10, <1>11, <2>1
  <2>3. \A q \in MllmReqs : uidOf'[q] = uidOf'[r] /\ uidOf'[r] # 0 => q = r
    BY <1>9, <1>11
  <2>4. r \in ToSet(mWaiting') => r \notin mRunning' /\ outQueue'[r] = <<>>
    BY <1>8, <1>9, <1>11
  <2>5. Served(r)' <=> r \in ToSet(mWaiting') \/ r \in mRunning'
    BY DEF Served
  <2>6. Served(r)' => reader[r] = "reading" /\ Plain(outQueue'[r])
    <3>1. Plain(<<>>)
      BY DEF Plain
    <3>2. r \in ToSet(mWaiting') => Served(r)
      BY <1>9
    <3> QED BY <1>11, <2>1, <2>4, <2>5, <3>1, <3>2 DEF Filed
  <2>7. reader[r] # "reading" => outQueue'[r] = <<>>
    BY <1>11, <2>1 DEF Filed
  <2>8. reader[r] = "reading" /\ ~Served(r)' => Ended(outQueue'[r])
    <3>1. r \notin runningNow /\ ~Served(r)' => ~Served(r)
      BY <1>9, <2>5
    <3> QED BY <1>11, <2>1, <2>5, <3>1 DEF Filed
  <2> QED BY <1>1, <2>2, <2>3, <2>4, <2>6, <2>7, <2>8 DEF Filed
<1>14. ASSUME NEW r \in mRunning' PROVE uidOf'[r] \notin removals' /\ (HasEntry(r)' \/ HasRow(r)')
  <2>1. r \in runningNow /\ r \in MllmReqs
    BY <1>8, <1>9
  <2>2. Stays(r, uidNow[r]) \/ OneMore(r, uidNow[r])
    BY <1>6, <1>14, <2>1 DEF EndsNow
  <2>3. CASE Stays(r, uidNow[r])
    BY <1>1, <2>3 DEF Stays, HasEntry
  <2>4. CASE OneMore(r, uidNow[r])
    <3>1. Len(outQueue'[r]) = Len(outQueue[r]) + 1
      <4>1. outQueue[r] \in Outputs
        BY <1>10, <2>1
      <4> QED BY <2>4, <4>1 DEF OneMore, Outputs
    <3> QED BY <1>1, <2>4, <3>1 DEF OneMore, HasRow
  <2> QED BY <1>1, <2>2, <2>3, <2>4
<1>15. Worked'
  BY <1>6, <1>14 DEF Worked
<1> QED BY <1>12, <1>13, <1>15 DEF MllmInv, AllFiled

\* Two queues whose entries are for the same requests, place by place.
LEMMA SameRequests ==
  ASSUME NEW q \in Seq(Entry), IsInjective(q), OneUid(ToSet(q)), NEW t \in Seq(Entry),
         Len(t) = Len(q), \A i \in 1..Len(q) : t[i].uid = q[i].uid /\ t[i].r = q[i].r
  PROVE  /\ IsInjective(t) /\ OneUid(ToSet(t))
         /\ \A e \in ToSet(t) : \E x \in ToSet(q) : e.uid = x.uid /\ e.r = x.r
         /\ \A x \in ToSet(q) : \E e \in ToSet(t) : e.uid = x.uid /\ e.r = x.r
<1>1. DOMAIN q = 1..Len(q) /\ DOMAIN t = 1..Len(q)
  OBVIOUS
<1>2. ToSet(t) = {t[i] : i \in 1..Len(q)} /\ ToSet(q) = {q[i] : i \in 1..Len(q)}
  BY <1>1 DEF ToSet
<1>3. \A i, j \in 1..Len(q) : q[i].uid = q[j].uid => i = j
  <2> SUFFICES ASSUME NEW i \in 1..Len(q), NEW j \in 1..Len(q), q[i].uid = q[j].uid PROVE i = j
    OBVIOUS
  <2>1. q[i] = q[j]
    BY <1>2 DEF OneUid
  <2> QED BY <1>1, <2>1 DEF IsInjective
<1>4. \A i, j \in 1..Len(q) : t[i].uid = t[j].uid => i = j
  BY <1>3
<1>5. IsInjective(t)
  BY <1>1, <1>4 DEF IsInjective
<1>6. OneUid(ToSet(t))
  BY <1>2, <1>4 DEF OneUid
<1>7. \A e \in ToSet(t) : \E x \in ToSet(q) : e.uid = x.uid /\ e.r = x.r
  BY <1>2
<1>8. \A x \in ToSet(q) : \E e \in ToSet(t) : e.uid = x.uid /\ e.r = x.r
  <2> SUFFICES ASSUME NEW x \in ToSet(q) PROVE \E e \in ToSet(t) : e.uid = x.uid /\ e.r = x.r
    OBVIOUS
  <2>1. PICK i \in 1..Len(q) : x = q[i]
    BY <1>2
  <2>2. t[i] \in ToSet(t) /\ t[i].uid = x.uid /\ t[i].r = x.r
    BY <1>2, <2>1
  <2> QED BY <2>2
<1> QED BY <1>5, <1>6, <1>7, <1>8

\* The loop looks at the queue, preprocesses one of what it has seen there, sleeps or stops.
LEMMA MllmLoopStep ==
  ASSUME MllmAssumption, MllmInv,
         \/ EarlyBegin \/ MllmIdle \/ MllmStop \/ UNCHANGED mllmVars
         \/ \E fails \in BOOLEAN : EarlyPreprocess(fails)
  PROVE  MllmInv'
<1>1. /\ UNCHANGED <<mWaiting, mRunning, uidOf, nextUid, outQueue, reader>>
      /\ loopAt' \in {"top", "early", "stopped"}
      /\ removals' = removals \/ removals' = {}
  BY DEF EarlyBegin, MllmIdle, MllmStop, mllmVars, EarlyPreprocess, MllmInv, MllmTyped
<1>2. MllmTyped'
  BY <1>1 DEF MllmInv, MllmTyped
<1>3. AllFiled'
  BY <1>1 DEF MllmInv, AllFiled, Filed, Served
<1>4. ASSUME loopAt' # "stopped" PROVE Worked'
  <2>1. CASE EarlyBegin \/ MllmIdle \/ UNCHANGED mllmVars
    <3>1. UNCHANGED <<unprocessed, rows, removals>> /\ loopAt # "stopped"
      BY <1>4, <2>1 DEF EarlyBegin, MllmIdle, mllmVars
    <3> QED BY <1>1, <3>1 DEF MllmInv, Worked, HasEntry, HasRow
  <2>2. CASE \E fails \in BOOLEAN : EarlyPreprocess(fails)
    <3>1. PICK fails \in BOOLEAN : EarlyPreprocess(fails)
      BY <2>2
    <3> DEFINE t == [i \in DOMAIN unprocessed |->
                       IF unprocessed[i].uid = Head(early)
                       THEN [unprocessed[i] EXCEPT !.ready = ~fails] ELSE unprocessed[i]]
    <3>2. loopAt = "early" /\ UNCHANGED <<rows, removals>> /\ unprocessed' = t
      BY <3>1 DEF EarlyPreprocess
    <3>3. Worked
      BY <3>2 DEF MllmInv
    <3>4. (~fails) \in BOOLEAN
      OBVIOUS
    <3>t. /\ unprocessed \in Seq(Entry) /\ t = [i \in 1..Len(unprocessed) |-> t[i]]
          /\ \A i \in 1..Len(unprocessed) :
               t[i] = IF unprocessed[i].uid = Head(early)
                      THEN [unprocessed[i] EXCEPT !.ready = ~fails] ELSE unprocessed[i]
      <4>1. unprocessed \in Seq(Entry)
        BY <3>3 DEF Worked
      <4>2. DOMAIN unprocessed = 1..Len(unprocessed)
        BY <4>1
      <4> QED BY <4>1, <4>2
    <3> HIDE DEF t
    <3>5. /\ t \in Seq(Entry) /\ IsInjective(t) /\ OneUid(ToSet(t))
          /\ \A e \in ToSet(t) : \E x \in ToSet(unprocessed) : e.uid = x.uid /\ e.r = x.r
          /\ \A x \in ToSet(unprocessed) : \E e \in ToSet(t) : e.uid = x.uid /\ e.r = x.r
      <4>1. unprocessed \in Seq(Entry) /\ IsInjective(unprocessed) /\ OneUid(ToSet(unprocessed))
        BY <3>3 DEF Worked
      <4>2. /\ t \in Seq(Entry) /\ Len(t) = Len(unprocessed)
            /\ \A i \in 1..Len(unprocessed) :
                 t[i].uid = unprocessed[i].uid /\ t[i].r = unprocessed[i].r
        <5>1. \A x \in Entry : LET y == [x EXCEPT !.ready = ~fails]
                              IN y \in Entry /\ y.uid = x.uid /\ y.r = x.r
          BY <3>4 DEF Entry
        <5>2. ASSUME NEW i \in 1..Len(unprocessed)
              PROVE  t[i] \in Entry /\ t[i].uid = unprocessed[i].uid /\ t[i].r = unprocessed[i].r
          <6>1. unprocessed[i] \in Entry
            BY <3>t
          <6>2. \/ t[i] = [unprocessed[i] EXCEPT !.ready = ~fails]
                \/ t[i] = unprocessed[i]
            BY <3>t
          <6> QED BY <5>1, <6>1, <6>2
        <5>3. \A k \in Nat : \A f \in [1..k -> Entry] : f \in Seq(Entry) /\ Len(f) = k
          OBVIOUS
        <5>4. t \in [1..Len(unprocessed) -> Entry] /\ Len(unprocessed) \in Nat
          BY <3>t, <5>2
        <5> QED BY <5>2, <5>3, <5>4
      <4> QED BY <4>1, <4>2, SameRequests
    <3>6. OtherUids(ToSet(t), ToSet(rows))
      BY <3>3, <3>5 DEF Worked, OtherUids
    <3>7. \A e \in ToSet(t) : e.uid < nextUid
      BY <3>3, <3>5 DEF Worked
    <3>8. \A r \in mRunning : HasEntry(r) => HasEntry(r)'
      BY <1>1, <3>2, <3>5 DEF HasEntry
    <3>9. \A r \in mRunning : HasRow(r) => HasRow(r)'
      BY <1>1, <3>2 DEF HasRow
    <3> QED BY <1>1, <3>2, <3>3, <3>5, <3>6, <3>7, <3>8, <3>9 DEF Worked
  <2>3. ~MllmStop
    BY <1>4 DEF MllmStop
  <2> QED BY <2>1, <2>2, <2>3
<1> QED BY <1>2, <1>3, <1>4 DEF MllmInv

\* Every step keeps the invariant when no decode raises.
LEMMA MllmInvStep ==
  ASSUME MllmAssumption, "decode" \notin MllmFaults, MllmInv, [MllmNext]_mllmVars
  PROVE  MllmInv'
BY MllmAddStep, MllmReadStep, MllmLeaveStep, MllmStepStep, MllmLoopStep DEF MllmNext

\* The work of a request that runs is in one place of the queue or of the batch.
LEMMA WorkedOnce ==
  ASSUME MllmInv PROVE MllmWorkOnce
<1> SUFFICES ASSUME Worked, NEW r \in mRunning
             PROVE  Cardinality({i \in DOMAIN unprocessed : unprocessed[i].uid = uidOf[r]})
                      + Cardinality({i \in DOMAIN rows : rows[i].uid = uidOf[r]}) = 1
  BY DEF MllmInv, MllmWorkOnce
<1> DEFINE u == uidOf[r]
           Q == {i \in DOMAIN unprocessed : unprocessed[i].uid = u}
           R == {i \in DOMAIN rows : rows[i].uid = u}
<1>1. /\ unprocessed \in Seq(Entry) /\ IsInjective(unprocessed) /\ OneUid(ToSet(unprocessed))
      /\ rows \in Seq(Row) /\ IsInjective(rows) /\ OneUid(ToSet(rows))
      /\ OtherUids(ToSet(unprocessed), ToSet(rows))
  BY DEF Worked
<1>2. /\ Cardinality(Q) = IF \E e \in ToSet(unprocessed) : e.uid = u THEN 1 ELSE 0
      /\ Cardinality(R) = IF \E e \in ToSet(rows) : e.uid = u THEN 1 ELSE 0
  BY <1>1, CountedOnce
<1>3. (\E e \in ToSet(unprocessed) : e.uid = u) \/ (\E e \in ToSet(rows) : e.uid = u)
  BY DEF Worked, HasEntry, HasRow
<1>4. ~((\E e \in ToSet(unprocessed) : e.uid = u) /\ (\E e \in ToSet(rows) : e.uid = u))
  BY <1>1 DEF OtherUids
<1> HIDE DEF Q, R, u
<1>5. Cardinality(Q) + Cardinality(R) = 1
  BY <1>2, <1>3, <1>4
<1> QED BY <1>5 DEF Q, R, u

\* What has no end has no last output; what has its end has one.
LEMMA LastOnce ==
  ASSUME NEW q \in Outputs, Plain(q) \/ Ended(q)
  PROVE  /\ Cardinality({i \in DOMAIN q : q[i] = "last"}) <= 1
         /\ "last" \in ToSet(q) => Ended(q) /\ q[Len(q) - 1] = "last"
         /\ Ended(q) => "last" \in ToSet(q)
<1>1. DOMAIN q = 1..Len(q) /\ Len(q) \in Nat
  BY DEF Outputs
<1>2. CASE Plain(q)
  <2>1. {i \in DOMAIN q : q[i] = "last"} = {}
    BY <1>1, <1>2 DEF Plain
  <2>2. "last" \notin ToSet(q)
    BY <1>1, <1>2 DEF Plain, ToSet
  <2>3. ~Ended(q)
    <3>1. ASSUME Ended(q) PROVE FALSE
      <4>1. Len(q) \in 1..Len(q) /\ q[Len(q)] = "end"
        BY <1>1, <3>1 DEF Ended
      <4> QED BY <1>2, <4>1 DEF Plain
    <3> QED BY <3>1
  <2>4. Cardinality({}) = 0
    BY FS_EmptySet
  <2>5. Cardinality({i \in DOMAIN q : q[i] = "last"}) <= 1
    BY <2>1, <2>4
  <2> QED BY <2>2, <2>3, <2>5
<1>3. CASE Ended(q)
  <2> DEFINE P == {i \in DOMAIN q : q[i] = "last"}
             k == Len(q) - 1
  <2>1. P = {k}
    BY <1>1, <1>3 DEF Ended
  <2>2. Len(q) - 1 \in DOMAIN q /\ q[Len(q) - 1] = "last"
    BY <1>1, <1>3 DEF Ended
  <2>3. "last" \in ToSet(q)
    BY <2>2 DEF ToSet
  <2> HIDE DEF P, k
  <2>4. Cardinality({k}) = 1
    BY FS_Singleton
  <2>5. Cardinality(P) <= 1
    BY <2>1, <2>4
  <2> USE DEF P
  <2> QED BY <1>3, <2>2, <2>3, <2>5
<1> QED BY <1>2, <1>3

\* The invariant is stronger than what is checked.
LEMMA MllmInvServes ==
  ASSUME MllmAssumption, MllmInv PROVE MllmServed
<1>1. MllmWorkOnce
  BY WorkedOnce
<1>2. MllmReaderServed
  <2> SUFFICES ASSUME NEW r \in MllmReqs, reader[r] = "reading", ~Served(r)
               PROVE  "last" \in ToSet(outQueue[r])
    BY DEF MllmReaderServed, Served
  <2>1. Ended(outQueue[r]) /\ outQueue[r] \in Outputs
    BY DEF MllmInv, MllmTyped, AllFiled, Filed
  <2> QED BY <2>1, LastOnce
<1>3. MllmOutputs
  <2> SUFFICES ASSUME NEW r \in MllmReqs
               PROVE  LET q == outQueue[r]
                      IN /\ Cardinality({i \in DOMAIN q : q[i] = "last"}) <= 1
                         /\ Len(q) <= MllmTokens + 1
                         /\ "last" \in ToSet(q) => q[Len(q) - 1] = "last"
                         /\ "last" \in ToSet(q) => r \notin mRunning
    BY DEF MllmOutputs
  <2> DEFINE q == outQueue[r]
  <2>1. q \in Outputs /\ Filed(r)
    BY DEF MllmInv, MllmTyped, AllFiled
  <2>2. Plain(<<>>)
    BY DEF Plain
  <2>3. Plain(q) \/ Ended(q)
    BY <2>1, <2>2 DEF Filed
  <2>4. r \in mRunning => Plain(q)
    BY <2>1 DEF Filed, Served
  <2>5. Len(q) <= MllmTokens + 1
    BY <2>1 DEF Filed
  <2> HIDE DEF q
  <2>6. Plain(q) => "last" \notin ToSet(q)
    <3>1. DOMAIN q = 1..Len(q)
      BY <2>1 DEF Outputs
    <3> QED BY <3>1 DEF Plain, ToSet
  <2>7. /\ Cardinality({i \in DOMAIN q : q[i] = "last"}) <= 1
        /\ "last" \in ToSet(q) => q[Len(q) - 1] = "last"
    BY <2>1, <2>3, LastOnce
  <2> QED BY <2>4, <2>5, <2>6, <2>7 DEF q
<1> QED BY <1>1, <1>2, <1>3 DEF MllmServed

\* Work once, an end for every reader and no output too many (_schedule_waiting, _next,
\* _process_batch_responses, abort_request), for any number of requests, rows and tokens, when no
\* decode raises: one that does takes the responses of its step with it.
THEOREM MllmServes ==
  ASSUME MllmAssumption, "decode" \notin MllmFaults
  PROVE  MllmSpec => []MllmServed
<1>1. MllmInit => MllmInv
  BY MllmInvInit
<1>2. MllmInv /\ [MllmNext]_mllmVars => MllmInv'
  BY MllmInvStep
<1>3. MllmInv => MllmServed
  BY MllmInvServes
<1> QED BY <1>1, <1>2, <1>3, PTL DEF MllmSpec

--------------------------------------------------------------------------------
(* DraftDecode: prompts in chunks, rows and drafts.                          *)

\* One draft at a time: one row in the modes with drafts, and one prompt in a chunked prefill
\* (the multimodal generator has none).
OneDraftAtATime == \A m \in DdModes : (m.mtp => m.cap = 1) /\ (m.mllm \/ m.pre = 1)

DdRow == [uid : DdSeqs, kv : Seq(Nat), y : Nat, n : Nat]
RowUids(batch) == {e.uid : e \in ToSet(batch)}

\* How far the cache is ahead of the token a row is to be fed next: it is as in decoding
\* without drafts (0), it has that token already (1), or an accepted draft too (2).
AheadBy(e, k, drafts, kept) ==
  /\ e.kv = UpTo(e.y + k - 1)
  /\ drafts[e.uid] = IF k = 2 THEN e.y + 1 ELSE 0
  /\ kept = IF k = 0 THEN <<>> ELSE <<e.y + k>>
  /\ k # 0 => ddMode.mtp
RowAt(e, said, drafts, kept) ==
  /\ e.n = Len(said[e.uid]) /\ e.n < DdTokens /\ e.y = DdLen[e.uid] + e.n + 1
  /\ \E k \in 0..2 : AheadBy(e, k, drafts, kept)
SaidInTurn(u, said) ==
  /\ said[u] \in Seq(Nat) /\ Len(said[u]) <= DdTokens
  /\ \A i \in 1..Len(said[u]) : said[u][i] = DdLen[u] + i

RowsReady(batch, kept, drafts, left) ==
  /\ batch \in Seq(DdRow) /\ IsInjective(batch) /\ OneUid(ToSet(batch))
  /\ ddMode.mtp => Len(batch) <= 1
  /\ ~ddMode.mtp => kept = <<>>
  /\ \A e \in ToSet(batch) : RowAt(e, heard, drafts, kept) /\ left[e.uid] = 0

\* The first n positions, and one or two more.
LEMMA UpToGrows ==
  ASSUME NEW n \in Nat
  PROVE  /\ UpTo(n) \in Seq(Nat) /\ Len(UpTo(n)) = n /\ UpTo(n) \o <<>> = UpTo(n)
         /\ Append(UpTo(n), n + 1) = UpTo(n + 1)
         /\ UpTo(n) \o <<n + 1>> = UpTo(n + 1)
         /\ UpTo(n) \o <<n + 1, n + 2>> = UpTo(n + 2)
<1>1. UpTo(n) \in Seq(Nat) /\ Len(UpTo(n)) = n /\ \A i \in 1..n : UpTo(n)[i] = i
  BY DEF UpTo
<1>2. \A s \in Seq(Nat) : s \o <<>> = s
  OBVIOUS
<1>3. \A k \in {n + 1, n + 2} : UpTo(k) \in Seq(Nat) /\ Len(UpTo(k)) = k /\ \A i \in 1..k : UpTo(k)[i] = i
  BY DEF UpTo
<1> DEFINE a == Append(UpTo(n), n + 1)
           b == UpTo(n) \o <<n + 1>>
           c == UpTo(n) \o <<n + 1, n + 2>>
<1>4. /\ a \in Seq(Nat) /\ Len(a) = n + 1 /\ \A i \in 1..(n + 1) : a[i] = i
      /\ b \in Seq(Nat) /\ Len(b) = n + 1 /\ \A i \in 1..(n + 1) : b[i] = i
      /\ c \in Seq(Nat) /\ Len(c) = n + 2 /\ \A i \in 1..(n + 2) : c[i] = i
  <2> DEFINE u == UpTo(n)
  <2> HIDE DEF u
  <2>1. u \in Seq(Nat) /\ Len(u) = n /\ \A i \in 1..n : u[i] = i
    BY <1>1 DEF u
  <2>2. /\ Append(u, n + 1) \in Seq(Nat) /\ Len(Append(u, n + 1)) = n + 1
        /\ \A i \in 1..(n + 1) : Append(u, n + 1)[i] = i
    BY <2>1
  <2>3. /\ u \o <<n + 1>> \in Seq(Nat) /\ Len(u \o <<n + 1>>) = n + 1
        /\ \A i \in 1..(n + 1) : (u \o <<n + 1>>)[i] = i
    BY <2>1
  <2>4. /\ u \o <<n + 1, n + 2>> \in Seq(Nat) /\ Len(u \o <<n + 1, n + 2>>) = n + 2
        /\ \A i \in 1..(n + 2) : (u \o <<n + 1, n + 2>>)[i] = i
    BY <2>1
  <2> QED BY <2>2, <2>3, <2>4 DEF u
<1>5. \A s, t \in Seq(Nat) : Len(s) = Len(t) /\ (\A i \in 1..Len(s) : s[i] = t[i]) => s = t
  OBVIOUS
<1> HIDE DEF a, b, c
<1>6. a = UpTo(n + 1)
  BY <1>3, <1>4, <1>5
<1>7. b = UpTo(n + 1)
  BY <1>3, <1>4, <1>5
<1>8. c = UpTo(n + 2)
  BY <1>3, <1>4, <1>5
<1> QED BY <1>1, <1>2, <1>6, <1>7, <1>8 DEF a, b, c

\* What a row's next token is, and what its cache has when it is drafted from.
LEMMA RowBefore ==
  ASSUME DdAssumption, ddMode \in DdModes, NEW batch, NEW kept, NEW drafts, NEW left,
         RowsReady(batch, kept, drafts, left), NEW i \in DOMAIN batch, NEW k \in 0..2,
         AheadBy(batch[i], k, drafts, kept), batch[i].y \in Nat \ {0}
  PROVE  /\ Primary(batch, kept, i) = batch[i].y + (IF k = 0 THEN 1 ELSE k)
         /\ BeforeDraft(batch, kept, i) = UpTo(Primary(batch, kept, i) - 1)
<1>1. DOMAIN batch = 1..Len(batch) /\ Len(batch) \in Nat /\ i \in 1..Len(batch) /\ batch # <<>>
  BY DEF RowsReady
<1> DEFINE y == batch[i].y
<1>2. CASE k = 0
  <2>1. kept = <<>> /\ Len(<<>>) = 0 /\ batch[i].kv = UpTo(y - 1)
    BY <1>2 DEF AheadBy
  <2>2. ~SkipUsed(batch, kept)
    BY <1>1, <2>1 DEF SkipUsed
  <2>3. Append(UpTo(y - 1), y) = UpTo(y)
    <3>1. y - 1 \in Nat /\ (y - 1) + 1 = y
      OBVIOUS
    <3> QED BY <3>1, UpToGrows
  <2> QED BY <1>2, <2>1, <2>2, <2>3 DEF Primary, BeforeDraft
<1>3. CASE k # 0
  <2>1. ddMode.mtp /\ kept = <<y + k>> /\ batch[i].kv = UpTo(y + k - 1)
    BY <1>3 DEF AheadBy
  <2>2. Len(batch) = 1 /\ i = 1
    BY <1>1, <2>1 DEF RowsReady
  <2>3. SkipUsed(batch, kept) /\ kept[i] = y + k
    BY <1>1, <2>1, <2>2 DEF SkipUsed, Drafts
  <2> QED BY <1>3, <2>1, <2>3 DEF Primary, BeforeDraft
<1> QED BY <1>2, <1>3

\* What the call of the model leaves in the cache of a row.
LEMMA RowVerified ==
  ASSUME NEW batch, NEW kept, NEW i, NEW verdict, NEW p \in Nat \ {0},
         p = Primary(batch, kept, i), BeforeDraft(batch, kept, i) = UpTo(p - 1)
  PROVE  Verified(batch, kept, i, verdict) =
           UpTo(p - 1 + (IF verdict = "accept" THEN 2 ELSE IF verdict = "reject" THEN 1 ELSE 0))
<1>1. p - 1 \in Nat /\ (p - 1) + 1 = p /\ (p - 1) + 2 = p + 1 /\ p - 1 + 0 = p - 1
  OBVIOUS
<1>2. /\ UpTo(p - 1) \o <<>> = UpTo(p - 1) /\ UpTo(p - 1) \o <<p>> = UpTo(p)
      /\ UpTo(p - 1) \o <<p, p + 1>> = UpTo(p + 1)
  BY <1>1, UpToGrows
<1>3. CASE verdict = "accept"
  BY <1>1, <1>2, <1>3 DEF Verified
<1>4. CASE verdict = "reject"
  BY <1>1, <1>2, <1>4 DEF Verified
<1>5. CASE verdict # "accept" /\ verdict # "reject"
  BY <1>1, <1>2, <1>5 DEF Verified
<1> QED BY <1>3, <1>4, <1>5

\* Where the row of a sequence is.
LEMMA PlaceOfRow ==
  ASSUME NEW batch \in Seq(DdRow), IsInjective(batch), OneUid(ToSet(batch)), NEW i \in DOMAIN batch
  PROVE  /\ RowOf(batch, batch[i].uid) = i /\ batch[i].uid \in UidsOf(batch)
         /\ batch[i] \in DdRow /\ batch[i] \in ToSet(batch)
<1>1. batch[i] \in DdRow /\ batch[i] \in ToSet(batch)
  BY DEF ToSet
<1>2. ASSUME NEW j \in DOMAIN batch, batch[j].uid = batch[i].uid PROVE j = i
  <2>1. batch[j] = batch[i]
    BY <1>2 DEF OneUid, ToSet
  <2> QED BY <2>1 DEF IsInjective
<1> QED BY <1>1, <1>2 DEF RowOf, UidsOf

\* One and two more tokens, as a client hears them.
LEMMA SaidOneMore ==
  ASSUME NEW s \in Seq(Nat), NEW b \in Nat, NEW y \in Nat, y = b + Len(s) + 1,
         \A j \in 1..Len(s) : s[j] = b + j
  PROVE  /\ s \o <<y>> \in Seq(Nat) /\ Len(s \o <<y>>) = Len(s) + 1
         /\ \A j \in 1..Len(s \o <<y>>) : (s \o <<y>>)[j] = b + j
         /\ (s \o <<y>>) \o <<y + 1>> \in Seq(Nat) /\ Len((s \o <<y>>) \o <<y + 1>>) = Len(s) + 2
         /\ \A j \in 1..Len((s \o <<y>>) \o <<y + 1>>) : ((s \o <<y>>) \o <<y + 1>>)[j] = b + j
         /\ (s \o <<y>>) \o <<>> = s \o <<y>>
<1> DEFINE a == s \o <<y>>
           c == a \o <<y + 1>>
<1>1. /\ a \in Seq(Nat) /\ Len(a) = Len(s) + 1 /\ Len(s) \in Nat
      /\ \A j \in 1..Len(s) : a[j] = s[j]
      /\ a[Len(s) + 1] = y
  OBVIOUS
<1> HIDE DEF a
<1>2. ASSUME NEW j \in 1..(Len(s) + 1) PROVE a[j] = b + j
  <2>1. CASE j = Len(s) + 1
    BY <1>1, <2>1
  <2>2. CASE j # Len(s) + 1
    <3>1. j \in 1..Len(s)
      BY <1>1, <2>2
    <3> QED BY <1>1, <3>1
  <2> QED BY <2>1, <2>2
<1>3. /\ c \in Seq(Nat) /\ Len(c) = Len(a) + 1 /\ c[Len(a) + 1] = y + 1
      /\ \A j \in 1..Len(a) : c[j] = a[j]
  BY <1>1
<1>4. a \o <<>> = a
  BY <1>1
<1> HIDE DEF c
<1>5. ASSUME NEW j \in 1..(Len(s) + 2) PROVE c[j] = b + j
  <2>1. CASE j = Len(s) + 2
    <3>1. j = Len(a) + 1
      BY <1>1, <2>1
    <3>2. y + 1 = b + j
      BY <1>1, <2>1
    <3> QED BY <1>3, <3>1, <3>2
  <2>2. CASE j # Len(s) + 2
    <3>1. j \in 1..(Len(s) + 1) /\ j \in 1..Len(a)
      BY <1>1, <2>2
    <3> QED BY <1>2, <1>3, <3>1
  <2> QED BY <2>1, <2>2
<1>6. Len(c) = Len(s) + 2
  BY <1>1, <1>3
<1> QED
  <2>1. \A j \in 1..Len(a) : a[j] = b + j
    BY <1>1, <1>2
  <2>2. \A j \in 1..Len(c) : c[j] = b + j
    BY <1>5, <1>6
  <2> QED BY <1>1, <1>3, <1>4, <1>6, <2>1, <2>2 DEF a, c

\* What a step of the model makes of one row: said, later and next are heard, the drafts
\* and the skip state after it, r is the row.
StepOfRow(batch, kept, drafts, left, i, verdict, stops, draftStops, ended, extra, gone,
          u, said, later, next, r) ==
  /\ ended = EndedBy(batch, 1, stops)
  /\ extra = Augmented(batch, drafts, ended)
  /\ gone = ended \cup (extra \cap EndedBy(batch, 2, draftStops))
  /\ u = batch[i].uid
  /\ u \in extra => said[u] = (heard[u] \o <<batch[i].y>>) \o <<drafts[u]>>
  /\ u \notin extra => said[u] = (heard[u] \o <<batch[i].y>>) \o <<>>
  /\ later[u] = IF u \in ended /\ Range(drafts) # {0} THEN 0
                ELSE DeferredAfter(batch, kept, verdict, left)[u]
  /\ next = SkipAfter(batch, kept, verdict)
  /\ r = [uid |-> u, kv |-> Verified(batch, kept, i, verdict), y |-> Primary(batch, kept, i),
          n |-> batch[i].n + (IF u \in extra THEN 2 ELSE 1)]

\* A step of the model, for one row: what its client hears is next in its text, and the
\* row that stays is again in step with its cache.
LEMMA RowStepped ==
  ASSUME DdAssumption, ddMode \in DdModes, NEW batch, NEW kept, NEW drafts, NEW left,
         RowsReady(batch, kept, drafts, left), NEW i, i \in DOMAIN batch,
         NEW verdict, verdict \in Verdicts(batch), NEW stops, NEW draftStops, NEW ended,
         NEW extra, NEW gone, NEW u, SaidInTurn(u, heard), NEW said, NEW later, NEW next, NEW r,
         StepOfRow(batch, kept, drafts, left, i, verdict, stops, draftStops, ended, extra, gone,
                   u, said, later, next, r)
  PROVE  /\ SaidInTurn(u, said) /\ r \in DdRow
         /\ u \notin gone => RowAt(r, said, later, next)
<1>a. /\ ended = EndedBy(batch, 1, stops)
      /\ extra = Augmented(batch, drafts, ended)
      /\ gone = ended \cup (extra \cap EndedBy(batch, 2, draftStops))
      /\ u = batch[i].uid
  BY DEF StepOfRow
<1>b. /\ u \in extra => said[u] = (heard[u] \o <<batch[i].y>>) \o <<drafts[u]>>
      /\ u \notin extra => said[u] = (heard[u] \o <<batch[i].y>>) \o <<>>
  BY DEF StepOfRow
<1>c. /\ later[u] = IF u \in ended /\ Range(drafts) # {0} THEN 0
                    ELSE DeferredAfter(batch, kept, verdict, left)[u]
      /\ next = SkipAfter(batch, kept, verdict)
  BY DEF StepOfRow
<1>d. r = [uid |-> u, kv |-> Verified(batch, kept, i, verdict), y |-> Primary(batch, kept, i),
           n |-> batch[i].n + (IF u \in extra THEN 2 ELSE 1)]
  BY DEF StepOfRow
<1> DEFINE e == batch[i]
           p == Primary(batch, kept, i)
           twice == u \in extra
           w == IF verdict = "accept" THEN 2 ELSE IF verdict = "reject" THEN 1 ELSE 0
           m == IF twice THEN 2 ELSE 1
<1>1. /\ batch \in Seq(DdRow) /\ e \in DdRow /\ e \in ToSet(batch) /\ u \in DdSeqs
      /\ RowOf(batch, u) = i /\ u \in UidsOf(batch)
  BY <1>a, PlaceOfRow DEF RowsReady, DdRow
<1>2. RowAt(e, heard, drafts, kept) /\ left[u] = 0
  BY <1>1, <1>a DEF RowsReady
<1>3. PICK k \in 0..2 : AheadBy(e, k, drafts, kept)
  BY <1>2 DEF RowAt
<1> DEFINE n == e.n
           y == e.y
           b == DdLen[u]
<1>4. /\ n \in Nat /\ n = Len(heard[u]) /\ n < DdTokens /\ y = b + n + 1
      /\ y \in Nat \ {0} /\ b \in Nat /\ DdTokens \in Nat
  <2>1. e.uid = u /\ e.n \in Nat /\ e.y \in Nat
    BY <1>1, <1>a DEF DdRow
  <2>2. DdLen[u] \in Nat \ {0} /\ DdTokens \in Nat
    BY <1>1 DEF DdAssumption
  <2>3. e.n = Len(heard[u]) /\ e.n < DdTokens /\ e.y = DdLen[u] + e.n + 1
    BY <1>2, <2>1 DEF RowAt
  <2> QED BY <2>1, <2>2, <2>3
<1>5. p = y + (IF k = 0 THEN 1 ELSE k) /\ BeforeDraft(batch, kept, i) = UpTo(p - 1)
  <2>1. e.y \in Nat \ {0}
    BY <1>4
  <2> QED BY <1>3, <2>1, RowBefore
<1>6. drafts[u] = IF k = 2 THEN y + 1 ELSE 0
  BY <1>3, <1>a DEF AheadBy
<1> HIDE DEF p, n, y
<1>7. p \in Nat \ {0} /\ p = y + (IF k = 2 THEN 2 ELSE 1)
  BY <1>4, <1>5
<1>8. Verified(batch, kept, i, verdict) = UpTo(p - 1 + w)
  <2>1. p = Primary(batch, kept, i)
    BY DEF p
  <2> QED BY <1>5, <1>7, <2>1, RowVerified
<1>9. u \in ended <=> u \in stops \/ n + 1 >= DdTokens
  BY <1>1, <1>a DEF EndedBy, n
<1>10. twice <=> u \notin ended /\ k = 2
  <2>1. drafts[u] # 0 <=> k = 2
    BY <1>4, <1>6
  <2> QED BY <1>1, <1>a, <2>1 DEF Augmented
<1>11. /\ twice => said[u] = (heard[u] \o <<y>>) \o <<y + 1>>
       /\ ~twice => said[u] = (heard[u] \o <<y>>) \o <<>>
  <2>1. twice => drafts[u] = y + 1
    BY <1>6, <1>10
  <2> QED BY <1>b, <2>1 DEF y
<1> HIDE DEF b, twice
<1>0. w \in 0..2 /\ m \in 1..2 /\ (twice => m = 2) /\ (~twice => m = 1)
      /\ (w = 2 <=> verdict = "accept") /\ (w = 0 <=> verdict \notin {"accept", "reject"})
  OBVIOUS
<1> HIDE DEF w, m
<1>12. /\ said[u] \in Seq(Nat) /\ Len(said[u]) = n + m
       /\ \A j \in 1..Len(said[u]) : said[u][j] = b + j
  <2>1. heard[u] \in Seq(Nat) /\ \A j \in 1..Len(heard[u]) : heard[u][j] = b + j
    BY DEF SaidInTurn, b
  <2> DEFINE a == heard[u] \o <<y>>
             c == (heard[u] \o <<y>>) \o <<y + 1>>
  <2>3. /\ a \in Seq(Nat) /\ Len(a) = n + 1 /\ \A j \in 1..Len(a) : a[j] = b + j
        /\ c \in Seq(Nat) /\ Len(c) = n + 2 /\ \A j \in 1..Len(c) : c[j] = b + j
        /\ a \o <<>> = a
    <3>1. y = b + n + 1 /\ y \in Nat /\ n = Len(heard[u])
      BY <1>4
    <3>2. y = b + Len(heard[u]) + 1
      BY <3>1
    <3> DEFINE h == heard[u]
    <3>3. h \in Seq(Nat) /\ (\A j \in 1..Len(h) : h[j] = b + j) /\ y = b + Len(h) + 1 /\ n = Len(h)
      BY <2>1, <3>1, <3>2
    <3> HIDE DEF h
    <3>4. /\ h \o <<y>> \in Seq(Nat) /\ Len(h \o <<y>>) = Len(h) + 1
          /\ (\A j \in 1..Len(h \o <<y>>) : (h \o <<y>>)[j] = b + j)
          /\ (h \o <<y>>) \o <<y + 1>> \in Seq(Nat) /\ Len((h \o <<y>>) \o <<y + 1>>) = Len(h) + 2
          /\ (\A j \in 1..Len((h \o <<y>>) \o <<y + 1>>) : ((h \o <<y>>) \o <<y + 1>>)[j] = b + j)
          /\ (h \o <<y>>) \o <<>> = h \o <<y>>
      <4>1. h \in Seq(Nat) /\ b \in Nat /\ y \in Nat /\ y = b + Len(h) + 1
            /\ \A j \in 1..Len(h) : h[j] = b + j
        BY <1>4, <3>1, <3>3
      <4> QED BY ONLY <4>1, SaidOneMore
    <3> QED BY <3>3, <3>4 DEF h
  <2>4. IF twice THEN said[u] = c ELSE said[u] = a
    BY <1>11, <2>3
  <2> HIDE DEF a, c
  <2> QED BY <1>0, <2>3, <2>4
<1>13. SaidInTurn(u, said)
  <2>1. n + 1 <= DdTokens /\ (twice => n + 2 <= DdTokens)
    BY <1>4, <1>9, <1>10
  <2>2. Len(said[u]) <= DdTokens
    BY <1>0, <1>12, <2>1
  <2> QED BY <1>12, <2>2 DEF SaidInTurn, b
<1>14. r \in DdRow
  <2>1. p - 1 + w \in Nat
    BY <1>7, <1>0
  <2>2. UpTo(p - 1 + w) \in Seq(Nat)
    BY <2>1, UpToGrows
  <2>3. n + m \in Nat
    BY <1>4, <1>0
  <2>4. /\ r.n = n + m /\ r.y = p /\ r.uid = u
        /\ r.kv = UpTo(p - 1 + w)
    BY <1>8, <1>d DEF n, p, m, twice
  <2>5. r = [uid |-> r.uid, kv |-> r.kv, y |-> r.y, n |-> r.n]
    BY <1>d
  <2> QED BY <1>1, <1>7, <2>2, <2>3, <2>4, <2>5 DEF DdRow
<1>15. ASSUME u \notin gone PROVE RowAt(r, said, later, next)
  <2>1. u \notin ended /\ n + 1 < DdTokens
    BY <1>4, <1>9, <1>15, <1>a
  <2>2. ASSUME twice PROVE n + 2 < DdTokens
    <3>1. u \notin EndedBy(batch, 2, draftStops)
      BY <1>a, <1>15, <2>2 DEF twice
    <3>2. ~(n + 2 >= DdTokens)
      BY <1>1, <3>1 DEF EndedBy, n
    <3> QED BY <1>4, <3>2
  <2>3. /\ r.uid = u /\ r.y = p /\ r.n = n + m
        /\ r.kv = UpTo(p - 1 + w)
    BY <1>8, <1>d DEF n, p, m, twice
  <2>4. r.n = Len(said[u]) /\ r.n < DdTokens
    BY <1>4, <1>0, <1>12, <2>1, <2>2, <2>3
  <2>5. twice <=> k = 2
    BY <1>10, <2>1
  <2>6. r.y = b + r.n + 1
    <3>1. m = IF k = 2 THEN 2 ELSE 1
      BY <1>0, <2>5
    <3>2. p = y + m
      BY <1>7, <3>1
    <3>3. p = b + (n + m) + 1
      BY <1>4, <1>0, <3>2
    <3> QED BY <2>3, <3>3
  <2>7. later[u] = IF verdict = "accept" THEN p + 1 ELSE 0
    <3>1. later[u] = DeferredAfter(batch, kept, verdict, left)[u]
      BY <2>1, <1>c
    <3> QED BY <1>1, <1>2, <1>0, <3>1 DEF DeferredAfter, p
  <2>8. w # 0 => ddMode.mtp /\ Drafts(batch)
    BY <1>0 DEF Verdicts, Drafts
  <2>9. next = IF w = 0 THEN <<>> ELSE <<p + w>>
    <3>1. CASE w = 0
      BY <1>0, <1>c, <3>1 DEF SkipAfter, NoSkip
    <3>2. CASE w # 0
      <4>1. Len(batch) = 1 /\ DOMAIN batch = {1} /\ i = 1
        <5>1. Len(batch) <= 1
          BY <2>8, <3>2 DEF RowsReady
        <5>2. DOMAIN batch = 1..Len(batch) /\ Len(batch) \in Nat /\ i \in 1..Len(batch)
          BY <1>1
        <5> QED BY <5>1, <5>2
      <4>2. next = [j \in {1} |-> Primary(batch, kept, j) + w]
        BY <1>0, <1>c, <3>2, <4>1 DEF SkipAfter, w
      <4>3. next = <<p + w>>
        <5>1. \A j \in {1} : Primary(batch, kept, j) = p
          BY <4>1 DEF p
        <5>2. next = [j \in {1} |-> p + w]
          BY <4>2, <5>1
        <5> QED BY <5>2
      <4> QED BY <3>2, <4>3
    <3> QED BY <3>1, <3>2
  <2>10. p - 1 + w = p + w - 1
    BY <1>7, <1>0
  <2>11. AheadBy(r, w, later, next)
    BY <1>0, <2>3, <2>7, <2>8, <2>9, <2>10 DEF AheadBy
  <2> QED BY <1>0, <2>3, <2>4, <2>6, <2>11 DEF RowAt, b
<1> QED BY <1>13, <1>14, <1>15

\* What a step of the model leaves when the sequences in gone end.
Stepped(batch, left, gone) ==
  /\ decoding' \in Seq(DdRow) /\ IsInjective(decoding') /\ OneUid(ToSet(decoding'))
  /\ Len(decoding') <= Len(batch)
  /\ RowUids(decoding') = RowUids(batch) \ gone
  /\ \A e \in ToSet(decoding') : RowAt(e, heard', deferred', skip')
  /\ \A u \in DdSeqs : SaidInTurn(u, heard')
  /\ \A u \in DdSeqs \ RowUids(batch) : heard'[u] = heard[u] /\ deferred'[u] \in {0, left[u]}
  /\ ~ddMode.mtp => skip' = <<>>
  /\ over' = over \cup gone

\* The uids of a batch, as the code and as the proof reads them.
LEMMA UidsAreOfRows ==
  ASSUME NEW batch \in Seq(DdRow)
  PROVE  UidsOf(batch) = RowUids(batch)
BY DEF UidsOf, RowUids, ToSet

\* The rows that do not end, of rows that were all fed.
LEMMA RowsLeft ==
  ASSUME NEW batch \in Seq(DdRow), IsInjective(batch), OneUid(ToSet(batch)),
         NEW after \in [DOMAIN batch -> DdRow],
         \A i \in DOMAIN batch : after[i].uid = batch[i].uid,
         NEW gone
  PROVE  LET t == RowsBut(after, gone)
         IN /\ t \in Seq(DdRow) /\ IsInjective(t) /\ OneUid(ToSet(t)) /\ Len(t) <= Len(batch)
            /\ RowUids(t) = RowUids(batch) \ gone
            /\ \A e \in ToSet(t) : \E i \in DOMAIN batch : e = after[i] /\ e.uid \notin gone
<1>1. /\ after \in Seq(DdRow) /\ Len(after) = Len(batch) /\ DOMAIN batch = 1..Len(batch)
      /\ DOMAIN after = DOMAIN batch
  OBVIOUS
<1> DEFINE S == {e \in ToSet(after) : e.uid \notin gone}
           t == Selected(after, S)
<1>2. /\ t \in Seq(DdRow) /\ ToSet(t) = ToSet(after) \cap S /\ Len(t) <= Len(after)
      /\ IsInjective(after) => IsInjective(t)
  BY <1>1, SelectedQueue
<1>3. ASSUME NEW i \in DOMAIN batch, NEW j \in DOMAIN batch, batch[i].uid = batch[j].uid PROVE i = j
  <2>1. RowOf(batch, batch[i].uid) = i /\ RowOf(batch, batch[j].uid) = j
    BY PlaceOfRow
  <2> QED BY <1>3, <2>1
<1>4. IsInjective(after)
  <2> SUFFICES ASSUME NEW i \in DOMAIN batch, NEW j \in DOMAIN batch, after[i] = after[j] PROVE i = j
    BY <1>1 DEF IsInjective
  <2>1. batch[i].uid = batch[j].uid
    OBVIOUS
  <2> QED BY <1>3, <2>1
<1>5. ToSet(after) = {after[i] : i \in DOMAIN batch}
  BY <1>1 DEF ToSet
<1>6. OneUid(ToSet(after))
  <2> SUFFICES ASSUME NEW i \in DOMAIN batch, NEW j \in DOMAIN batch, after[i].uid = after[j].uid
               PROVE  after[i] = after[j]
    BY <1>5 DEF OneUid
  <2>1. batch[i].uid = batch[j].uid
    OBVIOUS
  <2> QED BY <1>3, <2>1
<1>7. \A e \in ToSet(t) : e \in ToSet(after) /\ e.uid \notin gone
  BY <1>2
<1>8. RowUids(t) = RowUids(batch) \ gone
  <2>1. ASSUME NEW e \in ToSet(t) PROVE e.uid \in RowUids(batch) \ gone
    <3>1. PICK i \in DOMAIN batch : e = after[i]
      BY <1>5, <1>7
    <3>2. e.uid = batch[i].uid /\ batch[i] \in ToSet(batch)
      BY <3>1 DEF ToSet
    <3> QED BY <1>7, <3>2 DEF RowUids
  <2>2. ASSUME NEW f \in ToSet(batch), f.uid \notin gone PROVE f.uid \in RowUids(t)
    <3>1. PICK i \in DOMAIN batch : f = batch[i]
      BY DEF ToSet
    <3>2. after[i] \in ToSet(after) /\ after[i].uid = f.uid
      BY <1>5, <3>1
    <3>3. after[i] \in ToSet(t)
      BY <1>2, <2>2, <3>2
    <3> QED BY <3>2, <3>3 DEF RowUids
  <2> HIDE DEF t
  <2>3. RowUids(t) \subseteq RowUids(batch) \ gone
    BY <2>1 DEF RowUids
  <2>4. RowUids(batch) \ gone \subseteq RowUids(t)
    BY <2>2 DEF RowUids
  <2> QED BY <2>3, <2>4
<1>9. \A e \in ToSet(t) : \E i \in DOMAIN batch : e = after[i] /\ e.uid \notin gone
  BY <1>5, <1>7
<1>10. OneUid(ToSet(t))
  BY <1>6, <1>7 DEF OneUid
<1>11. RowsBut(after, gone) = t
  BY DEF RowsBut
<1> HIDE DEF t
<1> QED BY <1>1, <1>2, <1>4, <1>8, <1>9, <1>10, <1>11

\* A step of the model, for all the rows.
LEMMA GenerateStep ==
  ASSUME DdAssumption, ddMode \in DdModes, NEW batch, NEW kept, NEW drafts, NEW left,
         RowsReady(batch, kept, drafts, left), \A u \in DdSeqs : SaidInTurn(u, heard),
         Generate(batch, kept, drafts, left)
  PROVE  \E gone \in SUBSET RowUids(batch) : Stepped(batch, left, gone)
<1>1. /\ batch \in Seq(DdRow) /\ IsInjective(batch) /\ OneUid(ToSet(batch))
      /\ UidsOf(batch) = RowUids(batch) /\ (~ddMode.mtp => kept = <<>>)
  BY UidsAreOfRows DEF RowsReady
<1>2. PICK verdict \in Verdicts(batch), stops \in SUBSET UidsOf(batch), draftStops \in SUBSET UidsOf(batch) :
        LET ended == EndedBy(batch, 1, stops)
            extra == Augmented(batch, drafts, ended)
            gone == ended \cup (extra \cap EndedBy(batch, 2, draftStops))
            after == [i \in DOMAIN batch |->
                       [uid |-> batch[i].uid, kv |-> Verified(batch, kept, i, verdict),
                        y |-> Primary(batch, kept, i),
                        n |-> batch[i].n + (IF batch[i].uid \in extra THEN 2 ELSE 1)]]
        IN /\ draftStops \subseteq extra
           /\ decoding' = RowsBut(after, gone)
           /\ skip' = IF batch = <<>> THEN kept ELSE SkipAfter(batch, kept, verdict)
           /\ deferred' = LET d == DeferredAfter(batch, kept, verdict, left)
                          IN [u \in DdSeqs |-> IF u \in ended /\ Range(drafts) # {0} THEN 0 ELSE d[u]]
           /\ heard' = [u \in DdSeqs |->
                heard[u] \o (IF u \in UidsOf(batch) THEN <<batch[RowOf(batch, u)].y>> ELSE <<>>)
                         \o (IF u \in extra THEN <<drafts[u]>> ELSE <<>>)]
           /\ over' = over \cup gone
  BY DEF Generate
<1> DEFINE ended == EndedBy(batch, 1, stops)
           extra == Augmented(batch, drafts, ended)
           gone == ended \cup (extra \cap EndedBy(batch, 2, draftStops))
           after == [i \in DOMAIN batch |->
                      [uid |-> batch[i].uid, kv |-> Verified(batch, kept, i, verdict),
                       y |-> Primary(batch, kept, i),
                       n |-> batch[i].n + (IF batch[i].uid \in extra THEN 2 ELSE 1)]]
           d == DeferredAfter(batch, kept, verdict, left)
<1>3. /\ decoding' = RowsBut(after, gone) /\ over' = over \cup gone
      /\ skip' = IF batch = <<>> THEN kept ELSE SkipAfter(batch, kept, verdict)
      /\ deferred' = [u \in DdSeqs |-> IF u \in ended /\ Range(drafts) # {0} THEN 0 ELSE d[u]]
  BY <1>2
<1>4. heard' = [u \in DdSeqs |->
                heard[u] \o (IF u \in UidsOf(batch) THEN <<batch[RowOf(batch, u)].y>> ELSE <<>>)
                         \o (IF u \in extra THEN <<drafts[u]>> ELSE <<>>)]
  BY <1>2
<1>5. gone \subseteq RowUids(batch) /\ extra \subseteq RowUids(batch) /\ ended \subseteq RowUids(batch)
  BY <1>1 DEF EndedBy, Augmented
<1>6. /\ DOMAIN after = DOMAIN batch
      /\ \A i \in DOMAIN batch :
           after[i] = [uid |-> batch[i].uid, kv |-> Verified(batch, kept, i, verdict),
                       y |-> Primary(batch, kept, i),
                       n |-> batch[i].n + (IF batch[i].uid \in extra THEN 2 ELSE 1)]
  OBVIOUS
<1> HIDE DEF ended, extra, gone, after, d
<1>7. ASSUME NEW i \in DOMAIN batch
      PROVE  /\ SaidInTurn(batch[i].uid, heard') /\ after[i] \in DdRow /\ after[i].uid = batch[i].uid
             /\ batch[i].uid \notin gone => RowAt(after[i], heard', deferred', skip')
  <2> DEFINE u == batch[i].uid
  <2>1. /\ RowOf(batch, u) = i /\ u \in UidsOf(batch) /\ u \in DdSeqs /\ batch # <<>>
    <3>1. /\ RowOf(batch, u) = i /\ u \in UidsOf(batch) /\ batch[i] \in DdRow
      BY <1>1, PlaceOfRow
    <3>2. batch # <<>>
      BY <1>1
    <3> QED BY <3>1, <3>2 DEF DdRow
  <2>2. /\ u \in extra => heard'[u] = (heard[u] \o <<batch[i].y>>) \o <<drafts[u]>>
        /\ u \notin extra => heard'[u] = (heard[u] \o <<batch[i].y>>) \o <<>>
    BY <1>4, <2>1
  <2>3. deferred'[u] = IF u \in ended /\ Range(drafts) # {0} THEN 0
                       ELSE DeferredAfter(batch, kept, verdict, left)[u]
    BY <1>3, <2>1 DEF d
  <2>4. skip' = SkipAfter(batch, kept, verdict)
    BY <1>3, <2>1
  <2>5. SaidInTurn(u, heard)
    BY <2>1
  <2>6. after[i] = [uid |-> u, kv |-> Verified(batch, kept, i, verdict), y |-> Primary(batch, kept, i),
                    n |-> batch[i].n + (IF u \in extra THEN 2 ELSE 1)]
    BY <1>6
  <2>7. /\ ended = EndedBy(batch, 1, stops) /\ extra = Augmented(batch, drafts, ended)
        /\ gone = ended \cup (extra \cap EndedBy(batch, 2, draftStops))
    BY DEF ended, extra, gone
  <2>8. after[i].uid = u
    BY <2>6
  <2>9. u = batch[i].uid
    OBVIOUS
  <2> DEFINE said == heard'
             later == deferred'
             next == skip'
             r == after[i]
  <2>10. /\ u \in extra => said[u] = (heard[u] \o <<batch[i].y>>) \o <<drafts[u]>>
         /\ u \notin extra => said[u] = (heard[u] \o <<batch[i].y>>) \o <<>>
         /\ later[u] = IF u \in ended /\ Range(drafts) # {0} THEN 0
                       ELSE DeferredAfter(batch, kept, verdict, left)[u]
         /\ next = SkipAfter(batch, kept, verdict)
         /\ r = [uid |-> u, kv |-> Verified(batch, kept, i, verdict), y |-> Primary(batch, kept, i),
                 n |-> batch[i].n + (IF u \in extra THEN 2 ELSE 1)]
    BY <2>2, <2>3, <2>4, <2>6
  <2> HIDE DEF u, said, later, next, r
  <2>11. SaidInTurn(u, said) /\ r \in DdRow /\ (u \notin gone => RowAt(r, said, later, next))
    <3>1. /\ DdAssumption /\ ddMode \in DdModes /\ RowsReady(batch, kept, drafts, left)
          /\ i \in DOMAIN batch /\ verdict \in Verdicts(batch)
      OBVIOUS
    <3>2. StepOfRow(batch, kept, drafts, left, i, verdict, stops, draftStops, ended, extra, gone,
                    u, said, later, next, r)
      BY <2>7, <2>9, <2>10 DEF StepOfRow
    <3> QED BY <2>5, <3>1, <3>2, RowStepped
  <2> QED BY <2>8, <2>11 DEF u, said, later, next, r
<1>8. /\ decoding' \in Seq(DdRow) /\ IsInjective(decoding') /\ OneUid(ToSet(decoding'))
      /\ Len(decoding') <= Len(batch) /\ RowUids(decoding') = RowUids(batch) \ gone
      /\ \A e \in ToSet(decoding') : \E i \in DOMAIN batch : e = after[i] /\ e.uid \notin gone
  <2>1. after \in [DOMAIN batch -> DdRow]
    BY <1>1, <1>6, <1>7 DEF after
  <2>2. \A i \in DOMAIN batch : after[i].uid = batch[i].uid
    BY <1>7
  <2>3. decoding' = RowsBut(after, gone)
    BY <1>3
  <2> DEFINE t == RowsBut(after, gone)
  <2>4. /\ t \in Seq(DdRow) /\ IsInjective(t) /\ OneUid(ToSet(t)) /\ Len(t) <= Len(batch)
        /\ RowUids(t) = RowUids(batch) \ gone
        /\ \A e \in ToSet(t) : \E i \in DOMAIN batch : e = after[i] /\ e.uid \notin gone
    BY <1>1, <1>6, <2>1, <2>2, RowsLeft
  <2> HIDE DEF t
  <2>5. decoding' = t
    BY <2>3 DEF t
  <2> QED BY <2>4, <2>5
<1>9. \A e \in ToSet(decoding') : RowAt(e, heard', deferred', skip')
  <2> SUFFICES ASSUME NEW e \in ToSet(decoding') PROVE RowAt(e, heard', deferred', skip')
    OBVIOUS
  <2>1. PICK i \in DOMAIN batch : e = after[i] /\ e.uid \notin gone
    BY <1>8
  <2> QED BY <1>7, <2>1
<1>10. ASSUME NEW u \in DdSeqs, u \notin RowUids(batch)
       PROVE  heard'[u] = heard[u] /\ deferred'[u] \in {0, left[u]}
  <2>1. u \notin UidsOf(batch) /\ u \notin extra
    BY <1>1, <1>5, <1>10
  <2>2. heard'[u] = (heard[u] \o <<>>) \o <<>>
    BY <1>4, <2>1
  <2>3. heard[u] \in Seq(Nat)
    BY DEF SaidInTurn
  <2>4. heard'[u] = heard[u]
    BY <2>2, <2>3
  <2>5. d[u] = left[u]
    BY <2>1 DEF d, DeferredAfter
  <2> QED BY <1>3, <2>4, <2>5
<1>11. ASSUME NEW u \in DdSeqs PROVE SaidInTurn(u, heard')
  <2>1. CASE u \in RowUids(batch)
    <3>1. PICK i \in DOMAIN batch : u = batch[i].uid
      BY <2>1 DEF RowUids, ToSet
    <3> QED BY <1>7, <3>1
  <2>2. CASE u \notin RowUids(batch)
    <3>1. heard'[u] = heard[u] /\ SaidInTurn(u, heard)
      BY <1>10, <2>2
    <3> QED BY <3>1 DEF SaidInTurn
  <2> QED BY <2>1, <2>2
<1>12. ~ddMode.mtp => skip' = <<>>
  <2> SUFFICES ASSUME ~ddMode.mtp PROVE skip' = <<>>
    OBVIOUS
  <2>1. verdict = "plain" /\ kept = <<>>
    BY <1>1 DEF Verdicts, Drafts
  <2> QED BY <1>3, <2>1 DEF SkipAfter, NoSkip
<1>13. Stepped(batch, left, gone)
  BY <1>3, <1>8, <1>9, <1>10, <1>11, <1>12 DEF Stepped
<1> QED BY <1>5, <1>13

\* A partial prefill is of one prompt.
PartialOne(p) ==
  /\ p = [uids |-> p.uids, done |-> p.done]
  /\ p.uids \in Seq(DdSeqs) /\ IsInjective(p.uids) /\ Len(p.uids) <= 1
  /\ p # NoPartial => Len(p.uids) = 1

\* The sequences before their first token.
Waiting == ToSet(prompts) \cup ToSet(partial.uids)
\* A sequence that is not over is in one of the three places.
DdPlaced ==
  /\ prompts \in Seq(DdSeqs) /\ IsInjective(prompts)
  /\ PartialOne(partial)
  /\ decoding \in Seq(DdRow) /\ IsInjective(decoding) /\ OneUid(ToSet(decoding))
  /\ ToSet(prompts) \cap ToSet(partial.uids) = {}
  /\ Waiting \cap RowUids(decoding) = {}
  /\ Waiting \cup RowUids(decoding) \subseteq Started \ over
  /\ over \subseteq Started /\ ddAborts \subseteq Started
  /\ Started \ (over \cup ddAborts) \subseteq Waiting \cup RowUids(decoding)
\* Rows and clients are in step; a sequence that is not decoding has neither text nor draft.
DdInStep ==
  /\ \A u \in DdSeqs : SaidInTurn(u, heard)
  /\ \A u \in DdSeqs \ (RowUids(decoding) \cup over) : heard[u] = <<>> /\ deferred[u] = 0
  /\ Len(decoding) + Len(partial.uids) <= ddMode.cap
  /\ ~ddMode.mtp => skip = <<>>
  /\ \A e \in ToSet(decoding) : RowAt(e, heard, deferred, skip)

DdInv == ddMode \in DdModes /\ hit \in [DdSeqs -> Int] /\ DdPlaced /\ DdInStep

\* What is empty.
LEMMA NoneQueued ==
  /\ <<>> \in Seq(DdSeqs) /\ <<>> \in Seq(DdRow) /\ IsInjective(<<>>) /\ ToSet(<<>>) = {}
  /\ Len(<<>>) = 0 /\ RowUids(<<>>) = {} /\ OneUid({}) /\ PartialOne(NoPartial)
  /\ NoPartial.uids = <<>>
<1>1. /\ <<>> \in Seq(DdSeqs) /\ <<>> \in Seq(DdRow) /\ IsInjective(<<>>) /\ ToSet(<<>>) = {}
      /\ Len(<<>>) = 0
  BY DEF IsInjective, ToSet
<1>2. NoPartial = [uids |-> <<>>, done |-> 0] /\ NoPartial.uids = <<>> /\ NoPartial.done = 0
  BY DEF NoPartial
<1>3. NoPartial = [uids |-> NoPartial.uids, done |-> NoPartial.done]
  BY <1>2
<1>4. PartialOne(NoPartial)
  BY <1>1, <1>2, <1>3 DEF PartialOne
<1> QED BY <1>1, <1>2, <1>4 DEF RowUids, OneUid

\* The invariant holds at the start.
LEMMA DdInvInit == ASSUME DdAssumption, DdInit PROVE DdInv
<1>1. ddMode \in DdModes /\ hit \in [DdSeqs -> Int] /\ Started = {}
  BY DEF DdInit, Started
<1>2. /\ prompts = <<>> /\ partial = NoPartial /\ decoding = <<>> /\ over = {} /\ ddAborts = {}
      /\ skip = <<>>
      /\ \A u \in DdSeqs : heard[u] = <<>> /\ deferred[u] = 0
  BY DEF DdInit, NoSkip
<1>3. DdPlaced
  BY <1>1, <1>2, NoneQueued DEF DdPlaced, Waiting
<1>4. \A u \in DdSeqs : SaidInTurn(u, heard)
  <2>1. \A u \in DdSeqs : heard[u] = <<>> /\ <<>> \in Seq(Nat) /\ Len(<<>>) = 0 /\ 0 <= DdTokens
    <3>1. DdTokens \in Nat
      BY DEF DdAssumption
    <3>2. <<>> \in Seq(Nat) /\ Len(<<>>) = 0
      OBVIOUS
    <3> QED BY <1>2, <3>1, <3>2
  <2>2. ASSUME NEW u \in DdSeqs PROVE SaidInTurn(u, heard)
    <3>1. \A i \in 1..0 : FALSE
      OBVIOUS
    <3> QED BY <2>1, <3>1 DEF SaidInTurn
  <2> QED BY <2>2
<1>5. 0 + 0 <= ddMode.cap
  BY <1>1 DEF DdAssumption
<1>6. DdInStep
  BY <1>2, <1>4, <1>5, NoneQueued DEF DdInStep
<1> QED BY <1>1, <1>3, <1>6 DEF DdInv

\* A prompt is submitted.
LEMMA DdInsertStep ==
  ASSUME DdAssumption, DdInv, NEW u \in DdSeqs, NEW cached \in DdHits[u], DdInsert(u, cached)
  PROVE  DdInv'
<1>1. /\ hit' = [hit EXCEPT ![u] = cached] /\ prompts' = Append(prompts, u) /\ hit[u] = -1
      /\ UNCHANGED <<ddMode, partial, decoding, skip, deferred, ddAborts, heard, over>>
  BY DEF DdInsert
<1>2. cached \in Nat /\ hit \in [DdSeqs -> Int] /\ u \notin Started
  <2>1. cached \in Nat
    BY DEF DdAssumption
  <2> QED BY <1>1, <2>1 DEF DdInv, Started
<1>3. hit' \in [DdSeqs -> Int] /\ Started' = Started \cup {u}
  <2>1. hit' \in [DdSeqs -> Int] /\ hit'[u] >= 0 /\ \A v \in DdSeqs : v # u => hit'[v] = hit[v]
    BY <1>1, <1>2
  <2> QED BY <2>1 DEF Started
<1>4. /\ prompts' \in Seq(DdSeqs) /\ ToSet(prompts') = ToSet(prompts) \cup {u}
      /\ IsInjective(prompts')
  <2>1. prompts \in Seq(DdSeqs) /\ IsInjective(prompts) /\ u \notin ToSet(prompts)
    BY <1>2 DEF DdInv, DdPlaced, Waiting
  <2> QED BY <1>1, <2>1, AppendToQueue
<1>5. Waiting' = Waiting \cup {u}
  BY <1>1, <1>4 DEF Waiting
<1>6. DdPlaced'
  BY <1>1, <1>2, <1>3, <1>4, <1>5 DEF DdInv, DdPlaced, Waiting, PartialOne, OneUid, RowUids
<1>7. DdInStep'
  BY <1>1 DEF DdInv, DdInStep, SaidInTurn, RowAt, AheadBy, RowUids
<1> QED BY <1>1, <1>3, <1>6, <1>7 DEF DdInv

\* An abort is asked for.
LEMMA DdAbortStep ==
  ASSUME DdInv, NEW u \in DdSeqs, DdAbort(u)
  PROVE  DdInv'
<1>1. /\ u \in Started /\ ddAborts' = ddAborts \cup {u}
      /\ UNCHANGED <<ddMode, hit, prompts, partial, decoding, skip, deferred, heard, over>>
  BY DEF DdAbort
<1>2. Started' = Started /\ Waiting' = Waiting
  BY <1>1 DEF Started, Waiting
<1>3. DdPlaced'
  BY <1>1, <1>2 DEF DdInv, DdPlaced, PartialOne, OneUid, RowUids
<1>4. DdInStep'
  BY <1>1 DEF DdInv, DdInStep, SaidInTurn, RowAt, AheadBy, RowUids
<1> QED BY <1>1, <1>3, <1>4 DEF DdInv

\* The rows that are left when some are removed.
LEMMA RowsKept ==
  ASSUME NEW batch \in Seq(DdRow), IsInjective(batch), OneUid(ToSet(batch)), NEW uids
  PROVE  LET t == RowsBut(batch, uids)
         IN /\ t \in Seq(DdRow) /\ IsInjective(t) /\ OneUid(ToSet(t)) /\ Len(t) <= Len(batch)
            /\ RowUids(t) = RowUids(batch) \ uids /\ ToSet(t) \subseteq ToSet(batch)
<1> DEFINE S == {e \in ToSet(batch) : e.uid \notin uids}
           t == Selected(batch, S)
<1>1. /\ t \in Seq(DdRow) /\ ToSet(t) = ToSet(batch) \cap S /\ Len(t) <= Len(batch)
      /\ IsInjective(t)
  BY SelectedQueue
<1>2. RowsBut(batch, uids) = t
  BY DEF RowsBut
<1> HIDE DEF t
<1>3. RowUids(t) = RowUids(batch) \ uids /\ OneUid(ToSet(t))
  BY <1>1 DEF RowUids, OneUid
<1> QED BY <1>1, <1>2, <1>3

\* Before a call, what was aborted is removed: a row, a prompt, the chunked prefill.
LEMMA DdDrainStep ==
  ASSUME DdAssumption, DdInv, DdDrain
  PROVE  DdInv'
<1>1. /\ ddAborts' = {} /\ over' = over \cup ddAborts
      /\ prompts' = Selected(prompts, DdSeqs \ ddAborts)
      /\ decoding' = RowsBut(decoding, ddAborts)
      /\ partial' = IF ToSet(partial.uids) \cap ddAborts # {} THEN NoPartial ELSE partial
      /\ UNCHANGED <<ddMode, hit, skip, deferred, heard>>
  BY DEF DdDrain
<1>2. /\ prompts \in Seq(DdSeqs) /\ IsInjective(prompts) /\ PartialOne(partial)
      /\ decoding \in Seq(DdRow) /\ IsInjective(decoding) /\ OneUid(ToSet(decoding))
  BY DEF DdInv, DdPlaced
<1>3. /\ prompts' \in Seq(DdSeqs) /\ IsInjective(prompts')
      /\ ToSet(prompts') = ToSet(prompts) \ ddAborts
  <2>1. /\ prompts' \in Seq(DdSeqs) /\ IsInjective(prompts')
        /\ ToSet(prompts') = ToSet(prompts) \cap (DdSeqs \ ddAborts)
    BY <1>1, <1>2, SelectedQueue
  <2>2. ToSet(prompts) \subseteq DdSeqs
    BY <1>2 DEF ToSet
  <2> QED BY <2>1, <2>2
<1>4. /\ decoding' \in Seq(DdRow) /\ IsInjective(decoding') /\ OneUid(ToSet(decoding'))
      /\ Len(decoding') <= Len(decoding)
      /\ RowUids(decoding') = RowUids(decoding) \ ddAborts
      /\ ToSet(decoding') \subseteq ToSet(decoding)
  BY <1>1, <1>2, RowsKept
<1>5. /\ PartialOne(partial') /\ ToSet(partial'.uids) = ToSet(partial.uids) \ ddAborts
      /\ Len(partial'.uids) <= Len(partial.uids) /\ Len(partial.uids) \in Nat
      /\ Len(partial'.uids) \in Nat
  <2>1. CASE ToSet(partial.uids) \cap ddAborts # {}
    <3>1. partial' = NoPartial
      BY <1>1, <2>1
    <3>2. \A u, v \in ToSet(partial.uids) : u = v
      <4>1. /\ DOMAIN partial.uids = 1..Len(partial.uids) /\ Len(partial.uids) \in Nat
            /\ Len(partial.uids) <= 1
        BY <1>2 DEF PartialOne
      <4>2. \A i, j \in DOMAIN partial.uids : i = j
        BY <4>1
      <4> QED BY <4>2 DEF ToSet
    <3>3. ToSet(partial.uids) \ ddAborts = {}
      BY <2>1, <3>2
    <3>4. Len(partial.uids) \in Nat
      BY <1>2 DEF PartialOne
    <3> QED BY <3>1, <3>3, <3>4, NoneQueued
  <2>2. CASE ToSet(partial.uids) \cap ddAborts = {}
    <3>1. partial' = partial
      BY <1>1, <2>2
    <3>2. Len(partial.uids) \in Nat
      BY <1>2 DEF PartialOne
    <3> QED BY <1>2, <2>2, <3>1, <3>2
  <2> QED BY <2>1, <2>2
<1>6. Waiting' = Waiting \ ddAborts /\ Started' = Started
  BY <1>1, <1>3, <1>5 DEF Waiting, Started
<1>7. DdPlaced'
  <2>1. /\ ToSet(prompts) \cap ToSet(partial.uids) = {}
        /\ Waiting \cap RowUids(decoding) = {}
        /\ Waiting \cup RowUids(decoding) \subseteq Started \ over
        /\ over \subseteq Started /\ ddAborts \subseteq Started
        /\ Started \ (over \cup ddAborts) \subseteq Waiting \cup RowUids(decoding)
    BY DEF DdInv, DdPlaced
  <2>2. /\ ToSet(prompts') \cap ToSet(partial'.uids) = {}
        /\ Waiting' \cap RowUids(decoding') = {}
        /\ Waiting' \cup RowUids(decoding') \subseteq Started' \ over'
        /\ over' \subseteq Started' /\ ddAborts' \subseteq Started'
        /\ Started' \ (over' \cup ddAborts') \subseteq Waiting' \cup RowUids(decoding')
    BY <1>1, <1>3, <1>4, <1>5, <1>6, <2>1
  <2>3. PartialOne(partial)' /\ (OneUid(ToSet(decoding)))' /\ (RowUids(decoding))' = RowUids(decoding')
    BY <1>4, <1>5 DEF PartialOne, OneUid, RowUids
  <2> QED BY <1>3, <1>4, <2>2, <2>3 DEF DdPlaced
<1>8. DdInStep'
  <2>1. /\ \A u \in DdSeqs : SaidInTurn(u, heard)
        /\ \A u \in DdSeqs \ (RowUids(decoding) \cup over) : heard[u] = <<>> /\ deferred[u] = 0
        /\ Len(decoding) + Len(partial.uids) <= ddMode.cap
        /\ ~ddMode.mtp => skip = <<>>
        /\ \A e \in ToSet(decoding) : RowAt(e, heard, deferred, skip)
    BY DEF DdInv, DdInStep
  <2>2. \A u \in DdSeqs \ (RowUids(decoding') \cup over') : heard'[u] = <<>> /\ deferred'[u] = 0
    BY <1>1, <1>4, <2>1
  <2>3. Len(decoding') + Len(partial'.uids) <= ddMode'.cap
    <3>1. Len(decoding) \in Nat /\ Len(decoding') \in Nat
      BY <1>2, <1>4
    <3>2. ddMode.cap \in Nat
      BY DEF DdInv, DdAssumption
    <3> QED BY <1>1, <1>4, <1>5, <2>1, <3>1, <3>2
  <2>4. (\A u \in DdSeqs : SaidInTurn(u, heard))'
    BY <1>1, <2>1 DEF SaidInTurn
  <2>5. (\A e \in ToSet(decoding) : RowAt(e, heard, deferred, skip))'
    <3>1. \A e \in ToSet(decoding') : RowAt(e, heard, deferred, skip)
      BY <1>4, <2>1
    <3> QED BY <1>1, <3>1 DEF RowAt, AheadBy
  <2>6. (RowUids(decoding))' = RowUids(decoding')
    BY DEF RowUids
  <2> QED BY <1>1, <2>1, <2>2, <2>3, <2>4, <2>5, <2>6 DEF DdInStep
<1> QED BY <1>1, <1>7, <1>8 DEF DdInv

\* A call takes its rows from where the sequences were, and leaves the others there;
\* only what is being aborted may be gone.
RowsTaken(batch) ==
  /\ prompts' \in Seq(DdSeqs) /\ IsInjective(prompts') /\ PartialOne(partial')
  /\ ToSet(prompts') \cap ToSet(partial'.uids) = {}
  /\ (ToSet(prompts') \cup ToSet(partial'.uids)) \cap RowUids(batch) = {}
  /\ ToSet(prompts') \cup ToSet(partial'.uids) \cup RowUids(batch)
       \subseteq Waiting \cup RowUids(decoding)
  /\ (Waiting \cup RowUids(decoding)) \ ddAborts
       \subseteq ToSet(prompts') \cup ToSet(partial'.uids) \cup RowUids(batch)
  /\ RowUids(decoding) \subseteq RowUids(batch)
  /\ Len(batch) + Len(partial'.uids) <= ddMode.cap

\* Rows taken from where the sequences were and stepped keep the invariant.
LEMMA CallKeeps ==
  ASSUME DdAssumption, DdInv, NEW batch, NEW left, NEW gone, batch \in Seq(DdRow),
         \A u \in DdSeqs : left[u] \in {0, deferred[u]},
         Stepped(batch, left, gone), gone \subseteq RowUids(batch), RowsTaken(batch),
         UNCHANGED <<ddMode, hit, ddAborts>>
  PROVE  DdInv'
<1> DEFINE P == ToSet(prompts')
           Q == ToSet(partial'.uids)
           R == RowUids(batch)
           D == RowUids(decoding')
<1>1. /\ decoding' \in Seq(DdRow) /\ IsInjective(decoding') /\ OneUid(ToSet(decoding'))
      /\ Len(decoding') <= Len(batch) /\ D = R \ gone /\ over' = over \cup gone
  BY DEF Stepped
<1>2. /\ prompts' \in Seq(DdSeqs) /\ IsInjective(prompts') /\ PartialOne(partial')
      /\ P \cap Q = {} /\ (P \cup Q) \cap R = {}
      /\ P \cup Q \cup R \subseteq Waiting \cup RowUids(decoding)
      /\ (Waiting \cup RowUids(decoding)) \ ddAborts \subseteq P \cup Q \cup R
      /\ RowUids(decoding) \subseteq R
      /\ Len(batch) + Len(partial'.uids) <= ddMode.cap
  BY DEF RowsTaken
<1>3. /\ Waiting \cup RowUids(decoding) \subseteq Started \ over
      /\ over \subseteq Started /\ ddAborts \subseteq Started
      /\ Started \ (over \cup ddAborts) \subseteq Waiting \cup RowUids(decoding)
  BY DEF DdInv, DdPlaced
<1>4. Started' = Started /\ Waiting' = P \cup Q /\ (RowUids(decoding))' = D
  BY DEF Started, Waiting, RowUids
<1> HIDE DEF P, Q, R, D
<1>5. /\ P \cap Q = {} /\ (P \cup Q) \cap D = {}
      /\ P \cup Q \cup D \subseteq Started \ over'
      /\ over' \subseteq Started
      /\ Started \ (over' \cup ddAborts) \subseteq P \cup Q \cup D
  <2>1. gone \subseteq R
    BY DEF R
  <2> QED BY <1>1, <1>2, <1>3, <2>1
<1>6. DdPlaced'
  <2>1. PartialOne(partial)' /\ (OneUid(ToSet(decoding)))'
    BY <1>1, <1>2 DEF PartialOne, OneUid
  <2>2. (prompts \in Seq(DdSeqs) /\ IsInjective(prompts))'
        /\ (decoding \in Seq(DdRow) /\ IsInjective(decoding))'
    BY <1>1, <1>2
  <2>3. (ToSet(prompts) \cap ToSet(partial.uids) = {})'
    BY <1>5 DEF P, Q
  <2>4. (Waiting \cap RowUids(decoding) = {})' /\ (over \subseteq Started /\ ddAborts \subseteq Started)'
        /\ (Waiting \cup RowUids(decoding) \subseteq Started \ over)'
        /\ (Started \ (over \cup ddAborts) \subseteq Waiting \cup RowUids(decoding))'
    BY <1>3, <1>4, <1>5
  <2> QED BY <2>1, <2>2, <2>3, <2>4 DEF DdPlaced
<1>7. DdInStep'
  <2>1. ASSUME NEW u \in DdSeqs \ (D \cup over') PROVE heard'[u] = <<>> /\ deferred'[u] = 0
    <3>1. u \notin R /\ u \notin over /\ u \notin RowUids(decoding)
      BY <1>1, <1>2
    <3>2. heard[u] = <<>> /\ deferred[u] = 0
      BY <3>1 DEF DdInv, DdInStep
    <3>3. heard'[u] = heard[u] /\ deferred'[u] \in {0, left[u]}
      BY <3>1 DEF Stepped, R
    <3> QED BY <3>2, <3>3
  <2>2. Len(decoding') + Len(partial'.uids) <= ddMode'.cap
    <3>1. Len(decoding') \in Nat /\ Len(batch) \in Nat /\ Len(partial'.uids) \in Nat
      BY <1>1, <1>2 DEF PartialOne
    <3>2. ddMode.cap \in Nat
      BY DEF DdInv, DdAssumption
    <3> QED BY <1>1, <1>2, <3>1, <3>2
  <2>3. (\A u \in DdSeqs : SaidInTurn(u, heard))'
    BY DEF Stepped, SaidInTurn
  <2>4. (\A e \in ToSet(decoding) : RowAt(e, heard, deferred, skip))'
    <3>1. \A e \in ToSet(decoding') : RowAt(e, heard', deferred', skip')
      BY DEF Stepped
    <3> QED BY <3>1 DEF RowAt, AheadBy
  <2>5. (~ddMode.mtp => skip = <<>>)'
    BY DEF Stepped
  <2>6. (\A u \in DdSeqs \ (RowUids(decoding) \cup over) : heard[u] = <<>> /\ deferred[u] = 0)'
    BY <1>4, <2>1
  <2> QED BY <2>2, <2>3, <2>4, <2>5, <2>6 DEF DdInStep
<1>8. ddMode' \in DdModes /\ hit' \in [DdSeqs -> Int]
  BY DEF DdInv
<1> QED BY <1>6, <1>7, <1>8 DEF DdInv

\* The rows of the batch as they are.
LEMMA BatchReady ==
  ASSUME DdAssumption, OneDraftAtATime, DdInv, NEW kept, NEW drafts, NEW left,
         decoding # <<>> => kept = skip, decoding = <<>> /\ ~ddMode.mtp => kept = <<>>,
         \A u \in RowUids(decoding) : drafts[u] = deferred[u] /\ left[u] = 0
  PROVE  RowsReady(decoding, kept, drafts, left)
<1>1. /\ decoding \in Seq(DdRow) /\ IsInjective(decoding) /\ OneUid(ToSet(decoding))
      /\ PartialOne(partial)
  BY DEF DdInv, DdPlaced
<1>2. ASSUME ddMode.mtp PROVE Len(decoding) <= 1
  <2>1. ddMode.cap = 1
    BY <1>2 DEF OneDraftAtATime, DdInv
  <2>2. Len(decoding) + Len(partial.uids) <= 1
    BY <2>1 DEF DdInv, DdInStep
  <2>3. Len(decoding) \in Nat /\ Len(partial.uids) \in Nat
    BY <1>1 DEF PartialOne
  <2> QED BY <2>2, <2>3
<1>3. ~ddMode.mtp => kept = <<>>
  BY DEF DdInv, DdInStep
<1>4. ASSUME NEW e \in ToSet(decoding) PROVE RowAt(e, heard, drafts, kept) /\ left[e.uid] = 0
  <2>1. e.uid \in RowUids(decoding) /\ decoding # <<>>
    BY <1>4 DEF RowUids, ToSet
  <2>2. drafts[e.uid] = deferred[e.uid] /\ left[e.uid] = 0 /\ kept = skip
    BY <2>1
  <2>3. RowAt(e, heard, deferred, skip)
    BY DEF DdInv, DdInStep
  <2> QED BY <2>2, <2>3 DEF RowAt, AheadBy
<1> QED BY <1>1, <1>2, <1>3, <1>4 DEF RowsReady

\* The rows that enter.
LEMMA RowsMade ==
  ASSUME DdAssumption, NEW uids \in Seq(DdSeqs), IsInjective(uids)
  PROVE  /\ NewRows(uids) \in Seq(DdRow) /\ IsInjective(NewRows(uids)) /\ Len(NewRows(uids)) = Len(uids)
         /\ OneUid(ToSet(NewRows(uids))) /\ RowUids(NewRows(uids)) = ToSet(uids)
         /\ \A e \in ToSet(NewRows(uids)) : \E u \in ToSet(uids) : e = NewRow(u)
<1> DEFINE t == NewRows(uids)
<1>1. ASSUME NEW u \in DdSeqs PROVE NewRow(u) \in DdRow /\ NewRow(u).uid = u
  <2>1. DdLen[u] \in Nat /\ DdLen[u] + 1 \in Nat /\ UpTo(DdLen[u]) \in Seq(Nat)
    <3>1. DdLen[u] \in Nat /\ DdLen[u] + 1 \in Nat
      BY DEF DdAssumption
    <3>2. UpTo(DdLen[u]) \in Seq(Nat)
      BY <3>1, UpToGrows
    <3> QED BY <3>1, <3>2
  <2> QED BY <2>1 DEF NewRow, DdRow
<1>2. DOMAIN uids = 1..Len(uids) /\ Len(uids) \in Nat /\ \A i \in 1..Len(uids) : uids[i] \in DdSeqs
  OBVIOUS
<1>3. t = [i \in DOMAIN uids |-> NewRow(uids[i])]
  BY DEF NewRows
<1>4. /\ t \in Seq(DdRow) /\ Len(t) = Len(uids) /\ DOMAIN t = DOMAIN uids
      /\ \A i \in DOMAIN uids : t[i] = NewRow(uids[i]) /\ t[i].uid = uids[i]
  BY <1>1, <1>2, <1>3
<1> HIDE DEF t
<1>5. IsInjective(t) /\ OneUid(ToSet(t))
  <2>1. ASSUME NEW i \in DOMAIN uids, NEW j \in DOMAIN uids, t[i].uid = t[j].uid PROVE i = j
    <3>1. uids[i] = uids[j]
      BY <1>4, <2>1
    <3> QED BY <3>1 DEF IsInjective
  <2>2. IsInjective(t)
    BY <1>4, <2>1 DEF IsInjective
  <2>3. OneUid(ToSet(t))
    BY <1>4, <2>1 DEF OneUid, ToSet
  <2> QED BY <2>2, <2>3
<1>6. \A e \in ToSet(t) : \E u \in ToSet(uids) : e = NewRow(u) /\ e.uid = u
  BY <1>4 DEF ToSet
<1>7. \A u \in ToSet(uids) : \E e \in ToSet(t) : e.uid = u
  BY <1>4 DEF ToSet
<1>8. RowUids(t) = ToSet(uids)
  <2>1. RowUids(t) \subseteq ToSet(uids)
    BY <1>6 DEF RowUids
  <2>2. ToSet(uids) \subseteq RowUids(t)
    BY <1>7 DEF RowUids
  <2> QED BY <2>1, <2>2
<1> QED BY <1>4, <1>5, <1>6, <1>8 DEF t

\* What a call has of drafts before it steps the model.
DraftsTaken(kept, drafts, left) ==
  /\ kept = IF decoding = <<>> THEN NoSkip ELSE skip
  /\ \A u \in DdSeqs : /\ drafts[u] = IF u \in RowUids(decoding) THEN deferred[u] ELSE 0
                       /\ left[u] = IF decoding = <<>> \/ u \in RowUids(decoding) THEN 0
                                    ELSE deferred[u]

\* The rows of the batch with those that enter; with drafts only one of the two is there.
LEMMA JoinedReady ==
  ASSUME DdAssumption, OneDraftAtATime, DdInv, NEW kept, NEW drafts, NEW left,
         DraftsTaken(kept, drafts, left), NEW uids \in Seq(DdSeqs), IsInjective(uids), uids # <<>>,
         ToSet(uids) \subseteq Waiting, Len(decoding) + Len(uids) <= ddMode.cap
  PROVE  /\ RowsReady(decoding \o NewRows(uids), NoSkip, drafts, left)
         /\ decoding \o NewRows(uids) \in Seq(DdRow)
         /\ RowUids(decoding \o NewRows(uids)) = RowUids(decoding) \cup ToSet(uids)
         /\ Len(decoding \o NewRows(uids)) = Len(decoding) + Len(uids)
<1>0. \A u \in DdSeqs : /\ drafts[u] = IF u \in RowUids(decoding) THEN deferred[u] ELSE 0
                        /\ left[u] \in {0, deferred[u]}
                        /\ u \in RowUids(decoding) => left[u] = 0
  BY DEF DraftsTaken
<1> DEFINE new == NewRows(uids)
           batch == decoding \o new
<1>1. /\ decoding \in Seq(DdRow) /\ IsInjective(decoding) /\ OneUid(ToSet(decoding))
      /\ ToSet(uids) \cap RowUids(decoding) = {} /\ ToSet(uids) \subseteq Started \ over
  BY DEF DdInv, DdPlaced
<1>2. /\ new \in Seq(DdRow) /\ IsInjective(new) /\ Len(new) = Len(uids)
      /\ OneUid(ToSet(new)) /\ RowUids(new) = ToSet(uids)
      /\ \A e \in ToSet(new) : \E u \in ToSet(uids) : e = NewRow(u)
  BY RowsMade
<1> HIDE DEF new
<1>3. ASSUME NEW e \in ToSet(decoding), NEW f \in ToSet(new) PROVE e.uid # f.uid
  <2>1. e.uid \in RowUids(decoding)
    BY DEF RowUids
  <2>2. f.uid \in RowUids(new)
    BY DEF RowUids
  <2> QED BY <1>1, <1>2, <2>1, <2>2
<1>4. /\ batch \in Seq(DdRow) /\ ToSet(batch) = ToSet(decoding) \cup ToSet(new) /\ IsInjective(batch)
      /\ Len(batch) = Len(decoding) + Len(uids)
  <2>1. ToSet(decoding) \cap ToSet(new) = {}
    BY <1>3
  <2>2. Len(batch) = Len(decoding) + Len(new)
    <3>1. \A a, b \in Seq(DdRow) : Len(a \o b) = Len(a) + Len(b)
      OBVIOUS
    <3> QED BY <1>1, <1>2, <3>1
  <2> QED BY <1>1, <1>2, <2>1, <2>2, PushLeft
<1> HIDE DEF batch
<1>5. OneUid(ToSet(batch)) /\ RowUids(batch) = RowUids(decoding) \cup ToSet(uids)
  BY <1>1, <1>2, <1>3, <1>4 DEF OneUid, RowUids
<1>6. Len(decoding) \in Nat /\ Len(uids) \in Nat /\ Len(uids) > 0
  BY <1>1
<1>7. ASSUME ddMode.mtp PROVE Len(batch) <= 1 /\ decoding = <<>>
  <2>1. ddMode.cap = 1
    BY <1>7 DEF OneDraftAtATime, DdInv
  <2>2. Len(batch) <= 1 /\ Len(decoding) = 0
    BY <1>4, <1>6, <2>1
  <2> QED BY <1>1, <2>2
<1>8. ASSUME NEW e \in ToSet(decoding) PROVE RowAt(e, heard, drafts, NoSkip) /\ left[e.uid] = 0
  <2>1. e.uid \in RowUids(decoding) /\ decoding # <<>> /\ e \in DdRow /\ e.uid \in DdSeqs
    <3>1. PICK i \in DOMAIN decoding : e = decoding[i]
      BY <1>8 DEF ToSet
    <3>2. e \in DdRow /\ decoding # <<>>
      BY <1>1, <3>1
    <3>3. e.uid \in DdSeqs
      BY <3>2 DEF DdRow
    <3>4. e.uid \in RowUids(decoding)
      BY <1>8 DEF RowUids
    <3> QED BY <3>2, <3>3, <3>4
  <2>2. ~ddMode.mtp
    BY <1>7, <2>1
  <2>3. skip = NoSkip /\ RowAt(e, heard, deferred, skip)
    BY <2>2 DEF DdInv, DdInStep, NoSkip
  <2>4. drafts[e.uid] = deferred[e.uid] /\ left[e.uid] = 0
    BY <1>0, <2>1
  <2> QED BY <2>3, <2>4 DEF RowAt, AheadBy
<1>9. ASSUME NEW e \in ToSet(new) PROVE RowAt(e, heard, drafts, NoSkip) /\ left[e.uid] = 0
  <2>1. PICK u \in ToSet(uids) : e = NewRow(u)
    BY <1>2
  <2>2. u \in DdSeqs /\ u \notin RowUids(decoding) /\ u \notin over
    BY <1>1, <2>1 DEF Started
  <2>3. heard[u] = <<>> /\ deferred[u] = 0
    BY <2>2 DEF DdInv, DdInStep
  <2>4. drafts[u] = 0 /\ left[u] = 0
    BY <1>0, <2>2, <2>3
  <2>5. DdLen[u] \in Nat /\ DdTokens \in Nat \ {0}
    BY <2>2 DEF DdAssumption
  <2>6. e.uid = u /\ e.kv = UpTo(DdLen[u]) /\ e.y = DdLen[u] + 1 /\ e.n = 0
    BY <2>1 DEF NewRow
  <2>7. Len(<<>>) = 0 /\ e.y + 0 - 1 = DdLen[u] /\ e.y = DdLen[u] + e.n + 1 /\ e.n < DdTokens
    <3> DEFINE b == DdLen[u]
               y == e.y
               n == e.n
    <3>1. b \in Nat /\ y = b + 1 /\ n = 0 /\ DdTokens \in Nat \ {0}
      BY <2>5, <2>6
    <3>2. Len(<<>>) = 0
      OBVIOUS
    <3> HIDE DEF b, y, n
    <3>3. y + 0 - 1 = b /\ y = b + n + 1 /\ n < DdTokens
      BY <3>1
    <3> QED BY <3>2, <3>3 DEF b, y, n
  <2>8. AheadBy(e, 0, drafts, NoSkip)
    BY <2>4, <2>6, <2>7 DEF AheadBy, NoSkip
  <2>9. 0 \in 0..2
    OBVIOUS
  <2> QED BY <2>3, <2>4, <2>6, <2>7, <2>8, <2>9 DEF RowAt
<1>10. RowsReady(batch, NoSkip, drafts, left)
  <2>1. \A e \in ToSet(batch) : RowAt(e, heard, drafts, NoSkip) /\ left[e.uid] = 0
    BY <1>4, <1>8, <1>9
  <2> QED BY <1>4, <1>5, <1>7, <2>1 DEF RowsReady, NoSkip
<1> QED BY <1>4, <1>5, <1>10 DEF batch, new

\* The same, of the rows that are ready to be stepped.
LEMMA CallMade ==
  ASSUME DdAssumption, DdInv, NEW batch, NEW kept, NEW drafts, NEW left,
         RowsReady(batch, kept, drafts, left), Generate(batch, kept, drafts, left),
         \A u \in DdSeqs : left[u] \in {0, deferred[u]}, RowsTaken(batch),
         UNCHANGED <<ddMode, hit, ddAborts>>
  PROVE  DdInv'
<1>1. ddMode \in DdModes /\ \A u \in DdSeqs : SaidInTurn(u, heard)
  BY DEF DdInv, DdInStep
<1>2. PICK gone \in SUBSET RowUids(batch) : Stepped(batch, left, gone)
  BY <1>1, GenerateStep
<1>3. batch \in Seq(DdRow)
  BY DEF RowsReady
<1> QED BY <1>2, <1>3, CallKeeps

\* A call that steps the batch as it is.
LEMMA BatchStep ==
  ASSUME DdAssumption, OneDraftAtATime, DdInv, NEW kept, NEW drafts, NEW left,
         DraftsTaken(kept, drafts, left), Generate(decoding, kept, drafts, left),
         RowsTaken(decoding), UNCHANGED <<ddMode, hit, ddAborts>>
  PROVE  DdInv'
<1>1. /\ decoding # <<>> => kept = skip
      /\ decoding = <<>> /\ ~ddMode.mtp => kept = <<>>
  BY DEF DraftsTaken, NoSkip
<1>2. RowUids(decoding) \subseteq DdSeqs
  BY DEF DdInv, DdPlaced, Started
<1>3. /\ \A u \in RowUids(decoding) : drafts[u] = deferred[u] /\ left[u] = 0
      /\ \A u \in DdSeqs : left[u] \in {0, deferred[u]}
  BY <1>2 DEF DraftsTaken
<1>4. RowsReady(decoding, kept, drafts, left)
  BY <1>1, <1>3, BatchReady
<1> QED BY <1>3, <1>4, CallMade

\* A call in which prompts join the batch.
LEMMA JoinedStep ==
  ASSUME DdAssumption, OneDraftAtATime, DdInv, NEW kept, NEW drafts, NEW left,
         DraftsTaken(kept, drafts, left),
         NEW uids \in Seq(DdSeqs), IsInjective(uids), uids # <<>>,
         Generate(decoding \o NewRows(uids), NoSkip, drafts, left),
         ToSet(uids) \subseteq Waiting,
         prompts' \in Seq(DdSeqs), IsInjective(prompts'), partial' = NoPartial,
         ToSet(prompts') \cup ToSet(uids) = Waiting, ToSet(prompts') \cap ToSet(uids) = {},
         Len(decoding) + Len(uids) <= ddMode.cap,
         UNCHANGED <<ddMode, hit, ddAborts>>
  PROVE  DdInv'
<1>1. \A u \in DdSeqs : /\ drafts[u] = IF u \in RowUids(decoding) THEN deferred[u] ELSE 0
                        /\ left[u] \in {0, deferred[u]}
                        /\ u \in RowUids(decoding) => left[u] = 0
  BY DEF DraftsTaken
<1> DEFINE batch == decoding \o NewRows(uids)
<1>2. /\ RowsReady(batch, NoSkip, drafts, left) /\ batch \in Seq(DdRow)
      /\ RowUids(batch) = RowUids(decoding) \cup ToSet(uids)
      /\ Len(batch) = Len(decoding) + Len(uids)
  BY JoinedReady
<1>3. Generate(batch, NoSkip, drafts, left)
  OBVIOUS
<1> HIDE DEF batch
<1>4. Waiting \cap RowUids(decoding) = {}
  BY DEF DdInv, DdPlaced
<1>5. Len(batch) + 0 <= ddMode.cap
  BY <1>2
<1>6. RowsTaken(batch)
  BY <1>2, <1>4, <1>5, NoneQueued DEF RowsTaken
<1> QED BY <1>1, <1>2, <1>3, <1>6, CallMade

\* A chunked prefill of one prompt.
LEMMA PartialMade ==
  ASSUME NEW uids \in Seq(DdSeqs), IsInjective(uids), Len(uids) = 1, NEW done
  PROVE  /\ PartialOne([uids |-> uids, done |-> done])
         /\ [uids |-> uids, done |-> done].uids = uids
<1> DEFINE p == [uids |-> uids, done |-> done]
<1>1. p.uids = uids /\ p.done = done /\ p = [uids |-> p.uids, done |-> p.done]
  OBVIOUS
<1> HIDE DEF p
<1>2. p.uids \in Seq(DdSeqs) /\ IsInjective(p.uids) /\ Len(p.uids) = 1 /\ Len(p.uids) <= 1
  <2>1. Len(uids) <= 1
    OBVIOUS
  <2> QED BY <1>1, <2>1, Zenon
<1>3. PartialOne(p)
  BY <1>1, <1>2 DEF PartialOne
<1> QED BY <1>1, <1>3 DEF p

\* A chunked prefill goes on: another chunk, or its prompt joins the batch.
LEMMA PartialStep ==
  ASSUME DdAssumption, OneDraftAtATime, DdInv, NEW kept, NEW drafts, NEW left,
         DraftsTaken(kept, drafts, left), partial # NoPartial,
         ContinuePartial(kept, drafts, left), UNCHANGED <<ddMode, hit, ddAborts>>
  PROVE  DdInv'
<1>1. /\ PartialOne(partial) /\ prompts \in Seq(DdSeqs) /\ IsInjective(prompts)
      /\ ToSet(prompts) \cap ToSet(partial.uids) = {}
      /\ Waiting \cap RowUids(decoding) = {} /\ decoding \in Seq(DdRow)
      /\ Len(decoding) + Len(partial.uids) <= ddMode.cap
  BY DEF DdInv, DdPlaced, DdInStep
<1>2. /\ partial.uids \in Seq(DdSeqs) /\ IsInjective(partial.uids) /\ Len(partial.uids) = 1
      /\ partial.uids # <<>> /\ partial = [uids |-> partial.uids, done |-> partial.done]
  <2>1. /\ partial.uids \in Seq(DdSeqs) /\ IsInjective(partial.uids) /\ Len(partial.uids) = 1
    BY <1>1 DEF PartialOne
  <2>2. partial = [uids |-> partial.uids, done |-> partial.done]
    BY <1>1 DEF PartialOne
  <2>3. partial.uids # <<>>
    <3> DEFINE s == partial.uids
    <3>1. s \in Seq(DdSeqs) /\ Len(s) = 1
      BY <2>1
    <3> HIDE DEF s
    <3>2. s # <<>>
      <4>1. Len(s) # Len(<<>>)
        BY <3>1
      <4> QED BY <4>1, Zenon
    <3> QED BY <3>2 DEF s
  <2> QED BY <2>1, <2>2, <2>3
<1> DEFINE done == partial.done + ChunkSize(partial.uids, partial.done)
           finished == Longest(ToSet(partial.uids)) - done <= 1
<1>3. /\ partial' = IF finished THEN NoPartial ELSE [partial EXCEPT !.done = done]
      /\ prompts' = prompts
      /\ IF finished THEN Generate(decoding \o NewRows(partial.uids), NoSkip, drafts, left)
                     ELSE Generate(decoding, kept, drafts, left)
  BY DEF ContinuePartial
<1> HIDE DEF done, finished
<1>4. CASE finished
  <2>1. /\ partial' = NoPartial
        /\ Generate(decoding \o NewRows(partial.uids), NoSkip, drafts, left)
    BY <1>3, <1>4
  <2>2. ToSet(partial.uids) \subseteq Waiting /\ ToSet(prompts') \cup ToSet(partial.uids) = Waiting
    BY <1>3 DEF Waiting
  <2>3. /\ prompts' \in Seq(DdSeqs) /\ IsInjective(prompts')
        /\ ToSet(prompts') \cap ToSet(partial.uids) = {}
    BY <1>1, <1>3
  <2> QED BY <1>1, <1>2, <2>1, <2>2, <2>3, JoinedStep
<1>5. CASE ~finished
  <2>1. partial' = [partial EXCEPT !.done = done] /\ Generate(decoding, kept, drafts, left)
    BY <1>3, <1>5
  <2>a. partial' = [uids |-> partial.uids, done |-> done]
    <3> DEFINE s == partial.uids
               d == partial.done
    <3>1. partial = [uids |-> s, done |-> d]
      BY <1>2
    <3> HIDE DEF s, d
    <3>2. [partial EXCEPT !.done = done] = [uids |-> s, done |-> done]
      BY <3>1
    <3> QED BY <2>1, <3>2 DEF s
  <2>2. partial'.uids = partial.uids
    BY <2>a
  <2>3. PartialOne(partial')
    <3> DEFINE s == partial.uids
    <3>1. s \in Seq(DdSeqs) /\ IsInjective(s) /\ Len(s) = 1 /\ partial' = [uids |-> s, done |-> done]
      BY <1>2, <2>a
    <3> HIDE DEF s
    <3>2. PartialOne([uids |-> s, done |-> done])
      BY <3>1, PartialMade
    <3> QED BY <3>1, <3>2
  <2>4. RowsTaken(decoding)
    BY <1>1, <1>3, <2>2, <2>3 DEF RowsTaken, Waiting
  <2> QED BY <2>1, <2>4, BatchStep
<1> QED BY <1>4, <1>5

\* The next prompts are taken: as a chunked prefill, or into the batch.
LEMMA EnterStep ==
  ASSUME DdAssumption, OneDraftAtATime, DdInv, NEW kept, NEW drafts, NEW left,
         DraftsTaken(kept, drafts, left), partial = NoPartial,
         ddMode.cap - Len(decoding) >= ddMode.pre, prompts # <<>>,
         EnterPrompts(kept, drafts, left), UNCHANGED <<ddMode, hit, ddAborts>>
  PROVE  DdInv'
<1>1. /\ prompts \in Seq(DdSeqs) /\ IsInjective(prompts) /\ ToSet(partial.uids) = {}
      /\ Waiting \cap RowUids(decoding) = {} /\ decoding \in Seq(DdRow) /\ Waiting = ToSet(prompts)
  BY NoneQueued DEF DdInv, DdPlaced, Waiting
<1>2. /\ ddMode.pre \in Nat /\ ddMode.pre >= 1 /\ ddMode.cap \in Nat
      /\ ddMode.mllm \/ ddMode.pre = 1
  BY DEF DdInv, DdAssumption, OneDraftAtATime
<1> DEFINE k == IF Len(prompts) < ddMode.pre THEN Len(prompts) ELSE ddMode.pre
           uids == SubSeq(prompts, 1, k)
           chunked == ~ddMode.mllm /\ NeedsChunks(uids)
           rest == SubSeq(prompts, Len(uids) + 1, Len(prompts))
<1>3. /\ prompts' = rest
      /\ partial' = IF chunked THEN [uids |-> uids, done |-> FirstChunk(uids)] ELSE partial
      /\ IF chunked THEN Generate(decoding, kept, drafts, left)
                    ELSE Generate(decoding \o NewRows(uids), NoSkip, drafts, left)
  BY DEF EnterPrompts
<1>4. Len(prompts) \in Nat /\ Len(prompts) > 0
  BY <1>1
<1>5. k \in 0..Len(prompts) /\ k > 0 /\ k <= ddMode.pre
  BY <1>2, <1>4
<1> HIDE DEF k
<1>6. Len(uids) = k
  BY <1>1, <1>5
<1>7. /\ uids \in Seq(DdSeqs) /\ rest \in Seq(DdSeqs) /\ IsInjective(uids) /\ IsInjective(rest)
      /\ ToSet(uids) \cup ToSet(rest) = ToSet(prompts) /\ ToSet(uids) \cap ToSet(rest) = {}
  <2>1. rest = SubSeq(prompts, k + 1, Len(prompts))
    BY <1>6
  <2> QED BY <1>1, <1>5, <2>1, CutInTwo
<1> HIDE DEF uids, rest
<1>8. uids # <<>>
  BY <1>5, <1>6, <1>7
<1>9. Len(decoding) + Len(uids) <= ddMode.cap
  <2>1. Len(decoding) \in Nat
    BY <1>1
  <2> QED BY <1>2, <1>5, <1>6, <2>1
<1> HIDE DEF chunked
<1>10. CASE ~chunked
  <2>1. partial' = NoPartial /\ Generate(decoding \o NewRows(uids), NoSkip, drafts, left)
    BY <1>3, <1>10
  <2>2. /\ ToSet(uids) \subseteq Waiting /\ ToSet(prompts') \cup ToSet(uids) = Waiting
        /\ ToSet(prompts') \cap ToSet(uids) = {}
        /\ prompts' \in Seq(DdSeqs) /\ IsInjective(prompts')
    BY <1>1, <1>3, <1>7
  <2> QED BY <1>7, <1>8, <1>9, <2>1, <2>2, JoinedStep
<1>11. CASE chunked
  <2>1. partial' = [uids |-> uids, done |-> FirstChunk(uids)] /\ Generate(decoding, kept, drafts, left)
    BY <1>3, <1>11
  <2>2. Len(uids) = 1
    BY <1>2, <1>5, <1>6, <1>11 DEF chunked
  <2>3. partial'.uids = uids
    BY <2>1
  <2>4. PartialOne(partial')
    <3>1. PartialOne([uids |-> uids, done |-> FirstChunk(uids)])
      BY <1>7, <2>2, PartialMade
    <3> QED BY <2>1, <3>1
  <2>5. RowsTaken(decoding)
    BY <1>1, <1>3, <1>7, <1>9, <2>3, <2>4 DEF RowsTaken
  <2> QED BY <2>1, <2>5, BatchStep
<1> QED BY <1>10, <1>11

\* A call of next.
LEMMA DdCallStep ==
  ASSUME DdAssumption, OneDraftAtATime, DdInv, DdNextCall
  PROVE  DdInv'
<1> DEFINE kept == IF decoding = <<>> THEN NoSkip ELSE skip
           drafts == [u \in DdSeqs |-> IF u \in UidsOf(decoding) THEN deferred[u] ELSE 0]
           left == [u \in DdSeqs |->
                     IF decoding = <<>> \/ u \in UidsOf(decoding) THEN 0 ELSE deferred[u]]
           room == ddMode.cap - Len(decoding) >= ddMode.pre
<1>1. /\ IF partial # NoPartial
         THEN IF ToSet(partial.uids) \cap ddAborts # {}
              THEN /\ partial' = NoPartial /\ UNCHANGED <<prompts, midSave>>
                   /\ Generate(decoding, kept, drafts, left)
              ELSE ContinuePartial(kept, drafts, left)
         ELSE IF room /\ prompts # <<>>
         THEN EnterPrompts(kept, drafts, left)
         ELSE /\ UNCHANGED <<prompts, partial, midSave>>
              /\ Generate(decoding, kept, drafts, left)
      /\ UNCHANGED <<ddMode, hit, ddAborts>>
  BY DEF DdNextCall
<1>2. /\ prompts \in Seq(DdSeqs) /\ IsInjective(prompts) /\ PartialOne(partial)
      /\ decoding \in Seq(DdRow) /\ ToSet(prompts) \cap ToSet(partial.uids) = {}
      /\ Waiting \cap RowUids(decoding) = {}
      /\ Len(decoding) + Len(partial.uids) <= ddMode.cap
  BY DEF DdInv, DdPlaced, DdInStep
<1>3. DraftsTaken(kept, drafts, left)
  <2>1. UidsOf(decoding) = RowUids(decoding)
    BY <1>2, UidsAreOfRows
  <2> QED BY <2>1 DEF DraftsTaken
<1> HIDE DEF kept, drafts, left
<1>4. CASE partial # NoPartial /\ ToSet(partial.uids) \cap ddAborts # {}
  <2>1. partial' = NoPartial /\ prompts' = prompts /\ Generate(decoding, kept, drafts, left)
    BY <1>1, <1>4
  <2>2. ToSet(partial.uids) \subseteq ddAborts
    <3>1. /\ DOMAIN partial.uids = 1..Len(partial.uids) /\ Len(partial.uids) \in Nat
          /\ Len(partial.uids) <= 1
      BY <1>2 DEF PartialOne
    <3>2. \A i, j \in DOMAIN partial.uids : i = j
      BY <3>1
    <3> QED BY <1>4, <3>2 DEF ToSet
  <2>3. Len(decoding) + 0 <= ddMode.cap
    <3>1. Len(decoding) \in Nat /\ Len(partial.uids) \in Nat /\ ddMode.cap \in Nat
      BY <1>2 DEF PartialOne, DdInv, DdAssumption
    <3> QED BY <1>2, <3>1
  <2>4. RowsTaken(decoding)
    BY <1>2, <2>1, <2>2, <2>3, NoneQueued DEF RowsTaken, Waiting
  <2> QED BY <1>1, <1>3, <2>1, <2>4, BatchStep
<1>5. CASE partial # NoPartial /\ ToSet(partial.uids) \cap ddAborts = {}
  <2>1. ContinuePartial(kept, drafts, left)
    BY <1>1, <1>5
  <2> QED BY <1>1, <1>3, <1>5, <2>1, PartialStep
<1>6. CASE partial = NoPartial /\ room /\ prompts # <<>>
  <2>1. EnterPrompts(kept, drafts, left)
    BY <1>1, <1>6
  <2> QED BY <1>1, <1>3, <1>6, <2>1, EnterStep
<1>7. CASE partial = NoPartial /\ ~(room /\ prompts # <<>>)
  <2>1. partial' = partial /\ prompts' = prompts /\ Generate(decoding, kept, drafts, left)
    BY <1>1, <1>7
  <2>2. RowsTaken(decoding)
    BY <1>2, <2>1 DEF RowsTaken, Waiting
  <2> QED BY <1>1, <1>3, <2>1, <2>2, BatchStep
<1> QED BY <1>4, <1>5, <1>6, <1>7

\* Every step keeps the invariant.
LEMMA DdInvStep == ASSUME DdAssumption, OneDraftAtATime, DdInv, [DdNext]_ddVars PROVE DdInv'
<1>1. CASE \E u \in DdSeqs : \E cached \in DdHits[u] : DdInsert(u, cached)
  BY <1>1, DdInsertStep
<1>2. CASE \E u \in DdSeqs : DdAbort(u)
  BY <1>2, DdAbortStep
<1>3. CASE DdDrain
  BY <1>3, DdDrainStep
<1>4. CASE DdNextCall
  BY <1>4, DdCallStep
<1>5. CASE UNCHANGED ddVars
  <2>1. UNCHANGED <<ddMode, hit, prompts, partial, decoding, skip, deferred, ddAborts, heard, over>>
    BY <1>5 DEF ddVars
  <2>2. DdPlaced'
    BY <2>1 DEF DdInv, DdPlaced, Waiting, Started, PartialOne, OneUid, RowUids
  <2>3. DdInStep'
    BY <2>1 DEF DdInv, DdInStep, SaidInTurn, RowAt, AheadBy, RowUids
  <2> QED BY <2>1, <2>2, <2>3 DEF DdInv
<1> QED BY <1>1, <1>2, <1>3, <1>4, <1>5 DEF DdNext

\* How often an element is in a queue in which it is once.
LEMMA CountedInQueue ==
  ASSUME NEW T, NEW s \in Seq(T), IsInjective(s), NEW u
  PROVE  Cardinality({i \in DOMAIN s : s[i] = u}) = IF u \in ToSet(s) THEN 1 ELSE 0
<1>1. CASE u \in ToSet(s)
  <2>1. PICK k \in DOMAIN s : s[k] = u
    BY <1>1 DEF ToSet
  <2>2. {i \in DOMAIN s : s[i] = u} = {k}
    BY <2>1 DEF IsInjective
  <2> QED BY <1>1, <2>2, FS_Singleton
<1>2. CASE u \notin ToSet(s)
  <2>1. {i \in DOMAIN s : s[i] = u} = {}
    BY <1>2 DEF ToSet
  <2> QED BY <1>2, <2>1, FS_EmptySet
<1> QED BY <1>1, <1>2

\* The invariant is stronger than what is checked.
LEMMA DdInvSound == ASSUME DdAssumption, DdInv PROVE DraftsSound
<1>1. CacheFollowsText
  <2> SUFFICES ASSUME NEW i \in DOMAIN decoding
               PROVE  decoding[i].kv = UpTo(Len(decoding[i].kv))
    BY DEF CacheFollowsText
  <2> DEFINE e == decoding[i]
  <2>1. e \in ToSet(decoding) /\ e \in DdRow
    BY DEF ToSet, DdInv, DdPlaced
  <2>2. PICK k \in 0..2 : AheadBy(e, k, deferred, skip)
    BY <2>1 DEF DdInv, DdInStep, RowAt
  <2>3. e.y = DdLen[e.uid] + e.n + 1 /\ e.n \in Nat /\ e.uid \in DdSeqs
    BY <2>1 DEF DdInv, DdInStep, RowAt, DdRow
  <2>4. DdLen[e.uid] \in Nat
    BY <2>3 DEF DdAssumption
  <2> DEFINE n == e.y + k - 1
  <2>5. n \in Nat
    BY <2>3, <2>4
  <2>6. e.kv = UpTo(n)
    BY <2>2 DEF AheadBy
  <2> HIDE DEF e, n
  <2>7. e.kv = UpTo(Len(e.kv))
    BY <2>5, <2>6, UpToGrows
  <2> QED BY <2>7 DEF e
<1>2. HeardInOrder
  <2> SUFFICES ASSUME NEW u \in DdSeqs
               PROVE  /\ heard[u] = [i \in DOMAIN heard[u] |-> DdLen[u] + i]
                      /\ Len(heard[u]) <= DdTokens
    BY DEF HeardInOrder
  <2>1. /\ heard[u] \in Seq(Nat) /\ Len(heard[u]) <= DdTokens
        /\ \A i \in 1..Len(heard[u]) : heard[u][i] = DdLen[u] + i
    BY DEF DdInv, DdInStep, SaidInTurn
  <2> DEFINE s == heard[u]
  <2>a. s \in Seq(Nat) /\ \A i \in 1..Len(s) : s[i] = DdLen[u] + i
    BY <2>1
  <2> HIDE DEF s
  <2>b. DOMAIN s = 1..Len(s)
    BY <2>a
  <2>2. s \in Seq(Nat) /\ DOMAIN s = 1..Len(s) /\ \A i \in DOMAIN s : s[i] = DdLen[u] + i
    BY <2>a, <2>b
  <2>3. s = [i \in DOMAIN s |-> s[i]]
    BY <2>2
  <2>4. [i \in DOMAIN s |-> s[i]] = [i \in DOMAIN s |-> DdLen[u] + i]
    BY <2>2
  <2> QED BY <2>1, <2>3, <2>4 DEF s
<1>3. SequenceKept
  <2> SUFFICES ASSUME NEW u \in Started \ (over \cup ddAborts)
               PROVE  Cardinality({i \in DOMAIN prompts : prompts[i] = u})
                        + Cardinality({i \in DOMAIN partial.uids : partial.uids[i] = u})
                        + Cardinality({i \in DOMAIN decoding : decoding[i].uid = u}) = 1
    BY DEF SequenceKept
  <2>1. /\ prompts \in Seq(DdSeqs) /\ IsInjective(prompts)
        /\ partial.uids \in Seq(DdSeqs) /\ IsInjective(partial.uids)
        /\ decoding \in Seq(DdRow) /\ IsInjective(decoding) /\ OneUid(ToSet(decoding))
        /\ ToSet(prompts) \cap ToSet(partial.uids) = {}
        /\ (ToSet(prompts) \cup ToSet(partial.uids)) \cap RowUids(decoding) = {}
        /\ u \in ToSet(prompts) \cup ToSet(partial.uids) \cup RowUids(decoding)
    BY DEF DdInv, DdPlaced, PartialOne, Waiting
  <2>2. Cardinality({i \in DOMAIN prompts : prompts[i] = u}) = IF u \in ToSet(prompts) THEN 1 ELSE 0
    BY <2>1, CountedInQueue
  <2>3. Cardinality({i \in DOMAIN partial.uids : partial.uids[i] = u})
          = IF u \in ToSet(partial.uids) THEN 1 ELSE 0
    <3> DEFINE s == partial.uids
    <3>1. s \in Seq(DdSeqs) /\ IsInjective(s)
      BY <2>1
    <3> HIDE DEF s
    <3>2. Cardinality({i \in DOMAIN s : s[i] = u}) = IF u \in ToSet(s) THEN 1 ELSE 0
      BY <3>1, CountedInQueue
    <3> QED BY <3>2 DEF s
  <2>4. Cardinality({i \in DOMAIN decoding : decoding[i].uid = u})
          = IF u \in RowUids(decoding) THEN 1 ELSE 0
    <3>1. u \in RowUids(decoding) <=> \E e \in ToSet(decoding) : e.uid = u
      BY DEF RowUids
    <3>2. Cardinality({i \in DOMAIN decoding : decoding[i].uid = u})
            = IF \E e \in ToSet(decoding) : e.uid = u THEN 1 ELSE 0
      BY <2>1, CountedOnce, ZenonT(30)
    <3> QED BY <3>1, <3>2
  <2> DEFINE a == Cardinality({i \in DOMAIN prompts : prompts[i] = u})
             b == Cardinality({i \in DOMAIN partial.uids : partial.uids[i] = u})
             c == Cardinality({i \in DOMAIN decoding : decoding[i].uid = u})
  <2> HIDE DEF a, b, c
  <2>5. a + b + c = 1
    <3>1. /\ a = IF u \in ToSet(prompts) THEN 1 ELSE 0
          /\ b = IF u \in ToSet(partial.uids) THEN 1 ELSE 0
          /\ c = IF u \in RowUids(decoding) THEN 1 ELSE 0
      BY <2>2, <2>3, <2>4 DEF a, b, c
    <3>2. CASE u \in ToSet(prompts)
      BY <2>1, <3>1, <3>2
    <3>3. CASE u \in ToSet(partial.uids)
      BY <2>1, <3>1, <3>3
    <3>4. CASE u \in RowUids(decoding)
      BY <2>1, <3>1, <3>4
    <3> QED BY <2>1, <3>2, <3>3, <3>4
  <2> QED BY <2>5 DEF a, b, c
<1> QED BY <1>1, <1>2, <1>3 DEF DraftsSound

\* Whatever is inserted and aborted, and whichever drafts are accepted, the cache of a row
\* holds its own text, clients hear the tokens in order and none twice, and a sequence is in
\* one place until it ends (_step, _mtp_next, _chunked_next), for any number of sequences,
\* prompt lengths and budgets, with one draft and one chunked prompt at a time.
THEOREM DraftsServe ==
  ASSUME DdAssumption, OneDraftAtATime PROVE DdSpec => []DraftsSound
<1>1. DdInit => DdInv
  BY DdInvInit
<1>2. DdInv /\ [DdNext]_ddVars => DdInv'
  BY DdInvStep
<1>3. DdInv => DraftsSound
  BY DdInvSound
<1> QED BY <1>1, <1>2, <1>3, PTL DEF DdSpec

================================================================================
