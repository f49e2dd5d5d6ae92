------------------------------ MODULE HttpServing ------------------------------
(***************************************************************************)
(* The life of an HTTP request in vllm_mlx/server.py: the lease it takes   *)
(* on the resident engine, the wait for a result with its timeout and its  *)
(* poll for a closed connection, the stream of server-sent events with its *)
(* terminal frame, the store of responses, and what the web framework does *)
(* with a stream whose client goes away.  The engine is only seen to work  *)
(* for a request; a cancelled request may work on for a while before the   *)
(* engine has let go of it (a worker thread, a step in the executor).      *)
(***************************************************************************)
EXTENDS Integers, Sequences, FiniteSets, Functions, SequencesExt

CONSTANTS
  HttpReqs,        \* identifiers of requests
  HttpKind,        \* what each asks for: "plain" or "stream" (completions and
                   \* chat), "messages" (not streamed) or "responses"
  PrevOf,          \* the previous response a "responses" request names, or None
  None,
  StoreSize,       \* _RESPONSES_STORE_MAX_SIZE
  PrepareFails,    \* the kinds whose preparation may raise
  HttpFaults       \* "engine": it may raise; "dropped": the framework cancels a
                   \* stream by itself; "unstarted": before its first event too

ASSUME HttpAssumption ==
  /\ IsFiniteSet(HttpReqs)
  /\ HttpKind \in [HttpReqs -> {"plain", "stream", "messages", "responses"}]
  /\ PrevOf \in [HttpReqs -> HttpReqs \cup {None}] /\ None \notin HttpReqs
  /\ StoreSize \in Nat \ {0}
  /\ PrepareFails \subseteq {"plain", "stream", "messages"}
  /\ HttpFaults \subseteq {"engine", "dropped", "unstarted"}

VARIABLES
  resident,        \* the engine is loaded
  leases,          \* the resident's active requests
  at,              \* the request's handler, then its stream
  acquire,         \* its task that acquires the engine
  work,            \* what the engine does for it
  client,          \* its connection: "here" or "left"
  frames,          \* the events sent to it
  status,          \* how it ended
  stored           \* _responses_store, oldest first

httpVars == <<resident, leases, at, acquire, work, client, frames, status, stored>>

HttpInit ==
  /\ resident \in BOOLEAN /\ leases = 0 /\ stored = <<>>
  /\ at = [h \in HttpReqs |-> "new"] /\ acquire = [h \in HttpReqs |-> "none"]
  /\ work = [h \in HttpReqs |-> "none"] /\ client = [h \in HttpReqs |-> "here"]
  /\ frames = [h \in HttpReqs |-> <<>>] /\ status = [h \in HttpReqs |-> "none"]

Ends(h, result) ==
  /\ at' = [at EXCEPT ![h] = "over"]
  /\ status' = [status EXCEPT ![h] = result]

Leased(h) == HttpKind[h] # "responses"
\* _release_default_engine
Release(h) == leases' = IF Leased(h) THEN leases - 1 ELSE leases

ClientLeaves(h) ==
  /\ client[h] = "here" /\ at[h] \notin {"new", "over"}
  /\ client' = [client EXCEPT ![h] = "left"]
  /\ UNCHANGED <<resident, leases, at, acquire, work, frames, status, stored>>

\* A request arrives.  Responses use the engine as they find it.
RequestArrives(h) ==
  /\ at[h] = "new"
  /\ IF Leased(h)
     THEN /\ at' = [at EXCEPT ![h] = "acquiring"]
          /\ acquire' = [acquire EXCEPT ![h] = "pending"]
          /\ UNCHANGED <<work, status>>
     ELSE /\ IF ~resident THEN Ends(h, "503") /\ UNCHANGED work
             ELSE IF PrevOf[h] # None /\ PrevOf[h] \notin Range(stored)
             THEN Ends(h, "404") /\ UNCHANGED work
             ELSE /\ at' = [at EXCEPT ![h] = "working"]
                  /\ work' = [work EXCEPT ![h] = "running"]
                  /\ UNCHANGED status
          /\ UNCHANGED acquire
  /\ UNCHANGED <<resident, leases, client, frames, stored>>

\* ResidencyManager.acquire returns to its task.
EngineAcquired(h) ==
  /\ acquire[h] = "pending"
  /\ acquire' = [acquire EXCEPT ![h] = "done"]
  /\ leases' = leases + 1 /\ resident' = TRUE
  /\ UNCHANGED <<at, work, client, frames, status, stored>>

\* The timeout, or the poll that finds the connection closed, before that.
AcquireGivenUp(h) ==
  /\ at[h] = "acquiring" /\ acquire[h] = "pending"
  /\ acquire' = [acquire EXCEPT ![h] = "cancelled"]
  /\ Ends(h, IF client[h] = "left" THEN "499" ELSE "504")
  /\ UNCHANGED <<resident, leases, work, client, frames, stored>>

\* Both were done when the handler woke up: the engine is given back.
AcquiredForNobody(h) ==
  /\ at[h] = "acquiring" /\ acquire[h] = "done" /\ client[h] = "left"
  /\ Release(h)
  /\ Ends(h, "499")
  /\ UNCHANGED <<resident, acquire, work, client, frames, stored>>

\* _prepare_..._invocation raises: the completion handlers release in a finally.
PrepareRaises(h) ==
  /\ at[h] = "acquiring" /\ acquire[h] = "done" /\ HttpKind[h] \in PrepareFails
  /\ IF HttpKind[h] = "messages" THEN UNCHANGED leases ELSE Release(h)
  /\ Ends(h, "500")
  /\ UNCHANGED <<resident, acquire, work, client, frames, stored>>

Prepared(h) ==
  /\ at[h] = "acquiring" /\ acquire[h] = "done"
  /\ IF HttpKind[h] = "stream"
     THEN at' = [at EXCEPT ![h] = "answered"] /\ UNCHANGED work
     ELSE /\ at' = [at EXCEPT ![h] = "working"]
          /\ work' = [work EXCEPT ![h] = "running"]
  /\ UNCHANGED <<resident, leases, acquire, client, frames, status, stored>>

\* The framework iterates the body of the StreamingResponse, or never does.
BodyBegins(h) ==
  /\ at[h] = "answered"
  /\ at' = [at EXCEPT ![h] = "streaming"]
  /\ work' = [work EXCEPT ![h] = "running"]
  /\ UNCHANGED <<resident, leases, acquire, client, frames, status, stored>>

BodyNeverBegins(h) ==
  /\ at[h] = "answered" /\ client[h] = "left" /\ "unstarted" \in HttpFaults
  /\ Ends(h, "left")
  /\ UNCHANGED <<resident, leases, acquire, work, client, frames, stored>>

EngineSpeaks(h) ==
  /\ at[h] = "streaming" /\ work[h] = "running" /\ frames[h] = <<>>
  /\ frames' = [frames EXCEPT ![h] = <<"data">>]
  /\ UNCHANGED <<resident, leases, at, acquire, work, client, status, stored>>

\* Mutant: the terminal frame is sent whether the stream has sent it or not.
Ensured_Always(sent) == Append(sent, "done")

\* _ensure_sse_terminal: the terminal frame, unless the stream has sent it.
Ensured(sent) ==
  IF sent # <<>> /\ Last(sent) = "done" THEN sent ELSE Append(sent, "done")

\* The engine has finished, or raises; a stream that ends by itself sends its own
\* terminal frame, one that raises may not have.
EngineFinishes(h, raises) ==
  /\ work[h] = "running" /\ (raises => "engine" \in HttpFaults)
  /\ work' = [work EXCEPT ![h] = IF raises THEN "raised" ELSE "over"]
  /\ frames' = IF at[h] # "streaming" THEN frames
               ELSE [frames EXCEPT ![h] =
                       Ensured(IF raises THEN @ ELSE Append(@, "done"))]
  /\ UNCHANGED <<resident, leases, at, acquire, client, status, stored>>

\* A cancelled request's work ends at last.
WorkStops(h) ==
  /\ work[h] = "stopping"
  /\ work' = [work EXCEPT ![h] = "over"]
  /\ UNCHANGED <<resident, leases, at, acquire, client, frames, status, stored>>

\* Mutant: the store only grows.
StoredWith_Unbounded(h) == Append(stored, h)

\* _responses_store is bounded: the oldest leave.
StoredWith(h) ==
  LET all == Append(stored, h)
  IN SubSeq(all, Len(all) - (IF Len(all) < StoreSize THEN Len(all) ELSE StoreSize) + 1, Len(all))

\* The handler has its result.  A response is kept with the messages of the previous
\* one, which is looked up anew.
ResultReturned(h) ==
  /\ at[h] = "working" /\ work[h] \in {"over", "raised"}
  /\ Release(h)
  /\ IF work[h] = "raised" THEN Ends(h, "500") /\ UNCHANGED stored
     ELSE IF HttpKind[h] = "responses" /\ PrevOf[h] # None /\ PrevOf[h] \notin Range(stored)
     THEN Ends(h, "404") /\ UNCHANGED stored
     ELSE Ends(h, "200")
          /\ stored' = IF HttpKind[h] = "responses" THEN StoredWith(h) ELSE stored
  /\ UNCHANGED <<resident, acquire, work, client, frames>>

\* _wait_with_disconnect: the timeout or the poll cancels the task and waits for it.
ResultGivenUp(h) ==
  /\ at[h] = "working" /\ work[h] = "running"
  /\ at' = [at EXCEPT ![h] = "cancelling"]
  /\ work' = [work EXCEPT ![h] = "stopping"]
  /\ status' = [status EXCEPT ![h] = IF client[h] = "left" THEN "499" ELSE "504"]
  /\ UNCHANGED <<resident, leases, acquire, client, frames, stored>>

\* _disconnect_guard: so does its poll.
GuardSeesClosed(h) ==
  /\ at[h] = "streaming" /\ client[h] = "left" /\ work[h] = "running"
  /\ at' = [at EXCEPT ![h] = "cancelling"]
  /\ work' = [work EXCEPT ![h] = "stopping"]
  /\ status' = [status EXCEPT ![h] = "left"]
  /\ UNCHANGED <<resident, leases, acquire, client, frames, stored>>

CancelAwaited(h) ==
  /\ at[h] = "cancelling" /\ work[h] = "over"
  /\ Release(h)
  /\ Ends(h, status[h])
  /\ UNCHANGED <<resident, acquire, work, client, frames, stored>>

\* The framework cancels the stream, or drops its generator while it sends: the
\* guard's finally cancels the pending read, does not wait for it, and cleans up.
StreamDropped(h) ==
  /\ at[h] = "streaming" /\ client[h] = "left" /\ "dropped" \in HttpFaults
  /\ work' = [work EXCEPT ![h] = IF @ = "running" THEN "stopping" ELSE @]
  /\ Release(h)
  /\ Ends(h, "left")
  /\ UNCHANGED <<resident, acquire, client, frames, stored>>

StreamEnds(h) ==
  /\ at[h] = "streaming" /\ work[h] \in {"over", "raised"}
  /\ Release(h)
  /\ Ends(h, "200")
  /\ UNCHANGED <<resident, acquire, work, client, frames, stored>>

\* _lifecycle_loop
IdleUnload ==
  /\ resident /\ leases = 0
  /\ resident' = FALSE
  /\ UNCHANGED <<leases, at, acquire, work, client, frames, status, stored>>

HttpStep(h) ==
  \/ ClientLeaves(h) \/ RequestArrives(h) \/ EngineAcquired(h) \/ AcquireGivenUp(h)
  \/ AcquiredForNobody(h) \/ PrepareRaises(h) \/ Prepared(h)
  \/ BodyBegins(h) \/ BodyNeverBegins(h) \/ EngineSpeaks(h)
  \/ (\E raises \in BOOLEAN : EngineFinishes(h, raises)) \/ WorkStops(h)
  \/ ResultReturned(h) \/ ResultGivenUp(h) \/ GuardSeesClosed(h) \/ CancelAwaited(h)
  \/ StreamDropped(h) \/ StreamEnds(h)

HttpNext == IdleUnload \/ \E h \in HttpReqs : HttpStep(h)

HttpSpec == HttpInit /\ [][HttpNext]_httpVars

HttpTypeOK ==
  /\ leases \in Nat /\ Len(stored) <= StoreSize
  /\ at \in [HttpReqs -> {"new", "acquiring", "working", "answered", "streaming",
                          "cancelling", "over"}]
  /\ work \in [HttpReqs -> {"none", "running", "stopping", "over", "raised"}]

\* The resident counts the requests that use it, and no other: each that has
\* acquired it gives it back once, however it ends.
LeasesExact ==
  leases = Cardinality({h \in HttpReqs : acquire[h] = "done" /\ at[h] # "over"})

\* A stream that is not given up ends with one terminal frame.
TerminalOnce ==
  \A h \in HttpReqs : HttpKind[h] = "stream" /\ status[h] = "200" =>
    /\ Last(frames[h]) = "done"
    /\ \A i \in 1..Len(frames[h]) - 1 : frames[h][i] # "done"

\* What has a next step of its own: a request that has not begun, one whose engine is being
\* acquired or is there, and one whose engine works, has ended or is being stopped.
Proceeds(h) ==
  \/ at[h] \in {"new", "answered"}
  \/ at[h] = "acquiring" /\ acquire[h] \in {"pending", "done"}
  \/ at[h] \in {"working", "streaming"} /\ work[h] \in {"running", "over", "raised"}
  \/ at[h] = "cancelling" /\ work[h] \in {"stopping", "over"}

\* No request gets stuck, and one that is over leaves neither a task that still acquires
\* the engine nor an engine that works on for it without being told to stop.
HttpQuiet ==
  \A h \in HttpReqs :
    IF at[h] = "over" THEN acquire[h] # "pending" /\ work[h] # "running" ELSE Proceeds(h)

\* The HTTP layer: leases are those of the requests that hold one, a stream has one
\* terminal frame, its last, and every request comes to its end.
HttpServed == LeasesExact /\ TerminalOnce /\ HttpQuiet
================================================================================
