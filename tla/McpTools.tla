-------------------------------- MODULE McpTools --------------------------------
(***************************************************************************)
(* The tool servers of vllm_mlx/mcp: a client per server with its session, *)
(* its transport and its list of tools (client.py), the manager that       *)
(* connects, reconnects and stops them and finds the server of a call      *)
(* (manager.py), the executor that runs calls beside each other            *)
(* (executor.py), and the sandbox's rate limit and audit log (security.py).*)
(* Which commands and arguments the sandbox refuses is left out.           *)
(***************************************************************************)
EXTENDS Integers, Sequences, FiniteSets, Functions, SequencesExt, Selections

CONSTANTS
  McpServers,      \* the enabled servers of the configuration
  McpCalls,        \* identifiers of tool calls
  ServerOf,        \* the server whose tool each names
  MaxParallel,     \* max_parallel
  CallsPerWindow,  \* max_calls_per_minute
  Window, McpClock,\* the length of the window, and how long the clock runs
  AuditSize,       \* _audit_log_max_size
  McpFaults        \* "connect", "discover", "close", "call": these may raise

ASSUME McpAssumption ==
  /\ ServerOf \in [McpCalls -> McpServers]
  /\ {MaxParallel, CallsPerWindow, Window, McpClock, AuditSize} \subseteq Nat \ {0}
  /\ McpFaults \subseteq {"connect", "discover", "close", "call"}

\* What goes on with a client: the manager's start and stop, a reconnect by its
\* caller, and a refresh of the tools.
McpTasks == {"start", "stop", "reconnect", "refresh"}

VARIABLES
  mcpStarted,      \* MCPClientManager._started
  mcpBusy,         \* the holder of the manager's lock, or "nobody"
  mcpAt,           \* the step each task is at with each client
  clientLock,      \* the holder of the client's lock, or "nobody"
  mcpState,        \* MCPClient._state
  session,         \* MCPClient._session, by number; 0 for None
  sessions,        \* how many were made for the client
  open,            \* its transports that are open
  listed,          \* the session whose tools are in MCPClient._tools, 0 if none are
  refreshing,      \* the session a refresh asked
  calls,           \* the step of each call and the session that it uses
  callTimes,       \* ToolSandbox._call_times
  admitted,        \* when each call of the tool that the sandbox let pass began
  mcpNow,
  audit,           \* the audit log
  audited          \* every call recorded so far

mcpVars == <<mcpStarted, mcpBusy, mcpAt, clientLock, mcpState, session, sessions, open,
             listed, refreshing, calls, callTimes, admitted, mcpNow, audit, audited>>
clientVars == <<clientLock, mcpState, session, sessions, open, listed>>
callVars == <<calls, callTimes, admitted, audit, audited>>

McpInit ==
  /\ mcpStarted = FALSE /\ mcpBusy = "nobody" /\ mcpNow = 0
  /\ mcpAt = [t \in McpTasks |-> [s \in McpServers |-> "idle"]]
  /\ clientLock = [s \in McpServers |-> "nobody"]
  /\ mcpState = [s \in McpServers |-> "disconnected"]
  /\ session = [s \in McpServers |-> 0] /\ sessions = session
  /\ open = [s \in McpServers |-> {}]
  /\ listed = session /\ refreshing = session
  /\ calls = [c \in McpCalls |-> [at |-> "new", on |-> 0]]
  /\ callTimes = [s \in McpServers |-> <<>>] /\ admitted = callTimes
  /\ audit = <<>> /\ audited = <<>>

AtMcp(t, s, step) == mcpAt' = [mcpAt EXCEPT ![t][s] = step]
Unlock(s) == clientLock' = [clientLock EXCEPT ![s] = "nobody"]

-----------------------------------------------------------------------------
(* The manager *)

ManagerStarts ==
  /\ ~mcpStarted /\ mcpBusy = "nobody"
  /\ \A s \in McpServers : mcpAt["start"][s] = "idle"
  /\ mcpBusy' = "start"
  /\ mcpAt' = [mcpAt EXCEPT !["start"] = [s \in McpServers |-> "connect"]]
  /\ UNCHANGED <<mcpStarted, clientVars, refreshing, callVars, mcpNow>>

ManagerStops ==
  /\ mcpStarted /\ mcpBusy = "nobody"
  /\ \A s \in McpServers : mcpAt["stop"][s] = "idle"
  /\ mcpBusy' = "stop"
  /\ mcpAt' = [mcpAt EXCEPT !["stop"] = [s \in McpServers |-> "disconnect"]]
  /\ UNCHANGED <<mcpStarted, clientVars, refreshing, callVars, mcpNow>>

\* The gather returns, whatever its connections came to.
ManagerDone ==
  /\ mcpBusy # "nobody" /\ \A s \in McpServers : mcpAt[mcpBusy][s] = "done"
  /\ mcpStarted' = (mcpBusy = "start")
  /\ mcpBusy' = "nobody"
  /\ UNCHANGED <<mcpAt, clientVars, refreshing, callVars, mcpNow>>

Reconnects(s) ==
  /\ mcpStarted /\ mcpAt["reconnect"][s] = "idle"
  /\ AtMcp("reconnect", s, "disconnect")
  /\ UNCHANGED <<mcpStarted, mcpBusy, clientVars, refreshing, callVars, mcpNow>>

-----------------------------------------------------------------------------
(* A client *)

\* connect takes the lock; a connected client is left alone.
ConnectBegins(t, s) ==
  /\ mcpAt[t][s] = "connect" /\ clientLock[s] = "nobody"
  /\ IF mcpState[s] = "connected"
     THEN AtMcp(t, s, "done") /\ UNCHANGED <<clientLock, mcpState>>
     ELSE /\ AtMcp(t, s, "opening")
          /\ clientLock' = [clientLock EXCEPT ![s] = t]
          /\ mcpState' = [mcpState EXCEPT ![s] = "connecting"]
  /\ UNCHANGED <<mcpStarted, mcpBusy, session, sessions, open, listed, refreshing,
                 callVars, mcpNow>>

\* The transport is open and the session made.
SessionMade(t, s) ==
  /\ mcpAt[t][s] = "opening"
  /\ sessions' = [sessions EXCEPT ![s] = @ + 1]
  /\ session' = [session EXCEPT ![s] = sessions[s] + 1]
  /\ open' = [open EXCEPT ![s] = @ \cup {sessions[s] + 1}]
  /\ AtMcp(t, s, "discovering")
  /\ UNCHANGED <<mcpStarted, mcpBusy, clientLock, mcpState, listed, refreshing, callVars,
                 mcpNow>>

\* A server that lists no tools, or fails to, is connected all the same.
Discovered(t, s, found) ==
  /\ mcpAt[t][s] = "discovering" /\ (found \/ "discover" \in McpFaults)
  /\ listed' = [listed EXCEPT ![s] = IF found THEN session[s] ELSE 0]
  /\ mcpState' = [mcpState EXCEPT ![s] = "connected"]
  /\ AtMcp(t, s, "done") /\ Unlock(s)
  /\ UNCHANGED <<mcpStarted, mcpBusy, session, sessions, open, refreshing, callVars, mcpNow>>

ConnectFails(t, s) ==
  /\ mcpAt[t][s] \in {"opening", "discovering"} /\ "connect" \in McpFaults
  /\ mcpState' = [mcpState EXCEPT ![s] = "error"]
  /\ AtMcp(t, s, "done") /\ Unlock(s)
  /\ UNCHANGED <<mcpStarted, mcpBusy, session, sessions, open, listed, refreshing,
                 callVars, mcpNow>>

AfterDisconnect(t) == IF t = "reconnect" THEN "connect" ELSE "done"

\* Mutant: a client is disconnected without its lock.
DisconnectBegins_Unlocked(t, s) ==
  /\ mcpAt[t][s] = "disconnect"
  /\ IF mcpState[s] = "disconnected"
     THEN AtMcp(t, s, AfterDisconnect(t)) /\ UNCHANGED clientLock
     ELSE /\ AtMcp(t, s, "closing")
          /\ clientLock' = [clientLock EXCEPT ![s] = t]
  /\ UNCHANGED <<mcpStarted, mcpBusy, mcpState, session, sessions, open, listed,
                 refreshing, callVars, mcpNow>>

DisconnectBegins(t, s) ==
  /\ mcpAt[t][s] = "disconnect" /\ clientLock[s] = "nobody"
  /\ IF mcpState[s] = "disconnected"
     THEN AtMcp(t, s, AfterDisconnect(t)) /\ UNCHANGED clientLock
     ELSE /\ AtMcp(t, s, "closing")
          /\ clientLock' = [clientLock EXCEPT ![s] = t]
  /\ UNCHANGED <<mcpStarted, mcpBusy, mcpState, session, sessions, open, listed,
                 refreshing, callVars, mcpNow>>

\* The session and then the transport are closed; if the session's exit raises, the
\* transport is left as it is, and both are still held.
Closed(t, s, fails) ==
  /\ mcpAt[t][s] = "closing" /\ (fails => "close" \in McpFaults)
  /\ IF fails THEN UNCHANGED <<session, open>>
     ELSE /\ session' = [session EXCEPT ![s] = 0]
          /\ open' = [open EXCEPT ![s] = @ \ {sessions[s]}]
  /\ mcpState' = [mcpState EXCEPT ![s] = "disconnected"]
  /\ listed' = [listed EXCEPT ![s] = 0]
  /\ AtMcp(t, s, AfterDisconnect(t)) /\ Unlock(s)
  /\ UNCHANGED <<mcpStarted, mcpBusy, sessions, refreshing, callVars, mcpNow>>

\* refresh_tools takes no lock.
RefreshBegins(s) ==
  /\ mcpState[s] = "connected" /\ mcpAt["refresh"][s] = "idle"
  /\ AtMcp("refresh", s, "asked")
  /\ refreshing' = [refreshing EXCEPT ![s] = session[s]]
  /\ UNCHANGED <<mcpStarted, mcpBusy, clientVars, callVars, mcpNow>>

\* A session that was closed in the meantime answers with an error.
Refreshed(s) ==
  /\ mcpAt["refresh"][s] = "asked"
  /\ listed' = [listed EXCEPT ![s] = IF refreshing[s] \in open[s] THEN refreshing[s] ELSE 0]
  /\ AtMcp("refresh", s, "done")
  /\ UNCHANGED <<mcpStarted, mcpBusy, clientLock, mcpState, session, sessions, open,
                 refreshing, callVars, mcpNow>>

-----------------------------------------------------------------------------
(* The executor and its sandbox *)

\* record_execution, on a bounded log.
Recorded(c, result) ==
  LET all == Append(audit, <<c, result>>)
  IN /\ audit' = SubSeq(all, IF Len(all) > AuditSize THEN Len(all) - AuditSize + 1 ELSE 1,
                        Len(all))
     /\ audited' = Append(audited, <<c, result>>)

InWindow(times) == Selected(times, {t \in Range(times) : t > mcpNow - Window})

Running == {c \in McpCalls : calls[c].at = "calling"}

\* A call past the semaphore: the sandbox admits and counts it, the manager finds its
\* client connected, and the session is asked.
CallBegins(c) ==
  LET s == ServerOf[c]
      recent == InWindow(callTimes[s])
  IN /\ calls[c].at = "new" /\ Cardinality(Running) < MaxParallel
     /\ IF Len(recent) >= CallsPerWindow
        THEN /\ calls' = [calls EXCEPT ![c].at = "refused"]
             /\ callTimes' = [callTimes EXCEPT ![s] = recent] /\ UNCHANGED admitted
             /\ Recorded(c, "refused")
        ELSE /\ callTimes' = [callTimes EXCEPT ![s] = Append(recent, mcpNow)]
             /\ admitted' = [admitted EXCEPT ![s] = Append(@, mcpNow)]
             /\ IF mcpState[s] # "connected" \/ session[s] = 0
                THEN calls' = [calls EXCEPT ![c].at = "failed"] /\ Recorded(c, "failed")
                ELSE /\ calls' = [calls EXCEPT ![c] = [at |-> "calling", on |-> session[s]]]
                     /\ UNCHANGED <<audit, audited>>
     /\ UNCHANGED <<mcpStarted, mcpBusy, mcpAt, clientVars, refreshing, mcpNow>>

\* The answer, an error or the timeout.
CallEnds(c, result) ==
  /\ calls[c].at = "calling"
  /\ result = "answered" => calls[c].on \in open[ServerOf[c]]
  /\ result = "failed" =>
       "call" \in McpFaults \/ calls[c].on \notin open[ServerOf[c]]
  /\ calls' = [calls EXCEPT ![c].at = result]
  /\ Recorded(c, result)
  /\ UNCHANGED <<mcpStarted, mcpBusy, mcpAt, clientVars, refreshing, callTimes, admitted,
                 mcpNow>>

McpTick ==
  /\ mcpNow < McpClock
  /\ mcpNow' = mcpNow + 1
  /\ UNCHANGED <<mcpStarted, mcpBusy, mcpAt, clientVars, refreshing, callVars>>

McpNext ==
  \/ ManagerStarts \/ ManagerStops \/ ManagerDone \/ McpTick
  \/ \E s \in McpServers : Reconnects(s) \/ RefreshBegins(s) \/ Refreshed(s)
  \/ \E t \in McpTasks, s \in McpServers :
       \/ ConnectBegins(t, s) \/ SessionMade(t, s) \/ ConnectFails(t, s)
       \/ DisconnectBegins(t, s)
       \/ \E yes \in BOOLEAN : Discovered(t, s, yes) \/ Closed(t, s, yes)
  \/ \E c \in McpCalls : CallBegins(c) \/ \E r \in {"answered", "failed"} : CallEnds(c, r)

McpSpec == McpInit /\ [][McpNext]_mcpVars

McpTypeOK ==
  /\ mcpState \in [McpServers -> {"disconnected", "connecting", "connected", "error"}]
  /\ \A s \in McpServers : open[s] \subseteq 1..sessions[s] /\ session[s] \in 0..sessions[s]
  /\ Len(audit) <= AuditSize

\* A client that is connected works with the transport it opened last and no other is
\* open; after the manager's stop none is, unless a session's exit raised.
TransportsOwned == \A s \in McpServers :
  /\ mcpState[s] = "connected" => session[s] = sessions[s] /\ session[s] \in open[s]
  /\ "close" \notin McpFaults =>
       /\ Cardinality(open[s]) <= 1
       /\ mcpState[s] = "disconnected" => open[s] = {}

\* The tools offered are those of the session that would be asked for them.
ToolsOfSession == \A s \in McpServers :
  mcpState[s] = "connected" => listed[s] \in {0, session[s]}

\* No more calls run beside each other than allowed, and no more calls of a tool begin in
\* any window than the limit: of all that began, one and the first beyond the limit after
\* it are a window apart.
CallsBounded ==
  /\ Cardinality(Running) <= MaxParallel
  /\ \A s \in McpServers : \A i, j \in DOMAIN admitted[s] :
       j = i + CallsPerWindow => admitted[s][j] - admitted[s][i] >= Window

\* Each call is recorded once, when it is over and as it ended, and the log has the latest.
CallsAudited ==
  /\ \A c \in McpCalls :
       Cardinality({i \in DOMAIN audited : audited[i][1] = c}) =
         IF calls[c].at \in {"new", "calling"} THEN 0 ELSE 1
  /\ \A i \in DOMAIN audited : calls[audited[i][1]].at = audited[i][2]
  /\ audit = SubSeq(audited, Len(audited) - Len(audit) + 1, Len(audited))

\* The tool servers: a client's open transport is that of its session, its tools are that
\* session's, calls stay within the rate and beside each other within the bound, and
\* each is recorded once, as it ended.
McpSound == TransportsOwned /\ ToolsOfSession /\ CallsBounded /\ CallsAudited
================================================================================
