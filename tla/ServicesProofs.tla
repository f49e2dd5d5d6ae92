---------------------------- MODULE ServicesProofs -----------------------------
(***************************************************************************)
(* What TLAPS proves of the tool servers (McpTools) and of the services    *)
(* around the engines (Operations), for any number of servers, calls,      *)
(* clients, engines, weights and conversations.                            *)
(***************************************************************************)
EXTENDS McpTools, Operations, QueueLemmas, Functions

--------------------------------------------------------------------------------
(* A window that slides over times, and a selection that is the last part.   *)

\* What is selected of the beginning of a sequence in which nothing that is left out comes
\* after what stays: its last part.
LEMMA SelectedSuffix ==
  ASSUME NEW T, NEW s \in Seq(T), NEW S,
         \A i, j \in 1..Len(s) : i <= j /\ s[i] \in S => s[j] \in S
  PROVE  /\ Selected(s, S) \in Seq(T)
         /\ \E m \in 0..Len(s) :
              /\ Len(Selected(s, S)) = Len(s) - m
              /\ \A k \in 1..(Len(s) - m) : Selected(s, S)[k] = s[m + k] /\ s[m + k] \in S
              /\ \A i \in 1..m : s[i] \notin S
<1>1. Len(s) \in Nat /\ \A i \in 1..Len(s) : s[i] \in T
  OBVIOUS
<1>2. PICK f : /\ Selected(s, S) = f[Len(s)]
               /\ f = [i \in 0..Len(s) |->
                        IF i = 0 THEN <<>>
                        ELSE IF s[i] \in S THEN Append(f[i - 1], s[i]) ELSE f[i - 1]]
  BY <1>1, SelectedUnfolds, SMTT(30)
<1> DEFINE P(n) ==
             /\ f[n] \in Seq(T)
             /\ \E m \in 0..n :
                  /\ Len(f[n]) = n - m
                  /\ \A k \in 1..(n - m) : f[n][k] = s[m + k] /\ s[m + k] \in S
                  /\ \A i \in 1..m : s[i] \notin S
           H == {n \in Nat : n <= Len(s) => P(n)}
<1>3. P(0)
  <2>1. f[0] = <<>>
    BY <1>1, <1>2
  <2>2. <<>> \in Seq(T) /\ Len(<<>>) = 0 - 0 /\ 0 \in 0..0
    OBVIOUS
  <2>3. (\A k \in 1..(0 - 0) : FALSE) /\ (\A i \in 1..0 : FALSE)
    OBVIOUS
  <2> QED BY <2>1, <2>2, <2>3
<1>4. ASSUME NEW n \in Nat, P(n), n + 1 <= Len(s) PROVE P(n + 1)
  <2>1. f[n + 1] = IF s[n + 1] \in S THEN Append(f[n], s[n + 1]) ELSE f[n]
    <3>1. (n + 1) - 1 = n /\ n + 1 # 0 /\ n + 1 \in 0..Len(s)
      BY <1>1, <1>4
    <3> HIDE DEF P
    <3>2. f[n + 1] = IF n + 1 = 0 THEN <<>> ELSE IF s[n + 1] \in S
                     THEN Append(f[(n + 1) - 1], s[n + 1]) ELSE f[(n + 1) - 1]
      BY <1>2, <3>1
    <3> QED BY <3>1, <3>2
  <2>2. f[n] \in Seq(T) /\ s[n + 1] \in T
    BY <1>1, <1>4
  <2>3. PICK m \in 0..n : /\ Len(f[n]) = n - m
                          /\ \A k \in 1..(n - m) : f[n][k] = s[m + k] /\ s[m + k] \in S
                          /\ \A i \in 1..m : s[i] \notin S
    BY <1>4
  <2>4. CASE s[n + 1] \in S
    <3>1. /\ f[n + 1] \in Seq(T) /\ Len(f[n + 1]) = (n - m) + 1
          /\ \A k \in 1..(n - m) : f[n + 1][k] = f[n][k]
          /\ f[n + 1][(n - m) + 1] = s[n + 1]
      BY <2>1, <2>2, <2>3, <2>4, AppendPlaces
    <3>2. \A k \in 1..((n + 1) - m) :
            f[n + 1][k] = s[m + k] /\ s[m + k] \in S
      <4> TAKE k \in 1..((n + 1) - m)
      <4>1. CASE k \in 1..(n - m)
        BY <2>3, <3>1, <4>1
      <4>2. CASE k = (n - m) + 1
        BY <2>4, <3>1, <4>2, m + k = n + 1
      <4> QED BY <4>1, <4>2
    <3>3. m \in 0..(n + 1) /\ (n - m) + 1 = (n + 1) - m
      OBVIOUS
    <3> QED BY <2>3, <3>1, <3>2, <3>3
  <2>5. CASE s[n + 1] \notin S
    <3>1. \A i \in 1..(n + 1) : s[i] \notin S
      BY <1>1, <1>4, <2>5
    <3>2. n = m
      <4> SUFFICES ASSUME n # m PROVE FALSE
        OBVIOUS
      <4>1. 1 \in 1..(n - m) /\ m + 1 \in 1..(n + 1)
        OBVIOUS
      <4> QED BY <2>3, <3>1, <4>1
    <3>3. f[n + 1] = f[n] /\ Len(f[n + 1]) = (n + 1) - (n + 1) /\ n + 1 \in 0..(n + 1)
      BY <2>1, <2>3, <2>5, <3>2
    <3> QED BY <2>2, <3>1, <3>3
  <2> QED BY <2>4, <2>5
<1>5. Nat \subseteq H
  <2> HIDE DEF P
  <2>1. 0 \in H
    BY <1>3
  <2>2. \A n \in Nat : n \in H => n + 1 \in H
    BY <1>1, <1>4
  <2> HIDE DEF H
  <2> QED BY <2>1, <2>2, Induction
<1>6. P(Len(s))
  <2> HIDE DEF P
  <2> QED BY <1>1, <1>5
<1> QED BY <1>2, <1>6

\* A sliding window: all are the moments at which something was let through, kept those
\* that are still counted at the moment now.
Slides(all, kept, now, window, limit) ==
  /\ Len(kept) <= Len(all) /\ Len(kept) <= limit
  /\ \A k \in 1..Len(kept) : kept[k] = all[(Len(all) - Len(kept)) + k]
  /\ \A i \in 1..(Len(all) - Len(kept)) : all[i] <= now - window
  /\ \A i, j \in 1..Len(all) : i <= j => all[i] <= all[j]
  /\ \A i \in 1..Len(all) : all[i] <= now
  /\ \A i, j \in 1..Len(all) : j = i + limit => all[j] - all[i] >= window

\* Time goes on.
LEMMA SlidesOn ==
  ASSUME NEW all \in Seq(Nat), NEW kept \in Seq(Nat), NEW now \in Nat, NEW window \in Nat,
         NEW limit \in Nat, Slides(all, kept, now, window, limit)
  PROVE  Slides(all, kept, now + 1, window, limit)
<1>1. /\ Len(all) \in Nat /\ Len(kept) \in Nat /\ \A i \in 1..Len(all) : all[i] \in Nat
  OBVIOUS
<1>2. \A i \in 1..(Len(all) - Len(kept)) : all[i] <= (now + 1) - window
  <2> TAKE i \in 1..(Len(all) - Len(kept))
  <2>1. i \in 1..Len(all) /\ all[i] <= now - window
    BY <1>1 DEF Slides
  <2> QED BY <1>1, <2>1
<1>3. \A i \in 1..Len(all) : all[i] <= now + 1
  <2> TAKE i \in 1..Len(all)
  <2>1. all[i] <= now /\ all[i] \in Nat
    BY <1>1 DEF Slides
  <2> QED BY <2>1
<1> QED BY <1>2, <1>3 DEF Slides

\* What a request does: it forgets what has left the window and, if there is room, is
\* counted.
LEMMA SlidingStep ==
  ASSUME NEW all \in Seq(Nat), NEW kept \in Seq(Nat), NEW now \in Nat, NEW window \in Nat,
         NEW limit \in Nat \ {0}, Slides(all, kept, now, window, limit),
         NEW S, \A t : t \in S <=> t \in Range(kept) /\ t > now - window,
         NEW recent, recent = Selected(kept, S)
  PROVE  /\ recent \in Seq(Nat)
         /\ Slides(all, recent, now, window, limit)
         /\ \A k \in 1..Len(recent) : recent[k] > now - window
         /\ Len(recent) < limit => Slides(Append(all, now), Append(recent, now), now, window, limit)
<1> DEFINE d == Len(all) - Len(kept)
<1>1. /\ Len(all) \in Nat /\ Len(kept) \in Nat /\ \A i \in 1..Len(all) : all[i] \in Nat
      /\ \A i \in 1..Len(kept) : kept[i] \in Nat /\ DOMAIN kept = 1..Len(kept)
  OBVIOUS
<1>2. d \in Nat /\ \A k \in 1..Len(kept) : kept[k] = all[d + k] /\ d + k \in 1..Len(all)
  BY <1>1 DEF Slides
<1>3. \A i \in 1..Len(kept) : kept[i] \in S <=> kept[i] > now - window
  BY <1>1 DEF Range
<1>4. \A i, j \in 1..Len(kept) : i <= j /\ kept[i] \in S => kept[j] \in S
  <2> SUFFICES ASSUME NEW i \in 1..Len(kept), NEW j \in 1..Len(kept), i <= j,
                      kept[i] > now - window
               PROVE  kept[j] > now - window
    BY <1>3
  <2>1. kept[i] = all[d + i] /\ kept[j] = all[d + j] /\ d + i <= d + j
    BY <1>2
  <2>2. d + i \in 1..Len(all) /\ d + j \in 1..Len(all)
    BY <1>2
  <2> HIDE DEF d
  <2>3. all[d + i] <= all[d + j]
    BY <2>1, <2>2 DEF Slides
  <2>4. kept[i] <= kept[j] /\ kept[i] \in Nat /\ kept[j] \in Nat
    BY <1>1, <2>1, <2>3
  <2> QED BY <2>4
<1>a. recent = Selected(kept, S)
  OBVIOUS
<1> HIDE DEF d
<1>b. \E m \in 0..Len(kept) :
        /\ Len(Selected(kept, S)) = Len(kept) - m
        /\ \A k \in 1..(Len(kept) - m) : Selected(kept, S)[k] = kept[m + k] /\ kept[m + k] \in S
        /\ \A i \in 1..m : kept[i] \notin S
  BY <1>4, SelectedSuffix
<1>c. Selected(kept, S) \in Seq(Nat)
  BY SelectedPlaces
<1>5. PICK m \in 0..Len(kept) :
        /\ Len(recent) = Len(kept) - m /\ recent \in Seq(Nat)
        /\ \A k \in 1..(Len(kept) - m) : recent[k] = kept[m + k] /\ kept[m + k] \in S
        /\ \A i \in 1..m : kept[i] \notin S
  BY <1>a, <1>b, <1>c, ZenonT(30)
<1>6. /\ Len(recent) \in Nat /\ (Len(all) - Len(recent)) = d + m
      /\ \A k \in 1..Len(recent) : m + k \in 1..Len(kept)
  <2>1. Len(recent) \in Nat /\ m \in Nat
    BY <1>5
  <2>0. Len(recent) = Len(kept) - m /\ d = Len(all) - Len(kept)
    BY <1>5 DEF d
  <2>2. Len(all) - Len(recent) = d + m
    <3>1. \A x, y, z \in Nat : x - (y - z) = (x - y) + z
      OBVIOUS
    <3>2. Len(all) - (Len(kept) - m) = (Len(all) - Len(kept)) + m
      BY <1>1, <2>1, <3>1
    <3> QED BY <2>0, <3>2
  <2>3. \A k \in 1..Len(recent) : m + k \in 1..Len(kept)
    BY <1>1, <2>0, <2>1
  <2> QED BY <2>1, <2>2, <2>3
<1>7. \A k \in 1..Len(recent) : recent[k] = all[(d + m) + k] /\ recent[k] > now - window
  <2> TAKE k \in 1..Len(recent)
  <2>1. recent[k] = kept[m + k] /\ kept[m + k] > now - window
    BY <1>3, <1>5, <1>6
  <2>2. kept[m + k] = all[d + (m + k)]
    BY <1>2, <1>6
  <2>3. d + (m + k) = (d + m) + k
    BY <1>2, <1>6
  <2> QED BY <2>1, <2>2, <2>3
<1>8. \A i \in 1..(d + m) : i \in 1..Len(all) /\ all[i] <= now - window
  <2> TAKE i \in 1..(d + m)
  <2>1. i \in 1..Len(all)
    BY <1>1, <1>2, <1>5, <1>6
  <2>2. CASE i <= d
    <3>1. i \in 1..d
      BY <1>2, <2>2
    <3> QED BY <2>1, <3>1 DEF Slides, d
  <2>3. CASE i > d
    <3>1. i - d \in 1..m /\ i - d \in 1..Len(kept) /\ d + (i - d) = i
      BY <1>2, <1>5, <2>3
    <3>2. kept[i - d] = all[i] /\ ~(kept[i - d] > now - window)
      BY <1>2, <1>3, <1>5, <3>1
    <3> QED BY <1>1, <2>1, <3>2, SMTT(30)
  <2> QED BY <1>2, <2>2, <2>3
<1>9. Slides(all, recent, now, window, limit)
  <2>1. Len(recent) <= Len(all) /\ Len(recent) <= limit
    BY <1>1, <1>5, <1>6 DEF Slides
  <2> QED BY <1>6, <1>7, <1>8, <2>1 DEF Slides
<1>10. ASSUME Len(recent) < limit
       PROVE  Slides(Append(all, now), Append(recent, now), now, window, limit)
  <2> DEFINE a == Append(all, now)
             r == Append(recent, now)
  <2>1. /\ Len(a) = Len(all) + 1 /\ a[Len(all) + 1] = now
        /\ \A i \in 1..Len(all) : a[i] = all[i]
        /\ Len(r) = Len(recent) + 1 /\ r[Len(recent) + 1] = now
        /\ \A i \in 1..Len(recent) : r[i] = recent[i]
    BY <1>5, AppendPlaces
  <2> HIDE DEF a, r
  <2>2. \A i \in 1..Len(a) : i \in 1..Len(all) \/ i = Len(all) + 1
    BY <1>1, <2>1
  <2>3. Len(r) <= Len(a) /\ Len(r) <= limit /\ Len(a) - Len(r) = d + m
    BY <1>1, <1>6, <1>9, <1>10, <2>1 DEF Slides
  <2>4. \A k \in 1..Len(r) : r[k] = a[(Len(a) - Len(r)) + k]
    <3> TAKE k \in 1..Len(r)
    <3>1. CASE k \in 1..Len(recent)
      <4>1. (d + m) + k \in 1..Len(all)
        BY <1>1, <1>2, <1>5, <1>6, <3>1
      <4> QED BY <1>7, <2>1, <2>3, <3>1, <4>1
    <3>2. CASE k = Len(recent) + 1
      <4>1. (d + m) + k = Len(all) + 1
        <5>1. Len(all) - Len(recent) = d + m /\ Len(recent) \in Nat /\ d + m \in Nat
          BY <1>2, <1>5, <1>6
        <5> QED BY <1>1, <3>2, <5>1
      <4> QED BY <2>1, <2>3, <3>2, <4>1
    <3>3. Len(recent) \in Nat /\ Len(r) = Len(recent) + 1
      BY <1>6, <2>1
    <3>4. k \in 1..Len(recent) \/ k = Len(recent) + 1
      BY <3>3
    <3> QED BY <3>1, <3>2, <3>4
  <2>5. \A i \in 1..(Len(a) - Len(r)) : a[i] <= now - window
    BY <1>8, <2>1, <2>3
  <2>6. \A i \in 1..Len(a) : a[i] <= now
    <3> TAKE i \in 1..Len(a)
    <3>1. CASE i \in 1..Len(all)
      BY <2>1, <3>1 DEF Slides
    <3>2. CASE i = Len(all) + 1
      BY <2>1, <3>2
    <3> QED BY <2>2, <3>1, <3>2
  <2>7. \A i, j \in 1..Len(a) : i <= j => a[i] <= a[j]
    <3> TAKE i, j \in 1..Len(a)
    <3> HAVE i <= j
    <3>1. CASE j = Len(all) + 1
      BY <2>1, <2>6, <3>1
    <3>2. CASE j \in 1..Len(all)
      <4>1. i \in 1..Len(all)
        BY <1>1, <2>2, <3>2
      <4> QED BY <2>1, <3>2, <4>1 DEF Slides
    <3> QED BY <2>2, <3>1, <3>2
  <2>8. \A i, j \in 1..Len(a) : j = i + limit => a[j] - a[i] >= window
    <3> TAKE i, j \in 1..Len(a)
    <3> HAVE j = i + limit
    <3>0. i \in 1..Len(all)
      BY <1>1, <2>1, <2>2
    <3>1. CASE j = Len(all) + 1
      <4>1. i \in 1..(d + m)
        BY <1>1, <1>2, <1>5, <1>6, <1>10, <3>1
      <4>2. all[i] \in Nat
        BY <1>1, <3>0
      <4>4. all[i] <= now - window
        BY <1>8, <4>1
      <4>3. a[i] = all[i] /\ a[j] = now
        BY <2>1, <3>0, <3>1
      <4> QED BY <4>2, <4>3, <4>4
    <3>2. CASE j \in 1..Len(all)
      BY <2>1, <3>0, <3>2 DEF Slides
    <3> QED BY <2>2, <3>1, <3>2
  <2>9. Slides(a, r, now, window, limit)
    BY <2>3, <2>4, <2>5, <2>6, <2>7, <2>8 DEF Slides
  <2> QED BY <2>9 DEF a, r
<1> QED BY <1>5, <1>7, <1>9, <1>10

--------------------------------------------------------------------------------
(* McpTools: the tasks and the clients, and the calls and their record.      *)

McpSteps == {"idle", "connect", "opening", "discovering", "disconnect", "closing", "asked", "done"}
CallSteps == {"new", "refused", "failed", "calling", "answered"}

McpTyped ==
  /\ mcpStarted \in BOOLEAN /\ mcpBusy \in {"nobody", "start", "stop"}
  /\ mcpAt \in [McpTasks -> [McpServers -> McpSteps]]
  /\ clientLock \in [McpServers -> McpTasks \cup {"nobody"}]
  /\ mcpState \in [McpServers -> {"disconnected", "connecting", "connected", "error"}]
  /\ session \in [McpServers -> Nat] /\ sessions \in [McpServers -> Nat]
  /\ open \in [McpServers -> SUBSET Nat]
  /\ listed \in [McpServers -> Nat] /\ refreshing \in [McpServers -> Nat]
  /\ calls \in [McpCalls -> [at : CallSteps, on : Nat]]
  /\ callTimes \in [McpServers -> Seq(Nat)] /\ admitted \in [McpServers -> Seq(Nat)]
  /\ mcpNow \in Nat
  /\ audit \in Seq(McpCalls \X CallSteps) /\ audited \in Seq(McpCalls \X CallSteps)

\* A client: st, sp, rc and rf are the steps its start, stop, reconnect and refresh are at,
\* lock the holder of its lock, cs its state, ses its session, n the number of the last, op
\* its open transports, ls the session of its tools, up whether the manager has started.
ClientOK(st, sp, rc, rf, lock, cs, ses, n, op, ls, up) ==
  /\ st \in {"idle", "connect", "opening", "discovering", "done"}
  /\ sp \in {"idle", "disconnect", "closing", "done"}
  /\ rc \in {"idle", "disconnect", "closing", "connect", "opening", "discovering", "done"}
  /\ rf \in {"idle", "asked", "done"}
  /\ st \in {"opening", "discovering"} <=> lock = "start"
  /\ sp = "closing" <=> lock = "stop"
  /\ rc \in {"opening", "discovering", "closing"} <=> lock = "reconnect"
  /\ lock # "refresh"
  /\ (up => st = "done") /\ (st # "done" => sp = "idle" /\ rc = "idle")
  /\ st \in {"idle", "connect"} \/ rc = "connect" => cs = "disconnected"
  /\ cs = "connecting" <=> st \in {"opening", "discovering"} \/ rc \in {"opening", "discovering"}
  /\ cs = "disconnected" \/ st = "opening" \/ rc = "opening" => op = {}
  /\ cs = "connected" \/ st = "discovering" \/ rc = "discovering" => ses = n /\ op = {n}
  /\ op \subseteq {n}
  /\ cs = "connected" => ls \in {0, ses}

Client(s) ==
  ClientOK(mcpAt["start"][s], mcpAt["stop"][s], mcpAt["reconnect"][s], mcpAt["refresh"][s],
           clientLock[s], mcpState[s], session[s], sessions[s], open[s], listed[s], mcpStarted)
Clients == \A s \in McpServers : Client(s)

\* The tasks, the clients, the calls and the audit begin with values of their types.
LEMMA McpTypedInit == ASSUME McpAssumption, McpInit PROVE McpTyped
<1>1. \A S : <<>> \in Seq(S)
  OBVIOUS
<1> QED BY <1>1 DEF McpInit, McpTyped, McpSteps, CallSteps

\* What is recorded of a call leaves the audit and its history sequences of calls.
LEMMA RecordedTypes ==
  ASSUME McpAssumption, McpTyped, NEW c \in McpCalls, NEW r \in CallSteps, Recorded(c, r)
  PROVE  /\ audit' \in Seq(McpCalls \X CallSteps) /\ audited' \in Seq(McpCalls \X CallSteps)
<1> DEFINE E == McpCalls \X CallSteps
           all == Append(audit, <<c, r>>)
<1>1. audit \in Seq(E) /\ audited \in Seq(E) /\ <<c, r>> \in E
  BY DEF McpTyped
<1>2. audited' = Append(audited, <<c, r>>)
      /\ audit' = SubSeq(all, IF Len(all) > AuditSize THEN Len(all) - AuditSize + 1 ELSE 1,
                         Len(all))
  BY DEF Recorded
<1>3. AuditSize \in Nat \ {0}
  BY DEF McpAssumption
<1> HIDE DEF E
<1>4. all \in Seq(E)
  BY <1>1
<1> HIDE DEF all
<1>5. Len(all) \in Nat /\ \A m \in 1..(Len(all) + 1) : SubSeq(all, m, Len(all)) \in Seq(E)
  BY <1>4
<1>6. audit' \in Seq(E)
  <2>1. CASE Len(all) > AuditSize
    <3>1. Len(all) - AuditSize + 1 \in 1..(Len(all) + 1)
      BY <1>3, <1>5, <2>1
    <3> QED BY <1>2, <1>5, <2>1, <3>1
  <2>2. CASE ~(Len(all) > AuditSize)
    BY <1>2, <1>5, <2>2, 1 \in 1..(Len(all) + 1)
  <2> QED BY <2>1, <2>2
<1>7. audited' \in Seq(E)
  BY <1>1, <1>2
<1> QED BY <1>6, <1>7 DEF E

\* Every step of the manager, of a client's tasks and of a call keeps the types.
LEMMA McpTypedStep ==
  ASSUME McpAssumption, McpTyped, [McpNext]_mcpVars
  PROVE  McpTyped'
<1> USE DEF McpTyped
<1>1. CASE ManagerStarts
  BY <1>1 DEF ManagerStarts, clientVars, callVars, McpTasks, McpSteps
<1>2. CASE ManagerStops
  BY <1>2 DEF ManagerStops, clientVars, callVars, McpTasks, McpSteps
<1>3. CASE ManagerDone
  BY <1>3 DEF ManagerDone, clientVars, callVars
<1>4. CASE McpTick
  BY <1>4, SMTT(30) DEF McpTick, clientVars, callVars
<1>5. ASSUME NEW s \in McpServers, Reconnects(s) PROVE McpTyped'
  BY <1>5 DEF Reconnects, AtMcp, clientVars, callVars, McpTasks, McpSteps
<1>6. ASSUME NEW s \in McpServers, RefreshBegins(s) PROVE McpTyped'
  BY <1>6 DEF RefreshBegins, AtMcp, clientVars, callVars, McpTasks, McpSteps
<1>7. ASSUME NEW s \in McpServers, Refreshed(s) PROVE McpTyped'
  BY <1>7 DEF Refreshed, AtMcp, callVars, McpTasks, McpSteps
<1>8. ASSUME NEW t \in McpTasks, NEW s \in McpServers, ConnectBegins(t, s) PROVE McpTyped'
  <2>1. UNCHANGED <<mcpStarted, mcpBusy, session, sessions, open, listed, refreshing,
                    callVars, mcpNow>>
    BY <1>8 DEF ConnectBegins
  <2>2. /\ clientLock' \in [McpServers -> McpTasks \cup {"nobody"}]
        /\ mcpState' \in [McpServers -> {"disconnected", "connecting", "connected", "error"}]
        /\ mcpAt' \in [McpTasks -> [McpServers -> McpSteps]]
    <3>1. CASE mcpState[s] = "connected"
      <4>1. UNCHANGED <<clientLock, mcpState>> /\ mcpAt' = [mcpAt EXCEPT ![t][s] = "done"]
        BY <1>8, <3>1 DEF ConnectBegins, AtMcp
      <4> QED BY <4>1 DEF McpSteps
    <3>2. CASE mcpState[s] # "connected"
      <4>1. /\ mcpAt' = [mcpAt EXCEPT ![t][s] = "opening"]
            /\ clientLock' = [clientLock EXCEPT ![s] = t]
            /\ mcpState' = [mcpState EXCEPT ![s] = "connecting"]
        BY <1>8, <3>2 DEF ConnectBegins, AtMcp
      <4> QED BY <4>1 DEF McpSteps
    <3> QED BY <3>1, <3>2
  <2> QED BY <2>1, <2>2 DEF callVars
<1>9. ASSUME NEW t \in McpTasks, NEW s \in McpServers, SessionMade(t, s) PROVE McpTyped'
  <2>1. /\ sessions' \in [McpServers -> Nat] /\ session' \in [McpServers -> Nat]
    BY <1>9, SMTT(30) DEF SessionMade
  <2>2. open' \in [McpServers -> SUBSET Nat]
    <3>1. sessions[s] + 1 \in Nat /\ open[s] \cup {sessions[s] + 1} \in SUBSET Nat
      BY SMTT(30)
    <3> QED BY <1>9, <3>1 DEF SessionMade
  <2>3. mcpAt' \in [McpTasks -> [McpServers -> McpSteps]]
    BY <1>9 DEF SessionMade, AtMcp, McpSteps
  <2> QED BY <1>9, <2>1, <2>2, <2>3 DEF SessionMade, callVars
<1>10. ASSUME NEW t \in McpTasks, NEW s \in McpServers, ConnectFails(t, s) PROVE McpTyped'
  BY <1>10 DEF ConnectFails, AtMcp, Unlock, callVars, McpSteps
<1>11. ASSUME NEW t \in McpTasks, NEW s \in McpServers, DisconnectBegins(t, s) PROVE McpTyped'
  <2>1. AfterDisconnect(t) \in McpSteps
    BY DEF AfterDisconnect, McpSteps
  <2>2. /\ clientLock' \in [McpServers -> McpTasks \cup {"nobody"}]
        /\ mcpAt' \in [McpTasks -> [McpServers -> McpSteps]]
    <3>1. CASE mcpState[s] = "disconnected"
      <4>1. UNCHANGED clientLock /\ mcpAt' = [mcpAt EXCEPT ![t][s] = AfterDisconnect(t)]
        BY <1>11, <3>1 DEF DisconnectBegins, AtMcp
      <4> QED BY <2>1, <4>1
    <3>2. CASE mcpState[s] # "disconnected"
      <4>1. /\ mcpAt' = [mcpAt EXCEPT ![t][s] = "closing"]
            /\ clientLock' = [clientLock EXCEPT ![s] = t]
        BY <1>11, <3>2 DEF DisconnectBegins, AtMcp
      <4> QED BY <4>1 DEF McpSteps
    <3> QED BY <3>1, <3>2
  <2> QED BY <1>11, <2>2 DEF DisconnectBegins, callVars
<1>12. ASSUME NEW t \in McpTasks, NEW s \in McpServers, NEW y \in BOOLEAN, Discovered(t, s, y)
       PROVE  McpTyped'
  BY <1>12 DEF Discovered, AtMcp, Unlock, callVars, McpSteps
<1>13. ASSUME NEW t \in McpTasks, NEW s \in McpServers, NEW y \in BOOLEAN, Closed(t, s, y)
       PROVE  McpTyped'
  <2>1. AfterDisconnect(t) \in McpSteps
    BY DEF AfterDisconnect, McpSteps
  <2>2. session' \in [McpServers -> Nat] /\ open' \in [McpServers -> SUBSET Nat]
    <3>1. CASE y
      BY <1>13, <3>1 DEF Closed
    <3>2. CASE ~y
      <4>1. open[s] \ {sessions[s]} \in SUBSET Nat
        OBVIOUS
      <4>2. /\ session' = [session EXCEPT ![s] = 0]
            /\ open' = [open EXCEPT ![s] = open[s] \ {sessions[s]}]
        BY <1>13, <3>2 DEF Closed
      <4> QED BY <4>1, <4>2
    <3> QED BY <3>1, <3>2
  <2>3. mcpAt' \in [McpTasks -> [McpServers -> McpSteps]]
    BY <1>13, <2>1 DEF Closed, AtMcp
  <2>4. /\ clientLock' \in [McpServers -> McpTasks \cup {"nobody"}]
        /\ mcpState' \in [McpServers -> {"disconnected", "connecting", "connected", "error"}]
        /\ listed' \in [McpServers -> Nat]
    BY <1>13 DEF Closed, Unlock
  <2> QED BY <1>13, <2>2, <2>3, <2>4 DEF Closed, callVars
<1>14. ASSUME NEW c \in McpCalls, CallBegins(c) PROVE McpTyped'
  <2> DEFINE s == ServerOf[c]
             recent == InWindow(callTimes[s])
  <2>1. s \in McpServers
    BY DEF McpAssumption
  <2>2. recent \in Seq(Nat)
    BY <2>1, SelectedPlaces DEF InWindow
  <2>3. Append(recent, mcpNow) \in Seq(Nat) /\ Append(admitted[s], mcpNow) \in Seq(Nat)
    BY <2>1, <2>2
  <2> HIDE DEF s, recent
  <2>4. callTimes' \in [McpServers -> Seq(Nat)] /\ admitted' \in [McpServers -> Seq(Nat)]
    <3>1. \/ callTimes' = [callTimes EXCEPT ![s] = recent] /\ UNCHANGED admitted
          \/ /\ callTimes' = [callTimes EXCEPT ![s] = Append(recent, mcpNow)]
             /\ admitted' = [admitted EXCEPT ![s] = Append(@, mcpNow)]
      BY <1>14 DEF CallBegins, s, recent
    <3>2. CASE callTimes' = [callTimes EXCEPT ![s] = recent] /\ UNCHANGED admitted
      BY <2>1, <2>2, <3>2
    <3>3. CASE /\ callTimes' = [callTimes EXCEPT ![s] = Append(recent, mcpNow)]
               /\ admitted' = [admitted EXCEPT ![s] = Append(@, mcpNow)]
      BY <2>1, <2>3, <3>3
    <3> QED BY <3>1, <3>2, <3>3
  <2>5. calls' \in [McpCalls -> [at : CallSteps, on : Nat]]
    <3>1. \/ calls' = [calls EXCEPT ![c].at = "refused"]
          \/ calls' = [calls EXCEPT ![c].at = "failed"]
          \/ calls' = [calls EXCEPT ![c] = [at |-> "calling", on |-> session[s]]]
      BY <1>14 DEF CallBegins, s
    <3>2. session[s] \in Nat
      BY <2>1
    <3>3. CASE calls' = [calls EXCEPT ![c].at = "refused"]
      <4>1. calls[c] \in [at : CallSteps, on : Nat]
        OBVIOUS
      <4>2. [calls[c] EXCEPT !.at = "refused"] \in [at : CallSteps, on : Nat]
        BY <4>1 DEF CallSteps
      <4>3. calls' = [calls EXCEPT ![c] = [calls[c] EXCEPT !.at = "refused"]]
        BY <3>3
      <4> QED BY <4>2, <4>3
    <3>4. CASE calls' = [calls EXCEPT ![c].at = "failed"]
      <4>1. calls[c] \in [at : CallSteps, on : Nat]
        OBVIOUS
      <4>2. [calls[c] EXCEPT !.at = "failed"] \in [at : CallSteps, on : Nat]
        BY <4>1 DEF CallSteps
      <4>3. calls' = [calls EXCEPT ![c] = [calls[c] EXCEPT !.at = "failed"]]
        BY <3>4
      <4> QED BY <4>2, <4>3
    <3>5. CASE calls' = [calls EXCEPT ![c] = [at |-> "calling", on |-> session[s]]]
      BY <3>2, <3>5 DEF CallSteps
    <3> QED BY <3>1, <3>3, <3>4, <3>5
  <2>6. audit' \in Seq(McpCalls \X CallSteps) /\ audited' \in Seq(McpCalls \X CallSteps)
    <3>1. Recorded(c, "refused") \/ Recorded(c, "failed") \/ UNCHANGED <<audit, audited>>
      BY <1>14 DEF CallBegins
    <3> QED BY <3>1, RecordedTypes DEF CallSteps
  <2>7. UNCHANGED <<mcpStarted, mcpBusy, mcpAt, clientVars, refreshing, mcpNow>>
    BY <1>14 DEF CallBegins
  <2> QED BY <2>4, <2>5, <2>6, <2>7 DEF clientVars
<1>15. ASSUME NEW c \in McpCalls, NEW r \in {"answered", "failed"}, CallEnds(c, r)
       PROVE  McpTyped'
  <2>1. calls' \in [McpCalls -> [at : CallSteps, on : Nat]]
    <3>1. calls' = [calls EXCEPT ![c] = [calls[c] EXCEPT !.at = r]]
      BY <1>15 DEF CallEnds
    <3>2. calls[c] \in [at : CallSteps, on : Nat] /\ r \in CallSteps
      BY DEF CallSteps
    <3>3. [calls[c] EXCEPT !.at = r] \in [at : CallSteps, on : Nat]
      BY <3>2
    <3> QED BY <3>1, <3>3
  <2>2. audit' \in Seq(McpCalls \X CallSteps) /\ audited' \in Seq(McpCalls \X CallSteps)
    BY <1>15, RecordedTypes DEF CallEnds, CallSteps
  <2> QED BY <1>15, <2>1, <2>2 DEF CallEnds, clientVars
<1>16. CASE UNCHANGED mcpVars
  BY <1>16 DEF mcpVars
<1> HIDE DEF McpTyped
<1> QED BY <1>1, <1>2, <1>3, <1>4, <1>5, <1>6, <1>7, <1>8, <1>9, <1>10, <1>11, <1>12, <1>13,
           <1>14, <1>15, <1>16 DEF McpNext

\* At the start no task is at a client, and each of them is as it may be.
LEMMA ClientsInit == ASSUME McpInit PROVE Clients
BY DEF McpInit, Clients, Client, ClientOK, McpTasks

\* A client nobody moves, while the manager stays as it is, is as it was.
LEMMA ClientKept ==
  ASSUME McpTyped, NEW t \in McpTasks, NEW s \in McpServers, NEW x \in McpServers, x # s, Client(x),
         NEW step, mcpAt' = [mcpAt EXCEPT ![t][s] = step],
         UNCHANGED <<clientLock[x], mcpState[x], session[x], sessions[x], open[x], listed[x],
                     mcpStarted>>
  PROVE  Client(x)'
<1>1. \A u \in McpTasks : mcpAt'[u][x] = mcpAt[u][x]
  BY DEF McpTyped
<1>2. {"start", "stop", "reconnect", "refresh"} \subseteq McpTasks
  BY DEF McpTasks
<1> QED BY <1>1, <1>2 DEF Client

\* The steps of the tasks at the client s once t is at step.
LEMMA TaskMoves ==
  ASSUME McpTyped, NEW t \in McpTasks, NEW s \in McpServers, NEW step, AtMcp(t, s, step)
  PROVE  /\ mcpAt' = [mcpAt EXCEPT ![t][s] = step]
         /\ mcpAt'[t][s] = step
         /\ \A u \in McpTasks : u # t => mcpAt'[u][s] = mcpAt[u][s]
         /\ {"start", "stop", "reconnect", "refresh"} = McpTasks
BY DEF McpTyped, AtMcp, McpTasks

\* Every step leaves each client with a lock that one task holds, and with a session and
\* a list of tools that fit what the task that holds it has done.
LEMMA ClientsStep ==
  ASSUME McpAssumption, "close" \notin McpFaults, McpTyped, Clients, [McpNext]_mcpVars
  PROVE  Clients'
<1>0. \A s \in McpServers : /\ sessions[s] \in Nat /\ session[s] \in Nat /\ open[s] \in SUBSET Nat
                            /\ listed[s] \in Nat /\ refreshing[s] \in Nat
                            /\ mcpStarted \in BOOLEAN
  BY DEF McpTyped
<1>1. CASE ManagerStarts
  <2> SUFFICES ASSUME NEW x \in McpServers PROVE Client(x)'
    BY DEF Clients
  <2>1. /\ mcpAt'["start"][x] = "connect" /\ mcpAt["start"][x] = "idle" /\ mcpStarted = FALSE
        /\ \A u \in {"stop", "reconnect", "refresh"} : mcpAt'[u][x] = mcpAt[u][x]
    BY <1>1 DEF ManagerStarts, McpTyped, McpTasks
  <2>2. UNCHANGED <<clientLock, mcpState, session, sessions, open, listed, mcpStarted>>
    BY <1>1 DEF ManagerStarts, clientVars
  <2> QED BY <2>1, <2>2 DEF Clients, Client, ClientOK
<1>2. CASE ManagerStops
  <2> SUFFICES ASSUME NEW x \in McpServers PROVE Client(x)'
    BY DEF Clients
  <2>1. /\ mcpAt'["stop"][x] = "disconnect" /\ mcpAt["stop"][x] = "idle" /\ mcpStarted
        /\ \A u \in {"start", "reconnect", "refresh"} : mcpAt'[u][x] = mcpAt[u][x]
    BY <1>2 DEF ManagerStops, McpTyped, McpTasks
  <2>2. UNCHANGED <<clientLock, mcpState, session, sessions, open, listed, mcpStarted>>
    BY <1>2 DEF ManagerStops, clientVars
  <2> QED BY <2>1, <2>2 DEF Clients, Client, ClientOK
<1>3. CASE ManagerDone
  <2> SUFFICES ASSUME NEW x \in McpServers PROVE Client(x)'
    BY DEF Clients
  <2>1. mcpStarted' => mcpAt["start"][x] = "done"
    BY <1>3 DEF ManagerDone
  <2>2. UNCHANGED <<mcpAt, clientLock, mcpState, session, sessions, open, listed>>
    BY <1>3 DEF ManagerDone, clientVars
  <2> QED BY <2>1, <2>2 DEF Clients, Client, ClientOK
<1>4. CASE McpTick \/ UNCHANGED mcpVars \/ \E c \in McpCalls : CallBegins(c) \/ \E r : CallEnds(c, r)
  <2>1. UNCHANGED <<mcpAt, clientLock, mcpState, session, sessions, open, listed, mcpStarted>>
    BY <1>4 DEF McpTick, CallBegins, CallEnds, mcpVars, clientVars
  <2> QED BY <2>1 DEF Clients, Client
<1>5. ASSUME NEW s \in McpServers, Reconnects(s) PROVE Clients'
  <2> SUFFICES ASSUME NEW x \in McpServers PROVE Client(x)'
    BY DEF Clients
  <2>1. UNCHANGED <<clientLock, mcpState, session, sessions, open, listed, mcpStarted>>
    BY <1>5 DEF Reconnects, clientVars
  <2>2. AtMcp("reconnect", s, "disconnect") /\ mcpAt["reconnect"][s] = "idle" /\ mcpStarted
    BY <1>5 DEF Reconnects
  <2>3. CASE x # s
    BY <2>1, <2>2, <2>3, ClientKept, TaskMoves DEF Clients, McpTasks
  <2>4. CASE x = s
    <3>1. /\ mcpAt'["reconnect"][s] = "disconnect"
          /\ \A u \in {"start", "stop", "refresh"} : mcpAt'[u][s] = mcpAt[u][s]
      BY <2>2, TaskMoves DEF McpTasks
    <3> QED BY <2>1, <2>2, <2>4, <3>1 DEF Clients, Client, ClientOK
  <2> QED BY <2>3, <2>4
<1>6. ASSUME NEW s \in McpServers, RefreshBegins(s) PROVE Clients'
  <2> SUFFICES ASSUME NEW x \in McpServers PROVE Client(x)'
    BY DEF Clients
  <2>1. UNCHANGED <<clientLock, mcpState, session, sessions, open, listed, mcpStarted>>
    BY <1>6 DEF RefreshBegins, clientVars
  <2>2. AtMcp("refresh", s, "asked")
    BY <1>6 DEF RefreshBegins
  <2>3. CASE x # s
    BY <2>1, <2>2, <2>3, ClientKept, TaskMoves DEF Clients, McpTasks
  <2>4. CASE x = s
    <3>1. /\ mcpAt'["refresh"][s] = "asked"
          /\ \A u \in {"start", "stop", "reconnect"} : mcpAt'[u][s] = mcpAt[u][s]
      BY <2>2, TaskMoves DEF McpTasks
    <3> QED BY <2>1, <2>2, <2>4, <3>1 DEF Clients, Client, ClientOK
  <2> QED BY <2>3, <2>4
<1>7. ASSUME NEW s \in McpServers, Refreshed(s) PROVE Clients'
  <2> SUFFICES ASSUME NEW x \in McpServers PROVE Client(x)'
    BY DEF Clients
  <2>1. /\ UNCHANGED <<clientLock, mcpState, session, sessions, open, mcpStarted>>
        /\ listed'[x] = IF x = s THEN IF refreshing[s] \in open[s] THEN refreshing[s] ELSE 0
                        ELSE listed[x]
    BY <1>7 DEF Refreshed, McpTyped
  <2>2. AtMcp("refresh", s, "done")
    BY <1>7 DEF Refreshed
  <2>3. CASE x # s
    BY <2>1, <2>2, <2>3, ClientKept, TaskMoves DEF Clients, McpTasks
  <2>4. CASE x = s
    <3>1. /\ mcpAt'["refresh"][s] = "done"
          /\ \A u \in {"start", "stop", "reconnect"} : mcpAt'[u][s] = mcpAt[u][s]
      BY <2>2, TaskMoves DEF McpTasks
    <3>2. mcpState[s] = "connected" => listed'[s] \in {0, session[s]}
      BY <2>1, <2>4 DEF Clients, Client, ClientOK
    <3> QED BY <2>1, <2>4, <3>1, <3>2 DEF Clients, Client, ClientOK
  <2> QED BY <2>3, <2>4
<1>8. ASSUME NEW t \in McpTasks, NEW s \in McpServers, ConnectBegins(t, s) PROVE Clients'
  <2> SUFFICES ASSUME NEW x \in McpServers PROVE Client(x)'
    BY DEF Clients
  <2>0. mcpAt[t][s] = "connect" /\ clientLock[s] = "nobody"
        /\ UNCHANGED <<session, sessions, open, listed, mcpStarted>>
    BY <1>8 DEF ConnectBegins
  <2>a. t \in {"start", "reconnect"} /\ mcpState[s] = "disconnected"
    BY <2>0 DEF Clients, Client, ClientOK, McpTasks
  <2>1. /\ AtMcp(t, s, "opening")
        /\ clientLock'[x] = IF x = s THEN t ELSE clientLock[x]
        /\ mcpState'[x] = IF x = s THEN "connecting" ELSE mcpState[x]
    BY <1>8, <2>a DEF ConnectBegins, McpTyped
  <2>2. CASE x # s
    BY <2>0, <2>1, <2>2, ClientKept, TaskMoves DEF Clients
  <2>3. CASE x = s
    <3>1. mcpAt'[t][s] = "opening" /\ \A u \in McpTasks : u # t => mcpAt'[u][s] = mcpAt[u][s]
      BY <2>1, TaskMoves
    <3>2. CASE t = "start"
      <4>1. /\ mcpAt'["start"][s] = "opening"
            /\ \A u \in {"stop", "reconnect", "refresh"} : mcpAt'[u][s] = mcpAt[u][s]
        BY <3>1, <3>2 DEF McpTasks
      <4> QED BY <2>0, <2>1, <2>3, <2>a, <3>2, <4>1 DEF Clients, Client, ClientOK
    <3>3. CASE t = "reconnect"
      <4>1. /\ mcpAt'["reconnect"][s] = "opening"
            /\ \A u \in {"stop", "start", "refresh"} : mcpAt'[u][s] = mcpAt[u][s]
        BY <3>1, <3>3 DEF McpTasks
      <4> QED BY <2>0, <2>1, <2>3, <2>a, <3>3, <4>1 DEF Clients, Client, ClientOK
    <3> QED BY <2>a, <3>2, <3>3
  <2> QED BY <2>2, <2>3
<1>9. ASSUME NEW t \in McpTasks, NEW s \in McpServers, SessionMade(t, s) PROVE Clients'
  <2> SUFFICES ASSUME NEW x \in McpServers PROVE Client(x)'
    BY DEF Clients
  <2>0. mcpAt[t][s] = "opening" /\ UNCHANGED <<clientLock, mcpState, listed, mcpStarted>>
    BY <1>9 DEF SessionMade
  <2>a. t \in {"start", "reconnect"} /\ open[s] = {} /\ mcpState[s] = "connecting"
    BY <2>0 DEF Clients, Client, ClientOK, McpTasks
  <2>1. /\ AtMcp(t, s, "discovering")
        /\ sessions'[x] = IF x = s THEN sessions[s] + 1 ELSE sessions[x]
        /\ session'[x] = IF x = s THEN sessions[s] + 1 ELSE session[x]
        /\ open'[x] = IF x = s THEN open[s] \cup {sessions[s] + 1} ELSE open[x]
    BY <1>9 DEF SessionMade, McpTyped
  <2>2. CASE x # s
    BY <2>0, <2>1, <2>2, ClientKept, TaskMoves DEF Clients
  <2>3. CASE x = s
    <3>0. session'[s] = sessions'[s] /\ open'[s] = {sessions'[s]}
      BY <2>1, <2>3, <2>a
    <3>1. mcpAt'[t][s] = "discovering" /\ \A u \in McpTasks : u # t => mcpAt'[u][s] = mcpAt[u][s]
      BY <2>1, TaskMoves
    <3>2. CASE t = "start"
      <4>1. /\ mcpAt'["start"][s] = "discovering"
            /\ \A u \in {"stop", "reconnect", "refresh"} : mcpAt'[u][s] = mcpAt[u][s]
        BY <3>1, <3>2 DEF McpTasks
      <4> QED BY <2>0, <2>3, <2>a, <3>0, <3>2, <4>1 DEF Clients, Client, ClientOK
    <3>3. CASE t = "reconnect"
      <4>1. /\ mcpAt'["reconnect"][s] = "discovering"
            /\ \A u \in {"stop", "start", "refresh"} : mcpAt'[u][s] = mcpAt[u][s]
        BY <3>1, <3>3 DEF McpTasks
      <4> QED BY <2>0, <2>3, <2>a, <3>0, <3>3, <4>1 DEF Clients, Client, ClientOK
    <3> QED BY <2>a, <3>2, <3>3
  <2> QED BY <2>2, <2>3
<1>10. ASSUME NEW t \in McpTasks, NEW s \in McpServers, NEW found \in BOOLEAN,
              Discovered(t, s, found) \/ ConnectFails(t, s)
       PROVE  Clients'
  <2> SUFFICES ASSUME NEW x \in McpServers PROVE Client(x)'
    BY DEF Clients
  <2>0. /\ mcpAt[t][s] \in {"opening", "discovering"}
        /\ UNCHANGED <<session, sessions, open, mcpStarted>>
    BY <1>10 DEF Discovered, ConnectFails
  <2>a. t \in {"start", "reconnect"} /\ mcpState[s] = "connecting"
    BY <2>0 DEF Clients, Client, ClientOK, McpTasks
  <2>1. /\ AtMcp(t, s, "done")
        /\ clientLock'[x] = IF x = s THEN "nobody" ELSE clientLock[x]
        /\ x # s => mcpState'[x] = mcpState[x] /\ listed'[x] = listed[x]
    BY <1>10 DEF Discovered, ConnectFails, Unlock, McpTyped
  <2>b. \/ mcpState'[s] = "error"
        \/ /\ mcpState'[s] = "connected" /\ listed'[s] \in {0, session[s]}
           /\ session[s] = sessions[s] /\ open[s] = {sessions[s]}
    <3>1. CASE ConnectFails(t, s)
      BY <3>1 DEF ConnectFails, McpTyped
    <3>2. CASE Discovered(t, s, found)
      <4>1. /\ mcpAt[t][s] = "discovering" /\ mcpState'[s] = "connected"
            /\ listed'[s] \in {0, session[s]}
        BY <3>2 DEF Discovered, McpTyped
      <4> QED BY <2>a, <4>1 DEF Clients, Client, ClientOK
    <3> QED BY <1>10, <3>1, <3>2
  <2>2. CASE x # s
    BY <2>0, <2>1, <2>2, ClientKept, TaskMoves DEF Clients
  <2>3. CASE x = s
    <3>1. mcpAt'[t][s] = "done" /\ \A u \in McpTasks : u # t => mcpAt'[u][s] = mcpAt[u][s]
      BY <2>1, TaskMoves
    <3>2. CASE t = "start"
      <4>1. /\ mcpAt'["start"][s] = "done"
            /\ \A u \in {"stop", "reconnect", "refresh"} : mcpAt'[u][s] = mcpAt[u][s]
        BY <3>1, <3>2 DEF McpTasks
      <4> QED BY <2>0, <2>1, <2>b, <2>3, <2>a, <3>2, <4>1 DEF Clients, Client, ClientOK
    <3>3. CASE t = "reconnect"
      <4>1. /\ mcpAt'["reconnect"][s] = "done"
            /\ \A u \in {"stop", "start", "refresh"} : mcpAt'[u][s] = mcpAt[u][s]
        BY <3>1, <3>3 DEF McpTasks
      <4> QED BY <2>0, <2>1, <2>b, <2>3, <2>a, <3>3, <4>1 DEF Clients, Client, ClientOK
    <3> QED BY <2>a, <3>2, <3>3
  <2> QED BY <2>2, <2>3
<1>11. ASSUME NEW t \in McpTasks, NEW s \in McpServers, DisconnectBegins(t, s) PROVE Clients'
  <2> SUFFICES ASSUME NEW x \in McpServers PROVE Client(x)'
    BY DEF Clients
  <2>0. mcpAt[t][s] = "disconnect" /\ clientLock[s] = "nobody"
        /\ UNCHANGED <<mcpState, session, sessions, open, listed, mcpStarted>>
    BY <1>11 DEF DisconnectBegins
  <2>a. t \in {"stop", "reconnect"}
    BY <2>0 DEF Clients, Client, ClientOK, McpTasks
  <2>1. PICK step : /\ AtMcp(t, s, step)
                    /\ IF mcpState[s] = "disconnected"
                       THEN step = AfterDisconnect(t) /\ UNCHANGED clientLock
                       ELSE step = "closing" /\ clientLock' = [clientLock EXCEPT ![s] = t]
    BY <1>11 DEF DisconnectBegins
  <2>b. clientLock'[x] = IF x = s /\ mcpState[s] # "disconnected" THEN t ELSE clientLock[x]
    BY <2>1 DEF McpTyped
  <2>2. CASE x # s
    BY <2>0, <2>1, <2>b, <2>2, ClientKept, TaskMoves DEF Clients
  <2>3. CASE x = s
    <3>1. mcpAt'[t][s] = step /\ \A u \in McpTasks : u # t => mcpAt'[u][s] = mcpAt[u][s]
      BY <2>1, TaskMoves
    <3>2. CASE t = "stop"
      <4>1. /\ mcpAt'["stop"][s] = step
            /\ \A u \in {"start", "reconnect", "refresh"} : mcpAt'[u][s] = mcpAt[u][s]
            /\ step = IF mcpState[s] = "disconnected" THEN "done" ELSE "closing"
        BY <2>1, <3>1, <3>2 DEF McpTasks, AfterDisconnect
      <4> QED BY <2>0, <2>b, <2>3, <3>2, <4>1 DEF Clients, Client, ClientOK
    <3>3. CASE t = "reconnect"
      <4>1. /\ mcpAt'["reconnect"][s] = step
            /\ \A u \in {"stop", "start", "refresh"} : mcpAt'[u][s] = mcpAt[u][s]
            /\ step = IF mcpState[s] = "disconnected" THEN "connect" ELSE "closing"
        BY <2>1, <3>1, <3>3 DEF McpTasks, AfterDisconnect
      <4> QED BY <2>0, <2>b, <2>3, <3>3, <4>1 DEF Clients, Client, ClientOK
    <3> QED BY <2>a, <3>2, <3>3
  <2> QED BY <2>2, <2>3
<1>12. ASSUME NEW t \in McpTasks, NEW s \in McpServers, NEW fails \in BOOLEAN, Closed(t, s, fails)
       PROVE  Clients'
  <2> SUFFICES ASSUME NEW x \in McpServers PROVE Client(x)'
    BY DEF Clients
  <2>0. mcpAt[t][s] = "closing" /\ ~fails /\ UNCHANGED <<sessions, mcpStarted>>
    BY <1>12 DEF Closed
  <2>a. t \in {"stop", "reconnect"} /\ open[s] \subseteq {sessions[s]}
    BY <2>0 DEF Clients, Client, ClientOK, McpTasks
  <2>1. /\ AtMcp(t, s, AfterDisconnect(t))
        /\ clientLock'[x] = IF x = s THEN "nobody" ELSE clientLock[x]
        /\ mcpState'[x] = IF x = s THEN "disconnected" ELSE mcpState[x]
        /\ session'[x] = IF x = s THEN 0 ELSE session[x]
        /\ open'[x] = IF x = s THEN open[s] \ {sessions[s]} ELSE open[x]
        /\ listed'[x] = IF x = s THEN 0 ELSE listed[x]
    BY <1>12, <2>0 DEF Closed, Unlock, McpTyped
  <2>2. CASE x # s
    BY <2>0, <2>1, <2>2, ClientKept, TaskMoves, SMTT(30) DEF Clients
  <2>3. CASE x = s
    <3>0. open'[s] = {}
      BY <2>1, <2>3, <2>a
    <3>1. /\ mcpAt'[t][s] = AfterDisconnect(t)
          /\ \A u \in McpTasks : u # t => mcpAt'[u][s] = mcpAt[u][s]
      BY <2>1, TaskMoves
    <3>2. CASE t = "stop"
      <4>1. /\ mcpAt'["stop"][s] = "done"
            /\ \A u \in {"start", "reconnect", "refresh"} : mcpAt'[u][s] = mcpAt[u][s]
        BY <3>1, <3>2 DEF McpTasks, AfterDisconnect
      <4> QED BY <2>0, <2>1, <2>3, <3>0, <3>2, <4>1 DEF Clients, Client, ClientOK
    <3>3. CASE t = "reconnect"
      <4>1. /\ mcpAt'["reconnect"][s] = "connect"
            /\ \A u \in {"stop", "start", "refresh"} : mcpAt'[u][s] = mcpAt[u][s]
        BY <3>1, <3>3 DEF McpTasks, AfterDisconnect
      <4> QED BY <2>0, <2>1, <2>3, <3>0, <3>3, <4>1 DEF Clients, Client, ClientOK
    <3> QED BY <2>a, <3>2, <3>3
  <2> QED BY <2>2, <2>3
<1> QED BY <1>1, <1>2, <1>3, <1>4, <1>5, <1>6, <1>7, <1>8, <1>9, <1>10, <1>11, <1>12 DEF McpNext

\* The calls that run are within the bound, and the window of each server slides.
CallsWithin ==
  /\ IsFiniteSet(Running) /\ Cardinality(Running) <= MaxParallel
  /\ \A s \in McpServers : Slides(admitted[s], callTimes[s], mcpNow, Window, CallsPerWindow)

\* A call is recorded when it is over, once and as it ended; the log is the record's end.
Audits ==
  /\ \A c \in McpCalls : calls[c].at \in {"new", "calling"} <=>
                           \A i \in 1..Len(audited) : audited[i][1] # c
  /\ \A i, j \in 1..Len(audited) : audited[i][1] = audited[j][1] => i = j
  /\ \A i \in 1..Len(audited) : calls[audited[i][1]].at = audited[i][2]
  /\ Len(audit) <= Len(audited)
  /\ \A k \in 1..Len(audit) : audit[k] = audited[(Len(audited) - Len(audit)) + k]

\* No call runs at the start, and nothing is in a window or in the audit.
LEMMA CallsInit == ASSUME McpAssumption, McpInit PROVE CallsWithin /\ Audits
<1>1. /\ MaxParallel \in Nat \ {0} /\ CallsPerWindow \in Nat \ {0} /\ Window \in Nat \ {0}
  BY DEF McpAssumption
<1>2. Running = {}
  BY DEF McpInit, Running
<1>3. ASSUME NEW s \in McpServers
      PROVE  Slides(admitted[s], callTimes[s], mcpNow, Window, CallsPerWindow)
  <2>1. admitted[s] = <<>> /\ callTimes[s] = <<>> /\ mcpNow = 0 /\ Len(<<>>) = 0
    BY DEF McpInit
  <2> QED BY <1>1, <2>1 DEF Slides
<1>4. Audits
  <2>1. audited = <<>> /\ audit = <<>> /\ Len(<<>>) = 0 /\ \A c \in McpCalls : calls[c].at = "new"
    BY DEF McpInit
  <2> QED BY <2>1 DEF Audits
<1> QED BY <1>1, <1>2, <1>3, <1>4, FS_EmptySet DEF CallsWithin

\* A call that is over is recorded: it had no record before, and has one of its outcome.
LEMMA RecordedOnce ==
  ASSUME McpAssumption, McpTyped, Audits, NEW c \in McpCalls,
         NEW r \in {"refused", "failed", "answered"}, calls[c].at \in {"new", "calling"},
         calls'[c].at = r, \A x \in McpCalls : x # c => calls'[x].at = calls[x].at,
         Recorded(c, r)
  PROVE  Audits'
<1> DEFINE E == McpCalls \X CallSteps
           e == <<c, r>>
           all == Append(audit, e)
           n == Len(audited)
           m == Len(audit)
<1>1. audit \in Seq(E) /\ audited \in Seq(E) /\ e \in E /\ AuditSize \in Nat \ {0}
  BY DEF McpTyped, CallSteps, McpAssumption
<1>2. /\ audited' = Append(audited, e)
      /\ audit' = SubSeq(all, IF Len(all) > AuditSize THEN Len(all) - AuditSize + 1 ELSE 1,
                         Len(all))
  BY DEF Recorded
<1>3. e[1] = c /\ e[2] = r
  OBVIOUS
<1>a. \A i \in 1..n : audited[i][1] \in McpCalls
  BY <1>1
<1> HIDE DEF e, E
<1>4. /\ n \in Nat /\ Len(audited') = n + 1 /\ audited'[n + 1] = e
      /\ \A i \in 1..n : audited'[i] = audited[i]
  BY <1>1, <1>2, AppendPlaces
<1>5. /\ m \in Nat /\ all \in Seq(E) /\ Len(all) = m + 1 /\ all[m + 1] = e
      /\ \A i \in 1..m : all[i] = audit[i]
  BY <1>1, AppendPlaces
<1>6. m <= n /\ \A k \in 1..m : audit[k] = audited[(n - m) + k]
  BY DEF Audits
<1> HIDE DEF all, n, m
<1>7. \A k \in 1..(m + 1) : all[k] = audited'[(n - m) + k]
  <2> TAKE k \in 1..(m + 1)
  <2>1. CASE k \in 1..m
    <3>1. (n - m) + k \in 1..n
      BY <1>4, <1>5, <1>6, <2>1
    <3> QED BY <1>4, <1>5, <1>6, <2>1, <3>1
  <2>2. CASE k = m + 1
    <3>1. (n - m) + k = n + 1
      BY <1>4, <1>5, <2>2
    <3> QED BY <1>4, <1>5, <2>2, <3>1
  <2> QED BY <1>5, <2>1, <2>2
<1>8. PICK d \in 0..(m + 1) : /\ Len(audit') = (m + 1) - d
                              /\ \A k \in 1..((m + 1) - d) : audit'[k] = all[d + k]
  <2>1. CASE Len(all) > AuditSize
    <3>1. audit' = SubSeq(all, ((m + 1) - AuditSize) + 1, m + 1)
      BY <1>2, <1>5, <2>1
    <3>2. (m + 1) - AuditSize \in 0..(m + 1)
      BY <1>1, <1>5, <2>1
    <3>3. \A d \in 0..(m + 1) :
            /\ Len(SubSeq(all, d + 1, m + 1)) = (m + 1) - d
            /\ \A k \in 1..((m + 1) - d) : SubSeq(all, d + 1, m + 1)[k] = all[d + k]
      BY <1>5
    <3> QED BY <3>1, <3>2, <3>3
  <2>2. CASE ~(Len(all) > AuditSize)
    <3>1. audit' = SubSeq(all, 1, m + 1)
      BY <1>2, <1>5, <2>2
    <3>2. Len(audit') = (m + 1) - 0 /\ \A k \in 1..((m + 1) - 0) : audit'[k] = all[0 + k]
      BY <1>5, <3>1
    <3>3. 0 \in 0..(m + 1)
      BY <1>5
    <3> QED BY <3>2, <3>3
  <2> QED BY <2>1, <2>2
<1>9. /\ Len(audit') <= Len(audited')
      /\ \A k \in 1..Len(audit') : audit'[k] = audited'[(Len(audited') - Len(audit')) + k]
  <2>1. Len(audit') <= Len(audited')
    BY <1>4, <1>5, <1>6, <1>8
  <2>2. ASSUME NEW k \in 1..Len(audit')
        PROVE  audit'[k] = audited'[(Len(audited') - Len(audit')) + k]
    <3>1. d + k \in 1..(m + 1) /\ audit'[k] = all[d + k]
      BY <1>5, <1>8, <2>2
    <3>2. all[d + k] = audited'[(n - m) + (d + k)]
      BY <1>7, <3>1
    <3>3. (n - m) + (d + k) = (Len(audited') - Len(audit')) + k
      <4>1. \A w, x, y, z \in Nat : (w - x) + (y + z) = ((w + 1) - ((x + 1) - y)) + z
        OBVIOUS
      <4>2. d \in Nat /\ k \in Nat
        BY <1>8
      <4> QED BY <1>4, <1>5, <1>8, <4>1, <4>2
    <3> QED BY <3>1, <3>2, <3>3
  <2> QED BY <2>1, <2>2
<1>10. \A i \in 1..(n + 1) : i \in 1..n \/ i = n + 1
  BY <1>4
<1>11. \A i \in 1..n : audited[i][1] # c
  BY DEF Audits, n
<1>12. \A x \in McpCalls : calls'[x].at \in {"new", "calling"} <=>
                             \A i \in 1..Len(audited') : audited'[i][1] # x
  <2> TAKE x \in McpCalls
  <2>1. CASE x = c
    <3>1. n + 1 \in 1..Len(audited') /\ audited'[n + 1][1] = c
      BY <1>3, <1>4
    <3> QED BY <2>1, <3>1
  <2>2. CASE x # c
    <3>1. (\A i \in 1..Len(audited') : audited'[i][1] # x) <=> \A i \in 1..n : audited[i][1] # x
      BY <1>3, <1>4, <1>10, <2>2
    <3> QED BY <2>2, <3>1 DEF Audits, n
  <2> QED BY <2>1, <2>2
<1>13. \A i, j \in 1..Len(audited') : audited'[i][1] = audited'[j][1] => i = j
  <2>1. \A i, j \in 1..n : audited[i][1] = audited[j][1] => i = j
    BY DEF Audits, n
  <2> QED BY <1>3, <1>4, <1>10, <1>11, <2>1
<1>14. \A i \in 1..Len(audited') : calls'[audited'[i][1]].at = audited'[i][2]
  <2> TAKE i \in 1..Len(audited')
  <2>1. CASE i \in 1..n
    <3>1. audited'[i] = audited[i] /\ audited[i][1] # c /\ audited[i][1] \in McpCalls
      BY <1>4, <1>11, <1>a, <2>1 DEF n
    <3>2. calls[audited[i][1]].at = audited[i][2]
      BY <2>1 DEF Audits, n
    <3> QED BY <3>1, <3>2
  <2>2. CASE i = n + 1
    BY <1>3, <1>4, <2>2
  <2> QED BY <1>4, <1>10, <2>1, <2>2
<1> QED BY <1>9, <1>12, <1>13, <1>14 DEF Audits

\* What a call is at once its entry says so.
LEMMA CallMoves ==
  ASSUME McpTyped, NEW c \in McpCalls, NEW r \in CallSteps,
         \/ calls' = [calls EXCEPT ![c].at = r]
         \/ \E on : calls' = [calls EXCEPT ![c] = [at |-> r, on |-> on]]
  PROVE  calls'[c].at = r /\ \A x \in McpCalls : x # c => calls'[x].at = calls[x].at
<1>1. calls[c] \in [at : CallSteps, on : Nat] /\ c \in DOMAIN calls
      /\ DOMAIN calls = McpCalls
  BY DEF McpTyped
<1>2. CASE calls' = [calls EXCEPT ![c].at = r]
  <2>1. calls' = [calls EXCEPT ![c] = [calls[c] EXCEPT !.at = r]]
    BY <1>2
  <2> QED BY <1>1, <2>1
<1>3. CASE \E on : calls' = [calls EXCEPT ![c] = [at |-> r, on |-> on]]
  BY <1>1, <1>3
<1> QED BY <1>2, <1>3

\* Every step keeps the calls within their bounds, the windows sliding and the audit the
\* last part of all that was recorded.
LEMMA CallsStep ==
  ASSUME McpAssumption, McpTyped, CallsWithin, Audits, [McpNext]_mcpVars
  PROVE  CallsWithin' /\ Audits'
<1>0. /\ MaxParallel \in Nat \ {0} /\ CallsPerWindow \in Nat \ {0} /\ Window \in Nat \ {0}
      /\ mcpNow \in Nat
      /\ \A s \in McpServers : callTimes[s] \in Seq(Nat) /\ admitted[s] \in Seq(Nat)
  BY DEF McpAssumption, McpTyped
<1>1. CASE UNCHANGED <<callVars, mcpNow>>
  BY <1>1 DEF CallsWithin, Audits, Running, callVars
<1>2. CASE McpTick
  <2>1. mcpNow' = mcpNow + 1 /\ UNCHANGED callVars
    BY <1>2 DEF McpTick
  <2>2. \A s \in McpServers :
          Slides(admitted[s], callTimes[s], mcpNow + 1, Window, CallsPerWindow)
    BY <1>0, SlidesOn DEF CallsWithin
  <2> QED BY <2>1, <2>2 DEF CallsWithin, Audits, Running, callVars
<1>3. ASSUME NEW c \in McpCalls, CallBegins(c) PROVE CallsWithin' /\ Audits'
  <2> DEFINE s == ServerOf[c]
             recent == InWindow(callTimes[s])
  <2>0. s \in McpServers /\ calls[c].at = "new" /\ Cardinality(Running) < MaxParallel
        /\ mcpNow' = mcpNow
    BY <1>3 DEF CallBegins, McpAssumption
  <2>1. /\ Slides(admitted[s], recent, mcpNow, Window, CallsPerWindow)
        /\ Len(recent) < CallsPerWindow =>
             Slides(Append(admitted[s], mcpNow), Append(recent, mcpNow), mcpNow, Window,
                    CallsPerWindow)
        /\ recent \in Seq(Nat)
    <3> DEFINE S == {t \in Range(callTimes[s]) : t > mcpNow - Window}
    <3>1. recent = Selected(callTimes[s], S)
      BY DEF InWindow
    <3>2. callTimes[s] \in Seq(Nat) /\ admitted[s] \in Seq(Nat)
          /\ Slides(admitted[s], callTimes[s], mcpNow, Window, CallsPerWindow)
      BY <1>0, <2>0 DEF CallsWithin
    <3>3. \A t : t \in S <=> t \in Range(callTimes[s]) /\ t > mcpNow - Window
      OBVIOUS
    <3> HIDE DEF s, recent, S
    <3> QED BY <1>0, <3>1, <3>2, <3>3, SlidingStep
  <2>2. \/ /\ calls' = [calls EXCEPT ![c].at = "refused"] /\ Recorded(c, "refused")
           /\ callTimes' = [callTimes EXCEPT ![s] = recent] /\ UNCHANGED admitted
        \/ /\ Len(recent) < CallsPerWindow
           /\ callTimes' = [callTimes EXCEPT ![s] = Append(recent, mcpNow)]
           /\ admitted' = [admitted EXCEPT ![s] = Append(@, mcpNow)]
           /\ \/ calls' = [calls EXCEPT ![c].at = "failed"] /\ Recorded(c, "failed")
              \/ /\ calls' = [calls EXCEPT ![c] = [at |-> "calling", on |-> session[s]]]
                 /\ UNCHANGED <<audit, audited>>
    <3>1. Len(recent) \in Nat
      BY <2>1
    <3>2. \/ /\ Len(recent) >= CallsPerWindow
             /\ calls' = [calls EXCEPT ![c].at = "refused"] /\ Recorded(c, "refused")
             /\ callTimes' = [callTimes EXCEPT ![s] = recent] /\ UNCHANGED admitted
          \/ /\ ~(Len(recent) >= CallsPerWindow)
             /\ callTimes' = [callTimes EXCEPT ![s] = Append(recent, mcpNow)]
             /\ admitted' = [admitted EXCEPT ![s] = Append(@, mcpNow)]
             /\ \/ calls' = [calls EXCEPT ![c].at = "failed"] /\ Recorded(c, "failed")
                \/ /\ calls' = [calls EXCEPT ![c] = [at |-> "calling", on |-> session[s]]]
                   /\ UNCHANGED <<audit, audited>>
      BY <1>3 DEF CallBegins
    <3> HIDE DEF s, recent
    <3> QED BY <1>0, <3>1, <3>2
  <2>3. PICK r \in {"refused", "failed", "calling"} :
          /\ calls'[c].at = r /\ \A x \in McpCalls : x # c => calls'[x].at = calls[x].at
          /\ r = "calling" => UNCHANGED <<audit, audited>>
          /\ r # "calling" => Recorded(c, r)
    <3> HIDE DEF s, recent
    <3>1. CASE calls' = [calls EXCEPT ![c].at = "refused"] /\ Recorded(c, "refused")
      <4>1. calls'[c].at = "refused" /\ \A x \in McpCalls : x # c => calls'[x].at = calls[x].at
        BY <3>1, CallMoves DEF CallSteps
      <4> QED BY <3>1, <4>1
    <3>2. CASE calls' = [calls EXCEPT ![c].at = "failed"] /\ Recorded(c, "failed")
      <4>1. calls'[c].at = "failed" /\ \A x \in McpCalls : x # c => calls'[x].at = calls[x].at
        BY <3>2, CallMoves DEF CallSteps
      <4> QED BY <3>2, <4>1
    <3>3. CASE /\ calls' = [calls EXCEPT ![c] = [at |-> "calling", on |-> session[s]]]
               /\ UNCHANGED <<audit, audited>>
      <4>1. calls'[c].at = "calling" /\ \A x \in McpCalls : x # c => calls'[x].at = calls[x].at
        BY <3>3, CallMoves DEF CallSteps
      <4> QED BY <3>3, <4>1
    <3> QED BY <2>2, <3>1, <3>2, <3>3
  <2>4. \A x \in McpServers :
          Slides(admitted'[x], callTimes'[x], mcpNow', Window, CallsPerWindow)
    <3> TAKE x \in McpServers
    <3>0. Slides(admitted[x], callTimes[x], mcpNow, Window, CallsPerWindow)
      BY DEF CallsWithin
    <3>1. DOMAIN callTimes = McpServers /\ DOMAIN admitted = McpServers
      BY DEF McpTyped
    <3> HIDE DEF recent, s
    <3>2. CASE callTimes' = [callTimes EXCEPT ![s] = recent] /\ UNCHANGED admitted
      <4>1. callTimes'[x] = (IF x = s THEN recent ELSE callTimes[x]) /\ admitted'[x] = admitted[x]
        BY <2>0, <3>1, <3>2
      <4> QED BY <2>0, <2>1, <3>0, <4>1
    <3>3. CASE /\ Len(recent) < CallsPerWindow
               /\ callTimes' = [callTimes EXCEPT ![s] = Append(recent, mcpNow)]
               /\ admitted' = [admitted EXCEPT ![s] = Append(@, mcpNow)]
      <4>1. /\ callTimes'[x] = IF x = s THEN Append(recent, mcpNow) ELSE callTimes[x]
            /\ admitted'[x] = IF x = s THEN Append(admitted[s], mcpNow) ELSE admitted[x]
        BY <2>0, <3>1, <3>3
      <4> QED BY <2>0, <2>1, <3>0, <3>3, <4>1
    <3> QED BY <2>2, <3>2, <3>3
  <2>5. IsFiniteSet(Running)' /\ Cardinality(Running)' <= MaxParallel
    <3>1. Running' \subseteq Running \cup {c}
      BY <2>3 DEF Running
    <3>2. /\ IsFiniteSet(Running \cup {c})
          /\ Cardinality(Running \cup {c}) <= Cardinality(Running) + 1
          /\ Cardinality(Running) \in Nat
      <4>1. IsFiniteSet(Running) /\ Cardinality(Running) \in Nat
        BY FS_CardinalityType DEF CallsWithin
      <4>2. /\ IsFiniteSet(Running \cup {c})
            /\ Cardinality(Running \cup {c}) =
                 IF c \in Running THEN Cardinality(Running) ELSE Cardinality(Running) + 1
        BY <4>1, FS_AddElement
      <4> QED BY <4>1, <4>2
    <3>3. /\ IsFiniteSet(Running') /\ Cardinality(Running') <= Cardinality(Running \cup {c})
          /\ Cardinality(Running') \in Nat /\ Cardinality(Running \cup {c}) \in Nat
      BY <3>1, <3>2, FS_Subset, FS_CardinalityType
    <3> QED BY <1>0, <2>0, <3>2, <3>3
  <2>6. Audits'
    <3>1. CASE r = "calling"
      <4>1. UNCHANGED <<audit, audited>> /\ calls'[c].at = "calling"
        BY <2>3, <3>1
      <4>2. \A x \in McpCalls : calls'[x].at \in {"new", "calling"} <=>
                                calls[x].at \in {"new", "calling"}
        BY <2>0, <2>3, <4>1
      <4>3. \A i \in 1..Len(audited) : audited[i][1] \in McpCalls
        <5>1. audited \in Seq(McpCalls \X CallSteps)
          BY DEF McpTyped
        <5>2. \A i \in 1..Len(audited) : audited[i] \in McpCalls \X CallSteps
          BY <5>1
        <5> QED BY <5>2
      <4>4. \A i \in 1..Len(audited) : audited[i][1] # c
        BY <2>0 DEF Audits
      <4>5. \A i \in 1..Len(audited) : calls'[audited[i][1]].at = audited[i][2]
        BY <2>3, <4>3, <4>4 DEF Audits
      <4> QED BY <4>1, <4>2, <4>5 DEF Audits
    <3>2. CASE r # "calling"
      BY <2>0, <2>3, <3>2, RecordedOnce
    <3> QED BY <3>1, <3>2
  <2> QED BY <2>4, <2>5, <2>6 DEF CallsWithin
<1>4. ASSUME NEW c \in McpCalls, NEW r \in {"answered", "failed"}, CallEnds(c, r)
      PROVE  CallsWithin' /\ Audits'
  <2>1. /\ calls[c].at = "calling" /\ calls' = [calls EXCEPT ![c].at = r] /\ Recorded(c, r)
        /\ UNCHANGED <<callTimes, admitted, mcpNow>>
    BY <1>4 DEF CallEnds
  <2>2. calls'[c].at = r /\ \A x \in McpCalls : x # c => calls'[x].at = calls[x].at
    BY <2>1, CallMoves DEF CallSteps
  <2>3. Audits'
    BY <2>1, <2>2, RecordedOnce
  <2>4. Running' \in SUBSET Running
    BY <2>1, <2>2 DEF Running
  <2>5. /\ IsFiniteSet(Running') /\ Cardinality(Running') <= Cardinality(Running)
        /\ Cardinality(Running') \in Nat /\ Cardinality(Running) \in Nat
    BY <2>4, FS_Subset, FS_CardinalityType DEF CallsWithin
  <2> QED BY <1>0, <2>1, <2>3, <2>5 DEF CallsWithin
<1>5. ASSUME NEW t \in McpTasks, NEW s \in McpServers, NEW yes \in BOOLEAN,
             \/ ConnectBegins(t, s) \/ SessionMade(t, s) \/ ConnectFails(t, s)
             \/ DisconnectBegins(t, s) \/ Discovered(t, s, yes) \/ Closed(t, s, yes)
      PROVE  UNCHANGED <<callVars, mcpNow>>
  BY <1>5 DEF ConnectBegins, SessionMade, ConnectFails, DisconnectBegins, Discovered, Closed
<1>6. ASSUME NEW s \in McpServers, Reconnects(s) \/ RefreshBegins(s) \/ Refreshed(s)
      PROVE  UNCHANGED <<callVars, mcpNow>>
  BY <1>6 DEF Reconnects, RefreshBegins, Refreshed
<1>7. CASE ManagerStarts \/ ManagerStops \/ ManagerDone \/ UNCHANGED mcpVars
  <2>1. UNCHANGED <<callVars, mcpNow>>
    BY <1>7 DEF ManagerStarts, ManagerStops, ManagerDone, mcpVars, callVars
  <2> QED BY <1>1, <2>1
<1>8. TRUE \in BOOLEAN
  OBVIOUS
<1> HIDE DEF CallsWithin, Audits, McpTyped
<1> QED BY <1>1, <1>2, <1>3, <1>4, <1>5, <1>6, <1>7, <1>8 DEF McpNext

\* The last part of a sequence.
LEMMA PartOfSequence ==
  ASSUME NEW S, NEW s \in Seq(S)
  PROVE  \A d \in 0..Len(s) :
           /\ SubSeq(s, d + 1, Len(s)) \in Seq(S)
           /\ Len(SubSeq(s, d + 1, Len(s))) = Len(s) - d
           /\ \A k \in 1..(Len(s) - d) : SubSeq(s, d + 1, Len(s))[k] = s[d + k]
<1> TAKE d \in 0..Len(s)
<1>1. Len(s) \in Nat /\ d + 1 \in 1..(Len(s) + 1)
  OBVIOUS
<1>2. /\ SubSeq(s, d + 1, Len(s)) \in Seq(S)
      /\ Len(SubSeq(s, d + 1, Len(s))) = Len(s) - d
  BY <1>1
<1>3. \A k \in 1..(Len(s) - d) : SubSeq(s, d + 1, Len(s))[k] = s[d + k]
  BY <1>1
<1> QED BY <1>2, <1>3

\* What the invariant says of the properties.
LEMMA McpSoundOf ==
  ASSUME McpAssumption, "close" \notin McpFaults, McpTyped, Clients, CallsWithin, Audits
  PROVE  McpSound
<1>1. TransportsOwned
  <2> SUFFICES ASSUME NEW s \in McpServers
               PROVE  /\ mcpState[s] = "connected" =>
                           session[s] = sessions[s] /\ session[s] \in open[s]
                      /\ Cardinality(open[s]) <= 1
                      /\ mcpState[s] = "disconnected" => open[s] = {}
    BY DEF TransportsOwned
  <2>1. Client(s)
    BY DEF Clients
  <2>2. /\ mcpState[s] = "connected" => session[s] = sessions[s] /\ open[s] = {sessions[s]}
        /\ open[s] \subseteq {sessions[s]}
        /\ mcpState[s] = "disconnected" => open[s] = {}
    BY <2>1 DEF Client, ClientOK
  <2>3. open[s] = {} \/ open[s] = {sessions[s]}
    BY <2>2
  <2>4. Cardinality({}) = 0 /\ Cardinality({sessions[s]}) = 1
    BY FS_EmptySet, FS_Singleton
  <2>5. Cardinality(open[s]) <= 1
    BY <2>3, <2>4
  <2> QED BY <2>2, <2>5
<1>2. ToolsOfSession
  BY DEF ToolsOfSession, Clients, Client, ClientOK
<1>3. CallsBounded
  <2> SUFFICES ASSUME NEW s \in McpServers, NEW i \in DOMAIN admitted[s],
                      NEW j \in DOMAIN admitted[s], j = i + CallsPerWindow
               PROVE  admitted[s][j] - admitted[s][i] >= Window
    BY DEF CallsBounded, CallsWithin
  <2>1. admitted[s] \in Seq(Nat)
    BY DEF McpTyped
  <2>2. DOMAIN admitted[s] = 1..Len(admitted[s])
    BY <2>1
  <2>3. Slides(admitted[s], callTimes[s], mcpNow, Window, CallsPerWindow)
    BY DEF CallsWithin
  <2> QED BY <2>2, <2>3 DEF Slides
<1>4. CallsAudited
  <2> DEFINE E == McpCalls \X CallSteps
  <2>1. audit \in Seq(E) /\ audited \in Seq(E)
    BY DEF McpTyped
  <2> HIDE DEF E
  <2>2. /\ Len(audited) \in Nat /\ Len(audit) \in Nat /\ DOMAIN audited = 1..Len(audited)
        /\ DOMAIN audit = 1..Len(audit)
    BY <2>1
  <2>3. ASSUME NEW c \in McpCalls
        PROVE  Cardinality({i \in DOMAIN audited : audited[i][1] = c}) =
                 IF calls[c].at \in {"new", "calling"} THEN 0 ELSE 1
    <3> DEFINE A == {i \in DOMAIN audited : audited[i][1] = c}
    <3>1. CASE calls[c].at \in {"new", "calling"}
      <4>1. A = {}
        BY <2>2, <3>1 DEF Audits
      <4> QED BY <3>1, <4>1, FS_EmptySet
    <3>2. CASE calls[c].at \notin {"new", "calling"}
      <4>1. PICK i \in 1..Len(audited) : audited[i][1] = c
        BY <3>2 DEF Audits
      <4>2. A = {i}
        BY <2>2, <4>1 DEF Audits
      <4> QED BY <3>2, <4>2, FS_Singleton
    <3> QED BY <3>1, <3>2
  <2>4. \A i \in DOMAIN audited : calls[audited[i][1]].at = audited[i][2]
    BY <2>2 DEF Audits
  <2>5. audit = SubSeq(audited, Len(audited) - Len(audit) + 1, Len(audited))
    <3> DEFINE n == Len(audited)
               m == Len(audit)
               b == SubSeq(audited, (n - m) + 1, n)
    <3>1. m <= n /\ \A k \in 1..m : audit[k] = audited[(n - m) + k]
      BY DEF Audits
    <3>2. \A d \in 0..n : /\ SubSeq(audited, d + 1, n) \in Seq(E)
                          /\ Len(SubSeq(audited, d + 1, n)) = n - d
                          /\ \A k \in 1..(n - d) : SubSeq(audited, d + 1, n)[k] = audited[d + k]
      BY <2>1, PartOfSequence
    <3>3. n - m \in 0..n /\ n - (n - m) = m
      BY <2>2, <3>1
    <3>4. b \in Seq(E) /\ Len(b) = m /\ \A k \in 1..m : b[k] = audited[(n - m) + k]
      BY <3>2, <3>3
    <3> HIDE DEF b, m, n
    <3>5. audit = b
      BY <2>1, <3>1, <3>4 DEF m
    <3> QED BY <3>5 DEF b, m, n
  <2> QED BY <2>3, <2>4, <2>5 DEF CallsAudited
<1> QED BY <1>1, <1>2, <1>3, <1>4 DEF McpSound

\* The clients of the tool servers have one session at a time and the tools of that session,
\* the calls of a server keep within its window and its bound, and every call that ended is in
\* the audit's history once, with the outcome it had (mcp/client.py, manager.py, executor.py,
\* security.py); for any servers, calls and bounds.  The exit of a session does not raise.
THEOREM ToolsServe == ASSUME McpAssumption, "close" \notin McpFaults
                      PROVE  McpSpec => []McpSound
<1>1. McpInit => McpTyped /\ Clients /\ CallsWithin /\ Audits
  BY McpTypedInit, ClientsInit, CallsInit
<1>2. McpTyped /\ Clients /\ CallsWithin /\ Audits /\ [McpNext]_mcpVars
        => McpTyped' /\ Clients' /\ CallsWithin' /\ Audits'
  BY McpTypedStep, ClientsStep, CallsStep
<1>3. McpTyped /\ Clients /\ CallsWithin /\ Audits => McpSound
  BY McpSoundOf
<1> QED BY <1>1, <1>2, <1>3, PTL DEF McpSpec

--------------------------------------------------------------------------------
(* Operations: the rendered conversation and what a warmed prompt shares.    *)

\* Two sequences of a kind are joined to one.
LEMMA JoinedIs ==
  ASSUME NEW T, NEW a \in Seq(T), NEW b \in Seq(T)
  PROVE  a \o b \in Seq(T)
  OBVIOUS

\* Sequences with the same elements are the same.
LEMMA SameElements ==
  ASSUME NEW T, NEW s \in Seq(T), NEW t \in Seq(T), Len(s) = Len(t),
         \A k \in 1..Len(s) : s[k] = t[k]
  PROVE  s = t
  OBVIOUS

\* The beginning of a sequence that was put before another is the first of the two.
LEMMA FirstPart ==
  ASSUME NEW T, NEW b \in Seq(T), NEW x \in Seq(T)
  PROVE  /\ SubSeq(b \o x, 1, Len(b)) = b /\ Len(b) \in 0..Len(b \o x)
         /\ IsPrefix(b, b \o x) /\ IsPrefix(SubSeq(b \o x, 1, 0), b)
         /\ b \o x \in Seq(T) /\ Len(b \o x) = Len(b) + Len(x)
<1>1. /\ b \o x \in Seq(T) /\ Len(b) \in Nat /\ Len(x) \in Nat
      /\ Len(b \o x) = Len(b) + Len(x)
      /\ \A k \in 1..Len(b) : (b \o x)[k] = b[k]
  OBVIOUS
<1>2. \A s \in Seq(T) : \A n \in 0..Len(s) :
        /\ SubSeq(s, 1, n) \in Seq(T) /\ Len(SubSeq(s, 1, n)) = n
        /\ \A k \in 1..n : SubSeq(s, 1, n)[k] = s[k]
  OBVIOUS
<1> DEFINE j == b \o x
<1> HIDE DEF j
<1>4. SubSeq(j, 1, Len(b)) = b
  <2> DEFINE p == SubSeq(j, 1, Len(b))
  <2>1. Len(b) \in 0..Len(j) /\ j \in Seq(T)
    BY <1>1 DEF j
  <2>2. p \in Seq(T) /\ Len(p) = Len(b) /\ \A k \in 1..Len(b) : p[k] = j[k]
    BY <1>2, <2>1
  <2>3. \A k \in 1..Len(b) : p[k] = b[k]
    BY <1>1, <2>2 DEF j
  <2> HIDE DEF p
  <2>4. p = b
    BY <2>2, <2>3, SameElements
  <2> QED BY <2>4 DEF p
<1>5. SubSeq(b, 1, Len(b)) = b
  BY <1>1
<1>6. IsPrefix(b, j)
  BY <1>1, <1>4, <1>5 DEF IsPrefix, j
<1>7. IsPrefix(SubSeq(j, 1, 0), b)
  <2>1. SubSeq(j, 1, 0) = <<>> /\ SubSeq(b, 1, 0) = <<>> /\ Len(<<>>) = 0
        /\ SubSeq(<<>>, 1, 0) = <<>>
    BY <1>1 DEF j
  <2> QED BY <1>1, <2>1 DEF IsPrefix
<1> QED BY <1>1, <1>4, <1>6, <1>7 DEF j

\* Texts that differ right after their common beginning have no longer one.
LEMMA CommonBeginning ==
  ASSUME NEW T, NEW b \in Seq(T), NEW x \in Seq(T), NEW y \in Seq(T), x # <<>>, y # <<>>,
         x[1] # y[1]
  PROVE  CommonPrefix(b \o x, b \o y) = Len(b)
<1> DEFINE s == b \o x
           t == b \o y
           S == {n \in 0..Len(s) : n <= Len(t) /\ SubSeq(s, 1, n) = SubSeq(t, 1, n)}
<1>1. /\ s \in Seq(T) /\ t \in Seq(T) /\ Len(b) \in Nat /\ Len(x) \in Nat \ {0}
      /\ Len(y) \in Nat \ {0}
      /\ Len(s) = Len(b) + Len(x) /\ Len(t) = Len(b) + Len(y)
      /\ s[Len(b) + 1] = x[1] /\ t[Len(b) + 1] = y[1]
  OBVIOUS
<1>2. SubSeq(s, 1, Len(b)) = b /\ SubSeq(t, 1, Len(b)) = b
  BY FirstPart
<1>3. CommonPrefix(s, t) = CHOOSE m \in S : \A k \in S : m >= k
  BY DEF CommonPrefix, Max
<1> HIDE DEF s, t
<1>4. Len(b) \in S
  BY <1>1, <1>2
<1>5. ASSUME NEW n \in S PROVE n <= Len(b)
  <2> SUFFICES ASSUME n > Len(b) PROVE FALSE
    BY <1>1
  <2>1. n \in 0..Len(s) /\ n \in 0..Len(t) /\ Len(b) + 1 \in 1..n
    BY <1>1
  <2>2. SubSeq(s, 1, n)[Len(b) + 1] = s[Len(b) + 1]
    BY <1>1, <2>1
  <2>3. SubSeq(t, 1, n)[Len(b) + 1] = t[Len(b) + 1]
    BY <1>1, <2>1
  <2> QED BY <1>1, <2>2, <2>3
<1>6. \A k \in S : k \in Nat
  BY <1>1
<1> HIDE DEF S
<1>7. \E m \in S : \A k \in S : m >= k
  BY <1>4, <1>5, <1>6
<1>8. /\ CommonPrefix(s, t) \in S /\ \A k \in S : CommonPrefix(s, t) >= k
  BY <1>3, <1>7
<1>9. CommonPrefix(s, t) >= Len(b) /\ CommonPrefix(s, t) <= Len(b) /\ CommonPrefix(s, t) \in Nat
  BY <1>4, <1>5, <1>6, <1>8
<1>10. CommonPrefix(s, t) = Len(b)
  BY <1>1, <1>9
<1> QED BY <1>10 DEF s, t

\* What is flattened, as its definition says: element after element.
LEMMA FlattenUnfolds ==
  ASSUME NEW s, Len(s) \in Nat \ {0}
  PROVE  \E f : /\ FlattenSeq(s) = f[Len(s)]
                /\ f = [i \in 1..Len(s) |-> IF i = 1 THEN s[i] ELSE f[i - 1] \o s[i]]
<1> DEFINE E(n, g) == [i \in 1..n |-> IF i = 1 THEN s[i] ELSE g[i - 1] \o s[i]]
           f == CHOOSE g : g = E(Len(s), g)
           H == {n \in Nat : \E g : g = E(n, g)}
<1>1. FlattenSeq(s) = f[Len(s)]
  BY DEF FlattenSeq
<1>2. 0 \in H
  <2> DEFINE g == [i \in 1..0 |-> s[i]]
  <2>1. g = E(0, g)
    OBVIOUS
  <2> QED BY <2>1
<1>3. ASSUME NEW n \in Nat, n \in H PROVE n + 1 \in H
  <2>1. PICK g : g = E(n, g)
    BY <1>3
  <2> DEFINE h == [i \in 1..(n + 1) |-> IF i <= n THEN g[i]
                     ELSE IF n + 1 = 1 THEN s[n + 1] ELSE g[n] \o s[n + 1]]
  <2>2. h = E(n + 1, h)
    <3>1. ASSUME NEW i \in 1..(n + 1)
          PROVE  h[i] = IF i = 1 THEN s[i] ELSE h[i - 1] \o s[i]
      <4>1. CASE i <= n
        <5>1. h[i] = g[i] /\ (i # 1 => h[i - 1] = g[i - 1]) /\ i \in 1..n
          BY <4>1
        <5>2. g[i] = E(n, g)[i]
          BY <2>1
        <5> HIDE DEF h
        <5> QED BY <5>1, <5>2
      <4>2. CASE i = n + 1
        BY <4>2
      <4> QED BY <4>1, <4>2
    <3> QED BY <3>1
  <2>3. \E x : x = E(n + 1, x)
    <3> HIDE DEF h, E
    <3> QED BY <2>2
  <2> HIDE DEF E
  <2> QED BY <2>3
<1>4. Len(s) \in H
  <2> HIDE DEF H
  <2>1. Nat \subseteq H
    BY <1>2, <1>3, Induction
  <2> QED BY <2>1
<1>5. f = E(Len(s), f)
  BY <1>4
<1> QED BY <1>1, <1>5

\* The sequences that agree with s up to its last element are flattened to the same text
\* and then their own last element.
LEMMA FlattenedUpToLast ==
  ASSUME NEW T, NEW n \in Nat \ {0}, NEW s \in Seq(Seq(T)), Len(s) = n
  PROVE  \E b \in Seq(T) : \A w \in Seq(Seq(T)) :
           Len(w) = n /\ (\A i \in 1..(n - 1) : w[i] = s[i]) => FlattenSeq(w) = b \o w[n]
<1>1. PICK f : f = [i \in 1..n |-> IF i = 1 THEN s[i] ELSE f[i - 1] \o s[i]]
  BY FlattenUnfolds
<1>2. \A i \in 1..n : s[i] \in Seq(T)
  OBVIOUS
<1> DEFINE b == IF n = 1 THEN <<>> ELSE f[n - 1]
           H == {i \in Nat : i + 1 <= n => f[i + 1] \in Seq(T)}
<1>a. \A i \in 1..n : f[i] = IF i = 1 THEN s[i] ELSE f[i - 1] \o s[i]
  BY <1>1
<1>3. 0 \in H
  BY <1>2, <1>a
<1>4. ASSUME NEW i \in Nat, i \in H PROVE i + 1 \in H
  <2> SUFFICES ASSUME (i + 1) + 1 <= n PROVE f[(i + 1) + 1] \in Seq(T)
    OBVIOUS
  <2>1. (i + 1) + 1 \in 1..n /\ (i + 1) + 1 # 1 /\ ((i + 1) + 1) - 1 = i + 1 /\ i + 1 <= n
    OBVIOUS
  <2>2. f[i + 1] \in Seq(T) /\ s[(i + 1) + 1] \in Seq(T)
    BY <1>2, <1>4, <2>1
  <2>3. f[(i + 1) + 1] = f[i + 1] \o s[(i + 1) + 1]
    BY <1>a, <2>1
  <2> QED BY <2>2, <2>3
<1>5. b \in Seq(T)
  <2>1. CASE n = 1
    BY <2>1
  <2>2. CASE n # 1
    <3>1. Nat \subseteq H
      <4> HIDE DEF H
      <4> QED BY <1>3, <1>4, Induction
    <3>2. n - 2 \in Nat /\ (n - 2) + 1 <= n /\ (n - 2) + 1 = n - 1
      BY <2>2
    <3> QED BY <2>2, <3>1, <3>2
  <2> QED BY <2>1, <2>2
<1>6. ASSUME NEW w \in Seq(Seq(T)), Len(w) = n, \A i \in 1..(n - 1) : w[i] = s[i]
      PROVE  FlattenSeq(w) = b \o w[n]
  <2>1. PICK g : /\ FlattenSeq(w) = g[n]
                 /\ g = [i \in 1..n |-> IF i = 1 THEN w[i] ELSE g[i - 1] \o w[i]]
    <3>1. Len(w) \in Nat \ {0}
      BY <1>6
    <3>2. \E g : /\ FlattenSeq(w) = g[Len(w)]
                 /\ g = [i \in 1..Len(w) |-> IF i = 1 THEN w[i] ELSE g[i - 1] \o w[i]]
      BY <3>1, FlattenUnfolds
    <3> QED BY <1>6, <3>2
  <2>2. \A i \in 1..n : g[i] = IF i = 1 THEN w[i] ELSE g[i - 1] \o w[i]
    BY <2>1
  <2>3. n \in 1..n /\ w[n] \in Seq(T)
    BY <1>6
  <2>4. CASE n = 1
    <3>1. FlattenSeq(w) = w[n]
      BY <2>1, <2>2, <2>4
    <3>2. <<>> \o w[n] = w[n]
      BY <2>3
    <3> QED BY <2>4, <3>1, <3>2
  <2>5. CASE n # 1
    <3> DEFINE G == {i \in Nat : i + 1 <= n - 1 => g[i + 1] = f[i + 1]}
    <3>1. 0 \in G
      BY <1>6, <1>a, <2>2, <2>5
    <3>2. ASSUME NEW i \in Nat, i \in G PROVE i + 1 \in G
      <4> SUFFICES ASSUME (i + 1) + 1 <= n - 1 PROVE g[(i + 1) + 1] = f[(i + 1) + 1]
        OBVIOUS
      <4>1. (i + 1) + 1 \in 1..n /\ (i + 1) + 1 # 1 /\ ((i + 1) + 1) - 1 = i + 1
            /\ i + 1 <= n - 1 /\ (i + 1) + 1 \in 1..(n - 1)
        OBVIOUS
      <4>2. g[i + 1] = f[i + 1] /\ w[(i + 1) + 1] = s[(i + 1) + 1]
        BY <1>6, <3>2, <4>1
      <4>3. f[(i + 1) + 1] = f[i + 1] \o s[(i + 1) + 1]
        BY <1>a, <4>1
      <4>4. g[(i + 1) + 1] = g[i + 1] \o w[(i + 1) + 1]
        BY <2>2, <4>1
      <4> QED BY <4>2, <4>3, <4>4
    <3>3. Nat \subseteq G
      <4> HIDE DEF G
      <4> QED BY <3>1, <3>2, Induction
    <3>4. n - 2 \in Nat /\ (n - 2) + 1 <= n - 1 /\ (n - 2) + 1 = n - 1
      BY <2>5
    <3>5. g[n - 1] = f[n - 1]
      BY <3>3, <3>4
    <3>6. g[n] = g[n - 1] \o w[n]
      BY <2>2, <2>3, <2>5
    <3> QED BY <2>1, <2>5, <3>5, <3>6
  <2> QED BY <2>4, <2>5
<1> HIDE DEF b
<1> QED BY <1>5, <1>6

\* The strings, and those that the code itself writes among them: the provers do not know
\* that a literal is a string.
Words == STRING \cup {"user", "assistant", "/", "A", "l", "B", "r", "X"}
Message == [role : Words, content : Seq(Words)]
Asks == <<"/">> \o <<"assistant">>
Talks(p) == IF p # <<>> /\ Last(p).role = "user" THEN Len(p) ELSE Len(p) + 1

\* A function from the first numbers is a sequence, and the other way round.
LEMMA SequenceOf ==
  ASSUME NEW T, NEW n \in Nat
  PROVE  /\ \A q \in [1..n -> T] : q \in Seq(T) /\ Len(q) = n
         /\ \A q \in Seq(T) : Len(q) \in Nat /\ q \in [1..Len(q) -> T]
  OBVIOUS

\* Five sequences, joined in two ways.
FromLeft(a, x, y, u, t) == (a \o ((x \o y) \o u)) \o t
FromRight(a, x, y, u, t) == (a \o x) \o (y \o (u \o t))

\* They are the same.
LEMMA FiveJoined ==
  ASSUME NEW T, NEW a \in Seq(T), NEW x \in Seq(T), NEW y \in Seq(T), NEW u \in Seq(T),
         NEW t \in Seq(T)
  PROVE  FromLeft(a, x, y, u, t) = FromRight(a, x, y, u, t)
<1> DEFINE xy == x \o y
           ut == u \o t
           xyu == xy \o u
           yut == y \o ut
<1>1. xy \in Seq(T) /\ ut \in Seq(T)
  OBVIOUS
<1>2. xyu \in Seq(T) /\ yut \in Seq(T)
  <2> HIDE DEF xy, ut
  <2> QED BY <1>1
<1>3. xyu \o t = xy \o ut
  <2> HIDE DEF xy
  <2>1. \A q \in Seq(T) : (q \o u) \o t = q \o (u \o t)
    OBVIOUS
  <2> QED BY <1>1, <2>1, Zenon
<1>4. xy \o ut = x \o yut
  <2> HIDE DEF ut
  <2>1. \A q \in Seq(T) : (x \o y) \o q = x \o (y \o q)
    OBVIOUS
  <2> QED BY <1>1, <2>1, Zenon
<1> HIDE DEF xy, ut, xyu, yut
<1>5. (a \o xyu) \o t = a \o (xyu \o t)
  <2>1. \A q \in Seq(T) : (a \o q) \o t = a \o (q \o t)
    OBVIOUS
  <2> QED BY <1>2, <2>1, Zenon
<1>6. (a \o x) \o yut = a \o (x \o yut)
  <2>1. \A q \in Seq(T) : (a \o x) \o q = a \o (x \o q)
    OBVIOUS
  <2> QED BY <1>2, <2>1, Zenon
<1>7. (a \o xyu) \o t = (a \o x) \o yut
  BY <1>3, <1>4, <1>5, <1>6, Zenon
<1> QED BY <1>7, Zenon DEF xy, ut, xyu, yut, FromLeft, FromRight

\* A conversation that a user goes on with: his message is its last, the rest is as it was.
LEMMA UserSpeaksLast ==
  ASSUME NEW p \in Seq(Message), NEW c \in Seq(Words)
  PROVE  /\ Talks(p) \in Nat \ {0}
         /\ WithUser(p, c) \in Seq(Message) /\ Len(WithUser(p, c)) = Talks(p)
         /\ WithUser(p, c)[Talks(p)] = [role |-> "user", content |-> c]
         /\ \A i \in 1..(Talks(p) - 1) : WithUser(p, c)[i] = p[i]
<1> DEFINE n == Len(p)
           said == [role |-> "user", content |-> c]
<1>0. said \in Message /\ n \in Nat
  BY DEF Message, Words
<1>1. CASE p # <<>> /\ Last(p).role = "user"
  <2>1. n \in Nat \ {0} /\ p[n] \in Message /\ p[n].role = "user"
    BY <1>1 DEF Last
  <2>2. WithUser(p, c) = [p EXCEPT ![n] = [p[n] EXCEPT !.content = c]]
    BY <1>1 DEF WithUser
  <2>3. [p[n] EXCEPT !.content = c] = said
    BY <2>1 DEF Message
  <2>4. WithUser(p, c) = [p EXCEPT ![n] = said]
    BY <2>2, <2>3
  <2> HIDE DEF said
  <2>5. /\ [p EXCEPT ![n] = said] \in Seq(Message) /\ Len([p EXCEPT ![n] = said]) = n
        /\ [p EXCEPT ![n] = said][n] = said
        /\ \A i \in 1..(n - 1) : [p EXCEPT ![n] = said][i] = p[i]
    BY <1>0, <2>1
  <2>6. Talks(p) = n
    BY <1>1 DEF Talks
  <2> QED BY <2>1, <2>4, <2>5, <2>6 DEF said
<1>2. CASE ~(p # <<>> /\ Last(p).role = "user")
  <2>1. WithUser(p, c) = Append(p, said) /\ Talks(p) = n + 1
    BY <1>2 DEF WithUser, Talks
  <2> HIDE DEF said
  <2>2. /\ Append(p, said) \in Seq(Message) /\ Len(Append(p, said)) = n + 1
        /\ Append(p, said)[n + 1] = said
        /\ \A i \in 1..n : Append(p, said)[i] = p[i]
    BY <1>0, AppendPlaces
  <2>3. (n + 1) - 1 = n /\ n + 1 \in Nat \ {0}
    BY <1>0
  <2> QED BY <2>1, <2>2, <2>3 DEF said
<1> QED BY <1>1, <1>2

\* What is rendered begins the same whatever the user writes, up to what he writes.
LEMMA TalkRendered ==
  ASSUME NEW p \in Seq(Message)
  PROVE  \E b \in Seq(Words) : \A c \in Seq(Words) :
           Rendered(WithUser(p, c)) = b \o (c \o Asks)
<1> DEFINE n == Talks(p)
           Parts(w) == [i \in 1..n |-> <<w[i].role>> \o w[i].content \o <<"/">>]
           s == Parts(WithUser(p, <<>>))
<1>1. ASSUME NEW c \in Seq(Words)
      PROVE  LET w == WithUser(p, c)
             IN /\ Parts(w) \in Seq(Seq(Words)) /\ Len(Parts(w)) = n
                /\ \A i \in 1..(n - 1) :
                     Parts(w)[i] = <<p[i].role>> \o p[i].content \o <<"/">>
                /\ Parts(w)[n] = <<"user">> \o c \o <<"/">>
                /\ Rendered(w) = FlattenSeq(Parts(w)) \o <<"assistant">>
  <2> DEFINE w == WithUser(p, c)
  <2>1. /\ n \in Nat \ {0} /\ w \in Seq(Message) /\ Len(w) = n
        /\ w[n] = [role |-> "user", content |-> c] /\ \A i \in 1..(n - 1) : w[i] = p[i]
    BY UserSpeaksLast
  <2> HIDE DEF n, w
  <2>2. DOMAIN w = 1..n /\ \A i \in 1..n : w[i] \in Message
    BY <2>1
  <2>3. ASSUME NEW i \in 1..n
        PROVE  <<w[i].role>> \o w[i].content \o <<"/">> \in Seq(Words)
    <3>1. w[i].role \in Words /\ w[i].content \in Seq(Words)
      BY <2>2 DEF Message
    <3>2. <<w[i].role>> \in Seq(Words) /\ <<"/">> \in Seq(Words)
      BY <3>1 DEF Words
    <3> QED BY <3>1, <3>2, JoinedIs
  <2>4. Parts(w) \in [1..n -> Seq(Words)]
    BY <2>3
  <2>5. Parts(w) \in Seq(Seq(Words)) /\ Len(Parts(w)) = n
    <3> HIDE DEF Parts
    <3> QED BY <2>1, <2>4, SequenceOf
  <2>a. \A i \in 1..n : Parts(w)[i] = <<w[i].role>> \o w[i].content \o <<"/">>
    OBVIOUS
  <2>6. \A i \in 1..(n - 1) : Parts(w)[i] = <<p[i].role>> \o p[i].content \o <<"/">>
    <3> HIDE DEF Parts
    <3> TAKE i \in 1..(n - 1)
    <3>1. i \in 1..n /\ w[i] = p[i]
      BY <2>1
    <3>2. Parts(w)[i] = <<w[i].role>> \o w[i].content \o <<"/">>
      BY <2>a, <3>1
    <3> QED BY <3>1, <3>2, Zenon
  <2>7. Parts(w)[n] = <<"user">> \o c \o <<"/">>
    <3> HIDE DEF Parts
    <3>1. n \in 1..n /\ w[n].role = "user" /\ w[n].content = c
      BY <2>1
    <3>2. Parts(w)[n] = <<w[n].role>> \o w[n].content \o <<"/">>
      BY <2>a, <3>1
    <3> QED BY <3>1, <3>2, Zenon
  <2>8. Rendered(w) = FlattenSeq(Parts(w)) \o <<"assistant">>
    BY <2>2 DEF Rendered
  <2> QED BY <2>5, <2>6, <2>7, <2>8 DEF w
<1>2. n \in Nat \ {0} /\ <<>> \in Seq(Words)
  <2>1. <<>> \in Seq(Words)
    OBVIOUS
  <2> QED BY <2>1, UserSpeaksLast
<1> HIDE DEF n, Parts
<1>3. s \in Seq(Seq(Words)) /\ Len(s) = n
  BY <1>1, <1>2
<1>4. PICK a \in Seq(Words) : \A v \in Seq(Seq(Words)) :
        Len(v) = n /\ (\A i \in 1..(n - 1) : v[i] = s[i]) => FlattenSeq(v) = a \o v[n]
  <2> HIDE DEF s
  <2> QED BY <1>2, <1>3, FlattenedUpToLast
<1> DEFINE b == a \o <<"user">>
<1>5. b \in Seq(Words)
  BY JoinedIs, <<"user">> \in Seq(Words) DEF Words
<1>6. ASSUME NEW c \in Seq(Words)
      PROVE  Rendered(WithUser(p, c)) = b \o (c \o Asks)
  <2> DEFINE v == Parts(WithUser(p, c))
  <2>1. /\ v \in Seq(Seq(Words)) /\ Len(v) = n /\ \A i \in 1..(n - 1) : v[i] = s[i]
        /\ v[n] = <<"user">> \o c \o <<"/">>
        /\ Rendered(WithUser(p, c)) = FlattenSeq(v) \o <<"assistant">>
    <3> DEFINE u == WithUser(p, c)
               e == WithUser(p, <<>>)
    <3>1. /\ Parts(u) \in Seq(Seq(Words)) /\ Len(Parts(u)) = n
          /\ \A i \in 1..(n - 1) : Parts(u)[i] = <<p[i].role>> \o p[i].content \o <<"/">>
          /\ Parts(u)[n] = <<"user">> \o c \o <<"/">>
          /\ Rendered(u) = FlattenSeq(Parts(u)) \o <<"assistant">>
      BY <1>1
    <3>2. \A i \in 1..(n - 1) : Parts(e)[i] = <<p[i].role>> \o p[i].content \o <<"/">>
      BY <1>1, <1>2
    <3> HIDE DEF u, e
    <3>3. \A i \in 1..(n - 1) : Parts(u)[i] = Parts(e)[i]
      BY <3>1, <3>2, Zenon
    <3> QED BY <3>1, <3>3 DEF u, e
  <2> HIDE DEF v, s
  <2>2. Rendered(WithUser(p, c)) = (a \o ((<<"user">> \o c) \o <<"/">>)) \o <<"assistant">>
    BY <1>4, <2>1
  <2> DEFINE us == <<"user">>
             sl == <<"/">>
             ask == <<"assistant">>
  <2>3. us \in Seq(Words) /\ sl \in Seq(Words) /\ ask \in Seq(Words)
    BY DEF Words
  <2>4. b = a \o us /\ Asks = sl \o ask
    BY DEF Asks
  <2>5. Rendered(WithUser(p, c)) = (a \o ((us \o c) \o sl)) \o ask
    BY <2>2
  <2> HIDE DEF us, sl, ask, b
  <2>6. FromLeft(a, us, c, sl, ask) = FromRight(a, us, c, sl, ask)
    BY <2>3, FiveJoined
  <2> QED BY <2>4, <2>5, <2>6, Zenon DEF FromLeft, FromRight
<1> QED BY <1>5, <1>6

\* The strict prefix of a warm-up prompt, and a user's prefix up to his message.
LEMMA PromptShared ==
  ASSUME OpAssumption, NEW p \in WarmPrompts, NEW text \in UserTexts
  PROVE  /\ IsPrefix(StrictPrefix(p), Rendered(WithUser(p, text)))
         /\ LET talk == WithUser(p, text)
            IN Head(text) # Head(DummyText) => \A other \in UserTexts :
                 IsPrefix(SubSeq(Rendered(talk), 1, PrefixBoundary(talk)),
                          Rendered(WithUser(p, other)))
<1>1. /\ p \in Seq(Message) /\ text \in Seq(Words) /\ text # <<>>
      /\ \A other \in UserTexts : other \in Seq(Words) /\ other # <<>>
  <2>1. \A s \in Seq(STRING) : s \in Seq(Words)
    BY DEF Words
  <2>2. p \in Seq([role : STRING, content : Seq(STRING)])
    BY DEF OpAssumption
  <2>3. \A i \in 1..Len(p) : p[i] \in [role : STRING, content : Seq(STRING)]
    <3>1. \A T : \A q \in Seq(T) : \A i \in 1..Len(q) : q[i] \in T
      OBVIOUS
    <3> QED BY <2>2, <3>1, Zenon
  <2>4. \A m \in [role : STRING, content : Seq(STRING)] : m \in Message
    BY <2>1 DEF Message, Words
  <2>5. p \in Seq(Message)
    <3>1. Len(p) \in Nat /\ p = [i \in 1..Len(p) |-> p[i]]
      BY <2>2
    <3>2. \A i \in 1..Len(p) : p[i] \in Message
      BY <2>3, <2>4
    <3>3. p \in [1..Len(p) -> Message]
      BY <3>1, <3>2
    <3> QED BY <3>1, <3>3, SequenceOf
  <2>6. \A other \in UserTexts : other \in Seq(STRING) /\ other # <<>>
    BY DEF OpAssumption
  <2> QED BY <2>1, <2>5, <2>6
<1> DEFINE n == Talks(p)
           talk == WithUser(p, text)
<1>2. PICK b \in Seq(Words) : \A c \in Seq(Words) :
        Rendered(WithUser(p, c)) = b \o (c \o Asks)
  BY <1>1, TalkRendered
<1>3. Asks \in Seq(Words)
  BY DEF Asks, Words
<1>4. ASSUME NEW c \in Seq(Words), c # <<>>
      PROVE  c \o Asks \in Seq(Words) /\ c \o Asks # <<>> /\ (c \o Asks)[1] = c[1]
             /\ Head(c) = c[1]
  BY <1>3, <1>4
<1>5. /\ ProbeA \in Seq(Words) /\ ProbeB \in Seq(Words) /\ DummyText \in Seq(Words)
      /\ ProbeA # <<>> /\ ProbeB # <<>> /\ DummyText # <<>> /\ ProbeA[1] # ProbeB[1]
  BY DEF ProbeA, ProbeB, DummyText, Words
<1>6. \A c, d \in Seq(Words) : c # <<>> /\ d # <<>> /\ c[1] # d[1] =>
        CommonPrefix(Rendered(WithUser(p, c)), Rendered(WithUser(p, d))) = Len(b)
  <2> TAKE c, d \in Seq(Words)
  <2> HAVE c # <<>> /\ d # <<>> /\ c[1] # d[1]
  <2>1. CommonPrefix(b \o (c \o Asks), b \o (d \o Asks)) = Len(b)
    <3> DEFINE x == c \o Asks
               y == d \o Asks
    <3>1. x \in Seq(Words) /\ x # <<>> /\ y \in Seq(Words) /\ y # <<>> /\ x[1] # y[1]
      BY <1>4
    <3> HIDE DEF x, y
    <3>2. CommonPrefix(b \o x, b \o y) = Len(b)
      BY <3>1, CommonBeginning
    <3> QED BY <3>2 DEF x, y
  <2> QED BY <1>2, <2>1
<1>7. \A c \in Seq(Words) : c # <<>> =>
        /\ SubSeq(Rendered(WithUser(p, c)), 1, Len(b)) = b
        /\ SubSeq(Rendered(WithUser(p, c)), 1, 0) = <<>>
        /\ IsPrefix(b, Rendered(WithUser(p, c)))
        /\ IsPrefix(<<>>, Rendered(WithUser(p, c)))
  <2> TAKE c \in Seq(Words)
  <2> HAVE c # <<>>
  <2>1. /\ SubSeq(b \o (c \o Asks), 1, Len(b)) = b
        /\ IsPrefix(b, b \o (c \o Asks))
    BY <1>4, FirstPart
  <2>2. b \o (c \o Asks) \in Seq(Words)
    BY <1>4, FirstPart
  <2>3. \A t \in Seq(Words) : SubSeq(t, 1, 0) = <<>> /\ IsPrefix(<<>>, t)
    <3> TAKE t \in Seq(Words)
    <3>1. SubSeq(t, 1, 0) = <<>> /\ SubSeq(<<>>, 1, 0) = <<>> /\ Len(<<>>) = 0 /\ Len(t) \in Nat
      OBVIOUS
    <3> QED BY <3>1 DEF IsPrefix
  <2> QED BY <1>2, <2>1, <2>2, <2>3
<1>8. IsPrefix(StrictPrefix(p), Rendered(WithUser(p, text)))
  <2>1. StrictPrefix(p) = SubSeq(Rendered(WithUser(p, ProbeA)), 1, Len(b))
    BY <1>5, <1>6 DEF StrictPrefix
  <2> QED BY <1>1, <1>5, <1>7, <2>1
<1>9. ASSUME Head(text) # Head(DummyText), NEW other \in UserTexts
      PROVE  IsPrefix(SubSeq(Rendered(talk), 1, PrefixBoundary(talk)),
                      Rendered(WithUser(p, other)))
  <2>1. /\ n \in Nat \ {0} /\ talk \in Seq(Message) /\ Len(talk) = n
        /\ talk[n] = [role |-> "user", content |-> text] /\ \A i \in 1..(n - 1) : talk[i] = p[i]
    BY <1>1, UserSpeaksLast
  <2>2. LastUser(talk) = n
    <3> DEFINE S == {0} \cup {i \in DOMAIN talk : talk[i].role = "user"}
    <3> HIDE DEF n, talk
    <3>1. DOMAIN talk = 1..n /\ n \in DOMAIN talk /\ talk[n].role = "user"
      BY <2>1
    <3>2. n \in S /\ \A k \in S : k \in Nat /\ n >= k
      BY <2>1, <3>1
    <3> HIDE DEF S
    <3>3. \E m \in S : \A k \in S : m >= k
      BY <3>2
    <3>4. Max(S) \in S /\ \A k \in S : Max(S) >= k
      BY <3>3 DEF Max
    <3>5. Max(S) >= n /\ n >= Max(S) /\ Max(S) \in Nat
      BY <3>2, <3>4
    <3>6. Max(S) = n
      BY <2>1, <3>5
    <3> QED BY <3>6 DEF LastUser, S
  <2>3. [talk EXCEPT ![n].content = DummyText] = WithUser(p, DummyText)
    <3> DEFINE v == WithUser(p, DummyText)
               u == [talk EXCEPT ![n].content = DummyText]
    <3>1. /\ v \in Seq(Message) /\ Len(v) = n
          /\ v[n] = [role |-> "user", content |-> DummyText] /\ \A i \in 1..(n - 1) : v[i] = p[i]
      BY <1>1, <1>5, UserSpeaksLast, ZenonT(30)
    <3> HIDE DEF v, talk, n
    <3>2. u = [talk EXCEPT ![n] = [talk[n] EXCEPT !.content = DummyText]]
      OBVIOUS
    <3>3. [talk[n] EXCEPT !.content = DummyText] = v[n]
      BY <2>1, <3>1
    <3>4. u = [talk EXCEPT ![n] = v[n]]
      BY <3>2, <3>3
    <3> HIDE DEF u
    <3>5. DOMAIN u = 1..n /\ DOMAIN v = 1..n /\ \A i \in 1..n : u[i] = v[i]
      <4>1. DOMAIN talk = 1..n /\ DOMAIN v = 1..n
        BY <2>1, <3>1
      <4>2. \A i \in 1..n : u[i] = IF i = n THEN v[n] ELSE talk[i]
        BY <3>4, <4>1
      <4>3. \A i \in 1..n : i = n \/ i \in 1..(n - 1)
        BY <2>1
      <4> QED BY <2>1, <3>1, <3>4, <4>1, <4>2, <4>3
    <3>6. u \in Seq(Message)
      BY <2>1, <3>1, <3>4
    <3>7. u = v
      BY <3>1, <3>5, <3>6, SameElements
    <3> QED BY <3>7 DEF u, v
  <2>4. text[1] # DummyText[1]
    BY <1>1, <1>4, <1>5, <1>9
  <2>5. PrefixBoundary(talk) \in {0, Len(b)}
    <3>1. CASE n = 1
      BY <2>2, <3>1 DEF PrefixBoundary
    <3>2. CASE n # 1
      <4>1. PrefixBoundary(talk) =
              CommonPrefix(Rendered(talk), Rendered([talk EXCEPT ![n].content = DummyText]))
        BY <2>1, <2>2, <3>2 DEF PrefixBoundary
      <4>2. PrefixBoundary(talk) = Len(b)
        BY <1>1, <1>5, <1>6, <2>3, <2>4, <4>1
      <4> QED BY <4>2
    <3> QED BY <3>1, <3>2
  <2>6. SubSeq(Rendered(talk), 1, PrefixBoundary(talk)) \in {<<>>, b}
    BY <1>1, <1>7, <2>5
  <2> QED BY <1>1, <1>7, <2>6
<1> QED BY <1>8, <1>9

--------------------------------------------------------------------------------
(* Operations: rates, owners, weights and prompts.                           *)

\* What a refusal promised: when the client comes back there is room in the window, and a
\* second and a half earlier there was none.
Promise(i) ==
  promised[i].due > 0 => /\ CountedAt(i, promised[i].due) < PerMinute
                         /\ CountedAt(i, promised[i].due - 3) >= PerMinute

RateHeld ==
  /\ opNow \in Nat
  /\ passed \in [ApiClients -> Seq(Nat)] /\ requestTimes \in [ApiClients -> Seq(Nat)]
  /\ promised \in [ApiClients -> [due : Int, counted : Seq(Nat)]]
  /\ \A i \in ApiClients :
       Slides(passed[i], requestTimes[i], opNow, 2 * Minute, PerMinute) /\ Promise(i)

OwnersHeld ==
  /\ engineIs \in [Engines -> {"none", "live", "closed", "collected"}]
  /\ ownsModel \in [Engines -> BOOLEAN] /\ batching \in [Engines -> BOOLEAN]
  /\ \A m \in DOMAIN owners : owners[m] \in Engines /\ ModelOf[owners[m]] = m
                              /\ engineIs[owners[m]] = "live" /\ ownsModel[owners[m]]
  /\ \A e \in Engines : batching[e] \/ ownsModel[e] => engineIs[e] = "live"
  /\ \A e \in Engines : ~Forced /\ engineIs[e] = "live" => IfOwnedBy(e)

WarmHeld ==
  /\ warmTasks \in Seq(SUBSET WarmPrompts) /\ warmed \subseteq WarmPrompts
  /\ \A p \in WarmPrompts : p \in warmed \/ \E t \in 1..Len(warmTasks) : p \in warmTasks[t]

OpHeld == RateHeld /\ OwnersHeld /\ WeightsWhole /\ WarmHeld

\* The services begin with their invariant.
LEMMA OpHeldInit == ASSUME OpAssumption, OpInit PROVE OpHeld
<1>1. RateHeld
  <2>1. PerMinute \in Nat \ {0} /\ Minute \in Nat \ {0} /\ <<>> \in Seq(Nat) /\ Len(<<>>) = 0
    BY DEF OpAssumption
  <2>2. /\ opNow = 0
        /\ \A i \in ApiClients : passed[i] = <<>> /\ requestTimes[i] = <<>> /\ promised[i].due = 0
    BY DEF OpInit
  <2>3. \A i \in ApiClients : Slides(passed[i], requestTimes[i], opNow, 2 * Minute, PerMinute)
    <3>1. \A i \in ApiClients : Len(passed[i]) = 0 /\ Len(requestTimes[i]) = 0
      BY <2>1, <2>2
    <3>2. PerMinute \in Nat
      BY <2>1
    <3> TAKE i \in ApiClients
    <3>3. Len(passed[i]) = 0 /\ Len(requestTimes[i]) = 0
      BY <3>1
    <3> QED BY <3>2, <3>3 DEF Slides
  <2>4. [due |-> 0, counted |-> <<>>] \in [due : Int, counted : Seq(Nat)]
    BY <2>1
  <2>5. /\ passed \in [ApiClients -> Seq(Nat)] /\ requestTimes \in [ApiClients -> Seq(Nat)]
        /\ promised \in [ApiClients -> [due : Int, counted : Seq(Nat)]]
    BY <2>1, <2>4 DEF OpInit
  <2> QED BY <2>2, <2>3, <2>5 DEF RateHeld, Promise
<1>2. OwnersHeld
  BY DEF OpInit, OwnersHeld
<1>3. WeightsWhole
  BY DEF OpInit, WeightsWhole
<1>4. WarmHeld
  <2>1. warmTasks = <<WarmPrompts>> /\ warmed = {}
    BY DEF OpInit
  <2>2. warmTasks \in Seq(SUBSET WarmPrompts) /\ Len(warmTasks) = 1 /\ warmTasks[1] = WarmPrompts
    BY <2>1
  <2> QED BY <2>1, <2>2 DEF WarmHeld
<1> QED BY <1>1, <1>2, <1>3, <1>4 DEF OpHeld

\* The two halves of a number that is rounded down.
LEMMA Halved ==
  ASSUME NEW x \in Nat
  PROVE  /\ x \div 2 \in Nat /\ 2 * (x \div 2) <= x /\ x <= 2 * (x \div 2) + 1
  OBVIOUS

\* What is counted at a moment: not all once the first has left the window, all while it
\* has not.
LEMMA CountedThen ==
  ASSUME NEW recent \in Seq(Nat), recent # <<>>, NEW time \in Int,
         \A i, j \in 1..Len(recent) : i <= j => recent[i] <= recent[j]
  PROVE  /\ recent[1] <= time =>
              Cardinality({k \in DOMAIN recent : recent[k] > time}) < Len(recent)
         /\ recent[1] > time =>
              Cardinality({k \in DOMAIN recent : recent[k] > time}) = Len(recent)
<1> DEFINE A == {k \in DOMAIN recent : recent[k] > time}
<1>1. /\ 1 \in 1..Len(recent) /\ DOMAIN recent = 1..Len(recent) /\ Len(recent) \in Nat
      /\ \A k \in 1..Len(recent) : recent[k] \in Nat
  OBVIOUS
<1>2. IsFiniteSet(1..Len(recent)) /\ Cardinality(1..Len(recent)) = Len(recent)
  BY <1>1, Places
<1>3. ASSUME recent[1] <= time PROVE Cardinality(A) < Len(recent)
  <2>1. 1 \notin A /\ A \in SUBSET (1..Len(recent))
    BY <1>1, <1>3
  <2> HIDE DEF A
  <2>2. /\ Cardinality(A) <= Cardinality(1..Len(recent)) /\ IsFiniteSet(A)
        /\ Cardinality(1..Len(recent)) = Cardinality(A) => 1..Len(recent) = A
    BY <1>2, <2>1, FS_Subset
  <2>3. Cardinality(A) \in Nat /\ 1..Len(recent) # A
    BY <1>1, <2>1, <2>2, FS_CardinalityType
  <2>4. Cardinality(A) # Len(recent) /\ Cardinality(A) <= Len(recent)
    BY <1>2, <2>2, <2>3
  <2> QED BY <1>1, <2>3, <2>4
<1>4. ASSUME recent[1] > time PROVE Cardinality(A) = Len(recent)
  <2>1. \A k \in 1..Len(recent) : recent[k] > time
    BY <1>1, <1>4
  <2>2. A = 1..Len(recent)
    BY <1>1, <2>1
  <2> HIDE DEF A
  <2> QED BY <1>2, <2>2
<1> QED BY <1>3, <1>4

\* When a client is told to come back: once the first of what is counted has left the
\* window, and no more than a second and a half after it was still there.
LEMMA ComesBack ==
  ASSUME NEW recent \in Seq(Nat), recent # <<>>, NEW now \in Nat, NEW window \in Nat,
         \A k \in 1..Len(recent) : recent[k] > now - window,
         \A i, j \in 1..Len(recent) : i <= j => recent[i] <= recent[j]
  PROVE  LET due == now + 2 * ((Min(Range(recent)) + window - now) \div 2 + 1)
         IN due \in Int /\ recent[1] <= due - window /\ recent[1] > due - 3 - window
<1>1. /\ 1 \in 1..Len(recent) /\ DOMAIN recent = 1..Len(recent) /\ Len(recent) \in Nat
      /\ \A k \in 1..Len(recent) : recent[k] \in Nat
  OBVIOUS
<1>2. Min(Range(recent)) = recent[1]
  <2> DEFINE S == Range(recent)
  <2>1. recent[1] \in S /\ \A y \in S : y \in Nat /\ recent[1] <= y
    BY <1>1 DEF Range
  <2> HIDE DEF S
  <2>2. \E x \in S : \A y \in S : x <= y
    BY <2>1
  <2>3. Min(S) \in S /\ \A y \in S : Min(S) <= y
    BY <2>2 DEF Min
  <2>4. Min(S) <= recent[1] /\ recent[1] <= Min(S) /\ Min(S) \in Nat /\ recent[1] \in Nat
    BY <2>1, <2>3
  <2>5. Min(S) = recent[1]
    BY <2>4
  <2> QED BY <2>5 DEF S
<1> DEFINE m == recent[1]
           x == m + window - now
           due == now + 2 * (x \div 2 + 1)
<1>3. m \in Nat /\ m > now - window
  BY <1>1
<1> HIDE DEF m
<1>4. x \in Nat /\ now + x = m + window
  BY <1>3
<1>5. due = now + (2 * (x \div 2) + 2)
  <2> HIDE DEF x
  <2>1. x \div 2 \in Nat
    BY <1>4, Halved
  <2> QED BY <2>1
<1> HIDE DEF x, due
<1>6. due \in Int /\ due >= now + x + 1 /\ due <= now + x + 2
  <2>1. x \div 2 \in Nat /\ 2 * (x \div 2) <= x /\ x <= 2 * (x \div 2) + 1
    BY <1>4, Halved
  <2> DEFINE h == 2 * (x \div 2)
  <2>2. h \in Nat
    BY <2>1
  <2> HIDE DEF h
  <2>3. due = now + (h + 2) /\ h <= x /\ x <= h + 1
    BY <1>5, <2>1 DEF h
  <2> QED BY <1>4, <2>2, <2>3
<1>7. m <= due - window /\ m > due - 3 - window
  BY <1>3, <1>4, <1>6
<1> QED BY <1>2, <1>6, <1>7 DEF due, x, m

\* A request that asks the rate limiter, and time, keep the window and the last promise.
LEMMA RateHeldStep == ASSUME OpAssumption, RateHeld, RateNext PROVE RateHeld'
<1>0. /\ PerMinute \in Nat \ {0} /\ Minute \in Nat \ {0} /\ 2 * Minute \in Nat /\ opNow \in Nat
      /\ \A i \in ApiClients : passed[i] \in Seq(Nat) /\ requestTimes[i] \in Seq(Nat)
  BY DEF OpAssumption, RateHeld
<1>1. CASE OpTick
  <2>1. opNow' = opNow + 1 /\ UNCHANGED <<requestTimes, passed, promised>>
    BY <1>1 DEF OpTick
  <2>2. \A i \in ApiClients :
          Slides(passed[i], requestTimes[i], opNow + 1, 2 * Minute, PerMinute)
    BY <1>0, SlidesOn DEF RateHeld
  <2>3. \A i \in ApiClients : Promise(i)'
    BY <2>1 DEF RateHeld, Promise, CountedAt
  <2> QED BY <1>0, <2>1, <2>2, <2>3 DEF RateHeld
<1>2. ASSUME NEW i \in ApiClients, IsAllowed(i) PROVE RateHeld'
  <2> DEFINE recent == StillInWindow(requestTimes[i])
  <2>0. opNow' = opNow
    BY <1>2 DEF IsAllowed
  <2>1. /\ recent \in Seq(Nat) /\ Slides(passed[i], recent, opNow, 2 * Minute, PerMinute)
        /\ \A k \in 1..Len(recent) : recent[k] > opNow - 2 * Minute
        /\ Len(recent) < PerMinute =>
             Slides(Append(passed[i], opNow), Append(recent, opNow), opNow, 2 * Minute, PerMinute)
    <3> DEFINE w == 2 * Minute
               S == {t \in Range(requestTimes[i]) : t > opNow - 2 * Minute}
    <3>1. recent = Selected(requestTimes[i], S)
      BY DEF StillInWindow
    <3>2. \A t : t \in S <=> t \in Range(requestTimes[i]) /\ t > opNow - w
      OBVIOUS
    <3>3. /\ w \in Nat /\ Slides(passed[i], requestTimes[i], opNow, w, PerMinute)
          /\ passed[i] \in Seq(Nat) /\ requestTimes[i] \in Seq(Nat)
      BY <1>0 DEF RateHeld
    <3> HIDE DEF recent, w, S
    <3>4. opNow \in Nat /\ PerMinute \in Nat \ {0}
      BY <1>0
    <3>5. /\ recent \in Seq(Nat) /\ Slides(passed[i], recent, opNow, w, PerMinute)
          /\ \A k \in 1..Len(recent) : recent[k] > opNow - w
          /\ Len(recent) < PerMinute =>
               Slides(Append(passed[i], opNow), Append(recent, opNow), opNow, w, PerMinute)
      BY <3>1, <3>2, <3>3, <3>4, SlidingStep
    <3> QED BY <3>5 DEF w
  <2> HIDE DEF recent
  <2>2. Len(recent) \in Nat /\ \A k \in 1..Len(recent) : recent[k] \in Nat
    BY <2>1
  <2>3. CASE Len(recent) >= PerMinute
    <3>1. /\ requestTimes' = [requestTimes EXCEPT ![i] = recent] /\ passed' = passed
          /\ promised' = [promised EXCEPT ![i] =
               [due |-> opNow + 2 * RetryAfter(recent), counted |-> recent]]
      BY <1>2, <2>3 DEF IsAllowed, recent
    <3> DEFINE due == opNow + 2 * RetryAfter(recent)
    <3>2. Len(recent) = PerMinute
      BY <1>0, <2>1, <2>2, <2>3 DEF Slides
    <3>3. \A j, k \in 1..Len(recent) : j <= k => recent[j] <= recent[k]
      <4> TAKE j, k \in 1..Len(recent)
      <4> HAVE j <= k
      <4> DEFINE d == Len(passed[i]) - Len(recent)
      <4>1. Len(passed[i]) \in Nat /\ Len(recent) <= Len(passed[i])
        <5>1. passed[i] \in Seq(Nat)
          BY <1>0
        <5>2. Len(recent) <= Len(passed[i])
          BY <2>1 DEF Slides
        <5> QED BY <5>1, <5>2
      <4>2. d + j \in 1..Len(passed[i]) /\ d + k \in 1..Len(passed[i]) /\ d + j <= d + k
        BY <2>2, <4>1
      <4>3. recent[j] = passed[i][d + j] /\ recent[k] = passed[i][d + k]
        BY <2>1 DEF Slides
      <4> HIDE DEF d
      <4>4. passed[i][d + j] <= passed[i][d + k]
        BY <2>1, <4>2 DEF Slides
      <4> QED BY <4>3, <4>4
    <3>4. due = opNow + 2 * ((Min(Range(recent)) + 2 * Minute - opNow) \div 2 + 1)
      BY DEF RetryAfter
    <3> HIDE DEF due
    <3>5. /\ due \in Int
          /\ Cardinality({k \in DOMAIN recent : recent[k] > due - 2 * Minute}) < PerMinute
          /\ Cardinality({k \in DOMAIN recent : recent[k] > due - 3 - 2 * Minute}) >= PerMinute
      <4> DEFINE w == 2 * Minute
      <4>1. recent # <<>> /\ w \in Nat
        BY <1>0, <3>2
      <4>2. due \in Int /\ recent[1] <= due - w /\ recent[1] > due - 3 - w
        <5>1. /\ \A k \in 1..Len(recent) : recent[k] > opNow - w
              /\ due = opNow + 2 * ((Min(Range(recent)) + w - opNow) \div 2 + 1)
          BY <2>1, <3>4
        <5> HIDE DEF w
        <5> QED BY <1>0, <2>1, <3>3, <4>1, <5>1, ComesBack
      <4> HIDE DEF w
      <4>3. due - w \in Int /\ due - 3 - w \in Int
        BY <4>1, <4>2
      <4>4. /\ Cardinality({k \in DOMAIN recent : recent[k] > due - w}) < Len(recent)
            /\ Cardinality({k \in DOMAIN recent : recent[k] > due - 3 - w}) = Len(recent)
        BY <2>1, <3>3, <4>1, <4>2, <4>3, CountedThen
      <4> QED BY <1>0, <3>2, <4>2, <4>4 DEF w
    <3>6. promised' = [promised EXCEPT ![i] = [due |-> due, counted |-> recent]]
      BY <3>1 DEF due
    <3>7. \A x \in ApiClients : promised'[x] =
            IF x = i THEN [due |-> due, counted |-> recent] ELSE promised[x]
      BY <3>6 DEF RateHeld
    <3>8. \A x \in ApiClients : Promise(x)'
      <4> TAKE x \in ApiClients
      <4>1. CASE x = i
        <5>1. promised'[x].due = due /\ promised'[x].counted = recent
          BY <3>7, <4>1
        <5> QED BY <3>5, <5>1 DEF Promise, CountedAt
      <4>2. CASE x # i
        <5>1. promised'[x] = promised[x] /\ Promise(x)
          BY <3>7, <4>2 DEF RateHeld
        <5> QED BY <5>1 DEF Promise, CountedAt
      <4> QED BY <4>1, <4>2
    <3>9. [due |-> due, counted |-> recent] \in [due : Int, counted : Seq(Nat)]
      BY <2>1, <3>5
    <3>10. /\ promised' \in [ApiClients -> [due : Int, counted : Seq(Nat)]]
           /\ requestTimes' \in [ApiClients -> Seq(Nat)] /\ passed' \in [ApiClients -> Seq(Nat)]
      BY <2>1, <3>1, <3>6, <3>9 DEF RateHeld
    <3>11. \A x \in ApiClients :
             Slides(passed'[x], requestTimes'[x], opNow', 2 * Minute, PerMinute)
      <4> TAKE x \in ApiClients
      <4>1. /\ requestTimes'[x] = IF x = i THEN recent ELSE requestTimes[x]
            /\ passed'[x] = passed[x]
        BY <3>1 DEF RateHeld
      <4> QED BY <2>0, <2>1, <4>1 DEF RateHeld
    <3> QED BY <1>0, <2>0, <3>8, <3>10, <3>11 DEF RateHeld
  <2>4. CASE ~(Len(recent) >= PerMinute)
    <3>1. /\ requestTimes' = [requestTimes EXCEPT ![i] = Append(recent, opNow)]
          /\ passed' = [passed EXCEPT ![i] = Append(@, opNow)] /\ UNCHANGED promised
      BY <1>2, <2>4 DEF IsAllowed, recent
    <3>2. Append(recent, opNow) \in Seq(Nat) /\ Append(passed[i], opNow) \in Seq(Nat)
      BY <1>0, <2>1
    <3>3. /\ requestTimes' \in [ApiClients -> Seq(Nat)] /\ passed' \in [ApiClients -> Seq(Nat)]
      BY <3>1, <3>2 DEF RateHeld
    <3>4. \A x \in ApiClients :
             Slides(passed'[x], requestTimes'[x], opNow', 2 * Minute, PerMinute)
      <4> TAKE x \in ApiClients
      <4>1. /\ requestTimes'[x] = IF x = i THEN Append(recent, opNow) ELSE requestTimes[x]
            /\ passed'[x] = IF x = i THEN Append(passed[i], opNow) ELSE passed[x]
        BY <3>1 DEF RateHeld
      <4>2. Len(recent) < PerMinute
        BY <1>0, <2>2, <2>4
      <4> QED BY <2>0, <2>1, <4>1, <4>2 DEF RateHeld
    <3>5. \A x \in ApiClients : Promise(x)'
      BY <3>1 DEF RateHeld, Promise, CountedAt
    <3> QED BY <1>0, <2>0, <3>1, <3>3, <3>4, <3>5 DEF RateHeld
  <2> QED BY <2>3, <2>4
<1> QED BY <1>1, <1>2 DEF RateNext

\* Engines that are made, run, closed or collected keep the registry and themselves agreed.
LEMMA OwnersHeldStep == ASSUME OpAssumption, OwnersHeld, OwnersNext PROVE OwnersHeld'
<1>0. PICK e \in Engines :
        EngineMade(e) \/ EngineBatches(e) \/ EngineCloses(e) \/ EngineCollected(e)
  BY DEF OwnersNext
<1> DEFINE m == ModelOf[e]
           live == {x \in Engines : engineIs[x] = "live"}
<1>1. /\ engineIs \in [Engines -> {"none", "live", "closed", "collected"}]
      /\ ownsModel \in [Engines -> BOOLEAN] /\ batching \in [Engines -> BOOLEAN]
      /\ "nobody" \notin Engines /\ Forced \in BOOLEAN
  BY DEF OwnersHeld, OpAssumption
<1>2. CASE EngineMade(e)
  <2> DEFINE owner == OwnerOf(m)
  <2>1. /\ engineIs[e] = "none"
        /\ owner # "nobody" /\ engineIs[owner] # "collected" => Forced
        /\ batching' = [x \in Engines |-> x \notin {owner} /\ batching[x]]
        /\ owners' = [x \in DOMAIN owners \cup {m} |-> IF x = m THEN e ELSE owners[x]]
        /\ engineIs' = [engineIs EXCEPT ![e] = "live"]
        /\ ownsModel' = [ownsModel EXCEPT ![e] = TRUE]
    BY <1>2 DEF EngineMade, DeepReset
  <2>2. m \in DOMAIN owners => Forced
    BY <1>1, <2>1 DEF OwnersHeld, OwnerOf
  <2>3. /\ \A x \in Engines : engineIs'[x] = IF x = e THEN "live" ELSE engineIs[x]
        /\ \A x \in Engines : ownsModel'[x] = IF x = e THEN TRUE ELSE ownsModel[x]
        /\ \A x \in Engines : batching'[x] => batching[x]
        /\ \A x \in DOMAIN owners' : x \in DOMAIN owners \cup {m}
                                     /\ owners'[x] = IF x = m THEN e ELSE owners[x]
        /\ DOMAIN owners' = DOMAIN owners \cup {m}
    BY <1>1, <2>1
  <2>4. /\ engineIs' \in [Engines -> {"none", "live", "closed", "collected"}]
        /\ ownsModel' \in [Engines -> BOOLEAN] /\ batching' \in [Engines -> BOOLEAN]
    <3>1. \A x \in Engines : (x \notin {owner} /\ batching[x]) \in BOOLEAN
      OBVIOUS
    <3> QED BY <1>1, <2>1, <3>1
  <2>5. ASSUME NEW x \in DOMAIN owners'
        PROVE  owners'[x] \in Engines /\ ModelOf[owners'[x]] = x
               /\ engineIs'[owners'[x]] = "live" /\ ownsModel'[owners'[x]]
    <3>1. CASE x = m
      BY <2>3, <3>1
    <3>2. CASE x # m
      <4>1. x \in DOMAIN owners /\ owners'[x] = owners[x]
        BY <2>3, <3>2
      <4> DEFINE o == owners[x]
      <4>2. o \in Engines /\ ModelOf[o] = x /\ engineIs[o] = "live" /\ ownsModel[o]
        BY <4>1 DEF OwnersHeld
      <4>3. owners'[x] = o
        BY <4>1
      <4> HIDE DEF o
      <4>4. engineIs'[o] = "live" /\ ownsModel'[o]
        BY <2>3, <4>2
      <4> QED BY <4>2, <4>3, <4>4
    <3> QED BY <3>1, <3>2
  <2>6. ASSUME NEW x \in Engines, batching'[x] \/ ownsModel'[x] PROVE engineIs'[x] = "live"
    <3>1. CASE x = e
      BY <2>3, <3>1
    <3>2. CASE x # e
      <4>1. batching[x] \/ ownsModel[x]
        BY <2>3, <2>6, <3>2
      <4>2. engineIs[x] = "live"
        BY <4>1 DEF OwnersHeld
      <4> QED BY <2>3, <3>2, <4>2
    <3> QED BY <3>1, <3>2
  <2>7. ASSUME NEW x \in Engines, ~Forced, engineIs'[x] = "live" PROVE IfOwnedBy(x)'
    <3>1. CASE x = e
      BY <2>3, <3>1 DEF IfOwnedBy, OwnerOf
    <3>2. CASE x # e
      <4>1. engineIs[x] = "live" /\ IfOwnedBy(x)
        BY <2>3, <2>7, <3>2 DEF OwnersHeld
      <4>2. ModelOf[x] \in DOMAIN owners /\ owners[ModelOf[x]] = x
        BY <1>1, <4>1 DEF IfOwnedBy, OwnerOf
      <4>3. ModelOf[x] # m
        BY <2>2, <2>7, <4>2
      <4> QED BY <2>3, <4>2, <4>3 DEF IfOwnedBy, OwnerOf
    <3> QED BY <3>1, <3>2
  <2> QED BY <2>4, <2>5, <2>6, <2>7 DEF OwnersHeld
<1>3. CASE EngineBatches(e)
  <2>1. /\ engineIs[e] = "live" /\ UNCHANGED <<owners, engineIs, ownsModel>>
        /\ batching' = [batching EXCEPT ![e] = TRUE]
    BY <1>3 DEF EngineBatches
  <2>2. batching' \in [Engines -> BOOLEAN]
    BY <1>1, <2>1
  <2>3. \A x \in Engines : batching'[x] => x = e \/ batching[x]
    BY <1>1, <2>1
  <2>4. \A x \in Engines : batching'[x] \/ ownsModel'[x] => engineIs'[x] = "live"
    BY <2>1, <2>3 DEF OwnersHeld
  <2> QED BY <2>1, <2>2, <2>4 DEF OwnersHeld, IfOwnedBy, OwnerOf
<1>4. CASE EngineCloses(e) \/ EngineCollected(e)
  <2> DEFINE released == ownsModel[e] /\ engineIs[e] = "live" /\ IfOwnedBy(e)
  <2>1. /\ owners' = IF released THEN Unowned(m) ELSE owners
        /\ \E w \in {"closed", "collected"} : engineIs' = [engineIs EXCEPT ![e] = w]
        /\ ownsModel' = [ownsModel EXCEPT ![e] = FALSE]
    BY <1>4 DEF EngineCloses, EngineCollected
  <2>2. \/ batching' = [x \in Engines |-> x \notin {e} /\ batching[x]]
        \/ batching' = batching /\ ~batching[e]
    BY <1>4 DEF EngineCloses, EngineCollected, DeepReset
  <2>3. /\ engineIs' \in [Engines -> {"none", "live", "closed", "collected"}]
        /\ ownsModel' \in [Engines -> BOOLEAN] /\ batching' \in [Engines -> BOOLEAN]
    <3>1. \A x \in Engines : (x \notin {e} /\ batching[x]) \in BOOLEAN
      OBVIOUS
    <3> QED BY <1>1, <2>1, <2>2, <3>1
  <2>4. /\ engineIs'[e] # "live" /\ \A x \in Engines : x # e => engineIs'[x] = engineIs[x]
        /\ ~ownsModel'[e] /\ \A x \in Engines : x # e => ownsModel'[x] = ownsModel[x]
        /\ ~batching'[e] /\ \A x \in Engines : x # e => (batching'[x] => batching[x])
    <3>1. ~batching'[e] /\ \A x \in Engines : x # e => (batching'[x] => batching[x])
      BY <2>2
    <3> QED BY <1>1, <2>1, <3>1
  <2>5. released <=> m \in DOMAIN owners /\ owners[m] = e
    <3>1. IfOwnedBy(e) <=> m \in DOMAIN owners /\ owners[m] = e
      BY <1>1 DEF IfOwnedBy, OwnerOf
    <3>2. m \in DOMAIN owners /\ owners[m] = e => ownsModel[e] /\ engineIs[e] = "live"
      BY DEF OwnersHeld
    <3> QED BY <3>1, <3>2
  <2> HIDE DEF released
  <2>6. /\ DOMAIN owners' = IF released THEN DOMAIN owners \ {m} ELSE DOMAIN owners
        /\ \A x \in DOMAIN owners' : x \in DOMAIN owners /\ owners'[x] = owners[x]
    <3>1. CASE released
      BY <2>1, <3>1 DEF Unowned
    <3>2. CASE ~released
      BY <2>1, <3>2
    <3> QED BY <3>1, <3>2
  <2>7. ASSUME NEW x \in DOMAIN owners'
        PROVE  owners'[x] \in Engines /\ ModelOf[owners'[x]] = x
               /\ engineIs'[owners'[x]] = "live" /\ ownsModel'[owners'[x]]
    <3>1. /\ x \in DOMAIN owners /\ owners'[x] = owners[x] /\ owners[x] \in Engines
          /\ ModelOf[owners[x]] = x /\ engineIs[owners[x]] = "live" /\ ownsModel[owners[x]]
      BY <2>6 DEF OwnersHeld
    <3>2. owners[x] # e
      <4> SUFFICES ASSUME owners[x] = e PROVE FALSE
        OBVIOUS
      <4>1. x = m
        BY <3>1
      <4>2. released
        BY <2>5, <3>1, <4>1
      <4> QED BY <2>6, <4>1, <4>2
    <3> QED BY <2>4, <3>1, <3>2
  <2>8. \A x \in Engines : batching'[x] \/ ownsModel'[x] => engineIs'[x] = "live"
    BY <2>4 DEF OwnersHeld
  <2>9. ASSUME NEW x \in Engines, ~Forced, engineIs'[x] = "live" PROVE IfOwnedBy(x)'
    <3>1. x # e /\ engineIs[x] = "live" /\ IfOwnedBy(x)
      BY <2>4, <2>9 DEF OwnersHeld
    <3>2. ModelOf[x] \in DOMAIN owners /\ owners[ModelOf[x]] = x
      BY <1>1, <3>1 DEF IfOwnedBy, OwnerOf
    <3>3. ModelOf[x] \in DOMAIN owners'
      BY <2>5, <2>6, <3>1, <3>2
    <3> QED BY <2>6, <3>2, <3>3 DEF IfOwnedBy, OwnerOf
  <2> QED BY <2>3, <2>7, <2>8, <2>9 DEF OwnersHeld
<1> QED BY <1>0, <1>2, <1>3, <1>4

\* A payload of weights is taken whole or not at all.
LEMMA WeightsWholeStep == ASSUME WeightsWhole, WeightsNext PROVE WeightsWhole'
<1>1. CASE InitTransfer \/ \E on \in BOOLEAN : WeightUpdate(on)
  BY <1>1 DEF InitTransfer, WeightUpdate, WeightsWhole
<1>2. ASSUME NEW load \in Payloads, ReceiveWeights(load) PROVE WeightsWhole'
  <2>1. /\ offered'.before = weights /\ offered'.open = updating
        /\ offered'.names = load.names /\ offered'.version = load.version
        /\ offered'.badShapes = load.badShapes
    BY <1>2 DEF ReceiveWeights
  <2>2. CASE Acceptable(load)
    <3>1. /\ updating /\ load.badShapes \cap load.names = {}
          /\ \A n \in WeightNames :
               weights'[n] = IF n \in load.names THEN load.version ELSE weights[n]
      BY <1>2, <2>2 DEF ReceiveWeights, Acceptable
    <3> QED BY <2>1, <3>1 DEF WeightsWhole
  <2>3. CASE ~Acceptable(load)
    <3>1. weights' = weights
      BY <1>2, <2>3 DEF ReceiveWeights
    <3> QED BY <2>1, <3>1 DEF WeightsWhole
  <2> QED BY <2>2, <2>3
<1> QED BY <1>1, <1>2 DEF WeightsNext

\* A prompt that is in no task is warm.
LEMMA WarmHeldStep == ASSUME WarmHeld, WarmNext PROVE WarmHeld'
<1>0. /\ warmTasks \in Seq(SUBSET WarmPrompts) /\ Len(warmTasks) \in Nat
      /\ DOMAIN warmTasks = 1..Len(warmTasks)
  BY DEF WarmHeld
<1>1. CASE ClearPrefixCache
  <2>1. warmed' = {} /\ warmTasks' = Append(warmTasks, WarmPrompts)
    BY <1>1 DEF ClearPrefixCache
  <2>2. /\ warmTasks' \in Seq(SUBSET WarmPrompts) /\ Len(warmTasks') = Len(warmTasks) + 1
        /\ warmTasks'[Len(warmTasks) + 1] = WarmPrompts
    BY <1>0, <2>1, AppendPlaces
  <2>3. Len(warmTasks) + 1 \in 1..Len(warmTasks')
    BY <1>0, <2>2
  <2> QED BY <2>1, <2>2, <2>3 DEF WarmHeld
<1>2. ASSUME NEW task \in DOMAIN warmTasks, NEW p \in WarmPrompts, PromptWarmed(task, p)
      PROVE  WarmHeld'
  <2>1. /\ warmTasks' = [warmTasks EXCEPT ![task] = warmTasks[task] \ {p}]
        /\ warmed' = warmed \cup {p}
    BY <1>2 DEF PromptWarmed
  <2>2. warmTasks[task] \ {p} \in SUBSET WarmPrompts
    BY <1>0
  <2>3. /\ warmTasks' \in Seq(SUBSET WarmPrompts) /\ Len(warmTasks') = Len(warmTasks)
        /\ \A t \in 1..Len(warmTasks) :
             warmTasks'[t] = IF t = task THEN warmTasks[task] \ {p} ELSE warmTasks[t]
    BY <1>0, <2>1, <2>2
  <2>4. warmed' \subseteq WarmPrompts
    BY <2>1 DEF WarmHeld
  <2>5. ASSUME NEW q \in WarmPrompts, q \notin warmed'
        PROVE  \E t \in 1..Len(warmTasks') : q \in warmTasks'[t]
    <3>1. q # p /\ q \notin warmed
      BY <2>1, <2>5
    <3>2. PICK t \in 1..Len(warmTasks) : q \in warmTasks[t]
      BY <3>1 DEF WarmHeld
    <3>3. q \in warmTasks'[t]
      BY <2>3, <3>1, <3>2
    <3> QED BY <2>3, <3>2, <3>3
  <2> QED BY <2>3, <2>4, <2>5 DEF WarmHeld
<1> QED BY <1>1, <1>2 DEF WarmNext

\* Of the services one moves, the others stay as they are.
LEMMA OpHeldStep == ASSUME OpAssumption, OpHeld, [OpNext]_opVars PROVE OpHeld'
<1>1. RateHeld /\ OwnersHeld /\ WeightsWhole /\ WarmHeld
  BY DEF OpHeld
<1>2. UNCHANGED rateVars => RateHeld'
  BY <1>1 DEF RateHeld, Promise, CountedAt, rateVars
<1>3. UNCHANGED ownerVars => OwnersHeld'
  BY <1>1 DEF OwnersHeld, IfOwnedBy, OwnerOf, ownerVars
<1>4. UNCHANGED weightVars => WeightsWhole'
  BY <1>1 DEF WeightsWhole, weightVars
<1>5. UNCHANGED warmVars => WarmHeld'
  BY <1>1 DEF WarmHeld, warmVars
<1>6. CASE RateNext
  <2>1. UNCHANGED <<ownerVars, weightVars, warmVars>>
    BY <1>6 DEF RateNext, OpTick, IsAllowed
  <2> QED BY <1>1, <1>3, <1>4, <1>5, <1>6, <2>1, RateHeldStep DEF OpHeld
<1>7. CASE OwnersNext
  <2>1. UNCHANGED <<rateVars, weightVars, warmVars>>
    BY <1>7 DEF OwnersNext, EngineMade, EngineBatches, EngineCloses, EngineCollected
  <2> QED BY <1>1, <1>2, <1>4, <1>5, <1>7, <2>1, OwnersHeldStep DEF OpHeld
<1>8. CASE WeightsNext
  <2>1. UNCHANGED <<rateVars, ownerVars, warmVars>>
    BY <1>8 DEF WeightsNext, InitTransfer, WeightUpdate, ReceiveWeights
  <2> QED BY <1>1, <1>2, <1>3, <1>5, <1>8, <2>1, WeightsWholeStep DEF OpHeld
<1>9. CASE WarmNext
  <2>1. UNCHANGED <<rateVars, ownerVars, weightVars>>
    BY <1>9 DEF WarmNext, ClearPrefixCache, PromptWarmed
  <2> QED BY <1>1, <1>2, <1>3, <1>4, <1>9, <2>1, WarmHeldStep DEF OpHeld
<1>10. CASE UNCHANGED opVars
  BY <1>2, <1>3, <1>4, <1>5, <1>10 DEF opVars, OpHeld
<1> QED BY <1>6, <1>7, <1>8, <1>9, <1>10 DEF OpNext

\* What the invariant says of the properties.
LEMMA OperationsSoundOf == ASSUME OpAssumption, OpHeld PROVE OperationsSound
<1>1. RateHeld /\ OwnersHeld /\ WeightsWhole /\ WarmHeld
  BY DEF OpHeld
<1>2. RateKept
  <2> SUFFICES ASSUME NEW i \in ApiClients
               PROVE  /\ \A j, k \in DOMAIN passed[i] :
                           k = j + PerMinute => passed[i][k] - passed[i][j] >= 2 * Minute
                      /\ promised[i].due > 0 =>
                           /\ CountedAt(i, promised[i].due) < PerMinute
                           /\ CountedAt(i, promised[i].due - 3) >= PerMinute
    BY DEF RateKept
  <2>1. Slides(passed[i], requestTimes[i], opNow, 2 * Minute, PerMinute) /\ Promise(i)
    BY <1>1 DEF RateHeld
  <2>2. passed[i] \in Seq(Nat)
    BY <1>1 DEF RateHeld
  <2>3. DOMAIN passed[i] = 1..Len(passed[i])
    BY <2>2
  <2> QED BY <2>1, <2>3 DEF Slides, Promise
<1>3. OwnersLive
  <2>1. \A e \in Engines : ownsModel[e] /\ ~Forced => IfOwnedBy(e)
    BY <1>1 DEF OwnersHeld
  <2> QED BY <1>1, <2>1 DEF OwnersLive, OwnersHeld
<1>4. Forced \/ OneBatchPerModel
  <2> SUFFICES ASSUME ~Forced, NEW e \in Engines, NEW f \in Engines, batching[e], batching[f],
                      ModelOf[e] = ModelOf[f]
               PROVE  e = f
    BY DEF OneBatchPerModel
  <2>1. IfOwnedBy(e) /\ IfOwnedBy(f)
    BY <1>1 DEF OwnersHeld
  <2> QED BY <2>1 DEF IfOwnedBy
<1>5. PrefixesShared
  <2> SUFFICES ASSUME NEW p \in warmed, NEW text \in UserTexts
               PROVE  /\ IsPrefix(StrictPrefix(p), Rendered(WithUser(p, text)))
                      /\ LET talk == WithUser(p, text)
                         IN Head(text) # Head(DummyText) => \A other \in UserTexts :
                              IsPrefix(SubSeq(Rendered(talk), 1, PrefixBoundary(talk)),
                                       Rendered(WithUser(p, other)))
    BY DEF PrefixesShared
  <2>1. p \in WarmPrompts
    BY <1>1 DEF WarmHeld
  <2> QED BY <2>1, PromptShared
<1>6. WarmAtRest
  <2> SUFFICES ASSUME \A t \in DOMAIN warmTasks : warmTasks[t] = {} PROVE warmed = WarmPrompts
    BY DEF WarmAtRest
  <2>1. DOMAIN warmTasks = 1..Len(warmTasks)
    BY <1>1 DEF WarmHeld
  <2> QED BY <1>1, <2>1 DEF WarmHeld
<1> QED BY <1>1, <1>2, <1>3, <1>4, <1>5, <1>6 DEF OperationsSound

\* The limit of requests per minute and its promise of when to come back, the registry of
\* owners, the weights of a trainer and the warmed prefixes (server.py, model_registry.py,
\* weight_transfer/mlx_backend.py, prompt_warmup.py) keep what they promise, for any clients,
\* engines, weights and conversations.
THEOREM ServicesSound == ASSUME OpAssumption PROVE OpSpec => []OperationsSound
<1>1. OpInit => OpHeld
  BY OpHeldInit
<1>2. OpHeld /\ [OpNext]_opVars => OpHeld'
  BY OpHeldStep
<1>3. OpHeld => OperationsSound
  BY OperationsSoundOf
<1> QED BY <1>1, <1>2, <1>3, PTL DEF OpSpec
================================================================================
