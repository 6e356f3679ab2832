----------------------- MODULE TunnelSupervisor_proofs -----------------------
(***************************************************************************)
(* Proofs about TunnelSupervisor for every number of calls of enableTunnel  *)
(* and disableTunnel, of URLs and of troubles.                              *)
(***************************************************************************)
EXTENDS TunnelSupervisor, TLAPS

\* The calls that have not been made yet; what makes TypeOK inductive.
FreshCalls == \A c \in Calls : c > calls => phase[c] = "unused"

IInv == TypeOK /\ FreshCalls

-----------------------------------------------------------------------------
(* Type correctness.                                                        *)

\* Killing what runs keeps the types: a call without a child still has none.
LEMMA KillType ==
  ASSUME TypeOK, NEW known, Kill(known)
  PROVE  /\ child' \in [Processes -> {"none", "running", "killed", "gone"}]
         /\ \A c \in Calls : child[c] = "none" => child'[c] = "none"
         /\ tracked' = None /\ pid' = None /\ intentional' = TRUE
         /\ heard' = heard /\ stalled' = stalled
BY DEF TypeOK, Kill, Processes

\* A call of enableTunnel takes the number of a call never made, so that the child of
\* that number has not been spawned.
LEMMA EnableType ==
  ASSUME IInv, NEW user \in BOOLEAN, Enable(calls + 1, user),
         watch' \in [Watchers -> {"idle", "internet"}], monitoring' \in BOOLEAN
  PROVE  IInv'
<1> DEFINE c == calls + 1
<1>1. c \in Calls /\ calls' = c /\ calls \in Nat /\ MaxCalls \in Nat
  BY TunnelAssumption DEF IInv, TypeOK, Enable, Calls
<1>2. phase[c] = "unused" /\ child[c] = "none"
  BY <1>1 DEF IInv, TypeOK, FreshCalls
<1>3. /\ byUser' \in [Calls -> BOOLEAN]
      /\ calls' \in 0 .. MaxCalls
      /\ busy' = TRUE /\ port' = TRUE /\ off' = FALSE
  BY <1>1 DEF IInv, TypeOK, Enable, Calls
<1>7. /\ cancelled' = cancelled /\ update' = update /\ saved' = saved /\ setting' = setting
      /\ cooling' = cooling /\ disables' = disables /\ urlChanges' = urlChanges
      /\ troubles' = troubles
  BY DEF Enable, stored, bounds
<1>4. /\ phase' \in {[phase EXCEPT ![c] = "probing"], [phase EXCEPT ![c] = "fetching"]}
      /\ child' \in [Processes -> {"none", "running", "killed", "gone"}]
      /\ \A d \in Calls : child[d] = "none" => child'[d] = "none"
      /\ tracked' \in 0 .. MaxCalls /\ pid' \in 0 .. MaxCalls + 1
      /\ intentional' \in BOOLEAN /\ handler' \in BOOLEAN
      /\ heard' = heard /\ stalled' = stalled
  <2>1. CASE Running /\ saved
    BY <1>1, <2>1 DEF IInv, TypeOK, Enable, process
  <2>2. CASE ~(Running /\ saved)
    <3>1. Kill(TRUE) /\ handler' = TRUE /\ phase' = [phase EXCEPT ![c] = "fetching"]
      BY <2>2 DEF Enable
    <3>2. /\ child' \in [Processes -> {"none", "running", "killed", "gone"}]
          /\ \A d \in Calls : child[d] = "none" => child'[d] = "none"
          /\ tracked' = 0 /\ pid' = 0 /\ intentional' = TRUE
          /\ heard' = heard /\ stalled' = stalled
      BY <3>1, KillType DEF IInv, None
    <3>3. 0 \in 0 .. MaxCalls /\ 0 \in 0 .. MaxCalls + 1
      BY <1>1
    <3> QED
      BY <3>1, <3>2, <3>3
  <2> QED
    BY <2>1, <2>2
<1>5. /\ phase' \in [Calls -> Ended \cup
           {"probing", "fetching", "spawning", "registering", "verifying"}]
      /\ \A d \in Calls :
           phase'[d] \in {"unused", "probing", "fetching"} => child'[d] = "none"
  BY <1>1, <1>2, <1>4 DEF IInv, TypeOK
<1>6. FreshCalls'
  BY <1>1, <1>4 DEF IInv, TypeOK, FreshCalls, Calls
<1> HIDE DEF c
<1> QED
  BY <1>3, <1>4, <1>5, <1>6, <1>7 DEF IInv, TypeOK

\* A call whose phase changes stays one that was made; the other calls are as they were.
LEMMA PhaseType ==
  ASSUME IInv, NEW c \in Calls, phase[c] # "unused",
         NEW how \in {"done", "failed", "fetching", "spawning", "registering", "verifying"},
         phase' = [phase EXCEPT ![c] = how], calls' = calls,
         how = "fetching" => child[c] = "none",
         \A d \in Calls : d # c /\ child[d] = "none" => child'[d] = "none",
         how = "fetching" => child'[c] = child[c]
  PROVE  /\ phase' \in [Calls -> Ended \cup
              {"probing", "fetching", "spawning", "registering", "verifying"}]
         /\ \A d \in Calls :
              phase'[d] \in {"unused", "probing", "fetching"} => child'[d] = "none"
         /\ FreshCalls'
<1>1. phase' \in [Calls -> Ended \cup
         {"probing", "fetching", "spawning", "registering", "verifying"}]
  BY DEF IInv, TypeOK, Ended
<1>2. \A d \in Calls :
        phase'[d] \in {"unused", "probing", "fetching"} => child'[d] = "none"
  BY DEF IInv, TypeOK
<1>3. FreshCalls'
  BY DEF IInv, TypeOK, FreshCalls
<1> QED
  BY <1>1, <1>2, <1>3

\* A call that ends leaves the flag cleared and every other call as it was.
LEMMA EndType ==
  ASSUME IInv, NEW c \in Calls, phase[c] \notin Ended, NEW how \in {"done", "failed"},
         End(c, how), calls' = calls,
         \A d \in Calls : child[d] = "none" => child'[d] = "none"
  PROVE  /\ phase' \in [Calls -> Ended \cup
              {"probing", "fetching", "spawning", "registering", "verifying"}]
         /\ \A d \in Calls :
              phase'[d] \in {"unused", "probing", "fetching"} => child'[d] = "none"
         /\ FreshCalls' /\ busy' = FALSE
BY PhaseType DEF End, Ended

\* An exit keeps the types: it fails the call that waits for its first URL, and may
\* start a safe restart.
LEMMA ExitType ==
  ASSUME IInv, NEW c \in Calls, child[c] \in {"running", "killed"}, ExitEvent(c),
         troubles' \in 0 .. MaxTroubles
  PROVE  IInv'
<1>1. /\ calls' = calls /\ byUser' = byUser /\ cancelled' = cancelled /\ port' = port
      /\ handler' = handler /\ update' = update /\ saved' = saved /\ setting' = setting
      /\ cooling' = cooling /\ monitoring' = monitoring /\ disables' = disables
      /\ urlChanges' = urlChanges /\ off' = off
      /\ intentional' = FALSE /\ child' = [child EXCEPT ![c] = "gone"]
      /\ heard' = heard /\ stalled' = stalled
  BY DEF ExitEvent, stored
<1>2. /\ tracked' \in 0 .. MaxCalls /\ pid' \in 0 .. MaxCalls + 1
      /\ child' \in [Processes -> {"none", "running", "killed", "gone"}]
      /\ \A d \in Calls : child[d] = "none" => child'[d] = "none"
  BY <1>1, TunnelAssumption DEF IInv, TypeOK, ExitEvent, ClearPid, None, Processes
<1>3. watch' \in [Watchers -> {"idle", "internet"}]
  BY DEF IInv, TypeOK, ExitEvent
<1>4. /\ phase' \in [Calls -> Ended \cup
           {"probing", "fetching", "spawning", "registering", "verifying"}]
      /\ \A d \in Calls :
           phase'[d] \in {"unused", "probing", "fetching"} => child'[d] = "none"
      /\ FreshCalls' /\ busy' \in BOOLEAN
  <2>1. CASE phase[c] = "spawning"
    <3>1. End(c, "failed") /\ phase[c] \notin Ended
      BY <2>1 DEF ExitEvent, Ended
    <3> QED
      BY <1>1, <1>2, <3>1, EndType
  <2>2. CASE phase[c] # "spawning"
    <3>1. phase' = phase /\ busy' = busy
      BY <2>2 DEF ExitEvent
    <3> QED
      BY <1>1, <1>2, <3>1 DEF IInv, TypeOK, FreshCalls
  <2> QED
    BY <2>1, <2>2
<1> QED
  BY <1>1, <1>2, <1>3, <1>4 DEF IInv, TypeOK

\* Every step of a call and of its child keeps the types.
LEMMA CallStepType ==
  ASSUME IInv, NEW c \in Calls,
         \/ Go(c) \/ Announce(c) \/ SpawnFails(c)
         \/ KilledExits(c) \/ Crash(c) \/ ChangeUrl(c) \/ SaveUrl(c)
  PROVE  IInv'
<1>0. MaxCalls \in Nat \ {0} /\ MaxTroubles \in Nat /\ MaxUrlChanges \in Nat
      /\ c \in 0 .. MaxCalls
  BY TunnelAssumption DEF Calls
<1>1. CASE Reuse(c) \/ Verify(c)
  <2>1. phase[c] \notin Ended /\ End(c, "done") /\ calls' = calls /\ child' = child
        /\ cooling' \in BOOLEAN /\ monitoring' \in BOOLEAN
    BY <1>1 DEF Reuse, Verify, Succeed, process, Ended, IInv, TypeOK
  <2>2. /\ phase' \in [Calls -> Ended \cup
             {"probing", "fetching", "spawning", "registering", "verifying"}]
        /\ \A d \in Calls :
             phase'[d] \in {"unused", "probing", "fetching"} => child'[d] = "none"
        /\ FreshCalls' /\ busy' = FALSE
    BY <2>1, EndType
  <2> QED
    BY <1>1, <2>1, <2>2 DEF Reuse, Verify, IInv, TypeOK, process, stored, bounds
<1>2. CASE ReplaceStale(c)
  <2>1. /\ phase[c] = "probing" /\ phase[c] \notin Ended /\ Kill(TRUE) /\ calls' = calls
        /\ handler' \in BOOLEAN /\ child[c] = "none"
    BY <1>2 DEF ReplaceStale, Ended, IInv, TypeOK
  <2>2. /\ child' \in [Processes -> {"none", "running", "killed", "gone"}]
        /\ \A d \in Calls : child[d] = "none" => child'[d] = "none"
        /\ tracked' = 0 /\ pid' = 0 /\ intentional' = TRUE
        /\ heard' = heard /\ stalled' = stalled
    BY <2>1, KillType DEF IInv, None
  <2>3. /\ phase' \in [Calls -> Ended \cup
             {"probing", "fetching", "spawning", "registering", "verifying"}]
        /\ \A d \in Calls :
             phase'[d] \in {"unused", "probing", "fetching"} => child'[d] = "none"
        /\ FreshCalls' /\ busy' \in BOOLEAN
    <3>1. CASE cancelled[c]
      BY <1>2, <2>1, <2>2, <3>1, EndType DEF ReplaceStale
    <3>2. CASE ~cancelled[c]
      <4>1. phase' = [phase EXCEPT ![c] = "fetching"] /\ busy' = busy
        BY <1>2, <3>2 DEF ReplaceStale
      <4>2. busy' \in BOOLEAN /\ child'[c] = child[c]
        BY <2>1, <2>2, <4>1 DEF IInv, TypeOK
      <4> QED
        BY <2>1, <2>2, <4>1, <4>2, PhaseType
    <3> QED
      BY <3>1, <3>2
  <2>4. 0 \in 0 .. MaxCalls /\ 0 \in 0 .. MaxCalls + 1
    BY <1>0
  <2> QED
    BY <1>2, <2>1, <2>2, <2>3, <2>4 DEF ReplaceStale, IInv, TypeOK, stored, bounds
<1>3. CASE Spawn(c)
  <2>1. /\ phase[c] # "unused" /\ calls' = calls
        /\ phase' = [phase EXCEPT ![c] = "spawning"]
        /\ \A d \in Calls : d # c /\ child[d] = "none" => child'[d] = "none"
        /\ child' \in [Processes -> {"none", "running", "killed", "gone"}]
    BY <1>3 DEF Spawn, IInv, TypeOK, Processes
  <2>2. /\ phase' \in [Calls -> Ended \cup
             {"probing", "fetching", "spawning", "registering", "verifying"}]
        /\ \A d \in Calls :
             phase'[d] \in {"unused", "probing", "fetching"} => child'[d] = "none"
        /\ FreshCalls'
    BY <2>1, PhaseType
  <2>3. tracked' = c /\ pid' = c /\ c \in 0 .. MaxCalls + 1 /\ heard' \subseteq Calls
    BY <1>0, <1>3 DEF Spawn, IInv, TypeOK
  <2> QED
    BY <1>0, <1>3, <2>1, <2>2, <2>3 DEF Spawn, IInv, TypeOK, service, stored, bounds
<1>4. CASE Register(c)
  <2>1. phase[c] # "unused" /\ calls' = calls /\ child' = child
        /\ phase' = [phase EXCEPT ![c] = "verifying"]
    BY <1>4 DEF Register, process
  <2>2. /\ phase' \in [Calls -> Ended \cup
             {"probing", "fetching", "spawning", "registering", "verifying"}]
        /\ \A d \in Calls :
             phase'[d] \in {"unused", "probing", "fetching"} => child'[d] = "none"
        /\ FreshCalls'
    BY <2>1, PhaseType
  <2> QED
    BY <1>4, <2>1, <2>2 DEF Register, IInv, TypeOK, service, process, bounds
<1>5. CASE Fail(c) \/ (Announce(c) /\ cancelled[c])
  <2>1. phase[c] \notin Ended /\ End(c, "failed") /\ calls' = calls /\ child' = child
    BY <1>0, <1>5 DEF Fail, Announce, process, Ended, IInv, TypeOK
  <2>2. /\ phase' \in [Calls -> Ended \cup
             {"probing", "fetching", "spawning", "registering", "verifying"}]
        /\ \A d \in Calls :
             phase'[d] \in {"unused", "probing", "fetching"} => child'[d] = "none"
        /\ FreshCalls' /\ busy' = FALSE
    BY <2>1, EndType
  <2> QED
    BY <1>5, <2>1, <2>2
       DEF Fail, Announce, IInv, TypeOK, process, stored, bounds
<1>6. CASE Announce(c) /\ ~cancelled[c]
  <2>1. /\ phase[c] # "unused" /\ calls' = calls /\ child' = child
        /\ phase' = [phase EXCEPT ![c] = "registering"] /\ busy' = busy
    BY <1>6 DEF Announce, process
  <2>2. /\ phase' \in [Calls -> Ended \cup
             {"probing", "fetching", "spawning", "registering", "verifying"}]
        /\ \A d \in Calls :
             phase'[d] \in {"unused", "probing", "fetching"} => child'[d] = "none"
        /\ FreshCalls'
    BY <2>1, PhaseType
  <2> QED
    BY <1>6, <2>1, <2>2 DEF Announce, IInv, TypeOK, process, stored, bounds
<1>7. CASE KilledExits(c) \/ Crash(c)
  <2>1. /\ child[c] \in {"running", "killed"} /\ ExitEvent(c)
        /\ troubles' \in 0 .. MaxTroubles
    BY <1>0, <1>7 DEF KilledExits, Crash, IInv, TypeOK
  <2> QED
    BY <2>1, ExitType
<1>8. CASE ChangeUrl(c)
  BY <1>0, <1>8 DEF ChangeUrl, IInv, TypeOK, FreshCalls, service, process, stored
<1>9. CASE SaveUrl(c)
  BY <1>9 DEF SaveUrl, IInv, TypeOK, FreshCalls, service, process, bounds
<1>10. CASE SpawnFails(c)
  <2>1. /\ phase[c] # "unused" /\ calls' = calls
        /\ phase' = [phase EXCEPT ![c] = "failed"] /\ busy' = FALSE
        /\ \A d \in Calls : d # c /\ child[d] = "none" => child'[d] = "none"
        /\ child' \in [Processes -> {"none", "running", "killed", "gone"}]
    BY <1>10 DEF SpawnFails, End, IInv, TypeOK, Processes
  <2>2. /\ phase' \in [Calls -> Ended \cup
             {"probing", "fetching", "spawning", "registering", "verifying"}]
        /\ \A d \in Calls :
             phase'[d] \in {"unused", "probing", "fetching"} => child'[d] = "none"
        /\ FreshCalls'
    BY <2>1, PhaseType
  <2>3. /\ tracked' = c /\ pid' \in 0 .. MaxCalls + 1 /\ troubles' \in 0 .. MaxTroubles
    BY <1>0, <1>10 DEF SpawnFails, IInv, TypeOK, None
  <2> QED
    BY <1>0, <1>10, <2>1, <2>2, <2>3 DEF SpawnFails, IInv, TypeOK, stored
<1> QED
  BY <1>1, <1>2, <1>3, <1>4, <1>5, <1>6, <1>7, <1>8, <1>9, <1>10 DEF Go

\* The steps of the dashboard, of the shared download, of the children nobody listens
\* to and of the safe restarts keep the types.
LEMMA SupervisorStepType ==
  ASSUME IInv,
         \/ UserEnables \/ Disable \/ CooldownOver \/ FetchFails \/ DownloadStalls
         \/ \E p \in Processes : ExitsUnheard(p)
         \/ \E w \in Watchers : Wake(w) \/ Offline(w) \/ Restart(w)
  PROVE  IInv'
<1>0. MaxDisables \in Nat /\ MaxCalls \in Nat /\ MaxTroubles \in Nat
  BY TunnelAssumption
<1>1. CASE UserEnables
  BY <1>1, EnableType DEF UserEnables, IInv, TypeOK
<1>2. CASE Disable
  <2>1. /\ child' \in [Processes -> {"none", "running", "killed", "gone"}]
        /\ \A d \in Calls : child[d] = "none" => child'[d] = "none"
        /\ tracked' = 0 /\ pid' = 0 /\ intentional' = TRUE
        /\ heard' = heard /\ stalled' = stalled
    BY <1>2, KillType DEF Disable, IInv, None
  <2>2. 0 \in 0 .. MaxCalls /\ 0 \in 0 .. MaxCalls + 1 /\ disables' \in 0 .. MaxDisables
    BY <1>0, <1>2 DEF Disable, IInv, TypeOK
  <2> QED
    BY <1>2, <2>1, <2>2 DEF Disable, IInv, TypeOK, FreshCalls
<1>3. CASE CooldownOver
  BY <1>3 DEF CooldownOver, IInv, TypeOK, FreshCalls, service, process, stored, bounds
<1>4. ASSUME NEW w \in Watchers, Wake(w) \/ Offline(w)
      PROVE  IInv'
  BY <1>4 DEF Wake, Offline, IInv, TypeOK, FreshCalls, service, process, stored, bounds
<1>5. ASSUME NEW w \in Watchers, Restart(w)
      PROVE  IInv'
  BY <1>5, EnableType DEF Restart, IInv, TypeOK
<1>6. CASE FetchFails \/ DownloadStalls
  <2>1. troubles' \in 0 .. MaxTroubles /\ calls' = calls /\ child' = child
        /\ stalled' \in BOOLEAN /\ busy' \in BOOLEAN
    <3>1. CASE FetchFails
      <4>1. troubles \in 0 .. MaxTroubles /\ stalled \in BOOLEAN
        BY DEF IInv, TypeOK
      <4>2. troubles < MaxTroubles /\ troubles' = troubles + 1 /\ calls' = calls
            /\ busy' = FALSE /\ child' = child /\ stalled' = stalled
        BY <3>1 DEF FetchFails, process
      <4>3. troubles' \in 0 .. MaxTroubles
        BY <1>0, <4>1, <4>2
      <4> QED
        BY <4>1, <4>2, <4>3, Zenon
    <3>2. CASE DownloadStalls
      BY <1>0, <3>2 DEF DownloadStalls, IInv, TypeOK, service
    <3> QED
      BY <1>6, <3>1, <3>2
  <2>2. /\ phase' \in [Calls -> Ended \cup
             {"probing", "fetching", "spawning", "registering", "verifying"}]
        /\ \A d \in Calls :
             phase'[d] \in {"unused", "probing", "fetching"} => child'[d] = "none"
        /\ FreshCalls'
    BY <1>6, <2>1 DEF FetchFails, DownloadStalls, IInv, TypeOK, FreshCalls, Ended
  <2> QED
    BY <1>6, <2>1, <2>2
       DEF FetchFails, DownloadStalls, IInv, TypeOK, process, service, stored
<1>7. ASSUME NEW p \in Processes, ExitsUnheard(p)
      PROVE  IInv'
  <2>1. troubles' \in 0 .. MaxTroubles
    BY <1>0, <1>7 DEF ExitsUnheard, IInv, TypeOK
  <2>2. /\ child' \in [Processes -> {"none", "running", "killed", "gone"}]
        /\ \A d \in Calls : child[d] = "none" => child'[d] = "none"
    BY <1>7 DEF ExitsUnheard, Alive, IInv, TypeOK, Processes
  <2> QED
    BY <1>7, <2>1, <2>2 DEF ExitsUnheard, IInv, TypeOK, FreshCalls, service, stored
<1> QED
  BY <1>1, <1>2, <1>3, <1>4, <1>5, <1>6, <1>7

\* The strengthened type invariant is inductive.
LEMMA Inductive == IInv /\ [Next]_vars => IInv'
<1>1. SUFFICES ASSUME IInv, [Next]_vars PROVE IInv'
  OBVIOUS
<1>2. CASE UNCHANGED vars
  BY <1>1, <1>2 DEF vars, service, process, stored, bounds, IInv, TypeOK, FreshCalls
<1>3. CASE Next
  BY <1>1, <1>3, CallStepType, SupervisorStepType DEF Next
<1> QED
  BY <1>1, <1>2, <1>3

\* It holds at the start.
LEMMA InitIInv == Init => IInv
<1> SUFFICES ASSUME Init PROVE IInv
  OBVIOUS
<1>1. /\ calls \in 0 .. MaxCalls /\ tracked \in 0 .. MaxCalls /\ pid \in 0 .. MaxCalls + 1
      /\ disables \in 0 .. MaxDisables /\ urlChanges \in 0 .. MaxUrlChanges
      /\ troubles \in 0 .. MaxTroubles
  BY TunnelAssumption DEF Init, None, Orphan
<1>2. /\ saved \in BOOLEAN /\ setting \in BOOLEAN /\ monitoring \in BOOLEAN
      /\ off \in BOOLEAN
  BY DEF Init
<1>3. watch \in [Watchers -> {"idle", "internet"}]
  BY DEF Init
<1>4. /\ byUser \in [Calls -> BOOLEAN] /\ cancelled \in [Tokens -> BOOLEAN]
      /\ update \in [Calls -> BOOLEAN]
  BY DEF Init
<1>5. FreshCalls /\ phase \in [Calls -> Ended] /\ heard \subseteq Calls
  BY DEF Init, FreshCalls, Ended
<1>6. /\ child \in [Processes -> {"none", "running", "killed", "gone"}]
      /\ \A c \in Calls : child[c] = "none"
  <2>1. PICK left \in {"running", "gone"} :
          child = [p \in Processes |-> IF p = Orphan THEN left ELSE "none"]
    BY DEF Init
  <2>2. \A c \in Calls : c # Orphan /\ c \in Processes
    BY TunnelAssumption DEF Calls, Orphan, Processes
  <2> QED
    BY <2>1, <2>2
<1> QED
  BY <1>1, <1>2, <1>3, <1>4, <1>5, <1>6 DEF Init, IInv, TypeOK

\* Every variable stays in its type, and no call has a child before it has spawned one,
\* for every number of calls, disables, URLs and troubles.
THEOREM TypeCorrect == Spec => []TypeOK
<1>1. IInv => TypeOK
  BY DEF IInv
<1> QED
  BY InitIInv, Inductive, <1>1, PTL DEF Spec

-----------------------------------------------------------------------------
(* The PID file, and the flag that keeps the watchdog away.                 *)

\* What PidFileTruthful needs to be kept: a child that the PID file names runs and is
\* listened to, so that its exit clears the file; the orphan was a process.
PidHeld ==
  /\ pid \in Calls => child[pid] = "running" /\ pid \in heard
  /\ child[Orphan] # "none"

\* The two ways in which the PID file ceases to name a process.
Dropped(p) ==
  \/ child'[p] \in {"killed", "gone"}
  \/ \E c \in Calls : phase[c] = "fetching" /\ phase'[c] # "fetching"

\* What a step keeps of the PID file.
PidKept == PidHeld' /\ \A p \in Processes : pid = p /\ pid' # p => Dropped(p)

\* The PID file names no process, or a call or the orphan.
LEMMA PidRange ==
  ASSUME TypeOK
  PROVE  /\ pid = None \/ pid \in Calls \/ pid = Orphan
         /\ Calls \subseteq Processes /\ Orphan \in Processes
         /\ \A p \in Processes : p # None /\ (p \in Calls \/ p = Orphan)
         /\ Orphan \notin Calls
BY TunnelAssumption DEF TypeOK, None, Calls, Orphan, Processes

\* What the PID file names gets the signal when the file is cleared for it.
LEMMA KillKeepsPid ==
  ASSUME TypeOK, PidHeld, NEW known, Kill(known)
  PROVE  PidKept
<1>1. pid' = None /\ None \notin Calls
  BY DEF Kill, None, Calls
<1>2. child \in [Processes -> {"none", "running", "killed", "gone"}]
  BY DEF TypeOK
<1>3. child'[Orphan] # "none"
  BY <1>2, PidRange DEF Kill, PidHeld
<1>4. ASSUME NEW p \in Processes, pid = p
      PROVE  child'[p] \in {"killed", "gone"}
  <2>1. child[p] \in {"running", "killed", "gone"}
    BY <1>2, <1>4, PidRange DEF PidHeld
  <2> QED
    BY <1>2, <1>4, <2>1 DEF Kill
<1> QED
  BY <1>1, <1>3, <1>4 DEF PidKept, PidHeld, Dropped

\* An exit clears the PID file of the child that exits and of no other.
LEMMA ExitKeepsPid ==
  ASSUME TypeOK, PidHeld, NEW c \in Calls, ExitEvent(c)
  PROVE  PidKept
<1>1. /\ child' = [child EXCEPT ![c] = "gone"] /\ heard' = heard
      /\ pid' = IF pid = c THEN None ELSE pid
  BY DEF ExitEvent, ClearPid
<1>2. child \in [Processes -> {"none", "running", "killed", "gone"}]
  BY DEF TypeOK
<1>3. c # Orphan /\ c \in Processes /\ None \notin Calls
  BY PidRange
<1>4. child'[c] = "gone" /\ \A p \in Processes : p # c => child'[p] = child[p]
  BY <1>1, <1>2, <1>3
<1> QED
  BY <1>1, <1>3, <1>4, PidRange DEF PidKept, PidHeld, Dropped

\* A call that leaves "fetching" has spawned a child, named in the PID file and listened
\* to; or it failed, and the file names what it named, or nothing.
LEMMA SpawnKeepsPid ==
  ASSUME TypeOK, PidHeld, NEW c \in Calls, Spawn(c) \/ SpawnFails(c)
  PROVE  PidKept
<1>1. /\ child \in [Processes -> {"none", "running", "killed", "gone"}]
      /\ phase \in [Calls -> Ended \cup
           {"probing", "fetching", "spawning", "registering", "verifying"}]
  BY DEF TypeOK
<1>2. phase[c] = "fetching" /\ phase'[c] # "fetching" /\ child[c] = "none"
  BY <1>1 DEF Spawn, SpawnFails, End, TypeOK
<1>3. c # Orphan /\ c \in Processes /\ None \notin Calls
  BY PidRange
<1>4. CASE Spawn(c)
  <2>1. /\ child' = [child EXCEPT ![c] = "running"] /\ pid' = c
        /\ heard' = heard \cup {c}
    BY <1>4 DEF Spawn
  <2>2. child'[c] = "running" /\ child'[Orphan] = child[Orphan]
    BY <1>1, <1>3, <2>1, PidRange
  <2> QED
    BY <1>2, <2>1, <2>2 DEF PidKept, PidHeld, Dropped
<1>5. CASE SpawnFails(c)
  <2>1. PICK started \in {"running", "gone"} : child' = [child EXCEPT ![c] = started]
    BY <1>5 DEF SpawnFails
  <2>2. pid' \in {pid, None} /\ heard' = heard
    BY <1>5 DEF SpawnFails
  <2>3. \A p \in Processes : p # c => child'[p] = child[p]
    BY <1>1, <2>1
  <2>4. pid \in Calls => pid # c
    BY <1>2 DEF PidHeld
  <2> QED
    BY <1>2, <1>3, <2>2, <2>3, <2>4, PidRange DEF PidKept, PidHeld, Dropped
<1> QED
  BY <1>4, <1>5

\* No step lets the PID file name a child of this run that does not run, or forget a
\* process that does unless a call is writing the file.
LEMMA StepKeepsPid ==
  ASSUME TypeOK, PidHeld, [Next]_vars
  PROVE  PidKept
<1>1. CASE UNCHANGED <<child, pid, heard>>
  BY <1>1 DEF PidKept, PidHeld
<1>2. ASSUME NEW user, Enable(calls + 1, user)
      PROVE  PidKept
  BY <1>1, <1>2, KillKeepsPid DEF Enable, process
<1>3. ASSUME NEW w \in Watchers, Wake(w) \/ Offline(w) \/ Restart(w)
      PROVE  PidKept
  BY <1>1, <1>2, <1>3 DEF Wake, Offline, Restart, process
<1>4. ASSUME NEW q \in Processes, ExitsUnheard(q)
      PROVE  PidKept
  <2>1. /\ child' = [child EXCEPT ![q] = "gone"] /\ pid' = pid /\ heard' = heard
        /\ q \notin heard
    BY <1>4 DEF ExitsUnheard
  <2>2. \A p \in Processes : p # q => child'[p] = child[p]
    BY <2>1 DEF TypeOK
  <2>3. child'[q] = "gone"
    BY <2>1 DEF TypeOK
  <2> QED
    BY <2>1, <2>2, <2>3, PidRange DEF PidKept, PidHeld
<1>5. ASSUME NEW c \in Calls,
             \/ Go(c) \/ Announce(c) \/ SpawnFails(c)
             \/ KilledExits(c) \/ Crash(c) \/ ChangeUrl(c) \/ SaveUrl(c)
      PROVE  PidKept
  <2>1. CASE Spawn(c) \/ SpawnFails(c)
    BY <2>1, SpawnKeepsPid
  <2>2. CASE KilledExits(c) \/ Crash(c)
    BY <2>2, ExitKeepsPid DEF KilledExits, Crash
  <2>3. CASE ReplaceStale(c)
    BY <2>3, KillKeepsPid DEF ReplaceStale
  <2>4. CASE \/ Reuse(c) \/ Register(c) \/ Verify(c) \/ Fail(c) \/ Announce(c)
             \/ ChangeUrl(c) \/ SaveUrl(c)
    BY <1>1, <2>4 DEF Reuse, Register, Verify, Fail, Announce, ChangeUrl, SaveUrl, process
  <2> QED
    BY <1>5, <2>1, <2>2, <2>3, <2>4 DEF Go
<1>6. CASE UserEnables
  BY <1>2, <1>6 DEF UserEnables
<1>7. CASE Disable
  BY <1>7, KillKeepsPid DEF Disable
<1>8. CASE CooldownOver \/ FetchFails \/ DownloadStalls \/ UNCHANGED vars
  BY <1>1, <1>8 DEF CooldownOver, FetchFails, DownloadStalls, vars, process
<1> QED
  BY <1>3, <1>4, <1>5, <1>6, <1>7, <1>8 DEF Next

\* A call leaves the awaits of enableTunnel only through its finally, which clears
\* spawnInProgress; and whatever sets the flag is such a call.
LEMMA StepClearsFlag ==
  ASSUME IInv, SpawnFlagNotStuck, [Next]_vars
  PROVE  SpawnFlagNotStuck'
<1> USE DEF SpawnFlagNotStuck
<1>1. CASE busy' = FALSE
  BY <1>1
<1>2. CASE busy' = busy /\ phase' = phase
  BY <1>2
<1>3. ASSUME NEW c \in Calls, NEW how \in {"fetching", "spawning", "registering",
                                            "verifying", "probing"},
             phase' = [phase EXCEPT ![c] = how]
      PROVE  SpawnFlagNotStuck'
  <2>1. phase'[c] = how
    BY <1>3 DEF IInv, TypeOK
  <2> QED
    BY <2>1 DEF Ended
<1>4. ASSUME NEW user, Enable(calls + 1, user)
      PROVE  SpawnFlagNotStuck'
  <2>1. calls + 1 \in Calls
    BY <1>4, TunnelAssumption DEF Enable, IInv, TypeOK, Calls
  <2>2. PICK how \in {"probing", "fetching"} : phase' = [phase EXCEPT ![calls + 1] = how]
    BY <1>4 DEF Enable
  <2> QED
    BY <1>3, <2>1, <2>2
<1>5. CASE UNCHANGED vars
  BY <1>2, <1>5 DEF vars, service
<1>6. CASE UserEnables
  BY <1>4, <1>6 DEF UserEnables
<1>7. CASE Disable
  BY <1>1, <1>7 DEF Disable
<1>8. CASE \/ CooldownOver \/ FetchFails \/ DownloadStalls
            \/ \E p \in Processes : ExitsUnheard(p)
  BY <1>1, <1>2, <1>8 DEF CooldownOver, FetchFails, DownloadStalls, ExitsUnheard, service
<1>9. ASSUME NEW w \in Watchers, Wake(w) \/ Offline(w) \/ Restart(w)
      PROVE  SpawnFlagNotStuck'
  BY <1>2, <1>4, <1>9 DEF Wake, Offline, Restart, service
<1>10. ASSUME NEW c \in Calls,
              \/ Go(c) \/ Announce(c) \/ SpawnFails(c)
              \/ KilledExits(c) \/ Crash(c) \/ ChangeUrl(c) \/ SaveUrl(c)
       PROVE  SpawnFlagNotStuck'
  <2>1. CASE Reuse(c) \/ Verify(c) \/ Fail(c) \/ SpawnFails(c)
    BY <1>1, <2>1 DEF Reuse, Verify, Succeed, Fail, SpawnFails, End
  <2>2. CASE ReplaceStale(c) \/ Announce(c)
    BY <1>1, <1>3, <2>2 DEF ReplaceStale, Announce, End
  <2>3. CASE Spawn(c) \/ Register(c)
    BY <1>3, <2>3 DEF Spawn, Register
  <2>4. CASE KilledExits(c) \/ Crash(c)
    BY <1>1, <1>2, <2>4 DEF KilledExits, Crash, ExitEvent, End
  <2>5. CASE ChangeUrl(c) \/ SaveUrl(c)
    BY <1>2, <2>5 DEF ChangeUrl, SaveUrl, service
  <2> QED
    BY <1>10, <2>1, <2>2, <2>3, <2>4, <2>5 DEF Go
<1> QED
  BY <1>5, <1>6, <1>7, <1>8, <1>9, <1>10 DEF Next

\* However calls overlap or fail, whichever children exit after their successor was
\* spawned, and whatever an earlier run left: a process is dropped from the PID file only
\* when it is killed or has exited or a start writes the file, and a child of this run is
\* named only while it runs.
THEOREM PidFileKept == Spec => PidFileTruthful
<1>1. Init => PidHeld
  <2> SUFFICES ASSUME Init PROVE PidHeld
    OBVIOUS
  <2>1. pid \notin Calls /\ Orphan \in Processes
    BY TunnelAssumption DEF Init, None, Calls, Orphan, Processes
  <2> QED
    BY <2>1 DEF Init, PidHeld
<1>2. /\ IInv /\ PidHeld /\ [Next]_vars => PidHeld'
      /\ IInv /\ PidHeld /\ [Next]_vars =>
           [\A p \in Processes :
              pid = p /\ pid' # p =>
                \/ child'[p] \in {"killed", "gone"}
                \/ \E c \in Calls : phase[c] = "fetching" /\ phase'[c] # "fetching"]_vars
  BY StepKeepsPid DEF IInv, PidKept, Dropped
<1>3. PidHeld => (pid \in Calls => child[pid] = "running")
  BY DEF PidHeld
<1> QED
  BY InitIInv, Inductive, <1>1, <1>2, <1>3, PTL DEF Spec, PidFileTruthful

\* spawnInProgress is only set while a call is under way: no overlap, failure or
\* cancellation leaves it set for good, which would silence the watchdog.
THEOREM FlagFollowsCalls == Spec => []SpawnFlagNotStuck
<1>1. Init => SpawnFlagNotStuck
  BY DEF Init, SpawnFlagNotStuck
<1>2. IInv /\ SpawnFlagNotStuck /\ [Next]_vars => SpawnFlagNotStuck'
  BY StepClearsFlag
<1> QED
  BY InitIInv, Inductive, <1>1, <1>2, PTL DEF Spec
-----------------------------------------------------------------------------
(* What a disable is worth.  DisabledStaysDisabled does not hold (a registration or *)
(* a new URL in flight writes the setting after it); these are the states from      *)
(* which it does.                                                                   *)

\* The call or its child can still announce a URL.
Announcing(c) == Alive(c) \/ phase[c] \in {"probing", "fetching", "spawning"}

\* No call and no URL update is between its last look at the token and its write of
\* the setting.
NoWriteUnderWay == \A c \in Calls : phase[c] # "registering" /\ ~update[c]

\* The tunnel is off, and whatever could still announce a URL is cancelled.
Final ==
  /\ off /\ ~setting
  /\ NoWriteUnderWay
  /\ \A c \in Calls : Announcing(c) => cancelled[c]

\* A disable can cancel all there is: it holds the token of the latest call only.
OldCallsSettled == \A c \in Calls : c # calls /\ Announcing(c) => cancelled[c]

\* A step of a call or its child that leaves the tunnel off keeps Final: what is
\* cancelled fails before it registers, and nothing else is under way.
LEMMA CallKeepsFinal ==
  ASSUME IInv, Final, NEW c \in Calls,
         \/ Go(c) \/ Announce(c) \/ SpawnFails(c)
         \/ KilledExits(c) \/ Crash(c) \/ ChangeUrl(c) \/ SaveUrl(c)
  PROVE  Final'
<1>0. TypeOK
  BY DEF IInv
<1>1. off /\ ~setting /\ phase[c] # "registering" /\ ~update[c]
  BY DEF Final, NoWriteUnderWay
<1>2. Announcing(c) => cancelled[c]
  BY DEF Final
<1>3. /\ phase \in [Calls -> Ended \cup
           {"probing", "fetching", "spawning", "registering", "verifying"}]
      /\ child \in [Processes -> {"none", "running", "killed", "gone"}]
  BY <1>0 DEF TypeOK
<1>4. ASSUME NEW how \in Ended \cup {"fetching", "spawning", "verifying"},
             phase' = [phase EXCEPT ![c] = how] \/ phase' = phase,
             how \in {"fetching", "spawning"} => cancelled[c],
             \A d \in Calls : Alive(d)' => Alive(d) \/ (d = c /\ cancelled[c]),
             UNCHANGED off, UNCHANGED setting, UNCHANGED cancelled, UNCHANGED update
      PROVE  Final'
  <2>1. ASSUME NEW d \in Calls
        PROVE  /\ phase'[d] # "registering" /\ ~update'[d]
               /\ Announcing(d)' => cancelled'[d]
    <3>1. phase[d] # "registering" /\ ~update[d] /\ (Announcing(d) => cancelled[d])
      BY <2>1 DEF Final, NoWriteUnderWay
    <3>2. phase'[d] = phase[d] \/ (d = c /\ phase'[d] = how)
      BY <1>3, <1>4
    <3>3. how # "registering" /\ (how = "probing" => FALSE)
      BY <1>4 DEF Ended
    <3> QED
      BY <1>4, <3>1, <3>2, <3>3 DEF Announcing
  <2> QED
    BY <1>1, <1>4, <2>1 DEF Final, NoWriteUnderWay
<1>5. CASE Reuse(c) \/ Verify(c) \/ Fail(c)
  <2>1. \E how \in {"done", "failed"} : phase' = [phase EXCEPT ![c] = how]
    BY <1>5 DEF Reuse, Verify, Fail, Succeed, End
  <2>2. child' = child /\ off' = off /\ setting' = setting /\ cancelled' = cancelled
        /\ update' = update
    BY <1>5 DEF Reuse, Verify, Fail, process, stored
  <2>3. \A d \in Calls : Alive(d)' => Alive(d)
    BY <2>2 DEF Alive
  <2> QED
    BY <1>4, <2>1, <2>2, <2>3 DEF Ended
<1>6. CASE ReplaceStale(c)
  <2>1. cancelled[c]
    BY <1>2, <1>6 DEF ReplaceStale, Announcing
  <2>2. phase' = [phase EXCEPT ![c] = "failed"]
    BY <1>6, <2>1 DEF ReplaceStale, End
  <2>3. off' = off /\ setting' = setting /\ cancelled' = cancelled /\ update' = update
    BY <1>6 DEF ReplaceStale, stored
  <2>4. \A d \in Calls : Alive(d)' => Alive(d)
    BY <1>3, <1>6 DEF ReplaceStale, Kill, Alive, Processes
  <2> QED
    BY <1>4, <2>2, <2>3, <2>4 DEF Ended
<1>7. CASE Spawn(c)
  <2>1. cancelled[c]
    BY <1>2, <1>7 DEF Spawn, Announcing
  <2>2. phase' = [phase EXCEPT ![c] = "spawning"] /\ child' = [child EXCEPT ![c] = "running"]
    BY <1>7 DEF Spawn
  <2>3. off' = off /\ setting' = setting /\ cancelled' = cancelled /\ update' = update
    BY <1>7 DEF Spawn, stored
  <2>4. \A d \in Calls : Alive(d)' => Alive(d) \/ (d = c /\ cancelled[c])
    BY <1>3, <2>1, <2>2 DEF Alive, Processes
  <2> QED
    BY <1>4, <2>1, <2>2, <2>3, <2>4
<1>8. CASE Announce(c)
  <2>1. cancelled[c]
    BY <1>2, <1>8 DEF Announce, Announcing
  <2>2. phase' = [phase EXCEPT ![c] = "failed"]
    BY <1>8, <2>1 DEF Announce, End
  <2>3. child' = child /\ off' = off /\ setting' = setting /\ cancelled' = cancelled
        /\ update' = update
    BY <1>8 DEF Announce, process, stored
  <2>4. \A d \in Calls : Alive(d)' => Alive(d)
    BY <2>3 DEF Alive
  <2> QED
    BY <1>4, <2>2, <2>3, <2>4 DEF Ended
<1>9. CASE KilledExits(c) \/ Crash(c)
  <2>1. phase' = phase \/ phase' = [phase EXCEPT ![c] = "failed"]
    BY <1>9 DEF KilledExits, Crash, ExitEvent, End
  <2>2. child' = [child EXCEPT ![c] = "gone"] /\ off' = off /\ setting' = setting
        /\ cancelled' = cancelled /\ update' = update
    BY <1>9 DEF KilledExits, Crash, ExitEvent, stored
  <2>3. \A d \in Calls : Alive(d)' => Alive(d)
    BY <1>3, <2>2 DEF Alive, Processes
  <2> QED
    BY <1>4, <2>1, <2>2, <2>3 DEF Ended
<1>10. Register(c) => FALSE
  BY <1>1 DEF Register
<1>11. ChangeUrl(c) => FALSE
  BY <1>2 DEF ChangeUrl, Announcing
<1>12. SaveUrl(c) => FALSE
  BY <1>1 DEF SaveUrl
<1>13. CASE SpawnFails(c)
  <2>1. cancelled[c]
    BY <1>2, <1>13 DEF SpawnFails, Announcing
  <2>2. PICK started \in {"running", "gone"} : child' = [child EXCEPT ![c] = started]
    BY <1>13 DEF SpawnFails
  <2>3. phase' = [phase EXCEPT ![c] = "failed"]
    BY <1>13 DEF SpawnFails, End
  <2>4. off' = off /\ setting' = setting /\ cancelled' = cancelled /\ update' = update
    BY <1>13 DEF SpawnFails, stored
  <2>5. \A d \in Calls : Alive(d)' => Alive(d) \/ (d = c /\ cancelled[c])
    BY <1>3, <2>1, <2>2 DEF Alive, Processes
  <2> QED
    BY <1>4, <2>3, <2>4, <2>5 DEF Ended
<1> QED
  BY <1>5, <1>6, <1>7, <1>8, <1>9, <1>10, <1>11, <1>12, <1>13 DEF Go

\* A disable that meets no registration or URL update under way, and no older call
\* that was not cancelled, ends in Final.
LEMMA DisableIsFinal ==
  ASSUME IInv, Disable, NoWriteUnderWay, OldCallsSettled
  PROVE  Final'
<1>0. TypeOK
  BY DEF IInv
<1>1. /\ cancelled \in [Tokens -> BOOLEAN]
      /\ child \in [Processes -> {"none", "running", "killed", "gone"}]
      /\ calls \in 0 .. MaxCalls
  BY <1>0 DEF TypeOK
<1>2. /\ off' = TRUE /\ setting' = FALSE /\ phase' = phase /\ update' = update
      /\ cancelled' = [cancelled EXCEPT ![calls] = TRUE]
      /\ Kill(port)
  BY DEF Disable
<1>3. ASSUME NEW c \in Calls, Announcing(c)'
      PROVE  cancelled'[c]
  <2>1. Announcing(c)
    BY <1>1, <1>2, <1>3 DEF Announcing, Alive, Kill, Processes
  <2>2. c \in Tokens /\ calls \in Tokens
    BY <1>1, TunnelAssumption DEF Calls, Tokens
  <2> QED
    BY <1>1, <1>2, <2>1, <2>2 DEF OldCallsSettled
<1> QED
  BY <1>2, <1>3 DEF Final, NoWriteUnderWay

\* Every step from a final state that does not call enableTunnel ends in one.
LEMMA StepKeepsFinal ==
  ASSUME IInv, Final, [Next]_vars, off'
  PROVE  Final'
<1>1. CASE \/ UNCHANGED vars \/ CooldownOver \/ DownloadStalls \/ \E w \in Watchers : Wake(w) \/ Offline(w)
  <2>1. /\ off' = off /\ setting' = setting /\ phase' = phase /\ update' = update
        /\ cancelled' = cancelled /\ child' = child
    BY <1>1 DEF vars, stored, process, CooldownOver, DownloadStalls, Wake, Offline
  <2> QED
    BY <2>1 DEF Final, NoWriteUnderWay, Announcing, Alive
<1>2. CASE Disable
  BY <1>2, DisableIsFinal DEF Final, OldCallsSettled
<1>3. CASE UserEnables \/ \E w \in Watchers : Restart(w)
  BY <1>3 DEF UserEnables, Restart, Enable
<1>4. CASE FetchFails \/ \E p \in Processes : ExitsUnheard(p)
  <2>1. /\ off' = off /\ setting' = setting /\ update' = update /\ cancelled' = cancelled
        /\ \A c \in Calls : phase'[c] \in {phase[c], "failed"}
    BY <1>4 DEF FetchFails, ExitsUnheard, stored, IInv, TypeOK
  <2>2. ASSUME NEW c \in Calls, Alive(c)'
        PROVE  Alive(c)
    BY <1>4, <2>2 DEF FetchFails, ExitsUnheard, Alive, process, IInv, TypeOK, Processes
  <2> QED
    BY <2>1, <2>2 DEF Final, NoWriteUnderWay, Announcing
<1> QED
  BY <1>1, <1>2, <1>3, <1>4, CallKeepsFinal DEF Next

\* Where disableTunnel keeps its promise: a disable that meets no registration and no
\* URL update between their look at the token and their write, and no older call left
\* uncancelled, makes the tunnel final; and a final tunnel, in which the setting is
\* cleared, stays final through every step but a call of enableTunnel.
THEOREM DisableSticks ==
  Spec => [][/\ (Disable /\ NoWriteUnderWay /\ OldCallsSettled => Final')
             /\ (Final /\ off' => Final')]_vars
<1>1. IInv /\ [Next]_vars =>
        [/\ (Disable /\ NoWriteUnderWay /\ OldCallsSettled => Final')
         /\ (Final /\ off' => Final')]_vars
  BY DisableIsFinal, StepKeepsFinal
<1> QED
  BY InitIInv, Inductive, <1>1, PTL DEF Spec
=============================================================================
