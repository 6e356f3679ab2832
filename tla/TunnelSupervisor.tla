-------------------------- MODULE TunnelSupervisor --------------------------
(***************************************************************************)
(* The Cloudflare quick tunnel: the enable and disable calls of the         *)
(* dashboard and the safe restarts of the watchdog and of exit events share *)
(* one service record, one child process with its PID file, and one setting *)
(* (manager.js, cloudflared.js, initializeApp.ts).  Each enableTunnel call  *)
(* is numbered; the child it spawns and the token that cancels it have its  *)
(* number.  A cloudflared of an earlier run of the program may have outlived *)
(* it.  Reads and writes of the settings wait for nothing but the adapter,  *)
(* which is loaded: they are one step with the code around them.            *)
(***************************************************************************)
EXTENDS Integers, FiniteSets

CONSTANTS
  MaxCalls,      \* bound on the calls of enableTunnel
  MaxDisables,   \* bound on the calls of disableTunnel
  MaxUrlChanges, \* bound on the URLs cloudflared announces after its first
  MaxTroubles    \* bound on the crashes of cloudflared, its failed and stalled downloads
                 \* and its failed starts

ASSUME TunnelAssumption ==
  MaxCalls \in Nat \ {0} /\ {MaxDisables, MaxUrlChanges, MaxTroubles} \subseteq Nat

Calls    == 1 .. MaxCalls
None     == 0
Tokens   == 0 .. MaxCalls   \* svc starts with token 0
Orphan   == MaxCalls + 1    \* the cloudflared of an earlier run
Processes == Calls \cup {Orphan}
Watchers == {"watchdog", "event"}   \* what runs safeRestartTunnel

VARIABLES
  calls,       \* number of enableTunnel calls so far; the last one holds svc.cancelToken
  phase,       \* the await each call is at
  byUser,      \* the call came from the dashboard
  cancelled,   \* its token
  busy,        \* svc.spawnInProgress
  port,        \* svc.activeLocalPort is set
  child,       \* the process of each call, and the orphan
  tracked,     \* cloudflaredProcess
  pid,         \* the PID file
  intentional, \* intentionalKill
  handler,     \* unexpectedExitHandler is set
  heard,       \* the children whose output and exit are listened to
  stalled,     \* downloadPromise is that of a download that gets no more data
  update,      \* onUrlUpdate of each child waits for the worker
  saved,       \* tunnelUrl of state.json
  setting,     \* tunnelEnabled
  watch,       \* the await each safe restart is at
  cooling,     \* the last restart is less than RESTART_COOLDOWN_MS ago
  monitoring,  \* the watchdog and the network monitor run
  disables, urlChanges, troubles,
  off          \* the tunnel was disabled and enableTunnel has not been called since

service == <<busy, port>>
process == <<child, tracked, pid, intentional, handler, heard, stalled>>
stored  == <<saved, setting>>
bounds  == <<disables, urlChanges, troubles>>
vars == <<calls, phase, byUser, cancelled, service, process, update, stored, watch,
          cooling, monitoring, bounds, off>>

-----------------------------------------------------------------------------
Alive(p) == child[p] \in {"running", "killed"}

\* isCloudflaredRunning: the PID file names a process that has not exited.
Running == pid # None /\ Alive(pid)

\* The program starts with the tunnel disabled, or enabled by an earlier run: then it
\* monitors it and resumes it if nothing runs.  The PID file and the cloudflared of
\* that run may both be left, and the file may name one that is gone.
Init ==
  /\ calls = 0
  /\ phase = [c \in Calls |-> "unused"]
  /\ byUser = [c \in Calls |-> FALSE] /\ cancelled = [t \in Tokens |-> FALSE]
  /\ busy = FALSE /\ port = FALSE
  /\ \E left \in {"running", "gone"} :
       child = [p \in Processes |-> IF p = Orphan THEN left ELSE "none"]
  /\ pid \in {None, Orphan}
  /\ tracked = None /\ intentional = FALSE /\ handler = FALSE
  /\ heard = {} /\ stalled = FALSE
  /\ update = [c \in Calls |-> FALSE]
  /\ setting \in BOOLEAN
  /\ saved = setting /\ monitoring = setting
  /\ watch = [w \in Watchers |->
               IF w = "event" /\ setting /\ ~Running THEN "internet" ELSE "idle"]
  /\ cooling = FALSE
  /\ disables = 0 /\ urlChanges = 0 /\ troubles = 0
  /\ off = ~setting

-----------------------------------------------------------------------------
Ended == {"unused", "done", "failed"}

\* killCloudflared and clearPid: the tracked child, the process of the PID file and,
\* when the port is known, all that serve it get the signal.
Kill(known) ==
  /\ intentional' = TRUE
  /\ child' = [p \in Processes |->
       IF child[p] = "running" /\ (known \/ p \in {tracked, pid}) THEN "killed" ELSE child[p]]
  /\ tracked' = None /\ pid' = None
  /\ UNCHANGED <<heard, stalled>>

\* The finally of enableTunnel.
End(c, how) == phase' = [phase EXCEPT ![c] = how] /\ busy' = FALSE

\* enableTunnel up to its first await: a live process that has a URL is probed, any
\* other is killed before cloudflared is fetched.
Enable(c, user) ==
  /\ calls < MaxCalls /\ c = calls + 1
  /\ calls' = c
  /\ byUser' = [byUser EXCEPT ![c] = user]
  /\ busy' = TRUE /\ port' = TRUE /\ off' = FALSE
  /\ IF Running /\ saved
     THEN /\ phase' = [phase EXCEPT ![c] = "probing"]
          /\ UNCHANGED process
     ELSE /\ phase' = [phase EXCEPT ![c] = "fetching"]
          /\ Kill(TRUE) /\ handler' = TRUE
  /\ UNCHANGED <<cancelled, update, stored, cooling, bounds>>

\* POST /api/tunnel/enable
UserEnables ==
  /\ Enable(calls + 1, TRUE)
  /\ UNCHANGED <<watch, monitoring>>

\* What a call does when it succeeds: the dashboard has the monitors configured by
\* the setting, a restart starts its cooldown.
Succeed(c) ==
  /\ End(c, "done")
  /\ IF byUser[c] THEN monitoring' = setting /\ UNCHANGED cooling
                  ELSE cooling' = TRUE /\ UNCHANGED monitoring

\* Mutant: a running tunnel is reused without clearing spawnInProgress.
ReuseBusy(c) ==
  /\ phase[c] = "probing"
  /\ phase' = [phase EXCEPT ![c] = "done"]
  /\ UNCHANGED <<calls, byUser, cancelled, busy, port, process, update, stored, watch,
                 cooling, monitoring, bounds, off>>

\* Both URLs answer: the tunnel is reused.
Reuse(c) ==
  /\ phase[c] = "probing"
  /\ Succeed(c)
  /\ UNCHANGED <<calls, byUser, cancelled, port, process, update, stored, watch, bounds, off>>

\* One does not: the process is killed.
ReplaceStale(c) ==
  /\ phase[c] = "probing"
  /\ Kill(TRUE)
  /\ IF cancelled[c]
     THEN End(c, "failed") /\ UNCHANGED handler
     ELSE phase' = [phase EXCEPT ![c] = "fetching"] /\ handler' = TRUE /\ UNCHANGED busy
  /\ UNCHANGED <<calls, byUser, cancelled, port, update, stored, watch, cooling,
                 monitoring, bounds, off>>

\* ensureCloudflared is done: the child is spawned, its PID saved and its output and
\* exit listened to.
Spawn(c) ==
  /\ phase[c] = "fetching" /\ ~stalled
  /\ phase' = [phase EXCEPT ![c] = "spawning"]
  /\ child' = [child EXCEPT ![c] = "running"]
  /\ tracked' = c /\ pid' = c /\ heard' = heard \cup {c}
  /\ UNCHANGED <<calls, byUser, cancelled, service, intentional, handler, stalled, update, stored,
                 watch, cooling, monitoring, bounds, off>>

\* The child cannot be spawned, or savePid throws when it has been: the call fails with
\* the child tracked and nothing listened to.  The PID file is as it was, or empty.
SpawnFails(c) ==
  /\ phase[c] = "fetching" /\ ~stalled /\ troubles < MaxTroubles
  /\ troubles' = troubles + 1
  /\ End(c, "failed")
  /\ \E started \in {"running", "gone"} : child' = [child EXCEPT ![c] = started]
  /\ tracked' = c /\ pid' \in {pid, None}
  /\ UNCHANGED <<calls, byUser, cancelled, port, intentional, handler, heard, stalled, update, stored,
                 watch, cooling, monitoring, disables, urlChanges, off>>

\* cloudflared announces its URL.
Announce(c) ==
  /\ phase[c] = "spawning" /\ Alive(c)
  /\ IF cancelled[c] THEN End(c, "failed")
                     ELSE phase' = [phase EXCEPT ![c] = "registering"] /\ UNCHANGED busy
  /\ UNCHANGED <<calls, byUser, cancelled, port, process, update, stored, watch, cooling,
                 monitoring, bounds, off>>

\* registerTunnelUrl is done: the URL and the setting are saved.
Register(c) ==
  /\ phase[c] = "registering"
  /\ phase' = [phase EXCEPT ![c] = "verifying"]
  /\ saved' = TRUE /\ setting' = TRUE
  /\ UNCHANGED <<calls, byUser, cancelled, service, process, update, watch, cooling, monitoring,
                 bounds, off>>

\* The public URL answers, also when the token was cancelled after its last check.
Verify(c) ==
  /\ phase[c] = "verifying"
  /\ Succeed(c)
  /\ UNCHANGED <<calls, byUser, cancelled, port, process, update, stored, watch, bounds, off>>

\* Mutants: a failure leaves spawnInProgress set; it is answered by another spawn.
FailBusy(c) ==
  /\ phase[c] \in {"spawning", "registering", "verifying"}
  /\ phase' = [phase EXCEPT ![c] = "failed"]
  /\ UNCHANGED <<calls, byUser, cancelled, service, process, update, stored, watch, cooling,
                 monitoring, bounds, off>>
FailRespawning(c) ==
  /\ phase[c] \in {"spawning", "registering", "verifying"}
  /\ phase' = [phase EXCEPT ![c] = "fetching"]
  /\ UNCHANGED <<calls, byUser, cancelled, service, process, update, stored, watch, cooling,
                 monitoring, bounds, off>>

\* The call fails: no URL within 90 s, no answer of the worker, no healthy URL, or the
\* token is cancelled.  The child is left as it is.
Fail(c) ==
  /\ phase[c] \in {"spawning", "registering", "verifying"}
  /\ End(c, "failed")
  /\ UNCHANGED <<calls, byUser, cancelled, port, process, update, stored, watch, cooling,
                 monitoring, bounds, off>>

\* cloudflared cannot be fetched: all calls share the download.
FetchFails ==
  /\ \E c \in Calls : phase[c] = "fetching"
  /\ ~stalled /\ troubles < MaxTroubles
  /\ troubles' = troubles + 1
  /\ phase' = [c \in Calls |-> IF phase[c] = "fetching" THEN "failed" ELSE phase[c]]
  /\ busy' = FALSE
  /\ UNCHANGED <<calls, byUser, cancelled, port, process, update, stored, watch, cooling,
                 monitoring, disables, urlChanges, off>>

\* The download stalls, or its body ends early: downloadFile has no timeout and listens
\* to no error of the body, so that the promise that all calls share never settles.
DownloadStalls ==
  /\ \E c \in Calls : phase[c] = "fetching"
  /\ ~stalled /\ troubles < MaxTroubles
  /\ troubles' = troubles + 1
  /\ stalled' = TRUE
  /\ UNCHANGED <<calls, phase, byUser, cancelled, service, child, tracked, pid, intentional, handler,
                 heard, update, stored, watch, cooling, monitoring, disables, urlChanges, off>>

-----------------------------------------------------------------------------
(* The child *)

\* Mutant: an exit clears the PID file whoever it names.
ClearPidOfAnyone(c) == pid' = None

\* clearPid(child.pid)
ClearPid(c) == pid' = IF pid = c THEN None ELSE pid

\* The guards of safeRestartTunnel: enabled, not disabled by hand, no call under way,
\* no process, and the cooldown for the watchdog.
MayRestart(w) ==
  /\ setting /\ ~cancelled[calls] /\ ~busy /\ ~Running
  /\ w = "watchdog" => ~cooling

\* The exit event: a deliberate kill, or what the flag takes for one, is silent; an exit
\* before the first URL fails the call; any other is an event to restart on.
ExitEvent(c) ==
  /\ child' = [child EXCEPT ![c] = "gone"]
  /\ tracked' = IF tracked = c THEN None ELSE tracked
  /\ ClearPid(c)
  /\ intentional' = FALSE /\ UNCHANGED <<heard, stalled>>
  /\ IF phase[c] = "spawning" THEN End(c, "failed") ELSE UNCHANGED <<phase, busy>>
  /\ UNCHANGED <<calls, byUser, cancelled, port, handler, update, stored, cooling, monitoring,
                 disables, urlChanges, off>>
  /\ IF ~intentional /\ phase[c] # "spawning" /\ handler /\ watch["event"] = "idle"
     THEN watch' = [watch EXCEPT !["event"] = IF MayRestart("event")' THEN "internet" ELSE "idle"]
     ELSE UNCHANGED watch

\* A child that got the signal exits.
KilledExits(c) ==
  /\ c \in heard /\ child[c] = "killed"
  /\ ExitEvent(c)
  /\ UNCHANGED troubles

\* cloudflared crashes.
Crash(c) ==
  /\ c \in heard /\ child[c] = "running" /\ troubles < MaxTroubles
  /\ troubles' = troubles + 1
  /\ ExitEvent(c)

\* The orphan exits, or a child whose start failed: nobody is told.
ExitsUnheard(p) ==
  /\ p \notin heard /\ Alive(p)
  /\ child[p] = "running" => troubles < MaxTroubles
  /\ troubles' = IF child[p] = "running" THEN troubles + 1 ELSE troubles
  /\ child' = [child EXCEPT ![p] = "gone"]
  /\ UNCHANGED <<calls, phase, byUser, cancelled, service, tracked, pid, intentional, handler, heard,
                 stalled, update, stored, watch, cooling, monitoring, disables, urlChanges, off>>

\* cloudflared announces another URL: onUrlUpdate registers it unless the token is
\* cancelled by now.
ChangeUrl(c) ==
  /\ c \in heard /\ Alive(c) /\ phase[c] # "spawning"
  /\ urlChanges < MaxUrlChanges /\ ~update[c] /\ ~cancelled[c]
  /\ urlChanges' = urlChanges + 1
  /\ update' = [update EXCEPT ![c] = TRUE]
  /\ UNCHANGED <<calls, phase, byUser, cancelled, service, process, stored, watch, cooling,
                 monitoring, disables, troubles, off>>

\* The worker has it: the URL and the setting are saved.
SaveUrl(c) ==
  /\ update[c]
  /\ update' = [update EXCEPT ![c] = FALSE]
  /\ saved' = TRUE /\ setting' = TRUE
  /\ UNCHANGED <<calls, phase, byUser, cancelled, service, process, watch, cooling, monitoring,
                 bounds, off>>

-----------------------------------------------------------------------------
(* disableTunnel *)

\* The current token is cancelled, what runs is killed, URL and setting are cleared, the
\* flags are force-cleared and the monitors stop.
Disable ==
  /\ disables < MaxDisables
  /\ disables' = disables + 1
  /\ cancelled' = [cancelled EXCEPT ![calls] = TRUE]
  /\ handler' = FALSE
  /\ Kill(port)
  /\ saved' = FALSE /\ setting' = FALSE
  /\ busy' = FALSE /\ port' = FALSE /\ monitoring' = FALSE
  /\ off' = TRUE
  /\ UNCHANGED <<calls, phase, byUser, update, watch, cooling, urlChanges, troubles>>

-----------------------------------------------------------------------------
(* safeRestartTunnel *)

\* A tick of the watchdog, a change of the network: the guards are checked, then the
\* internet is.
Wake(w) ==
  /\ monitoring /\ watch[w] = "idle" /\ MayRestart(w)
  /\ watch' = [watch EXCEPT ![w] = "internet"]
  /\ UNCHANGED <<calls, phase, byUser, cancelled, service, process, update, stored, cooling,
                 monitoring, bounds, off>>

Offline(w) ==
  /\ watch[w] = "internet"
  /\ watch' = [watch EXCEPT ![w] = "idle"]
  /\ UNCHANGED <<calls, phase, byUser, cancelled, service, process, update, stored, cooling,
                 monitoring, bounds, off>>

\* The internet is reachable: enableTunnel is called on the guards checked before.
Restart(w) ==
  /\ watch[w] = "internet"
  /\ watch' = [watch EXCEPT ![w] = "idle"]
  /\ Enable(calls + 1, FALSE)
  /\ UNCHANGED monitoring

CooldownOver ==
  /\ cooling
  /\ cooling' = FALSE
  /\ UNCHANGED <<calls, phase, byUser, cancelled, service, process, update, stored, watch,
                 monitoring, bounds, off>>

-----------------------------------------------------------------------------
\* The steps a call is bound to take in the end.
Go(c) ==
  \/ Reuse(c) \/ ReplaceStale(c) \/ Spawn(c) \/ Register(c) \/ Verify(c) \/ Fail(c)

Next ==
  \/ UserEnables \/ Disable \/ CooldownOver \/ FetchFails \/ DownloadStalls
  \/ \E c \in Calls :
       \/ Go(c) \/ Announce(c) \/ SpawnFails(c)
       \/ KilledExits(c) \/ Crash(c) \/ ChangeUrl(c) \/ SaveUrl(c)
  \/ \E p \in Processes : ExitsUnheard(p)
  \/ \E w \in Watchers : Wake(w) \/ Offline(w) \/ Restart(w)

\* Calls end unless they wait for a stalled download, the watchdog ticks, and the
\* internet is there when it is tried for ever.
Fairness ==
  /\ \A c \in Calls : WF_vars(Go(c))
  /\ WF_vars(CooldownOver) /\ WF_vars(Wake("watchdog")) /\ SF_vars(Restart("watchdog"))

Spec == Init /\ [][Next]_vars /\ Fairness

-----------------------------------------------------------------------------
(* Properties *)

\* Every variable stays in its type; a call that has not spawned yet has no child.
TypeOK ==
  /\ calls \in 0 .. MaxCalls
  /\ phase \in [Calls -> Ended \cup
       {"probing", "fetching", "spawning", "registering", "verifying"}]
  /\ byUser \in [Calls -> BOOLEAN] /\ cancelled \in [Tokens -> BOOLEAN]
  /\ busy \in BOOLEAN /\ port \in BOOLEAN
  /\ child \in [Processes -> {"none", "running", "killed", "gone"}]
  /\ \A c \in Calls : phase[c] \in {"unused", "probing", "fetching"} => child[c] = "none"
  /\ tracked \in 0 .. MaxCalls /\ pid \in 0 .. MaxCalls + 1
  /\ intentional \in BOOLEAN /\ handler \in BOOLEAN
  /\ heard \subseteq Calls /\ stalled \in BOOLEAN
  /\ update \in [Calls -> BOOLEAN]
  /\ saved \in BOOLEAN /\ setting \in BOOLEAN
  /\ watch \in [Watchers -> {"idle", "internet"}]
  /\ cooling \in BOOLEAN /\ monitoring \in BOOLEAN
  /\ disables \in 0 .. MaxDisables /\ urlChanges \in 0 .. MaxUrlChanges
  /\ troubles \in 0 .. MaxTroubles /\ off \in BOOLEAN

\* "does not let an old child clear its successor PID": what the PID file names is
\* dropped from it only when it is killed or has exited, or when another start writes the
\* file, whatever children exit late; and a child of this run is named only while it
\* runs, so that isCloudflaredRunning errs about the process of an earlier run alone.
PidFileTruthful ==
  /\ [](pid \in Calls => child[pid] = "running")
  /\ [][\A p \in Processes :
          pid = p /\ pid' # p =>
            \/ child'[p] \in {"killed", "gone"}
            \/ \E c \in Calls : phase[c] = "fetching" /\ phase'[c] # "fetching"]_vars

\* spawnInProgress, which keeps the watchdog away, is never left set by calls that
\* have ended, however they overlapped, failed or were cancelled.
SpawnFlagNotStuck == busy => \E c \in Calls : phase[c] \notin Ended

\* "Watchdog (initializeApp) handles recovery": a monitored tunnel that is enabled and
\* has lost its process gets one again or is restarted, unless it is disabled first; no
\* failed, cancelled or overlapping call, failed start or stale PID file makes the
\* watchdog give up.  Only a download that never settles does.
WatchdogRecovers ==
  \A n \in 0 .. MaxCalls - 1 :
    (setting /\ monitoring /\ ~Running /\ calls = n) ~>
      (Running \/ ~setting \/ ~monitoring \/ cancelled[calls] \/ calls > n \/ stalled)

\* "Abort any in-flight enable so it cannot resurrect state after we clear it": once
\* disableTunnel is done the setting stays cleared until enableTunnel is called again.
DisabledStaysDisabled == off => ~setting
=============================================================================
