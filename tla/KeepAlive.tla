----------------------------- MODULE KeepAlive -----------------------------
(***************************************************************************)
(* The keepAlive watcher on top of InstanceLifecycle: it polls an instance  *)
(* of an environment with keepAlive on, and restarts it through the same    *)
(* InstanceService::start a client uses.  Each monitor owns a task slot of  *)
(* the lifecycle, in which its restart runs.                                *)
(*                                                                          *)
(* Code: application/keep_alive.rs; application/environment_service.rs for  *)
(* the switch, application/instance_service.rs for the cancellations,       *)
(* main.rs for the scan at start-up.                                        *)
(***************************************************************************)
EXTENDS InstanceLifecycle, Sequences

CONSTANTS
    Monitors,    \* the task slots that monitors run in
    Entries,     \* registrations (EntryInner)
    NoEntry,     \* the instance is not in the watcher's map
    Limit,       \* MAX_RESTARTS_PER_WINDOW
    MaxUpdates   \* bound: environment updates

Clients == Tasks \ Monitors

ASSUME KeepAliveAssumption ==
    /\ Monitors \subseteq Tasks
    /\ NoEntry \notin Entries
    /\ Limit \in Nat \ {0}
    /\ MaxUpdates \in Nat

VARIABLES
    keep,    \* the environment's keep_alive column
    read,    \* keep_alive as the create under way has read it
    entry,   \* the instance's entry in the watcher's map
    window,  \* restart_at: per entry the crashes of the last 60 s, oldest first
    mon,     \* the monitor tasks
    updates  \* environment updates still to come

kvars == <<keep, read, entry, window, mon, updates>>
allVars == <<vars, kvars>>

\* gone: not running; sleep: POLL_INTERVAL; confirm: the probe failed and CDP is
\* asked; starting: inside service.start.
MonitorPc == {"gone", "sleep", "confirm", "starting"}
Gone == [pc |-> "gone", entry |-> NoEntry, pid |-> NoPid]

KTypeOK ==
    /\ TypeOK
    /\ {keep, read} \subseteq BOOLEAN
    /\ entry \in Entries \cup {NoEntry}
    /\ window \in [Entries -> Seq({"restart", "fused"})]
    /\ mon \in [Monitors -> [pc : MonitorPc, entry : Entries \cup {NoEntry},
                             pid : Pids \cup {NoPid}]]
    /\ updates \in 0..MaxUpdates

\* At most one switch position per history: with keepAlive on, a running
\* instance was registered when it was created or switched on.
KInit ==
    /\ Init
    /\ keep \in BOOLEAN
    /\ read = keep
    /\ updates = MaxUpdates
    /\ window = [e \in Entries |-> <<>>]
    /\ \/ /\ keep /\ row.status = "running"
          /\ \E e \in Entries, m \in Monitors :
             /\ entry = e
             /\ mon = [n \in Monitors |->
                         IF n = m THEN [Gone EXCEPT !.pc = "sleep", !.entry = e] ELSE Gone]
       \/ /\ ~(keep /\ row.status = "running")
          /\ entry = NoEntry
          /\ mon = [n \in Monitors |-> Gone]

-----------------------------------------------------------------------------
(* The map of registrations.                                                *)

\* cancel removes the entry and raises its flag under one lock, and an entry
\* never comes back: a monitor is cancelled iff its entry is not in the map.
Cancelled(m) == entry # mon[m].entry

\* seeded fault: registering again starts the list of crashes anew.
Register_Anew ==
    \E m \in Monitors :
        /\ mon[m].pc = "gone"
        /\ IF entry # NoEntry
           THEN /\ window' = [window EXCEPT ![entry] = <<>>]
                /\ UNCHANGED entry
           ELSE \E e \in Entries :
                /\ \A n \in Monitors : mon[n].entry # e
                /\ entry' = e
                /\ window' = [window EXCEPT ![e] = <<>>]
        /\ mon' = [mon EXCEPT ![m] = [Gone EXCEPT !.pc = "sleep", !.entry = entry']]
\* register: the entry is made once, but a monitor is spawned every time.
Register ==
    \E m \in Monitors :
        /\ mon[m].pc = "gone"
        /\ IF entry # NoEntry
           THEN UNCHANGED <<entry, window>>
           ELSE \E e \in Entries :
                /\ \A n \in Monitors : mon[n].entry # e
                /\ entry' = e
                /\ window' = [window EXCEPT ![e] = <<>>]
        /\ mon' = [mon EXCEPT ![m] = [Gone EXCEPT !.pc = "sleep", !.entry = entry']]

Cancel == entry' = NoEntry /\ UNCHANGED <<window, mon>>

-----------------------------------------------------------------------------
(* The lifecycle's steps that touch the watcher.                            *)

\* create registers at its end when the environment it read at its beginning
\* says so.
CreateDone(t) ==
    /\ CleanExport(t)
    /\ IF task[t].op = "create" /\ read /\ Present
       THEN Register ELSE UNCHANGED <<entry, window, mon>>
    /\ UNCHANGED <<keep, read, updates>>

\* seeded fault: an environment stop leaves the monitor running.
StopAllCancels_Not(t) ==
    /\ StopAllDecide(t)
    /\ UNCHANGED kvars
\* stop_all_for_env and delete cancel first; stop and restart never do.
StopAllCancels(t) ==
    /\ StopAllDecide(t)
    /\ IF AliveStatus(task[t].ins.status) THEN Cancel ELSE UNCHANGED <<entry, window, mon>>
    /\ UNCHANGED <<keep, read, updates>>

DeleteCancels(t) ==
    /\ DeleteDecide(t)
    /\ IF ~AliveStatus(task[t].ins.status) THEN Cancel ELSE UNCHANGED <<entry, window, mon>>
    /\ UNCHANGED <<keep, read, updates>>

\* EnvironmentService::update - every update, not only one of the switch,
\* registers or cancels the instances whose row is alive.
EnvUpdate ==
    /\ up /\ updates > 0
    /\ updates' = updates - 1
    /\ keep' \in BOOLEAN
    /\ \/ ~AliveStatus(row.status) /\ UNCHANGED <<entry, window, mon>>
       \/ AliveStatus(row.status) /\ keep' /\ Register
       \/ AliveStatus(row.status) /\ ~keep' /\ Cancel
    /\ UNCHANGED <<vars, read>>

\* main.rs: scan_register follows reconcile_all.
ScanRegister(t) ==
    /\ task[t].op = "boot" /\ GetDone(t)
    /\ IF keep /\ AliveStatus(row.status)
       THEN Register ELSE UNCHANGED <<entry, window, mon>>
    /\ UNCHANGED <<keep, read, updates>>

AppCrashAll ==
    /\ AppCrash
    /\ entry' = NoEntry
    /\ window' = [e \in Entries |-> <<>>]
    /\ mon' = [m \in Monitors |-> Gone]
    /\ UNCHANGED <<keep, read, updates>>

-----------------------------------------------------------------------------
(* A monitor.                                                               *)

MonGoto(m, pc) == mon' = [mon EXCEPT ![m].pc = pc]
Leave(m) == mon' = [mon EXCEPT ![m] = Gone]

\* The poll: look at the flag, the row and the process.
Poll(m) ==
    /\ mon[m].pc = "sleep"
    /\ \/ /\ Cancelled(m) \/ ~Present \/ ~AliveStatus(row.status)
          /\ Leave(m)
       \/ /\ ~Cancelled(m)
          /\ \/ row.status = "starting"
             \/ row.status = "running" /\ row.pid = NoPid
             \/ row.status = "running" /\ TRUE \in ProbeResults(row.pid)
          /\ UNCHANGED mon
       \/ /\ ~Cancelled(m)
          /\ row.status = "running" /\ row.pid # NoPid
          /\ FALSE \in ProbeResults(row.pid)
          /\ mon' = [mon EXCEPT ![m].pc = "confirm", ![m].pid = row.pid]
    /\ UNCHANGED <<vars, keep, read, entry, window, updates>>

\* seeded fault: one crash too many.
OverLimit_OffByOne(e) == Len(window[e]) + 1 > Limit
\* over_limit, computed before this crash is pushed.
OverLimit(e) == Len(window[e]) + 1 >= Limit

\* service.start reads the row just written; a row deleted meanwhile fails it.
BeginRestart(m, ins) ==
    IF Present
    THEN /\ MonGoto(m, "starting")
         /\ task' = [task EXCEPT ![m] =
                       [IdleTask EXCEPT !.op = "start", !.pc = "checked", !.ins = ins]]
    ELSE Leave(m) /\ UNCHANGED task

\* Nobody answers on the port: write stopped, whatever the row is now, count the
\* crash, and either trip the fuse (error, leave) or call service.start.
Confirmed(m) ==
    /\ mon[m].pc = "confirm"
    /\ ~CdpReachable
    /\ ~Cancelled(m)
    /\ LET e == mon[m].entry IN
       IF OverLimit(e)
       THEN /\ row' = SetStatus("error")
            /\ window' = [window EXCEPT ![e] = Append(@, "fused")]
            /\ Leave(m)
            /\ UNCHANGED task
       ELSE /\ row' = SetStatus("stopped")
            /\ window' = [window EXCEPT ![e] = Append(@, "restart")]
            /\ BeginRestart(m, row')
    /\ UNCHANGED <<proc, watch, export, promotes, emptyTab, calls, crashes, up,
                   keep, read, entry, updates>>

\* The browser answers after all, or the monitor was cancelled meanwhile.
NotConfirmed(m) ==
    /\ mon[m].pc = "confirm"
    /\ \/ CdpReachable /\ MonGoto(m, "sleep")
       \/ ~CdpReachable /\ Cancelled(m) /\ Leave(m)
    /\ UNCHANGED <<vars, keep, read, entry, window, updates>>

\* service.start runs; Ok only if it gets to the end, any error ends the monitor.
Restarting(m) ==
    /\ mon[m].pc = "starting"
    /\ \/ CleanExport(m) /\ MonGoto(m, "sleep")
       \/ /\ task[m].pc # "clean" /\ TaskStep(m)
          /\ IF task'[m].pc = "idle" THEN Leave(m) ELSE UNCHANGED mon
    /\ UNCHANGED <<keep, read, entry, window, updates>>

\* The oldest crash leaves the 60 s window.
WindowSlides ==
    /\ \E e \in Entries :
          /\ window[e] # <<>>
          /\ window' = [window EXCEPT ![e] = Tail(@)]
    /\ UNCHANGED <<vars, keep, read, entry, mon, updates>>

-----------------------------------------------------------------------------
\* The steps of a client's task that leave the watcher alone.
PlainStep(t) ==
    \/ ReconcileStep(t) \/ StartDecide(t) \/ StopDecide(t)
    \/ task[t].op # "boot" /\ GetDone(t)
    \/ task[t].pc # "clean" /\ LaunchStep(t)
    \/ StopStep(t) \/ DeleteRow(t)

ClientStep(t) ==
    \/ PlainStep(t) /\ UNCHANGED kvars
    \/ CreateDone(t) \/ StopAllCancels(t) \/ DeleteCancels(t) \/ ScanRegister(t)

MonitorStep(m) == Poll(m) \/ Confirmed(m) \/ NotConfirmed(m) \/ Restarting(m)

LifecycleAlone ==
    \/ \E t \in Clients, op \in Ops : Call(t, op)
    \/ \E t \in Clients : Read(t) \/ AppStart(t)
    \/ \E p \in Pids : WatcherStep(p) \/ ChromeStep(p)
    \/ Age \/ Ripen

KNext ==
    \/ LifecycleAlone /\ UNCHANGED kvars
    \/ \E t \in Clients : ClientStep(t)
    \/ \E m \in Monitors : MonitorStep(m)
    \/ EnvUpdate \/ AppCrashAll \/ WindowSlides

KSpec == KInit /\ [][KNext]_allVars

\* Monitors are tokio tasks that wake every 3 s; the rest as in the lifecycle.
KFairness ==
    /\ \A t \in Clients : WF_allVars(ClientStep(t))
    /\ \A t \in Clients : WF_allVars(Read(t) /\ UNCHANGED kvars)
    /\ \A m \in Monitors : WF_allVars(MonitorStep(m))
    /\ \A p \in Pids : WF_allVars(WatcherStep(p) /\ UNCHANGED kvars)

KFairSpec == KSpec /\ KFairness

-----------------------------------------------------------------------------
(* Properties.                                                              *)

\* Within any 60 s a registration restarts the instance fewer than Limit times,
\* however many monitors run for it (no restart storm).
FuseBound ==
    \A e \in Entries :
        Cardinality({i \in 1..Len(window[e]) : window[e][i] = "restart"}) < Limit

\* No monitor begins a restart while a user's stop is past its kill: what the
\* user stops is not taken for a crash.  (An update of the environment may
\* register a monitor behind the cancellation, so no update has come yet.)
UserStopIsNoCrash ==
    [][\A m \in Monitors :
          updates = MaxUpdates /\ mon[m].pc = "confirm" /\ mon'[m].pc = "starting"
          => \A t \in Clients : ~(task[t].pc \in {"cas", "promote"} /\ task[t].by = "call")]_allVars

\* A monitored browser that dies is replaced, unless the fuse trips, a restart
\* fails, or the user stops, deletes or unregisters it.
Monitored == entry # NoEntry /\ row.status = "running"
CrashIsRepaired ==
    (Monitored /\ ~CdpReachable /\ calls = 0 /\ updates = 0)
        ~> (CdpReachable \/ row.status \in {"starting", "error", "absent"})
=============================================================================
