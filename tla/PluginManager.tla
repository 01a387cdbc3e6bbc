---------------------------- MODULE PluginManager ----------------------------
(***************************************************************************)
(* Device rows are saved by concurrent requests; each save reloads, under  *)
(* Application._plugin_reload_lock, the plugins that its Device concerns.  *)
(* The reload reads the whole inventory, so it may already see the rows of *)
(* saves that still wait for the lock; it stops and restarts plugins with  *)
(* awaits between, where its request can be cancelled.                     *)
(***************************************************************************)
EXTENDS Naturals

CONSTANTS
  Plugins, Devices,
  Uses,        \* per plugin: the Devices that carry its configuration
  MaxVersion,  \* bounds how often a row changes
  MaxCancels   \* bounds the cancelled requests

VARIABLES
  rows,        \* the version of each Device's row, 0 when there is none
  waiting,     \* Devices whose save waits for the reload lock
  holder,      \* the Device whose reload holds it, or "boot", or "none"
  step,        \* of that reload
  loaded,      \* the rows it has read
  changed, toStop, toStart,
  cancelled,   \* a cancellation caught while it stops plugins
  registered, started,
  running,     \* the rows a running plugin was built from; NotRunning when it does not run
  state,       \* of the PluginStatus
  snapshots,   \* _inventory_snapshots
  pending,     \* _pending_reconcile_ids
  dropped,     \* Devices whose last change no reload has looked at, and none will
  versions, cancels

inventory == <<rows, versions>>
reload    == <<holder, step, loaded, changed, toStop, toStart, cancelled>>
managed   == <<registered, started, running, state, snapshots, pending>>
pluginVars == <<inventory, waiting, reload, managed, dropped, cancels>>

NotRunning == <<>>

\* The rows of the Devices a plugin is configured for.
Selected(p, inv) == [d \in Uses[p] |-> inv[d]]

Configured(inv) == {p \in Plugins : \E d \in Uses[p] : inv[d] > 0}

\* PluginManager.configure, and the first step of start.
Init ==
  /\ rows = [d \in Devices |-> 1] /\ versions = 1
  /\ waiting = {} /\ dropped = {} /\ cancels = 0
  /\ holder = "boot" /\ step = "starting" /\ loaded = rows
  /\ changed = Configured(rows) /\ toStop = {} /\ toStart = Configured(rows) /\ cancelled = FALSE
  /\ registered = Configured(rows) /\ started = TRUE /\ pending = {}
  /\ running = [p \in Plugins |-> NotRunning]
  /\ state = [p \in Plugins |-> IF p \in registered THEN "validating" ELSE "none"]
  /\ snapshots = [p \in Plugins |-> Selected(p, rows)]

-----------------------------------------------------------------------------
\* InventoryService.save_device and delete_device; the API serves requests after start.
Save(d) ==
  /\ holder # "boot" /\ started /\ versions < MaxVersion
  /\ \E version \in {0, versions + 1} : version # rows[d] /\ rows' = [rows EXCEPT ![d] = version]
  /\ versions' = versions + 1
  /\ waiting' = waiting \union {d}
  /\ UNCHANGED <<reload, managed, dropped, cancels>>

Cancelling == cancels < MaxCancels /\ cancels' = cancels + 1

\* The request goes away before its reload has read the inventory.
Abandon(d) ==
  /\ Cancelling
  /\ \/ /\ d \in waiting /\ waiting' = waiting \ {d} /\ UNCHANGED <<holder, step>>
     \/ /\ holder = d /\ step = "loading" /\ holder' = "none" /\ step' = "idle" /\ UNCHANGED waiting
  /\ dropped' = IF d \in waiting' THEN dropped ELSE dropped \union {d}
  /\ UNCHANGED <<inventory, loaded, changed, toStop, toStart, cancelled, managed>>

Acquire(d) ==
  /\ holder = "none" /\ started /\ d \in waiting
  /\ holder' = d /\ step' = "loading" /\ waiting' = waiting \ {d}
  /\ UNCHANGED <<inventory, loaded, changed, toStop, toStart, cancelled, managed, dropped, cancels>>

\* _inventory_changed with changed_device_id.
DeviceChanged(p) == holder \in Uses[p] /\ snapshots[p][holder] # rows[holder]

Changed(new) ==
  {p \in registered \union new : p \notin registered \/ p \notin new \/ DeviceChanged(p)}

\* reconcile, to its first await.
Load ==
  /\ holder \in Devices /\ step = "loading"
  /\ LET new == Configured(rows)
         due == (pending \union Changed(new)) \intersect new IN
     /\ loaded' = rows
     /\ pending' = due
     /\ changed' = Changed(new) \union due
     /\ toStop' = {p \in changed' \intersect registered : running[p] # NotRunning}
     /\ running' = [p \in Plugins |-> IF p \in toStop' THEN NotRunning ELSE running[p]]
  /\ step' = "stopping" /\ cancelled' = FALSE
  /\ dropped' = dropped \ {holder}
  /\ UNCHANGED <<inventory, waiting, holder, toStart, registered, started, state, snapshots, cancels>>

\* A stop may fail or time out: the reload goes on; a cancellation is kept for later.
StopPlugin(p) ==
  /\ step = "stopping" /\ p \in toStop
  /\ toStop' = toStop \ {p}
  /\ \/ UNCHANGED <<cancelled, cancels>>
     \/ Cancelling /\ cancelled' = TRUE
  /\ UNCHANGED <<inventory, waiting, holder, step, loaded, changed, toStart, managed, dropped>>

FaultyMerged(p) == Selected(p, loaded)

\* _merge_inventory_device advances only the row the reload is about.
Merged(p) == [d \in Uses[p] |-> IF d = holder THEN loaded[d] ELSE snapshots[p][d]]

Stopped ==
  /\ step = "stopping" /\ toStop = {}
  /\ registered' = Configured(loaded)
  /\ snapshots' = [p \in Plugins |-> IF p \in changed THEN Selected(p, loaded) ELSE Merged(p)]
  /\ state' = [p \in Plugins |->
       CASE p \notin registered'             -> "none"
         [] p \in changed /\ cancelled       -> "failed"
         [] p \in changed /\ ~cancelled      -> "validating"
         [] OTHER                            -> state[p]]
  /\ IF cancelled THEN step' = "idle" /\ holder' = "none" /\ UNCHANGED toStart
                  ELSE step' = "starting" /\ toStart' = changed \intersect registered' /\ UNCHANGED holder
  /\ UNCHANGED <<inventory, waiting, loaded, changed, toStop, cancelled, started, running, pending,
                 dropped, cancels>>

\* _start_registration: a plugin that fails, times out or is misconfigured is stopped again.
StartPlugin(p) ==
  /\ step = "starting" /\ p \in toStart
  /\ toStart' = toStart \ {p} /\ pending' = pending \ {p}
  /\ \/ /\ running' = [running EXCEPT ![p] = Selected(p, loaded)]
        /\ state' = [state EXCEPT ![p] = "ready"]
     \/ /\ state' = [state EXCEPT ![p] = "failed"]
        /\ UNCHANGED running
  /\ UNCHANGED <<inventory, waiting, holder, step, loaded, changed, toStop, cancelled, registered,
                 started, snapshots, dropped, cancels>>

\* A cancelled reload leaves the rest to the next one; a cancelled startup stops everything.
CancelStart(p) ==
  /\ step = "starting" /\ p \in toStart /\ Cancelling
  /\ state' = [state EXCEPT ![p] = "failed"]
  /\ step' = "idle" /\ holder' = "none"
  /\ started' = (holder # "boot")
  /\ running' = IF holder = "boot" THEN [q \in Plugins |-> NotRunning] ELSE running
  /\ UNCHANGED <<inventory, waiting, loaded, changed, toStop, toStart, cancelled, registered,
                 snapshots, pending, dropped>>

Started ==
  /\ step = "starting" /\ toStart = {}
  /\ step' = "idle" /\ holder' = "none"
  /\ UNCHANGED <<inventory, waiting, loaded, changed, toStop, toStart, cancelled, managed, dropped,
                 cancels>>

\* The server has finished its requests before the plugins are stopped.
Stop ==
  /\ started /\ holder = "none" /\ waiting = {}
  /\ started' = FALSE /\ running' = [p \in Plugins |-> NotRunning]
  /\ UNCHANGED <<inventory, waiting, reload, registered, state, snapshots, pending, dropped, cancels>>

Next ==
  \/ \E d \in Devices : Save(d) \/ Abandon(d) \/ Acquire(d)
  \/ \E p \in Plugins : StopPlugin(p) \/ StartPlugin(p) \/ CancelStart(p)
  \/ Load \/ Stopped \/ Started \/ Stop

Spec == Init /\ [][Next]_pluginVars

-----------------------------------------------------------------------------
\* Once no save is on its way, a plugin runs exactly when it is configured, and
\* with the rows of now: not with those a reload of another Device had read,
\* unless its last reload failed or was cut short, which its status and the
\* pending set remember, or a request was cancelled before it looked (reconcile).
PluginsFollowInventory ==
  started /\ holder = "none" /\ waiting = {} =>
    \A p \in Plugins : Uses[p] \intersect dropped = {} =>
      \/ p \in Configured(rows) /\ running[p] = Selected(p, rows)
      \/ p \in Configured(rows) /\ (p \in pending \/ state[p] = "failed") /\ running[p] = NotRunning
      \/ p \notin Configured(rows) /\ running[p] = NotRunning
=============================================================================
