------------------------- MODULE PluginManagerProofs -------------------------
(***************************************************************************)
(* Plugins follow the inventory, for any plugins and Devices, however they *)
(* share them, and for any number of saves and cancelled requests.         *)
(***************************************************************************)
EXTENDS PluginManager, TLAPS

\* Plugins are configured by Devices, and no Device has a name that stands for none.
Named == Uses \in [Plugins -> SUBSET Devices] /\ {"boot", "none"} \intersect Devices = {}

Steps == {"idle", "loading", "stopping", "starting"}

TypeInv ==
  /\ Named
  /\ rows \in [Devices -> Nat] /\ loaded \in [Devices -> Nat] /\ versions \in Nat
  /\ waiting \subseteq Devices /\ dropped \subseteq Devices
  /\ holder \in Devices \union {"boot", "none"} /\ step \in Steps
  /\ changed \subseteq Plugins /\ toStop \subseteq Plugins /\ toStart \subseteq Plugins
  /\ registered \subseteq Plugins /\ pending \subseteq Plugins
  /\ cancelled \in BOOLEAN /\ started \in BOOLEAN
  /\ running = [p \in Plugins |-> running[p]]
  /\ state \in [Plugins -> {"none", "validating", "ready", "failed"}]
  /\ snapshots = [p \in Plugins |-> snapshots[p]]
  /\ \A p \in Plugins : snapshots[p] \in [Uses[p] -> Nat]

(***************************************************************************)
(* Who reloads.  A boot is not interrupted by saves, and what it does not  *)
(* finish ends the manager.                                                *)
(***************************************************************************)
HolderInv ==
  /\ holder = "none" <=> step = "idle"
  /\ holder = "boot" => step = "starting" /\ waiting = {}
  /\ ~started => holder = "none"

(***************************************************************************)
(* What is behind.  A row that differs from what a reload has read, or     *)
(* from what a plugin's snapshot has, belongs to a save that waits, that   *)
(* is about to be looked at, or that was cancelled.                        *)
(***************************************************************************)
BehindInv ==
  /\ step \in {"stopping", "starting"} =>
       \A d \in Devices : loaded[d] # rows[d] => d \in waiting \union dropped
  /\ \A p \in Plugins : \A d \in Uses[p] :
       snapshots[p][d] # rows[d] =>
         d \in waiting \union dropped \/ (d = holder /\ step \in {"loading", "stopping"})

\* A plugin is registered when its snapshot configures it.
RegisteredInv ==
  \A p \in Plugins : p \in registered <=> \E d \in Uses[p] : snapshots[p][d] > 0

(***************************************************************************)
(* Plugins a reload stops and starts.  Those it does not change keep their *)
(* snapshot; those it does are stopped, and pending until started.         *)
(***************************************************************************)
ReloadInv ==
  /\ step = "stopping" =>
       /\ pending = changed \intersect Configured(loaded)
       /\ \A p \in changed : running[p] = NotRunning
       /\ \A p \in Plugins \ changed :
            /\ p \in registered <=> p \in Configured(loaded)
            /\ holder \in Uses[p] => snapshots[p][holder] = loaded[holder]
  /\ step = "starting" =>
       /\ toStart \subseteq registered
       /\ holder # "boot" => toStart \subseteq pending
       /\ \A p \in toStart : running[p] = NotRunning /\ snapshots[p] = Selected(p, loaded)

\* A plugin no reload has in hand runs with its snapshot, or is known not to run.
InHand(p) == (step = "stopping" /\ p \in changed) \/ (step = "starting" /\ p \in toStart)

Follows(p) ==
  IF p \in registered
  THEN \/ running[p] = snapshots[p]
       \/ running[p] = NotRunning /\ (p \in pending \/ state[p] = "failed")
  ELSE running[p] = NotRunning

RunningInv == started => \A p \in Plugins : InHand(p) \/ Follows(p)

IndInv == TypeInv /\ HolderInv /\ BehindInv /\ RegisteredInv /\ ReloadInv /\ RunningInv

\* A Device is saved.
LEMMA SaveInv ==
  ASSUME IndInv, NEW d \in Devices, Save(d)
  PROVE  IndInv'
<1>. USE DEF IndInv, Save, inventory, reload, managed, Cancelling
<1>1. TypeInv'
  BY DEF TypeInv, Steps, Named
<1>2. HolderInv'
  BY DEF HolderInv, TypeInv, Steps, Named
<1>3. BehindInv'
  BY DEF BehindInv, TypeInv, Named, HolderInv, Steps
<1>4. RegisteredInv'
  BY DEF RegisteredInv
<1>5. ReloadInv'
  BY DEF ReloadInv, HolderInv
<1>6. RunningInv'
  BY DEF RunningInv, InHand, Follows, TypeInv
<1>. QED  BY <1>1, <1>2, <1>3, <1>4, <1>5, <1>6

\* A request goes away before its reload has read the inventory.
LEMMA AbandonInv ==
  ASSUME IndInv, NEW d \in Devices, Abandon(d)
  PROVE  IndInv'
<1>. USE DEF IndInv, Abandon, inventory, reload, managed, Cancelling
<1>1. TypeInv'
  BY DEF TypeInv, Steps, Named
<1>2. HolderInv'
  BY DEF HolderInv, TypeInv, Steps, Named
<1>3. BehindInv'
  BY DEF BehindInv, TypeInv, Named, HolderInv, Steps
<1>4. RegisteredInv'
  BY DEF RegisteredInv
<1>5. ReloadInv'
  BY DEF ReloadInv, HolderInv
<1>6. RunningInv'
  BY DEF RunningInv, InHand, Follows, TypeInv
<1>. QED  BY <1>1, <1>2, <1>3, <1>4, <1>5, <1>6

\* A reload begins.
LEMMA AcquireInv ==
  ASSUME IndInv, NEW d \in Devices, Acquire(d)
  PROVE  IndInv'
<1>. USE DEF IndInv, Acquire, inventory, reload, managed, Cancelling
<1>1. TypeInv'
  BY DEF TypeInv, Steps, Named
<1>2. HolderInv'
  BY DEF HolderInv, TypeInv, Steps, Named
<1>3. BehindInv'
  BY DEF BehindInv, TypeInv, Named, HolderInv, Steps
<1>4. RegisteredInv'
  BY DEF RegisteredInv
<1>5. ReloadInv'
  BY DEF ReloadInv, Configured, Selected, TypeInv, Named
<1>6. RunningInv'
  BY DEF RunningInv, InHand, Follows, HolderInv
<1>. QED  BY <1>1, <1>2, <1>3, <1>4, <1>5, <1>6

\* It reads the inventory and decides what changes.
LEMMA LoadInv ==
  ASSUME IndInv, Load
  PROVE  IndInv'
<1>. USE DEF IndInv, Load, inventory, reload, managed, Cancelling
<1>a. DEFINE new == Configured(rows)
             due == (pending \union Changed(new)) \intersect new
<1>b. /\ loaded' = rows /\ pending' = due /\ changed' = Changed(new) \union due
      /\ toStop' = {p \in changed' \intersect registered : running[p] # NotRunning}
      /\ running' = [p \in Plugins |-> IF p \in toStop' THEN NotRunning ELSE running[p]]
      /\ step = "loading" /\ step' = "stopping" /\ holder \in Devices
  OBVIOUS
<1>c. new \subseteq Plugins /\ Changed(new) \subseteq Plugins /\ Changed(new) \subseteq registered \union new
  BY DEF Configured, Changed, TypeInv
<1>d. started
  BY <1>b DEF HolderInv, TypeInv, Named
<1>e. \A p \in Plugins : Follows(p)
  BY <1>b, <1>d DEF RunningInv, InHand
<1>f. \A p \in Plugins \ changed' :
        /\ p \notin pending' /\ (p \in registered <=> p \in new)
        /\ p \in registered => p \notin pending
        /\ p \in registered => ~DeviceChanged(p)
  BY <1>b, <1>c DEF Changed
<1>. HIDE DEF new, due
<1>1. TypeInv'
  BY <1>b, <1>c DEF TypeInv, Steps, due
<1>2. HolderInv'
  BY DEF HolderInv, TypeInv, Steps, Named
<1>3. BehindInv'
  BY DEF BehindInv, TypeInv, Named, HolderInv, Steps
<1>4. RegisteredInv'
  BY DEF RegisteredInv
<1>5. ReloadInv'
  <2>1. Configured(loaded)' = new
    BY <1>b DEF Configured, new
  <2>2. pending' = changed' \intersect Configured(loaded)'
    BY <1>b, <1>c, <2>1 DEF due
  <2>3. \A p \in changed' : running'[p] = NotRunning
    BY <1>b, <1>c, <1>e DEF due, Follows, TypeInv
  <2>4. ASSUME NEW p \in Plugins \ changed'
        PROVE  /\ p \in registered' <=> p \in Configured(loaded)'
               /\ holder' \in Uses[p] => snapshots'[p][holder'] = loaded'[holder']
    <3>1. p \in registered <=> p \in Configured(loaded)'
      BY <1>f, <2>1
    <3>2. CASE p \in registered
      BY <1>b, <1>f, <3>1, <3>2 DEF DeviceChanged
    <3>3. CASE p \notin registered
      <4>1. holder \in Uses[p] => snapshots[p][holder] = 0
        BY <3>3 DEF RegisteredInv, TypeInv
      <4>2. holder \in Uses[p] => rows[holder] = 0
        BY <1>b, <3>1, <3>3, <2>1 DEF Configured, new, TypeInv, Named
      <4>. QED  BY <1>b, <3>1, <4>1, <4>2
    <3>. QED  BY <3>2, <3>3
  <2>. QED  BY <1>b, <2>2, <2>3, <2>4 DEF ReloadInv
<1>6. RunningInv'
  <2>1. \A p \in Plugins \ changed' : Follows(p)'
    BY <1>b, <1>e, <1>f DEF Follows, TypeInv
  <2>. QED  BY <1>b, <2>1 DEF RunningInv, InHand
<1>. QED  BY <1>1, <1>2, <1>3, <1>4, <1>5, <1>6

\* It stops a plugin.
LEMMA StopPluginInv ==
  ASSUME IndInv, NEW q \in Plugins, StopPlugin(q)
  PROVE  IndInv'
<1>. USE DEF IndInv, StopPlugin, inventory, reload, managed, Cancelling
<1>1. TypeInv'
  BY DEF TypeInv, Steps, Named
<1>2. HolderInv'
  BY DEF HolderInv, TypeInv, Steps, Named
<1>3. BehindInv'
  BY DEF BehindInv, TypeInv, Named, HolderInv, Steps
<1>4. RegisteredInv'
  BY DEF RegisteredInv
<1>5. ReloadInv'
  BY DEF ReloadInv, Configured, Selected, TypeInv, Named
<1>6. RunningInv'
  BY DEF RunningInv, InHand, Follows, TypeInv
<1>. QED  BY <1>1, <1>2, <1>3, <1>4, <1>5, <1>6

\* Everything is stopped: registrations and snapshots follow what was read.
LEMMA StoppedInv ==
  ASSUME IndInv, Stopped
  PROVE  IndInv'
<1>. USE DEF IndInv, Stopped, inventory, reload, managed, Cancelling
<1>a. /\ step = "stopping" /\ registered' = Configured(loaded)
      /\ \A p \in Plugins : snapshots'[p] = IF p \in changed THEN Selected(p, loaded) ELSE Merged(p)
      /\ loaded' = loaded /\ running' = running /\ pending' = pending /\ changed' = changed
  OBVIOUS
<1>b. \A p \in Plugins : Selected(p, loaded) \in [Uses[p] -> Nat] /\ Merged(p) \in [Uses[p] -> Nat]
  BY DEF Selected, Merged, TypeInv, Named
<1>c. Configured(loaded) \subseteq Plugins
  BY DEF Configured
<1>d. \A p \in Plugins \ changed :
        /\ snapshots'[p] = snapshots[p]
        /\ p \in registered <=> p \in registered'
  <2>. TAKE p \in Plugins \ changed
  <2>1. Merged(p) = [d \in Uses[p] |-> snapshots[p][d]]
    BY <1>a DEF Merged, ReloadInv
  <2>2. snapshots[p] \in [Uses[p] -> Nat]
    BY DEF TypeInv
  <2>. QED  BY <1>a, <2>1, <2>2 DEF ReloadInv
<1>e. \A p \in changed \intersect Plugins : \A d \in Uses[p] : snapshots'[p][d] = loaded[d]
  BY <1>a DEF Selected
<1>f. /\ step' \in {"idle", "starting"} /\ holder' \in {"none", holder}
      /\ holder' = "none" <=> step' = "idle"
      /\ step' = "starting" => toStart' = changed \intersect registered' /\ holder' = holder
      /\ started' = started /\ toStart' \subseteq Plugins
  BY <1>a DEF TypeInv, HolderInv, Named
<1>g. started /\ holder \in Devices
  BY <1>a DEF HolderInv, TypeInv
<1>1. TypeInv'
  <2>1. \A p \in Plugins : snapshots'[p] \in [Uses[p] -> Nat]
    BY <1>a, <1>b
  <2>2. snapshots' = [p \in Plugins |-> snapshots'[p]]
    OBVIOUS
  <2>3. state' \in [Plugins -> {"none", "validating", "ready", "failed"}]
    BY DEF TypeInv
  <2>. QED  BY <1>a, <1>c, <1>f, <2>1, <2>2, <2>3 DEF TypeInv, Steps
<1>2. HolderInv'
  BY <1>f, <1>g DEF HolderInv, TypeInv, Named
<1>3. BehindInv'
  <2>1. \A d \in Devices : loaded[d] # rows[d] => d \in waiting \union dropped
    BY <1>a DEF BehindInv
  <2>2. ASSUME NEW p \in Plugins, NEW d \in Uses[p], snapshots'[p][d] # rows[d]
        PROVE  d \in waiting \union dropped
    <3>1. d \in Devices
      BY DEF TypeInv, Named
    <3>2. CASE p \in changed
      BY <1>e, <2>1, <2>2, <3>1, <3>2
    <3>3. CASE p \notin changed
      <4>1. snapshots[p][d] # rows[d]
        BY <1>d, <2>2, <3>3
      <4>2. d = holder => snapshots[p][d] = loaded[d]
        BY <1>a, <3>3 DEF ReloadInv
      <4>. QED  BY <2>1, <3>1, <4>1, <4>2 DEF BehindInv
    <3>. QED  BY <3>2, <3>3
  <2>. QED  BY <1>a, <2>1, <2>2 DEF BehindInv
<1>4. RegisteredInv'
  <2>1. ASSUME NEW p \in Plugins
        PROVE  p \in registered' <=> \E d \in Uses[p] : snapshots'[p][d] > 0
    <3>1. CASE p \in changed
      BY <1>a, <1>e, <3>1 DEF Configured
    <3>2. CASE p \notin changed
      BY <1>d, <3>2 DEF RegisteredInv
    <3>. QED  BY <3>1, <3>2
  <2>. QED  BY <2>1 DEF RegisteredInv
<1>5. ReloadInv'
  <2>1. step' = "starting" => toStart' = changed \intersect registered'
    BY <1>f
  <2>2. changed \intersect registered' = pending'
    BY <1>a DEF ReloadInv
  <2>3. \A p \in changed \intersect Plugins :
          running'[p] = NotRunning /\ snapshots'[p] = Selected(p, loaded)'
    BY <1>a DEF ReloadInv, Selected
  <2>4. changed \subseteq Plugins
    BY DEF TypeInv
  <2>. QED  BY <1>f, <2>1, <2>2, <2>3, <2>4 DEF ReloadInv
<1>6. RunningInv'
  <2>1. ASSUME NEW p \in Plugins
        PROVE  InHand(p)' \/ Follows(p)'
    <3>1. CASE p \in changed
      <4>1. running'[p] = NotRunning /\ (p \in registered' => p \in pending')
        BY <1>a, <3>1 DEF ReloadInv
      <4>. QED  BY <4>1 DEF Follows
    <3>2. CASE p \notin changed
      <4>1. Follows(p)
        BY <1>a, <1>g, <3>2 DEF RunningInv, InHand
      <4>2. state'[p] = IF p \in registered' THEN state[p] ELSE "none"
        BY <3>2
      <4>. QED  BY <1>a, <1>d, <3>2, <4>1, <4>2 DEF Follows
    <3>. QED  BY <3>1, <3>2
  <2>. QED  BY <2>1 DEF RunningInv
<1>. QED  BY <1>1, <1>2, <1>3, <1>4, <1>5, <1>6

\* It starts a plugin, or fails to.
LEMMA StartPluginInv ==
  ASSUME IndInv, NEW q \in Plugins, StartPlugin(q)
  PROVE  IndInv'
<1>. USE DEF IndInv, StartPlugin, inventory, reload, managed, Cancelling
<1>a. /\ step = "starting" /\ q \in toStart /\ toStart' = toStart \ {q} /\ pending' = pending \ {q}
      /\ registered' = registered /\ snapshots' = snapshots /\ loaded' = loaded /\ holder' = holder
      /\ step' = step /\ started' = started
  OBVIOUS
<1>b. \A p \in Plugins \ {q} : running'[p] = running[p] /\ state'[p] = state[p]
  BY DEF TypeInv
<1>c. running'[q] = snapshots[q] \/ (running'[q] = NotRunning /\ state'[q] = "failed")
  BY <1>a DEF TypeInv, ReloadInv
<1>1. TypeInv'
  BY DEF TypeInv, Steps, Named
<1>2. HolderInv'
  BY DEF HolderInv, TypeInv, Steps, Named
<1>3. BehindInv'
  BY DEF BehindInv, TypeInv, Named, HolderInv, Steps
<1>4. RegisteredInv'
  BY DEF RegisteredInv
<1>5. ReloadInv'
  <2>1. toStart' \subseteq Plugins \ {q}
    BY <1>a DEF TypeInv
  <2>2. \A p \in toStart' : running'[p] = NotRunning /\ snapshots[p] = Selected(p, loaded)
    BY <1>a, <1>b, <2>1 DEF ReloadInv
  <2>3. \A p \in toStart' : Selected(p, loaded)' = Selected(p, loaded)
    BY <1>a DEF Selected
  <2>. QED  BY <1>a, <2>2, <2>3 DEF ReloadInv
<1>6. RunningInv'
  <2>1. ASSUME started, NEW p \in Plugins
        PROVE  InHand(p)' \/ Follows(p)'
    <3>1. CASE p = q
      <4>1. q \in registered
        BY <1>a DEF ReloadInv
      <4>. QED  BY <1>a, <1>c, <3>1, <4>1 DEF Follows
    <3>2. CASE p # q
      BY <1>a, <1>b, <2>1, <3>2 DEF RunningInv, InHand, Follows
    <3>. QED  BY <3>1, <3>2
  <2>. QED  BY <1>a, <2>1 DEF RunningInv
<1>. QED  BY <1>1, <1>2, <1>3, <1>4, <1>5, <1>6

\* It is cancelled in the middle.
LEMMA CancelStartInv ==
  ASSUME IndInv, NEW q \in Plugins, CancelStart(q)
  PROVE  IndInv'
<1>. USE DEF IndInv, CancelStart, inventory, reload, managed, Cancelling
<1>1. TypeInv'
  BY DEF TypeInv, Steps, Named
<1>2. HolderInv'
  BY DEF HolderInv, TypeInv, Steps, Named
<1>3. BehindInv'
  BY DEF BehindInv, TypeInv, Named, HolderInv, Steps
<1>4. RegisteredInv'
  BY DEF RegisteredInv
<1>5. ReloadInv'
  BY DEF ReloadInv, Configured, Selected, TypeInv, Named
<1>6. RunningInv'
  <2>1. CASE holder = "boot"
    BY <2>1 DEF RunningInv
  <2>2. ASSUME holder # "boot", started, NEW p \in Plugins
        PROVE  Follows(p)'
    <3>1. running' = running /\ pending' = pending /\ registered' = registered /\ snapshots' = snapshots
      BY <2>2
    <3>2. CASE p \in toStart
      BY <2>2, <3>1, <3>2 DEF ReloadInv, Follows
    <3>3. CASE p \notin toStart
      <4>1. Follows(p)
        BY <2>2, <3>3 DEF RunningInv, InHand
      <4>2. state'[p] = state[p]
        BY <3>3 DEF TypeInv
      <4>. QED  BY <3>1, <4>1, <4>2 DEF Follows
    <3>. QED  BY <3>2, <3>3
  <2>3. started
    BY DEF HolderInv, TypeInv
  <2>. QED  BY <2>1, <2>2, <2>3 DEF RunningInv
<1>. QED  BY <1>1, <1>2, <1>3, <1>4, <1>5, <1>6

\* It ends.
LEMMA StartedInv ==
  ASSUME IndInv, Started
  PROVE  IndInv'
<1>. USE DEF IndInv, Started, inventory, reload, managed, Cancelling
<1>1. TypeInv'
  BY DEF TypeInv, Steps, Named
<1>2. HolderInv'
  BY DEF HolderInv, TypeInv, Steps, Named
<1>3. BehindInv'
  BY DEF BehindInv, TypeInv, Named, HolderInv, Steps
<1>4. RegisteredInv'
  BY DEF RegisteredInv
<1>5. ReloadInv'
  BY DEF ReloadInv, Configured, Selected, TypeInv, Named
<1>6. RunningInv'
  BY DEF RunningInv, InHand, Follows, TypeInv
<1>. QED  BY <1>1, <1>2, <1>3, <1>4, <1>5, <1>6

\* The manager stops.
LEMMA StopInv ==
  ASSUME IndInv, Stop
  PROVE  IndInv'
<1>. USE DEF IndInv, Stop, inventory, reload, managed, Cancelling
<1>1. TypeInv'
  BY DEF TypeInv, Steps, Named
<1>2. HolderInv'
  BY DEF HolderInv, TypeInv, Steps, Named
<1>3. BehindInv'
  BY DEF BehindInv, TypeInv, Named, HolderInv, Steps
<1>4. RegisteredInv'
  BY DEF RegisteredInv
<1>5. ReloadInv'
  BY DEF ReloadInv, HolderInv, TypeInv
<1>6. RunningInv'
  BY DEF RunningInv, InHand, Follows, TypeInv
<1>. QED  BY <1>1, <1>2, <1>3, <1>4, <1>5, <1>6

-----------------------------------------------------------------------------
\* Plugins start with the inventory of the boot.
LEMMA InitInv == Named /\ Init => IndInv
<1>. SUFFICES ASSUME Named, Init PROVE IndInv
  OBVIOUS
<1>1. Configured(rows) \subseteq Plugins
  BY DEF Configured
<1>2. rows \in [Devices -> Nat] /\ loaded = rows
  BY DEF Init
<1>a. \A p \in Plugins : snapshots[p] = Selected(p, rows)
  BY DEF Init
<1>b. \A p \in Plugins : Selected(p, rows) \in [Uses[p] -> Nat]
  BY <1>2 DEF Selected, Named
<1>c. \A p \in Plugins : \A d \in Uses[p] : snapshots[p][d] = rows[d]
  BY <1>a DEF Selected
<1>3. TypeInv
  <2>1. snapshots = [p \in Plugins |-> snapshots[p]] /\ running = [p \in Plugins |-> running[p]]
    BY DEF Init
  <2>2. state \in [Plugins -> {"none", "validating", "ready", "failed"}]
    BY DEF Init
  <2>3. /\ waiting \subseteq Devices /\ dropped \subseteq Devices /\ versions \in Nat
        /\ holder \in Devices \union {"boot", "none"} /\ step \in Steps
        /\ changed \subseteq Plugins /\ toStop \subseteq Plugins /\ toStart \subseteq Plugins
        /\ registered \subseteq Plugins /\ pending \subseteq Plugins
        /\ cancelled \in BOOLEAN /\ started \in BOOLEAN
    BY <1>1 DEF Init, Steps
  <2>. QED  BY <1>2, <1>a, <1>b, <2>1, <2>2, <2>3 DEF TypeInv
<1>4. HolderInv
  BY DEF HolderInv, Init
<1>5. BehindInv
  BY <1>2, <1>c DEF BehindInv
<1>6. RegisteredInv
  <2>1. registered = Configured(rows)
    BY DEF Init
  <2>. QED  BY <1>c, <2>1 DEF RegisteredInv, Configured
<1>7. ReloadInv
  BY <1>2, <1>a DEF ReloadInv, Init, Configured
<1>8. RunningInv
  BY DEF RunningInv, InHand, Follows, Init
<1>. QED  BY <1>3, <1>4, <1>5, <1>6, <1>7, <1>8 DEF IndInv

\* A stuttering step preserves it.
LEMMA StutterInv == IndInv /\ UNCHANGED pluginVars => IndInv'
<1>. SUFFICES ASSUME IndInv, UNCHANGED pluginVars PROVE IndInv'
  OBVIOUS
<1>. USE DEF pluginVars, inventory, reload, managed, IndInv
<1>1. TypeInv' /\ HolderInv' /\ BehindInv' /\ RegisteredInv'
  BY DEF TypeInv, HolderInv, BehindInv, RegisteredInv
<1>2. ReloadInv' /\ RunningInv'
  BY DEF ReloadInv, RunningInv, InHand, Follows, Configured, Selected
<1>. QED  BY <1>1, <1>2

(***************************************************************************)
(* The invariant holds always: registrations, snapshots and what runs fit  *)
(* the rows the last reload has read, and every row it has not read is on  *)
(* its way or was given up.                                                *)
(***************************************************************************)
THEOREM Invariance == Named /\ Spec => []IndInv
<1>1. Named /\ Init => IndInv
  BY InitInv
<1>2. IndInv /\ [Next]_pluginVars => IndInv'
  BY SaveInv, AbandonInv, AcquireInv, LoadInv, StopPluginInv, StoppedInv, StartPluginInv,
     CancelStartInv, StartedInv, StopInv, StutterInv
  DEF Next
<1>. QED  BY <1>1, <1>2, PTL DEF Spec

(***************************************************************************)
(* Once no save is on its way, a plugin runs exactly when it is configured *)
(* and with the rows of now, unless its status or the pending set says     *)
(* that its last reload failed or was cut short, or a request was          *)
(* cancelled before its reload looked (PluginManager.reconcile).           *)
(***************************************************************************)
THEOREM PluginsFollow == Named /\ Spec => []PluginsFollowInventory
<1>1. ASSUME IndInv, started, holder = "none", waiting = {}, NEW p \in Plugins,
             Uses[p] \intersect dropped = {}
      PROVE  \/ p \in Configured(rows) /\ running[p] = Selected(p, rows)
             \/ p \in Configured(rows) /\ (p \in pending \/ state[p] = "failed") /\ running[p] = NotRunning
             \/ p \notin Configured(rows) /\ running[p] = NotRunning
  <2>1. step = "idle" /\ "none" \notin Uses[p]
    BY <1>1 DEF IndInv, HolderInv, TypeInv, Named
  <2>2. \A d \in Uses[p] : snapshots[p][d] = rows[d]
    BY <1>1, <2>1 DEF IndInv, BehindInv
  <2>3. snapshots[p] = Selected(p, rows)
    <3>1. snapshots[p] \in [Uses[p] -> Nat]
      BY <1>1 DEF IndInv, TypeInv
    <3>. QED  BY <2>2, <3>1 DEF Selected
  <2>4. p \in registered <=> p \in Configured(rows)
    <3>1. p \in registered <=> \E d \in Uses[p] : snapshots[p][d] > 0
      BY <1>1 DEF IndInv, RegisteredInv
    <3>. QED  BY <2>2, <3>1 DEF Configured
  <2>5. Follows(p)
    BY <1>1, <2>1 DEF IndInv, RunningInv, InHand
  <2>. QED  BY <2>3, <2>4, <2>5 DEF Follows
<1>2. IndInv => PluginsFollowInventory
  BY <1>1 DEF PluginsFollowInventory
<1>. QED  BY <1>2, Invariance, PTL

=============================================================================
