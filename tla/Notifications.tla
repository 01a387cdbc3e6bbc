---------------------------- MODULE Notifications ----------------------------
(***************************************************************************)
(* The Episode-started webhook: settings that requests change while the    *)
(* bus queues notifications and one worker delivers them, and test         *)
(* deliveries that share the worker's delivery lock.                       *)
(***************************************************************************)
EXTENDS Naturals, Sequences

CONSTANTS
  Urls,
  MaxEpisodes,   \* bounds the Episodes created
  QueueSize,     \* _QUEUE_SIZE
  MaxUpdates,    \* bounds the settings requests
  MaxRestarts    \* bounds crashes and shutdowns

VARIABLES
  row,          \* the stored settings
  memory,       \* of the service
  settings,     \* of the notifier
  started, subscribed,
  update,       \* what holds the settings lock, and what it is about to do
  target,       \* the settings it applies
  queue,
  worker,       \* the worker task
  item, taken,  \* the notification it delivers, and the settings it took for it
  test,         \* a test delivery: its settings, or NoTest, and whether it posts
  episodes,     \* the Episodes created so far
  period,       \* counts the times notifications were disabled
  sent,         \* the Episodes a request was sent for
  updates, restarts

service  == <<row, memory, update, target>>
delivery == <<worker, item, taken>>
bounds   == <<updates, restarts>>
webhookVars == <<row, memory, settings, started, subscribed, update, target, queue, worker, item,
                 taken, test, episodes, period, sent, updates, restarts>>

Settings == {s \in [enabled : BOOLEAN, url : Urls \union {""}] : s.enabled => s.url # ""}
Disabled == [enabled |-> FALSE, url |-> ""]
NoItem   == [episode |-> 0, period |-> 0]

Init ==
  /\ row = Disabled /\ memory = Disabled /\ settings = Disabled
  /\ started = FALSE /\ subscribed = FALSE /\ update = "starting" /\ target = Disabled
  /\ queue = <<>> /\ worker = "none" /\ item = NoItem /\ taken = Disabled
  /\ test = [at |-> "none", settings |-> Disabled]
  /\ episodes = 0 /\ period = 0 /\ sent = {} /\ updates = 0 /\ restarts = 0

-----------------------------------------------------------------------------
\* The service: start, and update under its lock.
Start ==
  /\ update = "starting"
  /\ memory' = row /\ target' = row /\ started' = TRUE /\ update' = "applying"
  /\ UNCHANGED <<row, settings, subscribed, queue, delivery, test, episodes, period, sent, bounds>>

Update ==
  /\ started /\ update = "none" /\ updates < MaxUpdates
  /\ target' \in Settings
  /\ update' = "saving" /\ updates' = updates + 1
  /\ UNCHANGED <<row, memory, settings, started, subscribed, queue, delivery, test, episodes, period,
                 sent, restarts>>

\* set_system_setting; when it fails nothing has changed.
Save ==
  /\ update = "saving"
  /\ \/ row' = target /\ memory' = target /\ update' = "applying"
     \/ update' = "none" /\ UNCHANGED <<row, memory>>
  /\ UNCHANGED <<settings, started, subscribed, target, queue, delivery, test, episodes, period, sent,
                 bounds>>

\* reconfigure, and _disable_locked to its wait for the cancelled worker.
Apply ==
  /\ update = "applying"
  /\ settings' = target
  /\ subscribed' = target.enabled
  /\ IF target.enabled
     THEN /\ update' = "none" /\ UNCHANGED period
          /\ worker' = IF worker = "none" THEN "idle" ELSE worker
     ELSE /\ update' = "disabling" /\ period' = period + 1 /\ UNCHANGED worker
  /\ UNCHANGED <<row, memory, started, target, queue, item, taken, test, episodes, sent, bounds>>

FaultyDisable ==
  /\ update = "disabling"
  /\ worker' = "none" /\ UNCHANGED queue
  /\ update' = IF started THEN "none" ELSE "stopped"
  /\ UNCHANGED <<row, memory, settings, started, subscribed, target, item, taken, test, episodes,
                 period, sent, bounds>>

\* The worker has ended, at whichever of its awaits it was.
Disable ==
  /\ update = "disabling"
  /\ worker' = "none" /\ queue' = <<>>
  /\ update' = IF started THEN "none" ELSE "stopped"
  /\ UNCHANGED <<row, memory, settings, started, subscribed, target, item, taken, test, episodes,
                 period, sent, bounds>>

\* Requests have ended when the services stop.
Stop ==
  /\ started /\ update = "none" /\ test.at = "none" /\ restarts < MaxRestarts
  /\ started' = FALSE /\ subscribed' = FALSE /\ update' = "disabling"
  /\ period' = period + 1 /\ restarts' = restarts + 1
  /\ UNCHANGED <<row, memory, settings, target, queue, delivery, test, episodes, sent, updates>>

Ended ==
  /\ settings' = Disabled /\ memory' = Disabled /\ started' = FALSE /\ subscribed' = FALSE
  /\ update' = "starting" /\ queue' = <<>> /\ worker' = "none"
  /\ test' = [test EXCEPT !.at = "none"]
  /\ UNCHANGED <<row, target, item, taken, episodes, sent, updates>>

Restart == update = "stopped" /\ Ended /\ UNCHANGED <<period, restarts>>

Crash ==
  /\ update # "starting" /\ restarts < MaxRestarts
  /\ restarts' = restarts + 1 /\ period' = period + 1 /\ Ended

-----------------------------------------------------------------------------
\* episode.created; _on_episode_created drops what the queue has no room for.
EpisodeCreated ==
  /\ episodes < MaxEpisodes
  /\ episodes' = episodes + 1
  /\ queue' = IF subscribed /\ Len(queue) < QueueSize
              THEN Append(queue, [episode |-> episodes', period |-> period])
              ELSE queue
  /\ UNCHANGED <<service, settings, started, subscribed, delivery, test, period, sent, bounds>>

\* The worker's next notification, dropped when nothing is to be sent.
Take ==
  /\ worker = "idle" /\ queue # <<>> /\ update # "disabling"
  /\ queue' = Tail(queue) /\ item' = Head(queue) /\ taken' = settings
  /\ worker' = IF settings.enabled THEN "reading" ELSE "idle"
  /\ UNCHANGED <<service, settings, started, subscribed, test, episodes, period, sent, bounds>>

\* The Episode, its Event, Area, Device and the external URL; a failure drops the item.
Read ==
  /\ worker = "reading" /\ update # "disabling"
  /\ worker' \in {"waiting", "idle"}
  /\ UNCHANGED <<service, settings, started, subscribed, queue, item, taken, test, episodes, period,
                 sent, bounds>>

\* _post: the delivery lock is free, or the timeout passes while it is not.
Send ==
  /\ worker = "waiting" /\ update # "disabling"
  /\ \/ test.at # "posting" /\ worker' = "posting" /\ sent' = sent \union {item.episode}
     \/ worker' = "idle" /\ UNCHANGED sent
  /\ UNCHANGED <<service, settings, started, subscribed, queue, item, taken, test, episodes, period,
                 bounds>>

\* Any answer, error or timeout: nothing is retried.
Answered ==
  /\ worker = "posting" /\ worker' = "idle"
  /\ UNCHANGED <<service, settings, started, subscribed, queue, item, taken, test, episodes, period,
                 sent, bounds>>

\* test: a snapshot under the settings lock, then _post.
Test ==
  /\ started /\ update = "none" /\ test.at = "none" /\ memory.url # ""
  /\ test' = [at |-> "waiting", settings |-> memory]
  /\ UNCHANGED <<service, settings, started, subscribed, queue, delivery, episodes, period, sent, bounds>>

TestStep ==
  /\ \/ test.at = "waiting" /\ worker # "posting" /\ test' = [test EXCEPT !.at = "posting"]
     \/ test.at # "none" /\ test' = [test EXCEPT !.at = "none"]
  /\ UNCHANGED <<service, settings, started, subscribed, queue, delivery, episodes, period, sent, bounds>>

Next ==
  \/ Start \/ Update \/ Save \/ Apply \/ Disable \/ Stop \/ Restart \/ Crash
  \/ EpisodeCreated \/ Take \/ Read \/ Send \/ Answered \/ Test \/ TestStep

Spec == Init /\ [][Next]_webhookVars

-----------------------------------------------------------------------------
\* A request goes out for an Episode at most once, only while notifications are
\* on, and only for an Episode created since they were last off: none that was
\* queued before they were disabled, or before a restart, is sent once they are
\* enabled again (docs/ARCHITECTURE.md: no retries and no recovery; changes
\* apply immediately), however the request, the bus and the worker interleave.
NotifiesItsPeriod ==
  [][ worker' = "posting" /\ worker # "posting" =>
        /\ subscribed /\ item.period = period
        /\ item.episode \notin sent ]_webhookVars
-----------------------------------------------------------------------------
(***************************************************************************)
(* The inductive invariant behind it: what waits to be sent belongs to the *)
(* period, in the order of its creation, and was not sent before.          *)
(***************************************************************************)
ItemOK   == [episode : Nat, period : Nat]
InHand   == worker \in {"reading", "waiting", "posting"}

TypeOK ==
  /\ queue \in Seq(ItemOK) /\ item \in ItemOK /\ episodes \in Nat /\ period \in Nat
  /\ sent \subseteq Nat /\ subscribed \in BOOLEAN /\ target.enabled \in BOOLEAN /\ row.enabled \in BOOLEAN
  /\ worker \in {"none", "idle", "reading", "waiting", "posting"}
  /\ update \in {"none", "starting", "saving", "applying", "disabling", "stopped"}

\* While notifications are not being disabled, the worker lives only when they are on.
PeriodInv ==
  /\ update = "disabling" => ~subscribed
  /\ update # "disabling" =>
       /\ worker # "none" => subscribed
       /\ \A k \in DOMAIN queue : queue[k].period = period
       /\ InHand => item.period = period

OrderInv ==
  /\ \A k \in DOMAIN queue : queue[k].episode <= episodes /\ queue[k].episode \notin sent
  /\ \A k \in DOMAIN queue : \A j \in DOMAIN queue : j < k => queue[j].episode < queue[k].episode
  /\ \A e \in sent : e <= episodes
  /\ InHand => item.episode <= episodes /\ \A k \in DOMAIN queue : item.episode < queue[k].episode
  /\ worker \in {"reading", "waiting"} => item.episode \notin sent

NotifyInv == TypeOK /\ PeriodInv /\ OrderInv
=============================================================================
