---------------------------- MODULE ReolinkSession ----------------------------
(***************************************************************************)
(* One Reolink camera: its Baichuan connection, which the monitor task     *)
(* keeps up, and which every snapshot retries over with the same client.   *)
(* Both log in, both reset the connection when a command fails, and no     *)
(* lock keeps one from doing it to the other.  The camera pushes Events on *)
(* a connection only after a subscription on it.                           *)
(***************************************************************************)
EXTENDS Naturals

CONSTANTS
  MaxTries,      \* of a login (the code's 4 attempts, each over 2 channels)
  MaxRetries,    \* of _run_with_retry (the code's 3)
  MaxFaults,     \* bounds dropped connections and refused connects
  MaxSnapshots   \* bounds snapshot requests

Actors == {"monitor", "snapshot"}

VARIABLES
  link,          \* "none", "open", or "dead" once its dispatcher has ended
  token,         \* the client's
  session,       \* the camera has accepted a login on this link
  subscribed,    \* the camera pushes Events over this link
  pc,            \* of each actor
  goal,          \* what an actor logs in for, or resets for
  tries, retries,
  probeKnown,    \* _snapshot_probe
  media,         \* the media registry knows the camera's snapshots
  faults, requests

client     == <<link, token, session, subscribed>>
sessionVars == <<client, pc, goal, tries, retries, probeKnown, media, faults, requests>>

Authenticated == link = "open" /\ token

Running == pc["monitor"] \notin {"closing", "stopped"}

Init ==
  /\ link = "none" /\ token = FALSE /\ session = FALSE /\ subscribed = FALSE
  /\ pc = [a \in Actors |-> IF a = "monitor" THEN "check" ELSE "idle"]
  /\ goal = [a \in Actors |-> "none"]
  /\ tries = [a \in Actors |-> 0] /\ retries = [a \in Actors |-> 0]
  /\ probeKnown = FALSE /\ media = FALSE /\ faults = 0 /\ requests = 0

-----------------------------------------------------------------------------
\* A request that waits on a link fails when that link ends (the dispatcher's finally).
Interrupted(p) ==
  CASE p \in {"negotiating", "authenticating"} -> "loginFailed"
    [] p = "commanding"  -> "commandFailed"
    [] p = "subscribing" -> "ping"
    [] p = "pinging"     -> "pingFailed"
    [] p = "probing"     -> "probed"
    [] OTHER             -> p

Goto(a, p) == pc' = [pc EXCEPT ![a] = p]

\* a goes on, and whoever waits on the link that ends is interrupted.
EndsLinkAndGoes(a, p) ==
  pc' = [b \in Actors |-> IF b = a THEN p ELSE Interrupted(pc[b])]

LogsIn(a, for) ==
  /\ Goto(a, "login")
  /\ goal' = [goal EXCEPT ![a] = for] /\ tries' = [tries EXCEPT ![a] = MaxTries]

\* login, per attempt: a live connection is used, another is reset and opened anew.
Login(a) ==
  /\ pc[a] = "login"
  /\ IF link = "open" THEN Goto(a, "negotiating") /\ UNCHANGED <<link, token, session, subscribed>>
     ELSE /\ EndsLinkAndGoes(a, "connecting")
          /\ link' = "none" /\ token' = FALSE /\ session' = FALSE /\ subscribed' = FALSE
  /\ UNCHANGED <<goal, tries, retries, probeKnown, media, faults, requests>>

\* connect replaces whatever link there is by now, and keeps the token.
Connect(a) ==
  /\ pc[a] = "connecting"
  /\ \/ /\ link' = "open" /\ session' = FALSE /\ subscribed' = FALSE
        /\ EndsLinkAndGoes(a, "negotiating")
        /\ UNCHANGED faults
     \/ /\ faults < MaxFaults /\ faults' = faults + 1
        /\ Goto(a, "loginFailed")
        /\ UNCHANGED <<link, session, subscribed>>
  /\ UNCHANGED <<token, goal, tries, retries, probeKnown, media, requests>>

Negotiated(a) ==
  /\ pc[a] = "negotiating" /\ Goto(a, "authenticating")
  /\ UNCHANGED <<client, goal, tries, retries, probeKnown, media, faults, requests>>

\* Two logins on one link may have negotiated over each other.
LoginAnswered(a) ==
  /\ pc[a] = "authenticating"
  /\ \/ /\ token' = TRUE /\ session' = TRUE /\ Goto(a, goal[a])
     \/ /\ \E b \in Actors \ {a} : pc[b] \in {"negotiating", "authenticating"}
        /\ Goto(a, "loginFailed") /\ UNCHANGED <<token, session>>
  /\ UNCHANGED <<link, subscribed, goal, tries, retries, probeKnown, media, faults, requests>>

\* _reset_connection closes the writer it sees, waits, and then clears the
\* fields, which may hold another actor's new connection by then.
BeginReset(a) ==
  /\ pc[a] \in {"loginFailed", "commandFailed", "pingFailed", "probed"}
  /\ EndsLinkAndGoes(a, CASE pc[a] = "loginFailed"   -> "loginReset"
                          [] pc[a] = "commandFailed" -> "commandReset"
                          [] pc[a] = "pingFailed"    -> "pingReset"
                          [] pc[a] = "probed"        -> "probeReset")
  /\ link' = IF link = "open" THEN "dead" ELSE link
  /\ UNCHANGED <<token, session, subscribed, goal, tries, retries, probeKnown, media, faults, requests>>

FaultyAfterMonitorError == "dead"

\* The monitor logs what went wrong and tries again after a backoff.
AfterMonitorError == "backoff"

\* What follows a reset: another attempt, another retry, or giving up.
\* get_stream_url's failure is logged, and the subscription is tried all the same.
AfterReset(a) ==
  CASE pc[a] = "loginReset" /\ tries[a] > 1 -> "login"
    [] pc[a] = "loginReset" /\ tries[a] <= 1 /\ goal[a] = "probe" -> AfterMonitorError
    [] \/ pc[a] = "loginReset" /\ tries[a] <= 1 /\ goal[a] = "command"
       \/ pc[a] = "commandReset" ->
         IF retries[a] > 1 THEN "command" ELSE IF a = "monitor" THEN "subscribe" ELSE "idle"
    [] pc[a] = "pingReset"  -> AfterMonitorError
    [] pc[a] = "probeReset" -> "command"

FinishReset(a) ==
  /\ pc[a] \in {"loginReset", "commandReset", "pingReset", "probeReset"}
  /\ link' = "none" /\ token' = FALSE /\ session' = FALSE /\ subscribed' = FALSE
  /\ EndsLinkAndGoes(a, AfterReset(a))
  /\ tries' = [tries EXCEPT ![a] = IF pc[a] = "loginReset" THEN @ - 1 ELSE @]
  /\ retries' = [retries EXCEPT ![a] = IF AfterReset(a) = "command" /\ pc[a] # "probeReset"
                                       THEN @ - 1 ELSE @]
  /\ UNCHANGED <<goal, probeKnown, media, faults, requests>>

\* _run_with_retry: logs in first when the client is not authenticated.
Command(a) ==
  /\ pc[a] = "command"
  /\ IF Authenticated THEN Goto(a, "commanding") /\ UNCHANGED <<goal, tries>>
                      ELSE LogsIn(a, "command")
  /\ UNCHANGED <<client, retries, probeKnown, media, faults, requests>>

\* A link that is not logged in answers nothing.  _register_media follows get_stream_url.
CommandAnswered(a) ==
  /\ pc[a] = "commanding"
  /\ Goto(a, IF ~session THEN "commandFailed" ELSE IF a = "monitor" THEN "subscribe" ELSE "idle")
  /\ media' = (media \/ (a = "monitor" /\ session))
  /\ UNCHANGED <<client, goal, tries, retries, probeKnown, faults, requests>>

-----------------------------------------------------------------------------
\* The head of the monitor's loop.
Check ==
  /\ pc["monitor"] = "check"
  /\ IF Authenticated THEN Goto("monitor", "ping") /\ UNCHANGED <<goal, tries>>
                      ELSE LogsIn("monitor", "probe")
  /\ UNCHANGED <<client, retries, probeKnown, media, faults, requests>>

\* _discover_stream: the probe waits for the lock a snapshot holds.
Discover ==
  /\ pc["monitor"] = "probe"
  /\ IF probeKnown \/ ~Authenticated THEN Goto("monitor", "command")
     ELSE pc["snapshot"] = "idle" /\ Goto("monitor", "probing")
  /\ retries' = [retries EXCEPT !["monitor"] = MaxRetries]
  /\ UNCHANGED <<client, goal, tries, probeKnown, media, faults, requests>>

\* The acknowledgment may come or not; the connection is reset either way.
Probed ==
  /\ pc["monitor"] = "probing"
  /\ Goto("monitor", "probed")
  /\ probeKnown' = session
  /\ UNCHANGED <<client, goal, tries, retries, media, faults, requests>>

\* Nothing but _authenticate subscribes; its failure is logged.
Subscribe ==
  /\ pc["monitor"] = "subscribe"
  /\ Goto("monitor", IF Authenticated THEN "subscribing" ELSE "ping")
  /\ UNCHANGED <<client, goal, tries, retries, probeKnown, media, faults, requests>>

Subscribed ==
  /\ pc["monitor"] = "subscribing"
  /\ subscribed' = session /\ Goto("monitor", "ping")
  /\ UNCHANGED <<link, token, session, goal, tries, retries, probeKnown, media, faults, requests>>

Ping ==
  /\ pc["monitor"] = "ping"
  /\ Goto("monitor", IF Authenticated THEN "pinging" ELSE "pingFailed")
  /\ UNCHANGED <<client, goal, tries, retries, probeKnown, media, faults, requests>>

Pinged ==
  /\ pc["monitor"] = "pinging"
  /\ Goto("monitor", IF session THEN "sleep" ELSE "pingFailed")
  /\ UNCHANGED <<client, goal, tries, retries, probeKnown, media, faults, requests>>

Wake ==
  /\ pc["monitor"] \in {"sleep", "backoff"} /\ Goto("monitor", "check")
  /\ UNCHANGED <<client, goal, tries, retries, probeKnown, media, faults, requests>>

\* stop cancels the monitor and closes the client; a snapshot goes on.
Stop ==
  /\ Running /\ pc["monitor"] # "dead"
  /\ EndsLinkAndGoes("monitor", "closing")
  /\ link' = IF link = "open" THEN "dead" ELSE link
  /\ UNCHANGED <<token, session, subscribed, goal, tries, retries, probeKnown, media, faults, requests>>

Closed ==
  /\ pc["monitor"] = "closing"
  /\ EndsLinkAndGoes("monitor", "stopped")
  /\ link' = "none" /\ token' = FALSE /\ session' = FALSE /\ subscribed' = FALSE
  /\ media' = FALSE
  /\ UNCHANGED <<goal, tries, retries, probeKnown, faults, requests>>

\* get_snapshot, under the snapshot lock.
Snapshot ==
  /\ media /\ pc["snapshot"] = "idle" /\ requests < MaxSnapshots
  /\ pc["monitor"] \notin {"probing", "probed", "probeReset"}
  /\ Goto("snapshot", "command") /\ requests' = requests + 1
  /\ retries' = [retries EXCEPT !["snapshot"] = MaxRetries]
  /\ UNCHANGED <<client, goal, tries, probeKnown, media, faults>>

\* The connection breaks; whoever waits on it is told.
Drop ==
  /\ link = "open" /\ faults < MaxFaults /\ faults' = faults + 1
  /\ link' = "dead" /\ pc' = [b \in Actors |-> Interrupted(pc[b])]
  /\ UNCHANGED <<token, session, subscribed, goal, tries, retries, probeKnown, media, requests>>

ClientStep(a) ==
  \/ Login(a) \/ Connect(a) \/ Negotiated(a) \/ LoginAnswered(a) \/ BeginReset(a) \/ FinishReset(a)
  \/ Command(a) \/ CommandAnswered(a)
MonitorStep ==
  \/ ClientStep("monitor") \/ Check \/ Discover \/ Probed \/ Subscribe \/ Subscribed \/ Ping
  \/ Pinged \/ Wake \/ Closed

Next == MonitorStep \/ ClientStep("snapshot") \/ Stop \/ Snapshot \/ Drop

Spec == Init /\ [][Next]_sessionVars

\* Every request has a timeout and every sleep ends, so both tasks go on.
FairSpec == Spec /\ WF_sessionVars(MonitorStep) /\ WF_sessionVars(ClientStep("snapshot"))

-----------------------------------------------------------------------------
\* A lost session comes back: monitor and snapshots may reset each other's
\* connections, but not for ever (_monitor, login, _run_with_retry).
SessionRecovers == Running /\ ~(Authenticated /\ session) ~> (Authenticated /\ session) \/ ~Running

\* snapshot_probe's comment: reconnect and re-login is self-healing for every
\* other caller.  The Event listener is one: a running connection whose camera
\* stays reachable has its subscription again.
EventsResume == Running /\ ~subscribed ~> subscribed \/ ~Running
=============================================================================
