-------------------------------- MODULE Alerts --------------------------------
(***************************************************************************)
(* The boat's alerts: the bus silence monitor (bus_silence.go), the        *)
(* replication client's alerts (replication_client.go Run and              *)
(* connectAndStream), the broker's for devices it expires, the alert       *)
(* manager that posts them to a webhook (alerting.go), and the health      *)
(* endpoint, which reports the same two facts (health.go).                 *)
(*                                                                         *)
(* An alert is its type.  Alerts on the bus and on replication each tell   *)
(* of one state, and each come from one goroutine.                         *)
(***************************************************************************)
EXTENDS Integers, Sequences

CONSTANTS
  Window,    \* DedupWindow, in ticks
  SilenceTimeout, \* silence timeout of the monitor, and threshold of the health endpoint
  AlertCap   \* capacity of the manager's channel

ASSUME AlertsAssumption == Window \in Nat /\ SilenceTimeout \in Nat /\ AlertCap \in Nat

VARIABLES
  quiet,     \* ticks since the last frame, -1 before the first
  silent,    \* the monitor: silentAt is set
  checked,   \* history: the monitor has looked since the clock or the bus moved
  client,    \* the replication client: "down", "failing", "joining" or "up"
  disconnects, \* it has counted a reconnect
  since,     \* ticks since lastSent of a type, Window if longer or never
  ch,        \* the manager's channel
  told,      \* what the webhook heard last, by topic
  said,      \* history: the last alert that was raised, by topic
  fate       \* history: what became of it

avars == <<quiet, silent, checked, client, disconnects, since, ch, told, said, fate>>
managerVars == <<since, ch, told, said, fate>>
monitorVars == <<quiet, silent, checked>>
clientVars == <<client, disconnects>>

Topics == {"bus", "replication"}
Types == {"bus_silence", "bus_resumed", "device_removed", "disconnected", "reconnected"}
Topic(e) == CASE e \in {"bus_silence", "bus_resumed"} -> "bus"
              [] e \in {"disconnected", "reconnected"} -> "replication"
              [] OTHER -> "devices"

LInit ==
  /\ quiet = -1 /\ silent = FALSE /\ checked = FALSE
  /\ client = "down" /\ disconnects = FALSE
  /\ since = [e \in Types |-> Window] /\ ch = <<>>
  /\ told = [t \in Topics |-> "nothing"] /\ said = told
  /\ fate = [t \in Topics |-> "none"]
-----------------------------------------------------------------------------
(* The manager *)

\* An alert that is not heard changes nothing if it only repeats the last one.
Recorded(e, f) ==
  IF Topic(e) \notin Topics \/ (f = "unheard" /\ said[Topic(e)] = e)
  THEN UNCHANGED <<said, fate>>
  ELSE said' = [said EXCEPT ![Topic(e)] = e] /\ fate' = [fate EXCEPT ![Topic(e)] = f]

\* Fire: an alert that is dropped on the full channel counts as sent.
Fire(e) ==
  /\ UNCHANGED told
  /\ IF since[e] < Window THEN Recorded(e, "unheard") /\ UNCHANGED <<since, ch>>
     ELSE /\ since' = [since EXCEPT ![e] = 0]
          /\ IF Len(ch) < AlertCap
             THEN ch' = Append(ch, e) /\ Recorded(e, "queued")
             ELSE ch' = ch /\ Recorded(e, "unheard")

\* The alert at the head of the channel is the last one raised of its topic.
IsLast(t) == fate[t] = "queued" /\ \A i \in 2..Len(ch) : Topic(ch[i]) # t

\* Run and send: one attempt, which succeeds or does not.
Post(ok) ==
  /\ ch # <<>> /\ ch' = Tail(ch)
  /\ LET t == Topic(Head(ch))
     IN  IF t \notin Topics THEN UNCHANGED <<told, fate>>
         ELSE /\ told' = IF ok THEN [told EXCEPT ![t] = Head(ch)] ELSE told
              /\ fate' = IF IsLast(t) THEN [fate EXCEPT ![t] = IF ok THEN "told" ELSE "unheard"] ELSE fate
  /\ UNCHANGED <<since, said, monitorVars, clientVars>>
-----------------------------------------------------------------------------
(* The bus and its monitor *)

Frame == quiet' = 0 /\ checked' = FALSE /\ UNCHANGED <<silent, clientVars, managerVars>>

\* Time passes; what has grown past its limit is not told apart.
Tick ==
  /\ quiet' = IF quiet \in 0..SilenceTimeout THEN quiet + 1 ELSE quiet
  /\ since' = [e \in Types |-> IF since[e] < Window THEN since[e] + 1 ELSE Window]
  /\ quiet' # quiet \/ since' # since
  /\ checked' = FALSE
  /\ UNCHANGED <<silent, clientVars, ch, told, said, fate>>

\* Mutant: the monitor does not forget the silence.
Check_NoReset ==
  /\ quiet >= 0 /\ ~checked /\ checked' = TRUE
  /\ IF quiet >= SilenceTimeout
     THEN silent' = TRUE /\ (IF silent THEN UNCHANGED managerVars ELSE Fire("bus_silence"))
     ELSE silent' = silent /\ (IF silent THEN Fire("bus_resumed") ELSE UNCHANGED managerVars)
  /\ UNCHANGED <<quiet, clientVars>>
\* check, before which no frame was ever received it does nothing.
Check ==
  /\ quiet >= 0 /\ ~checked /\ checked' = TRUE
  /\ silent' = (quiet >= SilenceTimeout)
  /\ CASE silent' /\ ~silent -> Fire("bus_silence")
       [] silent /\ ~silent' -> Fire("bus_resumed")
       [] OTHER -> UNCHANGED managerVars
  /\ UNCHANGED <<quiet, clientVars>>
-----------------------------------------------------------------------------
(* The replication client *)

Connected == client \in {"joining", "up", "failing"}

\* A handshake: connected is set, and then the alert is raised, if there was a
\* failure before.
Handshake ==
  /\ client = "down" /\ client' = IF disconnects THEN "joining" ELSE "up"
  /\ UNCHANGED <<disconnects, managerVars, monitorVars>>
Joined ==
  /\ client = "joining" /\ client' = "up" /\ Fire("reconnected")
  /\ UNCHANGED <<disconnects, monitorVars>>

\* connectAndStream returns, from a stream or from an attempt to get one: the
\* alert is raised, and then connected is cleared.
Fails ==
  /\ client \in {"down", "up"} /\ disconnects' = TRUE
  /\ client' = IF client = "up" THEN "failing" ELSE "down"
  /\ Fire("disconnected") /\ UNCHANGED monitorVars
Failed ==
  /\ client = "failing" /\ client' = "down"
  /\ UNCHANGED <<disconnects, managerVars, monitorVars>>

\* The broker expires a device.
FireDeviceRemoved == Fire("device_removed") /\ UNCHANGED <<monitorVars, clientVars>>

LNext ==
  \/ Frame \/ Tick \/ Check \/ Handshake \/ Joined \/ Fails \/ Failed \/ FireDeviceRemoved
  \/ \E ok \in BOOLEAN : Post(ok)
LSpec == LInit /\ [][LNext]_avars
-----------------------------------------------------------------------------
(* The health endpoint *)

\* buildHealth, which LivenessHandler does without.
Health == IF quiet > SilenceTimeout \/ ~Connected THEN "degraded" ELSE "ok"

(* Properties *)

AtRest == client \in {"up", "down"}

\* When the alert of the last change has reached the webhook, the webhook's last
\* word on the bus is the monitor's and its last word on replication the
\* client's; and once the monitor has looked, both agree with what /healthz
\* says, except in the instant the timeout is reached, which only the monitor
\* counts as silence.  Alerts that were suppressed as duplicates, dropped on the
\* full channel or refused by the webhook are never made up for.
AlertsAgree ==
  /\ fate["bus"] = "told" => (told["bus"] = "bus_silence") = silent
  /\ (fate["replication"] = "told" /\ AtRest) => (told["replication"] = "disconnected") = (client = "down")
  /\ (fate["replication"] = "told" /\ fate["bus"] \in {"none", "told"} /\ AtRest /\ checked /\ quiet # SilenceTimeout) =>
       (Health = "ok") = (told["bus"] # "bus_silence" /\ told["replication"] = "reconnected")
=============================================================================
