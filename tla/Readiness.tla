------------------------------ MODULE Readiness ------------------------------
(***************************************************************************)
(* The health records of the daemons (health.py) and the verifier that     *)
(* decides from them whether a capability profile is ready (readiness.py). *)
(* Every daemon publishes a retained record on sparc/health/<service>; the *)
(* verifier keeps the newest it received, samples them, and passes after   *)
(* SamplesNeeded healthy samples in each of which every record is new.     *)
(*                                                                         *)
(* One tick is one interval: five seconds for the daemons and for the      *)
(* verifier.  clock is the verifier's; a daemon on another node stamps its *)
(* records with a clock of its own, ahead or behind by a constant.         *)
(*                                                                         *)
(* A link is "up", "down", or "pending": its client says connected, and    *)
(* nothing passes (a dead peer the keepalive has not noticed, or a         *)
(* connection whose subscription is not answered yet).                     *)
(***************************************************************************)
EXTENDS Integers

CONSTANTS
  Profile,        \* "v0.3", "v0.4" or "active"
  Backend,        \* what earsd transcribes with: "mlx_local" or "genaid"
  SamplesNeeded,  \* SPARC_VERIFY_SAMPLES
  StaleAfter,     \* SPARC_HEALTH_STALE_S, in ticks
  Tolerance,      \* how far in the future a record may be: 5 s, in ticks
  Ahead,          \* per daemon: ticks its clock is ahead of the verifier's
  Deadline,       \* SPARC_VERIFY_DEADLINE_S, in ticks
  MaxReports,     \* bound: records a daemon makes
  MaxFaults,      \* bound: crashes, illnesses and losses of a link
  NoReport        \* a topic on which nothing was published

Profiles == {"v0.3", "v0.4", "active"}

ASSUME ReadinessAssumption ==
  /\ Profile \in Profiles
  /\ Backend \in {"mlx_local", "genaid"}
  /\ SamplesNeeded \in Nat \ {0}
  /\ StaleAfter \in Nat
  /\ Deadline \in Nat \ {0}
  /\ MaxReports \in Nat
  /\ MaxFaults \in Nat

\* The daemons a profile requires a record of.
Required ==
  {"orchestrator"}
    \cup (IF Profile \in {"v0.3", "active"} THEN {"earsd"} ELSE {})
    \cup (IF Profile \in {"v0.4", "active"} THEN {"tripwire", "enrich"} ELSE {})

ASSUME SkewAssumption == Tolerance \in Nat /\ Ahead \in [Required -> Int]

Links == {"up", "pending", "down"}

\* A ServiceHealth: its msg_id, its ts, and whether it says ready with every
\* detail the profile asks for.  Ids are the numbers of the daemon's records.
Report == [id : 1..MaxReports, ts : Int, well : BOOLEAN]

ASSUME NoReportAssumption == NoReport \notin Report

NoReports == [s \in Required |-> NoReport]

Endpoints == {"cortexd", "genaid"}

VARIABLES
  clock,        \* ticks since the verifier started
  faults,       \* faults so far
  up,           \* per daemon: it runs
  sound,        \* per daemon: its devices, models and threads are well
  link,         \* per daemon: its connection to the broker
  made,         \* per daemon: the records it made
  held,         \* per daemon: the newest record its client could not send yet
  lastWell,     \* history, per daemon: when it last made a ready record
  retained,     \* the broker's retained record of each topic
  reports,      \* HealthCollector._reports
  heard,        \* the collector's connection to the broker
  phase,        \* main: "sleeping", "asking", "passed" or "failed"
  wake,         \* when main's sleep ends
  snap,         \* the reports main took before it asks cortexd
  consecutive,
  last          \* last_counted_ids, NoReports for None

daemonVars   == <<up, sound, link, made, held, lastWell, retained>>
verifierVars == <<phase, wake, snap, consecutive, last>>
vars == <<clock, faults, daemonVars, reports, heard, verifierVars>>

Init ==
  /\ clock = 0
  /\ faults = 0
  /\ up = [s \in Required |-> FALSE]
  /\ sound = [s \in Required |-> TRUE]
  /\ link = [s \in Required |-> "down"]
  /\ made = [s \in Required |-> 0]
  /\ held = NoReports
  /\ lastWell = [s \in Required |-> -1]
  /\ retained = NoReports
  /\ reports = NoReports
  /\ heard = "down"
  /\ phase = "sleeping"
  /\ wake = 0
  /\ snap = NoReports
  /\ consecutive = 0
  /\ last = NoReports

-----------------------------------------------------------------------------
(* The daemons.                                                            *)

\* The probe of a daemon whose client says connected, or not: mqtt_ready is
\* one of the details, and a probe that raises makes a record not ready.
Message(s, connected) ==
  [id |-> made[s] + 1, ts |-> clock + Ahead[s], well |-> sound[s] /\ connected]

\* The broker keeps the record and hands it to a collector it can reach.
Retain(s, r) ==
  /\ retained' = [retained EXCEPT ![s] = r]
  /\ reports' = IF heard = "up" THEN [reports EXCEPT ![s] = r] ELSE reports

\* HealthReporter.publish.  A publish on a broken connection stays with the
\* client, whatever publish says of it, until the connection is back.
Publish(s, l) ==
  LET r == Message(s, l # "down") IN
  /\ made[s] < MaxReports
  /\ made' = [made EXCEPT ![s] = r.id]
  /\ lastWell' = IF r.well THEN [lastWell EXCEPT ![s] = clock] ELSE lastWell
  /\ IF l = "up"
       THEN Retain(s, r) /\ UNCHANGED held
       ELSE held' = [held EXCEPT ![s] = r] /\ UNCHANGED <<retained, reports>>

\* A daemon starts: it waits for its bus, and the first record goes out
\* before the thread that repeats it.
StartDaemon(s) ==
  /\ ~up[s]
  /\ up' = [up EXCEPT ![s] = TRUE]
  /\ link' = [link EXCEPT ![s] = "up"]
  /\ Publish(s, "up")
  /\ UNCHANGED <<clock, faults, sound, heard, verifierVars>>

\* The five-second wait of the health thread ends.
Republish(s) ==
  /\ up[s]
  /\ Publish(s, link[s])
  /\ UNCHANGED <<clock, faults, up, sound, link, heard, verifierVars>>

Fault == faults < MaxFaults /\ faults' = faults + 1

\* A daemon dies, with what its client held.
CrashDaemon(s) ==
  /\ up[s] /\ Fault
  /\ up' = [up EXCEPT ![s] = FALSE]
  /\ link' = [link EXCEPT ![s] = "down"]
  /\ held' = [held EXCEPT ![s] = NoReport]
  /\ UNCHANGED <<clock, sound, made, lastWell, retained, reports, heard,
                 verifierVars>>

\* A microphone is unplugged, a database fails, the camera stops.
FallIll(s) ==
  /\ sound[s] /\ Fault
  /\ sound' = [sound EXCEPT ![s] = FALSE]
  /\ UNCHANGED <<clock, up, link, made, held, lastWell, retained, reports,
                 heard, verifierVars>>

Recover(s) ==
  /\ ~sound[s]
  /\ sound' = [sound EXCEPT ![s] = TRUE]
  /\ UNCHANGED <<clock, faults, up, link, made, held, lastWell, retained,
                 reports, heard, verifierVars>>

\* A daemon's connection breaks; its client notices; it connects again.
LinkChange(s) ==
  /\ up[s]
  /\ \/ link[s] = "up" /\ Fault /\ link' = [link EXCEPT ![s] = "pending"]
     \/ link[s] = "pending" /\ link' = [link EXCEPT ![s] = "down"] /\ UNCHANGED faults
     \/ link[s] = "down" /\ link' = [link EXCEPT ![s] = "pending"] /\ UNCHANGED faults
  /\ UNCHANGED <<clock, up, sound, made, held, lastWell, retained, reports,
                 heard, verifierVars>>

\* The connection carries again: what the client held goes out, in order,
\* and the last of it stays on the topic.
LinkBack(s) ==
  /\ up[s] /\ link[s] = "pending"
  /\ link' = [link EXCEPT ![s] = "up"]
  /\ IF held[s] = NoReport
       THEN UNCHANGED <<retained, reports>>
       ELSE Retain(s, held[s])
  /\ held' = [held EXCEPT ![s] = NoReport]
  /\ UNCHANGED <<clock, faults, up, sound, made, lastWell, heard, verifierVars>>

-----------------------------------------------------------------------------
(* HealthCollector.                                                        *)

connected == heard # "down"

\* _on_connect sets connected and subscribes; _on_disconnect clears it, when
\* the client notices.
OnConnect ==
  /\ heard = "down"
  /\ heard' = "pending"
  /\ UNCHANGED <<clock, faults, daemonVars, reports, verifierVars>>

OnDisconnect ==
  /\ heard = "pending"
  /\ heard' = "down"
  /\ UNCHANGED <<clock, faults, daemonVars, reports, verifierVars>>

\* The collector's connection breaks and nobody has noticed.
LoseConnection ==
  /\ heard = "up" /\ Fault
  /\ heard' = "pending"
  /\ UNCHANGED <<clock, daemonVars, reports, verifierVars>>

\* The subscription is answered with the retained records: _on_message keeps
\* each, and a topic nobody published on leaves what was there.
OnRetained ==
  /\ heard = "pending"
  /\ heard' = "up"
  /\ reports' = [s \in Required |->
                   IF retained[s] = NoReport THEN reports[s] ELSE retained[s]]
  /\ UNCHANGED <<clock, faults, daemonVars, verifierVars>>

-----------------------------------------------------------------------------
(* The verifier.                                                           *)

\* Mutant: a retained record does not age.
Ageless(r) == TRUE

\* Not older than StaleAfter, and not from the future but for the clocks.
Fresh(r) == -Tolerance <= clock - r.ts /\ clock - r.ts <= StaleAfter

\* The endpoints main asks: genaid only when the snapshot's earsd uses it.
Asked ==
  {"cortexd"} \cup
    {e \in {"genaid"} : "earsd" \in Required /\ Backend = "genaid"
                        /\ snap["earsd"] # NoReport}

\* evaluate_profile over the snapshot, with the endpoints that answer well.
Healthy(answering) ==
  /\ connected
  /\ \A s \in Required : snap[s] # NoReport /\ Fresh(snap[s]) /\ snap[s].well
  /\ Asked \subseteq answering

\* Mutant: one refreshed record is enough.
SomeRefreshed ==
  \/ last = NoReports
  \/ \E s \in Required : snap[s].id # last[s].id

\* Every record is another one than at the last counted sample.
Refreshed ==
  \/ last = NoReports
  \/ \A s \in Required : snap[s].id # last[s].id

Snapshot ==
  /\ phase = "sleeping" /\ clock >= wake
  /\ phase' = "asking"
  /\ snap' = reports
  /\ UNCHANGED <<clock, faults, daemonVars, reports, heard, wake, consecutive,
                 last>>

Count ==
  /\ consecutive' = consecutive + 1
  /\ last' = snap

Reset ==
  /\ consecutive' = 0
  /\ last' = NoReports

\* How an iteration of main's loop ends.
Conclude ==
  /\ phase' = IF consecutive' >= SamplesNeeded THEN "passed"
              ELSE IF clock >= Deadline THEN "failed"
              ELSE "sleeping"
  /\ wake' = clock + 1
  /\ snap' = NoReports

Evaluate ==
  /\ phase = "asking"
  /\ \E answering \in SUBSET Endpoints :
       IF ~Healthy(answering) THEN Reset
       ELSE IF Refreshed THEN Count
       ELSE UNCHANGED <<consecutive, last>>
  /\ Conclude
  /\ UNCHANGED <<clock, faults, daemonVars, reports, heard>>

-----------------------------------------------------------------------------
\* Time passes; a health request of at most eight seconds ends within it.
Tick ==
  /\ phase \in {"sleeping", "asking"}
  /\ clock < wake + 1
  /\ clock' = clock + 1
  /\ UNCHANGED <<faults, daemonVars, reports, heard, verifierVars>>

Next ==
  \/ \E s \in Required :
       \/ StartDaemon(s) \/ Republish(s) \/ CrashDaemon(s)
       \/ FallIll(s) \/ Recover(s) \/ LinkChange(s) \/ LinkBack(s)
  \/ OnConnect \/ OnDisconnect \/ LoseConnection \/ OnRetained
  \/ Snapshot \/ Evaluate \/ Tick

Spec == Init /\ [][Next]_vars

-----------------------------------------------------------------------------
(* Properties.                                                             *)

MaybeReport == Report \cup {NoReport}

\* Types; the count never exceeds the samples needed, and the loop is over
\* exactly when it reaches them (readiness.py main).
ReadinessTypeOK ==
  /\ clock \in 0..(Deadline + 2)
  /\ faults \in 0..MaxFaults
  /\ up \in [Required -> BOOLEAN]
  /\ sound \in [Required -> BOOLEAN]
  /\ link \in [Required -> Links]
  /\ made \in [Required -> 0..MaxReports]
  /\ held \in [Required -> MaybeReport]
  /\ lastWell \in [Required -> -1..(Deadline + 2)]
  /\ retained \in [Required -> MaybeReport]
  /\ reports \in [Required -> MaybeReport]
  /\ heard \in Links
  /\ phase \in {"sleeping", "asking", "passed", "failed"}
  /\ wake \in 0..(Deadline + 2)
  /\ snap \in [Required -> MaybeReport]
  /\ consecutive \in 0..SamplesNeeded
  /\ last \in [Required -> MaybeReport]
  /\ (phase = "passed") <=> (consecutive = SamplesNeeded)

\* "Every required daemon must refresh its retained message between counted
\* samples": over crashes, restarts, records held by a broken connection and
\* retained records delivered again, a counted sample holds a later record of
\* every required daemon than the counted sample before it.
CountedAdvances ==
  [][consecutive' = consecutive + 1 /\ consecutive > 0
       => \A s \in Required : snap[s].id > last[s].id]_vars

\* "A dead daemon becomes stale" (health.py HealthReporter): no sample counts
\* unless every required daemon, dead or alive by now, made a ready record at
\* most StaleAfter ago, up to what its clock is ahead, whatever the broker and
\* the collector still hold.
NobodyLongDeadCounts ==
  [][consecutive' = consecutive + 1
       => \A s \in Required : lastWell[s] >= 0 /\ clock - lastWell[s] <= StaleAfter + Ahead[s]]_vars
=============================================================================
