--------------------------- MODULE ReadinessProofs ---------------------------
(***************************************************************************)
(* Theorems about Readiness, for every profile, every number of samples,   *)
(* any deadline and any number of records and faults.                      *)
(*                                                                         *)
(* A record passes from its daemon's client to the broker, the collector,  *)
(* the snapshot and the last counted sample.  The properties follow from   *)
(* two facts about all these places at once: the numbers of a daemon's     *)
(* records never rise along that way, and the daemon remembers a time at   *)
(* least as late as that of every ready record on it.                      *)
(***************************************************************************)
EXTENDS Readiness, TLAPS

\* The number of a record, 0 for none.
Number(r) == IF r = NoReport THEN 0 ELSE r.id

\* The clock is at most one tick ahead of the verifier's next sample.
ClockIsNear ==
  /\ clock <= wake + 1
  /\ phase \in {"sleeping", "asking"} => wake <= Deadline
  /\ clock <= Deadline + 1

\* A client whose connection carries, and no client, hold a record back.
OfflineAt(s) == link[s] = "up" \/ ~up[s] => held[s] = NoReport
HeldIsOffline == \A s \in Required : OfflineAt(s)

\* Newer records are nearer to the daemon.
InOrderAt(s) ==
  /\ Number(last[s]) <= Number(reports[s])
  /\ phase = "asking" => /\ Number(last[s]) <= Number(snap[s])
                         /\ Number(snap[s]) <= Number(reports[s])
  /\ Number(reports[s]) <= Number(retained[s])
  /\ Number(retained[s]) <= made[s]
  /\ held[s] # NoReport => /\ Number(retained[s]) <= Number(held[s])
                           /\ Number(held[s]) <= made[s]
RecordsInOrder == \A s \in Required : InOrderAt(s)

\* A ready record, wherever it is kept, is no later than the daemon's last, by the
\* daemon's clock.
RememberedAt(s) ==
  /\ lastWell[s] <= clock
  /\ \A r \in {held[s], retained[s], reports[s], snap[s]} :
       r # NoReport /\ r.well => 0 <= lastWell[s] /\ r.ts <= lastWell[s] + Ahead[s]
WellIsRemembered == \A s \in Required : RememberedAt(s)

\* A count goes back to a sample that had every record.
CountHasRecords ==
  consecutive > 0 => \A s \in Required : last[s] # NoReport

ReadinessInv ==
  /\ ReadinessTypeOK
  /\ ClockIsNear
  /\ HeldIsOffline
  /\ RecordsInOrder
  /\ WellIsRemembered
  /\ CountHasRecords

-----------------------------------------------------------------------------

LEMMA SomebodyIsRequired == "orchestrator" \in Required
BY DEF Required

\* What a daemon says of itself is a record with the next number.
LEMMA MessageType ==
  ASSUME ReadinessInv, NEW s \in Required, NEW c \in BOOLEAN, made[s] < MaxReports
  PROVE  /\ Message(s, c) \in Report
         /\ Message(s, c) # NoReport
         /\ Message(s, c).id = made[s] + 1
         /\ Message(s, c).ts = clock + Ahead[s]
<1>1. /\ made[s] \in 0..MaxReports /\ clock + Ahead[s] \in Int /\ sound[s] \in BOOLEAN
  BY ReadinessAssumption, SkewAssumption DEF ReadinessInv, ReadinessTypeOK
<1>2. made[s] + 1 \in 1..MaxReports
  BY <1>1, ReadinessAssumption
<1>3. Message(s, c) \in Report
  BY <1>1, <1>2 DEF Message, Report
<1>. QED BY <1>3, NoReportAssumption DEF Message

\* Anything kept for a daemon is a record of it or none.
LEMMA NumberType ==
  ASSUME NEW r \in MaybeReport
  PROVE  Number(r) \in Nat /\ (r # NoReport => r \in Report /\ Number(r) = r.id)
BY ReadinessAssumption DEF MaybeReport, Report, Number

LEMMA InitInv == Init => ReadinessInv
<1>. SUFFICES ASSUME Init PROVE ReadinessInv
  OBVIOUS
<1>. USE ReadinessAssumption DEF Init, NoReports
<1>1. ReadinessTypeOK
  BY DEF ReadinessTypeOK, Links, MaybeReport
<1>2. ClockIsNear /\ HeldIsOffline /\ CountHasRecords
  BY DEF ClockIsNear, HeldIsOffline, OfflineAt, CountHasRecords
<1>3. RecordsInOrder
  BY DEF RecordsInOrder, InOrderAt, Number
<1>4. WellIsRemembered
  BY DEF WellIsRemembered, RememberedAt
<1>. QED BY <1>1, <1>2, <1>3, <1>4 DEF ReadinessInv

-----------------------------------------------------------------------------
(* Steps of the daemons                                                    *)

\* Steps that move no record and count no sample: illness and recovery, a link
\* that breaks without loss, the collector's connection.
LEMMA QuietInv ==
  ASSUME ReadinessInv,
         \/ \E s \in Required : FallIll(s) \/ Recover(s) \/ LinkChange(s)
         \/ OnConnect \/ OnDisconnect \/ LoseConnection
  PROVE  ReadinessInv'
<1>. USE DEF ReadinessInv
<1>1. /\ UNCHANGED <<clock, up, made, held, lastWell, retained, reports, verifierVars>>
      /\ \A s \in Required : link'[s] = "up" => link[s] = "up"
      /\ sound' \in [Required -> BOOLEAN]
      /\ link' \in [Required -> Links]
      /\ heard' \in Links
      /\ faults' \in 0..MaxFaults
  <2>1. CASE \E s \in Required : FallIll(s) \/ Recover(s)
    <3>. PICK s \in Required : FallIll(s) \/ Recover(s)
      BY <2>1
    <3>1. sound' \in [Required -> BOOLEAN] /\ faults' \in 0..MaxFaults
      <4>1. CASE FallIll(s)
        BY <4>1, ReadinessAssumption DEF FallIll, Fault, ReadinessTypeOK
      <4>2. CASE Recover(s)
        BY <4>2 DEF Recover, ReadinessTypeOK
      <4>. QED BY <4>1, <4>2
    <3>2. UNCHANGED <<clock, up, link, made, held, lastWell, retained, reports, heard,
                      verifierVars>>
      BY DEF FallIll, Recover
    <3>. QED BY <3>1, <3>2 DEF ReadinessTypeOK
  <2>2. CASE \E s \in Required : LinkChange(s)
    BY <2>2, ReadinessAssumption DEF LinkChange, Fault, ReadinessTypeOK, verifierVars, Links
  <2>3. CASE OnConnect \/ OnDisconnect \/ LoseConnection
    BY <2>3, ReadinessAssumption
    DEF OnConnect, OnDisconnect, LoseConnection, Fault, ReadinessTypeOK, daemonVars,
        verifierVars, Links
  <2>. QED BY <2>1, <2>2, <2>3
<1>. USE <1>1 DEF verifierVars
<1>2. ReadinessTypeOK'
  BY DEF ReadinessTypeOK, MaybeReport
<1>3. ClockIsNear' /\ HeldIsOffline' /\ CountHasRecords'
  BY DEF ClockIsNear, HeldIsOffline, OfflineAt, CountHasRecords
<1>4. RecordsInOrder' /\ WellIsRemembered'
  BY DEF RecordsInOrder, InOrderAt, WellIsRemembered, RememberedAt, Number
<1>. QED BY <1>2, <1>3, <1>4

\* A new record is the highest of its daemon, and not older than any.
LEMMA PublishInv ==
  ASSUME ReadinessInv, NEW s \in Required, StartDaemon(s) \/ Republish(s)
  PROVE  ReadinessInv'
<1>. DEFINE l == IF up[s] THEN link[s] ELSE "up"
            r == Message(s, l # "down")
<1>1. /\ Publish(s, l)
      /\ l \in Links
      /\ l = "up" => link[s] = "up" \/ ~up[s]
      /\ up' \in [Required -> BOOLEAN] /\ up'[s] = TRUE
      /\ link' \in [Required -> Links] /\ link'[s] = l
      /\ \A t \in Required \ {s} : up'[t] = up[t] /\ link'[t] = link[t]
      /\ UNCHANGED <<clock, faults, sound, heard, verifierVars>>
  BY DEF StartDaemon, Republish, ReadinessInv, ReadinessTypeOK, Links
<1>2. /\ made[s] < MaxReports
      /\ made' = [made EXCEPT ![s] = r.id]
      /\ lastWell' = IF r.well THEN [lastWell EXCEPT ![s] = clock] ELSE lastWell
      /\ IF l = "up"
           THEN Retain(s, r) /\ UNCHANGED held
           ELSE held' = [held EXCEPT ![s] = r] /\ UNCHANGED <<retained, reports>>
  BY <1>1 DEF Publish
<1>3. r \in Report /\ r # NoReport /\ r.id = made[s] + 1 /\ r.ts = clock + Ahead[s]
  BY <1>2, MessageType
<1>. HIDE DEF l, r
<1>4. ReadinessTypeOK'
  <2>1. /\ made' \in [Required -> 0..MaxReports]
        /\ lastWell' \in [Required -> -1..Deadline + 2]
    <3>1. r.id \in 0..MaxReports /\ clock \in -1..Deadline + 2
      BY <1>3, ReadinessAssumption DEF Report, ReadinessInv, ReadinessTypeOK
    <3>. QED BY <1>2, <3>1 DEF ReadinessInv, ReadinessTypeOK
  <2>2. /\ held' \in [Required -> MaybeReport]
        /\ retained' \in [Required -> MaybeReport]
        /\ reports' \in [Required -> MaybeReport]
    BY <1>2, <1>3 DEF ReadinessInv, ReadinessTypeOK, MaybeReport, Retain
  <2>. QED BY <1>1, <2>1, <2>2 DEF ReadinessInv, ReadinessTypeOK, verifierVars
<1>5. ClockIsNear' /\ CountHasRecords'
  BY <1>1 DEF ReadinessInv, ClockIsNear, CountHasRecords, verifierVars
<1>7. \A t \in Required :
        /\ last'[t] = last[t] /\ snap'[t] = snap[t]
        /\ t # s => /\ made'[t] = made[t] /\ held'[t] = held[t]
                    /\ retained'[t] = retained[t] /\ reports'[t] = reports[t]
                    /\ lastWell'[t] = lastWell[t]
        /\ t = s => /\ made'[t] = r.id
                    /\ lastWell'[t] = IF r.well THEN clock ELSE lastWell[t]
                    /\ \/ /\ l = "up"
                          /\ held'[t] = held[t] /\ retained'[t] = r
                          /\ reports'[t] \in {reports[t], r}
                       \/ /\ l # "up"
                          /\ held'[t] = r
                          /\ retained'[t] = retained[t] /\ reports'[t] = reports[t]
  <2>1. CASE l = "up"
    BY <2>1, <1>1, <1>2 DEF ReadinessInv, ReadinessTypeOK, Retain, verifierVars
  <2>2. CASE l # "up"
    BY <2>2, <1>1, <1>2 DEF ReadinessInv, ReadinessTypeOK, verifierVars
  <2>. QED BY <2>1, <2>2
<1>8. ASSUME NEW t \in Required PROVE OfflineAt(t)' /\ InOrderAt(t)' /\ RememberedAt(t)'
  <2>0. /\ OfflineAt(t) /\ InOrderAt(t) /\ RememberedAt(t)
        /\ UNCHANGED <<clock, phase>>
    BY <1>1 DEF ReadinessInv, HeldIsOffline, RecordsInOrder, WellIsRemembered, verifierVars
  <2>1. CASE t # s
    BY <2>0, <2>1, <1>1, <1>7 DEF OfflineAt, InOrderAt, RememberedAt, Number
  <2>2. CASE t = s
    <3>1. OfflineAt(s)'
      BY <2>0, <2>2, <1>1, <1>7 DEF OfflineAt
    <3>2. InOrderAt(s)'
      <4>1. /\ Number(r) = made[s] + 1 /\ made[s] \in Nat
            /\ \A q \in {last[s], snap[s], reports[s], retained[s], held[s]} : Number(q) \in Nat
        BY <1>3, NumberType, ReadinessAssumption DEF ReadinessInv, ReadinessTypeOK, Number
      <4>2. made'[s] = Number(r)
        BY <1>3, <1>7 DEF Number
      <4>3. /\ Number(last'[s]) = Number(last[s])
            /\ Number(snap'[s]) = Number(snap[s])
            /\ phase' = phase
        BY <2>0, <1>7
      <4>4. CASE l = "up"
        <5>1. /\ Number(retained'[s]) = Number(r) /\ held'[s] = NoReport
              /\ Number(reports'[s]) \in {Number(reports[s]), Number(r)}
          BY <4>4, <2>0, <2>2, <1>1, <1>7 DEF OfflineAt
        <5>. QED BY <5>1, <4>1, <4>2, <4>3, <2>0, <2>2 DEF InOrderAt
      <4>5. CASE l # "up"
        <5>1. /\ Number(retained'[s]) = Number(retained[s]) /\ Number(held'[s]) = Number(r)
              /\ Number(reports'[s]) = Number(reports[s])
          BY <4>5, <1>7
        <5>. QED BY <5>1, <4>1, <4>2, <4>3, <2>0, <2>2 DEF InOrderAt
      <4>. QED BY <4>4, <4>5
    <3>3. RememberedAt(s)'
      <4>1. lastWell[s] \in Int /\ clock \in Nat /\ Ahead[s] \in Int
        BY ReadinessAssumption, SkewAssumption DEF ReadinessInv, ReadinessTypeOK
      <4>2. \A q \in {held[s], retained[s], reports[s], snap[s]} :
              q # NoReport => q.ts \in Int
        BY ReadinessAssumption DEF ReadinessInv, ReadinessTypeOK, MaybeReport, Report
      <4>. QED BY <4>1, <4>2, <2>0, <2>2, <1>3, <1>7 DEF RememberedAt
    <3>. QED BY <2>2, <3>1, <3>2, <3>3
  <2>. QED BY <2>1, <2>2
<1>. QED
  BY <1>4, <1>5, <1>8 DEF ReadinessInv, HeldIsOffline, RecordsInOrder, WellIsRemembered

\* A daemon's end takes with it what its client held, and nothing else.
LEMMA CrashDaemonInv ==
  ASSUME ReadinessInv, NEW s \in Required, CrashDaemon(s)
  PROVE  ReadinessInv'
<1>1. /\ UNCHANGED <<clock, sound, made, lastWell, retained, reports, heard, verifierVars>>
      /\ faults' \in 0..MaxFaults
      /\ \A t \in Required : IF t = s THEN held'[t] = NoReport
                             ELSE up'[t] = up[t] /\ link'[t] = link[t] /\ held'[t] = held[t]
  BY ReadinessAssumption DEF CrashDaemon, Fault, ReadinessInv, ReadinessTypeOK
<1>2. ReadinessTypeOK'
  BY <1>1 DEF CrashDaemon, ReadinessInv, ReadinessTypeOK, MaybeReport, Links, verifierVars
<1>3. ClockIsNear' /\ CountHasRecords'
  BY <1>1 DEF ReadinessInv, ClockIsNear, CountHasRecords, verifierVars
<1>4. ASSUME NEW t \in Required PROVE OfflineAt(t)' /\ InOrderAt(t)' /\ RememberedAt(t)'
  <2>1. OfflineAt(t) /\ InOrderAt(t) /\ RememberedAt(t)
    BY DEF ReadinessInv, HeldIsOffline, RecordsInOrder, WellIsRemembered
  <2>. QED BY <2>1, <1>1 DEF OfflineAt, InOrderAt, RememberedAt, Number, verifierVars
<1>. QED
  BY <1>2, <1>3, <1>4 DEF ReadinessInv, HeldIsOffline, RecordsInOrder, WellIsRemembered

\* What was held is newer than what the broker retains, and becomes that.
LEMMA LinkBackInv ==
  ASSUME ReadinessInv, NEW s \in Required, LinkBack(s)
  PROVE  ReadinessInv'
<1>1. /\ UNCHANGED <<clock, faults, up, sound, made, lastWell, heard, verifierVars>>
      /\ link' = [link EXCEPT ![s] = "up"]
      /\ held' = [held EXCEPT ![s] = NoReport]
      /\ IF held[s] = NoReport THEN UNCHANGED <<retained, reports>> ELSE Retain(s, held[s])
  BY DEF LinkBack
<1>2. held[s] \in MaybeReport
  BY DEF ReadinessInv, ReadinessTypeOK
<1>3. ReadinessTypeOK'
  <2>1. /\ retained' \in [Required -> MaybeReport]
        /\ reports' \in [Required -> MaybeReport]
    BY <1>1, <1>2 DEF ReadinessInv, ReadinessTypeOK, Retain
  <2>2. /\ link' \in [Required -> Links]
        /\ held' \in [Required -> MaybeReport]
    BY <1>1 DEF ReadinessInv, ReadinessTypeOK, Links, MaybeReport
  <2>. QED BY <1>1, <2>1, <2>2 DEF ReadinessInv, ReadinessTypeOK, verifierVars
<1>4. ClockIsNear' /\ CountHasRecords'
  BY <1>1 DEF ReadinessInv, ClockIsNear, CountHasRecords, verifierVars
<1>5. \A t \in Required :
        /\ last'[t] = last[t] /\ snap'[t] = snap[t]
        /\ made'[t] = made[t] /\ lastWell'[t] = lastWell[t] /\ up'[t] = up[t]
        /\ t # s => /\ held'[t] = held[t] /\ link'[t] = link[t]
                    /\ retained'[t] = retained[t] /\ reports'[t] = reports[t]
        /\ t = s => /\ held'[t] = NoReport
                    /\ \/ retained'[t] = retained[t] /\ reports'[t] = reports[t]
                       \/ /\ held[t] # NoReport /\ retained'[t] = held[t]
                          /\ reports'[t] \in {reports[t], held[t]}
  <2>1. CASE held[s] = NoReport
    BY <2>1, <1>1 DEF ReadinessInv, ReadinessTypeOK, verifierVars
  <2>2. CASE held[s] # NoReport
    BY <2>2, <1>1 DEF ReadinessInv, ReadinessTypeOK, Retain, verifierVars
  <2>. QED BY <2>1, <2>2
<1>6. ASSUME NEW t \in Required PROVE OfflineAt(t)' /\ InOrderAt(t)' /\ RememberedAt(t)'
  <2>1. /\ OfflineAt(t) /\ InOrderAt(t) /\ RememberedAt(t)
        /\ UNCHANGED <<clock, phase>>
    BY <1>1 DEF ReadinessInv, HeldIsOffline, RecordsInOrder, WellIsRemembered, verifierVars
  <2>2. OfflineAt(t)'
    BY <2>1, <1>1, <1>5 DEF OfflineAt
  <2>3. InOrderAt(t)'
    <3>1. \A q \in {last[t], snap[t], reports[t], retained[t], held[t]} : Number(q) \in Nat
      BY NumberType DEF ReadinessInv, ReadinessTypeOK
    <3>2. \/ /\ Number(retained'[t]) = Number(retained[t])
             /\ Number(reports'[t]) = Number(reports[t])
          \/ /\ held[t] # NoReport
             /\ Number(retained'[t]) = Number(held[t])
             /\ Number(reports'[t]) \in {Number(reports[t]), Number(held[t])}
      BY <1>5
    <3>3. /\ Number(last'[t]) = Number(last[t])
          /\ Number(snap'[t]) = Number(snap[t])
          /\ made'[t] = made[t] /\ made[t] \in Nat
          /\ held'[t] \in {NoReport, held[t]} /\ (held'[t] # NoReport => t # s)
      BY <1>5, ReadinessAssumption DEF ReadinessInv, ReadinessTypeOK
    <3>4. t # s => retained'[t] = retained[t] /\ reports'[t] = reports[t]
      BY <1>5
    <3>. QED BY <2>1, <3>1, <3>2, <3>3, <3>4 DEF InOrderAt
  <2>4. RememberedAt(t)'
    BY <2>1, <1>5 DEF RememberedAt
  <2>. QED BY <2>2, <2>3, <2>4
<1>. QED
  BY <1>3, <1>4, <1>6 DEF ReadinessInv, HeldIsOffline, RecordsInOrder, WellIsRemembered

-----------------------------------------------------------------------------
(* Steps of the collector and of the verifier                              *)

\* A retained record is at least as new as the one the collector has.
LEMMA OnRetainedInv == ReadinessInv /\ OnRetained => ReadinessInv'
<1>. SUFFICES ASSUME ReadinessInv, OnRetained PROVE ReadinessInv'
  OBVIOUS
<1>1. /\ UNCHANGED <<clock, faults, daemonVars, verifierVars>>
      /\ heard' = "up"
      /\ \A t \in Required :
           reports'[t] = IF retained[t] = NoReport THEN reports[t] ELSE retained[t]
  BY DEF OnRetained
<1>2. ReadinessTypeOK'
  BY <1>1 DEF OnRetained, ReadinessInv, ReadinessTypeOK, MaybeReport, Links, daemonVars,
              verifierVars
<1>3. ClockIsNear' /\ CountHasRecords'
  BY <1>1 DEF ReadinessInv, ClockIsNear, CountHasRecords, daemonVars, verifierVars
<1>4. ASSUME NEW t \in Required PROVE OfflineAt(t)' /\ InOrderAt(t)' /\ RememberedAt(t)'
  <2>1. OfflineAt(t) /\ InOrderAt(t) /\ RememberedAt(t)
    BY DEF ReadinessInv, HeldIsOffline, RecordsInOrder, WellIsRemembered
  <2>2. \A q \in {last[t], snap[t], reports[t], retained[t], held[t]} : Number(q) \in Nat
    BY NumberType DEF ReadinessInv, ReadinessTypeOK
  <2>3. Number(reports'[t]) \in {Number(reports[t]), Number(retained[t])}
    BY <1>1
  <2>4. InOrderAt(t)'
    BY <1>1, <2>1, <2>2, <2>3 DEF InOrderAt, daemonVars, verifierVars
  <2>. QED BY <1>1, <2>1, <2>4 DEF OfflineAt, RememberedAt, daemonVars, verifierVars
<1>. QED
  BY <1>2, <1>3, <1>4 DEF ReadinessInv, HeldIsOffline, RecordsInOrder, WellIsRemembered

\* main takes the reports as they are.
LEMMA SnapshotInv == ReadinessInv /\ Snapshot => ReadinessInv'
<1>. SUFFICES ASSUME ReadinessInv, Snapshot PROVE ReadinessInv'
  OBVIOUS
<1>1. /\ UNCHANGED <<clock, faults, daemonVars, reports, heard, wake, consecutive, last>>
      /\ phase = "sleeping" /\ phase' = "asking" /\ snap' = reports
  BY DEF Snapshot
<1>2. ReadinessTypeOK'
  BY <1>1 DEF ReadinessInv, ReadinessTypeOK, MaybeReport, daemonVars
<1>3. ClockIsNear' /\ HeldIsOffline' /\ CountHasRecords'
  BY <1>1 DEF ReadinessInv, ClockIsNear, HeldIsOffline, OfflineAt, CountHasRecords, daemonVars
<1>4. ASSUME NEW t \in Required PROVE InOrderAt(t)' /\ RememberedAt(t)'
  <2>1. InOrderAt(t) /\ RememberedAt(t) /\ Number(reports[t]) \in Nat
    BY NumberType DEF ReadinessInv, ReadinessTypeOK, RecordsInOrder, WellIsRemembered
  <2>. QED BY <1>1, <2>1 DEF InOrderAt, RememberedAt, Number, daemonVars
<1>. QED BY <1>2, <1>3, <1>4 DEF ReadinessInv, RecordsInOrder, WellIsRemembered

\* A sample either starts over, counts with every record it was taken of, or
\* leaves the count alone.
LEMMA EvaluateSample ==
  ASSUME Evaluate
  PROVE  \/ consecutive' = 0 /\ last' = NoReports
         \/ /\ consecutive' = consecutive + 1 /\ last' = snap /\ Refreshed
            /\ \A s \in Required : snap[s] # NoReport /\ Fresh(snap[s]) /\ snap[s].well
         \/ consecutive' = consecutive /\ last' = last
BY DEF Evaluate, Reset, Count, Healthy

LEMMA EvaluateInv == ReadinessInv /\ Evaluate => ReadinessInv'
<1>. SUFFICES ASSUME ReadinessInv, Evaluate PROVE ReadinessInv'
  OBVIOUS
<1>1. /\ UNCHANGED <<clock, faults, daemonVars, reports, heard>>
      /\ phase = "asking" /\ wake' = clock + 1 /\ snap' = NoReports
      /\ phase' = IF consecutive' >= SamplesNeeded THEN "passed"
                  ELSE IF clock >= Deadline THEN "failed" ELSE "sleeping"
  BY DEF Evaluate, Conclude
<1>2. /\ clock \in Nat /\ wake \in Nat /\ Deadline \in Nat /\ SamplesNeeded \in Nat \ {0}
      /\ clock <= wake + 1 /\ wake <= Deadline /\ clock <= Deadline + 1
      /\ consecutive \in 0..SamplesNeeded /\ consecutive # SamplesNeeded
  BY <1>1, ReadinessAssumption DEF ReadinessInv, ReadinessTypeOK, ClockIsNear
<1>3. /\ consecutive' \in 0..SamplesNeeded
      /\ last' \in [Required -> MaybeReport]
      /\ CountHasRecords'
  BY <1>2, EvaluateSample
  DEF ReadinessInv, ReadinessTypeOK, MaybeReport, NoReports, CountHasRecords
<1>4. ReadinessTypeOK'
  <2>1. wake' \in 0..Deadline + 2 /\ snap' \in [Required -> MaybeReport]
    BY <1>1, <1>2 DEF MaybeReport, NoReports
  <2>2. phase' \in {"sleeping", "asking", "passed", "failed"}
        /\ (phase' = "passed" <=> consecutive' = SamplesNeeded)
    BY <1>1, <1>2, <1>3
  <2>. QED BY <1>1, <1>3, <2>1, <2>2 DEF ReadinessInv, ReadinessTypeOK, daemonVars
<1>5. ClockIsNear' /\ HeldIsOffline'
  BY <1>1, <1>2 DEF ReadinessInv, ClockIsNear, HeldIsOffline, OfflineAt, daemonVars
<1>6. ASSUME NEW t \in Required PROVE InOrderAt(t)' /\ RememberedAt(t)'
  <2>1. InOrderAt(t) /\ RememberedAt(t)
    BY DEF ReadinessInv, RecordsInOrder, WellIsRemembered
  <2>2. \A q \in {last[t], snap[t], reports[t], retained[t], held[t]} : Number(q) \in Nat
    BY NumberType DEF ReadinessInv, ReadinessTypeOK
  <2>3. /\ snap'[t] = NoReport
        /\ Number(last'[t]) \in {0, Number(snap[t]), Number(last[t])}
    BY <1>1, EvaluateSample DEF NoReports, Number
  <2>4. InOrderAt(t)'
    BY <1>1, <2>1, <2>2, <2>3 DEF InOrderAt, daemonVars
  <2>. QED BY <1>1, <2>1, <2>3, <2>4 DEF RememberedAt, daemonVars
<1>. QED BY <1>3, <1>4, <1>5, <1>6 DEF ReadinessInv, RecordsInOrder, WellIsRemembered

LEMMA TickInv == ReadinessInv /\ Tick => ReadinessInv'
<1>. SUFFICES ASSUME ReadinessInv, Tick PROVE ReadinessInv'
  OBVIOUS
<1>1. /\ UNCHANGED <<faults, daemonVars, reports, heard, verifierVars>>
      /\ phase \in {"sleeping", "asking"} /\ clock < wake + 1 /\ clock' = clock + 1
  BY DEF Tick
<1>2. clock \in Nat /\ wake \in Nat /\ Deadline \in Nat /\ wake <= Deadline
  BY <1>1, ReadinessAssumption DEF ReadinessInv, ReadinessTypeOK, ClockIsNear
<1>3. ReadinessTypeOK'
  BY <1>1, <1>2 DEF ReadinessInv, ReadinessTypeOK, MaybeReport, daemonVars, verifierVars
<1>4. ClockIsNear' /\ HeldIsOffline' /\ CountHasRecords' /\ RecordsInOrder'
  BY <1>1, <1>2
  DEF ReadinessInv, ClockIsNear, HeldIsOffline, OfflineAt, CountHasRecords, RecordsInOrder,
      InOrderAt, Number, daemonVars, verifierVars
<1>5. ASSUME NEW t \in Required PROVE RememberedAt(t)'
  <2>1. RememberedAt(t) /\ lastWell[t] \in Int
    BY DEF ReadinessInv, ReadinessTypeOK, WellIsRemembered
  <2>. QED BY <1>1, <1>2, <2>1 DEF RememberedAt, daemonVars, verifierVars
<1>. QED BY <1>3, <1>4, <1>5 DEF ReadinessInv, WellIsRemembered

-----------------------------------------------------------------------------
(* Theorems                                                                *)

LEMMA StepInv == ReadinessInv /\ [Next]_vars => ReadinessInv'
<1>. SUFFICES ASSUME ReadinessInv, [Next]_vars PROVE ReadinessInv'
  OBVIOUS
<1>1. CASE \E s \in Required : StartDaemon(s) \/ Republish(s)
  BY <1>1, PublishInv
<1>2. CASE \E s \in Required : CrashDaemon(s)
  BY <1>2, CrashDaemonInv
<1>3. CASE \E s \in Required : LinkBack(s)
  BY <1>3, LinkBackInv
<1>4. CASE \/ \E s \in Required : FallIll(s) \/ Recover(s) \/ LinkChange(s)
           \/ OnConnect \/ OnDisconnect \/ LoseConnection
  BY <1>4, QuietInv
<1>5. CASE OnRetained \/ Snapshot \/ Evaluate \/ Tick
  BY <1>5, OnRetainedInv, SnapshotInv, EvaluateInv, TickInv
<1>6. CASE UNCHANGED vars
  BY <1>6
  DEF vars, daemonVars, verifierVars, ReadinessInv, ReadinessTypeOK, MaybeReport, ClockIsNear,
      HeldIsOffline, OfflineAt, RecordsInOrder, InOrderAt, Number, WellIsRemembered,
      RememberedAt, CountHasRecords
<1>. QED BY <1>1, <1>2, <1>3, <1>4, <1>5, <1>6 DEF Next

\* The state of the daemons, the broker, the collector and the verifier stays well
\* typed; records stay in order from the counted sample to the daemon; every ready
\* record on the way is remembered.  (health.py, readiness.py)
THEOREM RecordsStayInOrder == Spec => []ReadinessInv
<1>1. Init => ReadinessInv
  BY InitInv
<1>2. ReadinessInv /\ [Next]_vars => ReadinessInv'
  BY StepInv
<1>. QED BY <1>1, <1>2, PTL DEF Spec

\* Of all steps only a sample that counts raises the count.
LEMMA OnlySamplesCount ==
  ASSUME ReadinessInv, [Next]_vars, consecutive' = consecutive + 1
  PROVE  Evaluate
<1>1. consecutive \in Nat /\ consecutive' # consecutive
  BY ReadinessAssumption DEF ReadinessInv, ReadinessTypeOK
<1>. QED
  BY <1>1
  DEF Next, vars, StartDaemon, Republish, CrashDaemon, FallIll, Recover, LinkChange,
      LinkBack, OnConnect, OnDisconnect, LoseConnection, OnRetained, Snapshot, Tick,
      verifierVars

\* "Every required daemon must refresh its retained message between counted
\* samples" (docs/CAPABILITY_READINESS.md), for any number of daemons' crashes and
\* of records held, retained and delivered again.
THEOREM CountedSamplesAdvance == Spec => CountedAdvances
<1>1. ReadinessInv /\ [Next]_vars =>
        [consecutive' = consecutive + 1 /\ consecutive > 0
           => \A s \in Required : snap[s].id > last[s].id]_vars
  <2>. SUFFICES ASSUME ReadinessInv, [Next]_vars,
                       consecutive' = consecutive + 1, consecutive > 0,
                       NEW s \in Required
                PROVE  snap[s].id > last[s].id
    OBVIOUS
  <2>1. Evaluate /\ consecutive \in Nat
    BY OnlySamplesCount, ReadinessAssumption DEF ReadinessInv, ReadinessTypeOK
  <2>2. snap[s] # NoReport /\ Refreshed
    BY <2>1, EvaluateSample
  <2>3. \A t \in Required : last[t] # NoReport
    BY DEF ReadinessInv, CountHasRecords
  <2>4. last # NoReports
    BY <2>3, SomebodyIsRequired DEF NoReports
  <2>5. snap[s].id # last[s].id
    BY <2>2, <2>4 DEF Refreshed
  <2>6. Number(last[s]) <= Number(snap[s])
    BY <2>1 DEF ReadinessInv, RecordsInOrder, InOrderAt, Evaluate
  <2>7. /\ Number(last[s]) = last[s].id /\ Number(last[s]) \in Nat
        /\ Number(snap[s]) = snap[s].id /\ Number(snap[s]) \in Nat
    BY <2>2, <2>3, NumberType DEF ReadinessInv, ReadinessTypeOK
  <2>. QED BY <2>5, <2>6, <2>7
<1>. QED BY <1>1, RecordsStayInOrder, PTL DEF Spec, CountedAdvances

\* No sample counts unless every required daemon made a ready record at most
\* StaleAfter ago, up to the daemon's clock, whatever the broker and the collector
\* keep of the dead.
THEOREM TheDeadDoNotCount == Spec => NobodyLongDeadCounts
<1>1. ReadinessInv /\ [Next]_vars =>
        [consecutive' = consecutive + 1
           => \A s \in Required : lastWell[s] >= 0 /\ clock - lastWell[s] <= StaleAfter + Ahead[s]]_vars
  <2>. SUFFICES ASSUME ReadinessInv, [Next]_vars, consecutive' = consecutive + 1,
                       NEW s \in Required
                PROVE  lastWell[s] >= 0 /\ clock - lastWell[s] <= StaleAfter + Ahead[s]
    OBVIOUS
  <2>1. Evaluate /\ consecutive \in Nat
    BY OnlySamplesCount, ReadinessAssumption DEF ReadinessInv, ReadinessTypeOK
  <2>2. snap[s] # NoReport /\ Fresh(snap[s]) /\ snap[s].well
    BY <2>1, EvaluateSample
  <2>3. 0 <= lastWell[s] /\ snap[s].ts <= lastWell[s] + Ahead[s]
    BY <2>2 DEF ReadinessInv, WellIsRemembered, RememberedAt
  <2>4. {snap[s].ts, lastWell[s], clock, StaleAfter, Ahead[s]} \subseteq Int
    BY <2>2, ReadinessAssumption, SkewAssumption DEF ReadinessInv, ReadinessTypeOK, MaybeReport, Report
  <2>. QED BY <2>2, <2>3, <2>4 DEF Fresh
<1>. QED BY <1>1, RecordsStayInOrder, PTL DEF Spec, NobodyLongDeadCounts
=============================================================================
