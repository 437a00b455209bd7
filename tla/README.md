# SPARC: a verification project

TLA+ specifications of the SPARC companion robot (`packages/`, `scripts/`,
`evolution/`), the TLC configurations that check them on small instances, and
theorems about them whose proofs TLAPS checks. Every definition is translated
from the source; `PROJECT.json` maps each one to the lines it stands for, lists
the runs, a mutant of the code for every checked property, the hazards of the
code, the findings and the theorems.

Contents: 1 the system, 2 the modules, 3 how state and actions correspond to the
code, 4 runs and bounds, 5 fairness, 6 what is proved and how, 7 where code and
comments disagree, 8 what is only model-checked or not modelled, 9 what would come
next.

## 1. The system

A fleet of three nodes around one MQTT broker. Inventory, with the state each
part keeps, what it does, what is hard about it, and what makes it correct:

**World model** (`node_a/world_model.py`). State: the hot dict `present`
(entity -> track, name, identity state, provenance), `face_buffer` (rolling
samples), `contradiction_buffer`, and the SQLite tables `entities`,
`known_faces`, `episodes`, `facts`. Operations: `person_appeared` /
`person_left`, `update_identity` with its five outcomes (bind an anonymous
track, confirm, pending, rebind, split), `enroll_present`, `commit_fact`,
`_rebuild_hot` at boot. Hard: long sequences of legal samples over several
tracks; an id that is alive under another track; what survives a crash. Correct
when one presentation per track exists, a name is only shown on evidence, and
memory and database agree.

**Orchestrator** (`node_a/orchestrator.py`). State: `_pending_births`, the heap
`_queue`, `last_action_ts`. Operations: MQTT handlers `on_tier0`, `on_rich`,
`on_transcript`, `on_sound`, ...; the main loop: drain births, pop, think,
ground, validate, execute. Two threads and no lock: the client's thread runs the
handlers, the main thread everything else, and the identity of the person may
change between any two steps of a deliberation. Correct when an arrival is
deliberated once, greeted with its own name or none, and not again too soon.

**Deliberation** (`node_a/deliberation.py`): scene text, grounding of greetings,
the validator with its cooldowns. No state of its own except the cooldown ledger
it is handed. Correct when nothing it lets through names somebody else.

**Bus client** (`common/bus.py`). State: the connection and the messages paho
keeps. `publish` raises when disconnected, *after* paho has queued the message;
handlers' exceptions are logged and dropped; clean session, QoS 1.

**Camera process** (`node_a/perception/imx500_tripwire.py`): `CentroidTracker`
(tracks, hits, last seen), `FrameGrabber` (one slot, two requesters), the loop
that publishes `new_track`, `lost_track` and `periodic`. An exception of
`publish` ends it, and its tracks with it.

**Face enrichment** (`node_a/perception/face_enrich.py`): `BoxMirror`, the match
of a face to a box, embedding and publication of `rich` frames.

**Cortex service** (`node_c/cortexd.py`, `prompts.py`, `backends.py`): queue
guard, one worker, timeout, retry, deterministic fallback.

**Memory and facts** (`node_c/memory.py`, `commit_fact`): canonical rows on node
A, embedding mirror on node C, linked by a call that may fail.

**Ears and voice** (`node_c/earsd.py`): utterance gating, half-duplex gate,
STT and TTS. **NPU service** (`node_b/genaid.py`): one lock around models.

**Health and readiness** (`common/health.py`, `readiness.py`): retained health
records, freshness, refresh counting. **Supervision** (`scripts/systemd`):
`Restart=always`. **Enrollment script** (`scripts/enroll.py`): opens the running
orchestrator's database.

**Evolution** (`evolution/`): a resumable loop over generations of prompt
genomes with files, a state record and a ledger on disk; banded scoring.

Interaction in one line: the camera publishes tracks, enrichment publishes faces
on those tracks, the orchestrator's handlers turn both into presence and
identity, its main thread turns arrivals and speech into deliberations, asks
cortexd, validates the answer against the world as it is *now*, and publishes
speech that ears voices.

## 2. The modules

| module | what it is |
|---|---|
| `WorldModel` | the world model and its database, as the handlers call it; enrollment (in the process and by script), crash and boot |
| `Enrollment` | `WorldModel` at the grain of two threads: `enroll_present` of the main thread, step by step, beside the handlers of the MQTT thread; EXTENDS `WorldModel` |
| `Presence` | the abstract specification: who is on which track and who may be named. Nothing of evidence, buffers, database |
| `WorldModelPresence` | the refinement mapping and the property that `WorldModel` implements `Presence` |
| `Greeting` | the two threads of the orchestrator from `new_track` to a spoken greeting, composed with `Presence` |
| `Perception` | the tracker, its stream of births, boxes and losses, the broker, and what the two subscribers make of it |
| `Grading` | from the replies to a suite of probes to gates, bands and one fitness number: operators only |
| `Evolution` | the generations of prompt genomes over their directory, one action per write, with crashes; EXTENDS `Grading` |
| `Researcher` | the reflection of one generation: negotiation of response formats by several threads, retries, lessons, mutations |
| `Readiness` | daemons, retained health records, the collector and the verifier's loop |
| `Cortex` | cortexd's queue guard, worker, timeout, retry and what it makes of a model's text |
| `Memory` | facts and their semantic mirror, kept by two threads; EXTENDS `Cortex`, whose process serves the mirror |
| `Mind` | the composition of the two: one process that may crash under both |
| `Ears` | the microphone and the speaker thread around one gate |
| `WorldModelProofs` (the refinement included), `GreetingProofs`, `PerceptionProofs`, `ReadinessProofs`, `ResearcherProofs`, `MindProofs`, `EarsProofs`, `EvolutionProofs` | theorems and proofs |
| `MC...` | constants, tables, symmetry and constraints for TLC |

`Greeting` EXTENDS `Presence`, so each of its handlers is a step of `Presence`
plus what the orchestrator does around it. `WorldModel` is shown to implement
`Presence`, so nothing is lost by using the small specification there, for
deployments without redelivery and without a live enrollment script (see 4).
`Perception` stands upstream of both: its stream is what `NewTrack` and
`LostTrack` of `WorldModel` take their tracks from. `Evolution` takes every result
it ranks from `Grading`, applied to whole runs of replies, so that gates, bands
and the smoke gate are the code's and not free numbers; what reflection may
return to it (a postmortem with or without a gene, a child or none) is what
`Researcher` shows to be possible.

## 3. State and actions

**WorldModel.** `rows`, `faceName`, `faceLook`, `dbPresent`, `age` are the
database (`entities`, `known_faces`, `present`, `last_seen`); `present`,
`faceBuffer`, `contradiction` the object's dicts; `live`, `announced` and `up`
the camera's tracks, those this process was told about, and the process itself.
`support` is a history variable: the entity that the newest identity input on a
track speaks for. One action is one handler run to its end, since the MQTT
client runs one handler at a time: `NewTrack` (`on_tier0` + `person_appeared`, with
`Redelivery` also for a message that was handled before), `LostTrack`, `FaceSample`
(`on_rich`: `update_identity` in all of its branches, then `buffer_face`),
`EnrollPresent`, `EnrollScript`, `Tick`, `Crash`, `Boot`, `TrackWhileDown`.

Abstractions. An embedding is a *look* and `Cos` a table of cosines in percent;
thresholds are the configured ones (.55, .40, .80). The mean of unequal samples
may be any look coherent with them. Time is the age of `last_seen` in ticks, cut
off outside the reappearance window. `EnrollPresent` is one step here, although it
runs on the main thread: what `WorldModel` says of names and enrollments is said
of enrollments that no handler falls into, and `Enrollment` says what is left of it
otherwise. Events, episodes and traces are left out; facts are in `Memory`. A crash
inside a handler leaves the database as before or after the handler's one
transaction.

**Enrollment.** The two threads, which hold no lock. `enrolling` is what
`enroll_present` holds: entity, name, mean, whether the transaction is done, and
`held`, whether the dict it read is still the entity's presentation. `BeginEnroll`
makes its checks, `CommitEnroll` is the transaction, `FinishEnroll` writes the name,
which is lost when the dict is `held` no more. Beside it `on_rich` goes in three
steps: `ReadFace` reads identity and evidence (`judged`), `JudgeFace` applies them
with the operators of `WorldModel`, and for a presentation that stays unnamed
`BufferSample` or `SkipSample` follows (`unbuffered`), as the name test found none
or the name that came meanwhile. `OnTier0` is one step: it takes no decision on a
name. `stray` is a history variable: people whose enrollment was committed after the
presentation it was read from had been replaced, and who were present then. The
database is read when `ReadFace` is; a commit between that read and the step that
applies it goes unseen, as in the code.

**Greeting.** `pending` is `_pending_births` with its deadline passed ("due") or
not; `queue` the parked arrivals, `speech` the number of parked deliberations
that outrank them (a knock, which ties with an arrival, is ignored); `main` and
`handler` where the two threads are; `scan` the snapshot `_drain_births`
iterates over; `cooling` the keys of `last_action_ts` that are still inside
their cooldown; `outbox` what paho keeps while disconnected; `burst` a history
variable, the greetings spoken within the last `greet_anyone_s`. `on_rich` is
split where the other thread may matter: identity update, the test `eid in
_pending_births`, the `pop` (which raises `KeyError` when the drain was faster).
The drain is split at its snapshot and at each round of its loop. Thinking and
grounding are one step, validation and execution are one each.

Abstractions. What the model says is `Prose`, the model's other choices are
"something else"; `enroll_face` is `Enroll` of somebody present. `OnRetire`
gives an anonymous id that fell out of the reappearance window back to the pool
of ids, which stands for the infinite supply of `new_id()`. `Restart` loses
everything but the database.

**Perception.** `tracks` is `CentroidTracker.tracks`, `outgoing` the calls of
`publish` that one round of the camera's loop has still to make, `inbox` the
messages on their way to each subscriber, `present` and `boxes` the tracks the
orchestrator and `BoxMirror` hold. `Frame` is one round of the loop up to its
first `publish` (assignment of boxes to tracks, ageing, the list of messages),
`Publish` one call of it, `PublishFails` the exception that ends the process,
`CameraStarts` the restart with an empty tracker, `OnTier0` and `OnFrame` the
handlers. The scene is the set of occupied places, and the detector may miss any
of them (`Detections`). `torn` is a history variable: a subscriber will never
learn of a birth or a loss, because a message was on its way when the broker
failed or because the camera ended while somebody held its tracks.

Abstractions. A box is a place on a line and people in one place are one box;
area and confidence are left out; time is counted in frames; ids are reused once
nobody remembers them. All clients come back with the broker at once.
`present` is the track part of `WorldModel`.

**Grading.** A reply is a record of what the graders read of it: whether it came,
whether its action and words pass, which forbidden word it holds, the fallback
level, the judge's verdict, the sizes that density and latency are made of.
`Gates`, `Passed`, `RunGates`, `Accuracy`, `Reliability`, `Density`, `Latency`,
`Fitness`, `Scored` and `Rescore` are the functions of `grader.py`,
`runner.py` and `fitness.py`. Rates are fractions of integers and a band is the
integer part of twenty times the rate; the code divides floats and may land one
band lower where the quotient is an exact multiple.

**Evolution.** `files`, `stateFile`, `crown` and `ledger` are what is on disk
(`genomes/*.yaml`, `state.json`, `champion.yaml`, `ledger.jsonl`); `st`, `pop`,
`results`, `keep`, `nxt`, `rows` and `at` what the process holds; `pc` is what
comes next in `run()`. Every write to these is an action of its own, the truncation and
the rewriting of the ledger included, and `Crash` may come between any two;
`Start` resumes from `state.json` if there is one and from the genomes if there
are any. An id is the list of its tags, and `Cut` is the code's `parent.id[:10]`:
two children may get one id. A genome's file replaces the file of its id, and
`Load` sorts by name.

Abstractions. Two genes vary; a text of a gene is a number; the set of runs a
gene combination may produce is a constant. One distill variant, the default, is
assumed in ids: with `--distill compound atomic` two seeds of one cell differ only
after the tenth character of their ids, and their children share one already in the
first generation. A postmortem names at most one gene. Writing
`state.json` is one step (a `write_text` that a crash cuts in two leaves a file that
does not parse: not modelled). Not every write is there: the results file (`_dump`,
which nothing reads) and `LESSONS.md` (whose text goes into prompts) are left out.
`Densest` and `Checked` compare densities and generalization gaps in bands, where the
code compares floats: two genomes of one band tie in the model, and the gap widens by
bands. Survivors on refusals are any survivor, since the rate it
is chosen by is of a probe family that the suite of the model does not tell apart.

**Researcher.** `accepted` is what each server takes, `mode` the three modes of
each `LLMClient` (`schema_mode`, `json_object_mode`, `json_mode`), shared by its
threads; `call` where each caller is in `complete`: the format of its payload,
attempts, renegotiations, failures. `Answer`, `Reject`, `Renegotiate` and `Fault`
are what follows one POST; the rejection and the making of the next payload are
two steps, since other threads may switch modes between them. `StartJob` and
`Collect` are the executor and `as_completed` of `map`; which result belongs to which
job is looked up by its future there, and taken as given here.
`StartSynthesis`, `EndSynthesis`, `AcceptEdit`, `RejectEdit` are the main thread's
lessons and mutations. Prompts and edits are left out; back-off is left out.

**Readiness.** `up`, `sound`, `link`, `made`, `held` are the daemons with their
connections and what their clients hold back; `retained` the broker's records;
`reports` and `heard` the collector; `phase`, `wake`, `snap`, `consecutive` and
`last` the verifier's loop. `Snapshot` and `Evaluate` are two steps, with the
endpoint requests between them. One tick is five seconds, the interval of both
loops; a link that is "pending" says connected and carries nothing. The clock is the
verifier's; a daemon stamps its records with its own, which is `Ahead` ticks ahead
(or behind), and a record may be up to `Tolerance` ticks in the future (the code's
five seconds). Clocks do not drift within a run. `lastWell` is a history variable. The broker does not restart, and records that were sent
and not acknowledged are not sent twice; a reconnecting *collector* gets the
retained records again.

**Cortex.** `inflight` is `_inflight`, `pool` the executor's queue, `running` its
one worker; a request thread is idle, admitted, waiting or answered. The guard
and the count are two steps (`Arrive`, `Submit`), as in the code; `TimeOut` leaves
the job with the worker, where nobody waits for it. A text is what `extract_json`
finds: no object, an object whose options are no list, or options, choice and
backup, where the choice may be any number and an option malformed. `Thought` is
`parse_think`, clamping and appended options included. What a question or a
distillation takes out of its text (`Extract`) is left out, but for whether it can.

**Memory.** `facts` is the table, `mirror` the two tables of cortexd's memory,
and each of the two threads is in one of the five steps of `_commit_fact`:
look up, select, write, mirror. `Near` is the pairs of statements above the
threshold. `missed` is a history variable: facts whose upsert was lost. The row's
confidence and source are left out; a lookup or an upsert may fail at any time,
and must while cortexd does not serve.

**Ears.** One tick is one frame. `gate` is the time left until `_speaking_until`,
`saying` what `say` still takes, `ringing` how long the voice stays in the room
after it. `device` is the sound card's buffer, which fills while `mic_loop`
transcribes and drops what it cannot keep. `Read` is one turn of the loop: muted,
in speech, onset or quiet. A frame remembers whether it was read late, or sounded
after the estimate had run out. `MicFails` and `SayFails` are the exceptions that
end a loop; `_forever` starts it again. What a transcription returns, and whether
it is published, does not matter to the gate and is left out.

## 4. Runs and bounds

| run | expects | what it shows |
|---|---|---|
| `wm_identity` | pass | two enrolled people, two anonymous ids, two tracks, evidence counts 2 and 3 as configured: every order of binds, conflicts, rebinds, splits, reappearances, crashes and boots keeps one presentation per track, a shown name supported by the newest evidence, memory and database in agreement; a correction is made only on agreeing evidence and never takes a person off another live track |
| `wm_enrollment` | pass | enrollment from the sample buffer beside contradictions: names stay own and contradictions tell one story; and the world model implements `Presence` |
| `wm_threads` | pass | the steps of `enroll_present` between those of `on_tier0` and `on_rich`: also when a `new_track` delivered twice puts two presentations on a track and the enrollment script clears flags beside the process, names follow enrollments and an enrollment stands, but for people whose presentation was replaced in the midst of one |
| `greet_safety` | pass | three people, two tracks, both threads interleaved: greetings are grounded when validated, births belong to people in view, no rapid re-greeting while connected |
| `greet_liveness` | pass | arrivals are deliberated and speech is answered, over outages, restarts and identity changes |
| `perc_stream` | pass | births, boxes and losses, read by two subscribers at their own pace and over outages, add up to what the tracker holds; once the scene is still both know one track per occupied place and no other |
| `evo_generations` | pass | three generations of up to four genomes with a crash before or after any write: sound populations, survivors and champion on disk, predictions that meet their own child, a resumed run that continues where the last `state.json` left it |
| `evo_crash` | violation | a crash in generation 0 loses the density reference of all later ones (7) |
| `llm_reflection` | pass | three postmortems on two threads that share one client's modes, then lessons and a mutation, against servers that accept any of the modes |
| `ready_verify` | pass | two daemons, the verifier and a fault: a sample counts only with a new and recent record of every daemon |
| `mind_calls` | pass | two requests to cortexd with retry, fallback and timeout; two threads committing facts; crashes of both processes |
| `ears_gate` | pass | microphone and speaker around the gate, with an estimate that may be short and a reader that may be late |

*World model.* Two tracks are what an interference needs (one person's evidence
against another's track; a candidate that is live elsewhere); three or four ids
give two enrolled people plus a stranger who may arrive, be split off and
reappear. The looks are one per enrolled person, one or two strangers and one bad
shot, so that every class of evidence and both kinds of disagreement occur.
`Window` is 0: a row is reused only in the tick it was left.

*Enrollment.* One enrolled person and two ids for strangers, so that a named
presentation may be split off, rebound and reappear between the steps of an
enrollment; one track, on which redelivery puts several presentations; two names; one
sample is enough to enroll from and two make a correction, which leaves the order of
steps as it is and makes them shorter.

*Greeting.* `MaxParked` and `MaxSpeech` bound the unbounded heap in the guards of
the actions that add to it; a second parked arrival is the shortest queue in which
order and staleness differ. Ids of strangers and tracks are interchangeable:
SYMMETRY is used for safety runs only.

*Perception.* Two places in reach of each other, so that a box may take over the
track of the other place, three ids, births after two boxes, tracks that outlive
one missed frame, and one message in flight to each subscriber (`MaxInFlight`)
beside those the camera has still to publish; states after a torn stream are not
followed (CONSTRAINT `Followed`), since its properties speak of streams that are
not.

*Evolution.* Three generations, a population of four, two survivors: the second
breeding is the first whose parents were bred, and the third evaluation the first
that resolves predictions about them. One crash (`MaxCrashes`) may fall between
any two writes. Four gene combinations have between them a flaky run, a dense
one, one that invents something and one that is cut at the smoke gate.

*Researcher.* Three jobs on two threads: one finishes while another is rejected
and a third has not begun. Two attempts per call and two per mutation.

*Readiness.* Three samples, as configured; a record is stale after more than one
tick (the code's fifteen seconds are three: a shorter time makes staleness bite
within the bound). One daemon's clock is two ticks ahead and the tolerance is one, so
that its records are refused while they are too new. `Deadline`, `MaxReports` and `MaxFaults` bound clock, records
and faults: room for three counted samples, one fault and a restart between them.

*Mind.* Two requests over a queue of depth one, with up to `MaxBacklog` jobs
behind the worker; two threads, two near statements, three rows; one crash of
either process. The two parts share only the process, and CONSTRAINT `OneAtATime`
explores one of them at a time.

*Ears.* Frames in single figures: an estimate of two, `say` up to five (so it may
outlast estimate and tail), a tail longer than the room rings, utterances of two
to six frames, a pre-roll of two, three frames of device buffer.

Deadlock is checked except in `evo_generations`, `evo_crash`, `llm_reflection`
and `ready_verify`: those programs end (the process stops after its generations,
a reflection ends, the verifier exits).

## 5. Fairness

`Greeting!FairSpec`: `WF(MainStep)`, because every call of the main thread has a
timeout (`think_timeout_s`, the memory and frame requests), `WF(Settle)`, because
a handler that runs returns, and `WF(Expire(e))`, because clocks advance. Nothing
obliges anybody to come, leave, speak or be recognized, nor the bus to come back.
`ArrivalIsDeliberated` holds under the premise that the queue runs free of speech
again and again: priority is strict and speech may starve arrivals.

`Perception!FairSpec`: strong fairness of a frame that is due for the periodic
boxes (the sensor delivers thirty frames a second and the timer is a second),
weak fairness of `Publish`, of both handlers and of the restarts of camera and
broker (`Restart=always`). `SceneSettles` has its premises in the property: the
scene becomes still and nobody is missed any more, the broker stays, and no birth
or loss was dropped.

`Researcher!FairSpec`: weak fairness of the whole next-state relation, because
every request has a timeout and every thread runs. That is enough for
`ReflectionEnds`: no fairness among servers or threads is needed, since every
path is finite.

`Cortex!CortexFairness`: a dead cortexd boots (`Restart=always`), an admitted
request submits, and a waiting one either collects or gives up, which is what
`fut.result(timeout=90)` says. Nothing obliges the model to finish: a generation
that hangs keeps the worker for ever and requests are still answered.

`Ears!FairSpec`: frames come, and the microphone's thread reads while it is not
transcribing. Nothing obliges a transcription to return.

## 6. Proofs

All for arbitrary constants (any number of people, tracks, looks, threads,
daemons or crashes, any similarity table and thresholds), from the named ASSUMEs
of the modules.

*Identity* (`WorldModelProofs`). `RecordInv` (types, `FreshIsBlank`,
`DownIsEmpty`, `NameIsOwn`) holds of every deployment, redelivered births and a
live enrollment script included (`RecordsAreSound`); `TypeCorrect` and `NamesAreOwn`
follow without a premise. That a name is supported
depends on tracks being exclusive, so `IdentityInv` adds `TracksAreExclusive`,
`NameSupported` and `ContradictionOpen`; `IdentityIsConsistent` proves it when no
`new_track` is delivered twice: one lemma per action, two shared ones
(`StayIdentity` for outcomes of a sample that leave the track alone,
`HandOverIdentity` for binds and rebinds), and `AppendEvidenceFacts` /
`KeepLastFacts` for the evidence buffer. From it follow `NamesAreSupported`,
`ContradictionsAreOpen`, and the action property `CorrectionsAreEarned`: only a
sample moves a presentation to another entity (`OnlySamplesTakeOver`), and the
buffer it completes tells one story. The premise there, counts above one, is
needed: with `DifferentKnownSamples = 1` TLC finds a correction whose buffer is
of another candidate. The code's defaults are 2 and 3. Adding that the database
lists exactly the present and every handled track is covered gives `PresenceInv`,
inductive only when the script does not run beside the process:
`TracksHaveOnePresentation`, `PresenceAgrees` and `EntitiesKeepTheirTrack`. The
premise is needed: with the script running, a reappearance may take the row of a
person who is on camera.

*Two threads* (`WorldModelProofs`). `ThreadInv` is the types of what names depend on
(`ThreadRecords`), `FreshIsBlank`, `NameFollowsEnrollment`, and what each thread has in
hand: a face read of a named presentation is still of a named one, and its evidence has
the name of somebody who is enrolled (`JudgedSound`); an enrollment is of somebody
unnamed and present as long as its dict is held, and of somebody not enrolled until it
is committed (`EnrollingSound`). `HandlerStep` says what any handler may leave behind,
and there is one lemma per step of the two threads. No premise is needed. `ThreadsKeepNames` is the invariant, `NamesFollowEnrollments` and
`EnrollmentsStand` follow.

*Refinement* (`WorldModelProofs`). `WorldModelImplementsPresence`: under the same
two premises initial states map to initial states of `Presence` and every step
to a step or a stutter; the "shape" lemmas say which abstract action each handler
is.

*Stream* (`PerceptionProofs`). `StreamAgrees` speaks of what a reader will hold
once it has read the messages on their way. `After` says this of a list without
recursion: a track is held if it is gained by some message, or held before, and
not lost by a later one. `AfterOne`, `AfterBoth` and `AfterHead` let a message move
from the camera's round to the bus, and from the bus into a reader, without
changing what it adds up to. `StreamInv` (types, an empty bus while the broker is
down, the agreement) is then inductive over both failures, for any number of
places, tracks and messages (`StreamIsConsistent`, `StreamKeepsAgreeing`).

*Greeting* (`GreetingProofs`). `PresenceStaysSound` for the abstract
specification alone; `GreetingInv` (types, `PresenceIsSound`, who the two threads
hold in hand, pending births, groundedness) is inductive over both threads and
gives `GreetingTypeCorrect`, `GreetingsAreGrounded`, `PendingStaysPresent`.
`GreetingsAreSpaced` adds `LedgerIsTrue` (a recent greeting is in the ledger and
none is about to be spoken on top of it) while the bus stays connected; without
that premise it is false, since greetings that paho kept are spoken together.

*Readiness* (`ReadinessProofs`). A record passes from its daemon's client to the
broker, the collector, the snapshot and the last counted sample. `ReadinessInv`
says of all these places at once that record numbers never rise along that way
(`RecordsInOrder`), that a client whose link carries holds nothing back
(`HeldIsOffline`), that every ready record is remembered by its daemon
(`WellIsRemembered`), and where the clock may be (`ClockIsNear`). From it follow
`CountedSamplesAdvance` and `TheDeadDoNotCount`: that ids *differ*, which is what
the code compares, then means that they *advance*. A counted record was made at most
`StaleAfter` ago, and what its daemon's clock is ahead: the tolerance refuses records
from the future and extends nothing.

*Negotiation* (`ResearcherProofs`). Modes only go, so what is true of a call
because a mode is off stays true whatever other threads do. A call carries only
the format of its payload; `NegotiationInv` says what that format tells of the
modes (`CallOK`), and that with a server that takes plain text each renegotiation
has used up one of the two other formats. Premise: two free renegotiations or
more (the code has three; with one the property is false).

*Mind* (`MindProofs`). `CountInv` is `InflightIsHonest` with the places of the
request threads; each step makes a thread begin to wait, stop, or neither.
`MirrorInv` adds to `MirrorAgrees` and `OnlyLostUpsertsMissing` what the threads
hold in hand (`HoldsTrue`): the row to be mirrored has the statement in hand,
unless it is the row the mirror gave, which is not mirrored again. For
`DuplicatesBounded` the inductive form counts rows and the threads that are about
to insert one together: a thread arms itself only while there is no row, so at
that moment the bound is the number of threads, and an insertion turns an armed
thread into a row. `ThoughtsAreExecutable`: `ThoughtFacts` is about one text (any
list of options, any choice: dropped options, the two that are added and clamping
leave a choice and a backup among at least two options), `ThoughtInv` carries it
through admission, retries and lost servers.

*Ears* (`EarsProofs`). What was heard is inductive with what waits to be heard:
a frame of SPARC's voice is in the device only while the gate is shut, or it is
late, or beyond the estimate (`WaitingExcused`); and after the last word the gate
outlasts the room (`GateOutlastsRoom`, from `Reverb < EchoTail`, the assumption
the tail was chosen for).

*Evolution* (`EvolutionProofs`). Five invariants, each on top of the one before.
`ResumeInv`: from start to end of a process its state has the generation of
`state.json`, at least its anchoring and its very reference, and every ledger
record, those read to be written back included, is of a generation that is not
ahead of it; hence `CrashesCostOneGeneration`. `GenerationInv` (with
`GenerationsAreSound`): the directory has one genome per id, the lists hold
genomes whose id is a seed's, a crossover's, a restart's or made from their
parent's, whatever is scored or kept has a result, fitness is a number and 0 for
a gated genome. It needs what every evaluation yields, so the operators of
`Grading` are typed first (`ScoredType`: gates, bands and fitness of any run).
Hence `StateOnlyGrows`. `LedgerInv`: every record names a child of its genome,
also while the ledger is rewritten; with `IdsTellParents` (equal ids of children
mean equal parents, as far as ids are not cut) hence `PredictionsNameChildren`.
`ChampionInv`: all records are below the champion, and, while they are being
written, so is the population they are about; hence `ChampionsAreBest`.
`PopulationInv` follows population, survivors, children and files from step to
step: each generation's ids begin with a new tag (`Dated`, `IdsDiffer`), so no
child overwrites a survivor; children of two survivors have two ids
(`ChildIdsTell`); what is saved stays until the files of the others are gone.
Hence `PopulationsAreSound` and `SurvivorsReachDisk`.

Sorting is what made this part hard to prove about. A sorted list is defined by
ranks, `InOrder(S, before)[k]` being the member with `k - 1` members before it,
and not as a CHOOSE among permutations, whose existence would be an induction over
data. `InOrderFacts` shows that under a total order each rank is taken once, by
counting (a function onto equally many values is one-to-one). It is cited for the
files by name, the ranking of a generation and the seeds to restart from. Sums
over probes are counted in the same way (`Total`).

Premises: `NoFile` is no state record (and, for the champion, no crown record);
for the last two theorems the survivors fit into the population, no process has
died, and the generation is at most 3, as in the properties (8).

## 7. Where the code and its comments disagree

One disagreement is a run. `evolve.py:7` says "Resumable: state and genomes are
on disk, so a crash costs one generation". The next population replaces the old
files (`evolve.py:239`) before `state.json` is written; after a crash in between
in generation 0, when the control genome did not survive, the density reference
is never set, and every later fitness lacks its density tier (`evo_crash`).

Others were met while modelling. They are in the models, so that every property
holds beside them, and have no run of their own:

- `world_model.py:83`: presence is re-derived from `new_track` after a restart,
  which the camera does not repeat for people already in view.
- `world_model.py:84`: the enrollment script opens the running orchestrator's
  database and clears flags of people on camera.
- `world_model.py:94`: "an enrolled entity becomes live only after a positive face
  match". A stranger who leaves and reappears between the reads of `enroll_present`
  and its commit is enrolled and live by timestamp, and the name goes into a dict
  nobody reads (`Enrollment`: such people are `stray`).
- `orchestrator.py:137`: contradictions "cannot contaminate a durable enrollment's
  sample history". The name is tested before the sample is buffered, and an enrollment
  in between gets a sample that was judged to be nobody's (the last case of
  `EnrollmentStands`).
- `world_model.py:118`: the placeholder of a person who was recognized is taken
  for the next stranger.
- `bus.py:101`: a `publish` that raised is sent all the same, on reconnection;
  several greetings may be spoken together.
- `orchestrator.py:270`: an arrival whose person was recognized while it waited
  is abandoned as "person left".
- `orchestrator.py:223`: an upsert that failed is logged and not tried again; the
  fact is mirrored when somebody tells it once more in the same words.
- `imx500_tripwire.py:108`, `145`: hits add up over gaps, so a detection that
  flickers is born like one that is sustained.
- `cortexd.py:109`: "never an error", and a text whose options are no list raises
  in `parse_think` (`BadList`).
- `cortexd.py:66`: the guard is read before the count goes up, and a job that
  timed out is not counted: more jobs than `queue_depth` may be waiting.
- `prompts.py:147`, `160`: a malformed option is dropped and the model's indices
  are not moved: the action may be another option than the model chose.
- `earsd.py:8`: the robot "never transcribes himself"; frames that wait in the
  device behind a transcription, or sound after the estimate, pass the gate.
- `earsd.py:190`: the pre-roll is not cleared by an utterance that starts with it.
- `earsd.py:85`: `_voice_mqtt_ready` stays true while a crashed `speaker_loop`
  waits to be restarted.
- `evolve.py:218`: the crossover has the density leader's header and the refusal
  specialist's format; the comment says the other way round.
- `ledger.py:63`: a prediction is confirmed "when the child that carries the
  proposed single-gene edit outscores the parent it was derived from"; the child
  is found by an id that keeps ten characters of its parent's (`evolve.py:215`),
  and two parents may be cut to one (8).
- `ledger.py:63`: a reflection that failed counts in the hit rate of predictions.
- `ledger.py:78`: scoring truncates the ledger before it writes it again.

## 8. Only model-checked, or not at all

The safety invariants and action properties of the passing runs are proved for all
constants, each under the premises named in 6 and no others: those of identity that
rest on exclusive tracks without redelivery or a live script, `NoRapidGreeting` while
the bus stays connected, the populations and the champion of `Evolution` without a
crash, all of `WorldModel` at the grain in which an enrollment is one step and
`NameFollowsEnrollment`, `EnrollmentStands` at that of two threads. What
`evo_crash` checks does not hold. Only model-checked are the liveness properties (under
fairness, with ENABLED, out of TLAPS's reach): `ArrivalIsDeliberated`,
`SpeechIsAnswered`, `SceneSettles`, `ReflectionEnds`, `RequestAnswered`,
`UtteranceEnds`. That `Densest` and the holdout subject are the ones the code
means, and the numbers a grade comes to, are read off the source: of them only
types and bounds are proved. Recursion and induction over data are avoided in
modules with theorems: tlapm cannot use RECURSIVE operators, nor the library's
induction theorems.

Not claimed, because it does not hold: between the commit of an enrollment and the
name a live name lags behind the database, and for a person whose presentation was
replaced meanwhile it never comes (`stray`); with redelivered births tracks are not
exclusive, so no name is promised to be supported (`wm_threads` and
`RecordsAreSound` say what is left); with a script beside the process presence and
database may disagree; and beyond generation 3 the ids of the evolution do not
tell genomes apart. `g4-g2-g1-s01-` and `g4-g2-g1-s02-` are two genomes, and the
children of both are `g5-g4-g2-g1-s`: they share a file, a result and the
resolution of predictions. TLC's simulation of `Evolution` with five generations, a
population of six and three texts per gene finds it (`--generations` is 20 by
default). `PopulationSound` and `SurvivorsOnDisk` therefore stop at
`IdsTellApart`, and `PredictionNamesItsChild` at ids of three tags; the runs, of
three generations, stay within both.

Not modelled: numeric code (alignment, embeddings, IoU, the match of a face to a
box), the camera's `FrameGrabber` (one slot for a picture no other state depends
on), prompts, probes' texts and wording, the simulated world of the evaluation,
HTTP and SQL plumbing, the language models, traces, run metadata and the
verifier's evidence file, confidence of facts, reminders, scheduled distillation,
the registry of topics, `genaid` (a lock around each model call), and the
components listed as `not_modelled` in `PROJECT.json`, each with its reason.

## 9. What would come next

The refinement of `Presence` at the grain of `Enrollment`, and with it an enrollment
that `Greeting` makes in steps; the `FrameGrabber` slot with its two requesters; ghosts after a torn stream; a broker
that restarts and records sent twice in `Readiness`; what is left of
`PopulationSound` when a crash falls into the saving of a population; theorems
that the bands of `Grading` order genomes as the rates they stand for.
