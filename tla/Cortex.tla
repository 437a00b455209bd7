------------------------------- MODULE Cortex -------------------------------
(***************************************************************************)
(* cortexd's generation queue (cortexd.py) and what it makes of the text a *)
(* model returns (prompts.py).  Request threads pass a guard that reads    *)
(* _inflight, submit a job to a pool of one worker and wait 90 seconds for *)
(* it; a job nobody waits for any more still runs.  /think asks a second   *)
(* time when the first text cannot be parsed, and answers with a safe wait *)
(* when the second cannot either.                                          *)
(*                                                                         *)
(* A text is what extract_json finds in it: no object (NoJson), an object  *)
(* whose options are no list (BadList), or a record of options, choice and *)
(* backup.  `_inflight += 1` is one step: CPython switches threads only at *)
(* calls and backward jumps, and there is none inside it.                  *)
(***************************************************************************)
EXTENDS Integers, Sequences, FiniteSets

CONSTANTS
  Requests,     \* the server's request threads
  QueueDepth,   \* CFG["queue_depth"]
  MaxOptions,   \* ThinkRequest.max_options
  Texts,        \* what a model may return
  MaxBacklog,   \* bound: jobs waiting in the pool when a request arrives
  MaxRestarts,  \* bound: crashes of cortexd
  NoJson, BadList,
  Raised,       \* a generation that raised: no backend, no memory
  NoText,       \* no result yet
  NoReply,      \* no response yet
  Abandoned,    \* a job nobody waits for any more
  Nothing       \* no job

ASSUME CortexAssumption ==
  /\ IsFiniteSet(Requests)
  /\ QueueDepth \in Nat \ {0}
  /\ MaxOptions \in Nat \ {0}
  /\ \A text \in Texts \ {NoJson, BadList} : text.options \in Seq(STRING)
  /\ MaxBacklog \in Nat
  /\ MaxRestarts \in Nat

VARIABLES
  serving,   \* the process is up and its startup is over
  restarts,  \* crashes so far
  inflight,  \* _inflight
  pc,        \* per request: "idle", "admitted", "waiting", "answered"
  kind,      \* per request: "think", or "text" for vlm_query and distill
  attempt,   \* per request: the attempt it is at
  future,    \* per request: the result of the job it waits for
  reply,     \* per request: the response
  pool,      \* the jobs the worker has not started, by who waits for them
  running    \* the job the worker runs

threadVars == <<pc, kind, attempt, future, reply>>
poolVars   == <<inflight, pool, running>>
cortexVars == <<serving, restarts, threadVars, poolVars>>

CortexInit ==
  /\ serving = TRUE
  /\ restarts = 0
  /\ inflight = 0
  /\ pc = [r \in Requests |-> "idle"]
  /\ kind = [r \in Requests |-> "think"]
  /\ attempt = [r \in Requests |-> 1]
  /\ future = [r \in Requests |-> NoText]
  /\ reply = [r \in Requests |-> NoReply]
  /\ pool = << >>
  /\ running = Nothing

-----------------------------------------------------------------------------
(* parse_think                                                             *)

\* The places of the well-formed options among the first of a text, and these
\* options in order, each under its place.
WellFormed(options) ==
  {i \in 1..Len(options) : i <= MaxOptions + 2 /\ options[i] # "malformed"}

Kept(options) ==
  LET places == WellFormed(options) IN
  [k \in 1..Cardinality(places) |->
     LET i == CHOOSE i \in places : Cardinality(places \cap (1..i)) = k
     IN [idx |-> i - 1, action |-> options[i]]]

Actions(options) == {options[i].action : i \in 1..Len(options)}

\* Appends a wait, or an ask_user, to options that have none.
With(options, action) ==
  IF action \in Actions(options) THEN options
  ELSE Append(options, [idx |-> Len(options), action |-> action])

\* Python's list index, clamped: anything but an index of the list is 0.
Choice(text, n) == IF text.choice \in 0..(n - 1) THEN text.choice ELSE 0

\* Mutant: a backup is only checked against the length.
AnyBackup(text, n) == IF text.backup \in 0..(n - 1) THEN text.backup ELSE 0

\* The backup, or the option after the choice when it is no other option.
Backup(text, n) ==
  IF text.backup \in (0..(n - 1)) \ {Choice(text, n)}
    THEN text.backup
    ELSE (Choice(text, n) + 1) % n

Parses(text) == text \notin {NoJson, BadList} /\ Len(Kept(text.options)) > 0

OptionsOf(text) == With(With(Kept(text.options), "wait"), "ask_user")

\* The response to a text that parses, and to two that do not.
Thought(text, level) ==
  LET options == OptionsOf(text)
      choice == Choice(text, Len(options))
  IN [status |-> "ok", level |-> level, options |-> options, choice |-> choice,
      backup |-> Backup(text, Len(options)), action |-> options[choice + 1].action]

SafePartial ==
  [status |-> "ok", level |-> 2,
   options |-> <<[idx |-> 0, action |-> "ask_user"], [idx |-> 1, action |-> "wait"]>>,
   choice |-> 1, backup |-> 0, action |-> "wait"]

Failure(status) == [status |-> status]

-----------------------------------------------------------------------------
(* Request threads                                                         *)

Respond(r, response) ==
  /\ pc' = [pc EXCEPT ![r] = "answered"]
  /\ reply' = [reply EXCEPT ![r] = response]

\* _queue_guard: 503 when as many generations wait as the queue is deep.
Arrive(r) ==
  /\ serving /\ pc[r] = "idle" /\ Len(pool) <= MaxBacklog
  /\ \E k \in {"think", "text"} : kind' = [kind EXCEPT ![r] = k]
  /\ IF inflight >= QueueDepth
       THEN Respond(r, Failure("saturated"))
       ELSE pc' = [pc EXCEPT ![r] = "admitted"] /\ UNCHANGED reply
  /\ UNCHANGED <<serving, restarts, attempt, future, poolVars>>

\* _generate, up to the wait: the second attempt passes no guard.
Submit(r) ==
  /\ serving /\ pc[r] = "admitted"
  /\ pc' = [pc EXCEPT ![r] = "waiting"]
  /\ inflight' = inflight + 1
  /\ future' = [future EXCEPT ![r] = NoText]
  /\ pool' = Append(pool, r)
  /\ UNCHANGED <<serving, restarts, kind, attempt, reply, running>>

\* Mutant: only a generation that returned is taken off the count.
DoneIfReturned(r) ==
  inflight' = IF future[r] \in {NoText, Raised} THEN inflight ELSE inflight - 1

\* The finally of _generate.
Done(r) == inflight' = inflight - 1

\* think, with a result: one retry, and a text whose options are no list
\* raises in parse_think.
Think(r, text) ==
  CASE text = BadList -> Respond(r, Failure("error")) /\ UNCHANGED attempt
    [] text # BadList /\ Parses(text) ->
         Respond(r, Thought(text, attempt[r] - 1)) /\ UNCHANGED attempt
    [] text # BadList /\ ~Parses(text) /\ attempt[r] = 1 ->
         /\ pc' = [pc EXCEPT ![r] = "admitted"]
         /\ attempt' = [attempt EXCEPT ![r] = 2]
         /\ UNCHANGED reply
    [] OTHER -> Respond(r, SafePartial) /\ UNCHANGED attempt

\* vlm_query and distill, with a result: what it holds is taken apart, and what is
\* no number, or no object, where one must be raises.
Extract(r) ==
  \/ Respond(r, [status |-> "ok", level |-> 0])
  \/ Respond(r, Failure("error"))

\* The job is over: its result, or the exception it raised, reaches the thread.
Collect(r) ==
  /\ serving /\ pc[r] = "waiting" /\ future[r] # NoText
  /\ Done(r)
  /\ IF future[r] = Raised THEN Respond(r, Failure("error")) /\ UNCHANGED attempt
     ELSE IF kind[r] = "think" THEN Think(r, future[r])
     ELSE Extract(r) /\ UNCHANGED attempt
  /\ UNCHANGED <<serving, restarts, kind, future, pool, running>>

\* Mutant: a request waits for its generation as long as it takes.
Patient(r) == FALSE /\ UNCHANGED cortexVars

\* fut.result(timeout=90) gives up; the job stays where it is.
TimeOut(r) ==
  /\ serving /\ pc[r] = "waiting" /\ future[r] = NoText
  /\ Done(r)
  /\ Respond(r, Failure("error"))
  /\ pool' = [i \in 1..Len(pool) |-> IF pool[i] = r THEN Abandoned ELSE pool[i]]
  /\ running' = IF running = r THEN Abandoned ELSE running
  /\ UNCHANGED <<serving, restarts, kind, attempt, future>>

\* The client has its response and the thread goes back to the server's pool.
Return(r) ==
  /\ pc[r] = "answered"
  /\ pc' = [pc EXCEPT ![r] = "idle"]
  /\ reply' = [reply EXCEPT ![r] = NoReply]
  /\ future' = [future EXCEPT ![r] = NoText]
  /\ kind' = [kind EXCEPT ![r] = "think"]
  /\ attempt' = [attempt EXCEPT ![r] = 1]
  /\ UNCHANGED <<serving, restarts, poolVars>>

-----------------------------------------------------------------------------
(* The worker and the process                                              *)

StartJob ==
  /\ serving /\ running = Nothing /\ pool # << >>
  /\ running' = Head(pool)
  /\ pool' = Tail(pool)
  /\ UNCHANGED <<serving, restarts, threadVars, inflight>>

\* A generation ends, and the thread that waits for it, if any, has a result.
EndJob ==
  /\ serving /\ running # Nothing
  /\ running' = Nothing
  /\ IF running = Abandoned THEN UNCHANGED future
     ELSE \E text \in Texts \cup {Raised} :
            future' = [future EXCEPT ![running] = text]
  /\ UNCHANGED <<serving, restarts, pc, kind, attempt, reply, inflight, pool>>

\* cortexd dies: whoever waits for it sees the connection close.
CrashCortex ==
  /\ serving /\ restarts < MaxRestarts
  /\ serving' = FALSE
  /\ restarts' = restarts + 1
  /\ inflight' = 0
  /\ pool' = << >>
  /\ running' = Nothing
  /\ pc' = [r \in Requests |-> IF pc[r] \in {"admitted", "waiting"}
                               THEN "answered" ELSE pc[r]]
  /\ reply' = [r \in Requests |-> IF pc[r] \in {"admitted", "waiting"}
                                  THEN Failure("error") ELSE reply[r]]
  /\ UNCHANGED <<kind, attempt, future>>

\* _startup: the model is resident again before the first request is taken.
BootCortex ==
  /\ ~serving
  /\ serving' = TRUE
  /\ UNCHANGED <<restarts, threadVars, poolVars>>

CortexNext ==
  \/ \E r \in Requests :
       Arrive(r) \/ Submit(r) \/ Collect(r) \/ TimeOut(r) \/ Return(r)
  \/ StartJob \/ EndJob \/ CrashCortex \/ BootCortex

\* Request threads run and the 90 seconds pass; a generation may never end.
CortexFairness ==
  /\ WF_cortexVars(BootCortex)
  /\ \A r \in Requests :
       WF_cortexVars(Submit(r)) /\ WF_cortexVars(Collect(r) \/ TimeOut(r))

-----------------------------------------------------------------------------
(* Properties                                                              *)

\* _inflight is the number of requests that wait for the model: no timeout, no
\* exception and no retry leaves it too high, where a leak of QueueDepth would
\* have every later request refused, or too low.
InflightIsHonest == inflight = Cardinality({r \in Requests : pc[r] = "waiting"})

\* Whatever text the model returns, a thought offers a wait and an ask_user,
\* its choice and its backup are two different options of it, and its action
\* is the choice; the safe partial chooses to wait.
ThoughtIsExecutable ==
  \A r \in Requests :
    LET t == reply[r] IN
    pc[r] = "answered" /\ t # NoReply /\ t.status = "ok" /\ kind[r] = "think" =>
      LET n == Len(t.options) IN
      /\ {"wait", "ask_user"} \subseteq Actions(t.options)
      /\ t.choice \in 0..(n - 1) /\ t.backup \in 0..(n - 1) /\ t.choice # t.backup
      /\ t.action = t.options[t.choice + 1].action
      /\ t.level = 2 => t.action = "wait"

\* Every request is answered, a hung generation or a dead server included.
RequestAnswered ==
  \A r \in Requests : pc[r] = "admitted" ~> pc[r] = "answered"
=============================================================================
